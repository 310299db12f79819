----------------------------- MODULE ZoteroHistory -----------------------------
(***************************************************************************)
(* The projection of Zotero exports into a vault: every version of a       *)
(* source that was ever projected is kept, a manifest written last says    *)
(* which files are owned and with which digest, and a new projection       *)
(* builds on what it finds.  It can die between two files, files get lost, *)
(* and any export may follow any other.                                    *)
(***************************************************************************)
EXTENDS Integers, FiniteSets

CONSTANTS
  Families, Labels, Notes,  \* sources, version labels of each, states of their metadata and annotations
  MaxRevision, MaxCrashes, MaxLosses,
  None

ZoteroAssumption == MaxRevision \in Nat \ {0} /\ {MaxCrashes, MaxLosses} \subseteq Nat
NoneAssumption ==
  LET payloads == [pred : (Families \X Labels) \cup {None}, note : Notes, rev : 1..MaxRevision]
      trees == [Families \X Labels -> payloads \cup {None}] IN
  /\ None \notin Labels \cup (Families \X Labels) \cup payloads
  /\ None \notin [label : Labels, pred : Labels \cup {None}, note : Notes]
  /\ None \notin trees /\ None \notin [owned : trees, current : SUBSET (Families \X Labels)]

VARIABLES
  export,    \* the fixture: for each family, the exported version or None
  revision,  \* its export revision
  files,     \* version -> payload or None
  index,     \* the index files
  manifest,  \* the payloads it lists and the current versions, or None
  todo, tree,  \* files the running projection has still to write, and what it writes
  crashes, losses

vars == <<export, revision, files, index, manifest, todo, tree, crashes, losses>>

Versions == Families \X Labels
Items == [label : Labels, pred : Labels \cup {None}, note : Notes]
Exports == [Families -> Items \cup {None}]

\* An exported version names its predecessor or not; none is its own.
ParseFixture ==
  {e \in Exports : \A f \in Families : e[f] # None => e[f].pred # e[f].label}

Init ==
  /\ export \in ParseFixture /\ revision = 1
  /\ files = [v \in Versions |-> None] /\ index = None /\ manifest = None
  /\ todo = {} /\ tree = None
  /\ crashes = 0 /\ losses = 0

Listed == IF manifest = None THEN {} ELSE {v \in Versions : manifest.owned[v] # None}
PriorCurrent == IF manifest = None THEN {} ELSE manifest.current
Present == {v \in Versions : files[v] # None}
Current == {<<f, export[f].label>> : f \in {g \in Families : export[g] # None}}

\* Mutant: the revision is the next one.
StampNext(v) ==
  LET item == export[v[1]]
      pred == IF item.pred = None THEN None ELSE <<v[1], item.pred>> IN
  [pred |-> IF files[v] = None THEN pred ELSE files[v].pred, note |-> item.note, rev |-> revision + 1]

\* The payload of an exported version: a known one keeps its predecessor, and its revision unless
\* something material changed.
RecordFor(v) ==
  LET item == export[v[1]]
      pred == IF item.pred = None THEN None ELSE <<v[1], item.pred>>
      old == files[v] IN
  IF old = None THEN [pred |-> pred, note |-> item.note, rev |-> revision]
  ELSE [pred |-> old.pred, note |-> item.note,
        rev |-> IF old.note = item.note THEN old.rev ELSE revision]

\* What is asked of an exported version.
Admissible(v) ==
  LET item == export[v[1]]
      pred == IF item.pred = None THEN None ELSE <<v[1], item.pred>>
      old == files[v] IN
  /\ (old # None /\ pred # None) => pred = old.pred
  /\ (old = None /\ (pred # None \/ (v \notin Listed /\ \E w \in Listed : w[1] = v[1]))) =>
       pred \in Present
  /\ (v \in Listed /\ old = None) => RecordFor(v) = manifest.owned[v]
  /\ (old # None /\ v \notin PriorCurrent) => RecordFor(v) = old

Records == [v \in Versions |-> IF v \in Current THEN RecordFor(v) ELSE files[v]]

Reconstructible ==
  /\ Present \subseteq Listed
  /\ Listed \ Present \subseteq Current
  /\ \A v \in Present : files[v] = manifest.owned[v]
  /\ \A v \in Current : Admissible(v)
  /\ \A v \in Versions :
       (IF Records[v] = None THEN None ELSE Records[v].pred)
          \in {None} \cup {w \in Versions : Records[w] # None}

\* The whole tree is built and checked in memory before the first write.
Project ==
  /\ tree = None /\ Reconstructible
  /\ tree' = Records
  /\ todo' = {v \in Versions : Records[v] # files[v]}
  /\ UNCHANGED <<export, revision, files, index, manifest, crashes, losses>>

Built == [owned |-> tree, current |-> Current]

\* Files are written one by one, each atomically: the indexes first, then the payloads that changed.
WriteIndex ==
  /\ tree # None /\ index # Built
  /\ index' = Built
  /\ UNCHANGED <<export, revision, files, manifest, todo, tree, crashes, losses>>

WritePayload ==
  /\ tree # None /\ index = Built
  /\ \E v \in todo : files' = [files EXCEPT ![v] = tree[v]] /\ todo' = todo \ {v}
  /\ UNCHANGED <<export, revision, index, manifest, tree, crashes, losses>>

WriteManifest ==
  /\ tree # None /\ index = Built /\ todo = {}
  /\ manifest' = Built
  /\ tree' = None
  /\ UNCHANGED <<export, revision, files, index, todo, crashes, losses>>

Crash ==
  /\ tree # None /\ crashes < MaxCrashes
  /\ tree' = None /\ todo' = {} /\ crashes' = crashes + 1
  /\ UNCHANGED <<export, revision, files, index, manifest, losses>>

Export ==
  /\ tree = None /\ revision < MaxRevision
  /\ export' \in ParseFixture /\ revision' = revision + 1
  /\ UNCHANGED <<files, index, manifest, todo, tree, crashes, losses>>

\* The operator moves what is not listed outside the root; a file may also get lost.
MoveOut ==
  /\ tree = None
  /\ \E v \in Present \ Listed : files' = [files EXCEPT ![v] = None]
  /\ UNCHANGED <<export, revision, index, manifest, todo, tree, crashes, losses>>

Lose ==
  /\ tree = None /\ losses < MaxLosses
  /\ \E v \in Present : files' = [files EXCEPT ![v] = None]
  /\ losses' = losses + 1
  /\ UNCHANGED <<export, revision, index, manifest, todo, tree, crashes>>

Next ==
  \/ Project \/ WriteIndex \/ WritePayload \/ WriteManifest
  \/ Crash \/ Export \/ MoveOut \/ Lose

Spec == Init /\ [][Next]_vars

(* --- properties ---------------------------------------------------------- *)

\* The state is well formed.
Payloads == [pred : Versions \cup {None}, note : Notes, rev : 1..MaxRevision] \cup {None}
TypeOK ==
  /\ export \in Exports /\ revision \in 1..MaxRevision
  /\ files \in [Versions -> Payloads] /\ todo \subseteq Versions
  /\ manifest = None \/ (manifest.owned \in [Versions -> Payloads] /\ manifest.current \subseteq Listed)
  /\ tree = None \/ tree \in [Versions -> Payloads]

\* Predecessors lead back to a first version: however exports, losses and interruptions follow each
\* other, the listed versions of a family never form a ring or point at what is not listed.
LineageEnds ==
  /\ \A v \in Listed : manifest.owned[v].pred \in Listed \cup {None}
  /\ \A ring \in (SUBSET Listed) \ {{}} : \E v \in ring : manifest.owned[v].pred \notin ring

\* What a projection once listed stays listed with its predecessor, and a version that is no longer
\* current is never rewritten by it.
HistoryIsKept ==
  \A v \in Listed :
    /\ v \in Listed' /\ manifest'.owned[v].pred = manifest.owned[v].pred
    /\ v \notin PriorCurrent => manifest'.owned[v] = manifest.owned[v]

\* A payload and the revision it carries change together with its notes: an export that leaves a
\* source as it was leaves its bytes.
UnchangedSourcesKeepTheirBytes ==
  \A v \in Listed :
    manifest'.owned[v].note = manifest.owned[v].note => manifest'.owned[v] = manifest.owned[v]

\* Whatever the manifest lists was written before it: a listed file that differs was lost, or is
\* the newer payload of a current version, left by an interrupted projection.
ManifestIsLast ==
  \A v \in Listed : files[v] # manifest.owned[v] =>
    \/ files[v] = None /\ losses > 0
    \/ files[v] # None /\ v \in PriorCurrent /\ files[v].note # manifest.owned[v].note
         /\ (tree # None \/ crashes > 0)

\* docs/research-atlas/Zotero Source Projection Contract.md:201 says "Existing prior-owned current
\* payload drift can be regenerated": nothing else is in the way of the same export, repeated.
CurrentDriftIsRegenerated ==
  LET drifted == {v \in Present \cap PriorCurrent \cap Current : files[v] # manifest.owned[v]} IN
  ( /\ tree = None /\ losses = 0 /\ Present = Listed
    /\ \A v \in Listed \ drifted : files[v] = manifest.owned[v]
    /\ \A v \in Current : v \in Listed /\ export[v[1]].pred = None /\ v \in PriorCurrent )
    => Reconstructible
=============================================================================
