----------------------------- MODULE DirectViews -----------------------------
(***************************************************************************)
(* The two projectors that write into a private vault: the technical atlas *)
(* (root "T") from the committed Registry, and the direct views (root "V") *)
(* from the Registry and the authored notes, over a technical root without *)
(* drift.  Each checks everything it owns before the first write, replaces *)
(* file by file and writes its manifest last.  It can die in between,      *)
(* files are edited at any time, and the inputs go back and forth.         *)
(***************************************************************************)
EXTENDS Integers, FiniteSets

CONSTANTS
  MaxMoves, MaxCrashes, MaxEdits, MaxLosses,  \* bounds of a behaviour
  None

ViewsAssumption == {MaxMoves, MaxCrashes, MaxEdits, MaxLosses} \subseteq Nat

VARIABLES
  inputs,  \* <<committed Registry, authored notes>>
  files,   \* path -> content or None
  run,     \* the running projector: its root, inputs, what it still removes and writes; or None
  late,    \* files edited since it checked them
  died,    \* the projector that died last, while nothing else happened; or None
  moves, crashes, edits, losses

vars == <<inputs, files, run, late, died, moves, crashes, edits, losses>>

Roots == {"T", "V"}
Manifest(r) == IF r = "T" THEN "tman" ELSE "vman"
Bases == {"base"}                       \* owned by their meaning
Exact == {"page", "page2", "index"}     \* an edit is refused
Marked == {"rec", "rec2", "note"}       \* an edit below the owner marker is written over
Under(r) == IF r = "T" THEN {"rec", "rec2", "hero", "tman"} ELSE {"base", "page", "page2", "note", "index", "vman"}
Paths == Under("T") \cup Under("V")

Registries == {1, 2}  \* the second one has an identity more
Authored == {1, 2}    \* the second one knows a source more

\* A file is what it was emitted from and how it was touched: "dress" keeps the meaning of a base,
\* "body" keeps the owner marker of a file, "marker" does not.
Emitted(p, i) == [at |-> IF p \in Under("T") THEN <<i[1], 1>> ELSE i, touch |-> "none"]
Tree(r, i) ==
  IF r = "T" THEN {"rec", "hero", "tman"} \cup (IF i[1] = 2 THEN {"rec2"} ELSE {})
  ELSE {"base", "page", "note", "index", "vman"} \cup (IF i[1] = 2 THEN {"page2"} ELSE {})

Contents == [at : Registries \X Authored, touch : {"none", "dress", "body", "marker"}]
NoneAssumption == None \notin Contents

Init ==
  /\ inputs = <<1, 1>>
  /\ files = [p \in Paths |-> None]
  /\ run = None /\ late = {} /\ died = None
  /\ moves = 0 /\ crashes = 0 /\ edits = 0 /\ losses = 0

(* --- the preflight ------------------------------------------------------ *)

Actual(fs, r) == {p \in Under(r) : fs[p] # None}
Listed(fs, r) ==
  IF fs[Manifest(r)] = None THEN {} ELSE Tree(r, fs[Manifest(r)].at) \ {Manifest(r)}

CheckPasses(fs, r, i) ==
  Actual(fs, r) = Tree(r, i) /\ \A p \in Tree(r, i) : fs[p] = Emitted(p, i)

SameMeaning(data, emitted) == data.at = emitted.at /\ data.touch \in {"none", "dress"}

\* A listed file is the projector's own: as it was emitted, or as this run would emit it, or marked.
Owned(fs, r, p, i) ==
  LET data == fs[p]
      item == Emitted(p, fs[Manifest(r)].at)
      now == IF p \in Tree(r, i) THEN {item, Emitted(p, i)} ELSE {item} IN
  /\ p \in Bases => \E e \in now : SameMeaning(data, e)
  /\ p = "hero" => data = item
  /\ p \in Exact => data \in now
  /\ p \in Marked => data.touch # "marker" /\ (p \notin Tree(r, i) => data = item)

Ownership(fs, r, i) ==
  /\ Actual(fs, r) \ {Manifest(r)} \subseteq Listed(fs, r)
  /\ \A p \in Actual(fs, r) \cap Listed(fs, r) : Owned(fs, r, p, i)

\* Known sources stay known; a lost index is accepted only if this run emits the very same.
HistoryKept(fs, i) ==
  "index" \in Listed(fs, "V") =>
    IF fs["index"] = None THEN Emitted("index", i) = Emitted("index", fs["vman"].at)
    ELSE i[2] >= fs["index"].at[2]

Accepts(fs, r, i) ==
  /\ Ownership(fs, r, i)
  /\ r = "V" => Ownership(fs, "T", i) /\ CheckPasses(fs, "T", i) /\ HistoryKept(fs, i)

(* --- a run -------------------------------------------------------------- *)

Project ==
  /\ run = None
  /\ \E r \in Roots :
       /\ Accepts(files, r, inputs)
       /\ run' = [root |-> r, at |-> inputs, obsolete |-> Listed(files, r) \ Tree(r, inputs),
                  todo |-> Tree(r, inputs) \ {Manifest(r)}]
  /\ late' = {} /\ died' = None
  /\ UNCHANGED <<inputs, files, moves, crashes, edits, losses>>

Remove ==
  /\ run # None
  /\ \E p \in run.obsolete :
       /\ files' = [files EXCEPT ![p] = None]
       /\ run' = [run EXCEPT !.obsolete = @ \ {p}]
  /\ UNCHANGED <<inputs, late, died, moves, crashes, edits, losses>>

Write ==
  /\ run # None /\ run.obsolete = {}
  /\ \E p \in run.todo :
       /\ files' = [files EXCEPT ![p] = Emitted(p, run.at)]
       /\ run' = [run EXCEPT !.todo = @ \ {p}]
  /\ UNCHANGED <<inputs, late, died, moves, crashes, edits, losses>>

WriteManifest ==
  /\ run # None /\ run.obsolete = {} /\ run.todo = {}
  /\ files' = [files EXCEPT ![Manifest(run.root)] = Emitted(Manifest(run.root), run.at)]
  /\ run' = None
  /\ UNCHANGED <<inputs, late, died, moves, crashes, edits, losses>>

Crash ==
  /\ run # None /\ crashes < MaxCrashes
  /\ died' = IF late = {} /\ run.at = inputs THEN run ELSE None
  /\ run' = None /\ crashes' = crashes + 1
  /\ UNCHANGED <<inputs, files, late, moves, edits, losses>>

(* --- everybody else ----------------------------------------------------- *)

InputsMove ==
  /\ moves < MaxMoves
  /\ inputs' \in (Registries \X Authored) \ {inputs}
  /\ moves' = moves + 1 /\ died' = None
  /\ UNCHANGED <<files, run, late, crashes, edits, losses>>

Edit ==
  /\ edits < MaxEdits
  /\ \E p \in Paths \ {"tman", "vman"} :
       /\ files[p] # None
       /\ \E touch \in (IF p \in Bases THEN {"dress", "body"} ELSE {"body", "marker"}) :
            files' = [files EXCEPT ![p].touch = touch]
       /\ late' = late \cup {p}
  /\ edits' = edits + 1 /\ died' = None
  /\ UNCHANGED <<inputs, run, moves, crashes, losses>>

\* The operator moves a file out of the roots, or loses it.
MoveOut ==
  /\ run = None /\ losses < MaxLosses
  /\ \E p \in Paths : files[p] # None /\ files' = [files EXCEPT ![p] = None]
  /\ losses' = losses + 1 /\ died' = None
  /\ UNCHANGED <<inputs, run, late, moves, crashes, edits>>

Next ==
  \/ Project \/ Remove \/ Write \/ WriteManifest \/ Crash
  \/ InputsMove \/ Edit \/ MoveOut

Spec == Init /\ [][Next]_vars

(* --- properties --------------------------------------------------------- *)

\* The vault and the running projector are well formed.
TypeOK ==
  /\ inputs \in Registries \X Authored /\ files \in [Paths -> Contents \cup {None}]
  /\ run # None =>
       /\ run.root \in Roots /\ run.at \in Registries \X Authored
       /\ run.todo \subseteq Under(run.root) /\ run.obsolete \cap Tree(run.root, run.at) = {}
  /\ late \subseteq Paths

\* A projector writes over an operator's edit only if it came after the checks, or if the file
\* still carries its marker and is emitted again; what is no longer emitted is never deleted edited.
EditsOutliveProjection ==
  run # None /\ run' # None /\ run.root = run'.root =>
    \A p \in Paths :
      ( /\ files[p] # None /\ files[p].touch \in {"body", "marker"}
        /\ files'[p] # files[p] /\ edits' = edits )
        => \/ p \in late
           \/ p \in Marked /\ files[p].touch = "body" /\ p \in Tree(run.root, run.at)

\* When the views are published at a Registry, the technical records they link to are those of the
\* same Registry, unless an editor came in between.
ViewsStandOnTheirRecords ==
  (run # None /\ run.root = "V" /\ files'["vman"] # files["vman"]) =>
    \A p \in Under("T") :
      \/ p \in late
      \/ files[p] = (IF p \in Tree("T", run.at) THEN Emitted(p, run.at) ELSE None)

\* Known sources never disappear from one published index to the next, whatever was interrupted or
\* lost in between, as long as the manifest was not moved out.
PublishedSourcesStay ==
  (files["vman"] # None /\ files'["vman"] # None) => files'["vman"].at[2] >= files["vman"].at[2]

\* An interrupted run of the views can be repeated at its own inputs: once the outputs that no
\* manifest lists are moved out, nothing it left is taken for an edit.
InterruptedViewsGoOn ==
  (died # None /\ died.root = "V") =>
    LET unlisted == Actual(files, "V") \ (Listed(files, "V") \cup {"vman"})
        kept == [p \in Paths |-> IF p \in unlisted THEN None ELSE files[p]] IN
    Accepts(kept, "V", inputs)

\* docs/research-atlas/Private Research Wiki Projection.md:114 says of an interruption "apply can
\* rewrite paths still covered by the prior valid manifest": so could the technical projector.
InterruptedRecordsGoOn ==
  (died # None /\ died.root = "T" /\ Actual(files, "T") \ {"tman"} \subseteq Listed(files, "T")) =>
    Accepts(files, "T", inputs)
=============================================================================
