---------------------------- MODULE SourceHistory ----------------------------
(***************************************************************************)
(* The private source catalog and the records that refer to it: references *)
(* of papers and reading notes are resolved exactly or not at all, and a   *)
(* new index is published only if it keeps what the last one said.  The    *)
(* notes are edited freely between two publications.                       *)
(***************************************************************************)
EXTENDS Integers, FiniteSets

CONSTANTS
  Families, Versions, Alias,  \* declared identities and one exact alias
  ReadRefs, PreferenceRefs,   \* what a reading and a family may name, None among them
  Retractable, Revising,      \* versions that may be retracted, and may supersede another
  MaxPublications,
  None

\* Families, versions and the alias are different names; a family called "paper" could not be told
\* from the reference to a reading's own paper.
SourceAssumption ==
  /\ MaxPublications \in Nat
  /\ Families # {} /\ Families \cap Versions = {} /\ {Alias, None} \cap (Families \cup Versions) = {}
  /\ "paper" \notin Families /\ Alias # None

VARIABLES
  authored,     \* the catalog and the records of the last publication, or None
  publications

vars == <<authored, publications>>

Targets == Families \cup Versions

\* A reference resolved: its status, what it names, and what is said about it.
Resolution(status, target, why) == [status |-> status, target |-> target, why |-> why]
Rejected(why) == Resolution("rejected", None, {why})

\* Bindings of the alias: up to two, possibly to the same identity.
Bindings ==
  {[t \in Targets |-> (IF t = p THEN 1 ELSE 0) + (IF t = q THEN 1 ELSE 0)] :
     p \in Targets \cup {None}, q \in Targets \cup {None}}

\* A version is of one declared family, it supersedes versions of its family, and an alias is
\* bound to what is declared.
Declared(c) == c.families \cup {v \in Versions : c.family[v] # None}
Catalogs ==
  {c \in [families : SUBSET Families, family : [Versions -> Families \cup {None}],
          bound : Bindings, retracted : SUBSET Retractable, revises : SUBSET Revising,
          preference : [Families -> PreferenceRefs]] :
     /\ \A v \in Versions : c.family[v] \in c.families \cup {None}
     /\ \A t \in Targets : c.bound[t] > 0 => t \in Declared(c)
     /\ \A p \in c.revises : p[1] # p[2] /\ c.family[p[1]] # None /\ c.family[p[1]] = c.family[p[2]]
     /\ \A f \in Families : f \notin c.families => c.preference[f] = None
     /\ c.retracted \subseteq Declared(c)}

\* The paper names some families, or is absent; a reading note refers to it or to a family.
Papers == {None, {CHOOSE f \in Families : TRUE}, {Alias}, Families}
Readings == [of : {"paper", CHOOSE f \in Families : TRUE}, version : ReadRefs] \cup {None}
Snapshots == [catalog : Catalogs \cup {None}, paper : Papers, reading : Readings]

(* --- resolution --------------------------------------------------------- *)

Matches(c, ref) ==
  IF ref = Alias THEN c.bound
  ELSE [t \in Targets |-> IF t = ref /\ t \in Declared(c) THEN 1 ELSE 0]

\* Mutant: what is not found is given back as it was.
EchoReference(c, ref, kind) ==
  IF c # None /\ \E t \in kind : Matches(c, ref)[t] = 1
  THEN Resolution("resolved", CHOOSE t \in kind : Matches(c, ref)[t] = 1, {})
  ELSE Resolution("unresolved", ref, {"unresolved-reference"})

\* Exactly one identity of the right kind, or nothing.
Resolve(c, ref, kind) ==
  LET unresolved == Resolution("unresolved", None, {"unresolved-reference"}) IN
  IF ref = None \/ c = None THEN unresolved
  ELSE LET m == Matches(c, ref)
           hits == {t \in Targets : m[t] > 0} IN
       IF hits = {} THEN unresolved
       ELSE IF Cardinality(hits) > 1 \/ \E t \in hits : m[t] > 1
            THEN Resolution("conflict", None, {"duplicate-exact-alias"})
       ELSE LET t == CHOOSE t \in hits : TRUE IN
            IF t \in kind THEN Resolution("resolved", t, {}) ELSE Rejected("wrong-source-type")

\* A version of another family is not what was read.
InFamily(c, read, family) ==
  IF /\ read.status = "resolved"
     /\ family.status = "resolved" => c.family[read.target] # family.target
  THEN Rejected("cross-family-version") ELSE read

Preferred(c, f) ==
  LET r == Resolve(c, c.preference[f], Versions) IN
  IF r.status # "resolved" THEN [r EXCEPT !.why = @ \cup {"preferred-version-unresolved"}]
  ELSE IF c.family[r.target] # f THEN Rejected("preferred-version-cross-family")
  ELSE IF r.target \in c.retracted
       THEN Resolution("resolved", r.target, {"preferred-version-retracted"})
  ELSE r

PaperFamily(s) ==
  IF Cardinality(s.paper) # 1 THEN Rejected("paper-family-count")
  ELSE Resolve(s.catalog, CHOOSE ref \in s.paper : TRUE, Families)

ReadingFamily(s) ==
  IF s.reading.of # "paper" THEN Resolve(s.catalog, s.reading.of, Families)
  ELSE IF s.paper = None THEN Resolution("unresolved", None, {"reading-paper-unavailable"})
  ELSE PaperFamily(s)

VersionRead(s) ==
  InFamily(s.catalog, Resolve(s.catalog, s.reading.version, Versions), ReadingFamily(s))

\* What the intake says of a reading: why it is not resolved; what happened to the version read;
\* that its family now prefers another.
Diagnostics(s) ==
  LET read == VersionRead(s) IN
  ReadingFamily(s).why \cup read.why \cup
  (IF read.status # "resolved" THEN {}
   ELSE LET v == read.target
            preferred == Preferred(s.catalog, s.catalog.family[v]) IN
        (IF v \in s.catalog.retracted THEN {"retracted"} ELSE {})
        \cup (IF \E w \in Versions : <<w, v>> \in s.catalog.revises THEN {"superseded"} ELSE {})
        \cup (IF preferred.target \notin {None, v} THEN {"different-navigation-version"} ELSE {}))

(* --- publication -------------------------------------------------------- *)

\* Known families and versions stay, in the family they were in.
ValidateSourceHistory(old, new) ==
  old # None =>
    LET known == IF new = None THEN {} ELSE Declared(new) IN
    /\ Declared(old) \subseteq known
    /\ \A v \in Versions : old.family[v] # None => new.family[v] = old.family[v]

\* The same reference of a reading keeps naming the version it named.
ValidateReadProvenance(old, new) ==
  ( /\ old.reading # None /\ new.reading # None /\ new.reading.version = old.reading.version
    /\ VersionRead(old).status = "resolved" )
    => VersionRead(new).status = "resolved" /\ VersionRead(new).target = VersionRead(old).target

Init == authored = None /\ publications = 0

Publish ==
  /\ publications < MaxPublications
  /\ \E c \in Catalogs \cup {None}, p \in Papers, r \in Readings :
       authored' = [catalog |-> c, paper |-> p, reading |-> r]
  /\ authored # None =>
       /\ ValidateSourceHistory(authored.catalog, authored'.catalog)
       /\ ValidateReadProvenance(authored, authored')
  /\ publications' = publications + 1

Next == Publish

Spec == Init /\ [][Next]_vars

(* --- properties --------------------------------------------------------- *)

\* The published snapshot and what is resolved of it are well formed.
TypeOK ==
  /\ authored \in Snapshots \cup {None} /\ publications \in 0..MaxPublications
  /\ (authored # None /\ authored.reading # None) =>
       VersionRead(authored).target \in Versions \cup {None}

\* A reading that keeps its reference keeps, from one publication to the next, the version it read
\* and the family of it, however catalog, aliases, paper and note were rewritten in between.
ReadStaysPut ==
  ( /\ authored # None /\ authored.reading # None /\ authored'.reading # None
    /\ authored'.reading.version = authored.reading.version
    /\ VersionRead(authored).status = "resolved" )
  => /\ VersionRead(authored') = VersionRead(authored)
     /\ ReadingFamily(authored').target = ReadingFamily(authored).target

\* A version is taken for what was read only if exactly one thing is meant, a version of the very
\* family its paper or source names; otherwise the report says why.
ReadingSpeaksForItsPaper ==
  (authored # None /\ authored.reading # None) =>
    LET read == VersionRead(authored)
        c == authored.catalog
        meant == {t \in Targets : c # None /\ authored.reading.version # None
                                  /\ Matches(c, authored.reading.version)[t] > 0} IN
    IF read.status = "resolved"
    THEN meant = {read.target} /\ c.family[read.target] = ReadingFamily(authored).target
    ELSE Diagnostics(authored) # {}

\* What a family prefers for navigation is of its own; a reading of another version is told so, and
\* a retracted preference never goes unsaid.
PreferenceStaysAtHome ==
  (authored # None /\ authored.catalog # None) =>
    \A f \in authored.catalog.families :
      LET p == Preferred(authored.catalog, f) IN
      /\ p.status = "resolved" => authored.catalog.family[p.target] = f
      /\ p.target \in authored.catalog.retracted => p.why # {}
      /\ (authored.reading # None /\ p.status = "resolved") =>
           LET read == VersionRead(authored) IN
           (read.status = "resolved" /\ ReadingFamily(authored).target = f /\ read.target # p.target)
             => "different-navigation-version" \in Diagnostics(authored)
=============================================================================
