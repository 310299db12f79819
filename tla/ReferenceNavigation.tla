-------------------------- MODULE ReferenceNavigation --------------------------
(***************************************************************************)
(* The declared-reference index: authors declare and withdraw references   *)
(* between papers, readings, findings, questions and processes, and the    *)
(* index classifies each one and strings the eligible ones together into   *)
(* finite navigation paths from a paper to a component, a technical        *)
(* subject, a question or a process.                                       *)
(***************************************************************************)
EXTENDS Integers, Sequences, FiniteSets, SequencesExt

CONSTANTS
  Kind,        \* identity -> its type; private records and public entities
  PublicIds,   \* the identities that are registry entities
  LegacyIds,   \* private records of the old profile
  Properties,  \* <<declaring type, property, target>> an author may write
  MaxRefs

NavigationAssumption ==
  /\ PublicIds \cup LegacyIds \subseteq DOMAIN Kind /\ PublicIds \cap LegacyIds = {}
  /\ MaxRefs \in Nat

VARIABLE refs  \* the declared references <<source, property, target>>

Ids == DOMAIN Kind
Technical == {"System", "Component", "Interface", "Contract", "DataArtifact", "MeasurementPoint"}
Roles == {"research_direct_subject_refs", "research_method_or_baseline_refs",
          "research_measurement_relevance_refs", "research_project_transfer_refs",
          "research_adjacent_context_refs"}
Expected == [paper_refs |-> {"paper"}, reading_note_refs |-> {"reading_note"},
             finding_refs |-> {"finding"}, rq_refs |-> {"research_question"},
             process_refs |-> {"process"}]

\* What may be declared: records of the current profile only carry references.
Declarable ==
  {r \in (Ids \ (PublicIds \cup LegacyIds)) \X {p[2] : p \in Properties} \X {p[3] : p \in Properties} :
     r[1] # r[3] /\ <<Kind[r[1]], r[2], r[3]>> \in Properties}

Init == refs = {}

(* --- classification ------------------------------------------------------ *)

Resolves(id) == id \in Ids
Is(id, type) == Resolves(id) /\ id \notin LegacyIds /\ Kind[id] = type
TerminalView(id) ==
  CASE id \in PublicIds /\ Kind[id] = "Component" -> "component"
    [] id \in PublicIds /\ Kind[id] \in Technical \ {"Component"} -> "technical"
    [] Is(id, "research_question") -> "rq"
    [] id \notin PublicIds /\ Is(id, "process") -> "process"
    [] OTHER -> "none"

TypeCheck(property, target) ==
  IF ~Resolves(target) THEN "unresolved"
  ELSE IF property \notin DOMAIN Expected THEN "not-constrained"
  ELSE IF Kind[target] \in Expected[property] THEN "match" ELSE "mismatch"

\* The nine edges, each for one declaring type; "A" is every other reference.
EdgeOf(r) ==
  LET from == Kind[r[1]]  property == r[2]  target == r[3]
      Fits(type, props, targetType) == from = type /\ property \in props /\ Is(target, targetType) IN
  CASE Fits("reading_note", {"paper_refs", "source_refs"}, "paper") -> "E1"
    [] Fits("paper", {"reading_note_refs"}, "reading_note") -> "E2"
    [] Fits("finding", {"source_refs"}, "paper") -> "E3"
    [] Fits("reading_note", {"finding_refs"}, "finding") -> "E4"
    [] Fits("finding", {"reading_note_refs"}, "reading_note") -> "E5"
    [] from \in {"reading_note", "finding"} /\ property = "rq_refs" /\ Is(target, "research_question") -> "E6"
    [] Fits("research_question", {"finding_refs"}, "finding") -> "E7"
    [] Fits("process", {"rq_refs"}, "research_question") -> "E8"
    [] from \in {"paper", "reading_note", "finding"} /\ property \in Roles /\ TerminalView(target) # "none" -> "E9"
    [] OTHER -> "A"

\* The papers a reading names: it confirms a paper that names it when that is the only one.
Confirmation(rs, reading) == {r \in rs : r[1] = reading /\ r[2] \in {"paper_refs", "source_refs"}}

\* A reference that can be walked along: of its type, to a record of the current profile, on one of
\* the nine edges, and a paper's own list of readings only where the reading agrees.
Eligible(rs, r) ==
  /\ TypeCheck(r[2], r[3]) \in {"match", "not-constrained"} /\ r[3] \notin LegacyIds
  /\ EdgeOf(r) # "A"
  /\ EdgeOf(r) = "E2" => Cardinality(Confirmation(rs, r[3])) = 1 /\ \A c \in Confirmation(rs, r[3]) : c[3] = r[1]

\* A hop along a reference; five of the edges are walked from what is named to who names it.
HopOf(r) ==
  LET edge == EdgeOf(r)  back == edge \in {"E1", "E3", "E5", "E7", "E8"} IN
  [ref |-> r, edge |-> edge, from |-> IF back THEN r[3] ELSE r[1], to |-> IF back THEN r[1] ELSE r[3]]
Outgoing(rs) == {HopOf(r) : r \in {s \in rs : Eligible(rs, s)}}

(* --- navigation paths: a start and the hops walked -------------------------- *)

EndOf(path) == IF path.hops = <<>> THEN path.start ELSE Last(path.hops).to
Seen(path) == {path.start} \cup {path.hops[i].to : i \in DOMAIN path.hops}
EdgesOf(path) == [i \in DOMAIN path.hops |-> path.hops[i].edge]

\* Every extension by one hop along one of edges: never past a role, never longer than four hops,
\* never back to where the path has been.
Extend(path, hops, edges) ==
  {[path EXCEPT !.hops = Append(@, h)] :
     h \in {g \in hops : /\ g.edge \in edges /\ g.from = EndOf(path) /\ g.to \notin Seen(path)
                         /\ Len(path.hops) < 4 /\ \A i \in DOMAIN path.hops : path.hops[i].edge # "E9"}}

Anchors == {[start |-> p, prefix |-> "K0", hops |-> <<>>] : p \in {i \in Ids : Is(i, "paper")}}

\* Readings (K1) and findings (K2) of a paper and findings of its readings (K3); from each the roles,
\* the questions, and from the questions the processes.
PathsAlong(hops) ==
  LET All(paths, edges, prefix) ==
        {[p EXCEPT !.prefix = prefix] : p \in UNION {Extend(q, hops, edges) : q \in paths}}
      k1 == All(Anchors, {"E1", "E2"}, "K1")
      k2 == All(Anchors, {"E3"}, "K2")
      k3 == All(k1, {"E4", "E5"}, "K3")
      roles == UNION {Extend(q, hops, {"E9"}) : q \in Anchors \cup k1 \cup k2 \cup k3}
      questions == (UNION {Extend(q, hops, {"E6"}) : q \in k1})
                     \cup UNION {Extend(q, hops, {"E6", "E7"}) : q \in k2 \cup k3} IN
  roles \cup questions \cup UNION {Extend(q, hops, {"E8"}) : q \in questions}
Paths(rs) == PathsAlong(Outgoing(rs))

(* --- the contract every technical path is validated against -------------- *)

Signatures ==
  [K0 |-> {<<>>}, K1 |-> {<<"E1">>, <<"E2">>}, K2 |-> {<<"E3">>},
   K3 |-> {<<a, b>> : a \in {"E1", "E2"}, b \in {"E4", "E5"}}]

\* Every hop's declaration is of its edge's types, and an E2 hop is confirmed exactly once.
ValidTechnicalPrefix(rs, path) ==
  \A i \in 1..Len(path.hops) - 1 :
    LET h == path.hops[i] IN
    h.edge = "E2" => Cardinality({c \in Confirmation(rs, h.to) : EdgeOf(c) = "E1" /\ c[3] = h.from}) = 1

ExactTechnicalAttachment(path) ==
  LET r == Last(path.hops).ref IN
  /\ Last(path.hops).edge = "E9" /\ r[2] \in Roles /\ Kind[r[1]] \in {"paper", "reading_note", "finding"}
  /\ r[3] \in PublicIds /\ Kind[r[3]] \in Technical

FiniteTechnicalRecipe(rs, path) ==
  /\ path.hops # <<>> /\ Is(path.start, "paper")
  /\ Front(EdgesOf(path)) \in Signatures[path.prefix]
  /\ Cardinality(Seen(path)) = Len(path.hops) + 1
  /\ \A i \in 1..Len(path.hops) - 1 : path.hops[i].to = path.hops[i + 1].from
  /\ ExactTechnicalAttachment(path) /\ ValidTechnicalPrefix(rs, path)

(* --- authors ------------------------------------------------------------- *)

\* A reference is declared.  (Withdrawing it leads back: what is compared below is both sides.)
Declare(r) == r \notin refs /\ Cardinality(refs) < MaxRefs /\ refs' = refs \cup {r}
Next == \E r \in Declarable : Declare(r)
Spec == Init /\ [][Next]_refs

(* --- properties ---------------------------------------------------------- *)

\* References are between records of the current profile and what they may name.
TypeOK ==
  /\ \A r \in refs : r[1] \in Ids \ (PublicIds \cup LegacyIds)
  /\ Cardinality(refs) <= MaxRefs
  /\ \A p \in Paths(refs) : Seen(p) \subseteq Ids

\* The index is always built: no declared set of references makes the closed recipe contract refuse
\* a technical path the builder strung together.
BuilderMeetsContract ==
  \A p \in Paths(refs) : TerminalView(EndOf(p)) = "technical" => FiniteTechnicalRecipe(refs, p)

\* A paper is never shown through a reading that does not name it: whoever declared the link, the
\* first hop of a path to a reading is one that the reading itself states.
ReadingsNameTheirPaper ==
  \A p \in Paths(refs) : (p.hops # <<>> /\ Is(p.hops[1].to, "reading_note"))
    => \E c \in Confirmation(refs, p.hops[1].to) : c[3] = p.start

\* Roles belong to the record that declares them: no path goes on from what a role names, so a
\* process is only reached by way of a question the walked records refer to.
RolesAreNotInherited ==
  \A p \in Paths(refs) : \A i \in DOMAIN p.hops : p.hops[i].edge = "E9" => i = Len(p.hops)

\* A reference that is declared never takes a path away, but for a reading that names one more paper,
\* and every path it brings leads along it or rests on it as the confirmation of a reading.
PathsFollowDeclarations ==
  LET before == Paths(refs)  after == Paths(refs')
      r == CHOOSE s \in refs' : s \notin refs
      names == r[2] \in {"paper_refs", "source_refs"}
      Rests(p) == \E i \in DOMAIN p.hops :
        p.hops[i].ref = r \/ (names /\ p.hops[i].edge = "E2" /\ p.hops[i].to = r[1]) IN
  /\ names \/ before \subseteq after
  /\ \A p \in after \ before : Rests(p)
=============================================================================
