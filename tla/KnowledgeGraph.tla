----------------------------- MODULE KnowledgeGraph -----------------------------
(***************************************************************************)
(* The graph of what is known about a Component (knowledge_graph.py): the  *)
(* records the reference index attaches to the Component or to a part of   *)
(* it, one join of syntheses and topics to those, the Components they are  *)
(* about, and the hierarchy above them for orientation.  Each scope has a  *)
(* graph for every mode; titles, files and diagnostics are left out.       *)
(***************************************************************************)
EXTENDS ReferenceNavigation

CONSTANTS
  Above  \* public identity -> its ancestors along part_of, to the Systems

AboveAssumption ==
  /\ PublicIds \subseteq DOMAIN Above
  /\ \A i \in DOMAIN Above : i \notin Above[i] /\ \A a \in Above[i] : Above[a] \subseteq Above[i]

VARIABLE withdrawn  \* the records that are drafts or archived

Components == {i \in PublicIds : Kind[i] = "Component"}
Modes == {"architecture", "knowledge-detail", "rq-overlay", "pilot"}
Types == {"paper", "reading_note", "finding", "synthesis", "topic"}

Current(i) == i \in Ids \ (PublicIds \cup withdrawn)
Knowledge(i) == Current(i) /\ Kind[i] \in Types

(* --- what is selected ----------------------------------------------------- *)

\* Mutant: the scope takes in what it is a part of.
WithAncestors(scope, mode) == {scope} \cup Above[scope] \cup {c \in Components : scope \in Above[c]}

\* The Component and its parts; the pilot graph has the Component alone.
Subjects(scope, mode) ==
  {scope} \cup {c \in Components : mode # "pilot" /\ scope \in Above[c]}

Attached(rs, subjects) == {r \in rs : Eligible(rs, r) /\ EdgeOf(r) = "E9" /\ r[3] \in subjects}
Core(rs, subjects) ==
  {r[1] : r \in {s \in Attached(rs, subjects) : Knowledge(s[1])}}
    \cup UNION {Seen(p) \ subjects : p \in {q \in Paths(rs) :
                  EndOf(q) \in subjects /\ \A i \in Seen(q) \ subjects : Knowledge(i)}}

\* What a synthesis or a topic is about, of the types it may be about.
About(rs, i) ==
  {r[3] : r \in {s \in rs : s[1] = i /\ s[2] \in
                   CASE Kind[i] = "synthesis" -> {"finding_refs"}
                     [] Kind[i] = "topic"     -> {"paper_refs", "finding_refs"}
                     [] OTHER                 -> {}}}

\* One join to the frozen core: what is joined joins nothing further.
Joined(rs, core) == core \cup {i \in Ids : Knowledge(i) /\ About(rs, i) \cap core # {}}
Selected(rs, subjects) == Joined(rs, Core(rs, subjects))

(* --- declarations: [from, to, class] --------------------------------------- *)

Declaration(from, to, class) == [from |-> from, to |-> to, class |-> class]

\* Roles at Components, and what selected records say of each other.
RecordLinks(selected) ==
  {Declaration(r[1], r[3], "research") : r \in {s \in refs : s[1] \in selected /\ Eligible(refs, s)
     /\ \/ EdgeOf(s) = "E9" /\ s[3] \in Components
        \/ EdgeOf(s) \in {"E1", "E2", "E3", "E4", "E5"} /\ s[3] \in selected}}

JoinLinks(core, selected) ==
  {Declaration(i, t, "research") : <<i, t>> \in {p \in selected \X core :
     p[2] \in About(refs, p[1]) /\ <<p[1], IF Kind[p[2]] = "paper" THEN "paper_refs" ELSE "finding_refs", p[2]>> \in refs}}

SubjectsOf(question) ==
  {r[3] : r \in {s \in refs : s[1] = question /\ s[2] = "research_direct_subject_refs"
                   /\ s[3] \in PublicIds /\ Kind[s[3]] \in Technical}}

Questions(subjects, mode) ==
  {i \in Ids : /\ mode \in {"rq-overlay", "pilot"} /\ Current(i) /\ Kind[i] = "research_question"
               /\ i \notin LegacyIds /\ SubjectsOf(i) \cap subjects # {}}

WithAbove(anchors) == anchors \cup UNION {Above[a] : a \in anchors}

DefaultSkeleton(anchors, asked) == WithAbove(anchors)

Direct(a, b) == b \in Above[a] /\ ~\E c \in Above[a] : b \in Above[c]
PartOf(skeleton) ==
  {Declaration(a, b, "skeleton") : <<a, b>> \in {p \in skeleton \X skeleton : Direct(p[1], p[2])}}

\* Orientation leaves out what attached records say of each other, and nothing else.
WithoutDetail(links, anchors, skeleton) ==
  LET attached == {d.from : d \in {e \in links : e.to \in anchors /\ e.class = "research"}}
  IN  {d \in links : \/ d.class = "skeleton" \/ d.to \in skeleton
                     \/ d.from \notin attached \/ d.to \notin attached}

(* --- the graph of a scope -------------------------------------------------- *)

GraphOf(subjects, core, questions, mode) ==
  LET selected == Joined(refs, core)
      asked == (UNION {SubjectsOf(q) : q \in questions}) \cap Components
      anchors == subjects \cup {d.to : d \in {e \in RecordLinks(selected) : e.to \in Components}}
      skeleton == WithAbove(anchors \cup asked)
      overlay == questions \cup (skeleton \ DefaultSkeleton(anchors, asked))
      links == RecordLinks(selected) \cup JoinLinks(core, selected) \cup PartOf(skeleton)
                 \cup {Declaration(q, c, "research") : <<q, c>> \in
                         {p \in questions \X Components : p[2] \in SubjectsOf(p[1])}}
  IN  [selected |-> selected, skeleton |-> skeleton, overlay |-> overlay,
       nodes |-> selected \cup questions \cup skeleton,
       links |-> IF mode \in {"architecture", "rq-overlay"}
                 THEN WithoutDetail(links, anchors \cup asked, skeleton) ELSE links]

Graph(scope, mode) ==
  LET subjects == Subjects(scope, mode)
  IN  GraphOf(subjects, Core(refs, subjects), Questions(subjects, mode), mode)

\* The links a reader sees, with the question overlay switched on or off.
Pairs(graph, overlay) ==
  LET shown == graph.nodes \ (IF overlay THEN {} ELSE graph.overlay)
  IN  {<<d.from, d.to>> : d \in {e \in graph.links : e.from \in shown /\ e.to \in shown}}

(* --- authors -------------------------------------------------------------- *)

GraphInit == Init /\ withdrawn = {}
DeclareReference(r) == Declare(r) /\ UNCHANGED withdrawn
Withdraw(i) == withdrawn = {} /\ withdrawn' = {i} /\ UNCHANGED refs
GraphNext ==
  \/ \E r \in Declarable : DeclareReference(r)
  \/ \E i \in Ids \ PublicIds : Withdraw(i)
GraphSpec == GraphInit /\ [][GraphNext]_<<refs, withdrawn>>

(* --- properties ----------------------------------------------------------- *)

\* Ancestors and siblings only orient: what a graph selects is what it would select if nobody had
\* declared a role at any Component outside the scope (project_graph: "Only selected subtree selects
\* knowledge").
OnlySubtreeSelects ==
  \A scope \in Components, mode \in Modes :
    LET inside == {c \in Components : c = scope \/ (mode # "pilot" /\ scope \in Above[c])}
    IN  Graph(scope, mode).selected
          = Selected({r \in refs : r[3] \in Components => r[3] \in inside}, Subjects(scope, mode))

\* Nothing is dropped in silence: both ends of every link of a graph are nodes of it, and a record
\* that is withdrawn is in no graph (Projection.pairs leaves out links with a missing end).
LinksHaveBothEnds ==
  \A scope \in Components, mode \in Modes :
    \A graph \in {Graph(scope, mode)} :
      /\ \A d \in graph.links : {d.from, d.to} \subseteq graph.nodes
      /\ graph.nodes \cap withdrawn = {}

\* Questions are an overlay: with the overlay off, the graph of the overlay mode is the graph of the
\* architecture mode, node for node and link for link.
OverlayOnlyAdds ==
  \A scope \in Components :
    \A with \in {Graph(scope, "rq-overlay")}, without \in {Graph(scope, "architecture")} :
      /\ with.nodes \ with.overlay = without.nodes
      /\ Pairs(with, FALSE) = Pairs(without, TRUE)
      /\ without.overlay = {}

\* Leaving the detail out strands no record: what hangs on a Component, over any number of links,
\* when the detail is shown hangs on one when it is not.
Hanging(graph) ==
  LET pairs == Pairs(graph, TRUE)
      near[n \in 0..4] ==
        IF n = 0 THEN graph.skeleton
        ELSE LET done == near[n - 1]
             IN  done \cup {i \in graph.nodes : \E j \in done : <<i, j>> \in pairs \/ <<j, i>> \in pairs}
  IN  near[4]

NoRecordStranded ==
  \A scope \in Components :
    Hanging(Graph(scope, "knowledge-detail")) \subseteq Hanging(Graph(scope, "architecture"))
=============================================================================
