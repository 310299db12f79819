------------------------------- MODULE MCAtlas -------------------------------
(* The research atlas and what it publishes, on small instances: references   *)
(* and paths, graphs, source versions, pages and reviewed conclusions. The    *)
(* parts share no state, so each is explored on its own: Init chooses the     *)
(* part, and the slots x1, x2, ... hold that part's variables.                *)
EXTENDS Integers, Sequences, FiniteSets

CONSTANT None

VARIABLES part, x1, x2, x3, x4, x5, x6

(* Two papers, a reading and a finding, a question, a process, a Component and an *)
(* Interface, and a reading of the old profile.                                   *)
NavKind ==
  [p1 |-> "paper", p2 |-> "paper", r1 |-> "reading_note", f1 |-> "finding",
   q1 |-> "research_question", s1 |-> "process", c1 |-> "Component", i1 |-> "Interface",
   old |-> "reading_note"]
NavProperties ==
  {<<"reading_note", "paper_refs", "p1">>, <<"reading_note", "source_refs", "p2">>}
  \cup ({"paper"} \X {"reading_note_refs"} \X {"r1", "old"})
  \cup {<<"finding", "source_refs", "p1">>, <<"finding", "reading_note_refs", "r1">>,
        <<"reading_note", "finding_refs", "f1">>, <<"reading_note", "rq_refs", "q1">>,
        <<"finding", "rq_refs", "q1">>, <<"research_question", "finding_refs", "f1">>,
        <<"process", "rq_refs", "q1">>,
        <<"finding", "research_direct_subject_refs", "i1">>,
        <<"reading_note", "research_adjacent_context_refs", "i1">>,
        <<"finding", "research_direct_subject_refs", "q1">>,
        <<"paper", "research_project_transfer_refs", "c1">>,
        <<"finding", "paper_refs", "missing">>}

(* A System with a Component of two parts, a paper with a reading and a finding, a *)
(* synthesis, a topic and a question.                                             *)
WebKind ==
  [p1 |-> "paper", r1 |-> "reading_note", f1 |-> "finding", y1 |-> "synthesis", t1 |-> "topic",
   q1 |-> "research_question", top |-> "Component", left |-> "Component", right |-> "Component",
   sys |-> "System"]
WebAbove == [left |-> {"top", "sys"}, right |-> {"top", "sys"}, top |-> {"sys"}, sys |-> {}]
WebProperties ==
  {<<"reading_note", "paper_refs", "p1">>, <<"finding", "source_refs", "p1">>,
   <<"finding", "reading_note_refs", "r1">>, <<"synthesis", "finding_refs", "f1">>,
   <<"topic", "paper_refs", "p1">>,
   <<"paper", "research_project_transfer_refs", "left">>,
   <<"paper", "research_project_transfer_refs", "top">>,
   <<"reading_note", "research_adjacent_context_refs", "right">>,
   <<"finding", "research_direct_subject_refs", "left">>,
   <<"finding", "research_direct_subject_refs", "right">>,
   <<"research_question", "research_direct_subject_refs", "left">>,
   <<"research_question", "research_direct_subject_refs", "right">>}

(* A paper with two reading notes, a finding of its authors and an inference, a   *)
(* synthesis, a search and the question.                                          *)
Blank == [sources |-> {}, notes |-> {}, locations |-> {}, findings |-> {},
          origin |-> "our_inference", checked |-> FALSE, question |-> FALSE, context |-> None]
Read(checked) == [Blank EXCEPT !.sources = {"p1"}, !.checked = checked]
Found(notes, locations) ==
    [Blank EXCEPT !.sources = {"p1"}, !.notes = notes, !.locations = locations,
                  !.origin = "authors_result"]
Selected == [Blank EXCEPT !.context = [finding |-> "f1", note |-> "n1"]]
Inferred == [Blank EXCEPT !.sources = {"p1"}]
Joined(findings) == [Blank EXCEPT !.findings = findings, !.question = TRUE]
Searched(question) == [Blank EXCEPT !.question = question]
Asks(establishes, evidence) ==
    [findings |-> {"f1", "f2"}, syntheses |-> {"s1"}, searches |-> {"x1"},
     literature |-> {[paper |-> "p1", owner |-> "p1"]},
     nearest |-> {[paper |-> "p1", evidence |-> evidence]}, establishes |-> establishes]

FirstContents ==
    [p1 |-> Selected, n1 |-> Read(TRUE), n2 |-> Read(TRUE), f1 |-> Found({"n1"}, {"n1"}),
     f2 |-> Inferred, s1 |-> Joined({"f1"}), x1 |-> Searched(TRUE), q1 |-> Asks({"s1"}, {"f1"})]
Contents ==
    [p1 |-> {Selected, [Selected EXCEPT !.context.finding = "f2"]},
     n1 |-> {Read(TRUE), Read(FALSE)}, n2 |-> {Read(TRUE), Read(FALSE)},
     f1 |-> {Found({"n1"}, {"n1"}), Found({"n1", "n2"}, {"n1"}), Found({"n2"}, {"n1"})},
     f2 |-> {Inferred, [Inferred EXCEPT !.origin = "own_empirical_result"]},
     s1 |-> {Joined({"f1"}), Joined({"f1", "f2"})},
     x1 |-> {Searched(TRUE), Searched(FALSE)},
     q1 |-> {Asks({"s1"}, {"f1"}), Asks({"s1", "f2"}, {"f1"}), Asks({"f1"}, {"f2"})}]

Navigation == INSTANCE ReferenceNavigation WITH
  Kind <- NavKind, PublicIds <- {"c1", "i1"}, LegacyIds <- {"old"}, Properties <- NavProperties,
  MaxRefs <- 5,
  refs <- x1

\* The graphs of every Component and mode, over declared references.
Web == INSTANCE KnowledgeGraph WITH
  Kind <- WebKind, PublicIds <- {"top", "left", "right", "sys"}, LegacyIds <- {},
  Properties <- WebProperties, MaxRefs <- 3, Above <- WebAbove,
  refs <- x1, withdrawn <- x2

\* Two publications of two families, an alias and one reading.
Publications == INSTANCE SourceHistory WITH
  Families <- {"f1", "f2"}, Versions <- {"v1", "v2"}, Alias <- "alias", ReadRefs <- {"alias"},
  PreferenceRefs <- {None}, Retractable <- {}, Revising <- {}, MaxPublications <- 2,
  authored <- x1, publications <- x2

\* One publication with preferences, retractions and revisions.
Index == INSTANCE SourceHistory WITH
  Families <- {"f1", "f2"}, Versions <- {"v1", "v2"}, Alias <- "alias",
  ReadRefs <- {"v1", "alias", None}, PreferenceRefs <- {"v2", "alias", None},
  Retractable <- {"v2"}, Revising <- {<<"v1", "v2">>, <<"v2", "v1">>}, MaxPublications <- 1,
  authored <- x1, publications <- x2

Paths == INSTANCE AtlasPaths WITH
  Components <- {"perception", "retrieval", "c1"}, Interfaces <- {}, Systems <- {"agent"},
  Names <- {"Perception", "Identities"}, Pilot <- "perception", PilotStem <- "Perception",
  Hub <- "retrieval", IdentitiesName <- "Identities",
  atlas <- x1

\* The final product of every small registry.
Product == INSTANCE ResearchMap WITH
  Components <- {"perception", "retrieval"}, Interfaces <- {"port"}, Systems <- {"agent"},
  Names <- {"Perception", "Identities"}, Pilot <- "perception", PilotStem <- "Perception",
  Hub <- "retrieval", IdentitiesName <- "Identities",
  Modes <- {"Architecture", "Knowledge Detail", "Questions"}, Details <- {"retrieval", "port"},
  Public <- "public", Private <- "private",
  atlas <- x1

Reader == INSTANCE ReviewedConclusions WITH
  Papers <- {"p1"}, Notes <- {"n1", "n2"}, Findings <- {"f1", "f2"}, Syntheses <- {"s1"},
  Searches <- {"x1"}, Question <- "q1", Drafts <- Contents, First <- FirstContents, MaxEdits <- 3,
  content <- x1, version <- x2, maturity <- x3, conclusion <- x4, reviewed <- x5, edits <- x6

ASSUME
  /\ Navigation!NavigationAssumption /\ Web!AboveAssumption /\ Publications!SourceAssumption
  /\ Paths!PathAssumption /\ Reader!ReaderAssumption

-----------------------------------------------------------------------------
(* Slots a part does not need stay empty. *)
from3 == <<x3, x4, x5, x6>>
from2 == <<x2, from3>>
slots == <<x1, from2>>

Empty3 == x3 = None /\ x4 = None /\ x5 = None /\ x6 = None
Empty2 == x2 = None /\ Empty3

vars == <<part, slots>>

Init == \/ part = "navigation" /\ Navigation!Init /\ Empty2
        \/ part = "web" /\ Web!GraphInit /\ Empty3
        \/ part = "publications" /\ Publications!Init /\ Empty3
        \/ part = "index" /\ Index!Init /\ Empty3
        \/ part = "paths" /\ Paths!Init /\ Empty2
        \/ part = "product" /\ Product!Init /\ Empty2
        \/ part = "reader" /\ Reader!Init

NavigationStep == part = "navigation" /\ Navigation!Next /\ UNCHANGED <<part, from2>>
WebStep == part = "web" /\ Web!GraphNext /\ UNCHANGED <<part, from3>>
PublicationsStep == part = "publications" /\ Publications!Next /\ UNCHANGED <<part, from3>>
IndexStep == part = "index" /\ Index!Next /\ UNCHANGED <<part, from3>>
PathsStep == part = "paths" /\ Paths!Next /\ UNCHANGED <<part, from2>>
ProductStep == part = "product" /\ Product!Next /\ UNCHANGED <<part, from2>>
ReaderStep == part = "reader" /\ Reader!Next /\ UNCHANGED part

Next == \/ NavigationStep \/ WebStep \/ PublicationsStep \/ IndexStep \/ PathsStep
        \/ ProductStep \/ ReaderStep
Spec == Init /\ [][Next]_vars

-----------------------------------------------------------------------------
(* Properties. *)

\* Declared references, snapshots, titles and contents are of their kinds, in every part.
TypeOK ==
  /\ part = "navigation" => Navigation!TypeOK
  /\ part = "web" => Web!TypeOK
  /\ part = "publications" => Publications!TypeOK
  /\ part = "index" => Index!TypeOK
  /\ part = "paths" => Paths!TypeOK
  /\ part = "product" => Product!TypeOK
  /\ part = "reader" => Reader!TypeOK

\* A page shows what its authors declared, neither more nor less: paths follow the declared roles
\* and readings to their own papers, graphs take in their subtree and lose no link, the separate
\* walks over part_of agree and no accepted registry makes one raise, and a source version is
\* named only when exactly one is meant.
ReadersShowWhatWasDeclared ==
  /\ part = "navigation" => /\ Navigation!BuilderMeetsContract
                            /\ Navigation!ReadingsNameTheirPaper
                            /\ Navigation!RolesAreNotInherited
  /\ part = "web" => /\ Web!OnlySubtreeSelects /\ Web!LinksHaveBothEnds
                     /\ Web!OverlayOnlyAdds /\ Web!NoRecordStranded
  /\ part \in {"publications", "index"} => /\ Index!ReadingSpeaksForItsPaper
                                           /\ Index!PreferenceStaysAtHome
  /\ part = "paths" => Paths!DescentMirrorsAncestry /\ Paths!ViewsAcceptWhatValidates

\* A change of one thing leaves what rests on others where it was: conclusions stay on the page
\* while what they rest on stays as it was reviewed and go when it does not, old paths and links
\* lead to their text in the new product, a reference that is added takes no path away, a reading
\* keeps the version it read and a page its place.
ChangesReachWhatRestsOnThem ==
  /\ [](/\ part = "reader" => /\ Reader!ReviewedTextIsCurrent /\ Reader!GapsAreReviewed
                              /\ Reader!WithdrawnSourcesSilence
        /\ part = "product" => /\ Product!EveryOldPathArrives /\ Product!LinksLandOnTheirText
                               /\ Product!CompleteRegistriesPackage)
  /\ [][/\ part = "navigation" => Navigation!PathsFollowDeclarations
        /\ part \in {"publications", "index"} => Publications!ReadStaysPut
        /\ part = "paths" => Paths!PagesStay]_vars
===============================================================================
