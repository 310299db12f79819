------------------------------- MODULE MCVault -------------------------------
(* Commands over files that people edit too, on small instances: the vault,   *)
(* the Zotero history, the direct views, the workspace, the handoff of a      *)
(* checkout and the spatial corpus. The parts share no state, so each is      *)
(* explored on its own: Init chooses the part, and the slots x1, x2, ... hold *)
(* that part's variables.                                                     *)
EXTENDS Integers, Sequences, FiniteSets, TLAPS

CONSTANT None

VARIABLES part, x1, x2, x3, x4, x5, x6, x7, x8, x9, x10

Splits == [f1 |-> "train", f2 |-> "test"]

\* The migration, the lineage, the views, the workspace, the pair and the serial corpus.
First == INSTANCE VaultProofs WITH
  MaxCrashes <- 2, MaxEdits <- 1, MaxMoves <- 1, MaxPoints <- 1,
  Families <- {"f1"}, Labels <- {"l1", "l2", "l3"}, Notes <- {"n1", "n2"}, MaxRevision <- 3,
  ZCrashes <- 1, ZLosses <- 1,
  VMoves <- 1, VCrashes <- 1, VEdits <- 1, VLosses <- 0,
  Ids <- {"a", "b"}, Names <- {"n1", "n2"}, Related <- {<<"a", "b">>},
  Leftovers <- {"cut"}, MaxChanges <- 1, WEdits <- 1, MaxDeaths <- 1,
  Machines <- {"m1", "m2"}, Repos <- {"project"}, Expected <- "project", Forms <- {"https"},
  MaxCommits <- 2, MaxSettings <- 0,
  Frames <- <<"f1", "f2">>, Split <- Splits, Required <- {"train"},
  Statuses <- {"usable", "uncertain"}, Width <- 2, MaxDisplay <- 1, Overlapping <- FALSE, MaxSteps <- 5,
  vault <- x1, inputs <- x2, points <- x3, pc <- x4, op <- x5, crashes <- x6, edits <- x7, moves <- x8,
  export <- x1, revision <- x2, zfiles <- x3, zindex <- x4, zmanifest <- x5, ztodo <- x6, ztree <- x7,
  zcrashes <- x8, zlosses <- x9,
  registry <- x1, wfiles <- x2, writer <- x3, loaded <- x4, wtodo <- x5, outcome <- x6, touched <- x7,
  spent <- x8,
  current <- x1, views <- x2, running <- x3, late <- x4, died <- x5, vmoves <- x6, vcrashes <- x7,
  vedits <- x8, vlosses <- x9,
  server <- x1, work <- x2, config <- x3, dirty <- x4, tracking <- x5, fetched <- x6, doctor <- x7,
  report <- x8, made <- x9, changes <- x10,
  file <- x1, intact <- x2, pending <- x3, window <- x4, steps <- x5

\* The migrations one after the other, the sources, the views that lose a file, the renames, the settings
\* and the commands that overlap.
Second == INSTANCE VaultProofs WITH
  MaxCrashes <- 1, MaxEdits <- 0, MaxMoves <- 1, MaxPoints <- 2,
  Families <- {"f1", "f2"}, Labels <- {"l1"}, Notes <- {"n1", "n2"}, MaxRevision <- 3,
  ZCrashes <- 1, ZLosses <- 1,
  VMoves <- 2, VCrashes <- 1, VEdits <- 0, VLosses <- 1,
  Ids <- {"a", "b"}, Names <- {"n1", "n2"}, Related <- {<<"a", "b">>},
  Leftovers <- {"empty", "cut"}, MaxChanges <- 2, WEdits <- 0, MaxDeaths <- 1,
  Machines <- {"m1"}, Repos <- {"project", "fork"}, Expected <- "project", Forms <- {"https"},
  MaxCommits <- 2, MaxSettings <- 2,
  Frames <- <<"f1", "f2">>, Split <- Splits, Required <- {"train"},
  Statuses <- {"usable", "uncertain"}, Width <- 2, MaxDisplay <- 1, Overlapping <- TRUE, MaxSteps <- 4,
  vault <- x1, inputs <- x2, points <- x3, pc <- x4, op <- x5, crashes <- x6, edits <- x7, moves <- x8,
  export <- x1, revision <- x2, zfiles <- x3, zindex <- x4, zmanifest <- x5, ztodo <- x6, ztree <- x7,
  zcrashes <- x8, zlosses <- x9,
  registry <- x1, wfiles <- x2, writer <- x3, loaded <- x4, wtodo <- x5, outcome <- x6, touched <- x7,
  spent <- x8,
  current <- x1, views <- x2, running <- x3, late <- x4, died <- x5, vmoves <- x6, vcrashes <- x7,
  vedits <- x8, vlosses <- x9,
  server <- x1, work <- x2, config <- x3, dirty <- x4, tracking <- x5, fetched <- x6, doctor <- x7,
  report <- x8, made <- x9, changes <- x10,
  file <- x1, intact <- x2, pending <- x3, window <- x4, steps <- x5

ASSUME SuiteAssumption ==
  /\ First!MigrationAssumption /\ First!NoneAssumption
  /\ Second!MigrationAssumption /\ Second!NoneAssumption
  /\ First!Zotero!ZoteroAssumption /\ First!Zotero!NoneAssumption
  /\ Second!Zotero!ZoteroAssumption /\ Second!Zotero!NoneAssumption
  /\ First!Views!ViewsAssumption /\ First!Views!NoneAssumption
  /\ Second!Views!ViewsAssumption /\ Second!Views!NoneAssumption
  /\ First!Workspace!WorkspaceAssumption /\ First!Workspace!NoneAssumption
  /\ Second!Workspace!WorkspaceAssumption /\ Second!Workspace!NoneAssumption
  /\ First!Desk!HandoffAssumption /\ First!Desk!NoneAssumption
  /\ Second!Desk!HandoffAssumption /\ Second!Desk!NoneAssumption
  /\ First!Corpus!CorpusAssumption /\ Second!Corpus!CorpusAssumption

-----------------------------------------------------------------------------
(* Slots a part does not need stay empty. *)
from10 == <<x10>>
from9 == <<x9, from10>>
from6 == <<x6, x7, x8, from9>>
slots == <<x1, x2, x3, x4, x5, from6>>

Empty10 == x10 = None
Empty9 == x9 = None /\ Empty10
Empty6 == x6 = None /\ x7 = None /\ x8 = None /\ Empty9

vars == <<part, slots>>

Init == \/ part = "migration" /\ First!Init /\ Empty9
        \/ part = "repeated" /\ Second!Init /\ Empty9
        \/ part = "lineage" /\ First!Zotero!Init /\ Empty10
        \/ part = "sources" /\ Second!Zotero!Init /\ Empty10
        \/ part = "views" /\ First!Views!Init /\ Empty10
        \/ part = "lost" /\ Second!Views!Init /\ Empty10
        \/ part = "workspace" /\ First!Workspace!Init /\ Empty9
        \/ part = "renames" /\ Second!Workspace!Init /\ Empty9
        \/ part = "pair" /\ First!Desk!Init
        \/ part = "settings" /\ Second!Desk!Init
        \/ part = "serial" /\ First!Corpus!Init /\ Empty6
        \/ part = "overlap" /\ Second!Corpus!Init /\ Empty6

MigrationStep == part = "migration" /\ First!Next /\ UNCHANGED <<part, from9>>
RepeatedStep == part = "repeated" /\ Second!Next /\ UNCHANGED <<part, from9>>
LineageStep == part = "lineage" /\ First!Zotero!Next /\ UNCHANGED <<part, from10>>
SourcesStep == part = "sources" /\ Second!Zotero!Next /\ UNCHANGED <<part, from10>>
ViewsStep == part = "views" /\ First!Views!Next /\ UNCHANGED <<part, from10>>
LostStep == part = "lost" /\ Second!Views!Next /\ UNCHANGED <<part, from10>>
WorkspaceStep == part = "workspace" /\ First!Workspace!Next /\ UNCHANGED <<part, from9>>
RenamesStep == part = "renames" /\ Second!Workspace!Next /\ UNCHANGED <<part, from9>>
PairStep == part = "pair" /\ First!Desk!Next /\ UNCHANGED part
SettingsStep == part = "settings" /\ Second!Desk!Next /\ UNCHANGED part
SerialStep == part = "serial" /\ First!Corpus!Next /\ UNCHANGED <<part, from6>>
OverlapStep == part = "overlap" /\ Second!Corpus!Next /\ UNCHANGED <<part, from6>>

Next == \/ MigrationStep \/ RepeatedStep \/ LineageStep \/ SourcesStep \/ ViewsStep \/ LostStep
        \/ WorkspaceStep \/ RenamesStep \/ PairStep \/ SettingsStep \/ SerialStep
        \/ OverlapStep
Spec == Init /\ [][Next]_vars

-----------------------------------------------------------------------------
(* Properties. *)

\* Files, manifests, restore points and the running commands are of their kinds, in every part.
TypeOK ==
  /\ part = "migration" => First!TypeOK
  /\ part = "repeated" => Second!TypeOK
  /\ part = "lineage" => First!Zotero!TypeOK
  /\ part = "sources" => Second!Zotero!TypeOK
  /\ part = "views" => First!Views!TypeOK
  /\ part = "lost" => Second!Views!TypeOK
  /\ part = "workspace" => First!Workspace!TypeOK
  /\ part = "renames" => Second!Workspace!TypeOK
  /\ part = "pair" => First!Desk!TypeOK
  /\ part = "settings" => Second!Desk!TypeOK

\* Wherever a command dies, what it leaves is told from an edit by hand: every file is listed as it
\* is or some receipt takes it back, an interrupted view can be generated again, a manifest lists
\* only what was written before it, a version's ancestors are all there, and a writer that nobody
\* disturbed finds nothing to object to when it checks what it wrote.
InterruptedCommandsRecover ==
  /\ part = "migration" => First!WholeOrRecoverable /\ First!LastCheckHolds
  /\ part = "repeated" => Second!WholeOrRecoverable /\ Second!LastCheckHolds
  /\ part = "lineage" => First!Zotero!LineageEnds /\ First!Zotero!ManifestIsLast
  /\ part = "sources" => Second!Zotero!ManifestIsLast
  /\ part = "views" => First!Views!InterruptedViewsGoOn
  /\ part = "lost" => Second!Views!InterruptedViewsGoOn
  /\ part = "workspace" => First!Workspace!UndisturbedRunsConverge /\ First!Workspace!DoneLeavesNoTrace
  /\ part = "renames" => Second!Workspace!UndisturbedRunsConverge /\ Second!Workspace!DoneLeavesNoTrace

\* A frozen corpus is what was reviewed, what the window undoes is what was saved, and a checkout that
\* is called safe has handed all its work over.
WhatIsSaidOfWorkHolds(p) ==
  /\ p = "pair" => First!Desk!SafeMeansHandedOver /\ First!Desk!SafeHeadsAreOneLine
  /\ p = "settings" => Second!Desk!SafeMeansHandedOver
  /\ p = "serial" => First!Corpus!FrozenWasReviewed /\ First!Corpus!UndoLeadsBack
  /\ p = "overlap" => /\ Second!Corpus!FrozenWasReviewed /\ Second!Corpus!UndoLeadsBack
                      /\ Second!Corpus!DrawnWhereClicked

\* No step changes a file that was edited since its command listed it, or loses a source, an annotation
\* or an earlier version; a save over a corpus that other commands write meanwhile loses nothing unless
\* its copy is stale.
StepsKeepWork(p) ==
  /\ p = "migration" => First!EditsOutliveMigration
  /\ p = "repeated" => Second!EditsOutliveMigration
  /\ p = "lineage" => First!Zotero!HistoryIsKept
  /\ p = "sources" => Second!Zotero!HistoryIsKept /\ Second!Zotero!UnchangedSourcesKeepTheirBytes
  /\ p = "views" => /\ First!Views!EditsOutliveProjection /\ First!Views!ViewsStandOnTheirRecords
                    /\ First!Views!PublishedSourcesStay
  /\ p = "lost" => Second!Views!ViewsStandOnTheirRecords /\ Second!Views!PublishedSourcesStay
  /\ p = "workspace" => First!Workspace!AuthoredStays
  /\ p = "settings" => Second!Desk!DoubtHasACause
  /\ p = "serial" => First!Corpus!FrozenVersionStays /\ First!Corpus!SaveChangesOneFrame
  /\ p = "overlap" => Second!Corpus!OnlyStaleCopiesLose

\* What people wrote, reviewed and published stays where the code keeps it.  Commands over the vault,
\* the views and the workspace change no file that was edited since they listed it and lose no source
\* or earlier version, and a checkout that is called safe has handed all its work over.  Of a corpus:
\* what is frozen was reviewed and what the window undoes is what was saved, whatever overlaps; where
\* commands do not overlap no annotation, review or frozen version is lost either.  Where they do,
\* annotations, reviews and the freeze can be lost, to a stale copy only (FrozenCorpusIsNotRewritten).
WorkByHandSurvives == []WhatIsSaidOfWorkHolds(part) /\ [][StepsKeepWork(part)]_vars

\* Documented, and not what the code does where commands overlap: annotation changes "must not rewrite
\* the frozen version" (SPATIAL_ANNOTATION_WORKFLOW.md). A window opened before the freeze writes its
\* old copy over it, without the reviews recorded since.  One frame and one command more show it.
Rewritten == INSTANCE SpatialCorpus WITH
  Frames <- <<"f1">>, Split <- Splits, Required <- {"train"}, Statuses <- {"usable", "uncertain"},
  Width <- 2, MaxDisplay <- 1, Overlapping <- TRUE, MaxSteps <- 5,
  file <- x1, intact <- x2, pending <- x3, window <- x4, steps <- x5

RewrittenSpec ==
  /\ part = "rewritten" /\ Rewritten!Init /\ Empty6
  /\ [][Rewritten!Next /\ UNCHANGED <<part, from6>>]_vars

FrozenCorpusIsNotRewritten == [][Rewritten!FrozenVersionStays]_vars

-----------------------------------------------------------------------------
(* Proofs.  A behaviour of the suite is one of its part, and what VaultProofs *)
(* shows of every instance of a part holds of it.                             *)

\* What the variables of the suite are.
LEMMA SlotsOfTheSuite ==
  UNCHANGED vars <=> /\ part' = part /\ x1' = x1 /\ x2' = x2 /\ x3' = x3 /\ x4' = x4 /\ x5' = x5
                     /\ x6' = x6 /\ x7' = x7 /\ x8' = x8 /\ x9' = x9 /\ x10' = x10
<1>1. from10' = from10 <=> x10' = x10
  <2>1. from10[1] = x10 /\ from10'[1] = x10'
    BY DEF from10
  <2> QED
    BY <2>1 DEF from10
<1>2. from9' = from9 <=> x9' = x9 /\ x10' = x10
  BY <1>1 DEF from9
<1>3. from6' = from6 <=> UNCHANGED <<x6, x7, x8>> /\ from9' = from9
  BY DEF from6
<1>4. slots' = slots <=> UNCHANGED <<x1, x2, x3, x4, x5>> /\ from6' = from6
  BY DEF slots
<1> QED
  BY <1>2, <1>3, <1>4 DEF vars

\* A step is one of the part's, and leaves the slots alone that the part does not need.
LEMMA StepsOfTheParts ==
  Next => /\ part' = part
          /\ part = "migration" => First!Next /\ UNCHANGED <<x9, x10>>
          /\ part = "repeated" => Second!Next /\ UNCHANGED <<x9, x10>>
          /\ part = "lineage" => First!Zotero!Next /\ UNCHANGED <<x10>>
          /\ part = "sources" => Second!Zotero!Next /\ UNCHANGED <<x10>>
          /\ part = "views" => First!Views!Next /\ UNCHANGED <<x10>>
          /\ part = "lost" => Second!Views!Next /\ UNCHANGED <<x10>>
          /\ part = "workspace" => First!Workspace!Next /\ UNCHANGED <<x9, x10>>
          /\ part = "renames" => Second!Workspace!Next /\ UNCHANGED <<x9, x10>>
          /\ part = "pair" => First!Desk!Next
          /\ part = "settings" => Second!Desk!Next
          /\ part = "serial" => First!Corpus!Next /\ UNCHANGED <<x6, x7, x8, x9, x10>>
          /\ part = "overlap" => Second!Corpus!Next /\ UNCHANGED <<x6, x7, x8, x9, x10>>
<1>1. UNCHANGED from10 => x10' = x10
  <2>1. from10[1] = x10 /\ from10'[1] = x10'
    BY DEF from10
  <2> QED
    BY <2>1
<1>2. UNCHANGED from9 => UNCHANGED <<x9, x10>>
  BY <1>1 DEF from9
<1>3. UNCHANGED from6 => UNCHANGED <<x6, x7, x8, x9, x10>>
  BY <1>2 DEF from6
<1> QED
  BY <1>1, <1>2, <1>3 DEF Next, MigrationStep, RepeatedStep, LineageStep, SourcesStep, ViewsStep, LostStep,
     WorkspaceStep, RenamesStep, PairStep, SettingsStep, SerialStep, OverlapStep

-----------------------------------------------------------------------------
(* What holds of each part in the behaviours that explore it.                 *)

\* The migration of the vault.
LEMMA MigrationHolds ==
  Spec /\ part = "migration" =>
    /\ [](part = "migration" /\ First!TypeOK /\ First!WholeOrRecoverable /\ First!LastCheckHolds)
    /\ [][part = "migration" /\ First!EditsOutliveMigration]_vars
<1>1. Init /\ part = "migration" => First!Init
  BY DEF Init
<1>2. part = "migration" /\ [Next]_vars => (part = "migration")' /\ [First!Next]_(First!vars)
  BY StepsOfTheParts, SlotsOfTheSuite DEF First!vars
<1>3. First!Spec => [](First!TypeOK /\ First!WholeOrRecoverable /\ First!LastCheckHolds)
  BY First!VaultMigrationTypeCorrect, First!LastCheckAlwaysHolds, First!InterruptedMigrationsRecover,
     SuiteAssumption, PTL
<1>4. First!Spec => [][First!EditsOutliveMigration]_(First!vars)
  BY First!EditsOutliveEveryMigration, SuiteAssumption, PTL
<1>5. part = "migration" /\ [Next]_vars /\ UNCHANGED First!vars => UNCHANGED vars
  BY StepsOfTheParts, SlotsOfTheSuite DEF First!vars
<1> QED
  BY <1>1, <1>2, <1>3, <1>4, <1>5, PTL DEF Spec, First!Spec

\* One migration after the other.
LEMMA RepeatedHolds ==
  Spec /\ part = "repeated" =>
    /\ [](part = "repeated" /\ Second!TypeOK /\ Second!WholeOrRecoverable /\ Second!LastCheckHolds)
    /\ [][part = "repeated" /\ Second!EditsOutliveMigration]_vars
<1>1. Init /\ part = "repeated" => Second!Init
  BY DEF Init
<1>2. part = "repeated" /\ [Next]_vars => (part = "repeated")' /\ [Second!Next]_(Second!vars)
  BY StepsOfTheParts, SlotsOfTheSuite DEF Second!vars
<1>3. Second!Spec => [](Second!TypeOK /\ Second!WholeOrRecoverable /\ Second!LastCheckHolds)
  BY Second!VaultMigrationTypeCorrect, Second!LastCheckAlwaysHolds, Second!InterruptedMigrationsRecover,
     SuiteAssumption, PTL
<1>4. Second!Spec => [][Second!EditsOutliveMigration]_(Second!vars)
  BY Second!EditsOutliveEveryMigration, SuiteAssumption, PTL
<1>5. part = "repeated" /\ [Next]_vars /\ UNCHANGED Second!vars => UNCHANGED vars
  BY StepsOfTheParts, SlotsOfTheSuite DEF Second!vars
<1> QED
  BY <1>1, <1>2, <1>3, <1>4, <1>5, PTL DEF Spec, Second!Spec

\* One source in three versions.
LEMMA LineageHolds ==
  Spec /\ part = "lineage" =>
    /\ [](part = "lineage" /\ First!Zotero!TypeOK /\ First!Zotero!LineageEnds /\ First!Zotero!ManifestIsLast)
    /\ [][part = "lineage" /\ First!Zotero!HistoryIsKept]_vars
<1>1. Init /\ part = "lineage" => First!Zotero!Init
  BY DEF Init
<1>2. part = "lineage" /\ [Next]_vars => (part = "lineage")' /\ [First!Zotero!Next]_(First!Zotero!vars)
  BY StepsOfTheParts, SlotsOfTheSuite DEF First!Zotero!vars
<1>3. First!Zotero!Spec => [](First!Zotero!TypeOK /\ First!Zotero!LineageEnds /\ First!Zotero!ManifestIsLast)
  BY First!ListedVersionsAreWhole, SuiteAssumption, PTL
<1>4. First!Zotero!Spec => [][First!Zotero!HistoryIsKept]_(First!Zotero!vars)
  BY First!HistoryIsAlwaysKept, SuiteAssumption, PTL
<1>5. part = "lineage" /\ [Next]_vars /\ UNCHANGED First!Zotero!vars => UNCHANGED vars
  BY StepsOfTheParts, SlotsOfTheSuite DEF First!Zotero!vars
<1> QED
  BY <1>1, <1>2, <1>3, <1>4, <1>5, PTL DEF Spec, First!Zotero!Spec

\* Two sources whose notes change.
LEMMA SourcesHolds ==
  Spec /\ part = "sources" =>
    /\ [](part = "sources" /\ Second!Zotero!TypeOK /\ Second!Zotero!ManifestIsLast)
    /\ [][part = "sources" /\ Second!Zotero!HistoryIsKept /\ Second!Zotero!UnchangedSourcesKeepTheirBytes]_vars
<1>1. Init /\ part = "sources" => Second!Zotero!Init
  BY DEF Init
<1>2. part = "sources" /\ [Next]_vars => (part = "sources")' /\ [Second!Zotero!Next]_(Second!Zotero!vars)
  BY StepsOfTheParts, SlotsOfTheSuite DEF Second!Zotero!vars
<1>3. Second!Zotero!Spec => [](Second!Zotero!TypeOK /\ Second!Zotero!ManifestIsLast)
  BY Second!ListedVersionsAreWhole, SuiteAssumption, PTL
<1>4. Second!Zotero!Spec => [][/\ Second!Zotero!HistoryIsKept
                               /\ Second!Zotero!UnchangedSourcesKeepTheirBytes]_(Second!Zotero!vars)
  BY Second!HistoryIsAlwaysKept, SuiteAssumption, PTL
<1>5. part = "sources" /\ [Next]_vars /\ UNCHANGED Second!Zotero!vars => UNCHANGED vars
  BY StepsOfTheParts, SlotsOfTheSuite DEF Second!Zotero!vars
<1> QED
  BY <1>1, <1>2, <1>3, <1>4, <1>5, PTL DEF Spec, Second!Zotero!Spec

\* Views whose inputs go back and forth.
LEMMA ViewsHolds ==
  Spec /\ part = "views" =>
    /\ [](part = "views" /\ First!Views!TypeOK /\ First!Views!InterruptedViewsGoOn)
    /\ [][/\ part = "views"
          /\ First!Views!EditsOutliveProjection
          /\ First!Views!ViewsStandOnTheirRecords
          /\ First!Views!PublishedSourcesStay]_vars
<1>1. Init /\ part = "views" => First!Views!Init
  BY DEF Init
<1>2. part = "views" /\ [Next]_vars => (part = "views")' /\ [First!Views!Next]_(First!Views!vars)
  BY StepsOfTheParts, SlotsOfTheSuite DEF First!Views!vars
<1>3. First!Views!Spec => [](First!Views!TypeOK /\ First!Views!InterruptedViewsGoOn)
  BY First!InterruptedViewsAlwaysGoOn, SuiteAssumption, PTL
<1>4. First!Views!Spec => [][/\ First!Views!EditsOutliveProjection
                             /\ First!Views!ViewsStandOnTheirRecords
                             /\ First!Views!PublishedSourcesStay]_(First!Views!vars)
  BY First!ViewsPublishSafely, SuiteAssumption, PTL
<1>5. part = "views" /\ [Next]_vars /\ UNCHANGED First!Views!vars => UNCHANGED vars
  BY StepsOfTheParts, SlotsOfTheSuite DEF First!Views!vars
<1> QED
  BY <1>1, <1>2, <1>3, <1>4, <1>5, PTL DEF Spec, First!Views!Spec

\* Views that lose a file.
LEMMA LostHolds ==
  Spec /\ part = "lost" =>
    /\ [](part = "lost" /\ Second!Views!TypeOK /\ Second!Views!InterruptedViewsGoOn)
    /\ [][part = "lost" /\ Second!Views!ViewsStandOnTheirRecords /\ Second!Views!PublishedSourcesStay]_vars
<1>1. Init /\ part = "lost" => Second!Views!Init
  BY DEF Init
<1>2. part = "lost" /\ [Next]_vars => (part = "lost")' /\ [Second!Views!Next]_(Second!Views!vars)
  BY StepsOfTheParts, SlotsOfTheSuite DEF Second!Views!vars
<1>3. Second!Views!Spec => [](Second!Views!TypeOK /\ Second!Views!InterruptedViewsGoOn)
  BY Second!InterruptedViewsAlwaysGoOn, SuiteAssumption, PTL
<1>4. Second!Views!Spec => [][/\ Second!Views!ViewsStandOnTheirRecords
                              /\ Second!Views!PublishedSourcesStay]_(Second!Views!vars)
  BY Second!ViewsPublishSafely, SuiteAssumption, PTL
<1>5. part = "lost" /\ [Next]_vars /\ UNCHANGED Second!Views!vars => UNCHANGED vars
  BY StepsOfTheParts, SlotsOfTheSuite DEF Second!Views!vars
<1> QED
  BY <1>1, <1>2, <1>3, <1>4, <1>5, PTL DEF Spec, Second!Views!Spec

\* The workspace and people who edit.
LEMMA WorkspaceHolds ==
  Spec /\ part = "workspace" =>
    /\ [](/\ part = "workspace"
          /\ First!Workspace!TypeOK
          /\ First!Workspace!UndisturbedRunsConverge
          /\ First!Workspace!DoneLeavesNoTrace)
    /\ [][part = "workspace" /\ First!Workspace!AuthoredStays]_vars
<1>1. Init /\ part = "workspace" => First!Workspace!Init
  BY DEF Init
<1>2. /\ part = "workspace"
      /\ [Next]_vars
    => (part = "workspace")' /\ [First!Workspace!Next]_(First!Workspace!vars)
  BY StepsOfTheParts, SlotsOfTheSuite DEF First!Workspace!vars
<1>3. First!Workspace!Spec => [](/\ First!Workspace!TypeOK
                                 /\ First!Workspace!UndisturbedRunsConverge
                                 /\ First!Workspace!DoneLeavesNoTrace)
  BY First!UndisturbedRunsAlwaysConverge, SuiteAssumption, PTL
<1>4. First!Workspace!Spec => [][First!Workspace!AuthoredStays]_(First!Workspace!vars)
  BY First!AuthoredAlwaysStays, SuiteAssumption, PTL
<1>5. part = "workspace" /\ [Next]_vars /\ UNCHANGED First!Workspace!vars => UNCHANGED vars
  BY StepsOfTheParts, SlotsOfTheSuite DEF First!Workspace!vars
<1> QED
  BY <1>1, <1>2, <1>3, <1>4, <1>5, PTL DEF Spec, First!Workspace!Spec

\* The workspace, renamed and back.
LEMMA RenamesHolds ==
  Spec /\ part = "renames" =>
    [](/\ part = "renames"
       /\ Second!Workspace!TypeOK
       /\ Second!Workspace!UndisturbedRunsConverge
       /\ Second!Workspace!DoneLeavesNoTrace)
<1>1. Init /\ part = "renames" => Second!Workspace!Init
  BY DEF Init
<1>2. part = "renames" /\ [Next]_vars => (part = "renames")' /\ [Second!Workspace!Next]_(Second!Workspace!vars)
  BY StepsOfTheParts, SlotsOfTheSuite DEF Second!Workspace!vars
<1>3. Second!Workspace!Spec => [](/\ Second!Workspace!TypeOK
                                  /\ Second!Workspace!UndisturbedRunsConverge
                                  /\ Second!Workspace!DoneLeavesNoTrace)
  BY Second!UndisturbedRunsAlwaysConverge, SuiteAssumption, PTL
<1> QED
  BY <1>1, <1>2, <1>3, PTL DEF Spec, Second!Workspace!Spec

\* Two workstations.
LEMMA PairHolds ==
  Spec /\ part = "pair" =>
    [](part = "pair" /\ First!Desk!TypeOK /\ First!Desk!SafeMeansHandedOver /\ First!Desk!SafeHeadsAreOneLine)
<1>1. Init /\ part = "pair" => First!Desk!Init
  BY DEF Init
<1>2. part = "pair" /\ [Next]_vars => (part = "pair")' /\ [First!Desk!Next]_(First!Desk!vars)
  BY StepsOfTheParts, SlotsOfTheSuite DEF First!Desk!vars, First!Desk!git
<1>3. First!Desk!Spec => [](/\ First!Desk!TypeOK
                            /\ First!Desk!SafeMeansHandedOver
                            /\ First!Desk!SafeHeadsAreOneLine)
  BY First!SafeIsAlwaysHandedOver, SuiteAssumption, PTL
<1> QED
  BY <1>1, <1>2, <1>3, PTL DEF Spec, First!Desk!Spec

\* A workstation whose origin may be a fork.
LEMMA SettingsHolds ==
  Spec /\ part = "settings" =>
    /\ [](part = "settings" /\ Second!Desk!TypeOK /\ Second!Desk!SafeMeansHandedOver)
    /\ [][part = "settings" /\ Second!Desk!DoubtHasACause]_vars
<1>1. Init /\ part = "settings" => Second!Desk!Init
  BY DEF Init
<1>2. part = "settings" /\ [Next]_vars => (part = "settings")' /\ [Second!Desk!Next]_(Second!Desk!vars)
  BY StepsOfTheParts, SlotsOfTheSuite DEF Second!Desk!vars, Second!Desk!git
<1>3. Second!Desk!Spec => [](Second!Desk!TypeOK /\ Second!Desk!SafeMeansHandedOver)
  BY Second!SafeIsAlwaysHandedOver, SuiteAssumption, PTL
<1>4. Second!Desk!Spec => [][Second!Desk!DoubtHasACause]_(Second!Desk!vars)
  BY Second!DoubtAlwaysHasACause, SuiteAssumption
<1>5. part = "settings" /\ [Next]_vars /\ UNCHANGED Second!Desk!vars => UNCHANGED vars
  BY StepsOfTheParts, SlotsOfTheSuite DEF Second!Desk!vars, Second!Desk!git
<1> QED
  BY <1>1, <1>2, <1>3, <1>4, <1>5, PTL DEF Spec, Second!Desk!Spec

\* The corpus, one command at a time.
LEMMA SerialHolds ==
  Spec /\ part = "serial" =>
    /\ [](part = "serial" /\ First!Corpus!FrozenWasReviewed /\ First!Corpus!UndoLeadsBack)
    /\ [][part = "serial" /\ First!Corpus!FrozenVersionStays /\ First!Corpus!SaveChangesOneFrame]_vars
<1>1. Init /\ part = "serial" => First!Corpus!Init
  BY DEF Init
<1>2. part = "serial" /\ [Next]_vars => (part = "serial")' /\ [First!Corpus!Next]_(First!Corpus!vars)
  BY StepsOfTheParts, SlotsOfTheSuite DEF First!Corpus!vars
<1>3. First!Corpus!Spec => [](First!Corpus!FrozenWasReviewed /\ First!Corpus!UndoLeadsBack)
  BY First!FrozenWasAlwaysReviewed, SuiteAssumption, PTL
<1>4. First!Corpus!Spec => [][/\ First!Corpus!FrozenVersionStays
                              /\ First!Corpus!SaveChangesOneFrame]_(First!Corpus!vars)
  BY First!FrozenVersionsAlwaysStay, SuiteAssumption, PTL
<1>5. part = "serial" /\ [Next]_vars /\ UNCHANGED First!Corpus!vars => UNCHANGED vars
  BY StepsOfTheParts, SlotsOfTheSuite DEF First!Corpus!vars
<1> QED
  BY <1>1, <1>2, <1>3, <1>4, <1>5, PTL DEF Spec, First!Corpus!Spec

\* The corpus with commands that overlap.
LEMMA OverlapHolds ==
  Spec /\ part = "overlap" =>
    /\ [](/\ part = "overlap"
          /\ Second!Corpus!FrozenWasReviewed
          /\ Second!Corpus!UndoLeadsBack
          /\ Second!Corpus!DrawnWhereClicked)
    /\ [][part = "overlap" /\ Second!Corpus!OnlyStaleCopiesLose]_vars
<1>1. Init /\ part = "overlap" => Second!Corpus!Init
  BY DEF Init
<1>2. part = "overlap" /\ [Next]_vars => (part = "overlap")' /\ [Second!Corpus!Next]_(Second!Corpus!vars)
  BY StepsOfTheParts, SlotsOfTheSuite DEF Second!Corpus!vars
<1>3. Second!Corpus!Spec => [](/\ Second!Corpus!FrozenWasReviewed
                               /\ Second!Corpus!UndoLeadsBack
                               /\ Second!Corpus!DrawnWhereClicked)
  BY Second!FrozenWasAlwaysReviewed, SuiteAssumption, PTL
<1>4. Second!Corpus!Spec => [][Second!Corpus!OnlyStaleCopiesLose]_(Second!Corpus!vars)
  BY Second!OnlyStaleCopiesEverLose, SuiteAssumption
<1>5. part = "overlap" /\ [Next]_vars /\ UNCHANGED Second!Corpus!vars => UNCHANGED vars
  BY StepsOfTheParts, SlotsOfTheSuite DEF Second!Corpus!vars
<1> QED
  BY <1>1, <1>2, <1>3, <1>4, <1>5, PTL DEF Spec, Second!Corpus!Spec

-----------------------------------------------------------------------------
(* The properties of the suite.                                               *)

\* Every behaviour explores one of the parts.
LEMMA EveryPart ==
  Init => part = "migration" \/ part = "repeated" \/ part = "lineage" \/ part = "sources" \/ part = "views"
          \/ part = "lost" \/ part = "workspace" \/ part = "renames" \/ part = "pair"
          \/ part = "settings" \/ part = "serial" \/ part = "overlap"
BY DEF Init

\* TypeOK: in every part, files, manifests, restore points and running commands are of their kinds.
THEOREM SuiteTypeCorrect ==
  Spec => []TypeOK
<1>1. part = "migration" /\ First!TypeOK => TypeOK
  BY DEF TypeOK
<1>2. part = "lineage" /\ First!Zotero!TypeOK => TypeOK
  BY DEF TypeOK
<1>3. part = "sources" /\ Second!Zotero!TypeOK => TypeOK
  BY DEF TypeOK
<1>4. part = "views" /\ First!Views!TypeOK => TypeOK
  BY DEF TypeOK
<1>5. part = "lost" /\ Second!Views!TypeOK => TypeOK
  BY DEF TypeOK
<1>6. part = "workspace" /\ First!Workspace!TypeOK => TypeOK
  BY DEF TypeOK
<1>7. part = "renames" /\ Second!Workspace!TypeOK => TypeOK
  BY DEF TypeOK
<1>8. part = "pair" /\ First!Desk!TypeOK => TypeOK
  BY DEF TypeOK
<1>9. part = "settings" /\ Second!Desk!TypeOK => TypeOK
  BY DEF TypeOK
<1>10. part = "serial" => TypeOK
  BY DEF TypeOK
<1>11. part = "overlap" => TypeOK
  BY DEF TypeOK
<1>12. part = "repeated" /\ Second!TypeOK => TypeOK
  BY DEF TypeOK
<1> QED
  BY EveryPart, MigrationHolds, RepeatedHolds, LineageHolds, SourcesHolds, ViewsHolds, LostHolds,
     WorkspaceHolds, RenamesHolds, PairHolds, SettingsHolds, SerialHolds, OverlapHolds, <1>1, <1>2, <1>3, <1>4, <1>5, <1>6,
     <1>7, <1>8, <1>9, <1>10, <1>11, <1>12, PTL DEF Spec

\* InterruptedCommandsRecover: wherever a command dies, what it leaves is told from an edit by hand.
THEOREM InterruptedCommandsAlwaysRecover ==
  Spec => []InterruptedCommandsRecover
<1>1. part = "migration" /\ First!WholeOrRecoverable /\ First!LastCheckHolds => InterruptedCommandsRecover
  BY DEF InterruptedCommandsRecover
<1>2. part = "lineage" /\ First!Zotero!LineageEnds /\ First!Zotero!ManifestIsLast => InterruptedCommandsRecover
  BY DEF InterruptedCommandsRecover
<1>3. part = "sources" /\ Second!Zotero!ManifestIsLast => InterruptedCommandsRecover
  BY DEF InterruptedCommandsRecover
<1>4. part = "views" /\ First!Views!InterruptedViewsGoOn => InterruptedCommandsRecover
  BY DEF InterruptedCommandsRecover
<1>5. part = "lost" /\ Second!Views!InterruptedViewsGoOn => InterruptedCommandsRecover
  BY DEF InterruptedCommandsRecover
<1>6. /\ part = "workspace"
      /\ First!Workspace!UndisturbedRunsConverge
      /\ First!Workspace!DoneLeavesNoTrace
    => InterruptedCommandsRecover
  BY DEF InterruptedCommandsRecover
<1>7. /\ part = "renames"
      /\ Second!Workspace!UndisturbedRunsConverge
      /\ Second!Workspace!DoneLeavesNoTrace
    => InterruptedCommandsRecover
  BY DEF InterruptedCommandsRecover
<1>8. part = "pair" => InterruptedCommandsRecover
  BY DEF InterruptedCommandsRecover
<1>9. part = "settings" => InterruptedCommandsRecover
  BY DEF InterruptedCommandsRecover
<1>10. part = "serial" => InterruptedCommandsRecover
  BY DEF InterruptedCommandsRecover
<1>11. part = "overlap" => InterruptedCommandsRecover
  BY DEF InterruptedCommandsRecover
<1>12. part = "repeated" /\ Second!WholeOrRecoverable /\ Second!LastCheckHolds => InterruptedCommandsRecover
  BY DEF InterruptedCommandsRecover
<1> QED
  BY EveryPart, MigrationHolds, RepeatedHolds, LineageHolds, SourcesHolds, ViewsHolds, LostHolds,
     WorkspaceHolds, RenamesHolds, PairHolds, SettingsHolds, SerialHolds, OverlapHolds, <1>1, <1>2, <1>3, <1>4, <1>5, <1>6,
     <1>7, <1>8, <1>9, <1>10, <1>11, <1>12, PTL DEF Spec

\* WorkByHandSurvives: what people wrote, reviewed and published stays, except what a stale copy of
\* a corpus is written over where commands overlap.
THEOREM WorkByHandAlwaysSurvives ==
  Spec => WorkByHandSurvives
<1>1. part = "migration" => WhatIsSaidOfWorkHolds(part)
  BY DEF WhatIsSaidOfWorkHolds
<1>2. part = "migration" /\ First!EditsOutliveMigration => StepsKeepWork(part)
  BY DEF StepsKeepWork
<1>3. part = "lineage" => WhatIsSaidOfWorkHolds(part)
  BY DEF WhatIsSaidOfWorkHolds
<1>4. part = "lineage" /\ First!Zotero!HistoryIsKept => StepsKeepWork(part)
  BY DEF StepsKeepWork
<1>5. part = "sources" => WhatIsSaidOfWorkHolds(part)
  BY DEF WhatIsSaidOfWorkHolds
<1>6. /\ part = "sources"
      /\ Second!Zotero!HistoryIsKept
      /\ Second!Zotero!UnchangedSourcesKeepTheirBytes
    => StepsKeepWork(part)
  BY DEF StepsKeepWork
<1>7. part = "views" => WhatIsSaidOfWorkHolds(part)
  BY DEF WhatIsSaidOfWorkHolds
<1>8. part = "views"
      /\ First!Views!EditsOutliveProjection
      /\ First!Views!ViewsStandOnTheirRecords
      /\ First!Views!PublishedSourcesStay => StepsKeepWork(part)
  BY DEF StepsKeepWork
<1>9. part = "lost" => WhatIsSaidOfWorkHolds(part)
  BY DEF WhatIsSaidOfWorkHolds
<1>10. /\ part = "lost"
       /\ Second!Views!ViewsStandOnTheirRecords
       /\ Second!Views!PublishedSourcesStay
    => StepsKeepWork(part)
  BY DEF StepsKeepWork
<1>11. part = "workspace" => WhatIsSaidOfWorkHolds(part)
  BY DEF WhatIsSaidOfWorkHolds
<1>12. part = "workspace" /\ First!Workspace!AuthoredStays => StepsKeepWork(part)
  BY DEF StepsKeepWork
<1>13. part = "renames" => WhatIsSaidOfWorkHolds(part)
  BY DEF WhatIsSaidOfWorkHolds
<1>14. part = "renames" => StepsKeepWork(part)
  BY DEF StepsKeepWork
<1>15. /\ part = "pair"
       /\ First!Desk!SafeMeansHandedOver
       /\ First!Desk!SafeHeadsAreOneLine
    => WhatIsSaidOfWorkHolds(part)
  BY DEF WhatIsSaidOfWorkHolds
<1>16. part = "pair" => StepsKeepWork(part)
  BY DEF StepsKeepWork
<1>17. part = "settings" /\ Second!Desk!SafeMeansHandedOver => WhatIsSaidOfWorkHolds(part)
  BY DEF WhatIsSaidOfWorkHolds
<1>18. part = "settings" /\ Second!Desk!DoubtHasACause => StepsKeepWork(part)
  BY DEF StepsKeepWork
<1>19. /\ part = "serial"
       /\ First!Corpus!FrozenWasReviewed
       /\ First!Corpus!UndoLeadsBack
    => WhatIsSaidOfWorkHolds(part)
  BY DEF WhatIsSaidOfWorkHolds
<1>20. /\ part = "serial"
       /\ First!Corpus!FrozenVersionStays
       /\ First!Corpus!SaveChangesOneFrame
    => StepsKeepWork(part)
  BY DEF StepsKeepWork
<1>21. /\ part = "overlap"
       /\ Second!Corpus!FrozenWasReviewed
       /\ Second!Corpus!UndoLeadsBack
       /\ Second!Corpus!DrawnWhereClicked
    => WhatIsSaidOfWorkHolds(part)
  BY DEF WhatIsSaidOfWorkHolds
<1>22. part = "overlap" /\ Second!Corpus!OnlyStaleCopiesLose => StepsKeepWork(part)
  BY DEF StepsKeepWork
<1>23. part = "repeated" => WhatIsSaidOfWorkHolds(part)
  BY DEF WhatIsSaidOfWorkHolds
<1>24. part = "repeated" /\ Second!EditsOutliveMigration => StepsKeepWork(part)
  BY DEF StepsKeepWork
<1> QED
  BY EveryPart, MigrationHolds, RepeatedHolds, LineageHolds, SourcesHolds, ViewsHolds, LostHolds,
     WorkspaceHolds, RenamesHolds, PairHolds, SettingsHolds, SerialHolds, OverlapHolds, <1>1, <1>2, <1>3, <1>4, <1>5, <1>6,
     <1>7, <1>8, <1>9, <1>10, <1>11, <1>12, <1>13, <1>14, <1>15, <1>16, <1>17, <1>18, <1>19, <1>20, <1>21,
     <1>22, <1>23, <1>24, PTL DEF Spec, WorkByHandSurvives
===============================================================================
