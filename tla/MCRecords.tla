------------------------------ MODULE MCRecords ------------------------------
(* What is stored and reported, on small instances: the memory, the event     *)
(* lists, captured evidence, the artifacts of live smoke runs and the score   *)
(* of a benchmark frame. The parts share no state, so each is explored on its *)
(* own: Init chooses the part, and the slots x1, x2, ... hold that part's     *)
(* variables.                                                                 *)
EXTENDS Integers, Sequences, FiniteSets

CONSTANTS None, Error

VARIABLES part, x1, x2, x3, x4, x5, x6, x7, x8, x9, x10, x11, x12, x13, x14, x15, x16, x17, x18,
          x19

SmokeModes ==
  {<<"disabled", FALSE, FALSE>>, <<"disabled", TRUE, FALSE>>, <<"disabled", FALSE, TRUE>>,
   <<"wait_only_noop", FALSE, FALSE>>, <<"single_directional_tap", FALSE, FALSE>>}
NoBound == [expected |-> None, least |-> None, most |-> None]
FrameBounds == {NoBound, [NoBound EXCEPT !.expected = 2], [NoBound EXCEPT !.least = 2, !.most = 2]}

\* Two connections on one database file.
Risk == INSTANCE EntityRisk WITH
  Conns <- {"c1", "c2"}, Keys <- {"k"}, Outcomes <- {"death", "safe_passage"}, Confidences <- {2},
  Evidence <- {"x"}, MaxOps <- 3, MaxTime <- 1,
  risks <- x1, events <- x2, pc <- x3, op <- x4, back <- x5, ret <- x6, now <- x7, ops <- x8

Graph == INSTANCE RoomGraph WITH
  Conns <- {"c1", "c2"}, Rooms <- {"r1", "r2"}, Actions <- {"a"}, Evidence <- {"x"},
  Meta <- {"m"}, Forbidden <- {"hidden"}, MaxConf <- 1, MaxCalls <- 3,
  rooms <- x1, edges <- x2, pc <- x3, call <- x4, calls <- x5, failed <- x6, direct <- x7

Knowledge == INSTANCE KnowledgeMemory WITH
  Conns <- {"c1", "c2"}, Strategies <- {"k"}, FactStatuses <- {"hypothesis", "contradicted"},
  StrategyStatuses <- {"hypothesis", "promoted"}, Reasons <- {"timeout"}, MaxCalls <- 4,
  Evidence <- {"x", "y"}, Kinds <- {"facts", "strategies"},
  db <- x1, open <- x2, calls <- x3, returned <- x4

\* The same stores, with the results of skills in place of strategies.
Results == INSTANCE KnowledgeMemory WITH
  Conns <- {"c1", "c2"}, Strategies <- {"k"}, FactStatuses <- {"hypothesis", "contradicted"},
  StrategyStatuses <- {"hypothesis", "promoted"}, Reasons <- {"timeout"}, MaxCalls <- 4,
  Evidence <- {"x"}, Kinds <- {"facts", "results"},
  db <- x1, open <- x2, calls <- x3, returned <- x4

\* The task scheduler over the list of events that tests and dry runs use.
Tasks == INSTANCE TaskLifecycle WITH
  TaskIds <- {"a", "b", "c"}, Skills <- {"reach"}, Conditions <- {"c1"}, EventIds <- {"e1"}, Specs
  <- {[skill |-> "reach", timeout |-> 1, success |-> {"c1"}, failure |-> {}]}, Sink <- "memory",
  UniqueTaskIds <- TRUE, MaxSubmissions <- 3, MaxRestarts <- 0,
  queue <- x1, current <- x2, completed <- x3, runs <- x4, rows <- x5, pending <- x6, acked <- x7,
  submitted <- x8, base <- x9, restarts <- x10

\* Two capture sessions on one run directory.
Capture == INSTANCE EvidenceCapture WITH
  Sessions <- {"a", "b"}, Frames <- 3,
  pc <- x1, allow <- x2, saved <- x3, mine <- x4, files <- x5, log <- x6, torn <- x7, answer <- x8

\* A controlled live smoke run, observing or sending inputs.
Smoke == INSTANCE LiveSmoke WITH
  Modes <- SmokeModes, Frequencies <- {1, 2}, FrameLimits <- {1, 2, 3}, InputLimits <- {1, 2},
  ActionLimits <- {0, 2}, RateLimit <- 1, MaxDuration <- 2, MaxTime <- 2,
  pc <- x1, cfg <- x2, start <- x3, elapsed <- x4, focusOk <- x5, frames <- x6, counts <- x7,
  blocked <- x8, inputTime <- x9, lastInput <- x10, pre <- x11, post <- x12, stop <- x13,
  report <- x14, now <- x15, focused <- x16, stopFile <- x17, delivered <- x18, late <- x19

\* The pipeline without --overwrite, where a manifest of version 1 may lie about.
Once == INSTANCE SmokePipeline WITH
  Overwrites <- {FALSE}, Legacy <- TRUE, MaxWrites <- 3,
  preflight <- x1, manifest <- x2, plan <- x3, report <- x4, summary <- x5, pipe <- x6,
  writes <- x7

\* The pipeline repeated with and without --overwrite.
Again == INSTANCE SmokePipeline WITH
  Overwrites <- BOOLEAN, Legacy <- FALSE, MaxWrites <- 3,
  preflight <- x1, manifest <- x2, plan <- x3, report <- x4, summary <- x5, pipe <- x6,
  writes <- x7

\* One run of every mode, validated, reviewed and repeated.
Policies == INSTANCE SmokeEvidence WITH
  Runs <- {"run1"}, RealModes <- {"disabled", "wait_only_noop", "single_directional_tap"},
  ActModes <- {"disabled", "logging", "dryrun"}, Bounds <- FrameBounds, RepeatRuns <- TRUE,
  Supports <- {"good", "bad", "absent"}, REQUIRED_RUN_COUNT <- 3, MaxGiven <- 0, MaxFrames <- 2,
  MaxAttempts <- 2,
  support <- x1, report <- x2, validation <- x3, review <- x4, stability <- x5

\* Two runs of one tap, each made once, and the stability review of them.
Stability == INSTANCE SmokeEvidence WITH
  Runs <- {"run1", "run2"}, RealModes <- {"single_directional_tap"}, ActModes <- {"disabled"},
  Bounds <- {NoBound}, RepeatRuns <- FALSE, Supports <- {"good"}, REQUIRED_RUN_COUNT <- 2,
  MaxGiven <- 3, MaxFrames <- 1, MaxAttempts <- 1,
  support <- x1, report <- x2, validation <- x3, review <- x4, stability <- x5

\* Scoring one frame of the spatial benchmark.
Benchmark == INSTANCE SpatialBenchmark WITH
  Width <- 2, Height <- 2, Tolerance <- 1, MaxPoints <- 3,
  picture <- x1, predicted <- x2, targets <- x3

ASSUME
  /\ Risk!OutcomesAssumption /\ Risk!ConfidencesAssumption /\ Risk!NoneAssumption /\ Risk!BoundAssumption
  /\ Graph!NoneAssumption
  /\ Graph!ForbiddenAssumption /\ Graph!BoundAssumption /\ Knowledge!BoundAssumption
  /\ Knowledge!NoneAssumption
  /\ Results!BoundAssumption /\ Tasks!SinkAssumption /\ Tasks!BoundAssumption
  /\ Capture!CaptureAssumption /\ Capture!NoneAssumption /\ Smoke!LimitsAssumption
  /\ Smoke!NoneAssumption /\ Once!OptionsAssumption /\ Once!NoneAssumption
  /\ Again!OptionsAssumption /\ Again!NoneAssumption
  /\ Policies!EvidenceAssumption /\ Policies!NoneAssumption /\ Stability!EvidenceAssumption
  /\ Stability!NoneAssumption
  /\ Benchmark!BenchmarkAssumption

-----------------------------------------------------------------------------
(* Slots a part does not need stay empty. *)
from11 == <<x11, x12, x13, x14, x15, x16, x17, x18, x19>>
from9 == <<x9, x10, from11>>
from8 == <<x8, from9>>
from6 == <<x6, x7, from8>>
from5 == <<x5, from6>>
from4 == <<x4, from5>>
slots == <<x1, x2, x3, from4>>

Empty11 == x11 = None /\ x12 = None /\ x13 = None /\ x14 = None /\ x15 = None /\ x16 = None
           /\ x17 = None /\ x18 = None /\ x19 = None
Empty9 == x9 = None /\ x10 = None /\ Empty11
Empty8 == x8 = None /\ Empty9
Empty6 == x6 = None /\ x7 = None /\ Empty8
Empty5 == x5 = None /\ Empty6
Empty4 == x4 = None /\ Empty5

vars == <<part, slots>>

Init == \/ part = "risk" /\ Risk!Init /\ Empty9
        \/ part = "graph" /\ Graph!Init /\ Empty8
        \/ part = "knowledge" /\ Knowledge!Init /\ Empty5
        \/ part = "results" /\ Results!Init /\ Empty5
        \/ part = "tasks" /\ Tasks!Init /\ Empty11
        \/ part = "capture" /\ Capture!Init /\ Empty9
        \/ part = "smoke" /\ Smoke!Init
        \/ part = "once" /\ Once!Init /\ Empty8
        \/ part = "again" /\ Again!Init /\ Empty8
        \/ part = "policies" /\ Policies!Init /\ Empty6
        \/ part = "stability" /\ Stability!Init /\ Empty6
        \/ part = "benchmark" /\ Benchmark!Init /\ Empty4

RiskStep == part = "risk" /\ Risk!Next /\ UNCHANGED <<part, from9>>
GraphStep == part = "graph" /\ Graph!Next /\ UNCHANGED <<part, from8>>
KnowledgeStep == part = "knowledge" /\ Knowledge!Next /\ UNCHANGED <<part, from5>>
ResultsStep == part = "results" /\ Results!Next /\ UNCHANGED <<part, from5>>
TasksStep == part = "tasks" /\ Tasks!Next /\ UNCHANGED <<part, from11>>
CaptureStep == part = "capture" /\ Capture!Next /\ UNCHANGED <<part, from9>>
SmokeStep == part = "smoke" /\ Smoke!Next /\ UNCHANGED part
OnceStep == part = "once" /\ Once!Next /\ UNCHANGED <<part, from8>>
AgainStep == part = "again" /\ Again!Next /\ UNCHANGED <<part, from8>>
PoliciesStep == part = "policies" /\ Policies!Next /\ UNCHANGED <<part, from6>>
StabilityStep == part = "stability" /\ Stability!Next /\ UNCHANGED <<part, from6>>
BenchmarkStep == part = "benchmark" /\ Benchmark!Next /\ UNCHANGED <<part, from4>>

Next == \/ RiskStep \/ GraphStep \/ KnowledgeStep \/ ResultsStep \/ TasksStep
        \/ CaptureStep \/ SmokeStep \/ OnceStep \/ AgainStep \/ PoliciesStep
        \/ StabilityStep \/ BenchmarkStep
Spec == Init /\ [][Next]_vars

-----------------------------------------------------------------------------
(* Properties. *)

\* Every row, file and report has the shape the code gives it, in every part.
TypeOK ==
  /\ part = "risk" => Risk!TypeOK
  /\ part = "graph" => Graph!TypeOK
  /\ part = "knowledge" => Knowledge!TypeOK
  /\ part = "results" => Results!TypeOK
  /\ part = "tasks" => Tasks!TypeOK
  /\ part = "capture" => Capture!TypeOK
  /\ part = "smoke" => Smoke!TypeOK
  /\ part = "once" => Once!TypeOK
  /\ part = "again" => Again!TypeOK
  /\ part = "policies" => Policies!TypeOK
  /\ part = "stability" => Stability!TypeOK

\* A store keeps what a caller was told it took, and all of it agrees: scores with their events,
\* visits with passages, facts with their evidence, statistics with results, closed tasks with
\* their order, frames with their events, whatever connections and sessions interleave and
\* wherever calls raise or processes die.  What the code gives up is bounded, not forbidden: of
\* overlapping updates of a score one may be lost, but each row is what its latest event wrote and
\* updates made one at a time add up; a fact, strategy or result whose commit failed may be published
\* by a later commit.  In the risk store a call that raises writes nothing; a room passage that raises
\* may leave its visits behind, never a passage without them.  What was seen of rooms is never
\* unlearned, and the latest screenshot is never an earlier one.
StoresKeepWhatTheyTook ==
  /\ [](/\ part = "risk" => /\ Risk!RowAgreesWithEvents /\ Risk!SerialUpdatesAddUp
                            /\ Risk!ReturnedRecordsAreCovered /\ Risk!ListedInOrder
        /\ part = "graph" => Graph!VisitsCoverPassages /\ Graph!EdgesJoinKnownRooms
        /\ part = "knowledge" => Knowledge!EvidenceBacked /\ Knowledge!ReturnedIsCommitted
        /\ part = "results" => Results!ReturnedIsCommitted /\ Results!StatsCountResults
        /\ part = "tasks" => /\ Tasks!FifoAccounting /\ Tasks!ResultClosesItsOwnTask
                             /\ Tasks!AcknowledgedIsRecorded
        /\ part = "capture" => /\ Capture!EventsHaveTheirFrame /\ Capture!AtMostOneUnlogged
                               /\ Capture!IndexesRun)
  /\ [][/\ part = "risk" => Risk!RaisedCallsWriteNothing
        /\ part = "graph" => Graph!MemoryOnlyGrows
        /\ part = "capture" => Capture!LatestMovesForward]_vars

\* What is written about a live smoke run is what happened: a run keeps its limits and heeds its
\* stop file, its report tells every input, what validates was a clean run, an official plan comes
\* from clean artifacts, and a verdict or a stability review stands on reviews of that very run.
\* What is measured is of the points and not of their order, and no match is given away.
ReportsTellTheRun ==
  /\ [](/\ part = "smoke" => /\ Smoke!WithinLimits /\ Smoke!StopIsHeeded
                             /\ Smoke!ReportTellsTheInputs /\ Smoke!ValidatedRunsAreClean
                             /\ Smoke!FullRunsValidate /\ Smoke!ObservationIsReported
        /\ part = "once" => Once!SummaryDescribesPlan /\ Once!LegacyDrivesNothing
        /\ part = "again" => Again!OfficialArtifactsAreClean /\ Again!AllowedRunFindsItsPathTaken
        /\ part = "policies" => Policies!VerdictStandsOnReview /\ Policies!PoliciesAgree
        /\ part = "stability" => /\ Stability!StabilityCountsThreeRuns
                                 /\ Stability!StabilityIsOfReviewedRuns
        /\ part = "benchmark" => /\ Benchmark!MatchingIsMaximum /\ Benchmark!ScoreIgnoresOrder
                                 /\ Benchmark!ComponentsAreBlobs)
  /\ [][part = "policies" => Policies!VerdictIsNotInherited]_vars
===============================================================================
