-------------------------------- MODULE MCEnds --------------------------------
(* The agent's loops on small instances, with the fairness of the thread that *)
(* runs them. The parts share no state, so each is explored on its own: Init  *)
(* chooses the part, and the slots x1, x2, ... hold that part's variables.    *)
EXTENDS Integers, Sequences, FiniteSets

LOCAL INSTANCE SequencesExt

CONSTANT None

VARIABLES part, x1, x2, x3, x4, x5, x6, x7, x8, x9, x10, x11, x12, x13, x14, x15, x16, x17, x18,
          x19

Manager == {"basic_reach_target", "continue_dialogue", "interact_visible_object"}
SmokeModes ==
  {<<"disabled", FALSE, FALSE>>, <<"disabled", TRUE, FALSE>>, <<"disabled", FALSE, TRUE>>,
   <<"wait_only_noop", FALSE, FALSE>>, <<"single_directional_tap", FALSE, FALSE>>}

Skill == INSTANCE SkillRun WITH
  MaxRuns <- 1, MaxSteps <- 2, MinInterval <- 1, MaxTime <- 1,
  pc <- x1, run <- x2, step <- x3, verdict <- x4, outcome <- x5, more <- x6, stop <- x7,
  trigger <- x8, result <- x9, log <- x10, stamp <- x11, last <- x12, latch <- x13, now <- x14,
  stopFile <- x15, focused <- x16, inputs <- x17, afterStop <- x18, afterBlur <- x19

Snapshot == INSTANCE SnapshotExchange WITH
  MaxRequests <- 2, MaxCycles <- 2, MaxEvidence <- 3, MaxDeaths <- 1,
  at <- x1, cycle <- x2, shot <- x3, started <- x4, offset <- x5, taken <- x6, evidence <- x7,
  request <- x8, response <- x9, scratch <- x10, feed <- x11, attempted <- x12, attempts <- x13,
  returned <- x14, relays <- x15, deaths <- x16

Loop == INSTANCE HierarchicalLoop WITH
  MaxTaskAttempts <- 2, MaxActionAttempts <- 3, MaxSnapshotAttempts <- 5, MaxSteps <- 2,
  MaxCalls <- 2,
  at <- x1, turn <- x2, turns <- x3, notes <- x4, phase <- x5, ticket <- x6, events <- x7,
  event <- x8, snapshots <- x9, actions <- x10, steps <- x11, verdict <- x12, stop <- x13,
  report <- x14, seen <- x15, blind <- x16, plans <- x17, calls <- x18

Smoke == INSTANCE LiveSmoke WITH
  Modes <- SmokeModes, Frequencies <- {1, 2}, FrameLimits <- {2}, InputLimits <- {1, 2},
  ActionLimits <- {0, 2}, RateLimit <- 1, MaxDuration <- 2, MaxTime <- 2,
  pc <- x1, cfg <- x2, start <- x3, elapsed <- x4, focusOk <- x5, frames <- x6, counts <- x7,
  blocked <- x8, inputTime <- x9, lastInput <- x10, pre <- x11, post <- x12, stop <- x13,
  report <- x14, now <- x15, focused <- x16, stopFile <- x17, delivered <- x18, late <- x19

Plan == INSTANCE PlanAndGround WITH
  Evidence <- {"e1"}, Capabilities <- Manager, MaxSprites <- 1,
  at <- x1, seen <- x2, known <- x3, plan <- x4, ground <- x5, task <- x6, error <- x7,
  shown <- x8

Walk == INSTANCE VerifiedSkills WITH
  Skills <- Manager, Side <- 10, Target <- 5, Step <- 2, Tolerance <- 2, MaxSteps <- 3,
  Pages <- 2, Calm <- TRUE,
  skill <- x1, world <- x2, start <- x3, latest <- x4, action <- x5, steps <- x6, outcome <- x7,
  reward <- x8, route <- x9

Scene == INSTANCE SceneWalk WITH
  Nodes <- {"scene", "window"}, Root <- "scene", Messages <- {"window"},
  Lists <- {SetToSeq(S) : S \in SUBSET {"scene", "window"}},
  children <- x1, parent <- x2, shown <- x3, open <- x4, pending <- x5, visited <- x6,
  surface <- x7

Pilot == INSTANCE PilotStep WITH
  MaxActions <- 2, MaxObservations <- 4, MaxTimeout <- 3,
  frames <- x1, answerOK <- x2, timeout <- x3, limits <- x4, stopFile <- x5, pc <- x6,
  evidence <- x7, feed <- x8, offset <- x9, consumed <- x10, looks <- x11, tries <- x12,
  inputs <- x13, step <- x14, seen <- x15, outcome <- x16


-----------------------------------------------------------------------------
(* Slots a part does not need stay empty. *)
from19 == <<x19>>
from17 == <<x17, x18, from19>>
from10 == <<x10, x11, x12, x13, x14, x15, x16, from17>>
from9 == <<x9, from10>>
from8 == <<x8, from9>>
slots == <<x1, x2, x3, x4, x5, x6, x7, from8>>

Empty19 == x19 = None
Empty17 == x17 = None /\ x18 = None /\ Empty19
Empty10 == x10 = None /\ x11 = None /\ x12 = None /\ x13 = None /\ x14 = None /\ x15 = None
           /\ x16 = None /\ Empty17
Empty9 == x9 = None /\ Empty10
Empty8 == x8 = None /\ Empty9

vars == <<part, slots>>

Init == \/ part = "skill" /\ Skill!Init
        \/ part = "snapshot" /\ Snapshot!Init /\ Empty17
        \/ part = "loop" /\ Loop!Init /\ Empty19
        \/ part = "smoke" /\ Smoke!Init
        \/ part = "plan" /\ Plan!Init /\ Empty9
        \/ part = "walk" /\ Walk!Init /\ Empty10
        \/ part = "scene" /\ Scene!Init /\ Empty8
        \/ part = "pilot" /\ Pilot!Init /\ Empty17

SkillStep == part = "skill" /\ Skill!Next /\ UNCHANGED part
SnapshotStep == part = "snapshot" /\ Snapshot!Next /\ UNCHANGED <<part, from17>>
LoopStep == part = "loop" /\ Loop!Next /\ UNCHANGED <<part, from19>>
SmokeStep == part = "smoke" /\ Smoke!Next /\ UNCHANGED part
PlanStep == part = "plan" /\ Plan!Next /\ UNCHANGED <<part, from9>>
WalkStep == part = "walk" /\ Walk!Next /\ UNCHANGED <<part, from10>>
SceneStep == part = "scene" /\ Scene!Next /\ UNCHANGED <<part, from8>>
PilotStep == part = "pilot" /\ Pilot!Next /\ UNCHANGED <<part, from17>>

Next == \/ SkillStep \/ SnapshotStep \/ LoopStep \/ SmokeStep \/ PlanStep \/ WalkStep
        \/ SceneStep \/ PilotStep

(* The thread that runs the loop is scheduled, and every call it makes returns   *)
(* or raises; the clock, the game, the operator and other processes owe nothing. *)
Scheduled ==
  \/ part = "skill" /\ Skill!RunnerStep /\ UNCHANGED part
  \/ part = "snapshot" /\ Snapshot!HostStep /\ UNCHANGED <<part, from17>>
  \/ part = "loop" /\ Loop!LoopStep /\ UNCHANGED <<part, from19>>
  \/ part = "smoke" /\ Smoke!Runner /\ UNCHANGED part
  \/ part = "plan" /\ Plan!Next /\ UNCHANGED <<part, from9>>
  \/ part = "walk" /\ Walk!Next /\ UNCHANGED <<part, from10>>
  \/ part = "scene" /\ Scene!Next /\ UNCHANGED <<part, from8>>
  \/ part = "pilot" /\ (Pilot!ObserveAndPlan \/ Pilot!Submit \/ Pilot!Act \/ Pilot!LookAfter \/ Pilot!Verify) /\ UNCHANGED <<part, from17>>

Spec == Init /\ [][Next]_vars /\ WF_vars(Scheduled)

-----------------------------------------------------------------------------
(* Properties. *)

(* Where the loop of the part is under way: the left sides of RunEnds, CycleEnds, *)
(* CallEnds, AttemptEnds, WalkEnds and PilotEnds of the modules.               *)
Busy ==
  \/ part = "skill" /\ x1 \notin Skill!Ended
  \/ part = "snapshot" /\ x1 # "idle"
  \/ part = "loop" /\ x1 # "out"
  \/ part = "smoke" /\ x1 \notin {"refused", "raised", "returned"}
  \/ part = "plan" /\ x1 # "observe"
  \/ part = "walk" /\ x7 = None
  \/ part = "scene" /\ x7 = None
  \/ part = "pilot" /\ x16 = None

\* Every loop of the agent ends, whatever it meets: a skill run at its step limit, a snapshot cycle
\* with an answer or a timeout, a bounded call within its budgets, a live smoke run within its frames
\* and its duration, an attempt to plan, a verified skill, the walk over the scene and a pilot step.
EveryLoopEnds == Busy ~> ~Busy
===============================================================================
