------------------------------- MODULE MCAgent --------------------------------
(* The agent's own parts: what it may see, decide, do and learn.  The parts     *)
(* share no state (the code passes immutable records from one to the next), so  *)
(* each is explored on its own: Init chooses the part, and the slots x1, x2,    *)
(* ... hold that part's variables.  The constants get small values for TLC; the *)
(* theorems hold for all that satisfy SuiteAssumption.                          *)
EXTENDS Integers, Sequences, FiniteSets, TLAPS

LOCAL INSTANCE SequencesExt

CONSTANT None

\* The way from an observation to a task; the skills of the Manager.
CONSTANTS Evidence, Manager, MaxSprites
\* The skills' screens, of a game that interrupts and hides things, and of open ground.
CONSTANTS Side, Target, Stride, Tolerance, OpenSide, OpenTarget, OpenStride, OpenTolerance, Pages, MaxSteps
\* The scene, the payload, the focus guards.
CONSTANTS Nodes, Root, Messages, Shots, Places, Off, Hashes, Name, Windows, Changes
\* The offline pilot, the observation chain, the learner.
CONSTANTS MaxActions, MaxObservations, MaxTimeout, RunSteps, MaxAttempts, MaxChanges
CONSTANTS Width, Height, Horizon, Capacity

VARIABLES part, x1, x2, x3, x4, x5, x6, x7, x8, x9, x10, x11, x12, x13, x14, x15, x16

\* The parts, with a game that interrupts and hides things.
Game == INSTANCE AgentProofs WITH
  Calm <- FALSE, Step <- Stride,
  Capabilities <- Manager, Skills <- Manager, Lists <- {SetToSeq(S) : S \in SUBSET Nodes},
  place <- x1, seen <- x2, known <- x3, plan <- x4, ground <- x5, accepted <- x6, error <- x7, shown <- x8,
  skill <- x1, world <- x2, start <- x3, latest <- x4, action <- x5, steps <- x6, ending <- x7,
  reward <- x8, route <- x9,
  children <- x1, parent <- x2, onscreen <- x3, open <- x4, pending <- x5, visited <- x6, surface <- x7,
  door <- x1, given <- x2, asked <- x3, data <- x4, observation <- x5, stage <- x6, newestShot <- x7,
  guard <- x1, exact <- x2, target <- x3, active <- x4, title <- x5, class <- x6, comm <- x7,
  changes <- x8, held <- x9, asks <- x10, window <- x11, got <- x12, reached <- x13,
  recording <- x1, answerOK <- x2, timeout <- x3, limits <- x4, stopFile <- x5, leg <- x6,
  evidence <- x7, feed <- x8, offset <- x9, consumed <- x10, looks <- x11, tries <- x12, pressed <- x13,
  step <- x14, readBack <- x15, outcome <- x16,
  moment <- x1, cpc <- x2, attempt <- x3, planned <- x4, primed <- x5, first <- x6, newest <- x7,
  inputs <- x8, checked <- x9, halted <- x10, closing <- x11, rows <- x12,
  task <- x1, agent <- x2, step_count <- x3, last_obs <- x4, ended <- x5, buffer <- x6

\* The skills on open ground, where only the walk decides.
Ground == INSTANCE AgentProofs WITH
  Calm <- TRUE, Side <- OpenSide, Target <- OpenTarget, Step <- OpenStride, Tolerance <- OpenTolerance,
  Capabilities <- Manager, Skills <- Manager, Lists <- {SetToSeq(S) : S \in SUBSET Nodes},
  place <- x1, seen <- x2, known <- x3, plan <- x4, ground <- x5, accepted <- x6, error <- x7, shown <- x8,
  skill <- x1, world <- x2, start <- x3, latest <- x4, action <- x5, steps <- x6, ending <- x7,
  reward <- x8, route <- x9,
  children <- x1, parent <- x2, onscreen <- x3, open <- x4, pending <- x5, visited <- x6, surface <- x7,
  door <- x1, given <- x2, asked <- x3, data <- x4, observation <- x5, stage <- x6, newestShot <- x7,
  guard <- x1, exact <- x2, target <- x3, active <- x4, title <- x5, class <- x6, comm <- x7,
  changes <- x8, held <- x9, asks <- x10, window <- x11, got <- x12, reached <- x13,
  recording <- x1, answerOK <- x2, timeout <- x3, limits <- x4, stopFile <- x5, leg <- x6,
  evidence <- x7, feed <- x8, offset <- x9, consumed <- x10, looks <- x11, tries <- x12, pressed <- x13,
  step <- x14, readBack <- x15, outcome <- x16,
  moment <- x1, cpc <- x2, attempt <- x3, planned <- x4, primed <- x5, first <- x6, newest <- x7,
  inputs <- x8, checked <- x9, halted <- x10, closing <- x11, rows <- x12,
  task <- x1, agent <- x2, step_count <- x3, last_obs <- x4, ended <- x5, buffer <- x6

ASSUME SuiteAssumption ==
  /\ Game!Cycle!CapabilityAssumption /\ Game!Cycle!NoneAssumption
  /\ Game!Body!SizeAssumption /\ Game!Body!NoneAssumption
  /\ Ground!Body!SizeAssumption /\ Ground!Body!NoneAssumption /\ Ground!OpenGround
  /\ Game!Scene!SceneAssumption /\ Game!Payload!PayloadAssumption /\ Game!Payload!NoneAssumption
  /\ Game!Focus!FocusAssumption /\ Game!Focus!NoneAssumption
  /\ Game!Pilot!PilotAssumption /\ Game!Pilot!NoneAssumption
  /\ Game!Chain!ChainAssumption /\ Game!Replay!ReplayAssumption

-----------------------------------------------------------------------------
(* Slots a part does not need stay empty. *)
from14 == <<x14, x15, x16>>
from13 == <<x13, from14>>
from10 == <<x10, x11, x12, from13>>
from9 == <<x9, from10>>
from8 == <<x8, from9>>
from7 == <<x7, from8>>
slots == <<x1, x2, x3, x4, x5, x6, from7>>

Empty14 == x14 = None /\ x15 = None /\ x16 = None
Empty13 == x13 = None /\ Empty14
Empty10 == x10 = None /\ x11 = None /\ x12 = None /\ Empty13
Empty9 == x9 = None /\ Empty10
Empty8 == x8 = None /\ Empty9
Empty7 == x7 = None /\ Empty8

vars == <<part, slots>>

Init == \/ part = "plan" /\ Game!Cycle!Init /\ Empty9
        \/ part = "wild" /\ Game!Body!Init /\ Empty10
        \/ part = "open" /\ Ground!Body!Init /\ Empty10
        \/ part = "scene" /\ Game!Scene!Init /\ Empty8
        \/ part = "payload" /\ Game!Payload!Init /\ Empty8
        \/ part = "focus" /\ Game!Focus!Init /\ Empty14
        \/ part = "pilot" /\ Game!Pilot!Init
        \/ part = "chain" /\ Game!Chain!Init /\ Empty13
        \/ part = "replay" /\ Game!Replay!Init /\ Empty7

PlanStep == part = "plan" /\ Game!Cycle!Next /\ UNCHANGED <<part, from9>>
WildStep == part = "wild" /\ Game!Body!Next /\ UNCHANGED <<part, from10>>
OpenStep == part = "open" /\ Ground!Body!Next /\ UNCHANGED <<part, from10>>
SceneStep == part = "scene" /\ Game!Scene!Next /\ UNCHANGED <<part, from8>>
PayloadStep == part = "payload" /\ Game!Payload!Next /\ UNCHANGED <<part, from8>>
FocusStep == part = "focus" /\ Game!Focus!Next /\ UNCHANGED <<part, from14>>
PilotRun == part = "pilot" /\ Game!Pilot!Next /\ UNCHANGED part
ChainStep == part = "chain" /\ Game!Chain!Next /\ UNCHANGED <<part, from13>>
ReplayStep == part = "replay" /\ Game!Replay!Next /\ UNCHANGED <<part, from7>>

Next == \/ PlanStep \/ WildStep \/ OpenStep \/ SceneStep \/ PayloadStep \/ FocusStep
        \/ PilotRun \/ ChainStep \/ ReplayStep
Spec == Init /\ [][Next]_vars

-----------------------------------------------------------------------------
(* Properties. *)

\* Every record has the shape the code declares for it, in every part.
TypeOK ==
  /\ part = "plan" => Game!Cycle!TypeOK
  /\ part = "wild" => Game!Body!TypeOK
  /\ part = "open" => Ground!Body!TypeOK
  /\ part = "scene" => Game!Scene!TypeOK
  /\ part = "payload" => Game!Payload!TypeOK
  /\ part = "focus" => Game!Focus!TypeOK
  /\ part = "pilot" => Game!Pilot!TypeOK
  /\ part = "chain" => Game!Chain!TypeOK
  /\ part = "replay" => Game!Replay!TypeOK

\* The agent acts on what the player can see and on nothing else: hidden state gets in by no door
\* and text, looks, death screens and evidence get through unchanged; a target is what a sprite
\* shows, a task cites what was seen and can be executed; no input follows a game that was seen to
\* be over, goes to a window that is not the game's, or rests on news older than the input before.
DecisionsRestOnWhatIsSeen ==
  /\ part = "scene" => Game!Scene!SurfaceIsWhatIsSeen
  /\ part = "payload" => /\ Game!Payload!NothingHiddenGetsIn
                         /\ Game!Payload!SpritesKeepTheirLook
                         /\ Game!Payload!EvidenceIsTheFrame
                         /\ Game!Payload!PluginIsUnderstood
                         /\ Game!Payload!DeathIsNotMasked
  /\ part = "plan" => /\ Game!Cycle!EvidenceWasShown
                      /\ Game!Cycle!TargetIsPlain
                      /\ Game!Cycle!AcceptedTasksBind
                      /\ Game!Cycle!TargetIsTraceable
                      /\ Game!Cycle!TasksAreClean
  /\ part = "focus" => Game!Focus!StillDesktopIsToldRight /\ Game!Focus!NoTargetOfTwoWindows
  /\ part = "wild" => Game!Body!NoInputToALostGame
  /\ part = "chain" => Game!Chain!OnlyTheFirstActsOnOldNews

\* Verdicts and rewards agree with what the game shows and span the whole attempt, the greedy walk is as
\* short as any on open ground, a replay's report follows from the recording alone, and what is learnt from
\* a buffer is what the environment would do.
WhatIsEarned(p) ==
  /\ p = "wild" => Game!Body!SuccessIsReal /\ Game!Body!RewardTellsOutcome
  /\ p = "open" => Ground!Body!GreedyWalkIsShortest
  /\ p = "chain" => Game!Chain!VerdictSpansTheAttempt /\ Game!Chain!OneAuthority
  /\ p = "pilot" => /\ Game!Pilot!ReplayIsReproducible
                    /\ Game!Pilot!BudgetsTellTheRun
                    /\ Game!Pilot!SuccessFollowsAnInput
  /\ p = "replay" => Game!Replay!RelabelledIsReplayed /\ Game!Replay!ExamplesReachTheirTarget

\* No step drops a newer transition for an older one.
StepsKeep(p) == p = "replay" => Game!Replay!NewestAreKept

\* What a run is said to have achieved, it has: verdicts and rewards agree with what the game shows
\* and span the whole attempt, the greedy walk is as short as any on open ground, a replay's report
\* follows from the recording alone, and what is learnt from a buffer, whose newest transitions are
\* kept, is what the environment would do.
OutcomesAreEarned == []WhatIsEarned(part) /\ [][StepsKeep(part)]_vars

-----------------------------------------------------------------------------
(* Proofs.  A behaviour of the suite is one of its part, and what AgentProofs   *)
(* shows of every instance of a part holds of it.                               *)

\* What the variables of the suite are.
LEMMA SlotsOfTheSuite ==
  UNCHANGED vars <=> /\ part' = part /\ UNCHANGED <<x1, x2, x3, x4, x5, x6, x7, x8>>
                     /\ UNCHANGED <<x9, x10, x11, x12, x13, x14, x15, x16>>
BY DEF vars, slots, from7, from8, from9, from10, from13, from14

\* A step is one of the part's, and leaves the slots alone that the part does not need.
LEMMA StepsOfTheParts ==
  Next => /\ part' = part
          /\ part = "plan" => Game!Cycle!Next /\ UNCHANGED <<x9, x10, x11, x12, x13, x14, x15, x16>>
          /\ part = "wild" => Game!Body!Next /\ UNCHANGED <<x10, x11, x12, x13, x14, x15, x16>>
          /\ part = "open" => Ground!Body!Next /\ UNCHANGED <<x10, x11, x12, x13, x14, x15, x16>>
          /\ part = "scene" => Game!Scene!Next /\ UNCHANGED <<x8, x9, x10, x11, x12, x13, x14, x15, x16>>
          /\ part = "payload" => Game!Payload!Next /\ UNCHANGED <<x8, x9, x10, x11, x12, x13, x14, x15, x16>>
          /\ part = "focus" => Game!Focus!Next /\ UNCHANGED <<x14, x15, x16>>
          /\ part = "pilot" => Game!Pilot!Next
          /\ part = "chain" => Game!Chain!Next /\ UNCHANGED <<x13, x14, x15, x16>>
          /\ part = "replay" => Game!Replay!Next /\ UNCHANGED <<x7, x8, x9, x10, x11, x12, x13, x14, x15, x16>>
BY DEF Next, PlanStep, WildStep, OpenStep, SceneStep, PayloadStep, FocusStep, PilotRun, ChainStep, ReplayStep,
   from7, from8, from9, from10, from13, from14

\* Every behaviour explores one of the parts.
LEMMA EveryPart ==
  Init => \/ part = "plan" \/ part = "wild" \/ part = "open" \/ part = "scene" \/ part = "payload"
          \/ part = "focus" \/ part = "pilot" \/ part = "chain" \/ part = "replay"
BY DEF Init

-----------------------------------------------------------------------------
(* What holds of each part in the behaviours that explore it.                 *)

\* Planning and grounding.
LEMMA PlanHolds ==
  Spec /\ part = "plan" =>
    [](/\ part = "plan"
       /\ Game!Cycle!TypeOK
       /\ Game!Cycle!EvidenceWasShown
       /\ Game!Cycle!TargetIsPlain
       /\ Game!Cycle!AcceptedTasksBind
       /\ Game!Cycle!TargetIsTraceable
       /\ Game!Cycle!TasksAreClean)
<1>1. Init /\ part = "plan" => Game!Cycle!Init
  BY DEF Init
<1>2. part = "plan" /\ [Next]_vars => (part = "plan")' /\ [Game!Cycle!Next]_(Game!Cycle!vars)
  BY StepsOfTheParts, SlotsOfTheSuite DEF Game!Cycle!vars
<1>3. Game!Cycle!Spec => [](/\ Game!Cycle!TypeOK
                            /\ Game!Cycle!EvidenceWasShown
                            /\ Game!Cycle!TargetIsPlain
                            /\ Game!Cycle!AcceptedTasksBind
                            /\ Game!Cycle!TargetIsTraceable
                            /\ Game!Cycle!TasksAreClean)
  BY Game!TasksRestOnWhatWasShown, SuiteAssumption, PTL
<1> QED
  BY <1>1, <1>2, <1>3, PTL DEF Spec, Game!Cycle!Spec

\* The skills in a game that interrupts.
LEMMA WildHolds ==
  Spec /\ part = "wild" =>
    [](/\ part = "wild"
       /\ Game!Body!TypeOK
       /\ Game!Body!NoInputToALostGame
       /\ Game!Body!SuccessIsReal
       /\ Game!Body!RewardTellsOutcome)
<1>1. Init /\ part = "wild" => Game!Body!Init
  BY DEF Init
<1>2. part = "wild" /\ [Next]_vars => (part = "wild")' /\ [Game!Body!Next]_(Game!Body!vars)
  BY StepsOfTheParts, SlotsOfTheSuite DEF Game!Body!vars
<1>3. Game!Body!Spec => [](/\ Game!Body!TypeOK
                           /\ Game!Body!NoInputToALostGame
                           /\ Game!Body!SuccessIsReal
                           /\ Game!Body!RewardTellsOutcome)
  BY Game!SuccessIsEarned, SuiteAssumption, PTL
<1> QED
  BY <1>1, <1>2, <1>3, PTL DEF Spec, Game!Body!Spec

\* The skills on open ground.
LEMMA OpenHolds ==
  Spec /\ part = "open" =>
    [](part = "open" /\ Ground!Body!TypeOK /\ Ground!Body!GreedyWalkIsShortest)
<1>1. Init /\ part = "open" => Ground!Body!Init
  BY DEF Init
<1>2. part = "open" /\ [Next]_vars => (part = "open")' /\ [Ground!Body!Next]_(Ground!Body!vars)
  BY StepsOfTheParts, SlotsOfTheSuite DEF Ground!Body!vars
<1>3. Ground!Body!Spec => [](Ground!Body!TypeOK /\ Ground!Body!GreedyWalkIsShortest)
  BY Ground!SuccessIsEarned, Ground!GreedyWalksAreShortest, SuiteAssumption, PTL
<1> QED
  BY <1>1, <1>2, <1>3, PTL DEF Spec, Ground!Body!Spec

\* The scene walk.
LEMMA SceneHolds ==
  Spec /\ part = "scene" =>
    [](part = "scene" /\ Game!Scene!TypeOK /\ Game!Scene!SurfaceIsWhatIsSeen)
<1>1. Init /\ part = "scene" => Game!Scene!Init
  BY DEF Init
<1>2. part = "scene" /\ [Next]_vars => (part = "scene")' /\ [Game!Scene!Next]_(Game!Scene!vars)
  BY StepsOfTheParts, SlotsOfTheSuite DEF Game!Scene!vars
<1>3. Game!Scene!Spec => [](Game!Scene!TypeOK /\ Game!Scene!SurfaceIsWhatIsSeen)
  BY Game!SurfaceTellsWhatIsSeen, SuiteAssumption, PTL
<1> QED
  BY <1>1, <1>2, <1>3, PTL DEF Spec, Game!Scene!Spec

\* The payload.
LEMMA PayloadHolds ==
  Spec /\ part = "payload" =>
    [](/\ part = "payload"
       /\ Game!Payload!TypeOK
       /\ Game!Payload!NothingHiddenGetsIn
       /\ Game!Payload!SpritesKeepTheirLook
       /\ Game!Payload!EvidenceIsTheFrame
       /\ Game!Payload!PluginIsUnderstood
       /\ Game!Payload!DeathIsNotMasked)
<1>1. Init /\ part = "payload" => Game!Payload!Init
  BY DEF Init
<1>2. part = "payload" /\ [Next]_vars => (part = "payload")' /\ [Game!Payload!Next]_(Game!Payload!vars)
  BY StepsOfTheParts, SlotsOfTheSuite DEF Game!Payload!vars
<1>3. Game!Payload!Spec => [](/\ Game!Payload!TypeOK
                              /\ Game!Payload!NothingHiddenGetsIn
                              /\ Game!Payload!SpritesKeepTheirLook
                              /\ Game!Payload!EvidenceIsTheFrame
                              /\ Game!Payload!PluginIsUnderstood
                              /\ Game!Payload!DeathIsNotMasked)
  BY Game!WhatIsObservedIsVisible, SuiteAssumption, PTL
<1> QED
  BY <1>1, <1>2, <1>3, PTL DEF Spec, Game!Payload!Spec

\* The focus guards.
LEMMA FocusHolds ==
  Spec /\ part = "focus" =>
    [](/\ part = "focus"
       /\ Game!Focus!TypeOK
       /\ Game!Focus!StillDesktopIsToldRight
       /\ Game!Focus!NoTargetOfTwoWindows)
<1>1. Init /\ part = "focus" => Game!Focus!Init
  BY DEF Init
<1>2. part = "focus" /\ [Next]_vars => (part = "focus")' /\ [Game!Focus!Next]_(Game!Focus!vars)
  BY StepsOfTheParts, SlotsOfTheSuite DEF Game!Focus!vars
<1>3. Game!Focus!Spec => [](/\ Game!Focus!TypeOK
                            /\ Game!Focus!StillDesktopIsToldRight
                            /\ Game!Focus!NoTargetOfTwoWindows)
  BY Game!FocusChecksTellRight, SuiteAssumption, PTL
<1> QED
  BY <1>1, <1>2, <1>3, PTL DEF Spec, Game!Focus!Spec

\* The offline pilot.
LEMMA PilotHolds ==
  Spec /\ part = "pilot" =>
    [](/\ part = "pilot"
       /\ Game!Pilot!TypeOK
       /\ Game!Pilot!ReplayIsReproducible
       /\ Game!Pilot!BudgetsTellTheRun
       /\ Game!Pilot!SuccessFollowsAnInput)
<1>1. Init /\ part = "pilot" => Game!Pilot!Init
  BY DEF Init
<1>2. part = "pilot" /\ [Next]_vars => (part = "pilot")' /\ [Game!Pilot!Next]_(Game!Pilot!vars)
  BY StepsOfTheParts, SlotsOfTheSuite DEF Game!Pilot!vars
<1>3. Game!Pilot!Spec => [](/\ Game!Pilot!TypeOK
                            /\ Game!Pilot!ReplayIsReproducible
                            /\ Game!Pilot!BudgetsTellTheRun
                            /\ Game!Pilot!SuccessFollowsAnInput)
  BY Game!PilotReportsTellTheRun, Game!PilotsAreReproducible, SuiteAssumption, PTL
<1> QED
  BY <1>1, <1>2, <1>3, PTL DEF Spec, Game!Pilot!Spec

\* The observation chain.
LEMMA ChainHolds ==
  Spec /\ part = "chain" =>
    [](/\ part = "chain"
       /\ Game!Chain!TypeOK
       /\ Game!Chain!OnlyTheFirstActsOnOldNews
       /\ Game!Chain!VerdictSpansTheAttempt
       /\ Game!Chain!OneAuthority)
<1>1. Init /\ part = "chain" => Game!Chain!Init
  BY DEF Init
<1>2. part = "chain" /\ [Next]_vars => (part = "chain")' /\ [Game!Chain!Next]_(Game!Chain!vars)
  BY StepsOfTheParts, SlotsOfTheSuite DEF Game!Chain!vars
<1>3. Game!Chain!Spec => [](/\ Game!Chain!TypeOK
                            /\ Game!Chain!OnlyTheFirstActsOnOldNews
                            /\ Game!Chain!VerdictSpansTheAttempt
                            /\ Game!Chain!OneAuthority)
  BY Game!OnlyFirstInputsActOnOldNews, Game!VerdictsSpanTheirAttempts, SuiteAssumption, PTL
<1> QED
  BY <1>1, <1>2, <1>3, PTL DEF Spec, Game!Chain!Spec

\* The learner.
LEMMA ReplayHolds ==
  Spec /\ part = "replay" => 
    /\ [](/\ part = "replay"
          /\ Game!Replay!TypeOK
          /\ Game!Replay!RelabelledIsReplayed
          /\ Game!Replay!ExamplesReachTheirTarget)
    /\ [][part = "replay" /\ Game!Replay!NewestAreKept]_vars
<1>1. Init /\ part = "replay" => Game!Replay!Init
  BY DEF Init
<1>2. part = "replay" /\ [Next]_vars => (part = "replay")' /\ [Game!Replay!Next]_(Game!Replay!vars)
  BY StepsOfTheParts, SlotsOfTheSuite DEF Game!Replay!vars
<1>3. Game!Replay!Spec => [](/\ Game!Replay!TypeOK
                             /\ Game!Replay!RelabelledIsReplayed
                             /\ Game!Replay!ExamplesReachTheirTarget)
  BY Game!ExamplesTeachTheTruth, SuiteAssumption, PTL
<1>4. Game!Replay!Spec => [][Game!Replay!NewestAreKept]_(Game!Replay!vars)
  BY Game!ExamplesTeachTheTruth, SuiteAssumption
<1>5. part = "replay" /\ [Next]_vars /\ UNCHANGED Game!Replay!vars => UNCHANGED vars
  BY StepsOfTheParts, SlotsOfTheSuite DEF Game!Replay!vars
<1> QED
  BY <1>1, <1>2, <1>3, <1>4, <1>5, PTL DEF Spec, Game!Replay!Spec

-----------------------------------------------------------------------------
(* The properties of the suite.                                               *)

\* TypeOK: every record has the shape the code declares for it, in every part.
THEOREM SuiteTypeCorrect ==
  Spec => []TypeOK
<1>1. part = "plan" /\ Game!Cycle!TypeOK => TypeOK
  BY DEF TypeOK
<1>2. part = "wild" /\ Game!Body!TypeOK => TypeOK
  BY DEF TypeOK
<1>3. part = "open" /\ Ground!Body!TypeOK => TypeOK
  BY DEF TypeOK
<1>4. part = "scene" /\ Game!Scene!TypeOK => TypeOK
  BY DEF TypeOK
<1>5. part = "payload" /\ Game!Payload!TypeOK => TypeOK
  BY DEF TypeOK
<1>6. part = "focus" /\ Game!Focus!TypeOK => TypeOK
  BY DEF TypeOK
<1>7. part = "pilot" /\ Game!Pilot!TypeOK => TypeOK
  BY DEF TypeOK
<1>8. part = "chain" /\ Game!Chain!TypeOK => TypeOK
  BY DEF TypeOK
<1>9. part = "replay" /\ Game!Replay!TypeOK => TypeOK
  BY DEF TypeOK
<1> QED
  BY EveryPart, PlanHolds, WildHolds, OpenHolds, SceneHolds, PayloadHolds, FocusHolds,
     PilotHolds, ChainHolds, ReplayHolds, <1>1, <1>2, <1>3, <1>4, <1>5, <1>6, <1>7, <1>8, <1>9, PTL DEF Spec

\* DecisionsRestOnWhatIsSeen: the agent acts on what the player can see and on nothing else.
THEOREM DecisionsAlwaysRestOnWhatIsSeen ==
  Spec => []DecisionsRestOnWhatIsSeen
<1>1. /\ part = "plan"
      /\ Game!Cycle!EvidenceWasShown
      /\ Game!Cycle!TargetIsPlain
      /\ Game!Cycle!AcceptedTasksBind
      /\ Game!Cycle!TargetIsTraceable
      /\ Game!Cycle!TasksAreClean
    => DecisionsRestOnWhatIsSeen
  BY DEF DecisionsRestOnWhatIsSeen
<1>2. part = "wild" /\ Game!Body!NoInputToALostGame => DecisionsRestOnWhatIsSeen
  BY DEF DecisionsRestOnWhatIsSeen
<1>3. part = "open" => DecisionsRestOnWhatIsSeen
  BY DEF DecisionsRestOnWhatIsSeen
<1>4. part = "scene" /\ Game!Scene!SurfaceIsWhatIsSeen => DecisionsRestOnWhatIsSeen
  BY DEF DecisionsRestOnWhatIsSeen
<1>5. /\ part = "payload"
      /\ Game!Payload!NothingHiddenGetsIn
      /\ Game!Payload!SpritesKeepTheirLook
      /\ Game!Payload!EvidenceIsTheFrame
      /\ Game!Payload!PluginIsUnderstood
      /\ Game!Payload!DeathIsNotMasked
    => DecisionsRestOnWhatIsSeen
  BY DEF DecisionsRestOnWhatIsSeen
<1>6. part = "focus" /\ Game!Focus!StillDesktopIsToldRight /\ Game!Focus!NoTargetOfTwoWindows
    => DecisionsRestOnWhatIsSeen
  BY DEF DecisionsRestOnWhatIsSeen
<1>7. part = "pilot" => DecisionsRestOnWhatIsSeen
  BY DEF DecisionsRestOnWhatIsSeen
<1>8. part = "chain" /\ Game!Chain!OnlyTheFirstActsOnOldNews => DecisionsRestOnWhatIsSeen
  BY DEF DecisionsRestOnWhatIsSeen
<1>9. part = "replay" => DecisionsRestOnWhatIsSeen
  BY DEF DecisionsRestOnWhatIsSeen
<1> QED
  BY EveryPart, PlanHolds, WildHolds, OpenHolds, SceneHolds, PayloadHolds, FocusHolds,
     PilotHolds, ChainHolds, ReplayHolds, <1>1, <1>2, <1>3, <1>4, <1>5, <1>6, <1>7, <1>8, <1>9, PTL DEF Spec

\* OutcomesAreEarned: what a run is said to have achieved, it has.
THEOREM OutcomesAreAlwaysEarned ==
  Spec => OutcomesAreEarned
<1>1. part = "plan" => WhatIsEarned(part)
  BY DEF WhatIsEarned
<1>2. part = "wild" /\ Game!Body!SuccessIsReal /\ Game!Body!RewardTellsOutcome => WhatIsEarned(part)
  BY DEF WhatIsEarned
<1>3. part = "open" /\ Ground!Body!GreedyWalkIsShortest => WhatIsEarned(part)
  BY DEF WhatIsEarned
<1>4. part = "scene" => WhatIsEarned(part)
  BY DEF WhatIsEarned
<1>5. part = "payload" => WhatIsEarned(part)
  BY DEF WhatIsEarned
<1>6. part = "focus" => WhatIsEarned(part)
  BY DEF WhatIsEarned
<1>7. /\ part = "pilot"
      /\ Game!Pilot!ReplayIsReproducible
      /\ Game!Pilot!BudgetsTellTheRun
      /\ Game!Pilot!SuccessFollowsAnInput
    => WhatIsEarned(part)
  BY DEF WhatIsEarned
<1>8. part = "chain" /\ Game!Chain!VerdictSpansTheAttempt /\ Game!Chain!OneAuthority => WhatIsEarned(part)
  BY DEF WhatIsEarned
<1>9. part = "replay" /\ Game!Replay!RelabelledIsReplayed /\ Game!Replay!ExamplesReachTheirTarget
    => WhatIsEarned(part)
  BY DEF WhatIsEarned
<1>10. part = "plan" => StepsKeep(part)
  BY DEF StepsKeep
<1>11. part = "wild" => StepsKeep(part)
  BY DEF StepsKeep
<1>12. part = "open" => StepsKeep(part)
  BY DEF StepsKeep
<1>13. part = "scene" => StepsKeep(part)
  BY DEF StepsKeep
<1>14. part = "payload" => StepsKeep(part)
  BY DEF StepsKeep
<1>15. part = "focus" => StepsKeep(part)
  BY DEF StepsKeep
<1>16. part = "pilot" => StepsKeep(part)
  BY DEF StepsKeep
<1>17. part = "chain" => StepsKeep(part)
  BY DEF StepsKeep
<1>18. part = "replay" /\ Game!Replay!NewestAreKept => StepsKeep(part)
  BY DEF StepsKeep
<1> QED
  BY EveryPart, PlanHolds, WildHolds, OpenHolds, SceneHolds, PayloadHolds, FocusHolds,
     PilotHolds, ChainHolds, ReplayHolds, <1>1, <1>2, <1>3, <1>4, <1>5, <1>6, <1>7, <1>8, <1>9, <1>10, <1>11,
     <1>12, <1>13, <1>14, <1>15, <1>16, <1>17, <1>18, PTL DEF Spec, OutcomesAreEarned
===============================================================================
