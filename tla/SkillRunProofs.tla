---------------------------- MODULE SkillRunProofs ----------------------------
(***************************************************************************)
(* Proofs about SkillRun, for every value of its constants.                *)
(***************************************************************************)
EXTENDS SkillRun, FiniteSetTheorems, TLAPS

-----------------------------------------------------------------------------
\* What the guards of execute have established at each point, and what the two
\* ghost counters can be there: past the stop check an input is still owed only
\* if none was delivered since the stop was raised, and likewise for the focus.
LateInputInv ==
  /\ pc \in Points
  /\ stopFile \in BOOLEAN /\ latch \in BOOLEAN /\ focused \in BOOLEAN
  /\ afterStop \in {0, 1}
  /\ afterBlur \in {0, 1}
  /\ ~Stopped => afterStop = 0
  /\ focused => afterBlur = 0
  /\ pc \in {"check_focus", "send"} => afterStop = 0
  /\ pc = "send" => afterBlur = 0

LEMMA LateInputInvHolds == Spec => []LateInputInv
<1> USE DEF LateInputInv, Stopped, Points, Ended, BlockedReason
<1>1. Init => LateInputInv
  BY DEF Init
<1>2. LateInputInv /\ [Next]_vars => LateInputInv'
  <2> SUFFICES ASSUME LateInputInv, [Next]_vars PROVE LateInputInv'
    OBVIOUS
  <2>1. CASE Begin
    BY <2>1 DEF Begin, executorVars, worldVars, ghostVars
  <2>2. CASE Choose \/ OutOfSteps
    BY <2>2 DEF Choose, OutOfSteps, executorVars, worldVars, ghostVars
  <2>3. CASE ReadClock
    BY <2>3 DEF ReadClock, worldVars, ghostVars
  <2>4. CASE CheckStop
    BY <2>4 DEF CheckStop, EmergencyStopIsTriggered, Blocked, executorVars, worldVars,
                ghostVars
  <2>5. CASE CheckFocusAndRate
    BY <2>5 DEF CheckFocusAndRate, Blocked, executorVars, worldVars, ghostVars
  <2>6. CASE Send
    BY <2>6 DEF Send, Deliver, worldVars
  <2>7. CASE Observe \/ Verify
    BY <2>7 DEF Observe, Verify, executorVars, worldVars, ghostVars
  <2>8. CASE LogAction
    BY <2>8 DEF LogAction, executorVars, worldVars, ghostVars
  <2>9. CASE LogVerifier \/ LogReward \/ LogStop \/ Finish
    BY <2>9 DEF LogVerifier, LogReward, LogStop, Finish, executorVars, worldVars, ghostVars
  <2>10. CASE Escape
    BY <2>10 DEF Escape, executorVars, worldVars, ghostVars
  <2>11. CASE SetLatch
    BY <2>11 DEF SetLatch, runnerVars, worldVars
  <2>12. CASE TimePasses
    BY <2>12 DEF TimePasses, runnerVars, executorVars, ghostVars
  <2>13. CASE ToggleStopFile
    BY <2>13 DEF ToggleStopFile, runnerVars, executorVars
  <2>14. CASE ToggleFocus
    BY <2>14 DEF ToggleFocus, runnerVars, executorVars
  <2>15. CASE UNCHANGED vars
    BY <2>15 DEF vars
  <2>16. QED
    BY <2>1, <2>2, <2>3, <2>4, <2>5, <2>6, <2>7, <2>8, <2>9, <2>10, <2>11, <2>12,
       <2>13, <2>14, <2>15 DEF Next, RunnerStep
<1>3. QED
  BY <1>1, <1>2, PTL DEF Spec

\* While a stop stays raised, or the window stays unfocused, at most one input
\* still reaches the game.
THEOREM AtMostOneLateInputHolds == Spec => []AtMostOneLateInput
<1>1. LateInputInv => AtMostOneLateInput
  BY DEF LateInputInv, AtMostOneLateInput
<1>2. QED
  BY <1>1, LateInputInvHolds, PTL

-----------------------------------------------------------------------------
\* Where the next action is still to be chosen, sent, observed or judged.
Acting == {"choose", "clock", "check_stop", "check_focus", "send", "observe", "log_action",
           "verify"}

BooleanTypes == more \in BOOLEAN /\ latch \in BOOLEAN /\ stopFile \in BOOLEAN
                  /\ focused \in BOOLEAN

RunTypes ==
  /\ pc \in Points /\ run \in Nat /\ step \in 0..MaxSteps
  /\ verdict \in Verdicts \cup {None}
  /\ outcome \in {None, "executed"} \cup BlockedReason
  /\ stop \in StopKinds \cup {None}
  /\ trigger \in Nat

WorldTypes ==
  /\ stamp \in Nat /\ last \in Nat \cup {None} /\ now \in Nat
  /\ inputs \in Seq(Input)

LogTypes == log \in Seq(LogEvent) /\ result \in Result \cup {None}

\* What a point of run() knows of the values the events and the result are made
\* from: an outcome after execute, a verdict after verify, a stop before its event,
\* no terminal verdict and no stop while the run still acts, no result before the
\* end.
Knows ==
  /\ pc = "observe" => outcome = "executed"
  /\ pc = "log_action" => outcome # None
  /\ pc \in {"log_verifier", "log_reward"} => verdict # None
  /\ pc = "log_stop" => stop # None
  /\ pc \notin Ended \cup {"log_stop", "finish"} => stop = None /\ trigger = 0
  /\ pc \in Acting \cup {"log_stop"} => verdict \notin Terminal
  /\ pc \in {"verify", "log_verifier", "log_reward"} => more = TRUE
  /\ pc = "finish" /\ verdict \in Terminal => stop = None /\ more = TRUE
  /\ pc \notin Ended => result = None

RunInv == RunTypes /\ BooleanTypes /\ WorldTypes /\ LogTypes /\ Knows

LEMMA RunTypesStep == RunTypes /\ Knows /\ [Next]_vars => RunTypes' /\ Knows'
<1> SUFFICES ASSUME RunTypes, Knows, [Next]_vars PROVE RunTypes' /\ Knows'
  OBVIOUS
<1> USE StepsAssumption, NoneAssumption
    DEF RunTypes, Knows, Points, Ended, Acting, Verdicts, StopKinds, BlockedReason, Terminal
<1>1. CASE Begin
  BY <1>1 DEF Begin
<1>2. CASE Choose
  BY <1>2 DEF Choose
<1>3. CASE OutOfSteps
  BY <1>3 DEF OutOfSteps
<1>4. CASE ReadClock
  BY <1>4 DEF ReadClock
<1>5. CASE CheckStop
  BY <1>5 DEF CheckStop, Blocked
<1>6. CASE CheckFocusAndRate
  BY <1>6 DEF CheckFocusAndRate, Blocked
<1>7. CASE Send
  BY <1>7 DEF Send
<1>8. CASE Observe
  BY <1>8 DEF Observe
<1>9. CASE LogAction
  BY <1>9 DEF LogAction, IsBlocked, StopFor
<1>10. CASE Verify
  BY <1>10 DEF Verify
<1>11. CASE LogVerifier
  BY <1>11 DEF LogVerifier
<1>12. CASE LogReward
  BY <1>12 DEF LogReward
<1>13. CASE LogStop
  BY <1>13 DEF LogStop
<1>14. CASE Finish
  BY <1>14 DEF Finish
<1>15. CASE Escape
  BY <1>15 DEF Escape
<1>16. CASE SetLatch \/ TimePasses \/ ToggleStopFile \/ ToggleFocus
  BY <1>16 DEF SetLatch, TimePasses, ToggleStopFile, ToggleFocus, runnerVars
<1>17. CASE UNCHANGED vars
  BY <1>17 DEF vars
<1>18. QED
  BY <1>1, <1>2, <1>3, <1>4, <1>5, <1>6, <1>7, <1>8, <1>9, <1>10, <1>11, <1>12, <1>13,
     <1>14, <1>15, <1>16, <1>17 DEF Next, RunnerStep
LEMMA BooleanTypesStep == BooleanTypes /\ [Next]_vars => BooleanTypes'
<1> SUFFICES ASSUME BooleanTypes, [Next]_vars PROVE BooleanTypes'
  OBVIOUS
<1> USE DEF BooleanTypes
<1>1. more' \in BOOLEAN
  BY Zenon DEF Next, RunnerStep, Begin, Choose, OutOfSteps, ReadClock, CheckStop, CheckFocusAndRate,
     Send, Observe, LogAction, Verify, LogVerifier, LogReward, LogStop, Finish, Escape,
     SetLatch, TimePasses, ToggleStopFile, ToggleFocus, runnerVars, vars
<1>2. latch' \in BOOLEAN
  <2>1. UNCHANGED latch \/ latch' = ~latch
    BY Zenon DEF Next, RunnerStep, Begin, Choose, OutOfSteps, ReadClock, CheckStop,
       CheckFocusAndRate, Send, Observe, LogAction, Verify, LogVerifier, LogReward, LogStop,
       Finish, Escape, SetLatch, TimePasses, ToggleStopFile, ToggleFocus, executorVars, vars
  <2>2. QED
    BY <2>1
<1>3. stopFile' \in BOOLEAN
  <2>1. UNCHANGED stopFile \/ stopFile' = ~stopFile
    BY Zenon DEF Next, RunnerStep, Begin, Choose, OutOfSteps, ReadClock, CheckStop,
       CheckFocusAndRate, Send, Observe, LogAction, Verify, LogVerifier, LogReward, LogStop,
       Finish, Escape, SetLatch, TimePasses, ToggleStopFile, ToggleFocus, worldVars, vars
  <2>2. QED
    BY <2>1
<1>4. focused' \in BOOLEAN
  <2>1. UNCHANGED focused \/ focused' = ~focused
    BY Zenon DEF Next, RunnerStep, Begin, Choose, OutOfSteps, ReadClock, CheckStop,
       CheckFocusAndRate, Send, Observe, LogAction, Verify, LogVerifier, LogReward, LogStop,
       Finish, Escape, SetLatch, TimePasses, ToggleStopFile, ToggleFocus, worldVars, vars
  <2>2. QED
    BY <2>1
<1>5. QED
  BY <1>1, <1>2, <1>3, <1>4

\* Only a returned or a raising send delivers an input, with the data of the call.
LEMMA InputShape ==
  ASSUME [Next]_vars
  PROVE  \/ UNCHANGED inputs
         \/ /\ Send
            /\ \E charged \in BOOLEAN :
                 inputs' = Append(inputs, [run |-> run, step |-> step, stamp |-> stamp,
                                           at |-> now, charged |-> charged])
BY DEF Next, RunnerStep, Begin, Choose, OutOfSteps, ReadClock, CheckStop, CheckFocusAndRate,
   Send, Deliver, Observe, LogAction, Verify, LogVerifier, LogReward, LogStop, Finish, Escape,
   SetLatch, TimePasses, ToggleStopFile, ToggleFocus, ghostVars, vars

LEMMA WorldTypesStep == RunTypes /\ WorldTypes /\ [Next]_vars => WorldTypes'
<1> SUFFICES ASSUME RunTypes, WorldTypes, [Next]_vars PROVE WorldTypes'
  OBVIOUS
<1>1. inputs' \in Seq(Input)
  <2>1. CASE UNCHANGED inputs
    BY <2>1 DEF WorldTypes
  <2>2. ASSUME NEW charged \in BOOLEAN,
               inputs' = Append(inputs, [run |-> run, step |-> step, stamp |-> stamp,
                                         at |-> now, charged |-> charged])
        PROVE  inputs' \in Seq(Input)
    <3> DEFINE new == [run |-> run, step |-> step, stamp |-> stamp, at |-> now,
                       charged |-> charged]
    <3>1. new \in Input
      BY StepsAssumption DEF RunTypes, WorldTypes, Input
    <3> HIDE DEF new
    <3>2. inputs' = Append(inputs, new)
      BY <2>2 DEF new
    <3>3. QED
      BY <3>1, <3>2 DEF WorldTypes
  <2>3. QED
    BY <2>1, <2>2, InputShape
<1>2. now' \in Nat
  <2>1. UNCHANGED now \/ now' = now + 1
    BY Zenon DEF Next, RunnerStep, Begin, Choose, OutOfSteps, ReadClock, CheckStop,
       CheckFocusAndRate, Send, Observe, LogAction, Verify, LogVerifier, LogReward, LogStop,
       Finish, Escape, SetLatch, TimePasses, ToggleStopFile, ToggleFocus, worldVars, vars
  <2>2. QED
    BY <2>1 DEF WorldTypes
<1>3. stamp' \in Nat /\ last' \in Nat \cup {None}
  BY DEF WorldTypes, Next, RunnerStep, Begin, Choose, OutOfSteps, ReadClock, CheckStop,
     CheckFocusAndRate, Send, Observe, LogAction, Verify, LogVerifier, LogReward, LogStop, Finish,
     Escape, SetLatch, TimePasses, ToggleStopFile, ToggleFocus, executorVars, vars
<1>4. QED
  BY <1>1, <1>2, <1>3 DEF WorldTypes

-----------------------------------------------------------------------------
\* A step appends at most one event, and a point of run() appends one kind only.
Appends(e) ==
  /\ e \in LogEvent
  /\ log' = Append(log, e)
  /\ e.run = run
  /\ \/ /\ LogAction
        /\ e \in ActionEvent /\ e.type = "action_result"
        /\ e.step = step /\ e.outcome = outcome
     \/ /\ LogVerifier
        /\ e = [type |-> "verifier_result", run |-> run, verdict |-> verdict]
     \/ /\ LogReward
        /\ e.type = "verified_reward" /\ e.verdict = verdict /\ e.link = Len(log)
     \/ /\ LogStop
        /\ e.type = "manager_stop" /\ e.kind = stop /\ e.link = trigger
     \/ /\ Finish
        /\ e.type = "skill_result"

LEMMA LogShape ==
  ASSUME RunTypes, Knows, LogTypes, [Next]_vars
  PROVE  \/ /\ ~(LogAction \/ LogVerifier \/ LogReward \/ LogStop \/ Finish)
            /\ UNCHANGED log
         \/ \E e : Appends(e)
<1> USE DEF RunTypes, Knows
<1>1. CASE LogAction
  <2> DEFINE e == [type |-> "action_result", run |-> run, step |-> step, outcome |-> outcome]
  <2>1. e \in ActionEvent
    BY <1>1, StepsAssumption, NoneAssumption DEF LogAction, ActionEvent
  <2>2. Appends(e)
    BY <1>1, <2>1 DEF LogAction, Appends, LogEvent
  <2>3. QED
    BY <2>2
<1>2. CASE LogVerifier
  <2> DEFINE e == [type |-> "verifier_result", run |-> run, verdict |-> verdict]
  <2>1. e \in VerifierEvent
    BY <1>2 DEF LogVerifier, VerifierEvent
  <2>2. Appends(e)
    BY <1>2, <2>1 DEF LogVerifier, Appends, LogEvent
  <2>3. QED
    BY <2>2
<1>3. CASE LogReward
  <2> DEFINE e == [type |-> "verified_reward", run |-> run, verdict |-> verdict,
                   link |-> VerifierEventId]
  <2>1. e \in RewardEvent
    BY <1>3 DEF LogReward, RewardEvent, VerifierEventId, LogTypes
  <2>2. Appends(e)
    BY <1>3, <2>1 DEF LogReward, Appends, LogEvent, VerifierEventId
  <2>3. QED
    BY <2>2
<1>4. CASE LogStop
  <2> DEFINE e == [type |-> "manager_stop", run |-> run, kind |-> stop, link |-> trigger]
  <2>1. e \in StopEvent
    BY <1>4 DEF LogStop, StopEvent
  <2>2. Appends(e)
    BY <1>4, <2>1 DEF LogStop, Appends, LogEvent
  <2>3. QED
    BY <2>2
<1>5. CASE Finish
  <2> DEFINE success == stop = None /\ more /\ verdict = "success"
  <2> DEFINE e == [type |-> "skill_result", run |-> run, success |-> success]
  <2>1. success \in BOOLEAN
    OBVIOUS
  <2>2. log' = Append(log, e)
    BY <1>5 DEF Finish
  <2> HIDE DEF success
  <2>3. e \in SkillEvent
    BY <2>1 DEF SkillEvent
  <2>4. Appends(e)
    BY <1>5, <2>2, <2>3 DEF Appends, LogEvent
  <2>5. QED
    BY <2>4
<1>6. CASE ~(LogAction \/ LogVerifier \/ LogReward \/ LogStop \/ Finish)
  <2>1. UNCHANGED log
    BY <1>6 DEF Next, RunnerStep, Begin, Choose, OutOfSteps, ReadClock, CheckStop, CheckFocusAndRate,
       Send, Observe, Verify, Escape, SetLatch, TimePasses, ToggleStopFile, ToggleFocus, vars
  <2>2. QED
    BY <1>6, <2>1
<1>7. QED
  BY <1>1, <1>2, <1>3, <1>4, <1>5, <1>6

LEMMA LogTypesStep == RunInv /\ [Next]_vars => LogTypes'
<1> SUFFICES ASSUME RunInv, [Next]_vars PROVE LogTypes'
  OBVIOUS
<1> USE DEF RunInv
<1>1. log' \in Seq(LogEvent)
  <2>1. ASSUME NEW e, Appends(e) PROVE log' \in Seq(LogEvent)
    BY <2>1 DEF Appends, LogTypes
  <2>2. QED
    BY <2>1, LogShape DEF LogTypes
<1>2. CASE Finish
  <2> DEFINE success == stop = None /\ more /\ verdict = "success"
  <2>1. success \in BOOLEAN
    OBVIOUS
  <2>2. result' = [run |-> run, success |-> success, verdict |-> verdict, stop |-> stop]
    BY <1>2 DEF Finish
  <2> HIDE DEF success
  <2>3. result' \in Result
    BY <2>1, <2>2 DEF Result, RunTypes
  <2>4. QED
    BY <1>1, <2>3 DEF LogTypes
<1>3. CASE ~Finish
  <2>1. result' \in {result, None}
    BY <1>3 DEF Next, RunnerStep, Begin, Choose, OutOfSteps, ReadClock, CheckStop, CheckFocusAndRate,
       Send, Observe, LogAction, Verify, LogVerifier, LogReward, LogStop, Escape,
       SetLatch, TimePasses, ToggleStopFile, ToggleFocus, runnerVars, vars
  <2>2. QED
    BY <1>1, <2>1 DEF LogTypes
<1>4. QED
  BY <1>2, <1>3

LEMMA RunInvHolds == Spec => []RunInv
<1>1. Init => RunInv
  <2> SUFFICES ASSUME Init PROVE RunInv
    OBVIOUS
  <2>1. BooleanTypes
    BY Zenon DEF Init, BooleanTypes
  <2>2. RunTypes /\ WorldTypes /\ LogTypes
    BY StepsAssumption DEF Init, RunTypes, WorldTypes, LogTypes, Points, Ended
  <2>3. Knows
    BY NoneAssumption DEF Init, Knows, Ended, Acting, Terminal
  <2>4. QED
    BY <2>1, <2>2, <2>3 DEF RunInv
<1>2. RunInv /\ [Next]_vars => RunInv'
  BY RunTypesStep, BooleanTypesStep, WorldTypesStep, LogTypesStep DEF RunInv
<1>3. QED
  BY <1>1, <1>2, PTL DEF Spec

\* Type correctness of the runner, the executor, the log and the world.
THEOREM SkillRunTypeCorrect == Spec => []TypeOK
<1>1. RunInv /\ LateInputInv => TypeOK
  BY DEF RunInv, RunTypes, BooleanTypes, WorldTypes, LogTypes, LateInputInv, TypeOK
<1>2. QED
  BY <1>1, RunInvHolds, LateInputInvHolds, PTL
-----------------------------------------------------------------------------
\* An event after which the run may still act.
Open(e) ==
  /\ e.type \notin {"skill_result", "manager_stop"}
  /\ e.type = "action_result" => e.outcome = "executed"
  /\ e.type \in {"verifier_result", "verified_reward"} => e.verdict \notin Terminal

\* What the log can hold of the run under way at a point with a verdict.
Fits(e, point, v) ==
  /\ point \in Acting \cup {"log_verifier"} => Open(e)
  /\ point = "log_reward" => Open(e) \/ (e.type = "verifier_result" /\ e.verdict = v)
  /\ point = "log_stop" => Open(e) \/ (e.type = "action_result" /\ e.outcome # "executed")
  /\ point = "finish" => e.type # "skill_result"

LogFits ==
  \A i \in DOMAIN log :
     /\ log[i].run \in Nat /\ log[i].run <= run
     /\ log[i].run = run /\ pc \notin Ended => Fits(log[i], pc, verdict)

\* A new event suits the point after the one that appended it, and so do the
\* older events of its run, which it may follow.
LEMMA AppendsFits ==
  ASSUME RunInv, NEW e, Appends(e)
  PROVE  /\ pc' \notin Ended => Fits(e, pc', verdict')
         /\ \A f : Fits(f, pc, verdict) =>
               /\ pc' \notin Ended => Fits(f, pc', verdict')
               /\ e.type \in MayFollow(f)
<1> USE DEF RunInv
<1>1. CASE LogAction
  <2>1. /\ e.type = "action_result" /\ e.outcome = outcome
        /\ pc = "log_action" /\ pc' \in {"log_stop", "verify", "finish"}
        /\ (pc' = "log_stop") = (outcome # "executed")
    BY <1>1 DEF LogAction, IsBlocked, Appends, LogVerifier, LogReward, LogStop, Finish
  <2>2. QED
    BY <2>1 DEF Fits, Open, MayFollow, Acting, Terminal
<1>2. CASE LogVerifier
  <2>1. /\ e.type = "verifier_result" /\ e.verdict = verdict /\ verdict' = verdict
        /\ pc = "log_verifier" /\ pc' = "log_reward"
    BY <1>2 DEF LogVerifier, Appends, LogAction, LogReward, LogStop, Finish
  <2>2. QED
    BY <2>1 DEF Fits, Open, MayFollow, Acting, Terminal
<1>3. CASE LogReward
  <2>1. /\ e.type = "verified_reward" /\ e.verdict = verdict /\ verdict' = verdict
        /\ pc = "log_reward" /\ pc' \in {"finish", "choose"}
        /\ pc' = "choose" => verdict \notin Terminal
    BY <1>3 DEF LogReward, Appends, LogAction, LogVerifier, LogStop, Finish
  <2>2. QED
    BY <2>1 DEF Fits, Open, MayFollow, Acting, Terminal
<1>4. CASE LogStop
  <2>1. e.type = "manager_stop" /\ pc = "log_stop" /\ pc' = "finish"
    BY <1>4 DEF LogStop, Appends, LogAction, LogVerifier, LogReward, Finish
  <2>2. QED
    BY <2>1 DEF Fits, Open, MayFollow, Acting, Terminal
<1>5. CASE Finish
  <2>1. e.type = "skill_result" /\ pc = "finish" /\ pc' \in Ended
    BY <1>5 DEF Finish, Appends, LogAction, LogVerifier, LogReward, LogStop, Ended
  <2>2. QED
    BY <2>1 DEF Fits, Open, MayFollow, Acting, Terminal
<1>6. QED
  BY <1>1, <1>2, <1>3, <1>4, <1>5 DEF Appends

\* A step that appends nothing leaves the events of the run suited to its point.
LEMMA QuietFits ==
  ASSUME RunInv, [Next]_vars,
         ~(LogAction \/ LogVerifier \/ LogReward \/ LogStop \/ Finish),
         NEW f, f.run \in Nat, f.run <= run,
         f.run = run /\ pc \notin Ended => Fits(f, pc, verdict)
  PROVE  /\ f.run <= run'
         /\ f.run = run' /\ pc' \notin Ended => Fits(f, pc', verdict')
<1> USE DEF RunInv, RunTypes, Fits, Acting, Ended, Points
<1>1. CASE Begin
  BY <1>1 DEF Begin
<1>2. CASE Choose \/ OutOfSteps
  BY <1>2 DEF Choose, OutOfSteps
<1>3. CASE ReadClock \/ CheckStop \/ CheckFocusAndRate
  BY <1>3 DEF ReadClock, CheckStop, CheckFocusAndRate, Blocked
<1>4. CASE Send
  BY <1>4 DEF Send
<1>5. CASE Observe \/ Verify \/ Escape
  BY <1>5 DEF Observe, Verify, Escape
<1>6. CASE SetLatch \/ TimePasses \/ ToggleStopFile \/ ToggleFocus \/ UNCHANGED vars
  BY <1>6 DEF SetLatch, TimePasses, ToggleStopFile, ToggleFocus, runnerVars, vars
<1>7. QED
  BY <1>1, <1>2, <1>3, <1>4, <1>5, <1>6 DEF Next, RunnerStep

\* What appending an event does to the log.
LEMMA AppendsShape ==
  ASSUME RunInv, NEW e, Appends(e)
  PROVE  /\ Len(log) \in Nat /\ DOMAIN log = 1..Len(log)
         /\ Len(log') = Len(log) + 1 /\ DOMAIN log' = 1..(Len(log) + 1)
         /\ \A i \in 1..Len(log) : log'[i] = log[i] /\ log[i] \in LogEvent
         /\ log'[Len(log) + 1] = e
         /\ e \in LogEvent /\ e.run = run /\ run \in Nat /\ run' = run
         /\ pc \notin Ended
BY DEF RunInv, RunTypes, LogTypes, Appends, LogAction, LogVerifier, LogReward, LogStop,
       Finish, Ended

LEMMA LogFitsStep ==
  ASSUME RunInv, LogFits, [Next]_vars
  PROVE  LogFits'
<1>1. ASSUME NEW e, Appends(e) PROVE LogFits'
  <2>1. /\ DOMAIN log' = 1..(Len(log) + 1) /\ DOMAIN log = 1..Len(log) /\ Len(log) \in Nat
        /\ \A i \in 1..Len(log) : log'[i] = log[i]
        /\ log'[Len(log) + 1] = e /\ run' = run /\ run \in Nat /\ e.run = run
        /\ pc \notin Ended
    BY <1>1, AppendsShape
  <2>2. ASSUME NEW i \in 1..Len(log)
        PROVE  /\ log'[i].run \in Nat /\ log'[i].run <= run'
               /\ log'[i].run = run' /\ pc' \notin Ended => Fits(log'[i], pc', verdict')
    <3>1. log'[i] = log[i] /\ i \in DOMAIN log
      BY <2>1
    <3>2. /\ log[i].run \in Nat /\ log[i].run <= run
          /\ log[i].run = run => Fits(log[i], pc, verdict)
      BY <2>1, <3>1 DEF LogFits
    <3>3. log[i].run = run /\ pc' \notin Ended => Fits(log[i], pc', verdict')
      BY <1>1, <3>2, AppendsFits
    <3>4. QED
      BY <2>1, <3>1, <3>2, <3>3
  <2>3. pc' \notin Ended => Fits(e, pc', verdict')
    BY <1>1, AppendsFits
  <2>4. QED
    BY <2>1, <2>2, <2>3 DEF LogFits
<1>2. CASE /\ ~(LogAction \/ LogVerifier \/ LogReward \/ LogStop \/ Finish)
           /\ UNCHANGED log
  <2> SUFFICES ASSUME NEW i \in DOMAIN log
               PROVE  /\ log[i].run \in Nat /\ log[i].run <= run'
                      /\ log[i].run = run' /\ pc' \notin Ended => Fits(log[i], pc', verdict')
    BY <1>2 DEF LogFits
  <2>1. /\ log[i].run \in Nat /\ log[i].run <= run
        /\ log[i].run = run /\ pc \notin Ended => Fits(log[i], pc, verdict)
    BY DEF LogFits
  <2>2. QED
    BY <1>2, <2>1, QuietFits
<1>3. QED
  BY <1>1, <1>2, LogShape DEF RunInv

\* Every two events of one run are in a permitted order.
Ordered ==
  \A i, j \in DOMAIN log :
     i < j /\ log[i].run = log[j].run => log[j].type \in MayFollow(log[i])

LEMMA OrderedStep ==
  ASSUME RunInv, LogFits, Ordered, [Next]_vars
  PROVE  Ordered'
<1>1. ASSUME NEW e, Appends(e) PROVE Ordered'
  <2>1. /\ DOMAIN log' = 1..(Len(log) + 1) /\ DOMAIN log = 1..Len(log) /\ Len(log) \in Nat
        /\ \A i \in 1..Len(log) : log'[i] = log[i]
        /\ log'[Len(log) + 1] = e /\ e.run = run /\ pc \notin Ended
    BY <1>1, AppendsShape
  <2>2. \A i \in 1..Len(log) : log[i].run = run => e.type \in MayFollow(log[i])
    BY <1>1, <2>1, AppendsFits DEF LogFits
  <2>3. QED
    BY <2>1, <2>2 DEF Ordered
<1>2. CASE UNCHANGED log
  BY <1>2 DEF Ordered
<1>3. QED
  BY <1>1, <1>2, LogShape DEF RunInv

LEMMA LogInvHolds == Spec => [](RunInv /\ LogFits /\ Ordered)
<1>1. Init => LogFits /\ Ordered
  BY DEF Init, LogFits, Ordered
<1>2. QED
  BY <1>1, RunInvHolds, LogFitsStep, OrderedStep, PTL DEF Spec

\* After a blocked action or a terminal verdict a run only reports: no event of
\* the log follows one of its own run that rules it out, over all runs.
THEOREM StopsAreFinalHolds == Spec => []StopsAreFinal
<1>1. Ordered => StopsAreFinal
  BY DEF Ordered, StopsAreFinal, EventsOf
<1>2. QED
  BY <1>1, LogInvHolds, PTL
-----------------------------------------------------------------------------
\* The events of a log are linked as they were appended: nothing later is needed
\* to read a link.
LinkedIn(i) ==
  LET e == log[i] IN
  /\ e.type = "verified_reward" =>
       /\ e.link \in 1..(i - 1)
       /\ log[e.link] = [type |-> "verifier_result", run |-> e.run, verdict |-> e.verdict]
  /\ e.type = "manager_stop" =>
       IF e.link = 0 THEN e.kind \in {"timeout", "capability_rejected"}
       ELSE /\ e.link \in 1..(i - 1)
            /\ log[e.link].type = "action_result"
            /\ log[e.link].run = e.run
            /\ log[e.link].outcome \in BlockedReason
            /\ e.kind = IF log[e.link].outcome = "not_focused"
                        THEN "focus_lost" ELSE "safety_intervention"

\* A reward names the event before it, so no two rewards name the same one.
RewardsFollowVerifiers ==
  \A i \in DOMAIN log : log[i].type = "verified_reward" => log[i].link = i - 1

\* What is about to be linked: the last event is the verifier's, and the trigger
\* of a stop, when it has one, is the last event, of the action it stops for.
ReadyToLink ==
  /\ pc = "log_reward" =>
        /\ Len(log) # 0
        /\ log[Len(log)] = [type |-> "verifier_result", run |-> run, verdict |-> verdict]
  /\ pc = "log_stop" =>
        IF trigger = 0 THEN stop \in {"timeout", "capability_rejected"}
        ELSE /\ trigger = Len(log)
             /\ log[trigger].type = "action_result"
             /\ log[trigger].run = run
             /\ log[trigger].outcome \in BlockedReason
             /\ stop = StopFor(log[trigger].outcome)

LinkInv ==
  /\ \A i \in DOMAIN log : LinkedIn(i)
  /\ RewardsFollowVerifiers
  /\ ReadyToLink

LEMMA ReadyToLinkStep ==
  ASSUME RunInv, ReadyToLink, [Next]_vars
  PROVE  ReadyToLink'
<1> USE NoneAssumption
<1>1. CASE LogAction
  <2>1. PICK e : /\ log' = Append(log, e) /\ e.type = "action_result" /\ e.run = run
                 /\ e.outcome = outcome
    BY <1>1 DEF LogAction
  <2>2. /\ log \in Seq(LogEvent) /\ outcome # None
        /\ outcome \in {None, "executed"} \cup BlockedReason
        /\ pc' \in {"log_stop", "verify", "finish"}
        /\ pc' = "log_stop" =>
              outcome # "executed" /\ stop' = StopFor(outcome) /\ trigger' = Len(log')
        /\ run' = run
    BY <1>1 DEF RunInv, RunTypes, LogTypes, Knows, LogAction, IsBlocked
  <2>3. /\ Len(log') = Len(log) + 1 /\ log'[Len(log) + 1] = e /\ Len(log) \in Nat
    BY <2>1, <2>2
  <2>4. QED
    BY <2>1, <2>2, <2>3 DEF ReadyToLink, StopFor
<1>2. CASE LogVerifier
  <2> DEFINE e == [type |-> "verifier_result", run |-> run, verdict |-> verdict]
  <2>1. /\ log' = Append(log, e) /\ run' = run /\ verdict' = verdict /\ pc' = "log_reward"
        /\ log \in Seq(LogEvent)
    BY <1>2 DEF RunInv, LogTypes, LogVerifier
  <2> HIDE DEF e
  <2>2. Len(log') = Len(log) + 1 /\ log'[Len(log) + 1] = e /\ Len(log) \in Nat
    BY <2>1
  <2>3. QED
    BY <2>1, <2>2 DEF ReadyToLink, e
<1>3. CASE Choose
  BY <1>3 DEF Choose, ReadyToLink, RunInv, Knows, Ended
<1>4. CASE OutOfSteps
  BY <1>4 DEF OutOfSteps, ReadyToLink, RunInv, Knows, Ended
<1>5. CASE LogReward \/ LogStop \/ Finish
  BY <1>5 DEF LogReward, LogStop, Finish, ReadyToLink
<1>6. CASE Begin \/ Observe \/ Verify \/ Escape
  BY <1>6 DEF Begin, Observe, Verify, Escape, ReadyToLink
<1>7. CASE ReadClock \/ CheckStop \/ CheckFocusAndRate \/ Send
  BY <1>7 DEF ReadClock, CheckStop, CheckFocusAndRate, Blocked, Send, ReadyToLink
<1>8. CASE SetLatch \/ TimePasses \/ ToggleStopFile \/ ToggleFocus \/ UNCHANGED vars
  BY <1>8 DEF SetLatch, TimePasses, ToggleStopFile, ToggleFocus, runnerVars, vars, ReadyToLink
<1>9. QED
  BY <1>1, <1>2, <1>3, <1>4, <1>5, <1>6, <1>7, <1>8 DEF Next, RunnerStep

LEMMA LinkStep ==
  ASSUME RunInv, LinkInv, [Next]_vars
  PROVE  LinkInv'
<1>1. ReadyToLink'
  BY ReadyToLinkStep DEF LinkInv
<1>2. ASSUME NEW e, Appends(e)
      PROVE  (\A i \in DOMAIN log : LinkedIn(i))' /\ RewardsFollowVerifiers'
  <2>1. /\ DOMAIN log' = 1..(Len(log) + 1) /\ DOMAIN log = 1..Len(log) /\ Len(log) \in Nat
        /\ \A i \in 1..Len(log) : log'[i] = log[i]
        /\ log'[Len(log) + 1] = e /\ e.run = run
    BY <1>2, AppendsShape
  <2>2. e.type = "verified_reward" =>
          /\ e.link = Len(log) /\ Len(log) # 0
          /\ log[Len(log)] = [type |-> "verifier_result", run |-> e.run, verdict |-> e.verdict]
    BY <1>2 DEF Appends, LinkInv, ReadyToLink, LogReward
  <2>3. e.type = "manager_stop" =>
          IF e.link = 0 THEN e.kind \in {"timeout", "capability_rejected"}
          ELSE /\ e.link = Len(log) /\ Len(log) # 0
               /\ log[e.link].type = "action_result"
               /\ log[e.link].run = e.run
               /\ log[e.link].outcome \in BlockedReason
               /\ e.kind = IF log[e.link].outcome = "not_focused"
                           THEN "focus_lost" ELSE "safety_intervention"
    BY <1>2 DEF Appends, LinkInv, ReadyToLink, LogStop, StopFor
  <2>4. RewardsFollowVerifiers'
    BY <2>1, <2>2 DEF LinkInv, RewardsFollowVerifiers
  <2>5. ASSUME NEW i \in 1..Len(log) PROVE LinkedIn(i)'
    <3>1. LinkedIn(i) /\ log'[i] = log[i]
      BY <2>1 DEF LinkInv
    <3>2. \A k \in 1..(i - 1) : log'[k] = log[k]
      BY <2>1
    <3>3. QED
      BY <3>1, <3>2 DEF LinkedIn
  <2>6. ASSUME NEW n, n = Len(log) + 1 PROVE LinkedIn(n)'
    <3>1. Len(log) \in 1..(Len(log) + 1 - 1) \/ Len(log) = 0
      BY <2>1
    <3>2. \A k \in 1..(Len(log) + 1 - 1) : log'[k] = log[k]
      BY <2>1
    <3>3. log'[Len(log) + 1] = e
      BY <2>1
    <3>4. e.type = "verified_reward" =>
            /\ e.link \in 1..(Len(log) + 1 - 1)
            /\ log'[e.link] = [type |-> "verifier_result", run |-> e.run, verdict |-> e.verdict]
      BY <2>2, <3>1, <3>2
    <3>5. e.type = "manager_stop" =>
            IF e.link = 0 THEN e.kind \in {"timeout", "capability_rejected"}
            ELSE /\ e.link \in 1..(Len(log) + 1 - 1)
                 /\ log'[e.link].type = "action_result"
                 /\ log'[e.link].run = e.run
                 /\ log'[e.link].outcome \in BlockedReason
                 /\ e.kind = IF log'[e.link].outcome = "not_focused"
                             THEN "focus_lost" ELSE "safety_intervention"
      BY <2>3, <3>1, <3>2
    <3>6. QED
      BY <2>6, <3>3, <3>4, <3>5 DEF LinkedIn
  <2>7. (\A i \in DOMAIN log : LinkedIn(i))'
    <3> SUFFICES ASSUME NEW i \in DOMAIN log' PROVE LinkedIn(i)'
      OBVIOUS
    <3>1. i \in 1..Len(log) \/ i = Len(log) + 1
      BY <2>1
    <3>2. QED
      BY <2>5, <2>6, <3>1
  <2>8. QED
    BY <2>4, <2>7
<1>3. CASE UNCHANGED log
  <2>1. (\A i \in DOMAIN log : LinkedIn(i))'
    <3> SUFFICES ASSUME NEW i \in DOMAIN log' PROVE LinkedIn(i)'
      OBVIOUS
    <3>1. LinkedIn(i) /\ log' = log
      BY <1>3 DEF LinkInv
    <3>2. QED
      BY <3>1 DEF LinkedIn
  <2>2. RewardsFollowVerifiers'
    BY <1>3 DEF LinkInv, RewardsFollowVerifiers
  <2>3. QED
    BY <1>1, <2>1, <2>2 DEF LinkInv
<1>4. QED
  BY <1>1, <1>2, <1>3, LogShape DEF LinkInv, RunInv

\* Every reward in the log names the verifier event of its own run and verdict,
\* no two the same one, and a stop for a blocked action names that action's event.
THEOREM EventLinksHolds == Spec => []EventLinks
<1>1. Init => LinkInv
  BY DEF Init, LinkInv, LinkedIn, RewardsFollowVerifiers, ReadyToLink
<1>2. RunInv /\ LinkInv => EventLinks
  <2> SUFFICES ASSUME RunInv, LinkInv, NEW i \in DOMAIN log
               PROVE  LET e == log[i] IN
                      /\ e.type = "verified_reward" =>
                           \A j \in DOMAIN log :
                             log[j].type = "verified_reward" /\ log[j].link = e.link => j = i
                      /\ LinkedIn(i)
    BY DEF EventLinks, LinkedIn
  <2>1. log \in Seq(LogEvent)
    BY DEF RunInv, LogTypes
  <2>2. QED
    BY <2>1 DEF LinkInv, RewardsFollowVerifiers
<1>3. QED
  BY <1>1, <1>2, RunInvHolds, LinkStep, PTL DEF Spec
-----------------------------------------------------------------------------
VerdictsOf(r) == {i \in EventsOf(r) : log[i].type = "verifier_result"}

\* The log ends with the verdict the run holds, outside the moment a new one is
\* still to be logged, and the stop a run finishes with is in the log.
VerdictOnRecord ==
  IF verdict = None THEN VerdictsOf(run) = {}
  ELSE \E i \in VerdictsOf(run) : log[i].verdict = verdict /\ \A j \in VerdictsOf(run) : j <= i

StopOnRecord ==
  \E i \in EventsOf(run) : log[i].type = "manager_stop" /\ log[i].kind = stop

Authority ==
  /\ pc \notin Ended \cup {"log_verifier"} => VerdictOnRecord
  /\ pc = "finish" /\ stop # None => StopOnRecord

\* Events of other kinds leave a run's verdicts as they are.
LEMMA VerdictsStay ==
  ASSUME RunInv, NEW e, Appends(e), e.type # "verifier_result"
  PROVE  /\ VerdictsOf(run)' = VerdictsOf(run)
         /\ \A i \in VerdictsOf(run) : log'[i] = log[i]
<1>1. /\ DOMAIN log' = 1..(Len(log) + 1) /\ DOMAIN log = 1..Len(log) /\ Len(log) \in Nat
      /\ \A i \in 1..Len(log) : log'[i] = log[i]
      /\ log'[Len(log) + 1] = e /\ run' = run
  BY AppendsShape
<1>2. QED
  BY <1>1 DEF VerdictsOf, EventsOf

LEMMA AuthorityStep ==
  ASSUME RunInv, LogFits, Authority, [Next]_vars
  PROVE  Authority'
<1> USE NoneAssumption
<1>1. ASSUME NEW e, Appends(e), e.type # "verifier_result" PROVE Authority'
  <2>1. ~LogVerifier /\ UNCHANGED verdict /\ pc \notin Ended \cup {"log_verifier"}
    BY <1>1 DEF Appends, LogAction, LogVerifier, LogReward, LogStop, Finish, Ended
  <2>2. VerdictOnRecord'
    BY <1>1, <2>1, VerdictsStay DEF Authority, VerdictOnRecord
  <2>3. pc' = "finish" /\ stop' # None => StopOnRecord'
    <3>1. CASE LogStop
      <4>1. /\ DOMAIN log' = 1..(Len(log) + 1) /\ Len(log) \in Nat
            /\ log'[Len(log) + 1] = e /\ e.run = run /\ run' = run
        BY <1>1, AppendsShape
      <4>2. e.type = "manager_stop" /\ e.kind = stop /\ stop' = stop
        BY <1>1, <3>1 DEF Appends, LogAction, LogVerifier, LogReward, LogStop, Finish
      <4>3. QED
        BY <4>1, <4>2 DEF StopOnRecord, EventsOf
    <3>2. CASE ~LogStop
      BY <1>1, <3>2 DEF Appends, LogAction, LogReward, Finish, IsBlocked, RunInv, Knows, Ended
    <3>3. QED
      BY <3>1, <3>2
  <2>4. QED
    BY <2>2, <2>3 DEF Authority
<1>2. ASSUME NEW e, Appends(e), e.type = "verifier_result" PROVE Authority'
  <2>1. /\ DOMAIN log' = 1..(Len(log) + 1) /\ DOMAIN log = 1..Len(log) /\ Len(log) \in Nat
        /\ log'[Len(log) + 1] = e /\ e.run = run /\ run' = run
    BY <1>2, AppendsShape
  <2>2. e.verdict = verdict /\ verdict # None /\ verdict' = verdict /\ pc' = "log_reward"
    BY <1>2 DEF Appends, LogAction, LogVerifier, LogReward, LogStop, Finish, RunInv, Knows
  <2>3. Len(log) + 1 \in VerdictsOf(run)'
    BY <1>2, <2>1 DEF VerdictsOf, EventsOf
  <2>4. \A j \in VerdictsOf(run)' : j <= Len(log) + 1
    BY <2>1 DEF VerdictsOf, EventsOf
  <2>5. VerdictOnRecord'
    BY <2>1, <2>2, <2>3, <2>4 DEF VerdictOnRecord
  <2>6. QED
    BY <2>2, <2>5 DEF Authority
<1>3. CASE /\ ~(LogAction \/ LogVerifier \/ LogReward \/ LogStop \/ Finish)
           /\ UNCHANGED log
  <2>1. CASE Begin
    <3>1. /\ run \in Nat /\ run' = run + 1 /\ verdict' = None /\ stop' = None
          /\ UNCHANGED log
      BY <2>1 DEF Begin, RunInv, RunTypes
    <3>2. \A i \in DOMAIN log : log[i].run # run + 1
      BY <3>1 DEF LogFits
    <3>3. VerdictsOf(run)' = {}
      BY <3>1, <3>2 DEF VerdictsOf, EventsOf
    <3>4. QED
      BY <3>1, <3>3 DEF Authority, VerdictOnRecord
  <2>2. CASE UNCHANGED <<run, verdict>>
    <3>1. VerdictOnRecord' = VerdictOnRecord
      BY <1>3, <2>2 DEF VerdictOnRecord, VerdictsOf, EventsOf
    <3>2. pc' \notin Ended \cup {"log_verifier"} => pc \notin Ended \cup {"log_verifier"}
      <4> SUFFICES ASSUME pc \in Ended \cup {"log_verifier"}
                   PROVE  pc' \in Ended \cup {"log_verifier"}
        OBVIOUS
      <4>1. ~Begin
        BY <2>2 DEF Begin, RunInv, RunTypes
      <4>2. CASE Escape
        BY <4>2 DEF Escape, Ended
      <4>3. CASE SetLatch \/ TimePasses \/ ToggleStopFile \/ ToggleFocus \/ UNCHANGED vars
        BY <4>3 DEF SetLatch, TimePasses, ToggleStopFile, ToggleFocus, runnerVars, vars
      <4>4. QED
        BY <1>3, <4>1, <4>2, <4>3 DEF Next, RunnerStep, Choose, OutOfSteps, ReadClock, CheckStop,
           CheckFocusAndRate, Send, Observe, Verify, Ended
    <3>3. pc' = "finish" => pc = "finish" /\ UNCHANGED stop
      BY <1>3, <2>2 DEF Next, RunnerStep, Begin, Choose, OutOfSteps, ReadClock, CheckStop,
         CheckFocusAndRate, Blocked, Send, Observe, Verify, Escape, SetLatch, TimePasses,
         ToggleStopFile, ToggleFocus, runnerVars, vars, Ended, RunInv, RunTypes
    <3>4. pc = "finish" /\ UNCHANGED stop => StopOnRecord' = StopOnRecord
      BY <1>3, <2>2 DEF StopOnRecord, EventsOf
    <3>5. QED
      BY <3>1, <3>2, <3>3, <3>4 DEF Authority
  <2>3. CASE Verify
    BY <2>3 DEF Verify, Authority
  <2>4. QED
    BY <1>3, <2>1, <2>2, <2>3 DEF Next, RunnerStep, Choose, OutOfSteps, ReadClock, CheckStop,
         CheckFocusAndRate, Send, Observe, Escape, SetLatch, TimePasses, ToggleStopFile,
         ToggleFocus, runnerVars, vars
<1>4. QED
  BY <1>1, <1>2, <1>3, LogShape DEF RunInv

LEMMA OneAuthorityStep ==
  ASSUME RunInv, Authority, OneAuthority, [Next]_vars
  PROVE  OneAuthority'
<1> USE NoneAssumption
<1>1. CASE Finish
  <2>1. PICK e : Appends(e) /\ e.type = "skill_result"
    <3>1. \E e : Appends(e)
      BY <1>1, LogShape DEF RunInv
    <3>2. QED
      BY <1>1, <3>1 DEF Appends, Finish, LogAction, LogVerifier, LogReward, LogStop
  <2>2. /\ DOMAIN log' = 1..(Len(log) + 1) /\ DOMAIN log = 1..Len(log) /\ Len(log) \in Nat
        /\ \A i \in 1..Len(log) : log'[i] = log[i] /\ log[i] \in LogEvent
        /\ log'[Len(log) + 1] = e /\ e.run = run /\ run' = run
    BY <2>1, AppendsShape
  <2> DEFINE success == stop = None /\ more /\ verdict = "success"
  <2>3. result' = [run |-> run, success |-> success, verdict |-> verdict, stop |-> stop]
    BY <1>1 DEF Finish
  <2>4. success = (verdict = "success") /\ (stop # None => verdict \notin Terminal)
    BY <1>1 DEF Finish, RunInv, Knows, Terminal
  <2>5. VerdictsOf(run)' = VerdictsOf(run) /\ \A i \in VerdictsOf(run) : log'[i] = log[i]
    BY <2>1, VerdictsStay
  <2>6. VerdictOnRecord /\ (stop # None => StopOnRecord)
    BY <1>1 DEF Finish, Authority, Ended
  <2>7. stop # None <=>
          \E i \in EventsOf(run)' : log'[i].type = "manager_stop" /\ log'[i].kind = stop
    <3>1. stop # None =>
            \E i \in EventsOf(run)' : log'[i].type = "manager_stop" /\ log'[i].kind = stop
      BY <2>2, <2>6 DEF StopOnRecord, EventsOf
    <3>2. ASSUME NEW i \in EventsOf(run)', log'[i].type = "manager_stop"
          PROVE  log'[i].kind \in StopKinds
      <4>1. i \in 1..Len(log) /\ log'[i] = log[i] /\ log[i] \in LogEvent
        BY <2>1, <2>2, <3>2 DEF EventsOf
      <4>2. QED
        BY <3>2, <4>1 DEF LogEvent, ActionEvent, VerifierEvent, RewardEvent, StopEvent, SkillEvent
    <3>3. None \notin StopKinds
      OBVIOUS
    <3>4. QED
      BY <3>1, <3>2, <3>3
  <2> HIDE DEF success
  <2>8. /\ result'.run = run /\ result'.verdict = verdict /\ result'.stop = stop
        /\ result'.success = success
    BY <2>3
  <2>9. {i \in EventsOf(result.run)' : log'[i].type = "verifier_result"} = VerdictsOf(run)
    BY <2>2, <2>5, <2>8 DEF VerdictsOf, EventsOf
  <2>10. QED
    BY <2>2, <2>4, <2>5, <2>6, <2>7, <2>8, <2>9
       DEF OneAuthority, VerdictOnRecord, Terminal, EventsOf
<1>2. CASE ~Finish
  <2>1. result' = None \/ (UNCHANGED result /\ pc \in Ended)
    BY <1>2 DEF Next, RunnerStep, Begin, Choose, OutOfSteps, ReadClock, CheckStop,
         CheckFocusAndRate, Send, Observe, LogAction, Verify, LogVerifier, LogReward, LogStop,
         Escape, SetLatch, TimePasses, ToggleStopFile, ToggleFocus, runnerVars, vars, RunInv, Knows
  <2>2. pc \in Ended => UNCHANGED log
    BY LogShape, AppendsShape DEF RunInv
  <2>3. QED
    BY <2>1, <2>2 DEF OneAuthority, EventsOf
<1>3. QED
  BY <1>1, <1>2

\* One terminal authority: what a run returns is a stop or a verdict, never a stop
\* with a terminal verdict, and the log holds exactly that.
THEOREM OneAuthorityHolds == Spec => []OneAuthority
<1>1. Init => Authority /\ OneAuthority
  BY DEF Init, Authority, OneAuthority, Ended
<1>2. QED
  BY <1>1, LogInvHolds, AuthorityStep, OneAuthorityStep, PTL DEF Spec
-----------------------------------------------------------------------------
\* The returned inputs from the i-th on, the i-th left out, up to the j-th.
Charged(i, j) == {k \in (i + 1)..j : IsCharged(k)}

\* One interval is never counted twice: the product of the rate limit.
LEMMA OneMoreInterval ==
  ASSUME NEW n \in Nat, NEW m \in Nat
  PROVE  m * (n + 1) = m * n + m
OBVIOUS

\* The last timestamp of a returned send is that far after any earlier one as the
\* sends between them demand, and a send under way was let through by the limiter.
RateInv ==
  /\ \A i \in DOMAIN inputs : IsCharged(i) =>
        /\ last \in Nat
        /\ last - inputs[i].stamp >= MinInterval * Cardinality(Charged(i, Len(inputs)))
  /\ pc \in {"check_stop", "check_focus", "send"} => stamp <= now
  /\ pc = "send" => last = None \/ stamp - last >= MinInterval
  /\ AmortisedRate

\* What one more input adds to the charged ones.
LEMMA ChargedGrows ==
  ASSUME inputs \in Seq(Input), NEW new \in Input, inputs' = Append(inputs, new)
  PROVE  /\ \A i \in DOMAIN inputs, j \in DOMAIN inputs : Charged(i, j)' = Charged(i, j)
         /\ \A i \in DOMAIN inputs : \A n : n = Len(inputs) + 1 =>
               Charged(i, n)' = IF new.charged THEN Charged(i, Len(inputs)) \cup {n}
                                ELSE Charged(i, Len(inputs))
<1>1. /\ Len(inputs) \in Nat /\ DOMAIN inputs = 1..Len(inputs)
      /\ \A k \in 1..Len(inputs) : inputs'[k] = inputs[k]
      /\ inputs'[Len(inputs) + 1] = new
  OBVIOUS
<1>2. QED
  BY <1>1 DEF Charged, IsCharged

LEMMA ChargedFinite ==
  ASSUME NEW i \in Int, NEW j \in Int
  PROVE  IsFiniteSet(Charged(i, j)) /\ Cardinality(Charged(i, j)) \in Nat
<1>1. IsFiniteSet((i + 1)..j)
  BY FS_Interval
<1>2. Charged(i, j) \in SUBSET ((i + 1)..j)
  BY DEF Charged
<1>3. IsFiniteSet(Charged(i, j))
  BY <1>1, <1>2, FS_Subset
<1>4. QED
  BY <1>3, FS_CardinalityType
\* Where no input is delivered, only the clock and the call under way change.
LEMMA RateQuiet ==
  ASSUME RunInv, RateInv, [Next]_vars, UNCHANGED inputs
  PROVE  RateInv'
<1>1. UNCHANGED last
  <2>1. ~Send \/ UNCHANGED last
    <3>1. ASSUME Send, last' # last PROVE FALSE
      <4>1. \E charged \in BOOLEAN :
              inputs' = Append(inputs, [run |-> run, step |-> step, stamp |-> stamp,
                                        at |-> now, charged |-> charged])
        BY <3>1 DEF Send, Deliver
      <4>2. inputs \in Seq(Input)
        BY DEF RunInv, WorldTypes
      <4>3. Len(inputs') = Len(inputs) + 1 /\ Len(inputs) \in Nat
        BY <4>1, <4>2
      <4>4. QED
        BY <4>3
    <3>2. QED
      BY <3>1
  <2>2. QED
    BY <2>1 DEF Next, RunnerStep, Begin, Choose, OutOfSteps, ReadClock, CheckStop, CheckFocusAndRate,
       Observe, LogAction, Verify, LogVerifier, LogReward, LogStop, Finish, Escape, SetLatch,
       TimePasses, ToggleStopFile, ToggleFocus, executorVars, vars
<1>2. /\ pc' \in {"check_stop", "check_focus", "send"} => stamp' <= now'
      /\ pc' = "send" => last' = None \/ stamp' - last' >= MinInterval
  <2>1. stamp \in Nat /\ now \in Nat
    BY DEF RunInv, WorldTypes
  <2>2. CASE ReadClock
    BY <2>1, <2>2 DEF ReadClock, worldVars
  <2>3. CASE CheckFocusAndRate
    <3>1. last \in Nat \cup {None} /\ MinInterval \in Nat
      BY IntervalAssumption DEF RunInv, WorldTypes
    <3>2. pc' = "send" => ~RateLimited
      BY <2>3 DEF CheckFocusAndRate, Blocked
    <3>3. UNCHANGED <<stamp, now>> /\ pc = "check_focus"
      BY <2>3 DEF CheckFocusAndRate, executorVars, worldVars
    <3>4. QED
      BY <1>1, <2>1, <3>1, <3>2, <3>3 DEF RateInv, RateLimited
  <2>4. CASE TimePasses
    BY <1>1, <2>1, <2>4 DEF TimePasses, runnerVars, executorVars, RateInv
  <2>5. CASE ~ReadClock /\ ~CheckFocusAndRate /\ ~TimePasses
    <3>1. /\ UNCHANGED <<stamp, now>>
          /\ pc' = "send" => pc = "send"
          /\ pc' \in {"check_stop", "check_focus"} => pc \in {"check_stop", "check_focus"}
      BY <2>5 DEF Next, RunnerStep, Begin, Choose, OutOfSteps, CheckStop, Blocked, Send,
         Observe, LogAction, Verify, LogVerifier, LogReward, LogStop, Finish, Escape, SetLatch,
         ToggleStopFile, ToggleFocus, runnerVars, executorVars, worldVars, vars
    <3>2. QED
      BY <1>1, <3>1 DEF RateInv
  <2>6. QED
    BY <2>2, <2>3, <2>4, <2>5
<1>3. QED
  BY <1>1, <1>2 DEF RateInv, AmortisedRate, IsCharged, Charged

LEMMA RateStep ==
  ASSUME RunInv, RateInv, [Next]_vars
  PROVE  RateInv'
<1>1. CASE UNCHANGED inputs
  BY <1>1, RateQuiet
<1>2. ASSUME NEW charged \in BOOLEAN, Send,
             inputs' = Append(inputs, [run |-> run, step |-> step, stamp |-> stamp,
                                       at |-> now, charged |-> charged])
      PROVE  RateInv'
  <2> DEFINE new == [run |-> run, step |-> step, stamp |-> stamp, at |-> now,
                     charged |-> charged]
  <2> DEFINE n == Len(inputs) + 1
  <2>1. /\ new \in Input /\ new.stamp = stamp /\ new.at = now /\ new.charged = charged
    BY StepsAssumption DEF RunInv, RunTypes, WorldTypes, Input
  <2>2. inputs' = Append(inputs, new) /\ inputs \in Seq(Input)
    BY <1>2 DEF RunInv, WorldTypes
  <2> HIDE DEF new
  <2>3. /\ Len(inputs) \in Nat /\ n \in Nat /\ DOMAIN inputs = 1..Len(inputs)
        /\ DOMAIN inputs' = 1..n /\ Len(inputs') = n
        /\ \A k \in 1..Len(inputs) : inputs'[k] = inputs[k] /\ inputs[k] \in Input
        /\ inputs'[n] = new
    BY <2>2
  <2>4. /\ \A k \in 1..Len(inputs) : IsCharged(k)' = IsCharged(k)
        /\ \A k : k = n => IsCharged(k)' = charged
    BY <2>1, <2>3 DEF IsCharged
  <2>5. /\ \A i, j \in 1..Len(inputs) : Charged(i, j)' = Charged(i, j)
        /\ \A i \in 1..Len(inputs) : \A k : k = n =>
               Charged(i, k)' = IF charged THEN Charged(i, Len(inputs)) \cup {k}
                                ELSE Charged(i, Len(inputs))
    BY <2>1, <2>2, <2>3, ChargedGrows
  <2>6. /\ stamp \in Nat /\ now \in Nat /\ stamp <= now /\ MinInterval \in Nat
        /\ pc = "send" /\ UNCHANGED <<stamp, now>>
        /\ pc' \in {"observe", "escaped"}
        /\ last = None \/ stamp - last >= MinInterval
    BY <1>2, IntervalAssumption DEF RunInv, WorldTypes, RateInv, Send, worldVars
  <2>7. \A k \in 1..Len(inputs) : inputs[k].stamp \in Nat /\ inputs[k].at \in Nat
    BY <2>3 DEF Input
  <2>8. CASE ~charged
    <3>1. UNCHANGED last
      <4>1. inputs'[n].charged = FALSE
        BY <2>1, <2>3, <2>8
      <4>2. ~Deliver(TRUE)
        <5>1. ASSUME Deliver(TRUE) PROVE inputs'[n].charged = TRUE
          <6> DEFINE other == [run |-> run, step |-> step, stamp |-> stamp, at |-> now,
                               charged |-> TRUE]
          <6>1. inputs' = Append(inputs, other) /\ other.charged = TRUE
            BY <5>1 DEF Deliver
          <6> HIDE DEF other
          <6>2. inputs'[n] = other
            BY <2>2, <6>1
          <6>3. QED
            BY <6>1, <6>2
        <5>2. QED
          BY <4>1, <5>1
      <4>3. QED
        BY <1>2, <4>2 DEF Send
    <3>2. \A i \in 1..Len(inputs) : \A k : k = n => Charged(i, k)' = Charged(i, Len(inputs))
      BY <2>5, <2>8
    <3>3. \A i \in DOMAIN inputs' : IsCharged(i)' => i \in 1..Len(inputs) /\ IsCharged(i)
      BY <2>3, <2>4, <2>8
    <3>4. \A i \in DOMAIN inputs' : IsCharged(i)' =>
             /\ last' \in Nat
             /\ last' - inputs'[i].stamp >= MinInterval * Cardinality(Charged(i, Len(inputs))')
      BY <2>3, <3>1, <3>2, <3>3 DEF RateInv
    <3>5. AmortisedRate'
      BY <2>3, <2>5, <3>3 DEF RateInv, AmortisedRate, Charged
    <3>6. QED
      BY <2>6, <3>4, <3>5 DEF RateInv
  <2>9. CASE charged
    <3>1. last' = stamp
      <4>1. inputs'[n].charged = TRUE
        BY <2>1, <2>3, <2>9
      <4>2. ~Deliver(FALSE)
        <5>1. ASSUME Deliver(FALSE) PROVE inputs'[n].charged = FALSE
          <6> DEFINE other == [run |-> run, step |-> step, stamp |-> stamp, at |-> now,
                               charged |-> FALSE]
          <6>1. inputs' = Append(inputs, other) /\ other.charged = FALSE
            BY <5>1 DEF Deliver
          <6> HIDE DEF other
          <6>2. inputs'[n] = other
            BY <2>2, <6>1
          <6>3. QED
            BY <6>1, <6>2
        <5>2. QED
          BY <4>1, <5>1
      <4>3. QED
        BY <1>2, <4>2 DEF Send
    <3>2. ASSUME NEW i \in 1..Len(inputs), IsCharged(i), NEW k, k = n
          PROVE  stamp - inputs[i].stamp >= MinInterval * Cardinality(Charged(i, k)')
      <4> DEFINE c == Cardinality(Charged(i, Len(inputs)))
      <4>0. i \in Int /\ Len(inputs) \in Int
        BY <2>3
      <4>1. c \in Nat /\ IsFiniteSet(Charged(i, Len(inputs)))
        BY <4>0, ChargedFinite
      <4>2. k \notin Charged(i, Len(inputs))
        BY <2>3, <3>2 DEF Charged
      <4>3. Cardinality(Charged(i, k)') = c + 1
        BY <2>5, <2>9, <3>2, <4>1, <4>2, FS_AddElement
      <4>4. last \in Nat /\ last - inputs[i].stamp >= MinInterval * c
        BY <2>3, <3>2 DEF RateInv
      <4> HIDE DEF c
      <4>5. MinInterval * (c + 1) = MinInterval * c + MinInterval /\ MinInterval * c \in Nat
        BY <2>6, <4>1, OneMoreInterval
      <4>6. stamp - last >= MinInterval
        BY <2>6, <4>4, NoneAssumption
      <4> DEFINE d == MinInterval * c
      <4> DEFINE s == inputs[i].stamp
      <4>7. s \in Nat /\ d \in Nat /\ last - s >= d
        BY <2>7, <4>4, <4>5
      <4> HIDE DEF d, s
      <4>8. stamp - s >= d + MinInterval
        BY <2>6, <4>4, <4>6, <4>7
      <4>9. QED
        BY <4>3, <4>5, <4>8 DEF d, s
    <3>3. ASSUME NEW k, k = n PROVE Charged(k, k)' = {}
      BY <2>3, <3>3 DEF Charged
    <3>4. ASSUME NEW i \in DOMAIN inputs', IsCharged(i)', NEW k, k = n
          PROVE  /\ last' \in Nat
                 /\ last' - inputs'[i].stamp >= MinInterval * Cardinality(Charged(i, k)')
      <4>1. CASE i \in 1..Len(inputs)
        BY <2>3, <2>4, <2>6, <3>1, <3>2, <3>4, <4>1
      <4>2. CASE i = n
        <5>1. inputs'[i].stamp = stamp /\ last' = stamp
          BY <2>1, <2>3, <3>1, <4>2
        <5>2. Cardinality(Charged(i, k)') = 0
          BY <3>3, <3>4, <4>2, FS_EmptySet
        <5>3. MinInterval * 0 = 0
          BY <2>6
        <5>4. QED
          BY <2>6, <5>1, <5>2, <5>3
      <4>3. QED
        BY <2>3, <4>1, <4>2
    <3>5. ASSUME NEW i \in DOMAIN inputs', NEW j \in DOMAIN inputs', i < j,
                 IsCharged(i)', IsCharged(j)'
          PROVE  inputs'[j].at - inputs'[i].stamp >= MinInterval * Cardinality(Charged(i, j)')
      <4>1. i \in 1..Len(inputs) /\ IsCharged(i) /\ inputs'[i] = inputs[i]
        BY <2>3, <2>4, <3>5
      <4>2. CASE j \in 1..Len(inputs)
        BY <2>3, <2>4, <2>5, <3>5, <4>1, <4>2 DEF RateInv, AmortisedRate, Charged
      <4>3. CASE j = n
        <5>1. inputs'[j].at = now
          BY <2>1, <2>3, <4>3
        <5> DEFINE d == MinInterval * Cardinality(Charged(i, j)')
        <5> DEFINE s == inputs[i].stamp
        <5>2. stamp - s >= d /\ s \in Nat
          BY <2>7, <3>2, <4>1, <4>3
        <5>3. d \in Int
          <6>1. Cardinality(Charged(i, j)') \in Nat
            <7>1. IsFiniteSet(Charged(i, Len(inputs)))
              BY <2>3, ChargedFinite
            <7>2. IsFiniteSet(Charged(i, j)')
              <8>1. Charged(i, j)' = Charged(i, Len(inputs)) \cup {j}
                BY <2>5, <2>9, <4>1, <4>3
              <8>2. QED
                BY <7>1, <8>1, FS_AddElement
            <7>3. QED
              BY <7>2, FS_CardinalityType
          <6>2. QED
            BY <2>6, <6>1
        <5> HIDE DEF d, s
        <5>4. now - s >= d
          BY <2>6, <5>2, <5>3
        <5>5. QED
          BY <4>1, <5>1, <5>4 DEF d, s
      <4>4. QED
        BY <2>3, <4>2, <4>3
    <3>6. AmortisedRate'
      BY <3>5 DEF AmortisedRate, Charged
    <3>7. QED
      BY <2>3, <2>6, <3>4, <3>6 DEF RateInv
  <2>10. QED
    BY <2>8, <2>9
<1>3. QED
  BY <1>1, <1>2, InputShape

\* The rate limit holds on average, for every interval, over any number of runs,
\* although the timestamp is taken before the other guards and the send.
THEOREM AmortisedRateHolds == Spec => []AmortisedRate
<1>1. Init => RateInv
  BY DEF Init, RateInv, AmortisedRate
<1>2. RateInv => AmortisedRate
  BY DEF RateInv
<1>3. QED
  BY <1>1, <1>2, RunInvHolds, RateStep, PTL DEF Spec
-----------------------------------------------------------------------------
\* Inputs are made in runs up to the present one, at most one for a step: before
\* the send, the step under way has none.
Guarding == {"clock", "check_stop", "check_focus", "send"}

InputsFit ==
  /\ \A i \in DOMAIN inputs :
        /\ inputs[i].run <= run
        /\ inputs[i].run = run => /\ inputs[i].step <= step
                                  /\ pc \in Guarding => inputs[i].step < step
  /\ \A i, j \in DOMAIN inputs :
        i # j => <<inputs[i].run, inputs[i].step>> # <<inputs[j].run, inputs[j].step>>

\* The input the game got and the log does not know of yet.
Pending == IF pc = "observe" \/ (pc = "log_action" /\ outcome = "executed") THEN {step} ELSE {}

\* The log of a run lags by at most one input, and while the run is under way by
\* exactly the pending one.
Accounted ==
  /\ \A r \in 1..run : /\ Logged(r) \subseteq Sent(r)
                       /\ \E s : Sent(r) \subseteq Logged(r) \cup {s}
                       /\ Returned(r) => Sent(r) = Logged(r)
  /\ pc \notin Ended => Sent(run) = Logged(run) \cup Pending

LEMMA InputsFitStep == RunInv /\ InputsFit /\ [Next]_vars => InputsFit'
<1> SUFFICES ASSUME RunInv, InputsFit, [Next]_vars PROVE InputsFit'
  OBVIOUS
<1> USE DEF Guarding
<1>0. /\ run \in Nat /\ step \in Nat /\ inputs \in Seq(Input)
      /\ \A i \in DOMAIN inputs : inputs[i].run \in Nat /\ inputs[i].step \in Nat
  <2>1. run \in Nat /\ step \in Nat /\ inputs \in Seq(Input)
    BY StepsAssumption DEF RunInv, RunTypes, WorldTypes
  <2>2. \A i \in DOMAIN inputs : inputs[i] \in Input
    BY <2>1
  <2>3. QED
    BY <2>1, <2>2 DEF Input
<1>1. CASE UNCHANGED inputs
  <2>1. \/ run' = run + 1
        \/ run' = run /\ step' = step + 1
        \/ run' = run /\ step' = step /\ (pc' \in Guarding => pc \in Guarding)
    BY DEF Next, RunnerStep, Begin, Choose, OutOfSteps, ReadClock, CheckStop, CheckFocusAndRate,
       Blocked, Send, Observe, LogAction, Verify, LogVerifier, LogReward, LogStop, Finish,
       Escape, SetLatch, TimePasses, ToggleStopFile, ToggleFocus, runnerVars, vars
  <2>2. \A i \in DOMAIN inputs :
           /\ inputs[i].run <= run'
           /\ inputs[i].run = run' => /\ inputs[i].step <= step'
                                      /\ pc' \in Guarding => inputs[i].step < step'
    BY <1>0, <2>1 DEF InputsFit
  <2>3. QED
    BY <1>1, <2>2 DEF InputsFit
<1>2. ASSUME Send, NEW charged \in BOOLEAN,
             inputs' = Append(inputs, [run |-> run, step |-> step, stamp |-> stamp,
                                       at |-> now, charged |-> charged])
      PROVE  InputsFit'
  <2> DEFINE new == [run |-> run, step |-> step, stamp |-> stamp, at |-> now,
                     charged |-> charged]
  <2> DEFINE n == Len(inputs) + 1
  <2>1. new.run = run /\ new.step = step /\ inputs' = Append(inputs, new)
    BY <1>2
  <2> HIDE DEF new
  <2>2. /\ DOMAIN inputs' = DOMAIN inputs \cup {n} /\ n \notin DOMAIN inputs
        /\ inputs'[n] = new /\ \A i \in DOMAIN inputs : inputs'[i] = inputs[i]
    BY <1>0, <2>1
  <2> HIDE DEF n
  <2>3. pc = "send" /\ pc' \notin Guarding /\ run' = run /\ step' = step
    BY <1>2 DEF Send
  <2>4. \A i \in DOMAIN inputs : inputs[i].run = run => inputs[i].step < step
    BY <2>3 DEF InputsFit
  <2>5. QED
    BY <1>0, <2>1, <2>2, <2>3, <2>4 DEF InputsFit
<1>3. QED
  BY <1>1, <1>2, InputShape

\* What one more input, or one more event, adds to what is sent, logged and
\* returned: only its own run's account changes.
LEMMA SentGrows ==
  ASSUME inputs \in Seq(Input), NEW new \in Input, new.run = run, new.step = step,
         inputs' = Append(inputs, new)
  PROVE  \A r : Sent(r)' = IF r = run THEN Sent(r) \cup {step} ELSE Sent(r)
<1> DEFINE n == Len(inputs) + 1
<1>1. /\ DOMAIN inputs' = DOMAIN inputs \cup {n} /\ n \notin DOMAIN inputs
      /\ inputs'[n] = new /\ \A i \in DOMAIN inputs : inputs'[i] = inputs[i]
  OBVIOUS
<1> HIDE DEF n
<1>2. QED
  BY <1>1 DEF Sent

LEMMA LoggedGrows ==
  ASSUME log \in Seq(LogEvent), NEW e \in LogEvent, e.run = run, log' = Append(log, e)
  PROVE  /\ \A r : Logged(r)' =
               IF r = run /\ e.type = "action_result" /\ e.outcome = "executed"
               THEN Logged(r) \cup {e.step} ELSE Logged(r)
         /\ \A r : Returned(r)' <=> (Returned(r) \/ (r = run /\ e.type = "skill_result"))
<1> DEFINE n == Len(log) + 1
<1>1. /\ DOMAIN log' = DOMAIN log \cup {n} /\ n \notin DOMAIN log
      /\ log'[n] = e /\ \A i \in DOMAIN log : log'[i] = log[i]
  OBVIOUS
<1> HIDE DEF n
<1>2. \A r : EventsOf(r)' = IF r = run THEN EventsOf(r) \cup {n} ELSE EventsOf(r)
  BY <1>1 DEF EventsOf
<1>3. \A r : EventsOf(r) \subseteq DOMAIN log
  BY DEF EventsOf
<1>4. \A r : Returned(r)' <=> (Returned(r) \/ (r = run /\ e.type = "skill_result"))
  BY <1>1, <1>2, <1>3 DEF Returned
<1>5. \A r : Logged(r)' =
               IF r = run /\ e.type = "action_result" /\ e.outcome = "executed"
               THEN Logged(r) \cup {e.step} ELSE Logged(r)
  BY <1>1, <1>2, <1>3 DEF Logged
<1>6. QED
  BY <1>4, <1>5
\* A step that neither sends nor logs leaves what is pending, or ends the run.
LEMMA QuietPending ==
  ASSUME RunInv, [Next]_vars, ~Begin, ~Send, UNCHANGED log
  PROVE  pc' \notin Ended => pc \notin Ended /\ Pending' = Pending
<1> USE DEF RunInv, Pending, Ended
<1>1. ~(LogAction \/ LogVerifier \/ LogReward \/ LogStop \/ Finish)
  <2>1. ASSUME NEW e, log' = Append(log, e) PROVE FALSE
    BY <2>1 DEF LogTypes
  <2>2. QED
    BY <2>1 DEF LogAction, LogVerifier, LogReward, LogStop, Finish
<1>2. CASE Choose \/ OutOfSteps
  BY <1>2 DEF Choose, OutOfSteps
<1>3. CASE ReadClock \/ CheckStop \/ CheckFocusAndRate
  BY <1>3 DEF ReadClock, CheckStop, CheckFocusAndRate, Blocked, BlockedReason
<1>4. CASE Observe \/ Verify \/ Escape
  BY <1>4 DEF Observe, Verify, Escape, Knows
<1>5. CASE SetLatch \/ TimePasses \/ ToggleStopFile \/ ToggleFocus \/ UNCHANGED vars
  BY <1>5 DEF SetLatch, TimePasses, ToggleStopFile, ToggleFocus, runnerVars, vars
<1>6. QED
  BY <1>1, <1>2, <1>3, <1>4, <1>5 DEF Next, RunnerStep
\* No event reports the end of a run that is under way.
LEMMA NotReturnedYet == LogFits /\ RunTypes /\ pc \notin Ended => ~Returned(run)
<1> SUFFICES ASSUME LogFits, RunTypes, pc \notin Ended, NEW i \in DOMAIN log, log[i].run = run
             PROVE  log[i].type # "skill_result"
  BY DEF Returned, EventsOf
<1>1. Fits(log[i], pc, verdict) /\ pc \in Points
  BY DEF LogFits, RunTypes
<1>2. QED
  BY <1>1 DEF Fits, Open, Points, Acting

LEMMA AccountedStep ==
  ASSUME RunInv, LogFits, InputsFit, Accounted, [Next]_vars
  PROVE  Accounted'
<1> USE DEF RunInv
<1>0. run \in Nat
  BY DEF RunTypes
<1>1. CASE Begin
  <2>1. /\ run' = run + 1 /\ UNCHANGED <<log, inputs>>
        /\ pc' \in {"finish", "choose"}
    BY <1>1 DEF Begin, ghostVars
  <2>2. /\ \A r : Logged(r)' = Logged(r) /\ Sent(r)' = Sent(r)
        /\ \A r : Returned(r)' <=> Returned(r)
    BY <2>1 DEF Logged, Sent, Returned, EventsOf
  <2>3. Sent(run + 1) = {}
    BY <1>0 DEF Sent, InputsFit
  <2>4. Logged(run + 1) = {}
    BY <1>0 DEF Logged, EventsOf, LogFits
  <2>5. Pending' = {}
    BY <2>1 DEF Pending
  <2>6. \A r \in 1..run' : r \in 1..run \/ r = run + 1
    BY <1>0, <2>1
  <2>7. QED
    BY <2>1, <2>2, <2>3, <2>4, <2>5, <2>6 DEF Accounted
<1>2. CASE Send
  <2>1. PICK charged \in BOOLEAN :
           inputs' = Append(inputs, [run |-> run, step |-> step, stamp |-> stamp,
                                     at |-> now, charged |-> charged])
    BY <1>2 DEF Send, Deliver
  <2> DEFINE new == [run |-> run, step |-> step, stamp |-> stamp, at |-> now,
                     charged |-> charged]
  <2>2. new \in Input /\ new.run = run /\ new.step = step /\ inputs' = Append(inputs, new)
    BY <2>1, StepsAssumption DEF RunTypes, WorldTypes, Input
  <2> HIDE DEF new
  <2>3. \A r : Sent(r)' = IF r = run THEN Sent(r) \cup {step} ELSE Sent(r)
    BY <2>2, SentGrows DEF WorldTypes
  <2>4. /\ pc = "send" /\ pc' \in {"observe", "escaped"}
        /\ UNCHANGED <<run, step, log>>
    BY <1>2 DEF Send
  <2>5. /\ \A r : Logged(r)' = Logged(r)
        /\ \A r : Returned(r)' <=> Returned(r)
    BY <2>4 DEF Logged, Returned, EventsOf
  <2>6. Sent(run) = Logged(run) /\ ~Returned(run)
    BY <2>4, NotReturnedYet DEF Accounted, Pending, Ended
  <2>7. pc' \notin Ended => Pending' = {step}
    BY <2>4 DEF Pending, Ended
  <2>8. QED
    BY <2>3, <2>4, <2>5, <2>6, <2>7 DEF Accounted
<1>3. ASSUME NEW e, Appends(e) PROVE Accounted'
  <2>1. /\ \A r : Logged(r)' =
               IF r = run /\ e.type = "action_result" /\ e.outcome = "executed"
               THEN Logged(r) \cup {e.step} ELSE Logged(r)
        /\ \A r : Returned(r)' <=> (Returned(r) \/ (r = run /\ e.type = "skill_result"))
    BY <1>3, LoggedGrows DEF Appends, LogTypes
  <2>2. UNCHANGED <<inputs, run, step>>
    BY <1>3 DEF Appends, LogAction, LogVerifier, LogReward, LogStop, Finish, ghostVars
  <2>3. \A r : Sent(r)' = Sent(r)
    BY <2>2 DEF Sent
  <2>4. pc \notin Ended /\ ~Returned(run)
    BY <1>3, AppendsShape, NotReturnedYet
  <2>5. /\ pc' \notin {"observe", "log_action"}
        /\ e.type = "action_result" /\ e.outcome = "executed" => Pending = {e.step}
        /\ ~(e.type = "action_result" /\ e.outcome = "executed") => Pending = {}
    BY <1>3 DEF Appends, LogAction, LogVerifier, LogReward, LogStop, Finish, Pending
  <2>6. \A r : r = run => Sent(r)' = Logged(r)'
    <3>1. Sent(run) = Logged(run) \cup Pending
      BY <2>4 DEF Accounted
    <3>2. QED
      BY <2>1, <2>3, <2>5, <3>1
  <2>7. Pending' = {}
    BY <2>5 DEF Pending
  <2>8. QED
    BY <2>1, <2>2, <2>3, <2>4, <2>6, <2>7 DEF Accounted
<1>4. CASE ~Begin /\ ~Send /\ UNCHANGED log
  <2>1. UNCHANGED inputs
    BY <1>4, InputShape
  <2>2. run' = run
    BY <1>4 DEF Next, RunnerStep, Choose, OutOfSteps, ReadClock, CheckStop, CheckFocusAndRate,
       Observe, LogAction, Verify, LogVerifier, LogReward, LogStop, Finish, Escape,
       SetLatch, TimePasses, ToggleStopFile, ToggleFocus, runnerVars, vars
  <2>3. \A r : /\ Logged(r)' = Logged(r) /\ Sent(r)' = Sent(r)
               /\ Returned(r)' <=> Returned(r)
    BY <1>4, <2>1 DEF Logged, Sent, Returned, EventsOf
  <2>4. pc' \notin Ended => pc \notin Ended /\ Pending' = Pending
    BY <1>4, QuietPending
  <2>5. QED
    BY <2>2, <2>3, <2>4 DEF Accounted
<1>5. QED
  BY <1>1, <1>2, <1>3, <1>4, LogShape

\* The log never invents an input and misses at most the last one of a run under
\* way or ended by an exception; what a returned run sent is all on record.
THEOREM InputsAccountedHolds == Spec => []InputsAccounted
<1>1. Init => InputsFit /\ Accounted
  BY DEF Init, InputsFit, Accounted, Ended
<1>2. InputsFit /\ Accounted => InputsAccounted
  <2> SUFFICES ASSUME InputsFit, Accounted, NEW r \in 1..run
               PROVE  Cardinality(Sent(r) \ Logged(r)) <= 1
    BY DEF InputsFit, Accounted, InputsAccounted
  <2>1. PICK s : Sent(r) \subseteq Logged(r) \cup {s}
    BY DEF Accounted
  <2>2. Sent(r) \ Logged(r) \in SUBSET {s}
    BY <2>1
  <2>3. IsFiniteSet({s}) /\ Cardinality({s}) = 1
    BY FS_Singleton
  <2>4. QED
    BY <2>2, <2>3, FS_Subset
<1>3. QED
  BY <1>1, <1>2, LogInvHolds, InputsFitStep, AccountedStep, PTL DEF Spec
=============================================================================
