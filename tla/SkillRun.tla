------------------------------- MODULE SkillRun -------------------------------
(***************************************************************************)
(* SkillRunner.run over a guarded InputExecutor and an append-only event   *)
(* log.  The runner is sequential; the clock, the stop file, the window    *)
(* focus and an exception (a failing backend, source or disk, Ctrl-C) act  *)
(* between any two of its reads.  One InputExecutor and one log serve all  *)
(* runs.  The skill's choices, the observations and the verdicts are       *)
(* nondeterministic; identifiers of events are their positions in the log. *)
(***************************************************************************)
EXTENDS Integers, Sequences, FiniteSets

CONSTANTS
  MaxSteps,      \* contract.max_steps
  MinInterval,   \* min_interval_seconds
  None,
  MaxRuns,       \* bound: runs
  MaxTime        \* bound: clock

Verdicts == {"success", "progress", "failure", "abstain"}
BlockedReason == {"emergency_stop", "not_focused", "rate_limited"}
StopKinds == {"timeout", "focus_lost", "safety_intervention", "capability_rejected"}
Ended == {"idle", "escaped"}
Points == Ended \cup {"choose", "clock", "check_stop", "check_focus", "send", "observe",
                      "log_action", "verify", "log_verifier", "log_reward", "log_stop",
                      "finish"}

\* What the runner hands back; the fields a caller decides on.
Result == [run : Nat, success : BOOLEAN, verdict : Verdicts \cup {None},
           stop : StopKinds \cup {None}]

ActionEvent == [type : {"action_result"}, run : Nat, step : Nat,
                outcome : {"executed"} \cup BlockedReason]
VerifierEvent == [type : {"verifier_result"}, run : Nat, verdict : Verdicts]
RewardEvent == [type : {"verified_reward"}, run : Nat, verdict : Verdicts, link : Nat]
StopEvent == [type : {"manager_stop"}, run : Nat, kind : StopKinds, link : Nat]
SkillEvent == [type : {"skill_result"}, run : Nat, success : BOOLEAN]
LogEvent == ActionEvent \cup VerifierEvent \cup RewardEvent \cup StopEvent \cup SkillEvent
Input == [run : Nat, step : Nat, stamp : Nat, at : Nat, charged : BOOLEAN]

ASSUME StepsAssumption == MaxSteps \in Nat \ {0}
ASSUME IntervalAssumption == MinInterval \in Nat
ASSUME NoneAssumption == None \notin Verdicts \cup StopKinds \cup BlockedReason
                                     \cup {"executed"} \cup Result \cup Nat
ASSUME BoundAssumption == MaxRuns \in Nat /\ MaxTime \in Nat

VARIABLES
  pc,        \* where SkillRunner.run is
  run,       \* number of the current or last run
  step,      \* len(steps)
  verdict,   \* status of latest_verifier_result
  outcome,   \* ActionResult of this step: None, "executed" or a blocked reason
  more,      \* the observation source still gave an observation after the action
  stop,      \* failure kind of manager_stop_result
  trigger,   \* its trigger_event_id, 0 without one
  result,    \* SkillRunResult of the last run, None while it runs or when it raised
  log,       \* the event log
  stamp,     \* timestamp of the current execute call
  last,      \* _last_execution_timestamp
  latch,     \* emergency_stop_enabled
  now, stopFile, focused,  \* clock, stop file and window focus
  inputs,    \* ghost: inputs the backend delivered
  afterStop, afterBlur     \* ghost: inputs delivered since the stop / the loss of focus began

runnerVars == <<pc, run, step, verdict, outcome, more, stop, trigger, result>>
executorVars == <<stamp, last, latch>>
worldVars == <<now, stopFile, focused>>
ghostVars == <<inputs, afterStop, afterBlur>>
vars == <<pc, run, step, verdict, outcome, more, stop, trigger, result, log,
          stamp, last, latch, now, stopFile, focused, inputs, afterStop, afterBlur>>

Init ==
  /\ pc = "idle" /\ run = 0 /\ step = 0 /\ verdict = None /\ outcome = None
  /\ more = FALSE /\ stop = None /\ trigger = 0 /\ result = None
  /\ log = <<>>
  /\ stamp = 0 /\ last = None /\ latch = FALSE
  /\ now = 0 /\ stopFile \in BOOLEAN /\ focused \in BOOLEAN
  /\ inputs = <<>> /\ afterStop = 0 /\ afterBlur = 0

-----------------------------------------------------------------------------
(* SkillRunner.run.                                                         *)

\* The first observation: the source is empty, the precondition fails, or the
\* loop starts.
Begin ==
  /\ pc \in Ended
  /\ run < MaxRuns
  /\ run' = run + 1
  /\ step' = 0 /\ verdict' = None /\ outcome' = None /\ more' = TRUE
  /\ stop' = None /\ trigger' = 0 /\ result' = None
  /\ pc' \in {"finish", "choose"}
  /\ UNCHANGED <<log, executorVars, worldVars, ghostVars>>

ChooseOneTooMany ==                \* mutant: <= for <
  /\ pc = "choose"
  /\ step <= MaxSteps
  /\ step' = step + 1
  /\ outcome' = None
  /\ pc' = "clock"
  /\ UNCHANGED <<run, verdict, more, stop, trigger, result, log,
                 executorVars, worldVars, ghostVars>>

\* The next action of the skill: allowed by its contract or not.
Choose ==
  /\ pc = "choose"
  /\ step < MaxSteps
  /\ step' = step + 1
  /\ outcome' = None
  /\ \/ pc' = "clock" /\ UNCHANGED stop
     \/ pc' = "log_stop" /\ stop' = "capability_rejected"
  /\ UNCHANGED <<run, verdict, more, trigger, result, log, executorVars, worldVars, ghostVars>>

OutOfSteps ==
  /\ pc = "choose"
  /\ step = MaxSteps
  /\ stop' = "timeout"
  /\ pc' = "log_stop"
  /\ UNCHANGED <<run, step, verdict, outcome, more, trigger, result, log,
                 executorVars, worldVars, ghostVars>>

ObserveUnlogged ==                 \* mutant: no event without an after observation
  /\ pc = "observe"
  /\ more' \in BOOLEAN
  /\ pc' = IF more' THEN "log_action" ELSE "finish"
  /\ UNCHANGED <<run, step, verdict, outcome, stop, trigger, result, log,
                 executorVars, worldVars, ghostVars>>

\* The post-action observation, or none left.
Observe ==
  /\ pc = "observe"
  /\ more' \in BOOLEAN
  /\ pc' = "log_action"
  /\ UNCHANGED <<run, step, verdict, outcome, stop, trigger, result, log,
                 executorVars, worldVars, ghostVars>>

StopFor(reason) == IF reason = "not_focused" THEN "focus_lost" ELSE "safety_intervention"

IsBlockedByWorld == outcome \notin {"executed", "rate_limited"}  \* mutant: a rate limit passes
IsBlocked == outcome # "executed"

\* The action_result event comes after the post-action observation.
LogAction ==
  /\ pc = "log_action"
  /\ log' = Append(log, [type |-> "action_result", run |-> run, step |-> step,
                         outcome |-> outcome])
  /\ IF IsBlocked
     THEN pc' = "log_stop" /\ stop' = StopFor(outcome) /\ trigger' = Len(log')
     ELSE /\ pc' = IF more THEN "verify" ELSE "finish"
          /\ UNCHANGED <<stop, trigger>>
  /\ UNCHANGED <<run, step, verdict, outcome, more, result, executorVars, worldVars, ghostVars>>

Verify ==
  /\ pc = "verify"
  /\ verdict' \in Verdicts
  /\ pc' = "log_verifier"
  /\ UNCHANGED <<run, step, outcome, more, stop, trigger, result, log,
                 executorVars, worldVars, ghostVars>>

LogVerifier ==
  /\ pc = "log_verifier"
  /\ log' = Append(log, [type |-> "verifier_result", run |-> run, verdict |-> verdict])
  /\ pc' = "log_reward"
  /\ UNCHANGED <<run, step, verdict, outcome, more, stop, trigger, result,
                 executorVars, worldVars, ghostVars>>

TerminalSuccess == {"success"}     \* mutant: a failure does not end the run
Terminal == {"success", "failure"}

PreviousEventId == Len(log) - 1    \* mutant: the event before the verifier's
VerifierEventId == Len(log)

\* The reward names the verifier event it was derived from.  A terminal verdict
\* ends the run; otherwise combat may end it, with no verdict and no stop.
LogReward ==
  /\ pc = "log_reward"
  /\ log' = Append(log, [type |-> "verified_reward", run |-> run, verdict |-> verdict,
                         link |-> VerifierEventId])
  /\ \/ pc' = "finish"
     \/ verdict \notin Terminal /\ pc' = "choose"
  /\ UNCHANGED <<run, step, verdict, outcome, more, stop, trigger, result,
                 executorVars, worldVars, ghostVars>>

LogStop ==
  /\ pc = "log_stop"
  /\ log' = Append(log, [type |-> "manager_stop", run |-> run, kind |-> stop,
                         link |-> trigger])
  /\ pc' = "finish"
  /\ UNCHANGED <<run, step, verdict, outcome, more, stop, trigger, result,
                 executorVars, worldVars, ghostVars>>

\* _finish: the skill_result event, then the result with all it collected.  Only
\* a verifier success, found after an observation, makes it a success.
Finish ==
  LET success == stop = None /\ more /\ verdict = "success" IN
  /\ pc = "finish"
  /\ log' = Append(log, [type |-> "skill_result", run |-> run, success |-> success])
  /\ result' = [run |-> run, success |-> success, verdict |-> verdict, stop |-> stop]
  /\ pc' = "idle"
  /\ UNCHANGED <<run, step, verdict, outcome, more, stop, trigger,
                 executorVars, worldVars, ghostVars>>

\* An exception leaves run() at any point and is not caught by it.
Escape ==
  /\ pc \notin Ended
  /\ pc' = "escaped"
  /\ UNCHANGED <<run, step, verdict, outcome, more, stop, trigger, result, log,
                 executorVars, worldVars, ghostVars>>

-----------------------------------------------------------------------------
(* InputExecutor.execute, one step per read of the world.                   *)

ReadClock ==
  /\ pc = "clock"
  /\ stamp' = now
  /\ pc' = "check_stop"
  /\ UNCHANGED <<run, step, verdict, outcome, more, stop, trigger, result, log,
                 last, latch, worldVars, ghostVars>>

Blocked(reason) == outcome' = reason /\ pc' = "log_action"

EmergencyStopIsChecked == step = 1 /\ (latch \/ stopFile)  \* mutant: first step only
EmergencyStopIsTriggered == latch \/ stopFile

CheckStop ==
  /\ pc = "check_stop"
  /\ IF EmergencyStopIsTriggered THEN Blocked("emergency_stop")
                ELSE pc' = "check_focus" /\ UNCHANGED outcome
  /\ UNCHANGED <<run, step, verdict, more, stop, trigger, result, log,
                 executorVars, worldVars, ghostVars>>

RateLimitedNow == last # None /\ now - last < MinInterval  \* mutant: a second clock read
RateLimited == last # None /\ stamp - last < MinInterval

CheckFocusAndRate ==
  /\ pc = "check_focus"
  /\ IF ~focused THEN Blocked("not_focused")
     ELSE IF RateLimited THEN Blocked("rate_limited")
     ELSE pc' = "send" /\ UNCHANGED outcome
  /\ UNCHANGED <<run, step, verdict, more, stop, trigger, result, log,
                 executorVars, worldVars, ghostVars>>

Stopped == latch \/ stopFile       \* ghost: a stop is raised

Deliver(charged) ==
  /\ inputs' = Append(inputs, [run |-> run, step |-> step, stamp |-> stamp, at |-> now,
                               charged |-> charged])
  /\ afterStop' = IF Stopped THEN afterStop + 1 ELSE 0
  /\ afterBlur' = IF focused THEN 0 ELSE afterBlur + 1

\* backend.send returns, or raises after the key went out (xdotool is killed at
\* its one second timeout): then the input is neither charged nor logged.
Send ==
  /\ pc = "send"
  /\ \/ /\ Deliver(TRUE)
        /\ last' = stamp
        /\ outcome' = "executed"
        /\ pc' = "observe"
     \/ /\ Deliver(FALSE)
        /\ pc' = "escaped"
        /\ UNCHANGED <<last, outcome>>
  /\ UNCHANGED <<run, step, verdict, more, stop, trigger, result, log,
                 stamp, latch, worldVars>>

\* enable_emergency_stop and clear_emergency_stop, by the thread that runs skills.
SetLatch ==
  /\ pc \in Ended
  /\ latch' = ~latch
  /\ UNCHANGED <<runnerVars, log, stamp, last, worldVars, inputs, afterBlur>>
  /\ afterStop' = IF Stopped /\ Stopped' THEN afterStop ELSE 0

-----------------------------------------------------------------------------
(* The world outside the process.                                           *)

TimePasses ==
  /\ now < MaxTime
  /\ now' = now + 1
  /\ UNCHANGED <<runnerVars, log, executorVars, stopFile, focused, ghostVars>>

ToggleStopFile ==
  /\ stopFile' = ~stopFile
  /\ UNCHANGED <<runnerVars, log, executorVars, now, focused, inputs, afterBlur>>
  /\ afterStop' = IF Stopped /\ Stopped' THEN afterStop ELSE 0

ToggleFocus ==
  /\ focused' = ~focused
  /\ afterBlur' = 0
  /\ UNCHANGED <<runnerVars, log, executorVars, now, stopFile, inputs, afterStop>>

RunnerStep ==
  \/ Choose \/ OutOfSteps \/ ReadClock \/ CheckStop \/ CheckFocusAndRate \/ Send
  \/ Observe \/ LogAction \/ Verify \/ LogVerifier \/ LogReward \/ LogStop \/ Finish

Next ==
  \/ Begin
  \/ RunnerStep
  \/ Escape
  \/ SetLatch
  \/ TimePasses
  \/ ToggleStopFile
  \/ ToggleFocus

Spec == Init /\ [][Next]_vars

\* The runner's thread is scheduled; the world may do as it likes.
FairSpec == Spec /\ WF_vars(RunnerStep)

-----------------------------------------------------------------------------
(* Properties.                                                              *)

\* Every variable holds a value of the kind its Python name is annotated with.
TypeOK ==
  /\ pc \in Points /\ run \in Nat /\ step \in 0..MaxSteps
  /\ verdict \in Verdicts \cup {None}
  /\ outcome \in {None, "executed"} \cup BlockedReason
  /\ more \in BOOLEAN
  /\ stop \in StopKinds \cup {None}
  /\ trigger \in Nat
  /\ result \in Result \cup {None}
  /\ log \in Seq(LogEvent)
  /\ stamp \in Nat /\ last \in Nat \cup {None} /\ latch \in BOOLEAN
  /\ now \in Nat /\ stopFile \in BOOLEAN /\ focused \in BOOLEAN
  /\ inputs \in Seq(Input)
  /\ afterStop \in Nat /\ afterBlur \in Nat

\* The guards of execute are read before the input is sent, so a stop or a loss
\* of focus can come too late for the input under way, but for that one only:
\* while a stop stays raised, or the window stays unfocused, at most one input
\* still reaches the game, over any number of steps and runs.
AtMostOneLateInput == afterStop <= 1 /\ afterBlur <= 1

IsCharged(k) == inputs[k].charged

\* The rate limit holds on average although the timestamp is taken before the
\* other guards and the send: from the start of one returned send to a later
\* one, at least min_interval_seconds pass per returned send, across runs.
AmortisedRate ==
  \A i, j \in DOMAIN inputs :
     i < j /\ IsCharged(i) /\ IsCharged(j) =>
        inputs[j].at - inputs[i].stamp
          >= MinInterval * Cardinality({k \in (i + 1)..j : IsCharged(k)})

EventsOf(r) == {i \in DOMAIN log : log[i].run = r}
Sent(r) == {inputs[i].step : i \in {k \in DOMAIN inputs : inputs[k].run = r}}
Logged(r) == {log[i].step : i \in {k \in EventsOf(r) : /\ log[k].type = "action_result"
                                                      /\ log[k].outcome = "executed"}}
Returned(r) == \E i \in EventsOf(r) : log[i].type = "skill_result"

\* The log never invents an input and misses at most the last one of a run that
\* is under way or that an exception ended; the log of a run that returned has
\* one executed action_result for every input the game got.
InputsAccounted ==
  /\ \A i, j \in DOMAIN inputs :
        i # j => <<inputs[i].run, inputs[i].step>> # <<inputs[j].run, inputs[j].step>>
  /\ \A r \in 1..run : /\ Logged(r) \subseteq Sent(r)
                       /\ Cardinality(Sent(r) \ Logged(r)) <= 1
                       /\ Returned(r) => Sent(r) = Logged(r)

\* What may follow an event e of the same run: after a blocked action or a
\* terminal verdict the run only reports and acts no more.
MayFollow(e) ==
  CASE e.type = "skill_result" -> {}
    [] e.type = "manager_stop" -> {"skill_result"}
    [] e.type = "action_result" /\ e.outcome # "executed" -> {"manager_stop", "skill_result"}
    [] e.type \in {"verifier_result", "verified_reward"}
         /\ e.verdict \in {"success", "failure"} -> {"verified_reward", "skill_result"}
    [] OTHER -> {"action_result", "verifier_result", "verified_reward", "manager_stop",
                 "skill_result"}

StopsAreFinal ==
  \A r \in 1..run : \A i, j \in EventsOf(r) : i < j => log[j].type \in MayFollow(log[i])

\* A reward names the verifier event of its own run and verdict, and no two
\* rewards the same one; a stop for a blocked action names that action's event.
EventLinks ==
  \A i \in DOMAIN log :
     LET e == log[i] IN
     /\ e.type = "verified_reward" =>
          /\ e.link \in 1..(i - 1)
          /\ log[e.link] = [type |-> "verifier_result", run |-> e.run, verdict |-> e.verdict]
          /\ \A j \in DOMAIN log :
               log[j].type = "verified_reward" /\ log[j].link = e.link => j = i
     /\ e.type = "manager_stop" =>
          IF e.link = 0 THEN e.kind \in {"timeout", "capability_rejected"}
          ELSE /\ e.link \in 1..(i - 1)
               /\ log[e.link].type = "action_result"
               /\ log[e.link].run = e.run
               /\ log[e.link].outcome \in BlockedReason
               /\ e.kind = IF log[e.link].outcome = "not_focused"
                           THEN "focus_lost" ELSE "safety_intervention"

\* One terminal authority: what the run returns is either a stop or a verdict,
\* never a stop with a terminal verdict, it is a success only by the verifier,
\* and the log holds that stop, or that verdict as the run's last one.
OneAuthority ==
  result # None =>
     LET verdicts == {i \in EventsOf(result.run) : log[i].type = "verifier_result"} IN
     /\ result.stop # None => result.verdict \notin {"success", "failure"}
     /\ result.success <=> result.verdict = "success"
     /\ result.stop # None <=>
          \E i \in EventsOf(result.run) : log[i].type = "manager_stop" /\ log[i].kind = result.stop
     /\ IF result.verdict = None THEN verdicts = {}
        ELSE \E i \in verdicts : log[i].verdict = result.verdict /\ \A j \in verdicts : j <= i

\* A run ends, by returning or by an exception, whatever the stop file, the
\* focus and the clock do meanwhile.
RunEnds == pc \notin Ended ~> pc \in Ended

\* Documented, and not what the code does: every input sent is on record once
\* its run is over (an exception between the send and the log loses it).
SentInputsAreLogged == pc \in Ended => \A r \in 1..run : Sent(r) \subseteq Logged(r)
=============================================================================
