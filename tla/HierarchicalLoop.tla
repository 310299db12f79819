--------------------------- MODULE HierarchicalLoop ---------------------------
(***************************************************************************)
(* The bridge-assisted runtime: run_bounded asks for a bounded number of   *)
(* task attempts; each attempt observes, plans, submits, starts and runs   *)
(* one task, and only an outcome the verifier decided leads to the next    *)
(* plan.  Snapshots and actions are counted over the life of the runtime.  *)
(*                                                                         *)
(* Observing, planning, executing, verifying and recording may raise; the  *)
(* exception leaves run_bounded and the runtime keeps its state, for a     *)
(* caller who may tidy up and call again.  The parts are seen from outside:*)
(* SkillRun, SnapshotExchange and TaskLifecycle are their own modules.     *)
(*                                                                         *)
(* Tasks are numbered in submission order, observations in the order they  *)
(* were taken.                                                             *)
(***************************************************************************)
EXTENDS Integers, Sequences, FiniteSets

CONSTANTS
  MaxTaskAttempts, MaxActionAttempts, MaxSnapshotAttempts,  \* the runtime's limits
  MaxSteps,   \* max_steps of the skill contract
  None,
  MaxCalls    \* bound: calls of run_bounded

ASSUME BoundAssumption ==
  /\ {MaxTaskAttempts, MaxActionAttempts, MaxSnapshotAttempts, MaxSteps} \subseteq Nat \ {0}
  /\ MaxCalls \in Nat

Tasks == 1..(MaxCalls * MaxTaskAttempts)
Verdicts == {"success", "progress", "failure", "abstain"}
Decisive == {"success", "failure"}
StopKinds == {"timeout", "focus_lost", "safety_intervention", "capability_rejected"}
Terminal == {"succeeded", "failed", "timed_out", "cancelled"}
Phases == {"absent", "pending", "running"} \cup Terminal
Points == {"out", "step", "plan", "start", "begin", "act", "look", "verify", "complete", "judge"}
Reports == {"nonterminal", "manager_stop", "budget_exhausted", "raised"}

Note == [task : Tasks, verdict : Decisive]
Event == [ticket : Tasks, status : Terminal, by : {"verifier", "stop", "caller"}]
Plan == [notes : Seq(Note), seen : Nat, turn : Nat]

ASSUME NoneAssumption == None \notin Event \cup Verdicts \cup StopKinds \cup Reports

VARIABLES
  at,         \* where run_bounded is
  turn, turns,  \* the task attempt of this call, and len(step_ids)
  notes,      \* recent_skill_outcomes of the memory summary
  phase, ticket,  \* the scheduler's tasks, the last one submitted
  events,     \* completion events in the sink
  event,      \* the completion event of this attempt
  snapshots, actions,  \* attempt_count of the two bounded wrappers
  steps, verdict, stop,  \* the skill run
  report,     \* how the last call ended
  seen,       \* ghost: number of the latest observation
  blind,      \* ghost: inputs sent since it was taken
  plans,      \* ghost: what each submitted task was planned from
  calls       \* bound counter

vars == <<at, turn, turns, notes, phase, ticket, events, event, snapshots, actions,
          steps, verdict, stop, report, seen, blind, plans, calls>>
callVars == <<turn, turns, notes, calls>>
taskVars == <<phase, ticket, events, plans>>
runVars == <<steps, verdict, stop>>
worldVars == <<snapshots, actions, seen, blind>>

Init ==
  /\ at = "out" /\ turn = 0 /\ turns = 0 /\ notes = <<>>
  /\ phase = [t \in Tasks |-> "absent"] /\ ticket = 0
  /\ events = <<>> /\ event = None
  /\ snapshots = 0 /\ actions = 0
  /\ steps = 0 /\ verdict = None /\ stop = None
  /\ report = None /\ seen = 0 /\ blind = 0 /\ plans = <<>> /\ calls = 0

Raise == at' = "out" /\ report' = "raised"
Go(point) == at' = point /\ UNCHANGED report
Leave(why) == at' = "out" /\ report' = why

Open == {t \in Tasks : phase[t] \in {"pending", "running"}}

-----------------------------------------------------------------------------
(* The scheduler.                                                           *)

Oldest == CHOOSE t \in Tasks : phase[t] = "pending" /\ \A u \in 1..(t - 1) : phase[u] # "pending"

\* start_next does nothing while a task runs.
StartNext ==
  IF (\E t \in Tasks : phase[t] = "running") \/ ~\E t \in Tasks : phase[t] = "pending"
  THEN UNCHANGED phase
  ELSE phase' = [phase EXCEPT ![Oldest] = "running"]

\* Mutant: a stopped task is recorded as failed, whatever its status.
CloseAsFailed(t, status, by) ==
  /\ phase' = [phase EXCEPT ![t] = status]
  /\ LET completion == [ticket |-> t, by |-> by,
                        status |-> IF by = "stop" THEN "failed" ELSE status]
     IN  \/ events' = Append(events, completion) /\ event' = completion
         \/ UNCHANGED events /\ event' = None

\* Close the running task t; its event is recorded after that, unless the sink raises.
Close(t, status, by) ==
  /\ phase' = [phase EXCEPT ![t] = status]
  /\ LET completion == [ticket |-> t, status |-> status, by |-> by]
     IN  \/ events' = Append(events, completion) /\ event' = completion
         \/ UNCHANGED events /\ event' = None

-----------------------------------------------------------------------------
(* The caller.                                                              *)

\* BridgeAssistedRuntime.run_bounded: more step ids than the limit are refused;
\* the caller starts from an empty memory summary or from the last one returned.
CallRunBounded ==
  /\ at = "out"
  /\ calls < MaxCalls
  /\ calls' = calls + 1
  /\ \E n \in 1..(MaxTaskAttempts + 1) :
        IF n > MaxTaskAttempts
        THEN Raise /\ UNCHANGED <<turn, turns, notes>>
        ELSE /\ at' = "step" /\ report' = None
             /\ turn' = 1 /\ turns' = n
             /\ notes' \in {<<>>, notes}
  /\ UNCHANGED <<taskVars, event, runVars, worldVars>>

\* Between calls the caller may start a task left in the queue and cancel one
\* left running, through the orchestrator.
CallerStarts ==
  /\ at = "out"
  /\ Open # {}
  /\ StartNext
  /\ report' = None
  /\ UNCHANGED <<at, callVars, ticket, events, plans, event, runVars, worldVars>>

CallerCancels ==
  /\ at = "out"
  /\ \E t \in Tasks : phase[t] = "running" /\ Close(t, "cancelled", "caller")
  /\ report' = None
  /\ UNCHANGED <<at, callVars, ticket, plans, runVars, worldVars>>

-----------------------------------------------------------------------------
(* One attempt.                                                             *)

\* Mutant: the limit itself is still free.
SnapshotOneMore == snapshots <= MaxSnapshotAttempts /\ snapshots' = snapshots + 1

\* BoundedSnapshotObservationSource.observe counts the attempt before it is made.
Snapshot == snapshots < MaxSnapshotAttempts /\ snapshots' = snapshots + 1

\* observe(): an observation and on to `next`, an exhausted source
\* and on to `exhausted`, or an exception.
Observe(next, exhausted) ==
  /\ \/ Snapshot /\ seen' = seen + 1 /\ blind' = 0 /\ Go(next)
     \/ Snapshot /\ UNCHANGED <<seen, blind>> /\ exhausted
     \/ Snapshot /\ UNCHANGED <<seen, blind>> /\ Raise
     \/ snapshots >= MaxSnapshotAttempts /\ UNCHANGED <<snapshots, seen, blind>> /\ Raise
  /\ UNCHANGED actions

\* Mutant: only a running task makes the scheduler busy.
ObserveUnlessRunning ==
  /\ at = "step"
  /\ IF \E t \in Tasks : phase[t] = "running"
     THEN Raise /\ UNCHANGED worldVars
     ELSE Observe("plan", Raise)
  /\ UNCHANGED <<callVars, taskVars, event, runVars>>

\* run_once requires an idle scheduler, then takes the planning observation.
ObserveForPlan ==
  /\ at = "step"
  /\ IF Open # {}
     THEN Raise /\ UNCHANGED worldVars
     ELSE Observe("plan", Raise)
  /\ UNCHANGED <<callVars, taskVars, event, runVars>>

\* plan_ground_and_submit: planning, grounding and validation may raise; nothing
\* is queued then.
PlanAndSubmit ==
  /\ at = "plan"
  /\ \/ Raise /\ UNCHANGED taskVars
     \/ /\ ticket' = ticket + 1
        /\ phase' = [phase EXCEPT ![ticket + 1] = "pending"]
        /\ plans' = Append(plans, [notes |-> notes, seen |-> seen, turn |-> turn])
        /\ Go("start")
        /\ UNCHANGED events
  /\ UNCHANGED <<callVars, event, runVars, worldVars>>

\* The task that starts must be the one submitted.
StartSubmitted ==
  /\ at = "start"
  /\ StartNext
  /\ IF phase'[ticket] = "running"
     THEN Go("begin")
     ELSE Raise
  /\ steps' = 0 /\ verdict' = None /\ stop' = None /\ event' = None
  /\ UNCHANGED <<callVars, ticket, events, plans, worldVars>>

\* The skill's first observation is the one the task was planned from, which the
\* PrimedObservationSource hands out again; the skill may refuse to start on it.
BeginRun ==
  /\ at = "begin"
  /\ Go("act") \/ Go("complete")
  /\ UNCHANGED <<callVars, taskVars, event, runVars, worldVars>>

\* An action that is not allowed, a spent budget, a blocked, a sent and a raising
\* input; the budget counts every attempt.
Act ==
  /\ at = "act"
  /\ steps < MaxSteps
  /\ steps' = steps + 1
  /\ \/ stop' = "capability_rejected" /\ Go("complete") /\ UNCHANGED <<actions, blind>>
     \/ actions >= MaxActionAttempts /\ Raise /\ UNCHANGED <<stop, actions, blind>>
     \/ /\ actions < MaxActionAttempts
        /\ actions' = actions + 1
        /\ \/ Go("look") /\ blind' = blind + 1 /\ UNCHANGED stop
           \/ Go("complete") /\ stop' \in {"focus_lost", "safety_intervention"}
              /\ UNCHANGED blind
           \/ Raise /\ blind' \in {blind, blind + 1} /\ UNCHANGED stop
  /\ UNCHANGED <<callVars, taskVars, event, verdict, snapshots, seen>>

OutOfSteps ==
  /\ at = "act"
  /\ steps = MaxSteps
  /\ stop' = "timeout"
  /\ Go("complete")
  /\ UNCHANGED <<callVars, taskVars, event, steps, verdict, worldVars>>

\* Mutant: without a new observation the run goes on with the old one.
ObserveOrGoOn ==
  /\ at = "look"
  /\ Observe("verify", Go("verify"))
  /\ UNCHANGED <<callVars, taskVars, event, runVars>>

ObserveAfterAction ==
  /\ at = "look"
  /\ Observe("verify", Go("complete"))
  /\ UNCHANGED <<callVars, taskVars, event, runVars>>

\* A decisive verdict ends the run, and so may combat; otherwise the next step.
Verify ==
  /\ at = "verify"
  /\ verdict' \in Verdicts
  /\ \/ verdict' \notin Decisive /\ Go("act")
     \/ Go("complete")
  /\ UNCHANGED <<callVars, taskVars, event, steps, stop, worldVars>>

StatusOf == IF stop = "timeout" THEN "timed_out"
            ELSE IF stop = None /\ verdict = "success" THEN "succeeded" ELSE "failed"

\* Mutant: an event that could not be recorded is ignored.
CompleteQuietly ==
  /\ at = "complete"
  /\ IF stop # None \/ verdict \in Decisive
     THEN Close(ticket, StatusOf, IF stop # None THEN "stop" ELSE "verifier")
     ELSE UNCHANGED <<phase, events, event>>
  /\ Go("judge")
  /\ UNCHANGED <<callVars, ticket, plans, runVars, worldVars>>

\* complete_from_skill_run: a stop closes the task, else a decisive verdict, else
\* it stays running.
CompleteFromSkillRun ==
  /\ at = "complete"
  /\ IF stop # None \/ verdict \in Decisive
     THEN /\ Close(ticket, StatusOf, IF stop # None THEN "stop" ELSE "verifier")
          /\ IF event' = None THEN Raise ELSE Go("judge")
     ELSE UNCHANGED <<phase, events, event>> /\ Go("judge")
  /\ UNCHANGED <<callVars, ticket, plans, runVars, worldVars>>

\* Mutant: a stopped task leads to the next plan too.
JudgeIgnoresStops ==
  /\ at = "judge"
  /\ \/ event = None /\ Leave("nonterminal") /\ UNCHANGED <<turn, notes>>
     \/ /\ event # None
        /\ notes' = Append(notes, [task |-> ticket, verdict |-> verdict])
        /\ IF turn = turns
           THEN Leave("budget_exhausted") /\ UNCHANGED turn
           ELSE Go("step") /\ turn' = turn + 1
  /\ UNCHANGED <<turns, calls, taskVars, event, runVars, worldVars>>

\* The replan loop goes on from a verifier-backed outcome only; without evidence
\* the outcome cannot become a note.
Judge ==
  /\ at = "judge"
  /\ \/ event = None /\ Leave("nonterminal") /\ UNCHANGED <<turn, notes>>
     \/ event # None /\ stop # None /\ Leave("manager_stop") /\ UNCHANGED <<turn, notes>>
     \/ event # None /\ stop = None /\ Raise /\ UNCHANGED <<turn, notes>>
     \/ /\ event # None /\ stop = None
        /\ notes' = Append(notes, [task |-> ticket, verdict |-> verdict])
        /\ IF turn = turns
           THEN Leave("budget_exhausted") /\ UNCHANGED turn
           ELSE Go("step") /\ turn' = turn + 1
  /\ UNCHANGED <<turns, calls, taskVars, event, runVars, worldVars>>

\* Any other exception, Ctrl-C among them.
Escape ==
  /\ at # "out"
  /\ Raise
  /\ UNCHANGED <<callVars, taskVars, event, runVars, worldVars>>

LoopStep == \/ ObserveForPlan \/ PlanAndSubmit \/ StartSubmitted \/ BeginRun \/ Act
            \/ OutOfSteps \/ ObserveAfterAction \/ Verify \/ CompleteFromSkillRun \/ Judge

Next == LoopStep \/ Escape \/ CallRunBounded \/ CallerStarts \/ CallerCancels

Spec == Init /\ [][Next]_vars

\* The thread in run_bounded is scheduled; every call it makes returns or raises.
FairSpec == Spec /\ WF_vars(LoopStep)

-----------------------------------------------------------------------------
(* Properties.                                                              *)

\* Each variable has the shape of the Python attribute or local it stands for.
TypeOK ==
  /\ at \in Points /\ turn \in 0..MaxTaskAttempts /\ turns \in 0..MaxTaskAttempts
  /\ notes \in Seq(Note)
  /\ phase \in [Tasks -> Phases] /\ ticket \in 0..(MaxCalls * MaxTaskAttempts)
  /\ events \in Seq(Event) /\ event \in Event \cup {None}
  /\ snapshots \in 0..MaxSnapshotAttempts /\ actions \in 0..MaxActionAttempts
  /\ steps \in 0..MaxSteps
  /\ verdict \in Verdicts \cup {None} /\ stop \in StopKinds \cup {None}
  /\ report \in Reports \cup {None}
  /\ seen \in 0..snapshots /\ blind \in 0..actions
  /\ plans \in Seq(Plan)
  /\ calls \in 0..MaxCalls

\* The agent looks after every input: no second input goes out before an
\* observation has been taken, in no run, task or call that follows, whatever
\* raised in between.
NoBlindInput == blind <= 1

\* Whatever was left behind by an earlier call, at most one submission is open,
\* and inside an attempt it is the one that attempt submitted; a call that raises
\* leaves the next ones no task attempts of its own.
OneOpenTask ==
  /\ Cardinality(Open) <= 1
  /\ ticket <= calls * MaxTaskAttempts
  /\ at \in {"begin", "act", "look", "verify", "complete"} => phase[ticket] = "running"
  /\ at = "plan" => Open = {}

\* Within a call the next plan is made from what the last one was made from and
\* the outcome of its task, which the verifier decided and the sink has recorded.
PlansFollowVerdicts ==
  \A i \in DOMAIN plans : plans[i].turn > 1 =>
     \E v \in Decisive :
        /\ plans[i].notes = Append(plans[i - 1].notes, [task |-> i - 1, verdict |-> v])
        /\ plans[i - 1].turn = plans[i].turn - 1
        /\ \E k \in DOMAIN events :
              /\ events[k].ticket = i - 1 /\ events[k].by = "verifier"
              /\ events[k].status = IF v = "success" THEN "succeeded" ELSE "failed"

EventsOf(t) == {k \in DOMAIN events : events[k].ticket = t}

\* How a call ended tells the caller what became of its last task: a nonterminal
\* one is still running and blocks the runtime, and neither the Manager stopped it
\* nor did the verifier decide it, whatever it said before; the others are closed
\* and on record once, by the authority that ended them.
ReportTellsTheState ==
  /\ report = "nonterminal" =>
        /\ phase[ticket] = "running" /\ EventsOf(ticket) = {}
        /\ stop = None /\ verdict \notin Decisive
  /\ report \in {"manager_stop", "budget_exhausted"} =>
        /\ Open = {}
        /\ Cardinality(EventsOf(ticket)) = 1
        /\ \A k \in EventsOf(ticket) :
              /\ events[k].by = IF report = "manager_stop" THEN "stop" ELSE "verifier"
              /\ events[k].status = phase[ticket]
  /\ report = "budget_exhausted" =>
        \A t \in (ticket - turns + 1)..ticket : phase[t] \in {"succeeded", "failed"}

Contract == INSTANCE TaskContract
            WITH Tickets <- MaxCalls * MaxTaskAttempts,
                 logged <- {<<events[k].ticket, events[k].status>> : k \in DOMAIN events}

\* Seen from outside, the loop and its caller keep the Manager's task contract.
KeepsTheContract == Contract!Spec

\* Every call of run_bounded returns or raises.
CallEnds == at # "out" ~> at = "out"

\* Documented, and not what the code does: the runtime never attempts more tasks
\* than max_task_attempts (the limit is applied to each call on its own, see
\* OneOpenTask); TLC refutes it with the constants of the run loop_calls.
TaskBudgetHolds == ticket <= MaxTaskAttempts
=============================================================================
