---------------------------- MODULE TaskLifecycle ----------------------------
(***************************************************************************)
(* The Manager's task lifecycle: TaskScheduler (an in-memory FIFO queue),  *)
(* ManagerOrchestrator (every operation closes the task first and records  *)
(* its completion event second) and the event sink behind it (none, a      *)
(* list, or the SQLite table task_completion_events).                      *)
(*                                                                         *)
(* Every ScheduledTask carries a ghost `ticket`, its number in submission  *)
(* order: the program tells two tasks apart only by the caller's task_id,  *)
(* the properties by the ticket.  Evidence, goals, targets and timestamps  *)
(* are left out: no transition reads them.                                 *)
(***************************************************************************)
EXTENDS Integers, Sequences, FiniteSets

CONSTANTS
  TaskIds,         \* task_id values callers submit with
  Skills,          \* selected_skill values
  Conditions,      \* non-empty condition strings
  EventIds,        \* non-empty event_id values callers complete with
  Specs,           \* the task specs the TaskManager hands over
  Sink,            \* "none", "memory" or "sqlite"
  UniqueTaskIds,   \* TRUE: callers never submit one task_id twice
  None,
  MaxSubmissions,  \* bound: submissions over all lives of the process
  MaxRestarts      \* bound: restarts of the process

SpecSpace == [skill : Skills, timeout : Nat \ {0},
              success : SUBSET Conditions, failure : SUBSET Conditions]

TerminalStatus == {"succeeded", "failed", "timed_out", "cancelled"}
Verdicts == {"success", "progress", "failure", "abstain"}
StopKinds == {"timeout", "focus_lost", "safety_intervention", "capability_rejected"}

\* What SkillRunner.run can return: a stop never comes with a terminal verdict,
\* since the runner returns as soon as the verifier gives one.
Outcomes == [stop : {None}, verdict : Verdicts \cup {None}]
       \cup [stop : StopKinds, verdict : {None, "progress", "abstain"}]

ScheduledTask == [ticket : Nat, id : TaskIds, spec : Specs, elapsed : Nat]
Completion == [status : TerminalStatus, verdict : Verdicts \cup {None},
               stop : StopKinds \cup {None}, run : Nat]
CompletedTask == [ticket : Nat, id : TaskIds, spec : Specs, elapsed : Nat,
                  completion : Completion]
Run == [ticket : Nat, id : TaskIds, skill : Skills]
Event == [id : EventIds, ticket : Nat, status : TerminalStatus]

ASSUME SpecsAssumption == Specs \subseteq SpecSpace
ASSUME NoneAssumption == /\ None \notin ScheduledTask
                         /\ None \notin Verdicts
                         /\ None \notin StopKinds
ASSUME SinkAssumption == Sink \in {"none", "memory", "sqlite"}
ASSUME BoundAssumption == MaxSubmissions \in Nat /\ MaxRestarts \in Nat

VARIABLES
  queue,       \* TaskScheduler._queue
  current,     \* TaskScheduler._current_task
  completed,   \* TaskScheduler._completed_tasks
  runs,        \* executor attempts whose result has not come back yet
  rows,        \* recorded completion events (committed rows for SQLite)
  pending,     \* rows inserted into an open SQLite transaction
  acked,       \* ghost: events a completing call returned to its caller
  submitted,   \* ghost: tickets handed out so far
  base,        \* ghost: value of submitted when this process started
  restarts     \* bound counter

schedulerVars == <<queue, current, completed>>
sinkVars == <<rows, pending, acked>>
ghostVars == <<submitted, base, restarts>>
vars == <<queue, current, completed, runs, rows, pending, acked,
          submitted, base, restarts>>

Init ==
  /\ queue = <<>>
  /\ current = None
  /\ completed = <<>>
  /\ runs = {}
  /\ rows = <<>>
  /\ pending = <<>>
  /\ acked = {}
  /\ submitted = 0
  /\ base = 0
  /\ restarts = 0

-----------------------------------------------------------------------------
(* The event sink.                                                          *)

IdsOf(events) == {events[i].id : i \in DOMAIN events}

\* INSERT then commit on the connection's one open transaction.  A duplicate
\* event_id is refused; a commit that fails on a locked database leaves the row
\* in the transaction.
SqliteRecordWithoutCommit(e) ==   \* mutant: returns before the commit
  /\ e.id \notin IdsOf(rows \o pending)
  /\ pending' = Append(pending, e)
  /\ acked' = acked \cup {e}
  /\ UNCHANGED rows

SqliteRecordWithoutKey(e) ==       \* mutant: event_id is no primary key
  /\ rows' = rows \o Append(pending, e)
  /\ pending' = <<>>
  /\ acked' = acked \cup {e}

SqliteRecord(e) ==
  \/ /\ e.id \notin IdsOf(rows \o pending)
     /\ rows' = rows \o Append(pending, e)
     /\ pending' = <<>>
     /\ acked' = acked \cup {e}
  \/ /\ e.id \notin IdsOf(rows \o pending)
     /\ pending' = Append(pending, e)
     /\ UNCHANGED <<rows, acked>>

MemoryRecord(e) ==
  /\ rows' = Append(rows, e)
  /\ acked' = acked \cup {e}
  /\ UNCHANGED pending

\* Nothing is recorded without a sink, when the event does not validate (an
\* empty event_id) and when the insert raises.
Record(e) ==
  \/ UNCHANGED sinkVars
  \/ Sink = "memory" /\ MemoryRecord(e)
  \/ Sink = "sqlite" /\ SqliteRecord(e)

-----------------------------------------------------------------------------
(* The scheduler, one operation per orchestrator entry point.               *)

Enqueue(id, spec) ==
  /\ submitted < MaxSubmissions
  /\ UniqueTaskIds => \A t \in {queue[i] : i \in DOMAIN queue}
                              \cup {completed[i] : i \in DOMAIN completed}
                              \cup ({current} \ {None}) : t.id # id
  /\ submitted' = submitted + 1
  /\ queue' = Append(queue, [ticket |-> submitted + 1, id |-> id,
                             spec |-> spec, elapsed |-> 0])
  /\ UNCHANGED <<current, completed, runs, sinkVars, base, restarts>>

StartNextFromTheEnd ==             \* mutant: pop() for pop(0)
  /\ current = None
  /\ queue # <<>>
  /\ current' = queue[Len(queue)]
  /\ queue' = SubSeq(queue, 1, Len(queue) - 1)
  /\ UNCHANGED <<completed, runs, sinkVars, ghostVars>>

StartNextWhileRunning ==           \* mutant: no check for a running task
  /\ queue # <<>>
  /\ current' = Head(queue)
  /\ queue' = Tail(queue)
  /\ UNCHANGED <<completed, runs, sinkVars, ghostVars>>

StartNext ==
  /\ current = None
  /\ queue # <<>>
  /\ current' = Head(queue)
  /\ queue' = Tail(queue)
  /\ UNCHANGED <<completed, runs, sinkVars, ghostVars>>

CompleteCurrentAsRunning(task, status, verdict, stop, run, eid) ==  \* mutant: status kept
  /\ completed' = Append(completed,
       [ticket |-> task.ticket, id |-> task.id, spec |-> task.spec,
        elapsed |-> task.elapsed,
        completion |-> [status |-> "running", verdict |-> verdict,
                        stop |-> stop, run |-> run]])
  /\ current' = None
  /\ Record([id |-> eid, ticket |-> task.ticket, status |-> status])
  /\ UNCHANGED <<queue, ghostVars>>

\* _complete_current closes `task`; the orchestrator then turns the completion
\* into an event and records it.  Whatever the record step does, also when it
\* raises, the task stays closed.
CompleteCurrent(task, status, verdict, stop, run, eid) ==
  /\ completed' = Append(completed,
       [ticket |-> task.ticket, id |-> task.id, spec |-> task.spec,
        elapsed |-> task.elapsed,
        completion |-> [status |-> status, verdict |-> verdict,
                        stop |-> stop, run |-> run]])
  /\ current' = None
  /\ Record([id |-> eid, ticket |-> task.ticket, status |-> status])
  /\ UNCHANGED <<queue, ghostVars>>

TickPastTheBudget(eid) ==          \* mutant: > for >=
  LET ticked == [current EXCEPT !.elapsed = @ + 1] IN
  /\ current # None
  /\ IF ticked.elapsed > current.spec.timeout
     THEN CompleteCurrent(ticked, "timed_out", None, None, 0, eid)
     ELSE /\ current' = ticked
          /\ UNCHANGED <<queue, completed, sinkVars, ghostVars>>
  /\ UNCHANGED runs

Tick(eid) ==
  LET ticked == [current EXCEPT !.elapsed = @ + 1] IN
  /\ current # None
  /\ IF ticked.elapsed >= current.spec.timeout
     THEN CompleteCurrent(ticked, "timed_out", None, None, 0, eid)
     ELSE /\ current' = ticked
          /\ UNCHANGED <<queue, completed, sinkVars, ghostVars>>
  /\ UNCHANGED runs

Allows(allowed, condition) == allowed = {} \/ condition \in allowed

MarkSuccess(condition, eid) ==
  /\ current # None
  /\ Allows(current.spec.success, condition)
  /\ CompleteCurrent(current, "succeeded", None, None, 0, eid)
  /\ UNCHANGED runs

MarkFailure(condition, eid) ==
  /\ current # None
  /\ Allows(current.spec.failure, condition)
  /\ CompleteCurrent(current, "failed", None, None, 0, eid)
  /\ UNCHANGED runs

CancelCurrentDrops(eid) ==         \* mutant: drops the task instead of closing it
  /\ current # None
  /\ current' = None
  /\ UNCHANGED <<queue, completed, runs, sinkVars, ghostVars>>

CancelCurrent(eid) ==
  /\ current # None
  /\ CompleteCurrent(current, "cancelled", None, None, 0, eid)
  /\ UNCHANGED runs

\* A dry-run signal names the task it completes and is dispatched on its status.
ApplyMockCompletionSignal(id, condition, eid) ==
  /\ current # None
  /\ id = current.id
  /\ \/ MarkSuccess(condition, eid)
     \/ MarkFailure(condition, eid)
     \/ CancelCurrent(eid)

-----------------------------------------------------------------------------
(* Executing the running task and closing it from the result.               *)

\* ManagerTaskExecutor reads the running task and starts SkillRunner.run.
BeginExecution ==
  /\ current # None
  /\ runs' = runs \cup {[ticket |-> current.ticket, id |-> current.id,
                         skill |-> current.spec.skill]}
  /\ UNCHANGED <<schedulerVars, sinkVars, ghostVars>>

\* complete_from_skill_run: the result must still name the running task.
MatchesCurrentSkill(r) ==          \* mutant: task_id is not compared
  /\ current # None
  /\ r.skill = current.spec.skill

MatchesCurrent(r) ==
  /\ current # None
  /\ r.id = current.id
  /\ r.skill = current.spec.skill

\* A ManagerStop closes the task whatever the verifier said before it.
CompleteFromManagerStop(r, o, eid) ==
  /\ o.stop # None
  /\ CompleteCurrent(current, IF o.stop = "timeout" THEN "timed_out" ELSE "failed",
                     None, o.stop, r.ticket, eid)

CompleteFromVerifier(r, o, eid) ==
  /\ o.stop = None
  /\ o.verdict \in {"success", "failure"}
  /\ CompleteCurrent(current, IF o.verdict = "success" THEN "succeeded" ELSE "failed",
                     o.verdict, None, r.ticket, eid)

NonterminalResult(o) ==
  /\ o.stop = None
  /\ o.verdict \in {None, "progress", "abstain"}
  /\ UNCHANGED <<schedulerVars, sinkVars, ghostVars>>

CompleteFromSkillRun(r, o, eid) ==
  /\ r \in runs
  /\ runs' = runs \ {r}
  /\ IF MatchesCurrent(r)
     THEN \/ CompleteFromManagerStop(r, o, eid)
          \/ CompleteFromVerifier(r, o, eid)
          \/ NonterminalResult(o)
     ELSE UNCHANGED <<schedulerVars, sinkVars, ghostVars>>

-----------------------------------------------------------------------------
(* The environment of the scheduler.                                        *)

\* Another store of the same MemoryDB commits the shared connection.
OtherStoreCommits ==
  /\ pending # <<>>
  /\ rows' = rows \o pending
  /\ pending' = <<>>
  /\ UNCHANGED acked

\* InMemoryManagerEventSink.clear
ClearSink ==
  /\ Sink = "memory"
  /\ rows # <<>>
  /\ rows' = <<>>
  /\ acked' = {}
  /\ UNCHANGED pending

\* What happens to a sink behind the scheduler's back.
SinkActs ==
  /\ OtherStoreCommits \/ ClearSink
  /\ UNCHANGED <<schedulerVars, runs, ghostVars>>

\* The process dies and is started again: only committed rows survive.
Restart ==
  /\ restarts < MaxRestarts
  /\ restarts' = restarts + 1
  /\ queue' = <<>>
  /\ current' = None
  /\ completed' = <<>>
  /\ runs' = {}
  /\ pending' = <<>>
  /\ rows' = IF Sink = "sqlite" THEN rows ELSE <<>>
  /\ acked' = IF Sink = "sqlite" THEN acked ELSE {}
  /\ base' = submitted
  /\ UNCHANGED submitted

Next ==
  \/ \E id \in TaskIds, spec \in Specs : Enqueue(id, spec)
  \/ StartNext
  \/ \E eid \in EventIds : Tick(eid)
  \/ \E c \in Conditions, eid \in EventIds : MarkSuccess(c, eid)
  \/ \E c \in Conditions, eid \in EventIds : MarkFailure(c, eid)
  \/ \E eid \in EventIds : CancelCurrent(eid)
  \/ \E id \in TaskIds, c \in Conditions, eid \in EventIds :
        ApplyMockCompletionSignal(id, c, eid)
  \/ BeginExecution
  \/ \E r \in runs, o \in Outcomes, eid \in EventIds : CompleteFromSkillRun(r, o, eid)
  \/ SinkActs
  \/ Restart

Spec == Init /\ [][Next]_vars

-----------------------------------------------------------------------------
(* Properties.                                                              *)

Running == IF current = None THEN 0 ELSE 1
Recorded == rows \o pending

\* Every variable holds what its Python annotation says: a FIFO of pending
\* tasks, at most one running task, a list of closed tasks, events in the sink.
TypeOK ==
  /\ queue \in Seq(ScheduledTask)
  /\ current \in ScheduledTask \cup {None}
  /\ completed \in Seq(CompletedTask)
  /\ runs \subseteq Run
  /\ rows \in Seq(Event)
  /\ pending \in Seq(Event)
  /\ acked \subseteq Event
  /\ submitted \in Nat
  /\ base \in Nat
  /\ restarts \in Nat

\* No submission is lost, duplicated or overtaken while the process lives: the
\* closed tasks, the running one and the queue, read in that order, are exactly
\* the submissions of this life in submission order.
FifoAccounting ==
  /\ \A i \in DOMAIN completed : completed[i].ticket = base + i
  /\ current # None => current.ticket = base + Len(completed) + 1
  /\ \A i \in DOMAIN queue : queue[i].ticket = base + Len(completed) + Running + i
  /\ submitted = base + Len(completed) + Running + Len(queue)

\* A task never runs past its timeout_steps: a task still in the scheduler has
\* ticks left, a closed one never counted more than its budget, and a tick
\* closed it (no verdict, no stop) as timed out exactly when the budget was used.
TimeoutBudget ==
  /\ \A i \in DOMAIN queue : queue[i].elapsed = 0
  /\ current # None => current.elapsed < current.spec.timeout
  /\ \A i \in DOMAIN completed :
        LET t == completed[i] IN
        /\ t.elapsed <= t.spec.timeout
        /\ t.elapsed = t.spec.timeout <=>
             t.completion.status = "timed_out" /\ t.completion.stop = None

\* The result of a skill run closes the task the run was started for, however
\* late it comes back: after the task timed out, was cancelled, or another task
\* has started.  It rests on callers not reusing a task_id (UniqueTaskIds): the
\* orchestrator compares task_id and skill name, nothing else.
ResultClosesItsOwnTask ==
  \A i \in DOMAIN completed :
     LET c == completed[i].completion IN c.run # 0 => c.run = completed[i].ticket

\* An event a completing call returned is in the sink for good: later refused
\* inserts, failed commits and restarts do not take it back.
AcknowledgedIsRecorded == \A e \in acked : \E i \in DOMAIN rows : rows[i] = e

\* A task is recorded at most once over all lives of the process, the SQLite
\* table holds an event_id once, and an event of this life carries the status
\* its task was closed with.
EventsAgreeWithTasks ==
  /\ \A i, j \in DOMAIN Recorded :
        i # j => /\ Recorded[i].ticket # Recorded[j].ticket
                 /\ Sink = "sqlite" => Recorded[i].id # Recorded[j].id
  /\ \A i \in DOMAIN Recorded :
        LET e == Recorded[i] IN
        e.ticket > base =>
          \E k \in DOMAIN completed : /\ completed[k].ticket = e.ticket
                                      /\ completed[k].completion.status = e.status

\* Closing is final: within one life of the process a step keeps every closed
\* task as it is and closes at most the one that was running, and a running
\* task leaves the scheduler only by being closed.
ClosingIsFinal ==
  [][restarts' = restarts =>
       /\ \/ completed' = completed
          \/ /\ current # None
             /\ current' = None
             /\ Len(completed') = Len(completed) + 1
             /\ \A i \in DOMAIN completed : completed'[i] = completed[i]
             /\ completed'[Len(completed) + 1].ticket = current.ticket
       /\ (current # None /\ current' = None) => completed' # completed]_vars

-----------------------------------------------------------------------------
(* Refinement of TaskContract: what the Manager promises its callers.       *)

PhaseOf(t) ==
  IF t > submitted THEN "absent"
  ELSE IF current # None /\ current.ticket = t THEN "running"
  ELSE IF \E i \in DOMAIN queue : queue[i].ticket = t THEN "pending"
  ELSE IF \E i \in DOMAIN completed : completed[i].ticket = t
       THEN completed[CHOOSE i \in DOMAIN completed : completed[i].ticket = t].completion.status
       ELSE "forgotten"

Contract == INSTANCE TaskContract WITH
  Tickets <- MaxSubmissions,
  phase <- [t \in 1..MaxSubmissions |-> PhaseOf(t)],
  logged <- {<<rows[i].ticket, rows[i].status>> : i \in DOMAIN rows}

\* The scheduler, the orchestrator and a sink that keeps its events (SQLite, or
\* none) together implement the abstract contract, crashes and failed inserts
\* included.
RefinesContract == Contract!Spec
=============================================================================
