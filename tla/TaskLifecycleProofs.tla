------------------------- MODULE TaskLifecycleProofs -------------------------
(***************************************************************************)
(* Proofs about TaskLifecycle, for every value of its constants.           *)
(***************************************************************************)
EXTENDS TaskLifecycle, FiniteSetTheorems, TLAPS

\* Recording an event keeps the sink's variables well typed, whichever sink it
\* is and however the insert ends.
LEMMA RecordTypes ==
  ASSUME NEW e \in Event, Record(e), TypeOK
  PROVE  /\ rows' \in Seq(Event)
         /\ pending' \in Seq(Event)
         /\ acked' \subseteq Event
<1> USE DEF TypeOK, sinkVars
<1>1. CASE UNCHANGED sinkVars
  BY <1>1
<1>2. CASE MemoryRecord(e)
  BY <1>2 DEF MemoryRecord
<1>3. CASE /\ rows' = rows \o Append(pending, e)
           /\ pending' = <<>>
           /\ acked' = acked \cup {e}
  <2>1. Append(pending, e) \in Seq(Event)
    OBVIOUS
  <2>2. QED
    BY <1>3, <2>1
<1>4. CASE pending' = Append(pending, e) /\ UNCHANGED <<rows, acked>>
  BY <1>4
<1>5. QED
  BY <1>1, <1>2, <1>3, <1>4 DEF Record, SqliteRecord

\* Closing the running task keeps every variable but runs well typed.
LEMMA CompleteTypes ==
  ASSUME TypeOK,
         NEW task \in ScheduledTask, NEW status \in TerminalStatus,
         NEW verdict \in Verdicts \cup {None}, NEW stop \in StopKinds \cup {None},
         NEW run \in Nat, NEW eid \in EventIds,
         CompleteCurrent(task, status, verdict, stop, run, eid),
         runs' \subseteq Run
  PROVE  TypeOK'
<1>1. [id |-> eid, ticket |-> task.ticket, status |-> status] \in Event
  BY DEF Event, ScheduledTask
<1>2. /\ rows' \in Seq(Event)
      /\ pending' \in Seq(Event)
      /\ acked' \subseteq Event
  BY <1>1, RecordTypes DEF CompleteCurrent
<1>3. [ticket |-> task.ticket, id |-> task.id, spec |-> task.spec,
       elapsed |-> task.elapsed,
       completion |-> [status |-> status, verdict |-> verdict,
                       stop |-> stop, run |-> run]] \in CompletedTask
  BY DEF CompletedTask, Completion, ScheduledTask
<1>4. completed' \in Seq(CompletedTask)
  BY <1>3 DEF CompleteCurrent, TypeOK
<1>5. QED
  BY <1>2, <1>4 DEF CompleteCurrent, TypeOK, ghostVars

\* A tick adds one to the running task's elapsed steps and nothing else.
LEMMA TickedType ==
  ASSUME NEW t \in ScheduledTask
  PROVE  /\ [t EXCEPT !.elapsed = @ + 1] \in ScheduledTask
         /\ [t EXCEPT !.elapsed = @ + 1].elapsed = t.elapsed + 1
         /\ [t EXCEPT !.elapsed = @ + 1].ticket = t.ticket
         /\ [t EXCEPT !.elapsed = @ + 1].id = t.id
         /\ [t EXCEPT !.elapsed = @ + 1].spec = t.spec
  BY DEF ScheduledTask

\* Type correctness: every reachable state of the scheduler, the attempts in
\* flight and the sink is well typed.
THEOREM TypeCorrect == Spec => []TypeOK
<1>1. Init => TypeOK
  BY DEF Init, TypeOK
<1>2. TypeOK /\ [Next]_vars => TypeOK'
  <2> SUFFICES ASSUME TypeOK, [Next]_vars PROVE TypeOK'
    OBVIOUS
  <2> USE SpecsAssumption, NoneAssumption
  <2>1. ASSUME NEW id \in TaskIds, NEW spec \in Specs, Enqueue(id, spec) PROVE TypeOK'
    <3>1. [ticket |-> submitted + 1, id |-> id, spec |-> spec, elapsed |-> 0]
            \in ScheduledTask
      BY DEF ScheduledTask, TypeOK
    <3>2. QED
      BY <2>1, <3>1 DEF Enqueue, TypeOK, sinkVars
  <2>2. ASSUME StartNext PROVE TypeOK'
    BY <2>2 DEF StartNext, TypeOK, sinkVars, ghostVars
  <2>3. ASSUME NEW eid \in EventIds, Tick(eid) PROVE TypeOK'
    <3> DEFINE ticked == [current EXCEPT !.elapsed = @ + 1]
    <3>1. current \in ScheduledTask /\ runs' \subseteq Run
      BY <2>3 DEF Tick, TypeOK
    <3>2. ticked \in ScheduledTask
      BY <3>1, TickedType
    <3>3. CASE CompleteCurrent(ticked, "timed_out", None, None, 0, eid)
      BY <3>1, <3>2, <3>3, CompleteTypes DEF TerminalStatus
    <3>4. CASE /\ current' = ticked
               /\ UNCHANGED <<queue, completed, sinkVars, ghostVars>>
      BY <2>3, <3>2, <3>4 DEF Tick, TypeOK, sinkVars, ghostVars
    <3>5. QED
      BY <2>3, <3>3, <3>4 DEF Tick
  <2>4. ASSUME NEW c \in Conditions, NEW eid \in EventIds, MarkSuccess(c, eid) PROVE TypeOK'
    BY <2>4, CompleteTypes DEF MarkSuccess, TypeOK, TerminalStatus
  <2>5. ASSUME NEW c \in Conditions, NEW eid \in EventIds, MarkFailure(c, eid) PROVE TypeOK'
    BY <2>5, CompleteTypes DEF MarkFailure, TypeOK, TerminalStatus
  <2>6. ASSUME NEW eid \in EventIds, CancelCurrent(eid) PROVE TypeOK'
    BY <2>6, CompleteTypes DEF CancelCurrent, TypeOK, TerminalStatus
  <2>7. ASSUME NEW id \in TaskIds, NEW c \in Conditions, NEW eid \in EventIds,
               ApplyMockCompletionSignal(id, c, eid)
        PROVE TypeOK'
    BY <2>7, <2>4, <2>5, <2>6 DEF ApplyMockCompletionSignal
  <2>8. ASSUME BeginExecution PROVE TypeOK'
    <3>1. [ticket |-> current.ticket, id |-> current.id, skill |-> current.spec.skill] \in Run
      BY <2>8 DEF BeginExecution, TypeOK, ScheduledTask, Run, SpecSpace
    <3>2. QED
      BY <2>8, <3>1 DEF BeginExecution, TypeOK, schedulerVars, sinkVars, ghostVars
  <2>9. ASSUME NEW r \in runs, NEW o \in Outcomes, NEW eid \in EventIds,
               CompleteFromSkillRun(r, o, eid)
        PROVE TypeOK'
    <3>1. runs' \subseteq Run /\ r.ticket \in Nat
      BY <2>9 DEF CompleteFromSkillRun, TypeOK, Run
    <3>2. CASE MatchesCurrent(r) /\ CompleteFromManagerStop(r, o, eid)
      <4>1. o.stop \in StopKinds \cup {None} /\ current \in ScheduledTask
        BY <3>2 DEF Outcomes, MatchesCurrent, TypeOK
      <4>2. QED
        BY <3>1, <3>2, <4>1, CompleteTypes DEF CompleteFromManagerStop, TerminalStatus
    <3>3. CASE MatchesCurrent(r) /\ CompleteFromVerifier(r, o, eid)
      <4>1. o.verdict \in Verdicts \cup {None}
        BY <3>3 DEF CompleteFromVerifier, Verdicts
      <4>2. QED
        BY <3>1, <3>3, <4>1, CompleteTypes
           DEF CompleteFromVerifier, MatchesCurrent, TypeOK, TerminalStatus
    <3>4. CASE UNCHANGED <<schedulerVars, sinkVars, ghostVars>>
      BY <3>1, <3>4 DEF TypeOK, schedulerVars, sinkVars, ghostVars
    <3>5. QED
      BY <2>9, <3>2, <3>3, <3>4 DEF CompleteFromSkillRun, NonterminalResult
  <2>10. ASSUME SinkActs, OtherStoreCommits PROVE TypeOK'
    BY <2>10 DEF SinkActs, OtherStoreCommits, TypeOK, schedulerVars, ghostVars
  <2>11. ASSUME SinkActs, ClearSink PROVE TypeOK'
    BY <2>11 DEF SinkActs, ClearSink, TypeOK, schedulerVars, ghostVars
  <2>12. ASSUME Restart PROVE TypeOK'
    BY <2>12 DEF Restart, TypeOK
  <2>13. ASSUME UNCHANGED vars PROVE TypeOK'
    BY <2>13 DEF vars, TypeOK
  <2>14. QED
    BY <2>1, <2>2, <2>3, <2>4, <2>5, <2>6, <2>7, <2>8, <2>9, <2>10, <2>11, <2>12, <2>13
       DEF Next, SinkActs
<1>3. QED
  BY <1>1, <1>2, PTL DEF Spec

-----------------------------------------------------------------------------
(* What a step may do to the scheduler: the case split of every proof below. *)

\* The running task is closed as t, by the tick that used up its budget or,
\* with its elapsed steps unchanged, by a caller, a verdict or a stop.
Closes(t) ==
  /\ t \in CompletedTask
  /\ current # None
  /\ completed' = Append(completed, t)
  /\ current' = None
  /\ t.ticket = current.ticket
  /\ t.id = current.id
  /\ t.spec = current.spec
  /\ \/ /\ t.elapsed = current.elapsed
        /\ ~(t.completion.status = "timed_out" /\ t.completion.stop = None)
     \/ /\ t.elapsed = current.elapsed + 1
        /\ t.elapsed >= current.spec.timeout
        /\ t.completion.status = "timed_out"
        /\ t.completion.stop = None
  /\ t.completion.run # 0 => \E r \in runs : r.ticket = t.completion.run /\ r.id = t.id
  /\ runs' \subseteq runs
  /\ UNCHANGED <<queue, ghostVars>>

\* The running task is charged one elapsed step and stays within its budget.
Ticks ==
  /\ current # None
  /\ current' = [current EXCEPT !.elapsed = @ + 1]
  /\ current'.elapsed < current.spec.timeout
  /\ UNCHANGED <<queue, completed, runs, ghostVars>>

\* The tasks are left alone; a new attempt is of the running task.
LeavesTasks ==
  /\ UNCHANGED <<schedulerVars, ghostVars>>
  /\ \A r \in runs' : \/ r \in runs
                      \/ current # None /\ r.ticket = current.ticket /\ r.id = current.id

\* The sink is handed an event of the closed task, with the status it closed with.
Records(t) ==
  \E e \in Event : e.ticket = t.ticket /\ e.status = t.completion.status /\ Record(e)

LEMMA CompleteCloses ==
  ASSUME TypeOK, current # None,
         NEW task \in ScheduledTask, NEW status \in TerminalStatus,
         NEW verdict \in Verdicts \cup {None}, NEW stop \in StopKinds \cup {None},
         NEW run \in Nat, NEW eid \in EventIds,
         CompleteCurrent(task, status, verdict, stop, run, eid),
         runs' \subseteq runs,
         task.ticket = current.ticket, task.id = current.id, task.spec = current.spec,
         \/ task.elapsed = current.elapsed /\ ~(status = "timed_out" /\ stop = None)
         \/ /\ task.elapsed = current.elapsed + 1
            /\ task.elapsed >= current.spec.timeout
            /\ status = "timed_out"
            /\ stop = None,
         run # 0 => \E r \in runs : r.ticket = run /\ r.id = current.id
  PROVE  \E t : Closes(t) /\ Records(t)
<1> DEFINE t == [ticket |-> task.ticket, id |-> task.id, spec |-> task.spec,
                 elapsed |-> task.elapsed,
                 completion |-> [status |-> status, verdict |-> verdict,
                                 stop |-> stop, run |-> run]]
<1>1. t \in CompletedTask
  BY DEF CompletedTask, Completion, ScheduledTask
<1>2. Closes(t)
  BY <1>1 DEF Closes, CompleteCurrent
<1> DEFINE e == [id |-> eid, ticket |-> task.ticket, status |-> status]
<1>3. e \in Event
  BY DEF Event, ScheduledTask
<1>4. Records(t)
  BY <1>3 DEF Records, CompleteCurrent
<1>5. QED
  BY <1>2, <1>4

\* Every step of the system is one of these to the scheduler and the sink.
LEMMA FullShape ==
  ASSUME TypeOK, [Next]_vars
  PROVE  \/ /\ UNCHANGED sinkVars
            /\ \/ \E id \in TaskIds, spec \in Specs : Enqueue(id, spec)
               \/ StartNext
               \/ Ticks
               \/ LeavesTasks
         \/ \E t : Closes(t) /\ Records(t)
         \/ LeavesTasks /\ (OtherStoreCommits \/ ClearSink)
         \/ Restart
<1> USE NoneAssumption
<1>1. ASSUME NEW eid \in EventIds, Tick(eid) PROVE (Ticks /\ UNCHANGED sinkVars) \/ \E t : Closes(t) /\ Records(t)
  <2> DEFINE ticked == [current EXCEPT !.elapsed = @ + 1]
  <2>1. current # None /\ current \in ScheduledTask /\ runs' = runs
    BY <1>1 DEF Tick, TypeOK
  <2>2. /\ ticked \in ScheduledTask
        /\ ticked.elapsed = current.elapsed + 1
        /\ ticked.ticket = current.ticket
        /\ ticked.id = current.id
        /\ ticked.spec = current.spec
    BY <2>1, TickedType
  <2>3. CASE ticked.elapsed >= current.spec.timeout
    <3>1. CompleteCurrent(ticked, "timed_out", None, None, 0, eid)
      BY <1>1, <2>3 DEF Tick
    <3>2. QED
      BY <2>1, <2>2, <2>3, <3>1, CompleteCloses DEF TerminalStatus
  <2>4. CASE ~(ticked.elapsed >= current.spec.timeout)
    <3>1. current.spec.timeout \in Nat /\ ticked.elapsed \in Nat
      BY <2>1, <2>2, SpecsAssumption DEF ScheduledTask, SpecSpace
    <3>2. current' = ticked /\ UNCHANGED <<queue, completed, sinkVars, ghostVars>>
      BY <1>1, <2>4 DEF Tick
    <3>3. ticked.elapsed < current.spec.timeout
      BY <2>4, <3>1
    <3>4. current'.elapsed < current.spec.timeout
      BY <3>2, <3>3
    <3> HIDE DEF ticked
    <3>5. UNCHANGED <<queue, completed, runs, sinkVars, ghostVars>>
      BY <2>1, <3>2
    <3>6. current' = [current EXCEPT !.elapsed = @ + 1]
      BY <3>2 DEF ticked
    <3>7. QED
      BY <2>1, <3>4, <3>5, <3>6 DEF Ticks
  <2>5. QED
    BY <2>3, <2>4
<1>2. ASSUME NEW c \in Conditions, NEW eid \in EventIds, MarkSuccess(c, eid)
      PROVE \E t : Closes(t) /\ Records(t)
  BY <1>2, CompleteCloses DEF MarkSuccess, TypeOK, TerminalStatus
<1>3. ASSUME NEW c \in Conditions, NEW eid \in EventIds, MarkFailure(c, eid)
      PROVE \E t : Closes(t) /\ Records(t)
  BY <1>3, CompleteCloses DEF MarkFailure, TypeOK, TerminalStatus
<1>4. ASSUME NEW eid \in EventIds, CancelCurrent(eid) PROVE \E t : Closes(t) /\ Records(t)
  BY <1>4, CompleteCloses DEF CancelCurrent, TypeOK, TerminalStatus
<1>5. ASSUME NEW id \in TaskIds, NEW c \in Conditions, NEW eid \in EventIds,
             ApplyMockCompletionSignal(id, c, eid)
      PROVE \E t : Closes(t) /\ Records(t)
  BY <1>2, <1>3, <1>4, <1>5 DEF ApplyMockCompletionSignal
<1>6. ASSUME NEW r \in runs, NEW o \in Outcomes, NEW eid \in EventIds,
             CompleteFromSkillRun(r, o, eid)
      PROVE (LeavesTasks /\ UNCHANGED sinkVars) \/ \E t : Closes(t) /\ Records(t)
  <2>1. runs' \subseteq runs /\ r.ticket \in Nat
    BY <1>6 DEF CompleteFromSkillRun, TypeOK, Run
  <2>2. CASE MatchesCurrent(r) /\ CompleteFromManagerStop(r, o, eid)
    <3>1. o.stop \in StopKinds /\ current \in ScheduledTask /\ r.id = current.id
      BY <2>2 DEF CompleteFromManagerStop, Outcomes, MatchesCurrent, TypeOK
    <3>2. QED
      BY <2>1, <2>2, <3>1, CompleteCloses
         DEF CompleteFromManagerStop, MatchesCurrent, TerminalStatus
  <2>3. CASE MatchesCurrent(r) /\ CompleteFromVerifier(r, o, eid)
    <3>1. /\ o.verdict \in Verdicts \cup {None}
          /\ current \in ScheduledTask
          /\ r.id = current.id
      BY <2>3 DEF CompleteFromVerifier, Verdicts, MatchesCurrent, TypeOK
    <3>2. QED
      BY <2>1, <2>3, <3>1, CompleteCloses
         DEF CompleteFromVerifier, MatchesCurrent, TerminalStatus
  <2>4. CASE UNCHANGED <<schedulerVars, sinkVars, ghostVars>>
    BY <2>1, <2>4 DEF LeavesTasks
  <2>5. QED
    BY <1>6, <2>2, <2>3, <2>4 DEF CompleteFromSkillRun, NonterminalResult
<1>7. ASSUME BeginExecution \/ SinkActs \/ UNCHANGED vars PROVE LeavesTasks
  BY <1>7 DEF BeginExecution, SinkActs, vars, LeavesTasks,
              schedulerVars, ghostVars
<1>8. CASE \/ \E id \in TaskIds, spec \in Specs : Enqueue(id, spec)
           \/ StartNext \/ BeginExecution \/ UNCHANGED vars
  <2>1. UNCHANGED sinkVars
    BY <1>8 DEF Enqueue, StartNext, BeginExecution, vars, sinkVars
  <2>2. QED
    BY <1>7, <1>8, <2>1
<1>9. CASE SinkActs
  BY <1>7, <1>9 DEF SinkActs
<1>10. QED
  BY <1>1, <1>2, <1>3, <1>4, <1>5, <1>6, <1>8, <1>9 DEF Next

\* Seen from the scheduler alone, these are six.
LEMMA StepShape ==
  ASSUME TypeOK, [Next]_vars
  PROVE  \/ \E id \in TaskIds, spec \in Specs : Enqueue(id, spec)
         \/ StartNext
         \/ Ticks
         \/ \E t : Closes(t)
         \/ LeavesTasks
         \/ Restart
BY FullShape

-----------------------------------------------------------------------------
\* FIFO accounting: in every reachable state the closed tasks, the running one
\* and the queue are the submissions of this life in submission order.  With
\* the types it is inductive: each kind of step moves one ticket across one
\* border, or starts a new life with an empty scheduler.
THEOREM FifoAccountingHolds == Spec => []FifoAccounting
<1>1. Init => FifoAccounting
  BY DEF Init, FifoAccounting, Running
<1>2. TypeOK /\ FifoAccounting /\ [Next]_vars => FifoAccounting'
  <2> SUFFICES ASSUME TypeOK, FifoAccounting, [Next]_vars PROVE FifoAccounting'
    OBVIOUS
  <2> USE NoneAssumption DEF FifoAccounting, Running
  <2>1. ASSUME NEW id \in TaskIds, NEW spec \in Specs, Enqueue(id, spec)
        PROVE FifoAccounting'
    <3> DEFINE t == [ticket |-> submitted + 1, id |-> id, spec |-> spec, elapsed |-> 0]
    <3>1. /\ queue' = Append(queue, t) /\ submitted' = submitted + 1
          /\ UNCHANGED <<current, completed, base>>
      BY <2>1 DEF Enqueue
    <3>2. t.ticket = submitted + 1
      OBVIOUS
    <3> HIDE DEF t
    <3>3. /\ Len(queue') = Len(queue) + 1
          /\ \A i \in DOMAIN queue : queue'[i] = queue[i]
          /\ queue'[Len(queue) + 1] = t
          /\ DOMAIN queue' = 1..(Len(queue) + 1)
          /\ DOMAIN queue = 1..Len(queue)
          /\ Len(queue) \in Nat /\ Len(completed) \in Nat
          /\ submitted \in Nat /\ base \in Nat
      BY <3>1 DEF TypeOK
    <3>4. \A i \in DOMAIN queue' :
            queue'[i].ticket = base + Len(completed) + Running + i
      <4> SUFFICES ASSUME NEW i \in DOMAIN queue'
                   PROVE  queue'[i].ticket = base + Len(completed) + Running + i
        OBVIOUS
      <4>0. submitted = base + Len(completed) + Running + Len(queue) /\ Running \in Nat
        OBVIOUS
      <4>1. CASE i = Len(queue) + 1
        <5> HIDE DEF FifoAccounting, Running
        <5>1. queue'[i].ticket = submitted + 1
          BY <3>2, <3>3, <4>1
        <5>2. QED
          BY <3>3, <4>0, <4>1, <5>1
      <4>2. CASE i \in DOMAIN queue
        BY <3>3, <4>2
      <4>3. QED
        BY <3>3, <4>1, <4>2
    <3>5. submitted' = base + Len(completed) + Running + Len(queue')
      BY <3>1, <3>3
    <3>6. QED
      BY <3>1, <3>4, <3>5
  <2>2. ASSUME StartNext PROVE FifoAccounting'
    <3>1. /\ current' = queue[1] /\ queue' = Tail(queue) /\ queue # <<>>
          /\ current = None /\ UNCHANGED <<completed, submitted, base>>
      BY <2>2 DEF StartNext, ghostVars
    <3>2. current' # None /\ current'.ticket = base + Len(completed) + 1
      BY <3>1 DEF TypeOK
    <3>3. /\ Len(queue') = Len(queue) - 1
          /\ \A i \in DOMAIN queue' : i + 1 \in DOMAIN queue /\ queue'[i] = queue[i + 1]
      BY <3>1 DEF TypeOK
    <3>4. \A i \in DOMAIN queue' : queue'[i].ticket = base + Len(completed) + 1 + i
      BY <3>1, <3>3 DEF TypeOK
    <3>5. QED
      BY <3>1, <3>2, <3>3, <3>4 DEF TypeOK
  <2>3. ASSUME Ticks PROVE FifoAccounting'
    <3>1. /\ current # None /\ current \in ScheduledTask
          /\ current' = [current EXCEPT !.elapsed = @ + 1]
          /\ UNCHANGED <<queue, completed, submitted, base>>
      BY <2>3 DEF Ticks, TypeOK, ghostVars
    <3>2. current' # None /\ current'.ticket = current.ticket
      BY <3>1, TickedType
    <3>3. QED
      BY <3>1, <3>2
  <2>4. ASSUME NEW t, Closes(t) PROVE FifoAccounting'
    <3>1. /\ completed' = Append(completed, t) /\ t.ticket = current.ticket
          /\ current # None /\ current' = None
          /\ UNCHANGED <<queue, submitted, base>>
      BY <2>4 DEF Closes, ghostVars
    <3>2. /\ Len(completed') = Len(completed) + 1
          /\ \A i \in DOMAIN completed : completed'[i] = completed[i]
          /\ completed'[Len(completed) + 1] = t
          /\ DOMAIN completed' = 1..(Len(completed) + 1)
          /\ DOMAIN completed = 1..Len(completed)
          /\ Len(completed) \in Nat /\ base \in Nat
      <4>1. completed \in Seq(CompletedTask) /\ base \in Nat
        BY DEF TypeOK
      <4> HIDE DEF FifoAccounting, Running
      <4>2. QED
        BY <3>1, <4>1
    <3>3. \A i \in DOMAIN completed' : completed'[i].ticket = base + i
      <4> SUFFICES ASSUME NEW i \in DOMAIN completed' PROVE completed'[i].ticket = base + i
        OBVIOUS
      <4>1. CASE i \in DOMAIN completed
        BY <3>2, <4>1
      <4>2. CASE i = Len(completed) + 1
        BY <3>1, <3>2, <4>2
      <4>3. QED
        BY <3>2, <4>1, <4>2
    <3>4. \A i \in DOMAIN queue :
            queue[i].ticket = base + (Len(completed) + 1) + 0 + i
      <4>1. DOMAIN queue \subseteq Int
        BY DEF TypeOK
      <4>2. QED
        BY <3>1, <3>2, <4>1
    <3>5. submitted = base + (Len(completed) + 1) + 0 + Len(queue)
      <4>1. Len(queue) \in Nat
        BY DEF TypeOK
      <4>2. QED
        BY <3>1, <3>2, <4>1
    <3>6. QED
      BY <3>1, <3>2, <3>3, <3>4, <3>5
  <2>5. ASSUME LeavesTasks PROVE FifoAccounting'
    BY <2>5 DEF LeavesTasks, schedulerVars, ghostVars
  <2>6. ASSUME Restart PROVE FifoAccounting'
    BY <2>6 DEF Restart, TypeOK
  <2>7. QED
    BY <2>1, <2>2, <2>3, <2>4, <2>5, <2>6, StepShape
<1>3. QED
  BY <1>1, <1>2, TypeCorrect, PTL DEF Spec

\* Timeout budgets: no task is charged more ticks than its timeout_steps, and a
\* tick times a task out exactly when its budget is used up.
THEOREM TimeoutBudgetHolds == Spec => []TimeoutBudget
<1>1. Init => TimeoutBudget
  BY DEF Init, TimeoutBudget
<1>2. TypeOK /\ TimeoutBudget /\ [Next]_vars => TimeoutBudget'
  <2> SUFFICES ASSUME TypeOK, TimeoutBudget, [Next]_vars PROVE TimeoutBudget'
    OBVIOUS
  <2> USE NoneAssumption, SpecsAssumption DEF TimeoutBudget
  <2>1. ASSUME NEW id \in TaskIds, NEW spec \in Specs, Enqueue(id, spec)
        PROVE TimeoutBudget'
    BY <2>1 DEF Enqueue, TypeOK
  <2>2. ASSUME StartNext PROVE TimeoutBudget'
    <3>1. /\ current' = queue[1] /\ queue' = Tail(queue) /\ queue # <<>>
          /\ UNCHANGED completed
      BY <2>2 DEF StartNext
    <3>2. \A i \in DOMAIN queue' : i + 1 \in DOMAIN queue /\ queue'[i] = queue[i + 1]
      BY <3>1 DEF TypeOK
    <3>3. current' \in ScheduledTask /\ current'.elapsed = 0
      BY <3>1 DEF TypeOK
    <3>4. current'.elapsed < current'.spec.timeout
      BY <3>3 DEF ScheduledTask, SpecSpace
    <3>5. QED
      BY <3>1, <3>2, <3>4
  <2>3. ASSUME Ticks PROVE TimeoutBudget'
    <3>1. /\ current # None /\ current \in ScheduledTask
          /\ current' = [current EXCEPT !.elapsed = @ + 1]
          /\ current'.elapsed < current.spec.timeout
          /\ UNCHANGED <<queue, completed>>
      BY <2>3 DEF Ticks, TypeOK
    <3>2. current'.spec = current.spec
      BY <3>1, TickedType
    <3>3. QED
      BY <3>1, <3>2
  <2>4. ASSUME NEW t, Closes(t) PROVE TimeoutBudget'
    <3>1. /\ completed' = Append(completed, t)
          /\ current # None /\ current' = None
          /\ UNCHANGED queue
      BY <2>4 DEF Closes
    <3>2. /\ \A i \in DOMAIN completed : completed'[i] = completed[i]
          /\ completed'[Len(completed) + 1] = t
          /\ DOMAIN completed' = 1..(Len(completed) + 1)
          /\ DOMAIN completed = 1..Len(completed)
      BY <3>1 DEF TypeOK
    <3>3. /\ current.elapsed \in Nat /\ current.spec.timeout \in Nat
          /\ current.elapsed < current.spec.timeout
      BY <3>1 DEF TypeOK, ScheduledTask, SpecSpace
    <3>4. /\ t.elapsed <= t.spec.timeout
          /\ t.elapsed = t.spec.timeout <=>
               t.completion.status = "timed_out" /\ t.completion.stop = None
      BY <2>4, <3>3 DEF Closes
    <3>5. QED
      BY <3>1, <3>2, <3>4
  <2>5. ASSUME LeavesTasks PROVE TimeoutBudget'
    BY <2>5 DEF LeavesTasks, schedulerVars
  <2>6. ASSUME Restart PROVE TimeoutBudget'
    BY <2>6 DEF Restart
  <2>7. QED
    BY <2>1, <2>2, <2>3, <2>4, <2>5, <2>6, StepShape
<1>3. QED
  BY <1>1, <1>2, TypeCorrect, PTL DEF Spec

\* Closing is final: a step of one life keeps every closed task as it is and
\* closes at most the running one.  It follows from the shape of the steps.
THEOREM ClosingIsFinalHolds == Spec => ClosingIsFinal
<1>1. ASSUME TypeOK, [Next]_vars, restarts' = restarts
      PROVE  /\ \/ completed' = completed
                \/ /\ current # None
                   /\ current' = None
                   /\ Len(completed') = Len(completed) + 1
                   /\ \A i \in DOMAIN completed : completed'[i] = completed[i]
                   /\ completed'[Len(completed) + 1].ticket = current.ticket
             /\ (current # None /\ current' = None) => completed' # completed
  <2> USE NoneAssumption
  <2>1. CASE \/ \E id \in TaskIds, spec \in Specs : Enqueue(id, spec)
             \/ StartNext
             \/ LeavesTasks
    BY <2>1 DEF Enqueue, StartNext, LeavesTasks, schedulerVars
  <2>2. CASE Ticks
    <3>1. current # None /\ current' # None /\ completed' = completed
      BY <2>2, <1>1, TickedType DEF Ticks, TypeOK
    <3>2. QED
      BY <3>1
  <2>3. ASSUME NEW t, Closes(t)
        PROVE  /\ current # None
               /\ current' = None
               /\ Len(completed') = Len(completed) + 1
               /\ \A i \in DOMAIN completed : completed'[i] = completed[i]
               /\ completed'[Len(completed) + 1].ticket = current.ticket
               /\ completed' # completed
    BY <1>1, <2>3 DEF Closes, TypeOK
  <2>4. CASE Restart
    BY <1>1, <2>4 DEF Restart, TypeOK
  <2>5. QED
    BY <1>1, <2>1, <2>2, <2>3, <2>4, StepShape
<1>2. TypeOK /\ [Next]_vars =>
        [restarts' = restarts =>
           /\ \/ completed' = completed
              \/ /\ current # None
                 /\ current' = None
                 /\ Len(completed') = Len(completed) + 1
                 /\ \A i \in DOMAIN completed : completed'[i] = completed[i]
                 /\ completed'[Len(completed) + 1].ticket = current.ticket
           /\ (current # None /\ current' = None) => completed' # completed]_vars
  BY <1>1
<1>3. QED
  BY <1>2, TypeCorrect, PTL DEF Spec, ClosingIsFinal

-----------------------------------------------------------------------------
\* The tasks of this life of the process, as <<ticket, task_id>> pairs.
Identities ==
       {<<queue[i].ticket, queue[i].id>> : i \in DOMAIN queue}
  \cup {<<completed[i].ticket, completed[i].id>> : i \in DOMAIN completed}
  \cup (IF current = None THEN {} ELSE {<<current.ticket, current.id>>})

\* A task_id names one task, and every attempt in flight is of a known task.
AttemptsNameTheirTasks ==
  /\ \A p, q \in Identities : p[2] = q[2] => p[1] = q[1]
  /\ \A r \in runs : <<r.ticket, r.id>> \in Identities

\* Only a submission and a restart change which tasks there are.
LEMMA IdentitiesStep ==
  ASSUME TypeOK,
         StartNext \/ Ticks \/ (\E t : Closes(t)) \/ LeavesTasks
  PROVE  Identities' = Identities
<1> USE NoneAssumption
<1>1. CASE StartNext
  <2>1. /\ queue # <<>> /\ queue \in Seq(ScheduledTask)
        /\ current' = queue[1] /\ queue' = Tail(queue) /\ current = None
        /\ UNCHANGED completed
    BY <1>1 DEF StartNext, TypeOK
  <2>2. current' # None
    BY <2>1
  <2>3. /\ 1 \in DOMAIN queue
        /\ \A i \in DOMAIN queue' : i + 1 \in DOMAIN queue /\ queue'[i] = queue[i + 1]
        /\ \A i \in DOMAIN queue :
             i = 1 \/ (i - 1 \in DOMAIN queue' /\ queue'[i - 1] = queue[i])
    BY <2>1
  <2>4. {<<queue[i].ticket, queue[i].id>> : i \in DOMAIN queue}
          = {<<queue'[i].ticket, queue'[i].id>> : i \in DOMAIN queue'}
              \cup {<<queue[1].ticket, queue[1].id>>}
    BY <2>3
  <2>5. QED
    BY <2>1, <2>2, <2>4 DEF Identities
<1>2. CASE Ticks
  <2>1. /\ current # None /\ current' # None
        /\ current'.ticket = current.ticket /\ current'.id = current.id
        /\ UNCHANGED <<queue, completed>>
    BY <1>2, TickedType DEF Ticks, TypeOK
  <2>2. QED
    BY <2>1 DEF Identities
<1>3. ASSUME NEW t, Closes(t) PROVE Identities' = Identities
  <2>1. /\ completed' = Append(completed, t)
        /\ t.ticket = current.ticket /\ t.id = current.id
        /\ current # None /\ current' = None /\ UNCHANGED queue
    BY <1>3 DEF Closes
  <2>2. /\ \A i \in DOMAIN completed : i \in DOMAIN completed' /\ completed'[i] = completed[i]
        /\ \A i \in DOMAIN completed' :
             i \in DOMAIN completed \/ completed'[i] = t
        /\ Len(completed) + 1 \in DOMAIN completed'
        /\ completed'[Len(completed) + 1] = t
    BY <2>1 DEF TypeOK
  <2>3. {<<completed'[i].ticket, completed'[i].id>> : i \in DOMAIN completed'}
          = {<<completed[i].ticket, completed[i].id>> : i \in DOMAIN completed}
              \cup {<<current.ticket, current.id>>}
    BY <2>1, <2>2
  <2>4. QED
    BY <2>1, <2>3 DEF Identities
<1>4. CASE LeavesTasks
  BY <1>4 DEF LeavesTasks, schedulerVars, Identities
<1>5. QED
  BY <1>1, <1>2, <1>3, <1>4

\* A skill run's result closes the task it was started for, provided callers
\* never submit one task_id twice.  ResultClosesItsOwnTask alone is not
\* inductive: it needs that ids identify the tasks of this life and that every
\* attempt in flight, however old, is of one of them.
THEOREM ResultClosesItsOwnTaskHolds ==
  ASSUME UniqueTaskIds
  PROVE  Spec => []ResultClosesItsOwnTask
<1> DEFINE IInv == AttemptsNameTheirTasks /\ ResultClosesItsOwnTask
<1>1. Init => IInv
  BY DEF Init, AttemptsNameTheirTasks, Identities, ResultClosesItsOwnTask
<1>2. TypeOK /\ IInv /\ [Next]_vars => IInv'
  <2> SUFFICES ASSUME TypeOK, IInv, [Next]_vars PROVE IInv'
    OBVIOUS
  <2> USE NoneAssumption
  <2>1. ASSUME NEW id \in TaskIds, NEW spec \in Specs, Enqueue(id, spec) PROVE IInv'
    <3> DEFINE t == [ticket |-> submitted + 1, id |-> id, spec |-> spec, elapsed |-> 0]
    <3>1. /\ queue' = Append(queue, t)
          /\ UNCHANGED <<current, completed, runs>>
          /\ \A u \in {queue[i] : i \in DOMAIN queue}
                 \cup {completed[i] : i \in DOMAIN completed}
                 \cup ({current} \ {None}) : u.id # id
      BY <2>1 DEF Enqueue
    <3>2. t.ticket = submitted + 1 /\ t.id = id
      OBVIOUS
    <3> HIDE DEF t
    <3>3. /\ \A i \in DOMAIN queue : i \in DOMAIN queue' /\ queue'[i] = queue[i]
          /\ \A i \in DOMAIN queue' : i \in DOMAIN queue \/ queue'[i] = t
          /\ Len(queue) + 1 \in DOMAIN queue'
          /\ queue'[Len(queue) + 1] = t
      BY <3>1 DEF TypeOK
    <3>4. {<<queue'[i].ticket, queue'[i].id>> : i \in DOMAIN queue'}
            = {<<queue[i].ticket, queue[i].id>> : i \in DOMAIN queue}
                \cup {<<submitted + 1, id>>}
      BY <3>2, <3>3
    <3>5. Identities' = Identities \cup {<<submitted + 1, id>>}
      BY <3>1, <3>4 DEF Identities
    <3>6. \A p \in Identities : p[2] # id
      BY <3>1 DEF Identities
    <3>7. AttemptsNameTheirTasks'
      BY <3>1, <3>5, <3>6 DEF AttemptsNameTheirTasks
    <3>8. ResultClosesItsOwnTask'
      BY <3>1 DEF ResultClosesItsOwnTask
    <3>9. QED
      BY <3>7, <3>8
  <2>2. CASE StartNext
    <3>1. AttemptsNameTheirTasks'
      BY <2>2, IdentitiesStep DEF StartNext, AttemptsNameTheirTasks
    <3>2. ResultClosesItsOwnTask'
      BY <2>2 DEF StartNext, ResultClosesItsOwnTask
    <3>3. QED
      BY <3>1, <3>2
  <2>3. CASE Ticks
    <3>1. AttemptsNameTheirTasks'
      BY <2>3, IdentitiesStep DEF Ticks, AttemptsNameTheirTasks
    <3>2. ResultClosesItsOwnTask'
      BY <2>3 DEF Ticks, ResultClosesItsOwnTask
    <3>3. QED
      BY <3>1, <3>2
  <2>4. ASSUME NEW t, Closes(t) PROVE IInv'
    <3>1. AttemptsNameTheirTasks'
      BY <2>4, IdentitiesStep DEF Closes, AttemptsNameTheirTasks
    <3>2. <<current.ticket, current.id>> \in Identities
      BY <2>4 DEF Closes, Identities
    <3>3. t.completion.run # 0 => t.completion.run = t.ticket
      <4> SUFFICES ASSUME t.completion.run # 0 PROVE t.completion.run = t.ticket
        OBVIOUS
      <4>1. PICK r \in runs : r.ticket = t.completion.run /\ r.id = t.id
        BY <2>4 DEF Closes
      <4>2. <<r.ticket, r.id>> \in Identities
        BY DEF AttemptsNameTheirTasks
      <4>3. r.ticket = current.ticket
        BY <2>4, <3>2, <4>1, <4>2 DEF AttemptsNameTheirTasks, Closes
      <4>4. QED
        BY <2>4, <4>1, <4>3 DEF Closes
    <3>4. /\ \A i \in DOMAIN completed' :
               (i \in DOMAIN completed /\ completed'[i] = completed[i]) \/ completed'[i] = t
      BY <2>4 DEF Closes, TypeOK
    <3>5. ResultClosesItsOwnTask'
      BY <3>3, <3>4 DEF ResultClosesItsOwnTask
    <3>6. QED
      BY <3>1, <3>5
  <2>5. CASE LeavesTasks
    <3>1. \A r \in runs' : <<r.ticket, r.id>> \in Identities
      BY <2>5 DEF LeavesTasks, AttemptsNameTheirTasks, Identities
    <3>2. Identities' = Identities
      BY <2>5, IdentitiesStep
    <3>3. AttemptsNameTheirTasks'
      BY <3>1, <3>2 DEF AttemptsNameTheirTasks
    <3>4. ResultClosesItsOwnTask'
      BY <2>5 DEF LeavesTasks, schedulerVars, ResultClosesItsOwnTask
    <3>5. QED
      BY <3>3, <3>4
  <2>6. CASE Restart
    BY <2>6 DEF Restart, AttemptsNameTheirTasks, Identities, ResultClosesItsOwnTask
  <2>7. QED
    BY <2>1, <2>2, <2>3, <2>4, <2>5, <2>6, StepShape
<1>3. QED
  BY <1>1, <1>2, TypeCorrect, PTL DEF Spec

-----------------------------------------------------------------------------
\* What a step may do to the sink.
LEMMA SinkShape ==
  ASSUME TypeOK, [Next]_vars
  PROVE  \/ UNCHANGED sinkVars
         \/ \E e \in Event : Record(e)
         \/ OtherStoreCommits
         \/ ClearSink
         \/ Restart
BY FullShape DEF Records

\* An event whose recording call returned is never missing from the sink:
\* refused inserts, failed commits, other stores' commits and restarts keep it.
THEOREM AcknowledgedIsRecordedHolds == Spec => []AcknowledgedIsRecorded
<1>1. Init => AcknowledgedIsRecorded
  BY DEF Init, AcknowledgedIsRecorded
<1>2. TypeOK /\ AcknowledgedIsRecorded /\ [Next]_vars => AcknowledgedIsRecorded'
  <2> SUFFICES ASSUME TypeOK, AcknowledgedIsRecorded, [Next]_vars
               PROVE  AcknowledgedIsRecorded'
    OBVIOUS
  <2> USE DEF AcknowledgedIsRecorded
  <2>1. CASE UNCHANGED sinkVars
    BY <2>1 DEF sinkVars
  <2>2. ASSUME NEW e \in Event, Record(e) PROVE AcknowledgedIsRecorded'
    <3>1. CASE /\ rows' = rows \o Append(pending, e)
               /\ acked' = acked \cup {e}
      <4> DEFINE new == Append(pending, e)
      <4>1. /\ new \in Seq(Event) /\ rows \in Seq(Event)
            /\ Len(new) \in Nat /\ Len(new) >= 1 /\ new[Len(new)] = e
        BY DEF TypeOK
      <4> HIDE DEF new
      <4>2. rows' = rows \o new
        BY <3>1 DEF new
      <4>3. /\ \A i \in DOMAIN rows : i \in DOMAIN rows' /\ rows'[i] = rows[i]
            /\ Len(rows) + Len(new) \in DOMAIN rows'
            /\ rows'[Len(rows) + Len(new)] = e
        BY <4>1, <4>2
      <4>4. QED
        BY <3>1, <4>3
    <3>2. CASE MemoryRecord(e)
      <4>1. /\ \A i \in DOMAIN rows : i \in DOMAIN rows' /\ rows'[i] = rows[i]
            /\ Len(rows) + 1 \in DOMAIN rows'
            /\ rows'[Len(rows) + 1] = e
        BY <3>2 DEF MemoryRecord, TypeOK
      <4>2. QED
        BY <3>2, <4>1 DEF MemoryRecord
    <3>3. CASE UNCHANGED <<rows, acked>>
      BY <3>3
    <3>4. QED
      BY <2>2, <3>1, <3>2, <3>3 DEF Record, SqliteRecord, sinkVars
  <2>3. CASE OtherStoreCommits
    <3>1. /\ rows \in Seq(Event) /\ pending \in Seq(Event)
          /\ rows' = rows \o pending /\ acked' = acked
      BY <2>3 DEF OtherStoreCommits, TypeOK
    <3>2. \A i \in DOMAIN rows : i \in DOMAIN rows' /\ rows'[i] = rows[i]
      BY <3>1
    <3>3. QED
      BY <3>1, <3>2
  <2>4. CASE ClearSink
    BY <2>4 DEF ClearSink
  <2>5. CASE Restart
    BY <2>5 DEF Restart
  <2>6. QED
    BY <2>1, <2>2, <2>3, <2>4, <2>5, SinkShape
<1>3. QED
  BY <1>1, <1>2, TypeCorrect, PTL DEF Spec
-----------------------------------------------------------------------------
\* Only a SQLite sink has an open transaction, and what is recorded is of tasks
\* that were closed.
RecordInv ==
  /\ Sink # "sqlite" => pending = <<>>
  /\ \A i \in DOMAIN Recorded : Recorded[i].ticket <= base + Len(completed)

\* What recording an event does to the rows of the table and the transaction,
\* read in order: the event comes last, with a new id in SQLite, or is not there.
LEMMA RecordedGrows ==
  ASSUME TypeOK, RecordInv, NEW e \in Event, Record(e)
  PROVE  /\ Sink # "sqlite" => pending' = <<>>
         /\ \/ Recorded' = Recorded
            \/ /\ Recorded' = Append(Recorded, e)
               /\ Sink = "sqlite" => \A i \in DOMAIN Recorded : Recorded[i].id # e.id
<1> USE DEF TypeOK, RecordInv, Recorded
<1>1. rows \in Seq(Event) /\ pending \in Seq(Event)
  OBVIOUS
<1>2. CASE UNCHANGED sinkVars
  BY <1>2 DEF sinkVars
<1>3. CASE Sink = "memory" /\ MemoryRecord(e)
  <2>1. rows' = Append(rows, e) /\ pending = <<>> /\ pending' = <<>>
    BY <1>3 DEF MemoryRecord
  <2>2. rows \o <<>> = rows /\ Append(rows, e) \o <<>> = Append(rows, e)
    <3>1. \A s \in Seq(Event) : s \o <<>> = s
      OBVIOUS
    <3>2. Append(rows, e) \in Seq(Event)
      BY <1>1
    <3>3. QED
      BY <1>1, <3>1, <3>2
  <2>3. QED
    BY <1>3, <2>1, <2>2
<1>4. CASE Sink = "sqlite" /\ SqliteRecord(e)
  <2>1. \A i \in DOMAIN Recorded : Recorded[i].id # e.id
    BY <1>4 DEF SqliteRecord, IdsOf
  <2>2. rows \o Append(pending, e) = Append(rows \o pending, e)
    BY <1>1
  <2>3. CASE rows' = rows \o Append(pending, e) /\ pending' = <<>>
    <3>1. Append(rows \o pending, e) \in Seq(Event)
      BY <1>1
    <3>2. \A s \in Seq(Event) : s \o <<>> = s
      OBVIOUS
    <3>3. Recorded' = Append(Recorded, e)
      BY <2>2, <2>3, <3>1, <3>2
    <3>4. QED
      BY <1>4, <2>1, <3>3
  <2>4. CASE rows' = rows /\ pending' = Append(pending, e)
    BY <1>4, <2>1, <2>2, <2>4
  <2>5. QED
    BY <1>4, <2>3, <2>4 DEF SqliteRecord
<1>5. QED
  BY <1>2, <1>3, <1>4 DEF Record

\* Everything else keeps what is recorded or drops the end of it.
LEMMA RecordedShrinks ==
  ASSUME TypeOK, RecordInv, OtherStoreCommits \/ ClearSink \/ Restart \/ UNCHANGED sinkVars
  PROVE  /\ Sink # "sqlite" => pending' = <<>>
         /\ \A i \in DOMAIN Recorded' : i \in DOMAIN Recorded /\ Recorded'[i] = Recorded[i]
<1> USE DEF TypeOK, RecordInv, Recorded
<1>1. rows \in Seq(Event) /\ pending \in Seq(Event) /\ rows \o pending \in Seq(Event)
  OBVIOUS
<1>2. CASE OtherStoreCommits
  <2>1. rows' = rows \o pending /\ pending' = <<>>
    BY <1>2 DEF OtherStoreCommits
  <2>2. \A s \in Seq(Event) : s \o <<>> = s
    OBVIOUS
  <2>3. Recorded' = Recorded
    BY <1>1, <2>1, <2>2
  <2>4. QED
    BY <2>1, <2>3
<1>3. CASE ClearSink
  BY <1>3 DEF ClearSink
<1>4. CASE Restart
  <2>1. pending' = <<>> /\ rows' \in {rows, <<>>}
    BY <1>4 DEF Restart
  <2>2. QED
    BY <1>1, <2>1
<1>5. CASE UNCHANGED sinkVars
  BY <1>5 DEF sinkVars
<1>6. QED
  BY <1>2, <1>3, <1>4, <1>5

LEMMA EventsStep ==
  ASSUME TypeOK, FifoAccounting, RecordInv, EventsAgreeWithTasks, [Next]_vars
  PROVE  RecordInv' /\ EventsAgreeWithTasks'
<1> USE NoneAssumption
<1>0. /\ base \in Nat /\ Len(completed) \in Nat /\ DOMAIN completed = 1..Len(completed)
      /\ completed \in Seq(CompletedTask) /\ Recorded \in Seq(Event)
      /\ \A i \in DOMAIN Recorded : Recorded[i].ticket \in Nat
  <2>1. rows \in Seq(Event) /\ pending \in Seq(Event)
    BY DEF TypeOK
  <2>2. Recorded \in Seq(Event)
    BY <2>1 DEF Recorded
  <2>3. \A i \in DOMAIN Recorded : Recorded[i] \in Event
    BY <2>2
  <2>4. QED
    BY <2>2, <2>3 DEF TypeOK, Event
<1>1. ASSUME NEW t, Closes(t), Records(t) PROVE RecordInv' /\ EventsAgreeWithTasks'
  <2>1. PICK e \in Event : e.ticket = t.ticket /\ e.status = t.completion.status /\ Record(e)
    BY <1>1 DEF Records
  <2>2. /\ t.ticket = base + Len(completed) + 1 /\ base' = base
        /\ completed' = Append(completed, t) /\ t \in CompletedTask
    BY <1>1 DEF Closes, FifoAccounting, ghostVars
  <2>3. /\ Len(completed') = Len(completed) + 1
        /\ DOMAIN completed' = 1..(Len(completed) + 1)
        /\ completed'[Len(completed) + 1] = t
        /\ \A k \in DOMAIN completed : completed'[k] = completed[k]
    BY <1>0, <2>2
  <2>4. \A i \in DOMAIN Recorded : Recorded[i].ticket < t.ticket
    BY <1>0, <2>2 DEF RecordInv
  <2>5. \A i \in DOMAIN Recorded : Recorded[i].ticket > base =>
           \E k \in DOMAIN completed' : /\ completed'[k].ticket = Recorded[i].ticket
                                        /\ completed'[k].completion.status = Recorded[i].status
    <3> SUFFICES ASSUME NEW i \in DOMAIN Recorded, Recorded[i].ticket > base
                 PROVE  \E k \in DOMAIN completed' :
                           /\ completed'[k].ticket = Recorded[i].ticket
                           /\ completed'[k].completion.status = Recorded[i].status
      OBVIOUS
    <3>1. PICK k \in DOMAIN completed : /\ completed[k].ticket = Recorded[i].ticket
                                        /\ completed[k].completion.status = Recorded[i].status
      BY DEF EventsAgreeWithTasks
    <3>2. k \in DOMAIN completed' /\ completed'[k] = completed[k]
      BY <1>0, <2>3
    <3>3. QED
      BY <3>1, <3>2
  <2>6. CASE Recorded' = Recorded
    <3>1. RecordInv'
      BY <1>0, <2>1, <2>2, <2>3, <2>4, <2>6, RecordedGrows DEF RecordInv
    <3>2. EventsAgreeWithTasks'
      BY <2>2, <2>5, <2>6 DEF EventsAgreeWithTasks
    <3>3. QED
      BY <3>1, <3>2
  <2>7. CASE /\ Recorded' = Append(Recorded, e)
             /\ Sink = "sqlite" => \A i \in DOMAIN Recorded : Recorded[i].id # e.id
    <3> DEFINE n == Len(Recorded) + 1
    <3>1. /\ DOMAIN Recorded' = DOMAIN Recorded \cup {n} /\ n \notin DOMAIN Recorded
          /\ Recorded'[n] = e /\ \A i \in DOMAIN Recorded : Recorded'[i] = Recorded[i]
      <4> DEFINE s == Recorded
      <4>1. s \in Seq(Event) /\ Recorded' = Append(s, e)
        BY <1>0, <2>7
      <4> HIDE DEF s
      <4>2. /\ DOMAIN Append(s, e) = DOMAIN s \cup {Len(s) + 1} /\ Len(s) + 1 \notin DOMAIN s
            /\ Append(s, e)[Len(s) + 1] = e /\ \A i \in DOMAIN s : Append(s, e)[i] = s[i]
        BY <4>1
      <4>3. QED
        BY <4>1, <4>2 DEF s
    <3> HIDE DEF n
    <3>2. RecordInv'
      <4>1. Sink # "sqlite" => pending' = <<>>
        BY <2>1, RecordedGrows
      <4>2. \A i \in DOMAIN Recorded' : Recorded'[i].ticket <= base' + Len(completed')
        BY <1>0, <2>1, <2>2, <2>3, <2>4, <3>1
      <4>3. QED
        BY <4>1, <4>2 DEF RecordInv
    <3>3. \A i \in DOMAIN Recorded : /\ Recorded[i].ticket # e.ticket
                                     /\ Sink = "sqlite" => Recorded[i].id # e.id
      <4>1. t.ticket \in Nat
        BY <1>0, <2>2
      <4>2. QED
        BY <1>0, <2>1, <2>4, <2>7, <4>1
    <3>4. \A i, j \in DOMAIN Recorded' :
             i # j => /\ Recorded'[i].ticket # Recorded'[j].ticket
                      /\ Sink = "sqlite" => Recorded'[i].id # Recorded'[j].id
      BY <3>1, <3>3 DEF EventsAgreeWithTasks
    <3>5. Len(completed) + 1 \in DOMAIN completed'
      BY <1>0, <2>3
    <3>6. \A i \in DOMAIN Recorded' : Recorded'[i].ticket > base' =>
             \E k \in DOMAIN completed' :
                /\ completed'[k].ticket = Recorded'[i].ticket
                /\ completed'[k].completion.status = Recorded'[i].status
      BY <2>1, <2>2, <2>3, <2>5, <3>1, <3>5
    <3>7. EventsAgreeWithTasks'
      BY <3>4, <3>6 DEF EventsAgreeWithTasks
    <3>8. QED
      BY <3>2, <3>7
  <2>8. QED
    BY <2>1, <2>6, <2>7, RecordedGrows
<1>2. CASE Restart
  <2>1. completed' = <<>> /\ base' = submitted /\ submitted >= base + Len(completed)
    <3>1. Running \in Nat /\ Len(queue) \in Nat
      BY DEF Running, TypeOK
    <3>2. QED
      BY <1>0, <1>2, <3>1 DEF Restart, FifoAccounting
  <2>2. /\ Sink # "sqlite" => pending' = <<>>
        /\ \A i \in DOMAIN Recorded' : i \in DOMAIN Recorded /\ Recorded'[i] = Recorded[i]
    BY <1>2, RecordedShrinks
  <2>3. Len(completed') = 0 /\ submitted \in Nat
    BY <2>1 DEF TypeOK
  <2>4. \A i \in DOMAIN Recorded' : Recorded'[i].ticket <= base'
                                      /\ Recorded'[i].ticket \in Nat
    BY <1>0, <2>1, <2>2, <2>3 DEF RecordInv
  <2>5. RecordInv'
    BY <2>1, <2>2, <2>3, <2>4 DEF RecordInv
  <2>6. \A i \in DOMAIN Recorded' : ~(Recorded'[i].ticket > base')
    BY <2>1, <2>3, <2>4
  <2>7. EventsAgreeWithTasks'
    BY <2>2, <2>6 DEF EventsAgreeWithTasks
  <2>8. QED
    BY <2>5, <2>7
<1>3. CASE /\ completed' = completed /\ base' = base
           /\ OtherStoreCommits \/ ClearSink \/ UNCHANGED sinkVars
  <2>1. /\ Sink # "sqlite" => pending' = <<>>
        /\ \A i \in DOMAIN Recorded' : i \in DOMAIN Recorded /\ Recorded'[i] = Recorded[i]
    BY <1>3, RecordedShrinks
  <2>2. QED
    BY <1>3, <2>1 DEF RecordInv, EventsAgreeWithTasks
<1>4. QED
  <2>1. (\E id \in TaskIds, spec \in Specs : Enqueue(id, spec)) \/ StartNext \/ Ticks \/ LeavesTasks
          => completed' = completed /\ base' = base
    BY DEF Enqueue, StartNext, Ticks, LeavesTasks, schedulerVars, ghostVars
  <2>2. QED
    BY <1>1, <1>2, <1>3, <2>1, FullShape

\* A task is recorded at most once over all lives of the process, SQLite holds an
\* event_id once, and an event of this life has the status its task was closed
\* with, whatever inserts and commits failed on the way.
THEOREM EventsAgreeWithTasksHolds == Spec => []EventsAgreeWithTasks
<1>1. Init => RecordInv /\ EventsAgreeWithTasks
  BY DEF Init, RecordInv, EventsAgreeWithTasks, Recorded
<1>2. QED
  BY <1>1, EventsStep, TypeCorrect, FifoAccountingHolds, PTL DEF Spec
-----------------------------------------------------------------------------
\* The phase of a submission, told from how many are closed, running and queued.
PhaseAt(t) ==
  IF t > submitted THEN "absent"
  ELSE IF t > base + Len(completed) + Running THEN "pending"
  ELSE IF t > base + Len(completed) THEN "running"
  ELSE IF t > base THEN completed[t - base].completion.status
  ELSE "forgotten"

LEMMA PhaseOfIs == TypeOK /\ FifoAccounting => \A t \in Nat : PhaseOf(t) = PhaseAt(t)
<1> SUFFICES ASSUME TypeOK, FifoAccounting, NEW t \in Nat PROVE PhaseOf(t) = PhaseAt(t)
  OBVIOUS
<1> USE NoneAssumption
<1>1. /\ base \in Nat /\ Len(completed) \in Nat /\ Len(queue) \in Nat /\ submitted \in Nat
      /\ DOMAIN completed = 1..Len(completed) /\ DOMAIN queue = 1..Len(queue)
      /\ Running \in {0, 1} /\ (Running = 1 <=> current # None)
      /\ submitted = base + Len(completed) + Running + Len(queue)
  BY DEF TypeOK, Running, FifoAccounting
<1>2. CASE t > submitted
  BY <1>2 DEF PhaseOf, PhaseAt
<1>3. current # None => current.ticket = base + Len(completed) + 1
  BY DEF FifoAccounting
<1>4. (\E i \in DOMAIN queue : queue[i].ticket = t) <=>
         t > base + Len(completed) + Running /\ t <= submitted
  <2> DEFINE b == base + Len(completed) + Running
  <2>1. \A i \in DOMAIN queue : queue[i].ticket = b + i
    BY DEF FifoAccounting
  <2>2. b \in Nat /\ submitted = b + Len(queue)
    BY <1>1
  <2> HIDE DEF b
  <2>3. ASSUME NEW i \in DOMAIN queue, queue[i].ticket = t PROVE t > b /\ t <= submitted
    BY <1>1, <2>1, <2>2, <2>3
  <2>4. ASSUME t > b, t <= submitted PROVE t - b \in DOMAIN queue /\ queue[t - b].ticket = t
    <3>1. t - b \in DOMAIN queue
      BY <1>1, <2>2, <2>4
    <3>2. queue[t - b].ticket = b + (t - b)
      BY <2>1, <3>1
    <3>3. QED
      BY <2>2, <3>1, <3>2
  <2>5. QED
    BY <2>3, <2>4 DEF b
<1>5. \A i \in DOMAIN completed : completed[i].ticket = t <=> i = t - base
  BY <1>1 DEF FifoAccounting
<1>6. CASE t <= submitted /\ t > base + Len(completed) + Running
  BY <1>1, <1>3, <1>4, <1>6 DEF PhaseOf, PhaseAt
<1>7. CASE t <= base + Len(completed) + Running /\ t > base + Len(completed)
  <2>1. Running = 1 /\ t = base + Len(completed) + 1 /\ ~(t > submitted)
    BY <1>1, <1>7
  <2>2. current # None /\ current.ticket = t
    BY <1>1, <1>3, <2>1
  <2>3. PhaseOf(t) = "running"
    BY <2>1, <2>2 DEF PhaseOf
  <2>4. PhaseAt(t) = "running"
    BY <1>1, <1>7, <2>1 DEF PhaseAt
  <2>5. QED
    BY <2>3, <2>4
<1>8. CASE t <= base + Len(completed) /\ t > base
  <2>1. t - base \in DOMAIN completed /\ completed[t - base].ticket = t
    BY <1>1, <1>5, <1>8
  <2>2. (CHOOSE i \in DOMAIN completed : completed[i].ticket = t) = t - base
    BY <1>5, <2>1
  <2>3. /\ ~(t > submitted) /\ ~(current # None /\ current.ticket = t)
        /\ ~\E i \in DOMAIN queue : queue[i].ticket = t
    BY <1>1, <1>3, <1>4, <1>8
  <2>4. PhaseOf(t) = completed[t - base].completion.status
    BY <2>1, <2>2, <2>3 DEF PhaseOf
  <2>5. PhaseAt(t) = completed[t - base].completion.status
    BY <1>1, <1>8 DEF PhaseAt
  <2>6. QED
    BY <2>4, <2>5
<1>9. CASE t <= base
  <2>1. \A i \in DOMAIN completed : completed[i].ticket # t
    BY <1>1, <1>5, <1>9
  <2>2. QED
    BY <1>1, <1>3, <1>4, <1>9, <2>1 DEF PhaseOf, PhaseAt
<1>10. QED
  BY <1>1, <1>2, <1>6, <1>7, <1>8, <1>9

LEMMA PhaseOfIsNext == (TypeOK /\ FifoAccounting => \A t \in Nat : PhaseOf(t) = PhaseAt(t))'
BY PhaseOfIs, PTL
-----------------------------------------------------------------------------
(* The refinement of TaskContract, for a sink that keeps its events.        *)

\* What the contract sees.
Phase == [t \in 1..MaxSubmissions |-> PhaseOf(t)]
Logged == {<<rows[i].ticket, rows[i].status>> : i \in DOMAIN rows}

LEMMA PhaseIs ==
  TypeOK /\ FifoAccounting => Phase = [t \in 1..MaxSubmissions |-> PhaseAt(t)]
BY PhaseOfIs DEF Phase

LEMMA PhaseIsNext ==
  (TypeOK /\ FifoAccounting => Phase = [t \in 1..MaxSubmissions |-> PhaseAt(t)])'
BY PhaseIs, PTL

\* Submissions are numbered up to the bound, an open transaction holds events of
\* this life only, and without a sink nothing is recorded.
LifeInv ==
  /\ submitted <= MaxSubmissions
  /\ \A i \in DOMAIN pending : pending[i].ticket > base
  /\ Sink = "none" => rows = <<>> /\ pending = <<>>

\* Recording and committing keep the rows there are and add rows of this life.
RowsGrow ==
  /\ \A i \in DOMAIN rows : \E j \in DOMAIN rows' : rows'[j] = rows[i]
  /\ \A j \in DOMAIN rows' : \/ \E i \in DOMAIN rows : rows[i] = rows'[j]
                             \/ rows'[j].ticket > base
  /\ \A i \in DOMAIN pending' : pending'[i].ticket > base
  /\ Sink = "none" => rows' = <<>> /\ pending' = <<>>

LEMMA RecordGrowsRows ==
  ASSUME TypeOK, LifeInv, NEW e \in Event, e.ticket > base, Record(e)
  PROVE  RowsGrow
<1> USE DEF TypeOK, LifeInv
<1>1. rows \in Seq(Event) /\ pending \in Seq(Event)
  OBVIOUS
<1>2. CASE UNCHANGED sinkVars
  BY <1>2 DEF sinkVars, RowsGrow
<1>3. CASE Sink = "memory" /\ MemoryRecord(e)
  <2>1. /\ \A i \in DOMAIN rows : i \in DOMAIN rows' /\ rows'[i] = rows[i]
        /\ \A j \in DOMAIN rows' : j \in DOMAIN rows \/ rows'[j] = e
    BY <1>1, <1>3 DEF MemoryRecord
  <2>2. QED
    BY <1>3, <2>1 DEF MemoryRecord, RowsGrow
<1>4. CASE Sink = "sqlite" /\ rows' = rows \o Append(pending, e) /\ pending' = <<>>
  <2> DEFINE new == Append(pending, e)
  <2>1. new \in Seq(Event) /\ \A i \in DOMAIN new : new[i].ticket > base
    <3>1. \A i \in DOMAIN new : new[i] = e \/ (i \in DOMAIN pending /\ new[i] = pending[i])
      BY <1>1
    <3>2. QED
      BY <1>1, <3>1
  <2>2. rows' = rows \o new
    BY <1>4
  <2> HIDE DEF new
  <2>3. /\ \A i \in DOMAIN rows : i \in DOMAIN rows' /\ rows'[i] = rows[i]
        /\ \A j \in DOMAIN rows' : \/ j \in DOMAIN rows /\ rows'[j] = rows[j]
                                   \/ /\ j - Len(rows) \in DOMAIN new
                                      /\ rows'[j] = new[j - Len(rows)]
    BY <1>1, <2>1, <2>2
  <2>4. QED
    BY <1>4, <2>1, <2>3 DEF RowsGrow
<1>5. CASE Sink = "sqlite" /\ rows' = rows /\ pending' = Append(pending, e)
  <2>1. \A i \in DOMAIN pending' : pending'[i] = e \/ (i \in DOMAIN pending /\ pending'[i] = pending[i])
    BY <1>1, <1>5
  <2>2. QED
    BY <1>5, <2>1 DEF RowsGrow
<1>6. QED
  BY <1>2, <1>3, <1>4, <1>5 DEF Record, SqliteRecord

LEMMA CommitGrowsRows ==
  ASSUME TypeOK, LifeInv, OtherStoreCommits
  PROVE  RowsGrow
<1>1. /\ rows \in Seq(Event) /\ pending \in Seq(Event) /\ pending # <<>>
      /\ rows' = rows \o pending /\ pending' = <<>>
  BY DEF TypeOK, OtherStoreCommits
<1>2. /\ \A i \in DOMAIN rows : i \in DOMAIN rows' /\ rows'[i] = rows[i]
      /\ \A j \in DOMAIN rows' : \/ j \in DOMAIN rows /\ rows'[j] = rows[j]
                                 \/ /\ j - Len(rows) \in DOMAIN pending
                                    /\ rows'[j] = pending[j - Len(rows)]
  BY <1>1
<1>3. QED
  BY <1>1, <1>2 DEF RowsGrow, LifeInv

\* Of a step, what concerns the sink: a kept sink, rows that grow while the tasks
\* go on, or a restart.
LEMMA LifeStep ==
  ASSUME TypeOK, FifoAccounting, LifeInv, Sink # "memory", [Next]_vars
  PROVE  /\ LifeInv'
         /\ UNCHANGED rows \/ RowsGrow
<1>1. ASSUME NEW t, Closes(t), Records(t) PROVE LifeInv' /\ RowsGrow
  <2>1. PICK e \in Event : e.ticket = t.ticket /\ Record(e)
    BY <1>1 DEF Records
  <2>2. e.ticket > base /\ UNCHANGED <<base, submitted>>
    BY <1>1, <2>1 DEF Closes, FifoAccounting, TypeOK, ghostVars
  <2>3. RowsGrow
    BY <2>1, <2>2, RecordGrowsRows
  <2>4. QED
    BY <2>2, <2>3 DEF LifeInv, RowsGrow
<1>2. CASE LeavesTasks /\ OtherStoreCommits
  BY <1>2, CommitGrowsRows DEF LeavesTasks, ghostVars, LifeInv, RowsGrow
<1>3. CASE Restart
  BY <1>3, SinkAssumption DEF Restart, LifeInv
<1>4. CASE UNCHANGED sinkVars /\ (StartNext \/ Ticks \/ LeavesTasks)
  BY <1>4 DEF StartNext, Ticks, LeavesTasks, ghostVars, sinkVars, LifeInv
<1>5. ASSUME NEW id \in TaskIds, NEW spec \in Specs, Enqueue(id, spec)
      PROVE  LifeInv' /\ UNCHANGED rows
  BY <1>5, BoundAssumption DEF Enqueue, sinkVars, LifeInv, TypeOK
<1>6. QED
  BY <1>1, <1>2, <1>3, <1>4, <1>5, FullShape DEF ClearSink

\* Rows of this life that are new are outcomes their tasks have after the step.
LEMMA RowsAreOutcomes ==
  ASSUME TypeOK', FifoAccounting', RecordInv', EventsAgreeWithTasks', LifeInv',
         UNCHANGED base, RowsGrow
  PROVE  Contract!RecordGrows
<1>1. /\ base' \in Nat /\ Len(completed') \in Nat /\ Running' \in {0, 1} /\ Len(queue') \in Nat
      /\ DOMAIN completed' = 1..Len(completed') /\ rows' \in Seq(Event) /\ pending' \in Seq(Event)
      /\ submitted' = base' + Len(completed') + Running' + Len(queue')
      /\ submitted' <= MaxSubmissions /\ MaxSubmissions \in Nat
  BY BoundAssumption DEF TypeOK, FifoAccounting, Running, LifeInv
<1>2. Logged \subseteq Logged'
  BY DEF Logged, RowsGrow
<1>3. ASSUME NEW j \in DOMAIN rows', rows'[j].ticket > base
      PROVE  /\ rows'[j].ticket \in 1..MaxSubmissions
             /\ rows'[j].status \in TerminalStatus
             /\ Phase'[rows'[j].ticket] = rows'[j].status
  <2>1. rows'[j] \in Event
    BY <1>1
  <2>2. j \in DOMAIN Recorded' /\ Recorded'[j] = rows'[j]
    BY <1>1 DEF Recorded
  <2> DEFINE u == rows'[j].ticket
  <2>3. u \in Nat /\ u > base' /\ u <= base' + Len(completed') /\ rows'[j].status \in TerminalStatus
    BY <1>3, <2>1, <2>2 DEF RecordInv, Event
  <2>4. PICK k \in DOMAIN completed' : /\ completed'[k].ticket = u
                                       /\ completed'[k].completion.status = rows'[j].status
    BY <1>3, <2>2 DEF EventsAgreeWithTasks
  <2>5. completed'[k].ticket = base' + k
    BY <2>4 DEF FifoAccounting
  <2> HIDE DEF u
  <2>a. base' \in Nat /\ Len(completed') \in Nat /\ k \in Int /\ MaxSubmissions \in Nat
    BY <1>1, <2>4
  <2>b. base' + Len(completed') <= submitted' /\ submitted' <= MaxSubmissions
    BY <1>1
  <2>c. submitted' \in Nat /\ Running' \in Nat
    BY <1>1
  <2>6. k = u - base' /\ u \in 1..MaxSubmissions
    BY <2>3, <2>4, <2>5, <2>a, <2>b, <2>c
  <2>7. \A t : t = u => PhaseAt(t)' = completed'[t - base'].completion.status
    <3>1. ~(u > submitted') /\ ~(u > base' + Len(completed') + Running')
      BY <2>3, <2>a, <2>b, <2>c
    <3>2. ~(u > base' + Len(completed')) /\ u > base'
      BY <2>3, <2>a
    <3>3. QED
      BY <3>1, <3>2 DEF PhaseAt
  <2>8. Phase'[u] = rows'[j].status
    BY <2>4, <2>6, <2>7, PhaseIsNext
  <2>9. QED
    BY <2>3, <2>6, <2>8 DEF u
<1>4. \A p \in Logged' \ Logged :
         p \in (1..MaxSubmissions) \X TerminalStatus /\ Phase'[p[1]] = p[2]
  <2>1. SUFFICES ASSUME NEW j \in DOMAIN rows',
                        <<rows'[j].ticket, rows'[j].status>> \notin Logged
                 PROVE  /\ rows'[j].ticket \in 1..MaxSubmissions
                        /\ rows'[j].status \in TerminalStatus
                        /\ Phase'[rows'[j].ticket] = rows'[j].status
    BY DEF Logged
  <2>2. ~\E i \in DOMAIN rows : rows[i] = rows'[j]
    BY <2>1 DEF Logged
  <2>3. QED
    BY <1>3, <2>2 DEF RowsGrow
<1>5. QED
  BY <1>2, <1>4 DEF Contract!RecordGrows, Contract!Terminal, TerminalStatus, Logged, Phase
ContractInv == TypeOK /\ FifoAccounting /\ RecordInv /\ EventsAgreeWithTasks /\ LifeInv

LEMMA ContractInvHolds ==
  ASSUME Sink # "memory"
  PROVE  Spec => [](ContractInv)
<1>1. Init => RecordInv /\ EventsAgreeWithTasks /\ LifeInv
  BY BoundAssumption DEF Init, RecordInv, EventsAgreeWithTasks, Recorded, LifeInv
<1>2. TypeOK /\ FifoAccounting /\ LifeInv /\ [Next]_vars => LifeInv'
  BY LifeStep
<1>3. QED
  BY <1>1, <1>2, EventsStep, TypeCorrect, FifoAccountingHolds, PTL DEF Spec, ContractInv

\* One step of the lifecycle is one step of the contract, or none.
LEMMA ContractStep ==
  ASSUME Sink # "memory", ContractInv, ContractInv', [Next]_vars
  PROVE  Contract!Next \/ UNCHANGED <<Phase, Logged>>
<1> USE NoneAssumption DEF ContractInv
<1> DEFINE C == base + Len(completed)
<1> DEFINE N == 1..MaxSubmissions
<1>1. /\ base \in Nat /\ Len(completed) \in Nat /\ Len(queue) \in Nat /\ submitted \in Nat
      /\ C \in Nat /\ submitted = C + Running + Len(queue)
      /\ Running = (IF current = None THEN 0 ELSE 1)
      /\ submitted <= MaxSubmissions /\ MaxSubmissions \in Nat
      /\ completed \in Seq(CompletedTask)
  <2>1. /\ base \in Nat /\ submitted \in Nat /\ queue \in Seq(ScheduledTask)
        /\ completed \in Seq(CompletedTask)
    BY DEF TypeOK, LifeInv
  <2>2. MaxSubmissions \in Nat /\ submitted <= MaxSubmissions
    BY BoundAssumption DEF TypeOK, LifeInv
  <2>3. Len(completed) \in Nat /\ Len(queue) \in Nat
    BY <2>1
  <2>4. Running = (IF current = None THEN 0 ELSE 1)
    BY DEF Running
  <2>5. submitted = C + Running + Len(queue)
    BY <2>1, <2>3, <2>4 DEF FifoAccounting, LifeInv
  <2>6. QED
    BY <2>1, <2>2, <2>3, <2>4, <2>5
<1>2. Phase = [t \in N |-> PhaseAt(t)] /\ Phase' = [t \in N |-> PhaseAt(t)']
  BY PhaseIs, PhaseIsNext
<1>3. UNCHANGED rows => UNCHANGED Logged
  BY DEF Logged
<1>4. ASSUME NEW t, Closes(t), Records(t) PROVE Contract!Next
  <2> DEFINE n == C + 1
  <2> DEFINE status == t.completion.status
  <2>1. /\ current # None /\ current' = None /\ completed' = Append(completed, t)
        /\ t \in CompletedTask /\ UNCHANGED <<queue, submitted, base>>
    BY <1>4 DEF Closes, ghostVars
  <2>2. /\ Len(completed') = Len(completed) + 1 /\ completed'[Len(completed) + 1] = t
        /\ \A k \in 1..Len(completed) : completed'[k] = completed[k]
        /\ Running = 1 /\ Running' = 0
    BY <1>1, <2>1 DEF Running
  <2>3. n \in N /\ status \in TerminalStatus
    BY <1>1, <2>1, <2>2 DEF CompletedTask, Completion
  <2>4. \A u \in N : PhaseAt(u)' = IF u = n THEN status ELSE PhaseAt(u)
    <3>1. SUFFICES ASSUME NEW u \in N PROVE PhaseAt(u)' = IF u = n THEN status ELSE PhaseAt(u)
      OBVIOUS
    <3>2. CASE u = n
      <4>1. /\ n - base = Len(completed) + 1 /\ n > base /\ n > base + Len(completed)
            /\ ~(n > submitted)
        BY <1>1, <2>2
      <4>2. /\ ~(n > submitted') /\ ~(n > base' + Len(completed') + Running')
            /\ ~(n > base' + Len(completed')) /\ n > base'
        BY <1>1, <2>1, <2>2
      <4>3. completed'[n - base'] = t
        BY <2>1, <2>2, <4>1
      <4> HIDE DEF n
      <4>4. QED
        BY <3>2, <4>2, <4>3 DEF PhaseAt
    <3>3. CASE u < n
      <4>1. u > base => u - base \in 1..Len(completed)
        BY <1>1, <3>3
      <4>2. QED
        BY <1>1, <2>1, <2>2, <3>3, <4>1 DEF PhaseAt
    <3>4. CASE u > n
      BY <1>1, <2>1, <2>2, <3>4 DEF PhaseAt
    <3>5. QED
      BY <1>1, <2>3, <3>2, <3>3, <3>4
  <2>5. Phase[n] = "running"
    <3>1. PhaseAt(n) = "running"
      BY <1>1, <2>2 DEF PhaseAt
    <3>2. QED
      BY <1>2, <2>3, <3>1
  <2> HIDE DEF n, status
  <2>6. Phase' = [Phase EXCEPT ![n] = status]
    BY <1>2, <2>3, <2>4
  <2>7. Contract!RecordGrows
    <3>1. CASE RowsGrow
      BY <2>1, <3>1, RowsAreOutcomes
    <3>2. CASE UNCHANGED rows
      BY <1>3, <3>2 DEF Contract!RecordGrows, Logged
    <3>3. QED
      BY <3>1, <3>2, LifeStep
  <2>8. Contract!Close(n, status)
    BY <2>5, <2>6, <2>7 DEF Contract!Close, Phase
  <2>9. QED
    BY <2>3, <2>8 DEF Contract!Next, Contract!Terminal, TerminalStatus
<1>5. ASSUME NEW id \in TaskIds, NEW spec \in Specs, Enqueue(id, spec) PROVE Contract!Next
  <2> DEFINE n == submitted + 1
  <2>1. /\ UNCHANGED <<current, completed, base, rows>> /\ submitted' = submitted + 1
        /\ n \in N
    BY <1>1, <1>5 DEF Enqueue, sinkVars
  <2>2. \A u \in N : PhaseAt(u)' = IF u = n THEN "pending" ELSE PhaseAt(u)
    <3> SUFFICES ASSUME NEW u \in N
                 PROVE  PhaseAt(u)' = IF u = n THEN "pending" ELSE PhaseAt(u)
      OBVIOUS
    <3>1. Running' = Running /\ C' = C
      BY <2>1 DEF Running
    <3>2. Running \in Nat
      BY <1>1
    <3>3. CASE u = n
      BY <1>1, <2>1, <3>1, <3>2, <3>3 DEF PhaseAt
    <3>4. CASE u < n
      <4>1. ~(u > submitted) /\ ~(u > submitted')
        BY <1>1, <2>1, <3>4
      <4>2. base' = base /\ completed' = completed
        BY <2>1
      <4>3. u # n
        BY <1>1, <3>4
      <4> HIDE DEF n
      <4>4. QED
        BY <3>1, <4>1, <4>2, <4>3 DEF PhaseAt
    <3>5. CASE u > n
      BY <1>1, <2>1, <3>5 DEF PhaseAt
    <3>6. QED
      BY <1>1, <3>3, <3>4, <3>5
  <2>3. PhaseAt(n) = "absent" /\ \A u \in 1..(n - 1) : PhaseAt(u) # "absent"
    <3>1. PhaseAt(n) = "absent"
      BY <1>1 DEF PhaseAt
    <3>2. ASSUME NEW u \in 1..(n - 1), PhaseAt(u) = "absent" PROVE FALSE
      <4>1. u <= submitted /\ u \in Nat
        BY <1>1
      <4>2. u > base /\ u <= base + Len(completed) => u - base \in DOMAIN completed
        BY <1>1, <4>1
      <4>3. \A k \in DOMAIN completed : completed[k].completion.status # "absent"
        <5>1. \A k \in DOMAIN completed : completed[k] \in CompletedTask
          BY <1>1
        <5>2. QED
          BY <5>1 DEF CompletedTask, Completion, TerminalStatus
      <4>4. QED
        BY <1>1, <3>2, <4>1, <4>2, <4>3 DEF PhaseAt
    <3>3. QED
      BY <3>1, <3>2
  <2>4. 1..(n - 1) \subseteq N
    BY <1>1
  <2> HIDE DEF n
  <2>5. /\ Phase[n] = "absent" /\ \A u \in 1..(n - 1) : Phase[u] # "absent"
        /\ Phase' = [Phase EXCEPT ![n] = "pending"]
    BY <1>2, <2>1, <2>2, <2>3, <2>4
  <2>6. Contract!Submit(n)
    BY <1>3, <2>1, <2>5 DEF Contract!Submit, Phase, Logged
  <2>7. QED
    BY <2>1, <2>6 DEF Contract!Next
<1>6. ASSUME StartNext PROVE Contract!Next
  <2> DEFINE n == C + 1
  <2>1. /\ UNCHANGED <<completed, base, rows, submitted>> /\ current = None /\ queue # <<>>
        /\ current' = queue[1] /\ queue \in Seq(ScheduledTask)
    BY <1>6 DEF StartNext, sinkVars, ghostVars, TypeOK
  <2>2. current' # None /\ Len(queue) >= 1
    BY <2>1
  <2>3. Running = 0 /\ Running' = 1 /\ n \in N /\ n <= submitted
    BY <1>1, <2>1, <2>2 DEF Running
  <2>4. \A u \in N : PhaseAt(u)' = IF u = n THEN "running" ELSE PhaseAt(u)
    BY <1>1, <2>1, <2>3 DEF PhaseAt
  <2>5. /\ PhaseAt(n) = "pending"
        /\ \A u \in N : PhaseAt(u) # "running"
        /\ \A u \in 1..(n - 1) : PhaseAt(u) # "pending"
    <3>1. PhaseAt(n) = "pending"
      BY <1>1, <2>3 DEF PhaseAt
    <3>2. ASSUME NEW u \in N PROVE PhaseAt(u) # "running" /\ (u <= C => PhaseAt(u) # "pending")
      <4>1. u > base /\ u <= base + Len(completed) => u - base \in DOMAIN completed
        BY <1>1
      <4>2. \A k \in DOMAIN completed : completed[k].completion.status \notin {"running", "pending"}
        <5>1. \A k \in DOMAIN completed : completed[k] \in CompletedTask
          BY <1>1
        <5>2. QED
          BY <5>1 DEF CompletedTask, Completion, TerminalStatus
      <4>3. QED
        BY <1>1, <2>3, <4>1, <4>2 DEF PhaseAt
    <3>3. \A u \in 1..(n - 1) : u \in N /\ u <= C
      BY <1>1, <2>3
    <3>4. QED
      BY <3>1, <3>2, <3>3
  <2>6. 1..(n - 1) \subseteq N
    BY <1>1, <2>3
  <2> HIDE DEF n
  <2>7. /\ Phase[n] = "pending" /\ \A u \in N : Phase[u] # "running"
        /\ \A u \in 1..(n - 1) : Phase[u] # "pending"
        /\ Phase' = [Phase EXCEPT ![n] = "running"]
    BY <1>2, <2>3, <2>4, <2>5, <2>6
  <2>8. Contract!Start(n)
    BY <1>3, <2>1, <2>7 DEF Contract!Start, Phase, Logged
  <2>9. QED
    BY <2>3, <2>8 DEF Contract!Next
<1>7. ASSUME Ticks \/ LeavesTasks PROVE UNCHANGED Phase
  <2>1. UNCHANGED <<completed, base, submitted>> /\ (current = None <=> current' = None)
    <3>1. CASE Ticks
      BY <3>1, TickedType DEF Ticks, ghostVars, TypeOK
    <3>2. CASE LeavesTasks
      BY <3>2 DEF LeavesTasks, schedulerVars, ghostVars
    <3>3. QED
      BY <1>7, <3>1, <3>2
  <2>2. \A u \in N : PhaseAt(u)' = PhaseAt(u)
    BY <2>1 DEF PhaseAt, Running
  <2>3. QED
    BY <1>2, <2>2
<1>8. ASSUME LeavesTasks, OtherStoreCommits PROVE Contract!Next
  <2>1. UNCHANGED base
    BY <1>8 DEF LeavesTasks, ghostVars
  <2>2. Contract!RecordGrows
    BY <1>8, <2>1, CommitGrowsRows, RowsAreOutcomes
  <2>3. Contract!LateRecord
    BY <1>7, <1>8, <2>2 DEF Contract!LateRecord, Phase
  <2>4. QED
    BY <2>3 DEF Contract!Next
<1>9. ASSUME Restart PROVE Contract!Next
  <2>1. /\ completed' = <<>> /\ queue' = <<>> /\ current' = None /\ base' = submitted
        /\ submitted' = submitted
    BY <1>9 DEF Restart
  <2>2. UNCHANGED rows
    BY <1>9, SinkAssumption DEF Restart, LifeInv
  <2>3. \A u \in N : PhaseAt(u)' = IF u > submitted THEN "absent" ELSE "forgotten"
    BY <1>1, <2>1 DEF PhaseAt, Running
  <2>4. \A u \in N : PhaseAt(u) = "absent" <=> u > submitted
    <3> SUFFICES ASSUME NEW u \in N, u <= submitted PROVE PhaseAt(u) # "absent"
      BY <1>1 DEF PhaseAt
    <3>1. u > base /\ u <= base + Len(completed) => u - base \in DOMAIN completed
      BY <1>1
    <3>2. \A k \in DOMAIN completed : completed[k].completion.status # "absent"
      <4>1. \A k \in DOMAIN completed : completed[k] \in CompletedTask
        BY <1>1
      <4>2. QED
        BY <4>1 DEF CompletedTask, Completion, TerminalStatus
    <3>3. QED
      BY <1>1, <3>1, <3>2 DEF PhaseAt
  <2>5. Phase' = [u \in N |-> IF Phase[u] = "absent" THEN "absent" ELSE "forgotten"]
    BY <1>2, <2>3, <2>4
  <2>6. Contract!Crash
    BY <1>3, <2>2, <2>5 DEF Contract!Crash, Phase, Logged
  <2>7. QED
    BY <2>6 DEF Contract!Next
<1>10. QED
  <2>1. ~ClearSink
    BY DEF ClearSink
  <2>2. UNCHANGED sinkVars => UNCHANGED Logged
    BY DEF sinkVars, Logged
  <2>3. QED
    BY <1>4, <1>5, <1>6, <1>7, <1>8, <1>9, <2>1, <2>2, FullShape

\* With a sink that keeps its events, SQLite's or none, the scheduler and the
\* orchestrator implement the task contract, crashes and failed inserts included.
\* A list in memory forgets its events, so there the record does not only grow.
THEOREM RefinesContractHolds ==
  ASSUME Sink # "memory"
  PROVE  Spec => RefinesContract
<1>1. Init => Contract!Init
  <2> SUFFICES ASSUME Init PROVE Contract!Init
    OBVIOUS
  <2>1. \A t \in 1..MaxSubmissions : PhaseOf(t) = "absent"
    BY DEF Init, PhaseOf
  <2>2. Logged = {}
    BY DEF Init, Logged
  <2>3. QED
    BY <2>1, <2>2 DEF Contract!Init, Logged
<1>2. ContractInv /\ ContractInv' /\ [Next]_vars => [Contract!Next]_<<Phase, Logged>>
  BY ContractStep
<1>3. QED
  BY <1>1, <1>2, ContractInvHolds, PTL DEF Spec, RefinesContract, Contract!Spec, Phase, Logged
=============================================================================
