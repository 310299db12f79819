----------------------- MODULE HierarchicalLoopProofs -----------------------
(***************************************************************************)
(* Proofs about HierarchicalLoop, for every value of its limits and bounds.*)
(***************************************************************************)
EXTENDS HierarchicalLoop, FiniteSetTheorems, TLAPS

\* No input is unseen where one may be sent, and at most one anywhere else; the
\* two attempt counters stay within their limits and cover what happened.
LookInv ==
  /\ at \in Points
  /\ blind \in {0, 1}
  /\ at \in {"plan", "start", "begin", "act", "verify"} => blind = 0
  /\ snapshots \in Nat /\ snapshots <= MaxSnapshotAttempts
  /\ actions \in Nat /\ actions <= MaxActionAttempts

LEMMA LookStep == LookInv /\ [Next]_vars => LookInv'
<1> SUFFICES ASSUME LookInv, [Next]_vars PROVE LookInv'
  OBVIOUS
<1> USE BoundAssumption DEF LookInv, Points, Raise, Go, Leave
<1>1. CASE ObserveForPlan
  BY <1>1 DEF ObserveForPlan, Observe, Snapshot, worldVars
<1>2. CASE PlanAndSubmit
  BY <1>2 DEF PlanAndSubmit, worldVars
<1>3. CASE StartSubmitted
  BY <1>3 DEF StartSubmitted, worldVars
<1>4. CASE BeginRun
  BY <1>4 DEF BeginRun, worldVars
<1>5. CASE Act
  BY <1>5 DEF Act
<1>6. CASE OutOfSteps
  BY <1>6 DEF OutOfSteps, worldVars
<1>7. CASE ObserveAfterAction
  BY <1>7 DEF ObserveAfterAction, Observe, Snapshot
<1>8. CASE Verify
  BY <1>8 DEF Verify, worldVars
<1>9. CASE CompleteFromSkillRun
  BY <1>9 DEF CompleteFromSkillRun, worldVars
<1>10. CASE Judge
  BY <1>10 DEF Judge, worldVars
<1>11. CASE Escape
  BY <1>11 DEF Escape, worldVars
<1>12. CASE CallRunBounded
  BY <1>12 DEF CallRunBounded, worldVars
<1>13. CASE CallerStarts
  BY <1>13 DEF CallerStarts, worldVars
<1>14. CASE CallerCancels
  BY <1>14 DEF CallerCancels, worldVars
<1>15. CASE UNCHANGED vars
  BY <1>15 DEF vars
<1>16. QED
  BY <1>1, <1>2, <1>3, <1>4, <1>5, <1>6, <1>7, <1>8, <1>9, <1>10, <1>11, <1>12, <1>13,
     <1>14, <1>15 DEF Next, LoopStep

\* The agent looks after every input, for any limits and any number of calls,
\* whatever raises in between.
THEOREM NoBlindInputHolds == Spec => []NoBlindInput
<1>1. Init => LookInv
  BY BoundAssumption DEF Init, LookInv, Points
<1>2. LookInv => NoBlindInput
  BY DEF LookInv, NoBlindInput
<1>3. QED
  BY <1>1, <1>2, LookStep, PTL DEF Spec
-----------------------------------------------------------------------------
\* The course of a call: which attempt it is in, and how many tasks the calls made
\* so far can have submitted.  An attempt submits one task, after "plan".
Submitted == {"start", "begin", "act", "look", "verify", "complete", "judge"}
Running == {"begin", "act", "look", "verify", "complete"}
Budget == calls * MaxTaskAttempts

ControlInv ==
  /\ at \in Points
  /\ turn \in Nat /\ turns \in Nat /\ ticket \in Nat /\ calls \in Nat
  /\ turn <= MaxTaskAttempts /\ turns <= MaxTaskAttempts /\ calls <= MaxCalls
  /\ ticket <= Budget
  /\ at # "out" => 1 <= turn /\ turn <= turns
  /\ at \in {"step", "plan"} =>
        turn <= ticket + 1 /\ ticket + 1 + (MaxTaskAttempts - turn) <= Budget
  /\ at \in Submitted => turn <= ticket /\ ticket + (MaxTaskAttempts - turn) <= Budget

LEMMA BudgetGrows ==
  ASSUME calls \in Nat, calls <= MaxCalls
  PROVE  /\ Budget \in Nat /\ Budget <= MaxCalls * MaxTaskAttempts
         /\ (calls + 1) * MaxTaskAttempts = Budget + MaxTaskAttempts
<1>1. MaxTaskAttempts \in Nat /\ MaxCalls \in Nat
  BY BoundAssumption
<1>2. \A a, b, m \in Nat : a * m \in Nat /\ (a + b) * m = a * m + b * m
  OBVIOUS
<1>3. MaxCalls - calls \in Nat /\ MaxCalls = calls + (MaxCalls - calls)
  BY <1>1
<1>4. MaxCalls * MaxTaskAttempts = Budget + (MaxCalls - calls) * MaxTaskAttempts
  BY <1>1, <1>2, <1>3 DEF Budget
<1>5. /\ Budget \in Nat /\ (MaxCalls - calls) * MaxTaskAttempts \in Nat
      /\ MaxCalls * MaxTaskAttempts \in Nat
  BY <1>1, <1>2, <1>3 DEF Budget
<1>6. 1 * MaxTaskAttempts = MaxTaskAttempts
  BY <1>1
<1>7. (calls + 1) * MaxTaskAttempts = Budget + 1 * MaxTaskAttempts
  BY <1>1, <1>2 DEF Budget
<1>8. QED
  BY <1>1, <1>4, <1>5, <1>6, <1>7

LEMMA ControlStep == ControlInv /\ [Next]_vars => ControlInv'
<1> SUFFICES ASSUME ControlInv, [Next]_vars PROVE ControlInv'
  OBVIOUS
<1> USE DEF Points, Submitted, Raise, Go, Leave, callVars, taskVars, runVars, worldVars
<1>a. /\ MaxTaskAttempts \in Nat \ {0} /\ MaxCalls \in Nat
      /\ Budget \in Nat /\ (calls + 1) * MaxTaskAttempts = Budget + MaxTaskAttempts
  BY BoundAssumption, BudgetGrows DEF ControlInv
<1>b. /\ calls' = calls => Budget' = Budget
      /\ calls' = calls + 1 => Budget' = Budget + MaxTaskAttempts
  BY <1>a DEF Budget
<1>1. CASE CallRunBounded
  <2>1. /\ at = "out" /\ calls' = calls + 1 /\ calls < MaxCalls /\ ticket' = ticket
        /\ \/ at' = "out" /\ UNCHANGED <<turn, turns>>
           \/ at' = "step" /\ turn' = 1 /\ turns' \in 1..MaxTaskAttempts
    BY <1>1, <1>a DEF CallRunBounded
  <2>2. QED
    BY <2>1, <1>a, <1>b DEF ControlInv
<1>2. CASE ObserveForPlan
  <2>1. /\ at = "step" /\ at' \in {"plan", "out"}
        /\ UNCHANGED <<turn, turns, calls, ticket>>
    BY <1>2 DEF ObserveForPlan, Observe
  <2>2. QED
    BY <2>1, <1>a, <1>b DEF ControlInv
<1>3. CASE PlanAndSubmit
  <2>1. /\ at = "plan" /\ UNCHANGED <<turn, turns, calls>>
        /\ \/ at' = "out" /\ ticket' = ticket
           \/ at' = "start" /\ ticket' = ticket + 1
    BY <1>3 DEF PlanAndSubmit
  <2>2. QED
    BY <2>1, <1>a, <1>b DEF ControlInv
<1>4. CASE Judge
  <2>1. /\ at = "judge" /\ UNCHANGED <<turns, calls, ticket>>
        /\ \/ at' = "out" /\ turn' = turn
           \/ at' = "step" /\ turn # turns /\ turn' = turn + 1
    BY <1>4 DEF Judge
  <2>2. QED
    BY <2>1, <1>a, <1>b DEF ControlInv
<1>5. CASE \/ StartSubmitted \/ BeginRun \/ Act \/ OutOfSteps \/ ObserveAfterAction
           \/ Verify \/ CompleteFromSkillRun \/ Escape
  <2>1. /\ UNCHANGED <<turn, turns, calls, ticket>>
        /\ at' = "out" \/ (at \in Submitted /\ at' \in Submitted)
    BY <1>5 DEF StartSubmitted, BeginRun, Act, OutOfSteps, ObserveAfterAction, Observe, Verify,
       CompleteFromSkillRun, Escape
  <2>2. QED
    BY <2>1, <1>a, <1>b DEF ControlInv
<1>6. CASE CallerStarts \/ CallerCancels \/ UNCHANGED vars
  <2>1. UNCHANGED <<at, turn, turns, calls, ticket>>
    BY <1>6 DEF CallerStarts, CallerCancels, vars
  <2>2. QED
    BY <2>1, <1>a, <1>b DEF ControlInv
<1>7. QED
  BY <1>1, <1>2, <1>3, <1>4, <1>5, <1>6 DEF Next, LoopStep
-----------------------------------------------------------------------------
\* The skill run of an attempt and the event it leads to: while it acts there is
\* no stop and no decisive verdict, and no event before the task is completed.
ByOf == IF stop # None THEN "stop" ELSE "verifier"

AttemptInv ==
  /\ steps \in 0..MaxSteps
  /\ verdict \in Verdicts \cup {None} /\ stop \in StopKinds \cup {None}
  /\ report \in Reports \cup {None}
  /\ at # "out" => report = None
  /\ at \in {"begin", "act", "look", "verify"} => stop = None /\ verdict \notin Decisive
  /\ at \in Running => event = None
  /\ at = "judge" /\ event # None => stop # None \/ verdict \in Decisive
  /\ at = "judge" /\ event = None => stop = None /\ verdict \notin Decisive

EventInv ==
  /\ events \in Seq(Event) /\ event \in Event \cup {None}
  /\ at = "judge" /\ event # None =>
        /\ event = [ticket |-> ticket, status |-> StatusOf, by |-> ByOf]
        /\ Len(events) \in DOMAIN events /\ events[Len(events)] = event

LEMMA AttemptStep == ControlInv /\ AttemptInv /\ [Next]_vars => AttemptInv'
<1> SUFFICES ASSUME ControlInv, AttemptInv, [Next]_vars PROVE AttemptInv'
  OBVIOUS
<1> USE BoundAssumption, NoneAssumption
    DEF AttemptInv, Points, Running, Raise, Go, Leave, callVars, taskVars, runVars,
        Decisive, Verdicts, Reports, StopKinds
<1>1. CASE CallRunBounded
  BY <1>1 DEF CallRunBounded
<1>2. CASE ObserveForPlan
  BY <1>2 DEF ObserveForPlan, Observe
<1>3. CASE PlanAndSubmit
  BY <1>3 DEF PlanAndSubmit
<1>4. CASE StartSubmitted
  BY <1>4 DEF StartSubmitted
<1>5. CASE BeginRun
  BY <1>5 DEF BeginRun
<1>6. CASE Act
  BY <1>6 DEF Act
<1>7. CASE OutOfSteps
  BY <1>7 DEF OutOfSteps
<1>8. CASE ObserveAfterAction
  BY <1>8 DEF ObserveAfterAction, Observe
<1>9. CASE Verify
  BY <1>9 DEF Verify
<1>10. CASE CompleteFromSkillRun
  BY <1>10 DEF CompleteFromSkillRun
<1>11. CASE Judge
  BY <1>11 DEF Judge
<1>12. CASE Escape \/ CallerStarts \/ CallerCancels \/ UNCHANGED vars
  BY <1>12 DEF Escape, CallerStarts, CallerCancels, vars
<1>13. QED
  BY <1>1, <1>2, <1>3, <1>4, <1>5, <1>6, <1>7, <1>8, <1>9, <1>10, <1>11, <1>12
     DEF Next, LoopStep

\* Closing a task records its event last, or fails to and has none.
LEMMA CloseRecords ==
  ASSUME events \in Seq(Event), NEW t \in Tasks, NEW status \in Terminal,
         NEW by \in {"verifier", "stop", "caller"}, Close(t, status, by)
  PROVE  /\ events' \in Seq(Event) /\ event' \in Event \cup {None}
         /\ event' # None =>
               /\ event' = [ticket |-> t, status |-> status, by |-> by]
               /\ Len(events') \in DOMAIN events' /\ events'[Len(events')] = event'
<1> DEFINE completion == [ticket |-> t, status |-> status, by |-> by]
<1>1. completion \in Event
  BY DEF Event
<1>2. \/ events' = Append(events, completion) /\ event' = completion
      \/ UNCHANGED events /\ event' = None
  BY DEF Close
<1> HIDE DEF completion
<1>3. CASE events' = Append(events, completion) /\ event' = completion
  <2>1. /\ events' \in Seq(Event) /\ Len(events') = Len(events) + 1
        /\ Len(events') \in DOMAIN events' /\ events'[Len(events')] = completion
    BY <1>1, <1>3
  <2>2. QED
    BY <1>1, <1>3, <2>1 DEF completion
<1>4. QED
  BY <1>2, <1>3

LEMMA StatusAndByTypes == StatusOf \in Terminal /\ ByOf \in {"verifier", "stop", "caller"}
BY DEF StatusOf, ByOf, Terminal

LEMMA EventStep == ControlInv /\ AttemptInv /\ EventInv /\ [Next]_vars => EventInv'
<1> SUFFICES ASSUME ControlInv, AttemptInv, EventInv, [Next]_vars PROVE EventInv'
  OBVIOUS
<1> USE DEF EventInv, Raise, Go, Leave, callVars, taskVars, runVars, worldVars
<1>1. CASE CompleteFromSkillRun
  <2>1. /\ at = "complete" /\ UNCHANGED <<ticket, stop, verdict>> /\ at' \in {"judge", "out"}
    BY <1>1 DEF CompleteFromSkillRun
  <2>2. event = None
    BY <2>1 DEF AttemptInv, Running
  <2>3. ticket \in Tasks
    <3>1. /\ ticket \in Nat /\ 1 <= turn /\ turn <= ticket /\ turn \in Nat
          /\ ticket <= Budget /\ Budget \in Nat /\ Budget <= MaxCalls * MaxTaskAttempts
      BY <2>1, BudgetGrows DEF ControlInv, Submitted
    <3>2. MaxCalls * MaxTaskAttempts \in Nat
      BY BoundAssumption
    <3>3. QED
      BY <3>1, <3>2 DEF Tasks
  <2>4. CASE Close(ticket, StatusOf, ByOf)
    <3>1. /\ events' \in Seq(Event) /\ event' \in Event \cup {None}
          /\ event' # None =>
               /\ event' = [ticket |-> ticket, status |-> StatusOf, by |-> ByOf]
               /\ Len(events') \in DOMAIN events' /\ events'[Len(events')] = event'
      BY <2>3, <2>4, CloseRecords, StatusAndByTypes
    <3>2. StatusOf' = StatusOf /\ ByOf' = ByOf
      BY <2>1 DEF StatusOf, ByOf
    <3>3. QED
      BY <2>1, <3>1, <3>2
  <2>5. CASE UNCHANGED <<events, event>>
    BY <2>2, <2>5
  <2>6. QED
    BY <1>1, <2>4, <2>5 DEF CompleteFromSkillRun, ByOf
<1>2. CASE CallerCancels
  <2>1. /\ at' = "out"
        /\ \E t \in Tasks : Close(t, "cancelled", "caller")
    BY <1>2 DEF CallerCancels
  <2>2. QED
    BY <2>1, CloseRecords DEF Terminal
<1>3. CASE StartSubmitted
  BY <1>3 DEF StartSubmitted
<1>4. CASE ~CompleteFromSkillRun /\ ~CallerCancels /\ ~StartSubmitted
  <2>1. (UNCHANGED <<events, event>> /\ at' # "judge") \/ UNCHANGED vars
    BY <1>4 DEF Next, LoopStep, ObserveForPlan, Observe, PlanAndSubmit, BeginRun, Act, OutOfSteps,
       ObserveAfterAction, Verify, Judge, Escape, CallRunBounded, CallerStarts, vars
  <2>2. QED
    BY <2>1 DEF vars, StatusOf, ByOf
<1>5. QED
  BY <1>1, <1>2, <1>3, <1>4
-----------------------------------------------------------------------------
\* Only the last submission can be open, and where an attempt is tells its phase.
PhaseInv ==
  /\ phase \in [Tasks -> Phases]
  /\ \A t \in Tasks : phase[t] = "absent" <=> t > ticket
  /\ Open \subseteq {ticket}
  /\ at = "plan" => Open = {}
  /\ at = "start" => phase[ticket] = "pending"
  /\ at \in Running => phase[ticket] = "running"
  /\ at = "judge" => phase[ticket] = IF event = None THEN "running" ELSE StatusOf

LEMMA TicketIsATask ==
  /\ ControlInv => ticket \in 0..(MaxCalls * MaxTaskAttempts)
  /\ ControlInv /\ at \in Submitted => ticket \in Tasks
  /\ ControlInv /\ at = "plan" => ticket + 1 \in Tasks
<1> SUFFICES ASSUME ControlInv
             PROVE  /\ ticket \in 0..(MaxCalls * MaxTaskAttempts)
                    /\ at \in Submitted => ticket \in Tasks
                    /\ at = "plan" => ticket + 1 \in Tasks
  OBVIOUS
<1>1. /\ ticket \in Nat /\ turn \in Nat /\ turn <= MaxTaskAttempts /\ MaxTaskAttempts \in Nat
      /\ ticket <= Budget /\ Budget \in Nat /\ Budget <= MaxCalls * MaxTaskAttempts
  BY BudgetGrows, BoundAssumption DEF ControlInv
<1>2. MaxCalls * MaxTaskAttempts \in Nat
  BY BoundAssumption
<1>3. at \in Submitted => 1 <= turn /\ turn <= ticket
  BY DEF ControlInv, Submitted
<1>4. at = "plan" => ticket + 1 + (MaxTaskAttempts - turn) <= Budget
  BY DEF ControlInv
<1>5. QED
  BY <1>1, <1>2, <1>3, <1>4 DEF Tasks

\* Whoever starts the next task, the attempt or the caller, starts the last
\* submission or nothing.
LEMMA StartShape ==
  ASSUME PhaseInv, StartNext
  PROVE  \/ UNCHANGED phase /\ ~(ticket \in Tasks /\ phase[ticket] = "pending")
         \/ /\ ticket \in Tasks /\ phase[ticket] = "pending"
            /\ phase' = [phase EXCEPT ![ticket] = "running"]
<1>1. \A t \in Tasks : phase[t] \in {"pending", "running"} => t = ticket
  BY DEF PhaseInv, Open
<1>2. CASE \E t \in Tasks : phase[t] = "running"
  BY <1>1, <1>2 DEF StartNext
<1>3. CASE ~\E t \in Tasks : phase[t] = "pending"
  BY <1>3 DEF StartNext
<1>4. CASE (\E t \in Tasks : phase[t] = "pending") /\ ~\E t \in Tasks : phase[t] = "running"
  <2>1. ticket \in Tasks /\ phase[ticket] = "pending"
    BY <1>1, <1>4
  <2>2. \A u \in 1..(ticket - 1) : phase[u] # "pending"
    <3> SUFFICES ASSUME NEW u \in 1..(ticket - 1), phase[u] = "pending" PROVE FALSE
      OBVIOUS
    <3>1. MaxCalls * MaxTaskAttempts \in Nat
      BY BoundAssumption
    <3>2. u \in Tasks /\ u # ticket
      BY <2>1, <3>1 DEF Tasks
    <3>3. QED
      BY <1>1, <3>2
  <2>3. Oldest \in Tasks /\ phase[Oldest] = "pending"
    BY <2>1, <2>2 DEF Oldest
  <2>4. Oldest = ticket
    BY <1>1, <2>3
  <2>5. phase' = [phase EXCEPT ![Oldest] = "running"]
    BY <1>4 DEF StartNext
  <2>6. QED
    BY <2>1, <2>4, <2>5
<1>5. QED
  BY <1>2, <1>3, <1>4

\* What a step does to the tasks and the sink: submit the next, start the last
\* submission, close it, or nothing.
Submits ==
  /\ PlanAndSubmit /\ at' = "start" /\ ticket' = ticket + 1
  /\ phase' = [phase EXCEPT ![ticket + 1] = "pending"]
  /\ UNCHANGED events
Starts ==
  /\ StartSubmitted \/ CallerStarts
  /\ ticket \in Tasks /\ phase[ticket] = "pending" /\ UNCHANGED <<ticket, events>>
  /\ phase' = [phase EXCEPT ![ticket] = "running"]
Closes(status, by) ==
  /\ \/ CompleteFromSkillRun /\ status = StatusOf /\ by = ByOf
     \/ CallerCancels /\ status = "cancelled" /\ by = "caller"
  /\ ticket \in Tasks /\ phase[ticket] = "running" /\ UNCHANGED ticket
  /\ Close(ticket, status, by)
LeavesTasks == UNCHANGED <<phase, ticket, events>>

LEMMA TaskShape ==
  ASSUME ControlInv, PhaseInv, [Next]_vars
  PROVE  \/ Submits \/ Starts \/ LeavesTasks
         \/ \E status \in Terminal, by \in {"verifier", "stop", "caller"} : Closes(status, by)
<1> USE DEF callVars, taskVars, runVars, worldVars
<1>1. CASE PlanAndSubmit
  BY <1>1 DEF PlanAndSubmit, Submits, LeavesTasks, Go
<1>2. CASE StartSubmitted
  BY <1>2, StartShape DEF StartSubmitted, Starts, LeavesTasks
<1>3. CASE CallerStarts
  BY <1>3, StartShape DEF CallerStarts, Starts, LeavesTasks
<1>4. CASE CompleteFromSkillRun
  <2>1. ticket \in Tasks /\ phase[ticket] = "running" /\ UNCHANGED ticket
    BY <1>4, TicketIsATask DEF CompleteFromSkillRun, PhaseInv, Running, Submitted
  <2>2. CASE Close(ticket, StatusOf, ByOf)
    BY <1>4, <2>1, <2>2, StatusAndByTypes DEF Closes
  <2>3. CASE UNCHANGED <<phase, events, event>>
    BY <2>1, <2>3 DEF LeavesTasks
  <2>4. QED
    BY <1>4, <2>2, <2>3 DEF CompleteFromSkillRun, ByOf
<1>5. CASE CallerCancels
  <2>1. UNCHANGED ticket
    BY <1>5 DEF CallerCancels
  <2>2. PICK t \in Tasks : phase[t] = "running" /\ Close(t, "cancelled", "caller")
    BY <1>5 DEF CallerCancels
  <2>3. t = ticket
    BY <2>2 DEF PhaseInv, Open
  <2>4. Closes("cancelled", "caller")
    BY <1>5, <2>1, <2>2, <2>3 DEF Closes
  <2>5. QED
    BY <2>4 DEF Terminal
<1>6. CASE \/ ObserveForPlan \/ BeginRun \/ Act \/ OutOfSteps \/ ObserveAfterAction \/ Verify
           \/ Judge \/ Escape \/ CallRunBounded \/ UNCHANGED vars
  <2>1. LeavesTasks
    BY <1>6 DEF ObserveForPlan, BeginRun, Act, OutOfSteps, ObserveAfterAction, Verify, Judge,
       Escape, CallRunBounded, LeavesTasks, vars
  <2>2. QED
    BY <2>1
<1>7. QED
  BY <1>1, <1>2, <1>3, <1>4, <1>5, <1>6 DEF Next, LoopStep
LEMMA PhaseStep ==
  ASSUME ControlInv, AttemptInv, PhaseInv, [Next]_vars
  PROVE  PhaseInv'
<1> USE DEF callVars, taskVars, runVars, worldVars
<1>0. ticket \in Nat /\ \A t \in Tasks : t \in Nat
  BY DEF ControlInv, Tasks
<1>1. CASE Submits
  <2>1. ticket + 1 \in Tasks /\ Open = {} /\ at' = "start" /\ ticket' = ticket + 1
    BY <1>1, TicketIsATask DEF Submits, PlanAndSubmit, PhaseInv
  <2>2. phase' \in [Tasks -> Phases] /\ phase'[ticket'] = "pending"
    BY <1>1, <2>1 DEF Submits, PhaseInv, Phases
  <2>3. \A t \in Tasks : phase'[t] = "absent" <=> t > ticket'
    BY <1>0, <1>1, <2>1 DEF Submits, PhaseInv
  <2>4. Open' \subseteq {ticket'}
    BY <1>1, <2>1 DEF Submits, PhaseInv, Open
  <2>5. QED
    BY <2>1, <2>2, <2>3, <2>4 DEF PhaseInv, Running
<1>2. CASE Starts
  <2>1. /\ phase' \in [Tasks -> Phases] /\ phase'[ticket'] = "running"
        /\ \A t \in Tasks : phase'[t] = "absent" <=> t > ticket'
        /\ Open' \subseteq {ticket'}
    BY <1>2 DEF Starts, PhaseInv, Phases, Open
  <2>2. at' \in {"begin", "out"}
    BY <1>2 DEF Starts, StartSubmitted, CallerStarts, Raise, Go
  <2>3. QED
    BY <2>1, <2>2 DEF PhaseInv, Running
<1>3. ASSUME NEW status \in Terminal, NEW by, Closes(status, by) PROVE PhaseInv'
  <2>1. /\ ticket \in Tasks /\ phase[ticket] = "running" /\ ticket' = ticket
        /\ phase' = [phase EXCEPT ![ticket] = status]
    BY <1>3 DEF Closes, Close
  <2>2. /\ phase' \in [Tasks -> Phases] /\ phase'[ticket'] = status
        /\ \A t \in Tasks : phase'[t] = "absent" <=> t > ticket'
        /\ Open' \subseteq {ticket'}
    BY <2>1 DEF PhaseInv, Phases, Terminal, Open
  <2>3. at' = "out" \/ (at' = "judge" /\ event' # None /\ status = StatusOf')
    <3>1. CASE CompleteFromSkillRun
      <4>1. phase' # phase
        BY <2>1 DEF PhaseInv, Terminal
      <4>2. /\ at' = "out" \/ (at' = "judge" /\ event' # None)
            /\ UNCHANGED <<stop, verdict>>
        BY <3>1, <4>1 DEF CompleteFromSkillRun, Raise, Go
      <4>3. CASE status = StatusOf
        BY <4>2, <4>3 DEF StatusOf
      <4>4. CASE CallerCancels
        BY <3>1, <4>4 DEF CallerCancels, CompleteFromSkillRun
      <4>5. QED
        BY <1>3, <4>3, <4>4 DEF Closes
    <3>2. CASE CallerCancels
      BY <3>2 DEF CallerCancels
    <3>3. QED
      BY <1>3, <3>1, <3>2 DEF Closes
  <2>4. QED
    BY <2>2, <2>3 DEF PhaseInv, Running
<1>4. CASE LeavesTasks
  <2>1. /\ phase' = phase /\ ticket' = ticket /\ Open' = Open
    BY <1>4 DEF LeavesTasks, Open
  <2>2. at' = "plan" => Open' = {}
    <3>1. at' = "plan" => ObserveForPlan \/ at' = at
      BY DEF Next, LoopStep, PlanAndSubmit, StartSubmitted, BeginRun, Act, OutOfSteps,
         ObserveAfterAction, Observe, Verify, CompleteFromSkillRun, Judge, Escape, CallRunBounded,
         CallerStarts, CallerCancels, Raise, Go, Leave, vars
    <3>2. ASSUME ObserveForPlan, at' = "plan" PROVE Open = {}
      BY <3>2 DEF ObserveForPlan, Raise
    <3>3. QED
      BY <2>1, <3>1, <3>2 DEF PhaseInv
  <2>3. at' = "start" => at = "start"
    <3>1. ~(PlanAndSubmit /\ at' = "start")
      BY <1>0, <2>1 DEF PlanAndSubmit, Raise
    <3>2. QED
      BY <3>1 DEF Next, LoopStep, ObserveForPlan, StartSubmitted, BeginRun, Act, OutOfSteps,
         ObserveAfterAction, Observe, Verify, CompleteFromSkillRun, Judge, Escape, CallRunBounded,
         CallerStarts, CallerCancels, Raise, Go, Leave, vars
  <2>4. at' \in Running => phase'[ticket'] = "running"
    <3>1. at' \in Running => at \in Running \/ StartSubmitted
      BY DEF Next, LoopStep, ObserveForPlan, PlanAndSubmit, BeginRun, Act, OutOfSteps,
         ObserveAfterAction, Observe, Verify, CompleteFromSkillRun, Judge, Escape, CallRunBounded,
         CallerStarts, CallerCancels, Raise, Go, Leave, vars, Running
    <3>2. ASSUME StartSubmitted, at' \in Running PROVE phase'[ticket] = "running"
      BY <3>2 DEF StartSubmitted, Raise, Running
    <3>3. QED
      BY <2>1, <3>1, <3>2 DEF PhaseInv
  <2>5. at' = "judge" => phase'[ticket'] = IF event' = None THEN "running" ELSE StatusOf'
    <3>1. at' = "judge" => CompleteFromSkillRun \/ UNCHANGED vars
      BY DEF Next, LoopStep, ObserveForPlan, PlanAndSubmit, StartSubmitted, BeginRun, Act,
         OutOfSteps, ObserveAfterAction, Observe, Verify, Judge, Escape, CallRunBounded,
         CallerStarts, CallerCancels, Raise, Go, Leave, vars
    <3>2. ASSUME CompleteFromSkillRun PROVE event' = None /\ phase[ticket] = "running"
      <4>1. at = "complete" /\ event = None /\ phase[ticket] = "running" /\ ticket \in Tasks
        BY <3>2, TicketIsATask DEF CompleteFromSkillRun, AttemptInv, PhaseInv, Running, Submitted
      <4>2. ~Close(ticket, StatusOf, ByOf)
        BY <2>1, <4>1, StatusAndByTypes DEF Close, PhaseInv, Terminal
      <4>3. QED
        BY <3>2, <4>1, <4>2 DEF CompleteFromSkillRun, ByOf
    <3>3. CASE UNCHANGED vars
      BY <3>3 DEF vars, PhaseInv, StatusOf
    <3>4. QED
      BY <2>1, <3>1, <3>2, <3>3
  <2>6. QED
    BY <2>1, <2>2, <2>3, <2>4, <2>5 DEF PhaseInv
<1>5. QED
  BY <1>1, <1>2, <1>3, <1>4, TaskShape

LoopInv == ControlInv /\ AttemptInv /\ EventInv /\ PhaseInv

LEMMA LoopInvHolds == Spec => []LoopInv
<1>1. Init => LoopInv
  <2> SUFFICES ASSUME Init PROVE LoopInv
    OBVIOUS
  <2>1. ControlInv
    BY BoundAssumption DEF Init, ControlInv, Points, Submitted, Budget
  <2>2. AttemptInv /\ EventInv
    BY BoundAssumption DEF Init, AttemptInv, EventInv, Running
  <2>3. \A t \in Tasks : t \in Nat /\ t > 0
    BY DEF Tasks
  <2>4. PhaseInv
    BY <2>3 DEF Init, PhaseInv, Running, Open, Phases
  <2>5. QED
    BY <2>1, <2>2, <2>4 DEF LoopInv
<1>2. LoopInv /\ [Next]_vars => LoopInv'
  BY ControlStep, AttemptStep, EventStep, PhaseStep DEF LoopInv
<1>3. QED
  BY <1>1, <1>2, PTL DEF Spec

\* Whatever an earlier call left behind, at most one submission is open, and
\* inside an attempt it is the one that attempt submitted; no call gets more than
\* its own task attempts.
THEOREM OneOpenTaskHolds == Spec => []OneOpenTask
<1>1. LoopInv => OneOpenTask
  <2> SUFFICES ASSUME LoopInv PROVE OneOpenTask
    OBVIOUS
  <2>1. Open \in SUBSET {ticket}
    BY DEF LoopInv, PhaseInv
  <2>2. IsFiniteSet({ticket}) /\ Cardinality({ticket}) = 1
    BY FS_Singleton
  <2>3. Cardinality(Open) <= 1
    BY <2>1, <2>2, FS_Subset
  <2>4. QED
    BY <2>3 DEF LoopInv, PhaseInv, ControlInv, Budget, OneOpenTask, Running
<1>2. QED
  BY <1>1, LoopInvHolds, PTL
\* What the contract sees of the sink.
Logged == {<<events[k].ticket, events[k].status>> : k \in DOMAIN events}

LEMMA ContractStep == LoopInv /\ [Next]_vars => [Contract!Next]_<<phase, Logged>>
<1> SUFFICES ASSUME LoopInv, [Next]_vars PROVE Contract!Next \/ UNCHANGED <<phase, Logged>>
  OBVIOUS
<1> USE DEF LoopInv
<1>0. Tasks = 1..(MaxCalls * MaxTaskAttempts) /\ \A t \in Tasks : t \in Nat
  BY DEF Tasks
<1>a. \A t \in Tasks : \A u \in 1..(t - 1) : u \in Tasks
  BY BoundAssumption DEF Tasks
<1>1. CASE Submits
  <2>1. ticket + 1 \in Tasks /\ ticket \in Nat
    BY <1>1, TicketIsATask DEF Submits, PlanAndSubmit, ControlInv
  <2>2. phase[ticket + 1] = "absent"
    BY <2>1 DEF PhaseInv
  <2>3. \A u \in 1..((ticket + 1) - 1) : phase[u] # "absent"
    BY <1>0, <1>a, <2>1 DEF PhaseInv
  <2>4. phase' = [phase EXCEPT ![ticket + 1] = "pending"] /\ Logged' = Logged
    BY <1>1 DEF Submits, Logged
  <2>5. Contract!Submit(ticket + 1)
    BY <2>2, <2>3, <2>4 DEF Contract!Submit, Logged
  <2>6. QED
    BY <1>0, <2>1, <2>5 DEF Contract!Next
<1>2. CASE Starts
  <2>1. /\ ticket \in Tasks /\ phase[ticket] = "pending"
        /\ phase' = [phase EXCEPT ![ticket] = "running"] /\ Logged' = Logged
    BY <1>2 DEF Starts, Logged
  <2>2. \A t \in Tasks : phase[t] \in {"pending", "running"} => t = ticket
    BY DEF PhaseInv, Open
  <2>3. \A u \in Tasks : phase[u] # "running"
    BY <2>1, <2>2
  <2>4. \A u \in 1..(ticket - 1) : phase[u] # "pending"
    <3>1. \A u \in 1..(ticket - 1) : u \in Tasks /\ u # ticket
      BY <1>0, <1>a, <2>1
    <3>2. QED
      BY <2>2, <3>1
  <2>5. Contract!Start(ticket)
    BY <1>0, <2>1, <2>3, <2>4 DEF Contract!Start, Logged
  <2>6. QED
    BY <1>0, <2>1, <2>5 DEF Contract!Next
<1>3. ASSUME NEW status \in Terminal, NEW by \in {"verifier", "stop", "caller"},
             Closes(status, by)
      PROVE  Contract!Next
  <2>1. /\ ticket \in Tasks /\ phase[ticket] = "running"
        /\ phase' = [phase EXCEPT ![ticket] = status] /\ phase'[ticket] = status
    BY <1>3 DEF Closes, Close, PhaseInv
  <2>2. Logged' = Logged \/ Logged' = Logged \cup {<<ticket, status>>}
    <3>1. CASE UNCHANGED events
      BY <3>1 DEF Logged
    <3>2. CASE events' = Append(events, [ticket |-> ticket, status |-> status, by |-> by])
      <4> DEFINE completion == [ticket |-> ticket, status |-> status, by |-> by]
      <4> DEFINE n == Len(events) + 1
      <4>1. completion \in Event /\ completion.ticket = ticket /\ completion.status = status
        BY <2>1 DEF Event
      <4>2. events' = Append(events, completion) /\ events \in Seq(Event)
        BY <3>2 DEF EventInv
      <4> HIDE DEF completion
      <4>3. /\ DOMAIN events' = DOMAIN events \cup {n} /\ events'[n] = completion
            /\ \A k \in DOMAIN events : events'[k] = events[k] /\ k # n
        BY <4>1, <4>2
      <4> HIDE DEF n
      <4>4. QED
        BY <4>1, <4>3 DEF Logged
    <3>3. QED
      BY <1>3, <3>1, <3>2 DEF Closes, Close
  <2>3. Contract!RecordGrows
    BY <1>0, <2>1, <2>2 DEF Contract!RecordGrows, Logged, Contract!Terminal, Terminal
  <2>4. Contract!Close(ticket, status)
    BY <2>1, <2>3 DEF Contract!Close
  <2>5. QED
    BY <1>0, <2>1, <2>4 DEF Contract!Next, Contract!Terminal, Terminal
<1>4. CASE LeavesTasks
  BY <1>4 DEF LeavesTasks, Logged
<1>5. QED
  BY <1>1, <1>2, <1>3, <1>4, TaskShape

\* Every step of the loop and its caller is a step of the task contract: submit
\* the next task, start it, close it with its record or without, or nothing.
THEOREM KeepsTheContractHolds == Spec => KeepsTheContract
<1>1. Init => Contract!Init
  BY DEF Init, Contract!Init, Tasks
<1>2. QED
  BY <1>1, ContractStep, LoopInvHolds, PTL DEF Spec, KeepsTheContract, Contract!Spec, Logged
-----------------------------------------------------------------------------
\* What the plans were made from.  Notes n and an attempt number t follow task i
\* when they extend what i was planned from by its outcome on record.
Follows(i, n, t) ==
  \E v \in Decisive :
     /\ n = Append(plans[i].notes, [task |-> i, verdict |-> v])
     /\ plans[i].turn = t - 1
     /\ \E k \in DOMAIN events :
           /\ events[k].ticket = i /\ events[k].by = "verifier"
           /\ events[k].status = IF v = "success" THEN "succeeded" ELSE "failed"

PlanInv ==
  /\ notes \in Seq(Note) /\ plans \in Seq(Plan) /\ Len(plans) = ticket
  /\ at \in Submitted => plans[ticket].notes = notes /\ plans[ticket].turn = turn
  /\ at \in {"step", "plan"} /\ turn > 1 => ticket \in 1..Len(plans) /\ Follows(ticket, notes, turn)
  /\ \A i \in 1..Len(plans) :
        plans[i].turn > 1 => i > 1 /\ Follows(i - 1, plans[i].notes, plans[i].turn)

CountInv == LookInv /\ seen \in Nat /\ seen <= snapshots /\ blind <= actions

LEMMA CountStep == CountInv /\ [Next]_vars => CountInv'
<1> SUFFICES ASSUME CountInv, [Next]_vars PROVE CountInv'
  OBVIOUS
<1>1. LookInv'
  BY LookStep DEF CountInv
<1>2. /\ seen' \in Nat /\ seen' <= snapshots' /\ blind' <= actions'
  BY DEF CountInv, LookInv, Next, LoopStep, ObserveForPlan, PlanAndSubmit, StartSubmitted,
     BeginRun, Act, OutOfSteps, ObserveAfterAction, Observe, Snapshot, Verify,
     CompleteFromSkillRun, Judge, Escape, CallRunBounded, CallerStarts, CallerCancels,
     worldVars, vars
<1>3. QED
  BY <1>1, <1>2 DEF CountInv

\* A task keeps what follows from it, whatever is recorded or planned after.
LEMMA FollowsStays ==
  ASSUME LoopInv, PlanInv, [Next]_vars
  PROVE  /\ UNCHANGED plans \/ (PlanAndSubmit /\ Submits)
         /\ \A i \in 1..Len(plans) : \A n, t : Follows(i, n, t) => Follows(i, n, t)'
<1>1. UNCHANGED plans \/ (PlanAndSubmit /\ Submits)
  BY DEF Next, LoopStep, ObserveForPlan, PlanAndSubmit, StartSubmitted, BeginRun, Act, OutOfSteps,
     ObserveAfterAction, Verify, CompleteFromSkillRun, Judge, Escape, CallRunBounded,
     CallerStarts, CallerCancels, taskVars, vars, Submits, Go
<1>2. /\ \A k \in DOMAIN events : k \in DOMAIN events' /\ events'[k] = events[k]
  <2>1. UNCHANGED events \/ \E e \in Event : events' = Append(events, e)
    <3>1. ASSUME NEW status \in Terminal, NEW by \in {"verifier", "stop", "caller"},
                 Closes(status, by)
          PROVE  UNCHANGED events \/ \E e \in Event : events' = Append(events, e)
      BY <3>1 DEF Closes, Close, Event
    <3>2. QED
      BY <3>1, TaskShape DEF LoopInv, Submits, Starts, LeavesTasks
  <2>2. QED
    BY <2>1 DEF LoopInv, EventInv
<1>3. \A i \in 1..Len(plans) : plans'[i] = plans[i]
  <2>1. CASE PlanAndSubmit /\ Submits
    <3> DEFINE new == [notes |-> notes, seen |-> seen, turn |-> turn]
    <3>1. plans' = Append(plans, new)
      BY <2>1 DEF PlanAndSubmit, Submits, taskVars, LoopInv, ControlInv
    <3> HIDE DEF new
    <3>2. QED
      BY <3>1 DEF PlanInv
  <2>2. QED
    BY <1>1, <2>1
<1>4. ASSUME NEW i \in 1..Len(plans), NEW n, NEW t, Follows(i, n, t) PROVE Follows(i, n, t)'
  <2>1. PICK v \in Decisive, k \in DOMAIN events :
          /\ n = Append(plans[i].notes, [task |-> i, verdict |-> v])
          /\ plans[i].turn = t - 1
          /\ events[k].ticket = i /\ events[k].by = "verifier"
          /\ events[k].status = IF v = "success" THEN "succeeded" ELSE "failed"
    BY <1>4 DEF Follows
  <2>2. plans'[i] = plans[i]
    BY <1>3
  <2>3. k \in DOMAIN events' /\ events'[k] = events[k]
    BY <1>2
  <2>4. QED
    BY <2>1, <2>2, <2>3 DEF Follows
<1>5. QED
  BY <1>1, <1>4

LEMMA PlanStep ==
  ASSUME LoopInv, CountInv, PlanInv, [Next]_vars
  PROVE  PlanInv'
<1> USE DEF callVars, taskVars, runVars, worldVars
<1>0. /\ ticket \in Nat /\ turn \in Nat /\ plans \in Seq(Plan) /\ Len(plans) = ticket
      /\ DOMAIN plans = 1..ticket
  BY DEF LoopInv, ControlInv, PlanInv
<1>1. CASE PlanAndSubmit /\ Submits
  <2> DEFINE new == [notes |-> notes, seen |-> seen, turn |-> turn]
  <2>1. /\ plans' = Append(plans, new) /\ at = "plan" /\ at' = "start" /\ ticket' = ticket + 1
        /\ UNCHANGED <<notes, turn>>
    BY <1>0, <1>1 DEF PlanAndSubmit, Submits
  <2>2. new \in Plan /\ new.notes = notes /\ new.turn = turn
    BY <1>0 DEF Plan, PlanInv, CountInv
  <2> HIDE DEF new
  <2>3. /\ plans' \in Seq(Plan) /\ Len(plans') = ticket' /\ plans'[ticket'] = new
        /\ \A i \in 1..Len(plans) : plans'[i] = plans[i]
    BY <1>0, <2>1, <2>2
  <2>4. turn > 1 => ticket \in 1..Len(plans) /\ Follows(ticket, notes, turn)
    BY <2>1 DEF PlanInv
  <2>5. ASSUME NEW i \in 1..Len(plans'), plans'[i].turn > 1
        PROVE  i > 1 /\ \A n, t : n = plans'[i].notes /\ t = plans'[i].turn => Follows(i - 1, n, t)'
    <3>1. CASE i \in 1..Len(plans)
      <4>1. i > 1 /\ Follows(i - 1, plans[i].notes, plans[i].turn) /\ plans'[i] = plans[i]
        BY <2>3, <2>5, <3>1 DEF PlanInv
      <4>2. i - 1 \in 1..Len(plans)
        BY <1>0, <3>1, <4>1
      <4>3. \A n, t : Follows(i - 1, n, t) => Follows(i - 1, n, t)'
        BY <4>2, FollowsStays
      <4>4. QED
        BY <4>1, <4>3
    <3>2. CASE i = ticket + 1
      <4>1. plans'[i] = new /\ turn > 1
        BY <2>1, <2>2, <2>3, <2>5, <3>2
      <4>2. i - 1 = ticket /\ i > 1
        BY <1>0, <2>4, <3>2, <4>1
      <4>3. i - 1 \in 1..Len(plans) /\ Follows(i - 1, notes, turn)
        BY <2>4, <4>1, <4>2
      <4>4. \A n, t : Follows(i - 1, n, t) => Follows(i - 1, n, t)'
        BY <4>3, FollowsStays
      <4>5. QED
        BY <2>2, <4>1, <4>2, <4>3, <4>4
    <3>3. QED
      BY <1>0, <2>1, <2>3, <3>1, <3>2
  <2>6. \A i \in 1..Len(plans') : plans'[i].turn > 1 =>
           i > 1 /\ Follows(i - 1, plans[i].notes, plans[i].turn)'
    BY <2>5
  <2>7. notes' \in Seq(Note)
    BY <2>1 DEF PlanInv
  <2>8. QED
    BY <2>1, <2>2, <2>3, <2>6, <2>7 DEF PlanInv, Submitted
<1>2. CASE UNCHANGED plans
  <2>0. UNCHANGED ticket
    BY <1>0, <1>2 DEF Next, LoopStep, ObserveForPlan, PlanAndSubmit, StartSubmitted, BeginRun, Act,
       OutOfSteps, ObserveAfterAction, Verify, CompleteFromSkillRun, Judge, Escape,
       CallRunBounded, CallerStarts, CallerCancels, vars
  <2>1. \A i \in 1..Len(plans') : plans'[i].turn > 1 =>
           i > 1 /\ Follows(i - 1, plans[i].notes, plans[i].turn)'
    <3> SUFFICES ASSUME NEW i \in 1..Len(plans), plans[i].turn > 1
                 PROVE  i > 1 /\ \A n, t : n = plans'[i].notes /\ t = plans'[i].turn =>
                                          Follows(i - 1, n, t)'
      BY <1>2
    <3>1. i > 1 /\ Follows(i - 1, plans[i].notes, plans[i].turn)
      BY DEF PlanInv
    <3>2. i - 1 \in 1..Len(plans)
      BY <1>0, <3>1
    <3>3. \A n, t : Follows(i - 1, n, t) => Follows(i - 1, n, t)'
      BY <3>2, FollowsStays
    <3>4. QED
      BY <1>2, <3>1, <3>3
  <2>2. ASSUME NEW i \in 1..Len(plans), NEW n, NEW t, Follows(i, n, t)
        PROVE  Follows(i, n, t)'
    BY <2>2, FollowsStays
  <2>j. ASSUME Judge PROVE notes' \in Seq(Note)
    <3> DEFINE note == [task |-> ticket, verdict |-> verdict]
    <3>1. notes \in Seq(Note)
      BY DEF PlanInv
    <3>2. UNCHANGED notes
            \/ (event # None /\ stop = None /\ at = "judge" /\ notes' = Append(notes, note))
      BY <2>j DEF Judge
    <3>3. CASE event # None /\ stop = None /\ at = "judge" /\ notes' = Append(notes, note)
      <4>1. verdict \in Decisive /\ ticket \in Tasks
        BY <3>3, TicketIsATask DEF LoopInv, AttemptInv, Submitted
      <4>2. note \in Note
        BY <4>1 DEF Note
      <4> HIDE DEF note
      <4>3. QED
        BY <3>1, <3>3, <4>2
    <3>4. QED
      BY <3>1, <3>2, <3>3
  <2>3. CASE Judge /\ at' = "step"
    <3>1. /\ at = "judge" /\ event # None /\ stop = None /\ turn' = turn + 1
          /\ notes' = Append(notes, [task |-> ticket, verdict |-> verdict])
          /\ UNCHANGED <<events, verdict>>
      BY <2>3 DEF Judge, Leave, Raise, Go
    <3>2. verdict \in Decisive
      BY <3>1 DEF LoopInv, AttemptInv
    <3>3. ticket \in Tasks /\ ticket \in 1..Len(plans)
      BY <1>0, <3>1, TicketIsATask DEF LoopInv, Submitted, Tasks
    <3>4. plans[ticket].notes = notes /\ plans[ticket].turn = turn
      BY <3>1 DEF PlanInv, Submitted
    <3>5. /\ Len(events) \in DOMAIN events
          /\ events[Len(events)] = [ticket |-> ticket, status |-> StatusOf, by |-> ByOf]
      BY <3>1 DEF LoopInv, EventInv
    <3>6. StatusOf = IF verdict = "success" THEN "succeeded" ELSE "failed"
      BY <3>1, NoneAssumption DEF StatusOf, StopKinds
    <3>7. \E k \in DOMAIN events :
             /\ events[k].ticket = ticket /\ events[k].by = "verifier"
             /\ events[k].status = IF verdict = "success" THEN "succeeded" ELSE "failed"
      BY <3>1, <3>5, <3>6 DEF ByOf
    <3>8. turn = turn' - 1
      BY <1>0, <3>1
    <3>9. \A i, n, t : i = ticket /\ n = notes' /\ t = turn' => Follows(i, n, t)
      BY <3>1, <3>2, <3>4, <3>7, <3>8 DEF Follows
    <3>10. \A i, n, t : i = ticket' /\ n = notes' /\ t = turn' => Follows(i, n, t)'
      BY <2>0, <2>2, <3>3, <3>9
    <3>12. notes' \in Seq(Note)
      BY <2>3, <2>j
    <3>13. QED
      BY <1>0, <1>2, <2>0, <2>1, <2>3, <3>3, <3>10, <3>12 DEF PlanInv, Submitted
  <2>4. CASE ~(Judge /\ at' = "step")
    <3>1. /\ Judge \/ notes' \in {<<>>, notes}
          /\ at' \in Submitted => at \in Submitted
          /\ at' # "out" => \/ turn' = 1 /\ at' = "step"
                            \/ UNCHANGED <<notes, turn>> /\ at # "out"
                               /\ (at' \in {"step", "plan"} => at \in {"step", "plan"})
      <4> USE DEF Raise, Go, Leave, Submitted
      <4>1. CASE PlanAndSubmit
        <5>1. at' = "out" /\ UNCHANGED notes
          BY <1>0, <2>0, <4>1 DEF PlanAndSubmit
        <5>2. QED
          BY <5>1
      <4>2. CASE Judge
        <5>1. at' = "out"
          BY <2>4, <4>2 DEF Judge
        <5>2. QED
          BY <4>2, <5>1
      <4>3. CASE CallRunBounded
        BY <4>3 DEF CallRunBounded
      <4>4. CASE ObserveForPlan \/ ObserveAfterAction
        BY <4>4 DEF ObserveForPlan, ObserveAfterAction, Observe
      <4>5. CASE \/ StartSubmitted \/ BeginRun \/ Act \/ OutOfSteps \/ Verify
                 \/ CompleteFromSkillRun \/ Escape
        BY <4>5 DEF StartSubmitted, BeginRun, Act, OutOfSteps, Verify, CompleteFromSkillRun, Escape
      <4>6. CASE CallerStarts \/ CallerCancels \/ UNCHANGED vars
        BY <4>6 DEF CallerStarts, CallerCancels, vars
      <4>7. QED
        BY <4>1, <4>2, <4>3, <4>4, <4>5, <4>6 DEF Next, LoopStep
    <3>2. notes' \in Seq(Note) /\ plans' \in Seq(Plan) /\ Len(plans') = ticket'
      <4>1. notes \in Seq(Note) /\ <<>> \in Seq(Note)
        BY DEF PlanInv
      <4>2. QED
        BY <1>0, <1>2, <2>0, <2>j, <3>1, <4>1
    <3>3. at' \in Submitted => plans'[ticket'].notes = notes' /\ plans'[ticket'].turn = turn'
      BY <1>2, <2>0, <3>1 DEF PlanInv, Submitted
    <3>4. ASSUME at' \in {"step", "plan"}, turn' > 1
          PROVE  /\ ticket' \in 1..Len(plans')
                 /\ \A i, n, t : i = ticket' /\ n = notes' /\ t = turn' => Follows(i, n, t)'
      <4>1. UNCHANGED <<notes, turn>> /\ at \in {"step", "plan"}
        BY <3>1, <3>4
      <4>2. ticket \in 1..Len(plans) /\ Follows(ticket, notes, turn)
        BY <3>4, <4>1 DEF PlanInv
      <4>3. QED
        BY <1>2, <2>0, <2>2, <4>1, <4>2
    <3>5. QED
      BY <2>0, <2>1, <3>2, <3>3, <3>4 DEF PlanInv
  <2>5. QED
    BY <2>3, <2>4
<1>3. QED
  BY <1>1, <1>2, FollowsStays

LEMMA PlanInvHolds == Spec => [](LoopInv /\ CountInv /\ PlanInv)
<1>1. Init => CountInv /\ PlanInv
  BY BoundAssumption DEF Init, CountInv, LookInv, PlanInv, Points, Submitted
<1>2. QED
  BY <1>1, LoopInvHolds, CountStep, PlanStep, PTL DEF Spec

\* Type correctness of the runtime, the scheduler seen from it and its counters.
THEOREM LoopTypeCorrect == Spec => []TypeOK
<1>1. LoopInv /\ CountInv /\ PlanInv => TypeOK
  <2> SUFFICES ASSUME LoopInv, CountInv, PlanInv PROVE TypeOK
    OBVIOUS
  <2>1. /\ turn \in 0..MaxTaskAttempts /\ turns \in 0..MaxTaskAttempts /\ calls \in 0..MaxCalls
        /\ snapshots \in 0..MaxSnapshotAttempts /\ actions \in 0..MaxActionAttempts
        /\ seen \in 0..snapshots /\ blind \in 0..actions
    BY BoundAssumption DEF LoopInv, ControlInv, CountInv, LookInv
  <2>2. ticket \in 0..(MaxCalls * MaxTaskAttempts)
    BY TicketIsATask DEF LoopInv
  <2>3. QED
    BY <2>1, <2>2 DEF LoopInv, ControlInv, AttemptInv, EventInv, PhaseInv, PlanInv, TypeOK
<1>2. QED
  BY <1>1, PlanInvHolds, PTL

\* The next plan of a call is made from what the last one was made from and the
\* verifier's outcome of its task, which the sink has recorded.
THEOREM PlansFollowVerdictsHolds == Spec => []PlansFollowVerdicts
<1>1. LoopInv /\ PlanInv => PlansFollowVerdicts
  <2> SUFFICES ASSUME LoopInv, PlanInv, NEW i \in DOMAIN plans, plans[i].turn > 1
               PROVE  \E v \in Decisive :
                        /\ plans[i].notes = Append(plans[i - 1].notes,
                                                   [task |-> i - 1, verdict |-> v])
                        /\ plans[i - 1].turn = plans[i].turn - 1
                        /\ \E k \in DOMAIN events :
                              /\ events[k].ticket = i - 1 /\ events[k].by = "verifier"
                              /\ events[k].status = IF v = "success" THEN "succeeded"
                                                    ELSE "failed"
    BY DEF PlansFollowVerdicts
  <2>1. i \in 1..Len(plans)
    BY DEF PlanInv
  <2>2. QED
    BY <2>1 DEF PlanInv, Follows
<1>2. QED
  BY <1>1, PlanInvHolds, PTL
-----------------------------------------------------------------------------
\* The sink holds at most one event of a task, and its phase; the tasks a call
\* has behind it were decided by the verifier.
SinkInv ==
  /\ \A k \in DOMAIN events :
        events[k].ticket \in Tasks /\ phase[events[k].ticket] = events[k].status
  /\ \A j, k \in DOMAIN events : events[j].ticket = events[k].ticket => j = k

Decided(t) == phase[t] \in {"succeeded", "failed"}

BehindInv ==
  /\ at \in {"step", "plan"} => \A t \in (ticket - turn + 2)..ticket : Decided(t)
  /\ at \in Submitted => \A t \in (ticket - turn + 1)..(ticket - 1) : Decided(t)

LEMMA ClosedStays ==
  ASSUME LoopInv, [Next]_vars, NEW t \in Tasks, phase[t] \in Terminal
  PROVE  phase'[t] = phase[t]
<1> USE DEF LoopInv
<1>1. CASE Submits
  <2>1. ticket + 1 \in Tasks /\ ticket \in Nat /\ ticket + 1 > ticket
    BY <1>1, TicketIsATask DEF Submits, PlanAndSubmit, ControlInv
  <2>2. phase[ticket + 1] = "absent"
    BY <2>1 DEF PhaseInv
  <2>3. QED
    BY <1>1, <2>2 DEF Submits, PhaseInv, Terminal
<1>2. CASE Starts
  BY <1>2 DEF Starts, PhaseInv, Terminal
<1>3. ASSUME NEW status, NEW by, Closes(status, by) PROVE phase'[t] = phase[t]
  BY <1>3 DEF Closes, Close, PhaseInv, Terminal
<1>4. CASE LeavesTasks
  BY <1>4 DEF LeavesTasks
<1>5. QED
  BY <1>1, <1>2, <1>3, <1>4, TaskShape

LEMMA SinkStep ==
  ASSUME LoopInv, SinkInv, [Next]_vars
  PROVE  SinkInv'
<1>0. events \in Seq(Event) /\ \A k \in DOMAIN events : events[k].status \in Terminal
  <2>1. events \in Seq(Event)
    BY DEF LoopInv, EventInv
  <2>2. \A k \in DOMAIN events : events[k] \in Event
    BY <2>1
  <2>3. QED
    BY <2>1, <2>2 DEF Event
<1>1. \A k \in DOMAIN events : phase'[events[k].ticket] = phase[events[k].ticket]
  BY <1>0, ClosedStays DEF SinkInv
<1>2. CASE UNCHANGED events
  BY <1>1, <1>2 DEF SinkInv
<1>3. ASSUME NEW status \in Terminal, NEW by \in {"verifier", "stop", "caller"},
             Closes(status, by), ~UNCHANGED events
      PROVE  SinkInv'
  <2> DEFINE completion == [ticket |-> ticket, status |-> status, by |-> by]
  <2> DEFINE n == Len(events) + 1
  <2>1. /\ ticket \in Tasks /\ phase[ticket] = "running" /\ phase'[ticket] = status
        /\ events' = Append(events, completion)
    BY <1>3 DEF Closes, Close, LoopInv, PhaseInv
  <2>2. completion \in Event /\ completion.ticket = ticket /\ completion.status = status
    BY <2>1 DEF Event
  <2> HIDE DEF completion
  <2>3. /\ DOMAIN events' = DOMAIN events \cup {n} /\ n \notin DOMAIN events
        /\ events'[n] = completion /\ \A k \in DOMAIN events : events'[k] = events[k]
    BY <1>0, <2>1, <2>2
  <2> HIDE DEF n
  <2>4. \A k \in DOMAIN events : events[k].ticket # ticket
    BY <1>0, <2>1 DEF SinkInv, Terminal
  <2>5. QED
    BY <1>1, <2>1, <2>2, <2>3, <2>4 DEF SinkInv
<1>4. QED
  BY <1>2, <1>3, TaskShape DEF LoopInv, Submits, Starts, LeavesTasks

LEMMA BehindStep ==
  ASSUME LoopInv, BehindInv, [Next]_vars
  PROVE  BehindInv'
<1> USE DEF callVars, taskVars, runVars, worldVars
<1>0. /\ ticket \in Nat /\ turn \in Nat
      /\ at # "out" => 1 <= turn
      /\ at \in {"step", "plan"} => turn <= ticket + 1
      /\ at \in Submitted => turn <= ticket
  BY DEF LoopInv, ControlInv
<1>1. \A t \in Nat : 1 <= t /\ t <= ticket => t \in Tasks
  <2>1. ticket <= MaxCalls * MaxTaskAttempts /\ MaxCalls * MaxTaskAttempts \in Nat
    BY TicketIsATask, BoundAssumption DEF LoopInv
  <2>2. QED
    BY <1>0, <2>1 DEF Tasks
<1>2. \A t \in Tasks : Decided(t) => phase'[t] \in {"succeeded", "failed"}
  BY ClosedStays DEF Decided, Terminal
<1>3. at \in {"step", "plan"} =>
         \A t \in (ticket - turn + 2)..ticket : phase'[t] \in {"succeeded", "failed"}
  <2>1. SUFFICES ASSUME at \in {"step", "plan"}, NEW t \in (ticket - turn + 2)..ticket
                 PROVE  phase'[t] \in {"succeeded", "failed"}
    OBVIOUS
  <2>2. t \in Nat /\ 1 <= t /\ t <= ticket
    BY <1>0, <2>1
  <2>3. QED
    BY <1>1, <1>2, <2>1, <2>2 DEF BehindInv
<1>4. at \in Submitted =>
         \A t \in (ticket - turn + 1)..(ticket - 1) : phase'[t] \in {"succeeded", "failed"}
  <2>1. SUFFICES ASSUME at \in Submitted, NEW t \in (ticket - turn + 1)..(ticket - 1)
                 PROVE  phase'[t] \in {"succeeded", "failed"}
    OBVIOUS
  <2>2. t \in Nat /\ 1 <= t /\ t <= ticket
    BY <1>0, <2>1
  <2>3. QED
    BY <1>1, <1>2, <2>1, <2>2 DEF BehindInv
<1>5. CASE CallRunBounded
  <2>1. at' = "out" \/ (at' = "step" /\ turn' = 1 /\ ticket' = ticket)
    BY <1>5 DEF CallRunBounded, Raise
  <2>2. QED
    BY <1>0, <2>1 DEF BehindInv, Submitted
<1>6. CASE PlanAndSubmit
  <2>1. at' = "out" \/ (at = "plan" /\ at' = "start" /\ turn' = turn /\ ticket' = ticket + 1)
    BY <1>6 DEF PlanAndSubmit, Raise, Go
  <2>2. QED
    BY <1>0, <1>3, <2>1 DEF BehindInv, Submitted, Decided
<1>7. CASE Judge
  <2>1. \/ at' = "out"
        \/ /\ at = "judge" /\ at' = "step" /\ turn' = turn + 1 /\ UNCHANGED <<ticket, phase>>
           /\ event # None /\ stop = None
    BY <1>7 DEF Judge, Raise, Leave, Go
  <2>2. ASSUME at = "judge", event # None, stop = None PROVE Decided(ticket)
    BY <2>2, NoneAssumption DEF Decided, LoopInv, PhaseInv, StatusOf, StopKinds
  <2>3. QED
    BY <1>0, <1>4, <2>1, <2>2 DEF BehindInv, Submitted, Decided
<1>8. CASE \/ ObserveForPlan \/ StartSubmitted \/ BeginRun \/ Act \/ OutOfSteps
           \/ ObserveAfterAction \/ Verify \/ CompleteFromSkillRun \/ Escape
           \/ CallerStarts \/ CallerCancels \/ UNCHANGED vars
  <2>1. /\ UNCHANGED <<turn, ticket>>
        /\ at' \in Submitted => at \in Submitted
        /\ at' \in {"step", "plan"} => at \in {"step", "plan"}
    BY <1>8 DEF ObserveForPlan, StartSubmitted, BeginRun, Act, OutOfSteps, ObserveAfterAction,
       Observe, Verify, CompleteFromSkillRun, Escape, CallerStarts, CallerCancels, Raise, Go,
       vars, Submitted
  <2>2. QED
    BY <1>3, <1>4, <2>1 DEF BehindInv, Decided
<1>9. QED
  BY <1>5, <1>6, <1>7, <1>8 DEF Next, LoopStep

\* A judged task has one event on record, or none while it still runs.
LEMMA JudgedEvents ==
  ASSUME LoopInv, SinkInv, at = "judge"
  PROVE  /\ event = None => EventsOf(ticket) = {} /\ phase[ticket] = "running"
         /\ event # None =>
               /\ Open = {} /\ Cardinality(EventsOf(ticket)) = 1
               /\ \A k \in EventsOf(ticket) :
                     events[k].by = ByOf /\ events[k].status = phase[ticket]
<1> USE DEF LoopInv
<1>1. ticket \in Tasks
  BY TicketIsATask DEF Submitted
<1>2. CASE event = None
  <2>1. phase[ticket] = "running"
    BY <1>2 DEF PhaseInv
  <2>2. \A k \in DOMAIN events : events[k] \in Event
    BY DEF EventInv
  <2>3. \A k \in DOMAIN events : events[k].status # "running"
    BY <2>2 DEF Event, Terminal
  <2>4. QED
    BY <1>2, <2>1, <2>3 DEF SinkInv, EventsOf
<1>3. CASE event # None
  <2>1. /\ phase[ticket] = StatusOf /\ StatusOf \in Terminal
        /\ Len(events) \in DOMAIN events
        /\ events[Len(events)] = [ticket |-> ticket, status |-> StatusOf, by |-> ByOf]
    BY <1>3, StatusAndByTypes DEF PhaseInv, EventInv
  <2>2. EventsOf(ticket) = {Len(events)}
    BY <2>1 DEF SinkInv, EventsOf
  <2>3. Open = {}
    BY <2>1 DEF PhaseInv, Open, Terminal
  <2> DEFINE last == Len(events)
  <2>4. Cardinality({last}) = 1
    BY FS_Singleton
  <2>5. \A k \in EventsOf(ticket) : events[k].by = ByOf /\ events[k].status = phase[ticket]
    BY <2>1, <2>2
  <2>6. QED
    BY <1>3, <2>2, <2>3, <2>4, <2>5
<1>4. QED
  BY <1>2, <1>3

LEMMA ReportStep ==
  ASSUME LoopInv, SinkInv, BehindInv, ReportTellsTheState, [Next]_vars
  PROVE  ReportTellsTheState'
<1> USE DEF callVars, taskVars, runVars, worldVars
<1>1. CASE Judge /\ at' = "out" /\ report' # "raised"
  <2>1. /\ at = "judge" /\ UNCHANGED <<phase, events, ticket, turns>>
        /\ \/ report' = "nonterminal" /\ event = None
           \/ report' = "manager_stop" /\ event # None /\ stop # None
           \/ report' = "budget_exhausted" /\ event # None /\ stop = None /\ turn = turns
    BY <1>1 DEF Judge, Leave, Raise, Go
  <2>2. Open' = Open /\ \A t : EventsOf(t)' = EventsOf(t)
    BY <2>1 DEF Open, EventsOf
  <2>3. report' = "nonterminal" => phase[ticket] = "running" /\ EventsOf(ticket) = {}
    BY <2>1, JudgedEvents
  <2>4. report' \in {"manager_stop", "budget_exhausted"} =>
           /\ Open = {} /\ Cardinality(EventsOf(ticket)) = 1
           /\ \A k \in EventsOf(ticket) :
                 /\ events[k].by = IF report' = "manager_stop" THEN "stop" ELSE "verifier"
                 /\ events[k].status = phase[ticket]
    BY <2>1, JudgedEvents DEF ByOf
  <2>5. report' = "budget_exhausted" =>
           \A t \in (ticket - turns + 1)..ticket : phase[t] \in {"succeeded", "failed"}
    <3>1. SUFFICES ASSUME report' = "budget_exhausted" PROVE
             \A t \in (ticket - turn + 1)..ticket : phase[t] \in {"succeeded", "failed"}
      BY <2>1
    <3>2. phase[ticket] \in {"succeeded", "failed"}
      BY <2>1, <3>1, NoneAssumption DEF LoopInv, PhaseInv, StatusOf, StopKinds
    <3>3. ticket \in Nat /\ turn \in Nat
      BY DEF LoopInv, ControlInv
    <3>4. \A t \in (ticket - turn + 1)..(ticket - 1) : phase[t] \in {"succeeded", "failed"}
      BY <2>1 DEF BehindInv, Submitted, Decided
    <3>5. QED
      BY <3>2, <3>3, <3>4
  <2>6. EventsOf(ticket)' = EventsOf(ticket)
    BY <2>1 DEF EventsOf
  <2>7. report' = "nonterminal" => stop' = None /\ verdict' \notin Decisive
    BY <1>1, <2>1, NoneAssumption DEF LoopInv, AttemptInv, Judge, Reports
  <2>8. QED
    BY <2>1, <2>2, <2>3, <2>4, <2>5, <2>6, <2>7 DEF ReportTellsTheState
<1>2. CASE report' \in {None, "raised"}
  BY <1>2, NoneAssumption DEF ReportTellsTheState, Reports
<1>3. CASE UNCHANGED vars
  <2>1. UNCHANGED <<report, phase, ticket, events, turns, stop, verdict, Open, EventsOf(ticket)>>
    BY <1>3 DEF vars, Open, EventsOf
  <2>2. QED
    BY <2>1 DEF ReportTellsTheState
<1>4. QED
  <2>1. at # "out" => report = None
    BY DEF LoopInv, AttemptInv
  <2>2. \/ Judge /\ at' = "out" /\ report' # "raised"
        \/ report' \in {None, "raised"}
        \/ UNCHANGED vars
    BY <2>1 DEF Next, LoopStep, ObserveForPlan, PlanAndSubmit, StartSubmitted, BeginRun, Act,
       OutOfSteps, ObserveAfterAction, Observe, Verify, CompleteFromSkillRun, Judge, Escape,
       CallRunBounded, CallerStarts, CallerCancels, Raise, Go, Leave
  <2>3. QED
    BY <1>1, <1>2, <1>3, <2>2

\* How a call ended tells the caller what became of its last task, and of all the
\* tasks of a call that used up its attempts.
THEOREM ReportTellsTheStateHolds == Spec => []ReportTellsTheState
<1>1. Init => SinkInv /\ BehindInv /\ ReportTellsTheState
  BY NoneAssumption DEF Init, SinkInv, BehindInv, ReportTellsTheState, Submitted, Reports
<1>2. QED
  BY <1>1, LoopInvHolds, SinkStep, BehindStep, ReportStep, PTL DEF Spec
=============================================================================
