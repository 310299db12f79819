---------------------------- MODULE TaskContract -----------------------------
(***************************************************************************)
(* What the Manager's task lifecycle promises, with no queue, no events    *)
(* and no transactions: submissions run one at a time in the order they    *)
(* were made, a task ends once, a crash forgets the scheduler's tasks and  *)
(* the log of outcomes only grows, by outcomes tasks really had.           *)
(***************************************************************************)
EXTENDS Integers

CONSTANT Tickets    \* number of submissions considered

VARIABLES
  phase,    \* the phase of every submission
  logged    \* <<ticket, status>> pairs on record

Terminal == {"succeeded", "failed", "timed_out", "cancelled"}
Phases == {"absent", "pending", "running", "forgotten"} \cup Terminal

Init ==
  /\ phase = [t \in 1..Tickets |-> "absent"]
  /\ logged = {}

\* The record may grow in any step, but only by outcomes of closed tasks.
RecordGrows ==
  /\ logged \subseteq logged'
  /\ \A p \in logged' \ logged :
       p \in (1..Tickets) \X Terminal /\ phase'[p[1]] = p[2]

Submit(t) ==
  /\ phase[t] = "absent"
  /\ \A u \in 1..(t - 1) : phase[u] # "absent"
  /\ phase' = [phase EXCEPT ![t] = "pending"]
  /\ UNCHANGED logged

Start(t) ==
  /\ phase[t] = "pending"
  /\ \A u \in 1..Tickets : phase[u] # "running"
  /\ \A u \in 1..(t - 1) : phase[u] # "pending"
  /\ phase' = [phase EXCEPT ![t] = "running"]
  /\ UNCHANGED logged

Close(t, status) ==
  /\ phase[t] = "running"
  /\ phase' = [phase EXCEPT ![t] = status]
  /\ RecordGrows

LateRecord ==
  /\ UNCHANGED phase
  /\ RecordGrows

Crash ==
  /\ phase' = [t \in 1..Tickets |-> IF phase[t] = "absent" THEN "absent" ELSE "forgotten"]
  /\ UNCHANGED logged

Next ==
  \/ \E t \in 1..Tickets : Submit(t)
  \/ \E t \in 1..Tickets : Start(t)
  \/ \E t \in 1..Tickets, status \in Terminal : Close(t, status)
  \/ LateRecord
  \/ Crash

Spec == Init /\ [][Next]_<<phase, logged>>
=============================================================================
