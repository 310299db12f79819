--------------------------- MODULE ObservationChain ----------------------------
(***************************************************************************)
(* Which observation each decision of a hierarchical task attempt rests    *)
(* on: the planner's, the skill's for each action, the verifier's pair,    *)
(* and what the persisted completion event still tells of it.  The world   *)
(* changes at any time; attempts follow one another on one source.         *)
(***************************************************************************)
EXTENDS Integers, Sequences, SequencesExt

CONSTANTS
  MaxSteps,     \* contract.max_steps
  MaxAttempts,  \* bound: attempts
  MaxChanges,   \* bound: changes of the world
  None

ChainAssumption == {MaxSteps, MaxAttempts, MaxChanges} \subseteq Nat

VARIABLES
  world,     \* version of what can be seen
  pc,        \* "idle", "plan", "start", "act", "look", "verify", "complete" or "down" after an exception
  attempt,
  planned,   \* the observation the planner was given
  primed,    \* whether the primed source still has it
  start,     \* the observation the skill started from
  latest,    \* the newest one the runner has
  inputs,    \* of this attempt: what each rested on and what the world was when it went out
  verdict,   \* the verifier's last result with the pair it compared
  stop,      \* the manager's stop
  event,     \* the completion event
  rows       \* what the database holds of the events

vars == <<world, pc, attempt, planned, primed, start, latest, inputs, verdict, stop, event, rows>>

Verdicts == {"success", "progress", "failure", "abstain"}

Init ==
  /\ world = 0 /\ pc = "idle" /\ attempt = 0
  /\ planned = None /\ primed = FALSE /\ start = None /\ latest = None
  /\ inputs = <<>> /\ verdict = None /\ stop = None /\ event = None
  /\ rows = <<>>

WorldChanges ==
  /\ world < MaxChanges
  /\ world' = world + 1
  /\ UNCHANGED <<pc, attempt, planned, primed, start, latest, inputs, verdict, stop, event, rows>>

\* plan_ground_and_submit on a fresh observation; the task is started afterwards.
Plan ==
  /\ pc = "idle" /\ attempt < MaxAttempts
  /\ attempt' = attempt + 1
  /\ planned' = world
  /\ primed' = TRUE
  /\ start' = None /\ latest' = None /\ inputs' = <<>>
  /\ verdict' = None /\ stop' = None /\ event' = None
  /\ pc' = "start"
  /\ UNCHANGED <<world, rows>>

\* PrimedObservationSource.observe: the planner's observation once, then the source.
Observed == IF primed THEN planned ELSE world

\* The runner reads its start; the skill may refuse it.
Begin ==
  /\ pc = "start"
  /\ start' = Observed /\ latest' = Observed /\ primed' = FALSE
  /\ pc' \in {"act", "complete"}
  /\ UNCHANGED <<world, attempt, planned, inputs, verdict, stop, event, rows>>

Stopped(kind) == [kind |-> kind, evidence |-> latest]

DecidesOn == latest

\* The skill's next action: not allowed, blocked or sent.
Act ==
  /\ pc = "act"
  /\ IF Len(inputs) = MaxSteps
     THEN stop' = Stopped("timeout") /\ pc' = "complete" /\ UNCHANGED inputs
     ELSE \/ /\ stop' \in {Stopped("capability_rejected"), Stopped("focus_lost"),
                           Stopped("safety_intervention")}
             /\ pc' = "complete" /\ UNCHANGED inputs
          \/ /\ inputs' = Append(inputs, [basis |-> DecidesOn, sent |-> world])
             /\ pc' = "look" /\ UNCHANGED stop
  /\ UNCHANGED <<world, attempt, planned, primed, start, latest, verdict, event, rows>>

\* The observation after the action, or an exhausted source, which ends the run without a stop.
Look ==
  /\ pc = "look"
  /\ \/ latest' = Observed /\ primed' = FALSE /\ pc' = "verify"
     \/ pc' = "complete" /\ UNCHANGED <<latest, primed>>
  /\ UNCHANGED <<world, attempt, planned, start, inputs, verdict, stop, event, rows>>

Verify ==
  /\ pc = "verify"
  /\ \E status \in Verdicts :
       /\ verdict' = [status |-> status, from |-> start, to |-> latest]
       /\ pc' = IF status \in {"success", "failure"} THEN "complete" ELSE "act"
  /\ UNCHANGED <<world, attempt, planned, primed, start, latest, inputs, stop, event, rows>>

\* complete_from_skill_run: a stop decides; else a terminal verdict; else the task stays open.
ClosingStatus ==
  IF stop # None THEN "stopped"
  ELSE IF verdict # None /\ verdict.status \in {"success", "failure"} THEN verdict.status ELSE None

Event == [attempt |-> attempt, status |-> ClosingStatus,
          verifier_result |-> IF stop = None THEN verdict ELSE None, manager_stop_result |-> stop]

\* record_task_completion: the table has no columns for the two results.
Row(e) == [attempt |-> e.attempt, status |-> e.status]

\* _event_from_row.
FromRow(row) ==
  [attempt |-> row.attempt, status |-> row.status, verifier_result |-> None, manager_stop_result |-> None]

Complete ==
  /\ pc = "complete"
  /\ IF ClosingStatus = None
     THEN pc' = "down" /\ UNCHANGED <<event, rows>>
     ELSE /\ event' = Event
          /\ rows' = Append(rows, Row(event'))
          /\ pc' = "idle"
  /\ UNCHANGED <<world, attempt, planned, primed, start, latest, inputs, verdict, stop>>

\* An exception of the source, the planner, the skill, the verifier or the executor.
Raise ==
  /\ pc \notin {"idle", "down"}
  /\ pc' = "down"
  /\ UNCHANGED <<world, attempt, planned, primed, start, latest, inputs, verdict, stop, event, rows>>

Next == \/ WorldChanges \/ Plan \/ Begin \/ Act \/ Look \/ Verify \/ Complete \/ Raise

Spec == Init /\ [][Next]_vars

--------------------------------------------------------------------------------
\* The type invariant.
TypeOK ==
  /\ world \in 0..MaxChanges /\ attempt \in 0..MaxAttempts
  /\ {planned, start, latest} \subseteq 0..MaxChanges \cup {None}
  /\ Len(inputs) <= MaxSteps
  /\ event # None => event.status \in {"success", "failure", "stopped"}
  /\ Len(rows) <= attempt

\* However long the planner took, only the first input of an attempt may rest on old news: each later
\* one was decided on an observation made after the input before it had gone out.
OnlyTheFirstActsOnOldNews ==
  \A i \in 2..Len(inputs) : inputs[i].basis >= inputs[i - 1].sent

\* A verdict compares the observation that was planned on with one made after every input of the
\* attempt, so that nothing the attempt did is left out of it; a change that came while the planner
\* was busy is part of it too.
VerdictSpansTheAttempt ==
  verdict # None =>
    /\ verdict.from = planned
    /\ \A i \in DOMAIN inputs :
         i < Len(inputs) \/ pc = "act" \/ (event # None /\ event.verifier_result # None) =>
           verdict.to >= inputs[i].sent

\* A completed task has exactly one authority: the verifier's last terminal result, or a stop, and
\* what the event says agrees with the one it names.
OneAuthority ==
  event # None =>
    /\ (event.verifier_result = None) # (event.manager_stop_result = None)
    /\ event.status = "stopped" <=> event.manager_stop_result # None
    /\ event.verifier_result # None => event.verifier_result.status = event.status

\* A completion event that was recorded reads back as it was.
ReadsBackAsRecorded == event # None => FromRow(Last(rows)) = event
================================================================================
