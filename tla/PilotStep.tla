------------------------------- MODULE PilotStep -------------------------------
(***************************************************************************)
(* The offline pilot step: a recorded scenario is replayed through the     *)
(* bridge's evidence check, one planned task interacts with what the first *)
(* frame shows, its inputs go to a dry-run backend, and a report tells     *)
(* what became of it.  Each frame is released when it is asked for: its    *)
(* evidence is logged, its payload added to the feed, and the bridge       *)
(* source reads one payload back.                                          *)
(***************************************************************************)
EXTENDS Integers, Sequences, FiniteSetsExt

CONSTANTS
  MaxActions, MaxObservations,  \* the hard bounds of the pilot
  MaxTimeout,  \* bound: steps a planned task may ask for
  None

PilotAssumption == {MaxActions, MaxObservations, MaxTimeout} \subseteq Nat \ {0}
Outcomes == {"rejected", "manager_stop", "replay_unverified", "replay_local_verifier_success",
             "replay_local_verifier_failure"}
NoneAssumption == None \notin Outcomes \cup Nat

VARIABLES
  frames,     \* what each recorded frame shows after the interaction
  answerOK,   \* the recorded answer of the planner survives validation and grounding
  timeout,    \* steps of the planned task
  limits,     \* the caller's budgets
  stopFile,   \* the operator's stop file exists
  pc,
  evidence,   \* screenshots in the event log, by frame
  feed, offset,  \* payloads in the feed, by frame, and how many were read
  consumed,   \* frames released
  looks, tries,  \* attempt_count of the observation and the action budget
  inputs,     \* inputs of the dry-run backend
  step,       \* the skill's step
  seen,       \* the frame the agent saw last
  outcome     \* the report's outcome, or None while the run lasts

scenario == <<frames, answerOK, timeout, limits>>
replay == <<evidence, feed, offset, consumed>>
vars == <<frames, answerOK, timeout, limits, stopFile, pc, evidence, feed, offset, consumed,
          looks, tries, inputs, step, seen, outcome>>

Shown == {"same", "outcome", "dead"}

\* load_pilot_step_scenario has refused what the sanitizer refuses.
Init ==
  /\ \E n \in 1..MaxObservations : frames \in [1..n -> Shown]
  /\ answerOK \in BOOLEAN
  /\ timeout \in 1..MaxTimeout
  /\ limits \in [actions : 1..MaxActions, observations : 1..MaxObservations]
  /\ stopFile \in BOOLEAN
  /\ pc = "plan"
  /\ evidence = <<>> /\ feed = <<>> /\ offset = 0 /\ consumed = 0
  /\ looks = 0 /\ tries = 0 /\ inputs = 0 /\ step = 0 /\ seen = None /\ outcome = None

Go(place) == pc' = place /\ UNCHANGED outcome
End(how) == pc' = "end" /\ outcome' = how

\* The operator creates the stop file.
Stop ==
  /\ ~stopFile /\ pc # "end"
  /\ stopFile' = TRUE
  /\ UNCHANGED <<scenario, pc, replay, looks, tries, inputs, step, seen, outcome>>

\* One frame is released: its evidence, its payload; then the bridge source reads the
\* next payload and accepts it if it cites the latest screenshot.
Release(next) ==
  /\ evidence' = Append(evidence, consumed + 1)
  /\ feed' = Append(feed, consumed + 1)
  /\ consumed' = consumed + 1 /\ offset' = offset + 1
  /\ IF feed'[offset + 1] = evidence'[Len(evidence')]
     THEN seen' = feed'[offset + 1] /\ Go(next)
     ELSE End("rejected") /\ UNCHANGED seen

\* A spent budget is an error; a spent recording ends the skill without a verdict.
Observe(next) ==
  IF looks = limits.observations
  THEN End("rejected") /\ UNCHANGED <<looks, replay, seen>>
  ELSE /\ looks' = looks + 1
       /\ IF consumed = Len(frames)
          THEN End("replay_unverified") /\ UNCHANGED <<replay, seen>>
          ELSE Release(next)

ObserveAndPlan ==
  /\ pc = "plan"
  /\ Observe("submit")
  /\ UNCHANGED <<scenario, stopFile, tries, inputs, step>>

\* The one recorded answer of the planner, its grounding and its submission.
Submit ==
  /\ pc = "submit"
  /\ IF answerOK THEN Go("act") ELSE End("rejected")
  /\ UNCHANGED <<scenario, stopFile, replay, looks, tries, inputs, step, seen>>

\* One step of the skill: after the last one the task has timed out; an attempt
\* past the budget is an error; the stop file blocks the input and ends the task.
Act ==
  /\ pc = "act"
  /\ IF step = timeout THEN End("manager_stop") /\ UNCHANGED <<tries, inputs, step>>
     ELSE IF tries = limits.actions THEN End("rejected") /\ UNCHANGED <<tries, inputs, step>>
     ELSE /\ tries' = tries + 1
          /\ step' = step + 1
          /\ IF stopFile THEN End("manager_stop") /\ UNCHANGED inputs
             ELSE Go("look") /\ inputs' = inputs + 1
  /\ UNCHANGED <<scenario, stopFile, replay, looks, seen>>

LookAfter ==
  /\ pc = "look"
  /\ Observe("verify")
  /\ UNCHANGED <<scenario, stopFile, tries, inputs, step>>

Verify ==
  /\ pc = "verify"
  /\ CASE frames[seen] = "dead" -> End("replay_local_verifier_failure")
       [] frames[seen] = "outcome" -> End("replay_local_verifier_success")
       [] OTHER -> Go("act")
  /\ UNCHANGED <<scenario, stopFile, replay, looks, tries, inputs, step, seen>>

Next == Stop \/ ObserveAndPlan \/ Submit \/ Act \/ LookAfter \/ Verify

Spec == Init /\ [][Next]_vars

\* run_pilot_step is called once and runs to its end.
FairSpec == Spec /\ WF_vars(ObserveAndPlan \/ Submit \/ Act \/ LookAfter \/ Verify)

\* What the report says of the run.
Report ==
  [outcome |-> outcome, observations |-> [i \in 1..consumed |-> evidence[i]],
   used |-> [observations |-> looks, actions |-> tries], dry_run |-> inputs]

-----------------------------------------------------------------------------
(* Properties.                                                              *)

\* The budgets are kept and every frame seen is one that was recorded.
TypeOK ==
  /\ looks \in 0..limits.observations /\ tries \in 0..limits.actions
  /\ inputs \in 0..tries /\ step \in 0..timeout
  /\ seen \in DOMAIN frames \cup {None}
  /\ outcome \in Outcomes \cup {None}

\* What the skill would do at step k of this scenario, were nobody to stop it.
Fate(k) ==
  IF k > timeout THEN "manager_stop"
  ELSE IF k > limits.actions \/ k + 1 > limits.observations THEN "rejected"
  ELSE IF k + 1 > Len(frames) THEN "replay_unverified"
  ELSE CASE frames[k + 1] = "dead" -> "replay_local_verifier_failure"
         [] frames[k + 1] = "outcome" -> "replay_local_verifier_success"
         [] OTHER -> "open"

\* The report depends on nothing but the scenario and the limits: without the stop
\* file the outcome is that of the first step that decides, and repeating the replay
\* repeats it.
ReplayIsReproducible ==
  outcome # None /\ ~stopFile =>
    outcome = IF ~answerOK THEN "rejected"
              ELSE LET k == Min({j \in 1..(timeout + 1) : Fate(j) # "open"}) IN Fate(k)

\* The report's figures agree with each other and with the replay: the frames it lists
\* were all seen, in their order; looks count one more only when the recording ran out;
\* every look after the first follows an input of the dry run.
BudgetsTellTheRun ==
  LET told == Report
      listed == Len(told.observations)
  IN  /\ seen = (IF listed = 0 THEN None ELSE listed)
      /\ told.observations = [i \in 1..listed |-> i] /\ feed = told.observations /\ offset = listed
      /\ \/ told.used.observations = listed
         \/ told.used.observations = listed + 1 /\ told.outcome = "replay_unverified"
      /\ told.dry_run > 0 /\ pc = "end" =>
           told.dry_run \in {told.used.observations - 1, told.used.observations}

\* A success was seen on the frame after the last input of this run, and no frame
\* between showed an outcome or a death.
SuccessFollowsAnInput ==
  outcome = "replay_local_verifier_success" =>
    /\ inputs > 0 /\ seen = inputs + 1 /\ frames[seen] = "outcome"
    /\ \A i \in 2..(seen - 1) : frames[i] = "same"

\* The run ends, whatever the recording holds.
PilotEnds == <>(outcome # None)
=============================================================================
