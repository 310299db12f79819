---------------------------- MODULE SmokeEvidence ------------------------------
(***************************************************************************)
(* What is made of the reports of controlled smoke runs: the validation of *)
(* a report, the mechanical review of a run directory, the verdict of a    *)
(* human recorded in the review file, and the stability review of three    *)
(* runs. Each step reads files that earlier steps wrote, at whatever time, *)
(* and a run may be repeated in its directory (--overwrite). A report is   *)
(* any that ControlledLiveSmokeReport accepts; LiveSmoke has the runs.     *)
(***************************************************************************)
EXTENDS Integers, FiniteSets

CONSTANTS
  Runs,            \* run directories; their names are the run ids
  RealModes, ActModes,
  Bounds,          \* expected, smallest and largest frame counts asked for, None for none
  Supports,        \* whether the preflight report and the pipeline summary are there, and good
  RepeatRuns,      \* whether a run is repeated over its report
  REQUIRED_RUN_COUNT,   \* 3 in the code
  None,
  MaxFrames, MaxAttempts, MaxGiven   \* bounds: frames of a run, runs in one directory,
                                    \* runs given to a stability review

EvidenceAssumption ==
  /\ RealModes \subseteq {"disabled", "wait_only_noop", "single_directional_tap"}
  /\ ActModes \subseteq {"disabled", "logging", "dryrun"}
  /\ Supports \subseteq {"good", "bad", "absent"} /\ REQUIRED_RUN_COUNT \in Nat
  /\ RepeatRuns \in BOOLEAN /\ MaxFrames \in Nat /\ MaxAttempts \in Nat \ {0} /\ MaxGiven \in Nat

VARIABLES
  support,     \* per run, one of Supports
  report, validation, review,   \* files per run
  stability    \* the stability review, with the evidence it was made from

vars == <<support, report, validation, review, stability>>

Noop == [att |-> 0, real |-> "disabled", act |-> "disabled", full |-> FALSE, frames |-> 0,
         sent |-> 0, req |-> 0, same |-> TRUE]

NoneAssumption ==
  /\ None # Noop
  /\ None \notin [att : Nat, real : RealModes, act : ActModes, full : BOOLEAN, frames : Nat, sent : Nat,
                  req : Nat, same : BOOLEAN]

Init ==
  /\ support \in [Runs -> Supports]
  /\ report \in [Runs -> {None, Noop}]
  /\ validation = [r \in Runs |-> None] /\ review = [r \in Runs |-> None]
  /\ stability = None

(* The reports a run can leave: stopped in full or early, with its inputs   *)
(* sent, its actions requested, and of a tap whether the window kept its    *)
(* dimensions.                                                              *)
Reports ==
  {p \in [real : RealModes, act : ActModes, full : BOOLEAN, frames : 0..MaxFrames,
          sent : 0..MaxFrames, req : 0..MaxFrames, same : BOOLEAN] :
     /\ p.req <= p.frames /\ (p.full => p.frames > 0)
     /\ ~p.same => p.real = "single_directional_tap"
     /\ CASE p.real = "single_directional_tap" ->
               p.act = "disabled" /\ p.sent = 1 /\ p.req = 1 /\ p.frames > 1
          [] p.real = "wait_only_noop" -> p.act = "disabled" /\ p.sent > 0 /\ p.req = p.sent
          [] p.real = "disabled" ->
               /\ p.sent = 0 /\ (p.act = "dryrun" => p.req > 0)
               /\ (p.act = "disabled" => p.req = 0)}

RunSmoke(r) ==
  /\ \/ report[r] \in {None, Noop}
     \/ RepeatRuns /\ report[r] # None /\ report[r].att < MaxAttempts
  /\ \E p \in Reports :
       report' = [report EXCEPT ![r] =
         [att |-> 1 + (IF report[r] = None THEN 0 ELSE report[r].att), real |-> p.real,
          act |-> p.act, full |-> p.full, frames |-> p.frames, sent |-> p.sent,
          req |-> p.req, same |-> p.same]]
  /\ UNCHANGED <<support, validation, review, stability>>

-----------------------------------------------------------------------------
InRange(p, b) == /\ b.expected # None => p.frames = b.expected
                 /\ b.least # None => p.frames >= b.least
                 /\ b.most # None => p.frames <= b.most

(* The action and input policies of the validator.                          *)
_check_requested_actions(p) ==
  IF p.real = "disabled" /\ p.act = "disabled" THEN p.req = 0 ELSE p.req > 0

_check_actions_requested_policy(p) ==
  CASE p.real = "wait_only_noop" -> p.req > 0
    [] p.real = "single_directional_tap" -> p.req = 1
    [] p.real = "disabled" /\ p.act = "dryrun" -> p.req > 0
    [] p.real = "disabled" /\ p.act = "logging" -> TRUE
    [] p.real = "disabled" /\ p.act = "disabled" -> p.req = 0

_check_executed_actions(p) ==
  CASE p.real = "wait_only_noop" -> p.sent > 0
    [] p.real = "single_directional_tap" -> p.sent = 1
    [] p.real = "disabled" -> p.sent = 0

_check_dryrun_tasks(p) == p.act = "dryrun" => p.req > 0

_pre_post_screenshot_evidence_failures(p) == p.real = "single_directional_tap" /\ ~p.same

validate_controlled_live_smoke_artifacts(p, b) ==
  /\ p # Noop                           \* report_model_valid
  /\ p.full /\ p.frames > 0 /\ InRange(p, b)
  /\ _check_requested_actions(p) /\ _check_actions_requested_policy(p)
  /\ _check_executed_actions(p) /\ _check_dryrun_tasks(p)
  /\ ~_pre_post_screenshot_evidence_failures(p)

(* The validation is written whether it passed or not.                      *)
Validate(r) ==
  /\ report[r] # None
  /\ \E b \in Bounds :
       validation' = [validation EXCEPT ![r] =
         [passed |-> validate_controlled_live_smoke_artifacts(report[r], b),
          prepost |-> ~_pre_post_screenshot_evidence_failures(report[r]), att |-> report[r].att]]
  /\ UNCHANGED <<support, report, review, stability>>

-----------------------------------------------------------------------------
(* _failure_reasons: what the mechanical review finds wrong, mode by mode.  *)
TapReasons(p) == p.req # 1 \/ p.sent # 1 \/ _pre_post_screenshot_evidence_failures(p)
WaitReasons(p) == p.sent < 1 \/ p.req # p.sent
ObserveReasons(p) == CASE p.act = "dryrun"   -> p.req < 1
                       [] p.act = "disabled" -> p.req # 0
                       [] p.act = "logging"  -> p.req < 1

ModeReasons(p) == CASE p.real = "single_directional_tap" -> TapReasons(p)
                    [] p.real = "wait_only_noop" -> WaitReasons(p)
                    [] p.real = "disabled" -> ObserveReasons(p)

_failure_reasons(r, p, v, b) ==
  {why \in {"preflight", "validator", "frames", "range", "mode", "stop_reason"} :
     CASE why = "preflight"   -> ~(support[r] = "good" \/
                                   (support[r] = "absent" /\ p.real = "single_directional_tap" /\ p.same))
       [] why = "validator"   -> ~v.passed
       [] why = "frames"      -> p.frames < 1
       [] why = "range"       -> ~InRange(p, [b EXCEPT !.expected = None])
       [] why = "mode"        -> ModeReasons(p)
       [] why = "stop_reason" -> ~p.full}

(* create_controlled_live_smoke_review_summary: without the preflight       *)
(* report and the summary only a tap is reviewed, on its own metadata.      *)
Review(r) ==
  /\ report[r] # None /\ validation[r] # None
  /\ support[r] = "absent" => report[r].real = "single_directional_tap"
  /\ \E b \in Bounds :
       LET reasons == _failure_reasons(r, report[r], validation[r], b)
       IN review' = [review EXCEPT ![r] =
            [passed |-> reasons = {}, reasons |-> reasons, of |-> report[r],
             validated |-> validation[r].passed, checked |-> validation[r].att,
             visual |-> IF report[r].real = "single_directional_tap"
                        THEN "not_performed" ELSE "not_required",
             seen |-> None]]
  /\ UNCHANGED <<support, report, validation, stability>>

(* The human looks at the screenshots of the report that is there, and the  *)
(* verdict is written into the review that is there, whatever its mode.     *)
RecordManualReview(r) ==
  /\ review[r] # None /\ report[r] # None
  /\ \E status \in {"passed", "failed"} :
       /\ status = "passed" => review[r].passed
       /\ review' = [review EXCEPT ![r].visual = status, ![r].seen = report[r].att]
  /\ UNCHANGED <<support, report, validation, stability>>

-----------------------------------------------------------------------------
OneTap(p) == p.real = "single_directional_tap" /\ p.sent = 1 /\ p.req = 1

(* _run_summary_from_artifacts: one run of the stability review.            *)
RunPasses(p, v, w) ==
  /\ OneTap(p) /\ OneTap(w.of)
  /\ v.passed /\ w.validated
  /\ w.passed
  /\ w.of.real = "single_directional_tap" /\ w.visual = "passed"
  /\ p.same /\ v.prepost

(* _aggregate_failure_reasons.                                              *)
Aggregate(picks) ==
  /\ Cardinality(DOMAIN picks) = REQUIRED_RUN_COUNT
  /\ \A i, j \in DOMAIN picks : i # j => picks[i] # picks[j]
  /\ \A i \in DOMAIN picks : RunPasses(report[picks[i]], validation[picks[i]], review[picks[i]])

Stability ==
  \E n \in 1..MaxGiven : \E picks \in [1..n -> Runs] :
    /\ \A i \in 1..n : report[picks[i]] # None /\ validation[picks[i]] # None /\ review[picks[i]] # None
    /\ stability' = [passed |-> Aggregate(picks),
                     runs |-> {[run |-> picks[i], att |-> report[picks[i]].att, of |-> report[picks[i]],
                                valid |-> validation[picks[i]].att, reviewed |-> review[picks[i]].of.att,
                                checked |-> review[picks[i]].checked,
                                seen |-> review[picks[i]].seen] : i \in 1..n}]
    /\ UNCHANGED <<support, report, validation, review>>

Next == \/ \E r \in Runs : RunSmoke(r) \/ Validate(r) \/ Review(r) \/ RecordManualReview(r)
        \/ Stability
Spec == Init /\ [][Next]_vars

-----------------------------------------------------------------------------
TypeOK ==
  \A r \in Runs :
    /\ report[r] # None => report[r].att \in 0..MaxAttempts
    /\ review[r] # None => /\ review[r].passed = (review[r].reasons = {})
                           /\ review[r].visual \in {"not_required", "not_performed", "passed", "failed"}
                           /\ review[r].visual = "not_performed" => review[r].of.real = "single_directional_tap"

(* A human's pass only ever stands on a mechanical review that passed, even *)
(* after reviews were redone over it.                                       *)
VerdictStandsOnReview ==
  \A r \in Runs : (review[r] # None /\ review[r].visual = "passed") => review[r].passed

(* A verdict is never inherited: a review made of another report has none   *)
(* until a human records one again.                                         *)
VerdictIsNotInherited ==
  \A r \in Runs : (review[r] # None /\ review'[r] # review[r] /\ review'[r].of # review[r].of) =>
    review'[r].visual \in {"not_required", "not_performed"}

(* The validator and the review state the input policy twice. They agree: a *)
(* review that relies on a passed validation of the very report it reads,   *)
(* with its preflight in order and no range, finds nothing wrong; and one   *)
(* that passes would pass the validator.                                    *)
PoliciesAgree ==
  \A r \in Runs : (review[r] # None /\ review[r].checked = review[r].of.att) =>
    /\ (review[r].validated /\ support[r] = "good") => review[r].reasons \subseteq {"range"}
    /\ review[r].passed =>
         validate_controlled_live_smoke_artifacts(review[r].of, [expected |-> None, least |-> None, most |-> None])

(* A stability review that passes counts three different runs of one tap    *)
(* each, whatever files it was given and however often.                     *)
StabilityCountsThreeRuns ==
  (stability # None /\ stability.passed) =>
    /\ Cardinality({e.run : e \in stability.runs}) = REQUIRED_RUN_COUNT
    /\ \A e \in stability.runs : OneTap(e.of) /\ e.of.same

(* docs/manual_protocols/13_4b_artifact_workflow_handoff.md, "Validate and  *)
(* mechanically review its own artifacts before aggregation", and the       *)
(* visual review of each run: in a stability review that passes, the        *)
(* validation, the review and the human's look are of the report counted.   *)
StabilityIsOfReviewedRuns ==
  (stability # None /\ stability.passed) =>
    \A e \in stability.runs :
      e.valid = e.att /\ e.reviewed = e.att /\ e.checked = e.att /\ e.seen = e.att /\ e.of.full
=============================================================================
