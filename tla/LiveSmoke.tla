------------------------------ MODULE LiveSmoke -------------------------------
(***************************************************************************)
(* run_controlled_live_smoke: the checks before the start, the capture     *)
(* loop with its gates, counters and stop reasons, and the report made     *)
(* from them, which its own validator may refuse; then                     *)
(* validate_controlled_live_smoke_artifacts on a report that was written.  *)
(* The window focus, the stop file and the clock change between any two    *)
(* reads of the loop; every adapter but capture_frame may raise out of it. *)
(* Identities of frames and actions, messages and timestamps are left out: *)
(* a list of them is its length, or the sequence of what is told apart.    *)
(***************************************************************************)
EXTENDS Integers, Sequences, FiniteSets

CONSTANTS
  Modes,        \* <<real_input_mode, action_logging_mode # disabled, dryrun # disabled>>
  Frequencies,  \* noop_action_frequency
  FrameLimits,  \* effective_max_frames
  InputLimits,  \* max_input_count
  ActionLimits, \* the plan's max_actions, 0 for none
  RateLimit,    \* input_rate_limit_seconds
  MaxDuration,  \* the plan's max_duration_seconds
  None,
  MaxTime       \* bound: clock

Reals == {"disabled", "wait_only_noop", "single_directional_tap"}
StopReasons == {"focus_lost", "emergency_stop_triggered", "max_frames_reached",
                "max_duration_reached", "max_actions_reached", "capture_error"}
Configs == [real : Reals, log : BOOLEAN, dry : BOOLEAN, freq : Frequencies,
            frames : FrameLimits, inputs : InputLimits, actions : ActionLimits,
            taken : BOOLEAN]      \* the report's path is taken and overwrite is off
Blocks == {"focus_lost", "emergency_stop_triggered", "max_input_count_exceeded",
           "rate_limited", "not_sent"}

\* Python's None is no argument list, no stop reason and no blocked reason.
NoneAssumption == None \notin Configs \cup StopReasons \cup Blocks

LimitsAssumption == /\ Frequencies \subseteq Nat \ {0} /\ FrameLimits \subseteq Nat \ {0}
                           /\ InputLimits \subseteq Nat /\ ActionLimits \subseteq Nat
                           /\ RateLimit \in Nat /\ MaxDuration \in Nat /\ MaxTime \in Nat

VARIABLES
  pc,        \* where the run is
  cfg,       \* its arguments
  start,     \* the clock at the start
  elapsed,   \* read at the head of the loop
  focusOk,   \* what focus_check answered at the head of the loop
  frames,    \* captured frames: what each one shows, "game" or "other"
  counts,    \* the run's counters
  blocked,   \* blocked_reason of this attempt
  inputTime, lastInput,
  pre, post, \* numbers of the pre- and post-input frames
  stop,      \* stop_reason
  report,    \* the report on disk, None without one
  now, focused, stopFile,   \* world
  delivered, \* ghost: frame counts at which the game received an input
  late       \* ghost: inputs delivered and frames captured since the stop file appeared

runVars == <<cfg, start, elapsed, focusOk, frames, counts, blocked, inputTime, lastInput,
             pre, post, stop>>
worldVars == <<now, focused, stopFile>>
vars == <<pc, cfg, start, elapsed, focusOk, frames, counts, blocked, inputTime, lastInput,
          pre, post, stop, report, now, focused, stopFile, delivered, late>>

Zero == [actions |-> 0, attempts |-> 0, sent |-> 0, forbidden |-> 0, tasks |-> 0,
         focusChecks |-> 0, focusPasses |-> 0, stopChecks |-> 0, stopClears |-> 0,
         exceeded |-> FALSE]

Init ==
  /\ pc = "refused" /\ cfg = None /\ start = 0 /\ elapsed = 0 /\ focusOk = FALSE
  /\ frames = <<>> /\ counts = Zero /\ blocked = None /\ inputTime = 0 /\ lastInput = None
  /\ pre = {} /\ post = {} /\ stop = None /\ report = None
  /\ now = 0 /\ focused \in BOOLEAN /\ stopFile \in BOOLEAN
  /\ delivered = <<>> /\ late = [inputs |-> 0, frames |-> 0]

-----------------------------------------------------------------------------
(* The argument checks.                                                     *)
Accepted(c) ==
  /\ <<c.real, c.log, c.dry>> \in Modes
  /\ ~(c.log /\ c.dry)
  /\ c.real # "disabled" => ~c.log /\ ~c.dry
  /\ c.real = "wait_only_noop" => c.inputs >= 1
  /\ c.real = "single_directional_tap" => c.inputs = 1 /\ c.frames >= 2

(* Focus, availability of the stop and the stop itself are checked once     *)
(* before anything is captured.                                             *)
Start ==
  /\ pc = "refused" /\ focused /\ ~stopFile
  /\ \E c \in Configs : Accepted(c) /\ cfg' = c
  /\ start' = now
  /\ pc' = "head"
  /\ UNCHANGED <<elapsed, focusOk, frames, counts, blocked, inputTime, lastInput, pre, post,
                 stop, report, worldVars, delivered, late>>

Goto(where) == pc' = where /\ UNCHANGED <<report, worldVars>>
Quiet == UNCHANGED <<delivered, late>>

(* The head of the loop reads the clock, then the focus, then the stop.     *)
ReadClock ==
  /\ pc = "head"
  /\ elapsed' = now - start
  /\ Goto("head_focus") /\ Quiet
  /\ UNCHANGED <<cfg, start, focusOk, frames, counts, blocked, inputTime, lastInput, pre, post, stop>>

ReadFocus ==
  /\ pc = "head_focus"
  /\ focusOk' = focused
  /\ Goto("head_stop") /\ Quiet
  /\ UNCHANGED <<cfg, start, elapsed, frames, counts, blocked, inputTime, lastInput, pre, post, stop>>

_pre_capture_stop_reason(emergency) ==
  IF ~focusOk THEN "focus_lost"
  ELSE IF emergency THEN "emergency_stop_triggered"
  ELSE IF elapsed >= MaxDuration THEN "max_duration_reached"
  ELSE IF Len(frames) >= cfg.frames THEN "max_frames_reached"
  ELSE IF cfg.actions > 0 /\ counts.actions >= cfg.actions THEN "max_actions_reached"
  ELSE None

ReadStop ==
  /\ pc = "head_stop"
  /\ LET reason == _pre_capture_stop_reason(stopFile)
     IN /\ stop' = reason
        /\ Goto(IF reason = None THEN "capture" ELSE "report")
  /\ Quiet
  /\ UNCHANGED <<cfg, start, elapsed, focusOk, frames, counts, blocked, inputTime, lastInput, pre, post>>

-----------------------------------------------------------------------------
Every(n) == n % cfg.freq = 0
Attempts(n) == \/ cfg.real = "wait_only_noop" /\ Every(n)
               \/ cfg.real = "single_directional_tap" /\ n = 1 /\ counts.attempts = 0

(* A frame of the active window, and the intents that are logged only.      *)
Capture ==
  /\ pc = "capture"
  /\ LET n == Len(frames) + 1
         tap == cfg.real = "single_directional_tap"
         intent == IF (cfg.log \/ cfg.dry) /\ Every(n) THEN 1 ELSE 0
     IN /\ frames' = Append(frames, IF focused THEN "game" ELSE "other")
        /\ pre' = IF tap /\ counts.attempts = 0 THEN pre \cup {n} ELSE pre
        /\ post' = IF tap /\ counts.sent = 1 THEN post \cup {n} ELSE post
        /\ counts' = [counts EXCEPT !.actions = @ + intent,
                                    !.tasks = @ + (IF cfg.dry THEN intent ELSE 0)]
        /\ Goto(IF Attempts(n) THEN "gate_focus" ELSE "tail")
  /\ late' = IF stopFile THEN [late EXCEPT !.frames = @ + 1] ELSE late
  /\ UNCHANGED <<cfg, start, elapsed, focusOk, blocked, inputTime, lastInput, stop, delivered>>

(* The one exception that is caught.                                        *)
CaptureFails ==
  /\ pc = "capture"
  /\ stop' = "capture_error"
  /\ Goto("report") /\ Quiet
  /\ UNCHANGED <<cfg, start, elapsed, focusOk, frames, counts, blocked, inputTime, lastInput, pre, post>>

(* The gate of an input: focus, stop, then clock, budget and rate.          *)
GateFocus ==
  /\ pc = "gate_focus"
  /\ counts' = [counts EXCEPT !.attempts = @ + 1, !.actions = @ + 1, !.focusChecks = @ + 1,
                              !.focusPasses = @ + (IF focused THEN 1 ELSE 0)]
  /\ blocked' = IF focused THEN None ELSE "focus_lost"
  /\ Goto("gate_stop") /\ Quiet
  /\ UNCHANGED <<cfg, start, elapsed, focusOk, frames, inputTime, lastInput, pre, post, stop>>

GateStop ==
  /\ pc = "gate_stop"
  /\ counts' = [counts EXCEPT !.stopChecks = @ + 1, !.stopClears = @ + (IF stopFile THEN 0 ELSE 1)]
  /\ blocked' = IF blocked = None /\ stopFile THEN "emergency_stop_triggered" ELSE blocked
  /\ Goto("gate_budget") /\ Quiet
  /\ UNCHANGED <<cfg, start, elapsed, focusOk, frames, inputTime, lastInput, pre, post, stop>>

OverBudget == counts.attempts > cfg.inputs

GateBudget ==
  /\ pc = "gate_budget"
  /\ LET over == blocked = None /\ OverBudget
         hasty == /\ blocked = None /\ ~over /\ cfg.real = "wait_only_noop"
                  /\ lastInput # None /\ now - lastInput < RateLimit
         why == IF over THEN "max_input_count_exceeded" ELSE IF hasty THEN "rate_limited" ELSE blocked
     IN /\ blocked' = why
        /\ counts' = [counts EXCEPT !.exceeded = @ \/ over,
                                    !.forbidden = @ + (IF why = None THEN 0 ELSE 1)]
        /\ stop' = CASE why = None -> stop
                     [] why \in {"focus_lost", "emergency_stop_triggered"} -> why
                     [] OTHER -> "max_actions_reached"
        /\ Goto(IF why = None THEN "send" ELSE "report")
  /\ inputTime' = now
  /\ Quiet
  /\ UNCHANGED <<cfg, start, elapsed, focusOk, frames, lastInput, pre, post>>

(* The sender answers whether the game was given the input.                 *)
Send ==
  /\ pc = "send"
  /\ counts' = [counts EXCEPT !.sent = @ + 1]
  /\ lastInput' = IF cfg.real = "wait_only_noop" THEN inputTime ELSE now
  /\ delivered' = Append(delivered, Len(frames))
  /\ late' = IF stopFile THEN [late EXCEPT !.inputs = @ + 1] ELSE late
  /\ Goto("tail")
  /\ UNCHANGED <<cfg, start, elapsed, focusOk, frames, blocked, inputTime, pre, post, stop>>

NotSent ==
  /\ pc = "send"
  /\ counts' = [counts EXCEPT !.forbidden = @ + 1]
  /\ blocked' = "not_sent" /\ stop' = "max_actions_reached"
  /\ Goto("report") /\ Quiet
  /\ UNCHANGED <<cfg, start, elapsed, focusOk, frames, inputTime, lastInput, pre, post>>

LoopTail ==
  /\ pc = "tail"
  /\ stop' = IF Len(frames) >= cfg.frames THEN "max_frames_reached"
             ELSE IF now - start >= MaxDuration THEN "max_duration_reached" ELSE None
  /\ Goto(IF stop' = None THEN "head" ELSE "report")
  /\ Quiet
  /\ UNCHANGED <<cfg, start, elapsed, focusOk, frames, counts, blocked, inputTime, lastInput, pre, post>>

-----------------------------------------------------------------------------
Draft == [cfg |-> cfg, stop |-> stop, frames |-> frames, counts |-> counts, pre |-> pre, post |-> post]

(* ControlledLiveSmokeReport.report_must_not_claim_autonomy.                *)
Reportable(r) ==
  /\ r.cfg.real = "disabled" => r.counts.sent = 0
  /\ r.cfg.real = "wait_only_noop" =>
       /\ r.cfg.inputs > 0 /\ ~r.counts.exceeded
       /\ r.counts.sent > 0 /\ r.counts.forbidden = 0
       /\ r.counts.focusChecks >= r.counts.sent /\ r.counts.stopChecks >= r.counts.sent
  /\ r.cfg.real = "single_directional_tap" =>
       /\ r.cfg.inputs = 1 /\ ~r.counts.exceeded
       /\ r.counts.sent = 1 /\ r.counts.forbidden = 0
       /\ r.counts.focusChecks = 1 /\ r.counts.focusPasses = 1
       /\ r.counts.stopChecks = 1 /\ r.counts.stopClears = 1
       /\ r.pre # {} /\ r.post # {}
  /\ r.cfg.dry => r.counts.tasks > 0
  /\ ~r.cfg.dry => r.counts.tasks = 0

(* Building the report raises when it is not reportable, writing it when    *)
(* its path is taken.                                                       *)
WriteReport ==
  /\ pc = "report"
  /\ IF Reportable(Draft) /\ ~cfg.taken
     THEN report' = Draft /\ pc' = "returned"
     ELSE pc' = "raised" /\ UNCHANGED report
  /\ UNCHANGED <<runVars, worldVars, delivered, late>>

(* An exception of a check, a sender (before or after the game was given    *)
(* the input) or log_event.                                                 *)
Escape ==
  /\ pc \notin {"refused", "capture", "raised", "returned"}
  /\ pc' = "raised"
  /\ delivered' \in IF pc = "send" THEN {delivered, Append(delivered, Len(frames))} ELSE {delivered}
  /\ UNCHANGED <<runVars, report, worldVars, late>>

Runner == \/ ReadClock \/ ReadFocus \/ ReadStop \/ Capture \/ CaptureFails
          \/ GateFocus \/ GateStop \/ GateBudget \/ Send \/ NotSent \/ LoopTail
          \/ WriteReport

Running == pc \notin {"refused", "raised", "returned"}
Tick == Running /\ now < MaxTime /\ now' = now + 1 /\ UNCHANGED <<focused, stopFile>>
Blur == Running /\ focused' = ~focused /\ UNCHANGED <<now, stopFile>>
TouchStop == Running /\ ~stopFile /\ stopFile' = TRUE /\ UNCHANGED <<now, focused>>
World == (Tick \/ Blur \/ TouchStop) /\ UNCHANGED <<pc, runVars, report, delivered, late>>

Next == Start \/ Runner \/ Escape \/ World
Spec == Init /\ [][Next]_vars
FairSpec == Spec /\ WF_vars(Runner)

-----------------------------------------------------------------------------
(* validate_controlled_live_smoke_artifacts, on a report that was written,  *)
(* with the frame files in place and the active-window capture script.      *)
Validates(r) ==
  LET c == r.counts IN
  /\ r.stop = "max_frames_reached" /\ r.frames # <<>>
  /\ (r.cfg.log \/ r.cfg.dry) => c.actions > 0
  /\ (r.cfg.real = "disabled" /\ ~r.cfg.log /\ ~r.cfg.dry) => c.actions = 0
  /\ r.cfg.real # "disabled" =>
       /\ c.sent > 0 /\ c.forbidden = 0 /\ ~c.exceeded /\ c.actions = c.sent
       /\ c.focusPasses >= c.sent /\ c.stopClears >= c.sent
  /\ r.cfg.real = "single_directional_tap" =>
       /\ c.sent = 1 /\ c.focusChecks = 1 /\ c.stopChecks = 1
       /\ r.pre # {} /\ r.post # {}
       /\ {r.frames[i] : i \in r.pre} = {r.frames[i] : i \in r.post}

-----------------------------------------------------------------------------
TypeOK ==
  /\ cfg \in Configs \cup {None} /\ stop \in StopReasons \cup {None}
  /\ Len(frames) <= IF cfg = None THEN 0 ELSE cfg.frames
  /\ counts.sent <= counts.attempts /\ counts.attempts <= counts.actions
  /\ blocked \in Blocks \cup {None}

(* No game receives more inputs than max_input_count, no run asks for more  *)
(* actions than its plan allows, and each input was preceded by a focus     *)
(* check that passed and a stop check that was clear, whatever the world    *)
(* does between them and however the run ends.                              *)
WithinLimits ==
  cfg # None =>
    /\ Len(delivered) <= cfg.inputs \/ cfg.real = "disabled"
    /\ cfg.real = "disabled" => delivered = <<>>
    /\ cfg.actions > 0 => counts.actions <= cfg.actions
    /\ Len(delivered) <= counts.focusPasses /\ Len(delivered) <= counts.stopClears

(* A stop file that appears between a check and the send lets one input     *)
(* through and one frame be captured, never a second of either.             *)
StopIsHeeded == late.inputs <= 1 /\ late.frames <= 1

(* A report on disk tells every input the game received, and of a tap the   *)
(* frames before it and after it.                                           *)
ReportTellsTheInputs ==
  report # None =>
    /\ report.counts.sent = Len(delivered) /\ report.counts.forbidden = 0
    /\ report.cfg.real = "single_directional_tap" =>
         /\ delivered = <<1>> /\ report.pre = {1}
         /\ report.post = 2..Len(report.frames) /\ report.post # {}

(* A run whose report validates captured all its frames, was never blocked, *)
(* and of a tap shows the same window before and after the input.           *)
ValidatedRunsAreClean ==
  (report # None /\ Validates(report)) =>
    /\ Len(report.frames) = cfg.frames /\ blocked = None
    /\ cfg.real = "single_directional_tap" =>
         \A i \in report.pre, j \in report.post : report.frames[i] = report.frames[j]

(* The runner's report and the validator agree: a run that reaches its      *)
(* frame limit and gets a report validates, unless the window of a tap      *)
(* changed or logging was asked for and no frame was due.                   *)
FullRunsValidate ==
  (report # None /\ report.stop = "max_frames_reached") =>
    \/ Validates(report)
    \/ cfg.log /\ cfg.frames < cfg.freq
    \/ cfg.real = "single_directional_tap" /\ Cardinality({frames[i] : i \in DOMAIN frames}) > 1

(* An observation-only run that ends without an exception leaves a report,  *)
(* whatever stopped it, when its path is free.                              *)
ObservationIsReported ==
  (pc = "report" /\ cfg.real = "disabled" /\ ~cfg.dry) => Reportable(Draft)

(* README.md, "A controlled run verifies assumptions such as: evidence and  *)
(* reports are written to the expected locations": a run that ends without  *)
(* an exception of an adapter, its path free, has written its report.       *)
EveryEndIsReported ==
  (pc = "report" /\ delivered # <<>> /\ ~cfg.taken) => Reportable(Draft)

(* A run ends, by its frame limit at the latest, even if the clock stands   *)
(* still: the loop waits for nothing.                                       *)
RunEnds == pc = "head" ~> pc \in {"raised", "returned"}
=============================================================================
