---------------------------- MODULE SmokePipeline ------------------------------
(***************************************************************************)
(* The audit artifacts a controlled smoke run starts from, in the reports  *)
(* directory of one run: preflight report, manifest, smoke plan, no-op     *)
(* report and pipeline summary; the commands that write one of them, the   *)
(* pipeline that writes all of them stage by stage and may be killed       *)
(* between two stages, and the start of a controlled run, which reads the  *)
(* summary and the plan back. A file is None or what was last written.     *)
(***************************************************************************)
EXTENDS Integers

CONSTANTS
  Overwrites,   \* the values of --overwrite that are used
  Legacy,       \* whether a version 1 manifest may be there from the start
  None,
  MaxWrites     \* bound: manifests written

Modes == {"screen-only", "bridge-assisted", "debug"}
OfficialModes == {"screen-only", "bridge-assisted"}
Executions == {"live", "dry-run"}

DirectoryChecks == {"run_id", "run_directory_writable", "evidence_directory_writable"}
ConfiguredChecks == {"emergency_stop_required", "live_inputs_enabled"}
Errors == {"preflight_not_allowed", "manifest_not_allowed", "execution_mode_dry_run"}

\* What the files hold, and the pipeline's locals.
V1 == [version |-> 1]
Checks == [failed : SUBSET (DirectoryChecks \cup ConfiguredChecks), ok : BOOLEAN]
Manifests == [version : {2}, mode : Modes, exec : Executions, ok : BOOLEAN, by : Nat, official : BOOLEAN]
Plans == [mode : Modes, exec : Executions, errors : SUBSET Errors, ok : BOOLEAN, by : Nat, official : BOOLEAN]
Reports == [kind : {"noop", "controlled"}, official : BOOLEAN,
            blocked : SUBSET (Errors \cup {"official_run_not_allowed"})]
Summaries == [mode : Modes, exec : Executions, official : BOOLEAN, ok : BOOLEAN, of : Plans \cup {None}]
Locals == [at : {"manifest", "smoke_plan", "smoke_report", "summary"}, mode : Modes, exec : Executions,
           over : Overwrites, ok : BOOLEAN, pre : Checks \cup {None}, official : BOOLEAN,
           loaded : Plans \cup {None}]

OptionsAssumption == Overwrites \subseteq BOOLEAN /\ Legacy \in BOOLEAN /\ MaxWrites \in Nat
NoneAssumption == None \notin {V1} \cup Checks \cup Manifests \cup Plans \cup Reports \cup Summaries \cup Locals

VARIABLES
  preflight,  \* the checks that failed
  manifest, plan, report, summary,
  pipe,       \* the pipeline's locals, None when none runs
  writes      \* manifests written

vars == <<preflight, manifest, plan, report, summary, pipe, writes>>

Init ==
  /\ preflight = None /\ plan = None /\ report = None /\ summary = None
  /\ manifest \in {None} \cup IF Legacy THEN {V1} ELSE {}
  /\ pipe = None /\ writes = 0

Free(file, over) == file = None \/ over

-----------------------------------------------------------------------------
(* run_live_preflight: every check that fails is an error. Without a run id *)
(* the two directories fail as well; the configured checks stand alone. Its *)
(* report is saved by the caller.                                           *)
Preflight ==
  /\ pipe = None
  /\ \E failed \in {{}, DirectoryChecks} \cup {{c} : c \in ConfiguredChecks} :
       preflight' = [failed |-> failed, ok |-> failed = {}]
  /\ UNCHANGED <<manifest, plan, report, summary, pipe, writes>>

_official_run_allowed(mode, exec, ok) ==
  exec = "live" /\ mode \in OfficialModes /\ ok

create_live_run_manifest(mode, exec) ==
  [version |-> 2, mode |-> mode, exec |-> exec, ok |-> preflight.ok, by |-> writes + 1,
   official |-> _official_run_allowed(mode, exec, preflight.ok)]

_validation_errors_for_manifest(m) ==
  {e \in Errors :
     CASE e = "preflight_not_allowed"  -> ~m.ok
       [] e = "manifest_not_allowed"   -> ~m.official
       [] e = "execution_mode_dry_run" -> m.exec = "dry-run"}

create_live_smoke_plan(m) ==
  LET errors == _validation_errors_for_manifest(m)
  IN [mode |-> m.mode, exec |-> m.exec, errors |-> errors, ok |-> m.ok, by |-> m.by,
      official |-> m.official /\ errors = {}]

(* The gaps of severity "blocker" are the report's blocked reasons.         *)
_readiness_gaps_from_plan(p) ==
  p.errors \cup IF p.official THEN {} ELSE {"official_run_not_allowed"}

create_noop_live_smoke_report(p) ==
  [kind |-> "noop", official |-> p.official, blocked |-> _readiness_gaps_from_plan(p)]

-----------------------------------------------------------------------------
(* The commands that write one artifact.                                    *)
LiveManifest ==
  \E mode \in Modes, exec \in Executions, over \in Overwrites :
    /\ pipe = None /\ preflight # None /\ writes < MaxWrites
    /\ Free(manifest, over)
    /\ manifest' = create_live_run_manifest(mode, exec)
    /\ writes' = writes + 1
    /\ UNCHANGED <<preflight, plan, report, summary, pipe>>

LiveSmokePlanAnyVersion ==              \* mutant: a version 1 manifest drives a plan
  \E over \in Overwrites :
    /\ pipe = None /\ manifest # None
    /\ Free(plan, over)
    /\ plan' = IF manifest.version = 2 THEN create_live_smoke_plan(manifest)
               ELSE [mode |-> "screen-only", exec |-> "live", errors |-> {}, ok |-> TRUE, by |-> 0,
                     official |-> TRUE]
    /\ UNCHANGED <<preflight, manifest, report, summary, pipe, writes>>

LiveSmokePlan ==
  \E over \in Overwrites :
    /\ pipe = None /\ manifest # None
    /\ manifest.version = 2                 \* a legacy manifest is refused
    /\ Free(plan, over)
    /\ plan' = create_live_smoke_plan(manifest)
    /\ UNCHANGED <<preflight, manifest, report, summary, pipe, writes>>

LiveSmokeReport ==
  \E over \in Overwrites :
    /\ pipe = None /\ plan # None
    /\ Free(report, over)
    /\ report' = create_noop_live_smoke_report(plan)
    /\ UNCHANGED <<preflight, manifest, plan, summary, pipe, writes>>

-----------------------------------------------------------------------------
(* run_live_audit_pipeline. A stage that fails skips the ones after it; the *)
(* summary is written whatever happened.                                    *)
PipelinePreflight ==
  \E mode \in Modes, exec \in Executions, over \in Overwrites :
    /\ pipe = None /\ writes < MaxWrites
    /\ pipe' = [at |-> IF preflight = None THEN "summary" ELSE "manifest",
                mode |-> mode, exec |-> exec, over |-> over, ok |-> preflight # None,
                pre |-> preflight, official |-> FALSE, loaded |-> None]
    /\ UNCHANGED <<preflight, manifest, plan, report, summary, writes>>

Failed == pipe' = [pipe EXCEPT !.at = "summary", !.ok = FALSE]

PipelineManifest ==
  /\ pipe # None /\ pipe.at = "manifest"
  /\ IF Free(manifest, pipe.over)
     THEN /\ manifest' = create_live_run_manifest(pipe.mode, pipe.exec)
          /\ writes' = writes + 1
          /\ pipe' = [pipe EXCEPT !.at = "smoke_plan"]
     ELSE Failed /\ UNCHANGED <<manifest, writes>>
  /\ UNCHANGED <<preflight, plan, report, summary>>

PipelinePlan ==
  /\ pipe # None /\ pipe.at = "smoke_plan"
  /\ IF Free(plan, pipe.over)
     THEN /\ plan' = create_live_smoke_plan(manifest)
          /\ pipe' = [pipe EXCEPT !.at = "smoke_report", !.loaded = plan']
     ELSE Failed /\ UNCHANGED plan
  /\ UNCHANGED <<preflight, manifest, report, summary, writes>>

PipelineReport ==
  /\ pipe # None /\ pipe.at = "smoke_report"
  /\ IF Free(report, pipe.over)
     THEN /\ report' = create_noop_live_smoke_report(plan)
          /\ pipe' = [pipe EXCEPT !.at = "summary",
                        !.official = /\ pipe.pre.ok /\ manifest.official /\ plan.official
                                     /\ report'.official
                                     /\ plan.errors \cup report'.blocked = {}]
     ELSE Failed /\ UNCHANGED report
  /\ UNCHANGED <<preflight, manifest, plan, summary, writes>>

PipelineSummary ==
  /\ pipe # None /\ pipe.at = "summary"
  /\ summary' = IF Free(summary, pipe.over)
                THEN [mode |-> pipe.mode, exec |-> pipe.exec, official |-> pipe.official,
                      ok |-> pipe.ok, of |-> pipe.loaded]
                ELSE summary
  /\ pipe' = None
  /\ UNCHANGED <<preflight, manifest, plan, report, writes>>

(* The process is killed, or an OSError leaves it, between two stages.      *)
Killed ==
  /\ pipe # None
  /\ pipe' = None
  /\ UNCHANGED <<preflight, manifest, plan, report, summary, writes>>

-----------------------------------------------------------------------------
(* _load_allowed_plan: what a controlled run asks of the files.             *)
_load_allowed_plan ==
  /\ summary # None /\ plan # None
  /\ summary.official /\ plan.official
  /\ plan.mode = "screen-only" /\ plan.exec = "live"
  /\ summary.mode = plan.mode /\ summary.exec = plan.exec

(* A controlled run that reports where its plan says: refused only once it  *)
(* is over, when the report is written.                                     *)
ControlledRun ==
  \E over \in Overwrites :
    /\ pipe = None /\ _load_allowed_plan
    /\ report' = IF Free(report, over) THEN [kind |-> "controlled", official |-> TRUE, blocked |-> {}]
                 ELSE report
    /\ UNCHANGED <<preflight, manifest, plan, summary, pipe, writes>>

Pipeline == PipelineManifest \/ PipelinePlan \/ PipelineReport \/ PipelineSummary
Next == \/ Preflight \/ LiveManifest \/ LiveSmokePlan \/ LiveSmokeReport
        \/ PipelinePreflight \/ Pipeline \/ Killed \/ ControlledRun
Spec == Init /\ [][Next]_vars

-----------------------------------------------------------------------------
TypeOK ==
  /\ preflight \in Checks \cup {None} /\ manifest \in {V1} \cup Manifests \cup {None}
  /\ plan \in Plans \cup {None} /\ report \in Reports \cup {None} /\ summary \in Summaries \cup {None}
  /\ pipe \in Locals \cup {None} /\ writes \in Nat
  /\ preflight # None => preflight.ok = (preflight.failed = {})

(* Whatever was killed and rewritten in between, a plan that allows an      *)
(* official run has no validation error, is live and of an official mode,   *)
(* and comes from a preflight that passed; a summary that allows one was    *)
(* written for such a plan, with the same modes.                            *)
OfficialArtifactsAreClean ==
  /\ (plan # None /\ plan.official) =>
       plan.errors = {} /\ plan.mode \in OfficialModes /\ plan.exec = "live" /\ plan.ok
  /\ (summary # None /\ summary.official) =>
       /\ summary.ok /\ summary.of # None /\ summary.of.official
       /\ summary.of.mode = summary.mode /\ summary.of.exec = summary.exec

(* When the files allow a run, the report path its plan names is taken: the *)
(* pipeline leaves its no-op report there. Without --overwrite or another   *)
(* run directory the run is carried out and then cannot write its report.   *)
AllowedRunFindsItsPathTaken == _load_allowed_plan => report # None

(* Without --overwrite an allowed run starts from the very plan its summary *)
(* was written for, even if other pipelines failed or were killed.          *)
SummaryDescribesPlan == _load_allowed_plan => summary.of = plan

(* A version 1 manifest stays what it is until it is overwritten: nothing   *)
(* is ever derived from it.                                                 *)
LegacyDrivesNothing ==
  (manifest # None /\ manifest.version = 1) => plan = None /\ (summary = None \/ ~summary.official)

=============================================================================
