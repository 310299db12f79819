----------------------------- MODULE PlanAndGround -----------------------------
(***************************************************************************)
(* From an observation to an executable task and back: the Cortex plans    *)
(* from an evidence-gated context, the grounding service looks for the one *)
(* visible target, the Manager turns plan and target into a task, the      *)
(* executor binds a skill and a verifier to it, and the verdict becomes a  *)
(* note the next plan may cite.                                            *)
(*                                                                         *)
(* Evidence identifiers are what the four parts pass on, merge and compare;*)
(* an observation is the evidence it carries and the sprites on it.  The   *)
(* language model answers whatever it likes.  Texts are abstracted to      *)
(* whether they name a control ("control") or a hidden-state term ("hidden")*)
(* and confidences to below or above the grounding policy's threshold.     *)
(***************************************************************************)
EXTENDS Integers, Sequences, FiniteSets

CONSTANTS
  Evidence,      \* evidence identifiers
  Capabilities,  \* skills the Manager's runtime can execute
  MaxSprites,    \* bound: visible sprites of an observation
  None

RuntimeSkills == {"basic_reach_target", "continue_dialogue", "interact_visible_object"}
UniversalSkills == RuntimeSkills \cup {"interact_visible", "safe_reach_target"}

CapabilityAssumption == Capabilities \subseteq UniversalSkills /\ MaxSprites \in Nat

TargetErrors == {"unsupported_skill_target_contract", "unexpected_grounding", "missing_grounding",
                 "grounding_failed", "incompatible_target_type"}
NoneAssumption ==
  None \notin TargetErrors \cup {"targetless", "visible_screen_point", "visible_object"}

Requirement(skill) ==
  CASE skill = "continue_dialogue" -> "targetless"
    [] skill = "basic_reach_target" -> "visible_screen_point"
    [] skill = "interact_visible_object" -> "visible_object"
    [] OTHER -> None

Texts == {"clean", "control", "hidden"}
Sprite == [onScreen : BOOLEAN, confidence : {"none", "low", "high"}, evidence : Evidence]
Observation == [evidence : SUBSET Evidence, text : Texts,
                sprites : UNION {[1..n -> Sprite] : n \in 0..MaxSprites}]
Plan == [skill : UniversalSkills, cites : SUBSET Evidence, text : Texts]
Reasons == {"unsupported_target_type", "insufficient_evidence", "stale_evidence",
            "no_visible_candidate", "insufficient_confidence", "ambiguous_candidates"}

VARIABLES
  at,      \* what the attempt does next
  seen,    \* the planning observation
  known,   \* evidence of the notes in the memory summary
  plan,    \* the Cortex's answer
  ground,  \* the grounding result
  task,    \* the task the Manager accepted
  error,   \* why the last attempt ended without a verdict
  shown    \* ghost: evidence any observation has shown, now or in an earlier run

vars == <<at, seen, known, plan, ground, task, error, shown>>

NothingSeen == [evidence |-> {}, text |-> "clean", sprites |-> <<>>]

Init ==
  /\ at = "observe" /\ seen = NothingSeen
  /\ known \in SUBSET Evidence
  /\ plan = None /\ ground = None /\ task = None /\ error = None
  /\ shown = known

SpriteEvidence(observation) == {observation.sprites[i].evidence : i \in DOMAIN observation.sprites}

\* The attempt is over: its records belong to the caller, who looks again.
Return(why) ==
  /\ at' = "observe" /\ error' = why
  /\ seen' = NothingSeen /\ plan' = None /\ ground' = None /\ task' = None

GoOn(next) == at' = next /\ UNCHANGED <<seen, error>>

-----------------------------------------------------------------------------
(* Planning.                                                                *)

Observe ==
  /\ at = "observe"
  /\ seen' \in Observation
  /\ shown' = shown \cup seen'.evidence \cup SpriteEvidence(seen')
  /\ at' = "plan" /\ error' = None
  /\ UNCHANGED <<known, plan, ground, task>>

\* _context_evidence_ids: the observation's own evidence and that of the notes.
ContextEvidence == seen.evidence \cup known

\* Skills the Manager has and the Cortex does not know of are refused before the
\* model is asked; so is a context whose texts name controls or hidden state.
ContextIsRefused == Capabilities \ RuntimeSkills # {} \/ seen.text # "clean"

\* Cortex.plan_next_goal: the model may fail, answer nonsense or a plan with direct
\* controls; a plan that cites evidence outside its context, or selects a skill
\* outside it, is refused.  Hidden-state terms pass until the Manager reads them.
PlanNextGoal ==
  /\ at = "plan"
  /\ UNCHANGED <<known, shown>>
  /\ \/ ContextIsRefused /\ Return("context")
     \/ ~ContextIsRefused /\ Return("answer")
     \/ /\ ~ContextIsRefused
        /\ \E answer \in Plan :
              /\ answer.text # "control"
              /\ answer.cites \subseteq ContextEvidence
              /\ answer.skill \in Capabilities
              /\ plan' = answer /\ GoOn("ground") /\ UNCHANGED <<ground, task>>

-----------------------------------------------------------------------------
(* Grounding.                                                               *)

Failure(reason, evidence) ==
  [status |-> "grounding_failed", reason |-> reason, type |-> None, sprite |-> 0,
   evidence |-> evidence]

\* One confident candidate is a target; none, or more than one, is a failure.
OnlyOneOf(confident, requirement, scope, audit) ==
  IF confident = {} THEN Failure("insufficient_confidence", audit)
  ELSE IF Cardinality(confident) > 1 THEN Failure("ambiguous_candidates", audit)
  ELSE [status |-> "grounded", reason |-> None, type |-> requirement,
        sprite |-> CHOOSE i \in confident : TRUE,
        evidence |-> scope \cup audit]

\* BoundedObservationGroundingService.ground: evidence is checked before sprites,
\* and every answer names the evidence that was looked at.
GroundIn(skill, scope, observation) ==
  LET requirement == Requirement(skill)
      own == observation.evidence \cup SpriteEvidence(observation)
      audit == scope \cup own
      candidates == {i \in DOMAIN observation.sprites : observation.sprites[i].onScreen}
      confident == {i \in candidates : observation.sprites[i].confidence = "high"}
  IN  IF requirement \in {None, "targetless"} THEN Failure("unsupported_target_type", audit)
      ELSE IF own = {} \/ scope = {} THEN Failure("insufficient_evidence", audit)
      ELSE IF ~(scope \subseteq own) THEN Failure("stale_evidence", audit)
      ELSE IF candidates = {} THEN Failure("no_visible_candidate", audit)
      ELSE OnlyOneOf(confident, requirement, scope, audit)

\* build_grounding_request and ground: a targetless skill is not grounded, and the
\* scope of a request is the evidence of the observation the plan was made from.
Ground ==
  /\ at = "ground"
  /\ ground' = IF Requirement(plan.skill) = "targetless" THEN None
               ELSE GroundIn(plan.skill, seen.evidence, seen)
  /\ GoOn("submit")
  /\ UNCHANGED <<known, plan, task, shown>>

-----------------------------------------------------------------------------
(* The Manager.                                                             *)

\* TaskManager._validated_target: None when the pair may pass.
TargetError ==
  LET requirement == Requirement(plan.skill)
  IN  IF requirement = None THEN "unsupported_skill_target_contract"
      ELSE IF requirement = "targetless" THEN IF ground = None THEN None ELSE "unexpected_grounding"
      ELSE IF ground = None THEN "missing_grounding"
      ELSE IF ground.status = "grounding_failed" THEN "grounding_failed"
      ELSE IF ground.type # requirement THEN "incompatible_target_type"
      ELSE None

\* _source_evidence_ids: what the plan cites and what the target rests on.
SourceEvidence == plan.cites \cup (IF ground = None THEN {} ELSE ground.evidence)

\* create_task_from_planner_output and enqueue: the task is queued last, so a
\* refusal queues nothing.
Submit ==
  /\ at = "submit"
  /\ UNCHANGED <<known, shown>>
  /\ IF plan.text # "clean" THEN Return("unsafe_payload")
     ELSE IF plan.skill \notin Capabilities THEN Return("unavailable_skill")
     ELSE IF TargetError # None THEN Return(TargetError)
     ELSE /\ task' = [skill |-> plan.skill, text |-> plan.text, sources |-> SourceEvidence,
                     type |-> IF ground = None THEN None ELSE ground.type]
          /\ GoOn("execute") /\ UNCHANGED <<plan, ground>>

-----------------------------------------------------------------------------
(* Execution and replanning.                                                *)

\* SkillCatalog.get and VerifierCatalog.for_task insist on the type of the target.
SkillBinds(skill, type) ==
  CASE skill = "continue_dialogue" -> TRUE
    [] skill = "basic_reach_target" -> type = "visible_screen_point"
    [] skill = "interact_visible_object" -> type = "visible_object"
    [] OTHER -> FALSE
VerifierBinds(skill, type) ==
  CASE skill = "continue_dialogue" -> type = None
    [] skill = "basic_reach_target" -> type = "visible_screen_point"
    [] skill = "interact_visible_object" -> type = "visible_object"
    [] OTHER -> FALSE

\* The three verifiers: a verdict needs evidence on the observation after the
\* action, and cites it with what came before and what the target rests on.
VerdictEvidence(verdict, before, after) ==
  IF verdict = "death" THEN after
  ELSE IF task.skill = "continue_dialogue" THEN before \cup after
  ELSE IF task.skill = "basic_reach_target" THEN ground.evidence \cup after
  ELSE ground.evidence \cup before \cup after

\* build_replan_memory_summary: the note cites what the verdict cites.
Learn(verdict, after) == known' = known \cup VerdictEvidence(verdict, seen.evidence, after)

\* execute_current_task, one action: the skill acts on the planning observation,
\* the verifier compares it with the next one.  An undecided task leaves no note.
Execute ==
  /\ at = "execute"
  /\ IF ~SkillBinds(task.skill, task.type) \/ ~VerifierBinds(task.skill, task.type)
     THEN Return("binding") /\ UNCHANGED <<known, shown>>
     ELSE \E after \in SUBSET Evidence, verdict \in {"success", "death", "abstain"} :
            /\ verdict # "abstain" => after # {}
            /\ verdict = "success" /\ task.skill # "basic_reach_target" => seen.evidence # {}
            /\ shown' = shown \cup after
            /\ IF verdict = "abstain" THEN Return("undecided") /\ UNCHANGED known
               ELSE Return(None) /\ Learn(verdict, after)

Next == Observe \/ PlanNextGoal \/ Ground \/ Submit \/ Execute

Spec == Init /\ [][Next]_vars

\* Every call returns or raises.
FairSpec == Spec /\ WF_vars(Next)

-----------------------------------------------------------------------------
(* Properties.                                                              *)

\* Each variable has the shape of the record it stands for.
TypeOK ==
  /\ at \in {"observe", "plan", "ground", "submit", "execute"}
  /\ seen.evidence \subseteq Evidence /\ known \subseteq Evidence /\ shown \subseteq Evidence
  /\ plan # None => plan.skill \in Capabilities \cap RuntimeSkills
  /\ ground # None => ground.status \in {"grounded", "grounding_failed"}
                      /\ ground.reason \in Reasons \cup {None}
  /\ task # None => task.sources \subseteq Evidence

\* Nothing is made up on the way: whatever a note, an accepted task or a grounding
\* rests on is evidence that some observation has shown, over any number of plans,
\* verdicts and notes and whatever the model answers.
EvidenceWasShown ==
  /\ known \subseteq shown
  /\ ground # None => ground.evidence \subseteq shown
  /\ task # None => task.sources \subseteq shown

\* A target is the only sprite of the planning observation that could be meant, and
\* it is never found on an observation that carries no evidence of its own.
TargetIsPlain ==
  ground # None /\ ground.status = "grounded" =>
    /\ seen.evidence # {}
    /\ {i \in DOMAIN seen.sprites : seen.sprites[i].onScreen /\ seen.sprites[i].confidence = "high"}
         = {ground.sprite}

\* What the Manager accepts can be executed: no accepted task is refused by the
\* skill catalog or the verifier catalog, which keep tables of their own.
AcceptedTasksBind == at = "execute" => SkillBinds(task.skill, task.type)
                                       /\ VerifierBinds(task.skill, task.type)

\* A task can be traced to what its target was seen in: its sources include the
\* planning observation's evidence and the sprite's own.
TargetIsTraceable ==
  task # None /\ task.type # None =>
    seen.evidence \cup {seen.sprites[ground.sprite].evidence} \subseteq task.sources

\* No hidden-state term or control of a plan reaches an accepted task, though two
\* different checkers look for them.
TasksAreClean == task # None => task.text = "clean"

\* Every attempt ends, refused or judged, and the agent looks again.
AttemptEnds == at # "observe" ~> at = "observe"
=============================================================================
