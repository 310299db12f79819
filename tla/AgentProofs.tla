----------------------------- MODULE AgentProofs -----------------------------
(***************************************************************************)
(* What the agent sees, decides, does and learns, for any evidence, skill, *)
(* ground, window, grid, scene, recording and limit.                       *)
(*                                                                         *)
(* The parts share no state: each is an instance over variables of its     *)
(* own, and what is shown of it holds of every instance.                   *)
(***************************************************************************)
EXTENDS Integers, Sequences, FiniteSets, FiniteSetTheorems, WellFoundedInduction, TLAPS

CONSTANT None

\* Of the way from an observation to a task.
CONSTANTS Evidence, Capabilities, MaxSprites
VARIABLES place, seen, known, plan, ground, accepted, error, shown

\* Of the skills and their verifiers.
CONSTANTS Skills, Side, Target, Step, Tolerance, Pages, MaxSteps, Calm
VARIABLES skill, world, start, latest, action, steps, ending, reward, route

\* Of the scene the plugin collects the visible surface from.
CONSTANTS Nodes, Root, Messages, Lists
VARIABLES children, parent, onscreen, open, pending, visited, surface

\* Of the payload's way from the plugin to the agent.
CONSTANTS Shots, Places, Off, Hashes, Name
VARIABLES door, given, asked, data, observation, stage, newestShot

\* Of the focus guards.
CONSTANTS Windows, Changes
VARIABLES guard, exact, target, active, title, class, comm, changes, held, asks, window, got, reached

\* Of an offline pilot run.
CONSTANTS MaxActions, MaxObservations, MaxTimeout
VARIABLES
  recording, answerOK, timeout, limits, stopFile, leg, evidence, feed, offset, consumed, looks, tries,
  pressed, step, readBack, outcome

\* Of the observation chain.
CONSTANTS RunSteps, MaxAttempts, MaxChanges
VARIABLES moment, cpc, attempt, planned, primed, first, newest, inputs, rows, checked, halted, closing

\* Of what is learnt from a recording.
CONSTANTS Width, Height, Horizon, Capacity
VARIABLES task, agent, step_count, last_obs, ended, buffer

-----------------------------------------------------------------------------
\* Every set of natural numbers has a least one.
LEMMA LeastNatural ==
  ASSUME NEW S \in SUBSET Nat, S # {}
  PROVE  \E x \in S : \A y \in S : x <= y
<1>1. PICK x \in S : \A y \in S : ~(<<y, x>> \in OpToRel(<, Nat))
  BY NatLessThanWellFounded, WFMin, Zenon
<1>2. \A y \in S : x <= y
  <2> SUFFICES ASSUME NEW y \in S PROVE ~(y < x)
    OBVIOUS
  <2>1. <<y, x>> \notin OpToRel(<, Nat)
    BY <1>1
  <2> QED
    BY <2>1 DEF OpToRel
<1> QED
  BY <1>2

-----------------------------------------------------------------------------
\* Planning and grounding, with variables of their own.
Cycle == INSTANCE PlanAndGround WITH at <- place, task <- accepted

\* What was seen is on record as shown, and so is what the notes cite.
SeenIsShown ==
  /\ place \in {"observe", "plan", "ground", "submit", "execute"}
  /\ seen \in Cycle!Observation /\ shown \subseteq Evidence
  /\ seen.evidence \cup Cycle!SpriteEvidence(seen) \subseteq shown
  /\ known \subseteq shown

\* A plan is one the model was asked for: its skill is at hand and what it cites was in the context.
PlanIsGated ==
  IF place \in {"observe", "plan"} THEN plan = None /\ ground = None
  ELSE /\ plan.skill \in Capabilities \cap Cycle!RuntimeSkills
       /\ plan.cites \subseteq Cycle!ContextEvidence

\* A target is what the grounding service finds on the observation the plan was made from.
GroundIsFound ==
  place \in {"submit", "execute"} =>
    ground = IF Cycle!Requirement(plan.skill) = "targetless" THEN None
             ELSE Cycle!GroundIn(plan.skill, seen.evidence, seen)

\* A task is what the Manager makes of a plan and its target, once both have passed.
TaskIsAccepted ==
  IF place = "execute"
  THEN /\ plan.text = "clean" /\ Cycle!TargetError = None
       /\ accepted = [skill |-> plan.skill, text |-> plan.text, sources |-> Cycle!SourceEvidence,
                  type |-> IF ground = None THEN None ELSE ground.type]
  ELSE accepted = None

CycleInv == SeenIsShown /\ PlanIsGated /\ (place = "ground" => ground = None) /\ GroundIsFound /\ TaskIsAccepted

\* The sprites of an observation are numbered.
LEMMA SpritesAreNumbered ==
  ASSUME NEW o \in Cycle!Observation
  PROVE  /\ o.evidence \subseteq Evidence /\ IsFiniteSet(DOMAIN o.sprites)
         /\ \A i \in DOMAIN o.sprites : o.sprites[i].evidence \in Evidence
<1>1. PICK n \in 0..MaxSprites : o.sprites \in [1..n -> Cycle!Sprite]
  BY DEF Cycle!Observation
<1>2. IsFiniteSet(1..n) /\ DOMAIN o.sprites = 1..n
  <2>1. n \in Int
    OBVIOUS
  <2> QED
    BY <1>1, <2>1, FS_Interval
<1> QED
  BY <1>1, <1>2 DEF Cycle!Observation, Cycle!Sprite

\* A set that is neither empty nor of more than one member is that of its member.
LEMMA OnlyMember ==
  ASSUME NEW S, IsFiniteSet(S), S # {}, ~(Cardinality(S) > 1)
  PROVE  S = {CHOOSE x \in S : TRUE}
<1>1. Cardinality(S) \in Nat /\ Cardinality(S) # 0
  BY FS_CardinalityType, FS_EmptySet
<1>2. Cardinality(S) = 1
  BY <1>1
<1>3. PICK x : S = {x}
  BY <1>2, FS_Singleton
<1> QED
  BY <1>3

\* What a grounding tells: it rests on what was looked at, and finds the one sprite that could be meant.
LEMMA GroundingTells ==
  ASSUME NEW sk, NEW scope, NEW o \in Cycle!Observation
  PROVE  LET found == Cycle!GroundIn(sk, scope, o)
         IN  /\ found.status \in {"grounded", "grounding_failed"}
             /\ found.reason \in Cycle!Reasons \cup {None}
             /\ found.evidence = scope \cup o.evidence \cup Cycle!SpriteEvidence(o)
             /\ found.status = "grounded" =>
                  /\ scope # {} /\ scope \subseteq o.evidence \cup Cycle!SpriteEvidence(o)
                  /\ found.type = Cycle!Requirement(sk)
                  /\ {i \in DOMAIN o.sprites : o.sprites[i].onScreen /\ o.sprites[i].confidence = "high"}
                       = {found.sprite}
<1> DEFINE own == o.evidence \cup Cycle!SpriteEvidence(o)
           candidates == {i \in DOMAIN o.sprites : o.sprites[i].onScreen}
           confident == {i \in candidates : o.sprites[i].confidence = "high"}
           found == Cycle!GroundIn(sk, scope, o)
<1>0. Cycle!Cardinality(confident) = Cardinality(confident)
  BY Zenon DEF Cycle!Cardinality, Cardinality
<1>1. \/ \E reason \in Cycle!Reasons : found = Cycle!Failure(reason, scope \cup own)
      \/ /\ scope # {} /\ scope \subseteq own /\ confident # {} /\ ~(Cardinality(confident) > 1)
         /\ found = [status |-> "grounded", reason |-> None, type |-> Cycle!Requirement(sk),
                     sprite |-> CHOOSE i \in confident : TRUE, evidence |-> scope \cup (scope \cup own)]
  <2>1. CASE Cycle!Requirement(sk) \in {None, "targetless"} \/ own = {} \/ scope = {} \/ ~(scope \subseteq own)
             \/ candidates = {}
    <3>1. found \in {Cycle!Failure(reason, scope \cup own) : reason \in Cycle!Reasons}
      BY <2>1 DEF Cycle!GroundIn, Cycle!Reasons
    <3> QED
      BY <3>1
  <2>2. CASE ~(Cycle!Requirement(sk) \in {None, "targetless"} \/ own = {} \/ scope = {} \/ ~(scope \subseteq own)
               \/ candidates = {})
    <3>1. found = Cycle!OnlyOneOf(confident, Cycle!Requirement(sk), scope, scope \cup own)
      BY <2>2 DEF Cycle!GroundIn
    <3> QED
      BY <1>0, <2>2, <3>1 DEF Cycle!OnlyOneOf, Cycle!Reasons
  <2> QED
    BY <2>1, <2>2
<1>2. confident = {i \in DOMAIN o.sprites : o.sprites[i].onScreen /\ o.sprites[i].confidence = "high"}
  OBVIOUS
<1>3. IsFiniteSet(confident)
  BY SpritesAreNumbered, FS_Subset
<1> HIDE DEF own, confident, found
<1>4. CASE \E reason \in Cycle!Reasons : found = Cycle!Failure(reason, scope \cup own)
  BY <1>4 DEF Cycle!Failure, found, own
<1>5. CASE /\ scope # {} /\ scope \subseteq own /\ confident # {} /\ ~(Cardinality(confident) > 1)
           /\ found = [status |-> "grounded", reason |-> None, type |-> Cycle!Requirement(sk),
                       sprite |-> CHOOSE i \in confident : TRUE, evidence |-> scope \cup (scope \cup own)]
  <2>1. confident = {found.sprite}
    BY <1>3, <1>5, OnlyMember
  <2>2. /\ found.status = "grounded" /\ found.reason = None /\ found.type = Cycle!Requirement(sk)
        /\ found.evidence = scope \cup own
    BY <1>5
  <2> QED
    BY <1>2, <1>5, <2>1, <2>2 DEF found, own
<1> QED
  BY <1>1, <1>4, <1>5

\* What the Manager lets through has the target its skill asks for.
LEMMA TargetFits ==
  ASSUME Cycle!NoneAssumption, CycleInv, place \in {"submit", "execute"}, Cycle!TargetError = None
  PROVE  /\ Cycle!Requirement(plan.skill) = "targetless" => ground = None
         /\ Cycle!Requirement(plan.skill) # "targetless" =>
              ground # None /\ ground.status = "grounded" /\ ground.type = Cycle!Requirement(plan.skill)
<1>1. None \notin Cycle!TargetErrors
  BY DEF Cycle!NoneAssumption
<1>2. CASE Cycle!Requirement(plan.skill) = "targetless"
  BY <1>2 DEF CycleInv, GroundIsFound
<1>3. CASE Cycle!Requirement(plan.skill) # "targetless"
  <2>1. ground # None /\ ground.status # "grounding_failed" /\ ground.type = Cycle!Requirement(plan.skill)
    BY <1>1, <1>3 DEF Cycle!TargetError, Cycle!TargetErrors
  <2>2. ground.status \in {"grounded", "grounding_failed"}
    BY <1>3, GroundingTells DEF CycleInv, SeenIsShown, GroundIsFound
  <2> QED
    BY <1>3, <2>1, <2>2
<1> QED
  BY <1>2, <1>3

LEMMA CycleInit ==
  ASSUME Cycle!CapabilityAssumption, Cycle!Init
  PROVE  CycleInv
<1>1. seen.evidence = {} /\ seen.sprites = <<>> /\ DOMAIN seen.sprites = {}
  BY DEF Cycle!Init, Cycle!NothingSeen
<1>2. Cycle!SpriteEvidence(seen) = {}
  BY <1>1 DEF Cycle!SpriteEvidence
<1>3. seen \in Cycle!Observation
  <2>1. 0 \in 0..MaxSprites /\ 1..0 = {}
    BY DEF Cycle!CapabilityAssumption
  <2>2. <<>> \in [1..0 -> Cycle!Sprite]
    BY <2>1
  <2> QED
    BY <2>1, <2>2 DEF Cycle!Init, Cycle!NothingSeen, Cycle!Observation, Cycle!Texts
<1> QED
  BY <1>1, <1>2, <1>3 DEF Cycle!Init, CycleInv, SeenIsShown, PlanIsGated, GroundIsFound, TaskIsAccepted

\* A refusal or a verdict ends the attempt, and leaves nothing of it.
LEMMA ReturnKeeps ==
  ASSUME Cycle!CapabilityAssumption, NEW why, Cycle!Return(why),
         known' \subseteq shown', shown' \subseteq Evidence
  PROVE  CycleInv'
<1>1. place' = "observe" /\ seen' = Cycle!NothingSeen /\ plan' = None /\ ground' = None /\ accepted' = None
  BY DEF Cycle!Return
<1>2. seen'.evidence = {} /\ seen'.sprites = <<>> /\ DOMAIN seen'.sprites = {}
  BY <1>1 DEF Cycle!NothingSeen
<1>3. Cycle!SpriteEvidence(seen') = {}
  BY <1>2 DEF Cycle!SpriteEvidence
<1>4. seen' \in Cycle!Observation
  <2>1. 0 \in 0..MaxSprites /\ 1..0 = {}
    BY DEF Cycle!CapabilityAssumption
  <2>2. <<>> \in [1..0 -> Cycle!Sprite]
    BY <2>1
  <2> QED
    BY <1>1, <2>1, <2>2 DEF Cycle!NothingSeen, Cycle!Observation, Cycle!Texts
<1>5. Cycle!SpriteEvidence(seen)' = Cycle!SpriteEvidence(seen')
  BY DEF Cycle!SpriteEvidence
<1> QED
  BY <1>1, <1>2, <1>3, <1>4, <1>5 DEF CycleInv, SeenIsShown, PlanIsGated, GroundIsFound, TaskIsAccepted

LEMMA CycleObserveKeeps ==
  ASSUME CycleInv, Cycle!Observe
  PROVE  CycleInv'
<1>1. /\ place = "observe" /\ place' = "plan" /\ seen' \in Cycle!Observation
      /\ shown' = shown \cup seen'.evidence \cup Cycle!SpriteEvidence(seen')
      /\ UNCHANGED <<known, plan, ground, accepted>>
  BY DEF Cycle!Observe
<1>2. seen'.evidence \subseteq Evidence /\ Cycle!SpriteEvidence(seen') \subseteq Evidence
  BY <1>1, SpritesAreNumbered DEF Cycle!SpriteEvidence
<1>3. Cycle!SpriteEvidence(seen)' = Cycle!SpriteEvidence(seen')
  BY DEF Cycle!SpriteEvidence
<1> QED
  BY <1>1, <1>2, <1>3 DEF CycleInv, SeenIsShown, PlanIsGated, GroundIsFound, TaskIsAccepted

LEMMA PlanKeeps ==
  ASSUME Cycle!CapabilityAssumption, CycleInv, Cycle!PlanNextGoal
  PROVE  CycleInv'
<1>1. place = "plan" /\ UNCHANGED <<known, shown>>
  BY DEF Cycle!PlanNextGoal
<1>2. ASSUME NEW why, Cycle!Return(why) PROVE CycleInv'
  BY <1>1, <1>2, ReturnKeeps DEF CycleInv, SeenIsShown
<1>3. ASSUME NEW answer \in Cycle!Plan, ~Cycle!ContextIsRefused,
             answer.cites \subseteq Cycle!ContextEvidence, answer.skill \in Capabilities,
             plan' = answer, Cycle!GoOn("ground"), UNCHANGED <<ground, accepted>>
      PROVE  CycleInv'
  <2>1. place' = "ground" /\ UNCHANGED <<seen, known, shown, ground, accepted>> /\ ground = None
    BY <1>1, <1>3 DEF Cycle!GoOn, CycleInv, PlanIsGated
  <2>2. plan'.skill \in Capabilities \cap Cycle!RuntimeSkills
    BY <1>3 DEF Cycle!ContextIsRefused
  <2>3. plan'.cites \subseteq Cycle!ContextEvidence'
    BY <1>3, <2>1 DEF Cycle!ContextEvidence
  <2>4. SeenIsShown'
    BY <2>1 DEF CycleInv, SeenIsShown, Cycle!SpriteEvidence
  <2> QED
    BY <1>1, <2>1, <2>2, <2>3, <2>4 DEF CycleInv, PlanIsGated, GroundIsFound, TaskIsAccepted
<1> QED
  BY <1>2, <1>3 DEF Cycle!PlanNextGoal

LEMMA GroundKeeps ==
  ASSUME CycleInv, Cycle!Ground
  PROVE  CycleInv'
<1>1. /\ place = "ground" /\ place' = "submit" /\ UNCHANGED <<seen, known, plan, accepted, shown>>
      /\ ground' = IF Cycle!Requirement(plan.skill) = "targetless" THEN None
                   ELSE Cycle!GroundIn(plan.skill, seen.evidence, seen)
  BY DEF Cycle!Ground, Cycle!GoOn
<1>2. SeenIsShown'
  BY <1>1 DEF CycleInv, SeenIsShown, Cycle!SpriteEvidence
<1>3. PlanIsGated'
  BY <1>1 DEF CycleInv, PlanIsGated, Cycle!ContextEvidence
<1>4. GroundIsFound'
  BY <1>1 DEF GroundIsFound
<1> QED
  BY <1>1, <1>2, <1>3, <1>4 DEF CycleInv, TaskIsAccepted

LEMMA SubmitKeeps ==
  ASSUME Cycle!CapabilityAssumption, CycleInv, Cycle!Submit
  PROVE  CycleInv'
<1>1. place = "submit" /\ UNCHANGED <<known, shown>>
  BY DEF Cycle!Submit
<1>2. ASSUME NEW why, Cycle!Return(why) PROVE CycleInv'
  BY <1>1, <1>2, ReturnKeeps DEF CycleInv, SeenIsShown
<1>3. ASSUME plan.text = "clean", Cycle!TargetError = None,
             accepted' = [skill |-> plan.skill, text |-> plan.text, sources |-> Cycle!SourceEvidence,
                      type |-> IF ground = None THEN None ELSE ground.type],
             Cycle!GoOn("execute"), UNCHANGED <<plan, ground>>
      PROVE  CycleInv'
  <2>1. place' = "execute" /\ UNCHANGED <<seen, known, shown, plan, ground>>
    BY <1>1, <1>3 DEF Cycle!GoOn
  <2>2. SeenIsShown'
    BY <2>1 DEF CycleInv, SeenIsShown, Cycle!SpriteEvidence
  <2>3. PlanIsGated'
    BY <1>1, <2>1 DEF CycleInv, PlanIsGated, Cycle!ContextEvidence
  <2>4. GroundIsFound'
    BY <1>1, <2>1 DEF CycleInv, GroundIsFound
  <2>5. TaskIsAccepted'
    BY <1>3, <2>1 DEF TaskIsAccepted, Cycle!TargetError, Cycle!SourceEvidence
  <2> QED
    BY <2>1, <2>2, <2>3, <2>4, <2>5 DEF CycleInv
<1> QED
  BY <1>2, <1>3 DEF Cycle!Submit

\* What an accepted task has: one of the three skills, and a target where its skill asks for one.
LEMMA TaskHasItsTarget ==
  ASSUME Cycle!NoneAssumption, CycleInv, place = "execute"
  PROVE  /\ accepted.skill = plan.skill /\ accepted.text = "clean" /\ accepted.sources = Cycle!SourceEvidence
         /\ accepted.skill \in Cycle!RuntimeSkills
         /\ IF accepted.skill = "continue_dialogue" THEN accepted.type = None /\ ground = None
            ELSE /\ accepted.type = Cycle!Requirement(accepted.skill)
                 /\ ground = Cycle!GroundIn(plan.skill, seen.evidence, seen) /\ ground # None
                 /\ ground.status = "grounded"
<1>1. Cycle!TargetError = None /\ plan.skill \in Cycle!RuntimeSkills
  BY DEF CycleInv, TaskIsAccepted, PlanIsGated
<1>2. accepted.skill = plan.skill /\ accepted.text = "clean" /\ accepted.sources = Cycle!SourceEvidence
      /\ accepted.type = IF ground = None THEN None ELSE ground.type
  BY DEF CycleInv, TaskIsAccepted
<1>3. Cycle!Requirement(plan.skill) = "targetless" <=> plan.skill = "continue_dialogue"
  BY <1>1 DEF Cycle!Requirement, Cycle!RuntimeSkills
<1>4. Cycle!Requirement(plan.skill) # "targetless" => ground = Cycle!GroundIn(plan.skill, seen.evidence, seen)
  BY DEF CycleInv, GroundIsFound
<1> QED
  BY <1>1, <1>2, <1>3, <1>4, TargetFits

LEMMA ExecuteKeeps ==
  ASSUME Cycle!CapabilityAssumption, Cycle!NoneAssumption, CycleInv, Cycle!Execute
  PROVE  CycleInv'
<1>1. place = "execute"
  BY DEF Cycle!Execute
<1>2. ASSUME NEW why, Cycle!Return(why), known' \subseteq shown', shown' \subseteq Evidence PROVE CycleInv'
  BY <1>2, ReturnKeeps
<1>3. known \subseteq shown /\ shown \subseteq Evidence /\ seen.evidence \subseteq shown
  BY DEF CycleInv, SeenIsShown
<1>4. accepted.skill # "continue_dialogue" => ground.evidence \subseteq shown
  BY <1>1, TaskHasItsTarget, GroundingTells DEF CycleInv, SeenIsShown
<1>5. ASSUME NEW after \in SUBSET Evidence, NEW decided \in {"success", "death", "abstain"},
             shown' = shown \cup after,
             IF decided = "abstain" THEN Cycle!Return("undecided") /\ UNCHANGED known
             ELSE Cycle!Return(None) /\ Cycle!Learn(decided, after)
      PROVE  CycleInv'
  <2>1. Cycle!VerdictEvidence(decided, seen.evidence, after) \subseteq shown'
    BY <1>3, <1>4, <1>5 DEF Cycle!VerdictEvidence
  <2>2. known' \subseteq shown' /\ shown' \subseteq Evidence
    BY <1>3, <1>5, <2>1 DEF Cycle!Learn
  <2> QED
    BY <1>2, <1>5, <2>2
<1>6. CASE Cycle!Return("binding") /\ UNCHANGED <<known, shown>>
  BY <1>2, <1>3, <1>6
<1> QED
  BY <1>5, <1>6 DEF Cycle!Execute

LEMMA CycleIsAlwaysSound ==
  ASSUME Cycle!CapabilityAssumption, Cycle!NoneAssumption
  PROVE  Cycle!Spec => []CycleInv
<1>1. Cycle!Init => CycleInv
  BY CycleInit
<1>2. CycleInv /\ [Cycle!Next]_(Cycle!vars) => CycleInv'
  <2> SUFFICES ASSUME CycleInv, [Cycle!Next]_(Cycle!vars) PROVE CycleInv'
    OBVIOUS
  <2>1. CASE UNCHANGED Cycle!vars
    BY <2>1 DEF Cycle!vars, CycleInv, SeenIsShown, PlanIsGated, GroundIsFound, TaskIsAccepted, Cycle!SpriteEvidence,
       Cycle!ContextEvidence, Cycle!TargetError, Cycle!SourceEvidence
  <2> QED
    BY <2>1, CycleObserveKeeps, PlanKeeps, GroundKeeps, SubmitKeeps, ExecuteKeeps DEF Cycle!Next
<1> QED
  BY <1>1, <1>2, PTL DEF Cycle!Spec

\* The sources of an accepted task were shown.
LEMMA SourcesWereShown ==
  ASSUME Cycle!NoneAssumption, CycleInv, place = "execute"
  PROVE  accepted.sources \subseteq shown
<1>1. plan.cites \subseteq shown
  BY DEF CycleInv, PlanIsGated, SeenIsShown, Cycle!ContextEvidence
<1>2. ground # None => ground.evidence \subseteq shown
  BY TaskHasItsTarget, GroundingTells DEF CycleInv, SeenIsShown
<1> QED
  BY <1>1, <1>2, TaskHasItsTarget DEF Cycle!SourceEvidence

\* From observation to task and back nothing is made up, and what is accepted can be executed: whatever a note,
\* a grounding or a task rests on was shown, a target is the one sprite that could be meant and its task can be
\* traced to it, and no control gets into a task, whatever the model answers, for any number of attempts.
THEOREM TasksRestOnWhatWasShown ==
  ASSUME Cycle!CapabilityAssumption, Cycle!NoneAssumption
  PROVE  Cycle!Spec => [](/\ Cycle!TypeOK /\ Cycle!EvidenceWasShown /\ Cycle!TargetIsPlain
                          /\ Cycle!AcceptedTasksBind /\ Cycle!TargetIsTraceable /\ Cycle!TasksAreClean)
<1>1. CycleInv => /\ Cycle!TypeOK /\ Cycle!EvidenceWasShown /\ Cycle!TargetIsPlain
                  /\ Cycle!AcceptedTasksBind /\ Cycle!TargetIsTraceable /\ Cycle!TasksAreClean
  <2> SUFFICES ASSUME CycleInv
               PROVE  /\ Cycle!TypeOK /\ Cycle!EvidenceWasShown /\ Cycle!TargetIsPlain
                      /\ Cycle!AcceptedTasksBind /\ Cycle!TargetIsTraceable /\ Cycle!TasksAreClean
    OBVIOUS
  <2>1. place \notin {"observe", "plan"} => plan.skill \in Capabilities \cap Cycle!RuntimeSkills
    BY DEF CycleInv, PlanIsGated
  <2>2. place # "execute" => accepted = None
    BY DEF CycleInv, TaskIsAccepted
  <2>3. ground # None => /\ place \in {"submit", "execute"}
                         /\ ground = Cycle!GroundIn(plan.skill, seen.evidence, seen)
    BY DEF CycleInv, PlanIsGated, GroundIsFound, SeenIsShown
  <2>4. ground # None =>
          /\ ground.status \in {"grounded", "grounding_failed"} /\ ground.reason \in Cycle!Reasons \cup {None}
          /\ ground.evidence = seen.evidence \cup Cycle!SpriteEvidence(seen)
          /\ ground.status = "grounded" =>
               /\ seen.evidence # {}
               /\ {i \in DOMAIN seen.sprites : seen.sprites[i].onScreen /\ seen.sprites[i].confidence = "high"}
                    = {ground.sprite}
    BY <2>3, GroundingTells DEF CycleInv, SeenIsShown
  <2>5. Cycle!TypeOK
    BY <2>1, <2>2, <2>4, SourcesWereShown DEF CycleInv, SeenIsShown, PlanIsGated, Cycle!TypeOK, Cycle!Observation
  <2>6. Cycle!EvidenceWasShown
    BY <2>2, <2>4, SourcesWereShown DEF CycleInv, SeenIsShown, Cycle!EvidenceWasShown
  <2>7. Cycle!TargetIsPlain
    BY <2>4 DEF Cycle!TargetIsPlain
  <2>8. Cycle!AcceptedTasksBind
    BY TaskHasItsTarget DEF Cycle!AcceptedTasksBind, Cycle!SkillBinds, Cycle!VerifierBinds, Cycle!RuntimeSkills,
       Cycle!Requirement
  <2>9. Cycle!TargetIsTraceable
    <3> SUFFICES ASSUME accepted # None, accepted.type # None
                 PROVE  seen.evidence \cup {seen.sprites[ground.sprite].evidence} \subseteq accepted.sources
      BY DEF Cycle!TargetIsTraceable
    <3>1. ground # None /\ ground.status = "grounded" /\ accepted.sources = Cycle!SourceEvidence
      BY <2>2, TaskHasItsTarget
    <3>2. ground.sprite \in DOMAIN seen.sprites
      BY <2>4, <3>1
    <3> QED
      BY <2>4, <3>1, <3>2 DEF Cycle!SourceEvidence, Cycle!SpriteEvidence
  <2>10. Cycle!TasksAreClean
    BY <2>2, TaskHasItsTarget DEF Cycle!TasksAreClean
  <2> QED
    BY <2>5, <2>6, <2>7, <2>8, <2>9, <2>10
<1> QED
  BY <1>1, CycleIsAlwaysSound, PTL

-----------------------------------------------------------------------------
\* The skills and their verifiers, with variables of their own.
Body == INSTANCE VerifiedSkills WITH outcome <- ending

\* What an observation tells of what is shown.
Tells(o, w) == o.ui = w.ui /\ o.page = w.page /\ o.at \in {w.at, None}

\* A game that was seen to be over.
Lost(o) ==
  \/ o.ui = "death" /\ o.evidence
  \/ skill = "basic_reach_target" /\ o.ui = "combat"

ObservationsFit ==
  /\ Tells(latest, world)
  /\ start.ui = "dialogue" <=> start.page # 0

\* A run goes on for as long as it is undecided, and what decided it was paid.
RunFits ==
  /\ action # None => ending = None /\ steps >= 1
  /\ ending = None => reward = 0
  /\ ending = None /\ action = None /\ steps >= 1 => ~Lost(latest)
  /\ action # None /\ steps > 1 => ~Lost(latest)

SkillInv == Body!TypeOK /\ ObservationsFit /\ RunFits /\ Body!SuccessIsReal /\ Body!RewardTellsOutcome

\* What the pipeline makes of the world is true.
LEMMA ViewsTell ==
  ASSUME NEW w \in Body!Worlds, NEW o \in Body!Views(w)
  PROVE  o \in Body!Observed /\ Tells(o, w) /\ (o.ui = "dialogue" <=> o.page # 0)
<1>1. w.ui \in Body!Screens /\ w.page \in 0..Pages /\ w.at \in Body!Position /\ (w.ui = "dialogue" <=> w.page # 0)
  BY DEF Body!Worlds, Body!World
<1>2. CASE Calm
  <2>1. o = [ui |-> w.ui, page |-> w.page, at |-> w.at, evidence |-> TRUE]
    BY <1>2 DEF Body!Views
  <2>2. o \in Body!Observed
    BY <1>1, <2>1 DEF Body!Observed
  <2> QED
    BY <1>1, <2>1, <2>2 DEF Tells
<1>3. CASE ~Calm
  <2>1. o \in [ui : {w.ui}, page : {w.page}, at : {w.at, None}, evidence : BOOLEAN]
    BY <1>3 DEF Body!Views
  <2> QED
    BY <1>1, <2>1 DEF Body!Observed, Tells
<1> QED
  BY <1>2, <1>3

\* Whatever the game makes of an input, it shows a page of text on the screen of a dialogue only.
LEMMA WorldsStay ==
  ASSUME NEW w \in Body!Worlds, NEW u \in Body!Reactions(w) \cup Body!Interruptions(w)
  PROVE  u \in Body!Worlds
<1>1. CASE u \in Body!Interruptions(w)
  BY <1>1 DEF Body!Interruptions
<1>2. CASE u \in Body!Reactions(w)
  <2>1. CASE action \in Body!Moves
    <3>1. u = Body!Moved(w)
      BY <1>2, <2>1 DEF Body!Reactions, Body!Moves
    <3>2. CASE w.ui = "map" /\ Body!Shift(w.at, action) \in Body!Position
      <4>1. u = [w EXCEPT !.at = Body!Shift(w.at, action)]
        BY <3>1, <3>2 DEF Body!Moved
      <4>2. u \in Body!World /\ u.ui = w.ui /\ u.page = w.page
        BY <3>2, <4>1 DEF Body!Worlds, Body!World
      <4> QED
        BY <4>2 DEF Body!Worlds
    <3>3. CASE ~(w.ui = "map" /\ Body!Shift(w.at, action) \in Body!Position)
      BY <3>1, <3>3 DEF Body!Moved
    <3> QED
      BY <3>2, <3>3
  <2>2. CASE action \notin Body!Moves
    BY <1>2, <2>2 DEF Body!Reactions
  <2> QED
    BY <2>1, <2>2
<1> QED
  BY <1>1, <1>2

LEMMA SkillInit ==
  ASSUME Body!SizeAssumption, Body!NoneAssumption, Body!Init
  PROVE  SkillInv
<1>1. world \in Body!Worlds /\ start \in Body!Observed /\ latest = start /\ Tells(latest, world)
      /\ (start.ui = "dialogue" <=> start.page # 0)
  BY ViewsTell DEF Body!Init
<1>2. Body!TypeOK
  BY <1>1 DEF Body!Init, Body!TypeOK, Body!Endings, Body!SizeAssumption
<1>3. ending \in {None, "precondition_failed"} /\ None \notin Body!Endings
  BY DEF Body!Init, Body!NoneAssumption
<1> QED
  BY <1>1, <1>2, <1>3 DEF SkillInv, ObservationsFit, RunFits, Body!SuccessIsReal, Body!RewardTellsOutcome, Body!Init,
     Body!Endings

LEMMA ProposalKeeps ==
  ASSUME Body!SizeAssumption, Body!NoneAssumption, SkillInv, Body!Propose
  PROVE  SkillInv'
<1>1. /\ ending = None /\ action = None /\ steps < MaxSteps /\ steps' = steps + 1 /\ action' = Body!NextAction(latest)
      /\ route' = IF action' \in Body!Moves THEN route + 1 ELSE route
      /\ UNCHANGED <<skill, world, start, latest, ending, reward>>
  BY DEF Body!Propose
<1>2. action' \in Body!Actions
  BY <1>1 DEF Body!NextAction, Body!MovementToward, Body!Actions, Body!Moves
<1>3. action' # None
  BY <1>2 DEF Body!NoneAssumption
<1>4. steps \in 0..MaxSteps /\ route \in 0..steps /\ MaxSteps \in Nat
  BY DEF SkillInv, Body!TypeOK, Body!SizeAssumption
<1>5. Body!TypeOK'
  <2>1. steps' \in 0..MaxSteps /\ route' \in 0..steps'
    BY <1>1, <1>4
  <2> QED
    BY <1>1, <1>2, <2>1 DEF SkillInv, Body!TypeOK
<1>6. RunFits'
  <2>1. steps' > 1 => steps >= 1
    BY <1>1, <1>4
  <2> QED
    BY <1>1, <1>3, <1>4, <2>1 DEF SkillInv, RunFits, Lost
<1> QED
  BY <1>1, <1>5, <1>6 DEF SkillInv, ObservationsFit, Tells, Body!SuccessIsReal, Body!RewardTellsOutcome, Body!Near

LEMMA TimeOutKeeps ==
  ASSUME Body!NoneAssumption, SkillInv, Body!TimeOut
  PROVE  SkillInv'
<1>1. ending = None /\ action = None /\ ending' = "timeout"
      /\ UNCHANGED <<skill, world, start, latest, action, steps, reward, route>>
  BY DEF Body!TimeOut
<1>2. "timeout" # None
  BY DEF Body!NoneAssumption, Body!Endings
<1> QED
  BY <1>1, <1>2 DEF SkillInv, Body!TypeOK, Body!Endings, ObservationsFit, Tells, RunFits, Lost, Body!SuccessIsReal,
     Body!RewardTellsOutcome

\* The three verdicts, and how each ends a run.
LEMMA VerdictsDiffer ==
  Body!Success # Body!Death /\ Body!Success # Body!Undecided /\ Body!Death # Body!Undecided
<1>1. Body!Success.status = "success" /\ Body!Death.status = "failure" /\ Body!Undecided.status = "abstain"
  BY DEF Body!Success, Body!Death, Body!Undecided
<1> QED
  BY <1>1

LEMMA VerdictKeeps ==
  ASSUME Body!SizeAssumption, Body!NoneAssumption, SkillInv, Body!ObserveAndVerify
  PROVE  SkillInv'
<1>1. PICK w \in Body!Reactions(world) \cup Body!Interruptions(world) : \E after \in Body!Views(w) :
        /\ world' = w /\ latest' = after
        /\ ending' = Body!Terminal(Body!Verify(start, after), after)
        /\ reward' = reward + Body!RewardOf(Body!Verify(start, after))
  BY DEF Body!ObserveAndVerify
<1>2. PICK after \in Body!Views(w) :
        /\ world' = w /\ latest' = after
        /\ ending' = Body!Terminal(Body!Verify(start, after), after)
        /\ reward' = reward + Body!RewardOf(Body!Verify(start, after))
  BY <1>1
<1>3. ending = None /\ action # None /\ action' = None /\ UNCHANGED <<skill, start, steps, route>> /\ reward = 0
  BY DEF Body!ObserveAndVerify, SkillInv, RunFits
<1>4. w \in Body!Worlds
  BY WorldsStay DEF SkillInv, Body!TypeOK
<1>5. after \in Body!Observed /\ Tells(after, w) /\ (after.ui = "dialogue" <=> after.page # 0)
  BY <1>4, ViewsTell
<1>6. None \notin Body!Endings
  BY DEF Body!NoneAssumption
<1> DEFINE decided == Body!Verify(start, after)
<1>7. /\ decided \in {Body!Success, Body!Death, Body!Undecided}
      /\ decided = Body!Success => after.ui # "death" /\ Body!Done(start, after)
      /\ decided = Body!Death <=> after.ui = "death" /\ after.evidence
  BY VerdictsDiffer DEF Body!Verify
<1>8. ending' = Body!Terminal(decided, after) /\ reward' = Body!RewardOf(decided)
  <2>1. Body!RewardOf(decided) \in Int
    BY DEF Body!RewardOf
  <2> QED
    BY <1>2, <1>3, <2>1
<1> HIDE DEF decided
<1>9. /\ ending' \in Body!Endings \cup {None}
      /\ ending' = "success" <=> decided = Body!Success
      /\ ending' = "death_screen" <=> decided = Body!Death
      /\ ending' = None => ~Lost(after)
  BY <1>3, <1>6, <1>7, <1>8, VerdictsDiffer DEF Body!Terminal, Body!Endings, Lost
<1>10. /\ decided = Body!Success => reward' = 4
       /\ decided = Body!Death => reward' = IF skill = "interact_visible_object" THEN -3 ELSE 0
       /\ decided = Body!Undecided => reward' = 0
  BY <1>8, VerdictsDiffer DEF Body!RewardOf
<1>11. Body!RewardTellsOutcome' /\ reward' \in -3..4 /\ (ending' = None => reward' = 0)
  BY <1>3, <1>6, <1>7, <1>9, <1>10 DEF Body!RewardTellsOutcome, Body!Endings
<1>12. Body!TypeOK'
  BY <1>2, <1>3, <1>4, <1>5, <1>9, <1>11 DEF SkillInv, Body!TypeOK
<1>13. Body!SuccessIsReal'
  <2> SUFFICES ASSUME decided = Body!Success
               PROVE  /\ w.ui # "death"
                      /\ skill = "basic_reach_target" => Body!Near(w.at)
                      /\ skill = "continue_dialogue" => start.ui = "dialogue" /\ w.page # start.page
                      /\ skill = "interact_visible_object" => w.ui # start.ui /\ w.ui # "map"
    BY <1>2, <1>3, <1>9 DEF Body!SuccessIsReal, Body!Near
  <2>1. after.ui = w.ui /\ after.page = w.page /\ (after.at # None => after.at = w.at)
    BY <1>5 DEF Tells
  <2>2. start.ui = "dialogue" <=> start.page # 0
    BY DEF SkillInv, ObservationsFit
  <2> QED
    BY <1>5, <1>7, <2>1, <2>2
       DEF Body!Done, Body!DialogueDone, Body!InteractionDone, Body!ReachDone, Body!InDialogue
<1>14. RunFits'
  <2>1. Lost(after)' <=> Lost(after)
    BY <1>3 DEF Lost
  <2> QED
    BY <1>2, <1>3, <1>9, <1>11, <2>1 DEF RunFits, Lost
<1>15. ObservationsFit'
  BY <1>2, <1>3, <1>5 DEF SkillInv, ObservationsFit, Tells
<1> QED
  BY <1>11, <1>12, <1>13, <1>14, <1>15 DEF SkillInv

LEMMA SkillIsAlwaysSound ==
  ASSUME Body!SizeAssumption, Body!NoneAssumption
  PROVE  Body!Spec => []SkillInv
<1>1. Body!Init => SkillInv
  BY SkillInit
<1>2. SkillInv /\ [Body!Next]_(Body!vars) => SkillInv'
  <2> SUFFICES ASSUME SkillInv, [Body!Next]_(Body!vars) PROVE SkillInv'
    OBVIOUS
  <2>1. CASE UNCHANGED Body!vars
    BY <2>1 DEF Body!vars, SkillInv, Body!TypeOK, ObservationsFit, Tells, RunFits, Lost, Body!SuccessIsReal,
       Body!RewardTellsOutcome, Body!Near
  <2> QED
    BY <2>1, ProposalKeeps, VerdictKeeps, TimeOutKeeps DEF Body!Next
<1> QED
  BY <1>1, <1>2, PTL DEF Body!Spec

\* SuccessIsReal, RewardTellsOutcome and NoInputToALostGame: a run that is called a success changed the game as its
\* skill promises, its reward agrees with how it ended, and no input follows a game that was seen to be over,
\* for any ground, tolerance and number of pages and steps, however the game reacts, interrupts and hides things.
THEOREM SuccessIsEarned ==
  ASSUME Body!SizeAssumption, Body!NoneAssumption
  PROVE  Body!Spec => [](Body!TypeOK /\ Body!SuccessIsReal /\ Body!RewardTellsOutcome /\ Body!NoInputToALostGame)
<1>1. SkillInv => Body!TypeOK /\ Body!SuccessIsReal /\ Body!RewardTellsOutcome
  BY DEF SkillInv
<1>2. SkillInv => Body!NoInputToALostGame
  BY DEF SkillInv, RunFits, Lost, Body!NoInputToALostGame, Body!TypeOK
<1> QED
  BY <1>1, <1>2, SkillIsAlwaysSound, PTL

-----------------------------------------------------------------------------
\* The greedy walk of the reach skill.

\* How far a position is from the target, along each axis.
Away(p) == <<Body!Abs(p[1] - Target), Body!Abs(p[2] - Target)>>

\* What is left of a and b after k moves along the one and m along the other.
Square(x) == x * x

LEMMA SquareTypes ==
  ASSUME NEW x \in Int
  PROVE  Square(x) \in Int /\ Square(x) >= 0 /\ Square(-x) = Square(x)
BY DEF Square

LEMMA SmallerSquare ==
  ASSUME NEW x \in Nat, NEW y \in Nat, x <= y
  PROVE  Square(x) <= Square(y)
<1>1. x * x <= x * y
  BY SMTT(20)
<1>2. x * y <= y * y
  BY SMTT(20)
<1> QED
  BY <1>1, <1>2 DEF Square

LEMMA NearIsOff ==
  ASSUME NEW p \in Int \X Int, Target \in Int, Tolerance \in Int
  PROVE  /\ Away(p) \in Nat \X Nat
         /\ Body!Near(p) <=> Square(Away(p)[1]) + Square(Away(p)[2]) <= Square(Tolerance)
<1>1. \A x \in Int : Body!Abs(x) \in Nat /\ Square(Body!Abs(x)) = Square(x)
  <2> SUFFICES ASSUME NEW x \in Int PROVE Body!Abs(x) \in Nat /\ Square(Body!Abs(x)) = Square(x)
    OBVIOUS
  <2>1. Body!Abs(x) \in {x, -x} /\ Body!Abs(x) \in Nat
    BY DEF Body!Abs
  <2> QED
    BY <2>1, SquareTypes
<1>2. p[1] - Target \in Int /\ p[2] - Target \in Int
  OBVIOUS
<1>3. Away(p)[1] = Body!Abs(p[1] - Target) /\ Away(p)[2] = Body!Abs(p[2] - Target)
  BY DEF Away
<1>4. Body!Near(p) <=> Square(p[1] - Target) + Square(p[2] - Target) <= Square(Tolerance)
  BY DEF Body!Near, Square
<1> QED
  BY <1>1, <1>2, <1>3, <1>4 DEF Away

\* Moves shift the balance: what is taken from one axis is added to the other, and as long as neither axis got
\* ahead of the other by more than a move, no other split of the moves ends nearer.
LEMMA BalancedIsNearest ==
  ASSUME NEW p \in Int, NEW q \in Int, NEW s \in Int, NEW m \in Int,
         m > 0 => p + s >= q, m < 0 => q + s >= p, s >= 0
  PROVE  Square(p) + Square(q) <= Square(p + m * s) + Square(q - m * s)
<1> DEFINE d == m * s
<1>1. d \in Int
  OBVIOUS
<1>2. Square(p + d) + Square(q - d) = Square(p) + Square(q) + 2 * (d * (p - q + d))
  <2> HIDE DEF d
  <2> QED
    BY <1>1, SMTT(20) DEF Square
<1>3. d * (p - q + d) >= 0
  <2>1. CASE m > 0
    <3>1. d >= s
      BY <2>1, SMTT(20)
    <3>2. d >= 0 /\ p - q + d >= 0
      BY <2>1, <3>1
    <3> HIDE DEF d
    <3> QED
      BY <1>1, <3>2, SMTT(20)
  <2>2. CASE m < 0
    <3>1. d <= -s
      BY <2>2, SMTT(20)
    <3>2. d <= 0 /\ p - q + d <= 0
      BY <2>2, <3>1
    <3> HIDE DEF d
    <3> QED
      BY <1>1, <3>2, SMTT(20)
  <2>3. CASE m = 0
    BY <2>3
  <2> QED
    BY <2>1, <2>2, <2>3
<1>4. d * (p - q + d) \in Int
  BY <1>1
<1>5. Square(p) \in Int /\ Square(q) \in Int
  BY SquareTypes
<1> HIDE DEF d
<1> QED
  BY <1>2, <1>3, <1>4, <1>5 DEF d

\* A move along the farther axis that goes past the target ends within a move of it.
LEMMA PastTheTarget ==
  ASSUME NEW x \in Nat, NEW y \in Nat, NEW s \in Nat, y <= x, x <= s
  PROVE  Square(s - x) + Square(y) <= Square(s)
<1>1. Square(y) <= Square(x)
  BY SmallerSquare
<1>2. Square(s) = Square(s - x) + Square(x) + 2 * (x * (s - x))
  BY SMTT(20) DEF Square
<1>3. x * (s - x) >= 0 /\ x * (s - x) \in Int
  BY SMTT(20)
<1>4. Square(y) \in Int /\ Square(x) \in Int /\ Square(s - x) \in Int
  BY SquareTypes
<1> QED
  BY <1>1, <1>2, <1>3, <1>4

\* So does any other when it starts within s of it.
LEMMA NearStaysNear ==
  ASSUME NEW x \in Nat, NEW y \in Nat, NEW s \in Nat, NEW t \in Nat, y <= x, s <= t,
         Square(x) + Square(y) <= Square(t)
  PROVE  Square(x - s) + Square(y) <= Square(t)
<1>0. Square(y) \in Int /\ Square(x) \in Int /\ Square(t) \in Int
  BY SquareTypes
<1>1. CASE x >= s
  <2>1. Square(x - s) <= Square(x) /\ Square(x - s) \in Int
    BY <1>1, SmallerSquare, SquareTypes
  <2> QED
    BY <1>0, <2>1
<1>2. CASE x < s
  <2>1. Square(x - s) = Square(s - x)
    <3>1. x - s = -(s - x) /\ s - x \in Int
      OBVIOUS
    <3> QED
      BY <3>1, SquareTypes
  <2>2. Square(s - x) + Square(y) <= Square(s)
    BY <1>2, PastTheTarget
  <2>3. Square(s) <= Square(t) /\ Square(s) \in Int /\ Square(t) \in Int /\ Square(s - x) \in Int
    BY SmallerSquare, SquareTypes
  <2> QED
    BY <1>0, <2>1, <2>2, <2>3
<1> QED
  BY <1>1, <1>2

\* Any point is some moves away from the tolerance.
LEMMA SomeMovesSuffice ==
  ASSUME NEW a \in 0..Side, NEW b \in 0..Side, Side \in Nat, Step \in Nat \ {0}, Tolerance \in Nat, Step <= Tolerance
  PROVE  \E n \in 0..(2 * Side) : \E k \in 0..n :
           Square(a - k * Step) + Square(b - (n - k) * Step) <= Square(Tolerance)
<1>1. \A v \in Nat : \E i \in Nat, r \in 0..(Step - 1) : v - i * Step = r /\ i <= v /\ (r > 0 => i + 1 <= v)
  <2> SUFFICES ASSUME NEW v \in Nat
               PROVE  \E i \in Nat, r \in 0..(Step - 1) : v - i * Step = r /\ i <= v /\ (r > 0 => i + 1 <= v)
    OBVIOUS
  <2> DEFINE i == v \div Step
             r == v % Step
  <2>1. i \in Nat /\ r \in 0..(Step - 1) /\ v = Step * i + r
    OBVIOUS
  <2> HIDE DEF i, r
  <2>2. Step * i >= i /\ Step * i = i * Step /\ i * Step \in Int
    BY <2>1, SMTT(20)
  <2>3. v - i * Step = r /\ i <= v /\ (r > 0 => i + 1 <= v)
    BY <2>1, <2>2
  <2> QED
    BY <2>1, <2>3
<1>. a \in Nat /\ b \in Nat
  OBVIOUS
<1>2. PICK i \in Nat, r \in 0..(Step - 1) : a - i * Step = r /\ i <= a /\ (r > 0 => i + 1 <= a)
  BY <1>1
<1>3. PICK j \in Nat, u \in 0..(Step - 1) : b - j * Step = u /\ j <= b /\ (u > 0 => j + 1 <= b)
  BY <1>1
<1>4. Square(Step) <= Square(Tolerance) /\ Square(Step) \in Int /\ Square(Tolerance) \in Int
  BY SmallerSquare, SquareTypes
<1>5. CASE u <= r /\ r > 0
  <2> DEFINE n == i + 1 + j
             k == i + 1
  <2>1. n \in 0..(2 * Side) /\ k \in 0..n /\ n - k = j
    BY <1>2, <1>3, <1>5
  <2>2. a - k * Step = r - Step
    <3>1. k * Step = i * Step + Step
      BY SMTT(20)
    <3>2. i * Step \in Int
      OBVIOUS
    <3> QED
      BY <1>2, <3>1, <3>2
  <2>3. Square(r - Step) + Square(u) <= Square(Step)
    <3>1. Square(Step - r) + Square(u) <= Square(Step)
      BY <1>5, PastTheTarget
    <3>2. r - Step = -(Step - r) /\ Step - r \in Int
      OBVIOUS
    <3> QED
      BY <3>1, <3>2, SquareTypes
  <2>4. Square(r - Step) \in Int /\ Square(u) \in Int
    BY SquareTypes
  <2>5. Square(a - k * Step) + Square(b - (n - k) * Step) <= Square(Tolerance)
    BY <1>3, <1>4, <2>1, <2>2, <2>3, <2>4
  <2> HIDE DEF n, k
  <2> QED
    BY <2>1, <2>5
<1>6. CASE r < u
  <2> DEFINE n == i + (j + 1)
  <2>1. n \in 0..(2 * Side) /\ i \in 0..n /\ n - i = j + 1
    BY <1>2, <1>3, <1>6
  <2>2. b - (n - i) * Step = u - Step
    <3>1. (j + 1) * Step = j * Step + Step
      BY SMTT(20)
    <3>2. j * Step \in Int
      OBVIOUS
    <3> QED
      BY <1>3, <2>1, <3>1, <3>2
  <2>3. Square(r) + Square(u - Step) <= Square(Step)
    <3>1. Square(Step - u) + Square(r) <= Square(Step)
      BY <1>6, PastTheTarget
    <3>2. u - Step = -(Step - u) /\ Step - u \in Int
      OBVIOUS
    <3>3. Square(r) \in Int /\ Square(u - Step) \in Int /\ Square(u - Step) = Square(Step - u)
      BY <3>2, SquareTypes
    <3> QED
      BY <3>1, <3>3
  <2>4. Square(r) \in Int /\ Square(u - Step) \in Int
    BY SquareTypes
  <2>5. Square(a - i * Step) + Square(b - (n - i) * Step) <= Square(Tolerance)
    BY <1>2, <1>4, <2>1, <2>2, <2>3, <2>4
  <2> HIDE DEF n
  <2> QED
    BY <2>1, <2>5
<1>7. CASE r = 0 /\ u = 0
  <2>1. i + j \in 0..(2 * Side) /\ i \in 0..(i + j) /\ (i + j) - i = j
    BY <1>2, <1>3
  <2>2. Square(a - i * Step) = 0 /\ Square(b - ((i + j) - i) * Step) = 0
    BY <1>2, <1>3, <1>7, <2>1 DEF Square
  <2>3. Square(Tolerance) >= 0
    BY SquareTypes
  <2> DEFINE n == i + j
  <2>5. Square(a - i * Step) + Square(b - (n - i) * Step) <= Square(Tolerance)
    BY <1>4, <2>1, <2>2, <2>3
  <2>6. n \in 0..(2 * Side) /\ i \in 0..n
    BY <2>1
  <2> HIDE DEF n
  <2> QED
    BY <2>5, <2>6
<1> QED
  BY <1>5, <1>6, <1>7

-----------------------------------------------------------------------------
\* A game that does what the inputs make it do, on ground where no wall is within a move of the target, and moves no
\* longer than the tolerance.
OpenGround == Calm /\ Step <= Tolerance /\ Target \in Step..(Side - Step)

LEMMA GroundTypes ==
  ASSUME Body!SizeAssumption
  PROVE  /\ Side \in Nat \ {0} /\ Step \in Nat \ {0} /\ MaxSteps \in Nat \ {0} /\ Tolerance \in Nat
         /\ Target \in 0..Side
BY DEF Body!SizeAssumption

\* The move of the skill goes along the farther axis, and the game lets it.
LEMMA MovesTowardTheTarget ==
  ASSUME Body!SizeAssumption, OpenGround, NEW p \in Body!Position
  PROVE  LET a == Body!MovementToward(p, Body!Goal)
             x == Away(p)[1]
             y == Away(p)[2]
         IN  \/ a = "wait" /\ x = 0 /\ y = 0
             \/ /\ a \in {"left", "right"} /\ y <= x /\ x > 0 /\ Body!Shift(p, a) \in Body!Position
                /\ Away(Body!Shift(p, a)) = <<Body!Abs(x - Step), y>>
             \/ /\ a \in {"up", "down"} /\ x < y /\ Body!Shift(p, a) \in Body!Position
                /\ Away(Body!Shift(p, a)) = <<x, Body!Abs(y - Step)>>
<1> DEFINE a == Body!MovementToward(p, Body!Goal)
           x == Away(p)[1]
           y == Away(p)[2]
           dx == Target - p[1]
           dy == Target - p[2]
<1>1. /\ Side \in Nat /\ Step \in Nat \ {0} /\ Target \in Step..(Side - Step)
      /\ p[1] \in 0..Side /\ p[2] \in 0..Side /\ p = <<p[1], p[2]>> /\ Target \in Int
  BY GroundTypes DEF Body!Position, OpenGround
<1>2. dx \in Int /\ dy \in Int /\ x = Body!Abs(dx) /\ y = Body!Abs(dy)
  BY <1>1 DEF Away, Body!Abs
<1>3. a = IF x >= y /\ dx > 0 THEN "right" ELSE IF x >= y /\ dx < 0 THEN "left"
          ELSE IF dy > 0 THEN "down" ELSE IF dy < 0 THEN "up" ELSE "wait"
  BY <1>2 DEF Body!MovementToward, Body!Goal
<1> HIDE DEF a, x, y
<1>4. x \in Nat /\ y \in Nat /\ (x = 0 <=> dx = 0) /\ (y = 0 <=> dy = 0)
  BY <1>2 DEF Body!Abs
<1>5. CASE a = "right"
  <2>1. dx > 0 /\ x = dx /\ y <= x
    BY <1>2, <1>3, <1>4, <1>5 DEF Body!Abs
  <2>2. Body!Shift(p, a) = <<p[1] + Step, p[2]>>
    BY <1>5 DEF Body!Shift
  <2>3. <<p[1] + Step, p[2]>> \in Body!Position
    BY <1>1, <2>1 DEF Body!Position
  <2>4. Body!Abs((p[1] + Step) - Target) = Body!Abs(x - Step) /\ Body!Abs(p[2] - Target) = y
    BY <1>1, <1>2, <2>1 DEF Body!Abs
  <2>5. Away(Body!Shift(p, a)) = <<Body!Abs(x - Step), y>>
    BY <2>2, <2>4 DEF Away
  <2> QED
    BY <1>5, <2>1, <2>2, <2>3, <2>5 DEF a, x, y
<1>6. CASE a = "left"
  <2>1. dx < 0 /\ x = -dx /\ y <= x /\ x > 0
    BY <1>2, <1>3, <1>4, <1>6 DEF Body!Abs
  <2>2. Body!Shift(p, a) = <<p[1] - Step, p[2]>>
    BY <1>6 DEF Body!Shift
  <2>3. <<p[1] - Step, p[2]>> \in Body!Position
    BY <1>1, <2>1 DEF Body!Position
  <2>4. Body!Abs((p[1] - Step) - Target) = Body!Abs(x - Step) /\ Body!Abs(p[2] - Target) = y
    BY <1>1, <1>2, <2>1 DEF Body!Abs
  <2>5. Away(Body!Shift(p, a)) = <<Body!Abs(x - Step), y>>
    BY <2>2, <2>4 DEF Away
  <2> QED
    BY <1>6, <2>1, <2>2, <2>3, <2>5 DEF a, x, y
<1>7. CASE a = "down"
  <2>1. dy > 0 /\ y = dy /\ x < y
    BY <1>2, <1>3, <1>4, <1>7 DEF Body!Abs
  <2>2. Body!Shift(p, a) = <<p[1], p[2] + Step>>
    BY <1>7 DEF Body!Shift
  <2>3. <<p[1], p[2] + Step>> \in Body!Position
    BY <1>1, <2>1 DEF Body!Position
  <2>4. Body!Abs((p[2] + Step) - Target) = Body!Abs(y - Step) /\ Body!Abs(p[1] - Target) = x
    BY <1>1, <1>2, <2>1 DEF Body!Abs
  <2>5. Away(Body!Shift(p, a)) = <<x, Body!Abs(y - Step)>>
    BY <2>2, <2>4 DEF Away
  <2> QED
    BY <1>7, <2>1, <2>2, <2>3, <2>5 DEF a, x, y
<1>8. CASE a = "up"
  <2>1. dy < 0 /\ y = -dy /\ x < y
    BY <1>2, <1>3, <1>4, <1>8 DEF Body!Abs
  <2>2. Body!Shift(p, a) = <<p[1], p[2] - Step>>
    BY <1>8 DEF Body!Shift
  <2>3. <<p[1], p[2] - Step>> \in Body!Position
    BY <1>1, <2>1 DEF Body!Position
  <2>4. Body!Abs((p[2] - Step) - Target) = Body!Abs(y - Step) /\ Body!Abs(p[1] - Target) = x
    BY <1>1, <1>2, <2>1 DEF Body!Abs
  <2>5. Away(Body!Shift(p, a)) = <<x, Body!Abs(y - Step)>>
    BY <2>2, <2>4 DEF Away
  <2> QED
    BY <1>8, <2>1, <2>2, <2>3, <2>5 DEF a, x, y
<1>9. CASE a = "wait"
  <2>1. x = 0 /\ y = 0
    BY <1>2, <1>3, <1>4, <1>9
  <2> QED
    BY <1>9, <2>1 DEF a, x, y
<1> QED
  BY <1>3, <1>5, <1>6, <1>7, <1>8, <1>9

\* What is left of the way after k moves along the first axis, m along the second.
Across(k) == Away(start.at)[1] - k * Step
Down(m) == Away(start.at)[2] - m * Step

\* Some n moves end within the tolerance.
Reaches(n) == \E k \in 0..n : Square(Across(k)) + Square(Down(n - k)) <= Square(Tolerance)

LEMMA WayTypes ==
  ASSUME Body!SizeAssumption, start.at \in Body!Position
  PROVE  /\ Away(start.at) \in (0..Side) \X (0..Side)
         /\ \A k \in Int : /\ Across(k) \in Int /\ Down(k) \in Int
                           /\ Across(k + 1) = Across(k) - Step /\ Down(k + 1) = Down(k) - Step
         /\ Across(0) = Away(start.at)[1] /\ Down(0) = Away(start.at)[2]
<1>1. Side \in Nat /\ Step \in Nat /\ Target \in 0..Side /\ start.at[1] \in 0..Side /\ start.at[2] \in 0..Side
  BY GroundTypes DEF Body!Position
<1>2. Body!Abs(start.at[1] - Target) \in 0..Side /\ Body!Abs(start.at[2] - Target) \in 0..Side
  BY <1>1 DEF Body!Abs
<1>3. Away(start.at) \in (0..Side) \X (0..Side) /\ Away(start.at)[1] \in Int /\ Away(start.at)[2] \in Int
  BY <1>1, <1>2 DEF Away
<1>4. ASSUME NEW k \in Int
      PROVE  /\ k * Step \in Int /\ (k + 1) * Step = k * Step + Step
  BY <1>1, SMTT(20)
<1>5. 0 * Step = 0
  BY <1>1
<1> QED
  BY <1>1, <1>3, <1>4, <1>5 DEF Across, Down

\* Neither axis is ahead of the other by more than a move that was made along it.
Balanced(k, m) ==
  /\ k > 0 => Across(k) + Step >= Down(m)
  /\ m > 0 => Down(m) + Step >= Across(k)

LEMMA NoOtherSplitReaches ==
  ASSUME Body!SizeAssumption, start.at \in Body!Position, NEW n \in Nat, NEW k \in 0..n, Balanced(k, n - k),
         ~(Square(Across(k)) + Square(Down(n - k)) <= Square(Tolerance))
  PROVE  ~Reaches(n)
<1> SUFFICES ASSUME NEW j \in 0..n PROVE ~(Square(Across(j)) + Square(Down(n - j)) <= Square(Tolerance))
  BY DEF Reaches
<1> DEFINE m == k - j
<1>0. Step \in Nat /\ Across(k) \in Int /\ Down(n - k) \in Int /\ Across(j) \in Int /\ Down(n - j) \in Int
      /\ Tolerance \in Nat /\ m \in Int
  BY GroundTypes, WayTypes
<1>1. Across(j) = Across(k) + m * Step /\ Down(n - j) = Down(n - k) - m * Step
  <2>1. m * Step = k * Step - j * Step /\ (n - j) * Step = (n - k) * Step + m * Step
    BY <1>0, SMTT(20)
  <2>2. k * Step \in Int /\ j * Step \in Int /\ (n - k) * Step \in Int /\ (n - j) * Step \in Int
    BY <1>0
  <2>3. Away(start.at)[1] \in Int /\ Away(start.at)[2] \in Int
    BY WayTypes, GroundTypes
  <2> HIDE DEF m
  <2> QED
    BY <2>1, <2>2, <2>3 DEF Across, Down
<1>2. (m > 0 => Across(k) + Step >= Down(n - k)) /\ (m < 0 => Down(n - k) + Step >= Across(k))
  BY DEF Balanced
<1> HIDE DEF m
<1>3. Square(Across(k)) + Square(Down(n - k)) <= Square(Across(k) + m * Step) + Square(Down(n - k) - m * Step)
  BY <1>0, <1>2, BalancedIsNearest
<1>4. Square(Across(k)) + Square(Down(n - k)) <= Square(Across(j)) + Square(Down(n - j))
  BY <1>1, <1>3
<1>5. /\ Square(Across(k)) \in Int /\ Square(Down(n - k)) \in Int /\ Square(Across(j)) \in Int
      /\ Square(Down(n - j)) \in Int /\ Square(Tolerance) \in Int
  BY <1>0, SquareTypes
<1> QED
  BY <1>4, <1>5

\* Needed, by what it chooses from.
LEMMA NeededIsLeast ==
  ASSUME Body!SizeAssumption, start.at \in Body!Position
  PROVE  LET Enough == {n \in 0..(2 * Side) : Reaches(n)}
         IN  Body!Needed(start.at) = CHOOSE n \in Enough : \A m \in Enough : n <= m
<1>1. \A n \in 0..(2 * Side) : \A k \in 0..n :
        LET x == Body!Abs(start.at[1] - Target) - k * Step
            y == Body!Abs(start.at[2] - Target) - (n - k) * Step
        IN  x = Across(k) /\ y = Down(n - k)
  BY DEF Across, Down, Away
<1>2. {n \in 0..(2 * Side) : \E k \in 0..n :
         LET x == Body!Abs(start.at[1] - Target) - k * Step
             y == Body!Abs(start.at[2] - Target) - (n - k) * Step
         IN  x * x + y * y <= Tolerance * Tolerance} = {n \in 0..(2 * Side) : Reaches(n)}
  BY <1>1 DEF Reaches, Square
<1> QED
  BY <1>2 DEF Body!Needed

LEMMA NeededFound ==
  ASSUME Body!SizeAssumption, start.at \in Body!Position, NEW n \in 0..(2 * Side), Reaches(n),
         \A m \in 0..(n - 1) : ~Reaches(m)
  PROVE  Body!Needed(start.at) = n
<1> DEFINE Enough == {m \in 0..(2 * Side) : Reaches(m)}
<1>1. Body!Needed(start.at) = CHOOSE m \in Enough : \A j \in Enough : m <= j
  BY NeededIsLeast
<1>2. Side \in Nat
  BY GroundTypes
<1>3. n \in Enough /\ \A j \in Enough : n <= j
  BY <1>2
<1>4. \A m \in Enough : (\A j \in Enough : m <= j) => m = n
  BY <1>2, <1>3
<1> HIDE DEF Enough
<1> QED
  BY <1>1, <1>3, <1>4

LEMMA NeededIsMore ==
  ASSUME Body!SizeAssumption, Step <= Tolerance, start.at \in Body!Position, NEW n \in Nat,
         \A m \in 0..n : ~Reaches(m)
  PROVE  Body!Needed(start.at) > n
<1> DEFINE Enough == {m \in 0..(2 * Side) : Reaches(m)}
<1>1. Body!Needed(start.at) = CHOOSE m \in Enough : \A j \in Enough : m <= j
  BY NeededIsLeast
<1>2. Side \in Nat /\ Step \in Nat \ {0} /\ Tolerance \in Nat
  BY GroundTypes
<1>3. Enough # {}
  <2>1. Away(start.at)[1] \in 0..Side /\ Away(start.at)[2] \in 0..Side
    BY WayTypes
  <2>2. PICK m \in 0..(2 * Side) : \E k \in 0..m :
          Square(Away(start.at)[1] - k * Step) + Square(Away(start.at)[2] - (m - k) * Step) <= Square(Tolerance)
    BY <1>2, <2>1, SomeMovesSuffice
  <2>3. Reaches(m)
    BY <2>2 DEF Reaches, Across, Down
  <2> QED
    BY <2>3
<1>4. Enough \in SUBSET Nat /\ \A m \in Enough : m > n
  BY <1>2
<1> HIDE DEF Enough
<1>5. \E m \in Enough : \A j \in Enough : m <= j
  BY <1>3, <1>4, LeastNatural
<1>6. Body!Needed(start.at) \in Enough
  BY <1>1, <1>5
<1> QED
  BY <1>4, <1>6

\* Reaching by no moves.
LEMMA NoMoves ==
  ASSUME Reaches(0)
  PROVE  Square(Across(0)) + Square(Down(0)) <= Square(Tolerance)
<1>1. PICK i \in 0..0 : Square(Across(i)) + Square(Down(0 - i)) <= Square(Tolerance)
  BY DEF Reaches
<1>2. i = 0
  OBVIOUS
<1>3. 0 - 0 = 0
  OBVIOUS
<1> QED
  BY <1>1, <1>2, <1>3

\* One more move along the farther axis either arrives, or leaves a balanced way that no other moves shorten.
LEMMA OneMoreMove ==
  ASSUME Body!SizeAssumption, OpenGround, start.at \in Body!Position, NEW p \in Body!Position,
         NEW q \in Body!Position,
         NEW n \in Nat, NEW k \in 0..n, Away(p) = <<Across(k), Down(n - k)>>, Balanced(k, n - k),
         n > 0 => \A m \in 0..n : ~Reaches(m),
         NEW j \in {k, k + 1},
         j = k + 1 => Down(n - k) <= Across(k) /\ Across(k) > 0,
         j = k => Across(k) < Down(n - k),
         Away(q) = <<Body!Abs(Across(j)), Body!Abs(Down((n + 1) - j))>>
  PROVE  /\ Body!Near(q) => \/ Body!Needed(start.at) = n + 1
                            \/ Body!Needed(start.at) = 0 /\ n = 0
         /\ ~Body!Near(q) => /\ Away(q) = <<Across(j), Down((n + 1) - j)>> /\ Balanced(j, (n + 1) - j)
                             /\ \A m \in 0..(n + 1) : ~Reaches(m)
<1> DEFINE x == Across(k)
           y == Down(n - k)
           u == Across(j)
           v == Down((n + 1) - j)
<1>1. /\ Side \in Nat \ {0} /\ Step \in Nat \ {0} /\ Tolerance \in Nat /\ Target \in Int
      /\ p \in Int \X Int /\ q \in Int \X Int /\ j \in 0..(n + 1)
  BY GroundTypes DEF Body!Position
<1>2. x \in Int /\ y \in Int /\ u \in Int /\ v \in Int
  BY <1>1, WayTypes
<1>3. x \in Nat /\ y \in Nat
  <2>1. Away(p)[1] \in Nat /\ Away(p)[2] \in Nat
    BY <1>1, NearIsOff
  <2> QED
    BY <2>1
<1>4. /\ j = k + 1 => u = x - Step /\ v = y
      /\ j = k => u = x /\ v = y - Step
  <2>1. \A i \in Int : Across(i + 1) = Across(i) - Step /\ Down(i + 1) = Down(i) - Step
    BY WayTypes
  <2>2. (n + 1) - (k + 1) = n - k /\ (n + 1) - k = (n - k) + 1 /\ n - k \in Int /\ k \in Int
    OBVIOUS
  <2> QED
    BY <2>1, <2>2
<1>5. Balanced(j, (n + 1) - j)
  <2>1. k > 0 => x + Step >= y
    BY DEF Balanced
  <2>2. n - k > 0 => y + Step >= x
    BY DEF Balanced
  <2>3. CASE j = k + 1
    <3>1. u + Step >= v /\ u = x - Step /\ v = y /\ (n + 1) - j = n - k
      BY <1>1, <1>3, <1>4, <2>3
    <3>2. n - k > 0 => v + Step >= u
      BY <1>1, <1>3, <2>2, <3>1
    <3> HIDE DEF x, y
    <3> QED
      BY <3>1, <3>2 DEF Balanced
  <2>4. CASE j = k /\ j # k + 1
    <3>1. v + Step >= u /\ u = x /\ v = y - Step
      BY <1>1, <1>3, <1>4, <2>4
    <3>2. k > 0 => u + Step >= v
      BY <1>1, <1>3, <2>1, <3>1
    <3> HIDE DEF x, y
    <3> QED
      BY <2>4, <3>1, <3>2 DEF Balanced
  <2> QED
    BY <2>3, <2>4
<1> HIDE DEF x, y, u, v
<1>6. Body!Near(q) <=> Square(u) + Square(v) <= Square(Tolerance)
  <2>1. Square(Body!Abs(u)) = Square(u) /\ Square(Body!Abs(v)) = Square(v)
    BY <1>2, SquareTypes DEF Body!Abs
  <2>2. Away(q)[1] = Body!Abs(u) /\ Away(q)[2] = Body!Abs(v)
    BY DEF u, v
  <2> QED
    BY <1>1, <2>1, <2>2, NearIsOff
<1>7. Body!Near(q) => Reaches(n + 1)
  BY <1>1, <1>6 DEF Reaches, u, v
<1>8. Square(u) + Square(v) <= Square(Tolerance) \/ ~Reaches(0) \/ n > 0
  <2> SUFFICES ASSUME Reaches(0), ~(n > 0) PROVE Square(u) + Square(v) <= Square(Tolerance)
    BY <1>1
  <2>1. Square(x) + Square(y) <= Square(Tolerance)
    <3>1. k = 0 /\ n - k = 0
      <4>1. k \in Nat /\ k <= n
        OBVIOUS
      <4> QED
        BY <4>1
    <3>2. Square(Across(0)) + Square(Down(0)) <= Square(Tolerance)
      BY NoMoves
    <3> QED
      BY <3>1, <3>2 DEF x, y
  <2>2. CASE j = k + 1
    <3>1. y <= x
      BY <2>2 DEF x, y
    <3> QED
      BY <1>1, <1>3, <1>4, <2>1, <2>2, <3>1, NearStaysNear DEF OpenGround
  <2>3. CASE j = k /\ j # k + 1
    <3>1. x <= y
      BY <1>3, <2>3 DEF x, y
    <3>2. Square(y) + Square(x) <= Square(Tolerance)
      BY <1>2, <2>1, SquareTypes
    <3>3. Square(y - Step) + Square(x) <= Square(Tolerance)
      BY <1>1, <1>3, <3>1, <3>2, NearStaysNear DEF OpenGround
    <3> QED
      BY <1>2, <1>4, <2>3, <3>3, SquareTypes
  <2> QED
    BY <2>2, <2>3
<1>9. Body!Near(q) => \/ Body!Needed(start.at) = n + 1
                      \/ Body!Needed(start.at) = 0 /\ n = 0
  <2> SUFFICES ASSUME Body!Near(q) PROVE \/ Body!Needed(start.at) = n + 1
                                         \/ Body!Needed(start.at) = 0 /\ n = 0
    OBVIOUS
  <2>1. n + 1 \in 0..(2 * Side)
    <3> DEFINE a == Away(start.at)[1]
               b == Away(start.at)[2]
    <3>1. a \in 0..Side /\ b \in 0..Side
      BY WayTypes
    <3>2. x = a - k * Step /\ y = b - (n - k) * Step
      BY DEF x, y, Across, Down
    <3>3. k * Step >= k /\ (n - k) * Step >= n - k /\ k * Step \in Int /\ (n - k) * Step \in Int
      <4>1. \A i \in Nat : i * Step >= i /\ i * Step \in Int
        BY <1>1, SMTT(20)
      <4> QED
        BY <4>1
    <3>4. x > 0 \/ y > 0
      BY <1>3 DEF x, y
    <3>5. k <= n /\ k \in Nat /\ n - k \in Nat
      OBVIOUS
    <3> HIDE DEF a, b
    <3>6. k <= a /\ n - k <= b /\ (k < a \/ n - k < b)
      BY <1>3, <3>1, <3>2, <3>3, <3>4, <3>5
    <3> QED
      BY <1>1, <3>1, <3>5, <3>6
  <2>2. CASE n = 0 /\ Reaches(0)
    <3>1. \A m \in 0..(0 - 1) : ~Reaches(m)
      OBVIOUS
    <3> QED
      BY <1>1, <2>2, <3>1, NeededFound
  <2>3. CASE ~(n = 0 /\ Reaches(0))
    <3>1. \A m \in 0..n : ~Reaches(m)
      BY <2>3
    <3>2. \A m \in 0..((n + 1) - 1) : ~Reaches(m)
      BY <3>1
    <3> QED
      BY <1>7, <2>1, <3>2, NeededFound
  <2> QED
    BY <2>2, <2>3
<1>10. ASSUME ~Body!Near(q)
       PROVE  /\ Away(q) = <<Across(j), Down((n + 1) - j)>>
              /\ \A m \in 0..(n + 1) : ~Reaches(m)
  <2>1. u >= 0 /\ v >= 0
    <3> SUFFICES ASSUME u < 0 \/ v < 0 PROVE Square(u) + Square(v) <= Square(Tolerance)
      BY <1>2, <1>6, <1>10
    <3>1. Square(Step) <= Square(Tolerance) /\ Square(Step) \in Int /\ Square(Tolerance) \in Int
      BY <1>1, SmallerSquare, SquareTypes DEF OpenGround
    <3>2. Square(u) \in Int /\ Square(v) \in Int /\ Square(-u) = Square(u) /\ Square(-v) = Square(v)
      BY <1>2, SquareTypes
    <3>3. CASE j = k + 1
      <4>1. y <= x /\ u = x - Step /\ v = y /\ x <= Step /\ -u = Step - x
        BY <1>1, <1>3, <1>4, <3>3 DEF x, y
      <4>2. Square(Step - x) + Square(y) <= Square(Step)
        BY <1>1, <1>3, <4>1, PastTheTarget
      <4> QED
        BY <3>1, <3>2, <4>1, <4>2
    <3>4. CASE j = k /\ j # k + 1
      <4>1. x <= y /\ u = x /\ v = y - Step /\ y <= Step /\ -v = Step - y
        BY <1>1, <1>3, <1>4, <3>4 DEF x, y
      <4>2. Square(Step - y) + Square(x) <= Square(Step)
        BY <1>1, <1>3, <4>1, PastTheTarget
      <4> QED
        BY <3>1, <3>2, <4>1, <4>2
    <3> QED
      BY <3>3, <3>4
  <2>2. Body!Abs(u) = u /\ Body!Abs(v) = v
    BY <1>2, <2>1 DEF Body!Abs
  <2>3. ~Reaches(n + 1)
    <3>1. ~(Square(u) + Square(v) <= Square(Tolerance)) /\ n + 1 \in Nat
      BY <1>6, <1>10
    <3> QED
      BY <1>1, <1>5, <3>1, NoOtherSplitReaches DEF u, v
  <2>4. \A m \in 0..n : ~Reaches(m)
    <3>1. n = 0 => ~Reaches(0)
      BY <1>6, <1>8, <1>10
    <3> QED
      BY <3>1
  <2> QED
    BY <2>2, <2>3, <2>4 DEF u, v
<1> QED
  BY <1>5, <1>9, <1>10

\* Where the run stands after n moves.
Underway(n) ==
  /\ \E k \in 0..n : Away(world.at) = <<Across(k), Down(n - k)>> /\ Balanced(k, n - k)
  /\ n > 0 => \A m \in 0..n : ~Reaches(m)

\* The walk is seen as it is: a move is chosen from where the player stands.
WalkInv ==
  skill = "basic_reach_target" =>
    /\ world.ui = "map" /\ start.at \in Body!Position
    /\ latest.ui = "map" /\ latest.at = world.at
    /\ ending = None /\ action = None => route = steps /\ Underway(steps)
    /\ action # None => /\ ending = None /\ steps >= 1 /\ Underway(steps - 1)
                        /\ action = Body!MovementToward(world.at, Body!Goal)
                        /\ route = IF action \in Body!Moves THEN steps ELSE steps - 1
    /\ Body!GreedyWalkIsShortest

LEMMA GroundIsSeen ==
  ASSUME Body!NoneAssumption, OpenGround, NEW w \in Body!Worlds, NEW o \in Body!Views(w)
  PROVE  o.ui = w.ui /\ o.at = w.at /\ o.evidence = TRUE /\ o.at # None /\ w.at \in Body!Position
BY DEF Body!Views, OpenGround, Body!NoneAssumption, Body!Worlds, Body!World

LEMMA WalkInit ==
  ASSUME Body!SizeAssumption, Body!NoneAssumption, OpenGround, Body!Init
  PROVE  WalkInv
<1> SUFFICES ASSUME skill = "basic_reach_target" PROVE WalkInv
  BY DEF WalkInv
<1>1. /\ world \in Body!Worlds /\ world.ui = "map" /\ start \in Body!Views(world) /\ latest = start
      /\ action = None /\ steps = 0 /\ route = 0
      /\ ending = IF Body!CanStart(skill, start) THEN None ELSE "precondition_failed"
  BY DEF Body!Init, OpenGround
<1>2. start.ui = "map" /\ start.at = world.at /\ start.at # None /\ start.at \in Body!Position
  BY <1>1, GroundIsSeen
<1>3. ending = None
  BY <1>1, <1>2 DEF Body!CanStart
<1>4. Away(world.at) = <<Across(0), Down(0 - 0)>>
  BY <1>2, WayTypes DEF Away
<1>5. Underway(0)
  BY <1>4 DEF Underway, Balanced
<1>6. Body!GreedyWalkIsShortest
  BY <1>3 DEF Body!GreedyWalkIsShortest, Body!NoneAssumption, Body!Endings
<1> QED
  BY <1>1, <1>2, <1>5, <1>6 DEF WalkInv

LEMMA ProposalWalks ==
  ASSUME Body!SizeAssumption, Body!NoneAssumption, OpenGround, SkillInv, WalkInv, Body!Propose
  PROVE  WalkInv'
<1> SUFFICES ASSUME skill = "basic_reach_target" PROVE WalkInv'
  BY DEF WalkInv, Body!Propose
<1>1. /\ ending = None /\ action = None /\ ending' = None /\ steps' = steps + 1 /\ action' = Body!NextAction(latest)
      /\ route' = IF action' \in Body!Moves THEN route + 1 ELSE route
      /\ UNCHANGED <<skill, world, start, latest>>
  BY DEF Body!Propose
<1>2. steps \in Nat /\ latest.at # None
  <2>1. world.at \in Body!Position
    BY DEF SkillInv, Body!TypeOK, Body!Worlds, Body!World
  <2> QED
    BY <2>1 DEF SkillInv, Body!TypeOK, Body!SizeAssumption, WalkInv, Body!NoneAssumption
<1>3. action' = Body!MovementToward(world.at, Body!Goal)
  BY <1>1, <1>2 DEF Body!NextAction, Body!CanStart, WalkInv
<1>4. Underway(steps) /\ route = steps
  BY <1>1 DEF WalkInv
<1>5. Underway(steps - 1)'
  <2>1. steps' - 1 = steps
    BY <1>1, <1>2
  <2>2. world' = world /\ start' = start
    BY <1>1
  <2>3. ASSUME NEW k, NEW m
        PROVE  Across(k)' = Across(k) /\ Down(m)' = Down(m) /\ Balanced(k, m)' = Balanced(k, m)
    BY <2>2 DEF Away, Across, Down, Balanced
  <2>4. ASSUME NEW m
        PROVE  Reaches(m)' = Reaches(m)
    BY <2>3 DEF Reaches
  <2> QED
    BY <1>4, <2>1, <2>2, <2>3, <2>4 DEF Underway, Away
<1>6. route' = IF action' \in Body!Moves THEN steps' ELSE steps' - 1
  BY <1>1, <1>2, <1>4
<1>7. (action = Body!MovementToward(world.at, Body!Goal))'
  BY <1>1, <1>3
<1>8. Body!GreedyWalkIsShortest'
  BY <1>1 DEF Body!GreedyWalkIsShortest, Body!NoneAssumption, Body!Endings
<1>9. /\ ending' = None /\ steps' >= 1 /\ action' # None
      /\ (world.ui = "map" /\ start.at \in Body!Position /\ latest.ui = "map" /\ latest.at = world.at)'
  <2>1. action' \in Body!Actions
    BY <1>3 DEF Body!MovementToward, Body!Actions, Body!Moves
  <2> QED
    BY <1>1, <1>2, <2>1 DEF WalkInv, Body!NoneAssumption
<1> QED
  BY <1>5, <1>6, <1>7, <1>8, <1>9 DEF WalkInv

LEMMA TimeOutIsEarned ==
  ASSUME Body!SizeAssumption, Body!NoneAssumption, OpenGround, WalkInv, Body!TimeOut
  PROVE  WalkInv'
<1> SUFFICES ASSUME skill = "basic_reach_target" PROVE WalkInv'
  BY DEF WalkInv, Body!TimeOut
<1>1. /\ ending = None /\ action = None /\ steps = MaxSteps /\ ending' = "timeout"
      /\ UNCHANGED <<skill, world, start, latest, action, steps, route>>
  BY DEF Body!TimeOut
<1>2. MaxSteps \in Nat /\ MaxSteps > 0
  BY GroundTypes
<1>3. start.at \in Body!Position /\ \A m \in 0..MaxSteps : ~Reaches(m)
  BY <1>1, <1>2 DEF WalkInv, Underway
<1>4. Body!Needed(start.at) > MaxSteps
  BY <1>2, <1>3, NeededIsMore DEF OpenGround
<1>5. Body!Needed(start.at)' = Body!Needed(start.at)
  BY <1>1
<1>6. Body!GreedyWalkIsShortest'
  BY <1>1, <1>4, <1>5 DEF Body!GreedyWalkIsShortest
<1>7. ending' # None
  BY <1>1 DEF Body!NoneAssumption, Body!Endings
<1> QED
  BY <1>1, <1>6, <1>7 DEF WalkInv

\* A verification on open ground says success exactly within the tolerance, and decides nothing else.
LEMMA WalkIsVerified ==
  ASSUME Body!SizeAssumption, Body!NoneAssumption, OpenGround, SkillInv, WalkInv, Body!ObserveAndVerify,
         skill = "basic_reach_target"
  PROVE  /\ world' \in Body!Reactions(world) /\ world' \in Body!Worlds
         /\ latest'.ui = world'.ui /\ latest'.at = world'.at
         /\ world'.ui = "map" => ending' = IF Body!Near(world'.at) THEN "success" ELSE None
<1>1. PICK w \in Body!Reactions(world) \cup Body!Interruptions(world) : \E after \in Body!Views(w) :
        /\ world' = w /\ latest' = after
        /\ ending' = Body!Terminal(Body!Verify(start, after), after)
  BY DEF Body!ObserveAndVerify
<1>2. PICK after \in Body!Views(w) :
        /\ world' = w /\ latest' = after
        /\ ending' = Body!Terminal(Body!Verify(start, after), after)
  BY <1>1
<1>3. w \in Body!Reactions(world)
  BY DEF Body!Interruptions, OpenGround
<1>4. w \in Body!Worlds
  BY WorldsStay DEF SkillInv, Body!TypeOK
<1>5. after.ui = w.ui /\ after.at = w.at /\ after.evidence = TRUE /\ after.at # None
  BY <1>4, GroundIsSeen
<1>6. ASSUME w.ui = "map"
      PROVE  ending' = IF Body!Near(w.at) THEN "success" ELSE None
  <2>1. Body!Done(start, after) <=> Body!Near(w.at)
    BY <1>5 DEF Body!Done, Body!ReachDone
  <2>2. Body!Verify(start, after) = IF Body!Near(w.at) THEN Body!Success ELSE Body!Undecided
    BY <1>5, <1>6, <2>1 DEF Body!Verify
  <2> QED
    BY <1>2, <1>5, <1>6, <2>2, VerdictsDiffer DEF Body!Terminal
<1> QED
  BY <1>2, <1>3, <1>4, <1>5, <1>6

LEMMA MoveWalks ==
  ASSUME Body!SizeAssumption, Body!NoneAssumption, OpenGround, SkillInv, WalkInv, Body!ObserveAndVerify
  PROVE  WalkInv'
<1> SUFFICES ASSUME skill = "basic_reach_target" PROVE WalkInv'
  BY DEF WalkInv, Body!ObserveAndVerify
<1>1. ending = None /\ action # None /\ action' = None /\ UNCHANGED <<skill, start, steps, route>>
  BY DEF Body!ObserveAndVerify
<1>2. /\ world' \in Body!Reactions(world) /\ world' \in Body!Worlds
      /\ latest'.ui = world'.ui /\ latest'.at = world'.at
      /\ world'.ui = "map" => ending' = IF Body!Near(world'.at) THEN "success" ELSE None
  BY WalkIsVerified
<1> DEFINE n == steps - 1
           p == world.at
           q == world'.at
<1>3. /\ world.ui = "map" /\ start.at \in Body!Position /\ action = Body!MovementToward(p, Body!Goal)
      /\ route = IF action \in Body!Moves THEN steps ELSE steps - 1
      /\ Underway(n) /\ steps >= 1
  BY <1>1 DEF WalkInv
<1>4. steps \in Nat /\ n \in Nat /\ n + 1 = steps /\ p \in Body!Position /\ world \in Body!Worlds /\ q \in Body!Position
  BY <1>2, <1>3 DEF SkillInv, Body!TypeOK, Body!SizeAssumption, Body!Worlds, Body!World
<1>5. PICK k \in 0..n : Away(p) = <<Across(k), Down(n - k)>> /\ Balanced(k, n - k)
  BY <1>3 DEF Underway
<1>6. n > 0 => \A m \in 0..n : ~Reaches(m)
  BY <1>3 DEF Underway
<1>7. /\ "wait" \notin Body!Moves /\ "wait" # "confirm"
      /\ {"left", "right", "up", "down"} \subseteq Body!Moves
  BY DEF Body!Moves
<1>8. ASSUME action \in Body!Moves, Body!Shift(p, action) \in Body!Position
      PROVE  world'.ui = "map" /\ q = Body!Shift(p, action) /\ route = steps
  <2>1. world' = Body!Moved(world)
    BY <1>2, <1>8 DEF Body!Reactions, Body!Moves
  <2>2. world' = [world EXCEPT !.at = Body!Shift(p, action)]
    BY <1>3, <1>8, <2>1 DEF Body!Moved
  <2> QED
    BY <1>3, <1>4, <1>8, <2>2 DEF Body!Worlds, Body!World
<1> HIDE DEF n, p, q
<1>9. /\ world'.ui = "map" => ending' = IF Body!Near(q) THEN "success" ELSE None
      /\ None # "success" /\ None # "timeout"
      /\ Body!Needed(start.at)' = Body!Needed(start.at)
  BY <1>1, <1>2 DEF q, Body!NoneAssumption, Body!Endings
<1>10. ASSUME world'.ui = "map", Body!Near(q),
              route = Body!Needed(start.at) \/ (Body!Needed(start.at) = 0 /\ route = 1)
       PROVE  WalkInv'
  <2>1. Body!GreedyWalkIsShortest'
    BY <1>1, <1>9, <1>10 DEF Body!GreedyWalkIsShortest
  <2> QED
    BY <1>1, <1>2, <1>3, <1>9, <1>10, <2>1 DEF WalkInv
<1>11. ASSUME world'.ui = "map", ~Body!Near(q), route = steps,
              NEW j \in 0..steps, Away(q) = <<Across(j), Down(steps - j)>>, Balanced(j, steps - j),
              \A m \in 0..steps : ~Reaches(m)
       PROVE  WalkInv'
  <2>1. Underway(steps)'
    <3>1. ASSUME NEW i, NEW m
          PROVE  Across(i)' = Across(i) /\ Down(m)' = Down(m) /\ Balanced(i, m)' = Balanced(i, m)
      BY <1>1 DEF Away, Across, Down, Balanced
    <3>2. ASSUME NEW m
          PROVE  Reaches(m)' = Reaches(m)
      BY <3>1 DEF Reaches
    <3>3. Away(world.at)' = Away(q)
      BY DEF Away, q
    <3> QED
      BY <1>1, <1>11, <3>1, <3>2, <3>3 DEF Underway
  <2>2. Body!GreedyWalkIsShortest'
    BY <1>1, <1>9, <1>11 DEF Body!GreedyWalkIsShortest
  <2> QED
    BY <1>1, <1>2, <1>3, <1>9, <1>11, <2>1, <2>2 DEF WalkInv
<1>12. CASE action = "wait" /\ Away(p)[1] = 0 /\ Away(p)[2] = 0
  <2>1. world' = world /\ q = p /\ route = n
    BY <1>2, <1>3, <1>4, <1>7, <1>12 DEF Body!Reactions, p, q, n
  <2>2. Square(Across(k)) + Square(Down(n - k)) <= Square(Tolerance)
    <3>1. Square(0) = 0 /\ Square(Tolerance) >= 0
      BY GroundTypes, SquareTypes DEF Square
    <3>2. Across(k) = 0 /\ Down(n - k) = 0
      BY <1>5, <1>12
    <3> QED
      BY <3>1, <3>2
  <2>3. Reaches(n)
    BY <2>2 DEF Reaches
  <2>4. n = 0
    BY <1>4, <1>6, <2>3
  <2>5. Body!Needed(start.at) = 0
    <3>1. Reaches(0) /\ 0 \in 0..(2 * Side)
      BY <2>3, <2>4, GroundTypes
    <3>2. \A m \in 0..(0 - 1) : ~Reaches(m)
      OBVIOUS
    <3> QED
      BY <1>3, <3>1, <3>2, NeededFound
  <2>6. Body!Near(q)
    <3>1. p \in Int \X Int /\ Target \in Int /\ Tolerance \in Int
      BY <1>4, GroundTypes DEF Body!Position
    <3> QED
      BY <1>5, <2>1, <2>2, <3>1, NearIsOff
  <2>7. world'.ui = "map" /\ route = Body!Needed(start.at)
    BY <1>3, <2>1, <2>4, <2>5
  <2> QED
    BY <1>10, <2>6, <2>7
<1>13. ASSUME NEW j \in {k, k + 1}, action \in Body!Moves, Body!Shift(p, action) \in Body!Position,
              j = k + 1 => Down(n - k) <= Across(k) /\ Across(k) > 0,
              j = k => Across(k) < Down(n - k),
              Away(Body!Shift(p, action)) = <<Body!Abs(Across(j)), Body!Abs(Down((n + 1) - j))>>
       PROVE  WalkInv'
  <2>1. world'.ui = "map" /\ q = Body!Shift(p, action) /\ route = steps
    BY <1>8, <1>13
  <2>2. /\ Body!Near(q) => \/ Body!Needed(start.at) = n + 1
                           \/ Body!Needed(start.at) = 0 /\ n = 0
        /\ ~Body!Near(q) => /\ Away(q) = <<Across(j), Down((n + 1) - j)>> /\ Balanced(j, (n + 1) - j)
                            /\ \A m \in 0..(n + 1) : ~Reaches(m)
    BY <1>3, <1>4, <1>5, <1>6, <1>13, <2>1, OneMoreMove
  <2>3. CASE Body!Near(q)
    BY <1>4, <1>10, <2>1, <2>2, <2>3
  <2>4. CASE ~Body!Near(q)
    <3>1. j \in 0..(n + 1) /\ n + 1 = steps
      BY <1>4
    <3> QED
      BY <1>11, <2>1, <2>2, <2>4, <3>1
  <2> QED
    BY <2>3, <2>4
<1>14. /\ Across(k + 1) = Across(k) - Step /\ Down((n + 1) - (k + 1)) = Down(n - k)
       /\ Down((n + 1) - k) = Down(n - k) - Step
       /\ Body!Abs(Across(k)) = Across(k) /\ Body!Abs(Down(n - k)) = Down(n - k)
  <2>1. \A i \in Int : Across(i + 1) = Across(i) - Step /\ Down(i + 1) = Down(i) - Step
    BY <1>3, WayTypes
  <2>2. (n + 1) - (k + 1) = n - k /\ (n + 1) - k = (n - k) + 1 /\ n - k \in Int /\ k \in Int
    BY <1>4
  <2>3. Across(k) \in Nat /\ Down(n - k) \in Nat
    <3>1. p \in Int \X Int /\ Target \in Int /\ Tolerance \in Int
      BY <1>4, GroundTypes DEF Body!Position
    <3> QED
      BY <1>5, <3>1, NearIsOff
  <2> QED
    BY <2>1, <2>2, <2>3 DEF Body!Abs
<1>15. CASE /\ action \in {"left", "right"} /\ Away(p)[2] <= Away(p)[1] /\ Away(p)[1] > 0
            /\ Body!Shift(p, action) \in Body!Position
            /\ Away(Body!Shift(p, action)) = <<Body!Abs(Away(p)[1] - Step), Away(p)[2]>>
  <2>1. Away(Body!Shift(p, action)) = <<Body!Abs(Across(k + 1)), Body!Abs(Down((n + 1) - (k + 1)))>>
    BY <1>5, <1>14, <1>15
  <2>2. Down(n - k) <= Across(k) /\ Across(k) > 0 /\ k + 1 # k /\ action \in Body!Moves
    BY <1>5, <1>7, <1>15
  <2> QED
    BY <1>13, <1>15, <2>1, <2>2
<1>16. CASE /\ action \in {"up", "down"} /\ Away(p)[1] < Away(p)[2] /\ Body!Shift(p, action) \in Body!Position
            /\ Away(Body!Shift(p, action)) = <<Away(p)[1], Body!Abs(Away(p)[2] - Step)>>
  <2>1. Away(Body!Shift(p, action)) = <<Body!Abs(Across(k)), Body!Abs(Down((n + 1) - k))>>
    BY <1>5, <1>14, <1>16
  <2>2. Across(k) < Down(n - k) /\ k # k + 1 /\ action \in Body!Moves
    BY <1>5, <1>7, <1>16
  <2> QED
    BY <1>13, <1>16, <2>1, <2>2
<1> QED
  BY <1>3, <1>4, <1>12, <1>15, <1>16, MovesTowardTheTarget

\* GreedyWalkIsShortest: on open ground the reach skill, which always moves along the axis that is farther off,
\* arrives by the fewest moves there are, and times out only on a target that max_steps moves cannot reach, for any
\* size of the ground, target a move away from its walls, and tolerance of at least a move.
THEOREM GreedyWalksAreShortest ==
  ASSUME Body!SizeAssumption, Body!NoneAssumption, OpenGround
  PROVE  Body!Spec => []Body!GreedyWalkIsShortest
<1>1. Body!Init => WalkInv
  BY WalkInit
<1>2. SkillInv /\ WalkInv /\ [Body!Next]_(Body!vars) => WalkInv'
  <2> SUFFICES ASSUME SkillInv, WalkInv, [Body!Next]_(Body!vars) PROVE WalkInv'
    OBVIOUS
  <2>1. CASE UNCHANGED Body!vars
    <3>1. UNCHANGED <<skill, world, start, latest, action, steps, ending, route>>
      BY <2>1 DEF Body!vars
    <3>2. ASSUME NEW n
          PROVE  Underway(n)' = Underway(n)
      BY <3>1 DEF Underway, Away, Across, Down, Balanced, Reaches
    <3>3. Body!GreedyWalkIsShortest' = Body!GreedyWalkIsShortest
      BY <3>1 DEF Body!GreedyWalkIsShortest
    <3> QED
      BY <3>1, <3>2, <3>3 DEF WalkInv
  <2> QED
    BY <2>1, ProposalWalks, MoveWalks, TimeOutIsEarned DEF Body!Next
<1>3. WalkInv => Body!GreedyWalkIsShortest
  BY DEF WalkInv, Body!GreedyWalkIsShortest
<1> QED
  BY <1>1, <1>2, <1>3, SkillIsAlwaysSound, PTL DEF Body!Spec

-----------------------------------------------------------------------------
\* The walk over the scene, with variables of its own.
Scene == INSTANCE SceneWalk WITH shown <- onscreen

Everyone == Nodes \cup {None}

\* The scene as Init leaves it.
SceneTypes ==
  /\ children \in [Nodes -> Seq(Nodes)] /\ parent \in [Nodes -> Everyone]
  /\ onscreen \subseteq Nodes /\ open \subseteq Messages

LEMMA AboveIsLeast ==
  ASSUME SceneTypes, NEW n \in Everyone
  PROVE  /\ n \in Scene!Above(n) /\ Scene!Above(n) \subseteq Everyone
         /\ \A a \in Scene!Above(n) \ {None} : parent[a] \in Scene!Above(n)
         /\ \A S \in SUBSET Everyone :
              n \in S /\ (\A a \in S \ {None} : parent[a] \in S) => Scene!Above(n) \subseteq S
<1>1. n \in Scene!Above(n) /\ Scene!Above(n) \subseteq Everyone
  BY DEF Scene!Above, Everyone
<1>2. ASSUME NEW a \in Scene!Above(n) \ {None} PROVE parent[a] \in Scene!Above(n)
  <2>1. a \in Nodes /\ parent[a] \in Everyone
    BY <1>1, <1>2 DEF SceneTypes, Everyone
  <2>2. ASSUME NEW S \in SUBSET Everyone, n \in S, \A b \in S \ {None} : parent[b] \in S
        PROVE  parent[a] \in S
    <3>1. a \in S
      BY <1>2, <2>2 DEF Scene!Above, Everyone
    <3> QED
      BY <3>1, <2>2, <1>2
  <2> QED
    BY <2>1, <2>2 DEF Scene!Above, Everyone
<1>3. ASSUME NEW S \in SUBSET Everyone, n \in S, \A a \in S \ {None} : parent[a] \in S
      PROVE  Scene!Above(n) \subseteq S
  BY <1>3 DEF Scene!Above, Everyone
<1> QED
  BY <1>1, <1>2, <1>3

LEMMA NothingIsAboveNone ==
  ASSUME SceneTypes
  PROVE  Scene!Above(None) = {None}
<1>1. None \in Everyone /\ {None} \in SUBSET Everyone
  BY DEF Everyone
<1>2. None \in {None} /\ \A a \in {None} \ {None} : parent[a] \in {None}
  OBVIOUS
<1>3. Scene!Above(None) \subseteq {None}
  BY <1>1, <1>2, AboveIsLeast
<1>4. None \in Scene!Above(None)
  BY <1>1, AboveIsLeast
<1> QED
  BY <1>3, <1>4

LEMMA AboveStep ==
  ASSUME SceneTypes, NEW n \in Nodes, None \notin Nodes
  PROVE  Scene!Above(n) = {n} \cup Scene!Above(parent[n])
<1> DEFINE p == parent[n]
<1>1. n \in Everyone /\ p \in Everyone /\ n # None
  BY DEF SceneTypes, Everyone
<1>2. {n} \cup Scene!Above(p) \subseteq Scene!Above(n)
  <2>1. p \in Scene!Above(n) /\ n \in Scene!Above(n)
    BY <1>1, AboveIsLeast
  <2>2. Scene!Above(n) \in SUBSET Everyone /\ \A a \in Scene!Above(n) \ {None} : parent[a] \in Scene!Above(n)
    BY <1>1, AboveIsLeast
  <2> QED
    BY <1>1, <2>1, <2>2, AboveIsLeast
<1>3. Scene!Above(n) \subseteq {n} \cup Scene!Above(p)
  <2> DEFINE S == {n} \cup Scene!Above(p)
  <2>1. p \in Scene!Above(p) /\ Scene!Above(p) \subseteq Everyone
        /\ \A a \in Scene!Above(p) \ {None} : parent[a] \in Scene!Above(p)
    BY <1>1, AboveIsLeast
  <2>2. S \in SUBSET Everyone /\ n \in S /\ \A a \in S \ {None} : parent[a] \in S
    BY <1>1, <2>1
  <2> HIDE DEF S
  <2>3. Scene!Above(n) \subseteq S
    BY <1>1, <2>2, AboveIsLeast
  <2> QED
    BY <2>3 DEF S
<1> QED
  BY <1>2, <1>3

\* What has a way out is in no circle.
LEMMA NoCircleOnTheWayOut ==
  ASSUME SceneTypes, NEW n \in Nodes, None \notin Nodes, None \in Scene!Above(n)
  PROVE  n \notin Scene!Above(parent[n])
<1> SUFFICES ASSUME n \in Scene!Above(parent[n]) PROVE FALSE
  OBVIOUS
<1> DEFINE S == {y \in Everyone : n \in Scene!Above(y)}
<1>1. n \in Everyone /\ n # None /\ parent[n] \in Everyone
  BY DEF SceneTypes, Everyone
<1>2. n \in S
  BY <1>1, AboveIsLeast
<1>3. ASSUME NEW a \in S \ {None} PROVE parent[a] \in S
  <2>1. a \in Nodes /\ parent[a] \in Everyone /\ n \in Scene!Above(a)
    BY DEF SceneTypes, Everyone
  <2>2. Scene!Above(a) = {a} \cup Scene!Above(parent[a])
    BY <2>1, AboveStep
  <2> QED
    BY <2>1, <2>2
<1>4. None \notin S
  BY <1>1, NothingIsAboveNone
<1> HIDE DEF S
<1>5. S \in SUBSET Everyone
  BY DEF S
<1> QED
  BY <1>1, <1>2, <1>3, <1>4, <1>5, AboveIsLeast

\* What the walk up is to find: a way out, everything on it shown and nothing met before.
Clear(m, met) ==
  /\ None \in Scene!Above(m) /\ Scene!Above(m) \subseteq onscreen \cup {None}
  /\ Scene!Above(m) \cap met = {}

LEMMA ClearStep ==
  ASSUME SceneTypes, None \notin Nodes, NEW m \in Everyone, NEW met \in SUBSET Nodes
  PROVE  Clear(m, met) <=> (m # None => m \notin met /\ m \in onscreen /\ Clear(parent[m], met \cup {m}))
<1>1. CASE m = None
  BY <1>1, NothingIsAboveNone DEF Clear, SceneTypes
<1>2. CASE m # None
  <2>1. m \in Nodes
    BY <1>2 DEF Everyone
  <2>2. Scene!Above(m) = {m} \cup Scene!Above(parent[m])
    BY <2>1, AboveStep
  <2>3. None \in Scene!Above(m) => m \notin Scene!Above(parent[m])
    BY <2>1, NoCircleOnTheWayOut
  <2> QED
    BY <1>2, <2>1, <2>2, <2>3 DEF Clear
<1> QED
  BY <1>1, <1>2

\* Up is what its equation says: there is a function that satisfies it.
LEMMA UpStep ==
  ASSUME SceneTypes, None \notin Nodes
  PROVE  \A m \in Everyone, met \in SUBSET Nodes :
           Scene!Up[<<m, met>>] = (m # None => m \notin met /\ m \in onscreen /\ Scene!Up[<<parent[m], met \cup {m}>>])
<1> DEFINE Ways == Everyone \X SUBSET Nodes
           Fits(f) == f = [way \in Ways |->
                             way[1] # None => /\ way[1] \notin way[2] /\ way[1] \in onscreen
                                              /\ f[<<parent[way[1]], way[2] \cup {way[1]}>>]]
           G == [way \in Ways |-> Clear(way[1], way[2])]
<1>1. Fits(G)
  <2>1. ASSUME NEW way \in Ways
        PROVE  Clear(way[1], way[2]) =
                 (way[1] # None => /\ way[1] \notin way[2] /\ way[1] \in onscreen
                                   /\ G[<<parent[way[1]], way[2] \cup {way[1]}>>])
    <3> DEFINE m == way[1]
               met == way[2]
    <3>0. m \in Everyone /\ met \in SUBSET Nodes
      OBVIOUS
    <3>1. CASE m = None
      <4>1. Clear(m, met) = TRUE
        BY <3>0, <3>1, ClearStep DEF Clear
      <4> HIDE DEF G
      <4> QED
        BY <3>1, <4>1
    <3>2. CASE m # None
      <4>1. m \in Nodes /\ parent[m] \in Everyone /\ met \cup {m} \in SUBSET Nodes
        BY <3>0, <3>2 DEF Everyone, SceneTypes
      <4>2. G[<<parent[m], met \cup {m}>>] = Clear(parent[m], met \cup {m})
        BY <4>1
      <4> HIDE DEF G, m, met
      <4>3. Clear(m, met) = (m # None => m \notin met /\ m \in onscreen /\ Clear(parent[m], met \cup {m}))
        BY <3>0, ClearStep DEF Clear
      <4> QED
        BY <4>2, <4>3 DEF m, met
    <3> QED
      BY <3>1, <3>2
  <2> QED
    BY <2>1, Zenon
<1>2. Fits(Scene!Up)
  <2>1. Scene!Up = CHOOSE f : Fits(f)
    BY DEF Scene!Up, Everyone
  <2> HIDE DEF Fits, G
  <2> QED
    BY <1>1, <2>1
<1>3. ASSUME NEW m \in Everyone, NEW met \in SUBSET Nodes
      PROVE  Scene!Up[<<m, met>>] =
               (m # None => m \notin met /\ m \in onscreen /\ Scene!Up[<<parent[m], met \cup {m}>>])
  <2>1. <<m, met>> \in Ways /\ <<m, met>>[1] = m /\ <<m, met>>[2] = met
    OBVIOUS
  <2> QED
    BY <1>2, <2>1
<1> QED
  BY <1>3

\* The walk up finds what it is to find, on circular scenes too.
LEMMA UpFindsTheWayOut ==
  ASSUME SceneTypes, None \notin Nodes, IsFiniteSet(Nodes)
  PROVE  \A m \in Everyone, met \in SUBSET Nodes : Scene!Up[<<m, met>>] <=> Clear(m, met)
<1> DEFINE Wrong(k) == \E m \in Everyone, met \in SUBSET Nodes :
                         Cardinality(Nodes \ met) = k /\ ~(Scene!Up[<<m, met>>] <=> Clear(m, met))
           Bad == {k \in Nat : Wrong(k)}
<1>1. SUFFICES Bad = {}
  <2> SUFFICES ASSUME NEW m \in Everyone, NEW met \in SUBSET Nodes PROVE Scene!Up[<<m, met>>] <=> Clear(m, met)
    OBVIOUS
  <2>1. Cardinality(Nodes \ met) \in Nat
    BY FS_Subset, FS_CardinalityType
  <2> QED
    BY <1>1, <2>1
<1>2. SUFFICES ASSUME Bad # {} PROVE FALSE
  OBVIOUS
<1>3. PICK k \in Bad : \A j \in Bad : ~(<<j, k>> \in OpToRel(<, Nat))
  <2> HIDE DEF Bad
  <2>1. Bad \subseteq Nat
    BY DEF Bad
  <2> QED
    BY <1>2, <2>1, NatLessThanWellFounded, WFMin, Zenon
<1>4. k \in Nat /\ \A j \in Nat : j < k => ~Wrong(j)
  <2>1. k \in Nat
    OBVIOUS
  <2>2. ASSUME NEW j \in Nat, j < k, Wrong(j) PROVE FALSE
    <3>1. j \in Bad
      BY <2>2
    <3>2. <<j, k>> \in OpToRel(<, Nat)
      BY <2>1, <2>2 DEF OpToRel
    <3> QED
      BY <1>3, <3>1, <3>2
  <2> QED
    BY <2>1, <2>2
<1>5. PICK m \in Everyone, met \in SUBSET Nodes :
        Cardinality(Nodes \ met) = k /\ ~(Scene!Up[<<m, met>>] <=> Clear(m, met))
  OBVIOUS
<1> HIDE DEF Bad
<1>6. Scene!Up[<<m, met>>] =
        (m # None => m \notin met /\ m \in onscreen /\ Scene!Up[<<parent[m], met \cup {m}>>])
  BY UpStep
<1>7. Clear(m, met) <=> (m # None => m \notin met /\ m \in onscreen /\ Clear(parent[m], met \cup {m}))
  BY ClearStep
<1>8. m # None /\ m \notin met
  BY <1>5, <1>6, <1>7
<1>9. m \in Nodes /\ parent[m] \in Everyone /\ met \cup {m} \in SUBSET Nodes
  BY <1>8 DEF Everyone, SceneTypes
<1>10. Cardinality(Nodes \ (met \cup {m})) = k - 1 /\ k - 1 \in Nat
  <2>1. IsFiniteSet(Nodes \ met) /\ m \in Nodes \ met
    BY <1>8, <1>9, FS_Subset
  <2>2. Nodes \ (met \cup {m}) = (Nodes \ met) \ {m}
    OBVIOUS
  <2>3. Cardinality((Nodes \ met) \ {m}) = Cardinality(Nodes \ met) - 1
    BY <2>1, FS_RemoveElement
  <2>4. IsFiniteSet((Nodes \ met) \ {m})
    BY <2>1, FS_Subset
  <2>5. Cardinality((Nodes \ met) \ {m}) \in Nat
    BY <2>4, FS_CardinalityType
  <2> QED
    BY <1>5, <2>2, <2>3, <2>5
<1>11. Scene!Up[<<parent[m], met \cup {m}>>] <=> Clear(parent[m], met \cup {m})
  <2>1. ~Wrong(k - 1)
    <3>1. k - 1 \in Nat /\ k - 1 < k
      BY <1>4, <1>10
    <3> HIDE DEF Wrong
    <3> QED
      BY <3>1, <1>4
  <2> QED
    BY <2>1, <1>9, <1>10
<1> QED
  BY <1>5, <1>6, <1>7, <1>11

\* A window the walk reports is one the player sees.
LEMMA WindowIsSeen ==
  ASSUME SceneTypes, Scene!SceneAssumption, NEW n \in Nodes
  PROVE  Scene!IsVisibleMessageWindow(n) <=> n \in Messages /\ Scene!PlayerSees(n)
<1>1. parent[n] \in Everyone /\ {} \in SUBSET Nodes /\ None \notin Nodes /\ IsFiniteSet(Nodes)
  <2>1. Scene!IsFiniteSet(Nodes) <=> IsFiniteSet(Nodes)
    BY DEF Scene!IsFiniteSet, IsFiniteSet
  <2> QED
    BY <2>1 DEF SceneTypes, Scene!SceneAssumption
<1>2. Scene!Up[<<parent[n], {}>>] <=> Clear(parent[n], {})
  BY <1>1, UpFindsTheWayOut
<1>3. Scene!Above(n) = {n} \cup Scene!Above(parent[n])
  BY <1>1, AboveStep
<1> QED
  BY <1>1, <1>2, <1>3
     DEF Clear, Scene!IsVisibleMessageWindow, Scene!AncestorsAreVisible, Scene!PlayerSees

ChildrenIn(m, S) == \A i \in 1..Len(children[m]) : children[m][i] \in S

LEMMA ContainedIsLeast ==
  ASSUME SceneTypes, Root \in Nodes
  PROVE  /\ Root \in Scene!Contained /\ Scene!Contained \subseteq Nodes
         /\ \A m \in Scene!Contained : ChildrenIn(m, Scene!Contained)
         /\ \A S \in SUBSET Nodes :
              Root \in S /\ (\A m \in S : ChildrenIn(m, S))
                => Scene!Contained \subseteq S
<1>1. \A m \in Nodes : /\ Scene!ToSet(children[m]) = {children[m][i] : i \in 1..Len(children[m])}
                       /\ \A i \in 1..Len(children[m]) : children[m][i] \in Nodes
  BY DEF SceneTypes, Scene!ToSet
<1>2. Root \in Scene!Contained /\ Scene!Contained \subseteq Nodes
  BY DEF Scene!Contained
<1>3. ASSUME NEW m \in Scene!Contained PROVE ChildrenIn(m, Scene!Contained)
  <2> SUFFICES ASSUME NEW i \in 1..Len(children[m]) PROVE children[m][i] \in Scene!Contained
    BY DEF ChildrenIn
  <2>1. ASSUME NEW S \in SUBSET Nodes, Root \in S, \A a \in S : Scene!ToSet(children[a]) \subseteq S
        PROVE  children[m][i] \in S
    <3>1. m \in S
      BY <1>2, <2>1 DEF Scene!Contained
    <3> QED
      BY <1>1, <2>1, <3>1
  <2>2. children[m][i] \in Nodes
    BY <1>1, <1>2
  <2> QED
    BY <2>1, <2>2 DEF Scene!Contained
<1>4. ASSUME NEW S \in SUBSET Nodes, Root \in S, \A m \in S : ChildrenIn(m, S)
      PROVE  Scene!Contained \subseteq S
  <2>1. \A m \in S : Scene!ToSet(children[m]) \subseteq S
    <3> SUFFICES ASSUME NEW m \in S PROVE Scene!ToSet(children[m]) \subseteq S
      OBVIOUS
    <3>1. ChildrenIn(m, S) /\ m \in Nodes
      BY <1>4
    <3> QED
      BY <1>1, <3>1 DEF ChildrenIn
  <2> QED
    BY <1>4, <2>1 DEF Scene!Contained
<1> QED
  BY <1>2, <1>3, <1>4

\* Where the walk has been or is going to.
Met == visited \cup {pending[i] : i \in 1..Len(pending)}

\* Everything met is in the scene, and until a window was found what has been left behind is no visible
\* window and has all its children met.
SceneInv ==
  /\ SceneTypes /\ Scene!TypeOK
  /\ Met \subseteq Scene!Contained
  /\ surface # "dialogue" =>
       /\ Root \in Met
       /\ \A n \in visited : /\ ~Scene!IsVisibleMessageWindow(n)
                             /\ ChildrenIn(n, Met)
  /\ surface = "dialogue" => \E n \in Scene!Contained : Scene!IsVisibleMessageWindow(n)
  /\ surface = "unknown" => pending = <<>>

LEMMA SceneBegins ==
  ASSUME Scene!SceneAssumption
  PROVE  Scene!Init => SceneInv
<1> SUFFICES ASSUME Scene!Init PROVE SceneInv
  OBVIOUS
<1>1. SceneTypes
  BY DEF Scene!Init, Scene!SceneAssumption, SceneTypes, Everyone
<1>2. Root \in Nodes /\ None \notin {"dialogue", "unknown"}
  BY DEF Scene!SceneAssumption
<1>3. pending = <<Root>> /\ visited = {} /\ surface = None /\ pending \in Seq(Nodes)
  BY <1>2 DEF Scene!Init
<1>4. Met = {Root}
  BY <1>3 DEF Met
<1>5. Scene!TypeOK
  BY <1>3 DEF Scene!TypeOK
<1> QED
  BY <1>1, <1>2, <1>3, <1>4, <1>5, ContainedIsLeast DEF SceneInv

\* The scene stays as it is while the walk lasts.
LEMMA SceneStands ==
  ASSUME UNCHANGED Scene!scene
  PROVE  /\ children' = children /\ parent' = parent /\ onscreen' = onscreen /\ open' = open
         /\ SceneTypes <=> SceneTypes'
         /\ (Scene!Contained)' = Scene!Contained
         /\ (Scene!Up)' = Scene!Up
         /\ \A n \in Nodes : Scene!IsVisibleMessageWindow(n)' <=> Scene!IsVisibleMessageWindow(n)
<1>1. children' = children /\ parent' = parent /\ onscreen' = onscreen /\ open' = open
  BY DEF Scene!scene
<1>2. SceneTypes <=> SceneTypes'
  BY <1>1 DEF SceneTypes
<1>3. (Scene!Contained)' = Scene!Contained
  BY <1>1 DEF Scene!Contained, Scene!ToSet
<1>4. (Scene!Up)' = Scene!Up
  BY <1>1 DEF Scene!Up
<1>5. \A n \in Nodes : Scene!IsVisibleMessageWindow(n)' <=> Scene!IsVisibleMessageWindow(n)
  BY <1>1, <1>4 DEF Scene!IsVisibleMessageWindow, Scene!AncestorsAreVisible
<1> QED
  BY <1>1, <1>2, <1>3, <1>4, <1>5

LEMMA VisitKeepsTheScene ==
  ASSUME Scene!SceneAssumption, SceneInv, Scene!Visit
  PROVE  SceneInv'
<1> DEFINE node == Scene!Last(pending)
           rest == Scene!Front(pending)
<1>0. /\ surface = None /\ pending # <<>> /\ UNCHANGED Scene!scene
      /\ None \notin {"dialogue", "unknown"} /\ Root \in Nodes
  BY DEF Scene!Visit, Scene!SceneAssumption
<1>1. /\ children' = children /\ SceneTypes /\ SceneTypes' /\ (Scene!Contained)' = Scene!Contained
      /\ \A n \in Nodes : Scene!IsVisibleMessageWindow(n)' <=> Scene!IsVisibleMessageWindow(n)
  BY <1>0, SceneStands DEF SceneInv
<1>2. /\ pending \in Seq(Nodes) /\ visited \subseteq Nodes /\ Len(pending) \in Nat \ {0}
      /\ node = pending[Len(pending)] /\ node \in Nodes
  BY <1>0 DEF SceneInv, Scene!TypeOK, Scene!Last
<1>3. /\ rest \in Seq(Nodes) /\ Len(rest) = Len(pending) - 1
      /\ \A i \in 1..Len(rest) : rest[i] = pending[i]
  <2> DEFINE shorter == [i \in 1..Len(pending) - 1 |-> pending[i]]
             k == Len(pending) - 1
  <2>1. rest = shorter
    BY <1>2 DEF Scene!Front
  <2>2. k \in Nat /\ \A i \in 1..k : pending[i] \in Nodes
    BY <1>2
  <2>3. shorter \in [1..k -> Nodes]
    BY <2>2
  <2>4. shorter \in Seq(Nodes) /\ Len(shorter) = k
    BY <2>2, <2>3
  <2> QED
    BY <2>1, <2>4, <2>3
<1> DEFINE left == {rest[i] : i \in 1..Len(rest)}
<1>4. Met = visited \cup left \cup {node}
  BY <1>2, <1>3 DEF Met
<1>5. node \in Scene!Contained /\ Met \subseteq Scene!Contained
  BY <1>4 DEF SceneInv
<1>6. /\ Root \in Met /\ \A n \in visited : ~Scene!IsVisibleMessageWindow(n) /\ ChildrenIn(n, Met)
  BY <1>0 DEF SceneInv
<1> HIDE DEF node, rest
<1>7. CASE node \in visited /\ pending' = rest /\ UNCHANGED <<visited, surface>>
  <2>1. Met' = Met
    BY <1>3, <1>4, <1>7 DEF Met
  <2>2. (Scene!TypeOK)'
    BY <1>2, <1>3, <1>7 DEF SceneInv, Scene!TypeOK
  <2>3. \A n \in visited' : ~Scene!IsVisibleMessageWindow(n)' /\ ChildrenIn(n, Met)'
    BY <1>1, <1>2, <1>6, <1>7, <2>1 DEF ChildrenIn
  <2> QED
    BY <1>0, <1>1, <1>5, <1>6, <1>7, <2>1, <2>2, <2>3 DEF SceneInv
<1>8. CASE /\ node \notin visited /\ visited' = visited \cup {node} /\ Scene!IsVisibleMessageWindow(node)
           /\ surface' = "dialogue" /\ pending' = rest
  <2>1. Met' = Met
    BY <1>3, <1>4, <1>8 DEF Met
  <2>2. (Scene!TypeOK)'
    BY <1>2, <1>3, <1>8 DEF SceneInv, Scene!TypeOK
  <2>3. \E n \in (Scene!Contained)' : Scene!IsVisibleMessageWindow(n)'
    BY <1>1, <1>2, <1>5, <1>8
  <2> QED
    BY <1>0, <1>1, <1>5, <1>8, <2>1, <2>2, <2>3 DEF SceneInv
<1>9. CASE /\ node \notin visited /\ visited' = visited \cup {node} /\ ~Scene!IsVisibleMessageWindow(node)
           /\ UNCHANGED surface /\ pending' = rest \o children[node]
  <2>1. children[node] \in Seq(Nodes)
    BY <1>1, <1>2 DEF SceneTypes
  <2>2. /\ pending' \in Seq(Nodes) /\ Len(pending') = Len(rest) + Len(children[node])
        /\ \A i \in 1..Len(rest) : pending'[i] = rest[i]
        /\ \A i \in 1..Len(children[node]) : pending'[Len(rest) + i] = children[node][i]
    <3>1. \A q, r \in Seq(Nodes) :
            /\ q \o r \in Seq(Nodes) /\ Len(q \o r) = Len(q) + Len(r)
            /\ \A i \in 1..Len(q) : (q \o r)[i] = q[i]
            /\ \A i \in 1..Len(r) : (q \o r)[Len(q) + i] = r[i]
      OBVIOUS
    <3> QED
      BY <1>3, <1>9, <2>1, <3>1
  <2>3. Met' = Met \cup {children[node][i] : i \in 1..Len(children[node])}
    <3> DEFINE new == {children[node][i] : i \in 1..Len(children[node])}
    <3>1. {pending'[i] : i \in 1..Len(pending')} = left \cup new
      <4>1. ASSUME NEW i \in 1..Len(pending') PROVE pending'[i] \in left \cup new
        <5>1. CASE i <= Len(rest)
          BY <1>3, <2>2, <5>1
        <5>2. CASE i > Len(rest)
          <6> DEFINE j == i - Len(rest)
          <6>1. j \in 1..Len(children[node]) /\ i = Len(rest) + j
            BY <1>3, <2>1, <2>2, <5>2
          <6> HIDE DEF j
          <6> QED
            BY <2>2, <6>1
        <5> QED
          BY <1>3, <2>2, <5>1, <5>2
      <4>2. ASSUME NEW i \in 1..Len(rest) PROVE rest[i] \in {pending'[k] : k \in 1..Len(pending')}
        <5>1. i \in 1..Len(pending')
          BY <1>3, <2>1, <2>2
        <5> QED
          BY <5>1, <2>2
      <4>3. ASSUME NEW i \in 1..Len(children[node])
            PROVE  children[node][i] \in {pending'[k] : k \in 1..Len(pending')}
        <5>1. Len(rest) + i \in 1..Len(pending')
          BY <1>3, <2>1, <2>2
        <5> QED
          BY <5>1, <2>2
      <4> QED
        BY <4>1, <4>2, <4>3
    <3> QED
      BY <1>4, <1>9, <3>1 DEF Met
  <2>4. (Scene!TypeOK)'
    BY <1>2, <1>9, <2>2 DEF SceneInv, Scene!TypeOK
  <2>5. Met' \subseteq (Scene!Contained)'
    BY <1>0, <1>1, <1>5, <2>3, ContainedIsLeast DEF ChildrenIn
  <2>6. \A n \in visited' : ~Scene!IsVisibleMessageWindow(n)' /\ ChildrenIn(n, Met)'
    <3> SUFFICES ASSUME NEW n \in visited' PROVE ~Scene!IsVisibleMessageWindow(n)' /\ ChildrenIn(n, Met)'
      OBVIOUS
    <3>1. CASE n = node
      BY <1>1, <1>2, <1>9, <2>3, <3>1 DEF ChildrenIn
    <3>2. CASE n \in visited
      BY <1>1, <1>2, <1>6, <2>3, <3>2 DEF ChildrenIn
    <3> QED
      BY <1>9, <3>1, <3>2
  <2> QED
    BY <1>0, <1>1, <1>6, <1>9, <2>3, <2>4, <2>5, <2>6 DEF SceneInv
<1> QED
  BY <1>7, <1>8, <1>9 DEF Scene!Visit, node, rest

LEMMA SceneStep ==
  ASSUME Scene!SceneAssumption
  PROVE  SceneInv /\ [Scene!Next]_(Scene!vars) => SceneInv'
<1> SUFFICES ASSUME SceneInv, [Scene!Next]_(Scene!vars) PROVE SceneInv'
  OBVIOUS
<1>1. CASE Scene!Visit
  BY <1>1, VisitKeepsTheScene
<1>2. ASSUME UNCHANGED <<Scene!scene, pending, visited>>, surface' = surface \/ (surface = None /\ pending = <<>> /\ surface' = "unknown")
      PROVE SceneInv'
  <2>1. /\ children' = children /\ SceneTypes' /\ (Scene!Contained)' = Scene!Contained
        /\ \A n \in Nodes : Scene!IsVisibleMessageWindow(n)' <=> Scene!IsVisibleMessageWindow(n)
    BY <1>2, SceneStands DEF SceneInv
  <2>2. Met' = Met
    BY <1>2 DEF Met
  <2>3. Scene!Contained \subseteq Nodes /\ visited \subseteq Nodes
    BY DEF Scene!Contained, SceneInv, Scene!TypeOK
  <2>4. (Scene!TypeOK)' /\ None # "dialogue" /\ None # "unknown"
    BY <1>2 DEF SceneInv, Scene!TypeOK, Scene!SceneAssumption
  <2>5. surface' # "dialogue" => \A n \in visited : ~Scene!IsVisibleMessageWindow(n)' /\ ChildrenIn(n, Met)'
    BY <1>2, <2>1, <2>2, <2>3, <2>4 DEF SceneInv, ChildrenIn
  <2> QED
    BY <1>2, <2>1, <2>2, <2>3, <2>4, <2>5 DEF SceneInv
<1>3. CASE Scene!Exhausted
  BY <1>2, <1>3 DEF Scene!Exhausted
<1>4. CASE UNCHANGED Scene!vars
  BY <1>2, <1>4 DEF Scene!vars, Scene!scene
<1> QED
  BY <1>1, <1>3, <1>4 DEF Scene!Next

\* A dialogue is reported exactly if the player sees an open message window of the scene, for any display objects,
\* lists and links, circles included, and in whatever order the lists are.
THEOREM SurfaceTellsWhatIsSeen ==
  ASSUME Scene!SceneAssumption
  PROVE  Scene!Spec => [](Scene!TypeOK /\ Scene!SurfaceIsWhatIsSeen)
<1>1. Scene!Spec => []SceneInv
  BY SceneBegins, SceneStep, PTL DEF Scene!Spec
<1>2. SceneInv => Scene!TypeOK /\ Scene!SurfaceIsWhatIsSeen
  <2> SUFFICES ASSUME SceneInv PROVE Scene!SurfaceIsWhatIsSeen
    BY DEF SceneInv
  <2>1. SceneTypes /\ Root \in Nodes /\ surface \in {"dialogue", "unknown", None}
    BY DEF SceneInv, Scene!TypeOK, Scene!SceneAssumption
  <2>2. Scene!Contained \subseteq Nodes
    BY DEF Scene!Contained
  <2>3. surface = "dialogue" => \E n \in Messages \cap Scene!Contained : Scene!PlayerSees(n)
    BY <2>1, <2>2, WindowIsSeen DEF SceneInv
  <2>4. ASSUME surface = "unknown", NEW n \in Messages \cap Scene!Contained PROVE ~Scene!PlayerSees(n)
    <3>1. pending = <<>> /\ surface # "dialogue"
      BY <2>4 DEF SceneInv
    <3>2. Met = visited
      BY <3>1 DEF Met
    <3>3. visited \in SUBSET Nodes /\ Root \in visited /\ \A m \in visited : ChildrenIn(m, visited)
      BY <3>1, <3>2 DEF SceneInv, Scene!TypeOK
    <3>4. n \in visited
      BY <2>1, <3>3, ContainedIsLeast
    <3> QED
      BY <2>1, <2>2, <3>1, <3>4, WindowIsSeen DEF SceneInv
  <2> QED
    BY <2>1, <2>3, <2>4 DEF Scene!SurfaceIsWhatIsSeen
<1> QED
  BY <1>1, <1>2, PTL

-----------------------------------------------------------------------------
\* What the pipeline lets through, with variables of its own.
Payload == INSTANCE VisiblePayload WITH latest <- newestShot

Doors == {"plugin", "feed", "offline"}
Stages == {"surface", "raw", "clean", "observed", "admitted", "stale", "refused"}
LetThrough == {"clean", "observed", "admitted"}

Fields == {"mode", "text", "menu", "ui", "player", "sprites", "looks", "shot", "extra", "dead", "combat", "open", "window"}

\* What may come through a door; the plugin's own parts of a payload are absent from a surface.
Given ==
  /\ door \in Doors /\ stage \in Stages
  /\ asked.shot \in Shots
  /\ given.ui \in {None, "dialogue", "unknown", "bogus"}
  /\ given.shot \in Shots \cup {None} /\ given.extra \subseteq {"map_id", "overlay"}
  /\ given.sprites \in Payload!Sprites /\ given.looks \in Payload!Looks /\ DOMAIN given = Fields
  /\ door = "offline" => stage # "surface"
  /\ stage = "surface" => door = "plugin"

\* What the doors leave alone, and what they add.
SameFields ==
  /\ DOMAIN data = Fields
  /\ data.menu = given.menu /\ data.ui = given.ui /\ data.sprites = given.sprites /\ data.looks = given.looks
  /\ stage \in {"surface", "raw"} => data.extra = given.extra
  /\ stage = "surface" => data = given
  /\ door = "plugin" => data.player = given.player
  /\ door = "plugin" /\ stage \in {"raw"} \cup LetThrough =>
       data.shot = asked.shot /\ data.mode = "bridge-assisted"
  /\ door = "feed" => data.shot = given.shot
  /\ door = "offline" /\ stage = "raw" => data = given
  /\ door = "offline" /\ stage \in LetThrough
       /\ (given.dead = TRUE \/ (given.dead = None /\ asked.hint = "death")) => data.dead = TRUE

\* What has been looked for once the data was let through.
IsLetThrough ==
  stage \in LetThrough =>
    /\ "map_id" \notin given.extra
    /\ door # "offline" =>
         /\ given.menu # "nested" /\ given.ui \in Payload!UIStates \cup {None}
         /\ given.sprites # None => \A i \in DOMAIN given.sprites : given.sprites[i] # Off

IsObserved ==
  observation # None =>
    /\ stage \in {"observed", "admitted"} /\ given.menu # "nested"
    /\ observation.ui \in Payload!UIStates /\ observation.shot \in Shots \cup {None}
    /\ door \in {"offline", "plugin"} => observation.shot = asked.shot
    /\ observation.sprites = Payload!NormalizeVisibleSprites(
         Payload!Listed(given.sprites), Payload!Listed(given.looks), observation.shot)
    /\ Payload!Listed(given.sprites) # <<>> => observation.shot # None
    /\ door = "offline" /\ (given.dead = TRUE \/ (given.dead = None /\ asked.hint = "death")) =>
         observation.ui = "death"

\* A surface that tells no more than what the player is in is let through all the way.
PlainSurface == door = "plugin" /\ \E ui \in {"dialogue", "unknown"} : given = [Payload!Blank EXCEPT !.ui = ui]

PayloadInv == Given /\ SameFields /\ IsLetThrough /\ IsObserved /\ (PlainSurface => stage # "refused")

\* The fields of what is given.
LEMMA GivenFields ==
  ASSUME NEW d \in Payload!BridgeData \cup Payload!OfflineData
  PROVE  /\ d.ui \in {None, "dialogue", "unknown", "bogus"} /\ d.shot \in Shots \cup {None}
         /\ d.extra \subseteq {"map_id", "overlay"} /\ d.sprites \in Payload!Sprites /\ d.looks \in Payload!Looks
         /\ DOMAIN d = Fields
<1>1. CASE d \in Payload!BridgeData
  BY <1>1 DEF Payload!BridgeData, Fields
<1>2. CASE d \in Payload!OfflineData
  BY <1>2 DEF Payload!OfflineData, Payload!Sprites, Fields
<1> QED
  BY <1>1, <1>2

LEMMA PayloadInit ==
  ASSUME Payload!Init
  PROVE  PayloadInv
<1>1. Given
  <2>1. CASE /\ door \in {"plugin", "feed"} /\ given \in Payload!BridgeData
             /\ asked \in [shot : Shots, hint : {None}, spans : {FALSE}]
    BY <2>1, GivenFields DEF Payload!Init, Given, Doors, Stages
  <2>2. CASE /\ door = "offline" /\ given \in Payload!OfflineData
             /\ asked \in [shot : Shots, hint : {None, "field", "menu", "death"}, spans : BOOLEAN]
    BY <2>2, GivenFields DEF Payload!Init, Given, Doors, Stages
  <2> QED
    BY <2>1, <2>2 DEF Payload!Init
<1>2. SameFields /\ IsLetThrough /\ IsObserved /\ stage # "refused"
  BY <1>1 DEF Payload!Init, Given, SameFields, IsLetThrough, IsObserved, LetThrough
<1> QED
  BY <1>1, <1>2 DEF PayloadInv

\* Refused data goes no further; a plain surface is not refused.
LEMMA RefusalLeavesAll ==
  ASSUME PayloadInv, Payload!Refuse, ~PlainSurface, observation = None
  PROVE  PayloadInv'
<1>1. UNCHANGED <<door, given, asked, newestShot, data, observation>> /\ stage' = "refused"
  BY DEF Payload!Refuse, Payload!Move
<1> QED
  BY <1>1 DEF PayloadInv, Given, SameFields, IsLetThrough, IsObserved, PlainSurface, Stages, LetThrough

LEMMA PlainFields ==
  ASSUME Payload!PayloadAssumption, PlainSurface
  PROVE  /\ given.shot = None /\ given.mode = None /\ given.extra = {} /\ given.menu = None
         /\ given.ui \in {"dialogue", "unknown"} /\ given.player = None /\ given.sprites = None /\ given.looks = None
<1>1. PICK ui \in {"dialogue", "unknown"} : given = [Payload!Blank EXCEPT !.ui = ui]
  BY DEF PlainSurface
<1>2. DOMAIN Payload!Blank = Fields /\ Payload!Blank.shot = None /\ Payload!Blank.mode = None
      /\ Payload!Blank.extra = {} /\ Payload!Blank.menu = None /\ Payload!Blank.player = None
      /\ Payload!Blank.sprites = None /\ Payload!Blank.looks = None
  BY DEF Payload!Blank, Fields
<1> QED
  BY <1>1, <1>2 DEF Fields

\* A refusal comes before anything is observed.
LEMMA NotYetObserved ==
  ASSUME PayloadInv, stage \notin {"observed", "admitted"}
  PROVE  observation = None
BY DEF PayloadInv, IsObserved

LEMMA SurfaceKeeps ==
  ASSUME Payload!PayloadAssumption, PayloadInv, Payload!BuildSnapshotPayload
  PROVE  PayloadInv'
<1>1. observation = None /\ stage = "surface" /\ door = "plugin" /\ data = given /\ DOMAIN given = Fields
  BY NotYetObserved DEF Payload!BuildSnapshotPayload, PayloadInv, Given, SameFields
<1>2. CASE ~Payload!SurfaceIsValid
  BY <1>1, <1>2, PlainFields, RefusalLeavesAll DEF Payload!BuildSnapshotPayload, Payload!SurfaceIsValid
<1>3. CASE Payload!SurfaceIsValid
  <2>1. UNCHANGED <<door, given, asked, newestShot, observation>> /\ stage' = "raw"
        /\ data' = [given EXCEPT !.mode = "bridge-assisted", !.shot = asked.shot]
    BY <1>3 DEF Payload!BuildSnapshotPayload, Payload!Move
  <2>2. /\ data'.mode = "bridge-assisted" /\ data'.shot = asked.shot /\ data'.menu = given.menu
        /\ data'.ui = given.ui /\ data'.sprites = given.sprites /\ data'.looks = given.looks
        /\ data'.extra = given.extra /\ data'.player = given.player /\ DOMAIN data' = Fields
    BY <1>1, <2>1 DEF Fields
  <2> QED
    BY <1>1, <2>1, <2>2 DEF PayloadInv, Given, SameFields, IsLetThrough, IsObserved, PlainSurface, Stages, LetThrough
<1> QED
  BY <1>2, <1>3

LEMMA SanitizerKeeps ==
  ASSUME Payload!PayloadAssumption, Payload!NoneAssumption, PayloadInv, Payload!SanitizeBridgePayload
  PROVE  PayloadInv'
<1> DEFINE passes == ~Payload!FindForbidden(data) /\ data.extra = {} /\ Payload!Validates(data)
<1>1. observation = None /\ stage = "raw" /\ door # "offline"
  BY NotYetObserved DEF Payload!SanitizeBridgePayload
<1>2. data.menu = given.menu /\ data.ui = given.ui /\ data.sprites = given.sprites /\ data.looks = given.looks
      /\ data.extra = given.extra
  BY <1>1 DEF PayloadInv, SameFields
<1>3. CASE passes
  <2>1. UNCHANGED <<door, given, asked, newestShot, data, observation>> /\ stage' = "clean"
    BY <1>3 DEF Payload!SanitizeBridgePayload, Payload!Move
  <2>2. IsLetThrough'
    BY <1>1, <1>2, <1>3, <2>1 DEF IsLetThrough, Payload!Validates
  <2> QED
    BY <1>1, <2>1, <2>2 DEF PayloadInv, Given, SameFields, IsObserved, PlainSurface, Stages, LetThrough
<1>4. CASE ~passes
  <2>1. Payload!Refuse
    BY <1>4 DEF Payload!SanitizeBridgePayload
  <2>2. ASSUME PlainSurface PROVE passes
    <3>1. /\ given.menu = None /\ given.ui \in {"dialogue", "unknown"}
          /\ given.sprites = None /\ given.looks = None /\ given.extra = {} /\ given.player = None
      BY <2>2, PlainFields
    <3>2. data.mode = "bridge-assisted" /\ "bridge-assisted" # None /\ None # "nested"
      BY <1>1, <2>2 DEF PlainSurface, PayloadInv, SameFields, Payload!NoneAssumption
    <3>3. data.player # Off
      BY <2>2, <3>1 DEF PlainSurface, PayloadInv, SameFields, Payload!PayloadAssumption
    <3> QED
      BY <1>2, <3>1, <3>2, <3>3 DEF Payload!FindForbidden, Payload!Validates, Payload!UIStates
  <2> QED
    BY <1>1, <1>4, <2>1, <2>2, RefusalLeavesAll
<1> QED
  BY <1>3, <1>4

LEMMA FirewallKeeps ==
  ASSUME PayloadInv, Payload!Firewall
  PROVE  PayloadInv'
<1>1. observation = None /\ stage = "raw" /\ door = "offline" /\ data = given /\ DOMAIN data = Fields
  BY NotYetObserved DEF Payload!Firewall, PayloadInv, SameFields
<1>2. CASE data.extra \cap {"map_id"} # {}
  BY <1>1, <1>2, RefusalLeavesAll DEF Payload!Firewall, PlainSurface
<1>3. CASE data.extra \cap {"map_id"} = {}
  <2> DEFINE m == Payload!MergeUiHint(data)
  <2>1. UNCHANGED <<door, given, asked, newestShot, observation>> /\ stage' = "clean" /\ data' = [m EXCEPT !.extra = {}]
    BY <1>3 DEF Payload!Firewall, Payload!Move
  <2>2. /\ DOMAIN m = Fields /\ m.menu = data.menu /\ m.ui = data.ui /\ m.sprites = data.sprites
        /\ m.looks = data.looks
        /\ (data.dead = TRUE \/ (data.dead = None /\ asked.hint = "death")) => m.dead = TRUE
    <3>1. CASE asked.hint = "death" /\ data.dead = None
      <4>1. m = [data EXCEPT !.dead = TRUE]
        BY <3>1 DEF Payload!MergeUiHint
      <4> QED
        BY <1>1, <4>1 DEF Fields
    <3>2. CASE ~(asked.hint = "death" /\ data.dead = None)
      <4>1. \/ m = [data EXCEPT !.open = TRUE] \/ m = data
            \/ m = [data EXCEPT !.player = CHOOSE p \in Places : TRUE]
        BY <3>2 DEF Payload!MergeUiHint
      <4> QED
        BY <1>1, <3>2, <4>1 DEF Fields
    <3> QED
      BY <3>1, <3>2
  <2> HIDE DEF m
  <2>3. /\ DOMAIN data' = Fields /\ data'.menu = m.menu /\ data'.ui = m.ui /\ data'.sprites = m.sprites
        /\ data'.looks = m.looks /\ data'.dead = m.dead
    BY <2>1, <2>2 DEF Fields
  <2>4. SameFields'
    BY <1>1, <2>1, <2>2, <2>3 DEF SameFields, LetThrough
  <2> QED
    BY <1>1, <1>3, <2>1, <2>4 DEF PayloadInv, Given, IsLetThrough, IsObserved, PlainSurface, Stages, LetThrough
<1> QED
  BY <1>2, <1>3

\* Both ways to an observation end in the same pairing of positions with looks.
LEMMA PayloadObserveKeeps ==
  ASSUME Payload!PayloadAssumption, Payload!NoneAssumption, PayloadInv, stage = "clean",
         NEW ui \in Payload!UIStates, NEW text, NEW of \in Shots \cup {None}, Payload!Observe(ui, text, of),
         door \in {"offline", "plugin"} => of = asked.shot,
         door = "offline" /\ (given.dead = TRUE \/ (given.dead = None /\ asked.hint = "death")) => ui = "death"
  PROVE  PayloadInv'
<1> DEFINE places == Payload!Listed(data.sprites)
           appearances == Payload!Listed(data.looks)
           fits == Payload!CanNormalize(places, appearances, of) /\ data.menu # "nested"
<1>1. observation = None
  BY NotYetObserved
<1>2. data.menu = given.menu /\ data.sprites = given.sprites /\ data.looks = given.looks
  BY DEF PayloadInv, SameFields
<1>3. CASE fits
  <2>1. /\ observation' = [ui |-> ui, text |-> text, menu |-> data.menu, shot |-> of,
                           sprites |-> Payload!NormalizeVisibleSprites(places, appearances, of)]
        /\ stage' = "observed" /\ UNCHANGED <<door, given, asked, newestShot, data>>
    BY <1>3 DEF Payload!Observe, Payload!Move
  <2>2. /\ observation'.ui = ui /\ observation'.shot = of
        /\ observation'.sprites = Payload!NormalizeVisibleSprites(places, appearances, of)
    BY <2>1
  <2>3. places # <<>> => of # None
    BY <1>3 DEF Payload!CanNormalize
  <2>4. IsObserved'
    <3>1. observation'.sprites = Payload!NormalizeVisibleSprites(
            Payload!Listed(given'.sprites), Payload!Listed(given'.looks), observation'.shot)
      BY <1>2, <2>1, <2>2
    <3>2. given.menu # "nested"
      BY <1>2, <1>3
    <3> HIDE DEF places, appearances
    <3>3. Payload!Listed(given'.sprites) = places
      BY <1>2, <2>1 DEF places
    <3> QED
      BY <2>1, <2>2, <2>3, <3>1, <3>2, <3>3 DEF IsObserved, Payload!NormalizeVisibleSprites
  <2>5. Given' /\ SameFields' /\ IsLetThrough' /\ (PlainSurface => stage # "refused")'
    BY <2>1 DEF PayloadInv, Given, SameFields, IsLetThrough, PlainSurface, Stages, LetThrough
  <2> QED
    BY <2>4, <2>5 DEF PayloadInv
<1>4. CASE ~fits
  <2>1. Payload!Refuse
    BY <1>4 DEF Payload!Observe
  <2>2. ASSUME PlainSurface PROVE fits
    <3>1. data.menu = None /\ places = <<>> /\ appearances = <<>>
      BY <1>2, <2>2, PlainFields DEF Payload!Listed
    <3> HIDE DEF places, appearances
    <3> QED
      BY <3>1 DEF Payload!CanNormalize, Payload!NoneAssumption
  <2> QED
    BY <1>1, <1>4, <2>1, <2>2, RefusalLeavesAll
<1> QED
  BY <1>3, <1>4

LEMMA ConversionKeeps ==
  ASSUME Payload!PayloadAssumption, Payload!NoneAssumption, PayloadInv, Payload!ObservationFromPayload
  PROVE  PayloadInv'
<1> DEFINE ui == IF data.ui = None THEN "unknown" ELSE data.ui
<1>1. stage = "clean" /\ door # "offline" /\ Payload!Observe(ui, data.text, data.shot)
  BY DEF Payload!ObservationFromPayload
<1>2. ui \in Payload!UIStates
  BY <1>1 DEF PayloadInv, SameFields, IsLetThrough, LetThrough, Payload!UIStates
<1>3. data.shot \in Shots \cup {None} /\ (door = "plugin" => data.shot = asked.shot)
  BY <1>1 DEF PayloadInv, Given, SameFields, LetThrough, Doors
<1> HIDE DEF ui
<1> QED
  BY <1>1, <1>2, <1>3, PayloadObserveKeeps

LEMMA ScreenKeeps ==
  ASSUME Payload!PayloadAssumption, Payload!NoneAssumption, PayloadInv, Payload!BuildObservation
  PROVE  PayloadInv'
<1> DEFINE text == IF data.text # None THEN data.text ELSE IF asked.spans THEN "line" ELSE None
<1>1. stage = "clean" /\ door = "offline" /\ Payload!Observe(Payload!ClassifyUiState, text, asked.shot)
  BY DEF Payload!BuildObservation
<1>2. Payload!ClassifyUiState \in Payload!UIStates
  BY DEF Payload!ClassifyUiState, Payload!UIStates
<1>3. data.dead = TRUE => Payload!ClassifyUiState = "death"
  BY Zenon DEF Payload!ClassifyUiState
<1>4. (given.dead = TRUE \/ (given.dead = None /\ asked.hint = "death")) => data.dead = TRUE
  BY <1>1 DEF PayloadInv, SameFields, LetThrough
<1>5. asked.shot \in Shots \cup {None}
  BY DEF PayloadInv, Given
<1> HIDE DEF text
<1> QED
  BY <1>1, <1>2, <1>3, <1>4, <1>5, PayloadObserveKeeps

LEMMA PayloadIsAlwaysSound ==
  ASSUME Payload!PayloadAssumption, Payload!NoneAssumption
  PROVE  Payload!Spec => []PayloadInv
<1>1. Payload!Init => PayloadInv
  BY PayloadInit
<1>2. PayloadInv /\ [Payload!Next]_(Payload!vars) => PayloadInv'
  <2> SUFFICES ASSUME PayloadInv, [Payload!Next]_(Payload!vars) PROVE PayloadInv'
    OBVIOUS
  <2> USE DEF PayloadInv, Given, SameFields, IsLetThrough, IsObserved, PlainSurface, Stages, LetThrough,
              Payload!NormalizeVisibleSprites
  <2>1. CASE UNCHANGED Payload!vars
    BY <2>1 DEF Payload!vars
  <2>2. CASE Payload!RequireCurrentScreenshot
    BY <2>2 DEF Payload!RequireCurrentScreenshot, Payload!Move
  <2>3. CASE Payload!Capture
    BY <2>3 DEF Payload!Capture
  <2> QED
    BY <2>1, <2>2, <2>3, SurfaceKeeps, SanitizerKeeps, FirewallKeeps, ConversionKeeps, ScreenKeeps
       DEF Payload!Next
<1> QED
  BY <1>1, <1>2, PTL DEF Payload!Spec

\* Looks are a sequence, or absent.
LEMMA LooksAreListed ==
  ASSUME NEW l \in Payload!Looks
  PROVE  LET s == Payload!Listed(l) IN
         DOMAIN s = 1..Len(s) /\ Len(s) \in Nat /\ \A i \in DOMAIN s : s[i] = l[i]
<1>1. CASE l = None
  BY <1>1 DEF Payload!Listed
<1>2. CASE l # None
  <2>1. l \in Seq(Hashes \cup {Name})
    <3>1. l = <<Name>> \/ (\E h \in Hashes : l = <<h>>) \/ l \in Hashes \X Hashes
      BY <1>2 DEF Payload!Looks
    <3>2. ASSUME NEW h \in Hashes \cup {Name}, l = <<h>>
          PROVE  l \in Seq(Hashes \cup {Name})
      BY <3>2
    <3>3. ASSUME l \in Hashes \X Hashes
          PROVE  l \in Seq(Hashes \cup {Name})
      <4>1. PICK g \in Hashes, h \in Hashes : l = <<g, h>>
        BY <3>3
      <4> QED
        BY <4>1
    <3> QED
      BY <3>1, <3>2, <3>3
  <2> QED
    BY <1>2, <2>1 DEF Payload!Listed
<1> QED
  BY <1>1, <1>2

LEMMA SpritesAreListed ==
  ASSUME NEW t \in Payload!Sprites
  PROVE  LET s == Payload!Listed(t) IN
         /\ DOMAIN s \subseteq Nat \ {0} /\ (DOMAIN s # {} => s = t /\ s # <<>>)
         /\ \A i \in DOMAIN s : s[i] \in Places \cup {Off}
<1>1. CASE t = None
  BY <1>1 DEF Payload!Listed
<1>2. CASE t # None
  <2>1. t = <<Off>> \/ (\E p \in Places : t = <<p>>) \/ t \in Places \X Places
    BY <1>2 DEF Payload!Sprites, Payload!Pairs
  <2>2. ASSUME NEW p \in Places \cup {Off}, t = <<p>>
        PROVE  t \in Seq(Places \cup {Off}) /\ t # <<>>
    BY <2>2
  <2>3. ASSUME t \in Places \X Places
        PROVE  t \in Seq(Places \cup {Off}) /\ t # <<>>
    <3>1. PICK p \in Places, q \in Places : t = <<p, q>>
      BY <2>3
    <3> QED
      BY <3>1
  <2>4. t \in Seq(Places \cup {Off}) /\ t # <<>>
    BY <2>1, <2>2, <2>3
  <2> QED
    BY <1>2, <2>4 DEF Payload!Listed
<1> QED
  BY <1>1, <1>2

\* What becomes an observation is what the player can see, by each of the three doors: nothing forbidden gets in,
\* each sprite keeps its own look and position, the evidence is the frame asked for, a plain surface of the plugin
\* is understood and a death screen is not masked, for any places, hashes and screenshots.
THEOREM WhatIsObservedIsVisible ==
  ASSUME Payload!PayloadAssumption, Payload!NoneAssumption
  PROVE  Payload!Spec => [](/\ Payload!TypeOK /\ Payload!NothingHiddenGetsIn /\ Payload!SpritesKeepTheirLook
                            /\ Payload!EvidenceIsTheFrame /\ Payload!PluginIsUnderstood
                            /\ Payload!DeathIsNotMasked)
<1>1. PayloadInv => Payload!SpritesKeepTheirLook /\ Payload!TypeOK
  <2> SUFFICES ASSUME PayloadInv PROVE Payload!SpritesKeepTheirLook /\ Payload!TypeOK
    OBVIOUS
  <2> DEFINE places == Payload!Listed(given.sprites)
             appearances == Payload!Listed(given.looks)
  <2>1. given.sprites \in Payload!Sprites /\ given.looks \in Payload!Looks
    BY DEF PayloadInv, Given
  <2>2. DOMAIN appearances = 1..Len(appearances) /\ Len(appearances) \in Nat /\ \A i \in DOMAIN appearances : appearances[i] = given.looks[i]
    BY <2>1, LooksAreListed
  <2>3. DOMAIN places \subseteq Nat \ {0} /\ (DOMAIN places # {} => places = given.sprites /\ places # <<>>)
        /\ \A i \in DOMAIN places : places[i] \in Places \cup {Off}
    BY <2>1, SpritesAreListed
  <2>4. observation # None => observation.sprites = Payload!NormalizeVisibleSprites(places, appearances, observation.shot)
                              /\ (places # <<>> => observation.shot # None)
    BY DEF PayloadInv, IsObserved
  <2>5. given.sprites = None => DOMAIN places = {}
    BY DEF Payload!Listed
  <2>6. observation # None /\ door # "offline" => \A i \in DOMAIN places : places[i] # Off
    BY <2>3, <2>5 DEF PayloadInv, IsObserved, IsLetThrough, LetThrough
  <2> HIDE DEF places, appearances
  <2>7. observation # None =>
          /\ DOMAIN observation.sprites = DOMAIN places
          /\ \A i \in DOMAIN places :
               /\ observation.sprites[i].at = places[i]
               /\ observation.sprites[i].look = IF i \in DOMAIN appearances THEN appearances[i] ELSE None
               /\ observation.sprites[i].evidence = observation.shot
    <3> SUFFICES ASSUME observation # None
                 PROVE  /\ DOMAIN observation.sprites = DOMAIN places
                        /\ \A i \in DOMAIN places :
                             /\ observation.sprites[i].at = places[i]
                             /\ observation.sprites[i].look = IF i \in DOMAIN appearances THEN appearances[i] ELSE None
                             /\ observation.sprites[i].evidence = observation.shot
      OBVIOUS
    <3>1. observation.sprites = [i \in DOMAIN places |->
            [at |-> places[i], look |-> IF i <= Len(appearances) THEN appearances[i] ELSE None, evidence |-> observation.shot]]
      BY <2>4 DEF Payload!NormalizeVisibleSprites
    <3>2. \A i \in DOMAIN places : i <= Len(appearances) <=> i \in DOMAIN appearances
      BY <2>2, <2>3
    <3> QED
      BY <3>1, <3>2
  <2>8. Payload!SpritesKeepTheirLook
    BY <2>2, <2>3, <2>4, <2>7 DEF Payload!SpritesKeepTheirLook, appearances
  <2>9. Payload!TypeOK
    BY <2>3, <2>6, <2>7 DEF Payload!TypeOK, PayloadInv, Given, IsObserved, Stages
  <2> QED
    BY <2>8, <2>9
<1>2. PayloadInv => Payload!NothingHiddenGetsIn /\ Payload!EvidenceIsTheFrame /\ Payload!PluginIsUnderstood
                    /\ Payload!DeathIsNotMasked
  BY DEF PayloadInv, IsObserved, IsLetThrough, LetThrough, PlainSurface, Payload!NothingHiddenGetsIn,
         Payload!FindForbidden, Payload!EvidenceIsTheFrame, Payload!PluginIsUnderstood, Payload!DeathIsNotMasked
<1> QED
  BY <1>1, <1>2, PayloadIsAlwaysSound, PTL

-----------------------------------------------------------------------------
\* The focus guards, with variables of their own.
Focus == INSTANCE FocusCheck WITH pc <- asks

Whole == {"title", "class", "comm"}
Asks == {"id", "title", "class", "comm", "match", "yes", "no", "sent"}
Answered == {"title", "class", "comm", "match", "yes", "sent"}

\* What the desktop and the target are.
DesktopTypes ==
  /\ guard \in {"linux", "xdotool"} /\ exact \in BOOLEAN /\ target \in Focus!Targets
  /\ active \in Windows \cup {None} /\ title \in [Windows -> Focus!Titles]
  /\ class \in [Windows -> Focus!Classes] /\ comm \in [Windows -> Focus!Classes]
  /\ changes \in Nat

\* What the check has asked, and what it was told.
CheckTypes ==
  /\ asks \in Asks /\ window \in Windows \cup {None} /\ reached \in Windows \cup {None}
  /\ got = [title |-> got.title, class |-> got.class, comm |-> got.comm]
  /\ got.title \in Focus!Titles \cup {None} /\ got.class \in Focus!Classes \cup {None}
  /\ got.comm \in Focus!Classes \cup {None}
  /\ asks = "id" => got.class = None /\ got.comm = None
  /\ asks \in Answered => window # None
  /\ asks \in Answered \ {"title"} => got.title # None

\* What is held of a window is what it fitted at some time, now included.
HeldFits ==
  /\ held \in [Windows -> SUBSET Whole]
  /\ \A w \in Windows : Focus!Fits(w) \subseteq held[w]

\* An answer is about the window asked for: what it fits was held of it, and on a desktop that did not change it still is.
AnswersAreHeld ==
  asks \in Answered =>
    /\ changes = 0 => active = window
    /\ asks # "title" =>
         /\ Focus!TitleMatches(got.title) => "title" \in held[window]
         /\ changes = 0 => got.title = title[window]
    /\ got.class # None => got.class = class[window]
    /\ got.comm # None =>
         /\ target.process_name = got.comm => "comm" \in held[window]
         /\ changes = 0 => got.comm = comm[window]

\* What a positive answer stands on.
YesStands ==
  asks \in {"yes", "sent"} =>
    /\ held[window] = Whole
    /\ changes = 0 =>
         /\ active = window /\ target.window_id \in {None, active} /\ Focus!Fits(active) = Whole
         /\ asks = "sent" => reached = window

FocusInv == DesktopTypes /\ CheckTypes /\ HeldFits /\ AnswersAreHeld /\ YesStands

LEMMA FocusInit ==
  ASSUME Focus!FocusAssumption, Focus!NoneAssumption, Focus!Init
  PROVE  FocusInv
<1>1. DesktopTypes
  <2>1. exact \in BOOLEAN
    BY DEF Focus!Init
  <2> QED
    BY <2>1 DEF Focus!Init, DesktopTypes
<1>2. CheckTypes
  BY DEF Focus!Init, CheckTypes, Focus!Nothing, Asks, Answered
<1>3. HeldFits
  BY DEF Focus!Init, HeldFits, Focus!Fits, Whole
<1>4. AnswersAreHeld /\ YesStands
  BY DEF Focus!Init, AnswersAreHeld, YesStands, Answered
<1> QED
  BY <1>1, <1>2, <1>3, <1>4 DEF FocusInv

\* The parts of the target, one by one.
LEMMA FitsOneByOne ==
  ASSUME NEW w
  PROVE  /\ "title" \in Focus!Fits(w) <=> Focus!TitleMatches(title[w])
         /\ "class" \in Focus!Fits(w) <=> target.class_name \in {None, class[w]}
         /\ "comm" \in Focus!Fits(w) <=> target.process_name \in {None, comm[w]}
         /\ Focus!Fits(w) \subseteq Whole
BY DEF Focus!Fits, Whole

\* The desktop changes: what a window fits by then is held of it, and nothing is said of a desktop that did not.
LEMMA ChangeKeeps ==
  ASSUME Focus!NoneAssumption, FocusInv, Focus!Change
  PROVE  FocusInv'
<1>1. UNCHANGED <<guard, exact, target, asks, window, got, reached>> /\ class' = class /\ changes' = changes + 1
      /\ asks \notin {"id", "no", "sent"}
  BY DEF Focus!Change, Focus!check
<1>2. /\ active' \in Windows \cup {None} /\ title' \in [Windows -> Focus!Titles] /\ comm' \in [Windows -> Focus!Classes]
  BY DEF Focus!Change, FocusInv, DesktopTypes
<1>3. DesktopTypes' /\ changes' # 0
  BY <1>1, <1>2 DEF FocusInv, DesktopTypes
<1>4. CheckTypes'
  BY <1>1 DEF FocusInv, CheckTypes
<1>5. held' = [w \in Windows |-> held[w] \cup Focus!Fits(w)']
  BY DEF Focus!Change
<1>6. \A w \in Windows : Focus!Fits(w)' \subseteq Whole
  BY DEF Focus!Fits, Whole
<1>7. HeldFits' /\ (\A w \in Windows : held[w] \subseteq held'[w])
  BY <1>5, <1>6 DEF FocusInv, HeldFits
<1>8. \A t : Focus!TitleMatches(t)' <=> Focus!TitleMatches(t)
  BY <1>1 DEF Focus!TitleMatches
<1>9. AnswersAreHeld'
  <2> SUFFICES ASSUME asks \in Answered PROVE AnswersAreHeld'
    BY <1>1 DEF AnswersAreHeld
  <2>1. window \in Windows
    BY DEF FocusInv, CheckTypes
  <2> QED
    BY <1>1, <1>3, <1>7, <1>8, <2>1 DEF FocusInv, AnswersAreHeld
<1>10. YesStands'
  <2> SUFFICES ASSUME asks \in {"yes", "sent"} PROVE held'[window] = Whole
    BY <1>1, <1>3 DEF YesStands
  <2>1. window \in Windows
    BY DEF FocusInv, CheckTypes, Answered
  <2> QED
    BY <1>7, <2>1 DEF FocusInv, YesStands, HeldFits
<1> QED
  BY <1>3, <1>4, <1>7, <1>9, <1>10 DEF FocusInv

\* What a step of the check leaves alone.
LEMMA DesktopWaits ==
  ASSUME FocusInv, UNCHANGED <<guard, exact, target, active, title, class, comm, changes, held>>
  PROVE  /\ DesktopTypes' /\ HeldFits'
         /\ \A t : Focus!TitleMatches(t)' <=> Focus!TitleMatches(t)
         /\ \A w : Focus!Fits(w)' = Focus!Fits(w)
BY DEF FocusInv, DesktopTypes, HeldFits, Focus!Fits, Focus!TitleMatches

LEMMA RefusalKeeps ==
  ASSUME FocusInv, Focus!Says("no")
  PROVE  FocusInv'
<1>1. UNCHANGED <<guard, exact, target, active, title, class, comm, changes, held, window, got, reached>> /\ asks' = "no"
  BY DEF Focus!Says, Focus!Goes, Focus!desktop
<1> QED
  BY <1>1, DesktopWaits DEF FocusInv, CheckTypes, AnswersAreHeld, YesStands, Asks, Answered

LEMMA WindowKeeps ==
  ASSUME Focus!NoneAssumption, FocusInv, Focus!AskActiveWindow
  PROVE  FocusInv'
<1>1. PICK w \in {active, None} :
        IF \/ w = None
           \/ guard = "xdotool" /\ target.window_id \notin {None, w}
        THEN Focus!Says("no")
        ELSE Focus!Goes("id", "title") /\ window' = w /\ UNCHANGED <<got, reached>>
  BY DEF Focus!AskActiveWindow, Focus!Reply
<1>2. CASE Focus!Says("no")
  BY <1>2, RefusalKeeps
<1>3. CASE w # None /\ Focus!Goes("id", "title") /\ window' = w /\ UNCHANGED <<got, reached>>
  <2>1. UNCHANGED <<guard, exact, target, active, title, class, comm, changes, held, got, reached>>
        /\ asks' = "title" /\ window' = active /\ active # None /\ asks = "id"
    BY <1>3 DEF Focus!Goes, Focus!desktop
  <2>2. CheckTypes'
    BY <2>1 DEF FocusInv, DesktopTypes, CheckTypes, Asks, Answered
  <2>3. AnswersAreHeld' /\ YesStands'
    BY <2>1 DEF FocusInv, CheckTypes, AnswersAreHeld, YesStands, Answered
  <2> QED
    BY <2>1, <2>2, <2>3, DesktopWaits DEF FocusInv
<1> QED
  BY <1>1, <1>2, <1>3

LEMMA TitleKeeps ==
  ASSUME Focus!NoneAssumption, FocusInv, Focus!AskTitle
  PROVE  FocusInv'
<1>1. PICK t \in {title[window], None} :
        IF t = None \/ (guard = "xdotool" /\ t # target.title)
        THEN Focus!Says("no")
        ELSE Focus!Goes("title", "class") /\ got' = [got EXCEPT !.title = t] /\ UNCHANGED <<window, reached>>
  BY DEF Focus!AskTitle, Focus!Reply
<1>2. CASE Focus!Says("no")
  BY <1>2, RefusalKeeps
<1>3. CASE t # None /\ Focus!Goes("title", "class") /\ got' = [got EXCEPT !.title = t] /\ UNCHANGED <<window, reached>>
  <2>1. UNCHANGED <<guard, exact, target, active, title, class, comm, changes, held, window, reached>>
        /\ asks' = "class" /\ asks = "title" /\ t = title[window]
    BY <1>1, <1>3 DEF Focus!Goes, Focus!desktop
  <2>2. got' = [title |-> t, class |-> got.class, comm |-> got.comm]
    BY <1>3 DEF FocusInv, CheckTypes
  <2>3. window \in Windows /\ t \in Focus!Titles
    BY <2>1 DEF FocusInv, DesktopTypes, CheckTypes, Answered
  <2>4. CheckTypes'
    BY <1>3, <2>1, <2>2, <2>3 DEF FocusInv, CheckTypes, Asks, Answered
  <2>5. Focus!TitleMatches(t) => "title" \in held[window]
    BY <2>1, <2>3, FitsOneByOne DEF FocusInv, HeldFits
  <2>6. AnswersAreHeld'
    <3>1. /\ got'.title = t /\ got'.class = got.class /\ got'.comm = got.comm
      BY <2>2
    <3> QED
      BY <2>1, <2>5, <3>1, DesktopWaits DEF FocusInv, AnswersAreHeld, Answered
  <2>7. YesStands'
    BY <2>1 DEF YesStands
  <2> QED
    BY <2>1, <2>4, <2>6, <2>7, DesktopWaits DEF FocusInv
<1> QED
  BY <1>1, <1>2, <1>3

\* The guard that asks only for what the target names goes on.
LEMMA SkipKeeps ==
  ASSUME FocusInv, NEW next \in {"comm", "match"}, asks \in {"class", "comm"}, Focus!Says(next)
  PROVE  FocusInv'
<1>1. UNCHANGED <<guard, exact, target, active, title, class, comm, changes, held, window, got, reached>>
      /\ asks' \in {"comm", "match"}
  BY DEF Focus!Says, Focus!Goes, Focus!desktop
<1>2. CheckTypes'
  BY <1>1 DEF FocusInv, CheckTypes, Asks, Answered
<1>3. AnswersAreHeld' /\ YesStands'
  BY <1>1, DesktopWaits DEF FocusInv, AnswersAreHeld, YesStands, Answered
<1> QED
  BY <1>1, <1>2, <1>3, DesktopWaits DEF FocusInv

LEMMA ClassKeeps ==
  ASSUME Focus!NoneAssumption, FocusInv, Focus!AskClass
  PROVE  FocusInv'
<1>1. CASE Focus!Says("comm")
  BY <1>1, SkipKeeps DEF Focus!AskClass
<1>2. CASE Focus!Says("no")
  BY <1>2, RefusalKeeps
<1>3. ASSUME NEW c \in {class[window], None}, Focus!Goes("class", "comm"), got' = [got EXCEPT !.class = c],
             UNCHANGED <<window, reached>>
      PROVE  FocusInv'
  <2>1. UNCHANGED <<guard, exact, target, active, title, class, comm, changes, held, window, reached>>
        /\ asks' = "comm" /\ asks = "class"
    BY <1>3 DEF Focus!Goes, Focus!desktop
  <2>2. got' = [title |-> got.title, class |-> c, comm |-> got.comm]
    BY <1>3 DEF FocusInv, CheckTypes
  <2>3. window \in Windows /\ c \in Focus!Classes \cup {None}
    BY <1>3, <2>1 DEF FocusInv, DesktopTypes, CheckTypes, Answered
  <2>4. CheckTypes'
    BY <2>1, <2>2, <2>3 DEF FocusInv, CheckTypes, Asks, Answered
  <2>5. AnswersAreHeld'
    <3>1. /\ got'.title = got.title /\ got'.class = c /\ got'.comm = got.comm
      BY <2>2
    <3> QED
      BY <1>3, <2>1, <3>1, DesktopWaits DEF FocusInv, AnswersAreHeld, Answered
  <2>6. YesStands'
    BY <2>1 DEF YesStands
  <2> QED
    BY <2>1, <2>4, <2>5, <2>6, DesktopWaits DEF FocusInv
<1> QED
  BY <1>1, <1>2, <1>3 DEF Focus!AskClass, Focus!Reply

LEMMA ProcessKeeps ==
  ASSUME Focus!NoneAssumption, FocusInv, Focus!AskProcess
  PROVE  FocusInv'
<1>1. CASE Focus!Says("match")
  BY <1>1, SkipKeeps DEF Focus!AskProcess
<1>2. CASE Focus!Says("no")
  BY <1>2, RefusalKeeps
<1>3. ASSUME NEW c \in {comm[window], None}, Focus!Goes("comm", "match"), got' = [got EXCEPT !.comm = c],
             UNCHANGED <<window, reached>>
      PROVE  FocusInv'
  <2>1. UNCHANGED <<guard, exact, target, active, title, class, comm, changes, held, window, reached>>
        /\ asks' = "match" /\ asks = "comm"
    BY <1>3 DEF Focus!Goes, Focus!desktop
  <2>2. got' = [title |-> got.title, class |-> got.class, comm |-> c]
    BY <1>3 DEF FocusInv, CheckTypes
  <2>3. window \in Windows /\ c \in Focus!Classes \cup {None}
    BY <1>3, <2>1 DEF FocusInv, DesktopTypes, CheckTypes, Answered
  <2>4. CheckTypes'
    BY <2>1, <2>2, <2>3 DEF FocusInv, CheckTypes, Asks, Answered
  <2>5. c # None => (target.process_name = c => "comm" \in held[window])
    BY <1>3, <2>3, FitsOneByOne DEF FocusInv, HeldFits
  <2>6. AnswersAreHeld'
    <3>1. /\ got'.title = got.title /\ got'.class = got.class /\ got'.comm = c
      BY <2>2
    <3> QED
      BY <1>3, <2>1, <2>5, <3>1, DesktopWaits DEF FocusInv, AnswersAreHeld, Answered
  <2>7. YesStands'
    BY <2>1 DEF YesStands
  <2> QED
    BY <2>1, <2>4, <2>6, <2>7, DesktopWaits DEF FocusInv
<1> QED
  BY <1>1, <1>2, <1>3 DEF Focus!AskProcess, Focus!Reply

\* What matches was held of the window, part by part; on a still desktop it holds.
LEMMA MatchesAreHeld ==
  ASSUME Focus!NoneAssumption, FocusInv, asks = "match", Focus!Matches
  PROVE  /\ held[window] = Whole /\ target.window_id \in {None, window}
         /\ changes = 0 => active = window /\ Focus!Fits(window) = Whole
<1>1. window \in Windows /\ held[window] \subseteq Whole /\ Focus!Fits(window) \subseteq held[window]
  BY DEF FocusInv, CheckTypes, HeldFits, Answered
<1>2. target.class_name \in {"game", None} /\ target.process_name \in {"game", None} /\ None # "game"
  BY DEF FocusInv, DesktopTypes, Focus!Targets, Focus!NoneAssumption
<1>3. "class" \in Focus!Fits(window)
  BY <1>2, FitsOneByOne DEF Focus!Matches, FocusInv, AnswersAreHeld, Answered
<1>4. "title" \in held[window] /\ (changes = 0 => "title" \in Focus!Fits(window))
  BY FitsOneByOne DEF Focus!Matches, FocusInv, AnswersAreHeld, Answered
<1>5. "comm" \in held[window] /\ (changes = 0 => "comm" \in Focus!Fits(window))
  BY <1>1, <1>2, FitsOneByOne DEF Focus!Matches, FocusInv, AnswersAreHeld, Answered
<1>6. held[window] = Whole /\ (changes = 0 => Focus!Fits(window) = Whole)
  BY <1>1, <1>3, <1>4, <1>5 DEF Whole
<1> QED
  BY <1>6 DEF Focus!Matches, FocusInv, AnswersAreHeld, Answered

LEMMA DecisionKeeps ==
  ASSUME Focus!NoneAssumption, FocusInv, Focus!Decide
  PROVE  FocusInv'
<1>1. CASE ~Focus!Matches
  BY <1>1, RefusalKeeps DEF Focus!Decide
<1>2. CASE Focus!Matches
  <2>1. UNCHANGED <<guard, exact, target, active, title, class, comm, changes, held, window, got, reached>>
        /\ asks = "match" /\ asks' = "yes"
    BY <1>2 DEF Focus!Decide, Focus!Says, Focus!Goes, Focus!desktop
  <2>2. CheckTypes'
    BY <2>1 DEF FocusInv, CheckTypes, Asks, Answered
  <2>3. AnswersAreHeld'
    BY <2>1, DesktopWaits DEF FocusInv, AnswersAreHeld, Answered
  <2>4. YesStands'
    BY <1>2, <2>1, DesktopWaits, MatchesAreHeld DEF YesStands
  <2> QED
    BY <2>1, <2>2, <2>3, <2>4, DesktopWaits DEF FocusInv
<1> QED
  BY <1>1, <1>2

LEMMA SendKeeps ==
  ASSUME FocusInv, Focus!Send
  PROVE  FocusInv'
<1>1. UNCHANGED <<guard, exact, target, active, title, class, comm, changes, held, window, got>>
      /\ asks = "yes" /\ asks' = "sent" /\ reached' = active
  BY DEF Focus!Send, Focus!Goes, Focus!desktop
<1>2. CheckTypes'
  BY <1>1 DEF FocusInv, DesktopTypes, CheckTypes, Asks, Answered
<1>3. AnswersAreHeld'
  BY <1>1, DesktopWaits DEF FocusInv, AnswersAreHeld, Answered
<1>4. YesStands'
  BY <1>1, DesktopWaits DEF FocusInv, YesStands
<1> QED
  BY <1>1, <1>2, <1>3, <1>4, DesktopWaits DEF FocusInv

LEMMA FocusIsAlwaysSound ==
  ASSUME Focus!FocusAssumption, Focus!NoneAssumption
  PROVE  Focus!Spec => []FocusInv
<1>1. Focus!Init => FocusInv
  BY FocusInit
<1>2. FocusInv /\ [Focus!Next]_(Focus!vars) => FocusInv'
  <2> SUFFICES ASSUME FocusInv, [Focus!Next]_(Focus!vars) PROVE FocusInv'
    OBVIOUS
  <2>1. CASE UNCHANGED Focus!vars
    <3>1. UNCHANGED <<guard, exact, target, active, title, class, comm, changes, held, asks, window, got, reached>>
      BY <2>1 DEF Focus!vars
    <3> QED
      BY <3>1, DesktopWaits DEF FocusInv, CheckTypes, AnswersAreHeld, YesStands
  <2>2. CASE Focus!Next
    BY <2>2, ChangeKeeps, WindowKeeps, TitleKeeps, ClassKeeps, ProcessKeeps, DecisionKeeps, SendKeeps DEF Focus!Next
  <2> QED
    BY <2>1, <2>2
<1> QED
  BY <1>1, <1>2, PTL DEF Focus!Spec

\* StillDesktopIsToldRight and NoTargetOfTwoWindows: on a desktop that did not change a positive answer is right
\* and the input reaches the window asked for, and on one that did, everything the answer rests on was true of
\* that one window, for any windows, titles and number of changes between the questions.
THEOREM FocusChecksTellRight ==
  ASSUME Focus!FocusAssumption, Focus!NoneAssumption
  PROVE  Focus!Spec => [](Focus!TypeOK /\ Focus!StillDesktopIsToldRight /\ Focus!NoTargetOfTwoWindows)
<1>1. FocusInv => Focus!TypeOK
  BY DEF FocusInv, CheckTypes, Focus!TypeOK, Asks, Answered
<1>2. FocusInv => Focus!StillDesktopIsToldRight /\ Focus!NoTargetOfTwoWindows
  BY DEF FocusInv, YesStands, Whole, Focus!StillDesktopIsToldRight, Focus!NoTargetOfTwoWindows
<1> QED
  BY <1>1, <1>2, FocusIsAlwaysSound, PTL

-----------------------------------------------------------------------------
(* PilotStep.                                                               *)

Pilot == INSTANCE PilotStep WITH frames <- recording, inputs <- pressed, seen <- readBack, pc <- leg

PilotTypes ==
  /\ recording \in Seq(Pilot!Shown) /\ Len(recording) \in Nat \ {0}
  /\ answerOK \in BOOLEAN /\ timeout \in Nat \ {0} /\ stopFile \in BOOLEAN
  /\ limits \in [actions : Nat \ {0}, observations : Nat \ {0}]
  /\ leg \in {"plan", "submit", "act", "look", "verify", "end"}
  /\ {consumed, looks, tries, pressed, step} \subseteq Nat
  /\ consumed <= Len(recording) /\ looks <= limits.observations /\ tries <= limits.actions
  /\ pressed <= tries /\ step <= timeout
  /\ outcome \in Pilot!Outcomes \cup {None} /\ (leg # "end" <=> outcome = None)

\* What was read back is what was logged and fed, one payload for each frame.
ReplayIsInStep ==
  /\ evidence = [i \in 1..consumed |-> i] /\ feed = [i \in 1..consumed |-> i] /\ offset = consumed
  /\ readBack = IF consumed = 0 THEN None ELSE consumed

\* How the figures of the run go together at each point of it.
FiguresFit ==
  /\ leg = "plan" => looks = 0 /\ consumed = 0 /\ pressed = 0 /\ tries = 0 /\ step = 0
  /\ leg = "submit" => looks = 1 /\ consumed = 1 /\ pressed = 0 /\ tries = 0 /\ step = 0
  /\ leg \in {"act", "look", "verify"} => answerOK /\ tries = pressed /\ step = pressed /\ looks = consumed
  /\ leg \in {"act", "verify"} => consumed = pressed + 1
  /\ leg = "verify" => pressed > 0
  /\ leg = "look" => consumed = pressed /\ pressed > 0
  /\ leg = "end" =>
       /\ looks = consumed \/ (looks = consumed + 1 /\ outcome = "replay_unverified")
       /\ pressed > 0 => pressed \in {looks - 1, looks}

\* What each step of the scenario comes to.
Fates == [k \in Nat |-> Pilot!Fate(k)]

\* The steps before which every frame showed nothing and every step went on.
Undecided ==
  {k \in Nat : (\A i \in 2..k : recording[i] = "same") /\ (\A j \in 1..(k - 1) : Fates[j] = "open")}

FirstStepDecides ==
  /\ leg = "act" => pressed + 1 \in Undecided
  /\ leg \in {"look", "verify"} => pressed \in Undecided
  /\ leg \in {"look", "verify"} => pressed <= timeout /\ pressed <= limits.actions
  /\ leg = "end" /\ ~stopFile =>
       IF answerOK
       THEN \E k \in 1..(timeout + 1) : k \in Undecided /\ outcome = Fates[k] /\ outcome # "open"
       ELSE outcome = "rejected"
  /\ outcome = "replay_local_verifier_success" =>
       pressed > 0 /\ consumed = pressed + 1 /\ recording[consumed] = "outcome" /\ pressed \in Undecided

PilotInv == PilotTypes /\ ReplayIsInStep /\ FiguresFit /\ FirstStepDecides

LEMMA PilotInit ==
  ASSUME Pilot!PilotAssumption, Pilot!NoneAssumption, Pilot!Init
  PROVE  PilotInv
<1> USE DEF Pilot!PilotAssumption, Pilot!NoneAssumption, Pilot!Init
<1>1. PICK n \in 1..MaxObservations : recording \in [1..n -> Pilot!Shown]
  OBVIOUS
<1>2. n \in Nat \ {0} /\ recording \in Seq(Pilot!Shown) /\ Len(recording) = n
  BY <1>1
<1>3. limits.actions \in Nat \ {0} /\ limits.observations \in Nat \ {0}
      /\ limits = [actions |-> limits.actions, observations |-> limits.observations]
  OBVIOUS
<1>4. PilotTypes
  BY <1>2, <1>3 DEF PilotTypes
<1>5. ReplayIsInStep
  BY DEF ReplayIsInStep
<1>6. FiguresFit /\ FirstStepDecides
  BY DEF FiguresFit, FirstStepDecides, Pilot!Outcomes
<1> QED
  BY <1>4, <1>5, <1>6 DEF PilotInv

LEMMA CountingUp ==
  ASSUME NEW n \in Nat
  PROVE  /\ Append([i \in 1..n |-> i], n + 1) = [i \in 1..(n + 1) |-> i]
         /\ Len([i \in 1..n |-> i]) = n
<1>1. [i \in 1..n |-> i] \in Seq(Nat) /\ Len([i \in 1..n |-> i]) = n
  OBVIOUS
<1> QED
  BY <1>1

\* What a look comes to: the budget is spent, the recording is, or one more frame is released and read back.
LEMMA LookOutcomes ==
  ASSUME PilotTypes, ReplayIsInStep, NEW next, Pilot!Observe(next)
  PROVE  \/ /\ looks = limits.observations /\ leg' = "end" /\ outcome' = "rejected"
            /\ UNCHANGED <<looks, evidence, feed, offset, consumed, readBack>>
         \/ /\ looks < limits.observations /\ looks' = looks + 1 /\ consumed = Len(recording)
            /\ leg' = "end" /\ outcome' = "replay_unverified"
            /\ UNCHANGED <<evidence, feed, offset, consumed, readBack>>
         \/ /\ looks < limits.observations /\ looks' = looks + 1 /\ consumed < Len(recording)
            /\ consumed' = consumed + 1 /\ ReplayIsInStep' /\ leg' = next /\ UNCHANGED outcome
<1> USE DEF Pilot!Observe, Pilot!Go, Pilot!End, Pilot!replay
<1>0. consumed \in Nat /\ looks \in Nat /\ looks <= limits.observations /\ limits.observations \in Nat
      /\ consumed <= Len(recording) /\ Len(recording) \in Nat
  BY DEF PilotTypes
<1>1. CASE looks = limits.observations
  BY <1>1
<1>2. CASE looks # limits.observations /\ consumed = Len(recording)
  BY <1>0, <1>2
<1>3. CASE looks # limits.observations /\ consumed # Len(recording)
  <2>1. looks' = looks + 1 /\ Pilot!Release(next)
    BY <1>3
  <2>2. evidence' = [i \in 1..(consumed + 1) |-> i] /\ feed' = [i \in 1..(consumed + 1) |-> i]
        /\ consumed' = consumed + 1 /\ offset' = consumed + 1 /\ offset = consumed
    BY <1>0, <2>1, CountingUp DEF Pilot!Release, ReplayIsInStep
  <2>3. feed'[offset + 1] = consumed + 1 /\ evidence'[Len(evidence')] = consumed + 1
    BY <1>0, <2>2, CountingUp
  <2>4. readBack' = consumed + 1 /\ leg' = next /\ UNCHANGED outcome
    BY <2>1, <2>3 DEF Pilot!Release
  <2>5. ReplayIsInStep'
    BY <1>0, <2>2, <2>4 DEF ReplayIsInStep
  <2> QED
    BY <1>0, <1>3, <2>1, <2>2, <2>4, <2>5
<1> QED
  BY <1>1, <1>2, <1>3

\* Nothing that decides was shown or done so far if nothing was before and the next frame shows none.
LEMMA NextStepGoesOn ==
  ASSUME NEW k \in Nat, k # 0, k \in Undecided, Fates[k] = "open", recording[k + 1] = "same"
  PROVE  k + 1 \in Undecided
<1>1. ASSUME NEW i \in 2..(k + 1) PROVE i \in 2..k \/ i = k + 1
  OBVIOUS
<1>2. ASSUME NEW j \in 1..((k + 1) - 1) PROVE j \in 1..(k - 1) \/ j = k
  OBVIOUS
<1>3. \A i \in 2..(k + 1) : recording[i] = "same"
  BY <1>1 DEF Undecided
<1>4. \A j \in 1..((k + 1) - 1) : Fates[j] = "open"
  BY <1>2 DEF Undecided
<1> QED
  BY <1>3, <1>4 DEF Undecided

LEMMA FatesStay ==
  ASSUME UNCHANGED <<recording, timeout, limits>>
  PROVE  Fates' = Fates /\ Undecided' = Undecided
BY DEF Fates, Undecided, Pilot!Fate

LEMMA PilotStep ==
  ASSUME Pilot!PilotAssumption, Pilot!NoneAssumption, PilotInv, [Pilot!Next]_Pilot!vars
  PROVE  PilotInv'
<1> USE Pilot!NoneAssumption DEF Pilot!NoneAssumption, Pilot!Outcomes, Pilot!scenario, Pilot!replay, Pilot!Go, Pilot!End
<1>0. PilotTypes /\ ReplayIsInStep /\ FiguresFit /\ FirstStepDecides
  BY DEF PilotInv
<1>s. Fates' = Fates /\ Undecided' = Undecided
  <2>1. UNCHANGED <<recording, timeout, limits>>
    BY DEF Pilot!Next, Pilot!Stop, Pilot!ObserveAndPlan, Pilot!Submit, Pilot!Act, Pilot!LookAfter, Pilot!Verify,
       Pilot!vars
  <2> QED
    BY <2>1, FatesStay
<1>1. CASE Pilot!Stop
  <2>1. /\ stopFile' = TRUE /\ leg # "end"
        /\ UNCHANGED <<recording, answerOK, timeout, limits, leg, evidence, feed, offset, consumed, looks, tries,
                       pressed, step, readBack, outcome>>
    BY <1>1 DEF Pilot!Stop
  <2> QED
    BY <1>0, <1>s, <2>1 DEF PilotInv, PilotTypes, ReplayIsInStep, FiguresFit, FirstStepDecides
<1>2. CASE Pilot!ObserveAndPlan
  <2>1. /\ leg = "plan" /\ Pilot!Observe("submit")
        /\ UNCHANGED <<recording, answerOK, timeout, limits, stopFile, tries, pressed, step>>
    BY <1>2 DEF Pilot!ObserveAndPlan
  <2>2. /\ looks = 0 /\ consumed = 0 /\ pressed = 0 /\ tries = 0 /\ step = 0 /\ limits.observations \in Nat \ {0}
        /\ Len(recording) \in Nat \ {0}
    BY <1>0, <1>s, <2>1 DEF FiguresFit, PilotTypes
  <2>3. looks' = 1 /\ consumed' = 1 /\ ReplayIsInStep' /\ leg' = "submit" /\ UNCHANGED outcome
    BY <1>0, <1>s, <2>1, <2>2, LookOutcomes
  <2>4. PilotTypes'
    BY <1>0, <1>s, <2>1, <2>2, <2>3 DEF PilotTypes
  <2>5. FiguresFit' /\ FirstStepDecides'
    BY <1>0, <1>s, <2>1, <2>2, <2>3 DEF FiguresFit, FirstStepDecides, PilotTypes
  <2> QED
    BY <2>3, <2>4, <2>5 DEF PilotInv
<1>3. CASE Pilot!Submit
  <2>1. /\ leg = "submit"
        /\ UNCHANGED <<recording, answerOK, timeout, limits, stopFile, evidence, feed, offset, consumed, looks, tries,
                       pressed, step, readBack>>
        /\ IF answerOK THEN leg' = "act" /\ UNCHANGED outcome ELSE leg' = "end" /\ outcome' = "rejected"
    BY <1>3 DEF Pilot!Submit
  <2>2. looks = 1 /\ consumed = 1 /\ pressed = 0 /\ tries = 0 /\ step = 0
    BY <1>0, <1>s, <2>1 DEF FiguresFit
  <2>3. 1 \in Undecided
    BY DEF Undecided
  <2>4. PilotTypes' /\ ReplayIsInStep'
    BY <1>0, <1>s, <2>1 DEF PilotTypes, ReplayIsInStep
  <2>5. FiguresFit' /\ FirstStepDecides'
    BY <1>0, <1>s, <2>1, <2>2, <2>3 DEF FiguresFit, FirstStepDecides, PilotTypes
  <2> QED
    BY <2>4, <2>5 DEF PilotInv
<1>4. CASE Pilot!Act
  <2>1. /\ leg = "act"
        /\ UNCHANGED <<recording, answerOK, timeout, limits, stopFile, evidence, feed, offset, consumed, looks, readBack>>
    BY <1>4 DEF Pilot!Act
  <2>2. /\ answerOK /\ tries = pressed /\ step = pressed /\ looks = consumed /\ consumed = pressed + 1
        /\ pressed + 1 \in Undecided /\ pressed \in Nat /\ pressed <= limits.actions /\ pressed <= timeout
        /\ timeout \in Nat /\ limits.actions \in Nat
    BY <1>0, <1>s, <2>1 DEF FiguresFit, FirstStepDecides, PilotTypes
  <2>3. CASE step = timeout
    <3>1. leg' = "end" /\ outcome' = "manager_stop" /\ UNCHANGED <<tries, pressed, step>>
      BY <1>4, <2>3 DEF Pilot!Act
    <3>2. Fates[pressed + 1] = "manager_stop" /\ pressed + 1 \in Undecided /\ pressed + 1 \in 1..(timeout + 1)
      BY <2>1, <2>2, <2>3, <3>1 DEF Fates, Pilot!Fate
    <3> QED
      BY <1>0, <1>s, <2>1, <2>2, <3>1, <3>2 DEF PilotInv, PilotTypes, ReplayIsInStep, FiguresFit, FirstStepDecides
  <2>4. CASE step # timeout /\ tries = limits.actions
    <3>1. leg' = "end" /\ outcome' = "rejected" /\ UNCHANGED <<tries, pressed, step>>
      BY <1>4, <2>4 DEF Pilot!Act
    <3>2. Fates[pressed + 1] = "rejected" /\ pressed + 1 \in Undecided /\ pressed + 1 \in 1..(timeout + 1)
      BY <2>1, <2>2, <2>4, <3>1 DEF Fates, Pilot!Fate
    <3> QED
      BY <1>0, <1>s, <2>1, <2>2, <3>1, <3>2 DEF PilotInv, PilotTypes, ReplayIsInStep, FiguresFit, FirstStepDecides
  <2>5. CASE step # timeout /\ tries # limits.actions
    <3>1. tries' = tries + 1 /\ step' = step + 1
          /\ IF stopFile THEN leg' = "end" /\ outcome' = "manager_stop" /\ UNCHANGED pressed
             ELSE leg' = "look" /\ UNCHANGED outcome /\ pressed' = pressed + 1
      BY <1>4, <2>5 DEF Pilot!Act
    <3>3. PilotTypes' /\ ReplayIsInStep'
      BY <1>0, <1>s, <2>1, <2>2, <2>5, <3>1 DEF PilotTypes, ReplayIsInStep
    <3>2. outcome' \in {None, "manager_stop"} /\ tries \in Nat /\ step \in Nat
      BY <1>0, <2>1, <3>1 DEF PilotTypes
    <3>4. FiguresFit' /\ FirstStepDecides'
      BY <1>s, <2>1, <2>2, <2>5, <3>1, <3>2 DEF FiguresFit, FirstStepDecides
    <3> QED
      BY <3>3, <3>4 DEF PilotInv
  <2> QED
    BY <2>3, <2>4, <2>5
<1>5. CASE Pilot!LookAfter
  <2>1. /\ leg = "look" /\ Pilot!Observe("verify")
        /\ UNCHANGED <<recording, answerOK, timeout, limits, stopFile, tries, pressed, step>>
    BY <1>5 DEF Pilot!LookAfter
  <2>2. /\ answerOK /\ tries = pressed /\ step = pressed /\ looks = consumed /\ consumed = pressed
        /\ pressed \in Undecided /\ pressed \in Nat \ {0} /\ pressed <= limits.actions /\ pressed <= timeout
        /\ timeout \in Nat /\ limits.actions \in Nat /\ limits.observations \in Nat /\ Len(recording) \in Nat
    BY <1>0, <1>s, <2>1 DEF FiguresFit, FirstStepDecides, PilotTypes
  <2>4. CASE /\ looks = limits.observations /\ leg' = "end" /\ outcome' = "rejected"
             /\ UNCHANGED <<looks, evidence, feed, offset, consumed, readBack>>
    <3>1. Fates[pressed] = "rejected"
      BY <2>1, <2>2, <2>4 DEF Fates, Pilot!Fate
    <3> QED
      BY <1>0, <1>s, <2>1, <2>2, <2>4, <3>1 DEF PilotInv, PilotTypes, ReplayIsInStep, FiguresFit, FirstStepDecides
  <2>5. CASE /\ looks < limits.observations /\ looks' = looks + 1 /\ consumed = Len(recording)
             /\ leg' = "end" /\ outcome' = "replay_unverified"
             /\ UNCHANGED <<evidence, feed, offset, consumed, readBack>>
    <3>1. Fates[pressed] = "replay_unverified"
      BY <2>1, <2>2, <2>5 DEF Fates, Pilot!Fate
    <3> QED
      BY <1>0, <1>s, <2>1, <2>2, <2>5, <3>1 DEF PilotInv, PilotTypes, ReplayIsInStep, FiguresFit, FirstStepDecides
  <2>6. CASE /\ looks < limits.observations /\ looks' = looks + 1 /\ consumed < Len(recording)
             /\ consumed' = consumed + 1 /\ ReplayIsInStep' /\ leg' = "verify" /\ UNCHANGED outcome
    BY <1>0, <1>s, <2>1, <2>2, <2>6 DEF PilotInv, PilotTypes, FiguresFit, FirstStepDecides
  <2> QED
    BY <1>0, <1>s, <2>1, <2>4, <2>5, <2>6, LookOutcomes
<1>6. CASE Pilot!Verify
  <2>1. /\ leg = "verify"
        /\ UNCHANGED <<recording, answerOK, timeout, limits, stopFile, evidence, feed, offset, consumed, looks, tries,
                       pressed, step, readBack>>
    BY <1>6 DEF Pilot!Verify
  <2>2. /\ answerOK /\ tries = pressed /\ step = pressed /\ looks = consumed /\ consumed = pressed + 1
        /\ pressed \in Undecided /\ pressed \in Nat \ {0} /\ pressed <= limits.actions /\ pressed <= timeout
        /\ timeout \in Nat /\ limits.actions \in Nat /\ limits.observations \in Nat /\ Len(recording) \in Nat
        /\ consumed <= limits.observations /\ consumed <= Len(recording) /\ recording \in Seq(Pilot!Shown)
        /\ readBack = consumed
    BY <1>0, <1>s, <2>1 DEF FiguresFit, FirstStepDecides, PilotTypes, ReplayIsInStep
  <2>3. recording[consumed] \in {"same", "outcome", "dead"}
    BY <2>2 DEF Pilot!Shown
  <2>5. Fates[pressed] = IF recording[consumed] = "dead" THEN "replay_local_verifier_failure"
                        ELSE IF recording[consumed] = "outcome" THEN "replay_local_verifier_success" ELSE "open"
    BY <2>2 DEF Fates, Pilot!Fate
  <2>6. CASE recording[consumed] = "dead"
    <3>1. leg' = "end" /\ outcome' = "replay_local_verifier_failure" /\ outcome' = Fates[pressed]
      BY <1>6, <2>1, <2>2, <2>5, <2>6 DEF Pilot!Verify
    <3> QED
      BY <1>0, <1>s, <2>1, <2>2, <3>1 DEF PilotInv, PilotTypes, ReplayIsInStep, FiguresFit, FirstStepDecides
  <2>7. CASE recording[consumed] = "outcome"
    <3>1. leg' = "end" /\ outcome' = "replay_local_verifier_success" /\ outcome' = Fates[pressed]
      BY <1>6, <2>1, <2>2, <2>5, <2>7 DEF Pilot!Verify
    <3> QED
      BY <1>0, <1>s, <2>1, <2>2, <2>7, <3>1 DEF PilotInv, PilotTypes, ReplayIsInStep, FiguresFit, FirstStepDecides
  <2>8. CASE recording[consumed] = "same"
    <3>1. leg' = "act" /\ UNCHANGED outcome
      BY <1>6, <2>1, <2>2, <2>8 DEF Pilot!Verify
    <3>2. pressed + 1 \in Undecided
      BY <2>2, <2>5, <2>8, NextStepGoesOn
    <3> QED
      BY <1>0, <1>s, <2>1, <2>2, <3>1, <3>2 DEF PilotInv, PilotTypes, ReplayIsInStep, FiguresFit, FirstStepDecides
  <2> QED
    BY <2>3, <2>6, <2>7, <2>8
<1>7. CASE UNCHANGED Pilot!vars
  BY <1>0, <1>s, <1>7 DEF Pilot!vars, PilotInv, PilotTypes, ReplayIsInStep, FiguresFit, FirstStepDecides
<1> QED
  BY <1>1, <1>2, <1>3, <1>4, <1>5, <1>6, <1>7 DEF Pilot!Next

\* What the figures of a pilot run, its recording and its outcome have to do with each other.
THEOREM PilotIsAlwaysSound ==
  ASSUME Pilot!PilotAssumption, Pilot!NoneAssumption
  PROVE  Pilot!Spec => []PilotInv
<1>1. Pilot!Init => PilotInv
  BY PilotInit
<1>2. PilotInv /\ [Pilot!Next]_Pilot!vars => PilotInv'
  BY PilotStep
<1> QED
  BY <1>1, <1>2, PTL DEF Pilot!Spec

\* TypeOK, BudgetsTellTheRun and SuccessFollowsAnInput, for any recording and any budgets.
THEOREM PilotReportsTellTheRun ==
  ASSUME Pilot!PilotAssumption, Pilot!NoneAssumption
  PROVE  Pilot!Spec => [](Pilot!TypeOK /\ Pilot!BudgetsTellTheRun /\ Pilot!SuccessFollowsAnInput)
<1> USE DEF Pilot!NoneAssumption, Pilot!Outcomes
<1>1. PilotInv => Pilot!TypeOK
  BY DEF PilotInv, PilotTypes, ReplayIsInStep, Pilot!TypeOK
<1>2. ASSUME PilotInv PROVE Pilot!BudgetsTellTheRun
  <2>1. consumed \in Nat /\ evidence = [i \in 1..consumed |-> i] /\ feed = evidence /\ offset = consumed
        /\ readBack = IF consumed = 0 THEN None ELSE consumed
    BY <1>2 DEF PilotInv, PilotTypes, ReplayIsInStep
  <2>2. Pilot!Report.observations = evidence /\ Len(Pilot!Report.observations) = consumed
        /\ Pilot!Report.used.observations = looks /\ Pilot!Report.dry_run = pressed /\ Pilot!Report.outcome = outcome
    BY <2>1, CountingUp DEF Pilot!Report
  <2>3. looks = consumed \/ (looks = consumed + 1 /\ outcome = "replay_unverified")
    BY <1>2 DEF PilotInv, PilotTypes, FiguresFit
  <2>4. pressed > 0 /\ leg = "end" => pressed \in {looks - 1, looks}
    BY <1>2 DEF PilotInv, FiguresFit
  <2> QED
    BY <2>1, <2>2, <2>3, <2>4 DEF Pilot!BudgetsTellTheRun
<1>3. ASSUME PilotInv PROVE Pilot!SuccessFollowsAnInput
  BY <1>3 DEF PilotInv, PilotTypes, ReplayIsInStep, FirstStepDecides, Undecided, Pilot!SuccessFollowsAnInput
<1> QED
  BY <1>1, <1>2, <1>3, PilotIsAlwaysSound, PTL

\* ReplayIsReproducible: without the stop file the outcome is that of the first step that decides, whatever the
\* recording holds.
THEOREM PilotsAreReproducible ==
  ASSUME Pilot!PilotAssumption, Pilot!NoneAssumption
  PROVE  Pilot!Spec => []Pilot!ReplayIsReproducible
<1>1. ASSUME PilotInv, outcome # None, ~stopFile, answerOK
      PROVE  LET decided == {j \in 1..(timeout + 1) : Pilot!Fate(j) # "open"}
             IN  outcome = Pilot!Fate(Pilot!Min(decided))
  <2>1. PICK k \in 1..(timeout + 1) : k \in Undecided /\ outcome = Fates[k] /\ outcome # "open"
    BY <1>1 DEF PilotInv, PilotTypes, FirstStepDecides
  <2> DEFINE decided == {j \in 1..(timeout + 1) : Pilot!Fate(j) # "open"}
  <2>2. timeout \in Nat /\ k \in Nat
    BY <1>1 DEF PilotInv, PilotTypes
  <2>3. \A j \in 1..(timeout + 1) : Fates[j] = Pilot!Fate(j)
    BY <2>2 DEF Fates
  <2>4. k \in decided
    BY <2>1, <2>3
  <2>5. ASSUME NEW j \in decided PROVE k <= j
    <3>1. j \in 1..(timeout + 1) /\ Fates[j] # "open"
      BY <2>3
    <3>2. \A i \in 1..(k - 1) : Fates[i] = "open"
      BY <2>1 DEF Undecided
    <3> QED
      BY <2>2, <3>1, <3>2
  <2>6. Pilot!Min(decided) = k
    <3> HIDE DEF decided
    <3>1. decided \subseteq Nat
      BY <2>2 DEF decided
    <3> QED
      <4>1. \E x \in decided : \A y \in decided : x <= y
        BY <2>4, <2>5
      <4>2. Pilot!Min(decided) \in decided /\ \A y \in decided : Pilot!Min(decided) <= y
        BY <4>1 DEF Pilot!Min
      <4>3. ASSUME NEW m \in decided, \A y \in decided : m <= y PROVE m = k
        <5>1. m <= k /\ k <= m /\ m \in Nat /\ k \in Nat
          BY <2>2, <2>4, <2>5, <3>1, <4>3
        <5> QED
          BY <5>1
      <4> QED
        BY <4>2, <4>3, Zenon
  <2> QED
    BY <2>1, <2>3, <2>6
<1>2. ASSUME PilotInv, outcome # None, ~stopFile, ~answerOK PROVE outcome = "rejected"
  BY <1>2 DEF PilotInv, PilotTypes, FirstStepDecides
<1>3. PilotInv => Pilot!ReplayIsReproducible
  BY <1>1, <1>2 DEF Pilot!ReplayIsReproducible
<1> QED
  BY <1>3, PilotIsAlwaysSound, PTL

-----------------------------------------------------------------------------
(* ObservationChain.                                                        *)

Chain == INSTANCE ObservationChain WITH
  MaxSteps <- RunSteps, world <- moment, latest <- newest, pc <- cpc, start <- first, verdict <- checked,
  stop <- halted, event <- closing

Observations == 0..MaxChanges
Basis == [basis : Observations, sent : Observations]

ChainTypes ==
  /\ Chain!TypeOK
  /\ cpc \in {"idle", "start", "act", "look", "verify", "complete", "down"}
  /\ inputs \in Seq(Basis) /\ rows \in Seq([attempt : Nat, status : {"success", "failure", "stopped"}])
  /\ \A i \in DOMAIN inputs : inputs[i].sent <= moment
  /\ cpc \notin {"idle", "down"} => Len(rows) < attempt
  /\ cpc # "idle" => closing = None

\* The source that is handed to the runner still has what was planned on, until the runner reads it.
PrimedUntilRead ==
  /\ cpc = "start" => primed /\ planned \in 0..moment /\ checked = None /\ inputs = <<>>
  /\ cpc \in {"act", "look", "verify"} =>
       ~primed /\ first = planned /\ newest \in 0..moment

\* The latest observation is newer than every input that went out before the runner asked for it.
LatestIsNew ==
  /\ cpc \in {"act", "verify"} => \A i \in DOMAIN inputs : inputs[i].sent <= newest
  /\ cpc = "look" => inputs # <<>> /\ \A i \in DOMAIN inputs : i < Len(inputs) => inputs[i].sent <= newest

AttemptDecided == checked # None /\ checked.status \in {"success", "failure"}

\* The last verdict is of the latest observation but the one that was asked for since.
VerdictIsRecent ==
  /\ checked # None =>
       /\ checked.from = planned /\ checked.to \in Observations
       /\ \A i \in DOMAIN inputs : i < Len(inputs) => inputs[i].sent <= checked.to
  /\ AttemptDecided => /\ \A i \in DOMAIN inputs : inputs[i].sent <= checked.to
                /\ cpc \in {"complete", "idle", "down"}
  /\ checked # None /\ cpc = "act" => \A i \in DOMAIN inputs : inputs[i].sent <= checked.to

ClosedByOne ==
  closing # None =>
    /\ closing.manager_stop_result = halted
    /\ IF halted = None THEN AttemptDecided /\ closing.verifier_result = checked /\ closing.status = checked.status
       ELSE closing.verifier_result = None /\ closing.status = "stopped"

ChainInv ==
  /\ ChainTypes /\ PrimedUntilRead /\ LatestIsNew /\ VerdictIsRecent /\ ClosedByOne
  /\ Chain!OnlyTheFirstActsOnOldNews

LEMMA ChainInit ==
  ASSUME Chain!ChainAssumption, Chain!Init
  PROVE  ChainInv
<1> USE DEF Chain!ChainAssumption, Chain!Init
<1>1. ChainTypes
  BY DEF ChainTypes, Chain!TypeOK, Basis, Observations
<1>2. PrimedUntilRead /\ LatestIsNew /\ VerdictIsRecent /\ ClosedByOne /\ Chain!OnlyTheFirstActsOnOldNews
  BY DEF PrimedUntilRead, LatestIsNew, VerdictIsRecent, AttemptDecided, ClosedByOne, Chain!OnlyTheFirstActsOnOldNews
<1> QED
  BY <1>1, <1>2 DEF ChainInv

LEMMA InputsAreBased ==
  ASSUME Chain!ChainAssumption, ChainTypes
  PROVE  /\ Len(inputs) \in Nat /\ DOMAIN inputs = 1..Len(inputs)
         /\ \A i \in 1..Len(inputs) : inputs[i].sent \in Nat /\ inputs[i].sent \in Observations
                                      /\ inputs[i].sent <= moment /\ inputs[i].basis \in Nat
         /\ moment \in Nat
<1>1. inputs \in Seq(Basis) /\ moment \in Nat /\ \A i \in DOMAIN inputs : inputs[i].sent <= moment
  BY DEF ChainTypes, Chain!TypeOK, Chain!ChainAssumption
<1>2. Len(inputs) \in Nat /\ DOMAIN inputs = 1..Len(inputs) /\ \A i \in 1..Len(inputs) : inputs[i] \in Basis
  BY <1>1
<1>3. \A b \in Basis : b.sent \in Nat /\ b.sent \in Observations /\ b.basis \in Nat
  BY DEF Basis, Observations, Chain!ChainAssumption
<1> QED
  BY <1>1, <1>2, <1>3

LEMMA ChainStep ==
  ASSUME Chain!ChainAssumption, ChainInv, [Chain!Next]_Chain!vars
  PROVE  ChainInv'
<1> USE DEF Chain!ChainAssumption, ChainInv, ChainTypes, PrimedUntilRead, LatestIsNew, VerdictIsRecent,
       AttemptDecided, ClosedByOne, Chain!OnlyTheFirstActsOnOldNews, Chain!TypeOK, Basis, Observations
<1>0. /\ Len(inputs) \in Nat /\ DOMAIN inputs = 1..Len(inputs)
      /\ \A i \in 1..Len(inputs) : inputs[i].sent \in Nat /\ inputs[i].sent \in Observations
                                   /\ inputs[i].sent <= moment /\ inputs[i].basis \in Nat
      /\ moment \in Nat
  BY InputsAreBased
<1>1. CASE Chain!WorldChanges
  <2>1. moment' = moment + 1 /\ moment' \in 0..MaxChanges
    BY <1>1 DEF Chain!WorldChanges
  <2>2. UNCHANGED <<cpc, attempt, planned, primed, first, newest, inputs, checked, halted, closing, rows>>
    BY <1>1 DEF Chain!WorldChanges
  <2>4. ChainTypes'
    BY <1>0, <2>1, <2>2
  <2>5. PrimedUntilRead'
    BY <2>1, <2>2
  <2>6. (LatestIsNew /\ VerdictIsRecent /\ ClosedByOne /\ Chain!OnlyTheFirstActsOnOldNews)'
    BY <2>2
  <2> QED
    BY <2>4, <2>5, <2>6
<1>2. CASE Chain!Plan
  BY <1>2 DEF Chain!Plan
<1>3. CASE Chain!Begin
  BY <1>3 DEF Chain!Begin, Chain!Observed
<1>4. CASE Chain!Act
  <2>1. CASE UNCHANGED inputs
    BY <1>4, <2>1 DEF Chain!Act, Chain!Stopped, Chain!DecidesOn
  <2>2. CASE /\ inputs' = Append(inputs, [basis |-> newest, sent |-> moment])
             /\ cpc' = "look" /\ UNCHANGED halted /\ Len(inputs) # RunSteps
    <3> DEFINE new == [basis |-> newest, sent |-> moment]
    <3>1. new \in Basis /\ newest \in 0..moment /\ inputs \in Seq(Basis) /\ new.sent = moment /\ new.basis = newest
      BY <1>4 DEF Chain!Act
    <3>2. /\ inputs' \in Seq(Basis) /\ Len(inputs') = Len(inputs) + 1 /\ DOMAIN inputs' = 1..(Len(inputs) + 1)
          /\ DOMAIN inputs = 1..Len(inputs)
          /\ \A i \in 1..Len(inputs) : inputs'[i] = inputs[i]
          /\ inputs'[Len(inputs) + 1] = new
      BY <2>2, <3>1
    <3> HIDE DEF new
    <3>3. UNCHANGED <<moment, attempt, planned, primed, first, newest, checked, closing, rows>> /\ cpc = "act"
      BY <1>4 DEF Chain!Act
    <3>4. ChainTypes'
      BY <2>2, <3>1, <3>2, <3>3
    <3>9. \A i \in 1..Len(inputs) : inputs[i].sent <= newest
      BY <1>0, <3>3
    <3>10. Chain!OnlyTheFirstActsOnOldNews /\ newest \in Nat /\ inputs' # <<>>
      BY <1>0, <3>1, <3>2
    <3>5. PrimedUntilRead' /\ ClosedByOne'
      BY <1>0, <2>2, <3>1, <3>2, <3>3
    <3>7. LatestIsNew'
      BY <1>0, <2>2, <3>1, <3>2, <3>3, <3>9, <3>10
    <3>8. VerdictIsRecent'
      BY <1>0, <2>2, <3>1, <3>2, <3>3
    <3>6. Chain!OnlyTheFirstActsOnOldNews'
      <4> SUFFICES ASSUME NEW i \in 2..(Len(inputs) + 1) PROVE inputs'[i].basis >= inputs'[i - 1].sent
        BY <3>2
      <4>1. CASE i \in 2..Len(inputs)
        <5>1. i \in 1..Len(inputs) /\ i - 1 \in 1..Len(inputs)
          BY <1>0, <4>1
        <5>2. inputs'[i] = inputs[i] /\ inputs'[i - 1] = inputs[i - 1]
          BY <3>2, <5>1
        <5> QED
          BY <3>10, <4>1, <5>2
      <4>2. CASE i = Len(inputs) + 1
        <5>1. i - 1 \in 1..Len(inputs)
          BY <1>0, <4>2
        <5>2. inputs'[i] = new /\ inputs'[i - 1] = inputs[i - 1] /\ inputs[i - 1].sent <= newest
          BY <3>2, <3>9, <4>2, <5>1
        <5> QED
          BY <1>0, <3>1, <3>10, <5>1, <5>2
      <4> QED
        BY <1>0, <4>1, <4>2
    <3> QED
      BY <3>4, <3>5, <3>6, <3>7, <3>8
  <2> QED
    BY <1>4, <2>1, <2>2 DEF Chain!Act, Chain!DecidesOn
<1>5. CASE Chain!Look
  BY <1>5 DEF Chain!Look, Chain!Observed
<1>6. CASE Chain!Verify
  BY <1>6 DEF Chain!Verify, Chain!Verdicts
<1>7. CASE Chain!Complete
  <2>1. CASE Chain!ClosingStatus = None
    BY <1>7, <2>1 DEF Chain!Complete
  <2>2. CASE Chain!ClosingStatus # None
    <3>1. Chain!ClosingStatus \in {"success", "failure", "stopped"}
      BY <2>2 DEF Chain!ClosingStatus
    <3>2. /\ closing' = Chain!Event /\ rows' = Append(rows, Chain!Row(closing')) /\ cpc' = "idle" /\ cpc = "complete"
          /\ UNCHANGED <<moment, attempt, planned, primed, first, newest, inputs, checked, halted>>
      BY <1>7, <2>2 DEF Chain!Complete
    <3>3. /\ closing'.attempt = attempt /\ closing'.status = Chain!ClosingStatus
          /\ closing'.verifier_result = (IF halted = None THEN checked ELSE None)
          /\ closing'.manager_stop_result = halted
      BY <3>2 DEF Chain!Event
    <3>4. /\ Chain!Row(closing') \in [attempt : Nat, status : {"success", "failure", "stopped"}]
      BY <3>1, <3>3 DEF Chain!Row
    <3>5. ChainTypes'
      BY <3>1, <3>2, <3>3, <3>4
    <3>6. ClosedByOne'
      BY <2>2, <3>2, <3>3 DEF Chain!ClosingStatus
    <3> QED
      BY <3>2, <3>5, <3>6
  <2> QED
    BY <2>1, <2>2
<1>8. CASE Chain!Raise
  BY <1>8 DEF Chain!Raise
<1>9. CASE UNCHANGED Chain!vars
  BY <1>9 DEF Chain!vars
<1> QED
  BY <1>1, <1>2, <1>3, <1>4, <1>5, <1>6, <1>7, <1>8, <1>9 DEF Chain!Next

\* What the observations, the inputs, the verdicts and the events of the attempts have to do with each other.
THEOREM ChainIsAlwaysSound ==
  ASSUME Chain!ChainAssumption
  PROVE  Chain!Spec => []ChainInv
<1>1. Chain!Init => ChainInv
  BY ChainInit
<1>2. ChainInv /\ [Chain!Next]_Chain!vars => ChainInv'
  BY ChainStep
<1> QED
  BY <1>1, <1>2, PTL DEF Chain!Spec

\* TypeOK and OnlyTheFirstActsOnOldNews, for any number of steps, attempts and changes of the world: every input
\* but the first of an attempt was decided on an observation made after the input before it.
THEOREM OnlyFirstInputsActOnOldNews ==
  ASSUME Chain!ChainAssumption
  PROVE  Chain!Spec => [](Chain!TypeOK /\ Chain!OnlyTheFirstActsOnOldNews)
<1>1. ChainInv => Chain!TypeOK /\ Chain!OnlyTheFirstActsOnOldNews
  BY DEF ChainInv, ChainTypes
<1> QED
  BY <1>1, ChainIsAlwaysSound, PTL

\* VerdictSpansTheAttempt and OneAuthority: a verdict compares what was planned on with what came of every input of
\* the attempt, and a completed task is closed by a decisive verdict or by a stop, never by both or by neither.
THEOREM VerdictsSpanTheirAttempts ==
  ASSUME Chain!ChainAssumption
  PROVE  Chain!Spec => [](Chain!VerdictSpansTheAttempt /\ Chain!OneAuthority)
<1>1. ChainInv => Chain!VerdictSpansTheAttempt
  BY DEF ChainInv, VerdictIsRecent, ClosedByOne, AttemptDecided, Chain!VerdictSpansTheAttempt
<1>2. ChainInv => Chain!OneAuthority
  BY DEF ChainInv, ClosedByOne, AttemptDecided, Chain!OneAuthority
<1> QED
  BY <1>1, <1>2, ChainIsAlwaysSound, PTL

-----------------------------------------------------------------------------
\* The environment, its recorder and the learner, with variables of their own.
Replay == INSTANCE ReplayLearning WITH MaxSteps <- Horizon

\* What an environment may show, and the names of what may be done.
Shown == [agent : Replay!Cells, target : Replay!Cells, steps : 0..Horizon]
Actions == {Replay!ACTION_NAMES[code] : code \in 0..4}

\* A transition is a move the environment makes, rewarded when it reaches the target.
Moves ==
  {t \in [obs : Shown, action : Actions, next_obs : Shown, good : BOOLEAN, done : BOOLEAN] :
     /\ t.next_obs.agent = Replay!_next_position(t.obs.agent, Replay!ACTION_TO_INDEX(t.action))
     /\ t.next_obs.target = t.obs.target /\ t.next_obs.steps = t.obs.steps + 1
     /\ t.good <=> t.next_obs.agent = t.next_obs.target}

\* Before the first reset nothing was recorded; later the recorder keeps what the environment shows.
RecorderKeepsUp ==
  \/ last_obs = None /\ step_count = 0 /\ ~ended
  \/ last_obs = Replay!Observation(agent, task.target, step_count) /\ (~ended => step_count < Horizon)

ReplayInv ==
  /\ task \in [start : Replay!Cells, target : Replay!Cells] /\ agent \in Replay!Cells
  /\ step_count \in 0..Horizon /\ ended \in BOOLEAN
  /\ buffer \in Seq(Moves) /\ Len(buffer) <= Capacity
  /\ RecorderKeepsUp

\* The two tables of actions agree, and a step stays on the grid.
LEMMA TablesAgree ==
  ASSUME NEW code \in 0..4
  PROVE  Replay!ACTION_TO_INDEX(Replay!ACTION_NAMES[code]) = code
<1>1. code \in {0, 1, 2, 3, 4}
  OBVIOUS
<1>2. Replay!ACTION_NAMES[code] = <<"move_up", "move_down", "move_left", "move_right", "wait">>[code + 1]
  BY DEF Replay!ACTION_NAMES
<1> QED
  BY <1>1, <1>2 DEF Replay!ACTION_TO_INDEX

LEMMA StepsStayInside ==
  ASSUME Replay!ReplayAssumption, NEW at \in Replay!Cells, NEW code \in 0..4
  PROVE  Replay!_next_position(at, code) \in Replay!Cells
<1>1. Width \in Nat \ {0} /\ Height \in Nat \ {0}
  BY DEF Replay!ReplayAssumption
<1>2. at[1] \in 0..(Width - 1) /\ at[2] \in 0..(Height - 1)
  BY DEF Replay!Cells
<1>3. \A size \in Nat \ {0} : \A v \in Int : Replay!Clip(v, size) \in 0..(size - 1)
  BY DEF Replay!Clip
<1>4. PICK dx \in {-1, 0, 1}, dy \in {-1, 0, 1} :
        Replay!_next_position(at, code) = <<Replay!Clip(at[1] + dx, Width), Replay!Clip(at[2] + dy, Height)>>
  <2> DEFINE dx == CASE code = 2 -> -1 [] code = 3 -> 1 [] OTHER -> 0
             dy == CASE code = 0 -> -1 [] code = 1 -> 1 [] OTHER -> 0
  <2>1. dx \in {-1, 0, 1} /\ dy \in {-1, 0, 1}
    OBVIOUS
  <2>2. Replay!_next_position(at, code) = <<Replay!Clip(at[1] + dx, Width), Replay!Clip(at[2] + dy, Height)>>
    BY DEF Replay!_next_position
  <2> HIDE DEF dx, dy
  <2> QED
    BY <2>1, <2>2
<1>5. Replay!Clip(at[1] + dx, Width) \in 0..(Width - 1) /\ Replay!Clip(at[2] + dy, Height) \in 0..(Height - 1)
  <2>1. at[1] + dx \in Int /\ at[2] + dy \in Int
    BY <1>1, <1>2
  <2> QED
    BY <1>1, <1>3, <2>1
<1> QED
  BY <1>4, <1>5 DEF Replay!Cells

\* What the buffer holds is what it held, but for the oldest, and the new one.
LEMMA AddKeepsNewest ==
  ASSUME NEW S, NEW b \in Seq(S), NEW t \in S, Replay!ReplayAssumption, Len(b) <= Capacity
  PROVE  LET kept == Replay!Add(b, t)
         IN  /\ kept \in Seq(S) /\ Len(kept) <= Capacity
             /\ Replay!Last(kept) = t
             /\ Replay!IsPrefix(Replay!Front(kept), b) \/ Replay!IsPrefix(Replay!Front(kept), Tail(b))
<1> DEFINE all == Append(b, t)
           kept == Replay!Add(b, t)
<1>1. Capacity \in Nat \ {0} /\ Len(b) \in Nat
  BY DEF Replay!ReplayAssumption
<1>2. all \in Seq(S) /\ Len(all) = Len(b) + 1 /\ all[Len(all)] = t /\ (\A i \in 1..Len(b) : all[i] = b[i])
  OBVIOUS
<1>3. CASE Len(all) > Capacity
  <2>1. kept = Tail(all) /\ Len(b) = Capacity /\ b # <<>>
    BY <1>1, <1>2, <1>3 DEF Replay!Add
  <2> HIDE DEF all, kept
  <2>2. kept \in Seq(S) /\ Len(kept) = Len(b) /\ (\A i \in 1..Len(b) : kept[i] = all[i + 1])
    BY <1>1, <1>2, <2>1
  <2>3. Tail(b) \in Seq(S) /\ Len(Tail(b)) = Len(b) - 1 /\ (\A i \in 1..(Len(b) - 1) : Tail(b)[i] = b[i + 1])
    BY <2>1
  <2>4. SubSeq(kept, 1, Len(b) - 1) = Tail(b)
    BY <1>1, <1>2, <2>1, <2>2, <2>3
  <2>5. SubSeq(Tail(b), 1, Len(b) - 1) = Tail(b)
    BY <1>1, <2>1, <2>3
  <2>6. Replay!IsPrefix(Replay!Front(kept), Tail(b))
    <3>1. Replay!Front(kept) = Tail(b)
      BY <2>2, <2>4 DEF Replay!Front
    <3> QED
      BY <1>1, <2>1, <2>3, <2>5, <3>1 DEF Replay!IsPrefix
  <2> QED
    BY <1>1, <1>2, <2>1, <2>2, <2>6 DEF Replay!Last, kept
<1>4. CASE ~(Len(all) > Capacity)
  <2>1. kept = all
    BY <1>4 DEF Replay!Add
  <2> HIDE DEF all, kept
  <2>2. SubSeq(kept, 1, Len(kept) - 1) = b
    BY <1>1, <1>2, <2>1
  <2>3. SubSeq(b, 1, Len(b)) = b
    BY <1>1
  <2>4. Replay!IsPrefix(Replay!Front(kept), b)
    BY <1>1, <2>2, <2>3 DEF Replay!IsPrefix, Replay!Front
  <2> QED
    BY <1>1, <1>2, <1>4, <2>1, <2>4 DEF Replay!Last, kept
<1> QED
  BY <1>3, <1>4

LEMMA ReplayInit ==
  ASSUME Replay!ReplayAssumption, Replay!Init
  PROVE  ReplayInv
<1>1. Horizon \in Nat \ {0} /\ Capacity \in Nat \ {0}
  BY DEF Replay!ReplayAssumption
<1>2. /\ task \in [start : Replay!Cells, target : Replay!Cells] /\ agent = task.start /\ step_count = 0
      /\ last_obs = None /\ ended = FALSE /\ buffer = <<>>
  BY DEF Replay!Init
<1>3. agent \in Replay!Cells
  BY <1>2
<1>4. buffer \in Seq(Moves) /\ Len(buffer) <= Capacity
  BY <1>1, <1>2
<1>5. RecorderKeepsUp
  BY <1>2 DEF RecorderKeepsUp
<1>6. step_count \in 0..Horizon /\ ended \in BOOLEAN
  <2>1. ended \in BOOLEAN
    BY <1>2, Zenon
  <2>2. step_count \in 0..Horizon
    BY <1>1, <1>2
  <2> QED
    BY <2>1, <2>2
<1> QED
  BY <1>2, <1>3, <1>4, <1>5, <1>6 DEF ReplayInv

LEMMA ResetKeeps ==
  ASSUME Replay!ReplayAssumption, ReplayInv, Replay!Reset
  PROVE  ReplayInv'
<1>1. Horizon \in Nat \ {0}
  BY DEF Replay!ReplayAssumption
<1>2. /\ agent' = task.start /\ step_count' = 0 /\ ended' = FALSE /\ UNCHANGED <<task, buffer>>
      /\ last_obs' = Replay!Observation(task.start, task.target, 0)
  BY DEF Replay!Reset
<1>3. agent' \in Replay!Cells
  BY <1>2 DEF ReplayInv
<1>4. RecorderKeepsUp'
  BY <1>1, <1>2 DEF RecorderKeepsUp
<1>5. step_count' \in 0..Horizon /\ ended' \in BOOLEAN
  <2>1. ended' \in BOOLEAN
    BY <1>2, Zenon
  <2>2. step_count' \in 0..Horizon
    BY <1>1, <1>2
  <2> QED
    BY <2>1, <2>2
<1> QED
  BY <1>2, <1>3, <1>4, <1>5 DEF ReplayInv

\* What a step adds to the buffer is the move it makes.
LEMMA StepShape ==
  ASSUME Replay!ReplayAssumption, ReplayInv, NEW code \in 0..4, Replay!Step(code)
  PROVE  LET t == Replay!Transition(last_obs, Replay!ACTION_NAMES[code], last_obs')
         IN  /\ t \in Moves /\ t.obs = last_obs /\ t.next_obs = last_obs'
             /\ buffer' = Replay!Add(buffer, t) /\ ended' = t.done
             /\ ~ended' => step_count' < Horizon
<1> DEFINE t == Replay!Transition(last_obs, Replay!ACTION_NAMES[code], last_obs')
<1>1. /\ last_obs # None /\ ~ended /\ agent' = Replay!_next_position(agent, code) /\ step_count' = step_count + 1
      /\ last_obs' = Replay!Observation(agent', task.target, step_count')
      /\ buffer' = Replay!Add(buffer, t) /\ ended' = t.done /\ task' = task
  BY DEF Replay!Step
<1>2. Horizon \in Nat /\ step_count \in 0..Horizon /\ step_count < Horizon
      /\ last_obs = Replay!Observation(agent, task.target, step_count)
  BY <1>1 DEF ReplayInv, RecorderKeepsUp, Replay!ReplayAssumption
<1>3. agent \in Replay!Cells /\ agent' \in Replay!Cells /\ task.target \in Replay!Cells
  BY <1>1, StepsStayInside DEF ReplayInv
<1>4. last_obs \in Shown /\ last_obs' \in Shown
  BY <1>1, <1>2, <1>3 DEF Replay!Observation, Shown
<1>5. /\ last_obs.agent = agent /\ last_obs.target = task.target
      /\ last_obs'.agent = agent' /\ last_obs'.target = task.target /\ last_obs'.steps = last_obs.steps + 1
      /\ last_obs'.steps = step_count'
  BY <1>1, <1>2 DEF Replay!Observation
<1>6. /\ t \in [obs : Shown, action : Actions, next_obs : Shown, good : BOOLEAN, done : BOOLEAN]
      /\ t.obs = last_obs /\ t.next_obs = last_obs' /\ t.action = Replay!ACTION_NAMES[code]
      /\ t.good <=> last_obs'.agent = last_obs'.target
      /\ t.done <=> (last_obs'.agent = last_obs'.target \/ last_obs'.steps >= Horizon)
  BY <1>4 DEF Replay!Transition, Actions
<1> HIDE DEF t
<1>7. t \in Moves
  BY <1>1, <1>5, <1>6, TablesAgree DEF Moves
<1>8. ~ended' => step_count' < Horizon
  BY <1>1, <1>2, <1>5, <1>6
<1> QED
  BY <1>1, <1>6, <1>7, <1>8 DEF t

LEMMA StepKeeps ==
  ASSUME Replay!ReplayAssumption, ReplayInv, NEW code \in 0..4, Replay!Step(code)
  PROVE  ReplayInv' /\ Replay!NewestAreKept
<1> DEFINE t == Replay!Transition(last_obs, Replay!ACTION_NAMES[code], last_obs')
<1>1. /\ t \in Moves /\ t.obs = last_obs /\ t.next_obs = last_obs'
      /\ buffer' = Replay!Add(buffer, t) /\ ended' = t.done
      /\ ~ended' => step_count' < Horizon
  BY StepShape
<1> HIDE DEF t
<1>2. /\ agent' = Replay!_next_position(agent, code) /\ step_count' = step_count + 1 /\ ~ended /\ last_obs # None
      /\ last_obs' = Replay!Observation(agent', task.target, step_count') /\ task' = task
  BY DEF Replay!Step
<1>3. buffer \in Seq(Moves) /\ Len(buffer) <= Capacity
  BY DEF ReplayInv
<1>4. /\ buffer' \in Seq(Moves) /\ Len(buffer') <= Capacity /\ Replay!Last(buffer') = t
      /\ Replay!IsPrefix(Replay!Front(buffer'), buffer) \/ Replay!IsPrefix(Replay!Front(buffer'), Tail(buffer))
  BY <1>1, <1>3, AddKeepsNewest
<1>5. agent' \in Replay!Cells
  BY <1>2, StepsStayInside DEF ReplayInv
<1>6. step_count' \in 0..Horizon
  BY <1>2 DEF ReplayInv, RecorderKeepsUp, Replay!ReplayAssumption
<1>7. ended' \in BOOLEAN
  BY <1>1 DEF Moves
<1>8. ReplayInv'
  BY <1>1, <1>2, <1>4, <1>5, <1>6, <1>7 DEF ReplayInv, RecorderKeepsUp
<1> QED
  BY <1>1, <1>4, <1>8 DEF Replay!NewestAreKept

LEMMA ReplayIsAlwaysSound ==
  ASSUME Replay!ReplayAssumption
  PROVE  Replay!Spec => []ReplayInv
<1>1. Replay!Init => ReplayInv
  BY ReplayInit
<1>2. ReplayInv /\ [Replay!Next]_(Replay!vars) => ReplayInv'
  <2> SUFFICES ASSUME ReplayInv, [Replay!Next]_(Replay!vars) PROVE ReplayInv'
    OBVIOUS
  <2>1. CASE UNCHANGED Replay!vars
    BY <2>1 DEF Replay!vars, ReplayInv, RecorderKeepsUp
  <2>2. CASE Replay!Next
    <3>1. DOMAIN Replay!ACTION_NAMES = 0..4
      BY DEF Replay!ACTION_NAMES
    <3> QED
      BY <2>2, <3>1, ResetKeeps, StepKeeps DEF Replay!Next
  <2> QED
    BY <2>1, <2>2
<1> QED
  BY <1>1, <1>2, PTL DEF Replay!Spec

\* A move that is rewarded is an example of how its target is reached.
LEMMA GoodMovesTeach ==
  ASSUME NEW t, t.obs.agent \in Int \X Int, t.obs.target \in Int \X Int,
         Replay!_next_position(t.obs.agent, Replay!ACTION_TO_INDEX(t.action)) = t.obs.target
  PROVE  LET e == Replay!Example(t)
         IN  /\ Replay!_next_position(e.at, e.action_index) = e.target
             /\ e.target = <<e.at[1] + e.offset[1], e.at[2] + e.offset[2]>>
<1> DEFINE e == Replay!Example(t)
<1>1. /\ e.at = t.obs.agent /\ e.target = t.obs.target /\ e.action_index = Replay!ACTION_TO_INDEX(t.action)
      /\ e.offset[1] = t.obs.target[1] - t.obs.agent[1] /\ e.offset[2] = t.obs.target[2] - t.obs.agent[2]
  BY DEF Replay!Example
<1>2. \A a, b \in Int \X Int : b = <<a[1] + (b[1] - a[1]), a[2] + (b[2] - a[2])>>
  OBVIOUS
<1> QED
  BY <1>1, <1>2

LEMMA CellsAreIntegers ==
  ASSUME NEW c \in Replay!Cells
  PROVE  c \in Int \X Int
BY DEF Replay!Cells

\* What relabelling makes of a move.
LEMMA RelabelledShape ==
  ASSUME NEW s \in Moves, NEW f \in Moves
  PROVE  LET t == Replay!Relabelled(s, f)
             goal == f.next_obs.agent
         IN  /\ t.obs.agent = s.obs.agent /\ t.obs.target = goal /\ t.action = s.action
             /\ t.good <=> s.next_obs.agent = goal
             /\ goal \in Replay!Cells
<1>1. s.obs \in Shown /\ s.next_obs \in Shown /\ f.next_obs \in Shown
  BY DEF Moves
<1>2. f.next_obs.agent \in Replay!Cells
  BY <1>1 DEF Shown
<1>3. DOMAIN s.obs = {"agent", "target", "steps"} /\ DOMAIN s.next_obs = {"agent", "target", "steps"}
  BY <1>1 DEF Shown
<1> QED
  BY <1>2, <1>3 DEF Replay!Relabelled, Replay!extract_achieved_goal

LEMMA ExamplesAlwaysReach ==
  ASSUME ReplayInv
  PROVE  Replay!ExamplesReachTheirTarget
<1> DEFINE recorded == Replay!ToSet(buffer)
           relabelled == {Replay!Relabelled(buffer[p[1]], buffer[p[2]]) : p \in Replay!FutureChoices(buffer)}
<1>1. \A i \in DOMAIN buffer : buffer[i] \in Moves
  BY DEF ReplayInv
<1>2. \A p \in Replay!FutureChoices(buffer) : p[1] \in DOMAIN buffer /\ p[2] \in DOMAIN buffer
  BY DEF Replay!FutureChoices, ReplayInv
<1>3. ASSUME NEW t \in recorded \cup relabelled, t.good
      PROVE  /\ t.obs.agent \in Int \X Int /\ t.obs.target \in Int \X Int
             /\ Replay!_next_position(t.obs.agent, Replay!ACTION_TO_INDEX(t.action)) = t.obs.target
  <2>1. CASE t \in recorded
    <3>1. t \in Moves
      BY <1>1, <2>1 DEF Replay!ToSet
    <3>2. t.obs.agent \in Replay!Cells /\ t.obs.target \in Replay!Cells
      BY <3>1 DEF Moves, Shown
    <3> QED
      BY <1>3, <3>1, <3>2, CellsAreIntegers DEF Moves
  <2>2. CASE t \in relabelled
    <3>1. PICK s \in Moves, f \in Moves : t = Replay!Relabelled(s, f)
      BY <1>1, <1>2, <2>2
    <3>2. s.obs.agent \in Replay!Cells
          /\ s.next_obs.agent = Replay!_next_position(s.obs.agent, Replay!ACTION_TO_INDEX(s.action))
      BY DEF Moves, Shown
    <3> QED
      BY <1>3, <3>1, <3>2, RelabelledShape, CellsAreIntegers
  <2> QED
    BY <2>1, <2>2
<1>4. ASSUME NEW i \in DOMAIN buffer
      PROVE  Replay!Example(Replay!Relabelled(buffer[i], buffer[i])) \in Replay!PositiveExamples(relabelled)
  <2>1. <<i, i>> \in Replay!FutureChoices(buffer)
    BY DEF Replay!FutureChoices, ReplayInv
  <2>2. Replay!Relabelled(buffer[i], buffer[i]) \in relabelled
    BY <2>1
  <2>3. Replay!Relabelled(buffer[i], buffer[i]).good
    BY <1>1, RelabelledShape
  <2> HIDE DEF relabelled
  <2> QED
    BY <2>2, <2>3 DEF Replay!PositiveExamples
<1>5. \A e \in Replay!PositiveExamples(recorded \cup relabelled) :
        /\ Replay!_next_position(e.at, e.action_index) = e.target
        /\ e.target = <<e.at[1] + e.offset[1], e.at[2] + e.offset[2]>>
  <2> HIDE DEF recorded, relabelled
  <2> QED
    BY <1>3, GoodMovesTeach DEF Replay!PositiveExamples
<1> QED
  BY <1>4, <1>5 DEF Replay!ExamplesReachTheirTarget

\* Actions have one code.
LEMMA CodesAgree ==
  ASSUME NEW a \in Actions
  PROVE  Replay!Code(a) = Replay!ACTION_TO_INDEX(a)
<1>1. PICK code \in 0..4 : a = Replay!ACTION_NAMES[code]
  BY DEF Actions
<1>2. DOMAIN Replay!ACTION_NAMES = 0..4
  BY DEF Replay!ACTION_NAMES
<1>3. \A c \in 0..4 : Replay!ACTION_NAMES[c] = a => c = Replay!ACTION_TO_INDEX(a)
  BY TablesAgree
<1>4. Replay!Code(a) \in 0..4 /\ Replay!ACTION_NAMES[Replay!Code(a)] = a
  BY <1>1, <1>2 DEF Replay!Code
<1> QED
  BY <1>3, <1>4

\* Within an episode the recorded actions lead where the recorder saw them lead.
LEMMA WalksEndWhereRecorded ==
  ASSUME ReplayInv, NEW i \in 1..Len(buffer), NEW j \in i..Len(buffer), Replay!OneEpisode(i, j)
  PROVE  Replay!Walk(i, j) = buffer[j].next_obs.agent
<1> DEFINE S == (i - 1)..j
           Then(from, k) == Replay!_next_position(from, Replay!Code(buffer[k].action))
           KeepsUp(f) == f = [k \in S |-> IF k < i THEN buffer[i].obs.agent ELSE Then(f[k - 1], k)]
           Seen(k) == IF k < i THEN buffer[i].obs.agent ELSE buffer[k].next_obs.agent
           G == [k \in S |-> Seen(k)]
           at == CHOOSE f : KeepsUp(f)
<1>1. i \in Nat \ {0} /\ j \in Nat /\ Len(buffer) \in Nat /\ i <= j
      /\ \A k \in i..j : k \in 1..Len(buffer) /\ buffer[k] \in Moves
  BY DEF ReplayInv
<1>2. \A k \in i..j : Then(Seen(k - 1), k) = Seen(k)
  <2> SUFFICES ASSUME NEW k \in i..j PROVE Then(Seen(k - 1), k) = Seen(k)
    OBVIOUS
  <2>1. Then(buffer[k].obs.agent, k) = buffer[k].next_obs.agent
    BY <1>1, CodesAgree DEF Moves
  <2>2. Seen(k - 1) = buffer[k].obs.agent
    <3>1. CASE k = i
      BY <1>1, <3>1
    <3>2. CASE k # i
      <4>1. k - 1 \in i..(j - 1) /\ (k - 1) + 1 = k
        BY <1>1, <3>2
      <4>2. buffer[k].obs = buffer[k - 1].next_obs
        BY <4>1 DEF Replay!OneEpisode
      <4> QED
        BY <1>1, <4>1, <4>2
    <3> QED
      BY <3>1, <3>2
  <2>3. Seen(k) = buffer[k].next_obs.agent
    BY <1>1
  <2> QED
    BY <2>1, <2>2, <2>3
<1>3. KeepsUp(G)
  <2> HIDE DEF Then, Seen
  <2>1. ASSUME NEW k \in S PROVE Seen(k) = IF k < i THEN buffer[i].obs.agent ELSE Then(G[k - 1], k)
    <3>1. CASE k < i
      BY <3>1 DEF Seen
    <3>2. CASE ~(k < i)
      <4>1. k \in i..j /\ k - 1 \in S
        BY <1>1, <3>2
      <4>2. G[k - 1] = Seen(k - 1)
        BY <4>1
      <4> QED
        BY <1>2, <3>2, <4>1, <4>2
    <3> QED
      BY <3>1, <3>2
  <2> QED
    BY <2>1, Zenon
<1>4. KeepsUp(at)
  <2> HIDE DEF KeepsUp, G
  <2> QED
    BY <1>3
<1>5. \A k \in S : at[k] = IF k < i THEN buffer[i].obs.agent ELSE Then(at[k - 1], k)
  <2> HIDE DEF at, Then
  <2> QED
    BY <1>4
<1>6. \A k \in S : at[k] = Seen(k)
  <2> HIDE DEF at, Then, G
  <2> DEFINE Bad == {k \in S : at[k] # Seen(k)}
  <2>1. SUFFICES ASSUME Bad # {} PROVE FALSE
    OBVIOUS
  <2>2. Bad \in SUBSET Nat
    BY <1>1
  <2>3. PICK k \in Bad : \A m \in Bad : k <= m
    BY <2>1, <2>2, LeastNatural
  <2>4. k \in S /\ at[k] # Seen(k)
    OBVIOUS
  <2>5. ~(k < i)
    BY <1>5, <2>4 DEF Seen
  <2>6. k - 1 \in S /\ k \in i..j /\ k \in Nat
    BY <1>1, <2>4, <2>5
  <2>7. at[k - 1] = Seen(k - 1)
    <3>1. k - 1 \notin Bad
      BY <2>3, <2>6
    <3> QED
      BY <2>6, <3>1
  <2> QED
    BY <1>2, <1>5, <2>4, <2>5, <2>6, <2>7
<1>7. Replay!Walk(i, j) = at[j]
  BY DEF Replay!Walk
<1> HIDE DEF at
<1> QED
  BY <1>1, <1>6, <1>7

\* A relabelled transition is the one the environment makes towards its goal.
LEMMA RelabelledAlwaysReplayed ==
  ASSUME ReplayInv
  PROVE  Replay!RelabelledIsReplayed
<1> SUFFICES ASSUME NEW p \in Replay!FutureChoices(buffer)
    PROVE  LET t == Replay!Relabelled(buffer[p[1]], buffer[p[2]])
               replayed == Replay!Transition(t.obs, t.action,
                             Replay!Observation(Replay!_next_position(t.obs.agent, Replay!Code(t.action)),
                                                t.obs.target, t.obs.steps + 1))
           IN  /\ t.next_obs = replayed.next_obs /\ t.good = replayed.good /\ (t.done => replayed.done)
               /\ Replay!OneEpisode(p[1], p[2]) => Replay!Walk(p[1], p[2]) = t.obs.target
  BY DEF Replay!RelabelledIsReplayed
<1> DEFINE s == buffer[p[1]]
           goal == buffer[p[2]].next_obs.agent
           t == Replay!Relabelled(s, buffer[p[2]])
           next == Replay!Observation(Replay!_next_position(t.obs.agent, Replay!Code(t.action)),
                                      t.obs.target, t.obs.steps + 1)
           replayed == Replay!Transition(t.obs, t.action, next)
<1>1. p[1] \in 1..Len(buffer) /\ p[2] \in p[1]..Len(buffer) /\ s \in Moves /\ buffer[p[2]] \in Moves
  BY DEF Replay!FutureChoices, ReplayInv
<1>2. /\ s.obs \in Shown /\ s.next_obs \in Shown /\ s.action \in Actions
      /\ s.next_obs.agent = Replay!_next_position(s.obs.agent, Replay!Code(s.action))
      /\ s.next_obs.steps = s.obs.steps + 1
  BY <1>1, CodesAgree DEF Moves
<1> HIDE DEF s
<1>3. /\ t.obs = [s.obs EXCEPT !.target = goal] /\ t.next_obs = [s.next_obs EXCEPT !.target = goal]
      /\ t.action = s.action
      /\ t.good = (t.next_obs.agent = goal) /\ t.done = (t.next_obs.agent = goal)
  BY DEF Replay!Relabelled, Replay!extract_achieved_goal
<1> HIDE DEF t, goal
<1>4. /\ t.obs.agent = s.obs.agent /\ t.obs.target = goal /\ t.obs.steps = s.obs.steps
      /\ t.next_obs = [agent |-> s.next_obs.agent, target |-> goal, steps |-> s.next_obs.steps]
  BY <1>2, <1>3 DEF Shown
<1>5. next = t.next_obs
  BY <1>2, <1>3, <1>4 DEF Replay!Observation
<1> HIDE DEF next
<1>6. /\ replayed.next_obs = next /\ replayed.good = (next.agent = next.target)
      /\ replayed.done = (next.agent = next.target \/ next.steps >= Horizon)
  BY DEF Replay!Transition
<1>7. t.next_obs.target = goal
  BY <1>4
<1>8. Replay!OneEpisode(p[1], p[2]) => Replay!Walk(p[1], p[2]) = t.obs.target
  BY <1>1, <1>4, WalksEndWhereRecorded DEF goal
<1> HIDE DEF replayed
<1> QED
  BY <1>3, <1>5, <1>6, <1>7, <1>8 DEF replayed, next, t, s

\* What the learner is taught is true: every positive example, recorded or relabelled, is a move of the
\* environment that reaches its target and every transition has a goal that makes it one; a relabelled
\* transition is what the environment would have recorded, with a goal that the recorded actions do reach
\* from there; and the buffer keeps the newest transitions, for any grid, horizon and capacity.
THEOREM ExamplesTeachTheTruth ==
  ASSUME Replay!ReplayAssumption
  PROVE  Replay!Spec => /\ [](Replay!TypeOK /\ Replay!ExamplesReachTheirTarget /\ Replay!RelabelledIsReplayed)
                        /\ [][Replay!NewestAreKept]_(Replay!vars)
<1>1. ReplayInv => Replay!TypeOK
  <2> SUFFICES ASSUME ReplayInv PROVE Replay!TypeOK
    OBVIOUS
  <2>1. last_obs \in {None} \cup [agent : Replay!Cells, target : Replay!Cells, steps : 0..Horizon]
    BY DEF ReplayInv, RecorderKeepsUp, Replay!Observation
  <2> QED
    BY <2>1 DEF ReplayInv, Replay!TypeOK
<1>2. ReplayInv => Replay!ExamplesReachTheirTarget
  BY ExamplesAlwaysReach
<1>3. ReplayInv /\ [Replay!Next]_(Replay!vars) => [Replay!NewestAreKept]_(Replay!vars)
  <2> SUFFICES ASSUME ReplayInv, Replay!Next PROVE Replay!NewestAreKept
    OBVIOUS
  <2>1. CASE Replay!Reset
    <3>1. step_count \in Nat /\ step_count' = 0
      BY <2>1 DEF Replay!Reset, ReplayInv
    <3> QED
      BY <3>1 DEF Replay!NewestAreKept
  <2>2. DOMAIN Replay!ACTION_NAMES = 0..4
    BY DEF Replay!ACTION_NAMES
  <2> QED
    BY <2>1, <2>2, StepKeeps DEF Replay!Next
<1> QED
  BY <1>1, <1>2, <1>3, RelabelledAlwaysReplayed, ReplayIsAlwaysSound, PTL DEF Replay!Spec
=============================================================================
