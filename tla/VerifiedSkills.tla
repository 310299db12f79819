---------------------------- MODULE VerifiedSkills ----------------------------
(***************************************************************************)
(* The three body skills and the three verifiers against a game: a run      *)
(* proposes one action at a time from the last observation, the game        *)
(* reacts, and the skill's verifier compares the run's first observation   *)
(* with the newest one.  The runner around them is the module SkillRun.    *)
(*                                                                         *)
(* The game is what it shows: a screen, the page of text on it and the     *)
(* player's position, on a grid of Step pixels per short move.  An         *)
(* observation is true, but may lack the position or carry no evidence.    *)
(***************************************************************************)
EXTENDS Integers, FiniteSets

CONSTANTS
  Skills,     \* the skills this instance runs
  Side,       \* positions are (0..Side) x (0..Side), in pixels
  Target,     \* the grounded target's two coordinates are both this pixel
  Step,       \* pixels of a short move
  Tolerance,  \* tolerance_px
  MaxSteps,   \* max_steps of the skill contract
  Pages,      \* bound: pages of text
  Calm,       \* the game only does what the inputs make it do, and shows it all
  None

SizeAssumption ==
  /\ {Side, Step, MaxSteps, Pages} \subseteq Nat \ {0} /\ Tolerance \in Nat
  /\ Target \in 0..Side /\ Calm \in BOOLEAN

Screens == {"map", "dialogue", "menu", "combat", "death"}
Moves == {"up", "down", "left", "right"}
Actions == Moves \cup {"confirm", "wait"}
Position == (0..Side) \X (0..Side)
World == [ui : Screens, page : 0..Pages, at : Position]
Observed == [ui : Screens, page : 0..Pages, at : Position \cup {None}, evidence : BOOLEAN]
Goal == <<Target, Target>>
Endings == {"success", "death_screen", "combat_started", "timeout", "precondition_failed"}

NoneAssumption == None \notin Actions \cup Endings \cup Position

VARIABLES
  skill,
  world,    \* what the game shows
  start,    \* the run's first observation
  latest,   \* its newest observation
  action,   \* the input sent since, or None
  steps,
  outcome,  \* how the run ended
  reward,   \* sum of the verified rewards of the run, in quarters
  route     \* ghost: number of moves that were sent

vars == <<skill, world, start, latest, action, steps, outcome, reward, route>>

\* What the pipeline makes of the world.
Views(w) ==
  IF Calm THEN {[ui |-> w.ui, page |-> w.page, at |-> w.at, evidence |-> TRUE]}
  ELSE [ui : {w.ui}, page : {w.page}, at : {w.at, None}, evidence : BOOLEAN]

InDialogue(o) == o.ui = "dialogue" \/ o.page # 0

\* can_start: a target is bound to the reach and interact skills (PlanAndGround).
CanStart(s, o) ==
  CASE s = "continue_dialogue" -> InDialogue(o)
    [] s = "basic_reach_target" -> o.at # None
    [] OTHER -> TRUE

\* A page of text is on the screen of a dialogue, and on no other.
Worlds == {w \in World : (w.ui = "dialogue") <=> (w.page # 0)}

Init ==
  /\ skill \in Skills
  /\ world \in {w \in Worlds : Calm /\ skill = "basic_reach_target" => w.ui = "map"}
  /\ start \in Views(world)
  /\ latest = start
  /\ action = None /\ steps = 0 /\ reward = 0 /\ route = 0
  /\ outcome = IF CanStart(skill, start) THEN None ELSE "precondition_failed"

-----------------------------------------------------------------------------
(* The skills.                                                              *)

Abs(n) == IF n < 0 THEN -n ELSE n

\* movement_action_toward: the larger axis first, the horizontal one on a tie.
MovementToward(from, to) ==
  LET dx == to[1] - from[1]
      dy == to[2] - from[2]
  IN  IF Abs(dx) >= Abs(dy) /\ dx > 0 THEN "right"
      ELSE IF Abs(dx) >= Abs(dy) /\ dx < 0 THEN "left"
      ELSE IF dy > 0 THEN "down"
      ELSE IF dy < 0 THEN "up"
      ELSE "wait"

\* next_action of the three skills: an unmet precondition makes them wait.
NextAction(o) ==
  IF ~CanStart(skill, o) THEN "wait"
  ELSE IF skill = "basic_reach_target" THEN MovementToward(o.at, Goal)
  ELSE "confirm"

Propose ==
  /\ outcome = None /\ action = None /\ steps < MaxSteps
  /\ action' = NextAction(latest)
  /\ steps' = steps + 1
  /\ route' = IF action' \in Moves THEN route + 1 ELSE route
  /\ UNCHANGED <<skill, world, start, latest, outcome, reward>>

-----------------------------------------------------------------------------
(* The game, external: what an input may do, and what happens by itself.    *)

Shift(p, a) == CASE a = "right" -> <<p[1] + Step, p[2]>> [] a = "left" -> <<p[1] - Step, p[2]>>
                 [] a = "down" -> <<p[1], p[2] + Step>> [] a = "up" -> <<p[1], p[2] - Step>>
                 [] OTHER -> p

\* A move works on open ground; elsewhere, or into a wall, it does nothing.
Moved(w) ==
  IF w.ui = "map" /\ Shift(w.at, action) \in Position THEN [w EXCEPT !.at = Shift(w.at, action)] ELSE w

Reactions(w) ==
  CASE action \in Moves -> {Moved(w)}
    [] action = "confirm" /\ w.ui = "dialogue" ->
         {u \in Worlds : u.at = w.at /\ u.ui \in {"dialogue", "map"} /\ u.page # w.page}
    [] action = "confirm" /\ w.ui = "map" ->
         {w} \cup {u \in Worlds : u.at = w.at /\ u.ui \in {"dialogue", "menu", "combat"}}
    [] OTHER -> {w}

\* Anything may interrupt, a move may be blocked, and death is final.
Interruptions(w) ==
  IF Calm THEN {}
  ELSE {w} \cup (IF w.ui = "death" THEN {} ELSE {u \in Worlds : u.at = w.at})

-----------------------------------------------------------------------------
(* The verifiers.                                                           *)

Undecided == [status |-> "abstain", kind |-> None]
Success == [status |-> "success", kind |-> None]
Death == [status |-> "failure", kind |-> "death"]

Near(p) == (p[1] - Target) * (p[1] - Target) + (p[2] - Target) * (p[2] - Target)
             <= Tolerance * Tolerance

\* ContinueDialogueVerifier: another page, or no dialogue any more.
DialogueDone(before, after) ==
  /\ InDialogue(before) /\ before.evidence /\ after.evidence
  /\ InDialogue(after) => before.page # after.page

\* InteractVisibleObjectVerifier: a screen that opened, or the first text.
InteractionDone(before, after) ==
  /\ before.evidence /\ after.evidence
  /\ \/ after.ui \in {"dialogue", "menu", "combat"} /\ after.ui # before.ui
     \/ before.page = 0 /\ after.page # 0

\* ReachTargetVerifier: only the newest observation counts.
ReachDone(after) == after.evidence /\ after.at # None /\ Near(after.at)

\* What each skill is for.
Done(before, after) ==
  \/ skill = "continue_dialogue" /\ DialogueDone(before, after)
  \/ skill = "interact_visible_object" /\ InteractionDone(before, after)
  \/ skill = "basic_reach_target" /\ ReachDone(after)

\* Mutant: the outcome is looked for before the death screen.
VerifyOutcomeFirst(before, after) ==
  IF Done(before, after) THEN Success
  ELSE IF after.ui = "death" /\ after.evidence THEN Death ELSE Undecided

\* verify(before, after) of the three: death first, and nothing without evidence.
Verify(before, after) ==
  IF after.ui = "death" THEN IF after.evidence THEN Death ELSE Undecided
  ELSE IF Done(before, after) THEN Success ELSE Undecided

\* derive_verified_reward with the default profiles: only the interact profile has
\* an avoid_death term.
RewardOf(verdict) ==
  CASE verdict = Success -> 4
    [] verdict = Death /\ skill = "interact_visible_object" -> -3
    [] OTHER -> 0

\* _terminal_result: a decisive verdict, or combat for a skill that names it.
Terminal(verdict, after) ==
  IF verdict = Success THEN "success"
  ELSE IF verdict = Death THEN "death_screen"
  ELSE IF skill = "basic_reach_target" /\ after.ui = "combat" THEN "combat_started"
  ELSE None

\* The input reaches the game and the next observation is verified against the
\* first; every verification is rewarded.
ObserveAndVerify ==
  /\ outcome = None /\ action # None
  /\ \E w \in Reactions(world) \cup Interruptions(world) : \E after \in Views(w) :
        LET verdict == Verify(start, after)
        IN  /\ world' = w /\ latest' = after
            /\ outcome' = Terminal(verdict, after)
            /\ reward' = reward + RewardOf(verdict)
  /\ action' = None
  /\ UNCHANGED <<skill, start, steps, route>>

\* max_steps actions without a decision: ManagerStop with a timeout.
TimeOut ==
  /\ outcome = None /\ action = None /\ steps = MaxSteps
  /\ outcome' = "timeout"
  /\ UNCHANGED <<skill, world, start, latest, action, steps, reward, route>>

Next == Propose \/ ObserveAndVerify \/ TimeOut

Spec == Init /\ [][Next]_vars

\* Observing, verifying and proposing return.
FairSpec == Spec /\ WF_vars(Next)

-----------------------------------------------------------------------------
(* Properties.                                                              *)

\* Each variable has the shape of the object it stands for.
TypeOK ==
  /\ skill \in Skills /\ world \in Worlds
  /\ start \in Observed /\ latest \in Observed
  /\ action \in Actions \cup {None} /\ steps \in 0..MaxSteps /\ route \in 0..steps
  /\ outcome \in Endings \cup {None}
  /\ reward \in -3..4

\* A success is something the player could point at: the game is not over, and what
\* the skill was for has changed since the run began, or has been reached.
SuccessIsReal ==
  outcome = "success" =>
    /\ world.ui # "death"
    /\ skill = "basic_reach_target" => Near(world.at)
    /\ skill = "continue_dialogue" => start.ui = "dialogue" /\ world.page # start.page
    /\ skill = "interact_visible_object" => world.ui # start.ui /\ world.ui # "map"

\* The rewards of all verifications of a run add up to what its end is worth: a
\* success is paid once, and no other end is paid at all.
RewardTellsOutcome ==
  /\ outcome = "success" => reward = 4
  /\ outcome # "success" => reward <= 0
  /\ outcome = "death_screen" => reward = IF skill = "interact_visible_object" THEN -3 ELSE 0

\* No input goes to a game that was seen to be over, except on a screenshot without
\* evidence, and none to a fight seen while reaching for a target.
NoInputToALostGame ==
  action # None /\ steps > 1 =>
    /\ latest.ui = "death" => ~latest.evidence
    /\ skill = "basic_reach_target" => latest.ui # "combat"

\* The fewest moves from p that end within the tolerance.
Needed(p) ==
  LET Ends(k, n) == LET x == Abs(p[1] - Target) - k * Step
                        y == Abs(p[2] - Target) - (n - k) * Step
                    IN  x * x + y * y <= Tolerance * Tolerance
      Enough == {n \in 0..(2 * Side) : \E k \in 0..n : Ends(k, n)}
  IN  CHOOSE n \in Enough : \A m \in Enough : n <= m

\* On open ground the greedy walk is as short as any: it arrives by the fewest moves
\* there are, and gives up only on a target that max_steps moves cannot reach.  A run
\* that starts within the tolerance may still make one move before it is verified.
GreedyWalkIsShortest ==
  skill = "basic_reach_target" =>
    /\ outcome = "success" => \/ route = Needed(start.at)
                              \/ Needed(start.at) = 0 /\ route = 1
    /\ outcome = "timeout" => Needed(start.at) > MaxSteps

\* Every run ends.
RunEnds == <>(outcome # None)
=============================================================================
