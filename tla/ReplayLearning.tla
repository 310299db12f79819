---------------------------- MODULE ReplayLearning -----------------------------
(***************************************************************************)
(* The plumbing of the learning code: a grid environment whose steps are   *)
(* recorded in a buffer of fixed capacity, hindsight relabelling of what   *)
(* the buffer holds with goals that were reached, and the supervised       *)
(* examples made of both.  The driver resets when an episode is done, and  *)
(* may reset before.                                                       *)
(***************************************************************************)
EXTENDS Integers, Sequences, SequencesExt

CONSTANTS
  Width, Height,  \* of the grid
  MaxSteps,       \* of an episode
  Capacity,       \* of the buffer
  None

ReplayAssumption ==
  /\ {Width, Height, MaxSteps, Capacity} \subseteq Nat \ {0}

VARIABLES
  task,        \* start and target of the environment
  agent,       \* where the agent stands
  step_count,
  last_obs,    \* the observation the recorder keeps, None before the first reset
  ended,       \* whether the last step was done
  buffer       \* the transitions kept, oldest first

vars == <<task, agent, step_count, last_obs, ended, buffer>>

Cells == (0..(Width - 1)) \X (0..(Height - 1))
ACTION_NAMES ==
  [c \in 0..4 |-> <<"move_up", "move_down", "move_left", "move_right", "wait">>[c + 1]]

Observation(at, target, steps) == [agent |-> at, target |-> target, steps |-> steps]

Clip(v, size) == IF v < 0 THEN 0 ELSE IF v >= size THEN size - 1 ELSE v

_next_position(at, code) ==
  LET dx == CASE code = 2 -> -1 [] code = 3 -> 1 [] OTHER -> 0
      dy == CASE code = 0 -> -1 [] code = 1 -> 1 [] OTHER -> 0
  IN <<Clip(at[1] + dx, Width), Clip(at[2] + dy, Height)>>

Init ==
  /\ task \in [start : Cells, target : Cells]
  /\ agent = task.start /\ step_count = 0
  /\ last_obs = None /\ ended = FALSE /\ buffer = <<>>

Reset ==
  /\ last_obs = None \/ step_count > 0
  /\ agent' = task.start /\ step_count' = 0 /\ ended' = FALSE
  /\ last_obs' = Observation(task.start, task.target, 0)
  /\ UNCHANGED <<task, buffer>>

Transition(obs, action, next) ==
  LET reached == next.agent = next.target
  IN [obs |-> obs, action |-> action, next_obs |-> next, good |-> reached,
      done |-> reached \/ next.steps >= MaxSteps]

\* A full buffer forgets its oldest transition.
Add(b, t) == LET all == Append(b, t) IN IF Len(all) > Capacity THEN Tail(all) ELSE all

Step(code) ==
  /\ last_obs # None /\ ~ended
  /\ agent' = _next_position(agent, code)
  /\ step_count' = step_count + 1
  /\ last_obs' = Observation(agent', task.target, step_count')
  /\ LET t == Transition(last_obs, ACTION_NAMES[code], last_obs')
     IN buffer' = Add(buffer, t) /\ ended' = t.done
  /\ UNCHANGED task

Next == Reset \/ \E code \in DOMAIN ACTION_NAMES : Step(code)

Spec == Init /\ [][Next]_vars

extract_achieved_goal(future) == future.next_obs.agent

Relabelled(source, future) ==
  LET goal == extract_achieved_goal(future)
      next == [source.next_obs EXCEPT !.target = goal]
  IN [obs |-> [source.obs EXCEPT !.target = goal], action |-> source.action, next_obs |-> next,
      good |-> next.agent = goal, done |-> next.agent = goal]

FutureChoices(ts) == {p \in (1..Len(ts)) \X (1..Len(ts)) : p[1] <= p[2]}

ACTION_TO_INDEX(action) ==
  CASE action = "move_up" -> 0 [] action = "move_down" -> 1 [] action = "move_left" -> 2
    [] action = "move_right" -> 3 [] OTHER -> 4

Example(t) ==
  [at |-> t.obs.agent, target |-> t.obs.target,
   offset |-> <<t.obs.target[1] - t.obs.agent[1], t.obs.target[2] - t.obs.agent[2]>>,
   steps |-> t.obs.steps, action_index |-> ACTION_TO_INDEX(t.action)]

PositiveExamples(ts) == {Example(t) : t \in {u \in ts : u.good}}

--------------------------------------------------------------------------------
\* The type invariant, with the observation inside the declared observation space.
TypeOK ==
  /\ task \in [start : Cells, target : Cells]
  /\ agent \in Cells /\ step_count \in 0..MaxSteps
  /\ last_obs \in {None} \cup [agent : Cells, target : Cells, steps : 0..MaxSteps]
  /\ ended \in BOOLEAN
  /\ Len(buffer) <= Capacity

\* Whether the transitions from i to j were recorded in one episode.
OneEpisode(i, j) == \A k \in i..(j - 1) : buffer[k + 1].obs = buffer[k].next_obs /\ ~buffer[k].done

Code(action) == CHOOSE c \in DOMAIN ACTION_NAMES : ACTION_NAMES[c] = action

\* Where the environment takes an agent that repeats the recorded actions from i to j.
Walk(i, j) ==
  LET at[k \in (i - 1)..j] ==
        IF k < i THEN buffer[i].obs.agent ELSE _next_position(at[k - 1], Code(buffer[k].action))
  IN  at[j]

\* A relabelled transition is what the environment would have recorded with that goal as its target:
\* the same move, and a reward exactly when the move reaches the goal.  Within an episode the goal is
\* one that the recorded actions do reach from there.
RelabelledIsReplayed ==
  \A p \in FutureChoices(buffer) :
    LET t == Relabelled(buffer[p[1]], buffer[p[2]])
        replayed == Transition(t.obs, t.action,
                      Observation(_next_position(t.obs.agent, Code(t.action)), t.obs.target, t.obs.steps + 1))
    IN /\ t.next_obs = replayed.next_obs /\ t.good = replayed.good /\ (t.done => replayed.done)
       /\ OneEpisode(p[1], p[2]) => Walk(p[1], p[2]) = t.obs.target

\* A failed episode still teaches: every transition in the buffer has a choice of goal that makes it
\* a positive example, and every positive example, recorded or relabelled, whichever tables its
\* action went through, is a move that reaches its target.
ExamplesReachTheirTarget ==
  LET recorded == ToSet(buffer)
      relabelled == {Relabelled(buffer[p[1]], buffer[p[2]]) : p \in FutureChoices(buffer)}
  IN /\ \A e \in PositiveExamples(recorded \cup relabelled) :
          /\ _next_position(e.at, e.action_index) = e.target
          /\ e.target = <<e.at[1] + e.offset[1], e.at[2] + e.offset[2]>>
     /\ \A i \in DOMAIN buffer :
          Example(Relabelled(buffer[i], buffer[i])) \in PositiveExamples(relabelled)

\* The buffer ends with the step just made, and loses a transition only from its other end.
NewestAreKept ==
  step_count' > step_count =>
    /\ Last(buffer').next_obs = last_obs' /\ Last(buffer').obs = last_obs
    /\ IsPrefix(Front(buffer'), buffer) \/ IsPrefix(Front(buffer'), Tail(buffer))
================================================================================
