--------------------------- MODULE MCTaskLifecycle ---------------------------
(* Finite instances of TaskLifecycle for TLC.                               *)
EXTENDS TaskLifecycle, TLC

CONSTANTS reach, talk, cond1, cond2

\* One spec times out on its first tick and constrains its conditions, the
\* other leaves both condition lists empty.
MCSkills == {reach, talk}
MCConditions == {cond1, cond2}
MCSpecs == {[skill |-> reach, timeout |-> 1, success |-> {cond1}, failure |-> {cond2}],
            [skill |-> talk, timeout |-> 2, success |-> {}, failure |-> {}]}

\* Task ids and event ids are only compared for equality.
MCSymmetry == Permutations(TaskIds) \cup Permutations(EventIds)
=============================================================================
