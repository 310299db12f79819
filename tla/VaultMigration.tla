---------------------------- MODULE VaultMigration ----------------------------
(***************************************************************************)
(* `workspace apply` and `workspace recover`: a private vault is moved     *)
(* from one generated tree to the next one file at a time, under owner     *)
(* manifests that are written last and an external restore point with a    *)
(* receipt.  Either command can die at any step, the operator edits files  *)
(* in between, and the inputs of the generator move on.                    *)
(*                                                                         *)
(* Version 0 is the historical tree, 1 and 2 are two generated trees; a    *)
(* file is what version it was emitted from and how it was touched since:  *)
(* "dress" keeps its meaning (a layout saved by the editor), "meaning"     *)
(* does not, "user" is a file of the operator's own.                       *)
(***************************************************************************)
EXTENDS Integers, Sequences

CONSTANTS
  MaxCrashes, MaxEdits, MaxMoves, MaxPoints,  \* bounds of a behaviour
  None

MigrationAssumption == {MaxCrashes, MaxEdits, MaxMoves, MaxPoints} \subseteq Nat

VARIABLES
  vault,   \* path -> content or None
  inputs,  \* the version the source head and the authored notes give
  points,  \* restore points: their files and, once it is written, the receipt
  pc, op,  \* the running command: its tree, its restore point, the inventory it saw, what is left to do
  crashes, edits, moves

vars == <<vault, inputs, points, pc, op, crashes, edits, moves>>

Manifests == {"manA", "manB"}  \* of the two logical owners
Paths == {"old", "oldMan", "page", "base", "extra", "audit", "temp"} \cup Manifests
Managed == {"base"}  \* files whose ownership is by meaning, the others by their bytes

\* What can be at a path; Python's None is none of it, and no version.
Content == [v : 0..2, touch : {"none", "dress", "meaning", "user", "temp"}]
NoneAssumption == None \notin Content \cup {1, 2}

\* What a build emits: "audit" is of the family the second tree retires, "extra" is new in it.
Tree(v) == {"page", "base"} \cup Manifests \cup (IF v = 1 THEN {"audit"} ELSE {"extra"})
Retired(v) == IF v = 2 THEN {"audit"} ELSE {}
OwnedBy(man, v) == Tree(v) \cap (IF man = "manA" THEN {"page", "extra"} ELSE {"base", "audit"})
Emitted(v) == [v |-> v, touch |-> "none"]
TreeFiles(v) == [p \in Paths |-> IF p \in Tree(v) THEN Emitted(v) ELSE None]
LegacyFiles == [p \in Paths |-> IF p \in {"old", "oldMan"} THEN Emitted(0) ELSE None]

Actual(files) == {p \in Paths : files[p] # None}
Kept(files, ps) == [p \in Paths |-> IF p \in ps THEN files[p] ELSE None]

Idle == [tree |-> 0, point |-> 0, actual |-> {}, todo |-> {}]

Init ==
  /\ vault \in {Kept(LegacyFiles, {}), LegacyFiles, TreeFiles(1), TreeFiles(2)}
  /\ inputs \in {1, 2}
  /\ points = <<>>
  /\ pc = "idle" /\ op = Idle
  /\ crashes = 0 /\ edits = 0 /\ moves = 0

(* --- ownership ---------------------------------------------------------- *)

\* The rows of the manifests in files: each owned path with the version it is listed at.
Current(files) ==
  UNION {{<<p, files[man].v>> : p \in OwnedBy(man, files[man].v) \cup {man}}
           : man \in {m \in Manifests : files[m] # None}}
Legacy(files) == IF files["oldMan"] = None THEN {} ELSE {<<"old", 0>>, <<"oldMan", 0>>}
PathsOf(rows) == {row[1] : row \in rows}

Intact(content, p, v) ==
  content.v = v /\ content.touch \in (IF p \in Managed THEN {"none", "dress"} ELSE {"none"})

\* Every listed file that is there is as it was listed; one that is missing is passed over.
Proven(files, rows) == \A row \in rows : files[row[1]] # None => Intact(files[row[1]], row[1], row[2])

PreflightAccepts(files, v) ==
  LET rows == Legacy(files) \cup Current(files) IN
  /\ Actual(files) \subseteq PathsOf(rows)
  /\ Proven(files, rows)
  /\ PathsOf(Current(files)) \subseteq Tree(v) \cup Retired(v)

(* --- apply -------------------------------------------------------------- *)

Preflight ==
  /\ pc = "idle" /\ PreflightAccepts(vault, inputs) /\ Len(points) < MaxPoints
  /\ pc' = "copy" /\ op' = [Idle EXCEPT !.tree = inputs, !.actual = Actual(vault)]
  /\ UNCHANGED <<vault, inputs, points, crashes, edits, moves>>

CreateRestorePoint ==
  /\ pc = "copy"
  /\ points' = Append(points, [files |-> vault, plan |-> None])
  /\ pc' = "receipt" /\ op' = [op EXCEPT !.point = Len(points')]
  /\ UNCHANGED <<vault, inputs, crashes, edits, moves>>

\* Mutant: the receipt is left for later.
NoReceipt ==
  /\ pc = "receipt"
  /\ pc' = "write" /\ op' = [op EXCEPT !.todo = Tree(op.tree) \ Manifests]
  /\ UNCHANGED <<vault, inputs, points, crashes, edits, moves>>

\* The copy is checked against the inventory that was proven, then the receipt is written.
WriteReceipt ==
  LET copy == points[op.point].files
      sound == Actual(copy) = op.actual /\ Proven(copy, Legacy(copy) \cup Current(copy)) IN
  /\ pc = "receipt"
  /\ points' = IF sound THEN [points EXCEPT ![op.point].plan = op.tree] ELSE points
  /\ pc' = IF sound THEN "write" ELSE "idle"
  /\ op' = IF sound THEN [op EXCEPT !.todo = Tree(op.tree) \ Manifests] ELSE Idle
  /\ UNCHANGED <<vault, inputs, crashes, edits, moves>>

\* One file of what is left, in whatever order the names sort; phase is over when none is.
Each(phase, next, nextTodo, Contents(_)) ==
  /\ pc = phase
  /\ \/ \E p \in op.todo :
          /\ vault' = [vault EXCEPT ![p] = Contents(p)]
          /\ op' = [op EXCEPT !.todo = @ \ {p}] /\ pc' = pc
     \/ /\ op.todo = {} /\ UNCHANGED vault
        /\ op' = [op EXCEPT !.todo = nextTodo] /\ pc' = next
  /\ UNCHANGED <<inputs, points, crashes, edits, moves>>

WriteFiles == Each("write", "verify", {}, LAMBDA p : Emitted(op.tree))

\* Replacements must read back exactly before any retirement.
VerifyReplacements ==
  LET good == \A p \in Tree(op.tree) \ Manifests : vault[p] = Emitted(op.tree) IN
  /\ pc = "verify"
  /\ pc' = IF good THEN "retire" ELSE "idle"
  /\ op' = IF good THEN [op EXCEPT !.todo = op.actual \ Tree(op.tree)] ELSE Idle
  /\ UNCHANGED <<vault, inputs, points, crashes, edits, moves>>

Retire == Each("retire", "manifests", Manifests, LAMBDA p : None)
WriteManifests == Each("manifests", "check", {}, LAMBDA p : Emitted(op.tree))

\* The exact inventory is verified; whatever the verdict, the command is over.
Finish ==
  /\ pc \in {"check", "restored"} /\ pc' = "idle" /\ op' = Idle
  /\ UNCHANGED <<vault, inputs, points, crashes, edits, moves>>

(* --- recover ------------------------------------------------------------ *)

\* A target is as it was before, as it is after, or means the same as one of them.
Explained(p, before, v) ==
  \/ vault[p] = before \/ (p \in Tree(v) /\ vault[p] = Emitted(v))
  \/ /\ p \in Managed
     /\ \/ (IF before = None THEN FALSE ELSE Intact(vault[p], p, before.v))
        \/ p \in Tree(v) /\ Intact(vault[p], p, v)

RecoverAccepts(i, v) ==
  LET before == points[i].files
      rows == Legacy(before) \cup Current(before) IN
  /\ points[i].plan = v
  /\ PathsOf(Current(before)) \subseteq Tree(v) \cup Retired(v)
  /\ Actual(before) \subseteq PathsOf(rows) /\ Proven(before, rows)
  /\ Actual(vault) \subseteq Actual(before) \cup Tree(v)
  /\ \A p \in Actual(vault) : Explained(p, before[p], v) = TRUE

Recover ==
  /\ pc = "idle"
  /\ \E i \in DOMAIN points :
       /\ RecoverAccepts(i, inputs)
       /\ op' = [tree |-> inputs, point |-> i, actual |-> Actual(vault),
                 todo |-> Actual(points[i].files) \ (Manifests \cup {"oldMan"})]
  /\ pc' = "undo"
  /\ UNCHANGED <<vault, inputs, points, crashes, edits, moves>>

Before == points[op.point].files
Undo == Each("undo", "remove", op.actual \ Actual(Before), LAMBDA p : Before[p])
Remove ==
  Each("remove", "undoManifests", Actual(Before) \cap (Manifests \cup {"oldMan"}), LAMBDA p : None)
UndoManifests == Each("undoManifests", "restored", {}, LAMBDA p : Before[p])

(* --- what happens around them ------------------------------------------- *)

\* The process dies; between the write and the rename of a file its temporary stays behind.
Crash ==
  /\ pc # "idle" /\ crashes < MaxCrashes
  /\ vault' \in {vault} \cup
       (IF pc \in {"write", "manifests", "undo", "undoManifests"} /\ op.todo # {}
          THEN {[vault EXCEPT !["temp"] = [v |-> 0, touch |-> "temp"]]} ELSE {})
  /\ pc' = "idle" /\ op' = Idle /\ crashes' = crashes + 1
  /\ UNCHANGED <<inputs, points, edits, moves>>

\* The operator saves a generated file anew, changes one, or puts a file of his own in a free place.
Edit ==
  /\ pc \in {"idle", "copy"} /\ edits < MaxEdits
  /\ \E p \in Paths \ (Manifests \cup {"oldMan", "temp"}) :
       IF vault[p] = None THEN vault' = [vault EXCEPT ![p] = [v |-> 0, touch |-> "user"]]
       ELSE /\ vault[p].touch = "none"
            /\ \E how \in (IF p \in Managed THEN {"dress", "meaning"} ELSE {"meaning"}) :
                 vault' = [vault EXCEPT ![p].touch = how]
  /\ edits' = edits + 1
  /\ UNCHANGED <<inputs, points, pc, op, crashes, moves>>

\* He moves a file out of the way that the commands would stop at.
MoveAway ==
  /\ pc = "idle"
  /\ \E p \in Actual(vault) :
       /\ vault[p].touch \in {"user", "meaning", "temp"}
       /\ vault' = [vault EXCEPT ![p] = None]
  /\ UNCHANGED <<inputs, points, pc, op, crashes, edits, moves>>

\* A commit, or a note that the views are made from.
InputsMove ==
  /\ pc = "idle" /\ moves < MaxMoves
  /\ inputs' = 3 - inputs /\ moves' = moves + 1
  /\ UNCHANGED <<vault, points, pc, op, crashes, edits>>

Apply ==
  \/ Preflight \/ CreateRestorePoint \/ WriteReceipt \/ WriteFiles \/ VerifyReplacements
  \/ Retire \/ WriteManifests \/ Finish
Next ==
  \/ Apply \/ Recover \/ Undo \/ Remove \/ UndoManifests
  \/ Crash \/ Edit \/ MoveAway \/ InputsMove

Spec == Init /\ [][Next]_vars

(* --- properties ---------------------------------------------------------- *)

\* The state is well formed: contents, restore points and the running command are of their kinds.
TypeOK ==
  /\ vault \in [Paths -> Content \cup {None}] /\ inputs \in {1, 2}
  /\ \A i \in DOMAIN points :
       points[i].files \in [Paths -> Content \cup {None}] /\ points[i].plan \in {None, 1, 2}
  /\ pc \in {"idle", "copy", "receipt", "write", "verify", "retire", "manifests", "check",
             "undo", "remove", "undoManifests", "restored"}
  /\ op.tree \in 0..2 /\ op.point \in 0..Len(points) /\ op.actual \cup op.todo \subseteq Paths
  /\ \A p \in Manifests : vault[p] # None => vault[p].touch = "none"

\* What was not edited can be brought back: whenever no command runs and nothing an operator must
\* decide on is in the way, either every file is listed as it is, or some receipt is accepted by
\* recover at the inputs it was written for.  However often apply and recover themselves died.
WholeOrRecoverable ==
  (pc = "idle" /\ \A p \in Actual(vault) : vault[p].touch \in {"none", "dress"})
    => LET rows == Legacy(vault) \cup Current(vault) IN
       \/ Actual(vault) \subseteq PathsOf(rows) /\ Proven(vault, rows)
       \/ \E i \in DOMAIN points : points[i].plan # None /\ RecoverAccepts(i, points[i].plan)

\* The inventory each command verifies when it is done is the one it promised: the whole new tree, or
\* exactly what the restore point holds.
LastCheckHolds ==
  /\ pc = "check" => vault = TreeFiles(op.tree)
  /\ pc = "restored" => vault = Before

\* The commands never change or delete a file the operator made or gave another meaning, and apply
\* replaces a file saved in another layout only when its restore point has those very bytes.
EditsOutliveMigration ==
  \A p \in Actual(vault) :
    (pc \notin {"idle"} /\ vault'[p] # vault[p]) =>
       /\ vault[p].touch \in {"none", "dress"} \/ pc = "copy"
       /\ (vault[p].touch = "dress" /\ pc \in {"write", "retire"})
            => points[op.point].files[p] = vault[p]

\* docs/research-atlas/Private Research Wiki Projection.md:114 says of an interrupted generation that
\* "apply can rewrite paths still covered by the prior valid manifest".
InterruptedApplyCanBeRepeated ==
  LET listed == PathsOf(Legacy(vault) \cup Current(vault)) IN
  ( /\ pc = "idle" /\ edits = 0 /\ Actual(vault) \subseteq listed
    /\ PathsOf(Current(vault)) \subseteq Tree(inputs) \cup Retired(inputs) )
    => PreflightAccepts(vault, inputs)
=============================================================================
