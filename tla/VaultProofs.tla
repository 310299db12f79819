----------------------------- MODULE VaultProofs ----------------------------
(***************************************************************************)
(* Why an interrupted `workspace apply` or `recover` can always be brought *)
(* to an end, for any number of deaths, edits, moves of the inputs and     *)
(* restore points: what is in the vault is at every point of a command told*)
(* by its restore point, its tree and what is left to do. Then the same for*)
(* what the other commands write beside it: the Zotero projection, the     *)
(* generated workspace, the direct views, the handoff of a checkout and the*)
(* spatial corpus, each as an instance over variables of its own.          *)
(***************************************************************************)
EXTENDS VaultMigration, SequenceTheorems, TLAPS

\* Of the Zotero projection, the workspace and the views.
CONSTANTS
  Families, Labels, Notes, MaxRevision, ZCrashes, ZLosses,
  Ids, Names, Related, Leftovers, MaxChanges, WEdits, MaxDeaths,
  VMoves, VCrashes, VEdits, VLosses
VARIABLES
  export, revision, zfiles, zindex, zmanifest, ztodo, ztree, zcrashes, zlosses,
  registry, wfiles, writer, loaded, wtodo, outcome, touched, spent,
  current, views, running, late, died, vmoves, vcrashes, vedits, vlosses

\* Of the handoff and the corpus.
CONSTANTS
  Machines, Repos, Expected, Forms, MaxCommits, MaxSettings,
  Frames, Split, Required, Statuses, Width, MaxDisplay, Overlapping, MaxSteps
VARIABLES
  server, work, config, dirty, tracking, fetched, doctor, report, made, changes,
  file, intact, pending, window, steps


Rows(files) == Legacy(files) \cup Current(files)
Listed(files) == PathsOf(Rows(files))
Owners == Manifests \cup {"oldMan"}

\* The files at ps are listed as they are.
WholeOn(files, ps) ==
  /\ ps \subseteq Listed(files)
  /\ \A row \in Rows(files) : row[1] \in ps => Intact(files[row[1]], row[1], row[2])

\* A restore point with a receipt for v, whatever is in the vault.
Receipt(i, v) ==
  /\ i \in DOMAIN points /\ v \in {1, 2} /\ points[i].plan = v
  /\ PathsOf(Current(points[i].files)) \subseteq Tree(v) \cup Retired(v)
  /\ Actual(points[i].files) \subseteq Listed(points[i].files)
  /\ Proven(points[i].files, Rows(points[i].files))

\* What recover takes for a target: content c at p is as it was before, as version v has it, or
\* means the same as one of them.
ExplainedAs(c, p, before, v) ==
  \/ c = before \/ (p \in Tree(v) /\ c = Emitted(v))
  \/ /\ p \in Managed
     /\ \/ before # None /\ Intact(c, p, before.v)
        \/ p \in Tree(v) /\ Intact(c, p, v)

\* The files at ps are as the receipt has them before, after or in between.
ExplainedOn(i, v, ps) ==
  /\ ps \subseteq Actual(points[i].files) \cup Tree(v)
  /\ \A p \in ps : ExplainedAs(vault[p], p, points[i].files[p], v)

\* What no operator has made his own.
Untouched == {p \in Actual(vault) : vault[p].touch \in {"none", "dress"}}

Recoverable == \E i \in DOMAIN points, v \in {1, 2} : Receipt(i, v) /\ ExplainedOn(i, v, Untouched)

Applying == {"write", "verify", "retire", "manifests", "check"}
Recovering == {"undo", "remove", "undoManifests", "restored"}

TypeInv ==
  /\ vault \in [Paths -> Content \cup {None}] /\ inputs \in {1, 2}
  /\ points \in Seq([files : [Paths -> Content \cup {None}], plan : {None, 1, 2}])
  /\ pc \in {"idle", "copy", "receipt"} \cup Applying \cup Recovering
  /\ op \in [tree : 0..2, point : 0..Len(points), actual : SUBSET Paths, todo : SUBSET Paths]
  /\ \A p \in Owners : vault[p] # None => vault[p].touch = "none"

\* Between the commands, and before one has touched the vault.
RestInv ==
  /\ pc = "idle" => WholeOn(vault, Untouched) \/ Recoverable
  /\ pc \in {"copy", "receipt"} =>
       /\ op.tree \in {1, 2}
       /\ WholeOn(vault, Untouched) /\ op.actual \subseteq Listed(vault)
       /\ PathsOf(Current(vault)) \subseteq Tree(op.tree) \cup Retired(op.tree)
  /\ pc = "receipt" => op.point # 0 /\ points[op.point] = [files |-> vault, plan |-> None]

\* What apply has emitted and removed so far.
New == Tree(op.tree) \ Manifests
Old == op.actual \ Tree(op.tree)
Written == CASE pc = "write" -> New \ op.todo
             [] pc \in {"verify", "retire"} -> New
             [] pc = "manifests" -> Tree(op.tree) \ op.todo
             [] OTHER -> Tree(op.tree)
Gone == CASE pc \in {"write", "verify"} -> {}
          [] pc = "retire" -> Old \ op.todo
          [] OTHER -> Old

ApplyInv ==
  pc \in Applying =>
    /\ Receipt(op.point, op.tree) /\ op.actual = Actual(Before)
    /\ op.todo \subseteq CASE pc = "write" -> New [] pc = "retire" -> Old
                           [] pc = "manifests" -> Manifests [] OTHER -> {}
    /\ \A p \in Paths : vault[p] = IF p \in Written THEN Emitted(op.tree)
                                   ELSE IF p \in Gone THEN None ELSE Before[p]

\* What recover has put back so far.
RecoverInv ==
  pc \in Recovering =>
    /\ Receipt(op.point, op.tree) /\ ExplainedOn(op.point, op.tree, Actual(vault))
    /\ pc = "undo" => /\ op.todo \subseteq Actual(Before) \ Owners
                      /\ Actual(vault) \subseteq op.actual \cup Actual(Before)
                      /\ \A p \in (Actual(Before) \ Owners) \ op.todo : vault[p] = Before[p]
    /\ pc = "remove" => /\ op.todo \subseteq op.actual \ Actual(Before)
                        /\ Actual(vault) \subseteq op.todo \cup Actual(Before)
                        /\ \A p \in Actual(Before) \ Owners : vault[p] = Before[p]
    /\ pc = "undoManifests" => /\ op.todo \subseteq Actual(Before) \cap Owners
                               /\ Actual(vault) \subseteq Actual(Before)
                               /\ \A p \in Actual(Before) \ op.todo : vault[p] = Before[p]
    /\ pc = "restored" => vault = Before

MigrationInv == TypeInv /\ RestInv /\ ApplyInv /\ RecoverInv
-----------------------------------------------------------------------------
\* What the rows of a tree of files are made of.
LEMMA CurrentRows ==
  ASSUME NEW files, NEW row
  PROVE  row \in Current(files) <=>
           \E man \in Manifests : /\ files[man] # None
                                  /\ \E p \in OwnedBy(man, files[man].v) \cup {man} :
                                        row = <<p, files[man].v>>
BY DEF Current

\* The historical tree has two rows.
LEMMA LegacyRows ==
  ASSUME NEW files, NEW row
  PROVE  row \in Legacy(files) <=>
           files["oldMan"] # None /\ row \in {<<"old", 0>>, <<"oldMan", 0>>}
BY DEF Legacy

\* The owner manifests alone decide what is listed.
LEMMA RowsOfOwners ==
  ASSUME NEW f, NEW g, \A m \in Owners : f[m] = g[m]
  PROVE  Current(f) = Current(g) /\ Rows(f) = Rows(g) /\ Listed(f) = Listed(g)
<1>1. \A m \in Manifests : f[m] = g[m]
  BY DEF Owners
<1>2. f["oldMan"] = g["oldMan"]
  BY DEF Owners
<1>3. \A row : row \in Current(f) <=> row \in Current(g)
  BY <1>1, CurrentRows
<1>4. Current(f) = Current(g)
  BY <1>3
<1>5. Legacy(f) = Legacy(g)
  BY <1>2 DEF Legacy
<1>6. QED
  BY <1>4, <1>5 DEF Rows, Listed

\* A listed path has a row, and no row is of a temporary.
LEMMA ListedHasRow ==
  ASSUME NEW files, NEW p \in Listed(files)
  PROVE  \E row \in Rows(files) : row[1] = p
BY DEF Listed, PathsOf

\* No manifest owns a manifest, the historical tree or a temporary.
LEMMA OwnedPaths ==
  ASSUME NEW man, NEW v
  PROVE  OwnedBy(man, v) \subseteq {"page", "base", "extra", "audit"}
BY DEF OwnedBy, Tree, Manifests

\* What an interrupted write leaves behind is listed nowhere.
LEMMA TemporariesAreNotListed ==
  ASSUME NEW files
  PROVE  "temp" \notin Listed(files)
<1> SUFFICES ASSUME "temp" \in Listed(files) PROVE FALSE
  OBVIOUS
<1>1. PICK row \in Rows(files) : row[1] = "temp"
  BY ListedHasRow
<1>2. CASE row \in Legacy(files)
  BY <1>1, <1>2, LegacyRows
<1>3. CASE row \in Current(files)
  <2>1. PICK man \in Manifests : \E p \in OwnedBy(man, files[man].v) \cup {man} :
                             row = <<p, files[man].v>>
    BY <1>3, CurrentRows
  <2> PICK p \in OwnedBy(man, files[man].v) \cup {man} : row = <<p, files[man].v>>
    BY <2>1
  <2>2. p \in {"page", "base", "extra", "audit"} \cup Manifests
    BY <2>1, OwnedPaths
  <2>3. QED
    BY <1>1, <2>1, <2>2 DEF Manifests
<1>4. QED
  BY <1>2, <1>3 DEF Rows

\* What is listed as it is has not been made an operator's own, and an owner
\* manifest not been touched at all.
LEMMA WholeIsUntouched ==
  ASSUME NEW files, NEW ps, WholeOn(files, ps), NEW p \in ps
  PROVE  /\ files[p].touch \in {"none", "dress"}
         /\ p \in Manifests => files[p].touch = "none"
<1>1. PICK row \in Rows(files) : row[1] = p
  BY ListedHasRow DEF WholeOn
<1>2. Intact(files[p], p, row[2])
  BY <1>1 DEF WholeOn
<1>3. QED
  BY <1>2 DEF Intact, Manifests, Managed

\* Leaving files out, or saving a managed one in another layout, leaves the rest whole.
LEMMA WholeShrinks ==
  ASSUME NEW f, NEW g, NEW ps, NEW qs, WholeOn(f, ps), qs \subseteq ps,
         \A m \in Owners : f[m] = g[m],
         \A p \in qs : \/ g[p] = f[p]
                       \/ p \in Managed /\ g[p].v = f[p].v /\ g[p].touch = "dress"
  PROVE  WholeOn(g, qs)
<1>1. Rows(f) = Rows(g) /\ Listed(f) = Listed(g)
  BY RowsOfOwners
<1>2. ASSUME NEW row \in Rows(g), row[1] \in qs
      PROVE  Intact(g[row[1]], row[1], row[2])
  <2>1. Intact(f[row[1]], row[1], row[2])
    BY <1>1, <1>2 DEF WholeOn
  <2>2. QED
    BY <1>2, <2>1 DEF Intact
<1>3. QED
  BY <1>1, <1>2 DEF WholeOn

\* A tree that was just emitted is whole, and so is the historical one.
LEMMA TreesAreWhole ==
  ASSUME NEW v \in {1, 2}, NoneAssumption
  PROVE  WholeOn(TreeFiles(v), Actual(TreeFiles(v)))
<1> DEFINE files == TreeFiles(v)
<1>1. Emitted(v) # None /\ Emitted(v).v = v /\ Emitted(v).touch = "none"
  BY DEF Emitted, NoneAssumption, Content
<1>2. \A p \in Paths : files[p] = IF p \in Tree(v) THEN Emitted(v) ELSE None
  BY DEF TreeFiles
<1>3. Tree(v) \subseteq Paths /\ Actual(files) = Tree(v) /\ Manifests \subseteq Tree(v)
      /\ "oldMan" \notin Tree(v) /\ "oldMan" \in Paths
  BY <1>1, <1>2 DEF Tree, Paths, Manifests, Actual
<1>4. \A m \in Manifests : files[m] = Emitted(v)
  BY <1>2, <1>3
<1>5. files["oldMan"] = None
  BY <1>2, <1>3
<1> HIDE DEF files
<1>6. ASSUME NEW row \in Rows(files)
      PROVE  row[2] = v
  <2>1. row \in Current(files)
    BY <1>5, LegacyRows DEF Rows
  <2>2. PICK man \in Manifests : \E p \in OwnedBy(man, files[man].v) \cup {man} :
                             row = <<p, files[man].v>>
    BY <2>1, CurrentRows
  <2> PICK p \in OwnedBy(man, files[man].v) \cup {man} : row = <<p, files[man].v>>
    BY <2>2
  <2>3. QED
    BY <1>1, <1>4, <2>2
<1>7. ASSUME NEW p \in Tree(v) PROVE p \in Listed(files)
  <2>1. \E man \in Manifests : p \in OwnedBy(man, v) \cup {man}
    BY DEF Tree, OwnedBy, Manifests
  <2>2. PICK man \in Manifests : p \in OwnedBy(man, v) \cup {man}
    BY <2>1
  <2>3. files[man].v = v /\ files[man] # None
    BY <1>1, <1>4
  <2>4. <<p, v>> \in Current(files)
    BY <2>2, <2>3, CurrentRows
  <2>5. QED
    BY <2>4 DEF Listed, PathsOf, Rows
<1>8. \A row \in Rows(files) : row[1] \in Actual(files) => Intact(files[row[1]], row[1], row[2])
  BY <1>1, <1>2, <1>3, <1>6 DEF Intact
<1>9. QED
  BY <1>3, <1>7, <1>8 DEF WholeOn, files
-----------------------------------------------------------------------------
\* The two trees, and what is in them.
LEMMA TreeFacts ==
  ASSUME NEW v \in {1, 2}, NoneAssumption
  PROVE  /\ Tree(v) \subseteq Paths \ {"old", "oldMan", "temp"} /\ Manifests \subseteq Tree(v)
         /\ Emitted(v) \in Content /\ Emitted(v) # None /\ Emitted(v).touch = "none"
         /\ Emitted(v).v = v
BY DEF Tree, Paths, Manifests, Emitted, Content, NoneAssumption

\* A restore point with a receipt lists its files as they are.
LEMMA ReceiptsAreWhole ==
  ASSUME NEW i, NEW v, Receipt(i, v)
  PROVE  WholeOn(points[i].files, Actual(points[i].files))
BY DEF Receipt, WholeOn, Proven, Actual

\* What the receipt explains, no operator has made his own.
LEMMA ExplainedIsUntouched ==
  ASSUME NoneAssumption, NEW i, NEW v, Receipt(i, v), NEW ps, ExplainedOn(i, v, ps),
         NEW p \in ps \cap Actual(vault)
  PROVE  p \in Untouched /\ p # "temp"
<1> DEFINE before == points[i].files
<1>1. v \in {1, 2} /\ WholeOn(before, Actual(before)) /\ "temp" \notin Actual(before)
  BY ReceiptsAreWhole, TemporariesAreNotListed DEF Receipt
<1>2. /\ p \in Actual(before) \cup Tree(v) /\ vault[p] # None /\ p \in Paths
      /\ ExplainedAs(vault[p], p, before[p], v)
  BY DEF ExplainedOn, Actual
<1>3. Emitted(v).touch = "none" /\ "temp" \notin Tree(v)
  BY <1>1, TreeFacts
<1>4. CASE vault[p] = before[p]
  <2>1. p \in Actual(before)
    BY <1>2, <1>4 DEF Actual
  <2>2. before[p].touch \in {"none", "dress"}
    BY <1>1, <2>1, WholeIsUntouched
  <2>3. QED
    BY <1>1, <1>2, <1>3, <1>4, <2>2 DEF Untouched
<1>5. CASE vault[p] # before[p]
  <2>1. vault[p].touch \in {"none", "dress"}
    BY <1>2, <1>3, <1>5 DEF ExplainedAs, Intact, Managed
  <2>2. QED
    BY <1>1, <1>2, <1>3, <2>1 DEF Untouched
<1>6. QED
  BY <1>4, <1>5

\* What is not changed, or is put back, stays explained.
LEMMA ExplainedStays ==
  ASSUME NEW i, NEW v, NEW ps, ExplainedOn(i, v, ps), NEW qs, NEW files,
         \A p \in qs : \/ p \in ps /\ files[p] = vault[p]
                       \/ p \in Actual(points[i].files) /\ files[p] = points[i].files[p]
  PROVE  /\ qs \subseteq Actual(points[i].files) \cup Tree(v)
         /\ \A p \in qs : ExplainedAs(files[p], p, points[i].files[p], v)
BY DEF ExplainedOn, ExplainedAs

\* A receipt stays what it is.
LEMMA ReceiptStays ==
  ASSUME NEW i, NEW v, Receipt(i, v), points' = points
  PROVE  Receipt(i, v)'
BY DEF Receipt
-----------------------------------------------------------------------------
\* A tree of version v, the historical tree and the empty vault are whole.
LEMMA Initially ==
  ASSUME NoneAssumption, Init
  PROVE  MigrationInv
<1>1. pc = "idle" /\ points = <<>> /\ op = Idle /\ inputs \in {1, 2}
  BY DEF Init
<1>2. op.tree \in 0..2 /\ op \in [tree : 0..2, point : 0..Len(points), actual : SUBSET Paths,
                                  todo : SUBSET Paths]
  BY <1>1 DEF Idle
<1>3. CASE \E v \in {1, 2} : vault = TreeFiles(v)
  <2>1. PICK v \in {1, 2} : vault = TreeFiles(v)
    BY <1>3
  <2>2. \A p \in Paths : vault[p] \in {Emitted(v), None}
    BY <2>1 DEF TreeFiles
  <2>3. vault \in [Paths -> Content \cup {None}]
    BY <2>1, TreeFacts DEF TreeFiles
  <2>4. \A p \in Owners : vault[p] # None => vault[p].touch = "none"
    BY <2>2, TreeFacts DEF Owners, Manifests, Paths
  <2>5. WholeOn(vault, Actual(vault))
    BY <2>1, TreesAreWhole
  <2>6. Untouched \subseteq Actual(vault)
    BY DEF Untouched
  <2>7. WholeOn(vault, Untouched)
    BY <2>5, <2>6 DEF WholeOn
  <2>8. QED
    BY <1>1, <1>2, <2>3, <2>4, <2>7
    DEF MigrationInv, TypeInv, RestInv, ApplyInv, RecoverInv, Applying, Recovering
<1>4. CASE vault = LegacyFiles
  <2>1. Emitted(0) \in Content /\ Emitted(0).touch = "none" /\ Emitted(0).v = 0 /\ Emitted(0) # None
    BY DEF Emitted, Content, NoneAssumption
  <2>2. \A p \in Paths : vault[p] = IF p \in {"old", "oldMan"} THEN Emitted(0) ELSE None
    BY <1>4 DEF LegacyFiles
  <2>3. vault \in [Paths -> Content \cup {None}]
    BY <1>4, <2>1 DEF LegacyFiles
  <2>4. \A p \in Owners : vault[p] # None => vault[p].touch = "none"
    BY <2>1, <2>2 DEF Owners, Manifests, Paths
  <2>5. Untouched \subseteq {"old", "oldMan"} /\ vault["oldMan"] = Emitted(0)
        /\ \A m \in Manifests : vault[m] = None
    BY <2>1, <2>2 DEF Untouched, Actual, Paths, Manifests
  <2>6. Rows(vault) = {<<"old", 0>>, <<"oldMan", 0>>}
    <3>1. \A row : row \notin Current(vault)
      BY <2>5, CurrentRows
    <3>2. QED
      BY <2>1, <2>5, <3>1, LegacyRows DEF Rows
  <2>7. Untouched \subseteq Listed(vault)
    BY <2>5, <2>6 DEF Listed, PathsOf
  <2>8. \A p \in {"old", "oldMan"} : Intact(vault[p], p, 0)
    BY <2>1, <2>2 DEF Intact, Paths
  <2>9. WholeOn(vault, Untouched)
    BY <2>6, <2>7, <2>8 DEF WholeOn
  <2>10. QED
    BY <1>1, <1>2, <2>3, <2>4, <2>9
    DEF MigrationInv, TypeInv, RestInv, ApplyInv, RecoverInv, Applying, Recovering
<1>5. CASE vault = Kept(LegacyFiles, {})
  <2>1. \A p \in Paths : vault[p] = None
    BY <1>5 DEF Kept
  <2>2. vault \in [Paths -> Content \cup {None}]
    BY <1>5 DEF Kept
  <2>3. Untouched = {}
    BY <2>1 DEF Untouched, Actual
  <2>4. \A p \in Owners : vault[p] # None => vault[p].touch = "none"
    BY <2>1 DEF Owners, Manifests, Paths
  <2>5. WholeOn(vault, Untouched)
    <3>1. \A m \in Manifests : vault[m] = None
      BY <2>1 DEF Manifests, Paths
    <3>2. QED
      BY <2>3 DEF WholeOn
  <2>6. QED
    BY <1>1, <1>2, <2>2, <2>4, <2>5
    DEF MigrationInv, TypeInv, RestInv, ApplyInv, RecoverInv, Applying, Recovering
<1>6. QED
  BY <1>3, <1>4, <1>5 DEF Init

-----------------------------------------------------------------------------
(* Apply. *)

\* Preflight proves every file against its row, so the vault is whole.
LEMMA PreflightKeeps ==
  ASSUME NoneAssumption, MigrationInv, Preflight
  PROVE  MigrationInv'
<1>1. pc = "idle" /\ pc' = "copy" /\ PreflightAccepts(vault, inputs)
      /\ op' = [Idle EXCEPT !.tree = inputs, !.actual = Actual(vault)]
      /\ UNCHANGED <<vault, inputs, points>>
  BY DEF Preflight
<1>2. TypeInv
  BY DEF MigrationInv
<1>3. op' = [tree |-> inputs, point |-> 0, actual |-> Actual(vault), todo |-> {}]
  BY <1>1 DEF Idle
<1>4. Actual(vault) \in SUBSET Paths /\ Len(points) \in Nat
  BY <1>2 DEF Actual, TypeInv
<1>5. op' \in [tree : 0..2, point : 0..Len(points), actual : SUBSET Paths, todo : SUBSET Paths]
  BY <1>2, <1>3, <1>4 DEF TypeInv
<1>6. TypeInv'
  BY <1>1, <1>2, <1>5 DEF TypeInv
<1>7. Actual(vault) \subseteq Listed(vault) /\ Proven(vault, Rows(vault))
      /\ PathsOf(Current(vault)) \subseteq Tree(inputs) \cup Retired(inputs)
  BY <1>1 DEF PreflightAccepts, Listed, Rows
<1>8. WholeOn(vault, Untouched)
  BY <1>7 DEF WholeOn, Proven, Untouched, Actual
<1>9. WholeOn(vault, Untouched)'
  BY <1>1, <1>8 DEF Untouched
<1>10. op'.tree \in {1, 2} /\ op'.actual \subseteq Listed(vault')
       /\ PathsOf(Current(vault')) \subseteq Tree(op'.tree) \cup Retired(op'.tree)
  BY <1>1, <1>2, <1>3, <1>7 DEF TypeInv
<1>11. QED
  BY <1>1, <1>6, <1>9, <1>10 DEF MigrationInv, RestInv, ApplyInv, RecoverInv, Applying, Recovering

\* The copy is of the vault as it was proven.
LEMMA CreateRestorePointKeeps ==
  ASSUME NoneAssumption, MigrationInv, CreateRestorePoint
  PROVE  MigrationInv'
<1>1. pc = "copy" /\ pc' = "receipt" /\ UNCHANGED <<vault, inputs>>
      /\ points' = Append(points, [files |-> vault, plan |-> None])
      /\ op' = [op EXCEPT !.point = Len(points')]
  BY DEF CreateRestorePoint
<1>2. TypeInv /\ RestInv
  BY DEF MigrationInv
<1>3. [files |-> vault, plan |-> None] \in [files : [Paths -> Content \cup {None}], plan : {None, 1, 2}]
  BY <1>2 DEF TypeInv
<1>4. points' \in Seq([files : [Paths -> Content \cup {None}], plan : {None, 1, 2}])
      /\ Len(points') = Len(points) + 1 /\ Len(points) \in Nat
      /\ points'[Len(points')] = [files |-> vault, plan |-> None]
  BY <1>1, <1>2, <1>3 DEF TypeInv
<1>5. op' \in [tree : 0..2, point : 0..Len(points'), actual : SUBSET Paths, todo : SUBSET Paths]
      /\ op'.point = Len(points') /\ op'.tree = op.tree /\ op'.actual = op.actual
  <2>1. op \in [tree : 0..2, point : 0..Len(points), actual : SUBSET Paths, todo : SUBSET Paths]
    BY <1>2 DEF TypeInv
  <2>2. Len(points') \in 0..Len(points')
    BY <1>4
  <2> DEFINE size == Len(points')
  <2>3. op' = [op EXCEPT !.point = size] /\ size \in 0..size
    BY <1>1, <2>2
  <2> HIDE DEF size
  <2>4. op' \in [tree : 0..2, point : 0..size, actual : SUBSET Paths, todo : SUBSET Paths]
        /\ op'.point = size /\ op'.tree = op.tree /\ op'.actual = op.actual
    BY <2>1, <2>3
  <2>5. QED
    BY <2>4 DEF size
<1>6. TypeInv'
  BY <1>1, <1>2, <1>4, <1>5 DEF TypeInv
<1>7. WholeOn(vault, Untouched)'
  BY <1>1, <1>2 DEF Untouched, RestInv
<1>8. op'.point # 0 /\ points'[op'.point] = [files |-> vault', plan |-> None]
  BY <1>1, <1>4, <1>5
<1>9. op'.tree \in {1, 2} /\ op'.actual \subseteq Listed(vault')
      /\ PathsOf(Current(vault')) \subseteq Tree(op'.tree) \cup Retired(op'.tree)
  BY <1>1, <1>2, <1>5 DEF RestInv
<1>10. QED
  BY <1>1, <1>6, <1>7, <1>8, <1>9 DEF MigrationInv, RestInv, ApplyInv, RecoverInv, Applying, Recovering

\* The receipt is written for a copy that was proven again, or the command is over.
LEMMA WriteReceiptKeeps ==
  ASSUME NoneAssumption, MigrationInv, WriteReceipt
  PROVE  MigrationInv'
<1> DEFINE copy == points[op.point].files
           sound == Actual(copy) = op.actual /\ Proven(copy, Legacy(copy) \cup Current(copy))
<1>1. TypeInv /\ RestInv /\ pc = "receipt" /\ UNCHANGED <<vault, inputs>>
  BY DEF MigrationInv, WriteReceipt
<1>2. op.point \in DOMAIN points /\ points[op.point] = [files |-> vault, plan |-> None]
      /\ op.tree \in {1, 2}
  BY <1>1 DEF RestInv, TypeInv
<1>3. WholeOn(vault, Untouched) /\ op.actual \subseteq Listed(vault)
      /\ PathsOf(Current(vault)) \subseteq Tree(op.tree) \cup Retired(op.tree)
  BY <1>1 DEF RestInv
<1>4. CASE ~sound
  <2>1. pc' = "idle" /\ op' = Idle /\ points' = points
    BY <1>4 DEF WriteReceipt
  <2>2. op' \in [tree : 0..2, point : 0..Len(points), actual : SUBSET Paths, todo : SUBSET Paths]
    BY <1>1, <2>1 DEF Idle, TypeInv
  <2>3. TypeInv'
    BY <1>1, <2>1, <2>2 DEF TypeInv
  <2>4. WholeOn(vault, Untouched)'
    BY <1>1, <1>3 DEF Untouched
  <2>5. QED
    BY <2>1, <2>3, <2>4 DEF MigrationInv, RestInv, ApplyInv, RecoverInv, Applying, Recovering
<1>5. CASE sound
  <2>1. pc' = "write" /\ points' = [points EXCEPT ![op.point].plan = op.tree]
        /\ op' = [op EXCEPT !.todo = Tree(op.tree) \ Manifests]
    BY <1>5 DEF WriteReceipt
  <2>2. Tree(op.tree) \ Manifests \in SUBSET Paths
    BY <1>2, TreeFacts
  <2>3. op' \in [tree : 0..2, point : 0..Len(points), actual : SUBSET Paths, todo : SUBSET Paths]
        /\ op'.tree = op.tree /\ op'.point = op.point /\ op'.actual = op.actual
        /\ op'.todo = Tree(op.tree) \ Manifests
    BY <1>1, <2>1, <2>2 DEF TypeInv
  <2>4. points' \in Seq([files : [Paths -> Content \cup {None}], plan : {None, 1, 2}])
        /\ Len(points') = Len(points)
    BY <1>1, <1>2, <2>1 DEF TypeInv
  <2>5. points'[op.point] = [files |-> vault, plan |-> op.tree] /\ op.point \in DOMAIN points'
    BY <1>1, <1>2, <2>1 DEF TypeInv
  <2>6. TypeInv'
    <3>1. pc' = "write" /\ \A p \in Owners : vault[p] # None => vault[p].touch = "none"
      BY <1>1, <2>1 DEF TypeInv
    <3>2. vault \in [Paths -> Content \cup {None}] /\ inputs \in {1, 2}
      BY <1>1 DEF TypeInv
    <3>3. op' \in [tree : 0..2, point : 0..Len(points'), actual : SUBSET Paths, todo : SUBSET Paths]
      BY <2>3, <2>4
    <3>4. QED
      BY <1>1, <2>4, <3>1, <3>2, <3>3 DEF TypeInv, Applying
  <2>7. Receipt(op.point, op.tree)'
    <3>1. points'[op'.point].files = vault /\ points'[op'.point].plan = op'.tree
          /\ op'.tree \in {1, 2} /\ op'.point \in DOMAIN points'
      BY <1>2, <2>3, <2>5
    <3>2. Actual(vault) \subseteq Listed(vault) /\ Proven(vault, Rows(vault))
      BY <1>2, <1>3, <1>5 DEF Rows
    <3>3. PathsOf(Current(vault)) \subseteq Tree(op'.tree) \cup Retired(op'.tree)
      BY <1>3, <2>3
    <3>4. QED
      BY <3>1, <3>2, <3>3 DEF Receipt
  <2>8. op'.actual = Actual(Before')
    BY <1>2, <1>5, <2>3, <2>5 DEF Before
  <2>9. Written' = {} /\ Gone' = {} /\ op'.todo \subseteq New'
    BY <2>1, <2>3 DEF Written, Gone, New
  <2>10. \A p \in Paths : vault'[p] = Before'[p]
    BY <1>1, <2>3, <2>5 DEF Before
  <2>11. ApplyInv'
    BY <2>1, <2>7, <2>8, <2>9, <2>10 DEF ApplyInv
  <2>12. QED
    BY <2>1, <2>6, <2>11 DEF MigrationInv, RestInv, RecoverInv, Recovering
<1>6. QED
  BY <1>4, <1>5
\* One file of a phase.
LEMMA FileKeepsTypes ==
  ASSUME TypeInv, NEW p \in Paths, NEW c \in Content \cup {None},
         vault' = [vault EXCEPT ![p] = c], op' = [op EXCEPT !.todo = @ \ {p}], pc' = pc,
         UNCHANGED <<inputs, points>>,
         p \in Owners => (c # None => c.touch = "none")
  PROVE  /\ TypeInv' /\ op'.tree = op.tree /\ op'.point = op.point /\ op'.actual = op.actual
         /\ op'.todo = op.todo \ {p} /\ vault'[p] = c /\ \A q \in Paths \ {p} : vault'[q] = vault[q]
<1>1. vault \in [Paths -> Content \cup {None}]
      /\ op \in [tree : 0..2, point : 0..Len(points), actual : SUBSET Paths, todo : SUBSET Paths]
  BY DEF TypeInv
<1>2. vault' \in [Paths -> Content \cup {None}]
      /\ vault'[p] = c /\ \A q \in Paths \ {p} : vault'[q] = vault[q]
  BY <1>1
<1>3. op' \in [tree : 0..2, point : 0..Len(points), actual : SUBSET Paths, todo : SUBSET Paths]
      /\ op'.tree = op.tree /\ op'.point = op.point /\ op'.actual = op.actual
      /\ op'.todo = op.todo \ {p}
  BY <1>1
<1>4. \A q \in Owners : vault'[q] # None => vault'[q].touch = "none"
  BY <1>2 DEF TypeInv, Owners, Manifests, Paths
<1>5. QED
  BY <1>2, <1>3, <1>4 DEF TypeInv

\* The end of a phase leaves the vault alone.
LEMMA PhaseKeepsTypes ==
  ASSUME TypeInv, NEW todo \in SUBSET Paths, op' = [op EXCEPT !.todo = todo],
         pc' \in Applying \cup Recovering, UNCHANGED <<vault, inputs, points>>
  PROVE  /\ TypeInv' /\ op'.tree = op.tree /\ op'.point = op.point /\ op'.actual = op.actual
         /\ op'.todo = todo
<1>1. op \in [tree : 0..2, point : 0..Len(points), actual : SUBSET Paths, todo : SUBSET Paths]
  BY DEF TypeInv
<1>2. op' \in [tree : 0..2, point : 0..Len(points), actual : SUBSET Paths, todo : SUBSET Paths]
      /\ op'.tree = op.tree /\ op'.point = op.point /\ op'.actual = op.actual /\ op'.todo = todo
  BY <1>1
<1>3. QED
  BY <1>2 DEF TypeInv

\* What apply knows while it writes.
LEMMA ApplyingFacts ==
  ASSUME NoneAssumption, MigrationInv, pc \in Applying
  PROVE  /\ TypeInv /\ Receipt(op.point, op.tree) /\ op.tree \in {1, 2} /\ op.actual = Actual(Before)
         /\ New \subseteq Paths \ Owners /\ Old \subseteq Paths /\ Manifests \subseteq Tree(op.tree)
         /\ Manifests \subseteq Paths
         /\ Emitted(op.tree) \in Content /\ Emitted(op.tree).touch = "none"
         /\ \A p \in Paths : vault[p] = IF p \in Written THEN Emitted(op.tree)
                                        ELSE IF p \in Gone THEN None ELSE Before[p]
<1>1. ApplyInv /\ TypeInv
  BY DEF MigrationInv
<1>2. Receipt(op.point, op.tree) /\ op.tree \in {1, 2} /\ op.actual = Actual(Before)
  BY <1>1 DEF ApplyInv, Receipt
<1>3. /\ Tree(op.tree) \subseteq Paths \ {"old", "oldMan", "temp"} /\ Manifests \subseteq Tree(op.tree)
      /\ Emitted(op.tree) \in Content /\ Emitted(op.tree).touch = "none"
  BY <1>2, TreeFacts
<1>4. Old \subseteq Paths
  BY <1>2 DEF Old, Actual
<1>5. QED
  BY <1>1, <1>2, <1>3, <1>4 DEF ApplyInv, New, Owners

\* A step within apply's phases is told by what it wrote.
LEMMA ApplyingGoesOn ==
  ASSUME NoneAssumption, MigrationInv, pc \in Applying, pc' \in Applying, TypeInv', points' = points,
         op'.tree = op.tree, op'.point = op.point, op'.actual = op.actual,
         op'.todo \subseteq CASE pc' = "write" -> New [] pc' = "retire" -> Old
                              [] pc' = "manifests" -> Manifests [] OTHER -> {},
         \A p \in Paths : vault'[p] = IF p \in Written' THEN Emitted(op.tree)
                                      ELSE IF p \in Gone' THEN None ELSE Before[p]
  PROVE  MigrationInv'
<1>1. New' = New /\ Old' = Old /\ Before' = Before
  BY DEF New, Old, Before
<1>2. Receipt(op.point, op.tree)'
  BY ApplyingFacts, ReceiptStays DEF Receipt
<1>3. op'.actual = Actual(Before')
  BY <1>1, ApplyingFacts
<1>4. op'.todo \subseteq CASE pc' = "write" -> New' [] pc' = "retire" -> Old'
                           [] pc' = "manifests" -> Manifests [] OTHER -> {}
  BY <1>1
<1>5. \A p \in Paths : vault'[p] = IF p \in Written' THEN Emitted(op'.tree)
                                   ELSE IF p \in Gone' THEN None ELSE Before'[p]
  BY <1>1
<1>6. ApplyInv'
  BY <1>2, <1>3, <1>4, <1>5 DEF ApplyInv
<1>7. QED
  BY <1>6 DEF MigrationInv, RestInv, RecoverInv, Applying, Recovering

\* Each replaced file joins what was written, and nothing is gone yet.
LEMMA WriteFilesKeeps ==
  ASSUME NoneAssumption, MigrationInv, WriteFiles
  PROVE  MigrationInv'
<1>1. pc = "write" /\ UNCHANGED <<inputs, points>>
      /\ \/ \E p \in op.todo :
              /\ vault' = [vault EXCEPT ![p] = Emitted(op.tree)]
              /\ op' = [op EXCEPT !.todo = @ \ {p}] /\ pc' = pc
         \/ /\ op.todo = {} /\ vault' = vault
            /\ op' = [op EXCEPT !.todo = {}] /\ pc' = "verify"
  BY DEF WriteFiles, Each
<1>2. pc \in Applying /\ op.todo \subseteq New /\ Written = New \ op.todo /\ Gone = {}
  BY <1>1 DEF MigrationInv, ApplyInv, Applying, Written, Gone
<1>3. CASE \E p \in op.todo : /\ vault' = [vault EXCEPT ![p] = Emitted(op.tree)]
                              /\ op' = [op EXCEPT !.todo = @ \ {p}] /\ pc' = pc
  <2>1. PICK p \in op.todo : /\ vault' = [vault EXCEPT ![p] = Emitted(op.tree)]
                             /\ op' = [op EXCEPT !.todo = @ \ {p}] /\ pc' = pc
    BY <1>3
  <2>2. p \in Paths /\ p \notin Owners /\ p \in New /\ Emitted(op.tree) \in Content /\ TypeInv
    BY <1>2, <2>1, ApplyingFacts
  <2>3. /\ TypeInv' /\ op'.tree = op.tree /\ op'.point = op.point /\ op'.actual = op.actual
        /\ op'.todo = op.todo \ {p} /\ vault'[p] = Emitted(op.tree)
        /\ \A q \in Paths \ {p} : vault'[q] = vault[q]
    BY <1>1, <2>1, <2>2, FileKeepsTypes
  <2>4. Written' = Written \cup {p} /\ Gone' = {} /\ op'.todo \subseteq New
    BY <1>1, <1>2, <2>1, <2>2, <2>3 DEF Written, Gone, New
  <2>5. \A q \in Paths : vault'[q] = IF q \in Written' THEN Emitted(op.tree)
                                     ELSE IF q \in Gone' THEN None ELSE Before[q]
    BY <1>2, <2>3, <2>4, ApplyingFacts
  <2>6. QED
    BY <1>1, <1>2, <2>1, <2>3, <2>4, <2>5, ApplyingGoesOn
<1>4. CASE op.todo = {} /\ vault' = vault /\ op' = [op EXCEPT !.todo = {}] /\ pc' = "verify"
  <2>1. /\ TypeInv' /\ op'.tree = op.tree /\ op'.point = op.point /\ op'.actual = op.actual
        /\ op'.todo = {} /\ pc' \in Applying
    <3>1. pc' \in Applying
      BY <1>4 DEF Applying
    <3>2. QED
      BY <1>1, <1>2, <1>4, <3>1, ApplyingFacts, PhaseKeepsTypes
  <2>2. Written' = Written /\ Gone' = {}
    BY <1>2, <1>4, <2>1 DEF Written, Gone, New
  <2>3. \A q \in Paths : vault'[q] = IF q \in Written' THEN Emitted(op.tree)
                                     ELSE IF q \in Gone' THEN None ELSE Before[q]
    BY <1>2, <1>4, <2>2, ApplyingFacts
  <2>4. QED
    BY <1>1, <1>2, <1>4, <2>1, <2>3, ApplyingGoesOn
<1>5. QED
  BY <1>1, <1>3, <1>4

\* Everything that was to be replaced reads back, so retirement begins.
LEMMA VerifyReplacementsKeeps ==
  ASSUME NoneAssumption, MigrationInv, VerifyReplacements
  PROVE  MigrationInv'
<1>1. pc = "verify" /\ UNCHANGED <<vault, inputs, points>>
  BY DEF VerifyReplacements
<1>2. pc \in Applying /\ Written = New /\ Gone = {}
  BY <1>1 DEF Applying, Written, Gone
<1>3. \A p \in Tree(op.tree) \ Manifests : vault[p] = Emitted(op.tree)
  BY <1>2, ApplyingFacts DEF New
<1>4. pc' = "retire" /\ op' = [op EXCEPT !.todo = op.actual \ Tree(op.tree)]
  BY <1>3 DEF VerifyReplacements
<1>5. pc' \in Applying /\ Old \in SUBSET Paths /\ Old = op.actual \ Tree(op.tree)
  BY <1>2, <1>4, ApplyingFacts DEF Applying, Old
<1>6. /\ TypeInv' /\ op'.tree = op.tree /\ op'.point = op.point /\ op'.actual = op.actual
      /\ op'.todo = Old
  BY <1>1, <1>2, <1>4, <1>5, ApplyingFacts, PhaseKeepsTypes
<1>7. Written' = Written /\ Gone' = {}
  BY <1>2, <1>4, <1>5, <1>6 DEF Written, Gone, New, Old
<1>8. \A q \in Paths : vault'[q] = IF q \in Written' THEN Emitted(op.tree)
                                   ELSE IF q \in Gone' THEN None ELSE Before[q]
  BY <1>1, <1>2, <1>7, ApplyingFacts
<1>9. QED
  BY <1>1, <1>2, <1>4, <1>5, <1>6, <1>8, ApplyingGoesOn

\* Each retired file was there before and is not of the new tree.
LEMMA RetireKeeps ==
  ASSUME NoneAssumption, MigrationInv, Retire
  PROVE  MigrationInv'
<1>1. pc = "retire" /\ UNCHANGED <<inputs, points>>
      /\ \/ \E p \in op.todo :
              /\ vault' = [vault EXCEPT ![p] = None]
              /\ op' = [op EXCEPT !.todo = @ \ {p}] /\ pc' = pc
         \/ /\ op.todo = {} /\ vault' = vault
            /\ op' = [op EXCEPT !.todo = Manifests] /\ pc' = "manifests"
  BY DEF Retire, Each
<1>2. pc \in Applying /\ op.todo \subseteq Old /\ Written = New /\ Gone = Old \ op.todo
  BY <1>1 DEF MigrationInv, ApplyInv, Applying, Written, Gone
<1>3. CASE \E p \in op.todo : /\ vault' = [vault EXCEPT ![p] = None]
                              /\ op' = [op EXCEPT !.todo = @ \ {p}] /\ pc' = pc
  <2>1. PICK p \in op.todo : /\ vault' = [vault EXCEPT ![p] = None]
                             /\ op' = [op EXCEPT !.todo = @ \ {p}] /\ pc' = pc
    BY <1>3
  <2>2. p \in Paths /\ p \in Old /\ p \notin New /\ TypeInv
    BY <1>2, <2>1, ApplyingFacts DEF Old, New
  <2>3. /\ TypeInv' /\ op'.tree = op.tree /\ op'.point = op.point /\ op'.actual = op.actual
        /\ op'.todo = op.todo \ {p} /\ vault'[p] = None
        /\ \A q \in Paths \ {p} : vault'[q] = vault[q]
    BY <1>1, <2>1, <2>2, FileKeepsTypes
  <2>4. Written' = New /\ Gone' = Gone \cup {p} /\ op'.todo \subseteq Old
    BY <1>1, <1>2, <2>1, <2>2, <2>3 DEF Written, Gone, New, Old
  <2>5. \A q \in Paths : vault'[q] = IF q \in Written' THEN Emitted(op.tree)
                                     ELSE IF q \in Gone' THEN None ELSE Before[q]
    BY <1>2, <2>2, <2>3, <2>4, ApplyingFacts
  <2>6. QED
    BY <1>1, <1>2, <2>1, <2>3, <2>4, <2>5, ApplyingGoesOn
<1>4. CASE /\ op.todo = {} /\ vault' = vault
           /\ op' = [op EXCEPT !.todo = Manifests] /\ pc' = "manifests"
  <2>1. /\ TypeInv' /\ op'.tree = op.tree /\ op'.point = op.point /\ op'.actual = op.actual
        /\ op'.todo = Manifests /\ pc' \in Applying
    <3>1. pc' \in Applying
      BY <1>4 DEF Applying
    <3>2. QED
      BY <1>1, <1>2, <1>4, <3>1, ApplyingFacts, PhaseKeepsTypes
  <2>2. Written' = Written /\ Gone' = Gone
    BY <1>2, <1>4, <2>1 DEF Written, Gone, New, Old
  <2>3. \A q \in Paths : vault'[q] = IF q \in Written' THEN Emitted(op.tree)
                                     ELSE IF q \in Gone' THEN None ELSE Before[q]
    BY <1>2, <1>4, <2>2, ApplyingFacts
  <2>4. QED
    BY <1>1, <1>2, <1>4, <2>1, <2>3, ApplyingGoesOn
<1>5. QED
  BY <1>1, <1>3, <1>4

\* The manifests are written last, over a tree that is otherwise complete.
LEMMA WriteManifestsKeeps ==
  ASSUME NoneAssumption, MigrationInv, WriteManifests
  PROVE  MigrationInv'
<1>1. pc = "manifests" /\ UNCHANGED <<inputs, points>>
      /\ \/ \E p \in op.todo :
              /\ vault' = [vault EXCEPT ![p] = Emitted(op.tree)]
              /\ op' = [op EXCEPT !.todo = @ \ {p}] /\ pc' = pc
         \/ /\ op.todo = {} /\ vault' = vault
            /\ op' = [op EXCEPT !.todo = {}] /\ pc' = "check"
  BY DEF WriteManifests, Each
<1>2. /\ pc \in Applying /\ op.todo \subseteq Manifests /\ Written = Tree(op.tree) \ op.todo
      /\ Gone = Old
  BY <1>1 DEF MigrationInv, ApplyInv, Applying, Written, Gone
<1>3. CASE \E p \in op.todo : /\ vault' = [vault EXCEPT ![p] = Emitted(op.tree)]
                              /\ op' = [op EXCEPT !.todo = @ \ {p}] /\ pc' = pc
  <2>1. PICK p \in op.todo : /\ vault' = [vault EXCEPT ![p] = Emitted(op.tree)]
                             /\ op' = [op EXCEPT !.todo = @ \ {p}] /\ pc' = pc
    BY <1>3
  <2>2. /\ p \in Paths /\ p \in Tree(op.tree) /\ TypeInv
        /\ Emitted(op.tree) \in Content /\ Emitted(op.tree).touch = "none"
    BY <1>2, <2>1, ApplyingFacts
  <2>3. /\ TypeInv' /\ op'.tree = op.tree /\ op'.point = op.point /\ op'.actual = op.actual
        /\ op'.todo = op.todo \ {p} /\ vault'[p] = Emitted(op.tree)
        /\ \A q \in Paths \ {p} : vault'[q] = vault[q]
    BY <1>1, <2>1, <2>2, FileKeepsTypes
  <2>4. Written' = Written \cup {p} /\ Gone' = Old /\ op'.todo \subseteq Manifests
    BY <1>1, <1>2, <2>1, <2>2, <2>3 DEF Written, Gone, Old
  <2>5. \A q \in Paths : vault'[q] = IF q \in Written' THEN Emitted(op.tree)
                                     ELSE IF q \in Gone' THEN None ELSE Before[q]
    BY <1>2, <2>3, <2>4, ApplyingFacts
  <2>6. QED
    BY <1>1, <1>2, <2>1, <2>3, <2>4, <2>5, ApplyingGoesOn
<1>4. CASE op.todo = {} /\ vault' = vault /\ op' = [op EXCEPT !.todo = {}] /\ pc' = "check"
  <2>1. /\ TypeInv' /\ op'.tree = op.tree /\ op'.point = op.point /\ op'.actual = op.actual
        /\ op'.todo = {} /\ pc' \in Applying
    <3>1. pc' \in Applying
      BY <1>4 DEF Applying
    <3>2. QED
      BY <1>1, <1>2, <1>4, <3>1, ApplyingFacts, PhaseKeepsTypes
  <2>2. Written' = Written /\ Gone' = Gone
    BY <1>2, <1>4, <2>1 DEF Written, Gone, Old
  <2>3. \A q \in Paths : vault'[q] = IF q \in Written' THEN Emitted(op.tree)
                                     ELSE IF q \in Gone' THEN None ELSE Before[q]
    BY <1>2, <1>4, <2>2, ApplyingFacts
  <2>4. QED
    BY <1>1, <1>2, <1>4, <2>1, <2>3, ApplyingGoesOn
<1>5. QED
  BY <1>1, <1>3, <1>4
-----------------------------------------------------------------------------
(* Recover. *)

\* An element of a sequence is of the sequence's set.
LEMMA ElementsOfSequences ==
  ASSUME NEW S, NEW s \in Seq(S), NEW i \in DOMAIN s
  PROVE  s[i] \in S
OBVIOUS

\* What recover accepts is a receipt that explains everything in the vault.
LEMMA RecoverKeeps ==
  ASSUME NoneAssumption, MigrationInv, Recover
  PROVE  MigrationInv'
<1>1. PICK i \in DOMAIN points :
        /\ RecoverAccepts(i, inputs)
        /\ op' = [tree |-> inputs, point |-> i, actual |-> Actual(vault),
                  todo |-> Actual(points[i].files) \ (Manifests \cup {"oldMan"})]
  BY DEF Recover
<1>2. pc = "idle" /\ pc' = "undo" /\ UNCHANGED <<vault, inputs, points>> /\ TypeInv
  BY DEF Recover, MigrationInv
<1>3. /\ op'.tree = inputs /\ op'.point = i /\ op'.actual = Actual(vault)
      /\ op'.todo = Actual(points[i].files) \ Owners
  BY <1>1 DEF Owners
<1>4. i \in 0..Len(points) /\ inputs \in 0..2 /\ Actual(vault) \in SUBSET Paths
      /\ Actual(points[i].files) \in SUBSET Paths
  BY <1>1, <1>2 DEF TypeInv, Actual
<1>5. op' \in [tree : 0..2, point : 0..Len(points), actual : SUBSET Paths, todo : SUBSET Paths]
  BY <1>1, <1>4
<1>6. TypeInv'
  BY <1>2, <1>5 DEF TypeInv, Recovering
<1>7. Receipt(i, inputs)
  BY <1>1, <1>2 DEF RecoverAccepts, Receipt, Rows, Listed, TypeInv
<1>8. ExplainedOn(i, inputs, Actual(vault))
  <2>1. Actual(vault) \subseteq Actual(points[i].files) \cup Tree(inputs)
    BY <1>1 DEF RecoverAccepts
  <2>2. \A p \in Actual(vault) : Explained(p, points[i].files[p], inputs)
    BY <1>1 DEF RecoverAccepts
  <2>3. QED
    BY <2>1, <2>2 DEF Explained, ExplainedAs, ExplainedOn
<1>9. Receipt(op.point, op.tree)'
  BY <1>2, <1>3, <1>7 DEF Receipt
<1>11. ExplainedOn(op.point, op.tree, Actual(vault))'
  BY <1>2, <1>3, <1>8 DEF ExplainedOn
<1>12. Before' = points[i].files
  BY <1>2, <1>3 DEF Before
<1>13. RecoverInv'
  BY <1>2, <1>3, <1>9, <1>11, <1>12 DEF RecoverInv
<1>14. QED
  BY <1>2, <1>6, <1>13 DEF MigrationInv, RestInv, ApplyInv, Applying

\* What recover knows while it puts back.
LEMMA RecoveringFacts ==
  ASSUME NoneAssumption, MigrationInv, pc \in Recovering
  PROVE  /\ TypeInv /\ Receipt(op.point, op.tree) /\ ExplainedOn(op.point, op.tree, Actual(vault))
         /\ Before \in [Paths -> Content \cup {None}] /\ Actual(Before) \subseteq Paths
         /\ \A p \in Owners : Before[p] # None => Before[p].touch = "none"
         /\ op.actual \subseteq Paths /\ op.todo \subseteq Paths /\ Owners \subseteq Paths
<1>1. RecoverInv /\ TypeInv
  BY DEF MigrationInv
<1>2. Receipt(op.point, op.tree) /\ ExplainedOn(op.point, op.tree, Actual(vault))
  BY <1>1 DEF RecoverInv
<1>3. op.point \in DOMAIN points
  BY <1>2 DEF Receipt
<1>4. Before \in [Paths -> Content \cup {None}]
  <2>1. points[op.point] \in [files : [Paths -> Content \cup {None}], plan : {None, 1, 2}]
    <3>1. points \in Seq([files : [Paths -> Content \cup {None}], plan : {None, 1, 2}])
      BY <1>1 DEF TypeInv
    <3>2. QED
      BY <1>3, <3>1, ElementsOfSequences
  <2>2. QED
    BY <2>1 DEF Before
<1>5. Owners \subseteq Paths
  BY DEF Owners, Paths
<1>6. WholeOn(Before, Actual(Before))
  BY <1>2, ReceiptsAreWhole DEF Before
<1>7. ASSUME NEW p \in Owners, Before[p] # None
      PROVE  Before[p].touch = "none"
  <2>1. p \in Actual(Before)
    BY <1>5, <1>7 DEF Actual
  <2>2. PICK row \in Rows(Before) : row[1] = p
    BY <1>6, <2>1, ListedHasRow DEF WholeOn
  <2>3. Intact(Before[p], p, row[2])
    BY <1>6, <2>1, <2>2 DEF WholeOn
  <2>4. p \notin Managed
    BY DEF Owners, Manifests, Managed
  <2>5. QED
    BY <2>3, <2>4 DEF Intact
<1>8. op.actual \subseteq Paths /\ op.todo \subseteq Paths
  BY <1>1 DEF TypeInv
<1>9. QED
  BY <1>1, <1>2, <1>4, <1>5, <1>7, <1>8 DEF Actual

\* A step within recover's phases leaves each file as it was, puts it back or removes it.
LEMMA RecoveringGoesOn ==
  ASSUME NoneAssumption, MigrationInv, pc \in Recovering, pc' \in Recovering, TypeInv',
         points' = points, op'.tree = op.tree, op'.point = op.point,
         \A p \in Actual(vault') : \/ p \in Actual(vault) /\ vault'[p] = vault[p]
                                   \/ p \in Actual(Before) /\ vault'[p] = Before[p],
         pc' = "undo" => /\ op'.todo \subseteq Actual(Before) \ Owners
                         /\ Actual(vault') \subseteq op'.actual \cup Actual(Before)
                         /\ \A p \in (Actual(Before) \ Owners) \ op'.todo : vault'[p] = Before[p],
         pc' = "remove" => /\ op'.todo \subseteq op'.actual \ Actual(Before)
                           /\ Actual(vault') \subseteq op'.todo \cup Actual(Before)
                           /\ \A p \in Actual(Before) \ Owners : vault'[p] = Before[p],
         pc' = "undoManifests" => /\ op'.todo \subseteq Actual(Before) \cap Owners
                                  /\ Actual(vault') \subseteq Actual(Before)
                                  /\ \A p \in Actual(Before) \ op'.todo : vault'[p] = Before[p],
         pc' = "restored" => vault' = Before
  PROVE  MigrationInv'
<1>1. Before' = Before
  BY DEF Before
<1>2. Receipt(op.point, op.tree) /\ ExplainedOn(op.point, op.tree, Actual(vault))
  BY RecoveringFacts
<1>3. Receipt(op.point, op.tree)'
  BY <1>2 DEF Receipt
<1>4. /\ Actual(vault') \subseteq Actual(points[op.point].files) \cup Tree(op.tree)
      /\ \A p \in Actual(vault') : ExplainedAs(vault'[p], p, points[op.point].files[p], op.tree)
  BY <1>2, ExplainedStays DEF Before
<1>5. ExplainedOn(op.point, op.tree, Actual(vault))'
  BY <1>4 DEF ExplainedOn
<1>6. RecoverInv'
  BY <1>1, <1>3, <1>5 DEF RecoverInv
<1>7. QED
  BY <1>6 DEF MigrationInv, RestInv, ApplyInv, Applying, Recovering

\* Files that were there before are put back.
LEMMA UndoKeeps ==
  ASSUME NoneAssumption, MigrationInv, Undo
  PROVE  MigrationInv'
<1>1. pc = "undo" /\ UNCHANGED <<inputs, points>>
      /\ \/ \E p \in op.todo :
              /\ vault' = [vault EXCEPT ![p] = Before[p]]
              /\ op' = [op EXCEPT !.todo = @ \ {p}] /\ pc' = pc
         \/ /\ op.todo = {} /\ vault' = vault
            /\ op' = [op EXCEPT !.todo = op.actual \ Actual(Before)] /\ pc' = "remove"
  BY DEF Undo, Each
<1>2. /\ pc \in Recovering /\ op.todo \subseteq Actual(Before) \ Owners
      /\ Actual(vault) \subseteq op.actual \cup Actual(Before)
      /\ \A p \in (Actual(Before) \ Owners) \ op.todo : vault[p] = Before[p]
  BY <1>1 DEF MigrationInv, RecoverInv, Recovering
<1>3. CASE \E p \in op.todo : /\ vault' = [vault EXCEPT ![p] = Before[p]]
                              /\ op' = [op EXCEPT !.todo = @ \ {p}] /\ pc' = pc
  <2>1. PICK p \in op.todo : /\ vault' = [vault EXCEPT ![p] = Before[p]]
                             /\ op' = [op EXCEPT !.todo = @ \ {p}] /\ pc' = pc
    BY <1>3
  <2>2. p \in Paths /\ p \notin Owners /\ p \in Actual(Before) /\ TypeInv
        /\ Before[p] \in Content \cup {None}
    BY <1>2, <2>1, RecoveringFacts
  <2>3. /\ TypeInv' /\ op'.tree = op.tree /\ op'.point = op.point /\ op'.actual = op.actual
        /\ op'.todo = op.todo \ {p} /\ vault'[p] = Before[p]
        /\ \A q \in Paths \ {p} : vault'[q] = vault[q]
    BY <1>1, <2>1, <2>2, FileKeepsTypes
  <2>4. \A q \in Actual(vault') : \/ q \in Actual(vault) /\ vault'[q] = vault[q]
                                  \/ q \in Actual(Before) /\ vault'[q] = Before[q]
    BY <2>2, <2>3 DEF Actual
  <2>5. /\ op'.todo \subseteq Actual(Before) \ Owners
        /\ Actual(vault') \subseteq op'.actual \cup Actual(Before)
        /\ \A q \in (Actual(Before) \ Owners) \ op'.todo : vault'[q] = Before[q]
    BY <1>2, <2>3, <2>4, RecoveringFacts
  <2>6. QED
    BY <1>1, <1>2, <2>1, <2>3, <2>4, <2>5, RecoveringGoesOn
<1>4. CASE /\ op.todo = {} /\ vault' = vault
           /\ op' = [op EXCEPT !.todo = op.actual \ Actual(Before)] /\ pc' = "remove"
  <2>1. /\ pc' \in Applying \cup Recovering /\ pc' \in Recovering
        /\ op.actual \ Actual(Before) \in SUBSET Paths
    BY <1>2, <1>4, RecoveringFacts DEF Recovering
  <2>2. /\ TypeInv' /\ op'.tree = op.tree /\ op'.point = op.point /\ op'.actual = op.actual
        /\ op'.todo = op.actual \ Actual(Before)
    BY <1>1, <1>2, <1>4, <2>1, RecoveringFacts, PhaseKeepsTypes
  <2>3. /\ op'.todo \subseteq op'.actual \ Actual(Before)
        /\ Actual(vault') \subseteq op'.todo \cup Actual(Before)
        /\ \A q \in Actual(Before) \ Owners : vault'[q] = Before[q]
    BY <1>2, <1>4, <2>2
  <2>4. QED
    BY <1>1, <1>2, <1>4, <2>1, <2>2, <2>3, RecoveringGoesOn
<1>5. QED
  BY <1>1, <1>3, <1>4

\* Files that were not there before are removed.
LEMMA RemoveKeeps ==
  ASSUME NoneAssumption, MigrationInv, Remove
  PROVE  MigrationInv'
<1>1. pc = "remove" /\ UNCHANGED <<inputs, points>>
      /\ \/ \E p \in op.todo :
              /\ vault' = [vault EXCEPT ![p] = None]
              /\ op' = [op EXCEPT !.todo = @ \ {p}] /\ pc' = pc
         \/ /\ op.todo = {} /\ vault' = vault
            /\ op' = [op EXCEPT !.todo = Actual(Before) \cap Owners] /\ pc' = "undoManifests"
  BY DEF Remove, Each, Owners
<1>2. /\ pc \in Recovering /\ op.todo \subseteq op.actual \ Actual(Before)
      /\ Actual(vault) \subseteq op.todo \cup Actual(Before)
      /\ \A p \in Actual(Before) \ Owners : vault[p] = Before[p]
  BY <1>1 DEF MigrationInv, RecoverInv, Recovering
<1>3. CASE \E p \in op.todo : /\ vault' = [vault EXCEPT ![p] = None]
                              /\ op' = [op EXCEPT !.todo = @ \ {p}] /\ pc' = pc
  <2>1. PICK p \in op.todo : /\ vault' = [vault EXCEPT ![p] = None]
                             /\ op' = [op EXCEPT !.todo = @ \ {p}] /\ pc' = pc
    BY <1>3
  <2>2. p \in Paths /\ p \notin Actual(Before) /\ TypeInv
    BY <1>2, <2>1, RecoveringFacts
  <2>3. /\ TypeInv' /\ op'.tree = op.tree /\ op'.point = op.point /\ op'.actual = op.actual
        /\ op'.todo = op.todo \ {p} /\ vault'[p] = None
        /\ \A q \in Paths \ {p} : vault'[q] = vault[q]
    BY <1>1, <2>1, <2>2, FileKeepsTypes
  <2>4. \A q \in Actual(vault') : q \in Actual(vault) /\ q # p /\ vault'[q] = vault[q]
    BY <2>2, <2>3 DEF Actual
  <2>5. \A q \in Actual(Before) \ Owners : vault'[q] = Before[q]
    BY <1>2, <2>2, <2>3, RecoveringFacts
  <2>6. /\ op'.todo \subseteq op'.actual \ Actual(Before)
        /\ Actual(vault') \subseteq op'.todo \cup Actual(Before)
    BY <1>2, <2>3, <2>4
  <2>7. QED
    BY <1>1, <1>2, <2>1, <2>3, <2>4, <2>5, <2>6, RecoveringGoesOn
<1>4. CASE /\ op.todo = {} /\ vault' = vault
           /\ op' = [op EXCEPT !.todo = Actual(Before) \cap Owners] /\ pc' = "undoManifests"
  <2>1. /\ pc' \in Applying \cup Recovering /\ pc' \in Recovering
        /\ Actual(Before) \cap Owners \in SUBSET Paths
    BY <1>2, <1>4, RecoveringFacts DEF Recovering
  <2>2. /\ TypeInv' /\ op'.tree = op.tree /\ op'.point = op.point /\ op'.actual = op.actual
        /\ op'.todo = Actual(Before) \cap Owners
    BY <1>1, <1>2, <1>4, <2>1, RecoveringFacts, PhaseKeepsTypes
  <2>3. /\ op'.todo \subseteq Actual(Before) \cap Owners
        /\ Actual(vault') \subseteq Actual(Before)
        /\ \A q \in Actual(Before) \ op'.todo : vault'[q] = Before[q]
    BY <1>2, <1>4, <2>2
  <2>4. QED
    BY <1>1, <1>2, <1>4, <2>1, <2>2, <2>3, RecoveringGoesOn
<1>5. QED
  BY <1>1, <1>3, <1>4

\* The owner manifests are put back last, and then the vault is the restore point.
LEMMA UndoManifestsKeeps ==
  ASSUME NoneAssumption, MigrationInv, UndoManifests
  PROVE  MigrationInv'
<1>1. pc = "undoManifests" /\ UNCHANGED <<inputs, points>>
      /\ \/ \E p \in op.todo :
              /\ vault' = [vault EXCEPT ![p] = Before[p]]
              /\ op' = [op EXCEPT !.todo = @ \ {p}] /\ pc' = pc
         \/ /\ op.todo = {} /\ vault' = vault
            /\ op' = [op EXCEPT !.todo = {}] /\ pc' = "restored"
  BY DEF UndoManifests, Each
<1>2. /\ pc \in Recovering /\ op.todo \subseteq Actual(Before) \cap Owners
      /\ Actual(vault) \subseteq Actual(Before)
      /\ \A p \in Actual(Before) \ op.todo : vault[p] = Before[p]
  BY <1>1 DEF MigrationInv, RecoverInv, Recovering
<1>3. CASE \E p \in op.todo : /\ vault' = [vault EXCEPT ![p] = Before[p]]
                              /\ op' = [op EXCEPT !.todo = @ \ {p}] /\ pc' = pc
  <2>1. PICK p \in op.todo : /\ vault' = [vault EXCEPT ![p] = Before[p]]
                             /\ op' = [op EXCEPT !.todo = @ \ {p}] /\ pc' = pc
    BY <1>3
  <2>2. p \in Paths /\ p \in Actual(Before) /\ TypeInv /\ Before[p] \in Content \cup {None}
        /\ (Before[p] # None => Before[p].touch = "none")
    BY <1>2, <2>1, RecoveringFacts
  <2>3. /\ TypeInv' /\ op'.tree = op.tree /\ op'.point = op.point /\ op'.actual = op.actual
        /\ op'.todo = op.todo \ {p} /\ vault'[p] = Before[p]
        /\ \A q \in Paths \ {p} : vault'[q] = vault[q]
    BY <1>1, <2>1, <2>2, FileKeepsTypes
  <2>4. \A q \in Actual(vault') : \/ q \in Actual(vault) /\ vault'[q] = vault[q]
                                  \/ q \in Actual(Before) /\ vault'[q] = Before[q]
    BY <2>2, <2>3 DEF Actual
  <2>5. /\ op'.todo \subseteq Actual(Before) \cap Owners
        /\ Actual(vault') \subseteq Actual(Before)
        /\ \A q \in Actual(Before) \ op'.todo : vault'[q] = Before[q]
    BY <1>2, <2>3, <2>4, RecoveringFacts
  <2>6. QED
    BY <1>1, <1>2, <2>1, <2>3, <2>4, <2>5, RecoveringGoesOn
<1>4. CASE op.todo = {} /\ vault' = vault /\ op' = [op EXCEPT !.todo = {}] /\ pc' = "restored"
  <2>1. pc' \in Applying \cup Recovering /\ pc' \in Recovering
    BY <1>4 DEF Recovering
  <2>2. TypeInv' /\ op'.tree = op.tree /\ op'.point = op.point
    BY <1>1, <1>2, <1>4, <2>1, RecoveringFacts, PhaseKeepsTypes
  <2>3. \A p \in Paths : vault[p] = Before[p]
    BY <1>2, <1>4 DEF Actual
  <2>4. vault \in [Paths -> Content \cup {None}] /\ Before \in [Paths -> Content \cup {None}]
    BY <1>2, RecoveringFacts DEF TypeInv
  <2>5. vault' = Before
    BY <1>4, <2>3, <2>4
  <2>6. QED
    BY <1>1, <1>2, <1>4, <2>1, <2>2, <2>5, RecoveringGoesOn
<1>5. QED
  BY <1>1, <1>3, <1>4
-----------------------------------------------------------------------------
(* What ends a command, and what happens between commands. *)

\* The vault stays well typed, and no command runs afterwards.
LEMMA EndKeepsTypes ==
  ASSUME TypeInv, pc' = "idle", op' = Idle, UNCHANGED <<inputs, points>>,
         vault' \in [Paths -> Content \cup {None}],
         \A p \in Owners : vault'[p] # None => vault'[p].touch = "none"
  PROVE  TypeInv'
<1>1. Len(points) \in Nat
  BY DEF TypeInv
<1>2. op' \in [tree : 0..2, point : 0..Len(points), actual : SUBSET Paths, todo : SUBSET Paths]
  BY <1>1 DEF Idle
<1>3. QED
  BY <1>2 DEF TypeInv

\* Where what nobody made his own is whole or explained, the invariant holds between commands.
LEMMA RestKeeps ==
  ASSUME TypeInv', pc' = "idle", WholeOn(vault, Untouched)' \/ Recoverable'
  PROVE  MigrationInv'
BY DEF MigrationInv, RestInv, ApplyInv, RecoverInv, Applying, Recovering

\* Under a receipt, files that were left alone among the explained ones can be taken back.
LEMMA ExplainedIsRecoverable ==
  ASSUME NEW i, NEW v, Receipt(i, v), points' = points,
         Untouched' \subseteq Actual(points[i].files) \cup Tree(v),
         \A p \in Untouched' : ExplainedAs(vault'[p], p, points[i].files[p], v)
  PROVE  Recoverable'
<1>1. i \in DOMAIN points' /\ v \in {1, 2} /\ Receipt(i, v)'
  BY DEF Receipt
<1>2. ExplainedOn(i, v, Untouched)'
  BY DEF ExplainedOn
<1>3. QED
  BY <1>1, <1>2 DEF Recoverable

\* What apply has written so far is explained by its receipt.
LEMMA ApplyingIsExplained ==
  ASSUME NoneAssumption, MigrationInv, pc \in Applying
  PROVE  ExplainedOn(op.point, op.tree, Actual(vault))
<1>1. ASSUME NEW p \in Actual(vault)
      PROVE  /\ p \in Actual(Before) \cup Tree(op.tree)
             /\ ExplainedAs(vault[p], p, Before[p], op.tree)
  <2>1. p \in Paths /\ vault[p] # None
    BY DEF Actual
  <2>2. vault[p] = IF p \in Written THEN Emitted(op.tree) ELSE IF p \in Gone THEN None ELSE Before[p]
    BY <2>1, ApplyingFacts
  <2>3. CASE p \in Written
    <3>1. p \in Tree(op.tree)
      BY <2>3 DEF Written, New
    <3>2. QED
      BY <2>2, <2>3, <3>1 DEF ExplainedAs
  <2>4. CASE p \notin Written
    <3>1. vault[p] = Before[p]
      BY <2>1, <2>2, <2>4
    <3>2. p \in Actual(Before)
      BY <2>1, <3>1 DEF Actual
    <3>3. QED
      BY <3>1, <3>2 DEF ExplainedAs
  <2>5. QED
    BY <2>3, <2>4
<1>2. QED
  BY <1>1 DEF ExplainedOn, Before

\* When a command has touched files, everything there is explained by its receipt.
LEMMA BusyIsExplained ==
  ASSUME NoneAssumption, MigrationInv, pc \in Applying \cup Recovering
  PROVE  Receipt(op.point, op.tree) /\ ExplainedOn(op.point, op.tree, Actual(vault))
BY ApplyingIsExplained, ApplyingFacts, RecoveringFacts

\* The end of apply leaves the whole tree it was for.
LEMMA AppliedIsTree ==
  ASSUME NoneAssumption, MigrationInv, pc = "check"
  PROVE  op.tree \in {1, 2} /\ vault = TreeFiles(op.tree)
<1>1. pc \in Applying /\ Written = Tree(op.tree) /\ Gone = Old
  BY DEF Applying, Written, Gone
<1>2. /\ TypeInv /\ op.tree \in {1, 2} /\ op.actual = Actual(Before)
      /\ \A p \in Paths : vault[p] = IF p \in Tree(op.tree) THEN Emitted(op.tree)
                                     ELSE IF p \in Old THEN None ELSE Before[p]
  BY <1>1, ApplyingFacts
<1>3. ASSUME NEW p \in Paths
      PROVE  vault[p] = IF p \in Tree(op.tree) THEN Emitted(op.tree) ELSE None
  BY <1>2 DEF Old, Actual
<1>4. vault \in [Paths -> Content \cup {None}]
  BY <1>2 DEF TypeInv
<1>5. vault = [p \in Paths |-> IF p \in Tree(op.tree) THEN Emitted(op.tree) ELSE None]
  BY <1>3, <1>4
<1>6. QED
  BY <1>2, <1>5 DEF TreeFiles

\* Either command ends with a vault that is whole.
LEMMA FinishKeeps ==
  ASSUME NoneAssumption, MigrationInv, Finish
  PROVE  MigrationInv'
<1>1. pc \in {"check", "restored"} /\ pc' = "idle" /\ op' = Idle
      /\ UNCHANGED <<vault, inputs, points>> /\ TypeInv
  BY DEF Finish, MigrationInv
<1>2. TypeInv'
  BY <1>1, EndKeepsTypes DEF TypeInv
<1>3. WholeOn(vault, Actual(vault))
  <2>1. CASE pc = "check"
    BY <2>1, AppliedIsTree, TreesAreWhole
  <2>2. CASE pc = "restored"
    <3>1. pc \in Recovering
      BY <2>2 DEF Recovering
    <3>2. vault = Before /\ Receipt(op.point, op.tree)
      BY <2>2, <3>1 DEF MigrationInv, RecoverInv
    <3>3. QED
      BY <3>2, ReceiptsAreWhole DEF Before
  <2>3. QED
    BY <1>1, <2>1, <2>2
<1>4. WholeOn(vault, Untouched)
  BY <1>3 DEF WholeOn, Untouched
<1>5. WholeOn(vault, Untouched)'
  BY <1>1, <1>4 DEF Untouched
<1>6. QED
  BY <1>1, <1>2, <1>5, RestKeeps

\* A command that dies leaves its receipt, and at most a temporary beside explained files.
LEMMA CrashKeeps ==
  ASSUME NoneAssumption, MigrationInv, Crash
  PROVE  MigrationInv'
<1> DEFINE torn == [vault EXCEPT !["temp"] = [v |-> 0, touch |-> "temp"]]
<1>1. /\ pc # "idle" /\ pc' = "idle" /\ op' = Idle /\ UNCHANGED <<inputs, points>> /\ TypeInv
      /\ vault' = vault \/ (pc \in Applying \cup Recovering /\ vault' = torn)
  BY DEF Crash, MigrationInv, Applying, Recovering
<1>2. vault \in [Paths -> Content \cup {None}] /\ "temp" \in Paths
      /\ [v |-> 0, touch |-> "temp"] \in Content
  BY <1>1 DEF TypeInv, Paths, Content
<1>3. torn \in [Paths -> Content \cup {None}] /\ torn["temp"].touch = "temp"
      /\ \A p \in Paths \ {"temp"} : torn[p] = vault[p]
  BY <1>2
<1>4. vault' \in [Paths -> Content \cup {None}] /\ \A p \in Paths \ {"temp"} : vault'[p] = vault[p]
  BY <1>1, <1>2, <1>3
<1>5. Owners \subseteq Paths \ {"temp"}
  BY DEF Owners, Manifests, Paths
<1>6. TypeInv'
  <2>1. \A p \in Owners : vault'[p] # None => vault'[p].touch = "none"
    BY <1>1, <1>4, <1>5 DEF TypeInv
  <2>2. QED
    BY <1>1, <1>4, <2>1, EndKeepsTypes
<1>7. CASE pc \in {"copy", "receipt"}
  <2>1. vault' = vault
    BY <1>1, <1>7 DEF Applying, Recovering
  <2>2. WholeOn(vault, Untouched)
    BY <1>7 DEF MigrationInv, RestInv
  <2>3. WholeOn(vault, Untouched)'
    BY <2>1, <2>2 DEF Untouched
  <2>4. QED
    BY <1>1, <1>6, <2>3, RestKeeps
<1>8. CASE pc \in Applying \cup Recovering
  <2>1. Receipt(op.point, op.tree) /\ ExplainedOn(op.point, op.tree, Actual(vault))
    BY <1>8, BusyIsExplained
  <2>2. ASSUME NEW p \in Untouched'
        PROVE  p \in Actual(vault) /\ vault'[p] = vault[p]
    <3>1. p \in Paths /\ vault'[p] # None /\ vault'[p].touch \in {"none", "dress"}
      BY DEF Untouched, Actual
    <3>2. CASE vault' = vault
      BY <3>1, <3>2 DEF Actual
    <3>3. CASE vault' = torn
      <4>1. p # "temp"
        BY <1>3, <3>1, <3>3
      <4>2. QED
        BY <1>3, <3>1, <3>3, <4>1 DEF Actual
    <3>4. QED
      BY <1>1, <3>2, <3>3
  <2>3. /\ Untouched' \subseteq Actual(points[op.point].files) \cup Tree(op.tree)
        /\ \A p \in Untouched' : ExplainedAs(vault'[p], p, points[op.point].files[p], op.tree)
    BY <2>1, <2>2 DEF ExplainedOn
  <2>4. Recoverable'
    BY <1>1, <2>1, <2>3, ExplainedIsRecoverable
  <2>5. QED
    BY <1>1, <1>6, <2>4, RestKeeps
<1>9. QED
  BY <1>1, <1>7, <1>8 DEF TypeInv

\* A file that is saved in another layout, changed, added or moved away: what nobody made his own is
\* as it was, but for a managed file in another layout.
LEMMA OperatorKeepsWhole ==
  ASSUME WholeOn(vault, Untouched), \A m \in Owners : vault'[m] = vault[m],
         \A p \in Untouched' :
           /\ p \in Untouched
           /\ \/ vault'[p] = vault[p]
              \/ p \in Managed /\ vault'[p].v = vault[p].v /\ vault'[p].touch = "dress"
  PROVE  WholeOn(vault, Untouched)'
<1>1. WholeOn(vault', Untouched')
  BY WholeShrinks
<1>2. QED
  BY <1>1

\* The receipt that explained the files still does.
LEMMA OperatorKeepsRecoverable ==
  ASSUME NoneAssumption, Recoverable, points' = points,
         \A p \in Untouched' :
           /\ p \in Untouched
           /\ \/ vault'[p] = vault[p]
              \/ p \in Managed /\ vault'[p].v = vault[p].v /\ vault'[p].touch = "dress"
                 /\ vault[p].touch = "none"
  PROVE  Recoverable'
<1>1. PICK i \in DOMAIN points : \E v \in {1, 2} : Receipt(i, v) /\ ExplainedOn(i, v, Untouched)
  BY DEF Recoverable
<1>2. PICK v \in {1, 2} : Receipt(i, v) /\ ExplainedOn(i, v, Untouched)
  BY <1>1
<1>3. Emitted(v).v = v
  BY DEF Emitted
<1>4. ASSUME NEW p \in Untouched'
      PROVE  /\ p \in Actual(points[i].files) \cup Tree(v)
             /\ ExplainedAs(vault'[p], p, points[i].files[p], v)
  <2>1. /\ p \in Actual(points[i].files) \cup Tree(v) /\ vault[p] # None
        /\ ExplainedAs(vault[p], p, points[i].files[p], v)
    BY <1>2 DEF ExplainedOn, Untouched, Actual
  <2>2. CASE vault'[p] = vault[p]
    BY <2>1, <2>2
  <2>3. CASE p \in Managed /\ vault'[p].v = vault[p].v /\ vault'[p].touch = "dress"
    BY <1>3, <2>1, <2>3 DEF ExplainedAs, Intact
  <2>4. QED
    BY <2>1, <2>2, <2>3
<1>5. QED
  BY <1>2, <1>4, ExplainedIsRecoverable

\* An edit makes the file its author's own, or leaves its meaning, and touches no owner manifest.
LEMMA EditKeeps ==
  ASSUME NoneAssumption, MigrationInv, Edit
  PROVE  MigrationInv'
<1>1. pc \in {"idle", "copy"} /\ UNCHANGED <<inputs, points, pc, op>> /\ TypeInv /\ RestInv
  BY DEF Edit, MigrationInv
<1>2. PICK p \in Paths \ (Manifests \cup {"oldMan", "temp"}) :
        IF vault[p] = None THEN vault' = [vault EXCEPT ![p] = [v |-> 0, touch |-> "user"]]
        ELSE /\ vault[p].touch = "none"
             /\ \E how \in (IF p \in Managed THEN {"dress", "meaning"} ELSE {"meaning"}) :
                  vault' = [vault EXCEPT ![p].touch = how]
  BY DEF Edit
<1>3. vault \in [Paths -> Content \cup {None}] /\ p \in Paths /\ p \notin Owners
      /\ Owners \subseteq Paths
  BY <1>1 DEF TypeInv, Owners, Manifests, Paths
<1>4. /\ vault' \in [Paths -> Content \cup {None}]
      /\ \A q \in Paths \ {p} : vault'[q] = vault[q]
      /\ \/ vault'[p].touch \in {"user", "meaning"}
         \/ /\ p \in Managed /\ vault[p] # None /\ vault[p].touch = "none"
            /\ vault'[p].v = vault[p].v /\ vault'[p].touch = "dress"
  <2>1. CASE vault[p] = None
    <3>1. vault' = [vault EXCEPT ![p] = [v |-> 0, touch |-> "user"]]
      BY <1>2, <2>1
    <3>2. [v |-> 0, touch |-> "user"] \in Content
      BY DEF Content
    <3>3. QED
      BY <1>3, <3>1, <3>2
  <2>2. CASE vault[p] # None
    <3>1. PICK how \in (IF p \in Managed THEN {"dress", "meaning"} ELSE {"meaning"}) :
            vault' = [vault EXCEPT ![p].touch = how]
      BY <1>2, <2>2
    <3>2. vault[p].touch = "none" /\ vault[p] \in Content /\ how \in {"dress", "meaning"}
          /\ (how = "dress" => p \in Managed)
      BY <1>2, <1>3, <2>2, <3>1
    <3>3. [vault[p] EXCEPT !.touch = how] \in Content
          /\ [vault[p] EXCEPT !.touch = how].v = vault[p].v
          /\ [vault[p] EXCEPT !.touch = how].touch = how
      BY <3>2 DEF Content
    <3>4. vault' = [vault EXCEPT ![p] = [vault[p] EXCEPT !.touch = how]]
      BY <3>1
    <3>5. QED
      BY <1>3, <2>2, <3>2, <3>3, <3>4
  <2>3. QED
    BY <2>1, <2>2
<1>5. \A m \in Owners : vault'[m] = vault[m]
  BY <1>3, <1>4
<1>6. TypeInv'
  BY <1>1, <1>4, <1>5 DEF TypeInv
<1>7. ASSUME NEW q \in Untouched'
      PROVE  /\ q \in Untouched
             /\ \/ vault'[q] = vault[q]
                \/ q \in Managed /\ vault'[q].v = vault[q].v /\ vault'[q].touch = "dress"
                   /\ vault[q].touch = "none"
  <2>1. q \in Paths /\ vault'[q] # None /\ vault'[q].touch \in {"none", "dress"}
    BY DEF Untouched, Actual
  <2>2. QED
    BY <1>4, <2>1 DEF Untouched, Actual
<1>8. CASE pc = "idle"
  <2>1. WholeOn(vault, Untouched) \/ Recoverable
    BY <1>1, <1>8 DEF RestInv
  <2>2. WholeOn(vault, Untouched)' \/ Recoverable'
    BY <1>1, <1>5, <1>7, <2>1, OperatorKeepsWhole, OperatorKeepsRecoverable
  <2>3. QED
    BY <1>1, <1>6, <1>8, <2>2, RestKeeps
<1>9. CASE pc = "copy"
  <2>1. WholeOn(vault, Untouched) /\ op.tree \in {1, 2} /\ op.actual \subseteq Listed(vault)
        /\ PathsOf(Current(vault)) \subseteq Tree(op.tree) \cup Retired(op.tree)
    BY <1>1, <1>9 DEF RestInv
  <2>2. WholeOn(vault, Untouched)'
    BY <1>5, <1>7, <2>1, OperatorKeepsWhole
  <2>3. Current(vault') = Current(vault) /\ Listed(vault') = Listed(vault)
    BY <1>5, RowsOfOwners
  <2>4. /\ op'.tree \in {1, 2} /\ op'.actual \subseteq Listed(vault')
        /\ PathsOf(Current(vault')) \subseteq Tree(op'.tree) \cup Retired(op'.tree)
    BY <1>1, <2>1, <2>3
  <2>5. QED
    BY <1>1, <1>6, <1>9, <2>2, <2>4
    DEF MigrationInv, RestInv, ApplyInv, RecoverInv, Applying, Recovering
<1>10. QED
  BY <1>1, <1>8, <1>9

\* Only what somebody made his own is moved away.
LEMMA MoveAwayKeeps ==
  ASSUME NoneAssumption, MigrationInv, MoveAway
  PROVE  MigrationInv'
<1>1. pc = "idle" /\ UNCHANGED <<inputs, points, pc, op>> /\ TypeInv /\ RestInv
  BY DEF MoveAway, MigrationInv
<1>2. PICK p \in Actual(vault) : /\ vault[p].touch \in {"user", "meaning", "temp"}
                                 /\ vault' = [vault EXCEPT ![p] = None]
  BY DEF MoveAway
<1>3. vault \in [Paths -> Content \cup {None}] /\ p \in Paths /\ vault[p] # None
      /\ Owners \subseteq Paths
  BY <1>1 DEF TypeInv, Actual, Owners, Manifests, Paths
<1>4. vault' \in [Paths -> Content \cup {None}] /\ vault'[p] = None
      /\ \A q \in Paths \ {p} : vault'[q] = vault[q]
  BY <1>2, <1>3
<1>5. p \notin Owners
  BY <1>1, <1>2, <1>3 DEF TypeInv
<1>6. \A m \in Owners : vault'[m] = vault[m]
  BY <1>3, <1>4, <1>5
<1>7. TypeInv'
  BY <1>1, <1>4, <1>6 DEF TypeInv
<1>8. \A q \in Untouched' : q \in Untouched /\ vault'[q] = vault[q]
  BY <1>4 DEF Untouched, Actual
<1>9. WholeOn(vault, Untouched)' \/ Recoverable'
  BY <1>1, <1>6, <1>8, OperatorKeepsWhole, OperatorKeepsRecoverable DEF RestInv
<1>10. QED
  BY <1>1, <1>7, <1>9, RestKeeps

\* New inputs change nothing in the vault, and a receipt is for the inputs it was written for.
LEMMA InputsMoveKeeps ==
  ASSUME MigrationInv, InputsMove
  PROVE  MigrationInv'
<1>1. pc = "idle" /\ inputs' = 3 - inputs /\ UNCHANGED <<vault, points, pc, op>> /\ TypeInv /\ RestInv
  BY DEF InputsMove, MigrationInv
<1>2. inputs' \in {1, 2}
  BY <1>1 DEF TypeInv
<1>3. TypeInv'
  BY <1>1, <1>2 DEF TypeInv
<1>4. Untouched' = Untouched
  BY <1>1 DEF Untouched
<1>5. WholeOn(vault, Untouched)' \/ Recoverable'
  <2>1. CASE WholeOn(vault, Untouched)
    BY <1>1, <1>4, <2>1
  <2>2. CASE Recoverable
    <3>1. \A i, v : Receipt(i, v) => Receipt(i, v)'
      BY <1>1 DEF Receipt
    <3>2. \A i, v : ExplainedOn(i, v, Untouched) => ExplainedOn(i, v, Untouched)'
      BY <1>1, <1>4 DEF ExplainedOn
    <3>3. QED
      BY <1>1, <2>2, <3>1, <3>2 DEF Recoverable
  <2>3. QED
    BY <1>1, <2>1, <2>2 DEF RestInv
<1>6. QED
  BY <1>1, <1>3, <1>5, RestKeeps
-----------------------------------------------------------------------------
\* The rows of a tree are of its paths.
LEMMA RowsAreOfPaths ==
  ASSUME NEW files, NEW row \in Rows(files)
  PROVE  row[1] \in Paths
<1>1. CASE row \in Legacy(files)
  BY <1>1, LegacyRows DEF Paths
<1>2. CASE row \in Current(files)
  <2>1. PICK man \in Manifests : \E p \in OwnedBy(man, files[man].v) \cup {man} :
                                    row = <<p, files[man].v>>
    BY <1>2, CurrentRows
  <2>2. PICK p \in OwnedBy(man, files[man].v) \cup {man} : row = <<p, files[man].v>>
    BY <2>1
  <2>3. QED
    BY <2>1, <2>2, OwnedPaths DEF Paths
<1>3. QED
  BY <1>1, <1>2 DEF Rows

\* Until its receipt is written, apply leaves the vault alone.
LEMMA VaultStaysUntilTheReceipt ==
  ASSUME Next, pc = "receipt"
  PROVE  vault' = vault
<1>1. CASE Apply
  BY <1>1 DEF Apply, Preflight, CreateRestorePoint, WriteReceipt, WriteFiles, VerifyReplacements,
              Retire, WriteManifests, Finish, Each
<1>2. CASE Recover \/ Undo \/ Remove \/ UndoManifests
  BY <1>2 DEF Recover, Undo, Remove, UndoManifests, Each
<1>3. CASE Crash \/ Edit \/ MoveAway \/ InputsMove
  BY <1>3 DEF Crash, Edit, MoveAway, InputsMove
<1>4. QED
  BY <1>1, <1>2, <1>3 DEF Next
-----------------------------------------------------------------------------
\* Every step keeps the invariant.
LEMMA Steps ==
  ASSUME NoneAssumption, MigrationInv, [Next]_vars
  PROVE  MigrationInv'
<1>1. CASE UNCHANGED vars
  <2>1. UNCHANGED <<vault, inputs, points, pc, op>>
    BY <1>1 DEF vars
  <2>2. TypeInv'
    BY <2>1 DEF MigrationInv, TypeInv
  <2>3. RestInv'
    <3>1. Untouched' = Untouched
      BY <2>1 DEF Untouched
    <3>2. Recoverable => Recoverable'
      BY <2>1, <3>1 DEF Recoverable, Receipt, ExplainedOn
    <3>3. QED
      BY <2>1, <3>1, <3>2 DEF MigrationInv, RestInv
  <2>4. ApplyInv'
    BY <2>1 DEF MigrationInv, ApplyInv, Receipt, Before, Written, Gone, New, Old
  <2>5. RecoverInv'
    BY <2>1 DEF MigrationInv, RecoverInv, Receipt, Before, ExplainedOn
  <2>6. QED
    BY <2>2, <2>3, <2>4, <2>5 DEF MigrationInv
<1>2. CASE Apply
  BY <1>2, PreflightKeeps, CreateRestorePointKeeps, WriteReceiptKeeps, WriteFilesKeeps,
     VerifyReplacementsKeeps, RetireKeeps, WriteManifestsKeeps, FinishKeeps DEF Apply
<1>3. CASE Recover \/ Undo \/ Remove \/ UndoManifests
  BY <1>3, RecoverKeeps, UndoKeeps, RemoveKeeps, UndoManifestsKeeps
<1>4. CASE Crash \/ Edit \/ MoveAway \/ InputsMove
  BY <1>4, CrashKeeps, EditKeeps, MoveAwayKeeps, InputsMoveKeeps
<1>5. QED
  BY <1>1, <1>2, <1>3, <1>4 DEF Next

\* The invariant holds in every state of every behaviour.
LEMMA Invariance ==
  ASSUME NoneAssumption
  PROVE  Spec => []MigrationInv
<1>1. Init => MigrationInv
  BY Initially
<1>2. MigrationInv /\ [Next]_vars => MigrationInv'
  BY Steps
<1>3. QED
  BY <1>1, <1>2, PTL DEF Spec

\* The contents of the vault, the restore points and the running command of apply and recover are of
\* their kinds, and an owner manifest is never one that somebody edited.
THEOREM VaultMigrationTypeCorrect ==
  ASSUME NoneAssumption
  PROVE  Spec => []TypeOK
<1>1. MigrationInv => TypeOK
  <2> SUFFICES ASSUME MigrationInv PROVE TypeOK
    OBVIOUS
  <2>1. TypeInv
    BY DEF MigrationInv
  <2>2. /\ vault \in [Paths -> Content \cup {None}] /\ inputs \in {1, 2}
        /\ points \in Seq([files : [Paths -> Content \cup {None}], plan : {None, 1, 2}])
        /\ pc \in {"idle", "copy", "receipt", "write", "verify", "retire", "manifests", "check",
                   "undo", "remove", "undoManifests", "restored"}
        /\ op \in [tree : 0..2, point : 0..Len(points), actual : SUBSET Paths, todo : SUBSET Paths]
    BY <2>1 DEF TypeInv, Applying, Recovering
  <2>4. ASSUME NEW i \in DOMAIN points
        PROVE  points[i].files \in [Paths -> Content \cup {None}] /\ points[i].plan \in {None, 1, 2}
    <3>1. points[i] \in [files : [Paths -> Content \cup {None}], plan : {None, 1, 2}]
      BY <2>2, ElementsOfSequences
    <3>2. QED
      BY <3>1
  <2>5. op.tree \in 0..2 /\ op.point \in 0..Len(points) /\ op.actual \cup op.todo \subseteq Paths
    BY <2>2
  <2>6. \A p \in Manifests : vault[p] # None => vault[p].touch = "none"
    BY <2>1 DEF TypeInv, Owners
  <2>7. QED
    BY <2>2, <2>4, <2>5, <2>6 DEF TypeOK
<1>2. QED
  BY <1>1, Invariance, PTL

\* When apply comes to its last inventory the vault is exactly the tree it was for, and when recover
\* does it is exactly the restore point: whatever was written, retired or put back, in any order.
THEOREM LastCheckAlwaysHolds ==
  ASSUME NoneAssumption
  PROVE  Spec => []LastCheckHolds
<1>1. MigrationInv => LastCheckHolds
  <2> SUFFICES ASSUME MigrationInv PROVE LastCheckHolds
    OBVIOUS
  <2>1. pc = "check" => vault = TreeFiles(op.tree)
    BY AppliedIsTree
  <2>2. pc = "restored" => vault = Before
    BY DEF MigrationInv, RecoverInv, Recovering
  <2>3. QED
    BY <2>1, <2>2 DEF LastCheckHolds
<1>2. QED
  BY <1>1, Invariance, PTL

\* However often apply and recover died, and whatever was edited and moved out of the way between
\* them, a vault in which no operator made a file his own is listed as it is, or some receipt is
\* accepted by recover at the inputs it was written for.
THEOREM InterruptedMigrationsRecover ==
  ASSUME NoneAssumption
  PROVE  Spec => []WholeOrRecoverable
<1>1. MigrationInv => WholeOrRecoverable
  <2> SUFFICES ASSUME MigrationInv, pc = "idle",
                      \A p \in Actual(vault) : vault[p].touch \in {"none", "dress"}
               PROVE  \/ Actual(vault) \subseteq Listed(vault) /\ Proven(vault, Rows(vault))
                      \/ \E i \in DOMAIN points : /\ points[i].plan # None
                                                  /\ RecoverAccepts(i, points[i].plan)
    BY DEF WholeOrRecoverable, Rows, Listed
  <2>1. Untouched = Actual(vault)
    BY DEF Untouched
  <2>2. WholeOn(vault, Actual(vault)) \/ Recoverable
    BY <2>1 DEF MigrationInv, RestInv
  <2>3. CASE WholeOn(vault, Actual(vault))
    <3>1. ASSUME NEW row \in Rows(vault), vault[row[1]] # None
          PROVE  row[1] \in Actual(vault)
      <4>1. row[1] \in Paths
        BY RowsAreOfPaths
      <4>2. QED
        BY <3>1, <4>1 DEF Actual
    <3>2. QED
      BY <2>3, <3>1 DEF WholeOn, Proven
  <2>4. CASE Recoverable
    <3>1. PICK i \in DOMAIN points :
            \E v \in {1, 2} : Receipt(i, v) /\ ExplainedOn(i, v, Actual(vault))
      BY <2>1, <2>4 DEF Recoverable
    <3>2. PICK v \in {1, 2} : Receipt(i, v) /\ ExplainedOn(i, v, Actual(vault))
      BY <3>1
    <3>3. points[i].plan = v /\ v # None
      BY <3>2 DEF Receipt, NoneAssumption
    <3>4. ASSUME NEW p \in Actual(vault)
          PROVE  Explained(p, points[i].files[p], v) = TRUE
      BY <3>2 DEF ExplainedOn, ExplainedAs, Explained
    <3>5. RecoverAccepts(i, v)
      BY <3>2, <3>4 DEF RecoverAccepts, Receipt, ExplainedOn, Rows, Listed
    <3>6. QED
      BY <3>3, <3>5
  <2>5. QED
    BY <2>2, <2>3, <2>4
<1>2. QED
  BY <1>1, Invariance, PTL

\* While a command runs, it changes and deletes nothing that an operator made or gave another meaning;
\* what apply replaces of a file saved in another layout, its restore point has.
THEOREM EditsOutliveEveryMigration ==
  ASSUME NoneAssumption
  PROVE  Spec => [][EditsOutliveMigration]_vars
<1>1. ASSUME MigrationInv, Next
      PROVE  EditsOutliveMigration
  <2> SUFFICES ASSUME NEW p \in Actual(vault), pc # "idle", vault'[p] # vault[p]
               PROVE  /\ vault[p].touch \in {"none", "dress"} \/ pc = "copy"
                      /\ (vault[p].touch = "dress" /\ pc \in {"write", "retire"})
                           => points[op.point].files[p] = vault[p]
    BY DEF EditsOutliveMigration
  <2>1. p \in Paths /\ vault[p] # None
    BY DEF Actual
  <2>2. CASE pc \in Applying \cup Recovering
    <3>1. p \in Untouched
      <4>1. Receipt(op.point, op.tree) /\ ExplainedOn(op.point, op.tree, Actual(vault))
        BY <1>1, <2>2, BusyIsExplained
      <4>2. p \in Actual(vault) \cap Actual(vault)
        OBVIOUS
      <4>3. QED
        BY <4>1, <4>2, ExplainedIsUntouched
    <3>2. ASSUME pc \in {"write", "retire"}, vault[p].touch = "dress"
          PROVE  points[op.point].files[p] = vault[p]
      <4>1. pc \in Applying
        BY <3>2 DEF Applying
      <4>2. vault[p] = Before[p]
        <5>1. /\ vault[p] = IF p \in Written THEN Emitted(op.tree)
                             ELSE IF p \in Gone THEN None ELSE Before[p]
              /\ Emitted(op.tree).touch = "none"
          BY <1>1, <2>1, <4>1, ApplyingFacts
        <5>2. vault[p] # Emitted(op.tree)
          BY <3>2, <5>1
        <5>3. QED
          BY <2>1, <5>1, <5>2
      <4>3. QED
        BY <4>2 DEF Before
    <3>3. QED
      BY <3>1, <3>2 DEF Untouched
  <2>3. CASE pc \in {"copy", "receipt"}
    <3>1. pc = "receipt" => vault' = vault
      BY <1>1, VaultStaysUntilTheReceipt
    <3>2. QED
      BY <2>3, <3>1
  <2>4. QED
    BY <1>1, <2>2, <2>3 DEF MigrationInv, TypeInv
<1>2. MigrationInv /\ [Next]_vars => [EditsOutliveMigration]_vars
  BY <1>1
<1>3. QED
  BY <1>2, Invariance, PTL DEF Spec

-----------------------------------------------------------------------------
(* ZoteroHistory.                                                           *)

Zotero == INSTANCE ZoteroHistory WITH
  files <- zfiles, index <- zindex, manifest <- zmanifest, todo <- ztodo, tree <- ztree,
  crashes <- zcrashes, losses <- zlosses, MaxCrashes <- ZCrashes, MaxLosses <- ZLosses

ZPayload == [pred : Zotero!Versions \cup {None}, note : Notes, rev : 1..MaxRevision]
ZTrees == [Zotero!Versions -> ZPayload \cup {None}]

ZoteroTypes ==
  /\ Zotero!TypeOK /\ export \in Zotero!ParseFixture
  /\ zmanifest \in {None} \cup [owned : ZTrees, current : SUBSET Zotero!Versions]
  /\ ztree \in {None} \cup ZTrees
  /\ zcrashes \in Nat /\ zlosses \in Nat

\* What a running projection is going to list: it keeps every listed version with its predecessor, rewrites only
\* current ones whose notes changed, and a version it adds follows a listed one or none.
TreeKeepsHistory ==
  /\ \A v \in Zotero!Listed :
       /\ ztree[v] # None /\ ztree[v].pred = zmanifest.owned[v].pred
       /\ v \notin Zotero!PriorCurrent => ztree[v] = zmanifest.owned[v]
       /\ ztree[v].note = zmanifest.owned[v].note => ztree[v] = zmanifest.owned[v]
  /\ \A v \in Zotero!Versions \ Zotero!Listed :
       ztree[v] # None => ztree[v].pred \in Zotero!Listed \cup {None}
  /\ \A v \in Zotero!Current : ztree[v] # None

ProjectionInv ==
  ztree # None =>
    /\ TreeKeepsHistory
    /\ \A v \in Zotero!Versions \ ztodo : zfiles[v] = ztree[v]

ZoteroInv == ZoteroTypes /\ ProjectionInv /\ Zotero!LineageEnds /\ Zotero!ManifestIsLast

LEMMA NoneIsApart ==
  ASSUME Zotero!NoneAssumption
  PROVE  /\ None \notin Labels /\ None \notin Zotero!Versions /\ None \notin ZPayload /\ None \notin Zotero!Items
         /\ None \notin ZTrees /\ None \notin [owned : ZTrees, current : SUBSET Zotero!Versions]
BY DEF Zotero!NoneAssumption, Zotero!Versions, ZPayload, Zotero!Items, ZTrees

LEMMA ZoteroInit ==
  ASSUME Zotero!ZoteroAssumption, Zotero!Init
  PROVE  ZoteroInv
<1>1. ZoteroTypes
  BY DEF Zotero!Init, ZoteroTypes, Zotero!TypeOK, Zotero!ParseFixture, Zotero!Payloads, Zotero!ZoteroAssumption
<1>2. ProjectionInv /\ Zotero!LineageEnds /\ Zotero!ManifestIsLast
  BY DEF Zotero!Init, ProjectionInv, Zotero!LineageEnds, Zotero!ManifestIsLast, Zotero!Listed
<1> QED
  BY <1>1, <1>2 DEF ZoteroInv

\* The payload of an exported version.
LEMMA RecordOfExported ==
  ASSUME Zotero!NoneAssumption, Zotero!ZoteroAssumption, ZoteroTypes, NEW v \in Zotero!Current
  PROVE  LET item == export[v[1]]
             pred == IF item.pred = None THEN None ELSE <<v[1], item.pred>>
             new == Zotero!RecordFor(v)
         IN  /\ v \in Zotero!Versions /\ new \in ZPayload
             /\ zfiles[v] = None => new.pred = pred
             /\ zfiles[v] # None =>
                  /\ new.pred = zfiles[v].pred
                  /\ new.note = zfiles[v].note => new = zfiles[v]
<1> DEFINE item == export[v[1]]
           pred == IF item.pred = None THEN None ELSE <<v[1], item.pred>>
           new == Zotero!RecordFor(v)
<1>1. PICK f \in Families : export[f] # None /\ v = <<f, export[f].label>>
  BY DEF Zotero!Current
<1>2. v[1] = f /\ item \in Zotero!Items
  BY <1>1 DEF ZoteroTypes, Zotero!ParseFixture, Zotero!Exports
<1>3. v \in Zotero!Versions /\ pred \in Zotero!Versions \cup {None} /\ item.note \in Notes
  BY <1>1, <1>2 DEF Zotero!Items, Zotero!Versions
<1>4. zfiles[v] \in ZPayload \cup {None} /\ revision \in 1..MaxRevision
  BY <1>3 DEF ZoteroTypes, Zotero!TypeOK, Zotero!Payloads, ZPayload
<1>5. CASE zfiles[v] = None
  <2>1. new = [pred |-> pred, note |-> item.note, rev |-> revision]
    BY <1>5 DEF Zotero!RecordFor
  <2> QED
    BY <1>3, <1>4, <1>5, <2>1 DEF ZPayload
<1>6. CASE zfiles[v] # None
  <2>1. new = [pred |-> zfiles[v].pred, note |-> item.note,
               rev |-> IF zfiles[v].note = item.note THEN zfiles[v].rev ELSE revision]
    BY <1>6 DEF Zotero!RecordFor
  <2>2. zfiles[v] \in ZPayload
    BY <1>4, <1>6
  <2>3. zfiles[v] = [pred |-> zfiles[v].pred, note |-> zfiles[v].note, rev |-> zfiles[v].rev]
    BY <2>2 DEF ZPayload
  <2> QED
    BY <1>3, <1>4, <1>6, <2>1, <2>2, <2>3 DEF ZPayload
<1> QED
  BY <1>3, <1>5, <1>6

\* A projection that was let through keeps what is listed.
LEMMA ProjectKeepsHistory ==
  ASSUME Zotero!NoneAssumption, Zotero!ZoteroAssumption, ZoteroTypes, Zotero!Reconstructible
  PROVE  LET new == Zotero!Records IN
         /\ new \in ZTrees
         /\ \A v \in Zotero!Listed :
              /\ new[v] # None /\ new[v].pred = zmanifest.owned[v].pred
              /\ v \notin Zotero!PriorCurrent => new[v] = zmanifest.owned[v]
              /\ new[v].note = zmanifest.owned[v].note => new[v] = zmanifest.owned[v]
         /\ \A v \in Zotero!Versions \ Zotero!Listed :
              new[v] # None => new[v].pred \in Zotero!Listed \cup {None}
         /\ \A v \in Zotero!Current : new[v] # None
<1> DEFINE new == Zotero!Records
<1>1. zfiles \in [Zotero!Versions -> ZPayload \cup {None}]
  BY DEF ZoteroTypes, Zotero!TypeOK, Zotero!Payloads, ZPayload
<1>2. \A v \in Zotero!Versions : new[v] = IF v \in Zotero!Current THEN Zotero!RecordFor(v) ELSE zfiles[v]
  BY DEF Zotero!Records
<1>3. /\ \A v \in Zotero!Versions : zfiles[v] # None => v \in Zotero!Listed /\ zfiles[v] = zmanifest.owned[v]
      /\ \A v \in Zotero!Listed : zfiles[v] = None => v \in Zotero!Current
      /\ \A v \in Zotero!Current : Zotero!Admissible(v)
  BY DEF Zotero!Reconstructible, Zotero!Present, Zotero!Listed
<1>4. \A v \in Zotero!Current : v \in Zotero!Versions /\ Zotero!RecordFor(v) \in ZPayload
  BY RecordOfExported
<1>5. new \in ZTrees
  BY <1>1, <1>4 DEF Zotero!Records, ZTrees
<1>6. ASSUME NEW v \in Zotero!Listed
      PROVE  /\ new[v] # None /\ new[v].pred = zmanifest.owned[v].pred
             /\ v \notin Zotero!PriorCurrent => new[v] = zmanifest.owned[v]
             /\ new[v].note = zmanifest.owned[v].note => new[v] = zmanifest.owned[v]
  <2>1. v \in Zotero!Versions
    BY DEF Zotero!Listed
  <2>2. CASE v \notin Zotero!Current
    <3>1. zfiles[v] # None /\ new[v] = zfiles[v]
      BY <2>1, <2>2, <1>2, <1>3
    <3> QED
      BY <2>1, <3>1, <1>3
  <2>3. CASE v \in Zotero!Current /\ zfiles[v] = None
    <3>1. new[v] = Zotero!RecordFor(v) /\ new[v] # None
      BY <2>1, <2>3, <1>2, <1>4, NoneIsApart
    <3>2. Zotero!RecordFor(v) = zmanifest.owned[v]
      BY <2>3, <1>3 DEF Zotero!Admissible
    <3> QED
      BY <3>1, <3>2
  <2>4. CASE v \in Zotero!Current /\ zfiles[v] # None
    <3>1. new[v] = Zotero!RecordFor(v) /\ new[v] # None /\ zfiles[v] = zmanifest.owned[v]
      BY <2>1, <2>4, <1>2, <1>3, <1>4, NoneIsApart
    <3>2. v \notin Zotero!PriorCurrent => Zotero!RecordFor(v) = zfiles[v]
      BY <2>4, <1>3 DEF Zotero!Admissible
    <3>3. /\ Zotero!RecordFor(v).pred = zfiles[v].pred
          /\ Zotero!RecordFor(v).note = zfiles[v].note => Zotero!RecordFor(v) = zfiles[v]
      BY <2>4, RecordOfExported
    <3> QED
      BY <3>1, <3>2, <3>3
  <2> QED
    BY <2>2, <2>3, <2>4
<1>7. ASSUME NEW v \in Zotero!Versions \ Zotero!Listed, new[v] # None
      PROVE  new[v].pred \in Zotero!Listed \cup {None}
  <2>1. zfiles[v] = None /\ v \in Zotero!Current /\ new[v] = Zotero!RecordFor(v)
    BY <1>2, <1>3, <1>7
  <2> DEFINE item == export[v[1]]
             pred == IF item.pred = None THEN None ELSE <<v[1], item.pred>>
  <2>2. new[v].pred = pred
    BY <2>1, RecordOfExported
  <2>3. pred # None => pred \in Zotero!Present
    BY <2>1, <1>3 DEF Zotero!Admissible
  <2>4. Zotero!Present \subseteq Zotero!Listed
    BY DEF Zotero!Reconstructible
  <2> QED
    BY <2>2, <2>3, <2>4
<1>8. \A v \in Zotero!Current : new[v] # None
  BY <1>2, <1>4, NoneIsApart
<1> QED
  BY <1>5, <1>6, <1>7, <1>8

\* Publishing what a projection wrote: the list grows, keeps its predecessors and ends where it did.
LEMMA PublishedHistory ==
  ASSUME Zotero!NoneAssumption, ZoteroInv, Zotero!WriteManifest
  PROVE  /\ ZoteroTypes' /\ Zotero!LineageEnds' /\ Zotero!ManifestIsLast'
         /\ Zotero!Listed' = {v \in Zotero!Versions : ztree[v] # None} /\ zmanifest'.owned = ztree
         /\ Zotero!Listed \subseteq Zotero!Listed'
<1>1. /\ ztree # None /\ ztodo = {} /\ zmanifest' = Zotero!Built /\ ztree' = None
      /\ UNCHANGED <<export, revision, zfiles, zindex, ztodo, zcrashes, zlosses>>
  BY DEF Zotero!WriteManifest
<1>2. /\ ztree \in ZTrees /\ TreeKeepsHistory /\ \A v \in Zotero!Versions : zfiles[v] = ztree[v]
      /\ ZoteroTypes /\ Zotero!LineageEnds
  BY <1>1 DEF ZoteroInv, ZoteroTypes, ProjectionInv
<1>3. \A v \in Zotero!Current : v \in Zotero!Versions
  BY <1>2 DEF Zotero!Current, Zotero!Versions, Zotero!Items, ZoteroTypes, Zotero!ParseFixture, Zotero!Exports
<1>4. /\ zmanifest' \in [owned : ZTrees, current : SUBSET Zotero!Versions] /\ zmanifest' # None
      /\ zmanifest'.owned = ztree /\ zmanifest'.current = Zotero!Current
  BY <1>1, <1>2, <1>3, NoneIsApart DEF Zotero!Built
<1>5. Zotero!Listed' = {v \in Zotero!Versions : ztree[v] # None}
  BY <1>4 DEF Zotero!Listed
<1>6. Zotero!Listed \subseteq Zotero!Listed' /\ zmanifest'.current \subseteq Zotero!Listed'
  BY <1>2, <1>3, <1>4, <1>5 DEF TreeKeepsHistory, Zotero!Listed
<1>7. ZoteroTypes'
  BY <1>1, <1>2, <1>4, <1>6 DEF ZoteroTypes, Zotero!TypeOK, Zotero!Payloads, ZPayload, ZTrees,
                               Zotero!ParseFixture, Zotero!Exports
<1>8. ASSUME NEW v \in Zotero!Listed' PROVE ztree[v].pred \in Zotero!Listed \cup {None}
  <2>1. CASE v \in Zotero!Listed
    BY <2>1, <1>2 DEF TreeKeepsHistory, Zotero!LineageEnds
  <2>2. CASE v \notin Zotero!Listed
    BY <2>2, <1>2, <1>5 DEF TreeKeepsHistory
  <2> QED
    BY <2>1, <2>2
<1>9. ASSUME NEW ring \in (SUBSET Zotero!Listed') \ {{}}
      PROVE  \E v \in ring : ztree[v].pred \notin ring
  <2> DEFINE old == ring \cap Zotero!Listed
  <2>1. CASE old = {}
    <3>1. PICK v \in ring : TRUE
      BY <1>9
    <3>2. ztree[v].pred \notin ring
      BY <2>1, <1>8, <1>5, NoneIsApart
    <3> QED
      BY <3>1, <3>2
  <2>2. CASE old # {}
    <3>1. PICK v \in old : zmanifest.owned[v].pred \notin old
      <4>1. old \in (SUBSET Zotero!Listed) \ {{}}
        BY <2>2
      <4> QED
        BY <4>1, <1>2 DEF Zotero!LineageEnds
    <3>2. ztree[v].pred = zmanifest.owned[v].pred /\ zmanifest.owned[v].pred \in Zotero!Listed \cup {None}
      BY <3>1, <1>2 DEF TreeKeepsHistory, Zotero!LineageEnds
    <3>3. None \notin ring
      BY <1>5, NoneIsApart
    <3> QED
      BY <3>1, <3>2, <3>3
  <2> QED
    BY <2>1, <2>2
<1>10. Zotero!LineageEnds'
  BY <1>4, <1>6, <1>8, <1>9 DEF Zotero!LineageEnds
<1>11. Zotero!ManifestIsLast'
  BY <1>1, <1>2, <1>4, <1>5 DEF Zotero!ManifestIsLast
<1> QED
  BY <1>4, <1>5, <1>6, <1>7, <1>10, <1>11

\* What a step may do to the list: nothing, or publish what a projection wrote.
HistoryStep ==
  \/ UNCHANGED zmanifest
  \/ Zotero!WriteManifest

LEMMA ZoteroStep ==
  ASSUME Zotero!NoneAssumption, Zotero!ZoteroAssumption, ZoteroInv, [Zotero!Next]_Zotero!vars
  PROVE  ZoteroInv' /\ HistoryStep
<1>1. ZoteroTypes /\ ProjectionInv /\ Zotero!LineageEnds /\ Zotero!ManifestIsLast
  BY DEF ZoteroInv
<1> USE DEF HistoryStep
<1>2. ASSUME UNCHANGED zmanifest PROVE Zotero!LineageEnds' /\ Zotero!Listed' = Zotero!Listed /\ Zotero!PriorCurrent' = Zotero!PriorCurrent
  BY <1>1, <1>2 DEF Zotero!LineageEnds, Zotero!Listed, Zotero!PriorCurrent
<1>3. ASSUME UNCHANGED <<zmanifest, export, ztree>> PROVE ztree # None /\ TreeKeepsHistory => TreeKeepsHistory'
  BY <1>3 DEF TreeKeepsHistory, Zotero!Listed, Zotero!PriorCurrent, Zotero!Current
<1>4. ASSUME UNCHANGED Zotero!vars PROVE ZoteroInv' /\ HistoryStep
  <2>1. UNCHANGED <<export, revision, zfiles, zindex, zmanifest, ztodo, ztree, zcrashes, zlosses>>
    BY <1>4 DEF Zotero!vars
  <2>2. ZoteroTypes'
    BY <2>1, <1>1 DEF ZoteroTypes, Zotero!TypeOK, Zotero!Listed, Zotero!ParseFixture
  <2>3. ProjectionInv' /\ Zotero!ManifestIsLast'
    BY <2>1, <1>1, <1>2, <1>3 DEF ProjectionInv, Zotero!ManifestIsLast
  <2> QED
    BY <2>1, <2>2, <2>3, <1>2 DEF ZoteroInv
<1>5. ASSUME Zotero!Project PROVE ZoteroInv' /\ HistoryStep
  <2>1. /\ ztree = None /\ Zotero!Reconstructible /\ ztree' = Zotero!Records
        /\ ztodo' = {v \in Zotero!Versions : Zotero!Records[v] # zfiles[v]}
        /\ UNCHANGED <<export, revision, zfiles, zindex, zmanifest, zcrashes, zlosses>>
    BY <1>5 DEF Zotero!Project
  <2>2. ztree' \in ZTrees /\ ztree' # None
    BY <2>1, <1>1, ProjectKeepsHistory, NoneIsApart
  <2>3. TreeKeepsHistory'
    <3>1. Zotero!Listed' = Zotero!Listed /\ Zotero!PriorCurrent' = Zotero!PriorCurrent
          /\ Zotero!Current' = Zotero!Current /\ zmanifest' = zmanifest
      BY <2>1, <1>2 DEF Zotero!Current
    <3> HIDE DEF TreeKeepsHistory
    <3>2. /\ \A v \in Zotero!Listed :
               /\ ztree'[v] # None /\ ztree'[v].pred = zmanifest.owned[v].pred
               /\ v \notin Zotero!PriorCurrent => ztree'[v] = zmanifest.owned[v]
               /\ ztree'[v].note = zmanifest.owned[v].note => ztree'[v] = zmanifest.owned[v]
          /\ \A v \in Zotero!Versions \ Zotero!Listed :
               ztree'[v] # None => ztree'[v].pred \in Zotero!Listed \cup {None}
          /\ \A v \in Zotero!Current : ztree'[v] # None
      BY <2>1, <1>1, ProjectKeepsHistory
    <3> QED
      BY <3>1, <3>2 DEF TreeKeepsHistory
  <2>4. ZoteroTypes'
    BY <2>1, <2>2, <1>1, <1>2 DEF ZoteroTypes, Zotero!TypeOK, Zotero!Payloads, ZPayload, ZTrees,
                                  Zotero!ParseFixture, Zotero!Exports
  <2>5. ProjectionInv' /\ Zotero!ManifestIsLast'
    BY <2>1, <2>2, <2>3, <1>1, <1>2 DEF ProjectionInv, Zotero!ManifestIsLast
  <2> QED
    BY <2>1, <2>4, <2>5, <1>2 DEF ZoteroInv
<1>6. ASSUME Zotero!WriteIndex PROVE ZoteroInv' /\ HistoryStep
  <2>1. UNCHANGED <<export, revision, zfiles, zmanifest, ztodo, ztree, zcrashes, zlosses>>
    BY <1>6 DEF Zotero!WriteIndex
  <2>2. ZoteroTypes'
    BY <2>1, <1>1 DEF ZoteroTypes, Zotero!TypeOK, Zotero!Listed, Zotero!ParseFixture
  <2>3. ProjectionInv' /\ Zotero!ManifestIsLast'
    BY <2>1, <1>1, <1>2, <1>3 DEF ProjectionInv, Zotero!ManifestIsLast
  <2> QED
    BY <2>1, <2>2, <2>3, <1>2 DEF ZoteroInv
<1>7. ASSUME Zotero!WritePayload PROVE ZoteroInv' /\ HistoryStep
  <2>1. /\ ztree # None /\ UNCHANGED <<export, revision, zindex, zmanifest, ztree, zcrashes, zlosses>>
    BY <1>7 DEF Zotero!WritePayload
  <2>2. PICK v \in ztodo : zfiles' = [zfiles EXCEPT ![v] = ztree[v]] /\ ztodo' = ztodo \ {v}
    BY <1>7 DEF Zotero!WritePayload
  <2>3. ztree \in ZTrees /\ v \in Zotero!Versions /\ zfiles \in [Zotero!Versions -> ZPayload \cup {None}]
    BY <2>1, <1>1 DEF ZoteroTypes, Zotero!TypeOK, Zotero!Payloads, ZPayload
  <2>4. /\ zfiles' \in [Zotero!Versions -> ZPayload \cup {None}] /\ zfiles'[v] = ztree[v]
        /\ \A w \in Zotero!Versions \ {v} : zfiles'[w] = zfiles[w]
    BY <2>2, <2>3 DEF ZTrees
  <2>5. ZoteroTypes'
    BY <2>1, <2>2, <2>4, <1>1, <1>2 DEF ZoteroTypes, Zotero!TypeOK, Zotero!Payloads, ZPayload, Zotero!ParseFixture,
                                        Zotero!Exports
  <2>6. ProjectionInv'
    BY <2>1, <2>2, <2>4, <1>1, <1>3 DEF ProjectionInv
  <2>7. Zotero!ManifestIsLast'
    <3>1. \A w \in Zotero!Listed : w \in Zotero!Versions
      BY DEF Zotero!Listed
    <3>2. TreeKeepsHistory
      BY <2>1, <1>1 DEF ProjectionInv
    <3> QED
      BY <2>1, <2>4, <3>1, <3>2, <1>1, <1>2 DEF Zotero!ManifestIsLast, TreeKeepsHistory
  <2> QED
    BY <2>1, <2>5, <2>6, <2>7, <1>2 DEF ZoteroInv
<1>8. ASSUME Zotero!WriteManifest PROVE ZoteroInv' /\ HistoryStep
  <2>1. ztree' = None
    BY <1>8 DEF Zotero!WriteManifest
  <2> QED
    BY <2>1, <1>8, PublishedHistory DEF ZoteroInv, ProjectionInv
<1>9. ASSUME Zotero!Crash PROVE ZoteroInv' /\ HistoryStep
  <2>1. /\ ztree' = None /\ ztodo' = {} /\ zcrashes' = zcrashes + 1
        /\ UNCHANGED <<export, revision, zfiles, zindex, zmanifest, zlosses>>
    BY <1>9 DEF Zotero!Crash
  <2>2. ZoteroTypes'
    BY <2>1, <1>1, <1>2 DEF ZoteroTypes, Zotero!TypeOK, Zotero!ParseFixture, Zotero!Exports
  <2>3. Zotero!ManifestIsLast'
    BY <2>1, <1>1, <1>2 DEF Zotero!ManifestIsLast, ZoteroTypes
  <2> QED
    BY <2>1, <2>2, <2>3, <1>2 DEF ZoteroInv, ProjectionInv
<1>10. ASSUME Zotero!Export PROVE ZoteroInv' /\ HistoryStep
  <2>1. /\ ztree = None /\ export' \in Zotero!ParseFixture /\ revision' = revision + 1 /\ revision < MaxRevision
        /\ UNCHANGED <<zfiles, zindex, zmanifest, ztodo, ztree, zcrashes, zlosses>>
    BY <1>10 DEF Zotero!Export
  <2>2. revision' \in 1..MaxRevision
    BY <2>1, <1>1 DEF ZoteroTypes, Zotero!TypeOK, Zotero!ZoteroAssumption
  <2>3. ZoteroTypes'
    BY <2>1, <2>2, <1>1, <1>2 DEF ZoteroTypes, Zotero!TypeOK, Zotero!ParseFixture
  <2>4. Zotero!ManifestIsLast'
    BY <2>1, <1>1, <1>2 DEF Zotero!ManifestIsLast
  <2> QED
    BY <2>1, <2>3, <2>4, <1>2 DEF ZoteroInv, ProjectionInv
<1>11. ASSUME Zotero!MoveOut PROVE ZoteroInv' /\ HistoryStep
  <2>1. ztree = None /\ UNCHANGED <<export, revision, zindex, zmanifest, ztodo, ztree, zcrashes, zlosses>>
    BY <1>11 DEF Zotero!MoveOut
  <2>2. PICK v \in Zotero!Present \ Zotero!Listed : zfiles' = [zfiles EXCEPT ![v] = None]
    BY <1>11 DEF Zotero!MoveOut
  <2>3. /\ zfiles' \in [Zotero!Versions -> ZPayload \cup {None}]
        /\ \A w \in Zotero!Versions \ {v} : zfiles'[w] = zfiles[w]
    BY <2>2, <1>1 DEF ZoteroTypes, Zotero!TypeOK, Zotero!Payloads, ZPayload
  <2>4. ZoteroTypes'
    BY <2>1, <2>3, <1>1, <1>2 DEF ZoteroTypes, Zotero!TypeOK, Zotero!Payloads, ZPayload, Zotero!ParseFixture, Zotero!Exports
  <2>5. Zotero!ManifestIsLast'
    BY <2>1, <2>2, <2>3, <1>1, <1>2 DEF Zotero!ManifestIsLast, Zotero!Listed
  <2> QED
    BY <2>1, <2>4, <2>5, <1>2 DEF ZoteroInv, ProjectionInv
<1>12. ASSUME Zotero!Lose PROVE ZoteroInv' /\ HistoryStep
  <2>1. /\ ztree = None /\ zlosses' = zlosses + 1
        /\ UNCHANGED <<export, revision, zindex, zmanifest, ztodo, ztree, zcrashes>>
    BY <1>12 DEF Zotero!Lose
  <2>2. PICK v \in Zotero!Present : zfiles' = [zfiles EXCEPT ![v] = None]
    BY <1>12 DEF Zotero!Lose
  <2>3. /\ zfiles' \in [Zotero!Versions -> ZPayload \cup {None}] /\ zfiles'[v] = None
        /\ \A w \in Zotero!Versions \ {v} : zfiles'[w] = zfiles[w]
    BY <2>2, <1>1 DEF ZoteroTypes, Zotero!TypeOK, Zotero!Payloads, ZPayload, Zotero!Present
  <2>4. ZoteroTypes'
    BY <2>1, <2>3, <1>1, <1>2 DEF ZoteroTypes, Zotero!TypeOK, Zotero!Payloads, ZPayload, Zotero!ParseFixture, Zotero!Exports
  <2>5. \A w \in Zotero!Listed : w \in Zotero!Versions
    BY DEF Zotero!Listed
  <2>6. zlosses' > 0 /\ (zlosses > 0 => zlosses' > 0)
    BY <2>1, <1>1 DEF ZoteroTypes
  <2>7. Zotero!ManifestIsLast'
    BY <2>1, <2>3, <2>5, <2>6, <1>1, <1>2 DEF Zotero!ManifestIsLast
  <2> QED
    BY <2>1, <2>4, <2>7, <1>2 DEF ZoteroInv, ProjectionInv
<1> QED
  BY <1>4, <1>5, <1>6, <1>7, <1>8, <1>9, <1>10, <1>11, <1>12 DEF Zotero!Next

\* What a projection in progress writes and what is listed have to do with each other.
THEOREM ZoteroIsAlwaysSound ==
  ASSUME Zotero!NoneAssumption, Zotero!ZoteroAssumption
  PROVE  Zotero!Spec => []ZoteroInv
<1>1. Zotero!Init => ZoteroInv
  BY ZoteroInit
<1>2. ZoteroInv /\ [Zotero!Next]_Zotero!vars => ZoteroInv'
  BY ZoteroStep
<1> QED
  BY <1>1, <1>2, PTL DEF Zotero!Spec

\* TypeOK, LineageEnds and ManifestIsLast, for any number of families and versions: predecessors lead back to a
\* first version, and a listed file that differs was lost or is the newer payload an interrupted projection left.
THEOREM ListedVersionsAreWhole ==
  ASSUME Zotero!NoneAssumption, Zotero!ZoteroAssumption
  PROVE  Zotero!Spec => [](Zotero!TypeOK /\ Zotero!LineageEnds /\ Zotero!ManifestIsLast)
<1>1. ZoteroInv => Zotero!TypeOK /\ Zotero!LineageEnds /\ Zotero!ManifestIsLast
  BY DEF ZoteroInv, ZoteroTypes
<1> QED
  BY <1>1, ZoteroIsAlwaysSound, PTL

\* HistoryIsKept and UnchangedSourcesKeepTheirBytes: what was listed stays listed with its predecessor, and only
\* current versions whose notes changed are rewritten.
THEOREM HistoryIsAlwaysKept ==
  ASSUME Zotero!NoneAssumption, Zotero!ZoteroAssumption
  PROVE  Zotero!Spec => [][Zotero!HistoryIsKept /\ Zotero!UnchangedSourcesKeepTheirBytes]_Zotero!vars
<1>1. ASSUME ZoteroInv, [Zotero!Next]_Zotero!vars
      PROVE  Zotero!HistoryIsKept /\ Zotero!UnchangedSourcesKeepTheirBytes
  <2>1. CASE UNCHANGED zmanifest
    BY <2>1 DEF Zotero!HistoryIsKept, Zotero!UnchangedSourcesKeepTheirBytes, Zotero!Listed, Zotero!PriorCurrent
  <2>2. CASE Zotero!WriteManifest
    <3>1. TreeKeepsHistory
      BY <1>1, <2>2 DEF ZoteroInv, ProjectionInv, Zotero!WriteManifest
    <3>2. Zotero!Listed \subseteq Zotero!Listed' /\ zmanifest'.owned = ztree
      BY <1>1, <2>2, PublishedHistory
    <3> QED
      BY <3>1, <3>2 DEF TreeKeepsHistory, Zotero!HistoryIsKept, Zotero!UnchangedSourcesKeepTheirBytes
  <2> QED
    BY <1>1, <2>1, <2>2, ZoteroStep DEF HistoryStep
<1> QED
  BY <1>1, ZoteroIsAlwaysSound, PTL DEF Zotero!Spec

-----------------------------------------------------------------------------
(* WorkspaceWrite.                                                          *)

Workspace == INSTANCE WorkspaceWrite WITH files <- wfiles, todo <- wtodo, MaxEdits <- WEdits

Registries == [Ids -> Names \cup {None}]

\* The tree of a registry: one note for each record, Home and the Base.
LEMMA TreeOfRegistry ==
  ASSUME Workspace!WorkspaceAssumption, Workspace!NoneAssumption, NEW a \in Registries
  PROVE  LET tree == Workspace!workspace_tree(a)
             linked == {Workspace!Link(a, id) : id \in Workspace!Records(a)}
         IN  /\ DOMAIN tree = linked \cup {Workspace!Home, Workspace!Base}
             /\ DOMAIN tree \subseteq Workspace!Paths
             /\ \A id \in Workspace!Records(a) : tree[Workspace!Link(a, id)] = Workspace!Note(a, id)
             /\ tree[Workspace!Home] = Workspace!Page("home", linked)
             /\ tree[Workspace!Base] = Workspace!Page("base", {})
             /\ \A p \in DOMAIN tree : tree[p] \in Workspace!Contents /\ tree[p].kind \in {"note", "home", "base"}
             /\ \A p \in DOMAIN tree : tree[p].kind = "home" => p = Workspace!Home
             /\ \A p \in DOMAIN tree : tree[p].kind = "base" => p = Workspace!Base
             /\ \A p \in DOMAIN tree : tree[p].kind = "note" => p \in linked
<1> USE DEF Workspace!WorkspaceAssumption, Workspace!NoneAssumption, Registries
<1> DEFINE tree == Workspace!workspace_tree(a)
           linked == {Workspace!Link(a, id) : id \in Workspace!Records(a)}
<1>1. \A id \in Workspace!Records(a) : id \in Ids /\ a[id] \in Names /\ Workspace!Link(a, id) = <<id, a[id]>>
  BY DEF Workspace!Records, Workspace!Link, Workspace!NotePath
<1>2. \A id \in Workspace!Records(a) :
        /\ Workspace!Link(a, id) \in Workspace!Paths /\ Workspace!Link(a, id)[1] = id
        /\ Workspace!Link(a, id) # Workspace!Home /\ Workspace!Link(a, id) # Workspace!Base
  BY <1>1 DEF Workspace!Paths, Workspace!Home, Workspace!Base
<1>3. Workspace!Home # Workspace!Base /\ {Workspace!Home, Workspace!Base} \subseteq Workspace!Paths
  BY DEF Workspace!Paths, Workspace!Home, Workspace!Base
<1>4. linked \subseteq Workspace!Paths
  BY <1>2
<1>5. DOMAIN tree = linked \cup {Workspace!Home, Workspace!Base}
  BY DEF Workspace!workspace_tree
<1>6. \A id \in Workspace!Records(a) : tree[Workspace!Link(a, id)] = Workspace!Note(a, id)
  BY <1>2 DEF Workspace!workspace_tree
<1>7. tree[Workspace!Home] = Workspace!Page("home", linked)
  BY <1>3 DEF Workspace!workspace_tree
<1>8. tree[Workspace!Base] = Workspace!Page("base", {})
  BY <1>3 DEF Workspace!workspace_tree
<1>9. \A id \in Workspace!Records(a) : Workspace!Note(a, id) \in Workspace!Contents /\ Workspace!Note(a, id).kind = "note"
  <2> TAKE id \in Workspace!Records(a)
  <2>1. \A e \in Related : e[1] \in Ids /\ e[2] \in Ids
    OBVIOUS
  <2> DEFINE out == {Workspace!Link(a, e[2]) : e \in {r \in Related : r[1] = id /\ r[2] \in Workspace!Records(a)}}
             in == {Workspace!Link(a, e[1]) : e \in {r \in Related : r[2] = id /\ r[1] \in Workspace!Records(a)}}
  <2>2. out \subseteq Workspace!Paths /\ in \subseteq Workspace!Paths
    BY <1>2
  <2>3. Workspace!Note(a, id) = [kind |-> "note", id |-> id, name |-> a[id], whole |-> TRUE, out |-> out, in |-> in]
    BY DEF Workspace!Note
  <2> HIDE DEF out, in
  <2> QED
    BY <1>1, <2>2, <2>3 DEF Workspace!Contents
<1>10. ASSUME NEW kind \in {"home", "base", "authored", "empty", "torn"}, NEW links \in SUBSET Workspace!Paths
       PROVE  Workspace!Page(kind, links) \in Workspace!Contents /\ Workspace!Page(kind, links).kind = kind
  BY DEF Workspace!Page, Workspace!Contents
<1>11. /\ tree[Workspace!Home] \in Workspace!Contents /\ tree[Workspace!Home].kind = "home"
       /\ tree[Workspace!Base] \in Workspace!Contents /\ tree[Workspace!Base].kind = "base"
       /\ \A p \in linked : tree[p] \in Workspace!Contents /\ tree[p].kind = "note"
  BY <1>4, <1>6, <1>7, <1>8, <1>9, <1>10
<1> QED
  <2> HIDE DEF tree, linked
  <2>1. \A p \in DOMAIN tree : p \in linked \/ p = Workspace!Home \/ p = Workspace!Base
    BY <1>5
  <2>2. DOMAIN tree \subseteq Workspace!Paths
    BY <1>3, <1>4, <1>5
  <2>3. \A p \in DOMAIN tree : tree[p] \in Workspace!Contents /\ tree[p].kind \in {"note", "home", "base"}
    BY <1>11, <2>1
  <2>4. \A p \in DOMAIN tree : tree[p].kind = "home" => p = Workspace!Home
    BY <1>11, <2>1
  <2>5. \A p \in DOMAIN tree : tree[p].kind = "base" => p = Workspace!Base
    BY <1>11, <2>1
  <2>6. \A p \in DOMAIN tree : tree[p].kind = "note" => p \in linked
    BY <1>11, <2>1
  <2> QED
    BY <1>5, <1>6, <1>7, <1>8, <2>2, <2>3, <2>4, <2>5, <2>6 DEF tree, linked

WrittenTree == Workspace!workspace_tree(loaded)

\* The generated content of a page is where the projector puts it, if people copy notes only.
PagesInPlace ==
  \A p \in Workspace!Paths : wfiles[p] # None =>
    /\ wfiles[p].kind = "home" => p = Workspace!Home
    /\ wfiles[p].kind = "base" => p = Workspace!Base

\* The check of a run that nobody disturbed: what it has looked at, at p, is neither torn nor obsolete.
Clean(p) == wfiles[p] # None => wfiles[p].kind # "torn" /\ (wfiles[p].kind = "note" => p \in DOMAIN WrittenTree)

\* What a run has done so far, while nobody disturbs it.
WriterInv ==
  /\ writer = "write" => wtodo \subseteq DOMAIN WrittenTree
  /\ writer = "check" => wtodo = {}
  /\ ~touched =>
       /\ writer = "prune" => \A p \in Workspace!Paths \ wtodo : Clean(p)
       /\ writer \in {"write", "check"} =>
            /\ \A p \in Workspace!Paths : Clean(p)
            /\ \A p \in DOMAIN WrittenTree \ wtodo : wfiles[p] = WrittenTree[p]

WorkspaceInv ==
  /\ Workspace!TypeOK /\ spent \in [changes : Nat, edits : Nat, deaths : Nat] /\ touched \in BOOLEAN
  /\ PagesInPlace /\ WriterInv
  /\ outcome # None => writer = "idle"
  /\ outcome = "done" => Workspace!validate_workspace(loaded) = "done"
  /\ Workspace!UndisturbedRunsConverge

LEMMA PagesAreContents ==
  ASSUME Workspace!WorkspaceAssumption, Workspace!NoneAssumption
  PROVE  /\ Workspace!Authored \in Workspace!Contents /\ Workspace!Authored.kind = "authored"
         /\ Workspace!Empty \in Workspace!Contents /\ Workspace!Empty.kind = "empty"
         /\ Workspace!Torn \in Workspace!Contents /\ Workspace!Torn.kind = "torn"
BY DEF Workspace!Authored, Workspace!Empty, Workspace!Torn, Workspace!Page, Workspace!Contents

LEMMA WorkspaceInit ==
  ASSUME Workspace!WorkspaceAssumption, Workspace!NoneAssumption, Workspace!Init
  PROVE  WorkspaceInv
<1> USE DEF Workspace!Init
<1>1. registry \in Registries
  BY DEF Workspace!WorkspaceAssumption, Registries
<1> DEFINE tree == Workspace!workspace_tree(registry)
<1>2. /\ DOMAIN tree \subseteq Workspace!Paths
      /\ \A p \in DOMAIN tree : tree[p] \in Workspace!Contents
      /\ \A p \in DOMAIN tree : tree[p].kind = "home" => p = Workspace!Home
      /\ \A p \in DOMAIN tree : tree[p].kind = "base" => p = Workspace!Base
  BY <1>1, TreeOfRegistry
<1>3. wfiles = [p \in Workspace!Paths |-> IF p \in DOMAIN tree THEN tree[p]
                                        ELSE IF p = Workspace!Own THEN Workspace!Authored ELSE None]
  OBVIOUS
<1> HIDE DEF tree
<1>4. wfiles \in [Workspace!Paths -> Workspace!Contents \cup {None}]
  BY <1>2, <1>3, PagesAreContents
<1>5. PagesInPlace
  BY <1>2, <1>3, PagesAreContents DEF PagesInPlace
<1>6. Workspace!TypeOK /\ spent \in [changes : Nat, edits : Nat, deaths : Nat]
  BY <1>1, <1>4 DEF Workspace!TypeOK, Registries
<1> QED
  BY <1>5, <1>6 DEF Workspace!NoneAssumption, WorkspaceInv, WriterInv, Workspace!UndisturbedRunsConverge

\* An undisturbed run leaves what its check asks for.
LEMMA WrittenIsValid ==
  ASSUME Workspace!WorkspaceAssumption, Workspace!NoneAssumption, loaded \in Registries,
         \A p \in Workspace!Paths : Clean(p), \A p \in DOMAIN WrittenTree : wfiles[p] = WrittenTree[p]
  PROVE  Workspace!validate_workspace(loaded) = "done"
<1> DEFINE marked == {p \in Workspace!Existing : Workspace!Marked(wfiles[p])}
           linked == {Workspace!Link(loaded, id) : id \in Workspace!Records(loaded)}
<1>1. /\ DOMAIN WrittenTree \subseteq Workspace!Paths
      /\ \A p \in DOMAIN WrittenTree : WrittenTree[p] \in Workspace!Contents /\ WrittenTree[p].kind \in {"note", "home", "base"}
      /\ \A p \in DOMAIN WrittenTree : WrittenTree[p].kind = "note" => p \in linked
      /\ DOMAIN WrittenTree = linked \cup {Workspace!Home, Workspace!Base}
      /\ \A id \in Workspace!Records(loaded) : WrittenTree[Workspace!Link(loaded, id)] = Workspace!Note(loaded, id)
  BY TreeOfRegistry DEF WrittenTree
<1>2. \A id \in Workspace!Records(loaded) :
        /\ Workspace!Note(loaded, id).kind = "note" /\ Workspace!Note(loaded, id).id = id
        /\ Workspace!Note(loaded, id).whole = TRUE
        /\ [Workspace!Note(loaded, id) EXCEPT !.whole = Workspace!Note(loaded, id).whole] = Workspace!Note(loaded, id)
  BY DEF Workspace!Note
<1>3. ~ \E p \in Workspace!Existing : wfiles[p].kind = "torn"
  BY DEF Clean, Workspace!Existing
<1>4. ASSUME NEW p \in marked
      PROVE  \E id \in Workspace!Records(loaded) : p = Workspace!Link(loaded, id) /\ wfiles[p] = Workspace!Note(loaded, id)
  <2>1. p \in Workspace!Paths /\ wfiles[p] # None /\ wfiles[p].kind = "note"
    BY DEF Workspace!Existing, Workspace!Marked
  <2>2. p \in DOMAIN WrittenTree /\ wfiles[p] = WrittenTree[p]
    BY <2>1 DEF Clean
  <2> QED
    BY <1>1, <2>1, <2>2
<1>5. ASSUME NEW id \in Workspace!Records(loaded)
      PROVE  Workspace!Link(loaded, id) \in marked /\ wfiles[Workspace!Link(loaded, id)].id = id
  <2>1. /\ Workspace!Link(loaded, id) \in DOMAIN WrittenTree
        /\ wfiles[Workspace!Link(loaded, id)] = Workspace!Note(loaded, id)
    BY <1>1
  <2>2. wfiles[Workspace!Link(loaded, id)] # None
    BY <1>1, <2>1 DEF Workspace!NoneAssumption
  <2> QED
    BY <1>1, <1>2, <2>1, <2>2 DEF Workspace!Existing, Workspace!Marked
<1>6. \A p \in marked :
        LET id == wfiles[p].id
        IN  /\ id \in Workspace!Records(loaded) /\ p = Workspace!Link(loaded, id)
            /\ wfiles[p] = [Workspace!Note(loaded, id) EXCEPT !.whole = wfiles[p].whole]
  BY <1>2, <1>4
<1>7. {wfiles[p].id : p \in marked} = Workspace!Records(loaded)
  BY <1>5, <1>6
<1> QED
  BY <1>3, <1>6, <1>7 DEF Workspace!validate_workspace, WrittenTree

\* Writing one piece of content keeps the vault well formed if it does not put a page where it does not belong.
LEMMA ContentIsPut ==
  ASSUME wfiles \in [Workspace!Paths -> Workspace!Contents \cup {None}], PagesInPlace,
         NEW p \in Workspace!Paths, NEW c \in Workspace!Contents \cup {None}, wfiles' = [wfiles EXCEPT ![p] = c],
         c # None => (c.kind = "home" => p = Workspace!Home) /\ (c.kind = "base" => p = Workspace!Base)
  PROVE  wfiles' \in [Workspace!Paths -> Workspace!Contents \cup {None}] /\ PagesInPlace'
BY DEF PagesInPlace

LEMMA WorkspaceStep ==
  ASSUME Workspace!WorkspaceAssumption, Workspace!NoneAssumption, WorkspaceInv, [Workspace!Next]_Workspace!vars
  PROVE  WorkspaceInv'
<1> USE Workspace!WorkspaceAssumption, Workspace!NoneAssumption
<1> DEFINE Types == Workspace!TypeOK /\ spent \in [changes : Nat, edits : Nat, deaths : Nat] /\ touched \in BOOLEAN
           Ends == /\ outcome # None => writer = "idle"
                   /\ outcome = "done" => Workspace!validate_workspace(loaded) = "done"
                   /\ Workspace!UndisturbedRunsConverge
<1>1. /\ registry \in Registries /\ loaded \in Registries /\ wfiles \in [Workspace!Paths -> Workspace!Contents \cup {None}]
      /\ Types /\ PagesInPlace /\ WriterInv /\ Ends
  BY DEF WorkspaceInv, Workspace!TypeOK, Registries
<1>2. /\ DOMAIN WrittenTree \subseteq Workspace!Paths
      /\ \A p \in DOMAIN WrittenTree : WrittenTree[p] \in Workspace!Contents /\ WrittenTree[p].kind \in {"note", "home", "base"}
      /\ \A p \in DOMAIN WrittenTree : WrittenTree[p].kind = "home" => p = Workspace!Home
      /\ \A p \in DOMAIN WrittenTree : WrittenTree[p].kind = "base" => p = Workspace!Base
  BY <1>1, TreeOfRegistry DEF WrittenTree
<1>3. \A p \in DOMAIN WrittenTree : WrittenTree[p] # None
  BY <1>2 DEF Workspace!NoneAssumption
<1>4. ASSUME UNCHANGED loaded PROVE WrittenTree' = WrittenTree
  BY <1>4 DEF WrittenTree
<1>q. ASSUME Types', PagesInPlace', WriterInv', Ends' PROVE WorkspaceInv'
  BY <1>q DEF WorkspaceInv
<1>e. ASSUME outcome' = None PROVE Ends'
  BY <1>e DEF Workspace!UndisturbedRunsConverge, Workspace!NoneAssumption
<1>5. CASE Workspace!Start
  <2>1. /\ writer' = "prune" /\ outcome' = None /\ touched' = FALSE /\ wtodo' = Workspace!Existing /\ loaded' = registry
        /\ UNCHANGED <<registry, wfiles, spent>>
    BY <1>5 DEF Workspace!Start
  <2>2. Types' /\ PagesInPlace'
    BY <1>1, <2>1 DEF Workspace!TypeOK, PagesInPlace, Workspace!Existing, Registries
  <2>3. WriterInv'
    BY <2>1 DEF WriterInv, Clean, Workspace!Existing
  <2> QED
    BY <1>e, <1>q, <2>1, <2>2, <2>3
<1>6. CASE Workspace!StartWriting
  <2>1. /\ writer = "prune" /\ wtodo = {} /\ writer' = "write" /\ wtodo' = DOMAIN WrittenTree
        /\ UNCHANGED <<registry, wfiles, loaded, outcome, touched, spent>>
    BY <1>6 DEF Workspace!StartWriting, WrittenTree
  <2>2. Types' /\ PagesInPlace'
    BY <1>1, <1>2, <2>1 DEF Workspace!TypeOK, PagesInPlace
  <2>3. WriterInv'
    BY <1>1, <1>4, <2>1 DEF WriterInv, Clean
  <2>4. outcome' = None
    BY <1>1, <2>1
  <2> QED
    BY <1>e, <1>q, <2>2, <2>3, <2>4
<1>7. CASE Workspace!StartCheck
  <2>1. /\ writer = "write" /\ wtodo = {} /\ writer' = "check"
        /\ UNCHANGED <<registry, wfiles, loaded, wtodo, outcome, touched, spent>>
    BY <1>7 DEF Workspace!StartCheck
  <2>2. Types' /\ PagesInPlace'
    BY <1>1, <2>1 DEF Workspace!TypeOK, PagesInPlace
  <2>3. WriterInv'
    BY <1>1, <1>4, <2>1 DEF WriterInv, Clean
  <2>4. outcome' = None
    BY <1>1, <2>1
  <2> QED
    BY <1>e, <1>q, <2>2, <2>3, <2>4
<1>8. CASE Workspace!EndCheck
  <2>1. /\ writer = "check" /\ writer' = "idle" /\ outcome' = Workspace!validate_workspace(loaded)
        /\ UNCHANGED <<registry, wfiles, loaded, wtodo, touched, spent>>
    BY <1>8 DEF Workspace!EndCheck
  <2>2. Workspace!validate_workspace(loaded) \in {"done", "refused", "drift"}
    BY DEF Workspace!validate_workspace
  <2>3. Types' /\ PagesInPlace'
    BY <1>1, <2>1, <2>2 DEF Workspace!TypeOK, PagesInPlace
  <2>4. WriterInv'
    BY <2>1 DEF WriterInv
  <2>5. ~touched => Workspace!validate_workspace(loaded) = "done"
    BY <1>1, <2>1, WrittenIsValid DEF WriterInv
  <2>6. Workspace!validate_workspace(loaded)' = Workspace!validate_workspace(loaded)
    BY <2>1 DEF Workspace!validate_workspace, Workspace!Existing
  <2>7. Ends'
    BY <2>1, <2>5, <2>6 DEF Workspace!UndisturbedRunsConverge
  <2> QED
    BY <1>q, <2>3, <2>4, <2>7
<1>9. CASE Workspace!Die
  <2>1. /\ writer' = "idle" /\ outcome' = None /\ wtodo' = {} /\ UNCHANGED <<registry, loaded, touched>>
        /\ spent' = [spent EXCEPT !.deaths = @ + 1]
    BY <1>9 DEF Workspace!Die
  <2>2. wfiles' \in [Workspace!Paths -> Workspace!Contents \cup {None}] /\ PagesInPlace'
    <3>1. CASE UNCHANGED wfiles
      BY <1>1, <3>1 DEF PagesInPlace
    <3>2. ASSUME NEW p \in wtodo, NEW kind \in Leftovers, writer = "write",
                 wfiles' = [wfiles EXCEPT ![p] = CASE kind = "empty" -> Workspace!Empty
                                             [] kind = "torn" -> Workspace!Torn
                                             [] OTHER -> [WrittenTree[p] EXCEPT !.whole = FALSE]]
          PROVE  wfiles' \in [Workspace!Paths -> Workspace!Contents \cup {None}] /\ PagesInPlace'
      <4> DEFINE c == CASE kind = "empty" -> Workspace!Empty [] kind = "torn" -> Workspace!Torn
                        [] OTHER -> [WrittenTree[p] EXCEPT !.whole = FALSE]
      <4>1. p \in DOMAIN WrittenTree /\ p \in Workspace!Paths
        BY <1>1, <1>2, <3>2 DEF WriterInv
      <4>2. [WrittenTree[p] EXCEPT !.whole = FALSE] \in Workspace!Contents /\ [WrittenTree[p] EXCEPT !.whole = FALSE].kind = WrittenTree[p].kind
        BY <1>2, <4>1 DEF Workspace!Contents
      <4>3. c \in Workspace!Contents /\ (c.kind = "home" => p = Workspace!Home) /\ (c.kind = "base" => p = Workspace!Base)
        <5>1. CASE kind = "empty"
          BY <5>1, PagesAreContents
        <5>2. CASE kind = "torn"
          BY <5>2, PagesAreContents
        <5>3. CASE kind # "empty" /\ kind # "torn"
          BY <1>2, <4>1, <4>2, <5>3
        <5> QED
          BY <5>1, <5>2, <5>3
      <4>4. wfiles' = [wfiles EXCEPT ![p] = c]
        BY <3>2
      <4> HIDE DEF c
      <4> QED
        BY <1>1, <4>1, <4>3, <4>4, ContentIsPut
    <3> QED
      BY <1>9, <3>1, <3>2 DEF Workspace!Die, WrittenTree
  <2>3. Types'
    BY <1>1, <2>1, <2>2 DEF Workspace!TypeOK
  <2>4. WriterInv'
    BY <2>1 DEF WriterInv
  <2> QED
    BY <1>e, <1>q, <2>1, <2>2, <2>3, <2>4
<1>10. CASE Workspace!ChangeRegistry
  <2>1. /\ outcome' = None /\ UNCHANGED <<wfiles, writer, loaded, wtodo, touched>>
        /\ spent' = [spent EXCEPT !.changes = @ + 1] /\ registry' \in Registries
    BY <1>1, <1>10 DEF Workspace!ChangeRegistry, Registries
  <2>2. Types' /\ PagesInPlace'
    BY <1>1, <2>1 DEF Workspace!TypeOK, PagesInPlace, Registries
  <2>3. WriterInv'
    BY <1>1, <1>4, <2>1 DEF WriterInv, Clean
  <2> QED
    BY <1>e, <1>q, <2>1, <2>2, <2>3
<1>11. CASE Workspace!Edit
  <2>1. ASSUME NEW p \in Workspace!Paths, NEW c \in Workspace!Contents \cup {None}, Workspace!Edited(p, c),
               c # None => (c.kind = "home" => p = Workspace!Home) /\ (c.kind = "base" => p = Workspace!Base)
        PROVE  WorkspaceInv'
    <3>1. /\ touched' = TRUE /\ outcome' = None /\ UNCHANGED <<registry, writer, loaded, wtodo>>
          /\ spent' = [spent EXCEPT !.edits = @ + 1] /\ wfiles' = [wfiles EXCEPT ![p] = c]
      BY <2>1 DEF Workspace!Edited
    <3>2. wfiles' \in [Workspace!Paths -> Workspace!Contents \cup {None}] /\ PagesInPlace'
      BY <1>1, <2>1, <3>1, ContentIsPut
    <3>3. Types'
      BY <1>1, <3>1, <3>2 DEF Workspace!TypeOK
    <3>4. WriterInv'
      BY <1>1, <1>4, <3>1 DEF WriterInv
    <3> QED
      BY <1>e, <1>q, <3>1, <3>2, <3>3, <3>4
  <2>2. \A p \in Workspace!Existing :
          /\ p \in Workspace!Paths /\ wfiles[p] \in Workspace!Contents
          /\ (wfiles[p].kind = "home" => p = Workspace!Home) /\ (wfiles[p].kind = "base" => p = Workspace!Base)
          /\ [wfiles[p] EXCEPT !.whole = FALSE] \in Workspace!Contents
          /\ [wfiles[p] EXCEPT !.whole = FALSE].kind = wfiles[p].kind
    BY <1>1 DEF Workspace!Existing, PagesInPlace, Workspace!Contents
  <2>3. {Workspace!Own, Workspace!Copy} \subseteq Workspace!Paths
    BY DEF Workspace!Paths
  <2>4. ASSUME NEW p \in Workspace!Existing, Workspace!Edited(p, [wfiles[p] EXCEPT !.whole = FALSE]) PROVE WorkspaceInv'
    BY <2>1, <2>2, <2>4
  <2>5. ASSUME NEW p \in Workspace!Existing, Workspace!Edited(p, None) PROVE WorkspaceInv'
    BY <2>1, <2>2, <2>5
  <2>6. ASSUME NEW p \in Workspace!Existing \ {Workspace!Home, Workspace!Base}, Workspace!Edited(Workspace!Copy, wfiles[p])
        PROVE  WorkspaceInv'
    BY <2>1, <2>2, <2>3, <2>6
  <2>7. ASSUME NEW p \in {Workspace!Own, Workspace!Copy}, Workspace!Edited(p, Workspace!Authored) PROVE WorkspaceInv'
    BY <2>1, <2>3, <2>7, PagesAreContents
  <2> QED
    BY <1>11, <2>4, <2>5, <2>6, <2>7 DEF Workspace!Edit
<1>12. ASSUME NEW p \in wtodo, Workspace!Look(p) PROVE WorkspaceInv'
  <2>1. /\ writer = "prune" /\ wtodo' = wtodo \ {p} /\ UNCHANGED <<registry, loaded, touched, spent>> /\ p \in Workspace!Paths
    BY <1>1, <1>12 DEF Workspace!Look, Workspace!TypeOK
  <2>2. CASE wfiles[p] # None /\ wfiles[p].kind = "torn"
    <3>1. writer' = "idle" /\ outcome' = "refused" /\ UNCHANGED wfiles
      BY <1>12, <2>2 DEF Workspace!Look
    <3>2. Types' /\ PagesInPlace'
      BY <1>1, <2>1, <3>1 DEF Workspace!TypeOK, PagesInPlace
    <3>3. WriterInv' /\ Ends'
      BY <3>1 DEF WriterInv, Workspace!UndisturbedRunsConverge
    <3> QED
      BY <1>q, <3>2, <3>3
  <2>3. CASE ~(wfiles[p] # None /\ wfiles[p].kind = "torn")
    <3>1. /\ wfiles' = (IF wfiles[p] # None /\ Workspace!Obsolete(p) THEN [wfiles EXCEPT ![p] = None] ELSE wfiles)
          /\ UNCHANGED <<writer, outcome>>
      BY <1>12, <2>3 DEF Workspace!Look
    <3>2. wfiles' \in [Workspace!Paths -> Workspace!Contents \cup {None}] /\ PagesInPlace'
      BY <1>1, <2>1, <3>1 DEF PagesInPlace
    <3>3. Types'
      BY <1>1, <2>1, <3>1, <3>2 DEF Workspace!TypeOK
    <3>4. Clean(p)'
      BY <1>1, <1>4, <2>1, <2>3, <3>1 DEF Clean, Workspace!Obsolete, Workspace!Marked, WrittenTree
    <3>5. \A q \in Workspace!Paths \ wtodo : Clean(q) => Clean(q)'
      BY <1>1, <1>4, <2>1, <3>1 DEF Clean
    <3>6. WriterInv'
      BY <1>1, <2>1, <3>1, <3>4, <3>5 DEF WriterInv
    <3>7. outcome' = None
      BY <1>1, <2>1, <3>1
    <3> QED
      BY <1>e, <1>q, <3>2, <3>3, <3>6, <3>7
  <2> QED
    BY <2>2, <2>3
<1>13. ASSUME NEW p \in wtodo, Workspace!WriteFile(p) PROVE WorkspaceInv'
  <2>1. /\ writer = "write" /\ wtodo' = wtodo \ {p} /\ wfiles' = [wfiles EXCEPT ![p] = WrittenTree[p]]
        /\ UNCHANGED <<registry, writer, loaded, outcome, touched, spent>>
    BY <1>13 DEF Workspace!WriteFile, WrittenTree
  <2>2. p \in DOMAIN WrittenTree /\ p \in Workspace!Paths
    BY <1>1, <1>2, <2>1 DEF WriterInv
  <2>3. wfiles' \in [Workspace!Paths -> Workspace!Contents \cup {None}] /\ PagesInPlace'
    BY <1>1, <1>2, <2>1, <2>2, ContentIsPut
  <2>4. Types'
    BY <1>1, <2>1, <2>3 DEF Workspace!TypeOK
  <2>5. \A q \in Workspace!Paths : Clean(q) => Clean(q)'
    BY <1>1, <1>2, <1>4, <2>1, <2>2 DEF Clean
  <2>6. WriterInv'
    BY <1>1, <1>2, <1>4, <2>1, <2>2, <2>5 DEF WriterInv
  <2>7. outcome' = None
    BY <1>1, <2>1
  <2> QED
    BY <1>e, <1>q, <2>3, <2>4, <2>6, <2>7
<1>14. CASE UNCHANGED Workspace!vars
  <2>1. UNCHANGED <<registry, wfiles, writer, loaded, wtodo, outcome, touched, spent>>
    BY <1>14 DEF Workspace!vars
  <2>2. Types' /\ PagesInPlace'
    BY <1>1, <2>1 DEF Workspace!TypeOK, PagesInPlace
  <2>3. WriterInv'
    BY <1>1, <1>4, <2>1 DEF WriterInv, Clean
  <2>4. Ends'
    BY <1>1, <2>1 DEF Workspace!validate_workspace, Workspace!Existing, Workspace!UndisturbedRunsConverge
  <2> QED
    BY <1>q, <2>2, <2>3, <2>4
<1> QED
  BY <1>5, <1>6, <1>7, <1>8, <1>9, <1>10, <1>11, <1>12, <1>13, <1>14 DEF Workspace!Next

\* What a check that found nothing says of the links.
LEMMA ValidLeavesNoTrace ==
  ASSUME Workspace!WorkspaceAssumption, Workspace!NoneAssumption, WorkspaceInv,
         Workspace!validate_workspace(loaded) = "done"
  PROVE  LET generated == {p \in Workspace!Existing : wfiles[p].kind \in {"note", "home", "base"}}
         IN  /\ generated = DOMAIN WrittenTree
             /\ \A p \in generated : wfiles[p].out \cup wfiles[p].in \subseteq Workspace!Existing
             /\ \A p \in generated, q \in generated : p \in wfiles[q].out /\ q # Workspace!Home => q \in wfiles[p].in
<1> DEFINE generated == {p \in Workspace!Existing : wfiles[p].kind \in {"note", "home", "base"}}
           linked == {Workspace!Link(loaded, id) : id \in Workspace!Records(loaded)}
<1>1. /\ DOMAIN WrittenTree = linked \cup {Workspace!Home, Workspace!Base}
      /\ DOMAIN WrittenTree \subseteq Workspace!Paths
      /\ \A p \in DOMAIN WrittenTree : WrittenTree[p] \in Workspace!Contents /\ WrittenTree[p].kind \in {"note", "home", "base"}
      /\ \A id \in Workspace!Records(loaded) : WrittenTree[Workspace!Link(loaded, id)] = Workspace!Note(loaded, id)
      /\ WrittenTree[Workspace!Home] = Workspace!Page("home", linked)
      /\ WrittenTree[Workspace!Base] = Workspace!Page("base", {})
  <2>1. loaded \in Registries
    BY DEF WorkspaceInv, Workspace!TypeOK, Registries
  <2> QED
    BY <2>1, TreeOfRegistry DEF WrittenTree
<1>2. /\ \A p \in Workspace!Existing : wfiles[p].kind = "note" =>
           wfiles[p].id \in Workspace!Records(loaded) /\ p = Workspace!Link(loaded, wfiles[p].id)
      /\ \A p \in DOMAIN WrittenTree : wfiles[p] = WrittenTree[p]
  BY DEF Workspace!validate_workspace, Workspace!Marked, WrittenTree
<1>3. DOMAIN WrittenTree \subseteq Workspace!Existing
  BY <1>1, <1>2 DEF Workspace!Existing, Workspace!NoneAssumption
<1>4. generated = DOMAIN WrittenTree
  <2>1. \A p \in DOMAIN WrittenTree : p \in generated
    BY <1>1, <1>2, <1>3
  <2>2. ASSUME NEW p \in generated PROVE p \in DOMAIN WrittenTree
    <3>1. CASE wfiles[p].kind = "note"
      BY <1>1, <1>2, <3>1
    <3>2. CASE wfiles[p].kind # "note"
      BY <1>1, <3>2 DEF WorkspaceInv, PagesInPlace, Workspace!Existing
    <3> QED
      BY <3>1, <3>2
  <2> QED
    BY <2>1, <2>2
<1>5. \A id \in Workspace!Records(loaded) :
        LET note == wfiles[Workspace!Link(loaded, id)]
        IN  /\ note.out = {Workspace!Link(loaded, e[2]) :
                             e \in {r \in Related : r[1] = id /\ r[2] \in Workspace!Records(loaded)}}
            /\ note.in = {Workspace!Link(loaded, e[1]) :
                            e \in {r \in Related : r[2] = id /\ r[1] \in Workspace!Records(loaded)}}
  <2> TAKE id \in Workspace!Records(loaded)
  <2>1. wfiles[Workspace!Link(loaded, id)] = Workspace!Note(loaded, id)
    BY <1>1, <1>2
  <2> QED
    BY <2>1 DEF Workspace!Note
<1>6. /\ wfiles[Workspace!Home].out = linked /\ wfiles[Workspace!Home].in = {}
      /\ wfiles[Workspace!Base].out = {} /\ wfiles[Workspace!Base].in = {}
  BY <1>1, <1>2 DEF Workspace!Page
<1>7. ASSUME NEW p \in DOMAIN WrittenTree PROVE wfiles[p].out \cup wfiles[p].in \subseteq Workspace!Existing
  <2>1. linked \subseteq Workspace!Existing
    BY <1>1, <1>3
  <2>2. CASE p \in linked
    BY <1>5, <2>1, <2>2
  <2>3. CASE p \in {Workspace!Home, Workspace!Base}
    BY <1>6, <2>1, <2>3
  <2> QED
    BY <1>1, <2>2, <2>3
<1>8. ASSUME NEW p \in DOMAIN WrittenTree, NEW q \in DOMAIN WrittenTree, p \in wfiles[q].out, q # Workspace!Home
      PROVE  q \in wfiles[p].in
  <2>1. q # Workspace!Base
    BY <1>6, <1>8
  <2>2. PICK id \in Workspace!Records(loaded) : q = Workspace!Link(loaded, id)
    BY <1>1, <1>8, <2>1
  <2>3. PICK e \in Related : e[1] = id /\ e[2] \in Workspace!Records(loaded) /\ p = Workspace!Link(loaded, e[2])
    BY <1>5, <1>8, <2>2
  <2> QED
    BY <1>5, <2>2, <2>3
<1> QED
  BY <1>4, <1>7, <1>8

\* What a run has done so far and what the check will find have to do with each other.
THEOREM WorkspaceIsAlwaysSound ==
  ASSUME Workspace!WorkspaceAssumption, Workspace!NoneAssumption
  PROVE  Workspace!Spec => []WorkspaceInv
<1>1. Workspace!Init => WorkspaceInv
  BY WorkspaceInit
<1>2. WorkspaceInv /\ [Workspace!Next]_Workspace!vars => WorkspaceInv'
  BY WorkspaceStep
<1> QED
  BY <1>1, <1>2, PTL DEF Workspace!Spec

\* TypeOK, UndisturbedRunsConverge and DoneLeavesNoTrace, for any registry, any relations and any number of
\* changes, edits and deaths: pruning and writing leave nothing for the check of a run that nobody disturbed, and
\* a run that is done left every generated link, in both directions, at a file.
THEOREM UndisturbedRunsAlwaysConverge ==
  ASSUME Workspace!WorkspaceAssumption, Workspace!NoneAssumption
  PROVE  Workspace!Spec =>
           [](Workspace!TypeOK /\ Workspace!UndisturbedRunsConverge /\ Workspace!DoneLeavesNoTrace)
<1>1. ASSUME WorkspaceInv, outcome = "done" PROVE Workspace!DoneLeavesNoTrace
  <2>1. Workspace!validate_workspace(loaded) = "done"
    BY <1>1 DEF WorkspaceInv
  <2> QED
    BY <1>1, <2>1, ValidLeavesNoTrace DEF Workspace!DoneLeavesNoTrace, WrittenTree
<1>2. WorkspaceInv => Workspace!TypeOK /\ Workspace!UndisturbedRunsConverge /\ Workspace!DoneLeavesNoTrace
  BY <1>1 DEF WorkspaceInv, Workspace!DoneLeavesNoTrace
<1> QED
  BY <1>2, WorkspaceIsAlwaysSound, PTL

\* AuthoredStays: no run changes what somebody wrote where the registry it works from has no note, not even when it
\* dies in the middle of a file.
THEOREM AuthoredAlwaysStays ==
  ASSUME Workspace!WorkspaceAssumption, Workspace!NoneAssumption
  PROVE  Workspace!Spec => [][Workspace!AuthoredStays]_Workspace!vars
<1>1. ASSUME WorkspaceInv, [Workspace!Next]_Workspace!vars PROVE Workspace!AuthoredStays
  <2> SUFFICES ASSUME spent'.edits = spent.edits, NEW p \in Workspace!Paths \ DOMAIN WrittenTree, wfiles[p] # None,
                      ~Workspace!Marked(wfiles[p])
               PROVE  wfiles'[p] = wfiles[p]
    BY DEF Workspace!AuthoredStays, WrittenTree
  <2>1. /\ wfiles \in [Workspace!Paths -> Workspace!Contents \cup {None}] /\ spent.edits \in Nat
        /\ spent = [changes |-> spent.changes, edits |-> spent.edits, deaths |-> spent.deaths]
        /\ writer = "write" => wtodo \subseteq DOMAIN WrittenTree
    BY <1>1 DEF WorkspaceInv, Workspace!TypeOK, WriterInv
  <2>2. ASSUME NEW q \in wtodo, Workspace!Look(q) PROVE wfiles'[p] = wfiles[p]
    BY <2>1, <2>2 DEF Workspace!Look, Workspace!Obsolete
  <2>3. ASSUME NEW q \in wtodo, Workspace!WriteFile(q) PROVE wfiles'[p] = wfiles[p]
    BY <2>1, <2>3 DEF Workspace!WriteFile
  <2>4. CASE Workspace!Die
    BY <2>1, <2>4 DEF Workspace!Die
  <2>5. CASE Workspace!Edit
    BY <2>1, <2>5 DEF Workspace!Edit, Workspace!Edited
  <2>6. CASE UNCHANGED wfiles
    BY <2>6
  <2> QED
    BY <1>1, <2>2, <2>3, <2>4, <2>5, <2>6 DEF Workspace!Next, Workspace!vars, Workspace!Start, Workspace!StartWriting,
       Workspace!StartCheck, Workspace!EndCheck, Workspace!ChangeRegistry
<1> QED
  BY <1>1, WorkspaceIsAlwaysSound, PTL DEF Workspace!Spec

-----------------------------------------------------------------------------
(* DirectViews.                                                             *)

Views == INSTANCE DirectViews WITH
  inputs <- current, files <- views, run <- running, moves <- vmoves, crashes <- vcrashes, edits <- vedits,
  losses <- vlosses, MaxMoves <- VMoves, MaxCrashes <- VCrashes, MaxEdits <- VEdits, MaxLosses <- VLosses

Inputs == Views!Registries \X Views!Authored
ViewFiles == [Views!Paths -> Views!Contents \cup {None}]

\* What the two trees hold.
LEMMA TreesOfRoots ==
  ASSUME NEW r \in Views!Roots, NEW i \in Inputs
  PROVE  /\ Views!Tree(r, i) \subseteq Views!Under(r) /\ Views!Manifest(r) \in Views!Tree(r, i)
         /\ Views!Manifest(r) \in {"tman", "vman"} /\ Views!Under(r) \subseteq Views!Paths
         /\ Views!Under("T") \cap Views!Under("V") = {} /\ Views!Paths = Views!Under("T") \cup Views!Under("V")
         /\ Views!Under(r) \ {Views!Manifest(r)} \subseteq Views!Bases \cup {"hero"} \cup Views!Exact \cup Views!Marked
         /\ "index" \in Views!Tree("V", i) /\ Views!Manifest("V") = "vman" /\ Views!Manifest("T") = "tman"
         /\ Views!Roots = {"T", "V"} /\ "index" # "vman" /\ "index" \in Views!Under("V") /\ "vman" \in Views!Under("V")
         /\ "tman" \in Views!Under("T") /\ "hero" \notin Views!Under("V")
BY DEF Views!Roots, Inputs, Views!Tree, Views!Under, Views!Manifest, Views!Paths, Views!Bases, Views!Exact, Views!Marked

LEMMA EmittedContents ==
  ASSUME NEW p \in Views!Paths, NEW i \in Inputs
  PROVE  /\ Views!Emitted(p, i) \in Views!Contents /\ Views!Emitted(p, i).touch = "none"
         /\ p \notin Views!Under("T") => Views!Emitted(p, i).at = i
BY DEF Inputs, Views!Emitted, Views!Contents, Views!Registries, Views!Authored

\* What is owned carries no edit that the run would lose.
LEMMA OwnedIsUnedited ==
  ASSUME NEW r \in Views!Roots, NEW i \in Inputs, NEW fs \in ViewFiles, NEW p \in Views!Under(r) \ {Views!Manifest(r)},
         fs[p] # None, fs[Views!Manifest(r)] # None, Views!Owned(fs, r, p, i)
  PROVE  \/ fs[p].touch \in {"none", "dress"}
         \/ p \in Views!Marked /\ p \in Views!Tree(r, i) /\ fs[p].touch = "body"
<1>1. /\ p \in Views!Bases \cup {"hero"} \cup Views!Exact \cup Views!Marked /\ p \in Views!Paths
      /\ Views!Manifest(r) \in Views!Paths
  BY TreesOfRoots
<1>2. fs[p].touch \in {"none", "dress", "body", "marker"} /\ fs[Views!Manifest(r)].at \in Inputs
  BY <1>1 DEF ViewFiles, Views!Contents, Inputs
<1> DEFINE item == Views!Emitted(p, fs[Views!Manifest(r)].at)
           now == IF p \in Views!Tree(r, i) THEN {item, Views!Emitted(p, i)} ELSE {item}
<1>3. \A e \in now : e.touch = "none"
  BY <1>1, <1>2, EmittedContents
<1>4. /\ p \in Views!Bases => \E e \in now : Views!SameMeaning(fs[p], e)
      /\ p = "hero" => fs[p] = item
      /\ p \in Views!Exact => fs[p] \in now
      /\ p \in Views!Marked => fs[p].touch # "marker" /\ (p \notin Views!Tree(r, i) => fs[p] = item)
  BY DEF Views!Owned
<1>5. item \in now
  OBVIOUS
<1> HIDE DEF item, now
<1> QED
  BY <1>1, <1>2, <1>3, <1>4, <1>5 DEF Views!SameMeaning

\* What a projector of the views has just written is its own.
LEMMA WrittenIsOwned ==
  ASSUME NEW i \in Inputs, NEW fs \in ViewFiles, NEW p \in Views!Tree("V", i), fs[p] = Views!Emitted(p, i)
  PROVE  Views!Owned(fs, "V", p, i)
<1>1. p \in Views!Paths /\ p # "hero"
  BY TreesOfRoots DEF Views!Roots
<1>2. fs[p].touch = "none"
  BY <1>1, EmittedContents
<1> QED
  BY <1>1, <1>2 DEF Views!Owned, Views!SameMeaning

LEMMA OwnedLooksAtTwo ==
  ASSUME NEW fs, NEW gs, NEW r, NEW p, NEW i, fs[p] = gs[p], fs[Views!Manifest(r)] = gs[Views!Manifest(r)],
         Views!Owned(fs, r, p, i)
  PROVE  Views!Owned(gs, r, p, i)
BY DEF Views!Owned

LEMMA ListedLooksAtManifest ==
  ASSUME NEW fs, NEW gs, NEW r, fs[Views!Manifest(r)] = gs[Views!Manifest(r)]
  PROVE  Views!Listed(fs, r) = Views!Listed(gs, r)
BY DEF Views!Listed

\* The technical tree is exactly what Registry i emits, but for what was edited since the checks.
RecordsStand(i) ==
  \A p \in Views!Under("T") \ late : views[p] = (IF p \in Views!Tree("T", i) THEN Views!Emitted(p, i) ELSE None)

\* A running projector has listed what it removes, owns what it will write over (one of the views
\* also what it has written), and one of the views stands on the records and keeps the history.
ProjectorInv ==
  running # None =>
    /\ died = None
    /\ running \in [root : Views!Roots, at : Inputs, obsolete : SUBSET Views!Paths, todo : SUBSET Views!Paths]
    /\ running.todo \subseteq Views!Tree(running.root, running.at) \ {Views!Manifest(running.root)}
    /\ running.obsolete \subseteq Views!Listed(views, running.root) \ Views!Tree(running.root, running.at)
    /\ \A p \in running.todo : views[p] # None => p \in Views!Listed(views, running.root)
    /\ \A p \in (Views!Actual(views, running.root) \cap Views!Listed(views, running.root)) \ late :
         (p \in running.obsolete \cup running.todo \/ running.root = "V") =>
           Views!Owned(views, running.root, p, running.at)

ViewsRunInv ==
  (running # None /\ running.root = "V") =>
    /\ Views!HistoryKept(views, running.at) /\ RecordsStand(running.at)
    /\ views["vman"] # None => running.at[2] >= views["vman"].at[2]
    /\ "index" \notin running.todo => views["index"] # None /\ views["index"].at = running.at

\* The published index knows every source the manifest beside it knows.
IndexKnows == (views["vman"] # None /\ views["index"] # None) => views["index"].at[2] >= views["vman"].at[2]

ViewsTypes == current \in Inputs /\ views \in ViewFiles /\ late \subseteq Views!Paths /\ vedits \in Nat

ViewsInv == ViewsTypes /\ ProjectorInv /\ ViewsRunInv /\ IndexKnows /\ Views!InterruptedViewsGoOn

\* A listed file belongs to the root and is not its manifest.
LEMMA ListedIsUnder ==
  ASSUME NEW r \in Views!Roots, NEW fs \in ViewFiles
  PROVE  /\ Views!Listed(fs, r) \subseteq Views!Under(r) \ {Views!Manifest(r)}
         /\ Views!Listed(fs, r) # {} => fs[Views!Manifest(r)] # None
         /\ fs["vman"] # None => "index" \in Views!Listed(fs, "V")
<1>1. \A q \in Views!Roots : fs[Views!Manifest(q)] # None => fs[Views!Manifest(q)].at \in Inputs
  BY TreesOfRoots DEF ViewFiles, Views!Contents, Inputs, Views!Roots, Views!Manifest, Views!Paths, Views!Under
<1>2. "V" \in Views!Roots /\ "vman" = Views!Manifest("V") /\ "index" # "vman"
  BY DEF Views!Roots, Views!Manifest
<1> QED
  BY <1>1, <1>2, TreesOfRoots DEF Views!Listed

\* The checks hold again over what a projector of the views has left.
LEMMA LeftIsAccepted ==
  ASSUME Views!NoneAssumption, NEW i \in Inputs, ViewsTypes, late = {}, RecordsStand(i), Views!HistoryKept(views, i),
         \A p \in Views!Actual(views, "V") \cap Views!Listed(views, "V") : Views!Owned(views, "V", p, i),
         NEW gone, gone = Views!Actual(views, "V") \ (Views!Listed(views, "V") \cup {"vman"}),
         NEW kept, kept = [p \in Views!Paths |-> IF p \in gone THEN None ELSE views[p]]
  PROVE  Views!Accepts(kept, "V", i)
<1>1. /\ "V" \in Views!Roots /\ "T" \in Views!Roots /\ Views!Manifest("V") = "vman" /\ Views!Manifest("T") = "tman"
      /\ "vman" \in Views!Paths /\ "index" \in Views!Paths /\ Views!Under("V") \subseteq Views!Paths
      /\ Views!Under("T") \subseteq Views!Paths /\ Views!Under("T") \cap Views!Under("V") = {}
      /\ "vman" \in Views!Under("V") /\ "tman" \in Views!Under("T")
  BY DEF Views!Roots, Views!Manifest, Views!Paths, Views!Under
<1>2. kept["vman"] = views["vman"] /\ \A p \in Views!Paths \ gone : kept[p] = views[p]
  BY <1>1
<1>3. \A p \in gone : p \in Views!Under("V") /\ p \notin Views!Listed(views, "V") /\ kept[p] = None
  BY <1>1 DEF Views!Actual
<1>4. Views!Listed(kept, "V") = Views!Listed(views, "V")
  BY <1>1, <1>2, ListedLooksAtManifest
<1>5. Views!Actual(kept, "V") = Views!Actual(views, "V") \ gone
  BY <1>1, <1>2, <1>3 DEF Views!Actual
<1>6. Views!Ownership(kept, "V", i)
  <2>1. Views!Actual(kept, "V") \ {Views!Manifest("V")} \subseteq Views!Listed(kept, "V")
    BY <1>1, <1>4, <1>5
  <2>2. ASSUME NEW p \in Views!Actual(kept, "V") \cap Views!Listed(kept, "V")
        PROVE  Views!Owned(kept, "V", p, i)
    <3>1. p \in Views!Actual(views, "V") \cap Views!Listed(views, "V") /\ p \in Views!Paths \ gone
      BY <1>1, <1>4, <1>5 DEF Views!Actual
    <3> QED
      BY <1>1, <1>2, <3>1, OwnedLooksAtTwo
  <2> QED
    BY <2>1, <2>2 DEF Views!Ownership
<1>7. \A p \in Views!Under("T") : kept[p] = (IF p \in Views!Tree("T", i) THEN Views!Emitted(p, i) ELSE None)
  BY <1>1, <1>2, <1>3 DEF RecordsStand
<1>8. Views!Actual(kept, "T") = Views!Tree("T", i) /\ \A p \in Views!Tree("T", i) : kept[p] = Views!Emitted(p, i)
  <2>1. \A p \in Views!Tree("T", i) : p \in Views!Under("T") /\ Views!Emitted(p, i) # None
    BY <1>1, TreesOfRoots, EmittedContents DEF Views!NoneAssumption
  <2> QED
    BY <1>7, <2>1 DEF Views!Actual
<1>9. Views!CheckPasses(kept, "T", i)
  BY <1>8 DEF Views!CheckPasses
<1>10. /\ "tman" \in Views!Tree("T", i) /\ kept["tman"].at = <<i[1], 1>> /\ kept["tman"] # None
  <2>1. "tman" \in Views!Tree("T", i) /\ "tman" \in Views!Paths
    BY <1>1 DEF Views!Tree
  <2>2. kept["tman"] = Views!Emitted("tman", i) /\ Views!Emitted("tman", i) \in Views!Contents
    BY <1>8, <2>1, EmittedContents
  <2>3. Views!Emitted("tman", i).at = <<i[1], 1>>
    BY <1>1 DEF Views!Emitted
  <2> QED
    BY <2>1, <2>2, <2>3 DEF Views!NoneAssumption
<1>11. /\ Views!Listed(kept, "T") = Views!Tree("T", i) \ {"tman"}
       /\ \A p \in Views!Tree("T", i) : Views!Emitted(p, kept["tman"].at) = Views!Emitted(p, i)
  <2>1. <<i[1], 1>>[1] = i[1]
    OBVIOUS
  <2>2. Views!Tree("T", kept["tman"].at) = Views!Tree("T", i)
    BY <1>10, <2>1 DEF Views!Tree
  <2>3. \A p \in Views!Tree("T", i) : Views!Emitted(p, kept["tman"].at) = Views!Emitted(p, i)
    BY <1>1, <1>10, <2>1, TreesOfRoots DEF Views!Emitted
  <2> QED
    BY <1>1, <1>10, <2>2, <2>3 DEF Views!Listed
<1>12. Views!Ownership(kept, "T", i)
  <2>1. ASSUME NEW p \in Views!Tree("T", i)
        PROVE  Views!Owned(kept, "T", p, i)
    <3>1. kept[p] = Views!Emitted(p, i) /\ Views!Emitted(p, kept["tman"].at) = Views!Emitted(p, i) /\ p \in Views!Paths
      BY <1>1, <1>8, <1>11, TreesOfRoots
    <3>2. kept[p].touch = "none"
      BY <3>1, EmittedContents
    <3> QED
      BY <1>1, <3>1, <3>2 DEF Views!Owned, Views!SameMeaning
  <2> QED
    BY <1>1, <1>8, <1>11, <2>1 DEF Views!Ownership
<1>13. Views!HistoryKept(kept, i)
  <2>1. CASE "index" \in Views!Listed(kept, "V")
    <3>1. "index" \notin gone
      BY <1>3, <1>4, <2>1
    <3> QED
      BY <1>1, <1>2, <1>4, <3>1 DEF Views!HistoryKept
  <2> QED
    BY <2>1 DEF Views!HistoryKept
<1> QED
  BY <1>6, <1>9, <1>12, <1>13 DEF Views!Accepts

LEMMA ViewsInitLemma ==
  ASSUME Views!ViewsAssumption, Views!NoneAssumption, Views!Init
  PROVE  ViewsInv
BY DEF Views!Init, ViewsInv, ViewsTypes, ProjectorInv, ViewsRunInv, IndexKnows, Views!InterruptedViewsGoOn, Inputs, ViewFiles,
  Views!Registries, Views!Authored, Views!Paths, Views!Under

\* The checks before a run establish what it relies on.
LEMMA ProjectLemma ==
  ASSUME Views!NoneAssumption, ViewsInv, Views!Project
  PROVE  ViewsInv'
<1>1. PICK r \in Views!Roots :
         /\ Views!Accepts(views, r, current)
         /\ running' = [root |-> r, at |-> current, obsolete |-> Views!Listed(views, r) \ Views!Tree(r, current),
                        todo |-> Views!Tree(r, current) \ {Views!Manifest(r)}]
  BY DEF Views!Project
<1>2. /\ current' = current /\ views' = views /\ late' = {} /\ vedits' = vedits /\ died' = None /\ running = None
      /\ ViewsTypes /\ IndexKnows
  BY DEF Views!Project, ViewsInv
<1>3. /\ current \in Inputs /\ views \in ViewFiles
      /\ running'.root = r /\ running'.at = current
      /\ running'.obsolete = Views!Listed(views, r) \ Views!Tree(r, current)
      /\ running'.todo = Views!Tree(r, current) \ {Views!Manifest(r)}
  BY <1>1, <1>2 DEF ViewsTypes
<1>4. /\ Views!Tree(r, current) \subseteq Views!Paths /\ Views!Tree(r, current) \subseteq Views!Under(r)
      /\ Views!Under(r) \subseteq Views!Paths /\ Views!Listed(views, r) \subseteq Views!Paths
  BY <1>3, TreesOfRoots, ListedIsUnder
<1>5. Views!Ownership(views, r, current)
  BY <1>1 DEF Views!Accepts
<1>6. ProjectorInv'
  <2>1. running' \in [root : Views!Roots, at : Inputs, obsolete : SUBSET Views!Paths, todo : SUBSET Views!Paths]
    BY <1>1, <1>3, <1>4
  <2>2. \A p \in running'.todo : views[p] # None => p \in Views!Listed(views, r)
    BY <1>3, <1>4, <1>5 DEF Views!Ownership, Views!Actual
  <2>3. \A p \in Views!Actual(views, r) \cap Views!Listed(views, r) : Views!Owned(views, r, p, current)
    BY <1>5 DEF Views!Ownership
  <2> QED
    BY <1>2, <1>3, <2>1, <2>2, <2>3 DEF ProjectorInv
<1>7. ViewsRunInv'
  <2> SUFFICES ASSUME r = "V"
               PROVE  ViewsRunInv'
    BY <1>3 DEF ViewsRunInv
  <2>1. Views!CheckPasses(views, "T", current) /\ Views!HistoryKept(views, current)
    BY <1>1 DEF Views!Accepts
  <2>2. \A p \in Views!Under("T") :
          views[p] = (IF p \in Views!Tree("T", current) THEN Views!Emitted(p, current) ELSE None)
    BY <2>1 DEF Views!CheckPasses, Views!Actual
  <2>3. RecordsStand(current)'
    BY <1>2, <2>2 DEF RecordsStand
  <2>4. "index" \in running'.todo
    BY <1>3, TreesOfRoots
  <2>5. ASSUME views["vman"] # None
        PROVE  current[2] >= views["vman"].at[2]
    <3>1. "index" \in Views!Listed(views, "V")
      BY <1>3, <2>5, ListedIsUnder
    <3>2. "vman" \in Views!Paths /\ "index" \in Views!Paths /\ "index" \notin Views!Under("T")
      BY DEF Views!Paths, Views!Under
    <3>3. views["vman"].at \in Inputs /\ (views["index"] # None => views["index"].at \in Inputs)
      BY <1>3, <2>5, <3>2 DEF ViewFiles, Views!Contents, Inputs
    <3>4. CASE views["index"] = None
      <4>1. Views!Emitted("index", current) = Views!Emitted("index", views["vman"].at)
        BY <2>1, <3>1, <3>4 DEF Views!HistoryKept
      <4>2. current = views["vman"].at
        BY <1>3, <3>2, <3>3, <4>1, EmittedContents
      <4> QED
        BY <1>3, <4>2 DEF Inputs, Views!Authored
    <3>5. CASE views["index"] # None
      <4>1. current[2] >= views["index"].at[2] /\ views["index"].at[2] >= views["vman"].at[2]
        BY <1>2, <2>1, <2>5, <3>1, <3>5 DEF Views!HistoryKept, IndexKnows
      <4> QED
        BY <1>3, <3>3, <3>5, <4>1 DEF Inputs, Views!Authored
    <3> QED
      BY <3>4, <3>5
  <2> QED
    BY <1>2, <1>3, <2>1, <2>3, <2>4, <2>5 DEF ViewsRunInv
<1>8. ViewsTypes'
  BY <1>2 DEF ViewsTypes
<1>9. IndexKnows' /\ Views!InterruptedViewsGoOn'
  BY <1>2 DEF IndexKnows, Views!InterruptedViewsGoOn
<1> QED
  BY <1>6, <1>7, <1>8, <1>9 DEF ViewsInv

\* A file of a run's root that is not its manifest may change without the run losing what it listed.
LEMMA RemoveLemma ==
  ASSUME Views!NoneAssumption, ViewsInv, Views!Remove
  PROVE  ViewsInv'
<1> DEFINE r == running.root
           i == running.at
<1>1. PICK p \in running.obsolete :
         views' = [views EXCEPT ![p] = None] /\ running' = [running EXCEPT !.obsolete = @ \ {p}]
  BY DEF Views!Remove
<1>2. current' = current /\ late' = late /\ died' = died /\ running # None /\ vedits' = vedits
  BY DEF Views!Remove
<1>3. ViewsTypes /\ ProjectorInv /\ ViewsRunInv /\ IndexKnows
  BY DEF ViewsInv
<1>4. /\ running \in [root : Views!Roots, at : Inputs, obsolete : SUBSET Views!Paths, todo : SUBSET Views!Paths]
      /\ died = None /\ views \in ViewFiles
  BY <1>2, <1>3 DEF ProjectorInv, ViewsTypes
<1>5. /\ r \in Views!Roots /\ i \in Inputs /\ running'.root = r /\ running'.at = i
      /\ running'.obsolete = running.obsolete \ {p} /\ running'.todo = running.todo
      /\ running' \in [root : Views!Roots, at : Inputs, obsolete : SUBSET Views!Paths, todo : SUBSET Views!Paths]
  BY <1>1, <1>4
<1>6. p \in Views!Listed(views, r) /\ p \notin Views!Tree(r, i) /\ p \in Views!Under(r) /\ p # Views!Manifest(r)
  BY <1>1, <1>2, <1>3, <1>4, <1>5, ListedIsUnder DEF ProjectorInv
<1>7. /\ p \in Views!Paths /\ p # "index" /\ views' \in ViewFiles /\ views'[p] = None
      /\ \A q \in Views!Paths \ {p} : views'[q] = views[q]
      /\ p # "vman" /\ (r = "V" => p \notin Views!Under("T"))
      /\ Views!Manifest(r) \in Views!Paths /\ Views!Under("T") \subseteq Views!Paths
      /\ "index" \in Views!Paths /\ "vman" \in Views!Paths
      /\ "tman" # p
  <2>1. p \in Views!Paths
    BY <1>4, <1>1
  <2>2. views' \in ViewFiles /\ views'[p] = None /\ \A q \in Views!Paths \ {p} : views'[q] = views[q]
    BY <1>1, <1>4, <2>1 DEF ViewFiles
  <2>3. /\ p # "index" /\ p # "vman" /\ "tman" # p /\ (r = "V" => p \notin Views!Under("T"))
        /\ Views!Manifest(r) \in Views!Paths /\ Views!Under("T") \subseteq Views!Paths
        /\ "index" \in Views!Paths /\ "vman" \in Views!Paths
    BY <1>5, <1>6, TreesOfRoots DEF Views!Roots, Views!Tree, Views!Manifest, Views!Under, Views!Paths
  <2> QED
    BY <2>1, <2>2, <2>3
<1>8. views'[Views!Manifest(r)] = views[Views!Manifest(r)]
  BY <1>6, <1>7
<1>9. Views!Listed(views', r) = Views!Listed(views, r)
  BY <1>8, ListedLooksAtManifest
<1>10. ProjectorInv'
  <2>1. running'.obsolete \subseteq Views!Listed(views', r) \ Views!Tree(r, i)
    BY <1>2, <1>3, <1>5, <1>9 DEF ProjectorInv
  <2>2. running'.todo \subseteq Views!Tree(r, i) \ {Views!Manifest(r)} /\ running'.todo \subseteq Views!Paths
    BY <1>2, <1>3, <1>5, <1>4 DEF ProjectorInv
  <2>3. \A q \in running'.todo : views'[q] # None => q \in Views!Listed(views', r)
    BY <1>2, <1>3, <1>5, <1>7, <1>9, <2>2 DEF ProjectorInv
  <2>4. ASSUME NEW q \in (Views!Actual(views', r) \cap Views!Listed(views', r)) \ late',
               q \in running'.obsolete \cup running'.todo \/ r = "V"
        PROVE  Views!Owned(views', r, q, i)
    <3>1. q # p /\ q \in Views!Paths /\ views'[q] = views[q] /\ q \in Views!Actual(views, r) \cap Views!Listed(views, r)
      BY <1>5, <1>7, <1>9, <2>4, TreesOfRoots DEF Views!Actual
    <3>2. Views!Owned(views, r, q, i)
      BY <1>2, <1>3, <1>5, <2>4, <3>1 DEF ProjectorInv
    <3> QED
      BY <1>8, <3>1, <3>2, OwnedLooksAtTwo
  <2> QED
    BY <1>2, <1>4, <1>5, <2>1, <2>2, <2>3, <2>4 DEF ProjectorInv
<1>11. ViewsRunInv'
  <2> SUFFICES ASSUME r = "V"
               PROVE  ViewsRunInv'
    BY <1>5 DEF ViewsRunInv
  <2>1. views'["index"] = views["index"] /\ views'["vman"] = views["vman"]
    BY <1>7
  <2>2. Views!HistoryKept(views', i)
    BY <1>2, <1>3, <1>5, <1>9, <2>1 DEF ViewsRunInv, Views!HistoryKept
  <2>3. RecordsStand(i)'
    BY <1>2, <1>3, <1>5, <1>7 DEF ViewsRunInv, RecordsStand
  <2> QED
    BY <1>2, <1>3, <1>5, <2>1, <2>2, <2>3 DEF ViewsRunInv
<1>12. IndexKnows' /\ ViewsTypes'
  BY <1>2, <1>3, <1>7 DEF IndexKnows, ViewsTypes
<1>13. Views!InterruptedViewsGoOn'
  BY <1>2, <1>4 DEF Views!InterruptedViewsGoOn
<1> QED
  BY <1>10, <1>11, <1>12, <1>13 DEF ViewsInv

LEMMA WriteLemma ==
  ASSUME Views!NoneAssumption, ViewsInv, Views!Write
  PROVE  ViewsInv'
<1> DEFINE r == running.root
           i == running.at
<1>1. PICK p \in running.todo :
         views' = [views EXCEPT ![p] = Views!Emitted(p, i)] /\ running' = [running EXCEPT !.todo = @ \ {p}]
  BY DEF Views!Write
<1>2. current' = current /\ late' = late /\ died' = died /\ running # None /\ vedits' = vedits
  BY DEF Views!Write
<1>3. ViewsTypes /\ ProjectorInv /\ ViewsRunInv /\ IndexKnows
  BY DEF ViewsInv
<1>4. /\ running \in [root : Views!Roots, at : Inputs, obsolete : SUBSET Views!Paths, todo : SUBSET Views!Paths]
      /\ died = None /\ views \in ViewFiles
  BY <1>2, <1>3 DEF ProjectorInv, ViewsTypes
<1>5. /\ r \in Views!Roots /\ i \in Inputs /\ running'.root = r /\ running'.at = i
      /\ running'.obsolete = running.obsolete /\ running'.todo = running.todo \ {p}
      /\ running' \in [root : Views!Roots, at : Inputs, obsolete : SUBSET Views!Paths, todo : SUBSET Views!Paths]
  BY <1>1, <1>4
<1>6. p \in Views!Tree(r, i) /\ p \in Views!Under(r) /\ p # Views!Manifest(r)
  BY <1>1, <1>2, <1>3, <1>5, TreesOfRoots DEF ProjectorInv
<1>7. /\ p \in Views!Paths /\ views' \in ViewFiles /\ views'[p] = Views!Emitted(p, i)
      /\ views'[p] # None
      /\ \A q \in Views!Paths \ {p} : views'[q] = views[q]
      /\ p # "vman" /\ (r = "V" => p \notin Views!Under("T")) /\ (r # "V" => p # "index")
      /\ Views!Manifest(r) \in Views!Paths /\ Views!Under("T") \subseteq Views!Paths
      /\ "index" \in Views!Paths /\ "vman" \in Views!Paths /\ "index" \notin Views!Under("T")
  <2>1. p \in Views!Paths
    BY <1>4, <1>1
  <2>2. Views!Emitted(p, i) \in Views!Contents
    BY <1>5, <2>1, EmittedContents
  <2>3. /\ views' \in ViewFiles /\ views'[p] = Views!Emitted(p, i) /\ views'[p] # None
        /\ \A q \in Views!Paths \ {p} : views'[q] = views[q]
    BY <1>1, <1>4, <2>1, <2>2 DEF ViewFiles, Views!NoneAssumption
  <2>4. /\ p # "vman" /\ (r = "V" => p \notin Views!Under("T")) /\ (r # "V" => p # "index")
        /\ Views!Manifest(r) \in Views!Paths /\ Views!Under("T") \subseteq Views!Paths
        /\ "index" \in Views!Paths /\ "vman" \in Views!Paths /\ "index" \notin Views!Under("T")
    BY <1>5, <1>6 DEF Views!Roots, Views!Manifest, Views!Under, Views!Paths
  <2> QED
    BY <2>1, <2>3, <2>4
<1>8. views'[Views!Manifest(r)] = views[Views!Manifest(r)]
  BY <1>6, <1>7
<1>9. Views!Listed(views', r) = Views!Listed(views, r)
  BY <1>8, ListedLooksAtManifest
<1>10. ProjectorInv'
  <2>1. running'.obsolete \subseteq Views!Listed(views', r) \ Views!Tree(r, i)
    BY <1>2, <1>3, <1>5, <1>9 DEF ProjectorInv
  <2>2. running'.todo \subseteq Views!Tree(r, i) \ {Views!Manifest(r)} /\ running'.todo \subseteq Views!Paths
    BY <1>2, <1>3, <1>5, <1>4 DEF ProjectorInv
  <2>3. \A q \in running'.todo : views'[q] # None => q \in Views!Listed(views', r)
    BY <1>2, <1>3, <1>5, <1>7, <1>9, <2>2 DEF ProjectorInv
  <2>4. ASSUME NEW q \in (Views!Actual(views', r) \cap Views!Listed(views', r)) \ late',
               q \in running'.obsolete \cup running'.todo \/ r = "V"
        PROVE  Views!Owned(views', r, q, i)
    <3>1. CASE q = p
      <4>1. r = "V"
        BY <1>2, <1>3, <1>5, <1>6, <2>1, <2>4, <3>1
      <4> QED
        BY <1>5, <1>6, <1>7, <3>1, <4>1, WrittenIsOwned
    <3>2. CASE q # p
      <4>1. /\ q \in Views!Paths /\ views'[q] = views[q] /\ q \in Views!Actual(views, r) \cap Views!Listed(views, r)
        BY <1>5, <1>7, <1>9, <2>4, <3>2, TreesOfRoots DEF Views!Actual
      <4>2. Views!Owned(views, r, q, i)
        BY <1>2, <1>3, <1>5, <2>4, <4>1 DEF ProjectorInv
      <4> QED
        BY <1>8, <4>1, <4>2, OwnedLooksAtTwo
    <3> QED
      BY <3>1, <3>2
  <2> QED
    BY <1>2, <1>4, <1>5, <2>1, <2>2, <2>3, <2>4 DEF ProjectorInv
<1>e. /\ p = "index" => views'["index"].at = i
      /\ i[2] \in {1, 2}
  BY <1>5, <1>7, EmittedContents DEF Inputs, Views!Authored
<1>11. ViewsRunInv'
  <2> SUFFICES ASSUME r = "V"
               PROVE  ViewsRunInv'
    BY <1>5 DEF ViewsRunInv
  <2>1. views'["vman"] = views["vman"] /\ (p # "index" => views'["index"] = views["index"])
    BY <1>7
  <2>2. Views!HistoryKept(views', i)
    <3>1. CASE p = "index"
      <4>1. i[2] >= views'["index"].at[2] /\ views'["index"] # None
        BY <1>e, <1>7, <3>1
      <4> QED
        BY <4>1 DEF Views!HistoryKept
    <3>2. CASE p # "index"
      BY <1>2, <1>3, <1>5, <1>9, <2>1, <3>2 DEF ViewsRunInv, Views!HistoryKept
    <3> QED
      BY <3>1, <3>2
  <2>3. RecordsStand(i)'
    BY <1>2, <1>3, <1>5, <1>7 DEF ViewsRunInv, RecordsStand
  <2>4. "index" \notin running'.todo => views'["index"] # None /\ views'["index"].at = i
    BY <1>2, <1>3, <1>5, <1>7, <1>e, <2>1 DEF ViewsRunInv
  <2> QED
    BY <1>2, <1>3, <1>5, <2>1, <2>2, <2>3, <2>4 DEF ViewsRunInv
<1>12. IndexKnows'
  <2>1. CASE p = "index"
    <3>1. r = "V" /\ views'["vman"] = views["vman"]
      BY <1>7, <2>1
    <3>2. views["vman"] # None => i[2] >= views["vman"].at[2]
      BY <1>2, <1>3, <3>1 DEF ViewsRunInv
    <3> QED
      BY <1>e, <2>1, <3>1, <3>2 DEF IndexKnows
  <2>2. CASE p # "index"
    BY <1>3, <1>7, <2>2 DEF IndexKnows
  <2> QED
    BY <2>1, <2>2
<1>13. ViewsTypes'
  BY <1>2, <1>3, <1>7 DEF ViewsTypes
<1>14. Views!InterruptedViewsGoOn'
  BY <1>2, <1>4 DEF Views!InterruptedViewsGoOn
<1> QED
  BY <1>10, <1>11, <1>12, <1>13, <1>14 DEF ViewsInv

LEMMA WriteManifestLemma ==
  ASSUME Views!NoneAssumption, ViewsInv, Views!WriteManifest
  PROVE  ViewsInv'
<1> DEFINE r == running.root
           i == running.at
           m == Views!Manifest(r)
<1>1. /\ views' = [views EXCEPT ![m] = Views!Emitted(m, i)] /\ running' = None /\ running # None
      /\ current' = current /\ late' = late /\ died' = died /\ running.todo = {} /\ vedits' = vedits
  BY DEF Views!WriteManifest
<1>2. ViewsTypes /\ ProjectorInv /\ ViewsRunInv /\ IndexKnows
  BY DEF ViewsInv
<1>3. r \in Views!Roots /\ i \in Inputs /\ died = None /\ views \in ViewFiles
  BY <1>1, <1>2 DEF ProjectorInv, ViewsTypes
<1>4. /\ m \in Views!Paths /\ m \in {"tman", "vman"} /\ (m = "vman" => r = "V")
      /\ "vman" \in Views!Paths /\ "index" \in Views!Paths /\ "vman" \notin Views!Under("T")
  BY <1>3 DEF Views!Roots, Views!Manifest, Views!Paths, Views!Under
<1>5. Views!Emitted(m, i) \in Views!Contents /\ (m = "vman" => Views!Emitted(m, i).at = i)
  BY <1>3, <1>4, EmittedContents
<1>6. views' \in ViewFiles /\ views'[m] = Views!Emitted(m, i) /\ \A q \in Views!Paths \ {m} : views'[q] = views[q]
  BY <1>1, <1>3, <1>4, <1>5 DEF ViewFiles
<1>7. IndexKnows'
  <2>1. CASE m = "vman"
    <3>1. views["index"] # None /\ views["index"].at = i
      BY <1>1, <1>2, <1>4, <2>1 DEF ViewsRunInv
    <3> QED
      BY <1>3, <1>4, <1>5, <1>6, <2>1, <3>1 DEF IndexKnows, Inputs, Views!Authored
  <2>2. CASE m # "vman"
    BY <1>2, <1>4, <1>6, <2>2 DEF IndexKnows
  <2> QED
    BY <2>1, <2>2
<1> QED
  BY <1>1, <1>2, <1>3, <1>6, <1>7 DEF ViewsInv, ViewsTypes, ProjectorInv, ViewsRunInv, Views!InterruptedViewsGoOn

LEMMA CrashLemma ==
  ASSUME Views!NoneAssumption, ViewsInv, Views!Crash
  PROVE  ViewsInv'
<1>1. /\ running # None /\ running' = None /\ current' = current /\ views' = views /\ late' = late /\ vedits' = vedits
      /\ died' = IF late = {} /\ running.at = current THEN running ELSE None
  BY DEF Views!Crash
<1>2. ViewsTypes /\ ProjectorInv /\ ViewsRunInv /\ IndexKnows
  BY DEF ViewsInv
<1>3. Views!InterruptedViewsGoOn'
  <2> SUFFICES ASSUME died' # None, died'.root = "V"
               PROVE  Views!InterruptedViewsGoOn'
    BY DEF Views!InterruptedViewsGoOn
  <2>1. late = {} /\ running.at = current /\ running.root = "V"
    BY <1>1
  <2> DEFINE gone == Views!Actual(views, "V") \ (Views!Listed(views, "V") \cup {"vman"})
             kept == [p \in Views!Paths |-> IF p \in gone THEN None ELSE views[p]]
  <2>2. current \in Inputs /\ RecordsStand(current) /\ Views!HistoryKept(views, current)
    BY <1>1, <1>2, <2>1 DEF ViewsTypes, ViewsRunInv
  <2>3. \A p \in Views!Actual(views, "V") \cap Views!Listed(views, "V") : Views!Owned(views, "V", p, current)
    BY <1>1, <1>2, <2>1 DEF ProjectorInv
  <2>4. Views!Accepts(kept, "V", current)
    BY <1>2, <2>1, <2>2, <2>3, LeftIsAccepted
  <2> QED
    BY <1>1, <2>4 DEF Views!InterruptedViewsGoOn
<1> QED
  BY <1>1, <1>2, <1>3 DEF ViewsInv, ViewsTypes, ProjectorInv, ViewsRunInv, IndexKnows

LEMMA EditLemma ==
  ASSUME Views!NoneAssumption, ViewsInv, Views!Edit
  PROVE  ViewsInv'
<1>1. PICK p \in Views!Paths \ {"tman", "vman"}, touch \in {"none", "dress", "body", "marker"} :
         /\ views[p] # None /\ views' = [views EXCEPT ![p].touch = touch] /\ late' = late \cup {p}
  BY DEF Views!Edit
<1>2. running' = running /\ current' = current /\ died' = None /\ vedits' = vedits + 1
  BY DEF Views!Edit
<1>3. ViewsTypes /\ ProjectorInv /\ ViewsRunInv /\ IndexKnows /\ views \in ViewFiles
  BY DEF ViewsInv, ViewsTypes
<1>4. /\ views' \in ViewFiles /\ views'[p] # None /\ views'[p].at = views[p].at
      /\ \A q \in Views!Paths \ {p} : views'[q] = views[q]
  <2>1. views[p] \in Views!Contents
    BY <1>1, <1>3 DEF ViewFiles
  <2>2. [views[p] EXCEPT !.touch = touch] \in Views!Contents /\ [views[p] EXCEPT !.touch = touch].at = views[p].at
    BY <1>1, <2>1 DEF Views!Contents
  <2>3. views' = [views EXCEPT ![p] = [views[p] EXCEPT !.touch = touch]]
    BY <1>1
  <2> HIDE DEF Views!Contents
  <2> QED
    BY <1>1, <1>3, <2>2, <2>3 DEF ViewFiles, Views!NoneAssumption
<1>5. /\ \A q \in Views!Paths : (views'[q] # None <=> views[q] # None) /\ (views[q] # None => views'[q].at = views[q].at)
      /\ "vman" \in Views!Paths /\ "tman" \in Views!Paths /\ "index" \in Views!Paths
      /\ views'["vman"] = views["vman"] /\ views'["tman"] = views["tman"]
      /\ Views!Under("T") \subseteq Views!Paths /\ Views!Under("V") \subseteq Views!Paths
  BY <1>1, <1>4 DEF Views!Paths, Views!Under
<1>6. \A r : /\ Views!Listed(views', r) = Views!Listed(views, r) /\ views'[Views!Manifest(r)] = views[Views!Manifest(r)]
  BY <1>5, ListedLooksAtManifest DEF Views!Manifest
<1>7. \A r \in Views!Roots : Views!Actual(views', r) = Views!Actual(views, r)
  BY <1>5 DEF Views!Actual, Views!Roots
<1>8. ProjectorInv'
  <2> SUFFICES ASSUME running # None
               PROVE  ProjectorInv'
    BY <1>2 DEF ProjectorInv
  <2> DEFINE r == running.root
             i == running.at
  <2>1. r \in Views!Roots /\ r \in {"T", "V"} /\ running.todo \subseteq Views!Paths
    BY <1>3 DEF ProjectorInv, Views!Roots
  <2>2. ASSUME NEW q \in (Views!Actual(views', r) \cap Views!Listed(views', r)) \ late',
               q \in running.obsolete \cup running.todo \/ r = "V"
        PROVE  Views!Owned(views', r, q, i)
    <3>1. q \in (Views!Actual(views, r) \cap Views!Listed(views, r)) \ late /\ q # p /\ q \in Views!Paths
      BY <1>1, <1>5, <1>6, <1>7, <2>1, <2>2 DEF Views!Actual
    <3>2. Views!Owned(views, r, q, i)
      BY <1>3, <2>2, <3>1 DEF ProjectorInv
    <3> QED
      BY <1>4, <1>6, <3>1, <3>2, OwnedLooksAtTwo
  <2>3. \A q \in running.todo : views'[q] # None => q \in Views!Listed(views', r)
    BY <1>3, <1>5, <1>6, <2>1 DEF ProjectorInv
  <2> QED
    BY <1>2, <1>3, <1>6, <2>2, <2>3 DEF ProjectorInv
<1>9. ViewsRunInv'
  <2> SUFFICES ASSUME running # None, running.root = "V"
               PROVE  ViewsRunInv'
    BY <1>2 DEF ViewsRunInv
  <2> DEFINE i == running.at
  <2>1. Views!HistoryKept(views', i)
    BY <1>3, <1>5, <1>6 DEF ViewsRunInv, Views!HistoryKept
  <2>2. RecordsStand(i)'
    BY <1>1, <1>2, <1>3, <1>4, <1>5 DEF ViewsRunInv, RecordsStand
  <2> QED
    BY <1>2, <1>3, <1>5, <2>1, <2>2 DEF ViewsRunInv
<1>10. ViewsTypes' /\ IndexKnows'
  BY <1>1, <1>2, <1>3, <1>4, <1>5 DEF ViewsTypes, IndexKnows
<1> QED
  BY <1>2, <1>8, <1>9, <1>10 DEF ViewsInv, Views!InterruptedViewsGoOn

LEMMA MoveOutLemma ==
  ASSUME Views!NoneAssumption, ViewsInv, Views!MoveOut
  PROVE  ViewsInv'
<1>1. PICK p \in Views!Paths : views' = [views EXCEPT ![p] = None]
  BY DEF Views!MoveOut
<1>2. running' = None /\ current' = current /\ died' = None /\ late' = late /\ vedits' = vedits
  BY DEF Views!MoveOut
<1>3. ViewsTypes /\ IndexKnows /\ views \in ViewFiles
  BY DEF ViewsInv, ViewsTypes
<1>4. /\ views' \in ViewFiles /\ \A q \in Views!Paths : views'[q] = None \/ views'[q] = views[q]
      /\ "vman" \in Views!Paths /\ "index" \in Views!Paths
  <2>1. "vman" \in Views!Paths /\ "index" \in Views!Paths
    BY DEF Views!Paths, Views!Under
  <2> QED
    BY <1>1, <1>3, <2>1 DEF ViewFiles
<1> QED
  BY <1>2, <1>3, <1>4 DEF ViewsInv, ViewsTypes, ProjectorInv, ViewsRunInv, IndexKnows, Views!InterruptedViewsGoOn

LEMMA ViewsStepLemma ==
  ASSUME Views!NoneAssumption, ViewsInv, [Views!Next]_Views!vars
  PROVE  ViewsInv'
<1>1. CASE Views!InputsMove
  <2>1. /\ current' \in Inputs /\ died' = None /\ views' = views /\ running' = running /\ late' = late /\ vedits' = vedits
    BY <1>1 DEF Views!InputsMove, Inputs
  <2> QED
    BY <2>1 DEF ViewsInv, ViewsTypes, ProjectorInv, ViewsRunInv, RecordsStand, IndexKnows, Views!InterruptedViewsGoOn
<1>2. CASE UNCHANGED Views!vars
  BY <1>2 DEF Views!vars, ViewsInv, ViewsTypes, ProjectorInv, ViewsRunInv, RecordsStand, IndexKnows, Views!InterruptedViewsGoOn
<1> QED
  BY <1>1, <1>2, ProjectLemma, RemoveLemma, WriteLemma, WriteManifestLemma, CrashLemma, EditLemma, MoveOutLemma
  DEF Views!Next

\* The inductive invariant of the two projectors.
THEOREM ViewsAreAlwaysSound ==
  ASSUME Views!ViewsAssumption, Views!NoneAssumption
  PROVE  Views!Spec => []ViewsInv
<1>1. Views!Init => ViewsInv
  BY ViewsInitLemma
<1>2. ViewsInv /\ [Views!Next]_Views!vars => ViewsInv'
  BY ViewsStepLemma
<1> QED
  BY <1>1, <1>2, PTL DEF Views!Spec

\* TypeOK and InterruptedViewsGoOn, for any number of moves, deaths, edits and losses: a projector of the views that
\* died can be repeated at its own inputs once what no manifest lists is moved out.
THEOREM InterruptedViewsAlwaysGoOn ==
  ASSUME Views!ViewsAssumption, Views!NoneAssumption
  PROVE  Views!Spec => [](Views!TypeOK /\ Views!InterruptedViewsGoOn)
<1>1. ViewsInv => Views!TypeOK
  <2> SUFFICES ASSUME ViewsInv
               PROVE  Views!TypeOK
    OBVIOUS
  <2>1. ViewsTypes /\ ProjectorInv
    BY DEF ViewsInv
  <2>2. \A r \in Views!Roots, i \in Inputs : Views!Tree(r, i) \subseteq Views!Under(r)
    BY TreesOfRoots
  <2> QED
    BY <2>1, <2>2 DEF ViewsTypes, ProjectorInv, Views!TypeOK, Inputs, ViewFiles
<1>2. ViewsInv => Views!InterruptedViewsGoOn
  BY DEF ViewsInv
<1> QED
  BY <1>1, <1>2, ViewsAreAlwaysSound, PTL

LEMMA EditsOutliveStep ==
  ASSUME Views!NoneAssumption, ViewsInv, [Views!Next]_Views!vars
  PROVE  Views!EditsOutliveProjection
<1> SUFFICES ASSUME running # None, running' # None, running.root = running'.root, NEW p \in Views!Paths,
                    views[p] # None, views[p].touch \in {"body", "marker"}, views'[p] # views[p],
                    vedits' = vedits, p \notin late
             PROVE  p \in Views!Marked /\ views[p].touch = "body" /\ p \in Views!Tree(running.root, running.at)
  BY DEF Views!EditsOutliveProjection
<1> DEFINE r == running.root
           i == running.at
<1>1. /\ ProjectorInv /\ views \in ViewFiles
      /\ running \in [root : Views!Roots, at : Inputs, obsolete : SUBSET Views!Paths, todo : SUBSET Views!Paths]
  BY DEF ViewsInv, ViewsTypes, ProjectorInv
<1>2. r \in Views!Roots /\ i \in Inputs
  BY <1>1
<1>3. p \in running.obsolete \cup running.todo /\ p \in Views!Listed(views, r) /\ p \in Views!Actual(views, r)
  <2>1. ViewsTypes /\ Views!Listed(views, r) \subseteq Views!Under(r)
    BY <1>1, <1>2, ListedIsUnder DEF ViewsInv
  <2>2. CASE Views!Remove
    <3>1. p \in running.obsolete
      BY <1>1, <2>2 DEF Views!Remove, ViewFiles
    <3> QED
      BY <1>1, <2>1, <3>1 DEF ProjectorInv, Views!Actual
  <2>3. CASE Views!Write
    <3>1. p \in running.todo
      BY <1>1, <2>3 DEF Views!Write, ViewFiles
    <3> QED
      BY <1>1, <2>1, <3>1 DEF ProjectorInv, Views!Actual
  <2>4. ~Views!Edit
    BY <2>1 DEF Views!Edit, ViewsTypes
  <2> QED
    BY <2>2, <2>3, <2>4 DEF Views!Next, Views!vars, Views!Project, Views!WriteManifest, Views!Crash, Views!InputsMove,
      Views!MoveOut
<1>4. Views!Owned(views, r, p, i)
  BY <1>1, <1>3 DEF ProjectorInv
<1>5. /\ p \in Views!Under(r) \ {Views!Manifest(r)} /\ views[Views!Manifest(r)] # None
  BY <1>1, <1>2, <1>3, ListedIsUnder
<1> QED
  BY <1>1, <1>2, <1>4, <1>5, OwnedIsUnedited

LEMMA StandOnRecordsStep ==
  ASSUME Views!NoneAssumption, ViewsInv, [Views!Next]_Views!vars
  PROVE  Views!ViewsStandOnTheirRecords
<1> SUFFICES ASSUME running # None, running.root = "V", views'["vman"] # views["vman"]
             PROVE  RecordsStand(running.at)
  BY DEF Views!ViewsStandOnTheirRecords, RecordsStand
<1> QED
  BY DEF ViewsInv, ViewsRunInv

LEMMA PublishedStep ==
  ASSUME Views!NoneAssumption, ViewsInv, [Views!Next]_Views!vars
  PROVE  Views!PublishedSourcesStay
<1> SUFFICES ASSUME views["vman"] # None, views'["vman"] # None
             PROVE  views'["vman"].at[2] >= views["vman"].at[2]
  BY DEF Views!PublishedSourcesStay
<1>1. /\ ProjectorInv /\ ViewsRunInv /\ views \in ViewFiles /\ "vman" \in Views!Paths
  BY DEF ViewsInv, ViewsTypes, Views!Paths, Views!Under
<1>2. views["vman"].at \in Inputs
  BY <1>1 DEF ViewFiles, Views!Contents, Inputs
<1>3. views["vman"].at[2] \in {1, 2}
  BY <1>2 DEF Inputs, Views!Authored
<1>4. CASE views'["vman"] = views["vman"]
  BY <1>3, <1>4
<1>5. CASE Views!WriteManifest /\ running.root = "V"
  <2>1. /\ running # None /\ running.at \in Inputs
        /\ views' = [views EXCEPT !["vman"] = Views!Emitted("vman", running.at)]
    BY <1>1, <1>5 DEF Views!WriteManifest, ProjectorInv, Views!Manifest
  <2>2. Views!Emitted("vman", running.at).at = running.at
    BY <1>1, <2>1, EmittedContents DEF Views!Under
  <2>3. views'["vman"].at = running.at
    BY <1>1, <2>1, <2>2 DEF ViewFiles
  <2> QED
    BY <1>1, <1>5, <2>1, <2>3 DEF ViewsRunInv
<1>6. CASE Views!WriteManifest /\ running.root # "V"
  BY <1>1, <1>4, <1>6 DEF Views!WriteManifest, ProjectorInv, Views!Manifest, Views!Roots, ViewFiles
<1>7. CASE Views!Remove \/ Views!Write
  <2>1. running # None /\ \E p \in running.obsolete \cup running.todo : \E e : views' = [views EXCEPT ![p] = e]
    BY <1>7 DEF Views!Remove, Views!Write
  <2>2. "vman" \notin running.obsolete \cup running.todo
    <3>1. running.root \in Views!Roots /\ running.at \in Inputs
      BY <1>1, <2>1 DEF ProjectorInv
    <3>2. "vman" \in Views!Under("V") /\ Views!Under("T") \cap Views!Under("V") = {} /\ Views!Manifest("V") = "vman"
          /\ Views!Roots = {"T", "V"}
      BY <3>1, TreesOfRoots
    <3>3. Views!Tree(running.root, running.at) \subseteq Views!Under(running.root)
      BY <3>1, TreesOfRoots
    <3>4. Views!Listed(views, running.root) \subseteq Views!Under(running.root) \ {Views!Manifest(running.root)}
      BY <1>1, <3>1, ListedIsUnder
    <3> QED
      BY <1>1, <2>1, <3>1, <3>2, <3>3, <3>4 DEF ProjectorInv
  <2> QED
    BY <1>1, <1>4, <2>1, <2>2 DEF ViewFiles
<1>8. CASE Views!Edit \/ Views!MoveOut
  <2>1. \A q \in Views!Paths : q = "vman" => views'[q] = None \/ views'[q] = views[q]
    <3>1. CASE Views!Edit
      BY <1>1, <3>1 DEF Views!Edit, ViewFiles
    <3>2. CASE Views!MoveOut
      BY <1>1, <3>2 DEF Views!MoveOut, ViewFiles
    <3> QED
      BY <1>8, <3>1, <3>2
  <2> QED
    BY <1>1, <1>4, <2>1
<1> QED
  BY <1>4, <1>5, <1>6, <1>7, <1>8 DEF Views!Next, Views!vars, Views!Project, Views!Crash, Views!InputsMove

\* EditsOutliveProjection, ViewsStandOnTheirRecords and PublishedSourcesStay: an edit is written over only if it came
\* after the checks or under an owner marker, the views are published over the records of their own Registry, and
\* no published source is lost again.
THEOREM ViewsPublishSafely ==
  ASSUME Views!ViewsAssumption, Views!NoneAssumption
  PROVE  Views!Spec => [][Views!EditsOutliveProjection /\ Views!ViewsStandOnTheirRecords
                          /\ Views!PublishedSourcesStay]_Views!vars
<1>1. ViewsInv /\ [Views!Next]_Views!vars =>
        Views!EditsOutliveProjection /\ Views!ViewsStandOnTheirRecords /\ Views!PublishedSourcesStay
  BY EditsOutliveStep, StandOnRecordsStep, PublishedStep
<1> QED
  BY <1>1, ViewsAreAlwaysSound, PTL DEF Views!Spec
-----------------------------------------------------------------------------
(* Handoff.                                                                 *)

Desk == INSTANCE Handoff

Facts ==
  [next : Desk!Probes \cup {"assess"}, quiet : BOOLEAN, deaf : BOOLEAN, branch : Desk!Branches,
   clean : BOOLEAN \cup {None}, origin : BOOLEAN, upstream : Desk!Upstreams, available : BOOLEAN \cup {None},
   oid : Desk!Commits \cup {None}, fresh : BOOLEAN \cup {None},
   relation : {"unknown", "synchronized", "ahead", "behind", "diverged"}]
Lines == [oid : Desk!Commits, branch : {"work", "main"}, url : Desk!Urls]
Configs == [branch : Desk!Branches, upstream : Desk!Upstreams, fetch : Desk!Urls, push : Desk!Urls]

HandoffTypes ==
  /\ server \in [Repos -> Desk!Commits] /\ work \in [Machines -> Desk!Commits]
  /\ config \in [Machines -> Configs] /\ dirty \subseteq Machines
  /\ tracking \in [Machines -> Desk!Commits \cup {None}]
  /\ fetched \in [Machines -> SUBSET Lines]
  /\ doctor \in [Machines -> Facts \cup {None}]
  /\ report \in [Machines -> {None, "PASS", "WARN", "FAIL"}]
  /\ made \in 0..MaxCommits /\ changes \in 0..MaxSettings

\* What a running doctor has learned of the checkout still holds of it.
Knows(m) ==
  doctor[m] # None =>
    /\ report[m] = None
    /\ doctor[m].branch # None => doctor[m].branch = config[m].branch
    /\ doctor[m].upstream # None => doctor[m].upstream = config[m].upstream
    /\ doctor[m].clean = TRUE => m \notin dirty
    /\ doctor[m].origin => Desk!OriginMatches(m)
    /\ doctor[m].available = TRUE => tracking[m] # None
    /\ doctor[m].next \notin {"fetch", "relation", "assess"} => doctor[m].available # TRUE
    /\ doctor[m].next = "fetch" => doctor[m].available = TRUE /\ doctor[m].fresh # TRUE
    /\ doctor[m].next = "relation" => doctor[m].fresh = TRUE
    /\ doctor[m].next # "assess" => doctor[m].relation = "unknown"
    /\ doctor[m].available = TRUE => doctor[m].oid # None
    /\ doctor[m].fresh = TRUE => doctor[m].available = TRUE

SafeStays(m) == report[m] = "PASS" => config[m].branch = "work" /\ m \notin dirty

\* A doctor that can still come to call its checkout safe.
Hopeful(d) == d # None /\ d.origin /\ d.branch = "work" /\ d.upstream = "work"

\* The commit x is known to have been the tip of the project's issue branch: it was fetched from there, a doctor has
\* proved it, or it came while the doctor asked, or it is what a checkout that is safe holds.
IsPublished(m, x) ==
  \/ \E line \in fetched[m] : line.oid = x /\ line.branch = "work" /\ line.url[1] = Expected
  \/ Hopeful(doctor[m]) /\ doctor[m].fresh = TRUE /\ doctor[m].oid = x
  \/ Hopeful(doctor[m]) /\ doctor[m].available = TRUE /\ tracking[m] # doctor[m].oid /\ tracking[m] = x
  \/ Hopeful(doctor[m]) /\ doctor[m].relation = "synchronized" /\ work[m] = x
  \/ report[m] = "PASS" /\ work[m] = x
Published == {x \in Desk!Commits : \E m \in Machines : IsPublished(m, x)}

\* Published commits are one line of history that the server has.
OneLine ==
  /\ \A x \in Published : x \subseteq server[Expected]
  /\ \A x, y \in Published : x \subseteq y \/ y \subseteq x

HandoffInv == HandoffTypes /\ (\A m \in Machines : Knows(m) /\ SafeStays(m)) /\ OneLine

\* A step adds to what is published only what is or becomes the tip of the server's branch.
LEMMA StillOneLine ==
  ASSUME HandoffTypes, HandoffTypes', Desk!HandoffAssumption, OneLine,
         server[Expected] \subseteq server'[Expected],
         \A m \in Machines, x \in Desk!Commits :
           IsPublished(m, x)' => x \in Published \/ x = server[Expected] \/ x = server'[Expected]
  PROVE  OneLine'
<1>1. Published' \subseteq Published \cup {server[Expected], server'[Expected]}
  BY DEF Published, Desk!Commits
<1> QED
  BY <1>1 DEF OneLine

\* Machines that have all cloned the expected repository start sound.
LEMMA HandoffInitLemma ==
  ASSUME Desk!HandoffAssumption, Desk!NoneAssumption, Desk!Init
  PROVE  HandoffInv
<1>1. HandoffTypes
  BY DEF Desk!Init, Desk!HandoffAssumption, HandoffTypes, Configs, Desk!Branches, Desk!Upstreams, Desk!Urls, Desk!Commits,
    Desk!Root
<1>2. \A m \in Machines : Knows(m) /\ SafeStays(m)
  BY DEF Desk!Init, Knows, SafeStays, Desk!NoneAssumption
<1>3. Published = {}
  BY DEF Desk!Init, Published, IsPublished, Hopeful, Desk!NoneAssumption
<1> QED
  BY <1>1, <1>2, <1>3 DEF HandoffInv, OneLine

\* Work on a checkout leaves nothing said of it.
LEMMA VoidedKeepsTheLine ==
  ASSUME HandoffInv, HandoffTypes', Desk!HandoffAssumption, Desk!NoneAssumption,
         NEW m \in Machines, Desk!Voided(m), UNCHANGED <<server, fetched>>,
         \A n \in Machines \ {m} : /\ work'[n] = work[n] /\ config'[n] = config[n] /\ tracking'[n] = tracking[n]
                                   /\ (n \in dirty') = (n \in dirty)
  PROVE  HandoffInv'
<1>1. doctor'[m] = None /\ report'[m] = None
  BY DEF Desk!Voided, HandoffInv, HandoffTypes
<1>2. \A n \in Machines \ {m} : doctor'[n] = doctor[n] /\ report'[n] = report[n]
  BY DEF Desk!Voided, HandoffInv, HandoffTypes
<1>3. ASSUME NEW n \in Machines PROVE Knows(n)' /\ SafeStays(n)'
  <2>1. CASE n = m
    BY <1>1, <2>1 DEF Knows, SafeStays, Desk!NoneAssumption
  <2>2. CASE n # m
    <3>1. Knows(n) /\ SafeStays(n)
      BY DEF HandoffInv
    <3> QED
      BY <1>2, <2>2, <3>1 DEF Knows, SafeStays, Desk!OriginMatches
  <2> QED
    BY <2>1, <2>2
<1>4. ASSUME NEW n \in Machines, NEW x \in Desk!Commits, IsPublished(n, x)' PROVE x \in Published
  <2>1. CASE n = m
    <3>1. \E line \in fetched[m] : line.oid = x /\ line.branch = "work" /\ line.url[1] = Expected
      BY <1>1, <1>4, <2>1 DEF IsPublished, Hopeful, Desk!NoneAssumption
    <3> QED
      BY <3>1 DEF Published, IsPublished
  <2>2. CASE n # m
    <3>1. IsPublished(n, x)
      BY <1>2, <1>4, <2>2 DEF IsPublished
    <3> QED
      BY <3>1 DEF Published
  <2> QED
    BY <2>1, <2>2
<1>5. server[Expected] \subseteq server'[Expected]
  OBVIOUS
<1>6. OneLine'
  BY <1>4, <1>5, StillOneLine DEF HandoffInv
<1> QED
  BY <1>3, <1>6 DEF HandoffInv

\* Work on the files.
LEMMA HandoffEdit ==
  ASSUME HandoffInv, Desk!HandoffAssumption, Desk!NoneAssumption, NEW m \in Machines, Desk!Edit(m)
  PROVE  HandoffInv'
<1>1. HandoffTypes'
  BY DEF HandoffInv, HandoffTypes, Desk!Edit, Desk!Voided
<1> QED
  BY <1>1, VoidedKeepsTheLine DEF Desk!Edit

\* A commit made on a checkout.
LEMMA HandoffCommit ==
  ASSUME HandoffInv, Desk!HandoffAssumption, Desk!NoneAssumption, NEW m \in Machines, Desk!Commit(m)
  PROVE  HandoffInv'
<1>1. made' \in 1..MaxCommits
  BY DEF HandoffInv, HandoffTypes, Desk!Commit, Desk!HandoffAssumption
<1>2. work' \in [Machines -> Desk!Commits]
  <2>1. work[m] \cup {made'} \in Desk!Commits
    BY <1>1 DEF HandoffInv, HandoffTypes, Desk!Commits
  <2> QED
    BY <2>1 DEF HandoffInv, HandoffTypes, Desk!Commit
<1>3. HandoffTypes'
  BY <1>1, <1>2 DEF HandoffInv, HandoffTypes, Desk!Commit, Desk!Voided
<1>4. \A n \in Machines \ {m} : work'[n] = work[n] /\ (n \in dirty') = (n \in dirty)
  BY DEF HandoffInv, HandoffTypes, Desk!Commit
<1> QED
  BY <1>3, <1>4, VoidedKeepsTheLine DEF Desk!Commit

\* The checkout moves on to what it tracks.
LEMMA HandoffFastForward ==
  ASSUME HandoffInv, Desk!HandoffAssumption, Desk!NoneAssumption, NEW m \in Machines, Desk!FastForward(m)
  PROVE  HandoffInv'
<1>1. HandoffTypes'
  BY DEF HandoffInv, HandoffTypes, Desk!FastForward, Desk!Voided
<1>2. \A n \in Machines \ {m} : work'[n] = work[n]
  BY DEF HandoffInv, HandoffTypes, Desk!FastForward
<1> QED
  BY <1>1, <1>2, VoidedKeepsTheLine DEF Desk!FastForward

\* Somebody changes branch, upstream or origin.
LEMMA HandoffConfigure ==
  ASSUME HandoffInv, Desk!HandoffAssumption, Desk!NoneAssumption, NEW m \in Machines, Desk!Configure(m)
  PROVE  HandoffInv'
<1>1. config' \in [Machines -> Configs]
  BY DEF HandoffInv, HandoffTypes, Desk!Configure, Configs
<1>2. HandoffTypes'
  BY <1>1 DEF HandoffInv, HandoffTypes, Desk!Configure, Desk!Voided, Desk!HandoffAssumption
<1>3. \A n \in Machines \ {m} : config'[n] = config[n]
  BY DEF HandoffInv, HandoffTypes, Desk!Configure
<1> QED
  BY <1>2, <1>3, VoidedKeepsTheLine DEF Desk!Configure

\* A fetch or a push tells what the doctor found of the checkout no lies.
LEMMA DisturbedTypes ==
  ASSUME HandoffInv, NEW m \in Machines, Desk!Disturbed(m)
  PROVE  /\ doctor' \in [Machines -> Facts \cup {None}]
         /\ report' \in [Machines -> {None, "PASS", "WARN", "FAIL"}]
<1>1. doctor[m] # None => [doctor[m] EXCEPT !.quiet = FALSE] \in Facts
  BY DEF HandoffInv, HandoffTypes, Facts
<1> QED
  BY <1>1 DEF HandoffInv, HandoffTypes, Desk!Disturbed

\* What a running doctor knows outlives another git command.
LEMMA DisturbedKeepsWhatIsKnown ==
  ASSUME HandoffInv, Desk!NoneAssumption, NEW m \in Machines, Desk!Disturbed(m),
         UNCHANGED <<work, config, dirty>>,
         tracking[m] # None => tracking'[m] # None, \A n \in Machines \ {m} : tracking'[n] = tracking[n]
  PROVE  /\ \A n \in Machines : Knows(n)' /\ SafeStays(n)'
         /\ \A n \in Machines : doctor'[n] # None =>
              /\ doctor[n] # None /\ Hopeful(doctor'[n]) = Hopeful(doctor[n])
              /\ doctor'[n].fresh = doctor[n].fresh /\ doctor'[n].oid = doctor[n].oid
              /\ doctor'[n].available = doctor[n].available /\ doctor'[n].relation = doctor[n].relation
         /\ \A n \in Machines : report'[n] = "PASS" => report[n] = "PASS"
         /\ \A n \in Machines \ {m} : doctor'[n] = doctor[n]
<1>1. \A n \in Machines \ {m} : doctor'[n] = doctor[n] /\ report'[n] = report[n]
  BY DEF Desk!Disturbed, HandoffInv, HandoffTypes
<1>2. doctor[m] = None => doctor'[m] = None
  BY DEF Desk!Disturbed, HandoffInv, HandoffTypes
<1>3. doctor[m] # None => doctor'[m] = [doctor[m] EXCEPT !.quiet = FALSE] /\ doctor[m] \in Facts
  BY DEF Desk!Disturbed, HandoffInv, HandoffTypes
<1>4. /\ report[m] = None => report'[m] = None
      /\ report'[m] = "PASS" => report[m] = "PASS"
  BY DEF Desk!Disturbed, HandoffInv, HandoffTypes, Desk!NoneAssumption
<1>5. \A n \in Machines : doctor'[n] # None =>
        /\ doctor[n] # None /\ Hopeful(doctor'[n]) = Hopeful(doctor[n])
        /\ doctor'[n].next = doctor[n].next /\ doctor'[n].branch = doctor[n].branch
        /\ doctor'[n].clean = doctor[n].clean /\ doctor'[n].origin = doctor[n].origin
        /\ doctor'[n].upstream = doctor[n].upstream
        /\ doctor'[n].fresh = doctor[n].fresh /\ doctor'[n].oid = doctor[n].oid
        /\ doctor'[n].available = doctor[n].available /\ doctor'[n].relation = doctor[n].relation
  BY <1>1, <1>2, <1>3 DEF Hopeful, Facts
<1>6. ASSUME NEW n \in Machines PROVE Knows(n)' /\ SafeStays(n)'
  <2>1. Knows(n) /\ SafeStays(n)
    BY DEF HandoffInv
  <2>2. report[n] = None => report'[n] = None
    BY <1>1, <1>4
  <2>3. tracking[n] # None => tracking'[n] # None
    OBVIOUS
  <2>4. report'[n] = "PASS" => report[n] = "PASS"
    BY <1>1, <1>4
  <2>5. Knows(n)'
    BY <1>5, <2>1, <2>2, <2>3 DEF Knows, Desk!OriginMatches
  <2>6. SafeStays(n)'
    BY <2>1, <2>4 DEF SafeStays
  <2> QED
    BY <2>5, <2>6
<1> QED
  BY <1>1, <1>4, <1>5, <1>6

\* A push moves the tip of the branch forward, never back.
LEMMA HandoffPush ==
  ASSUME HandoffInv, Desk!HandoffAssumption, Desk!NoneAssumption, NEW m \in Machines, Desk!Push(m)
  PROVE  HandoffInv'
<1> DEFINE repo == config[m].push[1]
<1>2. repo \in Repos
  BY DEF HandoffInv, HandoffTypes, Configs, Desk!Urls
<1>3. HandoffTypes'
  BY <1>2, DisturbedTypes DEF HandoffInv, HandoffTypes, Desk!Push
<1>4. server[Expected] \subseteq server'[Expected] /\ (repo = Expected => server'[Expected] = work[m])
  BY <1>2 DEF HandoffInv, HandoffTypes, Desk!Push, Desk!HandoffAssumption
<1>5. /\ tracking'[m] = work[m] /\ tracking'[m] # None
      /\ \A n \in Machines \ {m} : tracking'[n] = tracking[n]
  BY DEF HandoffInv, HandoffTypes, Desk!Push, Desk!NoneAssumption
<1> HIDE DEF repo
<1>6. Desk!Disturbed(m) /\ UNCHANGED <<work, config, dirty, fetched>>
  BY DEF Desk!Push
<1>7. \A n \in Machines : Knows(n)' /\ SafeStays(n)'
  BY <1>5, <1>6, DisturbedKeepsWhatIsKnown
<1>8. ASSUME NEW n \in Machines, NEW x \in Desk!Commits, IsPublished(n, x)'
      PROVE  x \in Published \/ x = server'[Expected]
  <2>1. CASE n = m /\ Hopeful(doctor'[m]) /\ tracking'[m] = x
    <3>1. doctor[m] # None /\ doctor[m].origin
      BY <1>5, <1>6, <2>1, DisturbedKeepsWhatIsKnown DEF Hopeful
    <3>2. repo = Expected
      BY <3>1 DEF HandoffInv, Knows, Desk!OriginMatches, repo
    <3> QED
      BY <1>4, <1>5, <2>1, <3>2
  <2>2. CASE ~(n = m /\ Hopeful(doctor'[m]) /\ tracking'[m] = x)
    <3>1. IsPublished(n, x)
      BY <1>5, <1>6, <1>8, <2>2, DisturbedKeepsWhatIsKnown DEF IsPublished, Hopeful
    <3> QED
      BY <3>1 DEF Published
  <2> QED
    BY <2>1, <2>2
<1>9. OneLine'
  BY <1>3, <1>4, <1>8, StillOneLine DEF HandoffInv
<1> QED
  BY <1>3, <1>7, <1>9 DEF HandoffInv

\* A fetch brings home the tip of the branch that is tracked.
LEMMA HandoffFetch ==
  ASSUME HandoffInv, Desk!HandoffAssumption, Desk!NoneAssumption, NEW m \in Machines, Desk!Fetch(m)
  PROVE  HandoffInv'
<1> DEFINE url == config[m].fetch
<1>1. url \in Desk!Urls /\ url[1] \in Repos
  BY DEF HandoffInv, HandoffTypes, Configs, Desk!Urls
<1>2. server[url[1]] \in Desk!Commits
  BY <1>1 DEF HandoffInv, HandoffTypes
<1>3. fetched' = [fetched EXCEPT ![m] = {Desk!Line(server[url[1]], "work", url), Desk!Line(Desk!Root, "main", url)}]
  BY DEF Desk!Fetch
<1>4. tracking' = [tracking EXCEPT ![m] = server[url[1]]]
  BY DEF Desk!Fetch
<1>5. Desk!Disturbed(m) /\ UNCHANGED <<server, work, config, dirty, made, changes>>
  BY DEF Desk!Fetch
<1>6. url[1] = Expected => server[url[1]] = server[Expected]
  OBVIOUS
<1>7. doctor[m] # None /\ doctor[m].origin => url[1] = Expected
  BY DEF HandoffInv, Knows, Desk!OriginMatches
<1> HIDE DEF url
<1>8. {Desk!Line(server[url[1]], "work", url), Desk!Line(Desk!Root, "main", url)} \in SUBSET Lines
  BY <1>1, <1>2 DEF Desk!Line, Lines, Desk!Root, Desk!Commits
<1>9. fetched' \in [Machines -> SUBSET Lines] /\ tracking' \in [Machines -> Desk!Commits \cup {None}]
  BY <1>2, <1>3, <1>4, <1>8 DEF HandoffInv, HandoffTypes
<1>10. HandoffTypes'
  BY <1>5, <1>9, DisturbedTypes DEF HandoffInv, HandoffTypes
<1>11. /\ tracking'[m] = server[url[1]] /\ tracking'[m] # None
       /\ \A n \in Machines \ {m} : tracking'[n] = tracking[n] /\ fetched'[n] = fetched[n]
  BY <1>2, <1>3, <1>4 DEF HandoffInv, HandoffTypes, Desk!NoneAssumption
<1>12. \A n \in Machines : Knows(n)' /\ SafeStays(n)'
  BY <1>5, <1>11, DisturbedKeepsWhatIsKnown
<1>13. \A line \in fetched'[m] : line.branch = "work" => line.oid = server[url[1]] /\ line.url = url
  BY <1>3 DEF HandoffInv, HandoffTypes, Desk!Line
<1>14. ASSUME NEW n \in Machines, NEW x \in Desk!Commits, IsPublished(n, x)'
       PROVE  x \in Published \/ x = server[Expected]
  <2>1. CASE n = m /\ \E line \in fetched'[m] : line.oid = x /\ line.branch = "work" /\ line.url[1] = Expected
    BY <1>6, <1>13, <2>1
  <2>2. CASE n = m /\ Hopeful(doctor'[m]) /\ tracking'[m] = x
    <3>1. doctor[m] # None /\ doctor[m].origin
      BY <1>5, <1>11, <2>2, DisturbedKeepsWhatIsKnown DEF Hopeful
    <3> QED
      BY <1>6, <1>7, <1>11, <2>2, <3>1
  <2>3. CASE ~(n = m /\ Hopeful(doctor'[m]) /\ tracking'[m] = x)
             /\ ~(n = m /\ \E line \in fetched'[m] : line.oid = x /\ line.branch = "work" /\ line.url[1] = Expected)
    <3>1. IsPublished(n, x)
      BY <1>5, <1>11, <1>14, <2>3, DisturbedKeepsWhatIsKnown DEF IsPublished, Hopeful
    <3> QED
      BY <3>1 DEF Published
  <2> QED
    BY <2>1, <2>2, <2>3
<1>15. OneLine'
  BY <1>5, <1>10, <1>14, StillOneLine DEF HandoffInv
<1> QED
  BY <1>10, <1>12, <1>15 DEF HandoffInv

\* A fetch by hand may bring home any branch of any repository.
LEMMA HandoffFetchByUrl ==
  ASSUME HandoffInv, Desk!HandoffAssumption, Desk!NoneAssumption, NEW m \in Machines,
         NEW url \in Desk!Urls, NEW b \in {"work", "main"}, Desk!FetchByUrl(m, url, b)
  PROVE  HandoffInv'
<1> DEFINE tip == IF b = "main" THEN Desk!Root ELSE server[url[1]]
<1>1. url[1] \in Repos
  BY DEF Desk!Urls
<1>2. tip \in Desk!Commits /\ (b = "work" /\ url[1] = Expected => tip = server[Expected])
  BY <1>1 DEF HandoffInv, HandoffTypes, Desk!Root, Desk!Commits
<1>3. fetched' = [fetched EXCEPT ![m] = {Desk!Line(tip, b, url)}]
  BY DEF Desk!FetchByUrl
<1> HIDE DEF tip
<1>4. Desk!Disturbed(m) /\ UNCHANGED <<server, work, config, dirty, tracking, made>>
  BY DEF Desk!FetchByUrl
<1>5. {Desk!Line(tip, b, url)} \in SUBSET Lines
  BY <1>2 DEF Desk!Line, Lines
<1>6. fetched' \in [Machines -> SUBSET Lines]
  BY <1>3, <1>5 DEF HandoffInv, HandoffTypes
<1>7. changes' \in 0..MaxSettings
  BY DEF HandoffInv, HandoffTypes, Desk!FetchByUrl, Desk!HandoffAssumption
<1>8. HandoffTypes'
  BY <1>4, <1>6, <1>7, DisturbedTypes DEF HandoffInv, HandoffTypes
<1>9. \A n \in Machines : Knows(n)' /\ SafeStays(n)'
  BY <1>4, DisturbedKeepsWhatIsKnown
<1>10. /\ \A n \in Machines \ {m} : fetched'[n] = fetched[n]
       /\ \A line \in fetched'[m] : line = Desk!Line(tip, b, url)
  BY <1>3 DEF HandoffInv, HandoffTypes
<1>11. ASSUME NEW n \in Machines, NEW x \in Desk!Commits, IsPublished(n, x)'
       PROVE  x \in Published \/ x = server[Expected]
  <2>1. CASE n = m /\ \E line \in fetched'[m] : line.oid = x /\ line.branch = "work" /\ line.url[1] = Expected
    BY <1>2, <1>10, <2>1 DEF Desk!Line
  <2>2. CASE ~(n = m /\ \E line \in fetched'[m] : line.oid = x /\ line.branch = "work" /\ line.url[1] = Expected)
    <3>1. IsPublished(n, x)
      BY <1>4, <1>10, <1>11, <2>2, DisturbedKeepsWhatIsKnown DEF IsPublished, Hopeful
    <3> QED
      BY <3>1 DEF Published
  <2> QED
    BY <2>1, <2>2
<1>12. OneLine'
  BY <1>4, <1>8, <1>11, StillOneLine DEF HandoffInv
<1> QED
  BY <1>8, <1>9, <1>12 DEF HandoffInv

\* A doctor starts and knows nothing.
LEMMA HandoffStart ==
  ASSUME HandoffInv, Desk!HandoffAssumption, Desk!NoneAssumption, NEW m \in Machines, Desk!Start(m)
  PROVE  HandoffInv'
<1>1. Desk!Unknown \in Facts
  BY DEF Desk!Unknown, Facts, Desk!Probes, Desk!Branches, Desk!Upstreams
<1>2. /\ doctor' = [doctor EXCEPT ![m] = Desk!Unknown] /\ report' = [report EXCEPT ![m] = None]
      /\ UNCHANGED <<server, work, config, dirty, tracking, fetched, made, changes>>
  BY DEF Desk!Start, Desk!git
<1>3. HandoffTypes'
  BY <1>1, <1>2 DEF HandoffInv, HandoffTypes
<1>4. ASSUME NEW n \in Machines PROVE Knows(n)' /\ SafeStays(n)'
  <2>1. CASE n = m
    <3>1. doctor'[m] = Desk!Unknown /\ report'[m] = None
      BY <1>2 DEF HandoffInv, HandoffTypes
    <3>2. /\ Desk!Unknown.branch = None /\ Desk!Unknown.upstream = None /\ Desk!Unknown.clean = None
          /\ Desk!Unknown.available = None /\ Desk!Unknown.fresh = None
          /\ Desk!Unknown.next = "branch" /\ Desk!Unknown.relation = "unknown" /\ ~Desk!Unknown.origin
      BY DEF Desk!Unknown
    <3>4. None # TRUE
      BY DEF Desk!NoneAssumption
    <3>3. Knows(m)'
      BY <3>1, <3>2, <3>4 DEF Knows
    <3> QED
      BY <2>1, <3>1, <3>3 DEF SafeStays, Desk!NoneAssumption
  <2>2. CASE n # m
    <3>1. doctor'[n] = doctor[n] /\ report'[n] = report[n] /\ Knows(n) /\ SafeStays(n)
      BY <1>2, <2>2 DEF HandoffInv, HandoffTypes
    <3> QED
      BY <1>2, <3>1 DEF Knows, SafeStays, Desk!OriginMatches
  <2> QED
    BY <2>1, <2>2
<1>5. ASSUME NEW n \in Machines, NEW x \in Desk!Commits, IsPublished(n, x)' PROVE IsPublished(n, x)
  <2>1. /\ n = m => ~Hopeful(doctor'[n]) /\ report'[n] # "PASS"
        /\ n # m => doctor'[n] = doctor[n] /\ report'[n] = report[n]
    BY <1>2 DEF HandoffInv, HandoffTypes, Hopeful, Desk!Unknown, Desk!NoneAssumption
  <2> QED
    BY <1>2, <1>5, <2>1 DEF IsPublished
<1>6. OneLine'
  BY <1>2, <1>3, <1>5, StillOneLine DEF HandoffInv, Published
<1> QED
  BY <1>3, <1>4, <1>6 DEF HandoffInv

\* What holds of a doctor that goes on with the facts e: they are true of the checkout, as Knows says.
Sees(m, e) ==
  /\ e.branch # None => e.branch = config[m].branch
  /\ e.upstream # None => e.upstream = config[m].upstream
  /\ e.clean = TRUE => m \notin dirty
  /\ e.origin => Desk!OriginMatches(m)
  /\ e.available = TRUE => tracking[m] # None
  /\ e.next \notin {"fetch", "relation", "assess"} => e.available # TRUE
  /\ e.next = "fetch" => e.available = TRUE /\ e.fresh # TRUE
  /\ e.next = "relation" => e.fresh = TRUE
  /\ e.next # "assess" => e.relation = "unknown"
  /\ e.available = TRUE => e.oid # None
  /\ e.fresh = TRUE => e.available = TRUE

\* A doctor that learns one fact more and does not yet prove anything.
LEMMA GoesOn ==
  ASSUME HandoffInv, Desk!HandoffAssumption, Desk!NoneAssumption, NEW m \in Machines, doctor[m] # None,
         NEW e \in Facts, Sees(m, e),
         doctor' = [doctor EXCEPT ![m] = e], UNCHANGED <<Desk!git, report>>,
         Hopeful(e) =>
           /\ e.fresh = TRUE => e.oid \in Published
           /\ e.available = TRUE /\ tracking[m] # e.oid => tracking[m] \in Published
           /\ e.relation = "synchronized" => work[m] \in Published
  PROVE  HandoffInv'
<1>1. UNCHANGED <<server, work, config, dirty, tracking, fetched, made, changes>>
  BY DEF Desk!git
<1>2. HandoffTypes'
  BY <1>1 DEF HandoffInv, HandoffTypes
<1>3. /\ doctor'[m] = e /\ report[m] = None
      /\ \A n \in Machines \ {m} : doctor'[n] = doctor[n]
  BY DEF HandoffInv, HandoffTypes, Knows
<1>4. ASSUME NEW n \in Machines PROVE Knows(n)' /\ SafeStays(n)'
  <2>1. CASE n = m
    BY <1>1, <1>3, <2>1 DEF Knows, SafeStays, Sees, Desk!OriginMatches, Desk!NoneAssumption
  <2>2. CASE n # m
    <3>1. doctor'[n] = doctor[n] /\ Knows(n) /\ SafeStays(n)
      BY <1>3, <2>2 DEF HandoffInv
    <3> QED
      BY <1>1, <3>1 DEF Knows, SafeStays, Desk!OriginMatches
  <2> QED
    BY <2>1, <2>2
<1>5. ASSUME NEW n \in Machines, NEW x \in Desk!Commits, IsPublished(n, x)' PROVE x \in Published
  <2>1. CASE IsPublished(n, x)
    BY <2>1 DEF Published
  <2>2. CASE ~IsPublished(n, x)
    <3>1. n = m
      BY <1>1, <1>3, <1>5, <2>2 DEF IsPublished
    <3> QED
      BY <1>1, <1>3, <1>5, <2>2, <3>1 DEF IsPublished
  <2> QED
    BY <2>1, <2>2
<1>6. OneLine'
  BY <1>1, <1>2, <1>5, StillOneLine DEF HandoffInv
<1> QED
  BY <1>2, <1>4, <1>6 DEF HandoffInv

\* A question of the doctor that git does not answer.
LEMMA HandoffUnanswered ==
  ASSUME HandoffInv, Desk!HandoffAssumption, Desk!NoneAssumption, NEW m \in Machines, Desk!Unanswered(m)
  PROVE  HandoffInv'
<1> DEFINE d == [doctor[m] EXCEPT !.deaf = TRUE]
           e == [d EXCEPT !.next = Desk!After(d)]
<1>1. doctor[m] \in Facts /\ doctor[m] # None /\ doctor[m].next \in Desk!Probes
  BY DEF Desk!Unanswered, HandoffInv, HandoffTypes
<1>2. d \in Facts /\ d.next = doctor[m].next /\ d.available = doctor[m].available /\ d.fresh = doctor[m].fresh
      /\ d.branch = doctor[m].branch
  BY <1>1 DEF Facts
<1>3. /\ Desk!After(d) \in Desk!Probes \cup {"assess"}
      /\ Desk!After(d) = "branch" => FALSE
      /\ Desk!After(d) \in {"fetch", "relation"} => d.available = TRUE \/ d.next \in {"fetch"}
      /\ Desk!After(d) = "fetch" => d.next = "ref"
      /\ Desk!After(d) = "relation" => d.fresh = TRUE
      /\ Desk!After(d) \in {"tree", "origin", "upstream", "ref"} => d.next \in {"branch", "tree", "origin", "upstream"}
  BY <1>1, <1>2 DEF Desk!After, Desk!Probes
<1>4. /\ e \in Facts /\ e.next = Desk!After(d) /\ e.branch = doctor[m].branch /\ e.upstream = doctor[m].upstream
      /\ e.clean = doctor[m].clean /\ e.origin = doctor[m].origin /\ e.available = doctor[m].available
      /\ e.oid = doctor[m].oid /\ e.fresh = doctor[m].fresh /\ e.relation = doctor[m].relation
  BY <1>1, <1>3 DEF Facts
<1>5. doctor' = [doctor EXCEPT ![m] = e] /\ UNCHANGED <<Desk!git, report>>
  BY DEF Desk!Unanswered, Desk!Continue
<1>6. Knows(m)
  BY DEF HandoffInv
<1> HIDE DEF d
<1>7. Sees(m, e)
  BY <1>1, <1>2, <1>3, <1>4, <1>6 DEF Sees, Knows, Desk!Probes
<1>8. Hopeful(e) => Hopeful(doctor[m])
  BY <1>1, <1>4 DEF Hopeful
<1> HIDE DEF e
<1>9. e.fresh = TRUE => e.oid \in Desk!Commits
  BY <1>1, <1>4, <1>6 DEF Knows, Facts
<1>10. tracking[m] # None => tracking[m] \in Desk!Commits
  BY DEF HandoffInv, HandoffTypes
<1>11. work[m] \in Desk!Commits
  BY DEF HandoffInv, HandoffTypes
<1>12. Hopeful(e) => /\ e.fresh = TRUE => IsPublished(m, e.oid)
                     /\ e.available = TRUE /\ tracking[m] # e.oid => IsPublished(m, tracking[m]) /\ tracking[m] # None
                     /\ e.relation = "synchronized" => IsPublished(m, work[m])
  BY <1>1, <1>4, <1>6, <1>8 DEF IsPublished, Knows
<1>13. Hopeful(e) => /\ e.fresh = TRUE => e.oid \in Published
                     /\ e.available = TRUE /\ tracking[m] # e.oid => tracking[m] \in Published
                     /\ e.relation = "synchronized" => work[m] \in Published
  BY <1>9, <1>10, <1>11, <1>12 DEF Published
<1> QED
  BY <1>1, <1>4, <1>5, <1>7, <1>13, GoesOn

\* The facts after an answered question: the one asked for is as git has it, the others are as they were.
Asked(m, e) ==
  LET d == doctor[m] IN
  /\ e.branch = IF d.next = "branch" THEN config[m].branch ELSE d.branch
  /\ e.clean = IF d.next = "tree" THEN m \notin dirty ELSE d.clean
  /\ e.origin = IF d.next = "origin" THEN Desk!OriginMatches(m) ELSE d.origin
  /\ e.upstream = IF d.next = "upstream" THEN config[m].upstream ELSE d.upstream
  /\ e.oid = IF d.next = "ref" THEN Desk!RefOf(m, Desk!Compared(d)) ELSE d.oid
  /\ e.available = IF d.next = "ref" THEN Desk!RefOf(m, Desk!Compared(d)) # None ELSE d.available
  /\ e.fresh = IF d.next = "fetch" THEN Desk!FetchHeadProves(m, d.branch, d.oid) ELSE d.fresh
  /\ e.relation = IF d.next = "relation"
                   THEN Desk!Relation(Desk!Head(m), Desk!RefOf(m, Desk!Compared(d))) ELSE d.relation
  /\ e.deaf = d.deaf /\ e.quiet = d.quiet
  /\ e.next = CASE d.next = "branch" -> "tree"
                [] d.next = "tree" -> "origin"
                [] d.next = "origin" -> IF d.branch = None THEN "assess" ELSE "upstream"
                [] d.next = "upstream" -> "ref"
                [] d.next = "ref" -> IF e.available = TRUE THEN "fetch" ELSE "assess"
                [] d.next = "fetch" -> IF e.fresh = TRUE THEN "relation" ELSE "assess"
                [] OTHER -> "assess"

\* What ls-remote may answer is a set of commits.
LEMMA RefTypes ==
  ASSUME HandoffInv, NEW m \in Machines, NEW name
  PROVE  Desk!RefOf(m, name) \in Desk!Commits \cup {None}
BY DEF Desk!RefOf, Desk!Root, Desk!Commits, HandoffInv, HandoffTypes

\* What a doctor knows after an answer.
LEMMA AskedFacts ==
  ASSUME HandoffInv, Desk!HandoffAssumption, Desk!NoneAssumption, NEW m \in Machines, Desk!Ask(m)
  PROVE  \E e \in Facts : doctor' = [doctor EXCEPT ![m] = e] /\ Asked(m, e)
<1> DEFINE d == doctor[m]
           a == Desk!Answered(m, d)
           e == [a EXCEPT !.next = Desk!After(a)]
<1>1. d \in Facts /\ d.next \in Desk!Probes
  BY DEF Desk!Ask, HandoffInv, HandoffTypes, Desk!NoneAssumption
<1>2. /\ config[m].branch \in Desk!Branches /\ config[m].upstream \in Desk!Upstreams
      /\ (m \notin dirty) \in BOOLEAN /\ Desk!OriginMatches(m) \in BOOLEAN
      /\ Desk!FetchHeadProves(m, d.branch, d.oid) \in BOOLEAN
  BY DEF HandoffInv, HandoffTypes, Configs, Desk!OriginMatches, Desk!FetchHeadProves
<1>3. Desk!RefOf(m, Desk!Compared(d)) \in Desk!Commits \cup {None}
  BY RefTypes
<1>4. Desk!Relation(Desk!Head(m), Desk!RefOf(m, Desk!Compared(d))) \in {"synchronized", "ahead", "behind", "diverged"}
  BY DEF Desk!Relation
<1> HIDE DEF d
<1>5. /\ a \in Facts
      /\ a.branch = IF d.next = "branch" THEN config[m].branch ELSE d.branch
      /\ a.clean = IF d.next = "tree" THEN m \notin dirty ELSE d.clean
      /\ a.origin = IF d.next = "origin" THEN Desk!OriginMatches(m) ELSE d.origin
      /\ a.upstream = IF d.next = "upstream" THEN config[m].upstream ELSE d.upstream
      /\ a.oid = IF d.next = "ref" THEN Desk!RefOf(m, Desk!Compared(d)) ELSE d.oid
      /\ a.available = IF d.next = "ref" THEN Desk!RefOf(m, Desk!Compared(d)) # None ELSE d.available
      /\ a.fresh = IF d.next = "fetch" THEN Desk!FetchHeadProves(m, d.branch, d.oid) ELSE d.fresh
      /\ a.relation = IF d.next = "relation"
                       THEN Desk!Relation(Desk!Head(m), Desk!RefOf(m, Desk!Compared(d))) ELSE d.relation
      /\ a.deaf = d.deaf /\ a.quiet = d.quiet /\ a.next = d.next
  <2> HIDE DEF a
  <2>1. CASE d.next = "branch"
    <3>1. a = [d EXCEPT !.branch = config[m].branch]
      BY <2>1 DEF a, Desk!Answered
    <3> QED
      BY <1>1, <1>2, <2>1, <3>1 DEF Facts
  <2>2. CASE d.next = "tree"
    <3>1. a = [d EXCEPT !.clean = m \notin dirty]
      BY <2>2 DEF a, Desk!Answered
    <3> QED
      BY <1>1, <1>2, <2>2, <3>1 DEF Facts
  <2>3. CASE d.next = "origin"
    <3>1. a = [d EXCEPT !.origin = Desk!OriginMatches(m)]
      BY <2>3 DEF a, Desk!Answered
    <3> QED
      BY <1>1, <1>2, <2>3, <3>1 DEF Facts
  <2>4. CASE d.next = "upstream"
    <3>1. a = [d EXCEPT !.upstream = config[m].upstream]
      BY <2>4 DEF a, Desk!Answered
    <3> QED
      BY <1>1, <1>2, <2>4, <3>1 DEF Facts
  <2>5. CASE d.next = "ref"
    <3>1. a = [d EXCEPT !.oid = Desk!RefOf(m, Desk!Compared(d)), !.available = Desk!RefOf(m, Desk!Compared(d)) # None]
      BY <2>5 DEF a, Desk!Answered
    <3> QED
      BY <1>1, <1>3, <2>5, <3>1 DEF Facts
  <2>6. CASE d.next = "fetch"
    <3>1. a = [d EXCEPT !.fresh = Desk!FetchHeadProves(m, d.branch, d.oid)]
      BY <2>6 DEF a, Desk!Answered
    <3> QED
      BY <1>1, <1>2, <2>6, <3>1 DEF Facts
  <2>7. CASE d.next = "relation"
    <3>1. a = [d EXCEPT !.relation = Desk!Relation(Desk!Head(m), Desk!RefOf(m, Desk!Compared(d)))]
      BY <2>7 DEF a, Desk!Answered
    <3> QED
      BY <1>1, <1>4, <2>7, <3>1 DEF Facts
  <2> QED
    BY <1>1, <2>1, <2>2, <2>3, <2>4, <2>5, <2>6, <2>7 DEF Desk!Probes
<1> HIDE DEF a
<1>6. Desk!After(a) = CASE d.next = "branch" -> "tree"
                        [] d.next = "tree" -> "origin"
                        [] d.next = "origin" -> IF d.branch = None THEN "assess" ELSE "upstream"
                        [] d.next = "upstream" -> "ref"
                        [] d.next = "ref" -> IF a.available = TRUE THEN "fetch" ELSE "assess"
                        [] d.next = "fetch" -> IF a.fresh = TRUE THEN "relation" ELSE "assess"
                        [] OTHER -> "assess"
  BY <1>1, <1>5 DEF Desk!After, Desk!Probes
<1>7. Desk!After(a) \in Desk!Probes \cup {"assess"}
  BY <1>1, <1>6 DEF Desk!Probes
<1>8. e \in Facts
  BY <1>5, <1>7 DEF Facts
<1>9. /\ e.branch = a.branch /\ e.clean = a.clean /\ e.origin = a.origin /\ e.upstream = a.upstream /\ e.oid = a.oid
      /\ e.available = a.available /\ e.fresh = a.fresh /\ e.relation = a.relation /\ e.deaf = a.deaf
      /\ e.quiet = a.quiet /\ e.next = Desk!After(a)
  BY <1>5, <1>7 DEF Facts
<1>10. doctor' = [doctor EXCEPT ![m] = e]
  BY DEF Desk!Ask, Desk!Continue, a, d
<1> HIDE DEF e
<1>11. Asked(m, e)
  BY <1>5, <1>6, <1>9 DEF Asked, d
<1> QED
  BY <1>8, <1>10, <1>11

\* A question that is answered: the fetch of the freshness test proves the tip of the branch.
LEMMA HandoffAsk ==
  ASSUME HandoffInv, Desk!HandoffAssumption, Desk!NoneAssumption, NEW m \in Machines, Desk!Ask(m)
  PROVE  HandoffInv'
<1>1. doctor[m] \in Facts /\ doctor[m] # None /\ doctor[m].next \in Desk!Probes /\ UNCHANGED <<Desk!git, report>>
  BY DEF Desk!Ask, HandoffInv, HandoffTypes
<1>2. PICK e \in Facts : doctor' = [doctor EXCEPT ![m] = e] /\ Asked(m, e)
  BY AskedFacts
<1>3. Knows(m)
  BY DEF HandoffInv
<1>4. tracking[m] \in Desk!Commits \cup {None} /\ work[m] \in Desk!Commits /\ None # TRUE
  BY DEF HandoffInv, HandoffTypes, Desk!NoneAssumption
<1>5. /\ Desk!RefOf(m, Desk!Compared(doctor[m])) # None => tracking[m] # None
      /\ doctor[m].upstream = "work" => Desk!RefOf(m, Desk!Compared(doctor[m])) = tracking[m]
  BY <1>4 DEF Desk!RefOf, Desk!Compared, Desk!NoneAssumption
<1>6. Sees(m, e)
  <2>1. /\ e.branch # None => e.branch = config[m].branch
        /\ e.upstream # None => e.upstream = config[m].upstream
        /\ e.clean = TRUE => m \notin dirty
        /\ e.origin => Desk!OriginMatches(m)
    BY <1>1, <1>2, <1>3 DEF Knows, Asked
  <2>2. CASE doctor[m].next \in {"branch", "tree", "origin", "upstream"}
    <3>1. e.available # TRUE /\ e.fresh # TRUE /\ e.relation = "unknown"
      BY <1>2, <1>3, <1>1, <2>2 DEF Knows, Asked
    <3>2. e.next \in {"tree", "origin", "upstream", "ref", "assess"}
      BY <1>2, <2>2 DEF Asked
    <3> QED
      BY <2>1, <3>1, <3>2 DEF Sees
  <2>3. CASE doctor[m].next = "ref"
    <3>1. /\ e.fresh # TRUE /\ e.relation = "unknown" /\ e.available \in BOOLEAN
          /\ e.available = TRUE => e.oid # None /\ tracking[m] # None
          /\ e.next = IF e.available = TRUE THEN "fetch" ELSE "assess"
      BY <1>2, <1>3, <1>1, <1>5, <2>3 DEF Knows, Asked
    <3> QED
      BY <2>1, <3>1 DEF Sees
  <2>4. CASE doctor[m].next = "fetch"
    <3>1. /\ e.relation = "unknown" /\ e.available = doctor[m].available /\ e.oid = doctor[m].oid
          /\ e.next = IF e.fresh = TRUE THEN "relation" ELSE "assess"
      BY <1>2, <1>3, <1>1, <2>4 DEF Knows, Asked
    <3>2. e.available = TRUE => tracking[m] # None /\ e.oid # None
      BY <1>1, <1>3, <3>1 DEF Knows
    <3>3. e.available = TRUE
      BY <1>1, <1>3, <2>4, <3>1 DEF Knows
    <3> QED
      BY <2>1, <3>1, <3>2, <3>3 DEF Sees
  <2>5. CASE doctor[m].next = "relation"
    <3>1. /\ e.available = doctor[m].available /\ e.oid = doctor[m].oid /\ e.fresh = doctor[m].fresh
          /\ e.next = "assess"
      BY <1>2, <2>5 DEF Asked
    <3> QED
      BY <1>1, <1>3, <2>1, <3>1 DEF Sees, Knows
  <2> QED
    BY <1>1, <2>2, <2>3, <2>4, <2>5 DEF Desk!Probes
<1>7. ASSUME Hopeful(e)
      PROVE  /\ e.fresh = TRUE => e.oid \in Published
             /\ e.available = TRUE /\ tracking[m] # e.oid => tracking[m] \in Published
             /\ e.relation = "synchronized" => work[m] \in Published
  <2>1. CASE doctor[m].next \in {"branch", "tree", "origin", "upstream"}
    BY <1>1, <1>2, <1>3, <2>1 DEF Knows, Asked
  <2>2. CASE doctor[m].next = "ref"
    <3>1. e.oid = tracking[m] /\ e.relation = "unknown" /\ e.fresh # TRUE
      BY <1>1, <1>2, <1>3, <1>5, <1>7, <2>2 DEF Knows, Asked, Hopeful
    <3> QED
      BY <3>1
  <2>3. CASE doctor[m].next \in {"fetch", "relation"}
    <3>1. Hopeful(doctor[m]) /\ e.oid = doctor[m].oid /\ e.available = doctor[m].available
      BY <1>1, <1>2, <1>7, <2>3 DEF Asked, Hopeful
    <3>2. e.available = TRUE => e.oid \in Desk!Commits /\ tracking[m] \in Desk!Commits
      BY <1>1, <1>3, <1>4, <3>1 DEF Knows, Facts
    <3>3. e.available = TRUE /\ tracking[m] # e.oid => tracking[m] \in Published
      BY <3>1, <3>2 DEF Published, IsPublished
    <3>4. e.fresh = TRUE => e.available = TRUE
      BY <1>6 DEF Sees
    <3>5. e.fresh = TRUE => e.oid \in Published
      <4>1. CASE doctor[m].next = "fetch"
        <5>1. e.fresh = Desk!FetchHeadProves(m, "work", e.oid)
          BY <1>2, <3>1, <4>1 DEF Asked, Hopeful
        <5>2. e.fresh = TRUE =>
                \E line \in fetched[m] : line.oid = e.oid /\ line.branch = "work" /\ line.url[1] = Expected
          BY <5>1 DEF Desk!FetchHeadProves, Desk!RecordedRepository, Desk!NoneAssumption, Desk!HandoffAssumption
        <5> QED
          BY <3>2, <3>4, <5>2 DEF Published, IsPublished
      <4>2. CASE doctor[m].next = "relation"
        <5>1. e.fresh = doctor[m].fresh
          BY <1>2, <4>2 DEF Asked
        <5> QED
          BY <3>1, <3>2, <3>4, <5>1 DEF Published, IsPublished
      <4> QED
        BY <2>3, <4>1, <4>2
    <3>6. e.relation = "synchronized" => work[m] \in Published
      <4>1. CASE doctor[m].next = "fetch"
        BY <1>2, <1>3, <3>1, <4>1 DEF Knows, Asked, Hopeful
      <4>2. CASE doctor[m].next = "relation"
        <5>1. e.relation = Desk!Relation(work[m], tracking[m]) /\ e.fresh = TRUE
          <6>1. doctor[m].fresh = TRUE /\ doctor[m].upstream = "work" /\ config[m].branch = "work"
            BY <1>1, <1>3, <3>1, <4>2 DEF Knows, Hopeful, Desk!NoneAssumption
          <6> QED
            BY <1>2, <1>5, <4>2, <6>1 DEF Asked, Desk!Head
        <5>2. e.relation = "synchronized" => work[m] = tracking[m]
          BY <5>1 DEF Desk!Relation
        <5> QED
          BY <3>3, <3>4, <3>5, <5>1, <5>2
      <4> QED
        BY <2>3, <4>1, <4>2
    <3> QED
      BY <3>3, <3>5, <3>6
  <2> QED
    BY <1>1, <2>1, <2>2, <2>3 DEF Desk!Probes
<1> QED
  BY <1>1, <1>2, <1>6, <1>7, GoesOn

\* The doctor says what it thinks of the checkout.
LEMMA HandoffAssess ==
  ASSUME HandoffInv, Desk!HandoffAssumption, Desk!NoneAssumption, NEW m \in Machines, Desk!Assess(m)
  PROVE  HandoffInv'
<1>1. /\ report' = [report EXCEPT ![m] = Desk!evaluate_handoff_state(doctor[m])]
      /\ doctor' = [doctor EXCEPT ![m] = None]
      /\ UNCHANGED <<server, work, config, dirty, tracking, fetched, made, changes>>
      /\ doctor[m] \in Facts /\ doctor[m] # None
  BY DEF Desk!Assess, Desk!git, HandoffInv, HandoffTypes
<1>2. Desk!evaluate_handoff_state(doctor[m]) \in {"PASS", "WARN", "FAIL"}
  BY DEF Desk!evaluate_handoff_state
<1>3. HandoffTypes'
  BY <1>1, <1>2 DEF HandoffInv, HandoffTypes
<1>4. /\ doctor'[m] = None /\ report'[m] = Desk!evaluate_handoff_state(doctor[m])
      /\ \A n \in Machines \ {m} : doctor'[n] = doctor[n] /\ report'[n] = report[n]
  BY <1>1 DEF HandoffInv, HandoffTypes
<1>5. report'[m] = "PASS" => /\ Hopeful(doctor[m]) /\ doctor[m].fresh = TRUE /\ doctor[m].relation = "synchronized"
                             /\ doctor[m].clean = TRUE
  <2>1. report'[m] = "PASS" => ~Desk!Blocking(doctor[m]) /\ ~Desk!Uncertain(doctor[m])
    BY <1>4 DEF Desk!evaluate_handoff_state
  <2>2. doctor[m].clean \in BOOLEAN \cup {None} /\ doctor[m].branch \in {"work", "main", None}
    BY <1>1 DEF Facts, Desk!Branches
  <2> QED
    BY <1>1, <2>1, <2>2 DEF Desk!Blocking, Desk!Uncertain, Hopeful
<1>6. Knows(m) /\ work[m] \in Desk!Commits
  BY DEF HandoffInv, HandoffTypes
<1>7. ASSUME NEW n \in Machines PROVE Knows(n)' /\ SafeStays(n)'
  <2>1. CASE n = m
    BY <1>1, <1>4, <1>5, <1>6, <2>1 DEF Knows, SafeStays, Hopeful, Desk!NoneAssumption
  <2>2. CASE n # m
    <3>1. Knows(n) /\ SafeStays(n)
      BY DEF HandoffInv
    <3> QED
      BY <1>1, <1>4, <2>2, <3>1 DEF Knows, SafeStays, Desk!OriginMatches
  <2> QED
    BY <2>1, <2>2
<1>8. ASSUME NEW n \in Machines, NEW x \in Desk!Commits, IsPublished(n, x)' PROVE IsPublished(n, x)
  BY <1>1, <1>4, <1>5, <1>8 DEF IsPublished, Hopeful
<1>9. OneLine'
  BY <1>1, <1>3, <1>8, StillOneLine DEF HandoffInv, Published
<1> QED
  BY <1>3, <1>7, <1>9 DEF HandoffInv

\* Every step keeps the handoff sound.
LEMMA HandoffNext ==
  ASSUME HandoffInv, Desk!HandoffAssumption, Desk!NoneAssumption, [Desk!Next]_(Desk!vars)
  PROVE  HandoffInv'
<1>1. CASE UNCHANGED Desk!vars
  <2>1. UNCHANGED <<server, work, config, dirty, tracking, fetched, made, changes, doctor, report>>
    BY <1>1 DEF Desk!vars, Desk!git
  <2>2. HandoffTypes'
    BY <2>1 DEF HandoffInv, HandoffTypes
  <2>3. \A n \in Machines : (Knows(n)' <=> Knows(n)) /\ (SafeStays(n)' <=> SafeStays(n))
    BY <2>1 DEF Knows, SafeStays, Desk!OriginMatches
  <2>4. \A n \in Machines, x \in Desk!Commits : IsPublished(n, x)' => IsPublished(n, x)
    BY <2>1 DEF IsPublished
  <2>5. OneLine'
    BY <2>1, <2>2, <2>4, StillOneLine DEF HandoffInv, Published
  <2> QED
    BY <2>2, <2>3, <2>5 DEF HandoffInv
<1>2. CASE Desk!Next
  <2>1. PICK m \in Machines :
          \/ Desk!Edit(m) \/ Desk!Commit(m) \/ Desk!Push(m) \/ Desk!Fetch(m) \/ Desk!FastForward(m) \/ Desk!Configure(m)
          \/ \E url \in Desk!Urls, b \in {"work", "main"} : Desk!FetchByUrl(m, url, b)
          \/ Desk!Start(m) \/ Desk!Ask(m) \/ Desk!Unanswered(m) \/ Desk!Assess(m)
    BY <1>2 DEF Desk!Next
  <2> QED
    BY <2>1, HandoffEdit, HandoffCommit, HandoffPush, HandoffFetch, HandoffFastForward, HandoffConfigure, HandoffFetchByUrl,
      HandoffStart, HandoffAsk, HandoffUnanswered, HandoffAssess
<1> QED
  BY <1>1, <1>2

\* The inductive invariant of the handoff.
LEMMA HandoffIsAlwaysSound ==
  ASSUME Desk!HandoffAssumption, Desk!NoneAssumption
  PROVE  Desk!Spec => []HandoffInv
<1>1. Desk!Init => HandoffInv
  BY HandoffInitLemma
<1>2. HandoffInv /\ [Desk!Next]_(Desk!vars) => HandoffInv'
  BY HandoffNext
<1> QED
  BY <1>1, <1>2, PTL DEF Desk!Spec

\* SafeMeansHandedOver and SafeHeadsAreOneLine: the head a doctor called safe is on the server's issue branch as
\* long as the checkout is left alone, and the safe heads of all machines are one line of history.
THEOREM SafeIsAlwaysHandedOver ==
  ASSUME Desk!HandoffAssumption, Desk!NoneAssumption
  PROVE  Desk!Spec => [](Desk!TypeOK /\ Desk!SafeMeansHandedOver /\ Desk!SafeHeadsAreOneLine)
<1>1. ASSUME HandoffInv PROVE Desk!TypeOK
  BY <1>1 DEF HandoffInv, HandoffTypes, Desk!TypeOK, Facts, Lines, Configs
<1>2. ASSUME HandoffInv PROVE \A m \in Machines : report[m] = "PASS" => work[m] \in Published
  BY <1>2 DEF HandoffInv, HandoffTypes, Published, IsPublished
<1>3. ASSUME HandoffInv PROVE Desk!SafeMeansHandedOver /\ Desk!SafeHeadsAreOneLine
  BY <1>2, <1>3 DEF HandoffInv, OneLine, SafeStays, Desk!SafeMeansHandedOver, Desk!SafeHeadsAreOneLine
<1>4. HandoffInv => Desk!TypeOK /\ Desk!SafeMeansHandedOver /\ Desk!SafeHeadsAreOneLine
  BY <1>1, <1>3
<1> QED
  BY <1>4, HandoffIsAlwaysSound, PTL

\* As long as nothing gives a doctor reason to doubt, it has learned all that a safe handoff asks for of what it
\* has asked.
Learned(m) ==
  doctor[m] # None /\ ~Desk!Cause(m) =>
    /\ doctor[m].next # "branch" => doctor[m].branch = "work"
    /\ doctor[m].next \notin {"branch", "tree"} => doctor[m].clean = TRUE
    /\ doctor[m].next \notin {"branch", "tree", "origin"} => doctor[m].origin
    /\ doctor[m].next \in {"ref", "fetch", "relation", "assess"} => doctor[m].upstream = "work"
    /\ doctor[m].next \in {"fetch", "relation", "assess"} => doctor[m].available = TRUE /\ doctor[m].oid = tracking[m]
    /\ doctor[m].next \in {"relation", "assess"} => doctor[m].fresh = TRUE
    /\ doctor[m].next = "assess" => doctor[m].relation = "synchronized"

\* A doctor with no reason to doubt learns what a safe handoff asks for.
LEMMA LearnedAsk ==
  ASSUME HandoffInv, Desk!HandoffAssumption, Desk!NoneAssumption, "ssh" \notin Forms, NEW m \in Machines, Learned(m),
         Desk!Ask(m)
  PROVE  Learned(m)'
<1>1. doctor[m] \in Facts /\ doctor[m] # None /\ doctor[m].next \in Desk!Probes
      /\ UNCHANGED <<server, work, config, dirty, tracking, fetched, made, changes>>
  BY DEF Desk!Ask, HandoffInv, HandoffTypes, Desk!git
<1>2. PICK e \in Facts : doctor' = [doctor EXCEPT ![m] = e] /\ Asked(m, e)
  BY AskedFacts
<1>3. doctor'[m] = e
  BY <1>2 DEF HandoffInv, HandoffTypes
<1>4. e.deaf = doctor[m].deaf /\ e.quiet = doctor[m].quiet
  BY <1>2 DEF Asked
<1>5. Desk!Cause(m)' <=> Desk!Cause(m)
  BY <1>1, <1>3, <1>4 DEF Desk!Cause, Desk!OriginMatches
<1>6. SUFFICES ASSUME ~Desk!Cause(m)
               PROVE  /\ e.next # "branch" => e.branch = "work"
                      /\ e.next \notin {"branch", "tree"} => e.clean = TRUE
                      /\ e.next \notin {"branch", "tree", "origin"} => e.origin
                      /\ e.next \in {"ref", "fetch", "relation", "assess"} => e.upstream = "work"
                      /\ e.next \in {"fetch", "relation", "assess"} => e.available = TRUE /\ e.oid = tracking[m]
                      /\ e.next \in {"relation", "assess"} => e.fresh = TRUE
                      /\ e.next = "assess" => e.relation = "synchronized"
  BY <1>1, <1>3, <1>5 DEF Learned
<1>7. /\ config[m].branch = "work" /\ config[m].upstream = "work" /\ m \notin dirty /\ Desk!OriginMatches(m)
      /\ tracking[m] # None /\ tracking[m] = work[m]
      /\ \E line \in fetched[m] : line.url[1] = Expected /\ line.branch = "work" /\ line.oid = tracking[m]
  BY <1>6 DEF Desk!Cause
<1>8. "work" # None /\ None # TRUE
  BY DEF Desk!NoneAssumption
<1>9. CASE doctor[m].next = "branch"
  BY <1>2, <1>7, <1>9 DEF Asked
<1>10. CASE doctor[m].next = "tree"
  BY <1>1, <1>2, <1>6, <1>7, <1>10 DEF Asked, Learned
<1>11. CASE doctor[m].next = "origin"
  BY <1>1, <1>2, <1>6, <1>7, <1>8, <1>11 DEF Asked, Learned
<1>12. CASE doctor[m].next = "upstream"
  BY <1>1, <1>2, <1>6, <1>7, <1>12 DEF Asked, Learned
<1>13. CASE doctor[m].next = "ref"
  <2>1. doctor[m].upstream = "work"
    BY <1>1, <1>6, <1>13 DEF Learned
  <2>2. Desk!RefOf(m, Desk!Compared(doctor[m])) = tracking[m]
    BY <1>8, <2>1 DEF Desk!RefOf, Desk!Compared
  <2>3. e.oid = tracking[m] /\ e.available = TRUE /\ e.next = "fetch"
    BY <1>2, <1>7, <1>13, <2>2 DEF Asked
  <2>4. e.branch = doctor[m].branch /\ e.clean = doctor[m].clean /\ e.origin = doctor[m].origin
        /\ e.upstream = doctor[m].upstream
    BY <1>2, <1>13 DEF Asked
  <2> QED
    BY <1>1, <1>6, <1>13, <2>3, <2>4 DEF Learned
<1>14. CASE doctor[m].next = "fetch"
  <2>1. doctor[m].branch = "work" /\ doctor[m].oid = tracking[m]
    BY <1>1, <1>6, <1>14 DEF Learned
  <2>2. Desk!FetchHeadProves(m, doctor[m].branch, doctor[m].oid)
    <3>1. PICK line \in fetched[m] : line.url[1] = Expected /\ line.branch = "work" /\ line.oid = tracking[m]
      BY <1>7
    <3>2. line.url[2] # "ssh"
      BY <3>1 DEF HandoffInv, HandoffTypes, Lines, Desk!Urls
    <3> QED
      BY <2>1, <3>1, <3>2 DEF Desk!FetchHeadProves, Desk!RecordedRepository
  <2>3. e.fresh = TRUE /\ e.next = "relation"
    BY <1>2, <1>14, <2>2 DEF Asked
  <2>4. e.branch = doctor[m].branch /\ e.clean = doctor[m].clean /\ e.origin = doctor[m].origin
        /\ e.upstream = doctor[m].upstream /\ e.available = doctor[m].available /\ e.oid = doctor[m].oid
    BY <1>2, <1>14 DEF Asked
  <2> QED
    BY <1>1, <1>6, <1>14, <2>3, <2>4 DEF Learned
<1>15. CASE doctor[m].next = "relation"
  <2>1. doctor[m].upstream = "work"
    BY <1>1, <1>6, <1>15 DEF Learned
  <2>2. Desk!RefOf(m, Desk!Compared(doctor[m])) = work[m] /\ Desk!Head(m) = work[m]
    BY <1>7, <1>8, <2>1 DEF Desk!RefOf, Desk!Compared, Desk!Head
  <2>3. Desk!Relation(work[m], work[m]) = "synchronized"
    BY DEF Desk!Relation
  <2>4. e.relation = "synchronized" /\ e.next = "assess"
    BY <1>2, <1>15, <2>2, <2>3 DEF Asked
  <2>5. e.branch = doctor[m].branch /\ e.clean = doctor[m].clean /\ e.origin = doctor[m].origin
        /\ e.upstream = doctor[m].upstream /\ e.available = doctor[m].available /\ e.oid = doctor[m].oid
        /\ e.fresh = doctor[m].fresh
    BY <1>2, <1>15 DEF Asked
  <2> QED
    BY <1>1, <1>6, <1>15, <2>4, <2>5 DEF Learned
<1> QED
  BY <1>1, <1>9, <1>10, <1>11, <1>12, <1>13, <1>14, <1>15 DEF Desk!Probes

\* A machine whose doctor learns and whose git does not move: nothing that gives reason to doubt goes away.
LEMMA LearnedStays ==
  ASSUME NEW m \in Machines, Learned(m), doctor'[m] = doctor[m], work'[m] = work[m], config'[m] = config[m],
         tracking'[m] = tracking[m], fetched'[m] = fetched[m], (m \in dirty') = (m \in dirty)
  PROVE  Learned(m)'
<1>1. Desk!Cause(m)' <=> Desk!Cause(m)
  BY DEF Desk!Cause, Desk!OriginMatches
<1> QED
  BY <1>1 DEF Learned

\* Every step keeps what such a doctor has learned.
LEMMA LearnedNext ==
  ASSUME HandoffInv, HandoffInv', Desk!HandoffAssumption, Desk!NoneAssumption, "ssh" \notin Forms,
         \A m \in Machines : Learned(m), [Desk!Next]_(Desk!vars)
  PROVE  \A m \in Machines : Learned(m)'
<1> SUFFICES ASSUME NEW m \in Machines PROVE Learned(m)'
  OBVIOUS
<1> USE DEF HandoffInv, HandoffTypes
<1>1. CASE UNCHANGED Desk!vars
  BY <1>1, LearnedStays DEF Desk!vars, Desk!git
<1>2. CASE Desk!Next
  <2>1. PICK n \in Machines :
          \/ Desk!Edit(n) \/ Desk!Commit(n) \/ Desk!Push(n) \/ Desk!Fetch(n) \/ Desk!FastForward(n) \/ Desk!Configure(n)
          \/ \E url \in Desk!Urls, b \in {"work", "main"} : Desk!FetchByUrl(n, url, b)
          \/ Desk!Start(n) \/ Desk!Ask(n) \/ Desk!Unanswered(n) \/ Desk!Assess(n)
    BY <1>2 DEF Desk!Next
  <2>2. CASE n = m /\ Desk!Ask(n)
    BY <2>2, LearnedAsk
  <2>3. CASE n = m /\ (Desk!Voided(n) \/ Desk!Assess(n))
    <3>1. doctor'[m] = None
      BY <2>3 DEF Desk!Voided, Desk!Assess
    <3> QED
      BY <3>1 DEF Learned
  <2>4. CASE n = m /\ Desk!Disturbed(n)
    <3>1. doctor'[m] # None => doctor'[m] = [doctor[m] EXCEPT !.quiet = FALSE] /\ doctor[m] \in Facts
      BY <2>4 DEF Desk!Disturbed
    <3>2. doctor'[m] # None => ~doctor'[m].quiet
      BY <3>1 DEF Facts
    <3> QED
      BY <3>2 DEF Learned, Desk!Cause
  <2>5. CASE n = m /\ Desk!Start(n)
    <3>1. doctor'[m] = Desk!Unknown
      BY <2>5 DEF Desk!Start
    <3>2. doctor'[m].next = "branch"
      BY <3>1 DEF Desk!Unknown
    <3> QED
      BY <3>2 DEF Learned
  <2>6. CASE n = m /\ Desk!Unanswered(n)
    <3>1. doctor[m] \in Facts /\ doctor[m] # None
      BY <2>6 DEF Desk!Unanswered
    <3>2. doctor'[m] = [[doctor[m] EXCEPT !.deaf = TRUE] EXCEPT !.next = Desk!After([doctor[m] EXCEPT !.deaf = TRUE])]
      BY <2>6 DEF Desk!Unanswered, Desk!Continue
    <3>3. doctor'[m].deaf
      BY <3>1, <3>2 DEF Facts
    <3> QED
      BY <3>3 DEF Learned, Desk!Cause
  <2>7. CASE n # m
    <3>1. doctor'[m] = doctor[m]
      BY <2>1, <2>7 DEF Desk!Edit, Desk!Commit, Desk!Push, Desk!Fetch, Desk!FastForward, Desk!Configure, Desk!FetchByUrl,
        Desk!Start, Desk!Ask, Desk!Unanswered, Desk!Assess, Desk!Voided, Desk!Disturbed, Desk!Continue
    <3>2. work'[m] = work[m] /\ tracking'[m] = tracking[m] /\ fetched'[m] = fetched[m] /\ (m \in dirty') = (m \in dirty)
      BY <2>1, <2>7 DEF Desk!Edit, Desk!Commit, Desk!Push, Desk!Fetch, Desk!FastForward, Desk!Configure, Desk!FetchByUrl,
        Desk!Start, Desk!Ask, Desk!Unanswered, Desk!Assess, Desk!git
    <3>3. config'[m] = config[m]
      BY <2>1, <2>7 DEF Desk!Edit, Desk!Commit, Desk!Push, Desk!Fetch, Desk!FastForward, Desk!Configure, Desk!FetchByUrl,
        Desk!Start, Desk!Ask, Desk!Unanswered, Desk!Assess, Desk!git
    <3> QED
      BY <3>1, <3>2, <3>3, LearnedStays
  <2> QED
    BY <2>1, <2>2, <2>3, <2>4, <2>5, <2>6, <2>7 DEF Desk!Edit, Desk!Commit, Desk!Push, Desk!Fetch, Desk!FastForward,
      Desk!Configure, Desk!FetchByUrl
<1> QED
  BY <1>1, <1>2

\* A doctor that ends without reason to doubt calls the handoff safe.
LEMMA DoubtNeedsACause ==
  ASSUME HandoffInv, Desk!NoneAssumption, \A m \in Machines : Learned(m), [Desk!Next]_(Desk!vars)
  PROVE  Desk!DoubtHasACause
<1> SUFFICES ASSUME NEW m \in Machines, doctor[m] # None, report'[m] \in {"WARN", "FAIL"}
             PROVE  Desk!Cause(m)
  BY DEF Desk!DoubtHasACause
<1> USE DEF HandoffInv, HandoffTypes
<1>1. report[m] = None /\ None \notin {"WARN", "FAIL", "PASS"}
  BY DEF Knows, Desk!NoneAssumption
<1>2. CASE UNCHANGED Desk!vars
  BY <1>1, <1>2 DEF Desk!vars
<1>3. CASE Desk!Next
  <2>1. PICK n \in Machines :
          \/ Desk!Edit(n) \/ Desk!Commit(n) \/ Desk!Push(n) \/ Desk!Fetch(n) \/ Desk!FastForward(n) \/ Desk!Configure(n)
          \/ \E url \in Desk!Urls, b \in {"work", "main"} : Desk!FetchByUrl(n, url, b)
          \/ Desk!Start(n) \/ Desk!Ask(n) \/ Desk!Unanswered(n) \/ Desk!Assess(n)
    BY <1>3 DEF Desk!Next
  <2>2. n = m /\ Desk!Assess(n)
    BY <1>1, <2>1 DEF Desk!Edit, Desk!Commit, Desk!Push, Desk!Fetch, Desk!FastForward, Desk!Configure, Desk!FetchByUrl,
        Desk!Start, Desk!Ask, Desk!Unanswered, Desk!Assess, Desk!Voided, Desk!Disturbed
  <2>3. doctor[m].next = "assess" /\ Desk!evaluate_handoff_state(doctor[m]) # "PASS"
    BY <2>2 DEF Desk!Assess
  <2>4. Learned(m) /\ "work" # None
    BY DEF Desk!NoneAssumption
  <2>5. ~Desk!Cause(m) => ~Desk!Blocking(doctor[m]) /\ ~Desk!Uncertain(doctor[m])
    BY <2>3, <2>4 DEF Learned, Desk!Blocking, Desk!Uncertain, Desk!NoneAssumption
  <2> QED
    BY <2>3, <2>5 DEF Desk!evaluate_handoff_state
<1> QED
  BY <1>2, <1>3

\* DoubtHasACause: a doctor ends in doubt only where the checkout, its settings, the server or an unanswered question
\* gave reason to.
THEOREM DoubtAlwaysHasACause ==
  ASSUME Desk!HandoffAssumption, Desk!NoneAssumption, "ssh" \notin Forms
  PROVE  Desk!Spec => [][Desk!DoubtHasACause]_(Desk!vars)
<1> DEFINE Inv == HandoffInv /\ \A m \in Machines : Learned(m)
<1>1. Desk!Init => Inv
  BY HandoffInitLemma DEF Desk!Init, Learned
<1>2. Inv /\ [Desk!Next]_(Desk!vars) => Inv'
  BY HandoffNext, LearnedNext
<1>3. Inv /\ [Desk!Next]_(Desk!vars) => Desk!DoubtHasACause
  BY DoubtNeedsACause
<1> QED
  BY <1>1, <1>2, <1>3, PTL DEF Desk!Spec
-----------------------------------------------------------------------------
(* SpatialCorpus.                                                           *)

Corpus == INSTANCE SpatialCorpus

Annotations == [status : Statuses, player : Int \cup {None}, sprites : Seq(Int)]

\* What a workflow holds; a fingerprint may be anything.
IsWorkflow(w) ==
  /\ w = [annotations |-> w.annotations, reviews |-> w.reviews, freeze |-> w.freeze]
  /\ w.annotations \in [Corpus!Ids -> Annotations]
  /\ \A r \in w.reviews : r = [frame |-> r.frame, of |-> r.of, status |-> r.status]

\* The freeze record of a version says what FrozenWasReviewed asks of the file.
SoundlyFrozen(w) ==
  w.freeze # None =>
    LET passed == {f \in Corpus!Ids : [frame |-> f, of |-> Corpus!Fingerprint(w.annotations[f]),
                                       status |-> "passed"] \in w.reviews}
        usable == {f \in Corpus!Ids : w.annotations[f].status = "usable"}
    IN  /\ w.freeze = Corpus!ManifestFingerprint(w)
        /\ usable \subseteq passed
        /\ \A s \in Required : \E f \in usable : Split[f] = s

\* What may be written over the file: a frozen version stays.
Follows(w) ==
  file.freeze # None =>
    w.freeze = file.freeze /\ w.annotations = file.annotations /\ file.reviews \subseteq w.reviews

IsWindow(v) ==
  /\ v = [workflow |-> v.workflow, index |-> v.index, drafts |-> v.drafts, history |-> v.history]
  /\ v.index \in DOMAIN Frames
  /\ v.drafts \in [Corpus!Ids -> Annotations \cup {None}]
  /\ v.history \in [Corpus!Ids -> Seq(Annotations)]

CorpusInv ==
  /\ IsWorkflow(file) /\ SoundlyFrozen(file)
  /\ intact \subseteq Corpus!Ids /\ steps \in Nat
  /\ pending # None => IsWorkflow(pending) /\ SoundlyFrozen(pending)
  /\ window # None => IsWindow(window) /\ IsWorkflow(window.workflow) /\ SoundlyFrozen(window.workflow)
  /\ Corpus!UndoLeadsBack
  /\ ~Overlapping => /\ pending # None => Follows(pending) /\ window = None
                     /\ window # None => window.workflow = file

\* What division with a remainder says.
LEMMA DivisionTells ==
  ASSUME NEW a \in Int, NEW b \in Int, b > 0
  PROVE  /\ a \div b \in Int /\ a % b \in Int
         /\ a = b * (a \div b) + (a % b) /\ 0 <= a % b /\ a % b < b
OBVIOUS

\* A multiple divides without a remainder.
LEMMA DivisionOfMultiple ==
  ASSUME NEW x \in Int, NEW b \in Int, b > 0
  PROVE  (x * b) \div b = x
OBVIOUS

\* The ceiling is off by less than the divisor.
LEMMA CeilingBounds ==
  ASSUME NEW a \in Int, NEW b \in Int, b > 0
  PROVE  /\ Corpus!Ceiling(a, b) \in Int
         /\ a <= b * Corpus!Ceiling(a, b) /\ b * Corpus!Ceiling(a, b) <= a + b - 1
BY DivisionTells DEF Corpus!Ceiling

\* A frame shrunk by its factor fits the limit.
LEMMA FactorFits ==
  ASSUME NEW width \in Int, NEW limit \in Int, width > 0, limit > 0
  PROVE  /\ Corpus!Factor(width, limit) \in Int /\ Corpus!Factor(width, limit) > 0
         /\ width <= limit * Corpus!Factor(width, limit)
<1>1. limit * Corpus!Ceiling(width, limit) >= width /\ Corpus!Ceiling(width, limit) \in Int
  BY CeilingBounds
<1>2. CASE Corpus!Ceiling(width, limit) > 1
  BY <1>1, <1>2 DEF Corpus!Factor
<1>3. CASE ~(Corpus!Ceiling(width, limit) > 1)
  <2>1. \A c \in Int : c <= 1 => limit * c <= limit
    OBVIOUS
  <2> QED
    BY <1>1, <1>3, <2>1 DEF Corpus!Factor
<1> QED
  BY <1>2, <1>3

\* A click inside the display is drawn again where it was made; one outside is none.
LEMMA ClicksComeBack ==
  ASSUME NEW width \in Int, NEW limit \in Int, width > 0, limit > 0, NEW factor \in Int, factor = Corpus!Factor(width, limit)
  PROVE  /\ Corpus!DisplayWidth(width, factor) \in Int /\ Corpus!DisplayWidth(width, factor) <= limit
         /\ \A x \in 0..Corpus!DisplayWidth(width, factor) - 1 :
              /\ Corpus!DisplayToOriginal(x, width, factor) \in 0..width - 1
              /\ Corpus!DrawnAt(Corpus!DisplayToOriginal(x, width, factor), factor) = x
<1> DEFINE q == Corpus!DisplayWidth(width, factor)
<1>1. factor > 0 /\ width <= limit * factor
  BY FactorFits
<1>2. q \in Int /\ factor * q <= width + factor - 1
  BY <1>1, CeilingBounds DEF Corpus!DisplayWidth
<1> HIDE DEF q
<1>3. q <= limit
  <2>1. SUFFICES ASSUME q >= limit + 1 PROVE FALSE
    BY <1>2
  <2>2. factor * q >= factor * (limit + 1)
    BY <1>1, <1>2, <2>1
  <2>3. factor * (limit + 1) = limit * factor + factor
    BY <1>1
  <2> QED
    BY <1>1, <1>2, <2>2, <2>3
<1>4. ASSUME NEW x \in 0..q - 1
      PROVE  /\ Corpus!DisplayToOriginal(x, width, factor) \in 0..width - 1
             /\ Corpus!DrawnAt(Corpus!DisplayToOriginal(x, width, factor), factor) = x
  <2>1. factor * x <= factor * (q - 1)
    BY <1>1, <1>2
  <2>2. factor * (q - 1) = factor * q - factor
    BY <1>1, <1>2
  <2>3. x * factor <= width - 1 /\ x * factor >= 0 /\ x * factor \in Int
    BY <1>1, <1>2, <2>1, <2>2
  <2>4. Corpus!DisplayToOriginal(x, width, factor) = x * factor
    BY <2>3 DEF Corpus!DisplayToOriginal, q
  <2>5. (x * factor) \div factor = x
    BY <1>1, DivisionOfMultiple
  <2> QED
    BY <2>3, <2>4, <2>5 DEF Corpus!DrawnAt
<1> QED
  BY <1>2, <1>3, <1>4 DEF q

\* An empty workflow and no window.
LEMMA CorpusInitLemma ==
  ASSUME Corpus!CorpusAssumption, Corpus!Init
  PROVE  CorpusInv
<1>1. Corpus!Blank \in Annotations
  BY DEF Corpus!Blank, Annotations, Corpus!CorpusAssumption
<1>2. /\ file = [annotations |-> [f \in Corpus!Ids |-> Corpus!Blank], reviews |-> {}, freeze |-> None]
      /\ intact = Corpus!Ids /\ pending = None /\ window = None /\ steps = 0
  BY DEF Corpus!Init
<1>3. IsWorkflow(file) /\ SoundlyFrozen(file)
  BY <1>1, <1>2 DEF IsWorkflow, SoundlyFrozen
<1>4. Corpus!UndoLeadsBack
  BY <1>2 DEF Corpus!UndoLeadsBack
<1> QED
  BY <1>2, <1>3, <1>4 DEF CorpusInv

\* A command starts: what it is going to write is in order.
LEMMA CommandStarts ==
  ASSUME CorpusInv, Corpus!Step, Corpus!Free, MaxSteps \in Nat,
         IsWorkflow(pending'), SoundlyFrozen(pending'), Follows(pending'), UNCHANGED <<file, intact, window>>
  PROVE  CorpusInv'
<1>1. (Overlapping \/ window = None) /\ steps' \in Nat
  BY DEF Corpus!Free, Corpus!Step, CorpusInv
<1>2. IsWorkflow(file)' /\ SoundlyFrozen(file)'
  BY DEF CorpusInv, IsWorkflow, SoundlyFrozen
<1>3. (IsWorkflow(pending) /\ SoundlyFrozen(pending) /\ Follows(pending))'
  BY DEF IsWorkflow, SoundlyFrozen, Follows
<1>4. Corpus!UndoLeadsBack' /\ (window' # None => (IsWindow(window) /\ IsWorkflow(window.workflow) /\ SoundlyFrozen(window.workflow))')
  BY <1>1 DEF CorpusInv, Corpus!UndoLeadsBack, IsWindow, IsWorkflow, SoundlyFrozen
<1> QED
  BY <1>1, <1>2, <1>3, <1>4 DEF CorpusInv

\* `annotate` starts.
LEMMA CorpusAnnotate ==
  ASSUME CorpusInv, Corpus!CorpusAssumption, NEW f \in Corpus!Ids, NEW a \in Annotations, Corpus!Annotate(f, a)
  PROVE  CorpusInv'
<1>1. IsWorkflow(file) /\ file.freeze = None /\ pending' = Corpus!Recorded(file, f, a)
  BY DEF Corpus!Annotate, Corpus!Mutable, CorpusInv
<1>2. pending' = [[file EXCEPT !.annotations = [file.annotations EXCEPT ![f] = a]] EXCEPT !.freeze = None]
  BY <1>1 DEF Corpus!Recorded, IsWorkflow
<1>3. pending' = [annotations |-> [file.annotations EXCEPT ![f] = a], reviews |-> file.reviews, freeze |-> None]
  BY <1>1, <1>2 DEF IsWorkflow
<1>4. IsWorkflow(pending') /\ pending'.freeze = None
  BY <1>1, <1>3 DEF IsWorkflow
<1>5. SoundlyFrozen(pending') /\ Follows(pending')
  BY <1>1, <1>4 DEF SoundlyFrozen, Follows
<1> QED
  BY <1>4, <1>5, CommandStarts DEF Corpus!Annotate, Corpus!CorpusAssumption

\* `review` starts.
LEMMA CorpusReview ==
  ASSUME CorpusInv, Corpus!CorpusAssumption, NEW f \in Corpus!Ids, NEW status, Corpus!Review(f, status)
  PROVE  CorpusInv'
<1> DEFINE r == [frame |-> f, of |-> Corpus!Fingerprint(file.annotations[f]), status |-> status]
<1>1. pending' = [annotations |-> file.annotations, reviews |-> file.reviews \cup {r}, freeze |-> file.freeze]
  BY DEF Corpus!Review, Corpus!Reviewed, CorpusInv, IsWorkflow
<1>2. /\ pending'.annotations = file.annotations /\ pending'.reviews = file.reviews \cup {r}
      /\ pending'.freeze = file.freeze
  BY <1>1
<1>3. IsWorkflow(pending')
  BY <1>1, <1>2 DEF CorpusInv, IsWorkflow
<1>4. Corpus!ManifestFingerprint(pending') = Corpus!ManifestFingerprint(file)
  BY <1>2 DEF Corpus!ManifestFingerprint
<1>5. SoundlyFrozen(pending')
  BY <1>2, <1>4 DEF CorpusInv, SoundlyFrozen
<1>6. Follows(pending')
  BY <1>2 DEF Follows
<1> QED
  BY <1>3, <1>5, <1>6, CommandStarts DEF Corpus!Review, Corpus!CorpusAssumption

\* `freeze` starts: it asks for what FrozenWasReviewed says.
LEMMA CorpusFreeze ==
  ASSUME CorpusInv, Corpus!CorpusAssumption, Corpus!Freeze
  PROVE  CorpusInv'
<1>1. pending' = [annotations |-> file.annotations, reviews |-> file.reviews,
                  freeze |-> Corpus!ManifestFingerprint(file)]
  BY DEF Corpus!Freeze, Corpus!Frozen, CorpusInv, IsWorkflow
<1>2. /\ pending'.annotations = file.annotations /\ pending'.reviews = file.reviews
      /\ pending'.freeze = Corpus!ManifestFingerprint(file) /\ file.freeze = None
  BY <1>1 DEF Corpus!Freeze, Corpus!FreezeReady
<1>3. IsWorkflow(pending') /\ Follows(pending')
  BY <1>1, <1>2 DEF CorpusInv, IsWorkflow, Follows
<1>4. Corpus!ManifestFingerprint(pending') = Corpus!ManifestFingerprint(file)
  BY <1>2 DEF Corpus!ManifestFingerprint
<1>5. SoundlyFrozen(pending')
  <2> DEFINE now == {r \in file.reviews : Corpus!ReviewIsCurrent(r, file)}
             passed == {r.frame : r \in {s \in now : s.status = "passed"}}
             usable == {f \in Corpus!Ids : file.annotations[f].status = "usable"}
  <2>1. usable \subseteq passed /\ Required \subseteq {Split[f] : f \in usable \cap passed}
    BY DEF Corpus!Freeze, Corpus!FreezeReady
  <2>2. \A f \in passed :
          [frame |-> f, of |-> Corpus!Fingerprint(file.annotations[f]), status |-> "passed"] \in file.reviews
    BY DEF Corpus!ReviewIsCurrent, CorpusInv, IsWorkflow
  <2> HIDE DEF passed
  <2>3. \A s \in Required : \E f \in usable : Split[f] = s
    BY <2>1
  <2> QED
    BY <1>2, <1>4, <2>1, <2>2, <2>3 DEF SoundlyFrozen
<1> QED
  BY <1>3, <1>5, CommandStarts DEF Corpus!Freeze, Corpus!CorpusAssumption

\* A window on the file as it is goes on.
LEMMA WindowStays ==
  ASSUME CorpusInv, UNCHANGED window
  PROVE  /\ Corpus!UndoLeadsBack'
         /\ window' # None => (IsWindow(window) /\ IsWorkflow(window.workflow) /\ SoundlyFrozen(window.workflow))'
BY DEF CorpusInv, Corpus!UndoLeadsBack, IsWindow, IsWorkflow, SoundlyFrozen

\* A command writes what it has made.
LEMMA CorpusWrite ==
  ASSUME CorpusInv, Corpus!Write
  PROVE  CorpusInv'
<1>1. pending # None /\ file' = pending /\ pending' = None /\ UNCHANGED <<intact, window, steps>>
  BY DEF Corpus!Write
<1>2. IsWorkflow(file)' /\ SoundlyFrozen(file)'
  BY <1>1 DEF CorpusInv, IsWorkflow, SoundlyFrozen
<1> QED
  BY <1>1, <1>2, WindowStays DEF CorpusInv

\* The file and the command under way are left alone.
LEMMA FileStays ==
  ASSUME CorpusInv, UNCHANGED <<file, pending>>
  PROVE  /\ IsWorkflow(file)' /\ SoundlyFrozen(file)'
         /\ pending' # None => (IsWorkflow(pending) /\ SoundlyFrozen(pending))'
         /\ ~Overlapping => (pending' # None => Follows(pending)')
BY DEF CorpusInv, IsWorkflow, SoundlyFrozen, Follows

\* A frame's bytes change.
LEMMA CorpusDrift ==
  ASSUME CorpusInv, MaxSteps \in Nat, NEW f, Corpus!Drift(f)
  PROVE  CorpusInv'
<1>1. UNCHANGED <<file, pending, window>> /\ intact' \subseteq Corpus!Ids /\ steps' \in Nat
  BY DEF Corpus!Drift, Corpus!Step, CorpusInv
<1> QED
  BY <1>1, FileStays, WindowStays DEF CorpusInv

(* --- the window -------------------------------------------------------- *)

\* The frame on show is one of the corpus.
LEMMA ShownIsAFrame ==
  ASSUME NEW v, IsWindow(v)
  PROVE  Frames[v.index] \in Corpus!Ids
BY DEF IsWindow, Corpus!Ids, Corpus!ToSet

\* The window opens on the file.
LEMMA CorpusOpen ==
  ASSUME CorpusInv, Corpus!CorpusAssumption, Corpus!Open
  PROVE  CorpusInv'
<1>1. /\ UNCHANGED <<file, intact, pending>> /\ steps' \in Nat /\ window = None /\ (Overlapping \/ pending = None)
      /\ window' = [workflow |-> file, index |-> 1,
                    drafts |-> [f \in Corpus!Ids |-> None], history |-> [f \in Corpus!Ids |-> <<>>]]
  BY DEF Corpus!Open, Corpus!Step, CorpusInv, Corpus!CorpusAssumption
<1>2. /\ window'.workflow = file /\ window'.index = 1
      /\ window'.drafts = [f \in Corpus!Ids |-> None] /\ window'.history = [f \in Corpus!Ids |-> <<>>]
  BY <1>1
<1>3. 1 \in DOMAIN Frames
  BY DEF Corpus!CorpusAssumption
<1>4. IsWindow(window)'
  BY <1>1, <1>2, <1>3 DEF IsWindow
<1>5. Corpus!UndoLeadsBack'
  BY <1>2 DEF Corpus!UndoLeadsBack
<1>6. IsWorkflow(window'.workflow) /\ SoundlyFrozen(window'.workflow)
  BY <1>2 DEF CorpusInv
<1>7. (IsWorkflow(window.workflow) /\ SoundlyFrozen(window.workflow))'
  BY <1>6 DEF IsWorkflow, SoundlyFrozen
<1> QED
  BY <1>1, <1>2, <1>4, <1>5, <1>7, FileStays DEF CorpusInv

\* The window shows another frame.
LEMMA CorpusMove ==
  ASSUME CorpusInv, Corpus!CorpusAssumption, NEW by \in {1, -1}, Corpus!Move(by)
  PROVE  CorpusInv'
<1>1. /\ UNCHANGED <<file, intact, pending, steps>> /\ window # None /\ window.index + by \in DOMAIN Frames
      /\ window' = [window EXCEPT !.index = window.index + by] /\ IsWindow(window)
  BY DEF Corpus!Move, Corpus!CorpusAssumption, CorpusInv, IsWindow
<1>2. /\ window' = [workflow |-> window.workflow, index |-> window.index + by, drafts |-> window.drafts,
                    history |-> window.history]
  BY <1>1 DEF IsWindow
<1>3. /\ window'.workflow = window.workflow /\ window'.index = window.index + by
      /\ window'.drafts = window.drafts /\ window'.history = window.history
  BY <1>2
<1>4. IsWindow(window)'
  BY <1>1, <1>2, <1>3 DEF IsWindow
<1>5. Corpus!UndoLeadsBack'
  BY <1>1, <1>3 DEF CorpusInv, Corpus!UndoLeadsBack
<1>6. (IsWorkflow(window.workflow) /\ SoundlyFrozen(window.workflow))'
  BY <1>1, <1>3 DEF CorpusInv, IsWorkflow, SoundlyFrozen
<1> QED
  BY <1>1, <1>3, <1>4, <1>5, <1>6, FileStays DEF CorpusInv

\* A changed draft is an annotation again.
LEMMA AnnotationTypes ==
  ASSUME CorpusInv, window # None
  PROVE  Corpus!Annotation \in Annotations
<1>1. Frames[window.index] \in Corpus!Ids
  BY ShownIsAFrame DEF CorpusInv
<1> QED
  BY <1>1 DEF CorpusInv, IsWindow, IsWorkflow, Corpus!Annotation, Corpus!Shown

\* A draft of the frame on show replaces the one before, which undo gives back.
LEMMA CorpusStage ==
  ASSUME CorpusInv, Corpus!CorpusAssumption, NEW a \in Annotations, Corpus!Stage(a)
  PROVE  CorpusInv'
<1> DEFINE f == Frames[window.index]  x == Corpus!Annotation
<1>1. /\ UNCHANGED <<file, intact, pending>> /\ window # None /\ steps' \in Nat /\ IsWindow(window)
      /\ IsWorkflow(window.workflow)
  BY DEF Corpus!Stage, Corpus!Step, Corpus!CorpusAssumption, CorpusInv
<1>2. f \in Corpus!Ids /\ x \in Annotations
  BY <1>1, ShownIsAFrame, AnnotationTypes
<1>3. x = IF window.drafts[f] # None THEN window.drafts[f] ELSE window.workflow.annotations[f]
  BY DEF Corpus!Annotation, Corpus!Shown
<1>4. window' = [window EXCEPT !.drafts[f] = a, !.history[f] = Append(@, x)]
  BY DEF Corpus!Stage, Corpus!Shown
<1> HIDE DEF f, x
<1>5. window' = [[window EXCEPT !.drafts = [window.drafts EXCEPT ![f] = a]]
                         EXCEPT !.history = [window.history EXCEPT ![f] = Append(window.history[f], x)]]
  BY <1>1, <1>2, <1>4 DEF IsWindow
<1>6. window' = [workflow |-> window.workflow, index |-> window.index, drafts |-> [window.drafts EXCEPT ![f] = a],
                 history |-> [window.history EXCEPT ![f] = Append(window.history[f], x)]]
  BY <1>1, <1>5 DEF IsWindow
<1>7. /\ window'.workflow = window.workflow /\ window'.index = window.index
      /\ window'.drafts = [window.drafts EXCEPT ![f] = a]
      /\ window'.history = [window.history EXCEPT ![f] = Append(window.history[f], x)]
  BY <1>6
<1>8. window.history[f] \in Seq(Annotations) /\ Append(window.history[f], x) \in Seq(Annotations)
  BY <1>1, <1>2 DEF IsWindow
<1>9. IsWindow(window)'
  BY <1>1, <1>2, <1>6, <1>7, <1>8 DEF IsWindow
<1>10. Corpus!UndoLeadsBack'
  <2> SUFFICES ASSUME NEW g \in Corpus!Ids
               PROVE  IF window'.history[g] # <<>> THEN window'.history[g][1] = window.workflow.annotations[g]
                      ELSE window'.drafts[g] \in {None, window.workflow.annotations[g]}
    BY <1>7 DEF Corpus!UndoLeadsBack
  <2>1. IF window.history[g] # <<>> THEN window.history[g][1] = window.workflow.annotations[g]
        ELSE window.drafts[g] \in {None, window.workflow.annotations[g]}
    BY <1>1 DEF CorpusInv, Corpus!UndoLeadsBack
  <2>2. CASE g = f
    <3>1. window'.history[g] = Append(window.history[f], x) /\ Append(window.history[f], x) # <<>>
      <4>1. f \in DOMAIN window.history
        BY <1>1, <1>2 DEF IsWindow
      <4>2. window'.history[g] = Append(window.history[f], x)
        BY <1>7, <2>2, <4>1
      <4>3. Append(window.history[f], x) # <<>>
        BY <1>2, <1>8, AppendProperties
      <4> QED
        BY <4>2, <4>3
    <3>2. Append(window.history[f], x)[1] = window.workflow.annotations[f]
      <4>1. CASE window.history[f] = <<>>
        BY <1>3, <2>1, <2>2, <4>1
      <4>2. CASE window.history[f] # <<>>
        BY <1>8, <2>1, <2>2, <4>2
      <4> QED
        BY <4>1, <4>2
    <3> QED
      BY <2>2, <3>1, <3>2
  <2>3. CASE g # f
    BY <1>1, <1>2, <1>7, <2>1, <2>3 DEF IsWindow
  <2> QED
    BY <2>2, <2>3
<1>11. (IsWorkflow(window.workflow) /\ SoundlyFrozen(window.workflow))'
  BY <1>1, <1>7 DEF CorpusInv, IsWorkflow, SoundlyFrozen
<1> QED
  BY <1>1, <1>7, <1>9, <1>10, <1>11, FileStays DEF CorpusInv

\* Undo leads back to the draft before.
LEMMA CorpusUndo ==
  ASSUME CorpusInv, Corpus!CorpusAssumption, Corpus!Undo
  PROVE  CorpusInv'
<1> DEFINE f == Frames[window.index]  h == window.history[f]
<1>1. /\ UNCHANGED <<file, intact, pending>> /\ window # None /\ steps' \in Nat /\ IsWindow(window)
      /\ IsWorkflow(window.workflow)
  BY DEF Corpus!Undo, Corpus!Step, Corpus!CorpusAssumption, CorpusInv
<1>2. f \in Corpus!Ids
  BY <1>1, ShownIsAFrame
<1>3. h \in Seq(Annotations) /\ h # <<>>
  BY <1>1, <1>2 DEF IsWindow, Corpus!Undo, Corpus!Shown
<1>4. window' = [window EXCEPT !.drafts[f] = h[Len(h)], !.history[f] = SubSeq(h, 1, Len(h) - 1)]
  BY <1>1, <1>2 DEF Corpus!Undo, Corpus!Shown, Corpus!Last, Corpus!Front, IsWindow
<1> HIDE DEF f, h
<1>5. h[Len(h)] \in Annotations /\ SubSeq(h, 1, Len(h) - 1) \in Seq(Annotations) /\ Len(h) \in Nat /\ Len(h) >= 1
  BY <1>3
<1>12. Len(h) = 1 \/ Len(h) > 1
  <2>1. Len(h) \in Nat \ {0}
    BY <1>3, EmptySeq
  <2>2. \A n \in Nat \ {0} : n = 1 \/ n > 1
    OBVIOUS
  <2> QED
    BY <2>1, <2>2
<1>6. window' = [[window EXCEPT !.drafts = [window.drafts EXCEPT ![f] = h[Len(h)]]]
                         EXCEPT !.history = [window.history EXCEPT ![f] = SubSeq(h, 1, Len(h) - 1)]]
  BY <1>1, <1>2, <1>4 DEF IsWindow
<1>7. window' = [workflow |-> window.workflow, index |-> window.index,
                 drafts |-> [window.drafts EXCEPT ![f] = h[Len(h)]],
                 history |-> [window.history EXCEPT ![f] = SubSeq(h, 1, Len(h) - 1)]]
  BY <1>1, <1>6 DEF IsWindow
<1>8. /\ window'.workflow = window.workflow /\ window'.index = window.index
      /\ window'.drafts = [window.drafts EXCEPT ![f] = h[Len(h)]]
      /\ window'.history = [window.history EXCEPT ![f] = SubSeq(h, 1, Len(h) - 1)]
  BY <1>7
<1>9. IsWindow(window)'
  BY <1>1, <1>2, <1>5, <1>7, <1>8 DEF IsWindow
<1>10. Corpus!UndoLeadsBack'
  <2> SUFFICES ASSUME NEW g \in Corpus!Ids
               PROVE  IF window'.history[g] # <<>> THEN window'.history[g][1] = window.workflow.annotations[g]
                      ELSE window'.drafts[g] \in {None, window.workflow.annotations[g]}
    BY <1>8 DEF Corpus!UndoLeadsBack
  <2>1. IF window.history[g] # <<>> THEN window.history[g][1] = window.workflow.annotations[g]
        ELSE window.drafts[g] \in {None, window.workflow.annotations[g]}
    BY <1>1 DEF CorpusInv, Corpus!UndoLeadsBack
  <2>2. CASE g = f
    <3>1. window'.history[g] = SubSeq(h, 1, Len(h) - 1) /\ window'.drafts[g] = h[Len(h)]
      BY <1>1, <1>2, <1>8, <2>2 DEF IsWindow
    <3>2. h[1] = window.workflow.annotations[g]
      BY <1>3, <2>1, <2>2 DEF h
    <3>3. CASE Len(h) = 1
      <4>1. SubSeq(h, 1, Len(h) - 1) = <<>>
        BY <1>3, <3>3
      <4> QED
        BY <3>1, <3>2, <3>3, <4>1
    <3>4. CASE Len(h) > 1
      <4> DEFINE front == SubSeq(h, 1, Len(h) - 1)
      <4>1. Len(front) = Len(h) - 1 /\ front[1] = h[1]
        <5>1. Len(h) - 1 \in Int /\ 1 \in 1..Len(h) - 1 - 1 + 1
          BY <1>5, <3>4
        <5>2. \A i \in 1..Len(h) - 1 : h[i] \in Annotations
          BY <1>3, <1>5
        <5>3. Len(front) = IF 1 <= Len(h) - 1 THEN Len(h) - 1 - 1 + 1 ELSE 0
          BY <5>1, <5>2, SubSeqProperties
        <5>4. \A i \in 1..Len(h) - 1 - 1 + 1 : front[i] = h[1 + i - 1]
          BY <5>1, <5>2, SubSeqProperties
        <5>5. front[1] = h[1 + 1 - 1]
          BY <5>1, <5>4
        <5> QED
          BY <1>5, <3>4, <5>3, <5>5
      <4> HIDE DEF front
      <4>2. front # <<>>
        BY <1>5, <3>4, <4>1
      <4> QED
        BY <3>1, <3>2, <4>1, <4>2 DEF front
    <3> QED
      BY <1>12, <3>3, <3>4
  <2>3. CASE g # f
    BY <1>1, <1>2, <1>8, <2>1, <2>3 DEF IsWindow
  <2> QED
    BY <2>2, <2>3
<1>11. (IsWorkflow(window.workflow) /\ SoundlyFrozen(window.workflow))'
  BY <1>1, <1>8 DEF CorpusInv, IsWorkflow, SoundlyFrozen
<1> QED
  BY <1>1, <1>8, <1>9, <1>10, <1>11, FileStays DEF CorpusInv

\* The window saves the frame on show.
LEMMA CorpusSave ==
  ASSUME CorpusInv, Corpus!Save
  PROVE  CorpusInv'
<1> DEFINE f == Frames[window.index]  a == window.drafts[f]  w == window.workflow
           revised == Corpus!Recorded(w, f, a)
<1>1. /\ UNCHANGED <<intact, pending, steps>> /\ window # None /\ IsWindow(window) /\ IsWorkflow(w)
      /\ w.freeze = None /\ a # None /\ file' = revised
      /\ window' = [window EXCEPT !.workflow = revised, !.drafts[f] = None, !.history[f] = <<>>]
  BY DEF Corpus!Save, Corpus!SaveShown, Corpus!Mutable, Corpus!Shown, CorpusInv
<1>2. f \in Corpus!Ids
  BY <1>1, ShownIsAFrame
<1>3. a \in Annotations
  BY <1>1, <1>2 DEF IsWindow
<1>4. revised = [[w EXCEPT !.annotations = [w.annotations EXCEPT ![f] = a]] EXCEPT !.freeze = None]
  BY <1>1 DEF Corpus!Recorded, IsWorkflow
<1>5. revised = [annotations |-> [w.annotations EXCEPT ![f] = a], reviews |-> w.reviews, freeze |-> None]
  BY <1>1, <1>4 DEF IsWorkflow
<1> HIDE DEF revised, f, a, w
<1>6. /\ revised.annotations = [w.annotations EXCEPT ![f] = a] /\ revised.reviews = w.reviews
      /\ revised.freeze = None
  BY <1>5
<1>7. IsWorkflow(revised) /\ SoundlyFrozen(revised)
  BY <1>1, <1>2, <1>3, <1>5, <1>6 DEF IsWorkflow, SoundlyFrozen
<1>8. window' = [[[window EXCEPT !.workflow = revised] EXCEPT !.drafts = [window.drafts EXCEPT ![f] = None]]
                         EXCEPT !.history = [window.history EXCEPT ![f] = <<>>]]
  BY <1>1 DEF IsWindow
<1>9. window' = [workflow |-> revised, index |-> window.index, drafts |-> [window.drafts EXCEPT ![f] = None],
                 history |-> [window.history EXCEPT ![f] = <<>>]]
  BY <1>1, <1>8 DEF IsWindow
<1>10. /\ window'.workflow = revised /\ window'.index = window.index
       /\ window'.drafts = [window.drafts EXCEPT ![f] = None]
       /\ window'.history = [window.history EXCEPT ![f] = <<>>]
  BY <1>9
<1>11. IsWindow(window)'
  <2>1. window'.drafts \in [Corpus!Ids -> Annotations \cup {None}]
    BY <1>1, <1>10 DEF IsWindow
  <2>2. window'.history \in [Corpus!Ids -> Seq(Annotations)]
    BY <1>1, <1>10, EmptySeq DEF IsWindow
  <2>3. window'.index \in DOMAIN Frames
    BY <1>1, <1>10 DEF IsWindow
  <2> QED
    BY <1>9, <1>10, <2>1, <2>2, <2>3 DEF IsWindow
<1>12. Corpus!UndoLeadsBack'
  <2> SUFFICES ASSUME NEW g \in Corpus!Ids
               PROVE  IF window'.history[g] # <<>> THEN window'.history[g][1] = revised.annotations[g]
                      ELSE window'.drafts[g] \in {None, revised.annotations[g]}
    BY <1>10 DEF Corpus!UndoLeadsBack
  <2>1. CASE g = f
    BY <1>1, <1>2, <1>10, <2>1 DEF IsWindow
  <2>2. CASE g # f
    <3>1. IF window.history[g] # <<>> THEN window.history[g][1] = w.annotations[g]
          ELSE window.drafts[g] \in {None, w.annotations[g]}
      BY <1>1 DEF CorpusInv, Corpus!UndoLeadsBack, w
    <3>2. /\ window'.history[g] = window.history[g] /\ window'.drafts[g] = window.drafts[g]
          /\ revised.annotations[g] = w.annotations[g]
      BY <1>1, <1>2, <1>6, <1>10, <2>2 DEF IsWindow, IsWorkflow
    <3> QED
      BY <3>1, <3>2
  <2> QED
    BY <2>1, <2>2
<1>13. (IsWorkflow(window.workflow) /\ SoundlyFrozen(window.workflow))'
  BY <1>7, <1>10 DEF IsWorkflow, SoundlyFrozen
<1>14. (IsWorkflow(file) /\ SoundlyFrozen(file))'
  BY <1>1, <1>7 DEF IsWorkflow, SoundlyFrozen
<1>15. pending' # None => (IsWorkflow(pending) /\ SoundlyFrozen(pending))'
  BY <1>1 DEF CorpusInv, IsWorkflow, SoundlyFrozen
<1>16. ~Overlapping => pending = None
  BY <1>1 DEF CorpusInv
<1> QED
  BY <1>1, <1>10, <1>11, <1>12, <1>13, <1>14, <1>15, <1>16 DEF CorpusInv

\* The window closes.
LEMMA CorpusClose ==
  ASSUME CorpusInv, Corpus!Close
  PROVE  CorpusInv'
<1>1. UNCHANGED <<file, intact, pending, steps>> /\ window' = None
  BY DEF Corpus!Close
<1> QED
  BY <1>1, FileStays DEF CorpusInv, Corpus!UndoLeadsBack

\* What a draft starts from is an annotation.
LEMMA GivenIsAnAnnotation ==
  ASSUME Corpus!CorpusAssumption, NEW status \in Statuses, NEW player \in Int \cup {None}
  PROVE  [Corpus!Blank EXCEPT !.status = status, !.player = player] \in Annotations
<1>1. Corpus!Blank \in Annotations
  BY DEF Corpus!Blank, Annotations, Corpus!CorpusAssumption
<1> QED
  BY <1>1 DEF Annotations

\* Every step keeps the corpus in order.
LEMMA CorpusNext ==
  ASSUME CorpusInv, Corpus!CorpusAssumption, [Corpus!Next]_(Corpus!vars)
  PROVE  CorpusInv'
<1> USE DEF Corpus!CorpusAssumption
<1>1. CASE UNCHANGED Corpus!vars
  BY <1>1, FileStays, WindowStays DEF Corpus!vars, CorpusInv
<1>2. ASSUME NEW f \in Corpus!Ids, NEW status \in Statuses, NEW player \in {None, Width},
             Corpus!Annotate(f, [Corpus!Blank EXCEPT !.status = status, !.player = player])
      PROVE  CorpusInv'
  <2>1. [Corpus!Blank EXCEPT !.status = status, !.player = player] \in Annotations
    <3>1. player \in Int \cup {None}
      OBVIOUS
    <3> QED
      BY <3>1, GivenIsAnAnnotation
  <2> QED
    BY <1>2, <2>1, CorpusAnnotate
<1>3. ASSUME NEW f \in Corpus!Ids, Corpus!Drift(f) PROVE CorpusInv'
  BY <1>3, CorpusDrift
<1>4. ASSUME window # None PROVE Corpus!Annotation \in Annotations
  BY <1>4, AnnotationTypes
<1>5. CASE Corpus!ClearPlayer
  <2>1. [Corpus!Annotation EXCEPT !.player = None] \in Annotations
    BY <1>4, <1>5 DEF Annotations, Corpus!ClearPlayer, Corpus!Stage
  <2> QED
    BY <1>5, <2>1, CorpusStage DEF Corpus!ClearPlayer
<1>6. CASE Corpus!RemoveLastSprite
  <2>1. [Corpus!Annotation EXCEPT !.sprites = Corpus!Front(@)] \in Annotations
    <3>1. Corpus!Annotation \in Annotations /\ Corpus!Annotation.sprites # <<>>
      BY <1>4, <1>6 DEF Corpus!RemoveLastSprite
    <3>2. Corpus!Front(Corpus!Annotation.sprites) \in Seq(Int)
      BY <3>1 DEF Annotations, Corpus!Front
    <3> QED
      BY <3>1, <3>2 DEF Annotations
  <2> QED
    BY <1>6, <2>1, CorpusStage DEF Corpus!RemoveLastSprite
<1>7. ASSUME NEW x \in 0..Width, Corpus!ClickPlayer(x) \/ Corpus!ClickSprite(x) PROVE CorpusInv'
  <2> DEFINE point == Corpus!DisplayToOriginal(x, Width, Corpus!Factor(Width, MaxDisplay))
  <2>1. Corpus!Factor(Width, MaxDisplay) \in Int
    BY FactorFits
  <2>2. point # None => point \in Int
    BY <2>1 DEF Corpus!DisplayToOriginal
  <2>3. point # None /\ window # None /\ Corpus!Annotation \in Annotations
    BY <1>4, <1>7 DEF Corpus!ClickPlayer, Corpus!ClickSprite, Corpus!Stage
  <2> HIDE DEF point
  <2>4. /\ [Corpus!Annotation EXCEPT !.player = point] \in Annotations
        /\ [Corpus!Annotation EXCEPT !.sprites = Append(@, point)] \in Annotations
    <3>1. Corpus!Annotation.sprites \in Seq(Int)
      BY <2>3 DEF Annotations
    <3>2. Append(Corpus!Annotation.sprites, point) \in Seq(Int)
      BY <2>2, <2>3, <3>1
    <3> QED
      BY <2>2, <2>3, <3>2 DEF Annotations
  <2>5. \/ Corpus!Stage([Corpus!Annotation EXCEPT !.player = point])
        \/ Corpus!Stage([Corpus!Annotation EXCEPT !.sprites = Append(@, point)])
    BY <1>7 DEF Corpus!ClickPlayer, Corpus!ClickSprite, point
  <2> QED
    BY <2>4, <2>5, CorpusStage
<1>8. ASSUME NEW status \in Statuses, Corpus!SetStatus(status) PROVE CorpusInv'
  <2>1. [Corpus!Annotation EXCEPT !.status = status] \in Annotations
    BY <1>4, <1>8 DEF Annotations, Corpus!SetStatus, Corpus!Stage
  <2> QED
    BY <1>8, <2>1, CorpusStage DEF Corpus!SetStatus
<1> QED
  BY <1>1, <1>2, <1>3, <1>5, <1>6, <1>7, <1>8, CorpusReview, CorpusFreeze, CorpusWrite, CorpusOpen, CorpusClose,
    CorpusUndo, CorpusSave, CorpusMove DEF Corpus!Next

\* The inductive invariant of the corpus.
LEMMA CorpusIsAlwaysSound ==
  ASSUME Corpus!CorpusAssumption
  PROVE  Corpus!Spec => []CorpusInv
<1>1. Corpus!Init => CorpusInv
  BY CorpusInitLemma
<1>2. CorpusInv /\ [Corpus!Next]_(Corpus!vars) => CorpusInv'
  BY CorpusNext
<1> QED
  BY <1>1, <1>2, PTL DEF Corpus!Spec

\* FrozenWasReviewed, UndoLeadsBack and DrawnWhereClicked: a frozen version names only annotations that passed their
\* review and covers the required splits, undo leads back draft by draft, and what is clicked is drawn where it was
\* clicked; for commands that overlap too.
THEOREM FrozenWasAlwaysReviewed ==
  ASSUME Corpus!CorpusAssumption
  PROVE  Corpus!Spec => [](Corpus!FrozenWasReviewed /\ Corpus!UndoLeadsBack /\ Corpus!DrawnWhereClicked)
<1>1. CorpusInv => Corpus!FrozenWasReviewed /\ Corpus!UndoLeadsBack
  BY DEF CorpusInv, SoundlyFrozen, Corpus!FrozenWasReviewed
<1>2. ASSUME CorpusInv PROVE Corpus!DrawnWhereClicked
  <2> SUFFICES ASSUME NEW width \in {1 + steps, 2 * Width + steps}, NEW limit \in 1..MaxDisplay + 2
               PROVE  LET factor == Corpus!Factor(width, limit) IN
                      /\ Corpus!DisplayWidth(width, factor) <= limit
                      /\ \A x \in 0..width :
                           LET point == Corpus!DisplayToOriginal(x, width, factor) IN
                           IF x < Corpus!DisplayWidth(width, factor)
                           THEN point \in 0..width - 1 /\ Corpus!DrawnAt(point, factor) = x
                           ELSE point = None
    BY DEF Corpus!DrawnWhereClicked
  <2>1. width \in Int /\ width > 0 /\ limit \in Int /\ limit > 0
    BY <1>2 DEF CorpusInv, Corpus!CorpusAssumption
  <2>2. Corpus!Factor(width, limit) \in Int
    BY <2>1, FactorFits
  <2>3. \A x \in Int : x >= Corpus!DisplayWidth(width, Corpus!Factor(width, limit)) =>
          Corpus!DisplayToOriginal(x, width, Corpus!Factor(width, limit)) = None
    BY <2>1, <2>2, ClicksComeBack DEF Corpus!DisplayToOriginal
  <2> QED
    BY <2>1, <2>2, <2>3, ClicksComeBack
<1> QED
  BY <1>1, <1>2, CorpusIsAlwaysSound, PTL

\* FrozenVersionStays and SaveChangesOneFrame, where one command or window runs at a time: what is frozen is not
\* written again, and a save changes the frame on show and no other.
THEOREM FrozenVersionsAlwaysStay ==
  ASSUME Corpus!CorpusAssumption, ~Overlapping
  PROVE  Corpus!Spec => [][Corpus!FrozenVersionStays /\ Corpus!SaveChangesOneFrame]_(Corpus!vars)
<1>1. ASSUME CorpusInv, [Corpus!Next]_(Corpus!vars)
      PROVE  Corpus!FrozenVersionStays /\ Corpus!SaveChangesOneFrame
  <2>1. CASE file' = file
    BY <2>1 DEF Corpus!FrozenVersionStays, Corpus!SaveChangesOneFrame
  <2>2. CASE Corpus!Write
    BY <1>1, <2>2 DEF Corpus!Write, CorpusInv, Follows, Corpus!FrozenVersionStays, Corpus!SaveChangesOneFrame
  <2>3. CASE Corpus!Save
    <3> DEFINE a == window.drafts[Corpus!Shown]
    <3>1. window.workflow = file /\ window # None /\ IsWorkflow(file) /\ file.freeze = None
      BY <1>1, <2>3 DEF CorpusInv, Corpus!Save, Corpus!SaveShown, Corpus!Mutable
    <3>2. file' = Corpus!Recorded(file, Corpus!Shown, a)
      BY <2>3, <3>1 DEF Corpus!Save, Corpus!SaveShown
    <3> HIDE DEF a
    <3>3. file' = [[file EXCEPT !.annotations = [file.annotations EXCEPT ![Corpus!Shown] = a]] EXCEPT !.freeze = None]
      BY <3>1, <3>2 DEF Corpus!Recorded, IsWorkflow
    <3>4. file'.annotations = [file.annotations EXCEPT ![Corpus!Shown] = a] /\ file'.reviews = file.reviews
      BY <3>1, <3>3 DEF IsWorkflow
    <3> QED
      BY <3>1, <3>4 DEF IsWorkflow, Corpus!FrozenVersionStays, Corpus!SaveChangesOneFrame
  <2>4. file' = file \/ Corpus!Write \/ Corpus!Save
    BY <1>1 DEF Corpus!Next, Corpus!vars, Corpus!Annotate, Corpus!Review, Corpus!Freeze, Corpus!Drift, Corpus!Open,
      Corpus!Close, Corpus!Undo, Corpus!ClearPlayer, Corpus!RemoveLastSprite, Corpus!Move, Corpus!ClickPlayer,
      Corpus!ClickSprite, Corpus!SetStatus, Corpus!Stage
  <2> QED
    BY <2>1, <2>2, <2>3, <2>4
<1> QED
  BY <1>1, CorpusIsAlwaysSound, PTL DEF Corpus!Spec

\* OnlyStaleCopiesLose, for commands that overlap too: a save whose copy is still the file changes the frame
\* on show and no other, and no frozen version.
THEOREM OnlyStaleCopiesEverLose ==
  ASSUME Corpus!CorpusAssumption
  PROVE  Corpus!Spec => [][Corpus!OnlyStaleCopiesLose]_(Corpus!vars)
<1>1. ASSUME CorpusInv, [Corpus!Next]_(Corpus!vars)
      PROVE  Corpus!OnlyStaleCopiesLose
  <2> SUFFICES ASSUME window # None, window.workflow = file, pending = None, file' # file
               PROVE  /\ file.freeze = None /\ file'.reviews = file.reviews
                      /\ \A f \in Corpus!Ids \ {Corpus!Shown} : file'.annotations[f] = file.annotations[f]
    BY DEF Corpus!OnlyStaleCopiesLose
  <2> DEFINE a == window.drafts[Corpus!Shown]
  <2> HIDE DEF a
  <2>1. Corpus!Save
    BY <1>1 DEF Corpus!Next, Corpus!vars, Corpus!Annotate, Corpus!Review, Corpus!Freeze, Corpus!Write, Corpus!Drift,
      Corpus!Open, Corpus!Close, Corpus!Undo, Corpus!ClearPlayer, Corpus!RemoveLastSprite, Corpus!Move,
      Corpus!ClickPlayer, Corpus!ClickSprite, Corpus!SetStatus, Corpus!Stage
  <2>2. IsWorkflow(file) /\ file.freeze = None
    BY <1>1, <2>1 DEF CorpusInv, Corpus!Save, Corpus!SaveShown, Corpus!Mutable
  <2>3. file' = Corpus!Recorded(file, Corpus!Shown, a)
    BY <2>1 DEF Corpus!Save, Corpus!SaveShown, a
  <2>4. file' = [[file EXCEPT !.annotations = [file.annotations EXCEPT ![Corpus!Shown] = a]] EXCEPT !.freeze = None]
    BY <2>2, <2>3 DEF Corpus!Recorded, IsWorkflow
  <2>5. file'.annotations = [file.annotations EXCEPT ![Corpus!Shown] = a] /\ file'.reviews = file.reviews
    BY <2>2, <2>4 DEF IsWorkflow
  <2> QED
    BY <2>2, <2>5 DEF IsWorkflow
<1> QED
  BY <1>1, CorpusIsAlwaysSound, PTL DEF Corpus!Spec
=============================================================================
