---------------------------- MODULE WorkspaceWrite -----------------------------
(***************************************************************************)
(* The public Atlas workspace: one generated note for each registry record *)
(* at a path made of its identity and its name, Home and the Base, beside  *)
(* notes that people wrote.  The writer prunes generated notes that have   *)
(* no place any more, writes every generated file in place and checks the  *)
(* result.  The registry changes between its runs, people edit, copy and   *)
(* delete files, and a run can end at any step with a file half written.   *)
(***************************************************************************)
EXTENDS Integers

CONSTANTS
  Ids, Names,   \* of registry records
  Related,      \* authored relations: pairs of identities
  Leftovers,    \* what an interrupted write may leave: "empty", "cut" in the body, "torn" in the Properties
  MaxChanges,   \* bound: registry changes
  MaxEdits,     \* bound: edits by hand
  MaxDeaths,    \* bound: runs that end early
  None

WorkspaceAssumption ==
  /\ Related \subseteq Ids \X Ids /\ Names # {}
  /\ Leftovers \subseteq {"empty", "cut", "torn"}
  /\ {MaxChanges, MaxEdits, MaxDeaths} \subseteq Nat

VARIABLES
  registry,  \* the name of each record, None when it does not exist
  files,     \* the content of each file of the workspace
  writer,    \* "idle", "prune", "write" or "check"
  loaded,    \* the registry the run works from
  todo,      \* the files it has still to look at, or to write
  outcome,   \* how the last run ended: "done", "refused", "drift", None while it runs or after a change
  touched,   \* whether somebody else changed files during the run
  spent      \* changes, edits and deaths so far

vars == <<registry, files, writer, loaded, todo, outcome, touched, spent>>

NotePath(id, name) == <<id, name>>
Home == <<"Home", None>>
Base == <<"Base", None>>
Own == <<"own", None>>    \* a note that somebody wrote
Copy == <<"copy", None>>  \* another path of the vault where a copy may be put

Paths == (Ids \X Names) \cup {Home, Base, Own, Copy}
Contents ==
  [kind : {"note", "home", "base", "authored", "empty", "torn"}, id : Ids \cup {None}, name : Names \cup {None},
   whole : BOOLEAN, out : SUBSET Paths, in : SUBSET Paths]

NoneAssumption == None \notin Names \cup Contents \cup {"done", "refused", "drift"}

Records(a) == {id \in Ids : a[id] # None}
Link(a, id) == NotePath(id, a[id])

(***************************************************************************)
(* Generated content.  A note has its Properties, with its relations as    *)
(* links in both directions, and its body; Home links every record.        *)
(***************************************************************************)
Note(a, id) ==
  [kind |-> "note", id |-> id, name |-> a[id], whole |-> TRUE,
   out |-> {Link(a, e[2]) : e \in {r \in Related : r[1] = id /\ r[2] \in Records(a)}},
   in |-> {Link(a, e[1]) : e \in {r \in Related : r[2] = id /\ r[1] \in Records(a)}}]

Page(kind, links) == [kind |-> kind, id |-> None, name |-> None, whole |-> TRUE, out |-> links, in |-> {}]

workspace_tree(a) ==
  LET notes == {Link(a, id) : id \in Records(a)}
  IN [p \in notes \cup {Home, Base} |->
        CASE p = Home -> Page("home", notes) [] p = Base -> Page("base", {}) [] OTHER -> Note(a, p[1])]

Authored == Page("authored", {})
Empty == Page("empty", {})
Torn == Page("torn", {})

Marked(c) == c.kind = "note"
Existing == {p \in Paths : files[p] # None}

validate_workspace(a) ==
  LET marked == {p \in Existing : Marked(files[p])}
      placed(p) == LET id == files[p].id
                   IN id \in Records(a) /\ p = Link(a, id) /\ files[p] = [Note(a, id) EXCEPT !.whole = files[p].whole]
  IN IF \E p \in Existing : files[p].kind = "torn" THEN "refused"
     ELSE IF /\ \A p \in marked : placed(p)
             /\ {files[p].id : p \in marked} = Records(a)
             /\ \A p \in DOMAIN workspace_tree(a) : files[p] = workspace_tree(a)[p]
          THEN "done" ELSE "drift"

(***************************************************************************)
(* write_workspace.                                                        *)
(***************************************************************************)
Init ==
  /\ registry = [id \in Ids |-> CHOOSE name \in Names : TRUE]
  /\ files = [p \in Paths |-> IF p \in DOMAIN workspace_tree(registry) THEN workspace_tree(registry)[p]
                              ELSE IF p = Own THEN Authored ELSE None]
  /\ writer = "idle" /\ loaded = registry /\ todo = {} /\ outcome = None /\ touched = FALSE
  /\ spent = [changes |-> 0, edits |-> 0, deaths |-> 0]

Start ==
  /\ writer = "idle"
  /\ loaded' = registry
  /\ todo' = Existing
  /\ writer' = "prune" /\ outcome' = None /\ touched' = FALSE
  /\ UNCHANGED <<registry, files, spent>>

Obsolete(p) == Marked(files[p]) /\ p \notin DOMAIN workspace_tree(loaded)

Look(p) ==
  /\ writer = "prune" /\ p \in todo
  /\ todo' = todo \ {p}
  /\ IF files[p] # None /\ files[p].kind = "torn"
     THEN writer' = "idle" /\ outcome' = "refused" /\ UNCHANGED files
     ELSE /\ files' = IF files[p] # None /\ Obsolete(p) THEN [files EXCEPT ![p] = None] ELSE files
          /\ UNCHANGED <<writer, outcome>>
  /\ UNCHANGED <<registry, loaded, touched, spent>>

StartWriting ==
  /\ writer = "prune" /\ todo = {}
  /\ writer' = "write" /\ todo' = DOMAIN workspace_tree(loaded)
  /\ UNCHANGED <<registry, files, loaded, outcome, touched, spent>>

WriteFile(p) ==
  /\ writer = "write" /\ p \in todo
  /\ files' = [files EXCEPT ![p] = workspace_tree(loaded)[p]]
  /\ todo' = todo \ {p}
  /\ UNCHANGED <<registry, writer, loaded, outcome, touched, spent>>

StartCheck ==
  /\ writer = "write" /\ todo = {}
  /\ writer' = "check"
  /\ UNCHANGED <<registry, files, loaded, todo, outcome, touched, spent>>

EndCheck ==
  /\ writer = "check"
  /\ outcome' = validate_workspace(loaded)
  /\ writer' = "idle"
  /\ UNCHANGED <<registry, files, loaded, todo, touched, spent>>

\* The run ends early; if it was writing, the file may be empty or cut.
Die ==
  /\ writer # "idle" /\ spent.deaths < MaxDeaths
  /\ spent' = [spent EXCEPT !.deaths = @ + 1]
  /\ writer' = "idle" /\ outcome' = None /\ todo' = {}
  /\ \/ UNCHANGED files
     \/ \E p \in todo, left \in Leftovers :
          LET c == workspace_tree(loaded)[p] IN
          /\ writer = "write"
          /\ left = "torn" => Marked(c)
          /\ files' = [files EXCEPT ![p] = CASE left = "empty" -> Empty
                                             [] left = "torn" -> Torn
                                             [] OTHER -> [c EXCEPT !.whole = FALSE]]
  /\ UNCHANGED <<registry, loaded, touched>>

(***************************************************************************)
(* What happens around the runs.                                           *)
(***************************************************************************)
ChangeRegistry ==
  /\ spent.changes < MaxChanges
  /\ spent' = [spent EXCEPT !.changes = @ + 1]
  /\ \E id \in Ids, name \in Names \cup {None} :
       name # registry[id] /\ registry' = [registry EXCEPT ![id] = name]
  /\ outcome' = None
  /\ UNCHANGED <<files, writer, loaded, todo, touched>>

Edited(p, c) ==
  /\ spent.edits < MaxEdits
  /\ spent' = [spent EXCEPT !.edits = @ + 1]
  /\ files' = [files EXCEPT ![p] = c] /\ files' # files
  /\ touched' = TRUE
  /\ outcome' = None
  /\ UNCHANGED <<registry, writer, loaded, todo>>

Edit ==
  \/ \E p \in Existing : Edited(p, [files[p] EXCEPT !.whole = FALSE])
  \/ \E p \in Existing : Edited(p, None)
  \/ \E p \in Existing \ {Home, Base} : Edited(Copy, files[p])
  \/ \E p \in {Own, Copy} : Edited(p, Authored)

Next ==
  \/ Start \/ StartWriting \/ StartCheck \/ EndCheck \/ Die \/ ChangeRegistry \/ Edit
  \/ \E p \in todo : Look(p) \/ WriteFile(p)

Spec == Init /\ [][Next]_vars

--------------------------------------------------------------------------------
\* The type invariant.
TypeOK ==
  /\ registry \in [Ids -> Names \cup {None}] /\ loaded \in [Ids -> Names \cup {None}]
  /\ files \in [Paths -> Contents \cup {None}]
  /\ writer \in {"idle", "prune", "write", "check"}
  /\ todo \subseteq Paths
  /\ outcome \in {None, "done", "refused", "drift"}

\* A run that nobody disturbed ends with the workspace its check asks for, whatever renames, removals,
\* copies, edits and interrupted runs it found: pruning and writing leave nothing for the check.
UndisturbedRunsConverge == outcome = "drift" => touched

\* When a run is done, no note is generated that the registry does not have, none is missing or kept
\* under an earlier name, and every generated link, in either direction, is the path of a file.
DoneLeavesNoTrace ==
  outcome = "done" =>
    LET generated == {p \in Existing : files[p].kind \in {"note", "home", "base"}} IN
    /\ generated = DOMAIN workspace_tree(loaded)
    /\ \A p \in generated : files[p].out \cup files[p].in \subseteq Existing
    /\ \A p \in generated, q \in generated : p \in files[q].out /\ q # Home => q \in files[p].in

\* What somebody wrote is never changed by a run, even when it lies where notes of a record once did.
AuthoredStays ==
  spent'.edits = spent.edits =>
    \A p \in Paths \ DOMAIN workspace_tree(loaded) :
      files[p] # None /\ ~Marked(files[p]) => files'[p] = files[p]

\* All generated files can be overwritten: a run is never refused because of one.
GeneratedIsOverwriteable == outcome # "refused"
================================================================================
