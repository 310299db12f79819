------------------------------ MODULE SpatialCorpus ------------------------------
(***************************************************************************)
(* One spatial perception corpus: a workflow file that commands annotate,  *)
(* review and freeze, each reading the file, checking the frames on disk   *)
(* where it must, and writing the file whole; and an annotation window     *)
(* that opened the file earlier and keeps drafts of its own.  Frames are   *)
(* one pixel row; a fingerprint is what it is taken of.                    *)
(***************************************************************************)
EXTENDS Integers, FiniteSets, TLC, SequencesExt

CONSTANTS
  Frames,       \* the frames of the corpus, in the order of the window: a sequence
  Split,        \* frame -> train, validation or test
  Required,     \* the splits that need a reviewed usable frame
  Statuses,     \* annotation statuses in use, "usable" and "uncertain" among them
  Width,        \* pixels of a frame
  MaxDisplay,   \* pixels the window has for it
  Overlapping,  \* whether commands run while a window is open or a command is under way
  MaxSteps,
  None

CorpusAssumption ==
  /\ Frames \in Seq(ToSet(Frames)) /\ Frames # <<>> /\ Required \subseteq {Split[f] : f \in ToSet(Frames)}
  /\ {"usable", "uncertain"} \subseteq Statuses
  /\ Width \in Nat \ {0} /\ MaxDisplay \in Nat \ {0} /\ MaxSteps \in Nat

VARIABLES
  file,     \* the workflow: annotations, reviews and the freeze record
  intact,   \* the frames whose files are still what the manifest says
  pending,  \* what the command under way is going to write, or None
  window,   \* the annotation window, or None
  steps
vars == <<file, intact, pending, window, steps>>

Ids == ToSet(Frames)

(* --- the domain -------------------------------------------------------------- *)

Blank == [status |-> "uncertain", player |-> None, sprites |-> <<>>]

\* An annotation's fingerprint takes no notice of the order of its sprite points.
Fingerprint(a) == [a EXCEPT !.sprites = SortSeq(@, LAMBDA p, q : p < q)]
ManifestFingerprint(w) == [f \in Ids |-> Fingerprint(w.annotations[f])]

Mutable(w) == w.freeze = None

\* A revision replaces one annotation; the old reviews stay beside it.
Recorded(w, f, a) == [w EXCEPT !.annotations[f] = a, !.freeze = None]

ReviewIsCurrent(r, w) == r.of = Fingerprint(w.annotations[r.frame])

Reviewed(w, f, status) ==
  [w EXCEPT !.reviews = @ \cup {[frame |-> f, of |-> Fingerprint(w.annotations[f]), status |-> status]}]

\* What checking the frame files against the manifest found.
Integrity(w, frames) == [of |-> ManifestFingerprint(w), valid |-> Ids \subseteq frames]

FreezeReady(w, integrity) ==
  LET current == {r \in w.reviews : ReviewIsCurrent(r, w)}
      passed  == {r.frame : r \in {s \in current : s.status = "passed"}}
      usable  == {f \in Ids : w.annotations[f].status = "usable"} IN
  /\ integrity.valid /\ integrity.of = ManifestFingerprint(w)
  /\ usable \subseteq passed
  /\ current = w.reviews
  /\ Required \subseteq {Split[f] : f \in usable \cap passed}
  /\ w.freeze = None

Frozen(w) == [w EXCEPT !.freeze = ManifestFingerprint(w)]

(* --- points on the screen ----------------------------------------------------- *)

Ceiling(a, b) == (a + b - 1) \div b
Factor(width, limit) == IF Ceiling(width, limit) > 1 THEN Ceiling(width, limit) ELSE 1
DisplayWidth(width, factor) == Ceiling(width, factor)

\* The pixel a click stands for: the one the subsampled image kept.
DisplayToOriginal(x, width, factor) ==
  IF x \in 0..DisplayWidth(width, factor) - 1
  THEN IF x * factor < width - 1 THEN x * factor ELSE width - 1
  ELSE None

DrawnAt(point, factor) == point \div factor

(* --- commands ------------------------------------------------------------------ *)

Step == steps < MaxSteps /\ steps' = steps + 1
Free == pending = None /\ (Overlapping \/ window = None)

Init ==
  /\ file = [annotations |-> [f \in Ids |-> Blank], reviews |-> {}, freeze |-> None]
  /\ intact = Ids /\ pending = None /\ window = None /\ steps = 0

\* spatial-corpus-annotate takes any points, inside the frame or not.
Annotate(f, a) ==
  /\ Step /\ Free /\ Mutable(file)
  /\ pending' = Recorded(file, f, a)
  /\ UNCHANGED <<file, intact, window>>

\* spatial-corpus-review, of a frozen version too.
Review(f, status) ==
  /\ Step /\ Free
  /\ pending' = Reviewed(file, f, status)
  /\ UNCHANGED <<file, intact, window>>

Freeze ==
  /\ Step /\ Free /\ FreezeReady(file, Integrity(file, intact))
  /\ pending' = Frozen(file)
  /\ UNCHANGED <<file, intact, window>>

Write ==
  /\ pending # None
  /\ file' = pending /\ pending' = None
  /\ UNCHANGED <<intact, window, steps>>

\* A frame file is lost or overwritten.
Drift(f) ==
  /\ Step /\ f \in intact
  /\ intact' = intact \ {f}
  /\ UNCHANGED <<file, pending, window>>

(* --- the window ------------------------------------------------------------------ *)

Open ==
  /\ Step /\ window = None /\ (Overlapping \/ pending = None)
  /\ window' = [workflow |-> file, index |-> 1,
                drafts |-> [f \in Ids |-> None], history |-> [f \in Ids |-> <<>>]]
  /\ UNCHANGED <<file, intact, pending>>

Shown == Frames[window.index]
Annotation ==
  IF window.drafts[Shown] # None THEN window.drafts[Shown] ELSE window.workflow.annotations[Shown]

Move(by) ==
  /\ window # None /\ window.index + by \in 1..Len(Frames)
  /\ window' = [window EXCEPT !.index = @ + by]
  /\ UNCHANGED <<file, intact, pending, steps>>

Stage(a) ==
  /\ Step /\ window # None /\ Mutable(window.workflow)
  /\ window' = [window EXCEPT !.drafts[Shown] = a, !.history[Shown] = Append(@, Annotation)]
  /\ UNCHANGED <<file, intact, pending>>

ClickPlayer(x) ==
  LET point == DisplayToOriginal(x, Width, Factor(Width, MaxDisplay))
  IN  point # None /\ Stage([Annotation EXCEPT !.player = point])
ClearPlayer == Stage([Annotation EXCEPT !.player = None])
ClickSprite(x) ==
  LET point == DisplayToOriginal(x, Width, Factor(Width, MaxDisplay))
  IN  point # None /\ Stage([Annotation EXCEPT !.sprites = Append(@, point)])
RemoveLastSprite ==
  window # None /\ Annotation.sprites # <<>> /\ Stage([Annotation EXCEPT !.sprites = Front(@)])
SetStatus(status) == Stage([Annotation EXCEPT !.status = status])

Undo ==
  /\ Step /\ window # None /\ Mutable(window.workflow) /\ window.history[Shown] # <<>>
  /\ window' = [window EXCEPT !.drafts[Shown] = Last(window.history[Shown]), !.history[Shown] = Front(@)]
  /\ UNCHANGED <<file, intact, pending>>

\* Mutant: every draft is saved.
SaveAll ==
  LET w == window.workflow
      all == [f \in Ids |-> IF window.drafts[f] # None THEN window.drafts[f] ELSE w.annotations[f]]
      revised == [w EXCEPT !.annotations = all, !.freeze = None] IN
  /\ Mutable(w) /\ window.drafts[Shown] # None
  /\ file' = revised
  /\ window' = [window EXCEPT !.workflow = revised, !.drafts[Shown] = None, !.history[Shown] = <<>>]
  /\ UNCHANGED <<intact, pending, steps>>

\* The draft on show becomes a revision of the workflow the window holds, and that is written.
SaveShown ==
  LET revised == Recorded(window.workflow, Shown, window.drafts[Shown]) IN
  /\ Mutable(window.workflow) /\ window.drafts[Shown] # None
  /\ file' = revised
  /\ window' = [window EXCEPT !.workflow = revised, !.drafts[Shown] = None, !.history[Shown] = <<>>]
  /\ UNCHANGED <<intact, pending, steps>>
Save == window # None /\ SaveShown

Close == window # None /\ window' = None /\ UNCHANGED <<file, intact, pending, steps>>

Next ==
  \/ \E f \in Ids, status \in Statuses, player \in {None, Width} :
       Annotate(f, [Blank EXCEPT !.status = status, !.player = player])
  \/ \E f \in Ids, status \in {"passed", "needs_revision"} : Review(f, status)
  \/ Freeze \/ Write
  \/ \E f \in Ids : Drift(f)
  \/ Open \/ Close \/ Undo \/ Save \/ ClearPlayer \/ RemoveLastSprite
  \/ \E by \in {1, -1} : Move(by)
  \/ \E x \in 0..Width : ClickPlayer(x) \/ ClickSprite(x)
  \/ \E status \in Statuses : SetStatus(status)

Spec == Init /\ [][Next]_vars

(* --- properties ------------------------------------------------------------------ *)

\* A frozen version is what was reviewed: its record names the annotations in the file, every usable
\* one of them was passed as it stands, and every required split has one, whatever commands and
\* windows did to the file before and since (freeze_spatial_corpus).
FrozenWasReviewed ==
  file.freeze # None =>
    LET passed == {f \in Ids : [frame |-> f, of |-> Fingerprint(file.annotations[f]),
                                status |-> "passed"] \in file.reviews}
        usable == {f \in Ids : file.annotations[f].status = "usable"}
    IN  /\ file.freeze = ManifestFingerprint(file)
        /\ usable \subseteq passed
        /\ \A s \in Required : \E f \in usable : Split[f] = s

\* A frozen version is not rewritten: its annotations and its record stay; only reviews are added
\* (SPATIAL_ANNOTATION_WORKFLOW.md: "they must not rewrite the frozen version").
FrozenVersionStays ==
  file.freeze # None =>
    /\ file'.freeze = file.freeze /\ file'.annotations = file.annotations
    /\ file.reviews \subseteq file'.reviews

\* Saving a frame saves that frame: no other annotation and no review in the file is touched by what
\* the window holds (_save: "Reviews remain unchanged").
SaveChangesOneFrame ==
  \A f \in Ids :
    (window # None /\ file' # file /\ f # Shown)
      => file'.annotations[f] = file.annotations[f] /\ file'.reviews = file.reviews

\* What a save takes away it takes away with a stale copy: while no command is under way, a window whose
\* copy is still the file changes the frame on show and nothing else, and no frozen version, whatever
\* commands ran before it was opened and since (save_current).
OnlyStaleCopiesLose ==
  (window # None /\ window.workflow = file /\ pending = None /\ file' # file) =>
    /\ file.freeze = None /\ file'.reviews = file.reviews
    /\ \A f \in Ids \ {Shown} : file'.annotations[f] = file.annotations[f]

\* Undoing everything leads back to what is saved: the oldest state undo knows of a frame is the
\* annotation the window last read or wrote, and a draft that cannot be undone is that annotation.
UndoLeadsBack ==
  window # None =>
    \A f \in Ids :
      LET history == window.history[f]  saved == window.workflow.annotations[f]
      IN  IF history # <<>> THEN history[1] = saved ELSE window.drafts[f] \in {None, saved}

\* A point is drawn where it was clicked and lies in the frame, however large the frame and small
\* the window; clicks beyond the image are none.
DrawnWhereClicked ==
  \A width \in {1 + steps, 2 * Width + steps}, limit \in 1..MaxDisplay + 2 :
    LET factor == Factor(width, limit) IN
    /\ DisplayWidth(width, factor) <= limit
    /\ \A x \in 0..width :
         LET point == DisplayToOriginal(x, width, factor) IN
         IF x < DisplayWidth(width, factor)
         THEN point \in 0..width - 1 /\ DrawnAt(point, factor) = x
         ELSE point = None
=============================================================================
