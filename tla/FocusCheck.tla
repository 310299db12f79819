------------------------------ MODULE FocusCheck ------------------------------
(***************************************************************************)
(* The two focus guards: each asks the desktop for the active window, then *)
(* for that window's title, class, process id and process name, one        *)
(* command after another, while windows, titles and processes change; any  *)
(* command can fail or time out.  A positive answer lets one key through,  *)
(* which the desktop gives to the window that is active by then.           *)
(***************************************************************************)
EXTENDS Integers

CONSTANTS
  Windows,
  Changes,  \* bound: changes of the desktop during one check
  None

FocusAssumption == Changes \in Nat
NoneAssumption == None \notin Windows \cup {"game", "game 2", "shell"}

VARIABLES
  guard,     \* "linux" or "xdotool"
  exact,     \* exact_title_match of the former
  target,    \* the configured window; None where an attribute is not
  active,    \* the window in front, or None
  title, class, comm,  \* of each window, and of the process its id is of
  changes,   \* changes of the desktop since the check began
  held,      \* for each window, what of the target it fitted at some time since then
  pc, window, got,     \* the check: its place, the window it asks about, the answers
  reached    \* the window the key went to

desktop == <<active, title, class, comm>>
vars == <<guard, exact, target, active, title, class, comm, changes, held, pc, window, got, reached>>

\* "game" is the target's title, "game 2" one that contains it.
Titles == {"game", "game 2", "shell"}
Classes == {"game", "shell"}

Targets == [title : {"game", ""}, class_name : {"game", None}, process_name : {"game", None},
            window_id : Windows \cup {None}]

TitleMatches(t) ==
  \/ guard = "linux" /\ target.title = ""
  \/ t = target.title
  \/ guard = "linux" /\ ~exact /\ t = "game 2"

\* What of the target a window fits at the moment.
Fits(w) ==
  {a \in {"title", "class", "comm"} :
     \/ a = "title" /\ TitleMatches(title[w])
     \/ a = "class" /\ target.class_name \in {None, class[w]}
     \/ a = "comm" /\ target.process_name \in {None, comm[w]}}

Nothing == [title |-> None, class |-> None, comm |-> None]

Init ==
  /\ guard \in {"linux", "xdotool"} /\ exact \in IF guard = "linux" THEN BOOLEAN ELSE {TRUE}
  /\ target \in Targets
  /\ active \in Windows \cup {None}
  /\ title \in [Windows -> Titles]
  /\ class \in [Windows -> Classes]
  /\ comm \in [Windows -> Classes]
  /\ held = [w \in Windows |-> Fits(w)]
  /\ changes = 0 /\ pc = "id" /\ window = None /\ got = Nothing /\ reached = None

check == <<guard, exact, target, pc, window, got, reached>>

\* The desktop: another window comes in front, a title changes, a process ends
\* and its id is taken by another.
Change ==
  /\ changes < Changes /\ pc \notin {"id", "no", "sent"}
  /\ changes' = changes + 1
  /\ \/ \E w \in Windows \ {active} : active' = w /\ UNCHANGED <<title, class, comm>>
     \/ \E w \in Windows, t \in Titles : title' = [title EXCEPT ![w] = t]
          /\ UNCHANGED <<active, class, comm>>
     \/ \E w \in Windows, c \in Classes : comm' = [comm EXCEPT ![w] = c]
          /\ UNCHANGED <<active, title, class>>
  /\ UNCHANGED check
  /\ held' = [w \in Windows |-> held[w] \cup Fits(w)']

\* A step of the check, which the desktop waits for.
Goes(from, to) == pc = from /\ pc' = to /\ UNCHANGED <<guard, exact, target, changes, held, desktop>>
Says(answer) == Goes(pc, answer) /\ UNCHANGED <<window, got, reached>>

\* A command answers or fails: what it gives then is nothing.
Reply(value) == {value, None}

\* Mutant: a failed command is no reason to stop.
AskWithoutFailing ==
  /\ pc = "id"
  /\ \E w \in Reply(active) :
       IF guard = "xdotool" /\ target.window_id \notin {None, w}
       THEN Says("no")
       ELSE Goes("id", "title") /\ window' = w /\ UNCHANGED <<got, reached>>

AskActiveWindow ==
  /\ pc = "id"
  /\ \E w \in Reply(active) :
       IF \/ w = None
          \/ guard = "xdotool" /\ target.window_id \notin {None, w}
       THEN Says("no")
       ELSE Goes("id", "title") /\ window' = w /\ UNCHANGED <<got, reached>>

AskTitle ==
  /\ pc = "title"
  /\ \E t \in Reply(title[window]) :
       IF t = None \/ (guard = "xdotool" /\ t # target.title)
       THEN Says("no")
       ELSE Goes("title", "class") /\ got' = [got EXCEPT !.title = t] /\ UNCHANGED <<window, reached>>

\* The xdotool guard asks only for what the target names, and stops at a mismatch.
AskClass ==
  /\ pc = "class"
  /\ IF guard = "xdotool" /\ target.class_name = None
     THEN Says("comm")
     ELSE \E c \in Reply(class[window]) :
            IF guard = "xdotool" /\ c # target.class_name
            THEN Says("no")
            ELSE Goes("class", "comm") /\ got' = [got EXCEPT !.class = c]
                 /\ UNCHANGED <<window, reached>>

\* The window's process id, then the name of the process that has that id.
AskProcess ==
  /\ pc = "comm"
  /\ IF guard = "xdotool" /\ target.process_name = None
     THEN Says("match")
     ELSE \E c \in Reply(comm[window]) :
            IF guard = "xdotool" /\ c # target.process_name
            THEN Says("no")
            ELSE Goes("comm", "match") /\ got' = [got EXCEPT !.comm = c]
                 /\ UNCHANGED <<window, reached>>

Matches ==
  /\ target.window_id \in {None, window}
  /\ TitleMatches(got.title)
  /\ target.class_name # None => got.class = target.class_name
  /\ target.process_name # None => got.comm = target.process_name

Decide == pc = "match" /\ Says(IF Matches THEN "yes" ELSE "no")

\* The executor sends the key once the guard said yes.
Send ==
  /\ Goes("yes", "sent")
  /\ reached' = active
  /\ UNCHANGED <<window, got>>

Next ==
  \/ Change
  \/ AskActiveWindow \/ AskTitle \/ AskClass \/ AskProcess \/ Decide \/ Send

Spec == Init /\ [][Next]_vars

-----------------------------------------------------------------------------
(* Properties.                                                              *)

\* The check is about one window from its first answer on, and a key goes to a
\* window or to none.
TypeOK ==
  /\ pc \in {"id", "title", "class", "comm", "match", "yes", "no", "sent"}
  /\ window \in Windows \cup {None} /\ reached \in Windows \cup {None}
  /\ pc \notin {"id", "no"} => window # None
  /\ pc \in {"class", "comm", "match", "yes", "sent"} => got.title \in Titles

\* On a desktop that did not change during the check, the guard says yes only when
\* the active window is the target, whatever commands failed: it fails closed, and
\* the key goes to that window.
StillDesktopIsToldRight ==
  changes = 0 /\ pc \in {"yes", "sent"} =>
    /\ active = window /\ target.window_id \in {None, active}
    /\ Fits(active) = {"title", "class", "comm"}
    /\ pc = "sent" => reached = window

\* However the desktop changes, everything the target asks for was true at some
\* time during the check of the one window that was active at its beginning: the
\* guard never puts a target together from two windows.
NoTargetOfTwoWindows ==
  pc \in {"yes", "sent"} => held[window] = {"title", "class", "comm"}
=============================================================================
