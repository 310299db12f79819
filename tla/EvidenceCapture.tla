---------------------------- MODULE EvidenceCapture ----------------------------
(***************************************************************************)
(* Capture sessions that save screenshots as evidence and log an event for *)
(* each, on one run directory, and the bridge's lookup of the latest       *)
(* screenshot, which reads the log while it grows.  A session can die at   *)
(* any step: with a file half written, a file without its event, or an     *)
(* event half written.                                                     *)
(***************************************************************************)
EXTENDS Integers, Sequences, SequencesExt, FiniteSetsExt

CONSTANTS
  Sessions,  \* capture sessions started on the same run id
  Frames,    \* frames each is asked for
  None, Error

CaptureAssumption == Frames \in Nat \ {0} /\ IsFiniteSet(Sessions)

VARIABLES
  pc,      \* what a session does next
  allow,   \* whether it was started with allow_existing_run
  saved,   \* frames it has logged
  mine,    \* the evidence record in its hands
  files,   \* screenshots of the run: "part" or "whole"; the directory exists once one does
  log,     \* events.jsonl: one record per line, or Error for a line that is not one
  torn,    \* whether the last line has no end
  answer   \* what the lookup said last

vars == <<pc, allow, saved, mine, files, log, torn, answer>>

Ids == 1..(Frames * Cardinality(Sessions))

NoneAssumption == None \notin Ids /\ Error \notin Ids /\ None # Error

Init ==
  /\ pc = [s \in Sessions |-> "start"]
  /\ allow \in [Sessions -> BOOLEAN]
  /\ saved = [s \in Sessions |-> 0]
  /\ mine = [s \in Sessions |-> None]
  /\ files = [i \in {} |-> "whole"]
  /\ log = <<>> /\ torn = FALSE /\ answer = None

RunExists == DOMAIN files # {} \/ log # <<>>

EnsureRunIsWritable(s) ==
  /\ pc[s] = "start"
  /\ pc' = [pc EXCEPT ![s] = IF RunExists /\ ~allow[s] THEN "refused" ELSE "capture"]
  /\ UNCHANGED <<allow, saved, mine, files, log, torn, answer>>

Fresh == CHOOSE i \in Ids : i \notin DOMAIN files

Written(id, how) == [i \in DOMAIN files \cup {id} |-> IF i = id THEN how ELSE files[i]]

\* A frame is captured and written under a new id, and the file is hashed.
SaveScreenshot(s) ==
  /\ pc[s] = "capture"
  /\ mine' = [mine EXCEPT ![s] = Fresh]
  /\ files' = Written(Fresh, "whole")
  /\ pc' = [pc EXCEPT ![s] = "log"]
  /\ UNCHANGED <<allow, saved, log, torn, answer>>

\* A line added to the log: after a line without an end it only makes that longer.
Extended(line) == IF torn THEN Append(Front(log), Error) ELSE Append(log, line)

Record(s) == [id |-> mine[s], by |-> s, frame_index |-> saved[s]]

LogEvidence(s) ==
  /\ pc[s] = "log"
  /\ log' = Extended(Record(s)) /\ torn' = FALSE
  /\ saved' = [saved EXCEPT ![s] = @ + 1]
  /\ pc' = [pc EXCEPT ![s] = IF saved[s] + 1 < Frames THEN "capture" ELSE "end"]
  /\ UNCHANGED <<allow, mine, files, answer>>

\* The capture command, the disk or the process fails between two steps or in one.
Die(s) ==
  /\ pc[s] \in {"capture", "log"}
  /\ pc' = [pc EXCEPT ![s] = "dead"]
  /\ \/ UNCHANGED <<files, log, torn>>
     \/ pc[s] = "capture" /\ files' = Written(Fresh, "part") /\ UNCHANGED <<log, torn>>
     \/ pc[s] = "log" /\ log' = Extended(Error) /\ torn' = TRUE /\ UNCHANGED files
  /\ UNCHANGED <<allow, saved, mine, answer>>

Stored == {k \in DOMAIN log : log[k] # Error}

\* The lookup reads the whole log, and one line that is no record makes it raise.
LatestScreenshotEvidenceId ==
  /\ answer' = IF \E k \in DOMAIN log : log[k] = Error THEN Error
               ELSE IF log = <<>> THEN None ELSE Last(log).id
  /\ UNCHANGED <<pc, allow, saved, mine, files, log, torn>>

Next ==
  \/ \E s \in Sessions :
       EnsureRunIsWritable(s) \/ SaveScreenshot(s) \/ LogEvidence(s) \/ Die(s)
  \/ LatestScreenshotEvidenceId

Spec == Init /\ [][Next]_vars

-----------------------------------------------------------------------------
(* Properties.                                                              *)

\* Each variable has the shape of the object it stands for; frame indexes stay
\* below the frames asked for.
TypeOK ==
  /\ pc \in [Sessions -> {"start", "capture", "log", "end", "refused", "dead"}]
  /\ saved \in [Sessions -> 0..Frames]
  /\ mine \in [Sessions -> Ids \cup {None}]
  /\ \A k \in Stored : log[k].id \in Ids /\ log[k].frame_index \in 0..(Frames - 1)
  /\ answer \in Ids \cup {None, Error}

\* A logged event names a screenshot that is wholly on disk, and no two events the
\* same one, wherever the sessions died: evidence is never cited before it exists.
EventsHaveTheirFrame ==
  /\ \A k \in Stored : log[k].id \in DOMAIN files /\ files[log[k].id] = "whole"
  /\ \A j, k \in Stored : log[j].id = log[k].id => j = k

\* A session loses at most the frame in its hands: what it saved before is logged,
\* unless the log was torn.
AtMostOneUnlogged ==
  LET logged == {log[k].id : k \in Stored}
      live == {s \in Sessions : pc[s] \in {"log", "dead"}}
  IN  (\A k \in DOMAIN log : log[k] # Error)
        => Cardinality(DOMAIN files \ logged) <= Cardinality(live)

\* The events of one session tell its frames in order, also when two sessions write
\* to one log, and with none left out unless a line was torn: the record after a torn
\* line is lost with it.
IndexesRun ==
  \A s \in Sessions :
    LET own == SelectSeq(log, LAMBDA line : line # Error /\ line.by = s)
    IN  /\ \A j, k \in DOMAIN own : j < k => own[j].frame_index < own[k].frame_index
        /\ Stored = DOMAIN log => \A k \in DOMAIN own : own[k].frame_index = k - 1

\* What the lookup answers is the evidence of a screenshot at least as late in the
\* log as its last answer, and a log with a torn line is never answered from.
Place(id) == CHOOSE k \in DOMAIN log' : log'[k] # Error /\ log'[k].id = id
LatestMovesForward ==
  answer' # answer =>
    /\ answer' = Error <=> \E k \in DOMAIN log : log[k] = Error
    /\ answer' \in Ids /\ answer \in Ids => Place(answer') > Place(answer)
    /\ answer' # None
=============================================================================
