--------------------------- MODULE SnapshotExchange ---------------------------
(***************************************************************************)
(* One bridge snapshot per observation: the host (an instance of           *)
(* BridgeSnapshotObservationSource) captures and logs a screenshot,        *)
(* publishes a request file bound to it, waits for the response file,      *)
(* relays the payload into a JSONL feed and consumes the feed at its own   *)
(* offset; the game's plugin watches the exchange directory and answers.   *)
(* The two share nothing but files, and both may die.                      *)
(*                                                                         *)
(* Cycles are numbered: request ids are fresh tokens, so the number is the *)
(* id.  Screenshot evidence is numbered in the order of the event log, so  *)
(* the latest durable screenshot is the number of screenshots logged.      *)
(***************************************************************************)
EXTENDS Integers, Sequences, FiniteSets

CONSTANTS
  MaxRequests,   \* options.maxRequests of the watcher
  None,
  MaxCycles,     \* bound: cycles of the host
  MaxEvidence,   \* bound: screenshots logged
  MaxDeaths      \* bound: deaths of the host and of the game

Cycles == 1..MaxCycles
HostPoints == {"idle", "captured", "bound", "waiting", "answered", "relayed", "consumed"}

\* "good" answers echo the request; the others are what someone else's file may
\* hold: no final newline, another request's envelope, a payload the sanitizer refuses.
Answer == [kind : {"good", "torn", "foreign", "refused"}, shot : Nat]

\* A line of the feed; shot 0 stands for bytes that are no JSON object.
Line == [shot : Nat, clean : BOOLEAN, ended : BOOLEAN]

ASSUME NoneAssumption == None \notin Answer /\ None \notin Line
ASSUME BoundAssumption == /\ MaxRequests \in Nat \ {0}
                          /\ MaxCycles \in Nat /\ MaxEvidence \in Nat /\ MaxDeaths \in Nat

VARIABLES
  at,         \* where observe() is
  cycle,      \* number of the current or last cycle
  shot,       \* screenshot of the current cycle
  started,    \* _has_started_cycle
  offset,     \* lines the payload source has consumed
  taken,      \* the payload it handed over last
  evidence,   \* screenshots in the event log
  request,    \* request files: the screenshot each is bound to, 0 without one
  response,   \* response files
  scratch,    \* cycles with a left-over <response>.tmp
  feed,       \* the JSONL feed
  attempted, attempts,  \* the watcher's memory of names and its count
  returned,   \* ghost: observations handed to the caller
  relays,     \* ghost: cycles whose relay returned
  deaths      \* bound counter

hostVars == <<at, cycle, shot, started, offset, taken, evidence>>
gameVars == <<scratch, attempted, attempts>>
vars == <<at, cycle, shot, started, offset, taken, evidence, request, response,
          scratch, feed, attempted, attempts, returned, relays, deaths>>

Init ==
  /\ at = "idle" /\ cycle = 0 /\ shot = 0 /\ started = FALSE /\ offset = 0 /\ taken = None
  /\ evidence = 0
  /\ request = [c \in Cycles |-> 0]
  /\ response = [c \in Cycles |-> None]
  /\ scratch = {}
  /\ feed = <<>>
  /\ attempted = {} /\ attempts = 0
  /\ returned = <<>> /\ relays = {} /\ deaths = 0

-----------------------------------------------------------------------------
(* The host.                                                                *)

\* Preflight, then the capture: the screenshot is saved and logged as evidence,
\* or the capture fails and its request id is spent.  A host that has not
\* observed yet refuses a feed that holds anything.
Capture ==
  /\ at = "idle"
  /\ cycle < MaxCycles
  /\ evidence < MaxEvidence
  /\ request[cycle + 1] = 0 /\ response[cycle + 1] = None
  /\ started \/ feed = <<>>
  /\ started' = TRUE
  /\ cycle' = cycle + 1
  /\ \/ evidence' = evidence + 1 /\ shot' = evidence + 1 /\ at' = "captured"
     \/ UNCHANGED <<evidence, shot, at>>
  /\ UNCHANGED <<offset, taken, request, response, feed, gameVars, returned, relays, deaths>>

\* The request is bound to the screenshot only if that is still the latest one.
Bind ==
  /\ at = "captured"
  /\ at' = IF shot = evidence THEN "bound" ELSE "idle"
  /\ UNCHANGED <<cycle, shot, started, offset, taken, evidence, request, response, feed,
                 gameVars, returned, relays, deaths>>

\* A hard link publishes the complete request at once and replaces nothing.
Publish ==
  /\ at = "bound"
  /\ IF request[cycle] = 0
     THEN request' = [request EXCEPT ![cycle] = shot] /\ at' = "waiting"
     ELSE UNCHANGED request /\ at' = "idle"
  /\ UNCHANGED <<cycle, shot, started, offset, taken, evidence, response, feed,
                 gameVars, returned, relays, deaths>>

\* Mutant: the wait has no deadline.
AwaitForever ==
  /\ at = "waiting"
  /\ response[cycle] # None
  /\ at' = "answered"
  /\ UNCHANGED <<cycle, shot, started, offset, taken, evidence, request, response, feed,
                 gameVars, returned, relays, deaths>>

\* The poll sees the response, or the deadline passes first.
Await ==
  /\ at = "waiting"
  /\ \/ response[cycle] # None /\ at' = "answered"
     \/ at' = "idle"
  /\ UNCHANGED <<cycle, shot, started, offset, taken, evidence, request, response, feed,
                 gameVars, returned, relays, deaths>>

HasTail == feed # <<>> /\ ~feed[Len(feed)].ended

\* Appended bytes continue a line that has no newline yet and spoil it.
Write(line) ==
  IF HasTail
  THEN [feed EXCEPT ![Len(feed)] = [shot |-> 0, clean |-> FALSE, ended |-> line.ended]]
  ELSE Append(feed, line)

Record(answer) == [shot |-> answer.shot, clean |-> answer.kind = "good", ended |-> TRUE]
Fragment == [shot |-> 0, clean |-> FALSE, ended |-> FALSE]

Correlates(answer) == answer.kind \in {"good", "refused"} /\ answer.shot = request[cycle]

\* relay_bridge_snapshot_response: refuse the response, append its payload, or
\* fail while appending, with part of the record or, if only fsync failed, all
\* of it in the feed.
Relay ==
  /\ at = "answered"
  /\ \/ /\ ~Correlates(response[cycle])
        /\ at' = "idle"
        /\ UNCHANGED <<feed, relays>>
     \/ /\ Correlates(response[cycle])
        /\ feed' = Write(Record(response[cycle]))
        /\ relays' = relays \cup {cycle}
        /\ at' = "relayed"
     \/ /\ Correlates(response[cycle])
        /\ feed' \in {Write(Fragment), Write(Record(response[cycle])), feed}
        /\ at' = "idle"
        /\ UNCHANGED relays
  /\ UNCHANGED <<cycle, shot, started, offset, taken, evidence, request, response,
                 gameVars, returned, deaths>>

Readable == offset < Len(feed) /\ feed[offset + 1].ended /\ feed[offset + 1].shot # 0

\* Mutant: a line that cannot be read is skipped.
ConsumeSkips ==
  /\ at = "relayed"
  /\ IF Readable
     THEN offset' = offset + 1 /\ taken' = feed[offset + 1] /\ at' = "consumed"
     ELSE /\ at' = "idle" /\ UNCHANGED taken
          /\ offset' = IF offset < Len(feed) THEN offset + 1 ELSE offset
  /\ UNCHANGED <<cycle, shot, started, evidence, request, response, feed,
                 gameVars, returned, relays, deaths>>

\* Mutant: a failed read steps back, to read the line before it again.
ConsumeRewinds ==
  /\ at = "relayed"
  /\ IF Readable
     THEN offset' = offset + 1 /\ taken' = feed[offset + 1] /\ at' = "consumed"
     ELSE at' = "idle" /\ offset' = offset - 1 /\ UNCHANGED taken
  /\ UNCHANGED <<cycle, shot, started, evidence, request, response, feed,
                 gameVars, returned, relays, deaths>>

\* JsonlBridgePayloadSource.next_payload: the next ended line that is an object;
\* anything else raises and leaves the offset where it is.
Consume ==
  /\ at = "relayed"
  /\ IF Readable
     THEN offset' = offset + 1 /\ taken' = feed[offset + 1] /\ at' = "consumed"
     ELSE at' = "idle" /\ UNCHANGED <<offset, taken>>
  /\ UNCHANGED <<cycle, shot, started, evidence, request, response, feed,
                 gameVars, returned, relays, deaths>>

\* Mutant: any readable payload is current.
AcceptedUnchecked == taken.clean

\* Mutant: a payload with logged screenshot evidence is current.
AcceptedLogged == taken.clean /\ taken.shot <= evidence

\* The sanitizer, then the screenshot of the payload against the latest one.
Accepted == taken.clean /\ taken.shot = evidence

Return ==
  /\ at = "consumed"
  /\ at' = "idle"
  /\ returned' = IF Accepted
                 THEN Append(returned, [cycle |-> cycle, shot |-> taken.shot, line |-> offset])
                 ELSE returned
  /\ UNCHANGED <<cycle, shot, started, offset, taken, evidence, request, response, feed,
                 gameVars, relays, deaths>>

\* An exception at any other point (a capture or a disk that fails, Ctrl-C).
Abort ==
  /\ at # "idle"
  /\ at' = "idle"
  /\ UNCHANGED <<cycle, shot, started, offset, taken, evidence, request, response, feed,
                 gameVars, returned, relays, deaths>>

\* A new host process has a new payload source; the files are still there.
HostDies ==
  /\ deaths < MaxDeaths
  /\ deaths' = deaths + 1
  /\ at' = "idle" /\ started' = FALSE /\ offset' = 0 /\ taken' = None
  /\ UNCHANGED <<cycle, shot, evidence, request, response, feed, gameVars, returned, relays>>

\* Another writer of the same run logs a screenshot.
OtherEvidence ==
  /\ evidence < MaxEvidence
  /\ evidence' = evidence + 1
  /\ UNCHANGED <<at, cycle, shot, started, offset, taken, request, response, feed,
                 gameVars, returned, relays, deaths>>

-----------------------------------------------------------------------------
(* The game's plugin.                                                       *)

\* Mutant: a second watch event for a name is another attempt.
AttemptsAgain(c) ==
  /\ request[c] # 0
  /\ attempts < MaxRequests
  /\ attempted' = attempted \cup {c}
  /\ attempts' = attempts + 1

\* A watch event names a request file; each name is attempted once, the attempt
\* counts whatever comes of it, and maxRequests attempts close the watcher.
Attempts(c) ==
  /\ request[c] # 0
  /\ attempts < MaxRequests
  /\ c \notin attempted
  /\ attempted' = attempted \cup {c}
  /\ attempts' = attempts + 1

\* Mutant: the response is renamed into place.
CanReplace(c) == c \notin scratch

\* publishResponse refuses an existing response and an existing temporary file,
\* and links the complete response.
CanPublish(c) == response[c] = None /\ c \notin scratch

PluginAnswers(c) ==
  /\ Attempts(c)
  /\ CanPublish(c)
  /\ response' = [response EXCEPT ![c] = [kind |-> "good", shot |-> request[c]]]
  /\ UNCHANGED <<hostVars, request, scratch, feed, returned, relays, deaths>>

\* No scene, no transport, an unreadable request, or a response that cannot be
\* written; its temporary file may be impossible to remove.
PluginGivesUp(c) ==
  /\ Attempts(c)
  /\ scratch' \in {scratch, scratch \cup {c}}
  /\ scratch' # scratch => CanPublish(c)
  /\ UNCHANGED <<hostVars, request, response, feed, returned, relays, deaths>>

\* The game dies, possibly between creating the temporary file of a response and
\* removing it; a restarted plugin remembers nothing.
GameDies ==
  /\ deaths < MaxDeaths
  /\ deaths' = deaths + 1
  /\ attempted' = {} /\ attempts' = 0
  /\ \/ UNCHANGED <<response, scratch>>
     \/ \E c \in Cycles : /\ request[c] # 0 /\ c \notin attempted /\ CanPublish(c)
                          /\ attempts < MaxRequests
                          /\ scratch' = scratch \cup {c}
                          /\ response' \in {response,
                               [response EXCEPT ![c] = [kind |-> "good", shot |-> request[c]]]}
  /\ UNCHANGED <<hostVars, request, feed, returned, relays>>

\* A file that is not the plugin's turns up at the response path.
ForeignResponse(c) ==
  /\ request[c] # 0
  /\ response[c] = None
  /\ \E kind \in {"torn", "foreign", "refused"} :
        response' = [response EXCEPT ![c] = [kind |-> kind, shot |-> request[c]]]
  /\ UNCHANGED <<hostVars, request, gameVars, feed, returned, relays, deaths>>

HostStep == Bind \/ Publish \/ Await \/ Relay \/ Consume \/ Return

Next ==
  \/ Capture
  \/ HostStep
  \/ Abort
  \/ HostDies
  \/ OtherEvidence
  \/ \E c \in Cycles : PluginAnswers(c) \/ PluginGivesUp(c) \/ ForeignResponse(c)
  \/ GameDies

Spec == Init /\ [][Next]_vars

\* A host in observe() is scheduled, so its deadline passes.  Nothing is assumed
\* of the game.
FairSpec == Spec /\ WF_vars(HostStep)

-----------------------------------------------------------------------------
(* Properties.                                                              *)

\* Each variable has the shape of the Python attribute or the file it stands for.
TypeOK ==
  /\ at \in HostPoints /\ cycle \in 0..MaxCycles /\ shot \in Nat
  /\ started \in BOOLEAN /\ offset \in Nat /\ taken \in Line \cup {None}
  /\ evidence \in Nat
  /\ request \in [Cycles -> Nat]
  /\ response \in [Cycles -> Answer \cup {None}]
  /\ scratch \subseteq Cycles
  /\ feed \in Seq(Line)
  /\ attempted \subseteq Cycles /\ attempts \in Nat
  /\ returned \in Seq([cycle : Cycles, shot : Nat, line : Nat])
  /\ relays \subseteq Cycles
  /\ deaths \in Nat

\* observe() returns the game state behind the screenshot it took itself, never
\* one of an earlier cycle, whatever was left in the feed, answered late or
\* logged by others meanwhile; and no cycle returns twice.
ObservationIsOfItsCycle ==
  \A i \in DOMAIN returned :
     /\ request[returned[i].cycle] = returned[i].shot
     /\ \A j \in 1..(i - 1) : returned[j].cycle < returned[i].cycle

\* The consumer never steps over bytes it could not read: all it consumed are
\* records of requests published before, each at most once, and only the last
\* line of the feed can be unfinished.
FeedDiscipline ==
  /\ offset <= Len(feed)
  /\ \A i \in 1..offset : feed[i].ended /\ feed[i].shot # 0
  /\ \A i \in DOMAIN feed : feed[i].ended \/ i = Len(feed)
  /\ \A i, j \in DOMAIN feed : i # j /\ feed[i].shot # 0 => feed[i].shot # feed[j].shot
  /\ \A i \in DOMAIN feed : feed[i].shot # 0 => \E c \in Cycles : request[c] = feed[i].shot

\* A host that lags behind the feed fails closed: it only returns the record it
\* relayed in the same call, the last one of the feed.
ReturnsTheLastRecord ==
  [][returned' # returned => offset = Len(feed) /\ cycle \in relays]_vars

\* Published files are final and the feed only grows: requests and responses are
\* never replaced, ended lines never change.
FilesAreFinal ==
  [][/\ \A c \in Cycles : /\ request[c] # 0 => request'[c] = request[c]
                          /\ response[c] # None => response'[c] = response[c]
     /\ Len(feed') >= Len(feed)
     /\ \A i \in DOMAIN feed : feed[i].ended => feed'[i] = feed[i]]_vars

\* The game answers a request only after it was published, with that request's
\* screenshot, and one life of the plugin attempts at most maxRequests names.
AnswersEchoRequests ==
  /\ \A c \in Cycles : response[c] # None => request[c] # 0 /\ response[c].shot = request[c]
  /\ attempts <= MaxRequests /\ Cardinality(attempted) = attempts

\* A cycle ends by returning or raising, also when the game never answers.
CycleEnds == at # "idle" ~> at = "idle"

\* Documented, and not what the code does: a relay that returned has put one
\* readable record of its own into the feed (a fragment of a failed append makes
\* the next record unreadable).
ValidRelayIsReadable ==
  \A c \in relays : \E i \in DOMAIN feed : feed[i].ended /\ feed[i].shot = request[c]
=============================================================================
