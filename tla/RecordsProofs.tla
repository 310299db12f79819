---------------------------- MODULE RecordsProofs ---------------------------
(***************************************************************************)
(* What comes in from the game and what is kept of it, for any number of   *)
(* cycles, deaths, runs, calls, connections and sessions.                  *)
(*                                                                         *)
(* An observation is of its own cycle.  The feed may hold records of       *)
(* earlier cycles, so the invariant is about the requests: their           *)
(* screenshots grow with the cycles and the one of the current cycle is    *)
(* the newest of them.  A record whose screenshot is the latest of the     *)
(* event log can then only be of the current request.                      *)
(*                                                                         *)
(* Then, as instances over variables of their own: the controlled live     *)
(* run, its audit pipeline and the review of its reports, the memory, the  *)
(* rooms and the entity risks that connections share, the event log of the *)
(* captured frames, and the research records: what a published reading     *)
(* resolves to and what the page of a research question may show.          *)
(***************************************************************************)
EXTENDS SnapshotExchange, FiniteSetTheorems, SequenceTheorems, TLAPS

\* Of the controlled live run.
CONSTANTS
  Modes, Frequencies, FrameLimits, InputLimits, ActionLimits, RateLimit, MaxDuration, MaxTime
VARIABLES
  pc, cfg, start, elapsed, focusOk, frames, counts, blocked, inputTime, lastInput, pre, post, stop, report,
  now, focused, stopFile, delivered, late

\* Of the audit pipeline.
CONSTANTS Overwrites, Legacy, MaxWrites
VARIABLES preflight, manifest, plan, noop, summary, pipe, writes

\* Of what is made of the reports.
CONSTANTS
  Runs, RealModes, ActModes, Bounds, Supports, RepeatRuns, REQUIRED_RUN_COUNT, MaxFrames, MaxAttempts, MaxGiven
VARIABLES support, made, validation, review, stability

\* Of the memory.
CONSTANTS Conns, Strategies, FactStatuses, StrategyStatuses, Evidence, Reasons, Kinds, MaxCalls
VARIABLES db, open, calls, recalled

\* Of the room graph, the entity risks and the captured frames.
CONSTANTS
  Rooms, Actions, Meta, Forbidden, MaxConf, Keys, Outcomes, Confidences, MaxOps, Sessions, Frames, Error
VARIABLES
  rooms, edges, gpc, gcall, gcalls, failed, direct,
  risks, revents, rpc, rop, back, ret, rnow, ops,
  cpc, allow, saved, mine, shots, log, torn, answer

\* Of the source catalog.
CONSTANTS Families, Versions, Alias, ReadRefs, PreferenceRefs, Retractable, Revising, MaxPublications
VARIABLES authored, publications

\* Of the page of a research question.
CONSTANTS Papers, Notes, Findings, Syntheses, Searches, Question, Drafts, First, MaxEdits
VARIABLES content, version, maturity, conclusion, reviewed, edits

\* Where the current cycle stands once its request is out.
Requested == {"waiting", "answered", "relayed", "consumed"}

CycleTypes ==
  /\ at \in HostPoints /\ cycle \in 0..MaxCycles /\ cycle \in Nat
  /\ shot \in Nat /\ evidence \in Nat /\ offset \in Nat
  /\ request \in [Cycles -> Nat]
  /\ response \in [Cycles -> Answer \cup {None}]
  /\ feed \in Seq(Line) /\ taken \in Line \cup {None}
  /\ returned \in Seq([cycle : Cycles, shot : Nat, line : Nat])

\* Requests are published in the order of their screenshots, the current last.
RequestsGrow ==
  /\ shot <= evidence
  /\ at # "idle" => cycle \in Cycles /\ shot # 0
  /\ \A c \in Cycles : request[c] # 0 =>
        /\ c <= cycle
        /\ request[c] <= shot
        /\ (c < cycle /\ at # "idle") => request[c] < shot
  /\ at \in Requested => request[cycle] = shot
  /\ at = "answered" => response[cycle] # None

IsRequested(s) == \E c \in Cycles : request[c] = s

\* Whatever can be read from the feed is the record of some request.
RecordsAreRequested ==
  /\ \A c \in Cycles : response[c] # None => request[c] # 0
  /\ \A i \in DOMAIN feed : feed[i].shot # 0 => IsRequested(feed[i].shot)
  /\ at = "consumed" => taken \in Line /\ taken.shot # 0 /\ IsRequested(taken.shot)

ReturnsAreOrdered ==
  \A i \in DOMAIN returned :
     /\ returned[i].shot # 0
     /\ request[returned[i].cycle] = returned[i].shot
     /\ returned[i].cycle <= cycle
     /\ at # "idle" => returned[i].cycle < cycle
     /\ \A j \in 1..(i - 1) : returned[j].cycle < returned[i].cycle

ExchangeInv == CycleTypes /\ RequestsGrow /\ RecordsAreRequested /\ ReturnsAreOrdered
-----------------------------------------------------------------------------
\* Writing a line to the feed keeps its shape and makes nothing readable but
\* that line.
LEMMA WriteShape ==
  ASSUME feed \in Seq(Line), NEW line \in Line
  PROVE  /\ Write(line) \in Seq(Line)
         /\ \A i \in DOMAIN Write(line) : Write(line)[i].shot # 0 =>
               \/ Write(line)[i].shot = line.shot
               \/ i \in DOMAIN feed /\ Write(line)[i].shot = feed[i].shot
<1>1. CASE HasTail
  <2> DEFINE spoilt == [shot |-> 0, clean |-> FALSE, ended |-> line.ended]
  <2>1. spoilt \in Line /\ spoilt.shot = 0
    BY DEF Line
  <2>2. Write(line) = [feed EXCEPT ![Len(feed)] = spoilt]
    BY <1>1 DEF Write
  <2>3. \A i \in DOMAIN feed :
           Write(line)[i] = IF i = Len(feed) THEN spoilt ELSE feed[i]
    BY <2>2
  <2> HIDE DEF spoilt
  <2>4. DOMAIN Write(line) = DOMAIN feed /\ Len(feed) \in DOMAIN feed
    BY <1>1, <2>2 DEF HasTail
  <2>5. QED
    BY <2>1, <2>2, <2>3, <2>4
<1>2. CASE ~HasTail
  <2>1. Write(line) = Append(feed, line)
    BY <1>2 DEF Write
  <2>2. QED
    BY <2>1
<1>3. QED
  BY <1>1, <1>2

\* The cycles of the returned observations are numbers.
LEMMA ReturnedCycles ==
  ASSUME returned \in Seq([cycle : Cycles, shot : Nat, line : Nat])
  PROVE  \A i \in DOMAIN returned : returned[i].cycle \in Cycles /\ returned[i].cycle \in Nat
<1> SUFFICES ASSUME NEW i \in DOMAIN returned
             PROVE  returned[i].cycle \in Cycles /\ returned[i].cycle \in Nat
  OBVIOUS
<1> DEFINE R == [cycle : Cycles, shot : Nat, line : Nat]
<1>1. returned[i] \in R
  <2>1. returned \in Seq(R)
    OBVIOUS
  <2> HIDE DEF R
  <2>2. QED
    BY <2>1
<1>2. QED
  BY <1>1, BoundAssumption DEF Cycles

\* What keeps the order of the returned observations: a new cycle, a request
\* that only changes the entry of the current cycle, and one more observation,
\* of the current cycle.
LEMMA OrderedWhenCaptured ==
  ASSUME returned \in Seq([cycle : Cycles, shot : Nat, line : Nat]), ReturnsAreOrdered,
         cycle \in Nat, cycle' = cycle + 1, UNCHANGED <<request, returned>>
  PROVE  ReturnsAreOrdered'
<1>1. \A i \in DOMAIN returned : returned[i].cycle <= cycle + 1 /\ returned[i].cycle < cycle + 1
  <2>1. \A i \in DOMAIN returned : returned[i].cycle \in Nat /\ returned[i].cycle <= cycle
    BY ReturnedCycles DEF ReturnsAreOrdered
  <2> SUFFICES ASSUME NEW i \in DOMAIN returned
               PROVE  returned[i].cycle <= cycle + 1 /\ returned[i].cycle < cycle + 1
    OBVIOUS
  <2> DEFINE n == returned[i].cycle
  <2>2. n \in Nat /\ n <= cycle
    BY <2>1
  <2> HIDE DEF n
  <2>3. n <= cycle + 1 /\ n < cycle + 1
    BY <2>2
  <2>4. QED
    BY <2>3 DEF n
<1>2. QED
  BY <1>1 DEF ReturnsAreOrdered

LEMMA OrderedWhenPublished ==
  ASSUME returned \in Seq([cycle : Cycles, shot : Nat, line : Nat]), ReturnsAreOrdered,
         cycle \in Nat, at # "idle", UNCHANGED <<cycle, returned>>,
         \A c \in Cycles : request'[c] = IF c = cycle THEN shot ELSE request[c]
  PROVE  ReturnsAreOrdered'
<1>1. \A i \in DOMAIN returned : returned[i].cycle \in Cycles /\ returned[i].cycle # cycle
  <2> SUFFICES ASSUME NEW i \in DOMAIN returned
               PROVE  returned[i].cycle \in Cycles /\ returned[i].cycle # cycle
    OBVIOUS
  <2> DEFINE n == returned[i].cycle
  <2>1. n \in Cycles /\ n \in Nat /\ n < cycle
    BY ReturnedCycles DEF ReturnsAreOrdered
  <2> HIDE DEF n
  <2>2. n # cycle
    BY <2>1
  <2>3. QED
    BY <2>1, <2>2 DEF n
<1>2. \A i \in DOMAIN returned : request'[returned[i].cycle] = request[returned[i].cycle]
  BY <1>1
<1>3. QED
  BY <1>2 DEF ReturnsAreOrdered

LEMMA OrderedWhenReturned ==
  ASSUME returned \in Seq([cycle : Cycles, shot : Nat, line : Nat]), ReturnsAreOrdered,
         cycle \in Nat, at # "idle", at' = "idle", UNCHANGED <<cycle, request>>,
         NEW new \in [cycle : Cycles, shot : Nat, line : Nat],
         new.cycle = cycle, new.shot # 0, request[new.cycle] = new.shot,
         returned' = Append(returned, new)
  PROVE  /\ returned' \in Seq([cycle : Cycles, shot : Nat, line : Nat])
         /\ ReturnsAreOrdered'
<1> DEFINE R == [cycle : Cycles, shot : Nat, line : Nat]
<1> DEFINE n == Len(returned)
<1>1. returned \in Seq(R) /\ new \in R
  OBVIOUS
<1>2. \A i \in DOMAIN returned : returned[i].cycle < cycle
  BY DEF ReturnsAreOrdered
<1> HIDE DEF R
<1>3. /\ n \in Nat /\ DOMAIN returned = 1..n /\ DOMAIN returned' = 1..(n + 1)
      /\ \A i \in 1..n : returned'[i] = returned[i]
      /\ returned'[n + 1] = new
      /\ returned' \in Seq(R)
  BY <1>1
<1> HIDE DEF n
<1>4. ASSUME NEW i \in DOMAIN returned'
      PROVE  /\ returned'[i].shot # 0
             /\ request'[returned'[i].cycle] = returned'[i].shot
             /\ returned'[i].cycle <= cycle'
             /\ \A j \in 1..(i - 1) : returned'[j].cycle < returned'[i].cycle
  <2>1. CASE i = n + 1
    <3>1. returned'[i] = new
      BY <1>3, <2>1
    <3>2. \A j \in 1..(i - 1) : j \in DOMAIN returned /\ returned'[j] = returned[j]
      BY <1>3, <2>1
    <3>3. cycle' = cycle /\ request' = request
      OBVIOUS
    <3>4. \A j \in 1..(i - 1) : returned'[j].cycle < new.cycle
      BY <1>2, <3>2
    <3>5. new.shot # 0 /\ request'[new.cycle] = new.shot /\ new.cycle <= cycle'
      BY <3>3
    <3>6. QED
      BY <3>1, <3>4, <3>5
  <2>2. CASE i # n + 1
    <3>1. i \in 1..n
      BY <1>3, <1>4, <2>2
    <3>2. i \in DOMAIN returned /\ returned'[i] = returned[i]
      BY <1>3, <3>1
    <3>3. \A j \in 1..(i - 1) : returned'[j] = returned[j]
      BY <1>3, <3>1
    <3>4. /\ returned[i].shot # 0 /\ request[returned[i].cycle] = returned[i].shot
          /\ returned[i].cycle <= cycle
          /\ \A j \in 1..(i - 1) : returned[j].cycle < returned[i].cycle
      BY <3>2 DEF ReturnsAreOrdered
    <3>5. QED
      BY <3>2, <3>3, <3>4
  <2>3. QED
    BY <2>1, <2>2
<1>5. ReturnsAreOrdered'
  BY <1>4 DEF ReturnsAreOrdered
<1>6. QED
  BY <1>3, <1>5 DEF R

\* The invariant holds at the start.
LEMMA ExchangeInit == Init => ExchangeInv
BY BoundAssumption DEF Init, ExchangeInv, CycleTypes, RequestsGrow, RecordsAreRequested,
   ReturnsAreOrdered, HostPoints, Requested, IsRequested, Cycles

\* Every step of the host, of the game and of the world keeps it.
LEMMA ExchangeStep == ExchangeInv /\ [Next]_vars => ExchangeInv'
<1> SUFFICES ASSUME ExchangeInv, [Next]_vars PROVE ExchangeInv'
  OBVIOUS
<1> USE BoundAssumption DEF Cycles
<1> USE DEF ExchangeInv, CycleTypes, RequestsGrow, RecordsAreRequested, ReturnsAreOrdered,
            HostPoints, Requested, IsRequested
<1>1. CASE Capture
  <2>1. CycleTypes'
    <3>1. /\ at' \in HostPoints /\ shot' \in Nat /\ evidence' \in Nat
          /\ cycle' \in 0..MaxCycles /\ cycle' \in Nat
      BY <1>1 DEF Capture
    <3>2. UNCHANGED <<offset, request, response, feed, taken, returned>>
      BY <1>1 DEF Capture
    <3>3. QED
      BY <3>1, <3>2
  <2>2. RequestsGrow'
    BY <1>1 DEF Capture
  <2>3. RecordsAreRequested'
    BY <1>1 DEF Capture
  <2>4. ReturnsAreOrdered'
    <3>1. cycle \in Nat /\ cycle' = cycle + 1 /\ UNCHANGED <<request, returned>>
      BY <1>1 DEF Capture
    <3>2. QED
      BY <3>1, OrderedWhenCaptured
  <2>5. QED
    BY <2>1, <2>2, <2>3, <2>4
<1>2. CASE Bind
  BY <1>2 DEF Bind, gameVars
<1>3. CASE Publish
  <2>1. CASE request[cycle] = 0
    <3>1. /\ \A c \in Cycles : request'[c] = IF c = cycle THEN shot ELSE request[c]
          /\ request' \in [Cycles -> Nat] /\ cycle \in Cycles /\ shot # 0
      <4>1. /\ request \in [Cycles -> Nat] /\ cycle \in Cycles /\ shot \in Nat /\ shot # 0
            /\ request' = [request EXCEPT ![cycle] = shot]
        BY <1>3, <2>1 DEF Publish
      <4> HIDE DEF ExchangeInv, CycleTypes, RequestsGrow, RecordsAreRequested, ReturnsAreOrdered
      <4>2. QED
        BY <4>1
    <3>2. \A s : s # 0 /\ (\E c \in Cycles : request[c] = s) =>
               \E c \in Cycles : request'[c] = s
      BY <2>1, <3>1
    <3>0. UNCHANGED <<response, feed, cycle, returned>> /\ at' = "waiting" /\ at = "bound"
      BY <1>3, <2>1 DEF Publish
    <3>3. CycleTypes' /\ RequestsGrow'
      BY <1>3, <2>1, <3>1 DEF Publish
    <3>4. RecordsAreRequested'
      <4>1. \A c \in Cycles : response'[c] # None => request'[c] # 0
        BY <3>0, <3>1
      <4>2. \A i \in DOMAIN feed' : feed'[i].shot # 0 =>
               \E c \in Cycles : request'[c] = feed'[i].shot
        BY <3>0, <3>2
      <4>3. QED
        BY <3>0, <4>1, <4>2
    <3>5. ReturnsAreOrdered'
      BY <3>0, <3>1, OrderedWhenPublished
    <3>6. QED
      BY <3>3, <3>4, <3>5
  <2>2. CASE request[cycle] # 0
    BY <1>3, <2>2 DEF Publish
  <2>3. QED
    BY <2>1, <2>2
<1>4. CASE Await
  BY <1>4 DEF Await, gameVars
<1>5. CASE Relay
  <2> DEFINE record == Record(response[cycle])
  <2>1. CASE Correlates(response[cycle])
    <3>1. record \in Line /\ record.shot = request[cycle] /\ record.shot # 0
      BY <1>5, <2>1 DEF Relay, Record, Correlates, Line, Answer
    <3>2. Fragment \in Line /\ Fragment.shot = 0
      BY DEF Fragment, Line
    <3>3. feed' \in {Write(Fragment), Write(record), feed}
      BY <1>5, <2>1 DEF Relay
    <3> HIDE DEF record
    <3>4. ASSUME NEW line \in {Fragment, record}, feed' = Write(line)
          PROVE  /\ feed' \in Seq(Line)
                 /\ \A i \in DOMAIN feed' : feed'[i].shot # 0 => IsRequested(feed'[i].shot)
      <4>1. line \in Line /\ (line.shot = 0 \/ IsRequested(line.shot))
        BY <1>5, <3>1, <3>2 DEF Relay
      <4>2. /\ feed' \in Seq(Line)
            /\ \A i \in DOMAIN feed' : feed'[i].shot # 0 =>
                 \/ feed'[i].shot = line.shot
                 \/ i \in DOMAIN feed /\ feed'[i].shot = feed[i].shot
        BY <3>4, <4>1, WriteShape DEF CycleTypes
      <4>3. QED
        BY <4>1, <4>2
    <3>5. /\ feed' \in Seq(Line)
          /\ \A i \in DOMAIN feed' : feed'[i].shot # 0 => IsRequested(feed'[i].shot)
      BY <3>3, <3>4
    <3>6. QED
      BY <1>5, <3>5 DEF Relay
  <2>2. CASE ~Correlates(response[cycle])
    BY <1>5, <2>2 DEF Relay, gameVars
  <2>3. QED
    BY <2>1, <2>2
<1>6. CASE Consume
  <2>1. CASE Readable
    <3>1. offset + 1 \in DOMAIN feed /\ feed[offset + 1] \in Line
      BY <2>1 DEF Readable
    <3>2. QED
      BY <1>6, <2>1, <3>1 DEF Consume, Readable
  <2>2. CASE ~Readable
    BY <1>6, <2>2 DEF Consume
  <2>3. QED
    BY <2>1, <2>2
<1>7. CASE Return
  <2>1. CASE Accepted
    <3> DEFINE new == [cycle |-> cycle, shot |-> taken.shot, line |-> offset]
    <3>1. PICK c \in Cycles : request[c] = taken.shot
      BY <1>7 DEF Return
    <3>2. taken.shot = evidence /\ taken.shot # 0 /\ cycle \in Cycles /\ taken \in Line
      BY <1>7, <2>1 DEF Return, Accepted
    <3>3. c = cycle
      <4>1. c <= cycle /\ (c < cycle => request[c] < shot)
        BY <1>7, <3>1, <3>2 DEF Return
      <4>2. shot <= evidence /\ shot \in Nat /\ evidence \in Nat /\ c \in Nat /\ cycle \in Nat
        BY BoundAssumption DEF Cycles
      <4>3. QED
        BY <3>1, <3>2, <4>1, <4>2
    <3>4. returned' = Append(returned, new) /\ UNCHANGED <<request, cycle>> /\ at' = "idle"
      BY <1>7, <2>1 DEF Return
    <3>5. /\ new \in [cycle : Cycles, shot : Nat, line : Nat]
          /\ new.cycle = cycle /\ new.shot # 0 /\ request[new.cycle] = new.shot
      BY <3>1, <3>2, <3>3 DEF Line
    <3> HIDE DEF new
    <3>6. returned' \in Seq([cycle : Cycles, shot : Nat, line : Nat]) /\ ReturnsAreOrdered'
      <4>1. /\ returned \in Seq([cycle : Cycles, shot : Nat, line : Nat])
            /\ ReturnsAreOrdered /\ cycle \in Nat /\ at # "idle"
        BY <1>7 DEF Return
      <4> HIDE DEF ExchangeInv, CycleTypes, RequestsGrow, RecordsAreRequested, ReturnsAreOrdered
      <4>2. QED
        BY <3>4, <3>5, <4>1, OrderedWhenReturned
    <3>7. CycleTypes' /\ RequestsGrow' /\ RecordsAreRequested'
      BY <1>7, <3>6 DEF Return
    <3>8. QED
      BY <3>6, <3>7
  <2>2. CASE ~Accepted
    BY <1>7, <2>2 DEF Return, gameVars
  <2>3. QED
    BY <2>1, <2>2
<1>8. CASE Abort
  BY <1>8 DEF Abort, gameVars
<1>9. CASE HostDies
  BY <1>9 DEF HostDies, gameVars
<1>10. CASE OtherEvidence
  BY <1>10 DEF OtherEvidence, gameVars
<1>11. ASSUME NEW c \in Cycles, PluginAnswers(c) PROVE ExchangeInv'
  <2>1. response' \in [Cycles -> Answer \cup {None}]
    BY <1>11 DEF PluginAnswers, Answer
  <2>2. \A d \in Cycles : response'[d] # None => request[d] # 0
    BY <1>11 DEF PluginAnswers, Attempts
  <2>3. at = "answered" => response'[cycle] # None
    BY <1>11 DEF PluginAnswers, CanPublish
  <2>4. QED
    BY <1>11, <2>1, <2>2, <2>3 DEF PluginAnswers, hostVars
<1>12. ASSUME NEW c \in Cycles, PluginGivesUp(c) PROVE ExchangeInv'
  BY <1>12 DEF PluginGivesUp, Attempts, hostVars
<1>13. ASSUME NEW c \in Cycles, ForeignResponse(c) PROVE ExchangeInv'
  BY <1>13 DEF ForeignResponse, hostVars, Answer
<1>14. CASE GameDies
  <2>1. CASE UNCHANGED response
    BY <1>14, <2>1 DEF GameDies, hostVars
  <2>2. CASE response' # response
    <3>1. PICK c \in Cycles :
            /\ request[c] # 0 /\ response[c] = None
            /\ response' = [response EXCEPT ![c] = [kind |-> "good", shot |-> request[c]]]
      BY <1>14, <2>2 DEF GameDies, CanPublish
    <3>2. response' \in [Cycles -> Answer \cup {None}]
      BY <3>1 DEF Answer
    <3>3. \A d \in Cycles : response'[d] # None => request[d] # 0
      BY <3>1
    <3>4. at = "answered" => response'[cycle] # None
      BY <3>1
    <3>5. QED
      BY <1>14, <3>2, <3>3, <3>4 DEF GameDies, hostVars
  <2>3. QED
    BY <2>1, <2>2
<1>15. CASE UNCHANGED vars
  BY <1>15 DEF vars
<1>16. QED
  BY <1>1, <1>2, <1>3, <1>4, <1>5, <1>6, <1>7, <1>8, <1>9, <1>10, <1>11, <1>12, <1>13,
     <1>14, <1>15 DEF Next, HostStep

-----------------------------------------------------------------------------
\* observe() returns the game state behind the screenshot it took itself, and no
\* cycle returns twice, for every number of cycles, screenshots and deaths.
THEOREM ObservationIsOfItsCycleHolds == Spec => []ObservationIsOfItsCycle
<1>1. ExchangeInv => ObservationIsOfItsCycle
  BY DEF ExchangeInv, ReturnsAreOrdered, ObservationIsOfItsCycle
<1>2. QED
  BY <1>1, ExchangeInit, ExchangeStep, PTL DEF Spec

-----------------------------------------------------------------------------
\* What is left of the types: the files and counters of the game, and the ghosts.
OtherTypes ==
  /\ started \in BOOLEAN
  /\ scratch \subseteq Cycles
  /\ attempted \subseteq Cycles /\ attempts \in Nat
  /\ relays \subseteq Cycles
  /\ deaths \in Nat

LEMMA OtherTypesStep ==
  ASSUME ExchangeInv, OtherTypes, [Next]_vars
  PROVE  OtherTypes'
<1> USE DEF OtherTypes
<1>1. CASE Capture
  BY <1>1 DEF Capture, gameVars
<1>2. CASE Bind \/ Publish \/ Await \/ Consume \/ Return \/ Abort
  BY <1>2 DEF Bind, Publish, Await, Consume, Return, Abort, gameVars
<1>3. CASE Relay
  <2>1. cycle \in Cycles
    BY <1>3 DEF Relay, ExchangeInv, RequestsGrow
  <2>2. QED
    BY <1>3, <2>1 DEF Relay, gameVars
<1>4. CASE OtherEvidence
  BY <1>4 DEF OtherEvidence, gameVars
<1>5. CASE HostDies
  <2>1. started' \in BOOLEAN
    BY <1>5 DEF HostDies
  <2>2. /\ UNCHANGED <<scratch, attempted, attempts, relays>>
        /\ deaths' = deaths + 1
    BY <1>5 DEF HostDies, gameVars
  <2>3. QED
    BY <2>1, <2>2
<1>6. ASSUME NEW c \in Cycles, PluginAnswers(c) \/ PluginGivesUp(c) \/ ForeignResponse(c)
      PROVE  OtherTypes'
  BY <1>6 DEF PluginAnswers, PluginGivesUp, ForeignResponse, Attempts, hostVars, gameVars
<1>7. CASE GameDies
  BY <1>7 DEF GameDies, hostVars
<1>8. CASE UNCHANGED vars
  BY <1>8 DEF vars
<1>9. QED
  BY <1>1, <1>2, <1>3, <1>4, <1>5, <1>6, <1>7, <1>8 DEF Next, HostStep

\* Type correctness of the exchange: host, files, plugin and ghosts.
THEOREM ExchangeTypeCorrect == Spec => []TypeOK
<1>1. Init => OtherTypes
  <2> SUFFICES ASSUME Init PROVE OtherTypes
    OBVIOUS
  <2>1. started \in BOOLEAN
    BY DEF Init
  <2>2. scratch = {} /\ attempted = {} /\ attempts = 0 /\ relays = {} /\ deaths = 0
    BY DEF Init
  <2>3. QED
    BY <2>1, <2>2 DEF OtherTypes
<1>2. ExchangeInv /\ OtherTypes => TypeOK
  BY DEF ExchangeInv, CycleTypes, OtherTypes, TypeOK
<1>3. QED
  BY <1>1, <1>2, ExchangeInit, ExchangeStep, OtherTypesStep, PTL DEF Spec

-----------------------------------------------------------------------------
\* Writing to the feed touches its last line at most, and that one only while it
\* is unfinished; what it leaves at the end can be read as the new line or not at
\* all.
LEMMA WriteTail ==
  ASSUME feed \in Seq(Line), NEW line \in Line
  PROVE  /\ Len(Write(line)) \in Nat /\ Len(Write(line)) >= Len(feed) /\ Len(Write(line)) >= 1
         /\ \A i \in 1..(Len(Write(line)) - 1) : i \in DOMAIN feed /\ Write(line)[i] = feed[i]
         /\ Write(line)[Len(Write(line))].shot \in {0, line.shot}
         /\ Len(Write(line)) = Len(feed) => ~feed[Len(feed)].ended
         /\ Len(feed) # 0 /\ Len(feed) # Len(Write(line)) => feed[Len(feed)].ended
<1>1. CASE HasTail
  <2> DEFINE spoilt == [shot |-> 0, clean |-> FALSE, ended |-> line.ended]
  <2>1. spoilt \in Line /\ spoilt.shot = 0
    BY DEF Line
  <2>2. Write(line) = [feed EXCEPT ![Len(feed)] = spoilt]
    BY <1>1 DEF Write
  <2>3. \A i \in DOMAIN feed :
           Write(line)[i] = IF i = Len(feed) THEN spoilt ELSE feed[i]
    BY <2>2
  <2> HIDE DEF spoilt
  <2>4. /\ Len(Write(line)) = Len(feed) /\ Len(feed) \in DOMAIN feed
        /\ DOMAIN feed = 1..Len(feed) /\ Len(feed) \in Nat
    BY <1>1, <2>1, <2>2 DEF HasTail
  <2>5. QED
    BY <1>1, <2>1, <2>3, <2>4 DEF HasTail
<1>2. CASE ~HasTail
  <2>1. Write(line) = Append(feed, line)
    BY <1>2 DEF Write
  <2>2. Len(feed) # 0 => feed[Len(feed)].ended
    BY <1>2 DEF HasTail
  <2>3. QED
    BY <2>1, <2>2
<1>3. QED
  BY <1>1, <1>2

\* A relay leaves the feed alone or writes one line, a fragment or the record of
\* the current request, and only while that request is answered.
LEMMA RelayWrites ==
  ASSUME ExchangeInv, Relay
  PROVE  \/ feed' = feed /\ at' = "idle"
         \/ \E line \in Line : feed' = Write(line) /\ line.shot \in {0, shot}
<1>1. CASE Correlates(response[cycle])
  <2>1. /\ Record(response[cycle]) \in Line
        /\ Record(response[cycle]).shot = shot
    BY <1>1 DEF Relay, Record, Correlates, Line, Answer, ExchangeInv, CycleTypes,
                RequestsGrow, Requested
  <2>2. Fragment \in Line /\ Fragment.shot = 0
    BY DEF Fragment, Line
  <2>3. \/ feed' = feed /\ at' = "idle"
        \/ feed' = Write(Fragment)
        \/ feed' = Write(Record(response[cycle]))
    BY <1>1 DEF Relay
  <2>4. QED
    BY <2>1, <2>2, <2>3
<1>2. CASE ~Correlates(response[cycle])
  BY <1>2 DEF Relay
<1>3. QED
  BY <1>1, <1>2

\* No other step writes to the feed.
LEMMA OnlyRelayWrites ==
  ASSUME [Next]_vars, ~Relay
  PROVE  feed' = feed
BY DEF Next, HostStep, Capture, Bind, Publish, Await, Consume, Return, Abort, HostDies,
       OtherEvidence, PluginAnswers, PluginGivesUp, ForeignResponse, GameDies, hostVars,
       gameVars, vars

\* What the feed is while a cycle runs.  Before the relay the screenshot of the
\* cycle is nowhere in the feed; after it, nowhere but in the last line.
FeedInv ==
  /\ offset <= Len(feed)
  /\ \A i \in 1..offset : feed[i].ended /\ feed[i].shot # 0
  /\ \A i \in DOMAIN feed : feed[i].ended \/ i = Len(feed)
  /\ \A i, j \in DOMAIN feed : i # j /\ feed[i].shot # 0 => feed[i].shot # feed[j].shot
  /\ at \in {"captured", "bound", "waiting", "answered"} =>
        \A i \in DOMAIN feed : feed[i].shot # shot
  /\ at \in {"captured", "bound"} => request[cycle] = 0
  /\ at \in {"relayed", "consumed"} =>
        /\ cycle \in relays
        /\ \A i \in DOMAIN feed : feed[i].shot = shot => i = Len(feed)
  /\ at = "consumed" => offset # 0 /\ taken = feed[offset]

LEMMA FeedStep ==
  ASSUME ExchangeInv, FeedInv, [Next]_vars
  PROVE  FeedInv'
<1>0. /\ feed \in Seq(Line) /\ offset \in Nat /\ Len(feed) \in Nat
      /\ DOMAIN feed = 1..Len(feed)
  BY DEF ExchangeInv, CycleTypes
<1>1. CASE Capture
  <2>1. CASE at' = "captured"
    <3>1. \A i \in DOMAIN feed : feed[i].shot # evidence + 1
      <4> SUFFICES ASSUME NEW i \in DOMAIN feed, feed[i].shot = evidence + 1 PROVE FALSE
        OBVIOUS
      <4>1. evidence \in Nat /\ shot \in Nat /\ shot <= evidence
        BY DEF ExchangeInv, CycleTypes, RequestsGrow
      <4>2. PICK c \in Cycles : request[c] = feed[i].shot
        BY <4>1 DEF ExchangeInv, RecordsAreRequested, IsRequested
      <4>3. request[c] <= shot
        BY <4>1, <4>2 DEF ExchangeInv, RequestsGrow
      <4>4. QED
        BY <4>1, <4>2, <4>3
    <3>2. /\ shot' = evidence + 1 /\ request'[cycle'] = 0
          /\ UNCHANGED <<offset, feed>>
      BY <1>1, <2>1 DEF Capture, HostPoints
    <3>3. QED
      BY <2>1, <3>1, <3>2 DEF FeedInv
  <2>2. CASE at' # "captured"
    BY <1>1, <2>2 DEF Capture, FeedInv
  <2>3. QED
    BY <2>1, <2>2
<1>2. CASE Bind \/ Await \/ Abort \/ OtherEvidence
  BY <1>2 DEF Bind, Await, Abort, OtherEvidence, gameVars, FeedInv
<1>3. CASE Publish
  BY <1>3 DEF Publish, gameVars, FeedInv
<1>4. CASE Relay
  <2>1. CASE feed' = feed /\ at' = "idle"
    BY <1>4, <2>1 DEF Relay, FeedInv
  <2>2. ASSUME NEW line \in Line, feed' = Write(line), line.shot \in {0, shot}
        PROVE  FeedInv'
    <3> DEFINE n == Len(feed')
    <3>1. /\ n \in Nat /\ n >= Len(feed) /\ n >= 1
          /\ \A i \in 1..(n - 1) : i \in DOMAIN feed /\ feed'[i] = feed[i]
          /\ feed'[n].shot \in {0, shot}
          /\ n = Len(feed) => ~feed[n].ended
      BY <1>0, <2>2, WriteTail
    <3>2. feed' \in Seq(Line) /\ DOMAIN feed' = 1..n
      BY <1>0, <2>2, WriteShape
    <3> HIDE DEF n
    <3>3. offset <= n /\ \A i \in 1..offset : i \in 1..(n - 1)
      <4>1. offset <= Len(feed)
        BY DEF FeedInv
      <4>2. ASSUME NEW i \in 1..offset PROVE i # n
        <5> SUFFICES ASSUME i = n PROVE FALSE
          OBVIOUS
        <5>1. n = Len(feed)
          <6>1. n \in Nat /\ n >= Len(feed)
            BY <3>1
          <6>2. n <= offset
            BY <1>0, <6>1
          <6>3. offset \in Nat /\ Len(feed) \in Nat
            BY <1>0
          <6>4. QED
            BY <4>1, <6>1, <6>2, <6>3
        <5>2. feed[i].ended
          BY DEF FeedInv
        <5>3. QED
          BY <3>1, <5>1, <5>2
      <4>3. n \in Nat /\ n >= Len(feed)
        BY <3>1
      <4>4. offset \in Nat /\ Len(feed) \in Nat
        BY <1>0
      <4>5. QED
        BY <4>1, <4>2, <4>3, <4>4
    <3>4. \A i \in 1..(n - 1) : feed'[i].ended
      <4> SUFFICES ASSUME NEW i \in 1..(n - 1) PROVE feed'[i].ended
        OBVIOUS
      <4>1. i \in DOMAIN feed /\ feed'[i] = feed[i] /\ i # n
        BY <3>1
      <4>2. CASE i = Len(feed)
        <5>1. Len(feed) # n /\ Len(feed) # 0
          BY <1>0, <4>1, <4>2
        <5>2. feed[Len(feed)].ended
          BY <1>0, <2>2, <5>1, WriteTail DEF n
        <5>3. QED
          BY <4>1, <4>2, <5>2
      <4>3. QED
        BY <4>1, <4>2 DEF FeedInv
    <3>5. \A i \in 1..(n - 1) : feed'[i].shot # shot
      BY <1>4, <3>1 DEF FeedInv, Relay
    <3>6. \A i, j \in 1..n : i # j /\ feed'[i].shot # 0 => feed'[i].shot # feed'[j].shot
      <4> SUFFICES ASSUME NEW i \in 1..n, NEW j \in 1..n, i # j, feed'[i].shot # 0,
                          feed'[i].shot = feed'[j].shot
                   PROVE  FALSE
        OBVIOUS
      <4>1. feed'[n].shot \in {0, shot}
        BY <3>1
      <4>2. \A k \in 1..(n - 1) : k \in DOMAIN feed /\ feed'[k] = feed[k]
        BY <3>1
      <4>3. n \in Nat
        BY <3>1
      <4>4. (i = n \/ i \in 1..(n - 1)) /\ (j = n \/ j \in 1..(n - 1))
        BY <4>3
      <4>5. i \in 1..(n - 1) /\ j \in 1..(n - 1)
        BY <3>5, <4>1, <4>4
      <4>6. QED
        BY <4>2, <4>5 DEF FeedInv
    <3>7. at' \in {"idle", "relayed"} /\ UNCHANGED <<offset, shot>>
      BY <1>4 DEF Relay
    <3>8. at' = "relayed" => cycle' \in relays'
      BY <1>4 DEF Relay
    <3>9. \A i \in 1..offset : feed'[i].ended /\ feed'[i].shot # 0
      BY <3>1, <3>3 DEF FeedInv
    <3>10. QED
      BY <3>2, <3>3, <3>4, <3>5, <3>6, <3>7, <3>8, <3>9 DEF FeedInv, n
  <2>3. QED
    BY <1>4, <2>1, <2>2, RelayWrites
<1>5. CASE Consume
  <2>1. CASE Readable
    <3>1. /\ offset' = offset + 1 /\ taken' = feed[offset + 1] /\ at' = "consumed"
          /\ at = "relayed" /\ UNCHANGED <<cycle, shot, feed, relays>>
      BY <1>5, <2>1 DEF Consume
    <3>2. offset' <= Len(feed) /\ \A i \in 1..offset' : feed[i].ended /\ feed[i].shot # 0
      BY <1>0, <2>1, <3>1 DEF Readable, FeedInv
    <3>3. QED
      BY <1>0, <3>1, <3>2 DEF FeedInv
  <2>2. CASE ~Readable
    BY <1>5, <2>2 DEF Consume, FeedInv
  <2>3. QED
    BY <2>1, <2>2
<1>6. CASE Return
  BY <1>6 DEF Return, gameVars, FeedInv
<1>7. CASE HostDies
  BY <1>0, <1>7 DEF HostDies, FeedInv
<1>8. ASSUME NEW c \in Cycles, PluginAnswers(c) \/ PluginGivesUp(c) \/ ForeignResponse(c)
      PROVE  FeedInv'
  BY <1>8 DEF PluginAnswers, PluginGivesUp, ForeignResponse, hostVars, FeedInv
<1>9. CASE GameDies
  BY <1>9 DEF GameDies, hostVars, FeedInv
<1>10. CASE UNCHANGED vars
  BY <1>10 DEF vars, FeedInv
<1>11. QED
  BY <1>1, <1>2, <1>3, <1>4, <1>5, <1>6, <1>7, <1>8, <1>9, <1>10 DEF Next, HostStep

LEMMA FeedInvHolds == Spec => [](ExchangeInv /\ FeedInv)
<1>1. Init => FeedInv
  BY DEF Init, FeedInv
<1>2. QED
  BY <1>1, ExchangeInit, ExchangeStep, FeedStep, PTL DEF Spec

\* The consumer never steps over bytes it could not read, whatever was torn,
\* relayed by an earlier cycle or left by an earlier process: FeedDiscipline needs
\* that a cycle's screenshot is new to the feed when its record is written.
THEOREM FeedDisciplineHolds == Spec => []FeedDiscipline
<1>1. ExchangeInv /\ FeedInv => FeedDiscipline
  BY DEF ExchangeInv, RecordsAreRequested, IsRequested, FeedInv, FeedDiscipline
<1>2. QED
  BY <1>1, FeedInvHolds, PTL

\* A host that lags behind the feed returns nothing: what it returns is the last
\* line of the feed, which the same cycle relayed.
THEOREM ReturnsTheLastRecordHolds == Spec => ReturnsTheLastRecord
<1>1. ASSUME ExchangeInv, FeedInv, [Next]_vars, returned' # returned
      PROVE  offset = Len(feed) /\ cycle \in relays
  <2>1. Return /\ Accepted
    BY <1>1 DEF Next, HostStep, Capture, Bind, Publish, Await, Relay, Consume, Return, Abort,
                HostDies, OtherEvidence, PluginAnswers, PluginGivesUp, ForeignResponse,
                GameDies, hostVars, gameVars, vars
  <2>2. at = "consumed" /\ taken.shot = evidence
    BY <2>1 DEF Return, Accepted
  <2>3. taken.shot = shot
    <3>1. PICK c \in Cycles : request[c] = taken.shot
      BY <1>1, <2>2 DEF ExchangeInv, RecordsAreRequested, IsRequested
    <3>2. request[c] <= shot /\ shot <= evidence /\ shot \in Nat /\ evidence \in Nat
      BY <1>1, <2>2, <3>1 DEF ExchangeInv, CycleTypes, RequestsGrow, RecordsAreRequested
    <3>3. QED
      BY <2>2, <3>1, <3>2
  <2>4. offset \in 1..Len(feed) /\ DOMAIN feed = 1..Len(feed)
    BY <1>1, <2>2 DEF ExchangeInv, CycleTypes, FeedInv
  <2>5. QED
    BY <1>1, <2>2, <2>3, <2>4 DEF FeedInv
<1>2. ExchangeInv /\ FeedInv /\ [Next]_vars =>
        [returned' # returned => offset = Len(feed) /\ cycle \in relays]_vars
  BY <1>1
<1>3. QED
  BY <1>2, FeedInvHolds, PTL DEF Spec, ReturnsTheLastRecord

\* Requests, responses and ended lines of the feed are final: no step of the host,
\* the plugin or another writer replaces one.
THEOREM FilesAreFinalHolds == Spec => FilesAreFinal
<1> DEFINE Final ==
      /\ \A c \in Cycles : /\ request[c] # 0 => request'[c] = request[c]
                           /\ response[c] # None => response'[c] = response[c]
      /\ Len(feed') >= Len(feed)
      /\ \A i \in DOMAIN feed : feed[i].ended => feed'[i] = feed[i]
<1>1. ASSUME ExchangeInv, [Next]_vars PROVE Final
  <2>1. \A c \in Cycles : request[c] # 0 => request'[c] = request[c]
    BY <1>1 DEF ExchangeInv, CycleTypes,
                Next, HostStep, Capture, Bind, Publish, Await, Relay, Consume, Return, Abort,
                HostDies, OtherEvidence, PluginAnswers, PluginGivesUp, ForeignResponse,
                GameDies, hostVars, gameVars, vars
  <2>2. \A c \in Cycles : response[c] # None => response'[c] = response[c]
    <3>1. CASE response' = response
      BY <3>1
    <3>2. ASSUME NEW d \in Cycles, NEW reply, response[d] = None,
                 response' = [response EXCEPT ![d] = reply]
          PROVE  \A c \in Cycles : response[c] # None => response'[c] = response[c]
      BY <1>1, <3>2 DEF ExchangeInv, CycleTypes
    <3>3. \/ response' = response
          \/ \E d \in Cycles : \E reply : /\ response[d] = None
                                           /\ response' = [response EXCEPT ![d] = reply]
      BY <1>1 DEF Next, HostStep, Capture, Bind, Publish, Await, Relay, Consume, Return, Abort,
                  HostDies, OtherEvidence, PluginAnswers, PluginGivesUp, ForeignResponse,
                  GameDies, CanPublish, hostVars, gameVars, vars
    <3>4. QED
      BY <3>1, <3>2, <3>3
  <2>3. /\ Len(feed') >= Len(feed)
        /\ \A i \in DOMAIN feed : feed[i].ended => feed'[i] = feed[i]
    <3>1. feed \in Seq(Line) /\ Len(feed) \in Nat /\ DOMAIN feed = 1..Len(feed)
      BY <1>1 DEF ExchangeInv, CycleTypes
    <3>2. CASE feed' = feed
      BY <3>1, <3>2
    <3>3. ASSUME NEW line \in Line, feed' = Write(line)
          PROVE  /\ Len(feed') >= Len(feed)
                 /\ \A i \in DOMAIN feed : feed[i].ended => feed'[i] = feed[i]
      <4> DEFINE n == Len(feed')
      <4>1. /\ n \in Nat /\ n >= Len(feed)
            /\ \A i \in 1..(n - 1) : feed'[i] = feed[i]
            /\ n = Len(feed) => ~feed[n].ended
        BY <3>1, <3>3, WriteTail
      <4> HIDE DEF n
      <4>2. ASSUME NEW i \in DOMAIN feed, feed[i].ended PROVE i \in 1..(n - 1)
        <5>1. i # n
          <6> SUFFICES ASSUME i = n PROVE FALSE
            OBVIOUS
          <6>1. n = Len(feed)
            <7>1. i \in 1..Len(feed) /\ Len(feed) \in Nat
              BY <3>1
            <7>2. n \in Nat /\ n >= Len(feed)
              BY <4>1
            <7>3. QED
              BY <7>1, <7>2
          <6>2. QED
            BY <4>1, <4>2, <6>1
        <5>2. n \in Nat /\ n >= Len(feed)
          BY <4>1
        <5>3. QED
          BY <3>1, <5>1, <5>2
      <4>3. QED
        BY <4>1, <4>2 DEF n
    <3>4. QED
      BY <1>1, <3>2, <3>3, RelayWrites, OnlyRelayWrites
  <2>4. QED
    BY <2>1, <2>2, <2>3
<1>2. ExchangeInv /\ [Next]_vars => [Final]_vars
  BY <1>1
<1>3. QED
  BY <1>2, ExchangeInit, ExchangeStep, PTL DEF Spec, FilesAreFinal

-----------------------------------------------------------------------------
\* Every response is to a published request and carries its screenshot.
AnswersEcho ==
  \A c \in Cycles : response[c] # None => request[c] # 0 /\ response[c].shot = request[c]

\* The names one life of the plugin attempted are as many as it counted.
AttemptsCounted ==
  /\ IsFiniteSet(attempted) /\ Cardinality(attempted) = attempts
  /\ attempts \in Nat /\ attempts <= MaxRequests

\* The plugin and other writers reply published requests only, with the
\* screenshot of the request, and one life of the plugin attempts at most
\* maxRequests names, each once.
THEOREM AnswersEchoRequestsHolds == Spec => []AnswersEchoRequests
<1>1. Init => AnswersEcho /\ AttemptsCounted
  BY BoundAssumption, FS_EmptySet DEF Init, AnswersEcho, AttemptsCounted
<1>2. ExchangeInv /\ AnswersEcho /\ [Next]_vars => AnswersEcho'
  <2> SUFFICES ASSUME ExchangeInv, AnswersEcho, [Next]_vars PROVE AnswersEcho'
    OBVIOUS
  <2>1. CASE Publish
    <3>1. /\ UNCHANGED response
          /\ \A c \in Cycles : request[c] # 0 => request'[c] = request[c]
      BY <2>1 DEF Publish, gameVars, ExchangeInv, CycleTypes
    <3>2. QED
      BY <3>1 DEF AnswersEcho
  <2>2. ASSUME NEW d \in Cycles, NEW reply, UNCHANGED request, request[d] # 0,
               reply.shot = request[d], response' = [response EXCEPT ![d] = reply]
        PROVE  AnswersEcho'
    BY <2>2 DEF AnswersEcho, ExchangeInv, CycleTypes
  <2>3. CASE UNCHANGED <<request, response>>
    BY <2>3 DEF AnswersEcho
  <2>4. \/ Publish
        \/ UNCHANGED <<request, response>>
        \/ \E d \in Cycles : \E reply :
              /\ UNCHANGED request /\ request[d] # 0 /\ reply.shot = request[d]
              /\ response' = [response EXCEPT ![d] = reply]
    <3>1. ASSUME NEW c \in Cycles, PluginAnswers(c) \/ ForeignResponse(c)
          PROVE  \E reply : /\ UNCHANGED request /\ request[c] # 0
                             /\ reply.shot = request[c]
                             /\ response' = [response EXCEPT ![c] = reply]
      BY <3>1 DEF PluginAnswers, ForeignResponse, Attempts, hostVars
    <3>2. ASSUME GameDies
          PROVE  \/ UNCHANGED <<request, response>>
                 \/ \E d \in Cycles : \E reply :
                      /\ UNCHANGED request /\ request[d] # 0 /\ reply.shot = request[d]
                      /\ response' = [response EXCEPT ![d] = reply]
      BY <3>2 DEF GameDies, hostVars
    <3>3. QED
      BY <3>1, <3>2 DEF Next, HostStep, Capture, Bind, Await, Relay, Consume, Return, Abort,
                        HostDies, OtherEvidence, PluginGivesUp, hostVars, gameVars, vars
  <2>5. QED
    BY <2>1, <2>2, <2>3, <2>4
<1>3. AttemptsCounted /\ [Next]_vars => AttemptsCounted'
  <2> SUFFICES ASSUME AttemptsCounted, [Next]_vars PROVE AttemptsCounted'
    OBVIOUS
  <2>1. ASSUME NEW c \in Cycles, Attempts(c) PROVE AttemptsCounted'
    <3>1. /\ c \notin attempted /\ attempts < MaxRequests
          /\ attempted' = attempted \cup {c} /\ attempts' = attempts + 1
      BY <2>1 DEF Attempts
    <3>2. IsFiniteSet(attempted') /\ Cardinality(attempted') = Cardinality(attempted) + 1
      BY <3>1, FS_AddElement DEF AttemptsCounted
    <3>3. QED
      BY <3>1, <3>2, BoundAssumption DEF AttemptsCounted
  <2>2. CASE attempted' = {} /\ attempts' = 0
    BY <2>2, BoundAssumption, FS_EmptySet DEF AttemptsCounted
  <2>3. CASE UNCHANGED <<attempted, attempts>>
    BY <2>3 DEF AttemptsCounted
  <2>4. QED
    BY <2>1, <2>2, <2>3 DEF Next, HostStep, Capture, Bind, Publish, Await, Relay, Consume, Return,
       Abort, HostDies, OtherEvidence, PluginAnswers, PluginGivesUp, ForeignResponse, GameDies,
       hostVars, gameVars, vars
<1>4. AnswersEcho /\ AttemptsCounted => AnswersEchoRequests
  BY DEF AnswersEcho, AttemptsCounted, AnswersEchoRequests
<1>5. QED
  BY <1>1, <1>2, <1>3, <1>4, ExchangeInit, ExchangeStep, PTL DEF Spec

-----------------------------------------------------------------------------
(* The controlled live run stays within its limits, heeds the stop file,     *)
(* and its report and the validator agree with what the game received.       *)

Smoke == INSTANCE LiveSmoke

Gate == {"gate_stop", "gate_budget", "send"}
Loop == {"head", "head_focus", "head_stop", "capture", "gate_focus", "tail"}
Ends == {"report", "returned", "raised"}
Points == {"refused"} \cup Loop \cup Gate \cup Ends

CounterSet == [actions : Nat, attempts : Nat, sent : Nat, forbidden : Nat, tasks : Nat,
               focusChecks : Nat, focusPasses : Nat, stopChecks : Nat, stopClears : Nat,
               exceeded : BOOLEAN]

\* A run that has not started has captured, counted and sent nothing.
Fresh ==
  /\ cfg = None /\ frames = <<>> /\ counts = Smoke!Zero /\ delivered = <<>>
  /\ blocked = None /\ stop = None /\ pre = {} /\ post = {}

TypeInv ==
  /\ pc \in Points
  /\ IF pc = "refused" THEN Fresh ELSE cfg \in Smoke!Configs /\ Smoke!Accepted(cfg)
  /\ frames \in Seq({"game", "other"}) /\ counts \in CounterSet /\ delivered \in Seq(Nat)
  /\ stop \in Smoke!StopReasons \cup {None} /\ blocked \in Smoke!Blocks \cup {None}
  /\ pc \in Loop \cup {"send"} => blocked = None
  /\ pc \in Loop \cup Gate => stop = None

\* The frames stay within their limit, and a run that stops for it has them all.
FrameInv ==
  pc # "refused" =>
    /\ Len(frames) <= cfg.frames
    /\ pc = "capture" => Len(frames) < cfg.frames
    /\ stop = "max_frames_reached" => blocked = None /\ Len(frames) = cfg.frames

\* Until an exception, every attempt is sent, refused or under way, and the
\* actions are the attempts or the intents.
AccountInv ==
  /\ counts.sent <= counts.attempts /\ counts.attempts <= counts.actions
  /\ pc \notin {"refused", "raised"} =>
       /\ Len(delivered) = counts.sent
       /\ counts.attempts = counts.sent + counts.forbidden + IF pc \in Gate THEN 1 ELSE 0
       /\ cfg.real = "disabled" => counts.attempts = 0 /\ pc \notin Gate \cup {"gate_focus"}
       /\ cfg.real # "disabled" => counts.actions = counts.attempts
       /\ ~cfg.log /\ ~cfg.dry => counts.actions = counts.attempts
       /\ counts.tasks = IF cfg.dry THEN counts.actions ELSE 0
       /\ (cfg.log \/ cfg.dry) /\ cfg.freq <= Len(frames) => counts.actions > 0

\* Where in the loop what has been checked still leaves room for one more.
LimitInv ==
  pc # "refused" =>
    /\ cfg.real = "disabled" => delivered = <<>>
    /\ cfg.real # "disabled" => Len(delivered) <= cfg.inputs
    /\ pc = "send" => counts.attempts <= cfg.inputs
    /\ cfg.actions > 0 =>
         /\ counts.actions <= cfg.actions
         /\ pc \in {"capture", "gate_focus"} => counts.actions < cfg.actions
    /\ Len(delivered) <= counts.focusPasses /\ Len(delivered) <= counts.stopClears
    /\ pc \in Gate /\ blocked = None => Len(delivered) < counts.focusPasses
    /\ pc \in {"gate_budget", "send"} /\ blocked = None => Len(delivered) < counts.stopClears

\* Nothing is late while the stop file is missing, and past the head's stop
\* check neither a frame nor an input has been since it appeared.
LateInv ==
  /\ late \in [inputs : 0..1, frames : 0..1]
  /\ pc = "refused" \/ ~stopFile => late = [inputs |-> 0, frames |-> 0]
  /\ pc = "capture" => late.frames = 0
  /\ pc \in {"capture", "gate_focus"} \cup Gate => late.inputs = 0

\* A tap is attempted after the first frame and only then.
TapInv ==
  (pc \notin {"refused", "raised"} /\ cfg.real = "single_directional_tap") =>
    /\ frames = <<>> => pre = {} /\ counts.attempts = 0
    /\ frames # <<>> =>
         /\ pre = {1}
         /\ counts.attempts = IF pc = "gate_focus" THEN 0 ELSE 1
         /\ pc \in Loop \ {"gate_focus"} => counts.sent = 1
    /\ pc \in Gate \cup {"gate_focus"} => Len(frames) = 1
    /\ post = IF counts.sent = 1 THEN 2..Len(frames) ELSE {}
    /\ counts.sent = 1 => delivered = <<1>>

ReportInv == report # None => pc = "returned" /\ report = Smoke!Draft /\ Smoke!Reportable(Smoke!Draft)

SmokeInv == TypeInv /\ FrameInv /\ AccountInv /\ LimitInv /\ LateInv /\ TapInv /\ ReportInv

-----------------------------------------------------------------------------
\* A step keeps the shapes.
LEMMA TypeStep ==
  ASSUME Smoke!LimitsAssumption, Smoke!NoneAssumption, TypeInv, [Smoke!Next]_(Smoke!vars) PROVE TypeInv'
<1> USE DEF Smoke!Goto, Smoke!Quiet, Smoke!runVars, Smoke!worldVars, Points, Loop, Gate, Ends
<1>1. CASE Smoke!Start
  BY <1>1 DEF Smoke!Start, TypeInv, Fresh, Smoke!StopReasons, Smoke!Blocks
<1>2. CASE Smoke!ReadClock
  BY <1>2 DEF Smoke!ReadClock, TypeInv
<1>3. CASE Smoke!ReadFocus
  BY <1>3 DEF Smoke!ReadFocus, TypeInv
<1>4. CASE Smoke!ReadStop
  <2>1. counts' \in CounterSet
    BY <1>4 DEF Smoke!ReadStop, TypeInv, CounterSet
  <2>2. /\ pc' \in Points /\ pc' # "refused" /\ pc # "refused" /\ cfg' = cfg
        /\ cfg \in Smoke!Configs /\ Smoke!Accepted(cfg)
    BY <1>4 DEF Smoke!ReadStop, TypeInv
  <2>3. frames' \in Seq({"game", "other"}) /\ delivered' \in Seq(Nat)
    BY <1>4 DEF Smoke!ReadStop, TypeInv
  <2>4. /\ stop' \in Smoke!StopReasons \cup {None} /\ blocked' \in Smoke!Blocks \cup {None}
        /\ pc' \in Loop \cup {"send"} => blocked' = None
        /\ pc' \in Loop \cup Gate => stop' = None
    BY <1>4 DEF Smoke!ReadStop, TypeInv, Smoke!StopReasons, Smoke!Blocks, Smoke!_pre_capture_stop_reason
  <2>5. QED
    BY <2>1, <2>2, <2>3, <2>4 DEF TypeInv
<1>5. CASE Smoke!Capture
  <2>1. counts' \in CounterSet
    <3>1. counts \in CounterSet
      BY DEF TypeInv
    <3>2. /\ counts.actions \in Nat
          /\ counts.tasks \in Nat
      BY <3>1 DEF CounterSet
    <3>3. /\ counts.actions + 0 \in Nat
          /\ counts.actions + 1 \in Nat
          /\ counts.tasks + 0 \in Nat
          /\ counts.tasks + 1 \in Nat
      BY <3>2
    <3>4. QED
      BY <1>5, <3>1, <3>3 DEF Smoke!Capture, CounterSet
  <2>2. /\ pc' \in Points /\ pc' # "refused" /\ pc # "refused" /\ cfg' = cfg
        /\ cfg \in Smoke!Configs /\ Smoke!Accepted(cfg)
    BY <1>5 DEF Smoke!Capture, TypeInv
  <2>3. frames' \in Seq({"game", "other"}) /\ delivered' \in Seq(Nat)
    BY <1>5 DEF Smoke!Capture, TypeInv
  <2>4. /\ stop' \in Smoke!StopReasons \cup {None} /\ blocked' \in Smoke!Blocks \cup {None}
        /\ pc' \in Loop \cup {"send"} => blocked' = None
        /\ pc' \in Loop \cup Gate => stop' = None
    BY <1>5 DEF Smoke!Capture, TypeInv, Smoke!StopReasons, Smoke!Blocks
  <2>5. QED
    BY <2>1, <2>2, <2>3, <2>4 DEF TypeInv
<1>6. CASE Smoke!CaptureFails
  BY <1>6 DEF Smoke!CaptureFails, TypeInv, Smoke!StopReasons
<1>7. CASE Smoke!GateFocus
  <2>1. counts' \in CounterSet
    <3>1. counts \in CounterSet
      BY DEF TypeInv
    <3>2. /\ counts.attempts \in Nat
          /\ counts.actions \in Nat
          /\ counts.focusChecks \in Nat
          /\ counts.focusPasses \in Nat
      BY <3>1 DEF CounterSet
    <3>3. /\ counts.attempts + 1 \in Nat
          /\ counts.actions + 1 \in Nat
          /\ counts.focusChecks + 1 \in Nat
          /\ counts.focusPasses + (IF focused THEN 1 ELSE 0) \in Nat
      BY <3>2
    <3>4. QED
      BY <1>7, <3>1, <3>3 DEF Smoke!GateFocus, CounterSet
  <2>2. /\ pc' \in Points /\ pc' # "refused" /\ pc # "refused" /\ cfg' = cfg
        /\ cfg \in Smoke!Configs /\ Smoke!Accepted(cfg)
    BY <1>7 DEF Smoke!GateFocus, TypeInv
  <2>3. frames' \in Seq({"game", "other"}) /\ delivered' \in Seq(Nat)
    BY <1>7 DEF Smoke!GateFocus, TypeInv
  <2>4. /\ stop' \in Smoke!StopReasons \cup {None} /\ blocked' \in Smoke!Blocks \cup {None}
        /\ pc' \in Loop \cup {"send"} => blocked' = None
        /\ pc' \in Loop \cup Gate => stop' = None
    BY <1>7 DEF Smoke!GateFocus, TypeInv, Smoke!StopReasons, Smoke!Blocks
  <2>5. QED
    BY <2>1, <2>2, <2>3, <2>4 DEF TypeInv
<1>8. CASE Smoke!GateStop
  <2>1. counts' \in CounterSet
    <3>1. counts \in CounterSet
      BY DEF TypeInv
    <3>2. /\ counts.stopChecks \in Nat
          /\ counts.stopClears \in Nat
      BY <3>1 DEF CounterSet
    <3>3. /\ counts.stopChecks + 1 \in Nat
          /\ counts.stopClears + (IF stopFile THEN 0 ELSE 1) \in Nat
      BY <3>2
    <3>4. QED
      BY <1>8, <3>1, <3>3 DEF Smoke!GateStop, CounterSet
  <2>2. /\ pc' \in Points /\ pc' # "refused" /\ pc # "refused" /\ cfg' = cfg
        /\ cfg \in Smoke!Configs /\ Smoke!Accepted(cfg)
    BY <1>8 DEF Smoke!GateStop, TypeInv
  <2>3. frames' \in Seq({"game", "other"}) /\ delivered' \in Seq(Nat)
    BY <1>8 DEF Smoke!GateStop, TypeInv
  <2>4. /\ stop' \in Smoke!StopReasons \cup {None} /\ blocked' \in Smoke!Blocks \cup {None}
        /\ pc' \in Loop \cup {"send"} => blocked' = None
        /\ pc' \in Loop \cup Gate => stop' = None
    BY <1>8 DEF Smoke!GateStop, TypeInv, Smoke!StopReasons, Smoke!Blocks
  <2>5. QED
    BY <2>1, <2>2, <2>3, <2>4 DEF TypeInv
<1>9. CASE Smoke!GateBudget
  <2>1. counts' \in CounterSet
    <3>1. counts \in CounterSet
      BY DEF TypeInv
    <3>2. /\ counts.forbidden \in Nat
      BY <3>1 DEF CounterSet
    <3>3. /\ counts.forbidden + 0 \in Nat
          /\ counts.forbidden + 1 \in Nat
      BY <3>2
    <3>4. QED
      BY <1>9, <3>1, <3>3 DEF Smoke!GateBudget, CounterSet
  <2>2. /\ pc' \in Points /\ pc' # "refused" /\ pc # "refused" /\ cfg' = cfg
        /\ cfg \in Smoke!Configs /\ Smoke!Accepted(cfg)
    BY <1>9 DEF Smoke!GateBudget, TypeInv
  <2>3. frames' \in Seq({"game", "other"}) /\ delivered' \in Seq(Nat)
    BY <1>9 DEF Smoke!GateBudget, TypeInv
  <2>4. /\ stop' \in Smoke!StopReasons \cup {None} /\ blocked' \in Smoke!Blocks \cup {None}
        /\ pc' \in Loop \cup {"send"} => blocked' = None
        /\ pc' \in Loop \cup Gate => stop' = None
    BY <1>9 DEF Smoke!GateBudget, TypeInv, Smoke!StopReasons, Smoke!Blocks
  <2>5. QED
    BY <2>1, <2>2, <2>3, <2>4 DEF TypeInv
<1>10. CASE Smoke!Send
  <2>1. counts' \in CounterSet
    <3>1. counts \in CounterSet
      BY DEF TypeInv
    <3>2. /\ counts.sent \in Nat
      BY <3>1 DEF CounterSet
    <3>3. /\ counts.sent + 1 \in Nat
      BY <3>2
    <3>4. QED
      BY <1>10, <3>1, <3>3 DEF Smoke!Send, CounterSet
  <2>2. /\ pc' \in Points /\ pc' # "refused" /\ pc # "refused" /\ cfg' = cfg
        /\ cfg \in Smoke!Configs /\ Smoke!Accepted(cfg)
    BY <1>10 DEF Smoke!Send, TypeInv
  <2>3. frames' \in Seq({"game", "other"}) /\ delivered' \in Seq(Nat)
    BY <1>10 DEF Smoke!Send, TypeInv
  <2>4. /\ stop' \in Smoke!StopReasons \cup {None} /\ blocked' \in Smoke!Blocks \cup {None}
        /\ pc' \in Loop \cup {"send"} => blocked' = None
        /\ pc' \in Loop \cup Gate => stop' = None
    BY <1>10 DEF Smoke!Send, TypeInv, Smoke!StopReasons, Smoke!Blocks
  <2>5. QED
    BY <2>1, <2>2, <2>3, <2>4 DEF TypeInv
<1>11. CASE Smoke!NotSent
  <2>1. counts' \in CounterSet
    <3>1. counts \in CounterSet
      BY DEF TypeInv
    <3>2. /\ counts.forbidden \in Nat
      BY <3>1 DEF CounterSet
    <3>3. /\ counts.forbidden + 1 \in Nat
      BY <3>2
    <3>4. QED
      BY <1>11, <3>1, <3>3 DEF Smoke!NotSent, CounterSet
  <2>2. /\ pc' \in Points /\ pc' # "refused" /\ pc # "refused" /\ cfg' = cfg
        /\ cfg \in Smoke!Configs /\ Smoke!Accepted(cfg)
    BY <1>11 DEF Smoke!NotSent, TypeInv
  <2>3. frames' \in Seq({"game", "other"}) /\ delivered' \in Seq(Nat)
    BY <1>11 DEF Smoke!NotSent, TypeInv
  <2>4. /\ stop' \in Smoke!StopReasons \cup {None} /\ blocked' \in Smoke!Blocks \cup {None}
        /\ pc' \in Loop \cup {"send"} => blocked' = None
        /\ pc' \in Loop \cup Gate => stop' = None
    BY <1>11 DEF Smoke!NotSent, TypeInv, Smoke!StopReasons, Smoke!Blocks
  <2>5. QED
    BY <2>1, <2>2, <2>3, <2>4 DEF TypeInv
<1>12. CASE Smoke!LoopTail
  BY <1>12 DEF Smoke!LoopTail, TypeInv, Smoke!StopReasons
<1>13. CASE Smoke!WriteReport
  BY <1>13 DEF Smoke!WriteReport, TypeInv
<1>14. CASE Smoke!Escape
  <2>1. counts' \in CounterSet
    BY <1>14 DEF Smoke!Escape, TypeInv, CounterSet
  <2>2. /\ pc' \in Points /\ pc' # "refused" /\ pc # "refused" /\ cfg' = cfg
        /\ cfg \in Smoke!Configs /\ Smoke!Accepted(cfg)
    BY <1>14 DEF Smoke!Escape, TypeInv
  <2>3. frames' \in Seq({"game", "other"}) /\ delivered' \in Seq(Nat)
    <3>1. frames \in Seq({"game", "other"}) /\ delivered \in Seq(Nat) /\ Len(frames) \in Nat
      BY DEF TypeInv
    <3>2. Append(delivered, Len(frames)) \in Seq(Nat)
      BY <3>1
    <3>3. QED
      BY <1>14, <3>1, <3>2 DEF Smoke!Escape
  <2>4. /\ stop' \in Smoke!StopReasons \cup {None} /\ blocked' \in Smoke!Blocks \cup {None}
        /\ pc' \in Loop \cup {"send"} => blocked' = None
        /\ pc' \in Loop \cup Gate => stop' = None
    BY <1>14 DEF Smoke!Escape, TypeInv, Smoke!StopReasons, Smoke!Blocks
  <2>5. QED
    BY <2>1, <2>2, <2>3, <2>4 DEF TypeInv
<1>15. CASE Smoke!World
  BY <1>15 DEF Smoke!World, TypeInv, Fresh
<1>16. CASE UNCHANGED Smoke!vars
  BY <1>16 DEF Smoke!vars, TypeInv, Fresh
<1>17. QED
  BY <1>1, <1>2, <1>3, <1>4, <1>5, <1>6, <1>7, <1>8, <1>9, <1>10, <1>11, <1>12, <1>13, <1>14, <1>15,
     <1>16 DEF Smoke!Next, Smoke!Runner

\* What the argument checks give every later step to rely on.
LEMMA ConfigFacts ==
  ASSUME Smoke!LimitsAssumption, TypeInv, pc # "refused"
  PROVE  /\ cfg.frames \in Nat \ {0} /\ cfg.freq \in Nat \ {0}
         /\ cfg.inputs \in Nat /\ cfg.actions \in Nat
         /\ cfg.real \in Smoke!Reals /\ cfg.log \in BOOLEAN /\ cfg.dry \in BOOLEAN
         /\ cfg.log => ~cfg.dry
         /\ cfg.real # "disabled" => ~cfg.log /\ ~cfg.dry
         /\ cfg.real = "single_directional_tap" => cfg.inputs = 1
         /\ cfg.real = "wait_only_noop" => cfg.inputs >= 1
<1>1. cfg \in Smoke!Configs /\ Smoke!Accepted(cfg)
  BY DEF TypeInv
<1>2. /\ cfg.real \in Smoke!Reals /\ cfg.log \in BOOLEAN /\ cfg.dry \in BOOLEAN
      /\ cfg.frames \in FrameLimits /\ cfg.freq \in Frequencies
      /\ cfg.inputs \in InputLimits /\ cfg.actions \in ActionLimits
  BY <1>1 DEF Smoke!Configs
<1>3. QED
  BY <1>1, <1>2 DEF Smoke!LimitsAssumption, Smoke!Accepted

\* The counters of a run are numbers.
LEMMA CounterFacts ==
  ASSUME TypeInv
  PROVE  /\ counts.actions \in Nat /\ counts.attempts \in Nat /\ counts.sent \in Nat
         /\ counts.forbidden \in Nat /\ counts.tasks \in Nat
         /\ counts.focusChecks \in Nat /\ counts.focusPasses \in Nat
         /\ counts.stopChecks \in Nat /\ counts.stopClears \in Nat
         /\ counts.exceeded \in BOOLEAN
         /\ Len(frames) \in Nat /\ Len(delivered) \in Nat
BY DEF TypeInv, CounterSet

\* Frames are only captured below their limit.
LEMMA FrameStep ==
  ASSUME Smoke!LimitsAssumption, Smoke!NoneAssumption, TypeInv, FrameInv, [Smoke!Next]_(Smoke!vars) PROVE FrameInv'
<1> USE DEF Smoke!Goto, Smoke!Quiet, Smoke!runVars, Smoke!worldVars, Points, Loop, Gate, Ends
<1>b. None # "max_frames_reached"
  BY DEF Smoke!NoneAssumption, Smoke!StopReasons
<1>a. pc # "refused" => cfg.frames \in Nat \ {0} /\ Len(frames) \in Nat
  BY ConfigFacts, CounterFacts
<1>1. CASE Smoke!Start
  <2>1. cfg' \in Smoke!Configs /\ cfg'.frames \in FrameLimits /\ cfg'.frames \in Nat
    BY <1>1 DEF Smoke!Start, Smoke!Configs, Smoke!LimitsAssumption
  <2>2. Len(frames') = 0 /\ pc' = "head" /\ stop' = None
    BY <1>1 DEF Smoke!Start, TypeInv, Fresh
  <2>3. QED
    BY <1>b, <2>1, <2>2 DEF FrameInv
<1>2. CASE Smoke!ReadClock
  BY <1>2, <1>a, <1>b DEF Smoke!ReadClock, FrameInv
<1>3. CASE Smoke!ReadFocus
  BY <1>3, <1>a, <1>b DEF Smoke!ReadFocus, FrameInv
<1>4. CASE Smoke!ReadStop
  <2>1. /\ frames' = frames /\ cfg' = cfg /\ pc # "refused" /\ blocked' = None
        /\ pc' \in {"capture", "report"}
        /\ stop' = Smoke!_pre_capture_stop_reason(stopFile)
        /\ pc' = "capture" => stop' = None
    BY <1>4 DEF Smoke!ReadStop, TypeInv
  <2>2. /\ stop' = "max_frames_reached" => Len(frames) >= cfg.frames
        /\ stop' = None => Len(frames) < cfg.frames
    BY <1>a, <2>1 DEF Smoke!NoneAssumption, Smoke!_pre_capture_stop_reason, Smoke!StopReasons
  <2>3. QED
    BY <1>a, <1>b, <2>1, <2>2 DEF FrameInv
<1>5. CASE Smoke!Capture
  <2>1. Len(frames') = Len(frames) + 1
    BY <1>5 DEF Smoke!Capture, TypeInv
  <2>2. QED
    BY <1>5, <1>a, <2>1 DEF Smoke!Capture, FrameInv, TypeInv
<1>6. CASE Smoke!CaptureFails
  BY <1>6, <1>a, <1>b DEF Smoke!CaptureFails, FrameInv, TypeInv
<1>7. CASE Smoke!GateFocus
  BY <1>7, <1>a, <1>b DEF Smoke!GateFocus, FrameInv, TypeInv
<1>8. CASE Smoke!GateStop
  BY <1>8, <1>a, <1>b DEF Smoke!GateStop, FrameInv, TypeInv
<1>9. CASE Smoke!GateBudget
  BY <1>9, <1>a, <1>b DEF Smoke!GateBudget, FrameInv, TypeInv
<1>10. CASE Smoke!Send
  BY <1>10, <1>a, <1>b DEF Smoke!Send, FrameInv, TypeInv
<1>11. CASE Smoke!NotSent
  BY <1>11, <1>a, <1>b DEF Smoke!NotSent, FrameInv, TypeInv
<1>12. CASE Smoke!LoopTail
  BY <1>12, <1>a, <1>b DEF Smoke!LoopTail, FrameInv, TypeInv
<1>13. CASE Smoke!WriteReport
  BY <1>13, <1>a, <1>b DEF Smoke!WriteReport, FrameInv
<1>14. CASE Smoke!Escape
  BY <1>14, <1>a, <1>b DEF Smoke!Escape, FrameInv
<1>15. CASE Smoke!World
  BY <1>15, <1>a, <1>b DEF Smoke!World, FrameInv
<1>16. CASE UNCHANGED Smoke!vars
  BY <1>16 DEF Smoke!vars, FrameInv
<1>17. QED
  BY <1>1, <1>2, <1>3, <1>4, <1>5, <1>6, <1>7, <1>8, <1>9, <1>10, <1>11, <1>12, <1>13, <1>14, <1>15,
     <1>16 DEF Smoke!Next, Smoke!Runner

\* A frame whose number is the frequency is due an intent.
LEMMA SelfDivides == \A n \in Nat \ {0} : n % n = 0
OBVIOUS

\* Every attempt is accounted for, and every due intent counts.
LEMMA AccountStep ==
  ASSUME Smoke!LimitsAssumption, Smoke!NoneAssumption, TypeInv, AccountInv, [Smoke!Next]_(Smoke!vars)
  PROVE  AccountInv'
<1> USE DEF Smoke!Goto, Smoke!Quiet, Smoke!runVars, Smoke!worldVars, Points, Loop, Gate, Ends
<1>a. counts \in CounterSet /\ frames \in Seq({"game", "other"}) /\ delivered \in Seq(Nat)
  BY DEF TypeInv
<1>b. /\ counts.actions \in Nat /\ counts.attempts \in Nat /\ counts.sent \in Nat
      /\ counts.forbidden \in Nat /\ counts.tasks \in Nat
      /\ Len(frames) \in Nat /\ Len(delivered) \in Nat
  BY CounterFacts
<1>c. pc # "refused" =>
        /\ cfg.freq \in Nat \ {0} /\ cfg.log \in BOOLEAN /\ cfg.dry \in BOOLEAN
        /\ cfg.real # "disabled" => ~cfg.log /\ ~cfg.dry
  BY ConfigFacts
<1>1. CASE Smoke!Start
  <2>1. /\ counts = Smoke!Zero /\ Len(delivered) = 0 /\ Len(frames) = 0
        /\ UNCHANGED <<counts, delivered, frames>> /\ pc' = "head" /\ cfg' \in Smoke!Configs
    BY <1>1 DEF Smoke!Start, TypeInv, Fresh
  <2>2. cfg'.freq \in Nat \ {0}
    BY <2>1 DEF Smoke!Configs, Smoke!LimitsAssumption
  <2>3. QED
    BY <2>1, <2>2 DEF AccountInv, Smoke!Zero
<1>2. CASE Smoke!ReadClock
  BY <1>2 DEF Smoke!ReadClock, AccountInv
<1>3. CASE Smoke!ReadFocus
  BY <1>3 DEF Smoke!ReadFocus, AccountInv
<1>4. CASE Smoke!ReadStop
  BY <1>4 DEF Smoke!ReadStop, AccountInv
<1>5. CASE Smoke!Capture
  <2> DEFINE intent == IF (cfg.log \/ cfg.dry) /\ Smoke!Every(Len(frames) + 1) THEN 1 ELSE 0
  <2>1. /\ counts'.actions = counts.actions + intent
        /\ counts'.tasks = counts.tasks + (IF cfg.dry THEN intent ELSE 0)
        /\ counts'.attempts = counts.attempts /\ counts'.sent = counts.sent
        /\ counts'.forbidden = counts.forbidden
    BY <1>5, <1>a DEF Smoke!Capture, CounterSet
  <2>2. /\ pc = "capture" /\ pc' \in {"gate_focus", "tail"} /\ UNCHANGED <<cfg, delivered>>
        /\ Len(frames') = Len(frames) + 1
        /\ pc' = "gate_focus" => cfg.real # "disabled"
    BY <1>5, <1>a DEF Smoke!Capture, Smoke!Attempts
  <2>3. cfg.freq = Len(frames) + 1 /\ (cfg.log \/ cfg.dry) => intent = 1
    BY <1>c, <2>2, SelfDivides DEF Smoke!Every
  <2>4. intent \in {0, 1} /\ (~cfg.log /\ ~cfg.dry => intent = 0)
    OBVIOUS
  <2> HIDE DEF intent
  <2>5. (cfg.log \/ cfg.dry) /\ cfg.freq <= Len(frames') => counts'.actions > 0
    <3>1. CASE cfg.freq <= Len(frames)
      BY <1>b, <1>c, <2>1, <2>2, <2>4, <3>1 DEF AccountInv
    <3>2. CASE cfg.freq = Len(frames) + 1
      BY <1>b, <2>1, <2>3, <3>2
    <3>3. QED
      BY <1>b, <1>c, <2>2, <3>1, <3>2
  <2>6. /\ counts'.sent <= counts'.attempts /\ counts'.attempts <= counts'.actions
        /\ Len(delivered') = counts'.sent
        /\ counts'.attempts = counts'.sent + counts'.forbidden
    <3>1. /\ counts.sent <= counts.attempts /\ counts.attempts <= counts.actions
          /\ Len(delivered) = counts.sent /\ counts.attempts = counts.sent + counts.forbidden
      BY <1>b, <2>2 DEF AccountInv
    <3>2. QED
      BY <1>b, <2>1, <2>2, <2>4, <3>1
  <2>7. /\ cfg.real = "disabled" => counts'.attempts = 0
        /\ cfg.real # "disabled" => counts'.actions = counts'.attempts
        /\ ~cfg.log /\ ~cfg.dry => counts'.actions = counts'.attempts
        /\ counts'.tasks = IF cfg.dry THEN counts'.actions ELSE 0
    BY <1>b, <1>c, <2>1, <2>2, <2>4 DEF AccountInv
  <2>8. counts'.sent + counts'.forbidden \in Nat
    BY <1>b, <2>1
  <2>9. QED
    BY <2>2, <2>8, <2>5, <2>6, <2>7 DEF AccountInv
<1>6. CASE Smoke!CaptureFails
  BY <1>6 DEF Smoke!CaptureFails, AccountInv
<1>7. CASE Smoke!GateFocus
  <2>1. /\ counts'.attempts = counts.attempts + 1
        /\ counts'.actions = counts.actions + 1
        /\ counts'.sent = counts.sent
        /\ counts'.forbidden = counts.forbidden
        /\ counts'.tasks = counts.tasks
    BY <1>7, <1>a DEF Smoke!GateFocus, CounterSet
  <2>2. /\ pc # "refused" /\ pc # "raised" /\ cfg' = cfg
        /\ pc = "gate_focus" /\ pc' = "gate_stop" /\ UNCHANGED <<frames, delivered>>
    BY <1>7 DEF Smoke!GateFocus
  <2>3. /\ cfg.real # "disabled" /\ ~cfg.log /\ ~cfg.dry
        /\ Len(delivered) = counts.sent /\ counts.tasks = 0
        /\ counts.actions = counts.attempts
        /\ counts.attempts = counts.sent + counts.forbidden
    BY <1>b, <1>c, <2>2 DEF AccountInv
  <2>4. /\ counts'.sent <= counts'.attempts /\ counts'.attempts <= counts'.actions
        /\ counts'.actions = counts'.attempts /\ counts'.tasks = 0
        /\ Len(delivered') = counts'.sent
        /\ counts'.attempts = counts'.sent + counts'.forbidden + IF pc' \in Gate THEN 1 ELSE 0
    BY <1>b, <2>1, <2>2, <2>3
  <2>5. QED
    BY <2>2, <2>3, <2>4 DEF AccountInv
<1>8. CASE Smoke!GateStop
  <2>1. /\ counts'.attempts = counts.attempts
        /\ counts'.actions = counts.actions
        /\ counts'.sent = counts.sent
        /\ counts'.forbidden = counts.forbidden
        /\ counts'.tasks = counts.tasks
    BY <1>8, <1>a DEF Smoke!GateStop, CounterSet
  <2>2. /\ pc # "refused" /\ pc # "raised" /\ cfg' = cfg
        /\ pc = "gate_stop" /\ pc' = "gate_budget" /\ UNCHANGED <<frames, delivered>>
    BY <1>8 DEF Smoke!GateStop
  <2>3. /\ cfg.real # "disabled" /\ ~cfg.log /\ ~cfg.dry
        /\ Len(delivered) = counts.sent /\ counts.tasks = 0
        /\ counts.actions = counts.attempts
        /\ counts.attempts = counts.sent + counts.forbidden + 1
    BY <1>b, <1>c, <2>2 DEF AccountInv
  <2>4. /\ counts'.sent <= counts'.attempts /\ counts'.attempts <= counts'.actions
        /\ counts'.actions = counts'.attempts /\ counts'.tasks = 0
        /\ Len(delivered') = counts'.sent
        /\ counts'.attempts = counts'.sent + counts'.forbidden + IF pc' \in Gate THEN 1 ELSE 0
    BY <1>b, <2>1, <2>2, <2>3
  <2>5. QED
    BY <2>2, <2>3, <2>4 DEF AccountInv
<1>9. CASE Smoke!GateBudget
  <2>1. /\ counts'.attempts = counts.attempts
        /\ counts'.actions = counts.actions
        /\ counts'.sent = counts.sent
        /\ counts'.tasks = counts.tasks
        /\ counts'.forbidden = counts.forbidden + (IF pc' = "send" THEN 0 ELSE 1)
    BY <1>9, <1>a DEF Smoke!GateBudget, CounterSet
  <2>2. /\ pc # "refused" /\ pc # "raised" /\ cfg' = cfg
        /\ pc = "gate_budget" /\ pc' \in {"send", "report"} /\ UNCHANGED <<frames, delivered>>
    BY <1>9 DEF Smoke!GateBudget
  <2>3. /\ cfg.real # "disabled" /\ ~cfg.log /\ ~cfg.dry
        /\ Len(delivered) = counts.sent /\ counts.tasks = 0
        /\ counts.actions = counts.attempts
        /\ counts.attempts = counts.sent + counts.forbidden + 1
    BY <1>b, <1>c, <2>2 DEF AccountInv
  <2>4. /\ counts'.sent <= counts'.attempts /\ counts'.attempts <= counts'.actions
        /\ counts'.actions = counts'.attempts /\ counts'.tasks = 0
        /\ Len(delivered') = counts'.sent
        /\ counts'.attempts = counts'.sent + counts'.forbidden + IF pc' \in Gate THEN 1 ELSE 0
    BY <1>b, <2>1, <2>2, <2>3
  <2>5. QED
    BY <2>2, <2>3, <2>4 DEF AccountInv
<1>10. CASE Smoke!Send
  <2>1. /\ counts'.attempts = counts.attempts
        /\ counts'.actions = counts.actions
        /\ counts'.forbidden = counts.forbidden
        /\ counts'.tasks = counts.tasks
        /\ counts'.sent = counts.sent + 1
        /\ Len(delivered') = Len(delivered) + 1
    BY <1>10, <1>a DEF Smoke!Send, CounterSet
  <2>2. /\ pc # "refused" /\ pc # "raised" /\ cfg' = cfg
        /\ pc = "send" /\ pc' = "tail" /\ UNCHANGED frames
    BY <1>10 DEF Smoke!Send
  <2>3. /\ cfg.real # "disabled" /\ ~cfg.log /\ ~cfg.dry
        /\ Len(delivered) = counts.sent /\ counts.tasks = 0
        /\ counts.actions = counts.attempts
        /\ counts.attempts = counts.sent + counts.forbidden + 1
    BY <1>b, <1>c, <2>2 DEF AccountInv
  <2>4. /\ counts'.sent <= counts'.attempts /\ counts'.attempts <= counts'.actions
        /\ counts'.actions = counts'.attempts /\ counts'.tasks = 0
        /\ Len(delivered') = counts'.sent
        /\ counts'.attempts = counts'.sent + counts'.forbidden + IF pc' \in Gate THEN 1 ELSE 0
    BY <1>b, <2>1, <2>2, <2>3
  <2>5. QED
    BY <2>2, <2>3, <2>4 DEF AccountInv
<1>11. CASE Smoke!NotSent
  <2>1. /\ counts'.attempts = counts.attempts
        /\ counts'.actions = counts.actions
        /\ counts'.sent = counts.sent
        /\ counts'.tasks = counts.tasks
        /\ counts'.forbidden = counts.forbidden + 1
    BY <1>11, <1>a DEF Smoke!NotSent, CounterSet
  <2>2. /\ pc # "refused" /\ pc # "raised" /\ cfg' = cfg
        /\ pc = "send" /\ pc' = "report" /\ UNCHANGED <<frames, delivered>>
    BY <1>11 DEF Smoke!NotSent
  <2>3. /\ cfg.real # "disabled" /\ ~cfg.log /\ ~cfg.dry
        /\ Len(delivered) = counts.sent /\ counts.tasks = 0
        /\ counts.actions = counts.attempts
        /\ counts.attempts = counts.sent + counts.forbidden + 1
    BY <1>b, <1>c, <2>2 DEF AccountInv
  <2>4. /\ counts'.sent <= counts'.attempts /\ counts'.attempts <= counts'.actions
        /\ counts'.actions = counts'.attempts /\ counts'.tasks = 0
        /\ Len(delivered') = counts'.sent
        /\ counts'.attempts = counts'.sent + counts'.forbidden + IF pc' \in Gate THEN 1 ELSE 0
    BY <1>b, <2>1, <2>2, <2>3
  <2>5. QED
    BY <2>2, <2>3, <2>4 DEF AccountInv
<1>12. CASE Smoke!LoopTail
  BY <1>12 DEF Smoke!LoopTail, AccountInv
<1>13. CASE Smoke!WriteReport
  BY <1>13 DEF Smoke!WriteReport, AccountInv
<1>14. CASE Smoke!Escape
  BY <1>14 DEF Smoke!Escape, AccountInv
<1>15. CASE Smoke!World
  BY <1>15 DEF Smoke!World, AccountInv
<1>16. CASE UNCHANGED Smoke!vars
  BY <1>16 DEF Smoke!vars, AccountInv
<1>17. QED
  BY <1>1, <1>2, <1>3, <1>4, <1>5, <1>6, <1>7, <1>8, <1>9, <1>10, <1>11, <1>12, <1>13, <1>14, <1>15,
     <1>16 DEF Smoke!Next, Smoke!Runner

\* No guard of the loop lets more through than is left.
LEMMA LimitStep ==
  ASSUME Smoke!LimitsAssumption, Smoke!NoneAssumption, TypeInv, AccountInv, LimitInv, [Smoke!Next]_(Smoke!vars)
  PROVE  LimitInv'
<1> USE DEF Smoke!Goto, Smoke!Quiet, Smoke!runVars, Smoke!worldVars, Points, Loop, Gate, Ends
<1>a. counts \in CounterSet /\ delivered \in Seq(Nat)
  BY DEF TypeInv
<1>b. /\ counts.actions \in Nat /\ counts.attempts \in Nat /\ counts.sent \in Nat
      /\ counts.focusPasses \in Nat /\ counts.stopClears \in Nat
      /\ Len(delivered) \in Nat
  BY CounterFacts
<1>c. /\ pc # "refused" =>
           /\ cfg.inputs \in Nat /\ cfg.actions \in Nat /\ cfg.log \in BOOLEAN /\ cfg.dry \in BOOLEAN
           /\ cfg.real # "disabled" => ~cfg.log /\ ~cfg.dry
  BY ConfigFacts
<1>d. pc \in Loop \cup {"send"} => blocked = None
  BY DEF TypeInv
<1>e. pc \in Gate \cup {"gate_focus"} => /\ cfg.real # "disabled"
                                         /\ Len(delivered) = counts.sent
                                         /\ counts.sent <= counts.attempts
                                         /\ pc \in Gate => counts.sent + 1 <= counts.attempts
  BY <1>b, CounterFacts DEF AccountInv
<1>1. CASE Smoke!Start
  <2>1. /\ counts' = Smoke!Zero /\ delivered' = <<>> /\ pc' = "head" /\ cfg' \in Smoke!Configs
    BY <1>1 DEF Smoke!Start, TypeInv, Fresh
  <2>2. cfg'.inputs \in Nat /\ cfg'.actions \in Nat
    BY <2>1 DEF Smoke!Configs, Smoke!LimitsAssumption
  <2>3. QED
    BY <2>1, <2>2 DEF LimitInv, Smoke!Zero
<1>2. CASE Smoke!ReadClock
  BY <1>2 DEF Smoke!ReadClock, LimitInv
<1>3. CASE Smoke!ReadFocus
  BY <1>3 DEF Smoke!ReadFocus, LimitInv
<1>4. CASE Smoke!ReadStop
  <2>1. /\ UNCHANGED <<cfg, counts, delivered>> /\ pc = "head_stop" /\ pc' \in {"capture", "report"}
        /\ stop' = Smoke!_pre_capture_stop_reason(stopFile)
        /\ pc' = "capture" => stop' = None
    BY <1>4 DEF Smoke!ReadStop
  <2>2. stop' = None => ~(cfg.actions > 0 /\ counts.actions >= cfg.actions)
    BY <2>1 DEF Smoke!NoneAssumption, Smoke!StopReasons, Smoke!_pre_capture_stop_reason
  <2>3. QED
    BY <1>b, <1>c, <2>1, <2>2 DEF LimitInv
<1>5. CASE Smoke!Capture
  <2>1. /\ counts'.focusPasses = counts.focusPasses /\ counts'.stopClears = counts.stopClears
        /\ counts'.actions \in {counts.actions, counts.actions + 1}
        /\ counts'.actions = counts.actions \/ cfg.log \/ cfg.dry
    BY <1>5, <1>a, <1>b DEF Smoke!Capture, CounterSet
  <2>2. /\ pc = "capture" /\ pc' \in {"gate_focus", "tail"} /\ UNCHANGED <<cfg, delivered>>
        /\ pc' = "gate_focus" => cfg.real # "disabled"
    BY <1>5 DEF Smoke!Capture, Smoke!Attempts
  <2>3. QED
    BY <1>b, <1>c, <2>1, <2>2 DEF LimitInv
<1>6. CASE Smoke!CaptureFails
  BY <1>6 DEF Smoke!CaptureFails, LimitInv
<1>7. CASE Smoke!GateFocus
  <2>1. /\ counts'.stopClears = counts.stopClears
        /\ counts'.actions = counts.actions + 1
        /\ counts'.focusPasses = counts.focusPasses + (IF focused THEN 1 ELSE 0)
    BY <1>7, <1>a DEF Smoke!GateFocus, CounterSet, Smoke!NoneAssumption, Smoke!Blocks
  <2>2. /\ pc # "refused" /\ UNCHANGED cfg
        /\ pc = "gate_focus"
        /\ pc' = "gate_stop"
        /\ UNCHANGED delivered
        /\ blocked' = None => focused
    BY <1>7, <1>a DEF Smoke!GateFocus, Smoke!NoneAssumption, Smoke!Blocks
  <2>3. QED
    BY <1>b, <1>c, <1>d, <1>e, <2>1, <2>2 DEF LimitInv
<1>8. CASE Smoke!GateStop
  <2>1. /\ counts'.actions = counts.actions
        /\ counts'.focusPasses = counts.focusPasses
        /\ counts'.stopClears = counts.stopClears + (IF stopFile THEN 0 ELSE 1)
    BY <1>8, <1>a DEF Smoke!GateStop, CounterSet, Smoke!NoneAssumption, Smoke!Blocks
  <2>2. /\ pc # "refused" /\ UNCHANGED cfg
        /\ pc = "gate_stop"
        /\ pc' = "gate_budget"
        /\ UNCHANGED delivered
        /\ blocked' = None => ~stopFile /\ blocked = None
    BY <1>8, <1>a DEF Smoke!GateStop, Smoke!NoneAssumption, Smoke!Blocks
  <2>3. QED
    BY <1>b, <1>c, <1>d, <1>e, <2>1, <2>2 DEF LimitInv
<1>9. CASE Smoke!GateBudget
  <2>1. /\ counts'.actions = counts.actions
        /\ counts'.attempts = counts.attempts
        /\ counts'.focusPasses = counts.focusPasses
        /\ counts'.stopClears = counts.stopClears
    BY <1>9, <1>a DEF Smoke!GateBudget, CounterSet, Smoke!OverBudget, Smoke!NoneAssumption, Smoke!Blocks
  <2>2. /\ pc # "refused" /\ UNCHANGED cfg
        /\ pc = "gate_budget"
        /\ pc' \in {"send", "report"}
        /\ UNCHANGED delivered
        /\ pc' = "send" => blocked = None /\ ~(counts.attempts > cfg.inputs)
    BY <1>9, <1>a DEF Smoke!GateBudget, Smoke!OverBudget, Smoke!NoneAssumption, Smoke!Blocks
  <2>3. QED
    BY <1>b, <1>c, <1>d, <1>e, <2>1, <2>2 DEF LimitInv
<1>10. CASE Smoke!Send
  <2>1. /\ counts'.actions = counts.actions
        /\ counts'.attempts = counts.attempts
        /\ counts'.focusPasses = counts.focusPasses
        /\ counts'.stopClears = counts.stopClears
        /\ Len(delivered') = Len(delivered) + 1
    BY <1>10, <1>a DEF Smoke!Send, CounterSet
  <2>2. /\ pc # "refused" /\ UNCHANGED cfg
        /\ pc = "send"
        /\ pc' = "tail"
    BY <1>10, <1>a DEF Smoke!Send
  <2>3. QED
    BY <1>b, <1>c, <1>d, <1>e, <2>1, <2>2 DEF LimitInv
<1>11. CASE Smoke!NotSent
  <2>1. /\ counts'.actions = counts.actions
        /\ counts'.attempts = counts.attempts
        /\ counts'.focusPasses = counts.focusPasses
        /\ counts'.stopClears = counts.stopClears
    BY <1>11, <1>a DEF Smoke!NotSent, CounterSet
  <2>2. /\ pc # "refused" /\ UNCHANGED cfg
        /\ pc = "send"
        /\ pc' = "report"
        /\ UNCHANGED delivered
    BY <1>11, <1>a DEF Smoke!NotSent
  <2>3. QED
    BY <1>b, <1>c, <1>d, <1>e, <2>1, <2>2 DEF LimitInv
<1>12. CASE Smoke!LoopTail
  BY <1>12 DEF Smoke!LoopTail, LimitInv
<1>13. CASE Smoke!WriteReport
  BY <1>13 DEF Smoke!WriteReport, LimitInv
<1>14. CASE Smoke!Escape
  <2>1. /\ UNCHANGED <<cfg, counts, blocked>> /\ pc' = "raised" /\ pc # "refused"
        /\ \/ UNCHANGED delivered
           \/ pc = "send" /\ Len(delivered') = Len(delivered) + 1
    BY <1>14, <1>a DEF Smoke!Escape
  <2>2. QED
    BY <1>b, <1>c, <1>d, <1>e, <2>1 DEF LimitInv
<1>15. CASE Smoke!World
  BY <1>15 DEF Smoke!World, LimitInv
<1>16. CASE UNCHANGED Smoke!vars
  BY <1>16 DEF Smoke!vars, LimitInv
<1>17. QED
  BY <1>1, <1>2, <1>3, <1>4, <1>5, <1>6, <1>7, <1>8, <1>9, <1>10, <1>11, <1>12, <1>13, <1>14, <1>15,
     <1>16 DEF Smoke!Next, Smoke!Runner

\* From the head's stop check to the send there is one frame and one input.
LEMMA LateStep ==
  ASSUME Smoke!NoneAssumption, TypeInv, LateInv, [Smoke!Next]_(Smoke!vars) PROVE LateInv'
<1> USE DEF Smoke!Goto, Smoke!Quiet, Smoke!runVars, Smoke!worldVars, Points, Loop, Gate, Ends
<1>a. late \in [inputs : 0..1, frames : 0..1] /\ pc \in Points
  BY DEF LateInv, TypeInv
<1>1. CASE Smoke!Start
  BY <1>1 DEF Smoke!Start, LateInv
<1>2. CASE Smoke!ReadClock
  BY <1>2 DEF Smoke!ReadClock, LateInv
<1>3. CASE Smoke!ReadFocus
  BY <1>3 DEF Smoke!ReadFocus, LateInv
<1>4. CASE Smoke!ReadStop
  <2>1. /\ pc = "head_stop" /\ pc' \in {"capture", "report"} /\ UNCHANGED <<late, stopFile>>
        /\ pc' = "capture" => Smoke!_pre_capture_stop_reason(stopFile) = None
    BY <1>4 DEF Smoke!ReadStop
  <2>2. pc' = "capture" => ~stopFile
    BY <2>1 DEF Smoke!NoneAssumption, Smoke!StopReasons, Smoke!_pre_capture_stop_reason
  <2>3. QED
    BY <2>1, <2>2 DEF LateInv
<1>5. CASE Smoke!Capture
  <2>1. /\ pc = "capture" /\ pc' \in {"gate_focus", "tail"} /\ UNCHANGED stopFile
        /\ late' = IF stopFile THEN [late EXCEPT !.frames = @ + 1] ELSE late
    BY <1>5 DEF Smoke!Capture
  <2>2. late.frames = 0 /\ late.inputs = 0
    BY <2>1 DEF LateInv
  <2>3. late = [inputs |-> 0, frames |-> 0]
    BY <1>a, <2>2
  <2>4. [late EXCEPT !.frames = @ + 1] = [inputs |-> 0, frames |-> 1]
    BY <2>3
  <2>5. /\ late' \in [inputs : 0..1, frames : 0..1] /\ late'.inputs = 0
        /\ ~stopFile => late' = late
    BY <2>1, <2>3, <2>4
  <2>6. QED
    BY <2>1, <2>3, <2>5 DEF LateInv
<1>6. CASE Smoke!CaptureFails
  BY <1>6 DEF Smoke!CaptureFails, LateInv
<1>7. CASE Smoke!GateFocus
  BY <1>7 DEF Smoke!GateFocus, LateInv
<1>8. CASE Smoke!GateStop
  BY <1>8 DEF Smoke!GateStop, LateInv
<1>9. CASE Smoke!GateBudget
  BY <1>9 DEF Smoke!GateBudget, LateInv
<1>10. CASE Smoke!Send
  <2>1. /\ pc = "send" /\ pc' = "tail" /\ UNCHANGED stopFile
        /\ late' = IF stopFile THEN [late EXCEPT !.inputs = @ + 1] ELSE late
    BY <1>10 DEF Smoke!Send
  <2>2. late.inputs = 0
    BY <2>1 DEF LateInv
  <2>3. [late EXCEPT !.inputs = @ + 1] \in [inputs : 0..1, frames : 0..1]
    BY <1>a, <2>2
  <2>4. QED
    BY <1>a, <2>1, <2>3 DEF LateInv
<1>11. CASE Smoke!NotSent
  BY <1>11 DEF Smoke!NotSent, LateInv
<1>12. CASE Smoke!LoopTail
  BY <1>12 DEF Smoke!LoopTail, LateInv
<1>13. CASE Smoke!WriteReport
  BY <1>13 DEF Smoke!WriteReport, LateInv
<1>14. CASE Smoke!Escape
  BY <1>14 DEF Smoke!Escape, LateInv
<1>15. CASE Smoke!World
  BY <1>15 DEF Smoke!World, LateInv, Smoke!Tick, Smoke!Blur, Smoke!TouchStop, Smoke!Running
<1>16. CASE UNCHANGED Smoke!vars
  BY <1>16 DEF Smoke!vars, LateInv
<1>17. QED
  BY <1>1, <1>2, <1>3, <1>4, <1>5, <1>6, <1>7, <1>8, <1>9, <1>10, <1>11, <1>12, <1>13, <1>14, <1>15,
     <1>16 DEF Smoke!Next, Smoke!Runner

\* A tap has one frame before it and every other frame after it.
LEMMA TapStep ==
  ASSUME Smoke!LimitsAssumption, Smoke!NoneAssumption, TypeInv, AccountInv, TapInv, [Smoke!Next]_(Smoke!vars)
  PROVE  TapInv'
<1> USE DEF Smoke!Goto, Smoke!Quiet, Smoke!runVars, Smoke!worldVars, Points, Loop, Gate, Ends
<1>a. counts \in CounterSet /\ frames \in Seq({"game", "other"}) /\ delivered \in Seq(Nat)
  BY DEF TypeInv
<1>b. /\ counts.attempts \in Nat /\ counts.sent \in Nat /\ counts.forbidden \in Nat
      /\ Len(frames) \in Nat /\ Len(delivered) \in Nat
  BY CounterFacts
<1>c. frames = <<>> <=> Len(frames) = 0
  BY <1>a
<1>1. CASE Smoke!Start
  <2>1. /\ counts' = Smoke!Zero /\ frames' = <<>> /\ pre' = {} /\ post' = {} /\ pc' = "head"
    BY <1>1 DEF Smoke!Start, TypeInv, Fresh
  <2>2. QED
    BY <2>1 DEF TapInv, Smoke!Zero
<1>2. CASE Smoke!ReadClock
  BY <1>2, <1>b, <1>c DEF Smoke!ReadClock, TapInv
<1>3. CASE Smoke!ReadFocus
  BY <1>3, <1>b, <1>c DEF Smoke!ReadFocus, TapInv
<1>4. CASE Smoke!ReadStop
  BY <1>4, <1>b, <1>c DEF Smoke!ReadStop, TapInv
<1>5. CASE Smoke!Capture
  <2> DEFINE n == Len(frames) + 1
  <2> SUFFICES ASSUME cfg.real = "single_directional_tap" PROVE TapInv'
    BY <1>5 DEF Smoke!Capture, TapInv
  <2>1. /\ counts'.attempts = counts.attempts /\ counts'.sent = counts.sent
        /\ frames' # <<>> /\ Len(frames') = n /\ UNCHANGED <<cfg, delivered>>
        /\ pc = "capture"
        /\ pre' = IF counts.attempts = 0 THEN pre \cup {n} ELSE pre
        /\ post' = IF counts.sent = 1 THEN post \cup {n} ELSE post
        /\ pc' = IF n = 1 /\ counts.attempts = 0 THEN "gate_focus" ELSE "tail"
    BY <1>5, <1>a DEF Smoke!Capture, CounterSet, Smoke!Attempts
  <2>2. CASE Len(frames) = 0
    <3>1. pre = {} /\ counts.attempts = 0 /\ counts.sent = 0 /\ post = {}
      BY <1>b, <1>c, <2>1, <2>2 DEF TapInv, AccountInv
    <3>2. QED
      BY <2>1, <2>2, <3>1 DEF TapInv
  <2>3. CASE Len(frames) > 0
    <3>1. /\ pre = {1} /\ counts.attempts = 1 /\ counts.sent = 1 /\ post = 2..Len(frames)
          /\ delivered = <<1>>
      BY <1>b, <1>c, <2>1, <2>3 DEF TapInv
    <3>2. post' = 2..n
      BY <1>b, <2>1, <2>3, <3>1
    <3>3. QED
      BY <1>b, <2>1, <2>3, <3>1, <3>2 DEF TapInv
  <2>4. QED
    BY <1>b, <2>2, <2>3
<1>6. CASE Smoke!CaptureFails
  BY <1>6, <1>b, <1>c DEF Smoke!CaptureFails, TapInv
<1>7. CASE Smoke!GateFocus
  <2> SUFFICES ASSUME cfg.real = "single_directional_tap" PROVE TapInv'
    BY <1>7 DEF Smoke!GateFocus, TapInv
  <2>1. counts'.attempts = counts.attempts + 1 /\ counts'.sent = counts.sent
    BY <1>7, <1>a DEF Smoke!GateFocus, CounterSet
  <2>2. /\ UNCHANGED <<cfg, pre, post, frames, delivered>>
        /\ pc = "gate_focus" /\ pc' = "gate_stop"
    BY <1>7 DEF Smoke!GateFocus
  <2>3. pre = {1} /\ counts.attempts = 0 /\ Len(frames) = 1 /\ frames # <<>>
    <3>1. pc \notin {"refused", "raised"} /\ pc \in Gate \cup {"gate_focus"}
      BY <2>2
    <3>2. Len(frames) = 1
      BY <3>1 DEF TapInv
    <3>3. frames # <<>>
      BY <3>2, <1>c
    <3>4. pre = {1} /\ counts.attempts = 0
      BY <2>2, <3>1, <3>3 DEF TapInv
    <3>5. QED
      BY <3>2, <3>3, <3>4
  <2>4. frames # <<>> /\ pre' = {1} /\ counts'.attempts = 1 /\ Len(frames') = 1
    <3>1. pre' = pre /\ frames' = frames
      BY <2>2
    <3>2. counts'.attempts = 1
      BY <2>1, <2>3
    <3>3. QED
      BY <2>3, <3>1, <3>2
  <2>5. QED
    BY <2>1, <2>2, <2>4 DEF TapInv
<1>8. CASE Smoke!GateStop
  <2>1. /\ counts'.attempts = counts.attempts
        /\ counts'.sent = counts.sent
    BY <1>8, <1>a DEF Smoke!GateStop, CounterSet
  <2>2. /\ pc \notin {"refused", "raised"} /\ UNCHANGED <<cfg, pre, post, frames>>
        /\ pc = "gate_stop"
        /\ pc' = "gate_budget"
        /\ UNCHANGED delivered
    BY <1>8 DEF Smoke!GateStop
  <2>9. QED
    BY <1>b, <1>c, <2>1, <2>2 DEF TapInv
<1>9. CASE Smoke!GateBudget
  <2>1. /\ counts'.attempts = counts.attempts
        /\ counts'.sent = counts.sent
    BY <1>9, <1>a DEF Smoke!GateBudget, CounterSet
  <2>2. /\ pc \notin {"refused", "raised"} /\ UNCHANGED <<cfg, pre, post, frames>>
        /\ pc = "gate_budget"
        /\ pc' \in {"send", "report"}
        /\ UNCHANGED delivered
    BY <1>9 DEF Smoke!GateBudget
  <2>9. QED
    BY <1>b, <1>c, <2>1, <2>2 DEF TapInv
<1>10. CASE Smoke!Send
  <2> SUFFICES ASSUME cfg.real = "single_directional_tap" PROVE TapInv'
    BY <1>10 DEF Smoke!Send, TapInv
  <2>0. pc = "send" /\ pc' = "tail" /\ UNCHANGED <<cfg, pre, post, frames>>
    BY <1>10 DEF Smoke!Send
  <2>1. /\ counts'.attempts = counts.attempts /\ counts'.sent = counts.sent + 1
        /\ delivered' = Append(delivered, Len(frames))
    BY <1>10, <1>a DEF Smoke!Send, CounterSet
  <2>2. Len(delivered) = counts.sent /\ counts.attempts = counts.sent + counts.forbidden + 1
    BY <2>0 DEF AccountInv
  <2>a. Len(frames) = 1 /\ frames # <<>>
    BY <1>c, <2>0 DEF TapInv
  <2>3. pre = {1} /\ counts.attempts = 1
    BY <2>0, <2>a DEF TapInv
  <2>4. counts.sent = 0
    BY <1>b, <2>2, <2>3
  <2>5. post = {}
    BY <2>0, <2>4 DEF TapInv
  <2>6. delivered = <<>>
    BY <1>a, <2>2, <2>4
  <2>7. delivered' = <<1>>
    BY <2>1, <2>a, <2>6
  <2>8. counts'.sent = 1 /\ counts'.attempts = 1 /\ pre' = {1} /\ frames' # <<>>
    BY <2>0, <2>1, <2>a, <2>3, <2>4
  <2>9. post' = 2..Len(frames')
    BY <2>0, <2>a, <2>5
  <2>10. QED
    BY <2>0, <2>7, <2>8, <2>9 DEF TapInv
<1>11. CASE Smoke!NotSent
  <2>1. /\ counts'.attempts = counts.attempts
        /\ counts'.sent = counts.sent
    BY <1>11, <1>a DEF Smoke!NotSent, CounterSet
  <2>2. /\ pc \notin {"refused", "raised"} /\ UNCHANGED <<cfg, pre, post, frames>>
        /\ pc = "send"
        /\ pc' = "report"
        /\ UNCHANGED delivered
    BY <1>11 DEF Smoke!NotSent
  <2>9. QED
    BY <1>b, <1>c, <2>1, <2>2 DEF TapInv
<1>12. CASE Smoke!LoopTail
  BY <1>12, <1>b, <1>c DEF Smoke!LoopTail, TapInv
<1>13. CASE Smoke!WriteReport
  BY <1>13, <1>b, <1>c DEF Smoke!WriteReport, TapInv
<1>14. CASE Smoke!Escape
  BY <1>14, <1>b, <1>c DEF Smoke!Escape, TapInv
<1>15. CASE Smoke!World
  BY <1>15, <1>b, <1>c DEF Smoke!World, TapInv
<1>16. CASE UNCHANGED Smoke!vars
  BY <1>16 DEF Smoke!vars, TapInv
<1>17. QED
  BY <1>1, <1>2, <1>3, <1>4, <1>5, <1>6, <1>7, <1>8, <1>9, <1>10, <1>11, <1>12, <1>13, <1>14, <1>15,
     <1>16 DEF Smoke!Next, Smoke!Runner

\* The report is the draft it was made from, and nothing moves after it.
LEMMA ReportStep ==
  ASSUME ReportInv, [Smoke!Next]_(Smoke!vars) PROVE ReportInv'
<1>1. CASE Smoke!WriteReport
  <2>1. Smoke!Draft' = Smoke!Draft
    BY <1>1 DEF Smoke!WriteReport, Smoke!Draft, Smoke!runVars
  <2>2. CASE report' = report
    <3>1. report = None
      BY <1>1 DEF Smoke!WriteReport, ReportInv
    <3>2. QED
      BY <2>2, <3>1 DEF ReportInv
  <2>3. CASE report' = Smoke!Draft /\ pc' = "returned" /\ Smoke!Reportable(Smoke!Draft)
    BY <2>1, <2>3 DEF ReportInv
  <2>4. QED
    BY <1>1, <2>2, <2>3 DEF Smoke!WriteReport
<1>2. CASE Smoke!World \/ UNCHANGED Smoke!vars
  <2>1. Smoke!Draft' = Smoke!Draft /\ UNCHANGED <<pc, report>>
    BY <1>2 DEF Smoke!World, Smoke!vars, Smoke!runVars, Smoke!Draft
  <2>2. QED
    BY <2>1 DEF ReportInv
<1>3. CASE pc # "returned" /\ UNCHANGED report
  BY <1>3 DEF ReportInv
<1>4. QED
  BY <1>1, <1>2, <1>3
     DEF Smoke!Next, Smoke!Runner, Smoke!Start, Smoke!ReadClock, Smoke!ReadFocus, Smoke!ReadStop, Smoke!Capture,
         Smoke!CaptureFails, Smoke!GateFocus,
         Smoke!GateStop, Smoke!GateBudget, Smoke!Send, Smoke!NotSent, Smoke!LoopTail, Smoke!Escape, Smoke!Goto

\* A run begins with nothing counted, captured or reported.
LEMMA SmokeInit == Smoke!Init => SmokeInv
<1> SUFFICES ASSUME Smoke!Init PROVE SmokeInv
  OBVIOUS
<1>1. TypeInv
  <2>1. Smoke!Zero \in CounterSet
    BY DEF Smoke!Zero, CounterSet
  <2>2. QED
    BY <2>1 DEF Smoke!Init, TypeInv, Fresh, Points, Loop, Gate
<1>2. LateInv
  <2>1. [inputs |-> 0, frames |-> 0] \in [inputs : 0..1, frames : 0..1]
    OBVIOUS
  <2>2. QED
    BY <2>1 DEF Smoke!Init, LateInv, Gate
<1>3. FrameInv /\ AccountInv /\ LimitInv /\ TapInv /\ ReportInv
  BY DEF Smoke!Init, FrameInv, AccountInv, LimitInv, TapInv, ReportInv, Smoke!Zero
<1>4. QED
  BY <1>1, <1>2, <1>3 DEF SmokeInv

\* The invariant holds in every state of every behaviour.
LEMMA SmokeInvHolds ==
  ASSUME Smoke!LimitsAssumption, Smoke!NoneAssumption PROVE Smoke!Spec => []SmokeInv
<1>1. SmokeInv /\ [Smoke!Next]_(Smoke!vars) => SmokeInv'
  BY TypeStep, FrameStep, AccountStep, LimitStep, LateStep, TapStep, ReportStep DEF SmokeInv
<1>2. QED
  BY <1>1, SmokeInit, PTL DEF Smoke!Spec

-----------------------------------------------------------------------------
\* Type correctness: the run's arguments, counters, frames and reasons.
THEOREM LiveSmokeTypeCorrect ==
  ASSUME Smoke!LimitsAssumption, Smoke!NoneAssumption PROVE Smoke!Spec => []Smoke!TypeOK
<1>1. SmokeInv => Smoke!TypeOK
  <2> SUFFICES ASSUME SmokeInv PROVE Smoke!TypeOK
    OBVIOUS
  <2>1. TypeInv /\ AccountInv /\ FrameInv
    BY DEF SmokeInv
  <2>2. Len(frames) <= IF cfg = None THEN 0 ELSE cfg.frames
    <3>1. CASE pc = "refused"
      BY <2>1, <3>1 DEF TypeInv, Fresh
    <3>2. CASE pc # "refused"
      BY <2>1, <3>2 DEF TypeInv, FrameInv, Smoke!NoneAssumption
    <3>3. QED
      BY <3>1, <3>2
  <2>3. cfg \in Smoke!Configs \cup {None}
    BY <2>1 DEF TypeInv, Fresh
  <2>4. QED
    BY <2>1, <2>2, <2>3 DEF Smoke!TypeOK, TypeInv, AccountInv
<1>2. QED
  BY <1>1, SmokeInvHolds, PTL

\* No game receives more inputs than the run was allowed, nor one without a
\* focus check and a stop check before it, whatever the world does in between
\* and however the run ends.
THEOREM WithinLimitsHolds ==
  ASSUME Smoke!LimitsAssumption, Smoke!NoneAssumption PROVE Smoke!Spec => []Smoke!WithinLimits
<1>1. SmokeInv => Smoke!WithinLimits
  <2> SUFFICES ASSUME SmokeInv, cfg # None PROVE Smoke!WithinLimits
    BY DEF Smoke!WithinLimits
  <2>1. pc # "refused"
    BY DEF SmokeInv, TypeInv, Fresh
  <2>2. QED
    BY <2>1 DEF SmokeInv, LimitInv, Smoke!WithinLimits
<1>2. QED
  BY <1>1, SmokeInvHolds, PTL

\* A stop file that appears between a check and the send lets one input through
\* and one frame be captured, never a second of either.
THEOREM StopIsHeededHolds ==
  ASSUME Smoke!LimitsAssumption, Smoke!NoneAssumption PROVE Smoke!Spec => []Smoke!StopIsHeeded
<1>1. SmokeInv => Smoke!StopIsHeeded
  BY DEF SmokeInv, LateInv, Smoke!StopIsHeeded
<1>2. QED
  BY <1>1, SmokeInvHolds, PTL

\* What a report on disk is made of, as the run left it.
LEMMA Reported ==
  ASSUME SmokeInv, report # None
  PROVE  /\ pc = "returned" /\ Smoke!Reportable(report)
         /\ report.cfg = cfg /\ report.stop = stop /\ report.frames = frames
         /\ report.counts = counts /\ report.pre = pre /\ report.post = post
         /\ counts.sent = Len(delivered) /\ counts.forbidden = 0
<1>1. /\ pc = "returned" /\ report = Smoke!Draft /\ Smoke!Reportable(report)
  BY DEF SmokeInv, ReportInv
<1>2. /\ report.cfg = cfg /\ report.stop = stop /\ report.frames = frames
      /\ report.counts = counts /\ report.pre = pre /\ report.post = post
  BY <1>1 DEF Smoke!Draft
<1>3. /\ counts.sent = Len(delivered) /\ counts.attempts = counts.sent + counts.forbidden
      /\ cfg.real = "disabled" => counts.attempts = 0
  BY <1>1, CounterFacts DEF SmokeInv, AccountInv, Gate
<1>4. cfg.real \in Smoke!Reals
  BY <1>1 DEF SmokeInv, TypeInv, Smoke!Configs
<1>5. cfg.real # "disabled" => counts.forbidden = 0
  BY <1>1, <1>2, <1>4 DEF Smoke!Reportable, Smoke!Reals
<1>6. counts.forbidden = 0
  BY <1>3, <1>5, CounterFacts DEF SmokeInv
<1>7. QED
  BY <1>1, <1>2, <1>3, <1>6

\* A report on disk tells every input the game received, and of a tap the frame
\* before it and all those after it.
THEOREM ReportTellsTheInputsHolds ==
  ASSUME Smoke!LimitsAssumption, Smoke!NoneAssumption PROVE Smoke!Spec => []Smoke!ReportTellsTheInputs
<1>1. SmokeInv => Smoke!ReportTellsTheInputs
  <2> SUFFICES ASSUME SmokeInv, report # None,
                      cfg.real = "single_directional_tap"
               PROVE  /\ delivered = <<1>> /\ pre = {1}
                      /\ post = 2..Len(frames) /\ post # {}
    BY Reported DEF Smoke!ReportTellsTheInputs
  <2>1. counts.sent = 1 /\ pre # {} /\ post # {}
    BY Reported DEF Smoke!Reportable
  <2>2. frames # <<>>
    BY <2>1, Reported DEF SmokeInv, TapInv
  <2>3. QED
    BY <2>1, <2>2, Reported DEF SmokeInv, TapInv
<1>2. QED
  BY <1>1, SmokeInvHolds, PTL

\* A run whose report validates captured all its frames and was never blocked,
\* and of a tap shows one window before and after it.
THEOREM ValidatedRunsAreCleanHolds ==
  ASSUME Smoke!LimitsAssumption, Smoke!NoneAssumption PROVE Smoke!Spec => []Smoke!ValidatedRunsAreClean
<1>1. SmokeInv => Smoke!ValidatedRunsAreClean
  <2> SUFFICES ASSUME SmokeInv, report # None, Smoke!Validates(report)
               PROVE  /\ Len(frames) = cfg.frames /\ blocked = None
                      /\ cfg.real = "single_directional_tap" =>
                           \A i \in pre, j \in post : frames[i] = frames[j]
    BY Reported DEF Smoke!ValidatedRunsAreClean
  <2>1. stop = "max_frames_reached"
    BY Reported DEF Smoke!Validates
  <2>2. Len(frames) = cfg.frames /\ blocked = None
    BY <2>1, Reported DEF SmokeInv, FrameInv
  <2>3. ASSUME cfg.real = "single_directional_tap"
        PROVE  \A i \in pre, j \in post : frames[i] = frames[j]
    <3>a. report.frames = frames /\ report.pre = pre /\ report.post = post /\ report.cfg = cfg
      BY Reported
    <3>b. /\ {report.frames[i] : i \in report.pre} = {report.frames[i] : i \in report.post}
          /\ report.pre # {}
      BY <2>3, <3>a DEF Smoke!Validates
    <3>1. {frames[i] : i \in pre} = {frames[i] : i \in post} /\ pre # {}
      BY <3>a, <3>b
    <3>2. pre = {1}
      BY <2>3, <3>1, Reported DEF SmokeInv, TapInv
    <3>3. {frames[i] : i \in post} = {frames[1]}
      BY <3>1, <3>2
    <3>4. QED
      BY <3>2, <3>3
  <2>4. QED
    BY <2>2, <2>3
<1>2. QED
  BY <1>1, SmokeInvHolds, PTL

\* A run that reaches its frame limit and gets a report validates, unless the
\* window of a tap changed, or logging was asked for and no frame was due.
THEOREM FullRunsValidateHolds ==
  ASSUME Smoke!LimitsAssumption, Smoke!NoneAssumption PROVE Smoke!Spec => []Smoke!FullRunsValidate
<1>1. SmokeInv => Smoke!FullRunsValidate
  <2> SUFFICES ASSUME SmokeInv, report # None, stop = "max_frames_reached",
                      cfg.log => cfg.freq <= cfg.frames,
                      cfg.real = "single_directional_tap" =>
                        ~(Cardinality({frames[i] : i \in DOMAIN frames}) > 1)
               PROVE  Smoke!Validates(report)
    <3>0. Smoke!Cardinality({frames[i] : i \in DOMAIN frames}) = Cardinality({frames[i] : i \in DOMAIN frames})
      BY DEF Smoke!Cardinality, Cardinality
    <3>1. SmokeInv /\ cfg \in Smoke!Configs => cfg.frames \in Nat /\ cfg.freq \in Nat
      BY DEF Smoke!Configs, Smoke!LimitsAssumption
    <3>2. SmokeInv /\ report # None => cfg \in Smoke!Configs
      BY Reported DEF SmokeInv, TypeInv
    <3>3. QED
      BY <3>0, <3>1, <3>2, Reported DEF Smoke!FullRunsValidate
  <2>1. /\ TypeInv /\ pc = "returned"
        /\ cfg.frames \in Nat \ {0} /\ cfg.freq \in Nat \ {0}
        /\ cfg.log \in BOOLEAN /\ cfg.dry \in BOOLEAN /\ cfg.real \in Smoke!Reals
        /\ frames \in Seq({"game", "other"}) /\ Len(frames) = cfg.frames
    <3>1. TypeInv /\ pc = "returned"
      BY Reported DEF SmokeInv
    <3>2. frames \in Seq({"game", "other"}) /\ Len(frames) = cfg.frames
      BY <3>1 DEF SmokeInv, TypeInv, FrameInv
    <3>3. QED
      BY <3>1, <3>2, ConfigFacts
  <2>2. frames # <<>>
    BY <2>1
  <2>3. /\ counts.actions \in Nat /\ counts.sent \in Nat /\ counts.tasks \in Nat
        /\ counts.attempts = counts.sent + counts.forbidden
        /\ counts.tasks = IF cfg.dry THEN counts.actions ELSE 0
        /\ cfg.log /\ cfg.freq <= Len(frames) => counts.actions > 0
        /\ cfg.real # "disabled" => counts.actions = counts.attempts
        /\ cfg.real = "disabled" => counts.attempts = 0
        /\ ~cfg.log /\ ~cfg.dry => counts.actions = counts.attempts
    BY <2>1, CounterFacts DEF SmokeInv, AccountInv, Gate
  <2>4. cfg.log \/ cfg.dry => counts.actions > 0
    <3>1. cfg.dry => counts.tasks > 0
      BY Reported DEF Smoke!Reportable
    <3>2. QED
      BY <2>1, <2>3, <3>1
  <2>5. cfg.real = "disabled" /\ ~cfg.log /\ ~cfg.dry => counts.actions = 0
    BY <2>3
  <2>6. cfg.real # "disabled" =>
          /\ counts.sent > 0 /\ counts.forbidden = 0 /\ ~counts.exceeded
          /\ counts.actions = counts.sent
          /\ counts.focusPasses >= counts.sent /\ counts.stopClears >= counts.sent
    <3>1. counts.sent <= counts.focusPasses /\ counts.sent <= counts.stopClears
      BY <2>1, Reported DEF SmokeInv, LimitInv
    <3>2. counts.forbidden = 0 /\ counts.attempts = counts.sent
      BY <2>3, Reported
    <3>3. cfg.real # "disabled" => counts.sent > 0 /\ ~counts.exceeded
      BY <2>1, Reported DEF Smoke!Reportable, Smoke!Reals
    <3>4. QED
      BY <2>1, <2>3, <3>1, <3>2, <3>3, CounterFacts
  <2>7. cfg.real = "single_directional_tap" =>
          /\ counts.sent = 1 /\ counts.focusChecks = 1 /\ counts.stopChecks = 1
          /\ pre # {} /\ post # {}
    BY Reported DEF Smoke!Reportable
  <2>8. ASSUME cfg.real = "single_directional_tap"
        PROVE  {frames[i] : i \in pre} = {frames[i] : i \in post}
    <3> DEFINE shown == {frames[i] : i \in DOMAIN frames}
    <3>1. pre = {1} /\ post = 2..Len(frames)
      BY <2>1, <2>2, <2>7, <2>8 DEF SmokeInv, TapInv
    <3>2. pre \subseteq DOMAIN frames /\ post \subseteq DOMAIN frames
      BY <2>1, <3>1
    <3>3. \A i, j \in DOMAIN frames : frames[i] = frames[j]
      <4> SUFFICES ASSUME NEW i \in DOMAIN frames, NEW j \in DOMAIN frames, frames[i] # frames[j]
                   PROVE  FALSE
        OBVIOUS
      <4>1. shown = {"game", "other"}
        BY <2>1
      <4>2. Cardinality({"game", "other"}) = 2
        <5>1. Cardinality({"game"}) = 1 /\ IsFiniteSet({"game"})
          BY FS_Singleton
        <5>2. {"game", "other"} = {"game"} \cup {"other"} /\ "other" \notin {"game"}
          OBVIOUS
        <5>3. Cardinality({"game"} \cup {"other"}) = Cardinality({"game"}) + 1
          BY <5>1, <5>2, FS_AddElement, Zenon
        <5>4. QED
          BY <5>1, <5>2, <5>3
      <4>3. QED
        BY <2>8, <4>1, <4>2
    <3>4. PICK k \in post : TRUE
      BY <2>7, <2>8
    <3>5. {frames[i] : i \in pre} = {frames[1]} /\ 1 \in DOMAIN frames
      BY <3>1, <3>2
    <3>6. {frames[i] : i \in post} = {frames[1]}
      <4>1. \A i \in post : frames[i] = frames[1]
        BY <3>2, <3>3, <3>5
      <4>2. QED
        BY <3>4, <4>1
    <3>7. QED
      BY <3>5, <3>6
  <2>9. /\ report.cfg = cfg /\ report.stop = "max_frames_reached" /\ report.frames = frames
        /\ report.counts = counts /\ report.pre = pre /\ report.post = post
    BY Reported
  <2>10. {report.frames[i] : i \in pre} = {frames[i] : i \in pre}
    BY <2>9
  <2>11. {report.frames[i] : i \in post} = {frames[i] : i \in post}
    BY <2>9
  <2>12. QED
    BY <2>2, <2>4, <2>5, <2>6, <2>7, <2>8, <2>9, <2>10, <2>11 DEF Smoke!Validates
<1>2. QED
  BY <1>1, SmokeInvHolds, PTL

\* A run that only observes leaves a report, whatever stopped it.
THEOREM ObservationIsReportedHolds ==
  ASSUME Smoke!LimitsAssumption, Smoke!NoneAssumption PROVE Smoke!Spec => []Smoke!ObservationIsReported
<1>1. SmokeInv => Smoke!ObservationIsReported
  <2> SUFFICES ASSUME SmokeInv, pc = "report", cfg.real = "disabled", ~cfg.dry
               PROVE  Smoke!Reportable(Smoke!Draft)
    BY DEF Smoke!ObservationIsReported
  <2>1. counts.sent = 0 /\ counts.tasks = 0
    BY CounterFacts DEF SmokeInv, AccountInv, Gate
  <2>2. QED
    BY <2>1 DEF Smoke!Reportable, Smoke!Draft
<1>2. QED
  BY <1>1, SmokeInvHolds, PTL

-----------------------------------------------------------------------------
Audit == INSTANCE SmokePipeline WITH report <- noop

\* What may be official: a manifest or a plan of a run that may be.
Clean(m) == m.official => m.ok /\ m.exec = "live" /\ m.mode \in Audit!OfficialModes

FilesAreClean ==
  /\ manifest \in Audit!Manifests => Clean(manifest)
  /\ plan # None => Clean(plan) /\ (plan.official => plan.errors = {})
  /\ summary # None /\ summary.official =>
       /\ summary.ok /\ summary.of # None /\ summary.of.official
       /\ summary.of.mode = summary.mode /\ summary.of.exec = summary.exec
       /\ plan # None /\ noop # None

\* A manifest of version 1 is of a directory in which nothing was planned.
LegacyIsFirst == manifest = Audit!V1 => plan = None

\* While the pipeline runs nobody else writes: what a stage goes on from is what the one before has written.
StagesFollow ==
  pipe # None =>
    /\ pipe.at # "summary" => pipe.ok /\ ~pipe.official /\ preflight # None /\ pipe.pre = preflight
    /\ pipe.at = "smoke_plan" =>
         manifest \in Audit!Manifests /\ manifest.mode = pipe.mode /\ manifest.exec = pipe.exec
    /\ pipe.at = "smoke_report" =>
         /\ plan # None /\ pipe.loaded = plan /\ plan.mode = pipe.mode /\ plan.exec = pipe.exec
         /\ manifest \in Audit!Manifests
    /\ pipe.at = "summary" /\ pipe.official =>
         /\ pipe.ok /\ plan # None /\ pipe.loaded = plan /\ plan.official /\ noop # None
         /\ plan.mode = pipe.mode /\ plan.exec = pipe.exec

AuditInv == Audit!TypeOK /\ FilesAreClean /\ LegacyIsFirst /\ StagesFollow

LEMMA AuditInit ==
  ASSUME Audit!OptionsAssumption, Audit!NoneAssumption, Audit!Init
  PROVE  AuditInv
<1>1. Audit!TypeOK
  BY DEF Audit!OptionsAssumption, Audit!Init, Audit!TypeOK
<1>2. None \notin Audit!Manifests /\ Audit!V1 \notin Audit!Manifests
  BY DEF Audit!NoneAssumption, Audit!V1, Audit!Manifests
<1> QED
  BY <1>1, <1>2 DEF Audit!Init, AuditInv, FilesAreClean, LegacyIsFirst, StagesFollow

\* What is made of what.
LEMMA ManifestsMade ==
  ASSUME Audit!TypeOK, preflight # None, NEW mode \in Audit!Modes, NEW exec \in Audit!Executions
  PROVE  LET m == Audit!create_live_run_manifest(mode, exec) IN
         m \in Audit!Manifests /\ m.mode = mode /\ m.exec = exec /\ Clean(m)
<1> DEFINE fine == preflight.ok
           may == Audit!_official_run_allowed(mode, exec, fine)
           m == Audit!create_live_run_manifest(mode, exec)
<1>1. fine \in BOOLEAN /\ writes + 1 \in Nat
  BY DEF Audit!TypeOK, Audit!Checks
<1>2. may \in BOOLEAN /\ (may => fine /\ exec = "live" /\ mode \in Audit!OfficialModes)
  BY DEF Audit!_official_run_allowed
<1>3. m = [version |-> 2, mode |-> mode, exec |-> exec, ok |-> fine, by |-> writes + 1, official |-> may]
  BY DEF Audit!create_live_run_manifest
<1> HIDE DEF fine, may, m
<1>4. m \in Audit!Manifests
  BY <1>1, <1>2, <1>3 DEF Audit!Manifests
<1>5. m.mode = mode /\ m.exec = exec /\ m.ok = fine /\ m.official = may
  BY <1>3
<1>6. Clean(m)
  BY <1>2, <1>5 DEF Clean
<1> QED
  BY <1>4, <1>5, <1>6 DEF m

LEMMA PlansMade ==
  ASSUME NEW m \in Audit!Manifests, Clean(m)
  PROVE  LET p == Audit!create_live_smoke_plan(m) IN
         p \in Audit!Plans /\ p.mode = m.mode /\ p.exec = m.exec /\ Clean(p) /\ (p.official => p.errors = {})
<1>1. Audit!_validation_errors_for_manifest(m) \in SUBSET Audit!Errors
  BY DEF Audit!_validation_errors_for_manifest
<1> QED
  BY <1>1 DEF Audit!create_live_smoke_plan, Audit!Manifests, Audit!Plans, Clean

LEMMA ReportsMade ==
  ASSUME NEW p \in Audit!Plans
  PROVE  Audit!create_noop_live_smoke_report(p) \in Audit!Reports
BY DEF Audit!Plans, Audit!Reports, Audit!create_noop_live_smoke_report, Audit!_readiness_gaps_from_plan

LEMMA AuditStep ==
  ASSUME Audit!OptionsAssumption, Audit!NoneAssumption, AuditInv, [Audit!Next]_(Audit!vars)
  PROVE  AuditInv'
<1> USE DEF AuditInv, LegacyIsFirst
<1>n. /\ None \notin Audit!Checks /\ None \notin Audit!Manifests /\ None \notin Audit!Plans
      /\ None \notin Audit!Reports /\ None \notin Audit!Summaries /\ None \notin Audit!Locals
      /\ Audit!V1 # None
  BY DEF Audit!NoneAssumption
<1>v. \A m \in Audit!Manifests : m # Audit!V1 /\ m.version = 2
  BY DEF Audit!V1, Audit!Manifests
<1>w. Audit!V1.version = 1
  BY DEF Audit!V1
<1>1. CASE UNCHANGED Audit!vars
  BY <1>1 DEF Audit!vars, Audit!TypeOK, FilesAreClean, StagesFollow, Clean
<1>2. CASE Audit!Preflight
  BY <1>2, <1>n DEF Audit!Preflight, Audit!Checks, Audit!TypeOK, FilesAreClean, StagesFollow, Clean
<1>3. CASE Audit!LiveManifest
  <2>1. PICK mode \in Audit!Modes, exec \in Audit!Executions :
          pipe = None /\ preflight # None /\ manifest' = Audit!create_live_run_manifest(mode, exec)
          /\ writes' = writes + 1 /\ UNCHANGED <<preflight, plan, noop, summary, pipe>>
    BY <1>3 DEF Audit!LiveManifest
  <2>2. manifest' \in Audit!Manifests /\ Clean(manifest')
    BY <2>1, ManifestsMade
  <2> QED
    BY <2>1, <2>2, <1>v DEF Audit!TypeOK, FilesAreClean, StagesFollow, Clean
<1>4. CASE Audit!LiveSmokePlan
  <2>1. pipe = None /\ manifest # None /\ manifest.version = 2 /\ plan' = Audit!create_live_smoke_plan(manifest)
        /\ UNCHANGED <<preflight, manifest, noop, summary, pipe, writes>>
    BY <1>4 DEF Audit!LiveSmokePlan
  <2>2. manifest \in Audit!Manifests /\ manifest # Audit!V1 /\ Clean(manifest)
    BY <2>1, <1>v, <1>w DEF Audit!TypeOK, FilesAreClean
  <2>3. plan' \in Audit!Plans /\ Clean(plan') /\ (plan'.official => plan'.errors = {})
    BY <2>1, <2>2, PlansMade
  <2> QED
    BY <2>1, <2>2, <2>3, <1>n DEF Audit!TypeOK, FilesAreClean, StagesFollow, Clean
<1>5. CASE Audit!LiveSmokeReport
  <2>1. pipe = None /\ plan # None /\ noop' = Audit!create_noop_live_smoke_report(plan)
        /\ UNCHANGED <<preflight, manifest, plan, summary, pipe, writes>>
    BY <1>5 DEF Audit!LiveSmokeReport
  <2>2. noop' \in Audit!Reports
    BY <2>1, ReportsMade DEF Audit!TypeOK
  <2> QED
    BY <2>1, <2>2, <1>n DEF Audit!TypeOK, FilesAreClean, StagesFollow, Clean
<1>6. CASE Audit!PipelinePreflight
  <2>1. PICK mode \in Audit!Modes, exec \in Audit!Executions, over \in Overwrites :
          /\ pipe = None
          /\ pipe' = [at |-> IF preflight = None THEN "summary" ELSE "manifest",
                mode |-> mode, exec |-> exec, over |-> over, ok |-> preflight # None,
                pre |-> preflight, official |-> FALSE, loaded |-> None]
          /\ UNCHANGED <<preflight, manifest, plan, noop, summary, writes>>
    BY <1>6 DEF Audit!PipelinePreflight
  <2>2. pipe' \in Audit!Locals
    BY <2>1 DEF Audit!Locals, Audit!TypeOK
  <2>3. StagesFollow'
    BY <2>1 DEF StagesFollow
  <2> QED
    BY <2>1, <2>2, <2>3 DEF Audit!TypeOK, FilesAreClean, Clean
<1>f. ASSUME pipe # None, Audit!Failed
      PROVE  pipe' \in Audit!Locals /\ pipe'.at = "summary" /\ pipe'.official = pipe.official
  BY <1>f DEF Audit!Failed, Audit!TypeOK, Audit!Locals
<1>7. CASE Audit!PipelineManifest
  <2>1. pipe \in Audit!Locals /\ pipe.at = "manifest" /\ pipe # None /\ preflight # None
        /\ UNCHANGED <<preflight, plan, noop, summary>>
    BY <1>7 DEF Audit!PipelineManifest, Audit!TypeOK, StagesFollow
  <2>2. CASE Audit!Free(manifest, pipe.over)
    <3>1. manifest' = Audit!create_live_run_manifest(pipe.mode, pipe.exec) /\ writes' = writes + 1
          /\ pipe' = [pipe EXCEPT !.at = "smoke_plan"]
      BY <1>7, <2>2 DEF Audit!PipelineManifest
    <3>2. manifest' \in Audit!Manifests /\ manifest'.mode = pipe.mode /\ manifest'.exec = pipe.exec /\ Clean(manifest')
      BY <2>1, <3>1, ManifestsMade DEF Audit!Locals
    <3>3. pipe' \in Audit!Locals /\ pipe'.at = "smoke_plan" /\ pipe'.mode = pipe.mode /\ pipe'.exec = pipe.exec
          /\ pipe'.ok = pipe.ok /\ pipe'.official = pipe.official /\ pipe'.pre = pipe.pre
      BY <2>1, <3>1 DEF Audit!Locals
    <3> QED
      BY <2>1, <3>1, <3>2, <3>3, <1>v DEF Audit!TypeOK, FilesAreClean, StagesFollow, Clean
  <2>3. CASE ~Audit!Free(manifest, pipe.over)
    <3>1. Audit!Failed /\ UNCHANGED <<manifest, writes>>
      BY <1>7, <2>3 DEF Audit!PipelineManifest
    <3> QED
      BY <2>1, <3>1, <1>f DEF Audit!TypeOK, FilesAreClean, StagesFollow, Clean
  <2> QED
    BY <2>2, <2>3
<1>8. CASE Audit!PipelinePlan
  <2>1. /\ pipe \in Audit!Locals /\ pipe.at = "smoke_plan" /\ pipe # None /\ manifest \in Audit!Manifests
        /\ manifest.mode = pipe.mode /\ manifest.exec = pipe.exec /\ Clean(manifest) /\ manifest # Audit!V1
        /\ UNCHANGED <<preflight, manifest, noop, summary, writes>>
    BY <1>8, <1>v DEF Audit!PipelinePlan, Audit!TypeOK, StagesFollow, FilesAreClean
  <2>2. CASE Audit!Free(plan, pipe.over)
    <3>1. plan' = Audit!create_live_smoke_plan(manifest) /\ pipe' = [pipe EXCEPT !.at = "smoke_report", !.loaded = plan']
      BY <1>8, <2>2 DEF Audit!PipelinePlan
    <3>2. plan' \in Audit!Plans /\ plan'.mode = pipe.mode /\ plan'.exec = pipe.exec /\ Clean(plan')
          /\ (plan'.official => plan'.errors = {})
      BY <2>1, <3>1, PlansMade
    <3>3. pipe' \in Audit!Locals /\ pipe'.at = "smoke_report" /\ pipe'.mode = pipe.mode /\ pipe'.exec = pipe.exec
          /\ pipe'.ok = pipe.ok /\ pipe'.official = pipe.official /\ pipe'.pre = pipe.pre /\ pipe'.loaded = plan'
      BY <2>1, <3>1, <3>2 DEF Audit!Locals
    <3> QED
      BY <2>1, <3>2, <3>3, <1>n DEF Audit!TypeOK, FilesAreClean, StagesFollow, Clean
  <2>3. CASE ~Audit!Free(plan, pipe.over)
    <3>1. Audit!Failed /\ UNCHANGED plan
      BY <1>8, <2>3 DEF Audit!PipelinePlan
    <3> QED
      BY <2>1, <3>1, <1>f DEF Audit!TypeOK, FilesAreClean, StagesFollow, Clean
  <2> QED
    BY <2>2, <2>3
<1>9. CASE Audit!PipelineReport
  <2>1. /\ pipe \in Audit!Locals /\ pipe.at = "smoke_report" /\ pipe # None /\ plan \in Audit!Plans
        /\ pipe.loaded = plan /\ plan.mode = pipe.mode /\ plan.exec = pipe.exec /\ pipe.ok
        /\ UNCHANGED <<preflight, manifest, plan, summary, writes>>
    BY <1>9 DEF Audit!PipelineReport, Audit!TypeOK, StagesFollow
  <2>2. CASE Audit!Free(noop, pipe.over)
    <3> DEFINE yes == /\ pipe.pre.ok /\ manifest.official /\ plan.official /\ noop'.official
                      /\ plan.errors \cup noop'.blocked = {}
    <3>1. noop' = Audit!create_noop_live_smoke_report(plan)
          /\ pipe' = [pipe EXCEPT !.at = "summary", !.official = yes]
      BY <1>9, <2>2 DEF Audit!PipelineReport
    <3>2. noop' \in Audit!Reports
      BY <2>1, <3>1, ReportsMade
    <3>3. yes \in BOOLEAN /\ (yes => plan.official)
      OBVIOUS
    <3>4. pipe' \in Audit!Locals /\ pipe'.at = "summary" /\ pipe'.mode = pipe.mode /\ pipe'.exec = pipe.exec
          /\ pipe'.ok = pipe.ok /\ pipe'.official = yes /\ pipe'.loaded = pipe.loaded
      <4> HIDE DEF yes
      <4> QED
        BY <2>1, <3>1, <3>3 DEF Audit!Locals
    <3> HIDE DEF yes
    <3> QED
      BY <2>1, <3>2, <3>3, <3>4, <1>n DEF Audit!TypeOK, FilesAreClean, StagesFollow, Clean
  <2>3. CASE ~Audit!Free(noop, pipe.over)
    <3>1. Audit!Failed /\ UNCHANGED noop
      BY <1>9, <2>3 DEF Audit!PipelineReport
    <3> QED
      BY <2>1, <3>1, <1>f DEF Audit!TypeOK, FilesAreClean, StagesFollow, Clean
  <2> QED
    BY <2>2, <2>3
<1>10. CASE Audit!PipelineSummary
  <2>1. /\ pipe \in Audit!Locals /\ pipe.at = "summary" /\ pipe # None /\ pipe' = None
        /\ UNCHANGED <<preflight, manifest, plan, noop, writes>>
        /\ \/ summary' = summary
           \/ summary' = [mode |-> pipe.mode, exec |-> pipe.exec, official |-> pipe.official,
                          ok |-> pipe.ok, of |-> pipe.loaded]
    BY <1>10 DEF Audit!PipelineSummary, Audit!TypeOK
  <2>2. CASE summary' = summary
    BY <2>1, <2>2 DEF Audit!TypeOK, FilesAreClean, StagesFollow, Clean
  <2>3. CASE summary' = [mode |-> pipe.mode, exec |-> pipe.exec, official |-> pipe.official,
                         ok |-> pipe.ok, of |-> pipe.loaded]
    <3>1. summary' \in Audit!Summaries
      BY <2>1, <2>3 DEF Audit!Locals, Audit!Summaries
    <3>2. summary'.official => pipe.ok /\ plan # None /\ pipe.loaded = plan /\ plan.official /\ noop # None
                               /\ plan.mode = pipe.mode /\ plan.exec = pipe.exec
      BY <2>1, <2>3 DEF StagesFollow
    <3>3. FilesAreClean'
      BY <2>1, <2>3, <3>2 DEF FilesAreClean, Clean
    <3> QED
      BY <2>1, <3>1, <3>3 DEF Audit!TypeOK, StagesFollow
  <2> QED
    BY <2>1, <2>2, <2>3
<1>11. CASE Audit!Killed
  BY <1>11 DEF Audit!Killed, Audit!TypeOK, FilesAreClean, StagesFollow, Clean
<1>12. CASE Audit!ControlledRun
  <2>1. [kind |-> "controlled", official |-> TRUE, blocked |-> {}] \in Audit!Reports
    BY DEF Audit!Reports
  <2>2. noop' \in Audit!Reports \cup {None} /\ (noop # None => noop' # None) /\ pipe = None
        /\ UNCHANGED <<preflight, manifest, plan, summary, pipe, writes>>
    BY <1>12, <1>n, <2>1 DEF Audit!ControlledRun, Audit!TypeOK
  <2> QED
    BY <2>2 DEF Audit!TypeOK, FilesAreClean, StagesFollow, Clean
<1> QED
  BY <1>1, <1>2, <1>3, <1>4, <1>5, <1>6, <1>7, <1>8, <1>9, <1>10, <1>11, <1>12 DEF Audit!Next, Audit!Pipeline

LEMMA AuditIsAlwaysSound ==
  ASSUME Audit!OptionsAssumption, Audit!NoneAssumption
  PROVE  Audit!Spec => []AuditInv
<1>1. Audit!Init => AuditInv
  BY AuditInit
<1>2. AuditInv /\ [Audit!Next]_(Audit!vars) => AuditInv'
  BY AuditStep
<1> QED
  BY <1>1, <1>2, PTL DEF Audit!Spec

\* A plan or summary that allows an official run went through every check, an allowed run finds the path of its
\* report taken, and nothing is derived from a version 1 manifest, however often the pipeline runs and dies.
THEOREM OfficialArtifactsAreAlwaysClean ==
  ASSUME Audit!OptionsAssumption, Audit!NoneAssumption
  PROVE  Audit!Spec => [](Audit!TypeOK /\ Audit!OfficialArtifactsAreClean
                          /\ Audit!AllowedRunFindsItsPathTaken /\ Audit!LegacyDrivesNothing)
<1>1. AuditInv => Audit!OfficialArtifactsAreClean /\ Audit!AllowedRunFindsItsPathTaken
  BY DEF AuditInv, FilesAreClean, Clean, Audit!OfficialArtifactsAreClean, Audit!AllowedRunFindsItsPathTaken,
         Audit!_load_allowed_plan
<1>2. AuditInv => Audit!LegacyDrivesNothing
  BY DEF AuditInv, LegacyIsFirst, FilesAreClean, Audit!TypeOK, Audit!V1, Audit!Manifests, Audit!LegacyDrivesNothing
<1>3. AuditInv => Audit!TypeOK
  BY DEF AuditInv
<1> QED
  BY <1>1, <1>2, <1>3, AuditIsAlwaysSound, PTL

\* Where nothing is written over, the plan a summary or a pipeline has is the one on disk.
OnePlan ==
  /\ summary # None /\ summary.official => summary.of = plan
  /\ pipe # None => pipe.over = FALSE

\* As long as nobody passes --overwrite, an allowed run starts from the very plan its summary was written for.
THEOREM SummariesDescribeTheirPlan ==
  ASSUME Audit!OptionsAssumption, Audit!NoneAssumption, TRUE \notin Overwrites
  PROVE  Audit!Spec => []Audit!SummaryDescribesPlan
<1> DEFINE Both == AuditInv /\ OnePlan
<1>1. Audit!Init => Both
  BY AuditInit DEF OnePlan, Audit!Init
<1>2. ASSUME Both, [Audit!Next]_(Audit!vars) PROVE Both'
  <2>1. AuditInv /\ AuditInv' /\ (pipe' # None => pipe' \in Audit!Locals)
    BY <1>2, AuditStep DEF AuditInv, Audit!TypeOK
  <2>2. pipe' # None => pipe'.over = FALSE
    BY <2>1 DEF Audit!Locals, Audit!OptionsAssumption
  <2>3. plan # None => plan' = plan
    <3>1. pipe # None => pipe.over = FALSE
      BY <1>2 DEF OnePlan
    <3> QED
      BY <1>2, <3>1 DEF Audit!Next, Audit!Pipeline, Audit!vars, Audit!Preflight, Audit!LiveManifest,
         Audit!LiveSmokePlan,
             Audit!LiveSmokeReport, Audit!PipelinePreflight, Audit!PipelineManifest, Audit!PipelinePlan,
             Audit!PipelineReport, Audit!PipelineSummary, Audit!Killed, Audit!ControlledRun, Audit!Free,
             Audit!OptionsAssumption
  <2>4. CASE summary' = summary
    BY <1>2, <2>1, <2>2, <2>3, <2>4 DEF OnePlan, AuditInv, FilesAreClean
  <2>5. CASE summary' # summary
    <3>1. Audit!PipelineSummary
      BY <1>2, <2>5 DEF Audit!Next, Audit!Pipeline, Audit!vars, Audit!Preflight, Audit!LiveManifest,
         Audit!LiveSmokePlan,
             Audit!LiveSmokeReport, Audit!PipelinePreflight, Audit!PipelineManifest, Audit!PipelinePlan,
             Audit!PipelineReport, Audit!Killed, Audit!ControlledRun
    <3>2. summary'.official => summary'.of = plan /\ plan' = plan
      BY <2>1, <2>5, <3>1 DEF Audit!PipelineSummary, AuditInv, StagesFollow
    <3> QED
      BY <2>1, <2>2, <3>1, <3>2 DEF OnePlan, Audit!PipelineSummary
  <2> QED
    BY <2>4, <2>5
<1>3. Both => Audit!SummaryDescribesPlan
  BY DEF OnePlan, Audit!SummaryDescribesPlan, Audit!_load_allowed_plan
<1> HIDE DEF Both
<1> QED
  BY <1>1, <1>2, <1>3, PTL DEF Audit!Spec

-----------------------------------------------------------------------------
Reviews == INSTANCE SmokeEvidence WITH report <- made

Passes(p, b) == Reviews!validate_controlled_live_smoke_artifacts(p, b)
NoBounds == [expected |-> None, least |-> None, most |-> None]

\* A report of a run that was made, or the one that was there before.
IsReport(p) ==
  \/ p = Reviews!Noop
  \/ /\ p = [att |-> p.att, real |-> p.real, act |-> p.act, full |-> p.full, frames |-> p.frames,
             sent |-> p.sent, req |-> p.req, same |-> p.same]
     /\ p.att \in 1..MaxAttempts
     /\ [real |-> p.real, act |-> p.act, full |-> p.full, frames |-> p.frames,
         sent |-> p.sent, req |-> p.req, same |-> p.same] \in Reviews!Reports

Validations == [passed : BOOLEAN, prepost : BOOLEAN, att : Nat]
FailureReasons == {"preflight", "validator", "frames", "range", "mode", "stop_reason"}
Looks == {"not_required", "not_performed", "passed", "failed"}

\* A review: what it says of the report it read.
IsReview(w) ==
  /\ w = [passed |-> w.passed, reasons |-> w.reasons, of |-> w.of, validated |-> w.validated,
          checked |-> w.checked, visual |-> w.visual, seen |-> w.seen]
  /\ IsReport(w.of) /\ w.reasons \subseteq FailureReasons /\ w.visual \in Looks
  /\ w.passed \in BOOLEAN /\ w.validated \in BOOLEAN /\ w.checked \in Nat
  /\ w.passed <=> w.reasons = {}
  /\ w.passed => w.validated
  /\ w.validated => w.checked >= 1

EvidenceTypes ==
  /\ support \in [Runs -> Supports]
  /\ DOMAIN made = Runs /\ made = [r \in Runs |-> made[r]]
  /\ \A r \in Runs : made[r] # None => IsReport(made[r])
  /\ validation \in [Runs -> Validations \cup {None}]
  /\ DOMAIN review = Runs /\ review = [r \in Runs |-> review[r]]
  /\ \A r \in Runs : review[r] # None => IsReview(review[r])

\* A validation is of a report of the run, and of the one that is there it says what is the case.
ValidationFits(r) ==
  validation[r] # None =>
    /\ made[r] # None /\ validation[r].att <= made[r].att
    /\ validation[r].passed => validation[r].att >= 1
    /\ validation[r].passed /\ validation[r].att = made[r].att => \E b \in Bounds : Passes(made[r], b)

ReviewFits(r) ==
  review[r] # None =>
    /\ made[r] # None /\ review[r].of.att <= made[r].att /\ review[r].checked <= made[r].att
    /\ review[r].visual = "passed" =>
         review[r].passed /\ review[r].seen \in 1..made[r].att
    /\ review[r].visual = "not_performed" => review[r].of.real = "single_directional_tap"

AreSoundFiles == \A r \in Runs : ValidationFits(r) /\ ReviewFits(r)
MadeOnce == ~RepeatRuns => \A r \in Runs : made[r] # None => made[r].att <= 1
StabilityIsSound ==
  /\ Reviews!StabilityCountsThreeRuns
  /\ ~RepeatRuns => Reviews!StabilityIsOfReviewedRuns

EvidenceInv == EvidenceTypes /\ AreSoundFiles /\ MadeOnce /\ Reviews!PoliciesAgree /\ StabilityIsSound

LEMMA EvidenceInit ==
  ASSUME Reviews!EvidenceAssumption, Reviews!Init
  PROVE  EvidenceInv
<1>1. Reviews!Noop.att = 0 /\ IsReport(Reviews!Noop)
  BY DEF Reviews!Noop, IsReport
<1>2. EvidenceTypes
  BY <1>1 DEF Reviews!Init, EvidenceTypes, Reviews!EvidenceAssumption
<1>3. \A r \in Runs : validation[r] = None /\ review[r] = None /\ (made[r] # None => made[r].att = 0)
  BY <1>1 DEF Reviews!Init
<1>4. AreSoundFiles /\ MadeOnce /\ Reviews!PoliciesAgree
  BY <1>3 DEF AreSoundFiles, ValidationFits, ReviewFits, MadeOnce, Reviews!PoliciesAgree
<1>5. StabilityIsSound
  BY DEF Reviews!Init, StabilityIsSound, Reviews!StabilityCountsThreeRuns, Reviews!StabilityIsOfReviewedRuns
<1> QED
  BY <1>2, <1>4, <1>5 DEF EvidenceInv

\* What a report that was made tells of its own figures.
LEMMA ReportsFit ==
  ASSUME Reviews!EvidenceAssumption, NEW p, IsReport(p)
  PROVE  /\ p.att \in 0..MaxAttempts /\ p.frames \in Nat /\ p.sent \in Nat /\ p.req \in Nat
         /\ p.full \in BOOLEAN /\ p.same \in BOOLEAN
         /\ p # Reviews!Noop => p.att >= 1
         /\ p.att = 0 => p = Reviews!Noop
         /\ p.real \in {"disabled", "wait_only_noop", "single_directional_tap"}
         /\ p.act \in {"disabled", "logging", "dryrun"}
         /\ p.real = "wait_only_noop" => p.req = p.sent
<1>1. CASE p = Reviews!Noop
  BY <1>1 DEF Reviews!Noop, Reviews!EvidenceAssumption
<1>2. CASE p # Reviews!Noop
  <2> DEFINE q == [real |-> p.real, act |-> p.act, full |-> p.full, frames |-> p.frames,
                   sent |-> p.sent, req |-> p.req, same |-> p.same]
  <2>1. q \in Reviews!Reports /\ p.att \in 1..MaxAttempts
    BY <1>2 DEF IsReport
  <2>2. /\ q \in [real : RealModes, act : ActModes, full : BOOLEAN, frames : 0..MaxFrames,
                  sent : 0..MaxFrames, req : 0..MaxFrames, same : BOOLEAN]
        /\ q.real = "wait_only_noop" => q.req = q.sent
    BY <2>1 DEF Reviews!Reports
  <2>3. q.real = p.real /\ q.act = p.act /\ q.full = p.full /\ q.frames = p.frames /\ q.sent = p.sent /\ q.req = p.req
        /\ q.same = p.same
    OBVIOUS
  <2> HIDE DEF q
  <2>4. /\ q.real \in RealModes /\ q.act \in ActModes /\ q.full \in BOOLEAN /\ q.same \in BOOLEAN
        /\ q.frames \in 0..MaxFrames /\ q.sent \in 0..MaxFrames /\ q.req \in 0..MaxFrames
    BY <2>2
  <2>5. p.frames \in Nat /\ p.sent \in Nat /\ p.req \in Nat
    BY <2>3, <2>4 DEF Reviews!EvidenceAssumption
  <2>6. p.full \in BOOLEAN /\ p.same \in BOOLEAN
    BY <2>3, <2>4, Zenon
  <2>7. p.real \in {"disabled", "wait_only_noop", "single_directional_tap"} /\ p.act \in {"disabled", "logging", "dryrun"}
    BY <2>3, <2>4 DEF Reviews!EvidenceAssumption
  <2>8. p.att \in 0..MaxAttempts /\ p.att >= 1 /\ p.att # 0
    BY <2>1 DEF Reviews!EvidenceAssumption
  <2>9. p.real = "wait_only_noop" => p.req = p.sent
    BY <2>2, <2>3
  <2> QED
    BY <1>2, <2>5, <2>6, <2>7, <2>8, <2>9
<1> QED
  BY <1>1, <1>2

\* What passes within some range passes without one.
LEMMA PassesWithoutRange ==
  ASSUME NEW p, NEW b, Passes(p, b)
  PROVE  Passes(p, NoBounds) /\ p # Reviews!Noop /\ p.full
BY DEF Passes, NoBounds, Reviews!validate_controlled_live_smoke_artifacts, Reviews!InRange

\* The review asks nothing of a report that the validator does not ask.
LEMMA PoliciesAskTheSame ==
  ASSUME Reviews!EvidenceAssumption, NEW p, IsReport(p), NEW b, Passes(p, b)
  PROVE  p.frames >= 1 /\ ~Reviews!ModeReasons(p) /\ p.full
<1>1. p.full /\ p.frames > 0 /\ p.frames \in Nat
  BY ReportsFit DEF Passes, Reviews!validate_controlled_live_smoke_artifacts
<1>c. /\ Reviews!_check_requested_actions(p) /\ Reviews!_check_actions_requested_policy(p)
      /\ Reviews!_check_executed_actions(p) /\ Reviews!_check_dryrun_tasks(p)
      /\ ~Reviews!_pre_post_screenshot_evidence_failures(p)
  BY DEF Passes, Reviews!validate_controlled_live_smoke_artifacts
<1>2. CASE p.real = "single_directional_tap"
  <2>1. p.req = 1
    BY <1>2, <1>c DEF Reviews!_check_actions_requested_policy
  <2>2. p.sent = 1
    BY <1>2, <1>c DEF Reviews!_check_executed_actions
  <2>3. ~Reviews!TapReasons(p)
    BY <1>c, <2>1, <2>2 DEF Reviews!TapReasons
  <2> QED
    BY <1>1, <1>2, <2>3 DEF Reviews!ModeReasons
<1>3. CASE p.real = "wait_only_noop"
  <2>1. p.sent > 0
    BY <1>3, <1>c DEF Reviews!_check_executed_actions
  <2>2. ~Reviews!WaitReasons(p)
    BY <1>3, <2>1, ReportsFit DEF Reviews!WaitReasons
  <2> QED
    BY <1>1, <1>3, <2>2 DEF Reviews!ModeReasons
<1>4. CASE p.real = "disabled"
  <2>1. p.req \in Nat /\ p.act \in {"disabled", "logging", "dryrun"}
    BY ReportsFit
  <2>2. IF p.act = "disabled" THEN p.req = 0 ELSE p.req > 0
    BY <1>4, <1>c DEF Reviews!_check_requested_actions
  <2>3. CASE p.act = "disabled"
    BY <1>1, <1>4, <2>2, <2>3 DEF Reviews!ObserveReasons, Reviews!ModeReasons
  <2>4. CASE p.act = "logging"
    BY <1>1, <1>4, <2>1, <2>2, <2>4 DEF Reviews!ObserveReasons, Reviews!ModeReasons
  <2>5. CASE p.act = "dryrun"
    BY <1>1, <1>4, <2>1, <2>2, <2>5 DEF Reviews!ObserveReasons, Reviews!ModeReasons
  <2> QED
    BY <2>1, <2>3, <2>4, <2>5
<1> QED
  BY <1>1, <1>2, <1>3, <1>4, ReportsFit

LEMMA ReportsAreNotNone ==
  ASSUME Reviews!EvidenceAssumption, Reviews!NoneAssumption, NEW p, IsReport(p)
  PROVE  p # None
<1>1. CASE p = Reviews!Noop
  BY <1>1 DEF Reviews!NoneAssumption
<1>2. CASE p # Reviews!Noop
  <2> DEFINE q == [real |-> p.real, act |-> p.act, full |-> p.full, frames |-> p.frames,
                   sent |-> p.sent, req |-> p.req, same |-> p.same]
  <2>1. q \in Reviews!Reports /\ p.att \in 1..MaxAttempts
    BY <1>2 DEF IsReport
  <2>2. q \in [real : RealModes, act : ActModes, full : BOOLEAN, frames : 0..MaxFrames,
               sent : 0..MaxFrames, req : 0..MaxFrames, same : BOOLEAN]
    BY <2>1 DEF Reviews!Reports
  <2>3. q.real = p.real /\ q.act = p.act /\ q.full = p.full /\ q.same = p.same
    OBVIOUS
  <2> HIDE DEF q
  <2>4. p.real \in RealModes /\ p.act \in ActModes /\ p.full \in BOOLEAN /\ p.same \in BOOLEAN
    <3>1. q.real \in RealModes /\ q.act \in ActModes /\ q.full \in BOOLEAN /\ q.same \in BOOLEAN
      BY <2>2
    <3> QED
      BY <2>3, <3>1, Zenon
  <2>5. p.att \in Nat /\ p.frames \in Nat /\ p.sent \in Nat /\ p.req \in Nat
    BY ReportsFit DEF Reviews!EvidenceAssumption
  <2>6. p = [att |-> p.att, real |-> p.real, act |-> p.act, full |-> p.full, frames |-> p.frames,
             sent |-> p.sent, req |-> p.req, same |-> p.same]
    BY <1>2 DEF IsReport
  <2>7. p \in [att : Nat, real : RealModes, act : ActModes, full : BOOLEAN, frames : Nat, sent : Nat,
               req : Nat, same : BOOLEAN]
    BY <2>4, <2>5, <2>6
  <2> QED
    BY <2>7 DEF Reviews!NoneAssumption
<1> QED
  BY <1>1, <1>2

\* A step is about the files of one run.
Others(r) == \A s \in Runs \ {r} : made'[s] = made[s] /\ validation'[s] = validation[s] /\ review'[s] = review[s]

\* What a step on the files of one run has to show.
LEMMA OneRun ==
  ASSUME EvidenceInv, NEW r \in Runs, Others(r), UNCHANGED <<support, stability>>,
         DOMAIN made' = Runs, made' = [s \in Runs |-> made'[s]],
         DOMAIN validation' = Runs, validation' = [s \in Runs |-> validation'[s]],
         DOMAIN review' = Runs, review' = [s \in Runs |-> review'[s]],
         made'[r] # None => IsReport(made'[r]) /\ (~RepeatRuns => made'[r].att <= 1),
         validation'[r] \in Validations \cup {None},
         review'[r] # None => IsReview(review'[r]),
         ValidationFits(r)', ReviewFits(r)',
         review'[r] # None /\ review'[r].checked = review'[r].of.att =>
           /\ review'[r].validated /\ support[r] = "good" => review'[r].reasons \subseteq {"range"}
           /\ review'[r].passed => Passes(review'[r].of, NoBounds)
  PROVE  EvidenceInv'
<1>1. EvidenceTypes'
  <2>1. \A s \in Runs : /\ made'[s] # None => IsReport(made'[s])
                        /\ validation'[s] \in Validations \cup {None}
                        /\ review'[s] # None => IsReview(review'[s])
    BY DEF EvidenceInv, EvidenceTypes, Others
  <2>2. validation' \in [Runs -> Validations \cup {None}]
    BY <2>1
  <2>3. support' \in [Runs -> Supports]
    BY DEF EvidenceInv, EvidenceTypes
  <2> QED
    BY <2>1, <2>2, <2>3 DEF EvidenceTypes
<1>2. AreSoundFiles'
  <2>1. ASSUME NEW s \in Runs \ {r} PROVE ValidationFits(s)' /\ ReviewFits(s)'
    <3>1. ValidationFits(s) /\ ReviewFits(s)
      BY DEF EvidenceInv, AreSoundFiles
    <3>2. made'[s] = made[s] /\ validation'[s] = validation[s] /\ review'[s] = review[s]
      BY DEF Others
    <3> QED
      BY <3>1, <3>2 DEF ValidationFits, ReviewFits
  <2> QED
    BY <2>1 DEF AreSoundFiles
<1>3. MadeOnce'
  BY DEF EvidenceInv, MadeOnce, Others
<1>4. Reviews!PoliciesAgree'
  <2>1. ASSUME NEW s \in Runs, review'[s] # None, review'[s].checked = review'[s].of.att
        PROVE  /\ review'[s].validated /\ support'[s] = "good" => review'[s].reasons \subseteq {"range"}
               /\ review'[s].passed => Reviews!validate_controlled_live_smoke_artifacts(review'[s].of, NoBounds)
    <3>1. CASE s = r
      BY <2>1, <3>1 DEF Passes
    <3>2. CASE s # r
      <4>1. review'[s] = review[s] /\ support' = support
        BY <3>2 DEF Others
      <4>2. /\ review[s].validated /\ support[s] = "good" => review[s].reasons \subseteq {"range"}
            /\ review[s].passed => Reviews!validate_controlled_live_smoke_artifacts(review[s].of, NoBounds)
        BY <2>1, <4>1 DEF EvidenceInv, Reviews!PoliciesAgree, NoBounds
      <4> QED
        BY <4>1, <4>2
    <3> QED
      BY <3>1, <3>2
  <2> QED
    BY <2>1 DEF Reviews!PoliciesAgree, NoBounds
<1>5. StabilityIsSound'
  BY DEF EvidenceInv, StabilityIsSound, Reviews!StabilityCountsThreeRuns, Reviews!StabilityIsOfReviewedRuns,
         Reviews!OneTap
<1> QED
  BY <1>1, <1>2, <1>3, <1>4, <1>5 DEF EvidenceInv

LEMMA RunKeeps ==
  ASSUME Reviews!EvidenceAssumption, Reviews!NoneAssumption, EvidenceInv, NEW r \in Runs, Reviews!RunSmoke(r)
  PROVE  EvidenceInv'
<1> DEFINE old == IF made[r] = None THEN 0 ELSE made[r].att
<1>1. PICK p \in Reviews!Reports :
        made' = [made EXCEPT ![r] =
          [att |-> 1 + old, real |-> p.real, act |-> p.act, full |-> p.full, frames |-> p.frames,
           sent |-> p.sent, req |-> p.req, same |-> p.same]]
  BY DEF Reviews!RunSmoke
<1>2. \/ made[r] \in {None, Reviews!Noop}
      \/ RepeatRuns /\ made[r] # None /\ made[r].att < MaxAttempts
  BY DEF Reviews!RunSmoke
<1>3. UNCHANGED <<support, validation, review, stability>>
  BY DEF Reviews!RunSmoke
<1>4. made[r] # None => IsReport(made[r]) /\ made[r].att \in 0..MaxAttempts
  BY ReportsFit DEF EvidenceInv, EvidenceTypes
<1>5. old \in 0..MaxAttempts /\ 1 + old \in 1..MaxAttempts /\ (~RepeatRuns => old = 0)
      /\ (made[r] # None => old = made[r].att)
  BY <1>2, <1>4 DEF Reviews!Noop, Reviews!EvidenceAssumption
<1> HIDE DEF old
<1>6. DOMAIN made = Runs /\ made = [s \in Runs |-> made[s]]
  BY DEF EvidenceInv, EvidenceTypes
<1>7. /\ made'[r] = [att |-> 1 + old, real |-> p.real, act |-> p.act, full |-> p.full, frames |-> p.frames,
                     sent |-> p.sent, req |-> p.req, same |-> p.same]
      /\ \A s \in Runs \ {r} : made'[s] = made[s]
      /\ DOMAIN made' = Runs /\ made' = [s \in Runs |-> made'[s]]
  BY <1>1, <1>6
<1>8. IsReport(made'[r]) /\ made'[r].att = 1 + old
  <2>1. p = [real |-> p.real, act |-> p.act, full |-> p.full, frames |-> p.frames,
             sent |-> p.sent, req |-> p.req, same |-> p.same]
    BY DEF Reviews!Reports
  <2>2. /\ made'[r].att = 1 + old /\ made'[r].real = p.real /\ made'[r].act = p.act /\ made'[r].full = p.full
        /\ made'[r].frames = p.frames /\ made'[r].sent = p.sent /\ made'[r].req = p.req /\ made'[r].same = p.same
    BY <1>7
  <2> QED
    BY <1>5, <1>7, <2>1, <2>2 DEF IsReport
<1>9. made'[r] # None
  BY <1>8, ReportsAreNotNone
<1>10. validation[r] # None => validation[r].att \in Nat
  BY DEF EvidenceInv, EvidenceTypes, Validations
<1>11. ValidationFits(r)'
  BY <1>3, <1>5, <1>8, <1>9, <1>10 DEF EvidenceInv, AreSoundFiles, ValidationFits
<1>12. ReviewFits(r)'
  <2>1. review[r] # None => review[r].checked \in Nat /\ review[r].of.att \in Nat
    BY ReportsFit DEF EvidenceInv, EvidenceTypes, IsReview, Reviews!EvidenceAssumption
  <2> QED
    BY <1>3, <1>5, <1>8, <1>9, <2>1 DEF EvidenceInv, AreSoundFiles, ReviewFits
<1>13. review'[r] = review[r] /\ validation'[r] = validation[r] /\ Others(r)
  BY <1>3, <1>7 DEF Others
<1>14. ~RepeatRuns => made'[r].att <= 1
  BY <1>5, <1>8
<1> QED
  BY <1>3, <1>7, <1>8, <1>11, <1>12, <1>13, <1>14, OneRun
     DEF EvidenceInv, EvidenceTypes, Reviews!PoliciesAgree, Passes, NoBounds

LEMMA ValidateKeeps ==
  ASSUME Reviews!EvidenceAssumption, EvidenceInv, NEW r \in Runs, Reviews!Validate(r)
  PROVE  EvidenceInv'
<1>1. made[r] # None /\ UNCHANGED <<support, made, review, stability>>
  BY DEF Reviews!Validate
<1>2. PICK b \in Bounds :
        validation' = [validation EXCEPT ![r] =
          [passed |-> Reviews!validate_controlled_live_smoke_artifacts(made[r], b),
           prepost |-> ~Reviews!_pre_post_screenshot_evidence_failures(made[r]), att |-> made[r].att]]
  BY DEF Reviews!Validate
<1> DEFINE passes == Reviews!validate_controlled_live_smoke_artifacts(made[r], b)
           same == ~Reviews!_pre_post_screenshot_evidence_failures(made[r])
<1>3. passes \in BOOLEAN /\ same \in BOOLEAN /\ (passes => Passes(made[r], b))
  BY DEF Reviews!validate_controlled_live_smoke_artifacts, Passes
<1>4. validation'[r] = [passed |-> passes, prepost |-> same, att |-> made[r].att]
      /\ DOMAIN validation' = Runs /\ validation' = [s \in Runs |-> validation'[s]]
      /\ \A s \in Runs \ {r} : validation'[s] = validation[s]
  BY <1>2 DEF EvidenceInv, EvidenceTypes
<1>5. IsReport(made[r]) /\ made[r].att \in Nat /\ (made[r] # Reviews!Noop => made[r].att >= 1)
  BY <1>1, ReportsFit DEF EvidenceInv, EvidenceTypes, Reviews!EvidenceAssumption
<1>6. passes => made[r] # Reviews!Noop
  BY <1>3, PassesWithoutRange
<1> HIDE DEF passes, same
<1>7. validation'[r] \in Validations /\ validation'[r].passed = passes /\ validation'[r].att = made[r].att
  BY <1>3, <1>4, <1>5 DEF Validations
<1>8. ValidationFits(r)'
  BY <1>1, <1>3, <1>5, <1>6, <1>7 DEF ValidationFits
<1>9. ReviewFits(r)'
  BY <1>1 DEF EvidenceInv, AreSoundFiles, ReviewFits
<1>10. Others(r)
  BY <1>1, <1>4 DEF Others
<1> QED
  BY <1>1, <1>4, <1>7, <1>8, <1>9, <1>10, OneRun
     DEF EvidenceInv, EvidenceTypes, MadeOnce, Reviews!PoliciesAgree, Passes, NoBounds

LEMMA ReviewKeeps ==
  ASSUME Reviews!EvidenceAssumption, EvidenceInv, NEW r \in Runs, Reviews!Review(r)
  PROVE  EvidenceInv'
<1> DEFINE p == made[r]
           v == validation[r]
<1>1. p # None /\ v # None /\ UNCHANGED <<support, made, validation, stability>>
  BY DEF Reviews!Review
<1>2. PICK b \in Bounds :
        review' = [review EXCEPT ![r] =
            [passed |-> Reviews!_failure_reasons(r, p, v, b) = {}, reasons |-> Reviews!_failure_reasons(r, p, v, b),
             of |-> p, validated |-> v.passed, checked |-> v.att,
             visual |-> IF p.real = "single_directional_tap" THEN "not_performed" ELSE "not_required",
             seen |-> None]]
  BY DEF Reviews!Review
<1> DEFINE reasons == Reviews!_failure_reasons(r, p, v, b)
           w == review'[r]
<1>3. /\ w = [passed |-> reasons = {}, reasons |-> reasons, of |-> p, validated |-> v.passed, checked |-> v.att,
              visual |-> IF p.real = "single_directional_tap" THEN "not_performed" ELSE "not_required",
              seen |-> None]
      /\ DOMAIN review' = Runs /\ review' = [s \in Runs |-> review'[s]]
      /\ \A s \in Runs \ {r} : review'[s] = review[s]
  BY <1>2 DEF EvidenceInv, EvidenceTypes
<1>4. /\ reasons \subseteq FailureReasons
      /\ "preflight" \in reasons => support[r] # "good"
      /\ "validator" \in reasons <=> ~v.passed
      /\ "frames" \in reasons => p.frames < 1
      /\ "mode" \in reasons => Reviews!ModeReasons(p)
      /\ "stop_reason" \in reasons => ~p.full
  BY DEF Reviews!_failure_reasons, FailureReasons
<1>5. IsReport(p) /\ v.passed \in BOOLEAN /\ v.att \in Nat
  BY <1>1 DEF EvidenceInv, EvidenceTypes, Validations
<1>6. v.att <= p.att /\ (v.passed => v.att >= 1) /\ (v.passed /\ v.att = p.att => \E c \in Bounds : Passes(p, c))
  BY <1>1 DEF EvidenceInv, AreSoundFiles, ValidationFits
<1> HIDE DEF reasons, p, v
<1>7. /\ w.passed <=> reasons = {}
      /\ w.reasons = reasons /\ w.of = p /\ w.validated = v.passed /\ w.checked = v.att /\ w.seen = None
      /\ w.visual = (IF p.real = "single_directional_tap" THEN "not_performed" ELSE "not_required")
      /\ w = [passed |-> w.passed, reasons |-> w.reasons, of |-> w.of, validated |-> w.validated,
              checked |-> w.checked, visual |-> w.visual, seen |-> w.seen]
      /\ w.passed \in BOOLEAN
  <2> DEFINE none == reasons = {}
  <2>1. none \in BOOLEAN
    OBVIOUS
  <2>2. w = [passed |-> none, reasons |-> reasons, of |-> p, validated |-> v.passed, checked |-> v.att,
              visual |-> IF p.real = "single_directional_tap" THEN "not_performed" ELSE "not_required",
              seen |-> None]
    BY <1>3
  <2>3. none <=> reasons = {}
    OBVIOUS
  <2> HIDE DEF none, w
  <2> QED
    BY <2>1, <2>2, <2>3
<1> HIDE DEF w
<1>8. IsReview(w)
  BY <1>4, <1>5, <1>6, <1>7 DEF IsReview, Looks
<1>9. w.validated /\ w.checked = w.of.att =>
        \E c \in Bounds : Passes(p, c) /\ p.frames >= 1 /\ p.full /\ ~Reviews!ModeReasons(p) /\ Passes(p, NoBounds)
  BY <1>5, <1>6, <1>7, PassesWithoutRange, PoliciesAskTheSame
<1>10. w.checked = w.of.att =>
         /\ w.validated /\ support[r] = "good" => w.reasons \subseteq {"range"}
         /\ w.passed => Passes(w.of, NoBounds)
  <2>1. ASSUME w.checked = w.of.att, w.validated, support[r] = "good" PROVE w.reasons \subseteq {"range"}
    <3>1. p.frames \in Nat /\ p.frames >= 1 /\ p.full /\ ~Reviews!ModeReasons(p) /\ v.passed
      BY <1>5, <1>7, <1>9, <2>1, ReportsFit
    <3>2. "preflight" \notin reasons /\ "validator" \notin reasons /\ "frames" \notin reasons /\ "mode" \notin reasons
          /\ "stop_reason" \notin reasons
      BY <1>4, <2>1, <3>1
    <3> QED
      BY <1>4, <1>7, <3>2 DEF FailureReasons
  <2>2. w.passed => w.validated
    BY <1>8 DEF IsReview
  <2> QED
    BY <1>7, <1>9, <2>1, <2>2
<1>11. ReviewFits(r)'
  <2>1. p.att \in Nat
    BY <1>5, ReportsFit DEF Reviews!EvidenceAssumption
  <2> QED
    BY <1>1, <1>6, <1>7, <2>1 DEF ReviewFits, p, w
<1>12. ValidationFits(r)'
  BY <1>1 DEF EvidenceInv, AreSoundFiles, ValidationFits
<1>13. Others(r)
  BY <1>1, <1>3 DEF Others
<1>14. made' = made /\ validation' = validation /\ UNCHANGED <<support, stability>> /\ review'[r] = w
  BY <1>1 DEF w
<1> QED
  BY <1>3, <1>8, <1>10, <1>11, <1>12, <1>13, <1>14, OneRun DEF EvidenceInv, EvidenceTypes, MadeOnce

LEMMA VerdictKeeps ==
  ASSUME Reviews!EvidenceAssumption, EvidenceInv, NEW r \in Runs, Reviews!RecordManualReview(r)
  PROVE  EvidenceInv'
<1>1. review[r] # None /\ made[r] # None /\ UNCHANGED <<support, made, validation, stability>>
  BY DEF Reviews!RecordManualReview
<1>2. PICK status \in {"passed", "failed"} :
        /\ status = "passed" => review[r].passed
        /\ review' = [review EXCEPT ![r].visual = status, ![r].seen = made[r].att]
  BY DEF Reviews!RecordManualReview
<1> DEFINE u == review[r]
           w == review'[r]
<1>3. u = [passed |-> u.passed, reasons |-> u.reasons, of |-> u.of, validated |-> u.validated,
           checked |-> u.checked, visual |-> u.visual, seen |-> u.seen] /\ IsReview(u)
  BY <1>1 DEF EvidenceInv, EvidenceTypes, IsReview
<1>4. /\ w = [u EXCEPT !.visual = status, !.seen = made[r].att]
      /\ DOMAIN review' = Runs /\ review' = [s \in Runs |-> review'[s]]
      /\ \A s \in Runs \ {r} : review'[s] = review[s]
  BY <1>2 DEF EvidenceInv, EvidenceTypes
<1> HIDE DEF u, w
<1>5. w = [passed |-> u.passed, reasons |-> u.reasons, of |-> u.of, validated |-> u.validated,
           checked |-> u.checked, visual |-> status, seen |-> made[r].att]
  BY <1>3, <1>4
<1>6. w.passed = u.passed /\ w.reasons = u.reasons /\ w.of = u.of /\ w.validated = u.validated
      /\ w.checked = u.checked /\ w.visual = status /\ w.seen = made[r].att
  BY <1>5
<1>7. w = [passed |-> w.passed, reasons |-> w.reasons, of |-> w.of, validated |-> w.validated,
           checked |-> w.checked, visual |-> w.visual, seen |-> w.seen]
  BY <1>5, <1>6
<1>8. IsReview(w)
  BY <1>3, <1>6, <1>7 DEF IsReview, Looks
<1>9. made[r].att \in Nat
  BY <1>1, ReportsFit DEF EvidenceInv, EvidenceTypes, Reviews!EvidenceAssumption
<1>10. u.of.att <= made[r].att /\ u.checked <= made[r].att /\ (u.passed => u.checked >= 1) /\ u.checked \in Nat
  BY <1>1, <1>3 DEF EvidenceInv, AreSoundFiles, ReviewFits, IsReview, u
<1>11. ReviewFits(r)'
  <2>1. w.visual = "passed" => u.passed /\ made[r].att >= 1
    BY <1>2, <1>6, <1>9, <1>10 DEF u
  <2>2. made' = made /\ review'[r] = w
    BY <1>1 DEF w
  <2>3. /\ w.of.att <= made[r].att /\ w.checked <= made[r].att /\ w.visual # "not_performed"
        /\ w.visual = "passed" => w.passed /\ w.seen \in 1..made[r].att
    <3>1. made[r].att >= 1 => made[r].att \in 1..made[r].att
      BY <1>9
    <3>2. status # "not_performed"
      OBVIOUS
    <3> QED
      BY <1>6, <1>10, <2>1, <3>1, <3>2
  <2> QED
    BY <1>1, <2>2, <2>3 DEF ReviewFits
<1>12. ValidationFits(r)'
  BY <1>1 DEF EvidenceInv, AreSoundFiles, ValidationFits
<1>13. Others(r)
  BY <1>1, <1>4 DEF Others
<1>14. w.checked = w.of.att =>
         /\ w.validated /\ support[r] = "good" => w.reasons \subseteq {"range"}
         /\ w.passed => Passes(w.of, NoBounds)
  BY <1>1, <1>6 DEF EvidenceInv, Reviews!PoliciesAgree, Passes, NoBounds, u
<1>15. made' = made /\ validation' = validation /\ UNCHANGED <<support, stability>> /\ review'[r] = w
  BY <1>1 DEF w
<1> QED
  BY <1>4, <1>8, <1>11, <1>12, <1>13, <1>14, <1>15, OneRun DEF EvidenceInv, EvidenceTypes, MadeOnce

\* The finite sets of the instance are the finite sets.
LEMMA EvidenceCardinality ==
  ASSUME NEW S
  PROVE  Reviews!Cardinality(S) = Cardinality(S)
BY DEF Reviews!Cardinality, Cardinality

LEMMA StabilityKeeps ==
  ASSUME Reviews!EvidenceAssumption, EvidenceInv, Reviews!Stability
  PROVE  EvidenceInv'
<1>1. UNCHANGED <<support, made, validation, review>>
  BY DEF Reviews!Stability
<1> DEFINE Gives(n, picks) ==
        /\ \A i \in 1..n : made[picks[i]] # None /\ validation[picks[i]] # None /\ review[picks[i]] # None
        /\ stability' = [passed |-> Reviews!Aggregate(picks),
                     runs |-> {[run |-> picks[i], att |-> made[picks[i]].att, of |-> made[picks[i]],
                                valid |-> validation[picks[i]].att, reviewed |-> review[picks[i]].of.att,
                                checked |-> review[picks[i]].checked,
                                seen |-> review[picks[i]].seen] : i \in 1..n}]
<1>a. PICK n \in 1..MaxGiven : \E picks \in [1..n -> Runs] : Gives(n, picks)
  BY DEF Reviews!Stability
<1>b. PICK picks \in [1..n -> Runs] : Gives(n, picks)
  BY <1>a
<1>2. Gives(n, picks)
  BY <1>b
<1> DEFINE Entry(i) == [run |-> picks[i], att |-> made[picks[i]].att, of |-> made[picks[i]],
                        valid |-> validation[picks[i]].att, reviewed |-> review[picks[i]].of.att,
                        checked |-> review[picks[i]].checked, seen |-> review[picks[i]].seen]
<1>3. n \in Nat /\ DOMAIN picks = 1..n
  BY <1>2 DEF Reviews!EvidenceAssumption
<1>4. stability'.passed => Reviews!Aggregate(picks)
  BY <1>2
<1>5. stability'.runs = {Entry(i) : i \in 1..n}
  BY <1>2
<1>6. Reviews!StabilityCountsThreeRuns'
  <2> SUFFICES ASSUME stability'.passed
               PROVE  /\ Reviews!Cardinality({e.run : e \in stability'.runs}) = REQUIRED_RUN_COUNT
                      /\ \A e \in stability'.runs : Reviews!OneTap(e.of) /\ e.of.same
    BY DEF Reviews!StabilityCountsThreeRuns, Reviews!OneTap
  <2>1. /\ Reviews!Cardinality(1..n) = REQUIRED_RUN_COUNT
        /\ \A i, j \in 1..n : i # j => picks[i] # picks[j]
        /\ \A i \in 1..n : Reviews!RunPasses(made[picks[i]], validation[picks[i]], review[picks[i]])
    BY <1>3, <1>4 DEF Reviews!Aggregate
  <2>2. \A i \in 1..n : Reviews!OneTap(made[picks[i]]) /\ made[picks[i]].same
    BY <2>1 DEF Reviews!RunPasses
  <2>3. \A i \in 1..n : Entry(i).of = made[picks[i]] /\ Entry(i).run = picks[i]
    OBVIOUS
  <2>4. \A e \in stability'.runs : Reviews!OneTap(e.of) /\ e.of.same
    <3> HIDE DEF Entry
    <3> QED
      BY <1>5, <2>2, <2>3
  <2>5. {e.run : e \in stability'.runs} = {picks[i] : i \in 1..n}
    <3> HIDE DEF Entry
    <3> QED
      BY <1>5, <2>3
  <2>6. Cardinality({picks[i] : i \in 1..n}) = Cardinality(1..n)
    <3> DEFINE S == {picks[i] : i \in 1..n}
    <3>1. picks \in Bijection(1..n, S)
      <4>1. picks \in [1..n -> S]
        BY <1>2
      <4> QED
        BY <1>3, <2>1, <4>1 DEF Bijection, Injection, Surjection, IsInjective
    <3>2. IsFiniteSet(1..n)
      BY <1>3, FS_Interval
    <3>4. ExistsBijection(1..n, S)
      BY <3>1 DEF ExistsBijection
    <3> HIDE DEF S
    <3>3. Cardinality(1..n) = Cardinality(S)
      BY <3>2, <3>4, FS_Bijection
    <3> QED
      BY <3>3 DEF S
  <2> QED
    BY <2>1, <2>4, <2>5, <2>6, EvidenceCardinality
<1>7. ~RepeatRuns => Reviews!StabilityIsOfReviewedRuns'
  <2> SUFFICES ASSUME ~RepeatRuns, stability'.passed, NEW i \in 1..n
               PROVE  /\ Entry(i).valid = Entry(i).att /\ Entry(i).reviewed = Entry(i).att
                      /\ Entry(i).checked = Entry(i).att /\ Entry(i).seen = Entry(i).att /\ Entry(i).of.full
    <3> HIDE DEF Entry
    <3> QED
      BY <1>5 DEF Reviews!StabilityIsOfReviewedRuns
  <2> DEFINE r == picks[i]
  <2>1. r \in Runs /\ made[r] # None /\ validation[r] # None /\ review[r] # None
    BY <1>2
  <2>2. Reviews!RunPasses(made[r], validation[r], review[r])
    BY <1>3, <1>4 DEF Reviews!Aggregate
  <2> HIDE DEF r
  <2>3. IsReport(made[r]) /\ IsReview(review[r]) /\ validation[r] \in Validations
    BY <2>1 DEF EvidenceInv, EvidenceTypes
  <2>4. ValidationFits(r) /\ ReviewFits(r) /\ made[r].att <= 1
    BY <2>1 DEF EvidenceInv, AreSoundFiles, MadeOnce
  <2>5. validation[r].passed /\ review[r].validated /\ review[r].visual = "passed"
        /\ review[r].of.real = "single_directional_tap"
    BY <2>2 DEF Reviews!RunPasses
  <2>6. made[r].att \in Nat /\ validation[r].att \in Nat /\ review[r].checked \in Nat /\ review[r].of.att \in Nat
    BY <2>3, ReportsFit DEF IsReview, Validations, Reviews!EvidenceAssumption
  <2>7. validation[r].att = 1 /\ made[r].att = 1
    BY <2>1, <2>4, <2>5, <2>6 DEF ValidationFits
  <2>8. review[r].checked = 1 /\ review[r].seen = 1
    BY <2>1, <2>3, <2>4, <2>5, <2>6, <2>7 DEF ReviewFits, IsReview
  <2>9. review[r].of.att = 1
    <3>1. review[r].of # Reviews!Noop
      BY <2>5 DEF Reviews!Noop
    <3>2. review[r].of.att >= 1 /\ review[r].of.att <= made[r].att
      BY <2>1, <2>3, <2>4, <3>1, ReportsFit DEF ReviewFits, IsReview
    <3> QED
      BY <2>6, <2>7, <3>2
  <2>10. made[r].full
    BY <2>1, <2>4, <2>5, <2>7, PassesWithoutRange DEF ValidationFits
  <2>11. /\ Entry(i).valid = validation[r].att /\ Entry(i).att = made[r].att /\ Entry(i).reviewed = review[r].of.att
         /\ Entry(i).checked = review[r].checked /\ Entry(i).seen = review[r].seen /\ Entry(i).of = made[r]
    BY DEF r
  <2> HIDE DEF Entry
  <2> QED
    BY <2>7, <2>8, <2>9, <2>10, <2>11
<1>8. EvidenceTypes' /\ AreSoundFiles' /\ MadeOnce' /\ Reviews!PoliciesAgree'
  BY <1>1 DEF EvidenceInv, EvidenceTypes, AreSoundFiles, ValidationFits, ReviewFits, MadeOnce, Reviews!PoliciesAgree
<1> QED
  BY <1>6, <1>7, <1>8 DEF EvidenceInv, StabilityIsSound

LEMMA EvidenceStep ==
  ASSUME Reviews!EvidenceAssumption, Reviews!NoneAssumption, EvidenceInv, [Reviews!Next]_(Reviews!vars)
  PROVE  EvidenceInv'
<1>1. CASE UNCHANGED Reviews!vars
  BY <1>1 DEF Reviews!vars, EvidenceInv, EvidenceTypes, AreSoundFiles, ValidationFits, ReviewFits, MadeOnce,
     Reviews!PoliciesAgree, StabilityIsSound, Reviews!StabilityCountsThreeRuns, Reviews!StabilityIsOfReviewedRuns,
     Reviews!OneTap
<1>2. CASE Reviews!Next
  <2>1. \/ \E r \in Runs : Reviews!RunSmoke(r) \/ Reviews!Validate(r) \/ Reviews!Review(r)
                           \/ Reviews!RecordManualReview(r)
        \/ Reviews!Stability
    BY <1>2 DEF Reviews!Next
  <2> QED
    BY <2>1, RunKeeps, ValidateKeeps, ReviewKeeps, VerdictKeeps, StabilityKeeps
<1> QED
  BY <1>1, <1>2

LEMMA EvidenceIsAlwaysSound ==
  ASSUME Reviews!EvidenceAssumption, Reviews!NoneAssumption
  PROVE  Reviews!Spec => []EvidenceInv
<1>1. Reviews!Init => EvidenceInv
  BY EvidenceInit
<1>2. EvidenceInv /\ [Reviews!Next]_(Reviews!vars) => EvidenceInv'
  BY EvidenceStep
<1> QED
  BY <1>1, <1>2, PTL DEF Reviews!Spec

\* A visual verdict needs a review that passed and is never inherited by the review of another report, and the
\* validator and the reviewer state one input policy, for any runs, configurations, bounds and support files.
THEOREM VerdictsStandOnReviews ==
  ASSUME Reviews!EvidenceAssumption, Reviews!NoneAssumption
  PROVE  Reviews!Spec => /\ [](Reviews!TypeOK /\ Reviews!VerdictStandsOnReview /\ Reviews!PoliciesAgree)
                          /\ [][Reviews!VerdictIsNotInherited]_(Reviews!vars)
<1>1. ASSUME EvidenceInv PROVE Reviews!TypeOK
  <2>1. ASSUME NEW r \in Runs
        PROVE  /\ made[r] # None => made[r].att \in 0..MaxAttempts
               /\ review[r] # None => /\ review[r].passed = (review[r].reasons = {})
                                      /\ review[r].visual \in Looks
                                      /\ review[r].visual = "not_performed" =>
                                           review[r].of.real = "single_directional_tap"
    <3>1. made[r] # None => made[r].att \in 0..MaxAttempts
      BY <1>1, ReportsFit DEF EvidenceInv, EvidenceTypes
    <3>2. ASSUME review[r] # None
          PROVE  /\ review[r].passed \in BOOLEAN /\ (review[r].passed <=> review[r].reasons = {})
                 /\ review[r].visual \in Looks
                 /\ review[r].visual = "not_performed" => review[r].of.real = "single_directional_tap"
      BY <1>1, <3>2 DEF EvidenceInv, EvidenceTypes, IsReview, AreSoundFiles, ReviewFits
    <3> QED
      BY <3>1, <3>2
  <2> QED
    BY <2>1 DEF Reviews!TypeOK, Looks
<1>2. EvidenceInv => Reviews!VerdictStandsOnReview /\ Reviews!PoliciesAgree
  BY DEF EvidenceInv, AreSoundFiles, ReviewFits, Reviews!VerdictStandsOnReview
<1>3. ASSUME EvidenceInv, [Reviews!Next]_(Reviews!vars)
      PROVE  Reviews!VerdictIsNotInherited
  <2> SUFFICES ASSUME NEW r \in Runs, review[r] # None, review'[r] # review[r], review'[r].of # review[r].of
               PROVE  review'[r].visual \in {"not_required", "not_performed"}
    BY DEF Reviews!VerdictIsNotInherited
  <2>0. DOMAIN review = Runs
    BY <1>3 DEF EvidenceInv, EvidenceTypes
  <2>1. PICK s \in Runs : Reviews!Review(s) \/ Reviews!RecordManualReview(s)
    BY <1>3 DEF Reviews!Next, Reviews!vars, Reviews!RunSmoke, Reviews!Validate, Reviews!Stability
  <2>2. CASE Reviews!Review(s)
    BY <2>0, <2>2 DEF Reviews!Review
  <2>3. CASE Reviews!RecordManualReview(s)
    <3>1. PICK status : review' = [review EXCEPT ![s].visual = status, ![s].seen = made[s].att]
      BY <2>3 DEF Reviews!RecordManualReview
    <3>2. review[r] = [passed |-> review[r].passed, reasons |-> review[r].reasons, of |-> review[r].of,
                       validated |-> review[r].validated, checked |-> review[r].checked,
                       visual |-> review[r].visual, seen |-> review[r].seen]
      BY <1>3 DEF EvidenceInv, EvidenceTypes, IsReview
    <3>3. s = r
      BY <2>0, <3>1
    <3>4. review'[r] = [review[r] EXCEPT !.visual = status, !.seen = made[r].att]
      BY <2>0, <3>1, <3>3
    <3>5. review'[r].of = review[r].of
      BY <3>2, <3>4
    <3> QED
      BY <3>5
  <2> QED
    BY <2>1, <2>2, <2>3
<1> QED
  BY <1>1, <1>2, <1>3, EvidenceIsAlwaysSound, PTL DEF Reviews!Spec

\* A stability review that passes counts the required number of different runs, and where no run is repeated under
\* its own name the validation, the review and the human's look are of the report counted.
THEOREM StabilityStandsOnItsRuns ==
  ASSUME Reviews!EvidenceAssumption, Reviews!NoneAssumption
  PROVE  Reviews!Spec => /\ []Reviews!StabilityCountsThreeRuns
                          /\ [](~RepeatRuns => Reviews!StabilityIsOfReviewedRuns)
<1>1. EvidenceInv => Reviews!StabilityCountsThreeRuns /\ (~RepeatRuns => Reviews!StabilityIsOfReviewedRuns)
  BY DEF EvidenceInv, StabilityIsSound
<1> QED
  BY <1>1, EvidenceIsAlwaysSound, PTL

-----------------------------------------------------------------------------
(* KnowledgeMemory.  The memory keeps what it told: what any connection can *)
(* read is sound by itself, and at most one connection at a time has        *)
(* changes that the others do not see.                                      *)

Memory == INSTANCE KnowledgeMemory WITH returned <- recalled

\* What a call can tell its caller.
Told == ({"fact"} \X Memory!Ids \X Evidence) \cup ({"strategy"} \X Strategies \X Evidence)
          \cup ({"result"} \X Memory!Ids \X BOOLEAN)

\* The tables have what was told.
Holds(t, x) ==
  CASE x[1] = "fact" -> t.facts[x[2]] # None /\ x[3] \in t.facts[x[2]].evidence
    [] x[1] = "strategy" -> t.strategies[x[2]] # None /\ x[3] \in t.strategies[x[2]].evidence
    [] x[1] = "result" -> t.results[x[2]] # None /\ t.results[x[2]].success = x[3]

FactsBacked(t) ==
  \A f \in Memory!Ids : t.facts[f] # None =>
    t.facts[f].origin # {} /\ t.facts[f].origin \subseteq t.facts[f].evidence
StrategiesBacked(t) ==
  \A k \in Strategies : t.strategies[k] # None =>
    t.strategies[k].cited # {} /\ t.strategies[k].cited \subseteq t.strategies[k].evidence
OutcomesBacked(t) ==
  \A i \in Memory!Ids : t.outcomes[i] # None => t.strategies[t.outcomes[i].key] # None

\* No row has an id that is not given yet.
Given(t, n) ==
  \A i \in Memory!Ids : i > n => t.facts[i] = None /\ t.outcomes[i] = None /\ t.results[i] = None

\* Tables after n calls that have told what is in told.
Sound(t, n, told) ==
  /\ t \in Memory!Tables
  /\ FactsBacked(t) /\ StrategiesBacked(t) /\ OutcomesBacked(t) /\ Given(t, n)
  /\ \A x \in told : Holds(t, x)

\* At most one connection has an open transaction.
OneWriter == \A c, d \in Conns : (open[c] # None /\ open[d] # None) => c = d

KnowledgeInv ==
  /\ calls \in Nat /\ calls <= MaxCalls /\ recalled \subseteq Told
  /\ open \in [Conns -> Memory!Tables \cup {None}] /\ OneWriter
  /\ Sound(db, calls, recalled)
  /\ \A c \in Conns : open[c] # None => Sound(open[c], calls, recalled)
-----------------------------------------------------------------------------
(* The tables. *)

\* Tables with one row written.
FactWritten(t, f, row) == [t EXCEPT !.facts[f] = row]
StrategyWritten(t, k, row) == [t EXCEPT !.strategies[k] = row]
OutcomeWritten(t, i, row) == [t EXCEPT !.outcomes[i] = row]
ResultWritten(t, i, row) == [t EXCEPT !.results[i] = row]

\* What tables are made of.
LEMMA TablesAre ==
  ASSUME NEW t
  PROVE  t \in Memory!Tables <=>
           /\ t = [facts |-> t.facts, strategies |-> t.strategies,
                   outcomes |-> t.outcomes, results |-> t.results]
           /\ t.facts \in [Memory!Ids -> Memory!Fact \cup {None}]
           /\ t.strategies \in [Strategies -> Memory!Strategy \cup {None}]
           /\ t.outcomes \in [Memory!Ids -> Memory!Outcome \cup {None}]
           /\ t.results \in [Memory!Ids -> Memory!SkillResult \cup {None}]
BY DEF Memory!Tables

\* What was told stays true of tables that grow.
LEMMA WhatWasToldStays ==
  ASSUME NEW V, NEW T, NEW x \in Told, Holds(V, x),
         \A f \in Memory!Ids : V.facts[f] # None =>
           T.facts[f] # None /\ V.facts[f].evidence \subseteq T.facts[f].evidence,
         \A k \in Strategies : V.strategies[k] # None =>
           T.strategies[k] # None /\ V.strategies[k].evidence \subseteq T.strategies[k].evidence,
         \A i \in Memory!Ids : V.results[i] # None => T.results[i] = V.results[i]
  PROVE  Holds(T, x)
<1>1. CASE x[1] = "fact"
  <2>1. x[2] \in Memory!Ids
    BY <1>1 DEF Told
  <2>2. QED
    BY <1>1, <2>1 DEF Holds
<1>2. CASE x[1] = "strategy"
  <2>1. x[2] \in Strategies
    BY <1>2 DEF Told
  <2>2. QED
    BY <1>2, <2>1 DEF Holds
<1>3. CASE x[1] = "result"
  <2>1. x[2] \in Memory!Ids
    BY <1>3 DEF Told
  <2>2. QED
    BY <1>3, <2>1 DEF Holds
<1>4. QED
  BY <1>1, <1>2, <1>3 DEF Told

\* The tables as they are stay sound while ids are given.
LEMMA SoundLater ==
  ASSUME NEW V, NEW told, NEW n \in Nat, NEW m \in Nat, n <= m, Sound(V, n, told)
  PROVE  Sound(V, m, told)
<1>1. Given(V, m)
  BY DEF Sound, Given, Memory!Ids
<1>2. QED
  BY <1>1 DEF Sound

\* One fact is written: its evidence grows, and the evidence of its origin is in it.
LEMMA FactIsWritten ==
  ASSUME Memory!NoneAssumption, NEW V, NEW told \in SUBSET Told, NEW n \in Nat, NEW m \in Nat, n <= m,
         Sound(V, n, told), NEW f \in Memory!Ids, f <= m, NEW row \in Memory!Fact,
         row.origin # {}, row.origin \subseteq row.evidence,
         V.facts[f] # None => V.facts[f].evidence \subseteq row.evidence
  PROVE  /\ Sound(FactWritten(V, f, row), m, told)
         /\ \A x \in row.evidence : Holds(FactWritten(V, f, row), <<"fact", f, x>>)
<1> DEFINE T == FactWritten(V, f, row)
<1>1. V \in Memory!Tables /\ row # None
  BY DEF Sound, Memory!NoneAssumption
<1>2. /\ T = [facts |-> [V.facts EXCEPT ![f] = row], strategies |-> V.strategies,
              outcomes |-> V.outcomes, results |-> V.results]
  BY <1>1, TablesAre DEF FactWritten
<1>3. /\ T.facts = [V.facts EXCEPT ![f] = row] /\ T.strategies = V.strategies
      /\ T.outcomes = V.outcomes /\ T.results = V.results
  BY <1>2
<1>4. T \in Memory!Tables
  BY <1>1, <1>2, <1>3, TablesAre
<1>5. T.facts[f] = row /\ \A g \in Memory!Ids \ {f} : T.facts[g] = V.facts[g]
  BY <1>1, <1>3, TablesAre
<1> HIDE DEF T
<1>6. FactsBacked(T) /\ StrategiesBacked(T) /\ OutcomesBacked(T)
  BY <1>3, <1>5 DEF Sound, FactsBacked, StrategiesBacked, OutcomesBacked
<1>7. Given(T, m)
  BY <1>3, <1>5 DEF Sound, Given, Memory!Ids
<1>8. \A x \in told : Holds(T, x)
  <2>1. \A g \in Memory!Ids : V.facts[g] # None =>
          T.facts[g] # None /\ V.facts[g].evidence \subseteq T.facts[g].evidence
    BY <1>1, <1>5
  <2>2. QED
    BY <1>3, <2>1, WhatWasToldStays DEF Sound
<1>9. \A x \in row.evidence : Holds(T, <<"fact", f, x>>)
  BY <1>1, <1>5 DEF Holds
<1>10. QED
  BY <1>4, <1>6, <1>7, <1>8, <1>9 DEF Sound, T

\* One strategy is written, in the same way.
LEMMA StrategyIsWritten ==
  ASSUME Memory!NoneAssumption, NEW V, NEW told \in SUBSET Told, NEW n \in Nat, NEW m \in Nat, n <= m,
         Sound(V, n, told), NEW k \in Strategies, NEW row \in Memory!Strategy,
         row.cited # {}, row.cited \subseteq row.evidence,
         V.strategies[k] # None => V.strategies[k].evidence \subseteq row.evidence
  PROVE  /\ Sound(StrategyWritten(V, k, row), m, told)
         /\ \A x \in row.evidence : Holds(StrategyWritten(V, k, row), <<"strategy", k, x>>)
<1> DEFINE T == StrategyWritten(V, k, row)
<1>1. V \in Memory!Tables /\ row # None
  BY DEF Sound, Memory!NoneAssumption
<1>2. /\ T = [facts |-> V.facts, strategies |-> [V.strategies EXCEPT ![k] = row],
              outcomes |-> V.outcomes, results |-> V.results]
  BY <1>1, TablesAre DEF StrategyWritten
<1>3. /\ T.strategies = [V.strategies EXCEPT ![k] = row] /\ T.facts = V.facts
      /\ T.outcomes = V.outcomes /\ T.results = V.results
  BY <1>2
<1>4. T \in Memory!Tables
  BY <1>1, <1>2, <1>3, TablesAre
<1>5. T.strategies[k] = row /\ \A g \in Strategies \ {k} : T.strategies[g] = V.strategies[g]
  BY <1>1, <1>3, TablesAre
<1> HIDE DEF T
<1>6. FactsBacked(T) /\ StrategiesBacked(T)
  BY <1>3, <1>5 DEF Sound, FactsBacked, StrategiesBacked
<1>7. OutcomesBacked(T)
  <2>1. \A i \in Memory!Ids : V.outcomes[i] # None => V.outcomes[i].key \in Strategies
    BY <1>1, TablesAre DEF Memory!Outcome
  <2>2. QED
    BY <1>1, <1>3, <1>5, <2>1 DEF Sound, OutcomesBacked
<1>8. Given(T, m)
  BY <1>3 DEF Sound, Given, Memory!Ids
<1>9. \A x \in told : Holds(T, x)
  <2>1. \A g \in Strategies : V.strategies[g] # None =>
          T.strategies[g] # None /\ V.strategies[g].evidence \subseteq T.strategies[g].evidence
    BY <1>1, <1>5
  <2>2. QED
    BY <1>3, <2>1, WhatWasToldStays DEF Sound
<1>10. \A x \in row.evidence : Holds(T, <<"strategy", k, x>>)
  BY <1>1, <1>5 DEF Holds
<1>11. QED
  BY <1>4, <1>6, <1>7, <1>8, <1>9, <1>10 DEF Sound, T

\* An outcome of a strategy that exists is written under the next id.
LEMMA OutcomeIsWritten ==
  ASSUME Memory!NoneAssumption, NEW V, NEW told \in SUBSET Told, NEW n \in Nat,
         Sound(V, n, told), n + 1 \in Memory!Ids, NEW row \in Memory!Outcome, V.strategies[row.key] # None
  PROVE  Sound(OutcomeWritten(V, n + 1, row), n + 1, told)
<1> DEFINE T == OutcomeWritten(V, n + 1, row)
<1>1. V \in Memory!Tables
  BY DEF Sound
<1>2. /\ T = [facts |-> V.facts, strategies |-> V.strategies,
              outcomes |-> [V.outcomes EXCEPT ![n + 1] = row], results |-> V.results]
  BY <1>1, TablesAre DEF OutcomeWritten
<1>3. /\ T.outcomes = [V.outcomes EXCEPT ![n + 1] = row] /\ T.facts = V.facts
      /\ T.strategies = V.strategies /\ T.results = V.results
  BY <1>2
<1>4. T \in Memory!Tables
  BY <1>1, <1>2, <1>3, TablesAre
<1>5. T.outcomes[n + 1] = row /\ \A g \in Memory!Ids \ {n + 1} : T.outcomes[g] = V.outcomes[g]
  BY <1>1, <1>3, TablesAre
<1> HIDE DEF T
<1>6. FactsBacked(T) /\ StrategiesBacked(T) /\ OutcomesBacked(T)
  BY <1>3, <1>5 DEF Sound, FactsBacked, StrategiesBacked, OutcomesBacked
<1>7. Given(T, n + 1)
  BY <1>3, <1>5 DEF Sound, Given, Memory!Ids
<1>8. \A x \in told : Holds(T, x)
  BY <1>3, WhatWasToldStays DEF Sound
<1>9. QED
  BY <1>4, <1>6, <1>7, <1>8 DEF Sound, T

\* A result is written under the next id.
LEMMA ResultIsWritten ==
  ASSUME Memory!NoneAssumption, NEW V, NEW told \in SUBSET Told, NEW n \in Nat,
         Sound(V, n, told), n + 1 \in Memory!Ids, NEW row \in Memory!SkillResult
  PROVE  /\ Sound(ResultWritten(V, n + 1, row), n + 1, told)
         /\ Holds(ResultWritten(V, n + 1, row), <<"result", n + 1, row.success>>)
<1> DEFINE T == ResultWritten(V, n + 1, row)
<1>1. V \in Memory!Tables /\ row # None
  BY DEF Sound, Memory!NoneAssumption
<1>2. /\ T = [facts |-> V.facts, strategies |-> V.strategies,
              outcomes |-> V.outcomes, results |-> [V.results EXCEPT ![n + 1] = row]]
  BY <1>1, TablesAre DEF ResultWritten
<1>3. /\ T.results = [V.results EXCEPT ![n + 1] = row] /\ T.facts = V.facts
      /\ T.strategies = V.strategies /\ T.outcomes = V.outcomes
  BY <1>2
<1>4. T \in Memory!Tables
  BY <1>1, <1>2, <1>3, TablesAre
<1>5. T.results[n + 1] = row /\ \A g \in Memory!Ids \ {n + 1} : T.results[g] = V.results[g]
  BY <1>1, <1>3, TablesAre
<1> HIDE DEF T
<1>6. FactsBacked(T) /\ StrategiesBacked(T) /\ OutcomesBacked(T)
  BY <1>3 DEF Sound, FactsBacked, StrategiesBacked, OutcomesBacked
<1>7. Given(T, n + 1)
  BY <1>3, <1>5 DEF Sound, Given, Memory!Ids
<1>8. \A x \in told : Holds(T, x)
  <2>1. V.results[n + 1] = None
    BY DEF Sound, Given
  <2>2. \A i \in Memory!Ids : V.results[i] # None => T.results[i] = V.results[i]
    BY <1>5, <2>1
  <2>3. \A x \in told : x \in Told /\ Holds(V, x)
    BY DEF Sound
  <2>4. \A f \in Memory!Ids : V.facts[f] # None =>
          T.facts[f] # None /\ V.facts[f].evidence \subseteq T.facts[f].evidence
    BY <1>3
  <2>5. \A k \in Strategies : V.strategies[k] # None =>
          T.strategies[k] # None /\ V.strategies[k].evidence \subseteq T.strategies[k].evidence
    BY <1>3
  <2>6. QED
    BY <2>2, <2>3, <2>4, <2>5, WhatWasToldStays
<1>9. Holds(T, <<"result", n + 1, row.success>>)
  BY <1>1, <1>5 DEF Holds
<1>10. QED
  BY <1>4, <1>6, <1>7, <1>8, <1>9 DEF Sound, T
-----------------------------------------------------------------------------
(* How a call ends. *)

\* What a connection reads is sound.
LEMMA ViewIsSound ==
  ASSUME Memory!NoneAssumption, KnowledgeInv, NEW c \in Conns
  PROVE  /\ Memory!View(c) \in Memory!Tables /\ Sound(Memory!View(c), calls, recalled)
         /\ recalled \in SUBSET Told /\ calls \in Nat
BY DEF KnowledgeInv, Memory!View, Sound

\* A call whose tables are sound and that returns keeps the invariant.
LEMMA ReturnsKeepsInv ==
  ASSUME Memory!NoneAssumption, Memory!BoundAssumption, KnowledgeInv, NEW c \in Conns, NEW T,
         NEW told \in SUBSET Told, Memory!Calls, Sound(T, calls + 1, recalled \cup told),
         Memory!Returns(c, T, told)
  PROVE  KnowledgeInv'
<1>1. calls' \in Nat /\ calls' <= MaxCalls /\ calls' = calls + 1
  BY DEF KnowledgeInv, Memory!Calls, Memory!BoundAssumption
<1>2. recalled' \subseteq Told /\ open' \in [Conns -> Memory!Tables \cup {None}]
  BY DEF KnowledgeInv, Memory!Returns
<1>3. \A d \in Conns : open'[d] = None
  BY DEF KnowledgeInv, Memory!Returns, Memory!Unlocked
<1>4. Sound(db', calls', recalled')
  BY <1>1 DEF Memory!Returns
<1>5. QED
  BY <1>1, <1>2, <1>3, <1>4 DEF KnowledgeInv, OneWriter

\* A call that leaves the transaction open, or one that only gives its number away.
LEMMA SpentKeepsInv ==
  ASSUME Memory!NoneAssumption, Memory!BoundAssumption, KnowledgeInv, NEW c \in Conns, Memory!Calls,
         UNCHANGED <<db, recalled>>,
         open' = open \/ open' = [open EXCEPT ![c] = None]
         \/ \E T : /\ Memory!Unlocked(c) /\ open' = [open EXCEPT ![c] = T]
                   /\ Sound(T, calls + 1, recalled)
  PROVE  KnowledgeInv'
<1>1. calls' \in Nat /\ calls' <= MaxCalls /\ calls' = calls + 1 /\ calls \in Nat
  BY DEF KnowledgeInv, Memory!Calls, Memory!BoundAssumption
<1>2. recalled' \subseteq Told /\ open' \in [Conns -> Memory!Tables \cup {None}]
  BY DEF KnowledgeInv, Sound
<1>3. Sound(db', calls', recalled')
  BY <1>1, SoundLater DEF KnowledgeInv
<1>4. ASSUME NEW d \in Conns, open'[d] # None
      PROVE  Sound(open'[d], calls', recalled')
  <2>1. open'[d] = open[d] \/ Sound(open'[d], calls + 1, recalled)
    BY <1>4 DEF KnowledgeInv
  <2>2. CASE open'[d] = open[d]
    BY <1>1, <1>4, <2>2, SoundLater DEF KnowledgeInv
  <2>3. QED
    BY <1>1, <2>1, <2>2
<1>5. OneWriter'
  BY DEF KnowledgeInv, OneWriter, Memory!Unlocked
<1>6. QED
  BY <1>1, <1>2, <1>3, <1>4, <1>5 DEF KnowledgeInv

\* With "with conn".
LEMMA WithKeepsInv ==
  ASSUME Memory!NoneAssumption, Memory!BoundAssumption, KnowledgeInv, NEW c \in Conns, NEW T,
         NEW told \in SUBSET Told, Memory!Calls, Sound(T, calls + 1, recalled \cup told),
         Memory!With(c, T, told)
  PROVE  KnowledgeInv'
<1>1. CASE Memory!Returns(c, T, told)
  BY <1>1, ReturnsKeepsInv
<1>2. CASE Memory!RollsBack(c)
  BY <1>2, SpentKeepsInv DEF Memory!RollsBack
<1>3. QED
  BY <1>1, <1>2 DEF Memory!With

\* With a bare commit.
LEMMA BareKeepsInv ==
  ASSUME Memory!NoneAssumption, Memory!BoundAssumption, KnowledgeInv, NEW c \in Conns, NEW T,
         NEW told \in SUBSET Told, Memory!Calls, Sound(T, calls + 1, recalled \cup told),
         Memory!Bare(c, T, told)
  PROVE  KnowledgeInv'
<1>1. CASE Memory!Returns(c, T, told)
  BY <1>1, ReturnsKeepsInv
<1>2. CASE Memory!StaysOpen(c, T)
  <2>1. Sound(T, calls + 1, recalled)
    BY DEF Sound
  <2>2. QED
    BY <1>2, <2>1, SpentKeepsInv DEF Memory!StaysOpen
<1>3. CASE Memory!Unchanged
  BY <1>3, SpentKeepsInv DEF Memory!Unchanged
<1>4. QED
  BY <1>1, <1>2, <1>3 DEF Memory!Bare
-----------------------------------------------------------------------------
(* The calls. *)

\* A number that is given to a call is an id, and no row has it yet.
LEMMA TheNextIdIsFree ==
  ASSUME Memory!NoneAssumption, Memory!BoundAssumption, KnowledgeInv, NEW c \in Conns, Memory!Calls
  PROVE  /\ calls + 1 \in Memory!Ids
         /\ Memory!View(c).facts[calls + 1] = None
BY ViewIsSound DEF Memory!Calls, Memory!Ids, Memory!BoundAssumption, KnowledgeInv, Sound, Given

\* A sound row tells what it was told and what it is told now.
LEMMA ToldToo ==
  ASSUME NEW T, NEW n, NEW old, NEW new, Sound(T, n, old), \A x \in new : Holds(T, x)
  PROVE  Sound(T, n, old \cup new)
BY DEF Sound

\* A new fact has the evidence it was created with.
LEMMA CreateFactKeeps ==
  ASSUME Memory!NoneAssumption, Memory!BoundAssumption, KnowledgeInv, NEW c \in Conns, Memory!create_fact(c)
  PROVE  KnowledgeInv'
<1>1. PICK s \in FactStatuses, ids \in (SUBSET Evidence) \ {{}} :
        Memory!With(c, [Memory!View(c) EXCEPT !.facts[calls + 1] = [status |-> s, evidence |-> ids, origin |-> ids]],
             {<<"fact", calls + 1, x>> : x \in ids})
  BY DEF Memory!create_fact
<1> DEFINE V == Memory!View(c)
           row == [status |-> s, evidence |-> ids, origin |-> ids]
           T == FactWritten(V, calls + 1, row)
           told == {<<"fact", calls + 1, x>> : x \in ids}
<1>2. Memory!Calls /\ calls + 1 \in Memory!Ids /\ V.facts[calls + 1] = None
  BY TheNextIdIsFree DEF Memory!create_fact
<1>3. row \in Memory!Fact /\ row.evidence = ids /\ row.origin = ids /\ ids # {}
  BY DEF Memory!Fact
<1>4. told \in SUBSET Told
  BY <1>2 DEF Told
<1>5. Memory!With(c, T, told)
  BY <1>1 DEF FactWritten
<1>7. Sound(V, calls, recalled) /\ recalled \in SUBSET Told /\ calls \in Nat
  BY ViewIsSound
<1> HIDE DEF V, row
<1>8. Sound(T, calls + 1, recalled) /\ \A x \in ids : Holds(T, <<"fact", calls + 1, x>>)
  <2>1. row \in Memory!Fact /\ row.origin # {} /\ row.origin \subseteq row.evidence
    BY <1>3
  <2>2. calls + 1 \in Nat /\ calls <= calls + 1 /\ calls + 1 <= calls + 1
    BY <1>7
  <2>3. /\ Sound(FactWritten(V, calls + 1, row), calls + 1, recalled)
        /\ \A x \in row.evidence :
             Holds(FactWritten(V, calls + 1, row), <<"fact", calls + 1, x>>)
    BY <1>2, <1>7, <2>1, <2>2, FactIsWritten
  <2>4. QED
    BY <1>3, <2>3
<1>9. Sound(T, calls + 1, recalled \cup told)
  BY <1>8, ToldToo
<1> HIDE DEF T, told
<1>10. QED
  BY <1>2, <1>4, <1>5, <1>9, WithKeepsInv

\* A new status leaves a fact's evidence alone; for an unknown id nothing is written.
LEMMA UpdateFactStatusKeeps ==
  ASSUME Memory!NoneAssumption, Memory!BoundAssumption, KnowledgeInv, NEW c \in Conns, Memory!update_fact_status(c)
  PROVE  KnowledgeInv'
<1>1. PICK f \in Memory!Ids, s \in FactStatuses :
        Memory!Bare(c, IF Memory!View(c).facts[f] = None THEN Memory!View(c)
                ELSE [Memory!View(c) EXCEPT !.facts[f].status = s], {})
  BY DEF Memory!update_fact_status
<1>2. Memory!Calls
  BY DEF Memory!update_fact_status
<1> DEFINE V == Memory!View(c)
           row == [V.facts[f] EXCEPT !.status = s]
           T == IF V.facts[f] = None THEN V ELSE FactWritten(V, f, row)
<1>3. Memory!Bare(c, T, {})
  BY <1>1 DEF FactWritten
<1>4. V \in Memory!Tables /\ Sound(V, calls, recalled) /\ recalled \in SUBSET Told /\ calls \in Nat
  BY ViewIsSound
<1> HIDE DEF V
<1>5. Sound(T, calls + 1, recalled)
  <2>1. CASE V.facts[f] = None
    BY <1>4, <2>1, SoundLater
  <2>2. CASE V.facts[f] # None
    <3>1. V.facts[f] \in Memory!Fact
      BY <1>4, <2>2, TablesAre
    <3>2. row \in Memory!Fact /\ row.evidence = V.facts[f].evidence /\ row.origin = V.facts[f].origin
      BY <3>1 DEF Memory!Fact
    <3>3. V.facts[f].origin # {} /\ V.facts[f].origin \subseteq V.facts[f].evidence
      BY <1>4, <2>2 DEF Sound, FactsBacked
    <3>4. f <= calls + 1
      BY <1>4, <2>2 DEF Sound, Given, Memory!Ids
    <3> HIDE DEF row
    <3>5. Sound(FactWritten(V, f, row), calls + 1, recalled)
      <4>1. calls \in Nat /\ calls + 1 \in Nat /\ calls <= calls + 1
        BY <1>4
      <4>2. V.facts[f] # None => V.facts[f].evidence \subseteq row.evidence
        BY <3>2
      <4>3. row.origin # {} /\ row.origin \subseteq row.evidence
        BY <3>2, <3>3
      <4> QED
        BY <1>4, <3>2, <3>4, <4>1, <4>2, <4>3, FactIsWritten
    <3>6. QED
      BY <2>2, <3>5
  <2>3. QED
    BY <2>1, <2>2
<1>6. Sound(T, calls + 1, recalled \cup {})
  BY <1>5, ToldToo
<1> HIDE DEF T
<1>7. QED
  BY <1>2, <1>3, <1>6, BareKeepsInv

\* More evidence for a fact.
LEMMA AppendFactEvidenceKeeps ==
  ASSUME Memory!NoneAssumption, Memory!BoundAssumption, KnowledgeInv, NEW c \in Conns, Memory!append_fact_evidence(c)
  PROVE  KnowledgeInv'
<1>1. PICK f \in Memory!Ids, x \in Evidence :
        IF Memory!View(c).facts[f] = None THEN Memory!Unchanged
        ELSE Memory!With(c, [Memory!View(c) EXCEPT !.facts[f].evidence = @ \cup {x}], {<<"fact", f, x>>})
  BY DEF Memory!append_fact_evidence
<1>2. Memory!Calls
  BY DEF Memory!append_fact_evidence
<1>3. CASE Memory!View(c).facts[f] = None
  BY <1>1, <1>2, <1>3, SpentKeepsInv DEF Memory!Unchanged
<1>4. CASE Memory!View(c).facts[f] # None
  <2> DEFINE V == Memory!View(c)
             row == [V.facts[f] EXCEPT !.evidence = @ \cup {x}]
             T == FactWritten(V, f, row)
             told == {<<"fact", f, x>>}
  <2>1. Memory!With(c, T, told)
    BY <1>1, <1>4 DEF FactWritten
  <2>2. V \in Memory!Tables /\ Sound(V, calls, recalled) /\ recalled \in SUBSET Told /\ calls \in Nat
    BY ViewIsSound
  <2>3. V.facts[f] # None
    BY <1>4
  <2> HIDE DEF V
  <2>4. V.facts[f] \in Memory!Fact
    BY <2>2, <2>3, TablesAre
  <2>5. /\ row \in Memory!Fact /\ row.evidence = V.facts[f].evidence \cup {x}
        /\ row.origin = V.facts[f].origin
    BY <2>4 DEF Memory!Fact
  <2>6. V.facts[f].origin # {} /\ V.facts[f].origin \subseteq V.facts[f].evidence
    BY <2>2, <2>3 DEF Sound, FactsBacked
  <2>7. f <= calls + 1
    BY <2>2, <2>3 DEF Sound, Given, Memory!Ids
  <2> HIDE DEF row
  <2>8. /\ Sound(FactWritten(V, f, row), calls + 1, recalled)
        /\ \A y \in row.evidence : Holds(FactWritten(V, f, row), <<"fact", f, y>>)
    <3>1. /\ row.origin # {} /\ row.origin \subseteq row.evidence
          /\ V.facts[f].evidence \subseteq row.evidence /\ row \in Memory!Fact
      BY <2>5, <2>6
    <3>2. calls \in Nat /\ calls + 1 \in Nat /\ calls <= calls + 1
      BY <2>2
    <3>3. QED
      BY <2>2, <2>7, <3>1, <3>2, FactIsWritten
  <2>9. told \in SUBSET Told
    BY DEF Told
  <2>10. \A y \in told : Holds(T, y)
    BY <2>5, <2>8
  <2>11. Sound(T, calls + 1, recalled \cup told)
    BY <2>8, <2>10, ToldToo
  <2> HIDE DEF T, told
  <2>12. QED
    BY <1>2, <2>1, <2>9, <2>11, WithKeepsInv
<1>5. QED
  BY <1>3, <1>4

\* A call of StrategyGraphStore that writes the row of one strategy.
LEMMA StrategyCallKeeps ==
  ASSUME Memory!NoneAssumption, Memory!BoundAssumption, KnowledgeInv, NEW c \in Conns, Memory!Calls,
         NEW k \in Strategies, NEW row \in Memory!Strategy, NEW ids \in SUBSET row.evidence,
         row.cited # {}, row.cited \subseteq row.evidence,
         Memory!View(c).strategies[k] # None => Memory!View(c).strategies[k].evidence \subseteq row.evidence,
         Memory!With(c, StrategyWritten(Memory!View(c), k, row), {<<"strategy", k, x>> : x \in ids})
  PROVE  KnowledgeInv'
<1> DEFINE V == Memory!View(c)
           told == {<<"strategy", k, x>> : x \in ids}
<1>1. Sound(V, calls, recalled) /\ recalled \in SUBSET Told /\ calls \in Nat
  BY ViewIsSound
<1>2. V.strategies[k] # None => V.strategies[k].evidence \subseteq row.evidence
  OBVIOUS
<1>3. Memory!With(c, StrategyWritten(V, k, row), told)
  OBVIOUS
<1>4. told \in SUBSET Told
  BY DEF Told, Memory!Strategy
<1> HIDE DEF V
<1>5. calls + 1 \in Nat /\ calls <= calls + 1
  BY <1>1
<1>6. /\ Sound(StrategyWritten(V, k, row), calls + 1, recalled)
      /\ \A x \in row.evidence : Holds(StrategyWritten(V, k, row), <<"strategy", k, x>>)
  BY <1>1, <1>2, <1>5, StrategyIsWritten
<1>7. \A y \in told : Holds(StrategyWritten(V, k, row), y)
  BY <1>6
<1> HIDE DEF told
<1>8. Sound(StrategyWritten(V, k, row), calls + 1, recalled \cup told)
  BY <1>6, <1>7, ToldToo
<1>9. QED
  BY <1>3, <1>4, <1>8, WithKeepsInv

\* A new strategy cites the evidence it was created with.
LEMMA CreateStrategyKeeps ==
  ASSUME Memory!NoneAssumption, Memory!BoundAssumption, KnowledgeInv, NEW c \in Conns, Memory!create_strategy(c)
  PROVE  KnowledgeInv'
<1>1. PICK k \in Strategies, s \in StrategyStatuses, ids \in (SUBSET Evidence) \ {{}} :
        IF Memory!View(c).strategies[k] # None THEN Memory!RollsBack(c)
        ELSE Memory!With(c, [Memory!View(c) EXCEPT !.strategies[k] =
                        [status |-> s, evidence |-> ids, cited |-> ids]],
                  {<<"strategy", k, x>> : x \in ids})
  BY DEF Memory!create_strategy
<1>2. Memory!Calls
  BY DEF Memory!create_strategy
<1>3. CASE Memory!View(c).strategies[k] # None
  BY <1>1, <1>2, <1>3, SpentKeepsInv DEF Memory!RollsBack
<1>4. CASE Memory!View(c).strategies[k] = None
  <2> DEFINE row == [status |-> s, evidence |-> ids, cited |-> ids]
  <2>1. Memory!With(c, StrategyWritten(Memory!View(c), k, row), {<<"strategy", k, x>> : x \in ids})
    BY <1>1, <1>4 DEF StrategyWritten
  <2>2. row \in Memory!Strategy /\ row.evidence = ids /\ row.cited = ids /\ ids # {}
    BY DEF Memory!Strategy
  <2>3. ids \in SUBSET row.evidence /\ row.cited # {} /\ row.cited \subseteq row.evidence
    BY <2>2
  <2> HIDE DEF row
  <2>4. QED
    BY <1>2, <1>4, <2>1, <2>2, <2>3, StrategyCallKeeps
<1>5. QED
  BY <1>3, <1>4

\* More evidence for a strategy.
LEMMA AppendStrategyEvidenceKeeps ==
  ASSUME Memory!NoneAssumption, Memory!BoundAssumption, KnowledgeInv, NEW c \in Conns,
         Memory!append_strategy_evidence(c)
  PROVE  KnowledgeInv'
<1>1. PICK k \in Strategies, ids \in (SUBSET Evidence) \ {{}} :
        IF Memory!View(c).strategies[k] = None THEN Memory!Unchanged
        ELSE Memory!With(c, [Memory!View(c) EXCEPT !.strategies[k].evidence = @ \cup ids],
                  {<<"strategy", k, x>> : x \in ids})
  BY DEF Memory!append_strategy_evidence
<1>2. Memory!Calls
  BY DEF Memory!append_strategy_evidence
<1>3. CASE Memory!View(c).strategies[k] = None
  BY <1>1, <1>2, <1>3, SpentKeepsInv DEF Memory!Unchanged
<1>4. CASE Memory!View(c).strategies[k] # None
  <2> DEFINE old == Memory!View(c).strategies[k]
             row == [old EXCEPT !.evidence = @ \cup ids]
  <2>1. Memory!With(c, StrategyWritten(Memory!View(c), k, row), {<<"strategy", k, x>> : x \in ids})
    BY <1>1, <1>4 DEF StrategyWritten
  <2>2. old \in Memory!Strategy
    BY <1>4, ViewIsSound, TablesAre
  <2>3. old.cited # {} /\ old.cited \subseteq old.evidence
    BY <1>4, ViewIsSound DEF Sound, StrategiesBacked
  <2>4. row \in Memory!Strategy /\ row.evidence = old.evidence \cup ids /\ row.cited = old.cited
    BY <2>2 DEF Memory!Strategy
  <2>5. /\ ids \in SUBSET row.evidence /\ row.cited # {} /\ row.cited \subseteq row.evidence
        /\ Memory!View(c).strategies[k].evidence \subseteq row.evidence
    BY <2>3, <2>4
  <2> HIDE DEF row
  <2>6. QED
    BY <1>2, <2>1, <2>4, <2>5, StrategyCallKeeps
<1>5. QED
  BY <1>3, <1>4

\* The evidence cited for a new status joins the strategy's rows.
LEMMA UpdateStatusKeeps ==
  ASSUME Memory!NoneAssumption, Memory!BoundAssumption, KnowledgeInv, NEW c \in Conns, Memory!update_status(c)
  PROVE  KnowledgeInv'
<1>1. PICK k \in Strategies, s \in StrategyStatuses, ids \in (SUBSET Evidence) \ {{}} :
        IF Memory!View(c).strategies[k] = None THEN Memory!Unchanged
        ELSE Memory!With(c, [Memory!View(c) EXCEPT !.strategies[k] = Memory!WithStatus(@, s, ids)],
                  {<<"strategy", k, x>> : x \in ids})
  BY DEF Memory!update_status
<1>2. Memory!Calls
  BY DEF Memory!update_status
<1>3. CASE Memory!View(c).strategies[k] = None
  BY <1>1, <1>2, <1>3, SpentKeepsInv DEF Memory!Unchanged
<1>4. CASE Memory!View(c).strategies[k] # None
  <2> DEFINE old == Memory!View(c).strategies[k]
             row == Memory!WithStatus(old, s, ids)
  <2>1. Memory!With(c, StrategyWritten(Memory!View(c), k, row), {<<"strategy", k, x>> : x \in ids})
    BY <1>1, <1>4 DEF StrategyWritten
  <2>2. old \in Memory!Strategy
    BY <1>4, ViewIsSound, TablesAre
  <2>3. row \in Memory!Strategy /\ row.evidence = old.evidence \cup ids /\ row.cited = ids
    BY <2>2 DEF Memory!Strategy, Memory!WithStatus
  <2>4. /\ ids \in SUBSET row.evidence /\ row.cited # {} /\ row.cited \subseteq row.evidence
        /\ Memory!View(c).strategies[k].evidence \subseteq row.evidence
    BY <2>3
  <2> HIDE DEF row
  <2>5. QED
    BY <1>2, <2>1, <2>3, <2>4, StrategyCallKeeps
<1>5. QED
  BY <1>3, <1>4

\* An outcome is recorded only for a strategy the connection reads.
LEMMA RecordOutcomeKeeps ==
  ASSUME Memory!NoneAssumption, Memory!BoundAssumption, KnowledgeInv, NEW c \in Conns, Memory!record_outcome(c)
  PROVE  KnowledgeInv'
<1>1. PICK k \in Strategies, ids \in (SUBSET Evidence) \ {{}} :
        IF Memory!View(c).strategies[k] = None THEN Memory!Unchanged
        ELSE Memory!With(c, [Memory!View(c) EXCEPT !.outcomes[calls + 1] = [key |-> k, evidence |-> ids]], {})
  BY DEF Memory!record_outcome
<1>2. Memory!Calls /\ calls + 1 \in Memory!Ids
  BY TheNextIdIsFree DEF Memory!record_outcome
<1>3. CASE Memory!View(c).strategies[k] = None
  BY <1>1, <1>2, <1>3, SpentKeepsInv DEF Memory!Unchanged
<1>4. CASE Memory!View(c).strategies[k] # None
  <2> DEFINE V == Memory!View(c)
             row == [key |-> k, evidence |-> ids]
             T == OutcomeWritten(V, calls + 1, row)
  <2>1. Memory!With(c, T, {})
    BY <1>1, <1>4 DEF OutcomeWritten
  <2>2. Sound(V, calls, recalled) /\ recalled \in SUBSET Told /\ calls \in Nat
    BY ViewIsSound
  <2>3. row \in Memory!Outcome /\ row.key = k
    BY DEF Memory!Outcome
  <2>4. V.strategies[row.key] # None
    BY <1>4, <2>3
  <2> HIDE DEF V, row
  <2>5. Sound(T, calls + 1, recalled)
    BY <1>2, <2>2, <2>3, <2>4, OutcomeIsWritten
  <2>6. Sound(T, calls + 1, recalled \cup {})
    BY <2>5, ToldToo
  <2> HIDE DEF T
  <2>7. QED
    BY <1>2, <2>1, <2>6, WithKeepsInv
<1>5. QED
  BY <1>3, <1>4

\* A result is inserted under an id no row has.
LEMMA InsertSkillResultKeeps ==
  ASSUME Memory!NoneAssumption, Memory!BoundAssumption, KnowledgeInv, NEW c \in Conns, Memory!insert_skill_result(c)
  PROVE  KnowledgeInv'
<1>1. PICK r \in Memory!SkillResult :
        Memory!Bare(c, [Memory!View(c) EXCEPT !.results[calls + 1] = r], {<<"result", calls + 1, r.success>>})
  BY DEF Memory!insert_skill_result
<1>2. Memory!Calls /\ calls + 1 \in Memory!Ids
  BY TheNextIdIsFree DEF Memory!insert_skill_result
<1> DEFINE V == Memory!View(c)
           T == ResultWritten(V, calls + 1, r)
           told == {<<"result", calls + 1, r.success>>}
<1>3. Memory!Bare(c, T, told)
  BY <1>1 DEF ResultWritten
<1>4. Sound(V, calls, recalled) /\ recalled \in SUBSET Told /\ calls \in Nat
  BY ViewIsSound
<1>5. told \in SUBSET Told
  BY <1>2 DEF Told, Memory!SkillResult
<1> HIDE DEF V
<1>6. /\ Sound(ResultWritten(V, calls + 1, r), calls + 1, recalled)
      /\ Holds(ResultWritten(V, calls + 1, r), <<"result", calls + 1, r.success>>)
  BY <1>2, <1>4, ResultIsWritten
<1>7. \A x \in told : Holds(T, x)
  BY <1>6
<1>8. Sound(T, calls + 1, recalled \cup told)
  BY <1>6, <1>7, ToldToo
<1> HIDE DEF T, told
<1>9. QED
  BY <1>2, <1>3, <1>5, <1>8, BareKeepsInv
-----------------------------------------------------------------------------
(* The invariant, and what it says. *)

\* The empty tables are sound.
LEMMA NothingIsSound ==
  ASSUME Memory!Init, Memory!BoundAssumption
  PROVE  KnowledgeInv
<1>1. db.facts = [i \in Memory!Ids |-> None] /\ db.strategies = [k \in Strategies |-> None]
      /\ db.outcomes = [i \in Memory!Ids |-> None] /\ db.results = [i \in Memory!Ids |-> None]
  BY DEF Memory!Init, Memory!Nothing
<1>2. db \in Memory!Tables
  BY DEF Memory!Init, Memory!Nothing, Memory!Tables
<1>3. FactsBacked(db) /\ StrategiesBacked(db) /\ OutcomesBacked(db) /\ Given(db, 0)
  BY <1>1 DEF FactsBacked, StrategiesBacked, OutcomesBacked, Given
<1>4. QED
  BY <1>2, <1>3 DEF Memory!Init, KnowledgeInv, OneWriter, Sound, Memory!BoundAssumption

\* Every step keeps the invariant: a lemma per call, and the close of a connection.
LEMMA StepsKeepTheMemorySound ==
  ASSUME Memory!NoneAssumption, Memory!BoundAssumption, KnowledgeInv, [Memory!Next]_(Memory!vars)
  PROVE  KnowledgeInv'
<1>1. ASSUME NEW c \in Conns, Memory!Close(c)
      PROVE  KnowledgeInv'
  BY <1>1 DEF Memory!Close, KnowledgeInv, OneWriter
<1>2. CASE Memory!Next
  BY <1>1, <1>2, CreateFactKeeps, UpdateFactStatusKeeps, AppendFactEvidenceKeeps,
     CreateStrategyKeeps, AppendStrategyEvidenceKeeps, UpdateStatusKeeps, RecordOutcomeKeeps,
     InsertSkillResultKeeps DEF Memory!Next
<1>3. CASE UNCHANGED Memory!vars
  BY <1>3 DEF Memory!vars, KnowledgeInv, OneWriter
<1>4. QED
  BY <1>2, <1>3

\* The memory is always sound.
THEOREM MemoryIsAlwaysSound ==
  ASSUME Memory!NoneAssumption, Memory!BoundAssumption
  PROVE  Memory!Spec => []KnowledgeInv
<1>1. Memory!Init => KnowledgeInv
  BY NothingIsSound
<1>2. KnowledgeInv /\ [Memory!Next]_(Memory!vars) => KnowledgeInv'
  BY StepsKeepTheMemorySound
<1>3. QED
  BY <1>1, <1>2, PTL DEF Memory!Spec

\* Whatever a connection can read is sound.
LEMMA EveryViewIsSound ==
  ASSUME Memory!NoneAssumption, KnowledgeInv, NEW t \in Memory!Views
  PROVE  t \in Memory!Tables /\ Sound(t, calls, recalled)
BY DEF KnowledgeInv, Memory!Views, Sound

\* A set of results that were told is no larger than the set of their rows.
LEMMA FewerToldThanWritten ==
  ASSUME NEW n \in Nat, NEW W \in SUBSET (1..n), NEW b, NEW S,
         \A x \in S : x = <<"result", x[2], b>> /\ x[2] \in W
  PROVE  Cardinality(S) <= Cardinality(W)
<1> DEFINE f == [x \in S |-> x[2]]
<1>1. IsFiniteSet(W)
  <2>1. IsFiniteSet(1..n)
    BY FS_Interval
  <2>2. QED
    BY <2>1, FS_Subset
<1>2. f \in Injection(S, W)
  BY DEF Injection, IsInjective
<1>3. QED
  BY <1>1, <1>2, FS_Injection

LEMMA MemoryCounts ==
  ASSUME NEW S
  PROVE  Memory!Cardinality(S) = Cardinality(S)
BY DEF Memory!Cardinality, Cardinality

\* What the statistics count.
LEMMA StatisticsAreRight ==
  ASSUME Memory!NoneAssumption, Memory!BoundAssumption, KnowledgeInv
  PROVE  Memory!StatsCountResults
<1> DEFINE rows == db.results
           seen == {i \in Memory!Ids : rows[i] # None}
           wins == {i \in seen : rows[i].success}
           losses == seen \ wins
           told(b) == {x \in recalled : x[1] = "result" /\ x[3] = b}
           because(q) == {i \in losses : rows[i].reason = q}
<1>1. IsFiniteSet(seen) /\ Cardinality(seen) <= calls /\ Cardinality(seen) \in Nat
  <2>1. seen \subseteq 1..calls /\ calls \in Nat
    BY DEF KnowledgeInv, Sound, Given, Memory!Ids
  <2>2. IsFiniteSet(1..calls) /\ Cardinality(1..calls) = calls
    BY <2>1, FS_Interval
  <2>3. QED
    BY <2>1, <2>2, FS_Subset, FS_CardinalityType
<1>2. IsFiniteSet(losses) /\ Cardinality(losses) = Cardinality(seen) - Cardinality(wins)
  <2>1. IsFiniteSet(seen) /\ seen \cap wins = wins
    BY <1>1
  <2> HIDE DEF seen, wins
  <2>2. QED
    BY <2>1, FS_Difference
<1>3. \A x \in told(TRUE) : x = <<"result", x[2], TRUE>> /\ x[2] \in wins
  <2> SUFFICES ASSUME NEW x \in told(TRUE)
               PROVE  x = <<"result", x[2], TRUE>> /\ x[2] \in wins
    OBVIOUS
  <2>1. x \in Told /\ Holds(db, x) /\ x[1] = "result" /\ x[3] = TRUE
    BY DEF KnowledgeInv, Sound
  <2>2. x = <<"result", x[2], x[3]>> /\ x[2] \in Memory!Ids
    BY <2>1 DEF Told
  <2>3. rows[x[2]] # None /\ rows[x[2]].success = TRUE
    BY <2>1 DEF Holds
  <2>4. QED
    BY <2>1, <2>2, <2>3
<1>4. \A x \in told(FALSE) : x = <<"result", x[2], FALSE>> /\ x[2] \in losses
  <2> SUFFICES ASSUME NEW x \in told(FALSE)
               PROVE  x = <<"result", x[2], FALSE>> /\ x[2] \in losses
    OBVIOUS
  <2>1. x \in Told /\ Holds(db, x) /\ x[1] = "result" /\ x[3] = FALSE
    BY DEF KnowledgeInv, Sound
  <2>2. x = <<"result", x[2], x[3]>> /\ x[2] \in Memory!Ids
    BY <2>1 DEF Told
  <2>3. rows[x[2]] # None /\ rows[x[2]].success = FALSE
    BY <2>1 DEF Holds
  <2>4. QED
    BY <2>1, <2>2, <2>3
<1>5. wins \in SUBSET (1..MaxCalls) /\ losses \in SUBSET (1..MaxCalls) /\ MaxCalls \in Nat
  BY DEF Memory!Ids, Memory!BoundAssumption
<1>6. \A q \in Reasons : Cardinality(because(q)) <= Cardinality(losses)
  <2>1. \A q : because(q) \in SUBSET losses
    OBVIOUS
  <2>2. QED
    BY <1>2, <2>1, FS_Subset
<1> HIDE DEF told, wins, losses, seen
<1>7. Cardinality(told(TRUE)) <= Cardinality(wins)
  BY <1>3, <1>5, FewerToldThanWritten
<1>8. Cardinality(told(FALSE)) <= Cardinality(losses)
  BY <1>4, <1>5, FewerToldThanWritten
<1> USE DEF seen, wins, losses
<1>9. Memory!Stats(db.results) =
        [total |-> Memory!Cardinality(seen), success |-> Memory!Cardinality(wins),
         failure |-> Memory!Cardinality(seen) - Memory!Cardinality(wins),
         reasons |-> [q \in Reasons |-> Memory!Cardinality(because(q))]]
  BY DEF Memory!Stats
<1>10. Memory!StatsCountResults <=>
         /\ Memory!Cardinality(told(TRUE)) <= Memory!Stats(db.results).success
         /\ Memory!Cardinality(told(FALSE)) <= Memory!Stats(db.results).failure
         /\ Memory!Stats(db.results).total <= calls
         /\ \A q \in Reasons : Memory!Stats(db.results).reasons[q] <= Memory!Stats(db.results).failure
  BY DEF Memory!StatsCountResults, told
<1> HIDE DEF because, rows, seen, wins, losses, told
<1>11. /\ Memory!Stats(db.results).total = Cardinality(seen)
       /\ Memory!Stats(db.results).success = Cardinality(wins)
       /\ Memory!Stats(db.results).failure = Cardinality(losses)
  BY <1>2, <1>9, MemoryCounts
<1>12. \A q \in Reasons : Memory!Stats(db.results).reasons[q] = Cardinality(because(q))
  BY <1>9, MemoryCounts
<1>13. Memory!Cardinality(told(TRUE)) = Cardinality(told(TRUE)) /\ Memory!Cardinality(told(FALSE)) = Cardinality(told(FALSE))
  BY MemoryCounts
<1>14. QED
  BY <1>1, <1>6, <1>7, <1>8, <1>10, <1>11, <1>12, <1>13

-----------------------------------------------------------------------------
(* The properties. *)

\* Committed tables and open transactions are tables.
THEOREM MemoryTypeCorrect ==
  ASSUME Memory!NoneAssumption, Memory!BoundAssumption
  PROVE  Memory!Spec => []Memory!TypeOK
<1>1. KnowledgeInv => Memory!TypeOK
  BY EveryViewIsSound DEF Memory!TypeOK, KnowledgeInv, Memory!BoundAssumption
<1>2. QED
  BY <1>1, MemoryIsAlwaysSound, PTL

\* EvidenceBacked: nothing is readable without the evidence it was written with.
THEOREM EvidenceIsBehindEverything ==
  ASSUME Memory!NoneAssumption, Memory!BoundAssumption
  PROVE  Memory!Spec => []Memory!EvidenceBacked
<1>1. KnowledgeInv => Memory!EvidenceBacked
  BY EveryViewIsSound
  DEF Memory!EvidenceBacked, Sound, FactsBacked, StrategiesBacked, OutcomesBacked
<1>2. QED
  BY <1>1, MemoryIsAlwaysSound, PTL

\* ReturnedIsCommitted: what a call that returned has told is committed, for good.
THEOREM ReturnedStaysCommitted ==
  ASSUME Memory!NoneAssumption, Memory!BoundAssumption
  PROVE  Memory!Spec => []Memory!ReturnedIsCommitted
<1>1. KnowledgeInv => Memory!ReturnedIsCommitted
  BY DEF KnowledgeInv, Sound, Holds, Memory!ReturnedIsCommitted
<1>2. QED
  BY <1>1, MemoryIsAlwaysSound, PTL

\* StatsCountResults: the statistics count every result that was told.
THEOREM StatisticsCountResults ==
  ASSUME Memory!NoneAssumption, Memory!BoundAssumption
  PROVE  Memory!Spec => []Memory!StatsCountResults
<1>1. KnowledgeInv => Memory!StatsCountResults
  BY StatisticsAreRight
<1>2. QED
  BY <1>1, MemoryIsAlwaysSound, PTL

-----------------------------------------------------------------------------
(* RoomGraph.                                                               *)

Graph == INSTANCE RoomGraph WITH pc <- gpc, call <- gcall, calls <- gcalls

\* A call under way has arguments that passed the checks.
CallsAreValid ==
  \A c \in Conns : gpc[c] # "idle" =>
    /\ gcall[c] \in [key : Graph!Keys, args : Graph!Args]
    /\ Graph!Valid(gcall[c].args)

\* The room r is known with at least the confidence and all the evidence of a.
Covers(row, a) == row # None /\ row.conf >= a.conf /\ a.ids \subseteq row.evidence

\* What a call has visited so far covers its arguments.
VisitedRoomsCover ==
  \A c \in Conns :
    /\ gpc[c] \in {"to", "edge"} => Covers(rooms[gcall[c].key[1]], gcall[c].args)
    /\ gpc[c] = "edge" => Covers(rooms[gcall[c].key[2]], gcall[c].args)

GraphInv ==
  /\ Graph!TypeOK /\ gcall \in [Conns -> {None} \cup [key : Graph!Keys, args : Graph!Args]]
  /\ CallsAreValid /\ VisitedRoomsCover /\ Graph!EdgesJoinKnownRooms

\* The upsert of a room leaves a row that covers its arguments and everything the row before knew.
RoomGrows(old, new) ==
  old # None =>
    /\ new # None /\ new.conf >= old.conf /\ new.visits >= old.visits
    /\ old.evidence \subseteq new.evidence /\ (old.meta # None => new.meta # None)

\* The same of a transition.
EdgeGrows(old, new) ==
  old # None =>
    /\ new # None /\ new.conf >= old.conf /\ new.count >= old.count
    /\ old.evidence \subseteq new.evidence /\ (old.meta # None => new.meta # None)

\* A step only adds to rooms and transitions.
OnlyAdds ==
  /\ \A r \in Rooms : RoomGrows(rooms[r], rooms'[r])
  /\ \A t \in Graph!Keys : EdgeGrows(edges[t], edges'[t])

\* What an upsert of a room leaves: a row of the right kind that covers the arguments of the call and keeps what
\* the row before it knew.
LEMMA RoomUpsert ==
  ASSUME Graph!NoneAssumption, Graph!BoundAssumption,
         NEW row \in Graph!RoomRow \cup {None},
         NEW conf \in Graph!Confidences, NEW meta \in Meta \cup {None}, NEW ids \in SUBSET Evidence
  PROVE  LET new == Graph!UpsertedRoom(row, conf, meta, ids) IN
         /\ new \in Graph!RoomRow /\ new # None
         /\ new.conf >= conf /\ ids \subseteq new.evidence
         /\ RoomGrows(row, new)
<1> USE DEF Graph!UpsertedRoom, Graph!RoomRow, Graph!Confidences, Graph!BoundAssumption, Graph!Greater, Graph!Coalesce
<1> DEFINE new == Graph!UpsertedRoom(row, conf, meta, ids)
<1>1. new \in Graph!RoomRow
  OBVIOUS
<1>2. new # None
  BY <1>1 DEF Graph!NoneAssumption
<1>3. new.conf >= conf /\ ids \subseteq new.evidence
  OBVIOUS
<1>4. RoomGrows(row, new)
  BY <1>2 DEF RoomGrows
<1> QED
  BY <1>1, <1>2, <1>3, <1>4

\* The same of the upsert of a transition, whose confidence and evidence are the row's or the call's.
LEMMA EdgeUpsert ==
  ASSUME Graph!NoneAssumption, Graph!BoundAssumption,
         NEW row \in Graph!EdgeRow \cup {None},
         NEW conf \in Graph!Confidences, NEW meta \in Meta \cup {None}, NEW ids \in SUBSET Evidence
  PROVE  LET new == Graph!UpsertedEdge(row, conf, meta, ids) IN
         /\ new \in Graph!EdgeRow /\ new # None
         /\ \/ new.conf = conf
            \/ row # None /\ new.conf = row.conf
         /\ new.evidence \subseteq ids \cup (IF row = None THEN {} ELSE row.evidence)
         /\ EdgeGrows(row, new)
<1> USE DEF Graph!UpsertedEdge, Graph!EdgeRow, Graph!Confidences, Graph!BoundAssumption, Graph!Greater, Graph!Coalesce
<1> DEFINE new == Graph!UpsertedEdge(row, conf, meta, ids)
<1>1. new \in Graph!EdgeRow
  OBVIOUS
<1>2. new # None
  BY <1>1 DEF Graph!NoneAssumption
<1>3. \/ new.conf = conf
      \/ row # None /\ new.conf = row.conf
  OBVIOUS
<1>4. new.evidence \subseteq ids \cup (IF row = None THEN {} ELSE row.evidence)
  OBVIOUS
<1>5. EdgeGrows(row, new)
  BY <1>2 DEF EdgeGrows
<1> QED
  BY <1>1, <1>2, <1>3, <1>4, <1>5

\* Rooms and transitions that only grow keep every transition between rooms that cover it.
LEMMA GrowingRoomsCover ==
  ASSUME NEW old, NEW new, NEW a, RoomGrows(old, new), Covers(old, a),
         old \in Graph!RoomRow \cup {None}, new \in Graph!RoomRow \cup {None},
         a.conf \in Int, Graph!BoundAssumption, Graph!NoneAssumption
  PROVE  Covers(new, a)
<1>1. new # None /\ new \in Graph!RoomRow /\ old \in Graph!RoomRow
  BY DEF RoomGrows, Covers
<1> QED
  BY <1>1 DEF RoomGrows, Covers, Graph!RoomRow, Graph!Confidences, Graph!BoundAssumption

LEMMA GraphInit ==
  ASSUME Graph!Init
  PROVE  GraphInv
BY DEF Graph!Init, GraphInv, Graph!TypeOK, CallsAreValid, VisitedRoomsCover, Graph!EdgesJoinKnownRooms

\* A valid argument has no hidden metadata.
LEMMA ValidArguments ==
  ASSUME NEW a \in Graph!Args, Graph!Valid(a)
  PROVE  /\ a.conf \in Graph!Confidences /\ a.meta \in Meta \cup {None} /\ a.ids \in SUBSET Evidence
         /\ a.conf \in Int
BY DEF Graph!Args, Graph!Valid, Graph!Confidences

\* What one connection's visit does: a room grows, and covers the arguments it was visited with.
LEMMA RoomStep ==
  ASSUME Graph!NoneAssumption, Graph!BoundAssumption, GraphInv,
         NEW r \in Rooms, NEW conf \in Graph!Confidences, NEW meta \in Meta \cup {None}, NEW ids \in SUBSET Evidence,
         rooms' = [rooms EXCEPT ![r] = Graph!UpsertedRoom(@, conf, meta, ids)]
  PROVE  /\ rooms' \in [Rooms -> Graph!RoomRow \cup {None}]
         /\ \A s \in Rooms : RoomGrows(rooms[s], rooms'[s])
         /\ rooms'[r] # None /\ rooms'[r].conf >= conf /\ ids \subseteq rooms'[r].evidence
<1>1. rooms \in [Rooms -> Graph!RoomRow \cup {None}]
  BY DEF GraphInv, Graph!TypeOK
<1>2. rooms'[r] = Graph!UpsertedRoom(rooms[r], conf, meta, ids)
  BY <1>1
<1>3. /\ rooms'[r] \in Graph!RoomRow /\ rooms'[r] # None
      /\ rooms'[r].conf >= conf /\ ids \subseteq rooms'[r].evidence
      /\ RoomGrows(rooms[r], rooms'[r])
  BY <1>1, <1>2, RoomUpsert
<1>4. \A s \in Rooms \ {r} : rooms'[s] = rooms[s]
  BY <1>1
<1>5. rooms' \in [Rooms -> Graph!RoomRow \cup {None}]
  BY <1>1, <1>3
<1>6. ASSUME NEW s \in Rooms PROVE RoomGrows(rooms[s], rooms'[s])
  <2>1. CASE s = r
    BY <2>1, <1>3
  <2>2. CASE s # r
    BY <2>2, <1>1, <1>4 DEF RoomGrows, Graph!RoomRow, Graph!Confidences, Graph!BoundAssumption
  <2> QED
    BY <2>1, <2>2
<1> QED
  BY <1>3, <1>5, <1>6

\* What recording a transition does: it grows, and what is new of it comes from the call.
LEMMA EdgeStep ==
  ASSUME Graph!NoneAssumption, Graph!BoundAssumption, GraphInv,
         NEW k \in Graph!Keys, NEW conf \in Graph!Confidences, NEW meta \in Meta \cup {None},
         NEW ids \in SUBSET Evidence,
         edges' = [edges EXCEPT ![k] = Graph!UpsertedEdge(@, conf, meta, ids)]
  PROVE  /\ \A t \in Graph!Keys \ {k} : edges'[t] = edges[t]
         /\ \/ edges'[k].conf = conf
            \/ edges[k] # None /\ edges'[k].conf = edges[k].conf
         /\ edges'[k].evidence \subseteq ids \cup (IF edges[k] = None THEN {} ELSE edges[k].evidence)
         /\ edges' \in [Graph!Keys -> Graph!EdgeRow \cup {None}]
         /\ \A t \in Graph!Keys : EdgeGrows(edges[t], edges'[t])
<1>1. edges \in [Graph!Keys -> Graph!EdgeRow \cup {None}]
  BY DEF GraphInv, Graph!TypeOK
<1> DEFINE row == edges[k]
           new == Graph!UpsertedEdge(row, conf, meta, ids)
<1>2. row \in Graph!EdgeRow \cup {None} /\ edges'[k] = new
  BY <1>1
<1>3. /\ new \in Graph!EdgeRow /\ new # None
      /\ \/ new.conf = conf
         \/ row # None /\ new.conf = row.conf
      /\ new.evidence \subseteq ids \cup (IF row = None THEN {} ELSE row.evidence)
      /\ EdgeGrows(row, new)
  <2>1. row \in Graph!EdgeRow \cup {None}
    BY <1>2
  <2> HIDE DEF row
  <2> QED
    BY <2>1, EdgeUpsert
<1>4. \A t \in Graph!Keys \ {k} : edges'[t] = edges[t]
  BY <1>1
<1>5. \A t \in Graph!Keys : EdgeGrows(edges[t], edges[t])
  BY <1>1 DEF EdgeGrows, Graph!EdgeRow, Graph!Confidences, Graph!BoundAssumption
<1> HIDE DEF new
<1> QED
  BY <1>1, <1>2, <1>3, <1>4, <1>5

\* While rooms grow and transitions stay, transitions join known rooms, and the visits of calls that stay where
\* they are cover their arguments.
LEMMA CoverageIsKept ==
  ASSUME Graph!NoneAssumption, Graph!BoundAssumption, GraphInv,
         rooms' \in [Rooms -> Graph!RoomRow \cup {None}],
         \A s \in Rooms : RoomGrows(rooms[s], rooms'[s])
  PROVE  /\ \A t \in Graph!Keys, s \in Rooms : edges[t] # None /\ s \in {t[1], t[2]} =>
              /\ rooms'[s] # None /\ rooms'[s].conf >= edges[t].conf
              /\ edges[t].evidence \subseteq rooms'[s].evidence
         /\ \A c \in Conns, s \in Rooms :
              gpc[c] # "idle" /\ Covers(rooms[s], gcall[c].args) => Covers(rooms'[s], gcall[c].args)
<1>1. rooms \in [Rooms -> Graph!RoomRow \cup {None}] /\ edges \in [Graph!Keys -> Graph!EdgeRow \cup {None}]
  BY DEF GraphInv, Graph!TypeOK
<1>2. ASSUME NEW t \in Graph!Keys, NEW s \in Rooms, edges[t] # None, s \in {t[1], t[2]}
      PROVE  /\ rooms'[s] # None /\ rooms'[s].conf >= edges[t].conf
             /\ edges[t].evidence \subseteq rooms'[s].evidence
  <2>1. /\ rooms[s] # None /\ rooms[s].conf >= edges[t].conf
        /\ edges[t].evidence \subseteq rooms[s].evidence
    BY <1>2 DEF GraphInv, Graph!EdgesJoinKnownRooms
  <2>2. rooms'[s] \in Graph!RoomRow /\ rooms[s] \in Graph!RoomRow /\ edges[t] \in Graph!EdgeRow
    BY <1>1, <1>2, <2>1 DEF RoomGrows
  <2>3. RoomGrows(rooms[s], rooms'[s])
    OBVIOUS
  <2>4. {rooms'[s].conf, rooms[s].conf, edges[t].conf} \subseteq Int
    BY <2>2 DEF Graph!RoomRow, Graph!EdgeRow, Graph!Confidences
  <2> QED
    BY <2>1, <2>3, <2>4 DEF RoomGrows
<1>3. ASSUME NEW c \in Conns, NEW s \in Rooms, gpc[c] # "idle", Covers(rooms[s], gcall[c].args)
      PROVE  Covers(rooms'[s], gcall[c].args)
  <2>1. gcall[c].args \in Graph!Args /\ Graph!Valid(gcall[c].args)
    BY <1>3 DEF GraphInv, CallsAreValid
  <2> QED
    BY <2>1, <1>1, <1>3, ValidArguments, GrowingRoomsCover
<1> QED
  BY <1>2, <1>3

\* Every step of every connection keeps the invariant and only adds to what is stored.
LEMMA GraphStep ==
  ASSUME Graph!NoneAssumption, Graph!BoundAssumption, GraphInv, [Graph!Next]_Graph!vars
  PROVE  GraphInv' /\ OnlyAdds
<1> DEFINE GraphCalls == [key : Graph!Keys, args : Graph!Args]
<1>1. /\ rooms \in [Rooms -> Graph!RoomRow \cup {None}] /\ edges \in [Graph!Keys -> Graph!EdgeRow \cup {None}]
      /\ gpc \in [Conns -> {"idle", "from", "to", "edge"}] /\ gcall \in [Conns -> {None} \cup GraphCalls]
      /\ CallsAreValid /\ VisitedRoomsCover /\ Graph!EdgesJoinKnownRooms
  BY DEF GraphInv, Graph!TypeOK
<1>2. (\A s \in Rooms : RoomGrows(rooms[s], rooms[s])) /\ (\A t \in Graph!Keys : EdgeGrows(edges[t], edges[t]))
  BY <1>1 DEF RoomGrows, EdgeGrows, Graph!RoomRow, Graph!EdgeRow, Graph!Confidences, Graph!BoundAssumption
<1>3. ASSUME UNCHANGED Graph!vars PROVE GraphInv' /\ OnlyAdds
  <2>1. UNCHANGED <<rooms, edges, gpc, gcall>>
    BY <1>3 DEF Graph!vars
  <2> QED
    BY <2>1, <1>1, <1>2 DEF GraphInv, Graph!TypeOK, CallsAreValid, VisitedRoomsCover, Graph!EdgesJoinKnownRooms,
       OnlyAdds
<1>4. ASSUME NEW c \in Conns, Graph!upsert_room(c) PROVE GraphInv' /\ OnlyAdds
  <2>1. PICK r \in Rooms, a \in Graph!Args :
          Graph!Valid(a) /\ rooms' = [rooms EXCEPT ![r] = Graph!UpsertedRoom(@, a.conf, a.meta, a.ids)]
    BY <1>4 DEF Graph!upsert_room
  <2>2. UNCHANGED <<edges, gpc, gcall>>
    BY <1>4 DEF Graph!upsert_room
  <2>3. rooms' \in [Rooms -> Graph!RoomRow \cup {None}] /\ \A s \in Rooms : RoomGrows(rooms[s], rooms'[s])
    BY <2>1, ValidArguments, RoomStep
  <2>4. CallsAreValid'
    BY <1>1, <2>2 DEF CallsAreValid
  <2>5. VisitedRoomsCover'
    BY <1>1, <2>2, <2>3, CoverageIsKept DEF VisitedRoomsCover, CallsAreValid, Graph!Keys
  <2>6. Graph!EdgesJoinKnownRooms'
    BY <1>1, <2>2, <2>3, CoverageIsKept DEF Graph!EdgesJoinKnownRooms, Graph!Keys
  <2> QED
    BY <1>1, <1>2, <2>2, <2>3, <2>4, <2>5, <2>6 DEF GraphInv, Graph!TypeOK, OnlyAdds
<1>5. ASSUME NEW c \in Conns, Graph!record_transition(c) PROVE GraphInv' /\ OnlyAdds
  <2>1. PICK t \in Graph!Keys, a \in Graph!Args :
          Graph!Valid(a) /\ gcall' = [gcall EXCEPT ![c] = [key |-> t, args |-> a]]
    BY <1>5 DEF Graph!record_transition
  <2>2. gpc' = [gpc EXCEPT ![c] = "from"] /\ UNCHANGED <<rooms, edges>>
    BY <1>5 DEF Graph!record_transition
  <2>3. gcall'[c] = [key |-> t, args |-> a] /\ gcall'[c] \in GraphCalls /\ gpc'[c] = "from"
    BY <1>1, <2>1, <2>2
  <2>4. \A d \in Conns \ {c} : gcall'[d] = gcall[d] /\ gpc'[d] = gpc[d]
    BY <1>1, <2>1, <2>2
  <2>5. CallsAreValid'
    BY <1>1, <2>1, <2>3, <2>4 DEF CallsAreValid
  <2>6. VisitedRoomsCover'
    BY <1>1, <2>2, <2>3, <2>4 DEF VisitedRoomsCover
  <2>7. gcall' \in [Conns -> {None} \cup GraphCalls] /\ gpc' \in [Conns -> {"idle", "from", "to", "edge"}]
    BY <1>1, <2>1, <2>2
  <2> QED
    BY <1>1, <1>2, <2>2, <2>5, <2>6, <2>7 DEF GraphInv, Graph!TypeOK, Graph!EdgesJoinKnownRooms, OnlyAdds
<1>6. ASSUME NEW c \in Conns, Graph!Refuse(c) PROVE GraphInv' /\ OnlyAdds
  <2>1. UNCHANGED <<rooms, edges, gpc, gcall>>
    BY <1>6 DEF Graph!Refuse
  <2> QED
    BY <2>1, <1>1, <1>2 DEF GraphInv, Graph!TypeOK, CallsAreValid, VisitedRoomsCover, Graph!EdgesJoinKnownRooms,
       OnlyAdds
<1>7. ASSUME NEW c \in Conns, NEW n \in {1, 2}, NEW next \in {"to", "edge"},
             gpc[c] = IF n = 1 THEN "from" ELSE "to", next = IF n = 1 THEN "to" ELSE "edge",
             Graph!Visit(c, gpc[c], gcall[c].key[n], next)
      PROVE  GraphInv' /\ OnlyAdds
  <2>1. gcall[c] \in GraphCalls /\ Graph!Valid(gcall[c].args) /\ gpc[c] # "idle"
    BY <1>1, <1>7 DEF CallsAreValid
  <2> DEFINE a == gcall[c].args
             r == gcall[c].key[n]
  <2>2. a \in Graph!Args /\ r \in Rooms
    BY <2>1 DEF Graph!Keys
  <2>3. /\ rooms' = [rooms EXCEPT ![r] = Graph!UpsertedRoom(@, a.conf, None, a.ids)]
        /\ gpc' = [gpc EXCEPT ![c] = next] /\ UNCHANGED <<edges, gcall>>
    BY <1>7 DEF Graph!Visit
  <2>4. /\ rooms' \in [Rooms -> Graph!RoomRow \cup {None}] /\ \A s \in Rooms : RoomGrows(rooms[s], rooms'[s])
        /\ Covers(rooms'[r], a)
    BY <2>1, <2>2, <2>3, ValidArguments, RoomStep DEF Covers
  <2>5. gpc' \in [Conns -> {"idle", "from", "to", "edge"}] /\ gpc'[c] = next /\ \A d \in Conns \ {c} : gpc'[d] = gpc[d]
    BY <1>1, <2>3
  <2>6. CallsAreValid'
    BY <1>1, <2>1, <2>3, <2>5 DEF CallsAreValid
  <2>7. VisitedRoomsCover'
    <3>1. ASSUME NEW d \in Conns, d # c
          PROVE  /\ gpc'[d] \in {"to", "edge"} => Covers(rooms'[gcall'[d].key[1]], gcall'[d].args)
                 /\ gpc'[d] = "edge" => Covers(rooms'[gcall'[d].key[2]], gcall'[d].args)
      BY <1>1, <2>3, <2>4, <2>5, <3>1, CoverageIsKept DEF VisitedRoomsCover, CallsAreValid, Graph!Keys
    <3>2. /\ gpc'[c] \in {"to", "edge"} => Covers(rooms'[gcall'[c].key[1]], gcall'[c].args)
          /\ gpc'[c] = "edge" => Covers(rooms'[gcall'[c].key[2]], gcall'[c].args)
      <4>1. CASE n = 1
        BY <4>1, <1>7, <2>3, <2>4, <2>5
      <4>2. CASE n = 2
        <5>1. Covers(rooms[gcall[c].key[1]], a) /\ gcall[c].key[1] \in Rooms
          BY <4>2, <1>1, <1>7, <2>1 DEF VisitedRoomsCover, Graph!Keys
        <5>2. Covers(rooms'[gcall[c].key[1]], a)
          BY <5>1, <2>1, <2>4, CoverageIsKept
        <5> QED
          BY <4>2, <5>2, <1>7, <2>3, <2>4, <2>5
      <4> QED
        BY <4>1, <4>2
    <3> QED
      BY <3>1, <3>2 DEF VisitedRoomsCover
  <2>8. Graph!EdgesJoinKnownRooms'
    BY <1>1, <2>3, <2>4, CoverageIsKept DEF Graph!EdgesJoinKnownRooms, Graph!Keys
  <2> QED
    BY <1>1, <1>2, <2>3, <2>4, <2>5, <2>6, <2>7, <2>8 DEF GraphInv, Graph!TypeOK, OnlyAdds
<1>8. ASSUME NEW c \in Conns, Graph!RecordEdge(c) PROVE GraphInv' /\ OnlyAdds
  <2> DEFINE a == gcall[c].args
             k == gcall[c].key
  <2>1. gpc[c] = "edge" /\ gcall[c] \in GraphCalls /\ Graph!Valid(a) /\ k \in Graph!Keys /\ a \in Graph!Args
    BY <1>1, <1>8 DEF CallsAreValid, Graph!RecordEdge
  <2>2. /\ edges' = [edges EXCEPT ![k] = Graph!UpsertedEdge(@, a.conf, a.meta, a.ids)]
        /\ gpc' = [gpc EXCEPT ![c] = "idle"] /\ gcall' = [gcall EXCEPT ![c] = None] /\ UNCHANGED rooms
    BY <1>8 DEF Graph!RecordEdge
  <2>3. a.conf \in Graph!Confidences /\ a.meta \in Meta \cup {None} /\ a.ids \in SUBSET Evidence
    BY <2>1, ValidArguments
  <2>4. /\ \A t \in Graph!Keys \ {k} : edges'[t] = edges[t]
        /\ \/ edges'[k].conf = a.conf
           \/ edges[k] # None /\ edges'[k].conf = edges[k].conf
        /\ edges'[k].evidence \subseteq a.ids \cup (IF edges[k] = None THEN {} ELSE edges[k].evidence)
        /\ edges' \in [Graph!Keys -> Graph!EdgeRow \cup {None}]
        /\ \A t \in Graph!Keys : EdgeGrows(edges[t], edges'[t])
    <3> HIDE DEF a, k
    <3> QED
      BY <2>1, <2>2, <2>3, EdgeStep
  <2>7. /\ gpc' \in [Conns -> {"idle", "from", "to", "edge"}] /\ gcall' \in [Conns -> {None} \cup GraphCalls]
        /\ gpc'[c] = "idle" /\ \A d \in Conns \ {c} : gpc'[d] = gpc[d] /\ gcall'[d] = gcall[d]
    BY <1>1, <2>2
  <2>8. CallsAreValid' /\ VisitedRoomsCover'
    BY <1>1, <2>2, <2>7 DEF CallsAreValid, VisitedRoomsCover
  <2>9. ASSUME NEW r \in {k[1], k[2]}
        PROVE  /\ rooms[r] # None /\ rooms[r].conf >= edges'[k].conf
               /\ edges'[k].evidence \subseteq rooms[r].evidence
    <3>1. Covers(rooms[r], a)
      BY <1>1, <2>1 DEF VisitedRoomsCover
    <3>2. edges[k] # None => rooms[r].conf >= edges[k].conf /\ edges[k].evidence \subseteq rooms[r].evidence
      BY <1>1, <2>1 DEF Graph!EdgesJoinKnownRooms
    <3> QED
      BY <2>4, <3>1, <3>2 DEF Covers
  <2>10. Graph!EdgesJoinKnownRooms'
    BY <1>1, <2>2, <2>4, <2>9 DEF Graph!EdgesJoinKnownRooms
  <2> QED
    BY <1>1, <1>2, <2>2, <2>4, <2>7, <2>8, <2>10 DEF GraphInv, Graph!TypeOK, OnlyAdds
<1>9. ASSUME NEW c \in Conns, Graph!Raise(c) PROVE GraphInv' /\ OnlyAdds
  <2>1. gpc' = [gpc EXCEPT ![c] = "idle"] /\ gcall' = [gcall EXCEPT ![c] = None] /\ UNCHANGED <<rooms, edges>>
    BY <1>9 DEF Graph!Raise
  <2>2. /\ gpc' \in [Conns -> {"idle", "from", "to", "edge"}] /\ gcall' \in [Conns -> {None} \cup GraphCalls]
        /\ gpc'[c] = "idle" /\ \A d \in Conns \ {c} : gpc'[d] = gpc[d] /\ gcall'[d] = gcall[d]
    BY <1>1, <2>1
  <2>3. CallsAreValid' /\ VisitedRoomsCover'
    BY <1>1, <2>1, <2>2 DEF CallsAreValid, VisitedRoomsCover
  <2> QED
    BY <1>1, <1>2, <2>1, <2>2, <2>3 DEF GraphInv, Graph!TypeOK, Graph!EdgesJoinKnownRooms, OnlyAdds
<1>10. ASSUME NEW c \in Conns, Graph!Leave(c) PROVE GraphInv' /\ OnlyAdds
  BY <1>7, <1>10 DEF Graph!Leave
<1>11. ASSUME NEW c \in Conns, Graph!Enter(c) PROVE GraphInv' /\ OnlyAdds
  BY <1>7, <1>11 DEF Graph!Enter
<1> QED
  BY <1>3, <1>4, <1>5, <1>6, <1>8, <1>9, <1>10, <1>11 DEF Graph!Next

\* What the calls under way and the tables have to do with each other.
THEOREM GraphIsAlwaysSound ==
  ASSUME Graph!NoneAssumption, Graph!BoundAssumption
  PROVE  Graph!Spec => []GraphInv
<1>1. Graph!Init => GraphInv
  BY GraphInit
<1>2. GraphInv /\ [Graph!Next]_Graph!vars => GraphInv'
  BY GraphStep
<1> QED
  BY <1>1, <1>2, PTL DEF Graph!Spec

\* Types of the two tables, for any number of connections.
THEOREM GraphTypeCorrect ==
  ASSUME Graph!NoneAssumption, Graph!BoundAssumption
  PROVE  Graph!Spec => []Graph!TypeOK
<1>1. GraphInv => Graph!TypeOK
  BY DEF GraphInv
<1> QED
  BY <1>1, GraphIsAlwaysSound, PTL

\* EdgesJoinKnownRooms: both rooms of a transition are known, with its confidence and evidence at least, even when a
\* call ends between its transactions.
THEOREM EdgesAlwaysJoinKnownRooms ==
  ASSUME Graph!NoneAssumption, Graph!BoundAssumption
  PROVE  Graph!Spec => []Graph!EdgesJoinKnownRooms
<1>1. GraphInv => Graph!EdgesJoinKnownRooms
  BY DEF GraphInv
<1> QED
  BY <1>1, GraphIsAlwaysSound, PTL

\* MemoryOnlyGrows: no step of any connection takes confidence, counts, evidence or metadata away.
THEOREM RoomMemoryOnlyGrows ==
  ASSUME Graph!NoneAssumption, Graph!BoundAssumption
  PROVE  Graph!Spec => [][Graph!MemoryOnlyGrows]_Graph!vars
<1>1. GraphInv /\ [Graph!Next]_Graph!vars => [Graph!MemoryOnlyGrows]_Graph!vars
  BY GraphStep DEF OnlyAdds, RoomGrows, EdgeGrows, Graph!MemoryOnlyGrows
<1> QED
  BY <1>1, GraphIsAlwaysSound, PTL DEF Graph!Spec

-----------------------------------------------------------------------------
(* EntityRisk.                                                              *)

Risk == INSTANCE EntityRisk WITH now <- rnow, events <- revents, pc <- rpc, op <- rop

RiskEvent ==
  [id : Nat, outcome : Outcomes, conf : Confidences, after : 0..Risk!MaxScore, at : Nat,
   evidence : SUBSET Evidence, begun : Nat, seen : Nat]
RiskCall ==
  [key : Keys, outcome : Outcomes, conf : Confidences, evidence : SUBSET Evidence, repeated : BOOLEAN,
   at : Nat, id : Nat, begun : Nat, seen : Nat, current : [score : 0..Risk!MaxScore, total : Nat]]

\* The score the first n events of a key had come to.
ScoreAt(es, n) == IF n = 0 THEN 0 ELSE es[n].after

\* The first n events were made one at a time.
Serial(es, n) == \A i \in 1..n : es[i].seen = i - 1

\* A row is the one its last event wrote.
RowFits(row, es) ==
  IF Len(es) = 0 THEN row = None
  ELSE /\ row # None
       /\ row.score = es[Len(es)].after /\ row.last = es[Len(es)].outcome
       /\ row.updated = es[Len(es)].at /\ row.created = es[1].at
       /\ row.total \in 1..Len(es) /\ (Serial(es, Len(es)) => row.total = Len(es))

\* An event adds to the score of the events its call had read.
EventsAddUp(es) ==
  \A i \in DOMAIN es :
    /\ es[i].seen \in 0..(i - 1)
    /\ es[i].after = Risk!Clamp(ScoreAt(es, es[i].seen) + Risk!Weight[es[i].outcome] * es[i].conf)

\* What a call has read is what the events came to then.
ReadFits(o, es) ==
  /\ o.seen \in 0..Len(es) /\ o.current.score = ScoreAt(es, o.seen) /\ o.current.total \in 0..o.seen
  /\ Serial(es, o.seen) => o.current.total = o.seen

\* The event of a call is there; a row that is read back is covered by events.
OwnEventIsThere(o, es) == \E i \in DOMAIN es : es[i].evidence = o.evidence
BackFits(row, es) ==
  row \in Risk!Row /\ row.total <= Len(es) /\ \E i \in DOMAIN es : es[i].outcome = row.last

RiskTypes ==
  /\ risks \in [Keys -> Risk!Row \cup {None}] /\ revents \in [Keys -> Seq(RiskEvent)]
  /\ rpc \in [Conns -> {"idle", "read", "write", "row", "counts"}]
  /\ rop \in [Conns -> RiskCall \cup {None}] /\ back \in [Conns -> Risk!Row \cup {None}]
  /\ DOMAIN ret = Conns /\ ret = [c \in Conns |-> ret[c]]
  /\ rnow \in 0..MaxTime /\ ops \in 0..MaxOps

LedgersFit == \A k \in Keys : RowFits(risks[k], revents[k]) /\ EventsAddUp(revents[k])

CallsFit ==
  \A c \in Conns : rpc[c] # "idle" =>
    /\ rop[c] \in RiskCall
    /\ rpc[c] = "write" => ReadFits(rop[c], revents[rop[c].key])
    /\ rpc[c] \in {"row", "counts"} => OwnEventIsThere(rop[c], revents[rop[c].key])
    /\ rpc[c] = "counts" => BackFits(back[c], revents[rop[c].key])

RiskInv == RiskTypes /\ LedgersFit /\ CallsFit /\ Risk!ReturnedRecordsAreCovered

-----------------------------------------------------------------------------
\* The score of a call is a score.
LEMMA ScoresAreClamped ==
  ASSUME NEW n \in Int
  PROVE  Risk!Clamp(n) \in 0..Risk!MaxScore
BY DEF Risk!Clamp, Risk!MaxScore, Risk!Min2, Risk!Max2

LEMMA NextScoreType ==
  ASSUME Risk!OutcomesAssumption, Risk!ConfidencesAssumption, NEW o \in RiskCall
  PROVE  Risk!NextScore(o) \in 0..Risk!MaxScore
<1>1. o.current.score \in Int /\ o.conf \in Int /\ o.outcome \in DOMAIN Risk!Weight
  <2>1. o.current \in [score : 0..Risk!MaxScore, total : Nat] /\ o.conf \in Confidences /\ o.outcome \in Outcomes
    BY DEF RiskCall
  <2>2. o.current.score \in 0..Risk!MaxScore
    BY <2>1
  <2>3. o.current.score \in Int
    BY <2>2 DEF Risk!MaxScore
  <2>4. o.conf \in Int
    <3>1. Confidences \subseteq 0..2
      BY DEF Risk!ConfidencesAssumption
    <3>2. o.conf \in Confidences
      BY <2>1
    <3>3. o.conf \in 0..2
      BY <3>1, <3>2
    <3> QED
      BY <3>3
  <2>5. o.outcome \in DOMAIN Risk!Weight
    BY <2>1 DEF Risk!OutcomesAssumption
  <2> QED
    BY <2>3, <2>4, <2>5
<1>2. \A x \in DOMAIN Risk!Weight : Risk!Weight[x] \in Int
  BY DEF Risk!Weight
<1>3. o.current.score + Risk!Weight[o.outcome] * o.conf \in Int
  BY <1>1, <1>2
<1> QED
  BY <1>3, ScoresAreClamped DEF Risk!NextScore

\* What a call commits: an event, and a row that fits the events with it.
LEMMA CommitFits ==
  ASSUME Risk!OutcomesAssumption, Risk!ConfidencesAssumption, Risk!NoneAssumption,
         NEW o \in RiskCall, NEW row \in Risk!Row \cup {None}, NEW es \in Seq(RiskEvent),
         RowFits(row, es), EventsAddUp(es), ReadFits(o, es)
  PROVE  LET new == Risk!Upserted(o, row)
             longer == Append(es, Risk!EventOf(o))
         IN  /\ new \in Risk!Row /\ longer \in Seq(RiskEvent)
             /\ RowFits(new, longer) /\ EventsAddUp(longer) /\ OwnEventIsThere(o, longer)
<1> DEFINE new == Risk!Upserted(o, row)
           e == Risk!EventOf(o)
           n == Len(es)
           longer == Append(es, e)
<1>1. e \in RiskEvent /\ e.seen = o.seen /\ e.after = Risk!NextScore(o) /\ e.outcome = o.outcome /\ e.conf = o.conf
      /\ e.at = o.at /\ e.evidence = o.evidence
  BY NextScoreType DEF Risk!EventOf, RiskCall, RiskEvent
<1>2. new \in Risk!Row
  BY NextScoreType DEF Risk!Upserted, RiskCall, Risk!Row, RowFits
<1>3. new.score = e.after /\ new.last = e.outcome /\ new.updated = e.at /\ new.total = o.current.total + 1
      /\ new.created = IF row = None THEN o.at ELSE row.created
  BY <1>1 DEF Risk!Upserted
<1> HIDE DEF e, new
<1>4. /\ longer \in Seq(RiskEvent) /\ Len(longer) = n + 1 /\ longer[n + 1] = e
      /\ \A i \in 1..n : longer[i] = es[i]
      /\ DOMAIN longer = 1..(n + 1) /\ DOMAIN es = 1..n /\ n \in Nat
  BY <1>1
<1> HIDE DEF longer, n
<1>5. o.seen \in 0..n /\ o.current.total \in 0..o.seen /\ o.current.score = ScoreAt(es, o.seen)
  BY DEF ReadFits, n
<1>6. RowFits(new, longer)
  <2>1. new # None
    BY <1>2 DEF Risk!NoneAssumption
  <2>2. new.created = longer[1].at
    <3>1. CASE n = 0
      BY <3>1, <1>1, <1>3, <1>4 DEF RowFits, n
    <3>2. CASE n > 0
      BY <3>2, <1>3, <1>4 DEF RowFits, n
    <3> QED
      BY <3>1, <3>2, <1>4
  <2>3. new.total \in 1..Len(longer)
    BY <1>3, <1>4, <1>5
  <2>4. ASSUME Serial(longer, n + 1) PROVE new.total = n + 1
    <3>1. o.seen = n
      BY <2>4, <1>1, <1>4 DEF Serial
    <3>2. Serial(es, n)
      BY <2>4, <1>4 DEF Serial
    <3> QED
      BY <3>1, <3>2, <1>3, <1>4 DEF ReadFits
  <2> QED
    BY <2>1, <2>2, <2>3, <2>4, <1>3, <1>4 DEF RowFits
<1>7. EventsAddUp(longer)
  <2>1. ASSUME NEW i \in 1..n
        PROVE  /\ longer[i].seen \in 0..(i - 1)
               /\ ScoreAt(longer, longer[i].seen) = ScoreAt(es, es[i].seen)
    BY <1>4 DEF EventsAddUp, ScoreAt
  <2>2. e.seen \in 0..n /\ ScoreAt(longer, e.seen) = ScoreAt(es, o.seen)
    BY <1>1, <1>4, <1>5 DEF ScoreAt
  <2>3. e.after = Risk!Clamp(ScoreAt(longer, e.seen) + Risk!Weight[e.outcome] * e.conf)
    BY <2>2, <1>1, <1>5 DEF Risk!NextScore
  <2>4. ASSUME NEW i \in 1..n
        PROVE  longer[i].after = Risk!Clamp(ScoreAt(longer, longer[i].seen)
                                            + Risk!Weight[longer[i].outcome] * longer[i].conf)
    BY <2>1, <1>4 DEF EventsAddUp
  <2>5. \A i \in 1..(n + 1) : i = n + 1 \/ i \in 1..n
    BY <1>4
  <2>6. ASSUME NEW i \in DOMAIN longer
        PROVE  /\ longer[i].seen \in 0..(i - 1)
               /\ longer[i].after = Risk!Clamp(ScoreAt(longer, longer[i].seen)
                                               + Risk!Weight[longer[i].outcome] * longer[i].conf)
    <3>1. CASE i = n + 1
      BY <3>1, <1>4, <2>2, <2>3
    <3>2. CASE i \in 1..n
      BY <3>2, <2>1, <2>4
    <3> QED
      BY <3>1, <3>2, <2>5, <1>4
  <2> QED
    BY <2>6 DEF EventsAddUp
<1>8. OwnEventIsThere(o, longer)
  BY <1>1, <1>4 DEF OwnEventIsThere
<1> QED
  BY <1>2, <1>4, <1>6, <1>7, <1>8 DEF new, longer, e

\* What another call has read, written or read back stays true of more events.
LEMMA MoreEventsFit ==
  ASSUME NEW es \in Seq(RiskEvent), NEW e \in RiskEvent
  PROVE  /\ \A o \in RiskCall : ReadFits(o, es) => ReadFits(o, Append(es, e))
         /\ \A o \in RiskCall : OwnEventIsThere(o, es) => OwnEventIsThere(o, Append(es, e))
         /\ \A row : BackFits(row, es) => BackFits(row, Append(es, e))
<1> DEFINE longer == Append(es, e)
           n == Len(es)
<1>1. /\ Len(longer) = n + 1 /\ n \in Nat /\ \A i \in 1..n : longer[i] = es[i]
      /\ DOMAIN longer = 1..(n + 1) /\ DOMAIN es = 1..n
  OBVIOUS
<1> HIDE DEF longer
<1>2. ASSUME NEW o \in RiskCall, ReadFits(o, es) PROVE ReadFits(o, longer)
  <2>1. o.seen \in 0..n /\ o.seen \in 0..Len(longer) /\ ScoreAt(longer, o.seen) = ScoreAt(es, o.seen)
    BY <1>1, <1>2 DEF ReadFits, ScoreAt
  <2>2. Serial(longer, o.seen) => Serial(es, o.seen)
    BY <1>1, <2>1 DEF Serial
  <2> QED
    BY <1>2, <2>1, <2>2 DEF ReadFits
<1>3. ASSUME NEW o \in RiskCall, OwnEventIsThere(o, es) PROVE OwnEventIsThere(o, longer)
  BY <1>1, <1>3 DEF OwnEventIsThere
<1>4. ASSUME NEW row, BackFits(row, es) PROVE BackFits(row, longer)
  BY <1>1, <1>4 DEF BackFits, Risk!Row
<1> QED
  BY <1>2, <1>3, <1>4 DEF longer

LEMMA RiskInit ==
  ASSUME Risk!BoundAssumption, Risk!Init
  PROVE  RiskInv
<1>1. RiskTypes
  BY DEF Risk!Init, RiskTypes, Risk!BoundAssumption
<1>2. LedgersFit
  BY DEF Risk!Init, LedgersFit, RowFits, EventsAddUp
<1>3. CallsFit /\ Risk!ReturnedRecordsAreCovered
  BY DEF Risk!Init, CallsFit, Risk!ReturnedRecordsAreCovered
<1> QED
  BY <1>1, <1>2, <1>3 DEF RiskInv

\* What is read back together covers the row that was read first: a commit in between only adds events.
LEMMA ReadBackIsCovered ==
  ASSUME RiskInv, NEW c \in Conns, Risk!ReadCounts(c)
  PROVE  Risk!ReturnedRecordsAreCovered'
<1> DEFINE k == rop[c].key
           es == revents[k]
           hits == {i \in DOMAIN es : es[i].outcome = back[c].last}
<1>1. /\ rpc[c] = "counts" /\ rop[c] \in RiskCall /\ k \in Keys /\ es \in Seq(RiskEvent)
      /\ OwnEventIsThere(rop[c], es) /\ BackFits(back[c], es)
  BY DEF RiskInv, CallsFit, RiskTypes, RiskCall, Risk!ReadCounts
<1>2. /\ ret' = [ret EXCEPT ![c] = [row |-> back[c], counts |-> Risk!Counts(k), size |-> Len(es),
                                    evidence |-> Risk!EvidenceOf(k), own |-> rop[c].evidence]]
      /\ DOMAIN ret = Conns
  BY DEF Risk!ReadCounts, RiskInv, RiskTypes
<1>3. back[c].total <= Len(es) /\ back[c].last \in Outcomes
  BY <1>1 DEF BackFits, Risk!Row
<1>4. Cardinality(hits) > 0
  <2>1. IsFiniteSet(hits)
    <3>1. DOMAIN es = 1..Len(es) /\ Len(es) \in Nat
      BY <1>1
    <3>2. IsFiniteSet(1..Len(es))
      BY <3>1, FS_Interval
    <3>3. IsFiniteSet(DOMAIN es)
      BY <3>1, <3>2
    <3> QED
      BY <3>2, FS_Subset
  <2>2. hits # {}
    BY <1>1 DEF BackFits
  <2>3. Cardinality(hits) \in Nat /\ Cardinality(hits) # 0
    BY <2>1, <2>2, FS_CardinalityType, FS_EmptySet
  <2> QED
    BY <2>3
<1>5. Risk!Counts(k)[back[c].last] > 0
  <2>1. Risk!Counts(k) = [o \in Outcomes |-> Risk!Cardinality({i \in DOMAIN es : es[i].outcome = o})]
    BY Zenon DEF Risk!Counts
  <2>2. Risk!Counts(k)[back[c].last] = Risk!Cardinality(hits)
    BY <2>1, <1>3, Zenon
  <2>3. Risk!Cardinality(hits) = Cardinality(hits)
    BY Zenon DEF Risk!Cardinality, Cardinality
  <2> QED
    BY <2>2, <2>3, <1>4
<1>6. rop[c].evidence \subseteq Risk!EvidenceOf(k)
  BY <1>1 DEF OwnEventIsThere, Risk!EvidenceOf
<1>7. \A d \in Conns \ {c} : ret'[d] = ret[d]
  BY <1>2
<1>8. ret'[c].row = back[c] /\ ret'[c].counts = Risk!Counts(k) /\ ret'[c].size = Len(es)
      /\ ret'[c].evidence = Risk!EvidenceOf(k) /\ ret'[c].own = rop[c].evidence
  BY <1>2
<1> QED
  BY <1>3, <1>5, <1>6, <1>7, <1>8 DEF RiskInv, Risk!ReturnedRecordsAreCovered

\* Only a commit writes, and it is on its way to return then.
RiskWrites ==
  \A k \in Keys : <<risks'[k], revents'[k]>> # <<risks[k], revents[k]>> =>
    /\ Len(revents'[k]) = Len(revents[k]) + 1
    /\ \E c \in Conns : rpc'[c] = "row" /\ rop[c].key = k /\ ~rop[c].repeated

LEMMA RiskStep ==
  ASSUME Risk!OutcomesAssumption, Risk!ConfidencesAssumption, Risk!NoneAssumption, Risk!BoundAssumption,
         RiskInv, [Risk!Next]_Risk!vars
  PROVE  RiskInv' /\ RiskWrites
<1>1. RiskTypes /\ LedgersFit /\ CallsFit /\ Risk!ReturnedRecordsAreCovered
  BY DEF RiskInv
<1>2. ASSUME UNCHANGED Risk!vars PROVE RiskInv' /\ RiskWrites
  BY <1>1, <1>2 DEF Risk!vars, RiskInv, RiskTypes, LedgersFit, CallsFit, Risk!ReturnedRecordsAreCovered, RiskWrites
<1>3. ASSUME Risk!Tick PROVE RiskInv' /\ RiskWrites
  <2>1. rnow' \in 0..MaxTime
    BY <1>1, <1>3 DEF Risk!Tick, RiskTypes, Risk!BoundAssumption
  <2> QED
    BY <1>1, <1>3, <2>1
    DEF Risk!Tick, RiskInv, RiskTypes, LedgersFit, CallsFit, Risk!ReturnedRecordsAreCovered, RiskWrites
<1>4. ASSUME NEW c \in Conns, Risk!Begin(c) PROVE RiskInv' /\ RiskWrites
  <2>1. rpc' = [rpc EXCEPT ![c] = "read"] /\ ops' \in 0..MaxOps /\ UNCHANGED <<risks, revents, back, ret, rnow>>
    BY <1>1, <1>4 DEF Risk!Begin, RiskTypes, Risk!BoundAssumption
  <2>2. PICK o \in RiskCall : rop' = [rop EXCEPT ![c] = o]
    <3>1. PICK k \in Keys, x \in Outcomes, conf \in Confidences, ids \in SUBSET Evidence, repeated \in BOOLEAN :
            rop' = [rop EXCEPT ![c] =
                     [key |-> k, outcome |-> x, conf |-> conf, evidence |-> ids, repeated |-> repeated,
                      at |-> rnow, id |-> ops, begun |-> Len(revents[k]), seen |-> 0, current |-> Risk!Fresh]]
      BY <1>4 DEF Risk!Begin
    <3>2. Len(revents[k]) \in Nat /\ rnow \in Nat /\ ops \in Nat
      BY <1>1 DEF RiskTypes
    <3>3. Risk!Fresh \in [score : 0..Risk!MaxScore, total : Nat]
      BY DEF Risk!Fresh, Risk!MaxScore
    <3> QED
      BY <3>1, <3>2, <3>3 DEF RiskCall
  <2>3. RiskTypes'
    BY <1>1, <2>1, <2>2 DEF RiskTypes
  <2>4. CallsFit'
    BY <1>1, <2>1, <2>2 DEF CallsFit, RiskTypes
  <2> QED
    BY <1>1, <2>1, <2>3, <2>4 DEF RiskInv, LedgersFit, Risk!ReturnedRecordsAreCovered, RiskWrites
<1>5. ASSUME NEW c \in Conns, Risk!Read(c) PROVE RiskInv' /\ RiskWrites
  <2> DEFINE o == rop[c]
             k == rop[c].key
             es == revents[k]
             row == risks[k]
             current == IF row = None THEN Risk!Fresh ELSE [score |-> row.score, total |-> row.total]
             read == [o EXCEPT !.seen = Len(es), !.current = current]
  <2>1. /\ rpc[c] = "read" /\ o \in RiskCall /\ k \in Keys /\ es \in Seq(RiskEvent) /\ row \in Risk!Row \cup {None}
        /\ RowFits(row, es)
    BY <1>1, <1>5 DEF Risk!Read, CallsFit, RiskTypes, LedgersFit, RiskCall
  <2>2. /\ rop' = [rop EXCEPT ![c] = read]
        /\ rpc' = [rpc EXCEPT ![c] = "write"] /\ UNCHANGED <<risks, revents, back, ret, rnow, ops>>
    BY <1>1, <1>5 DEF Risk!Read, RiskTypes
  <2>3. current \in [score : 0..Risk!MaxScore, total : Nat]
    BY <2>1 DEF Risk!Row, Risk!Fresh, Risk!MaxScore
  <2>4. read \in RiskCall /\ read.key = k /\ read.seen = Len(es) /\ read.current = current
    <3>1. Len(es) \in Nat
      BY <2>1
    <3> HIDE DEF current, es, k
    <3>2. read \in RiskCall /\ read.seen = Len(es) /\ read.current = current /\ read.key = o.key
      BY <2>1, <2>3, <3>1 DEF RiskCall
    <3> QED
      BY <3>2 DEF k
  <2>5. ReadFits(read, es)
    <3>1. CASE Len(es) = 0
      BY <3>1, <2>4, <2>1 DEF ReadFits, RowFits, Risk!Fresh, ScoreAt
    <3>2. CASE Len(es) # 0
      <4>1. row # None /\ row.score = es[Len(es)].after /\ row.total \in 1..Len(es)
            /\ (Serial(es, Len(es)) => row.total = Len(es)) /\ Len(es) \in Nat
        BY <3>2, <2>1 DEF RowFits
      <4>2. current.score = row.score /\ current.total = row.total
        BY <4>1
      <4> HIDE DEF current, read
      <4> QED
        BY <3>2, <4>1, <4>2, <2>4 DEF ReadFits, ScoreAt
    <3> QED
      BY <3>1, <3>2
  <2> HIDE DEF read
  <2>6. RiskTypes'
    BY <1>1, <2>2, <2>4 DEF RiskTypes
  <2>7. /\ rop'[c] = read /\ rpc'[c] = "write"
        /\ \A d \in Conns \ {c} : rop'[d] = rop[d] /\ rpc'[d] = rpc[d]
    BY <1>1, <2>2 DEF RiskTypes
  <2>8. CallsFit'
    BY <1>1, <2>2, <2>4, <2>5, <2>7 DEF CallsFit
  <2> QED
    BY <1>1, <2>2, <2>6, <2>8 DEF RiskInv, LedgersFit, Risk!ReturnedRecordsAreCovered, RiskWrites
<1>6. ASSUME NEW c \in Conns, Risk!Write(c) PROVE RiskInv' /\ RiskWrites
  <2> DEFINE o == rop[c]
             k == rop[c].key
             es == revents[k]
             row == risks[k]
             new == Risk!Upserted(o, row)
             longer == Append(es, Risk!EventOf(o))
  <2>1. /\ rpc[c] = "write" /\ o \in RiskCall /\ k \in Keys /\ es \in Seq(RiskEvent) /\ row \in Risk!Row \cup {None}
        /\ RowFits(row, es) /\ EventsAddUp(es) /\ ReadFits(o, es)
    BY <1>1, <1>6 DEF Risk!Write, CallsFit, RiskTypes, LedgersFit, RiskCall
  <2>2. /\ risks' = [risks EXCEPT ![k] = new] /\ revents' = [revents EXCEPT ![k] = longer] /\ ~o.repeated
        /\ rpc' = [rpc EXCEPT ![c] = "row"] /\ UNCHANGED <<rop, back, ret, rnow, ops>>
    BY <1>6 DEF Risk!Write
  <2>3. /\ new \in Risk!Row /\ longer \in Seq(RiskEvent) /\ RowFits(new, longer) /\ EventsAddUp(longer)
        /\ OwnEventIsThere(o, longer)
    <3> HIDE DEF o, es, row
    <3> QED
      BY <2>1, CommitFits
  <2>4. Risk!EventOf(o) \in RiskEvent
    BY <2>1, NextScoreType DEF Risk!EventOf, RiskCall, RiskEvent
  <2>5. Len(longer) = Len(es) + 1
    BY <2>1, <2>4
  <2>6. /\ \A x \in RiskCall : ReadFits(x, es) => ReadFits(x, longer)
        /\ \A x \in RiskCall : OwnEventIsThere(x, es) => OwnEventIsThere(x, longer)
        /\ \A x : BackFits(x, es) => BackFits(x, longer)
    BY <2>1, <2>4, MoreEventsFit
  <2> HIDE DEF new, longer
  <2>7. /\ risks'[k] = new /\ revents'[k] = longer /\ rpc'[c] = "row"
        /\ \A x \in Keys \ {k} : risks'[x] = risks[x] /\ revents'[x] = revents[x]
        /\ \A d \in Conns \ {c} : rpc'[d] = rpc[d]
    BY <1>1, <2>1, <2>2 DEF RiskTypes
  <2>8. RiskTypes'
    BY <1>1, <2>1, <2>2, <2>3 DEF RiskTypes
  <2>9. LedgersFit'
    BY <1>1, <2>3, <2>7 DEF LedgersFit
  <2>10. CallsFit'
    <3>1. ASSUME NEW d \in Conns, d # c, rpc'[d] # "idle"
          PROVE  /\ rop'[d] \in RiskCall
                 /\ rpc'[d] = "write" => ReadFits(rop'[d], revents'[rop'[d].key])
                 /\ rpc'[d] \in {"row", "counts"} => OwnEventIsThere(rop'[d], revents'[rop'[d].key])
                 /\ rpc'[d] = "counts" => BackFits(back'[d], revents'[rop'[d].key])
      <4>1. /\ rop[d] \in RiskCall /\ rop[d].key \in Keys
            /\ rpc[d] = "write" => ReadFits(rop[d], revents[rop[d].key])
            /\ rpc[d] \in {"row", "counts"} => OwnEventIsThere(rop[d], revents[rop[d].key])
            /\ rpc[d] = "counts" => BackFits(back[d], revents[rop[d].key])
        BY <1>1, <2>7, <3>1 DEF CallsFit, RiskCall
      <4>2. CASE rop[d].key = k
        BY <4>1, <4>2, <2>2, <2>6, <2>7, <3>1
      <4>3. CASE rop[d].key # k
        BY <4>1, <4>3, <2>2, <2>7, <3>1
      <4> QED
        BY <4>2, <4>3
    <3>2. rop'[c] \in RiskCall /\ OwnEventIsThere(rop'[c], revents'[rop'[c].key])
      BY <2>1, <2>2, <2>3, <2>7
    <3> QED
      BY <3>1, <3>2, <2>7 DEF CallsFit
  <2>11. RiskWrites
    BY <2>1, <2>2, <2>5, <2>7 DEF RiskWrites
  <2> QED
    BY <1>1, <2>2, <2>8, <2>9, <2>10, <2>11 DEF RiskInv, Risk!ReturnedRecordsAreCovered
<1>7. ASSUME NEW c \in Conns, Risk!ReadRow(c) PROVE RiskInv' /\ RiskWrites
  <2> DEFINE k == rop[c].key
             row == risks[k]
             es == revents[k]
  <2>1. /\ rpc[c] = "row" /\ rop[c] \in RiskCall /\ k \in Keys /\ es \in Seq(RiskEvent) /\ row \in Risk!Row \cup {None}
        /\ RowFits(row, es) /\ OwnEventIsThere(rop[c], es)
    BY <1>1, <1>7 DEF Risk!ReadRow, CallsFit, RiskTypes, LedgersFit, RiskCall
  <2>2. /\ back' = [back EXCEPT ![c] = row]
        /\ rpc' = [rpc EXCEPT ![c] = "counts"] /\ UNCHANGED <<risks, revents, rop, ret, rnow, ops>>
    BY <1>7 DEF Risk!ReadRow
  <2>3. BackFits(row, es)
    <3>1. Len(es) # 0 /\ Len(es) \in DOMAIN es
      BY <2>1 DEF OwnEventIsThere
    <3> QED
      BY <2>1, <3>1 DEF BackFits, RowFits
  <2> HIDE DEF row
  <2>4. RiskTypes'
    BY <1>1, <2>1, <2>2 DEF RiskTypes
  <2>5. back'[c] = row /\ \A d \in Conns \ {c} : back'[d] = back[d] /\ rpc'[d] = rpc[d]
    BY <1>1, <2>2 DEF RiskTypes
  <2>6. CallsFit'
    BY <1>1, <2>1, <2>2, <2>3, <2>5 DEF CallsFit, RiskTypes
  <2> QED
    BY <1>1, <2>2, <2>4, <2>6 DEF RiskInv, LedgersFit, Risk!ReturnedRecordsAreCovered, RiskWrites
<1>8. ASSUME NEW c \in Conns,
             /\ rpc' = [rpc EXCEPT ![c] = "idle"] /\ rop' = [rop EXCEPT ![c] = None] /\ back' = [back EXCEPT ![c] = None]
             /\ UNCHANGED <<risks, revents, rnow, ops>>
             /\ \E x : ret' = [ret EXCEPT ![c] = x],
             Risk!ReturnedRecordsAreCovered'
      PROVE  RiskInv' /\ RiskWrites
  <2>1. RiskTypes'
    BY <1>1, <1>8 DEF RiskTypes
  <2>2. CallsFit'
    BY <1>1, <1>8 DEF CallsFit, RiskTypes
  <2> QED
    BY <1>1, <1>8, <2>1, <2>2 DEF RiskInv, LedgersFit, RiskWrites
<1>9. ASSUME NEW c \in Conns, Risk!ReadCounts(c) PROVE RiskInv' /\ RiskWrites
  <2>1. Risk!ReturnedRecordsAreCovered'
    BY <1>9, ReadBackIsCovered
  <2> QED
    BY <1>8, <1>9, <2>1 DEF Risk!ReadCounts
<1>10. ASSUME NEW c \in Conns, Risk!Raise(c) PROVE RiskInv' /\ RiskWrites
  <2>1. Risk!ReturnedRecordsAreCovered'
    BY <1>1, <1>10 DEF Risk!Raise, RiskTypes, Risk!ReturnedRecordsAreCovered
  <2> QED
    BY <1>8, <1>10, <2>1 DEF Risk!Raise
<1> QED
  BY <1>2, <1>3, <1>4, <1>5, <1>6, <1>7, <1>9, <1>10 DEF Risk!Next, Risk!Call

\* What the ledgers' inductive form comes to: the row agrees with the events, and updates made one at a time add up.
LEMMA LedgersTell ==
  ASSUME RiskInv
  PROVE  Risk!TypeOK /\ Risk!RowAgreesWithEvents /\ Risk!SerialUpdatesAddUp
<1>1. RiskTypes /\ LedgersFit
  BY DEF RiskInv
<1>2. ASSUME NEW k \in Keys, NEW i \in DOMAIN revents[k]
      PROVE  revents[k][i] \in RiskEvent
  BY <1>1 DEF RiskTypes
<1>3. Risk!TypeOK
  BY <1>1, <1>2 DEF RiskTypes, Risk!TypeOK, RiskEvent
<1>4. Risk!RowAgreesWithEvents
  BY <1>1 DEF LedgersFit, RowFits, Risk!RowAgreesWithEvents
<1>5. ASSUME NEW k \in Keys, risks[k] # None
      PROVE  /\ risks[k].total \in 1..Len(revents[k])
             /\ Risk!NoneLost(k) => risks[k].total = Len(revents[k]) /\ Risk!EachAddsToTheLast(k)
  <2>1. RowFits(risks[k], revents[k]) /\ EventsAddUp(revents[k]) /\ revents[k] \in Seq(RiskEvent)
    BY <1>1 DEF LedgersFit, RiskTypes
  <2>2. DOMAIN revents[k] = 1..Len(revents[k]) /\ Len(revents[k]) \in Nat
    BY <2>1
  <2>3. /\ risks[k].total \in 1..Len(revents[k])
        /\ Risk!NoneLost(k) => risks[k].total = Len(revents[k])
    BY <1>5, <2>1, <2>2 DEF RowFits, Serial, Risk!NoneLost
  <2>4. ASSUME Risk!NoneLost(k) PROVE Risk!EachAddsToTheLast(k)
    <3>1. ASSUME NEW i \in DOMAIN revents[k]
          PROVE  revents[k][i].after =
                   Risk!Clamp((IF i = 1 THEN 0 ELSE revents[k][i - 1].after)
                              + Risk!Weight[revents[k][i].outcome] * revents[k][i].conf)
      <4>1. revents[k][i].seen = i - 1 /\ i \in Int
        BY <2>2, <2>4 DEF Risk!NoneLost
      <4>2. ScoreAt(revents[k], revents[k][i].seen) = IF i = 1 THEN 0 ELSE revents[k][i - 1].after
        BY <4>1 DEF ScoreAt
      <4> QED
        BY <2>1, <4>2 DEF EventsAddUp
    <3> QED
      BY <3>1 DEF Risk!EachAddsToTheLast
  <2> QED
    BY <2>3, <2>4
<1> QED
  BY <1>3, <1>4, <1>5 DEF Risk!SerialUpdatesAddUp

\* What the rows, the events and the calls under way have to do with each other, however connections interleave.
THEOREM RiskIsAlwaysSound ==
  ASSUME Risk!OutcomesAssumption, Risk!ConfidencesAssumption, Risk!NoneAssumption, Risk!BoundAssumption
  PROVE  Risk!Spec => []RiskInv
<1>1. Risk!Init => RiskInv
  BY RiskInit
<1>2. RiskInv /\ [Risk!Next]_Risk!vars => RiskInv'
  BY RiskStep
<1> QED
  BY <1>1, <1>2, PTL DEF Risk!Spec

\* TypeOK, RowAgreesWithEvents and SerialUpdatesAddUp: the row of a key is the one its latest event wrote, its total
\* is never ahead of its events, and updates that were made one at a time add up.
THEOREM RiskRowsTellTheirEvents ==
  ASSUME Risk!OutcomesAssumption, Risk!ConfidencesAssumption, Risk!NoneAssumption, Risk!BoundAssumption
  PROVE  Risk!Spec => [](Risk!TypeOK /\ Risk!RowAgreesWithEvents /\ Risk!SerialUpdatesAddUp)
<1>1. RiskInv => Risk!TypeOK /\ Risk!RowAgreesWithEvents /\ Risk!SerialUpdatesAddUp
  BY LedgersTell
<1> QED
  BY <1>1, RiskIsAlwaysSound, PTL

\* ReturnedRecordsAreCovered: the record handed back, put together from three reads, is covered by the events.
THEOREM ReturnedRisksAreCovered ==
  ASSUME Risk!OutcomesAssumption, Risk!ConfidencesAssumption, Risk!NoneAssumption, Risk!BoundAssumption
  PROVE  Risk!Spec => []Risk!ReturnedRecordsAreCovered
<1>1. RiskInv => Risk!ReturnedRecordsAreCovered
  BY DEF RiskInv
<1> QED
  BY <1>1, RiskIsAlwaysSound, PTL

\* RaisedCallsWriteNothing: only the commit of a call that is on its way to return writes a row or an event.
THEOREM OnlyReturningCallsWrite ==
  ASSUME Risk!OutcomesAssumption, Risk!ConfidencesAssumption, Risk!NoneAssumption, Risk!BoundAssumption
  PROVE  Risk!Spec => [][Risk!RaisedCallsWriteNothing]_Risk!vars
<1>1. RiskInv /\ [Risk!Next]_Risk!vars => [Risk!RaisedCallsWriteNothing]_Risk!vars
  BY RiskStep DEF RiskWrites, Risk!RaisedCallsWriteNothing
<1> QED
  BY <1>1, RiskIsAlwaysSound, PTL DEF Risk!Spec
-----------------------------------------------------------------------------
(* EvidenceCapture, for any number of capture sessions and frames.  A session *)
(* uses one slot for each frame it is asked for, and every file of the run has*)
(* a slot of its own: so there is always a fresh id, and only the file in a   *)
(* session's hands can be without its event.                                  *)

Recorder == INSTANCE EvidenceCapture WITH pc <- cpc, files <- shots

CLine == [id : Recorder!Ids, by : Sessions, frame_index : 0..(Frames - 1)]

CTypeInv ==
  /\ cpc \in [Sessions -> {"start", "capture", "log", "end", "refused", "dead"}]
  /\ allow \in [Sessions -> BOOLEAN]
  /\ saved \in [Sessions -> 0..Frames]
  /\ mine \in [Sessions -> Recorder!Ids \cup {None}]
  /\ shots \in [DOMAIN shots -> {"part", "whole"}] /\ DOMAIN shots \subseteq Recorder!Ids
  /\ log \in Seq(CLine \cup {Error}) /\ torn \in BOOLEAN
  /\ answer \in Recorder!Ids \cup {None, Error}
  /\ \A s \in Sessions : cpc[s] \in {"start", "capture", "log"} => saved[s] < Frames
  /\ torn => log # <<>> /\ log[Len(log)] = Error

\* The record in a session's hands is of a whole screenshot that nobody has logged.
HandInv ==
  /\ \A s \in Sessions : cpc[s] = "log" =>
       /\ mine[s] \in DOMAIN shots /\ shots[mine[s]] = "whole"
       /\ \A k \in Recorder!Stored : log[k].id # mine[s]
  /\ \A s, r \in Sessions : (cpc[s] = "log" /\ cpc[r] = "log" /\ mine[s] = mine[r]) => s = r

NothingTorn == \A k \in DOMAIN log : log[k] # Error
Logged == {log[k].id : k \in Recorder!Stored}

\* A frame of a session.
CSlots == Sessions \X (0..(Frames - 1))

\* A slot of its own for every file: of a frame that was logged, or of the one in hand.
Fits(g) ==
  /\ g \in [DOMAIN shots -> CSlots]
  /\ \A i, j \in DOMAIN shots : g[i] = g[j] => i = j
  /\ \A i \in DOMAIN shots :
       \/ g[i][2] < saved[g[i][1]] /\ (NothingTorn => i \in Logged)
       \/ g[i][2] = saved[g[i][1]] /\ cpc[g[i][1]] = "log" /\ mine[g[i][1]] = i
       \/ g[i][2] = saved[g[i][1]] /\ cpc[g[i][1]] = "dead"
SlotInv == \E g : Fits(g)

\* The lookup's last answer is of a logged screenshot.
AnswerInv ==
  /\ answer \in Recorder!Ids => \E k \in Recorder!Stored : log[k].id = answer
  /\ log = <<>> => answer = None

CaptureInv == CTypeInv /\ Recorder!EventsHaveTheirFrame /\ HandInv /\ SlotInv /\ AnswerInv
-----------------------------------------------------------------------------
\* The finite sets of the instance are the finite sets.
LEMMA SessionsAreFinite ==
  ASSUME Recorder!CaptureAssumption
  PROVE  Frames \in Nat \ {0} /\ IsFiniteSet(Sessions)
BY DEF Recorder!CaptureAssumption, Recorder!IsFiniteSet, IsFiniteSet

\* And so is what is counted of them.
LEMMA CapturesCardinality ==
  ASSUME NEW S
  PROVE  Recorder!Cardinality(S) = Cardinality(S)
BY DEF Recorder!Cardinality, Cardinality

(* The slots and the log. *)

\* The next frame of a session that is asked for one has a slot no file uses.
LEMMA TheNextSlotIsFree ==
  ASSUME Recorder!CaptureAssumption, CTypeInv, NEW s \in Sessions, cpc[s] = "capture", NEW g, Fits(g)
  PROVE  <<s, saved[s]>> \in CSlots /\ \A i \in DOMAIN shots : g[i] # <<s, saved[s]>>
<1>1. saved[s] \in 0..(Frames - 1)
  BY DEF CTypeInv, Recorder!CaptureAssumption
<1>2. <<s, saved[s]>> \in CSlots
  BY <1>1 DEF CSlots
<1>3. ASSUME NEW i \in DOMAIN shots, g[i] = <<s, saved[s]>>
      PROVE  FALSE
  <2>1. g[i][1] = s /\ g[i][2] = saved[s]
    BY <1>3
  <2>2. QED
    BY <1>1, <2>1 DEF Fits
<1>4. QED
  BY <1>2, <1>3

\* A session that is asked for another frame finds a fresh id.
LEMMA FreshIsFresh ==
  ASSUME Recorder!CaptureAssumption, CTypeInv, SlotInv, NEW s \in Sessions, cpc[s] = "capture"
  PROVE  Recorder!Fresh \in Recorder!Ids /\ Recorder!Fresh \notin DOMAIN shots
<1>1. PICK g : Fits(g)
  BY DEF SlotInv
<1>2. IsFiniteSet(CSlots) /\ Cardinality(CSlots) = Cardinality(Sessions) * Frames
  <2>1. IsFiniteSet(0..(Frames - 1)) /\ Cardinality(0..(Frames - 1)) = Frames
    BY FS_Interval, SessionsAreFinite
  <2>2. QED
    BY <2>1, FS_Product, SessionsAreFinite DEF CSlots
<1>3. g \in Injection(DOMAIN shots, CSlots)
  BY <1>1 DEF Fits, Injection, IsInjective
<1>4. <<s, saved[s]>> \in CSlots /\ \A i \in DOMAIN shots : g[i] # <<s, saved[s]>>
  BY <1>1, TheNextSlotIsFree
<1>5. g \notin Surjection(DOMAIN shots, CSlots)
  BY <1>4 DEF Surjection
<1>6. /\ Cardinality(DOMAIN shots) # Cardinality(CSlots) /\ IsFiniteSet(DOMAIN shots)
      /\ Cardinality(DOMAIN shots) <= Cardinality(CSlots)
  BY <1>2, <1>3, <1>5, FS_Injection
<1>7. Cardinality(Recorder!Ids) = Cardinality(CSlots)
  <2>1. Cardinality(Sessions) \in Nat /\ Frames \in Nat
    BY FS_CardinalityType, SessionsAreFinite
  <2>2. Frames * Cardinality(Sessions) \in Nat
    BY <2>1
  <2>3. Cardinality(1..(Frames * Cardinality(Sessions))) = Frames * Cardinality(Sessions)
    BY <2>2, FS_Interval
  <2>4. QED
    BY <1>2, <2>1, <2>3, CapturesCardinality DEF Recorder!Ids
<1>8. Recorder!Ids # DOMAIN shots
  BY <1>6, <1>7
<1>9. \E i \in Recorder!Ids : i \notin DOMAIN shots
  BY <1>8 DEF CTypeInv
<1>10. QED
  BY <1>9 DEF Recorder!Fresh

\* A line after a torn one changes nothing.
LEMMA TornSwallows ==
  ASSUME CTypeInv, NEW line, torn
  PROVE  Recorder!Extended(line) = log
<1>1. log \in Seq(CLine \cup {Error}) /\ Len(log) \in Nat /\ Len(log) > 0 /\ log[Len(log)] = Error
  BY DEF CTypeInv
<1>2. Recorder!Front(log) \in Seq(CLine \cup {Error}) /\ Len(Recorder!Front(log)) = Len(log) - 1
      /\ \A k \in 1..(Len(log) - 1) : Recorder!Front(log)[k] = log[k]
  <2>1. 1 \in Int /\ Len(log) - 1 \in Int
        /\ \A i \in 1..(Len(log) - 1) : log[i] \in CLine \cup {Error}
    BY <1>1
  <2> DEFINE front == SubSeq(log, 1, Len(log) - 1)
  <2>2. /\ front \in Seq(CLine \cup {Error})
        /\ Len(front) = IF 1 <= Len(log) - 1 THEN Len(log) - 1 - 1 + 1 ELSE 0
        /\ \A i \in 1..(Len(log) - 1 - 1 + 1) : front[i] = log[1 + i - 1]
    BY <2>1, SubSeqProperties
  <2> HIDE DEF front
  <2>3. Len(front) = Len(log) - 1
    <3>1. CASE Len(log) = 1
      BY <2>2, <3>1
    <3>2. CASE Len(log) > 1
      BY <1>1, <2>2, <3>2
    <3>3. \A n \in Nat : n > 0 => n = 1 \/ n > 1
      OBVIOUS
    <3>4. Len(log) \in Nat /\ Len(log) > 0
      BY <1>1
    <3>5. QED
      BY <3>1, <3>2, <3>3, <3>4, Zenon
  <2>4. ASSUME NEW k \in 1..(Len(log) - 1)
        PROVE  front[k] = log[k]
    <3>1. Len(log) - 1 - 1 + 1 = Len(log) - 1 /\ 1 + k - 1 = k
      BY <1>1
    <3>2. front[k] = log[1 + k - 1]
      BY <2>2, <3>1
    <3>3. QED
      BY <3>1, <3>2
  <2> USE DEF front
  <2>5. QED
    BY <2>2, <2>3, <2>4 DEF Recorder!Front
<1> HIDE DEF Recorder!Front
<1> DEFINE new == Append(Recorder!Front(log), Error)
<1>3. new \in Seq(CLine \cup {Error}) /\ Len(new) = Len(log)
  BY <1>1, <1>2
<1>4. \A k \in 1..Len(log) : new[k] = log[k]
  BY <1>1, <1>2
<1>5. new = log
  BY <1>1, <1>3, <1>4
<1>6. QED
  BY <1>5 DEF Recorder!Extended

\* A line after one with an end is added.
LEMMA LinesAreAdded ==
  ASSUME CTypeInv, ~torn, NEW line \in CLine \cup {Error}
  PROVE  /\ Recorder!Extended(line) \in Seq(CLine \cup {Error})
         /\ Len(Recorder!Extended(line)) = Len(log) + 1 /\ Recorder!Extended(line)[Len(log) + 1] = line
         /\ \A k \in DOMAIN log : Recorder!Extended(line)[k] = log[k]
         /\ DOMAIN log = 1..Len(log) /\ DOMAIN Recorder!Extended(line) = 1..(Len(log) + 1)
         /\ Len(log) \in Nat
BY DEF CTypeInv, Recorder!Extended

\* A file in the hands of a session, or left by one that died, takes the session's next slot.
LEMMA AFileTakesItsSlot ==
  ASSUME Recorder!CaptureAssumption, CTypeInv, SlotInv, NEW s \in Sessions, cpc[s] = "capture",
         NEW how \in {"part", "whole"}, shots' = Recorder!Written(Recorder!Fresh, how),
         UNCHANGED <<saved, log>>,
         \A r \in Sessions \ {s} : cpc'[r] = cpc[r] /\ mine'[r] = mine[r],
         (cpc'[s] = "log" /\ mine'[s] = Recorder!Fresh) \/ cpc'[s] = "dead"
  PROVE  SlotInv' /\ DOMAIN shots' = DOMAIN shots \cup {Recorder!Fresh}
<1>1. PICK g : Fits(g)
  BY DEF SlotInv
<1>2. Recorder!Fresh \in Recorder!Ids /\ Recorder!Fresh \notin DOMAIN shots
  BY FreshIsFresh
<1>3. DOMAIN shots' = DOMAIN shots \cup {Recorder!Fresh}
  BY DEF Recorder!Written
<1> HIDE DEF Recorder!Fresh
<1> DEFINE h == [i \in DOMAIN shots \cup {Recorder!Fresh} |-> IF i = Recorder!Fresh THEN <<s, saved[s]>> ELSE g[i]]
<1>4. <<s, saved[s]>> \in CSlots /\ \A i \in DOMAIN shots : g[i] # <<s, saved[s]>>
  BY <1>1, TheNextSlotIsFree
<1>5. h \in [DOMAIN shots' -> CSlots]
  BY <1>1, <1>3, <1>4 DEF Fits
<1>6. \A i, j \in DOMAIN shots' : h[i] = h[j] => i = j
  BY <1>1, <1>2, <1>3, <1>4 DEF Fits
<1>7. NothingTorn' = NothingTorn /\ Logged' = Logged
  BY DEF NothingTorn, Logged, Recorder!Stored
<1>8. ASSUME NEW i \in DOMAIN shots'
      PROVE  \/ h[i][2] < saved'[h[i][1]] /\ (NothingTorn' => i \in Logged')
             \/ h[i][2] = saved'[h[i][1]] /\ cpc'[h[i][1]] = "log" /\ mine'[h[i][1]] = i
             \/ h[i][2] = saved'[h[i][1]] /\ cpc'[h[i][1]] = "dead"
  <2>1. CASE i = Recorder!Fresh
    <3>1. h[i] = <<s, saved[s]>>
      BY <1>3, <2>1
    <3>2. QED
      BY <2>1, <3>1
  <2>2. CASE i # Recorder!Fresh
    <3>1. i \in DOMAIN shots /\ h[i] = g[i] /\ g[i] \in CSlots
      BY <1>1, <1>3, <2>2 DEF Fits
    <3>2. CASE g[i][1] = s
      BY <1>1, <1>7, <3>1, <3>2 DEF Fits
    <3>3. CASE g[i][1] # s
      <4>1. g[i][1] \in Sessions \ {s}
        BY <3>1, <3>3 DEF CSlots
      <4>2. QED
        BY <1>1, <1>7, <3>1, <4>1 DEF Fits
    <3>4. QED
      BY <3>2, <3>3
  <2>3. QED
    BY <2>1, <2>2
<1> HIDE DEF h
<1>9. PICK k :
        /\ k \in [DOMAIN shots' -> CSlots] /\ \A i, j \in DOMAIN shots' : k[i] = k[j] => i = j
        /\ \A i \in DOMAIN shots' :
             \/ k[i][2] < saved'[k[i][1]] /\ (NothingTorn' => i \in Logged')
             \/ k[i][2] = saved'[k[i][1]] /\ cpc'[k[i][1]] = "log" /\ mine'[k[i][1]] = i
             \/ k[i][2] = saved'[k[i][1]] /\ cpc'[k[i][1]] = "dead"
  BY <1>5, <1>6, <1>8
<1>10. Fits(k)'
  BY <1>9 DEF Fits
<1>11. QED
  BY <1>3, <1>10 DEF SlotInv
-----------------------------------------------------------------------------
(* The steps. *)

\* A session may write, or is refused.
LEMMA StartKeeps ==
  ASSUME Recorder!CaptureAssumption, CaptureInv, NEW s \in Sessions, Recorder!EnsureRunIsWritable(s)
  PROVE  CaptureInv'
<1>1. /\ cpc[s] = "start" /\ cpc'[s] \in {"refused", "capture"}
      /\ \A r \in Sessions \ {s} : cpc'[r] = cpc[r]
      /\ cpc' \in [Sessions -> {"start", "capture", "log", "end", "refused", "dead"}]
      /\ UNCHANGED <<allow, saved, mine, shots, log, torn, answer>>
  BY DEF CaptureInv, CTypeInv, Recorder!EnsureRunIsWritable
<1>2. CTypeInv'
  BY <1>1 DEF CaptureInv, CTypeInv
<1>3. Recorder!EventsHaveTheirFrame' /\ AnswerInv'
  BY <1>1 DEF CaptureInv, Recorder!EventsHaveTheirFrame, AnswerInv, Recorder!Stored
<1>4. HandInv'
  BY <1>1 DEF CaptureInv, HandInv, Recorder!Stored
<1>5. SlotInv'
  <2>1. PICK g : Fits(g)
    BY DEF CaptureInv, SlotInv
  <2>2. Logged' = Logged /\ NothingTorn' = NothingTorn
    BY <1>1 DEF Logged, NothingTorn, Recorder!Stored
  <2>3. Fits(g)'
    BY <1>1, <2>1, <2>2 DEF Fits, CSlots
  <2>4. QED
    BY <2>3 DEF SlotInv
<1>6. QED
  BY <1>2, <1>3, <1>4, <1>5 DEF CaptureInv

\* A screenshot is saved: it is whole, in one pair of hands, and nobody has logged it.
LEMMA SaveKeeps ==
  ASSUME Recorder!CaptureAssumption, CaptureInv, NEW s \in Sessions, Recorder!SaveScreenshot(s)
  PROVE  CaptureInv'
<1> DEFINE id == Recorder!Fresh
<1>1. id \in Recorder!Ids /\ id \notin DOMAIN shots
  BY FreshIsFresh DEF CaptureInv, Recorder!SaveScreenshot
<1>2. /\ cpc[s] = "capture" /\ cpc' = [cpc EXCEPT ![s] = "log"] /\ mine' = [mine EXCEPT ![s] = id]
      /\ shots' = Recorder!Written(id, "whole") /\ UNCHANGED <<allow, saved, log, torn, answer>>
  BY DEF Recorder!SaveScreenshot
<1>3. SlotInv' /\ DOMAIN shots' = DOMAIN shots \cup {id}
  <2>1. /\ cpc'[s] = "log" /\ mine'[s] = Recorder!Fresh /\ "whole" \in {"part", "whole"}
        /\ \A r \in Sessions \ {s} : cpc'[r] = cpc[r] /\ mine'[r] = mine[r]
    BY <1>2 DEF CaptureInv, CTypeInv
  <2>2. QED
    BY <1>2, <2>1, AFileTakesItsSlot DEF CaptureInv
<1> HIDE DEF id
<1>4. /\ shots' \in [DOMAIN shots' -> {"part", "whole"}] /\ shots'[id] = "whole"
      /\ \A i \in DOMAIN shots : shots'[i] = shots[i]
  BY <1>1, <1>2, <1>3 DEF Recorder!Written, CaptureInv, CTypeInv
<1>5. /\ cpc' \in [Sessions -> {"start", "capture", "log", "end", "refused", "dead"}]
      /\ mine' \in [Sessions -> Recorder!Ids \cup {None}] /\ cpc'[s] = "log" /\ mine'[s] = id
      /\ \A r \in Sessions \ {s} : cpc'[r] = cpc[r] /\ mine'[r] = mine[r]
  BY <1>1, <1>2 DEF CaptureInv, CTypeInv
<1>6. CTypeInv'
  BY <1>1, <1>2, <1>3, <1>4, <1>5 DEF CaptureInv, CTypeInv
<1>7. Recorder!EventsHaveTheirFrame' /\ AnswerInv'
  BY <1>2, <1>3, <1>4 DEF CaptureInv, Recorder!EventsHaveTheirFrame, AnswerInv, Recorder!Stored
<1>8. \A k \in Recorder!Stored : log[k].id # id
  BY <1>1 DEF CaptureInv, Recorder!EventsHaveTheirFrame
<1>9. HandInv'
  <2>1. ASSUME NEW r \in Sessions, cpc'[r] = "log"
        PROVE  /\ mine'[r] \in DOMAIN shots' /\ shots'[mine'[r]] = "whole"
               /\ \A k \in Recorder!Stored' : log'[k].id # mine'[r]
    <3>1. Recorder!Stored' = Recorder!Stored /\ log' = log
      BY <1>2 DEF Recorder!Stored
    <3>2. CASE r = s
      BY <1>3, <1>4, <1>5, <1>8, <3>1, <3>2
    <3>3. CASE r # s
      BY <1>3, <1>4, <1>5, <2>1, <3>1, <3>3 DEF CaptureInv, HandInv
    <3>4. QED
      BY <3>2, <3>3
  <2>2. ASSUME NEW r \in Sessions, NEW q \in Sessions, cpc'[r] = "log", cpc'[q] = "log",
               mine'[r] = mine'[q]
        PROVE  r = q
    <3>1. \A t \in Sessions \ {s} : cpc'[t] = "log" => mine'[t] # id
      BY <1>1, <1>5 DEF CaptureInv, HandInv
    <3>2. QED
      BY <1>5, <2>2, <3>1 DEF CaptureInv, HandInv
  <2>3. QED
    BY <2>1, <2>2 DEF HandInv
<1>10. QED
  BY <1>3, <1>6, <1>7, <1>9 DEF CaptureInv

\* A line that is a record of the screenshot in hand, or of none.
LEMMA StoredAfter ==
  ASSUME CTypeInv, ~torn, NEW line \in CLine \cup {Error}, log' = Recorder!Extended(line)
  PROVE  /\ Recorder!Stored' = IF line = Error THEN Recorder!Stored ELSE Recorder!Stored \cup {Len(log) + 1}
         /\ \A k \in Recorder!Stored : log'[k] = log[k]
         /\ Len(log) + 1 \notin Recorder!Stored /\ log'[Len(log) + 1] = line
<1>1. /\ log'[Len(log) + 1] = line /\ \A k \in DOMAIN log : log'[k] = log[k]
      /\ DOMAIN log = 1..Len(log) /\ DOMAIN log' = 1..(Len(log) + 1) /\ Len(log) \in Nat
  BY LinesAreAdded
<1>2. Len(log) + 1 \notin DOMAIN log /\ DOMAIN log' = DOMAIN log \cup {Len(log) + 1}
  BY <1>1
<1>3. QED
  BY <1>1, <1>2 DEF Recorder!Stored

\* The event of the screenshot in hand is logged, unless the log ends in a torn line.
LEMMA LogKeeps ==
  ASSUME Recorder!CaptureAssumption, CaptureInv, NEW s \in Sessions, Recorder!LogEvidence(s)
  PROVE  CaptureInv'
<1> DEFINE line == Recorder!Record(s)
<1>1. /\ cpc[s] = "log" /\ log' = Recorder!Extended(line) /\ torn' = FALSE
      /\ saved' = [saved EXCEPT ![s] = @ + 1]
      /\ cpc' = [cpc EXCEPT ![s] = IF saved[s] + 1 < Frames THEN "capture" ELSE "end"]
      /\ UNCHANGED <<allow, mine, shots, answer>>
  BY DEF Recorder!LogEvidence
<1>2. saved[s] \in 0..(Frames - 1) /\ mine[s] \in Recorder!Ids /\ mine[s] \in DOMAIN shots
      /\ shots[mine[s]] = "whole" /\ \A k \in Recorder!Stored : log[k].id # mine[s]
  BY <1>1 DEF CaptureInv, CTypeInv, HandInv, Recorder!CaptureAssumption
<1>3. line \in CLine /\ line.id = mine[s]
  BY <1>2 DEF Recorder!Record, CLine
<1> HIDE DEF line
<1>4. /\ cpc' \in [Sessions -> {"start", "capture", "log", "end", "refused", "dead"}]
      /\ cpc'[s] \in {"capture", "end"} /\ \A r \in Sessions \ {s} : cpc'[r] = cpc[r]
      /\ saved' \in [Sessions -> 0..Frames] /\ saved'[s] = saved[s] + 1
      /\ \A r \in Sessions \ {s} : saved'[r] = saved[r]
      /\ cpc'[s] = "capture" => saved'[s] < Frames
  BY <1>1, <1>2 DEF CaptureInv, CTypeInv, Recorder!CaptureAssumption
<1>5. CASE torn
  <2>1. log' = log /\ \E k \in DOMAIN log : log[k] = Error
    <3>1. Len(log) \in Nat /\ Len(log) > 0 /\ log[Len(log)] = Error /\ DOMAIN log = 1..Len(log)
      BY <1>5 DEF CaptureInv, CTypeInv
    <3>2. QED
      BY <1>1, <1>5, <3>1, TornSwallows DEF CaptureInv
  <2>2. Recorder!Stored' = Recorder!Stored /\ ~NothingTorn' /\ ~NothingTorn
    BY <2>1 DEF Recorder!Stored, NothingTorn
  <2>3. CTypeInv'
    BY <1>1, <1>4, <2>1 DEF CaptureInv, CTypeInv
  <2>4. Recorder!EventsHaveTheirFrame' /\ AnswerInv'
    BY <1>1, <2>1, <2>2 DEF CaptureInv, Recorder!EventsHaveTheirFrame, AnswerInv
  <2>5. HandInv'
    BY <1>1, <1>4, <2>1, <2>2 DEF CaptureInv, HandInv
  <2>6. SlotInv'
    <3>1. PICK g : Fits(g)
      BY DEF CaptureInv, SlotInv
    <3>2. Fits(g)'
      <4>1. \A i \in DOMAIN shots :
              \/ g[i][2] < saved'[g[i][1]]
              \/ g[i][2] = saved'[g[i][1]] /\ cpc'[g[i][1]] = "log" /\ mine[g[i][1]] = i
              \/ g[i][2] = saved'[g[i][1]] /\ cpc'[g[i][1]] = "dead"
        <5> SUFFICES ASSUME NEW i \in DOMAIN shots
                     PROVE  \/ g[i][2] < saved'[g[i][1]]
                            \/ g[i][2] = saved'[g[i][1]] /\ cpc'[g[i][1]] = "log"
                                 /\ mine[g[i][1]] = i
                            \/ g[i][2] = saved'[g[i][1]] /\ cpc'[g[i][1]] = "dead"
          OBVIOUS
        <5>1. g[i][1] \in Sessions /\ g[i][2] \in 0..(Frames - 1)
          BY <3>1 DEF Fits, CSlots
        <5>2. CASE g[i][1] = s
          BY <1>2, <1>4, <3>1, <5>1, <5>2 DEF Fits
        <5>3. CASE g[i][1] # s
          BY <1>4, <3>1, <5>1, <5>3 DEF Fits
        <5>4. QED
          BY <5>2, <5>3
      <4>2. QED
        BY <1>1, <2>2, <3>1, <4>1 DEF Fits, CSlots
    <3>3. QED
      BY <3>2 DEF SlotInv
  <2>7. QED
    BY <2>3, <2>4, <2>5, <2>6 DEF CaptureInv
<1>6. CASE ~torn
  <2> DEFINE n == Len(log) + 1
  <2>1. /\ Recorder!Stored' = IF line = Error THEN Recorder!Stored ELSE Recorder!Stored \cup {n}
        /\ \A k \in Recorder!Stored : log'[k] = log[k]
        /\ n \notin Recorder!Stored /\ log'[n] = line
    BY <1>1, <1>3, <1>6, StoredAfter DEF CaptureInv
  <2>2. log' \in Seq(CLine \cup {Error}) /\ Len(log') = n /\ Len(log) \in Nat
    BY <1>1, <1>3, <1>6, LinesAreAdded DEF CaptureInv
  <2>3. n \in DOMAIN log' /\ log' # <<>> /\ DOMAIN log \subseteq DOMAIN log'
        /\ \A k \in DOMAIN log : log'[k] = log[k]
    BY <1>1, <1>3, <1>6, <2>2, LinesAreAdded DEF CaptureInv
  <2>4. CTypeInv'
    BY <1>1, <1>4, <2>2 DEF CaptureInv, CTypeInv
  <2> HIDE DEF n
  <2>5. Recorder!EventsHaveTheirFrame'
    BY <1>1, <1>2, <1>3, <2>1 DEF CaptureInv, Recorder!EventsHaveTheirFrame
  <2>6. AnswerInv'
    BY <1>1, <2>1, <2>3 DEF CaptureInv, AnswerInv
  <2>7. HandInv'
    <3>1. \A r \in Sessions : cpc'[r] = "log" => r # s /\ cpc[r] = "log" /\ mine[r] # mine[s]
      BY <1>1, <1>4 DEF CaptureInv, HandInv
    <3>2. QED
      BY <1>1, <1>3, <2>1, <3>1 DEF CaptureInv, HandInv
  <2>8. SlotInv'
    <3>1. PICK g : Fits(g)
      BY DEF CaptureInv, SlotInv
    <3>2. NothingTorn' => NothingTorn /\ line # Error
      BY <2>1, <2>3 DEF NothingTorn
    <3>3. \A i \in Logged : i \in Logged'
      BY <2>1 DEF Logged
    <3>4. NothingTorn' => mine[s] \in Logged'
      BY <1>3, <2>1, <3>2 DEF Logged
    <3>5. ASSUME NEW i \in DOMAIN shots
          PROVE  \/ g[i][2] < saved'[g[i][1]] /\ (NothingTorn' => i \in Logged')
                 \/ g[i][2] = saved'[g[i][1]] /\ cpc'[g[i][1]] = "log" /\ mine[g[i][1]] = i
                 \/ g[i][2] = saved'[g[i][1]] /\ cpc'[g[i][1]] = "dead"
      <4>1. g[i][1] \in Sessions /\ g[i][2] \in 0..(Frames - 1)
        BY <3>1 DEF Fits, CSlots
      <4>2. CASE g[i][1] = s
        <5>1. \/ g[i][2] < saved[s] /\ (NothingTorn => i \in Logged)
              \/ g[i][2] = saved[s] /\ mine[s] = i
          BY <1>1, <3>1, <4>2 DEF Fits
        <5>2. NothingTorn' => i \in Logged'
          BY <3>2, <3>3, <3>4, <5>1
        <5>3. g[i][2] < saved'[s]
          BY <1>2, <1>4, <4>1, <5>1
        <5>4. QED
          BY <4>2, <5>2, <5>3
      <4>3. CASE g[i][1] # s
        BY <1>4, <3>1, <3>2, <3>3, <4>1, <4>3 DEF Fits
      <4>4. QED
        BY <4>2, <4>3
    <3>6. Fits(g)'
      BY <1>1, <3>1, <3>5 DEF Fits, CSlots
    <3>7. QED
      BY <3>6 DEF SlotInv
  <2>9. QED
    BY <2>4, <2>5, <2>6, <2>7, <2>8 DEF CaptureInv
<1>7. QED
  BY <1>5, <1>6

\* A session dies: nothing more is written, or half of a file, or half of a line.
LEMMA DieKeeps ==
  ASSUME Recorder!CaptureAssumption, CaptureInv, NEW s \in Sessions, Recorder!Die(s)
  PROVE  CaptureInv'
<1>1. /\ cpc[s] \in {"capture", "log"} /\ UNCHANGED <<allow, saved, mine, answer>>
      /\ cpc' \in [Sessions -> {"start", "capture", "log", "end", "refused", "dead"}]
      /\ cpc'[s] = "dead" /\ \A r \in Sessions \ {s} : cpc'[r] = cpc[r]
  BY DEF Recorder!Die, CaptureInv, CTypeInv

\* The slots when no file comes up and the log is no better than before.
<1>2. ASSUME shots' = shots, NothingTorn' => NothingTorn, Logged \subseteq Logged'
      PROVE  SlotInv'
  <2>1. PICK g : Fits(g)
    BY DEF CaptureInv, SlotInv
  <2>2. ASSUME NEW i \in DOMAIN shots
        PROVE  \/ g[i][2] < saved[g[i][1]] /\ (NothingTorn' => i \in Logged')
               \/ g[i][2] = saved[g[i][1]] /\ cpc'[g[i][1]] = "log" /\ mine[g[i][1]] = i
               \/ g[i][2] = saved[g[i][1]] /\ cpc'[g[i][1]] = "dead"
    <3>1. g[i][1] \in Sessions
      BY <2>1 DEF Fits, CSlots
    <3>2. \/ g[i][2] < saved[g[i][1]] /\ (NothingTorn => i \in Logged)
          \/ g[i][2] = saved[g[i][1]] /\ cpc[g[i][1]] = "log" /\ mine[g[i][1]] = i
          \/ g[i][2] = saved[g[i][1]] /\ cpc[g[i][1]] = "dead"
      BY <2>1 DEF Fits
    <3>3. CASE g[i][1] = s
      BY <1>1, <1>2, <3>2, <3>3
    <3>4. CASE g[i][1] # s
      BY <1>1, <1>2, <3>1, <3>2, <3>4
    <3>5. QED
      BY <3>3, <3>4
  <2>3. Fits(g)'
    BY <1>1, <1>2, <2>1, <2>2 DEF Fits, CSlots
  <2>4. QED
    BY <2>3 DEF SlotInv
<1>3. CASE UNCHANGED <<shots, log, torn>>
  <2>1. Recorder!Stored' = Recorder!Stored /\ Logged' = Logged /\ NothingTorn' = NothingTorn
    BY <1>3 DEF Recorder!Stored, Logged, NothingTorn
  <2>2. CTypeInv'
    BY <1>1, <1>3 DEF CaptureInv, CTypeInv
  <2>3. Recorder!EventsHaveTheirFrame' /\ AnswerInv'
    BY <1>1, <1>3, <2>1 DEF CaptureInv, Recorder!EventsHaveTheirFrame, AnswerInv
  <2>4. HandInv'
    BY <1>1, <1>3, <2>1 DEF CaptureInv, HandInv
  <2>5. SlotInv'
    BY <1>2, <1>3, <2>1
  <2>6. QED
    BY <2>2, <2>3, <2>4, <2>5 DEF CaptureInv
<1>4. CASE cpc[s] = "capture" /\ shots' = Recorder!Written(Recorder!Fresh, "part") /\ UNCHANGED <<log, torn>>
  <2> DEFINE id == Recorder!Fresh
  <2>1. id \in Recorder!Ids /\ id \notin DOMAIN shots
    BY <1>4, FreshIsFresh DEF CaptureInv
  <2>2. SlotInv' /\ DOMAIN shots' = DOMAIN shots \cup {id}
    <3>1. "part" \in {"part", "whole"} /\ UNCHANGED <<saved, log>>
          /\ \A r \in Sessions \ {s} : cpc'[r] = cpc[r] /\ mine'[r] = mine[r]
      BY <1>1, <1>4
    <3>2. QED
      BY <1>1, <1>4, <3>1, AFileTakesItsSlot DEF CaptureInv
  <2>3. shots' = Recorder!Written(id, "part")
    BY <1>4
  <2> HIDE DEF id
  <2>4. /\ shots' \in [DOMAIN shots' -> {"part", "whole"}]
        /\ \A i \in DOMAIN shots : shots'[i] = shots[i]
    BY <2>1, <2>2, <2>3 DEF Recorder!Written, CaptureInv, CTypeInv
  <2>5. CTypeInv'
    BY <1>1, <1>4, <2>1, <2>2, <2>4 DEF CaptureInv, CTypeInv
  <2>6. Recorder!Stored' = Recorder!Stored /\ log' = log
    BY <1>4 DEF Recorder!Stored
  <2>7. Recorder!EventsHaveTheirFrame' /\ AnswerInv'
    BY <1>1, <2>2, <2>4, <2>6 DEF CaptureInv, Recorder!EventsHaveTheirFrame, AnswerInv
  <2>8. HandInv'
    BY <1>1, <2>2, <2>4, <2>6 DEF CaptureInv, HandInv
  <2>9. QED
    BY <2>2, <2>5, <2>7, <2>8 DEF CaptureInv
<1>5. CASE cpc[s] = "log" /\ log' = Recorder!Extended(Error) /\ torn' = TRUE /\ UNCHANGED shots
  <2>1. /\ log' \in Seq(CLine \cup {Error}) /\ log' # <<>> /\ log'[Len(log')] = Error
        /\ Recorder!Stored' = Recorder!Stored /\ \A k \in Recorder!Stored : log'[k] = log[k]
    <3>1. CASE torn
      <4>1. log' = log
        BY <1>5, <3>1, TornSwallows DEF CaptureInv
      <4>2. QED
        BY <3>1, <4>1 DEF CaptureInv, CTypeInv, Recorder!Stored
    <3>2. CASE ~torn
      <4>1. /\ log' \in Seq(CLine \cup {Error}) /\ Len(log') = Len(log) + 1
            /\ log'[Len(log) + 1] = Error /\ Len(log) \in Nat
        BY <1>5, <3>2, LinesAreAdded DEF CaptureInv
      <4>2. Recorder!Stored' = Recorder!Stored /\ \A k \in Recorder!Stored : log'[k] = log[k]
        BY <1>5, <3>2, StoredAfter DEF CaptureInv
      <4>3. log' # <<>> /\ log'[Len(log')] = Error
        BY <4>1
      <4>4. QED
        BY <4>1, <4>2, <4>3
    <3>3. QED
      BY <3>1, <3>2
  <2>2. ~NothingTorn' /\ Logged' = Logged
    <3>1. Len(log') \in Nat /\ Len(log') # 0 /\ DOMAIN log' = 1..Len(log')
      BY <2>1
    <3>2. Len(log') \in DOMAIN log'
      BY <3>1
    <3>3. QED
      BY <2>1, <3>2 DEF NothingTorn, Logged
  <2>3. CTypeInv'
    BY <1>1, <1>5, <2>1 DEF CaptureInv, CTypeInv
  <2>4. Recorder!EventsHaveTheirFrame' /\ AnswerInv'
    BY <1>1, <1>5, <2>1 DEF CaptureInv, Recorder!EventsHaveTheirFrame, AnswerInv
  <2>5. HandInv'
    BY <1>1, <1>5, <2>1 DEF CaptureInv, HandInv
  <2>6. SlotInv'
    BY <1>2, <1>5, <2>2
  <2>7. QED
    BY <2>3, <2>4, <2>5, <2>6 DEF CaptureInv
<1>6. QED
  BY <1>3, <1>4, <1>5 DEF Recorder!Die

\* The lookup answers from the log's last line, or not at all.
LEMMA LookupAnswers ==
  ASSUME CaptureInv, Recorder!LatestScreenshotEvidenceId, Recorder!NoneAssumption
  PROVE  /\ answer' = Error <=> ~NothingTorn
         /\ answer' = None <=> log = <<>>
         /\ answer' \in Recorder!Ids => /\ Len(log) \in Recorder!Stored /\ log[Len(log)].id = answer'
                               /\ \A k \in Recorder!Stored : k <= Len(log)
         /\ answer' \in Recorder!Ids \cup {None, Error}
<1>1. log \in Seq(CLine \cup {Error}) /\ DOMAIN log = 1..Len(log) /\ Len(log) \in Nat
      /\ Recorder!Stored \subseteq 1..Len(log)
  BY DEF CaptureInv, CTypeInv, Recorder!Stored
<1>2. CASE ~NothingTorn
  BY <1>1, <1>2 DEF Recorder!LatestScreenshotEvidenceId, NothingTorn, Recorder!NoneAssumption
<1>3. CASE NothingTorn /\ log = <<>>
  BY <1>3 DEF Recorder!LatestScreenshotEvidenceId, NothingTorn, Recorder!NoneAssumption
<1>4. CASE NothingTorn /\ log # <<>>
  <2>1. Len(log) \in DOMAIN log /\ log[Len(log)] # Error /\ log[Len(log)] \in CLine \cup {Error}
    BY <1>1, <1>4 DEF NothingTorn
  <2>2. Len(log) \in Recorder!Stored /\ log[Len(log)].id \in Recorder!Ids
    BY <2>1 DEF Recorder!Stored, CLine
  <2>3. answer' = log[Len(log)].id
    BY <1>4 DEF Recorder!LatestScreenshotEvidenceId, NothingTorn, Recorder!Last
  <2>4. QED
    BY <1>1, <1>4, <2>2, <2>3 DEF Recorder!NoneAssumption
<1>5. QED
  BY <1>2, <1>3, <1>4

\* The lookup reads and writes nothing.
LEMMA LookupKeeps ==
  ASSUME CaptureInv, Recorder!LatestScreenshotEvidenceId, Recorder!NoneAssumption
  PROVE  CaptureInv'
<1>1. UNCHANGED <<cpc, allow, saved, mine, shots, log, torn>> /\ Recorder!Stored' = Recorder!Stored
      /\ Logged' = Logged /\ NothingTorn' = NothingTorn
  BY DEF Recorder!LatestScreenshotEvidenceId, Recorder!Stored, Logged, NothingTorn
<1>2. CTypeInv' /\ AnswerInv'
  BY <1>1, LookupAnswers DEF CaptureInv, CTypeInv, AnswerInv
<1>3. Recorder!EventsHaveTheirFrame' /\ HandInv'
  BY <1>1 DEF CaptureInv, Recorder!EventsHaveTheirFrame, HandInv
<1>4. SlotInv'
  BY <1>1 DEF CaptureInv, SlotInv, Fits, CSlots
<1>5. QED
  BY <1>2, <1>3, <1>4 DEF CaptureInv

-----------------------------------------------------------------------------
(* The invariant, and what it says. *)

\* A run starts with no files and an empty log.
LEMMA NothingIsCaptured ==
  ASSUME Recorder!CaptureAssumption, Recorder!NoneAssumption, Recorder!Init
  PROVE  CaptureInv
<1>1. shots = [i \in {} |-> "whole"] /\ DOMAIN shots = {} /\ log = <<>>
  BY DEF Recorder!Init
<1>2. Recorder!Stored = {}
  BY <1>1 DEF Recorder!Stored
<1>3. CTypeInv
  <2>1. shots \in [DOMAIN shots -> {"part", "whole"}] /\ DOMAIN shots \subseteq Recorder!Ids
    BY <1>1
  <2>2. log \in Seq(CLine \cup {Error}) /\ torn = FALSE
    BY <1>1 DEF Recorder!Init
  <2>3. /\ 0 \in 0..Frames /\ 0 < Frames
    BY DEF Recorder!CaptureAssumption
  <2>4. QED
    BY <2>1, <2>2, <2>3 DEF Recorder!Init, CTypeInv
<1>4. [i \in {} |-> <<>>] \in [DOMAIN shots -> CSlots]
  BY <1>1
<1>5. SlotInv
  BY <1>1, <1>4 DEF SlotInv, Fits
<1>6. Recorder!EventsHaveTheirFrame /\ HandInv /\ AnswerInv
  BY <1>2 DEF Recorder!Init, Recorder!EventsHaveTheirFrame, HandInv, AnswerInv, Recorder!NoneAssumption
<1>7. QED
  BY <1>3, <1>5, <1>6 DEF CaptureInv

\* Every step keeps the invariant.
LEMMA StepsKeepTheEvidence ==
  ASSUME Recorder!CaptureAssumption, Recorder!NoneAssumption, CaptureInv, [Recorder!Next]_(Recorder!vars)
  PROVE  CaptureInv'
<1>1. CASE Recorder!Next
  BY <1>1, StartKeeps, SaveKeeps, LogKeeps, DieKeeps, LookupKeeps DEF Recorder!Next
<1>2. CASE UNCHANGED Recorder!vars
  <2>1. UNCHANGED <<cpc, allow, saved, mine, shots, log, torn, answer>> /\ Recorder!Stored' = Recorder!Stored
        /\ Logged' = Logged /\ NothingTorn' = NothingTorn
    BY <1>2 DEF Recorder!vars, Recorder!Stored, Logged, NothingTorn
  <2>2. CTypeInv'
    BY <2>1 DEF CaptureInv, CTypeInv
  <2>3. Recorder!EventsHaveTheirFrame' /\ HandInv' /\ AnswerInv'
    BY <2>1 DEF CaptureInv, Recorder!EventsHaveTheirFrame, HandInv, AnswerInv
  <2>4. SlotInv'
    BY <2>1 DEF CaptureInv, SlotInv, Fits, CSlots
  <2>5. QED
    BY <2>2, <2>3, <2>4 DEF CaptureInv
<1>3. QED
  BY <1>1, <1>2

\* The evidence of a run is always in order.
THEOREM EvidenceIsAlwaysInOrder ==
  ASSUME Recorder!CaptureAssumption, Recorder!NoneAssumption
  PROVE  Recorder!Spec => []CaptureInv
<1>1. Recorder!Init => CaptureInv
  BY NothingIsCaptured
<1>2. CaptureInv /\ [Recorder!Next]_(Recorder!vars) => CaptureInv'
  BY StepsKeepTheEvidence
<1>3. QED
  BY <1>1, <1>2, PTL DEF Recorder!Spec

\* A file without its event is in the hands of a live session or was left by a dead one.
LEMMA TheUnloggedAreInHand ==
  ASSUME Recorder!CaptureAssumption, CaptureInv
  PROVE  Recorder!AtMostOneUnlogged
<1> DEFINE unlogged == DOMAIN shots \ Logged
           live == {s \in Sessions : cpc[s] \in {"log", "dead"}}
<1>1. ASSUME NothingTorn
      PROVE  Cardinality(unlogged) <= Cardinality(live)
  <2>1. PICK g : Fits(g)
    BY DEF CaptureInv, SlotInv
  <2> DEFINE f == [i \in unlogged |-> g[i][1]]
  <2>2. \A i \in unlogged : g[i] \in CSlots /\ g[i][1] \in live /\ g[i][2] = saved[g[i][1]]
    BY <1>1, <2>1 DEF Fits, CSlots
  <2>3. \A i, j \in unlogged : g[i][1] = g[j][1] => i = j
    <3>1. \A i \in unlogged : g[i] = <<g[i][1], g[i][2]>>
      BY <2>2 DEF CSlots
    <3>2. QED
      BY <2>1, <2>2, <3>1 DEF Fits
  <2>4. f \in Injection(unlogged, live)
    BY <2>2, <2>3 DEF Injection, IsInjective
  <2>5. IsFiniteSet(live)
    BY FS_Subset, SessionsAreFinite
  <2>6. QED
    BY <2>4, <2>5, FS_Injection
<1>2. QED
  BY <1>1, CapturesCardinality DEF Recorder!AtMostOneUnlogged, NothingTorn, Logged

-----------------------------------------------------------------------------
(* The properties. *)

\* Sessions, files, log and answer have the shape of the objects they stand for.
THEOREM CaptureTypeCorrect ==
  ASSUME Recorder!CaptureAssumption, Recorder!NoneAssumption
  PROVE  Recorder!Spec => []Recorder!TypeOK
<1>1. CaptureInv => Recorder!TypeOK
  BY DEF CaptureInv, CTypeInv, Recorder!TypeOK, Recorder!Stored, CLine
<1>2. QED
  BY <1>1, EvidenceIsAlwaysInOrder, PTL

\* EventsHaveTheirFrame: evidence is never cited before it exists, nor twice.
THEOREM EventsAlwaysHaveTheirFrame ==
  ASSUME Recorder!CaptureAssumption, Recorder!NoneAssumption
  PROVE  Recorder!Spec => []Recorder!EventsHaveTheirFrame
<1>1. CaptureInv => Recorder!EventsHaveTheirFrame
  BY DEF CaptureInv
<1>2. QED
  BY <1>1, EvidenceIsAlwaysInOrder, PTL

\* AtMostOneUnlogged: a session loses at most the frame in its hands.
THEOREM OnlyTheFrameInHandIsLost ==
  ASSUME Recorder!CaptureAssumption, Recorder!NoneAssumption
  PROVE  Recorder!Spec => []Recorder!AtMostOneUnlogged
<1>1. CaptureInv => Recorder!AtMostOneUnlogged
  BY TheUnloggedAreInHand
<1>2. QED
  BY <1>1, EvidenceIsAlwaysInOrder, PTL

\* A new answer of the lookup is of a later place in the log.
LEMMA AnswersAreOfLaterPlaces ==
  ASSUME CaptureInv, Recorder!NoneAssumption, [Recorder!Next]_(Recorder!vars)
  PROVE  Recorder!LatestMovesForward
<1> SUFFICES ASSUME answer' # answer
             PROVE  /\ answer' = Error <=> \E k \in DOMAIN log : log[k] = Error
                    /\ answer' \in Recorder!Ids /\ answer \in Recorder!Ids => Recorder!Place(answer') > Recorder!Place(answer)
                    /\ answer' # None
  BY DEF Recorder!LatestMovesForward
<1>1. Recorder!LatestScreenshotEvidenceId
  BY DEF Recorder!Next, Recorder!vars, Recorder!EnsureRunIsWritable, Recorder!SaveScreenshot,
     Recorder!LogEvidence, Recorder!Die
<1>2. answer' = Error <=> \E k \in DOMAIN log : log[k] = Error
  BY <1>1, LookupAnswers DEF NothingTorn
<1>3. answer' # None
  BY <1>1, LookupAnswers DEF CaptureInv, AnswerInv
<1>4. ASSUME answer' \in Recorder!Ids, answer \in Recorder!Ids
      PROVE  Recorder!Place(answer') > Recorder!Place(answer)
  <2>1. log' = log /\ Recorder!Stored = {k \in DOMAIN log : log[k] # Error} /\ Recorder!Stored \subseteq Nat
    BY <1>1 DEF Recorder!LatestScreenshotEvidenceId, Recorder!Stored, CaptureInv, CTypeInv
  <2>2. Len(log) \in Recorder!Stored /\ log[Len(log)].id = answer' /\ \A k \in Recorder!Stored : k <= Len(log)
    BY <1>1, <1>4, LookupAnswers
  <2>3. PICK k \in Recorder!Stored : log[k].id = answer
    BY <1>4 DEF CaptureInv, AnswerInv
  <2>4. \A i, j \in Recorder!Stored : log[i].id = log[j].id => i = j
    BY DEF CaptureInv, Recorder!EventsHaveTheirFrame
  <2>5. ASSUME NEW i \in Recorder!Stored
        PROVE  Recorder!Place(log[i].id) = i
    <3>1. i \in DOMAIN log' /\ log'[i] # Error /\ log'[i].id = log[i].id
      BY <2>1
    <3>2. \A j \in DOMAIN log' : log'[j] # Error /\ log'[j].id = log[i].id => j = i
      BY <2>1, <2>4
    <3>3. QED
      BY <3>1, <3>2 DEF Recorder!Place
  <2>6. Recorder!Place(answer') = Len(log) /\ Recorder!Place(answer) = k
    BY <2>2, <2>3, <2>5
  <2>7. k # Len(log) /\ k <= Len(log) /\ k \in Nat /\ Len(log) \in Nat
    BY <2>1, <2>2, <2>3
  <2>8. QED
    BY <2>6, <2>7
<1>5. QED
  BY <1>2, <1>3, <1>4

\* LatestMovesForward: the lookup never goes back to an earlier screenshot.
THEOREM TheLatestMovesForward ==
  ASSUME Recorder!CaptureAssumption, Recorder!NoneAssumption
  PROVE  Recorder!Spec => [][Recorder!LatestMovesForward]_(Recorder!vars)
<1>1. CaptureInv /\ [Recorder!Next]_(Recorder!vars) => [Recorder!LatestMovesForward]_(Recorder!vars)
  BY AnswersAreOfLaterPlaces
<1>2. QED
  BY <1>1, EvidenceIsAlwaysInOrder, PTL DEF Recorder!Spec

-----------------------------------------------------------------------------
\* The source catalog, with its own variables.
Sources == INSTANCE SourceHistory

\* What it takes to be resolved: one thing is meant, of the right kind, once.
Meant(c, ref) == {t \in Sources!Targets : Sources!Matches(c, ref)[t] > 0}

LEMMA MatchesCount ==
  ASSUME Sources!SourceAssumption, NEW c \in Sources!Catalogs, NEW ref
  PROVE  /\ Sources!Matches(c, ref) \in [Sources!Targets -> {0, 1, 2}]
         /\ IsFiniteSet(Meant(c, ref)) /\ Meant(c, ref) \subseteq Sources!Declared(c)
<1>1. CASE ref = Alias
  <2>1. PICK p \in Sources!Targets \cup {None}, q \in Sources!Targets \cup {None} :
          c.bound = [t \in Sources!Targets |-> (IF t = p THEN 1 ELSE 0) + (IF t = q THEN 1 ELSE 0)]
    BY DEF Sources!Catalogs, Sources!Bindings
  <2>2. Meant(c, ref) \subseteq {p, q}
    BY <1>1, <2>1 DEF Meant, Sources!Matches
  <2>3. IsFiniteSet({p, q})
    <3>1. IsFiniteSet({p}) /\ {p, q} = {p} \cup {q}
      BY FS_Singleton
    <3> QED
      BY <3>1, FS_AddElement
  <2>4. IsFiniteSet(Meant(c, ref))
    BY <2>2, <2>3, FS_Subset
  <2>5. Meant(c, ref) \subseteq Sources!Declared(c)
    BY <1>1 DEF Meant, Sources!Matches, Sources!Catalogs
  <2> QED
    BY <1>1, <2>1, <2>4, <2>5 DEF Sources!Matches
<1>2. CASE ref # Alias
  <2>1. Meant(c, ref) \subseteq {ref} /\ Meant(c, ref) \subseteq Sources!Declared(c)
    BY <1>2 DEF Meant, Sources!Matches
  <2>2. IsFiniteSet(Meant(c, ref))
    BY <2>1, FS_Singleton, FS_Subset
  <2> QED
    BY <1>2, <2>1, <2>2 DEF Sources!Matches
<1> QED
  BY <1>1, <1>2

\* A reference is resolved exactly or not at all.
LEMMA ResolvedExactly ==
  ASSUME Sources!SourceAssumption, NEW c \in Sources!Catalogs \cup {None}, NEW ref, NEW kind \in SUBSET Sources!Targets
  PROVE  LET r == Sources!Resolve(c, ref, kind)
         IN  /\ r = [status |-> r.status, target |-> r.target, why |-> r.why]
             /\ r.status = "resolved" => /\ c # None /\ ref # None /\ Meant(c, ref) = {r.target}
                                         /\ r.target \in kind /\ r.why = {}
             /\ r.status # "resolved" => r.target = None /\ r.why # {}
<1> DEFINE r == Sources!Resolve(c, ref, kind)
           hits == Meant(c, ref)
           m == Sources!Matches(c, ref)
           one == CHOOSE t \in hits : TRUE
           unresolved == [status |-> "unresolved", target |-> None, why |-> {"unresolved-reference"}]
           conflict == [status |-> "conflict", target |-> None, why |-> {"duplicate-exact-alias"}]
           wrong == [status |-> "rejected", target |-> None, why |-> {"wrong-source-type"}]
<1>1. r = IF ref = None \/ c = None THEN unresolved
          ELSE IF hits = {} THEN unresolved
          ELSE IF Cardinality(hits) > 1 \/ \E t \in hits : m[t] > 1 THEN conflict
          ELSE IF one \in kind THEN [status |-> "resolved", target |-> one, why |-> {}] ELSE wrong
  <2>1. Sources!Cardinality(hits) = Cardinality(hits)
    BY Zenon DEF Sources!Cardinality, Cardinality
  <2>2. r = IF ref = None \/ c = None THEN unresolved
            ELSE IF hits = {} THEN unresolved
            ELSE IF Sources!Cardinality(hits) > 1 \/ \E t \in hits : m[t] > 1 THEN conflict
            ELSE IF one \in kind THEN [status |-> "resolved", target |-> one, why |-> {}] ELSE wrong
    BY Zenon DEF Sources!Resolve, Sources!Resolution, Sources!Rejected, Meant
  <2> QED
    BY <2>1, <2>2, Zenon
<1>2. c # None /\ hits # {} /\ ~(Cardinality(hits) > 1) => hits = {one}
  <2> SUFFICES ASSUME c # None, hits # {}, ~(Cardinality(hits) > 1) PROVE hits = {one}
    OBVIOUS
  <2>1. IsFiniteSet(hits)
    BY MatchesCount
  <2>2. one \in hits
    OBVIOUS
  <2> HIDE DEF hits, one
  <2>3. Cardinality(hits) \in Nat
    BY <2>1, FS_CardinalityType
  <2>4. Cardinality(hits) = 1
    BY <2>1, <2>2, <2>3, FS_EmptySet
  <2>5. \E x : hits = {x}
    BY <2>1, <2>4, FS_Singleton
  <2> QED
    BY <2>2, <2>5
<1> HIDE DEF r, hits, m, one
<1>3. r.status = "resolved" => c # None /\ ref # None /\ r = [status |-> "resolved", target |-> one, why |-> {}]
                              /\ hits = {one} /\ one \in kind
  BY <1>1, <1>2
<1>4. r \in {unresolved, conflict, wrong, [status |-> "resolved", target |-> one, why |-> {}]}
  BY <1>1
<1>5. r = [status |-> r.status, target |-> r.target, why |-> r.why]
      /\ (r.status # "resolved" => r.target = None /\ r.why # {})
  BY <1>4
<1> QED
  BY <1>3, <1>5 DEF r, hits

\* What a snapshot is made of.
LEMMA SnapshotParts ==
  ASSUME Sources!SourceAssumption, NEW s \in Sources!Snapshots, s.reading # None
  PROVE  /\ s = [catalog |-> s.catalog, paper |-> s.paper, reading |-> s.reading]
         /\ s.catalog \in Sources!Catalogs \cup {None}
         /\ Versions \subseteq Sources!Targets /\ Families \subseteq Sources!Targets
         /\ None \notin Sources!Targets
BY DEF Sources!Snapshots, Sources!Targets, Sources!Readings, Sources!SourceAssumption

\* A version counts as read only with the family its paper or source names.
LEMMA ReadExactly ==
  ASSUME Sources!SourceAssumption, NEW s \in Sources!Snapshots, s.reading # None
  PROVE  LET read == Sources!VersionRead(s)
             c == s.catalog
         IN  /\ read.status = "resolved" =>
                  /\ c # None /\ c \in Sources!Catalogs /\ s.reading.version # None
                  /\ read = [status |-> "resolved", target |-> read.target, why |-> {}]
                  /\ read.target \in Versions /\ Meant(c, s.reading.version) = {read.target}
                  /\ c.family[read.target] = Sources!ReadingFamily(s).target
                  /\ c.family[read.target] # None
             /\ read.status # "resolved" => read.target = None /\ read.why # {}
<1> DEFINE c == s.catalog
           ref == s.reading.version
           found == Sources!Resolve(c, ref, Versions)
           family == Sources!ReadingFamily(s)
           read == Sources!VersionRead(s)
           cross == [status |-> "rejected", target |-> None, why |-> {"cross-family-version"}]
<1>1. c \in Sources!Catalogs \cup {None} /\ Versions \in SUBSET Sources!Targets
  BY SnapshotParts
<1>2. read = IF found.status = "resolved" /\ (family.status = "resolved" => c.family[found.target] # family.target)
             THEN cross ELSE found
  BY DEF Sources!VersionRead, Sources!InFamily, Sources!Rejected, Sources!Resolution
<1>3. /\ found = [status |-> found.status, target |-> found.target, why |-> found.why]
      /\ found.status = "resolved" => /\ c # None /\ ref # None /\ Meant(c, ref) = {found.target}
                                      /\ found.target \in Versions /\ found.why = {}
      /\ found.status # "resolved" => found.target = None /\ found.why # {}
  BY <1>1, ResolvedExactly
<1>4. ASSUME found.status = "resolved" PROVE c.family[found.target] # None
  <2>1. c \in Sources!Catalogs /\ found.target \in Sources!Declared(c) /\ found.target \in Versions
    BY <1>1, <1>3, <1>4, MatchesCount
  <2>2. found.target \notin c.families
    BY <2>1 DEF Sources!Catalogs, Sources!SourceAssumption
  <2> QED
    BY <2>1, <2>2 DEF Sources!Declared
<1> HIDE DEF found, family, read, c, ref
<1>5. CASE read = cross
  BY <1>5 DEF read
<1>6. CASE read # cross
  <2>1. read = found /\ (found.status = "resolved" => c.family[found.target] = family.target)
    BY <1>2, <1>6
  <2>2. read.status = "resolved" => read = [status |-> "resolved", target |-> read.target, why |-> {}]
    BY <1>3, <2>1
  <2>3. read.status = "resolved" => c \in Sources!Catalogs
    BY <1>1, <1>3, <2>1
  <2> QED
    BY <1>3, <1>4, <2>1, <2>2, <2>3 DEF read, c, ref, family
<1> QED
  BY <1>5, <1>6

\* What a family prefers is one of its versions.
LEMMA PreferredExactly ==
  ASSUME Sources!SourceAssumption, NEW c \in Sources!Catalogs, NEW f \in Families
  PROVE  LET p == Sources!Preferred(c, f)
         IN  /\ p.status = "resolved" => c.family[p.target] = f /\ p.target \in Versions
             /\ p.status # "resolved" => p.target = None /\ p.why # {}
             /\ p.target \in c.retracted => p.why # {}
<1> DEFINE r == Sources!Resolve(c, c.preference[f], Versions)
           p == Sources!Preferred(c, f)
           told == [r EXCEPT !.why = @ \cup {"preferred-version-unresolved"}]
           cross == [status |-> "rejected", target |-> None, why |-> {"preferred-version-cross-family"}]
           gone == [status |-> "resolved", target |-> r.target, why |-> {"preferred-version-retracted"}]
<1>1. p = IF r.status # "resolved" THEN told
          ELSE IF c.family[r.target] # f THEN cross
          ELSE IF r.target \in c.retracted THEN gone ELSE r
  BY Zenon DEF Sources!Preferred, Sources!Rejected, Sources!Resolution
<1>2. /\ r = [status |-> r.status, target |-> r.target, why |-> r.why]
      /\ r.status = "resolved" => r.target \in Versions
      /\ r.status # "resolved" => r.target = None /\ r.why # {}
  <2>1. Versions \in SUBSET Sources!Targets
    BY DEF Sources!Targets
  <2> QED
    BY <2>1, ResolvedExactly
<1> HIDE DEF r, p
<1>3. None \notin c.retracted
  BY DEF Sources!Catalogs, Sources!Declared, Sources!SourceAssumption
<1>4. CASE r.status # "resolved"
  <2>1. told = [status |-> r.status, target |-> r.target, why |-> r.why \cup {"preferred-version-unresolved"}]
    BY <1>2
  <2> QED
    BY <1>1, <1>2, <1>3, <1>4, <2>1 DEF p
<1>5. CASE r.status = "resolved"
  BY <1>1, <1>2, <1>3, <1>5 DEF p
<1> QED
  BY <1>4, <1>5

SourceInv == authored \in Sources!Snapshots \cup {None} /\ publications \in 0..MaxPublications

THEOREM CatalogIsAlwaysSound ==
  ASSUME Sources!SourceAssumption
  PROVE  Sources!Spec => []SourceInv
<1>1. Sources!Init => SourceInv
  BY DEF Sources!Init, SourceInv, Sources!SourceAssumption
<1>2. SourceInv /\ [Sources!Next]_(Sources!vars) => SourceInv'
  BY DEF SourceInv, Sources!Next, Sources!Publish, Sources!vars, Sources!Snapshots, Sources!SourceAssumption
<1> QED
  BY <1>1, <1>2, PTL DEF Sources!Spec

\* What a reading is taken for is what was meant, and a family prefers its own.
THEOREM ReadingsSpeakForTheirPapers ==
  ASSUME Sources!SourceAssumption
  PROVE  Sources!Spec => [](Sources!TypeOK /\ Sources!ReadingSpeaksForItsPaper /\ Sources!PreferenceStaysAtHome)
<1>1. ASSUME SourceInv PROVE Sources!TypeOK
  BY <1>1, ReadExactly DEF SourceInv, Sources!TypeOK
<1>2. ASSUME SourceInv PROVE Sources!ReadingSpeaksForItsPaper
  <2> SUFFICES ASSUME authored # None, authored.reading # None
               PROVE  IF Sources!VersionRead(authored).status = "resolved"
                      THEN /\ {t \in Sources!Targets : authored.catalog # None /\ authored.reading.version # None
                                 /\ Sources!Matches(authored.catalog, authored.reading.version)[t] > 0}
                               = {Sources!VersionRead(authored).target}
                           /\ authored.catalog.family[Sources!VersionRead(authored).target]
                               = Sources!ReadingFamily(authored).target
                      ELSE Sources!Diagnostics(authored) # {}
    BY DEF Sources!ReadingSpeaksForItsPaper
  <2>1. authored \in Sources!Snapshots
    BY <1>1, <1>2 DEF SourceInv
  <2>2. CASE Sources!VersionRead(authored).status = "resolved"
    <3>1. /\ Meant(authored.catalog, authored.reading.version) = {Sources!VersionRead(authored).target}
          /\ authored.catalog # None /\ authored.reading.version # None
          /\ authored.catalog.family[Sources!VersionRead(authored).target] = Sources!ReadingFamily(authored).target
      BY <2>1, <2>2, ReadExactly
    <3> QED
      BY <2>2, <3>1 DEF Meant
  <2>3. CASE Sources!VersionRead(authored).status # "resolved"
    <3>1. Sources!VersionRead(authored).why # {}
      BY <2>1, <2>3, ReadExactly
    <3>2. Sources!VersionRead(authored).why \subseteq Sources!Diagnostics(authored)
      BY Zenon DEF Sources!Diagnostics
    <3> QED
      BY <2>3, <3>1, <3>2
  <2> QED
    BY <2>2, <2>3
<1>3. ASSUME SourceInv PROVE Sources!PreferenceStaysAtHome
  <2> SUFFICES ASSUME authored # None, authored.catalog # None, NEW f \in authored.catalog.families
               PROVE  LET p == Sources!Preferred(authored.catalog, f) IN
                      /\ p.status = "resolved" => authored.catalog.family[p.target] = f
                      /\ p.target \in authored.catalog.retracted => p.why # {}
                      /\ (authored.reading # None /\ p.status = "resolved") =>
                           LET read == Sources!VersionRead(authored) IN
                           (read.status = "resolved" /\ Sources!ReadingFamily(authored).target = f
                            /\ read.target # p.target)
                             => "different-navigation-version" \in Sources!Diagnostics(authored)
    BY DEF Sources!PreferenceStaysAtHome
  <2> DEFINE c == authored.catalog
             p == Sources!Preferred(c, f)
             read == Sources!VersionRead(authored)
  <2>1. authored \in Sources!Snapshots /\ c \in Sources!Catalogs /\ f \in Families
    BY <1>3 DEF SourceInv, Sources!Snapshots, Sources!Catalogs
  <2>2. /\ p.status = "resolved" => c.family[p.target] = f /\ p.target \in Versions
        /\ p.target \in c.retracted => p.why # {}
    BY <2>1, PreferredExactly
  <2>3. ASSUME authored.reading # None, p.status = "resolved", read.status = "resolved",
               Sources!ReadingFamily(authored).target = f, read.target # p.target
        PROVE  "different-navigation-version" \in Sources!Diagnostics(authored)
    <3>1. c.family[read.target] = f
      BY <2>1, <2>3, ReadExactly
    <3>2. Sources!Preferred(c, c.family[read.target]).target \notin {None, read.target}
      BY <2>2, <2>3, <3>1 DEF Sources!SourceAssumption
    <3> HIDE DEF p
    <3> QED
      BY <2>3, <3>2 DEF Sources!Diagnostics
  <2> HIDE DEF p, read, c
  <2> QED
    BY <2>2, <2>3 DEF p, read, c
<1> QED
  BY <1>1, <1>2, <1>3, CatalogIsAlwaysSound, PTL

\* What was read stays what was read, from one publication to the next.
THEOREM ReadingsStayPut ==
  ASSUME Sources!SourceAssumption
  PROVE  Sources!Spec => [][Sources!ReadStaysPut]_(Sources!vars)
<1>1. ASSUME SourceInv, SourceInv', [Sources!Next]_(Sources!vars) PROVE [Sources!ReadStaysPut]_(Sources!vars)
  <2> SUFFICES ASSUME Sources!Publish, authored # None, authored.reading # None, authored'.reading # None,
                      authored'.reading.version = authored.reading.version,
                      Sources!VersionRead(authored).status = "resolved"
               PROVE  /\ Sources!VersionRead(authored') = Sources!VersionRead(authored)
                      /\ Sources!ReadingFamily(authored').target = Sources!ReadingFamily(authored).target
    BY <1>1 DEF Sources!Next, Sources!ReadStaysPut
  <2> DEFINE old == Sources!VersionRead(authored)
             new == Sources!VersionRead(authored')
  <2>1. authored \in Sources!Snapshots /\ authored' \in Sources!Snapshots
    BY <1>1 DEF SourceInv, Sources!Publish, Sources!Snapshots
  <2>2. new.status = "resolved" /\ new.target = old.target
    BY DEF Sources!Publish, Sources!ValidateReadProvenance
  <2>3. /\ old = [status |-> "resolved", target |-> old.target, why |-> {}]
        /\ old.target \in Versions /\ authored.catalog.family[old.target] # None /\ authored.catalog # None
        /\ authored.catalog.family[old.target] = Sources!ReadingFamily(authored).target
    BY <2>1, ReadExactly
  <2>4. /\ new = [status |-> "resolved", target |-> new.target, why |-> {}]
        /\ authored'.catalog.family[new.target] = Sources!ReadingFamily(authored').target
    BY <2>1, <2>2, ReadExactly
  <2>5. authored'.catalog.family[old.target] = authored.catalog.family[old.target]
    BY <2>3 DEF Sources!Publish, Sources!ValidateSourceHistory
  <2> HIDE DEF old, new
  <2> QED
    BY <2>2, <2>3, <2>4, <2>5 DEF old, new
<1> QED
  BY <1>1, CatalogIsAlwaysSound, PTL DEF Sources!Spec
-----------------------------------------------------------------------------
\* The page of a research question, with its own variables.
Reader == INSTANCE ReviewedConclusions

ReaderTypes ==
  /\ content \in [Reader!Ids -> UNION {Drafts[i] : i \in Reader!Ids}] /\ version \in [Reader!Ids -> Nat]
  /\ \A i \in Reader!Ids : content[i] \in Drafts[i] /\ 1 <= version[i] /\ version[i] <= edits + 1
  /\ maturity \in [Reader!Ids -> Reader!Maturities]
  /\ edits \in Nat /\ edits <= MaxEdits

\* A pin that still holds is of a record that says what it said when it was reviewed.
PinsHold ==
  conclusion # None =>
    /\ conclusion \in [questionVersion : Nat, gap : Reader!Gaps, evidence : SUBSET Reader!Records,
                      signed : BOOLEAN, inputs : UNION {[S -> Nat] : S \in SUBSET Reader!Records}]
    /\ reviewed = None => ~conclusion.signed
    /\ \A i \in DOMAIN conclusion.inputs :
         /\ conclusion.inputs[i] <= version[i]
         /\ conclusion.inputs[i] = version[i] => content[i] = reviewed[i]

ReaderInv == ReaderTypes /\ PinsHold /\ (reviewed # None => conclusion # None)

\* What any record refers to, as it is.
LEMMA ContentsFit ==
  ASSUME Reader!ReaderAssumption, ReaderTypes
  PROVE  /\ \A i \in Reader!Ids : Reader!Fits(i, content[i])
         /\ Question \in Reader!Ids /\ Question \notin Reader!Records
         /\ Reader!Records \subseteq Reader!Ids
BY DEF Reader!ReaderAssumption, ReaderTypes, Reader!Ids

LEMMA BelowFits ==
  ASSUME Reader!ReaderAssumption, ReaderTypes, NEW i \in Reader!Records
  PROVE  /\ Reader!Below(i) \subseteq Reader!Records
         /\ content[i].findings \cup content[i].notes \cup content[i].sources \subseteq Reader!Below(i)
<1>1. /\ Reader!Fits(i, content[i]) /\ i # Question
  BY ContentsFit
<1>2. /\ content[i].sources \subseteq (IF i \in Notes \cup Findings THEN Papers ELSE {})
      /\ content[i].notes \subseteq (IF i \in Findings THEN Notes ELSE {})
      /\ content[i].findings \subseteq (IF i \in Syntheses THEN Findings ELSE {})
  BY <1>1 DEF Reader!Fits
<1>3. CASE i \in Syntheses
  <2>1. Reader!Below(i) = content[i].findings /\ i \notin Notes \cup Findings
    BY <1>3 DEF Reader!Below, Reader!ReaderAssumption
  <2> QED
    BY <1>2, <2>1 DEF Reader!Records
<1>4. CASE i \in Findings
  <2>1. Reader!Below(i) = content[i].notes \cup content[i].sources /\ i \notin Syntheses
    BY <1>4 DEF Reader!Below, Reader!ReaderAssumption
  <2> QED
    BY <1>2, <1>4, <2>1 DEF Reader!Records
<1>5. CASE i \in Notes
  <2>1. Reader!Below(i) = content[i].sources /\ i \notin Syntheses \cup Findings
    BY <1>5 DEF Reader!Below, Reader!ReaderAssumption
  <2> QED
    BY <1>2, <1>5, <2>1 DEF Reader!Records
<1>6. CASE i \notin Syntheses \cup Findings \cup Notes
  <2>1. Reader!Below(i) = {}
    BY <1>6 DEF Reader!Below
  <2> QED
    BY <1>2, <1>6, <2>1
<1> QED
  BY <1>3, <1>4, <1>5, <1>6

\* What the question selects itself.
Selected ==
  Reader!Asked.searches \cup Reader!Asked.establishes
    \cup (UNION {{row.paper, row.owner} : row \in Reader!Asked.literature})
    \cup (UNION {{c.finding, c.note} \ {None} : c \in {Reader!Context(row) : row \in Reader!Asked.literature} \ {None}})
    \cup (UNION {{row.paper} \cup row.evidence : row \in Reader!Asked.nearest})
Close(near) == near \cup UNION {Reader!Below(i) : i \in near}

LEMMA SelectedFits ==
  ASSUME Reader!ReaderAssumption, ReaderTypes
  PROVE  /\ Selected \subseteq Reader!Records /\ Reader!Shown \subseteq Selected
         /\ Reader!Dependencies = Close(Close(Close(Selected)))
<1> DEFINE a == Reader!Asked
<1>1. /\ a.findings \subseteq Findings /\ a.syntheses \subseteq Syntheses /\ a.searches \subseteq Searches
      /\ a.establishes \subseteq Findings \cup Syntheses
      /\ \A row \in a.literature : row.paper \in Papers /\ row.owner \in Papers \cup Notes \cup Findings
      /\ \A row \in a.nearest : row.paper \in Papers /\ row.evidence \subseteq Findings
  BY ContentsFit DEF Reader!Asked, Reader!Fits
<1>2. \A row \in a.literature : Reader!Context(row) # None =>
        {Reader!Context(row).finding, Reader!Context(row).note} \ {None} \subseteq Reader!Records
  <2> SUFFICES ASSUME NEW row \in a.literature, Reader!Context(row) # None
               PROVE  {Reader!Context(row).finding, Reader!Context(row).note} \ {None} \subseteq Reader!Records
    OBVIOUS
  <2>1. row.owner \in Reader!Records /\ Reader!Fits(row.owner, content[row.owner]) /\ row.owner # Question
    BY <1>1, ContentsFit DEF Reader!Records
  <2>2. Reader!Context(row) = content[row.owner].context
    BY DEF Reader!Context
  <2>3. /\ content[row.owner].context.finding \in Findings \cup {None}
        /\ content[row.owner].context.note \in Notes \cup {None}
    BY <2>1, <2>2 DEF Reader!Fits
  <2> QED
    BY <2>2, <2>3 DEF Reader!Records
<1>3. Selected \subseteq Reader!Records
  <2> SUFFICES ASSUME NEW x \in Selected PROVE x \in Reader!Records
    OBVIOUS
  <2>1. CASE x \in a.searches \cup a.establishes
    BY <1>1, <2>1 DEF Reader!Records
  <2>2. CASE \E row \in a.literature : x \in {row.paper, row.owner}
    BY <1>1, <2>2 DEF Reader!Records
  <2>3. CASE \E c \in {Reader!Context(row) : row \in a.literature} \ {None} : x \in {c.finding, c.note} \ {None}
    BY <1>2, <2>3
  <2>4. CASE \E row \in a.nearest : x \in {row.paper} \cup row.evidence
    BY <1>1, <2>4 DEF Reader!Records
  <2> QED
    BY <2>1, <2>2, <2>3, <2>4 DEF Selected
<1>4. Reader!Shown \subseteq Selected
  BY DEF Reader!Shown, Selected
<1>5. Reader!Dependencies = Close(Close(Close(Selected)))
  BY Zenon DEF Reader!Dependencies, Close, Selected
<1> QED
  BY <1>3, <1>4, <1>5

\* What a record rests on is among the dependencies of the question that selects it.
LEMMA DependenciesCover ==
  ASSUME Reader!ReaderAssumption, ReaderTypes
  PROVE  /\ Reader!Dependencies \subseteq Reader!Records
         /\ \A i \in Reader!Shown : Reader!Rests(i) \subseteq Reader!Dependencies
         /\ \A S \in SUBSET Close(Close(Selected)) : UNION {Reader!Below(i) : i \in S} \subseteq Reader!Dependencies
<1> DEFINE Grounds(near) == near \cup UNION {content[j].findings \cup content[j].notes
                                               \cup content[j].sources : j \in near}
           one == Close(Selected)
           two == Close(one)
           three == Close(two)
<1>1. \A S \in SUBSET Reader!Records : S \subseteq Close(S) /\ Close(S) \subseteq Reader!Records
  BY BelowFits DEF Close
<1>2. one \subseteq Reader!Records /\ two \subseteq Reader!Records /\ three \subseteq Reader!Records
  BY <1>1, SelectedFits
<1>3. \A S, T \in SUBSET Reader!Records : S \subseteq T => Grounds(S) \subseteq Close(T)
  BY BelowFits DEF Close
<1>4. ASSUME NEW i \in Reader!Shown PROVE Reader!Rests(i) \subseteq three
  <2>1. Reader!Rests(i) = Grounds(Grounds(Grounds({i})))
    BY Zenon DEF Reader!Rests
  <2> HIDE DEF Grounds, one, two, three
  <2>2. {i} \subseteq Selected /\ Selected \subseteq Reader!Records
    BY <1>4, SelectedFits
  <2>3. Grounds({i}) \subseteq one
    BY <1>3, <2>2 DEF one
  <2>4. Grounds(Grounds({i})) \subseteq two
    BY <1>2, <1>3, <2>3 DEF two
  <2>5. Grounds(Grounds(Grounds({i}))) \subseteq three
    BY <1>2, <1>3, <2>4 DEF three
  <2> QED
    BY <2>1, <2>5
<1>5. Reader!Dependencies = three
  BY SelectedFits
<1>6. \A S \in SUBSET two : UNION {Reader!Below(i) : i \in S} \subseteq three
  BY DEF Close
<1> QED
  BY <1>2, <1>4, <1>5, <1>6

\* A finding that passed its rule rests on eligible, checked notes it declares and on an eligible paper of its own.
LEMMA FindingsStand ==
  ASSUME NEW f, NEW papers, Reader!FindingOk(f, papers)
  PROVE  /\ Reader!Sound(f)
         /\ content[f].origin = "authors_result" => content[f].locations \subseteq content[f].notes
<1> DEFINE chosen == IF papers = {} THEN content[f].sources ELSE papers
<1>1. /\ papers \subseteq content[f].sources /\ Reader!Eligible(f)
      /\ content[f].origin # "our_inference" =>
           /\ content[f].locations # {}
           /\ \A n \in content[f].locations : Reader!LocationOk(f, n, chosen)
  BY Zenon DEF Reader!FindingOk
<1> SUFFICES ASSUME content[f].origin = "authors_result"
             PROVE  /\ content[f].locations \subseteq content[f].notes
                    /\ \A n \in content[f].locations : Reader!Eligible(n) /\ content[n].checked
                    /\ \E p \in content[f].sources : Reader!Eligible(p)
  BY <1>1 DEF Reader!Sound
<1>2. chosen \subseteq content[f].sources
  BY <1>1
<1>3. content[f].locations # {} /\ \A n \in content[f].locations : Reader!LocationOk(f, n, chosen)
  BY <1>1
<1> HIDE DEF chosen
<1>4. \A n \in content[f].locations : /\ n \in content[f].notes /\ Reader!Eligible(n) /\ content[n].checked
                                      /\ content[n].sources \cap {p \in chosen : Reader!Eligible(p)} # {}
  BY <1>3 DEF Reader!LocationOk
<1>5. PICK n \in content[f].locations : content[n].sources \cap {p \in chosen : Reader!Eligible(p)} # {}
  BY <1>3, <1>4
<1> QED
  BY <1>2, <1>4, <1>5

\* So does the evidence of a comparison.
LEMMA EvidenceStands ==
  ASSUME Reader!ReaderAssumption, ReaderTypes, NEW s \in Reader!Asked.findings, NEW papers, Reader!FindingOk(s, papers)
  PROVE  /\ s \in Findings /\ content[s].findings = {} /\ Reader!Sound(s)
         /\ content[s].origin = "authors_result" => content[s].locations \subseteq content[s].notes
<1>1. s \in Findings
  BY ContentsFit DEF Reader!Asked, Reader!Fits
<1>2. s # Question /\ s \in Reader!Ids /\ s \notin Syntheses
  BY <1>1 DEF Reader!ReaderAssumption, Reader!Records, Reader!Ids
<1>3. content[s].findings = {}
  BY <1>2, ContentsFit DEF Reader!Fits
<1> QED
  BY <1>1, <1>3, FindingsStand

\* So does all a statement says.
LEMMA StatementsStand ==
  ASSUME Reader!ReaderAssumption, ReaderTypes, NEW s, Reader!StatementOk(s)
  PROVE  /\ s \in Findings \cup Syntheses
         /\ \A f \in ({s} \cup content[s].findings) \cap Findings :
              /\ Reader!Sound(f)
              /\ content[f].origin = "authors_result" => content[f].locations \subseteq content[f].notes
<1>1. CASE s \in Findings
  <2>1. Reader!FindingOk(s, {}) /\ s # Question /\ s \in Reader!Ids /\ s \notin Syntheses
    BY <1>1 DEF Reader!StatementOk, Reader!ReaderAssumption, Reader!Records, Reader!Ids
  <2>2. content[s].findings = {}
    BY <2>1, ContentsFit DEF Reader!Fits
  <2> QED
    BY <1>1, <2>1, <2>2, FindingsStand
<1>2. CASE s \notin Findings
  <2>1. s \in Reader!Asked.syntheses /\ \A f \in content[s].findings : Reader!FindingOk(f, {})
    BY <1>2 DEF Reader!StatementOk
  <2>2. s \in Syntheses
    BY <2>1, ContentsFit DEF Reader!Asked, Reader!Fits
  <2> QED
    BY <1>2, <2>1, <2>2, FindingsStand
<1> QED
  BY <1>1, <1>2

\* No gap without a review.
LEMMA GapsStand ==
  ASSUME ReaderInv
  PROVE  Reader!GapsAreReviewed
<1> SUFFICES ASSUME Reader!ConclusionOk,
                    \/ conclusion.gap = "candidate_gap" \/ maturity[Question] = "domain_accepted"
                    \/ conclusion.signed \/ DOMAIN conclusion.inputs # {}
             PROVE  conclusion.signed /\ Reader!Label = "reviewed inputs" /\ Reader!PinsCurrent
  BY DEF Reader!GapsAreReviewed
<1>1. conclusion # None /\ (Reader!NeedsReview => Reader!ReviewOk) /\ (conclusion.gap = "candidate_gap" => Reader!ReviewOk)
  BY DEF Reader!ConclusionOk
<1>2. Reader!ReviewOk
  BY <1>1 DEF Reader!NeedsReview, Reader!Attempted
<1>3. conclusion.signed /\ Reader!PinsCurrent
  BY <1>2 DEF Reader!ReviewOk
<1> QED
  BY <1>3 DEF Reader!Label

\* Nothing that is said rests on what was withdrawn.
LEMMA WithdrawnIsSilent ==
  ASSUME Reader!ReaderAssumption, ReaderInv
  PROVE  Reader!WithdrawnSourcesSilence
<1> DEFINE said == Reader!Established \cup (UNION {row.evidence : row \in Reader!Compared})
                     \cup (IF Reader!ConclusionOk THEN conclusion.evidence ELSE {})
<1>0. ReaderTypes
  BY DEF ReaderInv
<1> SUFFICES ASSUME NEW s \in said, NEW f \in ({s} \cup content[s].findings) \cap Findings PROVE Reader!Sound(f)
  BY DEF Reader!WithdrawnSourcesSilence
<1>1. CASE s \in Reader!Established
  <2>1. Reader!StatementOk(s)
    BY <1>1 DEF Reader!Established
  <2> QED
    BY <1>0, <2>1, StatementsStand
<1>2. CASE Reader!ConclusionOk /\ s \in conclusion.evidence
  <2>1. Reader!StatementOk(s)
    BY <1>2 DEF Reader!ConclusionOk
  <2> QED
    BY <1>0, <2>1, StatementsStand
<1>3. CASE s \in UNION {row.evidence : row \in Reader!Compared}
  <2>1. PICK row \in Reader!Asked.nearest : Reader!EvidenceOk(row) /\ s \in row.evidence
    BY <1>3 DEF Reader!Compared, Reader!ComparisonOk
  <2>2. s \in Reader!Asked.findings /\ Reader!FindingOk(s, {row.paper})
    BY <2>1 DEF Reader!EvidenceOk
  <2>3. content[s].findings = {} /\ Reader!Sound(s)
    BY <1>0, <2>2, EvidenceStands
  <2> QED
    BY <2>3
<1> QED
  BY <1>1, <1>2, <1>3

\* A review that still counts has pinned all the text stands on.
LEMMA ReviewedIsCurrent ==
  ASSUME Reader!ReaderAssumption, ReaderInv
  PROVE  Reader!ReviewedTextIsCurrent
<1>0. ReaderTypes /\ PinsHold
  BY DEF ReaderInv
<1> SUFFICES ASSUME (Reader!ConclusionOk /\ Reader!Label = "reviewed inputs")
                      \/ (Reader!Attempted /\ Reader!Compared # {})
             PROVE  /\ reviewed # None /\ conclusion.signed
                    /\ \A i \in (UNION {Reader!Rests(j) : j \in Reader!Shown}) \cup Reader!Located : content[i] = reviewed[i]
  BY DEF Reader!ReviewedTextIsCurrent
<1>1. Reader!ReviewOk
  <2>1. CASE Reader!ConclusionOk /\ Reader!Label = "reviewed inputs"
    <3>1. conclusion # None /\ Reader!Eligible(Question) /\ (Reader!NeedsReview => Reader!ReviewOk)
      BY <2>1 DEF Reader!ConclusionOk
    <3>2. maturity[Question] = "domain_accepted" \/ conclusion.signed
      BY <2>1, <3>1 DEF Reader!Label, Reader!Eligible
    <3> QED
      BY <3>1, <3>2 DEF Reader!NeedsReview, Reader!Attempted
  <2>2. CASE Reader!Attempted /\ Reader!Compared # {}
    BY <2>2 DEF Reader!Compared, Reader!ComparisonOk, Reader!NeedsReview
  <2> QED
    BY <2>1, <2>2
<1>2. /\ conclusion # None /\ conclusion.signed /\ Reader!PinsCurrent
      /\ \A s \in Reader!Asked.establishes : Reader!StatementOk(s)
      /\ \A row \in Reader!Asked.nearest : Reader!EvidenceOk(row)
  BY <1>1 DEF Reader!ReviewOk
<1>3. reviewed # None
  BY <1>0, <1>2 DEF PinsHold
<1>4. \A i \in Reader!Dependencies : content[i] = reviewed[i]
  BY <1>0, <1>2, <1>3 DEF PinsHold, Reader!PinsCurrent
<1>5. UNION {Reader!Rests(j) : j \in Reader!Shown} \subseteq Reader!Dependencies
  BY <1>0, DependenciesCover
<1>6. Reader!Located \subseteq Reader!Dependencies
  <2> DEFINE said == Reader!Asked.establishes \cup (UNION {row.evidence : row \in Reader!Asked.nearest})
             found == said \cup (UNION {content[s].findings : s \in said})
  <2>0. Reader!Located = UNION {content[f].locations : f \in {f \in found : content[f].origin = "authors_result"}}
    BY Zenon DEF Reader!Located
  <2> DEFINE theirs == {f \in found : content[f].origin = "authors_result"}
  <2>1. SUFFICES ASSUME NEW f \in theirs PROVE content[f].locations \subseteq Reader!Dependencies
    <3> HIDE DEF theirs
    <3>1. Reader!Located = UNION {content[f].locations : f \in theirs}
      BY Zenon, <2>0 DEF theirs
    <3> QED
      BY <3>1
  <2>9. f \in found /\ content[f].origin = "authors_result"
    OBVIOUS
  <2> HIDE DEF theirs
  <2>2. said \subseteq Selected /\ Selected \subseteq Reader!Records
    <3> HIDE DEF found
    <3>1. Selected \subseteq Reader!Records
      BY <1>0, SelectedFits
    <3>2. Reader!Asked.establishes \subseteq Selected
      BY DEF Selected
    <3>3. ASSUME NEW row \in Reader!Asked.nearest PROVE row.evidence \subseteq Selected
      <4> DEFINE below == {{r.paper} \cup r.evidence : r \in Reader!Asked.nearest}
      <4>1. {row.paper} \cup row.evidence \in below
        OBVIOUS
      <4>2. UNION below \subseteq Selected
        BY Zenon DEF Selected
      <4> HIDE DEF below
      <4> QED
        BY <4>1, <4>2
    <3> QED
      BY <3>1, <3>2, <3>3
  <2>3. ASSUME NEW s \in said, NEW g \in ({s} \cup content[s].findings) \cap Findings, content[g].origin = "authors_result"
        PROVE  content[g].locations \subseteq content[g].notes
    <3>1. CASE s \in Reader!Asked.establishes
      BY <1>0, <1>2, <2>3, <3>1, StatementsStand
    <3>2. CASE s \in UNION {row.evidence : row \in Reader!Asked.nearest}
      <4>1. PICK row \in Reader!Asked.nearest : s \in row.evidence
        BY <3>2
      <4>2. s \in Reader!Asked.findings /\ Reader!FindingOk(s, {row.paper})
        BY <1>2, <4>1 DEF Reader!EvidenceOk
      <4>3. /\ content[s].findings = {}
            /\ content[s].origin = "authors_result" => content[s].locations \subseteq content[s].notes
        BY <1>0, <4>2, EvidenceStands
      <4> QED
        BY <2>3, <4>3
    <3> QED
      BY <3>1, <3>2
  <2>4. found \subseteq Close(Selected)
    <3>1. \A s \in said : s \in Reader!Records /\ content[s].findings \subseteq Reader!Below(s)
      BY <1>0, <2>2, BelowFits
    <3> HIDE DEF said
    <3> QED
      BY <2>2, <3>1 DEF Close
  <2>5. f \in Reader!Records /\ f \in Close(Close(Selected))
    <3>1. Close(Selected) \subseteq Reader!Records /\ Close(Selected) \subseteq Close(Close(Selected))
      BY <1>0, <2>2, BelowFits DEF Close
    <3> QED
      BY <2>9, <2>4, <3>1
  <2>6. Reader!Below(f) \subseteq Reader!Dependencies
    BY <1>0, <2>5, DependenciesCover
  <2>7. CASE f \in Findings
    <3>1. PICK s \in said : f \in {s} \cup content[s].findings
      BY <2>9
    <3> HIDE DEF said, found
    <3>2. content[f].locations \subseteq content[f].notes
      BY <2>9, <2>3, <2>7, <3>1
    <3> QED
      BY <1>0, <2>5, <2>6, <3>2, BelowFits
  <2>8. CASE f \notin Findings
    <3>1. f # Question /\ f \in Reader!Ids
      BY <2>5 DEF Reader!ReaderAssumption, Reader!Ids
    <3>2. content[f].locations = {}
      BY <1>0, <2>8, <3>1, ContentsFit DEF Reader!Fits
    <3> QED
      BY <3>2
  <2> QED
    BY <2>7, <2>8
<1> QED
  BY <1>2, <1>3, <1>4, <1>5, <1>6

LEMMA ReaderInit ==
  ASSUME Reader!ReaderAssumption
  PROVE  Reader!Init => ReaderInv
BY DEF Reader!Init, ReaderInv, ReaderTypes, PinsHold, Reader!ReaderAssumption, Reader!Maturities

LEMMA ReaderStep ==
  ASSUME Reader!ReaderAssumption, ReaderInv, [Reader!Next]_(Reader!vars)
  PROVE  ReaderInv'
<1>0. /\ ReaderTypes /\ PinsHold /\ (reviewed # None => conclusion # None)
      /\ MaxEdits \in Nat /\ Reader!Records \subseteq Reader!Ids
  BY DEF ReaderInv, Reader!ReaderAssumption, Reader!Ids
<1>1. CASE UNCHANGED Reader!vars
  BY <1>1 DEF Reader!vars, ReaderInv, ReaderTypes, PinsHold
<1>2. ASSUME NEW i \in Reader!Ids, NEW d \in Drafts[i], Reader!Revise(i, d) PROVE ReaderInv'
  <2>1. /\ edits < MaxEdits /\ edits' = edits + 1
        /\ content' = [content EXCEPT ![i] = d] /\ version' = [version EXCEPT ![i] = @ + 1]
        /\ UNCHANGED <<maturity, conclusion, reviewed>>
    BY <1>2 DEF Reader!Revise, Reader!Edit
  <2>2. /\ content' \in [Reader!Ids -> UNION {Drafts[j] : j \in Reader!Ids}] /\ version' \in [Reader!Ids -> Nat]
        /\ content'[i] = d /\ version'[i] = version[i] + 1
        /\ \A j \in Reader!Ids \ {i} : content'[j] = content[j] /\ version'[j] = version[j]
    BY <1>0, <2>1 DEF ReaderTypes
  <2>3. ReaderTypes'
    BY <1>0, <2>1, <2>2 DEF ReaderTypes
  <2>4. \A j \in Reader!Ids : /\ version'[j] = (IF j = i THEN version[j] + 1 ELSE version[j])
                              /\ j # i => content'[j] = content[j]
    BY <2>2
  <2>5. PinsHold'
    BY <1>0, <2>1, <2>4 DEF PinsHold, ReaderTypes
  <2> QED
    BY <1>0, <2>1, <2>3, <2>5 DEF ReaderInv
<1>3. ASSUME NEW i \in Reader!Ids, NEW m \in Reader!Maturities, Reader!Mature(i, m) PROVE ReaderInv'
  <2>1. /\ edits < MaxEdits /\ edits' = edits + 1 /\ maturity' = [maturity EXCEPT ![i] = m]
        /\ UNCHANGED <<content, version, conclusion, reviewed>>
    BY <1>3 DEF Reader!Mature, Reader!Edit
  <2>2. ReaderTypes'
    BY <1>0, <2>1 DEF ReaderTypes
  <2>3. PinsHold'
    BY <1>0, <2>1 DEF PinsHold
  <2> QED
    BY <1>0, <2>1, <2>2, <2>3 DEF ReaderInv
<1>4. ASSUME NEW gap \in Reader!Gaps, NEW rests \in SUBSET Reader!Asked.establishes, Reader!Conclude(gap, rests)
      PROVE  ReaderInv'
  <2>1. /\ edits < MaxEdits /\ edits' = edits + 1
        /\ conclusion' = [questionVersion |-> version[Question], gap |-> gap, evidence |-> rests,
                          signed |-> FALSE, inputs |-> [i \in {} |-> 0]]
        /\ reviewed' = None /\ UNCHANGED <<content, version, maturity>>
    BY <1>4 DEF Reader!Conclude, Reader!Edit
  <2>2. ReaderTypes'
    BY <1>0, <2>1 DEF ReaderTypes
  <2>3. version[Question] \in Nat /\ rests \in SUBSET Reader!Records
    BY <1>0, ContentsFit DEF ReaderTypes, Reader!Asked, Reader!Fits, Reader!Records
  <2>4. [i \in {} |-> 0] \in UNION {[S -> Nat] : S \in SUBSET Reader!Records} /\ DOMAIN [i \in {} |-> 0] = {}
    <3>1. [i \in {} |-> 0] \in [{} -> Nat] /\ {} \in SUBSET Reader!Records
      OBVIOUS
    <3>2. [{} -> Nat] \in {[S -> Nat] : S \in SUBSET Reader!Records}
      BY <3>1
    <3> QED
      BY <3>1, <3>2
  <2>5. PinsHold'
    BY <2>1, <2>3, <2>4 DEF PinsHold
  <2> QED
    BY <2>1, <2>2, <2>5 DEF ReaderInv
<1>5. ASSUME NEW left \in SUBSET Reader!Dependencies, NEW signed \in BOOLEAN,
             Reader!Review(Reader!Dependencies \ left, signed)
      PROVE  ReaderInv'
  <2> DEFINE pins == [i \in Reader!Dependencies \ left |-> version[i]]
  <2>1. /\ conclusion # None /\ reviewed = None
        /\ conclusion' = [conclusion EXCEPT !.signed = signed, !.inputs = pins]
        /\ reviewed' = content /\ UNCHANGED <<content, version, maturity, edits>>
    BY <1>5 DEF Reader!Review
  <2>2. ReaderTypes'
    BY <1>0, <2>1 DEF ReaderTypes
  <2>3. Reader!Dependencies \subseteq Reader!Records /\ content # None
    <3>1. content \in [Reader!Ids -> UNION {Drafts[i] : i \in Reader!Ids}]
      BY <1>0 DEF ReaderTypes
    <3> QED
      BY <1>0, <3>1, DependenciesCover DEF Reader!ReaderAssumption
  <2>4. /\ pins \in UNION {[S -> Nat] : S \in SUBSET Reader!Records}
        /\ \A i \in DOMAIN pins : pins[i] = version[i]
    <3>1. pins \in [Reader!Dependencies \ left -> Nat] /\ Reader!Dependencies \ left \in SUBSET Reader!Records
      BY <1>0, <2>3 DEF ReaderTypes
    <3> QED
      BY <3>1
  <2> HIDE DEF pins
  <2>5. /\ conclusion' \in [questionVersion : Nat, gap : Reader!Gaps, evidence : SUBSET Reader!Records,
                            signed : BOOLEAN, inputs : UNION {[S -> Nat] : S \in SUBSET Reader!Records}]
        /\ conclusion'.inputs = pins
    BY <1>0, <2>1, <2>4 DEF PinsHold
  <2>6. /\ reviewed' # None
        /\ \A i \in DOMAIN pins : pins[i] <= version'[i] /\ content'[i] = reviewed'[i]
    <3>1. DOMAIN pins \subseteq Reader!Ids
      BY <1>0, <2>4
    <3> QED
      BY <1>0, <2>1, <2>3, <2>4, <3>1 DEF ReaderTypes
  <2>7. PinsHold'
    BY <2>5, <2>6 DEF PinsHold
  <2>8. reviewed' # None => conclusion' # None
    BY <2>5 DEF Reader!ReaderAssumption
  <2> QED
    BY <2>2, <2>7, <2>8 DEF ReaderInv
<1> QED
  BY <1>1, <1>2, <1>3, <1>4, <1>5 DEF Reader!Next

\* However papers, notes, findings, syntheses, searches and the question are
\* revised, withdrawn, concluded and reviewed, for any number of edits:
\* reviewed text stands on what was reviewed, no gap is claimed without a
\* review, and a withdrawn source silences what was drawn from it.
THEOREM ReviewedTextStaysCurrent ==
  ASSUME Reader!ReaderAssumption
  PROVE  Reader!Spec => [](/\ Reader!TypeOK /\ Reader!ReviewedTextIsCurrent
                           /\ Reader!GapsAreReviewed /\ Reader!WithdrawnSourcesSilence)
<1>1. ReaderInv /\ [Reader!Next]_(Reader!vars) => ReaderInv'
  BY ReaderStep
<1>2. ASSUME ReaderInv
      PROVE  /\ Reader!TypeOK /\ Reader!ReviewedTextIsCurrent
             /\ Reader!GapsAreReviewed /\ Reader!WithdrawnSourcesSilence
  <2>1. Reader!ReviewedTextIsCurrent /\ Reader!GapsAreReviewed /\ Reader!WithdrawnSourcesSilence
    BY <1>2, ReviewedIsCurrent, GapsStand, WithdrawnIsSilent
  <2>2. /\ \A i \in Reader!Ids : content[i] \in Drafts[i] /\ version[i] \in 1..(MaxEdits + 1)
        /\ maturity \in [Reader!Ids -> Reader!Maturities]
    BY <1>2 DEF ReaderInv, ReaderTypes, Reader!ReaderAssumption
  <2>3. conclusion # None => DOMAIN conclusion.inputs \subseteq Reader!Records
    BY <1>2 DEF ReaderInv, PinsHold
  <2>4. reviewed # None => conclusion # None
    BY <1>2 DEF ReaderInv
  <2> QED
    BY <2>1, <2>2, <2>3, <2>4 DEF Reader!TypeOK
<1> QED
  BY <1>1, <1>2, ReaderInit, PTL DEF Reader!Spec
=============================================================================
