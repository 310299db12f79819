------------------------------ MODULE RoomGraph -------------------------------
(***************************************************************************)
(* RoomGraphStore over one SQLite file shared by several connections.      *)
(* upsert_room is one transaction; record_transition checks all its        *)
(* arguments and then runs three: the room left, the room entered, the     *)
(* transition.  A call may raise, or its process end, between any two of   *)
(* them.  Timestamps are left out; a transition key is the triple it is a  *)
(* hash of, and metadata is one value, None for the empty ones.            *)
(***************************************************************************)
EXTENDS Integers, FiniteSets, FiniteSetsExt

CONSTANTS
  Conns,     \* connections
  Rooms,     \* visible room signatures
  Actions,   \* action ids, None among them or not
  Evidence,  \* evidence ids
  Meta,      \* metadata without hidden-state keys
  Forbidden, \* metadata that names one
  MaxConf,   \* confidences are 0..MaxConf
  None,
  MaxCalls   \* bound: calls

Keys == Rooms \X Rooms \X Actions
Confidences == 0..MaxConf
RoomRow == [conf : Confidences, visits : Nat, meta : Meta \cup {None}, evidence : SUBSET Evidence]
EdgeRow == [conf : Confidences, count : Nat, meta : Meta \cup {None}, evidence : SUBSET Evidence]

NoneAssumption == None \notin Meta \cup RoomRow \cup EdgeRow
ForbiddenAssumption == Forbidden \cap (Meta \cup {None}) = {}
BoundAssumption == MaxCalls \in Nat /\ MaxConf \in Nat

VARIABLES
  rooms,   \* rooms and room_evidence: signature -> row or None
  edges,   \* room_transitions and transition_evidence: key -> row or None
  pc, call, \* of each connection: where its call is, and its arguments
  calls, failed, direct \* ghost: calls made, calls that raised, visits recorded by upsert_room itself

vars == <<rooms, edges, pc, call, calls, failed, direct>>

Init ==
  /\ rooms = [r \in Rooms |-> None]
  /\ edges = [t \in Keys |-> None]
  /\ pc = [c \in Conns |-> "idle"] /\ call = [c \in Conns |-> None]
  /\ calls = 0 /\ failed = 0 /\ direct = [r \in Rooms |-> 0]

Greater(a, b) == IF a > b THEN a ELSE b
Coalesce(a, b) == IF a = None THEN b ELSE a

(* INSERT ... ON CONFLICT DO UPDATE and INSERT OR IGNORE of the evidence.   *)
UpsertedRoom(row, conf, meta, ids) ==
  IF row = None THEN [conf |-> conf, visits |-> 1, meta |-> meta, evidence |-> ids]
  ELSE [conf |-> Greater(row.conf, conf), visits |-> row.visits + 1,
        meta |-> Coalesce(meta, row.meta), evidence |-> row.evidence \cup ids]

UpsertedEdge(row, conf, meta, ids) ==
  IF row = None THEN [conf |-> conf, count |-> 1, meta |-> meta, evidence |-> ids]
  ELSE [conf |-> Greater(row.conf, conf), count |-> row.count + 1,
        meta |-> Coalesce(meta, row.meta), evidence |-> row.evidence \cup ids]

-----------------------------------------------------------------------------
Args == [conf : Confidences, meta : Meta \cup Forbidden \cup {None}, ids : SUBSET Evidence]

(* The checks of a call, all made before its first statement: evidence, a   *)
(* confidence in range, metadata without hidden-state keys at any depth.    *)
ValidUnscanned(a) == a.ids # {}          \* mutant: metadata not searched
Valid(a) == a.ids # {} /\ a.meta \notin Forbidden

Refuse(c) ==
  /\ pc[c] = "idle" /\ calls < MaxCalls
  /\ \E a \in Args : ~Valid(a)
  /\ calls' = calls + 1
  /\ UNCHANGED <<rooms, edges, pc, call, failed, direct>>

upsert_room(c) ==
  /\ pc[c] = "idle" /\ calls < MaxCalls
  /\ \E r \in Rooms, a \in Args :
       /\ Valid(a)
       /\ rooms' = [rooms EXCEPT ![r] = UpsertedRoom(@, a.conf, a.meta, a.ids)]
       /\ direct' = [direct EXCEPT ![r] = @ + 1]
  /\ calls' = calls + 1
  /\ UNCHANGED <<edges, pc, call, failed>>

record_transition(c) ==
  /\ pc[c] = "idle" /\ calls < MaxCalls
  /\ \E t \in Keys, a \in Args :
       /\ Valid(a)
       /\ call' = [call EXCEPT ![c] = [key |-> t, args |-> a]]
  /\ pc' = [pc EXCEPT ![c] = "from"]
  /\ calls' = calls + 1
  /\ UNCHANGED <<rooms, edges, failed, direct>>

(* The two visits carry the evidence and the confidence, no metadata.       *)
Visit(c, at, r, next) ==
  /\ pc[c] = at
  /\ rooms' = [rooms EXCEPT ![r] = UpsertedRoom(@, call[c].args.conf, None, call[c].args.ids)]
  /\ pc' = [pc EXCEPT ![c] = next]
  /\ UNCHANGED <<edges, call, calls, failed, direct>>

Leave(c) == pc[c] = "from" /\ Visit(c, "from", call[c].key[1], "to")
Enter(c) == pc[c] = "to" /\ Visit(c, "to", call[c].key[2], "edge")

RecordEdge(c) ==
  /\ pc[c] = "edge"
  /\ LET a == call[c].args
     IN edges' = [edges EXCEPT ![call[c].key] = UpsertedEdge(@, a.conf, a.meta, a.ids)]
  /\ pc' = [pc EXCEPT ![c] = "idle"] /\ call' = [call EXCEPT ![c] = None]
  /\ UNCHANGED <<rooms, calls, failed, direct>>

(* A locked file, the disk or the end of the process, between transactions  *)
(* or in one, which is then rolled back.                                    *)
Raise(c) ==
  /\ pc[c] # "idle"
  /\ pc' = [pc EXCEPT ![c] = "idle"] /\ call' = [call EXCEPT ![c] = None]
  /\ failed' = failed + 1
  /\ UNCHANGED <<rooms, edges, calls, direct>>

Next == \E c \in Conns : \/ upsert_room(c) \/ record_transition(c) \/ Refuse(c)
                         \/ Leave(c) \/ Enter(c) \/ RecordEdge(c) \/ Raise(c)
Spec == Init /\ [][Next]_vars

-----------------------------------------------------------------------------
TypeOK ==
  /\ rooms \in [Rooms -> RoomRow \cup {None}]
  /\ edges \in [Keys -> EdgeRow \cup {None}]
  /\ pc \in [Conns -> {"idle", "from", "to", "edge"}]

Visits(r) == IF rooms[r] = None THEN 0 ELSE rooms[r].visits
Count(t) == IF edges[t] = None THEN 0 ELSE edges[t].count

\* How often the recorded transitions pass through a room: a self-loop leaves it and enters it.
Passages(r) == MapThenSumSet(LAMBDA t : (IF t[1] = r THEN Count(t) ELSE 0)
                                        + (IF t[2] = r THEN Count(t) ELSE 0), Keys)

(* The visit counter is written by the database, not read and written back: *)
(* whatever connections interleave and wherever calls raise, a room has at  *)
(* least the visits its own upserts and its transitions tell of, and        *)
(* exactly those when no call raised and none is under way.                 *)
VisitsCoverPassages ==
  \A r \in Rooms :
    /\ Visits(r) >= direct[r] + Passages(r)
    /\ (failed = 0 /\ \A c \in Conns : pc[c] = "idle")
         => Visits(r) = direct[r] + Passages(r)

(* The transition is the last of the three transactions, so no end of the   *)
(* process leaves one between unknown rooms; both its rooms have at least   *)
(* its confidence and all its evidence.                                     *)
EdgesJoinKnownRooms ==
  \A t \in Keys : edges[t] # None =>
    \A r \in {t[1], t[2]} :
      /\ rooms[r] # None
      /\ rooms[r].conf >= edges[t].conf
      /\ edges[t].evidence \subseteq rooms[r].evidence

(* What has been seen is never unlearned: confidence and counts never go    *)
(* down, evidence stays, and a visit without metadata, such as those of     *)
(* record_transition, keeps the metadata a room or a transition has.        *)
MemoryOnlyGrows ==
  /\ \A r \in Rooms : rooms[r] # None =>
       /\ rooms'[r].conf >= rooms[r].conf /\ rooms'[r].visits >= rooms[r].visits
       /\ rooms[r].evidence \subseteq rooms'[r].evidence
       /\ rooms[r].meta # None => rooms'[r].meta # None
  /\ \A t \in Keys : edges[t] # None =>
       /\ edges'[t].conf >= edges[t].conf /\ edges'[t].count >= edges[t].count
       /\ edges[t].evidence \subseteq edges'[t].evidence
       /\ edges[t].meta # None => edges'[t].meta # None
=============================================================================
