------------------------------ MODULE EntityRisk ------------------------------
(***************************************************************************)
(* EntityRiskStore over one SQLite file.  Every connection of Conns is a   *)
(* MemoryDB of its own; record_outcome reads the clock, reads the row,     *)
(* adds to it in Python, writes row, event and evidence in one             *)
(* transaction, and reads the record back with one SELECT per part.  A     *)
(* transaction is one step: no other connection sees it half done, and one *)
(* that fails (a locked file, a constraint, the disk) leaves nothing.      *)
(*                                                                         *)
(* Scores count units of 0.025, the product of a weight in units of 0.05   *)
(* and a confidence in halves; the rounding of floats is left out.         *)
(***************************************************************************)
EXTENDS Integers, Sequences, FiniteSets, TLC

CONSTANTS
  Conns,       \* connections
  Keys,        \* entity keys
  Outcomes,    \* the outcomes reported, of DOMAIN Weight
  Confidences, \* confidences in halves
  Evidence,    \* evidence ids
  None,
  MaxOps,      \* bound: calls of record_outcome
  MaxTime      \* bound: clock

MaxScore == 40

Weight == [death |-> 14, combat_started |-> 5, damage_taken |-> 6,
           skill_failed |-> 3, safe_passage |-> -2, no_change |-> 0]

Row == [score : 0..MaxScore, total : Nat, last : Outcomes, created : Nat, updated : Nat]
Fresh == [score |-> 0, total |-> 0]

OutcomesAssumption == Outcomes \subseteq DOMAIN Weight
ConfidencesAssumption == Confidences \subseteq 0..2
NoneAssumption == None \notin Row /\ None \notin {Fresh}
BoundAssumption == MaxOps \in Nat /\ MaxTime \in Nat

VARIABLES
  risks,   \* entity_risks: key -> row or None
  events,  \* entity_risk_events of each key, in the order of their commits
  pc,      \* where each connection's record_outcome is
  op,      \* its arguments and what it has read
  back,    \* the row of the record it is reading back
  ret,     \* the record its last call returned, None if it raised
  now, ops

vars == <<risks, events, pc, op, back, ret, now, ops>>

Min2(a, b) == IF a < b THEN a ELSE b
Max2(a, b) == IF a > b THEN a ELSE b
Clamp(score) == Min2(MaxScore, Max2(0, score))

Init ==
  /\ risks = [k \in Keys |-> None]
  /\ events = [k \in Keys |-> <<>>]
  /\ pc = [c \in Conns |-> "idle"]
  /\ op = [c \in Conns |-> None]
  /\ back = [c \in Conns |-> None]
  /\ ret = [c \in Conns |-> None]
  /\ now = 0 /\ ops = 0

-----------------------------------------------------------------------------
(* A call whose arguments pass the checks reads the clock: an unknown       *)
(* outcome, an empty key, no evidence or a confidence out of range raises   *)
(* before anything is read.  The list of ids may name one twice.  begun      *)
(* counts the events of the key then.                                       *)
Begin(c) ==
  /\ pc[c] = "idle" /\ ops < MaxOps
  /\ \E k \in Keys, o \in Outcomes, conf \in Confidences,
        ids \in (SUBSET Evidence) \ {{}}, repeated \in BOOLEAN :
       op' = [op EXCEPT ![c] =
                [key |-> k, outcome |-> o, conf |-> conf, evidence |-> ids,
                 repeated |-> repeated, at |-> now, id |-> ops,
                 begun |-> Len(events[k]), seen |-> 0, current |-> Fresh]]
  /\ pc' = [pc EXCEPT ![c] = "read"]
  /\ ops' = ops + 1
  /\ UNCHANGED <<risks, events, back, ret, now>>

(* current = get_risk(entity_key): the row, or the defaults without one.    *)
Read(c) ==
  /\ pc[c] = "read"
  /\ LET k == op[c].key
         row == risks[k]
     IN op' = [op EXCEPT ![c].seen = Len(events[k]),
                         ![c].current = IF row = None THEN Fresh
                                        ELSE [score |-> row.score, total |-> row.total]]
  /\ pc' = [pc EXCEPT ![c] = "write"]
  /\ UNCHANGED <<risks, events, back, ret, now, ops>>

NextScore(o) == Clamp(o.current.score + Weight[o.outcome] * o.conf)

(* The row ON CONFLICT leaves: created_at is the one of the row in the      *)
(* table, whatever this call read.                                          *)
Upserted(o, row) ==
  [score |-> NextScore(o), total |-> o.current.total + 1, last |-> o.outcome,
   created |-> IF row = None THEN o.at ELSE row.created, updated |-> o.at]

EventOf(o) ==
  [id |-> o.id, outcome |-> o.outcome, conf |-> o.conf, after |-> NextScore(o),
   at |-> o.at, evidence |-> o.evidence, begun |-> o.begun, seen |-> o.seen]

(* The transaction; two equal evidence ids violate its primary key.         *)
Write(c) ==
  /\ pc[c] = "write"
  /\ ~op[c].repeated
  /\ LET o == op[c]
     IN /\ risks' = [risks EXCEPT ![o.key] = Upserted(o, @)]
        /\ events' = [events EXCEPT ![o.key] = Append(@, EventOf(o))]
  /\ pc' = [pc EXCEPT ![c] = "row"]
  /\ UNCHANGED <<op, back, ret, now, ops>>

(* return get_risk(entity_key): the row first, ...                          *)
ReadRow(c) ==
  /\ pc[c] = "row"
  /\ back' = [back EXCEPT ![c] = risks[op[c].key]]
  /\ pc' = [pc EXCEPT ![c] = "counts"]
  /\ UNCHANGED <<risks, events, op, ret, now, ops>>

Counts(k) == [o \in Outcomes |-> Cardinality({i \in DOMAIN events[k] : events[k][i].outcome = o})]
EvidenceOf(k) == UNION {events[k][i].evidence : i \in DOMAIN events[k]}

(* ... its evidence and its outcome counts last.                            *)
ReadCounts(c) ==
  /\ pc[c] = "counts"
  /\ LET k == op[c].key
     IN ret' = [ret EXCEPT ![c] = [row |-> back[c], counts |-> Counts(k), size |-> Len(events[k]),
                                   evidence |-> EvidenceOf(k), own |-> op[c].evidence]]
  /\ pc' = [pc EXCEPT ![c] = "idle"]
  /\ op' = [op EXCEPT ![c] = None] /\ back' = [back EXCEPT ![c] = None]
  /\ UNCHANGED <<risks, events, now, ops>>

(* A locked file, a constraint or the disk: the call raises where it is,    *)
(* its transaction, if it was in one, rolled back.                          *)
Raise(c) ==
  /\ pc[c] # "idle"
  /\ pc' = [pc EXCEPT ![c] = "idle"]
  /\ ret' = [ret EXCEPT ![c] = None]
  /\ op' = [op EXCEPT ![c] = None] /\ back' = [back EXCEPT ![c] = None]
  /\ UNCHANGED <<risks, events, now, ops>>

Tick == /\ now < MaxTime
        /\ now' = now + 1
        /\ UNCHANGED <<risks, events, pc, op, back, ret, ops>>

Call(c) == Begin(c) \/ Read(c) \/ Write(c) \/ ReadRow(c) \/ ReadCounts(c) \/ Raise(c)
Next == (\E c \in Conns : Call(c)) \/ Tick
Spec == Init /\ [][Next]_vars

(* list_events: by created_at and then by the random id, here the call's    *)
(* number or, swapped, the other way round.                                 *)
Before(e, f) == e.at < f.at \/ (e.at = f.at /\ e.id < f.id)
BeforeSwapped(e, f) == e.at < f.at \/ (e.at = f.at /\ e.id > f.id)
list_events(k) == SortSeq(events[k], Before)
list_events_swapped(k) == SortSeq(events[k], BeforeSwapped)

-----------------------------------------------------------------------------
TypeOK ==
  /\ risks \in [Keys -> Row \cup {None}]
  /\ \A k \in Keys : \A i \in DOMAIN events[k] :
       /\ events[k][i].outcome \in Outcomes /\ events[k][i].conf \in Confidences
       /\ events[k][i].after \in 0..MaxScore
  /\ pc \in [Conns -> {"idle", "read", "write", "row", "counts"}]
  /\ now \in 0..MaxTime /\ ops \in 0..MaxOps

\* What the aggregation should come to: every event of the key takes the score of the one before it on by its own
\* weight, clamped.
EachAddsToTheLast(k) ==
  \A i \in DOMAIN events[k] :
    LET e == events[k][i] IN
    e.after = Clamp((IF i = 1 THEN 0 ELSE events[k][i - 1].after) + Weight[e.outcome] * e.conf)

\* No update of the key committed between another one's read and its write.
NoneLost(k) == \A i \in DOMAIN events[k] : events[k][i].seen = i - 1
\* Nor between another one's reading of the clock and its write.
OneAtATime(k) == \A i \in DOMAIN events[k] : events[k][i].begun = i - 1

(* Whatever the connections interleave, the row is the one the latest       *)
(* committed event wrote, its created_at is the first one's, and it exists  *)
(* exactly when an event does.                                              *)
RowAgreesWithEvents ==
  \A k \in Keys :
    LET n == Len(events[k]) IN
    IF n = 0 THEN risks[k] = None
    ELSE /\ risks[k] # None
         /\ risks[k].score = events[k][n].after
         /\ risks[k].last = events[k][n].outcome
         /\ risks[k].updated = events[k][n].at
         /\ risks[k].created = events[k][1].at

(* The read-modify-write of record_outcome adds every event up when no two  *)
(* updates of a key overlap; when they do it loses weight and outcomes, and *)
(* never counts an outcome that has no event.                               *)
SerialUpdatesAddUp ==
  \A k \in Keys : risks[k] # None =>
    /\ risks[k].total \in 1..Len(events[k])
    /\ NoneLost(k) => /\ risks[k].total = Len(events[k])
                      /\ EachAddsToTheLast(k)

(* The record handed back is put together from three reads: its total is    *)
(* never ahead of its outcome counts, its last outcome is counted, and the  *)
(* caller finds its own evidence in it.                                     *)
ReturnedRecordsAreCovered ==
  \A c \in Conns : ret[c] # None =>
    /\ ret[c].row.total <= ret[c].size
    /\ ret[c].counts[ret[c].row.last] > 0
    /\ ret[c].own \subseteq ret[c].evidence

(* list_events tells the updates of a key in the order they took effect     *)
(* when they were made one at a time and no two in one tick of the clock:   *)
(* the score of its last event is then the key's.                           *)
ListedInOrder ==
  \A k \in Keys :
    /\ OneAtATime(k)
    /\ \A i, j \in DOMAIN events[k] : events[k][i].at = events[k][j].at => i = j
    => list_events(k) = events[k] /\ list_events_swapped(k) = events[k]

(* A call that raises leaves no event, no evidence and no score behind: the *)
(* only step that writes is one that leaves the call on its way to return.  *)
RaisedCallsWriteNothing ==
  \A k \in Keys : <<risks[k], events[k]>>' # <<risks[k], events[k]>> =>
    /\ Len(events'[k]) = Len(events[k]) + 1
    /\ \E c \in Conns : pc'[c] = "row" /\ op[c].key = k
                        /\ ~op[c].repeated
=============================================================================
