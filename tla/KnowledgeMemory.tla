--------------------------- MODULE KnowledgeMemory ----------------------------
(***************************************************************************)
(* Facts, strategies and skill results in one SQLite file (MemoryDB,       *)
(* FactStore, StrategyGraphStore, SkillRegistry) shared by connections.    *)
(* Python's sqlite3 opens a transaction at the first INSERT or UPDATE and  *)
(* takes the write lock.  "with conn" commits it or rolls it back, even if *)
(* the commit fails; after a bare commit() that fails it stays open, is    *)
(* seen by its own connection only, and the connection's next commit       *)
(* publishes it together with its own change.                              *)
(* Timestamps, titles, claims, confidences and metadata are left out.      *)
(***************************************************************************)
EXTENDS Integers, FiniteSets

CONSTANTS
  Conns,          \* connections
  Strategies,     \* strategy keys
  FactStatuses, StrategyStatuses,   \* statuses asked for
  Evidence,       \* evidence ids
  Reasons,        \* failure reasons of skill results
  Kinds,          \* the calls made: "facts", "strategies", "results"
  None,
  MaxCalls        \* bound: calls

Ids == 1..MaxCalls      \* fresh ids: the number of the call that made one
Fact == [status : FactStatuses, evidence : SUBSET Evidence, origin : SUBSET Evidence]
Strategy == [status : StrategyStatuses, evidence : SUBSET Evidence, cited : SUBSET Evidence]
Outcome == [key : Strategies, evidence : SUBSET Evidence]
SkillResult == [success : BOOLEAN, reason : Reasons \cup {None}]
Tables == [facts : [Ids -> Fact \cup {None}], strategies : [Strategies -> Strategy \cup {None}],
           outcomes : [Ids -> Outcome \cup {None}], results : [Ids -> SkillResult \cup {None}]]

NoneAssumption ==
  None \notin Reasons \cup Fact \cup Strategy \cup Outcome \cup SkillResult \cup Tables
BoundAssumption == MaxCalls \in Nat

VARIABLES
  db,      \* what is committed
  open,    \* of each connection: its open transaction's tables, or None
  calls,   \* calls made
  returned \* ghost: what calls that returned have told their callers

vars == <<db, open, calls, returned>>

Nothing(S) == [x \in S |-> None]

Init ==
  /\ db = [facts |-> Nothing(Ids), strategies |-> Nothing(Strategies),
           outcomes |-> Nothing(Ids), results |-> Nothing(Ids)]
  /\ open = [c \in Conns |-> None]
  /\ calls = 0
  /\ returned = {}

-----------------------------------------------------------------------------
(* What a connection reads: its own open transaction, or what is committed. *)
View(c) == IF open[c] = None THEN db ELSE open[c]
Unlocked(c) == \A d \in Conns \ {c} : open[d] = None

Calls == calls < MaxCalls /\ calls' = calls + 1

ReturnsUncommitted(c, tables, told) ==          \* mutant: no commit
  /\ Unlocked(c)
  /\ open' = [open EXCEPT ![c] = tables]
  /\ returned' = returned \cup told
  /\ UNCHANGED db

(* The statements ran and the commit succeeded: the call returns.           *)
Returns(c, tables, told) ==
  /\ Unlocked(c)
  /\ db' = tables
  /\ open' = [open EXCEPT ![c] = None]
  /\ returned' = returned \cup told

(* "with conn" around statements or a commit that fails.  The block rolls   *)
(* back whatever is open on its connection; a lock held by another one      *)
(* raises before anything is open.                                          *)
RollsBack(c) == /\ open' = [open EXCEPT ![c] = None]
                /\ UNCHANGED <<db, returned>>

(* A bare commit that fails leaves the transaction open; a statement that   *)
(* fails leaves things as they were.                                        *)
StaysOpen(c, tables) == /\ Unlocked(c)
                        /\ open' = [open EXCEPT ![c] = tables]
                        /\ UNCHANGED <<db, returned>>
Unchanged == UNCHANGED <<db, open, returned>>

With(c, tables, told) == Returns(c, tables, told) \/ RollsBack(c)
Bare(c, tables, told) == Returns(c, tables, told) \/ StaysOpen(c, tables) \/ Unchanged

-----------------------------------------------------------------------------
(* FactStore.  A fact's JSON keeps the evidence it was created with.        *)
create_fact(c) ==
  /\ "facts" \in Kinds /\ Calls
  /\ \E s \in FactStatuses, ids \in (SUBSET Evidence) \ {{}} :
       With(c, [View(c) EXCEPT !.facts[calls + 1] = [status |-> s, evidence |-> ids, origin |-> ids]],
            {<<"fact", calls + 1, x>> : x \in ids})

(* update_fact_status and mark_contradicted: no evidence is asked for; an   *)
(* unknown id is updated nowhere, committed, and then raises KeyError.      *)
update_fact_status(c) ==
  /\ "facts" \in Kinds /\ Calls
  /\ \E f \in Ids, s \in FactStatuses :
       Bare(c, IF View(c).facts[f] = None THEN View(c)
               ELSE [View(c) EXCEPT !.facts[f].status = s], {})

append_fact_evidence(c) ==
  /\ "facts" \in Kinds /\ Calls
  /\ \E f \in Ids, x \in Evidence :
       IF View(c).facts[f] = None THEN Unchanged        \* KeyError
       ELSE With(c, [View(c) EXCEPT !.facts[f].evidence = @ \cup {x}], {<<"fact", f, x>>})

-----------------------------------------------------------------------------
(* StrategyGraphStore.                                                      *)
create_strategy(c) ==
  /\ "strategies" \in Kinds /\ Calls
  /\ \E k \in Strategies, s \in StrategyStatuses, ids \in (SUBSET Evidence) \ {{}} :
       IF View(c).strategies[k] # None THEN RollsBack(c)     \* IntegrityError
       ELSE With(c, [View(c) EXCEPT !.strategies[k] = [status |-> s, evidence |-> ids, cited |-> ids]],
                 {<<"strategy", k, x>> : x \in ids})

append_strategy_evidence(c) ==
  /\ "strategies" \in Kinds /\ Calls
  /\ \E k \in Strategies, ids \in (SUBSET Evidence) \ {{}} :
       IF View(c).strategies[k] = None THEN Unchanged        \* KeyError
       ELSE With(c, [View(c) EXCEPT !.strategies[k].evidence = @ \cup ids],
                 {<<"strategy", k, x>> : x \in ids})

WithStatus(row, s, ids) ==
  [row EXCEPT !.status = s, !.cited = ids, !.evidence = @ \cup ids]

update_status(c) ==
  /\ "strategies" \in Kinds /\ Calls
  /\ \E k \in Strategies, s \in StrategyStatuses, ids \in (SUBSET Evidence) \ {{}} :
       IF View(c).strategies[k] = None THEN Unchanged        \* KeyError
       ELSE With(c, [View(c) EXCEPT !.strategies[k] = WithStatus(@, s, ids)],
                 {<<"strategy", k, x>> : x \in ids})

record_outcome(c) ==
  /\ "strategies" \in Kinds /\ Calls
  /\ \E k \in Strategies, ids \in (SUBSET Evidence) \ {{}} :
       IF View(c).strategies[k] = None THEN Unchanged        \* KeyError
       ELSE With(c, [View(c) EXCEPT !.outcomes[calls + 1] = [key |-> k, evidence |-> ids]], {})

-----------------------------------------------------------------------------
(* MemoryDB.insert_skill_result, and in its shape insert_observation and    *)
(* insert_action.                                                           *)
insert_skill_result(c) ==
  /\ "results" \in Kinds /\ Calls
  /\ \E r \in SkillResult : Bare(c, [View(c) EXCEPT !.results[calls + 1] = r],
                                 {<<"result", calls + 1, r.success>>})

(* MemoryDB.close, or the end of the process.                               *)
Close(c) == /\ open[c] # None
            /\ open' = [open EXCEPT ![c] = None]
            /\ UNCHANGED <<db, calls, returned>>

Next == \E c \in Conns :
  \/ create_fact(c) \/ update_fact_status(c) \/ append_fact_evidence(c)
  \/ create_strategy(c) \/ append_strategy_evidence(c) \/ update_status(c) \/ record_outcome(c)
  \/ insert_skill_result(c) \/ Close(c)
Spec == Init /\ [][Next]_vars

(* SkillRegistry.get_skill_stats, from the rows of one SELECT.              *)
Stats(rows) ==
  LET seen == {i \in Ids : rows[i] # None}
      wins == {i \in seen : rows[i].success}
  IN [total |-> Cardinality(seen), success |-> Cardinality(wins),
      failure |-> Cardinality(seen) - Cardinality(wins),
      reasons |-> [q \in Reasons |-> Cardinality({i \in seen \ wins : rows[i].reason = q})]]

-----------------------------------------------------------------------------
Views == ({db} \cup {open[c] : c \in Conns}) \ {None}

TypeOK == /\ \A t \in Views : t \in Tables
          /\ calls \in 0..MaxCalls

(* Whatever is committed, and whatever a connection can read, tells nothing *)
(* without evidence: the evidence a fact was created with and the evidence  *)
(* cited for a strategy's present status are among its rows, and an outcome *)
(* belongs to a strategy that exists.                                       *)
EvidenceBacked ==
  \A t \in Views :
    /\ \A f \in Ids : t.facts[f] # None =>
         t.facts[f].origin # {} /\ t.facts[f].origin \subseteq t.facts[f].evidence
    /\ \A k \in Strategies : t.strategies[k] # None =>
         t.strategies[k].cited # {} /\ t.strategies[k].cited \subseteq t.strategies[k].evidence
    /\ \A i \in Ids : t.outcomes[i] # None => t.strategies[t.outcomes[i].key] # None

(* What a call told its caller is committed and stays: transactions left    *)
(* open by calls that raised are committed or lost without taking it along. *)
ReturnedIsCommitted ==
  \A x \in returned :
    CASE x[1] = "fact" -> db.facts[x[2]] # None /\ x[3] \in db.facts[x[2]].evidence
      [] x[1] = "strategy" -> db.strategies[x[2]] # None /\ x[3] \in db.strategies[x[2]].evidence
      [] x[1] = "result" -> db.results[x[2]] # None /\ db.results[x[2]].success = x[3]

(* The statistics of a skill count every result whose insert returned, and  *)
(* of the ones that raised those a later commit published; every failure    *)
(* with a reason is counted under it, a success under none.                 *)
StatsCountResults ==
  LET s == Stats(db.results)
      told(b) == Cardinality({x \in returned : x[1] = "result" /\ x[3] = b})
  IN /\ told(TRUE) <= s.success /\ told(FALSE) <= s.failure
     /\ s.total <= calls
     /\ \A q \in Reasons : s.reasons[q] <= s.failure
=============================================================================
