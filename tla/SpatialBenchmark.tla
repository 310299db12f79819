---------------------------- MODULE SpatialBenchmark ----------------------------
(***************************************************************************)
(* Scoring one usable frame of the spatial perception benchmark: the       *)
(* reference producer finds the blobs of marked pixels and says where they *)
(* are, and points predicted by it, or by any other producer, are matched  *)
(* one to one with the annotated points.  Distances are compared squared;  *)
(* predictions below the confidence threshold are gone already.            *)
(***************************************************************************)
EXTENDS Integers, FiniteSets, TLC, SequencesExt, FiniteSetsExt

CONSTANTS
  Width, Height,
  Tolerance,    \* the matching tolerance, squared
  MaxPoints     \* predictions, and annotated points, of a frame

BenchmarkAssumption ==
  Width \in Nat \ {0} /\ Height \in Nat \ {0} /\ Tolerance \in Nat /\ MaxPoints \in Nat

VARIABLES
  picture,    \* the pixels that carry the sprite marker
  predicted,  \* points a producer gave, in its order
  targets     \* points of the annotation, in its order
vars == <<picture, predicted, targets>>

Pixels == (0..Width - 1) \X (0..Height - 1)

(* --- the reference producer ----------------------------------------------------- *)

\* Row by row, left to right.
Before(p, q) == p[2] < q[2] \/ (p[2] = q[2] /\ p[1] < q[1])

Neighbors(p) ==
  {q \in Pixels : \/ q[1] = p[1] /\ q[2] - p[2] \in {-1, 1}
                  \/ q[2] = p[2] /\ q[1] - p[1] \in {-1, 1}}

RECURSIVE Flood(_, _, _)
Flood(component, frontier, left) ==
  IF frontier = {} THEN component
  ELSE LET at == CHOOSE p \in frontier : TRUE
           new == Neighbors(at) \cap left
       IN  Flood(component \cup new, (frontier \ {at}) \cup new, left \ new)

TopLeft(component) == CHOOSE p \in component : \A q \in component \ {p} : Before(p, q)

RECURSIVE Components(_)
Components(marked) ==
  IF marked = {} THEN {}
  ELSE LET start == TopLeft(marked)
           component == Flood({start}, {start}, marked \ {start})
       IN  {component} \cup Components(marked \ component)

Centroid(component) ==
  LET n == Cardinality(component)
  IN  <<MapThenSumSet(LAMBDA p : p[1], component) \div n, MapThenSumSet(LAMBDA p : p[2], component) \div n>>

\* Sprites in the order of their centroids, then of their first pixels.
Produced(marked) ==
  LET First(c, d) ==
        \/ Before(Centroid(c), Centroid(d))
        \/ Centroid(c) = Centroid(d) /\ Before(TopLeft(c), TopLeft(d))
      blobs == SetToSortSeq(Components(marked), First)
  IN  [i \in DOMAIN blobs |-> Centroid(blobs[i])]

(* --- matching --------------------------------------------------------------------- *)

Distance(p, q) == (p[1] - q[1]) * (p[1] - q[1]) + (p[2] - q[2]) * (p[2] - q[2])

\* By coordinate and then by index.
Earlier(points, i, j) ==
  \/ points[i][1] < points[j][1]
  \/ points[i][1] = points[j][1] /\ points[i][2] < points[j][2]
  \/ points[i] = points[j] /\ i < j

\* The targets a prediction may take: the nearest first.
Candidates(points, at, targeted) ==
  SetToSortSeq({t \in DOMAIN targeted : Distance(points[at], targeted[t]) <= Tolerance},
               LAMBDA t, u : LET near == Distance(points[at], targeted[t])
                                 far == Distance(points[at], targeted[u])
                             IN  near < far \/ (near = far /\ Earlier(targeted, t, u)))

\* A prediction takes the first target that is free or whose holder finds another.
RECURSIVE AssignPrediction(_, _, _, _)
AssignPrediction(p, open, state, candidates) ==
  IF open = <<>> THEN [state EXCEPT !.found = FALSE]
  ELSE LET t == Head(open)
           seen == [state EXCEPT !.seen = @ \cup {t}]
           holder == state.match[t]
           moved == AssignPrediction(holder, candidates[holder], seen, candidates) IN
       CASE t \in state.seen -> AssignPrediction(p, Tail(open), state, candidates)
         [] t \notin state.seen /\ holder = 0 -> [seen EXCEPT !.match[t] = p, !.found = TRUE]
         [] t \notin state.seen /\ holder # 0 ->
              IF moved.found THEN [moved EXCEPT !.match[t] = p]
              ELSE AssignPrediction(p, Tail(open), moved, candidates)

\* Target -> the prediction that holds it, or 0.
MatchPoints(points, targeted) ==
  LET order == SetToSortSeq(DOMAIN points, LAMBDA i, j : Earlier(points, i, j))
      candidates == [p \in DOMAIN points |-> Candidates(points, p, targeted)]
      after[n \in 0..Len(order)] ==
        IF n = 0 THEN [t \in DOMAIN targeted |-> 0]
        ELSE LET match == after[n - 1]
                 try == AssignPrediction(order[n], candidates[order[n]],
                          [match |-> match, seen |-> {}, found |-> FALSE], candidates)
             IN  try.match
  IN  after[Len(order)]

Matched(match) == {t \in DOMAIN match : match[t] # 0}

Score(points, targeted) ==
  LET match == MatchPoints(points, targeted)
      hits == Cardinality(Matched(match)) IN
  [truePositive |-> hits, falsePositive |-> Len(points) - hits, falseNegative |-> Len(targeted) - hits,
   errors |-> SortSeq(SetToSeq({<<Distance(points[match[t]], targeted[t]), t>> : t \in Matched(match)}),
                      LAMBDA d, e : d[1] < e[1])]

(* --- frames ------------------------------------------------------------------------- *)

Init ==
  /\ picture \in SUBSET Pixels
  /\ predicted = Produced(picture) /\ targets = <<>>

\* Another producer sees something on a frame without markers.
Predict(p) ==
  /\ picture = {} /\ Len(predicted) < MaxPoints
  /\ predicted' = Append(predicted, p) /\ UNCHANGED <<picture, targets>>

\* The annotation has one more point.
Annotate(p) ==
  /\ Len(targets) < MaxPoints
  /\ targets' = Append(targets, p) /\ UNCHANGED <<picture, predicted>>

Next == \E p \in Pixels : Predict(p) \/ Annotate(p)
Spec == Init /\ [][Next]_vars

(* --- properties ------------------------------------------------------------------------ *)

\* The matching is one to one, within the tolerance, and no other has more pairs: as many points as
\* it has pairs are enough to touch every pair that may be matched (_match_points: "maximum-cardinality
\* one-to-one").
MatchingIsMaximum ==
  LET match == MatchPoints(predicted, targets)
      pairs == {<<p, t>> \in (DOMAIN predicted) \X (DOMAIN targets) :
                  Distance(predicted[p], targets[t]) <= Tolerance} IN
  /\ \A t, u \in Matched(match) : <<match[t], t>> \in pairs /\ (match[t] = match[u] => t = u)
  /\ \E ps \in SUBSET DOMAIN predicted, ts \in SUBSET DOMAIN targets :
       /\ Cardinality(ps) + Cardinality(ts) = Cardinality(Matched(match))
       /\ \A pair \in pairs : pair[1] \in ps \/ pair[2] \in ts

\* The score is of the points, not of their lists: predictions or annotations in another order give
\* the same counts and the same distances (_match_points: "deterministic").
ScoreIgnoresOrder ==
  LET Of(score) == [score EXCEPT !.errors = [i \in DOMAIN @ |-> @[i][1]]]
      sorted(points) == SortSeq(points, LAMBDA p, q : p # q /\ ~Before(p, q)) IN
  Of(Score(predicted, targets)) = Of(Score(sorted(predicted), sorted(targets)))

\* The producer tells blobs apart and loses none: two marked pixels are in one component exactly when
\* steps over marked pixels lead from one to the other (_marker_components).
ComponentsAreBlobs ==
  LET joined[n \in 0..Cardinality(picture)] ==
        IF n = 0 THEN [p \in picture |-> {p}]
        ELSE LET near == joined[n - 1]
             IN  [p \in picture |-> near[p] \cup {q \in picture :
                    \E r \in near[p] : (q[1] - r[1]) * (q[1] - r[1]) + (q[2] - r[2]) * (q[2] - r[2]) = 1}]
  IN  /\ Components(picture) = {joined[Cardinality(picture)][p] : p \in picture}
      /\ Len(predicted) = IF picture = {} THEN Len(predicted) ELSE Cardinality(Components(picture))
=============================================================================
