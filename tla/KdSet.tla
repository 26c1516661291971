------------------------------- MODULE KdSet -------------------------------
(***************************************************************************)
(* What Nav expects of its kd-tree: a collection of points, counted in the *)
(* order of their insertion, that can be asked for one nearest to a point  *)
(* and for those within a range of one.                                    *)
(***************************************************************************)
EXTENDS Integers, Sequences

CONSTANTS
  Point,         \* the points inserted
  Query,         \* the points asked for
  Ranges,        \* the ranges asked for
  DistSq(_, _)   \* the square of the distance of two points

VARIABLES
  points,   \* what was inserted
  answer    \* the numbers of the points the last query returned

setVars == <<points, answer>>

SetInit == points = <<>> /\ answer = {}

SetInsert(p) == points' = Append(points, p) /\ answer' = {}

SetClear == points' = <<>> /\ answer' = {}

Closest(q) ==
  { i \in DOMAIN points : \A j \in DOMAIN points : DistSq(points[i], q) <= DistSq(points[j], q) }

SetNearest(q) ==
  /\ IF points = <<>> THEN answer' = {} ELSE \E i \in Closest(q) : answer' = {i}
  /\ UNCHANGED points

\* A point at exactly the range may be left out.
Inside(q, r) == { i \in DOMAIN points : DistSq(points[i], q) < r * r }
Within(q, r) == { i \in DOMAIN points : DistSq(points[i], q) <= r * r }

SetRange(q, r) ==
  /\ Inside(q, r) \subseteq answer' /\ answer' \subseteq Within(q, r)
  /\ UNCHANGED points

SetNext ==
  \/ \E p \in Point : SetInsert(p)
  \/ SetClear
  \/ \E q \in Query : SetNearest(q) \/ \E r \in Ranges : SetRange(q, r)

SetSpec == SetInit /\ [][SetNext]_setVars

============================================================================
