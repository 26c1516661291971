------------------------------- MODULE KdTree -------------------------------
(***************************************************************************)
(* The kd-tree of gm_navigation (navigation/src/kdtree.cpp): insertion,    *)
(* kd_clear, and the two queries Nav makes, kd_nearest for GetClosestNode  *)
(* and kd_nearest_range for GetNearestNodes.                               *)
(*                                                                         *)
(* Tree nodes are counted in the order of insertion: 1 is the root, and 0  *)
(* is the null pointer.  Coordinates are integers, and allocation does not *)
(* fail.  The order of a result list says nothing (rlist_insert puts new   *)
(* entries first when the query is not ordered, and all of Nav's are not), *)
(* so a result is a set.                                                   *)
(***************************************************************************)
EXTENDS Integers, Sequences

CONSTANTS
  Dim,        \* the dimensions, counted from 1 here and from 0 in the code
  Points,     \* the points inserted
  Query,      \* the points asked for
  Ranges,     \* the ranges asked for
  MaxNodes    \* bound: the nodes of the tree

ASSUME KdTreeAssumption ==
  /\ Dim \in Nat \ {0}
  /\ Points \subseteq [1 .. Dim -> Int]
  /\ Query \subseteq [1 .. Dim -> Int]
  /\ Ranges \subseteq Nat
  /\ MaxNodes \in Nat

VARIABLES
  pos,      \* kdnode::pos, of every node
  dir,      \* kdnode::dir, the dimension a node splits
  child,    \* kdnode::left and right
  rect,     \* kdtree::rect, or the empty sequence before the first insertion
  answer    \* the nodes the last query returned

kdVars == <<pos, dir, child, rect, answer>>

Dims == 1 .. Dim
Sides == {"left", "right"}
Other(side) == IF side = "left" THEN "right" ELSE "left"
Rect(min, max) == [min |-> min, max |-> max]

SumSq(v) ==
  LET sum[i \in 0 .. Dim] == IF i = 0 THEN 0 ELSE sum[i - 1] + v[i] * v[i]
  IN  sum[Dim]
DistSq(p, q) == SumSq([i \in Dims |-> p[i] - q[i]])
Abs(x) == IF x < 0 THEN -x ELSE x

KdInit ==
  /\ pos = <<>> /\ dir = <<>> /\ child = <<>>
  /\ rect = <<>>
  /\ answer = {}

\* insert_rec: the free slot a point belongs in, where equal goes right.
SideOf(n, p) == IF p[dir[n]] < pos[n][dir[n]] THEN "left" ELSE "right"
Slot(p) ==
  LET slot[n \in DOMAIN pos] ==
        LET next == child[n][SideOf(n, p)]
        IN  IF next = 0 THEN <<n, SideOf(n, p)>> ELSE slot[next]
  IN  slot[1]

\* hyperrect_extend
Extend(p) ==
  Rect([i \in Dims |-> IF p[i] < rect.min[i] THEN p[i] ELSE rect.min[i]],
       [i \in Dims |-> IF p[i] > rect.max[i] THEN p[i] ELSE rect.max[i]])

\* The dimension a child splits.
NextDir(d) == (d % Dim) + 1

Leaf == [side \in Sides |-> 0]

InsertRoot(p) ==
  /\ pos = <<>>
  /\ pos' = <<p>> /\ dir' = <<1>> /\ child' = <<Leaf>>
  /\ rect' = Rect(p, p)
  /\ answer' = {}

InsertBelow(p) ==
  /\ pos # <<>> /\ Len(pos) < MaxNodes
  /\ LET s == Slot(p)
     IN  /\ pos' = Append(pos, p)
         /\ dir' = Append(dir, NextDir(dir[s[1]]))
         /\ child' = Append([child EXCEPT ![s[1]][s[2]] = Len(pos) + 1], Leaf)
  /\ rect' = Extend(p)
  /\ answer' = {}

Clear ==
  /\ pos # <<>>
  /\ pos' = <<>> /\ dir' = <<>> /\ child' = <<>>
  /\ rect' = <<>>
  /\ answer' = {}

(***************************************************************************)
(* kd_nearest_i: the best node so far is handed through the nearer subtree,*)
(* the node and the farther subtree, which is left out when the part of    *)
(* the bounding box it lies in is no closer.                               *)
(***************************************************************************)
Nearer(n, q) == IF q[dir[n]] - pos[n][dir[n]] <= 0 THEN "left" ELSE "right"

\* The part of a box on a side of a node.
Slice(n, box, side) ==
  IF side = "left" THEN [box EXCEPT !.max[dir[n]] = pos[n][dir[n]]]
                   ELSE [box EXCEPT !.min[dir[n]] = pos[n][dir[n]]]

\* hyperrect_dist_sq
BoxDistSq(box, q) ==
  SumSq([i \in Dims |-> IF q[i] < box.min[i] THEN box.min[i] - q[i]
                        ELSE IF q[i] > box.max[i] THEN box.max[i] - q[i] ELSE 0])

Closer(n, best, q) == IF DistSq(pos[n], q) < DistSq(pos[best], q) THEN n ELSE best

Corner == [Dims -> { p[i] : p \in Points, i \in Dims }]
Boxes == [min : Corner, max : Corner]
Nearest(q) ==
  LET search[n \in 0 .. Len(pos)] ==
        [box \in Boxes |-> [best \in DOMAIN pos |->
          IF n = 0 THEN best
          ELSE LET side == Nearer(n, q)
                   b1 == search[child[n][side]][Slice(n, box, side)][best]
                   b2 == Closer(n, b1, q)
                   far == Slice(n, box, Other(side))
               IN  IF BoxDistSq(far, q) < DistSq(pos[b2], q)
                   THEN search[child[n][Other(side)]][far][b2]
                   ELSE b2]]
  IN  search[1][rect][1]

\* find_nearest, whose test of the farther subtree is strict.  (Mutant: the
\* distance of the node is taken for that of its plane.)
CrossesNode(n, q, r) == DistSq(pos[n], q) < r * r
Crosses(n, q, r) == Abs(q[dir[n]] - pos[n][dir[n]]) < r

FindNearest(q, r) ==
  LET found[n \in 0 .. Len(pos)] ==
        IF n = 0 THEN {}
        ELSE (IF DistSq(pos[n], q) <= r * r THEN {n} ELSE {})
               \cup found[child[n][Nearer(n, q)]]
               \cup (IF Crosses(n, q, r) THEN found[child[n][Other(Nearer(n, q))]] ELSE {})
  IN  IF pos = <<>> THEN {} ELSE found[1]

AskNearest(q) ==
  /\ answer' = IF pos = <<>> THEN {} ELSE {Nearest(q)}
  /\ UNCHANGED <<pos, dir, child, rect>>

AskRange(q, r) ==
  /\ answer' = FindNearest(q, r)
  /\ UNCHANGED <<pos, dir, child, rect>>

KdNext ==
  \/ \E p \in Points : InsertRoot(p) \/ InsertBelow(p)
  \/ Clear
  \/ \E q \in Query : AskNearest(q) \/ \E r \in Ranges : AskRange(q, r)

KdSpec == KdInit /\ [][KdNext]_kdVars

(***************************************************************************)
(* Properties.                                                             *)
(***************************************************************************)

\* Every variable has its type.
TypeOK ==
  /\ pos \in Seq(Points)
  /\ dir \in [DOMAIN pos -> Dims]
  /\ child \in [DOMAIN pos -> [Sides -> 0 .. Len(pos)]]
  /\ rect = <<>> \/ rect \in Boxes
  /\ answer \subseteq DOMAIN pos

\* The queries see what was inserted: every point has its slot in the tree, and
\* neither the bounding box nor the splitting planes hide one that is nearest,
\* or that is nearer than the range, also among points with equal coordinates.
Set == INSTANCE KdSet WITH points <- pos, Point <- Points
Refines == Set!SetSpec

============================================================================
