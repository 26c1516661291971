---------------------------- MODULE MCNavSearch ----------------------------
(***************************************************************************)
(* Instances of NavSearch for TLC: positions with whole-number distances,  *)
(* the three heuristics on them, and the graphs searches start on.         *)
(***************************************************************************)
EXTENDS NavSearch

Abs(i) == IF i < 0 THEN -i ELSE i
Zero(D) == [pq \in DOMAIN D |-> 0]

\* Points of a line.
LinePos == 0 .. 4
LineDist == [pq \in LinePos \X LinePos |-> Abs(pq[1] - pq[2])]
\* HEURISTIC_EUCLIDEAN, and HEURISTIC_CUSTOM, which always returns NULL.
LineHeur == [euclidean |-> LineDist, custom |-> Zero(LineDist)]
LineHeuristics == DOMAIN LineHeur

\* The corners of a 3 by 4 rectangle, where HEURISTIC_MANHATTAN overestimates
\* the diagonal.
RectPos == {<<0, 0>>, <<3, 0>>, <<0, 4>>, <<3, 4>>}
Manhattan(p, q) == Abs(p[1] - q[1]) + Abs(p[2] - q[2])
RectDist ==
  [pq \in RectPos \X RectPos |->
     LET p == pq[1] q == pq[2]
     IN  IF p[1] # q[1] /\ p[2] # q[2] THEN 5 ELSE Manhattan(p, q)]
RectHeur ==
  [manhattan |-> [pq \in RectPos \X RectPos |-> Manhattan(pq[1], pq[2])],
   custom |-> Zero(RectDist)]
RectHeuristics == DOMAIN RectHeur

\* Four nodes of the line: 1 lies between 2 and 3, and 4 is nearer by 3.  The
\* graphs: all connections, a diamond, a one-way ring, two parts.
Four == 1 .. 4
FourPos == <<1, 0, 3, 4>>
Complete == <<<<2, 3, 4>>, <<1, 4, 3>>, <<4, 1, 2>>, <<3, 2, 1>>>>
Diamond == <<<<2, 3, NULL>>, <<4, NULL, 1>>, <<NULL, 4, 1>>, <<NULL, NULL, 2>>>>
OneWay == <<<<2, NULL, 3>>, <<3, NULL, NULL>>, <<4, NULL, NULL>>, <<1, NULL, NULL>>>>
Parts == <<<<2, NULL, NULL>>, <<1, NULL, NULL>>, <<4, 4, NULL>>, <<3, NULL, NULL>>>>
Slots(c) == [n \in DOMAIN c |-> [d \in 0 .. Len(c[n]) - 1 |-> c[n][d + 1]]]
FourWorlds ==
  { [conn |-> Slots(c), pos |-> FourPos, disabled |-> [n \in Four |-> n = x]] :
      c \in {Complete, Diamond, OneWay, Parts}, x \in {0, 2, 3} }
\* Searches between opposite ends both ways, one between neighbours, and the
\* early returns.
FourRequests == {<<1, 4>>, <<4, 1>>, <<2, 3>>, <<1, 1>>, <<NULL, 4>>}
\* A wall between the point 0 and the point 4, and one between 1 and 3.
LineBlocks == {<<0, 4>>, <<4, 0>>, <<1, 3>>, <<3, 1>>}

\* Three nodes on the rectangle for the searches a script interferes with.
Three == 1 .. 3
ThreeConn == <<<<2, 3>>, <<3, 1>>, <<NULL, 2>>>>
ThreeWorlds ==
  { [conn |-> Slots(ThreeConn), pos |-> <<<<0, 0>>, <<3, 0>>, <<3, 4>>>>,
     disabled |-> [n \in Three |-> FALSE]] }
\* Scripts that edit the graph, and scripts that move nodes and change the
\* heuristic, so that scores compare with distances of another time.
NoEdits == {{}}
ScriptEdits == {{"disable", "connect", "trace"}, {"move", "heuristic"}}
ThreeRequests == {<<1, 3>>, <<3, 1>>, <<1, 2>>}

============================================================================
