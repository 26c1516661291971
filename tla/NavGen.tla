------------------------------- MODULE NavGen -------------------------------
(***************************************************************************)
(* The generation of a graph (nav.cpp: seeds, ResetGeneration, SampleStep, *)
(* AddNode, GetGroundHeight) on top of the graph of NavGraph.              *)
(*                                                                         *)
(* The worker thread repeats SampleStep.  A call searches one direction    *)
(* of one node; what it does before that, popping from searched nodes to   *)
(* their parents, taking seeds and passing from ground to air, changes     *)
(* nothing but where it is, and each such move is a step of its own here.  *)
(* The script edits no node while the worker runs: SampleStep takes no     *)
(* lock, and the outcome would be undefined.  A generation that Shutdown   *)
(* aborts is part of NavJobs.                                              *)
(*                                                                         *)
(* The map is a terrain: floors are the solid intervals of every column,   *)
(* walls the pairs of positions a trace between is blocked (or a slope     *)
(* too steep lies), and air the free positions above.  Heights are in the  *)
(* units of the map.                                                       *)
(***************************************************************************)
EXTENDS NavGraph, FiniteSetsExt

CONSTANTS
  GridSize,       \* generationStepSize
  numDirections,  \* 4, or 8 with diagonals
  Terrains,       \* the maps
  GroundSpots, AirSpots,  \* where the script puts seeds
  MaxSeeds        \* bound: the seeds, of both kinds

VARIABLES
  visited,       \* Node::visited, the set of the directions whose bit is set
  parent,        \* Node::nodeParent
  terrain,
  groundSeeds, airSeeds,            \* groundSeedList, airSeedList
  groundSeedIndex, airSeedIndex,    \* counted from 1, past the end when -1
  generating, generated, generatingGround, currentNode

search == <<visited, parent>>
seeds  == <<groundSeeds, airSeeds>>
phase  == <<groundSeedIndex, airSeedIndex, generating, generated,
            generatingGround, currentNode>>
vars == <<graphVars, search, terrain, seeds, phase>>

(***************************************************************************)
(* Directions and what a step in one of them comes to.                     *)
(***************************************************************************)
NavDirType == 0 .. 13
OppositeDirection ==
  [d \in NavDirType |->
     CASE d \in 4 .. 7 -> 11 - d
       [] OTHER        -> IF d % 2 = 0 THEN d + 1 ELSE d - 1]

GroundDirs == 0 .. numDirections - 1
AirDirs == 8 .. 13

Step == [d \in NavDirType |->
  << << 0,  1, 0>>, << 0, -1, 0>>, << 1, 0, 0>>, <<-1,  0, 0>>,
     << 1,  1, 0>>, <<-1,  1, 0>>, << 1, -1, 0>>, <<-1, -1, 0>>,
     << 0,  0, 1>>, << 0,  0, -1>>, <<-1, 0, 0>>, << 1,  0, 0>>,
     << 0,  1, 0>>, << 0, -1, 0>> >>[d + 1]]
Moved(p, d) ==
  <<p[1] + GridSize * Step[d][1], p[2] + GridSize * Step[d][2], p[3] + GridSize * Step[d][3]>>

Abs(x) == IF x < 0 THEN -x ELSE x

\* Round adds half a grid step away from 0 and drops the fraction, which is all
\* that is left of rounding to the grid: Unit * (int)Val / (int)Unit is (int)Val.
Round(v) == IF v < 0 THEN v - GridSize \div 2 ELSE v + GridSize \div 2
SnapToGrid(p) == <<Round(p[1]), Round(p[2]), p[3]>>

\* GetNode's test: less than 0.45 grid steps apart along each axis.
NearBy(p, q) == \A i \in 1 .. 3 : 100 * Abs(p[i] - q[i]) < 45 * GridSize

HumanHeight == 72
DeathDrop == 30
Offsets == { 1 + 10 * k : k \in 0 .. 9 }

\* GetGroundHeight: traces down from ten heights find the floors from the one
\* under p up, and the lowest with headroom counts.  A trace that meets no floor
\* ends in the abyss; one that begins in the ground does not count, and without
\* any the call fails.
Column(p) == <<p[1] \div GridSize, p[2] \div GridSize>>
Layers(p) ==
  LET floors == IF Column(p) \in DOMAIN terrain.floors THEN terrain.floors[Column(p)] ELSE {}
      solid(z) == \E f \in floors : f[1] <= z /\ z < f[2]
      under(z) == { f[2] : f \in { g \in floors : g[2] <= z } } \cup {p[3] - 9999}
  IN  { Max(under(z)) : z \in { y \in { p[3] + o : o \in Offsets } : ~solid(y) } }

Headroom(h, layers) == \A g \in layers : g > h => g - h >= HumanHeight
Ground(p) == Min({ h \in Layers(p) : Headroom(h, Layers(p)) })
Landing(p, d) == <<Moved(p, d)[1], Moved(p, d)[2], Ground(Moved(p, d))>>

\* The ledge is neither too high to climb nor a drop to death.
GoodLedge(from, to) == to[3] - from[3] <= GridSize /\ from[3] - to[3] <= DeathDrop

Walkable(p, d) ==
  /\ Layers(Moved(p, d)) # {}
  /\ <<p, Landing(p, d)>> \notin terrain.walls
  /\ GoodLedge(p, Landing(p, d))

Flyable(p, d) == Moved(p, d) \in terrain.air

(***************************************************************************)
(* The script.                                                             *)
(***************************************************************************)
Init ==
  /\ GraphInit
  /\ visited = [c \in Cell |-> {}]
  /\ parent = [c \in Cell |-> NULL]
  /\ terrain \in Terrains
  /\ groundSeeds = <<>> /\ airSeeds = <<>>
  /\ groundSeedIndex = 1 /\ airSeedIndex = 1
  /\ generating = FALSE /\ generated = FALSE /\ generatingGround = FALSE
  /\ currentNode = NULL

AddGroundSeed(p) ==
  /\ ~generating
  /\ Len(groundSeeds) + Len(airSeeds) < MaxSeeds
  /\ groundSeeds' = Append(groundSeeds, SnapToGrid(p))
  /\ UNCHANGED <<graphVars, search, terrain, airSeeds, phase>>

AddAirSeed(p) ==
  /\ ~generating
  /\ Len(groundSeeds) + Len(airSeeds) < MaxSeeds
  /\ airSeeds' = Append(airSeeds, SnapToGrid(p))
  /\ UNCHANGED <<graphVars, search, terrain, groundSeeds, phase>>

ClearSeeds ==
  /\ ~generating
  /\ \/ groundSeeds' = <<>> /\ UNCHANGED airSeeds
     \/ airSeeds' = <<>> /\ UNCHANGED groundSeeds
  /\ UNCHANGED <<graphVars, search, terrain, phase>>

\* GenerateQueue, which returns at once while a generation runs.
Generate ==
  /\ ~generating
  /\ groundSeedIndex' = 1 /\ airSeedIndex' = 1
  /\ currentNode' = NULL
  /\ startNode' = NULL /\ endNode' = NULL
  /\ generating' = TRUE /\ generated' = FALSE /\ generatingGround' = TRUE
  /\ tree' = {} /\ nodes' = <<>>
  /\ pos' = [c \in Cell |-> Somewhere]
  /\ conn' = [c \in Cell |-> NoConnections]
  /\ visited' = [c \in Cell |-> {}]
  /\ parent' = [c \in Cell |-> NULL]
  /\ UNCHANGED <<id, disk, script, terrain, seeds>>

ScriptEdits ==
  /\ ~generating
  /\ GraphNext
  /\ UNCHANGED <<search, terrain, seeds, phase>>

(***************************************************************************)
(* The worker.                                                             *)
(***************************************************************************)
\* Any free cell will do.
FreshCell == CHOOSE c \in Cell : c \notin Live

\* GetNextGroundSeedNode and GetNextAirSeedNode: the next seed that is in reach
\* and has no node near it.
Usable(p) == GetNode(p) = NULL /\ ~TooFar(p)

NextSeed(list, i) ==
  LET left == { j \in i .. Len(list) : Usable(list[j]) }
  IN  IF left = {} THEN 0 ELSE CHOOSE j \in left : \A k \in left : j <= k

\* A seed's node has no parent, and the tree does not hold it.
SeedNode(p) ==
  /\ NewNode(FreshCell, p)
  /\ conn' = [conn EXCEPT ![FreshCell] = NoConnections]
  /\ parent' = [parent EXCEPT ![FreshCell] = NULL]
  /\ visited' = [visited EXCEPT ![FreshCell] = {}]
  /\ currentNode' = FreshCell

SeedStep ==
  /\ UNCHANGED <<tree, ends, disk, script, terrain, seeds>>
  /\ \/ /\ generatingGround
        /\ LET j == NextSeed(groundSeeds, groundSeedIndex)
           IN  \/ /\ j # 0 /\ SeedNode(groundSeeds[j])
                  /\ groundSeedIndex' = j + 1
                  /\ UNCHANGED <<airSeedIndex, generating, generated, generatingGround>>
               \/ /\ j = 0 /\ generatingGround' = FALSE
                  /\ groundSeedIndex' = Len(groundSeeds) + 1
                  /\ UNCHANGED <<nodes, cells, search, airSeedIndex,
                                 generating, generated, currentNode>>
     \/ /\ ~generatingGround
        /\ LET j == NextSeed(airSeeds, airSeedIndex)
           IN  \/ /\ j # 0 /\ SeedNode(airSeeds[j])
                  /\ airSeedIndex' = j + 1
                  /\ UNCHANGED <<groundSeedIndex, generating, generated, generatingGround>>
               \/ /\ j = 0 /\ generated' = TRUE /\ generating' = FALSE
                  /\ airSeedIndex' = Len(airSeeds) + 1
                  /\ UNCHANGED <<nodes, cells, search, groundSeedIndex,
                                 generatingGround, currentNode>>

\* The directions of this phase that currentNode has not searched.  (Mutant:
\* all of them.)
AllDirections == IF generatingGround THEN GroundDirs ELSE AirDirs
Unsearched ==
  (IF generatingGround THEN GroundDirs ELSE AirDirs) \ visited[currentNode]

\* AddNode with a source: a node that is near p, or a new one, which becomes
\* the current node, is connected with currentNode both ways, and has the way
\* back marked as searched.
AddNode(p, d) ==
  LET n == currentNode
      near == GetNode(p)
      m == IF near = NULL THEN FreshCell ELSE near
      back == Opposite[d]
  IN  /\ IF near = NULL
           THEN /\ NewNode(m, p)
                /\ tree' = tree \cup {<<p, m>>}
                /\ parent' = [parent EXCEPT ![m] = n]
                /\ currentNode' = m
           ELSE UNCHANGED <<nodes, id, pos, tree, parent, currentNode>>
      /\ conn' = Link(n, m, d)
      /\ visited' = [c \in Cell |->
           visited[c] \cup (IF c = n THEN {d} ELSE {}) \cup (IF c = m THEN {back} ELSE {})]

\* What lies in a direction, or NULL.
Found(p, d) ==
  LET to == IF generatingGround THEN Landing(p, d) ELSE Moved(p, d)
      free == IF generatingGround THEN Walkable(p, d) ELSE Flyable(p, d)
  IN  IF free /\ ~TooFar(to) THEN to ELSE NULL

\* Where the worker goes when currentNode is searched.  (Mutant: to the seeds.)
DropChain == NULL
Popped == parent[currentNode]

Explore ==
  /\ \E d \in Unsearched :
       /\ \A e \in Unsearched : d <= e
       /\ \E to \in {Found(pos[currentNode], d)} :
            IF to = NULL
            THEN /\ visited' = [visited EXCEPT ![currentNode] = @ \cup {d}]
                 /\ UNCHANGED <<nodes, cells, tree, parent, currentNode>>
            ELSE AddNode(to, d)
  /\ UNCHANGED <<ends, disk, script, terrain, seeds, groundSeedIndex, airSeedIndex,
                 generating, generated, generatingGround>>

Pop ==
  /\ Unsearched = {}
  /\ currentNode' = Popped
  /\ UNCHANGED <<graphVars, search, terrain, seeds, groundSeedIndex, airSeedIndex,
                 generating, generated, generatingGround>>

Worker ==
  /\ generating
  /\ \/ currentNode = NULL /\ SeedStep
     \/ currentNode # NULL /\ (Explore \/ Pop)

Next ==
  \/ \E p \in GroundSpots : AddGroundSeed(p)
  \/ \E p \in AirSpots : AddAirSeed(p)
  \/ ClearSeeds
  \/ Generate
  \/ ScriptEdits
  \/ Worker

\* The worker is a thread of its own, which runs until SampleStep says it is
\* done.
Spec == Init /\ [][Next]_vars /\ WF_vars(Worker)

(***************************************************************************)
(* Properties.                                                             *)
(***************************************************************************)

\* Every variable has its type.
TypeOK ==
  /\ GraphTypeOK
  /\ visited \in [Cell -> SUBSET Dir]
  /\ parent \in [Cell -> Cell \cup {NULL}]
  /\ terrain \in Terrains
  /\ groundSeeds \in Seq(Pos) /\ airSeeds \in Seq(Pos)
  /\ groundSeedIndex \in 1 .. MaxSeeds + 1 /\ airSeedIndex \in 1 .. MaxSeeds + 1
  /\ generating \in BOOLEAN /\ generated \in BOOLEAN /\ generatingGround \in BOOLEAN
  /\ currentNode \in (IF generating THEN Live ELSE Cell) \cup {NULL}

\* A generation ends, however the nodes it comes upon are connected: no chain
\* of parents runs in a circle, and no direction is searched for ever.
GenerationEnds == generating ~> generated

\* What was generated is complete: no node of the ground (a seed's, or one that
\* a ground direction leads to) was left before all its directions were
\* searched, so wherever one could walk on there is a connection.  And no place
\* has two nodes, of seeds or samples, one of which GetNode would never find.
GroundNodes ==
  { n \in Live : \/ pos[n] \in ToSet(groundSeeds)
                 \/ \E d \in GroundDirs : conn[n][d] # NULL }

GroundIsExplored ==
  [][~generated /\ generated' =>
       /\ \A n \in GroundNodes, d \in GroundDirs :
            Walkable(pos[n], d) /\ ~TooFar(Landing(pos[n], d)) => conn[n][d] # NULL
       /\ \A n, m \in Live : n # m => ~NearBy(pos[n], pos[m])]_vars

=============================================================================
