------------------------------ MODULE NavGraph ------------------------------
(***************************************************************************)
(* The node graph of gm_navigation as a script edits it: the nodes of one  *)
(* Nav, their ids and connections, the kd-tree over them, the chosen start *)
(* and end, and the file that nav:Save writes and nav:Load reads           *)
(* (navigation/src/nav.cpp, node.cpp, and the bindings of main.cpp).       *)
(*                                                                         *)
(* Nodes are cells of the heap.  A deleted cell keeps its id, which is one *)
(* of the things reading it may give; the model clears the rest of it,     *)
(* which only keeps the states few.  All of this runs on the Lua thread.   *)
(* NavGen adds generation, and with it the early returns of Save and Load  *)
(* while one runs and the marks of the directions already searched.        *)
(*                                                                         *)
(* Every behaviour has one script, the set of things it does:              *)
(*   "create" "connect" "disconnect" "remove" "move" "choose" "file"       *)
(* are the operations, and two more are mistakes nothing guards against:   *)
(*   "overwrite"    it connects into a slot that holds another node, which *)
(*                  leaves the other end of the old connection in place    *)
(*   "remove ends"  it removes the node chosen as start or as end          *)
(*                                                                         *)
(* Positions are points up to GetNode's tolerance: two of them are near    *)
(* each other or not.                                                      *)
(***************************************************************************)
EXTENDS Integers, SequencesExt

CONSTANTS
  Cell,      \* the cells of the heap that hold nodes
  NULL,      \* the null pointer
  Dir,       \* the directions of NavDirType
  Opposite,  \* OppositeDirection
  Pos,       \* the positions
  Near(_, _),  \* the positions GetNode takes for one
  TooFar(_),   \* whether a position is outside of generationMaxDistance
  Scripts    \* what the scripts do

Uses == {"create", "connect", "disconnect", "remove", "move", "choose", "file",
         "overwrite", "remove ends"}

ASSUME NavGraphAssumption ==
  /\ NULL \notin Cell
  /\ Opposite \in [Dir -> Dir]
  /\ \A d \in Dir : Opposite[Opposite[d]] = d
  /\ Pos # {} /\ \A p \in Pos : Near(p, p)
  /\ Scripts \subseteq SUBSET Uses

VARIABLES
  nodes,      \* Nav::nodes
  id,         \* Node::iID, counted from 0
  pos,        \* Node::vecPos
  conn,       \* Node::connections
  tree,       \* Nav::nodeTree: positions with their nodes
  startNode, endNode,  \* Nav::nodeStart and nodeEnd
  file,       \* the saved file, or NULL
  strayed,    \* history: Load used an id that is no index of nodes
  script      \* what the script does

cells == <<id, pos, conn>>
ends  == <<startNode, endNode>>
disk  == <<file, strayed>>
graphVars == <<nodes, cells, tree, ends, disk, script>>

Live == ToSet(nodes)
NoConnections == [d \in Dir |-> NULL]
Somewhere == CHOOSE p \in Pos : TRUE
Kept(f, live, x) == [c \in Cell |-> IF c \in live THEN f[c] ELSE x]
IdIn(s, c) == (CHOOSE i \in DOMAIN s : s[i] = c) - 1

GraphInit ==
  /\ nodes = <<>>
  /\ id = [c \in Cell |-> -1]
  /\ pos = [c \in Cell |-> Somewhere]
  /\ conn = [c \in Cell |-> NoConnections]
  /\ tree = {}
  /\ startNode = NULL /\ endNode = NULL
  /\ file = NULL /\ strayed = FALSE
  /\ script \in Scripts

\* GetNode: the first node near a position.
GetNode(p) ==
  LET hits == { i \in DOMAIN nodes : Near(pos[nodes[i]], p) }
  IN  IF hits = {} THEN NULL ELSE nodes[CHOOSE i \in hits : \A j \in hits : i <= j]

\* new Node and AddToTail, whose result is the id.
NewNode(c, p) ==
  /\ nodes' = Append(nodes, c)
  /\ id' = [id EXCEPT ![c] = Len(nodes)]
  /\ pos' = [pos EXCEPT ![c] = p]

\* Nav_CreateNode: AddNode without a source.  A node that is near is returned
\* as it is, and nothing changes.
CreateNode(c, p) ==
  /\ "create" \in script
  /\ c \notin Live
  /\ ~TooFar(p) /\ GetNode(p) = NULL
  /\ NewNode(c, p)
  /\ conn' = [conn EXCEPT ![c] = NoConnections]
  /\ tree' = tree \cup {<<p, c>>}
  /\ UNCHANGED <<ends, disk, script>>

\* RemoveNode clears the opposite slots of the neighbours.  (Mutant: it clears
\* the slots of the same direction.)
ClearSameSlots(n) ==
  [c \in Cell |-> [d \in Dir |-> IF conn[n][d] = c THEN NULL ELSE conn[c][d]]]
ClearSlots(n) ==
  [c \in Cell |-> [d \in Dir |->
     IF conn[n][Opposite[d]] = c THEN NULL ELSE conn[c][d]]]

\* The rest is renumbered.
Renumber(left) ==
  [c \in Cell |-> IF c \in ToSet(left) THEN IdIn(left, c) ELSE id[c]]

RemoveNode(n) ==
  LET left == RemoveAt(nodes, id[n] + 1)
  IN  /\ "remove" \in script
      /\ n \in {startNode, endNode} => "remove ends" \in script
      /\ nodes' = left
      /\ id' = Renumber(left)
      /\ tree' = { <<pos[c], c>> : c \in ToSet(left) }
      /\ conn' = Kept(ClearSlots(n), ToSet(left), NoConnections)
      /\ pos' = Kept(pos, ToSet(left), Somewhere)
      /\ UNCHANGED <<ends, disk, script>>

Free(n, d, m) == conn[n][d] \in {NULL, m} \/ "overwrite" \in script

\* Node_ConnectTo, and the two calls AddNode connects a node with.
Link(n, m, d) == [conn EXCEPT ![n][d] = m, ![m][Opposite[d]] = n]

ConnectTo(n, m, d) ==
  /\ "connect" \in script
  /\ Free(n, d, m) /\ Free(m, Opposite[d], n)
  /\ conn' = Link(n, m, d)
  /\ UNCHANGED <<nodes, id, pos, tree, ends, disk, script>>

\* Node_RemoveConnection clears both ends.
Unlink(n, d) == [conn EXCEPT ![n][d] = NULL, ![conn[n][d]][Opposite[d]] = NULL]

RemoveConnection(n, d) ==
  /\ "disconnect" \in script
  /\ conn[n][d] # NULL
  /\ conn' = Unlink(n, d)
  /\ UNCHANGED <<nodes, id, pos, tree, ends, disk, script>>

\* Node_SetPosition, which leaves the tree as it is.
SetPosition(n, p) ==
  /\ "move" \in script
  /\ pos' = [pos EXCEPT ![n] = p]
  /\ UNCHANGED <<nodes, id, conn, tree, ends, disk, script>>

SetStart(n) ==
  /\ "choose" \in script
  /\ startNode' = n
  /\ UNCHANGED <<nodes, cells, tree, endNode, disk, script>>

SetEnd(n) ==
  /\ "choose" \in script
  /\ endNode' = n
  /\ UNCHANGED <<nodes, cells, tree, startNode, disk, script>>

(***************************************************************************)
(* The file: the positions in the order of nodes, and the connections as   *)
(* triples of a direction and two ids.                                     *)
(***************************************************************************)

\* The slots that hold a connection.
Slots == { x \in Dir \X Live : conn[x[2]][x[1]] # NULL }

Save ==
  /\ "file" \in script
  /\ file' = [pos   |-> [i \in DOMAIN nodes |-> pos[nodes[i]]],
              links |-> { <<x[1], id[x[2]], id[conn[x[2]][x[1]]]>> : x \in Slots }]
  /\ UNCHANGED <<nodes, cells, tree, ends, strayed, script>>

\* What the guard of Load lets through, k being nodes.Count().  (Mutant: as if
\* ids counted from 1.)
AcceptedBelow(link, k) == link[2] + 1 < k /\ link[3] + 1 < k
Accepted(link, k) == link[3] - 1 <= k /\ link[2] - 1 <= k
InBounds(link, k) == link[2] \in 0 .. k - 1 /\ link[3] \in 0 .. k - 1

\* What the tree holds as Load begins to insert.
ClearTree == {}

\* Load deletes the nodes and makes those of the file, in any cells.
LoadedConnections(new, links) ==
  [n \in ToSet(new) |-> [d \in Dir |->
     LET to == { l \in links : l[1] = d /\ l[2] = IdIn(new, n) }
     IN  IF to = {} THEN NULL ELSE new[(CHOOSE l \in to : TRUE)[3] + 1]]]

Load(new) ==
  LET k == Len(new)
      links == { l \in file.links : Accepted(l, k) }
      made == ToSet(new)
  IN  /\ "file" \in script
      /\ nodes' = new
      /\ id' = [c \in Cell |-> IF c \in made THEN IdIn(new, c) ELSE id[c]]
      /\ pos' = Kept([n \in made |-> file.pos[IdIn(new, n) + 1]], made, Somewhere)
      /\ conn' = Kept(LoadedConnections(new, { l \in links : InBounds(l, k) }),
                       made, NoConnections)
      /\ tree' = ClearTree \cup { <<pos'[n], n>> : n \in made }
      /\ startNode' = NULL /\ endNode' = NULL
      /\ strayed' = (strayed \/ \E l \in links : ~InBounds(l, k))
      /\ UNCHANGED <<file, script>>

Injections(k) == { s \in TupleOf(Cell, k) : IsInjective(s) }

Edit ==
  \/ \E c \in Cell, p \in Pos : CreateNode(c, p)
  \/ \E n \in Live : RemoveNode(n)
  \/ \E n, m \in Live, d \in Dir : ConnectTo(n, m, d)
  \/ \E n \in Live, d \in Dir : RemoveConnection(n, d)
  \/ \E n \in Live, p \in Pos : SetPosition(n, p)
  \/ \E n \in Live : SetStart(n) \/ SetEnd(n)

Disk ==
  \/ Save
  \/ file # NULL /\ \E new \in Injections(Len(file.pos)) : Load(new)

GraphNext == Edit \/ Disk
GraphSpec == GraphInit /\ [][GraphNext]_graphVars

(***************************************************************************)
(* What scripts ask; ids are counted from 1 there.                         *)
(***************************************************************************)
GetStart == startNode
GetEnd == endNode
GetNodes == nodes
GetNodeTotal == Len(nodes)
GetNodeByID(i) == IF i \in DOMAIN nodes THEN nodes[i] ELSE NULL
GetID(n) == id[n] + 1
Node__eq(n, m) == id[n] = id[m]
GetConnections(n) == { conn[n][d] : d \in Dir } \ {NULL}
IsConnected(n, m) == m \in GetConnections(n)

\* GetNearestNodes and, of it, GetClosestNode: ps are the positions in range.
GetNearestNodes(ps) == { e[2] : e \in { x \in tree : x[1] \in ps } }

(***************************************************************************)
(* Properties.                                                             *)
(***************************************************************************)

\* Every variable has its type.
GraphTypeOK ==
  /\ nodes \in Seq(Cell)
  /\ id \in [Cell -> Int] /\ \A n \in Live : id[n] < Len(nodes)
  /\ pos \in [Cell -> Pos]
  /\ conn \in [Cell -> [Dir -> Cell \cup {NULL}]]
  /\ tree \subseteq Pos \X Cell
  /\ startNode \in Cell \cup {NULL} /\ endNode \in Cell \cup {NULL}
  /\ strayed \in BOOLEAN /\ script \in Scripts

\* What scripts get is the graph and nothing but it.  Ids are indices: a node
\* is found by its id, and two are equal in Lua when they are one.  Nodes that
\* are gone are not given out: as a connection, by the tree, as the start or the
\* end.  Unless a script overwrites connections they are mutual, which
\* RemoveNode relies on; unless it moves nodes the tree has each where it is.
ScriptsSeeTheGraph ==
  /\ \A n \in ToSet(GetNodes) :
       /\ GetID(n) <= GetNodeTotal /\ GetNodeByID(GetID(n)) = n
       /\ \A m \in ToSet(GetNodes) :
            /\ Node__eq(n, m) <=> n = m
            /\ "overwrite" \notin script => IsConnected(n, m) = IsConnected(m, n)
       /\ GetConnections(n) \subseteq Live
  /\ \A ps \in SUBSET Pos :
       /\ GetNearestNodes(ps) \subseteq Live
       /\ "move" \notin script => GetNearestNodes(ps) = { n \in Live : pos[n] \in ps }
  /\ GetStart \in Live \cup {NULL} /\ GetEnd \in Live \cup {NULL}

\* The graph up to the cells its nodes are in.
Shape ==
  [pos   |-> [i \in DOMAIN nodes |-> pos[nodes[i]]],
   links |-> { <<x[1], IdIn(nodes, x[2]), IdIn(nodes, conn[x[2]][x[1]])>> : x \in Slots }]

\* Whatever was done to the nodes in between, Load brings back the graph that
\* Save wrote: positions, order and every connection.
LoadRestores ==
  [][(file # NULL /\ \E new \in Injections(Len(file.pos)) : Load(new)) => Shape' = file]_graphVars

\* Load never looks up an id that is no index of nodes: "Should never be a
\* problem..." says the comment on its guard.
LoadStaysInBounds == ~strayed

============================================================================
