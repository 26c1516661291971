--------------------------- MODULE NavGraphProofs ---------------------------
(***************************************************************************)
(* Proofs about NavGraph.                                                  *)
(***************************************************************************)
EXTENDS NavGraph, SeqLemmas

(***************************************************************************)
(* The inductive invariant.                                                *)
(***************************************************************************)

IdsAreIndices == \A i \in DOMAIN nodes : id[nodes[i]] = i - 1

ConnectionsLive == \A n \in Live, d \in Dir : conn[n][d] \in Live \cup {NULL}

ConnectionsMutual ==
  "overwrite" \notin script =>
    \A n \in Live, d \in Dir :
      conn[n][d] # NULL => conn[conn[n][d]][Opposite[d]] = n

TreeHolds ==
  /\ \A e \in tree : e[2] \in Live
  /\ "move" \notin script => tree = { <<pos[n], n>> : n \in Live }

EndsLive == startNode \in Live \cup {NULL} /\ endNode \in Live \cup {NULL}

\* The file is a graph by itself: Load finds both ends of every connection.
FileHolds ==
  file # NULL =>
    /\ file = [pos |-> file.pos, links |-> file.links]
    /\ file.pos \in Seq(Pos)
    /\ \A l \in file.links :
         l = <<l[1], l[2], l[3]>> /\ l[1] \in Dir /\ InBounds(l, Len(file.pos))
    /\ \A l, m \in file.links : (l[1] = m[1] /\ l[2] = m[2]) => l = m
    /\ "overwrite" \notin script =>
         \A l \in file.links : <<Opposite[l[1]], l[3], l[2]>> \in file.links

GraphInv ==
  /\ GraphTypeOK
  /\ IdsAreIndices
  /\ ConnectionsLive /\ ConnectionsMutual
  /\ TreeHolds /\ EndsLive
  /\ FileHolds /\ ~strayed

\* A script that removes nodes overwrites no connections, and none removes the
\* node it chose as start or end.
Careful ==
  \A s \in Scripts : "remove ends" \notin s /\ ("remove" \in s => "overwrite" \notin s)

(***************************************************************************)
(* Ids.                                                                    *)
(***************************************************************************)

\* The live nodes are found by their ids.
LEMMA LiveFacts ==
  ASSUME GraphTypeOK, IdsAreIndices
  PROVE  /\ nodes \in Seq(Cell) /\ Len(nodes) \in Nat /\ DOMAIN nodes = 1 .. Len(nodes)
         /\ Live \subseteq Cell /\ NULL \notin Live
         /\ \A i \in 1 .. Len(nodes) : nodes[i] \in Live /\ id[nodes[i]] = i - 1
         /\ \A n \in Live : id[n] + 1 \in 1 .. Len(nodes) /\ nodes[id[n] + 1] = n
         /\ \A n, m \in Live : id[n] = id[m] => n = m
         /\ \A i, k \in 1 .. Len(nodes) : nodes[i] = nodes[k] => i = k
<1>1. nodes \in Seq(Cell) /\ Len(nodes) \in Nat /\ DOMAIN nodes = 1 .. Len(nodes)
  BY DEF GraphTypeOK
<1>2. Live = { nodes[i] : i \in 1 .. Len(nodes) }
  BY <1>1 DEF Live, ToSet
<1>3. \A i \in 1 .. Len(nodes) : nodes[i] \in Cell /\ id[nodes[i]] = i - 1
  BY <1>1 DEF IdsAreIndices
<1>4. \A n \in Live : id[n] + 1 \in 1 .. Len(nodes) /\ nodes[id[n] + 1] = n
  <2> SUFFICES ASSUME NEW n \in Live
               PROVE  id[n] + 1 \in 1 .. Len(nodes) /\ nodes[id[n] + 1] = n
    OBVIOUS
  <2>1. PICK i \in 1 .. Len(nodes) : n = nodes[i]
    BY <1>2
  <2>2. id[n] + 1 = i
    BY <1>3, <2>1
  <2> QED BY <2>1, <2>2
<1>5. Live \subseteq Cell /\ NULL \notin Live
  BY <1>2, <1>3, NavGraphAssumption
<1> QED BY <1>1, <1>2, <1>3, <1>4, <1>5

\* IdIn of a sequence that repeats nothing.
LEMMA IdInFacts ==
  ASSUME NEW s \in Seq(Cell), \A i, k \in 1 .. Len(s) : s[i] = s[k] => i = k
  PROVE  /\ \A i \in 1 .. Len(s) : IdIn(s, s[i]) = i - 1
         /\ \A c \in ToSet(s) : /\ IdIn(s, c) \in 0 .. Len(s) - 1
                                /\ s[IdIn(s, c) + 1] = c
<1>1. Len(s) \in Nat /\ DOMAIN s = 1 .. Len(s)
  OBVIOUS
<1>2. \A i \in 1 .. Len(s) : IdIn(s, s[i]) = i - 1
  <2> SUFFICES ASSUME NEW i \in 1 .. Len(s) PROVE IdIn(s, s[i]) = i - 1
    OBVIOUS
  <2> DEFINE k == CHOOSE k \in DOMAIN s : s[k] = s[i]
  <2>1. k \in DOMAIN s /\ s[k] = s[i]
    BY <1>1
  <2>2. k = i
    BY <1>1, <2>1
  <2> QED BY <2>2 DEF IdIn
<1>3. \A c \in ToSet(s) : \E i \in 1 .. Len(s) : c = s[i]
  BY <1>1 DEF ToSet
<1>4. ASSUME NEW c \in ToSet(s)
      PROVE  IdIn(s, c) \in 0 .. Len(s) - 1 /\ s[IdIn(s, c) + 1] = c
  <2>1. PICK i \in 1 .. Len(s) : c = s[i]
    BY <1>3
  <2>2. IdIn(s, c) = i - 1
    BY <1>2, <2>1
  <2> QED BY <1>1, <2>1, <2>2
<1> QED BY <1>2, <1>4

(***************************************************************************)
(* The steps.                                                              *)
(***************************************************************************)

LEMMA InvInit == GraphInit => GraphInv
<1> SUFFICES ASSUME GraphInit PROVE GraphInv
  OBVIOUS
<1>1. Live = {} /\ nodes \in Seq(Cell) /\ Len(nodes) = 0
  BY DEF GraphInit, Live, ToSet
<1>2. Somewhere \in Pos
  BY NavGraphAssumption DEF Somewhere
<1>3. conn \in [Cell -> [Dir -> Cell \cup {NULL}]]
  BY DEF GraphInit, NoConnections
<1>4. GraphTypeOK
  <2>1. id \in [Cell -> Int] /\ pos \in [Cell -> Pos]
    BY <1>2 DEF GraphInit
  <2>2. tree \subseteq Pos \X Cell /\ strayed \in BOOLEAN /\ script \in Scripts
    BY DEF GraphInit
  <2>3. startNode \in Cell \cup {NULL} /\ endNode \in Cell \cup {NULL}
    BY DEF GraphInit
  <2> QED BY <1>1, <1>3, <2>1, <2>2, <2>3 DEF GraphTypeOK
<1> QED
  BY <1>1, <1>4 DEF GraphInit, GraphInv, IdsAreIndices, ConnectionsLive, ConnectionsMutual,
                    TreeHolds, EndsLive, FileHolds

LEMMA CreateStep ==
  ASSUME GraphInv, NEW c \in Cell, NEW p \in Pos, CreateNode(c, p)
  PROVE  GraphInv'
<1> USE DEF GraphInv
<1>1. /\ c \notin Live
      /\ nodes' = Append(nodes, c)
      /\ id' = [id EXCEPT ![c] = Len(nodes)]
      /\ pos' = [pos EXCEPT ![c] = p]
      /\ conn' = [conn EXCEPT ![c] = NoConnections]
      /\ tree' = tree \cup {<<p, c>>}
      /\ UNCHANGED <<startNode, endNode, file, strayed, script>>
  BY DEF CreateNode, NewNode, ends, disk
<1>2. /\ nodes \in Seq(Cell) /\ Len(nodes) \in Nat /\ DOMAIN nodes = 1 .. Len(nodes)
      /\ \A i \in 1 .. Len(nodes) : nodes[i] \in Live /\ id[nodes[i]] = i - 1
      /\ Live \subseteq Cell
  BY LiveFacts
<1>3. /\ nodes' \in Seq(Cell) /\ Len(nodes') = Len(nodes) + 1
      /\ \A i \in 1 .. Len(nodes) : nodes'[i] = nodes[i]
      /\ nodes'[Len(nodes) + 1] = c
      /\ DOMAIN nodes' = 1 .. Len(nodes) + 1
  BY <1>1, <1>2, AppendProperties
<1>4. Live' = Live \cup {c}
  BY <1>1, <1>2, AppendFacts DEF Live
<1>5. /\ id'[c] = Len(nodes) /\ conn'[c] = NoConnections /\ pos'[c] = p
      /\ \A n \in Live : id'[n] = id[n] /\ conn'[n] = conn[n] /\ pos'[n] = pos[n]
  BY <1>1, <1>2 DEF GraphTypeOK
<1>6. IdsAreIndices'
  <2> SUFFICES ASSUME NEW i \in 1 .. Len(nodes) + 1 PROVE id'[nodes'[i]] = i - 1
    BY <1>3 DEF IdsAreIndices
  <2>1. CASE i \in 1 .. Len(nodes)
    BY <1>2, <1>3, <1>5, <2>1
  <2>2. CASE i = Len(nodes) + 1
    BY <1>2, <1>3, <1>5, <2>2
  <2> QED BY <1>2, <2>1, <2>2
<1>7. GraphTypeOK'
  <2>1. /\ id' \in [Cell -> Int] /\ pos' \in [Cell -> Pos]
        /\ tree' \subseteq Pos \X Cell
    BY <1>1, <1>2 DEF GraphTypeOK
  <2>2. conn' \in [Cell -> [Dir -> Cell \cup {NULL}]]
    BY <1>1 DEF GraphTypeOK, NoConnections
  <2>3. \A n \in Live' : id'[n] < Len(nodes')
    BY <1>2, <1>3, <1>4, <1>5 DEF GraphTypeOK
  <2> QED BY <1>1, <1>3, <2>1, <2>2, <2>3 DEF GraphTypeOK
<1>8. \A d \in Dir : conn'[c][d] = NULL
  BY <1>5 DEF NoConnections
<1>9. ConnectionsLive'
  BY <1>4, <1>5, <1>8 DEF ConnectionsLive
<1>10. ConnectionsMutual'
  BY <1>1, <1>4, <1>5, <1>8 DEF ConnectionsLive, ConnectionsMutual
<1>11. TreeHolds'
  BY <1>1, <1>4, <1>5 DEF TreeHolds
<1>12. EndsLive'
  BY <1>1, <1>4 DEF EndsLive
<1>13. FileHolds' /\ ~strayed'
  BY <1>1 DEF FileHolds, InBounds
<1> QED BY <1>6, <1>7, <1>9, <1>10, <1>11, <1>12, <1>13

LEMMA RemoveStep ==
  ASSUME Careful, GraphInv, NEW n \in Live, RemoveNode(n)
  PROVE  GraphInv'
<1> USE DEF GraphInv
<1> DEFINE left == RemoveAt(nodes, id[n] + 1)
<1>1. /\ "remove" \in script /\ n \notin {startNode, endNode} /\ "overwrite" \notin script
      /\ nodes' = left
      /\ id' = Renumber(left)
      /\ tree' = { <<pos[c], c>> : c \in ToSet(left) }
      /\ conn' = Kept(ClearSlots(n), ToSet(left), NoConnections)
      /\ pos' = Kept(pos, ToSet(left), Somewhere)
      /\ UNCHANGED <<startNode, endNode, file, strayed, script>>
  BY DEF RemoveNode, ends, disk, Careful, GraphTypeOK
<1>2. /\ nodes \in Seq(Cell) /\ Len(nodes) \in Nat /\ Live \subseteq Cell /\ NULL \notin Live
      /\ id[n] + 1 \in 1 .. Len(nodes) /\ nodes[id[n] + 1] = n
      /\ \A i, k \in 1 .. Len(nodes) : nodes[i] = nodes[k] => i = k
  BY LiveFacts
<1>3. /\ left \in Seq(Cell) /\ ToSet(left) = Live \ {n}
      /\ \A i, k \in 1 .. Len(left) : left[i] = left[k] => i = k
  <2>1. left \in Seq(Cell)
    BY <1>2, RemoveAtFacts
  <2>2. /\ ToSet(left) = ToSet(nodes) \ {nodes[id[n] + 1]}
        /\ \A i, k \in 1 .. Len(left) : left[i] = left[k] => i = k
    BY <1>2, RemoveAtOnce
  <2> HIDE DEF left
  <2> QED BY <1>2, <2>1, <2>2 DEF Live
<1>4. Live' = ToSet(left)
  BY <1>1 DEF Live
<1> HIDE DEF left
<1>5. /\ \A i \in 1 .. Len(left) : left[i] \in ToSet(left) /\ IdIn(left, left[i]) = i - 1
      /\ \A c \in ToSet(left) : IdIn(left, c) \in 0 .. Len(left) - 1
      /\ DOMAIN left = 1 .. Len(left) /\ Len(left) \in Nat
  <2>1. DOMAIN left = 1 .. Len(left) /\ Len(left) \in Nat
    BY <1>3
  <2>2. \A i \in 1 .. Len(left) : left[i] \in ToSet(left)
    BY <2>1 DEF ToSet
  <2> QED BY <1>3, <2>1, <2>2, IdInFacts
<1>6. \A c \in ToSet(left) : c \in Live /\ c # n /\ c \in Cell
  BY <1>2, <1>3
<1>7. \A c \in ToSet(left) :
        /\ id'[c] = IdIn(left, c) /\ pos'[c] = pos[c]
        /\ \A d \in Dir :
             conn'[c][d] = IF conn[n][Opposite[d]] = c THEN NULL ELSE conn[c][d]
  BY <1>1, <1>6 DEF Renumber, Kept, ClearSlots
<1>8. IdsAreIndices'
  BY <1>1, <1>5, <1>7 DEF IdsAreIndices
<1>9. GraphTypeOK'
  <2>1. id' \in [Cell -> Int]
    BY <1>1, <1>5 DEF GraphTypeOK, Renumber
  <2>2. pos' \in [Cell -> Pos]
    <3>1. Somewhere \in Pos
      BY NavGraphAssumption DEF Somewhere
    <3> QED BY <1>1, <3>1 DEF GraphTypeOK, Kept
  <2>3. conn' \in [Cell -> [Dir -> Cell \cup {NULL}]]
    <3>1. ClearSlots(n) \in [Cell -> [Dir -> Cell \cup {NULL}]]
      BY DEF GraphTypeOK, ClearSlots
    <3>2. NoConnections \in [Dir -> Cell \cup {NULL}]
      BY DEF NoConnections
    <3> HIDE DEF ClearSlots
    <3> QED BY <1>1, <3>1, <3>2 DEF Kept
  <2>4. tree' \subseteq Pos \X Cell
    BY <1>1, <1>6 DEF GraphTypeOK
  <2>5. \A c \in Live' : id'[c] < Len(nodes')
    BY <1>1, <1>4, <1>5, <1>7
  <2> QED BY <1>1, <1>3, <2>1, <2>2, <2>3, <2>4, <2>5 DEF GraphTypeOK
<1>10. \A c \in ToSet(left), d \in Dir :
         conn'[c][d] # NULL =>
           /\ conn'[c][d] = conn[c][d] /\ conn[c][d] \in ToSet(left)
           /\ conn'[conn[c][d]][Opposite[d]] = c
  <2> SUFFICES ASSUME NEW c \in ToSet(left), NEW d \in Dir, conn'[c][d] # NULL
               PROVE  /\ conn'[c][d] = conn[c][d] /\ conn[c][d] \in ToSet(left)
                      /\ conn'[conn[c][d]][Opposite[d]] = c
    OBVIOUS
  <2>1. conn'[c][d] = conn[c][d] /\ conn[n][Opposite[d]] # c
    BY <1>7
  <2>2. conn[c][d] \in Live /\ conn[conn[c][d]][Opposite[d]] = c
    BY <1>1, <1>6, <2>1 DEF ConnectionsLive, ConnectionsMutual
  <2>3. conn[c][d] # n
    BY <2>1, <2>2
  <2>4. conn[c][d] \in ToSet(left)
    BY <1>3, <2>2, <2>3
  <2>5. Opposite[d] \in Dir /\ Opposite[Opposite[d]] = d
    BY NavGraphAssumption
  <2>6. conn[n][d] # conn[c][d]
    <3> SUFFICES ASSUME conn[n][d] = conn[c][d] PROVE FALSE
      OBVIOUS
    <3>1. conn[conn[n][d]][Opposite[d]] = n
      BY <1>1, <1>2, <2>2 DEF ConnectionsMutual
    <3> QED BY <1>6, <2>2, <3>1
  <2>7. conn'[conn[c][d]][Opposite[d]] = c
    BY <1>7, <2>2, <2>4, <2>5, <2>6
  <2> QED BY <2>1, <2>4, <2>7
<1>11. ConnectionsLive'
  BY <1>4, <1>10 DEF ConnectionsLive
<1>12. ConnectionsMutual'
  BY <1>4, <1>10 DEF ConnectionsMutual
<1>13. TreeHolds'
  BY <1>1, <1>4, <1>7 DEF TreeHolds
<1>14. EndsLive'
  BY <1>1, <1>3, <1>4 DEF EndsLive
<1>15. FileHolds' /\ ~strayed'
  BY <1>1 DEF FileHolds, InBounds
<1> QED BY <1>8, <1>9, <1>11, <1>12, <1>13, <1>14, <1>15

\* Connecting, disconnecting, moving and choosing leave the nodes alone.
LEMMA ConnectStep ==
  ASSUME GraphInv, NEW n \in Live, NEW m \in Live, NEW d \in Dir, ConnectTo(n, m, d)
  PROVE  GraphInv'
<1> USE DEF GraphInv
<1> DEFINE e == Opposite[d]
<1>1. /\ conn' = Link(n, m, d)
      /\ Free(n, d, m) /\ Free(m, e, n)
      /\ UNCHANGED <<nodes, id, pos, tree, startNode, endNode, file, strayed, script>>
  BY DEF ConnectTo, ends, disk
<1>2. e \in Dir /\ Opposite[e] = d /\ \A x \in Dir : Opposite[x] \in Dir /\ Opposite[Opposite[x]] = x
  BY NavGraphAssumption
<1>3. Live' = Live /\ Live \subseteq Cell /\ NULL \notin Live
  BY <1>1, LiveFacts DEF Live
<1> HIDE DEF e
<1>4. conn' \in [Cell -> [Dir -> Cell \cup {NULL}]]
  BY <1>1, <1>2, <1>3 DEF GraphTypeOK, Link, e
<1>5. /\ conn'[n][d] = m /\ conn'[m][e] = n
      /\ \A x \in Live, y \in Dir :
           (~(x = n /\ y = d) /\ ~(x = m /\ y = e)) => conn'[x][y] = conn[x][y]
  <2>1. conn \in [Cell -> [Dir -> Cell \cup {NULL}]] /\ n \in Cell /\ m \in Cell
    BY <1>3 DEF GraphTypeOK
  <2>2. conn' = [conn EXCEPT ![n][d] = m, ![m][e] = n]
    BY <1>1 DEF Link, e
  <2>3. (n = m /\ d = e) => m = n
    OBVIOUS
  <2>4. \A x \in Live : x \in Cell
    BY <1>3
  <2>5. conn'[m][e] = n
    BY <1>2, <2>1, <2>2
  <2>6. conn'[n][d] = m
    BY <1>2, <2>1, <2>2
  <2>7. \A x \in Live, y \in Dir :
           (~(x = n /\ y = d) /\ ~(x = m /\ y = e)) => conn'[x][y] = conn[x][y]
    BY <1>2, <2>1, <2>2, <2>4
  <2> QED BY <2>5, <2>6, <2>7
<1>6. GraphTypeOK' /\ IdsAreIndices'
  BY <1>1, <1>3, <1>4 DEF GraphTypeOK, IdsAreIndices
<1>7. ConnectionsLive'
  BY <1>3, <1>5 DEF ConnectionsLive
<1>8. ConnectionsMutual'
  <2> SUFFICES ASSUME "overwrite" \notin script, NEW x \in Live, NEW y \in Dir,
                      conn'[x][y] # NULL
               PROVE  conn'[conn'[x][y]][Opposite[y]] = x
    BY <1>1, <1>3 DEF ConnectionsMutual
  <2>1. CASE x = n /\ y = d
    BY <1>5, <2>1 DEF e
  <2>2. CASE x = m /\ y = e
    BY <1>2, <1>5, <2>2
  <2>3. CASE ~(x = n /\ y = d) /\ ~(x = m /\ y = e)
    <3>1. conn'[x][y] = conn[x][y] /\ conn[x][y] \in Live
      BY <1>5, <2>3 DEF ConnectionsLive
    <3>2. conn[conn[x][y]][Opposite[y]] = x
      BY <1>3, <3>1 DEF ConnectionsMutual
    <3>3. ~(conn[x][y] = n /\ Opposite[y] = d)
      <4> SUFFICES ASSUME conn[x][y] = n, Opposite[y] = d PROVE FALSE
        OBVIOUS
      <4>1. conn[n][d] = x
        BY <3>2
      <4>2. x = m
        BY <1>1, <1>3, <4>1 DEF Free
      <4> QED BY <1>2, <2>3, <4>2 DEF e
    <3>4. ~(conn[x][y] = m /\ Opposite[y] = e)
      <4> SUFFICES ASSUME conn[x][y] = m, Opposite[y] = e PROVE FALSE
        OBVIOUS
      <4>1. conn[m][e] = x
        BY <3>2
      <4>2. x = n
        BY <1>1, <1>3, <4>1 DEF Free
      <4>3. y = d
        BY <1>2
      <4> QED BY <2>3, <4>2, <4>3
    <3> QED BY <1>2, <1>5, <3>1, <3>2, <3>3, <3>4
  <2> QED BY <2>1, <2>2, <2>3
<1>9. TreeHolds' /\ EndsLive'
  BY <1>1, <1>3 DEF TreeHolds, EndsLive
<1>10. FileHolds' /\ ~strayed'
  BY <1>1 DEF FileHolds, InBounds
<1> QED BY <1>6, <1>7, <1>8, <1>9, <1>10

LEMMA DisconnectStep ==
  ASSUME GraphInv, NEW n \in Live, NEW d \in Dir, RemoveConnection(n, d)
  PROVE  GraphInv'
<1> USE DEF GraphInv
<1> DEFINE m == conn[n][d]
           e == Opposite[d]
<1>1. /\ m # NULL /\ conn' = Unlink(n, d)
      /\ UNCHANGED <<nodes, id, pos, tree, startNode, endNode, file, strayed, script>>
  BY DEF RemoveConnection, ends, disk
<1>2. e \in Dir /\ Opposite[e] = d /\ \A x \in Dir : Opposite[x] \in Dir /\ Opposite[Opposite[x]] = x
  BY NavGraphAssumption
<1>3. Live' = Live /\ Live \subseteq Cell /\ NULL \notin Live
  BY <1>1, LiveFacts DEF Live
<1>4. m \in Live
  BY <1>1 DEF ConnectionsLive
<1>5. conn' = [conn EXCEPT ![n][d] = NULL, ![m][e] = NULL]
  BY <1>1 DEF Unlink
<1>6. ("overwrite" \notin script) => conn[m][e] = n
  BY <1>1, <1>3 DEF ConnectionsMutual
<1> HIDE DEF m, e
<1>7. conn' \in [Cell -> [Dir -> Cell \cup {NULL}]]
  BY <1>2, <1>3, <1>4, <1>5 DEF GraphTypeOK
<1>8. /\ conn'[n][d] = NULL /\ conn'[m][e] = NULL
      /\ \A x \in Live, y \in Dir :
           (~(x = n /\ y = d) /\ ~(x = m /\ y = e)) => conn'[x][y] = conn[x][y]
  <2>1. conn \in [Cell -> [Dir -> Cell \cup {NULL}]] /\ n \in Cell /\ m \in Cell
    BY <1>3, <1>4 DEF GraphTypeOK
  <2>2. \A x \in Live : x \in Cell
    BY <1>3
  <2>3. conn'[m][e] = NULL
    BY <1>2, <1>5, <2>1
  <2>4. conn'[n][d] = NULL
    BY <1>2, <1>5, <2>1
  <2>5. \A x \in Live, y \in Dir :
           (~(x = n /\ y = d) /\ ~(x = m /\ y = e)) => conn'[x][y] = conn[x][y]
    BY <1>2, <1>5, <2>1, <2>2
  <2> QED BY <2>3, <2>4, <2>5
<1>9. GraphTypeOK' /\ IdsAreIndices'
  BY <1>1, <1>3, <1>7 DEF GraphTypeOK, IdsAreIndices
<1>10. ConnectionsLive'
  BY <1>3, <1>8 DEF ConnectionsLive
<1>11. ConnectionsMutual'
  <2> SUFFICES ASSUME "overwrite" \notin script, NEW x \in Live, NEW y \in Dir,
                      conn'[x][y] # NULL
               PROVE  conn'[conn'[x][y]][Opposite[y]] = x
    BY <1>1, <1>3 DEF ConnectionsMutual
  <2>1. conn'[x][y] = conn[x][y] /\ conn[x][y] \in Live /\ ~(x = n /\ y = d) /\ ~(x = m /\ y = e)
    BY <1>8 DEF ConnectionsLive
  <2>2. conn[conn[x][y]][Opposite[y]] = x
    BY <2>1 DEF ConnectionsMutual
  <2>3. ~(conn[x][y] = n /\ Opposite[y] = d)
    <3> SUFFICES ASSUME conn[x][y] = n, Opposite[y] = d PROVE FALSE
      OBVIOUS
    <3>1. x = m
      BY <2>2 DEF m
    <3> QED BY <1>2, <2>1, <3>1 DEF e
  <2>4. ~(conn[x][y] = m /\ Opposite[y] = e)
    <3> SUFFICES ASSUME conn[x][y] = m, Opposite[y] = e PROVE FALSE
      OBVIOUS
    <3>1. x = n
      BY <1>6, <2>2
    <3>2. y = d
      BY <1>2
    <3> QED BY <2>1, <3>1, <3>2
  <2> QED BY <1>2, <1>8, <2>1, <2>2, <2>3, <2>4
<1>12. TreeHolds' /\ EndsLive'
  BY <1>1, <1>3 DEF TreeHolds, EndsLive
<1>13. FileHolds' /\ ~strayed'
  BY <1>1 DEF FileHolds, InBounds
<1> QED BY <1>9, <1>10, <1>11, <1>12, <1>13

\* What the tree says of moved nodes is stale, but its nodes are there.
LEMMA MoveStep ==
  ASSUME GraphInv, NEW n \in Live, NEW p \in Pos, SetPosition(n, p) \/ SetStart(n) \/ SetEnd(n)
  PROVE  GraphInv'
<1> USE DEF GraphInv
<1>1. /\ (pos' = [pos EXCEPT ![n] = p] /\ "move" \in script) \/ pos' = pos
      /\ startNode' \in {n, startNode} /\ endNode' \in {n, endNode}
      /\ UNCHANGED <<nodes, id, conn, tree, file, strayed, script>>
  BY DEF SetPosition, SetStart, SetEnd, ends, disk, cells
<1>2. Live' = Live /\ Live \subseteq Cell
  BY <1>1, LiveFacts DEF Live
<1>3. pos' \in [Cell -> Pos]
  BY <1>1 DEF GraphTypeOK
<1>4. GraphTypeOK' /\ IdsAreIndices'
  BY <1>1, <1>2, <1>3 DEF GraphTypeOK, IdsAreIndices
<1>5. ConnectionsLive' /\ ConnectionsMutual'
  BY <1>1, <1>2 DEF ConnectionsLive, ConnectionsMutual
<1>6. TreeHolds' /\ EndsLive'
  BY <1>1, <1>2 DEF TreeHolds, EndsLive
<1>7. FileHolds' /\ ~strayed'
  BY <1>1 DEF FileHolds, InBounds
<1> QED BY <1>4, <1>5, <1>6, <1>7

\* Save writes a graph.
LEMMA SaveStep ==
  ASSUME GraphInv, Save
  PROVE  GraphInv'
<1> USE DEF GraphInv
<1>1. /\ file' = [pos   |-> [i \in DOMAIN nodes |-> pos[nodes[i]]],
                  links |-> { <<x[1], id[x[2]], id[conn[x[2]][x[1]]]>> : x \in Slots }]
      /\ UNCHANGED <<nodes, id, pos, conn, tree, startNode, endNode, strayed, script>>
  BY DEF Save, cells, ends
<1>2. Live' = Live /\ Live \subseteq Cell /\ NULL \notin Live
  BY <1>1, LiveFacts DEF Live
<1>3. GraphTypeOK' /\ IdsAreIndices'
  BY <1>1, <1>2 DEF GraphTypeOK, IdsAreIndices
<1>4. ConnectionsLive' /\ ConnectionsMutual' /\ TreeHolds' /\ EndsLive' /\ ~strayed'
  BY <1>1, <1>2 DEF ConnectionsLive, ConnectionsMutual, TreeHolds, EndsLive
<1>5. /\ nodes \in Seq(Cell) /\ Len(nodes) \in Nat /\ DOMAIN nodes = 1 .. Len(nodes)
      /\ \A c \in Live : id[c] + 1 \in 1 .. Len(nodes) /\ id[c] \in Int
      /\ \A c, b \in Live : id[c] = id[b] => c = b
  BY LiveFacts DEF GraphTypeOK
<1>6. file'.pos \in Seq(Pos) /\ Len(file'.pos) = Len(nodes)
  <2>1. \A i \in 1 .. Len(nodes) : nodes[i] \in Cell /\ pos[nodes[i]] \in Pos
    BY <1>5 DEF GraphTypeOK
  <2>2. file'.pos = [i \in 1 .. Len(nodes) |-> pos[nodes[i]]]
    BY <1>1, <1>5
  <2>3. file'.pos \in [1 .. Len(nodes) -> Pos]
    BY <2>1, <2>2
  <2> QED BY <1>5, <2>3
<1>7. ASSUME NEW l \in file'.links
      PROVE  \E c \in Live, d \in Dir : /\ l = <<d, id[c], id[conn[c][d]]>>
                                        /\ conn[c][d] # NULL /\ conn[c][d] \in Live
  <2>1. PICK x \in Slots : l = <<x[1], id[x[2]], id[conn[x[2]][x[1]]]>>
    BY <1>1, <1>7
  <2>2. x[1] \in Dir /\ x[2] \in Live /\ conn[x[2]][x[1]] # NULL
    BY <2>1 DEF Slots
  <2> QED BY <2>1, <2>2 DEF ConnectionsLive
<1>8. \A c \in Live, d \in Dir : conn[c][d] # NULL =>
        <<d, id[c], id[conn[c][d]]>> \in file'.links
  <2> SUFFICES ASSUME NEW c \in Live, NEW d \in Dir, conn[c][d] # NULL
               PROVE  <<d, id[c], id[conn[c][d]]>> \in file'.links
    OBVIOUS
  <2>1. <<d, c>> \in Slots /\ <<d, c>>[1] = d /\ <<d, c>>[2] = c
    BY DEF Slots
  <2> QED BY <1>1, <2>1
<1>9. FileHolds'
  <2>1. file' = [pos |-> file'.pos, links |-> file'.links]
    BY <1>1
  <2>2. \A l \in file'.links :
          l = <<l[1], l[2], l[3]>> /\ l[1] \in Dir /\ InBounds(l, Len(file'.pos))
    <3> SUFFICES ASSUME NEW l \in file'.links
                 PROVE  l = <<l[1], l[2], l[3]>> /\ l[1] \in Dir /\ InBounds(l, Len(file'.pos))
      OBVIOUS
    <3>1. PICK c \in Live, d \in Dir : /\ l = <<d, id[c], id[conn[c][d]]>>
                                       /\ conn[c][d] # NULL /\ conn[c][d] \in Live
      BY <1>7
    <3>2. id[c] \in 0 .. Len(nodes) - 1 /\ id[conn[c][d]] \in 0 .. Len(nodes) - 1
      BY <1>5, <3>1
    <3> QED BY <1>6, <3>1, <3>2 DEF InBounds
  <2>3. \A l, m \in file'.links : (l[1] = m[1] /\ l[2] = m[2]) => l = m
    <3> SUFFICES ASSUME NEW l \in file'.links, NEW m \in file'.links, l[1] = m[1], l[2] = m[2]
                 PROVE  l = m
      OBVIOUS
    <3>1. PICK c \in Live, d \in Dir : l = <<d, id[c], id[conn[c][d]]>>
      BY <1>7
    <3>2. PICK b \in Live, e \in Dir : m = <<e, id[b], id[conn[b][e]]>>
      BY <1>7
    <3>3. d = e /\ b = c
      BY <1>5, <3>1, <3>2
    <3> QED BY <3>1, <3>2, <3>3
  <2>4. ASSUME "overwrite" \notin script, NEW l \in file'.links
        PROVE  <<Opposite[l[1]], l[3], l[2]>> \in file'.links
    <3>1. PICK c \in Live, d \in Dir : /\ l = <<d, id[c], id[conn[c][d]]>>
                                       /\ conn[c][d] # NULL /\ conn[c][d] \in Live
      BY <1>7
    <3>2. Opposite[d] \in Dir /\ conn[conn[c][d]][Opposite[d]] = c /\ c # NULL
      BY <1>2, <2>4, <3>1, NavGraphAssumption DEF ConnectionsMutual
    <3>3. <<Opposite[d], id[conn[c][d]], id[c]>> \in file'.links
      BY <1>8, <3>1, <3>2
    <3> QED BY <3>1, <3>3
  <2> QED BY <1>1, <1>6, <2>1, <2>2, <2>3, <2>4 DEF FileHolds
<1> QED BY <1>3, <1>4, <1>9

(***************************************************************************)
(* Load.                                                                   *)
(***************************************************************************)

\* Nothing in a saved file is dropped or looked up outside of the nodes, so a
\* node is connected exactly as the file says.
LEMMA LoadFacts ==
  ASSUME GraphInv, file # NULL, NEW new \in Injections(Len(file.pos)), Load(new)
  PROVE  /\ nodes' = new /\ new \in Seq(Cell) /\ Len(new) = Len(file.pos)
         /\ \A i, k \in 1 .. Len(new) : new[i] = new[k] => i = k
         /\ Live' = ToSet(new)
         /\ \A n \in ToSet(new) :
              id'[n] = IdIn(new, n) /\ pos'[n] = file.pos[IdIn(new, n) + 1]
         /\ \A n \in ToSet(new), d \in Dir :
              \/ /\ conn'[n][d] = NULL
                 /\ \A l \in file.links : ~(l[1] = d /\ l[2] = IdIn(new, n))
              \/ \E l \in file.links :
                   l[1] = d /\ l[2] = IdIn(new, n) /\ conn'[n][d] = new[l[3] + 1]
         /\ id' = [c \in Cell |-> IF c \in ToSet(new) THEN IdIn(new, c) ELSE id[c]]
         /\ pos' \in [Cell -> Pos] /\ conn' \in [Cell -> [Dir -> Cell \cup {NULL}]]
         /\ tree' = { <<pos'[n], n>> : n \in ToSet(new) }
         /\ startNode' = NULL /\ endNode' = NULL /\ strayed' = FALSE
         /\ UNCHANGED <<file, script>>
<1> DEFINE k == Len(file.pos)
           made == ToSet(new)
           links == { l \in file.links : Accepted(l, Len(new)) }
           bound == { l \in links : InBounds(l, Len(new)) }
<1>1. /\ file.pos \in Seq(Pos) /\ k \in Nat
      /\ \A l \in file.links : InBounds(l, k)
      /\ ~strayed
  BY DEF GraphInv, FileHolds
<1>2. new \in [1 .. k -> Cell] /\ IsInjective(new)
  BY DEF Injections, TupleOf
<1>3. /\ new \in Seq(Cell) /\ Len(new) = k /\ DOMAIN new = 1 .. k
      /\ \A i, j \in 1 .. Len(new) : new[i] = new[j] => i = j
  BY <1>1, <1>2 DEF IsInjective
<1>4. /\ nodes' = new
      /\ id' = [c \in Cell |-> IF c \in made THEN IdIn(new, c) ELSE id[c]]
      /\ pos' = Kept([n \in made |-> file.pos[IdIn(new, n) + 1]], made, Somewhere)
      /\ conn' = Kept(LoadedConnections(new, bound), made, NoConnections)
      /\ tree' = { <<pos'[n], n>> : n \in made }
      /\ startNode' = NULL /\ endNode' = NULL
      /\ strayed' = (strayed \/ \E l \in links : ~InBounds(l, Len(new)))
      /\ UNCHANGED <<file, script>>
  BY DEF Load, ClearTree
<1>5. Live' = made
  BY <1>4 DEF Live
<1>6. /\ \A n \in made : n \in Cell
      /\ \A n \in made : IdIn(new, n) + 1 \in 1 .. k
  <2>1. \A n \in made : IdIn(new, n) \in 0 .. Len(new) - 1
    BY <1>3, IdInFacts
  <2>2. \A n \in made : n \in Cell
    BY <1>3 DEF ToSet
  <2> QED BY <1>1, <1>3, <2>1, <2>2
<1>7. \A l \in file.links : Accepted(l, Len(new)) /\ InBounds(l, Len(new))
  BY <1>1, <1>3 DEF Accepted, InBounds
<1>8. links = file.links /\ bound = file.links
  BY <1>7
<1> HIDE DEF links, bound
<1>9. strayed' = FALSE
  BY <1>1, <1>3, <1>4, <1>7, <1>8
<1>10. \A n \in made : id'[n] = IdIn(new, n) /\ pos'[n] = file.pos[IdIn(new, n) + 1]
  BY <1>4, <1>6 DEF Kept
<1>11. \A n \in made, d \in Dir :
         conn'[n][d] = LET to == { l \in file.links : l[1] = d /\ l[2] = IdIn(new, n) }
                       IN  IF to = {} THEN NULL ELSE new[(CHOOSE l \in to : TRUE)[3] + 1]
  BY <1>4, <1>6, <1>8 DEF Kept, LoadedConnections
<1>12. ASSUME NEW n \in made, NEW d \in Dir
       PROVE  \/ /\ conn'[n][d] = NULL
                 /\ \A l \in file.links : ~(l[1] = d /\ l[2] = IdIn(new, n))
              \/ \E l \in file.links :
                   l[1] = d /\ l[2] = IdIn(new, n) /\ conn'[n][d] = new[l[3] + 1]
  <2> DEFINE to == { l \in file.links : l[1] = d /\ l[2] = IdIn(new, n) }
  <2>1. conn'[n][d] = IF to = {} THEN NULL ELSE new[(CHOOSE l \in to : TRUE)[3] + 1]
    BY <1>11
  <2>2. CASE to = {}
    BY <2>1, <2>2
  <2>3. CASE to # {}
    <3>1. PICK l \in to : l = CHOOSE x \in to : TRUE
      BY <2>3
    <3>2. conn'[n][d] = new[l[3] + 1]
      BY <2>1, <2>3, <3>1
    <3> QED BY <3>1, <3>2
  <2> QED BY <2>2, <2>3
<1>13. pos' \in [Cell -> Pos]
  <2>1. Somewhere \in Pos
    BY NavGraphAssumption DEF Somewhere
  <2>2. \A n \in made : file.pos[IdIn(new, n) + 1] \in Pos
    BY <1>1, <1>6
  <2> QED BY <1>4, <2>1, <2>2 DEF Kept
<1>14. conn' \in [Cell -> [Dir -> Cell \cup {NULL}]]
  <2>1. conn' = [c \in Cell |-> IF c \in made THEN LoadedConnections(new, bound)[c]
                                ELSE NoConnections]
    BY <1>4 DEF Kept
  <2>2. \A c \in made : /\ LoadedConnections(new, bound)[c] = conn'[c]
                        /\ DOMAIN LoadedConnections(new, bound)[c] = Dir
                        /\ LoadedConnections(new, bound)[c] = [d \in Dir |-> conn'[c][d]]
    BY <1>6, <2>1 DEF LoadedConnections
  <2>3. \A c \in made, d \in Dir : conn'[c][d] \in Cell \cup {NULL}
    <3> SUFFICES ASSUME NEW c \in made, NEW d \in Dir PROVE conn'[c][d] \in Cell \cup {NULL}
      OBVIOUS
    <3>1. CASE \E l \in file.links :
                 l[1] = d /\ l[2] = IdIn(new, c) /\ conn'[c][d] = new[l[3] + 1]
      <4>1. PICK l \in file.links : conn'[c][d] = new[l[3] + 1]
        BY <3>1
      <4>2. l[3] + 1 \in 1 .. k
        BY <1>1 DEF InBounds
      <4> QED BY <1>2, <4>1, <4>2
    <3> QED BY <1>12, <3>1
  <2>4. \A c \in made : conn'[c] \in [Dir -> Cell \cup {NULL}]
    BY <2>2, <2>3
  <2>5. NoConnections \in [Dir -> Cell \cup {NULL}]
    BY DEF NoConnections
  <2> QED BY <2>1, <2>2, <2>4, <2>5
<1> QED BY <1>3, <1>4, <1>5, <1>9, <1>10, <1>12, <1>13, <1>14

LEMMA LoadStep ==
  ASSUME GraphInv, file # NULL, NEW new \in Injections(Len(file.pos)), Load(new)
  PROVE  GraphInv'
<1> DEFINE made == ToSet(new)
<1>1. /\ nodes' = new /\ new \in Seq(Cell) /\ Len(new) = Len(file.pos)
      /\ \A i, k \in 1 .. Len(new) : new[i] = new[k] => i = k
      /\ Live' = made
      /\ \A n \in made : id'[n] = IdIn(new, n)
      /\ id' = [c \in Cell |-> IF c \in made THEN IdIn(new, c) ELSE id[c]]
      /\ pos' \in [Cell -> Pos] /\ conn' \in [Cell -> [Dir -> Cell \cup {NULL}]]
      /\ tree' = { <<pos'[n], n>> : n \in made }
      /\ startNode' = NULL /\ endNode' = NULL /\ strayed' = FALSE
      /\ UNCHANGED <<file, script>>
  BY LoadFacts
<1>2. \A n \in made, d \in Dir :
        \/ /\ conn'[n][d] = NULL
           /\ \A l \in file.links : ~(l[1] = d /\ l[2] = IdIn(new, n))
        \/ \E l \in file.links :
             l[1] = d /\ l[2] = IdIn(new, n) /\ conn'[n][d] = new[l[3] + 1]
  BY LoadFacts
<1>3. /\ \A i \in 1 .. Len(new) : new[i] \in made /\ IdIn(new, new[i]) = i - 1
      /\ \A n \in made : /\ n \in Cell /\ IdIn(new, n) \in 0 .. Len(new) - 1
                         /\ new[IdIn(new, n) + 1] = n
      /\ DOMAIN new = 1 .. Len(new) /\ Len(new) \in Nat
  <2>1. DOMAIN new = 1 .. Len(new) /\ Len(new) \in Nat
    BY <1>1
  <2>2. \A i \in 1 .. Len(new) : new[i] \in made
    BY <2>1 DEF ToSet
  <2>3. \A n \in made : n \in Cell
    BY <1>1, <2>1 DEF ToSet
  <2> QED BY <1>1, <2>1, <2>2, <2>3, IdInFacts
<1>4. \A l \in file.links : /\ l = <<l[1], l[2], l[3]>> /\ InBounds(l, Len(new)) /\ l[1] \in Dir
                            /\ l[3] + 1 \in 1 .. Len(new) /\ new[l[3] + 1] \in made
                            /\ IdIn(new, new[l[3] + 1]) = l[3]
  <2> SUFFICES ASSUME NEW l \in file.links
               PROVE  /\ l = <<l[1], l[2], l[3]>> /\ InBounds(l, Len(new)) /\ l[1] \in Dir
                      /\ l[3] + 1 \in 1 .. Len(new) /\ new[l[3] + 1] \in made
                      /\ IdIn(new, new[l[3] + 1]) = l[3]
    OBVIOUS
  <2>1. l = <<l[1], l[2], l[3]>> /\ InBounds(l, Len(new)) /\ l[1] \in Dir
    BY <1>1 DEF GraphInv, FileHolds
  <2>2. l[3] + 1 \in 1 .. Len(new) /\ (l[3] + 1) - 1 = l[3]
    BY <1>3, <2>1 DEF InBounds
  <2> QED BY <1>3, <2>1, <2>2
<1> HIDE DEF made
<1>5. IdsAreIndices'
  BY <1>1, <1>3 DEF IdsAreIndices
<1>6. GraphTypeOK'
  <2>1. id' \in [Cell -> Int]
    BY <1>1, <1>3 DEF GraphInv, GraphTypeOK
  <2>2. tree' \subseteq Pos \X Cell
    BY <1>1, <1>3
  <2>3. \A n \in Live' : id'[n] < Len(nodes')
    BY <1>1, <1>3
  <2>4. strayed' \in BOOLEAN /\ script' \in Scripts
    BY <1>1 DEF GraphInv, GraphTypeOK
  <2>5. startNode' \in Cell \cup {NULL} /\ endNode' \in Cell \cup {NULL}
    BY <1>1
  <2>6. nodes' \in Seq(Cell)
    BY <1>1
  <2> QED BY <1>1, <2>1, <2>2, <2>3, <2>4, <2>5, <2>6 DEF GraphTypeOK
<1>7. ConnectionsLive'
  BY <1>1, <1>2, <1>4 DEF ConnectionsLive
<1>8. ConnectionsMutual'
  <2> SUFFICES ASSUME "overwrite" \notin script, NEW n \in made, NEW d \in Dir,
                      conn'[n][d] # NULL
               PROVE  conn'[conn'[n][d]][Opposite[d]] = n
    BY <1>1 DEF ConnectionsMutual
  <2>1. PICK l \in file.links :
          l[1] = d /\ l[2] = IdIn(new, n) /\ conn'[n][d] = new[l[3] + 1]
    BY <1>2
  <2> DEFINE m == new[l[3] + 1]
             back == <<Opposite[d], l[3], l[2]>>
  <2>2. m \in made /\ IdIn(new, m) = l[3] /\ Opposite[d] \in Dir
    BY <1>4, NavGraphAssumption
  <2>3. back \in file.links /\ back[1] = Opposite[d] /\ back[2] = IdIn(new, m)
        /\ back[3] = IdIn(new, n)
    BY <2>1, <2>2 DEF GraphInv, FileHolds
  <2> HIDE DEF m, back
  <2>4. PICK r \in file.links :
          r[1] = Opposite[d] /\ r[2] = IdIn(new, m) /\ conn'[m][Opposite[d]] = new[r[3] + 1]
    BY <1>2, <2>2, <2>3
  <2>5. r = back
    BY <2>3, <2>4 DEF GraphInv, FileHolds
  <2>6. conn'[m][Opposite[d]] = new[IdIn(new, n) + 1]
    BY <2>3, <2>4, <2>5
  <2>7. conn'[m][Opposite[d]] = n
    BY <1>3, <2>6
  <2> QED BY <2>1, <2>7 DEF m
<1>9. TreeHolds' /\ EndsLive'
  BY <1>1 DEF TreeHolds, EndsLive
<1>10. FileHolds'
  BY <1>1 DEF GraphInv, FileHolds, InBounds
<1> QED BY <1>1, <1>5, <1>6, <1>7, <1>8, <1>9, <1>10 DEF GraphInv

LEMMA InvStep ==
  ASSUME Careful, GraphInv, [GraphNext]_graphVars
  PROVE  GraphInv'
<1>1. ASSUME NEW c \in Cell, NEW p \in Pos, CreateNode(c, p) PROVE GraphInv'
  BY <1>1, CreateStep
<1>2. ASSUME NEW n \in Live, RemoveNode(n) PROVE GraphInv'
  BY <1>2, RemoveStep
<1>3. ASSUME NEW n \in Live, NEW m \in Live, NEW d \in Dir, ConnectTo(n, m, d) PROVE GraphInv'
  BY <1>3, ConnectStep
<1>4. ASSUME NEW n \in Live, NEW d \in Dir, RemoveConnection(n, d) PROVE GraphInv'
  BY <1>4, DisconnectStep
<1>5. ASSUME NEW n \in Live, NEW p \in Pos, SetPosition(n, p) PROVE GraphInv'
  BY <1>5, MoveStep
<1>6. ASSUME NEW n \in Live, SetStart(n) \/ SetEnd(n) PROVE GraphInv'
  <2>1. Somewhere \in Pos
    BY NavGraphAssumption DEF Somewhere
  <2> QED BY <1>6, <2>1, MoveStep
<1>7. CASE Save
  BY <1>7, SaveStep
<1>8. CASE file # NULL /\ \E new \in Injections(Len(file.pos)) : Load(new)
  BY <1>8, LoadStep
<1>9. CASE UNCHANGED graphVars
  BY <1>9 DEF graphVars, cells, ends, disk, GraphInv, GraphTypeOK, IdsAreIndices, ConnectionsLive,
              ConnectionsMutual, TreeHolds, EndsLive, FileHolds, InBounds, Live
<1> QED BY <1>1, <1>2, <1>3, <1>4, <1>5, <1>6, <1>7, <1>8, <1>9 DEF GraphNext, Edit, Disk

\* Ids, connections, tree, start, end and file fit together in every state, for
\* any number of nodes and directions; the saved file is part of the invariant
\* because Load brings back what it says.
THEOREM GraphInvariant ==
  ASSUME Careful
  PROVE  GraphSpec => []GraphInv
<1>1. GraphInit => GraphInv
  BY InvInit
<1>2. GraphInv /\ [GraphNext]_graphVars => GraphInv'
  BY InvStep
<1> QED BY <1>1, <1>2, PTL DEF GraphSpec

(***************************************************************************)
(* What follows.                                                           *)
(***************************************************************************)

LEMMA GraphSeen == GraphInv => ScriptsSeeTheGraph
<1> SUFFICES ASSUME GraphInv PROVE ScriptsSeeTheGraph
  OBVIOUS
<1> USE DEF GraphInv
<1>1. /\ nodes \in Seq(Cell) /\ Len(nodes) \in Nat /\ DOMAIN nodes = 1 .. Len(nodes)
      /\ NULL \notin Live
      /\ \A n \in Live : id[n] + 1 \in 1 .. Len(nodes) /\ nodes[id[n] + 1] = n
      /\ \A n, m \in Live : id[n] = id[m] => n = m
  BY LiveFacts
<1>2. ToSet(GetNodes) = Live
  BY DEF GetNodes, Live
<1>3. ASSUME NEW n \in Live
      PROVE  /\ GetID(n) <= GetNodeTotal /\ GetNodeByID(GetID(n)) = n
             /\ GetConnections(n) \subseteq Live
  BY <1>1 DEF GetID, GetNodeTotal, GetNodeByID, GetConnections, ConnectionsLive
<1>4. ASSUME NEW n \in Live, NEW m \in Live
      PROVE  Node__eq(n, m) <=> n = m
  BY <1>1 DEF Node__eq
<1>5. ASSUME NEW n \in Live, NEW m \in Live, "overwrite" \notin script, IsConnected(n, m)
      PROVE  IsConnected(m, n)
  <2>1. PICK d \in Dir : conn[n][d] = m
    BY <1>5 DEF IsConnected, GetConnections
  <2>2. conn[m][Opposite[d]] = n /\ Opposite[d] \in Dir /\ n # NULL
    BY <1>1, <1>5, <2>1, NavGraphAssumption DEF ConnectionsMutual
  <2> QED BY <2>2 DEF IsConnected, GetConnections
<1>6. ASSUME NEW n \in Live, NEW m \in Live, "overwrite" \notin script
      PROVE  IsConnected(n, m) = IsConnected(m, n)
  <2>1. IsConnected(n, m) <=> IsConnected(m, n)
    BY <1>5, <1>6
  <2>2. IsConnected(n, m) \in BOOLEAN /\ IsConnected(m, n) \in BOOLEAN
    BY DEF IsConnected
  <2> QED BY <2>1, <2>2
<1>7. ASSUME NEW ps \in SUBSET Pos
      PROVE  /\ GetNearestNodes(ps) \subseteq Live
             /\ "move" \notin script => GetNearestNodes(ps) = { n \in Live : pos[n] \in ps }
  <2>1. GetNearestNodes(ps) \subseteq Live
    BY DEF GetNearestNodes, TreeHolds
  <2>2. ASSUME "move" \notin script
        PROVE  GetNearestNodes(ps) = { n \in Live : pos[n] \in ps }
    <3>1. tree = { <<pos[n], n>> : n \in Live }
      BY <2>2 DEF TreeHolds
    <3>2. ASSUME NEW n \in GetNearestNodes(ps) PROVE n \in Live /\ pos[n] \in ps
      <4>1. PICK x \in tree : x[1] \in ps /\ x[2] = n
        BY <3>2 DEF GetNearestNodes
      <4> QED BY <3>1, <4>1
    <3>3. ASSUME NEW n \in Live, pos[n] \in ps PROVE n \in GetNearestNodes(ps)
      <4>1. <<pos[n], n>> \in tree /\ <<pos[n], n>>[1] \in ps
        BY <3>1, <3>3
      <4> QED BY <4>1 DEF GetNearestNodes
    <3> QED BY <3>2, <3>3
  <2> QED BY <2>1, <2>2
<1>8. GetStart \in Live \cup {NULL} /\ GetEnd \in Live \cup {NULL}
  BY DEF GetStart, GetEnd, EndsLive
<1> QED BY <1>2, <1>3, <1>4, <1>6, <1>7, <1>8 DEF ScriptsSeeTheGraph

\* ScriptsSeeTheGraph: what the bindings give out is the graph, for scripts that
\* do not remove nodes they chose or whose connections they overwrote.
THEOREM GraphIsSeen ==
  ASSUME Careful
  PROVE  GraphSpec => []ScriptsSeeTheGraph
BY GraphSeen, GraphInvariant, PTL

\* LoadStaysInBounds, as long as no generation runs between Save and Load.
THEOREM NothingStrays ==
  ASSUME Careful
  PROVE  GraphSpec => []LoadStaysInBounds
<1>1. GraphInv => LoadStaysInBounds
  BY DEF GraphInv, LoadStaysInBounds
<1> QED BY <1>1, GraphInvariant, PTL

LEMMA LoadShape ==
  ASSUME GraphInv, file # NULL, NEW new \in Injections(Len(file.pos)), Load(new)
  PROVE  Shape' = file
<1> DEFINE made == ToSet(new)
<1>1. /\ nodes' = new /\ new \in Seq(Cell) /\ Len(new) = Len(file.pos) /\ Live' = made
      /\ \A i, k \in 1 .. Len(new) : new[i] = new[k] => i = k
      /\ \A n \in made : pos'[n] = file.pos[IdIn(new, n) + 1]
      /\ file' = file
  BY LoadFacts
<1>2. \A n \in made, d \in Dir :
        \/ /\ conn'[n][d] = NULL
           /\ \A l \in file.links : ~(l[1] = d /\ l[2] = IdIn(new, n))
        \/ \E l \in file.links :
             l[1] = d /\ l[2] = IdIn(new, n) /\ conn'[n][d] = new[l[3] + 1]
  BY LoadFacts
<1>3. /\ DOMAIN new = 1 .. Len(new) /\ Len(new) \in Nat
      /\ \A i \in 1 .. Len(new) : new[i] \in made /\ IdIn(new, new[i]) = i - 1
      /\ \A n \in made : n \in Cell /\ IdIn(new, n) \in 0 .. Len(new) - 1
  <2>1. DOMAIN new = 1 .. Len(new) /\ Len(new) \in Nat
    BY <1>1
  <2>2. \A i \in 1 .. Len(new) : new[i] \in made
    BY <2>1 DEF ToSet
  <2>3. \A n \in made : n \in Cell
    BY <1>1, <2>1 DEF ToSet
  <2> QED BY <1>1, <2>1, <2>2, <2>3, IdInFacts
<1>4. /\ file = [pos |-> file.pos, links |-> file.links] /\ file.pos \in Seq(Pos)
      /\ \A l \in file.links : l = <<l[1], l[2], l[3]>> /\ l[1] \in Dir /\ InBounds(l, Len(new))
      /\ \A l, m \in file.links : (l[1] = m[1] /\ l[2] = m[2]) => l = m
  BY <1>1 DEF GraphInv, FileHolds
<1>5. \A l \in file.links :
        /\ l[2] + 1 \in 1 .. Len(new) /\ new[l[2] + 1] \in made /\ IdIn(new, new[l[2] + 1]) = l[2]
        /\ l[3] + 1 \in 1 .. Len(new) /\ new[l[3] + 1] \in made /\ IdIn(new, new[l[3] + 1]) = l[3]
  <2> SUFFICES ASSUME NEW l \in file.links
               PROVE  /\ l[2] + 1 \in 1 .. Len(new) /\ new[l[2] + 1] \in made
                      /\ IdIn(new, new[l[2] + 1]) = l[2]
                      /\ l[3] + 1 \in 1 .. Len(new) /\ new[l[3] + 1] \in made
                      /\ IdIn(new, new[l[3] + 1]) = l[3]
    OBVIOUS
  <2>1. /\ l[2] + 1 \in 1 .. Len(new) /\ (l[2] + 1) - 1 = l[2]
        /\ l[3] + 1 \in 1 .. Len(new) /\ (l[3] + 1) - 1 = l[3]
    BY <1>3, <1>4 DEF InBounds
  <2> QED BY <1>3, <2>1
<1> HIDE DEF made
<1>6. NULL \notin made
  BY <1>3, NavGraphAssumption
<1>7. [i \in DOMAIN nodes' |-> pos'[nodes'[i]]] = file.pos
  <2>1. \A i \in 1 .. Len(new) : pos'[new[i]] = file.pos[i]
    BY <1>1, <1>3
  <2>2. DOMAIN file.pos = 1 .. Len(new) /\ file.pos = [i \in 1 .. Len(new) |-> file.pos[i]]
    BY <1>1, <1>4
  <2> QED BY <1>1, <1>3, <2>1, <2>2
<1> DEFINE Link3(x) == <<x[1], IdIn(nodes, x[2]), IdIn(nodes, conn[x[2]][x[1]])>>'
<1>8. ASSUME NEW x \in Slots'
      PROVE  Link3(x) \in file.links
  <2>1. x[1] \in Dir /\ x[2] \in made /\ conn'[x[2]][x[1]] # NULL
    BY <1>1, <1>8 DEF Slots
  <2>2. PICK l \in file.links :
          l[1] = x[1] /\ l[2] = IdIn(new, x[2]) /\ conn'[x[2]][x[1]] = new[l[3] + 1]
    BY <1>2, <2>1
  <2>3. IdIn(new, conn'[x[2]][x[1]]) = l[3]
    BY <1>5, <2>2
  <2>4. Link3(x) = l
    BY <1>1, <1>4, <2>2, <2>3
  <2> QED BY <2>4
<1>9. ASSUME NEW l \in file.links
      PROVE  \E x \in Slots' : l = Link3(x)
  <2> DEFINE n == new[l[2] + 1]
             x == <<l[1], n>>
  <2>1. n \in made /\ IdIn(new, n) = l[2] /\ l[1] \in Dir
    BY <1>4, <1>5
  <2>2. PICK r \in file.links :
          r[1] = l[1] /\ r[2] = l[2] /\ conn'[n][l[1]] = new[r[3] + 1]
    BY <1>2, <2>1
  <2>3. r = l
    BY <1>4, <2>2
  <2>4. conn'[n][l[1]] = new[l[3] + 1] /\ conn'[n][l[1]] # NULL
    BY <1>5, <1>6, <2>2, <2>3
  <2>5. x \in Slots' /\ x[1] = l[1] /\ x[2] = n
    BY <1>1, <2>1, <2>4 DEF Slots
  <2>6. IdIn(new, conn'[n][l[1]]) = l[3]
    BY <1>5, <2>4
  <2> HIDE DEF n, x
  <2>7. Link3(x) = <<l[1], l[2], l[3]>>
    BY <1>1, <2>1, <2>5, <2>6
  <2> QED BY <1>4, <2>5, <2>7
<1>10. { Link3(x) : x \in Slots' } = file.links
  BY <1>8, <1>9
<1> QED BY <1>4, <1>7, <1>10 DEF Shape

\* LoadRestores: a saved graph comes back, whatever happened in between.
THEOREM SavedGraphReturns ==
  ASSUME Careful
  PROVE  GraphSpec => LoadRestores
<1>1. GraphInv /\ [GraphNext]_graphVars =>
        [(file # NULL /\ \E new \in Injections(Len(file.pos)) : Load(new)) => Shape' = file]_graphVars
  BY LoadShape
<1> QED BY <1>1, GraphInvariant, PTL DEF GraphSpec, LoadRestores

=============================================================================
