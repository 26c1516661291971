----------------------------- MODULE NavSearch -----------------------------
(***************************************************************************)
(* The A* search of gm_navigation: Nav::ExecuteFindPath of                 *)
(* navigation/src/nav.cpp with the calls it makes (Reset, AddOpenedNode,   *)
(* AddClosedNode, FindLowestF, the heuristics, Node::SetStatus).           *)
(*                                                                         *)
(* One search runs at a time, on a worker thread that holds Nav's lock     *)
(* (NavJobs models the queueing).  The Lua thread does not take that lock  *)
(* when a script edits nodes, so its edits interleave with the search:     *)
(* "edits" says which of them the script makes.  Shutdown sets info->abort *)
(* at any moment.                                                          *)
(*                                                                         *)
(* Distances are naturals: the model has no float rounding.                *)
(***************************************************************************)
EXTENDS Integers, SequencesExt

CONSTANTS
  Node,        \* the nodes of the Nav
  NULL,        \* the null pointer
  NumDir,      \* NUM_DIRECTIONS_MAX, the number of connection slots of a node
  Pos,         \* the positions nodes can have
  Dist,        \* EuclideanDistance of two positions
  Heuristics,  \* the values of Nav::heuristic
  Heur,        \* HeuristicDistance: per heuristic, of two positions
  Blocks,      \* pairs of positions between which a hull trace hits
  Worlds,      \* the graphs a search may start on
  Requests,    \* the pairs of start and end searches are queued with
  EditSets,    \* sets of unlocked edits scripts make while a search runs
  EditNode     \* the nodes it edits (bounds the model)

Dirs == 0 .. NumDir - 1
EditKinds == {"disable", "connect", "move", "heuristic", "trace"}

ASSUME NavSearchAssumption ==
  /\ NULL \notin Node
  /\ NumDir \in Nat \ {0}
  /\ Dist \in [Pos \X Pos -> Nat]
  /\ Heur \in [Heuristics -> [Pos \X Pos -> Nat]]
  /\ Blocks \subseteq Pos \X Pos
  /\ Requests \subseteq (Node \cup {NULL}) \X (Node \cup {NULL})
  /\ EditSets \subseteq SUBSET EditKinds
  /\ EditNode \subseteq Node
  /\ Worlds \subseteq [conn : [Node -> [Dirs -> Node \cup {NULL}]],
                       pos : [Node -> Pos],
                       disabled : [Node -> BOOLEAN]]

VARIABLES
  conn,        \* Node::connections
  pos,         \* Node::vecPos
  disabled,    \* Node::bDisabled
  heuristic,   \* Nav::heuristic
  edits        \* the edits the script of this behaviour makes

VARIABLES
  opened,      \* Nav::opened, a list that may hold a node more than once
  isOpened,    \* Node::bOpened
  isClosed,    \* Node::bClosed
  scoreF,      \* Node::scoreF
  scoreG,      \* Node::scoreG
  aStarParent  \* Node::nodeAStarParent

VARIABLES
  pc,          \* where ExecuteFindPath is; "idle" when no search runs
  start, end,  \* its arguments, captured when the job was queued
  hull,        \* info->hull
  current,     \* its local variables
  dir,
  abort,       \* info->abort
  foundPath,   \* info->foundPath
  path         \* info->path

graph  == <<conn, pos, disabled, heuristic, edits>>
scores == <<scoreF, scoreG, aStarParent>>
marks  == <<opened, isOpened, isClosed>>
job    == <<start, end, hull>>
vars   == <<graph, scores, marks, job, pc, current, dir, abort, foundPath, path>>

EuclideanDistance(a, b) == Dist[<<pos[a], pos[b]>>]
HeuristicDistance(a, b) == Heur[heuristic][<<pos[a], pos[b]>>]

(***************************************************************************)
(* FindLowestF keeps the best score seen and takes the next node when that *)
(* score is NULL, that is 0: a node whose F is 0 never stays the winner    *)
(* unless it is the last of the list.  So the candidates are the positions *)
(* with no zero from there to the last but one, and the winner is the      *)
(* first of the lowest of them.                                            *)
(***************************************************************************)
Candidates ==
  { i \in DOMAIN opened :
      \A j \in i .. Len(opened) - 1 : scoreF[opened[j]] # 0 }

LowestIndex ==
  CHOOSE i \in Candidates :
    \A j \in Candidates :
      \/ scoreF[opened[i]] < scoreF[opened[j]]
      \/ scoreF[opened[i]] = scoreF[opened[j]] /\ i <= j

FindLowestF == IF opened = <<>> THEN NULL ELSE opened[LowestIndex]

(***************************************************************************)
(* The search, from its queueing to the release of the lock.               *)
(***************************************************************************)
Init ==
  /\ \E w \in Worlds : conn = w.conn /\ pos = w.pos /\ disabled = w.disabled
  /\ heuristic \in Heuristics /\ edits \in EditSets
  /\ opened = <<>>
  /\ isOpened = [n \in Node |-> FALSE]
  /\ isClosed = [n \in Node |-> FALSE]
  /\ scoreF = [n \in Node |-> 0]
  /\ scoreG = [n \in Node |-> 0]
  /\ aStarParent = [n \in Node |-> NULL]
  /\ pc = "idle"
  /\ start = NULL /\ end = NULL /\ hull = FALSE
  /\ current = NULL /\ dir = 0
  /\ abort = FALSE /\ foundPath = FALSE /\ path = <<>>

\* Reset clears the marks of every node.  (Mutant: it forgets bClosed.)
KeepClosed == isClosed
ResetClosed == [n \in Node |-> FALSE]

\* SetStatus(NULL, ...) on the start.
NoParent(s) == [aStarParent EXCEPT ![s] = NULL]

\* A new JobInfo_t for which ExecuteFindPath takes the lock.
NewSearch(s, e, h) ==
  /\ pc = "idle"
  /\ start' = s /\ end' = e /\ hull' = h
  /\ abort' = FALSE /\ foundPath' = FALSE /\ path' = <<>>
  /\ current' = NULL /\ dir' = 0
  /\ isClosed' = ResetClosed
  /\ UNCHANGED graph

NothingToSearch(s, e) == s = NULL \/ e = NULL \/ s = e

\* The early return, after Reset.
ReturnEarly(s, e, h) ==
  /\ NewSearch(s, e, h)
  /\ NothingToSearch(s, e)
  /\ opened' = <<>>
  /\ isOpened' = [n \in Node |-> FALSE]
  /\ UNCHANGED <<pc, scores>>

\* Reset, and the start is opened.  The scores and parents an earlier search
\* left in the other nodes stay there.
BeginSearch(s, e, h) ==
  /\ NewSearch(s, e, h)
  /\ ~NothingToSearch(s, e)
  /\ pc' = "loop"
  /\ opened' = <<s>>
  /\ isOpened' = [n \in Node |-> n = s]
  /\ aStarParent' = NoParent(s)
  /\ scoreF' = [scoreF EXCEPT ![s] = HeuristicDistance(s, e)]
  /\ scoreG' = [scoreG EXCEPT ![s] = 0]

\* The loop's head leaves on abort, on an empty list and at the end node.
LeaveLoop ==
  /\ pc = "loop"
  /\ pc' = "walk"
  /\ \/ abort /\ UNCHANGED <<current, foundPath>>
     \/ /\ ~abort /\ FindLowestF \in {NULL, end}
        /\ current' = FindLowestF
        /\ foundPath' = (FindLowestF = end)
  /\ UNCHANGED <<graph, scores, marks, job, dir, abort, path>>

\* CUtlVector::FindAndRemove takes the first occurrence.  (Mutant: it takes none.)
RemoveNone(n) == opened
FindAndRemove(n) == RemoveFirst(opened, n)

\* AddClosedNode: the flag and the list.
CloseLowest ==
  /\ pc = "loop" /\ ~abort
  /\ FindLowestF \notin {NULL, end}
  /\ current' = FindLowestF
  /\ isClosed' = [isClosed EXCEPT ![FindLowestF] = TRUE]
  /\ opened' = FindAndRemove(FindLowestF)
  /\ dir' = 0
  /\ pc' = "expand"
  /\ UNCHANGED <<graph, scores, isOpened, job, abort, foundPath, path>>

HullHits(n) ==
  IF "trace" \in edits THEN BOOLEAN ELSE {(<<pos[current], pos[n]>> \in Blocks)}

\* The neighbours that are there, not closed and not disabled.
Considered(n) == n # NULL /\ ~isClosed[n] /\ ~disabled[n]

\* (Mutant: a node that is open is never opened again.)
NotOpenedYet(n) == ~isOpened[n]
Improves(n) ==
  ~isOpened[n]
    \/ scoreG[current] + EuclideanDistance(current, n) < scoreG[n]

\* AddOpenedNode appends even when the list already holds the node.
Open(n) ==
  LET g == scoreG[current] + EuclideanDistance(current, n)
  IN  /\ isOpened' = [isOpened EXCEPT ![n] = TRUE]
      /\ opened' = Append(opened, n)
      /\ aStarParent' = [aStarParent EXCEPT ![n] = current]
      /\ scoreF' = [scoreF EXCEPT ![n] = g + HeuristicDistance(n, end)]
      /\ scoreG' = [scoreG EXCEPT ![n] = g]

\* The loop over the directions.
NextDir ==
  /\ dir' = dir + 1
  /\ pc' = IF dir + 1 = NumDir THEN "loop" ELSE "expand"

\* One turn of the loop over the directions that opens the connection.
OpenConnection ==
  /\ pc = "expand"
  /\ LET n == conn[current][dir]
     IN  /\ Considered(n) /\ Improves(n)
         /\ hull => FALSE \in HullHits(n)
         /\ Open(n)
  /\ NextDir
  /\ UNCHANGED <<graph, isClosed, job, current, abort, foundPath, path>>

\* One turn that does not.
SkipConnection ==
  /\ pc = "expand"
  /\ LET n == conn[current][dir]
     IN  (Considered(n) /\ Improves(n)) => (hull /\ TRUE \in HullHits(n))
  /\ NextDir
  /\ UNCHANGED <<graph, scores, marks, job, current, abort, foundPath, path>>

\* (Mutant: the path is filled at its tail.)
AddToTail(n) == Append(path, n)
AddToHead(n) == Cons(n, path)

\* The loop that fills info->path from the last node back to the start.
WalkBack ==
  /\ pc = "walk" /\ current # NULL
  /\ path' = AddToHead(current)
  /\ current' = aStarParent[current]
  /\ UNCHANGED <<graph, scores, marks, job, pc, dir, abort, foundPath>>

EndSearch ==
  /\ pc = "walk" /\ current = NULL
  /\ pc' = "idle"
  /\ UNCHANGED <<graph, scores, marks, job, current, dir, abort, foundPath, path>>

SearchStep ==
  \/ LeaveLoop
  \/ CloseLowest
  \/ OpenConnection
  \/ SkipConnection
  \/ WalkBack
  \/ EndSearch

(***************************************************************************)
(* The Lua thread, which does not take the lock.                           *)
(***************************************************************************)
searchVars == <<scores, marks, job, pc, current, dir, foundPath, path>>

Abort ==
  /\ pc # "idle" /\ ~abort
  /\ abort' = TRUE
  /\ UNCHANGED <<graph, searchVars>>

SetDisabled(n, b) ==
  /\ "disable" \in edits
  /\ disabled' = [disabled EXCEPT ![n] = b]
  /\ UNCHANGED <<conn, pos, heuristic, edits, abort, searchVars>>

\* Node_ConnectTo, and Node_RemoveConnection when m is NULL.
ConnectTo(n, m, d) ==
  /\ "connect" \in edits
  /\ conn' = [conn EXCEPT ![n][d] = m]
  /\ UNCHANGED <<pos, disabled, heuristic, edits, abort, searchVars>>

SetPosition(n, p) ==
  /\ "move" \in edits
  /\ pos' = [pos EXCEPT ![n] = p]
  /\ UNCHANGED <<conn, disabled, heuristic, edits, abort, searchVars>>

SetHeuristic(k) ==
  /\ "heuristic" \in edits
  /\ heuristic' = k
  /\ UNCHANGED <<conn, pos, disabled, edits, abort, searchVars>>

LuaStep ==
  \/ Abort
  \/ \E n \in EditNode, b \in BOOLEAN : SetDisabled(n, b)
  \/ \E n \in EditNode, m \in Node \cup {NULL}, d \in Dirs : ConnectTo(n, m, d)
  \/ \E n \in EditNode, p \in Pos : SetPosition(n, p)
  \/ \E k \in Heuristics : SetHeuristic(k)

Next ==
  \/ \E r \in Requests, h \in BOOLEAN : ReturnEarly(r[1], r[2], h)
  \/ \E r \in Requests, h \in BOOLEAN : BeginSearch(r[1], r[2], h)
  \/ SearchStep
  \/ LuaStep

\* The worker keeps running whatever the script does: it never waits in the
\* search, so its next step stays enabled until it has taken it.
Spec == Init /\ [][Next]_vars /\ WF_vars(SearchStep)

(***************************************************************************)
(* Properties.                                                             *)
(***************************************************************************)

\* Every variable has its type.
TypeOK ==
  /\ conn \in [Node -> [Dirs -> Node \cup {NULL}]]
  /\ pos \in [Node -> Pos]
  /\ disabled \in [Node -> BOOLEAN]
  /\ heuristic \in Heuristics /\ edits \in EditSets
  /\ opened \in Seq(Node)
  /\ isOpened \in [Node -> BOOLEAN]
  /\ isClosed \in [Node -> BOOLEAN]
  /\ scoreF \in [Node -> Nat]
  /\ scoreG \in [Node -> Nat]
  /\ aStarParent \in [Node -> Node \cup {NULL}]
  /\ pc \in {"idle", "loop", "expand", "walk"}
  /\ start \in Node \cup {NULL} /\ end \in Node \cup {NULL}
  /\ hull \in BOOLEAN
  /\ current \in Node \cup {NULL}
  /\ dir \in Nat
  /\ pc = "expand" => current # NULL /\ dir \in Dirs
  /\ abort \in BOOLEAN /\ foundPath \in BOOLEAN
  /\ path \in Seq(Node)

\* No candidate is lost: a node that was opened and not closed is still in
\* the list FindLowestF reads, though FindAndRemove takes one copy of a node
\* out at a time and Reset empties list and flags apart from each other.
CandidatesListed ==
  \A n \in Node : (isOpened[n] /\ ~isClosed[n]) => n \in ToSet(opened)

\* The parent of every node this search opened is a node it closed, the
\* start's is NULL, and pointers an earlier search left are never met:
\* otherwise the walk back leaves the search, or runs in a ring.
ParentsAreClosed ==
  pc # "idle" =>
    \A n \in Node : isOpened[n] =>
      IF n = start THEN aStarParent[n] = NULL
      ELSE aStarParent[n] # NULL /\ isClosed[aStarParent[n]]

\* A path that is delivered as found runs from the node that was the start to
\* the node that was the end when the search was queued, and no node twice,
\* whatever the script edits meanwhile.
FoundPathHasItsEnds ==
  (pc = "idle" /\ foundPath) =>
    /\ path # <<>> /\ path[1] = start /\ path[Len(path)] = end
    /\ \A i, j \in 1 .. Len(path) : path[i] = path[j] => i = j

\* A search that ends by itself without a path delivers an empty table; only
\* an abort may leave a partial path behind.
NoPathUnlessFound ==
  (pc = "idle" /\ ~foundPath /\ ~abort) => path = <<>>

\* A step a search may take: along a connection, to a node that is enabled,
\* with no hull hit when the search traces hulls.
UsableBy(u, d) ==
  /\ conn[u][d] # NULL /\ ~disabled[conn[u][d]]
  /\ hull => <<pos[u], pos[conn[u][d]]>> \notin Blocks
Usable(u, v) == \E d \in Dirs : conn[u][d] = v /\ UsableBy(u, d)

\* What FindPathImmediate and FindPathHullImmediate give the script; the empty
\* path is their false.
FindPathImmediate == IF foundPath THEN path ELSE <<>>

\* A search that was not aborted and gives no path is right: a set of nodes
\* that holds the start and not the end is closed under usable connections.
NotFoundMeansUnreachable ==
  (pc = "idle" /\ FindPathImmediate = <<>> /\ ~abort /\ start # NULL /\ end \notin {NULL, start}) =>
    \E S \in SUBSET Node :
      /\ start \in S /\ end \notin S
      /\ \A u \in S, v \in Node : Usable(u, v) => v \in S

\* A potential that no usable connection raises by more than its length and
\* that reaches scoreG[end] at the end proves that no path is shorter.
Potential(n) ==
  LET rest == scoreG[end] - HeuristicDistance(n, end)
  IN  IF isOpened[n] /\ scoreG[n] <= rest THEN scoreG[n] ELSE rest

\* A found path is a walk over usable connections and a shortest one, of length
\* scoreG[end]: opening a node again
\* when a shorter way to it turns up, and never looking at a closed node again,
\* lose nothing.
FoundPathIsShortest ==
  (pc = "idle" /\ foundPath) =>
    /\ Potential(start) = 0
    /\ Potential(end) = scoreG[end]
    /\ scoreG[start] = 0
    /\ \A i \in 1 .. Len(path) - 1 :
         /\ Usable(path[i], path[i + 1])
         /\ scoreG[path[i + 1]] = scoreG[path[i]] + EuclideanDistance(path[i], path[i + 1])
    /\ \A u, v \in Node :
         Usable(u, v) => Potential(v) <= Potential(u) + EuclideanDistance(u, v)

\* Every search ends and releases the lock, whatever the script edits: each
\* node is opened again only for a smaller score, and the parents of closed
\* nodes never form a ring.
SearchEnds == (pc # "idle") ~> (pc = "idle")

(***************************************************************************)
(* The inductive invariant.  Parts of it hold whatever the script edits.   *)
(***************************************************************************)

\* The last search got past its early return.
Searched == start # NULL /\ end # NULL /\ start # end

ControlInv ==
  /\ pc # "idle" => Searched
  /\ pc = "idle" => current = NULL
  /\ pc \in {"loop", "expand"} => ~foundPath /\ path = <<>>
  /\ foundPath => Searched
  /\ ~Searched => path = <<>>
  /\ pc = "expand" => isClosed[current]
  /\ current # NULL => isOpened[current]

MarksInv ==
  /\ CandidatesListed
  /\ \A n \in ToSet(opened) : isOpened[n]
  /\ \A n \in Node : isClosed[n] => isOpened[n]

\* The start is closed first, once, and is never opened again.
StartInv ==
  Searched =>
    /\ isOpened[start] /\ aStarParent[start] = NULL /\ scoreG[start] = 0
    /\ isClosed[start] => start \notin ToSet(opened)
    /\ ~isClosed[start] => pc # "expand" /\ opened = <<start>> /\ current = NULL
    /\ ~isClosed[start] => \A n \in Node : isOpened[n] => n = start

ParentInv ==
  Searched =>
    \A n \in Node : (isOpened[n] /\ n # start) =>
      aStarParent[n] # NULL /\ isClosed[aStarParent[n]]

\* The path so far is a chain of parents that ends at the end node.
WalkInv ==
  /\ \A i \in 1 .. Len(path) : isOpened[path[i]]
  /\ \A i \in 1 .. Len(path) - 1 : aStarParent[path[i + 1]] = path[i]
  /\ path # <<>> => aStarParent[path[1]] = current
  /\ foundPath =>
       /\ isOpened[end]
       /\ IF path = <<>> THEN current = end ELSE path[Len(path)] = end
  /\ (pc \in {"walk", "idle"} /\ ~foundPath /\ ~abort) => current = NULL /\ path = <<>>

SearchInv == TypeOK /\ ControlInv /\ MarksInv /\ StartInv /\ ParentInv /\ WalkInv

\* A rank that falls from every node to its parent, and along the path.
Ranks(r) ==
  /\ \A n \in Node : (isOpened[n] /\ aStarParent[n] # NULL) => r[aStarParent[n]] < r[n]
  /\ \A i, j \in 1 .. Len(path) : i < j => r[path[i]] < r[path[j]]
RankInv == \E r \in [Node -> Nat] : Ranks(r)

(* The rest needs a graph that no script edits while a search runs.         *)
Undisturbed == EditSets \subseteq {{}}

\* The connections of closed nodes that were looked at; of the node that is
\* being expanded those up to dir.
Expanded(u, d) ==
  isClosed[u] /\ UsableBy(u, d) /\ ((pc = "expand" /\ u = current) => d < dir)

ReachInv == \A u \in Node, d \in Dirs : Expanded(u, d) => isOpened[conn[u][d]]

\* The end is not closed: the loop leaves before it would be.
EndInv == Searched => ~isClosed[end]

\* A search that found nothing has nothing left to look at.
EmptyInv ==
  (pc \in {"walk", "idle"} /\ Searched /\ ~foundPath /\ ~abort) =>
    opened = <<>> /\ ~isOpened[end]

\* What NotFoundMeansUnreachable follows from, for any heuristic.
UnreachableInv == SearchInv /\ edits = {} /\ ReachInv /\ EndInv /\ EmptyInv

(* The last part needs distances that suit A*.                              *)

\* Heuristics that never fall by more than the way taken: HEURISTIC_EUCLIDEAN
\* and HEURISTIC_CUSTOM, but not HEURISTIC_MANHATTAN.
ConsistentHeuristics ==
  \A k \in Heuristics : \A p, q, e \in Pos :
    /\ Heur[k][<<e, e>>] = 0
    /\ Heur[k][<<p, e>>] <= Dist[<<p, q>>] + Heur[k][<<q, e>>]

\* No two nodes are at one place: then no score but the start's is 0, and the
\* way FindLowestF treats a score of 0 has no effect.
DistinctPlaces ==
  \A w \in Worlds : \A m, n \in Node : m # n => Dist[<<w.pos[m], w.pos[n]>>] > 0

SpreadInv == \A m, n \in Node : m # n => EuclideanDistance(m, n) > 0

\* Scores are those of a walk along parents, each a usable connection.
ScoreInv ==
  Searched =>
    /\ \A n \in Node : isOpened[n] => scoreF[n] = scoreG[n] + HeuristicDistance(n, end)
    /\ \A n \in Node : (isOpened[n] /\ n # start) =>
         /\ aStarParent[n] # n
         /\ Usable(aStarParent[n], n)
         /\ scoreG[n] = scoreG[aStarParent[n]] + EuclideanDistance(aStarParent[n], n)

\* No closed node has a higher F than a listed one, or than the one expanded.
OrderInv ==
  \A c \in Node : isClosed[c] =>
    /\ \A o \in ToSet(opened) : scoreF[c] <= scoreF[o]
    /\ pc = "expand" => scoreF[c] <= scoreF[current]

\* A looked-at neighbour has no worse score than the way over the closed node.
CheapestInv ==
  \A u \in Node, d \in Dirs :
    Expanded(u, d) => scoreG[conn[u][d]] <= scoreG[u] + EuclideanDistance(u, conn[u][d])

\* The end was the lowest of the list when it was found.
FoundInv ==
  (pc \in {"walk", "idle"} /\ foundPath) => \A n \in ToSet(opened) : scoreF[end] <= scoreF[n]

\* What FoundPathIsShortest follows from.
OptimalInv ==
  UnreachableInv /\ SpreadInv /\ ScoreInv /\ OrderInv /\ CheapestInv /\ FoundInv

============================================================================
