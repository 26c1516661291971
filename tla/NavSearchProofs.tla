-------------------------- MODULE NavSearchProofs --------------------------
(***************************************************************************)
(* Proofs about NavSearch.                                                 *)
(***************************************************************************)
EXTENDS NavSearch, SeqLemmas

(***************************************************************************)
(* The list FindLowestF reads.                                             *)
(***************************************************************************)

\* The winner of FindLowestF is in the list, and has the lowest F of the
\* candidates.
LEMMA LowestFacts ==
  ASSUME TypeOK, opened # <<>>
  PROVE  /\ LowestIndex \in 1 .. Len(opened)
         /\ FindLowestF = opened[LowestIndex]
         /\ FindLowestF \in Node
         /\ FindLowestF \in ToSet(opened)
         /\ \A j \in Candidates : scoreF[FindLowestF] <= scoreF[opened[j]]
<1>1. opened \in Seq(Node) /\ scoreF \in [Node -> Nat]
  BY DEF TypeOK
<1>2. Len(opened) \in Nat /\ Len(opened) > 0 /\ DOMAIN opened = 1 .. Len(opened)
  BY <1>1
<1>3. \A i \in 1 .. Len(opened) : opened[i] \in Node /\ scoreF[opened[i]] \in Nat
  BY <1>1, <1>2
<1> DEFINE Scores == { scoreF[opened[i]] : i \in Candidates }
<1>4. Candidates \subseteq 1 .. Len(opened) /\ Len(opened) \in Candidates
  BY <1>2 DEF Candidates
<1>5. PICK f \in Scores : \A g \in Scores : f <= g
  <2>1. Scores \subseteq Nat /\ Scores # {}
    BY <1>3, <1>4
  <2> QED BY <2>1, LeastNat
<1> DEFINE Least == { i \in Candidates : scoreF[opened[i]] = f }
<1>6. PICK k \in Least : \A i \in Least : k <= i
  <2>1. Least \subseteq Nat
    <3>1. 1 .. Len(opened) \subseteq Nat
      BY <1>2
    <3>2. Least \subseteq Candidates
      OBVIOUS
    <3> QED BY <3>1, <3>2, <1>4
  <2>2. \E i \in Candidates : scoreF[opened[i]] = f
    BY <1>5
  <2>3. Least # {}
    BY <2>2
  <2> HIDE DEF Least
  <2> QED BY <2>1, <2>3, LeastNat
<1> DEFINE Wins(i) == \A j \in Candidates :
                        \/ scoreF[opened[i]] < scoreF[opened[j]]
                        \/ scoreF[opened[i]] = scoreF[opened[j]] /\ i <= j
<1>7. Wins(k)
  <2> SUFFICES ASSUME NEW j \in Candidates
               PROVE  \/ scoreF[opened[k]] < scoreF[opened[j]]
                      \/ scoreF[opened[k]] = scoreF[opened[j]] /\ k <= j
    OBVIOUS
  <2>1. scoreF[opened[k]] = f /\ f <= scoreF[opened[j]]
    BY <1>5, <1>6
  <2>2. f \in Nat /\ scoreF[opened[j]] \in Nat
    BY <1>3, <1>4, <1>5
  <2>3. scoreF[opened[j]] = f => k <= j
    BY <1>6
  <2> QED BY <2>1, <2>2, <2>3
<1>8. LowestIndex \in Candidates /\ Wins(LowestIndex)
  <2>1. \E i \in Candidates : Wins(i)
    BY <1>6, <1>7
  <2> QED BY <2>1 DEF LowestIndex
<1>9. FindLowestF = opened[LowestIndex]
  BY DEF FindLowestF
<1>10. \A j \in Candidates : scoreF[opened[LowestIndex]] <= scoreF[opened[j]]
  BY <1>8, <1>3, <1>4
<1> QED
  BY <1>8, <1>9, <1>10, <1>4, <1>3, <1>2 DEF ToSet

(***************************************************************************)
(* Types.                                                                  *)
(***************************************************************************)

LEMMA DistTypes ==
  ASSUME TypeOK, NEW a \in Node, NEW b \in Node
  PROVE  EuclideanDistance(a, b) \in Nat /\ HeuristicDistance(a, b) \in Nat
<1>1. pos[a] \in Pos /\ pos[b] \in Pos /\ heuristic \in Heuristics
  BY DEF TypeOK
<1>2. <<pos[a], pos[b]>> \in Pos \X Pos
  BY <1>1
<1> QED
  BY <1>1, <1>2, NavSearchAssumption
  DEF NavSearchAssumption, EuclideanDistance, HeuristicDistance

LEMMA TypeInit == Init => TypeOK
<1> SUFFICES ASSUME Init PROVE TypeOK
  OBVIOUS
<1>1. /\ conn \in [Node -> [Dirs -> Node \cup {NULL}]]
      /\ pos \in [Node -> Pos] /\ disabled \in [Node -> BOOLEAN]
  BY NavSearchAssumption DEF Init, NavSearchAssumption
<1>2. opened \in Seq(Node) /\ path \in Seq(Node)
  BY DEF Init
<1> QED BY <1>1, <1>2 DEF Init, TypeOK

\* What the arguments of a search are.
LEMMA RequestTypes ==
  ASSUME NEW r \in Requests
  PROVE  r[1] \in Node \cup {NULL} /\ r[2] \in Node \cup {NULL}
BY NavSearchAssumption DEF NavSearchAssumption

JobTypes ==
  /\ conn \in [Node -> [Dirs -> Node \cup {NULL}]]
  /\ pos \in [Node -> Pos]
  /\ disabled \in [Node -> BOOLEAN]
  /\ heuristic \in Heuristics /\ edits \in EditSets
  /\ isClosed \in [Node -> BOOLEAN]
  /\ start \in Node \cup {NULL} /\ end \in Node \cup {NULL}
  /\ hull \in BOOLEAN /\ abort \in BOOLEAN /\ foundPath \in BOOLEAN
  /\ path \in Seq(Node) /\ current \in Node \cup {NULL} /\ dir \in Nat

LEMMA NewSearchTypes ==
  ASSUME TypeOK, NEW s \in Node \cup {NULL}, NEW e \in Node \cup {NULL},
         NEW h \in BOOLEAN, NewSearch(s, e, h)
  PROVE  JobTypes'
<1>1. isClosed' \in [Node -> BOOLEAN]
  BY DEF NewSearch, ResetClosed
<1>2. /\ start' = s /\ end' = e /\ hull' = h /\ abort' = FALSE /\ foundPath' = FALSE
      /\ path' = <<>> /\ current' = NULL /\ dir' = 0
  BY DEF NewSearch
<1>3. hull' \in BOOLEAN /\ abort' \in BOOLEAN /\ foundPath' \in BOOLEAN
  BY <1>2
<1>4. path' \in Seq(Node) /\ current' \in Node \cup {NULL} /\ dir' \in Nat
  BY <1>2
<1>5. start' \in Node \cup {NULL} /\ end' \in Node \cup {NULL}
  BY <1>2
<1>6. /\ conn' \in [Node -> [Dirs -> Node \cup {NULL}]]
      /\ pos' \in [Node -> Pos]
      /\ disabled' \in [Node -> BOOLEAN]
      /\ heuristic' \in Heuristics /\ edits' \in EditSets
  BY DEF NewSearch, graph, TypeOK
<1> QED BY <1>1, <1>3, <1>4, <1>5, <1>6 DEF JobTypes

\* Types are kept by every step, given that a running search has its arguments.
LEMMA TypeStep ==
  ASSUME TypeOK, ControlInv, [Next]_vars
  PROVE  TypeOK'
<1> USE DEF TypeOK
<1>0. ASSUME NEW r \in Requests, NEW h \in BOOLEAN, ReturnEarly(r[1], r[2], h)
      PROVE  TypeOK'
  <2>1. isOpened' \in [Node -> BOOLEAN] /\ opened' \in Seq(Node) /\ pc' = "idle"
    BY <1>0 DEF ReturnEarly, NewSearch
  <2>2. NewSearch(r[1], r[2], h) /\ UNCHANGED scores
    BY <1>0 DEF ReturnEarly
  <2>3. JobTypes'
    <3>1. r[1] \in Node \cup {NULL} /\ r[2] \in Node \cup {NULL}
      BY RequestTypes
    <3> QED BY <2>2, <3>1, NewSearchTypes
  <2> QED BY <2>1, <2>2, <2>3 DEF scores, JobTypes
<1>1. ASSUME NEW r \in Requests, NEW h \in BOOLEAN, BeginSearch(r[1], r[2], h)
      PROVE  TypeOK'
  <2> DEFINE s == r[1]
             e == r[2]
  <2>1. s \in Node /\ e \in Node /\ HeuristicDistance(s, e) \in Nat
    <3>1. s \in Node /\ e \in Node
      BY <1>1, RequestTypes DEF BeginSearch, NothingToSearch
    <3> QED BY <3>1, DistTypes
  <2> HIDE DEF s, e
  <2>2. BeginSearch(s, e, h)
    BY <1>1 DEF s, e
  <2>3. NewSearch(s, e, h) /\ pc' = "loop"
    BY <2>2 DEF BeginSearch
  <2>4. isOpened' \in [Node -> BOOLEAN] /\ opened' \in Seq(Node)
    <3>1. opened' = <<s>> /\ isOpened' = [n \in Node |-> n = s]
      BY <2>2 DEF BeginSearch
    <3>2. isOpened' \in [Node -> BOOLEAN]
      BY <3>1
    <3> QED BY <2>1, <3>1, <3>2
  <2>5. /\ aStarParent' \in [Node -> Node \cup {NULL}]
        /\ scoreF' \in [Node -> Nat] /\ scoreG' \in [Node -> Nat]
    BY <2>1, <2>2 DEF BeginSearch, NoParent
  <2>6. JobTypes'
    BY <2>1, <2>3, NewSearchTypes
  <2> QED BY <2>3, <2>4, <2>5, <2>6 DEF JobTypes
<1>2. CASE LeaveLoop
  <2>1. ~abort => FindLowestF \in Node \cup {NULL}
    BY <1>2, LowestFacts DEF FindLowestF
  <2> QED BY <1>2, <2>1 DEF LeaveLoop, graph, scores, marks, job
<1>3. CASE CloseLowest
  <2>1. opened # <<>> /\ FindLowestF \in Node
    BY <1>3, LowestFacts DEF CloseLowest, FindLowestF
  <2>2. RemoveFirst(opened, FindLowestF) \in Seq(Node)
    BY RemoveFirstFacts
  <2>3. 0 \in Dirs /\ FindLowestF # NULL
    BY <1>3, NavSearchAssumption DEF NavSearchAssumption, Dirs, CloseLowest
  <2> QED
    BY <1>3, <2>1, <2>2, <2>3 DEF CloseLowest, FindAndRemove, graph, scores, job
<1>4. CASE OpenConnection
  <2>1. current \in Node /\ end \in Node /\ dir \in Dirs
    BY <1>4 DEF OpenConnection, ControlInv, Searched
  <2>2. conn[current][dir] \in Node
    BY <1>4, <2>1 DEF OpenConnection, Considered
  <2> DEFINE n == conn[current][dir]
             g == scoreG[current] + EuclideanDistance(current, n)
  <2>3. g \in Nat /\ g + HeuristicDistance(n, end) \in Nat
    <3> HIDE DEF n
    <3>1. n \in Node
      BY <2>2 DEF n
    <3>2. /\ EuclideanDistance(current, n) \in Nat
          /\ HeuristicDistance(n, end) \in Nat
      BY <2>1, <3>1, DistTypes
    <3>3. scoreG[current] \in Nat
      BY <2>1
    <3> QED BY <3>2, <3>3
  <2>4. Append(opened, n) \in Seq(Node)
    BY <2>2, AppendFacts
  <2>5. dir' \in Nat /\ (pc' = "expand" => dir' \in Dirs)
    BY <1>4, <2>1, NavSearchAssumption
    DEF OpenConnection, NextDir, Dirs, NavSearchAssumption
  <2>6. Open(n)
    BY <1>4 DEF OpenConnection
  <2>7. opened' \in Seq(Node) /\ isOpened' \in [Node -> BOOLEAN]
    BY <2>2, <2>4, <2>6 DEF Open
  <2>8. /\ aStarParent' \in [Node -> Node \cup {NULL}]
        /\ scoreG' \in [Node -> Nat] /\ scoreF' \in [Node -> Nat]
    BY <2>1, <2>2, <2>3, <2>6 DEF Open
  <2> QED
    BY <1>4, <2>1, <2>5, <2>7, <2>8 DEF OpenConnection, NextDir, graph, job
<1>5. CASE SkipConnection
  <2>1. dir' \in Nat /\ (pc' = "expand" => dir' \in Dirs)
    BY <1>5, NavSearchAssumption
    DEF SkipConnection, NextDir, Dirs, NavSearchAssumption
  <2> QED
    BY <1>5, <2>1 DEF SkipConnection, NextDir, graph, scores, marks, job
<1>6. CASE WalkBack
  <2>1. Cons(current, path) \in Seq(Node)
    BY <1>6 DEF WalkBack, Cons
  <2> QED
    BY <1>6, <2>1 DEF WalkBack, AddToHead, graph, scores, marks, job
<1>7. CASE EndSearch
  BY <1>7 DEF EndSearch, graph, scores, marks, job
<1>8. CASE LuaStep
  <2>1. CASE Abort
    BY <2>1 DEF Abort, graph, searchVars, scores, marks, job
  <2>2. ASSUME NEW n \in EditNode, NEW b \in BOOLEAN, SetDisabled(n, b)
        PROVE  TypeOK'
    BY <2>2 DEF SetDisabled, searchVars, scores, marks, job
  <2>3. ASSUME NEW n \in EditNode, NEW m \in Node \cup {NULL}, NEW d \in Dirs,
               ConnectTo(n, m, d)
        PROVE  TypeOK'
    BY <2>3 DEF ConnectTo, searchVars, scores, marks, job
  <2>4. ASSUME NEW n \in EditNode, NEW p \in Pos, SetPosition(n, p)
        PROVE  TypeOK'
    BY <2>4 DEF SetPosition, searchVars, scores, marks, job
  <2>5. ASSUME NEW k \in Heuristics, SetHeuristic(k)
        PROVE  TypeOK'
    BY <2>5 DEF SetHeuristic, searchVars, scores, marks, job
  <2> QED BY <1>8, <2>1, <2>2, <2>3, <2>4, <2>5 DEF LuaStep
<1>9. CASE UNCHANGED vars
  BY <1>9 DEF vars, graph, scores, marks, job
<1> QED
  BY <1>0, <1>1, <1>2, <1>3, <1>4, <1>5, <1>6, <1>7, <1>8, <1>9 DEF Next, SearchStep

(***************************************************************************)
(* The invariant that holds whatever the script edits.                     *)
(***************************************************************************)

\* Lua edits and stuttering leave the state of the search alone.
LEMMA LuaKeepsSearch ==
  ASSUME LuaStep \/ UNCHANGED vars
  PROVE  UNCHANGED searchVars /\ (abort => abort')
<1>1. CASE Abort
  BY <1>1 DEF Abort
<1>2. CASE \E n \in EditNode, b \in BOOLEAN : SetDisabled(n, b)
  BY <1>2 DEF SetDisabled
<1>3. CASE \E n \in EditNode, m \in Node \cup {NULL}, d \in Dirs : ConnectTo(n, m, d)
  BY <1>3 DEF ConnectTo
<1>4. CASE \E n \in EditNode, p \in Pos : SetPosition(n, p)
  BY <1>4 DEF SetPosition
<1>5. CASE \E k \in Heuristics : SetHeuristic(k)
  BY <1>5 DEF SetHeuristic
<1>6. CASE UNCHANGED vars
  BY <1>6 DEF vars, searchVars
<1> QED BY <1>1, <1>2, <1>3, <1>4, <1>5, <1>6 DEF LuaStep

\* What OpenConnection does, for its node.
LEMMA OpenFacts ==
  ASSUME TypeOK, ControlInv, OpenConnection
  PROVE  \E n \in Node :
           /\ n = conn[current][dir]
           /\ current \in Node /\ end \in Node /\ dir \in Dirs
           /\ ~isClosed[n] /\ ~disabled[n] /\ Improves(n)
           /\ Open(n)
           /\ current' = current /\ isClosed' = isClosed /\ pc' \in {"loop", "expand"}
           /\ UNCHANGED <<graph, job, abort, foundPath, path>>
<1>1. current \in Node /\ end \in Node /\ dir \in Dirs
  BY DEF OpenConnection, ControlInv, Searched, TypeOK
<1>2. conn[current][dir] \in Node
  BY <1>1 DEF OpenConnection, Considered, TypeOK
<1> QED
  BY <1>1, <1>2 DEF OpenConnection, Considered, NextDir

LEMMA ControlStep ==
  ASSUME TypeOK, ControlInv, MarksInv, StartInv, ParentInv, [Next]_vars
  PROVE  ControlInv'
<1>0. ASSUME NEW r \in Requests, NEW h \in BOOLEAN, ReturnEarly(r[1], r[2], h)
      PROVE  ControlInv'
  BY <1>0 DEF ReturnEarly, NewSearch, NothingToSearch, ControlInv, Searched
<1>1. ASSUME NEW r \in Requests, NEW h \in BOOLEAN, BeginSearch(r[1], r[2], h)
      PROVE  ControlInv'
  BY <1>1 DEF BeginSearch, NewSearch, NothingToSearch, ControlInv, Searched
<1>2. CASE LeaveLoop
  <2>1. ASSUME ~abort, FindLowestF # NULL
        PROVE  isOpened[FindLowestF]
    BY <2>1, LowestFacts DEF MarksInv, FindLowestF
  <2> QED
    BY <1>2, <2>1 DEF LeaveLoop, ControlInv, Searched, graph, scores, marks, job, TypeOK
<1>3. CASE CloseLowest
  <2>1. FindLowestF \in Node /\ isOpened[FindLowestF]
    BY <1>3, LowestFacts DEF MarksInv, CloseLowest, FindLowestF
  <2>2. isClosed'[FindLowestF]
    BY <1>3, <2>1 DEF CloseLowest, TypeOK
  <2> QED
    BY <1>3, <2>1, <2>2 DEF CloseLowest, ControlInv, Searched, graph, scores, job
<1>4. CASE OpenConnection
  <2>1. PICK n \in Node :
          /\ current \in Node /\ Open(n)
          /\ current' = current /\ isClosed' = isClosed /\ pc' \in {"loop", "expand"}
          /\ UNCHANGED <<graph, job, abort, foundPath, path>>
    BY <1>4, OpenFacts
  <2>2. \A m \in Node : isOpened[m] => isOpened'[m]
    BY <2>1 DEF Open, TypeOK
  <2>3. pc = "expand"
    BY <1>4 DEF OpenConnection
  <2> QED
    BY <2>1, <2>2, <2>3 DEF ControlInv, Searched, job
<1>5. CASE SkipConnection
  BY <1>5 DEF SkipConnection, NextDir, ControlInv, Searched, graph, scores, marks, job
<1>6. CASE WalkBack
  <2>1. ASSUME aStarParent[current] # NULL
        PROVE  isOpened[aStarParent[current]]
    BY <1>6, <2>1 DEF WalkBack, ControlInv, MarksInv, StartInv, ParentInv, TypeOK
  <2> QED
    BY <1>6, <2>1 DEF WalkBack, ControlInv, Searched, graph, scores, marks, job
<1>7. CASE EndSearch
  BY <1>7 DEF EndSearch, ControlInv, Searched, graph, scores, marks, job
<1>8. CASE LuaStep \/ UNCHANGED vars
  BY <1>8, LuaKeepsSearch DEF searchVars, scores, marks, job, ControlInv, Searched
<1> QED
  BY <1>0, <1>1, <1>2, <1>3, <1>4, <1>5, <1>6, <1>7, <1>8 DEF Next, SearchStep

\* What CloseLowest does, for its node.
LEMMA CloseFacts ==
  ASSUME TypeOK, CloseLowest
  PROVE  \E n \in Node :
           /\ n = FindLowestF /\ n \in ToSet(opened) /\ n # end /\ opened # <<>>
           /\ isClosed' = [isClosed EXCEPT ![n] = TRUE]
           /\ opened' = RemoveFirst(opened, n)
           /\ ToSet(opened') \subseteq ToSet(opened)
           /\ ToSet(opened) \subseteq ToSet(opened') \cup {n}
           /\ pc = "loop" /\ pc' = "expand" /\ current' = n /\ dir' = 0
           /\ UNCHANGED <<graph, scores, isOpened, job, abort, foundPath, path>>
<1>1. opened # <<>> /\ FindLowestF \in Node /\ FindLowestF \in ToSet(opened)
  BY LowestFacts DEF CloseLowest, FindLowestF
<1>2. opened \in Seq(Node)
  BY DEF TypeOK
<1>3. opened' = RemoveFirst(opened, FindLowestF)
  BY DEF CloseLowest, FindAndRemove
<1>4. /\ ToSet(opened') \subseteq ToSet(opened)
      /\ ToSet(opened) \subseteq ToSet(opened') \cup {FindLowestF}
  BY <1>2, <1>3, RemoveFirstFacts
<1> QED
  BY <1>1, <1>3, <1>4 DEF CloseLowest

LEMMA MarksStep ==
  ASSUME TypeOK, ControlInv, MarksInv, StartInv, ParentInv, [Next]_vars
  PROVE  MarksInv'
<1>0. ASSUME NEW r \in Requests, NEW h \in BOOLEAN, ReturnEarly(r[1], r[2], h)
      PROVE  MarksInv'
  <2>1. /\ isOpened' = [n \in Node |-> FALSE] /\ isClosed' = [n \in Node |-> FALSE]
        /\ opened' = <<>>
    BY <1>0 DEF ReturnEarly, NewSearch, ResetClosed
  <2>2. ToSet(opened') = {}
    BY <2>1 DEF ToSet
  <2> QED BY <2>1, <2>2 DEF MarksInv, CandidatesListed
<1>1. ASSUME NEW r \in Requests, NEW h \in BOOLEAN, BeginSearch(r[1], r[2], h)
      PROVE  MarksInv'
  <2>1. r[1] \in Node
    BY <1>1, RequestTypes DEF BeginSearch, NothingToSearch
  <2>2. /\ isOpened' = [n \in Node |-> n = r[1]] /\ isClosed' = [n \in Node |-> FALSE]
        /\ opened' = <<r[1]>>
    BY <1>1 DEF BeginSearch, NewSearch, ResetClosed
  <2>3. ToSet(opened') = {r[1]}
    BY <2>2 DEF ToSet
  <2> QED BY <2>1, <2>2, <2>3 DEF MarksInv, CandidatesListed
<1>2. CASE LeaveLoop
  BY <1>2 DEF LeaveLoop, MarksInv, CandidatesListed, marks
<1>3. CASE CloseLowest
  <2>1. PICK n \in Node :
          /\ n \in ToSet(opened)
          /\ isClosed' = [isClosed EXCEPT ![n] = TRUE]
          /\ ToSet(opened') \subseteq ToSet(opened)
          /\ ToSet(opened) \subseteq ToSet(opened') \cup {n}
          /\ isOpened' = isOpened
    BY <1>3, CloseFacts
  <2> QED BY <2>1 DEF MarksInv, CandidatesListed, TypeOK
<1>4. CASE OpenConnection
  <2>1. PICK n \in Node : Open(n) /\ isClosed' = isClosed
    BY <1>4, OpenFacts
  <2>2. opened \in Seq(Node) /\ opened' = Append(opened, n)
    BY <2>1 DEF Open, TypeOK
  <2>3. ToSet(opened') = ToSet(opened) \cup {n}
    BY <2>2, AppendFacts
  <2>4. isOpened' = [isOpened EXCEPT ![n] = TRUE]
    BY <2>1 DEF Open
  <2> QED BY <2>1, <2>3, <2>4 DEF MarksInv, CandidatesListed, TypeOK
<1>5. CASE SkipConnection
  BY <1>5 DEF SkipConnection, MarksInv, CandidatesListed, marks
<1>6. CASE WalkBack
  BY <1>6 DEF WalkBack, MarksInv, CandidatesListed, marks
<1>7. CASE EndSearch
  BY <1>7 DEF EndSearch, MarksInv, CandidatesListed, marks
<1>8. CASE LuaStep \/ UNCHANGED vars
  BY <1>8, LuaKeepsSearch DEF searchVars, MarksInv, CandidatesListed, marks
<1> QED
  BY <1>0, <1>1, <1>2, <1>3, <1>4, <1>5, <1>6, <1>7, <1>8 DEF Next, SearchStep

LEMMA StartStep ==
  ASSUME TypeOK, ControlInv, MarksInv, StartInv, ParentInv, [Next]_vars
  PROVE  StartInv'
<1>0. ASSUME NEW r \in Requests, NEW h \in BOOLEAN, ReturnEarly(r[1], r[2], h)
      PROVE  StartInv'
  BY <1>0 DEF ReturnEarly, NewSearch, NothingToSearch, StartInv, Searched
<1>1. ASSUME NEW r \in Requests, NEW h \in BOOLEAN, BeginSearch(r[1], r[2], h)
      PROVE  StartInv'
  <2>1. r[1] \in Node /\ start' = r[1]
    BY <1>1, RequestTypes DEF BeginSearch, NewSearch, NothingToSearch
  <2>2. /\ isOpened' = [n \in Node |-> n = r[1]] /\ isClosed' = [n \in Node |-> FALSE]
        /\ opened' = <<r[1]>> /\ pc' = "loop" /\ current' = NULL
        /\ aStarParent' = [aStarParent EXCEPT ![r[1]] = NULL]
        /\ scoreG' = [scoreG EXCEPT ![r[1]] = 0]
    BY <1>1 DEF BeginSearch, NewSearch, ResetClosed, NoParent
  <2>3. aStarParent'[r[1]] = NULL /\ scoreG'[r[1]] = 0
    BY <2>1, <2>2 DEF TypeOK
  <2> QED BY <2>1, <2>2, <2>3 DEF StartInv
<1>2. CASE LeaveLoop
  <2>1. CASE abort
    BY <1>2, <2>1 DEF LeaveLoop, StartInv, Searched, marks, scores, job
  <2>2. CASE ~abort
    <3>1. ASSUME Searched, ~isClosed[start]
          PROVE  FALSE
      <4>1. opened = <<start>> /\ start \in Node
        BY <3>1 DEF StartInv, Searched, TypeOK
      <4>2. opened # <<>> /\ ToSet(opened) = {start}
        BY <4>1 DEF ToSet
      <4>3. FindLowestF = start
        BY <4>2, LowestFacts
      <4> QED BY <4>3, <4>1, <3>1, <2>2, <1>2, NavSearchAssumption
              DEF LeaveLoop, Searched, NavSearchAssumption
    <3> QED
      BY <1>2, <3>1 DEF LeaveLoop, StartInv, Searched, marks, scores, job
  <2> QED BY <2>1, <2>2
<1>3. CASE CloseLowest
  <2>1. PICK n \in Node :
          /\ n \in ToSet(opened)
          /\ isClosed' = [isClosed EXCEPT ![n] = TRUE]
          /\ opened' = RemoveFirst(opened, n)
          /\ ToSet(opened') \subseteq ToSet(opened)
          /\ UNCHANGED <<scores, isOpened, job>>
          /\ pc = "loop"
    BY <1>3, CloseFacts
  <2>2. Searched /\ start \in Node
    BY <2>1 DEF ControlInv, Searched, TypeOK
  <2>3. CASE isClosed[start]
    BY <2>1, <2>2, <2>3 DEF StartInv, Searched, TypeOK, scores, job
  <2>4. CASE ~isClosed[start]
    <3>1. opened = <<start>>
      BY <2>2, <2>4 DEF StartInv
    <3>2. n = start
      BY <3>1, <2>1 DEF ToSet
    <3>3. ToSet(opened') = {}
      <4>1. Len(opened) = 1 /\ opened[1] = start
        BY <3>1
      <4>2. RemoveFirst(opened, start) = RemoveAt(opened, 1)
        <5>1. \E i \in 1 .. Len(opened) : opened[i] = start
          BY <4>1
        <5>2. { i \in 1 .. Len(opened) : opened[i] = start } = {1}
          BY <4>1
        <5>3. Min({1}) = 1
          BY DEF Min
        <5> QED BY <5>1, <5>2, <5>3 DEF RemoveFirst, SelectInSeq
      <4>3. opened \in Seq(Node) /\ 1 \in 1 .. Len(opened)
        BY <4>1 DEF TypeOK
      <4>4. /\ RemoveAt(opened, 1) \in Seq(Node)
            /\ Len(RemoveAt(opened, 1)) = Len(opened) - 1
        BY <4>3, RemoveAtFacts
      <4>5. opened' = RemoveAt(opened, 1)
        BY <4>2, <3>2, <2>1
      <4>6. opened' \in Seq(Node) /\ Len(opened') = 0
        BY <4>1, <4>4, <4>5
      <4> QED BY <4>6 DEF ToSet
    <3>4. isClosed'[start]
      BY <3>2, <2>1 DEF TypeOK
    <3> QED
      BY <2>1, <2>2, <3>3, <3>4 DEF StartInv, Searched, scores, job
  <2> QED BY <2>3, <2>4
<1>4. CASE OpenConnection
  <2>1. PICK n \in Node :
          /\ ~isClosed[n] /\ Open(n)
          /\ isClosed' = isClosed /\ UNCHANGED job
    BY <1>4, OpenFacts
  <2>2. Searched /\ start \in Node /\ isClosed[start] /\ start # n
    BY <1>4, <2>1 DEF OpenConnection, ControlInv, StartInv, Searched, TypeOK
  <2>3. opened \in Seq(Node) /\ opened' = Append(opened, n)
    BY <2>1 DEF Open, TypeOK
  <2>4. ToSet(opened') = ToSet(opened) \cup {n}
    BY <2>3, AppendFacts
  <2>5. /\ isOpened'[start] = isOpened[start]
        /\ aStarParent'[start] = aStarParent[start]
        /\ scoreG'[start] = scoreG[start]
    BY <2>1, <2>2 DEF Open, TypeOK
  <2> QED BY <2>1, <2>2, <2>4, <2>5 DEF StartInv, Searched, job
<1>5. CASE SkipConnection
  BY <1>5 DEF SkipConnection, NextDir, StartInv, Searched, marks, scores, job
<1>6. CASE WalkBack
  BY <1>6 DEF WalkBack, StartInv, Searched, marks, scores, job
<1>7. CASE EndSearch
  BY <1>7 DEF EndSearch, StartInv, Searched, marks, scores, job
<1>8. CASE LuaStep \/ UNCHANGED vars
  BY <1>8, LuaKeepsSearch DEF searchVars, StartInv, Searched, marks, scores, job
<1> QED
  BY <1>0, <1>1, <1>2, <1>3, <1>4, <1>5, <1>6, <1>7, <1>8 DEF Next, SearchStep

\* What BeginSearch does, for its arguments.
LEMMA BeginFacts ==
  ASSUME TypeOK, NEW r \in Requests, NEW h \in BOOLEAN, BeginSearch(r[1], r[2], h)
  PROVE  \E s, e \in Node :
           /\ s # e /\ start' = s /\ end' = e /\ hull' = h
           /\ isOpened' = [n \in Node |-> n = s] /\ isClosed' = [n \in Node |-> FALSE]
           /\ opened' = <<s>> /\ pc' = "loop" /\ current' = NULL
           /\ aStarParent' = [aStarParent EXCEPT ![s] = NULL]
           /\ scoreG' = [scoreG EXCEPT ![s] = 0]
           /\ scoreF' = [scoreF EXCEPT ![s] = HeuristicDistance(s, e)]
           /\ ~abort' /\ ~foundPath' /\ path' = <<>>
           /\ UNCHANGED graph
<1>1. r[1] \in Node /\ r[2] \in Node /\ r[1] # r[2]
  BY RequestTypes DEF BeginSearch, NothingToSearch
<1> DEFINE s == r[1]
           e == r[2]
<1>2. s \in Node /\ e \in Node /\ s # e
  BY <1>1
<1>3. BeginSearch(s, e, h)
  OBVIOUS
<1> HIDE DEF s, e
<1>4. /\ start' = s /\ end' = e /\ hull' = h
      /\ isOpened' = [n \in Node |-> n = s] /\ isClosed' = [n \in Node |-> FALSE]
      /\ opened' = <<s>> /\ pc' = "loop" /\ current' = NULL
      /\ aStarParent' = [aStarParent EXCEPT ![s] = NULL]
      /\ scoreG' = [scoreG EXCEPT ![s] = 0]
      /\ scoreF' = [scoreF EXCEPT ![s] = HeuristicDistance(s, e)]
      /\ ~abort' /\ ~foundPath' /\ path' = <<>>
      /\ UNCHANGED graph
  BY <1>3 DEF BeginSearch, NewSearch, ResetClosed, NoParent
<1> QED BY <1>2, <1>4

LEMMA ParentStep ==
  ASSUME TypeOK, ControlInv, MarksInv, StartInv, ParentInv, [Next]_vars
  PROVE  ParentInv'
<1>0. ASSUME NEW r \in Requests, NEW h \in BOOLEAN, ReturnEarly(r[1], r[2], h)
      PROVE  ParentInv'
  BY <1>0 DEF ReturnEarly, NewSearch, NothingToSearch, ParentInv, Searched
<1>1. ASSUME NEW r \in Requests, NEW h \in BOOLEAN, BeginSearch(r[1], r[2], h)
      PROVE  ParentInv'
  <2>1. PICK s \in Node : isOpened' = [n \in Node |-> n = s] /\ start' = s
    BY <1>1, BeginFacts
  <2> QED BY <2>1 DEF ParentInv
<1>2. CASE LeaveLoop
  BY <1>2 DEF LeaveLoop, ParentInv, Searched, marks, scores, job
<1>3. CASE CloseLowest
  <2>1. PICK n \in Node :
          /\ isClosed' = [isClosed EXCEPT ![n] = TRUE]
          /\ UNCHANGED <<scores, isOpened, job>>
    BY <1>3, CloseFacts
  <2>2. \A m \in Node : isClosed[m] => isClosed'[m]
    BY <2>1 DEF TypeOK
  <2>3. \A m \in Node : aStarParent[m] # NULL => aStarParent[m] \in Node
    BY DEF TypeOK
  <2> QED BY <2>1, <2>2, <2>3 DEF ParentInv, Searched, scores, job
<1>4. CASE OpenConnection
  <2>1. PICK n \in Node :
          /\ current \in Node /\ Open(n)
          /\ isClosed' = isClosed /\ UNCHANGED job
    BY <1>4, OpenFacts
  <2>2. isClosed[current] /\ current # NULL
    BY <1>4, <2>1, NavSearchAssumption DEF OpenConnection, ControlInv, NavSearchAssumption
  <2>3. /\ isOpened' = [isOpened EXCEPT ![n] = TRUE]
        /\ aStarParent' = [aStarParent EXCEPT ![n] = current]
    BY <2>1 DEF Open
  <2>4. \A m \in Node : m # n => isOpened'[m] = isOpened[m] /\ aStarParent'[m] = aStarParent[m]
    BY <2>3 DEF TypeOK
  <2>5. aStarParent'[n] = current
    BY <2>3 DEF TypeOK
  <2> QED BY <2>1, <2>2, <2>4, <2>5 DEF ParentInv, Searched, job
<1>5. CASE SkipConnection
  BY <1>5 DEF SkipConnection, NextDir, ParentInv, Searched, marks, scores, job
<1>6. CASE WalkBack
  BY <1>6 DEF WalkBack, ParentInv, Searched, marks, scores, job
<1>7. CASE EndSearch
  BY <1>7 DEF EndSearch, ParentInv, Searched, marks, scores, job
<1>8. CASE LuaStep \/ UNCHANGED vars
  BY <1>8, LuaKeepsSearch DEF searchVars, ParentInv, Searched, marks, scores, job
<1> QED
  BY <1>0, <1>1, <1>2, <1>3, <1>4, <1>5, <1>6, <1>7, <1>8 DEF Next, SearchStep

LEMMA WalkStep ==
  ASSUME SearchInv, [Next]_vars
  PROVE  WalkInv'
<1> USE DEF SearchInv
<1>0. ASSUME NEW r \in Requests, NEW h \in BOOLEAN, ReturnEarly(r[1], r[2], h)
      PROVE  WalkInv'
  <2>1. path' = <<>> /\ ~foundPath' /\ current' = NULL
    BY <1>0 DEF ReturnEarly, NewSearch
  <2> QED BY <2>1 DEF WalkInv
<1>1. ASSUME NEW r \in Requests, NEW h \in BOOLEAN, BeginSearch(r[1], r[2], h)
      PROVE  WalkInv'
  <2>1. path' = <<>> /\ ~foundPath' /\ current' = NULL
    BY <1>1, BeginFacts
  <2> QED BY <2>1 DEF WalkInv
<1>2. CASE LeaveLoop
  <2>1. path = <<>> /\ path' = <<>> /\ ~foundPath
    BY <1>2 DEF LeaveLoop, ControlInv
  <2>2. ASSUME foundPath'
        PROVE  current' = end' /\ isOpened'[end']
    <3>1. ~abort /\ FindLowestF = end /\ current' = end /\ end # NULL /\ end' = end
      BY <1>2, <2>1, <2>2 DEF LeaveLoop, ControlInv, Searched, job
    <3>2. isOpened[end]
      BY <3>1, LowestFacts DEF FindLowestF, MarksInv
    <3> QED BY <1>2, <3>1, <3>2 DEF LeaveLoop, marks
  <2>3. ASSUME ~foundPath', ~abort'
        PROVE  current' = NULL
    BY <1>2, <2>1, <2>3 DEF LeaveLoop
  <2> QED BY <2>1, <2>2, <2>3 DEF WalkInv
<1>3. CASE CloseLowest
  <2>1. pc = "loop" /\ pc' = "expand" /\ path' = path /\ foundPath' = foundPath
    BY <1>3, CloseFacts
  <2>2. path' = <<>> /\ ~foundPath'
    BY <2>1 DEF ControlInv
  <2> QED BY <2>1, <2>2 DEF WalkInv
<1>4. CASE OpenConnection
  <2>1. pc' \in {"loop", "expand"} /\ path' = path /\ foundPath' = foundPath
    BY <1>4, OpenFacts
  <2>2. path' = <<>> /\ ~foundPath'
    BY <1>4, <2>1 DEF OpenConnection, ControlInv
  <2> QED BY <2>1, <2>2 DEF WalkInv
<1>5. CASE SkipConnection
  <2>1. path' = <<>> /\ ~foundPath' /\ pc' \in {"loop", "expand"}
    BY <1>5 DEF SkipConnection, NextDir, ControlInv
  <2> QED BY <2>1 DEF WalkInv
<1>6. CASE WalkBack
  <2>1. /\ current \in Node /\ path \in Seq(Node) /\ isOpened[current]
        /\ path' = Cons(current, path) /\ current' = aStarParent[current]
        /\ UNCHANGED <<aStarParent, isOpened, foundPath, abort, end, pc>> /\ pc = "walk"
    BY <1>6 DEF WalkBack, AddToHead, TypeOK, ControlInv, scores, marks, job
  <2>2. /\ Len(path') = Len(path) + 1 /\ path' # <<>> /\ Len(path) \in Nat
        /\ path'[1] = current
        /\ \A i \in 2 .. Len(path) + 1 : path'[i] = path[i - 1]
    <3> DEFINE p == Cons(current, path)
    <3>0. current \in Node /\ path \in Seq(Node)
      BY <2>1
    <3>5. p \in Seq(Node)
      BY <3>0, ConsFacts
    <3>6. Len(p) = Len(path) + 1
      BY <3>0, ConsFacts
    <3>7. p[1] = current
      BY <3>0, ConsFacts
    <3>8. p # <<>>
      BY <3>0, ConsFacts
    <3>1. \A i \in 2 .. Len(path) + 1 : p[i] = path[i - 1]
      BY <3>0, ConsFacts
    <3>2. path' = p
      BY <2>1
    <3> HIDE DEF p
    <3> QED BY <2>1, <3>5, <3>6, <3>7, <3>8, <3>1, <3>2
  <2>3. \A i \in 1 .. Len(path') : isOpened'[path'[i]]
    <3> SUFFICES ASSUME NEW i \in 1 .. Len(path') PROVE isOpened'[path'[i]]
      OBVIOUS
    <3>1. CASE i = 1
      BY <2>1, <2>2, <3>1
    <3>2. CASE i # 1
      <4>1. i \in 2 .. Len(path) + 1 /\ i - 1 \in 1 .. Len(path)
        BY <2>2, <3>2
      <4> QED BY <2>1, <2>2, <4>1 DEF WalkInv
    <3> QED BY <3>1, <3>2
  <2>4. \A i \in 1 .. Len(path') - 1 : aStarParent'[path'[i + 1]] = path'[i]
    <3> SUFFICES ASSUME NEW i \in 1 .. Len(path') - 1
                 PROVE  aStarParent'[path'[i + 1]] = path'[i]
      OBVIOUS
    <3>0. i \in 1 .. Len(path) /\ i + 1 \in 2 .. Len(path) + 1 /\ (i + 1) - 1 = i
      BY <2>2
    <3>1. path'[i + 1] = path[i]
      BY <2>2, <3>0
    <3>2. CASE i = 1
      <4>1. path # <<>>
        BY <3>0
      <4> QED BY <2>1, <2>2, <3>1, <3>2, <4>1 DEF WalkInv
    <3>3. CASE i # 1
      <4>1. i \in 2 .. Len(path) + 1 /\ i - 1 \in 1 .. Len(path) - 1 /\ (i - 1) + 1 = i
        BY <2>2, <3>0, <3>3
      <4>2. aStarParent[path[(i - 1) + 1]] = path[i - 1]
        BY <4>1 DEF WalkInv
      <4> QED BY <2>1, <2>2, <3>1, <4>1, <4>2
    <3> QED BY <3>2, <3>3
  <2>5. aStarParent'[path'[1]] = current'
    BY <2>1, <2>2
  <2>6. foundPath' => isOpened'[end'] /\ path'[Len(path')] = end'
    <3> SUFFICES ASSUME foundPath PROVE isOpened[end] /\ path'[Len(path')] = end
      BY <2>1
    <3>1. CASE path = <<>>
      <4>1. Len(path') = 1 /\ current = end
        BY <3>1, <2>2 DEF WalkInv
      <4> QED BY <2>1, <2>2, <4>1
    <3>2. CASE path # <<>>
      <4>1. Len(path) # 0
        BY <3>2, <2>1
      <4>2. Len(path') \in 2 .. Len(path) + 1 /\ Len(path') - 1 = Len(path)
        BY <2>2, <4>1
      <4> QED BY <2>2, <3>2, <4>2 DEF WalkInv
    <3> QED BY <3>1, <3>2
  <2>7. ~ (~foundPath' /\ ~abort')
    BY <2>1, NavSearchAssumption DEF WalkInv, NavSearchAssumption
  <2> QED BY <2>2, <2>3, <2>4, <2>5, <2>6, <2>7 DEF WalkInv
<1>7. CASE EndSearch
  BY <1>7 DEF EndSearch, WalkInv, marks, scores, job
<1>8. CASE LuaStep \/ UNCHANGED vars
  BY <1>8, LuaKeepsSearch DEF searchVars, WalkInv, marks, scores, job
<1> QED
  BY <1>0, <1>1, <1>2, <1>3, <1>4, <1>5, <1>6, <1>7, <1>8 DEF Next, SearchStep

LEMMA SearchInit == Init => SearchInv
<1> SUFFICES ASSUME Init PROVE SearchInv
  OBVIOUS
<1>1. ToSet(opened) = {}
  BY DEF Init, ToSet
<1>2. MarksInv
  BY <1>1 DEF Init, MarksInv, CandidatesListed
<1>3. ControlInv /\ StartInv /\ ParentInv
  BY DEF Init, ControlInv, StartInv, ParentInv, Searched
<1>4. WalkInv
  BY DEF Init, WalkInv
<1> QED BY <1>2, <1>3, <1>4, TypeInit DEF SearchInv

LEMMA SearchStepInv ==
  ASSUME SearchInv, [Next]_vars
  PROVE  SearchInv'
BY TypeStep, ControlStep, MarksStep, StartStep, ParentStep, WalkStep DEF SearchInv

\* The invariant of the search: it holds whatever the script edits, for every
\* graph, heuristic and list of requests.
THEOREM SearchInvariant == Spec => []SearchInv
<1>1. Init => SearchInv
  BY SearchInit
<1>2. SearchInv /\ [Next]_vars => SearchInv'
  BY SearchStepInv
<1> QED BY <1>1, <1>2, PTL DEF Spec

\* TypeOK holds in every behaviour: the handlers keep every variable's type.
THEOREM TypeCorrect == Spec => []TypeOK
<1>1. SearchInv => TypeOK
  BY DEF SearchInv
<1> QED BY <1>1, SearchInvariant, PTL

\* CandidatesListed holds in every behaviour: no node that was opened and not
\* closed is missing from the list, for any list of copies FindAndRemove meets.
THEOREM NoCandidateLost == Spec => []CandidatesListed
<1>1. SearchInv => CandidatesListed
  BY DEF SearchInv, MarksInv
<1> QED BY <1>1, SearchInvariant, PTL

\* ParentsAreClosed holds in every behaviour: the chain of parents stays among
\* the nodes this search closed, whatever the script edits.
THEOREM ChainStaysInSearch == Spec => []ParentsAreClosed
<1>1. SearchInv => ParentsAreClosed
  BY DEF SearchInv, ControlInv, StartInv, ParentInv, ParentsAreClosed
<1> QED BY <1>1, SearchInvariant, PTL

\* NoPathUnlessFound holds in every behaviour: only an abort leaves a partial
\* path.
THEOREM EmptyUnlessFound == Spec => []NoPathUnlessFound
<1>1. SearchInv => NoPathUnlessFound
  BY DEF SearchInv, WalkInv, NoPathUnlessFound
<1> QED BY <1>1, SearchInvariant, PTL

(***************************************************************************)
(* The path: its ends, and that it repeats no node.                        *)
(***************************************************************************)

\* Ranks along the path, for a rank that falls from every node to its parent.
LEMMA RankedPath ==
  ASSUME SearchInv, NEW r \in [Node -> Nat], Ranks(r),
         current \in Node, path # <<>>, NEW j \in 1 .. Len(path)
  PROVE  r[current] < r[path[j]]
<1>0. path \in Seq(Node)
  BY DEF SearchInv, TypeOK
<1>1. path \in Seq(Node) /\ Len(path) \in Nat /\ Len(path) >= 1
  <2>1. Len(path) # 0
    BY <1>0
  <2> QED BY <1>0, <2>1
<1>2. path[1] \in Node /\ path[j] \in Node /\ 1 \in 1 .. Len(path)
  BY <1>1
<1>3. isOpened[path[1]] /\ aStarParent[path[1]] = current /\ current # NULL
  BY <1>2, NavSearchAssumption DEF SearchInv, WalkInv, NavSearchAssumption
<1>4. r[current] < r[path[1]]
  BY <1>2, <1>3 DEF Ranks
<1>5. CASE j = 1
  BY <1>4, <1>5
<1>6. CASE j # 1
  <2>1. 1 < j
    BY <1>1, <1>6
  <2>2. r[path[1]] < r[path[j]]
    BY <2>1, <1>2 DEF Ranks
  <2>3. r[current] \in Nat /\ r[path[1]] \in Nat /\ r[path[j]] \in Nat
    BY <1>2
  <2> QED BY <1>4, <2>2, <2>3
<1> QED BY <1>5, <1>6

LEMMA RankStep ==
  ASSUME SearchInv, SearchInv', RankInv, [Next]_vars
  PROVE  RankInv'
<1> USE DEF SearchInv
<1>9. PICK r \in [Node -> Nat] : Ranks(r)
  BY DEF RankInv
<1>0. ASSUME NEW q \in Requests, NEW h \in BOOLEAN, ReturnEarly(q[1], q[2], h)
      PROVE  RankInv'
  <2>1. isOpened' = [n \in Node |-> FALSE] /\ path' = <<>>
    BY <1>0 DEF ReturnEarly, NewSearch
  <2>2. Ranks(r)'
    BY <2>1 DEF Ranks
  <2> QED BY <2>2 DEF RankInv
<1>1. ASSUME NEW q \in Requests, NEW h \in BOOLEAN, BeginSearch(q[1], q[2], h)
      PROVE  RankInv'
  <2>1. PICK s \in Node :
          /\ isOpened' = [n \in Node |-> n = s] /\ path' = <<>>
          /\ aStarParent' = [aStarParent EXCEPT ![s] = NULL]
    BY <1>1, BeginFacts
  <2>2. aStarParent'[s] = NULL
    BY <2>1 DEF TypeOK
  <2>3. \A n \in Node : isOpened'[n] => aStarParent'[n] = NULL
    BY <2>1, <2>2
  <2>4. \A i, j \in 1 .. Len(path') : i < j => r[path'[i]] < r[path'[j]]
    BY <2>1
  <2>5. Ranks(r)'
    BY <2>3, <2>4 DEF Ranks
  <2> QED BY <2>5 DEF RankInv
<1>2. CASE LeaveLoop
  <2>1. Ranks(r)'
    BY <1>2, <1>9 DEF LeaveLoop, Ranks, marks, scores
  <2> QED BY <2>1 DEF RankInv
<1>3. CASE CloseLowest
  <2>1. Ranks(r)'
    BY <1>3, <1>9 DEF CloseLowest, Ranks, scores
  <2> QED BY <2>1 DEF RankInv
<1>4. CASE OpenConnection
  <2>1. PICK n \in Node :
          /\ current \in Node /\ ~isClosed[n] /\ Open(n) /\ path' = path
    BY <1>4, OpenFacts
  <2>2. isClosed[current] /\ current # n /\ path' = <<>> /\ Searched /\ n # start
    BY <1>4, <2>1 DEF OpenConnection, ControlInv, StartInv
  <2>3. PICK t \in [Node -> Nat] :
          t[n] = r[current] + 1 /\ \A m \in Node \ {n} : t[m] = r[m]
    <3> DEFINE u == [r EXCEPT ![n] = r[current] + 1]
    <3>1. u \in [Node -> Nat] /\ u[n] = r[current] + 1 /\ \A m \in Node \ {n} : u[m] = r[m]
      BY <2>1
    <3> HIDE DEF u
    <3> QED BY <3>1
  <2>4. /\ \A m \in Node : m # n => isOpened'[m] = isOpened[m] /\ aStarParent'[m] = aStarParent[m]
        /\ aStarParent'[n] = current
    BY <2>1 DEF Open, TypeOK
  <2>5. ASSUME NEW m \in Node, isOpened'[m], aStarParent'[m] # NULL
        PROVE  t[aStarParent'[m]] < t[m]
    <3>1. CASE m = n
      <4>1. t[current] = r[current] /\ r[current] \in Nat
        BY <2>1, <2>2, <2>3
      <4> QED BY <3>1, <4>1, <2>3, <2>4
    <3>2. CASE m # n
      <4>1. isOpened[m] /\ aStarParent'[m] = aStarParent[m] /\ aStarParent[m] # NULL
        BY <2>4, <2>5, <3>2
      <4>2. m # start /\ aStarParent[m] \in Node /\ isClosed[aStarParent[m]]
        BY <2>2, <4>1 DEF StartInv, ParentInv, TypeOK
      <4>3. aStarParent[m] # n
        BY <4>2, <2>1
      <4>4. r[aStarParent[m]] < r[m]
        BY <1>9, <4>1 DEF Ranks
      <4>5. t[aStarParent[m]] = r[aStarParent[m]] /\ t[m] = r[m]
        BY <2>3, <3>2, <4>2, <4>3
      <4> QED BY <4>1, <4>4, <4>5
    <3> QED BY <3>1, <3>2
  <2>7. \A i, j \in 1 .. Len(path') : i < j => t[path'[i]] < t[path'[j]]
    BY <2>2
  <2>6. Ranks(t)'
    BY <2>5, <2>7 DEF Ranks
  <2> QED BY <2>3, <2>6 DEF RankInv
<1>5. CASE SkipConnection
  <2>1. Ranks(r)'
    BY <1>5, <1>9 DEF SkipConnection, Ranks, marks, scores
  <2> QED BY <2>1 DEF RankInv
<1>6. CASE WalkBack
  <2>1. /\ current \in Node /\ path \in Seq(Node) /\ isOpened[current]
        /\ path' = Cons(current, path)
        /\ UNCHANGED <<aStarParent, isOpened>>
    BY <1>6 DEF WalkBack, AddToHead, TypeOK, ControlInv, scores, marks
  <2> DEFINE p == Cons(current, path)
  <2>0. current \in Node /\ path \in Seq(Node)
    BY <2>1
  <2>2. Len(p) = Len(path) + 1 /\ Len(path) \in Nat
    BY <2>0, ConsFacts
  <2>3. p[1] = current
    BY <2>0, ConsFacts
  <2>4. \A i \in 2 .. Len(path) + 1 : p[i] = path[i - 1]
    BY <2>0, ConsFacts
  <2>5. path' = p
    BY <2>1
  <2> HIDE DEF p
  <2>6. ASSUME NEW i \in 1 .. Len(p), NEW j \in 1 .. Len(p), i < j
        PROVE  r[p[i]] < r[p[j]]
    <3>1. j \in 2 .. Len(path) + 1 /\ j - 1 \in 1 .. Len(path) /\ path # <<>>
      <4>1. j \in 2 .. Len(path) + 1 /\ j - 1 \in 1 .. Len(path)
        BY <2>2, <2>6
      <4>2. Len(path) # 0
        BY <2>2, <4>1
      <4> QED BY <2>0, <4>1, <4>2
    <3>2. CASE i = 1
      BY <2>1, <2>3, <2>4, <3>1, <3>2, <1>9, RankedPath
    <3>3. CASE i # 1
      <4>1. i \in 2 .. Len(path) + 1 /\ i - 1 \in 1 .. Len(path) /\ i - 1 < j - 1
        BY <2>2, <2>6, <3>3
      <4> QED BY <2>4, <3>1, <4>1, <1>9 DEF Ranks
    <3> QED BY <3>2, <3>3
  <2>7. Ranks(r)'
    BY <2>1, <2>5, <2>6, <1>9 DEF Ranks
  <2> QED BY <2>7 DEF RankInv
<1>7. CASE EndSearch
  <2>1. Ranks(r)'
    BY <1>7, <1>9 DEF EndSearch, Ranks, marks, scores
  <2> QED BY <2>1 DEF RankInv
<1>8. CASE LuaStep \/ UNCHANGED vars
  <2>1. Ranks(r)'
    BY <1>8, <1>9, LuaKeepsSearch DEF searchVars, Ranks, marks, scores
  <2> QED BY <2>1 DEF RankInv
<1> QED
  BY <1>0, <1>1, <1>2, <1>3, <1>4, <1>5, <1>6, <1>7, <1>8 DEF Next, SearchStep

LEMMA RankInit == Init => RankInv
<1> SUFFICES ASSUME Init PROVE RankInv
  OBVIOUS
<1>1. [n \in Node |-> 0] \in [Node -> Nat]
  OBVIOUS
<1>2. path = <<>> /\ \A n \in Node : aStarParent[n] = NULL
  BY DEF Init
<1>3. \A i, j \in 1 .. Len(path) : i < j => FALSE
  BY <1>2
<1>4. Ranks([n \in Node |-> 0])
  BY <1>2, <1>3 DEF Ranks
<1> QED BY <1>1, <1>4 DEF RankInv

\* Parents never form a ring, whatever the script edits.
THEOREM RankInvariant == Spec => []RankInv
<1>1. Init => RankInv
  BY RankInit
<1>2. SearchInv /\ SearchInv' /\ RankInv /\ [Next]_vars => RankInv'
  BY RankStep
<1> QED BY <1>1, <1>2, SearchInvariant, PTL DEF Spec

LEMMA EndsOfFound ==
  ASSUME SearchInv, RankInv, pc = "idle", foundPath
  PROVE  /\ path # <<>> /\ path[1] = start /\ path[Len(path)] = end
         /\ \A i, j \in 1 .. Len(path) : path[i] = path[j] => i = j
<1>1. path \in Seq(Node) /\ Searched /\ current = NULL
  BY DEF SearchInv, TypeOK, ControlInv
<1>2. path # <<>> /\ path[Len(path)] = end
  BY <1>1 DEF SearchInv, WalkInv, Searched
<1>3. Len(path) # 0
  BY <1>1, <1>2
<1>4. Len(path) \in Nat /\ 1 \in 1 .. Len(path) /\ path[1] \in Node
  BY <1>1, <1>3
<1>5. isOpened[path[1]] /\ aStarParent[path[1]] = NULL
  BY <1>1, <1>2, <1>4 DEF SearchInv, WalkInv
<1>6. path[1] = start
  BY <1>1, <1>4, <1>5 DEF SearchInv, ParentInv
<1>7. PICK r \in [Node -> Nat] : Ranks(r)
  BY DEF RankInv
<1>8. ASSUME NEW i \in 1 .. Len(path), NEW j \in 1 .. Len(path), path[i] = path[j]
      PROVE  i = j
  <2>1. ~ (i < j) /\ ~ (j < i)
    <3>1. r[path[i]] = r[path[j]] /\ r[path[i]] \in Nat
      BY <1>1, <1>8
    <3>2. /\ i < j => r[path[i]] < r[path[j]]
          /\ j < i => r[path[j]] < r[path[i]]
      BY <1>7 DEF Ranks
    <3> QED BY <3>1, <3>2
  <2> QED BY <1>4, <2>1
<1> QED BY <1>2, <1>6, <1>8

\* FoundPathHasItsEnds holds in every behaviour: the path a callback receives
\* runs from the start of its job to its end without repeating a node, whatever
\* the script edits while the worker searches.
THEOREM FoundPathEnds == Spec => []FoundPathHasItsEnds
<1>1. SearchInv /\ RankInv => FoundPathHasItsEnds
  BY EndsOfFound DEF FoundPathHasItsEnds
<1> QED BY <1>1, SearchInvariant, RankInvariant, PTL

(***************************************************************************)
(* Searches no script disturbs.                                            *)
(***************************************************************************)

\* Then the graph stays as it is, and the only step of a script is an abort.
LEMMA StillGraph ==
  ASSUME edits = {}, [Next]_vars
  PROVE  UNCHANGED graph
<1>1. ASSUME NEW r \in Requests, NEW h \in BOOLEAN,
             ReturnEarly(r[1], r[2], h) \/ BeginSearch(r[1], r[2], h)
      PROVE  UNCHANGED graph
  BY <1>1 DEF ReturnEarly, BeginSearch, NewSearch
<1>2. CASE SearchStep
  BY <1>2 DEF SearchStep, LeaveLoop, CloseLowest, OpenConnection, SkipConnection,
              WalkBack, EndSearch
<1>3. CASE LuaStep
  BY <1>3 DEF LuaStep, Abort, SetDisabled, ConnectTo, SetPosition, SetHeuristic
<1>4. CASE UNCHANGED vars
  BY <1>4 DEF vars
<1> QED BY <1>1, <1>2, <1>3, <1>4 DEF Next

\* A connection slot that is usable holds a node.
LEMMA UsableNode ==
  ASSUME TypeOK, NEW u \in Node, NEW d \in Dirs, UsableBy(u, d)
  PROVE  conn[u][d] \in Node /\ ~disabled[conn[u][d]]
BY DEF TypeOK, UsableBy

\* What SkipConnection has seen of a usable connection.
LEMMA SkipFacts ==
  ASSUME TypeOK, ControlInv, edits = {}, SkipConnection, UsableBy(current, dir)
  PROVE  /\ current \in Node /\ dir \in Dirs
         /\ LET n == conn[current][dir]
            IN  \/ isClosed[n]
                \/ isOpened[n] /\ ~(scoreG[current] + EuclideanDistance(current, n) < scoreG[n])
<1>1. current \in Node /\ dir \in Dirs
  BY DEF SkipConnection, TypeOK
<1> DEFINE n == conn[current][dir]
<1>2. n \in Node /\ n # NULL /\ ~disabled[n] /\ (hull => <<pos[current], pos[n]>> \notin Blocks)
  BY <1>1, UsableNode DEF UsableBy
<1>3. (hull /\ TRUE \in HullHits(n)) => FALSE
  BY <1>2 DEF HullHits
<1>4. ~ (Considered(n) /\ Improves(n))
  BY <1>3 DEF SkipConnection
<1> QED BY <1>1, <1>2, <1>4 DEF Considered, Improves

LEMMA ReachStep ==
  ASSUME UnreachableInv, [Next]_vars
  PROVE  ReachInv'
<1> USE DEF UnreachableInv, SearchInv
<1>9. UNCHANGED graph
  BY StillGraph
<1> SUFFICES ASSUME NEW u \in Node, NEW d \in Dirs, Expanded(u, d)'
             PROVE  isOpened'[conn[u][d]]
  BY <1>9 DEF ReachInv, graph
<1>a. ASSUME Expanded(u, d) PROVE isOpened[conn[u][d]]
  BY <1>a DEF ReachInv
<1>0. ASSUME NEW r \in Requests, NEW h \in BOOLEAN,
             ReturnEarly(r[1], r[2], h) \/ BeginSearch(r[1], r[2], h)
      PROVE  FALSE
  BY <1>0 DEF ReturnEarly, BeginSearch, NewSearch, ResetClosed, Expanded
<1>2. CASE LeaveLoop
  <2>1. Expanded(u, d)
    BY <1>2 DEF LeaveLoop, Expanded, UsableBy, graph, marks, job
  <2> QED BY <1>2, <1>a, <2>1 DEF LeaveLoop, marks
<1>3. CASE CloseLowest
  <2>1. PICK n \in Node :
          /\ isClosed' = [isClosed EXCEPT ![n] = TRUE]
          /\ pc = "loop" /\ pc' = "expand" /\ current' = n /\ dir' = 0
          /\ UNCHANGED <<isOpened, job>>
    BY <1>3, CloseFacts
  <2>2. u # n
    BY <2>1 DEF Expanded, Dirs
  <2>3. Expanded(u, d)
    BY <1>9, <2>1, <2>2 DEF Expanded, UsableBy, graph, job, TypeOK
  <2> QED BY <1>a, <2>1, <2>3
<1>4. CASE OpenConnection
  <2>1. PICK n \in Node :
          /\ n = conn[current][dir] /\ dir \in Dirs /\ Open(n)
          /\ current' = current /\ isClosed' = isClosed /\ UNCHANGED job
    BY <1>4, OpenFacts
  <2>2. pc = "expand" /\ dir' = dir + 1 /\ pc' = IF dir + 1 = NumDir THEN "loop" ELSE "expand"
    BY <1>4 DEF OpenConnection, NextDir
  <2>3. isOpened' = [isOpened EXCEPT ![n] = TRUE]
    BY <2>1 DEF Open
  <2>4. UsableBy(u, d) /\ isClosed[u]
    BY <1>9, <2>1 DEF Expanded, UsableBy, graph, job
  <2>5. conn[u][d] \in Node
    BY <2>4, UsableNode
  <2>6. CASE u = current /\ d = dir
    BY <2>1, <2>3, <2>6 DEF TypeOK
  <2>7. CASE ~ (u = current /\ d = dir)
    <3>1. u = current => d < dir
      BY <2>1, <2>2, <2>7, NavSearchAssumption DEF Expanded, Dirs, NavSearchAssumption
    <3>2. Expanded(u, d)
      BY <2>4, <3>1 DEF Expanded
    <3> QED BY <1>a, <2>3, <2>5, <3>2 DEF TypeOK
  <2> QED BY <2>6, <2>7
<1>5. CASE SkipConnection
  <2>1. /\ dir \in Dirs /\ pc = "expand" /\ dir' = dir + 1
        /\ pc' = IF dir + 1 = NumDir THEN "loop" ELSE "expand"
        /\ UNCHANGED <<isOpened, isClosed, current, hull>>
    BY <1>5 DEF SkipConnection, NextDir, TypeOK, marks, job
  <2>2. UsableBy(u, d) /\ isClosed[u]
    BY <1>9, <2>1 DEF Expanded, UsableBy, graph
  <2>3. conn[u][d] \in Node
    BY <2>2, UsableNode
  <2>4. CASE u = current /\ d = dir
    <3>1. isClosed[conn[u][d]] \/ isOpened[conn[u][d]]
      BY <1>5, <2>2, <2>4, SkipFacts
    <3> QED BY <2>1, <2>3, <3>1 DEF MarksInv
  <2>5. CASE ~ (u = current /\ d = dir)
    <3>1. u = current => d < dir
      BY <2>1, <2>5, NavSearchAssumption DEF Expanded, Dirs, NavSearchAssumption
    <3>2. Expanded(u, d)
      BY <2>2, <3>1 DEF Expanded
    <3> QED BY <1>a, <2>1, <3>2
  <2> QED BY <2>4, <2>5
<1>6. CASE WalkBack \/ EndSearch
  <2>1. Expanded(u, d) /\ isOpened' = isOpened
    BY <1>6 DEF WalkBack, EndSearch, Expanded, UsableBy, graph, marks, job
  <2> QED BY <1>a, <2>1
<1>8. CASE LuaStep \/ UNCHANGED vars
  <2>1. Expanded(u, d) /\ isOpened' = isOpened
    BY <1>8, <1>9, LuaKeepsSearch DEF searchVars, Expanded, UsableBy, graph, marks, job
  <2> QED BY <1>a, <2>1
<1> QED
  BY <1>0, <1>2, <1>3, <1>4, <1>5, <1>6, <1>8 DEF Next, SearchStep

\* The loop's head leaves at the end node, so that it is never closed.
LEMMA EndStep ==
  ASSUME SearchInv, EndInv, [Next]_vars
  PROVE  EndInv'
<1> USE DEF SearchInv
<1>0. ASSUME NEW r \in Requests, NEW h \in BOOLEAN,
             ReturnEarly(r[1], r[2], h) \/ BeginSearch(r[1], r[2], h)
      PROVE  EndInv'
  <2>1. isClosed' = [n \in Node |-> FALSE] /\ end' = r[2]
    BY <1>0 DEF ReturnEarly, BeginSearch, NewSearch, ResetClosed
  <2>2. r[2] \in Node \cup {NULL}
    BY RequestTypes
  <2> QED BY <2>1, <2>2 DEF EndInv, Searched
<1>3. CASE CloseLowest
  <2>1. PICK n \in Node :
          n # end /\ isClosed' = [isClosed EXCEPT ![n] = TRUE] /\ UNCHANGED job
    BY <1>3, CloseFacts
  <2> QED BY <2>1 DEF EndInv, Searched, job, TypeOK
<1>4. CASE LeaveLoop \/ OpenConnection \/ SkipConnection \/ WalkBack \/ EndSearch
  BY <1>4 DEF LeaveLoop, OpenConnection, SkipConnection, WalkBack, EndSearch,
              EndInv, Searched, marks, job
<1>8. CASE LuaStep \/ UNCHANGED vars
  BY <1>8, LuaKeepsSearch DEF searchVars, EndInv, Searched, marks, job
<1> QED BY <1>0, <1>3, <1>4, <1>8 DEF Next, SearchStep

\* The loop ends without the end node only when its list is empty, and then
\* CandidatesListed says that the end was never opened.
LEMMA EmptyStep ==
  ASSUME UnreachableInv, SearchInv', [Next]_vars
  PROVE  EmptyInv'
<1> USE DEF UnreachableInv, SearchInv
<1>0. ASSUME NEW r \in Requests, NEW h \in BOOLEAN,
             ReturnEarly(r[1], r[2], h) \/ BeginSearch(r[1], r[2], h)
      PROVE  EmptyInv'
  BY <1>0 DEF ReturnEarly, BeginSearch, NewSearch, NothingToSearch, EmptyInv, Searched
<1>2. CASE LeaveLoop
  <2> SUFFICES ASSUME Searched, ~foundPath', ~abort
               PROVE  opened = <<>> /\ ~isOpened[end]
    BY <1>2 DEF LeaveLoop, EmptyInv, Searched, marks, job
  <2>1. FindLowestF = NULL
    BY <1>2 DEF LeaveLoop
  <2>2. opened = <<>>
    BY <2>1, LowestFacts, NavSearchAssumption DEF NavSearchAssumption
  <2>3. ToSet(opened) = {}
    BY <2>2 DEF ToSet
  <2>4. end \in Node
    BY DEF Searched, TypeOK
  <2> QED BY <2>2, <2>3, <2>4 DEF MarksInv, CandidatesListed, EndInv
<1>3. CASE CloseLowest \/ OpenConnection \/ SkipConnection
  BY <1>3 DEF CloseLowest, OpenConnection, SkipConnection, NextDir, EmptyInv
<1>6. CASE WalkBack \/ EndSearch
  BY <1>6 DEF WalkBack, EndSearch, EmptyInv, Searched, marks, job
<1>8. CASE LuaStep \/ UNCHANGED vars
  BY <1>8, LuaKeepsSearch DEF searchVars, EmptyInv, Searched, marks, job
<1> QED BY <1>0, <1>2, <1>3, <1>6, <1>8 DEF Next, SearchStep

LEMMA UnreachableInit == ASSUME Undisturbed PROVE Init => UnreachableInv
<1> SUFFICES ASSUME Init PROVE UnreachableInv
  OBVIOUS
<1>1. edits = {}
  BY DEF Init, Undisturbed
<1>2. ReachInv /\ EndInv /\ EmptyInv
  BY DEF Init, ReachInv, Expanded, EndInv, EmptyInv, Searched
<1> QED BY <1>1, <1>2, SearchInit DEF UnreachableInv

LEMMA UnreachableStep ==
  ASSUME UnreachableInv, [Next]_vars
  PROVE  UnreachableInv'
<1>1. SearchInv' /\ EndInv'
  BY SearchStepInv, EndStep DEF UnreachableInv
<1>2. ReachInv' /\ EmptyInv'
  BY <1>1, ReachStep, EmptyStep
<1>3. edits' = {}
  BY StillGraph DEF UnreachableInv, graph
<1> QED BY <1>1, <1>2, <1>3 DEF UnreachableInv

\* NotFoundMeansUnreachable holds in every behaviour, for every graph, every
\* list of requests and every heuristic, also one that overestimates: when the
\* callback gets false there is no way, unless a script edited the graph
\* meanwhile. The closed nodes are the set no usable connection leaves.
THEOREM FalseMeansNoWay ==
  ASSUME Undisturbed
  PROVE  Spec => []NotFoundMeansUnreachable
<1>1. Init => UnreachableInv
  BY UnreachableInit
<1>2. UnreachableInv /\ [Next]_vars => UnreachableInv'
  BY UnreachableStep
<1>3. UnreachableInv => NotFoundMeansUnreachable
  <2> SUFFICES ASSUME UnreachableInv, pc = "idle", FindPathImmediate = <<>>, ~abort,
                      start # NULL, end \notin {NULL, start}
               PROVE  \E S \in SUBSET Node :
                        /\ start \in S /\ end \notin S
                        /\ \A u \in S, v \in Node : Usable(u, v) => v \in S
    BY DEF NotFoundMeansUnreachable
  <2> USE DEF UnreachableInv, SearchInv
  <2>1. Searched /\ start \in Node /\ end \in Node
    BY DEF Searched, TypeOK
  <2>2. ~foundPath
    BY <2>1 DEF FindPathImmediate, WalkInv, ControlInv
  <2>3. opened = <<>> /\ ~isOpened[end]
    BY <2>1, <2>2 DEF EmptyInv
  <2>4. ToSet(opened) = {}
    BY <2>3 DEF ToSet
  <2>5. \A n \in Node : isOpened[n] => isClosed[n]
    BY <2>4 DEF MarksInv, CandidatesListed
  <2> DEFINE Closed == { n \in Node : isClosed[n] }
  <2>6. start \in Closed /\ end \notin Closed
    BY <2>1, <2>5 DEF StartInv, EndInv
  <2>7. ASSUME NEW u \in Closed, NEW v \in Node, Usable(u, v)
        PROVE  v \in Closed
    <3>1. PICK d \in Dirs : conn[u][d] = v /\ UsableBy(u, d)
      BY <2>7 DEF Usable
    <3>2. Expanded(u, d)
      BY <3>1 DEF Expanded
    <3> QED BY <2>5, <3>1, <3>2 DEF ReachInv
  <2> QED BY <2>6, <2>7
<1> QED BY <1>1, <1>2, <1>3, PTL DEF Spec

(***************************************************************************)
(* Searches with heuristics that suit A*.                                  *)
(***************************************************************************)

\* The graph and what is measured on it stay as they are.
LEMMA StillDistances ==
  ASSUME UNCHANGED graph, UNCHANGED job
  PROVE  /\ \A a, b : EuclideanDistance(a, b)' = EuclideanDistance(a, b)
         /\ \A a : HeuristicDistance(a, end)' = HeuristicDistance(a, end)
         /\ \A u, d : UsableBy(u, d)' = UsableBy(u, d)
         /\ \A u, v : Usable(u, v)' = Usable(u, v)
         /\ Searched' = Searched
BY DEF graph, job, EuclideanDistance, HeuristicDistance, UsableBy, Usable, Searched

LEMMA Consistent ==
  ASSUME ConsistentHeuristics, TypeOK, NEW a \in Node, NEW b \in Node, NEW e \in Node
  PROVE  /\ HeuristicDistance(e, e) = 0
         /\ HeuristicDistance(a, e) <= EuclideanDistance(a, b) + HeuristicDistance(b, e)
<1>1. pos[a] \in Pos /\ pos[b] \in Pos /\ pos[e] \in Pos /\ heuristic \in Heuristics
  BY DEF TypeOK
<1> QED BY <1>1 DEF ConsistentHeuristics, HeuristicDistance, EuclideanDistance

LEMMA SpreadStep ==
  ASSUME UnreachableInv, SpreadInv, [Next]_vars
  PROVE  SpreadInv'
<1>1. UNCHANGED graph
  BY StillGraph DEF UnreachableInv
<1> QED BY <1>1 DEF SpreadInv, EuclideanDistance, graph

\* A step that opens nothing leaves the scores, and those that were opened.
LEMMA ScoreStep ==
  ASSUME UnreachableInv, SpreadInv, ScoreInv, [Next]_vars
  PROVE  ScoreInv'
<1> USE DEF UnreachableInv, SearchInv
<1>9. UNCHANGED graph
  BY StillGraph
<1>a. ASSUME UNCHANGED <<job, scores, isOpened>> PROVE ScoreInv'
  <2>1. \A n \in Node :
          /\ HeuristicDistance(n, end)' = HeuristicDistance(n, end)
          /\ EuclideanDistance(aStarParent[n], n)' = EuclideanDistance(aStarParent[n], n)
          /\ Usable(aStarParent[n], n)' = Usable(aStarParent[n], n)
    BY <1>9, <1>a, StillDistances DEF scores, job, EuclideanDistance, HeuristicDistance,
                                      Usable, UsableBy, graph
  <2> QED BY <1>a, <2>1 DEF ScoreInv, scores, job, Searched
<1>0. ASSUME NEW r \in Requests, NEW h \in BOOLEAN, ReturnEarly(r[1], r[2], h)
      PROVE  ScoreInv'
  BY <1>0 DEF ReturnEarly, NewSearch, NothingToSearch, ScoreInv, Searched
<1>1. ASSUME NEW r \in Requests, NEW h \in BOOLEAN, BeginSearch(r[1], r[2], h)
      PROVE  ScoreInv'
  <2>1. PICK s, e \in Node :
          /\ start' = s /\ end' = e
          /\ isOpened' = [n \in Node |-> n = s]
          /\ scoreG' = [scoreG EXCEPT ![s] = 0]
          /\ scoreF' = [scoreF EXCEPT ![s] = HeuristicDistance(s, e)]
    BY <1>1, BeginFacts
  <2>2. scoreG'[s] = 0 /\ scoreF'[s] = HeuristicDistance(s, e)
    BY <2>1 DEF TypeOK
  <2>3. HeuristicDistance(s, e) \in Nat /\ HeuristicDistance(s, end)' = HeuristicDistance(s, e)
    BY <1>9, <2>1, DistTypes DEF HeuristicDistance, graph
  <2>4. \A n \in Node : isOpened'[n] => n = s
    BY <2>1
  <2>5. scoreF'[s] = scoreG'[s] + HeuristicDistance(s, end)'
    BY <2>2, <2>3
  <2> QED BY <2>1, <2>4, <2>5 DEF ScoreInv
<1>4. CASE OpenConnection
  <2>1. PICK n \in Node :
          /\ n = conn[current][dir]
          /\ current \in Node /\ end \in Node /\ dir \in Dirs
          /\ ~isClosed[n] /\ ~disabled[n] /\ Open(n)
          /\ UNCHANGED job
    BY <1>4, OpenFacts
  <2>2. pc = "expand" /\ Searched /\ isClosed[current] /\ isClosed[start]
    BY <1>4 DEF OpenConnection, ControlInv, StartInv
  <2>3. n # start /\ n # current
    BY <2>1, <2>2
  <2> DEFINE g == scoreG[current] + EuclideanDistance(current, n)
  <2>4. /\ isOpened' = [isOpened EXCEPT ![n] = TRUE]
        /\ aStarParent' = [aStarParent EXCEPT ![n] = current]
        /\ scoreF' = [scoreF EXCEPT ![n] = g + HeuristicDistance(n, end)]
        /\ scoreG' = [scoreG EXCEPT ![n] = g]
    BY <2>1 DEF Open
  <2>5. UsableBy(current, dir)
    <3>1. hull => FALSE \in HullHits(n)
      BY <1>4, <2>1 DEF OpenConnection
    <3>2. hull => <<pos[current], pos[n]>> \notin Blocks
      BY <3>1 DEF HullHits
    <3> QED BY <2>1, <3>2, NavSearchAssumption DEF UsableBy, NavSearchAssumption
  <2>6. Usable(current, n)
    BY <2>1, <2>5 DEF Usable
  <2>7. /\ \A a, b : EuclideanDistance(a, b)' = EuclideanDistance(a, b)
        /\ \A a : HeuristicDistance(a, end)' = HeuristicDistance(a, end)
        /\ \A u, v : Usable(u, v)' = Usable(u, v)
    BY <1>9, <2>1, StillDistances
  <2>8. ASSUME NEW m \in Node, isOpened'[m]
        PROVE  /\ scoreF'[m] = scoreG'[m] + HeuristicDistance(m, end)
               /\ m # start =>
                    /\ aStarParent'[m] # m
                    /\ Usable(aStarParent'[m], m)
                    /\ scoreG'[m] = scoreG'[aStarParent'[m]] + EuclideanDistance(aStarParent'[m], m)
    <3>1. CASE m = n
      <4>1. scoreG'[m] = g /\ scoreF'[m] = g + HeuristicDistance(n, end)
            /\ aStarParent'[m] = current /\ scoreG'[current] = scoreG[current]
        BY <2>1, <2>3, <2>4, <3>1 DEF TypeOK
      <4> QED BY <2>3, <2>6, <3>1, <4>1
    <3>2. CASE m # n
      <4>1. /\ isOpened[m] /\ scoreG'[m] = scoreG[m] /\ scoreF'[m] = scoreF[m]
            /\ aStarParent'[m] = aStarParent[m]
        BY <2>4, <2>8, <3>2 DEF TypeOK
      <4>2. scoreF[m] = scoreG[m] + HeuristicDistance(m, end)
        BY <2>2, <4>1 DEF ScoreInv
      <4>3. ASSUME m # start
            PROVE  /\ aStarParent[m] # m
                   /\ Usable(aStarParent[m], m)
                   /\ scoreG[m] = scoreG'[aStarParent[m]] + EuclideanDistance(aStarParent[m], m)
        <5>1. /\ aStarParent[m] # m
              /\ Usable(aStarParent[m], m)
              /\ scoreG[m] = scoreG[aStarParent[m]] + EuclideanDistance(aStarParent[m], m)
          BY <2>2, <4>1, <4>3 DEF ScoreInv
        <5>2. aStarParent[m] \in Node /\ isClosed[aStarParent[m]]
          BY <2>2, <4>1, <4>3 DEF ParentInv, TypeOK
        <5>3. scoreG'[aStarParent[m]] = scoreG[aStarParent[m]]
          BY <2>1, <2>4, <5>2 DEF TypeOK
        <5> QED BY <5>1, <5>3
      <4> QED BY <4>1, <4>2, <4>3
    <3> QED BY <3>1, <3>2
  <2>9. start' = start /\ end' = end
    BY <2>1 DEF job
  <2>10. \A m \in Node : HeuristicDistance(m, end)' = HeuristicDistance(m, end)
    BY <2>7
  <2>11. \A m \in Node :
           /\ EuclideanDistance(aStarParent[m], m)' = EuclideanDistance(aStarParent'[m], m)
           /\ Usable(aStarParent[m], m)' = Usable(aStarParent'[m], m)
    BY <1>9, <2>1 DEF EuclideanDistance, Usable, UsableBy, graph, job
  <2> QED BY <2>8, <2>9, <2>10, <2>11 DEF ScoreInv
<1>2. CASE LeaveLoop \/ CloseLowest \/ SkipConnection \/ WalkBack \/ EndSearch
  BY <1>2, <1>a DEF LeaveLoop, CloseLowest, SkipConnection, WalkBack, EndSearch, marks
<1>8. CASE LuaStep \/ UNCHANGED vars
  BY <1>8, <1>a, LuaKeepsSearch DEF searchVars, marks
<1> QED
  BY <1>0, <1>1, <1>2, <1>4, <1>8 DEF Next, SearchStep

\* Only the start may have an F of 0, and it is listed alone: so FindLowestF
\* returns the lowest of all nodes of its list.
LEMMA LowestOfAll ==
  ASSUME UnreachableInv, SpreadInv, ScoreInv, Searched, opened # <<>>
  PROVE  \A o \in ToSet(opened) : scoreF[FindLowestF] <= scoreF[o]
<1> USE DEF UnreachableInv, SearchInv
<1>1. opened \in Seq(Node) /\ Len(opened) \in Nat /\ DOMAIN opened = 1 .. Len(opened)
  BY DEF TypeOK
<1>2. ASSUME NEW i \in 1 .. Len(opened) PROVE i \in Candidates
  <2>1. CASE isClosed[start]
    <3> SUFFICES ASSUME NEW j \in i .. Len(opened) - 1 PROVE scoreF[opened[j]] # 0
      BY <1>1 DEF Candidates
    <3>1. j \in 1 .. Len(opened)
      BY <1>1
    <3> DEFINE n == opened[j]
    <3>2. n \in Node /\ n \in ToSet(opened)
      BY <1>1, <3>1 DEF ToSet
    <3> HIDE DEF n
    <3>3. isOpened[n] /\ n # start
      BY <2>1, <3>2 DEF MarksInv, StartInv
    <3>4. /\ aStarParent[n] \in Node /\ aStarParent[n] # n
          /\ scoreG[n] = scoreG[aStarParent[n]] + EuclideanDistance(aStarParent[n], n)
          /\ scoreF[n] = scoreG[n] + HeuristicDistance(n, end)
      BY <3>2, <3>3 DEF ScoreInv, ParentInv, TypeOK
    <3>5. EuclideanDistance(aStarParent[n], n) > 0 /\ EuclideanDistance(aStarParent[n], n) \in Nat
      BY <3>2, <3>4, DistTypes DEF SpreadInv
    <3>6. HeuristicDistance(n, end) \in Nat /\ scoreG[aStarParent[n]] \in Nat
      BY <3>2, <3>4, DistTypes DEF TypeOK, Searched
    <3>7. scoreF[n] # 0
      BY <3>4, <3>5, <3>6
    <3> QED BY <3>7 DEF n
  <2>2. CASE ~isClosed[start]
    <3>1. opened = <<start>>
      BY <2>2 DEF StartInv
    <3>2. i = 1 /\ Len(opened) = 1
      BY <3>1
    <3> QED BY <1>1, <3>2 DEF Candidates
  <2> QED BY <2>1, <2>2
<1> QED BY <1>1, <1>2, LowestFacts DEF ToSet

\* The F of what is expanded never falls.
LEMMA OrderStep ==
  ASSUME ConsistentHeuristics, UnreachableInv, SpreadInv, ScoreInv, OrderInv, [Next]_vars
  PROVE  OrderInv'
<1> USE DEF UnreachableInv, SearchInv
<1>0. ASSUME NEW r \in Requests, NEW h \in BOOLEAN,
             ReturnEarly(r[1], r[2], h) \/ BeginSearch(r[1], r[2], h)
      PROVE  OrderInv'
  BY <1>0 DEF ReturnEarly, BeginSearch, NewSearch, ResetClosed, OrderInv
<1>3. CASE CloseLowest
  <2>1. PICK n \in Node :
          /\ n = FindLowestF /\ n \in ToSet(opened) /\ opened # <<>>
          /\ isClosed' = [isClosed EXCEPT ![n] = TRUE]
          /\ ToSet(opened') \subseteq ToSet(opened)
          /\ pc = "loop" /\ current' = n
          /\ UNCHANGED scores
    BY <1>3, CloseFacts
  <2>2. \A o \in ToSet(opened) : scoreF[n] <= scoreF[o]
    BY <2>1, LowestOfAll DEF ControlInv
  <2>3. \A c \in Node : isClosed'[c] => isClosed[c] \/ c = n
    BY <2>1 DEF TypeOK
  <2>4. scoreF' = scoreF /\ scoreF[n] <= scoreF[n]
    BY <2>1, <2>2 DEF scores
  <2>5. \A c \in Node : isClosed[c] => scoreF[c] <= scoreF[n]
    BY <2>1 DEF OrderInv
  <2>6. ASSUME NEW c \in Node, isClosed'[c]
        PROVE  /\ \A o \in ToSet(opened') : scoreF'[c] <= scoreF'[o]
               /\ scoreF'[c] <= scoreF'[current']
    <3>1. CASE c = n
      BY <2>1, <2>2, <2>4, <3>1
    <3>2. CASE c # n
      <4>1. isClosed[c]
        BY <2>3, <2>6, <3>2
      <4> QED BY <2>1, <2>4, <2>5, <4>1 DEF OrderInv
    <3> QED BY <3>1, <3>2
  <2> QED BY <2>6 DEF OrderInv
<1>4. CASE OpenConnection
  <2>1. PICK n \in Node :
          /\ current \in Node /\ end \in Node
          /\ ~isClosed[n] /\ Open(n)
          /\ current' = current /\ isClosed' = isClosed
    BY <1>4, OpenFacts
  <2>2. pc = "expand" /\ Searched /\ isClosed[current] /\ isOpened[current] /\ n # current
    BY <1>4, <2>1 DEF OpenConnection, ControlInv, MarksInv
  <2> DEFINE f == scoreG[current] + EuclideanDistance(current, n) + HeuristicDistance(n, end)
  <2>3. scoreF' = [scoreF EXCEPT ![n] = f] /\ opened' = Append(opened, n)
    BY <2>1 DEF Open
  <2>4. scoreF[current] <= f
    <3>1. scoreF[current] = scoreG[current] + HeuristicDistance(current, end)
      BY <2>1, <2>2 DEF ScoreInv
    <3>2. HeuristicDistance(current, end) <= EuclideanDistance(current, n) + HeuristicDistance(n, end)
      BY <2>1, Consistent
    <3>3. /\ scoreG[current] \in Nat /\ EuclideanDistance(current, n) \in Nat
          /\ HeuristicDistance(n, end) \in Nat /\ HeuristicDistance(current, end) \in Nat
      BY <2>1, DistTypes DEF TypeOK
    <3> QED BY <3>1, <3>2, <3>3
  <2>5. f \in Nat /\ scoreF \in [Node -> Nat]
    <3>1. /\ scoreG[current] \in Nat /\ EuclideanDistance(current, n) \in Nat
          /\ HeuristicDistance(n, end) \in Nat
      BY <2>1, DistTypes DEF TypeOK
    <3> QED BY <3>1 DEF TypeOK
  <2> HIDE DEF f
  <2>6. ToSet(opened') = ToSet(opened) \cup {n} /\ ToSet(opened) \subseteq Node
    <3>1. opened \in Seq(Node)
      BY DEF TypeOK
    <3> QED BY <2>3, <3>1, AppendFacts DEF ToSet
  <2>7. ASSUME NEW c \in Node, isClosed[c]
        PROVE  /\ \A o \in ToSet(opened') : scoreF'[c] <= scoreF'[o]
               /\ scoreF'[c] <= scoreF'[current]
    <3>1. scoreF'[c] = scoreF[c] /\ scoreF'[current] = scoreF[current] /\ scoreF'[n] = f
      BY <2>1, <2>2, <2>3, <2>5, <2>7
    <3>2. scoreF[c] <= scoreF[current]
      BY <2>2, <2>7 DEF OrderInv
    <3>3. scoreF[c] <= f
      BY <2>1, <2>4, <2>5, <3>2
    <3>4. \A o \in ToSet(opened) : o # n => scoreF'[o] = scoreF[o]
      BY <2>3, <2>5, <2>6
    <3> QED BY <2>6, <2>7, <3>1, <3>2, <3>3, <3>4 DEF OrderInv
  <2> QED BY <2>1, <2>7 DEF OrderInv
<1>2. CASE LeaveLoop \/ SkipConnection \/ WalkBack \/ EndSearch
  BY <1>2 DEF LeaveLoop, SkipConnection, NextDir, WalkBack, EndSearch, OrderInv, marks, scores
<1>8. CASE LuaStep \/ UNCHANGED vars
  BY <1>8, LuaKeepsSearch DEF searchVars, OrderInv, marks, scores
<1> QED
  BY <1>0, <1>2, <1>3, <1>4, <1>8 DEF Next, SearchStep

\* A closed neighbour of the node being expanded is no worse over it.
LEMMA ClosedIsCheapest ==
  ASSUME ConsistentHeuristics, UnreachableInv, ScoreInv, OrderInv, Searched,
         pc = "expand", NEW v \in Node, isClosed[v]
  PROVE  scoreG[v] <= scoreG[current] + EuclideanDistance(current, v)
<1> USE DEF UnreachableInv, SearchInv
<1>1. current \in Node /\ end \in Node /\ isOpened[current] /\ isOpened[v]
  BY DEF TypeOK, Searched, MarksInv, ControlInv
<1>2. scoreF[v] <= scoreF[current]
  BY DEF OrderInv
<1>3. /\ scoreF[v] = scoreG[v] + HeuristicDistance(v, end)
      /\ scoreF[current] = scoreG[current] + HeuristicDistance(current, end)
  BY <1>1 DEF ScoreInv
<1>4. HeuristicDistance(current, end) <= EuclideanDistance(current, v) + HeuristicDistance(v, end)
  BY <1>1, Consistent
<1>5. /\ scoreG[v] \in Nat /\ scoreG[current] \in Nat
  BY <1>1 DEF TypeOK
<1>6. /\ EuclideanDistance(current, v) \in Nat /\ HeuristicDistance(v, end) \in Nat
      /\ HeuristicDistance(current, end) \in Nat
  BY <1>1, DistTypes
<1> QED BY <1>2, <1>3, <1>4, <1>5, <1>6

LEMMA CheapestStep ==
  ASSUME ConsistentHeuristics, UnreachableInv, ScoreInv, OrderInv, CheapestInv, [Next]_vars
  PROVE  CheapestInv'
<1> USE DEF UnreachableInv, SearchInv
<1>9. UNCHANGED graph
  BY StillGraph
<1>b. \A a, b : EuclideanDistance(a, b)' = EuclideanDistance(a, b)
  BY <1>9 DEF EuclideanDistance, graph
<1> SUFFICES ASSUME NEW u \in Node, NEW d \in Dirs, Expanded(u, d)'
             PROVE  scoreG'[conn[u][d]] <= scoreG'[u] + EuclideanDistance(u, conn[u][d])
  <2>1. \A u \in Node, d \in Dirs :
          EuclideanDistance(u, conn[u][d])' = EuclideanDistance(u, conn[u][d])
    BY <1>9 DEF EuclideanDistance, graph
  <2> QED BY <1>9, <2>1 DEF CheapestInv, graph
<1> DEFINE v == conn[u][d]
<1>a. ASSUME Expanded(u, d) PROVE scoreG[v] <= scoreG[u] + EuclideanDistance(u, v)
  BY <1>a DEF CheapestInv
<1>0. ASSUME NEW r \in Requests, NEW h \in BOOLEAN,
             ReturnEarly(r[1], r[2], h) \/ BeginSearch(r[1], r[2], h)
      PROVE  FALSE
  BY <1>0 DEF ReturnEarly, BeginSearch, NewSearch, ResetClosed, Expanded
<1>2. CASE LeaveLoop
  <2>1. Expanded(u, d) /\ scoreG' = scoreG
    BY <1>2 DEF LeaveLoop, Expanded, UsableBy, graph, marks, job, scores
  <2> QED BY <1>a, <2>1
<1>3. CASE CloseLowest
  <2>1. PICK n \in Node :
          /\ isClosed' = [isClosed EXCEPT ![n] = TRUE]
          /\ pc = "loop" /\ pc' = "expand" /\ current' = n /\ dir' = 0
          /\ UNCHANGED <<scores, job>>
    BY <1>3, CloseFacts
  <2>2. u # n
    BY <2>1 DEF Expanded, Dirs
  <2>3. Expanded(u, d)
    BY <1>9, <2>1, <2>2 DEF Expanded, UsableBy, graph, job, TypeOK
  <2> QED BY <1>a, <2>1, <2>3 DEF scores
<1>4. CASE OpenConnection
  <2>1. PICK n \in Node :
          /\ n = conn[current][dir] /\ current \in Node /\ dir \in Dirs
          /\ ~isClosed[n] /\ Improves(n) /\ Open(n)
          /\ current' = current /\ isClosed' = isClosed /\ UNCHANGED job
    BY <1>4, OpenFacts
  <2>2. pc = "expand" /\ dir' = dir + 1 /\ pc' = IF dir + 1 = NumDir THEN "loop" ELSE "expand"
    BY <1>4 DEF OpenConnection, NextDir
  <2>3. scoreG' = [scoreG EXCEPT ![n] = scoreG[current] + EuclideanDistance(current, n)]
    BY <2>1 DEF Open
  <2>4. UsableBy(u, d) /\ isClosed[u]
    BY <1>9, <2>1 DEF Expanded, UsableBy, graph, job
  <2>5. v \in Node
    BY <2>4, UsableNode
  <2>6. u # n /\ scoreG'[u] = scoreG[u]
    BY <2>1, <2>3, <2>4 DEF TypeOK
  <2>7. /\ scoreG[u] \in Nat /\ scoreG[v] \in Nat
        /\ scoreG[current] \in Nat
    BY <2>1, <2>5 DEF TypeOK
  <2>8. EuclideanDistance(u, v) \in Nat /\ EuclideanDistance(current, n) \in Nat
    BY <2>1, <2>5, DistTypes
  <2>9. CASE u = current /\ d = dir
    <3>1. v = n
      BY <2>1, <2>9
    <3>2. scoreG'[v] = scoreG[u] + EuclideanDistance(u, v)
      BY <2>3, <2>9, <3>1 DEF TypeOK
    <3> QED BY <2>6, <2>7, <2>8, <3>2
  <2>10. CASE ~ (u = current /\ d = dir)
    <3>1. u = current => d < dir
      BY <2>1, <2>2, <2>10, NavSearchAssumption DEF Expanded, Dirs, NavSearchAssumption
    <3>2. Expanded(u, d)
      BY <2>4, <3>1 DEF Expanded
    <3>3. scoreG[v] <= scoreG[u] + EuclideanDistance(u, v) /\ isOpened[v]
      BY <1>a, <3>2 DEF ReachInv
    <3>4. CASE v = n
      <4>1. scoreG[current] + EuclideanDistance(current, n) < scoreG[n]
        BY <2>1, <3>3, <3>4 DEF Improves
      <4>2. scoreG'[v] = scoreG[current] + EuclideanDistance(current, n)
        BY <2>3, <3>4, <2>5 DEF TypeOK
      <4>3. scoreG'[v] < scoreG[v]
        BY <3>4, <4>1, <4>2
      <4>4. scoreG'[v] \in Nat
        BY <2>7, <2>8, <4>2
      <4>5. scoreG'[v] <= scoreG[u] + EuclideanDistance(u, v)
        <5> HIDE DEF v
        <5> QED BY <2>7, <2>8, <3>3, <4>3, <4>4
      <4> QED BY <2>6, <4>5
    <3>5. CASE v # n
      <4>1. scoreG'[v] = scoreG[v]
        BY <2>3, <2>5, <3>5 DEF TypeOK
      <4> QED BY <2>6, <3>3, <4>1
    <3> QED BY <3>4, <3>5
  <2> QED BY <2>9, <2>10
<1>5. CASE SkipConnection
  <2>1. /\ dir \in Dirs /\ current \in Node /\ pc = "expand" /\ dir' = dir + 1
        /\ pc' = IF dir + 1 = NumDir THEN "loop" ELSE "expand"
        /\ UNCHANGED <<scoreG, isClosed, current, hull>>
    BY <1>5 DEF SkipConnection, NextDir, TypeOK, marks, job, scores
  <2>2. UsableBy(u, d) /\ isClosed[u]
    BY <1>9, <2>1 DEF Expanded, UsableBy, graph
  <2>3. v \in Node
    BY <2>2, UsableNode
  <2>4. CASE u = current /\ d = dir
    <3>1. Searched
      BY <2>1 DEF ControlInv
    <3>2. isClosed[v] \/ ~(scoreG[current] + EuclideanDistance(current, v) < scoreG[v])
      BY <1>5, <2>2, <2>4, SkipFacts
    <3>3. scoreG[v] \in Nat /\ scoreG[current] \in Nat /\ EuclideanDistance(current, v) \in Nat
      BY <2>1, <2>3, DistTypes DEF TypeOK
    <3>4. scoreG[v] <= scoreG[current] + EuclideanDistance(current, v)
      <4> HIDE DEF v
      <4>1. CASE isClosed[v]
        BY <2>1, <2>3, <3>1, <4>1, ClosedIsCheapest
      <4>2. CASE ~ isClosed[v]
        BY <3>2, <3>3, <4>2
      <4> QED BY <4>1, <4>2
    <3> QED BY <2>1, <2>4, <3>4
  <2>5. CASE ~ (u = current /\ d = dir)
    <3>1. u = current => d < dir
      BY <2>1, <2>5, NavSearchAssumption DEF Expanded, Dirs, NavSearchAssumption
    <3>2. Expanded(u, d)
      BY <2>2, <3>1 DEF Expanded
    <3> QED BY <1>a, <2>1, <3>2
  <2> QED BY <2>4, <2>5
<1>6. CASE WalkBack \/ EndSearch
  <2>1. Expanded(u, d) /\ scoreG' = scoreG
    BY <1>6 DEF WalkBack, EndSearch, Expanded, UsableBy, graph, marks, job, scores
  <2> QED BY <1>a, <2>1
<1>8. CASE LuaStep \/ UNCHANGED vars
  <2>1. Expanded(u, d) /\ scoreG' = scoreG
    BY <1>8, <1>9, LuaKeepsSearch DEF searchVars, Expanded, UsableBy, graph, marks, job, scores
  <2> QED BY <1>a, <2>1
<1> QED
  BY <1>0, <1>2, <1>3, <1>4, <1>5, <1>6, <1>8 DEF Next, SearchStep

LEMMA FoundStep ==
  ASSUME UnreachableInv, SpreadInv, ScoreInv, FoundInv, [Next]_vars
  PROVE  FoundInv'
<1> USE DEF UnreachableInv, SearchInv
<1>0. ASSUME NEW r \in Requests, NEW h \in BOOLEAN,
             ReturnEarly(r[1], r[2], h) \/ BeginSearch(r[1], r[2], h)
      PROVE  FoundInv'
  BY <1>0 DEF ReturnEarly, BeginSearch, NewSearch, FoundInv
<1>2. CASE LeaveLoop
  <2> SUFFICES ASSUME foundPath'
               PROVE  \A n \in ToSet(opened) : scoreF[end] <= scoreF[n]
    BY <1>2 DEF LeaveLoop, FoundInv, marks, scores, job
  <2>1. FindLowestF = end /\ Searched
    BY <1>2 DEF LeaveLoop, ControlInv
  <2>2. opened # <<>>
    BY <2>1 DEF FindLowestF, Searched
  <2> QED BY <2>1, <2>2, LowestOfAll
<1>3. CASE CloseLowest \/ OpenConnection \/ SkipConnection
  BY <1>3 DEF CloseLowest, OpenConnection, SkipConnection, NextDir, FoundInv
<1>6. CASE WalkBack \/ EndSearch
  BY <1>6 DEF WalkBack, EndSearch, FoundInv, marks, scores, job
<1>8. CASE LuaStep \/ UNCHANGED vars
  BY <1>8, LuaKeepsSearch DEF searchVars, FoundInv, marks, scores, job
<1> QED BY <1>0, <1>2, <1>3, <1>6, <1>8 DEF Next, SearchStep

LEMMA OptimalInit ==
  ASSUME Undisturbed, DistinctPlaces
  PROVE  Init => OptimalInv
<1> SUFFICES ASSUME Init PROVE OptimalInv
  OBVIOUS
<1>1. PICK w \in Worlds : pos = w.pos
  BY DEF Init
<1>2. SpreadInv
  BY <1>1 DEF DistinctPlaces, SpreadInv, EuclideanDistance
<1>3. ScoreInv /\ OrderInv /\ CheapestInv /\ FoundInv
  BY DEF Init, ScoreInv, OrderInv, CheapestInv, Expanded, FoundInv, Searched
<1> QED BY <1>2, <1>3, UnreachableInit DEF OptimalInv

LEMMA OptimalStep ==
  ASSUME ConsistentHeuristics, OptimalInv, [Next]_vars
  PROVE  OptimalInv'
BY UnreachableStep, SpreadStep, ScoreStep, OrderStep, CheapestStep, FoundStep DEF OptimalInv

\* The invariant of a search no script disturbs, with heuristics that suit A*.
THEOREM OptimalInvariant ==
  ASSUME Undisturbed, DistinctPlaces, ConsistentHeuristics
  PROVE  Spec => []OptimalInv
<1>1. Init => OptimalInv
  BY OptimalInit
<1>2. OptimalInv /\ [Next]_vars => OptimalInv'
  BY OptimalStep
<1> QED BY <1>1, <1>2, PTL DEF Spec

\* The found path, with its scores.
LEMMA PathIsWalk ==
  ASSUME OptimalInv, RankInv, pc = "idle", foundPath, NEW i \in 1 .. Len(path) - 1
  PROVE  /\ Usable(path[i], path[i + 1])
         /\ scoreG[path[i + 1]] = scoreG[path[i]] + EuclideanDistance(path[i], path[i + 1])
<1> USE DEF OptimalInv, UnreachableInv, SearchInv
<1>1. path \in Seq(Node) /\ Len(path) \in Nat /\ Searched
  BY DEF TypeOK, ControlInv
<1>2. /\ i \in 1 .. Len(path) /\ i + 1 \in 1 .. Len(path) /\ 1 \in 1 .. Len(path)
      /\ i + 1 # 1
  BY <1>1
<1>3. /\ path[1] = start
      /\ \A j, k \in 1 .. Len(path) : path[j] = path[k] => j = k
  BY EndsOfFound
<1>4. path[i] \in Node /\ path[i + 1] \in Node /\ path[i + 1] # start
  BY <1>1, <1>2, <1>3
<1>5. isOpened[path[i + 1]] /\ aStarParent[path[i + 1]] = path[i]
  BY <1>2 DEF WalkInv
<1> QED BY <1>1, <1>4, <1>5 DEF ScoreInv

LEMMA PotentialTypes ==
  ASSUME OptimalInv, Searched, NEW n \in Node
  PROVE  /\ scoreG[n] \in Nat /\ scoreG[end] \in Nat /\ HeuristicDistance(n, end) \in Nat
         /\ Potential(n) \in Int
         /\ Potential(n) <= scoreG[end] - HeuristicDistance(n, end)
         /\ isOpened[n] => Potential(n) <= scoreG[n]
<1> USE DEF OptimalInv, UnreachableInv, SearchInv
<1>1. end \in Node
  BY DEF Searched, TypeOK
<1>2. scoreG[n] \in Nat /\ scoreG[end] \in Nat /\ HeuristicDistance(n, end) \in Nat
  BY <1>1, DistTypes DEF TypeOK
<1> QED BY <1>2 DEF Potential

\* No usable connection raises the potential by more than its length.
LEMMA PotentialIsTight ==
  ASSUME ConsistentHeuristics, OptimalInv, pc = "idle", foundPath,
         NEW u \in Node, NEW v \in Node, Usable(u, v)
  PROVE  Potential(v) <= Potential(u) + EuclideanDistance(u, v)
<1> USE DEF OptimalInv, UnreachableInv, SearchInv
<1>1. Searched /\ end \in Node /\ isOpened[end]
  BY DEF ControlInv, Searched, TypeOK, WalkInv
<1>2. /\ scoreG[u] \in Nat /\ scoreG[v] \in Nat /\ scoreG[end] \in Nat
      /\ HeuristicDistance(u, end) \in Nat /\ HeuristicDistance(v, end) \in Nat
      /\ Potential(u) \in Int /\ Potential(v) \in Int
      /\ Potential(v) <= scoreG[end] - HeuristicDistance(v, end)
  BY <1>1, PotentialTypes
<1>3. /\ EuclideanDistance(u, v) \in Nat
      /\ HeuristicDistance(u, end) <= EuclideanDistance(u, v) + HeuristicDistance(v, end)
  BY <1>1, DistTypes, Consistent
<1>4. CASE Potential(u) = scoreG[end] - HeuristicDistance(u, end)
  BY <1>2, <1>3, <1>4
<1>5. CASE Potential(u) # scoreG[end] - HeuristicDistance(u, end)
  <2>1. isOpened[u] /\ Potential(u) = scoreG[u] /\ scoreG[u] < scoreG[end] - HeuristicDistance(u, end)
    BY <1>2, <1>5 DEF Potential
  <2>2. CASE isClosed[u]
    <3>1. PICK d \in Dirs : conn[u][d] = v /\ UsableBy(u, d)
      BY DEF Usable
    <3>2. Expanded(u, d)
      BY <2>2, <3>1 DEF Expanded
    <3>3. isOpened[v] /\ scoreG[v] <= scoreG[u] + EuclideanDistance(u, v)
      BY <3>1, <3>2 DEF ReachInv, CheapestInv
    <3>4. Potential(v) <= scoreG[v]
      BY <1>1, <3>3, PotentialTypes
    <3> QED BY <1>2, <1>3, <2>1, <3>3, <3>4
  <2>3. CASE ~isClosed[u]
    <3>1. u \in ToSet(opened)
      BY <2>1, <2>3 DEF MarksInv, CandidatesListed
    <3>2. scoreF[end] <= scoreF[u]
      BY <3>1 DEF FoundInv
    <3>3. /\ scoreF[end] = scoreG[end] + HeuristicDistance(end, end)
          /\ scoreF[u] = scoreG[u] + HeuristicDistance(u, end)
      BY <1>1, <2>1 DEF ScoreInv
    <3>4. HeuristicDistance(end, end) = 0
      BY <1>1, Consistent
    <3> QED BY <1>2, <2>1, <3>2, <3>3, <3>4
  <2> QED BY <2>2, <2>3
<1> QED BY <1>4, <1>5

LEMMA PotentialEnds ==
  ASSUME ConsistentHeuristics, OptimalInv, pc = "idle", foundPath
  PROVE  Potential(start) = 0 /\ Potential(end) = scoreG[end] /\ scoreG[start] = 0
<1> USE DEF OptimalInv, UnreachableInv, SearchInv
<1>1. Searched /\ start \in Node /\ end \in Node /\ isOpened[end] /\ end # start
  BY DEF ControlInv, Searched, TypeOK, WalkInv
<1>2. isOpened[start] /\ isClosed[start] /\ scoreG[start] = 0
  BY <1>1 DEF StartInv
<1>3. end \in ToSet(opened)
  BY <1>1 DEF EndInv, MarksInv, CandidatesListed
<1>4. scoreF[start] <= scoreF[end]
  BY <1>1, <1>2, <1>3 DEF OrderInv
<1>5. /\ scoreF[start] = scoreG[start] + HeuristicDistance(start, end)
      /\ scoreF[end] = scoreG[end] + HeuristicDistance(end, end)
  BY <1>1, <1>2 DEF ScoreInv
<1>6. HeuristicDistance(end, end) = 0
  BY <1>1, Consistent
<1>7. scoreG[end] \in Nat /\ HeuristicDistance(start, end) \in Nat
  BY <1>1, PotentialTypes
<1>8. Potential(start) = 0
  BY <1>2, <1>4, <1>5, <1>6, <1>7 DEF Potential
<1>9. Potential(end) = scoreG[end]
  BY <1>1, <1>6, <1>7 DEF Potential
<1> QED BY <1>2, <1>8, <1>9

\* FoundPathIsShortest holds in every behaviour, for every graph no two nodes
\* of which are at one place and every consistent heuristic: opening nodes
\* again when a shorter way turns up, several copies of a node in the list, and
\* never looking at a closed node again lose no shorter path.
THEOREM FoundIsShortest ==
  ASSUME Undisturbed, DistinctPlaces, ConsistentHeuristics
  PROVE  Spec => []FoundPathIsShortest
<1>1. Spec => []OptimalInv
  BY OptimalInvariant
<1>2. OptimalInv /\ RankInv => FoundPathIsShortest
  BY PathIsWalk, PotentialIsTight, PotentialEnds DEF FoundPathIsShortest
<1> QED BY <1>1, <1>2, RankInvariant, PTL

============================================================================
