--------------------------- MODULE LibraryProofs ---------------------------
(***************************************************************************)
(* Proofs about libraries that scripts call, each a module of its own:     *)
(* GsApi, LuaLoad, Cares, Lfs, LuaIo, StringTables, EngineSpew, LpegKeys   *)
(* and LuaObjects.                                                         *)
(***************************************************************************)
EXTENDS GsApi, LuaLoad, Cares, Lfs, LuaIo, StringTables, EngineSpew, LpegKeys,
        LuaObjects, SeqLemmas, FiniteSetTheorems

(***************************************************************************)
(* GsApi.                                                                  *)
(***************************************************************************)

\* While a hook runs, start and start2 are those of its lhook.
GsInv ==
  /\ top \in Nat /\ start \in Nat /\ start2 \in Nat
  /\ inHook = "none" => top = BASE
  /\ inHook # "none" => start = BASE /\ start2 = BASE + 4 /\ top >= start2
  /\ crashed \subseteq Unchecked

LEMMA HookBalances ==
  ASSUME GsInv, lhook_call
  PROVE  top' = BASE /\ inHook' = "none" /\ UNCHANGED <<start, start2, crashed>>
<1>1. /\ inHook # "none" /\ inHook' = "none" /\ UNCHANGED <<start, start2, crashed>>
  BY DEF lhook_call
<1>2. /\ start = BASE /\ start2 = BASE + 4 /\ top >= start2
      /\ top \in Nat /\ BASE \in Nat
  BY <1>1, GsAssumption DEF GsInv
<1>3. PICK raised \in BOOLEAN :
        LET left == top - Taken + IF raised THEN 1 ELSE 0
            ended == left - Popped(left)
        IN top' = IF raised THEN ended - Popped(ended) ELSE ended
  BY DEF lhook_call
<1> DEFINE left == top - Taken + IF raised THEN 1 ELSE 0
           ended == left - Popped(left)
<1>4. top - Taken = BASE + 2
  BY <1>2 DEF Taken
<1>5. left = BASE + 2 + (IF raised THEN 1 ELSE 0)
  BY <1>2, <1>4
<1>6. left \in Nat /\ left > BASE
  BY <1>2, <1>5
<1> HIDE DEF left
<1>7. ended = BASE
  BY <1>2, <1>6 DEF Popped
<1>8. ended - Popped(ended) = BASE
  BY <1>2, <1>7 DEF Popped
<1>9. top' = IF raised THEN ended - Popped(ended) ELSE ended
  BY <1>3 DEF left
<1> QED BY <1>1, <1>7, <1>8, <1>9

LEMMA GsStep ==
  ASSUME GsInv, [GsNext]_gsVars
  PROVE  GsInv'
<1>1. ASSUME NEW e \in Events, Steam_On(e)
      PROVE  GsInv'
  <2>1. inHook = "none" /\ TellScript(e) /\ crashed' = crashed
    BY <1>1 DEF Steam_On
  <2>2. e # "none" /\ Arguments[e] \in Nat /\ BASE \in Nat
    BY GsAssumption
  <2>3. CASE lhook(e)
    BY <2>1, <2>2, <2>3 DEF GsInv, lhook
  <2>4. CASE UNCHANGED <<top, start, start2, inHook>>
    BY <2>1, <2>4 DEF GsInv
  <2> QED BY <2>1, <2>3, <2>4 DEF TellScript
<1>2. CASE lhook_call
  <2>1. top' = BASE /\ inHook' = "none" /\ UNCHANGED <<start, start2, crashed>>
    BY <1>2, HookBalances
  <2> QED BY <2>1, GsAssumption DEF GsInv
<1>3. ASSUME NEW f \in Checked \cup Unchecked, GsCall(f)
      PROVE  GsInv'
  BY <1>3 DEF GsCall, GSAPI, Uses, GsInv
<1>4. CASE GsOpen \/ GsClose \/ SteamStarts
  BY <1>4 DEF GsOpen, GsClose, SteamStarts, GsInv
<1>5. CASE UNCHANGED gsVars
  BY <1>5 DEF gsVars, GsInv
<1> QED
  BY <1>1, <1>2, <1>3, <1>4, <1>5, GsAssumption DEF GsNext, Steam_OnClient, Steam_OnServer

\* EventsLeaveNothing: for any events, arguments and functions, a hook that returns
\* or raises leaves the Lua stack as it was, and no function that asks first uses
\* an interface that is not there.
THEOREM EventsBalance == GsSpec => []EventsLeaveNothing
<1>1. GsInit => GsInv
  BY GsAssumption DEF GsInit, GsInv
<1>2. GsInv /\ [GsNext]_gsVars => GsInv'
  BY GsStep
<1>3. GsInv => EventsLeaveNothing
  BY DEF GsInv, EventsLeaveNothing
<1> QED BY <1>1, <1>2, <1>3, PTL DEF GsSpec

(***************************************************************************)
(* LuaLoad.                                                                *)
(***************************************************************************)

\* A library is open as often as its handle says.
Handled ==
  /\ handle2 \in [Libraries -> {"none", "null", "open"}]
  /\ opened2 \in [Libraries -> Nat]
  /\ \A x \in Libraries : opened2[x] = IF handle2[x] = "open" THEN 1 ELSE 0

LEMMA RegisterKeeps ==
  ASSUME Handled, NEW x, ll_register(x)
  PROVE  Handled'
<1>1. CASE UNCHANGED <<handle2, opened2>>
  BY <1>1 DEF Handled
<1>2. CASE /\ handle2[x] # "open"
           /\ handle2' = [handle2 EXCEPT ![x] = "open"]
           /\ opened2' = [opened2 EXCEPT ![x] = @ + 1]
  <2>1. CASE x \in Libraries
    <3>1. opened2[x] = 0
      BY <1>2, <2>1 DEF Handled
    <3>2. /\ handle2'[x] = "open" /\ opened2'[x] = 1
          /\ \A y \in Libraries : y # x => handle2'[y] = handle2[y] /\ opened2'[y] = opened2[y]
      BY <1>2, <2>1, <3>1 DEF Handled
    <3>3. handle2' \in [Libraries -> {"none", "null", "open"}]
      BY <1>2 DEF Handled
    <3>4. opened2' \in [Libraries -> Nat]
      BY <1>2, <2>1, <3>1 DEF Handled
    <3> QED BY <3>2, <3>3, <3>4 DEF Handled
  <2>2. CASE x \notin Libraries
    <3>1. handle2' = handle2 /\ opened2' = opened2
      BY <1>2, <2>2 DEF Handled
    <3> QED BY <3>1 DEF Handled
  <2> QED BY <2>1, <2>2
<1>3. CASE /\ handle2[x] # "open"
           /\ handle2' = [handle2 EXCEPT ![x] = "null"] /\ opened2' = opened2
  BY <1>3 DEF Handled
<1> QED BY <1>1, <1>2, <1>3 DEF ll_register

\* What require2 would load is due; so require2 runs no body that is not.
DueModules ==
  /\ DOMAIN loaded = Modules
  /\ \A m \in Modules : loaded[m] \in {"nil", "false"} => m \in due
  /\ ~again

LEMMA LoadStep ==
  ASSUME DueModules, Handled, [LoadNext]_loadVars
  PROVE  DueModules' /\ Handled'
<1>1. ASSUME NEW m \in Modules, ll_require(m)
      PROVE  DueModules' /\ Handled'
  <2>1. CASE Fail
    <3>1. DueModules'
      BY <2>1 DEF Fail, DueModules
    <3>2. (UNCHANGED <<handle2, opened2>>) \/ ll_register(Library[m])
      BY <1>1, LoadAssumption DEF ll_require
    <3>3. (UNCHANGED <<handle2, opened2>>) => Handled'
      BY DEF Handled
    <3> QED BY <3>1, <3>2, <3>3, RegisterKeeps
  <2>2. CASE RunBody(m) /\ ~Truthy(m)
    <3>1. /\ loaded' = [loaded EXCEPT ![m] = "sentinel"]
          /\ due' = due \ {m} /\ again' = (again \/ m \notin due)
      BY <2>2 DEF RunBody, Marked
    <3>2. m \in due
      BY <2>2 DEF Truthy, DueModules
    <3>3. DueModules'
      BY <3>1, <3>2 DEF DueModules
    <3>4. (UNCHANGED <<handle2, opened2>>) \/ ll_register(Library[m])
      BY <1>1, LoadAssumption DEF ll_require
    <3>5. (UNCHANGED <<handle2, opened2>>) => Handled'
      BY DEF Handled
    <3> QED BY <3>3, <3>4, <3>5, RegisterKeeps
  <2>3. Fail \/ (RunBody(m) /\ ~Truthy(m))
    BY <1>1, LoadAssumption DEF ll_require
  <2> QED BY <2>1, <2>2, <2>3
<1>2. ASSUME NEW m \in Modules, ll_module(m)
      PROVE  DueModules' /\ Handled'
  BY <1>2 DEF ll_module, DueModules, Handled
<1>3. ASSUME NEW m \in Modules, Forget(m)
      PROVE  DueModules' /\ Handled'
  BY <1>3 DEF Forget, DueModules, Handled
<1>4. CASE ll_loadlib
  <2>1. PICK x \in Libraries : ll_register(x)
    BY <1>4 DEF ll_loadlib
  <2>2. Handled'
    BY <2>1, RegisterKeeps
  <2> QED BY <1>4, <2>2 DEF ll_loadlib, DueModules
<1>5. CASE Return
  <2> DEFINE m == running[Len(running)]
  <2>1. PICK value \in {"nil", "false", "table", "true"} :
          /\ loaded' = [loaded EXCEPT ![m] = Returned(m, value)]
          /\ due' = IF Returned(m, value) \in {"nil", "false"} THEN due \cup {m} ELSE due
    BY <1>5 DEF Return
  <2>2. UNCHANGED <<handle2, opened2, again>>
    BY <1>5 DEF Return
  <2> HIDE DEF m
  <2> QED BY <2>1, <2>2 DEF DueModules, Handled
<1>6. CASE BodyRaises
  BY <1>6 DEF BodyRaises, Fail, DueModules, Handled
<1>7. CASE CloseLibraries
  <2>1. /\ opened2' = [x \in Libraries |-> IF handle2[x] = "open" THEN opened2[x] - 1 ELSE opened2[x]]
        /\ handle2' = [x \in Libraries |-> "none"]
        /\ loaded' = [m \in Modules |-> "nil"]
        /\ due' = Modules /\ again' = again
    BY <1>7 DEF CloseLibraries
  <2>2. \A x \in Libraries : opened2'[x] = 0
    BY <2>1 DEF Handled
  <2>3. Handled'
    BY <2>1, <2>2 DEF Handled
  <2> QED BY <2>1, <2>3 DEF DueModules
<1>8. CASE UNCHANGED loadVars
  BY <1>8 DEF loadVars, DueModules, Handled
<1> QED BY <1>1, <1>2, <1>3, <1>4, <1>5, <1>6, <1>7, <1>8 DEF LoadNext

\* ModulesRunOnce: for any modules that require each other in any way, and any
\* depth, a body runs only when its entry is nil or false, and an open library is
\* open once.
THEOREM BodiesRunOnce == LoadSpec => []ModulesRunOnce
<1>1. LoadInit => DueModules /\ Handled
  BY DEF LoadInit, DueModules, Handled
<1>2. DueModules /\ Handled /\ [LoadNext]_loadVars => DueModules' /\ Handled'
  BY LoadStep
<1>3. DueModules /\ Handled => ModulesRunOnce
  BY DEF DueModules, Handled, ModulesRunOnce
<1> QED BY <1>1, <1>2, <1>3, PTL DEF LoadSpec

(***************************************************************************)
(* Cares, of a script without the habits the module's comment names.       *)
(***************************************************************************)

CaresTypeOK ==
  /\ channel \in {"none", "open", "destroyed"} /\ L \in {"NULL", "main"}
  /\ lookup \in [Lookups -> {"new", "pending", "ended"}]
  /\ begun \in Seq(Lookups)
  /\ told \in [Lookups -> Seq(Lookups)]
  /\ frames \in Seq([fn : {"__Call", "Callback", "gmod13_close"}, left : {0}, at : Nat])

\* There is a state as long as a lookup may end; the script holds the name of what
\* is pending; and what has ended was told once.
AnswersInv ==
  /\ channel = "open" => L = "main"
  /\ channel = "destroyed" => frames = <<>>
  /\ \A q \in Lookups : lookup[q] = "pending" => channel # "none"
                                              /\ q \in namesHeld /\ askedName[q] = q
  /\ DOMAIN askedName = Lookups
  /\ \A q \in Lookups : told[q] = IF lookup[q] = "ended" THEN <<q>> ELSE <<>>
  /\ returned \subseteq {"nfds"}

\* What is pending has one query.
QueriesInv ==
  /\ \A i, k \in DOMAIN begun : begun[i] = begun[k] => i = k
  /\ \A i \in DOMAIN begun : lookup[begun[i]] # "new"
  /\ \A q \in Pending : \E i \in DOMAIN begun : begun[i] = q

\* A close is outermost; beneath a __Call nothing tells the end of a query.
StackInv ==
  /\ \A f \in DOMAIN frames : frames[f].fn = "gmod13_close" => f = 1
  /\ \A f, g \in DOMAIN frames :
       f < g /\ frames[g].fn = "__Call" => frames[f].fn = "Callback" /\ frames[f].at = 0

\* The query a close comes to next is pending, and no other that is, unless it was
\* begun too late, is before it.
CloseInv ==
  /\ Closing /\ frames[1].at # 0
       => frames[1].at \in DOMAIN begun /\ lookup[begun[frames[1].at]] = "pending"
  /\ Closing => \A i \in DOMAIN begun :
       lookup[begun[i]] = "pending" =>
         begun[i] \in late \/ (frames[1].at # 0 /\ frames[1].at <= i)
  /\ channel = "destroyed" => Pending \subseteq late

CaresInv == CaresTypeOK /\ AnswersInv /\ QueriesInv /\ StackInv /\ CloseInv

CallFrames == [fn : {"__Call", "Callback", "gmod13_close"}, left : {0}, at : Nat]

LEMMA NextIs ==
  ASSUME begun \in Seq(Lookups), NEW i \in Nat
  PROVE  \/ NextQuery(i) = 0 /\ \A j \in Listed : j <= i
         \/ NextQuery(i) \in Listed /\ i < NextQuery(i) /\ \A j \in Listed : i < j => NextQuery(i) <= j
<1> DEFINE later == {j \in Listed : i < j}
<1>1. Listed \subseteq Nat
  BY DEF Listed
<1>2. CASE later = {}
  BY <1>1, <1>2 DEF NextQuery
<1>3. CASE later # {}
  <2>1. \E m \in later : \A n \in later : m <= n
    BY <1>1, <1>3, LeastNat
  <2>2. NextQuery(i) = CHOOSE j \in later : \A k \in later : j <= k
    BY <1>3 DEF NextQuery
  <2>3. NextQuery(i) \in later /\ \A n \in later : NextQuery(i) <= n
    BY <2>1, <2>2
  <2> QED BY <2>3
<1> QED BY <1>2, <1>3

LEMMA NextIsNat ==
  ASSUME begun \in Seq(Lookups), NEW i \in Nat
  PROVE  NextQuery(i) \in Nat
<1>1. 0 \in Nat /\ \A j \in Listed : j \in Nat
  BY DEF Listed
<1>2. NextQuery(i) = 0 \/ NextQuery(i) \in Listed
  BY NextIs
<1> QED BY <1>1, <1>2

\* In ares_process and ares_destroy, the queries are those of what is pending.
LEMMA ListedArePending ==
  ASSUME CaresInv, frames = <<>> \/ Innermost("__Call") \/ Innermost("gmod13_close")
  PROVE  Listed = {i \in DOMAIN begun : lookup[begun[i]] = "pending"}
<1>1. Len(frames) \in Nat /\ DOMAIN frames = 1..Len(frames)
  BY DEF CaresInv, CaresTypeOK
<1>2. \A i \in DOMAIN begun : i \in Nat /\ i # 0 /\ begun[i] \in Lookups
  BY DEF CaresInv, CaresTypeOK
<1>3. \A f \in DOMAIN frames : frames[f].fn = "Callback" => frames[f].at = 0
  <2> SUFFICES ASSUME NEW f \in DOMAIN frames, frames[f].fn = "Callback" PROVE frames[f].at = 0
    OBVIOUS
  <2>1. frames # <<>> /\ Len(frames) \in DOMAIN frames
    BY <1>1
  <2>2. CASE frames[Len(frames)].fn = "__Call"
    <3>1. f # Len(frames)
      BY <2>2
    <3> QED BY <1>1, <2>1, <2>2, <3>1 DEF CaresInv, StackInv
  <2>3. CASE frames[Len(frames)].fn = "gmod13_close"
    <3>1. f = 1 /\ Len(frames) = 1
      BY <1>1, <2>1, <2>3 DEF CaresInv, StackInv
    <3> QED BY <2>3, <3>1
  <2> QED BY <2>1, <2>2, <2>3 DEF Innermost
<1> QED BY <1>2, <1>3 DEF Listed, Pending

\* What c-ares does when it ends a lookup that has not ended.
LEMMA AnswerKeeps ==
  ASSUME CaresInv, L = "main", channel = "open", NEW q \in Lookups, lookup[q] # "ended",
         NEW at \in Nat, NEW below \in Seq(CallFrames), Answer(q, q, at, below),
         Len(below) = Len(frames),
         \A f \in 1..Len(frames) :
           \/ below[f] = frames[f]
           \/ below[f].fn = "gmod13_close" /\ frames[f].fn = "gmod13_close",
         UNCHANGED <<channel, L, begun, namesHeld, returned>>,
         askedName' = askedName \/ askedName' = [askedName EXCEPT ![q] = q]
  PROVE  /\ CaresTypeOK' /\ AnswersInv' /\ QueriesInv' /\ StackInv'
         /\ lookup' = [lookup EXCEPT ![q] = "ended"]
         /\ Len(frames') = Len(frames) + 1 /\ frames'[Len(frames) + 1].fn = "Callback"
         /\ \A f \in 1..Len(frames) : frames'[f] = below[f]
<1>1. /\ lookup' = [lookup EXCEPT ![q] = "ended"]
      /\ told' = [told EXCEPT ![q] = Append(@, q)]
      /\ frames' = Append(below, Frame("Callback", at))
  BY DEF Answer
<1>2. told[q] = <<>>
  BY DEF CaresInv, CaresTypeOK, AnswersInv
<1>3. Append(told[q], q) = <<q>> /\ <<q>> \in Seq(Lookups)
  <2>1. Append(<<>>, q) = <<q>>
    OBVIOUS
  <2> QED BY <1>2, <2>1
<1>4. Frame("Callback", at) \in CallFrames /\ Frame("Callback", at).fn = "Callback"
  BY DEF Frame, CallFrames
<1>5. /\ frames' \in Seq(CallFrames) /\ Len(frames') = Len(frames) + 1
      /\ \A f \in 1..Len(frames) : frames'[f] = below[f]
      /\ frames'[Len(frames) + 1].fn = "Callback"
  <2> HIDE DEF CallFrames, Frame
  <2> QED BY <1>1, <1>4, AppendProperties
<1>6. told' = [told EXCEPT ![q] = <<q>>]
  BY <1>1, <1>3
<1>7. CaresTypeOK'
  <2>1. told' \in [Lookups -> Seq(Lookups)]
    BY <1>3, <1>6 DEF CaresInv, CaresTypeOK
  <2>2. lookup' \in [Lookups -> {"new", "pending", "ended"}]
    BY <1>1 DEF CaresInv, CaresTypeOK
  <2>3. /\ frames' \in Seq([fn : {"__Call", "Callback", "gmod13_close"}, left : {0}, at : Nat])
        /\ channel' \in {"none", "open", "destroyed"} /\ L' \in {"NULL", "main"}
        /\ begun' \in Seq(Lookups)
    BY <1>5 DEF CaresInv, CaresTypeOK, CallFrames
  <2> QED BY <2>1, <2>2, <2>3 DEF CaresTypeOK
<1>8. \A r \in Lookups : told'[r] = IF lookup'[r] = "ended" THEN <<r>> ELSE <<>>
  BY <1>1, <1>6 DEF CaresInv, CaresTypeOK, AnswersInv
<1>9. /\ DOMAIN askedName' = Lookups
      /\ \A r \in Lookups : lookup'[r] = "pending" => lookup[r] = "pending" /\ r # q
      /\ \A r \in Lookups : r # q => askedName'[r] = askedName[r]
  BY <1>1 DEF CaresInv, CaresTypeOK, AnswersInv
<1>10. AnswersInv'
  BY <1>8, <1>9 DEF CaresInv, AnswersInv
<1>11. QueriesInv'
  <2>1. \A i \in DOMAIN begun : begun[i] \in Lookups
    BY DEF CaresInv, CaresTypeOK
  <2>2. \A i \in DOMAIN begun : lookup'[begun[i]] # "new"
    BY <1>1, <2>1 DEF CaresInv, CaresTypeOK, QueriesInv
  <2>3. Pending' \subseteq Pending
    BY <1>9 DEF Pending
  <2> QED BY <2>2, <2>3 DEF CaresInv, QueriesInv
<1>12. StackInv'
  <2>1. Len(frames) \in Nat /\ DOMAIN frames = 1..Len(frames) /\ DOMAIN frames' = 1..(Len(frames) + 1)
    BY <1>5 DEF CaresInv, CaresTypeOK
  <2>2. \A f \in 1..Len(frames) : /\ frames'[f].fn = frames[f].fn
                                  /\ frames[f].fn = "Callback" => frames'[f] = frames[f]
    BY <1>5
  <2>3. ASSUME NEW f \in 1..(Len(frames) + 1), frames'[f].fn = "gmod13_close" PROVE f = 1
    <3>1. f \in 1..Len(frames)
      BY <1>5, <2>1, <2>3
    <3> QED BY <2>1, <2>2, <2>3, <3>1 DEF CaresInv, StackInv
  <2>4. ASSUME NEW f \in 1..(Len(frames) + 1), NEW g \in 1..(Len(frames) + 1),
               f < g, frames'[g].fn = "__Call"
        PROVE  frames'[f].fn = "Callback" /\ frames'[f].at = 0
    <3>1. g \in 1..Len(frames)
      BY <1>5, <2>1, <2>4
    <3>2. f \in 1..Len(frames)
      BY <2>1, <2>4, <3>1
    <3>3. frames[f].fn = "Callback" /\ frames[f].at = 0
      BY <2>1, <2>2, <2>4, <3>1, <3>2 DEF CaresInv, StackInv
    <3> QED BY <2>2, <3>2, <3>3
  <2> QED BY <2>1, <2>3, <2>4 DEF StackInv
<1> QED BY <1>1, <1>5, <1>7, <1>10, <1>11, <1>12

\* A function that returns: the frames beneath it stay.
LEMMA PopKeeps ==
  ASSUME CaresInv, frames # <<>>, frames[Len(frames)].fn # "gmod13_close",
         frames' \in Seq(CallFrames), Len(frames') = Len(frames) - 1,
         \A f \in 1..(Len(frames) - 1) : frames'[f] = frames[f],
         UNCHANGED <<channel, L, lookup, begun, askedName, namesHeld, late, told>>,
         returned' \subseteq {"nfds"}
  PROVE  CaresInv'
<1>1. Len(frames) \in Nat \ {0} /\ DOMAIN frames = 1..Len(frames)
  BY DEF CaresInv, CaresTypeOK
<1>2. DOMAIN frames' = 1..(Len(frames) - 1)
  BY <1>1
<1>3. CaresTypeOK'
  BY DEF CaresInv, CaresTypeOK, CallFrames
<1>4. AnswersInv'
  BY DEF CaresInv, AnswersInv
<1>5. QueriesInv' /\ Pending' = Pending
  BY DEF CaresInv, QueriesInv, Pending
<1>6. StackInv'
  <2>1. \A f \in DOMAIN frames' : f \in DOMAIN frames /\ frames'[f] = frames[f]
    BY <1>1, <1>2
  <2> QED BY <2>1 DEF CaresInv, StackInv
<1>7. CloseInv'
  <2>1. ASSUME Closing' PROVE Closing /\ frames'[1] = frames[1]
    <3>1. frames' # <<>> /\ Len(frames') # 0
      BY <2>1 DEF Closing
    <3>2. 1 \in 1..(Len(frames) - 1)
      BY <1>1, <3>1
    <3> QED BY <2>1, <3>1, <3>2 DEF Closing
  <2> QED BY <1>5, <2>1 DEF CaresInv, CloseInv
<1> QED BY <1>3, <1>4, <1>5, <1>6, <1>7 DEF CaresInv

LEMMA FramesPop ==
  ASSUME NEW S, NEW s \in Seq(S), s # <<>>
  PROVE  /\ Len(s) \in Nat \ {0} /\ s[Len(s)] \in S
         /\ SubSeq(s, 1, Len(s) - 1) \in Seq(S) /\ Len(SubSeq(s, 1, Len(s) - 1)) = Len(s) - 1
         /\ \A i \in 1..(Len(s) - 1) : SubSeq(s, 1, Len(s) - 1)[i] = s[i]
<1>3. PICK n \in Nat : Len(s) = n + 1
  BY FrontFacts
<1>1. Len(s) \in Nat \ {0}
  BY <1>3
<1>2. s[Len(s)] \in S
  BY <1>1
<1>4. \A i \in 1..n : s[i] \in S
  BY <1>3
<1>5. /\ SubSeq(s, 1, n) \in Seq(S) /\ Len(SubSeq(s, 1, n)) = n
      /\ \A i \in 1..n : SubSeq(s, 1, n)[i] = s[i]
  BY <1>3, <1>4
<1>6. Len(s) - 1 = n
  BY <1>3
<1> QED BY <1>1, <1>2, <1>5, <1>6

LEMMA ResolveKeeps ==
  ASSUME CaresHabits = {}, CaresInv, NEW q \in Lookups, CaresResolve("main", q)
  PROVE  CaresInv'
<1>1. channel = "open" /\ L = "main" /\ lookup[q] = "new" /\ q \in namesHeld
  BY DEF CaresResolve, CaresInv, AnswersInv
<1>2. /\ askedName' = [askedName EXCEPT ![q] = q]
      /\ UNCHANGED <<channel, L, namesHeld, returned>>
  BY <1>1 DEF CaresResolve
<1>3. begun \in Seq(Lookups) /\ Len(begun) \in Nat /\ \A i \in 1..Len(begun) : begun[i] \in Lookups
  BY DEF CaresInv, CaresTypeOK
<1>4. \A i \in 1..Len(begun) : begun[i] # q
  BY <1>1, <1>3 DEF CaresInv, QueriesInv
<1>5. CASE /\ lookup' = [lookup EXCEPT ![q] = "pending"]
           /\ begun' = Append(begun, q)
           /\ late' = IF Closing /\ frames[1].at = 0 THEN late \cup {q} ELSE late
           /\ UNCHANGED <<told, frames>>
  <2>1. /\ begun' \in Seq(Lookups) /\ Len(begun') = Len(begun) + 1
        /\ begun'[Len(begun) + 1] = q /\ \A i \in 1..Len(begun) : begun'[i] = begun[i]
    BY <1>3, <1>5, AppendProperties
  <2>2. CaresTypeOK'
    BY <1>2, <1>5, <2>1 DEF CaresInv, CaresTypeOK
  <2>3. lookup'[q] = "pending" /\ \A r \in Lookups : r # q => lookup'[r] = lookup[r]
    BY <1>5 DEF CaresInv, CaresTypeOK
  <2>4. AnswersInv'
    <3>1. DOMAIN askedName' = Lookups
      BY <1>2 DEF CaresInv, AnswersInv
    <3>2. askedName'[q] = q /\ \A r \in Lookups : r # q => askedName'[r] = askedName[r]
      BY <1>2 DEF CaresInv, AnswersInv
    <3>3. \A r \in Lookups : told'[r] = IF lookup'[r] = "ended" THEN <<r>> ELSE <<>>
      <4>1. told' = told /\ \A r \in Lookups : lookup'[r] = "ended" <=> lookup[r] = "ended"
        BY <1>1, <1>5, <2>3
      <4> QED BY <4>1 DEF CaresInv, AnswersInv
    <3>4. \A r \in Lookups : lookup'[r] = "pending" => r \in namesHeld /\ askedName'[r] = r
      BY <1>1, <2>3, <3>2 DEF CaresInv, AnswersInv
    <3> QED BY <1>1, <1>2, <1>5, <3>1, <3>3, <3>4 DEF CaresInv, AnswersInv
  <2>5. Pending' = Pending \cup {q}
    BY <2>3 DEF Pending
  <2>6. DOMAIN begun = 1..Len(begun) /\ DOMAIN begun' = 1..(Len(begun) + 1)
    BY <1>3, <2>1
  <2>7. QueriesInv'
    <3>1. \A i \in DOMAIN begun' : i \in DOMAIN begun \/ i = Len(begun) + 1
      BY <1>3, <2>6
    <3>2. \A i, k \in DOMAIN begun' : begun'[i] = begun'[k] => i = k
      BY <1>4, <2>1, <2>6, <3>1 DEF CaresInv, QueriesInv
    <3>3. \A i \in DOMAIN begun' : lookup'[begun'[i]] # "new"
      BY <1>3, <1>4, <2>1, <2>3, <2>6, <3>1 DEF CaresInv, QueriesInv
    <3>4. \A r \in Pending' : \E i \in DOMAIN begun' : begun'[i] = r
      <4>1. Len(begun) + 1 \in DOMAIN begun' /\ DOMAIN begun \subseteq DOMAIN begun'
        BY <1>3, <2>6
      <4> QED BY <2>1, <2>5, <2>6, <4>1 DEF CaresInv, QueriesInv
    <3> QED BY <3>2, <3>3, <3>4 DEF QueriesInv
  <2>8. StackInv'
    BY <1>5 DEF CaresInv, StackInv
  <2>9. CloseInv'
    <3>1. Closing' = Closing /\ frames' = frames
      BY <1>5 DEF Closing
    <3>2. ASSUME Closing, frames[1].at # 0
          PROVE  frames[1].at \in DOMAIN begun' /\ lookup'[begun'[frames[1].at]] = "pending"
      <4>1. frames[1].at \in 1..Len(begun) /\ lookup[begun[frames[1].at]] = "pending"
        BY <2>6, <3>2 DEF CaresInv, CloseInv
      <4> QED BY <1>3, <1>4, <2>1, <2>3, <2>6, <4>1
    <3>3. ASSUME Closing, NEW i \in DOMAIN begun', lookup'[begun'[i]] = "pending"
          PROVE  begun'[i] \in late' \/ (frames[1].at # 0 /\ frames[1].at <= i)
      <4>1. CASE i \in 1..Len(begun)
        <5>1. lookup[begun[i]] = "pending" /\ begun'[i] = begun[i]
          BY <1>3, <1>4, <2>1, <2>3, <3>3, <4>1
        <5>2. late \subseteq late'
          BY <1>5
        <5> QED BY <2>6, <3>3, <4>1, <5>1, <5>2 DEF CaresInv, CloseInv
      <4>2. CASE i = Len(begun) + 1
        <5>1. CASE frames[1].at = 0
          BY <1>5, <2>1, <3>3, <4>2, <5>1
        <5>2. CASE frames[1].at # 0
          <6>1. frames[1].at \in 1..Len(begun)
            BY <2>6, <3>3, <5>2 DEF CaresInv, CloseInv
          <6> QED BY <1>3, <4>2, <5>2, <6>1
        <5> QED BY <5>1, <5>2
      <4> QED BY <1>3, <2>6, <3>3, <4>1, <4>2
    <3> QED BY <1>1, <1>2, <3>1, <3>2, <3>3 DEF CloseInv
  <2> QED BY <2>2, <2>4, <2>7, <2>8, <2>9 DEF CaresInv
<1>6. CASE Answer(q, q, 0, frames) /\ UNCHANGED <<begun, late>>
  <2>1. frames \in Seq(CallFrames) /\ Len(frames) \in Nat
    BY DEF CaresInv, CaresTypeOK, CallFrames
  <2>2. /\ CaresTypeOK' /\ AnswersInv' /\ QueriesInv' /\ StackInv'
        /\ lookup' = [lookup EXCEPT ![q] = "ended"]
        /\ Len(frames') = Len(frames) + 1 /\ frames'[Len(frames) + 1].fn = "Callback"
        /\ \A f \in 1..Len(frames) : frames'[f] = frames[f]
    BY <1>1, <1>2, <1>6, <2>1, AnswerKeeps
  <2>3. CloseInv'
    <3>1. ASSUME Closing' PROVE Closing /\ frames'[1] = frames[1]
      <4>1. Len(frames) # 0
        BY <2>2, <3>1 DEF Closing
      <4>2. 1 \in 1..Len(frames) /\ frames # <<>>
        BY <2>1, <4>1
      <4> QED BY <2>2, <3>1, <4>2 DEF Closing
    <3>2. \A i \in DOMAIN begun : lookup'[begun[i]] = lookup[begun[i]]
      BY <1>3, <1>4, <2>2 DEF CaresInv, CaresTypeOK
    <3> QED BY <1>1, <1>2, <1>6, <3>1, <3>2 DEF CaresInv, CloseInv
  <2> QED BY <2>2, <2>3 DEF CaresInv
<1> QED BY <1>1, <1>5, <1>6 DEF CaresResolve

LEMMA CloseAnswersKeeps ==
  ASSUME CaresHabits = {}, CaresInv, CloseAnswers
  PROVE  CaresInv'
<1> DEFINE k == frames[1].at
           next == NextQuery(k)
           below == [frames EXCEPT ![1].at = next]
<1>1. /\ frames \in Seq(CallFrames) /\ Len(frames) \in Nat /\ DOMAIN frames = 1..Len(frames)
      /\ begun \in Seq(Lookups) /\ DOMAIN begun = 1..Len(begun) /\ Len(begun) \in Nat
  BY DEF CaresInv, CaresTypeOK, CallFrames
<1>2. Len(frames) = 1 /\ frames[1].fn = "gmod13_close" /\ frames # <<>> /\ Closing
  <2>1. frames # <<>> /\ frames[Len(frames)].fn = "gmod13_close"
    BY DEF CloseAnswers, Innermost
  <2>2. Len(frames) \in DOMAIN frames
    BY <1>1, <2>1
  <2> QED BY <2>1, <2>2 DEF CaresInv, StackInv, Closing
<1>3. k \in DOMAIN begun /\ lookup[begun[k]] = "pending" /\ begun[k] \in Lookups /\ k \in Nat
  <2>1. k # 0
    BY DEF CloseAnswers
  <2> QED BY <1>1, <1>2, <2>1 DEF CaresInv, CloseInv
<1>4. channel = "open" /\ L = "main" /\ NameRead(begun[k]) = begun[k]
  BY <1>2, <1>3 DEF CaresInv, CaresTypeOK, AnswersInv, NameRead
<1>5. /\ Answer(begun[k], begun[k], k, below)
      /\ UNCHANGED <<channel, L, begun, askedName, namesHeld, late, returned>>
  BY <1>4 DEF CloseAnswers
<1>6. Listed = {i \in DOMAIN begun : lookup[begun[i]] = "pending"}
  BY <1>2, ListedArePending DEF CloseAnswers
<1>7. next \in Nat
  BY <1>1, <1>3, NextIsNat
<1>8. \/ next = 0 /\ \A j \in Listed : j <= k
      \/ next \in Listed /\ k < next /\ \A j \in Listed : k < j => next <= j
  BY <1>1, <1>3, NextIs
<1> HIDE DEF next
<1>9. /\ below \in Seq(CallFrames) /\ Len(below) = 1
      /\ below[1].fn = "gmod13_close" /\ below[1].at = next
  <2>2. frames[1] \in CallFrames /\ 1 \in DOMAIN frames
    BY <1>1, <1>2
  <2>1. [frames[1] EXCEPT !.at = next] \in CallFrames
    BY <1>7, <2>2 DEF CallFrames
  <2>3. below = [frames EXCEPT ![1] = [frames[1] EXCEPT !.at = next]]
    OBVIOUS
  <2>4. below[1] = [frames[1] EXCEPT !.at = next]
    BY <2>2, <2>3
  <2>5. [frames[1] EXCEPT !.at = next].at = next /\ [frames[1] EXCEPT !.at = next].fn = "gmod13_close"
    BY <1>2, <2>2 DEF CallFrames
  <2>6. below \in Seq(CallFrames) /\ Len(below) = Len(frames)
    BY <1>1, <2>1, <2>2, <2>3
  <2> QED BY <1>2, <2>4, <2>5, <2>6
<1> HIDE DEF below
<1>10. /\ CaresTypeOK' /\ AnswersInv' /\ QueriesInv' /\ StackInv'
       /\ lookup' = [lookup EXCEPT ![begun[k]] = "ended"]
       /\ Len(frames') = Len(frames) + 1
       /\ \A f \in 1..Len(frames) : frames'[f] = below[f]
  <2>1. \A f \in 1..Len(frames) :
           below[f] = frames[f] \/ (below[f].fn = "gmod13_close" /\ frames[f].fn = "gmod13_close")
    BY <1>2, <1>9
  <2> QED BY <1>2, <1>3, <1>4, <1>5, <1>9, <2>1, AnswerKeeps
<1>11. frames'[1].at = next
  BY <1>2, <1>9, <1>10
<1>12. \A i \in DOMAIN begun : lookup'[begun[i]] = "pending" <=> (i \in Listed /\ i # k)
  <2>1. \A i \in DOMAIN begun : begun[i] \in Lookups /\ (begun[i] = begun[k] => i = k)
    BY <1>1, <1>3 DEF CaresInv, QueriesInv
  <2>2. lookup \in [Lookups -> {"new", "pending", "ended"}]
    BY DEF CaresInv, CaresTypeOK
  <2> QED BY <1>3, <1>6, <1>10, <2>1, <2>2
<1>13. CloseInv'
  <2>1. next # 0 => next \in DOMAIN begun /\ lookup'[begun[next]] = "pending"
    BY <1>3, <1>6, <1>8, <1>12
  <2>2. ASSUME NEW i \in DOMAIN begun, lookup'[begun[i]] = "pending"
        PROVE  begun[i] \in late \/ (next # 0 /\ next <= i)
    <3>1. i \in Listed /\ i # k /\ i \in Nat
      BY <1>1, <1>12, <2>2
    <3>2. begun[i] \in late \/ k <= i
      BY <1>2, <1>6, <3>1 DEF CaresInv, CloseInv
    <3> QED BY <1>3, <1>8, <3>1, <3>2
  <2> QED BY <1>4, <1>5, <1>11, <2>1, <2>2 DEF CloseInv
<1> QED BY <1>10, <1>13 DEF CaresInv

LEMMA AnswerPendingKeeps ==
  ASSUME CaresHabits = {}, CaresInv, AnswerPending
  PROVE  CaresInv'
<1>1. /\ frames \in Seq(CallFrames) /\ Len(frames) \in Nat /\ DOMAIN frames = 1..Len(frames)
      /\ \A i \in DOMAIN begun : begun[i] \in Lookups /\ i \in Nat
  BY DEF CaresInv, CaresTypeOK, CallFrames
<1>2. frames # <<>> /\ frames[Len(frames)].fn = "__Call" /\ Len(frames) \in DOMAIN frames
  BY <1>1 DEF AnswerPending, Innermost
<1>3. PICK i \in Listed : Answer(begun[i], NameRead(begun[i]), i, frames)
  BY DEF AnswerPending
<1>4. i \in DOMAIN begun /\ lookup[begun[i]] = "pending" /\ begun[i] \in Lookups /\ i \in Nat
  BY <1>1, ListedArePending DEF AnswerPending
<1>5. channel = "open" /\ L = "main" /\ NameRead(begun[i]) = begun[i]
  BY <1>2, <1>4 DEF CaresInv, CaresTypeOK, AnswersInv, NameRead
<1>6. UNCHANGED <<channel, L, begun, askedName, namesHeld, late, returned>>
  BY DEF AnswerPending
<1>7. /\ CaresTypeOK' /\ AnswersInv' /\ QueriesInv' /\ StackInv'
      /\ Len(frames') = Len(frames) + 1
      /\ \A f \in 1..Len(frames) : frames'[f] = frames[f]
  BY <1>1, <1>3, <1>4, <1>5, <1>6, AnswerKeeps
<1>8. ~Closing'
  <2>1. 1 \in DOMAIN frames /\ frames'[1] = frames[1]
    BY <1>1, <1>2, <1>7
  <2>2. frames[1].fn # "gmod13_close"
    BY <1>1, <1>2, <2>1 DEF CaresInv, StackInv
  <2> QED BY <2>1, <2>2 DEF Closing
<1>9. CloseInv'
  BY <1>5, <1>6, <1>8 DEF CloseInv
<1> QED BY <1>7, <1>9 DEF CaresInv

LEMMA CaresCallKeeps ==
  ASSUME CaresHabits = {}, CaresInv, CaresCall("main")
  PROVE  CaresInv'
<1>1. /\ channel = "open" /\ L = "main" /\ L' = "main"
      /\ UNCHANGED <<channel, lookup, begun, askedName, namesHeld, late, told>>
  BY DEF CaresCall, CaresInv, AnswersInv
<1>2. frames \in Seq(CallFrames) /\ Len(frames) \in Nat /\ DOMAIN frames = 1..Len(frames)
  BY DEF CaresInv, CaresTypeOK, CallFrames
<1>3. \A f \in DOMAIN frames : frames[f].fn = "Callback" /\ frames[f].at = 0
  BY DEF CaresCall
<1>4. ~Closing /\ Pending' = Pending
  BY <1>1, <1>2, <1>3 DEF Closing, Pending
<1>5. CASE returned' = returned \cup {"nfds"} /\ UNCHANGED frames
  BY <1>1, <1>4, <1>5 DEF CaresInv, CaresTypeOK, AnswersInv, QueriesInv, StackInv, CloseInv, Closing
<1>6. CASE frames' = Append(frames, Frame("__Call", 0)) /\ UNCHANGED returned
  <2>1. Frame("__Call", 0) \in CallFrames /\ Frame("__Call", 0).fn = "__Call"
    BY DEF Frame, CallFrames
  <2>2. /\ frames' \in Seq(CallFrames) /\ Len(frames') = Len(frames) + 1
        /\ frames'[Len(frames) + 1].fn = "__Call"
        /\ \A f \in 1..Len(frames) : frames'[f] = frames[f]
    <3> HIDE DEF CallFrames, Frame
    <3> QED BY <1>2, <1>6, <2>1, AppendProperties
  <2>3. DOMAIN frames' = 1..(Len(frames) + 1)
    BY <1>2, <2>2
  <2>4. CaresTypeOK'
    BY <1>1, <2>2 DEF CaresInv, CaresTypeOK, CallFrames
  <2>5. StackInv'
    BY <1>2, <1>3, <2>2, <2>3 DEF StackInv
  <2>6. ~Closing'
    <3>1. frames'[1].fn = "Callback" \/ frames'[1].fn = "__Call"
      <4>1. CASE Len(frames) = 0
        BY <2>2, <4>1
      <4>2. CASE Len(frames) # 0
        BY <1>2, <1>3, <2>2, <4>2
      <4> QED BY <4>1, <4>2
    <3> QED BY <3>1 DEF Closing
  <2> QED BY <1>1, <1>4, <1>6, <2>4, <2>5, <2>6
          DEF CaresInv, AnswersInv, QueriesInv, CloseInv
<1> QED BY <1>5, <1>6 DEF CaresCall

LEMMA CaresStep ==
  ASSUME CaresHabits = {}, CaresInv, [CaresNext]_caresVars
  PROVE  CaresInv'
<1>0. States = {"main"} /\ frames \in Seq(CallFrames)
  BY DEF States, CaresInv, CaresTypeOK, CallFrames
<1>1. CASE CaresOpen
  <2>1. \A q \in Lookups : lookup[q] # "pending"
    BY <1>1 DEF CaresOpen, CaresInv, AnswersInv
  <2>2. /\ channel' # "destroyed" /\ L' = "main" /\ channel' \in {"none", "open"}
        /\ UNCHANGED <<lookup, begun, askedName, namesHeld, frames, late, told, returned>>
    BY <1>1 DEF CaresOpen
  <2>3. CaresTypeOK' /\ AnswersInv'
    BY <2>1, <2>2 DEF CaresInv, CaresTypeOK, AnswersInv
  <2>4. QueriesInv' /\ StackInv' /\ CloseInv'
    BY <2>2 DEF CaresInv, QueriesInv, StackInv, CloseInv, Closing, Pending
  <2> QED BY <2>3, <2>4 DEF CaresInv
<1>2. ASSUME NEW q \in Lookups, CaresResolve("main", q)
      PROVE  CaresInv'
  BY <1>2, ResolveKeeps
<1>3. CASE CaresCall("main")
  BY <1>3, CaresCallKeeps
<1>4. CASE AnswerPending
  BY <1>4, AnswerPendingKeeps
<1>5. CASE CallbackEnds
  <2> DEFINE outer == SubSeq(frames, 1, Len(frames) - 1)
  <2>1. /\ frames' = [i \in 1..Len(outer) |->
                        IF i = Len(outer) THEN [outer[i] EXCEPT !.left = @ + 0] ELSE outer[i]]
        /\ UNCHANGED <<channel, L, lookup, begun, askedName, namesHeld, late, told, returned>>
    BY <1>5 DEF CallbackEnds
  <2>2. frames # <<>> /\ frames[Len(frames)].fn = "Callback"
    BY <1>5 DEF CallbackEnds, Innermost
  <2>3. /\ outer \in Seq(CallFrames) /\ Len(outer) = Len(frames) - 1 /\ Len(outer) \in Nat
        /\ \A i \in 1..Len(outer) : outer[i] = frames[i] /\ outer[i] \in CallFrames
    <3>1. /\ outer \in Seq(CallFrames) /\ Len(outer) = Len(frames) - 1
          /\ \A i \in 1..(Len(frames) - 1) : outer[i] = frames[i]
      BY <1>0, <2>2, FramesPop
    <3>2. Len(outer) \in Nat /\ \A i \in 1..Len(outer) : outer[i] \in CallFrames
      BY <3>1
    <3> QED BY <3>1, <3>2
  <2>4. ASSUME NEW e \in CallFrames PROVE [e EXCEPT !.left = @ + 0] = e
    <3>1. e.left + 0 = e.left
      <4>1. e.left = 0
        BY DEF CallFrames
      <4> QED BY <4>1
    <3> QED BY <3>1 DEF CallFrames
  <2> HIDE DEF outer
  <2>5. \A i \in 1..Len(outer) : frames'[i] = outer[i]
    BY <2>1, <2>3, <2>4
  <2>6. frames' = outer
    <3>1. outer = [i \in 1..Len(outer) |-> outer[i]]
      BY <2>3
    <3> QED BY <2>1, <2>5, <3>1
  <2>7. returned' \subseteq {"nfds"}
    BY <2>1 DEF CaresInv, AnswersInv
  <2> QED BY <2>1, <2>2, <2>3, <2>6, <2>7, PopKeeps
<1>6. CASE CallReturns
  <2>1. /\ frames # <<>> /\ frames[Len(frames)].fn = "__Call"
        /\ frames' = SubSeq(frames, 1, Len(frames) - 1)
        /\ returned' = returned \cup {IF frames[Len(frames)].left = 0 THEN "nfds" ELSE "cares"}
        /\ UNCHANGED <<channel, L, lookup, begun, askedName, namesHeld, late, told>>
    BY <1>6 DEF CallReturns, Innermost
  <2>2. /\ frames' \in Seq(CallFrames) /\ Len(frames') = Len(frames) - 1
        /\ frames[Len(frames)] \in CallFrames
        /\ \A i \in 1..(Len(frames) - 1) : frames'[i] = frames[i]
    BY <1>0, <2>1, FramesPop
  <2>3. returned' \subseteq {"nfds"}
    <3>1. frames[Len(frames)].left = 0
      BY <2>2 DEF CallFrames
    <3> QED BY <2>1, <3>1 DEF CaresInv, AnswersInv
  <2> QED BY <2>1, <2>2, <2>3, PopKeeps
<1>7. CASE CloseBegins
  <2> DEFINE first == NextQuery(0)
  <2>1. /\ frames = <<>> /\ frames' = <<Frame("gmod13_close", first)>> /\ channel # "destroyed"
        /\ UNCHANGED <<channel, L, lookup, begun, askedName, namesHeld, late, told, returned>>
    BY <1>7 DEF CloseBegins
  <2>2. Listed = {i \in DOMAIN begun : lookup[begun[i]] = "pending"}
    BY <2>1, ListedArePending
  <2>3. begun \in Seq(Lookups) /\ \A i \in DOMAIN begun : i \in Nat /\ i > 0
    BY DEF CaresInv, CaresTypeOK
  <2>4. first \in Nat
    BY <2>3, NextIsNat
  <2>5. \/ first = 0 /\ \A j \in Listed : j <= 0
        \/ first \in Listed /\ \A j \in Listed : 0 < j => first <= j
    BY <2>3, NextIs
  <2> HIDE DEF first
  <2>6. Frame("gmod13_close", first) \in CallFrames
    BY <2>4 DEF Frame, CallFrames
  <2>7. /\ frames' \in Seq(CallFrames) /\ DOMAIN frames' = {1} /\ frames' # <<>>
        /\ frames'[1].fn = "gmod13_close" /\ frames'[1].at = first
    <3>1. frames' \in Seq(CallFrames) /\ DOMAIN frames' = {1} /\ frames' # <<>>
      BY <2>1, <2>6
    <3> QED BY <2>1, <3>1 DEF Frame
  <2>8. CaresTypeOK' /\ AnswersInv'
    BY <2>1, <2>7 DEF CaresInv, CaresTypeOK, AnswersInv, CallFrames
  <2>9. QueriesInv'
    BY <2>1 DEF CaresInv, QueriesInv, Pending
  <2>10. StackInv'
    BY <2>7 DEF StackInv
  <2>11. CloseInv'
    <3>1. first # 0 => first \in DOMAIN begun /\ lookup[begun[first]] = "pending"
      BY <2>2, <2>5
    <3>2. \A i \in DOMAIN begun : lookup[begun[i]] = "pending" => first # 0 /\ first <= i
      BY <2>2, <2>3, <2>5
    <3> QED BY <2>1, <2>7, <3>1, <3>2 DEF CloseInv, Closing
  <2> QED BY <2>8, <2>9, <2>10, <2>11 DEF CaresInv
<1>8. CASE CloseAnswers
  BY <1>8, CloseAnswersKeeps
<1>9. CASE CloseEnds
  <2>1. /\ frames # <<>> /\ frames[Len(frames)].fn = "gmod13_close" /\ frames[1].at = 0
        /\ channel' = "destroyed" /\ L' = "NULL" /\ frames' = <<>>
        /\ UNCHANGED <<lookup, begun, askedName, namesHeld, late, told, returned>>
    BY <1>9 DEF CloseEnds, Innermost
  <2>2. Closing
    <3>1. Len(frames) \in DOMAIN frames
      BY <1>0, <2>1
    <3> QED BY <2>1, <3>1 DEF CaresInv, StackInv, Closing
  <2>3. Pending \subseteq late
    BY <2>1, <2>2 DEF CaresInv, CloseInv, QueriesInv, Pending
  <2>4. CaresTypeOK' /\ AnswersInv'
    <3>1. <<>> \in Seq(CallFrames)
      OBVIOUS
    <3> QED BY <2>1, <3>1 DEF CaresInv, CaresTypeOK, AnswersInv, CallFrames
  <2>5. QueriesInv' /\ StackInv' /\ CloseInv'
    BY <2>1, <2>3 DEF CaresInv, QueriesInv, StackInv, CloseInv, Closing, Pending
  <2> QED BY <2>4, <2>5 DEF CaresInv
<1>10. ASSUME NEW q \in Lookups, DropName(q)
      PROVE  CaresInv'
  <2>1. /\ lookup[q] # "pending" /\ namesHeld' = namesHeld \ {q}
        /\ UNCHANGED <<channel, L, lookup, begun, askedName, frames, late, told, returned>>
    BY <1>10 DEF DropName
  <2>2. CaresTypeOK' /\ AnswersInv'
    BY <2>1 DEF CaresInv, CaresTypeOK, AnswersInv
  <2>3. QueriesInv' /\ StackInv' /\ CloseInv'
    BY <2>1 DEF CaresInv, QueriesInv, StackInv, CloseInv, Closing, Pending
  <2> QED BY <2>2, <2>3 DEF CaresInv
<1>11. CASE UNCHANGED caresVars
  BY <1>11 DEF caresVars, CaresInv, CaresTypeOK, AnswersInv, QueriesInv, StackInv, CloseInv,
               Closing, Pending
<1> QED BY <1>0, <1>1, <1>2, <1>3, <1>4, <1>5, <1>6, <1>7, <1>8, <1>9, <1>10, <1>11 DEF CaresNext

\* EveryLookupAnswered: any number of lookups, nested in callbacks to any depth, of a
\* script that calls from the state it loaded the module in, keeps the names it asks
\* for until they are answered, calls __Call in no callback c-ares tells the end of a
\* query with, and whose callback does not raise. What gmod13_close leaves pending was
\* begun while the last query was being told.
THEOREM LookupsAreAnswered ==
  ASSUME CaresHabits = {}
  PROVE  CaresSpec => []EveryLookupAnswered
<1>1. CaresInit => CaresInv
  <2> SUFFICES ASSUME CaresInit PROVE CaresInv
    OBVIOUS
  <2>1. <<>> \in Seq(CallFrames) /\ <<>> \in Seq(Lookups) /\ DOMAIN <<>> = {}
    OBVIOUS
  <2>2. CaresTypeOK /\ AnswersInv
    BY <2>1 DEF CaresInit, CaresTypeOK, AnswersInv, CallFrames
  <2>3. QueriesInv /\ StackInv /\ CloseInv
    BY <2>1 DEF CaresInit, QueriesInv, StackInv, CloseInv, Closing, Pending
  <2> QED BY <2>2, <2>3 DEF CaresInv
<1>2. CaresInv /\ [CaresNext]_caresVars => CaresInv'
  BY CaresStep
<1>3. CaresInv => EveryLookupAnswered
  BY DEF CaresInv, AnswersInv, CloseInv, EveryLookupAnswered
<1> QED BY <1>1, <1>2, <1>3, PTL DEF CaresSpec

(***************************************************************************)
(* Lfs.                                                                    *)
(***************************************************************************)

LfsTypeOK ==
  /\ cwd \in [Procs -> Seq(Names)]
  /\ lock \in [Procs -> [Locks -> [taken : BOOLEAN, ln : LfsPath, held : Seq(Names)]]]
  /\ astray \in BOOLEAN

\* A lock that is taken has its file, and the file is that of one lock.
LocksStand ==
  \A p \in Procs, l \in Locks : lock[p][l].taken =>
    /\ Exists(lock[p][l].held) /\ LockName \in entries[lock[p][l].held]
    /\ \A q \in Procs, k \in Locks :
         lock[q][k].taken /\ lock[q][k].held = lock[p][l].held => q = p /\ k = l

LfsInv == LfsTypeOK /\ (~astray => LocksStand)

LEMMA ResolveFacts ==
  ASSUME LfsTypeOK, NEW p \in Procs, NEW path \in LfsPath
  PROVE  /\ Resolve(p, path) \in Seq(Names)
         /\ Resolve(p, path) \in {<<>>, cwd[p]}
              \/ LET d == Resolve(p, path) IN d[Len(d)] # LockName
<1>1. cwd[p] \in Seq(Names) /\ path.names \in {<<>>} \cup {<<n>> : n \in Names}
  BY DEF LfsTypeOK, LfsPath
<1>2. CASE path.names = <<>>
  <2>1. cwd[p] \o <<>> = cwd[p] /\ <<>> \in Seq(Names)
    BY <1>1, ConcatEmptySeq
  <2> QED BY <1>1, <1>2, <2>1 DEF Resolve
<1>3. ASSUME NEW n \in Names, path.names = <<n>>
      PROVE  Resolve(p, path) \in Seq(Names)
             /\ LET d == Resolve(p, path) IN d[Len(d)] # LockName
  <2>1. n # LockName
    BY LfsAssumption
  <2>2. <<n>> \in Seq(Names) /\ Len(<<n>>) = 1 /\ <<n>>[1] = n
    OBVIOUS
  <2>3. /\ cwd[p] \o <<n>> \in Seq(Names) /\ Len(cwd[p] \o <<n>>) = Len(cwd[p]) + 1
        /\ (cwd[p] \o <<n>>)[Len(cwd[p]) + 1] = n
    BY <1>1, <2>2
  <2> QED BY <1>3, <2>1, <2>2, <2>3 DEF Resolve
<1> QED BY <1>1, <1>2, <1>3

\* As long as what is taken stays and no directory loses its lock file, they stand.
LEMMA LocksStay ==
  ASSUME LocksStand, lock' = lock,
         \A d \in DOMAIN entries : LockName \in entries[d] =>
            d \in DOMAIN entries' /\ LockName \in entries'[d]
  PROVE  LocksStand'
BY DEF LocksStand, Exists

LEMMA LfsStep ==
  ASSUME LfsInv, [LfsNext]_lfsVars
  PROVE  LfsInv'
<1>0. LfsTypeOK
  BY DEF LfsInv
<1> DEFINE LockSet == [taken : BOOLEAN, ln : LfsPath, held : Seq(Names)]
<1>0a. <<>> \in Seq(Names)
  OBVIOUS
<1>0b. NoLock \in LockSet /\ ~NoLock.taken
  BY <1>0a DEF NoLock, NoPath, LfsPath
<1>1. ASSUME NEW p \in Procs, Die(p)
      PROVE  LfsInv'
  <2>1. /\ lock' = [lock EXCEPT ![p] = [l \in Locks |-> NoLock]]
        /\ cwd' = [cwd EXCEPT ![p] = <<>>]
        /\ UNCHANGED <<entries, astray>>
    BY <1>1 DEF Die
  <2> HIDE DEF LockSet
  <2>2. /\ lock' \in [Procs -> [Locks -> LockSet]]
        /\ cwd' \in [Procs -> Seq(Names)]
    BY <1>0, <1>0a, <1>0b, <2>1 DEF LfsTypeOK, LockSet
  <2>3. \A q \in Procs, l \in Locks : lock'[q][l].taken =>
          q # p /\ lock'[q][l] = lock[q][l]
    BY <1>0, <1>0b, <2>1 DEF LfsTypeOK
  <2>4. LocksStand => LocksStand'
    BY <2>1, <2>3 DEF LocksStand, Exists
  <2> QED BY <1>0, <2>1, <2>2, <2>4 DEF LfsInv, LfsTypeOK, LockSet
<1>2. ASSUME NEW p \in Procs, NEW path \in LfsPath, change_dir(p, path)
      PROVE  LfsInv'
  <2>1. Resolve(p, path) \in Seq(Names)
    BY <1>0, ResolveFacts
  <2>2. /\ cwd' = [cwd EXCEPT ![p] = Resolve(p, path)]
        /\ UNCHANGED <<entries, lock, astray>>
    BY <1>2 DEF change_dir
  <2> QED BY <1>0, <2>1, <2>2 DEF LfsInv, LfsTypeOK, LocksStand, Exists
<1>3. ASSUME NEW p \in Procs, NEW path \in LfsPath, make_dir(p, path)
      PROVE  LfsInv'
  <2> DEFINE d == Resolve(p, path)
             parent == SubSeq(d, 1, Len(d) - 1)
             names == entries[parent] \cup {d[Len(d)]}
  <2>1. /\ ~Exists(d)
        /\ entries' = [x \in DOMAIN entries \cup {d} |->
                         IF x = parent THEN names ELSE IF x = d THEN {} ELSE entries[x]]
        /\ UNCHANGED <<cwd, lock, astray>>
    BY <1>3 DEF make_dir
  <2>2. \A x \in DOMAIN entries : x \in DOMAIN entries' /\ entries[x] \subseteq entries'[x]
    BY <2>1 DEF Exists
  <2>3. LocksStand => LocksStand'
    BY <2>1, <2>2, LocksStay
  <2> QED BY <1>0, <2>1, <2>3 DEF LfsInv, LfsTypeOK
<1>4. ASSUME NEW p \in Procs, NEW path \in LfsPath, remove_dir(p, path)
      PROVE  LfsInv'
  <2> DEFINE d == Resolve(p, path)
             parent == SubSeq(d, 1, Len(d) - 1)
             names == entries[parent] \ {d[Len(d)]}
  <2>1. /\ d # <<>> /\ d # cwd[p] /\ entries[d] = {}
        /\ entries' = [x \in DOMAIN entries \ {d} |-> IF x = parent THEN names ELSE entries[x]]
        /\ UNCHANGED <<cwd, lock, astray>>
    BY <1>4 DEF remove_dir
  <2>2. d[Len(d)] # LockName
    BY <1>0, <2>1, ResolveFacts
  <2>3. \A x \in DOMAIN entries : LockName \in entries[x] =>
          x \in DOMAIN entries' /\ LockName \in entries'[x]
    BY <2>1, <2>2
  <2>4. LocksStand => LocksStand'
    BY <2>1, <2>3, LocksStay
  <2> QED BY <1>0, <2>1, <2>4 DEF LfsInv, LfsTypeOK
<1>5. ASSUME NEW p \in Procs, NEW path \in LfsPath, NEW l \in Locks, lfs_lock_dir(p, l, path)
      PROVE  LfsInv'
  <2> DEFINE d == Resolve(p, path)
             new == [taken |-> TRUE, ln |-> path, held |-> d]
  <2>1. /\ ~lock[p][l].taken /\ Exists(d) /\ LockName \notin entries[d]
        /\ entries' = [entries EXCEPT ![d] = @ \cup {LockName}]
        /\ lock' = [lock EXCEPT ![p][l] = new]
        /\ UNCHANGED <<cwd, astray>>
    BY <1>5 DEF lfs_lock_dir, LockFree
  <2>2. new \in LockSet /\ new.taken /\ new.held = d
    BY <1>0, ResolveFacts
  <2> HIDE DEF new, d, LockSet
  <2>3. lock' \in [Procs -> [Locks -> LockSet]]
    BY <1>0, <2>1, <2>2 DEF LfsTypeOK, LockSet
  <2>4. /\ lock'[p][l] = new
        /\ \A q \in Procs, k \in Locks : ~(q = p /\ k = l) => lock'[q][k] = lock[q][k]
    BY <1>0, <2>1 DEF LfsTypeOK
  <2>5. /\ d \in DOMAIN entries /\ DOMAIN entries' = DOMAIN entries
        /\ LockName \in entries'[d]
        /\ \A x \in DOMAIN entries : x # d => entries'[x] = entries[x]
    BY <2>1 DEF Exists
  <2>6. ASSUME LocksStand PROVE LocksStand'
    <3>1. ASSUME NEW q \in Procs, NEW k \in Locks, ~(q = p /\ k = l), lock[q][k].taken
          PROVE  /\ lock[q][k].held # d
                 /\ lock[q][k].held \in DOMAIN entries'
                 /\ LockName \in entries'[lock[q][k].held]
      BY <2>1, <2>5, <2>6, <3>1 DEF LocksStand, Exists
    <3>2. ASSUME NEW q \in Procs, NEW k \in Locks, lock'[q][k].taken,
                 NEW r \in Procs, NEW m \in Locks, lock'[r][m].taken,
                 lock'[r][m].held = lock'[q][k].held
          PROVE  r = q /\ m = k
      <4>1. CASE q = p /\ k = l
        BY <2>2, <2>4, <3>1, <3>2, <4>1
      <4>2. CASE r = p /\ m = l
        BY <2>2, <2>4, <3>1, <3>2, <4>2
      <4>3. CASE ~(q = p /\ k = l) /\ ~(r = p /\ m = l)
        BY <2>4, <2>6, <3>2, <4>3 DEF LocksStand
      <4> QED BY <4>1, <4>2, <4>3
    <3> QED BY <2>2, <2>4, <2>5, <3>1, <3>2 DEF LocksStand, Exists
  <2> QED BY <1>0, <2>1, <2>3, <2>6 DEF LfsInv, LfsTypeOK, LockSet
<1>6. ASSUME NEW p \in Procs, NEW l \in Locks, lfs_unlock_dir(p, l)
      PROVE  LfsInv'
  <2> DEFINE d == Resolve(p, lock[p][l].ln)
  <2>1. /\ lock[p][l].taken
        /\ IF Exists(d) THEN entries' = [entries EXCEPT ![d] = @ \ {LockName}]
           ELSE UNCHANGED entries
        /\ lock' = [lock EXCEPT ![p][l] = NoLock]
        /\ astray' = (astray \/ d # lock[p][l].held)
        /\ cwd' = cwd
    BY <1>6 DEF lfs_unlock_dir
  <2> HIDE DEF d, LockSet
  <2>2. lock' \in [Procs -> [Locks -> LockSet]] /\ astray' \in BOOLEAN
    BY <1>0, <1>0b, <2>1 DEF LfsTypeOK, LockSet
  <2>3. /\ lock'[p][l] = NoLock
        /\ \A q \in Procs, k \in Locks : ~(q = p /\ k = l) => lock'[q][k] = lock[q][k]
    BY <1>0, <2>1 DEF LfsTypeOK
  <2>4. /\ DOMAIN entries' = DOMAIN entries
        /\ \A x \in DOMAIN entries : x # d => entries'[x] = entries[x]
    BY <2>1
  <2>5. ASSUME ~astray' PROVE LocksStand'
    <3>1. LocksStand /\ d = lock[p][l].held
      BY <2>1, <2>5 DEF LfsInv
    <3>2. ASSUME NEW q \in Procs, NEW k \in Locks, lock'[q][k].taken
          PROVE  /\ ~(q = p /\ k = l) /\ lock'[q][k] = lock[q][k]
                 /\ lock[q][k].held # d
                 /\ lock[q][k].held \in DOMAIN entries'
                 /\ LockName \in entries'[lock[q][k].held]
      <4>1. ~(q = p /\ k = l)
        BY <1>0b, <2>3, <3>2
      <4>2. lock'[q][k] = lock[q][k] /\ lock[q][k].taken
        BY <2>3, <3>2, <4>1
      <4>3. lock[q][k].held # d
        BY <2>1, <3>1, <4>1, <4>2 DEF LocksStand
      <4> QED BY <2>4, <3>1, <4>1, <4>2, <4>3 DEF LocksStand, Exists
    <3> QED BY <3>1, <3>2 DEF LocksStand, Exists
  <2> QED BY <1>0, <2>1, <2>2, <2>5 DEF LfsInv, LfsTypeOK, LockSet
<1>7. ASSUME NEW p \in Procs, NEW i \in Iterators,
             \/ \E path \in LfsPath : dir_iter_factory(p, i, path)
             \/ dir_iter(p, i) \/ dir_close(p, i)
      PROVE  LfsInv'
  <2>1. UNCHANGED <<entries, cwd, lock, astray>>
    BY <1>7 DEF dir_iter_factory, dir_iter, dir_close
  <2> QED BY <2>1 DEF LfsInv, LfsTypeOK, LocksStand, Exists
<1>8. CASE UNCHANGED lfsVars
  BY <1>8 DEF lfsVars, LfsInv, LfsTypeOK, LocksStand, Exists
<1> QED BY <1>1, <1>2, <1>3, <1>4, <1>5, <1>6, <1>7, <1>8 DEF LfsNext

\* LocksExclude: for any processes, locks and directories, although they are made
\* and removed and processes die, as long as every lock is released from where it
\* was taken.
THEOREM LocksDoExclude == LfsSpec => []LocksExclude
<1>1. LfsInit => LfsInv
  <2>1. <<>> \in Seq(Names)
    OBVIOUS
  <2>2. NoLock \in [taken : BOOLEAN, ln : LfsPath, held : Seq(Names)] /\ ~NoLock.taken
    BY <2>1 DEF NoLock, NoPath, LfsPath
  <2>3. SUFFICES ASSUME LfsInit PROVE LfsInv
    OBVIOUS
  <2>4. /\ cwd = [p \in Procs |-> <<>>] /\ astray = FALSE
        /\ lock = [p \in Procs |-> [l \in Locks |-> NoLock]]
    BY <2>3 DEF LfsInit
  <2> HIDE DEF NoLock
  <2>5. LfsTypeOK
    BY <2>1, <2>2, <2>4 DEF LfsTypeOK
  <2>6. LocksStand
    BY <2>2, <2>4 DEF LocksStand
  <2> QED BY <2>5, <2>6 DEF LfsInv
<1>2. LfsInv /\ [LfsNext]_lfsVars => LfsInv'
  BY LfsStep
<1>3. LfsInv => LocksExclude
  <2>1. SUFFICES ASSUME LfsInv, ~astray PROVE LocksExclude
    BY DEF LocksExclude
  <2> DEFINE taken == {x \in Procs \X Locks : lock[x[1]][x[2]].taken}
             held(x) == lock[x[1]][x[2]].held
  <2>2. LocksStand
    BY <2>1 DEF LfsInv
  <2>3. ASSUME NEW x \in taken, NEW y \in taken, held(x) = held(y) PROVE x = y
    BY <2>2, <2>3 DEF LocksStand
  <2>4. ASSUME NEW x \in taken PROVE Exists(held(x)) /\ LockName \in entries[held(x)]
    BY <2>2, <2>4 DEF LocksStand
  <2> QED BY <2>3, <2>4 DEF LocksExclude
<1> QED BY <1>1, <1>2, <1>3, PTL DEF LfsSpec

(***************************************************************************)
(* LuaIo.                                                                  *)
(***************************************************************************)

HandleSet == [file : Files \cup {NULL}, env : {"noclose", "fclose", "pclose"}, known : BOOLEAN]

IoTypeOK ==
  /\ fp \in [IoHandles -> HandleSet \cup {NULL}]
  /\ file \in [Files -> {"std", "file", "pipe", "closed"}]
  /\ lines \subseteq [handle : IoHandles, toclose : BOOLEAN]

\* An open handle is the only one of its file, which is open as the handle says;
\* a file that can be closed has a handle, and a standard file cannot.
OneHandle ==
  /\ ~misused
  /\ \A h \in DOMAIN StdFile : file[StdFile[h]] = "std"
  /\ \A h \in IoHandles : IsOpenHandle(h) =>
       /\ file[fp[h].file] = CloserOf(fp[h].env)
       /\ \A k \in IoHandles : IsOpenHandle(k) /\ fp[k].file = fp[h].file => k = h
  /\ \A x \in Files : file[x] \in {"file", "pipe"} =>
       \E h \in IoHandles : IsOpenHandle(h) /\ fp[h].file = x

IoInv == IoTypeOK /\ OneHandle

LEMMA OpenFacts ==
  ASSUME IoTypeOK, NEW h \in IoHandles, IsOpenHandle(h)
  PROVE  fp[h] \in HandleSet /\ fp[h].file \in Files
         /\ fp[h].env \in {"noclose", "fclose", "pclose"}
<1>1. fp[h] \in HandleSet
  BY DEF IoTypeOK, IsOpenHandle
<1> QED BY <1>1 DEF HandleSet, IsOpenHandle

LEMMA OpenedKeeps ==
  ASSUME IoInv, NEW h \in IoHandles, NEW x \in Files, NEW env \in {"fclose", "pclose"},
         NEW known \in BOOLEAN, Opened(h, x, env, known), misused' = misused,
         lines' \subseteq [handle : IoHandles, toclose : BOOLEAN]
  PROVE  IoInv'
<1> DEFINE new == [file |-> x, env |-> env, known |-> known]
<1>1. /\ fp[h] = NULL /\ file[x] = "closed"
      /\ fp' = [fp EXCEPT ![h] = new]
      /\ file' = [file EXCEPT ![x] = CloserOf(env)]
  BY DEF Opened, newfile
<1>2. new \in HandleSet /\ new.file = x /\ new.env = env
  BY DEF HandleSet
<1>3. new # NULL /\ x # NULL
  BY <1>2, IoAssumption DEF HandleSet
<1>4. CloserOf(env) \in {"file", "pipe"}
  BY DEF CloserOf
<1> HIDE DEF new
<1>5. IoTypeOK'
  BY <1>1, <1>2, <1>4 DEF IoInv, IoTypeOK
<1>6. /\ fp'[h] = new /\ \A k \in IoHandles : k # h => fp'[k] = fp[k]
      /\ file'[x] = CloserOf(env) /\ \A y \in Files : y # x => file'[y] = file[y]
  BY <1>1 DEF IoInv, IoTypeOK
<1>7. ~IsOpenHandle(h)
  BY <1>1 DEF IsOpenHandle
<1>8. \A k \in IoHandles : IsOpenHandle(k)' <=> k = h \/ IsOpenHandle(k)
  BY <1>2, <1>3, <1>6 DEF IsOpenHandle
<1>9. \A k \in IoHandles : IsOpenHandle(k) => fp[k].file \in Files /\ fp[k].file # x
  BY <1>1, OpenFacts DEF IoInv, OneHandle, CloserOf
<1>10. ASSUME NEW k \in IoHandles, IsOpenHandle(k)'
       PROVE  /\ file'[fp'[k].file] = CloserOf(fp'[k].env)
              /\ \A j \in IoHandles : IsOpenHandle(j)' /\ fp'[j].file = fp'[k].file => j = k
  <2>1. CASE k = h
    BY <1>2, <1>6, <1>8, <1>9, <2>1
  <2>2. CASE k # h
    <3>1. IsOpenHandle(k) /\ fp'[k] = fp[k] /\ fp[k].file # x /\ fp[k].file \in Files
      BY <1>6, <1>8, <1>9, <1>10, <2>2
    <3>2. file'[fp[k].file] = CloserOf(fp[k].env)
      BY <1>6, <3>1 DEF IoInv, OneHandle
    <3>3. ASSUME NEW j \in IoHandles, IsOpenHandle(j)', fp'[j].file = fp[k].file
          PROVE  j = k
      <4>1. j # h
        BY <1>2, <1>6, <3>1, <3>3
      <4> QED BY <1>6, <1>8, <3>1, <3>3, <4>1 DEF IoInv, OneHandle
    <3> QED BY <3>1, <3>2, <3>3
  <2> QED BY <2>1, <2>2
<1>11. ASSUME NEW y \in Files, file'[y] \in {"file", "pipe"}
       PROVE  \E k \in IoHandles : IsOpenHandle(k)' /\ fp'[k].file = y
  <2>1. CASE y = x
    BY <1>2, <1>6, <1>8, <2>1
  <2>2. CASE y # x
    <3>1. PICK k \in IoHandles : IsOpenHandle(k) /\ fp[k].file = y
      BY <1>6, <1>11, <2>2 DEF IoInv, OneHandle
    <3>2. k # h
      BY <1>7, <3>1
    <3> QED BY <1>6, <1>8, <3>1, <3>2
  <2> QED BY <2>1, <2>2
<1>12. \A k \in DOMAIN StdFile : file'[StdFile[k]] = "std"
  <2>1. ASSUME NEW k \in DOMAIN StdFile PROVE StdFile[k] # x /\ StdFile[k] \in Files
    BY <1>1, IoAssumption DEF IoInv, OneHandle
  <2> QED BY <1>6, <2>1 DEF IoInv, OneHandle
<1>13. OneHandle'
  BY <1>10, <1>11, <1>12 DEF IoInv, OneHandle
<1> QED BY <1>5, <1>13 DEF IoInv

LEMMA CloseKeeps ==
  ASSUME IoInv, NEW h \in IoHandles, IsOpenHandle(h), NEW after \in {fp[h], NULL},
         aux_close(h, after), lines' = lines
  PROVE  IoInv'
<1> DEFINE x == fp[h].file
<1>0. /\ fp[h] \in HandleSet /\ x \in Files /\ fp[h].env \in {"noclose", "fclose", "pclose"}
      /\ file[x] = CloserOf(fp[h].env) /\ IoTypeOK /\ OneHandle
  BY OpenFacts DEF IoInv, OneHandle
<1>1. CASE fp[h].env = "noclose"
  <2>1. fp' = [fp EXCEPT ![h] = after] /\ file' = file /\ misused' = misused
    BY <1>1 DEF aux_close
  <2>2. file[x] = "std"
    BY <1>0, <1>1 DEF CloserOf
  <2>3. /\ fp'[h] \in {fp[h], NULL} /\ \A k \in IoHandles : k # h => fp'[k] = fp[k]
    BY <1>0, <2>1 DEF IoTypeOK
  <2>4. IoTypeOK'
    BY <1>0, <2>1 DEF IoTypeOK
  <2>5. \A k \in IoHandles : IsOpenHandle(k)' => IsOpenHandle(k) /\ fp'[k] = fp[k]
    BY <2>3 DEF IsOpenHandle
  <2>6. \A k \in IoHandles : k # h /\ IsOpenHandle(k) => IsOpenHandle(k)' /\ fp'[k] = fp[k]
    BY <2>3 DEF IsOpenHandle
  <2>7. ASSUME NEW y \in Files, file'[y] \in {"file", "pipe"}
        PROVE  \E k \in IoHandles : IsOpenHandle(k)' /\ fp'[k].file = y
    <3>1. PICK k \in IoHandles : IsOpenHandle(k) /\ fp[k].file = y
      BY <1>0, <2>1, <2>7 DEF OneHandle
    <3>2. k # h
      BY <2>1, <2>2, <2>7, <3>1
    <3> QED BY <2>6, <3>1, <3>2
  <2>8. OneHandle'
    BY <1>0, <2>1, <2>5, <2>7 DEF OneHandle
  <2> QED BY <2>4, <2>8 DEF IoInv
<1>2. CASE fp[h].env # "noclose"
  <2> DEFINE left == IF after = NULL THEN NULL ELSE [after EXCEPT !.file = NULL]
  <2>1. /\ fp' = [fp EXCEPT ![h] = left]
        /\ file' = [file EXCEPT ![x] = "closed"]
        /\ misused' = (misused \/ file[x] # CloserOf(fp[h].env))
    BY <1>2 DEF aux_close
  <2>2. left \in HandleSet \cup {NULL} /\ (left = NULL \/ left.file = NULL)
    <3>1. [fp[h] EXCEPT !.file = NULL] \in HandleSet /\ [fp[h] EXCEPT !.file = NULL].file = NULL
      BY <1>0 DEF HandleSet
    <3> QED BY <3>1
  <2> HIDE DEF left
  <2>3. /\ fp'[h] = left /\ \A k \in IoHandles : k # h => fp'[k] = fp[k]
        /\ file'[x] = "closed" /\ \A y \in Files : y # x => file'[y] = file[y]
    BY <1>0, <2>1 DEF IoTypeOK
  <2>4. IoTypeOK'
    BY <1>0, <2>1, <2>2 DEF IoTypeOK
  <2>5. \A k \in IoHandles : IsOpenHandle(k)' <=> k # h /\ IsOpenHandle(k)
    BY <2>2, <2>3 DEF IsOpenHandle
  <2>6. \A k \in IoHandles : IsOpenHandle(k)' =>
          fp'[k] = fp[k] /\ fp[k].file # x /\ fp[k].file \in Files
    BY <1>0, <2>3, <2>5, OpenFacts DEF OneHandle
  <2>7. ASSUME NEW y \in Files, file'[y] \in {"file", "pipe"}
        PROVE  \E k \in IoHandles : IsOpenHandle(k)' /\ fp'[k].file = y
    <3>1. y # x /\ file[y] \in {"file", "pipe"}
      BY <2>3, <2>7
    <3>2. PICK k \in IoHandles : IsOpenHandle(k) /\ fp[k].file = y
      BY <1>0, <3>1 DEF OneHandle
    <3> QED BY <2>3, <2>5, <3>1, <3>2
  <2>8. \A k \in DOMAIN StdFile : file'[StdFile[k]] = "std"
    <3>1. file[x] # "std"
      BY <1>0, <1>2 DEF CloserOf
    <3>2. \A k \in DOMAIN StdFile : StdFile[k] \in Files /\ StdFile[k] # x
      BY <1>0, <3>1, IoAssumption DEF OneHandle
    <3> QED BY <1>0, <2>3, <3>2 DEF OneHandle
  <2>9. ASSUME NEW k \in IoHandles, IsOpenHandle(k)'
        PROVE  /\ file'[fp'[k].file] = CloserOf(fp'[k].env)
               /\ \A j \in IoHandles : IsOpenHandle(j)' /\ fp'[j].file = fp'[k].file => j = k
    BY <1>0, <2>3, <2>5, <2>6, <2>9 DEF OneHandle
  <2>10. ~misused'
    BY <1>0, <2>1 DEF OneHandle
  <2>11. OneHandle'
    BY <2>7, <2>8, <2>9, <2>10 DEF OneHandle
  <2> QED BY <2>4, <2>11 DEF IoInv
<1> QED BY <1>1, <1>2

LEMMA IoStep ==
  ASSUME IoInv, [IoNext]_ioVars
  PROVE  IoInv'
<1>0. IoTypeOK /\ OneHandle
  BY DEF IoInv
<1>0a. ASSUME UNCHANGED <<fp, file, misused>>,
              lines' \subseteq [handle : IoHandles, toclose : BOOLEAN]
       PROVE  IoInv'
  BY <1>0, <1>0a DEF IoInv, IoTypeOK, OneHandle, IsOpenHandle
<1>0b. lines \subseteq [handle : IoHandles, toclose : BOOLEAN]
  BY <1>0 DEF IoTypeOK
<1>1. CASE io_open
  <2>1. PICK h \in IoHandles, x \in Files : Opened(h, x, "fclose", TRUE)
    BY <1>1 DEF io_open
  <2> QED BY <1>0b, <1>1, <2>1, OpenedKeeps DEF io_open
<1>2. CASE io_popen
  <2>1. PICK h \in IoHandles, x \in Files : Opened(h, x, "pclose", TRUE)
    BY <1>2 DEF io_popen
  <2> QED BY <1>0b, <1>2, <2>1, OpenedKeeps DEF io_popen
<1>3. CASE g_iofile
  <2>1. PICK h \in IoHandles : (\E x \in Files : Opened(h, x, "fclose", FALSE))
                              \/ UNCHANGED <<fp, file, offset>>
    BY <1>3 DEF g_iofile
  <2>2. UNCHANGED <<lines, misused>>
    BY <1>3 DEF g_iofile
  <2> QED BY <1>0a, <1>0b, <2>1, <2>2, OpenedKeeps
<1>4. CASE io_close
  <2>1. PICK h \in IoHandles : IsOpenHandle(h) /\ aux_close(h, fp[h])
    BY <1>4 DEF io_close
  <2> QED BY <1>4, <2>1, CloseKeeps DEF io_close
<1>5. CASE io_lines
  <2>1. misused' = misused
    BY <1>5 DEF io_lines
  <2>2. ASSUME NEW h \in IoHandles, lines' = lines \cup {[handle |-> h, toclose |-> FALSE]},
               UNCHANGED <<fp, file, offset>>
        PROVE  IoInv'
    <3>1. [handle |-> h, toclose |-> FALSE] \in [handle : IoHandles, toclose : BOOLEAN]
      OBVIOUS
    <3>2. lines' \subseteq [handle : IoHandles, toclose : BOOLEAN]
      BY <1>0b, <2>2, <3>1
    <3> QED BY <1>0a, <2>1, <2>2, <3>2
  <2>3. ASSUME NEW h \in IoHandles, NEW x \in Files, Opened(h, x, "fclose", FALSE),
               lines' = lines \cup {[handle |-> h, toclose |-> TRUE]}
        PROVE  IoInv'
    <3>1. [handle |-> h, toclose |-> TRUE] \in [handle : IoHandles, toclose : BOOLEAN]
      OBVIOUS
    <3>2. lines' \subseteq [handle : IoHandles, toclose : BOOLEAN]
      BY <1>0b, <2>3, <3>1
    <3> QED BY <2>1, <2>3, <3>2, OpenedKeeps
  <2> QED BY <1>5, <2>2, <2>3 DEF io_lines
<1>6. CASE io_read \/ f_seek
  BY <1>0a, <1>0b, <1>6 DEF io_read, f_seek
<1>7. CASE io_readline
  <2>1. PICK l \in lines :
          /\ IsOpenHandle(l.handle)
          /\ (UNCHANGED <<fp, file, misused>>) \/ aux_close(l.handle, fp[l.handle])
    BY <1>7 DEF io_readline
  <2>2. l.handle \in IoHandles
    BY <1>0b, <2>1
  <2>3. lines' = lines
    BY <1>7 DEF io_readline
  <2> QED BY <1>0a, <1>0b, <2>1, <2>2, <2>3, CloseKeeps
<1>8. CASE Drop
  <2>1. UNCHANGED <<file, misused>>
    BY <1>8 DEF Drop
  <2>2. ASSUME NEW h \in IoHandles, fp[h] # NULL, fp' = [fp EXCEPT ![h].known = FALSE],
               lines' = lines
        PROVE  IoInv'
    <3>1. fp[h] \in HandleSet
      BY <1>0, <2>2 DEF IoTypeOK
    <3>2. /\ [fp[h] EXCEPT !.known = FALSE] \in HandleSet
          /\ [fp[h] EXCEPT !.known = FALSE].file = fp[h].file
          /\ [fp[h] EXCEPT !.known = FALSE].env = fp[h].env
      BY <3>1 DEF HandleSet
    <3>3. [fp[h] EXCEPT !.known = FALSE] # NULL
      BY <3>2, IoAssumption DEF HandleSet
    <3>4. /\ fp'[h] = [fp[h] EXCEPT !.known = FALSE]
          /\ \A k \in IoHandles : k # h => fp'[k] = fp[k]
      BY <1>0, <2>2 DEF IoTypeOK
    <3>5. fp' \in [IoHandles -> HandleSet \cup {NULL}]
      BY <1>0, <2>2, <3>2 DEF IoTypeOK
    <3>6. \A k \in IoHandles : /\ IsOpenHandle(k)' <=> IsOpenHandle(k)
                               /\ fp'[k].file = fp[k].file /\ fp'[k].env = fp[k].env
      BY <2>2, <3>2, <3>3, <3>4 DEF IsOpenHandle
    <3> QED BY <1>0, <2>1, <2>2, <3>5, <3>6 DEF IoInv, IoTypeOK, OneHandle
  <2>3. ASSUME NEW l \in lines, lines' = lines \ {l}, fp' = fp
        PROVE  IoInv'
    BY <1>0a, <1>0b, <2>1, <2>3
  <2> QED BY <1>8, <2>2, <2>3 DEF Drop
<1>9. CASE io_gc
  <2>1. PICK h \in IoHandles :
          /\ fp[h] # NULL
          /\ IF fp[h].file = NULL
             THEN fp' = [fp EXCEPT ![h] = NULL] /\ UNCHANGED <<file, misused>>
             ELSE aux_close(h, NULL)
    BY <1>9 DEF io_gc
  <2>2. lines' = lines
    BY <1>9 DEF io_gc
  <2>3. CASE fp[h].file = NULL
    <3>1. fp' = [fp EXCEPT ![h] = NULL] /\ UNCHANGED <<file, misused>>
      BY <2>1, <2>3
    <3>2. /\ fp'[h] = NULL /\ ~IsOpenHandle(h)
          /\ \A k \in IoHandles : k # h => fp'[k] = fp[k]
      BY <1>0, <2>3, <3>1 DEF IoTypeOK, IsOpenHandle
    <3>3. \A k \in IoHandles : /\ IsOpenHandle(k)' <=> IsOpenHandle(k)
                               /\ IsOpenHandle(k) => fp'[k] = fp[k]
      BY <3>2 DEF IsOpenHandle
    <3>4. IoTypeOK'
      BY <1>0, <2>2, <3>1 DEF IoTypeOK
    <3>5. ASSUME NEW x \in Files, file'[x] \in {"file", "pipe"}
          PROVE  \E k \in IoHandles : IsOpenHandle(k)' /\ fp'[k].file = x
      <4>1. PICK k \in IoHandles : IsOpenHandle(k) /\ fp[k].file = x
        BY <1>0, <3>1, <3>5 DEF OneHandle
      <4> QED BY <3>3, <4>1
    <3>6. ASSUME NEW k \in IoHandles, IsOpenHandle(k)'
          PROVE  /\ file'[fp'[k].file] = CloserOf(fp'[k].env)
                 /\ \A j \in IoHandles : IsOpenHandle(j)' /\ fp'[j].file = fp'[k].file => j = k
      BY <1>0, <3>1, <3>3, <3>6 DEF OneHandle
    <3>7. OneHandle'
      BY <1>0, <3>1, <3>5, <3>6 DEF OneHandle
    <3> QED BY <3>4, <3>7 DEF IoInv
  <2>4. CASE fp[h].file # NULL
    BY <2>1, <2>2, <2>4, CloseKeeps DEF IsOpenHandle
  <2> QED BY <2>3, <2>4
<1>10. CASE UNCHANGED ioVars
  BY <1>0a, <1>0b, <1>10 DEF ioVars
<1> QED
  BY <1>1, <1>2, <1>3, <1>4, <1>5, <1>6, <1>7, <1>8, <1>9, <1>10 DEF IoNext

LEMMA IoInvInit ==
  ASSUME IoInit
  PROVE  IoInv
<1>1. /\ fp = [h \in IoHandles |-> IF h \in DOMAIN StdFile
                 THEN [file |-> StdFile[h], env |-> "noclose", known |-> TRUE] ELSE NULL]
      /\ file = [x \in Files |-> IF \E h \in DOMAIN StdFile : StdFile[h] = x
                                THEN "std" ELSE "closed"]
      /\ lines = {} /\ misused = FALSE
  BY DEF IoInit
<1>2. IoTypeOK
  <2>1. fp \in [IoHandles -> HandleSet \cup {NULL}]
    BY <1>1, IoAssumption DEF HandleSet
  <2>2. file \in [Files -> {"std", "file", "pipe", "closed"}]
    BY <1>1
  <2> QED BY <1>1, <2>1, <2>2 DEF IoTypeOK
<1>3. ASSUME NEW h \in IoHandles, IsOpenHandle(h)
      PROVE  h \in DOMAIN StdFile /\ fp[h].file = StdFile[h] /\ fp[h].env = "noclose"
  BY <1>1, <1>3 DEF IsOpenHandle
<1>4. \A h \in DOMAIN StdFile : file[StdFile[h]] = "std"
  BY <1>1, IoAssumption
<1>5. \A x \in Files : file[x] \notin {"file", "pipe"}
  BY <1>1
<1>6. \A h \in IoHandles : IsOpenHandle(h) =>
        /\ file[fp[h].file] = CloserOf(fp[h].env)
        /\ \A k \in IoHandles : IsOpenHandle(k) /\ fp[k].file = fp[h].file => k = h
  BY <1>3, <1>4, IoAssumption DEF CloserOf
<1>7. OneHandle
  BY <1>1, <1>4, <1>5, <1>6 DEF OneHandle
<1> QED BY <1>2, <1>7 DEF IoInv

\* FilesHaveOneHandle: for any files, handles and iterators, in whichever order they
\* are opened, made a default, closed, read to their end, dropped and collected.
THEOREM HandlesOwnFiles == IoSpec => []FilesHaveOneHandle
<1>1. IoInit => IoInv
  BY IoInvInit
<1>2. IoInv /\ [IoNext]_ioVars => IoInv'
  BY IoStep
<1>3. IoInv => FilesHaveOneHandle
  <2>1. SUFFICES ASSUME IoInv PROVE FilesHaveOneHandle
    OBVIOUS
  <2>2. ASSUME NEW x \in Files, file[x] \in {"file", "pipe"}
        PROVE  Cardinality({h \in IoHandles : fp[h] # NULL /\ fp[h].file = x}) = 1
    <3>1. PICK h \in IoHandles : IsOpenHandle(h) /\ fp[h].file = x
      BY <2>1, <2>2 DEF IoInv, OneHandle
    <3>2. x # NULL
      BY IoAssumption
    <3>3. \A k \in IoHandles : fp[k] # NULL /\ fp[k].file = x <=> k = h
      BY <2>1, <3>1, <3>2 DEF IoInv, OneHandle, IsOpenHandle
    <3>4. {k \in IoHandles : fp[k] # NULL /\ fp[k].file = x} = {h}
      BY <3>3
    <3> QED BY <3>4, FS_Singleton
  <2> QED BY <2>1, <2>2 DEF FilesHaveOneHandle, IoInv, OneHandle
<1> QED BY <1>1, <1>2, <1>3, PTL DEF IoSpec

\* The end of the line that a position is in.
LEMMA Next0Facts ==
  ASSUME NEW p \in 0 .. Len(Line)
  PROVE  /\ Next0(p) \in p + 1 .. Len(Line) + 1
         /\ \A j \in p + 1 .. Next0(p) - 1 : Line[j] # 0
         /\ Next0(p) <= Len(Line) => Line[Next0(p)] = 0
<1>l. Len(Line) \in Nat
  BY LineAssumption
<1>1. CASE ~ \E i \in p + 1 .. Len(Line) : Line[i] = 0
  <2>1. Next0(p) = Len(Line) + 1
    BY <1>1 DEF Next0
  <2> QED BY <2>1, <1>1, <1>l
<1>2. CASE \E i \in p + 1 .. Len(Line) : Line[i] = 0
  <2> DEFINE Z == { i \in p + 1 .. Len(Line) : Line[i] = 0 }
  <2>1. Z \in SUBSET Nat /\ Z # {}
    BY <1>2, <1>l
  <2>2. PICK z \in Z : \A j \in Z : z <= j
    BY <2>1, LeastNat
  <2>3. z \in p + 1 .. Len(Line) /\ Line[z] = 0 /\ \A j \in p + 1 .. z - 1 : Line[j] # 0
    BY <2>2, <1>l
  <2>4. Next0(p) = CHOOSE i \in p + 1 .. Len(Line) : Line[i] = 0 /\ \A j \in p + 1 .. i - 1 : Line[j] # 0
    BY <1>2 DEF Next0
  <2>5. Next0(p) \in p + 1 .. Len(Line) /\ Line[Next0(p)] = 0
        /\ \A j \in p + 1 .. Next0(p) - 1 : Line[j] # 0
    BY <2>3, <2>4
  <2> QED BY <2>5, <1>l
<1> QED BY <1>1, <1>2

\* No line ends between a position and the end of its line.
LEMMA Next0Same ==
  ASSUME NEW p \in 0 .. Len(Line), NEW e \in p .. Next0(p) - 1
  PROVE  e \in 0 .. Len(Line) /\ Next0(e) = Next0(p)
<1>1. Len(Line) \in Nat
  BY LineAssumption
<1>2. /\ Next0(p) \in p + 1 .. Len(Line) + 1
      /\ \A j \in p + 1 .. Next0(p) - 1 : Line[j] # 0
      /\ Next0(p) <= Len(Line) => Line[Next0(p)] = 0
  BY Next0Facts
<1>3. e \in 0 .. Len(Line)
  BY <1>1, <1>2
<1>4. /\ Next0(e) \in e + 1 .. Len(Line) + 1
      /\ \A j \in e + 1 .. Next0(e) - 1 : Line[j] # 0
      /\ Next0(e) <= Len(Line) => Line[Next0(e)] = 0
  BY <1>3, Next0Facts
<1>5. ~ (Next0(e) < Next0(p)) /\ ~ (Next0(p) < Next0(e))
  BY <1>1, <1>2, <1>3, <1>4
<1> QED BY <1>1, <1>2, <1>3, <1>4, <1>5

\* However often the buffer is filled, read_line returns the line.
LEMMA LineRead ==
  ASSUME NEW p \in 0 .. Len(Line)
  PROVE  /\ read_line(p).val = SubSeq(Line, p + 1, Next0(p) - 1)
         /\ read_line(p).end \in 0 .. Len(Line)
<1> DEFINE size == Len(Line)
           piece(q) == SubSeq(Line, q + 1, Smaller(Smaller(q + LUAL_BUFFERSIZE - 1, Next0(q)), size))
           step(q, f) == LET s == piece(q) IN
             IF s = <<>> THEN <<>>
             ELSE IF s[Len(s)] = 0 THEN SubSeq(s, 1, Len(s) - 1)
             ELSE s \o f[q + Len(s)]
           Reads(f) == f = [q \in p .. size |-> step(q, f)]
           from == CHOOSE f : Reads(f)
           rest(q) == SubSeq(Line, q + 1, Next0(q) - 1)
           g == [q \in p .. size |-> rest(q)]
<1>l. size \in Nat /\ Line \in Seq(Nat) /\ size = Len(Line)
      /\ LUAL_BUFFERSIZE \in Nat /\ LUAL_BUFFERSIZE >= 2
      /\ \A i \in 1 .. size : Line[i] \in Nat
  BY LineAssumption
<1>0. read_line(p) = [val |-> from[p], end |-> Smaller(Next0(p), size)]
  BY DEF read_line
<1> HIDE DEF from
<1> HIDE DEF size
<1>1. ASSUME NEW q \in p .. size
      PROVE  \/ piece(q) = <<>> /\ rest(q) = <<>>
             \/ /\ piece(q) # <<>> /\ piece(q)[Len(piece(q))] = 0
                /\ SubSeq(piece(q), 1, Len(piece(q)) - 1) = rest(q)
             \/ /\ piece(q) # <<>> /\ piece(q)[Len(piece(q))] # 0
                /\ q + Len(piece(q)) \in q + 1 .. size
                /\ rest(q) = piece(q) \o rest(q + Len(piece(q)))
  <2>0. q \in 0 .. size /\ q \in Nat
    BY <1>l
  <2>1. PICK e : e = Smaller(Smaller(q + LUAL_BUFFERSIZE - 1, Next0(q)), size)
    OBVIOUS
  <2>2. PICK z : z = Next0(q)
    OBVIOUS
  <2>3. /\ z \in q + 1 .. size + 1
        /\ \A j \in q + 1 .. z - 1 : Line[j] # 0
        /\ z <= size => Line[z] = 0
    BY <2>0, <2>2, <1>l, Next0Facts
  <2>4. piece(q) = SubSeq(Line, q + 1, e) /\ rest(q) = SubSeq(Line, q + 1, z - 1)
    BY <2>1, <2>2
  <2>5. CASE q = size
    <3>1. e = q /\ z = size + 1
      BY <2>1, <2>2, <2>3, <2>5, <1>l DEF Smaller
    <3>2. SubSeq(Line, q + 1, e) = <<>> /\ SubSeq(Line, q + 1, z - 1) = <<>>
      BY <3>1, <2>5, <1>l, SubSeqEmpty
    <3> QED BY <3>2, <2>4
  <2>6. CASE q # size
    <3>1. e \in q + 1 .. size /\ e <= z
      BY <2>0, <2>1, <2>2, <2>3, <2>6, <1>l DEF Smaller
    <3>2. PICK s : s = piece(q)
      OBVIOUS
    <3>3. s \in Seq(Nat) /\ Len(s) = e - q /\ s[e - q] = Line[e] /\ s # <<>>
      <4>1. \A i \in q + 1 .. e : Line[i] \in Nat
        BY <3>1, <2>0, <1>l
      <4>2. q + 1 \in Int /\ e \in Int /\ q + 1 <= e
        BY <3>1, <2>0
      <4>p. PICK m : m = q + 1
        OBVIOUS
      <4>q. m \in Int /\ e \in Int /\ \A i \in m .. e : Line[i] \in Nat
        BY <4>1, <4>2, <4>p
      <4>r. /\ SubSeq(Line, m, e) \in Seq(Nat)
            /\ Len(SubSeq(Line, m, e)) = IF m <= e THEN e - m + 1 ELSE 0
            /\ \A i \in 1 .. e - m + 1 : SubSeq(Line, m, e)[i] = Line[m + i - 1]
        <5> QED BY <4>q, SubSeqProperties
      <4>s. s = SubSeq(Line, m, e)
        BY <4>p, <3>2, <2>4
      <4>3. /\ s \in Seq(Nat) /\ Len(s) = e - (q + 1) + 1
            /\ \A i \in 1 .. e - (q + 1) + 1 : s[i] = Line[q + 1 + i - 1]
        BY <4>2, <4>p, <4>r, <4>s
      <4>4. Len(s) = e - q /\ e - q \in 1 .. e - (q + 1) + 1 /\ q + 1 + (e - q) - 1 = e
        BY <4>2, <4>3, <2>0
      <4>5. s[e - q] = Line[e]
        BY <4>3, <4>4
      <4>6. s # <<>>
        BY <4>2, <4>4, <2>0
      <4> QED BY <4>3, <4>4, <4>5, <4>6
    <3>4. CASE e = z
      <4>1. s[Len(s)] = 0
        BY <3>1, <3>3, <3>4, <2>3
      <4>2. SubSeq(s, 1, Len(s) - 1) = rest(q)
        <5>1. CASE e = q + 1
          <6>1. SubSeq(s, 1, Len(s) - 1) = <<>>
            BY <5>1, <3>3, <2>0, SubSeqEmpty
          <6>2. SubSeq(Line, q + 1, z - 1) = <<>>
            BY <5>1, <3>4, <2>0, SubSeqEmpty
          <6> QED BY <6>1, <6>2, <2>4
        <5>2. CASE e # q + 1
          <6>1. /\ q + 1 \in 1 .. Len(Line) /\ e \in 1 .. Len(Line)
                /\ 1 \in 1 .. e - (q + 1) + 1 /\ Len(s) - 1 \in 1 .. e - (q + 1) + 1
            BY <5>2, <3>1, <3>3, <2>0, <1>l
          <6>2. SubSeq(SubSeq(Line, q + 1, e), 1, Len(s) - 1)
                  = SubSeq(Line, q + 1 + 1 - 1, q + 1 + (Len(s) - 1) - 1)
            BY <6>1, <1>l, SubSeqOfSubSeq
          <6>3. q + 1 + 1 - 1 = q + 1 /\ q + 1 + (Len(s) - 1) - 1 = z - 1
            BY <3>1, <3>3, <3>4, <2>0
          <6> QED BY <6>2, <6>3, <3>2, <2>4
        <5> QED BY <5>1, <5>2
      <4> QED BY <4>1, <4>2, <3>2, <3>3
    <3>5. CASE e # z
      <4>1. e \in q .. z - 1 /\ Line[e] # 0
        BY <3>1, <3>5, <2>0, <2>3
      <4>2. Next0(e) = z
        BY <4>1, <2>0, <2>2, <1>l, Next0Same DEF size
      <4>3. SubSeq(Line, q + 1, e) \o SubSeq(Line, e + 1, z - 1) = SubSeq(Line, q + 1, z - 1)
        <5>1. q + 1 \in 1 .. Len(Line) + 1 /\ e \in (q + 1) - 1 .. Len(Line) /\ z - 1 \in e .. Len(Line)
          BY <4>1, <3>1, <2>0, <2>3, <1>l
        <5> QED BY <5>1, <1>l, ConcatAdjacentSubSeq
      <4>4. q + Len(s) = e
        BY <3>1, <3>3, <2>0
      <4>5. s[Len(s)] # 0
        BY <3>3, <4>1
      <4>6. rest(q + Len(s)) = SubSeq(Line, e + 1, z - 1)
        BY <4>2, <4>4
      <4> HIDE DEF rest, piece
      <4> QED BY <4>3, <4>4, <4>5, <4>6, <3>1, <3>2, <3>3, <2>4
    <3> QED BY <3>4, <3>5
  <2> QED BY <2>5, <2>6
<1> HIDE DEF piece, rest
<1>2. ASSUME NEW q \in p .. size, NEW f, \A r \in q + 1 .. size : f[r] = rest(r)
      PROVE  step(q, f) = rest(q)
  BY <1>1, <1>2
<1>3. Reads(g)
  <2>1. ASSUME NEW q \in p .. size PROVE step(q, g) = rest(q)
    <3>1. \A r \in q + 1 .. size : g[r] = rest(r)
      BY <1>l
    <3> HIDE DEF g, step
    <3> QED BY <3>1, <1>2
  <2> HIDE DEF step
  <2> QED BY <2>1
<1>4. Reads(from)
  <2> HIDE DEF Reads
  <2> QED BY <1>3 DEF from
<1>5. \A q \in p .. size : from[q] = step(q, from)
  <2> HIDE DEF step
  <2> QED BY <1>4
<1> HIDE DEF step, Reads, g
<1> DEFINE T == { k \in Nat : k <= size - p => from[size - k] = rest(size - k) }
<1>6. ASSUME NEW k \in Nat, \A m \in 0 .. k - 1 : m \in T PROVE k \in T
  <2> SUFFICES ASSUME k <= size - p PROVE from[size - k] = rest(size - k)
    OBVIOUS
  <2>1. size - k \in p .. size
    BY <1>l
  <2>2. ASSUME NEW r \in (size - k) + 1 .. size PROVE from[r] = rest(r)
    <3>1. size - r \in 0 .. k - 1 /\ size - (size - r) = r /\ size - r <= size - p
      BY <1>l
    <3> QED BY <3>1, <1>6
  <2>3. step(size - k, from) = rest(size - k)
    BY <2>1, <2>2, <1>2
  <2> QED BY <2>1, <2>3, <1>5
<1>7. from[p] = rest(p)
  <2> HIDE DEF T
  <2>1. \A k \in Nat : k \in T
    BY <1>6, StrongInduct
  <2>2. size - p \in Nat /\ size - (size - p) = p /\ size - p <= size - p
    BY <1>l
  <2> QED BY <2>1, <2>2 DEF T
<1>8. Smaller(Next0(p), size) \in 0 .. size
  <2>1. Next0(p) \in p + 1 .. size + 1
    BY Next0Facts, <1>l DEF size
  <2> QED BY <2>1, <1>l DEF Smaller
<1>9. rest(p) = SubSeq(Line, p + 1, Next0(p) - 1)
  BY DEF rest
<1>10. read_line(p).val = from[p] /\ read_line(p).end = Smaller(Next0(p), size)
  BY <1>0
<1> HIDE DEF rest
<1> QED BY <1>7, <1>8, <1>9, <1>10 DEF size

\* A buffer at a time, read_chars returns the characters asked for that there are.
LEMMA CharsRead ==
  ASSUME NEW p \in 0 .. Len(Line), NEW n \in Nat
  PROVE  /\ read_chars(p, n) = SubSeq(Line, p + 1, Smaller(p + n, Len(Line)))
         /\ p + Len(read_chars(p, n)) \in 0 .. Len(Line)
<1> DEFINE size == Len(Line)
           rlen(left) == Smaller(LUAL_BUFFERSIZE, left)
           at(left) == p + n - left
           nr(left) == IF at(left) >= size THEN 0 ELSE Smaller(rlen(left), size - at(left))
           s(left) == SubSeq(Line, at(left) + 1, at(left) + nr(left))
           step(left, f) == IF left > nr(left) /\ nr(left) = rlen(left)
                            THEN s(left) \o f[left - nr(left)] ELSE s(left)
           Reads(f) == f = [left \in 0 .. n |-> step(left, f)]
           from == CHOOSE f : Reads(f)
           rest(left) == SubSeq(Line, at(left) + 1, Smaller(p + n, size))
           g == [left \in 0 .. n |-> rest(left)]
<1>l. size \in Nat /\ Line \in Seq(Nat) /\ size = Len(Line)
      /\ LUAL_BUFFERSIZE \in Nat /\ LUAL_BUFFERSIZE >= 2
      /\ \A i \in 1 .. size : Line[i] \in Nat
  BY LineAssumption
<1>0. read_chars(p, n) = from[n]
  BY DEF read_chars
<1> HIDE DEF from
<1> HIDE DEF size
<1>1. ASSUME NEW left \in 0 .. n
      PROVE  \/ /\ left > nr(left) /\ nr(left) = rlen(left) /\ left - nr(left) \in 0 .. left - 1
                /\ rest(left) = s(left) \o rest(left - nr(left))
             \/ ~ (left > nr(left) /\ nr(left) = rlen(left)) /\ rest(left) = s(left)
  <2>1. PICK q, d, r : q = at(left) /\ d = nr(left) /\ r = rlen(left)
    OBVIOUS
  <2>2. q \in Nat /\ q = p + n - left
    BY <2>1, <1>l
  <2>3. r \in 0 .. left /\ (left > 0 => r > 0) /\ (r = left \/ r = LUAL_BUFFERSIZE)
    BY <2>1, <1>l DEF Smaller
  <2>4. d = IF q >= size THEN 0 ELSE Smaller(r, size - q)
    BY <2>1
  <2>5. s(left) = SubSeq(Line, q + 1, q + d) /\ rest(left) = SubSeq(Line, q + 1, Smaller(p + n, size))
    BY <2>1
  <2>6. CASE q >= size
    <3>1. d = 0 /\ Smaller(p + n, size) = size
      BY <2>2, <2>4, <2>6, <1>l DEF Smaller
    <3>2. ~ (left > d /\ d = r)
      BY <3>1, <2>3
    <3>3. SubSeq(Line, q + 1, q + d) = <<>> /\ SubSeq(Line, q + 1, size) = <<>>
      BY <3>1, <2>2, <2>6, <1>l, SubSeqEmpty
    <3> QED BY <3>1, <3>2, <3>3, <2>1, <2>5
  <2>7. CASE q < size /\ left > d /\ d = r
    <3>1. d \in 1 .. left /\ q + d <= size /\ q + d <= p + n
      <4>1. d = Smaller(r, size - q) /\ d = r /\ r \in Nat /\ size - q \in Nat /\ size - q > 0
        BY <2>2, <2>3, <2>4, <2>7, <1>l
      <4>2. r <= size - q
        BY <4>1 DEF Smaller
      <4>3. left > 0 /\ left \in Nat
        BY <4>1, <2>7
      <4> QED BY <4>1, <4>2, <4>3, <2>2, <2>3, <1>l
    <3>2. at(left - d) = q + d
      BY <3>1, <2>2, <1>l
    <3>3. Smaller(p + n, size) \in q + d .. size
      BY <3>1, <2>2, <1>l DEF Smaller
    <3>4. SubSeq(Line, q + 1, q + d) \o SubSeq(Line, q + d + 1, Smaller(p + n, size))
            = SubSeq(Line, q + 1, Smaller(p + n, size))
      <4>1. /\ q + 1 \in 1 .. Len(Line) + 1 /\ q + d \in (q + 1) - 1 .. Len(Line)
            /\ Smaller(p + n, size) \in q + d .. Len(Line)
        BY <3>1, <3>3, <2>2, <2>7, <1>l
      <4> QED BY <4>1, <1>l, ConcatAdjacentSubSeq
    <3>5. rest(left - d) = SubSeq(Line, q + d + 1, Smaller(p + n, size))
      BY <3>2
    <3>6. left - d \in 0 .. left - 1
      BY <3>1
    <3> HIDE DEF at, rest, s, nr, rlen
    <3> QED BY <3>4, <3>5, <3>6, <2>1, <2>5, <2>7
  <2>8. CASE q < size /\ ~ (left > d /\ d = r)
    <3>1. q + d = Smaller(p + n, size)
      <4>1. d = Smaller(r, size - q) /\ r \in Nat /\ size - q \in Nat /\ size - q > 0
        BY <2>2, <2>3, <2>4, <2>8, <1>l
      <4>2. (d = r /\ r <= size - q) \/ (d = size - q /\ size - q < r)
        BY <4>1 DEF Smaller
      <4>3. CASE d = r /\ r <= size - q
        <5>1. r = left
          BY <4>3, <4>1, <2>3, <2>8
        <5>2. q + d = p + n /\ p + n <= size
          BY <5>1, <4>3, <4>1, <2>2, <1>l
        <5>3. Smaller(p + n, size) = p + n
          BY <5>2, <2>2, <1>l DEF Smaller
        <5> QED BY <5>2, <5>3
      <4>4. CASE d = size - q /\ size - q < r
        <5>1. q + d = size /\ size < p + n
          BY <4>4, <4>1, <2>2, <2>3, <1>l
        <5>2. Smaller(p + n, size) = size
          BY <5>1, <2>2, <1>l DEF Smaller
        <5> QED BY <5>1, <5>2
      <4> QED BY <4>2, <4>3, <4>4
    <3> QED BY <3>1, <2>1, <2>5, <2>8
  <2>9. q >= size \/ q < size
    BY <2>2, <1>l
  <2> HIDE DEF at, rest, s, nr, rlen
  <2> QED BY <2>6, <2>7, <2>8, <2>9
<1> HIDE DEF s, rest, nr, rlen
<1>2. ASSUME NEW left \in 0 .. n, NEW f, \A r \in 0 .. left - 1 : f[r] = rest(r)
      PROVE  step(left, f) = rest(left)
  BY <1>1, <1>2
<1>3. Reads(g)
  <2>1. ASSUME NEW left \in 0 .. n PROVE step(left, g) = rest(left)
    <3>1. \A r \in 0 .. left - 1 : g[r] = rest(r)
      OBVIOUS
    <3> HIDE DEF g, step
    <3> QED BY <3>1, <1>2
  <2> HIDE DEF step
  <2> QED BY <2>1
<1>4. Reads(from)
  <2> HIDE DEF Reads
  <2> QED BY <1>3 DEF from
<1>5. \A left \in 0 .. n : from[left] = step(left, from)
  <2> HIDE DEF step
  <2> QED BY <1>4
<1> HIDE DEF step, Reads, g
<1> DEFINE T == { k \in Nat : k <= n => from[k] = rest(k) }
<1>6. ASSUME NEW k \in Nat, \A m \in 0 .. k - 1 : m \in T PROVE k \in T
  <2> SUFFICES ASSUME k <= n PROVE from[k] = rest(k)
    OBVIOUS
  <2>1. k \in 0 .. n /\ \A r \in 0 .. k - 1 : from[r] = rest(r)
    BY <1>6
  <2>3. step(k, from) = rest(k)
    BY <2>1, <1>2
  <2> QED BY <2>1, <2>3, <1>5
<1>7. from[n] = rest(n)
  <2> HIDE DEF T
  <2>1. \A k \in Nat : k \in T
    BY <1>6, StrongInduct
  <2> QED BY <2>1 DEF T
<1>8. rest(n) = SubSeq(Line, p + 1, Smaller(p + n, size))
  <2>1. p + n - n = p
    BY <1>l
  <2> QED BY <2>1 DEF rest
<1>9. p + Len(rest(n)) \in 0 .. size
  <2>1. PICK e : e = Smaller(p + n, size)
    OBVIOUS
  <2>2. e \in p .. size
    BY <2>1, <1>l DEF Smaller, size
  <2>3. \A i \in p + 1 .. e : Line[i] \in Nat
    BY <2>2, <1>l
  <2>4. p \in Nat /\ e \in Nat
    BY <2>2, <1>l
  <2>5. Len(SubSeq(Line, p + 1, e)) = IF p + 1 <= e THEN e - (p + 1) + 1 ELSE 0
    BY <2>3, <2>4, SubSeqProperties
  <2> QED BY <2>1, <2>2, <2>4, <2>5, <1>8, <1>l
<1> QED BY <1>0, <1>7, <1>8, <1>9 DEF size

\* Every position is in its file, and no read has returned anything else.
ReadInv == offset \in [Files -> 0 .. Len(Line)] /\ ~misread

\* No step leads a file past its end, or reads anything else.
LEMMA ReadStep ==
  ASSUME IoInv, ReadInv, [IoNext]_ioVars
  PROVE  ReadInv'
<1>l. Len(Line) \in Nat
  BY LineAssumption
<1>0. /\ offset \in [Files -> 0 .. Len(Line)] /\ misread = FALSE
      /\ \A x \in Files : offset[x] \in 0 .. Len(Line)
  BY DEF ReadInv
<1>1. ASSUME UNCHANGED <<offset, misread>> PROVE ReadInv'
  BY <1>1 DEF ReadInv
<1>2. ASSUME NEW x, NEW v \in 0 .. Len(Line), offset' = [offset EXCEPT ![x] = v], misread' = FALSE
      PROVE  ReadInv'
  BY <1>0, <1>2 DEF ReadInv
<1>3. ASSUME NEW h, NEW x, NEW env, NEW known, Opened(h, x, env, known), misread' = misread
      PROVE  ReadInv'
  <2>1. offset' = [offset EXCEPT ![x] = 0] /\ misread' = FALSE /\ 0 \in 0 .. Len(Line)
    BY <1>0, <1>3, <1>l DEF Opened
  <2> QED BY <2>1, <1>2
<1>4. CASE io_open \/ io_popen
  BY <1>3, <1>4 DEF io_open, io_popen
<1>5. CASE g_iofile
  BY <1>1, <1>3, <1>5 DEF g_iofile
<1>6. CASE io_lines
  BY <1>1, <1>3, <1>6 DEF io_lines
<1>7. CASE io_close \/ Drop \/ io_gc
  BY <1>1, <1>7 DEF io_close, Drop, io_gc
<1>8. CASE f_seek
  BY <1>0, <1>2, <1>8 DEF f_seek
<1>9. CASE io_read
  <2>1. PICK h \in IoHandles : IsOpenHandle(h) /\ g_read(h)
    BY <1>9 DEF io_read
  <2>2. PICK x, p : x = fp[h].file /\ p = offset[x]
    OBVIOUS
  <2>3. x \in Files /\ p \in 0 .. Len(Line)
    BY <1>0, <2>1, <2>2, OpenFacts DEF IoInv
  <2>4. CASE /\ offset' = [offset EXCEPT ![x] = read_line(p).end]
             /\ misread' = (misread \/ read_line(p).val # SubSeq(Line, p + 1, Next0(p) - 1))
    <3>1. /\ read_line(p).val = SubSeq(Line, p + 1, Next0(p) - 1)
          /\ read_line(p).end \in 0 .. Len(Line)
      BY <2>3, LineRead
    <3>2. misread' = FALSE
      BY <1>0, <2>4, <3>1
    <3> QED BY <2>4, <3>1, <3>2, <1>2
  <2>5. ASSUME NEW n \in 0 .. Len(Line) + 1,
               offset' = [offset EXCEPT ![x] = p + Len(read_chars(p, n))],
               misread' = (misread \/ read_chars(p, n) # SubSeq(Line, p + 1, Smaller(p + n, Len(Line))))
        PROVE  ReadInv'
    <3>1. /\ read_chars(p, n) = SubSeq(Line, p + 1, Smaller(p + n, Len(Line)))
          /\ p + Len(read_chars(p, n)) \in 0 .. Len(Line)
      BY <2>3, CharsRead
    <3>2. misread' = FALSE
      BY <1>0, <2>5, <3>1
    <3> QED BY <2>5, <3>1, <3>2, <1>2
  <2> QED BY <2>1, <2>2, <2>4, <2>5 DEF g_read
<1>10. CASE io_readline
  <2>1. PICK l \in lines :
          /\ IsOpenHandle(l.handle)
          /\ offset' = [offset EXCEPT ![fp[l.handle].file] = read_line(offset[fp[l.handle].file]).end]
               \/ UNCHANGED offset
    BY <1>10 DEF io_readline
  <2>2. misread' = misread
    BY <1>10 DEF io_readline
  <2>3. l.handle \in IoHandles
    BY DEF IoInv, IoTypeOK
  <2>4. PICK x, p : x = fp[l.handle].file /\ p = offset[x]
    OBVIOUS
  <2>5. x \in Files /\ p \in 0 .. Len(Line)
    BY <1>0, <2>1, <2>3, <2>4, OpenFacts DEF IoInv
  <2>6. read_line(p).end \in 0 .. Len(Line)
    BY <2>5, LineRead
  <2> QED BY <1>0, <1>1, <1>2, <2>1, <2>2, <2>4, <2>6
<1>11. CASE UNCHANGED ioVars
  BY <1>1, <1>11 DEF ioVars
<1> QED BY <1>4, <1>5, <1>6, <1>7, <1>8, <1>9, <1>10, <1>11 DEF IoNext

\* ReadsAreExact: for any buffer of two characters or more, any text and any
\* sequence of reads, seeks and lines, on whichever handles (liolib.c, read_line and
\* read_chars).
THEOREM ReadsComeExact == IoSpec => []ReadsAreExact
<1>1. IoInit => IoInv /\ ReadInv
  <2>1. IoInit => ReadInv
    BY LineAssumption DEF IoInit, ReadInv
  <2> QED BY <2>1, IoInvInit
<1>2. IoInv /\ ReadInv /\ [IoNext]_ioVars => (IoInv /\ ReadInv)'
  BY IoStep, ReadStep
<1>3. IoInv /\ ReadInv => ReadsAreExact
  BY DEF ReadInv, ReadsAreExact
<1> QED BY <1>1, <1>2, <1>3, PTL DEF IoSpec

(***************************************************************************)
(* StringTables.                                                           *)
(***************************************************************************)

\* What strlen finds, and what it finds of what SetData passes on.
LEMMA TextFacts ==
  ASSUME NEW s \in Seq(Nat)
  PROVE  /\ strlen(s) \in 0..Len(s)
         /\ Text(s) \in Seq(Nat) /\ Zeros(Text(s)) = {}
<1>0. Len(s) \in Nat
  OBVIOUS
<1>1. CASE Zeros(s) = {}
  <2>1. strlen(s) = Len(s)
    BY <1>1 DEF strlen
  <2>2. Text(s) = s
    BY <1>0, <2>1, SubSeqFull DEF Text
  <2> QED BY <1>0, <1>1, <2>1, <2>2
<1>2. CASE Zeros(s) # {}
  <2> DEFINE z == CHOOSE i \in Zeros(s) : \A j \in Zeros(s) : i <= j
  <2>1. Zeros(s) \subseteq 1..Len(s) /\ Zeros(s) \in SUBSET Nat
    BY <1>0 DEF Zeros
  <2>2. \E i \in Zeros(s) : \A j \in Zeros(s) : i <= j
    BY <1>2, <2>1, LeastNat
  <2>3. z \in Zeros(s) /\ \A j \in Zeros(s) : z <= j
    BY <2>2
  <2>4. strlen(s) = z - 1
    BY <1>2 DEF strlen
  <2> HIDE DEF z
  <2>5. z \in 1..Len(s) /\ z - 1 \in 0..Len(s)
    BY <1>0, <2>1, <2>3
  <2>6. /\ Text(s) \in Seq(Nat) /\ Len(Text(s)) = z - 1
        /\ \A i \in 1..z - 1 : Text(s)[i] = s[i]
    <3>1. \A i \in 1..z - 1 : s[i] \in Nat
      BY <1>0, <2>5
    <3>2. Text(s) = SubSeq(s, 1, z - 1)
      BY <2>4 DEF Text
    <3> QED BY <1>0, <2>5, <3>1, <3>2, SubSeqProperties
  <2>7. \A i \in 1..z - 1 : s[i] # 0
    BY <1>0, <2>3, <2>5 DEF Zeros
  <2>8. Zeros(Text(s)) = {}
    BY <2>6, <2>7 DEF Zeros
  <2> QED BY <2>4, <2>5, <2>6, <2>8
<1> QED BY <1>1, <1>2

LEMMA PassedFacts ==
  ASSUME NEW x \in Seq(Nat), Zeros(x) = {}
  PROVE  /\ Append(x, 0) \in Seq(Nat) /\ Len(Append(x, 0)) = Len(x) + 1
         /\ CRead(Append(x, 0)) = x
<1> DEFINE s == Append(x, 0)
<1>1. /\ s \in Seq(Nat) /\ Len(s) = Len(x) + 1 /\ s[Len(x) + 1] = 0
      /\ \A i \in 1..Len(x) : s[i] = x[i]
  BY AppendProperties
<1>2. Len(x) \in Nat
  OBVIOUS
<1> HIDE DEF s
<1>3. Zeros(s) = {Len(x) + 1}
  BY <1>1, <1>2 DEF Zeros
<1>4. strlen(s) = Len(x)
  <2>1. (CHOOSE i \in {Len(x) + 1} : \A j \in {Len(x) + 1} : i <= j) = Len(x) + 1
    BY <1>2
  <2> QED BY <1>2, <1>3, <2>1 DEF strlen
<1>5. Text(s) = x
  <2>1. /\ Text(s) \in Seq(Nat) /\ Len(Text(s)) = Len(x)
        /\ \A i \in 1..Len(x) : Text(s)[i] = s[i]
    <3>1. \A i \in 1..Len(x) : s[i] \in Nat
      BY <1>1, <1>2
    <3>2. Text(s) = SubSeq(s, 1, Len(x))
      BY <1>4 DEF Text
    <3> QED BY <1>1, <1>2, <3>1, <3>2, SubSeqProperties
  <2> QED BY <1>1, <2>1, SeqEqual
<1>6. s # Unset
  <2>1. s[Len(x) + 1] # -1
    BY <1>1
  <2>2. CASE s = Unset
    <3>1. Len(Unset) = 1 /\ Unset[1] = -1
      BY DEF Unset
    <3> QED BY <1>1, <1>2, <2>1, <2>2, <3>1
  <2> QED BY <2>2
<1>7. CRead(s) = Text(s)
  BY <1>3, <1>6 DEF CRead
<1> QED BY <1>1, <1>5, <1>7 DEF s

DataSet == Seq(Nat) \cup {Unset}
RowSet == [name : EntryNames, data : DataSet]

StTypeOK ==
  /\ gotten \subseteq Tables
  /\ rows \in [Tables -> Seq(RowSet)]
  /\ tick \in [Tables -> Nat] /\ lastChanged \in [Tables -> Nat]
  /\ stored \in [Tables \X EntryNames -> DataSet]

\* What a script stored last is there with its 0; else what is there is the engine's,
\* or nothing.
RowAgrees(text, data) ==
  IF text = Unset THEN data = Unset \/ data \in EngineData
  ELSE Zeros(text) = {} /\ data = Append(text, 0)

\* And a name is in a table once.
RowsAgree ==
  \A t \in Tables :
    /\ \A i, j \in 1..Len(rows[t]) : rows[t][i].name = rows[t][j].name => i = j
    /\ \A i \in 1..Len(rows[t]) : RowAgrees(stored[<<t, rows[t][i].name>>], rows[t][i].data)
    /\ \A name \in EntryNames : stored[<<t, name>>] # Unset =>
         \E i \in 1..Len(rows[t]) : rows[t][i].name = name

TicksAgree ==
  \A t \in Tables : lastChanged[t] <= tick[t] /\ (t \in touched <=> lastChanged[t] = tick[t])

StInv == StTypeOK /\ RowsAgree /\ TicksAgree

LEMMA NoData == Unset \notin Seq(Nat) /\ Overrun \notin Seq(Nat) /\ Unset # Overrun
<1>1. Unset[1] = -1 /\ Overrun[1] = -2 /\ Len(Unset) = 1 /\ Len(Overrun) = 1
  BY DEF Unset, Overrun
<1>2. ASSUME NEW x \in Seq(Nat), Len(x) = 1 PROVE x[1] \in Nat
  <2>1. 1 \in 1..Len(x)
    BY <1>2
  <2> QED BY <2>1
<1> QED BY <1>1, <1>2

\* A row gets other data, of a script or of the engine.
LEMMA RowChanges ==
  ASSUME StInv, NEW t \in Tables, NEW i \in Indices(t), NEW d \in DataSet, NEW x \in DataSet,
         RowAgrees(x, d),
         Changes(t, [rows[t] EXCEPT ![i + 1].data = d]),
         stored' = [stored EXCEPT ![<<t, At(t, i).name>>] = x]
  PROVE  StInv'
<1> DEFINE n == i + 1
           row == [rows[t][n] EXCEPT !.data = d]
           name == rows[t][n].name
<1>0. /\ StTypeOK /\ RowsAgree /\ TicksAgree
      /\ rows[t] \in Seq(RowSet) /\ Len(rows[t]) \in Nat /\ n \in 1..Len(rows[t])
  <2>1. rows[t] \in Seq(RowSet)
    BY DEF StInv, StTypeOK
  <2> QED BY <2>1 DEF StInv, Indices
<1>1. /\ rows[t][n] \in RowSet /\ name \in EntryNames
      /\ row \in RowSet /\ row.name = name /\ row.data = d
  <2>1. rows[t][n] \in RowSet
    BY <1>0
  <2> QED BY <2>1 DEF RowSet
<1>2. /\ rows' = [rows EXCEPT ![t] = [rows[t] EXCEPT ![n] = row]]
      /\ lastChanged' = [lastChanged EXCEPT ![t] = tick[t]]
      /\ touched' = touched \cup {t}
      /\ gotten' = gotten /\ tick' = tick
      /\ stored' = [stored EXCEPT ![<<t, name>>] = x]
  BY DEF Changes, At
<1> HIDE DEF n, row, name
<1>3. /\ [rows[t] EXCEPT ![n] = row] \in Seq(RowSet)
      /\ Len([rows[t] EXCEPT ![n] = row]) = Len(rows[t])
      /\ [rows[t] EXCEPT ![n] = row][n] = row
      /\ \A k \in 1..Len(rows[t]) : k # n => [rows[t] EXCEPT ![n] = row][k] = rows[t][k]
  BY <1>0, <1>1
<1>4. /\ rows' \in [Tables -> Seq(RowSet)]
      /\ \A u \in Tables : u # t => rows'[u] = rows[u]
      /\ Len(rows'[t]) = Len(rows[t]) /\ rows'[t][n] = row
      /\ \A k \in 1..Len(rows[t]) : k # n => rows'[t][k] = rows[t][k]
  BY <1>0, <1>2, <1>3 DEF StTypeOK
<1>5. /\ stored' \in [Tables \X EntryNames -> DataSet]
      /\ stored'[<<t, name>>] = x
      /\ \A u \in Tables, m \in EntryNames : ~(u = t /\ m = name) =>
           stored'[<<u, m>>] = stored[<<u, m>>]
  BY <1>0, <1>1, <1>2 DEF StTypeOK
<1>6. \A k \in 1..Len(rows[t]) : rows'[t][k].name = rows[t][k].name
  BY <1>1, <1>4 DEF name
<1>7. \A k \in 1..Len(rows[t]) : rows[t][k].name \in EntryNames /\ (k # n => rows[t][k].name # name)
  <2>1. \A k \in 1..Len(rows[t]) : rows[t][k].name \in EntryNames
    <3>1. \A k \in 1..Len(rows[t]) : rows[t][k] \in RowSet
      BY <1>0
    <3> QED BY <3>1 DEF RowSet
  <2> QED BY <1>0, <2>1 DEF RowsAgree, name
<1>8. StTypeOK'
  BY <1>0, <1>2, <1>4, <1>5 DEF StTypeOK
<1>9. TicksAgree'
  BY <1>0, <1>2 DEF TicksAgree, StTypeOK
<1>10. ASSUME NEW u \in Tables
       PROVE  /\ \A k, j \in 1..Len(rows'[u]) : rows'[u][k].name = rows'[u][j].name => k = j
              /\ \A k \in 1..Len(rows'[u]) : RowAgrees(stored'[<<u, rows'[u][k].name>>], rows'[u][k].data)
              /\ \A m \in EntryNames : stored'[<<u, m>>] # Unset =>
                   \E k \in 1..Len(rows'[u]) : rows'[u][k].name = m
  <2>1. CASE u # t
    <3>1. rows'[u] = rows[u] /\ \A m \in EntryNames : stored'[<<u, m>>] = stored[<<u, m>>]
      BY <1>4, <1>5, <2>1
    <3>2. \A k \in 1..Len(rows[u]) : rows[u][k].name \in EntryNames
      <4>1. rows[u] \in Seq(RowSet)
        BY <1>0 DEF StTypeOK
      <4>2. \A k \in 1..Len(rows[u]) : rows[u][k] \in RowSet
        BY <4>1
      <4> QED BY <4>2 DEF RowSet
    <3> QED BY <1>0, <3>1, <3>2 DEF RowsAgree
  <2>2. CASE u = t
    <3>1. \A k, j \in 1..Len(rows'[t]) : rows'[t][k].name = rows'[t][j].name => k = j
      BY <1>0, <1>4, <1>6 DEF RowsAgree
    <3>2. ASSUME NEW k \in 1..Len(rows'[t])
          PROVE  RowAgrees(stored'[<<t, rows'[t][k].name>>], rows'[t][k].data)
      <4>1. CASE k = n
        BY <1>1, <1>4, <1>5, <4>1
      <4>2. CASE k # n
        <5>1. /\ rows'[t][k] = rows[t][k]
              /\ stored'[<<t, rows[t][k].name>>] = stored[<<t, rows[t][k].name>>]
          BY <1>4, <1>5, <1>7, <3>2, <4>2
        <5> QED BY <1>0, <1>4, <3>2, <5>1 DEF RowsAgree
      <4> QED BY <4>1, <4>2
    <3>3. ASSUME NEW m \in EntryNames, stored'[<<t, m>>] # Unset
          PROVE  \E k \in 1..Len(rows'[t]) : rows'[t][k].name = m
      <4>1. CASE m = name
        BY <1>0, <1>1, <1>4, <4>1
      <4>2. CASE m # name
        <5>1. stored[<<t, m>>] # Unset
          BY <1>5, <3>3, <4>2
        <5>2. PICK k \in 1..Len(rows[t]) : rows[t][k].name = m
          BY <1>0, <5>1 DEF RowsAgree
        <5> QED BY <1>4, <1>6, <5>2
      <4> QED BY <4>1, <4>2
    <3> QED BY <2>2, <3>1, <3>2, <3>3
  <2> QED BY <2>1, <2>2
<1>11. RowsAgree'
  BY <1>10 DEF RowsAgree
<1> QED BY <1>8, <1>9, <1>11 DEF StInv

LEMMA RowAdded ==
  ASSUME StInv, NEW t \in Tables, NEW name \in EntryNames, AddString(t, name)
  PROVE  StInv'
<1> DEFINE row == [name |-> name, data |-> Unset]
<1>0. StTypeOK /\ RowsAgree /\ TicksAgree /\ rows[t] \in Seq(RowSet) /\ Len(rows[t]) \in Nat
  <2>1. rows[t] \in Seq(RowSet)
    BY DEF StInv, StTypeOK
  <2> QED BY <2>1 DEF StInv
<1>1. /\ rows' = [rows EXCEPT ![t] = Append(rows[t], row)]
      /\ lastChanged' = [lastChanged EXCEPT ![t] = tick[t]]
      /\ touched' = touched \cup {t}
      /\ gotten' = gotten /\ tick' = tick /\ stored' = stored
      /\ \A i \in 0..Len(rows[t]) - 1 : rows[t][i + 1].name # name
  BY DEF AddString, Changes, Indices, At
<1>2. row \in RowSet /\ row.name = name /\ row.data = Unset
  BY DEF RowSet, DataSet
<1> HIDE DEF row
<1>3. \A k \in 1..Len(rows[t]) : rows[t][k].name # name
  <2>1. \A k \in 1..Len(rows[t]) : k - 1 \in 0..Len(rows[t]) - 1 /\ (k - 1) + 1 = k
    BY <1>0
  <2> QED BY <1>1, <2>1
<1>4. /\ Append(rows[t], row) \in Seq(RowSet) /\ Len(Append(rows[t], row)) = Len(rows[t]) + 1
      /\ Append(rows[t], row)[Len(rows[t]) + 1] = row
      /\ \A k \in 1..Len(rows[t]) : Append(rows[t], row)[k] = rows[t][k]
  BY <1>0, <1>2, AppendProperties
<1>5. /\ rows' \in [Tables -> Seq(RowSet)]
      /\ \A u \in Tables : u # t => rows'[u] = rows[u]
      /\ rows'[t] = Append(rows[t], row)
  BY <1>0, <1>1, <1>4 DEF StTypeOK
<1>6. stored[<<t, name>>] = Unset
  BY <1>0, <1>3 DEF RowsAgree
<1>7. StTypeOK'
  BY <1>0, <1>1, <1>5 DEF StTypeOK
<1>8. TicksAgree'
  BY <1>0, <1>1 DEF TicksAgree, StTypeOK
<1>9. ASSUME NEW u \in Tables
      PROVE  /\ \A k, j \in 1..Len(rows'[u]) : rows'[u][k].name = rows'[u][j].name => k = j
             /\ \A k \in 1..Len(rows'[u]) : RowAgrees(stored'[<<u, rows'[u][k].name>>], rows'[u][k].data)
             /\ \A m \in EntryNames : stored'[<<u, m>>] # Unset =>
                  \E k \in 1..Len(rows'[u]) : rows'[u][k].name = m
  <2>1. CASE u # t
    BY <1>0, <1>1, <1>5, <2>1 DEF RowsAgree
  <2>2. CASE u = t
    <3>1. \A k \in 1..Len(rows[t]) + 1 : k \in 1..Len(rows[t]) \/ k = Len(rows[t]) + 1
      BY <1>0
    <3>2. \A k \in 1..Len(rows'[t]) :
            \/ k \in 1..Len(rows[t]) /\ rows'[t][k] = rows[t][k]
            \/ k = Len(rows[t]) + 1 /\ rows'[t][k] = row
      BY <1>4, <1>5, <3>1
    <3>3. ASSUME NEW k \in 1..Len(rows'[t]), NEW j \in 1..Len(rows'[t]),
                 rows'[t][k].name = rows'[t][j].name
          PROVE  k = j
      <4>1. row.name = name /\ \A a, b \in 1..Len(rows[t]) : rows[t][a].name = rows[t][b].name => a = b
        BY <1>0, <1>2 DEF RowsAgree
      <4>2. CASE k \in 1..Len(rows[t]) /\ j \in 1..Len(rows[t])
        BY <3>2, <3>3, <4>1, <4>2, <1>4, <1>5
      <4>3. CASE k \in 1..Len(rows[t]) /\ j = Len(rows[t]) + 1
        BY <1>3, <3>3, <4>1, <4>3, <1>4, <1>5
      <4>4. CASE k = Len(rows[t]) + 1 /\ j \in 1..Len(rows[t])
        BY <1>3, <3>3, <4>1, <4>4, <1>4, <1>5
      <4> QED BY <3>2, <4>2, <4>3, <4>4
    <3>4. ASSUME NEW k \in 1..Len(rows'[t])
          PROVE  RowAgrees(stored'[<<t, rows'[t][k].name>>], rows'[t][k].data)
      <4>1. CASE k \in 1..Len(rows[t]) /\ rows'[t][k] = rows[t][k]
        BY <1>0, <1>1, <4>1 DEF RowsAgree
      <4>2. CASE k = Len(rows[t]) + 1 /\ rows'[t][k] = row
        BY <1>1, <1>2, <1>6, <4>2 DEF RowAgrees
      <4> QED BY <3>2, <4>1, <4>2
    <3>5. ASSUME NEW m \in EntryNames, stored'[<<t, m>>] # Unset
          PROVE  \E k \in 1..Len(rows'[t]) : rows'[t][k].name = m
      <4>1. PICK k \in 1..Len(rows[t]) : rows[t][k].name = m
        BY <1>0, <1>1, <3>5 DEF RowsAgree
      <4>2. k \in 1..Len(rows'[t])
        BY <1>0, <1>4, <1>5
      <4> QED BY <1>4, <1>5, <4>1, <4>2
    <3> QED BY <2>2, <3>3, <3>4, <3>5
  <2> QED BY <2>1, <2>2
<1>10. RowsAgree'
  BY <1>9 DEF RowsAgree
<1> QED BY <1>7, <1>8, <1>10 DEF StInv

LEMMA StStep ==
  ASSUME StInv, [StNext]_stVars
  PROVE  StInv'
<1>0. StTypeOK /\ RowsAgree /\ TicksAgree
  BY DEF StInv
<1>1. ASSUME NEW t \in Tables, StNew(t)
      PROVE  StInv'
  BY <1>0, <1>1 DEF StNew, StInv, StTypeOK, RowsAgree, TicksAgree
<1>2. ASSUME NEW t \in Tables, NEW name \in EntryNames, AddString(t, name)
      PROVE  StInv'
  BY <1>2, RowAdded
<1>3. ASSUME NEW t \in Tables, NEW i \in Indices(t), NEW s \in ScriptData, SetData(t, i, s)
      PROVE  StInv'
  <2>1. Text(s) \in Seq(Nat) /\ Zeros(Text(s)) = {}
    BY StAssumption, TextFacts
  <2>2. Text(s) \in DataSet /\ Text(s) # Unset
    BY <2>1, NoData DEF DataSet
  <2>3. Passed(s) = Append(Text(s), 0) /\ Passed(s) \in DataSet
    BY <2>1, PassedFacts DEF Passed, DataSet
  <2>4. RowAgrees(Text(s), Passed(s))
    BY <2>1, <2>2, <2>3 DEF RowAgrees
  <2> QED BY <1>3, <2>2, <2>3, <2>4, RowChanges DEF SetData
<1>4. ASSUME NEW t \in Tables, NEW i \in Indices(t), NEW d \in EngineData, EngineSets(t, i, d)
      PROVE  StInv'
  <2>1. d \in DataSet /\ Unset \in DataSet
    BY StAssumption DEF DataSet
  <2>2. RowAgrees(Unset, d)
    BY DEF RowAgrees
  <2> QED BY <1>4, <2>1, <2>2, RowChanges DEF EngineSets
<1>5. ASSUME NEW t \in Tables, SetTick(t)
      PROVE  StInv'
  <2>1. /\ tick' = [tick EXCEPT ![t] = tick[t] + 1]
        /\ touched' = touched \ {t}
        /\ UNCHANGED <<gotten, rows, lastChanged, stored>>
    BY <1>5 DEF SetTick
  <2>2. tick' \in [Tables -> Nat]
    BY <1>0, <2>1 DEF StTypeOK
  <2>3. TicksAgree'
    BY <1>0, <2>1 DEF StTypeOK, TicksAgree
  <2> QED BY <1>0, <2>1, <2>2, <2>3 DEF StInv, StTypeOK, RowsAgree
<1>6. CASE UNCHANGED stVars
  <2>1. UNCHANGED <<gotten, rows, tick, lastChanged, stored, touched>>
    BY <1>6 DEF stVars
  <2>2. StTypeOK' /\ TicksAgree'
    BY <1>0, <2>1 DEF StTypeOK, TicksAgree
  <2>3. RowsAgree'
    BY <1>0, <2>1 DEF RowsAgree
  <2> QED BY <2>2, <2>3 DEF StInv
<1>7. gotten \subseteq Tables
  BY <1>0 DEF StTypeOK
<1> QED BY <1>1, <1>2, <1>3, <1>4, <1>5, <1>6, <1>7 DEF StNext

LEMMA StInvInit ==
  ASSUME StInit
  PROVE  StInv
<1>1. <<>> \in Seq(RowSet) /\ Len(<<>>) = 0
  OBVIOUS
<1>2. /\ gotten = {} /\ touched = Tables
      /\ rows = [t \in Tables |-> <<>>]
      /\ tick = [t \in Tables |-> 0] /\ lastChanged = [t \in Tables |-> 0]
      /\ stored = [x \in Tables \X EntryNames |-> Unset]
  BY DEF StInit
<1>3. Unset \in DataSet
  BY DEF DataSet
<1>4. StTypeOK
  <2> HIDE DEF DataSet, RowSet, Unset
  <2> QED BY <1>1, <1>2, <1>3 DEF StTypeOK
<1>5. \A t \in Tables : 1..Len(rows[t]) = {} /\ \A name \in EntryNames : stored[<<t, name>>] = Unset
  BY <1>1, <1>2
<1>6. RowsAgree
  BY <1>5 DEF RowsAgree
<1>7. TicksAgree
  BY <1>2 DEF TicksAgree
<1> QED BY <1>4, <1>6, <1>7 DEF StInv

\* ReadersAgree: for any tables, strings, bytes and ticks, every reader gives what
\* a script stored last, up to its first 0, and only the engine's data is read
\* beyond its end.
THEOREM ReadersDoAgree == StSpec => []ReadersAgree
<1>1. StInit => StInv
  BY StInvInit
<1>2. StInv /\ [StNext]_stVars => StInv'
  BY StStep
<1>3. StInv => ReadersAgree
  <2>1. SUFFICES ASSUME StInv, NEW t \in Tables,
                        NEW i \in Indices(t)
        PROVE  LET name == GetTableStrings(t)[i]
                   text == stored[<<t, name>>] IN
               /\ FindStringIndex(t, name) = i
               /\ GetTable(t)[name] = GetTableData(t)[i]
               /\ GetString(t, i) = <<name, GetTableData(t)[i]>>
               /\ text # Unset =>
                    /\ GetTableData(t)[i] = text
                    /\ GetData(t, i) = <<Append(text, 0), Len(text) + 1>>
               /\ GetTableData(t)[i] = Overrun => At(t, i).data \in EngineData
    <3>1. ASSUME StInv, NEW t \in Tables
          PROVE  ChangedSinceTick(t, tick[t] - 1) <=> t \in touched
      BY <3>1 DEF StInv, StTypeOK, TicksAgree, ChangedSinceTick
    <3>2. StInv => gotten \subseteq Tables
      BY DEF StInv, StTypeOK
    <3> QED BY <3>1, <3>2 DEF ReadersAgree
  <2> DEFINE name == At(t, i).name
             data == At(t, i).data
             text == stored[<<t, name>>]
  <2>2. /\ rows[t] \in Seq(RowSet) /\ Len(rows[t]) \in Nat
        /\ \A k \in Indices(t) : k + 1 \in 1..Len(rows[t]) /\ k \in Nat
    <3>1. rows[t] \in Seq(RowSet)
      BY <2>1 DEF StInv, StTypeOK
    <3> QED BY <3>1 DEF Indices
  <2>3. At(t, i) \in RowSet
    BY <2>2 DEF At
  <2>4. name \in EntryNames /\ data \in DataSet /\ text \in DataSet
    BY <2>1, <2>3 DEF RowSet, StInv, StTypeOK
  <2>5. \A k \in Indices(t) : At(t, k).name = name <=> k = i
    <3>1. ASSUME NEW k \in Indices(t), At(t, k).name = name PROVE k = i
      <4>1. k + 1 = i + 1
        BY <2>1, <2>2, <3>1 DEF StInv, RowsAgree, At
      <4> QED BY <2>2, <4>1
    <3> QED BY <3>1
  <2>6. RowAgrees(text, data)
    BY <2>1, <2>2 DEF StInv, RowsAgree, At
  <2>7. GetTableStrings(t)[i] = name /\ GetTableData(t)[i] = CRead(data)
    BY DEF GetTableStrings, GetTableData
  <2>8. FindStringIndex(t, name) = i
    <3>1. (CHOOSE k \in Indices(t) : At(t, k).name = name) = i
      BY <2>5
    <3> QED BY <3>1 DEF FindStringIndex
  <2>9. GetTable(t)[name] = CRead(data)
    <3>1. (CHOOSE n \in Indices(t) : /\ At(t, n).name = name
                                    /\ \A j \in Indices(t) : At(t, j).name = name => j <= n) = i
      <4>1. i <= i
        BY <2>2
      <4> QED BY <2>5, <4>1
    <3>2. name \in {At(t, k).name : k \in Indices(t)}
      OBVIOUS
    <3> QED BY <3>1, <3>2 DEF GetTable
  <2>10. GetString(t, i) = <<name, CRead(data)>>
    BY DEF GetString
  <2>11. ASSUME text # Unset
         PROVE  CRead(data) = text /\ GetData(t, i) = <<Append(text, 0), Len(text) + 1>>
                /\ CRead(data) # Overrun
    <3>1. text \in Seq(Nat) /\ Zeros(text) = {} /\ data = Append(text, 0)
      BY <2>4, <2>6, <2>11 DEF DataSet, RowAgrees
    <3> HIDE DEF text, data
    <3>2. /\ data \in Seq(Nat) /\ Len(data) = Len(text) + 1 /\ CRead(data) = text
      BY <3>1, PassedFacts
    <3>3. data # Unset /\ Len(data) > 0 /\ text # Overrun
      BY <3>1, <3>2, NoData
    <3> QED BY <3>1, <3>2, <3>3 DEF GetData, data
  <2>12. ASSUME text = Unset, data \notin EngineData
         PROVE  CRead(data) # Overrun
    <3>1. data = Unset
      BY <2>6, <2>12 DEF RowAgrees
    <3> QED BY <3>1, NoData DEF CRead
  <2> HIDE DEF name, data, text
  <2>13. /\ text # Unset => CRead(data) = text /\ GetData(t, i) = <<Append(text, 0), Len(text) + 1>>
         /\ CRead(data) = Overrun => data \in EngineData
    BY <2>11, <2>12
  <2> QED BY <2>7, <2>8, <2>9, <2>10, <2>13 DEF text, data
<1> QED BY <1>1, <1>2, <1>3, PTL DEF StSpec

(***************************************************************************)
(* EngineSpew, of modules that are closed in the order they came in.       *)
(***************************************************************************)

SpewFrame == [in : {"engine", "LuaSpew", "newspew"}, text : Messages \cup Code, at : 0..3]

\* A call of an output function: of a module that is hooked, and newspew is never
\* asked for one of its own codes.
FrameOK(f) ==
  /\ f.in = "engine" => f.at = 0
  /\ f.in = "LuaSpew" => /\ luas /\ f.at \in 0..2
                         /\ g_fnOldSpew = "newspew" => f.text \in Messages
  /\ f.in = "newspew" => f.text \in Messages /\ \E i \in 1..Len(hooked) : hooked[i] = "newspew"

\* The five ways the modules can be hooked.
ModulesOK ==
  \/ hooked = <<>> /\ spewFunc = "engine" /\ ~luas
  \/ hooked = <<"LuaSpew">> /\ spewFunc = "LuaSpew" /\ g_fnOldSpew = "engine" /\ luas
  \/ hooked = <<"newspew">> /\ spewFunc = "newspew" /\ oldspew = "engine" /\ ~luas
  \/ /\ hooked = <<"LuaSpew", "newspew">> /\ luas
     /\ spewFunc = "newspew" /\ oldspew = "LuaSpew" /\ g_fnOldSpew = "engine"
  \/ /\ hooked = <<"newspew", "LuaSpew">> /\ luas
     /\ spewFunc = "LuaSpew" /\ g_fnOldSpew = "newspew" /\ oldspew = "engine"

\* What a call may bear: a message on its way, the hook's question, and the reset of
\* the terminal that is to come.
TextOf(m) == <<"text", m>>
Question == <<"asked", 0>>
TheReset == <<"reset", 0>>

Bears(f, x) ==
  \/ x[1] = "text" /\ f.text = x[2] /\ (f.in = "newspew" => f.at <= 1)
  \/ x[1] = "asked" /\ f.in = "LuaSpew" /\ f.at > 0
  \/ x[1] = "reset" /\ IF f.in = "newspew" THEN f.at \in {1, 2} ELSE f.text = "reset"

Borne(x) == \E t \in Threads : \E i \in 1..Len(spews[t]) : Bears(spews[t][i], x)

BorneOnce(x) ==
  \A t, u \in Threads : \A i \in 1..Len(spews[t]), j \in 1..Len(spews[u]) :
    Bears(spews[t][i], x) /\ Bears(spews[u][j], x) => t = u /\ i = j

\* A message that is printed is on its way, or was put out once, or kept or dropped.
TextOnce(m) ==
  /\ BorneOnce(TextOf(m))
  /\ m \notin printed => ~Borne(TextOf(m)) /\ output[m] = 0 /\ m \notin kept \cup dropped
  /\ m \in printed => \/ Borne(TextOf(m)) /\ output[m] = 0 /\ m \notin kept \cup dropped
                      \/ ~Borne(TextOf(m)) /\ output[m] = 1 /\ m \notin kept \cup dropped
                      \/ ~Borne(TextOf(m)) /\ output[m] = 0 /\ m \in kept \cup dropped

\* Under the code that sets a colour stands the call that will print the other.
UnderSet ==
  \A t \in Threads : \A i \in 1..Len(spews[t]) : spews[t][i].text = "set" =>
    i > 1 /\ spews[t][i - 1].in = "newspew" /\ spews[t][i - 1].at = 1

SpewTypeOK ==
  /\ spews \in [Threads -> Seq(SpewFrame)]
  /\ \A t \in Threads : \A i \in 1..Len(spews[t]) : FrameOK(spews[t][i])
  /\ printed \subseteq Messages /\ output \in [Messages -> Int]
  /\ inspew \in BOOLEAN /\ colour \in Code

SpewInv ==
  /\ SpewTypeOK /\ ModulesOK /\ UnderSet
  /\ \A m \in Messages : TextOnce(m)
  /\ BorneOnce(Question) /\ (inspew <=> Borne(Question))
  /\ colour = "set" /\ "reset" \notin kept => Borne(TheReset)

-----------------------------------------------------------------------------
\* Thread t keeps its k outermost calls, and fs are those within.
Stacked(t, k, fs) ==
  /\ spews' \in [Threads -> Seq(SpewFrame)]
  /\ Len(spews'[t]) = k + Len(fs)
  /\ \A i \in 1..k : spews'[t][i] = spews[t][i]
  /\ \A j \in 1..Len(fs) : spews'[t][k + j] = fs[j]
  /\ \A u \in Threads : u # t => spews'[u] = spews[u]

LEMMA StackLens ==
  ASSUME SpewTypeOK, NEW t \in Threads
  PROVE  spews[t] \in Seq(SpewFrame) /\ Len(spews[t]) \in Nat
<1>1. spews[t] \in Seq(SpewFrame)
  BY DEF SpewTypeOK
<1> QED BY <1>1

LEMMA PushIs ==
  ASSUME SpewTypeOK, NEW t \in Threads, NEW g \in SpewFrame, Becomes(t, Append(spews[t], g))
  PROVE  Stacked(t, Len(spews[t]), <<g>>)
<1> DEFINE s == spews[t]
<1>1. s \in Seq(SpewFrame) /\ Len(s) \in Nat
  BY StackLens
<1>2. /\ Append(s, g) \in Seq(SpewFrame) /\ Len(Append(s, g)) = Len(s) + 1
      /\ \A i \in 1..Len(s) : Append(s, g)[i] = s[i]
      /\ Append(s, g)[Len(s) + 1] = g
  BY <1>1, AppendProperties
<1>3. /\ spews' \in [Threads -> Seq(SpewFrame)] /\ spews'[t] = Append(s, g)
      /\ \A u \in Threads : u # t => spews'[u] = spews[u]
  BY <1>2 DEF Becomes, SpewTypeOK
<1>4. Len(<<g>>) = 1 /\ <<g>>[1] = g
  OBVIOUS
<1> QED BY <1>1, <1>2, <1>3, <1>4 DEF Stacked

LEMMA UnderIs ==
  ASSUME SpewTypeOK, NEW t \in Threads, Busy(t)
  PROVE  /\ Len(spews[t]) \in Nat /\ Len(spews[t]) >= 1 /\ Top(t) \in SpewFrame /\ FrameOK(Top(t))
         /\ Top(t) = spews[t][Len(spews[t])]
         /\ Under(t) \in Seq(SpewFrame) /\ Len(Under(t)) = Len(spews[t]) - 1
         /\ \A i \in 1..Len(spews[t]) - 1 : Under(t)[i] = spews[t][i]
<1> DEFINE s == spews[t]
<1>1. s \in Seq(SpewFrame) /\ Len(s) \in Nat /\ s # <<>>
  BY StackLens DEF Busy
<1>2. Len(s) >= 1
  BY <1>1, EmptySeq
<1>3. s[Len(s)] \in SpewFrame /\ FrameOK(s[Len(s)])
  BY <1>1, <1>2 DEF SpewTypeOK
<1>4. /\ SubSeq(s, 1, Len(s) - 1) \in Seq(SpewFrame) /\ Len(SubSeq(s, 1, Len(s) - 1)) = Len(s) - 1
      /\ \A i \in 1..Len(s) - 1 : SubSeq(s, 1, Len(s) - 1)[i] = s[i]
  BY <1>1, <1>2
<1> QED BY <1>1, <1>2, <1>3, <1>4 DEF Top, Under

LEMMA ReturnIs ==
  ASSUME SpewTypeOK, NEW t \in Threads, Busy(t), Returns(t)
  PROVE  Stacked(t, Len(spews[t]) - 1, <<>>)
<1>1. /\ Len(spews[t]) \in Nat /\ Len(spews[t]) >= 1
      /\ Under(t) \in Seq(SpewFrame) /\ Len(Under(t)) = Len(spews[t]) - 1
      /\ \A i \in 1..Len(spews[t]) - 1 : Under(t)[i] = spews[t][i]
  BY UnderIs
<1>2. /\ spews' \in [Threads -> Seq(SpewFrame)] /\ spews'[t] = Under(t)
      /\ \A u \in Threads : u # t => spews'[u] = spews[u]
  BY <1>1 DEF Returns, Becomes, SpewTypeOK
<1>3. Len(<<>>) = 0 /\ 1..Len(<<>>) = {}
  OBVIOUS
<1>4. Len(spews'[t]) = Len(spews[t]) - 1 + Len(<<>>)
  BY <1>1, <1>2, <1>3
<1> QED BY <1>1, <1>2, <1>3, <1>4 DEF Stacked

LEMMA TailIs ==
  ASSUME SpewTypeOK, NEW t \in Threads, Busy(t), NEW f \in SpewFrame,
         Becomes(t, Append(Under(t), f))
  PROVE  Stacked(t, Len(spews[t]) - 1, <<f>>)
<1> DEFINE s == Under(t)
<1>1. /\ Len(spews[t]) \in Nat /\ Len(spews[t]) >= 1
      /\ s \in Seq(SpewFrame) /\ Len(s) = Len(spews[t]) - 1
      /\ \A i \in 1..Len(spews[t]) - 1 : s[i] = spews[t][i]
  BY UnderIs
<1> HIDE DEF s
<1>2. /\ Append(s, f) \in Seq(SpewFrame) /\ Len(Append(s, f)) = Len(s) + 1
      /\ \A i \in 1..Len(s) : Append(s, f)[i] = s[i]
      /\ Append(s, f)[Len(s) + 1] = f
  BY <1>1, AppendProperties
<1>3. /\ spews' \in [Threads -> Seq(SpewFrame)] /\ spews'[t] = Append(s, f)
      /\ \A u \in Threads : u # t => spews'[u] = spews[u]
  BY <1>2 DEF Becomes, SpewTypeOK, s
<1>4. Len(<<f>>) = 1 /\ <<f>>[1] = f /\ \A j \in 1..1 : j = 1
  OBVIOUS
<1>5. Len(spews'[t]) = Len(s) + 1 /\ spews'[t][Len(s) + 1] = f
  BY <1>2, <1>3
<1>6. \A i \in 1..Len(s) : spews'[t][i] = spews[t][i]
  BY <1>1, <1>2, <1>3
<1> QED BY <1>1, <1>3, <1>4, <1>5, <1>6 DEF Stacked

LEMMA TailPushIs ==
  ASSUME SpewTypeOK, NEW t \in Threads, Busy(t), NEW f \in SpewFrame, NEW g \in SpewFrame,
         Becomes(t, Append(Append(Under(t), f), g))
  PROVE  Stacked(t, Len(spews[t]) - 1, <<f, g>>)
<1> DEFINE s == Under(t)
           r == Append(s, f)
<1>1. /\ Len(spews[t]) \in Nat /\ Len(spews[t]) >= 1
      /\ s \in Seq(SpewFrame) /\ Len(s) = Len(spews[t]) - 1
      /\ \A i \in 1..Len(spews[t]) - 1 : s[i] = spews[t][i]
  BY UnderIs
<1> HIDE DEF s
<1>2. /\ r \in Seq(SpewFrame) /\ Len(r) = Len(s) + 1
      /\ \A i \in 1..Len(s) : r[i] = s[i]
      /\ r[Len(s) + 1] = f
  BY <1>1, AppendProperties
<1> HIDE DEF r
<1>3. /\ Append(r, g) \in Seq(SpewFrame) /\ Len(Append(r, g)) = Len(r) + 1
      /\ \A i \in 1..Len(r) : Append(r, g)[i] = r[i]
      /\ Append(r, g)[Len(r) + 1] = g
  BY <1>2, AppendProperties
<1>4. /\ spews' \in [Threads -> Seq(SpewFrame)] /\ spews'[t] = Append(r, g)
      /\ \A u \in Threads : u # t => spews'[u] = spews[u]
  BY <1>3 DEF Becomes, SpewTypeOK, s, r
<1>5. Len(<<f, g>>) = 2 /\ <<f, g>>[1] = f /\ <<f, g>>[2] = g
  OBVIOUS
<1>6. \A i \in 1..Len(s) : Append(r, g)[i] = s[i]
  BY <1>1, <1>2, <1>3
<1>7. Append(r, g)[Len(s) + 1] = f /\ Append(r, g)[Len(s) + 2] = g
  BY <1>1, <1>2, <1>3
<1>8. Len(spews'[t]) = Len(s) + 2
  BY <1>1, <1>2, <1>3, <1>4
<1>9. \A j \in 1..2 : spews'[t][Len(s) + j] = <<f, g>>[j]
  <2>1. spews'[t][Len(s) + 1] = <<f, g>>[1] /\ spews'[t][Len(s) + 2] = <<f, g>>[2]
    BY <1>4, <1>5, <1>7
  <2>2. \A j \in 1..2 : j = 1 \/ j = 2
    OBVIOUS
  <2> QED BY <2>1, <2>2
<1> QED BY <1>1, <1>4, <1>5, <1>6, <1>8, <1>9 DEF Stacked

-----------------------------------------------------------------------------
\* What of the outermost calls is left out by a step of t that keeps k of them.
LeavesOut(t, k, x) == k < Len(spews[t]) /\ Bears(spews[t][Len(spews[t])], x)

\* What t's new calls bear.
Takes(fs, x) == \E j \in 1..Len(fs) : Bears(fs[j], x)
TakesOnce(fs, x) == \A j, l \in 1..Len(fs) : Bears(fs[j], x) /\ Bears(fs[l], x) => j = l

MostKept(t, k) == k = Len(spews[t]) \/ k = Len(spews[t]) - 1

\* Where a call after the step comes from, and where one before it goes.
ComesFrom(t, k, fs) ==
  \A u \in Threads : \A i \in 1..Len(spews'[u]) :
    \/ i \in 1..Len(spews[u]) /\ spews'[u][i] = spews[u][i] /\ (u = t => i <= k)
    \/ u = t /\ \E j \in 1..Len(fs) : i = k + j /\ spews'[u][i] = fs[j]

GoesTo(t, k, fs) ==
  /\ \A u \in Threads : \A i \in 1..Len(spews[u]) :
       \/ i \in 1..Len(spews'[u]) /\ spews'[u][i] = spews[u][i]
       \/ u = t /\ i = Len(spews[u]) /\ k < i
  /\ \A j \in 1..Len(fs) : k + j \in 1..Len(spews'[t]) /\ spews'[t][k + j] = fs[j]

LEMMA Origins ==
  ASSUME SpewTypeOK, NEW t \in Threads, NEW k \in Nat, MostKept(t, k),
         NEW fs \in Seq(SpewFrame), Stacked(t, k, fs)
  PROVE  ComesFrom(t, k, fs) /\ GoesTo(t, k, fs)
<1>1. Len(spews[t]) \in Nat /\ Len(fs) \in Nat
  BY StackLens
<1>2. /\ Len(spews'[t]) = k + Len(fs)
      /\ \A i \in 1..k : spews'[t][i] = spews[t][i]
      /\ \A j \in 1..Len(fs) : spews'[t][k + j] = fs[j]
      /\ \A u \in Threads : u # t => spews'[u] = spews[u]
  BY DEF Stacked
<1>3. ASSUME NEW i \in 1..Len(spews'[t]), i > k
      PROVE  \E j \in 1..Len(fs) : i = k + j /\ spews'[t][i] = fs[j]
  <2>1. i - k \in 1..Len(fs) /\ i = k + (i - k)
    BY <1>1, <1>2, <1>3
  <2> QED BY <1>2, <2>1
<1>4. ASSUME NEW i \in 1..Len(spews'[t]), ~(i > k)
      PROVE  i \in 1..Len(spews[t]) /\ spews'[t][i] = spews[t][i] /\ i <= k
  BY <1>1, <1>2, <1>4 DEF MostKept
<1>5. ASSUME NEW i \in 1..Len(spews[t])
      PROVE  (i \in 1..Len(spews'[t]) /\ spews'[t][i] = spews[t][i]) \/ (i = Len(spews[t]) /\ k < i)
  BY <1>1, <1>2 DEF MostKept
<1>6. ASSUME NEW j \in 1..Len(fs)
      PROVE  k + j \in 1..Len(spews'[t]) /\ spews'[t][k + j] = fs[j]
  BY <1>1, <1>2
<1>7. ComesFrom(t, k, fs)
  BY <1>2, <1>3, <1>4 DEF ComesFrom
<1>8. GoesTo(t, k, fs)
  BY <1>2, <1>5, <1>6 DEF GoesTo
<1> QED BY <1>7, <1>8

\* What is left out is taken, or neither.
LEMMA BorneKeeps ==
  ASSUME SpewTypeOK, NEW t \in Threads, NEW k \in Nat, MostKept(t, k),
         NEW fs \in Seq(SpewFrame), Stacked(t, k, fs), NEW x,
         LeavesOut(t, k, x) <=> Takes(fs, x)
  PROVE  /\ Borne(x)' <=> Borne(x)
         /\ BorneOnce(x) /\ TakesOnce(fs, x) => BorneOnce(x)'
<1>0. ComesFrom(t, k, fs) /\ GoesTo(t, k, fs)
  BY Origins
<1>1. ASSUME Borne(x) PROVE Borne(x)'
  <2>0. PICK u \in Threads : \E i \in 1..Len(spews[u]) : Bears(spews[u][i], x)
    BY <1>1 DEF Borne
  <2>1. PICK i \in 1..Len(spews[u]) : Bears(spews[u][i], x)
    BY <2>0
  <2>2. CASE i \in 1..Len(spews'[u]) /\ spews'[u][i] = spews[u][i]
    BY <2>1, <2>2 DEF Borne
  <2>3. CASE u = t /\ i = Len(spews[u]) /\ k < i
    <3>1. PICK j \in 1..Len(fs) : Bears(fs[j], x)
      BY <2>1, <2>3 DEF LeavesOut, Takes
    <3>2. k + j \in 1..Len(spews'[t]) /\ spews'[t][k + j] = fs[j]
      BY <1>0 DEF GoesTo
    <3> QED BY <3>1, <3>2 DEF Borne
  <2> QED BY <1>0, <2>2, <2>3 DEF GoesTo
<1>2. ASSUME Borne(x)' PROVE Borne(x)
  <2>0. PICK u \in Threads : \E i \in 1..Len(spews'[u]) : Bears(spews'[u][i], x)
    BY <1>2 DEF Borne
  <2>1. PICK i \in 1..Len(spews'[u]) : Bears(spews'[u][i], x)
    BY <2>0
  <2>2. CASE i \in 1..Len(spews[u]) /\ spews'[u][i] = spews[u][i]
    BY <2>1, <2>2 DEF Borne
  <2>3. CASE u = t /\ \E j \in 1..Len(fs) : i = k + j /\ spews'[u][i] = fs[j]
    <3>1. LeavesOut(t, k, x)
      BY <2>1, <2>3 DEF Takes
    <3>2. Len(spews[t]) \in Nat /\ Len(spews[t]) \in 1..Len(spews[t])
      BY <3>1, StackLens DEF LeavesOut
    <3> QED BY <3>1, <3>2 DEF Borne, LeavesOut
  <2> QED BY <1>0, <2>2, <2>3 DEF ComesFrom
<1>3. ASSUME BorneOnce(x), TakesOnce(fs, x) PROVE BorneOnce(x)'
  <2>1. ASSUME NEW u \in Threads, NEW i \in 1..Len(spews'[u]), Bears(spews'[u][i], x)
        PROVE  \/ i \in 1..Len(spews[u]) /\ Bears(spews[u][i], x) /\ ~LeavesOut(t, k, x)
               \/ u = t /\ LeavesOut(t, k, x) /\ \E j \in 1..Len(fs) : i = k + j /\ Bears(fs[j], x)
    <3>1. CASE i \in 1..Len(spews[u]) /\ spews'[u][i] = spews[u][i] /\ (u = t => i <= k)
      <4>1. ASSUME LeavesOut(t, k, x) PROVE FALSE
        <5>1. Len(spews[t]) \in 1..Len(spews[t]) /\ k < Len(spews[t])
          BY <4>1, StackLens DEF LeavesOut
        <5>2. u = t /\ i = Len(spews[t])
          BY <1>3, <2>1, <3>1, <4>1, <5>1 DEF LeavesOut, BorneOnce
        <5> QED BY <3>1, <5>1, <5>2
      <4> QED BY <2>1, <3>1, <4>1
    <3>2. CASE u = t /\ \E j \in 1..Len(fs) : i = k + j /\ spews'[u][i] = fs[j]
      BY <2>1, <3>2 DEF Takes
    <3> QED BY <1>0, <3>1, <3>2 DEF ComesFrom
  <2>2. ASSUME NEW u \in Threads, NEW i \in 1..Len(spews'[u]), Bears(spews'[u][i], x),
               NEW v \in Threads, NEW j \in 1..Len(spews'[v]), Bears(spews'[v][j], x)
        PROVE  u = v /\ i = j
    <3>1. CASE LeavesOut(t, k, x)
      <4>1. u = t /\ \E n \in 1..Len(fs) : i = k + n /\ Bears(fs[n], x)
        BY <2>1, <2>2, <3>1
      <4>2. v = t /\ \E n \in 1..Len(fs) : j = k + n /\ Bears(fs[n], x)
        BY <2>1, <2>2, <3>1
      <4> QED BY <1>3, <4>1, <4>2 DEF TakesOnce
    <3>2. CASE ~LeavesOut(t, k, x)
      <4>1. i \in 1..Len(spews[u]) /\ Bears(spews[u][i], x)
        BY <2>1, <2>2, <3>2
      <4>2. j \in 1..Len(spews[v]) /\ Bears(spews[v][j], x)
        BY <2>1, <2>2, <3>2
      <4> QED BY <1>3, <4>1, <4>2 DEF BorneOnce
    <3> QED BY <3>1, <3>2
  <2> QED BY <2>2 DEF BorneOnce
<1> QED BY <1>1, <1>2, <1>3

\* What is left out and not taken was the only one.
LEMMA BorneEnds ==
  ASSUME SpewTypeOK, NEW t \in Threads, NEW k \in Nat, MostKept(t, k),
         NEW fs \in Seq(SpewFrame), Stacked(t, k, fs), NEW x,
         LeavesOut(t, k, x), ~Takes(fs, x), BorneOnce(x)
  PROVE  Borne(x) /\ ~Borne(x)' /\ BorneOnce(x)'
<1>0. ComesFrom(t, k, fs) /\ GoesTo(t, k, fs)
  BY Origins
<1>1. Len(spews[t]) \in Nat /\ Len(spews[t]) \in 1..Len(spews[t]) /\ k < Len(spews[t])
      /\ Bears(spews[t][Len(spews[t])], x)
  BY StackLens DEF LeavesOut
<1>2. ASSUME NEW u \in Threads, NEW i \in 1..Len(spews'[u]), Bears(spews'[u][i], x) PROVE FALSE
  <2>1. CASE i \in 1..Len(spews[u]) /\ spews'[u][i] = spews[u][i] /\ (u = t => i <= k)
    <3>1. u = t /\ i = Len(spews[t])
      BY <1>1, <1>2, <2>1 DEF BorneOnce
    <3> QED BY <1>1, <2>1, <3>1
  <2>2. CASE u = t /\ \E j \in 1..Len(fs) : i = k + j /\ spews'[u][i] = fs[j]
    BY <1>2, <2>2 DEF Takes
  <2> QED BY <1>0, <2>1, <2>2 DEF ComesFrom
<1>3. Borne(x)
  BY <1>1 DEF Borne
<1> QED BY <1>2, <1>3 DEF Borne, BorneOnce

LEMMA TakenIsBorne ==
  ASSUME SpewTypeOK, NEW t \in Threads, NEW k \in Nat, MostKept(t, k),
         NEW fs \in Seq(SpewFrame), Stacked(t, k, fs), NEW x, Takes(fs, x)
  PROVE  Borne(x)'
<1>1. PICK j \in 1..Len(fs) : Bears(fs[j], x)
  BY DEF Takes
<1>2. k + j \in 1..Len(spews'[t]) /\ spews'[t][k + j] = fs[j]
  BY Origins DEF GoesTo
<1> QED BY <1>1, <1>2 DEF Borne

\* What is taken and was nowhere.
LEMMA BorneBegins ==
  ASSUME SpewTypeOK, NEW t \in Threads, NEW k \in Nat, MostKept(t, k),
         NEW fs \in Seq(SpewFrame), Stacked(t, k, fs), NEW x,
         ~Borne(x), Takes(fs, x), TakesOnce(fs, x)
  PROVE  Borne(x)' /\ BorneOnce(x)'
<1>0. ComesFrom(t, k, fs) /\ GoesTo(t, k, fs)
  BY Origins
<1>1. PICK j \in 1..Len(fs) : Bears(fs[j], x)
  BY DEF Takes
<1>2. k + j \in 1..Len(spews'[t]) /\ spews'[t][k + j] = fs[j]
  BY <1>0 DEF GoesTo
<1>3. Borne(x)'
  BY <1>1, <1>2 DEF Borne
<1>4. ASSUME NEW u \in Threads, NEW i \in 1..Len(spews'[u]), Bears(spews'[u][i], x)
      PROVE  u = t /\ i = k + j
  <2>1. CASE i \in 1..Len(spews[u]) /\ spews'[u][i] = spews[u][i]
    BY <1>4, <2>1 DEF Borne
  <2>2. CASE u = t /\ \E l \in 1..Len(fs) : i = k + l /\ spews'[u][i] = fs[l]
    <3>1. PICK l \in 1..Len(fs) : i = k + l /\ Bears(fs[l], x)
      BY <1>4, <2>2
    <3>2. l = j
      BY <1>1, <3>1 DEF TakesOnce
    <3> QED BY <2>2, <3>1, <3>2
  <2> QED BY <1>0, <2>1, <2>2 DEF ComesFrom
<1>5. BorneOnce(x)'
  BY <1>4 DEF BorneOnce
<1> QED BY <1>3, <1>5

FramesKept ==
  /\ spews' \in [Threads -> Seq(SpewFrame)]
  /\ \A t \in Threads : \A i \in 1..Len(spews'[t]) : FrameOK(spews[t][i])'
  /\ UnderSet'

\* The calls of a step are calls as they should be, and stand as they should.
LEMMA FramesKeep ==
  ASSUME SpewTypeOK, UnderSet, UNCHANGED modules,
         NEW t \in Threads, NEW k \in Nat, MostKept(t, k),
         NEW fs \in Seq(SpewFrame), Stacked(t, k, fs),
         \A j \in 1..Len(fs) : FrameOK(fs[j]),
         \A j \in 1..Len(fs) : fs[j].text = "set" =>
           \/ j = 1 /\ k < Len(spews[t]) /\ spews[t][Len(spews[t])].text = "set"
           \/ j > 1 /\ fs[j - 1].in = "newspew" /\ fs[j - 1].at = 1
  PROVE  FramesKept
<1>0. ComesFrom(t, k, fs) /\ GoesTo(t, k, fs)
  BY Origins
<1>1. Len(spews[t]) \in Nat /\ Len(fs) \in Nat
  BY StackLens
<1>3. ASSUME NEW u \in Threads, NEW i \in 1..Len(spews'[u])
      PROVE  FrameOK(spews'[u][i])
  BY <1>0, <1>1 DEF ComesFrom, SpewTypeOK
<1>2. ASSUME NEW u \in Threads, NEW i \in 1..Len(spews'[u])
      PROVE  FrameOK(spews[u][i])'
  BY <1>3 DEF FrameOK, modules
<1>4. ASSUME NEW u \in Threads, NEW i \in 1..Len(spews'[u]), spews'[u][i].text = "set"
      PROVE  i > 1 /\ spews'[u][i - 1].in = "newspew" /\ spews'[u][i - 1].at = 1
  <2>1. CASE i \in 1..Len(spews[u]) /\ spews'[u][i] = spews[u][i] /\ (u = t => i <= k)
    <3>1. i > 1 /\ spews[u][i - 1].in = "newspew" /\ spews[u][i - 1].at = 1
      BY <1>4, <2>1 DEF UnderSet
    <3>2. spews'[u][i - 1] = spews[u][i - 1]
      <4>1. CASE u = t
        <5>1. i - 1 \in 1..k
          BY <1>1, <2>1, <3>1, <4>1
        <5> QED BY <4>1, <5>1 DEF Stacked
      <4>2. CASE u # t
        BY <4>2 DEF Stacked
      <4> QED BY <4>1, <4>2
    <3> QED BY <3>1, <3>2
  <2>2. ASSUME u = t, NEW j \in 1..Len(fs), i = k + j, spews'[u][i] = fs[j]
        PROVE  i > 1 /\ spews'[u][i - 1].in = "newspew" /\ spews'[u][i - 1].at = 1
    <3>1. CASE j = 1 /\ k < Len(spews[t]) /\ spews[t][Len(spews[t])].text = "set"
      <4>1. Len(spews[t]) \in 1..Len(spews[t]) /\ k = Len(spews[t]) - 1
        BY <1>1, <3>1 DEF MostKept
      <4>2. /\ Len(spews[t]) > 1 /\ spews[t][Len(spews[t]) - 1].in = "newspew"
            /\ spews[t][Len(spews[t]) - 1].at = 1
        BY <3>1, <4>1 DEF UnderSet
      <4>3. k \in 1..k /\ i - 1 = k
        BY <1>1, <2>2, <3>1, <4>1, <4>2
      <4>4. spews'[t][k] = spews[t][k]
        BY <4>3 DEF Stacked
      <4> QED BY <1>1, <2>2, <4>1, <4>2, <4>3, <4>4
    <3>2. CASE j > 1 /\ fs[j - 1].in = "newspew" /\ fs[j - 1].at = 1
      <4>1. j - 1 \in 1..Len(fs) /\ i - 1 = k + (j - 1) /\ i > 1
        BY <1>1, <2>2, <3>2
      <4>2. spews'[t][k + (j - 1)] = fs[j - 1]
        BY <4>1 DEF Stacked
      <4> QED BY <2>2, <3>2, <4>1, <4>2
    <3> QED BY <1>4, <2>2, <3>1, <3>2
  <2> QED BY <1>0, <2>1, <2>2 DEF ComesFrom
<1>5. UnderSet'
  BY <1>4 DEF UnderSet
<1>6. spews' \in [Threads -> Seq(SpewFrame)]
  BY DEF Stacked
<1> QED BY <1>2, <1>5, <1>6 DEF FramesKept

\* What a step does to what is borne.
Keeps(x) == (Borne(x)' <=> Borne(x)) /\ (BorneOnce(x) => BorneOnce(x)')
Ends(x) == BorneOnce(x) => Borne(x) /\ ~Borne(x)' /\ BorneOnce(x)'
Begins(x) == Borne(x)' /\ BorneOnce(x)'

LEMMA TakesIs ==
  ASSUME NEW x
  PROVE  /\ ~Takes(<<>>, x)
         /\ \A f \in SpewFrame : TakesOnce(<<f>>, x) /\ (Takes(<<f>>, x) <=> Bears(f, x))
         /\ \A f, g \in SpewFrame :
              /\ Takes(<<f, g>>, x) <=> Bears(f, x) \/ Bears(g, x)
              /\ ~(Bears(f, x) /\ Bears(g, x)) => TakesOnce(<<f, g>>, x)
<1>1. ~Takes(<<>>, x)
  BY DEF Takes
<1>2. ASSUME NEW f \in SpewFrame
      PROVE  TakesOnce(<<f>>, x) /\ (Takes(<<f>>, x) <=> Bears(f, x))
  <2>1. Len(<<f>>) = 1 /\ <<f>>[1] = f /\ \A j \in 1..1 : j = 1
    OBVIOUS
  <2> QED BY <2>1 DEF Takes, TakesOnce
<1>3. ASSUME NEW f \in SpewFrame, NEW g \in SpewFrame
      PROVE  /\ Takes(<<f, g>>, x) <=> Bears(f, x) \/ Bears(g, x)
             /\ ~(Bears(f, x) /\ Bears(g, x)) => TakesOnce(<<f, g>>, x)
  <2> DEFINE s == <<f, g>>
  <2>1. Len(s) = 2 /\ s[1] = f /\ s[2] = g /\ \A j \in 1..2 : j = 1 \/ j = 2
    OBVIOUS
  <2>2. 1 \in 1..2 /\ 2 \in 1..2
    OBVIOUS
  <2> HIDE DEF s
  <2>3. Takes(s, x) <=> Bears(f, x) \/ Bears(g, x)
    BY <2>1, <2>2 DEF Takes
  <2>4. ~(Bears(f, x) /\ Bears(g, x)) => TakesOnce(s, x)
    BY <2>1, <2>2 DEF TakesOnce
  <2> QED BY <2>3, <2>4 DEF s
<1> QED BY <1>1, <1>2, <1>3

LEMMA LeavesOutIs ==
  ASSUME SpewTypeOK, NEW t \in Threads, NEW x
  PROVE  /\ ~LeavesOut(t, Len(spews[t]), x)
         /\ Busy(t) => (LeavesOut(t, Len(spews[t]) - 1, x) <=> Bears(Top(t), x))
<1>1. Len(spews[t]) \in Nat
  BY StackLens
<1> QED BY <1>1 DEF LeavesOut, Top

LEMMA PushStep ==
  ASSUME SpewTypeOK, UnderSet, UNCHANGED modules, NEW t \in Threads, NEW g \in SpewFrame,
         Becomes(t, Append(spews[t], g)), FrameOK(g), g.text # "set"
  PROVE  /\ FramesKept
         /\ \A x : /\ ~Bears(g, x) => Keeps(x)
                   /\ Bears(g, x) => Borne(x)' /\ (~Borne(x) => Begins(x))
<1> DEFINE k == Len(spews[t])
           fs == <<g>>
<1>1. /\ k \in Nat /\ MostKept(t, k) /\ fs \in Seq(SpewFrame) /\ Stacked(t, k, fs)
      /\ Len(fs) = 1 /\ fs[1] = g /\ \A j \in 1..1 : j = 1
  BY StackLens, PushIs DEF MostKept
<1>2. /\ \A x : (Takes(fs, x) <=> Bears(g, x)) /\ TakesOnce(fs, x)
      /\ \A x : ~LeavesOut(t, k, x)
  BY TakesIs, LeavesOutIs
<1> HIDE DEF k, fs
<1>3. FramesKept
  BY <1>1, FramesKeep
<1>4. ASSUME NEW x, ~Bears(g, x) PROVE Keeps(x)
  BY <1>1, <1>2, <1>4, BorneKeeps DEF Keeps
<1>5. ASSUME NEW x, Bears(g, x) PROVE Borne(x)'
  BY <1>1, <1>2, <1>5, TakenIsBorne
<1>6. ASSUME NEW x, Bears(g, x), ~Borne(x) PROVE Begins(x)
  BY <1>1, <1>2, <1>6, BorneBegins DEF Begins
<1> QED BY <1>3, <1>4, <1>5, <1>6

LEMMA ReturnStep ==
  ASSUME SpewTypeOK, UnderSet, UNCHANGED modules, NEW t \in Threads, Busy(t), Returns(t)
  PROVE  /\ FramesKept
         /\ \A x : /\ ~Bears(Top(t), x) => Keeps(x)
                   /\ Bears(Top(t), x) => Ends(x)
<1> DEFINE k == Len(spews[t]) - 1
           fs == <<>>
<1>1. /\ k \in Nat /\ MostKept(t, k) /\ fs \in Seq(SpewFrame) /\ Stacked(t, k, fs) /\ 1..Len(fs) = {}
  BY UnderIs, ReturnIs DEF MostKept
<1>2. /\ \A x : ~Takes(fs, x)
      /\ \A x : LeavesOut(t, k, x) <=> Bears(Top(t), x)
  BY TakesIs, LeavesOutIs
<1> HIDE DEF k, fs
<1>3. FramesKept
  BY <1>1, FramesKeep
<1>4. ASSUME NEW x, ~Bears(Top(t), x) PROVE Keeps(x)
  <2>1. TakesOnce(fs, x)
    BY <1>1 DEF TakesOnce
  <2> QED BY <1>1, <1>2, <1>4, <2>1, BorneKeeps DEF Keeps
<1>5. ASSUME NEW x, Bears(Top(t), x) PROVE Ends(x)
  BY <1>1, <1>2, <1>5, BorneEnds DEF Ends
<1> QED BY <1>3, <1>4, <1>5

LEMMA TailStep ==
  ASSUME SpewTypeOK, UnderSet, UNCHANGED modules, NEW t \in Threads, Busy(t), NEW f \in SpewFrame,
         Becomes(t, Append(Under(t), f)), FrameOK(f), f.text = Top(t).text
  PROVE  /\ FramesKept
         /\ \A x : /\ (Bears(Top(t), x) <=> Bears(f, x)) => Keeps(x)
                   /\ Bears(Top(t), x) /\ ~Bears(f, x) => Ends(x)
                   /\ ~Borne(x) /\ Bears(f, x) => Begins(x)
<1> DEFINE k == Len(spews[t]) - 1
           fs == <<f>>
<1>1. /\ k \in Nat /\ MostKept(t, k) /\ fs \in Seq(SpewFrame) /\ Stacked(t, k, fs)
      /\ Len(fs) = 1 /\ fs[1] = f /\ \A j \in 1..1 : j = 1
      /\ k < Len(spews[t]) /\ spews[t][Len(spews[t])] = Top(t)
  BY UnderIs, TailIs DEF MostKept
<1>2. /\ \A x : (Takes(fs, x) <=> Bears(f, x)) /\ TakesOnce(fs, x)
      /\ \A x : LeavesOut(t, k, x) <=> Bears(Top(t), x)
  BY TakesIs, LeavesOutIs
<1> HIDE DEF k, fs
<1>3. FramesKept
  BY <1>1, FramesKeep
<1>4. ASSUME NEW x, Bears(Top(t), x) <=> Bears(f, x) PROVE Keeps(x)
  BY <1>1, <1>2, <1>4, BorneKeeps DEF Keeps
<1>5. ASSUME NEW x, Bears(Top(t), x), ~Bears(f, x) PROVE Ends(x)
  BY <1>1, <1>2, <1>5, BorneEnds DEF Ends
<1>6. ASSUME NEW x, Bears(f, x), ~Borne(x) PROVE Begins(x)
  BY <1>1, <1>2, <1>6, BorneBegins DEF Begins
<1> QED BY <1>3, <1>4, <1>5, <1>6

LEMMA TailPushStep ==
  ASSUME SpewTypeOK, UnderSet, UNCHANGED modules, NEW t \in Threads, Busy(t),
         NEW f \in SpewFrame, NEW g \in SpewFrame,
         Becomes(t, Append(Append(Under(t), f), g)), FrameOK(f), FrameOK(g),
         f.text = Top(t).text, g.text = "set" => f.in = "newspew" /\ f.at = 1
  PROVE  /\ FramesKept
         /\ \A x : /\ /\ Bears(Top(t), x) <=> Bears(f, x) \/ Bears(g, x)
                      /\ ~(Bears(f, x) /\ Bears(g, x))
                      => Keeps(x)
                   /\ Bears(f, x) \/ Bears(g, x) => Borne(x)'
                   /\ ~Borne(x) /\ ~(Bears(f, x) /\ Bears(g, x)) /\ (Bears(f, x) \/ Bears(g, x))
                      => Begins(x)
<1> DEFINE k == Len(spews[t]) - 1
           fs == <<f, g>>
<1>1. /\ k \in Nat /\ MostKept(t, k) /\ fs \in Seq(SpewFrame) /\ Stacked(t, k, fs)
      /\ Len(fs) = 2 /\ fs[1] = f /\ fs[2] = g /\ \A j \in 1..2 : j = 1 \/ j = 2
      /\ k < Len(spews[t]) /\ spews[t][Len(spews[t])] = Top(t)
  BY UnderIs, TailPushIs DEF MostKept
<1>2. /\ \A x : Takes(fs, x) <=> Bears(f, x) \/ Bears(g, x)
      /\ \A x : ~(Bears(f, x) /\ Bears(g, x)) => TakesOnce(fs, x)
      /\ \A x : LeavesOut(t, k, x) <=> Bears(Top(t), x)
  <2> HIDE DEF k
  <2>1. ASSUME NEW x PROVE Takes(fs, x) <=> Bears(f, x) \/ Bears(g, x)
    <3>1. \A p, q \in SpewFrame : Takes(<<p, q>>, x) <=> Bears(p, x) \/ Bears(q, x)
      BY TakesIs
    <3> QED BY <3>1
  <2>2. ASSUME NEW x, ~(Bears(f, x) /\ Bears(g, x)) PROVE TakesOnce(fs, x)
    <3>1. \A p, q \in SpewFrame : ~(Bears(p, x) /\ Bears(q, x)) => TakesOnce(<<p, q>>, x)
      BY TakesIs
    <3> QED BY <2>2, <3>1
  <2> USE DEF k
  <2>3. \A x : LeavesOut(t, k, x) <=> Bears(Top(t), x)
    BY LeavesOutIs
  <2> QED BY <2>1, <2>2, <2>3
<1> HIDE DEF k, fs
<1>3. FramesKept
  <2>1. ASSUME NEW j \in 1..Len(fs)
        PROVE  /\ FrameOK(fs[j])
               /\ fs[j].text = "set" =>
                    \/ j = 1 /\ k < Len(spews[t]) /\ spews[t][Len(spews[t])].text = "set"
                    \/ j > 1 /\ fs[j - 1].in = "newspew" /\ fs[j - 1].at = 1
    <3>1. CASE j = 1
      BY <1>1, <3>1
    <3>2. CASE j = 2
      <4>1. fs[j - 1] = f /\ j > 1
        BY <1>1, <3>2
      <4> QED BY <1>1, <3>2, <4>1
    <3> QED BY <1>1, <3>1, <3>2
  <2> QED BY <1>1, <2>1, FramesKeep
<1>4. ASSUME NEW x, Bears(Top(t), x) <=> Bears(f, x) \/ Bears(g, x), ~(Bears(f, x) /\ Bears(g, x))
      PROVE  Keeps(x)
  BY <1>1, <1>2, <1>4, BorneKeeps DEF Keeps
<1>5. ASSUME NEW x, Bears(f, x) \/ Bears(g, x) PROVE Borne(x)'
  BY <1>1, <1>2, <1>5, TakenIsBorne
<1>6. ASSUME NEW x, Bears(f, x) \/ Bears(g, x), ~(Bears(f, x) /\ Bears(g, x)), ~Borne(x)
      PROVE  Begins(x)
  BY <1>1, <1>2, <1>6, BorneBegins DEF Begins
<1> QED BY <1>3, <1>4, <1>5, <1>6

-----------------------------------------------------------------------------
LEMMA BearsIs ==
  ASSUME NEW f
  PROVE  /\ \A m : Bears(f, TextOf(m)) <=> f.text = m /\ (f.in = "newspew" => f.at <= 1)
         /\ Bears(f, Question) <=> f.in = "LuaSpew" /\ f.at > 0
         /\ Bears(f, TheReset) <=> IF f.in = "newspew" THEN f.at \in {1, 2} ELSE f.text = "reset"
BY DEF Bears, TextOf, Question, TheReset

LEMMA TextKept ==
  ASSUME NEW m \in Messages, TextOnce(m), Keeps(TextOf(m)), output'[m] = output[m],
         m \in printed' <=> m \in printed, m \in kept' \cup dropped' <=> m \in kept \cup dropped
  PROVE  TextOnce(m)'
BY DEF TextOnce, Keeps, TextOf

LEMMA TextPrinted ==
  ASSUME NEW m \in Messages, TextOnce(m), m \notin printed, m \in printed',
         ~Borne(TextOf(m)) => Begins(TextOf(m)),
         UNCHANGED <<output, kept, dropped>>
  PROVE  TextOnce(m)'
BY DEF TextOnce, Begins, TextOf

LEMMA TextEnds ==
  ASSUME NEW m \in Messages, TextOnce(m), Ends(TextOf(m)), m \in printed => m \in printed',
         \/ output'[m] = 1 /\ (m \notin kept \cup dropped => m \notin kept' \cup dropped')
         \/ output'[m] = output[m] /\ m \in kept' \cup dropped',
         output'[m] = 1 => output[m] = 0
  PROVE  TextOnce(m)'
BY DEF TextOnce, Ends, TextOf

LEMMA SpewRests ==
  ASSUME SpewInv, UNCHANGED modules, FramesKept,
         printed' \subseteq Messages, output' \in [Messages -> Int],
         inspew' \in BOOLEAN, colour' \in Code,
         \A m \in Messages : TextOnce(m)',
         BorneOnce(Question)', inspew' <=> Borne(Question)',
         colour' = "set" /\ "reset" \notin kept' => Borne(TheReset)'
  PROVE  SpewInv'
<1>1. SpewTypeOK' /\ UnderSet'
  BY DEF SpewTypeOK, FramesKept
<1>2. ModulesOK'
  BY DEF SpewInv, ModulesOK, modules
<1> QED BY <1>1, <1>2 DEF SpewInv

\* What is called next: the outermost module, what it found, or the engine.
LEMMA CalledNext ==
  ASSUME SpewInv, NEW text \in Messages \cup Code
  PROVE  /\ text \in Messages =>
              SpewCall(spewFunc, text) \in SpewFrame /\ FrameOK(SpewCall(spewFunc, text))
         /\ luas /\ (g_fnOldSpew = "newspew" => text \in Messages) =>
              /\ SpewCall(g_fnOldSpew, text) \in SpewFrame /\ FrameOK(SpewCall(g_fnOldSpew, text))
              /\ g_fnOldSpew # "LuaSpew"
         /\ (\E i \in 1..Len(hooked) : hooked[i] = "newspew") =>
              /\ SpewCall(oldspew, text) \in SpewFrame /\ FrameOK(SpewCall(oldspew, text))
              /\ oldspew # "newspew"
<1>1. ModulesOK
  BY DEF SpewInv
<1>2. CASE hooked = <<>> /\ spewFunc = "engine" /\ ~luas
  <2>1. 1..Len(hooked) = {}
    BY <1>2
  <2> QED BY <1>2, <2>1 DEF SpewCall, SpewFrame, FrameOK
<1>3. CASE hooked = <<"LuaSpew">> /\ spewFunc = "LuaSpew" /\ g_fnOldSpew = "engine" /\ luas
  <2>1. \A i \in 1..Len(hooked) : hooked[i] = "LuaSpew"
    BY <1>3
  <2> QED BY <1>3, <2>1 DEF SpewCall, SpewFrame, FrameOK
<1>4. CASE hooked = <<"newspew">> /\ spewFunc = "newspew" /\ oldspew = "engine" /\ ~luas
  <2>1. 1 \in 1..Len(hooked) /\ hooked[1] = "newspew"
    BY <1>4
  <2> QED BY <1>4, <2>1 DEF SpewCall, SpewFrame, FrameOK
<1>5. CASE /\ hooked = <<"LuaSpew", "newspew">> /\ luas
           /\ spewFunc = "newspew" /\ oldspew = "LuaSpew" /\ g_fnOldSpew = "engine"
  <2>1. 2 \in 1..Len(hooked) /\ hooked[2] = "newspew"
    BY <1>5
  <2> QED BY <1>5, <2>1 DEF SpewCall, SpewFrame, FrameOK
<1>6. CASE /\ hooked = <<"newspew", "LuaSpew">> /\ luas
           /\ spewFunc = "LuaSpew" /\ g_fnOldSpew = "newspew" /\ oldspew = "engine"
  <2>1. 1 \in 1..Len(hooked) /\ hooked[1] = "newspew"
    BY <1>6
  <2> QED BY <1>6, <2>1 DEF SpewCall, SpewFrame, FrameOK
<1> QED BY <1>1, <1>2, <1>3, <1>4, <1>5, <1>6 DEF ModulesOK

LEMMA MessageStep ==
  ASSUME SpewInv, NEW t \in Threads, NEW m \in Messages, SpewMessage(t, m)
  PROVE  SpewInv'
<1> DEFINE g == SpewCall(spewFunc, m)
<1>1. /\ m \notin printed /\ printed' = printed \cup {m} /\ Becomes(t, Append(spews[t], g))
      /\ UNCHANGED <<modules, inspew, output, kept, dropped, colour>>
  BY DEF SpewMessage
<1>2. /\ g \in SpewFrame /\ FrameOK(g) /\ g.text = m /\ g.at = 0 /\ m \notin Code
  BY CalledNext, SpewAssumption DEF SpewCall
<1> HIDE DEF g
<1>3. SpewTypeOK /\ UnderSet /\ g.text # "set" /\ g.text # "reset"
  BY <1>2 DEF SpewInv, Code
<1>4. /\ FramesKept
      /\ \A x : /\ ~Bears(g, x) => Keeps(x)
                /\ Bears(g, x) => Borne(x)' /\ (~Borne(x) => Begins(x))
  BY <1>1, <1>2, <1>3, PushStep
<1>5. ASSUME NEW n \in Messages PROVE TextOnce(n)'
  <2>0. TextOnce(n)
    BY DEF SpewInv
  <2>1. CASE n = m
    <3>1. Bears(g, TextOf(n))
      BY <1>2, <2>1, BearsIs
    <3> QED BY <1>1, <1>4, <2>0, <2>1, <3>1, TextPrinted
  <2>2. CASE n # m
    <3>1. ~Bears(g, TextOf(n))
      BY <1>2, <2>2, BearsIs
    <3> QED BY <1>1, <1>4, <2>0, <2>2, <3>1, TextKept
  <2> QED BY <2>1, <2>2
<1>6. Keeps(Question) /\ Keeps(TheReset)
  BY <1>2, <1>3, <1>4, BearsIs
<1>7. printed' \subseteq Messages
  BY <1>1, <1>3 DEF SpewTypeOK
<1> QED BY <1>1, <1>3, <1>4, <1>5, <1>6, <1>7, SpewRests DEF SpewInv, SpewTypeOK, Keeps

LEMMA OutputStep ==
  ASSUME SpewInv, NEW t \in Threads, EngineSpew(t)
  PROVE  SpewInv'
<1> DEFINE f == Top(t)
<1>1. /\ Busy(t) /\ f.in = "engine" /\ Returns(t)
      /\ UNCHANGED <<modules, inspew, printed, kept, dropped>>
      /\ IF f.text \in Code THEN colour' = f.text /\ UNCHANGED output
         ELSE output' = [output EXCEPT ![f.text] = @ + 1] /\ UNCHANGED colour
  BY DEF EngineSpew, InCall
<1>2. /\ SpewTypeOK /\ UnderSet /\ f \in SpewFrame /\ Len(spews[t]) \in Nat /\ Len(spews[t]) >= 1
      /\ f = spews[t][Len(spews[t])]
  BY <1>1, UnderIs DEF SpewInv
<1>3. /\ FramesKept
      /\ \A x : (~Bears(f, x) => Keeps(x)) /\ (Bears(f, x) => Ends(x))
  BY <1>1, <1>2, ReturnStep
<1> HIDE DEF f
<1>4. f.text \in Messages \cup Code /\ (f.text \in Messages <=> f.text \notin Code)
  BY <1>2, SpewAssumption DEF SpewFrame
<1>5. output' \in [Messages -> Int] /\ colour' \in Code
  BY <1>1, <1>2, <1>4 DEF SpewTypeOK
<1>6. ASSUME NEW n \in Messages PROVE TextOnce(n)'
  <2>0. TextOnce(n)
    BY DEF SpewInv
  <2>1. CASE n = f.text
    <3>1. Bears(f, TextOf(n))
      BY <1>1, <2>1, BearsIs
    <3>2. output'[n] = output[n] + 1
      BY <1>1, <1>2, <1>4, <2>1 DEF SpewTypeOK
    <3>3. Borne(TextOf(n)) /\ output[n] = 0
      BY <1>3, <2>0, <3>1 DEF TextOnce, Ends
    <3>4. output'[n] = 1 /\ output[n] = 0
      BY <3>2, <3>3
    <3> QED BY <1>1, <1>3, <2>0, <3>1, <3>4, TextEnds
  <2>2. CASE n # f.text
    <3>1. ~Bears(f, TextOf(n))
      BY <2>2, BearsIs
    <3>2. output'[n] = output[n]
      BY <1>1, <1>2, <1>4, <2>2 DEF SpewTypeOK
    <3> QED BY <1>1, <1>3, <2>0, <3>1, <3>2, TextKept
  <2> QED BY <2>1, <2>2
<1>7. Keeps(Question)
  BY <1>1, <1>3, BearsIs
<1>8. ASSUME colour' = "set", "reset" \notin kept' PROVE Borne(TheReset)'
  <2>1. CASE f.text = "set"
    <3>1. /\ Len(spews[t]) > 1 /\ spews[t][Len(spews[t]) - 1].in = "newspew"
          /\ spews[t][Len(spews[t]) - 1].at = 1
      BY <1>2, <2>1 DEF UnderSet
    <3>2. Stacked(t, Len(spews[t]) - 1, <<>>)
      BY <1>1, <1>2, ReturnIs
    <3>3. Len(spews[t]) - 1 \in 1..Len(spews'[t])
          /\ spews'[t][Len(spews[t]) - 1] = spews[t][Len(spews[t]) - 1]
      BY <1>2, <3>1, <3>2 DEF Stacked
    <3>4. Bears(spews'[t][Len(spews[t]) - 1], TheReset)
      BY <3>1, <3>3, BearsIs
    <3> QED BY <3>3, <3>4 DEF Borne
  <2>2. CASE f.text # "set"
    <3>1. f.text \in Messages /\ colour' = colour
      BY <1>1, <1>4, <1>8, <2>2 DEF Code
    <3>2. ~Bears(f, TheReset)
      BY <1>1, <1>4, <3>1, BearsIs DEF Code
    <3> QED BY <1>1, <1>3, <1>8, <3>1, <3>2 DEF Keeps, SpewInv
  <2> QED BY <2>1, <2>2
<1>9. printed' \subseteq Messages /\ inspew' \in BOOLEAN
  BY <1>1, <1>2 DEF SpewTypeOK
<1>10. BorneOnce(Question)' /\ (inspew' <=> Borne(Question)')
  BY <1>1, <1>7 DEF Keeps, SpewInv
<1> QED BY <1>1, <1>3, <1>5, <1>6, <1>8, <1>9, <1>10, SpewRests

\* A call of LuaSpew goes on, or tail-calls what it found.
LEMMA LuaSpewStep ==
  ASSUME SpewInv, NEW t \in Threads, LuaSpew(t)
  PROVE  SpewInv'
<1> DEFINE f == Top(t)
           asked == [f EXCEPT !.at = 1]
           next == SpewCall(g_fnOldSpew, f.text)
<1>1. /\ Busy(t) /\ f.in = "LuaSpew" /\ f.at = 0
      /\ \/ ~inspew /\ inspew' = TRUE /\ Becomes(t, Append(Under(t), asked))
         \/ Becomes(t, Append(Under(t), next)) /\ inspew' = inspew
      /\ UNCHANGED <<modules, printed, output, kept, dropped, colour>>
  BY DEF LuaSpew, InCall, Asks, GoesOn, TailCall
<1>2. SpewTypeOK /\ UnderSet /\ f \in SpewFrame /\ FrameOK(f)
  BY <1>1, UnderIs DEF SpewInv
<1>3. /\ f.text \in Messages \cup Code /\ luas
      /\ g_fnOldSpew = "newspew" => f.text \in Messages
  BY <1>1, <1>2 DEF SpewFrame, FrameOK
<1>4. f.text \in Messages => f.text # "reset"
  BY SpewAssumption DEF Code
<1>5. /\ \A n : Bears(f, TextOf(n)) <=> f.text = n
      /\ ~Bears(f, Question) /\ (Bears(f, TheReset) <=> f.text = "reset")
  BY <1>1, BearsIs
<1>6. /\ asked \in SpewFrame /\ FrameOK(asked) /\ asked.text = f.text
      /\ \A n : Bears(asked, TextOf(n)) <=> f.text = n
      /\ Bears(asked, Question) /\ (Bears(asked, TheReset) <=> f.text = "reset")
  <2>1. asked \in SpewFrame /\ asked.in = "LuaSpew" /\ asked.at = 1 /\ asked.text = f.text
    BY <1>1, <1>2 DEF SpewFrame
  <2> HIDE DEF asked
  <2> QED BY <1>3, <2>1, BearsIs DEF FrameOK
<1>7. /\ next \in SpewFrame /\ FrameOK(next) /\ next.text = f.text
      /\ next.in = g_fnOldSpew /\ next.at = 0 /\ next.in # "LuaSpew"
  BY <1>3, CalledNext DEF SpewCall
<1> HIDE DEF next
<1>8. /\ \A n : Bears(next, TextOf(n)) <=> f.text = n
      /\ ~Bears(next, Question) /\ (Bears(next, TheReset) <=> f.text = "reset")
  BY <1>3, <1>4, <1>7, BearsIs
<1> HIDE DEF f, asked
<1>9. /\ FramesKept /\ Keeps(TheReset) /\ \A n : Keeps(TextOf(n))
      /\ BorneOnce(Question)' /\ (inspew' <=> Borne(Question)') /\ inspew' \in BOOLEAN
  <2>1. CASE ~inspew /\ inspew' = TRUE /\ Becomes(t, Append(Under(t), asked))
    <3>1. ~Borne(Question)
      BY <2>1 DEF SpewInv
    <3>2. /\ FramesKept
          /\ \A x : /\ (Bears(f, x) <=> Bears(asked, x)) => Keeps(x)
                    /\ ~Borne(x) /\ Bears(asked, x) => Begins(x)
      BY <1>1, <1>2, <1>6, <2>1, TailStep DEF f
    <3>3. Begins(Question)
      BY <1>6, <3>1, <3>2
    <3> QED BY <1>5, <1>6, <2>1, <3>2, <3>3 DEF Begins
  <2>2. CASE Becomes(t, Append(Under(t), next)) /\ inspew' = inspew
    <3>1. /\ FramesKept
          /\ \A x : (Bears(f, x) <=> Bears(next, x)) => Keeps(x)
      BY <1>1, <1>2, <1>7, <2>2, TailStep DEF f
    <3>2. Keeps(Question)
      BY <1>5, <1>8, <3>1
    <3> QED BY <1>5, <1>8, <2>2, <3>1, <3>2 DEF Keeps, SpewInv, SpewTypeOK
  <2> QED BY <1>1, <2>1, <2>2
<1>10. \A n \in Messages : TextOnce(n)'
  BY <1>1, <1>9, TextKept DEF SpewInv
<1>11. printed' \subseteq Messages /\ output' \in [Messages -> Int] /\ colour' \in Code
  BY <1>1, <1>2 DEF SpewTypeOK
<1>12. colour' = "set" /\ "reset" \notin kept' => Borne(TheReset)'
  BY <1>1, <1>9 DEF Keeps, SpewInv
<1> QED BY <1>1, <1>9, <1>10, <1>11, <1>12, SpewRests

\* The question ends: the text is kept, or goes on.
LEMMA QuestionEnds ==
  ASSUME SpewInv, NEW t \in Threads, Busy(t), Top(t).in = "LuaSpew", Top(t).at > 0,
         inspew' = FALSE,
         \/ kept' = kept \cup {Top(t).text} /\ Returns(t)
         \/ UNCHANGED kept /\ TailCall(t, g_fnOldSpew),
         UNCHANGED <<modules, printed, output, dropped, colour>>
  PROVE  SpewInv'
<1> DEFINE f == Top(t)
           next == SpewCall(g_fnOldSpew, f.text)
<1>1. SpewTypeOK /\ UnderSet /\ f \in SpewFrame /\ FrameOK(f)
  BY UnderIs DEF SpewInv
<1>2. /\ f.text \in Messages \cup Code /\ luas
      /\ g_fnOldSpew = "newspew" => f.text \in Messages
  BY <1>1 DEF SpewFrame, FrameOK
<1>3. f.text \in Messages => f.text # "reset"
  BY SpewAssumption DEF Code
<1>4. /\ \A n : Bears(f, TextOf(n)) <=> f.text = n
      /\ Bears(f, Question) /\ (Bears(f, TheReset) <=> f.text = "reset")
  BY BearsIs
<1>5. /\ next \in SpewFrame /\ FrameOK(next) /\ next.text = f.text
      /\ next.in = g_fnOldSpew /\ next.at = 0 /\ next.in # "LuaSpew"
  BY <1>2, CalledNext DEF SpewCall
<1> HIDE DEF next
<1>6. /\ \A n : Bears(next, TextOf(n)) <=> f.text = n
      /\ ~Bears(next, Question) /\ (Bears(next, TheReset) <=> f.text = "reset")
  BY <1>2, <1>3, <1>5, BearsIs
<1>7. BorneOnce(Question) /\ \A n \in Messages : TextOnce(n)
  BY DEF SpewInv
<1>8. printed' \subseteq Messages /\ output' \in [Messages -> Int] /\ colour' \in Code
  BY <1>1 DEF SpewTypeOK
<1>9. CASE kept' = kept \cup {f.text} /\ Returns(t)
  <2>1. /\ FramesKept
        /\ \A x : (~Bears(f, x) => Keeps(x)) /\ (Bears(f, x) => Ends(x))
    BY <1>1, <1>9, ReturnStep
  <2> HIDE DEF f
  <2>2. ASSUME NEW n \in Messages PROVE TextOnce(n)'
    <3>1. CASE n = f.text
      <4>1. Ends(TextOf(n))
        BY <1>4, <2>1, <3>1
      <4>2. Borne(TextOf(n)) /\ output[n] = 0
        BY <1>7, <4>1 DEF Ends, TextOnce
      <4>3. output'[n] = output[n] /\ n \in kept' \cup dropped' /\ output'[n] # 1
        BY <1>9, <3>1, <4>2
      <4> QED BY <1>7, <4>1, <4>3, TextEnds
    <3>2. CASE n # f.text
      <4>1. Keeps(TextOf(n))
        BY <1>4, <2>1, <3>2
      <4>2. n \in kept' \cup dropped' <=> n \in kept \cup dropped
        BY <1>9, <3>2
      <4> QED BY <1>7, <4>1, <4>2, TextKept
    <3> QED BY <3>1, <3>2
  <2>3. BorneOnce(Question)' /\ ~Borne(Question)'
    BY <1>4, <1>7, <2>1 DEF Ends
  <2>4. colour' = "set" /\ "reset" \notin kept' => Borne(TheReset)'
    BY <1>4, <1>9, <2>1 DEF Keeps, SpewInv
  <2> QED BY <1>8, <2>1, <2>2, <2>3, <2>4, SpewRests
<1>10. CASE kept' = kept /\ Becomes(t, Append(Under(t), next))
  <2>1. /\ FramesKept
        /\ \A x : /\ (Bears(f, x) <=> Bears(next, x)) => Keeps(x)
                  /\ Bears(f, x) /\ ~Bears(next, x) => Ends(x)
    BY <1>1, <1>5, <1>10, TailStep
  <2> HIDE DEF f
  <2>2. \A n \in Messages : TextOnce(n)'
    BY <1>4, <1>6, <1>7, <1>10, <2>1, TextKept
  <2>3. BorneOnce(Question)' /\ ~Borne(Question)'
    BY <1>4, <1>6, <1>7, <2>1 DEF Ends
  <2>4. colour' = "set" /\ "reset" \notin kept' => Borne(TheReset)'
    BY <1>4, <1>6, <1>10, <2>1 DEF Keeps, SpewInv
  <2> QED BY <1>8, <2>1, <2>2, <2>3, <2>4, SpewRests
<1> QED BY <1>9, <1>10 DEF TailCall, next

LEMMA RaiseStep ==
  ASSUME SpewInv, NEW t \in Threads, NEW w \in Messages, HookRaises(t, w)
  PROVE  SpewInv'
<1> DEFINE f == Top(t)
           on == [f EXCEPT !.at = 2]
           g == SpewCall(spewFunc, w)
<1>1. /\ Busy(t) /\ f.in = "LuaSpew" /\ f.at = 1 /\ w \notin printed
      /\ printed' = printed \cup {w} /\ inspew' = inspew
      /\ Becomes(t, Append(Append(Under(t), on), g))
      /\ UNCHANGED <<modules, output, kept, dropped, colour>>
  BY DEF HookRaises, InCall, GoesOn, Warned
<1>2. /\ SpewTypeOK /\ UnderSet /\ f \in SpewFrame /\ FrameOK(f)
      /\ f = spews[t][Len(spews[t])] /\ Len(spews[t]) \in 1..Len(spews[t])
  BY <1>1, UnderIs DEF SpewInv
<1>3. /\ g \in SpewFrame /\ FrameOK(g) /\ g.text = w /\ g.at = 0
      /\ w # "reset" /\ w # "set"
  BY CalledNext, SpewAssumption DEF SpewCall, Code
<1>4. on \in SpewFrame /\ FrameOK(on) /\ on.text = f.text /\ on.in = "LuaSpew" /\ on.at = 2
  <2>1. on \in SpewFrame /\ on.in = "LuaSpew" /\ on.at = 2 /\ on.text = f.text
    BY <1>1, <1>2 DEF SpewFrame
  <2> HIDE DEF on
  <2> QED BY <1>1, <1>2, <2>1 DEF FrameOK
<1> HIDE DEF on, g
<1>5. /\ \A n : Bears(f, TextOf(n)) <=> f.text = n
      /\ Bears(f, Question) /\ (Bears(f, TheReset) <=> f.text = "reset")
      /\ \A n : Bears(on, TextOf(n)) <=> f.text = n
      /\ Bears(on, Question) /\ (Bears(on, TheReset) <=> f.text = "reset")
      /\ \A n : Bears(g, TextOf(n)) <=> n = w
      /\ ~Bears(g, Question) /\ ~Bears(g, TheReset)
  BY <1>1, <1>3, <1>4, BearsIs
<1>6. /\ FramesKept
      /\ \A x : /\ /\ Bears(f, x) <=> Bears(on, x) \/ Bears(g, x)
                   /\ ~(Bears(on, x) /\ Bears(g, x))
                   => Keeps(x)
                /\ ~Borne(x) /\ ~(Bears(on, x) /\ Bears(g, x)) /\ (Bears(on, x) \/ Bears(g, x))
                   => Begins(x)
  BY <1>1, <1>2, <1>3, <1>4, TailPushStep
<1>7. \A n \in Messages : TextOnce(n)
  BY DEF SpewInv
<1>8. ~Borne(TextOf(w)) /\ f.text # w
  <2>1. ~Borne(TextOf(w))
    BY <1>1, <1>7 DEF TextOnce
  <2>2. Bears(f, TextOf(f.text))
    BY <1>5
  <2> HIDE DEF f
  <2> QED BY <1>2, <2>1, <2>2 DEF Borne
<1> HIDE DEF f
<1>9. ASSUME NEW n \in Messages PROVE TextOnce(n)'
  <2>1. CASE n = w
    <3>1. Begins(TextOf(n))
      BY <1>5, <1>6, <1>8, <2>1
    <3> QED BY <1>1, <1>7, <2>1, <3>1, TextPrinted
  <2>2. CASE n # w
    <3>1. Keeps(TextOf(n))
      BY <1>5, <1>6, <2>2
    <3>2. n \in printed' <=> n \in printed
      BY <1>1, <2>2
    <3> QED BY <1>1, <1>7, <3>1, <3>2, TextKept
  <2> QED BY <2>1, <2>2
<1>10. Keeps(Question) /\ Keeps(TheReset)
  BY <1>5, <1>6
<1>11. /\ printed' \subseteq Messages /\ output' \in [Messages -> Int] /\ colour' \in Code
       /\ inspew' \in BOOLEAN
  BY <1>1, <1>2 DEF SpewTypeOK
<1> QED BY <1>1, <1>6, <1>9, <1>10, <1>11, SpewRests DEF Keeps, SpewInv

\* newspew drops its text, makes its next call or returns.
LEMMA DropStep ==
  ASSUME SpewInv, NEW t \in Threads, Busy(t), Top(t).in = "newspew", Returns(t),
         UNCHANGED <<modules, inspew, printed, output, kept, colour>>,
         \/ Top(t).at = 0 /\ dropped' = dropped \cup {Top(t).text}
         \/ Top(t).at = 3 /\ dropped' = dropped
  PROVE  SpewInv'
<1> DEFINE f == Top(t)
<1>1. SpewTypeOK /\ UnderSet /\ f \in SpewFrame
  BY UnderIs DEF SpewInv
<1>2. /\ FramesKept
      /\ \A x : (~Bears(f, x) => Keeps(x)) /\ (Bears(f, x) => Ends(x))
  BY <1>1, ReturnStep
<1>3. /\ \A n : Bears(f, TextOf(n)) <=> f.text = n /\ f.at = 0
      /\ ~Bears(f, Question) /\ ~Bears(f, TheReset)
  BY BearsIs
<1> HIDE DEF f
<1>4. \A n \in Messages : TextOnce(n)
  BY DEF SpewInv
<1>5. ASSUME NEW n \in Messages PROVE TextOnce(n)'
  <2>1. CASE n = f.text /\ f.at = 0
    <3>1. Ends(TextOf(n))
      BY <1>2, <1>3, <2>1
    <3>2. Borne(TextOf(n)) /\ output[n] = 0
      BY <1>4, <3>1 DEF Ends, TextOnce
    <3>3. output'[n] = output[n] /\ n \in kept' \cup dropped' /\ output'[n] # 1
      BY <2>1, <3>2 DEF f
    <3> QED BY <1>4, <3>1, <3>3, TextEnds
  <2>2. CASE ~(n = f.text /\ f.at = 0)
    <3>1. Keeps(TextOf(n))
      BY <1>2, <1>3, <2>2
    <3>2. n \in kept' \cup dropped' <=> n \in kept \cup dropped
      BY <2>2 DEF f
    <3> QED BY <1>4, <3>1, <3>2, TextKept
  <2> QED BY <2>1, <2>2
<1>6. Keeps(Question) /\ Keeps(TheReset)
  BY <1>2, <1>3
<1>7. /\ printed' \subseteq Messages /\ output' \in [Messages -> Int] /\ colour' \in Code
      /\ inspew' \in BOOLEAN
  BY <1>1 DEF SpewTypeOK
<1> QED BY <1>2, <1>5, <1>6, <1>7, SpewRests DEF Keeps, SpewInv

LEMMA PartStep ==
  ASSUME SpewInv, NEW t \in Threads, Busy(t), Top(t).in = "newspew", Top(t).at \in {0, 1, 2},
         Becomes(t, Append(GoesOn(t, Top(t).at + 1),
                           SpewCall(oldspew, Parts(Top(t).text)[Top(t).at + 1]))),
         UNCHANGED <<modules, inspew, printed, output, kept, dropped, colour>>
  PROVE  SpewInv'
<1> DEFINE f == Top(t)
           on == [f EXCEPT !.at = f.at + 1]
           part == Parts(f.text)[f.at + 1]
           g == SpewCall(oldspew, part)
<1>1. SpewTypeOK /\ UnderSet /\ f \in SpewFrame /\ FrameOK(f)
  BY UnderIs DEF SpewInv
<1>2. /\ f.text \in Messages /\ f.in = "newspew" /\ f.at \in {0, 1, 2}
      /\ \E i \in 1..Len(hooked) : hooked[i] = "newspew"
  BY <1>1 DEF FrameOK
<1>3. /\ f.at = 0 => part = "set"
      /\ f.at = 1 => part = f.text
      /\ f.at = 2 => part = "reset"
      /\ f.text # "set" /\ f.text # "reset"
  BY <1>2, SpewAssumption DEF Parts, Code
<1>4. on \in SpewFrame /\ on.in = "newspew" /\ on.at = f.at + 1 /\ on.text = f.text
  BY <1>1, <1>2 DEF SpewFrame
<1>5. Becomes(t, Append(Append(Under(t), on), g))
  BY DEF GoesOn
<1> HIDE DEF on, part
<1>6. part \in Messages \cup Code
  BY <1>2, <1>3 DEF Code
<1>7. /\ g \in SpewFrame /\ FrameOK(g) /\ g.text = part /\ g.in # "newspew" /\ g.at = 0
  BY <1>2, <1>6, CalledNext DEF SpewCall
<1>8. FrameOK(on)
  BY <1>2, <1>4 DEF FrameOK
<1> HIDE DEF g
<1>9. g.text = "set" => on.in = "newspew" /\ on.at = 1
  BY <1>2, <1>3, <1>4, <1>7
<1>10. /\ FramesKept
       /\ \A x : /\ /\ Bears(f, x) <=> Bears(on, x) \/ Bears(g, x)
                    /\ ~(Bears(on, x) /\ Bears(g, x))
                    => Keeps(x)
                 /\ Bears(on, x) \/ Bears(g, x) => Borne(x)'
  BY <1>1, <1>4, <1>5, <1>7, <1>8, <1>9, TailPushStep
<1>11. ASSUME NEW n \in Messages
       PROVE  /\ Bears(f, TextOf(n)) <=> f.text = n /\ f.at <= 1
              /\ Bears(on, TextOf(n)) <=> f.text = n /\ f.at = 0
              /\ Bears(g, TextOf(n)) <=> f.text = n /\ f.at = 1
  <2>1. n # "set" /\ n # "reset"
    BY SpewAssumption DEF Code
  <2>2. Bears(f, TextOf(n)) <=> f.text = n /\ f.at <= 1
    BY <1>2, BearsIs
  <2>3. Bears(on, TextOf(n)) <=> f.text = n /\ f.at = 0
    BY <1>2, <1>4, BearsIs
  <2>4. Bears(g, TextOf(n)) <=> f.text = n /\ f.at = 1
    BY <1>2, <1>3, <1>7, <2>1, BearsIs
  <2> QED BY <2>2, <2>3, <2>4
<1>12. /\ ~Bears(f, Question) /\ ~Bears(on, Question) /\ ~Bears(g, Question)
       /\ Bears(on, TheReset) \/ Bears(g, TheReset)
  <2>1. ~Bears(f, Question) /\ ~Bears(on, Question) /\ ~Bears(g, Question)
    BY <1>2, <1>4, <1>7, BearsIs
  <2>2. f.at \in {0, 1} => Bears(on, TheReset)
    BY <1>4, BearsIs
  <2>3. f.at = 2 => Bears(g, TheReset)
    BY <1>3, <1>7, BearsIs
  <2> QED BY <1>2, <2>1, <2>2, <2>3
<1> HIDE DEF f
<1>13. ASSUME NEW n \in Messages PROVE TextOnce(n)'
  <2>1. Keeps(TextOf(n))
    BY <1>2, <1>10, <1>11
  <2>2. TextOnce(n)
    BY DEF SpewInv
  <2> QED BY <2>1, <2>2, TextKept
<1>14. Keeps(Question) /\ Borne(TheReset)'
  BY <1>10, <1>12
<1>15. /\ printed' \subseteq Messages /\ output' \in [Messages -> Int] /\ colour' \in Code
       /\ inspew' \in BOOLEAN
  BY <1>1 DEF SpewTypeOK
<1> QED BY <1>10, <1>13, <1>14, <1>15, SpewRests DEF Keeps, SpewInv

LEMMA NewspewStep ==
  ASSUME SpewInv, NEW t \in Threads, newspew(t)
  PROVE  SpewInv'
<1> DEFINE f == Top(t)
<1>1. /\ Busy(t) /\ f.in = "newspew" /\ f.at \in 0..3
      /\ UNCHANGED <<modules, inspew, printed, output, kept, colour>>
      /\ IF f.at = 0 /\ f.text \in Colourless
         THEN dropped' = dropped \cup {f.text} /\ Returns(t)
         ELSE /\ UNCHANGED dropped
              /\ IF f.at < Len(Parts(f.text))
                 THEN Becomes(t, Append(GoesOn(t, f.at + 1), SpewCall(oldspew, Parts(f.text)[f.at + 1])))
                 ELSE Returns(t)
  BY DEF newspew, InCall
<1>2. Len(Parts(f.text)) = 3
  BY DEF Parts
<1>3. CASE f.at = 0 /\ f.text \in Colourless
  BY <1>1, <1>3, DropStep
<1>4. CASE ~(f.at = 0 /\ f.text \in Colourless) /\ f.at < 3
  <2>1. f.at \in {0, 1, 2}
    BY <1>1, <1>4
  <2> QED BY <1>1, <1>2, <1>4, <2>1, PartStep
<1>5. CASE ~(f.at = 0 /\ f.text \in Colourless) /\ ~(f.at < 3)
  <2>1. f.at = 3
    BY <1>1, <1>5
  <2> QED BY <1>1, <1>2, <1>5, <2>1, DropStep
<1> QED BY <1>3, <1>4, <1>5

\* A module is hooked or closed: nothing that is on its way changes.
LEMMA ModulesStep ==
  ASSUME SpewInv, UNCHANGED <<inspew, spews, printed, output, kept, dropped, colour>>,
         ModulesOK', \A t \in Threads : \A i \in 1..Len(spews[t]) : FrameOK(spews[t][i])'
  PROVE  SpewInv'
<1>1. SpewTypeOK' /\ UnderSet'
  BY DEF SpewInv, SpewTypeOK, UnderSet
<1>2. \A x : (Borne(x)' <=> Borne(x)) /\ (BorneOnce(x)' <=> BorneOnce(x))
  BY DEF Borne, BorneOnce
<1>3. \A m \in Messages : Keeps(TextOf(m)) /\ TextOnce(m)
  BY <1>2 DEF Keeps, SpewInv
<1>4. \A m \in Messages : TextOnce(m)'
  BY <1>3, TextKept
<1> QED BY <1>1, <1>2, <1>4 DEF SpewInv

LEMMA AppendShort ==
  ASSUME NEW a, NEW b
  PROVE  /\ Append(<<>>, a) = <<a>> /\ Append(<<a>>, b) = <<a, b>>
         /\ RemoveAt(<<a>>, 1) = <<>> /\ RemoveAt(<<a, b>>, 2) = <<a>>
<1> DEFINE S == {a, b}
<1>1. <<>> \in Seq(S) /\ <<a>> \in Seq(S) /\ <<a, b>> \in Seq(S)
  OBVIOUS
<1>2. /\ Append(<<>>, a) \in Seq(S) /\ Len(Append(<<>>, a)) = 1 /\ Append(<<>>, a)[1] = a
  OBVIOUS
<1>3. Append(<<>>, a) = <<a>>
  BY <1>1, <1>2
<1>4. /\ Append(<<a>>, b) \in Seq(S) /\ Len(Append(<<a>>, b)) = 2
      /\ Append(<<a>>, b)[1] = a /\ Append(<<a>>, b)[2] = b
  OBVIOUS
<1>5. Append(<<a>>, b) = <<a, b>>
  <2>1. Len(<<a, b>>) = 2 /\ <<a, b>>[1] = a /\ <<a, b>>[2] = b /\ \A i \in 1..2 : i = 1 \/ i = 2
    OBVIOUS
  <2> DEFINE s == Append(<<a>>, b)
             r == <<a, b>>
  <2>2. s \in Seq(S) /\ r \in Seq(S) /\ Len(s) = Len(r) /\ \A i \in 1..Len(s) : s[i] = r[i]
    BY <1>1, <1>4, <2>1
  <2> HIDE DEF s, r
  <2>3. s = r
    BY <2>2, SeqEqual
  <2> QED BY <2>3 DEF s, r
<1>6. RemoveAt(<<a>>, 1) \in Seq(S) /\ Len(RemoveAt(<<a>>, 1)) = 0
  <2>1. 1 \in 1..Len(<<a>>) /\ Len(<<a>>) = 1
    OBVIOUS
  <2> DEFINE s == <<a>>
  <2>2. s \in Seq(S) /\ 1 \in 1..Len(s) /\ Len(s) = 1
    BY <1>1, <2>1
  <2> HIDE DEF s, S
  <2>3. RemoveAt(s, 1) \in Seq(S) /\ Len(RemoveAt(s, 1)) = Len(s) - 1
    BY <2>2, RemoveAtFacts
  <2>4. Len(RemoveAt(s, 1)) = 0
    BY <2>2, <2>3
  <2> QED BY <2>3, <2>4 DEF s
<1>7. /\ RemoveAt(<<a, b>>, 2) \in Seq(S) /\ Len(RemoveAt(<<a, b>>, 2)) = 1
      /\ RemoveAt(<<a, b>>, 2)[1] = a
  <2>1. 2 \in 1..Len(<<a, b>>) /\ Len(<<a, b>>) = 2 /\ <<a, b>>[1] = a
    OBVIOUS
  <2> DEFINE s == <<a, b>>
  <2>2. s \in Seq(S) /\ 2 \in 1..Len(s) /\ Len(s) = 2 /\ s[1] = a
    BY <1>1, <2>1
  <2> HIDE DEF s, S
  <2>3. /\ RemoveAt(s, 2) \in Seq(S) /\ Len(RemoveAt(s, 2)) = Len(s) - 1
        /\ \A i \in 1..Len(s) - 1 : RemoveAt(s, 2)[i] = IF i < 2 THEN s[i] ELSE s[i + 1]
    BY <2>2, RemoveAtFacts
  <2>4. Len(RemoveAt(s, 2)) = 1 /\ RemoveAt(s, 2)[1] = a
    BY <2>2, <2>3
  <2> QED BY <2>3, <2>4 DEF s
<1>8. RemoveAt(<<a>>, 1) = <<>>
  BY <1>6, EmptySeq
<1>9. RemoveAt(<<a, b>>, 2) = <<a>>
  BY <1>1, <1>7
<1> QED BY <1>3, <1>5, <1>8, <1>9

LEMMA OpenStep ==
  ASSUME SpewInv, SpewOpen \/ XtermOpen
  PROVE  SpewInv'
<1>1. /\ UNCHANGED <<inspew, spews, printed, output, kept, dropped, colour>>
      /\ ModulesOK /\ SpewTypeOK
  BY DEF SpewOpen, XtermOpen, SpewInv
<1>2. CASE SpewOpen
  <2>1. /\ ~luas /\ luas' = TRUE /\ g_fnOldSpew' = spewFunc /\ spewFunc' = "LuaSpew"
        /\ hooked' = Append(hooked, "LuaSpew") /\ oldspew' = oldspew
    BY <1>2 DEF SpewOpen
  <2>2. /\ Append(<<>>, "LuaSpew") = <<"LuaSpew">>
        /\ Append(<<"newspew">>, "LuaSpew") = <<"newspew", "LuaSpew">>
    BY AppendShort
  <2>3. ModulesOK'
    BY <1>1, <2>1, <2>2 DEF ModulesOK
  <2>4. (\E i \in 1..Len(hooked) : hooked[i] = "newspew")
        => \E i \in 1..Len(hooked') : hooked'[i] = "newspew"
    <3>1. CASE hooked = <<>>
      BY <3>1
    <3>2. CASE hooked = <<"newspew">>
      <4>1. 1 \in 1..Len(<<"newspew", "LuaSpew">>) /\ <<"newspew", "LuaSpew">>[1] = "newspew"
        OBVIOUS
      <4>2. hooked' = <<"newspew", "LuaSpew">>
        BY <2>1, <2>2, <3>2
      <4> QED BY <4>1, <4>2
    <3> QED BY <1>1, <2>1, <3>1, <3>2 DEF ModulesOK
  <2>5. ASSUME NEW t \in Threads, NEW i \in 1..Len(spews[t]) PROVE FrameOK(spews[t][i])'
    <3>1. FrameOK(spews[t][i]) /\ spews'[t][i] = spews[t][i]
      BY <1>1 DEF SpewTypeOK
    <3> QED BY <2>1, <2>4, <3>1 DEF FrameOK
  <2> QED BY <1>1, <2>3, <2>5, ModulesStep
<1>3. CASE XtermOpen
  <2>1. /\ \A i \in DOMAIN hooked : hooked[i] # "newspew"
        /\ oldspew' = spewFunc /\ spewFunc' = "newspew" /\ luas' = luas
        /\ hooked' = Append(hooked, "newspew") /\ g_fnOldSpew' = g_fnOldSpew
    BY <1>3 DEF XtermOpen
  <2>2. /\ Append(<<>>, "newspew") = <<"newspew">>
        /\ Append(<<"LuaSpew">>, "newspew") = <<"LuaSpew", "newspew">>
    BY AppendShort
  <2>3. \/ hooked = <<>> /\ spewFunc = "engine" /\ ~luas
        \/ hooked = <<"LuaSpew">> /\ spewFunc = "LuaSpew" /\ g_fnOldSpew = "engine" /\ luas
    <3>1. hooked # <<"newspew">>
      <4>1. 1 \in DOMAIN <<"newspew">> /\ <<"newspew">>[1] = "newspew"
        OBVIOUS
      <4> QED BY <2>1, <4>1
    <3>2. hooked # <<"LuaSpew", "newspew">>
      <4>1. 2 \in DOMAIN <<"LuaSpew", "newspew">> /\ <<"LuaSpew", "newspew">>[2] = "newspew"
        OBVIOUS
      <4> QED BY <2>1, <4>1
    <3>3. hooked # <<"newspew", "LuaSpew">>
      <4>1. 1 \in DOMAIN <<"newspew", "LuaSpew">> /\ <<"newspew", "LuaSpew">>[1] = "newspew"
        OBVIOUS
      <4> QED BY <2>1, <4>1
    <3> QED BY <1>1, <3>1, <3>2, <3>3 DEF ModulesOK
  <2>4. ModulesOK'
    BY <2>1, <2>2, <2>3 DEF ModulesOK
  <2>5. \A i \in 1..Len(hooked) : hooked[i] # "newspew"
    BY <2>1, <2>3
  <2>6. ASSUME NEW t \in Threads, NEW i \in 1..Len(spews[t]) PROVE FrameOK(spews[t][i])'
    <3>1. FrameOK(spews[t][i]) /\ spews'[t][i] = spews[t][i]
      BY <1>1 DEF SpewTypeOK
    <3> QED BY <2>1, <2>5, <3>1 DEF FrameOK
  <2> QED BY <1>1, <2>4, <2>6, ModulesStep
<1> QED BY <1>2, <1>3

LEMMA CloseStep ==
  ASSUME SpewInv, "unordered" \notin SpewHabits, SpewClose \/ XtermClose
  PROVE  SpewInv'
<1>1. /\ UNCHANGED <<inspew, spews, printed, output, kept, dropped, colour, g_fnOldSpew, oldspew>>
      /\ ModulesOK /\ SpewTypeOK
      /\ \A t \in Threads : ~Busy(t)
  BY DEF SpewClose, XtermClose, Closes, SpewInv
<1>2. ASSUME NEW f, Closes(f)
      PROVE  \/ hooked = <<f>> /\ hooked' = <<>>
             \/ \E g : hooked = <<g, f>> /\ hooked' = <<g>>
  <2>1. /\ Len(hooked) \in DOMAIN hooked /\ hooked[Len(hooked)] = f
        /\ hooked' = RemoveAt(hooked, Len(hooked))
    BY <1>2 DEF Closes
  <2>2. hooked # <<>>
    <3>1. DOMAIN <<>> = {}
      OBVIOUS
    <3> QED BY <2>1, <3>1
  <2>3. ASSUME NEW g, hooked = <<g>> PROVE g = f /\ hooked' = <<>>
    <3>1. Len(<<g>>) = 1 /\ <<g>>[1] = g
      OBVIOUS
    <3> QED BY <2>1, <2>3, <3>1, AppendShort
  <2>4. ASSUME NEW g, NEW h, hooked = <<g, h>> PROVE h = f /\ hooked' = <<g>>
    <3>1. Len(<<g, h>>) = 2 /\ <<g, h>>[2] = h
      OBVIOUS
    <3> QED BY <2>1, <2>4, <3>1, AppendShort
  <2> QED BY <1>1, <2>2, <2>3, <2>4 DEF ModulesOK
<1>3. \A a, b, c : <<a>> # <<b, c>> /\ (<<a>> = <<b>> => a = b)
  OBVIOUS
<1>4. \A a, b, c, d : <<a, b>> = <<c, d>> => a = c /\ b = d
  OBVIOUS
<1>5. ModulesOK'
  <2>1. CASE SpewClose
    <3>1. Closes("LuaSpew") /\ luas' = FALSE /\ spewFunc' = g_fnOldSpew
      BY <2>1 DEF SpewClose
    <3>2. \/ hooked = <<"LuaSpew">> /\ hooked' = <<>>
          \/ \E g : hooked = <<g, "LuaSpew">> /\ hooked' = <<g>>
      BY <1>2, <3>1
    <3> QED BY <1>1, <1>3, <1>4, <3>1, <3>2 DEF ModulesOK
  <2>2. CASE XtermClose
    <3>1. Closes("newspew") /\ luas' = luas /\ spewFunc' = oldspew
      BY <2>2 DEF XtermClose
    <3>2. \/ hooked = <<"newspew">> /\ hooked' = <<>>
          \/ \E g : hooked = <<g, "newspew">> /\ hooked' = <<g>>
      BY <1>2, <3>1
    <3> QED BY <1>1, <1>3, <1>4, <3>1, <3>2 DEF ModulesOK
  <2> QED BY <2>1, <2>2
<1>6. \A t \in Threads : 1..Len(spews[t]) = {}
  BY <1>1 DEF Busy
<1> QED BY <1>1, <1>5, <1>6, ModulesStep

LEMMA SpewStart == ASSUME SpewInit PROVE SpewInv
<1>1. /\ spews = [t \in Threads |-> <<>>] /\ printed = {} /\ output = [m \in Messages |-> 0]
      /\ kept = {} /\ dropped = {} /\ inspew = FALSE /\ colour = "reset"
      /\ hooked = <<>> /\ spewFunc = "engine" /\ luas = FALSE
  BY DEF SpewInit
<1>2. <<>> \in Seq(SpewFrame) /\ Len(<<>>) = 0
  OBVIOUS
<1>3. spews \in [Threads -> Seq(SpewFrame)] /\ \A t \in Threads : 1..Len(spews[t]) = {}
  BY <1>1, <1>2
<1>4. SpewTypeOK /\ UnderSet
  <2>1. output \in [Messages -> Int]
    BY <1>1
  <2>2. printed \subseteq Messages
    BY <1>1
  <2>3. inspew \in BOOLEAN /\ colour \in Code
    BY <1>1 DEF Code
  <2> QED BY <1>3, <2>1, <2>2, <2>3 DEF SpewTypeOK, UnderSet
<1>5. \A x : ~Borne(x) /\ BorneOnce(x)
  BY <1>3 DEF Borne, BorneOnce
<1>6. \A m \in Messages : TextOnce(m)
  BY <1>1, <1>5 DEF TextOnce
<1>7. ModulesOK
  BY <1>1 DEF ModulesOK
<1> QED BY <1>1, <1>4, <1>5, <1>6, <1>7 DEF SpewInv

LEMMA SpewStep ==
  ASSUME "unordered" \notin SpewHabits, SpewInv, [SpewNext]_spewVars
  PROVE  SpewInv'
<1>1. ASSUME NEW t \in Threads, HookReturns(t) \/ AfterWarning(t)
      PROVE  SpewInv'
  <2>1. /\ Busy(t) /\ Top(t).in = "LuaSpew" /\ Top(t).at > 0 /\ inspew' = FALSE
        /\ \/ kept' = kept \cup {Top(t).text} /\ Returns(t)
           \/ UNCHANGED kept /\ TailCall(t, g_fnOldSpew)
        /\ UNCHANGED <<modules, printed, output, dropped, colour>>
    BY <1>1 DEF HookReturns, AfterWarning, InCall
  <2> QED BY <2>1, QuestionEnds
<1>2. CASE UNCHANGED spewVars
  <2>1. /\ UNCHANGED <<inspew, spews, printed, output, kept, dropped, colour>>
        /\ UNCHANGED modules
    BY <1>2 DEF spewVars, modules
  <2>2. ModulesOK'
    BY <2>1 DEF SpewInv, ModulesOK, modules
  <2>3. \A t \in Threads : \A i \in 1..Len(spews[t]) : FrameOK(spews[t][i])'
    BY <2>1 DEF SpewInv, SpewTypeOK, FrameOK, modules
  <2> QED BY <2>1, <2>2, <2>3, ModulesStep
<1> QED
  BY <1>1, <1>2, MessageStep, RaiseStep, OutputStep, LuaSpewStep, NewspewStep, OpenStep, CloseStep
     DEF SpewNext

\* EveryMessageOnce: for any messages, threads and number of loads, of modules that
\* are closed in the order they came in.
THEOREM MessagesComeOnce ==
  ASSUME "unordered" \notin SpewHabits
  PROVE  SpewSpec => []EveryMessageOnce
<1>1. SpewInit => SpewInv
  BY SpewStart
<1>2. SpewInv /\ [SpewNext]_spewVars => SpewInv'
  BY SpewStep
<1>3. SpewInv => EveryMessageOnce
  <2>1. SUFFICES ASSUME SpewInv PROVE EveryMessageOnce
    OBVIOUS
  <2>2. \A t \in Threads : DOMAIN spews[t] = 1..Len(spews[t]) /\ spews[t] \in Seq(SpewFrame)
    BY <2>1 DEF SpewInv, SpewTypeOK
  <2>3. ASSUME NEW m \in printed
        PROVE  /\ output[m] <= 1
               /\ ~Passing(m) => output[m] = IF m \in kept \cup dropped THEN 0 ELSE 1
    <3>1. m \in Messages /\ TextOnce(m)
      BY <2>1 DEF SpewInv, SpewTypeOK
    <3>2. Borne(TextOf(m)) => Passing(m)
      BY <2>2, BearsIs DEF Borne, Passing
    <3> QED BY <3>1, <3>2 DEF TextOnce
  <2>4. \A x : x \in Asked <=> \E t \in Threads : \E i \in 1..Len(spews[t]) :
                                 x = <<t, i>> /\ Bears(spews[t][i], Question)
    BY <2>2, BearsIs DEF Asked, AskedBy
  <2>5. inspew = (Asked # {})
    BY <2>1, <2>4 DEF SpewInv, SpewTypeOK, Borne
  <2>6. Cardinality(Asked) <= 1
    <3>1. \A x, y \in Asked : x = y
      BY <2>1, <2>4 DEF SpewInv, BorneOnce
    <3>2. CASE Asked = {}
      BY <3>2, FS_EmptySet
    <3>3. ASSUME NEW x \in Asked PROVE Cardinality(Asked) <= 1
      <4>1. Asked = {x}
        BY <3>1
      <4>2. Cardinality({x}) = 1
        BY FS_Singleton
      <4>3. Cardinality(Asked) = 1
        BY <4>1, <4>2
      <4> QED BY <4>3
    <3> QED BY <3>2, <3>3
  <2>7. spewFunc = IF hooked = <<>> THEN "engine" ELSE hooked[Len(hooked)]
    <3>1. \A a, b : /\ <<a>> # <<>> /\ <<a, b>> # <<>> /\ Len(<<a>>) = 1 /\ Len(<<a, b>>) = 2
                    /\ <<a>>[1] = a /\ <<a, b>>[2] = b
      OBVIOUS
    <3> QED BY <2>1, <3>1 DEF SpewInv, ModulesOK
  <2>8. (\A t \in Threads : ~Busy(t)) /\ "reset" \notin kept => colour = "reset"
    <3>1. (\A t \in Threads : ~Busy(t)) => ~Borne(TheReset)
      BY <2>2 DEF Busy, Borne
    <3> QED BY <2>1, <3>1 DEF SpewInv, SpewTypeOK, Code
  <2> QED BY <2>3, <2>5, <2>6, <2>7, <2>8 DEF EveryMessageOnce
<1> QED BY <1>1, <1>2, <1>3, PTL DEF SpewSpec

(***************************************************************************)
(* LpegKeys: every key of a pattern finds its value in the pattern's       *)
(* ktable, the tables only grow, and joining two corrects the keys of the  *)
(* second by the length of the first.                                      *)
(***************************************************************************)

KeyTags == {"opencall", "capture", "number", "newrule", "call", "rule"}
KeyNode == [tag : KeyTags, key : Nat, val : Values \cup {NoValue}]

\* A rule that is not finished has its name but no key; any other key is right.
KeyFits(node, table) ==
  IF node.tag = "newrule" THEN node.key = 0 /\ node.val \in Values ELSE KeyIsRight(node, table)

KeysFit(nodes, table) ==
  nodes \in Seq(KeyNode) /\ \A i \in 1..Len(nodes) : KeyFits(nodes[i], table)

Finished(nodes) == \A i \in 1..Len(nodes) : nodes[i].tag # "newrule"

TableIn(tables, env) == IF env = NoTable THEN <<>> ELSE tables[env]

KeysInv ==
  /\ ktables \in Seq(Seq(Values))
  /\ patts \in Seq([nodes : Seq(KeyNode), env : Nat])
  /\ \A p \in 1..Len(patts) :
       /\ patts[p].env <= Len(ktables)
       /\ KeysFit(patts[p].nodes, TableIn(ktables, patts[p].env))
       /\ Finished(patts[p].nodes)

StartOf(t, u) == Len(t) <= Len(u) /\ \A i \in 1..Len(t) : u[i] = t[i]

LEMMA KeyStays ==
  ASSUME NEW t \in Seq(Values), NEW u \in Seq(Values), StartOf(t, u),
         NEW node \in KeyNode, KeyFits(node, t)
  PROVE  KeyFits(node, u)
<1>1. DOMAIN t = 1..Len(t) /\ DOMAIN u = 1..Len(u) /\ Len(t) \in Nat /\ Len(u) \in Nat
  OBVIOUS
<1>2. DOMAIN t \subseteq DOMAIN u /\ \A i \in DOMAIN t : u[i] = t[i]
  BY <1>1 DEF StartOf
<1> QED BY <1>2 DEF KeyFits, KeyIsRight

LEMMA NodesStay ==
  ASSUME NEW t \in Seq(Values), NEW u \in Seq(Values), StartOf(t, u),
         NEW nodes, KeysFit(nodes, t)
  PROVE  KeysFit(nodes, u)
<1>1. ASSUME NEW i \in 1..Len(nodes) PROVE KeyFits(nodes[i], u)
  <2>1. nodes[i] \in KeyNode /\ KeyFits(nodes[i], t)
    BY DEF KeysFit
  <2> QED BY <2>1, KeyStays
<1> QED BY <1>1 DEF KeysFit

\* Keys of no table find no value.
LEMMA NoTableFits ==
  ASSUME NEW u \in Seq(Values), NEW nodes, KeysFit(nodes, <<>>)
  PROVE  KeysFit(nodes, u)
<1>1. <<>> \in Seq(Values) /\ StartOf(<<>>, u)
  BY DEF StartOf
<1> QED BY <1>1, NodesStay

LEMMA OneFits ==
  ASSUME NEW node \in KeyNode, NEW t, KeyFits(node, t)
  PROVE  KeysFit(<<node>>, t) /\ (node.tag # "newrule" => Finished(<<node>>))
<1>1. <<node>> \in Seq(KeyNode) /\ Len(<<node>>) = 1 /\ <<node>>[1] = node
  OBVIOUS
<1>2. \A i \in 1..1 : i = 1
  OBVIOUS
<1> QED BY <1>1, <1>2 DEF KeysFit, Finished

LEMMA BothFit ==
  ASSUME NEW a, NEW b, NEW t, KeysFit(a, t), KeysFit(b, t)
  PROVE  KeysFit(a \o b, t) /\ (Finished(a) /\ Finished(b) => Finished(a \o b))
<1>1. a \in Seq(KeyNode) /\ b \in Seq(KeyNode) /\ Len(a) \in Nat /\ Len(b) \in Nat
  BY DEF KeysFit
<1>2. /\ a \o b \in Seq(KeyNode) /\ Len(a \o b) = Len(a) + Len(b)
      /\ \A i \in 1..Len(a) + Len(b) : (a \o b)[i] = IF i <= Len(a) THEN a[i] ELSE b[i - Len(a)]
  BY <1>1
<1>3. ASSUME NEW i \in 1..Len(a \o b)
      PROVE  (\E j \in 1..Len(a) : (a \o b)[i] = a[j]) \/ (\E j \in 1..Len(b) : (a \o b)[i] = b[j])
  <2>1. CASE i <= Len(a)
    BY <1>1, <1>2, <2>1
  <2>2. CASE ~(i <= Len(a))
    <3>1. i - Len(a) \in 1..Len(b)
      BY <1>1, <1>2, <2>2
    <3> QED BY <1>2, <2>2, <3>1
  <2> QED BY <2>1, <2>2
<1> QED BY <1>2, <1>3 DEF KeysFit, Finished

\* A node whose key is corrected finds its value behind the values put in front.
LEMMA CorrectedFits ==
  ASSUME NEW t \in Seq(Values), NEW u \in Seq(Values), NEW node \in KeyNode, KeyFits(node, u)
  PROVE  /\ corrected(node, Len(t)) \in KeyNode
         /\ KeyFits(corrected(node, Len(t)), t \o u)
         /\ corrected(node, Len(t)).tag = node.tag
<1> DEFINE c == corrected(node, Len(t))
<1>1. /\ Len(t) \in Nat /\ DOMAIN u = 1..Len(u) /\ Len(u) \in Nat
      /\ t \o u \in Seq(Values) /\ Len(t \o u) = Len(t) + Len(u) /\ DOMAIN (t \o u) = 1..Len(t \o u)
      /\ \A i \in 1..Len(t) + Len(u) : (t \o u)[i] = IF i <= Len(t) THEN t[i] ELSE u[i - Len(t)]
  OBVIOUS
<1>2. node.tag \in KeyTags /\ node.key \in Nat /\ node.val \in Values \cup {NoValue}
  BY DEF KeyNode
<1>3. CASE node.key > 0 /\ node.tag # "number"
  <2>1. c.tag = node.tag /\ c.key = node.key + Len(t) /\ c.val = node.val /\ c \in KeyNode
    BY <1>1, <1>2, <1>3 DEF corrected, Keyed, KeyNode
  <2>2. node.tag # "newrule" /\ node.key \in 1..Len(u) /\ u[node.key] = node.val
    BY <1>1, <1>2, <1>3 DEF KeyFits, KeyIsRight
  <2>3. c.key \in 1..Len(t) + Len(u) /\ ~(c.key <= Len(t)) /\ c.key - Len(t) = node.key
    BY <1>1, <1>2, <1>3, <2>1, <2>2
  <2>4. c.key \in DOMAIN (t \o u) /\ (t \o u)[c.key] = c.val
    BY <1>1, <2>1, <2>2, <2>3
  <2> HIDE DEF c
  <2>5. KeyFits(c, t \o u)
    BY <1>3, <2>1, <2>2, <2>4 DEF KeyFits, KeyIsRight
  <2> QED BY <2>1, <2>5 DEF c
<1>4. CASE ~(node.key > 0 /\ node.tag # "number")
  <2>1. c = node
    BY <1>4 DEF corrected
  <2>2. node.tag = "number" \/ node.key = 0
    BY <1>2, <1>4
  <2>3. KeyFits(node, t \o u)
    BY <1>1, <1>2, <2>2 DEF KeyFits, KeyIsRight
  <2> QED BY <2>1, <2>3
<1> QED BY <1>3, <1>4

LEMMA CorrectFits ==
  ASSUME NEW t \in Seq(Values), NEW u \in Seq(Values), NEW nodes, KeysFit(nodes, u)
  PROVE  /\ KeysFit(correctkeys(nodes, Len(t)), t \o u)
         /\ Finished(nodes) => Finished(correctkeys(nodes, Len(t)))
<1> DEFINE ns == correctkeys(nodes, Len(t))
<1>1. nodes \in Seq(KeyNode) /\ DOMAIN nodes = 1..Len(nodes) /\ Len(nodes) \in Nat
  BY DEF KeysFit
<1>2. /\ DOMAIN ns = 1..Len(nodes)
      /\ \A i \in 1..Len(nodes) : ns[i] = corrected(nodes[i], Len(t))
  BY <1>1 DEF correctkeys
<1>3. ASSUME NEW i \in 1..Len(nodes)
      PROVE  ns[i] \in KeyNode /\ KeyFits(ns[i], t \o u) /\ ns[i].tag = nodes[i].tag
  <2>1. nodes[i] \in KeyNode /\ KeyFits(nodes[i], u)
    BY DEF KeysFit
  <2> QED BY <1>2, <2>1, CorrectedFits
<1>4. ns = [i \in 1..Len(nodes) |-> ns[i]]
  BY <1>1 DEF correctkeys
<1> HIDE DEF ns
<1>5. ns \in Seq(KeyNode) /\ Len(ns) = Len(nodes)
  BY <1>1, <1>3, <1>4
<1> QED BY <1>3, <1>5 DEF KeysFit, Finished, ns

LEMMA CorrectZero ==
  ASSUME NEW u \in Seq(Values), NEW nodes, KeysFit(nodes, u)
  PROVE  /\ KeysFit(correctkeys(nodes, 0), u)
         /\ Finished(nodes) => Finished(correctkeys(nodes, 0))
<1>1. <<>> \in Seq(Values) /\ Len(<<>>) = 0 /\ <<>> \o u = u
  OBVIOUS
<1> QED BY <1>1, CorrectFits

-----------------------------------------------------------------------------
\* A new pattern, while tables only grow.
LEMMA NewStep ==
  ASSUME KeysInv, NEW nodes, NEW env \in Nat, New(nodes, env),
         ktables' \in Seq(Seq(Values)), Len(ktables) <= Len(ktables'),
         \A e \in 1..Len(ktables) : StartOf(ktables[e], ktables'[e]),
         env <= Len(ktables'), KeysFit(nodes, TableIn(ktables', env)), Finished(nodes)
  PROVE  KeysInv'
<1>1. /\ ktables \in Seq(Seq(Values)) /\ Len(ktables) \in Nat /\ Len(ktables') \in Nat
      /\ patts \in Seq([nodes : Seq(KeyNode), env : Nat]) /\ Len(patts) \in Nat
  BY DEF KeysInv
<1> DEFINE patt == [nodes |-> nodes, env |-> env]
<1>2. patt \in [nodes : Seq(KeyNode), env : Nat] /\ patt.nodes = nodes /\ patt.env = env
  BY DEF KeysFit
<1>3. patts' = Append(patts, patt)
  BY DEF New
<1> HIDE DEF patt
<1>4. /\ patts' \in Seq([nodes : Seq(KeyNode), env : Nat]) /\ Len(patts') = Len(patts) + 1
      /\ \A p \in 1..Len(patts) : patts'[p] = patts[p]
      /\ patts'[Len(patts) + 1] = patt
  BY <1>1, <1>2, <1>3, AppendProperties
<1>5. ASSUME NEW p \in 1..Len(patts)
      PROVE  /\ patts'[p].env <= Len(ktables')
             /\ KeysFit(patts'[p].nodes, TableIn(ktables', patts'[p].env)) /\ Finished(patts'[p].nodes)
  <2> DEFINE e == patts[p].env
  <2>1. /\ patts'[p] = patts[p] /\ e \in Nat /\ e <= Len(ktables)
        /\ KeysFit(patts[p].nodes, TableIn(ktables, e)) /\ Finished(patts[p].nodes)
    <3>1. patts[p] \in [nodes : Seq(KeyNode), env : Nat]
      BY <1>1, ElementOfSeq
    <3> QED BY <1>4, <3>1 DEF KeysInv
  <2> HIDE DEF e
  <2>2. CASE e = 0
    BY <1>1, <2>1, <2>2 DEF TableIn, NoTable, e
  <2>3. CASE e # 0
    <3>1. e \in 1..Len(ktables) /\ e \in 1..Len(ktables')
      BY <1>1, <2>1, <2>3
    <3>2. /\ TableIn(ktables, e) = ktables[e] /\ ktables[e] \in Seq(Values)
          /\ TableIn(ktables', e) = ktables'[e] /\ ktables'[e] \in Seq(Values)
      <4>1. ktables[e] \in Seq(Values) /\ ktables'[e] \in Seq(Values)
        BY <1>1, <3>1, ElementOfSeq
      <4>2. TableIn(ktables, e) = ktables[e] /\ TableIn(ktables', e) = ktables'[e]
        BY <2>3 DEF TableIn, NoTable
      <4> QED BY <4>1, <4>2
    <3>3. StartOf(ktables[e], ktables'[e])
      BY <3>1
    <3>4. KeysFit(patts[p].nodes, ktables'[e])
      BY <2>1, <3>2, <3>3, NodesStay
    <3> QED BY <1>1, <2>1, <3>2, <3>4 DEF e
  <2> QED BY <2>2, <2>3
<1>6. ASSUME NEW p \in 1..Len(patts')
      PROVE  /\ patts'[p].env <= Len(ktables')
             /\ KeysFit(patts'[p].nodes, TableIn(ktables', patts'[p].env)) /\ Finished(patts'[p].nodes)
  <2>1. CASE p \in 1..Len(patts)
    BY <1>5, <2>1
  <2>2. CASE p = Len(patts) + 1
    BY <1>2, <1>4, <2>2
  <2> QED BY <1>1, <1>4, <2>1, <2>2
<1> QED BY <1>4, <1>6 DEF KeysInv

LEMMA SharedStep ==
  ASSUME KeysInv, NEW nodes, NEW env \in Nat, New(nodes, env), UNCHANGED ktables,
         env <= Len(ktables), KeysFit(nodes, TableIn(ktables, env)), Finished(nodes)
  PROVE  KeysInv'
<1>1. ktables' \in Seq(Seq(Values)) /\ Len(ktables) \in Nat /\ ktables' = ktables
  BY DEF KeysInv
<1>2. \A e \in 1..Len(ktables) : ktables[e] \in Seq(Values) /\ Len(ktables[e]) \in Nat
  BY <1>1
<1>3. \A e \in 1..Len(ktables) : StartOf(ktables[e], ktables'[e])
  BY <1>1, <1>2 DEF StartOf
<1>4. TableIn(ktables', env) = TableIn(ktables, env)
  BY <1>1 DEF TableIn
<1> QED BY <1>1, <1>3, <1>4, NewStep

LEMMA NewTableStep ==
  ASSUME KeysInv, NEW table \in Seq(Values), NEW nodes, NewTable(nodes, table),
         KeysFit(nodes, table), Finished(nodes)
  PROVE  KeysInv'
<1>1. ktables \in Seq(Seq(Values)) /\ Len(ktables) \in Nat
  BY DEF KeysInv
<1>2. ktables' = Append(ktables, table) /\ New(nodes, Len(ktables) + 1)
  BY DEF NewTable
<1>3. /\ ktables' \in Seq(Seq(Values)) /\ Len(ktables') = Len(ktables) + 1
      /\ \A e \in 1..Len(ktables) : ktables'[e] = ktables[e]
      /\ ktables'[Len(ktables) + 1] = table
  BY <1>1, <1>2, AppendProperties
<1>4. \A e \in 1..Len(ktables) : ktables[e] \in Seq(Values) /\ Len(ktables[e]) \in Nat
  BY <1>1
<1>5. \A e \in 1..Len(ktables) : StartOf(ktables[e], ktables'[e])
  BY <1>3, <1>4 DEF StartOf
<1>6. Len(ktables) + 1 \in Nat /\ TableIn(ktables', Len(ktables) + 1) = table
  BY <1>1, <1>3 DEF TableIn, NoTable
<1> QED BY <1>1, <1>2, <1>3, <1>5, <1>6, NewStep

\* What is known of a pattern's table.
LEMMA TableFacts ==
  ASSUME KeysInv, NEW p \in DOMAIN patts
  PROVE  LET env == patts[p].env
             nodes == patts[p].nodes IN
         /\ env \in Nat /\ env <= Len(ktables)
         /\ TableIn(ktables, env) \in Seq(Values) /\ TableOf(env) = TableIn(ktables, env)
         /\ ktablelen(env) = Len(TableIn(ktables, env))
         /\ env # 0 => ktables[env] = TableIn(ktables, env)
         /\ KeysFit(nodes, TableIn(ktables, env)) /\ Finished(nodes)
<1> DEFINE env == patts[p].env
           nodes == patts[p].nodes
<1>1. p \in 1..Len(patts) /\ Len(ktables) \in Nat
  BY DEF KeysInv
<1>2. patts[p] \in [nodes : Seq(KeyNode), env : Nat]
  <2>1. patts \in Seq([nodes : Seq(KeyNode), env : Nat])
    BY DEF KeysInv
  <2> QED BY <1>1, <2>1, ElementOfSeq
<1>3. /\ env \in Nat /\ env <= Len(ktables)
      /\ KeysFit(nodes, TableIn(ktables, env)) /\ Finished(nodes)
  BY <1>1, <1>2 DEF KeysInv
<1> HIDE DEF env, nodes
<1>4. TableIn(ktables, env) \in Seq(Values) /\ TableOf(env) = TableIn(ktables, env)
  <2>1. CASE env = 0
    BY <2>1 DEF TableIn, TableOf, NoTable
  <2>2. CASE env # 0
    <3>1. env \in 1..Len(ktables)
      BY <1>1, <1>3, <2>2
    <3>2. ktables[env] \in Seq(Values)
      BY <3>1 DEF KeysInv
    <3> QED BY <2>2, <3>2 DEF TableIn, TableOf, NoTable
  <2> QED BY <2>1, <2>2
<1>5. ktablelen(env) = Len(TableIn(ktables, env)) /\ (env # 0 => ktables[env] = TableIn(ktables, env))
  BY DEF ktablelen, TableIn, NoTable
<1> QED BY <1>3, <1>4, <1>5 DEF env, nodes

LEMMA AddStep ==
  ASSUME KeysInv, NEW env \in Nat, env <= Len(ktables), NEW nodes, NEW v \in Values,
         NEW tag \in {"opencall", "capture"}, addtoktable(env, tag, v, nodes),
         KeysFit(nodes, TableIn(ktables, env)), Finished(nodes)
  PROVE  KeysInv'
<1>1. ktables \in Seq(Seq(Values)) /\ Len(ktables) \in Nat
  BY DEF KeysInv
<1>2. ktablelen(env) = Len(TableIn(ktables, env)) /\ TableIn(ktables, env) \in Seq(Values)
  <2>1. CASE env = 0
    BY <2>1 DEF TableIn, ktablelen, NoTable
  <2>2. CASE env # 0
    <3>1. ktables[env] \in Seq(Values)
      BY <1>1, <2>2
    <3> QED BY <2>2, <3>1 DEF TableIn, ktablelen, NoTable
  <2> QED BY <2>1, <2>2
<1>3. CASE ktablelen(env) = 0
  <2> DEFINE e == Keyed(tag, 1, v)
             t == <<v>>
  <2>1. NewTable(<<e>> \o nodes, t)
    BY <1>3 DEF addtoktable
  <2>2. t \in Seq(Values) /\ DOMAIN t = {1} /\ t[1] = v
    OBVIOUS
  <2>3. e \in KeyNode /\ KeyFits(e, t) /\ e.tag # "newrule"
    <3>1. e \in KeyNode /\ e.tag = tag /\ e.key = 1 /\ e.val = v
      BY DEF Keyed, KeyNode, KeyTags
    <3> HIDE DEF e, t
    <3> QED BY <2>2, <3>1 DEF KeyFits, KeyIsRight
  <2> HIDE DEF e, t
  <2>4. TableIn(ktables, env) = <<>>
    BY <1>2, <1>3, EmptySeq
  <2>5. KeysFit(nodes, t)
    BY <2>2, <2>4, NoTableFits
  <2>6. KeysFit(<<e>>, t) /\ Finished(<<e>>)
    BY <2>3, OneFits
  <2>7. KeysFit(<<e>> \o nodes, t) /\ Finished(<<e>> \o nodes)
    BY <2>5, <2>6, BothFit
  <2> QED BY <2>1, <2>2, <2>7, NewTableStep
<1>4. CASE ktablelen(env) # 0
  <2> DEFINE t == ktables[env]
             u == Append(t, v)
             e == Keyed(tag, Len(t) + 1, v)
  <2>1. env # 0 /\ env \in 1..Len(ktables) /\ TableIn(ktables, env) = t
    BY <1>1, <1>4 DEF ktablelen, TableIn, NoTable
  <2>2. ktables' = [ktables EXCEPT ![env] = u] /\ New(<<e>> \o nodes, env)
    BY <1>4 DEF addtoktable
  <2>3. t \in Seq(Values)
    BY <1>1, <2>1
  <2>4. /\ u \in Seq(Values) /\ Len(u) = Len(t) + 1 /\ u[Len(t) + 1] = v
        /\ \A i \in 1..Len(t) : u[i] = t[i]
        /\ Len(t) \in Nat /\ DOMAIN u = 1..Len(u)
    BY <2>3, AppendProperties
  <2>5. e \in KeyNode /\ KeyFits(e, u) /\ e.tag # "newrule"
    <3>1. e \in KeyNode /\ e.tag = tag /\ e.key = Len(t) + 1 /\ e.val = v
      BY <2>4 DEF Keyed, KeyNode, KeyTags
    <3>2. e.key \in DOMAIN u /\ u[e.key] = v
      BY <2>4, <3>1
    <3> HIDE DEF e, u
    <3> QED BY <3>1, <3>2 DEF KeyFits, KeyIsRight
  <2>6. /\ ktables' \in Seq(Seq(Values)) /\ Len(ktables') = Len(ktables) /\ ktables'[env] = u
        /\ \A f \in 1..Len(ktables) : f # env => ktables'[f] = ktables[f]
    <3> HIDE DEF u
    <3> QED BY <1>1, <2>1, <2>2, <2>4
  <2>7. StartOf(t, u)
    BY <2>4 DEF StartOf
  <2>8. \A f \in 1..Len(ktables) : StartOf(ktables[f], ktables'[f])
    <3> HIDE DEF u, e
    <3>1. ASSUME NEW f \in 1..Len(ktables), f # env PROVE StartOf(ktables[f], ktables'[f])
      <4>1. ktables[f] \in Seq(Values) /\ Len(ktables[f]) \in Nat /\ ktables'[f] = ktables[f]
        BY <1>1, <2>6, <3>1
      <4> QED BY <4>1 DEF StartOf
    <3> QED BY <2>6, <2>7, <3>1
  <2> HIDE DEF t, u, e
  <2>9. KeysFit(nodes, u)
    BY <2>1, <2>3, <2>4, <2>7, NodesStay
  <2>10. KeysFit(<<e>>, u) /\ Finished(<<e>>)
    BY <2>5, OneFits
  <2>11. KeysFit(<<e>> \o nodes, u) /\ Finished(<<e>> \o nodes)
    BY <2>9, <2>10, BothFit
  <2>12. TableIn(ktables', env) = u
    BY <2>1, <2>6 DEF TableIn, NoTable
  <2> DEFINE ns == <<e>> \o nodes
  <2>13. /\ New(ns, env) /\ KeysFit(ns, TableIn(ktables', env)) /\ Finished(ns)
         /\ env <= Len(ktables') /\ Len(ktables) <= Len(ktables')
    BY <1>1, <2>2, <2>6, <2>11, <2>12
  <2> HIDE DEF ns
  <2> QED BY <2>6, <2>8, <2>13, NewStep
<1> QED BY <1>3, <1>4

LEMMA NumberFits ==
  ASSUME NEW t
  PROVE  LET e == Keyed("number", 1, NoValue) IN
         KeysFit(<<e>>, t) /\ Finished(<<e>>)
<1> DEFINE e == Keyed("number", 1, NoValue)
<1>1. e \in KeyNode /\ e.tag = "number" /\ e.key = 1
  BY DEF Keyed, KeyNode, KeyTags
<1> HIDE DEF e
<1>2. KeyFits(e, t)
  BY <1>1 DEF KeyFits, KeyIsRight
<1>3. KeysFit(<<e>>, t) /\ Finished(<<e>>)
  BY <1>1, <1>2, OneFits
<1> QED BY <1>3 DEF e

LEMMA JoinStep ==
  ASSUME KeysInv, NEW p \in DOMAIN patts, NEW q \in DOMAIN patts, newroot2sib(p, q)
  PROVE  KeysInv'
<1> DEFINE e1 == patts[p].env
           e2 == patts[q].env
           t == TableIn(ktables, e1)
           u == TableIn(ktables, e2)
           a == patts[p].nodes
           b == patts[q].nodes
<1>1. /\ e1 \in Nat /\ e1 <= Len(ktables) /\ t \in Seq(Values) /\ ktablelen(e1) = Len(t)
      /\ e1 # 0 => ktables[e1] = t
      /\ KeysFit(a, t) /\ Finished(a)
  BY TableFacts
<1>2. /\ e2 \in Nat /\ e2 <= Len(ktables) /\ u \in Seq(Values) /\ ktablelen(e2) = Len(u)
      /\ e2 # 0 => ktables[e2] = u
      /\ KeysFit(b, u) /\ Finished(b)
  BY TableFacts
<1>3. CASE ktablelen(e1) # 0 /\ ktablelen(e2) # 0 /\ e1 # e2
  <2>1. e1 # 0 /\ e2 # 0
    BY <1>3 DEF ktablelen, NoTable
  <2>2. NewTable(a \o correctkeys(b, Len(t)), t \o u)
    BY <1>1, <1>2, <1>3, <2>1 DEF newroot2sib
  <2> HIDE DEF e1, e2, t, u, a, b
  <2>3. KeysFit(correctkeys(b, Len(t)), t \o u) /\ Finished(correctkeys(b, Len(t)))
    BY <1>1, <1>2, CorrectFits
  <2>4. t \o u \in Seq(Values) /\ StartOf(t, t \o u)
    BY <1>1, <1>2 DEF StartOf
  <2>5. KeysFit(a, t \o u)
    BY <1>1, <2>4, NodesStay
  <2>6. KeysFit(a \o correctkeys(b, Len(t)), t \o u) /\ Finished(a \o correctkeys(b, Len(t)))
    BY <1>1, <2>3, <2>5, BothFit
  <2> QED BY <2>2, <2>4, <2>6, NewTableStep
<1>4. CASE ~(ktablelen(e1) # 0 /\ ktablelen(e2) # 0 /\ e1 # e2)
  <2> DEFINE c == correctkeys(b, 0)
             env == IF ktablelen(e2) = 0 \/ e1 = e2 THEN e1 ELSE e2
  <2>1. UNCHANGED ktables /\ New(a \o c, env)
    BY <1>4 DEF newroot2sib
  <2> HIDE DEF a, b
  <2>2. KeysFit(c, u) /\ Finished(c)
    BY <1>2, CorrectZero
  <2>3. env \in Nat /\ env <= Len(ktables)
    BY <1>1, <1>2
  <2>4. KeysFit(a, TableIn(ktables, env)) /\ KeysFit(c, TableIn(ktables, env))
    <3> HIDE DEF c
    <3>1. CASE e1 = e2
      BY <1>1, <2>2, <3>1
    <3>2. CASE e1 # e2 /\ ktablelen(e2) = 0
      <4>1. u = <<>>
        BY <1>2, <3>2, EmptySeq
      <4>2. KeysFit(c, t)
        <5> HIDE DEF t, u
        <5> QED BY <1>1, <2>2, <4>1, NoTableFits
      <4> QED BY <1>1, <3>2, <4>2
    <3>3. CASE e1 # e2 /\ ktablelen(e2) # 0
      <4>1. t = <<>>
        BY <1>1, <1>4, <3>3, EmptySeq
      <4>2. KeysFit(a, u)
        <5> HIDE DEF t, u
        <5> QED BY <1>1, <1>2, <4>1, NoTableFits
      <4> QED BY <1>2, <2>2, <3>3, <4>2
    <3> QED BY <3>1, <3>2, <3>3
  <2> HIDE DEF c, env
  <2>5. KeysFit(a \o c, TableIn(ktables, env)) /\ Finished(a \o c)
    BY <1>1, <2>2, <2>4, BothFit
  <2> QED BY <2>1, <2>3, <2>5, SharedStep
<1> QED BY <1>3, <1>4

-----------------------------------------------------------------------------
GrammarFits(g) == g.table \in Seq(Values) /\ KeysFit(g.nodes, g.table)

LEMMA RuleFits ==
  ASSUME KeysInv, NEW p \in DOMAIN patts, NEW v \in Values, NEW nodes, NEW table,
         table \in Seq(Values), KeysFit(nodes, table)
  PROVE  GrammarFits(WithRule([nodes |-> nodes, table |-> table], p, v))
<1> DEFINE g == [nodes |-> nodes, table |-> table]
           b == patts[p].nodes
           u == TableIn(ktables, patts[p].env)
           c == correctkeys(b, IF u = <<>> THEN 0 ELSE Len(table))
           rule == <<Keyed("newrule", 0, v)>>
<1>1. u \in Seq(Values) /\ TableOf(patts[p].env) = u /\ KeysFit(b, u)
  BY TableFacts
<1>2. mergektable(g, p) = [nodes |-> c, table |-> table \o u]
  BY <1>1 DEF mergektable
<1>3. WithRule(g, p, v) = [nodes |-> nodes \o rule \o c, table |-> table \o u]
  <2> DEFINE m == mergektable(g, p)
  <2>1. m = [nodes |-> c, table |-> table \o u]
    BY <1>2
  <2>2. WithRule(g, p, v) = [m EXCEPT !.nodes = nodes \o rule \o m.nodes]
    BY DEF WithRule
  <2> HIDE DEF m, c, u, rule
  <2> QED BY <2>1, <2>2
<1>4. KeysFit(c, table \o u) /\ table \o u \in Seq(Values)
  <2>1. CASE u = <<>>
    <3>1. KeysFit(correctkeys(b, 0), <<>>)
      BY <1>1, <2>1, CorrectZero
    <3>2. table \o u \in Seq(Values)
      BY <1>1
    <3> QED BY <2>1, <3>1, <3>2, NoTableFits
  <2>2. CASE u # <<>>
    BY <1>1, <2>2, CorrectFits
  <2> QED BY <2>1, <2>2
<1>5. KeysFit(nodes, table \o u)
  <2> HIDE DEF u
  <2>1. StartOf(table, table \o u)
    BY <1>1 DEF StartOf
  <2> QED BY <1>4, <2>1, NodesStay
<1>6. KeysFit(rule, table \o u)
  <2> DEFINE e == Keyed("newrule", 0, v)
  <2>1. e \in KeyNode /\ e.tag = "newrule" /\ e.key = 0 /\ e.val \in Values
    BY DEF Keyed, KeyNode, KeyTags
  <2> HIDE DEF e
  <2>2. KeyFits(e, table \o u)
    BY <2>1 DEF KeyFits
  <2>3. KeysFit(<<e>>, table \o u)
    BY <2>1, <2>2, OneFits
  <2> QED BY <2>3 DEF e
<1> HIDE DEF u, c, rule, b
<1>7. KeysFit(nodes \o rule \o c, table \o u)
  BY <1>4, <1>5, <1>6, BothFit
<1> DEFINE w == WithRule(g, p, v)
<1>8. w.nodes = nodes \o rule \o c /\ w.table = table \o u
  BY <1>3
<1> HIDE DEF w
<1>9. GrammarFits(w)
  BY <1>4, <1>7, <1>8 DEF GrammarFits
<1> QED BY <1>9 DEF w

LEMMA EmptyFits ==
  EmptyGrammar = [nodes |-> <<>>, table |-> <<>>] /\ KeysFit(<<>>, <<>>)
BY DEF EmptyGrammar, KeysFit

LEMMA RuleIs ==
  ASSUME NEW g, NEW p, NEW v
  PROVE  LET w == WithRule(g, p, v) IN w = [nodes |-> w.nodes, table |-> w.table]
<1> DEFINE table == TableOf(patts[p].env)
           c == correctkeys(patts[p].nodes, IF table = <<>> THEN 0 ELSE Len(g.table))
           t == g.table \o table
           m == mergektable(g, p)
           ns == g.nodes \o <<Keyed("newrule", 0, v)>> \o m.nodes
<1>1. m = [nodes |-> c, table |-> t]
  BY DEF mergektable
<1>2. WithRule(g, p, v) = [m EXCEPT !.nodes = ns]
  BY DEF WithRule
<1> HIDE DEF m, c, t, ns
<1>3. WithRule(g, p, v) = [nodes |-> ns, table |-> t]
  BY <1>1, <1>2
<1> QED BY <1>3

LEMMA RulesFit ==
  ASSUME KeysInv, NEW p \in DOMAIN patts, NEW v \in Values
  PROVE  /\ GrammarFits(WithRule(EmptyGrammar, p, v))
         /\ \A q \in DOMAIN patts : \A w \in Values :
              GrammarFits(WithRule(WithRule(EmptyGrammar, p, v), q, w))
<1>1. <<>> \in Seq(Values)
  OBVIOUS
<1> DEFINE g == WithRule(EmptyGrammar, p, v)
<1>2. GrammarFits(g)
  BY <1>1, EmptyFits, RuleFits
<1>3. g = [nodes |-> g.nodes, table |-> g.table]
  BY RuleIs
<1> HIDE DEF g
<1>4. ASSUME NEW q \in DOMAIN patts, NEW w \in Values PROVE GrammarFits(WithRule(g, q, w))
  <2> DEFINE ns == g.nodes
             t == g.table
  <2>1. t \in Seq(Values) /\ KeysFit(ns, t)
    BY <1>2 DEF GrammarFits
  <2>2. g = [nodes |-> ns, table |-> t]
    BY <1>3
  <2> HIDE DEF ns, t
  <2>3. GrammarFits(WithRule([nodes |-> ns, table |-> t], q, w))
    BY <2>1, RuleFits
  <2> QED BY <2>2, <2>3
<1> QED BY <1>2, <1>4 DEF g

\* The last call of a rule has the rule's name for its key.
LEMMA RuleKey ==
  ASSUME NEW nodes, NEW table \in Seq(Values), KeysFit(nodes, table), NEW name \in Values
  PROVE  LET k == KeyOfRule([nodes |-> nodes, table |-> table], name) IN
         k = 0 \/ (k \in DOMAIN table /\ table[k] = name)
<1> DEFINE opens == {i \in DOMAIN nodes : nodes[i].tag = "opencall" /\ table[nodes[i].key] = name}
           last == CHOOSE i \in opens : \A j \in opens : j <= i
<1>1. KeyOfRule([nodes |-> nodes, table |-> table], name) = IF opens = {} THEN 0 ELSE nodes[last].key
  BY DEF KeyOfRule
<1>2. CASE opens # {}
  <2>1. DOMAIN nodes = 1..Len(nodes) /\ Len(nodes) \in Nat /\ opens \subseteq 1..Len(nodes)
    BY DEF KeysFit
  <2> HIDE DEF opens
  <2> DEFINE T == {Len(nodes) - i : i \in opens}
  <2>2. T \in SUBSET Nat /\ T # {}
    <3>1. \A i \in opens : Len(nodes) - i \in Nat
      BY <2>1
    <3> QED BY <1>2, <3>1
  <2>3. PICK m \in T : \A n \in T : m <= n
    <3> HIDE DEF T
    <3> QED BY <2>2, LeastNat
  <2>4. PICK i \in opens : m = Len(nodes) - i
    BY <2>3
  <2>5. \A j \in opens : j <= i
    <3> TAKE j \in opens
    <3>1. Len(nodes) - i <= Len(nodes) - j
      BY <2>3, <2>4
    <3> QED BY <2>1, <3>1
  <2>6. last \in opens
    BY <2>5
  <2> HIDE DEF last
  <2>7. nodes[last].tag = "opencall" /\ table[nodes[last].key] = name /\ last \in 1..Len(nodes)
    BY <2>1, <2>6 DEF opens
  <2>8. nodes[last].key \in DOMAIN table
    BY <2>7 DEF KeysFit, KeyFits, KeyIsRight
  <2> QED BY <1>1, <2>7, <2>8
<1> QED BY <1>1, <1>2

LEMMA FixedFits ==
  ASSUME NEW nodes, NEW table \in Seq(Values), KeysFit(nodes, table)
  PROVE  LET f == Fixed([nodes |-> nodes, table |-> table]) IN
         KeysFit(f, table) /\ Finished(f)
<1> DEFINE g == [nodes |-> nodes, table |-> table]
           f == Fixed(g)
<1>1. nodes \in Seq(KeyNode) /\ DOMAIN nodes = 1..Len(nodes) /\ Len(nodes) \in Nat
  BY DEF KeysFit
<1>2. f = [i \in 1..Len(nodes) |-> fixonecall(g, nodes[i])]
  BY <1>1 DEF Fixed
<1>3. ASSUME NEW i \in 1..Len(nodes)
      PROVE  LET e == fixonecall(g, nodes[i]) IN
             e \in KeyNode /\ KeyFits(e, table) /\ e.tag # "newrule"
  <2> DEFINE n == nodes[i]
             e == fixonecall(g, n)
             k == KeyOfRule(g, n.val)
  <2>1. n \in KeyNode /\ KeyFits(n, table) /\ n.tag \in KeyTags /\ n.key \in Nat /\ n.val \in Values \cup {NoValue}
    <3>1. n \in KeyNode /\ KeyFits(n, table)
      BY <1>1 DEF KeysFit
    <3> HIDE DEF n
    <3> QED BY <3>1 DEF KeyNode
  <2>2. CASE n.tag = "opencall"
    <3>1. e = Keyed("call", n.key, n.val)
      BY <2>2 DEF fixonecall
    <3>2. e \in KeyNode /\ e.tag = "call" /\ e.key = n.key /\ e.val = n.val
      BY <2>1, <3>1 DEF Keyed, KeyNode, KeyTags
    <3> HIDE DEF e, n
    <3>3. KeyFits(e, table)
      BY <2>1, <2>2, <3>2 DEF KeyFits, KeyIsRight
    <3> QED BY <3>2, <3>3 DEF e, n
  <2>3. CASE n.tag = "newrule"
    <3>1. e = Keyed("rule", k, n.val)
      BY <2>3 DEF fixonecall
    <3>2. n.val \in Values
      BY <2>1, <2>3 DEF KeyFits
    <3>3. k = 0 \/ (k \in DOMAIN table /\ table[k] = n.val)
      <4> HIDE DEF n
      <4> QED BY <3>2, RuleKey
    <3>4. DOMAIN table = 1..Len(table) /\ Len(table) \in Nat
      OBVIOUS
    <3> HIDE DEF k
    <3>5. e \in KeyNode /\ e.tag = "rule" /\ e.key = k /\ e.val = n.val
      BY <3>1, <3>2, <3>3, <3>4 DEF Keyed, KeyNode, KeyTags
    <3> HIDE DEF e, n
    <3>6. KeyFits(e, table)
      BY <3>3, <3>5 DEF KeyFits, KeyIsRight
    <3> QED BY <3>5, <3>6 DEF e, n
  <2>4. CASE n.tag # "opencall" /\ n.tag # "newrule"
    <3>1. e = n
      BY <2>4 DEF fixonecall
    <3> QED BY <2>1, <2>4, <3>1
  <2> QED BY <2>2, <2>3, <2>4
<1> HIDE DEF f, g
<1>4. f \in Seq(KeyNode) /\ Len(f) = Len(nodes) /\ \A i \in 1..Len(nodes) : f[i] = fixonecall(g, nodes[i])
  BY <1>1, <1>2, <1>3
<1>5. KeysFit(f, table) /\ Finished(f)
  BY <1>3, <1>4 DEF KeysFit, Finished
<1> QED BY <1>5 DEF f, g

LEMMA GrammarStep ==
  ASSUME KeysInv, NEW g, GrammarFits(g), g = [nodes |-> g.nodes, table |-> g.table],
         NEW names, NEW first \in Values, newgrammar(g, names, first)
  PROVE  KeysInv'
<1> DEFINE ns == Fixed(g)
           t == g.table
<1>1. t \in Seq(Values) /\ KeysFit(g.nodes, t)
  BY DEF GrammarFits
<1>2. KeysFit(ns, t) /\ Finished(ns)
  <2> DEFINE old == g.nodes
  <2>1. g = [nodes |-> old, table |-> t] /\ KeysFit(old, t)
    BY <1>1
  <2> HIDE DEF old, t
  <2>2. KeysFit(Fixed([nodes |-> old, table |-> t]), t) /\ Finished(Fixed([nodes |-> old, table |-> t]))
    BY <1>1, <2>1, FixedFits
  <2> QED BY <2>1, <2>2
<1>3. IF ns[1].key # 0 THEN NewTable(ns, t)
      ELSE NewTable([ns EXCEPT ![1] = Keyed("rule", Len(t) + 1, first)], Append(t, first))
  BY DEF newgrammar
<1> HIDE DEF ns, t
<1>4. CASE NewTable(ns, t)
  BY <1>1, <1>2, <1>4, NewTableStep
<1>5. CASE NewTable([ns EXCEPT ![1] = Keyed("rule", Len(t) + 1, first)], Append(t, first))
  <2> DEFINE e == Keyed("rule", Len(t) + 1, first)
             u == Append(t, first)
             fs == [ns EXCEPT ![1] = e]
  <2>1. /\ u \in Seq(Values) /\ Len(u) = Len(t) + 1 /\ u[Len(t) + 1] = first /\ Len(t) \in Nat
        /\ \A i \in 1..Len(t) : u[i] = t[i] /\ DOMAIN u = 1..Len(t) + 1
    BY <1>1, AppendProperties
  <2>2. DOMAIN u = 1..Len(t) + 1
    <3> HIDE DEF u
    <3> QED BY <2>1
  <2>3. e \in KeyNode /\ KeyFits(e, u) /\ e.tag # "newrule"
    <3>1. e \in KeyNode /\ e.tag = "rule" /\ e.key = Len(t) + 1 /\ e.val = first
      BY <2>1 DEF Keyed, KeyNode, KeyTags
    <3>2. Len(t) + 1 \in DOMAIN u
      BY <2>1, <2>2
    <3> HIDE DEF e, u
    <3> QED BY <2>1, <3>1, <3>2 DEF KeyFits, KeyIsRight
  <2>4. KeysFit(ns, u)
    <3>1. StartOf(t, u)
      BY <2>1 DEF StartOf
    <3> HIDE DEF u
    <3> QED BY <1>1, <1>2, <2>1, <3>1, NodesStay
  <2> HIDE DEF e, u
  <2>5. ns \in Seq(KeyNode) /\ Len(ns) \in Nat /\ DOMAIN ns = 1..Len(ns)
    BY <1>2 DEF KeysFit
  <2>6. /\ fs \in Seq(KeyNode) /\ Len(fs) = Len(ns)
        /\ \A i \in 1..Len(ns) : fs[i] = IF i = 1 THEN e ELSE ns[i]
    <3>1. fs = [i \in 1..Len(ns) |-> IF i = 1 THEN e ELSE ns[i]]
      BY <2>5
    <3>2. \A i \in 1..Len(ns) : (IF i = 1 THEN e ELSE ns[i]) \in KeyNode
      BY <2>3, <2>5
    <3> HIDE DEF fs
    <3> QED BY <2>5, <3>1, <3>2
  <2> HIDE DEF fs
  <2>7. KeysFit(fs, u) /\ Finished(fs)
    BY <1>2, <2>3, <2>4, <2>6 DEF KeysFit, Finished
  <2>8. NewTable(fs, u)
    BY <1>5 DEF fs, e, u
  <2> QED BY <2>1, <2>7, <2>8, NewTableStep
<1> QED BY <1>3, <1>4, <1>5

LEMMA CopyStep ==
  ASSUME KeysInv, NEW p \in DOMAIN patts,
         SelectCapture(p, 1) \/ lp_star(p)
  PROVE  KeysInv'
<1> DEFINE env == patts[p].env
           a == patts[p].nodes
           e == <<Keyed("number", 1, NoValue)>>
<1>1. env \in Nat /\ env <= Len(ktables) /\ KeysFit(a, TableIn(ktables, env)) /\ Finished(a)
  BY TableFacts
<1>2. UNCHANGED ktables /\ (New(e \o a, env) \/ New(a \o a, env))
  BY DEF SelectCapture, lp_star, newroot1sib
<1>3. KeysFit(e, TableIn(ktables, env)) /\ Finished(e)
  BY NumberFits
<1> HIDE DEF env, a, e
<1>4. KeysFit(e \o a, TableIn(ktables, env)) /\ Finished(e \o a)
  BY <1>1, <1>3, BothFit
<1>5. KeysFit(a \o a, TableIn(ktables, env)) /\ Finished(a \o a)
  BY <1>1, BothFit
<1> QED BY <1>1, <1>2, <1>4, <1>5, SharedStep

LEMMA LeafStep ==
  ASSUME KeysInv,
         (\E v \in Values, tag \in {"opencall", "capture"} : NewLeaf(tag, v)) \/ NewNumber(1)
  PROVE  KeysInv'
<1>1. NoTable \in Nat /\ NoTable <= Len(ktables) /\ TableIn(ktables, NoTable) = <<>> /\ Len(ktables) \in Nat
  BY DEF NoTable, TableIn, KeysInv
<1>2. KeysFit(<<>>, TableIn(ktables, NoTable)) /\ Finished(<<>>)
  BY <1>1, EmptyFits DEF Finished
<1>3. ASSUME NEW v \in Values, NEW tag \in {"opencall", "capture"}, NewLeaf(tag, v) PROVE KeysInv'
  BY <1>1, <1>2, <1>3, AddStep DEF NewLeaf
<1>4. CASE NewNumber(1)
  <2> DEFINE e == <<Keyed("number", 1, NoValue)>>
  <2>1. UNCHANGED ktables /\ New(e, NoTable)
    BY <1>4 DEF NewNumber
  <2>2. KeysFit(e, TableIn(ktables, NoTable)) /\ Finished(e)
    BY NumberFits
  <2> HIDE DEF e
  <2> QED BY <1>1, <2>1, <2>2, SharedStep
<1> QED BY <1>3, <1>4

LEMMA KeysStep ==
  ASSUME KeysInv, [KeysNext]_keysVars
  PROVE  KeysInv'
<1>1. CASE UNCHANGED keysVars
  BY <1>1 DEF keysVars, KeysInv
<1>2. ASSUME NEW p \in DOMAIN patts, NEW v \in Values, capture_aux(p, "capture", v)
      PROVE  KeysInv'
  BY <1>2, TableFacts, AddStep DEF capture_aux
<1>3. ASSUME NEW p \in DOMAIN patts, NEW v \in Values,
             newgrammar(WithRule(EmptyGrammar, p, v), {v}, v)
      PROVE  KeysInv'
  <2> DEFINE g == WithRule(EmptyGrammar, p, v)
  <2>1. GrammarFits(g)
    BY RulesFit
  <2>2. g = [nodes |-> g.nodes, table |-> g.table]
    BY RuleIs
  <2> HIDE DEF g
  <2>3. newgrammar(g, {v}, v)
    BY <1>3 DEF g
  <2> QED BY <2>1, <2>2, <2>3, GrammarStep
<1>4. ASSUME NEW p \in DOMAIN patts, NEW q \in DOMAIN patts, NEW v \in Values, NEW w \in Values,
             newgrammar(WithRule(WithRule(EmptyGrammar, p, v), q, w), {v, w}, v)
      PROVE  KeysInv'
  <2> DEFINE g == WithRule(WithRule(EmptyGrammar, p, v), q, w)
  <2>1. GrammarFits(g)
    BY RulesFit
  <2>2. g = [nodes |-> g.nodes, table |-> g.table]
    BY RuleIs
  <2> HIDE DEF g
  <2>3. newgrammar(g, {v, w}, v)
    BY <1>4 DEF g
  <2> QED BY <2>1, <2>2, <2>3, GrammarStep
<1> QED BY <1>1, <1>2, <1>3, <1>4, LeafStep, CopyStep, JoinStep DEF KeysNext

LEMMA KeysHold == KeysInv => KeysAreTheirs
<1> SUFFICES ASSUME KeysInv, NEW p \in DOMAIN patts, NEW i \in DOMAIN patts[p].nodes
             PROVE  KeyIsRight(patts[p].nodes[i], TableOf(patts[p].env))
  BY DEF KeysAreTheirs
<1>1. /\ KeysFit(patts[p].nodes, TableOf(patts[p].env)) /\ Finished(patts[p].nodes)
  BY TableFacts
<1>2. i \in 1..Len(patts[p].nodes)
  BY <1>1 DEF KeysFit
<1> QED BY <1>1, <1>2 DEF KeysFit, KeyFits, Finished

\* KeysAreTheirs: for any values, patterns and ways to put them together.
THEOREM KeysStayTheirs == KeysSpec => []KeysAreTheirs
<1>1. KeysInit => KeysInv
  BY DEF KeysInit, KeysInv
<1>2. KeysInv /\ [KeysNext]_keysVars => KeysInv'
  BY KeysStep
<1> QED BY <1>1, <1>2, KeysHold, PTL DEF KeysSpec

(***************************************************************************)
(* LuaObjects.                                                             *)
(***************************************************************************)

LuaValues == LuaTables \cup MetaTables \cup Scalars \cup FieldNames
               \cup {NIL, LINK, Userdata, Globals, "registry", "function"}
LuaMembers == [LuaTables -> [FieldNames -> LuaValues]]
Machines == [stack : Seq(LuaValues), registry : Seq(LuaValues), unused : Seq(Int),
             tables : LuaMembers, meta : LuaValues, made : Int]

\* What luaL_ref makes of a value pushed for it alone.
RefTaken(m, v) == ReferenceCreate(LuaPush(m, v))

\* H gives the references that are held, by who holds them: a slot each that no
\* other has, unless it is nil's, and the other slots are the free ones, once each.
Holding(m, H) ==
  /\ \A x \in DOMAIN H : H[x] = REFNIL \/ H[x] \in 1..Len(m.registry)
  /\ \A x, y \in DOMAIN H : H[x] = H[y] => x = y \/ H[x] = REFNIL
  /\ \A i, k \in 1..Len(m.unused) : m.unused[i] = m.unused[k] => i = k
  /\ \A i \in 1..Len(m.unused) :
       m.unused[i] \in 1..Len(m.registry) /\ \A x \in DOMAIN H : H[x] # m.unused[i]
  /\ \A r \in 1..Len(m.registry) :
       (\E i \in 1..Len(m.unused) : m.unused[i] = r) \/ (\E x \in DOMAIN H : H[x] = r)

Also(H, x, r) == [y \in DOMAIN H \cup {x} |-> IF y = x THEN r ELSE H[y]]
But(H, x)     == [y \in DOMAIN H \ {x} |-> H[y]]

\* The references held mean in t what they mean in m.
Kept(m, t, H) == \A x \in DOMAIN H : Referenced(t, H[x]) = Referenced(m, H[x])

\* t has the stack, the tables and the metatable of m.
SameButSlots(m, t) == t.stack = m.stack /\ t.tables = m.tables /\ t.meta = m.meta
SameSlots(m, t)    == t.registry = m.registry /\ t.unused = m.unused

LEMMA MachineEqual ==
  ASSUME NEW m \in Machines, NEW t \in Machines, m.stack = t.stack, m.registry = t.registry,
         m.unused = t.unused, m.tables = t.tables, m.meta = t.meta, m.made = t.made
  PROVE  m = t
BY DEF Machines

LEMMA LuaPushIs ==
  ASSUME NEW m \in Machines, NEW v \in LuaValues
  PROVE  /\ LuaPush(m, v) \in Machines
         /\ LuaPush(m, v).stack # <<>>
         /\ Len(LuaPush(m, v).stack) = Len(m.stack) + 1
         /\ AtTop(LuaPush(m, v), -1) = v
         /\ LuaPop(LuaPush(m, v), 1) = m
         /\ \A n \in 0..Len(m.stack) - 1 : AtTop(LuaPush(m, v), -2 - n) = AtTop(m, -1 - n)
         /\ SameSlots(m, LuaPush(m, v))
         /\ LuaPush(m, v).tables = m.tables /\ LuaPush(m, v).meta = m.meta
         /\ LuaPush(m, v).made = m.made
<1> DEFINE s == m.stack
           a == Append(s, v)
<1>1. s \in Seq(LuaValues) /\ Len(s) \in Nat
  BY DEF Machines
<1>2. /\ a \in Seq(LuaValues) /\ Len(a) = Len(s) + 1 /\ a[Len(s) + 1] = v
      /\ \A i \in 1..Len(s) : a[i] = s[i]
  BY <1>1
<1>3. SubSeq(a, 1, Len(a) - 1) = s
  <2>1. Len(a) - 1 = Len(s) /\ Len(s) \in 0..Len(a)
    BY <1>1, <1>2
  <2>2. /\ SubSeq(a, 1, Len(s)) \in Seq(LuaValues) /\ Len(SubSeq(a, 1, Len(s))) = Len(s)
        /\ \A i \in 1..Len(s) : SubSeq(a, 1, Len(s))[i] = a[i]
    BY <1>2, <2>1, FirstOf
  <2> QED BY <1>1, <1>2, <2>1, <2>2, SeqEqual
<1>4. LuaPush(m, v) = [m EXCEPT !.stack = a]
  BY DEF LuaPush
<1>5. LuaPush(m, v) \in Machines
  BY <1>2, <1>4 DEF Machines
<1>6. LuaPush(m, v).stack = a
  BY <1>4 DEF Machines
<1>7. LuaPop(LuaPush(m, v), 1) = m
  BY <1>3, <1>4 DEF LuaPop, Machines
<1>8. /\ LuaPush(m, v).registry = m.registry /\ LuaPush(m, v).unused = m.unused
      /\ LuaPush(m, v).tables = m.tables /\ LuaPush(m, v).meta = m.meta
      /\ LuaPush(m, v).made = m.made
  BY <1>4 DEF Machines
<1> HIDE DEF a
<1>9. a # <<>>
  BY <1>1, <1>2
<1>10. AtTop(LuaPush(m, v), -1) = v
  BY <1>1, <1>2, <1>6 DEF AtTop
<1>11. ASSUME NEW n \in 0..Len(s) - 1
       PROVE  AtTop(LuaPush(m, v), -2 - n) = AtTop(m, -1 - n)
  <2>1. Len(a) + 1 + (-2 - n) = Len(s) - n /\ Len(s) + 1 + (-1 - n) = Len(s) - n
    BY <1>1, <1>2
  <2>2. Len(s) - n \in 1..Len(s)
    BY <1>1
  <2> QED BY <1>2, <1>6, <2>1, <2>2 DEF AtTop
<1> QED BY <1>2, <1>5, <1>6, <1>7, <1>8, <1>9, <1>10, <1>11 DEF SameSlots

\* What a reference taken is: nil's, the slot freed last or a new one.
LEMMA TakenIs ==
  ASSUME NEW m \in Machines, NEW v \in LuaValues
  PROVE  RefTaken(m, v) =
           IF v = NIL THEN [m EXCEPT !.made = REFNIL]
           ELSE IF m.unused # <<>>
           THEN [m EXCEPT !.registry[Head(m.unused)] = v, !.unused = Tail(@),
                          !.made = Head(m.unused)]
           ELSE [m EXCEPT !.registry = Append(@, v), !.made = Len(m.registry) + 1]
<1> DEFINE p == LuaPush(m, v)
<1>1. AtTop(p, -1) = v /\ LuaPop(p, 1) = m /\ p.registry = m.registry /\ p.unused = m.unused
  BY LuaPushIs DEF SameSlots
<1> HIDE DEF p
<1> QED BY <1>1 DEF RefTaken, ReferenceCreate, p

LEMMA SlotSet ==
  ASSUME NEW S, NEW s \in Seq(S), NEW v \in S, NEW r
  PROVE  /\ [s EXCEPT ![r] = v] \in Seq(S) /\ Len([s EXCEPT ![r] = v]) = Len(s)
         /\ \A i \in 1..Len(s) : [s EXCEPT ![r] = v][i] = IF i = r THEN v ELSE s[i]
<1> DEFINE t == [s EXCEPT ![r] = v]
<1>1. s \in [1..Len(s) -> S] /\ Len(s) \in Nat
  OBVIOUS
<1>2. t \in [1..Len(s) -> S] /\ \A i \in 1..Len(s) : t[i] = IF i = r THEN v ELSE s[i]
  BY <1>1
<1> HIDE DEF t
<1>3. t \in Seq(S) /\ DOMAIN t = 1..Len(s)
  BY <1>1, <1>2, SeqDef
<1>4. Len(t) = Len(s)
  BY <1>1, <1>3, LenProperties
<1> QED BY <1>2, <1>3, <1>4 DEF t

LEMMA TakenTyped ==
  ASSUME NEW m \in Machines, NEW v \in LuaValues
  PROVE  RefTaken(m, v) \in Machines /\ SameButSlots(m, RefTaken(m, v))
<1>1. CASE v = NIL
  <2>1. RefTaken(m, v) = [m EXCEPT !.made = REFNIL]
    BY <1>1, TakenIs
  <2>2. REFNIL \in Int
    BY DEF REFNIL
  <2> QED BY <2>1, <2>2 DEF Machines, SameButSlots
<1>2. CASE v # NIL /\ m.unused # <<>>
  <2>1. m.unused \in Seq(Int) /\ m.registry \in Seq(LuaValues)
    BY DEF Machines
  <2>2. Head(m.unused) \in Int /\ Tail(m.unused) \in Seq(Int)
    BY <1>2, <2>1
  <2>3. [m.registry EXCEPT ![Head(m.unused)] = v] \in Seq(LuaValues)
    BY <2>1, SlotSet
  <2>4. RefTaken(m, v) = [m EXCEPT !.registry = [m.registry EXCEPT ![Head(m.unused)] = v],
                                !.unused = Tail(m.unused), !.made = Head(m.unused)]
    BY <1>2, TakenIs DEF Machines
  <2> QED BY <2>2, <2>3, <2>4 DEF Machines, SameButSlots
<1>3. CASE v # NIL /\ m.unused = <<>>
  <2>1. Append(m.registry, v) \in Seq(LuaValues) /\ Len(m.registry) + 1 \in Int
    BY DEF Machines
  <2>2. RefTaken(m, v) = [m EXCEPT !.registry = Append(m.registry, v), !.made = Len(m.registry) + 1]
    BY <1>3, TakenIs DEF Machines
  <2> QED BY <2>1, <2>2 DEF Machines, SameButSlots
<1> QED BY <1>1, <1>2, <1>3

\* The reference taken is one no holder has, it means the value, and the holders'
\* references mean what they did.
LEMMA TakenHolds ==
  ASSUME NEW m \in Machines, NEW v \in LuaValues, NEW H, NEW x, x \notin DOMAIN H,
         Holding(m, H)
  PROVE  LET t == RefTaken(m, v) IN
         /\ Holding(t, Also(H, x, t.made))
         /\ Kept(m, t, H)
         /\ Referenced(t, t.made) = v
<1> DEFINE t == RefTaken(m, v)
           G == Also(H, x, t.made)
           u == m.unused
           g == m.registry
<1>1. /\ u \in Seq(Int) /\ g \in Seq(LuaValues) /\ Len(g) \in Nat /\ Len(u) \in Nat
  BY DEF Machines
<1>2. /\ DOMAIN G = DOMAIN H \cup {x} /\ G[x] = t.made
      /\ \A y \in DOMAIN H : G[y] = H[y] /\ y # x
  BY DEF Also
<1>3. CASE v = NIL
  <2>1. t.registry = g /\ t.unused = u /\ t.made = REFNIL
    <3>1. t = [m EXCEPT !.made = REFNIL]
      BY <1>3, TakenIs
    <3> QED BY <3>1 DEF Machines
  <2> HIDE DEF t, G
  <2>2. Kept(m, t, H) /\ Referenced(t, t.made) = v
    BY <1>3, <2>1 DEF Kept, Referenced
  <2>3. \A i \in 1..Len(u) : G[x] # u[i]
    BY <1>1, <1>2, <2>1 DEF Holding, REFNIL
  <2>4. Holding(t, G)
    BY <1>2, <2>1, <2>3 DEF Holding
  <2> QED BY <2>2, <2>4 DEF t, G
<1>4. CASE v # NIL /\ u # <<>>
  <2>1. t.registry = [g EXCEPT ![Head(u)] = v] /\ t.unused = Tail(u) /\ t.made = Head(u)
    <3>1. t = [m EXCEPT !.registry = [g EXCEPT ![Head(u)] = v], !.unused = Tail(u), !.made = Head(u)]
      BY <1>4, TakenIs DEF Machines
    <3>2. t.registry = [g EXCEPT ![Head(u)] = v]
      BY <3>1 DEF Machines
    <3>3. t.unused = Tail(u)
      BY <3>1 DEF Machines
    <3>4. t.made = Head(u)
      BY <3>1 DEF Machines
    <3> QED BY <3>2, <3>3, <3>4
  <2> HIDE DEF t, G
  <2>2. /\ Head(u) = u[1] /\ 1 \in 1..Len(u)
        /\ Len(Tail(u)) = Len(u) - 1
        /\ \A i \in 1..Len(u) - 1 : Tail(u)[i] = u[i + 1]
    BY <1>1, <1>4
  <2>3. u[1] \in 1..Len(g) /\ \A y \in DOMAIN H : H[y] # u[1]
    BY <2>2 DEF Holding
  <2>4. /\ Len(t.registry) = Len(g)
        /\ \A i \in 1..Len(g) : t.registry[i] = IF i = u[1] THEN v ELSE g[i]
    BY <1>1, <2>1, <2>2, SlotSet
  <2>5. u[1] # REFNIL
    BY <1>1, <2>3 DEF REFNIL
  <2>6. Kept(m, t, H)
    BY <2>3, <2>4 DEF Kept, Referenced, Holding
  <2>7. Referenced(t, t.made) = v
    BY <2>1, <2>2, <2>3, <2>4, <2>5 DEF Referenced
  <2>8. \A i \in 1..Len(u) - 1 : i + 1 \in 1..Len(u) /\ i + 1 # 1
    BY <1>1
  <2>9. \A i \in 1..Len(u) : i = 1 \/ (i - 1 \in 1..Len(u) - 1 /\ Tail(u)[i - 1] = u[i])
    BY <1>1, <2>2
  <2>10. \A y \in DOMAIN G : G[y] = REFNIL \/ G[y] \in 1..Len(t.registry)
    BY <1>2, <2>1, <2>2, <2>3, <2>4 DEF Holding
  <2>11. \A y, z \in DOMAIN G : G[y] = G[z] => y = z \/ G[y] = REFNIL
    BY <1>2, <2>1, <2>2, <2>3 DEF Holding
  <2>12. \A i, k \in 1..Len(Tail(u)) : Tail(u)[i] = Tail(u)[k] => i = k
    <3> SUFFICES ASSUME NEW i \in 1..Len(u) - 1, NEW k \in 1..Len(u) - 1, Tail(u)[i] = Tail(u)[k]
                 PROVE  i = k
      BY <2>2
    <3>1. u[i + 1] = u[k + 1]
      BY <2>2
    <3>2. i + 1 = k + 1
      BY <2>8, <3>1 DEF Holding
    <3> QED BY <1>1, <3>2
  <2>13. ASSUME NEW i \in 1..Len(Tail(u))
         PROVE  Tail(u)[i] \in 1..Len(t.registry) /\ \A y \in DOMAIN G : G[y] # Tail(u)[i]
    <3>1. i \in 1..Len(u) - 1 /\ Tail(u)[i] = u[i + 1]
      BY <2>2
    <3>2. u[i + 1] # u[1]
      BY <2>2, <2>8, <3>1 DEF Holding
    <3> QED BY <1>2, <2>1, <2>2, <2>4, <2>8, <3>1, <3>2 DEF Holding
  <2>14. ASSUME NEW r \in 1..Len(t.registry)
         PROVE  (\E i \in 1..Len(Tail(u)) : Tail(u)[i] = r) \/ (\E y \in DOMAIN G : G[y] = r)
    <3>1. CASE \E y \in DOMAIN H : H[y] = r
      BY <1>2, <3>1
    <3>2. CASE \E i \in 1..Len(u) : u[i] = r
      BY <1>2, <2>1, <2>2, <2>9, <3>2
    <3> QED BY <2>4, <3>1, <3>2 DEF Holding
  <2>15. Holding(t, G)
    BY <2>1, <2>10, <2>11, <2>12, <2>13, <2>14 DEF Holding
  <2> QED BY <2>6, <2>7, <2>15 DEF t, G
<1>5. CASE v # NIL /\ u = <<>>
  <2>1. t.registry = Append(g, v) /\ t.unused = u /\ t.made = Len(g) + 1
    <3>1. t = [m EXCEPT !.registry = Append(g, v), !.made = Len(g) + 1]
      BY <1>5, TakenIs DEF Machines
    <3> QED BY <1>5, <3>1 DEF Machines
  <2> HIDE DEF t, G
  <2>2. /\ Len(t.registry) = Len(g) + 1 /\ t.registry[Len(g) + 1] = v
        /\ \A i \in 1..Len(g) : t.registry[i] = g[i]
    BY <1>1, <2>1
  <2>3. 1..Len(u) = {} /\ Len(g) + 1 # REFNIL /\ Len(g) + 1 \notin 1..Len(g)
    BY <1>1, <1>5 DEF REFNIL
  <2>4. 1..Len(t.registry) = 1..Len(g) \cup {Len(g) + 1}
    BY <1>1, <2>2
  <2>5. Kept(m, t, H)
    BY <2>2 DEF Kept, Referenced, Holding
  <2>6. Referenced(t, t.made) = v
    BY <2>1, <2>2, <2>3 DEF Referenced
  <2>7. Holding(t, G)
    BY <1>2, <2>1, <2>3, <2>4 DEF Holding
  <2> QED BY <2>5, <2>6, <2>7 DEF t, G
<1> QED BY <1>3, <1>4, <1>5

\* A reference given up goes to the free slots, and the others mean what they did.
LEMMA FreedHolds ==
  ASSUME NEW m \in Machines, NEW H, NEW x \in DOMAIN H, H[x] \in Int, Holding(m, H)
  PROVE  LET t == ReferenceFree(m, H[x]) IN
         /\ t \in Machines /\ SameButSlots(m, t) /\ t.made = m.made
         /\ Holding(t, But(H, x))
         /\ Kept(m, t, But(H, x))
<1> DEFINE t == ReferenceFree(m, H[x])
           G == But(H, x)
           u == m.unused
           g == m.registry
           w == <<H[x]>> \o u
<1>1. /\ u \in Seq(Int) /\ g \in Seq(LuaValues) /\ Len(g) \in Nat /\ Len(u) \in Nat
  BY DEF Machines
<1>2. /\ DOMAIN G = DOMAIN H \ {x}
      /\ \A y \in DOMAIN G : G[y] = H[y] /\ y # x /\ y \in DOMAIN H
  BY DEF But
<1>3. CASE H[x] = REFNIL
  <2>1. t = m
    BY <1>3 DEF ReferenceFree
  <2> HIDE DEF t, G
  <2>2. \A r \in 1..Len(g) : H[x] # r
    BY <1>1, <1>3 DEF REFNIL
  <2>3. \A r \in 1..Len(g) : (\E y \in DOMAIN H : H[y] = r) => \E y \in DOMAIN G : G[y] = r
    BY <1>2, <2>2
  <2>4. Holding(m, G)
    BY <1>2, <2>3 DEF Holding
  <2>5. Kept(m, t, G)
    BY <2>1 DEF Kept
  <2> QED BY <2>1, <2>4, <2>5 DEF t, G, SameButSlots
<1>4. CASE H[x] # REFNIL
  <2>1. t = [m EXCEPT !.registry = [g EXCEPT ![H[x]] = LINK], !.unused = w]
    BY <1>4 DEF ReferenceFree, Machines
  <2>2. w \in Seq(Int) /\ LINK \in LuaValues
    BY <1>1 DEF LuaValues
  <2> HIDE DEF w, G
  <2>3. [g EXCEPT ![H[x]] = LINK] \in Seq(LuaValues)
    BY <1>1, <2>2, SlotSet
  <2>4. t \in Machines /\ SameButSlots(m, t) /\ t.made = m.made
    BY <2>1, <2>2, <2>3 DEF Machines, SameButSlots
  <2>5. t.registry = [g EXCEPT ![H[x]] = LINK] /\ t.unused = w
    BY <2>1 DEF Machines
  <2> HIDE DEF t
  <2>6. /\ Len(w) = Len(u) + 1 /\ w[1] = H[x]
        /\ \A i \in 2..Len(u) + 1 : w[i] = u[i - 1]
    BY <1>1, ConsFacts DEF w, Cons
  <2>7. /\ Len(t.registry) = Len(g)
        /\ \A i \in 1..Len(g) : t.registry[i] = IF i = H[x] THEN LINK ELSE g[i]
    BY <1>1, <2>2, <2>5, SlotSet
  <2>8. H[x] \in 1..Len(g) /\ \A y \in DOMAIN G : G[y] # H[x]
    BY <1>2, <1>4 DEF Holding
  <2>9. Kept(m, t, G)
    BY <1>2, <2>7, <2>8 DEF Kept, Referenced, Holding
  <2>10. \A i \in 1..Len(w) : i = 1 \/ (i \in 2..Len(u) + 1 /\ i - 1 \in 1..Len(u))
    BY <1>1, <2>6
  <2>11. \A i \in 1..Len(u) : u[i] # H[x]
    BY DEF Holding
  <2>12. \A i, k \in 1..Len(w) : w[i] = w[k] => i = k
    <3> SUFFICES ASSUME NEW i \in 1..Len(w), NEW k \in 1..Len(w), w[i] = w[k]
                 PROVE  i = k
      OBVIOUS
    <3>1. CASE i = 1 \/ k = 1
      BY <2>6, <2>10, <2>11, <3>1
    <3>2. CASE i # 1 /\ k # 1
      <4>1. i - 1 \in 1..Len(u) /\ k - 1 \in 1..Len(u) /\ u[i - 1] = u[k - 1]
        BY <2>6, <2>10, <3>2
      <4>2. i - 1 = k - 1
        BY <4>1 DEF Holding
      <4> QED BY <1>1, <2>6, <4>2
    <3> QED BY <3>1, <3>2
  <2>13. ASSUME NEW i \in 1..Len(w)
         PROVE  w[i] \in 1..Len(t.registry) /\ \A y \in DOMAIN G : G[y] # w[i]
    <3>1. CASE i = 1
      BY <2>6, <2>7, <2>8, <3>1
    <3>2. CASE i # 1
      <4>1. i - 1 \in 1..Len(u) /\ w[i] = u[i - 1]
        BY <2>6, <2>10, <3>2
      <4> QED BY <1>2, <2>7, <4>1 DEF Holding
    <3> QED BY <3>1, <3>2
  <2>14. ASSUME NEW r \in 1..Len(t.registry)
         PROVE  (\E i \in 1..Len(w) : w[i] = r) \/ (\E y \in DOMAIN G : G[y] = r)
    <3>1. CASE r = H[x]
      BY <1>1, <2>6, <3>1
    <3>2. CASE r # H[x]
      <4>1. CASE \E i \in 1..Len(u) : u[i] = r
        <5>1. PICK i \in 1..Len(u) : u[i] = r
          BY <4>1
        <5>2. i + 1 \in 1..Len(w) /\ i + 1 \in 2..Len(u) + 1 /\ w[i + 1] = u[i + 1 - 1]
          BY <1>1, <2>6
        <5>3. i + 1 - 1 = i
          OBVIOUS
        <5> QED BY <5>1, <5>2, <5>3
      <4>2. CASE \E y \in DOMAIN H : H[y] = r
        BY <1>2, <3>2, <4>2
      <4> QED BY <2>7, <4>1, <4>2 DEF Holding
    <3> QED BY <3>1, <3>2
  <2>15. \A y \in DOMAIN G : G[y] = REFNIL \/ G[y] \in 1..Len(t.registry)
    BY <1>2, <2>7 DEF Holding
  <2>16. \A y, z \in DOMAIN G : G[y] = G[z] => y = z \/ G[y] = REFNIL
    BY <1>2 DEF Holding
  <2>17. Holding(t, G)
    BY <2>5, <2>12, <2>13, <2>14, <2>15, <2>16 DEF Holding
  <2> QED BY <2>4, <2>9, <2>17 DEF t, G
<1> QED BY <1>3, <1>4

\* What lies on the stack is no matter to a reference taken.
LEMMA TakenUnder ==
  ASSUME NEW m \in Machines, NEW w \in LuaValues, NEW v \in LuaValues
  PROVE  /\ RefTaken(LuaPush(m, w), v) = LuaPush(RefTaken(m, v), w)
         /\ LuaPop(RefTaken(LuaPush(m, w), v), 1) = RefTaken(m, v)
<1> DEFINE a == Append(m.stack, w)
           p == LuaPush(m, w)
<1>1. p \in Machines
  BY LuaPushIs
<1>2. p = [m EXCEPT !.stack = a] /\ p.registry = m.registry /\ p.unused = m.unused
  BY DEF LuaPush, Machines
<1>3. RefTaken(m, v) \in Machines /\ RefTaken(m, v).stack = m.stack
  BY TakenTyped DEF SameButSlots
<1> HIDE DEF a, p
<1>4. RefTaken(p, v) = [RefTaken(m, v) EXCEPT !.stack = a]
  <2>1. CASE v = NIL
    <3>1. RefTaken(m, v) = [m EXCEPT !.made = REFNIL] /\ RefTaken(p, v) = [p EXCEPT !.made = REFNIL]
      BY <1>1, <2>1, TakenIs
    <3> QED BY <1>2, <3>1 DEF Machines
  <2>2. CASE v # NIL /\ m.unused # <<>>
    <3> DEFINE g == [m.registry EXCEPT ![Head(m.unused)] = v]
    <3>1. /\ RefTaken(m, v) = [m EXCEPT !.registry = g, !.unused = Tail(m.unused), !.made = Head(m.unused)]
          /\ RefTaken(p, v) = [p EXCEPT !.registry = g, !.unused = Tail(m.unused), !.made = Head(m.unused)]
      <4>1. RefTaken(m, v) = [m EXCEPT !.registry = g, !.unused = Tail(m.unused), !.made = Head(m.unused)]
        BY <2>2, TakenIs DEF Machines
      <4>2. RefTaken(p, v) = [p EXCEPT !.registry = g, !.unused = Tail(m.unused), !.made = Head(m.unused)]
        BY <1>1, <1>2, <2>2, TakenIs DEF Machines
      <4> QED BY <4>1, <4>2
    <3> HIDE DEF g
    <3> QED BY <1>2, <3>1 DEF Machines
  <2>3. CASE v # NIL /\ m.unused = <<>>
    <3> DEFINE g == Append(m.registry, v)
    <3>1. RefTaken(m, v) = [m EXCEPT !.registry = g, !.made = Len(m.registry) + 1]
      BY <2>3, TakenIs DEF Machines
    <3>2. RefTaken(p, v) = [p EXCEPT !.registry = g, !.made = Len(m.registry) + 1]
      BY <1>1, <1>2, <2>3, TakenIs DEF Machines
    <3> HIDE DEF g
    <3> QED BY <1>2, <3>1, <3>2 DEF Machines
  <2> QED BY <2>1, <2>2, <2>3
<1>5. RefTaken(p, v) = LuaPush(RefTaken(m, v), w)
  BY <1>3, <1>4 DEF LuaPush, a, Machines
<1>6. LuaPop(LuaPush(RefTaken(m, v), w), 1) = RefTaken(m, v)
  BY <1>3, LuaPushIs
<1> QED BY <1>5, <1>6 DEF p

LEMMA PushTwice ==
  ASSUME NEW m \in Machines, NEW v \in LuaValues, NEW w \in LuaValues
  PROVE  LET p == LuaPush(LuaPush(m, v), w) IN
         /\ p \in Machines
         /\ AtTop(p, -1) = w /\ AtTop(p, -2) = v
         /\ LuaPop(p, 1) = LuaPush(m, v) /\ LuaPop(p, 2) = m
         /\ SameSlots(m, p) /\ p.tables = m.tables /\ p.meta = m.meta /\ p.made = m.made
<1> DEFINE q == LuaPush(m, v)
           p == LuaPush(q, w)
<1>1. /\ q \in Machines /\ AtTop(q, -1) = v /\ LuaPop(q, 1) = m
      /\ SameSlots(m, q) /\ q.tables = m.tables /\ q.meta = m.meta /\ q.made = m.made
      /\ Len(q.stack) = Len(m.stack) + 1
  BY LuaPushIs
<1>2. Len(m.stack) \in Nat /\ m.stack \in Seq(LuaValues)
  BY DEF Machines
<1>3. q.stack = Append(m.stack, v)
  BY DEF LuaPush, Machines
<1>4. q = [m EXCEPT !.stack = q.stack]
  BY <1>3 DEF LuaPush, Machines
<1> HIDE DEF q
<1>5. /\ p \in Machines /\ AtTop(p, -1) = w /\ LuaPop(p, 1) = q
      /\ Len(p.stack) = Len(q.stack) + 1
      /\ \A n \in 0..Len(q.stack) - 1 : AtTop(p, -2 - n) = AtTop(q, -1 - n)
      /\ SameSlots(q, p) /\ p.tables = q.tables /\ p.meta = q.meta /\ p.made = q.made
  BY <1>1, LuaPushIs
<1>6. AtTop(p, -2) = v
  <2>1. 0 \in 0..Len(q.stack) - 1
    BY <1>1, <1>2
  <2>2. AtTop(p, -2 - 0) = AtTop(q, -1 - 0)
    BY <1>5, <2>1
  <2>3. -2 - 0 = -2 /\ -1 - 0 = -1
    OBVIOUS
  <2> QED BY <1>1, <2>2, <2>3
<1>7. LuaPop(p, 2) = m
  <2>1. p = [q EXCEPT !.stack = Append(q.stack, w)] /\ p.stack = Append(q.stack, w)
    BY <1>1 DEF LuaPush, Machines
  <2>2. q.stack \in Seq(LuaValues) /\ Append(q.stack, w) \in Seq(LuaValues)
    BY <1>1 DEF Machines
  <2> DEFINE a == Append(q.stack, w)
             n == Len(m.stack)
  <2>3. Len(a) = n + 2 /\ Len(a) - 2 = n /\ n \in 0..Len(a)
    BY <1>1, <1>2, <1>5, <2>1
  <2>4. \A i \in 1..n : a[i] = m.stack[i]
    BY <1>1, <1>2, <1>3, <2>2
  <2>5. SubSeq(a, 1, n) \in Seq(LuaValues) /\ Len(SubSeq(a, 1, n)) = n
        /\ \A i \in 1..n : SubSeq(a, 1, n)[i] = a[i]
    BY <2>2, <2>3, FirstOf
  <2>6. SubSeq(a, 1, n) = m.stack
    BY <1>2, <2>4, <2>5, SeqEqual
  <2> HIDE DEF a
  <2>7. LuaPop(p, 2) = [p EXCEPT !.stack = m.stack]
    BY <2>1, <2>3, <2>6 DEF LuaPop, a
  <2>8. LuaPop(p, 2) \in Machines /\ LuaPop(p, 2).stack = m.stack
    BY <1>2, <1>5, <2>7 DEF Machines
  <2>9. SameSlots(p, LuaPop(p, 2)) /\ LuaPop(p, 2).tables = p.tables
        /\ LuaPop(p, 2).meta = p.meta /\ LuaPop(p, 2).made = p.made
    BY <1>5, <2>7 DEF Machines, SameSlots
  <2> QED BY <1>1, <1>5, <2>8, <2>9, MachineEqual DEF SameSlots
<1> QED BY <1>1, <1>5, <1>6, <1>7 DEF SameSlots, q

\* What a pop leaves does not depend on what is above or below the stack.
LEMMA TableValue ==
  ASSUME NEW m \in Machines, NEW t \in LuaTables, NEW k \in FieldNames
  PROVE  m.tables[t][k] \in LuaValues /\ t \in LuaValues /\ k \in LuaValues
<1>1. m.tables \in LuaMembers
  BY DEF Machines
<1> QED BY <1>1 DEF LuaMembers, LuaValues

\* GetMember by name and by value: the reference of the member, and the stack as
\* it was under the table.
LEMMA FieldTakenIs ==
  ASSUME NEW m \in Machines, NEW t \in LuaTables, NEW k \in FieldNames
  PROVE  /\ FieldTaken(LuaPush(m, t), k) = RefTaken(m, m.tables[t][k])
         /\ IndexTaken(LuaPush(m, t), k) = RefTaken(m, m.tables[t][k])
<1> DEFINE p == LuaPush(m, t)
           v == m.tables[t][k]
           q == LuaPush(p, k)
<1>1. v \in LuaValues /\ t \in LuaValues /\ k \in LuaValues
  BY TableValue
<1>2. p \in Machines /\ AtTop(p, -1) = t /\ p.tables = m.tables
  BY <1>1, LuaPushIs
<1>3. AtTop(q, -1) = k /\ AtTop(q, -2) = t /\ LuaPop(q, 1) = p /\ q.tables = m.tables
  BY <1>1, PushTwice
<1>4. LuaPop(RefTaken(p, v), 1) = RefTaken(m, v)
  BY <1>1, TakenUnder
<1> HIDE DEF p, q
<1>5. FieldTaken(p, k) = RefTaken(m, v)
  BY <1>2, <1>4 DEF FieldTaken, GetField, RefTaken
<1>6. IndexTaken(p, k) = RefTaken(m, v)
  BY <1>3, <1>4 DEF IndexTaken, GetTable2, RefTaken, q
<1> QED BY <1>5, <1>6 DEF p

\* SetMember: the stack as it was, and the value under its name in the table.
LEMMA PushSetIs ==
  ASSUME NEW m \in Machines, NEW t \in LuaTables, NEW k \in FieldNames, NEW v \in LuaValues
  PROVE  LET after == LuaPop(SetTable3(LuaPush(LuaPush(LuaPush(m, t), k), v)), 1) IN
         /\ after = [m EXCEPT !.tables[t][k] = v]
         /\ after \in Machines /\ after.stack = m.stack /\ SameSlots(m, after)
         /\ after.tables = [m.tables EXCEPT ![t][k] = v] /\ after.meta = m.meta
         /\ after.made = m.made
<1> DEFINE new == [m.tables EXCEPT ![t][k] = v]
           n == [m EXCEPT !.tables = new]
           q == LuaPush(m, t)
           p == LuaPush(LuaPush(q, k), v)
           p2 == LuaPush(LuaPush(LuaPush(n, t), k), v)
<1>1. t \in LuaValues /\ k \in LuaValues
  BY DEF LuaValues
<1>2. new \in LuaMembers
  BY DEF Machines, LuaMembers
<1>3. n \in Machines /\ n.tables = new /\ n.stack = m.stack /\ SameSlots(m, n)
      /\ n.meta = m.meta /\ n.made = m.made
  BY <1>2 DEF Machines, SameSlots
<1>4. q \in Machines /\ q.tables = m.tables
  BY <1>1, LuaPushIs
<1>5. p \in Machines /\ AtTop(p, -1) = v /\ AtTop(p, -2) = k /\ p.tables = m.tables
  BY <1>1, <1>4, PushTwice
<1>6. AtTop(p, -3) = t
  <2> HIDE DEF q
  <2>1. LuaPush(q, k) \in Machines /\ Len(LuaPush(q, k).stack) = Len(q.stack) + 1
        /\ AtTop(LuaPush(q, k), -2) = t
    BY <1>1, PushTwice, LuaPushIs, <1>4 DEF q
  <2> DEFINE r == LuaPush(q, k)
  <2>2. \A i \in 0..Len(r.stack) - 1 : AtTop(LuaPush(r, v), -2 - i) = AtTop(r, -1 - i)
    BY <2>1, LuaPushIs
  <2>3. 1 \in 0..Len(r.stack) - 1
    <3>1. Len(q.stack) = Len(m.stack) + 1 /\ Len(m.stack) \in Nat
      BY <1>1, LuaPushIs DEF q, Machines
    <3> QED BY <2>1, <3>1
  <2>4. AtTop(p, -2 - 1) = AtTop(r, -1 - 1)
    BY <2>2, <2>3
  <2> HIDE DEF p, r
  <2>5. -2 - 1 = -3 /\ -1 - 1 = -2
    OBVIOUS
  <2> QED BY <2>1, <2>4, <2>5 DEF r
<1>7. [p EXCEPT !.tables = new] = p2
  BY DEF LuaPush, Machines
<1>8. SetTable3(p) = LuaPop(p2, 2)
  <2> HIDE DEF p, p2
  <2>1. [p EXCEPT !.tables[AtTop(p, -3)][AtTop(p, -2)] = AtTop(p, -1)] = [p EXCEPT !.tables = new]
    BY <1>5, <1>6 DEF Machines
  <2> QED BY <1>7, <2>1 DEF SetTable3
<1>9. LuaPop(p2, 2) = LuaPush(n, t) /\ LuaPop(LuaPush(n, t), 1) = n
  <2> HIDE DEF n
  <2>1. LuaPush(n, t) \in Machines /\ LuaPop(LuaPush(n, t), 1) = n
    BY <1>1, <1>3, LuaPushIs
  <2> QED BY <1>1, <2>1, PushTwice
<1>10. LuaPop(SetTable3(p), 1) = n
  BY <1>8, <1>9
<1>11. n = [m EXCEPT !.tables[t][k] = v]
  BY DEF Machines
<1> HIDE DEF p, p2
<1> QED BY <1>3, <1>10, <1>11 DEF p

\* The metatable of a userdata that is set, the stack as it was; in PushUserData
\* the userdata stays on it.
LEMMA MetaSetIs ==
  ASSUME NEW m \in Machines, NEW a \in LuaValues, NEW b \in LuaValues
  PROVE  LET left == SetMetaTable2(LuaPush(LuaPush(m, a), b))
             n == [m EXCEPT !.meta = b] IN
         /\ left = LuaPush(n, a) /\ LuaPop(left, 1) = n
         /\ n \in Machines /\ n.stack = m.stack /\ SameSlots(m, n) /\ n.tables = m.tables
         /\ n.made = m.made
<1> DEFINE n == [m EXCEPT !.meta = b]
           p == LuaPush(LuaPush(m, a), b)
           p2 == LuaPush(LuaPush(n, a), b)
<1>1. n \in Machines /\ n.stack = m.stack /\ SameSlots(m, n) /\ n.tables = m.tables /\ n.made = m.made
  BY DEF Machines, SameSlots
<1>2. AtTop(p, -1) = b
  BY PushTwice
<1>3. [p EXCEPT !.meta = b] = p2
  BY DEF LuaPush, Machines
<1>4. SetMetaTable2(p) = LuaPop(p2, 1)
  <2> HIDE DEF p, p2
  <2> QED BY <1>2, <1>3 DEF SetMetaTable2
<1> HIDE DEF n
<1>5. LuaPop(p2, 1) = LuaPush(n, a) /\ LuaPop(LuaPush(n, a), 1) = n
  BY <1>1, PushTwice, LuaPushIs
<1> HIDE DEF p, p2
<1> QED BY <1>1, <1>4, <1>5 DEF p, n

\* The top of the stack, and the stack without it.
LEMMA TopOf ==
  ASSUME NEW m \in Machines, m.stack # <<>>
  PROVE  LET n == LuaPop(m, 1) IN
         /\ n \in Machines /\ AtTop(m, -1) \in LuaValues
         /\ LuaPush(n, AtTop(m, -1)) = m
         /\ SameSlots(m, n) /\ n.tables = m.tables /\ n.meta = m.meta /\ n.made = m.made
         /\ n.stack = Front(m.stack) /\ AtTop(m, -1) = Last(m.stack)
         /\ AtTop(m, -1) = m.stack[Len(m.stack)]
<1> DEFINE s == m.stack
           n == LuaPop(m, 1)
           f == SubSeq(s, 1, Len(s) - 1)
<1>1. s \in Seq(LuaValues) /\ Len(s) \in Nat /\ s # <<>>
  BY DEF Machines
<1>2. Len(s) \in 1..Len(s) /\ Len(s) - 1 \in 0..Len(s) /\ Len(s) + 1 + (-1) = Len(s)
  BY <1>1
<1>3. f \in Seq(LuaValues) /\ Len(f) = Len(s) - 1 /\ \A i \in 1..Len(s) - 1 : f[i] = s[i]
  BY <1>1, <1>2, FirstOf
<1>4. AtTop(m, -1) = s[Len(s)] /\ s[Len(s)] \in LuaValues
  BY <1>1, <1>2 DEF AtTop
<1>5. n = [m EXCEPT !.stack = f]
  BY DEF LuaPop
<1> HIDE DEF f
<1>6. n \in Machines /\ n.stack = f /\ SameSlots(m, n) /\ n.tables = m.tables /\ n.meta = m.meta
      /\ n.made = m.made
  BY <1>3, <1>5 DEF Machines, SameSlots
<1>7. Append(f, s[Len(s)]) = s
  <2> DEFINE a == Append(f, s[Len(s)])
  <2>1. a \in Seq(LuaValues) /\ Len(a) = Len(s)
    BY <1>1, <1>3, <1>4
  <2>2. ASSUME NEW i \in 1..Len(s) PROVE a[i] = s[i]
    <3>1. CASE i = Len(s)
      BY <1>1, <1>3, <1>4, <3>1
    <3>2. CASE i # Len(s)
      <4>1. i \in 1..Len(s) - 1
        BY <1>1, <3>2
      <4> QED BY <1>3, <1>4, <4>1
    <3> QED BY <3>1, <3>2
  <2> HIDE DEF a
  <2> QED BY <1>1, <2>1, <2>2, SeqEqual DEF a
<1>8. LuaPush(n, AtTop(m, -1)) = m
  <2>1. LuaPush(n, s[Len(s)]) = [n EXCEPT !.stack = s]
    BY <1>6, <1>7 DEF LuaPush
  <2>2. [n EXCEPT !.stack = s] = m
    BY <1>5 DEF Machines
  <2> QED BY <1>4, <2>1, <2>2
<1>9. Front(s) = f /\ Last(s) = s[Len(s)]
  BY DEF Front, Last, f
<1> QED BY <1>4, <1>6, <1>8, <1>9

\* Who holds a reference: the objects, the numbers and the pairs of a vector.
HeldNames(D, n, k) ==
  {<<"object", o>> : o \in D} \cup {<<"number", i>> : i \in 1..n}
    \cup {<<"key", i>> : i \in 1..k} \cup {<<"value", i>> : i \in 1..k}
HeldBy(objs, nums, vec) ==
  [x \in HeldNames(DOMAIN objs, Len(nums), Len(vec)) |->
     CASE x[1] = "object" -> objs[x[2]] [] x[1] = "number" -> nums[x[2]]
       [] x[1] = "key" -> vec[x[2]][1] [] OTHER -> vec[x[2]][2]]

\* What they mean.
ValuesOf(m, objs)  == [o \in DOMAIN objs |-> Referenced(m, objs[o])]
NumbersOf(m, nums) == [i \in DOMAIN nums |-> Referenced(m, nums[i])]
PairsOf(m, vec)    == {<<Referenced(m, p[1]), Referenced(m, p[2])>> : p \in Range(vec)}

\* Lua in order: what is held is held once, and what is not is free.
InOrder(m, objs, nums, vec) ==
  /\ m \in Machines
  /\ objs \in [DOMAIN objs -> Int] /\ nums \in Seq(Int) /\ vec \in Seq(Int \X Int)
  /\ Holding(m, HeldBy(objs, nums, vec))

LEMMA HeldIs ==
  ASSUME NEW objs, NEW nums, NEW vec
  PROVE  LET H == HeldBy(objs, nums, vec) IN
         /\ DOMAIN H = HeldNames(DOMAIN objs, Len(nums), Len(vec))
         /\ \A o \in DOMAIN objs : <<"object", o>> \in DOMAIN H /\ H[<<"object", o>>] = objs[o]
         /\ \A i \in 1..Len(nums) : <<"number", i>> \in DOMAIN H /\ H[<<"number", i>>] = nums[i]
         /\ \A i \in 1..Len(vec) :
              /\ <<"key", i>> \in DOMAIN H /\ H[<<"key", i>>] = vec[i][1]
              /\ <<"value", i>> \in DOMAIN H /\ H[<<"value", i>>] = vec[i][2]
         /\ \A x \in DOMAIN H :
              \/ \E o \in DOMAIN objs : x = <<"object", o>>
              \/ \E i \in 1..Len(nums) : x = <<"number", i>>
              \/ \E i \in 1..Len(vec) : x = <<"key", i>> \/ x = <<"value", i>>
<1> DEFINE H == HeldBy(objs, nums, vec)
<1>1. DOMAIN H = HeldNames(DOMAIN objs, Len(nums), Len(vec))
  BY DEF HeldBy
<1>2. /\ \A o \in DOMAIN objs : <<"object", o>> \in DOMAIN H
      /\ \A i \in 1..Len(nums) : <<"number", i>> \in DOMAIN H
      /\ \A i \in 1..Len(vec) : <<"key", i>> \in DOMAIN H /\ <<"value", i>> \in DOMAIN H
  BY <1>1 DEF HeldNames
<1>3. \A x \in DOMAIN H :
        \/ \E o \in DOMAIN objs : x = <<"object", o>>
        \/ \E i \in 1..Len(nums) : x = <<"number", i>>
        \/ \E i \in 1..Len(vec) : x = <<"key", i>> \/ x = <<"value", i>>
  BY <1>1 DEF HeldNames
<1>4. \A x \in DOMAIN H :
        H[x] = CASE x[1] = "object" -> objs[x[2]] [] x[1] = "number" -> nums[x[2]]
                 [] x[1] = "key" -> vec[x[2]][1] [] OTHER -> vec[x[2]][2]
  BY DEF HeldBy
<1> HIDE DEF H
<1>5. ASSUME NEW o \in DOMAIN objs PROVE H[<<"object", o>>] = objs[o]
  BY <1>2, <1>4
<1>6. ASSUME NEW i \in 1..Len(nums) PROVE H[<<"number", i>>] = nums[i]
  BY <1>2, <1>4
<1>7. ASSUME NEW i \in 1..Len(vec)
      PROVE  H[<<"key", i>>] = vec[i][1] /\ H[<<"value", i>>] = vec[i][2]
  BY <1>2, <1>4
<1> QED BY <1>1, <1>2, <1>3, <1>5, <1>6, <1>7 DEF H

HeldAs(H, objs, nums, vec) ==
  /\ DOMAIN H = HeldNames(DOMAIN objs, Len(nums), Len(vec))
  /\ \A o \in DOMAIN objs : <<"object", o>> \in DOMAIN H /\ H[<<"object", o>>] = objs[o]
  /\ \A i \in 1..Len(nums) : <<"number", i>> \in DOMAIN H /\ H[<<"number", i>>] = nums[i]
  /\ \A i \in 1..Len(vec) :
       /\ <<"key", i>> \in DOMAIN H /\ H[<<"key", i>>] = vec[i][1]
       /\ <<"value", i>> \in DOMAIN H /\ H[<<"value", i>>] = vec[i][2]

LEMMA HeldFacts ==
  ASSUME NEW objs, NEW nums, NEW vec
  PROVE  HeldAs(HeldBy(objs, nums, vec), objs, nums, vec)
BY HeldIs DEF HeldAs

\* What is kept of the references held is kept of what their holders mean.
LEMMA KeptMeans ==
  ASSUME NEW m, NEW t, NEW objs, NEW nums \in Seq(Int), NEW vec \in Seq(Int \X Int),
         Kept(m, t, HeldBy(objs, nums, vec))
  PROVE  /\ ValuesOf(t, objs) = ValuesOf(m, objs)
         /\ NumbersOf(t, nums) = NumbersOf(m, nums)
         /\ PairsOf(t, vec) = PairsOf(m, vec)
<1> DEFINE H == HeldBy(objs, nums, vec)
<1>1. /\ \A o \in DOMAIN objs : <<"object", o>> \in DOMAIN H /\ H[<<"object", o>>] = objs[o]
      /\ \A i \in 1..Len(nums) : <<"number", i>> \in DOMAIN H /\ H[<<"number", i>>] = nums[i]
      /\ \A i \in 1..Len(vec) :
           /\ <<"key", i>> \in DOMAIN H /\ H[<<"key", i>>] = vec[i][1]
           /\ <<"value", i>> \in DOMAIN H /\ H[<<"value", i>>] = vec[i][2]
  BY HeldIs
<1>2. \A x \in DOMAIN H : Referenced(t, H[x]) = Referenced(m, H[x])
  BY DEF Kept
<1> HIDE DEF H
<1>3. \A o \in DOMAIN objs : Referenced(t, objs[o]) = Referenced(m, objs[o])
  BY <1>1, <1>2
<1>4. \A i \in 1..Len(nums) : Referenced(t, nums[i]) = Referenced(m, nums[i])
  BY <1>1, <1>2
<1>5. \A i \in 1..Len(vec) : /\ Referenced(t, vec[i][1]) = Referenced(m, vec[i][1])
                            /\ Referenced(t, vec[i][2]) = Referenced(m, vec[i][2])
  <2> TAKE i \in 1..Len(vec)
  <2>1. /\ <<"key", i>> \in DOMAIN H /\ H[<<"key", i>>] = vec[i][1]
        /\ <<"value", i>> \in DOMAIN H /\ H[<<"value", i>>] = vec[i][2]
    BY <1>1
  <2> QED BY <1>2, <2>1
<1>6. DOMAIN nums = 1..Len(nums) /\ DOMAIN vec = 1..Len(vec)
  OBVIOUS
<1>7. \A p \in Range(vec) : /\ Referenced(t, p[1]) = Referenced(m, p[1])
                            /\ Referenced(t, p[2]) = Referenced(m, p[2])
  BY <1>5, <1>6 DEF Range
<1>8. PairsOf(t, vec) = PairsOf(m, vec)
  BY <1>7 DEF PairsOf
<1>9. ValuesOf(t, objs) = ValuesOf(m, objs)
  BY <1>3 DEF ValuesOf
<1>10. NumbersOf(t, nums) = NumbersOf(m, nums)
  BY <1>4, <1>6 DEF NumbersOf
<1> QED BY <1>8, <1>9, <1>10

\* Only the slots matter to who holds what and what it means.
LEMMA SlotsMatter ==
  ASSUME NEW m, NEW t \in Machines, SameSlots(m, t), NEW objs, NEW nums, NEW vec,
         InOrder(m, objs, nums, vec)
  PROVE  /\ InOrder(t, objs, nums, vec)
         /\ ValuesOf(t, objs) = ValuesOf(m, objs)
         /\ NumbersOf(t, nums) = NumbersOf(m, nums)
         /\ PairsOf(t, vec) = PairsOf(m, vec)
<1>1. Holding(t, HeldBy(objs, nums, vec))
  BY DEF SameSlots, InOrder, Holding
<1>2. Kept(m, t, HeldBy(objs, nums, vec))
  BY DEF SameSlots, Kept, Referenced
<1>3. nums \in Seq(Int) /\ vec \in Seq(Int \X Int)
  BY DEF InOrder
<1> QED BY <1>1, <1>2, <1>3, KeptMeans DEF InOrder

LEMMA AlsoIs ==
  ASSUME NEW H, NEW x, NEW r
  PROVE  /\ DOMAIN Also(H, x, r) = DOMAIN H \cup {x}
         /\ Also(H, x, r)[x] = r
         /\ \A y \in DOMAIN H : y # x => Also(H, x, r)[y] = H[y]
BY DEF Also

LEMMA ButIs ==
  ASSUME NEW H, NEW x
  PROVE  /\ DOMAIN But(H, x) = DOMAIN H \ {x}
         /\ \A y \in DOMAIN H : y # x => But(H, x)[y] = H[y]
BY DEF But

\* Functions are equal that have a domain and its values in common.
LEMMA AlsoEqual ==
  ASSUME NEW H, NEW x, NEW r, NEW D, NEW G, G = [y \in D |-> G[y]],
         D = DOMAIN H \cup {x}, G[x] = r, \A y \in DOMAIN H : y # x => G[y] = H[y]
  PROVE  G = Also(H, x, r)
BY DEF Also

LEMMA ButEqual ==
  ASSUME NEW H, NEW x, NEW D, NEW G, G = [y \in D |-> G[y]],
         D = DOMAIN H \ {x}, \A y \in DOMAIN H : y # x => G[y] = H[y]
  PROVE  G = But(H, x)
BY DEF But

LEMMA HeldAlso ==
  ASSUME NEW objs, NEW nums, NEW vec, NEW o, NEW r
  PROVE  HeldBy(Also(objs, o, r), nums, vec) = Also(HeldBy(objs, nums, vec), <<"object", o>>, r)
<1> DEFINE H == HeldBy(objs, nums, vec)
           new == Also(objs, o, r)
           G == HeldBy(new, nums, vec)
           x == <<"object", o>>
<1>1. /\ DOMAIN new = DOMAIN objs \cup {o} /\ new[o] = r
      /\ \A y \in DOMAIN objs : y # o => new[y] = objs[y]
  BY DEF Also
<1>2. DOMAIN H = HeldNames(DOMAIN objs, Len(nums), Len(vec))
  BY DEF HeldBy
<1>3. DOMAIN G = HeldNames(DOMAIN new, Len(nums), Len(vec)) /\ G = [y \in DOMAIN G |-> G[y]]
  BY DEF HeldBy
<1> HIDE DEF new
<1>4. DOMAIN G = DOMAIN H \cup {x}
  <2> HIDE DEF G, H
  <2> QED BY <1>1, <1>2, <1>3 DEF HeldNames
<1>5. G[x] = r
  <2> HIDE DEF G
  <2> QED BY <1>1, HeldIs DEF G
<1>6. ASSUME NEW y \in DOMAIN H, y # x PROVE G[y] = H[y]
  <2>1. CASE \E p \in DOMAIN objs : y = <<"object", p>>
    <3>1. PICK p \in DOMAIN objs : y = <<"object", p>>
      BY <2>1
    <3>2. p # o /\ p \in DOMAIN new
      BY <1>1, <1>6, <3>1
    <3>3. G[y] = new[p] /\ H[y] = objs[p]
      BY <3>1, <3>2, HeldIs
    <3> QED BY <1>1, <3>2, <3>3
  <2>2. CASE \E i \in 1..Len(nums) : y = <<"number", i>>
    <3>1. PICK i \in 1..Len(nums) : y = <<"number", i>>
      BY <2>2
    <3>2. G[y] = nums[i] /\ H[y] = nums[i]
      BY <3>1, HeldIs
    <3> QED BY <3>2
  <2>3. CASE \E i \in 1..Len(vec) : y = <<"key", i>> \/ y = <<"value", i>>
    <3>1. PICK i \in 1..Len(vec) : y = <<"key", i>> \/ y = <<"value", i>>
      BY <2>3
    <3>2. /\ G[<<"key", i>>] = vec[i][1] /\ H[<<"key", i>>] = vec[i][1]
          /\ G[<<"value", i>>] = vec[i][2] /\ H[<<"value", i>>] = vec[i][2]
      BY HeldIs
    <3> HIDE DEF G, H
    <3> QED BY <3>1, <3>2
  <2> QED BY <2>1, <2>2, <2>3, HeldIs
<1> HIDE DEF G, H, x
<1> QED BY <1>3, <1>4, <1>5, <1>6, AlsoEqual DEF G, H, x, new

LEMMA HeldMade ==
  ASSUME NEW F, NEW objs, NEW nums, NEW vec, F = [y \in DOMAIN F |-> F[y]],
         DOMAIN F = HeldNames(DOMAIN objs, Len(nums), Len(vec)),
         \A o \in DOMAIN objs : F[<<"object", o>>] = objs[o],
         \A i \in 1..Len(nums) : F[<<"number", i>>] = nums[i],
         \A i \in 1..Len(vec) : F[<<"key", i>>] = vec[i][1],
         \A i \in 1..Len(vec) : F[<<"value", i>>] = vec[i][2]
  PROVE  F = HeldBy(objs, nums, vec)
<1> DEFINE G == HeldBy(objs, nums, vec)
<1>1. DOMAIN G = DOMAIN F /\ G = [y \in DOMAIN G |-> G[y]]
  BY DEF HeldBy
<1>2. ASSUME NEW y \in DOMAIN G PROVE G[y] = F[y]
  <2>1. CASE \E p \in DOMAIN objs : y = <<"object", p>>
    BY <2>1, HeldIs
  <2>2. CASE \E i \in 1..Len(nums) : y = <<"number", i>>
    BY <2>2, HeldIs
  <2>3. CASE \E i \in 1..Len(vec) : y = <<"key", i>> \/ y = <<"value", i>>
    <3>1. PICK i \in 1..Len(vec) : y = <<"key", i>> \/ y = <<"value", i>>
      BY <2>3
    <3>2. G[<<"key", i>>] = vec[i][1] /\ G[<<"value", i>>] = vec[i][2]
      BY HeldIs
    <3> HIDE DEF G
    <3> QED BY <3>1, <3>2
  <2> QED BY <2>1, <2>2, <2>3, HeldIs
<1> HIDE DEF G
<1> QED BY <1>1, <1>2 DEF G

LEMMA HeldBut ==
  ASSUME NEW objs, NEW nums, NEW vec, NEW o \in DOMAIN objs
  PROVE  HeldBy(But(objs, o), nums, vec) = But(HeldBy(objs, nums, vec), <<"object", o>>)
<1> DEFINE H == HeldBy(objs, nums, vec)
           new == But(objs, o)
           x == <<"object", o>>
           F == But(H, x)
<1>1. DOMAIN new = DOMAIN objs \ {o} /\ \A y \in DOMAIN objs : y # o => new[y] = objs[y]
  BY DEF But
<1>2. F = [y \in DOMAIN F |-> F[y]] /\ DOMAIN F = DOMAIN H \ {x}
      /\ \A y \in DOMAIN H : y # x => F[y] = H[y]
  BY DEF But
<1>3. DOMAIN H = HeldNames(DOMAIN objs, Len(nums), Len(vec))
  BY HeldIs
<1> HIDE DEF new, F, H
<1>4. DOMAIN F = HeldNames(DOMAIN new, Len(nums), Len(vec))
  BY <1>1, <1>2, <1>3 DEF HeldNames
<1>5. \A p \in DOMAIN new : F[<<"object", p>>] = new[p]
  <2> TAKE p \in DOMAIN new
  <2>1. p \in DOMAIN objs /\ p # o /\ new[p] = objs[p]
    BY <1>1
  <2>2. <<"object", p>> \in DOMAIN H /\ H[<<"object", p>>] = objs[p]
    BY <2>1, HeldIs DEF H
  <2> QED BY <1>2, <2>1, <2>2
<1>6. \A i \in 1..Len(nums) : F[<<"number", i>>] = nums[i]
  <2> TAKE i \in 1..Len(nums)
  <2>1. <<"number", i>> \in DOMAIN H /\ H[<<"number", i>>] = nums[i]
    BY HeldIs DEF H
  <2> QED BY <1>2, <2>1
<1>7. \A i \in 1..Len(vec) : F[<<"key", i>>] = vec[i][1] /\ F[<<"value", i>>] = vec[i][2]
  <2> TAKE i \in 1..Len(vec)
  <2>1. /\ <<"key", i>> \in DOMAIN H /\ H[<<"key", i>>] = vec[i][1]
        /\ <<"value", i>> \in DOMAIN H /\ H[<<"value", i>>] = vec[i][2]
    BY HeldIs DEF H
  <2> QED BY <1>2, <2>1
<1>8. F = HeldBy(new, nums, vec)
  <2>1. \A i \in 1..Len(vec) : F[<<"key", i>>] = vec[i][1]
    BY <1>7
  <2>2. \A i \in 1..Len(vec) : F[<<"value", i>>] = vec[i][2]
    BY <1>7
  <2> QED BY <1>2, <1>4, <1>5, <1>6, <2>1, <2>2, HeldMade
<1> QED BY <1>8 DEF F, H, new

LEMMA HeldNumber ==
  ASSUME NEW objs, NEW vec, NEW r, NEW none, Len(none) = 0,
         NEW nums, Len(nums) = 1, nums[1] = r
  PROVE  /\ HeldBy(objs, nums, vec) = Also(HeldBy(objs, none, vec), <<"number", 1>>, r)
         /\ HeldBy(objs, none, vec) = But(HeldBy(objs, nums, vec), <<"number", 1>>)
         /\ <<"number", 1>> \notin DOMAIN HeldBy(objs, none, vec)
<1> DEFINE H == HeldBy(objs, none, vec)
           G == HeldBy(objs, nums, vec)
           x == <<"number", 1>>
<1>1. 1..0 = {} /\ 1..1 = {1}
  OBVIOUS
<1>2. /\ DOMAIN H = HeldNames(DOMAIN objs, Len(none), Len(vec))
      /\ \A o \in DOMAIN objs : <<"object", o>> \in DOMAIN H /\ H[<<"object", o>>] = objs[o]
      /\ \A i \in 1..Len(vec) :
           /\ <<"key", i>> \in DOMAIN H /\ H[<<"key", i>>] = vec[i][1]
           /\ <<"value", i>> \in DOMAIN H /\ H[<<"value", i>>] = vec[i][2]
  BY HeldIs
<1>3. G = [y \in DOMAIN G |-> G[y]] /\ H = [y \in DOMAIN H |-> H[y]]
  BY DEF HeldBy
<1>4. /\ DOMAIN G = HeldNames(DOMAIN objs, Len(nums), Len(vec))
      /\ \A o \in DOMAIN objs : <<"object", o>> \in DOMAIN G /\ G[<<"object", o>>] = objs[o]
      /\ \A i \in 1..Len(nums) : <<"number", i>> \in DOMAIN G /\ G[<<"number", i>>] = nums[i]
      /\ \A i \in 1..Len(vec) :
           /\ <<"key", i>> \in DOMAIN G /\ G[<<"key", i>>] = vec[i][1]
           /\ <<"value", i>> \in DOMAIN G /\ G[<<"value", i>>] = vec[i][2]
  <2>1. HeldAs(G, objs, nums, vec)
    BY HeldFacts
  <2> HIDE DEF G
  <2> QED BY <2>1 DEF HeldAs
<1> HIDE DEF G, H
<1>7. x \in DOMAIN G /\ G[x] = r
  BY <1>1, <1>4
<1>8. DOMAIN G = DOMAIN H \cup {x} /\ x \notin DOMAIN H /\ DOMAIN H = DOMAIN G \ {x}
  <2>1. x \notin DOMAIN H
    BY <1>1, <1>2, <1>4 DEF HeldNames
  <2>2. DOMAIN G = DOMAIN H \cup {x}
    BY <1>1, <1>2, <1>4 DEF HeldNames
  <2> QED BY <2>1, <2>2
<1>9. H = But(G, x)
  <2> DEFINE F == But(G, x)
  <2>1. F = [y \in DOMAIN F |-> F[y]] /\ DOMAIN F = DOMAIN G \ {x}
        /\ \A y \in DOMAIN G : y # x => F[y] = G[y]
    BY DEF But
  <2> HIDE DEF F
  <2>2. DOMAIN F = HeldNames(DOMAIN objs, Len(none), Len(vec))
    BY <1>2, <1>8, <2>1
  <2>3. \A o \in DOMAIN objs : F[<<"object", o>>] = objs[o]
    BY <1>4, <2>1
  <2>4. \A i \in 1..Len(none) : F[<<"number", i>>] = none[i]
    BY <1>1
  <2>5. \A i \in 1..Len(vec) : F[<<"key", i>>] = vec[i][1]
    BY <1>4, <2>1
  <2>6. \A i \in 1..Len(vec) : F[<<"value", i>>] = vec[i][2]
    BY <1>4, <2>1
  <2>7. F = HeldBy(objs, none, vec)
    BY <2>1, <2>2, <2>3, <2>4, <2>5, <2>6, HeldMade
  <2> QED BY <2>7 DEF F, H
<1>10. G = Also(H, x, r)
  <2>1. \A y \in DOMAIN H : y # x => G[y] = H[y]
    <3>1. \A y \in DOMAIN G : y # x => But(G, x)[y] = G[y]
      BY ButIs
    <3> QED BY <1>8, <1>9, <3>1
  <2> QED BY <1>3, <1>7, <1>8, <2>1, AlsoEqual
<1> QED BY <1>8, <1>9, <1>10 DEF G, H

LEMMA HeldPair ==
  ASSUME NEW objs, NEW nums, NEW vec \in Seq(Int \X Int), NEW k \in Int, NEW v \in Int
  PROVE  LET n == Len(vec) + 1
             H == HeldBy(objs, nums, vec) IN
         /\ HeldBy(objs, nums, Append(vec, <<k, v>>)) = Also(Also(H, <<"value", n>>, v), <<"key", n>>, k)
         /\ <<"value", n>> \notin DOMAIN H
         /\ <<"key", n>> \notin DOMAIN Also(H, <<"value", n>>, v)
<1> DEFINE n == Len(vec) + 1
           H == HeldBy(objs, nums, vec)
           new == Append(vec, <<k, v>>)
           H1 == Also(H, <<"value", n>>, v)
           F == Also(H1, <<"key", n>>, k)
<1>1. /\ Len(new) = n /\ new[n] = <<k, v>> /\ n \notin 1..Len(vec)
      /\ 1..n = 1..Len(vec) \cup {n} /\ \A i \in 1..Len(vec) : new[i] = vec[i]
  BY SMT
<1> HIDE DEF n, new
<1>2. DOMAIN H = HeldNames(DOMAIN objs, Len(nums), Len(vec))
  BY HeldIs
<1>3. <<"value", n>> \notin DOMAIN H /\ <<"key", n>> \notin DOMAIN H
  <2> HIDE DEF H
  <2> QED BY <1>1, <1>2 DEF HeldNames
<1>4. /\ DOMAIN H1 = DOMAIN H \cup {<<"value", n>>} /\ H1[<<"value", n>>] = v
      /\ \A y \in DOMAIN H : y # <<"value", n>> => H1[y] = H[y]
  BY DEF Also
<1> HIDE DEF H1
<1>5. <<"key", n>> \notin DOMAIN H1
  <2> HIDE DEF H
  <2> QED BY <1>3, <1>4
<1>6. /\ F = [y \in DOMAIN F |-> F[y]]
      /\ DOMAIN F = DOMAIN H1 \cup {<<"key", n>>} /\ F[<<"key", n>>] = k
      /\ \A y \in DOMAIN H1 : y # <<"key", n>> => F[y] = H1[y]
  BY DEF Also
<1> HIDE DEF F
<1>7. \A y \in DOMAIN H : F[y] = H[y]
  <2> HIDE DEF H
  <2> QED BY <1>3, <1>4, <1>5, <1>6
<1>8. F[<<"value", n>>] = v
  BY <1>4, <1>5, <1>6
<1>9. DOMAIN F = HeldNames(DOMAIN objs, Len(nums), Len(new))
  <2> HIDE DEF H
  <2> QED BY <1>1, <1>2, <1>4, <1>6 DEF HeldNames
<1>10. \A o \in DOMAIN objs : F[<<"object", o>>] = objs[o]
  <2> TAKE o \in DOMAIN objs
  <2>1. <<"object", o>> \in DOMAIN H /\ H[<<"object", o>>] = objs[o]
    BY HeldIs
  <2> HIDE DEF H
  <2> QED BY <1>7, <2>1
<1>11. \A i \in 1..Len(nums) : F[<<"number", i>>] = nums[i]
  <2> TAKE i \in 1..Len(nums)
  <2>1. <<"number", i>> \in DOMAIN H /\ H[<<"number", i>>] = nums[i]
    BY HeldIs
  <2> HIDE DEF H
  <2> QED BY <1>7, <2>1
<1>12. \A i \in 1..Len(new) : F[<<"key", i>>] = new[i][1] /\ F[<<"value", i>>] = new[i][2]
  <2> TAKE i \in 1..Len(new)
  <2>1. CASE i = n
    BY <1>1, <1>6, <1>8, <2>1
  <2>2. CASE i \in 1..Len(vec)
    <3>1. /\ <<"key", i>> \in DOMAIN H /\ H[<<"key", i>>] = vec[i][1]
          /\ <<"value", i>> \in DOMAIN H /\ H[<<"value", i>>] = vec[i][2]
      BY <2>2, HeldIs
    <3> HIDE DEF H
    <3> QED BY <1>1, <1>7, <2>2, <3>1
  <2> QED BY <1>1, <2>1, <2>2
<1>13. F = HeldBy(objs, nums, new)
  <2>1. \A i \in 1..Len(new) : F[<<"key", i>>] = new[i][1]
    BY <1>12
  <2>2. \A i \in 1..Len(new) : F[<<"value", i>>] = new[i][2]
    BY <1>12
  <2>3. F = [y \in DOMAIN F |-> F[y]]
    BY <1>6
  <2> HIDE DEF H
  <2> QED BY <1>9, <1>10, <1>11, <2>1, <2>2, <2>3, HeldMade
<1> QED BY <1>3, <1>5, <1>13 DEF F, H1, new, n

\* An object made of a new reference to v.
LEMMA TakeObject ==
  ASSUME NEW m, NEW objs, NEW nums, NEW vec, InOrder(m, objs, nums, vec),
         NEW o, o \notin DOMAIN objs, NEW v \in LuaValues
  PROVE  LET t == RefTaken(m, v)
             new == Also(objs, o, t.made) IN
         /\ InOrder(t, new, nums, vec) /\ SameButSlots(m, t)
         /\ ValuesOf(t, new) = Also(ValuesOf(m, objs), o, v)
         /\ NumbersOf(t, nums) = NumbersOf(m, nums) /\ PairsOf(t, vec) = PairsOf(m, vec)
<1> DEFINE t == RefTaken(m, v)
           new == Also(objs, o, t.made)
           H == HeldBy(objs, nums, vec)
<1>1. /\ m \in Machines /\ objs \in [DOMAIN objs -> Int] /\ nums \in Seq(Int)
      /\ vec \in Seq(Int \X Int) /\ Holding(m, H)
  BY DEF InOrder
<1>2. t \in Machines /\ SameButSlots(m, t) /\ t.made \in Int
  BY <1>1, TakenTyped DEF Machines
<1>3. <<"object", o>> \notin DOMAIN H
  BY HeldIs
<1>4. Holding(t, Also(H, <<"object", o>>, t.made)) /\ Kept(m, t, H) /\ Referenced(t, t.made) = v
  BY <1>1, <1>3, TakenHolds
<1> HIDE DEF t
<1>5. Holding(t, HeldBy(new, nums, vec))
  BY <1>4, HeldAlso
<1>6. ValuesOf(t, objs) = ValuesOf(m, objs) /\ NumbersOf(t, nums) = NumbersOf(m, nums)
      /\ PairsOf(t, vec) = PairsOf(m, vec)
  BY <1>1, <1>4, KeptMeans
<1>7. new \in [DOMAIN new -> Int]
  BY <1>1, <1>2 DEF Also
<1>8. ValuesOf(t, new) = Also(ValuesOf(t, objs), o, v)
  BY <1>4 DEF ValuesOf, Also
<1> QED BY <1>1, <1>2, <1>5, <1>6, <1>7, <1>8 DEF InOrder, t

\* An object that gives its reference up.
LEMMA FreeObject ==
  ASSUME NEW m, NEW objs, NEW nums, NEW vec, InOrder(m, objs, nums, vec), NEW o \in DOMAIN objs
  PROVE  LET t == ReferenceFree(m, objs[o])
             new == But(objs, o) IN
         /\ InOrder(t, new, nums, vec) /\ SameButSlots(m, t)
         /\ ValuesOf(t, new) = But(ValuesOf(m, objs), o)
         /\ NumbersOf(t, nums) = NumbersOf(m, nums) /\ PairsOf(t, vec) = PairsOf(m, vec)
<1> DEFINE t == ReferenceFree(m, objs[o])
           new == But(objs, o)
           H == HeldBy(objs, nums, vec)
           x == <<"object", o>>
<1>1. /\ m \in Machines /\ objs \in [DOMAIN objs -> Int] /\ nums \in Seq(Int)
      /\ vec \in Seq(Int \X Int) /\ Holding(m, H)
  BY DEF InOrder
<1>2. x \in DOMAIN H /\ H[x] = objs[o] /\ objs[o] \in Int
  BY <1>1, HeldIs
<1>3. HeldBy(new, nums, vec) = But(H, x)
  BY HeldBut
<1> HIDE DEF H, x
<1>4. /\ t \in Machines /\ SameButSlots(m, t) /\ Holding(t, But(H, x)) /\ Kept(m, t, But(H, x))
  BY <1>1, <1>2, FreedHolds
<1> HIDE DEF t
<1>5. ValuesOf(t, new) = ValuesOf(m, new) /\ NumbersOf(t, nums) = NumbersOf(m, nums)
      /\ PairsOf(t, vec) = PairsOf(m, vec)
  <2>1. Kept(m, t, HeldBy(new, nums, vec))
    BY <1>3, <1>4
  <2> HIDE DEF new
  <2> QED BY <1>1, <2>1, KeptMeans
<1>6. new \in [DOMAIN new -> Int]
  BY <1>1 DEF But
<1>7. ValuesOf(m, new) = But(ValuesOf(m, objs), o)
  BY DEF ValuesOf, But
<1> QED BY <1>1, <1>3, <1>4, <1>5, <1>6, <1>7 DEF InOrder, t

\* A number made of a new reference, and given up.
LEMMA TakeNumber ==
  ASSUME NEW m, NEW objs, NEW nums, NEW vec, InOrder(m, objs, nums, vec),
         nums = <<>>, NEW v \in LuaValues
  PROVE  LET t == RefTaken(m, v)
             new == <<t.made>> IN
         /\ InOrder(t, objs, new, vec) /\ SameButSlots(m, t)
         /\ ValuesOf(t, objs) = ValuesOf(m, objs)
         /\ NumbersOf(t, new) = <<v>> /\ PairsOf(t, vec) = PairsOf(m, vec)
<1> DEFINE t == RefTaken(m, v)
           new == <<t.made>>
           H == HeldBy(objs, nums, vec)
           x == <<"number", 1>>
<1>1. /\ m \in Machines /\ objs \in [DOMAIN objs -> Int] /\ nums \in Seq(Int)
      /\ vec \in Seq(Int \X Int) /\ Holding(m, H)
  BY DEF InOrder
<1>2. t \in Machines /\ SameButSlots(m, t) /\ t.made \in Int
  BY <1>1, TakenTyped DEF Machines
<1>3. Len(nums) = 0
  OBVIOUS
<1>4. new \in Seq(Int) /\ Len(new) = 1 /\ new[1] = t.made /\ DOMAIN new = {1}
  <2> HIDE DEF t
  <2> QED BY <1>2
<1>5. NumbersOf(t, new) = [i \in {1} |-> Referenced(t, t.made)]
  <2> HIDE DEF t
  <2> QED BY <1>4 DEF NumbersOf
<1> HIDE DEF new
<1>6. HeldBy(objs, new, vec) = Also(H, x, t.made) /\ x \notin DOMAIN H
  BY <1>3, <1>4, HeldNumber
<1> HIDE DEF H
<1>7. Holding(t, Also(H, x, t.made)) /\ Kept(m, t, H) /\ Referenced(t, t.made) = v
  BY <1>1, <1>6, TakenHolds
<1> HIDE DEF t
<1>8. ValuesOf(t, objs) = ValuesOf(m, objs) /\ PairsOf(t, vec) = PairsOf(m, vec)
  BY <1>1, <1>7, KeptMeans DEF H
<1>9. NumbersOf(t, new) = <<v>>
  <2>1. <<v>> = [i \in {1} |-> v]
    OBVIOUS
  <2> QED BY <1>5, <1>7, <2>1
<1> QED BY <1>1, <1>2, <1>4, <1>6, <1>7, <1>8, <1>9 DEF InOrder, t, new

LEMMA FreeNumber ==
  ASSUME NEW m, NEW objs, NEW nums, NEW vec, InOrder(m, objs, nums, vec), Len(nums) = 1
  PROVE  LET t == ReferenceFree(m, nums[1]) IN
         /\ InOrder(t, objs, <<>>, vec) /\ SameButSlots(m, t)
         /\ ValuesOf(t, objs) = ValuesOf(m, objs)
         /\ NumbersOf(t, <<>>) = <<>> /\ PairsOf(t, vec) = PairsOf(m, vec)
<1> DEFINE t == ReferenceFree(m, nums[1])
           none == <<>>
           H == HeldBy(objs, nums, vec)
           x == <<"number", 1>>
<1>1. /\ m \in Machines /\ objs \in [DOMAIN objs -> Int] /\ nums \in Seq(Int)
      /\ vec \in Seq(Int \X Int) /\ Holding(m, H)
  BY DEF InOrder
<1>2. Len(none) = 0 /\ none \in Seq(Int) /\ DOMAIN none = {}
  OBVIOUS
<1>3. NumbersOf(t, none) = none
  <2> HIDE DEF t
  <2>1. [i \in {} |-> Referenced(t, none[i])] = <<>>
    OBVIOUS
  <2> QED BY <1>2, <2>1 DEF NumbersOf
<1> HIDE DEF none
<1>4. HeldBy(objs, none, vec) = But(H, x) /\ nums[1] \in Int
  BY <1>1, <1>2, HeldNumber
<1>5. x \in DOMAIN H /\ H[x] = nums[1]
  <2>1. HeldAs(H, objs, nums, vec)
    BY HeldFacts
  <2> HIDE DEF H
  <2> QED BY <2>1 DEF HeldAs
<1> HIDE DEF H
<1>6. /\ t \in Machines /\ SameButSlots(m, t) /\ Holding(t, But(H, x)) /\ Kept(m, t, But(H, x))
  BY <1>1, <1>4, <1>5, FreedHolds
<1> HIDE DEF t
<1>7. ValuesOf(t, objs) = ValuesOf(m, objs) /\ PairsOf(t, vec) = PairsOf(m, vec)
  <2>1. Kept(m, t, HeldBy(objs, none, vec)) /\ none \in Seq(Int) /\ vec \in Seq(Int \X Int)
    BY <1>1, <1>2, <1>4, <1>6
  <2> QED BY <2>1, KeptMeans
<1> QED BY <1>1, <1>2, <1>3, <1>4, <1>6, <1>7 DEF InOrder, t, none

\* A pair of a vector: the value's reference, then the key's.
PairTaken(m, objs, nums, vec, k, v) ==
  LET t1 == RefTaken(m, v)
      t == RefTaken(t1, k)
      new == Append(vec, <<t.made, t1.made>>) IN
  /\ InOrder(t, objs, nums, new) /\ SameButSlots(m, t)
  /\ ValuesOf(t, objs) = ValuesOf(m, objs) /\ NumbersOf(t, nums) = NumbersOf(m, nums)
  /\ PairsOf(t, new) = PairsOf(m, vec) \cup {<<k, v>>}
  /\ Referenced(t, t.made) = k

LEMMA TakePair ==
  ASSUME NEW m, NEW objs, NEW nums, NEW vec, InOrder(m, objs, nums, vec),
         NEW k \in LuaValues, NEW v \in LuaValues
  PROVE  PairTaken(m, objs, nums, vec, k, v)
<1> DEFINE t1 == RefTaken(m, v)
           t == RefTaken(t1, k)
           pair == <<t.made, t1.made>>
           new == Append(vec, pair)
           n == Len(vec) + 1
           H == HeldBy(objs, nums, vec)
           x == <<"value", n>>
           y == <<"key", n>>
           H1 == Also(H, x, t1.made)
<1>1. /\ m \in Machines /\ objs \in [DOMAIN objs -> Int] /\ nums \in Seq(Int)
      /\ vec \in Seq(Int \X Int) /\ Holding(m, H)
  BY DEF InOrder
<1>2. t1 \in Machines /\ SameButSlots(m, t1) /\ t1.made \in Int
  BY <1>1, TakenTyped DEF Machines
<1> HIDE DEF t1
<1>3. t \in Machines /\ SameButSlots(t1, t) /\ t.made \in Int
  BY <1>2, TakenTyped DEF Machines
<1> HIDE DEF t
<1>4. /\ HeldBy(objs, nums, new) = Also(H1, y, t.made)
      /\ x \notin DOMAIN H /\ y \notin DOMAIN H1
  BY <1>1, <1>2, <1>3, HeldPair
<1>5. /\ new \in Seq(Int \X Int) /\ Len(new) = n /\ new[n] = pair
      /\ \A i \in 1..Len(vec) : new[i] = vec[i]
  <2>1. pair \in Int \X Int
    BY <1>2, <1>3
  <2> HIDE DEF pair
  <2> QED BY <1>1, <2>1
<1> HIDE DEF H, x, y, new
<1>6. Holding(t1, H1) /\ Kept(m, t1, H) /\ Referenced(t1, t1.made) = v
  BY <1>1, <1>4, TakenHolds DEF t1
<1>7. DOMAIN H \subseteq DOMAIN H1 /\ H1[x] = t1.made /\ x \in DOMAIN H1
      /\ \A z \in DOMAIN H : H1[z] = H[z]
  BY <1>4 DEF Also
<1> HIDE DEF H1
<1>8. Holding(t, Also(H1, y, t.made)) /\ Kept(t1, t, H1) /\ Referenced(t, t.made) = k
  BY <1>2, <1>4, <1>6, TakenHolds DEF t
<1>9. Referenced(t, t1.made) = v
  BY <1>6, <1>7, <1>8 DEF Kept
<1>10. Kept(m, t, H)
  BY <1>6, <1>7, <1>8 DEF Kept
<1>11. /\ ValuesOf(t, objs) = ValuesOf(m, objs) /\ NumbersOf(t, nums) = NumbersOf(m, nums)
       /\ PairsOf(t, vec) = PairsOf(m, vec)
  BY <1>1, <1>10, KeptMeans DEF H
<1>12. PairsOf(t, new) = PairsOf(t, vec) \cup {<<k, v>>}
  <2>1. Range(new) = Range(vec) \cup {pair}
    <3>1. DOMAIN new = 1..n /\ DOMAIN vec = 1..Len(vec) /\ 1..n = 1..Len(vec) \cup {n}
      BY <1>1, <1>5
    <3> HIDE DEF n, pair
    <3>2. Range(new) = {new[i] : i \in 1..n} /\ Range(vec) = {vec[i] : i \in 1..Len(vec)}
      BY <3>1 DEF Range
    <3>3. Range(vec) = {new[i] : i \in 1..Len(vec)}
      BY <1>5, <3>2
    <3> QED BY <1>5, <3>1, <3>2, <3>3
  <2>2. Referenced(t, pair[1]) = k /\ Referenced(t, pair[2]) = v
    BY <1>8, <1>9
  <2> HIDE DEF pair
  <2> QED BY <2>1, <2>2 DEF PairsOf
<1>13. SameButSlots(m, t)
  BY <1>2, <1>3 DEF SameButSlots
<1> QED BY <1>1, <1>3, <1>4, <1>5, <1>8, <1>11, <1>12, <1>13 DEF InOrder, PairTaken, t, t1, new

\* The members of a finite set in a sequence.
LEMMA SetToSeqFacts ==
  ASSUME NEW S, IsFiniteSet(S)
  PROVE  /\ SetToSeq(S) \in Seq(S)
         /\ \A x \in S : \E i \in 1..Len(SetToSeq(S)) : SetToSeq(S)[i] = x
<1> DEFINE n == Cardinality(S)
           s == SetToSeq(S)
<1>1. n \in Nat /\ ExistsBijection(1..n, S)
  BY FS_CardinalityType
<1>2. \E f \in [1..n -> S] : IsInjective(f)
  BY <1>1 DEF ExistsBijection, Bijection, Injection, IsInjective
<1>3. s \in [1..n -> S] /\ IsInjective(s)
  BY <1>2 DEF SetToSeq
<1> HIDE DEF s
<1>4. s \in Injection(1..n, S)
  BY <1>3 DEF Injection, IsInjective
<1>5. Cardinality(1..n) = n
  BY <1>1, FS_Interval
<1>6. s \in Surjection(1..n, S)
  BY <1>4, <1>5, FS_Injection
<1>7. s \in Seq(S) /\ Len(s) = n
  BY <1>1, <1>3, SeqDef, LenProperties
<1> QED BY <1>6, <1>7 DEF Surjection, s

OwnMeaning(h) ==
  [o \in Range(Own) |-> CASE o = "m_pR" -> "registry" [] o = "m_pErrorNoHalt" -> h [] OTHER -> Globals]

OpenedAs(refs) == [o \in Range(Own) |-> refs[CHOOSE i \in 1..4 : Own[i] = o]]

LEMMA OwnFacts ==
  /\ Range(Own) = {"m_pG", "m_pR", "m_pE", "m_pErrorNoHalt"}
  /\ Own[1] = "m_pG" /\ Own[2] = "m_pR" /\ Own[3] = "m_pE" /\ Own[4] = "m_pErrorNoHalt"
  /\ (CHOOSE i \in 1..4 : Own[i] = "m_pG") = 1 /\ (CHOOSE i \in 1..4 : Own[i] = "m_pR") = 2
  /\ (CHOOSE i \in 1..4 : Own[i] = "m_pE") = 3
  /\ (CHOOSE i \in 1..4 : Own[i] = "m_pErrorNoHalt") = 4
<1>1. Own[1] = "m_pG" /\ Own[2] = "m_pR" /\ Own[3] = "m_pE" /\ Own[4] = "m_pErrorNoHalt"
      /\ DOMAIN Own = 1..4
  BY OwnAssumption
<1>2. 1..4 = {1, 2, 3, 4}
  OBVIOUS
<1>3. Range(Own) = {"m_pG", "m_pR", "m_pE", "m_pErrorNoHalt"}
  BY <1>1, <1>2 DEF Range
<1>4. (CHOOSE i \in 1..4 : Own[i] = "m_pG") = 1
  BY <1>1, <1>2
<1>5. (CHOOSE i \in 1..4 : Own[i] = "m_pR") = 2
  BY <1>1, <1>2
<1>6. (CHOOSE i \in 1..4 : Own[i] = "m_pE") = 3
  BY <1>1, <1>2
<1>7. (CHOOSE i \in 1..4 : Own[i] = "m_pErrorNoHalt") = 4
  BY <1>1, <1>2
<1> QED BY <1>1, <1>3, <1>4, <1>5, <1>6, <1>7

NoObjects(objs) == DOMAIN objs = {}

\* The interface's constructor where there are no objects.
LEMMA ConstructedIs ==
  ASSUME NEW m, NEW objs, NEW nums, NEW vec, InOrder(m, objs, nums, vec), NoObjects(objs)
  PROVE  LET c == Constructed(m)
             new == OpenedAs(c.refs)
             h == m.tables[Globals]["ErrorNoHalt"] IN
         /\ InOrder(c.lua, new, nums, vec) /\ SameButSlots(m, c.lua)
         /\ ValuesOf(c.lua, new) = OwnMeaning(h)
         /\ NumbersOf(c.lua, nums) = NumbersOf(m, nums) /\ PairsOf(c.lua, vec) = PairsOf(m, vec)
<1> DEFINE v == m.tables[Globals]["ErrorNoHalt"]
           g == RefTaken(m, Globals)
           r == RefTaken(g, "registry")
           e == RefTaken(r, Globals)
           h == RefTaken(e, v)
           o1 == Also(objs, "m_pG", g.made)
           o2 == Also(o1, "m_pR", r.made)
           o3 == Also(o2, "m_pE", e.made)
           o4 == Also(o3, "m_pErrorNoHalt", h.made)
           v1 == Also(ValuesOf(m, objs), "m_pG", Globals)
           v2 == Also(v1, "m_pR", "registry")
           v3 == Also(v2, "m_pE", Globals)
           v4 == Also(v3, "m_pErrorNoHalt", v)
<1>1. m \in Machines /\ Globals \in LuaTables /\ "ErrorNoHalt" \in FieldNames
  BY LuaAssumption DEF InOrder
<1>2. v \in LuaValues /\ Globals \in LuaValues /\ "registry" \in LuaValues
  BY <1>1, TableValue DEF LuaValues
<1>3. "m_pR" # "m_pG" /\ "m_pE" \notin {"m_pG", "m_pR"} /\ "m_pErrorNoHalt" \notin {"m_pG", "m_pR", "m_pE"}
  OBVIOUS
<1>4. /\ DOMAIN o1 = {"m_pG"} /\ DOMAIN o2 = {"m_pG", "m_pR"} /\ DOMAIN o3 = {"m_pG", "m_pR", "m_pE"}
  BY DEF Also, NoObjects
<1> HIDE DEF v
<1>5. /\ InOrder(g, o1, nums, vec) /\ SameButSlots(m, g) /\ ValuesOf(g, o1) = v1
      /\ NumbersOf(g, nums) = NumbersOf(m, nums) /\ PairsOf(g, vec) = PairsOf(m, vec)
  <2>1. "m_pG" \notin DOMAIN objs
    BY DEF NoObjects
  <2> QED BY <1>2, <2>1, TakeObject
<1> HIDE DEF g, o1, v1
<1>6. /\ InOrder(r, o2, nums, vec) /\ SameButSlots(g, r) /\ ValuesOf(r, o2) = v2
      /\ NumbersOf(r, nums) = NumbersOf(g, nums) /\ PairsOf(r, vec) = PairsOf(g, vec)
  <2>1. "m_pR" \notin DOMAIN o1
    BY <1>3, <1>4
  <2> QED BY <1>2, <1>5, <2>1, TakeObject
<1> HIDE DEF r, o2, v2
<1>7. /\ InOrder(e, o3, nums, vec) /\ SameButSlots(r, e) /\ ValuesOf(e, o3) = v3
      /\ NumbersOf(e, nums) = NumbersOf(r, nums) /\ PairsOf(e, vec) = PairsOf(r, vec)
  <2>1. "m_pE" \notin DOMAIN o2
    BY <1>3, <1>4
  <2> QED BY <1>2, <1>6, <2>1, TakeObject
<1> HIDE DEF e, o3, v3
<1>8. /\ InOrder(h, o4, nums, vec) /\ SameButSlots(e, h) /\ ValuesOf(h, o4) = v4
      /\ NumbersOf(h, nums) = NumbersOf(e, nums) /\ PairsOf(h, vec) = PairsOf(e, vec)
  <2>1. "m_pErrorNoHalt" \notin DOMAIN o3
    BY <1>3, <1>4
  <2> QED BY <1>2, <1>7, <2>1, TakeObject
<1>9. SameButSlots(m, h) /\ e.tables = m.tables
  BY <1>5, <1>6, <1>7, <1>8 DEF SameButSlots
<1>10. FieldTaken(LuaPush(e, Globals), "ErrorNoHalt") = h
  <2>1. e \in Machines
    BY <1>7 DEF InOrder
  <2>2. FieldTaken(LuaPush(e, Globals), "ErrorNoHalt") = RefTaken(e, e.tables[Globals]["ErrorNoHalt"])
    BY <1>1, <2>1, FieldTakenIs
  <2> QED BY <1>9, <2>2 DEF v
<1> HIDE DEF h, o4
<1>11. Constructed(m) = [lua |-> h, refs |-> <<g.made, r.made, e.made, h.made>>]
  BY <1>10 DEF Constructed, RefTaken, g, r, e
<1>12. OpenedAs(<<g.made, r.made, e.made, h.made>>) = o4
  <2> DEFINE refs == <<g.made, r.made, e.made, h.made>>
             new == OpenedAs(refs)
  <2>1. refs[1] = g.made /\ refs[2] = r.made /\ refs[3] = e.made /\ refs[4] = h.made
    OBVIOUS
  <2> HIDE DEF refs
  <2>2. /\ new["m_pG"] = g.made /\ new["m_pR"] = r.made
        /\ new["m_pE"] = e.made /\ new["m_pErrorNoHalt"] = h.made
    BY <2>1, OwnFacts DEF OpenedAs
  <2>3. new = [o \in Range(Own) |-> new[o]]
    BY DEF OpenedAs
  <2>4. o4 = [o \in Range(Own) |-> o4[o]]
    BY <1>4, OwnFacts DEF o4, Also
  <2>5. /\ o4["m_pErrorNoHalt"] = h.made /\ o4["m_pE"] = e.made
        /\ o4["m_pR"] = r.made /\ o4["m_pG"] = g.made
    BY <1>3, <1>4 DEF o4, o3, o2, o1, Also
  <2>6. \A o \in Range(Own) : new[o] = o4[o]
    BY <2>2, <2>5, OwnFacts
  <2> HIDE DEF new
  <2>7. new = o4
    BY <2>3, <2>4, <2>6
  <2> QED BY <2>7 DEF new, refs
<1>13. v4 = OwnMeaning(v)
  <2>1. DOMAIN v1 = {"m_pG"} /\ DOMAIN v2 = {"m_pG", "m_pR"} /\ DOMAIN v3 = {"m_pG", "m_pR", "m_pE"}
    BY DEF v1, v2, v3, Also, ValuesOf, NoObjects
  <2>2. v4 = [o \in Range(Own) |-> v4[o]]
    BY <2>1, OwnFacts DEF Also
  <2>3. /\ v4["m_pErrorNoHalt"] = v /\ v4["m_pE"] = Globals
        /\ v4["m_pR"] = "registry" /\ v4["m_pG"] = Globals
    BY <1>3, <2>1 DEF v3, v2, v1, Also
  <2> HIDE DEF v4
  <2>4. \A o \in Range(Own) :
          v4[o] = CASE o = "m_pR" -> "registry" [] o = "m_pErrorNoHalt" -> v [] OTHER -> Globals
    BY <1>3, <2>3, OwnFacts
  <2> QED BY <2>2, <2>4 DEF OwnMeaning
<1> HIDE DEF v4
<1>14. Constructed(m).lua = h /\ OpenedAs(Constructed(m).refs) = o4
  BY <1>11, <1>12
<1>15. NumbersOf(h, nums) = NumbersOf(m, nums) /\ PairsOf(h, vec) = PairsOf(m, vec)
  BY <1>5, <1>6, <1>7, <1>8
<1> QED BY <1>8, <1>9, <1>13, <1>14, <1>15 DEF v

LEMMA FreeTyped ==
  ASSUME NEW m \in Machines, NEW r \in Int
  PROVE  ReferenceFree(m, r) \in Machines
<1>1. CASE r = REFNIL
  BY <1>1 DEF ReferenceFree
<1>2. CASE r # REFNIL
  <2> DEFINE g == [m.registry EXCEPT ![r] = LINK]
             w == <<r>> \o m.unused
  <2>1. m.registry \in Seq(LuaValues) /\ m.unused \in Seq(Int) /\ LINK \in LuaValues
    BY DEF Machines, LuaValues
  <2>2. g \in Seq(LuaValues)
    BY <2>1, SlotSet
  <2>3. w \in Seq(Int)
    BY <2>1
  <2>4. ReferenceFree(m, r) = [m EXCEPT !.registry = g, !.unused = w]
    BY <1>2 DEF ReferenceFree, Machines
  <2> HIDE DEF g, w
  <2> QED BY <2>2, <2>3, <2>4 DEF Machines
<1> QED BY <1>1, <1>2

\* The references held once the first i pairs of the vector are gone.
Left(H, i) == [x \in {y \in DOMAIN H : ~\E k \in 1..i : y = <<"key", k>> \/ y = <<"value", k>>} |-> H[x]]

\* DeleteLuaVector: every pair's references are free, and the others are kept.
LEMMA VectorFreedIs ==
  ASSUME NEW m, NEW objs, NEW nums, NEW vec, InOrder(m, objs, nums, vec)
  PROVE  LET t == VectorFreed(m, vec) IN
         /\ InOrder(t, objs, nums, <<>>) /\ SameButSlots(m, t)
         /\ ValuesOf(t, objs) = ValuesOf(m, objs) /\ NumbersOf(t, nums) = NumbersOf(m, nums)
         /\ PairsOf(t, <<>>) = {}
<1> DEFINE H == HeldBy(objs, nums, vec)
           n == Len(vec)
           Links(f) == f = [k \in 0..Len(vec) |-> IF k = 0 THEN m ELSE FreePair(f[k - 1], vec[k])]
           freed == CHOOSE f : Links(f)
           step == [k \in 1..n |-> [x \in Machines |-> FreePair(x, vec[k])]]
<1>1. VectorFreed(m, vec) = freed[n]
  BY DEF VectorFreed
<1> HIDE DEF freed
<1>2. /\ m \in Machines /\ objs \in [DOMAIN objs -> Int] /\ nums \in Seq(Int)
      /\ vec \in Seq(Int \X Int) /\ Holding(m, H) /\ n \in Nat
  BY DEF InOrder
<1>3. \A k \in 1..n : vec[k][1] \in Int /\ vec[k][2] \in Int
  <2> TAKE k \in 1..n
  <2>1. vec[k] \in Int \X Int
    BY <1>2, ElementOfSeq
  <2> QED BY <2>1
<1>4. step \in [1..n -> [Machines -> Machines]]
  <2>1. ASSUME NEW k \in 1..n, NEW x \in Machines PROVE FreePair(x, vec[k]) \in Machines
    BY <1>3, FreeTyped DEF FreePair
  <2> QED BY <2>1
<1>5. PICK g : MadeUpTo(g, n, Machines, m, step)
  <2> HIDE DEF step, n
  <2> QED BY <1>2, <1>4, RangeRec
<1>6. g \in [0..n -> Machines] /\ g[0] = m /\ \A k \in 1..n : g[k] = step[k][g[k - 1]]
  <2> HIDE DEF step, n
  <2> QED BY <1>5 DEF MadeUpTo
<1>7. ASSUME NEW k \in 1..n PROVE g[k] = FreePair(g[k - 1], vec[k])
  <2>1. k - 1 \in 0..n
    BY <1>2
  <2>2. g[k - 1] \in Machines
    BY <1>6, <2>1
  <2> QED BY <1>6, <2>2
<1> HIDE DEF step
<1>8. Links(g)
  <2>1. g = [k \in 0..n |-> g[k]]
    BY <1>6
  <2>2. \A k \in 0..n : g[k] = IF k = 0 THEN m ELSE FreePair(g[k - 1], vec[k])
    <3> TAKE k \in 0..n
    <3>1. k = 0 \/ k \in 1..n
      BY <1>2
    <3>2. 0 \notin 1..n
      BY <1>2
    <3> HIDE DEF n
    <3> QED BY <1>6, <1>7, <3>1, <3>2
  <2> HIDE DEF n
  <2>3. g = [k \in 0..n |-> IF k = 0 THEN m ELSE FreePair(g[k - 1], vec[k])]
    BY <2>1, <2>2
  <2> QED BY <2>3 DEF n
<1>9. Links(freed)
  BY <1>8 DEF freed
<1> DEFINE T == {i \in 0..n : /\ freed[i] \in Machines /\ SameButSlots(m, freed[i])
                             /\ Holding(freed[i], Left(H, i)) /\ Kept(m, freed[i], Left(H, i))}
<1>10. DOMAIN H = HeldNames(DOMAIN objs, Len(nums), n)
       /\ \A i \in 1..n : /\ <<"key", i>> \in DOMAIN H /\ H[<<"key", i>>] = vec[i][1]
                         /\ <<"value", i>> \in DOMAIN H /\ H[<<"value", i>>] = vec[i][2]
  <2>1. HeldAs(H, objs, nums, vec)
    BY HeldFacts
  <2> HIDE DEF H
  <2> QED BY <2>1 DEF HeldAs
<1>11. 0 \in T
  <2>1. freed[0] = m
    BY <1>2, <1>9
  <2>2. Left(H, 0) = H
    <3>1. 1..0 = {} /\ H = [x \in DOMAIN H |-> H[x]]
      BY DEF HeldBy
    <3> HIDE DEF H
    <3> QED BY <3>1 DEF Left
  <2> HIDE DEF H
  <2> QED BY <1>2, <2>1, <2>2 DEF SameButSlots, Kept, H
<1>12. ASSUME NEW i \in 1..n, i - 1 \in T PROVE i \in T
  <2> DEFINE K == Left(H, i - 1)
             kx == <<"key", i>>
             vx == <<"value", i>>
             a == freed[i - 1]
             b == ReferenceFree(a, vec[i][1])
             c == ReferenceFree(b, vec[i][2])
  <2>1. freed[i] = c
    <3>1. i \in 0..n /\ i # 0
      BY <1>2
    <3> QED BY <1>9, <3>1 DEF FreePair
  <2>2. a \in Machines /\ SameButSlots(m, a) /\ Holding(a, K) /\ Kept(m, a, K)
    BY <1>12
  <2> HIDE DEF a
  <2>3. /\ DOMAIN K = {y \in DOMAIN H : ~\E k \in 1..i - 1 : y = <<"key", k>> \/ y = <<"value", k>>}
        /\ \A y \in DOMAIN K : K[y] = H[y]
    BY DEF Left
  <2>4. i \notin 1..i - 1 /\ 1..i = 1..i - 1 \cup {i}
    BY <1>2
  <2> HIDE DEF K, H, n, freed
  <2>5. /\ kx \in DOMAIN K /\ K[kx] = vec[i][1]
        /\ vx \in DOMAIN K /\ K[vx] = vec[i][2]
    BY <1>10, <2>3, <2>4
  <2>6. /\ b \in Machines /\ SameButSlots(a, b) /\ Holding(b, But(K, kx)) /\ Kept(a, b, But(K, kx))
    BY <1>3, <2>2, <2>5, FreedHolds
  <2>7. /\ DOMAIN But(K, kx) = DOMAIN K \ {kx}
        /\ \A y \in DOMAIN K : y # kx => But(K, kx)[y] = K[y]
    BY ButIs
  <2>8. vx # kx
    OBVIOUS
  <2> HIDE DEF b, kx, vx
  <2>9. vx \in DOMAIN But(K, kx) /\ But(K, kx)[vx] = vec[i][2]
    BY <2>5, <2>7, <2>8
  <2> DEFINE K1 == But(K, kx)
             K2 == But(K1, vx)
  <2>10. /\ c \in Machines /\ SameButSlots(b, c) /\ Holding(c, K2) /\ Kept(b, c, K2)
    BY <1>3, <2>6, <2>9, FreedHolds
  <2>11. /\ DOMAIN K2 = DOMAIN K \ {kx, vx} /\ K2 = [y \in DOMAIN K2 |-> K2[y]]
         /\ \A y \in DOMAIN K2 : K2[y] = K[y] /\ K1[y] = K[y] /\ y \in DOMAIN K1 /\ y \in DOMAIN K
    BY DEF But
  <2> HIDE DEF K1, K2, c
  <2>12. Left(H, i) = K2
    <3>1. DOMAIN Left(H, i) = DOMAIN K2
      BY <2>3, <2>4, <2>11 DEF Left, kx, vx
    <3>2. Left(H, i) = [y \in DOMAIN Left(H, i) |-> H[y]]
      BY DEF Left
    <3>3. \A y \in DOMAIN K2 : K2[y] = H[y]
      BY <2>3, <2>11
    <3> QED BY <2>11, <3>1, <3>2, <3>3
  <2>13. Kept(m, c, K2)
    BY <2>2, <2>6, <2>10, <2>11 DEF Kept, K1
  <2>14. SameButSlots(m, c)
    BY <2>2, <2>6, <2>10 DEF SameButSlots
  <2>15. i \in 0..n
    BY <1>2 DEF n
  <2> QED BY <2>1, <2>10, <2>12, <2>13, <2>14, <2>15
<1> HIDE DEF T
<1>13. n \in T
  <2>1. \A i \in 0..n : i \in T
    BY <1>2, <1>11, <1>12, RangeInduct
  <2> HIDE DEF n
  <2>2. n \in 0..n
    BY <1>2
  <2> QED BY <2>1, <2>2
<1> DEFINE t == freed[n]
           none == <<>>
<1>14. t \in Machines /\ SameButSlots(m, t) /\ Holding(t, Left(H, n)) /\ Kept(m, t, Left(H, n))
  BY <1>13 DEF T
<1>15. Len(none) = 0 /\ none \in Seq(Int \X Int) /\ DOMAIN none = {} /\ 1..0 = {}
  OBVIOUS
<1> HIDE DEF t, none, freed
<1>16. Left(H, n) = HeldBy(objs, nums, none)
  <2> DEFINE F == Left(H, n)
  <2>1. /\ F = [y \in DOMAIN F |-> F[y]] /\ \A y \in DOMAIN F : F[y] = H[y]
        /\ DOMAIN F = {y \in DOMAIN H : ~\E k \in 1..n : y = <<"key", k>> \/ y = <<"value", k>>}
    BY DEF Left
  <2> HIDE DEF F, n
  <2>2. HeldAs(H, objs, nums, vec)
    BY HeldFacts
  <2> HIDE DEF H
  <2>3. /\ \A o \in DOMAIN objs : <<"object", o>> \in DOMAIN H /\ H[<<"object", o>>] = objs[o]
        /\ \A i \in 1..Len(nums) : <<"number", i>> \in DOMAIN H /\ H[<<"number", i>>] = nums[i]
    BY <2>2 DEF HeldAs
  <2>4. DOMAIN F = HeldNames(DOMAIN objs, Len(nums), Len(none))
    BY <1>10, <1>15, <2>1 DEF HeldNames
  <2>5. \A o \in DOMAIN objs : F[<<"object", o>>] = objs[o]
    BY <2>1, <2>3, <1>15, <2>4
  <2>6. \A i \in 1..Len(nums) : F[<<"number", i>>] = nums[i]
    BY <2>1, <2>3
  <2>7. /\ \A i \in 1..Len(none) : F[<<"key", i>>] = none[i][1]
        /\ \A i \in 1..Len(none) : F[<<"value", i>>] = none[i][2]
    BY <1>15
  <2>8. F = HeldBy(objs, nums, none)
    BY <2>1, <2>4, <2>5, <2>6, <2>7, HeldMade
  <2> QED BY <2>8 DEF F
<1> HIDE DEF H, n
<1>17. Holding(t, HeldBy(objs, nums, none)) /\ Kept(m, t, HeldBy(objs, nums, none))
  BY <1>14, <1>16
<1>18. ValuesOf(t, objs) = ValuesOf(m, objs) /\ NumbersOf(t, nums) = NumbersOf(m, nums)
  <2>1. Kept(m, t, HeldBy(objs, nums, none)) /\ none \in Seq(Int \X Int)
    BY <1>15, <1>17
  <2>2. nums \in Seq(Int)
    BY DEF InOrder
  <2> QED BY <2>1, <2>2, KeptMeans
<1>19. PairsOf(t, none) = {}
  BY <1>15 DEF PairsOf, Range
<1> QED BY <1>1, <1>2, <1>14, <1>15, <1>17, <1>18, <1>19 DEF InOrder, t, none

\* A turn of GetMembers: a value's reference, a key's, and the key pushed again.
TurnMade(acc, b, t, k, pairs) ==
  LET b1 == RefTaken(b, b.tables[t][k])
      b2 == RefTaken(b1, k)
  IN MemberTurn(acc, k) = [m |-> LuaPush(LuaPush(b2, t), k),
                           pairs |-> Append(pairs, <<b2.made, b1.made>>)]
KeyTakenWell(b, t, k) ==
  LET b2 == RefTaken(RefTaken(b, b.tables[t][k]), k) IN Referenced(b2, b2.made) = k

LEMMA TurnIs ==
  ASSUME NEW b \in Machines, NEW t \in LuaTables, NEW x \in LuaValues, NEW k \in FieldNames,
         NEW pairs \in Seq(Int \X Int), NEW acc,
         acc = [m |-> LuaPush(LuaPush(b, t), x), pairs |-> pairs],
         KeyTakenWell(b, t, k)
  PROVE  TurnMade(acc, b, t, k, pairs)
<1> DEFINE v == b.tables[t][k]
           b1 == RefTaken(b, v)
           b2 == RefTaken(b1, k)
           p == LuaPush(LuaPush(b, t), x)
           q == LuaPush(b, t)
           p1 == LuaPush(LuaPush(b1, t), k)
           acc1 == [m |-> p1, pairs |-> pairs]
           acc2 == [m |-> LuaPush(b2, t), pairs |-> Append(pairs, <<b1.made, 0>>)]
<1>1. v \in LuaValues /\ t \in LuaValues /\ k \in LuaValues
  BY TableValue
<1> HIDE DEF v
<1>2. b1 \in Machines /\ b1.made \in Int
  BY <1>1, TakenTyped DEF Machines
<1> HIDE DEF b1
<1>3. b2 \in Machines /\ b2.made \in Int
  BY <1>1, <1>2, TakenTyped DEF Machines
<1> HIDE DEF b2
<1>4. LuaPop(p, 1) = q /\ AtTop(p, -2) = t /\ p.tables = b.tables
  <2>1. q \in Machines /\ q.tables = b.tables
    BY <1>1, LuaPushIs
  <2>2. AtTop(p, -2) = t
    BY <1>1, PushTwice
  <2> HIDE DEF q
  <2>3. LuaPop(LuaPush(q, x), 1) = q /\ LuaPush(q, x).tables = q.tables
    BY <2>1, LuaPushIs
  <2> QED BY <2>1, <2>2, <2>3 DEF q
<1>5. q \in Machines
  BY <1>1, LuaPushIs
<1> HIDE DEF p
<1>6. RefTaken(LuaPush(q, k), v) = p1
  <2> HIDE DEF q
  <2>1. RefTaken(LuaPush(q, k), v) = LuaPush(RefTaken(q, v), k)
    BY <1>1, <1>5, TakenUnder
  <2>2. RefTaken(q, v) = LuaPush(b1, t)
    BY <1>1, TakenUnder DEF q, b1
  <2> QED BY <2>1, <2>2
<1> HIDE DEF q, p1
<1>7. ValueTaken(acc, k) = acc1
  <2>1. acc.m = p /\ acc.pairs = pairs
    BY DEF p
  <2>2. ValueTaken(acc, k) = [acc EXCEPT !.m = RefTaken(LuaPush(q, k), v)]
    BY <1>4, <2>1 DEF ValueTaken, RefTaken, v, p
  <2> QED BY <1>6, <2>2
<1>8. RefTaken(LuaPush(b1, t), k) = LuaPush(b2, t)
  BY <1>1, <1>2, TakenUnder DEF b2
<1>9. p1.made = b1.made /\ LuaPush(b1, t) \in Machines
  BY <1>1, <1>2, PushTwice, LuaPushIs DEF p1
<1>10. KeyTaken(acc1) = acc2
  <2>1. ReferenceCreate(p1) = LuaPush(b2, t)
    BY <1>8 DEF p1, RefTaken
  <2>2. KeyTaken(acc1) = [acc1 EXCEPT !.m = ReferenceCreate(p1), !.pairs = Append(pairs, <<p1.made, 0>>)]
    BY DEF KeyTaken
  <2> DEFINE a == Append(pairs, <<b1.made, 0>>)
  <2>3. KeyTaken(acc1) = [acc1 EXCEPT !.m = LuaPush(b2, t), !.pairs = a]
    BY <1>9, <2>1, <2>2
  <2> HIDE DEF a
  <2> QED BY <2>3 DEF a
<1>11. /\ LuaPush(b2, t) \in Machines /\ LuaPush(b2, t).made = b2.made
       /\ Referenced(LuaPush(b2, t), b2.made) = k
  <2>1. LuaPush(b2, t) \in Machines /\ LuaPush(b2, t).made = b2.made /\ SameSlots(b2, LuaPush(b2, t))
    BY <1>1, <1>3, LuaPushIs
  <2>2. Referenced(b2, b2.made) = k
    BY DEF KeyTakenWell, b2, b1, v
  <2> QED BY <2>1, <2>2 DEF SameSlots, Referenced
<1>12. PairMade(acc2) = [m |-> LuaPush(LuaPush(b2, t), k),
                         pairs |-> Append(pairs, <<b2.made, b1.made>>)]
  <2> DEFINE old == <<b1.made, 0>>
             pr == <<b2.made, b1.made>>
             a == Append(pairs, old)
             n == Len(pairs) + 1
             w == LuaPush(b2, t)
  <2>1. old \in Int \X Int /\ pr \in Int \X Int /\ old[1] = b1.made
    BY <1>2, <1>3
  <2>2. acc2.m = w /\ acc2.pairs = a
    OBVIOUS
  <2> HIDE DEF old, pr, acc2, w
  <2>3. /\ a \in Seq(Int \X Int) /\ Len(a) = n /\ a[n] = old
        /\ \A i \in 1..Len(pairs) : a[i] = pairs[i]
    BY <2>1
  <2>4. [a EXCEPT ![n] = pr] = Append(pairs, pr)
    <3> DEFINE c == [a EXCEPT ![n] = pr]
               d == Append(pairs, pr)
    <3>1. /\ c \in Seq(Int \X Int) /\ Len(c) = n
          /\ \A i \in 1..n : c[i] = IF i = n THEN pr ELSE a[i]
      <4> HIDE DEF a
      <4> QED BY <2>1, <2>3, SlotSet
    <3>2. /\ d \in Seq(Int \X Int) /\ Len(d) = n /\ d[n] = pr
          /\ \A i \in 1..Len(pairs) : d[i] = pairs[i]
      BY <2>1
    <3> HIDE DEF c, d, a
    <3>3. \A i \in 1..n : c[i] = d[i]
      <4> TAKE i \in 1..n
      <4>1. i = n \/ i \in 1..Len(pairs)
        OBVIOUS
      <4> QED BY <2>3, <3>1, <3>2, <4>1
    <3>4. c = d
      BY <3>1, <3>2, <3>3, SeqEqual
    <3> QED BY <3>4 DEF c, d
  <2> HIDE DEF a, n
  <2>5. <<w.made, a[n][1]>> = pr
    BY <1>11, <2>1, <2>3 DEF w, pr
  <2>6. PairMade(acc2) = [acc2 EXCEPT !.pairs = [a EXCEPT ![n] = pr], !.m = LuaPush(w, Referenced(w, w.made))]
    <3>1. PairMade(acc2) = [acc2 EXCEPT !.pairs = [a EXCEPT ![n] = <<w.made, a[n][1]>>],
                                        !.m = LuaPush(w, Referenced(w, w.made))]
      BY <2>2, <2>3 DEF PairMade, ReferencePush, acc2
    <3> QED BY <2>5, <3>1
  <2>7. LuaPush(w, Referenced(w, w.made)) = LuaPush(LuaPush(b2, t), k)
    BY <1>11 DEF w
  <2> QED BY <2>4, <2>6, <2>7 DEF acc2, pr
<1> HIDE DEF acc1, acc2
<1>13. MemberTurn(acc, k) = PairMade(acc2)
  BY <1>7, <1>10 DEF MemberTurn
<1> QED BY <1>12, <1>13 DEF TurnMade, b1, b2, v

\* The walk of GetMembers after i turns: the table and a key are on the stack,
\* and the pairs are of the first i keys.
Walked(a, i, m, t, keys, objs, nums) ==
  \E b \in Machines, x \in LuaValues :
    /\ a = [m |-> LuaPush(LuaPush(b, t), x), pairs |-> a.pairs]
    /\ InOrder(b, objs, nums, a.pairs) /\ SameButSlots(m, b)
    /\ ValuesOf(b, objs) = ValuesOf(m, objs) /\ NumbersOf(b, nums) = NumbersOf(m, nums)
    /\ PairsOf(b, a.pairs) = {<<keys[j], m.tables[t][keys[j]]>> : j \in 1..i}

LEMMA TurnWalks ==
  ASSUME NEW m \in Machines, NEW objs, NEW nums, NEW t \in LuaTables, NEW keys \in Seq(FieldNames),
         NEW i \in 1..Len(keys), NEW a, Walked(a, i - 1, m, t, keys, objs, nums)
  PROVE  LET c == MemberTurn(a, keys[i]) IN
         Walked(c, i, m, t, keys, objs, nums) /\ c \in [m : Machines, pairs : Seq(Int \X Int)]
<1> DEFINE k == keys[i]
           v == m.tables[t][k]
<1>1. PICK b \in Machines, x \in LuaValues :
        /\ a = [m |-> LuaPush(LuaPush(b, t), x), pairs |-> a.pairs]
        /\ InOrder(b, objs, nums, a.pairs) /\ SameButSlots(m, b)
        /\ ValuesOf(b, objs) = ValuesOf(m, objs) /\ NumbersOf(b, nums) = NumbersOf(m, nums)
        /\ PairsOf(b, a.pairs) = {<<keys[j], m.tables[t][keys[j]]>> : j \in 1..i - 1}
  BY DEF Walked
<1>2. k \in FieldNames
  BY ElementOfSeq
<1>3. b.tables[t][k] = v /\ v \in LuaValues /\ k \in LuaValues /\ t \in LuaValues
  BY <1>1, <1>2, TableValue DEF SameButSlots
<1> DEFINE pairs == a.pairs
           b1 == RefTaken(b, v)
           b2 == RefTaken(b1, k)
           new == Append(pairs, <<b2.made, b1.made>>)
           c == MemberTurn(a, k)
<1>4. /\ InOrder(b2, objs, nums, new) /\ SameButSlots(b, b2)
      /\ ValuesOf(b2, objs) = ValuesOf(b, objs) /\ NumbersOf(b2, nums) = NumbersOf(b, nums)
      /\ PairsOf(b2, new) = PairsOf(b, pairs) \cup {<<k, v>>}
      /\ Referenced(b2, b2.made) = k
  <2>1. InOrder(b, objs, nums, pairs)
    BY <1>1
  <2>2. k \in LuaValues /\ v \in LuaValues
    BY <1>3
  <2> HIDE DEF k, v, pairs
  <2>3. PairTaken(b, objs, nums, pairs, k, v)
    BY <2>1, <2>2, TakePair
  <2> QED BY <2>3 DEF PairTaken
<1>5. c = [m |-> LuaPush(LuaPush(b2, t), k), pairs |-> new]
  <2>1. pairs \in Seq(Int \X Int)
    BY <1>1 DEF InOrder
  <2>2. a = [m |-> LuaPush(LuaPush(b, t), x), pairs |-> pairs]
    BY <1>1
  <2> HIDE DEF k, v, pairs, c
  <2>3. KeyTakenWell(b, t, k)
    BY <1>3, <1>4 DEF KeyTakenWell
  <2>4. TurnMade(a, b, t, k, pairs)
    BY <1>2, <2>1, <2>2, <2>3, TurnIs
  <2> QED BY <1>3, <2>4 DEF TurnMade, c
<1> HIDE DEF v, b1, b2, new, c, k
<1>6. b2 \in Machines /\ new \in Seq(Int \X Int)
  BY <1>4 DEF InOrder
<1>7. LuaPush(LuaPush(b2, t), k) \in Machines
  BY <1>3, <1>6, PushTwice
<1>8. c.pairs = new /\ c = [m |-> LuaPush(LuaPush(b2, t), k), pairs |-> c.pairs]
      /\ c \in [m : Machines, pairs : Seq(Int \X Int)]
  BY <1>5, <1>6, <1>7
<1>9. PairsOf(b2, c.pairs) = {<<keys[j], m.tables[t][keys[j]]>> : j \in 1..i}
  <2>1. 1..i = 1..i - 1 \cup {i}
    OBVIOUS
  <2>2. {<<keys[j], m.tables[t][keys[j]]>> : j \in 1..i}
          = {<<keys[j], m.tables[t][keys[j]]>> : j \in 1..i - 1} \cup {<<k, v>>}
    BY <2>1 DEF k, v
  <2> QED BY <1>1, <1>4, <1>8, <2>2 DEF pairs
<1>10. SameButSlots(m, b2)
  BY <1>1, <1>4 DEF SameButSlots
<1>11. Walked(c, i, m, t, keys, objs, nums)
  BY <1>1, <1>3, <1>4, <1>6, <1>8, <1>9, <1>10 DEF Walked
<1> QED BY <1>8, <1>11 DEF c, k

\* GetMembers: a pair for every member of the table, whose references are of the
\* key and the value, and the stack as it was.
LEMMA MembersOfIs ==
  ASSUME NEW m, NEW objs, NEW nums, NEW vec, InOrder(m, objs, nums, vec), vec = <<>>,
         NEW r, Referenced(m, r) \in LuaTables
  PROVE  LET got == MembersOf(m, r)
             t == Referenced(m, r) IN
         /\ InOrder(got.m, objs, nums, got.pairs) /\ SameButSlots(m, got.m)
         /\ ValuesOf(got.m, objs) = ValuesOf(m, objs) /\ NumbersOf(got.m, nums) = NumbersOf(m, nums)
         /\ PairsOf(got.m, got.pairs) = {<<k, m.tables[t][k]>> : k \in Entries(t, m.tables)}
<1> DEFINE t == Referenced(m, r)
           keys == SetToSeq(Entries(t, m.tables))
           n == Len(keys)
           base == [m |-> LuaPush(ReferencePush(m, r), NIL), pairs |-> <<>>]
           Links(f) == f = [k \in 0..Len(keys) |->
                              IF k = 0 THEN [m |-> LuaPush(ReferencePush(m, r), NIL), pairs |-> <<>>]
                                       ELSE MemberTurn(f[k - 1], keys[k])]
           walked == CHOOSE f : Links(f)
           V == [m : Machines, pairs : Seq(Int \X Int)]
           W(a, i) == Walked(a, i, m, t, keys, objs, nums)
           step == [k \in 1..n |-> [a \in V |-> IF W(a, k - 1) THEN MemberTurn(a, keys[k]) ELSE a]]
<1>1. m \in Machines /\ t \in LuaTables /\ t \in LuaValues /\ NIL \in LuaValues
  BY DEF InOrder, LuaValues
<1>2. MembersOf(m, r) = [walked[n] EXCEPT !.m = LuaPop(@, 2)]
  BY DEF MembersOf
<1> HIDE DEF walked
<1>3. /\ keys \in Seq(FieldNames) /\ n \in Nat
      /\ \A i \in 1..n : keys[i] \in Entries(t, m.tables)
      /\ \A k \in Entries(t, m.tables) : \E i \in 1..n : keys[i] = k
  <2> DEFINE S == Entries(t, m.tables)
  <2>1. S \subseteq FieldNames
    BY DEF Entries
  <2> HIDE DEF S
  <2>2. IsFiniteSet(S)
    BY <2>1, LuaAssumption, FS_Subset
  <2>3. SetToSeq(S) \in Seq(S) /\ \A x \in S : \E i \in 1..Len(SetToSeq(S)) : SetToSeq(S)[i] = x
    BY <2>2, SetToSeqFacts
  <2>4. \A i \in 1..Len(SetToSeq(S)) : SetToSeq(S)[i] \in S
    BY <2>3, ElementOfSeq
  <2>5. SetToSeq(S) \in Seq(FieldNames) /\ Len(SetToSeq(S)) \in Nat
    BY <2>1, <2>3
  <2> QED BY <2>3, <2>4, <2>5 DEF S
<1> HIDE DEF keys, t
<1>4. W(base, 0) /\ base \in V
  <2>1. base.pairs = <<>> /\ base = [m |-> LuaPush(LuaPush(m, t), NIL), pairs |-> base.pairs]
    BY DEF ReferencePush, t
  <2>2. LuaPush(LuaPush(m, t), NIL) \in Machines
    BY <1>1, PushTwice
  <2>3. <<>> \in Seq(Int \X Int)
    OBVIOUS
  <2>4. base \in V
    BY <2>1, <2>2, <2>3
  <2>5. PairsOf(m, vec) = {<<keys[j], m.tables[t][keys[j]]>> : j \in 1..0}
    BY DEF PairsOf, Range
  <2>6. SameButSlots(m, m)
    BY DEF SameButSlots
  <2> HIDE DEF base
  <2>7. base.pairs = vec
    BY <2>1
  <2> QED BY <1>1, <2>1, <2>4, <2>5, <2>6, <2>7 DEF Walked
<1> HIDE DEF base, V
<1>5. ASSUME NEW i \in 1..n, NEW a, W(a, i - 1)
      PROVE  W(MemberTurn(a, keys[i]), i) /\ MemberTurn(a, keys[i]) \in V
  BY <1>1, <1>3, <1>5, TurnWalks DEF V
<1> HIDE DEF W
<1>6. step \in [1..n -> [V -> V]]
  BY <1>5
<1>7. PICK g : MadeUpTo(g, n, V, base, step)
  <2> HIDE DEF step, n
  <2> QED BY <1>3, <1>4, <1>6, RangeRec
<1>8. g \in [0..n -> V] /\ g[0] = base /\ \A k \in 1..n : g[k] = step[k][g[k - 1]]
  <2> HIDE DEF step, n
  <2> QED BY <1>7 DEF MadeUpTo
<1> DEFINE T == {i \in 0..n : W(g[i], i)}
<1>9. \A i \in 0..n : i \in T
  <2>1. 0 \in T
    BY <1>3, <1>4, <1>8
  <2>2. ASSUME NEW i \in 1..n, i - 1 \in T PROVE i \in T
    <3>1. i \in 0..n /\ i - 1 \in 0..n
      BY <1>3
    <3>2. g[i - 1] \in V /\ W(g[i - 1], i - 1)
      BY <1>8, <2>2, <3>1
    <3>3. g[i] = MemberTurn(g[i - 1], keys[i])
      BY <1>8, <3>2
    <3> HIDE DEF step
    <3>4. W(g[i], i)
      BY <1>5, <3>2, <3>3
    <3> QED BY <3>1, <3>4
  <2> HIDE DEF T
  <2> QED BY <1>3, <2>1, <2>2, RangeInduct
<1>10. ASSUME NEW k \in 1..n PROVE g[k] = MemberTurn(g[k - 1], keys[k])
  <2>1. k - 1 \in 0..n
    BY <1>3
  <2>2. g[k - 1] \in V /\ W(g[k - 1], k - 1)
    BY <1>8, <1>9, <2>1
  <2> QED BY <1>8, <2>2
<1> HIDE DEF step
<1>11. Links(g)
  <2>1. \A k \in 0..n : g[k] = IF k = 0 THEN base ELSE MemberTurn(g[k - 1], keys[k])
    <3> TAKE k \in 0..n
    <3>1. (k = 0 \/ k \in 1..n) /\ 0 \notin 1..n
      BY <1>3
    <3> HIDE DEF n
    <3> QED BY <1>8, <1>10, <3>1
  <2> HIDE DEF n
  <2>2. g = [k \in 0..n |-> IF k = 0 THEN base ELSE MemberTurn(g[k - 1], keys[k])]
    BY <1>8, <2>1
  <2> QED BY <2>2 DEF n, base
<1>12. Links(walked)
  BY <1>11 DEF walked
<1> DEFINE U == {i \in 0..n : W(walked[i], i)}
<1>13. n \in U
  <2>1. walked[0] = base /\ \A i \in 1..n : walked[i] = MemberTurn(walked[i - 1], keys[i])
    <3>1. \A i \in 1..n : i \in 0..n /\ i # 0
      BY <1>3
    <3>2. 0 \in 0..n
      BY <1>3
    <3> QED BY <1>12, <3>1, <3>2 DEF base
  <2>2. 0 \in U
    BY <1>3, <1>4, <2>1
  <2>3. ASSUME NEW i \in 1..n, i - 1 \in U PROVE i \in U
    <3>1. i \in 0..n
      BY <1>3
    <3>2. W(walked[i], i)
      BY <1>5, <2>1, <2>3
    <3> QED BY <3>1, <3>2
  <2> HIDE DEF U
  <2>4. \A i \in 0..n : i \in U
    BY <1>3, <2>2, <2>3, RangeInduct
  <2> HIDE DEF n
  <2>5. n \in 0..n
    BY <1>3
  <2> QED BY <2>4, <2>5
<1> DEFINE a == walked[n]
<1>14. Walked(a, n, m, t, keys, objs, nums)
  BY <1>13 DEF W
<1> HIDE DEF a, n
<1>15. PICK b \in Machines, x \in LuaValues :
         /\ a = [m |-> LuaPush(LuaPush(b, t), x), pairs |-> a.pairs]
         /\ InOrder(b, objs, nums, a.pairs) /\ SameButSlots(m, b)
         /\ ValuesOf(b, objs) = ValuesOf(m, objs) /\ NumbersOf(b, nums) = NumbersOf(m, nums)
         /\ PairsOf(b, a.pairs) = {<<keys[j], m.tables[t][keys[j]]>> : j \in 1..n}
  BY <1>14 DEF Walked
<1>16. MembersOf(m, r).m = b /\ MembersOf(m, r).pairs = a.pairs
  <2>1. LuaPop(LuaPush(LuaPush(b, t), x), 2) = b
    BY <1>1, <1>15, PushTwice
  <2>2. MembersOf(m, r) = [a EXCEPT !.m = LuaPop(@, 2)]
    BY <1>2 DEF a, n
  <2> DEFINE p == LuaPush(LuaPush(b, t), x)
             prs == a.pairs
  <2>3. a = [m |-> p, pairs |-> prs]
    BY <1>15
  <2> HIDE DEF p, prs
  <2>4. MembersOf(m, r) = [m |-> LuaPop(p, 2), pairs |-> prs]
    BY <2>2, <2>3
  <2> QED BY <2>1, <2>4 DEF p, prs
<1>17. {<<keys[j], m.tables[t][keys[j]]>> : j \in 1..n}
         = {<<k, m.tables[t][k]>> : k \in Entries(t, m.tables)}
  <2> DEFINE A == {<<keys[j], m.tables[t][keys[j]]>> : j \in 1..n}
             B == {<<k, m.tables[t][k]>> : k \in Entries(t, m.tables)}
  <2>1. \A j \in 1..n : keys[j] \in Entries(t, m.tables)
    BY <1>3 DEF n
  <2>2. \A k \in Entries(t, m.tables) : \E i \in 1..n : keys[i] = k
    BY <1>3 DEF n
  <2>3. A \subseteq B
    BY <2>1
  <2>4. B \subseteq A
    BY <2>2
  <2> QED BY <2>3, <2>4
<1> QED BY <1>15, <1>16, <1>17 DEF t

----------------------------------------------------------------------------
MeantOf(m, objs, nums, vec) ==
  [stack |-> m.stack, value |-> ValuesOf(m, objs), tables |-> m.tables,
   pairs |-> PairsOf(m, vec), numbers |-> NumbersOf(m, nums)]

\* What the callers mean is what Lua has, and Lua is in order; the interface has
\* its objects, and three of them never change.
ObjectsInv ==
  /\ InOrder(lua, objects, numbers, vector)
  /\ numbers = <<>> \/ Len(numbers) = 1
  /\ Range(Own) \subseteq Live
  /\ meant = MeantOf(lua, objects, numbers, vector)
  /\ meant.value["m_pG"] = Globals /\ meant.value["m_pR"] = "registry" /\ meant.value["m_pE"] = Globals

LEMMA MeantFields ==
  ASSUME NEW m, NEW objs, NEW nums, NEW vec, NEW x, x = MeantOf(m, objs, nums, vec)
  PROVE  /\ x.stack = m.stack /\ x.value = ValuesOf(m, objs) /\ x.tables = m.tables
         /\ x.pairs = PairsOf(m, vec) /\ x.numbers = NumbersOf(m, nums)
BY DEF MeantOf

LEMMA HeldTyped ==
  ASSUME NEW m, NEW objs, NEW nums, NEW vec, InOrder(m, objs, nums, vec)
  PROVE  /\ \A o \in DOMAIN objs : Referenced(m, objs[o]) \in LuaValues
         /\ \A i \in 1..Len(nums) : Referenced(m, nums[i]) \in LuaValues
<1> DEFINE H == HeldBy(objs, nums, vec)
<1>1. HeldAs(H, objs, nums, vec) /\ Holding(m, H) /\ m.registry \in Seq(LuaValues)
  BY HeldFacts DEF InOrder, Machines
<1> HIDE DEF H
<1>2. \A i \in 1..Len(m.registry) : m.registry[i] \in LuaValues
  BY <1>1, ElementOfSeq
<1>3. NIL \in LuaValues
  BY DEF LuaValues
<1>4. \A x \in DOMAIN H : Referenced(m, H[x]) \in LuaValues
  BY <1>1, <1>2, <1>3 DEF Referenced, Holding
<1>5. \A o \in DOMAIN objs : Referenced(m, objs[o]) \in LuaValues
  BY <1>1, <1>4 DEF HeldAs
<1>6. \A i \in 1..Len(nums) : Referenced(m, nums[i]) \in LuaValues
  BY <1>1, <1>4 DEF HeldAs
<1> QED BY <1>5, <1>6

\* A reference is taken of the slots alone.
LEMMA TakenSlots ==
  ASSUME NEW a \in Machines, NEW b \in Machines, SameSlots(a, b), NEW v \in LuaValues
  PROVE  SameSlots(RefTaken(a, v), RefTaken(b, v)) /\ RefTaken(a, v).made = RefTaken(b, v).made
<1> DEFINE g == a.registry
           u == a.unused
<1>1. b.registry = g /\ b.unused = u
  BY DEF SameSlots
<1> HIDE DEF g, u
<1>2. ASSUME NEW m \in Machines, m.registry = g, m.unused = u
      PROVE  /\ RefTaken(m, v).registry = (IF v = NIL THEN g ELSE IF u # <<>>
                                         THEN [g EXCEPT ![Head(u)] = v] ELSE Append(g, v))
             /\ RefTaken(m, v).unused = (IF v = NIL THEN u ELSE IF u # <<>> THEN Tail(u) ELSE u)
             /\ RefTaken(m, v).made = (IF v = NIL THEN REFNIL ELSE IF u # <<>> THEN Head(u) ELSE Len(g) + 1)
  <2>1. CASE v = NIL
    <3>1. RefTaken(m, v) = [m EXCEPT !.made = REFNIL]
      BY <2>1, TakenIs
    <3>2. /\ RefTaken(m, v).registry = m.registry
          /\ RefTaken(m, v).unused = m.unused /\ RefTaken(m, v).made = REFNIL
      BY <3>1 DEF Machines
    <3> QED BY <1>2, <2>1, <3>2
  <2>2. CASE v # NIL /\ u # <<>>
    <3>1. RefTaken(m, v) = [m EXCEPT !.registry = [g EXCEPT ![Head(u)] = v],
                                  !.unused = Tail(u), !.made = Head(u)]
      BY <1>2, <2>2, TakenIs DEF Machines
    <3>2. RefTaken(m, v).registry = [g EXCEPT ![Head(u)] = v]
      BY <3>1 DEF Machines
    <3>3. RefTaken(m, v).unused = Tail(u)
      BY <3>1 DEF Machines
    <3>4. RefTaken(m, v).made = Head(u)
      BY <3>1 DEF Machines
    <3> QED BY <2>2, <3>2, <3>3, <3>4
  <2>3. CASE v # NIL /\ u = <<>>
    <3>1. RefTaken(m, v) = [m EXCEPT !.registry = Append(g, v), !.made = Len(g) + 1]
      BY <1>2, <2>3, TakenIs DEF Machines
    <3>2. RefTaken(m, v).registry = Append(g, v)
      BY <3>1 DEF Machines
    <3>3. RefTaken(m, v).unused = m.unused
      BY <3>1 DEF Machines
    <3>4. RefTaken(m, v).made = Len(g) + 1
      BY <3>1 DEF Machines
    <3> QED BY <1>2, <2>3, <3>2, <3>3, <3>4
  <2> QED BY <2>1, <2>2, <2>3
<1>3. a.registry = g /\ a.unused = u
  BY DEF g, u
<1>4. RefTaken(a, v).registry = RefTaken(b, v).registry
  BY <1>1, <1>2, <1>3
<1>5. RefTaken(a, v).unused = RefTaken(b, v).unused
  BY <1>1, <1>2, <1>3
<1>6. RefTaken(a, v).made = RefTaken(b, v).made
  BY <1>1, <1>2, <1>3
<1> QED BY <1>4, <1>5, <1>6 DEF SameSlots

\* A step that leaves the slots as they were.
LEMMA OnlyStep ==
  ASSUME ObjectsInv, NEW m \in Machines, Only(m), SameSlots(lua, m),
         meant' = [meant EXCEPT !.stack = m.stack, !.tables = m.tables]
  PROVE  ObjectsInv'
<1>1. lua' = m /\ objects' = objects /\ vector' = vector /\ numbers' = numbers
  BY DEF Only
<1>2. /\ InOrder(m, objects, numbers, vector)
      /\ ValuesOf(m, objects) = ValuesOf(lua, objects)
      /\ NumbersOf(m, numbers) = NumbersOf(lua, numbers)
      /\ PairsOf(m, vector) = PairsOf(lua, vector)
  BY SlotsMatter DEF ObjectsInv
<1>3. meant' = MeantOf(m, objects, numbers, vector) /\ meant'.value = meant.value
  <2>1. meant = MeantOf(lua, objects, numbers, vector)
    BY DEF ObjectsInv
  <2> QED BY <1>2, <2>1 DEF MeantOf
<1> QED BY <1>1, <1>2, <1>3 DEF ObjectsInv, Live

\* A new object whose reference is of v.
LEMMA NewObjectStep ==
  ASSUME ObjectsInv, NEW o, NEW m \in Machines, NEW v \in LuaValues, NewObject(o, m),
         SameSlots(RefTaken(lua, v), m), m.made = RefTaken(lua, v).made,
         meant' = [meant EXCEPT !.stack = m.stack, !.tables = m.tables, !.value = Meaning(o, v)]
  PROVE  ObjectsInv'
<1> DEFINE t == RefTaken(lua, v)
           new == Also(objects, o, t.made)
<1>1. /\ o \notin DOMAIN objects /\ lua' = m /\ objects' = new
      /\ vector' = vector /\ numbers' = numbers
  BY DEF NewObject, Live, Also
<1>2. InOrder(lua, objects, numbers, vector) /\ meant = MeantOf(lua, objects, numbers, vector)
  BY DEF ObjectsInv
<1>3. /\ InOrder(t, new, numbers, vector)
      /\ ValuesOf(t, new) = Also(ValuesOf(lua, objects), o, v)
      /\ NumbersOf(t, numbers) = NumbersOf(lua, numbers) /\ PairsOf(t, vector) = PairsOf(lua, vector)
  BY <1>1, <1>2, TakeObject
<1> HIDE DEF t, new
<1>4. /\ InOrder(m, new, numbers, vector)
      /\ ValuesOf(m, new) = ValuesOf(t, new)
      /\ NumbersOf(m, numbers) = NumbersOf(t, numbers) /\ PairsOf(m, vector) = PairsOf(t, vector)
  BY <1>3, SlotsMatter DEF t
<1>5. meant.value = ValuesOf(lua, objects) /\ DOMAIN meant.value = DOMAIN objects
  BY <1>2 DEF MeantOf, ValuesOf
<1>6. Meaning(o, v) = Also(ValuesOf(lua, objects), o, v)
  BY <1>5 DEF Meaning, Also, Live
<1>7. meant' = MeantOf(m, new, numbers, vector)
  BY <1>2, <1>3, <1>4, <1>6 DEF MeantOf
<1>8. DOMAIN new = DOMAIN objects \cup {o}
  BY DEF new, Also
<1>9. /\ meant'.value["m_pG"] = Globals /\ meant'.value["m_pR"] = "registry"
      /\ meant'.value["m_pE"] = Globals
  <2>1. \A x \in DOMAIN objects : meant'.value[x] = meant.value[x]
    <3>1. meant'.value = Also(ValuesOf(lua, objects), o, v)
      <4>1. meant'.value = ValuesOf(m, new)
        <5> DEFINE x == meant'
        <5>1. x = MeantOf(m, new, numbers, vector)
          BY <1>7
        <5> HIDE DEF x
        <5>2. x.value = ValuesOf(m, new)
          BY <5>1, MeantFields
        <5> QED BY <5>2 DEF x
      <4> QED BY <1>3, <1>4, <4>1
    <3> QED BY <1>1, <1>5, <3>1 DEF Also
  <2>2. "m_pG" \in DOMAIN objects /\ "m_pR" \in DOMAIN objects /\ "m_pE" \in DOMAIN objects
    BY OwnFacts DEF ObjectsInv, Live
  <2> QED BY <2>1, <2>2 DEF ObjectsInv
<1> QED BY <1>1, <1>4, <1>7, <1>8, <1>9 DEF ObjectsInv, Live

\* What the invariant says of the state, as the operations use it.
LEMMA InvFacts ==
  ASSUME ObjectsInv
  PROVE  /\ lua \in Machines /\ InOrder(lua, objects, numbers, vector)
         /\ meant.stack = lua.stack /\ meant.tables = lua.tables
         /\ DOMAIN meant.value = Live
         /\ \A o \in Live : /\ meant.value[o] = Referenced(lua, objects[o])
                            /\ Referenced(lua, objects[o]) \in LuaValues /\ objects[o] \in Int
         /\ meant = MeantOf(lua, objects, numbers, vector)
<1>1. InOrder(lua, objects, numbers, vector) /\ meant = MeantOf(lua, objects, numbers, vector)
  BY DEF ObjectsInv
<1>2. lua \in Machines /\ objects \in [Live -> Int]
  BY <1>1 DEF InOrder, Live
<1>3. \A o \in Live : Referenced(lua, objects[o]) \in LuaValues
  BY <1>1, HeldTyped DEF Live
<1>4. meant.value = ValuesOf(lua, objects) /\ meant.stack = lua.stack /\ meant.tables = lua.tables
  BY <1>1 DEF MeantOf
<1> QED BY <1>1, <1>2, <1>3, <1>4 DEF ValuesOf, Live

LEMMA SameStack ==
  ASSUME ObjectsInv, NEW m \in Machines, m.stack = lua.stack, m.tables = lua.tables, NEW val
  PROVE  [meant EXCEPT !.value = val] = [meant EXCEPT !.stack = m.stack, !.tables = m.tables, !.value = val]
<1> DEFINE a == ValuesOf(lua, objects)
           b == PairsOf(lua, vector)
           c == NumbersOf(lua, numbers)
<1>1. meant = [stack |-> m.stack, value |-> a, tables |-> m.tables, pairs |-> b, numbers |-> c]
  <2>1. MeantOf(lua, objects, numbers, vector)
          = [stack |-> m.stack, value |-> a, tables |-> m.tables, pairs |-> b, numbers |-> c]
    BY DEF MeantOf
  <2>2. meant = MeantOf(lua, objects, numbers, vector)
    BY DEF ObjectsInv
  <2> QED BY <2>1, <2>2
<1> DEFINE d == m.stack
           e == m.tables
           after == [stack |-> d, value |-> val, tables |-> e, pairs |-> b, numbers |-> c]
<1>2. meant = [stack |-> d, value |-> a, tables |-> e, pairs |-> b, numbers |-> c]
  BY <1>1
<1> HIDE DEF a, b, c, d, e
<1>3. [meant EXCEPT !.value = val] = after
  BY <1>2
<1>4. [meant EXCEPT !.stack = d, !.tables = e, !.value = val] = after
  <2>1. [meant EXCEPT !.stack = d] = meant
    BY <1>2
  <2>2. [meant EXCEPT !.tables = e] = meant
    BY <1>2
  <2> QED BY <1>3, <2>1, <2>2
<1> QED BY <1>3, <1>4 DEF d, e

LEMMA GetGlobalKeeps ==
  ASSUME ObjectsInv, NEW o, NEW k \in FieldNames, GetGlobal(o, k)
  PROVE  ObjectsInv'
<1> DEFINE v == lua.tables[Globals][k]
           t == RefTaken(lua, v)
<1>1. lua \in Machines /\ meant.tables = lua.tables
  BY InvFacts
<1>2. FieldTaken(LuaPush(lua, Globals), k) = t /\ v \in LuaValues
  BY <1>1, LuaAssumption, FieldTakenIs, TableValue
<1>3. NewObject(o, t) /\ meant' = [meant EXCEPT !.value = Meaning(o, v)]
  BY <1>1, <1>2 DEF GetGlobal
<1>4. t \in Machines /\ t.stack = lua.stack /\ t.tables = lua.tables /\ SameSlots(t, t)
  BY <1>1, <1>2, TakenTyped DEF SameButSlots, SameSlots
<1> HIDE DEF v
<1> QED BY <1>2, <1>3, <1>4, SameStack, NewObjectStep

LEMMA GetMemberKeeps ==
  ASSUME ObjectsInv, NEW o, NEW from, NEW k \in FieldNames, NEW how, GetMember(o, from, k, how)
  PROVE  ObjectsInv'
<1> DEFINE x == Referenced(lua, objects[from])
           v == lua.tables[x][k]
           t == RefTaken(lua, v)
<1>1. from \in Live /\ x \in LuaTables
  BY DEF GetMember, TableHolders
<1>2. lua \in Machines /\ meant.tables = lua.tables /\ meant.value[from] = x
  BY <1>1, InvFacts
<1>3. /\ FieldTaken(ReferencePush(lua, objects[from]), k) = t
      /\ IndexTaken(ReferencePush(lua, objects[from]), k) = t /\ v \in LuaValues
  <2>1. ReferencePush(lua, objects[from]) = LuaPush(lua, x)
    BY DEF ReferencePush
  <2> HIDE DEF x
  <2> QED BY <1>1, <1>2, <2>1, FieldTakenIs, TableValue
<1>4. NewObject(o, t) /\ meant' = [meant EXCEPT !.value = Meaning(o, v)]
  <2> HIDE DEF x
  <2> QED BY <1>2, <1>3 DEF GetMember
<1>5. t \in Machines /\ t.stack = lua.stack /\ t.tables = lua.tables /\ SameSlots(t, t)
  BY <1>2, <1>3, TakenTyped DEF SameButSlots, SameSlots
<1> HIDE DEF v
<1> QED BY <1>3, <1>4, <1>5, SameStack, NewObjectStep

\* Values at the places of the stack.
LEMMA AtTopTyped ==
  ASSUME NEW m \in Machines, NEW i \in {-1, -2}, Len(m.stack) >= -i
  PROVE  AtTop(m, i) \in LuaValues
<1>1. m.stack \in Seq(LuaValues) /\ Len(m.stack) \in Nat
  BY DEF Machines
<1>2. Len(m.stack) + 1 + i \in 1..Len(m.stack)
  BY <1>1
<1> QED BY <1>1, <1>2, ElementOfSeq DEF AtTop

\* A reference of the top of the stack, or of a copy of what is at i.
LEMMA StackTaken ==
  ASSUME NEW m \in Machines, NEW i \in {0, -1, -2}, Len(m.stack) >= (IF i = 0 THEN 1 ELSE -i)
  PROVE  LET s == ReferenceCreate(IF i = 0 THEN m ELSE LuaPush(m, AtTop(m, i)))
             v == m.stack[Len(m.stack) + (IF i = 0 THEN 0 ELSE 1 + i)] IN
         /\ v \in LuaValues /\ s \in Machines
         /\ SameSlots(RefTaken(m, v), s) /\ s.made = RefTaken(m, v).made
         /\ s.stack = (IF i = 0 THEN Front(m.stack) ELSE m.stack)
         /\ s.tables = m.tables /\ s.meta = m.meta
<1>1. CASE i = 0
  <2> DEFINE n == LuaPop(m, 1)
             v == AtTop(m, -1)
             s == RefTaken(n, v)
  <2>1. m.stack # <<>> /\ Len(m.stack) + 0 = Len(m.stack)
    BY <1>1 DEF Machines
  <2>2. /\ n \in Machines /\ v \in LuaValues /\ LuaPush(n, v) = m
        /\ SameSlots(m, n) /\ n.tables = m.tables /\ n.meta = m.meta
        /\ n.stack = Front(m.stack) /\ v = m.stack[Len(m.stack)]
    BY <2>1, TopOf
  <2> HIDE DEF n, v
  <2>3. ReferenceCreate(m) = s
    BY <2>2 DEF RefTaken
  <2>4. s \in Machines /\ SameButSlots(n, s)
    BY <2>2, TakenTyped
  <2>5. SameSlots(RefTaken(m, v), s) /\ s.made = RefTaken(m, v).made
    BY <2>2, TakenSlots
  <2> HIDE DEF s
  <2> QED BY <1>1, <2>1, <2>2, <2>3, <2>4, <2>5 DEF SameButSlots
<1>2. CASE i \in {-1, -2}
  <2> DEFINE v == AtTop(m, i)
             s == RefTaken(m, v)
  <2>1. i # 0 /\ Len(m.stack) >= -i
    BY <1>2
  <2>2. v \in LuaValues /\ v = m.stack[Len(m.stack) + (1 + i)]
    <3>1. Len(m.stack) + 1 + i = Len(m.stack) + (1 + i)
      BY DEF Machines
    <3> QED BY <1>2, <2>1, <3>1, AtTopTyped DEF AtTop
  <2> HIDE DEF v
  <2>3. s \in Machines /\ SameButSlots(m, s) /\ SameSlots(s, s)
    BY <2>2, TakenTyped DEF SameSlots
  <2>4. ReferenceCreate(LuaPush(m, v)) = s
    BY DEF RefTaken
  <2> HIDE DEF s
  <2> QED BY <2>1, <2>2, <2>3, <2>4 DEF SameButSlots, s, v
<1> QED BY <1>1, <1>2

LEMMA GetObjectKeeps ==
  ASSUME ObjectsInv, NEW o, NEW i \in {0, -1, -2}, GetObject(o, i)
  PROVE  ObjectsInv'
<1> DEFINE s == ReferenceCreate(IF i = 0 THEN lua ELSE LuaPush(lua, AtTop(lua, i)))
           v == lua.stack[Len(lua.stack) + (IF i = 0 THEN 0 ELSE 1 + i)]
<1>1. lua \in Machines /\ meant.stack = lua.stack /\ meant.tables = lua.tables
  BY InvFacts
<1>2. /\ v \in LuaValues /\ s \in Machines
      /\ SameSlots(RefTaken(lua, v), s) /\ s.made = RefTaken(lua, v).made
      /\ s.stack = (IF i = 0 THEN Front(lua.stack) ELSE lua.stack)
      /\ s.tables = lua.tables /\ s.meta = lua.meta
  BY <1>1, StackTaken DEF GetObject
<1>3. NewObject(o, s)
  BY DEF GetObject
<1>4. meant' = [meant EXCEPT !.value = Meaning(o, v),
                             !.stack = IF i = 0 THEN Front(meant.stack) ELSE meant.stack]
  BY <1>1 DEF GetObject
<1> HIDE DEF s, v
<1>5. meant' = [meant EXCEPT !.stack = s.stack, !.tables = s.tables, !.value = Meaning(o, v)]
  <2>1. meant = MeantOf(lua, objects, numbers, vector)
    BY DEF ObjectsInv
  <2> QED BY <1>1, <1>2, <1>4, <2>1 DEF MeantOf
<1> QED BY <1>2, <1>3, <1>5, NewObjectStep

MeantAs(s, v, t, p, n) == [stack |-> s, value |-> v, tables |-> t, pairs |-> p, numbers |-> n]

\* What is meant, field by field.
LEMMA MeantWhole ==
  ASSUME ObjectsInv
  PROVE  meant = MeantAs(lua.stack, meant.value, lua.tables, meant.pairs, meant.numbers)
<1> DEFINE x == MeantOf(lua, objects, numbers, vector)
           a == lua.stack
           c == lua.tables
<1>1. meant = x
  BY DEF ObjectsInv
<1>2. x = [stack |-> x.stack, value |-> x.value, tables |-> x.tables,
           pairs |-> x.pairs, numbers |-> x.numbers]
  BY DEF MeantOf
<1>3. x.stack = a /\ x.tables = c
  BY DEF MeantOf
<1> HIDE DEF x, a, c
<1>4. meant = MeantAs(a, meant.value, c, meant.pairs, meant.numbers)
  BY <1>1, <1>2, <1>3 DEF MeantAs
<1> QED BY <1>4 DEF a, c

LEMMA StackEdit ==
  ASSUME NEW a, NEW b, NEW c, NEW d, NEW e, NEW r, r = MeantAs(a, b, c, d, e), NEW s
  PROVE  [r EXCEPT !.stack = s] = MeantAs(s, b, c, d, e)
BY DEF MeantAs

LEMMA ValueEdit ==
  ASSUME NEW a, NEW b, NEW c, NEW d, NEW e, NEW r, r = MeantAs(a, b, c, d, e), NEW v
  PROVE  [r EXCEPT !.value = v] = MeantAs(a, v, c, d, e)
BY DEF MeantAs

LEMMA TablesEdit ==
  ASSUME NEW a, NEW b, NEW c, NEW d, NEW e, NEW r, r = MeantAs(a, b, c, d, e), NEW t
  PROVE  [r EXCEPT !.tables = t] = MeantAs(a, b, t, d, e)
BY DEF MeantAs

LEMMA PairsEdit ==
  ASSUME NEW a, NEW b, NEW c, NEW d, NEW e, NEW r, r = MeantAs(a, b, c, d, e), NEW p
  PROVE  [r EXCEPT !.pairs = p] = MeantAs(a, b, c, p, e)
BY DEF MeantAs

LEMMA NumbersEdit ==
  ASSUME NEW a, NEW b, NEW c, NEW d, NEW e, NEW r, r = MeantAs(a, b, c, d, e), NEW n
  PROVE  [r EXCEPT !.numbers = n] = MeantAs(a, b, c, d, n)
BY DEF MeantAs

LEMMA StackEdited ==
  ASSUME ObjectsInv, NEW s
  PROVE  [meant EXCEPT !.stack = s] = MeantAs(s, meant.value, lua.tables, meant.pairs, meant.numbers)
BY MeantWhole, StackEdit

LEMMA ValueEdited ==
  ASSUME ObjectsInv, NEW v
  PROVE  [meant EXCEPT !.value = v] = MeantAs(lua.stack, v, lua.tables, meant.pairs, meant.numbers)
BY MeantWhole, ValueEdit

LEMMA TablesEdited ==
  ASSUME ObjectsInv, NEW t
  PROVE  [meant EXCEPT !.tables = t] = MeantAs(lua.stack, meant.value, t, meant.pairs, meant.numbers)
BY MeantWhole, TablesEdit

LEMMA PairsEdited ==
  ASSUME ObjectsInv, NEW p
  PROVE  [meant EXCEPT !.pairs = p] = MeantAs(lua.stack, meant.value, lua.tables, p, meant.numbers)
BY MeantWhole, PairsEdit

LEMMA NumbersEdited ==
  ASSUME ObjectsInv, NEW n
  PROVE  [meant EXCEPT !.numbers = n] = MeantAs(lua.stack, meant.value, lua.tables, meant.pairs, n)
BY MeantWhole, NumbersEdit

LEMMA ValueTablesEdited ==
  ASSUME ObjectsInv, NEW v, NEW t
  PROVE  [meant EXCEPT !.value = v, !.tables = t]
           = MeantAs(lua.stack, v, t, meant.pairs, meant.numbers)
<1> DEFINE r == [meant EXCEPT !.value = v]
<1>1. r = MeantAs(lua.stack, v, lua.tables, meant.pairs, meant.numbers)
  BY ValueEdited
<1> HIDE DEF r
<1>2. [r EXCEPT !.tables = t]
        = MeantAs(lua.stack, v, t, meant.pairs, meant.numbers)
  BY <1>1, TablesEdit
<1> QED BY <1>2 DEF r

LEMMA NumbersStackEdited ==
  ASSUME ObjectsInv, NEW n, NEW s
  PROVE  [meant EXCEPT !.numbers = n, !.stack = s]
           = MeantAs(s, meant.value, lua.tables, meant.pairs, n)
<1> DEFINE r == [meant EXCEPT !.numbers = n]
<1>1. r = MeantAs(lua.stack, meant.value, lua.tables, meant.pairs, n)
  BY NumbersEdited
<1> HIDE DEF r
<1>2. [r EXCEPT !.stack = s]
        = MeantAs(s, meant.value, lua.tables, meant.pairs, n)
  BY <1>1, StackEdit
<1> QED BY <1>2 DEF r

LEMMA StackTablesEdited ==
  ASSUME ObjectsInv, NEW s, NEW t
  PROVE  [meant EXCEPT !.stack = s, !.tables = t]
           = MeantAs(s, meant.value, t, meant.pairs, meant.numbers)
<1> DEFINE r == [meant EXCEPT !.stack = s]
<1>1. r = MeantAs(s, meant.value, lua.tables, meant.pairs, meant.numbers)
  BY StackEdited
<1> HIDE DEF r
<1>2. [r EXCEPT !.tables = t]
        = MeantAs(s, meant.value, t, meant.pairs, meant.numbers)
  BY <1>1, TablesEdit
<1> QED BY <1>2 DEF r

LEMMA StackTablesValueEdited ==
  ASSUME ObjectsInv, NEW s, NEW t, NEW v
  PROVE  [meant EXCEPT !.stack = s, !.tables = t, !.value = v]
           = MeantAs(s, v, t, meant.pairs, meant.numbers)
<1> DEFINE r == [meant EXCEPT !.stack = s, !.tables = t]
<1>1. r = MeantAs(s, meant.value, t, meant.pairs, meant.numbers)
  BY StackTablesEdited
<1> HIDE DEF r
<1>2. [r EXCEPT !.value = v]
        = MeantAs(s, v, t, meant.pairs, meant.numbers)
  BY <1>1, ValueEdit
<1> QED BY <1>2 DEF r

\* A table made anew changes the tables alone.
LEMMA MadeIs ==
  ASSUME lua \in Machines, NEW v
  PROVE  /\ Made(v) \in Machines /\ SameSlots(lua, Made(v)) /\ Made(v).stack = lua.stack
         /\ Made(v).tables = Cleared(lua.tables, v)
<1> DEFINE c == Cleared(lua.tables, v)
<1>1. Made(v) = [lua EXCEPT !.tables = c]
  BY DEF Made
<1>2. c \in LuaMembers
  <2>1. NIL \in LuaValues /\ [k \in FieldNames |-> NIL] \in [FieldNames -> LuaValues]
    BY DEF LuaValues
  <2>2. lua.tables \in LuaMembers
    BY DEF Machines
  <2> QED BY <2>1, <2>2 DEF Cleared, LuaMembers
<1> HIDE DEF c
<1> QED BY <1>1, <1>2 DEF Machines, SameSlots, c

LEMMA GetNewKeeps ==
  ASSUME ObjectsInv, NEW o, NEW v \in {NIL} \cup MetaTables \cup Anew, GetNew(o, v)
  PROVE  ObjectsInv'
<1> DEFINE n == Made(v)
           m == RefTaken(n, v)
           val == Meaning(o, v)
<1>1. v \in LuaValues /\ lua \in Machines /\ meant.tables = lua.tables
  BY InvFacts DEF LuaValues, Anew
<1>2. /\ n \in Machines /\ SameSlots(lua, n) /\ n.stack = lua.stack
      /\ n.tables = Cleared(lua.tables, v)
  BY <1>1, MadeIs
<1>3. NewObject(o, m) /\ meant' = [meant EXCEPT !.value = val, !.tables = Cleared(meant.tables, v)]
  BY DEF GetNew, RefTaken
<1> HIDE DEF n
<1>4. m \in Machines /\ m.stack = lua.stack /\ m.tables = Cleared(lua.tables, v)
  BY <1>1, <1>2, TakenTyped DEF SameButSlots
<1>5. SameSlots(RefTaken(lua, v), m) /\ m.made = RefTaken(lua, v).made
  BY <1>1, <1>2, TakenSlots
<1> HIDE DEF m, val
<1>6. meant' = [meant EXCEPT !.value = val, !.tables = m.tables]
  BY <1>1, <1>3, <1>4
<1>7. meant' = [meant EXCEPT !.stack = m.stack, !.tables = m.tables, !.value = val]
  <2>1. meant' = MeantAs(lua.stack, val, m.tables, meant.pairs, meant.numbers)
    BY <1>6, ValueTablesEdited
  <2>2. MeantAs(m.stack, val, m.tables, meant.pairs, meant.numbers)
          = [meant EXCEPT !.stack = m.stack, !.tables = m.tables, !.value = val]
    BY StackTablesValueEdited
  <2> QED BY <1>4, <2>1, <2>2
<1> QED BY <1>1, <1>3, <1>4, <1>5, <1>7, NewObjectStep DEF val

\* Two references pushed, one after the other.
LEMMA PushedTwice ==
  ASSUME NEW m \in Machines, NEW r, NEW q, Referenced(m, r) \in LuaValues
  PROVE  ReferencePush(ReferencePush(m, r), q) = LuaPush(LuaPush(m, Referenced(m, r)), Referenced(m, q))
<1> DEFINE p == LuaPush(m, Referenced(m, r))
<1>1. SameSlots(m, p)
  BY LuaPushIs
<1>2. ReferencePush(m, r) = p
  BY DEF ReferencePush
<1> HIDE DEF p
<1>3. Referenced(p, q) = Referenced(m, q)
  BY <1>1 DEF Referenced, SameSlots
<1> QED BY <1>2, <1>3 DEF ReferencePush, p

\* The userdata's reference, and the metatable's, once the userdata has one.
LEMMA UserdataTaken ==
  ASSUME ObjectsInv, NEW o, o \notin Live, NEW q \in Live
  PROVE  LET t == RefTaken(lua, Userdata)
             b == Referenced(t, objects[q]) IN
         /\ t \in Machines /\ InOrder(t, Also(objects, o, t.made), numbers, vector)
         /\ Referenced(t, t.made) = Userdata /\ Userdata \in LuaValues /\ b \in LuaValues
         /\ t.stack = lua.stack /\ t.tables = lua.tables
         /\ ReferencePush(ReferencePush(t, t.made), objects[q]) = LuaPush(LuaPush(t, Userdata), b)
<1> DEFINE t == RefTaken(lua, Userdata)
           b == Referenced(t, objects[q])
           new == Also(objects, o, t.made)
<1>1. Userdata \in LuaValues /\ lua \in Machines /\ InOrder(lua, objects, numbers, vector)
  BY InvFacts DEF LuaValues
<1>2. /\ InOrder(t, new, numbers, vector) /\ SameButSlots(lua, t)
      /\ ValuesOf(t, new) = Also(ValuesOf(lua, objects), o, Userdata)
  BY <1>1, TakeObject DEF Live
<1>3. t \in Machines /\ t.stack = lua.stack /\ t.tables = lua.tables
  BY <1>1, <1>2, TakenTyped DEF SameButSlots
<1>4. o \in DOMAIN new /\ new[o] = t.made /\ q \in DOMAIN new /\ new[q] = objects[q]
  BY DEF Also, Live
<1> HIDE DEF new
<1>5. Referenced(t, t.made) = Userdata
  <2>1. ValuesOf(t, new)[o] = Referenced(t, new[o])
    BY <1>4 DEF ValuesOf
  <2>2. Also(ValuesOf(lua, objects), o, Userdata)[o] = Userdata
    BY DEF Also
  <2> QED BY <1>2, <1>4, <2>1, <2>2
<1>6. b \in LuaValues
  BY <1>2, <1>4, HeldTyped
<1>7. ReferencePush(ReferencePush(t, t.made), objects[q]) = LuaPush(LuaPush(t, Userdata), b)
  BY <1>1, <1>3, <1>5, PushedTwice
<1> QED BY <1>1, <1>2, <1>3, <1>5, <1>6, <1>7 DEF new

LEMMA NewUserDataKeeps ==
  ASSUME ObjectsInv, NEW o, NEW q, NewUserData(o, q)
  PROVE  ObjectsInv'
<1> DEFINE t == RefTaken(lua, Userdata)
           b == Referenced(t, objects[q])
           n == [t EXCEPT !.meta = b]
           m == [n EXCEPT !.made = t.made]
           val == Meaning(o, Userdata)
<1>1. q \in Live /\ o \notin Live
  BY DEF NewUserData, TableHolders, NewObject
<1>2. /\ t \in Machines /\ Userdata \in LuaValues /\ b \in LuaValues
      /\ t.stack = lua.stack /\ t.tables = lua.tables
      /\ ReferencePush(ReferencePush(t, t.made), objects[q]) = LuaPush(LuaPush(t, Userdata), b)
  BY <1>1, UserdataTaken
<1>3. NewObject(o, [MetaSet(t, t.made, objects[q]) EXCEPT !.made = t.made])
      /\ meant' = [meant EXCEPT !.value = val]
  BY DEF NewUserData, RefTaken
<1> HIDE DEF t, b, val
<1>4. MetaSet(t, t.made, objects[q]) = n
  <2>1. MetaSet(t, t.made, objects[q]) = LuaPop(SetMetaTable2(LuaPush(LuaPush(t, Userdata), b)), 1)
    BY <1>2 DEF MetaSet
  <2> QED BY <1>2, <2>1, MetaSetIs
<1>5. /\ n \in Machines /\ n.stack = t.stack /\ SameSlots(t, n) /\ n.tables = t.tables
      /\ n.made = t.made
  BY <1>2, MetaSetIs
<1> HIDE DEF n
<1>6. m = n
  BY <1>5 DEF Machines
<1>7. NewObject(o, n)
  BY <1>3, <1>4, <1>6
<1>8. meant' = [meant EXCEPT !.stack = n.stack, !.tables = n.tables, !.value = val]
  BY <1>2, <1>3, <1>5, SameStack
<1> QED BY <1>2, <1>5, <1>7, <1>8, NewObjectStep DEF t, val

\* Of any set there is something outside it.
LEMMA Fresh ==
  ASSUME NEW S
  PROVE  \E x : x \notin S
<1> DEFINE x == {y \in S : y \notin y}
<1>1. ASSUME x \in S
      PROVE  FALSE
  <2>1. x \in x <=> x \notin x
    BY <1>1
  <2> QED BY <2>1
<1> QED BY <1>1

\* A step whose state is in order and means what is said of it.
LEMMA ChangedStep ==
  ASSUME ObjectsInv, InOrder(lua', objects', numbers', vector'),
         numbers' = <<>> \/ Len(numbers') = 1, Range(Own) \subseteq DOMAIN objects',
         NEW s, NEW v, NEW t, NEW p, NEW n,
         meant' = MeantAs(s, v, t, p, n), s = lua'.stack, t = lua'.tables,
         v = ValuesOf(lua', objects'), p = PairsOf(lua', vector'), n = NumbersOf(lua', numbers'),
         v["m_pG"] = Globals, v["m_pR"] = "registry", v["m_pE"] = Globals
  PROVE  ObjectsInv'
<1>1. meant' = MeantOf(lua', objects', numbers', vector')
  BY DEF MeantAs, MeantOf
<1>2. meant'.value = v
  <2>1. MeantAs(s, v, t, p, n).value = v
    BY DEF MeantAs
  <2> QED BY <2>1
<1> QED BY <1>1, <1>2 DEF ObjectsInv, Live

LEMMA LuaPushStep ==
  ASSUME ObjectsInv, NEW v \in LuaValues, Only(LuaPush(lua, v)),
         meant' = [meant EXCEPT !.stack = Append(meant.stack, v)]
  PROVE  ObjectsInv'
<1> DEFINE m == LuaPush(lua, v)
<1>1. lua \in Machines /\ meant.stack = lua.stack /\ meant.tables = lua.tables
  BY InvFacts
<1>2. m \in Machines /\ SameSlots(lua, m) /\ m.tables = lua.tables
  BY <1>1, LuaPushIs
<1>3. m.stack = Append(lua.stack, v)
  BY <1>1 DEF LuaPush, Machines
<1>4. Only(m)
  OBVIOUS
<1> HIDE DEF m
<1>5. meant' = [meant EXCEPT !.stack = m.stack]
  BY <1>1, <1>3
<1>6. meant' = [meant EXCEPT !.stack = m.stack, !.tables = m.tables]
  <2>1. meant' = MeantAs(m.stack, meant.value, lua.tables, meant.pairs, meant.numbers)
    BY <1>5, StackEdited
  <2>2. [meant EXCEPT !.stack = m.stack, !.tables = m.tables]
          = MeantAs(m.stack, meant.value, m.tables, meant.pairs, meant.numbers)
    BY StackTablesEdited
  <2> QED BY <1>2, <2>1, <2>2
<1> QED BY <1>2, <1>4, <1>6, OnlyStep

LEMMA TablesStep ==
  ASSUME ObjectsInv, NEW m \in Machines, Only(m), SameSlots(lua, m), m.stack = lua.stack,
         meant' = [meant EXCEPT !.tables = m.tables]
  PROVE  ObjectsInv'
<1>1. meant' = [meant EXCEPT !.stack = m.stack, !.tables = m.tables]
  <2>1. meant' = MeantAs(lua.stack, meant.value, m.tables, meant.pairs, meant.numbers)
    BY TablesEdited
  <2>2. [meant EXCEPT !.stack = m.stack, !.tables = m.tables]
          = MeantAs(m.stack, meant.value, m.tables, meant.pairs, meant.numbers)
    BY StackTablesEdited
  <2> QED BY <2>1, <2>2
<1> QED BY <1>1, OnlyStep

LEMMA SameStep ==
  ASSUME ObjectsInv, Only(lua), UNCHANGED meant
  PROVE  ObjectsInv'
BY DEF ObjectsInv, Only, Live

LEMMA PushUserDataKeeps ==
  ASSUME ObjectsInv, NEW q, PushUserData(q)
  PROVE  ObjectsInv'
<1> DEFINE t == RefTaken(lua, Userdata)
           b == Referenced(t, objects[q])
           n == [t EXCEPT !.meta = b]
           w == LuaPush(n, Userdata)
           f == ReferenceFree(w, t.made)
<1>1. q \in Live
  BY DEF PushUserData, TableHolders
<1>2. PICK o : o \notin Live
  BY Fresh
<1> DEFINE new == Also(objects, o, t.made)
<1>3. /\ t \in Machines /\ Userdata \in LuaValues /\ b \in LuaValues
      /\ t.stack = lua.stack /\ t.tables = lua.tables
      /\ ReferencePush(ReferencePush(t, t.made), objects[q]) = LuaPush(LuaPush(t, Userdata), b)
  BY <1>1, <1>2, UserdataTaken
<1>4. InOrder(lua, objects, numbers, vector) /\ objects \in [Live -> Int] /\ o \notin DOMAIN objects
  BY <1>2, InvFacts DEF InOrder, Live
<1>5. /\ InOrder(t, new, numbers, vector)
      /\ ValuesOf(t, new) = Also(ValuesOf(lua, objects), o, Userdata)
      /\ NumbersOf(t, numbers) = NumbersOf(lua, numbers) /\ PairsOf(t, vector) = PairsOf(lua, vector)
  BY <1>3, <1>4, TakeObject
<1>6. /\ Only(ReferenceFree(SetMetaTable2(ReferencePush(ReferencePush(t, t.made), objects[q])), t.made))
      /\ meant' = [meant EXCEPT !.stack = Append(meant.stack, Userdata)]
  BY DEF PushUserData, RefTaken
<1> HIDE DEF t, b
<1>7. SetMetaTable2(LuaPush(LuaPush(t, Userdata), b)) = w
  BY <1>3, MetaSetIs
<1>8. n \in Machines /\ n.stack = t.stack /\ SameSlots(t, n) /\ n.tables = t.tables
  BY <1>3, MetaSetIs
<1> HIDE DEF n
<1>9. w \in Machines /\ SameSlots(n, w) /\ w.tables = n.tables
  BY <1>3, <1>8, LuaPushIs
<1>10. w.stack = Append(lua.stack, Userdata) /\ w.tables = lua.tables /\ SameSlots(t, w)
  BY <1>3, <1>8, <1>9 DEF LuaPush, Machines, SameSlots
<1>11. Only(f)
  BY <1>3, <1>6, <1>7
<1>12. new[o] = t.made /\ o \in DOMAIN new /\ But(new, o) = objects
  BY <1>2, <1>4 DEF Also, But, Live
<1> HIDE DEF w, new
<1>13. /\ InOrder(w, new, numbers, vector) /\ ValuesOf(w, new) = ValuesOf(t, new)
       /\ NumbersOf(w, numbers) = NumbersOf(t, numbers) /\ PairsOf(w, vector) = PairsOf(t, vector)
  BY <1>5, <1>9, <1>10, SlotsMatter
<1>14. /\ InOrder(f, objects, numbers, vector) /\ SameButSlots(w, f)
       /\ ValuesOf(f, objects) = But(ValuesOf(w, new), o)
       /\ NumbersOf(f, numbers) = NumbersOf(w, numbers) /\ PairsOf(f, vector) = PairsOf(w, vector)
  BY <1>12, <1>13, FreeObject
<1> HIDE DEF f
<1>15. But(Also(ValuesOf(lua, objects), o, Userdata), o) = ValuesOf(lua, objects)
  BY <1>4 DEF Also, But, ValuesOf
<1>16. /\ ValuesOf(f, objects) = ValuesOf(lua, objects)
       /\ NumbersOf(f, numbers) = NumbersOf(lua, numbers) /\ PairsOf(f, vector) = PairsOf(lua, vector)
       /\ f.stack = Append(lua.stack, Userdata) /\ f.tables = lua.tables
  BY <1>5, <1>10, <1>13, <1>14, <1>15 DEF SameButSlots
<1>17. /\ meant.value = ValuesOf(lua, objects) /\ meant.pairs = PairsOf(lua, vector)
       /\ meant.numbers = NumbersOf(lua, numbers) /\ meant.stack = lua.stack
  <2>1. meant = MeantOf(lua, objects, numbers, vector)
    BY InvFacts
  <2> QED BY <2>1, MeantFields
<1>18. meant' = MeantAs(f.stack, meant.value, f.tables, meant.pairs, meant.numbers)
  <2> DEFINE s == Append(lua.stack, Userdata)
  <2>1. meant' = [meant EXCEPT !.stack = s]
    BY <1>6, <1>17
  <2>2. f.stack = s /\ f.tables = lua.tables
    BY <1>16
  <2> HIDE DEF s
  <2>3. [meant EXCEPT !.stack = s] = MeantAs(s, meant.value, lua.tables, meant.pairs, meant.numbers)
    BY StackEdited
  <2> QED BY <2>1, <2>2, <2>3
<1>19. lua' = f /\ objects' = objects /\ numbers' = numbers /\ vector' = vector
  BY <1>11 DEF Only
<1>20. /\ numbers = <<>> \/ Len(numbers) = 1
       /\ Range(Own) \subseteq DOMAIN objects
       /\ meant.value["m_pG"] = Globals /\ meant.value["m_pR"] = "registry"
       /\ meant.value["m_pE"] = Globals
  BY DEF ObjectsInv, Live
<1>21. /\ InOrder(lua', objects', numbers', vector') /\ meant.value = ValuesOf(lua', objects')
       /\ meant.pairs = PairsOf(lua', vector') /\ meant.numbers = NumbersOf(lua', numbers')
       /\ f.stack = lua'.stack /\ f.tables = lua'.tables
  BY <1>14, <1>16, <1>17, <1>19
<1>22. (numbers' = <<>> \/ Len(numbers') = 1) /\ Range(Own) \subseteq DOMAIN objects'
  BY <1>19, <1>20
<1> QED BY <1>18, <1>20, <1>21, <1>22, ChangedStep

LEMMA GetMetaTableKeeps ==
  ASSUME ObjectsInv, NEW o, GetMetaTable(o)
  PROVE  ObjectsInv'
<1> DEFINE v == lua.meta
           t == RefTaken(lua, v)
<1>1. lua \in Machines /\ v \in LuaValues
  <2>1. lua \in Machines
    BY InvFacts
  <2> QED BY <2>1 DEF Machines
<1>2. NewObject(o, t) /\ meant' = [meant EXCEPT !.value = Meaning(o, v)]
  BY DEF GetMetaTable, RefTaken
<1>3. t \in Machines /\ t.stack = lua.stack /\ t.tables = lua.tables /\ SameSlots(t, t)
  BY <1>1, TakenTyped DEF SameButSlots, SameSlots
<1> HIDE DEF v
<1> QED BY <1>1, <1>2, <1>3, SameStack, NewObjectStep

LEMMA SetGlobalKeeps ==
  ASSUME ObjectsInv, NEW k \in FieldNames, NEW v \in Scalars \cup {NIL} \cup Anew, SetGlobal(k, v)
  PROVE  ObjectsInv'
<1> DEFINE n == Made(v)
           c == Cleared(lua.tables, v)
           m == SetGlobalTo(n, k, v)
<1>1. v \in LuaValues /\ lua \in Machines /\ meant.tables = lua.tables
  BY InvFacts DEF LuaValues, Anew
<1>2. n \in Machines /\ SameSlots(lua, n) /\ n.stack = lua.stack /\ n.tables = c
  BY <1>1, MadeIs
<1>3. Only(m) /\ meant' = [meant EXCEPT !.tables = [c EXCEPT ![Globals][k] = v]]
  BY <1>1 DEF SetGlobal
<1> HIDE DEF n, c
<1>4. /\ m \in Machines /\ m.stack = n.stack /\ SameSlots(n, m)
      /\ m.tables = [n.tables EXCEPT ![Globals][k] = v]
  BY <1>1, <1>2, LuaAssumption, PushSetIs DEF SetGlobalTo
<1> HIDE DEF m
<1>5. SameSlots(lua, m) /\ m.stack = lua.stack /\ meant' = [meant EXCEPT !.tables = m.tables]
  BY <1>2, <1>3, <1>4 DEF SameSlots
<1> QED BY <1>3, <1>4, <1>5, TablesStep

LEMMA SetMemberKeeps ==
  ASSUME ObjectsInv, NEW o, NEW k \in FieldNames, NEW v \in LuaValues, SetMember(o, k, v)
  PROVE  ObjectsInv'
<1> DEFINE x == Referenced(lua, objects[o])
           m == PushSet(lua, objects[o], k, v)
<1>1. o \in Live /\ x \in LuaTables
  BY DEF SetMember, TableHolders
<1>2. lua \in Machines /\ meant.tables = lua.tables /\ meant.value[o] = x
  BY <1>1, InvFacts
<1>3. Only(m) /\ meant' = [meant EXCEPT !.tables = [lua.tables EXCEPT ![x][k] = v]]
  <2> HIDE DEF x, m
  <2>1. Only(m) /\ meant' = [meant EXCEPT !.tables = [meant.tables EXCEPT ![meant.value[o]][k] = v]]
    BY DEF SetMember, m
  <2> QED BY <1>2, <2>1
<1>4. ReferencePush(lua, objects[o]) = LuaPush(lua, x)
  BY DEF ReferencePush
<1> HIDE DEF x
<1>5. /\ m \in Machines /\ m.stack = lua.stack /\ SameSlots(lua, m)
      /\ m.tables = [lua.tables EXCEPT ![x][k] = v]
  BY <1>1, <1>2, <1>4, PushSetIs DEF PushSet
<1> HIDE DEF m
<1>6. meant' = [meant EXCEPT !.tables = m.tables]
  BY <1>3, <1>5
<1> QED BY <1>3, <1>5, <1>6, TablesStep

LEMMA AskKeeps ==
  ASSUME ObjectsInv, NEW o \in Live, NEW k \in FieldNames, Ask(o, k)
  PROVE  ObjectsInv'
<1> DEFINE x == Referenced(lua, objects[o])
           r == objects[o]
<1>1. lua \in Machines /\ x \in LuaValues
  BY InvFacts
<1>2. ReferencePush(lua, r) = LuaPush(lua, x)
  BY DEF ReferencePush
<1> HIDE DEF x, r
<1>3. CASE isType(o)
  <2>1. Inspected(lua, r) = lua
    BY <1>1, <1>2, LuaPushIs DEF Inspected
  <2> QED BY <1>3, <2>1, SameStep DEF isType, Ask, r
<1>4. CASE o \in TableHolders /\ Only(InspectedField(lua, r, k))
  <2>1. x \in LuaTables
    BY <1>4 DEF TableHolders, x, r
  <2> DEFINE v == lua.tables[x][k]
  <2>2. v \in LuaValues
    BY <1>1, <2>1, TableValue
  <2>3. GetField(LuaPush(lua, x), k) = LuaPush(LuaPush(lua, x), v)
    BY <1>1, LuaPushIs DEF GetField
  <2> HIDE DEF v
  <2>4. InspectedField(lua, r, k) = lua
    BY <1>1, <1>2, <2>2, <2>3, PushTwice DEF InspectedField
  <2> QED BY <1>4, <2>4, SameStep DEF Ask
<1> QED BY <1>3, <1>4 DEF Ask, r

LEMMA PushObjectKeeps ==
  ASSUME ObjectsInv, NEW o \in Live, PushObject(o)
  PROVE  ObjectsInv'
<1> DEFINE x == Referenced(lua, objects[o])
<1>1. x \in LuaValues /\ meant.value[o] = x
  BY InvFacts
<1>2. Only(LuaPush(lua, x)) /\ meant' = [meant EXCEPT !.stack = Append(meant.stack, meant.value[o])]
  BY DEF PushObject, ReferencePush
<1> HIDE DEF x
<1>3. meant' = [meant EXCEPT !.stack = Append(meant.stack, x)]
  BY <1>1, <1>2
<1> QED BY <1>1, <1>2, <1>3, LuaPushStep

LEMMA PushValueKeeps ==
  ASSUME ObjectsInv, NEW v \in Scalars, PushValue(v)
  PROVE  ObjectsInv'
<1>1. v \in LuaValues
  BY DEF LuaValues
<1> QED BY <1>1, LuaPushStep DEF PushValue

LEMMA CallKeeps ==
  ASSUME ObjectsInv, NEW args \in 1..2, NEW returns \in {<<>>} \cup {<<v>> : v \in Scalars},
         Call(args, returns)
  PROVE  ObjectsInv'
<1> DEFINE s == SubSeq(lua.stack, 1, Len(lua.stack) - args) \o returns
           m == [lua EXCEPT !.stack = s]
<1>1. lua \in Machines /\ meant.stack = lua.stack
  BY InvFacts
<1>2. LuaPop(lua, args).stack = SubSeq(lua.stack, 1, Len(lua.stack) - args)
  BY <1>1 DEF LuaPop, Machines
<1>3. Only(m) /\ meant' = [meant EXCEPT !.stack = s]
  BY <1>1, <1>2 DEF Call
<1>4. s \in Seq(LuaValues)
  <2>1. returns \in Seq(LuaValues)
    <3>1. Scalars \subseteq LuaValues
      BY DEF LuaValues
    <3>2. CASE returns = <<>>
      BY <3>2
    <3>3. CASE \E v \in Scalars : returns = <<v>>
      BY <3>1, <3>3
    <3> QED BY <3>2, <3>3
  <2>2. lua.stack \in Seq(LuaValues) /\ Len(lua.stack) \in Nat /\ Len(lua.stack) - args \in Int
    BY <1>1 DEF Machines
  <2>3. Len(lua.stack) - args <= Len(lua.stack) /\ Len(lua.stack) >= args
    BY <2>2 DEF Call
  <2>4. SubSeq(lua.stack, 1, Len(lua.stack) - args) \in Seq(LuaValues)
    BY <2>2, <2>3
  <2> QED BY <2>1, <2>4
<1> HIDE DEF s
<1>5. m \in Machines /\ SameSlots(lua, m) /\ m.stack = s /\ m.tables = lua.tables
  BY <1>1, <1>4 DEF Machines, SameSlots
<1> HIDE DEF m
<1>6. meant' = [meant EXCEPT !.stack = m.stack, !.tables = m.tables]
  <2>1. meant' = MeantAs(s, meant.value, lua.tables, meant.pairs, meant.numbers)
    BY <1>3, StackEdited
  <2>2. [meant EXCEPT !.stack = m.stack, !.tables = m.tables]
          = MeantAs(m.stack, meant.value, m.tables, meant.pairs, meant.numbers)
    BY StackTablesEdited
  <2> QED BY <1>5, <2>1, <2>2
<1> QED BY <1>3, <1>5, <1>6, OnlyStep

LEMMA ErrorNoHaltKeeps ==
  ASSUME ObjectsInv, NEW text \in Scalars, ErrorNoHalt(text)
  PROVE  ObjectsInv'
<1> DEFINE x == Referenced(lua, objects["m_pErrorNoHalt"])
<1>1. "m_pErrorNoHalt" \in Live
  BY OwnFacts DEF ObjectsInv
<1>2. lua \in Machines /\ x \in LuaValues /\ text \in LuaValues
  BY <1>1, InvFacts DEF LuaValues
<1>3. Only(LuaPop(LuaPush(LuaPush(lua, x), text), 2)) /\ UNCHANGED meant
  BY DEF ErrorNoHalt, ReferencePush
<1> HIDE DEF x
<1>4. LuaPop(LuaPush(LuaPush(lua, x), text), 2) = lua
  BY <1>2, PushTwice
<1> QED BY <1>3, <1>4, SameStep

LEMMA MeantIs ==
  ASSUME ObjectsInv
  PROVE  /\ meant.value = ValuesOf(lua, objects) /\ meant.pairs = PairsOf(lua, vector)
         /\ meant.numbers = NumbersOf(lua, numbers) /\ meant.stack = lua.stack
         /\ meant.tables = lua.tables
         /\ numbers = <<>> \/ Len(numbers) = 1
         /\ Range(Own) \subseteq DOMAIN objects
         /\ meant.value["m_pG"] = Globals /\ meant.value["m_pR"] = "registry"
         /\ meant.value["m_pE"] = Globals
<1>1. meant = MeantOf(lua, objects, numbers, vector)
  BY InvFacts
<1>2. /\ meant.value = ValuesOf(lua, objects) /\ meant.pairs = PairsOf(lua, vector)
      /\ meant.numbers = NumbersOf(lua, numbers) /\ meant.stack = lua.stack
      /\ meant.tables = lua.tables
  BY <1>1, MeantFields
<1> QED BY <1>2 DEF ObjectsInv, Live

LEMMA GetReferenceKeeps ==
  ASSUME ObjectsInv, NEW i \in {0, -1}, GetReference(i)
  PROVE  ObjectsInv'
<1> DEFINE s == ReferenceCreate(IF i = 0 THEN lua ELSE LuaPush(lua, AtTop(lua, i)))
           v == lua.stack[Len(lua.stack) + (IF i = 0 THEN 0 ELSE 1 + i)]
           t == RefTaken(lua, v)
           one == <<t.made>>
<1>1. lua \in Machines /\ InOrder(lua, objects, numbers, vector) /\ numbers = <<>>
  BY InvFacts DEF GetReference
<1>2. /\ v \in LuaValues /\ s \in Machines
      /\ SameSlots(t, s) /\ s.made = t.made
      /\ s.stack = (IF i = 0 THEN Front(lua.stack) ELSE lua.stack)
      /\ s.tables = lua.tables
  BY <1>1, StackTaken DEF GetReference
<1>3. /\ lua' = s /\ numbers' = <<s.made>> /\ objects' = objects /\ vector' = vector
      /\ meant' = [meant EXCEPT !.numbers = <<v>>,
                                !.stack = IF i = 0 THEN Front(meant.stack) ELSE meant.stack]
  BY MeantIs DEF GetReference
<1> HIDE DEF s, v
<1>4. /\ InOrder(t, objects, one, vector)
      /\ ValuesOf(t, objects) = ValuesOf(lua, objects)
      /\ NumbersOf(t, one) = <<v>> /\ PairsOf(t, vector) = PairsOf(lua, vector)
  BY <1>1, <1>2, TakeNumber
<1>5. numbers' = one
  BY <1>2, <1>3
<1> HIDE DEF t, one
<1>6. /\ InOrder(s, objects, one, vector)
      /\ ValuesOf(s, objects) = ValuesOf(t, objects)
      /\ NumbersOf(s, one) = NumbersOf(t, one) /\ PairsOf(s, vector) = PairsOf(t, vector)
  BY <1>2, <1>4, SlotsMatter
<1>7. meant' = MeantAs(s.stack, meant.value, s.tables, meant.pairs, <<v>>)
  <2>1. meant' = [meant EXCEPT !.numbers = <<v>>, !.stack = s.stack]
    BY <1>2, <1>3, MeantIs
  <2>2. [meant EXCEPT !.numbers = <<v>>, !.stack = s.stack]
          = MeantAs(s.stack, meant.value, lua.tables, meant.pairs, <<v>>)
    BY NumbersStackEdited
  <2> QED BY <1>2, <2>1, <2>2
<1>8. /\ InOrder(lua', objects', numbers', vector')
      /\ meant.value = ValuesOf(lua', objects') /\ meant.pairs = PairsOf(lua', vector')
      /\ <<v>> = NumbersOf(lua', numbers') /\ s.stack = lua'.stack /\ s.tables = lua'.tables
  BY <1>3, <1>4, <1>5, <1>6, MeantIs
<1>9. Len(numbers') = 1
  BY <1>3
<1>10. Range(Own) \subseteq DOMAIN objects'
  BY <1>3, MeantIs
<1> QED BY <1>7, <1>8, <1>9, <1>10, MeantIs, ChangedStep

LEMMA PushReferenceKeeps ==
  ASSUME ObjectsInv, PushReference
  PROVE  ObjectsInv'
<1> DEFINE v == Referenced(lua, numbers[1])
<1>1. InOrder(lua, objects, numbers, vector) /\ Len(numbers) = 1
  BY InvFacts, MeantIs DEF PushReference
<1>2. v \in LuaValues
  BY <1>1, HeldTyped
<1>3. meant.numbers[1] = v
  <2>1. 1 \in DOMAIN numbers
    BY <1>1 DEF InOrder
  <2> QED BY <2>1, MeantIs DEF NumbersOf
<1>4. Only(LuaPush(lua, v)) /\ meant' = [meant EXCEPT !.stack = Append(meant.stack, v)]
  BY <1>3 DEF PushReference, ReferencePush
<1> QED BY <1>2, <1>4, LuaPushStep

LEMMA FreeReferenceKeeps ==
  ASSUME ObjectsInv, FreeReference
  PROVE  ObjectsInv'
<1> DEFINE m == ReferenceFree(lua, numbers[1])
<1>1. InOrder(lua, objects, numbers, vector) /\ Len(numbers) = 1
  BY InvFacts, MeantIs DEF FreeReference
<1>2. /\ InOrder(m, objects, <<>>, vector) /\ SameButSlots(lua, m)
      /\ ValuesOf(m, objects) = ValuesOf(lua, objects)
      /\ NumbersOf(m, <<>>) = <<>> /\ PairsOf(m, vector) = PairsOf(lua, vector)
  BY <1>1, FreeNumber
<1>3. /\ lua' = m /\ numbers' = <<>> /\ objects' = objects /\ vector' = vector
      /\ meant' = [meant EXCEPT !.numbers = <<>>]
  BY DEF FreeReference
<1> HIDE DEF m
<1>4. m.stack = lua.stack /\ m.tables = lua.tables
  BY <1>2 DEF SameButSlots
<1>5. meant' = MeantAs(m.stack, meant.value, m.tables, meant.pairs, <<>>)
  BY <1>3, <1>4, NumbersEdited
<1>6. /\ InOrder(lua', objects', numbers', vector')
      /\ meant.value = ValuesOf(lua', objects') /\ meant.pairs = PairsOf(lua', vector')
      /\ <<>> = NumbersOf(lua', numbers') /\ m.stack = lua'.stack /\ m.tables = lua'.tables
  BY <1>2, <1>3, MeantIs
<1>7. Range(Own) \subseteq DOMAIN objects' /\ numbers' = <<>>
  BY <1>3, MeantIs
<1> QED BY <1>5, <1>6, <1>7, MeantIs, ChangedStep

\* The objects of the interface mean what they did where the others change.
LEMMA OwnKept ==
  ASSUME ObjectsInv, NEW o, o \notin Range(Own), NEW v,
         \A x \in Range(Own) : v[x] = meant.value[x]
  PROVE  v["m_pG"] = Globals /\ v["m_pR"] = "registry" /\ v["m_pE"] = Globals
<1>1. "m_pG" \in Range(Own) /\ "m_pR" \in Range(Own) /\ "m_pE" \in Range(Own)
  BY OwnFacts
<1> QED BY <1>1, MeantIs

LEMMA UnReferenceKeeps ==
  ASSUME ObjectsInv, NEW o, UnReference(o)
  PROVE  ObjectsInv'
<1> DEFINE m == ReferenceFree(lua, objects[o])
           new == But(objects, o)
           val == But(meant.value, o)
<1>1. InOrder(lua, objects, numbers, vector) /\ o \in DOMAIN objects /\ o \notin Range(Own)
  BY InvFacts DEF UnReference, Live
<1>2. /\ InOrder(m, new, numbers, vector) /\ SameButSlots(lua, m)
      /\ ValuesOf(m, new) = But(ValuesOf(lua, objects), o)
      /\ NumbersOf(m, numbers) = NumbersOf(lua, numbers) /\ PairsOf(m, vector) = PairsOf(lua, vector)
  BY <1>1, FreeObject
<1>3. DOMAIN meant.value = Live
  BY InvFacts
<1>4. /\ lua' = m /\ objects' = new /\ numbers' = numbers /\ vector' = vector
      /\ meant' = [meant EXCEPT !.value = val]
  BY <1>3 DEF UnReference, But, Live
<1>5. DOMAIN new = DOMAIN objects \ {o} /\ \A x \in Range(Own) : val[x] = meant.value[x]
  BY <1>1, <1>3, MeantIs DEF But, Live
<1> HIDE DEF m, new, val
<1>6. m.stack = lua.stack /\ m.tables = lua.tables
  BY <1>2 DEF SameButSlots
<1>7. meant' = MeantAs(m.stack, val, m.tables, meant.pairs, meant.numbers)
  BY <1>4, <1>6, ValueEdited
<1>8. /\ InOrder(lua', objects', numbers', vector')
      /\ val = ValuesOf(lua', objects') /\ meant.pairs = PairsOf(lua', vector')
      /\ meant.numbers = NumbersOf(lua', numbers') /\ m.stack = lua'.stack /\ m.tables = lua'.tables
  BY <1>2, <1>4, MeantIs DEF val
<1>9. Range(Own) \subseteq DOMAIN objects' /\ (numbers' = <<>> \/ Len(numbers') = 1)
  BY <1>1, <1>4, <1>5, MeantIs
<1>10. val["m_pG"] = Globals /\ val["m_pR"] = "registry" /\ val["m_pE"] = Globals
  BY <1>1, <1>5, OwnKept
<1> QED BY <1>7, <1>8, <1>9, <1>10, ChangedStep

\* An object's reference is given up, and another taken for it.
LEMMA ReplaceStep ==
  ASSUME ObjectsInv, NEW o \in Live \ Range(Own), NEW v \in LuaValues,
         lua' = RefTaken(ReferenceFree(lua, objects[o]), v),
         objects' = [objects EXCEPT ![o] = lua'.made], UNCHANGED <<vector, numbers>>,
         meant' = [meant EXCEPT !.value = [meant.value EXCEPT ![o] = v]]
  PROVE  ObjectsInv'
<1> DEFINE f == ReferenceFree(lua, objects[o])
           m == RefTaken(f, v)
           less == But(objects, o)
           new == Also(less, o, m.made)
           val == [meant.value EXCEPT ![o] = v]
<1>1. InOrder(lua, objects, numbers, vector) /\ o \in DOMAIN objects /\ o \notin Range(Own)
  BY InvFacts DEF Live
<1>2. /\ InOrder(f, less, numbers, vector) /\ SameButSlots(lua, f)
      /\ ValuesOf(f, less) = But(ValuesOf(lua, objects), o)
      /\ NumbersOf(f, numbers) = NumbersOf(lua, numbers) /\ PairsOf(f, vector) = PairsOf(lua, vector)
  BY <1>1, FreeObject
<1>3. o \notin DOMAIN less
  BY DEF But
<1> HIDE DEF f, less
<1>4. /\ InOrder(m, new, numbers, vector) /\ SameButSlots(f, m)
      /\ ValuesOf(m, new) = Also(ValuesOf(f, less), o, v)
      /\ NumbersOf(m, numbers) = NumbersOf(f, numbers) /\ PairsOf(m, vector) = PairsOf(f, vector)
  BY <1>2, <1>3, TakeObject
<1>5. DOMAIN meant.value = Live /\ meant.value = ValuesOf(lua, objects)
  BY InvFacts, MeantIs
<1>6. lua' = m /\ numbers' = numbers /\ vector' = vector /\ meant' = [meant EXCEPT !.value = val]
  BY DEF f
<1>7. objects' = new
  <2>1. objects \in [DOMAIN objects -> Int]
    BY <1>1 DEF InOrder
  <2> QED BY <1>1, <1>6, <2>1 DEF Also, But, less
<1>8. val = Also(But(ValuesOf(lua, objects), o), o, v)
  <2>1. o \in DOMAIN ValuesOf(lua, objects)
    BY <1>1 DEF ValuesOf
  <2>2. val = [x \in DOMAIN ValuesOf(lua, objects) |-> IF x = o THEN v ELSE ValuesOf(lua, objects)[x]]
    BY <1>5
  <2> QED BY <2>1, <2>2 DEF Also, But
<1>9. DOMAIN new = DOMAIN objects /\ \A x \in Range(Own) : val[x] = meant.value[x]
  BY <1>1, <1>5, MeantIs DEF Also, But, Live, less
<1> HIDE DEF m, new, val
<1>10. m.stack = lua.stack /\ m.tables = lua.tables
  BY <1>2, <1>4 DEF SameButSlots
<1>11. meant' = MeantAs(m.stack, val, m.tables, meant.pairs, meant.numbers)
  BY <1>6, <1>10, ValueEdited
<1>12. /\ InOrder(lua', objects', numbers', vector')
       /\ val = ValuesOf(lua', objects') /\ meant.pairs = PairsOf(lua', vector')
       /\ meant.numbers = NumbersOf(lua', numbers') /\ m.stack = lua'.stack /\ m.tables = lua'.tables
  BY <1>2, <1>4, <1>6, <1>7, <1>8, MeantIs
<1>13. Range(Own) \subseteq DOMAIN objects' /\ (numbers' = <<>> \/ Len(numbers') = 1)
  BY <1>6, <1>7, <1>9, MeantIs
<1>14. val["m_pG"] = Globals /\ val["m_pR"] = "registry" /\ val["m_pE"] = Globals
  BY <1>1, <1>9, OwnKept
<1> QED BY ONLY ObjectsInv, <1>11, <1>12, <1>13, <1>14, ChangedStep

LEMMA AssignKeeps ==
  ASSUME ObjectsInv, Careless = {}, NEW o, NEW from \in Live, NEW how \in {"Set", "SetFromStack"},
         Assign(o, from, how)
  PROVE  ObjectsInv'
<1> DEFINE f == ReferenceFree(lua, objects[o])
<1>1. /\ o \in Live \ Range(Own) /\ UNCHANGED <<vector, numbers>>
      /\ how = "Set" => from # o
      /\ how = "SetFromStack" => lua.stack # <<>>
  BY DEF Assign
<1>2. lua \in Machines /\ meant.stack = lua.stack /\ InOrder(lua, objects, numbers, vector)
  BY InvFacts
<1>3. CASE how = "Set"
  <2> DEFINE v == Referenced(lua, objects[from])
             less == But(objects, o)
  <2>1. v \in LuaValues /\ meant.value[from] = v
    BY InvFacts
  <2>2. Referenced(f, objects[from]) = v
    <3>1. o \in DOMAIN objects /\ from \in DOMAIN less /\ less[from] = objects[from]
          /\ from \in DOMAIN objects
      BY <1>1, <1>3 DEF But, Live
    <3>2. ValuesOf(f, less) = But(ValuesOf(lua, objects), o)
      BY <1>2, <3>1, FreeObject
    <3>3. ValuesOf(f, less)[from] = Referenced(f, objects[from])
      BY <3>1 DEF ValuesOf
    <3>4. But(ValuesOf(lua, objects), o)[from] = v
      BY <1>1, <1>3, <3>1 DEF ValuesOf, But
    <3> QED BY <3>2, <3>3, <3>4
  <2>3. SetTo(lua, objects[o], objects[from]) = RefTaken(f, v)
    BY <2>2 DEF SetTo, ReferencePush, RefTaken
  <2>4. /\ lua' = SetTo(lua, objects[o], objects[from])
        /\ objects' = [objects EXCEPT ![o] = SetTo(lua, objects[o], objects[from]).made]
        /\ meant' = [meant EXCEPT !.value[o] = meant.value[from]]
    BY <1>3 DEF Assign
  <2> HIDE DEF v, f
  <2>5. lua' = RefTaken(f, v) /\ objects' = [objects EXCEPT ![o] = lua'.made]
    BY <2>3, <2>4
  <2>6. meant' = [meant EXCEPT !.value = [meant.value EXCEPT ![o] = v]]
    BY <2>1, <2>4
  <2> QED BY <1>1, <2>1, <2>5, <2>6, ReplaceStep DEF f
<1>4. CASE how = "SetFromStack"
  <2> DEFINE v == AtTop(lua, -1)
  <2>1. v \in LuaValues /\ v = Last(lua.stack)
    BY <1>1, <1>2, <1>4, TopOf
  <2>2. Replaced(lua, objects[o], v) = RefTaken(f, v)
    BY DEF Replaced, RefTaken
  <2>3. /\ lua' = Replaced(lua, objects[o], v)
        /\ objects' = [objects EXCEPT ![o] = Replaced(lua, objects[o], v).made]
        /\ meant' = [meant EXCEPT !.value[o] = Last(meant.stack)]
    BY <1>4 DEF Assign
  <2> HIDE DEF v, f
  <2>4. lua' = RefTaken(f, v) /\ objects' = [objects EXCEPT ![o] = lua'.made]
    BY <2>2, <2>3
  <2>5. meant' = [meant EXCEPT !.value = [meant.value EXCEPT ![o] = v]]
    BY <1>2, <2>1, <2>3
  <2> QED BY <1>1, <2>1, <2>4, <2>5, ReplaceStep DEF f
<1> QED BY <1>3, <1>4

LEMMA MembersKeeps ==
  ASSUME ObjectsInv, NEW o, Members(o, "GetMembers")
  PROVE  ObjectsInv'
<1> DEFINE got == MembersOf(lua, objects[o])
           x == Referenced(lua, objects[o])
           pairs == {<<k, lua.tables[x][k]>> : k \in Entries(x, lua.tables)}
<1>1. o \in Live /\ x \in LuaTables /\ vector = <<>>
  BY DEF Members, TableHolders
<1>2. /\ InOrder(lua, objects, numbers, vector) /\ meant.value[o] = x /\ meant.tables = lua.tables
  BY <1>1, InvFacts
<1>3. /\ InOrder(got.m, objects, numbers, got.pairs) /\ SameButSlots(lua, got.m)
      /\ ValuesOf(got.m, objects) = ValuesOf(lua, objects)
      /\ NumbersOf(got.m, numbers) = NumbersOf(lua, numbers)
      /\ PairsOf(got.m, got.pairs) = pairs
  BY <1>1, <1>2, MembersOfIs
<1>4. /\ lua' = got.m /\ vector' = got.pairs /\ objects' = objects /\ numbers' = numbers
  BY DEF Members
<1>5. meant' = [meant EXCEPT !.pairs = pairs]
  <2>1. meant' = [meant EXCEPT !.pairs = {<<k, meant.tables[meant.value[o]][k]>> :
                                            k \in Entries(meant.value[o], meant.tables)}]
    BY DEF Members
  <2> HIDE DEF x
  <2> QED BY <1>2, <2>1
<1> DEFINE m == got.m
<1> HIDE DEF got, x, pairs
<1>6. m.stack = lua.stack /\ m.tables = lua.tables
  BY <1>3 DEF SameButSlots
<1>7. meant' = MeantAs(m.stack, meant.value, m.tables, pairs, meant.numbers)
  BY <1>5, <1>6, PairsEdited
<1>8. /\ InOrder(lua', objects', numbers', vector')
      /\ meant.value = ValuesOf(lua', objects') /\ pairs = PairsOf(lua', vector')
      /\ meant.numbers = NumbersOf(lua', numbers') /\ m.stack = lua'.stack /\ m.tables = lua'.tables
  BY <1>3, <1>4, MeantIs
<1>9. Range(Own) \subseteq DOMAIN objects' /\ (numbers' = <<>> \/ Len(numbers') = 1)
  BY <1>4, MeantIs
<1> QED BY <1>7, <1>8, <1>9, MeantIs, ChangedStep

LEMMA DeleteLuaVectorKeeps ==
  ASSUME ObjectsInv, DeleteLuaVector
  PROVE  ObjectsInv'
<1> DEFINE m == VectorFreed(lua, vector)
<1>1. InOrder(lua, objects, numbers, vector)
  BY InvFacts
<1>2. /\ InOrder(m, objects, numbers, <<>>) /\ SameButSlots(lua, m)
      /\ ValuesOf(m, objects) = ValuesOf(lua, objects)
      /\ NumbersOf(m, numbers) = NumbersOf(lua, numbers) /\ PairsOf(m, <<>>) = {}
  BY <1>1, VectorFreedIs
<1>3. /\ lua' = m /\ vector' = <<>> /\ objects' = objects /\ numbers' = numbers
      /\ meant' = [meant EXCEPT !.pairs = {}]
  BY DEF DeleteLuaVector
<1> HIDE DEF m
<1>4. m.stack = lua.stack /\ m.tables = lua.tables
  BY <1>2 DEF SameButSlots
<1>5. meant' = MeantAs(m.stack, meant.value, m.tables, {}, meant.numbers)
  BY <1>3, <1>4, PairsEdited
<1>6. /\ InOrder(lua', objects', numbers', vector')
      /\ meant.value = ValuesOf(lua', objects') /\ {} = PairsOf(lua', vector')
      /\ meant.numbers = NumbersOf(lua', numbers') /\ m.stack = lua'.stack /\ m.tables = lua'.tables
  BY <1>2, <1>3, MeantIs
<1>7. Range(Own) \subseteq DOMAIN objects' /\ (numbers' = <<>> \/ Len(numbers') = 1)
  BY <1>3, MeantIs
<1> QED BY <1>5, <1>6, <1>7, MeantIs, ChangedStep

\* What the interface's four objects mean, and where.
LEMMA OwnMeans ==
  ASSUME NEW h
  PROVE  /\ DOMAIN OwnMeaning(h) = Range(Own)
         /\ OwnMeaning(h)["m_pG"] = Globals /\ OwnMeaning(h)["m_pR"] = "registry"
         /\ OwnMeaning(h)["m_pE"] = Globals /\ OwnMeaning(h)["m_pErrorNoHalt"] = h
<1>1. "m_pG" # "m_pR" /\ "m_pG" # "m_pErrorNoHalt" /\ "m_pE" # "m_pR" /\ "m_pE" # "m_pErrorNoHalt"
      /\ "m_pR" # "m_pErrorNoHalt"
  OBVIOUS
<1> QED BY <1>1, OwnFacts DEF OwnMeaning

\* One object of the interface less.
LEMMA OneLess ==
  ASSUME NEW m, NEW objs, NEW nums, NEW vec, InOrder(m, objs, nums, vec), NEW o \in DOMAIN objs,
         NEW r, r = objs[o]
  PROVE  LET t == ReferenceFree(m, r)
             new == But(objs, o) IN
         /\ InOrder(t, new, nums, vec) /\ SameButSlots(m, t)
         /\ NumbersOf(t, nums) = NumbersOf(m, nums) /\ PairsOf(t, vec) = PairsOf(m, vec)
         /\ DOMAIN new = DOMAIN objs \ {o} /\ \A x \in DOMAIN objs : x # o => new[x] = objs[x]
<1> DEFINE t == ReferenceFree(m, r)
           new == But(objs, o)
<1>1. /\ InOrder(t, new, nums, vec) /\ SameButSlots(m, t)
      /\ NumbersOf(t, nums) = NumbersOf(m, nums) /\ PairsOf(t, vec) = PairsOf(m, vec)
  BY FreeObject
<1>2. DOMAIN new = DOMAIN objs \ {o} /\ \A x \in DOMAIN objs : x # o => new[x] = objs[x]
  BY DEF But
<1> QED BY <1>1, <1>2

\* The interface closed: its objects are gone and nothing else has changed.
LEMMA ClosedIs ==
  ASSUME InOrder(lua, objects, numbers, vector), Live = Range(Own)
  PROVE  \E none : /\ NoObjects(none) /\ InOrder(Closed(lua), none, numbers, vector)
                   /\ SameButSlots(lua, Closed(lua))
                   /\ NumbersOf(Closed(lua), numbers) = NumbersOf(lua, numbers)
                   /\ PairsOf(Closed(lua), vector) = PairsOf(lua, vector)
<1> DEFINE a == "m_pG"
           b == "m_pR"
           c == "m_pE"
           d == "m_pErrorNoHalt"
           m1 == ReferenceFree(lua, objects[a])
           m2 == ReferenceFree(m1, objects[b])
           m3 == ReferenceFree(m2, objects[c])
           m4 == ReferenceFree(m3, objects[d])
           o1 == But(objects, a)
           o2 == But(o1, b)
           o3 == But(o2, c)
           o4 == But(o3, d)
<1>1. Closed(lua) = m4
  BY OwnFacts DEF Closed
<1>2. DOMAIN objects = {a, b, c, d}
  BY OwnFacts DEF Live
<1>3. a # b /\ a # c /\ a # d /\ b # c /\ b # d /\ c # d
  OBVIOUS
<1> HIDE DEF a, b, c, d
<1>4. /\ InOrder(m1, o1, numbers, vector) /\ SameButSlots(lua, m1)
      /\ NumbersOf(m1, numbers) = NumbersOf(lua, numbers)
      /\ PairsOf(m1, vector) = PairsOf(lua, vector)
      /\ DOMAIN o1 = {b, c, d} /\ o1[b] = objects[b] /\ o1[c] = objects[c] /\ o1[d] = objects[d]
  <2>1. a \in DOMAIN objects /\ DOMAIN objects \ {a} = {b, c, d}
    BY <1>2, <1>3
  <2> QED BY <1>2, <1>3, <2>1, OneLess
<1> HIDE DEF m1, o1
<1>5. /\ InOrder(m2, o2, numbers, vector) /\ SameButSlots(m1, m2)
      /\ NumbersOf(m2, numbers) = NumbersOf(m1, numbers)
      /\ PairsOf(m2, vector) = PairsOf(m1, vector)
      /\ DOMAIN o2 = {c, d} /\ o2[c] = objects[c] /\ o2[d] = objects[d]
  <2>1. b \in DOMAIN o1 /\ DOMAIN o1 \ {b} = {c, d}
    BY <1>3, <1>4
  <2> QED BY <1>3, <1>4, <2>1, OneLess
<1> HIDE DEF m2, o2
<1>6. /\ InOrder(m3, o3, numbers, vector) /\ SameButSlots(m2, m3)
      /\ NumbersOf(m3, numbers) = NumbersOf(m2, numbers)
      /\ PairsOf(m3, vector) = PairsOf(m2, vector)
      /\ DOMAIN o3 = {d} /\ o3[d] = objects[d]
  <2>1. c \in DOMAIN o2 /\ DOMAIN o2 \ {c} = {d}
    BY <1>3, <1>5
  <2> QED BY <1>3, <1>5, <2>1, OneLess
<1> HIDE DEF m3, o3
<1>7. /\ InOrder(m4, o4, numbers, vector) /\ SameButSlots(m3, m4)
      /\ NumbersOf(m4, numbers) = NumbersOf(m3, numbers)
      /\ PairsOf(m4, vector) = PairsOf(m3, vector) /\ DOMAIN o4 = {}
  <2>1. d \in DOMAIN o3 /\ DOMAIN o3 \ {d} = {} /\ objects[d] = o3[d]
    BY <1>6
  <2>2. /\ InOrder(m4, o4, numbers, vector) /\ SameButSlots(m3, m4)
        /\ NumbersOf(m4, numbers) = NumbersOf(m3, numbers)
        /\ PairsOf(m4, vector) = PairsOf(m3, vector) /\ DOMAIN o4 = DOMAIN o3 \ {d}
    BY <1>6, <2>1, OneLess
  <2> QED BY <2>1, <2>2
<1> HIDE DEF m4, o4
<1>8. SameButSlots(lua, m4)
  BY <1>4, <1>5, <1>6, <1>7 DEF SameButSlots
<1>9. NumbersOf(m4, numbers) = NumbersOf(lua, numbers) /\ PairsOf(m4, vector) = PairsOf(lua, vector)
  BY <1>4, <1>5, <1>6, <1>7
<1>10. NoObjects(o4)
  BY <1>7 DEF NoObjects
<1> QED BY <1>1, <1>7, <1>8, <1>9, <1>10

LEMMA ReopenKeeps ==
  ASSUME ObjectsInv, Reopen
  PROVE  ObjectsInv'
<1> DEFINE m == Closed(lua)
           k == Constructed(m)
           n == k.lua
           new == OpenedAs(k.refs)
           h == lua.tables[Globals]["ErrorNoHalt"]
           val == OwnMeaning(h)
<1>1. InOrder(lua, objects, numbers, vector) /\ Live = Range(Own) /\ DOMAIN meant.value = Live
  BY InvFacts DEF Reopen
<1>2. PICK none : /\ NoObjects(none) /\ InOrder(m, none, numbers, vector) /\ SameButSlots(lua, m)
                  /\ NumbersOf(m, numbers) = NumbersOf(lua, numbers)
                  /\ PairsOf(m, vector) = PairsOf(lua, vector)
  BY <1>1, ClosedIs
<1>3. /\ lua' = n /\ objects' = new /\ numbers' = numbers /\ vector' = vector
      /\ meant' = [meant EXCEPT !.value = [meant.value EXCEPT !["m_pErrorNoHalt"] = h]]
  BY <1>1, MeantIs DEF Reopen, OpenedAs
<1> HIDE DEF m
<1>4. /\ InOrder(n, new, numbers, vector) /\ SameButSlots(m, n)
      /\ ValuesOf(n, new) = OwnMeaning(m.tables[Globals]["ErrorNoHalt"])
      /\ NumbersOf(n, numbers) = NumbersOf(m, numbers) /\ PairsOf(n, vector) = PairsOf(m, vector)
  BY <1>2, ConstructedIs
<1>5. m.tables[Globals]["ErrorNoHalt"] = h
  BY <1>2 DEF SameButSlots
<1>6. DOMAIN new = Range(Own)
  BY DEF OpenedAs
<1> HIDE DEF n, new, h
<1>7. [meant.value EXCEPT !["m_pErrorNoHalt"] = h] = val
  <2> DEFINE v == [meant.value EXCEPT !["m_pErrorNoHalt"] = h]
  <2>1. v = [x \in Range(Own) |-> v[x]]
    BY <1>1
  <2>2. val = [x \in Range(Own) |-> val[x]]
    BY DEF OwnMeaning
  <2>3. \A x \in Range(Own) : v[x] = val[x]
    <3>1. "m_pErrorNoHalt" \in DOMAIN meant.value
      BY <1>1, OwnFacts
    <3>2. v["m_pErrorNoHalt"] = h /\ v["m_pG"] = Globals /\ v["m_pR"] = "registry" /\ v["m_pE"] = Globals
      BY <1>1, <3>1, OwnFacts, MeantIs
    <3> HIDE DEF v, val
    <3>3. /\ val["m_pG"] = Globals /\ val["m_pR"] = "registry"
          /\ val["m_pE"] = Globals /\ val["m_pErrorNoHalt"] = h
      BY OwnMeans DEF val
    <3> QED BY <3>2, <3>3, OwnFacts
  <2> HIDE DEF v, val
  <2>4. v = val
    BY <2>1, <2>2, <2>3
  <2> QED BY <2>4 DEF v
<1>8. val["m_pG"] = Globals /\ val["m_pR"] = "registry" /\ val["m_pE"] = Globals
  BY OwnMeans
<1> HIDE DEF val
<1>9. n.stack = lua.stack /\ n.tables = lua.tables
  BY <1>2, <1>4 DEF SameButSlots
<1>10. meant' = MeantAs(n.stack, val, n.tables, meant.pairs, meant.numbers)
  BY <1>3, <1>7, <1>9, ValueEdited
<1>11. /\ InOrder(lua', objects', numbers', vector')
       /\ val = ValuesOf(lua', objects') /\ meant.pairs = PairsOf(lua', vector')
       /\ meant.numbers = NumbersOf(lua', numbers') /\ n.stack = lua'.stack /\ n.tables = lua'.tables
  BY <1>2, <1>3, <1>4, <1>5, MeantIs DEF val
<1>12. Range(Own) \subseteq DOMAIN objects' /\ (numbers' = <<>> \/ Len(numbers') = 1)
  BY <1>3, <1>6, MeantIs
<1> QED BY <1>8, <1>10, <1>11, <1>12, ChangedStep

\* Lua as it starts holds nothing.
LEMMA BlankInOrder ==
  \E none : NoObjects(none) /\ InOrder(Blank, none, <<>>, <<>>)
<1> DEFINE none == [x \in {} |-> 0]
           H == HeldBy(none, <<>>, <<>>)
           tables == [t \in LuaTables |-> [k \in FieldNames |->
                        IF t = Globals /\ k = "ErrorNoHalt" THEN "function" ELSE NIL]]
<1>1. tables \in LuaMembers
  BY DEF LuaMembers, LuaValues
<1>2. Blank = [stack |-> <<>>, registry |-> <<>>, unused |-> <<>>, made |-> REFNIL, meta |-> NIL,
               tables |-> tables]
  BY DEF Blank
<1> HIDE DEF tables
<1>3. Blank \in Machines
  BY <1>1, <1>2 DEF Machines, REFNIL, LuaValues
<1>4. HeldAs(H, none, <<>>, <<>>) /\ DOMAIN none = {}
  BY HeldFacts
<1>5. DOMAIN H = {}
  BY <1>4 DEF HeldAs, HeldNames
<1> HIDE DEF H
<1>6. Blank.registry = <<>> /\ Blank.unused = <<>>
  BY <1>2
<1>7. Holding(Blank, H)
  BY <1>5, <1>6 DEF Holding
<1>8. none \in [DOMAIN none -> Int] /\ <<>> \in Seq(Int) /\ <<>> \in Seq(Int \X Int)
  OBVIOUS
<1>9. InOrder(Blank, none, <<>>, <<>>)
  BY <1>3, <1>7, <1>8 DEF InOrder, H
<1>10. NoObjects(none)
  BY DEF NoObjects
<1> QED BY <1>9, <1>10

LEMMA LuaStarts ==
  ASSUME LuaInit
  PROVE  ObjectsInv
<1> DEFINE k == Constructed(Blank)
           n == k.lua
           new == OpenedAs(k.refs)
           val == OwnMeaning("function")
<1>1. PICK none : NoObjects(none) /\ InOrder(Blank, none, <<>>, <<>>)
  BY BlankInOrder
<1>2. /\ Blank.tables[Globals]["ErrorNoHalt"] = "function" /\ Blank.stack = <<>>
  BY LuaAssumption DEF Blank
<1>3. /\ InOrder(n, new, <<>>, <<>>) /\ SameButSlots(Blank, n) /\ ValuesOf(n, new) = val
  BY <1>1, <1>2, ConstructedIs
<1>4. lua = n /\ objects = new /\ vector = <<>> /\ numbers = <<>>
  BY DEF LuaInit, OpenedAs
<1>5. meant = [stack |-> <<>>, tables |-> Blank.tables, pairs |-> {}, numbers |-> <<>>, value |-> val]
  BY DEF LuaInit, OwnMeaning
<1>6. DOMAIN new = Range(Own)
  BY DEF OpenedAs
<1>7. val["m_pG"] = Globals /\ val["m_pR"] = "registry" /\ val["m_pE"] = Globals
  BY OwnMeans
<1> HIDE DEF n, new, val
<1>8. n.stack = <<>> /\ n.tables = Blank.tables
  BY <1>2, <1>3 DEF SameButSlots
<1>9. NumbersOf(n, <<>>) = <<>> /\ PairsOf(n, <<>>) = {}
  BY DEF NumbersOf, PairsOf, Range
<1>10. meant = MeantOf(n, new, <<>>, <<>>)
  BY <1>3, <1>5, <1>8, <1>9 DEF MeantOf
<1>11. meant.value = val
  BY <1>5
<1> QED BY <1>3, <1>4, <1>6, <1>7, <1>10, <1>11 DEF ObjectsInv, Live

\* Lua in order, and meaning what it is meant to: the property of the runs.
LEMMA InOrderMeans ==
  ASSUME ObjectsInv
  PROVE  ObjectsAreMeant
<1> DEFINE H == HeldBy(objects, numbers, vector)
           slots == 1..Len(lua.registry)
           free == Range(lua.unused)
<1>1. /\ InOrder(lua, objects, numbers, vector) /\ Holding(lua, H)
      /\ numbers \in Seq(Int) /\ vector \in Seq(Int \X Int) /\ lua.unused \in Seq(Int)
      /\ Len(lua.registry) \in Nat
  BY InvFacts DEF InOrder, Machines
<1>2. HeldAs(H, objects, numbers, vector)
  BY HeldFacts
<1>3. \A x \in DOMAIN H :
        \/ \E o \in DOMAIN objects : x = <<"object", o>>
        \/ \E i \in 1..Len(numbers) : x = <<"number", i>>
        \/ \E i \in 1..Len(vector) : x = <<"key", i>> \/ x = <<"value", i>>
  BY HeldIs
<1> HIDE DEF H
<1>4. \A o, p \in Live : o # p => objects[o] # objects[p] \/ objects[o] = REFNIL
  <2> SUFFICES ASSUME NEW o \in Live, NEW p \in Live, o # p, objects[o] = objects[p]
               PROVE  objects[o] = REFNIL
    OBVIOUS
  <2>1. <<"object", o>> \in DOMAIN H /\ H[<<"object", o>>] = objects[o]
    BY <1>2 DEF HeldAs, Live
  <2>2. <<"object", p>> \in DOMAIN H /\ H[<<"object", p>>] = objects[p]
    BY <1>2 DEF HeldAs, Live
  <2>3. <<"object", o>> # <<"object", p>>
    OBVIOUS
  <2> QED BY <1>1, <2>1, <2>2, <2>3 DEF Holding
<1>5. \A x \in DOMAIN H : H[x] \in HeldRefs
  <2> SUFFICES ASSUME NEW x \in DOMAIN H PROVE H[x] \in HeldRefs
    OBVIOUS
  <2>1. CASE \E o \in DOMAIN objects : x = <<"object", o>>
    BY <1>2, <2>1 DEF HeldAs, HeldRefs, Live
  <2>2. CASE \E i \in 1..Len(numbers) : x = <<"number", i>>
    <3>1. PICK i \in 1..Len(numbers) : x = <<"number", i>>
      BY <2>2
    <3>2. H[x] = numbers[i] /\ numbers[i] \in Range(numbers)
      BY <1>1, <1>2, <3>1 DEF HeldAs, Range
    <3> QED BY <3>2 DEF HeldRefs
  <2>3. CASE \E i \in 1..Len(vector) : x = <<"key", i>> \/ x = <<"value", i>>
    <3>1. PICK i \in 1..Len(vector) : x = <<"key", i>> \/ x = <<"value", i>>
      BY <2>3
    <3>2. H[x] \in {vector[i][1], vector[i][2]} /\ vector[i] \in Range(vector)
      <4>1. vector[i] \in Range(vector)
        BY <1>1 DEF Range
      <4>2. H[<<"key", i>>] = vector[i][1] /\ H[<<"value", i>>] = vector[i][2]
        BY <1>2 DEF HeldAs
      <4> QED BY <3>1, <4>1, <4>2
    <3> QED BY <3>2 DEF HeldRefs
  <2> QED BY <1>3, <2>1, <2>2, <2>3
<1>6. \A r \in HeldRefs : \E x \in DOMAIN H : H[x] = r
  <2> SUFFICES ASSUME NEW r \in HeldRefs PROVE \E x \in DOMAIN H : H[x] = r
    OBVIOUS
  <2>1. CASE \E o \in Live : r = objects[o]
    BY <1>2, <2>1 DEF HeldAs, Live
  <2>2. CASE r \in Range(numbers)
    <3>1. PICK i \in 1..Len(numbers) : r = numbers[i]
      BY <1>1, <2>2 DEF Range
    <3> QED BY <1>2, <3>1 DEF HeldAs
  <2>3. CASE \E p \in Range(vector) : r \in {p[1], p[2]}
    <3>1. PICK p \in Range(vector) : r \in {p[1], p[2]}
      BY <2>3
    <3>2. PICK i \in 1..Len(vector) : p = vector[i]
      BY <1>1, <3>1 DEF Range
    <3>3. /\ <<"key", i>> \in DOMAIN H /\ H[<<"key", i>>] = vector[i][1]
          /\ <<"value", i>> \in DOMAIN H /\ H[<<"value", i>>] = vector[i][2]
      BY <1>2 DEF HeldAs
    <3> QED BY <3>1, <3>2, <3>3
  <2> QED BY <2>1, <2>2, <2>3 DEF HeldRefs
<1>7. free = {lua.unused[i] : i \in 1..Len(lua.unused)}
  BY <1>1 DEF Range
<1> HIDE DEF free
<1>8. slots \ free = HeldRefs \ {REFNIL}
  <2>1. ASSUME NEW r \in slots \ free
        PROVE  r \in HeldRefs \ {REFNIL}
    <3>1. r # REFNIL
      BY <1>1 DEF REFNIL
    <3>2. ~\E i \in 1..Len(lua.unused) : lua.unused[i] = r
      BY <1>7
    <3>3. \E x \in DOMAIN H : H[x] = r
      BY <1>1, <3>2 DEF Holding
    <3> QED BY <1>5, <3>1, <3>3
  <2>2. ASSUME NEW r \in HeldRefs \ {REFNIL}
        PROVE  r \in slots \ free
    <3>1. PICK x \in DOMAIN H : H[x] = r
      BY <1>6
    <3>2. r \in slots
      BY <1>1, <3>1 DEF Holding
    <3>3. \A i \in 1..Len(lua.unused) : lua.unused[i] # r
      BY <1>1, <3>1 DEF Holding
    <3> QED BY <1>7, <3>2, <3>3
  <2> QED BY <2>1, <2>2
<1>9. /\ \A o \in Live : Referenced(lua, objects[o]) = meant.value[o]
      /\ lua.stack = meant.stack /\ lua.tables = meant.tables
  BY InvFacts
<1>10. /\ {<<Referenced(lua, p[1]), Referenced(lua, p[2])>> : p \in Range(vector)} = meant.pairs
       /\ [i \in DOMAIN numbers |-> Referenced(lua, numbers[i])] = meant.numbers
  BY MeantIs DEF PairsOf, NumbersOf
<1> QED BY <1>4, <1>8, <1>9, <1>10 DEF ObjectsAreMeant, slots, free

\* The interface starts in order, and every call of modules without the careless
\* habits keeps it so (LuaObjects: SetNil, an object set to itself, GetAllTableMembers).
THEOREM ObjectsInvariant ==
  ASSUME Careless = {}
  PROVE  LuaSpec => []ObjectsInv
<1>1. LuaInit => ObjectsInv
  BY LuaStarts
<1>2. ObjectsInv /\ [LuaNext]_luaVars => ObjectsInv'
  <2> SUFFICES ASSUME ObjectsInv, [LuaNext]_luaVars PROVE ObjectsInv'
    OBVIOUS
  <2> USE DEF LuaNext
  <2>1. CASE \E o \in Holders, k \in FieldNames : GetGlobal(o, k)
    BY <2>1, GetGlobalKeeps
  <2>2. CASE \E o \in Holders, from \in Live, k \in FieldNames, how \in {"field", "index"} :
               GetMember(o, from, k, how)
    BY <2>2, GetMemberKeeps
  <2>3. CASE \E o \in Holders, i \in {0, -1, -2} : GetObject(o, i)
    BY <2>3, GetObjectKeeps
  <2>4. CASE \E o \in Holders, v \in {NIL} \cup MetaTables \cup Anew : GetNew(o, v)
    BY <2>4, GetNewKeeps
  <2>5. CASE \E o \in Holders, metaT \in Live : NewUserData(o, metaT)
    BY <2>5, NewUserDataKeeps
  <2>6. CASE \E metaT \in Live : PushUserData(metaT)
    BY <2>6, PushUserDataKeeps
  <2>7. CASE \E o \in Holders : GetMetaTable(o)
    BY <2>7, GetMetaTableKeeps
  <2>8. CASE \E k \in FieldNames, v \in Scalars \cup {NIL} \cup Anew : SetGlobal(k, v)
    BY <2>8, SetGlobalKeeps
  <2>9. CASE \E o \in Live, k \in FieldNames, v \in Scalars \cup {NIL} : SetMember(o, k, v)
    <3>1. Scalars \cup {NIL} \subseteq LuaValues
      BY DEF LuaValues
    <3> QED BY <2>9, <3>1, SetMemberKeeps
  <2>10. CASE \E o, from \in Live, k \in FieldNames : SetMember(o, k, Referenced(lua, objects[from]))
    <3>1. \A from \in Live : Referenced(lua, objects[from]) \in LuaValues
      BY InvFacts
    <3> QED BY <2>10, <3>1, SetMemberKeeps
  <2>11. CASE \E o \in Live, k \in FieldNames : Ask(o, k)
    BY <2>11, AskKeeps
  <2>12. CASE \E o \in Live : PushObject(o)
    BY <2>12, PushObjectKeeps
  <2>13. CASE \E v \in Scalars : PushValue(v)
    BY <2>13, PushValueKeeps
  <2>14. CASE \E args \in 1..2, returns \in {<<>>} \cup {<<v>> : v \in Scalars} : Call(args, returns)
    BY <2>14, CallKeeps
  <2>15. CASE \E text \in Scalars : ErrorNoHalt(text)
    BY <2>15, ErrorNoHaltKeeps
  <2>16. CASE \E i \in {0, -1} : GetReference(i)
    BY <2>16, GetReferenceKeeps
  <2>17. CASE PushReference
    BY <2>17, PushReferenceKeeps
  <2>18. CASE FreeReference
    BY <2>18, FreeReferenceKeeps
  <2>19. CASE \E o \in Live : UnReference(o)
    BY <2>19, UnReferenceKeeps
  <2>20. CASE \E o, from \in Live, how \in {"Set", "SetFromStack"} \cup (Careless \cap {"SetNil"}) :
                Assign(o, from, how)
    BY <2>20, AssignKeeps
  <2>21. CASE \E o \in Live, how \in {"GetMembers"} \cup (Careless \cap {"GetAllTableMembers"}) :
                Members(o, how)
    BY <2>21, MembersKeeps
  <2>22. CASE DeleteLuaVector
    BY <2>22, DeleteLuaVectorKeeps
  <2>23. CASE Reopen
    BY <2>23, ReopenKeeps
  <2>24. CASE UNCHANGED luaVars
    BY <2>24 DEF luaVars, ObjectsInv, Live
  <2>25. \/ UNCHANGED luaVars \/ LuaNext
    OBVIOUS
  <2> QED BY <2>1, <2>2, <2>3, <2>4, <2>5, <2>6, <2>7, <2>8, <2>9, <2>10, <2>11, <2>12, <2>13,
             <2>14, <2>15, <2>16, <2>17, <2>18, <2>19, <2>20, <2>21, <2>22, <2>23, <2>24, <2>25
<1> QED BY <1>1, <1>2, PTL DEF LuaSpec

\* Objects, stack and tables are what the callers of ILuaInterface and ILuaObject
\* mean, and the registry keeps a slot for each reference held and for no other.
THEOREM ObjectsMeant ==
  ASSUME Careless = {}
  PROVE  LuaSpec => []ObjectsAreMeant
<1>1. ObjectsInv => ObjectsAreMeant
  BY InOrderMeans
<1> QED BY <1>1, ObjectsInvariant, PTL
=============================================================================
