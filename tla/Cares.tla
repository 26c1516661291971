------------------------------- MODULE Cares --------------------------------
(***************************************************************************)
(* The module cares: a script looks names up, calls cares.__Call in a hook *)
(* to hand the answers that have come to cares.Callback, and closing the   *)
(* module answers what is pending.  The c-ares library is external.        *)
(*                                                                         *)
(* Habits the run leaves out, each of which breaks EveryLookupAnswered:    *)
(*   "coroutine"   the script also calls from a coroutine: the module uses *)
(*                 the Lua state of the last __Call whoever calls it       *)
(*   "forget"      it drops a name before its answer: the lookup keeps a   *)
(*                 pointer to the characters of the Lua string             *)
(*   "raise"       cares.Callback may raise: the table `cares` is left on  *)
(*                 the stack, on top of the number __Call returns          *)
(*   "nested"      it calls __Call while c-ares tells the end of a query,  *)
(*                 which c-ares frees afterwards: it may end once more     *)
(***************************************************************************)
EXTENDS Naturals, Sequences

CONSTANTS
  Lookups,     \* lookups, and the names they ask for
  Unknown,     \* what is read instead of a name that is not where it was
  CaresHabits, \* what the script does besides
  CaresDepth   \* bound: the functions that run at once

VARIABLES
  channel,     \* "none", "open" or "destroyed"
  L,           \* the Lua state the module uses, or "NULL"
  lookup,      \* "new", "pending" or "ended"
  begun,       \* the lookups c-ares has made a query of, in the order of all_queries
  askedName,   \* the name a lookup began with
  namesHeld,   \* the names the script holds
  frames,      \* what runs, the innermost last: [fn, left, at]; `at` is the index in
               \* `begun` of the query a Callback is about (0: of none, it was answered
               \* at once) and of the one gmod13_close comes to next (0: none)
  late,        \* history: lookups begun after gmod13_close had come to the last query
  told,        \* history: the names each lookup told the script
  returned     \* history: what __Call returned

caresVars == <<channel, L, lookup, begun, askedName, namesHeld, frames, late, told, returned>>

Frame(fn, at) == [fn |-> fn, left |-> 0, at |-> at]

CaresInit ==
  /\ channel = "none"
  /\ L = "NULL"
  /\ lookup = [q \in Lookups |-> "new"]
  /\ begun = <<>>
  /\ askedName = [q \in Lookups |-> q]
  /\ namesHeld = Lookups
  /\ frames = <<>>
  /\ late = {}
  /\ told = [q \in Lookups |-> <<>>]
  /\ returned = {}

States == {"main"} \cup (CaresHabits \cap {"coroutine"})

Pending == {q \in Lookups : lookup[q] = "pending"}

Innermost(fn) == frames # <<>> /\ frames[Len(frames)].fn = fn

ScriptRuns == frames = <<>> \/ Innermost("Callback")

(* The queries of all_queries: c-ares frees one after its callback.        *)
Listed == {i \in DOMAIN begun : begun[i] \in Pending \/ \E f \in DOMAIN frames :
                                   frames[f].fn = "Callback" /\ frames[f].at = i}

NextQuery(i) ==
  LET later == {j \in Listed : i < j}
  IN IF later = {} THEN 0 ELSE CHOOSE j \in later : \A k \in later : j <= k

Closing == frames # <<>> /\ frames[1].fn = "gmod13_close"

(* gmod13_open, whose ares_init may fail: the functions are then missing.  *)
CaresOpen ==
  /\ channel = "none" /\ L = "NULL"
  /\ L' = "main"
  /\ channel' \in {"none", "open"}
  /\ UNCHANGED <<lookup, begun, askedName, namesHeld, frames, late, told, returned>>

(* c-ares ends lookup q: callback tells the script, if there is a state.   *)
Answer(q, name, at, below) ==
  /\ lookup' = [lookup EXCEPT ![q] = "ended"]
  /\ told' = IF L = "NULL" THEN told ELSE [told EXCEPT ![q] = Append(@, name)]
  /\ frames' = IF L = "NULL" THEN below ELSE Append(below, Frame("Callback", at))

(* __Resolve takes its arguments from L, not from the state that calls it. *)
(* c-ares may answer at once, an address or a name it knows.               *)
CaresResolve(t, q) ==
  LET name == IF t = L THEN q ELSE Unknown IN
  /\ ScriptRuns /\ channel = "open"
  /\ lookup[q] = "new" /\ q \in namesHeld
  /\ askedName' = [askedName EXCEPT ![q] = name]
  /\ \/ /\ lookup' = [lookup EXCEPT ![q] = "pending"]
        /\ begun' = Append(begun, q)
        /\ late' = IF Closing /\ frames[1].at = 0 THEN late \cup {q} ELSE late
        /\ UNCHANGED <<told, frames>>
     \/ Len(frames) < CaresDepth /\ Answer(q, name, 0, frames) /\ UNCHANGED <<begun, late>>
  /\ UNCHANGED <<channel, L, namesHeld, returned>>

(* __Call; without a socket to wait for it returns before ares_process.    *)
CaresCall(t) ==
  /\ ScriptRuns /\ channel = "open" /\ Len(frames) < CaresDepth
  /\ "nested" \in CaresHabits \/ \A f \in DOMAIN frames : frames[f].fn = "Callback" /\ frames[f].at = 0
  /\ L' = t
  /\ \/ Listed = {} /\ returned' = returned \cup {"nfds"} /\ UNCHANGED frames
     \/ Listed # {} /\ frames' = Append(frames, Frame("__Call", 0)) /\ UNCHANGED returned
  /\ UNCHANGED <<channel, lookup, begun, askedName, namesHeld, late, told>>

(* The name is read when the answer is told. *)
NameRead(q) == IF q \in namesHeld THEN askedName[q] ELSE Unknown

(* ares_process: queries are answered, or time out.                        *)
AnswerPending ==
  /\ Innermost("__Call")
  /\ \E i \in Listed : Answer(begun[i], NameRead(begun[i]), i, frames)
  /\ UNCHANGED <<channel, L, begun, askedName, namesHeld, late, returned>>

(* lua_pop(L, 1) takes the table cares, or the message of an error.        *)
CallbackEnds ==
  /\ Innermost("Callback")
  /\ \E raised \in {0} \cup {1 : h \in CaresHabits \cap {"raise"}} :
       LET outer == SubSeq(frames, 1, Len(frames) - 1)
       IN frames' = [i \in 1..Len(outer) |->
                        IF i = Len(outer) THEN [outer[i] EXCEPT !.left = @ + raised] ELSE outer[i]]
  /\ UNCHANGED <<channel, L, lookup, begun, askedName, namesHeld, late, told, returned>>

CallReturns ==
  /\ Innermost("__Call")
  /\ frames' = SubSeq(frames, 1, Len(frames) - 1)
  /\ returned' = returned \cup {IF frames[Len(frames)].left = 0 THEN "nfds" ELSE "cares"}
  /\ UNCHANGED <<channel, L, lookup, begun, askedName, namesHeld, late, told>>

(* A bug: the state is forgotten before the lookups are answered. *)
CloseBegins_NoState ==
  /\ frames = <<>> /\ channel # "destroyed" /\ L # "NULL"
  /\ frames' = <<Frame("gmod13_close", NextQuery(0))>>
  /\ L' = "NULL"
  /\ UNCHANGED <<channel, lookup, begun, askedName, namesHeld, late, told, returned>>

(* gmod13_close: ares_destroy goes through all_queries from the first.     *)
CloseBegins ==
  /\ frames = <<>> /\ channel # "destroyed" /\ L # "NULL"
  /\ frames' = <<Frame("gmod13_close", NextQuery(0))>>
  /\ UNCHANGED <<channel, L, lookup, begun, askedName, namesHeld, late, told, returned>>

(* ares_destroy goes on to the query behind before it ends one: a query    *)
(* the script begins while the last one is told is not come to.            *)
CloseAnswers ==
  /\ Innermost("gmod13_close") /\ frames[1].at # 0
  /\ LET i == frames[1].at
     IN Answer(begun[i], NameRead(begun[i]), i, [frames EXCEPT ![1].at = NextQuery(i)])
  /\ UNCHANGED <<channel, L, begun, askedName, namesHeld, late, returned>>

CloseEnds ==
  /\ Innermost("gmod13_close") /\ frames[1].at = 0
  /\ channel' = "destroyed"
  /\ L' = "NULL"
  /\ frames' = <<>>
  /\ UNCHANGED <<lookup, begun, askedName, namesHeld, late, told, returned>>

(* The script drops a name and Lua collects it.                            *)
DropName(q) ==
  /\ ScriptRuns /\ q \in namesHeld
  /\ lookup[q] = "pending" => "forget" \in CaresHabits
  /\ namesHeld' = namesHeld \ {q}
  /\ UNCHANGED <<channel, L, lookup, begun, askedName, frames, late, told, returned>>

CaresNext ==
  \/ CaresOpen
  \/ \E t \in States : CaresCall(t) \/ \E q \in Lookups : CaresResolve(t, q)
  \/ AnswerPending \/ CallbackEnds \/ CallReturns
  \/ CloseBegins \/ CloseAnswers \/ CloseEnds
  \/ \E q \in Lookups : DropName(q)

CaresSpec == CaresInit /\ [][CaresNext]_caresVars

(* Every lookup tells cares.Callback the name it was begun with, exactly   *)
(* once: at once, in a __Call, or when the module closes, also one begun   *)
(* in a callback then; only those begun after the close had come to the    *)
(* last query are never told. And __Call returns the number the loop of    *)
(* the script goes by.                                                     *)
EveryLookupAnswered ==
  /\ \A q \in Lookups : told[q] = IF lookup[q] = "ended" THEN <<q>> ELSE <<>>
  /\ channel = "destroyed" => Pending \subseteq late
  /\ returned \subseteq {"nfds"}
=============================================================================
