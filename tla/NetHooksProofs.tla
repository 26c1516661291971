--------------------------- MODULE NetHooksProofs ---------------------------
(***************************************************************************)
(* Proofs about NetHooks, for scripts and states without the habits that   *)
(* break it: states close the last opened first, hooks are detached with   *)
(* an object of the class they are on, and not moved to another class in   *)
(* the middle of their call.  About NetMessages, for scripts that do not   *)
(* write ahead of what they read, and pad their last byte.  And about      *)
(* SnBuffers, for scripts that write no negative Char or Short.            *)
(***************************************************************************)
EXTENDS NetHooks, NetMessages, SnBuffers, SeqLemmas

(***************************************************************************)
(* The slots.                                                              *)
(***************************************************************************)

\* The slots in use and the released ones are all there are.
LEMMA SlotCounts ==
  ASSUME HooksTypeOK, SlotsInv
  PROVE  \E n, m \in Nat : Len(list) = n /\ Len(free) = m /\ Len(slots) = n + m
<1>1. Len(list) \in Nat /\ Len(free) \in Nat
  BY DEF HooksTypeOK
<1> QED BY <1>1 DEF SlotsInv

\* A state that is opened gets the slot after those in use.
LEMMA OpenFacts ==
  ASSUME HooksTypeOK, SlotsInv, NEW s \in State, Open(s), NEW n \in Nat, Len(list) = n
  PROVE  /\ slots' \in Seq(State)
         /\ list' \in Seq(1 .. Len(slots')) /\ free' \in Seq(1 .. Len(slots'))
         /\ Len(list') = n + 1 /\ slots'[n + 1] = s
         /\ \A i \in 1 .. n : slots'[i] = slots[i]
         /\ \A i \in 1 .. n + 1 : list'[i] = i
         /\ Len(slots') = Len(list') + Len(free')
         /\ \A i \in 1 .. Len(free') : free'[i] = Len(list') + i
<1>1. PICK m \in Nat : Len(free) = m /\ Len(slots) = n + m
  BY SlotCounts
<1>2. slots \in Seq(State) /\ list \in Seq(1 .. n + m) /\ free \in Seq(1 .. n + m)
  BY <1>1 DEF HooksTypeOK
<1>3. \A i \in 1 .. n : list[i] = i
  BY DEF SlotsInv
<1>4. \A i \in 1 .. m : free[i] = n + i
  BY <1>1 DEF SlotsInv
<1>5. CASE free = <<>>
  <2>1. m = 0
    BY <1>1, <1>5
  <2>2. /\ slots' = Append(slots, s) /\ list' = Append(list, n + 1) /\ free' = <<>>
    BY <1>1, <1>5, <2>1 DEF Open
  <2>3. /\ slots' \in Seq(State) /\ Len(slots') = n + 1 /\ slots'[n + 1] = s
        /\ \A i \in 1 .. n : slots'[i] = slots[i]
    BY <1>1, <1>2, <2>1, <2>2, AppendProperties
  <2>4. list \in Seq(1 .. n + 1)
    BY <1>2, <2>1, SeqMonotonic
  <2>5. /\ list' \in Seq(1 .. n + 1) /\ Len(list') = n + 1 /\ list'[n + 1] = n + 1
        /\ \A i \in 1 .. n : list'[i] = list[i]
    BY <2>2, <2>4, AppendProperties
  <2>6. \A i \in 1 .. n + 1 : list'[i] = i
    BY <1>3, <2>5
  <2>7. Len(free') = 0 /\ free' \in Seq(1 .. n + 1)
    BY <2>2
  <2> QED BY <2>3, <2>5, <2>6, <2>7
<1>6. CASE free # <<>>
  <2>1. m # 0 /\ 1 \in 1 .. m
    BY <1>1, <1>2, <1>6, EmptySeq
  <2>2. Head(free) = n + 1 /\ n + 1 \in 1 .. n + m
    BY <1>4, <1>2, <1>6, <2>1
  <2>3. slots' = [slots EXCEPT ![n + 1] = s] /\ list' = Append(list, n + 1) /\ free' = Tail(free)
    BY <1>6, <2>2 DEF Open
  <2>4. /\ slots' \in Seq(State) /\ Len(slots') = n + m
        /\ \A i \in 1 .. n + m : slots'[i] = IF i = n + 1 THEN s ELSE slots[i]
    BY <1>1, <1>2, <2>2, <2>3, ExceptSeq
  <2>5. /\ list' \in Seq(1 .. n + m) /\ Len(list') = n + 1 /\ list'[n + 1] = n + 1
        /\ \A i \in 1 .. n : list'[i] = list[i]
    BY <1>2, <2>2, <2>3, AppendProperties
  <2>6. \A i \in 1 .. n + 1 : list'[i] = i
    BY <1>3, <2>5
  <2>7. /\ free' \in Seq(1 .. n + m) /\ Len(free') = m - 1
        /\ \A i \in 1 .. m - 1 : free'[i] = free[i + 1]
    BY <1>1, <1>2, <1>6, <2>3, HeadTailProperties
  <2>8. \A i \in 1 .. m - 1 : free'[i] = (n + 1) + i
    <3> SUFFICES ASSUME NEW i \in 1 .. m - 1 PROVE free'[i] = (n + 1) + i
      OBVIOUS
    <3>1. i + 1 \in 1 .. m /\ n + (i + 1) = (n + 1) + i
      BY <2>1
    <3> QED BY <3>1, <2>7, <1>4
  <2>9. n + m = (n + 1) + (m - 1) /\ \A i \in 1 .. n : i \in 1 .. n + m /\ i # n + 1
    BY <2>1
  <2> QED BY <2>2, <2>4, <2>5, <2>6, <2>7, <2>8, <2>9
<1> QED BY <1>5, <1>6

\* The states listed.
LEMMA ListedFacts ==
  ASSUME HooksTypeOK, SlotsInv, NEW n \in Nat, Len(list) = n
  PROVE  /\ Listed \in Seq(State) /\ DOMAIN Listed = 1 .. n
         /\ \A i \in 1 .. n : Listed[i] = slots[i] /\ slots[i] \in State
         /\ open = { slots[i] : i \in 1 .. n }
<1>1. PICK m \in Nat : Len(slots) = n + m
  BY SlotCounts
<1>2. slots \in Seq(State) /\ \A i \in 1 .. n : i \in 1 .. Len(slots)
  BY <1>1 DEF HooksTypeOK
<1>3. \A i \in 1 .. n : slots[i] \in State
  BY <1>2, ElementOfSeq
<1>4. Listed = [i \in 1 .. n |-> slots[i]]
  BY DEF Listed
<1>5. ToSet(Listed) = { slots[i] : i \in 1 .. n }
  BY <1>4 DEF ToSet
<1> QED BY <1>3, <1>4, <1>5, IsASeq DEF SlotsInv

\* Close finds the last slot in use and releases it.
LEMMA CloseFacts ==
  ASSUME HooksTypeOK, SlotsInv, HookHabits = {}, NEW s \in State, Close(s)
  PROVE  \E n \in Nat :
           /\ Len(list) = n + 1 /\ s = slots[n + 1] /\ slots' = slots
           /\ list' \in Seq(1 .. Len(slots)) /\ free' \in Seq(1 .. Len(slots))
           /\ Len(list') = n /\ \A i \in 1 .. n : list'[i] = i
           /\ Len(slots) = n + Len(free')
           /\ \A i \in 1 .. Len(free') : free'[i] = n + i
<1>1. PICK l, m \in Nat : Len(list) = l /\ Len(free) = m /\ Len(slots) = l + m
  BY SlotCounts
<1>2. l # 0
  <2>1. s \in { slots[i] : i \in 1 .. l }
    BY <1>1, ListedFacts DEF Close
  <2> QED BY <2>1
<1> DEFINE n == l - 1
<1>3. n \in Nat /\ l = n + 1
  BY <1>2
<1> HIDE DEF n
<1>4. \A i \in 1 .. n + 1 : list[i] = i
  BY <1>1, <1>3 DEF SlotsInv
<1>5. n + 1 \in 1 .. n + 1 /\ n + 1 \in 1 .. Len(list) /\ n + 1 \in 1 .. Len(slots)
  BY <1>1, <1>3
<1>6. s = slots[n + 1] /\ slots' = slots
  BY <1>1, <1>3, <1>4, <1>5 DEF Close, hookVars
<1>7. Matches(s) = {n + 1}
  BY <1>1, <1>3, <1>5, <1>6 DEF Matches, SlotsInv
<1>8. list' = RemoveFirst(list, n + 1) /\ free' = <<n + 1>> \o free
  BY <1>7 DEF Close, Release
<1>9. list \in Seq(1 .. Len(slots)) /\ free \in Seq(1 .. Len(slots))
  BY DEF HooksTypeOK
<1>10. list' = RemoveAt(list, n + 1)
  <2>1. \A i \in 1 .. Len(list) : (list[i] = n + 1) <=> (i = n + 1)
    BY <1>1, <1>3, <1>4
  <2> QED BY <1>5, <1>8, <1>9, <2>1, RemoveOnlyFacts
<1>11. /\ list' \in Seq(1 .. Len(slots)) /\ Len(list') = n
       /\ \A i \in 1 .. n : list'[i] = i
  <2>1. /\ list' \in Seq(1 .. Len(slots)) /\ Len(list') = Len(list) - 1
        /\ \A i \in 1 .. Len(list) - 1 :
             list'[i] = IF i < n + 1 THEN list[i] ELSE list[i + 1]
    BY <1>5, <1>9, <1>10, RemoveAtFacts
  <2>2. Len(list) - 1 = n /\ \A i \in 1 .. n : i < n + 1 /\ i \in 1 .. n + 1
    BY <1>1, <1>3
  <2> QED BY <2>1, <2>2, <1>4
<1>12. /\ free' \in Seq(1 .. Len(slots)) /\ Len(free') = m + 1
       /\ \A i \in 1 .. m + 1 : free'[i] = n + i
  <2>1. <<n + 1>> \in Seq(1 .. Len(slots)) /\ Len(<<n + 1>>) = 1 /\ <<n + 1>>[1] = n + 1
    BY <1>5
  <2>2. /\ free' \in Seq(1 .. Len(slots)) /\ Len(free') = 1 + m
        /\ \A i \in 1 .. 1 + m : free'[i] = IF i <= 1 THEN <<n + 1>>[i] ELSE free[i - 1]
    BY <1>1, <1>8, <1>9, <2>1, ConcatProperties
  <2>3. ASSUME NEW i \in 1 .. m + 1 PROVE free'[i] = n + i
    <3>1. CASE i = 1
      BY <3>1, <2>1, <2>2
    <3>2. CASE i # 1
      <4>1. i - 1 \in 1 .. m /\ ~ (i <= 1) /\ i \in 1 .. 1 + m
        BY <3>2
      <4>2. free[i - 1] = (n + 1) + (i - 1)
        BY <4>1, <1>1, <1>3 DEF SlotsInv
      <4> QED BY <4>1, <4>2, <2>2, <1>3
    <3> QED BY <3>1, <3>2
  <2> QED BY <2>2, <2>3
<1>13. Len(slots) = n + Len(free')
  BY <1>1, <1>3, <1>12
<1> QED BY <1>1, <1>3, <1>6, <1>11, <1>12, <1>13

\* The slots of the states.
LEMMA SlotsStep ==
  ASSUME HooksTypeOK, SlotsInv, HookHabits = {}, [HooksNext]_netVars
  PROVE  SlotsInv'
<1>1. ASSUME NEW s \in State, Open(s)
      PROVE  SlotsInv'
  <2>1. PICK n \in Nat : Len(list) = n
    BY SlotCounts
  <2>2. /\ Len(list') = n + 1 /\ slots'[n + 1] = s
        /\ \A i \in 1 .. n : slots'[i] = slots[i]
        /\ \A i \in 1 .. n + 1 : list'[i] = i
        /\ Len(slots') = Len(list') + Len(free')
        /\ \A i \in 1 .. Len(free') : free'[i] = Len(list') + i
    BY <1>1, <2>1, OpenFacts
  <2>3. open = { slots[i] : i \in 1 .. n } /\ \A i \in 1 .. n : slots[i] \in State
    BY <2>1, ListedFacts
  <2>4. s \notin open /\ open' = open \cup {s}
    BY <1>1 DEF Open
  <2>5. \A i \in 1 .. n + 1 : i \in 1 .. n \/ i = n + 1
    OBVIOUS
  <2>6. open' = { slots'[i] : i \in 1 .. n + 1 }
    <3>1. \A i \in 1 .. n : i \in 1 .. n + 1
      OBVIOUS
    <3>2. n + 1 \in 1 .. n + 1
      OBVIOUS
    <3> QED BY <3>1, <3>2, <2>2, <2>3, <2>4, <2>5
  <2>7. ToSet(Listed)' = { slots'[i] : i \in 1 .. n + 1 }
    BY <2>2 DEF Listed, ToSet
  <2>8. \A i, j \in 1 .. Len(list) : slots[i] = slots[j] => i = j
    BY DEF SlotsInv
  <2>9. \A i, j \in 1 .. n + 1 : slots'[i] = slots'[j] => i = j
    BY <2>1, <2>2, <2>3, <2>4, <2>5, <2>8
  <2> QED BY <2>2, <2>6, <2>7, <2>9 DEF SlotsInv
<1>2. ASSUME NEW s \in State, Close(s)
      PROVE  SlotsInv'
  <2>1. PICK n \in Nat :
          /\ Len(list) = n + 1 /\ s = slots[n + 1] /\ slots' = slots
          /\ Len(list') = n /\ \A i \in 1 .. n : list'[i] = i
          /\ Len(slots) = n + Len(free')
          /\ \A i \in 1 .. Len(free') : free'[i] = n + i
    BY <1>2, CloseFacts
  <2>2. open = { slots[i] : i \in 1 .. n + 1 } /\ open' = open \ {s}
    BY <1>2, <2>1, ListedFacts DEF Close
  <2>3. \A i, j \in 1 .. n + 1 : slots[i] = slots[j] => i = j
    BY <2>1 DEF SlotsInv
  <2>4. \A i \in 1 .. n : i \in 1 .. n + 1 /\ i # n + 1
    OBVIOUS
  <2>5. \A i \in 1 .. n + 1 : i \in 1 .. n \/ i = n + 1
    OBVIOUS
  <2>6. open' = { slots[i] : i \in 1 .. n }
    <3>1. n + 1 \in 1 .. n + 1
      OBVIOUS
    <3> QED BY <3>1, <2>1, <2>2, <2>3, <2>4, <2>5
  <2>7. ToSet(Listed)' = { slots[i] : i \in 1 .. n }
    BY <2>1 DEF Listed, ToSet
  <2> QED BY <2>1, <2>3, <2>4, <2>6, <2>7 DEF SlotsInv
<1>3. CASE UNCHANGED stateVars
  BY <1>3 DEF stateVars, SlotsInv, Listed
<1>4. ASSUME NEW h \in Hook, NEW c \in Class, Attach(h, c) \/ Detach(h, c) \/ Call(h, c)
      PROVE  UNCHANGED stateVars
  BY <1>4 DEF Attach, Detach, Call
<1>5. CASE CallStep
  BY <1>5, <1>3 DEF CallStep, TellNext, TellReturns, CallOriginal, OriginalReturns,
     EndPostLoop, Return
<1>6. CASE UNCHANGED netVars
  BY <1>6, <1>3 DEF netVars
<1> QED BY <1>1, <1>2, <1>3, <1>4, <1>5, <1>6 DEF HooksNext

(***************************************************************************)
(* The calls.                                                              *)
(***************************************************************************)

\* The frame at the start of a loop.
LoopOf(f, p, j, t, d) == [f EXCEPT !.phase = p, !.i = j, !.told = t, !.due = d]

LEMMA LoopFrame ==
  ASSUME NEW f \in Frames, NEW p \in Phases, NEW j \in Nat, NEW t \in Seq(State),
         NEW d \in SUBSET State, NEW g,
         g = LoopOf(f, p, j, t, d)
  PROVE  /\ g \in Frames /\ g.phase = p /\ g.i = j /\ g.told = t /\ g.due = d
         /\ g.hook = f.hook /\ g.class = f.class /\ g.caller = f.caller
         /\ g.ran = f.ran
<1> DEFINE g1 == [f EXCEPT !.phase = p]
<1>1. /\ g1 \in Frames /\ g1.phase = p /\ g1.hook = f.hook
      /\ g1.class = f.class /\ g1.i = f.i /\ g1.caller = f.caller
      /\ g1.told = f.told /\ g1.due = f.due /\ g1.ran = f.ran
  BY DEF Frames
<1> HIDE DEF g1
<1> DEFINE g2 == [g1 EXCEPT !.i = j]
<1>2. /\ g2 \in Frames /\ g2.i = j /\ g2.hook = g1.hook
      /\ g2.class = g1.class /\ g2.phase = g1.phase
      /\ g2.caller = g1.caller /\ g2.told = g1.told /\ g2.due = g1.due
      /\ g2.ran = g1.ran
  BY <1>1 DEF Frames
<1> HIDE DEF g2
<1> DEFINE g3 == [g2 EXCEPT !.told = t]
<1>3. /\ g3 \in Frames /\ g3.told = t /\ g3.hook = g2.hook
      /\ g3.class = g2.class /\ g3.phase = g2.phase /\ g3.i = g2.i
      /\ g3.caller = g2.caller /\ g3.due = g2.due /\ g3.ran = g2.ran
  BY <1>2 DEF Frames
<1> HIDE DEF g3
<1> DEFINE g4 == [g3 EXCEPT !.due = d]
<1>4. /\ g4 \in Frames /\ g4.due = d /\ g4.hook = g3.hook
      /\ g4.class = g3.class /\ g4.phase = g3.phase /\ g4.i = g3.i
      /\ g4.caller = g3.caller /\ g4.told = g3.told /\ g4.ran = g3.ran
  BY <1>3 DEF Frames
<1> HIDE DEF g4
<1>5. g = g4
  BY DEF LoopOf, g1, g2, g3, g4
<1> QED BY <1>1, <1>2, <1>3, <1>4, <1>5

\* The frame while a state is told.
TellOf(f, s, t) == [f EXCEPT !.caller = s, !.told = t]

LEMMA TellFrame ==
  ASSUME NEW f \in Frames, NEW s \in State \cup {None}, NEW t \in Seq(State), NEW g,
         g = TellOf(f, s, t)
  PROVE  /\ g \in Frames /\ g.caller = s /\ g.told = t /\ g.hook = f.hook
         /\ g.class = f.class /\ g.phase = f.phase /\ g.i = f.i
         /\ g.due = f.due /\ g.ran = f.ran
<1> DEFINE g1 == [f EXCEPT !.caller = s]
<1>1. /\ g1 \in Frames /\ g1.caller = s /\ g1.hook = f.hook
      /\ g1.class = f.class /\ g1.phase = f.phase /\ g1.i = f.i
      /\ g1.told = f.told /\ g1.due = f.due /\ g1.ran = f.ran
  BY DEF Frames
<1> HIDE DEF g1
<1> DEFINE g2 == [g1 EXCEPT !.told = t]
<1>2. /\ g2 \in Frames /\ g2.told = t /\ g2.hook = g1.hook
      /\ g2.class = g1.class /\ g2.phase = g1.phase /\ g2.i = g1.i
      /\ g2.caller = g1.caller /\ g2.due = g1.due /\ g2.ran = g1.ran
  BY <1>1 DEF Frames
<1> HIDE DEF g2
<1>3. g = g2
  BY DEF TellOf, g1, g2
<1> QED BY <1>1, <1>2, <1>3

\* The frame when it has been told.
ToldOf(f, s, j) == [f EXCEPT !.caller = s, !.i = j]

LEMMA ToldFrame ==
  ASSUME NEW f \in Frames, NEW s \in State \cup {None}, NEW j \in Nat, NEW g,
         g = ToldOf(f, s, j)
  PROVE  /\ g \in Frames /\ g.caller = s /\ g.i = j /\ g.hook = f.hook
         /\ g.class = f.class /\ g.phase = f.phase /\ g.told = f.told
         /\ g.due = f.due /\ g.ran = f.ran
<1> DEFINE g1 == [f EXCEPT !.caller = s]
<1>1. /\ g1 \in Frames /\ g1.caller = s /\ g1.hook = f.hook
      /\ g1.class = f.class /\ g1.phase = f.phase /\ g1.i = f.i
      /\ g1.told = f.told /\ g1.due = f.due /\ g1.ran = f.ran
  BY DEF Frames
<1> HIDE DEF g1
<1> DEFINE g2 == [g1 EXCEPT !.i = j]
<1>2. /\ g2 \in Frames /\ g2.i = j /\ g2.hook = g1.hook
      /\ g2.class = g1.class /\ g2.phase = g1.phase
      /\ g2.caller = g1.caller /\ g2.told = g1.told /\ g2.due = g1.due
      /\ g2.ran = g1.ran
  BY <1>1 DEF Frames
<1> HIDE DEF g2
<1>3. g = g2
  BY DEF ToldOf, g1, g2
<1> QED BY <1>1, <1>2, <1>3

\* The frame at the call of the original function.
OriginalOf(f, p, r) == [f EXCEPT !.phase = p, !.ran = r]

LEMMA OriginalFrame ==
  ASSUME NEW f \in Frames, NEW p \in Phases, NEW r \in Class \cup {None, Gate}, NEW g,
         g = OriginalOf(f, p, r)
  PROVE  /\ g \in Frames /\ g.phase = p /\ g.ran = r /\ g.hook = f.hook
         /\ g.class = f.class /\ g.i = f.i /\ g.caller = f.caller
         /\ g.told = f.told /\ g.due = f.due
<1> DEFINE g1 == [f EXCEPT !.phase = p]
<1>1. /\ g1 \in Frames /\ g1.phase = p /\ g1.hook = f.hook
      /\ g1.class = f.class /\ g1.i = f.i /\ g1.caller = f.caller
      /\ g1.told = f.told /\ g1.due = f.due /\ g1.ran = f.ran
  BY DEF Frames
<1> HIDE DEF g1
<1> DEFINE g2 == [g1 EXCEPT !.ran = r]
<1>2. /\ g2 \in Frames /\ g2.ran = r /\ g2.hook = g1.hook
      /\ g2.class = g1.class /\ g2.phase = g1.phase /\ g2.i = g1.i
      /\ g2.caller = g1.caller /\ g2.told = g1.told /\ g2.due = g1.due
  BY <1>1 DEF Frames
<1> HIDE DEF g2
<1>3. g = g2
  BY DEF OriginalOf, g1, g2
<1> QED BY <1>1, <1>2, <1>3

\* The frame of a call that has no second loop, at its end.
DoneOf(f, p, t, d) == [f EXCEPT !.phase = p, !.told = t, !.due = d]

LEMMA DoneFrame ==
  ASSUME NEW f \in Frames, NEW p \in Phases, NEW t \in Seq(State), NEW d \in SUBSET State, NEW g,
         g = DoneOf(f, p, t, d)
  PROVE  /\ g \in Frames /\ g.phase = p /\ g.told = t /\ g.due = d
         /\ g.hook = f.hook /\ g.class = f.class /\ g.i = f.i
         /\ g.caller = f.caller /\ g.ran = f.ran
<1> DEFINE g1 == [f EXCEPT !.phase = p]
<1>1. /\ g1 \in Frames /\ g1.phase = p /\ g1.hook = f.hook
      /\ g1.class = f.class /\ g1.i = f.i /\ g1.caller = f.caller
      /\ g1.told = f.told /\ g1.due = f.due /\ g1.ran = f.ran
  BY DEF Frames
<1> HIDE DEF g1
<1> DEFINE g2 == [g1 EXCEPT !.told = t]
<1>2. /\ g2 \in Frames /\ g2.told = t /\ g2.hook = g1.hook
      /\ g2.class = g1.class /\ g2.phase = g1.phase /\ g2.i = g1.i
      /\ g2.caller = g1.caller /\ g2.due = g1.due /\ g2.ran = g1.ran
  BY <1>1 DEF Frames
<1> HIDE DEF g2
<1> DEFINE g3 == [g2 EXCEPT !.due = d]
<1>3. /\ g3 \in Frames /\ g3.due = d /\ g3.hook = g2.hook
      /\ g3.class = g2.class /\ g3.phase = g2.phase /\ g3.i = g2.i
      /\ g3.caller = g2.caller /\ g3.told = g2.told /\ g3.ran = g2.ran
  BY <1>2 DEF Frames
<1> HIDE DEF g3
<1>4. g = g3
  BY DEF DoneOf, g1, g2, g3
<1> QED BY <1>1, <1>2, <1>3, <1>4

\* SetTop changes the innermost call and no other.
LEMMA SetTopFacts ==
  ASSUME HooksTypeOK, frames # <<>>, NEW f \in Frames, SetNow(f)
  PROVE  /\ frames' \in Seq(Frames) /\ DOMAIN frames' = DOMAIN frames
         /\ \A k \in DOMAIN frames' : frames'[k] = frames[k] \/ (frames'[k] = f /\ frames[k] = Now)
<1>1. frames \in Seq(Frames) /\ Len(frames) \in 1 .. Len(frames)
  BY EmptySeq DEF HooksTypeOK
<1>2. frames' = [frames EXCEPT ![Len(frames)] = f]
  BY DEF SetNow
<1>3. /\ frames' \in Seq(Frames) /\ Len(frames') = Len(frames)
      /\ \A k \in 1 .. Len(frames) : frames'[k] = IF k = Len(frames) THEN f ELSE frames[k]
  BY <1>1, <1>2, ExceptSeq
<1> QED BY <1>1, <1>3 DEF Now

\* The innermost call.
LEMMA TopFacts ==
  ASSUME HooksTypeOK, frames # <<>>
  PROVE  Now \in Frames /\ Len(frames) \in DOMAIN frames /\ Now = frames[Len(frames)]
<1>1. frames \in Seq(Frames) /\ Len(frames) \in 1 .. Len(frames)
  BY EmptySeq DEF HooksTypeOK
<1> QED BY <1>1, ElementOfSeq DEF Now

\* What becomes of a call in a step of the innermost call.
StepOf(f, g) ==
  /\ g.hook = f.hook /\ g.class = f.class
  /\ \/ g = f
     \/ /\ f.phase \in Loops /\ f.caller = None /\ f.i < Len(list)
        /\ g.caller = slots[f.i + 1] /\ g.told = Append(f.told, slots[f.i + 1])
        /\ g.phase = f.phase /\ g.i = f.i /\ g.due = f.due
     \/ /\ f.caller # None /\ g.caller = None /\ g.i = f.i + 1
        /\ g.phase = f.phase /\ g.told = f.told /\ g.due = f.due /\ g.ran = f.ran
     \/ /\ f.phase = "pre" /\ f.caller = None /\ f.i >= Len(list)
        /\ g.phase = "original" /\ g.ran = original[f.hook]
        /\ g.i = f.i /\ g.caller = None /\ g.told = f.told /\ g.due = f.due
     \/ /\ f.phase = "original" /\ g.phase = "post" /\ g.i = 0 /\ g.caller = f.caller
        /\ g.told = <<>> /\ g.due = open
     \/ /\ f.phase = "original" /\ g.phase = "done" /\ g.caller = f.caller /\ g.due = {}
     \/ /\ f.phase = "post" /\ f.caller = None /\ f.i >= Len(list)
        /\ g.phase = "done" /\ g.i = f.i /\ g.caller = None
        /\ g.told = f.told /\ g.due = f.due

\* A step of the innermost call keeps the type of the others, and of itself.
LEMMA CallStepFacts ==
  ASSUME HooksTypeOK, SlotsInv, CallStep
  PROVE  /\ UNCHANGED <<stateVars, hookVars>> /\ frames' \in Seq(Frames)
         /\ \A k \in DOMAIN frames' : k \in DOMAIN frames /\ StepOf(frames[k], frames'[k])
<1>1. UNCHANGED <<stateVars, hookVars>>
  BY DEF CallStep, TellNext, TellReturns, CallOriginal, OriginalReturns, EndPostLoop, Return
<1>2. frames # <<>>
  BY DEF CallStep, TellNext, TellReturns, CallOriginal, OriginalReturns, EndPostLoop, Return,
     InLoop, InCallback
<1>3. Now \in Frames
  BY <1>2, TopFacts
<1>4. ASSUME NEW g \in Frames, SetNow(g), StepOf(Now, g)
      PROVE  /\ frames' \in Seq(Frames)
             /\ \A k \in DOMAIN frames' : k \in DOMAIN frames /\ StepOf(frames[k], frames'[k])
  <2>1. /\ frames' \in Seq(Frames) /\ DOMAIN frames' = DOMAIN frames
        /\ \A k \in DOMAIN frames' : frames'[k] = frames[k] \/ (frames'[k] = g /\ frames[k] = Now)
    BY <1>2, <1>4, SetTopFacts
  <2>2. \A k \in DOMAIN frames' : frames'[k] = frames[k] => StepOf(frames[k], frames'[k])
    BY DEF StepOf
  <2> QED BY <1>4, <2>1, <2>2
<1>5. CASE TellNext
  <2> DEFINE s == slots[Now.i + 1]
             g == [Now EXCEPT !.caller = s, !.told = Append(@, s)]
  <2>1. s \in State
    <3>1. PICK n \in Nat : Len(list) = n
      BY SlotCounts
    <3>2. Now.i + 1 \in 1 .. n
      BY <1>3, <1>5, <3>1 DEF TellNext, Frames
    <3> QED BY <3>1, <3>2, ListedFacts
  <2>2. Now.told \in Seq(State)
    BY <1>3 DEF Frames
  <2>3. Append(Now.told, s) \in Seq(State)
    BY <2>1, <2>2, AppendProperties
  <2>4. SetNow(g) /\ Now.phase \in Loops /\ Now.caller = None /\ Now.i < Len(list)
    BY <1>5 DEF TellNext, InLoop
  <2> HIDE DEF g
  <2>5. /\ g \in Frames /\ g.caller = s /\ g.told = Append(Now.told, s)
        /\ g.hook = Now.hook /\ g.class = Now.class /\ g.phase = Now.phase
        /\ g.i = Now.i /\ g.due = Now.due
    <3> DEFINE t == Append(Now.told, s)
    <3>1. s \in State \cup {None} /\ t \in Seq(State) /\ g = TellOf(Now, s, t)
      BY <2>1, <2>3 DEF g, TellOf
    <3> HIDE DEF s, t
    <3>2. /\ g \in Frames /\ g.caller = s /\ g.told = t
          /\ g.hook = Now.hook /\ g.class = Now.class /\ g.phase = Now.phase
          /\ g.i = Now.i /\ g.due = Now.due
      BY <1>3, <3>1, TellFrame
    <3> QED BY <3>2 DEF t
  <2>6. StepOf(Now, g)
    BY <2>4, <2>5 DEF StepOf
  <2> QED BY <2>4, <2>5, <2>6, <1>1, <1>4
<1>6. CASE TellReturns
  <2> DEFINE g == [Now EXCEPT !.caller = None, !.i = @ + 1]
  <2>1. SetNow(g) /\ Now.caller # None
    BY <1>6 DEF TellReturns, InCallback
  <2>2. Now.i + 1 \in Nat
    BY <1>3 DEF Frames
  <2> HIDE DEF g
  <2>3. /\ g \in Frames /\ g.caller = None /\ g.i = Now.i + 1
        /\ g.hook = Now.hook /\ g.class = Now.class /\ g.phase = Now.phase
        /\ g.told = Now.told /\ g.due = Now.due /\ g.ran = Now.ran
    <3>1. None \in State \cup {None} /\ g = ToldOf(Now, None, Now.i + 1)
      BY DEF g, ToldOf
    <3> QED BY <1>3, <2>2, <3>1, ToldFrame
  <2>4. StepOf(Now, g)
    BY <2>1, <2>3 DEF StepOf
  <2> QED BY <2>1, <2>3, <2>4, <1>1, <1>4
<1>7. CASE CallOriginal
  <2> DEFINE g == [Now EXCEPT !.phase = "original", !.ran = original[Now.hook]]
  <2>1. original[Now.hook] \in Class \cup {None, Gate}
    BY <1>3 DEF Frames, HooksTypeOK
  <2>2. SetNow(g) /\ Now.phase = "pre" /\ Now.caller = None /\ Now.i >= Len(list)
    BY <1>7 DEF CallOriginal, InLoop
  <2> HIDE DEF g
  <2>3. /\ g \in Frames /\ g.phase = "original" /\ g.ran = original[Now.hook]
        /\ g.hook = Now.hook /\ g.class = Now.class /\ g.i = Now.i
        /\ g.caller = Now.caller /\ g.told = Now.told /\ g.due = Now.due
    <3>1. "original" \in Phases
      BY DEF Phases
    <3>2. g = OriginalOf(Now, "original", original[Now.hook])
      BY DEF g, OriginalOf
    <3> QED BY <1>3, <2>1, <3>1, <3>2, OriginalFrame
  <2>4. StepOf(Now, g)
    BY <2>2, <2>3 DEF StepOf
  <2> QED BY <2>2, <2>3, <2>4, <1>1, <1>4
<1>8. CASE OriginalReturns
  <2>0. Now.phase = "original" /\ open \subseteq State /\ <<>> \in Seq(State)
    BY <1>8 DEF OriginalReturns, HooksTypeOK
  <2>1. CASE Now.hook \in PostHook
    <3> DEFINE g == StartLoop(Now, "post")
    <3>1. SetNow(g)
      BY <1>8, <2>1 DEF OriginalReturns
    <3>2. g = LoopOf(Now, "post", 0, <<>>, open)
      BY DEF StartLoop, FirstIndex, LoopOf
    <3> HIDE DEF g
    <3>3. /\ g \in Frames /\ g.phase = "post" /\ g.i = 0 /\ g.told = <<>> /\ g.due = open
          /\ g.hook = Now.hook /\ g.class = Now.class /\ g.caller = Now.caller
      <4> DEFINE t == <<>>
      <4>1. "post" \in Phases /\ 0 \in Nat /\ t \in Seq(State) /\ open \in SUBSET State
        BY <2>0 DEF Phases
      <4>2. g = LoopOf(Now, "post", 0, t, open)
        BY <3>2
      <4> HIDE DEF t
      <4>3. /\ g \in Frames /\ g.phase = "post" /\ g.i = 0 /\ g.told = t /\ g.due = open
            /\ g.hook = Now.hook /\ g.class = Now.class /\ g.caller = Now.caller
        BY <1>3, <4>1, <4>2, LoopFrame
      <4> QED BY <4>3 DEF t
    <3>4. StepOf(Now, g)
      BY <2>0, <3>3 DEF StepOf
    <3> QED BY <3>1, <3>3, <3>4, <1>1, <1>4
  <2>2. CASE Now.hook \notin PostHook
    <3> DEFINE g == [Now EXCEPT !.phase = "done", !.told = <<>>, !.due = {}]
    <3>1. SetNow(g)
      BY <1>8, <2>2 DEF OriginalReturns
    <3> HIDE DEF g
    <3>2. /\ g \in Frames /\ g.phase = "done" /\ g.due = {}
          /\ g.hook = Now.hook /\ g.class = Now.class /\ g.caller = Now.caller
      <4> DEFINE t == <<>>
      <4>1. "done" \in Phases /\ t \in Seq(State) /\ {} \in SUBSET State
        BY <2>0 DEF Phases
      <4>2. g = DoneOf(Now, "done", t, {})
        BY DEF g, DoneOf
      <4> HIDE DEF t
      <4> QED BY <1>3, <4>1, <4>2, DoneFrame
    <3>3. StepOf(Now, g)
      BY <2>0, <3>2 DEF StepOf
    <3> QED BY <3>1, <3>2, <3>3, <1>1, <1>4
  <2> QED BY <2>1, <2>2
<1>9. CASE EndPostLoop
  <2> DEFINE g == [Now EXCEPT !.phase = "done"]
  <2>1. SetNow(g) /\ Now.phase = "post" /\ Now.caller = None /\ Now.i >= Len(list)
    BY <1>9 DEF EndPostLoop, InLoop
  <2>2. /\ g \in Frames /\ g.phase = "done"
        /\ g.hook = Now.hook /\ g.class = Now.class /\ g.i = Now.i
        /\ g.caller = Now.caller /\ g.told = Now.told /\ g.due = Now.due
    BY <1>3 DEF Frames, Phases
  <2> HIDE DEF g
  <2>3. StepOf(Now, g)
    BY <2>1, <2>2 DEF StepOf
  <2> QED BY <2>1, <2>2, <2>3, <1>1, <1>4
<1>10. CASE Return
  <2>1. frames \in Seq(Frames) /\ frames' = Front(frames)
    BY <1>10 DEF HooksTypeOK, Return
  <2>2. PICK n \in Nat :
          /\ Len(frames) = n + 1 /\ frames' \in Seq(Frames) /\ Len(frames') = n
          /\ \A i \in 1 .. n : frames'[i] = frames[i]
    BY <1>2, <2>1, FrontFacts
  <2>3. DOMAIN frames = 1 .. n + 1 /\ DOMAIN frames' = 1 .. n
    BY <2>1, <2>2
  <2>4. \A k \in 1 .. n : k \in 1 .. n + 1 /\ StepOf(frames[k], frames'[k])
    BY <2>2 DEF StepOf
  <2> QED BY <1>1, <2>2, <2>3, <2>4
<1> QED BY <1>5, <1>6, <1>7, <1>8, <1>9, <1>10 DEF CallStep

\* A hooked call starts at the innermost end, telling the states.
LEMMA CallFacts ==
  ASSUME HooksTypeOK, NEW h \in Hook, NEW c \in Class, Call(h, c)
  PROVE  \E g \in Frames, n \in Nat :
           /\ Len(frames) = n /\ frames' \in Seq(Frames) /\ Len(frames') = n + 1
           /\ frames'[n + 1] = g /\ \A k \in 1 .. n : frames'[k] = frames[k]
           /\ g.hook = h /\ g.class = c /\ g.phase = "pre" /\ g.i = 0
           /\ g.caller = None /\ g.told = <<>> /\ g.due = open
<1> DEFINE b == [hook |-> h, class |-> c, phase |-> "pre", i |-> 0, caller |-> None,
                 told |-> <<>>, due |-> {}, ran |-> None]
           g == StartLoop(b, "pre")
           t == <<>>
<1>1. /\ b \in Frames /\ b.hook = h /\ b.class = c /\ b.caller = None
  BY DEF Frames, Phases
<1>2. frames' = Append(frames, g)
  BY DEF Call
<1>3. g = LoopOf(b, "pre", 0, t, open)
  BY DEF StartLoop, FirstIndex, LoopOf
<1>4. "pre" \in Phases /\ 0 \in Nat /\ t \in Seq(State) /\ open \in SUBSET State
  BY DEF Phases, HooksTypeOK
<1> HIDE DEF b, g, t
<1>5. /\ g \in Frames /\ g.phase = "pre" /\ g.i = 0 /\ g.told = t /\ g.due = open
      /\ g.hook = h /\ g.class = c /\ g.caller = None
  BY <1>1, <1>3, <1>4, LoopFrame
<1>6. PICK n \in Nat : Len(frames) = n
  BY DEF HooksTypeOK
<1>7. /\ frames' \in Seq(Frames) /\ Len(frames') = n + 1
      /\ frames'[n + 1] = g /\ \A k \in 1 .. n : frames'[k] = frames[k]
  BY <1>2, <1>5, <1>6, AppendProperties DEF HooksTypeOK
<1>8. g.told = <<>>
  BY <1>5 DEF t
<1> QED BY <1>5, <1>6, <1>7, <1>8

\* When a state closes, no call waits for its answer, and none owes it a call.
LEMMA CloseCalls ==
  ASSUME HooksTypeOK, NEW s \in State, Close(s)
  PROVE  /\ frames' \in Seq(Frames) /\ DOMAIN frames' = DOMAIN frames
         /\ \A k \in DOMAIN frames' :
              LET f == frames[k] g == frames'[k]
              IN  /\ f \in Frames /\ g \in Frames /\ f.caller # s /\ g.due = f.due \ {s}
                  /\ g.hook = f.hook /\ g.class = f.class /\ g.phase = f.phase /\ g.i = f.i
                  /\ g.caller = f.caller /\ g.told = f.told /\ g.ran = f.ran
<1>1. PICK n \in Nat : Len(frames) = n
  BY DEF HooksTypeOK
<1>2. frames \in Seq(Frames) /\ DOMAIN frames = 1 .. n
  BY <1>1 DEF HooksTypeOK
<1>3. frames' = [k \in 1 .. n |-> [frames[k] EXCEPT !.due = frames[k].due \ {s}]]
  BY <1>2 DEF Close
<1>4. ASSUME NEW k \in 1 .. n
      PROVE  LET f == frames[k] g == frames'[k]
             IN  /\ f \in Frames /\ g \in Frames /\ f.caller # s /\ g.due = f.due \ {s}
                 /\ g.hook = f.hook /\ g.class = f.class /\ g.phase = f.phase /\ g.i = f.i
                 /\ g.caller = f.caller /\ g.told = f.told /\ g.ran = f.ran
  <2>1. frames[k] \in Frames /\ frames[k].caller # s
    BY <1>1, <1>2, ElementOfSeq DEF Close
  <2>2. frames'[k] = [frames[k] EXCEPT !.due = frames[k].due \ {s}]
    BY <1>3
  <2> QED BY <2>1, <2>2 DEF Frames
<1>5. frames' \in Seq(Frames) /\ DOMAIN frames' = 1 .. n
  BY <1>3, <1>4, IsASeq
<1> QED BY <1>2, <1>4, <1>5

(***************************************************************************)
(* Every step keeps the types.                                             *)
(***************************************************************************)

LEMMA TypeStep ==
  ASSUME HooksTypeOK, SlotsInv, HookHabits = {}, [HooksNext]_netVars
  PROVE  HooksTypeOK'
<1>1. ASSUME NEW s \in State, Open(s)
      PROVE  HooksTypeOK'
  <2>1. /\ slots' \in Seq(State)
        /\ list' \in Seq(1 .. Len(slots')) /\ free' \in Seq(1 .. Len(slots'))
    <3>1. PICK n \in Nat : Len(list) = n
      BY SlotCounts
    <3> QED BY <1>1, <3>1, OpenFacts
  <2> QED BY <1>1, <2>1 DEF HooksTypeOK, Open, hookVars
<1>2. ASSUME NEW s \in State, Close(s)
      PROVE  HooksTypeOK'
  <2>1. slots' = slots /\ list' \in Seq(1 .. Len(slots)) /\ free' \in Seq(1 .. Len(slots))
    BY <1>2, CloseFacts
  <2>2. frames' \in Seq(Frames)
    BY <1>2, CloseCalls
  <2> QED BY <1>2, <2>1, <2>2 DEF HooksTypeOK, Close, hookVars
<1>3. ASSUME NEW h \in Hook, NEW c \in Class, Attach(h, c)
      PROVE  HooksTypeOK'
  <2>1. UNCHANGED <<slots, list, free, open, frames>>
    BY <1>3 DEF Attach, stateVars
  <2>2. /\ attached' \in [Hook -> BOOLEAN]
        /\ original' \in [Hook -> Class \cup {None, Gate}]
    BY <1>3 DEF Attach, HooksTypeOK
  <2>3. vtable' \in [Class -> [Hook -> Class \cup {None, Gate}]]
    BY <1>3 DEF Attach, HooksTypeOK
  <2> QED BY <2>1, <2>2, <2>3 DEF HooksTypeOK
<1>4. ASSUME NEW h \in Hook, NEW c \in Class, Detach(h, c)
      PROVE  HooksTypeOK'
  <2>1. UNCHANGED <<slots, list, free, open, original, frames>>
    BY <1>4 DEF Detach, stateVars
  <2>2. /\ attached' \in [Hook -> BOOLEAN]
        /\ vtable' \in [Class -> [Hook -> Class \cup {None, Gate}]]
    BY <1>4 DEF Detach, HooksTypeOK
  <2> QED BY <2>1, <2>2 DEF HooksTypeOK
<1>5. ASSUME NEW h \in Hook, NEW c \in Class, Call(h, c)
      PROVE  HooksTypeOK'
  <2>1. frames' \in Seq(Frames)
    BY <1>5, CallFacts
  <2> QED BY <1>5, <2>1 DEF HooksTypeOK, Call, stateVars, hookVars
<1>6. CASE CallStep
  <2>1. UNCHANGED <<stateVars, hookVars>> /\ frames' \in Seq(Frames)
    BY <1>6, CallStepFacts
  <2> QED BY <2>1 DEF HooksTypeOK, stateVars, hookVars
<1>7. CASE UNCHANGED netVars
  BY <1>7 DEF HooksTypeOK, netVars, stateVars, hookVars
<1> QED BY <1>1, <1>2, <1>3, <1>4, <1>5, <1>6, <1>7 DEF HooksNext

(***************************************************************************)
(* The virtual tables, and the functions the calls take from them.         *)
(***************************************************************************)

\* Attach hooks a class when none is, Detach restores the one that is.
LEMMA PatchStep ==
  ASSUME HooksTypeOK, SlotsInv, PatchInv, HookHabits = {}, [HooksNext]_netVars
  PROVE  PatchInv'
<1>1. CASE UNCHANGED hookVars
  BY <1>1 DEF PatchInv, hookVars
<1>2. ASSUME NEW h \in Hook, NEW c \in Class, Attach(h, c)
      PROVE  PatchInv'
  <2>1. /\ ~attached[h]
        /\ attached' = [attached EXCEPT ![h] = TRUE]
        /\ original' = [original EXCEPT ![h] = vtable[c][h]]
        /\ vtable' = [vtable EXCEPT ![c][h] = Gate]
    BY <1>2 DEF Attach, IsAttached
  <2>2. \A d \in Class : vtable[d][h] = d
    BY <2>1 DEF PatchInv
  <2>3. /\ attached'[h] = TRUE /\ original'[h] = c /\ vtable'[c][h] = Gate
        /\ \A d \in Class \ {c} : vtable'[d][h] = d
    BY <2>1, <2>2 DEF HooksTypeOK
  <2>4. \A k \in Hook \ {h} :
          /\ attached'[k] = attached[k] /\ original'[k] = original[k]
          /\ \A d \in Class : vtable'[d][k] = vtable[d][k]
    BY <2>1 DEF HooksTypeOK
  <2>5. ASSUME NEW k \in Hook \ {h}
        PROVE  IF attached'[k]
               THEN /\ original'[k] \in Class /\ vtable'[original'[k]][k] = Gate
                    /\ \A d \in Class \ {original'[k]} : vtable'[d][k] = d
               ELSE \A d \in Class : vtable'[d][k] = d
    BY <2>4 DEF PatchInv
  <2> QED BY <2>3, <2>5 DEF PatchInv
<1>3. ASSUME NEW h \in Hook, NEW c \in Class, Detach(h, c)
      PROVE  PatchInv'
  <2>1. /\ attached[h] /\ vtable[c][h] = Gate
        /\ attached' = [attached EXCEPT ![h] = FALSE]
        /\ original' = original
        /\ vtable' = [vtable EXCEPT ![c][h] = original[h]]
    BY <1>3 DEF Detach
  <2>2. /\ original[h] \in Class /\ \A d \in Class \ {original[h]} : vtable[d][h] = d
    BY <2>1 DEF PatchInv
  <2>3. c = original[h]
    BY <2>1, <2>2, NetHooksAssumption
  <2>4. attached'[h] = FALSE /\ \A d \in Class : vtable'[d][h] = d
    BY <2>1, <2>2, <2>3 DEF HooksTypeOK
  <2>5. \A k \in Hook \ {h} :
          /\ attached'[k] = attached[k] /\ original'[k] = original[k]
          /\ \A d \in Class : vtable'[d][k] = vtable[d][k]
    BY <2>1 DEF HooksTypeOK
  <2>6. ASSUME NEW k \in Hook \ {h}
        PROVE  IF attached'[k]
               THEN /\ original'[k] \in Class /\ vtable'[original'[k]][k] = Gate
                    /\ \A d \in Class \ {original'[k]} : vtable'[d][k] = d
               ELSE \A d \in Class : vtable'[d][k] = d
    BY <2>5 DEF PatchInv
  <2> QED BY <2>4, <2>6 DEF PatchInv
<1>4. ASSUME NEW s \in State, Open(s) \/ Close(s)
      PROVE  UNCHANGED hookVars
  BY <1>4 DEF Open, Close
<1>5. ASSUME NEW h \in Hook, NEW c \in Class, Call(h, c)
      PROVE  UNCHANGED hookVars
  BY <1>5 DEF Call
<1>6. CASE CallStep
  BY <1>1, <1>6, CallStepFacts
<1>7. CASE UNCHANGED netVars
  BY <1>1, <1>7 DEF netVars
<1> QED BY <1>1, <1>2, <1>3, <1>4, <1>5, <1>6, <1>7 DEF HooksNext

\* A hook is attached to no other class in the middle of its call, so the
\* variable its original is called through stays that of the call's class.
LEMMA CallInvStep ==
  ASSUME HooksTypeOK, SlotsInv, PatchInv, CallInv, HookHabits = {}, [HooksNext]_netVars
  PROVE  CallInv'
<1>0. frames \in Seq(Frames)
  BY DEF HooksTypeOK
<1>1. CASE UNCHANGED <<original, frames>>
  BY <1>1 DEF CallInv
<1>2. ASSUME NEW s \in State, Close(s)
      PROVE  CallInv'
  <2>1. original' = original
    BY <1>2 DEF Close, hookVars
  <2> QED BY <1>2, <2>1, CloseCalls DEF CallInv
<1>3. ASSUME NEW h \in Hook, NEW c \in Class, Attach(h, c)
      PROVE  CallInv'
  <2>1. /\ ~attached[h] /\ frames' = frames
        /\ original' = [original EXCEPT ![h] = vtable[c][h]]
        /\ \A k \in DOMAIN frames : frames[k].hook = h => frames[k].class = c
    BY <1>3 DEF Attach, IsAttached, InCallOfOther
  <2>2. vtable[c][h] = c
    BY <2>1 DEF PatchInv
  <2>3. ASSUME NEW k \in DOMAIN frames
        PROVE  frames[k].hook \in Hook
    <3>1. frames[k] \in Frames
      BY <1>0
    <3> QED BY <3>1 DEF Frames
  <2>4. \A k \in DOMAIN frames : original'[frames[k].hook] = frames[k].class
    BY <2>1, <2>2, <2>3 DEF CallInv, HooksTypeOK
  <2> QED BY <2>1, <2>4 DEF CallInv
<1>4. ASSUME NEW h \in Hook, NEW c \in Class, Call(h, c)
      PROVE  CallInv'
  <2>1. PICK g \in Frames, n \in Nat :
          /\ Len(frames) = n /\ frames' \in Seq(Frames) /\ Len(frames') = n + 1
          /\ frames'[n + 1] = g /\ \A k \in 1 .. n : frames'[k] = frames[k]
          /\ g.hook = h /\ g.class = c /\ g.phase = "pre" /\ g.i = 0
          /\ g.caller = None /\ g.told = <<>> /\ g.due = open
    BY <1>4, CallFacts
  <2>2. vtable[c][h] = Gate /\ original' = original
    BY <1>4 DEF Call, hookVars
  <2>3. original[h] = c
    <3>1. Gate # c
      BY NetHooksAssumption
    <3>2. IF attached[h] THEN \A d \in Class \ {original[h]} : vtable[d][h] = d
          ELSE \A d \in Class : vtable[d][h] = d
      BY DEF PatchInv
    <3> QED BY <2>2, <3>1, <3>2
  <2>4. DOMAIN frames = 1 .. n /\ DOMAIN frames' = 1 .. n + 1
    BY <1>0, <2>1
  <2>5. \A k \in 1 .. n + 1 : k \in 1 .. n \/ k = n + 1
    OBVIOUS
  <2> QED BY <2>1, <2>2, <2>3, <2>4, <2>5 DEF CallInv
<1>5. CASE CallStep
  <2>1. /\ original' = original
        /\ \A k \in DOMAIN frames' : k \in DOMAIN frames /\ StepOf(frames[k], frames'[k])
    BY <1>5, CallStepFacts DEF hookVars
  <2>2. ASSUME NEW k \in DOMAIN frames'
        PROVE  /\ frames'[k].phase = "original" => frames'[k].ran = frames'[k].class
               /\ original'[frames'[k].hook] = frames'[k].class
    <3>1. k \in DOMAIN frames /\ StepOf(frames[k], frames'[k])
      BY <2>1
    <3>2. /\ frames[k].phase = "original" => frames[k].ran = frames[k].class
          /\ original[frames[k].hook] = frames[k].class
      BY <3>1 DEF CallInv
    <3> QED BY <2>1, <3>1, <3>2 DEF StepOf, Loops
  <2> QED BY <2>2 DEF CallInv
<1>6. ASSUME NEW s \in State, Open(s)
      PROVE  UNCHANGED <<original, frames>>
  BY <1>6 DEF Open, hookVars
<1>7. ASSUME NEW h \in Hook, NEW c \in Class, Detach(h, c)
      PROVE  UNCHANGED <<original, frames>>
  BY <1>7 DEF Detach
<1>8. CASE UNCHANGED netVars
  BY <1>1, <1>8 DEF netVars, hookVars
<1> QED BY <1>1, <1>2, <1>3, <1>4, <1>5, <1>6, <1>7, <1>8 DEF HooksNext

(***************************************************************************)
(* The loops over the states.                                              *)
(***************************************************************************)

\* Telling a state that was not told, in a loop.
LEMMA TellOnce ==
  ASSUME NEW f \in Frames, NEW g \in Frames, NEW s \in State, g.told = Append(f.told, s)
  PROVE  /\ s \notin ToSet(f.told) => ToldOnce(g, s)
         /\ \A e \in State \ {s} : /\ ToldOnce(f, e) => ToldOnce(g, e)
                                   /\ e \notin ToSet(f.told) => e \notin ToSet(g.told)
<1>1. f.told \in Seq(State)
  BY DEF Frames
<1>2. PICK n \in Nat : Len(f.told) = n
  BY <1>1
<1>3. /\ DOMAIN f.told = 1 .. n /\ DOMAIN g.told = 1 .. n + 1 /\ g.told[n + 1] = s
      /\ \A i \in 1 .. n : g.told[i] = f.told[i]
  <2>1. /\ Append(f.told, s) \in Seq(State) /\ Len(Append(f.told, s)) = n + 1
        /\ Append(f.told, s)[n + 1] = s
        /\ \A i \in 1 .. n : Append(f.told, s)[i] = f.told[i]
    BY <1>1, <1>2, AppendProperties
  <2> QED BY <1>1, <1>2, <2>1
<1>4. \A i \in 1 .. n + 1 : i \in 1 .. n \/ i = n + 1
  OBVIOUS
<1>5. n + 1 \in 1 .. n + 1 /\ n + 1 \notin 1 .. n /\ \A i \in 1 .. n : i \in 1 .. n + 1
  OBVIOUS
<1>6. s \notin ToSet(f.told) => ToldOnce(g, s)
  BY <1>3, <1>4, <1>5 DEF ToSet, ToldOnce
<1>7. ASSUME NEW e \in State \ {s}
      PROVE  /\ ToldOnce(f, e) => ToldOnce(g, e)
             /\ e \notin ToSet(f.told) => e \notin ToSet(g.told)
  BY <1>3, <1>4, <1>5 DEF ToSet, ToldOnce
<1> QED BY <1>6, <1>7

\* What the loop knows of a call outlives a step of it.
LEMMA LoopStep ==
  ASSUME HooksTypeOK, SlotsInv, NEW f \in Frames, NEW g \in Frames, LoopOK(f, Listed), StepOf(f, g)
  PROVE  LoopOK(g, Listed)
<1>1. PICK n \in Nat : Len(list) = n
  BY SlotCounts
<1>2. /\ DOMAIN Listed = 1 .. n /\ open = ToSet(Listed)
      /\ \A i \in 1 .. n : Listed[i] = slots[i] /\ Listed[i] \in State
  BY <1>1, ListedFacts DEF SlotsInv
<1>3. \A i, j \in 1 .. n : Listed[i] = Listed[j] => i = j
  BY <1>1, <1>2 DEF SlotsInv
<1>4. f.i \in Nat /\ f.told \in Seq(State) /\ f.due \subseteq State
  BY DEF Frames
<1>5. CASE /\ f.phase \in Loops /\ f.caller = None /\ f.i < Len(list)
           /\ g.caller = slots[f.i + 1] /\ g.told = Append(f.told, slots[f.i + 1])
           /\ g.phase = f.phase /\ g.i = f.i /\ g.due = f.due
  <2> DEFINE s == Listed[f.i + 1]
  <2>1. /\ f.i + 1 \in 1 .. n /\ s = slots[f.i + 1] /\ s \in State /\ s # None
    <3>1. f.i + 1 \in 1 .. n
      BY <1>1, <1>4, <1>5
    <3>2. \A e \in State : e # None
      BY NetHooksAssumption
    <3> QED BY <1>2, <3>1, <3>2
  <2>2. g.caller = s /\ g.told = Append(f.told, s)
    BY <1>5, <2>1
  <2>3. /\ s \notin ToSet(f.told) => ToldOnce(g, s)
        /\ \A e \in State \ {s} : /\ ToldOnce(f, e) => ToldOnce(g, e)
                                  /\ e \notin ToSet(f.told) => e \notin ToSet(g.told)
    BY <2>1, <2>2, TellOnce
  <2>4. Passed(f) = f.i /\ Passed(g) = f.i + 1
    BY <1>5, <2>1, <2>2 DEF Passed
  <2>5. ASSUME NEW j \in 1 .. n, Listed[j] \in f.due
        PROVE  IF j <= f.i + 1 THEN ToldOnce(g, Listed[j]) ELSE Listed[j] \notin ToSet(g.told)
    <3>1. IF j <= f.i THEN ToldOnce(f, Listed[j]) ELSE Listed[j] \notin ToSet(f.told)
      BY <1>2, <1>5, <2>4, <2>5 DEF LoopOK
    <3>2. CASE j = f.i + 1
      <4>1. ~ (j <= f.i) /\ j <= f.i + 1
        BY <1>4, <3>2
      <4> QED BY <2>3, <3>1, <3>2, <4>1
    <3>3. CASE j # f.i + 1
      <4>1. Listed[j] \in State \ {s}
        BY <1>2, <1>3, <2>1, <3>3
      <4>2. (j <= f.i) <=> (j <= f.i + 1)
        BY <1>4, <3>3
      <4> HIDE DEF s
      <4> QED BY <2>3, <3>1, <4>1, <4>2
    <3> QED BY <3>2, <3>3
  <2>6. f.due \subseteq ToSet(Listed)
    BY DEF LoopOK
  <2> QED BY <1>2, <1>5, <2>1, <2>2, <2>4, <2>5, <2>6 DEF LoopOK
<1>6. CASE /\ f.caller # None /\ g.caller = None /\ g.i = f.i + 1
           /\ g.phase = f.phase /\ g.told = f.told /\ g.due = f.due
  <2>1. Passed(f) = Passed(g)
    BY <1>6 DEF Passed
  <2>2. \A s : ToldOnce(f, s) <=> ToldOnce(g, s)
    BY <1>6 DEF ToldOnce
  <2> QED BY <1>6, <2>1, <2>2 DEF LoopOK
<1>7. CASE /\ f.phase \in Loops /\ f.caller = None /\ f.i >= Len(list)
           /\ g.phase \notin Loops /\ g.caller = None /\ g.told = f.told /\ g.due = f.due
  <2>1. \A s : ToldOnce(f, s) <=> ToldOnce(g, s)
    BY <1>7 DEF ToldOnce
  <2>2. f.due \subseteq { Listed[j] : j \in 1 .. n }
    BY <1>2 DEF LoopOK, ToSet
  <2>3. ASSUME NEW s \in f.due
        PROVE  ToldOnce(g, s)
    <3>1. PICK j \in 1 .. n : s = Listed[j]
      BY <2>2
    <3>2. Passed(f) = f.i /\ j <= f.i
      BY <1>1, <1>4, <1>7 DEF Passed
    <3> QED BY <1>2, <1>7, <2>1, <3>1, <3>2 DEF LoopOK
  <2> QED BY <1>7, <2>3 DEF LoopOK
<1>8. CASE /\ f.phase = "original" /\ g.phase = "post" /\ g.i = 0 /\ g.caller = f.caller
           /\ g.told = <<>> /\ g.due = open
  <2>1. g.caller = None /\ g.phase \in Loops
    BY <1>8 DEF LoopOK, Loops
  <2>2. Passed(g) = 0
    BY <1>8, <2>1 DEF Passed
  <2>3. ToSet(g.told) = {}
    BY <1>8 DEF ToSet
  <2>4. \A j \in 1 .. n : ~ (j <= 0)
    OBVIOUS
  <2> QED BY <1>2, <1>8, <2>1, <2>2, <2>3, <2>4 DEF LoopOK
<1>9. CASE f.phase = "original" /\ g.phase = "done" /\ g.caller = f.caller /\ g.due = {}
  BY <1>9 DEF LoopOK, Loops
<1>10. CASE g = f
  BY <1>10
<1>11. "original" \notin Loops /\ "done" \notin Loops /\ "pre" \in Loops /\ "post" \in Loops
  BY DEF Loops
<1> QED BY <1>5, <1>6, <1>7, <1>8, <1>9, <1>10, <1>11 DEF StepOf

\* The loops under way are right whatever step is taken.
LEMMA LoopInvStep ==
  ASSUME HooksTypeOK, SlotsInv, LoopInv, HookHabits = {}, [HooksNext]_netVars
  PROVE  LoopInv'
<1>0. frames \in Seq(Frames) /\ \A k \in DOMAIN frames : frames[k] \in Frames
  BY DEF HooksTypeOK
<1>1. PICK n \in Nat : Len(list) = n
  BY SlotCounts
<1>2. /\ DOMAIN Listed = 1 .. n /\ open = ToSet(Listed)
      /\ \A i \in 1 .. n : Listed[i] = slots[i]
  BY <1>1, ListedFacts DEF SlotsInv
<1>3. CASE UNCHANGED <<stateVars, frames>>
  BY <1>3 DEF LoopInv, LoopOK, Listed, stateVars
<1>4. ASSUME NEW s \in State, Open(s)
      PROVE  LoopInv'
  <2>1. /\ Len(list') = n + 1 /\ slots'[n + 1] = s
        /\ \A i \in 1 .. n : slots'[i] = slots[i]
    BY <1>1, <1>4, OpenFacts
  <2>2. s \notin open /\ frames' = frames
    BY <1>4 DEF Open
  <2> DEFINE L == [i \in 1 .. n + 1 |-> slots'[i]]
  <2>3. Listed' = L
    BY <2>1 DEF Listed
  <2>4. /\ DOMAIN L = 1 .. n + 1 /\ L[n + 1] = s
        /\ \A i \in 1 .. n : i \in 1 .. n + 1 /\ L[i] = Listed[i]
    BY <1>2, <2>1
  <2> HIDE DEF L
  <2>5. \A i \in 1 .. n + 1 : i \in 1 .. n \/ i = n + 1
    OBVIOUS
  <2>6. ToSet(Listed) \subseteq ToSet(L)
    BY <1>2, <2>4 DEF ToSet
  <2>7. ASSUME NEW k \in DOMAIN frames
        PROVE  LoopOK(frames[k], L)
    <3> DEFINE f == frames[k]
    <3>1. LoopOK(f, Listed)
      BY DEF LoopInv
    <3> HIDE DEF f
    <3>2. f.due \subseteq ToSet(Listed) /\ s \notin f.due
      BY <1>2, <2>2, <3>1 DEF LoopOK
    <3>3. f.due \subseteq ToSet(L)
      BY <2>6, <3>2
    <3>4. f.caller # None =>
            f.phase \in Loops /\ f.i + 1 \in 1 .. n + 1 /\ f.caller = L[f.i + 1]
      BY <1>2, <2>4, <3>1 DEF LoopOK
    <3>5. ASSUME f.phase \in Loops, NEW j \in 1 .. n + 1, L[j] \in f.due
          PROVE  IF j <= Passed(f) THEN ToldOnce(f, L[j]) ELSE L[j] \notin ToSet(f.told)
      <4>1. j \in 1 .. n /\ L[j] = Listed[j]
        BY <2>4, <2>5, <3>2, <3>5
      <4> QED BY <1>2, <3>1, <3>5, <4>1 DEF LoopOK
    <3>6. f.phase \notin Loops => \A e \in f.due : ToldOnce(f, e)
      BY <3>1 DEF LoopOK
    <3>7. LoopOK(f, L)
      BY <2>4, <3>3, <3>4, <3>5, <3>6 DEF LoopOK
    <3> QED BY <3>7 DEF f
  <2> QED BY <2>2, <2>3, <2>7 DEF LoopInv
<1>5. ASSUME NEW s \in State, Close(s)
      PROVE  LoopInv'
  <2>1. PICK m \in Nat :
          Len(list) = m + 1 /\ s = slots[m + 1] /\ slots' = slots /\ Len(list') = m
    BY <1>5, CloseFacts
  <2>2. n = m + 1
    BY <1>1, <2>1
  <2> DEFINE L == [i \in 1 .. m |-> slots[i]]
  <2>3. Listed' = L
    BY <2>1 DEF Listed
  <2>4. /\ DOMAIN L = 1 .. m /\ Listed[m + 1] = s
        /\ \A i \in 1 .. m : i \in 1 .. n /\ L[i] = Listed[i]
    BY <1>2, <2>1, <2>2
  <2> HIDE DEF L
  <2>5. \A i \in 1 .. n : i \in 1 .. m \/ i = m + 1
    BY <2>2
  <2>6. ToSet(Listed) \subseteq ToSet(L) \cup {s}
    BY <1>2, <2>4, <2>5 DEF ToSet
  <2>7. /\ DOMAIN frames' = DOMAIN frames
        /\ \A k \in DOMAIN frames' :
             LET f == frames[k] g == frames'[k]
             IN  /\ f.caller # s /\ g.due = f.due \ {s} /\ g.phase = f.phase /\ g.i = f.i
                 /\ g.caller = f.caller /\ g.told = f.told
    BY <1>5, CloseCalls
  <2>8. ASSUME NEW k \in DOMAIN frames'
        PROVE  LoopOK(frames'[k], L)
    <3> DEFINE f == frames[k] g == frames'[k]
    <3>1. LoopOK(f, Listed)
      BY <2>7 DEF LoopInv
    <3>2. /\ f.caller # s /\ g.due = f.due \ {s} /\ g.phase = f.phase /\ g.i = f.i
          /\ g.caller = f.caller /\ g.told = f.told
      BY <2>7
    <3> HIDE DEF f, g
    <3>3. g.due \subseteq ToSet(L)
      BY <2>6, <3>1, <3>2 DEF LoopOK
    <3>4. ASSUME g.caller # None
          PROVE  g.phase \in Loops /\ g.i + 1 \in 1 .. m /\ g.caller = L[g.i + 1]
      <4>1. f.phase \in Loops /\ f.i + 1 \in 1 .. n /\ f.caller = Listed[f.i + 1]
        BY <1>2, <3>1, <3>2, <3>4 DEF LoopOK
      <4>2. f.i + 1 \in 1 .. m
        BY <2>4, <2>5, <3>2, <4>1
      <4> QED BY <2>4, <3>2, <4>1, <4>2
    <3>5. Passed(g) = Passed(f) /\ \A e : ToldOnce(g, e) <=> ToldOnce(f, e)
      BY <3>2 DEF Passed, ToldOnce
    <3>6. ASSUME g.phase \in Loops, NEW j \in 1 .. m, L[j] \in g.due
          PROVE  IF j <= Passed(g) THEN ToldOnce(g, L[j]) ELSE L[j] \notin ToSet(g.told)
      <4>1. j \in 1 .. n /\ L[j] = Listed[j] /\ L[j] \in f.due
        BY <2>4, <3>2, <3>6
      <4> QED BY <1>2, <3>1, <3>2, <3>5, <3>6, <4>1 DEF LoopOK
    <3>7. g.phase \notin Loops => \A e \in g.due : ToldOnce(g, e)
      BY <3>1, <3>2, <3>5 DEF LoopOK
    <3>8. LoopOK(g, L)
      BY <2>4, <3>3, <3>4, <3>6, <3>7 DEF LoopOK
    <3> QED BY <3>8 DEF g
  <2> QED BY <2>3, <2>8 DEF LoopInv
<1>6. ASSUME NEW h \in Hook, NEW c \in Class, Call(h, c)
      PROVE  LoopInv'
  <2>1. PICK g \in Frames, m \in Nat :
          /\ Len(frames) = m /\ frames' \in Seq(Frames) /\ Len(frames') = m + 1
          /\ frames'[m + 1] = g /\ \A k \in 1 .. m : frames'[k] = frames[k]
          /\ g.phase = "pre" /\ g.i = 0
          /\ g.caller = None /\ g.told = <<>> /\ g.due = open
    BY <1>6, CallFacts
  <2>2. Listed' = Listed
    BY <1>6 DEF Call, stateVars, Listed
  <2>3. LoopOK(g, Listed)
    <3>1. g.phase \in Loops /\ Passed(g) = 0 /\ ToSet(g.told) = {}
      BY <2>1 DEF Loops, Passed, ToSet
    <3>2. \A j \in 1 .. n : ~ (j <= 0)
      OBVIOUS
    <3> QED BY <1>2, <2>1, <3>1, <3>2 DEF LoopOK
  <2>4. DOMAIN frames = 1 .. m /\ DOMAIN frames' = 1 .. m + 1
    BY <1>0, <2>1
  <2>5. \A k \in 1 .. m + 1 : k \in 1 .. m \/ k = m + 1
    OBVIOUS
  <2>6. ASSUME NEW k \in 1 .. m + 1
        PROVE  LoopOK(frames'[k], Listed)
    BY <2>1, <2>3, <2>4, <2>5 DEF LoopInv
  <2> QED BY <2>2, <2>4, <2>6 DEF LoopInv
<1>7. CASE CallStep
  <2>1. /\ Listed' = Listed /\ frames' \in Seq(Frames)
        /\ \A k \in DOMAIN frames' : k \in DOMAIN frames /\ StepOf(frames[k], frames'[k])
    BY <1>7, CallStepFacts DEF stateVars, Listed
  <2>2. ASSUME NEW k \in DOMAIN frames'
        PROVE  LoopOK(frames'[k], Listed)
    <3>1. k \in DOMAIN frames /\ StepOf(frames[k], frames'[k]) /\ frames'[k] \in Frames
      BY <2>1
    <3>2. frames[k] \in Frames /\ LoopOK(frames[k], Listed)
      BY <1>0, <3>1 DEF LoopInv
    <3> QED BY <3>1, <3>2, LoopStep
  <2> QED BY <2>1, <2>2 DEF LoopInv
<1>8. ASSUME NEW h \in Hook, NEW c \in Class, Attach(h, c) \/ Detach(h, c)
      PROVE  UNCHANGED <<stateVars, frames>>
  BY <1>8 DEF Attach, Detach
<1>9. CASE UNCHANGED netVars
  BY <1>3, <1>9 DEF netVars
<1> QED BY <1>3, <1>4, <1>5, <1>6, <1>7, <1>8, <1>9 DEF HooksNext

(***************************************************************************)
(* The theorems.                                                           *)
(***************************************************************************)

LEMMA HooksStart ==
  ASSUME HooksInit
  PROVE  HooksInv
<1>1. HooksTypeOK
  BY DEF HooksInit, HooksTypeOK
<1>2. Len(list) = 0 /\ Len(free) = 0 /\ Len(slots) = 0
  BY DEF HooksInit
<1>3. SlotsInv
  <2>1. \A i : i \notin 1 .. 0
    OBVIOUS
  <2>2. ToSet(Listed) = {}
    BY <1>2, <2>1 DEF ToSet, Listed
  <2> QED BY <1>2, <2>1, <2>2 DEF SlotsInv, HooksInit
<1>4. PatchInv
  BY DEF PatchInv, HooksInit
<1>5. DOMAIN frames = {}
  BY DEF HooksInit
<1> QED BY <1>1, <1>3, <1>4, <1>5 DEF HooksInv, CallInv, LoopInv

LEMMA HooksStep ==
  ASSUME HooksInv, HookHabits = {}, [HooksNext]_netVars
  PROVE  HooksInv'
BY TypeStep, SlotsStep, PatchStep, CallInvStep, LoopInvStep DEF HooksInv

\* The inductive invariant: the slots in use are the first ones and in the order
\* of the list, one class of each hook is patched, the originals of the calls
\* under way are those of their classes, and their loops have told the states
\* they have passed.
THEOREM HooksInvariant ==
  ASSUME HookHabits = {}
  PROVE  HooksSpec => []HooksInv
<1>1. HooksInv /\ [HooksNext]_netVars => HooksInv'
  BY HooksStep
<1> QED BY HooksStart, <1>1, PTL DEF HooksSpec

\* Every variable has its type: the hooks never put anything but a function of a
\* class or their gate in a virtual table, and tell nothing that is no state.
THEOREM TypeCorrect ==
  ASSUME HookHabits = {}
  PROVE  HooksSpec => []HooksTypeOK
<1>1. HooksInv => HooksTypeOK
  BY DEF HooksInv
<1> QED BY HooksInvariant, <1>1, PTL

\* A hooked call tells each state that is open all along, once, and none that is
\* closed: BEGIN_MULTISTATE_HOOK of main.h, however calls nest.
THEOREM StatesAreTold ==
  ASSUME HookHabits = {}
  PROVE  HooksSpec => []EveryStateIsTold
<1>1. ASSUME HooksInv
      PROVE  EveryStateIsTold
  <2>1. PICK n \in Nat : Len(list) = n
    BY <1>1, SlotCounts DEF HooksInv
  <2>2. DOMAIN Listed = 1 .. n /\ open = ToSet(Listed)
    BY <1>1, <2>1, ListedFacts DEF HooksInv, SlotsInv
  <2>3. ASSUME NEW k \in DOMAIN frames
        PROVE  /\ frames[k].caller # None => frames[k].caller \in open
               /\ frames[k].phase \in {"original", "done"} =>
                    \A s \in frames[k].due : ToldOnce(frames[k], s)
    <3>1. LoopOK(frames[k], Listed)
      BY <1>1 DEF HooksInv, LoopInv
    <3>2. frames[k].caller # None => frames[k].caller \in open
      BY <2>2, <3>1 DEF LoopOK, ToSet
    <3>3. frames[k].phase \in {"original", "done"} => frames[k].phase \notin Loops
      BY DEF Loops
    <3> QED BY <3>1, <3>2, <3>3 DEF LoopOK
  <2> QED BY <2>3 DEF EveryStateIsTold
<1> QED BY HooksInvariant, <1>1, PTL

\* A hooked call runs the original function of the class it was made on: the
\* hooks of gl_hooks.cpp call through name_T.
THEOREM OwnOriginal ==
  ASSUME HookHabits = {}
  PROVE  HooksSpec => []RunsOwnOriginal
<1>1. HooksInv => RunsOwnOriginal
  BY DEF HooksInv, CallInv, RunsOwnOriginal
<1> QED BY HooksInvariant, <1>1, PTL

\* While a hook is detached every class runs its own function: UNHOOKVFUNC puts
\* back what HOOKVFUNC took.
THEOREM Restores ==
  ASSUME HookHabits = {}
  PROVE  HooksSpec => []DetachRestores
<1>1. HooksInv => DetachRestores
  BY DEF HooksInv, PatchInv, DetachRestores
<1> QED BY HooksInvariant, <1>1, PTL

(***************************************************************************)
(* NetMessages.                                                            *)
(***************************************************************************)

\* The bits of the messages.
Cells == {<<m, k>> : m \in Kinds, k \in Nat}

\* The bits of one message.
OneBits(m) == [k \in 1..MsgBits[m] |-> <<m, k>>]

\* The bits of one more message come behind the others.
LEMMA BitsAppend ==
  /\ BitsOf(<<>>) = <<>>
  /\ \A m \in Kinds : OneBits(m) \in Seq(Cells)
  /\ \A msgs \in Seq(Kinds) : BitsOf(msgs) \in Seq(Cells)
  /\ \A msgs \in Seq(Kinds), m \in Kinds : BitsOf(Append(msgs, m)) = BitsOf(msgs) \o OneBits(m)
<1> DEFINE Each(msgs) == [i \in DOMAIN msgs |-> OneBits(msgs[i])]
<1>0. \A msgs : BitsOf(msgs) = FlattenSeq(Each(msgs))
  BY DEF BitsOf, OneBits
<1>1. ASSUME NEW m \in Kinds PROVE OneBits(m) \in Seq(Cells)
  <2>1. PICK n \in Nat : n = MsgBits[m]
    BY MsgAssumption
  <2>2. \A k \in 1 .. n : <<m, k>> \in Cells
    BY DEF Cells
  <2> HIDE DEF Cells
  <2> QED BY <2>1, <2>2 DEF OneBits
<1> HIDE DEF Cells, OneBits
<1>2. ASSUME NEW msgs \in Seq(Kinds) PROVE Each(msgs) \in Seq(Seq(Cells)) /\ Len(Each(msgs)) = Len(msgs)
  <2>1. PICK n \in Nat : n = Len(msgs) /\ DOMAIN msgs = 1 .. n
    OBVIOUS
  <2>2. \A i \in 1 .. n : msgs[i] \in Kinds
    BY <2>1
  <2>3. Each(msgs) = [i \in 1 .. n |-> OneBits(msgs[i])]
    BY <2>1
  <2> HIDE DEF Each
  <2> QED BY <1>1, <2>1, <2>2, <2>3
<1>3. BitsOf(<<>>) = <<>>
  <2>1. Each(<<>>) = <<>>
    BY Z3
  <2>2. FlattenSeq(<<>>) = <<>>
    BY DEF FlattenSeq
  <2> HIDE DEF Each
  <2> QED BY <1>0, <2>1, <2>2
<1>4. ASSUME NEW msgs \in Seq(Kinds), NEW m \in Kinds
      PROVE  Each(Append(msgs, m)) = Append(Each(msgs), OneBits(m))
  <2>1. PICK n \in Nat : n = Len(msgs) /\ DOMAIN msgs = 1 .. n
    OBVIOUS
  <2>2. PICK more : more = Append(msgs, m)
    OBVIOUS
  <2>3. /\ DOMAIN more = 1 .. (n + 1) /\ more[n + 1] = m
        /\ \A i \in 1 .. n : more[i] = msgs[i]
    BY <2>1, <2>2
  <2>4. PICK e : e = Each(msgs)
    OBVIOUS
  <2>5. e \in Seq(Seq(Cells)) /\ Len(e) = n /\ \A i \in 1 .. n : e[i] = OneBits(msgs[i])
    BY <1>2, <2>1, <2>4
  <2>6. PICK x \in Seq(Cells) : x = OneBits(m)
    BY <1>1
  <2>7. PICK d \in Seq(Seq(Cells)) : d = Append(e, x)
    <3>1. Append(e, x) \in Seq(Seq(Cells))
      BY <2>5, AppendProperties
    <3> QED BY <3>1
  <2>8. Len(d) = n + 1 /\ d[n + 1] = x /\ \A i \in 1 .. n : d[i] = e[i]
    BY <2>5, <2>7, AppendProperties
  <2>9. Each(more) = d
    <3>1. more \in Seq(Kinds) /\ Len(more) = n + 1
      BY <2>1, <2>2
    <3>2. PICK c \in Seq(Seq(Cells)) : c = Each(more) /\ Len(c) = n + 1
      BY <3>1, <1>2
    <3>3. \A i \in 1 .. (n + 1) : c[i] = OneBits(more[i])
      BY <3>2, <2>3
    <3>4. \A i \in 1 .. (n + 1) : c[i] = d[i]
      <4>1. c[n + 1] = d[n + 1]
        <5>1. n + 1 \in 1 .. (n + 1)
          OBVIOUS
        <5>2. c[n + 1] = OneBits(more[n + 1])
          BY <5>1, <3>3
        <5> QED BY <5>2, <2>3, <2>6, <2>8
      <4>2. ASSUME NEW i \in 1 .. n PROVE c[i] = d[i]
        <5>1. i \in 1 .. (n + 1)
          OBVIOUS
        <5>2. c[i] = OneBits(more[i])
          BY <5>1, <3>3
        <5> QED BY <5>2, <2>3, <2>5, <2>8
      <4>3. \A i \in 1 .. (n + 1) : i = n + 1 \/ i \in 1 .. n
        OBVIOUS
      <4> QED BY <4>1, <4>2, <4>3
    <3> QED BY <3>2, <3>4, <2>8, SeqEqual
  <2> QED BY <2>2, <2>4, <2>6, <2>7, <2>9
<1> HIDE DEF Each
<1>5. ASSUME NEW msgs \in Seq(Kinds) PROVE BitsOf(msgs) \in Seq(Cells)
  <2>1. PICK t \in Seq(Cells) : t = <<>>
    <3>1. <<>> \in Seq(Cells)
      OBVIOUS
    <3> QED BY <3>1
  <2>2. PICK e \in Seq(Seq(Cells)) : e = Each(msgs)
    BY <1>2
  <2>3. FlattenSeq(e) \in Seq(Cells)
    BY <2>1, <2>2, FlattenAppend
  <2> QED BY <1>0, <2>2, <2>3
<1>6. ASSUME NEW msgs \in Seq(Kinds), NEW m \in Kinds PROVE BitsOf(Append(msgs, m)) = BitsOf(msgs) \o OneBits(m)
  BY <1>0, <1>1, <1>2, <1>4, FlattenAppend
<1> QED BY <1>1, <1>3, <1>5, <1>6

\* Where the bits of a message are among those of all.
LEMMA BitsAt ==
  ASSUME NEW s \in Seq(Kinds), NEW n \in 0 .. Len(s) - 1
  PROVE  LET from == Len(BitsOf(SubSeq(s, 1, n))) IN
         /\ from + MsgBits[s[n + 1]] <= Len(BitsOf(s))
         /\ \A i \in 1 .. MsgBits[s[n + 1]] : BitsOf(s)[from + i] = <<s[n + 1], i>>
<1> DEFINE Facts(t, k) ==
             LET from == Len(BitsOf(SubSeq(t, 1, k))) IN
             /\ from + MsgBits[t[k + 1]] <= Len(BitsOf(t))
             /\ \A i \in 1 .. MsgBits[t[k + 1]] : BitsOf(t)[from + i] = <<t[k + 1], i>>
           T == { l \in Nat : \A t \in Seq(Kinds) : Len(t) = l => \A k \in 0 .. l - 1 : Facts(t, k) }
<1>1. 0 \in T
  OBVIOUS
<1>2. ASSUME NEW l \in Nat, l \in T PROVE l + 1 \in T
  <2> SUFFICES ASSUME NEW t \in Seq(Kinds), Len(t) = l + 1, NEW k \in 0 .. l PROVE Facts(t, k)
    <3> HIDE DEF Facts
    <3>1. l + 1 \in Nat /\ (l + 1) - 1 = l
      OBVIOUS
    <3> QED BY <3>1
  <2>1. PICK f, m : f = SubSeq(t, 1, l) /\ m = t[l + 1]
    OBVIOUS
  <2>2. f \in Seq(Kinds) /\ Len(f) = l /\ m \in Kinds /\ \A i \in 1 .. l : f[i] = t[i]
    <3>1. l \in 0 .. Len(t) /\ l + 1 \in 1 .. Len(t)
      OBVIOUS
    <3>2. m \in Kinds
      BY <2>1, <3>1
    <3> QED BY <2>1, <3>1, <3>2, FirstOf
  <2>3. t = Append(f, m)
    <3>1. Append(f, m) \in Seq(Kinds) /\ Len(Append(f, m)) = l + 1
      BY <2>2
    <3>2. \A i \in 1 .. l + 1 : Append(f, m)[i] = t[i]
      BY <2>1, <2>2
    <3> QED BY <3>1, <3>2, SeqEqual
  <2>4. PICK bf, bt, w : bf = BitsOf(f) /\ bt = BitsOf(t) /\ w = MsgBits[m]
    OBVIOUS
  <2>5. w \in Nat /\ bf \in Seq(Cells) /\ bt = bf \o OneBits(m)
    BY <2>2, <2>3, <2>4, BitsAppend, MsgAssumption
  <2>6. /\ Len(bt) = Len(bf) + w /\ Len(bf) \in Nat
        /\ \A i \in 1 .. w : bt[Len(bf) + i] = <<m, i>>
        /\ \A i \in 1 .. Len(bf) : bt[i] = bf[i]
    <3> HIDE DEF Cells
    <3>2. PICK b \in Seq(Cells) : b = OneBits(m)
      BY <2>2, BitsAppend
    <3>1. Len(b) = w /\ \A i \in 1 .. w : b[i] = <<m, i>>
      <4>1. b = [i \in 1 .. w |-> <<m, i>>]
        BY <2>4, <3>2 DEF OneBits
      <4> QED BY <4>1, <2>5
    <3>3. PICK a \in Seq(Cells) : a = bf
      BY <2>5
    <3>4. bt = a \o b
      BY <2>5, <3>2, <3>3
    <3>5. /\ Len(a \o b) = Len(a) + Len(b) /\ Len(a) \in Nat
          /\ \A i \in 1 .. Len(a) : (a \o b)[i] = a[i]
          /\ \A i \in 1 .. Len(b) : (a \o b)[Len(a) + i] = b[i]
      BY ConcatFacts
    <3> QED BY <3>1, <3>3, <3>4, <3>5
  <2>7. CASE k = l
    <3>1. SubSeq(t, 1, k) = f /\ t[k + 1] = m
      BY <2>1, <2>7
    <3>2. Len(BitsOf(SubSeq(t, 1, k))) = Len(bf) /\ MsgBits[t[k + 1]] = w
      BY <3>1, <2>4
    <3>3. Len(bf) + w <= Len(bt)
      BY <2>5, <2>6
    <3> QED BY <3>1, <3>2, <3>3, <2>4, <2>6
  <2>8. CASE k # l
    <3>1. k \in 0 .. l - 1 /\ k + 1 \in 1 .. l
      BY <2>8
    <3>2. Facts(f, k)
      <4> HIDE DEF Facts
      <4>1. \A u \in Seq(Kinds) : Len(u) = l => \A i \in 0 .. l - 1 : Facts(u, i)
        BY <1>2
      <4> QED BY <4>1, <2>2, <3>1
    <3>3. SubSeq(f, 1, k) = SubSeq(t, 1, k) /\ f[k + 1] = t[k + 1]
      <4>1. /\ SubSeq(f, 1, k) \in Seq(Kinds) /\ Len(SubSeq(f, 1, k)) = k
            /\ \A i \in 1 .. k : SubSeq(f, 1, k)[i] = f[i]
        <5>1. k \in 0 .. Len(f)
          BY <2>2
        <5> QED BY <5>1, <2>2, FirstOf
      <4>2. /\ SubSeq(t, 1, k) \in Seq(Kinds) /\ Len(SubSeq(t, 1, k)) = k
            /\ \A i \in 1 .. k : SubSeq(t, 1, k)[i] = t[i]
        <5>1. k \in 0 .. Len(t)
          OBVIOUS
        <5> QED BY <5>1, FirstOf
      <4>3. \A i \in 1 .. k : SubSeq(f, 1, k)[i] = SubSeq(t, 1, k)[i]
        <5>1. \A i \in 1 .. k : i \in 1 .. l
          OBVIOUS
        <5> QED BY <5>1, <4>1, <4>2, <2>2
      <4> QED BY <4>1, <4>2, <4>3, <2>2, <3>1, SeqEqual
    <3>4. PICK from, v : from = Len(BitsOf(SubSeq(t, 1, k))) /\ v = MsgBits[t[k + 1]]
      OBVIOUS
    <3>5. from \in Nat /\ v \in Nat
      <4>1. k \in 0 .. Len(t) /\ k + 1 \in 1 .. Len(t)
        OBVIOUS
      <4>2. SubSeq(t, 1, k) \in Seq(Kinds)
        BY <4>1, FirstOf
      <4>3. BitsOf(SubSeq(t, 1, k)) \in Seq(Cells)
        BY <4>2, BitsAppend
      <4>4. t[k + 1] \in Kinds
        BY <4>1
      <4> HIDE DEF Cells
      <4> QED BY <3>4, <4>3, <4>4, MsgAssumption
    <3>6. from + v <= Len(bf) /\ \A i \in 1 .. v : bf[from + i] = <<t[k + 1], i>>
      BY <3>2, <3>3, <3>4, <2>4
    <3>7. \A i \in 1 .. v : from + i \in 1 .. Len(bf)
      BY <3>5, <3>6, <2>6
    <3>8. from + v <= Len(bt)
      BY <3>5, <3>6, <2>5, <2>6
    <3>9. \A i \in 1 .. v : bt[from + i] = <<t[k + 1], i>>
      BY <3>6, <3>7, <2>6
    <3> QED BY <3>4, <3>8, <3>9, <2>4
  <2> QED BY <2>7, <2>8
<1> HIDE DEF T, Facts
<1>3. PICK l \in Nat : l = Len(s)
  OBVIOUS
<1>4. l \in T
  BY <1>1, <1>2, NatInduct
<1>5. Facts(s, n)
  BY <1>3, <1>4 DEF T
<1> QED BY <1>5 DEF Facts

\* A reader at pos of cells that ends at end has the messages of s before it, from the
\* first after those of t on, and whole up to the kind of each; there is no other.
Reads(cells, pos, end, t, s) ==
  pos <= end =>
    \E base \in Nat :
      /\ pos = base + Len(BitsOf(t))
      /\ \A j \in 1 .. Len(BitsOf(s)) :
           base + j > pos /\ base + j <= end => cells[base + j] = BitsOf(s)[j]
      /\ \A k \in 0 .. Len(s) - 1 :
           end - base - Len(BitsOf(SubSeq(s, 1, k))) \notin 0 .. NET_MESSAGE_BITS - 1
      /\ end - base - Len(BitsOf(s)) < NET_MESSAGE_BITS

\* The messages of t are the last that was written, up to pos of cells.
Wrote(cells, pos, t) ==
  \E base \in Nat :
    /\ pos = base + Len(BitsOf(t))
    /\ \A j \in 1 .. Len(BitsOf(t)) : base + j \in 1 .. Room /\ cells[base + j] = BitsOf(t)[j]

\* The messages of t are the first of s.
FirstBits(t, s) == Len(t) <= Len(s) /\ SubSeq(s, 1, Len(t)) = t

\* What a script and the loop have taken are the first of the messages that were sent,
\* and the reader is before the rest; the writer is behind what was written.
MsgInv ==
  /\ stage \in {"idle", "script", "loop"}
  /\ sent \in Seq(Kinds) /\ taken \in Seq(Kinds) /\ written \in Seq(Kinds)
  /\ reader \in [at : {"packet", "data"}, pos : Nat, end : Int] /\ writer \in Nat
  /\ DOMAIN image = {"packet", "data"} /\ (reader.at = "data" => reader.end <= Room)
  /\ FirstBits(taken, sent)
  /\ stage # "idle" => Reads(image[reader.at], reader.pos, reader.end, taken, sent)
  /\ stage = "script" => Wrote(image.data, writer, written)
  /\ stage # "idle" => channel = "live"
  /\ channel # "dangling"
  /\ stage = "idle" /\ result => taken = sent

\* The length of the bits is a number.
LEMMA BitsLen == \A s \in Seq(Kinds) : Len(BitsOf(s)) \in Nat
<1>1. ASSUME NEW s \in Seq(Kinds) PROVE Len(BitsOf(s)) \in Nat
  <2>1. BitsOf(s) \in Seq(Cells)
    BY BitsAppend
  <2> HIDE DEF Cells
  <2> QED BY <2>1
<1> QED BY <1>1

\* What is taken first is all, or there is a next message.
LEMMA FirstOfSent ==
  ASSUME NEW t \in Seq(Kinds), NEW s \in Seq(Kinds), FirstBits(t, s), Len(t) # Len(s)
  PROVE  /\ Len(t) \in 0 .. Len(s) - 1 /\ s[Len(t) + 1] \in Kinds
         /\ FirstBits(Append(t, s[Len(t) + 1]), s)
<1>1. PICK n \in Nat : n = Len(t) /\ n \in 0 .. Len(s) - 1 /\ n + 1 \in 1 .. Len(s) /\ n \in 0 .. Len(s)
  <2>1. PICK n, l \in Nat : n = Len(t) /\ l = Len(s)
    OBVIOUS
  <2>2. n <= l /\ n # l
    BY <2>1 DEF FirstBits
  <2>3. n \in 0 .. l - 1 /\ n + 1 \in 1 .. l /\ n \in 0 .. l
    BY <2>2
  <2> QED BY <2>1, <2>3
<1>2. PICK m \in Kinds : m = s[n + 1]
  BY <1>1
<1>3. PICK a \in Seq(Kinds) : a = Append(t, m) /\ Len(a) = n + 1 /\ a[n + 1] = m /\ \A i \in 1 .. n : a[i] = t[i]
  <2>0. Append(t, m) \in Seq(Kinds)
    OBVIOUS
  <2>1. PICK a \in Seq(Kinds) : a = Append(t, m)
    BY <2>0
  <2>2. Len(a) = n + 1 /\ a[n + 1] = m /\ \A i \in 1 .. n : a[i] = t[i]
    <3>1. /\ Len(Append(t, m)) = Len(t) + 1 /\ Append(t, m)[Len(t) + 1] = m
          /\ \A i \in 1 .. Len(t) : Append(t, m)[i] = t[i]
      BY AppendProperties
    <3> QED BY <3>1, <2>1, <1>1
  <2> QED BY <2>1, <2>2
<1>4. \A i \in 1 .. n : t[i] = s[i]
  BY <1>1, FirstOf DEF FirstBits
<1>5. PICK b \in Seq(Kinds) : b = SubSeq(s, 1, n + 1) /\ Len(b) = n + 1 /\ \A i \in 1 .. n + 1 : b[i] = s[i]
  <2>1. PICK k \in 0 .. Len(s) : k = n + 1
    BY <1>1
  <2>2. /\ SubSeq(s, 1, k) \in Seq(Kinds) /\ Len(SubSeq(s, 1, k)) = k
        /\ \A i \in 1 .. k : SubSeq(s, 1, k)[i] = s[i]
    BY FirstOf
  <2> QED BY <2>1, <2>2
<1>6. \A i \in 1 .. n + 1 : a[i] = b[i]
  <2>1. \A i \in 1 .. n + 1 : i = n + 1 \/ i \in 1 .. n
    OBVIOUS
  <2> QED BY <2>1, <1>2, <1>3, <1>4, <1>5
<1>7. a = b
  BY <1>3, <1>5, <1>6, SeqEqual
<1> QED BY <1>1, <1>2, <1>3, <1>5, <1>7 DEF FirstBits

\* The reader is before the next message that was sent, and takes it for no other.
LEMMA NextIsSent ==
  ASSUME MsgInv, stage # "idle", BitsLeft >= NET_MESSAGE_BITS
  PROVE  \E m \in Kinds :
           /\ Len(taken) # Len(sent) /\ m = sent[Len(taken) + 1]
           /\ Types = {m}
           /\ BitsLeft >= MsgBits[m] => Label(m) = m
<1>1. /\ sent \in Seq(Kinds) /\ taken \in Seq(Kinds) /\ FirstBits(taken, sent)
      /\ Reads(image[reader.at], reader.pos, reader.end, taken, sent)
  BY DEF MsgInv
<1>2. PICK pos \in Nat, end \in Int : pos = reader.pos /\ end = reader.end
  BY DEF MsgInv
<1>3. NET_MESSAGE_BITS \in Nat /\ NET_MESSAGE_BITS >= 1 /\ end - pos >= NET_MESSAGE_BITS
  BY <1>2, MsgAssumption DEF BitsLeft
<1>4. PICK cells : cells = image[reader.at]
  OBVIOUS
<1>5. PICK base \in Nat :
        /\ pos = base + Len(BitsOf(taken))
        /\ \A j \in 1 .. Len(BitsOf(sent)) :
             base + j > pos /\ base + j <= end => cells[base + j] = BitsOf(sent)[j]
        /\ end - base - Len(BitsOf(sent)) < NET_MESSAGE_BITS
  BY <1>1, <1>2, <1>3, <1>4 DEF Reads
<1>6. Len(taken) # Len(sent)
  <2> SUFFICES ASSUME Len(taken) = Len(sent) PROVE FALSE
    OBVIOUS
  <2>1. taken = sent
    <3>1. Len(sent) \in 0 .. Len(sent)
      BY <1>1
    <3>2. \A i \in 1 .. Len(sent) : taken[i] = sent[i]
      BY <1>1, <3>1, FirstOf DEF FirstBits
    <3> QED BY <1>1, <3>2, SeqEqual
  <2>2. Len(BitsOf(sent)) \in Nat
    BY <1>1, BitsLen
  <2> QED BY <1>3, <1>5, <2>1, <2>2
<1>7. PICK n \in Nat, m \in Kinds : n = Len(taken) /\ n \in 0 .. Len(sent) - 1 /\ m = sent[n + 1]
  BY <1>1, <1>6, FirstOfSent
<1>8. PICK from, all, w \in Nat : from = Len(BitsOf(taken)) /\ all = Len(BitsOf(sent)) /\ w = MsgBits[m] /\ w >= NET_MESSAGE_BITS
  BY <1>1, BitsLen, MsgAssumption
<1>9. from + w <= all /\ \A i \in 1 .. w : BitsOf(sent)[from + i] = <<m, i>>
  <2>1. SubSeq(sent, 1, n) = taken
    BY <1>1, <1>7 DEF FirstBits
  <2> QED BY <2>1, <1>1, <1>7, <1>8, BitsAt
<1>10. ASSUME NEW i \in 1 .. w, pos + i <= end PROVE BitAt(pos + i) = <<m, i>>
  <2>1. from + i \in 1 .. all /\ base + (from + i) = pos + i /\ pos + i > pos
    <3>1. pos = base + from /\ from + w <= all
      BY <1>5, <1>8, <1>9
    <3> QED BY <3>1
  <2>2. cells[pos + i] = <<m, i>>
    BY <2>1, <1>5, <1>8, <1>9, <1>10
  <2> QED BY <2>2, <1>2, <1>4, <1>10 DEF BitAt
<1>11. \A k \in 1 .. NET_MESSAGE_BITS : k \in 1 .. w /\ pos + k <= end
  BY <1>3, <1>8
<1>12. Seen = {m}
  <2>1. m \in Seen
    BY <1>2, <1>10, <1>11 DEF Seen
  <2>2. ASSUME NEW x \in Seen PROVE x = m
    <3>1. 1 \in 1 .. NET_MESSAGE_BITS
      BY <1>3
    <3>2. BitAt(pos + 1) = <<x, 1>>
      BY <1>2, <3>1 DEF Seen
    <3>3. BitAt(pos + 1) = <<m, 1>>
      BY <1>10, <1>11, <3>1
    <3> QED BY <3>2, <3>3
  <2> QED BY <2>1, <2>2
<1>13. Types = {m}
  BY <1>12 DEF Types
<1>14. ASSUME BitsLeft >= w PROVE Label(m) = m
  <2>1. \A i \in 1 .. w : pos + i <= end
    BY <1>2, <1>14 DEF BitsLeft
  <2>2. Whole(m)
    BY <2>1, <1>2, <1>8, <1>10 DEF Whole
  <2> QED BY <2>2 DEF Label
<1> QED BY <1>6, <1>7, <1>8, <1>13, <1>14

\* A reader that goes on behind the next message reads what is left.
LEMMA ReadsOn ==
  ASSUME NEW cells, NEW pos \in Nat, NEW end \in Int, NEW t \in Seq(Kinds), NEW s \in Seq(Kinds),
         NEW m \in Kinds, pos <= end, Reads(cells, pos, end, t, s)
  PROVE  Reads(cells, pos + MsgBits[m], end, Append(t, m), s)
<1>1. PICK base \in Nat :
        /\ pos = base + Len(BitsOf(t))
        /\ \A j \in 1 .. Len(BitsOf(s)) :
             base + j > pos /\ base + j <= end => cells[base + j] = BitsOf(s)[j]
        /\ \A k \in 0 .. Len(s) - 1 :
             end - base - Len(BitsOf(SubSeq(s, 1, k))) \notin 0 .. NET_MESSAGE_BITS - 1
        /\ end - base - Len(BitsOf(s)) < NET_MESSAGE_BITS
  BY DEF Reads
<1>2. PICK from, w \in Nat : from = Len(BitsOf(t)) /\ w = MsgBits[m]
  BY BitsLen, MsgAssumption
<1>3. Len(BitsOf(Append(t, m))) = from + w
  <2>1. PICK b, o \in Seq(Cells) : b = BitsOf(t) /\ o = OneBits(m)
    BY BitsAppend
  <2>2. Len(o) = w
    <3>1. o = [i \in 1 .. w |-> <<m, i>>]
      BY <2>1, <1>2 DEF OneBits
    <3> HIDE DEF Cells
    <3> QED BY <3>1
  <2>3. Len(b \o o) = Len(b) + Len(o)
    BY ConcatFacts
  <2>4. BitsOf(Append(t, m)) = b \o o
    BY <2>1, BitsAppend
  <2> QED BY <2>1, <2>2, <2>3, <2>4, <1>2
<1>4. pos + w = base + Len(BitsOf(Append(t, m)))
  <2>1. pos = base + from
    BY <1>1, <1>2
  <2>2. pos + w = base + (from + w)
    BY <2>1
  <2> QED BY <2>2, <1>3
<1>5. PICK all \in Nat : all = Len(BitsOf(s))
  BY BitsLen
<1>6. \A j \in 1 .. all : base + j > pos + w /\ base + j <= end => cells[base + j] = BitsOf(s)[j]
  BY <1>1, <1>5
<1> QED BY <1>1, <1>2, <1>4, <1>5, <1>6 DEF Reads

\* Writing a message behind the others.
LEMMA WritesOn ==
  ASSUME NEW cells, NEW more, NEW pos \in Nat, NEW t \in Seq(Kinds), NEW m \in Kinds,
         Wrote(cells, pos, t), pos + MsgBits[m] <= Room,
         more = [i \in 1..Room |-> IF i > pos /\ i <= pos + MsgBits[m] THEN <<m, i - pos>> ELSE cells[i]]
  PROVE  Wrote(more, pos + MsgBits[m], Append(t, m))
<1>1. PICK base \in Nat :
        /\ pos = base + Len(BitsOf(t))
        /\ \A j \in 1 .. Len(BitsOf(t)) : base + j \in 1 .. Room /\ cells[base + j] = BitsOf(t)[j]
  BY DEF Wrote
<1>2. PICK from, w \in Nat : from = Len(BitsOf(t)) /\ w = MsgBits[m]
  BY BitsLen, MsgAssumption
<1>3. /\ Len(BitsOf(Append(t, m))) = from + w
      /\ \A i \in 1 .. from : BitsOf(Append(t, m))[i] = BitsOf(t)[i]
      /\ \A i \in 1 .. w : BitsOf(Append(t, m))[from + i] = <<m, i>>
  <2>1. PICK b, o \in Seq(Cells) : b = BitsOf(t) /\ o = OneBits(m)
    BY BitsAppend
  <2>2. Len(o) = w /\ \A i \in 1 .. w : o[i] = <<m, i>>
    <3>1. o = [i \in 1 .. w |-> <<m, i>>]
      BY <2>1, <1>2 DEF OneBits
    <3> HIDE DEF Cells
    <3> QED BY <3>1
  <2>3. /\ Len(b \o o) = Len(b) + Len(o)
        /\ \A i \in 1 .. Len(b) : (b \o o)[i] = b[i]
        /\ \A i \in 1 .. Len(o) : (b \o o)[Len(b) + i] = o[i]
    BY ConcatFacts
  <2>4. BitsOf(Append(t, m)) = b \o o
    BY <2>1, BitsAppend
  <2> QED BY <2>1, <2>2, <2>3, <2>4, <1>2
<1>4. Room \in Nat /\ pos = base + from /\ pos + w <= Room
  BY <1>1, <1>2, MsgAssumption
<1>5. ASSUME NEW j \in 1 .. from + w
      PROVE  base + j \in 1 .. Room /\ more[base + j] = BitsOf(Append(t, m))[j]
  <2>1. CASE j <= from
    <3>1. j \in 1 .. from /\ base + j \in 1 .. Room /\ ~ (base + j > pos)
      BY <2>1, <1>4
    <3>2. more[base + j] = cells[base + j]
      BY <3>1
    <3> QED BY <3>1, <3>2, <1>1, <1>2, <1>3
  <2>2. CASE ~ (j <= from)
    <3>1. PICK i \in 1 .. w : j = from + i
      <4>1. j - from \in 1 .. w /\ j = from + (j - from)
        BY <2>2
      <4> QED BY <4>1
    <3>2. base + j \in 1 .. Room /\ base + j > pos /\ base + j <= pos + w /\ (base + j) - pos = i
      BY <3>1, <1>4
    <3>3. more[base + j] = <<m, i>>
      BY <3>2, <1>2
    <3> QED BY <3>1, <3>2, <3>3, <1>3
  <2> QED BY <2>1, <2>2
<1>6. pos + w = base + Len(BitsOf(Append(t, m)))
  <2>1. pos + w = base + (from + w)
    BY <1>4
  <2> QED BY <2>1, <1>3
<1>7. \A j \in 1 .. Len(BitsOf(Append(t, m))) :
        base + j \in 1 .. Room /\ more[base + j] = BitsOf(Append(t, m))[j]
  BY <1>3, <1>5
<1> QED BY <1>2, <1>6, <1>7 DEF Wrote

\* What was written is what a reader that starts where it begins reads, if less than a
\* kind is left at the end of the last byte.
LEMMA ReadsWhatWasWritten ==
  ASSUME NEW cells, NEW pos \in Nat, NEW t \in Seq(Kinds), NEW end \in Int, Wrote(cells, pos, t),
         pos <= end, end - pos < NET_MESSAGE_BITS
  PROVE  /\ pos - Len(BitsOf(t)) \in Nat
         /\ Reads(cells, pos - Len(BitsOf(t)), end, <<>>, t)
         /\ Wrote(cells, pos - Len(BitsOf(t)), <<>>)
<1>1. PICK base \in Nat :
        /\ pos = base + Len(BitsOf(t))
        /\ \A j \in 1 .. Len(BitsOf(t)) : base + j \in 1 .. Room /\ cells[base + j] = BitsOf(t)[j]
  BY DEF Wrote
<1>2. PICK all \in Nat : all = Len(BitsOf(t))
  BY BitsLen
<1>3. pos - Len(BitsOf(t)) = base
  <2>1. pos = base + all
    BY <1>1, <1>2
  <2> QED BY <2>1, <1>2
<1>4. Len(BitsOf(<<>>)) = 0
  BY BitsAppend
<1>5. base = base + Len(BitsOf(<<>>))
  BY <1>4
<1>6. ASSUME NEW k \in 0 .. Len(t) - 1
      PROVE  end - base - Len(BitsOf(SubSeq(t, 1, k))) \notin 0 .. NET_MESSAGE_BITS - 1
  <2>1. k \in 0 .. Len(t) /\ k + 1 \in 1 .. Len(t)
    OBVIOUS
  <2>2. PICK from, w \in Nat : from = Len(BitsOf(SubSeq(t, 1, k))) /\ w = MsgBits[t[k + 1]] /\ w >= NET_MESSAGE_BITS
    <3>1. SubSeq(t, 1, k) \in Seq(Kinds)
      BY <2>1, FirstOf
    <3>2. t[k + 1] \in Kinds
      BY <2>1
    <3> QED BY <3>1, <3>2, BitsLen, MsgAssumption
  <2>3. from + w <= all
    BY <2>2, <1>2, BitsAt
  <2>4. NET_MESSAGE_BITS \in Nat /\ pos = base + all
    BY <1>1, <1>2, MsgAssumption
  <2>5. end - base - from \notin 0 .. NET_MESSAGE_BITS - 1
    BY <2>2, <2>3, <2>4
  <2> QED BY <2>2, <2>5
<1>7. end - base - Len(BitsOf(t)) < NET_MESSAGE_BITS
  <2>1. end - base - all < NET_MESSAGE_BITS
    <3>1. pos = base + all
      BY <1>1, <1>2
    <3>2. end - pos = end - base - all
      BY <3>1
    <3> QED BY <3>2
  <2> QED BY <2>1, <1>2
<1>8. Reads(cells, base, end, <<>>, t)
  BY <1>1, <1>5, <1>6, <1>7 DEF Reads
<1>9. Wrote(cells, base, <<>>)
  <2>1. \A j \in 1 .. Len(BitsOf(<<>>)) : FALSE
    BY <1>4
  <2> QED BY <2>1, <1>5 DEF Wrote
<1> QED BY <1>3, <1>8, <1>9

\* A message arrives as it was sent.
LEMMA ReadsWhatArrives ==
  ASSUME NEW p \in Packets, NEW bits, bits = Header(p.head) \o BitsOf(p.msgs)
  PROVE  /\ Len(bits) \in Nat
         /\ Reads(bits, p.head, Len(bits) - p.cut, <<>>, p.msgs)
         /\ \A cells : Wrote(cells, p.head, <<>>)
<1>1. PICK head, cut \in Nat : head = p.head /\ cut = p.cut
  BY MsgAssumption
<1>2. PICK s \in Seq(Kinds) : s = p.msgs
  BY MsgAssumption
<1>3. PICK all \in Nat : all = Len(BitsOf(s))
  BY BitsLen
<1>4. Len(bits) = head + all /\ \A j \in 1 .. all : bits[head + j] = BitsOf(s)[j]
  <2> DEFINE S == Cells \cup {<<"header", k>> : k \in Nat}
  <2>1. Header(head) \in Seq(S) /\ Len(Header(head)) = head
    <3>1. \A k \in 1 .. head : <<"header", k>> \in S
      OBVIOUS
    <3> HIDE DEF S
    <3> QED BY <3>1 DEF Header
  <2>2. BitsOf(s) \in Seq(S)
    <3>1. BitsOf(s) \in Seq(Cells) /\ Cells \subseteq S
      BY BitsAppend
    <3> HIDE DEF S, Cells
    <3> QED BY <3>1
  <2> HIDE DEF S
  <2>3. PICK h, b \in Seq(S) : h = Header(head) /\ b = BitsOf(s)
    BY <2>1, <2>2
  <2>4. Len(h \o b) = Len(h) + Len(b) /\ \A i \in 1 .. Len(b) : (h \o b)[Len(h) + i] = b[i]
    BY ConcatFacts
  <2> QED BY <1>1, <1>2, <1>3, <2>1, <2>3, <2>4
<1>5. Len(BitsOf(<<>>)) = 0 /\ head = head + Len(BitsOf(<<>>))
  <2>1. Len(BitsOf(<<>>)) = 0
    BY BitsAppend
  <2> QED BY <2>1
<1>6. PICK end \in Int : end = Len(bits) - cut /\ end = head + all - cut
  BY <1>4
<1>7. \A k \in 0 .. Len(s) - 1 :
        end - head - Len(BitsOf(SubSeq(s, 1, k))) \notin 0 .. NET_MESSAGE_BITS - 1
  <2>1. end - head = Len(BitsOf(s)) - cut
    BY <1>3, <1>6
  <2> QED BY <2>1, <1>1, <1>2, MsgAssumption
<1>8. end - head - Len(BitsOf(s)) < NET_MESSAGE_BITS
  <2>1. end - head - all < NET_MESSAGE_BITS
    BY <1>6, MsgAssumption
  <2> QED BY <2>1, <1>3
<1>9. Reads(bits, head, end, <<>>, s)
  BY <1>3, <1>4, <1>5, <1>7, <1>8 DEF Reads
<1>10. \A cells : Wrote(cells, head, <<>>)
  <2>1. \A j \in 1 .. Len(BitsOf(<<>>)) : FALSE
    BY <1>5
  <2> QED BY <2>1, <1>5 DEF Wrote
<1>11. Len(bits) \in Nat
  BY <1>4
<1>12. Reads(bits, p.head, Len(bits) - p.cut, <<>>, p.msgs)
  BY <1>1, <1>2, <1>6, <1>9
<1>13. \A cells : Wrote(cells, p.head, <<>>)
  BY <1>1, <1>10
<1> QED BY <1>11, <1>12, <1>13

\* Bits up to the reader are no concern of it.
LEMMA ReadsTheRest ==
  ASSUME NEW cells, NEW more, NEW pos \in Nat, NEW end \in Int, NEW t, NEW s \in Seq(Kinds),
         Reads(cells, pos, end, t, s), \A i \in Nat : i > pos /\ i <= end => more[i] = cells[i]
  PROVE  Reads(more, pos, end, t, s)
<1> SUFFICES ASSUME pos <= end PROVE Reads(more, pos, end, t, s)
  BY DEF Reads
<1>1. PICK base \in Nat :
        /\ pos = base + Len(BitsOf(t))
        /\ \A j \in 1 .. Len(BitsOf(s)) :
             base + j > pos /\ base + j <= end => cells[base + j] = BitsOf(s)[j]
        /\ \A k \in 0 .. Len(s) - 1 :
             end - base - Len(BitsOf(SubSeq(s, 1, k))) \notin 0 .. NET_MESSAGE_BITS - 1
        /\ end - base - Len(BitsOf(s)) < NET_MESSAGE_BITS
  BY DEF Reads
<1>2. PICK all \in Nat : all = Len(BitsOf(s))
  BY BitsLen
<1>3. \A j \in 1 .. all : base + j > pos /\ base + j <= end => more[base + j] = BitsOf(s)[j]
  <2>1. \A j \in 1 .. all : base + j \in Nat
    OBVIOUS
  <2> QED BY <2>1, <1>1, <1>2
<1> QED BY <1>1, <1>2, <1>3 DEF Reads

\* A reader ends with a byte, not before the last bit.
LEMMA RoundUp ==
  ASSUME NEW n \in Nat
  PROVE  Byte * BitByte(n) \in Nat /\ n <= Byte * BitByte(n)
<1>1. PICK b \in Nat \ {0} : b = Byte
  BY MsgAssumption
<1>2. PICK q \in Int, r \in 0 .. b - 1 : n + b - 1 = b * q + r /\ q = (n + b - 1) \div b
  BY <1>1
<1>3. BitByte(n) = q
  BY <1>1, <1>2 DEF BitByte
<1>4. b * q \in Int /\ b * q >= n
  BY <1>2
<1> QED BY <1>1, <1>3, <1>4

\* A packet comes.
LEMMA ArriveKeeps == ASSUME MsgInv, Arrive PROVE MsgInv'
<1>1. PICK p \in Packets : \E bits :
        /\ bits = Header(p.head) \o BitsOf(p.msgs)
        /\ image' = [packet |-> bits, data |-> DataOf(bits, p.head)]
        /\ reader' = [at |-> "packet", pos |-> p.head, end |-> Len(bits) - p.cut]
        /\ writer' = p.head /\ sent' = p.msgs
        /\ stage' \in {"loop", "script"}
  BY Zenon DEF Arrive
<1>0. PICK bits :
        /\ bits = Header(p.head) \o BitsOf(p.msgs)
        /\ image' = [packet |-> bits, data |-> DataOf(bits, p.head)]
        /\ reader' = [at |-> "packet", pos |-> p.head, end |-> Len(bits) - p.cut]
        /\ writer' = p.head /\ sent' = p.msgs
        /\ stage' \in {"loop", "script"}
        /\ taken' = <<>> /\ written' = <<>> /\ channel' = channel /\ channel = "live"
  BY <1>1, Zenon DEF Arrive
<1>2. /\ Len(bits) \in Nat
      /\ Reads(bits, p.head, Len(bits) - p.cut, <<>>, p.msgs)
      /\ \A cells : Wrote(cells, p.head, <<>>)
  BY <1>0, ReadsWhatArrives
<1>3. p.head \in Nat /\ p.cut \in Nat /\ p.msgs \in Seq(Kinds)
  BY MsgAssumption
<1>4. Len(bits) - p.cut \in Int
  BY <1>2, <1>3
<1>5. /\ reader' \in [at : {"packet", "data"}, pos : Nat, end : Int]
      /\ reader'.at = "packet" /\ reader'.pos = p.head /\ reader'.end = Len(bits) - p.cut
  BY <1>0, <1>3, <1>4
<1>6. DOMAIN image' = {"packet", "data"} /\ image'["packet"] = bits
  BY <1>0
<1>7. Reads(image'[reader'.at], reader'.pos, reader'.end, taken', sent')
  BY <1>0, <1>2, <1>5, <1>6
<1>8. Wrote(image'.data, writer', written')
  BY <1>0, <1>2
<1>9. FirstBits(taken', sent')
  <2>1. FirstBits(<<>>, p.msgs)
    <3>1. PICK n \in Nat : n = Len(p.msgs)
      BY <1>3
    <3>2. PICK s \in Seq(Kinds) : s = p.msgs
      BY <1>3
    <3>3. SubSeq(s, 1, 0) = <<>>
      OBVIOUS
    <3> QED BY <3>1, <3>2, <3>3 DEF FirstBits
  <2> QED BY <1>0, <2>1
<1>00. taken' \in Seq(Kinds) /\ written' \in Seq(Kinds) /\ sent' \in Seq(Kinds) /\ writer' \in Nat
  BY <1>0, <1>3
<1> QED BY <1>0, <1>5, <1>6, <1>7, <1>8, <1>9, <1>00 DEF MsgInv

\* A script, or the loop, goes on behind the message that is next.
LEMMA AdvanceKeeps ==
  ASSUME MsgInv, stage # "idle", BitsLeft >= NET_MESSAGE_BITS, NEW m \in Types, Advance(m)
  PROVE  /\ reader' \in [at : {"packet", "data"}, pos : Nat, end : Int]
         /\ reader'.at = reader.at /\ reader'.end = reader.end
         /\ taken' \in Seq(Kinds) /\ FirstBits(taken', sent)
         /\ Reads(image[reader.at], reader'.pos, reader.end, taken', sent)
<1>1. /\ m \in Kinds /\ Len(taken) # Len(sent) /\ m = sent[Len(taken) + 1]
      /\ BitsLeft >= MsgBits[m] => Label(m) = m
  BY NextIsSent
<1>2. /\ sent \in Seq(Kinds) /\ taken \in Seq(Kinds) /\ FirstBits(taken, sent)
      /\ reader \in [at : {"packet", "data"}, pos : Nat, end : Int]
      /\ Reads(image[reader.at], reader.pos, reader.end, taken, sent)
  BY DEF MsgInv
<1>3. PICK pos, w \in Nat, end \in Int : pos = reader.pos /\ end = reader.end /\ w = MsgBits[m]
  BY <1>1, <1>2, MsgAssumption
<1>4. reader' = [reader EXCEPT !.pos = pos + w]
  BY <1>3 DEF Advance
<1>5. /\ reader' \in [at : {"packet", "data"}, pos : Nat, end : Int] /\ reader'.pos = pos + w
      /\ reader'.at = reader.at /\ reader'.end = reader.end
  BY <1>2, <1>4
<1>6. CASE BitsLeft >= MsgBits[m]
  <2>1. taken' = Append(taken, m)
    BY <1>1, <1>6 DEF Advance
  <2>2. FirstBits(taken', sent)
    BY <2>1, <1>1, <1>2, FirstOfSent
  <2>3. pos <= end
    BY <1>3, MsgAssumption DEF BitsLeft
  <2>4. Reads(image[reader.at], pos + w, end, taken', sent)
    BY <2>1, <2>3, <1>1, <1>2, <1>3, ReadsOn
  <2>5. taken' \in Seq(Kinds)
    BY <2>1, <1>1, <1>2
  <2> QED BY <2>2, <2>4, <2>5, <1>3, <1>5
<1>7. CASE ~ (BitsLeft >= MsgBits[m])
  <2>1. taken' = taken
    BY <1>7 DEF Advance
  <2>2. ~ (pos + w <= end)
    BY <1>3, <1>7 DEF BitsLeft
  <2>3. Reads(image[reader.at], pos + w, end, taken', sent)
    BY <2>2 DEF Reads
  <2> QED BY <2>1, <2>3, <1>2, <1>3, <1>5
<1> QED BY <1>6, <1>7

\* A script reads a message.
LEMMA ScriptReadsKeeps == ASSUME MsgInv, ScriptReads PROVE MsgInv'
<1>1. PICK m \in Types : /\ BitsLeft >= MsgBits[m] /\ reader' = [reader EXCEPT !.pos = @ + MsgBits[m]]
                         /\ taken' = Append(taken, Label(m))
  BY DEF ScriptReads
<1>2. stage = "script" /\ BitsLeft >= NET_MESSAGE_BITS
  BY DEF ScriptReads
<1>3. Advance(m)
  BY <1>1 DEF Advance
<1>4. /\ reader' \in [at : {"packet", "data"}, pos : Nat, end : Int]
      /\ reader'.at = reader.at /\ reader'.end = reader.end
      /\ taken' \in Seq(Kinds) /\ FirstBits(taken', sent)
      /\ Reads(image[reader.at], reader'.pos, reader.end, taken', sent)
  BY <1>2, <1>3, AdvanceKeeps
<1>5. /\ image' = image /\ writer' = writer /\ stage' = stage /\ sent' = sent /\ written' = written
      /\ channel' = channel /\ result' = result
  BY DEF ScriptReads
<1> QED BY <1>2, <1>4, <1>5 DEF MsgInv

\* A script writes over nothing that is still to be read.
LEMMA ScriptWritesKeeps ==
  ASSUME MsgInv, PacketHabits = {}, NEW m \in Kinds, ScriptWrites(m)
  PROVE  MsgInv'
<1>1. /\ sent \in Seq(Kinds) /\ written \in Seq(Kinds) /\ writer \in Nat
      /\ reader \in [at : {"packet", "data"}, pos : Nat, end : Int]
      /\ Reads(image[reader.at], reader.pos, reader.end, taken, sent)
      /\ Wrote(image.data, writer, written)
      /\ reader.at = "data" => reader.end <= Room
      /\ DOMAIN image = {"packet", "data"}
  BY DEF MsgInv, ScriptWrites
<1>2. PICK to : to = writer + MsgBits[m]
  OBVIOUS
<1>3. PICK data : data = [i \in 1..Room |-> IF i > writer /\ i <= to THEN <<m, i - writer>> ELSE image.data[i]]
  OBVIOUS
<1>4. /\ stage = "script" /\ to <= Room /\ (reader.at = "data" => to <= reader.pos)
      /\ image' = [image EXCEPT !.data = data] /\ writer' = to
      /\ written' = Append(written, m)
      /\ reader' = reader /\ stage' = stage /\ sent' = sent /\ taken' = taken /\ channel' = channel /\ result' = result
  BY <1>2, <1>3 DEF ScriptWrites
<1>5. Wrote(data, to, Append(written, m))
  BY <1>1, <1>2, <1>3, <1>4, WritesOn
<1>6. /\ DOMAIN image' = {"packet", "data"} /\ image'["data"] = data
      /\ image'["packet"] = image["packet"]
  BY <1>1, <1>4
<1>7. Reads(image'[reader.at], reader.pos, reader.end, taken, sent)
  <2>1. CASE reader.at = "packet"
    BY <2>1, <1>1, <1>6
  <2>2. CASE reader.at = "data"
    <3>1. PICK pos \in Nat, end \in Int : pos = reader.pos /\ end = reader.end /\ end <= Room /\ to <= pos
      BY <1>1, <1>4, <2>2
    <3>2. \A i \in Nat : i > pos /\ i <= end => data[i] = image.data[i]
      <4>1. Room \in Nat /\ to \in Nat
        BY <1>1, <1>2, MsgAssumption
      <4>2. \A i \in Nat : i > pos /\ i <= end => i \in 1..Room /\ ~ (i <= to)
        BY <3>1, <4>1
      <4> QED BY <4>2, <1>3
    <3>3. Reads(image.data, pos, end, taken, sent)
      BY <1>1, <2>2, <3>1
    <3>4. Reads(data, pos, end, taken, sent)
      BY <3>2, <3>3, <1>1, ReadsTheRest
    <3> QED BY <3>1, <3>4, <2>2, <1>6
  <2> QED BY <2>1, <2>2, <1>1
<1>8. to \in Nat /\ Append(written, m) \in Seq(Kinds)
  BY <1>1, <1>2, MsgAssumption
<1>9. /\ taken' \in Seq(Kinds) /\ FirstBits(taken', sent') /\ channel' = "live"
  BY <1>4 DEF MsgInv
<1> QED BY <1>1, <1>4, <1>5, <1>6, <1>7, <1>8, <1>9 DEF MsgInv

\* The next script, or the loop, gets what was written.
LEMMA ScriptReturnsKeeps ==
  ASSUME MsgInv, PacketHabits = {}, ScriptReturns
  PROVE  MsgInv'
<1>1. written \in Seq(Kinds) /\ writer \in Nat /\ Wrote(image.data, writer, written)
  BY DEF MsgInv, ScriptReturns
<1>2. PICK end \in Nat : end = Byte * BitByte(writer) /\ writer <= end
  BY <1>1, RoundUp
<1>3. end - writer < NET_MESSAGE_BITS /\ end <= Room
  BY <1>2 DEF ScriptReturns
<1>4. PICK from : from = writer - Len(BitsOf(written))
  OBVIOUS
<1>5. from \in Nat /\ Reads(image.data, from, end, <<>>, written) /\ Wrote(image.data, from, <<>>)
  BY <1>1, <1>2, <1>3, <1>4, ReadsWhatWasWritten
<1>6. HeaderBits = from
  <2>1. Len(BitsOf(<<>>)) = 0
    BY BitsAppend
  <2> QED BY <2>1, <1>1, <1>4 DEF HeaderBits
<1>7. /\ reader' = [at |-> "data", pos |-> from, end |-> end] /\ writer' = from
      /\ sent' = written /\ taken' = <<>> /\ written' = <<>>
      /\ stage' \in {"loop", "script"} /\ image' = image /\ channel' = channel
  BY <1>2, <1>6 DEF ScriptReturns, Restarted
<1>8. /\ reader' \in [at : {"packet", "data"}, pos : Nat, end : Int]
      /\ reader'.at = "data" /\ reader'.pos = from /\ reader'.end = end
  BY <1>5, <1>7
<1>9. Reads(image'[reader'.at], reader'.pos, reader'.end, taken', sent') /\ Wrote(image'.data, writer', written')
  BY <1>5, <1>7, <1>8
<1>10. FirstBits(taken', sent') /\ taken' \in Seq(Kinds) /\ written' \in Seq(Kinds)
  <2>1. PICK n \in Nat : n = Len(written)
    BY <1>1
  <2>2. SubSeq(written, 1, 0) = <<>>
    BY <1>1
  <2> QED BY <2>1, <2>2, <1>7 DEF FirstBits
<1>11. channel' = "live" /\ DOMAIN image' = {"packet", "data"}
  BY <1>7 DEF MsgInv, ScriptReturns
<1> QED BY <1>1, <1>3, <1>5, <1>7, <1>8, <1>9, <1>10, <1>11 DEF MsgInv

\* The loop ends well when it has taken all.
LEMMA EndOfPacketKeeps == ASSUME MsgInv, EndOfPacket PROVE MsgInv'
<1>1. /\ sent \in Seq(Kinds) /\ taken \in Seq(Kinds) /\ FirstBits(taken, sent)
      /\ reader \in [at : {"packet", "data"}, pos : Nat, end : Int]
      /\ Reads(image[reader.at], reader.pos, reader.end, taken, sent)
  BY DEF MsgInv, EndOfPacket
<1>2. PICK pos \in Nat, end \in Int : pos = reader.pos /\ end = reader.end
  BY <1>1
<1>3. end - pos \in 0..(NET_MESSAGE_BITS - 1)
  BY <1>2 DEF EndOfPacket, BitsLeft
<1>4. PICK base \in Nat :
        /\ pos = base + Len(BitsOf(taken))
        /\ \A k \in 0 .. Len(sent) - 1 :
             end - base - Len(BitsOf(SubSeq(sent, 1, k))) \notin 0 .. NET_MESSAGE_BITS - 1
  BY <1>1, <1>2, <1>3, MsgAssumption DEF Reads
<1>5. Len(taken) = Len(sent)
  <2> SUFFICES ASSUME Len(taken) # Len(sent) PROVE FALSE
    OBVIOUS
  <2>1. PICK k \in 0 .. Len(sent) - 1 : k = Len(taken)
    BY <1>1, FirstOfSent
  <2>2. SubSeq(sent, 1, k) = taken
    BY <2>1, <1>1 DEF FirstBits
  <2>3. end - base - Len(BitsOf(taken)) \notin 0 .. NET_MESSAGE_BITS - 1
    BY <2>2, <1>4
  <2>4. PICK from \in Nat : from = Len(BitsOf(taken))
    BY <1>1, BitsLen
  <2>5. pos = base + from
    BY <2>4, <1>4
  <2>6. end - base - from = end - pos
    BY <2>5
  <2> QED BY <2>3, <2>4, <2>6, <1>3
<1>6. taken = sent
  <2>1. Len(sent) \in 0 .. Len(sent)
    BY <1>1
  <2>2. \A i \in 1 .. Len(sent) : taken[i] = sent[i]
    BY <1>1, <1>5, <2>1, FirstOf DEF FirstBits
  <2> QED BY <1>1, <1>5, <2>2, SeqEqual
<1>7. /\ stage' = "idle"
      /\ UNCHANGED <<image, reader, writer, turn, sent, taken, written, channel, patch>>
  BY DEF EndOfPacket, Done
<1> QED BY <1>6, <1>7 DEF MsgInv

\* The loop processes a message, which may shut the channel only as the loop ends.
LEMMA NextMessageKeeps ==
  ASSUME MsgInv, PacketHabits = {}, NextMessage
  PROVE  MsgInv'
<1>1. stage = "loop" /\ channel = "live" /\ BitsLeft >= NET_MESSAGE_BITS
  BY DEF NextMessage, MsgInv
<1>2. Touched = "live"
  BY <1>1 DEF Touched
<1>3. PICK m \in Types :
        \/ m \in Control /\ ProcessControlMessage(m)
        \/ m \in NetMsgs /\ ProcessMessage(m)
        \/ Done(FALSE) /\ channel' = Touched /\ UNCHANGED <<reader, taken>>
  BY DEF NextMessage
<1>4. /\ image' = image /\ writer' = writer /\ sent' = sent /\ written' = written
  BY DEF NextMessage
<1>5. Advance(m) \/ UNCHANGED <<reader, taken>>
  BY <1>3 DEF ProcessControlMessage, ProcessMessage
<1>6. /\ stage' \in {"loop", "idle"} /\ (stage' = "loop" => channel' = "live") /\ channel' # "dangling"
      /\ stage' = "idle" => result' = FALSE
  <2>1. CASE m \in Control /\ ProcessControlMessage(m)
    BY <2>1, <1>2 DEF ProcessControlMessage, Control, GoOn, Done
  <2>2. CASE m \in NetMsgs /\ ProcessMessage(m)
    <3>1. \/ GoOn /\ channel' = Touched
          \/ Done(FALSE) /\ channel' \in {Touched, "deleted"}
      BY <2>2 DEF ProcessMessage
    <3> QED BY <3>1, <1>2 DEF GoOn, Done
  <2>3. CASE Done(FALSE) /\ channel' = Touched
    BY <2>3, <1>2 DEF Done
  <2> QED BY <1>3, <2>1, <2>2, <2>3
<1>7. /\ reader' \in [at : {"packet", "data"}, pos : Nat, end : Int]
      /\ reader'.at = reader.at /\ reader'.end = reader.end
      /\ taken' \in Seq(Kinds) /\ FirstBits(taken', sent)
      /\ Reads(image[reader.at], reader'.pos, reader.end, taken', sent)
  <2>1. CASE Advance(m)
    BY <2>1, <1>1, AdvanceKeeps
  <2>2. CASE UNCHANGED <<reader, taken>>
    BY <2>2, <1>1 DEF MsgInv
  <2> QED BY <2>1, <2>2, <1>5
<1> QED BY <1>1, <1>4, <1>6, <1>7 DEF MsgInv

\* Each script reads, and the loop processes, what the script before it wrote, for any
\* packets, kinds of messages, number of Lua states and size of a byte.
THEOREM MessagesArePassedOn ==
  ASSUME PacketHabits = {}
  PROVE  MsgSpec => []MessagesPassOn
<1>1. MsgInit => MsgInv
  <2> SUFFICES ASSUME MsgInit PROVE MsgInv
    OBVIOUS
  <2>1. FirstBits(<<>>, <<>>)
    BY DEF FirstBits
  <2>2. DOMAIN image = {"packet", "data"} /\ reader \in [at : {"packet", "data"}, pos : Nat, end : Int]
        /\ reader.at = "packet"
    BY DEF MsgInit
  <2> QED BY <2>1, <2>2 DEF MsgInit, MsgInv
<1>2. MsgInv /\ [MsgNext]_msgVars => MsgInv'
  <2> SUFFICES ASSUME MsgInv, [MsgNext]_msgVars PROVE MsgInv'
    OBVIOUS
  <2>1. CASE Overflow
    <3>1. /\ stage' = "idle" /\ result' = FALSE /\ channel' = "live"
      BY <2>1 DEF Overflow, Done, Touched, MsgInv
    <3>2. UNCHANGED <<image, reader, writer, turn, sent, taken, written, patch>>
      BY <2>1 DEF Overflow
    <3> QED BY <3>1, <3>2 DEF MsgInv
  <2>2. CASE Reconnect
    BY <2>2 DEF Reconnect, MsgInv
  <2>3. CASE AttachMessages \/ DetachMessages \/ UNCHANGED msgVars
    BY <2>3 DEF AttachMessages, DetachMessages, msgVars, MsgInv
  <2> QED BY <2>1, <2>2, <2>3, ArriveKeeps, ScriptReadsKeeps, ScriptReturnsKeeps, ScriptWritesKeeps,
             EndOfPacketKeeps, NextMessageKeeps DEF MsgNext
<1>3. MsgInv => MessagesPassOn
  <2> SUFFICES ASSUME MsgInv PROVE MessagesPassOn
    OBVIOUS
  <2>1. SubSeq(taken, 1, Len(taken)) = taken
    <3>1. taken \in Seq(Kinds)
      BY DEF MsgInv
    <3>2. PICK t \in Seq(Kinds) : t = taken
      BY <3>1
    <3>3. PICK n \in 0 .. Len(t) : n = Len(t)
      OBVIOUS
    <3>4. SubSeq(t, 1, n) \in Seq(Kinds) /\ Len(SubSeq(t, 1, n)) = n /\ \A i \in 1 .. n : SubSeq(t, 1, n)[i] = t[i]
      BY FirstOf
    <3>5. SubSeq(t, 1, n) = t
      BY <3>3, <3>4, SeqEqual
    <3> QED BY <3>2, <3>3, <3>5
  <2>2. IsPrefix(taken, sent)
    BY <2>1 DEF MsgInv, FirstBits, IsPrefix
  <2> QED BY <2>2 DEF MsgInv, MessagesPassOn
<1> QED BY <1>1, <1>2, <1>3, PTL DEF MsgSpec

----------------------------------------------------------------------------
(* The buffers of messages.  A number is the sum of its bits, a string is    *)
(* made of bytes, and what a script wrote keeps its bits until it writes     *)
(* over them.                                                                *)

\* The powers of two.
LEMMA PowFacts ==
  /\ Pow2[0] = 1
  /\ \A n \in Nat : Pow2[n] \in Nat \ {0} /\ Pow2[n + 1] = 2 * Pow2[n]
<1> DEFINE Links(f) == f = [n \in Nat |-> IF n = 0 THEN 1 ELSE 2 * f[n - 1]]
           step == [n \in Nat |-> [v \in Nat |-> 2 * v]]
<1>1. Pow2 = CHOOSE f : Links(f)
  BY DEF Pow2
<1>2. PICK g : MadeFrom(g, Nat, 1, step)
  <2>1. step \in [Nat -> [Nat -> Nat]] /\ 1 \in Nat
    OBVIOUS
  <2> HIDE DEF step
  <2> QED BY <2>1, PrimRec
<1>3. g \in [Nat -> Nat] /\ g[0] = 1 /\ \A n \in Nat : g[n + 1] = 2 * g[n]
  BY <1>2 DEF MadeFrom
<1>4. \A n \in Nat : g[n] = IF n = 0 THEN 1 ELSE 2 * g[n - 1]
  <2> SUFFICES ASSUME NEW n \in Nat, n # 0 PROVE g[n] = 2 * g[n - 1]
    BY <1>3
  <2>1. n - 1 \in Nat /\ (n - 1) + 1 = n
    OBVIOUS
  <2> QED BY <2>1, <1>3
<1>5. Links(g)
  BY <1>3, <1>4
<1>6. Links(Pow2)
  <2> HIDE DEF Links
  <2> QED BY <1>1, <1>5
<1>7. Pow2[0] = 1 /\ \A n \in Nat : Pow2[n + 1] = 2 * Pow2[n]
  <2>1. \A n \in Nat : n + 1 \in Nat /\ n + 1 # 0 /\ (n + 1) - 1 = n
    OBVIOUS
  <2> QED BY <1>6, <2>1
<1> DEFINE T == { n \in Nat : Pow2[n] \in Nat \ {0} }
<1>8. 0 \in T
  BY <1>7
<1>9. ASSUME NEW n \in Nat, n \in T PROVE n + 1 \in T
  BY <1>7, <1>9
<1> HIDE DEF T
<1>10. \A n \in Nat : n \in T
  BY <1>8, <1>9, NatInduct
<1> QED BY <1>7, <1>10 DEF T

\* The high bits of a number.
LEMMA ShiftFacts ==
  ASSUME NEW v \in Int
  PROVE  /\ Shifted[0][v] = v
         /\ \A n \in Nat : Shifted[n][v] \in Int /\ Shifted[n + 1][v] = Shifted[n][v] \div 2
<1> DEFINE V == [Int -> Int]
           Links(f) == f = [n \in Nat |-> [u \in Int |-> IF n = 0 THEN u ELSE f[n - 1][u] \div 2]]
           step == [n \in Nat |-> [f \in V |-> [u \in Int |-> f[u] \div 2]]]
           id == [u \in Int |-> u]
<1>1. Shifted = CHOOSE f : Links(f)
  BY DEF Shifted
<1>2. PICK g : MadeFrom(g, V, id, step)
  <2>1. \A f \in V : [u \in Int |-> f[u] \div 2] \in V
    OBVIOUS
  <2>2. id \in V
    OBVIOUS
  <2> HIDE DEF V
  <2>3. step \in [Nat -> [V -> V]]
    BY <2>1
  <2> HIDE DEF step, id
  <2> QED BY <2>2, <2>3, PrimRec
<1>3. g \in [Nat -> V] /\ g[0] = id /\ \A n \in Nat : g[n + 1] = step[n][g[n]]
  <2> HIDE DEF V, id, step
  <2> QED BY <1>2 DEF MadeFrom
<1>4. ASSUME NEW n \in Nat PROVE g[n + 1] = [u \in Int |-> g[n][u] \div 2]
  <2>1. g[n] \in V
    BY <1>3
  <2> HIDE DEF V
  <2> QED BY <2>1, <1>3
<1>5. ASSUME NEW n \in Nat PROVE g[n] = [u \in Int |-> IF n = 0 THEN u ELSE g[n - 1][u] \div 2]
  <2>1. CASE n = 0
    BY <2>1, <1>3
  <2>2. CASE n # 0
    <3>1. PICK m \in Nat : m = n - 1 /\ m + 1 = n
      <4>1. n - 1 \in Nat /\ (n - 1) + 1 = n
        BY <2>2
      <4> QED BY <4>1
    <3>2. g[n] = [u \in Int |-> g[m][u] \div 2]
      BY <3>1, <1>4
    <3> QED BY <2>2, <3>1, <3>2
  <2> QED BY <2>1, <2>2
<1>6. Links(g)
  BY <1>3, <1>5
<1>7. Links(Shifted)
  <2> HIDE DEF Links
  <2> QED BY <1>1, <1>6
<1> HIDE DEF V, step, id
<1>8. \A n \in Nat : Shifted[n][v] = IF n = 0 THEN v ELSE Shifted[n - 1][v] \div 2
  BY <1>7
<1>9. Shifted[0][v] = v
  BY <1>8
<1>10. \A n \in Nat : Shifted[n + 1][v] = Shifted[n][v] \div 2
  <2>1. \A n \in Nat : n + 1 \in Nat /\ n + 1 # 0 /\ (n + 1) - 1 = n
    OBVIOUS
  <2> QED BY <1>8, <2>1
<1> DEFINE T == { n \in Nat : Shifted[n][v] \in Int }
<1>11. 0 \in T
  BY <1>9
<1>12. ASSUME NEW n \in Nat, n \in T PROVE n + 1 \in T
  BY <1>10, <1>12
<1> HIDE DEF T
<1>13. \A n \in Nat : n \in T
  BY <1>11, <1>12, NatInduct
<1> QED BY <1>9, <1>10, <1>13 DEF T

\* A number has no more bits than its size, and a negative one all of them.
LEMMA ShiftedOut ==
  ASSUME NEW n \in Nat, NEW v \in Int
  PROVE  /\ v \in 0 .. Pow2[n] - 1 => Shifted[n][v] = 0
         /\ v \in -Pow2[n] .. -1 => Shifted[n][v] = -1
<1> DEFINE T == { k \in Nat : k <= n =>
                    /\ v \in 0 .. Pow2[n] - 1 => Shifted[k][v] \in 0 .. Pow2[n - k] - 1
                    /\ v \in -Pow2[n] .. -1 => Shifted[k][v] \in -Pow2[n - k] .. -1 }
<1>1. 0 \in T
  <2>1. n - 0 = n /\ Shifted[0][v] = v
    BY ShiftFacts
  <2> QED BY <2>1
<1>2. ASSUME NEW k \in Nat, k \in T PROVE k + 1 \in T
  <2> SUFFICES ASSUME k + 1 <= n
               PROVE  /\ v \in 0 .. Pow2[n] - 1 => Shifted[k + 1][v] \in 0 .. Pow2[n - (k + 1)] - 1
                      /\ v \in -Pow2[n] .. -1 => Shifted[k + 1][v] \in -Pow2[n - (k + 1)] .. -1
    OBVIOUS
  <2>1. PICK m \in Nat : m = n - (k + 1) /\ m + 1 = n - k
    <3>1. n - (k + 1) \in Nat /\ (n - (k + 1)) + 1 = n - k
      OBVIOUS
    <3> QED BY <3>1
  <2>2. PICK p \in Nat : p = Pow2[m] /\ Pow2[m + 1] = 2 * p
    BY PowFacts
  <2>3. PICK x, y \in Int : x = Shifted[k][v] /\ y = Shifted[k + 1][v] /\ y = x \div 2
    <3>1. k + 1 \in Nat
      OBVIOUS
    <3>2. PICK x \in Int : x = Shifted[k][v]
      BY ShiftFacts
    <3>3. PICK y \in Int : y = Shifted[k + 1][v]
      BY <3>1, ShiftFacts
    <3>4. Shifted[k + 1][v] = Shifted[k][v] \div 2
      BY ShiftFacts
    <3> QED BY <3>2, <3>3, <3>4
  <2>4. /\ v \in 0 .. Pow2[n] - 1 => x \in 0 .. 2 * p - 1
        /\ v \in -Pow2[n] .. -1 => x \in -(2 * p) .. -1
    BY <1>2, <2>1, <2>2, <2>3
  <2>5. (x \in 0 .. 2 * p - 1 => y \in 0 .. p - 1) /\ (x \in -(2 * p) .. -1 => y \in -p .. -1)
    BY <2>3
  <2> QED BY <2>1, <2>2, <2>3, <2>4, <2>5
<1> HIDE DEF T
<1>3. n \in T
  BY <1>1, <1>2, NatInduct
<1>4. n - n = 0 /\ n <= n /\ Pow2[0] = 1 /\ Shifted[n][v] \in Int
  BY PowFacts, ShiftFacts
<1> QED BY <1>3, <1>4 DEF T

\* What BitSum sums.
LEMMA SumFacts ==
  ASSUME NEW n \in Nat, NEW bits \in Seq(Int), Len(bits) = n
  PROVE  \E high \in [0 .. n -> Int] :
           /\ high[0] = 0 /\ \A k \in 1 .. n : high[k] = bits[n - k + 1] + 2 * high[k - 1]
           /\ BitSum(bits) = high[n]
<1> DEFINE Links(f) == f = [k \in 0 .. Len(bits) |->
             IF k = 0 THEN 0 ELSE bits[Len(bits) - k + 1] + 2 * f[k - 1]]
           high == CHOOSE f : Links(f)
           step == [k \in 1 .. n |-> [v \in Int |-> bits[n - k + 1] + 2 * v]]
<1>1. BitSum(bits) = high[Len(bits)]
  BY DEF BitSum
<1> HIDE DEF high
<1>2. \A k \in 1 .. n : bits[n - k + 1] \in Int
  <2>1. \A k \in 1 .. n : n - k + 1 \in 1 .. Len(bits)
    OBVIOUS
  <2> QED BY <2>1
<1>3. step \in [1 .. n -> [Int -> Int]]
  BY <1>2
<1>4. PICK g : MadeUpTo(g, n, Int, 0, step)
  <2>1. 0 \in Int
    OBVIOUS
  <2> HIDE DEF step
  <2> QED BY <1>3, <2>1, RangeRec
<1>5. g \in [0 .. n -> Int] /\ g[0] = 0 /\ \A k \in 1 .. n : g[k] = step[k][g[k - 1]]
  BY <1>4 DEF MadeUpTo
<1>6. ASSUME NEW k \in 1 .. n PROVE g[k] = bits[n - k + 1] + 2 * g[k - 1]
  <2>1. k - 1 \in 0 .. n
    OBVIOUS
  <2>2. g[k - 1] \in Int
    BY <2>1, <1>5
  <2> QED BY <2>2, <1>5
<1>7. Links(g)
  <2>1. ASSUME NEW k \in 0 .. n PROVE g[k] = IF k = 0 THEN 0 ELSE bits[n - k + 1] + 2 * g[k - 1]
    <3>1. CASE k = 0
      BY <3>1, <1>5
    <3>2. CASE k # 0
      <4>1. k \in 1 .. n
        BY <3>2
      <4> QED BY <3>2, <4>1, <1>6
    <3> QED BY <3>1, <3>2
  <2> QED BY <2>1, <1>5
<1>8. Links(high)
  <2> HIDE DEF Links
  <2> QED BY <1>7 DEF high
<1> DEFINE T == { k \in 0 .. n : high[k] = g[k] }
<1>9. \A k \in 0 .. n : k \in T
  <2>1. 0 \in T
    BY <1>5, <1>8
  <2>2. ASSUME NEW k \in 1 .. n, k - 1 \in T PROVE k \in T
    <3>1. k \in 0 .. n /\ k # 0
      OBVIOUS
    <3>2. high[k] = bits[n - k + 1] + 2 * high[k - 1]
      BY <3>1, <1>8
    <3> QED BY <3>1, <3>2, <2>2, <1>6
  <2> HIDE DEF T
  <2> QED BY <2>1, <2>2, RangeInduct
<1>10. BitSum(bits) = g[n]
  <2>1. n \in T
    BY <1>9
  <2> QED BY <2>1, <1>1
<1> QED BY <1>5, <1>6, <1>10

\* The sum of the bits of a number: the number, less what it has above them.
LEMMA UnsignedSum ==
  ASSUME NEW n \in Nat, NEW v \in Int
  PROVE  /\ Unsigned(v, n) \in Seq({0, 1}) /\ Len(Unsigned(v, n)) = n
         /\ BitSum(Unsigned(v, n)) = v - Shifted[n][v] * Pow2[n]
<1>1. PICK bits : bits = Unsigned(v, n)
  OBVIOUS
<1>2. \A i \in 1 .. n : bits[i] = Shifted[i - 1][v] % 2 /\ bits[i] \in {0, 1}
  <2>1. ASSUME NEW i \in 1 .. n PROVE Shifted[i - 1][v] % 2 \in {0, 1}
    <3>1. i - 1 \in Nat
      OBVIOUS
    <3>2. PICK x \in Int : x = Shifted[i - 1][v]
      BY <3>1, ShiftFacts
    <3> QED BY <3>2
  <2> QED BY <2>1, <1>1 DEF Unsigned
<1>3. bits \in Seq({0, 1}) /\ Len(bits) = n
  <2> DEFINE bit(i) == Shifted[i - 1][v] % 2
  <2>1. bits = [i \in 1 .. n |-> bit(i)]
    BY <1>1 DEF Unsigned
  <2>2. \A i \in 1 .. n : bit(i) \in {0, 1}
    BY <1>2
  <2> HIDE DEF bit
  <2>3. bits \in Seq({0, 1})
    BY <2>1, <2>2
  <2> QED BY <2>1, <2>3
<1>4. bits \in Seq(Int)
  BY <1>3
<1>5. PICK high \in [0 .. n -> Int] :
        /\ high[0] = 0 /\ \A k \in 1 .. n : high[k] = bits[n - k + 1] + 2 * high[k - 1]
        /\ BitSum(bits) = high[n]
  BY <1>3, <1>4, SumFacts
<1>6. PICK h \in Int : h = Shifted[n][v]
  BY ShiftFacts
<1> DEFINE T == { k \in 0 .. n : high[k] = Shifted[n - k][v] - h * Pow2[k] }
<1>7. 0 \in T
  <2>1. n - 0 = n /\ Pow2[0] = 1
    BY PowFacts
  <2> QED BY <2>1, <1>5, <1>6
<1>8. ASSUME NEW k \in 1 .. n, k - 1 \in T PROVE k \in T
  <2>1. PICK m \in Nat : m = n - k
    OBVIOUS
  <2>x. PICK x \in Int : x = Shifted[m][v]
    BY ShiftFacts
  <2>y. PICK y \in Int : y = Shifted[m + 1][v]
    <3>1. m + 1 \in Nat
      OBVIOUS
    <3> QED BY <3>1, ShiftFacts
  <2>2. y = x \div 2
    BY <2>x, <2>y, ShiftFacts
  <2>3. PICK p \in Nat : p = Pow2[k - 1] /\ Pow2[k] = 2 * p
    <3>1. k - 1 \in Nat /\ (k - 1) + 1 = k
      OBVIOUS
    <3> QED BY <3>1, PowFacts
  <2>4. high[k - 1] = y - h * p
    <3>1. n - (k - 1) = m + 1
      BY <2>1
    <3> QED BY <3>1, <2>y, <2>3, <1>6, <1>8
  <2>5. bits[n - k + 1] = x % 2
    <3>1. n - k + 1 \in 1 .. n /\ (n - k + 1) - 1 = m
      BY <2>1
    <3> QED BY <3>1, <2>x, <1>2
  <2>6. high[k] = (x % 2) + 2 * (y - h * p)
    BY <2>4, <2>5, <1>5
  <2>7. x = 2 * y + (x % 2)
    BY <2>2
  <2>8. PICK hp \in Int : hp = h * p /\ h * (2 * p) = 2 * hp
    <3>1. h * p \in Int /\ h * (2 * p) = 2 * (h * p)
      OBVIOUS
    <3> QED BY <3>1
  <2>9. high[k] = x - 2 * hp
    <3>1. x % 2 \in Int
      OBVIOUS
    <3> QED BY <3>1, <2>6, <2>7, <2>8
  <2>10. h * Pow2[k] = 2 * hp
    BY <2>3, <2>8
  <2> QED BY <2>1, <2>x, <2>9, <2>10, <1>6
<1> HIDE DEF T
<1>9. n \in T
  <2>1. n \in 0 .. n
    OBVIOUS
  <2> QED BY <2>1, <1>7, <1>8, RangeInduct
<1>10. high[n] = Shifted[0][v] - h * Pow2[n]
  <2>1. n - n = 0
    OBVIOUS
  <2> QED BY <2>1, <1>9 DEF T
<1> QED BY <1>1, <1>3, <1>5, <1>6, <1>10, ShiftFacts

\* The sum of bits is a number of its own.
LEMMA SumIsInt ==
  ASSUME NEW bits \in Seq(Int)
  PROVE  BitSum(bits) \in Int
<1>1. PICK n \in Nat : n = Len(bits)
  OBVIOUS
<1>2. PICK high \in [0 .. n -> Int] : BitSum(bits) = high[n]
  BY <1>1, SumFacts
<1>3. n \in 0 .. n
  OBVIOUS
<1> QED BY <1>2, <1>3

\* WriteSBitLong's bits of a number that fits are the number's own.
LEMMA SignedAreOwn ==
  ASSUME NEW m \in Nat, NEW v \in -Pow2[m] .. Pow2[m] - 1
  PROVE  /\ SignedBits(v, m + 1) = Unsigned(v, m + 1)
         /\ Unsigned(v, m + 1)[m + 1] = (IF v < 0 THEN 1 ELSE 0)
         /\ Shifted[m + 1][v] = (IF v < 0 THEN -1 ELSE 0)
<1> USE PowFacts
<1>1. Pow2[m] \in Nat /\ v \in Int
  OBVIOUS
<1>2. Shifted[m][v] = IF v < 0 THEN -1 ELSE 0
  <2>1. CASE v < 0
    <3>1. v \in -Pow2[m] .. -1
      BY <2>1, <1>1
    <3> QED BY <2>1, <3>1, <1>1, ShiftedOut
  <2>2. CASE ~ (v < 0)
    <3>1. v \in 0 .. Pow2[m] - 1
      BY <2>2, <1>1
    <3> QED BY <2>2, <3>1, <1>1, ShiftedOut
  <2> QED BY <2>1, <2>2
<1>3. Shifted[m + 1][v] = IF v < 0 THEN -1 ELSE 0
  <2>1. Shifted[m + 1][v] = Shifted[m][v] \div 2
    BY <1>1, ShiftFacts
  <2>2. \A x \in Int : (x = -1 => x \div 2 = -1) /\ (x = 0 => x \div 2 = 0)
    OBVIOUS
  <2>3. -1 \in Int /\ 0 \in Int
    OBVIOUS
  <2> HIDE PowFacts
  <2> QED BY <2>1, <2>2, <2>3, <1>2
<1>4. Shifted[m][v] % 2 = IF v < 0 THEN 1 ELSE 0
  <2>1. \A x \in Int : (x = -1 => x % 2 = 1) /\ (x = 0 => x % 2 = 0)
    OBVIOUS
  <2>2. -1 \in Int /\ 0 \in Int
    OBVIOUS
  <2> HIDE PowFacts
  <2> QED BY <2>1, <2>2, <1>2
<1>5. m + 1 \in 1 .. m + 1 /\ (m + 1) - 1 = m
  OBVIOUS
<1>6. Unsigned(v, m + 1)[m + 1] = IF v < 0 THEN 1 ELSE 0
  BY <1>4, <1>5 DEF Unsigned
<1>7. ASSUME NEW i \in 1 .. m + 1
      PROVE  (IF i < m + 1 THEN Shifted[i - 1][v] % 2 ELSE IF v < 0 THEN 1 ELSE 0)
               = Shifted[i - 1][v] % 2
  <2>1. CASE i < m + 1
    BY <2>1
  <2>2. CASE ~ (i < m + 1)
    <3>1. i = m + 1 /\ i - 1 = m
      BY <2>2
    <3> QED BY <2>2, <3>1, <1>4
  <2> QED BY <2>1, <2>2
<1>8. SignedBits(v, m + 1) = Unsigned(v, m + 1)
  BY <1>7 DEF SignedBits, Unsigned
<1> QED BY <1>3, <1>6, <1>8

\* A number of 0..2^n - 1 is the sum of its bits.
LEMMA SumOfBits ==
  ASSUME NEW n \in Nat, NEW v \in 0 .. Pow2[n] - 1
  PROVE  BitSum(Unsigned(v, n)) = v
<1>1. Pow2[n] \in Nat /\ v \in Int
  BY PowFacts
<1>2. Shifted[n][v] = 0
  BY <1>1, ShiftedOut
<1>3. BitSum(Unsigned(v, n)) = v - 0 * Pow2[n]
  BY <1>1, <1>2, UnsignedSum
<1> QED BY <1>1, <1>3

\* A format has a width, which is not 0.
LEMMA WidthFacts ==
  ASSUME NEW as \in AllFormats, NEW n \in WidthsOf(as)
  PROVE  n \in Nat \ {0} /\ (as = "OneBit" => n = 1) /\ as # "String"
BY BufAssumption DEF AllFormats, WidthsOf

\* A number that fits what it is written as, and is not masked to another one,
\* is read back out of the bits it becomes.
LEMMA NumberReads ==
  ASSUME NEW as \in AllFormats, NEW n \in WidthsOf(as), NEW v \in Int,
         FitsFormat(v, as, n), "negative" \notin BufferHabits
  PROVE  /\ WrittenBits(v, as, n) \in Seq({0, 1}) /\ Len(WrittenBits(v, as, n)) = n
         /\ NumberOf(WrittenBits(v, as, n), as) = v
<1>1. n \in Nat \ {0} /\ Pow2[n] \in Nat \ {0} /\ (as = "OneBit" => n = 1)
  BY WidthFacts, PowFacts
<1>2. CASE as = "OneBit"
  <2>1. v \in {0, 1} /\ n = 1
    <3>1. FitsFormat(v, "OneBit", n) => v \in {0, 1}
      BY DEF FitsFormat, Signed
    <3> QED BY <1>1, <1>2, <3>1
  <2>2. WrittenBits(v, as, n) = <<v>>
    BY <1>2, <2>1 DEF WrittenBits
  <2>3. PICK bits : bits = <<v>>
    OBVIOUS
  <2>4. bits \in Seq({0, 1}) /\ bits \in Seq(Int) /\ Len(bits) = 1 /\ bits[1] = v
    BY <2>1, <2>3
  <2>5. PICK high \in [0 .. 1 -> Int] :
          /\ high[0] = 0 /\ \A k \in 1 .. 1 : high[k] = bits[1 - k + 1] + 2 * high[k - 1]
          /\ BitSum(bits) = high[1]
    BY <2>4, SumFacts
  <2>6. 1 \in 1 .. 1 /\ 1 - 1 + 1 = 1 /\ 1 - 1 = 0
    OBVIOUS
  <2>7. high[1] = bits[1] + 2 * high[0]
    BY <2>5, <2>6
  <2>8. BitSum(bits) = v
    BY <2>1, <2>4, <2>5, <2>7
  <2>9. NumberOf(bits, as) = BitSum(bits) - 0
    BY <1>2 DEF NumberOf, Signed
  <2>10. NumberOf(bits, as) = v
    BY <2>1, <2>8, <2>9
  <2> QED BY <2>1, <2>2, <2>3, <2>4, <2>10
<1>3. CASE as # "OneBit" /\ as \in Signed
  <2>1. PICK m \in Nat : n = m + 1 /\ m = n - 1
    <3>1. n - 1 \in Nat /\ n = (n - 1) + 1
      BY <1>1
    <3> QED BY <3>1
  <2>2. v \in -Pow2[m] .. Pow2[m] - 1 /\ (as \in Masked => ~ (v < 0))
    BY <1>3, <2>1 DEF FitsFormat
  <2>3. Pow2[m] \in Nat \ {0} /\ Pow2[n] = 2 * Pow2[m]
    BY <2>1, PowFacts
  <2>4. Mask(v, as, n) = v
    <3>1. CASE as \in Masked
      <4>1. v \in 0 .. Pow2[n] - 1
        BY <2>2, <2>3, <3>1
      <4>2. v % Pow2[n] = v
        BY <4>1, <1>1
      <4> QED BY <4>2, <3>1 DEF Mask
    <3>2. CASE as \notin Masked
      BY <3>2 DEF Mask
    <3> QED BY <3>1, <3>2
  <2>5. PICK bits : bits = Unsigned(v, n)
    OBVIOUS
  <2>6. WrittenBits(v, as, n) = bits
    <3>1. WrittenBits(v, as, n) = SignedBits(v, n)
      BY <1>3, <2>4 DEF WrittenBits
    <3> QED BY <3>1, <2>1, <2>2, <2>5, SignedAreOwn
  <2>7. bits \in Seq({0, 1}) /\ Len(bits) = n /\ BitSum(bits) = v - Shifted[n][v] * Pow2[n]
    BY <1>1, <2>5, UnsignedSum
  <2>8. bits[n] = (IF v < 0 THEN 1 ELSE 0) /\ Shifted[n][v] = (IF v < 0 THEN -1 ELSE 0)
    BY <2>1, <2>2, <2>5, SignedAreOwn
  <2>9. NumberOf(bits, as) = BitSum(bits) - (IF bits[n] = 1 THEN Pow2[n] ELSE 0)
    BY <1>3, <2>7 DEF NumberOf
  <2>10. NumberOf(bits, as) = v
    <3>1. CASE v < 0
      <4>1. BitSum(bits) = v - (-1) * Pow2[n] /\ bits[n] = 1
        BY <2>7, <2>8, <3>1
      <4>2. NumberOf(bits, as) = (v - (-1) * Pow2[n]) - Pow2[n]
        BY <2>9, <4>1
      <4> QED BY <4>2, <1>1
    <3>2. CASE ~ (v < 0)
      <4>1. BitSum(bits) = v - 0 * Pow2[n] /\ bits[n] = 0
        BY <2>7, <2>8, <3>2
      <4>2. NumberOf(bits, as) = (v - 0 * Pow2[n]) - 0
        BY <2>9, <4>1
      <4> QED BY <4>2, <1>1
    <3> QED BY <3>1, <3>2
  <2> QED BY <2>6, <2>7, <2>10
<1>4. CASE as # "OneBit" /\ as \notin Signed
  <2>1. v \in 0 .. Pow2[n] - 1
    BY <1>4 DEF FitsFormat
  <2>2. v % Pow2[n] = v
    BY <2>1, <1>1
  <2>3. WrittenBits(v, as, n) = Unsigned(v, n)
    BY <1>4, <2>2 DEF WrittenBits, Mask
  <2>4. PICK bits : bits = Unsigned(v, n)
    OBVIOUS
  <2>5. bits \in Seq({0, 1}) /\ Len(bits) = n /\ BitSum(bits) = v
    BY <1>1, <2>1, <2>4, UnsignedSum, SumOfBits
  <2>6. NumberOf(bits, as) = BitSum(bits) - 0
    BY <1>4 DEF NumberOf
  <2> QED BY <2>3, <2>4, <2>5, <2>6
<1> QED BY <1>2, <1>3, <1>4

\* A string is its characters and the 0 behind them, a byte after the other.
LEMMA StringReads ==
  ASSUME NEW word \in Words
  PROVE  /\ StringBits(word) \in Seq({0, 1}) /\ Len(StringBits(word)) = (Len(word) + 1) * ByteBits
         /\ \A i \in 1 .. Len(word) + 1 :
              /\ \A j \in 1 .. ByteBits : (i - 1) * ByteBits + j \in 1 .. Len(StringBits(word))
              /\ BitSum([j \in 1 .. ByteBits |-> StringBits(word)[(i - 1) * ByteBits + j]])
                   = Append(word, 0)[i]
<1>1. PICK B \in Nat \ {0} : B = ByteBits
  BY BufAssumption
<1>2. PICK w : w = Append(word, 0)
  OBVIOUS
<1>3. word \in Seq(1 .. Pow2[B] - 1) /\ Pow2[B] \in Nat \ {0}
  BY <1>1, BufAssumption, PowFacts
<1>4. PICK l \in Nat : l = Len(word)
  BY <1>3
<1>5. Len(w) = l + 1 /\ \A i \in 1 .. l + 1 : w[i] \in 0 .. Pow2[B] - 1
  <2>1. word \in Seq(0 .. Pow2[B] - 1) /\ 0 \in 0 .. Pow2[B] - 1
    <3>1. 1 .. Pow2[B] - 1 \subseteq 0 .. Pow2[B] - 1 /\ 0 \in 0 .. Pow2[B] - 1
      BY <1>3
    <3> QED BY <3>1, <1>3
  <2> DEFINE C == 0 .. Pow2[B] - 1
  <2> HIDE DEF C
  <2>2. word \in Seq(C) /\ 0 \in C
    BY <2>1 DEF C
  <2>3. w \in Seq(C) /\ Len(w) = Len(word) + 1
    BY <2>2, <1>2
  <2>4. \A i \in 1 .. l + 1 : w[i] \in C
    BY <2>3, <1>4
  <2> QED BY <2>3, <2>4, <1>4 DEF C
<1>6. PICK bits : bits = StringBits(word)
  OBVIOUS
<1> DEFINE bit(k) == Unsigned(w[1 + ((k - 1) \div B)], B)[1 + ((k - 1) % B)]
           byte(i) == [j \in 1 .. B |-> bits[(i - 1) * B + j]]
<1>7. bits = [k \in 1 .. (l + 1) * B |-> bit(k)]
  BY <1>1, <1>2, <1>4, <1>6 DEF StringBits
<1>8. PICK s \in Nat : s = (l + 1) * B
  OBVIOUS
<1>9. ASSUME NEW i \in 1 .. l + 1, NEW j \in 1 .. B
      PROVE  (i - 1) * B + j \in 1 .. s /\ bit((i - 1) * B + j) = Unsigned(w[i], B)[j]
  <2>1. PICK q \in 0 .. l : q = i - 1
    OBVIOUS
  <2>2. PICK k \in Int : k = (i - 1) * B + j
    OBVIOUS
  <2>3. k - 1 = B * q + (j - 1)
    <3>1. (i - 1) * B = B * q
      BY <2>1
    <3> QED BY <3>1, <2>2
  <2>4. (k - 1) % B = j - 1 /\ (k - 1) \div B = q
    <3>1. j - 1 \in 0 .. B - 1
      OBVIOUS
    <3> QED BY <2>3, <3>1, DivUnique
  <2>5. 1 + q = i /\ 1 + (j - 1) = j
    BY <2>1
  <2>6. k \in 1 .. s
    <3>1. B * q >= 0 /\ B * q <= B * l
      <4>1. \A a, b, c \in Nat : a <= b => c * a <= c * b
        OBVIOUS
      <4>2. q \in Nat /\ q <= l /\ B * q \in Nat
        OBVIOUS
      <4> QED BY <4>1, <4>2
    <3>2. s = B * l + B
      BY <1>8
    <3>3. B * q \in Int /\ B * l \in Int
      OBVIOUS
    <3> QED BY <3>1, <3>2, <3>3, <2>3
  <2> QED BY <2>2, <2>4, <2>5, <2>6
<1>10. \A k \in 1 .. s : bit(k) \in {0, 1}
  <2> SUFFICES ASSUME NEW k \in 1 .. s PROVE bit(k) \in {0, 1}
    OBVIOUS
  <2>1. PICK q, j \in Int : /\ k - 1 = B * q + j /\ j \in 0 .. B - 1
                            /\ q = (k - 1) \div B /\ j = (k - 1) % B
    <3>1. \A x \in Int : x = B * (x \div B) + (x % B) /\ x % B \in 0 .. B - 1 /\ x \div B \in Int
      OBVIOUS
    <3>2. k - 1 \in Int
      OBVIOUS
    <3> QED BY <3>1, <3>2
  <2>2. q \in 0 .. l
    <3>1. ~ (q <= -1)
      <4>1. q <= -1 => B * q <= -B
        OBVIOUS
      <4>2. B * q \in Int
        OBVIOUS
      <4> QED BY <4>1, <4>2, <2>1
    <3>2. ~ (q >= l + 1)
      <4>1. q >= l + 1 => B * q >= s
        BY <1>8
      <4>2. B * q \in Int
        OBVIOUS
      <4> QED BY <4>1, <4>2, <2>1
    <3> QED BY <3>1, <3>2
  <2>3. PICK c \in Int : c = w[1 + q]
    <3>1. 1 + q \in 1 .. l + 1
      BY <2>2
    <3> QED BY <3>1, <1>5
  <2>4. Unsigned(c, B) \in Seq({0, 1}) /\ Len(Unsigned(c, B)) = B
    BY UnsignedSum
  <2>5. 1 + j \in 1 .. B
    BY <2>1
  <2>6. bit(k) = Unsigned(c, B)[1 + j]
    BY <2>1, <2>3
  <2> HIDE DEF bit
  <2> QED BY <2>4, <2>5, <2>6
<1> HIDE DEF bit
<1>11. bits \in Seq({0, 1}) /\ Len(bits) = s
  <2>1. bits \in Seq({0, 1})
    BY <1>7, <1>8, <1>10
  <2> QED BY <2>1, <1>7, <1>8
<1>12. ASSUME NEW i \in 1 .. l + 1
       PROVE  BitSum(byte(i)) = w[i]
  <2>1. PICK c \in 0 .. Pow2[B] - 1 : c = w[i]
    BY <1>5
  <2>2. c \in Int /\ Pow2[B] \in Nat
    BY <1>3
  <2>3. Unsigned(c, B) = [j \in 1 .. B |-> Shifted[j - 1][c] % 2]
    BY DEF Unsigned
  <2>4. \A j \in 1 .. B : bits[(i - 1) * B + j] = Unsigned(c, B)[j]
    BY <1>7, <1>8, <1>9, <2>1
  <2>5. byte(i) = Unsigned(c, B)
    BY <2>3, <2>4
  <2> QED BY <2>1, <2>5, SumOfBits
<1> QED BY <1>1, <1>2, <1>4, <1>6, <1>8, <1>9, <1>11, <1>12

----------------------------------------------------------------------------
(* The invariant of the buffers.  Memory holds, at every place noted in       *)
(* intact, the bits of what the script meant to write there.                  *)

Bits == {0, 1} \cup Fills
ViewRecords ==
  [for : {"read", "write"}, block : Blocks, bits : Nat, pos : Nat, over : BOOLEAN]
IntactRecords ==
  [block : Blocks, at : Nat, n : Nat, as : AllFormats \cup {"String"}, v : Seq(Int)]

\* What a script may have written as a format, in so many bits; and these bits.
Meant(as, n, v) ==
  \/ as = "String" /\ v \in Words /\ n = (Len(v) + 1) * ByteBits
  \/ /\ as \in AllFormats /\ n \in WidthsOf(as)
     /\ \E x \in BitNumbers : v = <<x>> /\ FitsFormat(x, as, n)
Code(as, n, v) == IF as = "String" THEN StringBits(v) ELSE WrittenBits(v[1], as, n)

BlocksTyped == block \in [Blocks -> Seq(Bits) \cup {NoMemory}]
ViewsTyped == view \in [Views -> ViewRecords \cup {NoMemory}]
\* A view's block is there, and the view is within it.
ViewsLie ==
  \A o \in Views : view[o] # NoMemory =>
     /\ block[view[o].block] # NoMemory
     /\ view[o].pos <= view[o].bits /\ view[o].bits <= Len(block[view[o].block])
IntactMeant ==
  \A r \in intact : r \in IntactRecords /\ Meant(r.as, r.n, r.v)
IntactLies ==
  \A r \in intact : /\ block[r.block] # NoMemory /\ r.at + r.n <= Len(block[r.block])
                    /\ \A i \in 1 .. r.n : block[r.block][r.at + i] = Code(r.as, r.n, r.v)[i]

\* Notes of what bits say that are laid into b behind `at`.
Noted(records, b, at, bits) ==
  \A r \in records :
     /\ r \in IntactRecords /\ Meant(r.as, r.n, r.v)
     /\ r.block = b /\ at <= r.at /\ r.at + r.n <= at + Len(bits)
     /\ \A i \in 1 .. r.n : bits[r.at - at + i] = Code(r.as, r.n, r.v)[i]

BufInv ==
  BlocksTyped /\ ViewsTyped /\ ViewsLie /\ IntactMeant /\ IntactLies /\ MessagesReadBack

\* What was meant is as many bits as noted.
LEMMA CodeFacts ==
  ASSUME NEW as, NEW n, NEW v, Meant(as, n, v), "negative" \notin BufferHabits
  PROVE  Code(as, n, v) \in Seq({0, 1}) /\ Len(Code(as, n, v)) = n /\ n \in Nat
<1>1. CASE as = "String" /\ v \in Words /\ n = (Len(v) + 1) * ByteBits
  <2>1. Code(as, n, v) = StringBits(v)
    BY <1>1 DEF Code
  <2>2. StringBits(v) \in Seq({0, 1}) /\ Len(StringBits(v)) = n
    BY <1>1, StringReads
  <2> HIDE DEF Code
  <2> QED BY <2>1, <2>2
<1>2. CASE /\ as \in AllFormats /\ n \in WidthsOf(as)
           /\ \E x \in BitNumbers : v = <<x>> /\ FitsFormat(x, as, n)
  <2>1. PICK x \in BitNumbers : v = <<x>> /\ FitsFormat(x, as, n)
    BY <1>2
  <2>2. x \in Int /\ v[1] = x /\ as # "String" /\ n \in Nat
    BY <1>2, <2>1, WidthFacts, BufAssumption
  <2>3. WrittenBits(x, as, n) \in Seq({0, 1}) /\ Len(WrittenBits(x, as, n)) = n
    BY <1>2, <2>1, <2>2, NumberReads
  <2> QED BY <2>2, <2>3 DEF Code
<1> QED BY <1>1, <1>2 DEF Meant

\* A laid run of bits, and what it leaves.
LEMMA LaidFacts ==
  ASSUME NEW S, NEW bits \in Seq(S), NEW over \in Seq(S), NEW at \in Nat,
         at + Len(bits) <= Len(over)
  PROVE  /\ Laid(bits, over, at) \in Seq(S) /\ Len(Laid(bits, over, at)) = Len(over)
         /\ \A i \in 1 .. Len(bits) : Laid(bits, over, at)[at + i] = bits[i]
         /\ \A k \in 1 .. Len(over) :
              k <= at \/ k > at + Len(bits) => Laid(bits, over, at)[k] = over[k]
<1> DEFINE new(i) == IF i \in at + 1 .. at + Len(bits) THEN bits[i - at] ELSE over[i]
<1>1. PICK l, n \in Nat : l = Len(bits) /\ n = Len(over)
  OBVIOUS
<1>2. PICK s : s = Laid(bits, over, at)
  OBVIOUS
<1>3. s = [i \in 1 .. n |-> new(i)]
  BY <1>1, <1>2 DEF Laid
<1>4. ASSUME NEW i \in 1 .. n PROVE new(i) \in S
  <2>1. CASE i \in at + 1 .. at + l
    <3>1. i - at \in 1 .. l
      BY <2>1
    <3>2. bits[i - at] \in S
      BY <3>1, <1>1
    <3> QED BY <2>1, <3>2, <1>1
  <2>2. CASE i \notin at + 1 .. at + l
    <3>1. over[i] \in S
      BY <1>1
    <3> QED BY <2>2, <3>1, <1>1
  <2> QED BY <2>1, <2>2
<1>5. ASSUME NEW i \in 1 .. l PROVE at + i \in 1 .. n /\ new(at + i) = bits[i]
  <2>1. at + i \in 1 .. n /\ at + i \in at + 1 .. at + l /\ at + i - at = i
    BY <1>1
  <2> QED BY <2>1, <1>1
<1>6. ASSUME NEW k \in 1 .. n, k <= at \/ k > at + l PROVE new(k) = over[k]
  <2>1. k \notin at + 1 .. at + l
    BY <1>6
  <2> QED BY <2>1, <1>1
<1> HIDE DEF new
<1>7. s \in Seq(S)
  BY <1>3, <1>4
<1>8. Len(s) = n
  BY <1>3
<1> QED BY <1>1, <1>2, <1>3, <1>5, <1>6, <1>7, <1>8

\* A run of a sequence, and its elements.
LEMMA RunFacts ==
  ASSUME NEW S, NEW s \in Seq(S), NEW from \in Nat, NEW n \in Nat, from + n <= Len(s)
  PROVE  /\ SubSeq(s, from + 1, from + n) \in Seq(S)
         /\ Len(SubSeq(s, from + 1, from + n)) = n
         /\ \A i \in 1 .. n : SubSeq(s, from + 1, from + n)[i] = s[from + i]
<1>1. \A i \in from + 1 .. from + n : i \in 1 .. Len(s)
  OBVIOUS
<1>2. SubSeq(s, from + 1, from + n) \in Seq(S)
  BY <1>1
<1>3. Len(SubSeq(s, from + 1, from + n)) = n
  OBVIOUS
<1>4. \A i \in 1 .. n : SubSeq(s, from + 1, from + n)[i] = s[from + i]
  <2>1. \A i \in 1 .. n : from + 1 + i - 1 = from + i
    OBVIOUS
  <2> QED BY <2>1
<1> QED BY <1>2, <1>3, <1>4

\* Bits laid into a block, with notes of what they say, keep every note true.
LEMMA LaidKeeps ==
  ASSUME BlocksTyped, IntactMeant, IntactLies, "negative" \notin BufferHabits,
         NEW b \in Blocks, block[b] # NoMemory, NEW at \in Nat, NEW bits \in Seq(Bits),
         at + Len(bits) <= Len(block[b]), NEW records, Noted(records, b, at, bits),
         block' = [block EXCEPT ![b] = Laid(bits, @, at)],
         intact' = Unwritten(b, at, Len(bits)) \cup records
  PROVE  /\ BlocksTyped' /\ IntactMeant' /\ IntactLies'
         /\ \A c \in Blocks : block[c] # NoMemory =>
              block'[c] # NoMemory /\ Len(block'[c]) = Len(block[c])
<1>1. PICK over \in Seq(Bits) : over = block[b]
  BY DEF BlocksTyped
<1>2. PICK new \in Seq(Bits) :
        /\ new = Laid(bits, over, at) /\ Len(new) = Len(over)
        /\ \A i \in 1 .. Len(bits) : new[at + i] = bits[i]
        /\ \A k \in 1 .. Len(over) : k <= at \/ k > at + Len(bits) => new[k] = over[k]
  BY <1>1, LaidFacts
<1>3. block' = [block EXCEPT ![b] = new]
  BY <1>1, <1>2
<1>4. new # NoMemory
  BY BufAssumption DEF Bits
<1>5. block'[b] = new /\ \A c \in Blocks : c # b => block'[c] = block[c]
  BY <1>3 DEF BlocksTyped
<1>6. BlocksTyped'
  BY <1>3 DEF BlocksTyped
<1>7. \A c \in Blocks : block[c] # NoMemory =>
        block'[c] # NoMemory /\ Len(block'[c]) = Len(block[c])
  BY <1>1, <1>2, <1>4, <1>5
<1>8. intact' \subseteq intact \cup records
  BY DEF Unwritten
<1>9. IntactMeant'
  BY <1>8 DEF IntactMeant, Noted
<1>10. IntactLies'
  <2> SUFFICES ASSUME NEW r \in intact'
               PROVE  /\ block'[r.block] # NoMemory /\ r.at + r.n <= Len(block'[r.block])
                      /\ \A i \in 1 .. r.n : block'[r.block][r.at + i] = Code(r.as, r.n, r.v)[i]
    BY DEF IntactLies
  <2>1. r \in IntactRecords
    BY <1>9 DEF IntactMeant
  <2>2. r.block \in Blocks
    BY <2>1 DEF IntactRecords
  <2>3. PICK p, n \in Nat : p = r.at /\ n = r.n
    BY <2>1 DEF IntactRecords
  <2>4. PICK l \in Nat : l = Len(bits)
    OBVIOUS
  <2>5. CASE r \in records
    <3>1. r.block = b /\ at <= p /\ p + n <= at + l
      BY <2>3, <2>4, <2>5 DEF Noted
    <3>2. \A i \in 1 .. n : bits[p - at + i] = Code(r.as, r.n, r.v)[i]
      BY <2>3, <2>5 DEF Noted
    <3>3. ASSUME NEW i \in 1 .. n PROVE new[p + i] = Code(r.as, r.n, r.v)[i]
      <4>1. PICK k \in 1 .. l : k = p - at + i /\ at + k = p + i
        <5>1. p - at + i \in 1 .. l /\ at + (p - at + i) = p + i
          BY <3>1
        <5> QED BY <5>1
      <4> QED BY <4>1, <3>2, <2>4, <1>2
    <3>4. p + n <= Len(new)
      BY <3>1, <2>4, <1>1, <1>2
    <3> QED BY <3>1, <3>3, <3>4, <2>3, <1>4, <1>5
  <2>6. CASE r \in intact /\ r.block # b
    <3>1. block'[r.block] = block[r.block]
      BY <2>2, <2>6, <1>5
    <3> QED BY <3>1, <2>6 DEF IntactLies
  <2>7. CASE r \in intact /\ r.block = b /\ (p + n <= at \/ p >= at + l)
    <3>1. p + n <= Len(over) /\ \A i \in 1 .. n : over[p + i] = Code(r.as, r.n, r.v)[i]
      BY <2>3, <2>7, <1>1 DEF IntactLies
    <3>2. ASSUME NEW i \in 1 .. n PROVE new[p + i] = over[p + i]
      <4>1. p + i \in 1 .. Len(over)
        BY <3>1
      <4>2. p + i <= at \/ p + i > at + l
        BY <2>7
      <4> QED BY <4>1, <4>2, <2>4, <1>2
    <3> QED BY <3>1, <3>2, <2>3, <2>7, <1>2, <1>4, <1>5
  <2>8. r \in records \/ (r \in intact /\ (r.block # b \/ p + n <= at \/ p >= at + l))
    BY <2>3, <2>4 DEF Unwritten
  <2> QED BY <2>5, <2>6, <2>7, <2>8
<1> QED BY <1>6, <1>7, <1>9, <1>10

\* A view that changes within its block, or goes, leaves all views within theirs.
LEMMA ViewsKeep ==
  ASSUME ViewsTyped, ViewsLie, NEW o \in Views, NEW w,
         view' = [view EXCEPT ![o] = w],
         w # NoMemory => /\ w \in ViewRecords /\ block'[w.block] # NoMemory
                         /\ w.pos <= w.bits /\ w.bits <= Len(block'[w.block]),
         \A c \in Blocks : block[c] # NoMemory =>
            block'[c] # NoMemory /\ Len(block'[c]) = Len(block[c])
  PROVE  ViewsTyped' /\ ViewsLie'
<1>1. ViewsTyped'
  BY DEF ViewsTyped
<1>2. ASSUME NEW a \in Views, view'[a] # NoMemory
      PROVE  /\ block'[view'[a].block] # NoMemory
             /\ view'[a].pos <= view'[a].bits /\ view'[a].bits <= Len(block'[view'[a].block])
  <2>1. CASE a = o
    <3>1. view'[a] = w
      BY <2>1 DEF ViewsTyped
    <3> QED BY <3>1, <1>2
  <2>2. CASE a # o
    <3>1. view'[a] = view[a]
      BY <2>2 DEF ViewsTyped
    <3>2. view[a] \in ViewRecords
      BY <3>1, <1>2 DEF ViewsTyped
    <3>3. view[a].block \in Blocks
      BY <3>2 DEF ViewRecords
    <3> QED BY <3>1, <3>3, <1>2 DEF ViewsLie
  <2> QED BY <2>1, <2>2
<1> QED BY <1>1, <1>2 DEF ViewsLie

\* What is known of a view that is there.
LEMMA ViewFacts ==
  ASSUME BufInv, NEW o \in Views, view[o] # NoMemory
  PROVE  /\ view[o] \in ViewRecords /\ view[o].block \in Blocks
         /\ view[o].pos \in Nat /\ view[o].bits \in Nat /\ view[o].pos <= view[o].bits
         /\ block[view[o].block] \in Seq(Bits) /\ block[view[o].block] # NoMemory
         /\ Len(block[view[o].block]) \in Nat /\ view[o].bits <= Len(block[view[o].block])
<1>1. view[o] \in ViewRecords
  BY DEF BufInv, ViewsTyped
<1>2. view[o].block \in Blocks /\ view[o].pos \in Nat /\ view[o].bits \in Nat
  BY <1>1 DEF ViewRecords
<1>3. /\ block[view[o].block] # NoMemory
      /\ view[o].pos <= view[o].bits /\ view[o].bits <= Len(block[view[o].block])
  BY DEF BufInv, ViewsLie
<1>4. block[view[o].block] \in Seq(Bits)
  BY <1>2, <1>3 DEF BufInv, BlocksTyped
<1>5. Len(block[view[o].block]) \in Nat
  BY <1>4
<1> QED BY <1>1, <1>2, <1>3, <1>4, <1>5

\* A view at another place in itself.
LEMMA PlacedView ==
  ASSUME BufInv, NEW o \in Views, view[o] # NoMemory,
         NEW pos \in 0 .. view[o].bits, NEW over \in BOOLEAN
  PROVE  \E w \in ViewRecords :
           /\ [view EXCEPT ![o].pos = pos, ![o].over = over] = [view EXCEPT ![o] = w]
           /\ w.block = view[o].block /\ w.bits = view[o].bits /\ w.pos = pos
<1>1. PICK w : w = [view[o] EXCEPT !.pos = pos, !.over = over]
  OBVIOUS
<1>2. view[o] \in ViewRecords /\ pos \in Nat
  BY ViewFacts
<1>3. w \in ViewRecords /\ w.block = view[o].block /\ w.bits = view[o].bits /\ w.pos = pos
  BY <1>1, <1>2 DEF ViewRecords
<1>4. [view EXCEPT ![o].pos = pos, ![o].over = over] = [view EXCEPT ![o] = w]
  BY <1>1 DEF BufInv, ViewsTyped
<1> QED BY <1>3, <1>4

\* A view moves on where there is room, and to its end where there is not.
LEMMA MovedView ==
  ASSUME BufInv, NEW o \in Views, view[o] # NoMemory, NEW n \in Nat
  PROVE  \E w \in ViewRecords :
           /\ Moved(o, n) = [view EXCEPT ![o] = w]
           /\ w.block = view[o].block /\ w.bits = view[o].bits /\ w.pos <= w.bits
<1>1. view[o] \in ViewRecords /\ view[o].pos \in Nat /\ view[o].bits \in Nat
  BY ViewFacts
<1>2. CASE Fits(o, n)
  <2>1. PICK pos \in Nat : pos = view[o].pos + n /\ pos <= view[o].bits
    <3>1. view[o].pos + n \in Nat /\ view[o].pos + n <= view[o].bits
      BY <1>1, <1>2 DEF Fits, RoomLeft
    <3> QED BY <3>1
  <2>2. PICK w : w = [view[o] EXCEPT !.pos = pos]
    OBVIOUS
  <2>3. w \in ViewRecords /\ w.block = view[o].block /\ w.bits = view[o].bits /\ w.pos = pos
    BY <2>2, <1>1 DEF ViewRecords
  <2>4. Moved(o, n) = [view EXCEPT ![o] = w]
    BY <1>2, <2>1, <2>2 DEF Moved, BufInv, ViewsTyped
  <2> QED BY <2>1, <2>3, <2>4
<1>3. CASE ~ Fits(o, n)
  <2>1. view[o].bits \in 0 .. view[o].bits /\ TRUE \in BOOLEAN
    BY <1>1
  <2>2. PICK w \in ViewRecords :
          /\ [view EXCEPT ![o].pos = view[o].bits, ![o].over = TRUE] = [view EXCEPT ![o] = w]
          /\ w.block = view[o].block /\ w.bits = view[o].bits /\ w.pos = view[o].bits
    BY <2>1, PlacedView
  <2>3. w.pos <= w.bits
    BY <2>2, <1>1
  <2> QED BY <2>2, <2>3, <1>3 DEF Moved
<1> QED BY <1>2, <1>3

\* A step that leaves memory alone, and moves a view within its block.
LEMMA ViewStepKeeps ==
  ASSUME BufInv, NEW o \in Views, NEW w, view' = [view EXCEPT ![o] = w],
         w # NoMemory => /\ w \in ViewRecords /\ block[w.block] # NoMemory
                         /\ w.pos <= w.bits /\ w.bits <= Len(block[w.block]),
         UNCHANGED <<block, intact>>, misreadBits' = {}
  PROVE  BufInv'
<1>1. ViewsTyped' /\ ViewsLie'
  <2>1. /\ ViewsTyped /\ ViewsLie
        /\ \A c \in Blocks : block[c] # NoMemory =>
             block'[c] # NoMemory /\ Len(block'[c]) = Len(block[c])
    BY DEF BufInv
  <2>2. w # NoMemory => /\ w \in ViewRecords /\ block'[w.block] # NoMemory
                        /\ w.pos <= w.bits /\ w.bits <= Len(block'[w.block])
    OBVIOUS
  <2> QED BY <2>1, <2>2, ViewsKeep
<1>2. BlocksTyped' /\ IntactMeant' /\ IntactLies'
  BY DEF BufInv, BlocksTyped, IntactMeant, IntactLies
<1> QED BY <1>1, <1>2 DEF BufInv, MessagesReadBack

\* A write through a view, with what it noted, keeps the invariant.
LEMMA PutKeeps ==
  ASSUME BufInv, "negative" \notin BufferHabits, NEW o \in Views, view[o] # NoMemory,
         NEW bits \in Seq(Bits), NEW records,
         Fits(o, Len(bits)) => Noted(records, view[o].block, view[o].pos, bits),
         Put(o, bits, records)
  PROVE  BufInv'
<1>1. PICK w \in ViewRecords :
        /\ Moved(o, Len(bits)) = [view EXCEPT ![o] = w]
        /\ w.block = view[o].block /\ w.bits = view[o].bits /\ w.pos <= w.bits
  <2>1. Len(bits) \in Nat
    OBVIOUS
  <2> QED BY <2>1, MovedView
<1>2. view' = [view EXCEPT ![o] = w] /\ misreadBits' = {}
  BY <1>1 DEF Put, BufInv, MessagesReadBack
<1>3. CASE Fits(o, Len(bits))
  <2>1. PICK b \in Blocks : b = view[o].block /\ block[b] # NoMemory
    BY ViewFacts
  <2>2. PICK at \in Nat : at = view[o].pos
    BY ViewFacts
  <2>3. at + Len(bits) <= Len(block[b])
    <3>1. Len(bits) <= view[o].bits - at
      BY <1>3, <2>2 DEF Fits, RoomLeft
    <3>2. view[o].bits \in Nat /\ Len(block[b]) \in Nat /\ view[o].bits <= Len(block[b])
      BY <2>1, ViewFacts
    <3> QED BY <3>1, <3>2
  <2>4. /\ block' = [block EXCEPT ![b] = Laid(bits, @, at)]
        /\ intact' = Unwritten(b, at, Len(bits)) \cup records
    BY <1>3, <2>1, <2>2 DEF Put
  <2>5. Noted(records, b, at, bits)
    BY <1>3, <2>1, <2>2
  <2>6. /\ BlocksTyped' /\ IntactMeant' /\ IntactLies'
        /\ \A c \in Blocks : block[c] # NoMemory =>
             block'[c] # NoMemory /\ Len(block'[c]) = Len(block[c])
    <3>1. BlocksTyped /\ IntactMeant /\ IntactLies
      BY DEF BufInv
    <3> QED BY <2>1, <2>3, <2>4, <2>5, <3>1, LaidKeeps
  <2>7. ViewsTyped' /\ ViewsLie'
    <3>1. ViewsTyped /\ ViewsLie
      BY DEF BufInv
    <3>2. block'[w.block] # NoMemory /\ w.bits <= Len(block'[w.block])
      BY <1>1, <2>1, <2>6, ViewFacts
    <3> QED BY <1>1, <1>2, <2>6, <3>1, <3>2, ViewsKeep
  <2> QED BY <1>2, <2>6, <2>7 DEF BufInv, MessagesReadBack
<1>4. CASE ~ Fits(o, Len(bits))
  <2>1. UNCHANGED <<block, intact>>
    BY <1>4 DEF Put
  <2>2. block[w.block] # NoMemory /\ w.bits <= Len(block[w.block])
    BY <1>1, ViewFacts
  <2> QED BY <1>1, <1>2, <2>1, <2>2, ViewStepKeeps
<1> QED BY <1>3, <1>4

\* A block that is new, with notes of what is in it.
LEMMA FreshBlock ==
  ASSUME BufInv, NEW b \in Blocks, block[b] = NoMemory, NEW new \in Seq(Bits),
         NEW records, Noted(records, b, 0, new),
         block' = [block EXCEPT ![b] = new], intact' = intact \cup records
  PROVE  /\ BlocksTyped' /\ IntactMeant' /\ IntactLies'
         /\ \A c \in Blocks : block[c] # NoMemory =>
              block'[c] # NoMemory /\ Len(block'[c]) = Len(block[c])
<1>1. new # NoMemory /\ Len(new) \in Nat
  BY BufAssumption DEF Bits
<1>2. BlocksTyped'
  BY DEF BufInv, BlocksTyped
<1>3. block'[b] = new /\ \A c \in Blocks : block[c] # NoMemory => block'[c] = block[c]
  BY DEF BufInv, BlocksTyped
<1>4. IntactMeant'
  BY DEF BufInv, IntactMeant, Noted
<1>5. IntactLies'
  <2>1. ASSUME NEW r \in intact PROVE block'[r.block] = block[r.block]
    <3>1. r.block \in Blocks /\ block[r.block] # NoMemory
      BY DEF BufInv, IntactMeant, IntactRecords, IntactLies
    <3> QED BY <3>1, <1>3
  <2>2. ASSUME NEW r \in records
        PROVE  /\ r.block = b /\ r.at + r.n <= Len(new)
               /\ \A i \in 1 .. r.n : new[r.at + i] = Code(r.as, r.n, r.v)[i]
    <3>1. /\ r \in IntactRecords /\ r.block = b /\ r.at + r.n <= 0 + Len(new)
          /\ \A i \in 1 .. r.n : new[r.at - 0 + i] = Code(r.as, r.n, r.v)[i]
      BY DEF Noted
    <3>2. r.at \in Nat /\ r.n \in Nat
      BY <3>1 DEF IntactRecords
    <3>3. \A i \in 1 .. r.n : r.at - 0 + i = r.at + i
      BY <3>2
    <3> QED BY <3>1, <3>3, <1>1
  <2> QED BY <1>1, <1>3, <2>1, <2>2 DEF BufInv, IntactLies
<1> QED BY <1>2, <1>3, <1>4, <1>5

\* The functions of a script, one by one.
LEMMA NewBlockKeeps ==
  ASSUME BufInv, NEW b \in Blocks, NEW bytes \in Sizes, NEW fill \in Fills, NewBlock(b, bytes, fill)
  PROVE  BufInv'
<1>1. bytes * ByteBits \in Nat
  BY BufAssumption
<1>2. PICK new : new = [i \in 1 .. bytes * ByteBits |-> fill]
  OBVIOUS
<1>3. new \in Seq(Bits)
  BY <1>1, <1>2 DEF Bits
<1>4. /\ block[b] = NoMemory /\ block' = [block EXCEPT ![b] = new]
      /\ UNCHANGED <<view, intact, misreadBits>>
  BY <1>2 DEF NewBlock
<1>5. /\ BlocksTyped' /\ IntactMeant' /\ IntactLies'
      /\ \A c \in Blocks : block[c] # NoMemory =>
           block'[c] # NoMemory /\ Len(block'[c]) = Len(block[c])
  <2>1. Noted({}, b, 0, new) /\ intact' = intact \cup {}
    BY <1>4 DEF Noted
  <2> QED BY <1>3, <1>4, <2>1, FreshBlock
<1>6. ViewsTyped' /\ ViewsLie'
  <2>1. ViewsTyped'
    BY <1>4 DEF BufInv, ViewsTyped
  <2>2. ASSUME NEW a \in Views, view[a] # NoMemory
        PROVE  /\ block'[view[a].block] # NoMemory
               /\ Len(block'[view[a].block]) = Len(block[view[a].block])
    BY <1>5, <2>2, ViewFacts
  <2> QED BY <1>4, <2>1, <2>2 DEF BufInv, ViewsLie
<1> QED BY <1>4, <1>5, <1>6 DEF BufInv, MessagesReadBack

LEMMA DeleteBlockKeeps ==
  ASSUME BufInv, NEW b \in Blocks, DeleteBlock(b)
  PROVE  BufInv'
<1>1. /\ \A o \in Views : view[o] # NoMemory => view[o].block # b
      /\ block' = [block EXCEPT ![b] = NoMemory]
      /\ intact' = {r \in intact : r.block # b} /\ UNCHANGED <<view, misreadBits>>
  BY DEF DeleteBlock
<1>2. BlocksTyped'
  BY <1>1 DEF BufInv, BlocksTyped
<1>3. \A c \in Blocks : c # b => block'[c] = block[c]
  BY <1>1 DEF BufInv, BlocksTyped
<1>4. ViewsTyped' /\ ViewsLie'
  <2>1. ViewsTyped'
    BY <1>1 DEF BufInv, ViewsTyped
  <2>2. ASSUME NEW a \in Views, view[a] # NoMemory
        PROVE  block'[view[a].block] = block[view[a].block]
    BY <1>1, <1>3, <2>2, ViewFacts
  <2> QED BY <1>1, <2>1, <2>2 DEF BufInv, ViewsLie
<1>5. IntactMeant'
  BY <1>1 DEF BufInv, IntactMeant
<1>6. IntactLies'
  <2>1. ASSUME NEW r \in intact, r.block # b PROVE block'[r.block] = block[r.block]
    <3>1. r.block \in Blocks
      BY DEF BufInv, IntactMeant, IntactRecords
    <3> QED BY <3>1, <2>1, <1>3
  <2> QED BY <1>1, <2>1 DEF BufInv, IntactLies
<1> QED BY <1>1, <1>2, <1>4, <1>5, <1>6 DEF BufInv, MessagesReadBack

LEMMA NewViewKeeps ==
  ASSUME BufInv, NEW o \in Views, NEW use \in {"write", "read"}, NEW b \in Blocks,
         NEW bytes \in Sizes, NewView(o, use, b, bytes * ByteBits)
  PROVE  BufInv'
<1>1. PICK bits \in Nat : bits = bytes * ByteBits
  <2>1. bytes * ByteBits \in Nat
    BY BufAssumption
  <2> QED BY <2>1
<1>2. PICK w : w = [for |-> use, block |-> b, bits |-> bits, pos |-> 0, over |-> FALSE]
  OBVIOUS
<1>3. /\ block[b] # NoMemory /\ bits <= Len(block[b])
      /\ view' = [view EXCEPT ![o] = w] /\ UNCHANGED <<block, intact, misreadBits>>
  BY <1>1, <1>2 DEF NewView
<1>4. w \in ViewRecords /\ w.block = b /\ w.bits = bits /\ w.pos <= w.bits
  BY <1>1, <1>2 DEF ViewRecords
<1> QED BY <1>3, <1>4, ViewStepKeeps DEF BufInv, MessagesReadBack

LEMMA FinishKeeps == ASSUME BufInv, NEW o \in Views, Finish(o) PROVE BufInv'
<1>1. view' = [view EXCEPT ![o] = NoMemory] /\ UNCHANGED <<block, intact, misreadBits>>
  BY DEF Finish
<1> QED BY <1>1, ViewStepKeeps DEF BufInv, MessagesReadBack

LEMMA SeekViewKeeps ==
  ASSUME BufInv, NEW o \in Views, NEW bit, SeekView(o, bit)
  PROVE  BufInv'
<1>1. view[o] # NoMemory /\ UNCHANGED <<block, intact, misreadBits>>
  BY DEF SeekView
<1>2. view[o] \in ViewRecords /\ view[o].bits \in Nat /\ view[o].block \in Blocks
  BY <1>1, ViewFacts
<1>3. PICK w \in ViewRecords : /\ view' = [view EXCEPT ![o] = w]
        /\ w.block = view[o].block /\ w.bits = view[o].bits /\ w.pos <= w.bits
  <2>1. CASE bit \in 0 .. view[o].bits
    <3>1. PICK w : w = [view[o] EXCEPT !.pos = bit]
      OBVIOUS
    <3>2. w \in ViewRecords /\ w.block = view[o].block /\ w.bits = view[o].bits /\ w.pos = bit
      BY <3>1, <1>2, <2>1 DEF ViewRecords
    <3>3. view' = [view EXCEPT ![o].pos = bit]
      BY <2>1 DEF SeekView
    <3>4. view' = [view EXCEPT ![o] = w]
      BY <3>1, <3>3 DEF BufInv, ViewsTyped
    <3>5. w.block = view[o].block /\ w.bits = view[o].bits /\ w.pos <= w.bits
      BY <2>1, <1>2, <3>2
    <3> QED BY <3>2, <3>4, <3>5
  <2>2. CASE bit \notin 0 .. view[o].bits
    <3>1. view[o].bits \in 0 .. view[o].bits /\ TRUE \in BOOLEAN
      BY <1>2
    <3>2. view' = [view EXCEPT ![o].pos = view[o].bits, ![o].over = TRUE]
      BY <2>2 DEF SeekView
    <3>3. PICK w \in ViewRecords :
          /\ [view EXCEPT ![o].pos = view[o].bits, ![o].over = TRUE] = [view EXCEPT ![o] = w]
          /\ w.block = view[o].block /\ w.bits = view[o].bits /\ w.pos = view[o].bits
      BY <1>1, <3>1, PlacedView
    <3>4. w.pos <= w.bits
      BY <1>2, <3>3
    <3> QED BY <3>2, <3>3, <3>4
  <2> QED BY <2>1, <2>2
<1>4. block[w.block] # NoMemory /\ w.bits <= Len(block[w.block])
  BY <1>1, <1>3, ViewFacts
<1> QED BY <1>1, <1>3, <1>4, ViewStepKeeps DEF BufInv, MessagesReadBack

LEMMA WriteNumberKeeps ==
  ASSUME BufInv, "negative" \notin BufferHabits, NEW o \in Views, NEW as \in AllFormats,
         NEW v \in BitNumbers, NEW n \in WidthsOf(as), WriteNumber(o, as, n, v)
  PROVE  BufInv'
<1>1. view[o] # NoMemory /\ FitsFormat(v, as, n) /\ v \in Int
  BY BufAssumption DEF WriteNumber, Writer
<1>2. PICK bits \in Seq({0, 1}) : bits = WrittenBits(v, as, n) /\ Len(bits) = n
  BY <1>1, NumberReads
<1>3. PICK r : r = [block |-> view[o].block, at |-> view[o].pos, n |-> n, as |-> as, v |-> <<v>>]
  OBVIOUS
<1>4. Put(o, bits, {r})
  BY <1>2, <1>3 DEF WriteNumber
<1>5. view[o].block \in Blocks /\ view[o].pos \in Nat /\ n \in Nat /\ as # "String"
  BY <1>1, ViewFacts, WidthFacts
<1>6. r \in IntactRecords
  <2>1. <<v>> \in Seq(Int)
    BY <1>1
  <2> QED BY <2>1, <1>3, <1>5 DEF IntactRecords
<1>7. Meant(as, n, <<v>>)
  BY <1>1 DEF Meant
<1>8. Code(as, n, <<v>>) = bits
  BY <1>2, <1>5 DEF Code
<1>9. /\ r.block = view[o].block /\ r.at = view[o].pos /\ r.n = n
      /\ r.as = as /\ r.v = <<v>>
  BY <1>3
<1>10. \A i \in 1 .. n : bits[view[o].pos - view[o].pos + i] = bits[i]
  <2>1. \A i \in 1 .. n : view[o].pos - view[o].pos + i = i
    BY <1>5
  <2> QED BY <2>1
<1>11. view[o].pos <= r.at /\ r.at + r.n <= view[o].pos + Len(bits)
  BY <1>2, <1>5, <1>9
<1>12. bits \in Seq(Bits)
  BY DEF Bits
<1>13. Noted({r}, view[o].block, view[o].pos, bits)
  BY <1>6, <1>7, <1>8, <1>9, <1>10, <1>11 DEF Noted
<1> QED BY <1>1, <1>4, <1>12, <1>13, PutKeeps

LEMMA WriteStringKeeps ==
  ASSUME BufInv, "negative" \notin BufferHabits, NEW o \in Views, NEW word \in Words,
         WriteString(o, word)
  PROVE  BufInv'
<1>1. view[o] # NoMemory
  BY DEF WriteString, Writer
<1>2. PICK bits \in Seq({0, 1}) : bits = StringBits(word) /\ Len(bits) = (Len(word) + 1) * ByteBits
  BY StringReads
<1>3. PICK b \in Blocks, at \in Nat, end \in Nat :
        /\ b = view[o].block /\ at = view[o].pos /\ end = view[o].bits
        /\ at <= end /\ block[b] # NoMemory /\ end <= Len(block[b])
  BY <1>1, ViewFacts
<1>4. PICK room \in Nat : room = (RoomLeft(o) \div ByteBits) * ByteBits /\ room <= RoomLeft(o)
  <2>1. PICK B \in Nat \ {0} : B = ByteBits
    BY BufAssumption
  <2>2. PICK spare \in Nat : spare = RoomLeft(o)
    BY <1>3 DEF RoomLeft
  <2>3. PICK q \in Nat, m \in 0 .. B - 1 : spare = B * q + m /\ q = spare \div B
    BY <2>1
  <2>4. q * B \in Nat /\ q * B <= spare
    BY <2>3
  <2> QED BY <2>1, <2>2, <2>3, <2>4
<1>5. bits \in Seq(Bits) /\ Len(bits) \in Nat /\ word \in Seq(Int) /\ Len(word) \in Nat
  <2>1. bits \in Seq(Bits)
    BY DEF Bits
  <2>2. PICK top \in Nat : top = Pow2[ByteBits]
    BY PowFacts, BufAssumption
  <2>3. word \in Seq(1 .. top - 1)
    BY <2>2, BufAssumption
  <2>4. word \in Seq(Int)
    BY <2>3
  <2> QED BY <2>1, <2>4
<1>6. CASE Len(bits) <= room
  <2>1. PICK r : r = [block |-> view[o].block, at |-> view[o].pos, n |-> Len(bits),
                      as |-> "String", v |-> word]
    OBVIOUS
  <2>2. Put(o, bits, {r})
    BY <1>2, <1>4, <1>6, <2>1 DEF WriteString
  <2>3. r \in IntactRecords
    BY <1>3, <1>5, <2>1 DEF IntactRecords
  <2>4. Meant("String", Len(bits), word) /\ Code("String", Len(bits), word) = bits
    BY <1>2 DEF Meant, Code
  <2>5. /\ r.block = b /\ r.at = at /\ r.n = Len(bits) /\ r.as = "String" /\ r.v = word
    BY <1>3, <2>1
  <2>6. \A i \in 1 .. Len(bits) : bits[at - at + i] = bits[i]
    <3>1. \A i \in 1 .. Len(bits) : at - at + i = i
      BY <1>3
    <3> QED BY <3>1
  <2>7. Noted({r}, b, at, bits)
    BY <1>5, <2>3, <2>4, <2>5, <2>6 DEF Noted
  <2> QED BY <1>1, <1>3, <1>5, <2>2, <2>7, PutKeeps
<1>7. CASE ~ (Len(bits) <= room)
  <2>1. /\ view' = [view EXCEPT ![o].pos = view[o].bits, ![o].over = TRUE]
        /\ block' = [block EXCEPT ![b] = Laid(SubSeq(bits, 1, room), @, at)]
        /\ intact' = Unwritten(b, at, room) /\ misreadBits' = misreadBits
    BY <1>2, <1>3, <1>4, <1>7 DEF WriteString
  <2>2. PICK part \in Seq(Bits) : part = SubSeq(bits, 1, room) /\ Len(part) = room
    <3>1. SubSeq(bits, 1, room) \in Seq(Bits)
      <4>1. \A i \in 1 .. room : i \in 1 .. Len(bits)
        BY <1>5, <1>7
      <4> QED BY <1>5, <4>1
    <3>2. Len(SubSeq(bits, 1, room)) = room
      BY <1>5, <1>7
    <3> QED BY <3>1, <3>2
  <2>3. at + Len(part) <= Len(block[b])
    <3>1. room <= end - at
      BY <1>3, <1>4 DEF RoomLeft
    <3>2. Len(block[b]) \in Nat
      BY <1>1, <1>3, ViewFacts
    <3> QED BY <3>1, <3>2, <1>3, <2>2
  <2>4. /\ BlocksTyped' /\ IntactMeant' /\ IntactLies'
        /\ \A c \in Blocks : block[c] # NoMemory =>
             block'[c] # NoMemory /\ Len(block'[c]) = Len(block[c])
    <3>1. BlocksTyped /\ IntactMeant /\ IntactLies
      BY DEF BufInv
    <3>2. Noted({}, b, at, part) /\ intact' = Unwritten(b, at, Len(part)) \cup {}
      BY <2>1, <2>2 DEF Noted
    <3>3. block' = [block EXCEPT ![b] = Laid(part, @, at)]
      BY <2>1, <2>2
    <3> QED BY <1>3, <2>2, <2>3, <3>1, <3>2, <3>3, LaidKeeps
  <2>5. view[o].bits \in 0 .. view[o].bits /\ TRUE \in BOOLEAN
    BY <1>3
  <2>6. PICK w \in ViewRecords :
          /\ [view EXCEPT ![o].pos = view[o].bits, ![o].over = TRUE] = [view EXCEPT ![o] = w]
          /\ w.block = view[o].block /\ w.bits = view[o].bits /\ w.pos = view[o].bits
    BY <1>1, <2>5, PlacedView
  <2>7. ViewsTyped' /\ ViewsLie'
    <3>1. ViewsTyped /\ ViewsLie
      BY DEF BufInv
    <3>2. view' = [view EXCEPT ![o] = w]
      BY <2>1, <2>6
    <3>3. block'[w.block] # NoMemory /\ w.pos <= w.bits /\ w.bits <= Len(block'[w.block])
      BY <1>3, <2>4, <2>6
    <3> QED BY <2>4, <3>1, <3>2, <3>3, ViewsKeep
  <2> QED BY <2>1, <2>4, <2>7 DEF BufInv, MessagesReadBack
<1> QED BY <1>6, <1>7

\* What is carried with a copy of bits is what the copy says.
LEMMA CarriedNoted ==
  ASSUME BufInv, NEW b \in Blocks, NEW c \in Blocks, block[b] # NoMemory,
         NEW from \in Nat, NEW n \in Nat, NEW at \in Nat, from + n <= Len(block[b])
  PROVE  /\ SubSeq(block[b], from + 1, from + n) \in Seq(Bits)
         /\ Len(SubSeq(block[b], from + 1, from + n)) = n
         /\ Noted(Carried(b, from, n, c, at), c, at, SubSeq(block[b], from + 1, from + n))
<1>1. PICK over \in Seq(Bits) : over = block[b]
  BY DEF BufInv, BlocksTyped
<1>2. PICK bits \in Seq(Bits) :
        /\ bits = SubSeq(over, from + 1, from + n) /\ Len(bits) = n
        /\ \A i \in 1 .. n : bits[i] = over[from + i]
  <2>1. from + n <= Len(over)
    BY <1>1
  <2>2. PICK run : run = SubSeq(over, from + 1, from + n)
    OBVIOUS
  <2>3. run \in Seq(Bits) /\ Len(run) = n /\ \A i \in 1 .. n : run[i] = over[from + i]
    BY <2>1, <2>2, RunFacts
  <2> QED BY <2>2, <2>3
<1>3. ASSUME NEW r \in Carried(b, from, n, c, at)
      PROVE  /\ r \in IntactRecords /\ Meant(r.as, r.n, r.v)
             /\ r.block = c /\ at <= r.at /\ r.at + r.n <= at + Len(bits)
             /\ \A i \in 1 .. r.n : bits[r.at - at + i] = Code(r.as, r.n, r.v)[i]
  <2>1. PICK e \in intact : /\ r = [e EXCEPT !.block = c, !.at = at + e.at - from]
                            /\ e.block = b /\ e.at >= from /\ e.at + e.n <= from + n
    BY DEF Carried
  <2>2. /\ e \in IntactRecords /\ Meant(e.as, e.n, e.v)
        /\ \A i \in 1 .. e.n : over[e.at + i] = Code(e.as, e.n, e.v)[i]
    BY <1>1, <2>1 DEF BufInv, IntactMeant, IntactLies
  <2>3. PICK p, l \in Nat : p = e.at /\ l = e.n
    BY <2>2 DEF IntactRecords
  <2>4. PICK q \in Nat : q = at + e.at - from /\ q - at = p - from
    BY <2>1, <2>3
  <2>5. r \in IntactRecords
    BY <2>1, <2>2, <2>4 DEF IntactRecords
  <2>6. r.block = c /\ r.at = q /\ r.n = l /\ r.as = e.as /\ r.v = e.v
    BY <2>1, <2>2, <2>3, <2>4 DEF IntactRecords
  <2>7. at <= q /\ q + l <= at + n
    BY <2>1, <2>3, <2>4
  <2>8. ASSUME NEW i \in 1 .. l PROVE bits[q - at + i] = over[p + i]
    <3>1. PICK k \in 1 .. n : k = q - at + i /\ from + k = p + i
      <4>1. p >= from /\ p + l <= from + n /\ q = at + p - from
        BY <2>1, <2>3, <2>4
      <4>2. q - at + i \in 1 .. n /\ from + (q - at + i) = p + i
        BY <4>1
      <4> QED BY <4>2
    <3> QED BY <3>1, <1>2
  <2> QED BY <1>2, <2>2, <2>3, <2>5, <2>6, <2>7, <2>8
<1>4. Noted(Carried(b, from, n, c, at), c, at, bits)
  BY <1>3 DEF Noted
<1> QED BY <1>1, <1>2, <1>4

LEMMA WriteBlockKeeps ==
  ASSUME BufInv, "negative" \notin BufferHabits, NEW o \in Views, NEW b \in Blocks,
         NEW n \in Counts, WriteBlock(o, b, n)
  PROVE  BufInv'
<1>1. /\ view[o] # NoMemory /\ block[b] # NoMemory /\ n <= Len(block[b]) /\ n \in Nat
      /\ Put(o, SubSeq(block[b], 1, n), Carried(b, 0, n, view[o].block, view[o].pos))
  BY BufAssumption DEF WriteBlock, Writer
<1>2. view[o].block \in Blocks /\ view[o].pos \in Nat
  BY <1>1, ViewFacts
<1>3. 0 \in Nat /\ 0 + n <= Len(block[b]) /\ 0 + 1 = 1 /\ 0 + n = n
  BY <1>1
<1>4. PICK bits \in Seq(Bits) : /\ bits = SubSeq(block[b], 0 + 1, 0 + n)
        /\ Noted(Carried(b, 0, n, view[o].block, view[o].pos), view[o].block, view[o].pos, bits)
  BY <1>1, <1>2, <1>3, CarriedNoted
<1>5. Put(o, bits, Carried(b, 0, n, view[o].block, view[o].pos))
  BY <1>1, <1>3, <1>4
<1> QED BY <1>1, <1>4, <1>5, PutKeeps

\* What is noted of a place is in memory there.
LEMMA LiesHere ==
  ASSUME BufInv, "negative" \notin BufferHabits, NEW r \in intact
  PROVE  /\ r.block \in Blocks /\ r.at \in Nat /\ r.n \in Nat /\ r.v \in Seq(Int)
         /\ Meant(r.as, r.n, r.v)
         /\ Code(r.as, r.n, r.v) \in Seq({0, 1}) /\ Len(Code(r.as, r.n, r.v)) = r.n
         /\ block[r.block] \in Seq(Bits) /\ r.at + r.n <= Len(block[r.block])
         /\ \A i \in 1 .. r.n : block[r.block][r.at + i] = Code(r.as, r.n, r.v)[i]
<1>1. r \in IntactRecords /\ Meant(r.as, r.n, r.v)
  BY DEF BufInv, IntactMeant
<1>2. r.block \in Blocks /\ r.at \in Nat /\ r.n \in Nat /\ r.v \in Seq(Int)
  BY <1>1 DEF IntactRecords
<1>3. /\ block[r.block] # NoMemory /\ r.at + r.n <= Len(block[r.block])
      /\ \A i \in 1 .. r.n : block[r.block][r.at + i] = Code(r.as, r.n, r.v)[i]
  BY DEF BufInv, IntactLies
<1>4. block[r.block] \in Seq(Bits)
  BY <1>2, <1>3 DEF BufInv, BlocksTyped
<1>5. Code(r.as, r.n, r.v) \in Seq({0, 1}) /\ Len(Code(r.as, r.n, r.v)) = r.n
  BY <1>1, CodeFacts
<1> QED BY <1>1, <1>2, <1>3, <1>4, <1>5

\* A number that is read where one was written is that number.
LEMMA NumberMatches ==
  ASSUME BufInv, "negative" \notin BufferHabits, NEW o \in Views, view[o] # NoMemory,
         NEW as \in AllFormats, NEW n \in WidthsOf(as), NEW r \in intact,
         r.block = view[o].block, r.at = view[o].pos, r.as = as, r.n = n
  PROVE  r.v = <<NumberOf(BitsHere(o, n), as)>>
<1>1. n \in Nat /\ as # "String"
  BY WidthFacts
<1>2. PICK x \in BitNumbers : r.v = <<x>> /\ FitsFormat(x, as, n)
  BY <1>1, LiesHere DEF Meant
<1>3. x \in Int
  BY BufAssumption
<1>4. PICK bits \in Seq({0, 1}) : /\ bits = WrittenBits(x, as, n) /\ Len(bits) = n
                                  /\ NumberOf(bits, as) = x
  <2>1. /\ WrittenBits(x, as, n) \in Seq({0, 1}) /\ Len(WrittenBits(x, as, n)) = n
        /\ NumberOf(WrittenBits(x, as, n), as) = x
    BY <1>2, <1>3, NumberReads
  <2> QED BY <2>1
<1>5. Code(r.as, r.n, r.v) = bits
  BY <1>1, <1>2, <1>3, <1>4 DEF Code
<1>6. PICK over \in Seq(Bits), at \in Nat :
        /\ over = block[view[o].block] /\ at = view[o].pos /\ at + n <= Len(over)
        /\ \A i \in 1 .. n : over[at + i] = bits[i]
  <2>1. block[view[o].block] \in Seq(Bits) /\ view[o].pos \in Nat
    BY ViewFacts
  <2>2. r.at + r.n <= Len(block[r.block])
    BY LiesHere
  <2>3. \A i \in 1 .. r.n : block[r.block][r.at + i] = Code(r.as, r.n, r.v)[i]
    BY LiesHere
  <2> QED BY <1>5, <2>1, <2>2, <2>3
<1>7. BitsHere(o, n) = bits
  <2>1. PICK here : here = SubSeq(over, at + 1, at + n)
    OBVIOUS
  <2>2. here \in Seq(Bits) /\ Len(here) = n /\ \A i \in 1 .. n : here[i] = over[at + i]
    <3>1. at + n <= Len(over)
      BY <1>6
    <3>2. /\ SubSeq(over, at + 1, at + n) \in Seq(Bits)
          /\ Len(SubSeq(over, at + 1, at + n)) = n
          /\ \A i \in 1 .. n : SubSeq(over, at + 1, at + n)[i] = over[at + i]
      BY <1>1, <3>1, RunFacts
    <3> QED BY <2>1, <3>2
  <2>3. bits \in Seq(Bits) /\ \A i \in 1 .. Len(here) : here[i] = bits[i]
    <3>1. bits \in Seq(Bits)
      BY DEF Bits
    <3>2. \A i \in 1 .. n : here[i] = bits[i]
      BY <1>6, <2>2
    <3> QED BY <2>2, <3>1, <3>2
  <2>4. here = bits
    BY <1>4, <2>2, <2>3, SeqEqual
  <2> QED BY <1>6, <2>1, <2>4 DEF BitsHere
<1> QED BY <1>2, <1>4, <1>7

\* Reads.
LEMMA ReadNumberKeeps ==
  ASSUME BufInv, "negative" \notin BufferHabits, NEW o \in Views, NEW as \in AllFormats,
         NEW n \in WidthsOf(as), ReadNumber(o, as, n)
  PROVE  BufInv'
<1>1. view[o] # NoMemory /\ view' = Moved(o, n) /\ UNCHANGED <<block, intact>>
  BY DEF ReadNumber, Reader
<1>2. misreadBits' = {}
  <2>1. misreadBits = {}
    BY DEF BufInv, MessagesReadBack
  <2>2. ASSUME NEW r \in intact, r.block = view[o].block, r.at = view[o].pos, r.as = as, r.n = n
        PROVE  r.v = <<NumberOf(BitsHere(o, n), as)>>
    BY <1>1, <2>2, NumberMatches
  <2> QED BY <2>1, <2>2 DEF ReadNumber, ReadBackAs
<1>3. PICK w \in ViewRecords :
        /\ Moved(o, n) = [view EXCEPT ![o] = w]
        /\ w.block = view[o].block /\ w.bits = view[o].bits /\ w.pos <= w.bits
  BY <1>1, WidthFacts, MovedView
<1>4. block[w.block] # NoMemory /\ w.bits <= Len(block[w.block])
  BY <1>1, <1>3, ViewFacts
<1> QED BY <1>1, <1>2, <1>3, <1>4, ViewStepKeeps

\* A string that is read where one was written, as far as its 0, is that string.
LEMMA StringMatches ==
  ASSUME BufInv, "negative" \notin BufferHabits, NEW o \in Views, view[o] # NoMemory,
         NEW end \in 1 .. Len(CharsFrom(o)), NEW r \in intact,
         r.block = view[o].block, r.at = view[o].pos, r.as = "String", r.n = end * ByteBits
  PROVE  r.v = SubSeq(CharsFrom(o), 1, end - 1)
<1>1. PICK B \in Nat \ {0} : B = ByteBits
  BY BufAssumption
<1>2. PICK word \in Words : word = r.v /\ r.n = (Len(word) + 1) * B
  <2>1. Meant(r.as, r.n, r.v)
    BY LiesHere
  <2>2. "String" \notin AllFormats
    BY BufAssumption DEF AllFormats
  <2> QED BY <1>1, <2>1, <2>2 DEF Meant
<1>3. PICK l \in Nat : l = Len(word)
  BY <1>2, LiesHere
<1>4. PICK chars : chars = CharsFrom(o)
  OBVIOUS
<1>5. PICK most \in Nat : /\ most = RoomLeft(o) \div B
  <2>1. RoomLeft(o) \in Nat
    BY ViewFacts DEF RoomLeft
  <2>2. RoomLeft(o) \div B \in Nat
    BY <2>1
  <2> QED BY <2>2
<1>6. PICK over \in Seq(Bits), at \in Nat : over = block[view[o].block] /\ at = view[o].pos
  BY ViewFacts
<1>7. chars = [i \in 1 .. most |->
                 BitSum([j \in 1 .. B |-> over[at + (i - 1) * B + j]])]
  BY <1>1, <1>4, <1>5, <1>6 DEF CharsFrom
<1>8. Len(chars) = most /\ end \in 1 .. most
  <2>1. Len(chars) = most
    BY <1>7
  <2> QED BY <2>1, <1>4
<1>9. end = l + 1
  <2>1. end * B = (l + 1) * B
    BY <1>1, <1>2, <1>3
  <2>2. end < l + 1 => end * B < (l + 1) * B
    OBVIOUS
  <2>3. end > l + 1 => end * B > (l + 1) * B
    OBVIOUS
  <2>4. end * B \in Int
    OBVIOUS
  <2> QED BY <2>1, <2>2, <2>3, <2>4
<1>10. ASSUME NEW i \in 1 .. l + 1 PROVE chars[i] = Append(word, 0)[i]
  <2>1. ASSUME NEW j \in 1 .. B
        PROVE  over[at + (i - 1) * B + j] = StringBits(word)[(i - 1) * B + j]
    <3>1. PICK k \in Int : k = (i - 1) * B + j
      OBVIOUS
    <3>2. k \in 1 .. r.n
      BY <1>1, <1>2, <1>3, <3>1, StringReads
    <3>3. over[at + k] = Code("String", r.n, r.v)[k]
      BY <1>6, <3>2, LiesHere
    <3>4. at + (i - 1) * B + j = at + k
      <4>1. (i - 1) * B \in Int
        OBVIOUS
      <4> QED BY <4>1, <3>1
    <3> QED BY <1>2, <3>1, <3>3, <3>4 DEF Code
  <2>2. chars[i] = BitSum([j \in 1 .. B |-> over[at + (i - 1) * B + j]])
    <3>1. i \in 1 .. most
      BY <1>8, <1>9
    <3> QED BY <3>1, <1>7
  <2>3. [j \in 1 .. B |-> over[at + (i - 1) * B + j]]
          = [j \in 1 .. B |-> StringBits(word)[(i - 1) * B + j]]
    BY <2>1
  <2>4. BitSum([j \in 1 .. B |-> StringBits(word)[(i - 1) * B + j]]) = Append(word, 0)[i]
    BY <1>1, <1>3, StringReads
  <2> QED BY <2>2, <2>3, <2>4
<1>11. word \in Seq(Int)
  BY <1>2, LiesHere
<1>12. ASSUME NEW i \in 1 .. l PROVE chars[i] = word[i]
  <2>1. i \in 1 .. l + 1 /\ Append(word, 0)[i] = word[i]
    BY <1>3, <1>11
  <2> QED BY <2>1, <1>10
<1> DEFINE S == Int \cup {chars[i] : i \in 1 .. most}
<1>13. chars \in Seq(S)
  <2>1. \A i \in 1 .. most : chars[i] \in S
    OBVIOUS
  <2> DEFINE char(i) == BitSum([j \in 1 .. B |-> over[at + (i - 1) * B + j]])
  <2>2. chars = [i \in 1 .. most |-> char(i)]
    BY <1>7
  <2> HIDE DEF S, char
  <2>3. \A i \in 1 .. most : char(i) \in S
    BY <2>1, <2>2
  <2> QED BY <2>2, <2>3
<1>14. word \in Seq(S)
  <2>1. Int \subseteq S
    OBVIOUS
  <2> HIDE DEF S
  <2> QED BY <2>1, <1>11
<1> HIDE DEF S
<1>15. PICK s : s = SubSeq(chars, 1, l)
  OBVIOUS
<1>16. s \in Seq(S) /\ Len(s) = l
  <2>1. \A i \in 1 .. l : i \in 1 .. Len(chars)
    BY <1>8, <1>9
  <2>2. s \in Seq(S)
    BY <2>1, <1>13, <1>15
  <2>3. Len(s) = l
    BY <1>13, <1>15, <1>8
  <2> QED BY <2>2, <2>3
<1>17. \A i \in 1 .. Len(s) : s[i] = word[i]
  <2>1. \A i \in 1 .. l : s[i] = chars[i]
    <3>1. \A i \in 1 .. l : 1 + i - 1 = i
      OBVIOUS
    <3> QED BY <3>1, <1>13, <1>15
  <2> QED BY <2>1, <1>12, <1>16
<1>18. s = word
  BY <1>3, <1>14, <1>16, <1>17, SeqEqual
<1>19. end - 1 = l
  BY <1>9
<1> QED BY <1>2, <1>4, <1>15, <1>18, <1>19

LEMMA ReadStringKeeps ==
  ASSUME BufInv, "negative" \notin BufferHabits, NEW o \in Views, ReadString(o)
  PROVE  BufInv'
<1> DEFINE chars == CharsFrom(o)
           ends == {i \in 1 .. Len(chars) : chars[i] = 0}
           end == CHOOSE i \in ends : \A j \in ends : i <= j
<1>1. view[o] # NoMemory /\ UNCHANGED <<block, intact>>
  BY DEF ReadString, Reader
<1>2. misreadBits = {}
  BY DEF BufInv, MessagesReadBack
<1>3. CASE ends = {}
  <2>1. view' = [view EXCEPT ![o].pos = view[o].bits, ![o].over = TRUE] /\ misreadBits' = {}
    BY <1>2, <1>3 DEF ReadString
  <2>2. view[o].bits \in 0 .. view[o].bits /\ TRUE \in BOOLEAN
    BY <1>1, ViewFacts
  <2>3. PICK w \in ViewRecords :
          /\ [view EXCEPT ![o].pos = view[o].bits, ![o].over = TRUE] = [view EXCEPT ![o] = w]
          /\ w.block = view[o].block /\ w.bits = view[o].bits /\ w.pos = view[o].bits
    BY <1>1, <2>2, PlacedView
  <2>4. block[w.block] # NoMemory /\ w.pos <= w.bits /\ w.bits <= Len(block[w.block])
    BY <1>1, <2>3, ViewFacts
  <2>5. view' = [view EXCEPT ![o] = w]
    BY <2>1, <2>3
  <2> QED BY <1>1, <2>1, <2>4, <2>5, ViewStepKeeps
<1>4. CASE ends # {}
  <2>1. end \in 1 .. Len(chars)
    <3>1. ends \in SUBSET Nat
      OBVIOUS
    <3>2. \E i \in ends : \A j \in ends : i <= j
      <4> HIDE DEF ends
      <4> QED BY <1>4, <3>1, LeastNat
    <3>3. end \in ends
      <4> HIDE DEF ends
      <4> QED BY <3>2
    <3> HIDE DEF end
    <3> QED BY <3>3
  <2>2. /\ view' = Moved(o, end * ByteBits)
        /\ \/ ReadBackAs(o, "String", end * ByteBits, SubSeq(chars, 1, end - 1))
           \/ UNCHANGED misreadBits
    BY <1>4 DEF ReadString
  <2> HIDE DEF end
  <2>3. PICK e : e = end
    OBVIOUS
  <2>4. e \in 1 .. Len(CharsFrom(o)) /\ e * ByteBits \in Nat
    BY <2>1, <2>3, BufAssumption
  <2>5. misreadBits' = {}
    <3>1. ASSUME NEW r \in intact, r.block = view[o].block, r.at = view[o].pos,
                 r.as = "String", r.n = e * ByteBits
          PROVE  r.v = SubSeq(CharsFrom(o), 1, e - 1)
      BY <1>1, <2>4, <3>1, StringMatches
    <3> QED BY <1>2, <2>2, <2>3, <3>1 DEF ReadBackAs
  <2>6. PICK w \in ViewRecords :
          /\ Moved(o, e * ByteBits) = [view EXCEPT ![o] = w]
          /\ w.block = view[o].block /\ w.bits = view[o].bits /\ w.pos <= w.bits
    BY <1>1, <2>4, MovedView
  <2>7. block[w.block] # NoMemory /\ w.bits <= Len(block[w.block])
    BY <1>1, <2>6, ViewFacts
  <2>8. view' = [view EXCEPT ![o] = w]
    BY <2>2, <2>3, <2>6
  <2> QED BY <1>1, <2>5, <2>6, <2>7, <2>8, ViewStepKeeps
<1> QED BY <1>3, <1>4

\* A block of so many bytes has room for the bits that are asked for.
LEMMA RoomForBits ==
  ASSUME NEW n \in Nat
  PROVE  BytesFor(n) * ByteBits \in Nat /\ n <= BytesFor(n) * ByteBits
<1>1. PICK b \in Nat \ {0} : b = ByteBits
  BY BufAssumption
<1>2. PICK q \in Int, r \in 0 .. b - 1 : n + b - 1 = b * q + r /\ q = (n + b - 1) \div b
  BY <1>1
<1>3. BytesFor(n) = q
  BY <1>1, <1>2 DEF BytesFor
<1>4. q * b \in Int /\ q * b >= n
  <2>1. q * b = b * q /\ b * q \in Int
    OBVIOUS
  <2> QED BY <2>1, <1>2
<1> QED BY <1>1, <1>3, <1>4

\* Bits read into a block of their own.
LEMMA ReadBlockKeeps ==
  ASSUME BufInv, "negative" \notin BufferHabits, NEW o \in Views, NEW b \in Blocks,
         NEW n \in Counts, NEW fill \in Fills, ReadBlock(o, b, n, fill)
  PROVE  BufInv'
<1>1. PICK most \in Nat : most = BytesFor(n) * ByteBits /\ n <= most
  BY RoomForBits, BufAssumption
<1>2. PICK room : room = [i \in 1 .. most |-> fill]
  OBVIOUS
<1>3. room \in Seq(Bits) /\ Len(room) = most /\ n \in Nat
  <2>1. room \in Seq(Bits)
    BY <1>2 DEF Bits
  <2> QED BY <2>1, <1>2, BufAssumption
<1>4. /\ view[o] # NoMemory /\ block[b] = NoMemory /\ view' = Moved(o, n)
      /\ block' = [block EXCEPT ![b] = IF Fits(o, n) THEN Laid(BitsHere(o, n), room, 0) ELSE room]
      /\ intact' = intact \cup (IF Fits(o, n) THEN Carried(view[o].block, view[o].pos, n, b, 0) ELSE {})
      /\ misreadBits' = misreadBits
  BY <1>1, <1>2 DEF ReadBlock, Reader
<1>s. PICK new \in Seq(Bits) : \E records :
        Noted(records, b, 0, new) /\ block' = [block EXCEPT ![b] = new] /\ intact' = intact \cup records
  <2>1. CASE Fits(o, n)
    <3>1. PICK c \in Blocks, from \in Nat : c = view[o].block /\ from = view[o].pos
      BY <1>4, ViewFacts
    <3>2. block[c] # NoMemory /\ from + n <= Len(block[c])
      <4>1. n <= view[o].bits - from
        BY <2>1, <3>1 DEF Fits, RoomLeft
      <4>2. /\ block[c] # NoMemory /\ view[o].bits \in Nat /\ Len(block[c]) \in Nat
            /\ view[o].bits <= Len(block[c])
        BY <1>4, <3>1, ViewFacts
      <4> QED BY <1>3, <4>1, <4>2
    <3>3. PICK bits \in Seq(Bits) :
            /\ bits = SubSeq(block[c], from + 1, from + n) /\ Len(bits) = n
            /\ Noted(Carried(c, from, n, b, 0), b, 0, bits)
      BY <1>3, <3>2, CarriedNoted
    <3>4. PICK records : records = Carried(c, from, n, b, 0)
      OBVIOUS
    <3>5. PICK new \in Seq(Bits) :
            /\ new = Laid(bits, room, 0) /\ Len(new) = most
            /\ \A i \in 1 .. n : new[0 + i] = bits[i]
      <4>1. 0 \in Nat /\ 0 + Len(bits) <= Len(room)
        BY <1>1, <1>3, <3>3
      <4>2. /\ Laid(bits, room, 0) \in Seq(Bits) /\ Len(Laid(bits, room, 0)) = Len(room)
            /\ \A i \in 1 .. Len(bits) : Laid(bits, room, 0)[0 + i] = bits[i]
        BY <1>3, <4>1, LaidFacts
      <4> QED BY <1>3, <3>3, <4>2
    <3>6. Noted(records, b, 0, new)
      <4> SUFFICES ASSUME NEW r \in records
                   PROVE  /\ r \in IntactRecords /\ Meant(r.as, r.n, r.v)
                          /\ r.block = b /\ 0 <= r.at /\ r.at + r.n <= 0 + Len(new)
                          /\ \A i \in 1 .. r.n : new[r.at - 0 + i] = Code(r.as, r.n, r.v)[i]
        BY DEF Noted
      <4>1. /\ r \in IntactRecords /\ Meant(r.as, r.n, r.v)
            /\ r.block = b /\ 0 <= r.at /\ r.at + r.n <= 0 + Len(bits)
            /\ \A i \in 1 .. r.n : bits[r.at - 0 + i] = Code(r.as, r.n, r.v)[i]
        BY <3>3, <3>4 DEF Noted
      <4>2. PICK p, l \in Nat : p = r.at /\ l = r.n
        BY <4>1 DEF IntactRecords
      <4>3. p + l <= n /\ p + l <= most
        <5>1. p + l <= 0 + n
          BY <3>3, <4>1, <4>2
        <5> QED BY <5>1, <1>1, <1>3
      <4>4. ASSUME NEW i \in 1 .. l PROVE new[p - 0 + i] = bits[p - 0 + i]
        <5>1. p - 0 + i \in 1 .. n /\ 0 + (p - 0 + i) = p - 0 + i
          BY <4>3, <1>3
        <5> QED BY <5>1, <3>5
      <4> QED BY <3>5, <4>1, <4>2, <4>3, <4>4
    <3>7. block' = [block EXCEPT ![b] = new] /\ intact' = intact \cup records
      BY <1>4, <2>1, <3>1, <3>3, <3>4, <3>5 DEF BitsHere
    <3> QED BY <3>6, <3>7
  <2>2. CASE ~ Fits(o, n)
    <3>1. /\ Noted({}, b, 0, room) /\ block' = [block EXCEPT ![b] = room]
          /\ intact' = intact \cup {}
      BY <1>4, <2>2 DEF Noted
    <3> QED BY <1>3, <3>1
  <2> QED BY <2>1, <2>2
<1>5. PICK records :
        Noted(records, b, 0, new) /\ block' = [block EXCEPT ![b] = new] /\ intact' = intact \cup records
  BY <1>s
<1>6. /\ BlocksTyped' /\ IntactMeant' /\ IntactLies'
      /\ \A c \in Blocks : block[c] # NoMemory =>
           block'[c] # NoMemory /\ Len(block'[c]) = Len(block[c])
  BY <1>4, <1>5, FreshBlock
<1>7. PICK w \in ViewRecords :
        /\ Moved(o, n) = [view EXCEPT ![o] = w]
        /\ w.block = view[o].block /\ w.bits = view[o].bits /\ w.pos <= w.bits
  BY <1>3, <1>4, MovedView
<1>8. ViewsTyped' /\ ViewsLie'
  <2>1. ViewsTyped /\ ViewsLie
    BY DEF BufInv
  <2>2. block'[w.block] # NoMemory /\ w.bits <= Len(block'[w.block])
    BY <1>4, <1>6, <1>7, ViewFacts
  <2>3. view' = [view EXCEPT ![o] = w]
    BY <1>4, <1>7
  <2> QED BY <1>6, <1>7, <2>1, <2>2, <2>3, ViewsKeep
<1> QED BY <1>4, <1>6, <1>8 DEF BufInv, MessagesReadBack

\* A script starts without buffers, and every function it calls keeps what they hold.
THEOREM BuffersInvariant ==
  ASSUME "negative" \notin BufferHabits
  PROVE  BufSpec => []BufInv
<1>1. BufInit => BufInv
  BY DEF BufInit, BufInv, BlocksTyped, ViewsTyped, ViewsLie, IntactMeant, IntactLies,
         MessagesReadBack
<1>2. BufInv /\ [BufNext]_bufVars => BufInv'
  <2> SUFFICES ASSUME BufInv, [BufNext]_bufVars PROVE BufInv'
    OBVIOUS
  <2> USE DEF BufNext
  <2>1. CASE \E b \in Blocks, bytes \in Sizes, fill \in Fills : NewBlock(b, bytes, fill)
    BY <2>1, NewBlockKeeps
  <2>2. CASE \E b \in Blocks : DeleteBlock(b)
    BY <2>2, DeleteBlockKeeps
  <2>3. CASE \E o \in Views, use \in {"write", "read"}, b \in Blocks, bytes \in Sizes :
               NewView(o, use, b, bytes * ByteBits)
    BY <2>3, NewViewKeeps
  <2>4. CASE \E o \in Views : Finish(o)
    BY <2>4, FinishKeeps
  <2>5. CASE \E o \in Views, as \in AllFormats, v \in BitNumbers :
               \E n \in WidthsOf(as) : WriteNumber(o, as, n, v)
    BY <2>5, WriteNumberKeeps
  <2>6. CASE \E o \in Views, word \in Words : WriteString(o, word)
    BY <2>6, WriteStringKeeps
  <2>7. CASE \E o \in Views, b \in Blocks, n \in Counts : WriteBlock(o, b, n)
    BY <2>7, WriteBlockKeeps
  <2>8. CASE \E o \in Views, as \in AllFormats : \E n \in WidthsOf(as) : ReadNumber(o, as, n)
    BY <2>8, ReadNumberKeeps
  <2>9. CASE \E o \in Views : ReadString(o)
    BY <2>9, ReadStringKeeps
  <2>10. CASE \E o \in Views, b \in Blocks, n \in Counts, fill \in Fills : ReadBlock(o, b, n, fill)
    BY <2>10, ReadBlockKeeps
  <2>11. CASE \E o \in Views, bit \in {0, -1} \cup Counts : SeekView(o, bit)
    BY <2>11, SeekViewKeeps
  <2>12. CASE UNCHANGED bufVars
    BY <2>12 DEF bufVars, BufInv, BlocksTyped, ViewsTyped, ViewsLie, IntactMeant, IntactLies,
                 MessagesReadBack
  <2> QED BY <2>1, <2>2, <2>3, <2>4, <2>5, <2>6, <2>7, <2>8, <2>9, <2>10, <2>11, <2>12
<1> QED BY <1>1, <1>2, PTL DEF BufSpec

\* Numbers and strings are read back as they were written.
THEOREM ReadBackAsWritten ==
  ASSUME "negative" \notin BufferHabits
  PROVE  BufSpec => []MessagesReadBack
<1>1. BufInv => MessagesReadBack
  BY DEF BufInv
<1> QED BY <1>1, BuffersInvariant, PTL
============================================================================
