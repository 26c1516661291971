---------------------------- MODULE EngineProofs ----------------------------
(***************************************************************************)
(* Proofs about the modules that reach into a process's memory, PvsObjects,*)
(* Pstack, SnChannel and SymbolFinder, and about the kd-tree of the        *)
(* navigation.                                                             *)
(***************************************************************************)
EXTENDS PvsObjects, Pstack, SnChannel, KdTree, SymbolFinder, SeqLemmas,
        FiniteSetTheorems

(***************************************************************************)
(* PvsObjects.                                                             *)
(***************************************************************************)

PvsTypeOK ==
  /\ allocated \subseteq Cells
  /\ thing \in [Cells -> [refs : Nat, enableGC : BOOLEAN, marked : BOOLEAN]]
  /\ wrap \in [Wraps -> Cells \cup {NoCell}]
  /\ owner \subseteq Wraps
  /\ typed \in BOOLEAN /\ deleteAsked \in BOOLEAN /\ reachedOther \in BOOLEAN

\* An object has one userdata at most, which counts as its one reference: so it
\* is marked by nothing but the collection of that.
OneUserdata ==
  /\ ~reachedOther
  /\ typed => \A w \in Wraps : wrap[w] # NoCell =>
       /\ w \in owner /\ wrap[w] \in allocated
       /\ thing[wrap[w]].refs = 1 /\ ~thing[wrap[w]].marked
       /\ \A v \in Wraps : wrap[v] = wrap[w] => v = w
  /\ ~typed => allocated = {}
  /\ \A c \in allocated : thing[c].marked => thing[c].enableGC /\ thing[c].refs = 0

PvsInv == PvsTypeOK /\ (~deleteAsked => OneUserdata)

LEMMA PvsInvInit ==
  ASSUME PvsInit
  PROVE  PvsInv
<1>1. NewThing \in [refs : Nat, enableGC : BOOLEAN, marked : BOOLEAN]
  BY DEF NewThing
<1>2. thing \in [Cells -> [refs : Nat, enableGC : BOOLEAN, marked : BOOLEAN]]
  <2> HIDE DEF NewThing
  <2> QED BY <1>1 DEF PvsInit
<1>3. wrap \in [Wraps -> Cells \cup {NoCell}] /\ \A w \in Wraps : wrap[w] = NoCell
  BY DEF PvsInit
<1>4. /\ allocated = {} /\ owner = {}
      /\ typed = TRUE /\ deleteAsked = FALSE /\ reachedOther = FALSE
  BY DEF PvsInit
<1>5. PvsTypeOK
  BY <1>2, <1>3, <1>4 DEF PvsTypeOK
<1>6. OneUserdata
  BY <1>3, <1>4 DEF OneUserdata
<1> QED BY <1>5, <1>6 DEF PvsInv

LEMMA ThingFacts ==
  ASSUME PvsTypeOK, NEW c \in Cells
  PROVE  /\ thing[c] = [refs |-> thing[c].refs, enableGC |-> thing[c].enableGC,
                        marked |-> thing[c].marked]
         /\ thing[c].refs \in Nat /\ thing[c].enableGC \in BOOLEAN /\ thing[c].marked \in BOOLEAN
BY DEF PvsTypeOK

LEMMA UnwrappedIs ==
  ASSUME NEW n \in Nat, NEW g \in BOOLEAN, NEW m \in BOOLEAN
  PROVE  Unwrapped([refs |-> n, enableGC |-> g, marked |-> m])
           = [refs |-> IF n = 0 THEN 0 ELSE n - 1, enableGC |-> g, marked |-> n <= 1 /\ g]
<1> DEFINE x == [refs |-> n, enableGC |-> g, marked |-> m]
<1>1. Unwrapped(x) = [x EXCEPT !.refs = IF n = 0 THEN 0 ELSE n - 1, !.marked = n <= 1 /\ g]
  BY DEF Unwrapped
<1> QED BY <1>1

\* What a valid userdata leads to.
LEMMA ValidFacts ==
  ASSUME PvsInv, NEW w \in Wraps, ValidWrap(w)
  PROVE  /\ wrap[w] \in allocated /\ wrap[w] \in Cells /\ wrap[w] # NoCell /\ typed
         /\ ~deleteAsked => w \in owner
BY PvsAssumption DEF PvsInv, PvsTypeOK, ValidWrap, OneUserdata

LEMMA PvsStep ==
  ASSUME PvsInv, [PvsNext]_pvsVars
  PROVE  PvsInv'
<1>0. PvsTypeOK
  BY DEF PvsInv
<1>1. ASSUME NEW w \in Wraps, NEW c \in Cells, NewPvs(c, w)
      PROVE  PvsInv'
  <2>1. /\ typed /\ c \notin allocated /\ wrap[w] = NoCell
        /\ allocated' = allocated \cup {c}
        /\ thing' = [thing EXCEPT ![c] = NewThing]
        /\ wrap' = [wrap EXCEPT ![w] = c]
        /\ owner' = owner \cup {w}
        /\ UNCHANGED <<typed, deleteAsked, reachedOther>>
    BY <1>1 DEF NewPvs
  <2>2. /\ thing'[c] = [refs |-> 1, enableGC |-> TRUE, marked |-> FALSE]
        /\ wrap'[w] = c
        /\ \A x \in Cells : x # c => thing'[x] = thing[x]
        /\ \A v \in Wraps : v # w => wrap'[v] = wrap[v]
    BY <1>0, <2>1 DEF PvsTypeOK, NewThing
  <2>3. PvsTypeOK'
    BY <1>0, <2>1 DEF PvsTypeOK, NewThing
  <2>4. ASSUME ~deleteAsked PROVE OneUserdata'
    <3>1. \A v \in Wraps : (v # w /\ wrap[v] # NoCell) =>
            /\ v \in owner /\ wrap[v] \in allocated /\ wrap[v] \in Cells /\ wrap[v] # c
            /\ thing[wrap[v]].refs = 1 /\ ~thing[wrap[v]].marked
            /\ \A u \in Wraps : wrap[u] = wrap[v] => u = v
      BY <1>0, <2>1, <2>4 DEF PvsInv, OneUserdata, PvsTypeOK
    <3>2. ASSUME NEW v \in Wraps, wrap'[v] # NoCell
          PROVE  /\ v \in owner' /\ wrap'[v] \in allocated'
                 /\ thing'[wrap'[v]].refs = 1 /\ ~thing'[wrap'[v]].marked
                 /\ \A u \in Wraps : wrap'[u] = wrap'[v] => u = v
      <4>1. CASE v = w
        <5>1. \A u \in Wraps : u # w => wrap'[u] # c
          BY <2>1, <2>2, <3>1, PvsAssumption
        <5> QED BY <2>1, <2>2, <4>1, <5>1
      <4>2. CASE v # w
        <5>1. wrap'[v] = wrap[v] /\ thing'[wrap[v]] = thing[wrap[v]]
          BY <2>2, <3>1, <3>2, <4>2
        <5>2. \A u \in Wraps : wrap'[u] = wrap[v] => u = v
          BY <2>2, <3>1, <3>2, <4>2, <5>1
        <5> QED BY <2>1, <3>1, <3>2, <4>2, <5>1, <5>2
      <4> QED BY <4>1, <4>2
    <3>3. \A x \in allocated' : thing'[x].marked => thing'[x].enableGC /\ thing'[x].refs = 0
      BY <1>0, <2>1, <2>2, <2>4 DEF PvsInv, OneUserdata, PvsTypeOK
    <3> QED BY <2>1, <2>4, <3>2, <3>3 DEF PvsInv, OneUserdata
  <2> QED BY <2>1, <2>3, <2>4 DEF PvsInv
<1>2. ASSUME NEW w \in Wraps, UseThing(w)
      PROVE  PvsInv'
  <2>1. /\ ValidWrap(w) /\ thing' = [thing EXCEPT ![wrap[w]] = thing[wrap[w]]]
        /\ reachedOther' = (reachedOther \/ w \notin owner)
        /\ UNCHANGED <<allocated, wrap, owner, typed, deleteAsked>>
    BY <1>2 DEF UseThing, CallOn
  <2>2. thing' = thing
    BY <1>0, <2>1 DEF PvsTypeOK
  <2>3. ~deleteAsked => w \in owner
    BY <2>1, ValidFacts
  <2> QED BY <2>1, <2>2, <2>3 DEF PvsInv, PvsTypeOK, OneUserdata
<1>3. ASSUME NEW w \in Wraps, EnableGC(w)
      PROVE  PvsInv'
  <2>1. PICK enable \in BOOLEAN : CallOn(w, [thing[wrap[w]] EXCEPT !.enableGC = enable])
    BY <1>3 DEF EnableGC
  <2>2. UNCHANGED <<allocated, wrap, owner, typed, deleteAsked>>
    BY <1>3 DEF EnableGC
  <2> DEFINE c == wrap[w]
  <2>3. /\ ValidWrap(w) /\ thing' = [thing EXCEPT ![c] = [thing[c] EXCEPT !.enableGC = enable]]
        /\ reachedOther' = (reachedOther \/ w \notin owner)
    BY <2>1 DEF CallOn
  <2>4. c \in Cells /\ c \in allocated /\ ~thing[c].marked /\ (~deleteAsked => w \in owner)
    BY <2>3, ValidFacts DEF ValidWrap
  <2> HIDE DEF c
  <2>5. /\ thing'[c] = [refs |-> thing[c].refs, enableGC |-> enable, marked |-> thing[c].marked]
        /\ \A x \in Cells : x # c => thing'[x] = thing[x]
    BY <1>0, <2>3, <2>4 DEF PvsTypeOK
  <2>6. PvsTypeOK'
    <3>1. [thing[c] EXCEPT !.enableGC = enable]
            \in [refs : Nat, enableGC : BOOLEAN, marked : BOOLEAN]
      BY <1>0, <2>4 DEF PvsTypeOK
    <3>2. thing' \in [Cells -> [refs : Nat, enableGC : BOOLEAN, marked : BOOLEAN]]
      BY <1>0, <2>3, <3>1 DEF PvsTypeOK
    <3>3. reachedOther' \in BOOLEAN
      BY <1>0, <2>3 DEF PvsTypeOK
    <3> QED BY <1>0, <2>2, <3>2, <3>3 DEF PvsTypeOK
  <2>7. \A x \in Cells : thing'[x].refs = thing[x].refs /\ thing'[x].marked = thing[x].marked
    BY <2>5
  <2>8. \A x \in allocated : thing'[x].marked => thing'[x] = thing[x]
    BY <1>0, <2>4, <2>5 DEF PvsTypeOK
  <2> QED BY <1>0, <2>2, <2>3, <2>4, <2>6, <2>7, <2>8 DEF PvsInv, OneUserdata, PvsTypeOK
<1>4. ASSUME NEW w \in Wraps, DeleteThing(w)
      PROVE  PvsInv'
  <2>1. /\ ValidWrap(w) /\ deleteAsked' = TRUE
        /\ thing' = [thing EXCEPT ![wrap[w]] = [thing[wrap[w]] EXCEPT !.marked = TRUE]]
        /\ reachedOther' = (reachedOther \/ w \notin owner)
        /\ UNCHANGED <<allocated, wrap, owner, typed>>
    BY <1>4 DEF DeleteThing, CallOn
  <2>2. wrap[w] \in Cells
    BY <2>1, ValidFacts
  <2>3. [thing[wrap[w]] EXCEPT !.marked = TRUE]
          \in [refs : Nat, enableGC : BOOLEAN, marked : BOOLEAN]
    BY <1>0, <2>2 DEF PvsTypeOK
  <2>4. thing' \in [Cells -> [refs : Nat, enableGC : BOOLEAN, marked : BOOLEAN]]
    BY <1>0, <2>1, <2>3 DEF PvsTypeOK
  <2> QED BY <1>0, <2>1, <2>4 DEF PvsInv, PvsTypeOK
<1>5. ASSUME NEW w \in Wraps, CollectWrap(w)
      PROVE  PvsInv'
  <2> DEFINE c == wrap[w]
  <2>1. /\ c # NoCell /\ wrap' = [wrap EXCEPT ![w] = NoCell] /\ owner' = owner \ {w}
        /\ thing' = IF ValidWrap(w) THEN [thing EXCEPT ![c] = Unwrapped(thing[c])] ELSE thing
        /\ UNCHANGED <<allocated, typed, deleteAsked, reachedOther>>
    BY <1>0, <1>5 DEF CollectWrap, PvsTypeOK
  <2>2. c \in Cells
    BY <1>0, <2>1 DEF PvsTypeOK
  <2> HIDE DEF c
  <2>3. /\ thing[c].refs = 1 => Unwrapped(thing[c]).refs = 0
        /\ Unwrapped(thing[c]).marked => thing[c].enableGC
        /\ Unwrapped(thing[c]).enableGC = thing[c].enableGC
        /\ Unwrapped(thing[c]) \in [refs : Nat, enableGC : BOOLEAN, marked : BOOLEAN]
    <3> DEFINE refs == IF thing[c].refs = 0 THEN 0 ELSE thing[c].refs - 1
               marked == thing[c].refs <= 1 /\ thing[c].enableGC
    <3>1. thing[c].refs \in Nat /\ thing[c].enableGC \in BOOLEAN
      BY <1>0, <2>2, ThingFacts
    <3>2. thing[c] = [refs |-> thing[c].refs, enableGC |-> thing[c].enableGC,
                      marked |-> thing[c].marked]
      BY <1>0, <2>2, ThingFacts
    <3>3. Unwrapped(thing[c]) = [refs |-> refs, enableGC |-> thing[c].enableGC,
                                 marked |-> marked]
      <4>1. Unwrapped([refs |-> thing[c].refs, enableGC |-> thing[c].enableGC,
                       marked |-> thing[c].marked])
              = [refs |-> refs, enableGC |-> thing[c].enableGC, marked |-> marked]
        <5>1. thing[c].marked \in BOOLEAN
          BY <1>0, <2>2, ThingFacts
        <5> HIDE DEF Unwrapped
        <5> QED BY <3>1, <5>1, UnwrappedIs
      <4> QED BY <3>2, <4>1
    <3>4. refs \in Nat /\ marked \in BOOLEAN /\ (thing[c].refs = 1 => refs = 0)
          /\ (marked => thing[c].enableGC)
      BY <3>1
    <3> HIDE DEF refs, marked
    <3> QED BY <3>1, <3>3, <3>4
  <2>4. thing' \in [Cells -> [refs : Nat, enableGC : BOOLEAN, marked : BOOLEAN]]
    <3> HIDE DEF Unwrapped
    <3> QED BY <1>0, <2>1, <2>3 DEF PvsTypeOK
  <2>5. PvsTypeOK'
    <3>1. wrap' \in [Wraps -> Cells \cup {NoCell}]
      BY <1>0, <2>1 DEF PvsTypeOK
    <3> QED BY <1>0, <2>1, <2>4, <3>1 DEF PvsTypeOK
  <2>6. \A x \in Cells : x # c => thing'[x] = thing[x]
    BY <1>0, <2>1, <2>2 DEF PvsTypeOK
  <2>7. wrap'[w] = NoCell /\ \A v \in Wraps : v # w => wrap'[v] = wrap[v]
    BY <1>0, <2>1 DEF PvsTypeOK
  <2>8. ASSUME ~deleteAsked PROVE OneUserdata'
    <3>0. OneUserdata
      BY <2>8 DEF PvsInv
    <3>1. ASSUME typed, NEW v \in Wraps, wrap'[v] # NoCell
          PROVE  /\ v \in owner' /\ wrap'[v] \in allocated'
                 /\ thing'[wrap'[v]].refs = 1 /\ ~thing'[wrap'[v]].marked
                 /\ \A u \in Wraps : wrap'[u] = wrap'[v] => u = v
      <4>1. v # w /\ wrap'[v] = wrap[v]
        BY <2>7, <3>1
      <4>2. /\ v \in owner /\ wrap[v] \in allocated /\ wrap[v] \in Cells
            /\ thing[wrap[v]].refs = 1 /\ ~thing[wrap[v]].marked
            /\ \A u \in Wraps : wrap[u] = wrap[v] => u = v
        BY <1>0, <3>0, <3>1, <4>1 DEF OneUserdata, PvsTypeOK
      <4>3. wrap[v] # c
        BY <4>1, <4>2 DEF c
      <4> QED BY <2>1, <2>6, <2>7, <3>1, <4>1, <4>2, <4>3
    <3>2. ASSUME NEW x \in allocated', thing'[x].marked
          PROVE  thing'[x].enableGC /\ thing'[x].refs = 0
      <4>0. x \in allocated /\ x \in Cells
        BY <1>0, <2>1 DEF PvsTypeOK
      <4>1. CASE x = c /\ ValidWrap(w)
        <5>1. thing'[x] = Unwrapped(thing[c])
          BY <1>0, <2>1, <2>2, <4>1 DEF PvsTypeOK
        <5>2. thing[c].refs = 1
          BY <2>1, <3>0, <4>1 DEF OneUserdata, ValidWrap, c
        <5> QED BY <2>3, <3>2, <5>1, <5>2
      <4>2. CASE ~(x = c /\ ValidWrap(w))
        <5>1. thing'[x] = thing[x]
          BY <2>1, <2>6, <4>0, <4>2
        <5> QED BY <3>0, <3>2, <4>0, <5>1 DEF OneUserdata
      <4> QED BY <4>1, <4>2
    <3> QED BY <2>1, <3>0, <3>1, <3>2 DEF OneUserdata
  <2> QED BY <2>1, <2>5, <2>8 DEF PvsInv
<1>6. CASE PollThings
  <2> DEFINE gone == { c \in allocated : thing[c].marked }
  <2>1. /\ allocated' = allocated \ gone
        /\ owner' = { w \in owner : wrap[w] \notin gone }
        /\ UNCHANGED <<thing, wrap, typed, deleteAsked, reachedOther>>
    BY <1>6 DEF PollThings, Orphaned
  <2>2. PvsTypeOK'
    BY <1>0, <2>1 DEF PvsTypeOK
  <2> QED BY <2>1, <2>2 DEF PvsInv, OneUserdata
<1>7. CASE ShutdownThings
  BY <1>7 DEF ShutdownThings, PvsInv, PvsTypeOK, OneUserdata
<1>8. CASE UNCHANGED pvsVars
  BY <1>8 DEF pvsVars, PvsInv, PvsTypeOK, OneUserdata
<1> QED BY <1>1, <1>2, <1>3, <1>4, <1>5, <1>6, <1>7, <1>8 DEF PvsNext

\* LivesWithItsUserdata: until a script calls delete, a userdata leads to the
\* object it was made for, for any number of addresses, which are taken again.
THEOREM ThingsLiveOn == PvsSpec => []LivesWithItsUserdata
<1>1. PvsInit => PvsInv
  BY PvsInvInit
<1>2. PvsInv /\ [PvsNext]_pvsVars => PvsInv'
  BY PvsStep
<1>3. PvsInv => LivesWithItsUserdata
  BY DEF PvsInv, PvsTypeOK, OneUserdata, LivesWithItsUserdata, ValidWrap
<1> QED BY <1>1, <1>2, <1>3, PTL DEF PvsSpec

(***************************************************************************)
(* Pstack.                                                                 *)
(***************************************************************************)

PsPhases == {"main", "symbols", "handles", "attach", "record", "crawl", "release",
             "reset", "over"}
\* The phases in which the process asked about stands still.
PsAtWork == {"symbols", "handles", "attach", "record", "crawl"}

PsTypeOK ==
  /\ phase \in PsPhases
  /\ thePid \in Targets \cup {0}
  /\ phase \in PsAtWork => thePid \in Targets
  /\ threadsFound \in BOOLEAN /\ pids \in Seq(Nat)
  /\ attached \in [1..Len(pids) -> BOOLEAN]
  /\ threadAt \in Nat

\* What is stopped is what detachall lets go of, but for the thread at hand between
\* its stop and its record; and what is recorded is stopped.
StoppedIsKnown ==
  /\ phase \in {"main", "reset"} => stopped = {}
  /\ phase \in {"symbols", "handles", "attach", "crawl", "release"} => stopped \subseteq Detached
  /\ phase = "record" => /\ threadAt \in 1..Len(pids) /\ pids[threadAt] \in stopped
                         /\ stopped \subseteq Detached \cup {pids[threadAt]}
  /\ phase = "over" => stopped \subseteq (IF endedIn = "record" THEN {pids[threadAt]} ELSE {})
  /\ phase \in PsAtWork => thePid \in stopped
  /\ phase \in PsAtWork /\ threadsFound =>
       \A i \in 1..Len(pids) : attached[i] => pids[i] \in stopped
  /\ phase \in {"main", "handles"} => ~threadsFound
  /\ phase \in {"attach", "record"} => threadsFound
  /\ phase \in {"attach", "record", "crawl"} => threadAt >= 1

\* The symbols are those of the process asked about.
OwnSymbols ==
  /\ phase = "main" => allSyms = {}
  /\ phase \in PsAtWork => \A s \in allSyms : s.of = thePid
  /\ ~misled

PsInv == PsTypeOK /\ StoppedIsKnown /\ OwnSymbols

LEMMA DetachedFacts ==
  /\ thePid \in Detached
  /\ ~threadsFound => Detached = {thePid}
  /\ threadsFound => \A p : p \in Detached <=>
       p = thePid \/ \E i \in 1..Len(pids) : attached[i] /\ pids[i] = p
BY DEF Detached

LEMMA PsInvInit ==
  ASSUME PsInit
  PROVE  PsInv
<1>1. /\ phase = "main" /\ thePid = 0 /\ threadsFound = FALSE /\ threadAt = 0
      /\ pids = <<>> /\ attached = <<>> /\ stopped = {} /\ allSyms = {} /\ misled = FALSE
  BY DEF PsInit
<1>2. pids \in Seq(Nat) /\ attached \in [1..Len(pids) -> BOOLEAN]
  <2>1. <<>> \in Seq(Nat) /\ <<>> \in [1..Len(<<>>) -> BOOLEAN]
    OBVIOUS
  <2> QED BY <1>1, <2>1
<1>3. phase \in PsPhases /\ phase \notin PsAtWork
  BY <1>1 DEF PsPhases, PsAtWork
<1>4. thePid \in Targets \cup {0} /\ threadAt \in Nat /\ threadsFound \in BOOLEAN
  BY <1>1
<1>5. PsTypeOK
  BY <1>2, <1>3, <1>4 DEF PsTypeOK
<1>6. StoppedIsKnown
  BY <1>1, <1>3 DEF StoppedIsKnown
<1>7. OwnSymbols
  BY <1>1, <1>3 DEF OwnSymbols
<1> QED BY <1>5, <1>6, <1>7 DEF PsInv

LEMMA PsEnd ==
  ASSUME PsInv, NEW why, End(why), phase # "over", phase = "record" => why = "record"
  PROVE  PsInv'
<1>1. /\ phase' = "over" /\ endedIn' = why /\ stopped' = stopped \ Detached
      /\ thePid' = thePid /\ threadsFound' = threadsFound /\ pids' = pids
      /\ attached' = attached /\ threadAt' = threadAt /\ misled' = misled
  BY DEF End, threads
<1>2. phase # "record" => stopped' = {}
  BY <1>1 DEF PsInv, StoppedIsKnown, PsTypeOK, PsPhases
<1>3. phase = "record" => stopped' \subseteq {pids'[threadAt']}
  BY <1>1 DEF PsInv, StoppedIsKnown
<1>4. PsTypeOK'
  BY <1>1 DEF PsInv, PsTypeOK, PsPhases, PsAtWork
<1> QED BY <1>1, <1>2, <1>3, <1>4 DEF PsInv, StoppedIsKnown, OwnSymbols, PsAtWork

LEMMA PsStep ==
  ASSUME PsInv, [PsNext]_psVars
  PROVE  PsInv'
<1> USE DEF PsPhases, PsAtWork
<1>0. PsTypeOK /\ StoppedIsKnown /\ OwnSymbols
  BY DEF PsInv
<1>1. CASE handle_signal
  BY <1>1, PsEnd DEF handle_signal
<1>2. CASE quit
  BY <1>2, PsEnd DEF quit
<1>3. CASE NextPid
  <2>1. /\ phase = "main" /\ stopped = {} /\ ~threadsFound /\ allSyms = {} /\ ~misled
        /\ UNCHANGED <<threadsFound, pids, attached, threadAt, allSyms, endedIn, misled>>
    BY <1>0, <1>3 DEF NextPid, threads, StoppedIsKnown, OwnSymbols
  <2>2. PICK pid \in Targets :
          /\ thePid' = pid
          /\ \/ phase' = "symbols" /\ stopped' = stopped \cup {pid}
             \/ "attach" \in FailsAt /\ phase' = "release" /\ UNCHANGED stopped
    BY <1>3 DEF NextPid
  <2>3. Detached' = {pid}
    BY <2>1, <2>2 DEF Detached
  <2>4. PsTypeOK'
    BY <1>0, <2>1, <2>2 DEF PsTypeOK
  <2>5. StoppedIsKnown'
    BY <2>1, <2>2, <2>3 DEF StoppedIsKnown
  <2> QED BY <2>1, <2>2, <2>4, <2>5 DEF PsInv, OwnSymbols
<1>4. ASSUME LoadOwn \/ LoadLinked \/ LoadEnd
      PROVE  PsInv'
  <2>1. /\ phase = "symbols" /\ phase' \in {"symbols", "handles", "crawl"}
        /\ phase' = "handles" => ~threadsFound
        /\ threadAt' \in {1, threadAt} /\ (phase' = "crawl" => threadAt' = 1)
        /\ UNCHANGED <<thePid, threadsFound, pids, attached, stopped, misled>>
    BY <1>4 DEF LoadOwn, LoadLinked, LoadEnd, threads
  <2>2. \A s \in allSyms' : s \in allSyms \/ s.of = thePid
    BY <1>4 DEF LoadOwn, LoadLinked, LoadEnd, Loaded
  <2>3. Detached' = Detached
    BY <2>1 DEF Detached
  <2>4. PsTypeOK'
    BY <1>0, <2>1 DEF PsTypeOK
  <2>5. StoppedIsKnown'
    BY <1>0, <2>1, <2>3 DEF StoppedIsKnown
  <2> QED BY <1>0, <2>1, <2>2, <2>4, <2>5 DEF PsInv, OwnSymbols
<1>5. CASE ReadHandles
  <2>1. /\ phase = "handles" /\ phase' = "attach" /\ threadAt' = 1
        /\ pids' = ThreadsOf[thePid] /\ threadsFound' = TRUE
        /\ attached' = [i \in 1..Len(ThreadsOf[thePid]) |-> FALSE]
        /\ UNCHANGED <<thePid, allSyms, stopped, misled>>
    BY <1>5 DEF ReadHandles
  <2>2. thePid \in Targets /\ pids' \in Seq(Nat)
    BY <1>0, <2>1, PstackAssumption DEF PsTypeOK
  <2>3. PsTypeOK'
    BY <2>1, <2>2 DEF PsTypeOK
  <2>4. stopped \subseteq {thePid} /\ thePid \in stopped
    BY <1>0, <2>1, DetachedFacts DEF StoppedIsKnown
  <2>5. thePid' \in Detached'
    BY DEF Detached
  <2>6. \A i \in 1..Len(pids') : ~attached'[i]
    BY <2>1
  <2>7. StoppedIsKnown'
    BY <2>1, <2>4, <2>5, <2>6 DEF StoppedIsKnown
  <2> QED BY <1>0, <2>1, <2>3, <2>7 DEF PsInv, OwnSymbols
<1>6. CASE AttachThread
  <2>1. /\ phase = "attach" /\ threadAt <= Len(pids)
        /\ \/ phase' = "record" /\ stopped' = stopped \cup {pids[threadAt]} /\ threadAt' = threadAt
           \/ phase' = "attach" /\ stopped' = stopped /\ threadAt' = threadAt + 1
        /\ UNCHANGED <<thePid, threadsFound, pids, attached, allSyms, misled>>
    BY <1>6 DEF AttachThread, threads
  <2>2. Detached' = Detached
    BY <2>1 DEF Detached
  <2>3. PsTypeOK'
    BY <1>0, <2>1 DEF PsTypeOK
  <2>4. threadAt \in 1..Len(pids) /\ stopped \subseteq Detached /\ thePid \in stopped
    BY <1>0, <2>1 DEF StoppedIsKnown, PsTypeOK
  <2>5. threadAt' >= 1
    BY <2>1, <2>4
  <2>6. StoppedIsKnown'
    BY <1>0, <2>1, <2>2, <2>4, <2>5 DEF StoppedIsKnown
  <2> QED BY <1>0, <2>1, <2>3, <2>6 DEF PsInv, OwnSymbols
<1>7. CASE Record
  <2>1. /\ phase \in {"attach", "record"} /\ phase' = "attach" /\ threadAt' = threadAt + 1
        /\ attached' = [attached EXCEPT ![threadAt] = TRUE]
        /\ UNCHANGED <<thePid, threadsFound, pids, allSyms, stopped, misled>>
    BY <1>7 DEF Record
  <2>2. threadAt \in 1..Len(pids) /\ pids[threadAt] \in stopped
    BY <1>0, <1>7 DEF Record, StoppedIsKnown, PsTypeOK
  <2>3. /\ attached' \in [1..Len(pids) -> BOOLEAN] /\ attached'[threadAt] = TRUE
        /\ \A i \in 1..Len(pids) : i # threadAt => attached'[i] = attached[i]
    BY <1>0, <2>1, <2>2 DEF PsTypeOK
  <2>4. PsTypeOK'
    BY <1>0, <2>1, <2>3 DEF PsTypeOK
  <2>5. threadsFound => \A i \in 1..Len(pids) : attached'[i] => pids[i] \in stopped
    BY <1>0, <2>1, <2>2, <2>3 DEF StoppedIsKnown
  <2>6. stopped \subseteq Detached \cup {pids[threadAt]}
    BY <1>0, <2>1 DEF StoppedIsKnown
  <2>7. stopped \subseteq Detached'
    <3>1. ASSUME threadsFound, NEW p \in Detached \cup {pids[threadAt]} PROVE p \in Detached'
      <4>1. p = thePid \/ \E i \in 1..Len(pids) : attached'[i] /\ pids[i] = p
        BY <2>2, <2>3, <3>1 DEF Detached
      <4> QED BY <2>1, <3>1, <4>1 DEF Detached
    <3>2. threadsFound
      BY <1>0, <2>1 DEF StoppedIsKnown
    <3> QED BY <2>6, <3>1, <3>2
  <2>8. thePid \in stopped /\ threadAt' >= 1
    BY <1>0, <2>1, <2>2 DEF StoppedIsKnown
  <2>9. StoppedIsKnown'
    BY <1>0, <2>1, <2>5, <2>7, <2>8 DEF StoppedIsKnown
  <2> QED BY <1>0, <2>1, <2>4, <2>9 DEF PsInv, OwnSymbols
<1>8. ASSUME SkipNone \/ AttachEnd \/ CrawlEnd
      PROVE  PsInv'
  <2>1. /\ \/ phase = "attach" /\ phase' \in {"attach", "symbols"}
           \/ phase = "crawl" /\ phase' = "release"
        /\ threadAt' \in {threadAt, threadAt + 1}
        /\ UNCHANGED <<thePid, threadsFound, pids, attached, allSyms, stopped, misled>>
    BY <1>8 DEF SkipNone, AttachEnd, CrawlEnd, threads
  <2>2. Detached' = Detached
    BY <2>1 DEF Detached
  <2>3. PsTypeOK' /\ threadAt' >= 1
    BY <1>0, <2>1 DEF PsTypeOK, StoppedIsKnown
  <2>4. StoppedIsKnown'
    BY <1>0, <2>1, <2>2, <2>3 DEF StoppedIsKnown
  <2> QED BY <1>0, <2>1, <2>3, <2>4 DEF PsInv, OwnSymbols
<1>9. CASE Crawl
  <2>1. /\ phase = "crawl" /\ threadAt <= (IF threadsFound THEN Len(pids) ELSE 1)
        /\ misled' = (misled \/ /\ threadsFound => attached[threadAt]
                                /\ Crawled \notin stopped \/ \E s \in allSyms : s.of # thePid)
        /\ threadAt' = threadAt + 1
        /\ UNCHANGED <<phase, thePid, threadsFound, pids, attached, allSyms, stopped, endedIn>>
    BY <1>9 DEF Crawl, threads
  <2>2. threadAt >= 1 /\ threadAt \in Nat
    BY <1>0, <2>1 DEF StoppedIsKnown, PsTypeOK
  <2>3. ~\E s \in allSyms : s.of # thePid
    BY <1>0, <2>1 DEF OwnSymbols
  <2>4. (threadsFound => attached[threadAt]) => Crawled \in stopped
    <3>1. CASE threadsFound
      <4>1. threadAt \in 1..Len(pids)
        BY <1>0, <2>1, <2>2, <3>1 DEF PsTypeOK
      <4> QED BY <1>0, <2>1, <3>1, <4>1 DEF StoppedIsKnown, Crawled
    <3>2. CASE ~threadsFound
      BY <1>0, <2>1, <3>2 DEF StoppedIsKnown, Crawled
    <3> QED BY <3>1, <3>2
  <2>5. ~misled'
    BY <1>0, <2>1, <2>3, <2>4 DEF OwnSymbols
  <2>6. Detached' = Detached
    BY <2>1 DEF Detached
  <2>7. PsTypeOK' /\ threadAt' >= 1
    BY <1>0, <2>1, <2>2 DEF PsTypeOK
  <2>8. StoppedIsKnown'
    BY <1>0, <2>1, <2>6, <2>7 DEF StoppedIsKnown
  <2> QED BY <1>0, <2>1, <2>5, <2>7, <2>8 DEF PsInv, OwnSymbols
<1>10. CASE Release
  <2>1. /\ phase = "release" /\ phase' = "reset" /\ stopped' = stopped \ Detached
        /\ UNCHANGED <<thePid, threadsFound, pids, attached, threadAt, allSyms, misled>>
    BY <1>10 DEF Release, threads
  <2>2. stopped' = {}
    BY <1>0, <2>1 DEF StoppedIsKnown
  <2>3. PsTypeOK'
    BY <1>0, <2>1 DEF PsTypeOK
  <2> QED BY <1>0, <2>1, <2>2, <2>3 DEF PsInv, StoppedIsKnown, OwnSymbols
<1>11. CASE Reset
  <2>1. /\ phase = "reset" /\ phase' = "main" /\ threadsFound' = FALSE
        /\ pids' = <<>> /\ attached' = <<>> /\ allSyms' = {}
        /\ UNCHANGED <<thePid, threadAt, stopped, misled>>
    BY <1>11 DEF Reset
  <2>2. <<>> \in Seq(Nat) /\ <<>> \in [1..Len(<<>>) -> BOOLEAN]
    OBVIOUS
  <2>3. PsTypeOK'
    BY <1>0, <2>1, <2>2 DEF PsTypeOK
  <2> QED BY <1>0, <2>1, <2>3 DEF PsInv, StoppedIsKnown, OwnSymbols
<1>12. CASE UNCHANGED psVars
  <2>1. Detached' = Detached
    BY <1>12 DEF psVars, Detached
  <2> QED BY <1>0, <1>12, <2>1 DEF psVars, PsInv, PsTypeOK, StoppedIsKnown, OwnSymbols
<1> QED
  BY <1>1, <1>2, <1>3, <1>4, <1>5, <1>6, <1>7, <1>8, <1>9, <1>10, <1>11, <1>12 DEF PsNext

\* PstackLetsGo: for any processes, threads and objects, a signal or an error at any
\* point, pstack leaves nothing stopped but the thread it had no record of yet, and
\* reads the stack of what stands still.
THEOREM PstackAlwaysLetsGo == PsSpec => []PstackLetsGo
<1>1. PsInit => PsInv
  BY PsInvInit
<1>2. PsInv /\ [PsNext]_psVars => PsInv'
  BY PsStep
<1>3. PsInv => PstackLetsGo
  BY DEF PsInv, StoppedIsKnown, OwnSymbols, PstackLetsGo
<1> QED BY <1>1, <1>2, <1>3, PTL DEF PsSpec

(***************************************************************************)
(* SnChannel, of a script that keeps the rules.                            *)
(***************************************************************************)

FragmentSet ==
  [FragmentFields \cup {"buffer"} -> BufferAt \cup {NULLPTR, UNSET, 0} \cup FieldValues]

ChanTypeOK ==
  /\ fragment \in [FragmentAt -> FragmentSet \cup {NULLPTR}]
  /\ memory \subseteq BufferAt
  /\ waitlist \in [Streams -> Seq(FragmentAt)]

\* No fragment is in the lists w twice.
Apart(w) ==
  \A s, r \in Streams : \A i \in 1..Len(w[s]), j \in 1..Len(w[r]) :
    w[s][i] = w[r][j] => s = r /\ i = j

\* Every fragment, queued or not, has a buffer of its own, or none, or what it was
\* made with; and a queued one not that.
OwnBuffers ==
  /\ \A a \in Made : fragment[a].buffer \in memory \cup {NULLPTR, UNSET}
  /\ \A a, b \in Made : fragment[a].buffer = fragment[b].buffer /\ fragment[a].buffer \in BufferAt
       => a = b

QueueLives ==
  \A s \in Streams : \A i \in 1..Len(waitlist[s]) :
    waitlist[s][i] \in Made /\ fragment[waitlist[s][i]].buffer # UNSET

ChanInv == ChanTypeOK /\ ~wild /\ Apart(waitlist) /\ OwnBuffers /\ QueueLives

LEMMA QueuedIs ==
  ASSUME ChanTypeOK
  PROVE  \A a : a \in Queued <=> \E s \in Streams : \E i \in 1..Len(waitlist[s]) : waitlist[s][i] = a
<1>1. \A s \in Streams : DOMAIN waitlist[s] = 1..Len(waitlist[s])
  <2>1. \A s \in Streams : waitlist[s] \in Seq(FragmentAt)
    BY DEF ChanTypeOK
  <2> QED BY <2>1
<1> QED BY <1>1 DEF Queued, Range

LEMMA QueuedFacts ==
  ASSUME ChanInv
  PROVE  /\ Queued \subseteq Made /\ Made \subseteq FragmentAt
         /\ \A a \in Queued : fragment[a].buffer \in memory \cup {NULLPTR}
<1>1. Queued \subseteq Made
  BY QueuedIs DEF ChanInv, QueueLives
<1> QED BY <1>1, QueuedIs DEF ChanInv, QueueLives, OwnBuffers, Made

\* The engine deletes fragments of the lists and takes them off.
LEMMA UnqueuedKeeps ==
  ASSUME ChanInv, NEW as \in SUBSET Queued, Unqueued(as),
         waitlist' \in [Streams -> Seq(FragmentAt)], Apart(waitlist'),
         \A s \in Streams : \A i \in 1..Len(waitlist'[s]) : waitlist'[s][i] \in Queued \ as
  PROVE  ChanInv'
<1>0. /\ ChanTypeOK /\ OwnBuffers /\ QueueLives /\ as \subseteq Made /\ as \cap Made = as
      /\ \A a \in as : fragment[a].buffer \in memory \cup {NULLPTR}
  BY QueuedFacts DEF ChanInv
<1>1. BuffersOf(as) \subseteq memory
  BY <1>0 DEF BuffersOf
<1>2. /\ wild' = (wild \/ ~(as \subseteq Made) \/ ~(BuffersOf(as \cap Made) \subseteq memory))
      /\ fragment' = [a \in FragmentAt |-> IF a \in as THEN NULLPTR ELSE fragment[a]]
      /\ memory' = memory \ BuffersOf(as)
  BY <1>0 DEF Unqueued
<1>3. ~wild'
  BY <1>0, <1>1, <1>2 DEF ChanInv
<1>4. /\ Made' = Made \ as
      /\ \A a \in Made' : fragment'[a] = fragment[a]
  BY <1>0, <1>2 DEF Made
<1>5. ASSUME NEW a \in Made' PROVE fragment[a].buffer \notin BuffersOf(as)
  <2>1. SUFFICES ASSUME NEW b \in as, fragment[a].buffer = fragment[b].buffer,
                        fragment[b].buffer # NULLPTR
                 PROVE  FALSE
    BY DEF BuffersOf
  <2>2. fragment[a].buffer \in BufferAt
    BY <1>0, <2>1 DEF ChanTypeOK
  <2> QED BY <1>0, <1>4, <2>1, <2>2 DEF OwnBuffers
<1>6. ChanTypeOK'
  BY <1>0, <1>2 DEF ChanTypeOK
<1>7. OwnBuffers'
  <2>1. \A a \in Made' : fragment'[a].buffer = fragment[a].buffer
    BY <1>4
  <2>2. ASSUME NEW a \in Made' PROVE fragment'[a].buffer \in memory' \cup {NULLPTR, UNSET}
    <3>1. a \in Made
      BY <1>4
    <3>2. fragment[a].buffer \in memory \cup {NULLPTR, UNSET}
      BY <1>0, <3>1 DEF OwnBuffers
    <3>3. memory' = memory \ BuffersOf(as)
      BY <1>2
    <3>4. fragment[a].buffer \notin BuffersOf(as)
      BY <1>5
    <3> QED BY <2>1, <3>2, <3>3, <3>4
  <2>3. ASSUME NEW a \in Made', NEW b \in Made', fragment'[a].buffer = fragment'[b].buffer,
               fragment'[a].buffer \in BufferAt
        PROVE  a = b
    <3>1. a \in Made /\ b \in Made
      BY <1>4
    <3>2. fragment[a].buffer = fragment[b].buffer /\ fragment[a].buffer \in BufferAt
      BY <2>1, <2>3
    <3> QED BY <1>0, <3>1, <3>2 DEF OwnBuffers
  <2> QED BY <2>2, <2>3 DEF OwnBuffers
<1>8. QueueLives'
  <2>1. ASSUME NEW s \in Streams, NEW i \in 1..Len(waitlist'[s])
        PROVE  waitlist'[s][i] \in Made' /\ fragment'[waitlist'[s][i]].buffer # UNSET
    <3> DEFINE a == waitlist'[s][i]
    <3>1. a \in Queued /\ a \notin as /\ a \in Made
      BY <1>0, QueuedFacts
    <3>2. a \in Made' /\ fragment'[a] = fragment[a]
      BY <1>4, <3>1
    <3>3. PICK r \in Streams : \E j \in 1..Len(waitlist[r]) : waitlist[r][j] = a
      BY <1>0, <3>1, QueuedIs
    <3>4. fragment[a].buffer # UNSET
      BY <1>0, <3>3 DEF QueueLives
    <3> QED BY <3>2, <3>4
  <2> QED BY <2>1 DEF QueueLives
<1> QED BY <1>3, <1>6, <1>7, <1>8 DEF ChanInv

\* A fragment whose buffer is set goes to the end of a list it is not in.
LEMMA AppendKeepsApart ==
  ASSUME ChanTypeOK, Apart(waitlist), NEW s \in Streams, NEW a \in FragmentAt, a \notin Queued,
         waitlist' = [waitlist EXCEPT ![s] = Append(@, a)]
  PROVE  /\ waitlist' \in [Streams -> Seq(FragmentAt)] /\ Apart(waitlist')
         /\ \A r \in Streams : \A i \in 1..Len(waitlist'[r]) :
              waitlist'[r][i] = a \/ (i \in 1..Len(waitlist[r]) /\ waitlist'[r][i] = waitlist[r][i])
<1>1. /\ waitlist[s] \in Seq(FragmentAt) /\ Len(waitlist[s]) \in Nat
      /\ \A r \in Streams : Len(waitlist[r]) \in Nat
  <2>1. \A r \in Streams : waitlist[r] \in Seq(FragmentAt)
    BY DEF ChanTypeOK
  <2> QED BY <2>1
<1>2. /\ Append(waitlist[s], a) \in Seq(FragmentAt)
      /\ Len(Append(waitlist[s], a)) = Len(waitlist[s]) + 1
      /\ \A i \in 1..Len(waitlist[s]) : Append(waitlist[s], a)[i] = waitlist[s][i]
      /\ Append(waitlist[s], a)[Len(waitlist[s]) + 1] = a
  BY <1>1, AppendProperties
<1>3. /\ waitlist' \in [Streams -> Seq(FragmentAt)]
      /\ waitlist'[s] = Append(waitlist[s], a)
      /\ \A r \in Streams : r # s => waitlist'[r] = waitlist[r]
  BY <1>2 DEF ChanTypeOK
<1>4. ASSUME NEW r \in Streams, NEW i \in 1..Len(waitlist'[r])
      PROVE  \/ r = s /\ i = Len(waitlist[s]) + 1 /\ waitlist'[r][i] = a
             \/ i \in 1..Len(waitlist[r]) /\ waitlist'[r][i] = waitlist[r][i]
  BY <1>1, <1>2, <1>3
<1>5. \A r \in Streams : \A i \in 1..Len(waitlist[r]) : waitlist[r][i] # a
  BY QueuedIs
<1>6. ASSUME NEW r \in Streams, NEW q \in Streams,
             NEW i \in 1..Len(waitlist'[r]), NEW j \in 1..Len(waitlist'[q]),
             waitlist'[r][i] = waitlist'[q][j]
      PROVE  r = q /\ i = j
  BY <1>4, <1>5, <1>6 DEF Apart
<1>7. Apart(waitlist')
  BY <1>6 DEF Apart
<1> QED BY <1>3, <1>4, <1>7

\* Nothing of what the channel owns changes.
LEMMA ChanRests ==
  ASSUME ChanInv, UNCHANGED <<fragment, memory, waitlist>>, ~wild'
  PROVE  ChanInv'
<1>1. Made' = Made
  BY DEF Made
<1> QED BY <1>1 DEF ChanInv, ChanTypeOK, Apart, OwnBuffers, QueueLives

\* A fragment gets another buffer, or another field.
LEMMA FragmentKeeps ==
  ASSUME ChanInv, NEW a \in Made, NEW new \in FragmentSet,
         fragment' = [fragment EXCEPT ![a] = new],
         UNCHANGED <<memory, waitlist, wild>>,
         new.buffer = fragment[a].buffer
           \/ new.buffer = NULLPTR
           \/ (new.buffer \in memory /\ \A b \in Made \ {a} : fragment[b].buffer # new.buffer)
  PROVE  ChanInv'
<1>0. ChanTypeOK /\ OwnBuffers /\ QueueLives /\ Apart(waitlist) /\ a \in FragmentAt /\ ~wild
  BY DEF ChanInv, Made
<1>1. /\ fragment' \in [FragmentAt -> FragmentSet \cup {NULLPTR}]
      /\ fragment'[a] = new /\ \A b \in FragmentAt : b # a => fragment'[b] = fragment[b]
  BY <1>0 DEF ChanTypeOK
<1>2. new # NULLPTR
  BY ChanAssumption DEF FragmentSet, FragmentFields
<1>3. Made' = Made
  BY <1>0, <1>1, <1>2 DEF Made
<1>4. ChanTypeOK'
  BY <1>0, <1>1 DEF ChanTypeOK
<1>5. \A b \in BufferAt : b # NULLPTR /\ b # UNSET
  BY ChanAssumption
<1>6. \A b \in Made : b \in FragmentAt /\ (b # a => fragment'[b] = fragment[b])
  BY <1>1 DEF Made
<1>7. \A b \in Made' : fragment'[b].buffer \in memory' \cup {NULLPTR, UNSET}
  BY <1>0, <1>1, <1>3, <1>6 DEF OwnBuffers
<1>8. ASSUME NEW b \in Made', NEW c \in Made', fragment'[b].buffer = fragment'[c].buffer,
             fragment'[b].buffer \in BufferAt
      PROVE  b = c
  BY <1>0, <1>1, <1>3, <1>5, <1>6, <1>8 DEF OwnBuffers
<1>9. OwnBuffers'
  BY <1>7, <1>8 DEF OwnBuffers
<1>10. QueueLives'
  <2>1. ASSUME NEW s \in Streams, NEW i \in 1..Len(waitlist[s])
        PROVE  waitlist[s][i] \in Made' /\ fragment'[waitlist[s][i]].buffer # UNSET
    <3>1. waitlist[s][i] \in Made /\ fragment[waitlist[s][i]].buffer # UNSET
      BY <1>0 DEF QueueLives
    <3>2. memory \subseteq BufferAt /\ NULLPTR # UNSET
      BY <1>0, ChanAssumption DEF ChanTypeOK
    <3> QED BY <1>1, <1>3, <1>5, <1>6, <3>1, <3>2
  <2> QED BY <2>1 DEF QueueLives
<1> QED BY <1>0, <1>4, <1>9, <1>10 DEF ChanInv, Apart

LEMMA NewFragment ==
  ASSUME NEW b \in BufferAt \cup {UNSET}, NEW v \in {0, UNSET}
  PROVE  FragmentOf(b, v) \in FragmentSet /\ FragmentOf(b, v).buffer = b
BY DEF FragmentOf, FragmentSet

\* A fragment is made, with a new buffer or without.
LEMMA MadeKeeps ==
  ASSUME ChanInv, NEW a \in FragmentAt \ Made, NEW new \in FragmentSet,
         fragment' = [fragment EXCEPT ![a] = new],
         \/ new.buffer = UNSET /\ memory' = memory
         \/ new.buffer \in BufferAt \ memory /\ memory' = memory \cup {new.buffer}
  PROVE  /\ fragment' \in [FragmentAt -> FragmentSet \cup {NULLPTR}] /\ memory' \subseteq BufferAt
         /\ Made' = Made \cup {a} /\ OwnBuffers' /\ fragment'[a] = new
         /\ \A b \in Made : fragment'[b] = fragment[b]
<1>0. ChanTypeOK /\ OwnBuffers
  BY DEF ChanInv
<1>1. /\ fragment' \in [FragmentAt -> FragmentSet \cup {NULLPTR}]
      /\ fragment'[a] = new /\ \A b \in FragmentAt : b # a => fragment'[b] = fragment[b]
  BY <1>0 DEF ChanTypeOK
<1>2. new # NULLPTR
  BY ChanAssumption DEF FragmentSet, FragmentFields
<1>3. Made' = Made \cup {a}
  BY <1>0, <1>1, <1>2 DEF Made
<1>4. \A b \in Made : b # a /\ fragment'[b] = fragment[b]
  BY <1>1 DEF Made
<1>5. memory \subseteq memory' /\ memory' \subseteq BufferAt /\ new.buffer \in memory' \cup {UNSET}
  BY <1>0 DEF ChanTypeOK
<1>6. \A b \in Made' : fragment'[b].buffer \in memory' \cup {NULLPTR, UNSET}
  BY <1>0, <1>1, <1>3, <1>4, <1>5 DEF OwnBuffers
<1>7. \A b \in Made : fragment[b].buffer = new.buffer => new.buffer \notin BufferAt
  BY <1>0, ChanAssumption DEF OwnBuffers
<1>8. ASSUME NEW b \in Made', NEW c \in Made', fragment'[b].buffer = fragment'[c].buffer,
             fragment'[b].buffer \in BufferAt
      PROVE  b = c
  <2>1. CASE b = a \/ c = a
    BY <1>1, <1>3, <1>4, <1>7, <1>8, <2>1
  <2>2. CASE b # a /\ c # a
    BY <1>0, <1>3, <1>4, <1>8, <2>2 DEF OwnBuffers
  <2> QED BY <2>1, <2>2
<1>9. OwnBuffers'
  BY <1>6, <1>8 DEF OwnBuffers
<1> QED BY <1>1, <1>3, <1>4, <1>5, <1>9

LEMMA ChanStep ==
  ASSUME Reckless = {}, ChanInv, [ChanNext]_chanVars
  PROVE  ChanInv'
<1>0. /\ ChanTypeOK /\ OwnBuffers /\ QueueLives /\ Apart(waitlist) /\ ~wild
      /\ Queued \subseteq Made /\ Made \subseteq FragmentAt
  BY QueuedFacts DEF ChanInv
<1>0a. \A s \in Streams : waitlist[s] \in Seq(FragmentAt)
  BY <1>0 DEF ChanTypeOK
<1>1. ASSUME NEW s \in Streams, Sent(s)
      PROVE  ChanInv'
  <2> DEFINE w == waitlist[s]
  <2>1. w \in Seq(FragmentAt) /\ w # <<>>
    BY <1>0a, <1>1 DEF Sent
  <2>2. Unqueued({Head(w)}) /\ waitlist' = [waitlist EXCEPT ![s] = Tail(w)]
    BY <1>1 DEF Sent
  <2>3. /\ Len(w) \in Nat /\ Len(w) > 0 /\ Head(w) = w[1]
        /\ Tail(w) \in Seq(FragmentAt) /\ Len(Tail(w)) = Len(w) - 1
        /\ \A i \in 1..Len(w) - 1 : Tail(w)[i] = w[i + 1]
    BY <2>1, HeadTailProperties, EmptySeq
  <2>4. /\ waitlist' \in [Streams -> Seq(FragmentAt)] /\ waitlist'[s] = Tail(w)
        /\ \A r \in Streams : r # s => waitlist'[r] = waitlist[r]
    BY <1>0, <2>2, <2>3 DEF ChanTypeOK
  <2>5. Head(w) \in Queued
    BY <1>0, <2>3, QueuedIs
  <2> DEFINE at(r, i) == IF r = s THEN i + 1 ELSE i
  <2>6. ASSUME NEW r \in Streams, NEW i \in 1..Len(waitlist'[r])
        PROVE  /\ at(r, i) \in 1..Len(waitlist[r]) /\ waitlist'[r][i] = waitlist[r][at(r, i)]
               /\ r = s => at(r, i) # 1
    BY <2>3, <2>4
  <2>7. ASSUME NEW r \in Streams, NEW q \in Streams,
               NEW i \in 1..Len(waitlist'[r]), NEW j \in 1..Len(waitlist'[q]),
               waitlist'[r][i] = waitlist'[q][j]
        PROVE  r = q /\ i = j
    <3>1. at(r, i) \in 1..Len(waitlist[r]) /\ waitlist'[r][i] = waitlist[r][at(r, i)]
      BY <2>6
    <3>2. at(q, j) \in 1..Len(waitlist[q]) /\ waitlist'[q][j] = waitlist[q][at(q, j)]
      BY <2>6
    <3>3. waitlist[r][at(r, i)] = waitlist[q][at(q, j)]
      BY <2>7, <3>1, <3>2
    <3>4. i \in Int /\ j \in Int
      OBVIOUS
    <3>5. r = q => (at(r, i) = at(q, j) => i = j)
      BY <3>4
    <3> HIDE DEF at
    <3>6. r = q /\ at(r, i) = at(q, j)
      BY <1>0, <3>1, <3>2, <3>3 DEF Apart
    <3> QED BY <3>5, <3>6
  <2>8. Apart(waitlist')
    BY <2>7 DEF Apart
  <2>9. ASSUME NEW r \in Streams, NEW i \in 1..Len(waitlist'[r])
        PROVE  waitlist'[r][i] \in Queued \ {Head(w)}
    <3>1. waitlist[r][at(r, i)] \in Queued
      BY <1>0, <2>6, QueuedIs
    <3>2. waitlist[r][at(r, i)] # waitlist[s][1]
      <4>1. 1 \in 1..Len(waitlist[s])
        BY <2>3
      <4> QED BY <1>0, <2>6, <4>1 DEF Apart
    <3> QED BY <2>3, <2>6, <3>1, <3>2
  <2> QED BY <2>2, <2>4, <2>5, <2>8, <2>9, UnqueuedKeeps
<1>2. ASSUME NEW gone \in BOOLEAN, Cleared(gone)
      PROVE  ChanInv'
  <2>1. Unqueued(Queued) /\ waitlist' = [s \in Streams |-> <<>>]
    BY <1>2 DEF Cleared
  <2>2. <<>> \in Seq(FragmentAt) /\ Len(<<>>) = 0
    OBVIOUS
  <2>3. waitlist' \in [Streams -> Seq(FragmentAt)] /\ \A s \in Streams : 1..Len(waitlist'[s]) = {}
    BY <2>1, <2>2
  <2>4. Apart(waitlist')
    BY <2>3 DEF Apart
  <2> QED BY <2>1, <2>3, <2>4, UnqueuedKeeps
<1>3. ASSUME NEW s \in Streams, NEW a \in FragmentAt, NEW b \in BufferAt, EngineQueues(s, a, b)
      PROVE  ChanInv'
  <2> DEFINE new == FragmentOf(b, 0)
  <2>1. /\ a \in FragmentAt \ Made /\ b \in BufferAt \ memory
        /\ fragment' = [fragment EXCEPT ![a] = new]
        /\ memory' = memory \cup {b}
        /\ waitlist' = [waitlist EXCEPT ![s] = Append(@, a)]
        /\ wild' = wild
    BY <1>3 DEF EngineQueues
  <2>2. new \in FragmentSet /\ new.buffer = b
    BY NewFragment
  <2> HIDE DEF new
  <2>3. /\ fragment' \in [FragmentAt -> FragmentSet \cup {NULLPTR}] /\ memory' \subseteq BufferAt
        /\ Made' = Made \cup {a} /\ OwnBuffers' /\ fragment'[a] = new
        /\ \A c \in Made : fragment'[c] = fragment[c]
    BY <2>1, <2>2, MadeKeeps
  <2>4. /\ waitlist' \in [Streams -> Seq(FragmentAt)] /\ Apart(waitlist')
        /\ \A r \in Streams : \A i \in 1..Len(waitlist'[r]) :
             waitlist'[r][i] = a \/ (i \in 1..Len(waitlist[r]) /\ waitlist'[r][i] = waitlist[r][i])
    BY <1>0, <2>1, AppendKeepsApart
  <2>5. b # UNSET
    BY ChanAssumption
  <2>6. QueueLives'
    <3>1. ASSUME NEW r \in Streams, NEW i \in 1..Len(waitlist'[r])
          PROVE  waitlist'[r][i] \in Made' /\ fragment'[waitlist'[r][i]].buffer # UNSET
      BY <1>0, <2>2, <2>3, <2>4, <2>5, <3>1 DEF QueueLives
    <3> QED BY <3>1 DEF QueueLives
  <2> QED BY <1>0, <2>1, <2>3, <2>4, <2>6 DEF ChanInv, ChanTypeOK
<1>4. ASSUME NEW s \in Indices, NEW a \in FragmentAt, QueueOutgoingFragments(s, a)
      PROVE  ChanInv'
  <2>1. /\ a \in Made /\ a \notin Queued /\ fragment[a].buffer # UNSET
        /\ UNCHANGED <<fragment, memory, netchan, wild>>
    BY <1>4 DEF QueueOutgoingFragments
  <2>2. CASE VerifyStream(s) /\ waitlist' = [waitlist EXCEPT ![s] = Append(@, a)]
    <3>1. s \in Streams
      BY <2>2, ChanAssumption DEF VerifyStream, Streams
    <3>2. /\ waitlist' \in [Streams -> Seq(FragmentAt)] /\ Apart(waitlist')
          /\ \A r \in Streams : \A i \in 1..Len(waitlist'[r]) :
               waitlist'[r][i] = a \/ (i \in 1..Len(waitlist[r]) /\ waitlist'[r][i] = waitlist[r][i])
      BY <1>0, <2>1, <2>2, <3>1, AppendKeepsApart
    <3>3. Made' = Made
      BY <2>1 DEF Made
    <3>4. OwnBuffers' /\ ChanTypeOK'
      BY <1>0, <2>1, <3>2, <3>3 DEF OwnBuffers, ChanTypeOK
    <3>5. QueueLives'
      <4>1. ASSUME NEW r \in Streams, NEW i \in 1..Len(waitlist'[r])
            PROVE  waitlist'[r][i] \in Made' /\ fragment'[waitlist'[r][i]].buffer # UNSET
        BY <1>0, <2>1, <3>2, <3>3, <4>1 DEF QueueLives
      <4> QED BY <4>1 DEF QueueLives
    <3> QED BY <1>0, <2>1, <3>2, <3>4, <3>5 DEF ChanInv
  <2>3. CASE waitlist' = waitlist
    BY <1>0, <2>1, <2>3, ChanRests
  <2> QED BY <1>4, <2>2, <2>3 DEF QueueOutgoingFragments
<1>5. ASSUME NEW s \in Indices, NEW i \in Indices, GetOutgoingQueueFragments(s, i)
      PROVE  ChanInv'
  <2>1. UNCHANGED <<fragment, memory, waitlist>>
    BY <1>5 DEF GetOutgoingQueueFragments
  <2>2. CASE VerifyStream(s) /\ VerifyOffset(waitlist[s], i)
    <3>1. s \in Streams /\ i \in Int
      BY <2>2, ChanAssumption DEF VerifyStream, Streams
    <3>2. i + 1 \in 1..Len(waitlist[s])
      BY <1>0a, <2>2, <3>1 DEF VerifyOffset
    <3>3. Element(waitlist[s], i) \in Made
      BY <1>0, <2>2, <3>1, <3>2 DEF Element, VerifyOffset, QueueLives
    <3> QED BY <1>0, <1>5, <2>1, <2>2, <3>3, ChanRests DEF GetOutgoingQueueFragments
  <2>3. CASE ~(VerifyStream(s) /\ VerifyOffset(waitlist[s], i))
    BY <1>0, <1>5, <2>1, <2>3, ChanRests DEF GetOutgoingQueueFragments
  <2> QED BY <2>2, <2>3
<1>6. ASSUME NEW a \in FragmentAt, NewFragments(a)
      PROVE  ChanInv'
  <2> DEFINE new == FragmentOf(UNSET, UNSET)
  <2>1. /\ a \in FragmentAt \ Made /\ fragment' = [fragment EXCEPT ![a] = new]
        /\ UNCHANGED <<memory, waitlist, wild>>
    BY <1>6 DEF NewFragments
  <2>2. new \in FragmentSet /\ new.buffer = UNSET
    BY NewFragment
  <2> HIDE DEF new
  <2>3. /\ fragment' \in [FragmentAt -> FragmentSet \cup {NULLPTR}] /\ memory' \subseteq BufferAt
        /\ Made' = Made \cup {a} /\ OwnBuffers' /\ fragment'[a] = new
        /\ \A c \in Made : fragment'[c] = fragment[c]
    BY <2>1, <2>2, MadeKeeps
  <2>4. QueueLives'
    BY <1>0, <2>1, <2>3 DEF QueueLives
  <2> QED BY <1>0, <2>1, <2>3, <2>4 DEF ChanInv, ChanTypeOK, Apart
<1>7. ASSUME NEW a \in FragmentAt, DeleteFragments(a)
      PROVE  ChanInv'
  <2>1. /\ a \in Made /\ a \notin Queued /\ fragment' = [fragment EXCEPT ![a] = NULLPTR]
        /\ UNCHANGED <<memory, waitlist, wild>>
    BY <1>7 DEF DeleteFragments
  <2>2. /\ fragment' \in [FragmentAt -> FragmentSet \cup {NULLPTR}]
        /\ Made' = Made \ {a} /\ \A b \in Made' : fragment'[b] = fragment[b]
    BY <1>0, <2>1 DEF ChanTypeOK, Made
  <2>3. OwnBuffers'
    BY <1>0, <2>1, <2>2 DEF OwnBuffers
  <2>4. QueueLives'
    <3>1. \A s \in Streams : \A i \in 1..Len(waitlist[s]) : waitlist[s][i] # a
      BY <1>0, <2>1, QueuedIs
    <3> QED BY <1>0, <2>1, <2>2, <3>1 DEF QueueLives
  <2> QED BY <1>0, <2>1, <2>2, <2>3, <2>4 DEF ChanInv, ChanTypeOK, Apart
<1>8. ASSUME NEW b \in BufferAt, NewBuffer(b) \/ DeleteBuffer(b)
      PROVE  ChanInv'
  <2>1. /\ UNCHANGED <<fragment, waitlist, wild>> /\ memory' \subseteq BufferAt
        /\ \/ memory \subseteq memory'
           \/ memory' = memory \ {b} /\ b \notin BuffersOf(Made)
    BY <1>0, <1>8 DEF NewBuffer, DeleteBuffer, ChanTypeOK
  <2>2. Made' = Made
    BY <2>1 DEF Made
  <2>3. b # NULLPTR
    BY ChanAssumption
  <2>4. b \notin BuffersOf(Made) => \A a \in Made : fragment[a].buffer # b
    BY <2>3 DEF BuffersOf
  <2>5. \A a \in Made : fragment[a].buffer \in memory' \cup {NULLPTR, UNSET}
    BY <1>0, <2>1, <2>4 DEF OwnBuffers
  <2>6. OwnBuffers'
    BY <1>0, <2>1, <2>2, <2>5 DEF OwnBuffers
  <2>7. QueueLives'
    BY <1>0, <2>1, <2>2 DEF QueueLives
  <2> QED BY <1>0, <2>1, <2>6, <2>7 DEF ChanInv, ChanTypeOK, Apart
<1>9. ASSUME NEW a \in FragmentAt, NEW arg \in BufferAt \cup {NULLPTR, "other"}, SetBuffer(a, arg)
      PROVE  ChanInv'
  <2>1. /\ a \in Made
        /\ arg \in BufferAt => arg \in memory /\ arg \notin BuffersOf(Made \ {a})
        /\ fragment' = IF arg = "other" THEN fragment ELSE [fragment EXCEPT ![a].buffer = arg]
        /\ UNCHANGED <<memory, waitlist, netchan, wild>>
    BY <1>9 DEF SetBuffer
  <2>2. CASE arg = "other"
    BY <1>0, <2>1, <2>2, ChanRests
  <2>3. CASE arg # "other"
    <3> DEFINE new == [fragment[a] EXCEPT !.buffer = arg]
    <3>1. fragment[a] \in FragmentSet
      BY <1>0, <2>1 DEF ChanTypeOK, Made
    <3>2. new \in FragmentSet /\ new.buffer = arg
      BY <2>3, <3>1 DEF FragmentSet
    <3>3. fragment' = [fragment EXCEPT ![a] = new]
      BY <2>1, <2>3
    <3>4. arg = NULLPTR \/ (arg \in memory /\ \A b \in Made \ {a} : fragment[b].buffer # arg)
      <4>1. arg \in BufferAt => arg # NULLPTR
        BY ChanAssumption
      <4> QED BY <2>1, <2>3, <4>1 DEF BuffersOf
    <3> HIDE DEF new
    <3> QED BY <2>1, <3>2, <3>3, <3>4, FragmentKeeps
  <2> QED BY <2>2, <2>3
<1>10. ASSUME NEW a \in FragmentAt, GetBuffer(a)
       PROVE  ChanInv'
  <2>1. /\ a \in Made
        /\ pushed' = IF fragment[a].buffer = NULLPTR THEN "nil" ELSE fragment[a].buffer
        /\ wild' = (wild \/ (pushed' \notin memory \cup {"nil", UNSET}))
        /\ UNCHANGED <<fragment, memory, waitlist>>
    BY <1>10 DEF GetBuffer
  <2>2. pushed' \in memory \cup {"nil", UNSET}
    BY <1>0, <2>1 DEF OwnBuffers
  <2> QED BY <1>0, <2>1, <2>2, ChanRests
<1>11. ASSUME NEW a \in FragmentAt, NEW v \in FieldValues, NEW f \in FragmentFields, a \in Made,
              fragment' = [fragment EXCEPT ![a][f] = v],
              UNCHANGED <<memory, waitlist, wild>>
       PROVE  ChanInv'
  <2> DEFINE new == [fragment[a] EXCEPT ![f] = v]
  <2>1. fragment[a] \in FragmentSet
    BY <1>0, <1>11 DEF ChanTypeOK, Made
  <2>2. f # "buffer"
    BY ChanAssumption DEF FragmentFields
  <2>3. new \in FragmentSet /\ new.buffer = fragment[a].buffer
    BY <2>1, <2>2 DEF FragmentSet
  <2>4. fragment' = [fragment EXCEPT ![a] = new]
    BY <1>11
  <2> HIDE DEF new
  <2> QED BY <1>11, <2>3, <2>4, FragmentKeeps
<1>12. ASSUME NEW a \in FragmentAt, NEW v \in FieldValues,
              FileField(a, v) \/ SizeField(a, v) \/ CountField(a, v)
       PROVE  ChanInv'
  <2>1. CASE Answers(a)
    BY <1>0, <2>1, ChanRests DEF Answers
  <2>2. ASSUME NEW fs \in SUBSET FragmentFields, FieldSet(a, fs, v)
        PROVE  ChanInv'
    BY <1>11, <2>2 DEF FieldSet
  <2>3. Answers(a) \/ \E fs \in SUBSET FragmentFields : FieldSet(a, fs, v)
    BY <1>12 DEF FileField, SizeField, CountField, FragmentFields
  <2> QED BY <2>1, <2>2, <2>3
<1>13. ASSUME UNCHANGED <<fragment, memory, waitlist, wild>>
       PROVE  ChanInv'
  BY <1>0, <1>13, ChanRests
<1>14. CASE Connected \/ GetPart \/ AskFlow \/ AskPacket \/ TellEngine \/ AskTime \/ AskMode
  BY <1>13, <1>14
     DEF Connected, GetPart, AskFlow, AskPacket, TellEngine, AskTime, AskMode, Pushes
<1>15. ASSUME NEW s \in Indices, GetOutgoingQueueSize(s) \/ AskSub(s)
       PROVE  ChanInv'
  BY <1>13, <1>15 DEF GetOutgoingQueueSize, AskSub, Pushes
<1>16. ASSUME NEW v \in FieldValues,
              SetTime(v) \/ SetMode(v) \/ \E s \in Indices : SetSub(s, v)
       PROVE  ChanInv'
  BY <1>13, <1>16 DEF SetTime, SetMode, SetSub, Sets, Pushes
<1>17. CASE UNCHANGED chanVars
  BY <1>13, <1>17 DEF chanVars
<1> QED
  BY <1>1, <1>2, <1>3, <1>4, <1>5, <1>6, <1>7, <1>8, <1>9, <1>10, <1>12, <1>14, <1>15, <1>16,
     <1>17 DEF ChanNext

\* A sequence without repetitions has as many elements as it is long.
LEMMA RangeCounts ==
  ASSUME NEW S, NEW w \in Seq(S), \A i, j \in 1..Len(w) : w[i] = w[j] => i = j
  PROVE  IsFiniteSet(Range(w)) /\ Cardinality(Range(w)) = Len(w)
<1>1. Len(w) \in Nat /\ DOMAIN w = 1..Len(w) /\ Range(w) = {w[i] : i \in 1..Len(w)}
  BY DEF Range
<1>2. IsFiniteSet(1..Len(w)) /\ Cardinality(1..Len(w)) = Len(w)
  BY <1>1, FS_Interval
<1> DEFINE f == [i \in 1..Len(w) |-> w[i]]
<1>3. f \in [1..Len(w) -> Range(w)] /\ \A i \in 1..Len(w) : f[i] = w[i]
  BY <1>1
<1> HIDE DEF f
<1>4. \A t \in Range(w) : \E i \in 1..Len(w) : f[i] = t
  BY <1>1, <1>3
<1>5. f \in Surjection(1..Len(w), Range(w))
  BY <1>3, <1>4 DEF Surjection
<1>6. \A i, j \in 1..Len(w) : f[i] = f[j] => i = j
  BY <1>3
<1>7. f \in Injection(1..Len(w), Range(w))
  BY <1>3, <1>6 DEF Injection, IsInjective
<1> QED BY <1>2, <1>5, <1>7, FS_Surjection

\* ChannelOwnsItsQueue: for any fragments, buffers, fields and length of the lists, of
\* a script that keeps to the rules the calls do not check.
THEOREM ChannelOwns ==
  ASSUME Reckless = {}
  PROVE  ChanSpec => []ChannelOwnsItsQueue
<1>1. ChanInit => ChanInv
  <2>1. SUFFICES ASSUME ChanInit PROVE ChanInv
    OBVIOUS
  <2>2. /\ fragment = [a \in FragmentAt |-> NULLPTR] /\ memory = {} /\ wild = FALSE
        /\ waitlist = [s \in Streams |-> <<>>]
    BY <2>1 DEF ChanInit
  <2>3. <<>> \in Seq(FragmentAt) /\ Len(<<>>) = 0
    OBVIOUS
  <2>4. Made = {} /\ \A s \in Streams : 1..Len(waitlist[s]) = {}
    BY <2>2, <2>3 DEF Made
  <2>5. ChanTypeOK
    BY <2>2, <2>3 DEF ChanTypeOK
  <2> QED BY <2>2, <2>4, <2>5 DEF ChanInv, Apart, OwnBuffers, QueueLives
<1>2. ChanInv /\ [ChanNext]_chanVars => ChanInv'
  BY ChanStep
<1>3. ChanInv => ChannelOwnsItsQueue
  <2>1. SUFFICES ASSUME ChanInv PROVE ChannelOwnsItsQueue
    OBVIOUS
  <2>2. /\ Queued \subseteq Made /\ \A a \in Queued : fragment[a].buffer \in memory \cup {NULLPTR}
    BY <2>1, QueuedFacts
  <2>3. \A a, b \in Queued : a # b /\ fragment[a].buffer = fragment[b].buffer
          => fragment[a].buffer = NULLPTR
    BY <2>1, <2>2 DEF ChanInv, ChanTypeOK, OwnBuffers
  <2>4. Cardinality(Queued) = Len(waitlist[0]) + Len(waitlist[1])
    <3>1. Streams = {0, 1}
      BY ChanAssumption DEF Streams
    <3>2. Queued = Range(waitlist[0]) \cup Range(waitlist[1])
      BY <3>1 DEF Queued
    <3>3. waitlist[0] \in Seq(FragmentAt) /\ waitlist[1] \in Seq(FragmentAt)
      BY <2>1, <3>1 DEF ChanInv, ChanTypeOK
    <3>4. \A s \in {0, 1} : \A i, j \in 1..Len(waitlist[s]) : waitlist[s][i] = waitlist[s][j] => i = j
      BY <2>1, <3>1 DEF ChanInv, Apart
    <3>5. /\ IsFiniteSet(Range(waitlist[0])) /\ Cardinality(Range(waitlist[0])) = Len(waitlist[0])
          /\ IsFiniteSet(Range(waitlist[1])) /\ Cardinality(Range(waitlist[1])) = Len(waitlist[1])
      BY <3>3, <3>4, RangeCounts
    <3>6. Range(waitlist[0]) \cap Range(waitlist[1]) = {}
      <4>1. /\ Range(waitlist[0]) = {waitlist[0][i] : i \in 1..Len(waitlist[0])}
            /\ Range(waitlist[1]) = {waitlist[1][i] : i \in 1..Len(waitlist[1])}
        BY <3>3 DEF Range
      <4> QED BY <2>1, <3>1, <4>1 DEF ChanInv, Apart
    <3>7. Cardinality({}) = 0
      BY FS_EmptySet
    <3>8. Len(waitlist[0]) \in Nat /\ Len(waitlist[1]) \in Nat
      BY <3>3
    <3>9. Cardinality(Queued) = Cardinality(Range(waitlist[0])) + Cardinality(Range(waitlist[1]))
                                - Cardinality(Range(waitlist[0]) \cap Range(waitlist[1]))
      BY <3>2, <3>5, FS_Union
    <3>10. Cardinality(Queued) = Len(waitlist[0]) + Len(waitlist[1]) - 0
      BY <3>5, <3>6, <3>7, <3>9
    <3> QED BY <3>8, <3>10
  <2> QED BY <2>1, <2>2, <2>3, <2>4 DEF ChanInv, ChannelOwnsItsQueue
<1> QED BY <1>1, <1>2, <1>3, PTL DEF ChanSpec

(***************************************************************************)
(* KdTree.  Squares and distances first, then the tree as the insertions   *)
(* leave it, the two queries, and that the tree is a set of points.        *)
(***************************************************************************)

\* The partial sums of SumSq.
LEMMA SumSqEq ==
  ASSUME NEW v \in [Dims -> Int]
  PROVE  \E sum \in [Nat -> Nat] :
           /\ sum[0] = 0 /\ SumSq(v) = sum[Dim]
           /\ \A i \in Dims : sum[i] = sum[i - 1] + v[i] * v[i]
<1> DEFINE Sums(f) == f = [i \in 0 .. Dim |-> IF i = 0 THEN 0 ELSE f[i - 1] + v[i] * v[i]]
           sum == CHOOSE f : Sums(f)
           step == [n \in Nat |-> [x \in Nat |-> IF n + 1 \in Dims THEN x + v[n + 1] * v[n + 1] ELSE x]]
<1>1. SumSq(v) = sum[Dim]
  BY DEF SumSq
<1>d. Dim \in Nat \ {0}
  BY KdTreeAssumption
<1>2. step \in [Nat -> [Nat -> Nat]]
  <2>1. \A i \in Dims : v[i] * v[i] \in Nat
    BY DEF Dims
  <2> QED BY <2>1
<1>3. PICK g : MadeFrom(g, Nat, 0, step)
  <2> HIDE DEF step
  <2> QED BY <1>2, PrimRec
<1>4. /\ g \in [Nat -> Nat] /\ g[0] = 0
      /\ \A n \in Nat : g[n + 1] = step[n][g[n]]
  BY <1>3 DEF MadeFrom
<1>5. \A i \in Dims : g[i] = g[i - 1] + v[i] * v[i]
  <2> SUFFICES ASSUME NEW i \in Dims PROVE g[i] = g[i - 1] + v[i] * v[i]
    OBVIOUS
  <2>1. i - 1 \in Nat /\ (i - 1) + 1 = i
    BY <1>d DEF Dims
  <2>2. g[i] = step[i - 1][g[i - 1]] /\ g[i - 1] \in Nat
    BY <1>4, <2>1
  <2> QED BY <2>1, <2>2
<1> DEFINE h == [i \in 0 .. Dim |-> g[i]]
<1>6. Sums(h)
  <2> SUFFICES ASSUME NEW i \in 0 .. Dim
               PROVE  h[i] = IF i = 0 THEN 0 ELSE h[i - 1] + v[i] * v[i]
    OBVIOUS
  <2>1. CASE i = 0
    BY <2>1, <1>4, <1>d
  <2>2. CASE i # 0
    <3>1. i \in Dims /\ i - 1 \in 0 .. Dim
      BY <2>2, <1>d DEF Dims
    <3> QED BY <2>2, <3>1, <1>5
  <2> QED BY <2>1, <2>2
<1>7. Sums(sum)
  <2> HIDE DEF h, Sums
  <2> QED BY <1>6
<1> HIDE DEF sum
<1>8. \A n \in Nat : n <= Dim => sum[n] = g[n]
  <2> DEFINE T == { n \in Nat : n <= Dim => sum[n] = g[n] }
  <2>1. 0 \in T
    BY <1>7, <1>4, <1>d
  <2>2. ASSUME NEW n \in Nat, n \in T PROVE n + 1 \in T
    <3> SUFFICES ASSUME n + 1 <= Dim PROVE sum[n + 1] = g[n + 1]
      OBVIOUS
    <3>1. n + 1 \in 0 .. Dim /\ n + 1 \in Dims /\ n + 1 # 0 /\ (n + 1) - 1 = n
      BY <1>d DEF Dims
    <3>2. sum[n + 1] = sum[n] + v[n + 1] * v[n + 1]
      BY <1>7, <3>1
    <3>3. sum[n] = g[n]
      BY <2>2, <1>d
    <3> QED BY <3>1, <3>2, <3>3, <1>5
  <2> HIDE DEF T
  <2>3. \A n \in Nat : n \in T
    BY <2>1, <2>2, NatInduct
  <2> QED BY <2>3 DEF T
<1> QED BY <1>1, <1>4, <1>5, <1>8, <1>d

\* Squares are not negative, and no greater than their sum.
LEMMA SumSqNat ==
  ASSUME NEW v \in [Dims -> Int]
  PROVE  SumSq(v) \in Nat /\ \A i \in Dims : v[i] * v[i] <= SumSq(v)
<1>1. PICK sum \in [Nat -> Nat] :
         /\ sum[0] = 0 /\ SumSq(v) = sum[Dim]
         /\ \A i \in Dims : sum[i] = sum[i - 1] + v[i] * v[i]
  BY SumSqEq
<1>d. Dim \in Nat \ {0}
  BY KdTreeAssumption
<1>2. ASSUME NEW i \in Dims PROVE v[i] * v[i] <= sum[Dim]
  <2> DEFINE T == { d \in Nat : i + d <= Dim => v[i] * v[i] <= sum[i + d] }
  <2>1. i \in Nat /\ i - 1 \in Nat /\ i <= Dim
    BY <1>d DEF Dims
  <2>2. 0 \in T
    <3>1. sum[i] = sum[i - 1] + v[i] * v[i] /\ sum[i - 1] \in Nat
      BY <1>1, <2>1
    <3> QED BY <3>1, <2>1
  <2>3. ASSUME NEW d \in Nat, d \in T PROVE d + 1 \in T
    <3> SUFFICES ASSUME i + (d + 1) <= Dim PROVE v[i] * v[i] <= sum[i + (d + 1)]
      OBVIOUS
    <3>1. i + (d + 1) \in Dims /\ (i + (d + 1)) - 1 = i + d /\ i + d \in Nat /\ i + d <= Dim
      BY <2>1, <1>d DEF Dims
    <3>2. /\ sum[i + (d + 1)] = sum[i + d] + v[i + (d + 1)] * v[i + (d + 1)]
          /\ sum[i + d] \in Nat /\ v[i + (d + 1)] \in Int
      BY <3>1, <1>1
    <3>3. v[i] * v[i] <= sum[i + d] /\ v[i] * v[i] \in Int
      BY <2>3, <3>1
    <3>4. \A x \in Int : x * x >= 0 /\ x * x \in Int
      OBVIOUS
    <3> QED BY <3>2, <3>3, <3>4
  <2> HIDE DEF T
  <2>4. Dim - i \in T
    <3>1. \A d \in Nat : d \in T
      BY <2>2, <2>3, NatInduct
    <3> QED BY <3>1, <2>1, <1>d
  <2> QED BY <2>4, <2>1, <1>d DEF T
<1> QED BY <1>1, <1>2, <1>d

\* The sum grows with the squares.
LEMMA SumSqMono ==
  ASSUME NEW v \in [Dims -> Int], NEW w \in [Dims -> Int],
         \A i \in Dims : v[i] * v[i] <= w[i] * w[i]
  PROVE  SumSq(v) <= SumSq(w)
<1>1. PICK s \in [Nat -> Nat] :
         /\ s[0] = 0 /\ SumSq(v) = s[Dim]
         /\ \A i \in Dims : s[i] = s[i - 1] + v[i] * v[i]
  BY SumSqEq
<1>2. PICK t \in [Nat -> Nat] :
         /\ t[0] = 0 /\ SumSq(w) = t[Dim]
         /\ \A i \in Dims : t[i] = t[i - 1] + w[i] * w[i]
  BY SumSqEq
<1>d. Dim \in Nat \ {0}
  BY KdTreeAssumption
<1> DEFINE T == { n \in Nat : n <= Dim => s[n] <= t[n] }
<1>3. 0 \in T
  BY <1>1, <1>2
<1>4. ASSUME NEW n \in Nat, n \in T PROVE n + 1 \in T
  <2> SUFFICES ASSUME n + 1 <= Dim PROVE s[n + 1] <= t[n + 1]
    OBVIOUS
  <2>1. n + 1 \in Dims /\ (n + 1) - 1 = n /\ n <= Dim
    BY <1>d DEF Dims
  <2>2. s[n + 1] = s[n] + v[n + 1] * v[n + 1] /\ t[n + 1] = t[n] + w[n + 1] * w[n + 1]
    BY <2>1, <1>1, <1>2
  <2>3. s[n] <= t[n] /\ s[n] \in Nat /\ t[n] \in Nat
    BY <1>4, <2>1
  <2>4. v[n + 1] * v[n + 1] \in Int /\ w[n + 1] * w[n + 1] \in Int
    BY <2>1
  <2>5. v[n + 1] * v[n + 1] <= w[n + 1] * w[n + 1]
    BY <2>1
  <2> QED BY <2>2, <2>3, <2>4, <2>5
<1> HIDE DEF T
<1>5. Dim \in T
  <2>1. \A n \in Nat : n \in T
    BY <1>3, <1>4, NatInduct
  <2> QED BY <2>1, <1>d
<1> QED BY <1>1, <1>2, <1>5, <1>d DEF T

\* A distance is a natural number and no less than it is along one dimension.
LEMMA DistFacts ==
  ASSUME NEW p \in [Dims -> Int], NEW q \in [Dims -> Int]
  PROVE  /\ DistSq(p, q) \in Nat
         /\ \A i \in Dims : (p[i] - q[i]) * (p[i] - q[i]) <= DistSq(p, q)
<1> DEFINE v == [i \in Dims |-> p[i] - q[i]]
<1>1. v \in [Dims -> Int] /\ \A i \in Dims : v[i] = p[i] - q[i]
  OBVIOUS
<1> HIDE DEF v
<1>2. SumSq(v) \in Nat /\ \A i \in Dims : v[i] * v[i] <= SumSq(v)
  BY <1>1, SumSqNat
<1>3. DistSq(p, q) = SumSq(v)
  BY DEF DistSq, v
<1> QED BY <1>1, <1>2, <1>3

\* A point of a box is no closer than the box.
InBox(p, box) == \A i \in Dims : box.min[i] <= p[i] /\ p[i] <= box.max[i]

LEMMA BoxFacts ==
  ASSUME NEW p \in [Dims -> Int], NEW q \in [Dims -> Int],
         NEW box, box.min \in [Dims -> Int], box.max \in [Dims -> Int], InBox(p, box)
  PROVE  BoxDistSq(box, q) <= DistSq(p, q) /\ BoxDistSq(box, q) \in Nat
<1> DEFINE v == [i \in Dims |-> p[i] - q[i]]
           b == [i \in Dims |-> IF q[i] < box.min[i] THEN box.min[i] - q[i]
                                ELSE IF q[i] > box.max[i] THEN box.max[i] - q[i] ELSE 0]
<1>1. v \in [Dims -> Int] /\ b \in [Dims -> Int]
  OBVIOUS
<1>2. ASSUME NEW i \in Dims PROVE b[i] * b[i] <= v[i] * v[i]
  <2>1. p[i] \in Int /\ q[i] \in Int /\ box.min[i] \in Int /\ box.max[i] \in Int
    OBVIOUS
  <2>2. box.min[i] <= p[i] /\ p[i] <= box.max[i]
    BY DEF InBox
  <2>3. \A x, y \in Int : (0 <= x /\ x <= y) => x * x <= y * y
    OBVIOUS
  <2>4. \A x, y \in Int : (y <= x /\ x <= 0) => x * x <= y * y
    OBVIOUS
  <2>5. v[i] \in Int /\ b[i] \in Int /\ v[i] = p[i] - q[i]
    OBVIOUS
  <2>6. (0 <= b[i] /\ b[i] <= v[i]) \/ (v[i] <= b[i] /\ b[i] <= 0) \/ b[i] = 0
    BY <2>1, <2>2
  <2>7. v[i] * v[i] >= 0
    <3>1. \A x \in Int : x * x >= 0
      OBVIOUS
    <3> QED BY <3>1, <2>5
  <2> HIDE DEF v, b
  <2> QED BY <2>3, <2>4, <2>5, <2>6, <2>7
<1>3. BoxDistSq(box, q) = SumSq(b) /\ DistSq(p, q) = SumSq(v)
  BY DEF BoxDistSq, DistSq
<1> HIDE DEF v, b
<1> QED BY <1>1, <1>2, <1>3, SumSqMono, SumSqNat

(***************************************************************************)
(* The tree.                                                               *)
(***************************************************************************)

\* below[n] is the subtree of n: of every node the points on a side of it are on
\* that side, and every node is below the root.
IsBelow(below) ==
  /\ below \in [DOMAIN pos -> SUBSET DOMAIN pos]
  /\ \A n \in DOMAIN pos : n \in below[n] /\ 1 \in DOMAIN pos /\ n \in below[1]
  /\ \A n \in DOMAIN pos, m \in DOMAIN pos : m \in below[n] =>
       /\ n <= m /\ below[m] \subseteq below[n]
       /\ m # n => \E side \in Sides : child[n][side] # 0 /\ m \in below[child[n][side]]
  /\ \A n \in DOMAIN pos, side \in Sides : child[n][side] # 0 =>
       /\ n < child[n][side] /\ below[child[n][side]] \subseteq below[n]
       /\ \A m \in below[child[n][side]] : SideOf(n, pos[m]) = side

\* The tree: some assignment of subtrees fits it, and its box has every point.
KdInv ==
  /\ TypeOK
  /\ \E below : IsBelow(below)
  /\ pos # <<>> => rect \in Boxes /\ \A n \in DOMAIN pos : InBox(pos[n], rect)

\* What the type invariant says of the parts of a node.
LEMMA KdTypes ==
  ASSUME TypeOK
  PROVE  /\ Dims = 1 .. Dim /\ Dim \in Nat \ {0}
         /\ Len(pos) \in Nat /\ DOMAIN pos = 1 .. Len(pos)
         /\ pos \in Seq(Points) /\ Points \subseteq [Dims -> Int]
         /\ dir \in [DOMAIN pos -> Dims]
         /\ \A n \in DOMAIN pos : pos[n] \in Points /\ pos[n] \in [Dims -> Int] /\ dir[n] \in Dims
         /\ \A n \in DOMAIN pos, side \in Sides : child[n][side] \in 0 .. Len(pos)
         /\ \A n \in DOMAIN pos, p \in Points : SideOf(n, p) \in Sides
BY KdTreeAssumption DEF TypeOK, Dims, SideOf, Sides

\* Slot finds a free place, and the new point is on its side of every node above.
LEMMA SlotFacts ==
  ASSUME TypeOK, NEW below, IsBelow(below), pos # <<>>, NEW p \in Points
  PROVE  \E s \in DOMAIN pos :
           /\ Slot(p) = <<s, SideOf(s, p)>> /\ child[s][SideOf(s, p)] = 0
           /\ \A n \in DOMAIN pos, side \in Sides :
                child[n][side] # 0 /\ s \in below[child[n][side]] => SideOf(n, p) = side
<1>t. /\ Len(pos) \in Nat /\ DOMAIN pos = 1 .. Len(pos)
      /\ \A n \in DOMAIN pos : SideOf(n, p) \in Sides
      /\ \A n \in DOMAIN pos, side \in Sides : child[n][side] \in 0 .. Len(pos)
  BY KdTypes
<1> DEFINE N == Len(pos)
           V == (DOMAIN pos) \X Sides
           Slots(f) == f = [n \in DOMAIN pos |->
                         LET next == child[n][SideOf(n, p)]
                         IN  IF next = 0 THEN <<n, SideOf(n, p)>> ELSE f[next]]
           G == [n \in 0 .. N |-> [g \in [0 .. N -> V] |->
                  IF n = 0 THEN <<1, "left">>
                  ELSE IF child[n][SideOf(n, p)] = 0 THEN <<n, SideOf(n, p)>>
                  ELSE g[child[n][SideOf(n, p)]]]]
<1>1. 1 \in DOMAIN pos
  BY <1>t
<1>v. "left" \in Sides /\ \A n \in DOMAIN pos, side \in Sides : <<n, side>> \in V
  <2>1. "left" \in Sides
    BY DEF Sides
  <2>2. \A n \in DOMAIN pos, side \in Sides : <<n, side>> \in V
    OBVIOUS
  <2> QED BY <2>1, <2>2
<1>2. \A n \in 0 .. N : n # 0 =>
        /\ n \in DOMAIN pos /\ child[n][SideOf(n, p)] \in 0 .. N
        /\ child[n][SideOf(n, p)] # 0 => n < child[n][SideOf(n, p)]
  BY <1>t DEF IsBelow
<1>3. G \in [0 .. N -> [[0 .. N -> V] -> V]]
  <2> SUFFICES ASSUME NEW n \in 0 .. N, NEW g \in [0 .. N -> V]
               PROVE  (IF n = 0 THEN <<1, "left">>
                       ELSE IF child[n][SideOf(n, p)] = 0 THEN <<n, SideOf(n, p)>>
                       ELSE g[child[n][SideOf(n, p)]]) \in V
    OBVIOUS
  <2> HIDE DEF V
  <2>1. <<1, "left">> \in V
    BY <1>1, <1>v
  <2>2. ASSUME n # 0 PROVE <<n, SideOf(n, p)>> \in V /\ g[child[n][SideOf(n, p)]] \in V
    BY <2>2, <1>2, <1>t, <1>v
  <2> QED BY <2>1, <2>2
<1>4. ASSUME NEW n \in 0 .. N, NEW g \in [0 .. N -> V], NEW h \in [0 .. N -> V],
             \A m \in Later(n, N) : g[m] = h[m]
      PROVE  G[n][g] = G[n][h]
  <2>1. n # 0 /\ child[n][SideOf(n, p)] # 0 => child[n][SideOf(n, p)] \in Later(n, N)
    BY <1>2 DEF Later
  <2> QED BY <2>1, <1>4
<1>5. \A n \in 0 .. N : \A g \in [0 .. N -> V] :
        G[n][g] = IF n = 0 THEN <<1, "left">>
                  ELSE IF child[n][SideOf(n, p)] = 0 THEN <<n, SideOf(n, p)>>
                  ELSE g[child[n][SideOf(n, p)]]
  OBVIOUS
<1>6. N \in Nat /\ V # {}
  <2> HIDE DEF V
  <2> QED BY <1>1, <1>t, <1>v
<1>7. PICK f : MadeOnTree(f, N, V, G)
  <2> HIDE DEF G, N, V
  <2> QED BY <1>3, <1>4, <1>6, TreeRec
<1>8. f \in [0 .. N -> V] /\ \A n \in 0 .. N : f[n] = G[n][f]
  BY <1>7 DEF MadeOnTree
<1> HIDE DEF G
<1> DEFINE fpos == [n \in DOMAIN pos |-> f[n]]
<1>9. Slots(fpos)
  <2> SUFFICES ASSUME NEW n \in DOMAIN pos
               PROVE  f[n] = LET next == child[n][SideOf(n, p)]
                             IN  IF next = 0 THEN <<n, SideOf(n, p)>> ELSE fpos[next]
    OBVIOUS
  <2>1. n \in 0 .. N /\ n # 0
    BY <1>t
  <2>2. f[n] = IF child[n][SideOf(n, p)] = 0 THEN <<n, SideOf(n, p)>>
               ELSE f[child[n][SideOf(n, p)]]
    BY <2>1, <1>5, <1>8
  <2>3. child[n][SideOf(n, p)] # 0 => child[n][SideOf(n, p)] \in DOMAIN pos
    BY <2>1, <1>2, <1>t
  <2> QED BY <2>2, <2>3
<1> DEFINE slot == CHOOSE g : Slots(g)
<1>10. Slots(slot) /\ Slot(p) = slot[1]
  <2>1. Slot(p) = slot[1]
    BY DEF Slot
  <2>2. \E g : Slots(g)
    BY <1>9
  <2> HIDE DEF Slots
  <2> QED BY <2>1, <2>2
<1>11. \A n \in DOMAIN pos :
         slot[n] = IF child[n][SideOf(n, p)] = 0 THEN <<n, SideOf(n, p)>>
                   ELSE slot[child[n][SideOf(n, p)]]
  <2> HIDE DEF slot
  <2> QED BY <1>10
<1> HIDE DEF slot
<1> DEFINE Fine(n, s) ==
             /\ slot[n] = <<s, SideOf(s, p)>> /\ child[s][SideOf(s, p)] = 0
             /\ s \in below[n]
             /\ \A a \in below[n], side \in Sides :
                  child[a][side] # 0 /\ s \in below[child[a][side]] => SideOf(a, p) = side
           T == {0} \cup { n \in DOMAIN pos : \E s \in DOMAIN pos : Fine(n, s) }
<1>12. ASSUME NEW n \in 1 .. N, \A m \in n + 1 .. N : m \in T PROVE n \in T
  <2>1. /\ n \in DOMAIN pos /\ SideOf(n, p) \in Sides
        /\ child[n][SideOf(n, p)] \in 0 .. N
    BY <1>t
  <2>2. CASE child[n][SideOf(n, p)] = 0
    <3>1. ASSUME NEW a \in below[n], NEW side \in Sides, child[a][side] # 0,
                 n \in below[child[a][side]]
          PROVE  FALSE
      <4>1. a \in DOMAIN pos /\ n <= a
        BY <2>1 DEF IsBelow
      <4>2. child[a][side] \in DOMAIN pos /\ a < child[a][side]
        BY <4>1, <3>1, <1>t DEF IsBelow
      <4>3. child[a][side] <= n
        BY <3>1, <4>2, <2>1 DEF IsBelow
      <4> QED BY <4>1, <4>2, <4>3, <1>t, <2>1
    <3>2. Fine(n, n)
      <4>1. slot[n] = <<n, SideOf(n, p)>> /\ n \in below[n]
        BY <2>1, <2>2, <1>11 DEF IsBelow
      <4> QED BY <4>1, <2>2, <3>1
    <3> QED BY <2>1, <3>2
  <2>3. CASE child[n][SideOf(n, p)] # 0
    <3> DEFINE c == child[n][SideOf(n, p)]
    <3>1. n < c /\ c \in DOMAIN pos /\ c \in T /\ c # 0 /\ below[c] \subseteq below[n]
      <4>1. n < c /\ below[c] \subseteq below[n]
        BY <2>1, <2>3 DEF IsBelow
      <4> HIDE DEF T, Fine
      <4>2. c \in n + 1 .. N /\ c \in DOMAIN pos /\ c # 0
        BY <4>1, <2>1, <2>3, <1>t
      <4> HIDE DEF c, N
      <4> QED BY <4>1, <4>2, <1>12
    <3>2. PICK s \in DOMAIN pos : Fine(c, s)
      BY <3>1
    <3>3. slot[n] = slot[c]
      BY <2>1, <2>3, <1>11
    <3>4. s \in below[c]
      BY <3>2
    <3>5. ASSUME NEW a \in below[n], NEW side \in Sides, child[a][side] # 0,
                 s \in below[child[a][side]]
          PROVE  SideOf(a, p) = side
      <4> DEFINE d == child[a][side]
      <4>1. a \in DOMAIN pos /\ d \in DOMAIN pos
        BY <2>1, <3>5, <1>t DEF IsBelow
      <4>2. CASE a = n
        <5>1. SideOf(n, pos[s]) = SideOf(n, p) /\ SideOf(a, pos[s]) = side
          BY <3>1, <3>4, <3>5, <2>1, <4>1 DEF IsBelow
        <5> QED BY <5>1, <4>2
      <4>3. CASE a # n
        <5>1. PICK other \in Sides : child[n][other] # 0 /\ a \in below[child[n][other]]
          BY <4>3, <4>1, <2>1 DEF IsBelow
        <5> DEFINE o == child[n][other]
        <5>2. o \in DOMAIN pos
          BY <5>1, <2>1, <1>t
        <5>3. s \in below[o]
          <6>1. below[a] \subseteq below[o] /\ below[d] \subseteq below[a]
            BY <5>1, <5>2, <4>1, <3>5 DEF IsBelow
          <6> QED BY <6>1, <3>5
        <5>4. SideOf(n, pos[s]) = other /\ SideOf(n, pos[s]) = SideOf(n, p)
          BY <5>1, <5>3, <3>1, <3>4, <2>1, <2>3 DEF IsBelow
        <5>5. a \in below[c]
          BY <5>1, <5>4
        <5> QED BY <3>2, <3>5, <5>5
      <4> QED BY <4>2, <4>3
    <3>6. Fine(n, s)
      <4> HIDE DEF c
      <4>1. /\ slot[n] = <<s, SideOf(s, p)>> /\ child[s][SideOf(s, p)] = 0
            /\ s \in below[n]
        BY <3>1, <3>2, <3>3
      <4> QED BY <4>1, <3>5
    <3> HIDE DEF Fine
    <3> QED BY <2>1, <3>6
  <2> QED BY <2>2, <2>3
<1>13. 1 \in T
  <2> HIDE DEF T
  <2>1. 0 \in T
    BY DEF T
  <2>2. \A n \in 0 .. N : n \in T
    BY <2>1, <1>6, <1>12, TreeInduct
  <2> QED BY <2>2, <1>1, <1>t
<1>14. PICK s \in DOMAIN pos : Fine(1, s)
  BY <1>13
<1>15. \A n \in DOMAIN pos : n \in below[1]
  BY DEF IsBelow
<1> QED BY <1>10, <1>14, <1>15

\* Append to a function of the first N numbers.
LEMMA AppendAt ==
  ASSUME NEW N \in Nat, NEW S, NEW f \in [1 .. N -> S], NEW e \in S
  PROVE  /\ Append(f, e) \in [1 .. N + 1 -> S]
         /\ \A i \in 1 .. N : Append(f, e)[i] = f[i]
         /\ Append(f, e)[N + 1] = e
<1>1. f \in Seq(S) /\ Len(f) = N
  OBVIOUS
<1>2. /\ Append(f, e) \in Seq(S) /\ Len(Append(f, e)) = N + 1
      /\ \A i \in 1 .. N : Append(f, e)[i] = f[i]
      /\ Append(f, e)[N + 1] = e
  BY <1>1, AppendProperties
<1> QED BY <1>2, LenProperties

\* A leaf has no children.
LEMMA LeafFacts == Leaf \in [Sides -> 0 .. 0] /\ \A side \in Sides : Leaf[side] = 0
BY DEF Leaf, Sides

\* The coordinates of a point, and the boxes they bound.
LEMMA BoxTypes ==
  ASSUME NEW box \in Boxes
  PROVE  /\ box.min \in [Dims -> Int] /\ box.max \in [Dims -> Int]
         /\ box.min \in Corner /\ box.max \in Corner
         /\ box = [min |-> box.min, max |-> box.max]
<1>1. \A p \in Points, i \in Dims : p[i] \in Int
  BY KdTreeAssumption DEF Dims
<1>2. Corner \subseteq [Dims -> Int]
  BY <1>1 DEF Corner
<1> QED BY <1>2 DEF Boxes

LEMMA PointIsCorner ==
  ASSUME NEW p \in Points
  PROVE  p \in Corner /\ p \in [Dims -> Int] /\ Rect(p, p) \in Boxes /\ InBox(p, Rect(p, p))
<1>1. p \in [Dims -> Int]
  BY KdTreeAssumption DEF Dims
<1>2. p \in Corner
  BY <1>1 DEF Corner
<1>3. \A i \in Dims : p[i] <= p[i]
  BY <1>1
<1> QED BY <1>1, <1>2, <1>3 DEF Boxes, Rect, InBox

\* The first point is the root.
LEMMA RootKeeps ==
  ASSUME KdInv, NEW p \in Points, InsertRoot(p)
  PROVE  KdInv'
<1>1. /\ pos' = <<p>> /\ dir' = <<1>> /\ child' = <<Leaf>>
      /\ rect' = Rect(p, p) /\ answer' = {}
  BY DEF InsertRoot
<1>2. DOMAIN pos' = {1} /\ Len(pos') = 1 /\ pos'[1] = p /\ pos' \in Seq(Points)
  BY <1>1
<1>3. 1 \in Dims
  BY KdTreeAssumption DEF Dims
<1>4. TypeOK'
  <2>1. dir' \in [{1} -> Dims]
    BY <1>1, <1>3
  <2>2. child' \in [{1} -> [Sides -> 0 .. 1]]
    <3>1. Leaf \in [Sides -> 0 .. 1]
      BY LeafFacts
    <3> QED BY <1>1, <3>1
  <2>3. rect' \in Boxes
    BY <1>1, PointIsCorner
  <2> QED BY <1>1, <1>2, <2>1, <2>2, <2>3 DEF TypeOK
<1> DEFINE below == [n \in {1} |-> {1}]
<1>5. IsBelow(below)'
  <2>1. \A side \in Sides : child'[1][side] = 0
    BY <1>1, LeafFacts
  <2> QED BY <1>2, <2>1 DEF IsBelow
<1>6. rect' \in Boxes /\ \A n \in DOMAIN pos' : InBox(pos'[n], rect')
  BY <1>1, <1>2, PointIsCorner
<1>7. (\E b : IsBelow(b))'
  BY <1>5
<1>8. (\A n \in DOMAIN pos : InBox(pos[n], rect))'
  BY <1>6 DEF InBox
<1> QED BY <1>4, <1>6, <1>7, <1>8 DEF KdInv

\* A box extended by a point has it and what it had.
LEMMA ExtendFacts ==
  ASSUME rect \in Boxes, NEW p \in Points
  PROVE  /\ Extend(p) \in Boxes /\ InBox(p, Extend(p))
         /\ \A x \in [Dims -> Int] : InBox(x, rect) => InBox(x, Extend(p))
<1> DEFINE lo == [i \in Dims |-> IF p[i] < rect.min[i] THEN p[i] ELSE rect.min[i]]
           hi == [i \in Dims |-> IF p[i] > rect.max[i] THEN p[i] ELSE rect.max[i]]
<1>1. /\ p \in Corner /\ p \in [Dims -> Int]
      /\ rect.min \in [Dims -> Int] /\ rect.max \in [Dims -> Int]
      /\ rect.min \in Corner /\ rect.max \in Corner
  BY PointIsCorner, BoxTypes
<1>2. lo \in Corner /\ hi \in Corner
  <2> DEFINE C == { x[i] : x \in Points, i \in Dims }
  <2>1. \A i \in Dims : p[i] \in C /\ rect.min[i] \in C /\ rect.max[i] \in C
    <3>1. p \in [Dims -> C] /\ rect.min \in [Dims -> C] /\ rect.max \in [Dims -> C]
      BY <1>1 DEF Corner
    <3> HIDE DEF C
    <3> QED BY <3>1
  <2> HIDE DEF C
  <2>2. lo \in [Dims -> C] /\ hi \in [Dims -> C]
    BY <2>1
  <2> QED BY <2>2 DEF Corner, C
<1>3. \A i \in Dims : /\ lo[i] \in Int /\ lo[i] <= p[i] /\ lo[i] <= rect.min[i]
                      /\ hi[i] \in Int /\ hi[i] >= p[i] /\ hi[i] >= rect.max[i]
  BY <1>1
<1>4. Extend(p) = [min |-> lo, max |-> hi]
  BY DEF Extend, Rect
<1> HIDE DEF lo, hi
<1>5. Extend(p) \in Boxes /\ Extend(p).min = lo /\ Extend(p).max = hi
  BY <1>2, <1>4 DEF Boxes
<1>6. InBox(p, Extend(p))
  BY <1>3, <1>5 DEF InBox
<1>7. ASSUME NEW x \in [Dims -> Int], InBox(x, rect) PROVE InBox(x, Extend(p))
  <2> SUFFICES ASSUME NEW i \in Dims PROVE lo[i] <= x[i] /\ x[i] <= hi[i]
    BY <1>5 DEF InBox
  <2>1. rect.min[i] <= x[i] /\ x[i] <= rect.max[i] /\ x[i] \in Int
    BY <1>7 DEF InBox
  <2>2. rect.min[i] \in Int /\ rect.max[i] \in Int
    BY <1>1
  <2> QED BY <1>3, <2>1, <2>2
<1> QED BY <1>5, <1>6, <1>7

\* A later point becomes a leaf on its side of every node above it.
LEMMA BelowKeeps ==
  ASSUME KdInv, NEW p \in Points, InsertBelow(p)
  PROVE  KdInv'
<1>n. PICK N : N = Len(pos)
  OBVIOUS
<1>1. TypeOK /\ pos # <<>> /\ rect \in Boxes /\ \A n \in DOMAIN pos : InBox(pos[n], rect)
  BY DEF KdInv, InsertBelow
<1>2. PICK below : IsBelow(below)
  BY DEF KdInv
<1>3. /\ N \in Nat /\ DOMAIN pos = 1 .. N /\ pos \in [1 .. N -> Points]
      /\ dir \in [1 .. N -> Dims] /\ child \in [1 .. N -> [Sides -> 0 .. N]]
      /\ \A n \in DOMAIN pos : pos[n] \in [Dims -> Int] /\ SideOf(n, p) \in Sides
  <2>1. TypeOK /\ Len(pos) = N
    BY <1>1, <1>n
  <2>2. /\ N \in Nat /\ DOMAIN pos = 1 .. N
        /\ \A n \in DOMAIN pos : pos[n] \in [Dims -> Int] /\ SideOf(n, p) \in Sides
    BY <2>1, KdTypes
  <2>3. pos \in [1 .. N -> Points] /\ dir \in [1 .. N -> Dims] /\ child \in [1 .. N -> [Sides -> 0 .. N]]
    BY <2>1, <2>2 DEF TypeOK
  <2> QED BY <2>2, <2>3
<1>4. PICK s \in DOMAIN pos :
        /\ Slot(p) = <<s, SideOf(s, p)>> /\ child[s][SideOf(s, p)] = 0
        /\ \A n \in DOMAIN pos, side \in Sides :
             child[n][side] # 0 /\ s \in below[child[n][side]] => SideOf(n, p) = side
  BY <1>1, <1>2, SlotFacts
<1>sd. PICK sd : sd = SideOf(s, p)
  OBVIOUS
<1> DEFINE grown == [child EXCEPT ![s][sd] = N + 1]
<1>5. /\ pos' = Append(pos, p) /\ dir' = Append(dir, NextDir(dir[s]))
      /\ child' = Append(grown, Leaf)
      /\ rect' = Extend(p) /\ answer' = {}
  BY <1>4, <1>n, <1>sd DEF InsertBelow
<1>s. sd \in Sides /\ s \in 1 .. N
  BY <1>3, <1>sd
<1>6. /\ grown \in [1 .. N -> [Sides -> 0 .. N + 1]]
      /\ \A n \in 1 .. N, side \in Sides :
           grown[n][side] = IF n = s /\ side = sd THEN N + 1 ELSE child[n][side]
  BY <1>3, <1>s
<1> HIDE DEF grown
<1>7. NextDir(dir[s]) \in Dims
  BY <1>3, <1>s, KdTreeAssumption DEF NextDir, Dims
<1>8. Leaf \in [Sides -> 0 .. N + 1]
  BY <1>3, LeafFacts
<1>a. N \in Nat /\ pos \in [1 .. N -> Points] /\ dir \in [1 .. N -> Dims]
  BY <1>3
<1>9. /\ pos' \in [1 .. N + 1 -> Points] /\ pos'[N + 1] = p
      /\ \A n \in 1 .. N : pos'[n] = pos[n]
  <2>1. PICK f \in [1 .. N -> Points] : f = pos
    BY <1>a
  <2>2. /\ Append(f, p) \in [1 .. N + 1 -> Points] /\ Append(f, p)[N + 1] = p
        /\ \A n \in 1 .. N : Append(f, p)[n] = f[n]
    BY <1>a, AppendAt
  <2> QED BY <1>5, <2>1, <2>2
<1>10. /\ dir' \in [1 .. N + 1 -> Dims] /\ \A n \in 1 .. N : dir'[n] = dir[n]
  <2>1. PICK f \in [1 .. N -> Dims], e \in Dims : f = dir /\ e = NextDir(dir[s])
    BY <1>a, <1>7
  <2>2. /\ Append(f, e) \in [1 .. N + 1 -> Dims]
        /\ \A n \in 1 .. N : Append(f, e)[n] = f[n]
    BY <1>a, AppendAt
  <2> QED BY <1>5, <2>1, <2>2
<1>11. /\ child' \in [1 .. N + 1 -> [Sides -> 0 .. N + 1]]
       /\ child'[N + 1] = Leaf /\ \A n \in 1 .. N : child'[n] = grown[n]
  <2>1. PICK S, g, e : S = [Sides -> 0 .. N + 1] /\ g = grown /\ e = Leaf
    OBVIOUS
  <2>2. N \in Nat /\ g \in [1 .. N -> S] /\ e \in S
    BY <1>a, <1>6, <1>8, <2>1
  <2>3. g \in Seq(S) /\ Len(g) = N
    BY <2>2
  <2>4. /\ Append(g, e) \in Seq(S) /\ Len(Append(g, e)) = N + 1
        /\ \A i \in 1 .. N : Append(g, e)[i] = g[i]
        /\ Append(g, e)[N + 1] = e
    BY <2>2, <2>3, AppendProperties
  <2>5. Append(g, e) \in [1 .. N + 1 -> S]
    BY <2>4, LenProperties
  <2>6. child' = Append(g, e)
    BY <1>5, <2>1
  <2> QED BY <2>1, <2>4, <2>5, <2>6
<1>12. DOMAIN pos' = 1 .. N + 1 /\ pos' \in Seq(Points) /\ Len(pos') = N + 1
  <2>1. pos' \in [1 .. N + 1 -> Points] /\ N + 1 \in Nat
    BY <1>a, <1>9
  <2> QED BY <2>1
<1>13. Extend(p) \in Boxes /\ \A n \in 1 .. N + 1 : InBox(pos'[n], rect')
  <2>1. Extend(p) \in Boxes /\ InBox(p, Extend(p))
    BY <1>1, ExtendFacts
  <2>2. \A n \in 1 .. N : InBox(pos[n], Extend(p))
    BY <1>1, <1>3, ExtendFacts
  <2>3. \A n \in 1 .. N + 1 : n = N + 1 \/ n \in 1 .. N
    BY <1>a
  <2> QED BY <2>1, <2>2, <2>3, <1>5, <1>9
<1>14. TypeOK'
  BY <1>5, <1>10, <1>11, <1>12, <1>13 DEF TypeOK
<1>15. \A n \in 1 .. N + 1, side \in Sides :
         child'[n][side] = IF n = N + 1 THEN 0
                           ELSE IF n = s /\ side = sd THEN N + 1 ELSE child[n][side]
  <2> SUFFICES ASSUME NEW n \in 1 .. N + 1, NEW side \in Sides
               PROVE  child'[n][side] = IF n = N + 1 THEN 0
                         ELSE IF n = s /\ side = sd THEN N + 1 ELSE child[n][side]
    OBVIOUS
  <2>1. CASE n = N + 1
    BY <2>1, <1>11, LeafFacts
  <2>2. CASE n # N + 1
    <3>1. n \in 1 .. N
      BY <2>2, <1>3
    <3> QED BY <2>2, <3>1, <1>6, <1>11
  <2> QED BY <2>1, <2>2
<1>16. \A n \in 1 .. N : SideOf(n, p) = SideOf(n, p)' /\ \A m \in 1 .. N : SideOf(n, pos[m]) = SideOf(n, pos[m])'
  BY <1>9, <1>10 DEF SideOf
<1>b. PICK b : b = [n \in 1 .. N + 1 |-> IF n = N + 1 THEN {N + 1}
                      ELSE IF s \in below[n] THEN below[n] \cup {N + 1} ELSE below[n]]
  OBVIOUS
<1>17. IsBelow(b)'
  <2>0. /\ N \in Nat /\ below \in [1 .. N -> SUBSET (1 .. N)] /\ N + 1 \notin 1 .. N
        /\ \A n \in 1 .. N + 1 : n = N + 1 \/ n \in 1 .. N
        /\ \A n \in 1 .. N : n \in 1 .. N + 1 /\ n # N + 1 /\ n < N + 1
        /\ N + 1 \in 1 .. N + 1
    <3>1. below \in [DOMAIN pos -> SUBSET DOMAIN pos]
      BY <1>2 DEF IsBelow
    <3>2. DOMAIN pos = 1 .. N /\ N \in Nat
      BY <1>3
    <3>3. below \in [1 .. N -> SUBSET (1 .. N)]
      BY <3>1, <3>2
    <3> QED BY <3>2, <3>3
  <2>b. /\ b[N + 1] = {N + 1}
        /\ \A n \in 1 .. N : b[n] = IF s \in below[n] THEN below[n] \cup {N + 1} ELSE below[n]
    BY <2>0, <1>b
  <2>1. b \in [1 .. N + 1 -> SUBSET (1 .. N + 1)]
    <3>1. \A n \in 1 .. N : below[n] \subseteq 1 .. N + 1
      BY <2>0
    <3> QED BY <3>1, <2>0, <1>b
  <2>2. \A n \in 1 .. N : n \in below[n] /\ n \in below[1] /\ 1 \in 1 .. N
    BY <1>2, <1>3 DEF IsBelow
  <2>3. \A n \in 1 .. N + 1 : n \in b[n] /\ 1 \in 1 .. N + 1 /\ n \in b[1]
    BY <2>0, <2>2, <2>b, <1>s
  <2>4. ASSUME NEW n \in 1 .. N, NEW m \in below[n]
        PROVE  /\ m \in 1 .. N /\ n <= m /\ below[m] \subseteq below[n]
               /\ m # n => \E side \in Sides : child[n][side] # 0 /\ m \in below[child[n][side]]
    <3>1. n \in DOMAIN pos /\ m \in DOMAIN pos /\ m \in 1 .. N
      BY <1>3, <2>0
    <3> QED BY <3>1, <1>2 DEF IsBelow
  <2>5. ASSUME NEW n \in 1 .. N, NEW side \in Sides, child[n][side] # 0
        PROVE  /\ child[n][side] \in 1 .. N
               /\ n < child[n][side] /\ below[child[n][side]] \subseteq below[n]
               /\ \A m \in below[child[n][side]] : SideOf(n, pos[m]) = side
    <3>1. n \in DOMAIN pos /\ child[n][side] \in 1 .. N
      <4>1. child[n][side] \in 0 .. N
        BY <1>3
      <4> QED BY <4>1, <1>3, <2>5
    <3> QED BY <3>1, <1>2, <2>5 DEF IsBelow
  <2>6. ASSUME NEW n \in 1 .. N + 1, NEW m \in 1 .. N + 1, m \in b[n]
        PROVE  /\ n <= m /\ b[m] \subseteq b[n]
               /\ m # n => \E side \in Sides : child'[n][side] # 0 /\ m \in b[child'[n][side]]
    <3>1. CASE n = N + 1
      BY <3>1, <2>6, <2>b, <2>0
    <3>2. CASE n # N + 1 /\ m = N + 1
      <4>1. n \in 1 .. N /\ s \in below[n]
        BY <3>2, <2>0, <2>6, <2>b
      <4>2. n <= m /\ b[m] \subseteq b[n]
        <5>1. n <= m /\ b[m] = {N + 1} /\ b[n] = below[n] \cup {N + 1}
          <6>1. n < N + 1 /\ b[N + 1] = {N + 1}
            BY <4>1, <2>0, <2>b
          <6>2. b[n] = below[n] \cup {N + 1}
            BY <4>1, <2>b
          <6>3. n \in Int /\ N + 1 \in Int
            BY <4>1, <2>0
          <6> QED BY <3>2, <6>1, <6>2, <6>3
        <5> QED BY <5>1
      <4>3. CASE n = s
        <5>1. child'[n][sd] = N + 1
          BY <4>1, <4>3, <2>0, <1>15, <1>s
        <5> QED BY <5>1, <4>2, <3>2, <2>b, <2>0, <1>s
      <4>4. CASE n # s
        <5>1. PICK side \in Sides : child[n][side] # 0 /\ s \in below[child[n][side]]
          BY <4>1, <4>4, <2>4
        <5>2. child'[n][side] = child[n][side] /\ child[n][side] \in 1 .. N
          BY <5>1, <4>1, <4>4, <2>0, <2>5, <1>15
        <5>3. N + 1 \in b[child'[n][side]]
          BY <5>1, <5>2, <2>b
        <5> QED BY <5>1, <5>2, <5>3, <4>2, <3>2
      <4> QED BY <4>3, <4>4
    <3>3. CASE n # N + 1 /\ m # N + 1
      <4>1. n \in 1 .. N /\ m \in 1 .. N /\ m \in below[n]
        BY <3>3, <2>0, <2>6, <2>b
      <4>2. n <= m /\ below[m] \subseteq below[n]
        BY <4>1, <2>4
      <4>3. b[m] \subseteq b[n]
        BY <4>1, <4>2, <2>b
      <4>4. ASSUME m # n
            PROVE \E side \in Sides : child'[n][side] # 0 /\ m \in b[child'[n][side]]
        <5>1. PICK side \in Sides : child[n][side] # 0 /\ m \in below[child[n][side]]
          BY <4>1, <4>4, <2>4
        <5>2. child[n][side] \in 1 .. N
          BY <5>1, <4>1, <2>5
        <5>3. child'[n][side] = child[n][side]
          BY <5>1, <4>1, <2>0, <1>15, <1>4, <1>sd
        <5>4. m \in b[child[n][side]]
          BY <5>1, <5>2, <2>b
        <5> QED BY <5>1, <5>3, <5>4
      <4> QED BY <4>2, <4>3, <4>4
    <3> QED BY <3>1, <3>2, <3>3
  <2>7. ASSUME NEW n \in 1 .. N + 1, NEW side \in Sides, child'[n][side] # 0
        PROVE  /\ n < child'[n][side] /\ b[child'[n][side]] \subseteq b[n]
               /\ \A m \in b[child'[n][side]] : SideOf(n, pos[m])' = side
    <3>1. n \in 1 .. N
      BY <2>7, <2>0, <1>15
    <3>2. CASE n = s /\ side = sd
      <4>1. child'[n][side] = N + 1
        BY <3>1, <3>2, <2>0, <1>15
      <4>2. SideOf(n, pos[N + 1])' = side
        <5>1. SideOf(n, pos[N + 1])' = SideOf(n, p)
          BY <3>1, <1>9, <1>10 DEF SideOf
        <5> QED BY <5>1, <3>2, <1>sd
      <4>3. b[N + 1] = {N + 1} /\ b[n] = below[n] \cup {N + 1} /\ n < N + 1
        BY <3>1, <3>2, <2>0, <2>2, <2>b
      <4> QED BY <4>1, <4>2, <4>3
    <3>3. CASE ~ (n = s /\ side = sd)
      <4> DEFINE c == child[n][side]
      <4>1. child'[n][side] = c /\ c # 0
        BY <3>1, <3>3, <2>0, <2>7, <1>15
      <4>2. /\ c \in 1 .. N /\ n < c /\ below[c] \subseteq below[n]
            /\ \A m \in below[c] : SideOf(n, pos[m]) = side
        BY <4>1, <3>1, <2>5
      <4>3. b[c] \subseteq b[n]
        BY <4>2, <3>1, <2>b
      <4>4. ASSUME NEW m \in b[c] PROVE SideOf(n, pos[m])' = side
        <5>1. CASE m \in below[c]
          <6>1. m \in 1 .. N
            BY <5>1, <4>2, <2>0
          <6> QED BY <5>1, <6>1, <4>2, <3>1, <1>9, <1>10 DEF SideOf
        <5>2. CASE m \notin below[c]
          <6>1. m = N + 1 /\ s \in below[c]
            BY <5>2, <4>4, <4>2, <2>b
          <6>2. SideOf(n, p) = side
            BY <6>1, <4>1, <3>1, <1>3, <1>4
          <6> QED BY <6>1, <6>2, <3>1, <1>9, <1>10 DEF SideOf
        <5> QED BY <5>1, <5>2
      <4> HIDE DEF c
      <4> QED BY <4>1, <4>2, <4>3, <4>4
    <3> QED BY <3>2, <3>3
  <2>8. \A n \in 1 .. N + 1, side \in Sides : child'[n][side] # 0 =>
          \A m \in b[child'[n][side]] : SideOf(n, pos[m])' = side
    BY <2>7
  <2>9. (b \in [DOMAIN pos -> SUBSET DOMAIN pos])'
    BY <2>1, <1>12
  <2>10. (\A n \in DOMAIN pos : n \in b[n] /\ 1 \in DOMAIN pos /\ n \in b[1])'
    BY <2>3, <1>12
  <2>11. (\A n \in DOMAIN pos, m \in DOMAIN pos : m \in b[n] =>
            /\ n <= m /\ b[m] \subseteq b[n]
            /\ m # n => \E side \in Sides : child[n][side] # 0 /\ m \in b[child[n][side]])'
    BY <2>6, <1>12
  <2>12. (\A n \in DOMAIN pos, side \in Sides : child[n][side] # 0 =>
            /\ n < child[n][side] /\ b[child[n][side]] \subseteq b[n]
            /\ \A m \in b[child[n][side]] : SideOf(n, pos[m]) = side)'
    BY <2>7, <2>8, <1>12
  <2> QED BY <2>9, <2>10, <2>11, <2>12 DEF IsBelow
<1>18. (\E a : IsBelow(a))'
  BY <1>17
<1>19. (pos # <<>> => rect \in Boxes /\ \A n \in DOMAIN pos : InBox(pos[n], rect))'
  <2>1. (\A n \in DOMAIN pos : InBox(pos[n], rect))'
    BY <1>12, <1>13 DEF InBox
  <2> QED BY <2>1, <1>5, <1>13
<1> QED BY <1>14, <1>18, <1>19 DEF KdInv


\* Emptying the tree, and asking it.
LEMMA ClearKeeps ==
  ASSUME KdInv, Clear
  PROVE  KdInv'
<1>1. /\ pos' = <<>> /\ dir' = <<>> /\ child' = <<>> /\ rect' = <<>> /\ answer' = {}
  BY DEF Clear
<1>2. DOMAIN pos' = {} /\ pos' \in Seq(Points) /\ Len(pos') = 0
  BY <1>1
<1>3. TypeOK'
  <2>1. <<>> \in [{} -> Dims] /\ <<>> \in [{} -> [Sides -> 0 .. 0]]
    OBVIOUS
  <2> QED BY <1>1, <1>2, <2>1 DEF TypeOK
<1>4. (\E b : IsBelow(b))'
  <2>1. PICK b : b = [n \in {} |-> {}]
    OBVIOUS
  <2>2. b \in [{} -> SUBSET {}]
    BY <2>1
  <2>3. IsBelow(b)'
    BY <1>2, <2>2 DEF IsBelow
  <2> QED BY <2>3
<1> QED BY <1>1, <1>3, <1>4 DEF KdInv

LEMMA AskKeeps ==
  ASSUME KdInv, UNCHANGED <<pos, dir, child, rect>>, (answer \subseteq DOMAIN pos)'
  PROVE  KdInv'
<1>1. pos' = pos /\ dir' = dir /\ child' = child /\ rect' = rect
  OBVIOUS
<1>2. TypeOK'
  BY <1>1 DEF KdInv, TypeOK
<1>3. (\E b : IsBelow(b))'
  <2>1. PICK b : IsBelow(b)
    BY DEF KdInv
  <2>2. IsBelow(b)'
    BY <2>1, <1>1 DEF IsBelow, SideOf
  <2> QED BY <2>2
<1>4. (pos # <<>> => rect \in Boxes /\ \A n \in DOMAIN pos : InBox(pos[n], rect))'
  BY <1>1 DEF KdInv, InBox
<1> QED BY <1>2, <1>3, <1>4 DEF KdInv

(***************************************************************************)
(* kd_nearest_range.                                                       *)
(***************************************************************************)

\* The other child of a node has only points beyond its plane.
LEMMA Beyond ==
  ASSUME TypeOK, NEW below, IsBelow(below), NEW q \in [Dims -> Int],
         NEW n \in DOMAIN pos, NEW side \in Sides, child[n][side] # 0,
         NEW m \in below[child[n][side]], NEW r \in Nat,
         side # Nearer(n, q), ~ Crosses(n, q, r)
  PROVE  DistSq(pos[m], q) >= r * r
<1>1. /\ dir[n] \in Dims /\ pos[n] \in [Dims -> Int]
      /\ child[n][side] \in DOMAIN pos
  BY KdTypes
<1>2. m \in DOMAIN pos /\ SideOf(n, pos[m]) = side
  BY <1>1 DEF IsBelow
<1>3. pos[m] \in [Dims -> Int]
  BY <1>2, KdTypes
<1> DEFINE a == pos[n][dir[n]]
           x == pos[m][dir[n]]
           y == q[dir[n]]
<1>4. a \in Int /\ x \in Int /\ y \in Int
  BY <1>1, <1>3
<1>5. side = IF x < a THEN "left" ELSE "right"
  BY <1>2 DEF SideOf
<1>6. Nearer(n, q) = IF y - a <= 0 THEN "left" ELSE "right"
  BY DEF Nearer
<1>7. ~ (Abs(y - a) < r)
  BY DEF Crosses
<1>8. (x - y) * (x - y) <= DistSq(pos[m], q) /\ DistSq(pos[m], q) \in Nat
  BY <1>1, <1>3, DistFacts
<1> HIDE DEF a, x, y
<1>9. x - y >= r \/ y - x >= r
  BY <1>4, <1>5, <1>6, <1>7 DEF Abs, Sides
<1>10. \A z \in Int, k \in Nat : z >= k => z * z >= k * k
  OBVIOUS
<1>11. (x - y) * (x - y) = (y - x) * (y - x)
  BY <1>4
<1>12. (x - y) * (x - y) >= r * r
  BY <1>4, <1>9, <1>10, <1>11
<1>13. r * r \in Int /\ (x - y) * (x - y) \in Int
  BY <1>4
<1> QED BY <1>8, <1>12, <1>13

\* What find_nearest finds: no node farther than the range, and every nearer one.
LEMMA RangeFound ==
  ASSUME KdInv, NEW q \in Query, NEW r \in Ranges
  PROVE  /\ FindNearest(q, r) \subseteq { n \in DOMAIN pos : DistSq(pos[n], q) <= r * r }
         /\ { n \in DOMAIN pos : DistSq(pos[n], q) < r * r } \subseteq FindNearest(q, r)
<1>e. CASE pos = <<>>
  BY <1>e DEF FindNearest
<1>f. CASE pos # <<>>
  <2>1. PICK below : IsBelow(below)
    BY DEF KdInv
  <2>2. PICK N : N = Len(pos)
    OBVIOUS
  <2>3. /\ TypeOK /\ N \in Nat /\ DOMAIN pos = 1 .. N /\ 1 \in 1 .. N
        /\ q \in [Dims -> Int] /\ r \in Nat
        /\ \A n \in 1 .. N : pos[n] \in [Dims -> Int] /\ DistSq(pos[n], q) \in Nat
        /\ \A n \in 1 .. N, side \in Sides : child[n][side] \in 0 .. N
    <3>1. TypeOK /\ q \in [Dims -> Int] /\ r \in Nat
      BY KdTreeAssumption DEF KdInv, Dims
    <3>2. N \in Nat /\ DOMAIN pos = 1 .. N
      BY <3>1, <2>2, KdTypes
    <3>3. 1 \in 1 .. N
      BY <3>2, <1>f, <3>1, EmptySeq DEF TypeOK
    <3>4. \A n \in 1 .. N : pos[n] \in [Dims -> Int]
      BY <3>1, <3>2, KdTypes
    <3>5. \A n \in 1 .. N : DistSq(pos[n], q) \in Nat
      BY <3>1, <3>4, DistFacts
    <3> QED BY <3>1, <3>2, <3>3, <3>4, <3>5, <2>2, KdTypes
  <2>s. \A n \in 1 .. N : /\ Nearer(n, q) \in Sides /\ Other(Nearer(n, q)) \in Sides
                          /\ Nearer(n, q) # Other(Nearer(n, q))
                          /\ Sides = {Nearer(n, q), Other(Nearer(n, q))}
    BY DEF Nearer, Other, Sides
  <2> DEFINE near(n) == child[n][Nearer(n, q)]
             far(n) == child[n][Other(Nearer(n, q))]
             Founds(f) == f = [n \in 0 .. Len(pos) |->
               IF n = 0 THEN {}
               ELSE (IF DistSq(pos[n], q) <= r * r THEN {n} ELSE {})
                      \cup f[child[n][Nearer(n, q)]]
                      \cup (IF Crosses(n, q, r) THEN f[child[n][Other(Nearer(n, q))]] ELSE {})]
             V == SUBSET (1 .. N)
             made(n, g) == IF n = 0 THEN {}
                  ELSE (IF DistSq(pos[n], q) <= r * r THEN {n} ELSE {})
                         \cup g[near(n)] \cup (IF Crosses(n, q, r) THEN g[far(n)] ELSE {})
             G == [n \in 0 .. N |-> [g \in [0 .. N -> V] |-> made(n, g)]]
             found == CHOOSE f : Founds(f)
  <2>4. FindNearest(q, r) = found[1]
    BY <1>f DEF FindNearest
  <2>5. \A n \in 1 .. N : /\ near(n) \in 0 .. N /\ far(n) \in 0 .. N
                          /\ near(n) # 0 => n < near(n)
                          /\ far(n) # 0 => n < far(n)
    <3>1. \A n \in 1 .. N, side \in Sides : child[n][side] # 0 => n < child[n][side]
      BY <2>1, <2>3 DEF IsBelow
    <3> QED BY <3>1, <2>3, <2>s
  <2> HIDE DEF found
  <2>6. ASSUME NEW n \in 0 .. N, NEW g \in [0 .. N -> V] PROVE made(n, g) \in V
    <3>1. CASE n = 0
      BY <3>1
    <3>2. CASE n # 0
      <4>1. n \in 1 .. N
        BY <3>2, <2>3
      <4>2. g[near(n)] \in V /\ g[far(n)] \in V
        <5> HIDE DEF V, near, far
        <5> QED BY <4>1, <2>5
      <4> HIDE DEF near, far
      <4> QED BY <4>1, <4>2
    <3> QED BY <3>1, <3>2
  <2>7. ASSUME NEW n \in 0 .. N, NEW g \in [0 .. N -> V], NEW h \in [0 .. N -> V],
               \A m \in Later(n, N) : g[m] = h[m]
        PROVE  made(n, g) = made(n, h)
    <3>1. CASE n = 0
      BY <3>1
    <3>2. CASE n # 0
      <4>1. n \in 1 .. N
        BY <3>2, <2>3
      <4>2. near(n) \in Later(n, N) /\ far(n) \in Later(n, N)
        <5> HIDE DEF near, far
        <5>1. PICK a, b \in 0 .. N : a = near(n) /\ b = far(n) /\ (a # 0 => n < a) /\ (b # 0 => n < b)
          BY <4>1, <2>5
        <5>2. Later(n, N) = {0} \cup n + 1 .. N
          BY <3>2 DEF Later
        <5>3. a \in {0} \cup n + 1 .. N /\ b \in {0} \cup n + 1 .. N
          BY <4>1, <5>1, <2>3
        <5> QED BY <5>1, <5>2, <5>3
      <4>3. g[near(n)] = h[near(n)] /\ g[far(n)] = h[far(n)]
        BY <2>7, <4>2
      <4> HIDE DEF near, far
      <4> QED BY <4>3
    <3> QED BY <3>1, <3>2
  <2>8. PICK f : MadeOnTree(f, N, V, G)
    <3>1. V # {} /\ N \in Nat
      BY <2>3
    <3> HIDE DEF V, made
    <3>2. G \in [0 .. N -> [[0 .. N -> V] -> V]]
      BY <2>6
    <3>3. \A n \in 0 .. N : \A g, h \in [0 .. N -> V] :
            (\A m \in Later(n, N) : g[m] = h[m]) => G[n][g] = G[n][h]
      BY <2>7
    <3> HIDE DEF G
    <3> QED BY <3>1, <3>2, <3>3, TreeRec
  <2>9. f \in [0 .. N -> V] /\ \A n \in 0 .. N : f[n] = made(n, f)
    <3> HIDE DEF V, made
    <3>1. f \in [0 .. N -> V] /\ \A n \in 0 .. N : f[n] = G[n][f]
      BY <2>8 DEF MadeOnTree
    <3> QED BY <3>1
  <2>10. Founds(f)
    <3>1. f = [n \in 0 .. N |-> f[n]]
      BY <2>9
    <3>2. f = [n \in 0 .. N |-> made(n, f)]
      BY <3>1, <2>9
    <3> QED BY <3>2, <2>2
  <2>11. Founds(found)
    <3> HIDE DEF Founds
    <3> QED BY <2>10 DEF found
  <2>12. found[0] = {} /\ \A n \in 1 .. N :
           found[n] = (IF DistSq(pos[n], q) <= r * r THEN {n} ELSE {})
                         \cup found[near(n)] \cup (IF Crosses(n, q, r) THEN found[far(n)] ELSE {})
    <3>1. \A n \in 1 .. N : n \in 0 .. N /\ n # 0 /\ 0 \in 0 .. N
      BY <2>3
    <3> QED BY <2>2, <2>11, <3>1, <2>3
  <2> HIDE DEF Founds
  <2> DEFINE Fine(n) == /\ found[n] \subseteq { m \in 1 .. N : DistSq(pos[m], q) <= r * r }
                        /\ \A m \in below[n] : DistSq(pos[m], q) < r * r => m \in found[n]
             T == {0} \cup { n \in 1 .. N : Fine(n) }
  <2>13. ASSUME NEW n \in 1 .. N, \A m \in n + 1 .. N : m \in T PROVE n \in T
    <3>1. ASSUME NEW side \in Sides
          PROVE  /\ found[child[n][side]] \subseteq { m \in 1 .. N : DistSq(pos[m], q) <= r * r }
                 /\ child[n][side] # 0 => \A m \in below[child[n][side]] :
                      DistSq(pos[m], q) < r * r => m \in found[child[n][side]]
      <4>1. CASE child[n][side] = 0
        BY <4>1, <2>12
      <4>2. CASE child[n][side] # 0
        <5>1. n < child[n][side] /\ child[n][side] \in 0 .. N
          BY <4>2, <2>1, <2>3 DEF IsBelow
        <5>2. child[n][side] \in n + 1 .. N
          BY <5>1, <2>3
        <5>3. child[n][side] \in T
          BY <5>2, <2>13
        <5> QED BY <4>2, <5>3
      <4> QED BY <4>1, <4>2
    <3>2. /\ found[near(n)] \subseteq { m \in 1 .. N : DistSq(pos[m], q) <= r * r }
          /\ found[far(n)] \subseteq { m \in 1 .. N : DistSq(pos[m], q) <= r * r }
      BY <3>1, <2>s
    <3>3. found[n] \subseteq { m \in 1 .. N : DistSq(pos[m], q) <= r * r }
      <4> HIDE DEF near, far
      <4> QED BY <3>2, <2>12
    <3>4. ASSUME NEW m \in below[n], DistSq(pos[m], q) < r * r PROVE m \in found[n]
      <4>1. m \in 1 .. N
        BY <2>1, <2>3 DEF IsBelow
      <4>2. CASE m = n
        <5>1. DistSq(pos[n], q) <= r * r
          <6>1. DistSq(pos[n], q) \in Nat /\ r * r \in Int
            BY <2>3
          <6> QED BY <6>1, <3>4, <4>2
        <5> HIDE DEF near, far
        <5> QED BY <5>1, <4>2, <2>12
      <4>3. CASE m # n
        <5>1. PICK side \in Sides : child[n][side] # 0 /\ m \in below[child[n][side]]
          BY <4>1, <4>3, <2>1, <2>3 DEF IsBelow
        <5>2. m \in found[child[n][side]]
          BY <5>1, <3>1, <3>4
        <5>3. CASE side = Nearer(n, q)
          <6>1. m \in found[near(n)]
            BY <5>2, <5>3
          <6> HIDE DEF near, far
          <6> QED BY <6>1, <2>12
        <5>4. CASE side # Nearer(n, q)
          <6>1. side = Other(Nearer(n, q))
            BY <5>4, <5>1, <2>s
          <6>2. m \in found[far(n)]
            BY <5>2, <6>1
          <6>3. Crosses(n, q, r)
            <7>1. SUFFICES ASSUME ~ Crosses(n, q, r) PROVE FALSE
              OBVIOUS
            <7>2. DistSq(pos[m], q) >= r * r
              BY <7>1, <5>1, <5>4, <2>1, <2>3, Beyond
            <7>3. DistSq(pos[m], q) \in Nat /\ r * r \in Int
              BY <4>1, <2>3
            <7> QED BY <7>2, <7>3, <3>4
          <6> HIDE DEF near, far
          <6> QED BY <6>2, <6>3, <2>12
        <5> QED BY <5>3, <5>4
      <4> QED BY <4>2, <4>3
    <3> QED BY <3>3, <3>4
  <2>14. 1 \in T
    <3> HIDE DEF T
    <3>1. 0 \in T
      BY DEF T
    <3>2. \A n \in 0 .. N : n \in T
      BY <3>1, <2>3, <2>13, TreeInduct
    <3> QED BY <3>2, <2>3
  <2>15. Fine(1)
    BY <2>14
  <2>16. \A n \in 1 .. N : n \in below[1]
    BY <2>1, <2>3 DEF IsBelow
  <2> QED BY <2>3, <2>4, <2>15, <2>16
<1> QED BY <1>e, <1>f

(***************************************************************************)
(* kd_nearest.                                                             *)
(***************************************************************************)

\* The part of a box on a side of a node has the points on that side.
LEMMA SliceFacts ==
  ASSUME TypeOK, NEW n \in DOMAIN pos, NEW side \in Sides, NEW box \in Boxes
  PROVE  /\ Slice(n, box, side) \in Boxes
         /\ \A x \in [Dims -> Int] : InBox(x, box) /\ SideOf(n, x) = side =>
              InBox(x, Slice(n, box, side))
<1> DEFINE d == dir[n]
           a == pos[n][dir[n]]
<1>1. d \in Dims /\ pos[n] \in Points /\ pos[n] \in [Dims -> Int] /\ a \in Int
  BY KdTypes
<1>2. /\ box.min \in [Dims -> Int] /\ box.max \in [Dims -> Int]
      /\ box.min \in Corner /\ box.max \in Corner
      /\ box = [min |-> box.min, max |-> box.max]
  BY BoxTypes
<1>3. PICK lo, hi : lo = box.min /\ hi = box.max
  OBVIOUS
<1>4. Slice(n, box, side) = IF side = "left" THEN [min |-> lo, max |-> [hi EXCEPT ![d] = a]]
                            ELSE [min |-> [lo EXCEPT ![d] = a], max |-> hi]
  BY <1>2, <1>3 DEF Slice
<1>5. [hi EXCEPT ![d] = a] \in Corner /\ [lo EXCEPT ![d] = a] \in Corner
  <2> DEFINE C == { x[i] : x \in Points, i \in Dims }
  <2>1. a \in C
    BY <1>1
  <2>2. lo \in [Dims -> C] /\ hi \in [Dims -> C]
    BY <1>2, <1>3 DEF Corner
  <2> HIDE DEF C, a, d
  <2>3. [hi EXCEPT ![d] = a] \in [Dims -> C] /\ [lo EXCEPT ![d] = a] \in [Dims -> C]
    BY <2>1, <2>2
  <2> QED BY <2>3 DEF C, Corner
<1>6. lo \in Corner /\ hi \in Corner /\ lo \in [Dims -> Int] /\ hi \in [Dims -> Int]
  BY <1>2, <1>3
<1>7. Slice(n, box, side) \in Boxes
  <2> HIDE DEF a, d
  <2> QED BY <1>4, <1>5, <1>6 DEF Boxes
<1>8. ASSUME NEW x \in [Dims -> Int], InBox(x, box), SideOf(n, x) = side
      PROVE  InBox(x, Slice(n, box, side))
  <2>1. \A i \in Dims : x[i] \in Int /\ lo[i] <= x[i] /\ x[i] <= hi[i]
    BY <1>8, <1>3 DEF InBox
  <2>2. side = IF x[d] < a THEN "left" ELSE "right"
    BY <1>8 DEF SideOf
  <2> HIDE DEF a, d
  <2>3. CASE side = "left"
    <3>1. x[d] <= a
      BY <2>1, <2>2, <2>3, <1>1
    <3>2. \A i \in Dims : x[i] <= [hi EXCEPT ![d] = a][i]
      BY <3>1, <2>1, <1>6, <1>1
    <3>3. Slice(n, box, side) = [min |-> lo, max |-> [hi EXCEPT ![d] = a]]
      BY <2>3, <1>4
    <3>4. Slice(n, box, side).min = lo /\ Slice(n, box, side).max = [hi EXCEPT ![d] = a]
      BY <3>3
    <3> QED BY <3>2, <2>1, <3>4 DEF InBox
  <2>4. CASE side # "left"
    <3>1. a <= x[d]
      BY <2>1, <2>2, <2>4, <1>1
    <3>2. \A i \in Dims : [lo EXCEPT ![d] = a][i] <= x[i]
      BY <3>1, <2>1, <1>6, <1>1
    <3>3. Slice(n, box, side) = [min |-> [lo EXCEPT ![d] = a], max |-> hi]
      BY <2>4, <1>4
    <3>4. Slice(n, box, side).min = [lo EXCEPT ![d] = a] /\ Slice(n, box, side).max = hi
      BY <3>3
    <3> QED BY <3>2, <2>1, <3>4 DEF InBox
  <2> QED BY <2>3, <2>4
<1> QED BY <1>7, <1>8

\* What kd_nearest returns: a node, and no node is nearer.
LEMMA NearestFound ==
  ASSUME KdInv, pos # <<>>, NEW q \in Query
  PROVE  /\ Nearest(q) \in DOMAIN pos
         /\ \A m \in DOMAIN pos : DistSq(pos[Nearest(q)], q) <= DistSq(pos[m], q)
<1>1. PICK below : IsBelow(below)
  BY DEF KdInv
<1>2. PICK N : N = Len(pos)
  OBVIOUS
<1>3. /\ TypeOK /\ N \in Nat /\ DOMAIN pos = 1 .. N /\ 1 \in 1 .. N
      /\ q \in [Dims -> Int] /\ rect \in Boxes
      /\ \A n \in 1 .. N : pos[n] \in [Dims -> Int] /\ InBox(pos[n], rect)
      /\ \A n \in 1 .. N, side \in Sides : child[n][side] \in 0 .. N
  <2>1. TypeOK /\ q \in [Dims -> Int] /\ rect \in Boxes
    BY KdTreeAssumption DEF KdInv, Dims
  <2>2. N \in Nat /\ DOMAIN pos = 1 .. N
    BY <2>1, <1>2, KdTypes
  <2>3. 1 \in 1 .. N
    BY <2>2, <2>1, EmptySeq DEF TypeOK
  <2>4. \A n \in 1 .. N : pos[n] \in [Dims -> Int]
    BY <2>1, <2>2, KdTypes
  <2>5. \A n \in 1 .. N : InBox(pos[n], rect)
    BY <2>2 DEF KdInv
  <2> QED BY <2>1, <2>2, <2>3, <2>4, <2>5, <1>2, KdTypes
<1>4. PICK D \in [1 .. N -> Nat] : \A n \in 1 .. N : D[n] = DistSq(pos[n], q)
  <2>1. \A n \in 1 .. N : DistSq(pos[n], q) \in Nat
    BY <1>3, DistFacts
  <2> DEFINE E == [n \in 1 .. N |-> DistSq(pos[n], q)]
  <2>2. E \in [1 .. N -> Nat] /\ \A n \in 1 .. N : E[n] = DistSq(pos[n], q)
    BY <2>1
  <2> HIDE DEF E
  <2> QED BY <2>2
<1>5. PICK near, far \in [1 .. N -> Sides] :
         \A n \in 1 .. N : /\ near[n] = Nearer(n, q) /\ far[n] = Other(Nearer(n, q))
                           /\ Sides = {near[n], far[n]}
  <2>1. \A n \in 1 .. N : /\ Nearer(n, q) \in Sides /\ Other(Nearer(n, q)) \in Sides
                          /\ Sides = {Nearer(n, q), Other(Nearer(n, q))}
    BY DEF Nearer, Other, Sides
  <2> WITNESS [n \in 1 .. N |-> Nearer(n, q)] \in [1 .. N -> Sides],
              [n \in 1 .. N |-> Other(Nearer(n, q))] \in [1 .. N -> Sides]
  <2> QED BY <2>1
<1> DEFINE raw(n, box, best, f) ==
             IF n = 0 THEN best
             ELSE LET side == Nearer(n, q)
                      b1 == f[child[n][side]][Slice(n, box, side)][best]
                      b2 == Closer(n, b1, q)
                      past == Slice(n, box, Other(side))
                  IN  IF BoxDistSq(past, q) < DistSq(pos[b2], q)
                      THEN f[child[n][Other(side)]][past][b2]
                      ELSE b2
           Searches(f) == f = [n \in 0 .. Len(pos) |-> [box \in Boxes |->
                                 [best \in DOMAIN pos |-> raw(n, box, best, f)]]]
           search == CHOOSE f : Searches(f)
           B == 1 .. N
           V == [Boxes -> [B -> B]]
           first(n, box, best, g) == g[child[n][near[n]]][Slice(n, box, near[n])][best]
           second(n, box, best, g) ==
             IF D[n] < D[first(n, box, best, g)] THEN n ELSE first(n, box, best, g)
           rest(n, box) == Slice(n, box, far[n])
           third(n, box, best, g) ==
             IF BoxDistSq(rest(n, box), q) < D[second(n, box, best, g)]
             THEN g[child[n][far[n]]][rest(n, box)][second(n, box, best, g)]
             ELSE second(n, box, best, g)
           made(n, g) == [box \in Boxes |-> [best \in B |->
                            IF n = 0 THEN best ELSE third(n, box, best, g)]]
           G == [n \in 0 .. N |-> [g \in [0 .. N -> V] |-> made(n, g)]]
<1>6. Nearest(q) = search[1][rect][1]
  BY DEF Nearest
<1> HIDE DEF search
<1>7. \A n \in 1 .. N, side \in Sides : child[n][side] # 0 => n < child[n][side]
  BY <1>1, <1>3 DEF IsBelow
<1>8. \A n \in B, side \in Sides, box \in Boxes : Slice(n, box, side) \in Boxes
  BY <1>3, SliceFacts
<1>9. ASSUME NEW n \in B, NEW g \in [0 .. N -> V], NEW box \in Boxes, NEW best \in B
      PROVE  /\ first(n, box, best, g) \in B /\ second(n, box, best, g) \in B
             /\ rest(n, box) \in Boxes /\ third(n, box, best, g) \in B
  <2>1. ASSUME NEW c \in 0 .. N, NEW x \in Boxes, NEW b \in B PROVE g[c][x][b] \in B
    <3> HIDE DEF B
    <3>1. g[c] \in [Boxes -> [B -> B]]
      OBVIOUS
    <3>2. g[c][x] \in [B -> B]
      BY <3>1
    <3> QED BY <3>2
  <2>2. /\ child[n][near[n]] \in 0 .. N /\ child[n][far[n]] \in 0 .. N
        /\ Slice(n, box, near[n]) \in Boxes /\ rest(n, box) \in Boxes
    BY <1>3, <1>5, <1>8
  <2> HIDE DEF rest, V, B
  <2>3. first(n, box, best, g) \in B
    BY <2>1, <2>2
  <2> HIDE DEF first
  <2>4. second(n, box, best, g) \in B
    BY <2>3
  <2> HIDE DEF second
  <2>5. third(n, box, best, g) \in B
    BY <2>1, <2>2, <2>4
  <2> QED BY <2>2, <2>3, <2>4, <2>5
<1>10. ASSUME NEW n \in 0 .. N, NEW g \in [0 .. N -> V] PROVE made(n, g) \in V
  <2> SUFFICES ASSUME NEW box \in Boxes, NEW best \in B
               PROVE  (IF n = 0 THEN best ELSE third(n, box, best, g)) \in B
    <3> HIDE DEF third, B
    <3> QED OBVIOUS
  <2>1. CASE n = 0
    BY <2>1
  <2>2. CASE n # 0
    <3>1. n \in B
      BY <2>2, <1>3
    <3>2. third(n, box, best, g) \in B
      BY <3>1, <1>9
    <3> HIDE DEF third, B
    <3> QED BY <2>2, <3>2
  <2> QED BY <2>1, <2>2
<1>11. ASSUME NEW n \in 0 .. N, NEW g \in [0 .. N -> V], NEW h \in [0 .. N -> V],
              \A m \in Later(n, N) : g[m] = h[m]
       PROVE  made(n, g) = made(n, h)
  <2> SUFFICES ASSUME NEW box \in Boxes, NEW best \in B
               PROVE  (IF n = 0 THEN best ELSE third(n, box, best, g))
                        = (IF n = 0 THEN best ELSE third(n, box, best, h))
    <3> HIDE DEF third, B
    <3> QED OBVIOUS
  <2>1. CASE n = 0
    BY <2>1
  <2>2. CASE n # 0
    <3>1. n \in B
      BY <2>2, <1>3
    <3>2. ASSUME NEW side \in Sides PROVE child[n][side] \in Later(n, N)
      <4>1. PICK c : c = child[n][side]
        OBVIOUS
      <4>2. c \in 0 .. N /\ (c # 0 => n < c)
        BY <3>1, <4>1, <1>3, <1>7
      <4>3. c = 0 \/ c \in n + 1 .. N
        BY <4>2, <1>3
      <4> QED BY <4>1, <4>3, <2>2 DEF Later
    <3>3. near[n] \in Sides /\ far[n] \in Sides
      BY <3>1, <1>5
    <3>4. g[child[n][near[n]]] = h[child[n][near[n]]] /\ g[child[n][far[n]]] = h[child[n][far[n]]]
      BY <3>2, <3>3, <1>11
    <3>5. first(n, box, best, g) = first(n, box, best, h)
      BY <3>4
    <3>6. second(n, box, best, g) = second(n, box, best, h)
      <4> HIDE DEF first
      <4> QED BY <3>5
    <3>7. third(n, box, best, g) = third(n, box, best, h)
      <4> HIDE DEF second, rest
      <4> QED BY <3>4, <3>6
    <3> HIDE DEF third
    <3> QED BY <3>7
  <2> QED BY <2>1, <2>2
<1>12. PICK f : MadeOnTree(f, N, V, G)
  <2>1. V # {} /\ N \in Nat
    <3>1. [box \in Boxes |-> [b \in B |-> b]] \in V
      OBVIOUS
    <3> QED BY <3>1, <1>3
  <2> HIDE DEF V, made
  <2>2. G \in [0 .. N -> [[0 .. N -> V] -> V]]
    BY <1>10
  <2>3. \A n \in 0 .. N : \A g, h \in [0 .. N -> V] :
          (\A m \in Later(n, N) : g[m] = h[m]) => G[n][g] = G[n][h]
    BY <1>11
  <2> HIDE DEF G
  <2> QED BY <2>1, <2>2, <2>3, TreeRec
<1>13. f \in [0 .. N -> V] /\ \A n \in 0 .. N : f[n] = made(n, f)
  <2> HIDE DEF V, made
  <2>1. f \in [0 .. N -> V] /\ \A n \in 0 .. N : f[n] = G[n][f]
    BY <1>12 DEF MadeOnTree
  <2> QED BY <2>1
<1>14. Searches(f)
  <2>1. ASSUME NEW n \in 0 .. N, NEW box \in Boxes, NEW best \in B
        PROVE  (IF n = 0 THEN best ELSE third(n, box, best, f)) = raw(n, box, best, f)
    <3>1. CASE n = 0
      BY <3>1
    <3>2. CASE n # 0
      <4>1. n \in B
        BY <3>2, <1>3
      <4>2. near[n] = Nearer(n, q) /\ far[n] = Other(Nearer(n, q))
        BY <4>1, <1>5
      <4>3. first(n, box, best, f) \in B /\ second(n, box, best, f) \in B
        BY <4>1, <1>9, <1>13
      <4>4. second(n, box, best, f) = Closer(n, first(n, box, best, f), q)
        <5> HIDE DEF first
        <5> QED BY <4>1, <4>3, <1>4 DEF Closer
      <4>5. D[second(n, box, best, f)] = DistSq(pos[second(n, box, best, f)], q)
        <5> HIDE DEF second
        <5> QED BY <4>3, <1>4
      <4>6. third(n, box, best, f) =
              IF BoxDistSq(rest(n, box), q) < DistSq(pos[second(n, box, best, f)], q)
              THEN f[child[n][far[n]]][rest(n, box)][second(n, box, best, f)]
              ELSE second(n, box, best, f)
        <5> HIDE DEF second, rest
        <5> QED BY <4>5
      <4> HIDE DEF third, second
      <4> QED BY <3>2, <4>2, <4>4, <4>6
    <3> QED BY <3>1, <3>2
  <2>2. f = [n \in 0 .. N |-> made(n, f)]
    <3> HIDE DEF made, V
    <3>1. f = [n \in 0 .. N |-> f[n]]
      BY <1>13
    <3> QED BY <3>1, <1>13
  <2>3. \A n \in 0 .. N : made(n, f) = [box \in Boxes |-> [best \in B |-> raw(n, box, best, f)]]
    <3> HIDE DEF third, raw, B
    <3> QED BY <2>1
  <2> HIDE DEF made, raw
  <2> QED BY <2>2, <2>3, <1>2, <1>3
<1>15. Searches(search)
  <2> HIDE DEF Searches
  <2> QED BY <1>14 DEF search
<1>16. \A n \in 0 .. N : search[n] = f[n]
  <2> DEFINE T == { n \in 0 .. N : search[n] = f[n] }
  <2>1. ASSUME NEW n \in 0 .. N, NEW g, g = search \/ g = f
        PROVE  g[n] = [box \in Boxes |-> [best \in B |-> raw(n, box, best, g)]]
    <3>1. Searches(g)
      <4> HIDE DEF Searches
      <4> QED BY <2>1, <1>14, <1>15
    <3> HIDE DEF raw
    <3> QED BY <3>1, <1>2, <1>3
  <2>2. ASSUME NEW n \in 0 .. N, NEW box \in Boxes, NEW best \in B,
               n # 0 => search[child[n][near[n]]] = f[child[n][near[n]]] /\ search[child[n][far[n]]] = f[child[n][far[n]]]
        PROVE  raw(n, box, best, search) = raw(n, box, best, f)
    <3>1. CASE n = 0
      BY <3>1
    <3>2. CASE n # 0
      <4>1. n \in B
        BY <3>2, <1>3
      <4>2. near[n] = Nearer(n, q) /\ far[n] = Other(Nearer(n, q))
        BY <4>1, <1>5
      <4> QED BY <2>2, <3>2, <4>2
    <3> QED BY <3>1, <3>2
  <2>3. ASSUME NEW n \in 0 .. N,
               n # 0 => search[child[n][near[n]]] = f[child[n][near[n]]] /\ search[child[n][far[n]]] = f[child[n][far[n]]]
        PROVE  n \in T
    <3>1. \A box \in Boxes, best \in B : raw(n, box, best, search) = raw(n, box, best, f)
      BY <2>2, <2>3
    <3> HIDE DEF raw, B
    <3>2. search[n] = [box \in Boxes |-> [best \in B |-> raw(n, box, best, search)]]
      BY <2>1
    <3>3. f[n] = [box \in Boxes |-> [best \in B |-> raw(n, box, best, f)]]
      BY <2>1
    <3> QED BY <3>1, <3>2, <3>3
  <2> HIDE DEF T
  <2>4. 0 \in T
    <3>1. 0 \in 0 .. N
      BY <1>3
    <3> QED BY <2>3, <3>1
  <2>5. ASSUME NEW n \in 1 .. N, \A m \in n + 1 .. N : m \in T PROVE n \in T
    <3>1. n \in 0 .. N /\ near[n] \in Sides /\ far[n] \in Sides
      BY <1>3, <1>5
    <3>2. ASSUME NEW side \in Sides PROVE search[child[n][side]] = f[child[n][side]]
      <4>1. child[n][side] \in 0 .. N /\ (child[n][side] # 0 => n < child[n][side])
        BY <1>3, <1>7
      <4>2. child[n][side] = 0 \/ child[n][side] \in n + 1 .. N
        BY <4>1, <1>3
      <4>3. child[n][side] \in T
        BY <4>2, <2>4, <2>5
      <4> QED BY <4>3 DEF T
    <3> QED BY <3>1, <3>2, <2>3
  <2>6. \A n \in 0 .. N : n \in T
    BY <2>4, <2>5, <1>3, TreeInduct
  <2> QED BY <2>6 DEF T
<1> HIDE DEF Searches, raw
<1>17. \A n \in B, box \in Boxes, best \in B : f[n][box][best] = third(n, box, best, f)
  <2> HIDE DEF third, V
  <2> SUFFICES ASSUME NEW n \in B, NEW box \in Boxes, NEW best \in B
               PROVE  f[n][box][best] = third(n, box, best, f)
    OBVIOUS
  <2>1. n \in 0 .. N /\ n # 0
    BY <1>3
  <2>2. f[n] = made(n, f)
    BY <2>1, <1>13
  <2> HIDE DEF B
  <2> QED BY <2>1, <2>2
<1>18. \A box \in Boxes, best \in B : f[0][box][best] = best
  <2> HIDE DEF third, V
  <2>1. f[0] = made(0, f)
    BY <1>3, <1>13
  <2> HIDE DEF B
  <2> QED BY <2>1
<1> DEFINE Fits(n, box) == \A m \in below[n] : InBox(pos[m], box)
           Fine(n, box, best) ==
             /\ f[n][box][best] \in B /\ D[f[n][box][best]] <= D[best]
             /\ n # 0 /\ Fits(n, box) => \A m \in below[n] : D[f[n][box][best]] <= D[m]
           T == { n \in 0 .. N : \A box \in Boxes, best \in B : Fine(n, box, best) }
<1>19. 0 \in T
  <2> SUFFICES ASSUME NEW box \in Boxes, NEW best \in B PROVE Fine(0, box, best)
    BY <1>3
  <2> QED BY <1>18, <1>4
<1>20. ASSUME NEW n \in 1 .. N, \A m \in n + 1 .. N : m \in T PROVE n \in T
  <2> SUFFICES ASSUME NEW box \in Boxes, NEW best \in B PROVE Fine(n, box, best)
    <3> HIDE DEF Fine
    <3>1. n \in 0 .. N
      BY <1>3
    <3> QED BY <3>1
  <2>1. near[n] \in Sides /\ far[n] \in Sides /\ Sides = {near[n], far[n]}
    BY <1>5
  <2>2. ASSUME NEW side \in Sides
        PROVE  child[n][side] \in T
    <3>1. child[n][side] \in 0 .. N /\ (child[n][side] # 0 => n < child[n][side])
      BY <1>3, <1>7
    <3>2. child[n][side] = 0 \/ child[n][side] \in n + 1 .. N
      BY <3>1, <1>3
    <3> HIDE DEF T
    <3> QED BY <3>2, <1>19, <1>20
  <2>3. /\ child[n][near[n]] \in T /\ child[n][far[n]] \in T
    <3> HIDE DEF T
    <3> QED BY <2>1, <2>2
  <2>4. ASSUME NEW side \in Sides, child[n][side] # 0, Fits(n, box)
        PROVE  Fits(child[n][side], Slice(n, box, side))
    <3> SUFFICES ASSUME NEW m \in below[child[n][side]]
                 PROVE  InBox(pos[m], Slice(n, box, side))
      OBVIOUS
    <3>1. child[n][side] \in B
      <4>1. child[n][side] \in 0 .. N
        BY <1>3
      <4> QED BY <4>1, <2>4, <1>3
    <3>2. m \in B /\ m \in below[n] /\ SideOf(n, pos[m]) = side
      BY <3>1, <2>4, <1>1, <1>3 DEF IsBelow
    <3>3. pos[m] \in [Dims -> Int] /\ InBox(pos[m], box)
      BY <3>2, <2>4, <1>3
    <3> QED BY <3>2, <3>3, <1>3, SliceFacts
  <2> DEFINE nextBox == Slice(n, box, near[n])
             lastBox == rest(n, box)
             b1 == first(n, box, best, f)
             b2 == second(n, box, best, f)
             b3 == third(n, box, best, f)
  <2>5. /\ b1 \in B /\ b2 \in B /\ b3 \in B /\ nextBox \in Boxes /\ lastBox \in Boxes
        /\ f[n][box][best] = b3
    BY <1>8, <1>9, <1>13, <1>17, <2>1
  <2>6. /\ b1 = f[child[n][near[n]]][nextBox][best]
        /\ b2 = IF D[n] < D[b1] THEN n ELSE b1
        /\ b3 = IF BoxDistSq(lastBox, q) < D[b2] THEN f[child[n][far[n]]][lastBox][b2] ELSE b2
    OBVIOUS
  <2>7. Fine(child[n][near[n]], nextBox, best) /\ Fine(child[n][far[n]], lastBox, b2)
    <3> HIDE DEF Fine, nextBox, lastBox, b1, b2, b3
    <3> QED BY <2>3, <2>5
  <2>8. lastBox = Slice(n, box, far[n])
    OBVIOUS
  <2> HIDE DEF b1, b2, b3, first, second, third, rest, T
  <2>9. D[b1] <= D[best] /\ D[b2] <= D[b1] /\ D[b2] <= D[n] /\ D[b3] <= D[b2]
        /\ D[b1] \in Nat /\ D[b2] \in Nat /\ D[b3] \in Nat /\ D[n] \in Nat /\ D[best] \in Nat
    <3>1. D[b1] \in Nat /\ D[b2] \in Nat /\ D[b3] \in Nat /\ D[n] \in Nat /\ D[best] \in Nat
      BY <2>5, <1>4
    <3>2. D[b1] <= D[best]
      BY <2>6, <2>7
    <3>3. D[b2] <= D[b1] /\ D[b2] <= D[n]
      <4>1. CASE D[n] < D[b1]
        BY <4>1, <3>1, <2>6
      <4>2. CASE ~ (D[n] < D[b1])
        <5>1. b2 = b1
          BY <4>2, <2>6
        <5>2. D[b1] <= D[n]
          BY <4>2, <3>1
        <5> QED BY <5>1, <5>2, <3>1
      <4> QED BY <4>1, <4>2
    <3>4. D[b3] <= D[b2]
      <4>1. CASE BoxDistSq(lastBox, q) < D[b2]
        BY <4>1, <2>6, <2>7
      <4>2. CASE ~ (BoxDistSq(lastBox, q) < D[b2])
        <5>1. b3 = b2
          BY <4>2, <2>6
        <5> QED BY <5>1, <3>1
      <4> QED BY <4>1, <4>2
    <3> QED BY <3>1, <3>2, <3>3, <3>4
  <2>10. D[b3] <= D[best]
    BY <2>9
  <2>11. ASSUME Fits(n, box), NEW m \in below[n] PROVE D[b3] <= D[m]
    <3>1. m \in B /\ D[m] \in Nat
      <4>1. m \in B
        BY <1>1, <1>3 DEF IsBelow
      <4> QED BY <4>1, <1>4
    <3>2. CASE m = n
      BY <3>2, <2>9
    <3>3. CASE m # n
      <4>1. PICK side \in Sides : child[n][side] # 0 /\ m \in below[child[n][side]]
        BY <3>1, <3>3, <1>1, <1>3 DEF IsBelow
      <4>2. Fits(child[n][side], Slice(n, box, side))
        <5> HIDE DEF Fits
        <5> QED BY <4>1, <2>4, <2>11
      <4>3. CASE side = near[n]
        <5>1. D[b1] <= D[m]
          <6>1. child[n][near[n]] # 0 /\ Fits(child[n][near[n]], nextBox) /\ m \in below[child[n][near[n]]]
            <7> HIDE DEF Fits
            <7> QED BY <4>1, <4>2, <4>3
          <6> HIDE DEF Fits, nextBox
          <6> QED BY <6>1, <2>6, <2>7
        <5> QED BY <5>1, <3>1, <2>9
      <4>4. CASE side # near[n]
        <5>1. side = far[n]
          BY <4>4, <2>1
        <5>2. child[n][far[n]] # 0 /\ Fits(child[n][far[n]], lastBox) /\ m \in below[child[n][far[n]]]
          <6> HIDE DEF Fits
          <6> QED BY <4>1, <4>2, <5>1, <2>8
        <5>3. CASE BoxDistSq(lastBox, q) < D[b2]
          <6>1. b3 = f[child[n][far[n]]][lastBox][b2]
            BY <5>3, <2>6
          <6> HIDE DEF Fits, lastBox
          <6> QED BY <6>1, <5>2, <2>7
        <5>4. CASE ~ (BoxDistSq(lastBox, q) < D[b2])
          <6>1. b3 = b2
            BY <5>4, <2>6
          <6>2. InBox(pos[m], lastBox) /\ pos[m] \in [Dims -> Int] /\ D[m] = DistSq(pos[m], q)
            BY <5>2, <3>1, <1>3, <1>4
          <6>3. lastBox.min \in [Dims -> Int] /\ lastBox.max \in [Dims -> Int]
            BY <2>5, BoxTypes
          <6> HIDE DEF lastBox
          <6>4. BoxDistSq(lastBox, q) <= D[m] /\ BoxDistSq(lastBox, q) \in Nat
            BY <6>2, <6>3, <1>3, BoxFacts
          <6> QED BY <6>1, <6>4, <5>4, <3>1, <2>9
        <5> QED BY <5>3, <5>4
      <4> QED BY <4>3, <4>4
    <3> QED BY <3>2, <3>3
  <2> HIDE DEF Fits
  <2> QED BY <2>5, <2>10, <2>11
<1>21. 1 \in T
  <2> HIDE DEF T
  <2>1. \A n \in 0 .. N : n \in T
    BY <1>3, <1>19, <1>20, TreeInduct
  <2> QED BY <2>1, <1>3
<1>22. Fine(1, rect, 1)
  <2> HIDE DEF Fine
  <2> QED BY <1>21, <1>3
<1>23. \A n \in 1 .. N : n \in below[1] /\ below[1] \subseteq 1 .. N
  BY <1>1, <1>3 DEF IsBelow
<1>24. Fits(1, rect)
  BY <1>3, <1>23
<1>25. Nearest(q) = f[1][rect][1]
  BY <1>3, <1>6, <1>16
<1>26. PICK x : x = Nearest(q)
  OBVIOUS
<1>27. x \in 1 .. N /\ \A m \in 1 .. N : D[x] <= D[m]
  <2>1. /\ f[1][rect][1] \in B
        /\ \A m \in below[1] : D[f[1][rect][1]] <= D[m]
    <3> HIDE DEF Fits, B
    <3> QED BY <1>22, <1>24
  <2>2. x = f[1][rect][1]
    BY <1>25, <1>26
  <2> QED BY <2>1, <2>2, <1>23
<1> QED BY <1>3, <1>4, <1>26, <1>27


(***************************************************************************)
(* The refinement.                                                         *)
(***************************************************************************)

\* The empty tree.
LEMMA KdInitInv == KdInit => KdInv
<1> SUFFICES ASSUME KdInit PROVE KdInv
  OBVIOUS
<1>1. pos = <<>> /\ dir = <<>> /\ child = <<>> /\ rect = <<>> /\ answer = {}
  BY DEF KdInit
<1>2. DOMAIN pos = {} /\ pos \in Seq(Points) /\ Len(pos) = 0
  BY <1>1
<1>3. TypeOK
  <2>1. <<>> \in [{} -> Dims] /\ <<>> \in [{} -> [Sides -> 0 .. 0]]
    OBVIOUS
  <2> QED BY <1>1, <1>2, <2>1 DEF TypeOK
<1>4. \E b : IsBelow(b)
  <2>1. PICK b : b = [n \in {} |-> {}]
    OBVIOUS
  <2>2. b \in [{} -> SUBSET {}]
    BY <2>1
  <2>3. IsBelow(b)
    BY <1>2, <2>2 DEF IsBelow
  <2> QED BY <2>3
<1> QED BY <1>1, <1>3, <1>4 DEF KdInv

\* A query returns nodes of the tree.
LEMMA AskTypes ==
  ASSUME KdInv, NEW q \in Query
  PROVE  /\ AskNearest(q) => (answer \subseteq DOMAIN pos)'
         /\ \A r \in Ranges : AskRange(q, r) => (answer \subseteq DOMAIN pos)'
<1>1. ASSUME AskNearest(q) PROVE (answer \subseteq DOMAIN pos)'
  <2>1. pos' = pos /\ answer' = IF pos = <<>> THEN {} ELSE {Nearest(q)}
    BY <1>1 DEF AskNearest
  <2>2. pos # <<>> => Nearest(q) \in DOMAIN pos
    BY NearestFound
  <2> QED BY <2>1, <2>2
<1>2. ASSUME NEW r \in Ranges, AskRange(q, r) PROVE (answer \subseteq DOMAIN pos)'
  <2>1. pos' = pos /\ answer' = FindNearest(q, r)
    BY <1>2 DEF AskRange
  <2>2. FindNearest(q, r) \subseteq DOMAIN pos
    BY RangeFound
  <2> QED BY <2>1, <2>2
<1> QED BY <1>1, <1>2

\* Every node is in the subtree of the root and on its side of every plane above
\* it, and in the bounding box (kdtree.cpp, insert_rec and hyperrect_extend).
THEOREM KdInvariant == KdSpec => []KdInv
<1>1. KdInit => KdInv
  BY KdInitInv
<1>2. KdInv /\ [KdNext]_kdVars => KdInv'
  <2> SUFFICES ASSUME KdInv, [KdNext]_kdVars PROVE KdInv'
    OBVIOUS
  <2>1. ASSUME NEW p \in Points, InsertRoot(p) PROVE KdInv'
    BY <2>1, RootKeeps
  <2>2. ASSUME NEW p \in Points, InsertBelow(p) PROVE KdInv'
    BY <2>2, BelowKeeps
  <2>3. CASE Clear
    BY <2>3, ClearKeeps
  <2>4. ASSUME NEW q \in Query, AskNearest(q) PROVE KdInv'
    <3>1. UNCHANGED <<pos, dir, child, rect>>
      BY <2>4 DEF AskNearest
    <3>2. (answer \subseteq DOMAIN pos)'
      BY <2>4, AskTypes
    <3> QED BY <3>1, <3>2, AskKeeps
  <2>5. ASSUME NEW q \in Query, NEW r \in Ranges, AskRange(q, r) PROVE KdInv'
    <3>1. UNCHANGED <<pos, dir, child, rect>>
      BY <2>5 DEF AskRange
    <3>2. (answer \subseteq DOMAIN pos)'
      BY <2>5, AskTypes
    <3> QED BY <3>1, <3>2, AskKeeps
  <2>6. CASE UNCHANGED kdVars
    <3>1. UNCHANGED <<pos, dir, child, rect>> /\ answer' = answer
      BY <2>6 DEF kdVars
    <3>2. (answer \subseteq DOMAIN pos)'
      BY <3>1 DEF KdInv, TypeOK
    <3> QED BY <3>1, <3>2, AskKeeps
  <2> QED BY <2>1, <2>2, <2>3, <2>4, <2>5, <2>6 DEF KdNext
<1> QED BY <1>1, <1>2, PTL DEF KdSpec

\* For any dimension, points, queries and ranges: a query of the tree returns what
\* the points inserted call for, so neither the pruning of kd_nearest_i by boxes
\* nor that of find_nearest by planes hides a point (kdtree.cpp:257-397).
THEOREM TreeIsASet == KdSpec => Refines
<1>1. KdInit => Set!SetInit
  BY DEF KdInit, Set!SetInit
<1>2. KdInv /\ [KdNext]_kdVars => [Set!SetNext]_<<pos, answer>>
  <2> SUFFICES ASSUME KdInv, [KdNext]_kdVars PROVE [Set!SetNext]_<<pos, answer>>
    OBVIOUS
  <2>1. ASSUME NEW p \in Points, InsertRoot(p) PROVE Set!SetInsert(p)
    <3>1. pos = <<>> /\ pos' = <<p>> /\ answer' = {}
      BY <2>1 DEF InsertRoot
    <3>2. Append(pos, p) = <<p>>
      BY <3>1
    <3> QED BY <3>1, <3>2 DEF Set!SetInsert
  <2>2. ASSUME NEW p \in Points, InsertBelow(p) PROVE Set!SetInsert(p)
    BY <2>2 DEF InsertBelow, Set!SetInsert
  <2>3. ASSUME Clear PROVE Set!SetClear
    BY <2>3 DEF Clear, Set!SetClear
  <2>4. ASSUME NEW q \in Query, AskNearest(q) PROVE Set!SetNearest(q)
    <3>1. pos' = pos /\ answer' = IF pos = <<>> THEN {} ELSE {Nearest(q)}
      BY <2>4 DEF AskNearest
    <3>2. CASE pos = <<>>
      BY <3>1, <3>2 DEF Set!SetNearest
    <3>3. CASE pos # <<>>
      <4>1. Nearest(q) \in Set!Closest(q)
        BY <3>3, NearestFound DEF Set!Closest
      <4> QED BY <3>1, <3>3, <4>1 DEF Set!SetNearest
    <3> QED BY <3>2, <3>3
  <2>5. ASSUME NEW q \in Query, NEW r \in Ranges, AskRange(q, r) PROVE Set!SetRange(q, r)
    <3>1. pos' = pos /\ answer' = FindNearest(q, r)
      BY <2>5 DEF AskRange
    <3>2. Set!Inside(q, r) \subseteq FindNearest(q, r) /\ FindNearest(q, r) \subseteq Set!Within(q, r)
      BY RangeFound DEF Set!Inside, Set!Within
    <3> QED BY <3>1, <3>2 DEF Set!SetRange
  <2>6. CASE UNCHANGED kdVars
    BY <2>6 DEF kdVars
  <2>7. KdNext => Set!SetNext
    <3> SUFFICES ASSUME KdNext PROVE Set!SetNext
      OBVIOUS
    <3> QED BY <2>1, <2>2, <2>3, <2>4, <2>5 DEF KdNext, Set!SetNext
  <2> QED BY <2>6, <2>7
<1> QED BY <1>1, <1>2, KdInvariant, PTL DEF KdSpec, Refines, Set!SetSpec, Set!setVars

(***************************************************************************)
(* SymbolFinder.  A table knows every defined symbol up to last_pos and    *)
(* none but the first of its name; a map knows them too, the last passed.  *)
(***************************************************************************)

\* The symbols a table of library l may hold, and the chains of its buckets.
SymbolsOf(l) == [name : SymbolNames, address : {Address(l, i) : i \in 1 .. Len(SymTab[l])}]

\* A name that is somewhere in a table.
Has(table, s) == \E b \in 1 .. Len(table) : \E k \in 1 .. Len(table[b]) : table[b][k].name = s

\* A table: every symbol is in the bucket its name calls for, and the first of its name.
GoodTable(l, table) ==
  /\ table \in Seq(Seq(SymbolsOf(l))) /\ Len(table) >= 1
  /\ \A b \in 1 .. Len(table) : \A k \in 1 .. Len(table[b]) :
       /\ Bucket(Len(table), table[b][k].name) = b
       /\ Theirs(l, table[b][k].name) # {}
       /\ table[b][k].address = Address(l, FirstIn(Theirs(l, table[b][k].name)))

\* A map: an address is that of a symbol of the name.
AddressesOf(l) == {Address(l, i) : i \in 1 .. Len(SymTab[l])}

GoodMap(l, table) ==
  /\ table \in [SymbolNames -> AddressesOf(l) \cup {NoAddress}]
  /\ \A s \in SymbolNames : table[s] # NoAddress => \E i \in Theirs(l, s) : table[s] = Address(l, i)

\* What the finder f knows of the name s by a table.
Knows(f, table, s) == IF f = "memutils" THEN Has(table, s) ELSE table[s] # NoAddress

\* What a module knows of a library: every symbol up to last_pos, and nothing false.
LibraryInv(l, f, known) ==
  /\ known.last_pos \in Nat
  /\ \A i \in Defined(l) : i <= known.last_pos => Knows(f, known.table, SymTab[l][i].name)
  /\ f = "memutils" => GoodTable(l, known.table)
  /\ f = "SymbolFinder" => GoodMap(l, known.table)

\* That of every library, and of what was found before.
SymInv ==
  /\ finder \in {"memutils", "SymbolFinder"} /\ DOMAIN tables = Bases
  /\ \A l \in Dlls : LibraryInv(l, finder, tables[lib_base[l]])
  /\ \A l \in Dlls, s \in SymbolNames :
       <<l, s>> \in located => Knows(finder, tables[lib_base[l]].table, s)
  /\ SymbolsAreTheirs

\* A set of numbers that is not empty has a first.
LEMMA FirstInFacts ==
  ASSUME NEW S \in SUBSET Nat, S # {}
  PROVE  FirstIn(S) \in S /\ \A j \in S : FirstIn(S) <= j
<1>1. \E i \in S : \A j \in S : i <= j
  BY LeastNat
<1> QED BY <1>1 DEF FirstIn

\* The symbols of a name are positions of the file.
LEMMA TheirsAre ==
  ASSUME NEW l \in Dlls, NEW s
  PROVE  /\ SymTab[l] \in Seq([name : SymbolNames, defined : BOOLEAN]) /\ Len(SymTab[l]) \in Nat
         /\ DOMAIN SymTab[l] = 1 .. Len(SymTab[l])
         /\ Defined(l) \subseteq 1 .. Len(SymTab[l]) /\ Theirs(l, s) \subseteq Defined(l)
         /\ Theirs(l, s) \in SUBSET Nat
         /\ \A i \in Defined(l) : SymTab[l][i].name \in SymbolNames /\ i \in Theirs(l, SymTab[l][i].name)
<1>1. SymTab[l] \in Seq([name : SymbolNames, defined : BOOLEAN])
  BY SymAssumption
<1>2. Len(SymTab[l]) \in Nat /\ DOMAIN SymTab[l] = 1 .. Len(SymTab[l])
  BY <1>1
<1>3. Defined(l) \subseteq 1 .. Len(SymTab[l]) /\ Theirs(l, s) \subseteq Defined(l)
  BY <1>2 DEF Defined, Theirs
<1>4. Theirs(l, s) \in SUBSET Nat
  BY <1>2, <1>3
<1>5. ASSUME NEW i \in Defined(l)
      PROVE  SymTab[l][i].name \in SymbolNames /\ i \in Theirs(l, SymTab[l][i].name)
  <2>1. i \in 1 .. Len(SymTab[l])
    BY <1>3
  <2> DEFINE R == [name : SymbolNames, defined : BOOLEAN]
  <2>2. SymTab[l][i] \in R
    <3> HIDE DEF R
    <3>1. SymTab[l] \in Seq(R)
      BY <1>1 DEF R
    <3> QED BY <2>1, <3>1
  <2> QED BY <2>2 DEF Theirs
<1> QED BY <1>1, <1>2, <1>3, <1>4, <1>5

\* The bucket of a name is one of the table.
LEMMA BucketIn ==
  ASSUME NEW n \in Nat, n >= 1, NEW s \in SymbolNames
  PROVE  Bucket(n, s) \in 1 .. n
<1>1. PICK h \in Nat : h = HashString[s]
  BY SymAssumption
<1>2. h % n \in 0 .. n - 1
  OBVIOUS
<1> QED BY <1>1, <1>2 DEF Bucket

\* Looking in the bucket of a name finds it wherever it is.
LEMMA FoundInBucket ==
  ASSUME NEW l \in Dlls, NEW t, GoodTable(l, t), NEW s \in SymbolNames
  PROVE  /\ Bucket(Len(t), s) \in 1 .. Len(t) /\ Len(t) \in Nat
         /\ DOMAIN t[Bucket(Len(t), s)] = 1 .. Len(t[Bucket(Len(t), s)])
         /\ FindSymbolBucket(t, s) \in SUBSET Nat
         /\ \A k \in FindSymbolBucket(t, s) :
              /\ t[Bucket(Len(t), s)][k].name = s /\ Theirs(l, s) # {}
              /\ t[Bucket(Len(t), s)][k].address = Address(l, FirstIn(Theirs(l, s)))
         /\ Has(t, s) <=> FindSymbolBucket(t, s) # {}
<1>1. t \in Seq(Seq(SymbolsOf(l))) /\ Len(t) \in Nat /\ Len(t) >= 1
  BY DEF GoodTable
<1>2. PICK b \in 1 .. Len(t) : b = Bucket(Len(t), s)
  BY <1>1, BucketIn
<1>3. t[b] \in Seq(SymbolsOf(l)) /\ DOMAIN t[b] = 1 .. Len(t[b]) /\ Len(t[b]) \in Nat
  BY <1>1, <1>2
<1>4. FindSymbolBucket(t, s) = { k \in 1 .. Len(t[b]) : t[b][k].name = s }
  BY <1>2, <1>3 DEF FindSymbolBucket, Chained
<1>5. FindSymbolBucket(t, s) \in SUBSET Nat
  BY <1>3, <1>4
<1>6. ASSUME NEW k \in FindSymbolBucket(t, s)
      PROVE  /\ t[b][k].name = s /\ Theirs(l, s) # {}
             /\ t[b][k].address = Address(l, FirstIn(Theirs(l, s)))
  BY <1>4 DEF GoodTable
<1>7. Has(t, s) => FindSymbolBucket(t, s) # {}
  <2> SUFFICES ASSUME NEW c \in 1 .. Len(t), NEW k \in 1 .. Len(t[c]), t[c][k].name = s
               PROVE  FindSymbolBucket(t, s) # {}
    BY DEF Has
  <2>1. c = b
    BY <1>2 DEF GoodTable
  <2> QED BY <2>1, <1>4
<1>8. FindSymbolBucket(t, s) # {} => Has(t, s)
  BY <1>4 DEF Has
<1> QED BY <1>1, <1>2, <1>3, <1>5, <1>6, <1>7, <1>8

\* A chain of the symbols of t that go into bucket i of n, and no others.
IsBucket(c, S, t, n, i) ==
  /\ c \in Seq(S)
  /\ \A k \in 1 .. Len(c) :
       /\ Bucket(n, c[k].name) = i
       /\ \E b \in 1 .. Len(t) : \E m \in 1 .. Len(t[b]) : c[k] = t[b][m]
  /\ \A b \in 1 .. Len(t) : \A m \in 1 .. Len(t[b]) :
       Bucket(n, t[b][m].name) = i => \E k \in 1 .. Len(c) : c[k] = t[b][m]

\* A bucket after a resize.
LEMMA RehashFacts ==
  ASSUME NEW S, NEW t \in Seq(Seq(S)), NEW n, NEW i
  PROVE  IsBucket(Rehashed(t, n, i), S, t, n, i)
<1> DEFINE flat == FlattenSeq(t)
           Links(f) == f = [k \in 0 .. Len(flat) |->
             IF k = 0 THEN <<>>
             ELSE IF Bucket(n, flat[k].name) = i THEN <<flat[k]>> \o f[k - 1] ELSE f[k - 1]]
           chain == CHOOSE f : Links(f)
<1>3. Rehashed(t, n, i) = chain[Len(flat)]
  BY DEF Rehashed
<1>1. PICK syms \in Seq(S) : syms = flat
  BY FlattenElements
<1>2. PICK z \in Nat : z = Len(syms)
  OBVIOUS
<1> HIDE DEF flat
<1> DEFINE Goes(k) == Bucket(n, syms[k].name) = i
           V == Seq(S)
           step == [k \in 1 .. z |-> [c \in V |-> IF Goes(k) THEN <<syms[k]>> \o c ELSE c]]
           Chain(f) == f = [k \in 0 .. z |->
             IF k = 0 THEN <<>> ELSE IF Goes(k) THEN <<syms[k]>> \o f[k - 1] ELSE f[k - 1]]
<1>e. \A k \in 1 .. z : syms[k] \in S
  BY <1>2
<1>4. step \in [1 .. z -> [V -> V]]
  <2>1. ASSUME NEW k \in 1 .. z, NEW c \in V PROVE (IF Goes(k) THEN <<syms[k]>> \o c ELSE c) \in V
    BY <1>e
  <2> HIDE DEF V, Goes
  <2> QED BY <2>1
<1>5. PICK g : MadeUpTo(g, z, V, <<>>, step)
  <2>1. <<>> \in V
    OBVIOUS
  <2> HIDE DEF V, step
  <2> QED BY <2>1, <1>4, RangeRec
<1>g. g \in [0 .. z -> V] /\ g[0] = <<>> /\ \A k \in 1 .. z : g[k] = step[k][g[k - 1]]
  BY <1>5 DEF MadeUpTo
<1>6. Chain(g)
  <2>1. ASSUME NEW k \in 1 .. z PROVE g[k] = IF Goes(k) THEN <<syms[k]>> \o g[k - 1] ELSE g[k - 1]
    <3>1. k - 1 \in 0 .. z
      OBVIOUS
    <3>2. g[k - 1] \in V
      BY <3>1, <1>g
    <3> HIDE DEF V, Goes
    <3> QED BY <3>2, <1>g
  <2> HIDE DEF Goes, V, step
  <2>2. ASSUME NEW k \in 0 .. z
        PROVE  g[k] = IF k = 0 THEN <<>> ELSE IF Goes(k) THEN <<syms[k]>> \o g[k - 1] ELSE g[k - 1]
    <3>1. CASE k = 0
      BY <3>1, <1>g
    <3>2. CASE k # 0
      <4>1. k \in 1 .. z
        BY <3>2
      <4> QED BY <3>2, <4>1, <2>1
    <3> QED BY <3>1, <3>2
  <2> QED BY <2>2, <1>g
<1>l. \A f : Links(f) <=> Chain(f)
  BY <1>1, <1>2
<1>7. Chain(chain)
  <2> HIDE DEF Chain, Links
  <2>1. Links(chain)
    BY <1>6, <1>l
  <2> QED BY <2>1, <1>l
<1> HIDE DEF chain
<1> DEFINE Theirs0(c, k) == \A j \in 1 .. Len(c) : \E m \in 1 .. k : Goes(m) /\ c[j] = syms[m]
           All(c, k) == \A m \in 1 .. k : Goes(m) => \E j \in 1 .. Len(c) : c[j] = syms[m]
           T == { k \in 0 .. z : chain[k] \in Seq(S) /\ Theirs0(chain[k], k) /\ All(chain[k], k) }
<1> HIDE DEF Goes
<1>8. 0 \in T
  <2>1. chain[0] = <<>> /\ <<>> \in Seq(S) /\ Len(<<>>) = 0 /\ 0 \in 0 .. z
    BY <1>7
  <2>2. Theirs0(<<>>, 0) /\ All(<<>>, 0)
    BY <2>1
  <2> HIDE DEF Theirs0, All
  <2> QED BY <2>1, <2>2
<1>9. ASSUME NEW k \in 1 .. z, k - 1 \in T PROVE k \in T
  <2>1. PICK c \in Seq(S) : c = chain[k - 1] /\ Theirs0(c, k - 1) /\ All(c, k - 1)
    BY <1>9
  <2>2. PICK d : d = chain[k]
    OBVIOUS
  <2>3. k \in 0 .. z /\ k # 0 /\ k \in 1 .. k
    OBVIOUS
  <2>4. CASE Goes(k)
    <3>o. PICK one \in Seq(S) : one = <<syms[k]>>
      <4>1. <<syms[k]>> \in Seq(S)
        BY <1>e
      <4> QED BY <4>1
    <3>1. one = <<syms[k]>> /\ Len(one) = 1 /\ one[1] = syms[k]
      BY <3>o
    <3>2. d = one \o c
      BY <2>1, <2>2, <2>3, <2>4, <3>1, <1>7
    <3>3. PICK q \in Nat : q = Len(c)
      OBVIOUS
    <3>4. /\ d \in Seq(S) /\ Len(d) = 1 + q
          /\ \A j \in 1 .. 1 : d[j] = one[j]
          /\ \A j \in 1 .. q : d[1 + j] = c[j]
      BY <3>1, <3>2, <3>3, ConcatFacts
    <3>5. d[1] = syms[k] /\ 1 \in 1 .. Len(d)
      BY <3>1, <3>4
    <3>6. Theirs0(d, k)
      <4> SUFFICES ASSUME NEW j \in 1 .. 1 + q PROVE \E m \in 1 .. k : Goes(m) /\ d[j] = syms[m]
        BY <3>4
      <4>1. CASE j = 1
        BY <4>1, <3>5, <2>3, <2>4
      <4>2. CASE j # 1
        <5>1. PICK p \in 1 .. q : j = 1 + p
          <6>1. j - 1 \in 1 .. q /\ j = 1 + (j - 1)
            BY <4>2
          <6> QED BY <6>1
        <5>2. PICK m \in 1 .. k - 1 : Goes(m) /\ c[p] = syms[m]
          BY <2>1, <3>3
        <5>3. m \in 1 .. k /\ d[j] = c[p]
          BY <3>4, <5>1
        <5> QED BY <5>2, <5>3
      <4> QED BY <4>1, <4>2
    <3>7. All(d, k)
      <4> SUFFICES ASSUME NEW m \in 1 .. k, Goes(m) PROVE \E j \in 1 .. 1 + q : d[j] = syms[m]
        BY <3>4
      <4>1. CASE m = k
        BY <4>1, <3>4, <3>5
      <4>2. CASE m # k
        <5>1. m \in 1 .. k - 1
          BY <4>2
        <5>2. PICK j \in 1 .. q : c[j] = syms[m]
          BY <5>1, <2>1, <3>3
        <5>3. d[1 + j] = syms[m] /\ 1 + j \in 1 .. 1 + q
          BY <5>2, <3>4
        <5> QED BY <5>3
      <4> QED BY <4>1, <4>2
    <3> HIDE DEF Theirs0, All
    <3> QED BY <2>2, <2>3, <3>4, <3>6, <3>7
  <2>5. CASE ~ Goes(k)
    <3>1. d = c
      BY <2>1, <2>2, <2>3, <2>5, <1>7
    <3>2. Theirs0(c, k)
      <4>1. \A m \in 1 .. k - 1 : m \in 1 .. k
        OBVIOUS
      <4> QED BY <4>1, <2>1
    <3>3. All(c, k)
      <4>1. \A m \in 1 .. k : Goes(m) => m \in 1 .. k - 1
        BY <2>5
      <4> QED BY <4>1, <2>1
    <3> HIDE DEF Theirs0, All
    <3> QED BY <2>2, <2>3, <3>1, <3>2, <3>3
  <2> QED BY <2>4, <2>5
<1>10. z \in T
  <2>1. z \in 0 .. z
    OBVIOUS
  <2> HIDE DEF T
  <2> QED BY <2>1, <1>8, <1>9, RangeInduct
<1>11. PICK c \in Seq(S) : c = Rehashed(t, n, i) /\ Theirs0(c, z) /\ All(c, z)
  BY <1>1, <1>2, <1>3, <1>10
<1>12. /\ \A m \in 1 .. z : \E b \in 1 .. Len(t) : \E k \in 1 .. Len(t[b]) : syms[m] = t[b][k]
       /\ \A b \in 1 .. Len(t) : \A k \in 1 .. Len(t[b]) : \E m \in 1 .. z : syms[m] = t[b][k]
  <2>1. syms = FlattenSeq(t)
    BY <1>1 DEF flat
  <2>2. Len(FlattenSeq(t)) = z
    BY <2>1, <1>2
  <2> HIDE DEF flat
  <2>3. /\ \A m \in 1 .. Len(FlattenSeq(t)) :
             \E b \in 1 .. Len(t) : \E k \in 1 .. Len(t[b]) : FlattenSeq(t)[m] = t[b][k]
        /\ \A b \in 1 .. Len(t) : \A k \in 1 .. Len(t[b]) :
             \E m \in 1 .. Len(FlattenSeq(t)) : FlattenSeq(t)[m] = t[b][k]
    BY FlattenElements
  <2> QED BY <2>1, <2>2, <2>3
<1>13. ASSUME NEW k \in 1 .. Len(c)
       PROVE  /\ Bucket(n, c[k].name) = i
              /\ \E b \in 1 .. Len(t) : \E m \in 1 .. Len(t[b]) : c[k] = t[b][m]
  <2>1. PICK m \in 1 .. z : Goes(m) /\ c[k] = syms[m]
    BY <1>11
  <2>2. Bucket(n, c[k].name) = i
    BY <2>1 DEF Goes
  <2>3. \E b \in 1 .. Len(t) : \E j \in 1 .. Len(t[b]) : c[k] = t[b][j]
    BY <2>1, <1>12
  <2> QED BY <2>2, <2>3
<1>14. ASSUME NEW b \in 1 .. Len(t), NEW k \in 1 .. Len(t[b]), Bucket(n, t[b][k].name) = i
       PROVE  \E j \in 1 .. Len(c) : c[j] = t[b][k]
  <2>1. PICK m \in 1 .. z : syms[m] = t[b][k]
    BY <1>12
  <2>2. Goes(m)
    BY <2>1, <1>14 DEF Goes
  <2> QED BY <2>1, <2>2, <1>11
<1> QED BY <1>11, <1>13, <1>14 DEF IsBucket

\* A table that is resized is a table, with the same names.
LEMMA ResizeFacts ==
  ASSUME NEW l \in Dlls, NEW t, GoodTable(l, t)
  PROVE  /\ GoodTable(l, ResizeSymbolTable(t))
         /\ \A s : Has(t, s) => Has(ResizeSymbolTable(t), s)
<1>1. t \in Seq(Seq(SymbolsOf(l))) /\ Len(t) \in Nat /\ Len(t) >= 1
  BY DEF GoodTable
<1>2. PICK n \in Nat : n = 2 * Len(t) /\ n >= 1
  BY <1>1
<1> DEFINE r == [i \in 1 .. n |-> Rehashed(t, n, i)]
<1>3. ResizeSymbolTable(t) = r
  BY <1>2 DEF ResizeSymbolTable
<1>4. ASSUME NEW i \in 1 .. n
      PROVE  /\ r[i] \in Seq(SymbolsOf(l))
             /\ \A k \in 1 .. Len(r[i]) :
                  /\ Bucket(n, r[i][k].name) = i
                  /\ \E b \in 1 .. Len(t) : \E m \in 1 .. Len(t[b]) : r[i][k] = t[b][m]
             /\ \A b \in 1 .. Len(t) : \A m \in 1 .. Len(t[b]) :
                  Bucket(n, t[b][m].name) = i => \E k \in 1 .. Len(r[i]) : r[i][k] = t[b][m]
  <2>1. r[i] = Rehashed(t, n, i)
    OBVIOUS
  <2> HIDE DEF r
  <2>2. IsBucket(r[i], SymbolsOf(l), t, n, i)
    BY <2>1, <1>1, RehashFacts
  <2> QED BY <2>2 DEF IsBucket
<1>5. r \in Seq(Seq(SymbolsOf(l))) /\ Len(r) = n
  <2>1. \A i \in 1 .. n : Rehashed(t, n, i) \in Seq(SymbolsOf(l))
    BY <1>4
  <2> QED BY <2>1
<1> HIDE DEF r
<1>6. GoodTable(l, r)
  <2>1. ASSUME NEW b \in 1 .. n, NEW k \in 1 .. Len(r[b])
        PROVE  /\ Bucket(n, r[b][k].name) = b
               /\ Theirs(l, r[b][k].name) # {}
               /\ r[b][k].address = Address(l, FirstIn(Theirs(l, r[b][k].name)))
    <3>1. Bucket(n, r[b][k].name) = b
      BY <1>4
    <3>2. PICK c \in 1 .. Len(t) : \E m \in 1 .. Len(t[c]) : r[b][k] = t[c][m]
      BY <1>4
    <3>m. PICK m \in 1 .. Len(t[c]) : r[b][k] = t[c][m]
      BY <3>2
    <3>3. /\ Theirs(l, t[c][m].name) # {}
          /\ t[c][m].address = Address(l, FirstIn(Theirs(l, t[c][m].name)))
      BY DEF GoodTable
    <3> QED BY <3>1, <3>m, <3>3
  <2> QED BY <2>1, <1>2, <1>5 DEF GoodTable
<1>7. ASSUME NEW s, Has(t, s) PROVE Has(r, s)
  <2>c. PICK c \in 1 .. Len(t) : \E m \in 1 .. Len(t[c]) : t[c][m].name = s
    BY <1>7 DEF Has
  <2>1. PICK m \in 1 .. Len(t[c]) : t[c][m].name = s
    BY <2>c
  <2>2. t[c] \in Seq(SymbolsOf(l))
    BY <1>1
  <2>3. t[c][m] \in SymbolsOf(l)
    BY <2>2
  <2>4. s \in SymbolNames
    BY <2>1, <2>3 DEF SymbolsOf
  <2>5. PICK i \in 1 .. n : i = Bucket(n, s)
    BY <2>4, <1>2, BucketIn
  <2>6. PICK k \in 1 .. Len(r[i]) : r[i][k] = t[c][m]
    BY <2>1, <2>5, <1>4
  <2>7. r[i][k].name = s /\ i \in 1 .. Len(r)
    BY <2>1, <2>6, <1>5
  <2> QED BY <2>7 DEF Has
<1> QED BY <1>3, <1>6, <1>7

\* A symbol whose name is new to the table, and the first of it in the file, goes in.
LEMMA InternFacts ==
  ASSUME NEW l \in Dlls, NEW t, GoodTable(l, t), NEW j \in Defined(l),
         \A i \in Theirs(l, SymTab[l][j].name) : i < j => Has(t, SymTab[l][j].name)
  PROVE  LET u == InternSymbol(t, SymTab[l][j].name, Address(l, j)) IN
         /\ GoodTable(l, u) /\ Has(u, SymTab[l][j].name)
         /\ \A s : Has(t, s) => Has(u, s)
<1>1. PICK name \in SymbolNames : name = SymTab[l][j].name /\ j \in Theirs(l, name)
  BY TheirsAre
<1>2. CASE FindSymbolBucket(t, name) # {}
  <2>1. Has(t, name) /\ InternSymbol(t, name, Address(l, j)) = t
    BY <1>2, FoundInBucket DEF InternSymbol
  <2> QED BY <1>1, <2>1
<1>3. CASE FindSymbolBucket(t, name) = {}
  <2>1. ~ Has(t, name)
    BY <1>3, FoundInBucket
  <2>2. FirstIn(Theirs(l, name)) = j
    <3>1. Theirs(l, name) \in SUBSET Nat /\ Theirs(l, name) # {}
      BY <1>1, TheirsAre
    <3>2. PICK f \in Nat : f = FirstIn(Theirs(l, name)) /\ f \in Theirs(l, name) /\ f <= j
      BY <3>1, <1>1, FirstInFacts
    <3>3. ~ (f < j)
      BY <3>2, <2>1, <1>1
    <3>4. j \in Nat
      BY <3>1, <1>1
    <3> QED BY <3>2, <3>3, <3>4
  <2>3. t \in Seq(Seq(SymbolsOf(l))) /\ Len(t) \in Nat /\ Len(t) >= 1
    BY DEF GoodTable
  <2>4. PICK n \in Nat : n = Len(t)
    BY <2>3
  <2>5. PICK b \in 1 .. n : b = Bucket(n, name)
    BY <2>3, <2>4, BucketIn
  <2>6. PICK old \in Seq(SymbolsOf(l)) : old = t[b]
    BY <2>3, <2>4, <2>5
  <2>7. PICK sym \in SymbolsOf(l) : sym = [name |-> name, address |-> Address(l, j)]
    <3>1. j \in 1 .. Len(SymTab[l])
      BY TheirsAre
    <3> QED BY <3>1 DEF SymbolsOf
  <2>8. PICK new \in Seq(SymbolsOf(l)) : new = Append(old, sym)
    <3>1. Append(old, sym) \in Seq(SymbolsOf(l))
      OBVIOUS
    <3> QED BY <3>1
  <2>9. PICK m \in Nat : m = Len(old)
    OBVIOUS
  <2>10. Len(new) = m + 1 /\ new[m + 1] = sym /\ \A k \in 1 .. m : new[k] = old[k]
    BY <2>8, <2>9
  <2>11. PICK longer : longer = [t EXCEPT ![b] = new]
    OBVIOUS
  <2>12. /\ longer \in Seq(Seq(SymbolsOf(l))) /\ Len(longer) = n
         /\ longer[b] = new /\ \A c \in 1 .. n : c # b => longer[c] = t[c]
    <3>1. DOMAIN t = 1 .. n
      BY <2>3, <2>4
    <3> QED BY <3>1, <2>3, <2>4, <2>11
  <2>13. GoodTable(l, longer)
    <3>1. ASSUME NEW c \in 1 .. n, NEW k \in 1 .. Len(longer[c])
          PROVE  /\ Bucket(n, longer[c][k].name) = c
                 /\ Theirs(l, longer[c][k].name) # {}
                 /\ longer[c][k].address = Address(l, FirstIn(Theirs(l, longer[c][k].name)))
      <4>1. CASE c = b /\ k = m + 1
        <5>1. longer[c][k] = sym /\ sym.name = name /\ sym.address = Address(l, j)
          BY <4>1, <2>7, <2>10, <2>12
        <5> QED BY <5>1, <4>1, <2>2, <2>5, <1>1
      <4>2. CASE ~ (c = b /\ k = m + 1)
        <5>1. k \in 1 .. Len(t[c]) /\ longer[c][k] = t[c][k]
          <6>1. CASE c = b
            <7>1. k \in 1 .. m + 1 /\ k # m + 1
              BY <6>1, <4>2, <2>10, <2>12
            <7>2. k \in 1 .. m
              BY <7>1
            <7> QED BY <7>2, <6>1, <2>6, <2>9, <2>10, <2>12
          <6>2. CASE c # b
            BY <6>2, <2>12
          <6> QED BY <6>1, <6>2
        <5>2. /\ Bucket(n, t[c][k].name) = c
              /\ Theirs(l, t[c][k].name) # {}
              /\ t[c][k].address = Address(l, FirstIn(Theirs(l, t[c][k].name)))
          BY <5>1, <2>4 DEF GoodTable
        <5> QED BY <5>1, <5>2
      <4> QED BY <4>1, <4>2
    <3> QED BY <3>1, <2>3, <2>4, <2>12 DEF GoodTable
  <2>14. Has(longer, name)
    <3>1. b \in 1 .. Len(longer) /\ m + 1 \in 1 .. Len(longer[b]) /\ longer[b][m + 1].name = name
      BY <2>7, <2>10, <2>12
    <3> QED BY <3>1 DEF Has
  <2>15. ASSUME NEW s, Has(t, s) PROVE Has(longer, s)
    <3>1. PICK c \in 1 .. n : \E k \in 1 .. Len(t[c]) : t[c][k].name = s
      BY <2>4, <2>15 DEF Has
    <3>2. PICK k \in 1 .. Len(t[c]) : t[c][k].name = s
      BY <3>1
    <3>3. k \in 1 .. Len(longer[c]) /\ longer[c][k] = t[c][k]
      <4>1. CASE c = b
        <5>1. k \in 1 .. m /\ k \in 1 .. m + 1
          BY <4>1, <2>6, <2>9
        <5> QED BY <5>1, <4>1, <2>6, <2>10, <2>12
      <4>2. CASE c # b
        BY <4>2, <2>12
      <4> QED BY <4>1, <4>2
    <3> QED BY <3>2, <3>3, <2>12 DEF Has
  <2>16. InternSymbol(t, name, Address(l, j)) =
           IF nused(longer) > Len(longer) THEN ResizeSymbolTable(longer) ELSE longer
    BY <1>3, <2>4, <2>5, <2>6, <2>7, <2>8, <2>11 DEF InternSymbol
  <2>17. /\ GoodTable(l, ResizeSymbolTable(longer))
         /\ \A s : Has(longer, s) => Has(ResizeSymbolTable(longer), s)
    BY <2>13, ResizeFacts
  <2> QED BY <1>1, <2>13, <2>14, <2>15, <2>16, <2>17
<1> QED BY <1>2, <1>3

\* Where a search for a name that is nowhere before last_pos reads, and stops.
LEMMA SearchFacts ==
  ASSUME NEW l \in Dlls, NEW s, NEW p \in Nat, \A i \in Theirs(l, s) : i > p
  PROVE  /\ Theirs(l, s) = {} => LastPos(l, s, p) = p
         /\ Theirs(l, s) # {} => /\ LastPos(l, s, p) = FirstIn(Theirs(l, s))
                                 /\ LastPos(l, s, p) \in Theirs(l, s) /\ LastPos(l, s, p) > p
         /\ LastPos(l, s, p) \in Nat
         /\ \A i \in Defined(l) : i <= LastPos(l, s, p) => i <= p \/ i \in Scanned(l, s, p)
         /\ Scanned(l, s, p) \subseteq Defined(l)
         /\ \A i \in Scanned(l, s, p) :
              i > p /\ \A k \in Defined(l) : k > p /\ k < i => k \in Scanned(l, s, p)
<1>1. /\ Theirs(l, s) \in SUBSET Nat /\ Defined(l) \subseteq 1 .. Len(SymTab[l])
      /\ Len(SymTab[l]) \in Nat /\ Theirs(l, s) \subseteq Defined(l)
  BY TheirsAre
<1>2. Hits(l, s, p) = Theirs(l, s)
  BY DEF Hits
<1>3. Scanned(l, s, p) = { i \in Defined(l) : i > p /\ \A h \in Theirs(l, s) : i <= h }
  BY <1>2 DEF Scanned
<1>4. \A i \in Defined(l) : i \in Nat
  BY <1>1
<1>5. \A i \in Scanned(l, s, p) : i > p /\ \A k \in Defined(l) : k > p /\ k < i => k \in Scanned(l, s, p)
  <2> SUFFICES ASSUME NEW i \in Scanned(l, s, p), NEW k \in Defined(l), k > p, k < i
               PROVE  \A h \in Theirs(l, s) : k <= h
    BY <1>3
  <2>1. \A h \in Theirs(l, s) : i <= h /\ h \in Nat
    BY <1>1, <1>3
  <2>2. i \in Nat /\ k \in Nat
    BY <1>3, <1>4
  <2> QED BY <2>1, <2>2
<1>6. CASE Theirs(l, s) = {}
  <2>1. LastPos(l, s, p) = p
    BY <1>2, <1>6 DEF LastPos
  <2> QED BY <1>3, <1>5, <1>6, <2>1
<1>7. CASE Theirs(l, s) # {}
  <2>1. LastPos(l, s, p) = FirstIn(Theirs(l, s))
    BY <1>2, <1>7 DEF LastPos
  <2>2. PICK f \in Nat : f = FirstIn(Theirs(l, s)) /\ f \in Theirs(l, s) /\ \A h \in Theirs(l, s) : f <= h
    BY <1>1, <1>7, FirstInFacts
  <2>3. ASSUME NEW i \in Defined(l), i <= f PROVE i <= p \/ i \in Scanned(l, s, p)
    <3>1. i \in Nat /\ \A h \in Theirs(l, s) : h \in Nat /\ i <= h
      BY <1>1, <1>4, <2>2, <2>3
    <3> QED BY <3>1, <1>3
  <2> QED BY <1>3, <1>5, <1>7, <2>1, <2>2, <2>3
<1> QED BY <1>6, <1>7

\* What memutils passes goes into its table, and all it knew stays.
LEMMA InternedFacts ==
  ASSUME NEW l \in Dlls, NEW s, NEW p \in Nat, \A i \in Theirs(l, s) : i > p,
         NEW t, GoodTable(l, t), \A i \in Defined(l) : i <= p => Has(t, SymTab[l][i].name)
  PROVE  LET u == Interned(t, l, s, p) IN
         /\ GoodTable(l, u)
         /\ \A i \in Scanned(l, s, p) : Has(u, SymTab[l][i].name)
         /\ \A x : Has(t, x) => Has(u, x)
<1>1. PICK n \in Nat : n = Len(SymTab[l])
  BY TheirsAre
<1> DEFINE scanned == Scanned(l, s, p)
           Goes(i, u) == IF i \in scanned THEN InternSymbol(u, SymTab[l][i].name, Address(l, i)) ELSE u
           Links(f) == f = [i \in 0 .. Len(SymTab[l]) |-> IF i = 0 THEN t
             ELSE IF i \in scanned THEN InternSymbol(f[i - 1], SymTab[l][i].name, Address(l, i))
             ELSE f[i - 1]]
           chain == CHOOSE f : Links(f)
<1>2. Interned(t, l, s, p) = chain[Len(SymTab[l])]
  BY DEF Interned
<1> DEFINE Chain(f) == f = [i \in 0 .. n |-> IF i = 0 THEN t ELSE Goes(i, f[i - 1])]
<1>3. \A f : Links(f) <=> Chain(f)
  BY <1>1
<1> HIDE DEF chain, Links
<1> DEFINE Keeps(u, i) ==
             /\ GoodTable(l, u)
             /\ \A k \in scanned : k <= i => Has(u, SymTab[l][k].name)
             /\ \A x : Has(t, x) => Has(u, x)
<1>s. /\ scanned \subseteq Defined(l) /\ Defined(l) \subseteq 1 .. n
      /\ \A i \in scanned : i > p /\ \A k \in Defined(l) : k > p /\ k < i => k \in scanned
  BY <1>1, SearchFacts, TheirsAre
<1> HIDE DEF scanned
<1>4. Keeps(t, 0)
  <2>1. \A k \in scanned : k \in 1 .. n
    BY <1>s
  <2>2. \A k \in scanned : ~ (k <= 0)
    BY <2>1
  <2> QED BY <2>2
<1>5. ASSUME NEW i \in 1 .. n, NEW u, Keeps(u, i - 1) PROVE Keeps(Goes(i, u), i)
  <2>n. \A k \in scanned : k \in Nat
    BY <1>s
  <2>1. CASE i \in scanned
    <3>1. PICK v : v = InternSymbol(u, SymTab[l][i].name, Address(l, i))
      OBVIOUS
    <3>2. \A k \in Theirs(l, SymTab[l][i].name) : k < i => Has(u, SymTab[l][i].name)
      <4> SUFFICES ASSUME NEW k \in Theirs(l, SymTab[l][i].name), k < i PROVE Has(u, SymTab[l][i].name)
        OBVIOUS
      <4>1. k \in Defined(l) /\ k \in Nat /\ SymTab[l][k].name = SymTab[l][i].name
        <5>1. k \in Defined(l) /\ k \in Nat
          BY TheirsAre
        <5> QED BY <5>1 DEF Theirs
      <4>2. CASE k <= p
        BY <4>1, <4>2, <1>5
      <4>3. CASE ~ (k <= p)
        <5>1. k \in scanned /\ k <= i - 1
          BY <4>1, <4>3, <2>1, <1>s
        <5> QED BY <4>1, <5>1, <1>5
      <4> QED BY <4>2, <4>3
    <3>3. GoodTable(l, v) /\ Has(v, SymTab[l][i].name) /\ \A x : Has(u, x) => Has(v, x)
      BY <2>1, <3>1, <3>2, <1>5, <1>s, InternFacts
    <3>4. ASSUME NEW k \in scanned, k <= i PROVE Has(v, SymTab[l][k].name)
      <4>1. CASE k = i
        BY <4>1, <3>3
      <4>2. CASE k # i
        <5>1. k <= i - 1
          BY <2>n, <3>4, <4>2
        <5> QED BY <5>1, <3>3, <1>5
      <4> QED BY <4>1, <4>2
    <3>5. \A x : Has(t, x) => Has(v, x)
      BY <3>3, <1>5
    <3>6. Goes(i, u) = v
      BY <2>1, <3>1
    <3> HIDE DEF Goes
    <3> QED BY <3>3, <3>4, <3>5, <3>6
  <2>2. CASE i \notin scanned
    <3>1. Goes(i, u) = u
      BY <2>2
    <3>2. \A k \in scanned : k <= i => k <= i - 1
      BY <2>2, <2>n
    <3> HIDE DEF Goes
    <3> QED BY <3>1, <3>2, <1>5
  <2> QED BY <2>1, <2>2
<1> HIDE DEF Goes
<1> DEFINE V == Seq(Seq(SymbolsOf(l)))
           step == [i \in 1 .. n |-> [u \in V |-> IF Goes(i, u) \in V THEN Goes(i, u) ELSE u]]
<1>6. step \in [1 .. n -> [V -> V]]
  <2> HIDE DEF V
  <2> QED OBVIOUS
<1>v. \A u, i : Keeps(u, i) => u \in V
  BY DEF GoodTable
<1> HIDE DEF Keeps
<1>7. PICK g : MadeUpTo(g, n, V, t, step)
  <2>1. t \in V
    BY DEF GoodTable
  <2> HIDE DEF V, step
  <2> QED BY <2>1, <1>6, RangeRec
<1> HIDE DEF V
<1>g. g \in [0 .. n -> V] /\ g[0] = t /\ \A i \in 1 .. n : g[i] = step[i][g[i - 1]]
  BY <1>7 DEF MadeUpTo
<1>8. ASSUME NEW i \in 1 .. n, Keeps(g[i - 1], i - 1) PROVE g[i] = Goes(i, g[i - 1])
  <2>1. Goes(i, g[i - 1]) \in V /\ g[i - 1] \in V
    BY <1>5, <1>8, <1>v
  <2> QED BY <2>1, <1>g
<1> DEFINE T == { i \in 0 .. n : Keeps(g[i], i) }
<1>9. \A i \in 0 .. n : i \in T
  <2>1. 0 \in T
    BY <1>4, <1>g
  <2>2. ASSUME NEW i \in 1 .. n, i - 1 \in T PROVE i \in T
    <3>1. Keeps(g[i - 1], i - 1)
      BY <2>2
    <3> QED BY <3>1, <1>5, <1>8
  <2> HIDE DEF T
  <2> QED BY <2>1, <2>2, RangeInduct
<1>10. Chain(g)
  <2>1. ASSUME NEW i \in 0 .. n PROVE g[i] = IF i = 0 THEN t ELSE Goes(i, g[i - 1])
    <3>1. CASE i = 0
      BY <3>1, <1>g
    <3>2. CASE i # 0
      <4>1. i \in 1 .. n /\ i - 1 \in 0 .. n
        BY <3>2
      <4>2. Keeps(g[i - 1], i - 1)
        BY <4>1, <1>9
      <4> QED BY <3>2, <4>1, <4>2, <1>8
    <3> QED BY <3>1, <3>2
  <2> QED BY <2>1, <1>g
<1>11. Chain(chain)
  <2>1. Links(g)
    BY <1>3, <1>10
  <2>2. Links(chain)
    <3> HIDE DEF Chain
    <3> QED BY <2>1 DEF chain
  <2> QED BY <2>2, <1>3
<1> DEFINE U == { i \in 0 .. n : Keeps(chain[i], i) }
<1>12. \A i \in 0 .. n : i \in U
  <2>1. 0 \in U
    <3>1. chain[0] = t
      BY <1>11
    <3> QED BY <3>1, <1>4
  <2>2. ASSUME NEW i \in 1 .. n, i - 1 \in U PROVE i \in U
    <3>1. Keeps(chain[i - 1], i - 1)
      BY <2>2
    <3>2. i \in 0 .. n /\ i # 0
      OBVIOUS
    <3>3. chain[i] = Goes(i, chain[i - 1])
      BY <3>2, <1>11
    <3> QED BY <3>1, <3>2, <3>3, <1>5
  <2> HIDE DEF U
  <2> QED BY <2>1, <2>2, RangeInduct
<1>13. Keeps(chain[n], n)
  BY <1>12
<1>14. \A k \in scanned : k <= n
  <2>1. \A k \in scanned : k \in 1 .. n
    BY <1>s
  <2> QED BY <2>1
<1>15. PICK u : u = Interned(t, l, s, p) /\ Keeps(u, n)
  BY <1>1, <1>2, <1>13
<1> QED BY <1>14, <1>15 DEF Keeps, scanned

\* What SymbolFinder passes goes into its map, and all it knew stays.
LEMMA NotedFacts ==
  ASSUME NEW l \in Dlls, NEW s, NEW p \in Nat, \A i \in Theirs(l, s) : i > p, NEW t, GoodMap(l, t)
  PROVE  LET u == Noted(t, l, s, p) IN
         /\ GoodMap(l, u)
         /\ \A i \in Scanned(l, s, p) : u[SymTab[l][i].name] # NoAddress
         /\ \A x \in SymbolNames : t[x] # NoAddress => u[x] # NoAddress
<1>1. PICK n \in Nat : n = Len(SymTab[l])
  BY TheirsAre
<1> DEFINE scanned == Scanned(l, s, p)
           Goes(i, u) == IF i \in scanned THEN [u EXCEPT ![SymTab[l][i].name] = Address(l, i)] ELSE u
           Links(f) == f = [i \in 0 .. Len(SymTab[l]) |-> IF i = 0 THEN t
             ELSE IF i \in scanned THEN [f[i - 1] EXCEPT ![SymTab[l][i].name] = Address(l, i)] ELSE f[i - 1]]
           chain == CHOOSE f : Links(f)
<1>2. Noted(t, l, s, p) = chain[Len(SymTab[l])]
  BY DEF Noted
<1> DEFINE Chain(f) == f = [i \in 0 .. n |-> IF i = 0 THEN t ELSE Goes(i, f[i - 1])]
<1>3. \A f : Links(f) <=> Chain(f)
  BY <1>1
<1> HIDE DEF chain, Links
<1> DEFINE V == [SymbolNames -> AddressesOf(l) \cup {NoAddress}]
           Keeps(u, i) ==
             /\ GoodMap(l, u)
             /\ \A k \in scanned : k <= i => u[SymTab[l][k].name] # NoAddress
             /\ \A x \in SymbolNames : t[x] # NoAddress => u[x] # NoAddress
<1>s. scanned \subseteq Defined(l) /\ Defined(l) \subseteq 1 .. n
  BY <1>1, SearchFacts, TheirsAre
<1>n. \A k \in scanned : k \in 1 .. n
  BY <1>s
<1>a. ASSUME NEW i \in scanned
      PROVE  /\ SymTab[l][i].name \in SymbolNames /\ i \in Theirs(l, SymTab[l][i].name)
             /\ Address(l, i) \in AddressesOf(l) /\ Address(l, i) # NoAddress
  <2>1. i \in Defined(l) /\ i \in 1 .. Len(SymTab[l])
    BY <1>1, <1>s
  <2>2. Address(l, i) \in AddressesOf(l)
    BY <2>1 DEF AddressesOf
  <2>3. Address(l, i) # NoAddress
    BY <2>1, SymAssumption DEF Address
  <2> QED BY <2>1, <2>2, <2>3, TheirsAre
<1> HIDE DEF scanned
<1>4. Keeps(t, 0)
  <2>1. \A k \in scanned : ~ (k <= 0)
    BY <1>n
  <2> QED BY <2>1
<1>c. ASSUME NEW i \in 1 .. n, NEW u \in V PROVE Goes(i, u) \in V
  <2>1. CASE i \in scanned
    <3>1. [u EXCEPT ![SymTab[l][i].name] = Address(l, i)] \in V
      BY <2>1, <1>a
    <3> QED BY <2>1, <3>1
  <2>2. CASE i \notin scanned
    BY <2>2
  <2> QED BY <2>1, <2>2
<1>5. ASSUME NEW i \in 1 .. n, NEW u, Keeps(u, i - 1) PROVE Keeps(Goes(i, u), i)
  <2>1. CASE i \in scanned
    <3>1. PICK x \in SymbolNames : x = SymTab[l][i].name /\ i \in Theirs(l, x)
      BY <2>1, <1>a
    <3>2. PICK v : v = [u EXCEPT ![x] = Address(l, i)]
      OBVIOUS
    <3>3. u \in V /\ v \in V /\ v[x] = Address(l, i) /\ v[x] # NoAddress
          /\ \A y \in SymbolNames : y # x => v[y] = u[y]
      BY <3>1, <3>2, <2>1, <1>a, <1>5 DEF GoodMap
    <3>4. GoodMap(l, v)
      <4>1. ASSUME NEW y \in SymbolNames, v[y] # NoAddress PROVE \E k \in Theirs(l, y) : v[y] = Address(l, k)
        <5>1. CASE y = x
          BY <5>1, <3>1, <3>3
        <5>2. CASE y # x
          BY <5>2, <4>1, <3>3, <1>5 DEF GoodMap
        <5> QED BY <5>1, <5>2
      <4> QED BY <4>1, <3>3 DEF GoodMap
    <3>5. ASSUME NEW y \in SymbolNames, u[y] # NoAddress PROVE v[y] # NoAddress
      BY <3>3, <3>5
    <3>6. ASSUME NEW k \in scanned, k <= i PROVE v[SymTab[l][k].name] # NoAddress
      <4>1. CASE k = i
        BY <4>1, <3>1, <3>3
      <4>2. CASE k # i
        <5>1. k <= i - 1 /\ SymTab[l][k].name \in SymbolNames
          BY <1>n, <1>a, <3>6, <4>2
        <5> QED BY <5>1, <3>5, <1>5
      <4> QED BY <4>1, <4>2
    <3>7. Goes(i, u) = v
      BY <2>1, <3>1, <3>2
    <3> HIDE DEF Goes
    <3> QED BY <3>4, <3>5, <3>6, <3>7, <1>5
  <2>2. CASE i \notin scanned
    <3>1. Goes(i, u) = u
      BY <2>2
    <3>2. \A k \in scanned : k <= i => k <= i - 1
      BY <2>2, <1>n
    <3> HIDE DEF Goes
    <3> QED BY <3>1, <3>2, <1>5
  <2> QED BY <2>1, <2>2
<1> HIDE DEF Goes
<1> DEFINE step == [i \in 1 .. n |-> [u \in V |-> Goes(i, u)]]
<1>6. step \in [1 .. n -> [V -> V]]
  <2> HIDE DEF V
  <2> QED BY <1>c
<1>7. PICK g : MadeUpTo(g, n, V, t, step)
  <2>1. t \in V
    BY DEF GoodMap
  <2> HIDE DEF V, step
  <2> QED BY <2>1, <1>6, RangeRec
<1> HIDE DEF V
<1>g. g \in [0 .. n -> V] /\ g[0] = t /\ \A i \in 1 .. n : g[i] = step[i][g[i - 1]]
  BY <1>7 DEF MadeUpTo
<1>10. Chain(g)
  <2>1. ASSUME NEW i \in 0 .. n PROVE g[i] = IF i = 0 THEN t ELSE Goes(i, g[i - 1])
    <3>1. CASE i = 0
      BY <3>1, <1>g
    <3>2. CASE i # 0
      <4>1. i \in 1 .. n /\ i - 1 \in 0 .. n
        BY <3>2
      <4>2. g[i - 1] \in V
        BY <4>1, <1>g
      <4> QED BY <3>2, <4>1, <4>2, <1>g
    <3> QED BY <3>1, <3>2
  <2> QED BY <2>1, <1>g
<1>11. Chain(chain)
  <2>1. Links(g)
    BY <1>3, <1>10
  <2>2. Links(chain)
    <3> HIDE DEF Chain
    <3> QED BY <2>1 DEF chain
  <2> QED BY <2>2, <1>3
<1> HIDE DEF Keeps
<1> DEFINE U == { i \in 0 .. n : Keeps(chain[i], i) }
<1>12. \A i \in 0 .. n : i \in U
  <2>1. 0 \in U
    <3>1. chain[0] = t
      BY <1>11
    <3> QED BY <3>1, <1>4
  <2>2. ASSUME NEW i \in 1 .. n, i - 1 \in U PROVE i \in U
    <3>1. Keeps(chain[i - 1], i - 1)
      BY <2>2
    <3>2. i \in 0 .. n /\ i # 0
      OBVIOUS
    <3>3. chain[i] = Goes(i, chain[i - 1])
      BY <3>2, <1>11
    <3> QED BY <3>1, <3>2, <3>3, <1>5
  <2> HIDE DEF U
  <2> QED BY <2>1, <2>2, RangeInduct
<1>13. Keeps(chain[n], n)
  BY <1>12
<1>14. \A k \in scanned : k <= n
  BY <1>n
<1>15. PICK u : u = Noted(t, l, s, p) /\ Keeps(u, n)
  BY <1>1, <1>2, <1>13
<1> QED BY <1>14, <1>15 DEF Keeps, scanned

\* No library is known by the table of another.
LEMMA OwnTable ==
  ASSUME SymInv, NEW l \in Dlls, NEW known, tables' = [tables EXCEPT ![lib_base[l]] = known]
  PROVE  /\ DOMAIN tables' = Bases /\ tables'[lib_base[l]] = known
         /\ \A m \in Dlls : m # l => tables'[lib_base[m]] = tables[lib_base[m]]
<1>1. lib_base[l] \in DOMAIN tables
  BY DEF SymInv, Bases
<1>2. \A m \in Dlls : lib_base[m] \in DOMAIN tables /\ (m # l => lib_base[m] # lib_base[l])
  BY SymAssumption DEF SymInv, Bases
<1> QED BY <1>1, <1>2 DEF SymInv

\* An answer from what is known.
LEMMA CachedKeeps ==
  ASSUME SymInv, UNCHANGED finder, NEW l \in Dlls, NEW s \in SymbolNames, NEW address,
         Knows(finder, tables[lib_base[l]].table, s), Cached(l, s, address),
         address # NoAddress, \E i \in Theirs(l, s) : address = Address(l, i),
         finder = "memutils" => address = Address(l, FirstIn(Theirs(l, s)))
  PROVE  SymInv'
<1>1. /\ resolved' = [lib |-> l, symbol |-> s, address |-> address, failed |-> FALSE]
      /\ located' = located \cup {<<l, s>>} /\ tables' = tables /\ finder' = finder
  BY DEF Cached, Replies
<1>2. SymbolsAreTheirs'
  BY <1>1 DEF SymbolsAreTheirs
<1>3. \A m \in Dlls, x \in SymbolNames :
        <<m, x>> \in located' => Knows(finder, tables[lib_base[m]].table, x)
  BY <1>1 DEF SymInv
<1> QED BY <1>1, <1>2, <1>3 DEF SymInv

\* No answer: the file cannot be read.
LEMMA UnreadKeeps ==
  ASSUME SymInv, UNCHANGED finder, NEW l \in Dlls, NEW s \in SymbolNames,
         ~ Knows(finder, tables[lib_base[l]].table, s), Unread(l, s)
  PROVE  SymInv'
<1>1. /\ resolved' = [lib |-> l, symbol |-> s, address |-> NoAddress, failed |-> TRUE]
      /\ located' = located /\ tables' = tables /\ finder' = finder
  BY DEF Unread, Replies
<1>2. <<l, s>> \notin located
  BY DEF SymInv
<1>3. SymbolsAreTheirs'
  BY <1>1, <1>2 DEF SymbolsAreTheirs
<1> QED BY <1>1, <1>3 DEF SymInv

\* A search: nothing before last_pos has the name, so what it stops at is the first.
LEMMA SearchedKeeps ==
  ASSUME SymInv, UNCHANGED finder, NEW l \in Dlls, NEW s \in SymbolNames, NEW known, NEW table,
         known = tables[lib_base[l]], ~ Knows(finder, known.table, s), Searched(l, s, known, table),
         \A i \in Scanned(l, s, known.last_pos) : Knows(finder, table, SymTab[l][i].name),
         \A x \in SymbolNames : Knows(finder, known.table, x) => Knows(finder, table, x),
         finder = "memutils" => GoodTable(l, table), finder = "SymbolFinder" => GoodMap(l, table)
  PROVE  SymInv'
<1>1. PICK p \in Nat : p = known.last_pos
  BY DEF SymInv, LibraryInv
<1>2. \A i \in Defined(l) : i <= p => Knows(finder, known.table, SymTab[l][i].name)
  BY <1>1 DEF SymInv, LibraryInv
<1>3. \A i \in Theirs(l, s) : i > p
  <2> SUFFICES ASSUME NEW i \in Theirs(l, s), ~ (i > p) PROVE FALSE
    OBVIOUS
  <2>1. i \in Nat /\ i \in Defined(l) /\ SymTab[l][i].name = s
    <3>1. i \in Nat /\ i \in Defined(l)
      BY TheirsAre
    <3> QED BY <3>1 DEF Theirs
  <2>2. i <= p
    BY <2>1
  <2> QED BY <2>1, <2>2, <1>2
<1>4. PICK q : q = LastPos(l, s, p)
  OBVIOUS
<1>5. /\ q \in Nat
      /\ Theirs(l, s) = {} => q = p
      /\ Theirs(l, s) # {} => q = FirstIn(Theirs(l, s)) /\ q \in Theirs(l, s) /\ q > p
      /\ \A i \in Defined(l) : i <= q => i <= p \/ i \in Scanned(l, s, p)
  BY <1>3, <1>4, SearchFacts
<1>6. /\ tables' = [tables EXCEPT ![lib_base[l]] = [last_pos |-> q, table |-> table]]
      /\ Replies(l, s, IF q = p THEN NoAddress ELSE Address(l, q), FALSE)
      /\ finder' = finder
  BY <1>1, <1>4 DEF Searched
<1>7. PICK now : now = [last_pos |-> q, table |-> table]
  OBVIOUS
<1>8. DOMAIN tables' = Bases /\ tables'[lib_base[l]] = now
      /\ \A m \in Dlls : m # l => tables'[lib_base[m]] = tables[lib_base[m]]
  BY <1>6, <1>7, OwnTable
<1>9. \A i \in Defined(l) : i <= q => Knows(finder, table, SymTab[l][i].name)
  <2> SUFFICES ASSUME NEW i \in Defined(l), i <= q PROVE Knows(finder, table, SymTab[l][i].name)
    OBVIOUS
  <2>1. CASE i <= p
    <3>1. SymTab[l][i].name \in SymbolNames
      BY TheirsAre
    <3> QED BY <3>1, <2>1, <1>2
  <2>2. CASE i \in Scanned(l, s, p)
    BY <2>2, <1>1
  <2> QED BY <2>1, <2>2, <1>5
<1>10. LibraryInv(l, finder, now)
  <2>1. now.last_pos = q /\ now.table = table
    BY <1>7
  <2>2. /\ now.last_pos \in Nat
        /\ \A i \in Defined(l) : i <= now.last_pos => Knows(finder, now.table, SymTab[l][i].name)
    BY <1>5, <1>9, <2>1
  <2> QED BY <2>1, <2>2 DEF LibraryInv
<1>11. \A m \in Dlls : LibraryInv(m, finder, tables'[lib_base[m]])
  BY <1>8, <1>10 DEF SymInv
<1>12. \A m \in Dlls, x \in SymbolNames :
         Knows(finder, tables[lib_base[m]].table, x) => Knows(finder, tables'[lib_base[m]].table, x)
  <2>1. now.table = table
    BY <1>7
  <2> QED BY <2>1, <1>8
<1>13. CASE Theirs(l, s) = {}
  <2>1. /\ resolved' = [lib |-> l, symbol |-> s, address |-> NoAddress, failed |-> FALSE] /\ located' = located
    <3>1. q = p
      BY <1>5, <1>13
    <3>2. Replies(l, s, NoAddress, FALSE)
      BY <1>6, <3>1
    <3> QED BY <3>2 DEF Replies
  <2>2. <<l, s>> \notin located
    BY DEF SymInv
  <2>3. SymbolsAreTheirs'
    BY <1>13, <2>1, <2>2 DEF SymbolsAreTheirs
  <2> QED BY <1>6, <1>8, <1>11, <1>12, <2>1, <2>3 DEF SymInv
<1>14. CASE Theirs(l, s) # {}
  <2>1. PICK address : address = Address(l, q)
    OBVIOUS
  <2>2. address # NoAddress
    <3>1. q \in 1 .. Len(SymTab[l])
      BY <1>5, <1>14, TheirsAre
    <3> QED BY <3>1, <2>1, SymAssumption DEF Address
  <2>3. q # p
    BY <1>5, <1>14
  <2>4. resolved' = [lib |-> l, symbol |-> s, address |-> address, failed |-> FALSE]
        /\ located' = located \cup {<<l, s>>}
    BY <1>6, <2>1, <2>2, <2>3 DEF Replies
  <2>5. SymbolsAreTheirs'
    BY <1>5, <1>14, <2>1, <2>2, <2>4 DEF SymbolsAreTheirs
  <2>6. Knows(finder, table, s)
    <3>1. q \in Defined(l) /\ SymTab[l][q].name = s
      BY <1>5, <1>14, TheirsAre DEF Theirs
    <3>2. q <= q
      BY <1>5
    <3>3. Knows(finder, table, SymTab[l][q].name)
      BY <3>1, <3>2, <1>9
    <3> QED BY <3>1, <3>3
  <2>7. Knows(finder, tables'[lib_base[l]].table, s)
    BY <2>6, <1>7, <1>8
  <2>8. ASSUME NEW m \in Dlls, NEW x \in SymbolNames, <<m, x>> \in located'
        PROVE  Knows(finder, tables'[lib_base[m]].table, x)
    BY <2>4, <2>7, <2>8, <1>12 DEF SymInv
  <2> QED BY <1>6, <1>8, <1>11, <2>5, <2>8 DEF SymInv
<1> QED BY <1>13, <1>14

\* Both finders know every symbol they have passed, and nothing false.
THEOREM SymbolsInvariant == SymSpec => []SymInv
<1>1. SymInit => SymInv
  <2> SUFFICES ASSUME SymInit PROVE SymInv
    OBVIOUS
  <2>0. resolved = NoAddress /\ located = {} /\ finder \in {"memutils", "SymbolFinder"} /\ DOMAIN tables = Bases
    BY DEF SymInit
  <2>1. SymbolsAreTheirs
    BY <2>0 DEF SymbolsAreTheirs
  <2>2. ASSUME NEW l \in Dlls PROVE LibraryInv(l, finder, tables[lib_base[l]])
    <3>0. lib_base[l] \in Bases
      BY DEF Bases
    <3>1. \A i \in Defined(l) : ~ (i <= 0)
      <4>1. \A i \in Defined(l) : i \in 1 .. Len(SymTab[l])
        BY TheirsAre
      <4> QED BY <4>1
    <3>2. PICK known : known = tables[lib_base[l]]
      OBVIOUS
    <3>3. CASE finder = "memutils"
      <4>1. PICK table : table = [i \in 1 .. START_SIZE |-> <<>>]
        OBVIOUS
      <4>2. known.last_pos = 0 /\ known.table = table
        <5>1. tables = [b \in Bases |-> NewSymbols([i \in 1 .. START_SIZE |-> <<>>])]
          BY <3>3 DEF SymInit
        <5>2. known = NewSymbols(table)
          BY <5>1, <3>0, <3>2, <4>1
        <5> QED BY <5>2 DEF NewSymbols
      <4>3. table \in Seq(Seq(SymbolsOf(l))) /\ Len(table) = START_SIZE /\ START_SIZE >= 1
        BY <4>1, SymAssumption
      <4>4. \A b \in 1 .. Len(table) : Len(table[b]) = 0
        BY <4>1, <4>3
      <4>5. GoodTable(l, table)
        BY <4>3, <4>4 DEF GoodTable
      <4> QED BY <3>1, <3>2, <3>3, <4>2, <4>5 DEF LibraryInv
    <3>4. CASE finder = "SymbolFinder"
      <4>1. PICK table : table = [x \in SymbolNames |-> NoAddress]
        OBVIOUS
      <4>2. known.last_pos = 0 /\ known.table = table
        <5>1. tables = [b \in Bases |-> NewSymbols([x \in SymbolNames |-> NoAddress])]
          BY <3>4 DEF SymInit
        <5>2. known = NewSymbols(table)
          BY <5>1, <3>0, <3>2, <4>1
        <5> QED BY <5>2 DEF NewSymbols
      <4>3. GoodMap(l, table)
        BY <4>1 DEF GoodMap
      <4> QED BY <3>1, <3>2, <3>4, <4>2, <4>3 DEF LibraryInv
    <3> QED BY <2>0, <3>3, <3>4
  <2> QED BY <2>0, <2>1, <2>2 DEF SymInv
<1>2. SymInv /\ [SymNext]_symVars => SymInv'
  <2> SUFFICES ASSUME SymInv, [SymNext]_symVars PROVE SymInv'
    OBVIOUS
  <2>1. ASSUME NEW l \in Dlls, NEW s \in SymbolNames, ResolveSymbol(l, s) PROVE SymInv'
    <3>0. PICK known : known = tables[lib_base[l]]
      OBVIOUS
    <3>1. finder = "memutils" /\ finder' = finder
      BY <2>1 DEF ResolveSymbol
    <3>2. GoodTable(l, known.table) /\ known.last_pos \in Nat
          /\ \A i \in Defined(l) : i <= known.last_pos => Has(known.table, SymTab[l][i].name)
      BY <3>0, <3>1 DEF SymInv, LibraryInv, Knows
    <3>3. PICK cached : cached = FindSymbolBucket(known.table, s)
      OBVIOUS
    <3>4. cached \in SUBSET Nat /\ (Has(known.table, s) <=> cached # {})
      BY <3>2, <3>3, FoundInBucket
    <3>5. \A f : Knows(finder, f, s) <=> Has(f, s)
      BY <3>1 DEF Knows
    <3>6. CASE cached # {} /\ Cached(l, s, known.table[Bucket(Len(known.table), s)][FirstIn(cached)].address)
      <4>1. FirstIn(cached) \in cached
        BY <3>4, <3>6, FirstInFacts
      <4>2. PICK address : address = known.table[Bucket(Len(known.table), s)][FirstIn(cached)].address
        OBVIOUS
      <4>3. Theirs(l, s) # {} /\ address = Address(l, FirstIn(Theirs(l, s)))
        BY <3>2, <3>3, <4>1, <4>2, FoundInBucket
      <4>4. FirstIn(Theirs(l, s)) \in Theirs(l, s) /\ FirstIn(Theirs(l, s)) \in 1 .. Len(SymTab[l])
        BY <4>3, TheirsAre, FirstInFacts
      <4>5. address # NoAddress
        BY <4>3, <4>4, SymAssumption DEF Address
      <4>6. Knows(finder, known.table, s)
        BY <3>4, <3>5, <3>6
      <4> QED BY <3>0, <3>1, <3>6, <4>2, <4>3, <4>4, <4>5, <4>6, CachedKeeps
    <3>7. CASE cached = {} /\ Unread(l, s)
      BY <3>0, <3>1, <3>4, <3>5, <3>7, UnreadKeeps
    <3>8. CASE cached = {} /\ Searched(l, s, known, Interned(known.table, l, s, known.last_pos))
      <4>1. ~ Has(known.table, s)
        BY <3>4, <3>8
      <4>2. \A i \in Theirs(l, s) : i > known.last_pos
        <5> SUFFICES ASSUME NEW i \in Theirs(l, s), ~ (i > known.last_pos) PROVE FALSE
          OBVIOUS
        <5>1. i \in Nat /\ i \in Defined(l)
          BY TheirsAre
        <5>2. SymTab[l][i].name = s /\ i <= known.last_pos
          BY <5>1, <3>2 DEF Theirs
        <5> QED BY <5>1, <5>2, <4>1, <3>2
      <4>3. PICK table : table = Interned(known.table, l, s, known.last_pos)
        OBVIOUS
      <4>4. /\ GoodTable(l, table)
            /\ \A i \in Scanned(l, s, known.last_pos) : Has(table, SymTab[l][i].name)
            /\ \A x : Has(known.table, x) => Has(table, x)
        BY <3>2, <4>2, <4>3, InternedFacts
      <4>5. \A f, x : Knows(finder, f, x) <=> Has(f, x)
        BY <3>1 DEF Knows
      <4>6. finder # "SymbolFinder" /\ Searched(l, s, known, table) /\ ~ Knows(finder, known.table, s)
        BY <3>1, <3>8, <4>1, <4>3, <4>5
      <4>7. /\ \A i \in Scanned(l, s, known.last_pos) : Knows(finder, table, SymTab[l][i].name)
            /\ \A x \in SymbolNames : Knows(finder, known.table, x) => Knows(finder, table, x)
        BY <4>4, <4>5
      <4> QED BY <3>0, <3>1, <4>4, <4>6, <4>7, SearchedKeeps
    <3> QED BY <2>1, <3>0, <3>3, <3>6, <3>7, <3>8 DEF ResolveSymbol
  <2>2. ASSUME NEW l \in Dlls, NEW s \in SymbolNames, FindSymbol(l, s) PROVE SymInv'
    <3>0. PICK known : known = tables[lib_base[l]]
      OBVIOUS
    <3>1. finder = "SymbolFinder" /\ finder' = finder /\ finder # "memutils"
      BY <2>2 DEF FindSymbol
    <3>2. GoodMap(l, known.table) /\ known.last_pos \in Nat
          /\ \A i \in Defined(l) : i <= known.last_pos => known.table[SymTab[l][i].name] # NoAddress
      BY <3>0, <3>1 DEF SymInv, LibraryInv, Knows
    <3>3. PICK cached : cached = known.table[s]
      OBVIOUS
    <3>5. \A f, x : Knows(finder, f, x) <=> f[x] # NoAddress
      BY <3>1 DEF Knows
    <3>6. CASE cached # NoAddress /\ Cached(l, s, cached)
      <4>1. \E i \in Theirs(l, s) : cached = Address(l, i)
        BY <3>2, <3>3, <3>6 DEF GoodMap
      <4>2. Knows(finder, known.table, s)
        BY <3>3, <3>5, <3>6
      <4> QED BY <3>0, <3>1, <3>6, <4>1, <4>2, CachedKeeps
    <3>7. CASE cached = NoAddress /\ Unread(l, s)
      BY <3>0, <3>1, <3>3, <3>5, <3>7, UnreadKeeps
    <3>8. CASE cached = NoAddress /\ Searched(l, s, known, Noted(known.table, l, s, known.last_pos))
      <4>1. \A i \in Theirs(l, s) : i > known.last_pos
        <5> SUFFICES ASSUME NEW i \in Theirs(l, s), ~ (i > known.last_pos) PROVE FALSE
          OBVIOUS
        <5>1. i \in Nat /\ i \in Defined(l)
          BY TheirsAre
        <5>2. SymTab[l][i].name = s /\ i <= known.last_pos
          BY <5>1, <3>2 DEF Theirs
        <5> QED BY <5>1, <5>2, <3>2, <3>3, <3>8
      <4>3. PICK table : table = Noted(known.table, l, s, known.last_pos)
        OBVIOUS
      <4>4. /\ GoodMap(l, table)
            /\ \A i \in Scanned(l, s, known.last_pos) : table[SymTab[l][i].name] # NoAddress
            /\ \A x \in SymbolNames : known.table[x] # NoAddress => table[x] # NoAddress
        BY <3>2, <4>1, <4>3, NotedFacts
      <4>6. Searched(l, s, known, table) /\ ~ Knows(finder, known.table, s)
        BY <3>3, <3>5, <3>8, <4>3
      <4>7. /\ \A i \in Scanned(l, s, known.last_pos) : Knows(finder, table, SymTab[l][i].name)
            /\ \A x \in SymbolNames : Knows(finder, known.table, x) => Knows(finder, table, x)
        BY <4>4, <3>5
      <4> QED BY <3>0, <3>1, <4>4, <4>6, <4>7, SearchedKeeps
    <3> QED BY <2>2, <3>0, <3>3, <3>6, <3>7, <3>8 DEF FindSymbol
  <2>3. CASE UNCHANGED symVars
    BY <2>3 DEF symVars, SymInv, SymbolsAreTheirs
  <2> QED BY <2>1, <2>2, <2>3 DEF SymNext
<1> QED BY <1>1, <1>2, PTL DEF SymSpec

\* Whatever was asked before, for any libraries, symbols, hash and size of the table: an
\* answer is a symbol of that name in that library, from ResolveSymbol the first.
THEOREM SymbolsFound == SymSpec => []SymbolsAreTheirs
<1>1. SymInv => SymbolsAreTheirs
  BY DEF SymInv
<1> QED BY <1>1, SymbolsInvariant, PTL
=============================================================================
