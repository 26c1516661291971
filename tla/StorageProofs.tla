----------------------------- MODULE StorageProofs -----------------------------
(***************************************************************************)
(* Proofs about what scripts store: LevelDb and Vfs.                       *)
(*                                                                         *)
(* Ids are unique over any number of processes, however many ids a block   *)
(* has and whatever else scripts do with the database; values are read as  *)
(* they were stored, and an iteration returns the entries there were when  *)
(* it began, for any keys in the order of leveldb.  What is written to a   *)
(* file reads back, whichever handles it went through.                     *)
(***************************************************************************)
EXTENDS LevelDb, Vfs, SeqLemmas, FiniteSetTheorems, TLAPS

Multiple(n) == n \in Nat /\ n % BLOCK = 0

UidEntry == disk[UidKey]

(* The ids of the block on disk are given to this process, and none above. *)
Reserved ==
  /\ up =>
       /\ UidEntry = Counter(UidEntry.val)
       /\ Multiple(UidEntry.val)
       /\ UidEntry.val <= curId /\ curId < UidEntry.val + BLOCK
  /\ ~up =>
       \/ UidEntry = NoEntry
       \/ UidEntry = Counter(UidEntry.val) /\ Multiple(UidEntry.val)

Next_Id == IF up THEN curId ELSE FirstId

GivenBelow == \A i \in 1..Len(given) : given[i] < Next_Id

Apart == \A i, j \in 1..Len(given) : given[i] = given[j] => i = j

Typing ==
  /\ up \in BOOLEAN
  /\ lost \in BOOLEAN
  /\ curId \in Int
  /\ given \in Seq(Int)
  /\ disk = [k \in Keys |-> disk[k]]

IInv == (lost \in BOOLEAN /\ disk = [k \in Keys |-> disk[k]])
        /\ (~lost => Typing /\ Reserved /\ GivenBelow /\ Apart)

-----------------------------------------------------------------------------

LEMMA Remainder ==
  ASSUME NEW b \in Nat \ {0}, NEW q \in Int, NEW r \in 0..(b - 1), NEW x \in Int, x = b * q + r
  PROVE  x % b = r
  OBVIOUS

(* Multiples of the block are a block apart. *)
LEMMA NextBlock ==
  ASSUME NEW n \in Nat, n % BLOCK = 0
  PROVE  (n + BLOCK) % BLOCK = 0
<1>1. BLOCK \in Nat \ {0}
  BY BlockAssumption DEF BlockAssumption
<1>2. n = BLOCK * (n \div BLOCK) + 0 /\ n \div BLOCK \in Int
  BY <1>1
<1> DEFINE q == n \div BLOCK + 1
           next == n + BLOCK
<1>3. next = BLOCK * q + 0 /\ q \in Int /\ next \in Int /\ 0 \in 0..(BLOCK - 1)
  BY <1>1, <1>2
<1>4. next % BLOCK = 0
  <2> HIDE DEF q, next
  <2> QED
    BY <1>1, <1>3, Remainder
<1> QED
  BY <1>4

LEMMA FirstBlock == 0 % BLOCK = 0
<1>1. BLOCK \in Nat \ {0}
  BY BlockAssumption DEF BlockAssumption
<1> QED
  BY <1>1

(* What a put of the counter leaves. *)
LEMMA CounterWritten ==
  ASSUME NEW id, disk = [k \in Keys |-> disk[k]],
         disk' = [disk EXCEPT ![UidKey] = Counter(id)]
  PROVE  /\ UidEntry' = Counter(id)
         /\ disk' = [k \in Keys |-> disk'[k]]
BY KeyAssumption DEF UidEntry, KeyAssumption

(* What another key is given does not touch the counter. *)
LEMMA OtherWritten ==
  ASSUME NEW k \in ScriptKeys, NEW e, disk = [x \in Keys |-> disk[x]],
         disk' = [disk EXCEPT ![k] = e]
  PROVE  /\ UidEntry' = UidEntry
         /\ disk' = [x \in Keys |-> disk'[x]]
BY DEF UidEntry, ScriptKeys

LEMMA EntriesDiffer ==
  ASSUME NEW id
  PROVE  Counter(id) # NoEntry /\ Counter(id).len = 8 /\ Counter(id).val = id
BY DEF Counter, NoEntry

(* Where the next process starts is above the block of this one. *)
LEMMA FirstIdIsMultiple ==
  ASSUME ~up, Reserved
  PROVE  Multiple(FirstId)
<1>1. CASE UidEntry = NoEntry
  BY <1>1, FirstBlock DEF FirstId, UidEntry, Multiple
<1>2. CASE UidEntry = Counter(UidEntry.val) /\ Multiple(UidEntry.val)
  <2>1. FirstId = UidEntry.val + BLOCK
    BY <1>2, EntriesDiffer DEF FirstId, UidEntry
  <2> QED
    BY <1>2, <2>1, NextBlock, BlockAssumption DEF Multiple, BlockAssumption
<1> QED
  BY <1>1, <1>2 DEF Reserved

-----------------------------------------------------------------------------

LEMMA InitEstablishes == DbInit => IInv
<1> SUFFICES ASSUME DbInit PROVE IInv
  OBVIOUS
<1>1. UidEntry = NoEntry
  BY KeyAssumption DEF DbInit, UidEntry, KeyAssumption
<1>2. Typing
  <2>1. disk = [k \in Keys |-> disk[k]]
    BY DEF DbInit
  <2>2. up \in BOOLEAN /\ lost \in BOOLEAN
    BY DEF DbInit
  <2>3. curId \in Int /\ given \in Seq(Int)
    BY DEF DbInit
  <2> QED
    BY <2>1, <2>2, <2>3 DEF Typing
<1>3. Reserved
  BY <1>1 DEF DbInit, Reserved
<1>4. GivenBelow /\ Apart
  BY DEF DbInit, GivenBelow, Apart
<1> QED
  BY <1>2, <1>3, <1>4 DEF IInv, Typing

(* What the invariant needs of a step that hands out nothing and keeps the *)
(* counter.                                                                *)
LEMMA OthersPreserve ==
  ASSUME IInv, UNCHANGED <<up, curId, given, lost>>,
         UidEntry' = UidEntry, disk' = [k \in Keys |-> disk'[k]]
  PROVE  IInv'
<1>1. FirstId' = FirstId
  BY DEF FirstId, UidEntry
<1> QED
  BY <1>1 DEF IInv, Typing, Reserved, GivenBelow, Next_Id, Apart

LEMMA StartPreserves ==
  ASSUME IInv, Start
  PROVE  IInv'
<1>1. disk' = [k \in Keys |-> disk'[k]] /\ lost' \in BOOLEAN
  BY DEF Start, updateDiskCounter, IInv
<1> SUFFICES ASSUME ~lost' PROVE (Typing /\ Reserved /\ GivenBelow /\ Apart)'
  BY <1>1 DEF IInv
<1>2. ~lost /\ curId' = FirstId /\ disk' = [disk EXCEPT ![UidKey] = Counter(FirstId)]
  BY DEF Start, updateDiskCounter
<1>3. ~up /\ up' = TRUE /\ given' = given
  BY DEF Start
<1>4. Typing /\ Reserved /\ GivenBelow /\ Apart
  BY <1>2 DEF IInv
<1>5. Multiple(FirstId)
  BY <1>3, <1>4, FirstIdIsMultiple
<1>6. UidEntry' = Counter(FirstId) /\ UidEntry'.val = FirstId
  BY <1>2, <1>4, CounterWritten, EntriesDiffer DEF Typing
<1>7. Typing'
  BY <1>1, <1>2, <1>3, <1>4, <1>5 DEF Typing, Multiple
<1>8. Reserved'
  BY <1>2, <1>3, <1>5, <1>6, BlockAssumption DEF Reserved, Multiple, BlockAssumption
<1>9. GivenBelow' /\ Apart'
  BY <1>2, <1>3, <1>4 DEF GivenBelow, Apart, Next_Id
<1> QED
  BY <1>7, <1>8, <1>9

LEMMA CrashPreserves ==
  ASSUME IInv, Crash
  PROVE  IInv'
<1>0. UNCHANGED <<disk, curId, given, lost>> /\ up /\ up' = FALSE
  BY DEF Crash
<1> SUFFICES ASSUME ~lost' PROVE (Typing /\ Reserved /\ GivenBelow /\ Apart)'
  BY <1>0 DEF IInv
<1>1. Typing /\ Reserved /\ GivenBelow /\ Apart
  BY <1>0 DEF IInv
<1>2. UidEntry' = UidEntry
  BY <1>0 DEF UidEntry
<1>3. FirstId' = UidEntry.val + BLOCK
  BY <1>0, <1>1, <1>2, EntriesDiffer DEF FirstId, UidEntry, Reserved
<1>4. curId < FirstId'
  BY <1>0, <1>1, <1>3 DEF Reserved
<1>5. GivenBelow'
  <2> SUFFICES ASSUME NEW i \in 1..Len(given) PROVE given[i] < FirstId'
    BY <1>0 DEF GivenBelow, Next_Id
  <2>1. given[i] < curId /\ given[i] \in Int
    BY <1>0, <1>1 DEF GivenBelow, Next_Id, Typing
  <2>2. FirstId' \in Int
    BY <1>0, <1>1, <1>3, BlockAssumption DEF Reserved, Multiple, BlockAssumption
  <2> QED
    BY <2>1, <2>2, <1>4, <1>1 DEF Typing
<1> QED
  BY <1>0, <1>1, <1>2, <1>5 DEF Typing, Reserved, Apart

LEMMA HandOutPreserves ==
  ASSUME IInv, getUniqueID
  PROVE  IInv'
<1>0. /\ up /\ up' = up
      /\ given' = Append(given, curId)
      /\ curId' = curId + 1
  BY DEF getUniqueID
<1>1. disk' = [k \in Keys |-> disk'[k]] /\ lost' \in BOOLEAN
  BY DEF getUniqueID, updateDiskCounter, IInv
<1> SUFFICES ASSUME ~lost' PROVE (Typing /\ Reserved /\ GivenBelow /\ Apart)'
  BY <1>1 DEF IInv
<1>2. ~lost
  BY DEF getUniqueID, updateDiskCounter
<1>3. Typing /\ Reserved /\ GivenBelow /\ Apart
  BY <1>2 DEF IInv
<1>4. Typing'
  BY <1>0, <1>1, <1>2, <1>3 DEF Typing
<1>5. GivenBelow' /\ Apart'
  BY <1>0, <1>3 DEF GivenBelow, Apart, Next_Id, Typing
<1>6. Reserved'
  <2>1. CASE (curId + 1) % BLOCK = 0
    <3>1. disk' = [disk EXCEPT ![UidKey] = Counter(curId + 1)]
      BY <2>1 DEF getUniqueID, updateDiskCounter
    <3>2. UidEntry' = Counter(curId + 1) /\ UidEntry'.val = curId + 1
      BY <3>1, <1>3, CounterWritten, EntriesDiffer DEF Typing
    <3>3. curId + 1 \in Nat
      BY <1>0, <1>3 DEF Reserved, Multiple, Typing
    <3>4. Multiple(UidEntry'.val)
      BY <2>1, <3>2, <3>3 DEF Multiple
    <3> QED
      BY <3>2, <3>3, <3>4, <1>0, BlockAssumption DEF Reserved, BlockAssumption
  <2>2. CASE (curId + 1) % BLOCK # 0
    <3>1. disk' = disk /\ UidEntry' = UidEntry
      BY <2>2 DEF getUniqueID, UidEntry
    <3>2. UidEntry.val \in Nat /\ (UidEntry.val + BLOCK) % BLOCK = 0
      BY <1>0, <1>3, NextBlock DEF Reserved, Multiple
    <3>3. curId + 1 # UidEntry.val + BLOCK
      BY <2>2, <3>2
    <3>4. curId \in Int /\ BLOCK \in Nat
      BY <1>3, BlockAssumption DEF Typing, BlockAssumption
    <3>5. UidEntry.val <= curId /\ curId < UidEntry.val + BLOCK
      BY <1>0, <1>3 DEF Reserved
    <3>6. UidEntry.val <= curId' /\ curId' < UidEntry.val + BLOCK
      <4> DEFINE n == UidEntry.val
      <4>1. n \in Nat /\ curId + 1 # n + BLOCK /\ n <= curId /\ curId < n + BLOCK
        BY <3>2, <3>3, <3>5
      <4>2. curId' = curId + 1
        BY <1>0
      <4> HIDE DEF n
      <4>3. n <= curId' /\ curId' < n + BLOCK
        BY <4>1, <4>2, <3>4
      <4> QED
        BY <4>3 DEF n
    <3>7. UidEntry = Counter(UidEntry.val) /\ Multiple(UidEntry.val)
      BY <1>0, <1>3 DEF Reserved
    <3> QED
      BY <1>0, <3>1, <3>6, <3>7, Zenon DEF Reserved
  <2> QED
    BY <2>1, <2>2
<1> QED
  BY <1>4, <1>5, <1>6

LEMMA WritePreserves ==
  ASSUME IInv, SetTyped \/ SetAny \/ Add
  PROVE  IInv'
<1>1. PICK key \in ScriptKeys : \E type, v : put(key, type, v)
  BY DEF SetTyped, SetAny, Add
<1>2. \E e : disk' = [disk EXCEPT ![key] = e] \/ disk' = disk
  BY <1>1 DEF put
<1>3. UidEntry' = UidEntry /\ disk' = [k \in Keys |-> disk'[k]]
  BY <1>2, OtherWritten DEF IInv, UidEntry
<1>4. UNCHANGED <<up, curId, given, lost>>
  BY <1>1 DEF put, SetTyped, SetAny, Add
<1> QED
  BY <1>3, <1>4, OthersPreserve

LEMMA DeletePreserves ==
  ASSUME IInv, database_delete
  PROVE  IInv'
<1>1. PICK key \in ScriptKeys : disk' = [disk EXCEPT ![key] = NoEntry] \/ disk' = disk
  BY DEF database_delete
<1>2. UidEntry' = UidEntry /\ disk' = [k \in Keys |-> disk'[k]]
  BY <1>1, OtherWritten DEF IInv, UidEntry
<1> QED
  BY <1>2, OthersPreserve DEF database_delete

LEMMA RepairPreserves ==
  ASSUME IInv, Repair
  PROVE  IInv'
<1>1. CASE UNCHANGED <<disk, said, lost, health>>
  BY <1>1, OthersPreserve DEF Repair, IInv, UidEntry
<1>2. CASE ~UNCHANGED <<disk, said, lost, health>>
  <2>1. PICK k \in Keys :
          /\ disk' \in {disk, [disk EXCEPT ![k] = NoEntry]}
          /\ lost' = (lost \/ disk'[UidKey] # disk[UidKey])
    BY <1>2 DEF Repair
  <2>2. disk' = [x \in Keys |-> disk'[x]] /\ lost' \in BOOLEAN
    BY <2>1 DEF IInv
  <2>3. CASE lost'
    BY <2>2, <2>3 DEF IInv
  <2>4. CASE ~lost'
    <3>1. UidEntry' = UidEntry /\ lost' = lost
      BY <2>1, <2>4 DEF UidEntry, IInv
    <3> QED
      BY <3>1, <2>2, OthersPreserve DEF Repair
  <2> QED
    BY <2>3, <2>4, <2>2
<1> QED
  BY <1>1, <1>2

LEMMA StepPreserves ==
  ASSUME IInv, [DbNext]_dbVars
  PROVE  IInv'
<1>1. CASE Start
  BY <1>1, StartPreserves
<1>2. CASE Repair
  BY <1>2, RepairPreserves
<1>3. CASE Crash
  BY <1>3, CrashPreserves
<1>4. CASE getUniqueID
  BY <1>4, HandOutPreserves
<1>5. CASE SetTyped \/ SetAny \/ Add
  BY <1>5, WritePreserves
<1>6. CASE database_delete
  BY <1>6, DeletePreserves
<1>7. CASE new_iter \/ \E i \in Iters : fn_iter(i) \/ gc(i)
  <2>1. UNCHANGED <<disk, up, curId, given, lost>>
    BY <1>7 DEF new_iter, fn_iter, gc
  <2> QED
    BY <2>1, OthersPreserve DEF IInv, UidEntry
<1>8. CASE UNCHANGED dbVars
  BY <1>8, OthersPreserve DEF IInv, UidEntry, dbVars
<1> QED
  BY <1>1, <1>2, <1>3, <1>4, <1>5, <1>6, <1>7, <1>8 DEF DbNext

(* The inductive invariant of the counter: the block on disk is a multiple *)
(* of BLOCK, the next id lies in it, and every id handed out is below the  *)
(* next id of this process or of the one to come.                          *)
THEOREM CounterInvariant == DbSpec => []IInv
<1>1. DbInit => IInv
  BY InitEstablishes
<1>2. IInv /\ [DbNext]_dbVars => IInv'
  BY StepPreserves
<1> QED
  BY <1>1, <1>2, PTL DEF DbSpec

(* No id is handed out twice, over all crashes and restarts and for every  *)
(* size of a block, while the counter on disk is what was last written.    *)
THEOREM UniqueIds == DbSpec => []IdsAreUnique
<1>1. IInv => IdsAreUnique
  BY DEF IInv, Apart, IdsAreUnique
<1> QED
  BY <1>1, CounterInvariant, PTL

(***************************************************************************)
(* What is stored.                                                         *)
(***************************************************************************)

(* What a script said last is what the disk holds under the key.           *)
Holds(k) ==
  said[k] # Unsaid =>
    \E type \in DOMAIN Size \cup {"string"} : \E v :
      /\ said[k] = <<type, v>> /\ disk[k] = Entry(type, v)
      /\ type = "string" => v \in Strings

StoreInv ==
  /\ said = [k \in ScriptKeys |-> said[k]] /\ disk = [k \in Keys |-> disk[k]]
  /\ \A k \in ScriptKeys : Holds(k)

LEMMA PutKeeps ==
  ASSUME StoreInv, NEW key \in ScriptKeys, NEW type \in DOMAIN Size \cup {"string"}, NEW v,
         type = "string" => v \in Strings, put(key, type, v)
  PROVE  StoreInv'
<1>1. CASE UNCHANGED <<disk, said>>
  BY <1>1 DEF StoreInv, Holds
<1>2. CASE /\ disk' = [disk EXCEPT ![key] = Entry(type, v)]
           /\ said' = [said EXCEPT ![key] = <<type, v>>]
  <2>1. /\ key \in Keys /\ ScriptKeys \subseteq Keys
        /\ said = [k \in ScriptKeys |-> said[k]] /\ disk = [k \in Keys |-> disk[k]]
    BY DEF StoreInv, ScriptKeys
  <2>2. /\ said' = [k \in ScriptKeys |-> said'[k]] /\ disk' = [k \in Keys |-> disk'[k]]
        /\ said'[key] = <<type, v>> /\ disk'[key] = Entry(type, v)
        /\ \A k \in ScriptKeys : k # key => said'[k] = said[k] /\ disk'[k] = disk[k]
    BY <1>2, <2>1
  <2>3. Holds(key)'
    BY <2>2 DEF Holds
  <2>4. \A k \in ScriptKeys : k # key => Holds(k)'
    BY <2>2 DEF StoreInv, Holds
  <2> QED BY <2>2, <2>3, <2>4 DEF StoreInv
<1> QED BY <1>1, <1>2 DEF put

LEMMA StoreStep ==
  ASSUME StoreInv, [DbNext]_dbVars
  PROVE  StoreInv'
<1>0. /\ said = [k \in ScriptKeys |-> said[k]] /\ disk = [k \in Keys |-> disk[k]]
      /\ ScriptKeys \subseteq Keys /\ UidKey \notin ScriptKeys
  BY DEF StoreInv, ScriptKeys
<1>1. ASSUME UNCHANGED said, \E id : disk' \in {disk, [disk EXCEPT ![UidKey] = Counter(id)]}
      PROVE  StoreInv'
  <2>1. disk' = [k \in Keys |-> disk'[k]] /\ \A k \in ScriptKeys : disk'[k] = disk[k]
    BY <1>0, <1>1
  <2> QED BY <1>1, <2>1 DEF StoreInv, Holds
<1>2. CASE Start
  BY <1>1, <1>2 DEF Start, updateDiskCounter
<1>3. CASE Repair
  <2>1. CASE UNCHANGED <<disk, said>>
    BY <2>1 DEF StoreInv, Holds
  <2>2. ASSUME NEW k \in Keys, disk' \in {disk, [disk EXCEPT ![k] = NoEntry]},
               said' = [x \in ScriptKeys |-> IF disk'[x] = NoEntry THEN Unsaid ELSE said[x]]
        PROVE  StoreInv'
    <3>1. /\ disk' = [x \in Keys |-> disk'[x]] /\ said' = [x \in ScriptKeys |-> said'[x]]
          /\ \A x \in ScriptKeys : disk'[x] = disk[x] \/ disk'[x] = NoEntry
      BY <1>0, <2>2
    <3>2. ASSUME NEW x \in ScriptKeys PROVE Holds(x)'
      <4>1. said'[x] = IF disk'[x] = NoEntry THEN Unsaid ELSE said[x]
        BY <2>2
      <4>2. Holds(x)
        BY DEF StoreInv
      <4> QED BY <3>1, <4>1, <4>2 DEF Holds
    <3> QED BY <3>1, <3>2 DEF StoreInv
  <2> QED BY <1>3, <2>1, <2>2 DEF Repair
<1>4. CASE getUniqueID
  BY <1>1, <1>4 DEF getUniqueID, updateDiskCounter
<1>5. CASE SetTyped
  <2>1. PICK key \in ScriptKeys, type \in DOMAIN Size \cup {"string"} :
          \E v \in Stored(type) : put(key, type, v)
    BY <1>5 DEF SetTyped
  <2>2. PICK v \in Stored(type) : put(key, type, v)
    BY <2>1
  <2>3. type = "string" => v \in Strings
    BY <2>2 DEF Stored
  <2> QED BY <2>2, <2>3, PutKeeps
<1>6. CASE SetAny
  <2>1. PICK key \in ScriptKeys, type \in DOMAIN Size \cup {"string"} :
          \E v \in IF type = "bool" THEN {0, 1} ELSE Stored(type) : put(key, type, v)
    BY <1>6 DEF SetAny
  <2>2. PICK v \in IF type = "bool" THEN {0, 1} ELSE Stored(type) : put(key, type, v)
    BY <2>1
  <2>3. type = "string" => v \in Strings
    BY <2>2 DEF Stored
  <2> QED BY <2>2, <2>3, PutKeeps
<1>7. CASE Add
  <2>1. PICK key \in ScriptKeys, type \in {"integer", "double"}, v \in Numbers :
          put(key, type, IF Got(key, type).ok THEN Got(key, type).val + v ELSE v)
    BY <1>7 DEF Add
  <2>2. type \in DOMAIN Size \cup {"string"} /\ type # "string"
    BY DEF Size
  <2> QED BY <2>1, <2>2, PutKeeps
<1>8. CASE database_delete
  <2>1. PICK key \in ScriptKeys :
          \/ /\ disk' = [disk EXCEPT ![key] = NoEntry]
             /\ said' = [said EXCEPT ![key] = Unsaid]
          \/ UNCHANGED <<disk, said>>
    BY <1>8 DEF database_delete
  <2>2. CASE UNCHANGED <<disk, said>>
    BY <2>2 DEF StoreInv, Holds
  <2>3. CASE disk' = [disk EXCEPT ![key] = NoEntry] /\ said' = [said EXCEPT ![key] = Unsaid]
    <3>1. /\ disk' = [x \in Keys |-> disk'[x]] /\ said' = [x \in ScriptKeys |-> said'[x]]
          /\ said'[key] = Unsaid
          /\ \A x \in ScriptKeys : x # key => disk'[x] = disk[x] /\ said'[x] = said[x]
      BY <1>0, <2>3
    <3> QED BY <3>1 DEF StoreInv, Holds
  <2> QED BY <2>1, <2>2, <2>3
<1>9. CASE Crash \/ new_iter \/ (\E i \in Iters : fn_iter(i) \/ gc(i)) \/ UNCHANGED dbVars
  <2>1. UNCHANGED <<disk, said>>
    BY <1>9 DEF Crash, new_iter, fn_iter, gc, dbVars
  <2> QED BY <2>1 DEF StoreInv, Holds
<1> QED
  BY <1>2, <1>3, <1>4, <1>5, <1>6, <1>7, <1>8, <1>9 DEF DbNext

LEMMA StoreReads ==
  ASSUME StoreInv
  PROVE  ReadAsStored
<1>1. SUFFICES ASSUME NEW k \in ScriptKeys, said[k] # Unsaid
               PROVE  /\ Got(k, said[k][1]) = [ok |-> TRUE, val |-> said[k][2]]
                      /\ \A t \in DOMAIN Size \ {said[k][1]} :
                           Got(k, t).ok <=> Size[t] = Entry(said[k][1], said[k][2]).len
                      /\ \A t \in DOMAIN Size : StrTo(t, Got(k, "string").val) = Got(k, t)
  BY DEF ReadAsStored
<1>2. PICK type \in DOMAIN Size \cup {"string"} : \E v :
        /\ said[k] = <<type, v>> /\ disk[k] = Entry(type, v)
        /\ type = "string" => v \in Strings
  BY <1>1 DEF StoreInv, Holds
<1>3. PICK v : /\ said[k] = <<type, v>> /\ disk[k] = Entry(type, v)
               /\ type = "string" => v \in Strings
  BY <1>2
<1>4. said[k][1] = type /\ said[k][2] = v
  BY <1>3
<1>5. /\ DOMAIN Size = {"double", "integer", "bool", "vector", "angle"}
      /\ \A t \in DOMAIN Size : Size[t] \in Nat /\ t # "string"
  BY DEF Size
<1>6. disk[k] # NoEntry
  <2>1. CASE type = "string"
    <3>1. disk[k].len \in Nat
      BY <1>3, <2>1, StringAssumption DEF Entry
    <3> QED BY <3>1 DEF NoEntry
  <2>2. CASE type # "string"
    <3>1. disk[k] = [len |-> Size[type], val |-> v] /\ Size[type] \in Nat
      BY <1>2, <1>3, <1>5, <2>2 DEF Entry, Bytes
    <3>2. disk[k].len # NoEntry.len
      BY <3>1 DEF NoEntry
    <3> QED BY <3>2
  <2> QED BY <2>1, <2>2
<1>7. Got(k, "string") = [ok |-> TRUE, val |-> disk[k]]
  BY <1>6 DEF Got
<1>8. ASSUME NEW t \in DOMAIN Size
      PROVE  Got(k, t) = IF disk[k].len = Size[t] THEN [ok |-> TRUE, val |-> disk[k].val] ELSE None
  BY <1>5 DEF Got, GotStruct, Fitting
<1>9. \A t \in DOMAIN Size : Got(k, t).ok <=> Size[t] = disk[k].len
  BY <1>8 DEF None
<1>10. Got(k, type) = [ok |-> TRUE, val |-> v]
  <2>1. CASE type = "string"
    BY <1>3, <1>7, <2>1 DEF Entry
  <2>2. CASE type # "string"
    <3>1. disk[k].len = Size[type] /\ disk[k].val = v /\ type \in DOMAIN Size
      BY <1>2, <1>3, <2>2 DEF Entry, Bytes
    <3> QED BY <1>8, <3>1
  <2> QED BY <2>1, <2>2
<1>11. \A t \in DOMAIN Size : StrTo(t, Got(k, "string").val) = Got(k, t)
  BY <1>7, <1>8 DEF StrTo
<1> QED BY <1>3, <1>4, <1>9, <1>10, <1>11

(***************************************************************************)
(* Iterations.                                                             *)
(***************************************************************************)

LEMMA InRangeIs ==
  ASSUME NEW a \in Seq(Nat), NEW b \in Seq(Nat)
  PROVE  inRange(a, b) <=> Len(a) <= Len(b) /\ \A m \in 1..Len(a) : a[m] = b[m]
<1>1. Len(a) \in Nat /\ Len(b) \in Nat
  OBVIOUS
<1>2. CASE Len(a) <= Len(b)
  <2>1. /\ SubSeq(b, 1, Len(a)) \in Seq(Nat) /\ Len(SubSeq(b, 1, Len(a))) = Len(a)
        /\ \A m \in 1..Len(a) : SubSeq(b, 1, Len(a))[m] = b[m]
    BY <1>1, <1>2
  <2>2. (\A m \in 1..Len(a) : a[m] = b[m]) => SubSeq(b, 1, Len(a)) = a
    BY <1>1, <2>1
  <2> QED BY <1>1, <1>2, <2>1, <2>2 DEF inRange
<1>3. CASE ~(Len(a) <= Len(b))
  BY <1>1, <1>3 DEF inRange
<1> QED BY <1>2, <1>3

(* A key comes before those that begin with it.                            *)
LEMMA PrefixIsFirst ==
  ASSUME NEW a \in Seq(Nat), NEW b \in Seq(Nat), inRange(a, b)
  PROVE  ~Before(b, a)
<1>1. /\ Len(a) \in Nat /\ Len(b) \in Nat /\ Len(a) <= Len(b)
      /\ \A m \in 1..Len(a) : a[m] = b[m] /\ a[m] \in Nat
  BY InRangeIs
<1>2. ASSUME inRange(b, a) PROVE a = b
  <2>1. Len(b) <= Len(a)
    BY <1>2, InRangeIs
  <2> QED BY <1>1, <2>1
<1>3. ASSUME NEW n \in 1..Len(b), n <= Len(a), b[n] < a[n] PROVE FALSE
  BY <1>1, <1>3
<1> QED BY <1>2, <1>3 DEF Before

(* Between a key and one that begins with it there are only keys that do.  *)
LEMMA PrefixesAreTogether ==
  ASSUME NEW a \in Seq(Nat), NEW b \in Seq(Nat), NEW c \in Seq(Nat),
         inRange(a, c), Before(a, b), Before(b, c)
  PROVE  inRange(a, b)
<1>1. SUFFICES ASSUME NEW n \in 1..Len(a), n <= Len(b), a[n] < b[n],
                      \A m \in 1..n - 1 : a[m] = b[m]
               PROVE  FALSE
  BY DEF Before
<1>2. /\ Len(a) \in Nat /\ Len(b) \in Nat /\ Len(c) \in Nat /\ Len(a) <= Len(c)
      /\ \A m \in 1..Len(a) : a[m] = c[m] /\ a[m] \in Nat
      /\ \A m \in 1..Len(b) : b[m] \in Nat
  BY InRangeIs
<1>3. a[n] = c[n] /\ a[n] \in Nat /\ b[n] \in Nat /\ n \in 1..Len(b) /\ n \in Nat
  BY <1>1, <1>2
<1>4. ASSUME inRange(b, c) PROVE FALSE
  <2>1. b[n] = c[n]
    BY <1>3, <1>4, InRangeIs
  <2> QED BY <1>1, <1>3, <2>1
<1>5. ASSUME NEW k \in 1..Len(b), k <= Len(c), b[k] < c[k], \A m \in 1..k - 1 : b[m] = c[m]
      PROVE  FALSE
  <2>1. CASE k < n
    <3>1. a[k] = b[k] /\ a[k] = c[k] /\ b[k] \in Nat
      BY <1>1, <1>2, <2>1
    <3> QED BY <1>5, <3>1
  <2>2. CASE k = n
    BY <1>1, <1>3, <1>5, <2>2
  <2>3. CASE k > n
    <3>1. b[n] = c[n]
      BY <1>3, <1>5, <2>3
    <3> QED BY <1>1, <1>3, <3>1
  <2> QED BY <1>2, <2>1, <2>2, <2>3
<1> QED BY <1>4, <1>5 DEF Before

(* The keys with a prefix follow it, without one between that has it not.  *)
LEMMA KeysInOrder ==
  ASSUME NEW i \in 1..Len(KeyOrder), NEW k \in 1..Len(KeyOrder), inRange(KeyOrder[i], KeyOrder[k])
  PROVE  i <= k /\ \A j \in i..k : inRange(KeyOrder[i], KeyOrder[j])
<1>1. Len(KeyOrder) \in Nat /\ \A j \in 1..Len(KeyOrder) : KeyOrder[j] \in Seq(Nat)
  BY OrderAssumption
<1>2. \A j, m \in 1..Len(KeyOrder) : j < m => Before(KeyOrder[j], KeyOrder[m])
  BY OrderAssumption
<1>3. i <= k
  BY <1>1, <1>2, PrefixIsFirst
<1>4. ASSUME NEW j \in i..k PROVE inRange(KeyOrder[i], KeyOrder[j])
  <2>1. j \in 1..Len(KeyOrder)
    BY <1>1
  <2>2. CASE j = i
    <3>1. inRange(KeyOrder[i], KeyOrder[i])
      BY <1>1, InRangeIs
    <3> QED BY <2>2, <3>1
  <2>3. CASE j = k
    BY <2>3
  <2>4. CASE i < j /\ j < k
    BY <1>1, <1>2, <2>1, <2>4, PrefixesAreTogether
  <2> QED BY <1>1, <2>1, <2>2, <2>3, <2>4
<1> QED BY <1>3, <1>4

(* The first entry from a position on.                                     *)
LEMMA FirstFromIs ==
  ASSUME NEW snap, NEW n \in 1..Len(KeyOrder) + 1
  PROVE  LET p == FirstFrom(snap, n) IN
         /\ p \in n..Len(KeyOrder) + 1
         /\ p <= Len(KeyOrder) => snap[KeyOrder[p]] # NoEntry
         /\ \A q \in n..Len(KeyOrder) : snap[KeyOrder[q]] # NoEntry => p <= q
<1> DEFINE there == {i \in n..Len(KeyOrder) : snap[KeyOrder[i]] # NoEntry}
<1>0. Len(KeyOrder) \in Nat /\ n \in Nat
  BY OrderAssumption
<1>1. CASE there = {}
  BY <1>0, <1>1 DEF FirstFrom
<1>2. CASE there # {}
  <2>1. there \subseteq Nat
    BY <1>0
  <2> DEFINE least == CHOOSE i \in there : \A j \in there : i <= j
  <2>2. \E i \in there : \A j \in there : i <= j
    BY <1>2, <2>1, LeastNat
  <2>3. least \in there /\ \A j \in there : least <= j
    BY <2>2
  <2>4. FirstFrom(snap, n) = least
    BY <1>2 DEF FirstFrom
  <2> HIDE DEF least
  <2> QED BY <1>0, <2>3, <2>4
<1> QED BY <1>1, <1>2

(* The entries before the iterator's position are those it returned, in    *)
(* order; it stands on an entry or behind the last; and when it ended it   *)
(* stands on none that it should return.                                   *)
Passed(it, p) == {q \in Wanted(it) : q < p}

IsIterator(it) == it = [f \in {"view", "prefix", "at", "got", "end"} |-> it[f]]

OnCourse(it) ==
  /\ it.at \in 1..Len(KeyOrder) + 1
  /\ \E n \in 1..it.at : n <= Len(KeyOrder) /\ KeyOrder[n] = it.prefix
  /\ it.at <= Len(KeyOrder) => it.view[KeyOrder[it.at]] # NoEntry
  /\ it.got \in Seq(Keys \X {it.view[k] : k \in Keys})
  /\ Len(it.got) = Cardinality(Passed(it, it.at))
  /\ \A n \in 1..Len(it.got) :
       \E p \in Wanted(it) : n = Cardinality(UpTo(it, p)) /\ it.got[n] = EntryAt(it, p)
  /\ it.end => it.at \notin Wanted(it)

IterInv ==
  /\ iters = [i \in Iters |-> iters[i]]
  /\ \A i \in Iters : iters[i] # NoIter => IsIterator(iters[i]) /\ OnCourse(iters[i])

LEMMA KeyPositions ==
  /\ Len(KeyOrder) \in Nat
  /\ \A i \in 1..Len(KeyOrder) : KeyOrder[i] \in Keys /\ KeyOrder[i] \in Seq(Nat)
BY OrderAssumption DEF Keys

LEMMA WantedIsFinite ==
  ASSUME NEW it
  PROVE  /\ Wanted(it) \subseteq 1..Len(KeyOrder)
         /\ \A T \in SUBSET Wanted(it) : IsFiniteSet(T) /\ Cardinality(T) \in Nat
<1>1. Wanted(it) \subseteq 1..Len(KeyOrder) /\ Len(KeyOrder) \in Nat
  BY KeyPositions DEF Wanted
<1>2. IsFiniteSet(1..Len(KeyOrder))
  BY <1>1, FS_Interval
<1>3. \A T \in SUBSET Wanted(it) : IsFiniteSet(T)
  BY <1>1, <1>2, FS_Subset
<1> QED BY <1>1, <1>3, FS_CardinalityType

(* A seek goes behind no entry that is to be returned.                     *)
LEMMA SeekIs ==
  ASSUME NEW snap, NEW prefix \in Keys, NEW it, it.view = snap, it.prefix = prefix
  PROVE  /\ Seek(snap, prefix) \in 1..Len(KeyOrder) + 1
         /\ \E n \in 1..Seek(snap, prefix) : n <= Len(KeyOrder) /\ KeyOrder[n] = prefix
         /\ Seek(snap, prefix) <= Len(KeyOrder) => snap[KeyOrder[Seek(snap, prefix)]] # NoEntry
         /\ Passed(it, Seek(snap, prefix)) = {}
<1> DEFINE p == Position(prefix)
           at == Seek(snap, prefix)
<1>1. p \in 1..Len(KeyOrder) /\ KeyOrder[p] = prefix
  <2>1. \E i \in 1..Len(KeyOrder) : KeyOrder[i] = prefix
    BY DEF Keys
  <2> QED BY <2>1 DEF Position
<1>2. at = FirstFrom(snap, p)
  BY DEF Seek
<1> HIDE DEF p, at
<1>3. p \in 1..Len(KeyOrder) + 1 /\ Len(KeyOrder) \in Nat /\ p \in Nat
  BY <1>1, KeyPositions
<1>4. /\ at \in p..Len(KeyOrder) + 1
      /\ at <= Len(KeyOrder) => snap[KeyOrder[at]] # NoEntry
      /\ \A q \in p..Len(KeyOrder) : snap[KeyOrder[q]] # NoEntry => at <= q
  BY <1>2, <1>3, FirstFromIs
<1>5. ASSUME NEW q \in Wanted(it), q < at PROVE FALSE
  <2>1. q \in 1..Len(KeyOrder) /\ snap[KeyOrder[q]] # NoEntry /\ inRange(prefix, KeyOrder[q])
    BY DEF Wanted
  <2>2. p <= q
    BY <1>1, <2>1, KeysInOrder
  <2> QED BY <1>3, <1>4, <1>5, <2>1, <2>2
<1>6. Passed(it, at) = {}
  BY <1>5 DEF Passed
<1>7. at \in 1..Len(KeyOrder) + 1 /\ p \in 1..at
  BY <1>3, <1>4
<1> QED BY <1>1, <1>4, <1>6, <1>7 DEF at

LEMMA NewIterOnCourse ==
  ASSUME NEW snap, NEW prefix \in Keys
  PROVE  OnCourse([view |-> snap, prefix |-> prefix, at |-> Seek(snap, prefix),
                   got |-> <<>>, end |-> FALSE])
<1> DEFINE it == [view |-> snap, prefix |-> prefix, at |-> Seek(snap, prefix),
                  got |-> <<>>, end |-> FALSE]
<1>1. /\ it.view = snap /\ it.prefix = prefix /\ it.at = Seek(snap, prefix)
      /\ it.got = <<>> /\ it.end = FALSE
  OBVIOUS
<1> HIDE DEF it
<1>2. /\ it.at \in 1..Len(KeyOrder) + 1
      /\ \E n \in 1..it.at : n <= Len(KeyOrder) /\ KeyOrder[n] = it.prefix
      /\ it.at <= Len(KeyOrder) => it.view[KeyOrder[it.at]] # NoEntry
      /\ Passed(it, it.at) = {}
  BY <1>1, SeekIs
<1>3. Len(it.got) = 0 /\ it.got \in Seq(Keys \X {it.view[k] : k \in Keys})
  BY <1>1
<1>4. Len(it.got) = Cardinality(Passed(it, it.at))
  BY <1>2, <1>3, FS_EmptySet
<1>5. OnCourse(it)
  BY <1>1, <1>2, <1>3, <1>4 DEF OnCourse
<1> QED BY <1>5 DEF it

(* The entry it stands on is returned.                                     *)
LEMMA ReturnOnCourse ==
  ASSUME NEW it, IsIterator(it), OnCourse(it),
         it.at <= Len(KeyOrder), inRange(it.prefix, KeyOrder[it.at])
  PROVE  OnCourse([it EXCEPT !.at = FirstFrom(it.view, it.at + 1),
                             !.got = Append(it.got, <<KeyOrder[it.at], it.view[KeyOrder[it.at]]>>)])
<1> DEFINE new == [it EXCEPT !.at = FirstFrom(it.view, it.at + 1),
                             !.got = Append(it.got, <<KeyOrder[it.at], it.view[KeyOrder[it.at]]>>)]
           here == EntryAt(it, it.at)
<1>1. /\ new.view = it.view /\ new.prefix = it.prefix /\ new.end = it.end
      /\ new.at = FirstFrom(it.view, it.at + 1) /\ new.got = Append(it.got, here)
  BY DEF IsIterator, EntryAt
<1> HIDE DEF new
<1>2. /\ it.at \in 1..Len(KeyOrder) /\ Len(KeyOrder) \in Nat /\ it.at + 1 \in 1..Len(KeyOrder) + 1
      /\ it.view[KeyOrder[it.at]] # NoEntry
  BY KeyPositions DEF OnCourse
<1>3. /\ new.at \in it.at + 1..Len(KeyOrder) + 1
      /\ new.at <= Len(KeyOrder) => it.view[KeyOrder[new.at]] # NoEntry
      /\ \A q \in it.at + 1..Len(KeyOrder) : it.view[KeyOrder[q]] # NoEntry => new.at <= q
  BY <1>1, <1>2, FirstFromIs
<1>4. it.at \in Wanted(it)
  BY <1>2 DEF Wanted
<1>5. Wanted(new) = Wanted(it)
  BY <1>1 DEF Wanted
<1>6. Passed(new, new.at) = Passed(it, it.at) \cup {it.at} /\ UpTo(it, it.at) = Passed(it, it.at) \cup {it.at}
  <2>1. \A q \in Wanted(it) : q \in 1..Len(KeyOrder) /\ it.view[KeyOrder[q]] # NoEntry
    BY DEF Wanted
  <2>2. \A q \in Wanted(it) : q < new.at <=> q < it.at \/ q = it.at
    BY <1>2, <1>3, <2>1
  <2>3. \A q \in Wanted(it) : q <= it.at <=> q < it.at \/ q = it.at
    BY <1>2, <2>1
  <2> QED BY <1>4, <1>5, <2>2, <2>3 DEF Passed, UpTo
<1>7. Cardinality(UpTo(it, it.at)) = Len(it.got) + 1
  <2>1. Passed(it, it.at) \subseteq Wanted(it) /\ it.at \notin Passed(it, it.at)
    BY <1>2 DEF Passed
  <2>2. IsFiniteSet(Passed(it, it.at))
    BY <2>1, WantedIsFinite
  <2>3. Cardinality(Passed(it, it.at) \cup {it.at}) = Cardinality(Passed(it, it.at)) + 1
    BY <2>1, <2>2, FS_AddElement
  <2> QED BY <1>6, <2>3 DEF OnCourse
<1> DEFINE V == Keys \X {it.view[k] : k \in Keys}
<1>8. it.got \in Seq(V) /\ here \in V
  <2>1. it.got \in Seq(V)
    BY DEF OnCourse
  <2>2. KeyOrder[it.at] \in Keys
    BY <1>2, KeyPositions
  <2> QED BY <2>1, <2>2 DEF EntryAt
<1> HIDE DEF here
<1>9. /\ new.got \in Seq(V) /\ Len(new.got) = Len(it.got) + 1 /\ Len(it.got) \in Nat
      /\ new.got[Len(it.got) + 1] = here
      /\ \A n \in 1..Len(it.got) : new.got[n] = it.got[n]
  <2> HIDE DEF V
  <2> QED BY <1>1, <1>8, AppendProperties
<1>10. \A p : UpTo(new, p) = UpTo(it, p) /\ EntryAt(new, p) = EntryAt(it, p)
  BY <1>1, <1>5 DEF UpTo, EntryAt
<1>11. ASSUME NEW n \in 1..Len(new.got)
       PROVE  \E p \in Wanted(new) : n = Cardinality(UpTo(new, p)) /\ new.got[n] = EntryAt(new, p)
  <2>1. CASE n = Len(it.got) + 1
    BY <1>4, <1>5, <1>7, <1>9, <1>10, <2>1 DEF here
  <2>2. CASE n # Len(it.got) + 1
    <3>1. n \in 1..Len(it.got)
      BY <1>9, <2>2
    <3>2. PICK p \in Wanted(it) : n = Cardinality(UpTo(it, p)) /\ it.got[n] = EntryAt(it, p)
      BY <3>1 DEF OnCourse
    <3> QED BY <1>5, <1>9, <1>10, <3>1, <3>2
  <2> QED BY <2>1, <2>2
<1>12. Len(new.got) = Cardinality(Passed(new, new.at))
  BY <1>6, <1>7, <1>9
<1>13. ~new.end \/ new.at \notin Wanted(new)
  BY <1>1, <1>4 DEF OnCourse
<1>14. \E n \in 1..new.at : n <= Len(KeyOrder) /\ KeyOrder[n] = new.prefix
  <2>1. PICK n \in 1..it.at : n <= Len(KeyOrder) /\ KeyOrder[n] = it.prefix
    BY DEF OnCourse
  <2>2. n \in 1..new.at
    BY <1>2, <1>3
  <2> QED BY <1>1, <2>1, <2>2
<1>15. new.at \in 1..Len(KeyOrder) + 1
  BY <1>2, <1>3
<1>16. OnCourse(new)
  BY <1>1, <1>3, <1>9, <1>11, <1>12, <1>13, <1>14, <1>15 DEF OnCourse
<1> QED BY <1>16 DEF new

(* There is none to return any more.                                       *)
LEMMA EndOnCourse ==
  ASSUME NEW it, IsIterator(it), OnCourse(it),
         ~(it.at <= Len(KeyOrder) /\ inRange(it.prefix, KeyOrder[it.at]))
  PROVE  OnCourse([it EXCEPT !.end = TRUE])
<1> DEFINE new == [it EXCEPT !.end = TRUE]
<1>1. /\ new.view = it.view /\ new.prefix = it.prefix /\ new.at = it.at /\ new.got = it.got
  BY DEF IsIterator
<1> HIDE DEF new
<1>2. /\ Wanted(new) = Wanted(it) /\ \A p : UpTo(new, p) = UpTo(it, p)
      /\ \A p : Passed(new, p) = Passed(it, p) /\ EntryAt(new, p) = EntryAt(it, p)
  BY <1>1 DEF Wanted, UpTo, Passed, EntryAt
<1>3. it.at \notin Wanted(it)
  BY KeyPositions DEF Wanted
<1>4. OnCourse(new)
  BY <1>1, <1>2, <1>3 DEF OnCourse
<1> QED BY <1>4 DEF new

(* An iterator that is on course and has ended has returned everything.    *)
LEMMA EndedIsDone ==
  ASSUME NEW it, OnCourse(it), it.end
  PROVE  Len(it.got) = Cardinality(Wanted(it))
<1>1. /\ it.at \in 1..Len(KeyOrder) + 1 /\ Len(KeyOrder) \in Nat /\ it.at \notin Wanted(it)
      /\ it.at <= Len(KeyOrder) => it.view[KeyOrder[it.at]] # NoEntry
  BY KeyPositions DEF OnCourse
<1>2. PICK n \in 1..it.at : n <= Len(KeyOrder) /\ KeyOrder[n] = it.prefix
  BY DEF OnCourse
<1>3. ASSUME NEW q \in Wanted(it), it.at <= q PROVE FALSE
  <2>1. q \in 1..Len(KeyOrder) /\ inRange(it.prefix, KeyOrder[q])
    BY DEF Wanted
  <2>2. it.at \in n..q /\ n \in 1..Len(KeyOrder)
    BY <1>1, <1>2, <1>3, <2>1
  <2>3. inRange(it.prefix, KeyOrder[it.at])
    BY <1>2, <2>1, <2>2, KeysInOrder
  <2>4. it.at \in 1..Len(KeyOrder)
    BY <1>1, <1>3, <2>1
  <2> QED BY <1>1, <2>3, <2>4 DEF Wanted
<1>4. \A q \in Wanted(it) : q \in Nat
  BY WantedIsFinite
<1>5. Passed(it, it.at) = Wanted(it)
  BY <1>1, <1>3, <1>4 DEF Passed
<1> QED BY <1>5 DEF OnCourse

LEMMA IterStep ==
  ASSUME IterInv, [DbNext]_dbVars
  PROVE  IterInv'
<1>0. iters = [i \in Iters |-> iters[i]]
  BY DEF IterInv
<1>1. ASSUME NEW i \in Iters, NEW new, iters' = [iters EXCEPT ![i] = new],
             new # NoIter => IsIterator(new) /\ OnCourse(new)
      PROVE  IterInv'
  <2>1. /\ iters' = [j \in Iters |-> iters'[j]] /\ iters'[i] = new
        /\ \A j \in Iters : j # i => iters'[j] = iters[j]
    BY <1>0, <1>1
  <2> QED BY <1>1, <2>1 DEF IterInv
<1>2. CASE new_iter
  <2>1. PICK i \in Iters, prefix \in Keys :
          iters' = [iters EXCEPT ![i] = [view |-> disk, prefix |-> prefix,
                                         at |-> Seek(disk, prefix), got |-> <<>>, end |-> FALSE]]
    BY <1>2 DEF new_iter
  <2> DEFINE new == [view |-> disk, prefix |-> prefix,
                     at |-> Seek(disk, prefix), got |-> <<>>, end |-> FALSE]
  <2>2. IsIterator(new)
    BY DEF IsIterator
  <2>3. OnCourse(new)
    BY NewIterOnCourse
  <2> HIDE DEF new
  <2>4. iters' = [iters EXCEPT ![i] = new]
    BY <2>1 DEF new
  <2> QED BY <1>1, <2>2, <2>3, <2>4
<1>3. ASSUME NEW i \in Iters, fn_iter(i)
      PROVE  IterInv'
  <2> DEFINE it == iters[i]
             ahead == [it EXCEPT !.at = FirstFrom(it.view, it.at + 1),
                                 !.got = Append(it.got, <<KeyOrder[it.at], it.view[KeyOrder[it.at]]>>)]
             ended == [it EXCEPT !.end = TRUE]
             inside == it.at <= Len(KeyOrder) /\ inRange(it.prefix, KeyOrder[it.at])
  <2>1. /\ it # NoIter
        /\ iters' = [iters EXCEPT ![i] = IF inside THEN ahead ELSE ended]
    BY <1>3 DEF fn_iter
  <2>2. IsIterator(it) /\ OnCourse(it)
    BY <2>1 DEF IterInv
  <2>3. IsIterator(ahead) /\ IsIterator(ended)
    BY <2>2 DEF IsIterator
  <2>4. inside => OnCourse(ahead)
    BY <2>2, ReturnOnCourse
  <2>5. ~inside => OnCourse(ended)
    BY <2>2, EndOnCourse
  <2> HIDE DEF ahead, ended, inside, it
  <2> QED BY <1>1, <2>1, <2>3, <2>4, <2>5
<1>4. ASSUME NEW i \in Iters, gc(i)
      PROVE  IterInv'
  BY <1>1, <1>4 DEF gc
<1>5. CASE Crash
  BY <1>5 DEF Crash, IterInv
<1>6. ASSUME UNCHANGED iters
      PROVE  IterInv'
  BY <1>6 DEF IterInv
<1>7. CASE Start \/ Repair \/ getUniqueID \/ SetTyped \/ SetAny \/ Add \/ database_delete
           \/ UNCHANGED dbVars
  <2>1. UNCHANGED iters
    BY <1>7 DEF Start, Repair, getUniqueID, SetTyped, SetAny, Add, put, database_delete, dbVars
  <2> QED BY <1>6, <2>1
<1> QED BY <1>2, <1>3, <1>4, <1>5, <1>7 DEF DbNext

(* StoreIsFaithful: for any keys in the order of leveldb, any strings and  *)
(* any number of iterators, over all crashes, repairs and restarts.        *)
THEOREM StoreStaysFaithful == DbSpec => []StoreIsFaithful
<1>1. DbInit => StoreInv /\ IterInv
  BY DEF DbInit, StoreInv, Holds, IterInv
<1>2. StoreInv /\ IterInv /\ [DbNext]_dbVars => StoreInv' /\ IterInv'
  BY StoreStep, IterStep
<1>3. StoreInv /\ IterInv => StoreIsFaithful
  <2>1. SUFFICES ASSUME StoreInv, IterInv PROVE IterationIsSnapshot
    BY StoreReads DEF StoreIsFaithful
  <2>2. ASSUME NEW i \in Iters, iters[i] # NoIter
        PROVE  /\ \A n \in 1..Len(iters[i].got) :
                    \E p \in Wanted(iters[i]) : n = Cardinality(UpTo(iters[i], p))
                                                /\ iters[i].got[n] = EntryAt(iters[i], p)
               /\ iters[i].end => Len(iters[i].got) = Cardinality(Wanted(iters[i]))
    <3>1. OnCourse(iters[i])
      BY <2>1, <2>2 DEF IterInv
    <3>2. iters[i].end => Len(iters[i].got) = Cardinality(Wanted(iters[i]))
      BY <3>1, EndedIsDone
    <3> QED BY <3>1, <3>2 DEF OnCourse
  <2> QED BY <2>2 DEF IterationIsSnapshot
<1> QED BY <1>1, <1>2, <1>3, PTL DEF DbSpec

(***************************************************************************)
(* Vfs.                                                                    *)
(***************************************************************************)

\* The powers of B.
LEMMA Places ==
  /\ Place(0) = 1
  /\ \A n \in Nat : Place(n) \in Nat \ {0} /\ Place(n + 1) = B * Place(n)
<1>b. B \in Nat \ {0, 1}
  BY VfsAssumption
<1> DEFINE step == [n \in Nat |-> [x \in Nat \ {0} |-> B * x]]
<1>1. step \in [Nat -> [Nat \ {0} -> Nat \ {0}]]
  <2>1. \A x \in Nat \ {0} : B * x \in Nat \ {0}
    BY <1>b
  <2> QED BY <2>1
<1>2. PICK g : MadeFrom(g, Nat \ {0}, 1, step)
  <2> HIDE DEF step
  <2>1. 1 \in Nat \ {0}
    OBVIOUS
  <2> QED BY <2>1, <1>1, PrimRec
<1>3. /\ g \in [Nat -> Nat \ {0}] /\ g[0] = 1
      /\ \A n \in Nat : g[n + 1] = B * g[n]
  BY <1>2 DEF MadeFrom
<1>4. ASSUME NEW n \in Nat PROVE Place(n) = g[n]
  <2> DEFINE Powers(f) == f = [i \in 0..n |-> IF i = 0 THEN 1 ELSE B * f[i - 1]]
             place == CHOOSE f : Powers(f)
             h == [i \in 0..n |-> g[i]]
  <2>1. Place(n) = place[n]
    BY DEF Place
  <2>2. Powers(h)
    <3>1. ASSUME NEW i \in 0..n PROVE g[i] = IF i = 0 THEN 1 ELSE B * h[i - 1]
      <4>1. CASE i = 0
        BY <4>1, <1>3
      <4>2. CASE i # 0
        <5>1. i - 1 \in 0..n /\ i - 1 \in Nat /\ (i - 1) + 1 = i
          BY <4>2
        <5> QED BY <5>1, <4>2, <1>3
      <4> QED BY <4>1, <4>2
    <3> QED BY <3>1
  <2>3. Powers(place)
    <3> HIDE DEF Powers
    <3> QED BY <2>2
  <2> HIDE DEF place
  <2> DEFINE T == { k \in Nat : k <= n => place[k] = g[k] }
  <2>4. 0 \in T
    BY <2>3, <1>3
  <2>5. ASSUME NEW k \in Nat, k \in T PROVE k + 1 \in T
    <3> SUFFICES ASSUME k + 1 <= n PROVE place[k + 1] = g[k + 1]
      OBVIOUS
    <3>1. k + 1 \in 0..n /\ k + 1 # 0 /\ (k + 1) - 1 = k /\ k <= n
      OBVIOUS
    <3>2. place[k + 1] = B * place[k]
      BY <2>3, <3>1
    <3> QED BY <3>1, <3>2, <2>5, <1>3
  <2> HIDE DEF T
  <2>6. n \in T
    BY <2>4, <2>5, NatInduct
  <2> QED BY <2>1, <2>6 DEF T
<1> QED BY <1>3, <1>4

\* One more digit.
LEMMA DigitStep ==
  ASSUME NEW v \in Int, NEW Q \in Nat \ {0}
  PROVE  v % (B * Q) = (v % Q) + ((v \div Q) % B) * Q
<1>b. B \in Nat \ {0, 1}
  BY VfsAssumption
<1>1. PICK a \in Int, r \in 0..(Q - 1) : v = Q * a + r /\ a = v \div Q /\ r = v % Q
  OBVIOUS
<1>2. PICK c \in Int, d \in 0..(B - 1) : a = B * c + d /\ c = a \div B /\ d = a % B
  BY <1>b
<1>3. v = (B * Q) * c + (Q * d + r)
  <2>1. Q * a = Q * (B * c) + Q * d
    BY <1>2, <1>b
  <2>2. Q * (B * c) = (B * Q) * c
    BY <1>b
  <2> QED BY <2>1, <2>2, <1>1, <1>b
<1>4. Q * d + r \in 0..(B * Q - 1)
  <2>1. Q * d <= Q * (B - 1)
    BY <1>b
  <2>2. Q * (B - 1) = B * Q - Q
    BY <1>b
  <2>3. Q * d \in Nat /\ B * Q \in Nat
    BY <1>b
  <2> QED BY <2>1, <2>2, <2>3, <1>b
<1>5. B * Q \in Nat \ {0}
  BY <1>b
<1>6. v % (B * Q) = Q * d + r
  <2> DEFINE n == B * Q
             w == Q * d + r
  <2>1. n \in Nat \ {0} /\ w \in 0..(n - 1) /\ v = n * c + w
    BY <1>3, <1>4, <1>5
  <2> HIDE DEF n, w
  <2>2. (n * c + w) % n = w
    BY <2>1, DivUnique
  <2> QED BY <2>1, <2>2 DEF n, w
<1>7. (v \div Q) % B = d
  BY <1>1, <1>2
<1> QED BY <1>1, <1>6, <1>7, <1>b

\* What the digits of a number are read as.
LEMMA ValueOfDigits ==
  ASSUME NEW v \in Int, NEW w \in Nat, NEW c, NEW from \in Nat,
         \A i \in 1..w : c[from + i] = Digits(v, w)[i]
  PROVE  Value(c, from, w) = v % Place(w)
<1> DEFINE Sums(f) == f = [i \in 0..w |-> IF i = 0 THEN 0 ELSE f[i - 1] + c[from + i] * Place(i - 1)]
           sum == CHOOSE f : Sums(f)
           g == [i \in 0..w |-> v % Place(i)]
<1>1. Value(c, from, w) = sum[w]
  BY DEF Value
<1>2. ASSUME NEW i \in 1..w
      PROVE  v % Place(i) = (v % Place(i - 1)) + c[from + i] * Place(i - 1)
  <2>1. i - 1 \in Nat /\ (i - 1) + 1 = i
    OBVIOUS
  <2>2. Place(i) = B * Place(i - 1) /\ Place(i - 1) \in Nat \ {0}
    BY <2>1, Places
  <2>3. c[from + i] = (v \div Place(i - 1)) % B
    BY DEF Digits
  <2> QED BY <2>2, <2>3, DigitStep
<1>3. v % Place(0) = 0
  BY Places
<1>4. Sums(g)
  <2>1. ASSUME NEW i \in 0..w
        PROVE  v % Place(i) = IF i = 0 THEN 0 ELSE g[i - 1] + c[from + i] * Place(i - 1)
    <3>1. CASE i = 0
      BY <3>1, <1>3
    <3>2. CASE i # 0
      <4>1. i \in 1..w /\ i - 1 \in 0..w
        BY <3>2
      <4> QED BY <3>2, <4>1, <1>2
    <3> QED BY <3>1, <3>2
  <2> QED BY <2>1
<1>5. Sums(sum)
  <2> HIDE DEF Sums, g
  <2> QED BY <1>4
<1> HIDE DEF sum
<1> DEFINE T == { k \in Nat : k <= w => sum[k] = v % Place(k) }
<1>6. 0 \in T
  BY <1>5, <1>3
<1>7. ASSUME NEW k \in Nat, k \in T PROVE k + 1 \in T
  <2> SUFFICES ASSUME k + 1 <= w PROVE sum[k + 1] = v % Place(k + 1)
    OBVIOUS
  <2>1. k + 1 \in 1..w /\ k + 1 \in 0..w /\ k + 1 # 0 /\ (k + 1) - 1 = k /\ k <= w
    OBVIOUS
  <2>2. sum[k + 1] = sum[k] + c[from + (k + 1)] * Place(k)
    BY <1>5, <2>1
  <2>3. v % Place(k + 1) = (v % Place(k)) + c[from + (k + 1)] * Place(k)
    BY <1>2, <2>1
  <2> QED BY <2>1, <2>2, <2>3, <1>7
<1> HIDE DEF T
<1>8. w \in T
  BY <1>6, <1>7, NatInduct
<1> QED BY <1>1, <1>8 DEF T

\* A string ends before its first 0.
LEMMA CStringFacts ==
  ASSUME NEW s \in Seq(Nat)
  PROVE  /\ CString(s) \in Seq(Nat) /\ \A i \in 1..Len(CString(s)) : CString(s)[i] # 0
         /\ Len(CString(s)) <= Len(s) /\ \A i \in 1..Len(CString(s)) : CString(s)[i] = s[i]
         /\ \A k \in 1..Len(s) : s[k] = 0 /\ (\A i \in 1..(k - 1) : s[i] # 0) => Len(CString(s)) = k - 1
<1> DEFINE zeros == { i \in 1..Len(s) : s[i] = 0 }
<1>l. Len(s) \in Nat
  OBVIOUS
<1>1. CString(s) = IF zeros = {} THEN s ELSE SubSeq(s, 1, (CHOOSE i \in zeros : \A j \in zeros : i <= j) - 1)
  BY DEF CString
<1>2. CASE zeros = {}
  BY <1>1, <1>2
<1>3. CASE zeros # {}
  <2>1. zeros \in SUBSET Nat
    BY <1>l
  <2>2. PICK z : z = CHOOSE i \in zeros : \A j \in zeros : i <= j
    OBVIOUS
  <2>3. z \in zeros /\ \A j \in zeros : z <= j
    <3> HIDE DEF zeros
    <3>1. \E i \in zeros : \A j \in zeros : i <= j
      BY <2>1, <1>3, LeastNat
    <3> QED BY <3>1, <2>2
  <2>4. z \in 1..Len(s) /\ s[z] = 0 /\ \A j \in 1..(z - 1) : s[j] # 0
    BY <2>3, <1>l
  <2>5. CString(s) = SubSeq(s, 1, z - 1)
    BY <1>1, <1>3, <2>2
  <2>6. \A i \in 1..(z - 1) : s[i] \in Nat
    BY <2>4, <1>l
  <2>7. PICK m, n \in Int : m = 1 /\ n = z - 1
    BY <2>4
  <2>8. /\ SubSeq(s, m, n) \in Seq(Nat) /\ Len(SubSeq(s, m, n)) = IF m <= n THEN n - m + 1 ELSE 0
        /\ \A i \in 1..(n - m + 1) : SubSeq(s, m, n)[i] = s[m + i - 1]
    <3>1. \A i \in m..n : s[i] \in Nat
      BY <2>6, <2>7
    <3> QED BY <3>1, SubSeqProperties
  <2>9. /\ CString(s) \in Seq(Nat) /\ Len(CString(s)) = z - 1
        /\ \A i \in 1..(z - 1) : CString(s)[i] = s[i]
    <3>1. n - m + 1 = z - 1 /\ (z - 1 = 0 <=> ~ (m <= n)) /\ \A i \in 1..(z - 1) : m + i - 1 = i
      BY <2>4, <2>7, <1>l
    <3>2. CString(s) = SubSeq(s, m, n)
      BY <2>5, <2>7
    <3> QED BY <3>1, <3>2, <2>8
  <2>10. \A k \in 1..Len(s) : s[k] = 0 /\ (\A i \in 1..(k - 1) : s[i] # 0) => k = z
    BY <2>4, <1>l
  <2> QED BY <2>4, <2>9, <2>10, <1>l
<1> QED BY <1>2, <1>3

\* The bytes s are what a value of a type is written as.
Codes(type, val, s) ==
  /\ s \in Seq(Nat)
  /\ \/ type \in DOMAIN Width /\ val[1] \in Int /\ s = Digits(val[1], Width[type])
     \/ /\ type = "string" /\ val \in Seq(Nat) /\ s = val \o <<0>>
        /\ \A i \in 1..Len(val) : val[i] # 0
     \/ type = "data" /\ val = s

\* They are in the content, where the log has them.
InPlace(c, e) ==
  \E s : /\ Codes(e.type, e.val, s)
         /\ e.at \in Nat /\ e.size = Len(s) /\ e.size # 0
         /\ e.at + e.size <= Len(c)
         /\ \A i \in 1..e.size : c[e.at + i] = s[i]

LEMMA PlaceRead ==
  ASSUME NEW c \in Seq(Nat), NEW e, InPlace(c, e)
  PROVE  ReadFrom(c, e.at, e.type, e.size) =
           [val |-> IF e.type \in DOMAIN Width THEN e.val[1] % Place(Width[e.type]) ELSE e.val,
            size |-> e.size]
<1>1. PICK s : /\ Codes(e.type, e.val, s)
               /\ e.at \in Nat /\ e.size = Len(s) /\ e.size # 0
               /\ e.at + e.size <= Len(c)
               /\ \A i \in 1..e.size : c[e.at + i] = s[i]
  BY DEF InPlace
<1>2. PICK from, n : from = e.at /\ n = e.size
  OBVIOUS
<1>3. /\ s \in Seq(Nat) /\ from \in Nat /\ n \in Nat \ {0} /\ n = Len(s) /\ Len(c) \in Nat
      /\ from + n <= Len(c) /\ \A i \in 1..n : c[from + i] = s[i]
      /\ \A i \in 1..Len(c) : c[i] \in Nat
  <2>1. s \in Seq(Nat)
    BY <1>1 DEF Codes
  <2> QED BY <2>1, <1>1, <1>2
<1> DEFINE left == IF from < Len(c) THEN Len(c) - from ELSE 0
           rest == SubSeq(c, from + 1, from + left)
<1>4. left = Len(c) - from /\ left >= n
  BY <1>3
<1>n. n \in Nat /\ n >= 1 /\ left \in Nat /\ left >= n
  BY <1>3, <1>4
<1>5. CASE e.type \in DOMAIN Width
  <2>1. e.type # "string" /\ e.type # "data" /\ Width[e.type] \in Nat \ {0}
    BY <1>5, VfsAssumption
  <2>2. s = Digits(e.val[1], Width[e.type]) /\ e.val[1] \in Int
    BY <1>1, <2>1 DEF Codes
  <2>3. n = Width[e.type]
    <3>1. PICK w \in Nat : w = Width[e.type]
      BY <2>1
    <3>2. \A v : DOMAIN Digits(v, w) = 1..w
      BY DEF Digits
    <3>3. DOMAIN s = 1..w
      BY <3>1, <3>2, <2>2
    <3> QED BY <3>1, <3>3, <1>3
  <2>4. Least(n, left) = n
    BY <1>3, <1>4 DEF Least
  <2>5. ReadFrom(c, from, e.type, n) =
          [val |-> IF Least(Width[e.type], left) < Width[e.type] THEN Nil
                   ELSE Value(c, from, Least(Width[e.type], left)),
           size |-> Least(Width[e.type], left)]
    BY <2>1 DEF ReadFrom
  <2>6. Value(c, from, n) = e.val[1] % Place(n)
    <3>1. PICK v \in Int : v = e.val[1]
      BY <2>2
    <3>2. s = Digits(v, n) /\ n \in Nat
      BY <3>1, <2>2, <2>3, <1>3
    <3>3. \A i \in 1..n : c[from + i] = Digits(v, n)[i]
      BY <3>2, <1>3
    <3>4. Value(c, from, n) = v % Place(n)
      BY <3>2, <3>3, <1>3, ValueOfDigits
    <3> QED BY <3>1, <3>4
  <2> HIDE DEF left
  <2>7. ~ (n < n)
    BY <1>3
  <2> QED BY <2>3, <2>4, <2>5, <2>6, <2>7, <1>2, <1>5
<1>6. CASE e.type = "data"
  <2>1. e.val = s /\ e.type \notin DOMAIN Width
    BY <1>1, <1>6, VfsAssumption DEF Codes
  <2>2. Least(n, left) = n
    BY <1>3, <1>4 DEF Least
  <2>3. ReadFrom(c, from, e.type, n) =
          [val |-> SubSeq(c, from + 1, from + Least(n, left)), size |-> Least(n, left)]
    BY <1>6 DEF ReadFrom
  <2>4. SubSeq(c, from + 1, from + n) = s
    <3>1. PICK a, b \in Int : a = from + 1 /\ b = from + n
      BY <1>3
    <3>2. \A i \in a..b : c[i] \in Nat
      BY <3>1, <1>3
    <3>3. /\ SubSeq(c, a, b) \in Seq(Nat) /\ Len(SubSeq(c, a, b)) = IF a <= b THEN b - a + 1 ELSE 0
          /\ \A i \in 1..(b - a + 1) : SubSeq(c, a, b)[i] = c[a + i - 1]
      BY <3>2, SubSeqProperties
    <3>4. b - a + 1 = n /\ a <= b /\ \A i \in 1..n : a + i - 1 = from + i
      BY <3>1, <1>3
    <3>5. Len(SubSeq(c, a, b)) = Len(s) /\ \A i \in 1..Len(s) : SubSeq(c, a, b)[i] = s[i]
      BY <3>3, <3>4, <1>3
    <3>6. SubSeq(c, a, b) = s
      BY <3>3, <3>5, <1>3, SeqEqual
    <3> QED BY <3>1, <3>6
  <2> HIDE DEF left
  <2> QED BY <2>1, <2>2, <2>3, <2>4, <1>2
<1>7. CASE e.type = "string"
  <2>1. /\ e.type \notin DOMAIN Width /\ e.val \in Seq(Nat) /\ s = e.val \o <<0>>
        /\ \A i \in 1..Len(e.val) : e.val[i] # 0
    BY <1>1, <1>7, VfsAssumption DEF Codes
  <2>2. /\ Len(e.val) = n - 1 /\ \A i \in 1..(n - 1) : s[i] = e.val[i]
        /\ s[n] = 0
    BY <2>1, <1>3
  <2>3. ReadFrom(c, from, e.type, n) =
          [val |-> CString(rest), size |-> Least(Len(CString(rest)) + 1, left)]
    BY <1>7 DEF ReadFrom
  <2>4. rest \in Seq(Nat) /\ Len(rest) = left /\ \A i \in 1..left : rest[i] = c[from + i]
    <3>1. PICK a, b \in Int : a = from + 1 /\ b = from + left
      BY <1>3, <1>4
    <3>2. \A i \in a..b : c[i] \in Nat
      BY <3>1, <1>3, <1>4
    <3>3. /\ SubSeq(c, a, b) \in Seq(Nat) /\ Len(SubSeq(c, a, b)) = IF a <= b THEN b - a + 1 ELSE 0
          /\ \A i \in 1..(b - a + 1) : SubSeq(c, a, b)[i] = c[a + i - 1]
      BY <3>2, SubSeqProperties
    <3>4. b - a + 1 = left /\ a <= b /\ \A i \in 1..left : a + i - 1 = from + i
      BY <3>1, <1>3, <1>4
    <3> QED BY <3>1, <3>3, <3>4
  <2>l. PICK k \in Nat : k = left /\ k >= n
    BY <1>n
  <2> HIDE DEF rest, left
  <2>5. n \in 1..Len(rest) /\ rest[n] = 0 /\ \A i \in 1..(n - 1) : rest[i] # 0 /\ rest[i] = e.val[i]
    <3>0. n \in Nat /\ n >= 1 /\ Len(rest) = k /\ k >= n
      BY <2>4, <2>l, <1>n
    <3>1. n \in 1..Len(rest) /\ \A i \in 1..n : i \in 1..k
      BY <3>0
    <3>2. \A i \in 1..n : rest[i] = s[i]
      BY <3>1, <2>4, <2>l, <1>3
    <3>3. \A i \in 1..(n - 1) : i \in 1..n /\ e.val[i] # 0 /\ s[i] = e.val[i]
      <4>1. \A i \in 1..(n - 1) : i \in 1..n
        BY <3>0
      <4>2. \A i \in 1..(n - 1) : e.val[i] # 0
        BY <2>1, <2>2
      <4> QED BY <4>1, <4>2, <2>2
    <3>4. n \in 1..n
      BY <3>0
    <3> QED BY <3>1, <3>2, <3>3, <3>4, <2>2
  <2>6. /\ CString(rest) \in Seq(Nat) /\ Len(CString(rest)) = n - 1
        /\ \A i \in 1..(n - 1) : CString(rest)[i] = rest[i]
    BY <2>4, <2>5, CStringFacts
  <2>7. CString(rest) = e.val
    BY <2>1, <2>2, <2>5, <2>6, SeqEqual
  <2>8. Least(n - 1 + 1, left) = n
    <3>1. n - 1 + 1 = n
      BY <1>n
    <3>2. Least(n, k) = n
      BY <2>l, <1>n DEF Least
    <3> QED BY <3>1, <3>2, <2>l
  <2> QED BY <2>1, <2>3, <2>6, <2>7, <2>8, <1>2
<1> QED BY <1>1, <1>5, <1>6, <1>7 DEF Codes

\* Writing bytes at a position keeps the others and has its own.
LEMMA OverwriteFacts ==
  ASSUME NEW c \in Seq(Nat), NEW from \in Nat, NEW s \in Seq(Nat)
  PROVE  LET o == Overwritten(c, from, s) IN
         /\ o \in Seq(Nat) /\ Len(o) >= Len(c) /\ Len(o) >= from + Len(s)
         /\ \A i \in 1..Len(s) : o[from + i] = s[i]
         /\ \A i \in 1..Len(c) : (i <= from \/ i > from + Len(s)) => o[i] = c[i]
<1>1. PICK lc, ls \in Nat : lc = Len(c) /\ ls = Len(s)
  OBVIOUS
<1>2. PICK m \in Nat : m = (IF from + ls > lc THEN from + ls ELSE lc) /\ m >= lc /\ m >= from + ls
  OBVIOUS
<1> DEFINE cell(i) == IF i \in (from + 1)..(from + ls) THEN s[i - from] ELSE IF i <= lc THEN c[i] ELSE 0
           o == [i \in 1..m |-> cell(i)]
<1>3. Overwritten(c, from, s) = o
  BY <1>1, <1>2 DEF Overwritten
<1>4. ASSUME NEW i \in 1..m PROVE cell(i) \in Nat
  <2>1. CASE i \in (from + 1)..(from + ls)
    <3>1. i - from \in 1..ls
      BY <2>1
    <3> QED BY <2>1, <3>1, <1>1
  <2>2. CASE i \notin (from + 1)..(from + ls)
    BY <2>2, <1>1
  <2> QED BY <2>1, <2>2
<1>5. o \in Seq(Nat) /\ Len(o) = m
  <2> HIDE DEF cell
  <2> QED BY <1>4
<1>6. ASSUME NEW i \in 1..ls PROVE o[from + i] = s[i]
  <2>1. from + i \in 1..m /\ from + i \in (from + 1)..(from + ls) /\ (from + i) - from = i
    BY <1>2
  <2> QED BY <2>1
<1>7. ASSUME NEW i \in 1..lc, i <= from \/ i > from + ls PROVE o[i] = c[i]
  <2>1. i \in 1..m /\ i \notin (from + 1)..(from + ls) /\ i <= lc
    BY <1>2, <1>7
  <2> QED BY <2>1
<1> HIDE DEF o
<1> QED BY <1>1, <1>2, <1>3, <1>5, <1>6, <1>7

\* What a write does not touch stays in place.
LEMMA StaysInPlace ==
  ASSUME NEW c \in Seq(Nat), NEW from \in Nat, NEW s \in Seq(Nat), NEW e,
         InPlace(c, e), ~ Touches(e, from, Len(s))
  PROVE  InPlace(Overwritten(c, from, s), e)
<1>1. PICK t : /\ Codes(e.type, e.val, t)
               /\ e.at \in Nat /\ e.size = Len(t) /\ e.size # 0
               /\ e.at + e.size <= Len(c)
               /\ \A i \in 1..e.size : c[e.at + i] = t[i]
  BY DEF InPlace
<1>2. PICK o : o = Overwritten(c, from, s)
  OBVIOUS
<1>3. /\ o \in Seq(Nat) /\ Len(o) >= Len(c)
      /\ \A i \in 1..Len(c) : (i <= from \/ i > from + Len(s)) => o[i] = c[i]
  BY <1>2, OverwriteFacts
<1>4. PICK at, n, ls, lc \in Nat : at = e.at /\ n = e.size /\ ls = Len(s) /\ lc = Len(c)
  <2>1. t \in Seq(Nat)
    BY <1>1 DEF Codes
  <2> QED BY <2>1, <1>1
<1>5. at + n <= lc /\ (from + ls <= at \/ at + n <= from)
  BY <1>1, <1>4 DEF Touches
<1>6. ASSUME NEW i \in 1..n PROVE o[at + i] = t[i]
  <2>1. at + i \in 1..lc /\ (at + i <= from \/ at + i > from + ls)
    BY <1>5
  <2> QED BY <2>1, <1>1, <1>3, <1>4
<1>7. e.at + e.size <= Len(o)
  <2>1. Len(o) \in Nat
    BY <1>3
  <2> QED BY <2>1, <1>3, <1>4, <1>5
<1> QED BY <1>1, <1>2, <1>4, <1>6, <1>7 DEF InPlace

HandleType == [valid : BOOLEAN, path : Paths \cup {""}, mode : Modes \cup {""}, pos : Nat]

\* The bytes of everything in the log are in place, a file that is gone has none, and
\* one that is there is in its folder.
FilesInv ==
  /\ content \in [Paths -> Seq(Nat) \cup {Gone}]
  /\ DOMAIN log = Paths
  /\ \A p \in Paths : \A e \in log[p] : InPlace(content[p], e)
  /\ \A p \in Paths : content[p] = Gone => log[p] = {}
  /\ \A p \in Paths : content[p] # Gone => FolderOf[p] \in folders

\* A valid handle is on a file that is there, is where the script left it, and has the
\* engine's file open.
HandlesInv ==
  /\ handle \in [Handles -> HandleType]
  /\ seen \in [Handles -> Nat]
  /\ openFiles \in [Handles -> Int]
  /\ \A h \in Handles : openFiles[h] = IF handle[h].valid THEN 1 ELSE 0
  /\ \A h \in Handles : handle[h].valid =>
       /\ handle[h].path \in Paths /\ content[handle[h].path] # Gone
       /\ handle[h].pos = seen[h]

VfsInv == FilesInv /\ HandlesInv

\* No bytes are the mark of a file that is gone.
LEMMA NeverGone == ASSUME NEW c \in Seq(Nat) PROVE c # Gone
<1> SUFFICES ASSUME c = Gone PROVE FALSE
  OBVIOUS
<1>1. Len(c) = 1 /\ c[1] = -1
  BY DEF Gone
<1>2. c[1] \in Nat
  BY <1>1
<1> QED BY <1>1, <1>2

\* A step that gives one file other bytes and another log, and keeps the folders.
LEMMA FileStep ==
  ASSUME FilesInv, NEW path \in Paths, NEW c \in Seq(Nat) \cup {Gone}, NEW l,
         content' = [content EXCEPT ![path] = c], log' = [log EXCEPT ![path] = l],
         \A e \in l : InPlace(c, e), c = Gone => l = {}, c # Gone => FolderOf[path] \in folders',
         folders \subseteq folders'
  PROVE  FilesInv'
<1>1. content' \in [Paths -> Seq(Nat) \cup {Gone}] /\ DOMAIN log' = Paths
  BY DEF FilesInv
<1>2. /\ content'[path] = c /\ log'[path] = l
      /\ \A p \in Paths \ {path} : content'[p] = content[p] /\ log'[p] = log[p]
  BY DEF FilesInv
<1>3. ASSUME NEW p \in Paths
      PROVE  /\ \A e \in log'[p] : InPlace(content'[p], e)
             /\ content'[p] = Gone => log'[p] = {}
             /\ content'[p] # Gone => FolderOf[p] \in folders'
  <2>1. CASE p = path
    BY <2>1, <1>2
  <2>2. CASE p # path
    BY <2>2, <1>2 DEF FilesInv
  <2> QED BY <2>1, <2>2
<1> QED BY <1>1, <1>3 DEF FilesInv

\* A step that leaves a handle with record r at position n, while no file goes away that
\* a handle is on.
LEMMA HandleStep ==
  ASSUME HandlesInv, NEW h \in Handles, NEW r \in HandleType, NEW n \in Nat,
         handle' = [handle EXCEPT ![h] = r], seen' = [seen EXCEPT ![h] = n],
         openFiles' = [openFiles EXCEPT ![h] = IF r.valid THEN 1 ELSE 0],
         r.valid => r.path \in Paths /\ content'[r.path] # Gone /\ r.pos = n,
         \A p \in Paths : content[p] # Gone => content'[p] # Gone
  PROVE  HandlesInv'
<1>1. /\ handle' \in [Handles -> HandleType] /\ seen' \in [Handles -> Nat]
      /\ openFiles' \in [Handles -> Int]
  BY DEF HandlesInv
<1>2. /\ handle'[h] = r /\ seen'[h] = n /\ openFiles'[h] = IF r.valid THEN 1 ELSE 0
      /\ \A k \in Handles \ {h} : handle'[k] = handle[k] /\ seen'[k] = seen[k] /\ openFiles'[k] = openFiles[k]
  BY DEF HandlesInv
<1>3. ASSUME NEW k \in Handles
      PROVE  /\ openFiles'[k] = IF handle'[k].valid THEN 1 ELSE 0
             /\ handle'[k].valid => /\ handle'[k].path \in Paths /\ content'[handle'[k].path] # Gone
                                    /\ handle'[k].pos = seen'[k]
  <2>1. CASE k = h
    BY <2>1, <1>2
  <2>2. CASE k # h
    BY <2>2, <1>2 DEF HandlesInv
  <2> QED BY <2>1, <2>2
<1> QED BY <1>1, <1>3 DEF HandlesInv

\* A step that leaves the files alone.
LEMMA FilesSame ==
  ASSUME FilesInv, UNCHANGED <<content, log>>, \A p \in Paths : content[p] # Gone => FolderOf[p] \in folders'
  PROVE  FilesInv'
BY DEF FilesInv

\* And one that leaves the handles alone.
LEMMA HandlesSame ==
  ASSUME HandlesInv, UNCHANGED <<handle, seen, openFiles>>,
         \A h \in Handles : handle[h].valid => content'[handle[h].path] # Gone
  PROVE  HandlesInv'
BY DEF HandlesInv

\* Opening, by whichever mode, keeps the invariant.
LEMMA OpenKeeps ==
  ASSUME VfsInv, NEW h \in Handles, NEW path \in Paths \cup BadPaths, NEW mode \in Modes, Open(h, path, mode)
  PROVE  VfsInv'
<1>1. path \in Paths
  BY DEF Open, Allowed
<1>2. PICK c : c = IF mode = "wb" \/ content[path] = Gone THEN <<>> ELSE content[path]
  OBVIOUS
<1>3. PICK l : l = IF mode = "wb" THEN {} ELSE log[path]
  OBVIOUS
<1>4. /\ content' = [content EXCEPT ![path] = c] /\ log' = [log EXCEPT ![path] = l]
      /\ folders' = folders \cup {FolderOf[path]}
  BY <1>2, <1>3 DEF Open
<1>5. c \in Seq(Nat) /\ c # Gone
  <2>1. c \in Seq(Nat)
    BY <1>1, <1>2 DEF VfsInv, FilesInv
  <2> QED BY <2>1, NeverGone
<1>6. \A e \in l : InPlace(c, e)
  BY <1>1, <1>2, <1>3 DEF VfsInv, FilesInv
<1>7. FilesInv'
  BY <1>1, <1>4, <1>5, <1>6, FileStep DEF VfsInv
<1>8. PICK r : r = [valid |-> TRUE, path |-> path, mode |-> mode, pos |-> 0]
  OBVIOUS
<1>9. r \in HandleType
  BY <1>1, <1>8 DEF HandleType
<1>10. /\ handle' = [handle EXCEPT ![h] = r] /\ seen' = [seen EXCEPT ![h] = 0]
       /\ openFiles' = [openFiles EXCEPT ![h] = IF r.valid THEN 1 ELSE 0]
  <2>1. handle[h] = NoHandle
    BY DEF Open
  <2>2. NoHandle.valid = FALSE
    BY Zenon DEF NoHandle
  <2>3. openFiles[h] = 0
    BY <2>1, <2>2 DEF VfsInv, HandlesInv
  <2> QED BY <1>8, <2>3 DEF Open
<1>11. r.path \in Paths /\ content'[r.path] # Gone /\ r.pos = 0
  BY <1>1, <1>4, <1>5, <1>8 DEF VfsInv, FilesInv
<1>12. \A p \in Paths : content[p] # Gone => content'[p] # Gone
  BY <1>4, <1>5 DEF VfsInv, FilesInv
<1>13. HandlesInv'
  <2>1. r.valid => r.path \in Paths /\ content'[r.path] # Gone /\ r.pos = 0
    BY <1>11
  <2>2. HandlesInv /\ 0 \in Nat
    BY DEF VfsInv
  <2> QED BY <1>9, <1>10, <2>1, <2>2, <1>12, HandleStep
<1> QED BY <1>7, <1>13 DEF VfsInv

\* So does a failed one, which makes the folders.
LEMMA OpenFailsKeeps ==
  ASSUME VfsInv, NEW path \in Paths \cup BadPaths, NEW mode \in Modes, OpenFails(path, mode)
  PROVE  VfsInv'
<1>1. FilesInv'
  BY FilesSame DEF VfsInv, OpenFails, FilesInv
<1>2. HandlesInv'
  BY HandlesSame DEF VfsInv, OpenFails, HandlesInv
<1> QED BY <1>1, <1>2 DEF VfsInv

\* No handle is on a file that is removed, and a folder that is removed has none.
LEMMA RemoveKeeps ==
  ASSUME VfsInv, NEW path \in Paths, RemoveFile(path) \/ RemoveDir(FolderOf[path])
  PROVE  VfsInv'
<1>1. CASE RemoveFile(path)
  <2>1. FilesInv'
    <3>1. /\ content' = [content EXCEPT ![path] = Gone] /\ log' = [log EXCEPT ![path] = {}]
          /\ folders' = folders
      BY <1>1 DEF RemoveFile
    <3> QED BY <3>1, FileStep DEF VfsInv
  <2>2. ASSUME NEW h \in Handles, handle[h].valid PROVE content'[handle[h].path] # Gone
    BY <1>1, <2>2 DEF RemoveFile, IsOpen, VfsInv, HandlesInv, FilesInv
  <2>3. HandlesInv'
    BY <1>1, <2>2, HandlesSame DEF VfsInv, RemoveFile
  <2> QED BY <2>1, <2>3 DEF VfsInv
<1>2. CASE RemoveDir(FolderOf[path])
  <2>1. FilesInv'
    BY <1>2, FilesSame DEF VfsInv, RemoveDir, FilesInv
  <2>2. HandlesInv'
    BY <1>2, HandlesSame DEF VfsInv, RemoveDir, HandlesInv
  <2> QED BY <2>1, <2>2 DEF VfsInv
<1> QED BY <1>1, <1>2

\* Closing closes the engine's file once, whoever comes first.
LEMMA CloseKeeps ==
  ASSUME VfsInv, NEW h \in Handles, Close(h) \/ GarbageCollect(h)
  PROVE  VfsInv'
<1>1. FilesInv'
  BY FilesSame DEF VfsInv, FilesInv, Close, GarbageCollect
<1>2. handle[h] \in HandleType /\ seen[h] \in Nat /\ openFiles[h] = IF handle[h].valid THEN 1 ELSE 0
  BY DEF VfsInv, HandlesInv
<1>3. \A p \in Paths : content[p] # Gone => content'[p] # Gone
  BY DEF Close, GarbageCollect
<1>4. CASE Close(h)
  <2>1. PICK r : r = [handle[h] EXCEPT !.valid = FALSE]
    OBVIOUS
  <2>2. r \in HandleType /\ r.valid = FALSE
    BY <1>2, <2>1 DEF HandleType
  <2>3. /\ handle' = [handle EXCEPT ![h] = r] /\ seen' = [seen EXCEPT ![h] = seen[h]]
        /\ openFiles' = [openFiles EXCEPT ![h] = IF r.valid THEN 1 ELSE 0]
    <3>1. openFiles[h] - 1 = 0
      BY <1>2, <1>4 DEF Close, CheckIsValid
    <3>2. handle' = [handle EXCEPT ![h] = r]
      BY <1>4, <2>1 DEF Close, Invalidated
    <3>3. seen' = [seen EXCEPT ![h] = seen[h]]
      BY <1>4 DEF Close, VfsInv, HandlesInv
    <3> QED BY <1>4, <2>2, <3>1, <3>2, <3>3 DEF Close
  <2>4. HandlesInv'
    BY <1>2, <1>3, <2>2, <2>3, HandleStep DEF VfsInv
  <2> QED BY <1>1, <2>4 DEF VfsInv
<1>5. CASE GarbageCollect(h)
  <2>1. NoHandle \in HandleType /\ NoHandle.valid = FALSE
    BY DEF NoHandle, HandleType
  <2>2. /\ handle' = [handle EXCEPT ![h] = NoHandle] /\ seen' = [seen EXCEPT ![h] = 0]
        /\ openFiles' = [openFiles EXCEPT ![h] = IF NoHandle.valid THEN 1 ELSE 0]
    <3>1. (IF handle[h].valid THEN openFiles[h] - 1 ELSE openFiles[h]) = 0
      BY <1>2
    <3> QED BY <1>5, <2>1, <3>1 DEF GarbageCollect
  <2>3. HandlesInv'
    BY <1>3, <2>1, <2>2, HandleStep DEF VfsInv
  <2> QED BY <1>1, <2>3 DEF VfsInv
<1> QED BY <1>4, <1>5

\* A handle that moves, and where the script has it then.
LEMMA MoveKeeps ==
  ASSUME VfsInv, NEW h \in Handles, handle[h].valid, NEW n \in Nat,
         handle' = [handle EXCEPT ![h].pos = n], seen' = [seen EXCEPT ![h] = n],
         openFiles' = openFiles, \A p \in Paths : content[p] # Gone => content'[p] # Gone
  PROVE  HandlesInv'
<1>1. PICK r : r = [handle[h] EXCEPT !.pos = n]
  OBVIOUS
<1>2. handle[h] \in HandleType /\ openFiles[h] = 1 /\ handle[h].path \in Paths /\ content[handle[h].path] # Gone
  BY DEF VfsInv, HandlesInv
<1>3. r \in HandleType /\ r.valid /\ r.path = handle[h].path /\ r.pos = n
  BY <1>1, <1>2 DEF HandleType
<1>4. handle' = [handle EXCEPT ![h] = r] /\ openFiles' = [openFiles EXCEPT ![h] = IF r.valid THEN 1 ELSE 0]
  <2>1. handle' = [handle EXCEPT ![h] = r]
    BY <1>1
  <2>2. openFiles' = [openFiles EXCEPT ![h] = 1]
    BY <1>2 DEF VfsInv, HandlesInv
  <2> QED BY <1>3, <2>1, <2>2
<1>5. r.valid => r.path \in Paths /\ content'[r.path] # Gone /\ r.pos = n
  BY <1>2, <1>3
<1>6. HandlesInv
  BY DEF VfsInv
<1> QED BY <1>3, <1>4, <1>5, <1>6, HandleStep

\* What a write is given are the bytes of its value.
LEMMA Coded ==
  /\ \A type \in DOMAIN Width, v \in WrittenValues : Codes(type, <<v>>, BytesOf(type, v))
  /\ \A t \in Texts : Codes("string", CString(t), BytesOf("string", t))
  /\ \A t \in Texts, n \in Nat : LET cut == SubSeq(t, 1, Least(n, Len(t))) IN Codes("data", cut, cut)
<1>1. ASSUME NEW type \in DOMAIN Width, NEW v \in WrittenValues PROVE Codes(type, <<v>>, BytesOf(type, v))
  <2>1. v \in Int /\ Width[type] \in Nat /\ type # "string" /\ type # "data" /\ B \in Nat \ {0}
    BY VfsAssumption
  <2>2. BytesOf(type, v) = Digits(v, Width[type])
    BY <2>1 DEF BytesOf
  <2>3. PICK w \in Nat : w = Width[type]
    BY <2>1
  <2>4. ASSUME NEW i \in 1..w PROVE (v \div Place(i - 1)) % B \in Nat
    <3>1. i - 1 \in Nat
      OBVIOUS
    <3>2. PICK q \in Nat \ {0} : q = Place(i - 1)
      BY <3>1, Places
    <3>3. v \div q \in Int
      BY <2>1
    <3> QED BY <2>1, <3>2, <3>3
  <2>5. Digits(v, w) \in Seq(Nat)
    BY <2>4 DEF Digits
  <2>6. <<v>>[1] = v
    OBVIOUS
  <2> QED BY <2>1, <2>2, <2>3, <2>5, <2>6 DEF Codes
<1>2. ASSUME NEW t \in Texts PROVE t \in Seq(Nat)
  <2>1. t \in Seq(0..(B - 1)) /\ B \in Nat
    BY VfsAssumption
  <2> QED BY <2>1
<1>3. ASSUME NEW t \in Texts PROVE Codes("string", CString(t), BytesOf("string", t))
  <2>1. BytesOf("string", t) = CString(t) \o <<0>>
    BY DEF BytesOf
  <2>2. CString(t) \in Seq(Nat) /\ \A i \in 1..Len(CString(t)) : CString(t)[i] # 0
    BY <1>2, CStringFacts
  <2> HIDE DEF CString
  <2>3. CString(t) \o <<0>> \in Seq(Nat)
    BY <2>2
  <2> QED BY <2>1, <2>2, <2>3 DEF Codes
<1>4. ASSUME NEW t \in Texts, NEW n \in Nat
      PROVE  Codes("data", SubSeq(t, 1, Least(n, Len(t))), SubSeq(t, 1, Least(n, Len(t))))
  <2>1. t \in Seq(Nat) /\ Len(t) \in Nat
    BY <1>2
  <2>2. PICK a, b \in Int : a = 1 /\ b = Least(n, Len(t)) /\ b <= Len(t)
    BY <2>1 DEF Least
  <2>3. \A i \in a..b : t[i] \in Nat
    BY <2>1, <2>2
  <2>4. SubSeq(t, a, b) \in Seq(Nat)
    BY <2>3, SubSeqProperties
  <2> QED BY <2>2, <2>4 DEF Codes
<1> QED BY <1>1, <1>3, <1>4

\* A write puts its bytes in place, and what it does not touch stays there.
LEMMA WriteBytesKeeps ==
  ASSUME VfsInv, NEW h \in Handles, handle[h].valid, NEW type, NEW v, NEW s, Codes(type, v, s),
         WriteBytes(h, type, v, s)
  PROVE  VfsInv'
<1>1. PICK path : path = handle[h].path
  OBVIOUS
<1>2. PICK from : from = IF handle[h].mode = "ab" THEN Len(content[path]) ELSE handle[h].pos
  OBVIOUS
<1>3. PICK e : e = [at |-> from, type |-> type, val |-> v, size |-> Len(s)]
  OBVIOUS
<1>4. PICK c : c = content[path]
  OBVIOUS
<1>5. path \in Paths /\ c \in Seq(Nat) /\ handle[h].pos = seen[h] /\ handle[h].pos \in Nat
  <2>1. path \in Paths /\ c # Gone /\ handle[h].pos = seen[h]
    BY <1>1, <1>4 DEF VfsInv, HandlesInv
  <2>2. handle[h].pos \in Nat
    BY DEF VfsInv, HandlesInv, HandleType
  <2> QED BY <1>4, <2>1, <2>2 DEF VfsInv, FilesInv
<1>6. s \in Seq(Nat) /\ from \in Nat
  <2>1. s \in Seq(Nat)
    BY DEF Codes
  <2> QED BY <1>2, <1>4, <1>5, <2>1
<1>7. PICK l : l = {k \in log[path] : ~Touches(k, from, Len(s))} \cup (IF s = <<>> THEN {} ELSE {e})
  OBVIOUS
<1>8. PICK o : o = Overwritten(c, from, s)
  OBVIOUS
<1>9. /\ content' = [content EXCEPT ![path] = o] /\ log' = [log EXCEPT ![path] = l]
      /\ handle' = [handle EXCEPT ![h].pos = from + Len(s)]
      /\ seen' = [seen EXCEPT ![h] = from + Len(s)]
      /\ folders' = folders /\ openFiles' = openFiles
  <2>1. (IF handle[h].mode = "ab" THEN Len(content[path]) ELSE seen[h]) = from
    BY <1>2, <1>5
  <2>2. from = IF handle[h].mode = "ab" THEN Len(content[handle[h].path]) ELSE handle[h].pos
    BY <1>1, <1>2
  <2>3. from = IF handle[h].mode = "ab" THEN Len(content[handle[h].path]) ELSE seen[h]
    BY <1>1, <2>1
  <2>4. /\ content' = [content EXCEPT ![handle[h].path] = Overwritten(@, from, s)]
        /\ handle' = [handle EXCEPT ![h].pos = from + Len(s)]
        /\ seen' = [seen EXCEPT ![h] = from + Len(s)]
        /\ log' = [log EXCEPT ![handle[h].path] = {k \in @ : ~Touches(k, from, Len(s))} \cup
               (IF s = <<>> THEN {} ELSE {[at |-> from, type |-> type, val |-> v, size |-> Len(s)]})]
        /\ folders' = folders /\ openFiles' = openFiles
    BY <2>2, <2>3, Zenon DEF WriteBytes
  <2> QED BY <1>1, <1>3, <1>4, <1>7, <1>8, <2>4
<1>10. /\ o \in Seq(Nat) /\ Len(o) >= Len(c) /\ Len(o) >= from + Len(s)
       /\ \A i \in 1..Len(s) : o[from + i] = s[i]
  BY <1>5, <1>6, <1>8, OverwriteFacts
<1>11. o # Gone
  BY <1>10, NeverGone
<1>12. ASSUME NEW k \in l PROVE InPlace(o, k)
  <2>1. CASE k \in log[path] /\ ~Touches(k, from, Len(s))
    <3>1. InPlace(c, k)
      BY <2>1, <1>4, <1>5 DEF VfsInv, FilesInv
    <3> QED BY <2>1, <3>1, <1>5, <1>6, <1>8, StaysInPlace
  <2>2. CASE k = e /\ s # <<>>
    <3>1. Len(s) \in Nat /\ Len(s) # 0
      BY <2>2, <1>6
    <3>2. /\ k.type = type /\ k.val = v /\ k.at = from /\ k.size = Len(s)
      BY <2>2, <1>3
    <3> QED BY <3>1, <3>2, <1>6, <1>10 DEF InPlace
  <2> QED BY <2>1, <2>2, <1>7
<1>13. FilesInv'
  <2>1. FolderOf[path] \in folders'
    BY <1>1, <1>5, <1>9 DEF VfsInv, FilesInv, HandlesInv
  <2> QED BY <1>5, <1>9, <1>10, <1>11, <1>12, <2>1, FileStep DEF VfsInv
<1>14. HandlesInv'
  <2>1. \A p \in Paths : content[p] # Gone => content'[p] # Gone
    BY <1>5, <1>9, <1>11 DEF VfsInv, FilesInv
  <2>2. from + Len(s) \in Nat
    BY <1>6
  <2> QED BY <1>9, <2>1, <2>2, MoveKeeps
<1> QED BY <1>13, <1>14 DEF VfsInv

LEMMA WriteKeeps ==
  ASSUME VfsInv, NEW h \in Handles, Write(h)
  PROVE  VfsInv'
<1>1. handle[h].valid
  BY DEF Write, CheckIsValid
<1>2. CASE \E type \in DOMAIN Width, v \in WrittenValues : WriteBytes(h, type, <<v>>, BytesOf(type, v))
  BY <1>1, <1>2, Coded, WriteBytesKeeps
<1>3. CASE \E t \in Texts : WriteBytes(h, "string", CString(t), BytesOf("string", t))
  BY <1>1, <1>3, Coded, WriteBytesKeeps
<1>4. CASE \E t \in Texts, asked \in 0..(MaxSize + 1) :
             LET cut == SubSeq(t, 1, Least(asked, Len(t))) IN WriteBytes(h, "data", cut, cut)
  <2>1. PICK t \in Texts, asked \in 0..(MaxSize + 1) :
          WriteBytes(h, "data", SubSeq(t, 1, Least(asked, Len(t))), SubSeq(t, 1, Least(asked, Len(t))))
    BY <1>4
  <2>2. asked \in Nat
    BY <2>1
  <2>3. PICK cut : cut = SubSeq(t, 1, Least(asked, Len(t)))
    OBVIOUS
  <2>4. Codes("data", cut, cut)
    BY <2>2, <2>3, Coded
  <2>5. WriteBytes(h, "data", cut, cut)
    BY <2>1, <2>3
  <2> QED BY <1>1, <2>4, <2>5, WriteBytesKeeps
<1> QED BY <1>2, <1>3, <1>4 DEF Write

\* A read takes a number of bytes.
LEMMA ReadSize ==
  ASSUME NEW c \in Seq(Nat), NEW from \in Nat, NEW type \in Types, NEW len \in Nat
  PROVE  ReadFrom(c, from, type, len).size \in Nat
<1> DEFINE left == IF from < Len(c) THEN Len(c) - from ELSE 0
           rest == SubSeq(c, from + 1, from + left)
           n == Least(IF type = "data" THEN len ELSE Width[type], left)
<1>1. left \in Nat /\ from + left <= (IF from < Len(c) THEN Len(c) ELSE from)
  OBVIOUS
<1>2. rest \in Seq(Nat)
  <2>1. PICK a, b \in Int : a = from + 1 /\ b = from + left
    BY <1>1
  <2>2. \A i \in a..b : c[i] \in Nat
    BY <1>1, <2>1
  <2>3. SubSeq(c, a, b) \in Seq(Nat)
    BY <2>2, SubSeqProperties
  <2> QED BY <2>1, <2>3
<1> HIDE DEF left, rest
<1>3. CASE type = "string"
  <2>1. ReadFrom(c, from, type, len).size = Least(Len(CString(rest)) + 1, left)
    BY <1>3 DEF ReadFrom, left, rest
  <2>2. Len(CString(rest)) \in Nat
    BY <1>2, CStringFacts
  <2> QED BY <1>1, <2>1, <2>2 DEF Least
<1>4. CASE type = "data"
  <2>1. ReadFrom(c, from, type, len).size = Least(len, left)
    BY <1>4 DEF ReadFrom, left
  <2> QED BY <1>1, <2>1 DEF Least
<1>5. CASE type \in DOMAIN Width
  <2>1. type # "string" /\ type # "data" /\ Width[type] \in Nat
    BY <1>5, VfsAssumption
  <2>2. ReadFrom(c, from, type, len).size = Least(Width[type], left)
    BY <2>1 DEF ReadFrom, left
  <2> QED BY <1>1, <2>1, <2>2 DEF Least
<1> QED BY <1>3, <1>4, <1>5 DEF Types

\* Reading, seeking and the checksum leave the handle where they say.
LEMMA LookKeeps ==
  ASSUME VfsInv, NEW h \in Handles, Read(h) \/ SeekHandle(h) \/ CRC32(h)
  PROVE  VfsInv'
<1>1. handle[h].valid
  BY DEF Read, SeekHandle, CRC32, CheckIsValid
<1>2. PICK pos \in Nat : pos = handle[h].pos /\ pos = seen[h]
  <2>1. handle[h].pos \in Nat
    BY DEF VfsInv, HandlesInv, HandleType
  <2> QED BY <1>1, <2>1 DEF VfsInv, HandlesInv
<1>3. PICK c : c = content[handle[h].path] /\ c \in Seq(Nat)
  BY <1>1 DEF VfsInv, HandlesInv, FilesInv
<1>4. content' = content /\ log' = log /\ folders' = folders /\ openFiles' = openFiles
  BY DEF Read, SeekHandle, CRC32
<1>5. FilesInv'
  BY <1>4, FilesSame DEF VfsInv, FilesInv
<1>6. \E n \in Nat : handle' = [handle EXCEPT ![h].pos = n] /\ seen' = [seen EXCEPT ![h] = n]
  <2>1. CASE Read(h)
    <3>1. PICK type \in Types, len \in 0..MaxSize :
            /\ handle' = [handle EXCEPT ![h].pos = @ + ReadFrom(c, pos, type, len).size]
            /\ seen' = [seen EXCEPT ![h] = @ + ReadFrom(c, pos, type, len).size]
      BY <2>1, <1>2, <1>3, Zenon DEF Read
    <3>2. len \in Nat
      BY <3>1, VfsAssumption
    <3>3. PICK n \in Nat : n = ReadFrom(c, pos, type, len).size
      BY <1>3, <3>2, ReadSize
    <3>4. pos + n \in Nat
      OBVIOUS
    <3>5. handle' = [handle EXCEPT ![h].pos = pos + n] /\ seen' = [seen EXCEPT ![h] = pos + n]
      BY <1>2, <3>1, <3>3
    <3> QED BY <3>4, <3>5
  <2>2. CASE SeekHandle(h)
    <3>1. PICK n \in (0 - MaxSize)..MaxSize, from \in {0, pos, Len(c)} :
            /\ SeekTo(h, from + n)
            /\ seen' = [seen EXCEPT ![h] = IF from + n < 0 THEN @ ELSE from + n]
      BY <2>2, <1>2, <1>3, Zenon DEF SeekHandle
    <3>2. from \in Nat /\ n \in Int
      BY <1>3, <3>1, VfsAssumption
    <3>3. PICK to : to = IF from + n < 0 THEN pos ELSE from + n
      OBVIOUS
    <3>4. to \in Nat
      BY <3>2, <3>3
    <3>5. handle' = [handle EXCEPT ![h].pos = to] /\ seen' = [seen EXCEPT ![h] = to]
      BY <1>2, <3>1, <3>3 DEF SeekTo
    <3> QED BY <3>4, <3>5
  <2>3. CASE CRC32(h)
    <3>1. seen' = [seen EXCEPT ![h] = pos]
      BY <2>3, <1>2 DEF CRC32, VfsInv, HandlesInv
    <3>2. handle' = [handle EXCEPT ![h].pos = pos]
      BY <2>3, <1>2 DEF CRC32, Rewound, SeekTo
    <3> QED BY <3>1, <3>2
  <2> QED BY <2>1, <2>2, <2>3
<1>7. HandlesInv'
  BY <1>1, <1>4, <1>6, MoveKeeps
<1> QED BY <1>5, <1>7 DEF VfsInv

\* The invariant of the files and the handles on them.
THEOREM VfsInvariant == VfsSpec => []VfsInv
<1>1. VfsInit => VfsInv
  <2> SUFFICES ASSUME VfsInit PROVE VfsInv
    OBVIOUS
  <2>1. FilesInv
    BY DEF VfsInit, FilesInv
  <2>2. NoHandle \in HandleType /\ NoHandle.valid = FALSE
    BY Zenon DEF NoHandle, HandleType
  <2>3. HandlesInv
    BY <2>2 DEF VfsInit, HandlesInv
  <2> QED BY <2>1, <2>3 DEF VfsInv
<1>2. VfsInv /\ [VfsNext]_vfsVars => VfsInv'
  <2> SUFFICES ASSUME VfsInv, [VfsNext]_vfsVars PROVE VfsInv'
    OBVIOUS
  <2>1. CASE \E h \in Handles, path \in Paths \cup BadPaths, mode \in Modes :
               Open(h, path, mode) \/ OpenFails(path, mode)
    BY <2>1, OpenKeeps, OpenFailsKeeps
  <2>2. CASE \E path \in Paths : RemoveFile(path) \/ RemoveDir(FolderOf[path])
    BY <2>2, RemoveKeeps
  <2>3. CASE \E h \in Handles : OnHandle(h)
    BY <2>3, CloseKeeps, WriteKeeps, LookKeeps DEF OnHandle
  <2>4. CASE UNCHANGED vfsVars
    BY <2>4 DEF vfsVars, VfsInv, FilesInv, HandlesInv
  <2> QED BY <2>1, <2>2, <2>3, <2>4 DEF VfsNext
<1> QED BY <1>1, <1>2, PTL DEF VfsSpec

\* Whatever is written reads back where the script wrote it until it is overwritten, for
\* any files, handles, texts, numbers and widths.
THEOREM FilesReadBack == VfsSpec => []WrittenReadsBack
<1>1. VfsInv => WrittenReadsBack
  <2> SUFFICES ASSUME VfsInv PROVE WrittenReadsBack
    OBVIOUS
  <2>1. ASSUME NEW p \in Paths, NEW e \in log[p]
        PROVE  ReadFrom(content[p], e.at, e.type, e.size) =
                 [val |-> IF e.type \in DOMAIN Width THEN e.val[1] % Place(Width[e.type]) ELSE e.val,
                  size |-> e.size]
    <3>1. InPlace(content[p], e) /\ content[p] \in Seq(Nat)
      BY DEF VfsInv, FilesInv
    <3> QED BY <3>1, PlaceRead
  <2>2. /\ \A h \in Handles : openFiles[h] = IF handle[h].valid THEN 1 ELSE 0
        /\ \A h \in Handles : handle[h].valid => Tell(h) = seen[h]
        /\ \A p \in Paths : content[p] # Gone => FolderOf[p] \in folders
    BY DEF VfsInv, FilesInv, HandlesInv, Tell
  <2> QED BY <2>1, <2>2 DEF WrittenReadsBack
<1> QED BY <1>1, VfsInvariant, PTL
=============================================================================
