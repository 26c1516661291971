------------------------------ MODULE LevelDb ------------------------------
(***************************************************************************)
(* The module leveldb: one database that scripts read, write and iterate   *)
(* over, and the unique ids it hands out, a block of which is reserved on  *)
(* disk at a time.  The process may end between any two steps, also in     *)
(* leveldb_free(&err), which frees the address of a local variable.        *)
(***************************************************************************)
EXTENDS Integers, Sequences, FiniteSets

CONSTANTS
  KeyOrder,   \* the keys, sequences of characters, in the order of leveldb
  UidKey,     \* the key of the counter, "__impl_uniqueid"
  Strings,    \* the strings a script stores, as [len, val]
  Numbers,    \* the numbers a script stores, and the values of a vector
  Iters,      \* the iterators a script may hold at once
  BLOCK,      \* the ids reserved at once, 0x10000
  MaxCalls,   \* bound: starts, ids, writes and iterators
  NoIter

Keys == {KeyOrder[i] : i \in 1..Len(KeyOrder)}

ScriptKeys == Keys \ {UidKey}

NoEntry == [len |-> -1, val |-> 0]

Unsaid == <<"nothing">>

ASSUME BlockAssumption == BLOCK \in Nat \ {0}

ASSUME KeyAssumption == UidKey \in Keys

inRange(prefix, key) == Len(key) >= Len(prefix) /\ SubSeq(key, 1, Len(prefix)) = prefix

(* The order of leveldb: character by character, a shorter key first.      *)
Before(a, b) ==
  \/ inRange(a, b) /\ a # b
  \/ \E n \in 1..Len(a) :
       n <= Len(b) /\ a[n] < b[n] /\ \A m \in 1..n - 1 : a[m] = b[m]

ASSUME OrderAssumption ==
  /\ KeyOrder \in Seq(Seq(Nat))
  /\ \A i, j \in 1..Len(KeyOrder) : i < j => Before(KeyOrder[i], KeyOrder[j])

ASSUME StringAssumption == \A s \in Strings : s.len \in Nat

VARIABLES
  disk,      \* what a new process finds: an entry for every key, or NoEntry
  health,    \* "good", or "damaged": leveldb_open fails
  up,        \* the module is loaded and its database open
  curId,     \* the next id
  given,     \* the ids handed out, over all processes
  lost,      \* the counter on disk is not what the last put wrote
  iters,     \* the iterators scripts hold
  said,      \* what a script last stored under a key: a type and a value
  calls     \* starts, calls that wrote, and iterators

dbVars == <<disk, health, up, curId, given, lost, iters, said, calls>>

Calls == Len(given) + calls

Size ==
  [double |-> 8, integer |-> 4, bool |-> 1, vector |-> 12, angle |-> 12]

(* The bytes of a value: only how many there are and what they hold.       *)
Bytes(type, v) == [len |-> Size[type], val |-> v]

Entry(type, v) == IF type = "string" THEN v ELSE Bytes(type, v)

None == [ok |-> FALSE, val |-> 0]

DbInit ==
  /\ disk = [k \in Keys |-> NoEntry]
  /\ health = "good"
  /\ up = FALSE
  /\ curId = 0
  /\ given = <<>>
  /\ lost = FALSE
  /\ iters = [i \in Iters |-> NoIter]
  /\ said = [k \in ScriptKeys |-> Unsaid]
  /\ calls = 0

(* Bytes taken for a value of that type: there must be as many.            *)
Fitting(e, type) == IF e.len = Size[type] THEN [ok |-> TRUE, val |-> e.val] ELSE None

(* getVector and getAngle.                                                 *)
GotStruct(key, type) == Fitting(disk[key], type)

(* What the getters give.  A key that is not there has length 0, which is  *)
(* an empty string and too short for the rest.                             *)
Got(key, type) ==
  CASE type = "string" ->
         [ok |-> TRUE, val |-> IF disk[key] = NoEntry THEN [len |-> 0, val |-> 0] ELSE disk[key]]
    [] type \in {"vector", "angle"} -> GotStruct(key, type)
    [] OTHER -> Fitting(disk[key], type)

(* strToDouble, strToInteger, strToVector, strToAngle, strToBool, of what  *)
(* an iterator or getString returned.                                      *)
StrTo(type, str) == IF str.len = Size[type] THEN [ok |-> TRUE, val |-> str.val] ELSE None

(* A bug: the next process goes on in the block of the last. *)
FirstId_SameBlock ==
  LET e == disk[UidKey] IN IF e # NoEntry /\ e.len = 8 THEN e.val ELSE 0

(* The counter a new process starts with.                                  *)
FirstId ==
  LET e == disk[UidKey] IN IF e # NoEntry /\ e.len = 8 THEN e.val + BLOCK ELSE 0

Counter(id) == [len |-> 8, val |-> id]

(* updateDiskCounter.  The error of a put is dropped on the way: Database  *)
(* takes the pointer for it by value.                                      *)
updateDiskCounter(id) ==
  \/ disk' = [disk EXCEPT ![UidKey] = Counter(id)] /\ UNCHANGED lost
  \/ disk' = disk /\ lost' = TRUE

(* Init, with the database open; the counter may also be unreadable.       *)
Start ==
  /\ ~up /\ health = "good" /\ Calls < MaxCalls
  /\ \/ curId' = FirstId /\ updateDiskCounter(FirstId)
     \/ /\ curId' = 0
        /\ lost' = TRUE
        /\ disk' \in {disk, [disk EXCEPT ![UidKey] = Counter(0)]}
  /\ up' = TRUE
  /\ calls' = calls + 1
  /\ UNCHANGED <<health, given, iters, said>>

(* leveldb_open fails: the constructor repairs the files, which may drop   *)
(* an entry, and goes on with a null database, so Init crashes; or it      *)
(* throws.  Either way the next process finds what the repair left.        *)
Repair ==
  /\ ~up /\ health = "damaged"
  /\ \/ \E k \in Keys :
          /\ disk' \in {disk, [disk EXCEPT ![k] = NoEntry]}
          /\ said' = [x \in ScriptKeys |-> IF disk'[x] = NoEntry THEN Unsaid ELSE said[x]]
          /\ lost' = (lost \/ disk'[UidKey] # disk[UidKey])
          /\ health' = "good"
     \/ UNCHANGED <<disk, said, lost, health>>
  /\ UNCHANGED <<up, curId, given, iters, calls>>

(* The process ends; nothing of leveldb is closed by Shutdown.             *)
Crash ==
  /\ up
  /\ up' = FALSE
  /\ iters' = [i \in Iters |-> NoIter]
  /\ health' \in {"good", "damaged"}
  /\ UNCHANGED <<disk, curId, given, lost, said, calls>>

getUniqueID ==
  /\ up /\ Calls < MaxCalls
  /\ given' = Append(given, curId)
  /\ curId' = curId + 1
  /\ IF (curId + 1) % BLOCK = 0
     THEN updateDiskCounter(curId + 1)
     ELSE UNCHANGED <<disk, lost>>
  /\ UNCHANGED <<health, up, iters, said, calls>>

(* A setter says true whether leveldb_put fails or not.                    *)
put(key, type, v) ==
  /\ \/ disk' = [disk EXCEPT ![key] = Entry(type, v)] /\ said' = [said EXCEPT ![key] = <<type, v>>]
     \/ UNCHANGED <<disk, said>>
  /\ calls' = calls + 1
  /\ UNCHANGED <<health, up, curId, given, lost, iters>>

Stored(type) ==
  CASE type = "string" -> Strings
    [] type = "bool" -> {1}
    [] OTHER -> Numbers

(* setString, setDouble, setInteger, setVector, setAngle.  setBool asks    *)
(* for an angle, and any angle counts as true.                             *)
SetTyped ==
  /\ up /\ Calls < MaxCalls
  /\ \E key \in ScriptKeys, type \in DOMAIN Size \cup {"string"} :
       \E v \in Stored(type) : put(key, type, v)

(* setAny looks at the type of its argument; there is no integer.          *)
SetAny ==
  /\ up /\ Calls < MaxCalls
  /\ \E key \in ScriptKeys, type \in (DOMAIN Size \cup {"string"}) \ {"integer"} :
       \E v \in IF type = "bool" THEN {0, 1} ELSE Stored(type) : put(key, type, v)

(* addInteger and addDouble, which are written in Lua: a value that cannot *)
(* be read counts as none.                                                 *)
Add ==
  /\ up /\ Calls < MaxCalls
  /\ \E key \in ScriptKeys, type \in {"integer", "double"}, v \in Numbers :
       put(key, type, IF Got(key, type).ok THEN Got(key, type).val + v ELSE v)

database_delete ==
  /\ up /\ Calls < MaxCalls
  /\ \E key \in ScriptKeys :
       \/ /\ disk' = [disk EXCEPT ![key] = NoEntry]
          /\ said' = [said EXCEPT ![key] = Unsaid]
       \/ UNCHANGED <<disk, said>>
  /\ calls' = calls + 1
  /\ UNCHANGED <<health, up, curId, given, lost, iters>>

(* The position of the first entry from position n on.                     *)
FirstFrom(snap, n) ==
  LET there == {i \in n..Len(KeyOrder) : snap[KeyOrder[i]] # NoEntry}
  IN IF there = {} THEN Len(KeyOrder) + 1 ELSE CHOOSE i \in there : \A j \in there : i <= j

Position(key) == CHOOSE i \in 1..Len(KeyOrder) : KeyOrder[i] = key

(* A bug: only the constructor's seek to the first entry. *)
Seek_First(snap, key) == FirstFrom(snap, 1)

(* leveldb_iter_seek: the first entry that is not before the key.          *)
Seek(snap, key) == FirstFrom(snap, Position(key))

new_iter ==
  /\ up /\ Calls < MaxCalls
  /\ \E i \in Iters, prefix \in Keys :
       /\ iters[i] = NoIter
       /\ iters' = [iters EXCEPT ![i] =
            [view |-> disk, prefix |-> prefix, at |-> Seek(disk, prefix), got |-> <<>>, end |-> FALSE]]
  /\ calls' = calls + 1
  /\ UNCHANGED <<disk, health, up, curId, given, lost, said>>

fn_iter(i) ==
  LET it == iters[i] IN
  /\ up /\ it # NoIter
  /\ iters' = [iters EXCEPT ![i] =
       IF it.at <= Len(KeyOrder) /\ inRange(it.prefix, KeyOrder[it.at])
       THEN [it EXCEPT !.at = FirstFrom(it.view, it.at + 1),
                       !.got = Append(it.got, <<KeyOrder[it.at], it.view[KeyOrder[it.at]]>>)]
       ELSE [it EXCEPT !.end = TRUE]]
  /\ UNCHANGED <<disk, health, up, curId, given, lost, said, calls>>

(* The closure that holds the iterator is collected.                       *)
gc(i) ==
  /\ up /\ iters[i] # NoIter
  /\ iters' = [iters EXCEPT ![i] = NoIter]
  /\ UNCHANGED <<disk, health, up, curId, given, lost, said, calls>>

DbNext ==
  \/ Start \/ Repair \/ Crash
  \/ getUniqueID
  \/ SetTyped \/ SetAny \/ Add \/ database_delete
  \/ new_iter
  \/ \E i \in Iters : fn_iter(i) \/ gc(i)

DbSpec == DbInit /\ [][DbNext]_dbVars

(* No id is handed out twice, by one process or by two, unless leveldb     *)
(* lost the counter or refused to write it.                                *)
IdsAreUnique ==
  ~lost => \A i, j \in 1..Len(given) : given[i] = given[j] => i = j

(* The positions an iteration is to return, those up to one, and the entry *)
(* at one.                                                                 *)
Wanted(it) ==
  {p \in 1..Len(KeyOrder) : it.view[KeyOrder[p]] # NoEntry /\ inRange(it.prefix, KeyOrder[p])}
UpTo(it, p) == {q \in Wanted(it) : q <= p}
EntryAt(it, p) == <<KeyOrder[p], it.view[KeyOrder[p]]>>

(* An iteration returns the entries there were when it began whose keys    *)
(* have the prefix, in order, and ends when it has returned them all,      *)
(* whatever is written in the meantime.                                    *)
IterationIsSnapshot ==
  \A i \in {j \in Iters : iters[j] # NoIter} :
    LET it == iters[i] IN
    /\ \A n \in 1..Len(it.got) :
         \E p \in Wanted(it) : n = Cardinality(UpTo(it, p)) /\ it.got[n] = EntryAt(it, p)
    /\ it.end => Len(it.got) = Cardinality(Wanted(it))

(* A value is read as the type it was stored as, over restarts, and as     *)
(* another only if that has as many bytes; the string read and converted   *)
(* is what the typed getter gives.                                         *)
ReadAsStored ==
  \A k \in ScriptKeys : said[k] # Unsaid =>
    LET type == said[k][1] IN
    /\ Got(k, type) = [ok |-> TRUE, val |-> said[k][2]]
    /\ \A t \in DOMAIN Size \ {type} :
         Got(k, t).ok <=> Size[t] = Entry(type, said[k][2]).len
    /\ \A t \in DOMAIN Size : StrTo(t, Got(k, "string").val) = Got(k, t)

(* What scripts read is what they wrote: a typed read, by the type's own   *)
(* length check, and an iteration, by the state it began in.               *)
StoreIsFaithful == ReadAsStored /\ IterationIsSnapshot
=============================================================================
