---------------------------- MODULE StringTables ----------------------------
(***************************************************************************)
(* The module stringtables: the engine's network string tables as scripts  *)
(* read and fill them.  An entry is a name with user data, the bytes of    *)
(* which may or may not end in 0; most readers take them for a C string.   *)
(* The build defines neither CUSTOM_STRINGTABLE_HEADER, so Dump and Lock   *)
(* do nothing, nor CLIENT_DLL.                                             *)
(***************************************************************************)
EXTENDS Integers, Sequences

CONSTANTS
  Tables,        \* the names of the engine's tables
  EntryNames,    \* the strings of the tables
  ScriptData,    \* what scripts store as data, sequences of bytes
  EngineData,    \* what the engine stores itself
  MaxStrings,    \* the strings a table takes
  MaxTick        \* bound: the ticks

ASSUME StAssumption == ScriptData \subseteq Seq(Nat) /\ EngineData \subseteq Seq(Nat)

VARIABLES
  gotten,         \* the tables a script holds
  rows,          \* table -> sequence of [name, data]
  tick,          \* the tick of every table
  lastChanged,   \* the tick of its last change
  stored,        \* history: <<table, name>> -> the C string a script last stored there
  touched        \* history: the tables that changed since their last SetTick

stVars == <<gotten, rows, tick, lastChanged, stored, touched>>

Unset == <<-1>>     \* the null pointer: no user data, or no string
Overrun == <<-2>>   \* what is read beyond the end of the bytes

StInit ==
  /\ gotten = {}
  /\ rows = [t \in Tables |-> <<>>]
  /\ tick = [t \in Tables |-> 0]
  /\ lastChanged = [t \in Tables |-> 0]
  /\ stored = [x \in Tables \X EntryNames |-> Unset]
  /\ touched = Tables

(* StringTable(name) raises when FindTable finds none.                     *)
StNew(t) ==
  /\ t \notin gotten
  /\ gotten' = gotten \cup {t}
  /\ UNCHANGED <<rows, tick, lastChanged, stored, touched>>

Indices(t) == 0..Len(rows[t]) - 1
At(t, i) == rows[t][i + 1]

Changes(t, e) ==
  /\ rows' = [rows EXCEPT ![t] = e]
  /\ lastChanged' = [lastChanged EXCEPT ![t] = tick[t]]
  /\ touched' = touched \cup {t}
  /\ UNCHANGED <<gotten, tick>>

GetNumStrings(t) == Len(rows[t])

(* The engine adds a string once; the index it returns is dropped.         *)
AddString(t, name) ==
  /\ GetNumStrings(t) < MaxStrings
  /\ \A i \in Indices(t) : At(t, i).name # name
  /\ Changes(t, Append(rows[t], [name |-> name, data |-> Unset]))
  /\ UNCHANGED stored

Zeros(s) == {i \in 1..Len(s) : s[i] = 0}

(* strlen, of a string that Lua ends with a 0.                             *)
strlen(s) ==
  IF Zeros(s) = {} THEN Len(s) ELSE (CHOOSE i \in Zeros(s) : \A j \in Zeros(s) : i <= j) - 1

Text(s) == SubSeq(s, 1, strlen(s))

(* A bug: the length without the 0. *)
Passed_Short(s) == Text(s)

(* The bytes SetData passes on.                                            *)
Passed(s) == Append(Text(s), 0)

SetData(t, i, s) ==
  /\ Changes(t, [rows[t] EXCEPT ![i + 1].data = Passed(s)])
  /\ stored' = [stored EXCEPT ![<<t, At(t, i).name>>] = Text(s)]

(* The engine's own user data.                                             *)
EngineSets(t, i, d) ==
  /\ Changes(t, [rows[t] EXCEPT ![i + 1].data = d])
  /\ stored' = [stored EXCEPT ![<<t, At(t, i).name>>] = Unset]

SetTick(t) ==
  /\ tick[t] < MaxTick
  /\ tick' = [tick EXCEPT ![t] = @ + 1]
  /\ touched' = touched \ {t}
  /\ UNCHANGED <<gotten, rows, lastChanged, stored>>

StNext ==
  \/ \E t \in Tables : StNew(t)
  \/ \E t \in gotten :
       \/ \E name \in EntryNames : AddString(t, name)
       \/ \E i \in Indices(t), s \in ScriptData : SetData(t, i, s)
       \/ SetTick(t)
  \/ \E t \in Tables : \E i \in Indices(t), d \in EngineData : EngineSets(t, i, d)

StSpec == StInit /\ [][StNext]_stVars

-----------------------------------------------------------------------------
(* What a script reads.                                                    *)

(* Bytes taken for a C string, and nil for none.                           *)
CRead(d) == IF d = Unset THEN Unset ELSE IF Zeros(d) = {} THEN Overrun ELSE Text(d)

FindStringIndex(t, name) ==
  IF \E i \in Indices(t) : At(t, i).name = name
  THEN CHOOSE i \in Indices(t) : At(t, i).name = name
  ELSE -1

GetTableStrings(t) == [i \in Indices(t) |-> At(t, i).name]
GetTableData(t) == [i \in Indices(t) |-> CRead(At(t, i).data)]

(* By name; a later entry of the same name would replace an earlier one.   *)
GetTable(t) ==
  [name \in {At(t, i).name : i \in Indices(t)} |->
     LET n == CHOOSE i \in Indices(t) : /\ At(t, i).name = name
                                        /\ \A j \in Indices(t) : At(t, j).name = name => j <= i
     IN CRead(At(t, n).data)]

GetString(t, i) ==
  IF i \in Indices(t) THEN <<At(t, i).name, CRead(At(t, i).data)>> ELSE <<>>

(* The bytes as they are, with how many there are.                         *)
GetData(t, i) ==
  LET d == At(t, i).data IN IF d # Unset /\ Len(d) > 0 THEN <<d, Len(d)>> ELSE <<>>

ChangedSinceTick(t, k) == lastChanged[t] > k

(* What a script stored under a string is what every reader gives it, with *)
(* the 0 that SetData adds where the length counts, until the engine       *)
(* replaces it; only data of the engine is read beyond its end.  A table   *)
(* says that it changed when it did.  `stored` ends where SetData ends it, *)
(* at the first 0: what a Lua string holds behind one is lost, and of that *)
(* the property says nothing.                                              *)
ReadersAgree ==
  \A t \in gotten :
    /\ \A i \in Indices(t) :
         LET name == GetTableStrings(t)[i]
             text == stored[<<t, name>>] IN
         /\ FindStringIndex(t, name) = i
         /\ GetTable(t)[name] = GetTableData(t)[i]
         /\ GetString(t, i) = <<name, GetTableData(t)[i]>>
         /\ text # Unset =>
              /\ GetTableData(t)[i] = text
              /\ GetData(t, i) = <<Append(text, 0), Len(text) + 1>>
         /\ GetTableData(t)[i] = Overrun => At(t, i).data \in EngineData
    /\ ChangedSinceTick(t, tick[t] - 1) <=> t \in touched
=============================================================================
