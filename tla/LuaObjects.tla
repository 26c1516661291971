---------------------------- MODULE LuaObjects ----------------------------
(* backwards_headers: ILuaInterface and ILuaObject, the objects the older   *)
(* modules reach Lua through. An object is a reference into Lua's registry;  *)
(* every operation on it pushes, calls Lua and pops, and whoever holds the   *)
(* object gives the reference up with UnReference. The machine below is      *)
(* Lua's stack, registry and tables; the operations are made of the calls    *)
(* the code makes, and `meant` is what their callers mean them to do.        *)
EXTENDS Integers, Sequences, FiniteSets, SequencesExt

CONSTANTS Holders,       \* addresses of the objects a module makes
          Own,           \* those of the interface: m_pG, m_pR, m_pE, m_pErrorNoHalt
          LuaTables,     \* tables
          Globals,       \* the table SPECIAL_GLOB pushes
          MetaTables,    \* the tables CreateMetaTableType makes, by name
          FieldNames,         \* names of members and globals
          Scalars,       \* other values a module pushes
          Userdata,      \* a userdata
          NIL,           \* nil
          LINK,          \* the number luaL_unref leaves in a freed slot
          LuaCallBound,     \* bound: operations on an interface
          Careless       \* what careless modules do: see Assign and Members

ASSUME OwnAssumption == Own = <<"m_pG", "m_pR", "m_pE", "m_pErrorNoHalt">>
ASSUME LuaAssumption ==
  IsFiniteSet(FieldNames) /\ "ErrorNoHalt" \in FieldNames /\ Globals \in LuaTables

VARIABLES lua,      \* [stack, registry, unused, tables, meta, made]: Lua's state; made is the last reference
          objects,  \* object -> its m_iRef; its domain is the objects there are
          vector,   \* what GetMembers returned: pairs of references
          numbers,  \* the references a module holds as numbers
          meant,    \* [stack, value, tables, pairs, numbers]: what the callers mean
          spent     \* operations so far

luaVars == <<lua, objects, vector, numbers, meant, spent>>

REFNIL == -1

----------------------------------------------------------------------------
(* Lua, as ILuaBase gives it. *)

LuaPush(m, v) == [m EXCEPT !.stack = Append(@, v)]
LuaPop(m, n)  == [m EXCEPT !.stack = SubSeq(@, 1, Len(@) - n)]
AtTop(m, i)   == m.stack[Len(m.stack) + 1 + i]

\* luaL_ref: the slot freed last is used first; nil takes none.
ReferenceCreate(m) ==
  IF AtTop(m, -1) = NIL THEN [LuaPop(m, 1) EXCEPT !.made = REFNIL]
  ELSE IF m.unused # <<>>
  THEN [LuaPop(m, 1) EXCEPT !.registry[Head(m.unused)] = AtTop(m, -1),
                            !.unused = Tail(@), !.made = Head(m.unused)]
  ELSE [LuaPop(m, 1) EXCEPT !.registry = Append(@, AtTop(m, -1)),
                            !.made = Len(m.registry) + 1]

Referenced(m, r)    == IF r = REFNIL THEN NIL ELSE m.registry[r]
ReferencePush(m, r) == LuaPush(m, Referenced(m, r))
ReferenceFree(m, r) ==
  IF r = REFNIL THEN m
  ELSE [m EXCEPT !.registry[r] = LINK, !.unused = <<r>> \o @]

SetTable3(m)   == LuaPop([m EXCEPT !.tables[AtTop(m, -3)][AtTop(m, -2)] = AtTop(m, -1)], 2)
GetField(m, k) == LuaPush(m, m.tables[AtTop(m, -1)][k])
GetTable2(m)   == LuaPush(LuaPop(m, 1), m.tables[AtTop(m, -2)][AtTop(m, -1)])
SetMetaTable2(m) == LuaPop([m EXCEPT !.meta = AtTop(m, -1)], 1)

Entries(t, tables) == {k \in FieldNames : tables[t][k] # NIL}

----------------------------------------------------------------------------
(* The operations, as what they leave of Lua. *)

PushSet(m, r, k, v) == LuaPop(SetTable3(LuaPush(LuaPush(ReferencePush(m, r), k), v)), 1)
SetGlobalTo(m, k, v) == LuaPop(SetTable3(LuaPush(LuaPush(LuaPush(m, Globals), k), v)), 1)
\* Mutant: the table a member was read from stays on the stack.
FieldTaken_Kept(m, k) == ReferenceCreate(GetField(m, k))
FieldTaken(m, k)    == LuaPop(ReferenceCreate(GetField(m, k)), 1)
IndexTaken(m, k)    == LuaPop(ReferenceCreate(GetTable2(LuaPush(m, k))), 1)
Inspected(m, r)        == LuaPop(ReferencePush(m, r), 1)
InspectedField(m, r, k) == LuaPop(GetField(ReferencePush(m, r), k), 2)
MetaSet(m, r, meta) == LuaPop(SetMetaTable2(ReferencePush(ReferencePush(m, r), meta)), 1)

\* SetFromStack, and Set: the old reference goes before the new one is taken.
Replaced(m, r, v)   == ReferenceCreate(LuaPush(ReferenceFree(m, r), v))
SetTo(m, r, from)   == ReferenceCreate(ReferencePush(ReferenceFree(m, r), from))

\* One turn of GetMembers: Next has pushed key and value; both become references
\* and the key is pushed back. acc is [m, pairs].
ValueTaken(acc, k) ==
  [acc EXCEPT !.m = ReferenceCreate(LuaPush(LuaPush(LuaPop(@, 1), k), @.tables[AtTop(@, -2)][k]))]
KeyTaken(acc) == [acc EXCEPT !.m = ReferenceCreate(@), !.pairs = Append(@, <<acc.m.made, 0>>)]
PairMade(acc) == [acc EXCEPT !.pairs[Len(acc.pairs)] = <<acc.m.made, @[1]>>,
                             !.m = ReferencePush(@, @.made)]
MemberTurn(acc, k) == PairMade(KeyTaken(ValueTaken(acc, k)))

\* GetMembers of the table r; the last Next takes the key and pushes nothing.
MembersOf(m, r) ==
  LET keys == SetToSeq(Entries(Referenced(m, r), m.tables))
      walked[n \in 0..Len(keys)] ==
        IF n = 0 THEN [m |-> LuaPush(ReferencePush(m, r), NIL), pairs |-> <<>>]
                 ELSE MemberTurn(walked[n - 1], keys[n])
  IN [walked[Len(keys)] EXCEPT !.m = LuaPop(@, 2)]

\* ILuaInterface::GetAllTableMembers leaves key and value on the stack and pushes
\* the key again: the next Next is asked of the value, which is no table.
AllMembersOf(m, r) ==
  LET t == Referenced(m, r)
      k == CHOOSE k \in Entries(t, m.tables) : TRUE
  IN IF Entries(t, m.tables) = {} THEN MembersOf(m, r)
     ELSE [m |-> LuaPush(LuaPush(LuaPush(m, t), k), m.tables[t][k]), pairs |-> <<>>]

----------------------------------------------------------------------------
Live == DOMAIN objects
TableHolders == {o \in Live : Referenced(lua, objects[o]) \in LuaTables}
InUse == {v \in LuaTables \cup {Userdata} :
            \/ v \in Range(lua.stack) \/ v \in Range(lua.registry)
            \/ v = lua.meta
            \/ \E t \in LuaTables, k \in FieldNames : lua.tables[t][k] = v}
Anew == {t \in LuaTables \ ({Globals} \cup MetaTables) : t \notin InUse}
\* A table made anew, perhaps where one that is gone was, has no members.
Cleared(tables, v) == IF v \in Anew THEN [tables EXCEPT ![v] = [k \in FieldNames |-> NIL]] ELSE tables
Made(v) == [lua EXCEPT !.tables = Cleared(@, v)]

\* The interface's constructor: three tables and a global, each made an object.
Constructed(m) ==
  LET g == ReferenceCreate(LuaPush(m, Globals))
      r == ReferenceCreate(LuaPush(g, "registry"))
      e == ReferenceCreate(LuaPush(r, Globals))
      h == FieldTaken(LuaPush(e, Globals), "ErrorNoHalt")
  IN [lua |-> h, refs |-> <<g.made, r.made, e.made, h.made>>]

Blank == [stack |-> <<>>, registry |-> <<>>, unused |-> <<>>, made |-> REFNIL, meta |-> NIL,
          tables |-> [t \in LuaTables |-> [k \in FieldNames |->
                       IF t = Globals /\ k = "ErrorNoHalt" THEN "function" ELSE NIL]]]

LuaInit ==
  /\ lua = Constructed(Blank).lua
  /\ objects = [o \in Range(Own) |-> Constructed(Blank).refs[CHOOSE i \in 1..4 : Own[i] = o]]
  /\ vector = <<>> /\ numbers = <<>>
  /\ meant = [stack  |-> <<>>, tables |-> Blank.tables, pairs |-> {}, numbers |-> <<>>,
              value  |-> [o \in Range(Own) |->
                            CASE o = "m_pR" -> "registry"
                              [] o = "m_pErrorNoHalt" -> "function"
                              [] OTHER -> Globals]]
  /\ spent = 0

Spend == spent < LuaCallBound /\ spent' = spent + 1

\* A new object o of the reference m has made last.
NewObject(o, m) ==
  /\ o \in Holders \ Live
  /\ lua' = m
  /\ objects' = [x \in Live \cup {o} |-> IF x = o THEN m.made ELSE objects[x]]
  /\ UNCHANGED <<vector, numbers>>

Meaning(o, v) == [x \in Live \cup {o} |-> IF x = o THEN v ELSE meant.value[x]]

Only(m) == lua' = m /\ UNCHANGED <<objects, vector, numbers>>

----------------------------------------------------------------------------
(* What a module calls. *)

GetGlobal(o, k) ==
  /\ NewObject(o, FieldTaken(LuaPush(lua, Globals), k))
  /\ meant' = [meant EXCEPT !.value = Meaning(o, meant.tables[Globals][k])]

GetMember(o, from, k, how) ==
  /\ from \in TableHolders
  /\ NewObject(o, IF how = "field" THEN FieldTaken(ReferencePush(lua, objects[from]), k)
                                   ELSE IndexTaken(ReferencePush(lua, objects[from]), k))
  /\ meant' = [meant EXCEPT !.value = Meaning(o, meant.tables[meant.value[from]][k])]

\* GetObject(0) takes the top of the stack, as GetReturn(0) and GetReference(0)
\* do; with another index it takes a copy.
GetObject(o, i) ==
  /\ Len(lua.stack) >= (IF i = 0 THEN 1 ELSE -i)
  /\ NewObject(o, ReferenceCreate(IF i = 0 THEN lua ELSE LuaPush(lua, AtTop(lua, i))))
  /\ meant' = [meant EXCEPT
       !.value = Meaning(o, meant.stack[Len(meant.stack) + (IF i = 0 THEN 0 ELSE 1 + i)]),
       !.stack = IF i = 0 THEN Front(@) ELSE @]

\* GetNewTable, NewTemporaryObject and GetMetaTable by name.
GetNew(o, v) ==
  /\ NewObject(o, ReferenceCreate(LuaPush(Made(v), v)))
  /\ meant' = [meant EXCEPT !.value = Meaning(o, v), !.tables = Cleared(@, v)]

\* NewUserData; PushUserData, whose reference lasts for the call.
NewUserData(o, metaT) ==
  LET made == ReferenceCreate(LuaPush(lua, Userdata)) IN
  /\ metaT \in TableHolders /\ Userdata \notin InUse
  /\ NewObject(o, [MetaSet(made, made.made, objects[metaT]) EXCEPT !.made = made.made])
  /\ meant' = [meant EXCEPT !.value = Meaning(o, Userdata)]

PushUserData(metaT) ==
  LET made == ReferenceCreate(LuaPush(lua, Userdata)) IN
  /\ metaT \in TableHolders /\ Userdata \notin InUse
  /\ Only(ReferenceFree(SetMetaTable2(ReferencePush(ReferencePush(made, made.made), objects[metaT])),
                        made.made))
  /\ meant' = [meant EXCEPT !.stack = Append(@, Userdata)]

GetMetaTable(o) ==
  /\ lua.stack # <<>> /\ AtTop(lua, -1) = Userdata
  /\ NewObject(o, ReferenceCreate(LuaPush(lua, lua.meta)))
  /\ meant' = [meant EXCEPT !.value = Meaning(o, lua.meta)]

SetGlobal(k, v) ==
  /\ Only(SetGlobalTo(Made(v), k, v))
  /\ meant' = [meant EXCEPT !.tables = [Cleared(@, v) EXCEPT ![Globals][k] = v]]

SetMember(o, k, v) ==
  /\ o \in TableHolders
  /\ Only(PushSet(lua, objects[o], k, v))
  /\ meant' = [meant EXCEPT !.tables[meant.value[o]][k] = v]

\* isType, isNil and their like leave what the getters leave.
isType(o) == Only(Inspected(lua, objects[o]))

\* The getters of an object, and the getters of its members with a default.
Ask(o, k) ==
  /\ \/ isType(o)
     \/ o \in TableHolders /\ Only(InspectedField(lua, objects[o], k))
  /\ UNCHANGED meant

PushObject(o) ==
  /\ Only(ReferencePush(lua, objects[o]))
  /\ meant' = [meant EXCEPT !.stack = Append(@, meant.value[o])]

PushValue(v) ==
  /\ Only(LuaPush(lua, v))
  /\ meant' = [meant EXCEPT !.stack = Append(@, v)]

\* Pop; Call, which takes the function and its arguments and leaves the results.
Call(args, returns) ==
  /\ Len(lua.stack) >= args
  /\ Only([lua EXCEPT !.stack = LuaPop(lua, args).stack \o returns])
  /\ meant' = [meant EXCEPT !.stack = SubSeq(@, 1, Len(@) - args) \o returns]

\* The error is text to begin with: the text is passed on, not what it formats to.
ErrorNoHalt(text) ==
  /\ Referenced(lua, objects["m_pErrorNoHalt"]) # NIL
  /\ Only(LuaPop(LuaPush(ReferencePush(lua, objects["m_pErrorNoHalt"]), text), 2))
  /\ UNCHANGED meant

\* GetReference, PushReference and FreeReference: references as numbers.
GetReference(i) ==
  /\ numbers = <<>> /\ Len(lua.stack) >= (IF i = 0 THEN 1 ELSE -i)
  /\ lua' = ReferenceCreate(IF i = 0 THEN lua ELSE LuaPush(lua, AtTop(lua, i)))
  /\ numbers' = <<lua'.made>>
  /\ meant' = [meant EXCEPT
       !.numbers = <<meant.stack[Len(meant.stack) + (IF i = 0 THEN 0 ELSE 1 + i)]>>,
       !.stack = IF i = 0 THEN Front(@) ELSE @]
  /\ UNCHANGED <<objects, vector>>

PushReference ==
  /\ numbers # <<>>
  /\ Only(ReferencePush(lua, numbers[1]))
  /\ meant' = [meant EXCEPT !.stack = Append(@, meant.numbers[1])]

FreeReference ==
  /\ numbers # <<>>
  /\ lua' = ReferenceFree(lua, numbers[1])
  /\ numbers' = <<>>
  /\ meant' = [meant EXCEPT !.numbers = <<>>]
  /\ UNCHANGED <<objects, vector>>

UnReference(o) ==
  /\ o \in Live \ Range(Own)
  /\ lua' = ReferenceFree(lua, objects[o])
  /\ objects' = [x \in Live \ {o} |-> objects[x]]
  /\ meant' = [meant EXCEPT !.value = [x \in Live \ {o} |-> @[x]]]
  /\ UNCHANGED <<vector, numbers>>

\* Set from another object, SetFromStack and SetNil. Careless: an object set to
\* itself reads the slot it has just freed, and SetNil leaves its nil behind.
Assign(o, from, how) ==
  /\ o \in Live \ Range(Own)
  /\ how = "Set" => from # o \/ "itself" \in Careless
  /\ how = "SetFromStack" => lua.stack # <<>>
  /\ LET m == CASE how = "Set"          -> SetTo(lua, objects[o], objects[from])
                [] how = "SetFromStack" -> Replaced(lua, objects[o], AtTop(lua, -1))
                [] how = "SetNil"       -> Replaced(LuaPush(lua, NIL), objects[o], NIL)
     IN /\ lua' = m
        /\ objects' = [objects EXCEPT ![o] = m.made]
  /\ meant' = [meant EXCEPT !.value[o] = CASE how = "Set" -> meant.value[from]
                                           [] how = "SetFromStack" -> Last(meant.stack)
                                           [] how = "SetNil" -> NIL]
  /\ UNCHANGED <<vector, numbers>>

\* GetMembers; careless: GetAllTableMembers.
Members(o, how) ==
  LET got == IF how = "GetMembers" THEN MembersOf(lua, objects[o]) ELSE AllMembersOf(lua, objects[o]) IN
  /\ o \in TableHolders /\ vector = <<>>
  /\ lua' = got.m /\ vector' = got.pairs
  /\ meant' = [meant EXCEPT !.pairs = {<<k, meant.tables[meant.value[o]][k]>> :
                                         k \in Entries(meant.value[o], meant.tables)}]
  /\ UNCHANGED <<objects, numbers>>

FreePair(m, pair) == ReferenceFree(ReferenceFree(m, pair[1]), pair[2])

VectorFreed(m, pairs) ==
  LET freed[n \in 0..Len(pairs)] == IF n = 0 THEN m ELSE FreePair(freed[n - 1], pairs[n])
  IN freed[Len(pairs)]

DeleteLuaVector ==
  /\ vector # <<>>
  /\ lua' = VectorFreed(lua, vector)
  /\ vector' = <<>>
  /\ meant' = [meant EXCEPT !.pairs = {}]
  /\ UNCHANGED <<objects, numbers>>

\* The interface's destructor, when the module closes, and the next load.
Closed(m) ==
  LET gone(x, i) == ReferenceFree(x, objects[Own[i]])
  IN gone(gone(gone(gone(m, 1), 2), 3), 4)

Reopen ==
  LET fresh == Constructed(Closed(lua))
  IN /\ Live = Range(Own) /\ lua.stack = <<>>
     /\ lua' = fresh.lua
     /\ objects' = [o \in Live |-> fresh.refs[CHOOSE i \in 1..4 : Own[i] = o]]
     /\ meant' = [meant EXCEPT !.value["m_pErrorNoHalt"] = meant.tables[Globals]["ErrorNoHalt"]]
     /\ UNCHANGED <<vector, numbers>>

LuaNext ==
  /\ Spend
  /\ \/ \E o \in Holders, k \in FieldNames : GetGlobal(o, k)
     \/ \E o \in Holders, from \in Live, k \in FieldNames, how \in {"field", "index"} : GetMember(o, from, k, how)
     \/ \E o \in Holders, i \in {0, -1, -2} : GetObject(o, i)
     \/ \E o \in Holders, v \in {NIL} \cup MetaTables \cup Anew : GetNew(o, v)
     \/ \E o \in Holders, metaT \in Live : NewUserData(o, metaT)
     \/ \E metaT \in Live : PushUserData(metaT)
     \/ \E o \in Holders : GetMetaTable(o)
     \/ \E k \in FieldNames, v \in Scalars \cup {NIL} \cup Anew : SetGlobal(k, v)
     \/ \E o \in Live, k \in FieldNames, v \in Scalars \cup {NIL} : SetMember(o, k, v)
     \/ \E o, from \in Live, k \in FieldNames : SetMember(o, k, Referenced(lua, objects[from]))
     \/ \E o \in Live, k \in FieldNames : Ask(o, k)
     \/ \E o \in Live : PushObject(o)
     \/ \E v \in Scalars : PushValue(v)
     \/ \E args \in 1..2, returns \in {<<>>} \cup {<<v>> : v \in Scalars} : Call(args, returns)
     \/ \E text \in Scalars : ErrorNoHalt(text)
     \/ \E i \in {0, -1} : GetReference(i)
     \/ PushReference \/ FreeReference
     \/ \E o \in Live : UnReference(o)
     \/ \E o, from \in Live, how \in {"Set", "SetFromStack"} \cup (Careless \cap {"SetNil"}) : Assign(o, from, how)
     \/ \E o \in Live, how \in {"GetMembers"} \cup (Careless \cap {"GetAllTableMembers"}) : Members(o, how)
     \/ DeleteLuaVector
     \/ Reopen

LuaSpec == LuaInit /\ [][LuaNext]_luaVars

----------------------------------------------------------------------------
\* Objects, stack and tables are what the callers of the operations mean them to
\* be, and the registry holds a slot for each reference held and no other: no
\* operation pops too little or too much, lets a slot go that is still held or
\* keeps one that is not.
HeldRefs == {objects[o] : o \in Live} \cup Range(numbers) \cup UNION {{p[1], p[2]} : p \in Range(vector)}
ObjectsAreMeant ==
  /\ lua.stack = meant.stack
  /\ lua.tables = meant.tables
  /\ \A o \in Live : Referenced(lua, objects[o]) = meant.value[o]
  /\ {<<Referenced(lua, p[1]), Referenced(lua, p[2])>> : p \in Range(vector)} = meant.pairs
  /\ [i \in DOMAIN numbers |-> Referenced(lua, numbers[i])] = meant.numbers
  /\ \A o, p \in Live : o # p => objects[o] # objects[p] \/ objects[o] = REFNIL
  /\ 1..Len(lua.registry) \ Range(lua.unused) = HeldRefs \ {REFNIL}
============================================================================
