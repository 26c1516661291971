---------------------------- MODULE MCLibraries -----------------------------
(* The libraries a script calls, each on its own: they share a Lua state,  *)
(* and no data. Init chooses the one that runs and the others stay as they *)
(* are, so that the states are those of every library by itself.           *)
EXTENDS LevelDb, Vfs, LuaIo, Lfs, LuaLoad, LuaObjects, LpegKeys,
        StringTables, EngineSpew, GsApi, Cares, SymbolFinder, TLC

VARIABLE which   \* the module that runs

allVars == <<which, dbVars, vfsVars, ioVars, lfsVars, loadVars, luaVars,
             keysVars, stVars, spewVars, gsVars, caresVars,
             symVars>>

AllInit ==
  /\ which \in {"leveldb", "vfs", "luaiox", "lfs", "luaload", "luaobjects",
               "lpegkeys", "stringtables", "enginespew", "gsapi",
               "cares", "symbolfinder"}
  /\ DbInit /\ VfsInit /\ IoInit /\ LfsInit /\ LoadInit /\ LuaInit /\ KeysInit
  /\ StInit /\ SpewInit /\ GsInit /\ CaresInit /\ SymInit
  /\ which # "gsapi" => ~steam
  /\ which # "symbolfinder" => finder = "memutils"

Rests(part, v) == IF which = part THEN TRUE ELSE UNCHANGED v

OthersRest ==
  /\ UNCHANGED which
  /\ Rests("leveldb", dbVars)
  /\ Rests("vfs", vfsVars)
  /\ Rests("luaiox", ioVars)
  /\ Rests("lfs", lfsVars)
  /\ Rests("luaload", loadVars)
  /\ Rests("luaobjects", luaVars)
  /\ Rests("lpegkeys", keysVars)
  /\ Rests("stringtables", stVars)
  /\ Rests("enginespew", spewVars)
  /\ Rests("gsapi", gsVars)
  /\ Rests("cares", caresVars)
  /\ Rests("symbolfinder", symVars)

AllNext ==
  \/ which = "leveldb" /\ DbNext /\ OthersRest
  \/ which = "vfs" /\ VfsNext /\ OthersRest
  \/ which = "luaiox" /\ IoNext /\ OthersRest
  \/ which = "lfs" /\ LfsNext /\ OthersRest
  \/ which = "luaload" /\ LoadNext /\ OthersRest
  \/ which = "luaobjects" /\ LuaNext /\ OthersRest
  \/ which = "lpegkeys" /\ KeysNext /\ OthersRest
  \/ which = "stringtables" /\ StNext /\ OthersRest
  \/ which = "enginespew" /\ SpewNext /\ OthersRest
  \/ which = "gsapi" /\ GsNext /\ OthersRest
  \/ which = "cares" /\ CaresNext /\ OthersRest
  \/ which = "symbolfinder" /\ SymNext /\ OthersRest

AllSpec == AllInit /\ [][AllNext]_allVars

-----------------------------------------------------------------------------
MCKeyOrder == <<<<1>>, <<1, 1>>, <<2>>>>
MCUid == <<2>>
MCStrings == {[len |-> 1, val |-> 7], [len |-> 8, val |-> 7]}

MCWidth == [uint8 |-> 1, uint16 |-> 2]
MCTexts == {<<1>>, <<1, 0>>}

MCFolderOf == [a |-> "d"]

MCStdFile == [stdin |-> "f1", stdout |-> "f2"]
MCIoHandles == {"stdin", "stdout", "h1"}
MCLine == <<1, 2, 3, 0, 4>>

MCRoot == {<<>>, <<"a">>}

MCLoader == [a |-> "Lua", b |-> "C", c |-> "Croot"]
MCLibrary == [b |-> "lib", c |-> "lib"]

MCOwn == <<"m_pG", "m_pR", "m_pE", "m_pErrorNoHalt">>
MCFieldNames == {"ErrorNoHalt", "x"}

\* Text, bytes with a 0 among them, and none; of the engine, without a last 0.
MCScriptData == {<<1>>, <<1, 0, 2>>, <<>>}
MCEngineData == {<<1, 2>>, <<2, 0>>}

MCBase == [server |-> 10, engine |-> 20]
Symbol(name) == [name |-> name, defined |-> TRUE]
Undefined(name) == [name |-> name, defined |-> FALSE]
\* A name that is twice in one library, and one that another defines.
MCSymTab == [server |-> <<Undefined("b"), Symbol("a"), Symbol("b"), Symbol("a"),
                          Symbol("c"), Symbol("d")>>,
             engine |-> <<Symbol("c"), Undefined("a"), Symbol("b")>>]
MCHash == [a |-> 2, b |-> 3, c |-> 1, d |-> 7]

MCArguments == [policy |-> 1, approve |-> 2, deny |-> 3]
=============================================================================
