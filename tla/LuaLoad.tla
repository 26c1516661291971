------------------------------ MODULE LuaLoad ------------------------------
(***************************************************************************)
(* The module luaload (POSIX): require2, module2 and loadlib2.  A call of  *)
(* require2 runs the body of a module, which may require others, raise, or *)
(* change package2.loaded itself.                                          *)
(***************************************************************************)
EXTENDS Integers, Sequences

CONSTANTS
  Modules,     \* the names of modules
  Loader,      \* module -> the loader that finds it, "none" if no loader does
  Library,     \* module -> the library its loader opens, for the loaders of C
  Libraries,
  MaxDepth     \* bound: modules within modules

ASSUME LoadAssumption ==
  \A m \in Modules : Loader[m] \in {"none", "preload", "Lua", "C", "Croot"}

VARIABLES
  loaded,      \* _LOADED2
  running,     \* the modules whose bodies run, the innermost last
  handle2,     \* _LOADLIB2: library -> "none", "null" or "open"
  opened2,     \* library -> the times it is open in the process
  due,         \* the modules whose body may run: its entry is nil or false
  again        \* a body ran that was not due

loadVars == <<loaded, running, handle2, opened2, due, again>>

LoadInit ==
  /\ loaded = [m \in Modules |-> "nil"]
  /\ running = <<>>
  /\ handle2 = [x \in Libraries |-> "none"]
  /\ opened2 = [x \in Libraries |-> 0]
  /\ due = Modules
  /\ again = FALSE

(* An error ends the bodies up to the one that catches it.                 *)
Raise == \E n \in 0..Len(running) : running' = SubSeq(running, 1, n)

(* ll_register and ll_load: the library of a path is opened unless it is;  *)
(* a failure is tried again.                                               *)
ll_register(x) ==
  IF handle2[x] = "open"
  THEN UNCHANGED <<handle2, opened2>>
  ELSE \/ handle2' = [handle2 EXCEPT ![x] = "open"] /\ opened2' = [opened2 EXCEPT ![x] = @ + 1]
       \/ handle2' = [handle2 EXCEPT ![x] = "null"] /\ UNCHANGED opened2

(* ll_loadlib: whether or not the function is there.                       *)
ll_loadlib ==
  /\ \E x \in Libraries : ll_register(x)
  /\ UNCHANGED <<loaded, running, due, again>>

Truthy(m) == loaded[m] \notin {"nil", "false"}

(* A bug: no sentinel while the body runs. *)
Marked_Not(m) == loaded

Marked(m) == [loaded EXCEPT ![m] = "sentinel"]

RunBody(m) ==
  /\ loaded' = Marked(m)
  /\ running' = Append(running, m)
  /\ due' = due \ {m}
  /\ again' = (again \/ m \notin due)

Fail == Raise /\ UNCHANGED <<loaded, due, again>>

(* ll_require.  The loaders are asked in turn; those of C libraries open   *)
(* one first, and raise when they cannot or find no function; the loader   *)
(* of a root library only goes on to the next then, and none is left.      *)
ll_require(m) ==
  /\ Len(running) < MaxDepth
  /\ IF Truthy(m)
     THEN /\ loaded[m] = "sentinel" /\ Fail
          /\ UNCHANGED <<handle2, opened2>>
     ELSE CASE Loader[m] = "none" -> Fail /\ UNCHANGED <<handle2, opened2>>
            [] Loader[m] \in {"preload", "Lua"} ->
                 (RunBody(m) \/ Fail) /\ UNCHANGED <<handle2, opened2>>
            [] Loader[m] \in {"C", "Croot"} ->
                 /\ ll_register(Library[m])
                 /\ Fail \/ (handle2'[Library[m]] = "open" /\ RunBody(m))

(* The body returns; nothing and no entry stand for true.                  *)
Returned(m, value) ==
  IF value # "nil" THEN value ELSE IF loaded[m] = "sentinel" THEN "true" ELSE loaded[m]

Return ==
  /\ running # <<>>
  /\ LET m == running[Len(running)] IN
     \E value \in {"nil", "false", "table", "true"} :
       /\ loaded' = [loaded EXCEPT ![m] = Returned(m, value)]
       /\ due' = IF Returned(m, value) \in {"nil", "false"} THEN due \cup {m} ELSE due
  /\ running' = SubSeq(running, 1, Len(running) - 1)
  /\ UNCHANGED <<handle2, opened2, again>>

BodyRaises ==
  /\ running # <<>>
  /\ Fail
  /\ UNCHANGED <<handle2, opened2>>

(* ll_module: the entry becomes a table, unless a global of another type   *)
(* has the name.                                                           *)
ll_module(m) ==
  /\ \/ loaded' = [loaded EXCEPT ![m] = "table"] /\ UNCHANGED running
     \/ loaded[m] # "table" /\ Raise /\ UNCHANGED loaded
  /\ UNCHANGED <<handle2, opened2, due, again>>

(* A script forgets a module, to load it again.                            *)
Forget(m) ==
  /\ loaded[m] # "nil"
  /\ loaded' = [loaded EXCEPT ![m] = "nil"]
  /\ due' = due \cup {m}
  /\ UNCHANGED <<running, handle2, opened2, again>>

(* The state closes: gctm of every library.                                *)
CloseLibraries ==
  /\ running = <<>>
  /\ \E x \in Libraries : handle2[x] # "none"
  /\ opened2' = [x \in Libraries |-> IF handle2[x] = "open" THEN opened2[x] - 1 ELSE opened2[x]]
  /\ handle2' = [x \in Libraries |-> "none"]
  /\ loaded' = [m \in Modules |-> "nil"]
  /\ due' = Modules
  /\ UNCHANGED <<running, again>>

LoadNext ==
  \/ \E m \in Modules : ll_require(m) \/ ll_module(m) \/ Forget(m)
  \/ ll_loadlib \/ Return \/ BodyRaises \/ CloseLibraries

LoadSpec == LoadInit /\ [][LoadNext]_loadVars

(* The body of a module runs once, also when modules require each other in *)
(* a circle or raise, and once more only after its entry became nil or     *)
(* false; a library is open in the process once while its state lives.     *)
ModulesRunOnce ==
  /\ ~again
  /\ \A x \in Libraries : opened2[x] = IF handle2[x] = "open" THEN 1 ELSE 0
=============================================================================
