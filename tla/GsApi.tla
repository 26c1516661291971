------------------------------- MODULE GsApi -------------------------------
(***************************************************************************)
(* The module gsapi: Steam's game server tells scripts of its events, and  *)
(* scripts call it.  The context outlives the Lua state, attaches to Steam *)
(* when it is made or by a later event, and calls hook.Run with what       *)
(* lhook noted of the Lua stack in two globals.                            *)
(***************************************************************************)
EXTENDS Integers, Sequences

CONSTANTS
  Events,      \* the events of Steam, each once
  Attaching,   \* those whose callback calls Init
  Arguments,   \* event -> the values its callback pushes
  Checked,     \* the Lua functions that begin with GSAPI
  Unchecked,   \* and those that do not: CreateUnauthenticatedUserConnection
  BASE         \* the values on the Lua stack when Steam runs its callbacks

ASSUME GsAssumption ==
  /\ BASE \in Nat /\ Attaching \subseteq Events /\ "none" \notin Events
  /\ \A e \in Events : Arguments[e] \in Nat

VARIABLES
  context,     \* g_pGSContext
  hasState,    \* its state
  attached,    \* apicontext_ok
  steam,       \* Steam's server runs
  top,         \* the height of the Lua stack
  start, start2, \* lua_lhook_toppos_start, lua_lhook_toppos_start2
  inHook,      \* the event whose hook runs, or "none"
  fate,        \* event -> "due", "told" or "missed"
  crashed      \* the functions that used an interface that is null

gsVars == <<context, hasState, attached, steam, top, start, start2, inHook, fate, crashed>>

GsInit ==
  /\ context = FALSE /\ hasState = FALSE /\ attached = FALSE
  /\ steam \in BOOLEAN
  /\ top = BASE /\ start = 0 /\ start2 = 0
  /\ inHook = "none"
  /\ fate = [e \in Events |-> "due"]
  /\ crashed = {}

(* CGSContext::Init, which is tried again until it succeeds.               *)
Attach == attached' = (attached \/ steam)

GsOpen ==
  /\ ~hasState
  /\ context' = TRUE /\ hasState' = TRUE
  /\ IF context THEN UNCHANGED attached ELSE Attach
  /\ UNCHANGED <<steam, top, start, start2, inHook, fate, crashed>>

GsClose ==
  /\ hasState /\ inHook = "none"
  /\ hasState' = FALSE
  /\ UNCHANGED <<context, attached, steam, top, start, start2, inHook, fate, crashed>>

SteamStarts ==
  /\ ~steam /\ steam' = TRUE
  /\ UNCHANGED <<context, hasState, attached, top, start, start2, inHook, fate, crashed>>

(* lhook: _G, hook, hook.Run and the name; then the arguments.             *)
lhook(e) ==
  /\ start' = top
  /\ start2' = top + 4
  /\ top' = top + 4 + Arguments[e]
  /\ inHook' = e

(* NEED_LUA ends a callback when there is no state.                        *)
TellScript(e) ==
  IF hasState
  THEN lhook(e) /\ fate' = [fate EXCEPT ![e] = "told"]
  ELSE fate' = [fate EXCEPT ![e] = "missed"] /\ UNCHANGED <<top, start, start2, inHook>>

Steam_On(e) ==
  /\ context /\ steam /\ inHook = "none" /\ fate[e] = "due"
  /\ TellScript(e)
  /\ UNCHANGED <<context, hasState, steam, crashed>>

(* The callbacks about clients, statistics and groups.                     *)
Steam_OnClient(e) == Steam_On(e) /\ UNCHANGED attached

(* Those about the server, which attach first.                             *)
Steam_OnServer(e) == Steam_On(e) /\ Attach

(* What the PCall of lhook_call takes from the stack: the function, the    *)
(* name and what was pushed after it.                                      *)
Taken == 1 + 1 + (top - start2)

(* What lhook_end takes off a stack of that height.                        *)
Popped(height) == IF height > start THEN height - start ELSE 0

(* The hook returns, or raises and leaves a message; then lhook_end ends   *)
(* the call once more.                                                     *)
lhook_call ==
  /\ inHook # "none"
  /\ \E raised \in BOOLEAN :
       LET left == top - Taken + IF raised THEN 1 ELSE 0
           ended == left - Popped(left)
       IN top' = IF raised THEN ended - Popped(ended) ELSE ended
  /\ inHook' = "none"
  /\ UNCHANGED <<context, hasState, attached, steam, start, start2, fate, crashed>>

(* A bug: the macro asks for the context only. *)
GSAPI_Made == context

(* The macro of that name: what it asks for, else the function raises.     *)
GSAPI == context /\ attached

(* The methods of the context, which use an interface as if it were there. *)
Uses(f) == crashed' = IF attached THEN crashed ELSE crashed \cup {f}

(* A Lua function that got past its checks.                                *)
GsCall(f) ==
  /\ hasState
  /\ f \in Checked => GSAPI
  /\ Uses(f)
  /\ UNCHANGED <<context, hasState, attached, steam, top, start, start2, inHook, fate>>

GsNext ==
  \/ GsOpen \/ GsClose \/ SteamStarts \/ lhook_call
  \/ \E e \in Events \ Attaching : Steam_OnClient(e)
  \/ \E e \in Attaching : Steam_OnServer(e)
  \/ \E f \in Checked \cup Unchecked : GsCall(f)

GsSpec == GsInit /\ [][GsNext]_gsVars

(* Whatever an event passes and however its hook ends, the Lua stack is as *)
(* high as before: the engine goes on with it.  An interface that is null  *)
(* is used only by the functions that forgot to ask, whichever of Steam,   *)
(* the module and its Lua state came first or went, and whether it was     *)
(* loading the module or an event that attached it.                        *)
EventsLeaveNothing ==
  /\ inHook = "none" => top = BASE
  /\ crashed \subseteq Unchecked
=============================================================================
