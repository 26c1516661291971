------------------------------ MODULE NetHooks ------------------------------
(***************************************************************************)
(* gm_sourcenet3's hooks: the list of Lua states that opened the module    *)
(* (sourcenet/src/main.cpp), the hooks on virtual functions that scripts   *)
(* attach and detach (sourcenet/gl_hooks.cpp, hooking/vfnhook.h), and a    *)
(* hooked call, which tells every state before and, for some hooks, after  *)
(* the original function (BEGIN_MULTISTATE_HOOK of main.h).                *)
(*                                                                         *)
(* Everything runs on one thread, but calls nest: a script that is told    *)
(* may call a hooked function, and the engine may open or close a state    *)
(* while an original function runs.  hook.Call returns: it catches errors. *)
(*                                                                         *)
(* g_LuaStates is a CUtlLinkedList of the engine's SDK, which is external: *)
(* AddToTail takes the slot released last, or a new one; Remove releases a *)
(* slot and leaves its contents; Element(i) is slot i, in use or not;      *)
(* Count() is the number of slots in use.  Slots are counted from 1.       *)
(***************************************************************************)
EXTENDS Integers, SequencesExt

CONSTANTS
  State,     \* the Lua states
  Class,     \* classes with a virtual table of their own
  Hook,      \* the hooked functions
  PostHook,  \* those of them that also tell the states afterwards
  Gate,      \* what HOOKVFUNC puts in a virtual table
  None,      \* no function, no state
  HookHabits, \* "any order": states close in any order, not the last opened first
              \* "mixed detach": Detach gets an object of a class that is not hooked
              \* "rehook in call": a hook is attached to another class in its call
  MaxCalls   \* nested hooked calls (bounds the model)

ASSUME NetHooksAssumption ==
  /\ None \notin State \cup Class
  /\ Gate \notin Class \cup {None}
  /\ PostHook \subseteq Hook
  /\ HookHabits \subseteq {"any order", "mixed detach", "rehook in call"}
  /\ MaxCalls \in Nat \ {0}

VARIABLES
  slots,     \* the state in each slot of g_LuaStates
  list,      \* the slots in use, in the order of the list
  free,      \* the slots released, the last first
  open       \* the states that are open

VARIABLES
  attached,  \* attach_status, of each hook
  original,  \* name_T: the original function of the class it stands for
  vtable,    \* per class: its own function, named by the class, or Gate
  frames     \* the hooked calls under way, the innermost last

stateVars == <<slots, list, free, open>>
hookVars == <<attached, original, vtable>>
netVars == <<stateVars, hookVars, frames>>

Phases == {"pre", "original", "post", "done"}
Loops == {"pre", "post"}

HooksInit ==
  /\ slots = <<>> /\ list = <<>> /\ free = <<>> /\ open = {}
  /\ attached = [h \in Hook |-> FALSE]
  /\ original = [h \in Hook |-> None]
  /\ vtable = [c \in Class |-> [h \in Hook |-> c]]
  /\ frames = <<>>

Now == frames[Len(frames)]
SetNow(f) == frames' = [frames EXCEPT ![Len(frames)] = f]
EngineRuns == frames # <<>> => Now.phase = "original"
InCallback == frames # <<>> /\ Now.caller # None
ScriptMayRun == InCallback \/ (EngineRuns /\ open # {})

----------------------------------------------------------------------------
(* The states.                                                             *)

\* Open, for a state whose script requires the module.
Open(s) ==
  /\ EngineRuns /\ s \notin open
  /\ open' = open \cup {s}
  /\ IF free = <<>>
     THEN /\ slots' = Append(slots, s)
          /\ list' = Append(list, Len(slots) + 1)
          /\ free' = free
     ELSE /\ slots' = [slots EXCEPT ![Head(free)] = s]
          /\ list' = Append(list, Head(free))
          /\ free' = Tail(free)
  /\ UNCHANGED <<hookVars, frames>>

\* The slots the loop of Close looks at and finds the state in.
Matches(s) == { i \in 1 .. Len(list) : slots[i] = s }

\* Remove.
Release(i) ==
  /\ list' = RemoveFirst(list, i)
  /\ free' = <<i>> \o free

\* Close, for a state that is not in a callback.  The states still due in the
\* loops under way are history.
Close(s) ==
  /\ EngineRuns /\ s \in open
  /\ \A k \in DOMAIN frames : frames[k].caller # s
  /\ "any order" \notin HookHabits => s = slots[list[Len(list)]]
  /\ open' = open \ {s}
  /\ IF Matches(s) = {} THEN UNCHANGED <<list, free>>
     ELSE \E i \in Matches(s) : (\A j \in Matches(s) : i <= j) /\ Release(i)
  /\ frames' = [k \in DOMAIN frames |-> [frames[k] EXCEPT !.due = @ \ {s}]]
  /\ UNCHANGED <<slots, hookVars>>

----------------------------------------------------------------------------
(* Attaching and detaching, with an object of a class.                     *)

\* IS_ATTACHED.  (Mutant: it is not looked at.)
NotLooked(h) == FALSE
IsAttached(h) == attached[h]

InCallOfOther(h, c) == \E k \in DOMAIN frames : frames[k].hook = h /\ frames[k].class # c

\* HOOKVFUNC and REGISTER_ATTACH.
Attach(h, c) ==
  /\ ScriptMayRun /\ ~IsAttached(h)
  /\ InCallOfOther(h, c) => "rehook in call" \in HookHabits
  /\ original' = [original EXCEPT ![h] = vtable[c][h]]
  /\ vtable' = [vtable EXCEPT ![c][h] = Gate]
  /\ attached' = [attached EXCEPT ![h] = TRUE]
  /\ UNCHANGED <<stateVars, frames>>

\* UNHOOKVFUNC and REGISTER_DETACH.
Detach(h, c) ==
  /\ ScriptMayRun /\ attached[h]
  /\ vtable[c][h] # Gate => "mixed detach" \in HookHabits
  /\ vtable' = [vtable EXCEPT ![c][h] = original[h]]
  /\ attached' = [attached EXCEPT ![h] = FALSE]
  /\ UNCHANGED <<stateVars, original, frames>>

----------------------------------------------------------------------------
(* A hooked call.  Its frame: the hook and the class of the object, where  *)
(* it is, the loop's index and the state that is being told; and, history, *)
(* the states told in this loop, those open since its start, and the       *)
(* function that was called as the original.                               *)

\* (Mutant: the loop starts at the second slot.)
SecondIndex == 1
FirstIndex == 0

StartLoop(f, phase) ==
  [f EXCEPT !.phase = phase, !.i = FirstIndex, !.told = <<>>, !.due = open]

\* The engine or a script calls the function on an object whose class is hooked.
Call(h, c) ==
  /\ EngineRuns \/ InCallback
  /\ vtable[c][h] = Gate /\ Len(frames) < MaxCalls
  /\ frames' = Append(frames,
       StartLoop([hook |-> h, class |-> c, phase |-> "pre", i |-> 0, caller |-> None,
                  told |-> <<>>, due |-> {}, ran |-> None], "pre"))
  /\ UNCHANGED <<stateVars, hookVars>>

InLoop == frames # <<>> /\ Now.phase \in Loops /\ Now.caller = None

\* states->Element( i )
TellNext ==
  /\ InLoop /\ Now.i < Len(list)
  /\ LET s == slots[Now.i + 1]
     IN  SetNow([Now EXCEPT !.caller = s, !.told = Append(@, s)])
  /\ UNCHANGED <<stateVars, hookVars>>

TellReturns ==
  /\ InCallback
  /\ SetNow([Now EXCEPT !.caller = None, !.i = @ + 1])
  /\ UNCHANGED <<stateVars, hookVars>>

\* The end of the first loop, and the call of name_T.
CallOriginal ==
  /\ InLoop /\ Now.phase = "pre" /\ Now.i >= Len(list)
  /\ SetNow([Now EXCEPT !.phase = "original", !.ran = original[Now.hook]])
  /\ UNCHANGED <<stateVars, hookVars>>

OriginalReturns ==
  /\ frames # <<>> /\ Now.phase = "original"
  /\ SetNow(IF Now.hook \in PostHook THEN StartLoop(Now, "post")
            ELSE [Now EXCEPT !.phase = "done", !.told = <<>>, !.due = {}])
  /\ UNCHANGED <<stateVars, hookVars>>

EndPostLoop ==
  /\ InLoop /\ Now.phase = "post" /\ Now.i >= Len(list)
  /\ SetNow([Now EXCEPT !.phase = "done"])
  /\ UNCHANGED <<stateVars, hookVars>>

Return ==
  /\ frames # <<>> /\ Now.phase = "done"
  /\ frames' = Front(frames)
  /\ UNCHANGED <<stateVars, hookVars>>

CallStep ==
  \/ TellNext \/ TellReturns
  \/ CallOriginal \/ OriginalReturns \/ EndPostLoop \/ Return

HooksNext ==
  \/ \E s \in State : Open(s) \/ Close(s)
  \/ \E h \in Hook, c \in Class : Attach(h, c) \/ Detach(h, c) \/ Call(h, c)
  \/ CallStep

HooksSpec == HooksInit /\ [][HooksNext]_netVars

(***************************************************************************)
(* Properties.                                                             *)
(***************************************************************************)

Frames == [hook : Hook, class : Class, phase : Phases, i : Nat,
           caller : State \cup {None}, told : Seq(State), due : SUBSET State,
           ran : Class \cup {None, Gate}]

\* Every variable has its type.
HooksTypeOK ==
  /\ slots \in Seq(State)
  /\ list \in Seq(1 .. Len(slots)) /\ free \in Seq(1 .. Len(slots))
  /\ open \subseteq State
  /\ attached \in [Hook -> BOOLEAN]
  /\ original \in [Hook -> Class \cup {None, Gate}]
  /\ vtable \in [Class -> [Hook -> Class \cup {None, Gate}]]
  /\ frames \in Seq(Frames)

\* "Multiple Lua state support": a hooked call tells a state only while it is
\* open, and each that is open all along exactly once, although the loop takes
\* slot numbers for positions in the list, and states open and close in calls
\* nested in its callbacks.
ToldOnce(f, s) ==
  \E i \in DOMAIN f.told : f.told[i] = s /\ \A j \in DOMAIN f.told : f.told[j] = s => j = i

EveryStateIsTold ==
  \A k \in DOMAIN frames :
    /\ frames[k].caller # None => frames[k].caller \in open
    /\ frames[k].phase \in {"original", "done"} => \A s \in frames[k].due : ToldOnce(frames[k], s)

\* The function a hook calls as the original is that of the class of the object
\* it was called on, though one variable holds it for all classes, and scripts
\* attach and detach in the middle of calls.
RunsOwnOriginal ==
  \A k \in DOMAIN frames : frames[k].phase = "original" => frames[k].ran = frames[k].class

\* Once a hook is detached every class has its own function again.
DetachRestores ==
  \A h \in Hook : ~attached[h] => \A c \in Class : vtable[c][h] = c

(***************************************************************************)
(* The inductive invariant for scripts without bad habits.                 *)
(***************************************************************************)

\* The states in the slots the loops look at.
Listed == [i \in 1 .. Len(list) |-> slots[i]]

\* The slots in use are the first ones, in order, and hold the open states; the
\* next to be taken is the one after them.
SlotsInv ==
  /\ \A i \in 1 .. Len(list) : list[i] = i
  /\ Len(slots) = Len(list) + Len(free)
  /\ \A i \in 1 .. Len(free) : free[i] = Len(list) + i
  /\ open = ToSet(Listed)
  /\ \A i, j \in 1 .. Len(list) : slots[i] = slots[j] => i = j

\* At most one class is hooked, and the original is that class's own.
PatchInv ==
  \A h \in Hook :
    IF attached[h]
    THEN /\ original[h] \in Class /\ vtable[original[h]][h] = Gate
         /\ \A c \in Class \ {original[h]} : vtable[c][h] = c
    ELSE \A c \in Class : vtable[c][h] = c

\* A call was made on the class the hook was last attached to.
CallInv ==
  \A k \in DOMAIN frames :
    /\ frames[k].phase = "original" => frames[k].ran = frames[k].class
    /\ original[frames[k].hook] = frames[k].class

\* Of the states listed, those that are due and have been passed by the loop
\* were told, once, and no other that is due.
Passed(f) == IF f.caller = None THEN f.i ELSE f.i + 1
LoopOK(f, states) ==
  /\ f.due \subseteq ToSet(states)
  /\ f.caller # None =>
       f.phase \in Loops /\ f.i + 1 \in DOMAIN states /\ f.caller = states[f.i + 1]
  /\ f.phase \in Loops =>
       \A j \in DOMAIN states : states[j] \in f.due =>
         IF j <= Passed(f) THEN ToldOnce(f, states[j]) ELSE states[j] \notin ToSet(f.told)
  /\ f.phase \notin Loops => \A s \in f.due : ToldOnce(f, s)
LoopInv == \A k \in DOMAIN frames : LoopOK(frames[k], Listed)

HooksInv == HooksTypeOK /\ SlotsInv /\ PatchInv /\ CallInv /\ LoopInv

============================================================================
