----------------------------- MODULE EngineSpew -----------------------------
(***************************************************************************)
(* The modules enginespew and xterm: each puts a function of its own in    *)
(* front of the engine's output function.  LuaSpew asks a Lua hook, which  *)
(* may print itself, raise, or keep a text from the output; newspew prints *)
(* a text between two codes for the terminal, in three spews.  Any thread  *)
(* prints; only the main one may enter Lua.                                *)
(***************************************************************************)
EXTENDS Integers, Sequences, FiniteSets, SequencesExt

CONSTANTS
  Messages,    \* what is printed, each once
  Colourless,  \* those newspew drops: ordinary ones without a colour
  Threads, Main,
  MaxOpens,    \* bound: how often a module is hooked
  SpewHabits   \* "unordered": modules are closed in any order

VARIABLES
  spewFunc,              \* the engine's output function
  g_fnOldSpew, oldspew,  \* what enginespew and xterm found there
  luas,                  \* the Lua state is set
  inspew,                \* the flag of the same name
  hooked,                \* the modules' functions, in the order of loading
  spews,                 \* thread -> its calls of output functions, innermost last
  printed,               \* the messages printed so far
  output,                \* message -> how often the engine's function got it
  kept,                  \* the texts a hook returned true for
  dropped,               \* the messages newspew dropped
  colour,                \* the last code that reached the terminal
  loads                  \* how often a module was loaded

spewVars == <<spewFunc, g_fnOldSpew, oldspew, luas, inspew, hooked, spews, printed,
              output, kept, dropped, colour, loads>>
modules == <<spewFunc, g_fnOldSpew, oldspew, luas, hooked, loads>>

Code == {"set", "reset"}

ASSUME SpewAssumption == Messages \cap Code = {}

SpewInit ==
  /\ spewFunc = "engine" /\ g_fnOldSpew = "engine" /\ oldspew = "engine"
  /\ luas = FALSE /\ inspew = FALSE
  /\ hooked = <<>>
  /\ spews = [t \in Threads |-> <<>>]
  /\ printed = {}
  /\ output = [m \in Messages |-> 0]
  /\ kept = {} /\ dropped = {}
  /\ colour = "reset"
  /\ loads = 0

SpewCall(f, text) == [in |-> f, text |-> text, at |-> 0]

Busy(t) == spews[t] # <<>>
Top(t)  == spews[t][Len(spews[t])]
Under(t) == SubSeq(spews[t], 1, Len(spews[t]) - 1)

InCall(t, f, at) == Busy(t) /\ Top(t).in = f /\ Top(t).at = at

Becomes(t, s)  == spews' = [spews EXCEPT ![t] = s]
Returns(t)     == Becomes(t, Under(t))
GoesOn(t, at)  == Append(Under(t), [Top(t) EXCEPT !.at = at])
TailCall(t, f) == Becomes(t, Append(Under(t), SpewCall(f, Top(t).text)))

(* A thread prints, or the script of a hook does.                          *)
SpewMessage(t, m) ==
  /\ m \notin printed
  /\ ~Busy(t) \/ InCall(t, "LuaSpew", 1)
  /\ printed' = printed \cup {m}
  /\ Becomes(t, Append(spews[t], SpewCall(spewFunc, m)))
  /\ UNCHANGED <<modules, inspew, output, kept, dropped, colour>>

EngineSpew(t) ==
  /\ InCall(t, "engine", 0)
  /\ LET text == Top(t).text
     IN IF text \in Code THEN colour' = text /\ UNCHANGED output
        ELSE output' = [output EXCEPT ![text] = @ + 1] /\ UNCHANGED colour
  /\ Returns(t)
  /\ UNCHANGED <<modules, inspew, printed, kept, dropped>>

-----------------------------------------------------------------------------
(* Whether LuaSpew asks the hook.                                          *)
Asks(t) == t = Main /\ ~inspew /\ luas

LuaSpew(t) ==
  /\ InCall(t, "LuaSpew", 0)
  /\ IF Asks(t)
     THEN /\ inspew' = TRUE
          /\ Becomes(t, GoesOn(t, 1))
     ELSE TailCall(t, g_fnOldSpew) /\ UNCHANGED <<inspew>>
  /\ UNCHANGED <<modules, printed, output, kept, dropped, colour>>

HookReturns(t) ==
  /\ InCall(t, "LuaSpew", 1)
  /\ inspew' = FALSE
  /\ \/ kept' = kept \cup {Top(t).text} /\ Returns(t)
     \/ UNCHANGED kept /\ TailCall(t, g_fnOldSpew)
  /\ UNCHANGED <<modules, printed, output, dropped, colour>>

(* A bug: the flag is lowered before the warning. *)
Warned_Late == FALSE

(* The flag while the warning about an error is printed.                   *)
Warned == inspew

(* The hook raises: a warning is printed, and then the text.               *)
HookRaises(t, w) ==
  /\ InCall(t, "LuaSpew", 1) /\ w \notin printed \cup Colourless
  /\ printed' = printed \cup {w}
  /\ inspew' = Warned
  /\ Becomes(t, Append(GoesOn(t, 2), SpewCall(spewFunc, w)))
  /\ UNCHANGED <<modules, output, kept, dropped, colour>>

AfterWarning(t) ==
  /\ InCall(t, "LuaSpew", 2)
  /\ inspew' = FALSE
  /\ TailCall(t, g_fnOldSpew)
  /\ UNCHANGED <<modules, printed, output, kept, dropped, colour>>

SpewOpen ==
  /\ ~luas /\ loads < MaxOpens
  /\ luas' = TRUE
  /\ g_fnOldSpew' = spewFunc /\ spewFunc' = "LuaSpew"
  /\ hooked' = Append(hooked, "LuaSpew") /\ loads' = loads + 1
  /\ UNCHANGED <<oldspew, inspew, spews, printed, output, kept, dropped, colour>>

-----------------------------------------------------------------------------
(* What newspew prints, one call of oldspew after the other.               *)
Parts(m) == <<"set", m, "reset">>

newspew(t) ==
  /\ \E at \in 0..3 : InCall(t, "newspew", at)
  /\ LET text == Top(t).text
         at == Top(t).at
     IN IF at = 0 /\ text \in Colourless
        THEN dropped' = dropped \cup {text} /\ Returns(t)
        ELSE /\ UNCHANGED dropped
             /\ IF at < Len(Parts(text))
                THEN Becomes(t, Append(GoesOn(t, at + 1), SpewCall(oldspew, Parts(text)[at + 1])))
                ELSE Returns(t)
  /\ UNCHANGED <<modules, inspew, printed, output, kept, colour>>

XtermOpen ==
  /\ \A i \in DOMAIN hooked : hooked[i] # "newspew"
  /\ loads < MaxOpens
  /\ oldspew' = spewFunc /\ spewFunc' = "newspew"
  /\ hooked' = Append(hooked, "newspew") /\ loads' = loads + 1
  /\ UNCHANGED <<g_fnOldSpew, luas, inspew, spews, printed, output, kept, dropped, colour>>

-----------------------------------------------------------------------------
(* The Lua state closes its modules, the last hooked first.                *)
Closes(f) ==
  /\ \A t \in Threads : ~Busy(t)
  /\ \E i \in DOMAIN hooked :
       /\ hooked[i] = f
       /\ i = Len(hooked) \/ "unordered" \in SpewHabits
       /\ hooked' = RemoveAt(hooked, i)
  /\ UNCHANGED <<g_fnOldSpew, oldspew, loads, inspew, spews, printed, output, kept,
                 dropped, colour>>

SpewClose == Closes("LuaSpew") /\ luas' = FALSE /\ spewFunc' = g_fnOldSpew

XtermClose == Closes("newspew") /\ spewFunc' = oldspew /\ UNCHANGED luas

SpewNext ==
  \/ \E t \in Threads :
       \/ \E m \in Messages : SpewMessage(t, m) \/ HookRaises(t, m)
       \/ EngineSpew(t) \/ LuaSpew(t) \/ HookReturns(t) \/ AfterWarning(t) \/ newspew(t)
  \/ SpewOpen \/ SpewClose \/ XtermOpen \/ XtermClose

SpewSpec == SpewInit /\ [][SpewNext]_spewVars

-----------------------------------------------------------------------------
AskedBy(t) == {i \in DOMAIN spews[t] : spews[t][i].in = "LuaSpew" /\ spews[t][i].at > 0}
Asked == UNION {{<<t, i>> : i \in AskedBy(t)} : t \in Threads}

Passing(m) == \E t \in Threads : \E i \in DOMAIN spews[t] : spews[t][i].text = m

(* In whichever order the two modules come, every message reaches the      *)
(* engine's function once, unless the hook keeps it or newspew drops it:   *)
(* also those printed by a hook, by other threads while one runs, and      *)
(* about its error.  The hook is asked about one text at a time, and is    *)
(* asked again after it raised.  Nothing is printed through a module that  *)
(* is closed, and the terminal gets its colour back unless the hook kept   *)
(* the code that does.                                                     *)
EveryMessageOnce ==
  /\ \A m \in printed :
       /\ output[m] <= 1
       /\ ~Passing(m) => output[m] = IF m \in kept \cup dropped THEN 0 ELSE 1
  /\ Cardinality(Asked) <= 1
  /\ inspew = (Asked # {})
  /\ spewFunc = IF hooked = <<>> THEN "engine" ELSE hooked[Len(hooked)]
  /\ (\A t \in Threads : ~Busy(t)) /\ "reset" \notin kept => colour = "reset"
=============================================================================
