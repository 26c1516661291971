------------------------------ MODULE MCShared ------------------------------
(* What several scripts share, each on its own: the graph of a nav and its *)
(* file, and the hooks on virtual functions.  Init chooses the one that is *)
(* used; the other stays as it is.                                         *)
EXTENDS NavGraph, NetHooks, TLC

CONSTANTS North, South

VARIABLE which   \* the module that runs

allVars == <<which, graphVars, netVars>>

AllInit == which \in {"navigation", "sourcenet"} /\ GraphInit /\ HooksInit

AllNext ==
  \/ which = "navigation" /\ GraphNext /\ UNCHANGED <<which, netVars>>
  \/ which = "sourcenet" /\ HooksNext /\ UNCHANGED <<which, graphVars>>

AllSpec == AllInit /\ [][AllNext]_allVars

\* Lua states are interchangeable, and so are cells, which are the same three values.
Symmetry == Permutations(State)

-----------------------------------------------------------------------------
MCOpposite == [d \in {North, South} |-> IF d = North THEN South ELSE North]

\* Three places a grid step apart, of which none is another.
Places == 1 .. 3
SamePlace(p, q) == p = q
Nowhere(p) == FALSE

\* Scripts that edit and save, edit and move nodes, edit and choose the start
\* and the end.
MCScripts ==
  { {"create", "connect", "disconnect", "remove", use} : use \in {"file", "move", "choose"} }
=============================================================================
