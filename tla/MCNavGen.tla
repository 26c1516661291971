------------------------------ MODULE MCNavGen ------------------------------
(* Instances of NavGen for TLC: a row of three grid squares with a floor   *)
(* of their own each, and seeds that SnapToGrid puts in their middle.      *)
EXTENDS NavGen

MCPos == {16} \X {16, 24, 48, 56, 80, 88} \X {100, 120, 124, 132, 135, 164, 180}
Unlimited(p) == FALSE

Low    == {<<0, 100>>}
Higher == {<<0, 124>>}
Ledge  == {<<0, 135>>}
Bridge == {<<0, 100>>, <<165, 180>>}

Row(floors) == [c \in {0} \X (0 .. Len(floors) - 1) |-> floors[c[2] + 1]]
Terrain(floors, walls, air) == [floors |-> Row(floors), walls |-> walls, air |-> air]

Shaft == {<<16, 16, 132>>, <<16, 16, 164>>, <<16, 48, 132>>, <<16, 80, 132>>}

MCTerrains ==
  { Terrain(<<Ledge, Low, Bridge>>, {}, {}),
    Terrain(<<Low, Bridge, Higher>>, {}, {}),
    Terrain(<<Higher, Bridge, Bridge>>, {}, {}),
    Terrain(<<Low, Higher, Low>>, {}, Shaft),
    Terrain(<<Low, Low, Low>>, { <<<<16, 16, 100>>, <<16, 48, 100>>>> }, {}) }

MCGroundSpots == {<<0, 32, 100>>, <<0, 40, 120>>, <<0, 64, 180>>, <<0, 72, 100>>}
MCAirSpots == {<<0, 0, 132>>}
MCTooFar(p) == p[2] > 85

\* A flat floor of two squares, and two seeds, of which one is in the air: both
\* nodes step onto the same node of the other square.
FlatTerrain == { Terrain(<<Low, Low>>, {}, {}) }
FlatSpots == {<<0, 0, 100>>, <<0, 0, 120>>}

=============================================================================
