------------------------------ MODULE MCEngine ------------------------------
(* The modules that reach into a process's memory, each on its own: Init   *)
(* chooses the one that runs and the others stay as they are, so that the  *)
(* states are those of every module by itself.                             *)
EXTENDS Detours, PvsObjects, NetMessages, SnBuffers, SnChannel, Pstack,
        KdTree, TLC

VARIABLE which   \* the module that runs

allVars == <<which, dtVars, pvsVars, msgVars, bufVars, chanVars, psVars,
             kdVars>>

AllInit ==
  /\ which \in {"detours", "pvs", "messages", "buffers", "channel",
               "pstack", "kdtree"}
  /\ DtInit /\ PvsInit /\ MsgInit /\ BufInit /\ ChanInit /\ PsInit /\ KdInit
  /\ which # "detours" => original = CHOOSE f \in Functions : TRUE

Rests(part, v) == IF which = part THEN TRUE ELSE UNCHANGED v

OthersRest ==
  /\ UNCHANGED which
  /\ Rests("detours", dtVars)
  /\ Rests("pvs", pvsVars)
  /\ Rests("messages", msgVars)
  /\ Rests("buffers", bufVars)
  /\ Rests("channel", chanVars)
  /\ Rests("pstack", psVars)
  /\ Rests("kdtree", kdVars)

AllNext ==
  \/ which = "detours" /\ DtNext /\ OthersRest
  \/ which = "pvs" /\ PvsNext /\ OthersRest
  \/ which = "messages" /\ MsgNext /\ OthersRest
  \/ which = "buffers" /\ BufNext /\ OthersRest
  \/ which = "channel" /\ ChanNext /\ OthersRest
  \/ which = "pstack" /\ PsNext /\ OthersRest
  \/ which = "kdtree" /\ KdNext /\ OthersRest

AllSpec == AllInit /\ [][AllNext]_allVars

-----------------------------------------------------------------------------
\* Relative operands, none of which reaches beyond the bytes a jump overwrites.
MCObjects == 1..3
MCDetourAt == <<240, 244, 248>>
MCBackupAt == <<60, 80, 100>>
MCTrampolineAt == <<120, 130, 140>>
Near(op, w) == op \o <<w % 16, w \div 16>>
MCFunctions ==
  {Near(<<8>>, 50) \o <<3>>, <<1, 1>> \o Near(<<2>>, 18) \o <<3>>,
   <<1>> \o Near(<<2>>, 33) \o Near(<<8>>, 7) \o <<3>>, <<1, 3>>, <<1, 7, 1, 1, 3>>,
   Near(<<9>>, 180), <<1, 1, 1>> \o Near(<<15, 4>>, 9) \o <<3>>}

MCMsgBits == [NOP |-> 2, Disconnect |-> 3, File |-> 4, Tick |-> 3, Odd |-> 3]
Packet(head, msgs, cut) == [head |-> head, msgs |-> msgs, cut |-> cut]
MCPackets == {Packet(1, <<"Tick", "Odd">>, 0), Packet(1, <<"NOP", "Disconnect">>, 0),
              Packet(0, <<"Tick", "File">>, 2), Packet(1, <<"NOP">>, 3)}

MCFormats == [Char |-> 2, Short |-> 4]
MCWords == {<<1>>}
MCBitNumbers == {-2, 5}

MCIndices == {-1, 0, 1, 2}

\* 1, 2 and 3 are the C library, LinuxThreads and a library without symbols.
MCThreadsOf == (10 :> <<10, 0, 11, 12>>) @@ (20 :> <<0>>)
MCMapOf == (10 :> <<1, 2, 3>>) @@ (20 :> <<2, 1>>)

\* Points that share coordinates with each other and with those asked for.
Plane == {<<0, 0>>, <<0, 2>>, <<1, 1>>, <<1, 3>>, <<2, 0>>}
AskedPoints == {<<0, 0>>, <<0, 1>>, <<1, 0>>, <<1, 2>>, <<2, 2>>, <<3, 0>>}
=============================================================================
