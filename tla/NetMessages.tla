---------------------------- MODULE NetMessages ----------------------------
(***************************************************************************)
(* gm_sourcenet3's replacement of CNetChan::ProcessMessages (gl_hooks.cpp, *)
(* engine/net_chan.cpp).  Before the messages of a packet are processed    *)
(* each Lua state may rewrite them: it is given the packet to read, and a  *)
(* buffer to write, which is what the next one reads.                      *)
(*                                                                         *)
(* A buffer is a sequence of cells, each a bit of a message; Byte and      *)
(* NET_MESSAGE_BITS are scaled down.  The messages' own reading and        *)
(* processing, the handler and bf_read are the engine's: any outcome.      *)
(* Nested calls are in NetHooks.                                           *)
(***************************************************************************)
EXTENDS Integers, SequencesExt

CONSTANTS
  Byte, NET_MESSAGE_BITS,
  MsgBits,       \* kind of message -> its length; "NOP", "Disconnect", "File" are control messages
  NetMsgs,       \* those registered with the channel
  Packets,       \* what may arrive: bits of the header, messages, bits cut off
  Scripts,       \* the number of Lua states
  Room,          \* bound: the bits a script writes, the header included
  PacketHabits   \* "ahead": scripts write over what they have yet to read
                 \* "ragged": scripts do not pad their last byte with NOPs
                 \* "closing": a handler shuts the channel for a file

VARIABLES
  image,         \* the bits of "packet" and of "data"
  reader,        \* buf: what it reads, its position and its end
  writer,        \* write: its position
  stage,         \* "idle", "script", "loop"
  turn,          \* the state whose script runs
  sent, taken,  \* the messages the reader should find, and those it found
  written,           \* the messages the script has written
  channel,       \* "live", "deleted", or "dangling"
  result,        \* the result of the last call
  patch          \* the first bytes of ProcessMessages

msgVars == <<image, reader, writer, stage, turn, sent, taken, written, channel, result, patch>>

Kinds == DOMAIN MsgBits
Control == {"NOP", "Disconnect", "File"}
Stray == <<"stray", 0>>

BitByte(bits) == (bits + Byte - 1) \div Byte

BitsOf(msgs) ==
  FlattenSeq([i \in DOMAIN msgs |-> [k \in 1..MsgBits[msgs[i]] |-> <<msgs[i], k>>]])

Header(bits) == [k \in 1..bits |-> <<"header", k>>]

(* A message that is cut off in its kind does not count as sent.           *)
ASSUME MsgAssumption ==
  /\ Byte \in Nat \ {0} /\ NET_MESSAGE_BITS \in Nat \ {0}
  /\ Scripts \in Nat /\ Room \in Nat
  /\ "header" \notin Kinds
  /\ \A m \in Kinds : MsgBits[m] \in Nat /\ MsgBits[m] >= NET_MESSAGE_BITS
  /\ \A p \in Packets :
       /\ p.head \in Nat /\ p.msgs \in Seq(Kinds) /\ p.cut \in Nat
       /\ \A k \in 0..(Len(p.msgs) - 1) :
            Len(BitsOf(p.msgs)) - p.cut - Len(BitsOf(SubSeq(p.msgs, 1, k))) \notin
              0..(NET_MESSAGE_BITS - 1)

MsgInit ==
  /\ image = [packet |-> <<>>, data |-> <<>>]
  /\ reader = [at |-> "packet", pos |-> 0, end |-> 0]
  /\ writer = 0 /\ stage = "idle" /\ turn = 0
  /\ sent = <<>> /\ taken = <<>> /\ written = <<>>
  /\ channel = "live" /\ result = TRUE /\ patch = "engine"

(* memcpy of the bytes read so far; the rest of data is what the stack had.*)
DataOf(bits, from) ==
  [i \in 1..Room |-> IF i <= Byte * BitByte(from) /\ i <= Len(bits) THEN bits[i] ELSE Stray]

(* The engine calls the function, with the header read.                    *)
Arrive ==
  /\ stage = "idle" /\ patch = "jump" /\ channel = "live"
  /\ \E p \in Packets :
       LET bits == Header(p.head) \o BitsOf(p.msgs) IN
       /\ image' = [packet |-> bits, data |-> DataOf(bits, p.head)]
       /\ reader' = [at |-> "packet", pos |-> p.head, end |-> Len(bits) - p.cut]
       /\ writer' = p.head
       /\ sent' = p.msgs
       /\ stage' = IF Scripts = 0 \/ Len(bits) - p.cut < p.head THEN "loop" ELSE "script"
  /\ taken' = <<>> /\ written' = <<>>
  /\ turn' = 1
  /\ UNCHANGED <<channel, result, patch>>

(* The messages the bits at the reader may be taken for, "garbled" if they *)
(* are no whole message.                                                   *)
BitAt(i) == IF i <= reader.end THEN image[reader.at][i] ELSE Stray

Whole(m) == \A k \in 1..MsgBits[m] : BitAt(reader.pos + k) = <<m, k>>

Seen == { m \in Kinds : \A k \in 1..NET_MESSAGE_BITS : BitAt(reader.pos + k) = <<m, k>> }

Types == IF Seen = {} THEN Kinds ELSE Seen

Label(m) == IF m \in Kinds /\ Whole(m) THEN m ELSE "garbled"

BitsLeft == reader.end - reader.pos

----------------------------------------------------------------------------
(* The hook PreProcessMessages.                                            *)

ScriptReads ==
  /\ stage = "script" /\ BitsLeft >= NET_MESSAGE_BITS
  /\ \E m \in Types :
       /\ BitsLeft >= MsgBits[m]
       /\ reader' = [reader EXCEPT !.pos = @ + MsgBits[m]]
       /\ taken' = Append(taken, Label(m))
  /\ UNCHANGED <<image, writer, stage, turn, sent, written, channel, result, patch>>

(* The first script reads the packet, the others data itself.              *)
ScriptWrites(m) ==
  LET end == writer + MsgBits[m] IN
  /\ stage = "script" /\ end <= Room
  /\ reader.at = "data" /\ "ahead" \notin PacketHabits => end <= reader.pos
  /\ image' = [image EXCEPT !.data =
       [i \in 1..Room |-> IF i > writer /\ i <= end THEN <<m, i - writer>> ELSE @[i]]]
  /\ writer' = end
  /\ written' = Append(written, m)
  /\ UNCHANGED <<reader, stage, turn, sent, taken, channel, result, patch>>

HeaderBits == IF written = <<>> THEN writer ELSE writer - Len(BitsOf(written))

(* A bug: the next script, and the loop, start behind what was written. *)
Restarted_Here == [at |-> "data", pos |-> writer, end |-> Byte * BitByte(writer)]

(* StartReading.                                                           *)
Restarted == [at |-> "data", pos |-> HeaderBits, end |-> Byte * BitByte(writer)]

ScriptReturns ==
  /\ stage = "script"
  /\ "ragged" \notin PacketHabits => Byte * BitByte(writer) - writer < NET_MESSAGE_BITS
  /\ Byte * BitByte(writer) <= Room
  /\ reader' = Restarted
  /\ writer' = HeaderBits
  /\ sent' = written /\ taken' = <<>> /\ written' = <<>>
  /\ turn' = turn + 1
  /\ stage' = IF turn = Scripts THEN "loop" ELSE "script"
  /\ UNCHANGED <<image, channel, result, patch>>

----------------------------------------------------------------------------
(* The loop over the messages.                                             *)

Done(value) == stage' = "idle" /\ result' = value
GoOn == stage' = "loop" /\ UNCHANGED result

Touched == IF channel = "live" THEN channel ELSE "dangling"

(* FindMessage, ConnectionCrashed and the rest go through netchan.         *)
Overflow ==
  /\ stage = "loop" /\ BitsLeft < 0
  /\ channel' = Touched
  /\ Done(FALSE)
  /\ UNCHANGED <<image, reader, writer, turn, sent, taken, written, patch>>

EndOfPacket ==
  /\ stage = "loop" /\ BitsLeft \in 0..(NET_MESSAGE_BITS - 1)
  /\ Done(TRUE)
  /\ UNCHANGED <<image, reader, writer, turn, sent, taken, written, channel, patch>>

(* A message that is cut off sets the overflow flag of the reader.         *)
Advance(m) ==
  /\ reader' = [reader EXCEPT !.pos = @ + MsgBits[m]]
  /\ taken' = IF BitsLeft >= MsgBits[m] THEN Append(taken, Label(m)) ELSE taken

(* ProcessControlMessage.  A handler told of the end shuts the channel,    *)
(* which deletes it: no message is being processed.                        *)
ProcessControlMessage(m) ==
  /\ Advance(m)
  /\ CASE m = "NOP" -> GoOn /\ channel' = Touched
       [] m = "Disconnect" -> Done(FALSE) /\ channel' \in {Touched, "deleted"}
       [] m = "File" ->
            /\ GoOn
            /\ channel' \in {Touched} \cup { c \in {"deleted"} : "closing" \in PacketHabits }

(* A message is read, and processed unless net_blockmsg names it.  If it   *)
(* shuts the channel fatal_error is set, and the channel is deleted then;  *)
(* or it is not processed, or the channel overflows.                       *)
ProcessMessage(m) ==
  \/ UNCHANGED <<reader, taken>> /\ Done(FALSE) /\ channel' = Touched
  \/ /\ BitsLeft >= MsgBits[m] /\ Advance(m)
     /\ \/ GoOn /\ channel' = Touched
        \/ Done(FALSE) /\ channel' \in {Touched, "deleted"}

NextMessage ==
  /\ stage = "loop" /\ BitsLeft >= NET_MESSAGE_BITS
  /\ \E m \in Types :
       \/ m \in Control /\ ProcessControlMessage(m)
       \/ m \in NetMsgs /\ ProcessMessage(m)
       \/ /\ m \notin Control \cup NetMsgs
          /\ Done(FALSE) /\ channel' = Touched /\ UNCHANGED <<reader, taken>>
  /\ UNCHANGED <<image, writer, turn, sent, written, patch>>

(* Another channel takes the place of the one that was deleted.            *)
Reconnect ==
  /\ stage = "idle" /\ channel = "deleted" /\ channel' = "live"
  /\ UNCHANGED <<image, reader, writer, stage, turn, sent, taken, written, result, patch>>

(* A script attaches the hook, also in the middle of a call, or detaches.  *)
AttachMessages ==
  /\ patch = "engine" /\ patch' = "jump"
  /\ UNCHANGED <<image, reader, writer, stage, turn, sent, taken, written, channel, result>>

DetachMessages ==
  /\ patch = "jump" /\ patch' = "engine"
  /\ UNCHANGED <<image, reader, writer, stage, turn, sent, taken, written, channel, result>>

MsgNext ==
  \/ Arrive \/ ScriptReads \/ ScriptReturns
  \/ \E m \in Kinds : ScriptWrites(m)
  \/ Overflow \/ EndOfPacket \/ NextMessage \/ Reconnect
  \/ AttachMessages \/ DetachMessages

MsgSpec == MsgInit /\ [][MsgNext]_msgVars

----------------------------------------------------------------------------
(* Each script reads, and the loop processes, the messages that the script *)
(* before it wrote, in their order, and all of them when the loop ends     *)
(* well; the channel is not used once it is deleted.                       *)
MessagesPassOn ==
  /\ IsPrefix(taken, sent)
  /\ stage = "idle" /\ result => taken = sent
  /\ channel # "dangling"
=============================================================================
