----------------------------- MODULE SnBuffers -----------------------------
(* sourcenet: the buffers a script reads and writes messages with. A UCHARPTR *)
(* is a block of memory the script owns; sn3_bf_write and sn3_bf_read are     *)
(* views of a block with a position of their own, any number of them on one   *)
(* block; ReadBits and ReadBytes make a block of what they read. The bits of  *)
(* bf_write and bf_read are the engine's (external); the wrappers choose the  *)
(* call, mask the value and make and delete the objects.                      *)
EXTENDS Integers, Sequences

CONSTANTS Blocks,        \* addresses of blocks
          Views,         \* addresses of readers and writers
          ByteBits,      \* bits of a byte
          Formats,       \* the widths of the fixed formats: Byte, Char, Short, Word, Long, OneBit
          Counts,        \* bit counts a script gives
          BitNumbers,      \* numbers a script writes
          Words,         \* strings a script writes
          Sizes,         \* sizes of blocks, in bytes
          Fills,         \* what unset bits may be
          StringRoom,    \* 1024: what ReadString has room for
          NoMemory,         \* nothing at an address
          BufferHabits   \* "negative": the script writes negative Chars and Shorts

Pow2[n \in Nat] == IF n = 0 THEN 1 ELSE 2 * Pow2[n - 1]

\* A character of a string is not 0, and fits a byte; one bit is one bit.
ASSUME BufAssumption ==
  /\ ByteBits \in Nat \ {0} /\ StringRoom \in Nat
  /\ DOMAIN Formats \subseteq {"Byte", "Char", "Short", "Word", "Long", "OneBit"}
  /\ \A as \in DOMAIN Formats : Formats[as] \in Nat \ {0} /\ (as = "OneBit" => Formats[as] = 1)
  /\ Counts \subseteq Nat \ {0} /\ BitNumbers \subseteq Int /\ Sizes \subseteq Nat
  /\ \A word \in Words : word \in Seq(1..Pow2[ByteBits] - 1)
  /\ NoMemory \notin Seq({0, 1} \cup Fills)

VARIABLES block,     \* block -> its bits, or NoMemory
          view,      \* view -> [for, block, bits, pos, over], or NoMemory
          intact,    \* what was written and not written over: [block, at, n, as, v]
          misreadBits   \* reads that did not give what was written there

bufVars == <<block, view, intact, misreadBits>>

BytesFor(n) == (n + ByteBits - 1) \div ByteBits      \* BitByte
Signed == {"Char", "Short", "Long", "SBit"}
Masked == {"Byte", "Char", "Short"}

----------------------------------------------------------------------------
(* bf_write and bf_read. *)

\* A number without its low bits.
Shifted[n \in Nat] == [v \in Int |-> IF n = 0 THEN v ELSE Shifted[n - 1][v] \div 2]

Unsigned(v, n) == [i \in 1..n |-> Shifted[i - 1][v] % 2]
\* WriteSBitLong: the sign is the argument's, whatever the width.
SignedBits(v, n) == [i \in 1..n |-> IF i < n THEN Shifted[i - 1][v] % 2 ELSE IF v < 0 THEN 1 ELSE 0]
BitSum(bits) ==
  LET high[k \in 0..Len(bits)] == IF k = 0 THEN 0 ELSE bits[Len(bits) - k + 1] + 2 * high[k - 1]
  IN high[Len(bits)]
NumberOf(bits, as) ==
  BitSum(bits) - (IF as \in Signed /\ bits[Len(bits)] = 1 THEN Pow2[Len(bits)] ELSE 0)

\* The value a wrapper hands on, and the bits it becomes.
\* Mutant: a Short is cut to a byte.
Mask_Byte(v, as, n) == IF as \in Masked THEN v % Pow2[ByteBits] ELSE v
Mask(v, as, n) == IF as \in Masked THEN v % Pow2[n] ELSE v
WrittenBits(v, as, n) ==
  IF as = "OneBit" THEN <<IF v = 0 THEN 0 ELSE 1>>
  ELSE IF as \in Signed THEN SignedBits(Mask(v, as, n), n) ELSE Unsigned(Mask(v, as, n), n)

\* The bits of every character and of the 0 behind them.
StringBits(word) ==
  [k \in 1..(Len(word) + 1) * ByteBits |->
     Unsigned(Append(word, 0)[1 + ((k - 1) \div ByteBits)], ByteBits)[1 + ((k - 1) % ByteBits)]]

RoomLeft(o) == view[o].bits - view[o].pos
Fits(o, n) == n <= RoomLeft(o)
BitsHere(o, n) == SubSeq(block[view[o].block], view[o].pos + 1, view[o].pos + n)

\* Without room the view goes to its end and is marked; nothing is written.
Moved(o, n) ==
  IF Fits(o, n) THEN [view EXCEPT ![o].pos = @ + n]
                ELSE [view EXCEPT ![o].pos = view[o].bits, ![o].over = TRUE]

Laid(bits, over, at) ==
  [i \in 1..Len(over) |-> IF i \in at + 1..at + Len(bits) THEN bits[i - at] ELSE over[i]]

Unwritten(b, at, n) == {r \in intact : r.block # b \/ r.at + r.n <= at \/ r.at >= at + n}

Put(o, bits, records) ==
  /\ view' = Moved(o, Len(bits))
  /\ IF Fits(o, Len(bits))
     THEN /\ block' = [block EXCEPT ![view[o].block] = Laid(bits, @, view[o].pos)]
          /\ intact' = Unwritten(view[o].block, view[o].pos, Len(bits)) \cup records
     ELSE UNCHANGED <<block, intact>>
  /\ UNCHANGED misreadBits

\* What is intact among n bits of b from `from` on, found again at `at` of c.
Carried(b, from, n, c, at) ==
  {[r EXCEPT !.block = c, !.at = at + r.at - from] :
     r \in {r \in intact : r.block = b /\ r.at >= from /\ r.at + r.n <= from + n}}

ReadBackAs(o, as, n, v) ==
  misreadBits' = misreadBits \cup {r \in intact : /\ r.block = view[o].block /\ r.at = view[o].pos
                                            /\ r.as = as /\ r.n = n /\ r.v # v}

Writer(o) == view[o] # NoMemory /\ view[o].for = "write"
Reader(o) == view[o] # NoMemory /\ view[o].for = "read"

BufInit ==
  /\ block = [b \in Blocks |-> NoMemory]
  /\ view = [o \in Views |-> NoMemory]
  /\ intact = {} /\ misreadBits = {}

----------------------------------------------------------------------------
(* The functions of a script. It keeps to what no call checks: a view is not  *)
(* longer than its block, and neither is used once it is deleted.             *)

\* UCHARPTR(n): what is in it is not set.
NewBlock(b, bytes, fill) ==
  /\ block[b] = NoMemory
  /\ block' = [block EXCEPT ![b] = [i \in 1..bytes * ByteBits |-> fill]]
  /\ UNCHANGED <<view, intact, misreadBits>>

DeleteBlock(b) ==
  /\ block[b] # NoMemory /\ \A o \in Views : view[o] # NoMemory => view[o].block # b
  /\ block' = [block EXCEPT ![b] = NoMemory]
  /\ intact' = {r \in intact : r.block # b}
  /\ UNCHANGED <<view, misreadBits>>

\* sn3_bf_write(block, bits), sn3_bf_read(block, bits).
NewView(o, use, b, bits) ==
  /\ view[o] = NoMemory /\ block[b] # NoMemory /\ bits <= Len(block[b])
  /\ view' = [view EXCEPT ![o] = [for |-> use, block |-> b, bits |-> bits, pos |-> 0, over |-> FALSE]]
  /\ UNCHANGED <<block, intact, misreadBits>>

\* FinishWriting, FinishReading: the view goes, its block stays.
Finish(o) ==
  /\ view[o] # NoMemory
  /\ view' = [view EXCEPT ![o] = NoMemory]
  /\ UNCHANGED <<block, intact, misreadBits>>

\* WriteByte, WriteChar, WriteShort, WriteWord, WriteLong, WriteOneBit, WriteUBitLong,
\* WriteSBitLong; a script writes a number that fits what it writes it as.
FitsFormat(v, as, n) ==
  CASE as = "OneBit" -> v \in {0, 1}
    [] as \in Signed -> v \in -Pow2[n - 1]..Pow2[n - 1] - 1 /\ (v < 0 /\ as \in Masked => "negative" \in BufferHabits)
    [] OTHER -> v \in 0..Pow2[n] - 1

WriteNumber(o, as, n, v) ==
  /\ Writer(o) /\ FitsFormat(v, as, n)
  /\ Put(o, WrittenBits(v, as, n),
         {[block |-> view[o].block, at |-> view[o].pos, n |-> n, as |-> as, v |-> <<v>>]})

\* WriteString, a character after the other, each where there is room.
WriteString(o, word) ==
  /\ Writer(o)
  /\ LET bits == StringBits(word)
         room == (RoomLeft(o) \div ByteBits) * ByteBits IN
     IF Len(bits) <= room
     THEN Put(o, bits, {[block |-> view[o].block, at |-> view[o].pos, n |-> Len(bits),
                         as |-> "String", v |-> word]})
     ELSE /\ view' = [view EXCEPT ![o].pos = view[o].bits, ![o].over = TRUE]
          /\ block' = [block EXCEPT ![view[o].block] = Laid(SubSeq(bits, 1, room), @, view[o].pos)]
          /\ intact' = Unwritten(view[o].block, view[o].pos, room)
          /\ UNCHANGED misreadBits

\* WriteBits, WriteBytes: out of another block.
WriteBlock(o, b, n) ==
  /\ Writer(o) /\ block[b] # NoMemory /\ b # view[o].block /\ n <= Len(block[b])
  /\ Put(o, SubSeq(block[b], 1, n), Carried(b, 0, n, view[o].block, view[o].pos))

ReadNumber(o, as, n) ==
  /\ Reader(o)
  /\ view' = Moved(o, n)
  /\ IF Fits(o, n) THEN ReadBackAs(o, as, n, <<NumberOf(BitsHere(o, n), as)>>) ELSE UNCHANGED misreadBits
  /\ UNCHANGED <<block, intact>>

\* ReadString: up to a zero or the end; nil when it ran out or had no room.
CharsFrom(o) ==
  [i \in 1..RoomLeft(o) \div ByteBits |->
     BitSum([j \in 1..ByteBits |-> block[view[o].block][view[o].pos + (i - 1) * ByteBits + j]])]
ReadString(o) ==
  /\ Reader(o)
  /\ LET chars == CharsFrom(o)
         ends  == {i \in 1..Len(chars) : chars[i] = 0}
         end   == CHOOSE i \in ends : \A j \in ends : i <= j IN
     IF ends = {}
     THEN view' = [view EXCEPT ![o].pos = view[o].bits, ![o].over = TRUE] /\ UNCHANGED misreadBits
     ELSE /\ view' = Moved(o, end * ByteBits)
          /\ IF end <= StringRoom /\ ~view[o].over
             THEN ReadBackAs(o, "String", end * ByteBits, SubSeq(chars, 1, end - 1))
             ELSE UNCHANGED misreadBits
  /\ UNCHANGED <<block, intact>>

\* ReadBits, ReadBytes: into a block of their own, of BitByte(n) bytes; what the
\* read does not fill is not set.
ReadBlock(o, b, n, fill) ==
  LET room == [i \in 1..BytesFor(n) * ByteBits |-> fill] IN
  /\ Reader(o) /\ block[b] = NoMemory
  /\ view' = Moved(o, n)
  /\ block' = [block EXCEPT ![b] = IF Fits(o, n) THEN Laid(BitsHere(o, n), room, 0) ELSE room]
  /\ intact' = intact \cup (IF Fits(o, n) THEN Carried(view[o].block, view[o].pos, n, b, 0) ELSE {})
  /\ UNCHANGED misreadBits

\* Seek of a writer takes any position in the view; of a reader, and SeekRelative,
\* one that is not goes to the end and marks the reader.
SeekView(o, bit) ==
  /\ view[o] # NoMemory /\ (Writer(o) => bit \in 0..view[o].bits)
  /\ view' = IF bit \in 0..view[o].bits THEN [view EXCEPT ![o].pos = bit]
             ELSE [view EXCEPT ![o].pos = view[o].bits, ![o].over = TRUE]
  /\ UNCHANGED <<block, intact, misreadBits>>

WidthsOf(as) == IF as \in DOMAIN Formats THEN {Formats[as]} ELSE Counts
AllFormats == DOMAIN Formats \cup {"UBit", "SBit"}

BufNext ==
  \/ \E b \in Blocks, bytes \in Sizes, fill \in Fills : NewBlock(b, bytes, fill)
  \/ \E b \in Blocks : DeleteBlock(b)
  \/ \E o \in Views, use \in {"write", "read"}, b \in Blocks, bytes \in Sizes :
        NewView(o, use, b, bytes * ByteBits)
  \/ \E o \in Views : Finish(o)
  \/ \E o \in Views, as \in AllFormats, v \in BitNumbers : \E n \in WidthsOf(as) : WriteNumber(o, as, n, v)
  \/ \E o \in Views, word \in Words : WriteString(o, word)
  \/ \E o \in Views, b \in Blocks, n \in Counts : WriteBlock(o, b, n)
  \/ \E o \in Views, as \in AllFormats : \E n \in WidthsOf(as) : ReadNumber(o, as, n)
  \/ \E o \in Views : ReadString(o)
  \/ \E o \in Views, b \in Blocks, n \in Counts, fill \in Fills : ReadBlock(o, b, n, fill)
  \/ \E o \in Views, bit \in {0, -1} \cup Counts : SeekView(o, bit)

BufSpec == BufInit /\ [][BufNext]_bufVars

----------------------------------------------------------------------------
\* What a script has written through one buffer it reads back, through any other
\* on the same block, after a copy into another block and however buffers were
\* moved, ran out of room or were deleted in between, until it writes over it.
MessagesReadBack == misreadBits = {}
============================================================================
