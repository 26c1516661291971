---------------------------- MODULE SnChannel ----------------------------
(* sourcenet: the objects of a channel as a script sees them. CNetChan, its   *)
(* subchannel_t's and the dataFragments_t of its waiting lists are the        *)
(* engine's; a script reads and sets their fields through pointers, makes     *)
(* fragments and buffers of its own and queues them. From then on they are    *)
(* the channel's, which deletes a fragment and its buffer when it is sent and *)
(* all of them when it is cleared or goes (external). No call checks any of   *)
(* this: a script keeps to the rules named in Reckless, or it does not.       *)
EXTENDS Integers, Sequences, FiniteSets, SequencesExt

CONSTANTS FragmentAt,    \* addresses of fragments
          BufferAt,      \* addresses of buffers (UCHARPTR)
          MAX_STREAMS,   \* waiting lists of a channel
          Indices,       \* stream and offset arguments
          FileFields, SizeFields, CountFields,      \* fields of a fragment
          TimeFields, ModeFields, SubFields,        \* fields of a channel and its subchannels
          FieldValues,
          NULLPTR, UNSET,
          QueueRoom,     \* bound: fragments in a list
          Reckless       \* subset of RulesToBreak

ASSUME ChanAssumption ==
  /\ MAX_STREAMS = 2 /\ Indices \subseteq Int
  /\ {NULLPTR, UNSET, "other"} \cap BufferAt = {} /\ NULLPTR # UNSET
  /\ "buffer" \notin FileFields \cup SizeFields \cup CountFields
  /\ NULLPTR \notin [FileFields \cup SizeFields \cup CountFields \cup {"buffer"} ->
                    BufferAt \cup {NULLPTR, UNSET, 0} \cup FieldValues]

\* What a script may do against the rules that no call checks.
RulesToBreak == {"queue twice", "queue unset", "share a buffer", "delete queued", "delete a buffer in use"}

VARIABLES fragment,   \* address -> [buffer, and its fields], or NULLPTR
          memory,     \* buffers allocated
          waitlist,   \* stream -> the fragments to send
          netchan,    \* the fields of the channel and its subchannels, or NULLPTR
          pushed,     \* what the last call pushed
          wild        \* memory reached that is not, or no longer, allocated

chanVars == <<fragment, memory, waitlist, netchan, pushed, wild>>

Streams == 0..MAX_STREAMS - 1
Queued == UNION {Range(waitlist[s]) : s \in Streams}
Made == {a \in FragmentAt : fragment[a] # NULLPTR}
FragmentFields == FileFields \cup SizeFields \cup CountFields
ChannelFields == TimeFields \cup ModeFields \cup SubFields
FragmentOf(b, v) == [f \in FragmentFields \cup {"buffer"} |-> IF f = "buffer" THEN b ELSE v]
BuffersOf(as) == {fragment[a].buffer : a \in as} \ {NULLPTR}

ChanInit ==
  /\ fragment = [a \in FragmentAt |-> NULLPTR] /\ memory = {}
  /\ waitlist = [s \in Streams |-> <<>>]
  /\ netchan = [f \in ChannelFields |-> 0]
  /\ pushed = "nothing" /\ wild = FALSE

----------------------------------------------------------------------------
(* The engine (external). *)

\* The fragments as of the lists, and their buffers, are deleted.
Unqueued(as) ==
  /\ wild' = (wild \/ ~(as \subseteq Made) \/ ~(BuffersOf(as \cap Made) \subseteq memory))
  /\ fragment' = [a \in FragmentAt |-> IF a \in as THEN NULLPTR ELSE fragment[a]]
  /\ memory' = memory \ BuffersOf(as \cap Made)

\* The first of a list is acknowledged.
Sent(s) ==
  /\ netchan # NULLPTR /\ waitlist[s] # <<>>
  /\ Unqueued({Head(waitlist[s])})
  /\ waitlist' = [waitlist EXCEPT ![s] = Tail(@)]
  /\ UNCHANGED <<netchan, pushed>>

\* _G.CNetChan, of the next client when the last one has gone.
Connected ==
  /\ netchan' = IF netchan = NULLPTR THEN [f \in ChannelFields |-> 0] ELSE netchan
  /\ pushed' = "CNetChan"
  /\ UNCHANGED <<fragment, memory, waitlist, wild>>

----------------------------------------------------------------------------
(* The methods of a CNetChan. *)

\* Reset, Clear and Shutdown; the engine also drops the channel of a client that
\* leaves (`gone').
Cleared(gone) ==
  /\ netchan # NULLPTR
  /\ Unqueued(Queued)
  /\ waitlist' = [s \in Streams |-> <<>>]
  /\ netchan' = IF gone THEN NULLPTR ELSE netchan
  /\ pushed' = "nothing"

\* Transmit, SendFile, DenyFile and RequestFile: the engine queues a fragment of
\* its own, or none.
EngineQueues(s, a, b) ==
  /\ netchan # NULLPTR /\ a \in FragmentAt \ Made /\ b \in BufferAt \ memory
  /\ Len(waitlist[s]) < QueueRoom
  /\ fragment' = [fragment EXCEPT ![a] = FragmentOf(b, 0)]
  /\ memory' = memory \cup {b}
  /\ waitlist' = [waitlist EXCEPT ![s] = Append(@, a)]
  /\ pushed' = "bool"
  /\ UNCHANGED <<netchan, wild>>

VerifyStream(s) == s >= 0 /\ s < MAX_STREAMS
\* Mutant: the offset behind the last passes.
VerifyOffset_Behind(list, i) == i >= 0 /\ i <= Len(list)
VerifyOffset(list, i) == i >= 0 /\ i < Len(list)
Element(list, i) == IF i < Len(list) THEN list[i + 1] ELSE UNSET

GetOutgoingQueueSize(s) ==
  /\ netchan # NULLPTR
  /\ pushed' = IF VerifyStream(s) THEN "number" ELSE "nil"
  /\ UNCHANGED <<fragment, memory, waitlist, netchan, wild>>

GetOutgoingQueueFragments(s, i) ==
  /\ netchan # NULLPTR
  /\ IF VerifyStream(s) /\ VerifyOffset(waitlist[s], i)
     THEN /\ pushed' = Element(waitlist[s], i)
          /\ wild' = (wild \/ pushed' \notin Made)
     ELSE pushed' = "nil" /\ UNCHANGED wild
  /\ UNCHANGED <<fragment, memory, waitlist, netchan>>

QueueOutgoingFragments(s, a) ==
  /\ netchan # NULLPTR /\ a \in Made
  /\ a \in Queued => "queue twice" \in Reckless
  /\ fragment[a].buffer = UNSET => "queue unset" \in Reckless
  /\ IF VerifyStream(s)
     THEN /\ Len(waitlist[s]) < QueueRoom
          /\ waitlist' = [waitlist EXCEPT ![s] = Append(@, a)]
          /\ pushed' = "nothing"
     ELSE pushed' = "nil" /\ UNCHANGED waitlist
  /\ UNCHANGED <<fragment, memory, netchan, wild>>

\* What is pushed and what is set besides.
Pushes(what) ==
  /\ netchan # NULLPTR
  /\ pushed' = what
  /\ UNCHANGED <<fragment, memory, waitlist, netchan, wild>>
Sets(fields, v) ==
  /\ netchan # NULLPTR
  /\ \E f \in fields : netchan' = [netchan EXCEPT ![f] = v]
  /\ UNCHANGED <<fragment, memory, waitlist, wild>>

\* GetIncomingFragments, GetSubChannels, GetReliableBuffer, GetUnreliableBuffer,
\* GetVoiceBuffer, GetNetChannelHandler, GetAddress: pointers into the channel.
GetPart == Pushes("part")
\* GetTime to GetSequenceNr, by flow; the engine computes them.
AskFlow == Pushes("number")
\* IsValidPacket to GetRemoteFramerate, by flow and packet: one value or two.
AskPacket == \E what \in {"number", "two numbers"} : Pushes(what)
\* SetInterpolationAmount, SetRemoteFramerate, SetMaxBufferSize.
TellEngine == Pushes("nothing")
\* IsPlayback to SetLastReceivedTime. SetTimeoutSeconds and SetConnectTime say that
\* they return a value and push none: their argument is it.
AskTime == Pushes("number")
SetTime(v) == Sets(TimeFields, v) /\ pushed' \in {"nothing", "number"}
\* GetName to SetMaxRoutablePayloadSize.
AskMode == \E what \in {"number", "bool", "string"} : Pushes(what)
SetMode(v) == Sets(ModeFields, v) /\ pushed' = "nothing"
\* subchannel_t; the offsets and numbers of a fragment are kept by stream, and
\* SetSequence, SetState and SetIndex return their argument.
AskSub(s) == Pushes(IF VerifyStream(s) THEN "number" ELSE "nil")
SetSub(s, v) ==
  IF VerifyStream(s) THEN Sets(SubFields, v) /\ pushed' \in {"nothing", "number"} ELSE Pushes("nil")

----------------------------------------------------------------------------
(* dataFragments_t and UCHARPTR. *)

\* _G.dataFragments_t: `new' of a plain structure sets none of its fields.
NewFragments(a) ==
  /\ a \in FragmentAt \ Made
  /\ fragment' = [fragment EXCEPT ![a] = FragmentOf(UNSET, UNSET)]
  /\ pushed' = a
  /\ UNCHANGED <<memory, waitlist, netchan, wild>>

\* Delete leaves the buffer to the script.
DeleteFragments(a) ==
  /\ a \in Made /\ (a \in Queued => "delete queued" \in Reckless)
  /\ fragment' = [fragment EXCEPT ![a] = NULLPTR]
  /\ pushed' = "nothing"
  /\ UNCHANGED <<memory, waitlist, netchan, wild>>

NewBuffer(b) ==
  /\ b \in BufferAt \ memory
  /\ memory' = memory \cup {b}
  /\ pushed' = b
  /\ UNCHANGED <<fragment, waitlist, netchan, wild>>

DeleteBuffer(b) ==
  /\ b \in memory /\ (b \in BuffersOf(Made) => "delete a buffer in use" \in Reckless)
  /\ memory' = memory \ {b}
  /\ pushed' = "nothing"
  /\ UNCHANGED <<fragment, waitlist, netchan, wild>>

\* A userdata, 0 for none, or anything else, which changes nothing
\* (CopyUserDataOrNull). The buffer it had is left to the script, or lost.
SetBuffer(a, arg) ==
  /\ a \in Made
  /\ arg \in BufferAt => arg \in memory /\ (arg \in BuffersOf(Made \ {a}) => "share a buffer" \in Reckless)
  /\ fragment' = IF arg = "other" THEN fragment ELSE [fragment EXCEPT ![a].buffer = arg]
  /\ pushed' = "nothing"
  /\ UNCHANGED <<memory, waitlist, netchan, wild>>

GetBuffer(a) ==
  /\ a \in Made
  /\ pushed' = IF fragment[a].buffer = NULLPTR THEN "nil" ELSE fragment[a].buffer
  /\ wild' = (wild \/ (pushed' \notin memory \cup {"nil", UNSET}))
  /\ UNCHANGED <<fragment, memory, waitlist, netchan>>

\* The other getters, and the setters of the fields fs.
Answers(a) ==
  /\ a \in Made
  /\ pushed' = "number"
  /\ UNCHANGED <<fragment, memory, waitlist, netchan, wild>>
FieldSet(a, fs, v) ==
  /\ a \in Made
  /\ \E f \in fs : fragment' = [fragment EXCEPT ![a][f] = v]
  /\ pushed' = "nothing"
  /\ UNCHANGED <<memory, waitlist, netchan, wild>>

\* The file's handle, name and transfer id; bytes, bits, actualsize and compressed;
\* stream, total, progress and num.
FileField(a, v) == Answers(a) \/ FieldSet(a, FileFields, v)
SizeField(a, v) == Answers(a) \/ FieldSet(a, SizeFields, v)
CountField(a, v) == Answers(a) \/ FieldSet(a, CountFields, v)

ChanNext ==
  \/ \E s \in Streams : Sent(s)
  \/ \E s \in Streams, a \in FragmentAt, b \in BufferAt : EngineQueues(s, a, b)
  \/ \E gone \in BOOLEAN : Cleared(gone)
  \/ Connected
  \/ \E s \in Indices : GetOutgoingQueueSize(s) \/ AskSub(s)
  \/ \E s, i \in Indices : GetOutgoingQueueFragments(s, i)
  \/ \E s \in Indices, a \in FragmentAt : QueueOutgoingFragments(s, a)
  \/ GetPart \/ AskFlow \/ AskPacket \/ TellEngine \/ AskTime \/ AskMode
  \/ \E v \in FieldValues : SetTime(v) \/ SetMode(v) \/ \E s \in Indices : SetSub(s, v)
  \/ \E a \in FragmentAt : NewFragments(a) \/ DeleteFragments(a) \/ GetBuffer(a)
  \/ \E b \in BufferAt : NewBuffer(b) \/ DeleteBuffer(b)
  \/ \E a \in FragmentAt, arg \in BufferAt \cup {NULLPTR, "other"} : SetBuffer(a, arg)
  \/ \E a \in FragmentAt, v \in FieldValues : FileField(a, v) \/ SizeField(a, v) \/ CountField(a, v)

ChanSpec == ChanInit /\ [][ChanNext]_chanVars

----------------------------------------------------------------------------
\* With a script that keeps the rules, no call and no step of the engine reaches
\* memory that is not allocated: what a waiting list holds is alive, is there once
\* and has a buffer of its own or none, however the script's and the engine's
\* queueing, sending and deleting fall together, and what a getter of the queue
\* or of a buffer hands out is alive.
ChannelOwnsItsQueue ==
  /\ ~wild
  /\ Queued \subseteq Made
  /\ Cardinality(Queued) = Len(waitlist[0]) + Len(waitlist[1])
  /\ \A a \in Queued : fragment[a].buffer \in memory \cup {NULLPTR}
  /\ \A a, b \in Queued : a # b /\ fragment[a].buffer = fragment[b].buffer => fragment[a].buffer = NULLPTR
============================================================================
