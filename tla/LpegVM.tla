------------------------------- MODULE LpegVM -------------------------------
(***************************************************************************)
(* The matching machine of lpeg (lpvm.c): one action for each instruction, *)
(* over a stack of choices and pending calls and a list of captures.       *)
(*                                                                         *)
(* A behaviour is one call of lp_match: it takes a pattern, compiles it,   *)
(* and runs the code on a subject.  A position is the number of characters *)
(* before it.  dyn are the values of match-time captures on the Lua stack, *)
(* which ndyncap is meant to count.                                        *)
(***************************************************************************)
EXTENDS LpegCode, LpegCap, Peg

CONSTANTS Patterns,     \* trees, as the Lua operators built them
          Subjects,     \* sequences of characters
          Starts,       \* the "init" arguments of match
          INITBACK,     \* the entries of the stack before it grows
          MAXBACK,      \* the entries it may grow to
          UCHAR_MAX     \* the longest match a full capture can record, plus 1

VARIABLES patt, subj, start,      \* the arguments of match
          prog,                   \* what the pattern is compiled to
          p, s,                   \* the instruction and the position
          stack, limit,           \* choices and pending calls, and the room for them
          capture,                \* the list of captures
          dyn, ndyncap,           \* values on the Lua stack, and their count
          result, values          \* the end of the call, and what it returns

args == <<patt, subj, start, prog>>
vars == <<patt, subj, start, prog, p, s, stack, limit, capture, dyn, ndyncap, result, values>>

NULL == -1

Code == prog.code

OnLua == [subj |-> subj, dyn |-> dyn]

Entry(to, pos, level) == [p |-> to, s |-> pos, caplevel |-> level]

GiveUp == 0

initposition(ii, len) ==
  IF ii > 0 THEN (IF ii <= len THEN ii - 1 ELSE len)
  ELSE IF -ii <= len THEN len + ii ELSE 0

Init ==
  /\ patt \in Patterns
  /\ prog = prepcompile(patt)
  /\ subj \in Subjects
  /\ start \in Starts
  /\ p = 1
  /\ s = initposition(start, Len(subj))
  /\ stack = <<Entry(GiveUp, s, 0)>>
  /\ limit = INITBACK
  /\ capture = <<>>
  /\ dyn = <<>> /\ ndyncap = 0
  /\ result = "running" /\ values = <<>>

-----------------------------------------------------------------------------

At(op) == result = "running" /\ p # GiveUp /\ Code[p].op = op

Top == stack[Len(stack)]

Popped == SubSeq(stack, 1, Len(stack) - 1)

Label == p + Code[p + 1].aux

SeesOneOf(cs) == s < Len(subj) /\ subj[s + 1] \in cs

(* How many values go from the Lua stack with the captures caps.           *)
removedyncap(caps, vals) ==
  LET id == finddyncap(caps) IN IF id = 0 THEN 0 ELSE Len(vals) - id + 1

(* Back to the last choice: pending calls above it are dropped, and the    *)
(* captures made since, with their values on the Lua stack.                *)
Backtrack(stk, caps, vals) ==
  LET k    == CHOOSE i \in DOMAIN stk :
                /\ stk[i].s # NULL
                /\ \A j \in DOMAIN stk : j > i => stk[j].s = NULL
      kept == stk[k].caplevel
      gone == IF ndyncap > 0 THEN removedyncap(SubSeq(caps, kept + 1, Len(caps)), vals) ELSE 0
  IN /\ p' = stk[k].p
     /\ s' = stk[k].s
     /\ stack' = SubSeq(stk, 1, k - 1)
     /\ capture' = SubSeq(caps, 1, kept)
     /\ dyn' = SubSeq(vals, 1, Len(vals) - gone)
     /\ ndyncap' = ndyncap - gone

Fails == Backtrack(stack, capture, dyn) /\ UNCHANGED <<args, limit, result, values>>

Goes(to, pos) ==
  /\ p' = to /\ s' = pos
  /\ UNCHANGED <<args, stack, limit, capture, dyn, ndyncap, result, values>>

Consume(op, cs, size) ==
  /\ At(op)
  /\ IF SeesOneOf(cs) THEN Goes(p + size, s + 1) ELSE Fails

Test(op, cs, size) ==
  /\ At(op)
  /\ Goes(IF SeesOneOf(cs) THEN p + size ELSE Label, s)

AnyOp == Consume("Any", Chars, 1)

CharOp == At("Char") /\ Consume("Char", {Code[p].aux}, 1)

SetOp == At("Set") /\ Consume("Set", Code[p + 1].cs, CHARSETINSTSIZE)

TestAnyOp == Test("TestAny", Chars, 2)

TestCharOp == At("TestChar") /\ Test("TestChar", {Code[p].aux}, 2)

TestSetOp == At("TestSet") /\ Test("TestSet", Code[p + 2].cs, 1 + CHARSETINSTSIZE)

Behind ==
  /\ At("Behind")
  /\ IF Code[p].aux > s THEN Fails ELSE Goes(p + 1, s - Code[p].aux)

Span ==
  /\ At("Span")
  /\ LET cs   == Code[p + 1].cs
         ends == {i \in s..Len(subj) : \A j \in (s + 1)..i : subj[j] \in cs}
     IN Goes(p + CHARSETINSTSIZE, CHOOSE i \in ends : \A j \in ends : j <= i)

Jmp == At("Jmp") /\ Goes(Label, s)

Stops(what) ==
  /\ result' = what
  /\ UNCHANGED <<args, p, s, stack, limit, capture, dyn, ndyncap, values>>

(* The stack doubles when it is full, up to the maximum. *)
Push(entry, to) ==
  IF Len(stack) = limit /\ limit >= MAXBACK
  THEN Stops("too many pending calls/choices")
  ELSE /\ stack' = Append(stack, entry)
       /\ limit' = IF Len(stack) < limit THEN limit
                   ELSE IF 2 * limit > MAXBACK THEN MAXBACK ELSE 2 * limit
       /\ p' = to
       /\ UNCHANGED <<args, s, capture, dyn, ndyncap, result, values>>

Choice == At("Choice") /\ Push(Entry(Label, s, Len(capture)), p + 2)

Call == At("Call") /\ Push(Entry(p + 2, NULL, 0), Label)

Ret ==
  /\ At("Ret")
  /\ p' = Top.p
  /\ stack' = Popped
  /\ UNCHANGED <<args, s, limit, capture, dyn, ndyncap, result, values>>

Commit ==
  /\ At("Commit")
  /\ p' = Label
  /\ stack' = Popped
  /\ UNCHANGED <<args, s, limit, capture, dyn, ndyncap, result, values>>

PartialCommit ==
  /\ At("PartialCommit")
  /\ p' = Label
  /\ stack' = Append(Popped, Entry(Top.p, s, Len(capture)))
  /\ UNCHANGED <<args, s, limit, capture, dyn, ndyncap, result, values>>

(* The captures are dropped, their values on the Lua stack are not. *)
BackCommit ==
  /\ At("BackCommit")
  /\ p' = Label
  /\ s' = Top.s
  /\ stack' = Popped
  /\ capture' = SubSeq(capture, 1, Top.caplevel)
  /\ UNCHANGED <<args, limit, dyn, ndyncap, result, values>>

FailTwice ==
  /\ At("FailTwice")
  /\ Backtrack(Popped, capture, dyn)
  /\ UNCHANGED <<args, limit, result, values>>

FailOp == At("Fail") /\ Fails
-----------------------------------------------------------------------------
(* Captures. *)

PushCapture(cap) ==
  /\ capture' = Append(capture, cap)
  /\ p' = p + 1
  /\ UNCHANGED <<args, s, stack, limit, dyn, ndyncap, result, values>>

OpenCapture ==
  At("OpenCapture") /\ PushCapture(Cap(Code[p].cap, Code[p].key, s, 0))

FullCapture ==
  /\ At("FullCapture")
  /\ PushCapture(Cap(Code[p].cap, Code[p].key, s - Code[p].aux, Code[p].aux + 1))

CloseCapture ==
  /\ At("CloseCapture")
  /\ LET top  == Len(capture)
         last == capture[top]
     IN IF last.siz = 0 /\ s - last.s < UCHAR_MAX
        THEN /\ capture' = [capture EXCEPT ![top].siz = s - last.s + 1]
             /\ p' = p + 1
             /\ UNCHANGED <<args, s, stack, limit, dyn, ndyncap, result, values>>
        ELSE PushCapture(Cap("close", Code[p].key, s, 1))

(* What a match-time capture gives to its function.                        *)
runtimecap(open) ==
  LET all == Append(capture, Cap("close", 0, s, 1))
  IN pushnestedvalues(all, open, FALSE, WithValues(all, OnLua))

(* A bug: the values are taken to lie one place lower than they do.        *)
adddyncaptures_Below(open, fn, n) ==
  IF fn.vals = <<>> THEN <<>>
  ELSE <<Cap("group", 0, capture[open].s, 0)>>
       \o [i \in DOMAIN fn.vals |-> Cap("runtime", n + i - 1, fn.to, 1)]
       \o <<Cap("close", 0, fn.to, 1)>>

(* Its values become a group; n values of others lie below them.           *)
adddyncaptures(open, fn, n) ==
  IF fn.vals = <<>> THEN <<>>
  ELSE <<Cap("group", 0, capture[open].s, 0)>>
       \o [i \in DOMAIN fn.vals |-> Cap("runtime", n + i, fn.to, 1)]
       \o <<Cap("close", 0, fn.to, 1)>>

(* Calls the function; its values replace those of the match-time captures *)
(* nested in this one.  When it lets the match fail, those are off the Lua *)
(* stack already, but not off the count.                                   *)
CloseRunTime ==
  /\ At("CloseRunTime")
  /\ LET open  == findopen(capture, Len(capture), 0)
         given == runtimecap(open)
         fn    == CallFn(capture[open].key, s, Len(subj))
         rem   == removedyncap(SubSeq(capture, open, Len(capture)), dyn)
         vals  == SubSeq(dyn, 1, Len(dyn) - rem)
         caps  == SubSeq(capture, 1, open - 1)
     IN \/ given.error /\ Stops("error in a capture")
        \/ /\ ~given.error /\ fn.ok = "error"
           /\ Stops("invalid position returned by match-time capture")
        \/ /\ ~given.error /\ fn.ok = "no"
           /\ Backtrack(stack, caps, vals)
           /\ UNCHANGED <<args, limit, result, values>>
        \/ /\ ~given.error /\ fn.ok = "yes"
           /\ s' = fn.to
           /\ p' = p + 1
           /\ dyn' = vals \o fn.vals
           /\ ndyncap' = ndyncap + Len(fn.vals) - rem
           /\ capture' = caps \o adddyncaptures(open, fn, Len(vals))
           /\ UNCHANGED <<args, stack, limit, result, values>>

-----------------------------------------------------------------------------

(* lp_match goes on to evaluate the captures. *)
Returns(got) ==
  /\ result' = IF got.error THEN "error in a capture" ELSE "match"
  /\ values' = got.vals

End ==
  /\ At("End")
  /\ Returns(getcaptures(capture, s, OnLua))
  /\ UNCHANGED <<args, p, s, stack, limit, capture, dyn, ndyncap>>

Giveup ==
  /\ result = "running" /\ p = GiveUp
  /\ Stops("nil")

Step ==
  \/ AnyOp \/ CharOp \/ SetOp \/ TestAnyOp \/ TestCharOp \/ TestSetOp
  \/ Span \/ Behind \/ Jmp \/ Choice \/ Call \/ Ret \/ Commit
  \/ PartialCommit \/ BackCommit \/ FailTwice \/ FailOp
  \/ OpenCapture \/ FullCapture \/ CloseCapture \/ CloseRunTime
  \/ End \/ Giveup

Spec == Init /\ [][Step]_vars
-----------------------------------------------------------------------------
Meaning == Match(finalfix(patt, <<>>), <<>>, initposition(start, Len(subj)), subj)

MeaningOfCaptures == Meant(Meaning.caps, <<>>, subj)

(* Type correctness: the machine is at an instruction, the position is     *)
(* inside the subject, and the stack keeps within the room for it.         *)
TypeOK ==
  /\ p \in {GiveUp} \cup DOMAIN Code
  /\ p # GiveUp => Code[p].op \notin {"offset", "buffer", "OpenCall"}
  /\ s \in 0..Len(subj)
  /\ Len(stack) <= limit
  /\ limit <= MAXBACK \/ limit = INITBACK
  /\ \A i \in DOMAIN stack : stack[i].s \in {NULL} \cup (0..Len(subj))
  /\ \A i \in DOMAIN capture : capture[i].s \in 0..Len(subj)

(* lp_match answers what the pattern means: it matches, fails or raises an *)
(* error when the parsing expression does, and ends at the same position,  *)
(* whatever tests and jumps the code generator has put in (lpcode.c).      *)
AnswerIsMeaning ==
  /\ result = "match" => Meaning.ok = "yes" /\ Meaning.s = s
  /\ result = "nil"   => Meaning.ok = "no"
  /\ result = "invalid position returned by match-time capture" => Meaning.ok = "error"
  /\ result = "error in a capture" =>
       Meaning.ok = "error" \/ (Meaning.ok = "yes" /\ ~MeaningOfCaptures.ok)

(* The values match returns are those the captures mean: what the cursor   *)
(* of lpcap.c finds in the flat list is what is inside of each capture,    *)
(* and a back reference finds the last complete group of its name.         *)
ValuesAreMeaning ==
  result = "match" =>
    /\ MeaningOfCaptures.ok
    /\ values = IF MeaningOfCaptures.vals = <<>> THEN <<Num(s + 1)>>
                ELSE MeaningOfCaptures.vals

(* The assertions of lpvm.c on the stack: a return finds a call on top, a  *)
(* commit a choice; the end finds only the entry the match began with, and *)
(* giving up finds none.  A close finds its open entry.                    *)
StackAsserted ==
  /\ At("Ret") => Len(stack) > 0 /\ Top.s = NULL
  /\ At("Commit") \/ At("PartialCommit") \/ At("BackCommit")
       => Len(stack) > 0 /\ Top.s # NULL
  /\ At("FailTwice") => Len(stack) > 1
  /\ At("End") => Len(stack) = 1
  /\ p = GiveUp => stack = <<>>
  /\ At("CloseCapture") \/ At("CloseRunTime") => \E i \in DOMAIN capture : capture[i].siz = 0

(* The assertion at the head of the loop of match (lpvm.c:165): ndyncap is *)
(* the number of values of match-time captures on the Lua stack, and there *)
(* are not more of them than captures.  It does not hold: BackCommit drops *)
(* captures and leaves their values, and a match-time capture that fails   *)
(* leaves the values it has taken off the stack in the count.              *)
DynamicsCounted ==
  result = "running" => ndyncap = Len(dyn) /\ ndyncap <= Len(capture)

(* What holds all the same, and is what the count is for: every match-time *)
(* capture of the list finds its value on the Lua stack, the values lie in *)
(* the order of the captures, also above those that BackCommit left, and   *)
(* the count is never too small for a failure to take them off again.      *)
DynamicsHeld ==
  LET runtime == {i \in DOMAIN capture : capture[i].kind = "runtime"}
  IN /\ Len(dyn) <= ndyncap
     /\ \A i \in runtime : capture[i].key \in DOMAIN dyn
     /\ \A i, j \in runtime : i < j => capture[i].key < capture[j].key

(* The entries of the machine's stack and the values on Lua's are those    *)
(* the instructions take them for, however matches fail and go on: the     *)
(* assertions on the stack, and DynamicsHeld in place of DynamicsCounted.  *)
StacksHold == StackAsserted /\ DynamicsHeld

=============================================================================
