------------------------------ MODULE LpegCode ------------------------------
(***************************************************************************)
(* The code generator of lpeg (lpcode.c).  Code is a sequence of slots, as *)
(* wide as an Instruction: an instruction, an offset, or a piece of a      *)
(* charset.  An offset is relative to the slot of its instruction.         *)
(*                                                                         *)
(* tt is the slot of a test that has succeeded on the character the code   *)
(* starts at, or NOINST; fl is the set of characters that can follow; opt  *)
(* says that a Choice that jumps to the end of this code is on the stack.  *)
(***************************************************************************)
EXTENDS LpegTree

CONSTANTS MAXOFF,        \* the longest match of a FullCapture
          BufferSlots    \* the slots of a charset

ASSUME LpegCodeAssumption == MAXOFF \in Nat /\ BufferSlots \in Nat \ {0}

NOINST == 0

Slot(op, aux, key, cap, cs) ==
  [op |-> op, aux |-> aux, key |-> key, cap |-> cap, cs |-> cs]

Inst(op, aux) == Slot(op, aux, 0, "none", {})

Offset(off) == Inst("offset", off)

Charset(cs) == [i \in 1..BufferSlots |-> Slot("buffer", 0, 0, "none", cs)]

Opcodes ==
  << "Any", "Char", "Set", "TestAny", "TestChar", "TestSet", "Span", "Behind",
     "Ret", "End", "Choice", "Jmp", "Call", "OpenCall", "Commit",
     "PartialCommit", "BackCommit", "FailTwice", "Fail", "Giveup",
     "FullCapture", "OpenCapture", "CloseCapture", "CloseRunTime" >>

(* What a slot is taken for when it is read as an instruction: its first   *)
(* byte is the opcode.  A charset without Other has no characters in that  *)
(* byte, one with Other has all of them.                                   *)
OpcodeAt(slot) ==
  CASE slot.op = "offset" -> IF slot.aux % 256 < Len(Opcodes)
                             THEN Opcodes[(slot.aux % 256) + 1] ELSE "none"
    [] slot.op = "buffer" -> IF Other \in slot.cs THEN "none" ELSE "Any"
    [] OTHER -> slot.op

CHARSETINSTSIZE == 1 + BufferSlots

sizei(op) ==
  CASE op \in {"Set", "Span"} -> CHARSETINSTSIZE
    [] op = "TestSet" -> CHARSETINSTSIZE + 1
    [] op \in {"TestChar", "TestAny", "Choice", "Jmp", "Call", "OpenCall",
               "Commit", "PartialCommit", "BackCommit"} -> 2
    [] OTHER -> 1

addinstruction(code, op, aux) == Append(code, Inst(op, aux))

addoffsetinst(code, op) == code \o <<Inst(op, 0), Offset(0)>>

addinstcap(code, op, cap, key, off) == Append(code, Slot(op, off, key, cap, {}))

gethere(code) == Len(code) + 1

jumptothere(code, i, target) ==
  IF i = NOINST THEN code ELSE [code EXCEPT ![i + 1] = Offset(target - i)]

jumptohere(code, i) == jumptothere(code, i, gethere(code))

charsettype(cs) ==
  CASE cs = {}    -> "Fail"
    [] cs = Chars -> "Any"
    [] \E c \in Chars \ {Other} : cs = {c} -> "Char"
    [] OTHER      -> "Set"

TheChar(cs) == CHOOSE c \in cs : TRUE

codechar(code, c, tt) ==
  IF tt # NOINST /\ code[tt].op = "TestChar" /\ code[tt].aux = c
  THEN addinstruction(code, "Any", 0)
  ELSE addinstruction(code, "Char", c)

codecharset(code, cs, tt) ==
  LET op == charsettype(cs)
  IN CASE op = "Char" -> codechar(code, TheChar(cs), tt)
       [] op = "Set"  -> IF tt # NOINST /\ code[tt].op = "TestSet" /\ code[tt + 2].cs = cs
                         THEN addinstruction(code, "Any", 0)
                         ELSE addinstruction(code, "Set", 0) \o Charset(cs)
       [] OTHER -> addinstruction(code, op, 0)

(* The code with a test for the set, and where the test is: none when the  *)
(* pattern accepts the empty string.                                       *)
codetestset(code, cs, e) ==
  LET op == charsettype(cs)
      at == gethere(code)
  IN IF e # {} THEN [code |-> code, at |-> NOINST]
     ELSE [at |-> at,
           code |-> CASE op = "Fail" -> addoffsetinst(code, "Jmp")
                      [] op = "Any"  -> addoffsetinst(code, "TestAny")
                      [] op = "Char" -> code \o <<Inst("TestChar", TheChar(cs)), Offset(0)>>
                      [] op = "Set"  -> addoffsetinst(code, "TestSet") \o Charset(cs)]

RECURSIVE finaltarget(_, _)
finaltarget(code, i) ==
  IF code[i].op = "Jmp" THEN finaltarget(code, i + code[i + 1].aux) ELSE i

finallabel(code, i) == finaltarget(code, i + code[i + 1].aux)

-----------------------------------------------------------------------------

RECURSIVE codegen(_, _, _, _, _, _)

codebehind(code, t, g) ==
  codegen(addinstruction(code, "Behind", t.n), sib1(t), FALSE, NOINST, Chars, g)

cs_disjoint(a, b) == a \cap b = {}

(* A bug: that p1 accepts the empty string is not asked. *)
TestIsEnough_Empty(p1, first, follow, g) ==
  headfail(p1, g) \/ cs_disjoint(first.cs, follow)

(* The test is enough when p1 fails on its first character or not at all,  *)
(* or when no character starts both p1 and p2.                             *)
TestIsEnough(p1, first, follow, g) ==
  headfail(p1, g) \/ (first.e = {} /\ cs_disjoint(first.cs, follow))

codechoice(code, p1, p2, opt, fl, g) ==
  LET emptyp2 == p2.tag = "True"
      f1 == getfirst(p1, Chars, g)
  IN IF TestIsEnough(p1, f1, getfirst(p2, fl, g).cs, g)
     THEN LET test == codetestset(code, f1.cs, {})
              c1   == codegen(test.code, p1, FALSE, test.at, fl, g)
              jmp  == IF emptyp2 THEN NOINST ELSE gethere(c1)
              c2   == IF emptyp2 THEN c1 ELSE addoffsetinst(c1, "Jmp")
              c3   == codegen(jumptohere(c2, test.at), p2, opt, NOINST, fl, g)
          IN jumptohere(c3, jmp)
     ELSE IF opt /\ emptyp2
     THEN codegen(jumptohere(addoffsetinst(code, "PartialCommit"), gethere(code)),
                  p1, TRUE, NOINST, Chars, g)
     ELSE LET test    == codetestset(code, f1.cs, f1.e)
              pchoice == gethere(test.code)
              c1      == codegen(addoffsetinst(test.code, "Choice"),
                                 p1, emptyp2, test.at, Chars, g)
              pcommit == gethere(c1)
              c2      == addoffsetinst(c1, "Commit")
              c3      == codegen(jumptohere(jumptohere(c2, pchoice), test.at),
                                 p2, opt, NOINST, fl, g)
          IN jumptohere(c3, pcommit)

codeand(code, t, tt, g) ==
  LET n == fixedlen(t, g)
  IN IF n >= 0 /\ n <= MAXBEHIND /\ ~hascaptures(t)
     THEN LET c == codegen(code, t, FALSE, tt, Chars, g)
          IN IF n > 0 THEN addinstruction(c, "Behind", n) ELSE c
     ELSE LET pchoice == gethere(code)
              c1      == codegen(addoffsetinst(code, "Choice"), t, FALSE, tt, Chars, g)
              pcommit == gethere(c1)
              c2      == jumptohere(addoffsetinst(c1, "BackCommit"), pchoice)
          IN jumptohere(addinstruction(c2, "Fail", 0), pcommit)

codecapture(code, t, tt, fl, g) ==
  LET len == fixedlen(sib1(t), g)
  IN IF len >= 0 /\ len <= MAXOFF /\ ~hascaptures(sib1(t))
     THEN addinstcap(codegen(code, sib1(t), FALSE, tt, fl, g),
                     "FullCapture", t.cap, t.n, len)
     ELSE addinstcap(codegen(addinstcap(code, "OpenCapture", t.cap, t.n, 0),
                             sib1(t), FALSE, tt, fl, g),
                     "CloseCapture", "close", 0, 0)

coderuntime(code, t, tt, g) ==
  addinstcap(codegen(addinstcap(code, "OpenCapture", "group", t.n, 0),
                     sib1(t), FALSE, tt, Chars, g),
             "CloseRunTime", "close", 0, 0)

coderep(code, t, opt, fl, g) ==
  LET f == getfirst(t, Chars, g)
  IN IF IsCharset(t) THEN addinstruction(code, "Span", 0) \o Charset(tocharset(t))
     ELSE IF TestIsEnough(t, f, fl, g)
     THEN LET test == codetestset(code, f.cs, {})
              c1   == codegen(test.code, t, opt, test.at, Chars, g)
              jmp  == gethere(c1)
          IN jumptothere(jumptohere(addoffsetinst(c1, "Jmp"), test.at), jmp, test.at)
     ELSE LET test    == codetestset(code, f.cs, f.e)
              at      == gethere(test.code)
              pchoice == IF opt THEN NOINST ELSE at
              c1      == IF opt THEN jumptohere(addoffsetinst(test.code, "PartialCommit"), at)
                         ELSE addoffsetinst(test.code, "Choice")
              l2      == gethere(c1)
              c2      == codegen(c1, t, FALSE, NOINST, Chars, g)
              commit  == gethere(c2)
              c3      == jumptothere(addoffsetinst(c2, "PartialCommit"), commit, l2)
          IN jumptohere(jumptohere(c3, pchoice), test.at)

codenot(code, t, g) ==
  LET f    == getfirst(t, Chars, g)
      test == codetestset(code, f.cs, f.e)
      at   == gethere(test.code)
      c1   == IF headfail(t, g) THEN addinstruction(test.code, "Fail", 0)
              ELSE jumptohere(
                     addinstruction(
                       codegen(addoffsetinst(test.code, "Choice"), t, FALSE, NOINST, Chars, g),
                       "FailTwice", 0),
                     at)
  IN jumptohere(c1, test.at)

codecall(code, t) == code \o <<Slot("OpenCall", 0, t.n, "none", {}), Offset(0)>>

(* A call followed by a return becomes a jump. *)
RECURSIVE correctcalls(_, _, _, _)
correctcalls(code, positions, i, to) ==
  IF i >= to THEN code
  ELSE LET tail == code[finaltarget(code, i + 2)].op = "Ret"
           c == IF code[i].op = "OpenCall"
                THEN jumptothere([code EXCEPT ![i].op = IF tail THEN "Jmp" ELSE "Call"],
                                 i, positions[code[i].key])
                ELSE code
       IN correctcalls(c, positions, i + sizei(code[i].op), to)

RECURSIVE coderules(_, _, _, _)
coderules(code, positions, i, g) ==
  IF i > Len(g) THEN [code |-> code, positions |-> positions]
  ELSE coderules(addinstruction(codegen(code, g[i], FALSE, NOINST, Chars, g), "Ret", 0),
                 Append(positions, gethere(code)), i + 1, g)

codegrammar(code, t) ==
  LET firstcall == gethere(code)
      jumptoend == firstcall + 2
      c1        == addoffsetinst(addoffsetinst(code, "Call"), "Jmp")
      start     == gethere(c1)
      rules     == coderules(jumptohere(c1, firstcall), <<>>, 1, t.sib)
  IN correctcalls(jumptohere(rules.code, jumptoend), rules.positions,
                  start, gethere(rules.code))

(* The second part of a sequence is protected by the test only when the    *)
(* first part consumes nothing.                                            *)
codeseq(code, t, opt, tt, fl, g) ==
  LET p1  == sib1(t)
      p2  == sib2(t)
      fl1 == IF needfollow(p1) THEN getfirst(p2, fl, g).cs ELSE Chars
      tt2 == IF fixedlen(p1, g) # 0 THEN NOINST ELSE tt
  IN codegen(codegen(code, p1, FALSE, tt, fl1, g), p2, opt, tt2, fl, g)

codegen(code, t, opt, tt, fl, g) ==
  CASE t.tag = "Char"    -> codechar(code, t.n, tt)
    [] t.tag = "Any"     -> addinstruction(code, "Any", 0)
    [] t.tag = "Set"     -> codecharset(code, t.cs, tt)
    [] t.tag = "True"    -> code
    [] t.tag = "False"   -> addinstruction(code, "Fail", 0)
    [] t.tag = "Choice"  -> codechoice(code, sib1(t), sib2(t), opt, fl, g)
    [] t.tag = "Rep"     -> coderep(code, sib1(t), opt, fl, g)
    [] t.tag = "Behind"  -> codebehind(code, t, g)
    [] t.tag = "Not"     -> codenot(code, sib1(t), g)
    [] t.tag = "And"     -> codeand(code, sib1(t), tt, g)
    [] t.tag = "Capture" -> codecapture(code, t, tt, fl, g)
    [] t.tag = "RunTime" -> coderuntime(code, t, tt, g)
    [] t.tag = "Grammar" -> codegrammar(code, t)
    [] t.tag = "Call"    -> codecall(code, t)
    [] t.tag = "Seq"     -> codeseq(code, t, opt, tt, fl, g)

-----------------------------------------------------------------------------
(* The last pass: labels go to their final destinations, and a jump to an  *)
(* instruction that jumps becomes that instruction.  After that the loop   *)
(* steps back one slot, to look at the new instruction again, and goes on  *)
(* by the size of whatever the slot before it is taken for.  "at" is where *)
(* the loop stopped; 0 if it read a slot that is no instruction as one     *)
(* with a label, from which on anything may have been overwritten.         *)

Labelled == {"Choice", "Call", "Commit", "PartialCommit", "BackCommit",
             "TestChar", "TestSet", "TestAny"}

Explicit == {"Commit", "PartialCommit", "BackCommit"}

Implicit == {"Ret", "Fail", "FailTwice", "End"}

(* A bug: any jump to an instruction that ends is taken to be a return. *)
JumpFrom_Return(code, i) ==
  LET ft == finaltarget(code, i)
      op == code[ft].op
  IN IF op \in Implicit \cup Explicit
     THEN [code EXCEPT ![i] = code[ft], ![i + 1] = Inst("Any", 0)]
     ELSE jumptothere(code, i, ft)

JumpFrom(code, i) ==
  LET ft == finaltarget(code, i)
      op == code[ft].op
  IN CASE op \in Implicit -> [code EXCEPT ![i] = code[ft], ![i + 1] = Inst("Any", 0)]
       [] op \in Explicit -> jumptothere([code EXCEPT ![i] = code[ft]], i, finallabel(code, ft))
       [] OTHER -> jumptothere(code, i, ft)

RECURSIVE peephole(_, _)
peephole(code, i) ==
  LET op == OpcodeAt(code[i])
      c  == CASE op \in Labelled -> jumptothere(code, i, finallabel(code, i))
              [] op = "Jmp"      -> JumpFrom(code, i)
              [] OTHER           -> code
      back == IF op = "Jmp" /\ c[i].op \in Explicit THEN i - 1 ELSE i
  IN IF i > Len(code) THEN [code |-> code, at |-> i]
     ELSE IF op \in Labelled \cup {"Jmp"} /\ (code[i].op # op \/ back = 0)
     THEN [code |-> code, at |-> 0]
     ELSE peephole(c, back + sizei(OpcodeAt(c[back])))

compile(t) ==
  peephole(addinstruction(codegen(<<>>, t, FALSE, NOINST, Chars, <<>>), "End", 0), 1)

prepcompile(t) == compile(finalfix(t, <<>>))
=============================================================================
