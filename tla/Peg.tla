-------------------------------- MODULE Peg --------------------------------
(***************************************************************************)
(* What a pattern of lpeg means, without code, stack or tests: the         *)
(* recursive definition of a parsing expression, with ordered choice,      *)
(* greedy repetition and predicates that consume nothing.  The answer is   *)
(* the position after the match and the captures, as trees, in order.      *)
(***************************************************************************)
EXTENDS LpegTree, LpegValue

(* The function of a match-time capture, called at position s of a subject *)
(* of length len: whether it lets the match go on ("yes", "no", "error"),  *)
(* from where, and the values it returns.                                  *)
CONSTANT CallFn(_, _, _)

Answer(ok, s, caps) == [ok |-> ok, s |-> s, caps |-> caps]

No == Answer("no", 0, <<>>)

(* A capture and what is captured inside of it. *)
Captured(kind, key, from, to, inner) ==
  [kind |-> kind, key |-> key, from |-> from, to |-> to, inner |-> inner]

RunTimeValues(fn, s, to) ==
  [i \in DOMAIN fn.vals |-> Captured("runtime", fn.vals[i], to, to, <<>>)]

-----------------------------------------------------------------------------
(* What captures mean, each by itself: the values of those inside of it,   *)
(* in order.  "before" are the complete captures a back reference may      *)
(* refer to: the last ones that are not inside another.                    *)

Good(vals) == [ok |-> TRUE, vals |-> vals]

Bad == [ok |-> FALSE, vals |-> <<>>]

Joined(a, b) == IF a.ok /\ b.ok THEN Good(a.vals \o b.vals) ELSE Bad

Spanned(c, subj) == SubSeq(subj, c.from + 1, c.to)

IsNamed(c) == c.kind = "group" /\ c.key # 0

RECURSIVE MeantOne(_, _, _)

RECURSIVE Meant(_, _, _)
Meant(cs, before, subj) ==
  IF cs = <<>> THEN Good(<<>>)
  ELSE Joined(MeantOne(Head(cs), before, subj),
              Meant(Tail(cs), Append(before, Head(cs)), subj))

(* The values inside of a capture, or the text it matched. *)
Inside(c, before, subj) ==
  LET v == Meant(c.inner, before, subj)
  IN IF v.ok /\ v.vals = <<>> THEN Good(<<Str(Spanned(c, subj))>>) ELSE v

Referred(before, name) ==
  LET named == {i \in DOMAIN before : IsNamed(before[i]) /\ before[i].key = name}
  IN IF named = {} THEN 0 ELSE CHOOSE i \in named : \A j \in named : j <= i

(* The field a capture gives a table: named groups their first value. *)
FieldOf(c, before, subj) ==
  LET v == Inside(c, before, subj) IN IF v.ok THEN Good(<<Head(v.vals)>>) ELSE Bad

RECURSIVE TableMeant(_, _, _, _, _)
TableMeant(cs, before, list, named, subj) ==
  IF cs = <<>> THEN Good(<<Table(list, named)>>)
  ELSE LET c   == Head(cs)
           v   == IF IsNamed(c) THEN FieldOf(c, before, subj) ELSE MeantOne(c, before, subj)
           was == {i \in DOMAIN named : named[i].key = c.key}
           now == [i \in 1..(Len(named) - Cardinality(was)) |->
                     IF \E j \in was : j <= i THEN named[i + 1] ELSE named[i]]
       IN IF ~v.ok THEN Bad
          ELSE IF IsNamed(c)
          THEN TableMeant(Tail(cs), Append(before, c), list,
                          Append(now, [key |-> c.key, value |-> v.vals[1]]), subj)
          ELSE TableMeant(Tail(cs), Append(before, c), list \o v.vals, named, subj)

RECURSIVE FoldMeant(_, _, _, _, _)
FoldMeant(fn, acc, cs, before, subj) ==
  IF cs = <<>> THEN Good(<<acc>>)
  ELSE LET v == MeantOne(Head(cs), before, subj)
       IN IF ~v.ok THEN Bad
          ELSE FoldMeant(fn, Applied(fn, <<acc>> \o v.vals), Tail(cs),
                         Append(before, Head(cs)), subj)

(* The text a capture stands for in a string: its first value. *)
TextMeant(c, before, subj) ==
  LET v == MeantOne(c, before, subj)
  IN IF ~v.ok \/ (v.vals # <<>> /\ ~IsString(v.vals[1])) THEN Bad
     ELSE IF v.vals = <<>> THEN v
     ELSE Good(<<TextOf(v.vals[1])>>)

(* What a format may name: the capture, and what is inside of it, where    *)
(* the inside of simple captures counts too.                               *)
RECURSIVE Nameable(_, _)

RECURSIVE NameableIn(_, _)
NameableIn(cs, before) ==
  IF cs = <<>> THEN <<>>
  ELSE Nameable(Head(cs), before) \o NameableIn(Tail(cs), Append(before, Head(cs)))

Nameable(c, before) ==
  <<[c |-> c, before |-> before]>>
    \o (IF c.kind = "simple" THEN NameableIn(c.inner, before) ELSE <<>>)

RECURSIVE FormatMeant(_, _, _, _)
FormatMeant(items, c, named, subj) ==
  IF items = <<>> THEN Good(<<Str(<<>>)>>)
  ELSE LET i    == Head(items).n
           what == named[i]
           one  == IF Head(items).literal THEN Good(<< <<i>> >>)
                   ELSE IF i = 0 THEN Good(<<Spanned(c, subj)>>)
                   ELSE IF i > Len(named) THEN Bad
                   ELSE IF what.c.kind = "simple" THEN Good(<<Spanned(what.c, subj)>>)
                   ELSE TextMeant(what.c, what.before, subj)
           rest == FormatMeant(Tail(items), c, named, subj)
       IN IF ~one.ok \/ ~rest.ok \/ one.vals = <<>> THEN Bad
          ELSE Good(<<Str(one.vals[1] \o rest.vals[1].text)>>)

(* The text of a substitution: each capture in it replaced by its value. *)
RECURSIVE SubstMeant(_, _, _, _, _)
SubstMeant(from, to, cs, before, subj) ==
  IF cs = <<>> THEN Good(<<Str(SubSeq(subj, from + 1, to))>>)
  ELSE LET c    == Head(cs)
           one  == TextMeant(c, before, subj)
           rest == SubstMeant(IF one.vals = <<>> THEN c.from ELSE c.to, to, Tail(cs),
                              Append(before, c), subj)
           text == IF one.vals = <<>> THEN <<>> ELSE one.vals[1]
       IN IF ~one.ok \/ ~rest.ok THEN Bad
          ELSE Good(<<Str(SubSeq(subj, from + 1, c.from) \o text \o rest.vals[1].text)>>)

MeantOne(c, before, subj) ==
  LET inside == Inside(c, before, subj)
      plain  == Meant(c.inner, before, subj)
      group  == Referred(before, c.key)
      first  == MeantOne(Head(c.inner), before, subj)
  IN CASE c.kind = "position" -> Good(<<Num(c.from + 1)>>)
       [] c.kind \in {"const", "runtime"} -> Good(<<Opaque(c.kind, c.key)>>)
       [] c.kind = "arg" -> IF c.key > NARGS THEN Bad ELSE Good(<<Opaque("arg", c.key)>>)
       [] c.kind = "simple" -> Joined(Good(<<Str(Spanned(c, subj))>>), plain)
       [] c.kind = "group" -> IF IsNamed(c) THEN Good(<<>>) ELSE inside
       [] c.kind = "backref" -> IF group = 0 THEN Bad
                                ELSE Inside(before[group], SubSeq(before, 1, group - 1), subj)
       [] c.kind = "table" -> TableMeant(c.inner, before, <<>>, <<>>, subj)
       [] c.kind = "function" ->
            IF inside.ok THEN Good(<<Applied(c.key, inside.vals)>>) ELSE Bad
       [] c.kind = "num" ->
            IF c.key = 0 THEN Good(<<>>)
            ELSE IF ~inside.ok \/ Len(inside.vals) < c.key THEN Bad
            ELSE Good(<<inside.vals[c.key]>>)
       [] c.kind = "query" ->
            IF ~inside.ok THEN Bad
            ELSE IF ~InTable(Head(inside.vals)) THEN Good(<<>>)
            ELSE Good(<<Applied(c.key, <<Head(inside.vals)>>)>>)
       [] c.kind = "fold" ->
            IF c.inner = <<>> THEN Bad
            ELSE IF ~first.ok \/ first.vals = <<>> THEN Bad
            ELSE FoldMeant(c.key, first.vals[1], Tail(c.inner),
                           Append(before, Head(c.inner)), subj)
       [] c.kind = "string" ->
            FormatMeant(Format(c.key), c, NameableIn(c.inner, before), subj)
       [] c.kind = "subst" -> SubstMeant(c.from, c.to, c.inner, before, subj)

-----------------------------------------------------------------------------

RECURSIVE Match(_, _, _, _)
Match(t, g, s, subj) ==
  CASE IsCharset(t) -> IF s < Len(subj) /\ subj[s + 1] \in tocharset(t)
                       THEN Answer("yes", s + 1, <<>>) ELSE No
    [] t.tag = "True"  -> Answer("yes", s, <<>>)
    [] t.tag = "False" -> No
    [] t.tag = "Seq" ->
         LET a == Match(sib1(t), g, s, subj)
             b == Match(sib2(t), g, a.s, subj)
         IN IF a.ok # "yes" THEN a
            ELSE IF b.ok # "yes" THEN b
            ELSE Answer("yes", b.s, a.caps \o b.caps)
    [] t.tag = "Choice" ->
         LET a == Match(sib1(t), g, s, subj)
         IN IF a.ok = "no" THEN Match(sib2(t), g, s, subj) ELSE a
    [] t.tag = "Rep" ->
         LET a == Match(sib1(t), g, s, subj)
             b == Match(t, g, a.s, subj)
         IN IF a.ok = "no" THEN Answer("yes", s, <<>>)
            ELSE IF a.ok = "error" \/ b.ok = "error" THEN Answer("error", s, <<>>)
            ELSE Answer("yes", b.s, a.caps \o b.caps)
    [] t.tag = "Not" ->
         LET a == Match(sib1(t), g, s, subj)
         IN IF a.ok = "no" THEN Answer("yes", s, <<>>)
            ELSE IF a.ok = "yes" THEN No ELSE a
    [] t.tag = "And" ->
         LET a == Match(sib1(t), g, s, subj)
         IN IF a.ok = "yes" THEN Answer("yes", s, <<>>) ELSE a
    [] t.tag = "Behind" -> IF t.n > s THEN No ELSE Match(sib1(t), g, s - t.n, subj)
    [] t.tag = "Capture" ->
         LET a == Match(sib1(t), g, s, subj)
         IN IF a.ok # "yes" THEN a
            ELSE Answer("yes", a.s, <<Captured(t.cap, t.n, s, a.s, a.caps)>>)
    [] t.tag = "RunTime" ->
         LET a  == Match(sib1(t), g, s, subj)
             fn == CallFn(t.n, a.s, Len(subj))
         IN IF a.ok # "yes" THEN a
            ELSE IF ~Meant(a.caps, <<>>, subj).ok THEN Answer("error", 0, <<>>)
            ELSE IF fn.ok # "yes" THEN Answer(fn.ok, 0, <<>>)
            ELSE Answer("yes", fn.to,
                        IF fn.vals = <<>> THEN <<>>
                        ELSE <<Captured("group", 0, s, fn.to, RunTimeValues(fn, s, fn.to))>>)
    [] t.tag = "Grammar" -> Match(sib1(t), t.sib, s, subj)
    [] t.tag = "Call"    -> Match(g[t.n], g, s, subj)
=============================================================================
