------------------------------ MODULE LpegTree ------------------------------
(***************************************************************************)
(* The patterns of lpeg: the trees the Lua operators build (lptree.c), the *)
(* analyses the code generator relies on (the first part of lpcode.c) and  *)
(* the checks a grammar must pass before it may run.                       *)
(*                                                                         *)
(* A character is a member of Chars.  Other stands for the characters that *)
(* no pattern names: a set that holds it is never a singleton.  A tree is  *)
(* a record; "sib" holds its siblings, for a grammar the bodies of its     *)
(* rules, and "n" its number: the character, the length to look behind,    *)
(* the rule called or the value a capture refers to.  In the code a call   *)
(* points at its rule; here the rules of the enclosing grammar are passed  *)
(* down as g.                                                              *)
(***************************************************************************)
EXTENDS Integers, Sequences, FiniteSets, SequencesExt

CONSTANTS Chars,        \* the characters, 1..UCHAR_MAX in miniature
          Other,        \* stands for the characters no pattern names
          MAXRULES,     \* the most rules of a grammar
          MAXBEHIND     \* the farthest a pattern may look behind

ASSUME LpegTreeAssumption ==
  /\ Other \in Chars
  /\ Chars \subseteq Nat
  /\ MAXRULES \in Nat \ {0}
  /\ MAXBEHIND \in Nat

Tree(tag, sib, n, cs, cap) ==
  [tag |-> tag, sib |-> sib, n |-> n, cs |-> cs, cap |-> cap]

Leaf(tag) == Tree(tag, <<>>, 0, {}, "none")

Node(tag, sib) == Tree(tag, sib, 0, {}, "none")

TChar(c) == Tree("Char", <<>>, c, {}, "none")

TSet(cs) == Tree("Set", <<>>, 0, cs, "none")

TTrue == Leaf("True")

TFalse == Leaf("False")

Fail == Leaf("Error")          \* the Lua operator raised an error

sib1(t) == t.sib[1]

sib2(t) == t.sib[2]

-----------------------------------------------------------------------------
(* Analyses of lpcode.c. *)

cs_complement(cs) == Chars \ cs

IsCharset(t) == t.tag \in {"Char", "Set", "Any"}

tocharset(t) ==
  CASE t.tag = "Set"  -> t.cs
    [] t.tag = "Char" -> {t.n}
    [] t.tag = "Any"  -> Chars

(* A call has no siblings, so the captures of the rule it names are not    *)
(* looked for.                                                             *)
RECURSIVE hascaptures(_)
hascaptures(t) ==
  \/ t.tag \in {"Capture", "RunTime"}
  \/ \E i \in DOMAIN t.sib : hascaptures(t.sib[i])

RECURSIVE checkaux(_, _, _)
checkaux(t, pred, g) ==
  CASE t.tag \in {"Char", "Set", "Any", "False", "OpenCall"} -> FALSE
    [] t.tag \in {"Rep", "True"}     -> TRUE
    [] t.tag \in {"Not", "Behind"}   -> pred = "nullable"
    [] t.tag = "And"     -> pred = "nullable" \/ checkaux(sib1(t), pred, g)
    [] t.tag = "RunTime" -> pred = "nullable" /\ checkaux(sib1(t), pred, g)
    [] t.tag = "Seq"     -> checkaux(sib1(t), pred, g) /\ checkaux(sib2(t), pred, g)
    [] t.tag = "Choice"  -> checkaux(sib2(t), pred, g) \/ checkaux(sib1(t), pred, g)
    [] t.tag = "Capture" -> checkaux(sib1(t), pred, g)
    [] t.tag = "Grammar" -> checkaux(sib1(t), pred, t.sib)
    [] t.tag = "Call"    -> checkaux(g[t.n], pred, g)

nullable(t, g) == checkaux(t, "nullable", g)

nofail(t, g) == checkaux(t, "nofail", g)

(* -1 when the length varies; "count" is the number of calls gone through. *)
RECURSIVE fixedlenx(_, _, _, _)
fixedlenx(t, count, len, g) ==
  CASE IsCharset(t) -> len + 1
    [] t.tag \in {"False", "True", "Not", "And", "Behind"} -> len
    [] t.tag \in {"Rep", "RunTime", "OpenCall"} -> -1
    [] t.tag = "Capture" -> fixedlenx(sib1(t), count, len, g)
    [] t.tag = "Grammar" -> fixedlenx(sib1(t), count, len, t.sib)
    [] t.tag = "Call" -> IF count >= MAXRULES THEN -1
                         ELSE fixedlenx(g[t.n], count + 1, len, g)
    [] t.tag = "Seq" -> LET l == fixedlenx(sib1(t), count, len, g)
                        IN IF l < 0 THEN -1 ELSE fixedlenx(sib2(t), count, l, g)
    [] t.tag = "Choice" -> LET n1 == fixedlenx(sib1(t), count, len, g)
                               n2 == fixedlenx(sib2(t), count, len, g)
                           IN IF n1 = n2 THEN n1 ELSE -1

fixedlen(t, g) == fixedlenx(t, 0, 0, g)

(* The set of characters a match may begin with, and why a test of it      *)
(* cannot replace the pattern: it accepts the empty string ("empty"), or   *)
(* it calls a function at match time ("runtime").                          *)
First(cs, e) == [cs |-> cs, e |-> e]

RECURSIVE getfirst(_, _, _)
getfirst(t, follow, g) ==
  CASE IsCharset(t) -> First(tocharset(t), {})
    [] t.tag = "True"  -> First(follow, {"empty"})
    [] t.tag = "False" -> First({}, {})
    [] t.tag = "Choice" ->
         LET f1 == getfirst(sib1(t), follow, g)
             f2 == getfirst(sib2(t), follow, g)
         IN First(f1.cs \cup f2.cs, f1.e \cup f2.e)
    [] t.tag = "Seq" ->
         IF ~nullable(sib1(t), g) THEN getfirst(sib1(t), Chars, g)
         ELSE LET f2 == getfirst(sib2(t), follow, g)
                  f1 == getfirst(sib1(t), f2.cs, g)
              IN First(f1.cs, IF f1.e = {} THEN {}
                              ELSE IF "runtime" \in f1.e \cup f2.e THEN {"runtime"}
                              ELSE f2.e)
    [] t.tag = "Rep" -> First(getfirst(sib1(t), follow, g).cs \cup follow, {"empty"})
    [] t.tag = "Capture" -> getfirst(sib1(t), follow, g)
    [] t.tag = "Grammar" -> getfirst(sib1(t), follow, t.sib)
    [] t.tag = "Call"    -> getfirst(g[t.n], follow, g)
    [] t.tag = "RunTime" ->
         LET f == getfirst(sib1(t), Chars, g)
         IN First(f.cs, IF f.e = {} THEN {} ELSE {"runtime"})
    [] t.tag = "And" -> LET f == getfirst(sib1(t), follow, g)
                        IN First(f.cs \cap follow, f.e)
    [] t.tag = "Not" /\ IsCharset(sib1(t)) ->
         First(cs_complement(tocharset(sib1(t))), {"empty"})
    [] OTHER ->   \* TNot of anything else, TBehind
         First(follow, getfirst(sib1(t), follow, g).e \cup {"empty"})

(* Whether the pattern can fail only on its first character. *)
RECURSIVE headfail(_, _)
headfail(t, g) ==
  CASE IsCharset(t) \/ t.tag = "False" -> TRUE
    [] t.tag \in {"True", "Rep", "RunTime", "Not", "Behind"} -> FALSE
    [] t.tag \in {"Capture", "And"} -> headfail(sib1(t), g)
    [] t.tag = "Grammar" -> headfail(sib1(t), t.sib)
    [] t.tag = "Call"    -> headfail(g[t.n], g)
    [] t.tag = "Seq"     -> nofail(sib2(t), g) /\ headfail(sib1(t), g)
    [] t.tag = "Choice"  -> headfail(sib1(t), g) /\ headfail(sib2(t), g)

RECURSIVE needfollow(_)
needfollow(t) ==
  CASE t.tag \in {"Choice", "Rep"} -> TRUE
    [] t.tag = "Capture" -> needfollow(sib1(t))
    [] t.tag = "Seq"     -> needfollow(sib2(t))
    [] OTHER -> FALSE

-----------------------------------------------------------------------------
(* The Lua operators that build trees.  None of them looks into the rules  *)
(* of a grammar it is not inside of: open calls are still open, so the     *)
(* analyses never follow one.                                              *)

(* A string, or a number of TAny. *)
lp_set(chars) == TSet(ToSet(chars))

lp_range(pairs) == TSet(UNION {r[1]..r[2] : r \in ToSet(pairs)})

RECURSIVE fillseq(_)
fillseq(leaves) ==
  IF Len(leaves) = 1 THEN leaves[1]
  ELSE Node("Seq", <<leaves[1], fillseq(Tail(leaves))>>)

lp_string(s) ==
  IF s = <<>> THEN TTrue ELSE fillseq([i \in DOMAIN s |-> TChar(s[i])])

numtree(n) ==
  LET anys == fillseq([i \in 1..(IF n < 0 THEN -n ELSE n) |-> Leaf("Any")])
  IN CASE n = 0 -> TTrue
       [] n > 0 -> anys
       [] n < 0 -> Node("Not", <<anys>>)

lp_seq(t1, t2) ==
  CASE t1.tag = "False" \/ t2.tag = "True" -> t1
    [] t1.tag = "True" /\ t2.tag # "True"  -> t2
    [] OTHER -> Node("Seq", <<t1, t2>>)

lp_choice(t1, t2) ==
  IF IsCharset(t1) /\ IsCharset(t2) THEN TSet(tocharset(t1) \cup tocharset(t2))
  ELSE IF nofail(t1, <<>>) \/ t2.tag = "False" THEN t1
  ELSE IF t1.tag = "False" THEN t2
  ELSE Node("Choice", <<t1, t2>>)

RECURSIVE AtLeast(_, _)
AtLeast(t, n) ==
  IF n = 0 THEN Node("Rep", <<t>>) ELSE Node("Seq", <<t, AtLeast(t, n - 1)>>)

RECURSIVE AtMost(_, _)
AtMost(t, n) ==
  Node("Choice", <<IF n = 1 THEN t ELSE Node("Seq", <<t, AtMost(t, n - 1)>>), TTrue>>)

lp_star(t, n) ==
  IF n < 0 THEN AtMost(t, -n)
  ELSE IF nullable(t, <<>>) THEN Fail
  ELSE AtLeast(t, n)

lp_and(t) == Node("And", <<t>>)

lp_not(t) == Node("Not", <<t>>)

lp_sub(t1, t2) ==
  IF IsCharset(t1) /\ IsCharset(t2) THEN TSet(tocharset(t1) \ tocharset(t2))
  ELSE Node("Seq", <<lp_not(t2), t1>>)

lp_behind(t) ==
  LET n == fixedlen(t, <<>>)
  IN IF hascaptures(t) \/ n <= 0 \/ n > MAXBEHIND THEN Fail
     ELSE Tree("Behind", <<t>>, n, {}, "none")

lp_V(name) == Tree("OpenCall", <<>>, name, {}, "none")

capture_aux(t, cap, key) == Tree("Capture", <<t>>, key, {}, cap)

newemptycap(cap, key) == capture_aux(TTrue, cap, key)

lp_simplecapture(t) == capture_aux(t, "simple", 0)

lp_substcapture(t) == capture_aux(t, "subst", 0)

lp_tablecapture(t) == capture_aux(t, "table", 0)

(* Without a name the key is 0. *)
lp_groupcapture(t, name) == capture_aux(t, "group", name)

lp_foldcapture(t, fn) == capture_aux(t, "fold", fn)

(* The type of the value tells the capture; a number is no key but itself. *)
DivCaptures == [function |-> "function", table |-> "query", string |-> "string", number |-> "num"]

lp_divcapture(t, type, v) ==
  IF type \notin DOMAIN DivCaptures \/ (type = "number" /\ v < 0) THEN Fail
  ELSE capture_aux(t, DivCaptures[type], v)

lp_poscapture == newemptycap("position", 0)

lp_argcapture(n) == IF n <= 0 THEN Fail ELSE newemptycap("arg", n)

lp_backref(name) == newemptycap("backref", name)

(* No value is no capture, several are a group. *)
lp_constcapture(values) ==
  CASE values = <<>>    -> TTrue
    [] Len(values) = 1  -> newemptycap("const", values[1])
    [] Len(values) > 1  ->
         lp_groupcapture(fillseq([i \in DOMAIN values |-> newemptycap("const", values[i])]), 0)

lp_matchtime(t, fn) == Tree("RunTime", <<t>>, fn, {}, "none")

-----------------------------------------------------------------------------
(* Final adjustments before code is generated, and grammars. *)

RECURSIVE correctassociativity(_)
correctassociativity(t) ==
  IF sib1(t).tag # t.tag THEN t
  ELSE correctassociativity(
         Node(t.tag, <<sib1(sib1(t)), Node(t.tag, <<sib2(sib1(t)), sib2(t)>>)>>))

(* Gives each open call the number of its rule.  No names are given        *)
(* outside of a grammar.                                                   *)
RuleOf(names, name) == CHOOSE i \in DOMAIN names : names[i] = name

RECURSIVE OpenCalls(_)
OpenCalls(t) ==
  IF t.tag = "OpenCall" THEN {t.n}
  ELSE IF t.tag = "Grammar" THEN {}
  ELSE UNION {OpenCalls(t.sib[i]) : i \in DOMAIN t.sib}

RECURSIVE finalfix(_, _)
finalfix(t, names) ==
  CASE t.tag = "Grammar"  -> t
    [] t.tag = "OpenCall" -> Tree("Call", <<>>, RuleOf(names, t.n), {}, "none")
    [] OTHER -> LET c == IF t.tag \in {"Seq", "Choice"} THEN correctassociativity(t) ELSE t
                IN [c EXCEPT !.sib = [i \in DOMAIN c.sib |-> finalfix(c.sib[i], names)]]

Usable(t, names) == OpenCalls(t) \subseteq {names[i] : i \in DOMAIN names}

(* The answer is an error, or whether the pattern may match without        *)
(* consuming; "passed" are the rules entered without consuming.            *)
RECURSIVE verifyrule(_, _, _, _)
verifyrule(t, passed, null, g) ==
  CASE IsCharset(t) \/ t.tag = "False"      -> null
    [] t.tag \in {"True", "Behind"}         -> "yes"
    [] t.tag \in {"Not", "And", "Rep"}      -> verifyrule(sib1(t), passed, "yes", g)
    [] t.tag \in {"Capture", "RunTime"}     -> verifyrule(sib1(t), passed, null, g)
    [] t.tag = "Call" ->
         IF Len(passed) >= MAXRULES THEN "error"
         ELSE verifyrule(g[t.n], Append(passed, t.n), null, g)
    [] t.tag = "Seq" ->
         LET v == verifyrule(sib1(t), passed, "no", g)
         IN IF v = "error" THEN v
            ELSE IF v = "no" THEN null
            ELSE verifyrule(sib2(t), passed, null, g)
    [] t.tag = "Choice" ->
         LET v == verifyrule(sib1(t), passed, null, g)
         IN IF v = "error" THEN v ELSE verifyrule(sib2(t), passed, v, g)
    [] t.tag = "Grammar" -> IF nullable(t, g) THEN "yes" ELSE "no"

RECURSIVE checkloops(_, _)
checkloops(t, g) ==
  \/ t.tag = "Rep" /\ nullable(sib1(t), g)
  \/ t.tag # "Grammar" /\ \E i \in DOMAIN t.sib : checkloops(t.sib[i], g)

RECURSIVE Calls(_)
Calls(t) ==
  IF t.tag = "Call" THEN {t.n}
  ELSE IF t.tag = "Grammar" THEN {}
  ELSE UNION {Calls(t.sib[i]) : i \in DOMAIN t.sib}

(* Rules nobody calls have no key and are not checked; the first rule has  *)
(* one.                                                                    *)
UsedRules(g) == {1} \cup UNION {Calls(g[i]) : i \in DOMAIN g}

verifygrammar(g) ==
  /\ \A i \in UsedRules(g) : verifyrule(g[i], <<>>, "no", g) # "error"
  /\ \A i \in UsedRules(g) : ~checkloops(g[i], g)

(* A table of rules: "rules" holds those with a pattern for value, and      *)
(* "initial" is 1, or what the table has at 1 when it is a name.  The       *)
(* initial rule comes first, the others as they lie in the table.           *)
Grammar(initial, rules) == [initial |-> initial, rules |-> rules]

getfirstrule(g) == g.initial

collectrules(g) == <<getfirstrule(g)>> \o SetToSeq(DOMAIN g.rules \ {1, getfirstrule(g)})

buildgrammar(g, names) == [i \in DOMAIN names |-> finalfix(g.rules[names[i]], names)]

newgrammar(g) ==
  IF getfirstrule(g) \notin DOMAIN g.rules THEN Fail
  ELSE LET names == collectrules(g)
       IN IF Len(names) > MAXRULES \/ \E i \in DOMAIN names : ~Usable(g.rules[names[i]], names)
          THEN Fail
          ELSE LET rules == buildgrammar(g, names)
               IN IF verifygrammar(rules) THEN Node("Grammar", rules) ELSE Fail
=============================================================================
