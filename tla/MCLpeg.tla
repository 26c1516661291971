------------------------------- MODULE MCLpeg -------------------------------
(***************************************************************************)
(* Patterns and subjects for LpegVM.  Characters are 1 and 2; 3 stands for *)
(* all others.                                                             *)
(***************************************************************************)
EXTENDS LpegVM

C(t) == lp_simplecapture(t)

V(i) == lp_V(i)

Unary(ts) ==
  UNION {{lp_star(t, 0), lp_star(t, -1), lp_and(t), lp_not(t), lp_behind(t), C(t)} : t \in ts}

Binary(ts, us) ==
  UNION {{lp_seq(t, u), lp_choice(t, u), lp_sub(t, u)} : t \in ts, u \in us}

Atoms == {lp_string(<<1>>), lp_string(<<2>>), numtree(1), lp_range(<<<<2, 3>>>>), lp_set(<<>>),
          TTrue, TFalse}

One == (Unary(Atoms) \cup Binary({TChar(1), numtree(1), lp_set(<<2, 3>>)}, Atoms)) \ {Fail}

Few == {TChar(1), lp_star(TChar(2), 0), lp_poscapture}

(* Every pattern of two operators over the atoms. *)
Two == (Unary(One) \cup Binary(One, Few) \cup Binary(Few, One)) \ {Fail}

(* Some of three and more: counted repetitions, strings, and a choice of   *)
(* strings with a common start.                                            *)
Longer ==
  LET ab == lp_string(<<1, 2>>)
      ac == lp_string(<<1, 1>>)
      cc == C(lp_seq(TChar(1), C(lp_star(TChar(2), 0))))
  IN (Unary({ab, cc, lp_choice(ab, ac), numtree(-2)})
        \cup Binary({lp_choice(ab, ac), lp_choice(cc, ab)}, {ab, ac, cc})
        \cup {lp_star(TChar(1), 2), lp_star(ab, -2), lp_star(lp_choice(ab, TChar(2)), 1),
              lp_choice(lp_choice(ab, ac), lp_choice(TChar(2), ab)),
              lp_seq(lp_seq(TChar(1), cc), lp_seq(TTrue, numtree(-1)))}) \ {Fail}

(* Captures of every kind, in each other and one after the other. *)
Ends ==
  {lp_poscapture, lp_constcapture(<<>>), lp_constcapture(<<9>>), lp_constcapture(<<9, 8>>),
   lp_argcapture(1), lp_argcapture(2), lp_backref(1), C(TChar(1)),
   lp_groupcapture(lp_star(TChar(1), 0), 1)}

Around(t) ==
  {C(t), lp_substcapture(t), lp_tablecapture(t), lp_groupcapture(t, 0), lp_groupcapture(t, 1),
   lp_foldcapture(t, 1)}
    \cup {lp_divcapture(t, "number", n) : n \in 0..2}
    \cup {lp_divcapture(t, "string", f) : f \in 1..2}
    \cup {lp_divcapture(t, type, 1) : type \in {"function", "table"}}

Capturing ==
  LET pairs == {lp_seq(t, u) : t \in Ends, u \in {C(TChar(1)), lp_backref(1)}}
      inner == UNION {Around(t) : t \in pairs \cup {TChar(1), lp_star(TChar(1), 0)}}
      group == lp_groupcapture(lp_seq(TChar(1), C(lp_star(TChar(2), 0))), 1)
  IN inner
       \cup UNION {{lp_tablecapture(lp_seq(group, t)), lp_divcapture(lp_seq(group, t), "string", 1),
                    lp_substcapture(lp_seq(lp_seq(TChar(1), t), t)),
                    lp_foldcapture(lp_seq(lp_seq(TChar(1), t), t), 1),
                    lp_seq(lp_seq(group, t), lp_backref(1))} : t \in inner}

(* Grammars of two rules, each of one or two operators over calls of both. *)
Bodies ==
  {TChar(1), V(2), lp_seq(TChar(1), V(1)), lp_seq(TChar(2), V(2)), lp_choice(V(2), TChar(1)),
   lp_choice(lp_seq(TChar(1), V(1)), TTrue),
   lp_choice(lp_seq(TChar(1), lp_seq(V(1), TChar(2))), V(2)),
   lp_star(V(2), 0), lp_seq(V(2), V(1)), lp_seq(lp_not(V(2)), numtree(1)), lp_and(V(2)),
   lp_star(TChar(2), 0), TTrue}

Rules(bodies) == newgrammar(Grammar(1, bodies))

(* In the last ones the second rule is the initial one, by its name. *)
Grammars ==
  ({Rules(<<x, y>>) : x \in Bodies, y \in Bodies}
    \cup {Rules(<<x, lp_seq(C(TChar(1)), lp_choice(V(1), TTrue))>>) :
            x \in Bodies \ {lp_and(V(2))}}
    \cup {newgrammar(Grammar(2, (2 :> x @@ 3 :> lp_seq(TChar(1), V(n))))) :
            x \in Bodies \cup {lp_choice(V(3), TChar(2))}, n \in 1..3}) \ {Fail}

Inner == Rules(<<lp_choice(lp_seq(TChar(1), V(1)), TChar(2))>>)

InGrammars ==
  (Unary(Grammars) \cup Binary({C(TChar(1))}, Grammars)
    \cup {Rules(<<lp_seq(Inner, x), y>>) : x \in Bodies, y \in Bodies}) \ {Fail}

(* Match-time captures: the function lets the match fail (1), go on (2),   *)
(* go on with a value (3), from the next position (4), or raises an error. *)
MCCallFn(fn, pos, len) ==
  [ok |-> IF fn = 1 THEN "no" ELSE IF fn = 5 \/ (fn = 4 /\ pos = len) THEN "error" ELSE "yes",
   to |-> IF fn = 4 THEN pos + 1 ELSE pos,
   vals |-> IF fn \in {3, 4} THEN <<fn>> ELSE <<>>]

Timed(fns) ==
  {lp_matchtime(t, fn) : t \in {TTrue, TChar(1), lp_star(TChar(1), 0),
                                lp_choice(TChar(2), TTrue), lp_argcapture(2)}, fn \in fns}

(* A predicate drops the captures of its pattern; a match-time capture     *)
(* that fails drops those within it.                                       *)
Dropping ==
  LET valued == lp_matchtime(TTrue, 3)
  IN {lp_and(valued), lp_not(valued), lp_choice(lp_matchtime(lp_seq(TChar(1), valued), 1), TTrue)}

Dynamic ==
  LET valued == Timed({3})
  IN (Unary(Timed(1..5))
       \cup Binary(Timed(1..5), {TChar(2), lp_star(TChar(2), 0)})
       \cup Binary({TChar(1)}, Timed(1..5))
       \cup {lp_choice(lp_seq(t, u), TChar(1)) : t \in valued, u \in Timed({1, 3, 4})}
       \cup {lp_matchtime(lp_seq(t, u), fn) : t \in valued, u \in valued, fn \in 1..5}
       \cup Dropping \cup Binary(Dropping, valued) \cup Binary(valued, Dropping)
       \cup {lp_choice(lp_seq(v, lp_seq(t, TFalse)), u) : v \in valued, t \in Dropping, u \in valued})
      \ {Fail}

(* Code that the last pass reads out of step is left out. *)
MCPatterns ==
  {t \in UNION {Two, Longer, Capturing, Grammars, InGrammars, Dynamic} : prepcompile(t).at # 0}

MCDroppingPatterns == {t \in Dropping : prepcompile(t).at # 0}

MCFormat(key) ==
  IF key = 1 THEN <<Index(0), Literal(2), Index(1)>> ELSE <<Index(2), Index(3)>>

MCStarts == {1, -1}

MCSubjects ==
  {<<>>, <<1>>, <<2>>, <<3>>, <<1, 1>>, <<1, 2>>, <<1, 3>>, <<2, 1>>, <<2, 2>>,
   <<1, 1, 1>>, <<1, 1, 2>>, <<1, 2, 1>>, <<1, 2, 2>>, <<2, 1, 2>>}
=============================================================================
