------------------------------- MODULE LpegCap -------------------------------
(***************************************************************************)
(* From the list of captures a match leaves to the values it returns       *)
(* (lpcap.c).  The list is flat: an entry is full (siz is the length of    *)
(* its match plus 1), or open (siz is 0) and closed by a later entry.  The *)
(* functions of the code walk it with a cursor; here each takes the place  *)
(* of an entry and answers the values it pushes and where the cursor is    *)
(* then.  m holds the subject, the values of the match-time captures on    *)
(* the Lua stack, and, for entries in others, the values of each entry.    *)
(***************************************************************************)
EXTENDS LpegValue, SequencesExt

CONSTANT MAXSTRCAPS     \* the captures a format may name, and the whole match

Cap(kind, key, pos, siz) == [kind |-> kind, key |-> key, s |-> pos, siz |-> siz]

isclosecap(cap) == cap.kind = "close"

isfullcap(cap) == cap.siz # 0

closeaddr(cap) == cap.s + cap.siz - 1

Pushed(vals, at) == [vals |-> vals, at |-> at, error |-> FALSE]

Raised == [vals |-> <<>>, at |-> 0, error |-> TRUE]

(* An error leaves all functions at once. *)
Then(first, Rest(_)) == IF first.error THEN Raised ELSE Rest(first)

(* The open entry of the close that comes after entry i; n closes more are *)
(* waiting for theirs.                                                     *)
RECURSIVE findopen(_, _, _)
findopen(caps, i, n) ==
  IF isclosecap(caps[i]) THEN findopen(caps, i - 1, n + 1)
  ELSE IF isfullcap(caps[i]) THEN findopen(caps, i - 1, n)
  ELSE IF n = 0 THEN i
  ELSE findopen(caps, i - 1, n - 1)

(* The close of an open entry that comes before entry i; 0 when it is not  *)
(* there yet.                                                              *)
RECURSIVE findclose(_, _, _)
findclose(caps, i, n) ==
  IF i > Len(caps) THEN 0
  ELSE IF isclosecap(caps[i])
  THEN IF n = 0 THEN i ELSE findclose(caps, i + 1, n - 1)
  ELSE findclose(caps, i + 1, IF isfullcap(caps[i]) THEN n ELSE n + 1)

nextcap(caps, i) ==
  IF isfullcap(caps[i]) THEN i + 1 ELSE findclose(caps, i + 1, 0) + 1

finddyncap(caps) ==
  LET found == {i \in DOMAIN caps : caps[i].kind = "runtime"}
  IN IF found = {} THEN 0
     ELSE caps[CHOOSE i \in found : \A j \in found : i <= j].key

-----------------------------------------------------------------------------

RECURSIVE pushuntilclose(_, _, _)
pushuntilclose(caps, i, m) ==
  IF isclosecap(caps[i]) THEN Pushed(<<>>, i)
  ELSE Then(m.push[i], LAMBDA one :
         Then(pushuntilclose(caps, one.at, m), LAMBDA rest :
           Pushed(one.vals \o rest.vals, rest.at)))

Text(m, from, to) == Str(SubSeq(m.subj, from + 1, to))

(* The whole match comes last; it is there in any case when nothing else is. *)
pushnestedvalues(caps, i, addextra, m) ==
  IF isfullcap(caps[i]) THEN Pushed(<<Text(m, caps[i].s, closeaddr(caps[i]))>>, i + 1)
  ELSE Then(pushuntilclose(caps, i + 1, m), LAMBDA nested :
         Pushed(IF addextra \/ nested.vals = <<>>
                THEN Append(nested.vals, Text(m, caps[i].s, caps[nested.at].s))
                ELSE nested.vals, nested.at + 1))

pushonenestedvalue(caps, i, m) ==
  Then(pushnestedvalues(caps, i, FALSE, m), LAMBDA nested :
    Pushed(<<Head(nested.vals)>>, nested.at))

(* The whole match is moved to be the first value. *)
simplecap(caps, i, m) ==
  Then(pushnestedvalues(caps, i, TRUE, m), LAMBDA nested :
    Pushed(<<Last(nested.vals)>> \o Front(nested.vals), nested.at))

(* Back from entry i for a group of that name: over what is closed, past   *)
(* what is open.  0 when there is none.                                    *)
RECURSIVE findback(_, _, _)
findback(caps, i, name) ==
  IF i = 0 THEN 0
  ELSE LET at == IF isclosecap(caps[i]) THEN findopen(caps, i - 1, 0) ELSE i
       IN IF at = i /\ ~isfullcap(caps[i]) THEN findback(caps, i - 1, name)
          ELSE IF caps[at].kind = "group" /\ caps[at].key = name THEN at
          ELSE findback(caps, at - 1, name)

backrefcap(caps, i, m) ==
  LET group == findback(caps, i - 1, caps[i].key)
  IN IF group = 0 THEN Raised
     ELSE Then(pushnestedvalues(caps, group, FALSE, m), LAMBDA nested :
            Pushed(nested.vals, i + 1))

(* The entries of a table capture from entry i on: a named group gives the *)
(* field of its name, of the same name the last one stays.                 *)
SetField(named, key, v) ==
  Append(SelectSeq(named, LAMBDA f : f.key # key), [key |-> key, value |-> v])

RECURSIVE tablefields(_, _, _, _, _)
tablefields(caps, i, list, named, m) ==
  LET c == caps[i] IN
  IF isclosecap(c) THEN Pushed(<<Table(list, named)>>, i + 1)
  ELSE IF c.kind = "group" /\ c.key # 0
  THEN Then(pushonenestedvalue(caps, i, m), LAMBDA field :
         tablefields(caps, field.at, list, SetField(named, c.key, field.vals[1]), m))
  ELSE Then(m.push[i], LAMBDA plain :
         tablefields(caps, plain.at, list \o plain.vals, named, m))

tablecap(caps, i, m) ==
  IF isfullcap(caps[i]) THEN Pushed(<<Table(<<>>, <<>>)>>, i + 1)
  ELSE tablefields(caps, i + 1, <<>>, <<>>, m)

querycap(caps, i, m) ==
  Then(pushonenestedvalue(caps, i, m), LAMBDA nested :
    Pushed(IF InTable(nested.vals[1]) THEN <<Applied(caps[i].key, nested.vals)>> ELSE <<>>,
           nested.at))

RECURSIVE foldrest(_, _, _, _, _)
foldrest(caps, i, key, acc, m) ==
  IF isclosecap(caps[i]) THEN Pushed(<<acc>>, i + 1)
  ELSE Then(m.push[i], LAMBDA next :
         foldrest(caps, next.at, key, Applied(key, <<acc>> \o next.vals), m))

foldcap(caps, i, m) ==
  IF isfullcap(caps[i]) \/ isclosecap(caps[i + 1]) THEN Raised
  ELSE Then(m.push[i + 1], LAMBDA first :
         IF first.vals = <<>> THEN Raised
         ELSE foldrest(caps, first.at, caps[i].key, first.vals[1], m))

functioncap(caps, i, m) ==
  Then(pushnestedvalues(caps, i, FALSE, m), LAMBDA nested :
    Pushed(<<Applied(caps[i].key, nested.vals)>>, nested.at))

numcap(caps, i, m) ==
  IF caps[i].key = 0 THEN Pushed(<<>>, nextcap(caps, i))
  ELSE Then(pushnestedvalues(caps, i, FALSE, m), LAMBDA nested :
         IF Len(nested.vals) < caps[i].key THEN Raised
         ELSE Pushed(<<nested.vals[caps[i].key]>>, nested.at))

-----------------------------------------------------------------------------
(* String and substitution captures build one string. *)

(* What the indices of a format refer to: strings of the subject, and the  *)
(* other captures by their place in the list.                              *)
StrAux(isstring, from, to, cp) == [isstring |-> isstring, from |-> from, to |-> to, cp |-> cp]

RECURSIVE getstrcaps(_, _, _)

RECURSIVE strcapsuntilclose(_, _, _)
strcapsuntilclose(caps, i, cps) ==
  IF isclosecap(caps[i]) THEN [cps |-> cps, at |-> i]
  ELSE IF Len(cps) >= MAXSTRCAPS THEN strcapsuntilclose(caps, nextcap(caps, i), cps)
  ELSE IF caps[i].kind = "simple"
  THEN LET inner == getstrcaps(caps, i, cps) IN strcapsuntilclose(caps, inner.at, inner.cps)
  ELSE strcapsuntilclose(caps, nextcap(caps, i), Append(cps, StrAux(FALSE, 0, 0, i)))

getstrcaps(caps, i, cps) ==
  LET k     == Len(cps) + 1
      begun == Append(cps, StrAux(TRUE, caps[i].s, 0, 0))
      inner == IF isfullcap(caps[i]) THEN [cps |-> begun, at |-> i]
               ELSE strcapsuntilclose(caps, i + 1, begun)
  IN [cps |-> [inner.cps EXCEPT ![k].to = closeaddr(caps[inner.at])], at |-> inner.at + 1]

RECURSIVE addonestring(_, _, _)

RECURSIVE stringitems(_, _, _, _)
stringitems(caps, items, cps, m) ==
  IF items = <<>> THEN Pushed(<<Str(<<>>)>>, 0)
  ELSE LET item == Head(items)
           cp   == cps[item.n + 1]
       IN Then(IF item.literal THEN Pushed(<<Str(<<item.n>>)>>, 0)
               ELSE IF item.n > Len(cps) - 1 THEN Raised
               ELSE IF cp.isstring THEN Pushed(<<Text(m, cp.from, cp.to)>>, 0)
               ELSE addonestring(caps, cp.cp, m),
               LAMBDA one :
                 IF one.vals = <<>> THEN Raised
                 ELSE Then(stringitems(caps, Tail(items), cps, m), LAMBDA rest :
                        Pushed(<<Str(one.vals[1].text \o rest.vals[1].text)>>, 0)))

stringcap(caps, i, m) ==
  LET found == getstrcaps(caps, i, <<>>)
  IN Then(stringitems(caps, Format(caps[i].key), found.cps, m), LAMBDA built :
       Pushed(built.vals, found.at))

(* What one entry of a substitution adds, and the text before it. *)
Replaced(m, curr, cap, one, rest) ==
  Pushed(<<Str(Text(m, curr, cap.s).text \o (IF one.vals = <<>> THEN <<>> ELSE one.vals[1].text)
                 \o rest.vals[1].text)>>, rest.at)

(* A bug: a replaced capture is taken to end where its first entry does. *)
RECURSIVE substrest_First(_, _, _, _)
substrest_First(caps, i, curr, m) ==
  IF isclosecap(caps[i]) THEN Pushed(<<Text(m, curr, caps[i].s)>>, i + 1)
  ELSE Then(addonestring(caps, i, m), LAMBDA one :
         Then(substrest_First(caps, one.at,
                              IF one.vals = <<>> THEN caps[i].s ELSE closeaddr(caps[i]), m),
              LAMBDA rest : Replaced(m, curr, caps[i], one, rest)))

(* The rest of a substitution from entry i on; curr is how far the subject *)
(* has been copied or replaced.                                            *)
RECURSIVE substrest(_, _, _, _)
substrest(caps, i, curr, m) ==
  IF isclosecap(caps[i]) THEN Pushed(<<Text(m, curr, caps[i].s)>>, i + 1)
  ELSE Then(addonestring(caps, i, m), LAMBDA one :
         Then(substrest(caps, one.at,
                        IF one.vals = <<>> THEN caps[i].s ELSE closeaddr(caps[one.at - 1]), m),
              LAMBDA rest : Replaced(m, curr, caps[i], one, rest)))

substcap(caps, i, m) ==
  IF isfullcap(caps[i]) THEN Pushed(<<Text(m, caps[i].s, closeaddr(caps[i]))>>, i + 1)
  ELSE substrest(caps, i + 1, caps[i].s, m)

addonestring(caps, i, m) ==
  CASE caps[i].kind = "string" -> stringcap(caps, i, m)
    [] caps[i].kind = "subst"  -> substcap(caps, i, m)
    [] OTHER ->
         Then(m.push[i], LAMBDA one :
           IF one.vals = <<>> THEN one
           ELSE IF ~IsString(one.vals[1]) THEN Raised
           ELSE Pushed(<<Str(TextOf(one.vals[1]))>>, one.at))

-----------------------------------------------------------------------------

pushcapture(caps, i, m) ==
  LET c == caps[i]
  IN CASE c.kind = "position" -> Pushed(<<Num(c.s + 1)>>, i + 1)
       [] c.kind = "const"    -> Pushed(<<Opaque("const", c.key)>>, i + 1)
       [] c.kind = "arg"      -> IF c.key > NARGS THEN Raised
                                 ELSE Pushed(<<Opaque("arg", c.key)>>, i + 1)
       [] c.kind = "runtime"  -> Pushed(<<Opaque("runtime", m.dyn[c.key])>>, i + 1)
       [] c.kind = "simple"   -> simplecap(caps, i, m)
       [] c.kind = "group"    -> IF c.key = 0 THEN pushnestedvalues(caps, i, FALSE, m)
                                 ELSE Pushed(<<>>, nextcap(caps, i))
       [] c.kind = "backref"  -> backrefcap(caps, i, m)
       [] c.kind = "table"    -> tablecap(caps, i, m)
       [] c.kind = "function" -> functioncap(caps, i, m)
       [] c.kind = "num"      -> numcap(caps, i, m)
       [] c.kind = "query"    -> querycap(caps, i, m)
       [] c.kind = "fold"     -> foldcap(caps, i, m)
       [] c.kind = "string"   -> stringcap(caps, i, m)
       [] c.kind = "subst"    -> substcap(caps, i, m)

(* The values of each entry that is complete, with those of entries at     *)
(* most depth deep in it.                                                  *)
RECURSIVE pushed(_, _, _)
pushed(caps, m, depth) ==
  LET closed(i) == isfullcap(caps[i]) \/ findclose(caps, i + 1, 0) # 0
      opens == {i \in DOMAIN caps : ~isclosecap(caps[i]) /\ closed(i)}
      inner == [subj |-> m.subj, dyn |-> m.dyn, push |-> pushed(caps, m, depth - 1)]
  IN [i \in opens |-> IF depth = 0 THEN Raised ELSE pushcapture(caps, i, inner)]

WithValues(caps, m) ==
  [subj |-> m.subj, dyn |-> m.dyn, push |-> pushed(caps, m, Len(caps))]

(* The list ends with a close.  With no values the match returns where it  *)
(* ended.                                                                  *)
getcaptures(caps, s, m) ==
  LET all == Append(caps, Cap("close", 0, 0, 1))
  IN Then(pushuntilclose(all, 1, WithValues(all, m)), LAMBDA got :
       IF got.vals = <<>> THEN Pushed(<<Num(s + 1)>>, got.at) ELSE got)
=============================================================================
