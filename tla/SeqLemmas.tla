----------------------------- MODULE SeqLemmas -----------------------------
(***************************************************************************)
(* Facts about naturals and sequences that the proofs of several modules   *)
(* rest on.                                                                *)
(***************************************************************************)
EXTENDS Integers, SequencesExt, SequenceTheorems, WellFoundedInduction, TLAPS

\* A set of naturals that is not empty has a least element.
LEMMA LeastNat ==
  ASSUME NEW T \in SUBSET Nat, T # {}
  PROVE  \E m \in T : \A n \in T : m <= n
<1> DEFINE R == { ss \in Nat \X Nat : ss[1] < ss[2] }
<1>1. IsWellFoundedOn(R, Nat)
  BY NatLessThanWellFounded DEF OpToRel
<1> HIDE DEF R
<1>2. PICK m \in T : \A n \in T : ~ (<<n, m>> \in R)
  BY <1>1, WFMin
<1>3. \A n \in T : m <= n
  <2> SUFFICES ASSUME NEW n \in T, ~ (m <= n) PROVE FALSE
    OBVIOUS
  <2>1. <<n, m>> \in R
    BY DEF R
  <2> QED BY <2>1, <1>2
<1> QED BY <1>3

\* Division with remainder is unique.
LEMMA DivUnique ==
  ASSUME NEW n \in Nat \ {0}, NEW k \in Int, NEW r \in 0..(n - 1)
  PROVE  (n * k + r) % n = r /\ (n * k + r) \div n = k
<1> DEFINE x == n * k + r
<1>1. x \in Int
  OBVIOUS
<1> HIDE DEF x
<1>2. PICK q \in Int, m \in 0..(n - 1) : x = n * q + m /\ q = x \div n /\ m = x % n
  BY <1>1
<1>3. n * k + r = n * q + m
  BY <1>2 DEF x
<1>4. PICK t \in Int : t = k - q
  OBVIOUS
<1>5. n * t = m - r
  <2>1. \A a, b \in Int : n * (a - b) = n * a - n * b
    OBVIOUS
  <2>2. n * t = n * k - n * q
    BY <1>4, <2>1
  <2>3. n * k \in Int /\ n * q \in Int
    OBVIOUS
  <2> QED BY <2>2, <2>3, <1>3
<1>6. ~ (t >= 1) /\ ~ (t <= -1)
  <2>1. t >= 1 => n * t >= n
    OBVIOUS
  <2>2. t <= -1 => n * t <= -n
    OBVIOUS
  <2> QED BY <2>1, <2>2, <1>5
<1>7. t = 0
  BY <1>6
<1>8. n * t = 0
  BY <1>7
<1>9. k = q /\ r = m
  BY <1>4, <1>5, <1>7, <1>8
<1> QED BY <1>2, <1>9 DEF x

\* RemoveAt drops one entry and shifts those behind it.
LEMMA RemoveAtFacts ==
  ASSUME NEW S, NEW s \in Seq(S), NEW m \in 1 .. Len(s)
  PROVE  /\ RemoveAt(s, m) \in Seq(S)
         /\ Len(RemoveAt(s, m)) = Len(s) - 1
         /\ \A i \in 1 .. Len(s) - 1 :
              RemoveAt(s, m)[i] = IF i < m THEN s[i] ELSE s[i + 1]
<1>0. Len(s) \in Nat /\ m \in Nat /\ 1 <= m /\ m <= Len(s)
  OBVIOUS
<1>1. \A i \in 1 .. Len(s) : s[i] \in S
  OBVIOUS
<1> DEFINE a == SubSeq(s, 1, m - 1)
           b == SubSeq(s, m + 1, Len(s))
<1>2. /\ a \in Seq(S) /\ Len(a) = m - 1
      /\ \A i \in 1 .. m - 1 : a[i] = s[i]
  <2>1. /\ m - 1 \in Int /\ \A i \in 1 .. m - 1 : s[i] \in S
    BY <1>0, <1>1
  <2>2. /\ a \in Seq(S)
        /\ Len(a) = IF 1 <= m - 1 THEN m - 1 - 1 + 1 ELSE 0
        /\ \A i \in 1 .. m - 1 - 1 + 1 : a[i] = s[1 + i - 1]
    BY <2>1, SubSeqProperties
  <2> HIDE DEF a
  <2> QED BY <2>2, <1>0
<1>3. /\ b \in Seq(S) /\ Len(b) = Len(s) - m
      /\ \A i \in 1 .. Len(s) - m : b[i] = s[m + i]
  <2>1. /\ m + 1 \in Int /\ Len(s) \in Int
        /\ \A i \in m + 1 .. Len(s) : s[i] \in S
    BY <1>0, <1>1
  <2>2. /\ b \in Seq(S)
        /\ Len(b) = IF m + 1 <= Len(s) THEN Len(s) - (m + 1) + 1 ELSE 0
        /\ \A i \in 1 .. Len(s) - (m + 1) + 1 : b[i] = s[m + 1 + i - 1]
    BY <2>1, SubSeqProperties
  <2> HIDE DEF b
  <2>3. Len(b) = Len(s) - m
    BY <2>2, <1>0
  <2>4. \A i \in 1 .. Len(s) - m : b[i] = s[m + i]
    <3> SUFFICES ASSUME NEW i \in 1 .. Len(s) - m PROVE b[i] = s[m + i]
      OBVIOUS
    <3>1. i \in 1 .. Len(s) - (m + 1) + 1 /\ m + 1 + i - 1 = m + i
      BY <1>0
    <3> QED BY <3>1, <2>2
  <2> QED BY <2>2, <2>3, <2>4
<1> HIDE DEF a, b
<1>4. /\ a \o b \in Seq(S) /\ Len(a \o b) = Len(s) - 1
      /\ \A i \in 1 .. Len(s) - 1 :
           (a \o b)[i] = IF i <= m - 1 THEN s[i] ELSE s[i + 1]
  <2>1. /\ a \o b \in Seq(S) /\ Len(a \o b) = Len(a) + Len(b)
        /\ \A i \in 1 .. Len(a) + Len(b) :
             (a \o b)[i] = IF i <= Len(a) THEN a[i] ELSE b[i - Len(a)]
    BY <1>2, <1>3, ConcatProperties
  <2>2. Len(a) + Len(b) = Len(s) - 1
    BY <1>2, <1>3, <1>0
  <2>3. ASSUME NEW i \in 1 .. Len(s) - 1
        PROVE  (a \o b)[i] = IF i <= m - 1 THEN s[i] ELSE s[i + 1]
    <3>1. CASE i <= m - 1
      <4>1. i \in 1 .. m - 1
        BY <3>1, <1>0
      <4> QED BY <4>1, <3>1, <2>1, <2>2, <1>2
    <3>2. CASE ~ (i <= m - 1)
      <4>1. i - (m - 1) \in 1 .. Len(s) - m /\ m + (i - (m - 1)) = i + 1
        BY <3>2, <1>0
      <4>2. (a \o b)[i] = b[i - (m - 1)]
        BY <3>2, <2>1, <2>2, <1>2
      <4> QED BY <4>1, <4>2, <3>2, <1>3
    <3> QED BY <3>1, <3>2
  <2> QED BY <2>1, <2>2, <2>3
<1>5. RemoveAt(s, m) = a \o b
  BY DEF RemoveAt, a, b
<1>6. \A i \in 1 .. Len(s) - 1 : (i <= m - 1) <=> (i < m)
  BY <1>0
<1> QED BY <1>4, <1>5, <1>6

\* RemoveFirst takes at most its argument out of a sequence.
LEMMA RemoveFirstFacts ==
  ASSUME NEW S, NEW s \in Seq(S), NEW e
  PROVE  /\ RemoveFirst(s, e) \in Seq(S)
         /\ ToSet(RemoveFirst(s, e)) \subseteq ToSet(s)
         /\ ToSet(s) \subseteq ToSet(RemoveFirst(s, e)) \cup {e}
<1>0. Len(s) \in Nat /\ DOMAIN s = 1 .. Len(s)
  OBVIOUS
<1>1. CASE ~ \E i \in 1 .. Len(s) : s[i] = e
  BY <1>1 DEF RemoveFirst
<1>2. CASE \E i \in 1 .. Len(s) : s[i] = e
  <2>1. PICK m \in 1 .. Len(s) : s[m] = e /\ RemoveFirst(s, e) = RemoveAt(s, m)
    <3> DEFINE I == { i \in 1 .. Len(s) : s[i] = e }
    <3>1. I \subseteq Nat /\ I # {}
      BY <1>2
    <3>2. PICK k \in I : \A i \in I : k <= i
      BY <3>1, LeastNat
    <3>3. Min(I) \in I
      BY <3>2 DEF Min
    <3>4. RemoveFirst(s, e) = RemoveAt(s, Min(I))
      BY <1>2, <3>1 DEF RemoveFirst, SelectInSeq
    <3> QED BY <3>3, <3>4
  <2> DEFINE r == RemoveAt(s, m)
  <2>2. /\ r \in Seq(S) /\ Len(r) = Len(s) - 1
        /\ \A i \in 1 .. Len(s) - 1 : r[i] = IF i < m THEN s[i] ELSE s[i + 1]
    BY RemoveAtFacts
  <2> HIDE DEF r
  <2>3. DOMAIN r = 1 .. Len(s) - 1
    BY <2>2
  <2>4. ASSUME NEW i \in 1 .. Len(s) - 1 PROVE r[i] \in ToSet(s)
    <3>1. r[i] = s[i] \/ r[i] = s[i + 1]
      BY <2>2
    <3>2. i \in 1 .. Len(s) /\ i + 1 \in 1 .. Len(s)
      BY <1>0
    <3> QED BY <3>1, <3>2, <1>0 DEF ToSet
  <2>5. ASSUME NEW i \in 1 .. Len(s), s[i] # e
        PROVE  \E j \in 1 .. Len(s) - 1 : r[j] = s[i]
    <3>1. CASE i < m
      <4>1. i \in 1 .. Len(s) - 1
        BY <3>1, <1>0
      <4> QED BY <4>1, <3>1, <2>2
    <3>2. CASE i > m
      <4>1. i - 1 \in 1 .. Len(s) - 1 /\ ~ (i - 1 < m) /\ (i - 1) + 1 = i
        BY <3>2, <1>0
      <4> QED BY <4>1, <2>2
    <3> QED BY <3>1, <3>2, <2>1, <2>5, <1>0
  <2>6. ToSet(r) \subseteq ToSet(s)
    BY <2>3, <2>4 DEF ToSet
  <2>7. ToSet(s) \subseteq ToSet(r) \cup {e}
    BY <2>3, <2>5, <1>0 DEF ToSet
  <2> QED
    BY <2>1, <2>2, <2>6, <2>7 DEF r
<1> QED BY <1>1, <1>2

\* Append adds its argument.
LEMMA AppendFacts ==
  ASSUME NEW S, NEW s \in Seq(S), NEW e \in S
  PROVE  /\ Append(s, e) \in Seq(S)
         /\ ToSet(Append(s, e)) = ToSet(s) \cup {e}
<1>1. /\ Append(s, e) \in Seq(S) /\ Len(Append(s, e)) = Len(s) + 1
      /\ \A i \in 1 .. Len(s) : Append(s, e)[i] = s[i]
      /\ Append(s, e)[Len(s) + 1] = e
  BY AppendProperties
<1>2. /\ Len(s) \in Nat /\ DOMAIN s = 1 .. Len(s)
      /\ DOMAIN Append(s, e) = 1 .. Len(s) + 1
  BY <1>1
<1>3. \A i \in 1 .. Len(s) + 1 : i \in 1 .. Len(s) \/ i = Len(s) + 1
  BY <1>2
<1>4. \A i \in 1 .. Len(s) : i \in 1 .. Len(s) + 1
  BY <1>2
<1>5. Len(s) + 1 \in 1 .. Len(s) + 1
  BY <1>2
<1> HIDE DEF ToSet
<1>6. ToSet(Append(s, e)) \subseteq ToSet(s) \cup {e}
  BY <1>1, <1>2, <1>3 DEF ToSet
<1>7. ToSet(s) \cup {e} \subseteq ToSet(Append(s, e))
  BY <1>1, <1>2, <1>4, <1>5 DEF ToSet
<1> QED BY <1>1, <1>6, <1>7

\* Cons puts its argument before the rest.
LEMMA ConsFacts ==
  ASSUME NEW S, NEW s \in Seq(S), NEW e \in S
  PROVE  /\ Cons(e, s) \in Seq(S) /\ Len(Cons(e, s)) = Len(s) + 1 /\ Cons(e, s) # <<>>
         /\ Cons(e, s)[1] = e
         /\ \A i \in 2 .. Len(s) + 1 : Cons(e, s)[i] = s[i - 1]
<1>1. /\ <<e>> \in Seq(S) /\ Len(<<e>>) = 1 /\ <<e>>[1] = e
  OBVIOUS
<1>2. /\ <<e>> \o s \in Seq(S) /\ Len(<<e>> \o s) = 1 + Len(s)
      /\ \A i \in 1 .. 1 + Len(s) :
           (<<e>> \o s)[i] = IF i <= 1 THEN <<e>>[i] ELSE s[i - 1]
  BY <1>1, ConcatProperties
<1>3. Len(s) \in Nat /\ Cons(e, s) = <<e>> \o s
  BY DEF Cons
<1> HIDE DEF Cons
<1>4. 1 \in 1 .. 1 + Len(s) /\ \A i \in 2 .. Len(s) + 1 : i \in 1 .. 1 + Len(s) /\ ~ (i <= 1)
  BY <1>3
<1> QED BY <1>1, <1>2, <1>3, <1>4

\* Front drops the last element.
LEMMA FrontFacts ==
  ASSUME NEW S, NEW s \in Seq(S), s # <<>>
  PROVE  \E n \in Nat :
           /\ Len(s) = n + 1
           /\ Front(s) \in Seq(S) /\ Len(Front(s)) = n
           /\ \A i \in 1 .. n : Front(s)[i] = s[i]
<1>1. PICK n \in Nat : Len(s) = n + 1
  <2>1. Len(s) \in Nat \ {0}
    BY EmptySeq
  <2>2. PICK m \in Nat : Len(s) = m /\ m # 0
    BY <2>1
  <2>3. m - 1 \in Nat /\ m = (m - 1) + 1
    BY <2>2
  <2> QED BY <2>2, <2>3
<1>2. \A i \in 1 .. n : s[i] \in S
  BY <1>1
<1> DEFINE f == SubSeq(s, 1, n)
<1>3. /\ f \in Seq(S) /\ Len(f) = IF 1 <= n THEN n - 1 + 1 ELSE 0
      /\ \A i \in 1 .. n - 1 + 1 : f[i] = s[1 + i - 1]
  BY <1>2, SubSeqProperties
<1>4. Front(s) = f
  BY <1>1 DEF Front
<1> HIDE DEF f
<1>5. Len(f) = n
  BY <1>3
<1>6. \A i \in 1 .. n : f[i] = s[i]
  BY <1>3
<1> QED BY <1>1, <1>3, <1>4, <1>5, <1>6

\* RemoveFirst takes out an element that occurs once.
LEMMA RemoveOnlyFacts ==
  ASSUME NEW S, NEW s \in Seq(S), NEW m \in 1 .. Len(s), NEW e,
         \A i \in 1 .. Len(s) : (s[i] = e) <=> (i = m)
  PROVE  RemoveFirst(s, e) = RemoveAt(s, m)
<1>1. \E i \in 1 .. Len(s) : s[i] = e
  OBVIOUS
<1>2. { i \in 1 .. Len(s) : s[i] = e } = {m}
  OBVIOUS
<1>3. Min({m}) = m
  <2>1. m \in Int
    OBVIOUS
  <2> QED BY <2>1 DEF Min
<1> QED BY <1>1, <1>2, <1>3 DEF RemoveFirst, SelectInSeq

\* RemoveAt takes the element at its index out of a sequence without repeats,
\* and nothing else.
LEMMA RemoveAtOnce ==
  ASSUME NEW S, NEW s \in Seq(S), NEW m \in 1 .. Len(s),
         \A i, k \in 1 .. Len(s) : s[i] = s[k] => i = k
  PROVE  LET r == RemoveAt(s, m) IN
         /\ ToSet(r) = ToSet(s) \ {s[m]}
         /\ \A i, k \in 1 .. Len(r) : r[i] = r[k] => i = k
<1> DEFINE r == RemoveAt(s, m)
<1>1. /\ r \in Seq(S) /\ Len(r) = Len(s) - 1
      /\ \A i \in 1 .. Len(s) - 1 : r[i] = IF i < m THEN s[i] ELSE s[i + 1]
  BY RemoveAtFacts
<1> HIDE DEF r
<1>2. /\ Len(s) \in Nat /\ m \in Nat /\ 1 <= m /\ m <= Len(s)
      /\ DOMAIN s = 1 .. Len(s) /\ DOMAIN r = 1 .. Len(s) - 1
  BY <1>1
<1>3. \A i \in 1 .. Len(s) - 1 :
        \E k \in 1 .. Len(s) : k # m /\ r[i] = s[k] /\ k = IF i < m THEN i ELSE i + 1
  <2> TAKE i \in 1 .. Len(s) - 1
  <2>1. CASE i < m
    <3>1. i \in 1 .. Len(s) /\ i # m /\ r[i] = s[i]
      BY <1>1, <1>2, <2>1
    <3> QED BY <2>1, <3>1
  <2>2. CASE ~ (i < m)
    <3>1. i + 1 \in 1 .. Len(s) /\ i + 1 # m /\ r[i] = s[i + 1]
      BY <1>1, <1>2, <2>2
    <3> QED BY <2>2, <3>1
  <2> QED BY <2>1, <2>2
<1>4. \A k \in 1 .. Len(s) : k # m => \E i \in 1 .. Len(s) - 1 : r[i] = s[k]
  <2> SUFFICES ASSUME NEW k \in 1 .. Len(s), k # m
               PROVE  \E i \in 1 .. Len(s) - 1 : r[i] = s[k]
    OBVIOUS
  <2>1. CASE k < m
    <3>1. k \in 1 .. Len(s) - 1 /\ r[k] = s[k]
      BY <1>1, <1>2, <2>1
    <3> QED BY <3>1
  <2>2. CASE k > m
    <3>1. k - 1 \in 1 .. Len(s) - 1 /\ ~ (k - 1 < m) /\ (k - 1) + 1 = k
      BY <1>2, <2>2
    <3>2. r[k - 1] = s[k]
      BY <1>1, <3>1
    <3> QED BY <3>1, <3>2
  <2> QED BY <1>2, <2>1, <2>2
<1>5. ToSet(r) = ToSet(s) \ {s[m]}
  <2>1. ASSUME NEW x \in ToSet(r) PROVE x \in ToSet(s) /\ x # s[m]
    <3>1. PICK i \in 1 .. Len(s) - 1 : x = r[i]
      BY <1>2, <2>1 DEF ToSet
    <3>2. PICK k \in 1 .. Len(s) : k # m /\ r[i] = s[k]
      BY <1>3
    <3> QED BY <1>2, <3>1, <3>2 DEF ToSet
  <2>2. ASSUME NEW x \in ToSet(s), x # s[m] PROVE x \in ToSet(r)
    <3>1. PICK k \in 1 .. Len(s) : x = s[k]
      BY <1>2 DEF ToSet
    <3>2. PICK i \in 1 .. Len(s) - 1 : r[i] = s[k]
      BY <1>4, <2>2, <3>1
    <3> QED BY <1>2, <3>1, <3>2 DEF ToSet
  <2> QED BY <2>1, <2>2
<1>6. ASSUME NEW i \in 1 .. Len(r), NEW k \in 1 .. Len(r), r[i] = r[k]
      PROVE  i = k
  <2>1. i \in 1 .. Len(s) - 1 /\ k \in 1 .. Len(s) - 1
    BY <1>1
  <2>2. PICK a \in 1 .. Len(s) : r[i] = s[a] /\ a = IF i < m THEN i ELSE i + 1
    BY <1>3, <2>1
  <2>3. PICK b \in 1 .. Len(s) : r[k] = s[b] /\ b = IF k < m THEN k ELSE k + 1
    BY <1>3, <2>1
  <2>4. a = b
    BY <1>6, <2>2, <2>3
  <2> QED BY <1>2, <2>1, <2>2, <2>3, <2>4
<1> QED BY <1>5, <1>6 DEF r

\* The last element of a sequence replaced.
LEMMA ReplaceLastFacts ==
  ASSUME NEW S, NEW s \in Seq(S), s # <<>>, NEW e \in S
  PROVE  LET r == [s EXCEPT ![Len(s)] = e] IN
         /\ r \in Seq(S) /\ Len(r) = Len(s) /\ r[Len(s)] = e /\ r # <<>>
         /\ \A i \in 1 .. Len(s) : i # Len(s) => r[i] = s[i]
<1>1. Len(s) \in 1 .. Len(s)
  <2>1. Len(s) \in Nat /\ Len(s) # 0
    BY EmptySeq
  <2> QED BY <2>1
<1>2. DOMAIN s = 1 .. Len(s)
  OBVIOUS
<1> DEFINE r == [s EXCEPT ![Len(s)] = e]
<1>3. r \in Seq(S) /\ Len(r) = Len(s)
  BY <1>1, ExceptSeq
<1>4. r[Len(s)] = e /\ \A i \in 1 .. Len(s) : i # Len(s) => r[i] = s[i]
  BY <1>1, <1>2
<1>5. r # <<>>
  BY <1>1, <1>3
<1> QED BY <1>3, <1>4, <1>5

(***************************************************************************)
(* Induction and recursion over the naturals, for sets and functions: the  *)
(* sets of those for which a formula holds, and the functions that a step  *)
(* makes of the values before.                                             *)
(***************************************************************************)

\* A set with 0 and the successor of each of its naturals has them all.
LEMMA NatInduct ==
  ASSUME NEW T, 0 \in T, \A n \in Nat : n \in T => n + 1 \in T
  PROVE  \A n \in Nat : n \in T
<1> SUFFICES ASSUME NEW n \in Nat, n \notin T PROVE FALSE
  OBVIOUS
<1>1. PICK m \in Nat \ T : \A k \in Nat \ T : m <= k
  <2>1. Nat \ T \in SUBSET Nat /\ Nat \ T # {}
    OBVIOUS
  <2> QED BY <2>1, LeastNat
<1>2. m # 0 /\ m - 1 \in Nat /\ (m - 1) + 1 = m
  BY <1>1
<1>3. m - 1 \in T
  BY <1>1, <1>2
<1> QED BY <1>1, <1>2, <1>3

\* The same from all that come before.
LEMMA StrongInduct ==
  ASSUME NEW T, \A n \in Nat : (\A m \in 0 .. n - 1 : m \in T) => n \in T
  PROVE  \A n \in Nat : n \in T
<1> SUFFICES ASSUME NEW n \in Nat, n \notin T PROVE FALSE
  OBVIOUS
<1>1. PICK m \in Nat \ T : \A k \in Nat \ T : m <= k
  <2>1. Nat \ T \in SUBSET Nat /\ Nat \ T # {}
    OBVIOUS
  <2> QED BY <2>1, LeastNat
<1>2. \A k \in 0 .. m - 1 : k \in T
  BY <1>1
<1> QED BY <1>1, <1>2

\* The function that a step makes of the value before.
MadeFrom(f, V, base, step) ==
  f \in [Nat -> V] /\ f[0] = base /\ \A n \in Nat : f[n + 1] = step[n][f[n]]

LEMMA PrimRec ==
  ASSUME NEW V, NEW base \in V, NEW step \in [Nat -> [V -> V]]
  PROVE  \E f : MadeFrom(f, V, base, step)
<1> DEFINE Starts(g, n) ==
             /\ g \in [0 .. n -> V] /\ g[0] = base
             /\ \A k \in 0 .. n - 1 : g[k + 1] = step[k][g[k]]
           T == { n \in Nat : \E g : Starts(g, n) }
<1>1. ASSUME NEW m \in Nat, NEW n \in Nat, NEW g, NEW h, Starts(g, m), Starts(h, n)
      PROVE  \A k \in Nat : k <= m /\ k <= n => g[k] = h[k]
  <2> DEFINE U == { k \in Nat : k <= m /\ k <= n => g[k] = h[k] }
  <2>1. 0 \in U
    BY <1>1
  <2>2. ASSUME NEW k \in Nat, k \in U PROVE k + 1 \in U
    <3> SUFFICES ASSUME k + 1 <= m, k + 1 <= n PROVE g[k + 1] = h[k + 1]
      OBVIOUS
    <3>1. k \in 0 .. m - 1 /\ k \in 0 .. n - 1 /\ g[k] = h[k]
      BY <2>2
    <3> QED BY <3>1, <1>1
  <2> HIDE DEF U
  <2>3. \A k \in Nat : k \in U
    BY <2>1, <2>2, NatInduct
  <2> QED BY <2>3 DEF U
<1>2. 0 \in T
  <2>1. Starts([k \in 0 .. 0 |-> base], 0)
    OBVIOUS
  <2> QED BY <2>1
<1>3. ASSUME NEW n \in Nat, n \in T PROVE n + 1 \in T
  <2>1. PICK g : Starts(g, n)
    BY <1>3
  <2> DEFINE h == [k \in 0 .. n + 1 |-> IF k <= n THEN g[k] ELSE step[n][g[n]]]
  <2>2. g[n] \in V /\ step[n][g[n]] \in V
    BY <2>1
  <2>3. h \in [0 .. n + 1 -> V] /\ h[0] = base
    BY <2>1, <2>2
  <2>4. ASSUME NEW k \in 0 .. n PROVE h[k + 1] = step[k][h[k]]
    <3>1. CASE k = n
      BY <3>1
    <3>2. CASE k # n
      <4>1. k \in 0 .. n - 1 /\ h[k + 1] = g[k + 1] /\ h[k] = g[k]
        BY <3>2
      <4> QED BY <4>1, <2>1
    <3> QED BY <3>1, <3>2
  <2> HIDE DEF h
  <2>5. Starts(h, n + 1)
    BY <2>3, <2>4
  <2> QED BY <2>5
<1> HIDE DEF Starts
<1>4. \A n \in Nat : \E g : Starts(g, n)
  <2> HIDE DEF T
  <2>1. \A n \in Nat : n \in T
    BY <1>2, <1>3, NatInduct
  <2> QED BY <2>1 DEF T
<1> DEFINE part(n) == CHOOSE g : Starts(g, n)
           f == [n \in Nat |-> part(n)[n]]
<1>5. \A n \in Nat : Starts(part(n), n)
  BY <1>4
<1> HIDE DEF part
<1>6. f \in [Nat -> V] /\ f[0] = base
  BY <1>5 DEF Starts
<1>7. ASSUME NEW n \in Nat PROVE f[n + 1] = step[n][f[n]]
  <2>1. /\ Starts(part(n), n) /\ Starts(part(n + 1), n + 1)
        /\ n + 1 \in Nat /\ n <= n /\ n <= n + 1
    BY <1>5
  <2>2. part(n + 1)[n] = part(n)[n]
    BY <2>1, <1>1
  <2>3. part(n + 1)[n + 1] = step[n][part(n + 1)[n]]
    BY <2>1 DEF Starts
  <2> QED BY <2>2, <2>3
<1>8. MadeFrom(f, V, base, step)
  BY <1>6, <1>7 DEF MadeFrom
<1> QED BY <1>8

\* The same for the numbers up to n, as a recursive function over 0 .. n needs it.
MadeUpTo(f, n, V, base, step) ==
  f \in [0 .. n -> V] /\ f[0] = base /\ \A i \in 1 .. n : f[i] = step[i][f[i - 1]]

LEMMA RangeRec ==
  ASSUME NEW n \in Nat, NEW V, NEW base \in V, NEW step \in [1 .. n -> [V -> V]]
  PROVE  \E f : MadeUpTo(f, n, V, base, step)
<1> DEFINE next == [k \in Nat |-> IF k < n THEN step[k + 1] ELSE [v \in V |-> v]]
<1>1. next \in [Nat -> [V -> V]]
  <2>1. ASSUME NEW k \in Nat, k < n PROVE step[k + 1] \in [V -> V]
    <3>1. k + 1 \in 1 .. n
      BY <2>1
    <3> QED BY <3>1
  <2> QED BY <2>1
<1>2. PICK f : MadeFrom(f, V, base, next)
  <2> HIDE DEF next
  <2> QED BY <1>1, PrimRec
<1> DEFINE g == [i \in 0 .. n |-> f[i]]
<1>3. g \in [0 .. n -> V] /\ g[0] = base
  BY <1>2 DEF MadeFrom
<1>4. ASSUME NEW i \in 1 .. n PROVE g[i] = step[i][g[i - 1]]
  <2>1. PICK k \in Nat : k = i - 1
    OBVIOUS
  <2>2. k < n /\ k + 1 = i /\ k \in 0 .. n /\ i \in 0 .. n
    BY <2>1
  <2>3. f[k + 1] = next[k][f[k]] /\ next[k] = step[k + 1]
    BY <2>2, <1>2 DEF MadeFrom
  <2> QED BY <2>1, <2>2, <2>3
<1> HIDE DEF g
<1>5. MadeUpTo(g, n, V, base, step)
  BY <1>3, <1>4 DEF MadeUpTo
<1> QED BY <1>5

\* A set with 0 and, up to n, the successor of each of its numbers has all up to n.
LEMMA RangeInduct ==
  ASSUME NEW n \in Nat, NEW T, 0 \in T, \A i \in 1 .. n : i - 1 \in T => i \in T
  PROVE  \A i \in 0 .. n : i \in T
<1> DEFINE U == { k \in Nat : k <= n => k \in T }
<1>1. 0 \in U
  OBVIOUS
<1>2. ASSUME NEW k \in Nat, k \in U PROVE k + 1 \in U
  <2> SUFFICES ASSUME k + 1 <= n PROVE k + 1 \in T
    OBVIOUS
  <2>1. k + 1 \in 1 .. n /\ (k + 1) - 1 = k /\ k \in T
    BY <1>2
  <2> QED BY <2>1
<1> HIDE DEF U
<1>3. \A k \in Nat : k \in U
  BY <1>1, <1>2, NatInduct
<1> QED BY <1>3 DEF U

\* The function that a step makes of the values before, at the numbers up to N:
\* G[n][g] is what it makes at n of a g that has the values below n.
MadeOf(f, V, G) == f \in [Nat -> V] /\ \A n \in Nat : f[n] = G[n][f]

LEMMA CourseRec ==
  ASSUME NEW V, V # {}, NEW G \in [Nat -> [[Nat -> V] -> V]],
         \A n \in Nat : \A g, h \in [Nat -> V] :
           (\A m \in 0 .. n - 1 : g[m] = h[m]) => G[n][g] = G[n][h]
  PROVE  \E f : MadeOf(f, V, G)
<1> DEFINE W == [Nat -> V]
           step == [n \in Nat |-> [g \in W |-> [g EXCEPT ![n] = G[n][g]]]]
<1>1. PICK g0 \in W : TRUE
  <2>1. PICK v \in V : TRUE
    OBVIOUS
  <2>2. [n \in Nat |-> v] \in W
    OBVIOUS
  <2> QED BY <2>2
<1>2. step \in [Nat -> [W -> W]]
  OBVIOUS
<1>3. \A n \in Nat, g \in W : step[n][g] = [g EXCEPT ![n] = G[n][g]]
  OBVIOUS
<1> HIDE DEF step
<1>4. PICK s \in [Nat -> W] :
        s[0] = g0 /\ \A n \in Nat : s[n + 1] = step[n][s[n]]
  <2> HIDE DEF W
  <2>1. \E h : MadeFrom(h, W, g0, step)
    BY <1>1, <1>2, PrimRec
  <2> QED BY <2>1 DEF MadeFrom
<1>5. \A n \in Nat : s[n] \in W /\ s[n + 1] = [s[n] EXCEPT ![n] = G[n][s[n]]]
  BY <1>3, <1>4
<1> DEFINE f == [n \in Nat |-> s[n + 1][n]]
<1>6. f \in W
  BY <1>5
<1>7. ASSUME NEW n \in Nat, NEW m \in 0 .. n - 1 PROVE s[n][m] = f[m]
  <2> DEFINE T == { d \in Nat : s[m + 1 + d][m] = f[m] }
  <2>1. 0 \in T
    OBVIOUS
  <2>2. ASSUME NEW d \in Nat, d \in T PROVE d + 1 \in T
    <3>1. m + 1 + d \in Nat /\ m \in Nat /\ m # m + 1 + d /\ m + 1 + (d + 1) = (m + 1 + d) + 1
      OBVIOUS
    <3> DEFINE g == s[m + 1 + d]
    <3>2. g \in [Nat -> V] /\ s[m + 1 + (d + 1)] = [g EXCEPT ![m + 1 + d] = G[m + 1 + d][g]]
      BY <3>1, <1>5
    <3> HIDE DEF g
    <3>3. s[m + 1 + (d + 1)][m] = g[m]
      BY <3>1, <3>2
    <3> QED BY <3>3, <2>2 DEF g
  <2> HIDE DEF T
  <2>3. \A d \in Nat : d \in T
    BY <2>1, <2>2, NatInduct
  <2>4. n - (m + 1) \in Nat /\ m + 1 + (n - (m + 1)) = n
    OBVIOUS
  <2> QED BY <2>3, <2>4 DEF T
<1>8. ASSUME NEW n \in Nat PROVE f[n] = G[n][f]
  <2>1. f[n] = G[n][s[n]]
    BY <1>5
  <2>2. G[n][s[n]] = G[n][f]
    <3>1. s[n] \in W /\ f \in W /\ \A m \in 0 .. n - 1 : s[n][m] = f[m]
      BY <1>5, <1>6, <1>7
    <3> HIDE DEF f
    <3>2. \A g, h \in W : (\A m \in 0 .. n - 1 : g[m] = h[m]) => G[n][g] = G[n][h]
      OBVIOUS
    <3> HIDE DEF W
    <3> QED BY <3>1, <3>2
  <2> QED BY <2>1, <2>2
<1>9. MadeOf(f, V, G)
  BY <1>6, <1>8 DEF MadeOf
<1> QED BY <1>9

\* What holds of 0 (no node) and of each node of a tree if it does of the nodes
\* after it holds of all: children come after their parents.
LEMMA TreeInduct ==
  ASSUME NEW N \in Nat, NEW T, 0 \in T,
         \A n \in 1 .. N : (\A m \in n + 1 .. N : m \in T) => n \in T
  PROVE  \A n \in 0 .. N : n \in T
<1> DEFINE U == { k \in Nat : k < N => N - k \in T }
<1>1. ASSUME NEW k \in Nat, \A j \in 0 .. k - 1 : j \in U PROVE k \in U
  <2> SUFFICES ASSUME k < N PROVE N - k \in T
    OBVIOUS
  <2>1. N - k \in 1 .. N
    OBVIOUS
  <2>2. ASSUME NEW m \in N - k + 1 .. N PROVE m \in T
    <3>1. N - m \in 0 .. k - 1 /\ N - m < N /\ N - (N - m) = m
      OBVIOUS
    <3> QED BY <3>1, <1>1
  <2> QED BY <2>1, <2>2
<1> HIDE DEF U
<1>2. \A k \in Nat : k \in U
  BY <1>1, StrongInduct
<1>3. ASSUME NEW n \in 0 .. N, n # 0 PROVE n \in T
  <2>1. N - n \in Nat /\ N - n < N /\ N - (N - n) = n
    BY <1>3
  <2> QED BY <2>1, <1>2 DEF U
<1> QED BY <1>3

\* The function that a step makes of the values at 0 and after.
Later(n, N) == IF n = 0 THEN {} ELSE {0} \cup n + 1 .. N

MadeOnTree(f, N, V, G) == f \in [0 .. N -> V] /\ \A n \in 0 .. N : f[n] = G[n][f]

LEMMA TreeRec ==
  ASSUME NEW N \in Nat, NEW V, V # {}, NEW G \in [0 .. N -> [[0 .. N -> V] -> V]],
         \A n \in 0 .. N : \A g, h \in [0 .. N -> V] :
           (\A m \in Later(n, N) : g[m] = h[m]) => G[n][g] = G[n][h]
  PROVE  \E f : MadeOnTree(f, N, V, G)
<1> DEFINE W == [0 .. N -> V]
           level(n) == IF n = 0 THEN 0 ELSE N + 1 - n
           turned(g) == [n \in 0 .. N |-> g[level(n)]]
           H == [k \in Nat |-> [g \in [Nat -> V] |->
                   IF k <= N THEN G[level(k)][turned(g)] ELSE g[0]]]
<1>1. \A n \in 0 .. N : level(n) \in 0 .. N /\ level(level(n)) = n
  OBVIOUS
<1>2. \A n \in 0 .. N : \A m \in Later(n, N) : m \in 0 .. N /\ level(m) \in 0 .. level(n) - 1
  BY DEF Later
<1>3. \A g \in [Nat -> V] : turned(g) \in W /\ \A n \in 0 .. N : turned(g)[n] = g[level(n)]
  BY <1>1
<1> HIDE DEF level, turned, W
<1>4. \A k \in 0 .. N : \A g \in W : G[k][g] \in V
  BY DEF W
<1>5. H \in [Nat -> [[Nat -> V] -> V]]
  <2> SUFFICES ASSUME NEW k \in Nat, NEW g \in [Nat -> V]
               PROVE  (IF k <= N THEN G[level(k)][turned(g)] ELSE g[0]) \in V
    OBVIOUS
  <2>1. CASE k <= N
    <3>1. k \in 0 .. N
      BY <2>1
    <3> QED BY <2>1, <3>1, <1>1, <1>3, <1>4
  <2>2. CASE ~ (k <= N)
    BY <2>2
  <2> QED BY <2>1, <2>2
<1>6. \A k \in Nat, g \in [Nat -> V] :
         H[k][g] = IF k <= N THEN G[level(k)][turned(g)] ELSE g[0]
  OBVIOUS
<1>7. ASSUME NEW k \in Nat, NEW g \in [Nat -> V], NEW h \in [Nat -> V],
             \A m \in 0 .. k - 1 : g[m] = h[m]
      PROVE  H[k][g] = H[k][h]
  <2>1. CASE k <= N
    <3>1. k \in 0 .. N /\ level(k) \in 0 .. N /\ level(level(k)) = k
      BY <2>1, <1>1
    <3>2. ASSUME NEW m \in Later(level(k), N) PROVE turned(g)[m] = turned(h)[m]
      <4>1. m \in 0 .. N /\ level(m) \in 0 .. k - 1
        BY <3>1, <1>2
      <4> QED BY <4>1, <1>3, <1>7
    <3>3. turned(g) \in W /\ turned(h) \in W
      BY <1>3
    <3>4. G[level(k)][turned(g)] = G[level(k)][turned(h)]
      BY <3>1, <3>2, <3>3 DEF W
    <3> QED BY <2>1, <3>4, <1>6
  <2>2. CASE ~ (k <= N)
    <3>1. 0 \in 0 .. k - 1
      BY <2>2
    <3> QED BY <2>2, <3>1, <1>6, <1>7
  <2> QED BY <2>1, <2>2
<1> HIDE DEF H
<1>8. PICK f : MadeOf(f, V, H)
  BY <1>5, <1>7, CourseRec
<1>9. f \in [Nat -> V] /\ \A k \in Nat : f[k] = H[k][f]
  BY <1>8 DEF MadeOf
<1> DEFINE F == turned(f)
<1>10. F \in W
  BY <1>3, <1>9
<1>11. ASSUME NEW n \in 0 .. N PROVE F[n] = G[n][F]
  <2>1. level(n) \in Nat /\ level(n) <= N /\ level(level(n)) = n
    BY <1>1
  <2>2. F[n] = f[level(n)]
    BY <1>3, <1>9
  <2>3. f[level(n)] = H[level(n)][f]
    BY <2>1, <1>9
  <2>4. H[level(n)][f] = G[level(level(n))][turned(f)]
    BY <2>1, <1>6, <1>9
  <2> QED BY <2>1, <2>2, <2>3, <2>4
<1> HIDE DEF F
<1>12. MadeOnTree(F, N, V, G)
  BY <1>10, <1>11 DEF MadeOnTree, W
<1> QED BY <1>12

(***************************************************************************)
(* Parts of sequences, and sequences of sequences.                         *)
(***************************************************************************)

\* What FlattenSeq makes of one more sequence.
LEMMA FlattenFacts ==
  ASSUME NEW S, NEW s \in Seq(Seq(S))
  PROVE  \E g \in [Nat -> Seq(S)] :
           /\ g[0] = <<>>
           /\ \A k \in 0 .. Len(s) - 1 : g[k + 1] = g[k] \o s[k + 1]
           /\ FlattenSeq(s) = g[Len(s)]
<1>0. PICK n \in Nat : n = Len(s)
  OBVIOUS
<1>i. \A i \in 1 .. n : s[i] \in Seq(S)
  BY <1>0
<1> DEFINE V == Seq(S)
           step == [k \in Nat |-> [x \in V |-> IF k < n THEN x \o s[k + 1] ELSE x]]
<1>1. step \in [Nat -> [V -> V]]
  <2>1. ASSUME NEW k \in Nat, NEW x \in V PROVE (IF k < n THEN x \o s[k + 1] ELSE x) \in V
    <3>1. CASE k < n
      <4>1. k + 1 \in 1 .. n
        BY <3>1
      <4>2. s[k + 1] \in V
        BY <4>1, <1>i
      <4> QED BY <3>1, <4>2
    <3>2. CASE ~ (k < n)
      BY <3>2
    <3> QED BY <3>1, <3>2
  <2> HIDE DEF V
  <2> QED BY <2>1
<1>2. PICK g : MadeFrom(g, V, <<>>, step)
  <2>1. <<>> \in V
    OBVIOUS
  <2> HIDE DEF V, step
  <2> QED BY <2>1, <1>1, PrimRec
<1>3. /\ g \in [Nat -> Seq(S)] /\ g[0] = <<>>
      /\ \A k \in 0 .. n - 1 : g[k + 1] = g[k] \o s[k + 1]
  <2>1. /\ g \in [Nat -> V] /\ g[0] = <<>>
        /\ \A k \in Nat : g[k + 1] = step[k][g[k]]
    BY <1>2 DEF MadeFrom
  <2>2. ASSUME NEW k \in 0 .. n - 1 PROVE g[k + 1] = g[k] \o s[k + 1]
    <3>1. k \in Nat /\ k < n
      OBVIOUS
    <3>2. g[k] \in V
      BY <3>1, <2>1
    <3> HIDE DEF V
    <3> QED BY <3>1, <3>2, <2>1
  <2> QED BY <2>1, <2>2
<1>4. FlattenSeq(s) = g[n]
  <2>1. CASE n = 0
    <3>1. FlattenSeq(s) = s
      BY <2>1, <1>0 DEF FlattenSeq
    <3>2. s = <<>>
      BY <2>1, <1>0, EmptySeq
    <3> QED BY <2>1, <3>1, <3>2, <1>3
  <2>2. CASE n # 0
    <3> DEFINE Flat(f) == f = [i \in 1 .. n |-> IF i = 1 THEN s[i] ELSE f[i - 1] \o s[i]]
               flat == CHOOSE f : Flat(f)
               h == [i \in 1 .. n |-> g[i]]
    <3>1. FlattenSeq(s) = flat[n]
      BY <1>0, <2>2 DEF FlattenSeq
    <3>2. ASSUME NEW i \in 1 .. n PROVE g[i] = IF i = 1 THEN s[i] ELSE h[i - 1] \o s[i]
      <4>1. i - 1 \in 0 .. n - 1 /\ (i - 1) + 1 = i
        OBVIOUS
      <4>2. g[i] = g[i - 1] \o s[i]
        BY <4>1, <1>3
      <4>3. CASE i = 1
        <5>1. s[1] \in Seq(S) /\ g[1] = <<>> \o s[1]
          <6>1. i = 1 /\ i - 1 = 0 /\ 1 \in 1 .. n
            BY <4>3
          <6> QED BY <6>1, <4>2, <1>3, <1>i
        <5>2. <<>> \o s[1] = s[1]
          BY <5>1
        <5> QED BY <4>3, <5>1, <5>2
      <4>4. CASE i # 1
        <5>1. i - 1 \in 1 .. n
          BY <4>4
        <5> QED BY <5>1, <4>2, <4>4
      <4> QED BY <4>3, <4>4
    <3>3. Flat(h)
      BY <3>2
    <3>4. Flat(flat)
      <4> HIDE DEF Flat, h
      <4> QED BY <3>3
    <3> HIDE DEF flat
    <3> DEFINE T == { k \in Nat : k + 1 <= n => flat[k + 1] = g[k + 1] }
    <3>5. 0 \in T
      <4>1. 1 \in 1 .. n /\ 0 + 1 = 1
        BY <2>2
      <4>2. flat[1] = s[1]
        BY <4>1, <3>4
      <4>3. g[1] = s[1]
        BY <4>1, <3>2
      <4> QED BY <4>1, <4>2, <4>3
    <3>6. ASSUME NEW k \in Nat, k \in T PROVE k + 1 \in T
      <4> SUFFICES ASSUME (k + 1) + 1 <= n PROVE flat[(k + 1) + 1] = g[(k + 1) + 1]
        OBVIOUS
      <4>1. PICK i \in 1 .. n : i = (k + 1) + 1
        OBVIOUS
      <4>2. i # 1 /\ i - 1 = k + 1 /\ i - 1 \in 1 .. n
        BY <4>1
      <4>3. flat[i - 1] = g[i - 1]
        BY <3>6, <4>2
      <4>4. flat[i] = flat[i - 1] \o s[i] /\ g[i] = g[i - 1] \o s[i]
        BY <3>2, <3>4, <4>2
      <4> QED BY <4>1, <4>3, <4>4
    <3> HIDE DEF T
    <3>7. n - 1 \in Nat /\ (n - 1) + 1 = n
      BY <2>2
    <3>8. n - 1 \in T
      BY <3>5, <3>6, <3>7, NatInduct
    <3> QED BY <3>1, <3>7, <3>8 DEF T
  <2> QED BY <2>1, <2>2
<1> QED BY <1>0, <1>3, <1>4

\* One more sequence comes behind the others.
LEMMA FlattenAppend ==
  ASSUME NEW S, NEW s \in Seq(Seq(S)), NEW t \in Seq(S)
  PROVE  /\ FlattenSeq(s) \in Seq(S)
         /\ FlattenSeq(Append(s, t)) = FlattenSeq(s) \o t
<1>1. PICK n \in Nat : n = Len(s)
  OBVIOUS
<1>2. PICK r : r = Append(s, t)
  OBVIOUS
<1>3. r \in Seq(Seq(S)) /\ Len(r) = n + 1 /\ r[n + 1] = t /\ \A i \in 1 .. n : r[i] = s[i]
  BY <1>1, <1>2
<1>4. PICK g \in [Nat -> Seq(S)] :
        /\ g[0] = <<>>
        /\ \A k \in 0 .. n - 1 : g[k + 1] = g[k] \o s[k + 1]
        /\ FlattenSeq(s) = g[n]
  BY <1>1, FlattenFacts
<1>5. PICK h \in [Nat -> Seq(S)] :
        /\ h[0] = <<>>
        /\ \A k \in 0 .. n : h[k + 1] = h[k] \o r[k + 1]
        /\ FlattenSeq(r) = h[n + 1]
  <2>1. (n + 1) - 1 = n
    OBVIOUS
  <2> QED BY <2>1, <1>3, FlattenFacts
<1> DEFINE T == { k \in Nat : k <= n => h[k] = g[k] }
<1>6. 0 \in T
  BY <1>4, <1>5
<1>7. ASSUME NEW k \in Nat, k \in T PROVE k + 1 \in T
  <2> SUFFICES ASSUME k + 1 <= n PROVE h[k + 1] = g[k + 1]
    OBVIOUS
  <2>1. k \in 0 .. n - 1 /\ k \in 0 .. n /\ k + 1 \in 1 .. n /\ k <= n
    OBVIOUS
  <2> QED BY <2>1, <1>3, <1>4, <1>5, <1>7
<1> HIDE DEF T
<1>8. n \in T
  BY <1>6, <1>7, NatInduct
<1>9. h[n] = g[n] /\ n \in 0 .. n
  BY <1>8 DEF T
<1> QED BY <1>2, <1>3, <1>4, <1>5, <1>9

\* What SubSeq leaves of the front.
LEMMA FirstOf ==
  ASSUME NEW S, NEW s \in Seq(S), NEW n \in 0 .. Len(s)
  PROVE  /\ SubSeq(s, 1, n) \in Seq(S) /\ Len(SubSeq(s, 1, n)) = n
         /\ \A i \in 1 .. n : SubSeq(s, 1, n)[i] = s[i]
<1>1. PICK a, b \in Int : a = 1 /\ b = n
  OBVIOUS
<1>2. \A i \in a .. b : s[i] \in S
  BY <1>1
<1>3. /\ SubSeq(s, a, b) \in Seq(S) /\ Len(SubSeq(s, a, b)) = IF a <= b THEN b - a + 1 ELSE 0
      /\ \A i \in 1 .. b - a + 1 : SubSeq(s, a, b)[i] = s[a + i - 1]
  BY <1>2, SubSeqProperties
<1>4. b - a + 1 = n /\ (~ (a <= b) => n = 0) /\ \A i \in 1 .. n : a + i - 1 = i
  BY <1>1
<1> QED BY <1>1, <1>3, <1>4

\* Where the elements of two sequences are in both.
LEMMA ConcatFacts ==
  ASSUME NEW S, NEW s \in Seq(S), NEW t \in Seq(S)
  PROVE  /\ s \o t \in Seq(S) /\ Len(s \o t) = Len(s) + Len(t)
         /\ \A i \in 1 .. Len(s) : (s \o t)[i] = s[i]
         /\ \A i \in 1 .. Len(t) : (s \o t)[Len(s) + i] = t[i]
<1>1. PICK m, n \in Nat : m = Len(s) /\ n = Len(t)
  OBVIOUS
<1>2. \A i \in 1 .. m : i \in 1 .. m + n /\ i <= m
  OBVIOUS
<1>3. \A i \in 1 .. n : m + i \in 1 .. m + n /\ ~ (m + i <= m) /\ (m + i) - m = i
  OBVIOUS
<1> QED BY <1>1, <1>2, <1>3, ConcatProperties

\* FlattenSeq keeps the elements of the sequences and adds none.
LEMMA FlattenElements ==
  ASSUME NEW S, NEW s \in Seq(Seq(S))
  PROVE  /\ FlattenSeq(s) \in Seq(S)
         /\ \A m \in 1 .. Len(FlattenSeq(s)) :
              \E i \in 1 .. Len(s) : \E k \in 1 .. Len(s[i]) : FlattenSeq(s)[m] = s[i][k]
         /\ \A i \in 1 .. Len(s) : \A k \in 1 .. Len(s[i]) :
              \E m \in 1 .. Len(FlattenSeq(s)) : FlattenSeq(s)[m] = s[i][k]
<1>0. PICK n \in Nat : n = Len(s)
  OBVIOUS
<1>1. PICK g \in [Nat -> Seq(S)] :
        /\ g[0] = <<>>
        /\ \A k \in 0 .. n - 1 : g[k + 1] = g[k] \o s[k + 1]
        /\ FlattenSeq(s) = g[n]
  BY <1>0, FlattenFacts
<1> DEFINE From(j) == \A m \in 1 .. Len(g[j]) : \E i \in 1 .. j : \E k \in 1 .. Len(s[i]) : g[j][m] = s[i][k]
           To(j) == \A i \in 1 .. j : \A k \in 1 .. Len(s[i]) : \E m \in 1 .. Len(g[j]) : g[j][m] = s[i][k]
           T == { j \in 0 .. n : From(j) /\ To(j) }
<1>2. 0 \in T
  <2>1. Len(g[0]) = 0
    BY <1>1
  <2> QED BY <2>1
<1>3. ASSUME NEW j \in 1 .. n, j - 1 \in T PROVE j \in T
  <2>1. PICK a \in Seq(S), b \in Seq(S), c \in Seq(S) : a = g[j - 1] /\ b = s[j] /\ c = g[j]
    <3>1. j - 1 \in Nat /\ j \in Nat /\ s[j] \in Seq(S)
      BY <1>0
    <3> QED BY <3>1, <1>1
  <2>2. c = a \o b
    <3>1. j - 1 \in 0 .. n - 1 /\ (j - 1) + 1 = j
      OBVIOUS
    <3> QED BY <3>1, <2>1, <1>1
  <2>3. PICK p, q \in Nat : p = Len(a) /\ q = Len(b)
    OBVIOUS
  <2>4. /\ Len(c) = p + q
        /\ \A m \in 1 .. p : c[m] = a[m]
        /\ \A k \in 1 .. q : c[p + k] = b[k]
    BY <2>2, <2>3, ConcatFacts
  <2>5. From(j)
    <3> SUFFICES ASSUME NEW m \in 1 .. p + q
                 PROVE  \E i \in 1 .. j : \E k \in 1 .. Len(s[i]) : c[m] = s[i][k]
      BY <2>1, <2>4
    <3>1. CASE m <= p
      <4>1. m \in 1 .. p
        BY <3>1
      <4>2. PICK i \in 1 .. j - 1 : \E k \in 1 .. Len(s[i]) : a[m] = s[i][k]
        BY <4>1, <1>3, <2>1, <2>3
      <4>3. i \in 1 .. j
        OBVIOUS
      <4> QED BY <4>1, <4>2, <4>3, <2>4
    <3>2. CASE ~ (m <= p)
      <4>1. PICK k \in 1 .. q : m = p + k
        BY <3>2
      <4>2. c[p + k] = b[k]
        BY <2>4
      <4>3. c[m] = s[j][k]
        BY <4>1, <4>2, <2>1
      <4>4. k \in 1 .. Len(s[j]) /\ j \in 1 .. j
        BY <2>1, <2>3
      <4> QED BY <4>3, <4>4
    <3> QED BY <3>1, <3>2
  <2>6. To(j)
    <3> SUFFICES ASSUME NEW i \in 1 .. j, NEW k \in 1 .. Len(s[i])
                 PROVE  \E m \in 1 .. p + q : c[m] = s[i][k]
      BY <2>1, <2>4
    <3>1. CASE i = j
      <4>1. k \in 1 .. q
        BY <3>1, <2>1, <2>3
      <4>2. c[p + k] = b[k]
        BY <4>1, <2>4
      <4>3. c[p + k] = s[i][k]
        BY <4>2, <3>1, <2>1
      <4>4. p + k \in 1 .. p + q
        BY <4>1
      <4> QED BY <4>3, <4>4
    <3>2. CASE i # j
      <4>1. i \in 1 .. j - 1
        BY <3>2
      <4>2. PICK m \in 1 .. p : a[m] = s[i][k]
        BY <4>1, <1>3, <2>1, <2>3
      <4>3. m \in 1 .. p + q /\ c[m] = s[i][k]
        BY <4>2, <2>4
      <4> QED BY <4>3
    <3> QED BY <3>1, <3>2
  <2> QED BY <2>5, <2>6
<1> HIDE DEF T
<1>4. n \in T
  <2>1. n \in 0 .. n
    OBVIOUS
  <2> QED BY <2>1, <1>2, <1>3, RangeInduct
<1>5. From(n) /\ To(n)
  BY <1>4 DEF T
<1>6. g[n] \in Seq(S)
  BY <1>1
<1> QED BY <1>0, <1>1, <1>5, <1>6
============================================================================
