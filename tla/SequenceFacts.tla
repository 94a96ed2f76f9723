--------------------------- MODULE SequenceFacts ---------------------------
(***************************************************************************)
(* Facts about numbers, recursive functions and sequences that the proofs  *)
(* about several modules need.  Induction is over a set of numbers, not    *)
(* over a predicate, and a recursive function is given by the function of  *)
(* one step, so that no fact has an operator for a parameter.              *)
(***************************************************************************)
EXTENDS Integers, FiniteSets, Sequences, SequencesExt, FiniteSetTheorems, SequenceTheorems,
        WellFoundedInduction, TLAPS

\* One number is less than another.
LessThan == {p \in Nat \X Nat : p[1] < p[2]}

\* A set of natural numbers has a least element.
LEMMA LeastNumber ==
    ASSUME NEW S, S \subseteq Nat, S # {}
    PROVE  \E n \in S : \A m \in S : n <= m
<1>1. IsWellFoundedOn(LessThan, Nat)
  BY NatLessThanWellFounded DEF OpToRel, LessThan
<1>2. PICK n \in S : \A m \in S : ~ (<<m, n>> \in LessThan)
  BY <1>1, WFMin
<1>3. ASSUME NEW m \in S PROVE n <= m
  <2>1. m \in Nat /\ n \in Nat /\ ~ (<<m, n>> \in LessThan)
    BY <1>2
  <2>2. ~ (m < n)
    BY <2>1 DEF LessThan
  <2> QED
    BY <2>1, <2>2
<1> QED
  BY <1>2, <1>3

\* A set with 0 and the successors of its numbers holds all of them.
LEMMA Induction ==
    ASSUME NEW S, 0 \in S, \A n \in Nat : n \in S => n + 1 \in S
    PROVE  \A n \in Nat : n \in S
<1> DEFINE T == Nat \ S
<1> SUFFICES ASSUME T # {} PROVE FALSE
  OBVIOUS
<1>1. PICK n \in T : \A m \in T : n <= m
  <2>1. T \subseteq Nat
    OBVIOUS
  <2> HIDE DEF T
  <2> QED
    BY <2>1, LeastNumber
<1>2. n \in Nat /\ n # 0 /\ n \notin S
  OBVIOUS
<1>3. n - 1 \in Nat /\ ~ (n <= n - 1) /\ n - 1 + 1 = n
  BY <1>2
<1>4. n - 1 \in S
  BY <1>1, <1>3
<1> QED
  BY <1>2, <1>3, <1>4

\* The same, up to n.
LEMMA InductionUpTo ==
    ASSUME NEW n \in Nat, NEW S, 0 \in S, \A i \in 1..n : i - 1 \in S => i \in S
    PROVE  \A i \in 0..n : i \in S
<1> DEFINE T == {i \in Nat : i <= n => i \in S}
<1>1. 0 \in T
  OBVIOUS
<1>2. ASSUME NEW i \in Nat, i \in T PROVE i + 1 \in T
  <2>1. CASE i + 1 <= n
    <3>1. i \in S /\ i + 1 \in 1..n /\ i + 1 - 1 = i
      BY <1>2, <2>1
    <3>2. i + 1 \in S
      BY <3>1
    <3> QED
      BY <3>2
  <2>2. CASE ~ (i + 1 <= n)
    BY <2>2
  <2> QED
    BY <2>1, <2>2
<1>3. \A i \in Nat : i \in T
  <2> HIDE DEF T
  <2> QED
    BY <1>1, <1>2, Induction
<1> QED
  BY <1>3

\* What is defined by recursion up to n exists, when a step leads from S to S.
LEMMA Recursion ==
    ASSUME NEW S, NEW b \in S, NEW n \in Nat, NEW step \in [1..n -> [S -> S]]
    PROVE  \E f \in [0..n -> S] : /\ f[0] = b
                                  /\ \A i \in 1..n : f[i] = step[i][f[i - 1]]
<1> DEFINE P(k, f) == f[0] = b /\ \A i \in 1..k : f[i] = step[i][f[i - 1]]
           T == {k \in 0..n : \E f \in [0..k -> S] : P(k, f)}
<1>1. 0 \in T
  <2>1. \E f \in [0..0 -> S] : P(0, f)
    <3>1. [i \in 0..0 |-> b] \in [0..0 -> S] /\ P(0, [i \in 0..0 |-> b])
      OBVIOUS
    <3> HIDE DEF P
    <3> QED
      BY <3>1
  <2> HIDE DEF P
  <2> QED
    BY <2>1
<1>2. ASSUME NEW k \in 1..n, k - 1 \in T PROVE k \in T
  <2>1. PICK f \in [0..(k - 1) -> S] : P(k - 1, f)
    BY <1>2
  <2> DEFINE g == [i \in 0..k |-> IF i < k THEN f[i] ELSE step[k][f[k - 1]]]
  <2>2. f[k - 1] \in S
    BY <2>1
  <2>3. g \in [0..k -> S]
    <3>1. step[k][f[k - 1]] \in S
      BY <2>2
    <3>2. \A i \in 0..k : i < k => i \in 0..(k - 1) /\ f[i] \in S
      BY <2>1
    <3> QED
      BY <3>1, <3>2
  <2>4. g[0] = b
    BY <2>1
  <2>5. ASSUME NEW i \in 1..k PROVE g[i] = step[i][g[i - 1]]
    <3>1. i - 1 \in 0..k /\ i - 1 < k /\ g[i - 1] = f[i - 1]
      OBVIOUS
    <3>2. CASE i < k
      <4>1. i \in 1..(k - 1) /\ g[i] = f[i]
        BY <3>2
      <4> QED
        BY <2>1, <3>1, <4>1
    <3>3. CASE i = k
      BY <3>1, <3>3
    <3> QED
      BY <3>2, <3>3
  <2> HIDE DEF g
  <2> QED
    BY <2>3, <2>4, <2>5
<1>3. \A k \in 0..n : k \in T
  <2> HIDE DEF T
  <2> QED
    BY <1>1, <1>2, InductionUpTo
<1> QED
  BY <1>3

\* ... and it is determined by its first value and the step.
LEMMA SameRecursion ==
    ASSUME NEW n \in Nat, NEW step, NEW f, NEW g, f[0] = g[0],
           \A i \in 1..n : f[i] = step[i][f[i - 1]],
           \A i \in 1..n : g[i] = step[i][g[i - 1]]
    PROVE  \A i \in 0..n : f[i] = g[i]
<1> DEFINE T == {i \in 0..n : f[i] = g[i]}
<1>1. 0 \in T
  OBVIOUS
<1>2. ASSUME NEW i \in 1..n, i - 1 \in T PROVE i \in T
  <2>1. f[i - 1] = g[i - 1]
    BY <1>2
  <2>2. f[i] = step[i][f[i - 1]] /\ g[i] = step[i][g[i - 1]]
    OBVIOUS
  <2> QED
    BY <2>1, <2>2
<1>3. \A i \in 0..n : i \in T
  <2> HIDE DEF T
  <2> QED
    BY <1>1, <1>2, InductionUpTo
<1> QED
  BY <1>3

-----------------------------------------------------------------------------
(* Flattening.                                                             *)

\* Sequences of sequences.
Texts(T) == Seq(Seq(T))

\* What FlattenSeq has put together after each part.
IsFlattening(f, s) ==
    /\ f[0] = <<>>
    /\ \A i \in 1..Len(s) : f[i] = f[i - 1] \o s[i]

LEMMA FlatteningExists ==
    ASSUME NEW T, NEW s \in Texts(T)
    PROVE  \E f \in [0..Len(s) -> Seq(T)] : IsFlattening(f, s)
<1> DEFINE n == Len(s)
           S == Seq(T)
           e == <<>>
           step == [i \in 1..n |-> [x \in S |-> x \o s[i]]]
<1>1. n \in Nat /\ e \in S
  BY DEF Texts
<1>2. step \in [1..n -> [S -> S]]
  <2> SUFFICES ASSUME NEW i \in 1..n, NEW x \in Seq(T) PROVE x \o s[i] \in Seq(T)
    OBVIOUS
  <2>1. s[i] \in Seq(T)
    BY DEF Texts
  <2> QED
    BY <2>1, ConcatProperties
<1>3. PICK f \in [0..n -> S] :
        f[0] = e /\ \A i \in 1..n : f[i] = step[i][f[i - 1]]
  <2>1. PICK n_, S_, e_, step_ : n_ = n /\ S_ = S /\ e_ = e /\ step_ = step
    OBVIOUS
  <2>2. n_ \in Nat /\ e_ \in S_ /\ step_ \in [1..n_ -> [S_ -> S_]]
    <3> HIDE DEF n, S, e, step
    <3> QED
      BY <1>1, <1>2, <2>1
  <2>3. \E f \in [0..n_ -> S_] :
            f[0] = e_ /\ \A i \in 1..n_ : f[i] = step_[i][f[i - 1]]
    BY <2>2, Recursion
  <2> HIDE DEF n, S, e, step
  <2> QED
    BY <2>1, <2>3
<1>4. ASSUME NEW i \in 1..n PROVE f[i] = f[i - 1] \o s[i]
  <2>1. i - 1 \in 0..n
    OBVIOUS
  <2>2. f[i - 1] \in S
    BY <2>1
  <2> QED
    BY <1>3, <2>2
<1> QED
  BY <1>3, <1>4 DEF IsFlattening

\* There is only one way to flatten.
LEMMA FlatteningIs ==
    ASSUME NEW T, NEW s \in Texts(T),
           NEW f \in [0..Len(s) -> Seq(T)], IsFlattening(f, s)
    PROVE  FlattenSeq(s) = f[Len(s)]
<1> DEFINE n == Len(s)
           Eq(g) == g = [i \in 1..n |-> IF i = 1 THEN s[i] ELSE g[i - 1] \o s[i]]
           h == [i \in 1..n |-> f[i]]
<1>1. n \in Nat
  BY DEF Texts
<1>2. CASE n = 0
  BY <1>2 DEF FlattenSeq, IsFlattening, Texts
<1>3. CASE n # 0
  <2>1. FlattenSeq(s) = (CHOOSE g : Eq(g))[n]
    BY <1>3 DEF FlattenSeq
  <2>2. Eq(h)
    <3> SUFFICES ASSUME NEW i \in 1..n
                 PROVE  f[i] = IF i = 1 THEN s[i] ELSE h[i - 1] \o s[i]
      OBVIOUS
    <3>1. f[i] = f[i - 1] \o s[i]
      BY DEF IsFlattening
    <3>2. CASE i = 1
      <4>1. f[i - 1] = <<>> /\ s[i] \in Seq(T)
        BY <3>2 DEF IsFlattening, Texts
      <4> QED
        BY <3>1, <3>2, <4>1, ConcatEmptySeq
    <3>3. CASE i # 1
      <4>1. i - 1 \in 1..n
        BY <3>3
      <4> QED
        BY <3>1, <3>3, <4>1
    <3> QED
      BY <3>2, <3>3
  <2>3. PICK g : Eq(g) /\ FlattenSeq(s) = g[n]
    <3> HIDE DEF Eq, h
    <3> QED
      BY <2>1, <2>2
  <2> DEFINE S == {i \in 0..n : i # 0 => g[i] = f[i]}
  <2>4. 0 \in S
    OBVIOUS
  <2>5. ASSUME NEW i \in 1..n, i - 1 \in S PROVE i \in S
    <3>1. g[i] = IF i = 1 THEN s[i] ELSE g[i - 1] \o s[i]
      BY <2>3
    <3>2. h[i] = IF i = 1 THEN s[i] ELSE h[i - 1] \o s[i]
      <4> HIDE DEF h
      <4> QED
        BY <2>2
    <3>3. CASE i = 1
      BY <3>1, <3>2, <3>3
    <3>4. CASE i # 1
      <4>1. i - 1 \in 1..n /\ g[i - 1] = f[i - 1]
        BY <2>5, <3>4
      <4>2. h[i] = f[i] /\ h[i - 1] = f[i - 1]
        BY <4>1
      <4>3. g[i] = h[i - 1] \o s[i] /\ h[i] = h[i - 1] \o s[i]
        <5> HIDE DEF h
        <5> QED
          BY <3>1, <3>2, <3>4, <4>1, <4>2
      <4>4. g[i] = f[i]
        <5> HIDE DEF h
        <5> QED
          BY <4>2, <4>3
      <4> QED
        BY <4>4
    <3> QED
      BY <3>3, <3>4
  <2>6. \A i \in 0..n : i \in S
    <3> HIDE DEF S, n
    <3> QED
      BY <1>1, <2>4, <2>5, InductionUpTo
  <2>7. n \in 0..n
    BY <1>1
  <2> QED
    BY <1>3, <2>3, <2>6, <2>7
<1> QED
  BY <1>2, <1>3

LEMMA FlattenType ==
    ASSUME NEW T, NEW s \in Texts(T)
    PROVE  FlattenSeq(s) \in Seq(T)
<1>1. PICK f \in [0..Len(s) -> Seq(T)] : IsFlattening(f, s)
  BY FlatteningExists
<1>2. FlattenSeq(s) = f[Len(s)] /\ Len(s) \in 0..Len(s)
  BY <1>1, FlatteningIs DEF Texts
<1> QED
  BY <1>2

LEMMA FlattenEmpty == FlattenSeq(<<>>) = <<>>
  BY DEF FlattenSeq

LEMMA FlattenAppend ==
    ASSUME NEW T, NEW s \in Texts(T), NEW x \in Seq(T)
    PROVE  FlattenSeq(Append(s, x)) = FlattenSeq(s) \o x
<1> DEFINE n == Len(s)
           t == Append(s, x)
<1>1. /\ n \in Nat /\ t \in Texts(T) /\ Len(t) = n + 1
      /\ t[n + 1] = x /\ \A i \in 1..n : t[i] = s[i]
  BY DEF Texts
<1>2. PICK f \in [0..n + 1 -> Seq(T)] : IsFlattening(f, t)
  <2> HIDE DEF t
  <2> QED
    BY <1>1, FlatteningExists
<1>3. FlattenSeq(t) = f[n + 1]
  <2> HIDE DEF t
  <2> QED
    BY <1>1, <1>2, FlatteningIs
<1> DEFINE h == [i \in 0..n |-> f[i]]
<1>4. h \in [0..n -> Seq(T)] /\ IsFlattening(h, s)
  <2>1. h[0] = <<>>
    BY <1>1, <1>2 DEF IsFlattening
  <2>2. ASSUME NEW i \in 1..n PROVE h[i] = h[i - 1] \o s[i]
    <3>1. i \in 1..n + 1 /\ i - 1 \in 0..n /\ i \in 0..n
      BY <1>1
    <3>2. f[i] = f[i - 1] \o t[i]
      BY <1>1, <1>2, <3>1 DEF IsFlattening
    <3> QED
      BY <1>1, <3>1, <3>2
  <2>3. h \in [0..n -> Seq(T)]
    BY <1>1, <1>2
  <2> HIDE DEF h
  <2> QED
    BY <2>1, <2>2, <2>3 DEF IsFlattening
<1>5. FlattenSeq(s) = f[n]
  <2>1. FlattenSeq(s) = h[n]
    <3> HIDE DEF h
    <3> QED
      BY <1>4, FlatteningIs
  <2> QED
    BY <1>1, <2>1
<1>6. f[n + 1] = f[n] \o x
  <2>1. n + 1 \in 1..Len(t) /\ n + 1 - 1 = n
    BY <1>1
  <2>2. \A i \in 1..Len(t) : f[i] = f[i - 1] \o t[i]
    BY <1>2 DEF IsFlattening
  <2>3. PICK k : k = n + 1
    OBVIOUS
  <2>4. k \in 1..Len(t) /\ k - 1 = n
    BY <1>1, <2>1, <2>3
  <2>5. f[k] = f[k - 1] \o t[k]
    <3> HIDE DEF t, n
    <3> QED
      BY <2>2, <2>4
  <2> HIDE DEF t, n
  <2> QED
    BY <1>1, <2>3, <2>4, <2>5
<1> QED
  BY <1>3, <1>5, <1>6

\* What is in a concatenation is in one of its two parts.
LEMMA Concatenated ==
    ASSUME NEW T, NEW a \in Seq(T), NEW z \in Seq(T), NEW c, c = a \o z
    PROVE  /\ c \in Seq(T)
           /\ \A j \in DOMAIN c : (\E k \in DOMAIN a : c[j] = a[k]) \/ (\E k \in DOMAIN z : c[j] = z[k])
           /\ \A k \in DOMAIN a : \E j \in DOMAIN c : c[j] = a[k]
           /\ \A k \in DOMAIN z : \E j \in DOMAIN c : c[j] = z[k]
<1>1. /\ c \in Seq(T) /\ Len(c) = Len(a) + Len(z)
      /\ \A i \in 1..Len(a) + Len(z) : c[i] = IF i <= Len(a) THEN a[i] ELSE z[i - Len(a)]
  BY ConcatProperties
<1>2. /\ Len(a) \in Nat /\ Len(z) \in Nat /\ DOMAIN a = 1..Len(a) /\ DOMAIN z = 1..Len(z)
      /\ DOMAIN c = 1..Len(a) + Len(z)
  BY <1>1
<1>3. ASSUME NEW j \in DOMAIN c
      PROVE  (\E k \in DOMAIN a : c[j] = a[k]) \/ (\E k \in DOMAIN z : c[j] = z[k])
  <2>1. CASE j <= Len(a)
    <3>1. j \in DOMAIN a /\ c[j] = a[j]
      BY <1>1, <1>2, <2>1
    <3> QED
      BY <3>1
  <2>2. CASE ~ (j <= Len(a))
    <3>1. j - Len(a) \in DOMAIN z /\ c[j] = z[j - Len(a)]
      BY <1>1, <1>2, <2>2
    <3> QED
      BY <3>1
  <2> QED
    BY <2>1, <2>2
<1>4. ASSUME NEW k \in DOMAIN a PROVE \E j \in DOMAIN c : c[j] = a[k]
  <2>1. k \in DOMAIN c /\ c[k] = a[k]
    BY <1>1, <1>2
  <2> QED
    BY <2>1
<1>5. ASSUME NEW k \in DOMAIN z PROVE \E j \in DOMAIN c : c[j] = z[k]
  <2>1. Len(a) + k \in DOMAIN c /\ ~ (Len(a) + k <= Len(a)) /\ Len(a) + k - Len(a) = k
    BY <1>2
  <2>2. c[Len(a) + k] = z[k]
    BY <1>1, <1>2, <2>1
  <2> QED
    BY <2>1, <2>2
<1>6. c \in Seq(T)
  BY <1>1
<1> QED
  BY <1>3, <1>4, <1>5, <1>6

\* What is in the parts is in the whole, and nothing else.
LEMMA FlattenElements ==
    ASSUME NEW T, NEW s \in Texts(T)
    PROVE  /\ \A j \in DOMAIN FlattenSeq(s) :
                 \E i \in DOMAIN s : \E k \in DOMAIN s[i] : FlattenSeq(s)[j] = s[i][k]
           /\ \A i \in DOMAIN s : \A k \in DOMAIN s[i] :
                 \E j \in DOMAIN FlattenSeq(s) : FlattenSeq(s)[j] = s[i][k]
<1> DEFINE n == Len(s)
<1>1. PICK f \in [0..n -> Seq(T)] : IsFlattening(f, s)
  BY FlatteningExists
<1>2. FlattenSeq(s) = f[n] /\ n \in 0..n /\ n \in Nat
  BY <1>1, FlatteningIs DEF Texts
<1> DEFINE Down(m) == \A j \in DOMAIN f[m] : \E i \in 1..m : \E k \in DOMAIN s[i] : f[m][j] = s[i][k]
           Up(m) == \A i \in 1..m : \A k \in DOMAIN s[i] : \E j \in DOMAIN f[m] : f[m][j] = s[i][k]
           S == {m \in 0..n : Down(m) /\ Up(m)}
<1>3. 0 \in S
  <2>1. f[0] = <<>> /\ 0 \in 0..n
    BY <1>1, <1>2 DEF IsFlattening
  <2> QED
    BY <2>1
<1>4. ASSUME NEW m \in 1..n, m - 1 \in S PROVE m \in S
  <2>1. /\ f[m - 1] \in Seq(T) /\ s[m] \in Seq(T) /\ m \in 0..n
        /\ f[m] = f[m - 1] \o s[m]
    <3>1. m - 1 \in 0..n /\ m \in 0..n /\ m \in 1..Len(s)
      BY <1>2
    <3>2. f[m] = f[m - 1] \o s[m]
      BY <1>1, <3>1 DEF IsFlattening
    <3>3. s[m] \in Seq(T)
      BY <3>1 DEF Texts
    <3> QED
      BY <3>1, <3>2, <3>3
  <2>2. PICK a \in Seq(T), z \in Seq(T) : f[m - 1] = a /\ s[m] = z
    BY <2>1
  <2>7. PICK c : f[m] = c /\ c = a \o z
    BY <2>1, <2>2
  <2>5. /\ \A j \in DOMAIN c : \/ \E k \in DOMAIN a : c[j] = a[k]
                               \/ \E k \in DOMAIN z : c[j] = z[k]
        /\ \A k \in DOMAIN a : \E j \in DOMAIN c : c[j] = a[k]
        /\ \A k \in DOMAIN z : \E j \in DOMAIN c : c[j] = z[k]
    BY <2>7, Concatenated
  <2>6. f[m - 1] = a /\ s[m] = z /\ f[m] = c
    BY <2>2, <2>7
  <2>3. Down(m)
    <3> SUFFICES ASSUME NEW j \in DOMAIN c
                 PROVE  \E i \in 1..m : \E k \in DOMAIN s[i] : c[j] = s[i][k]
      BY <2>6
    <3>1. CASE \E k \in DOMAIN a : c[j] = a[k]
      <4>1. PICK k \in DOMAIN a : c[j] = a[k]
        BY <3>1
      <4>2. PICK i \in 1..(m - 1) : \E l \in DOMAIN s[i] : a[k] = s[i][l]
        BY <1>4, <2>6, <4>1
      <4>3. i \in 1..m
        OBVIOUS
      <4> QED
        BY <4>1, <4>2, <4>3
    <3>2. CASE \E k \in DOMAIN z : c[j] = z[k]
      <4>1. m \in 1..m
        OBVIOUS
      <4> QED
        BY <2>6, <3>2, <4>1
    <3> QED
      BY <2>6, <3>1, <3>2, <2>5
  <2>4. Up(m)
    <3> SUFFICES ASSUME NEW i \in 1..m, NEW k \in DOMAIN s[i]
                 PROVE  \E j \in DOMAIN c : c[j] = s[i][k]
      BY <2>6
    <3>1. CASE i = m
      BY <2>6, <3>1, <2>5
    <3>2. CASE i # m
      <4>1. i \in 1..(m - 1)
        BY <3>2
      <4>2. PICK j \in DOMAIN a : a[j] = s[i][k]
        BY <1>4, <2>6, <4>1
      <4> QED
        BY <2>6, <4>2, <2>5
    <3> QED
      BY <3>1, <3>2
  <2> QED
    BY <2>1, <2>3, <2>4
<1>5. \A m \in 0..n : m \in S
  <2> HIDE DEF S, n
  <2> QED
    BY <1>2, <1>3, <1>4, InductionUpTo
<1>6. Down(n) /\ Up(n)
  <2> HIDE DEF Down, Up
  <2> QED
    BY <1>2, <1>5
<1>7. DOMAIN s = 1..n
  BY DEF Texts
<1> QED
  <2>1. PICK w : w = FlattenSeq(s) /\ w = f[n]
    BY <1>2
  <2>2. /\ \A j \in DOMAIN w : \E i \in DOMAIN s : \E k \in DOMAIN s[i] : w[j] = s[i][k]
        /\ \A i \in DOMAIN s : \A k \in DOMAIN s[i] : \E j \in DOMAIN w : w[j] = s[i][k]
    <3> HIDE DEF n
    <3> QED
      BY <1>6, <1>7, <2>1
  <2> QED
    BY <2>1, <2>2

-----------------------------------------------------------------------------
(* Texts in which every element is replaced by a text.                     *)

\* A set with the empty sequence that is closed under Append holds them all.
LEMMA SequenceInduction ==
    ASSUME NEW T, NEW S, <<>> \in S,
           \A s \in Seq(T) : s \in S => \A x \in T : Append(s, x) \in S
    PROVE  \A s \in Seq(T) : s \in S
<1> DEFINE N == {n \in Nat : \A s \in Seq(T) : Len(s) = n => s \in S}
<1>1. 0 \in N
  BY EmptySeq
<1>2. ASSUME NEW n \in Nat, n \in N PROVE n + 1 \in N
  <2> SUFFICES ASSUME NEW s \in Seq(T), Len(s) = n + 1 PROVE s \in S
    OBVIOUS
  <2>1. s # <<>>
    OBVIOUS
  <2>2. PICK t \in Seq(T), x \in T : s = Append(t, x)
    BY <2>1, SequenceEmptyOrAppend
  <2>3. Len(t) = n
    BY <2>2
  <2>4. t \in S
    BY <1>2, <2>3
  <2> QED
    BY <2>2, <2>4
<1>3. \A n \in Nat : n \in N
  <2> HIDE DEF N
  <2> QED
    BY <1>1, <1>2, Induction
<1> QED
  <2> SUFFICES ASSUME NEW s \in Seq(T) PROVE s \in S
    OBVIOUS
  <2>1. Len(s) \in Nat
    OBVIOUS
  <2>2. Len(s) \in N
    <3> HIDE DEF N
    <3> QED
      BY <1>3, <2>1
  <2> QED
    BY <2>2

\* h[x] in the place of each element x.
Spread(text, h) == FlattenSeq([i \in DOMAIN text |-> h[text[i]]])

LEMMA SequenceOf ==
    ASSUME NEW S, NEW n \in Nat, NEW f \in [1..n -> S]
    PROVE  f \in Seq(S) /\ Len(f) = n
  OBVIOUS

LEMMA SpreadParts ==
    ASSUME NEW T, NEW U, NEW text \in Seq(T), NEW h \in [T -> Seq(U)]
    PROVE  [i \in DOMAIN text |-> h[text[i]]] \in Texts(U)
<1> DEFINE parts == [i \in DOMAIN text |-> h[text[i]]]
           S == Seq(U)
<1>1. PICK n \in Nat : n = Len(text)
  OBVIOUS
<1>2. \A i \in 1..n : h[text[i]] \in S
  BY <1>1
<1>3. parts \in [1..n -> S]
  BY <1>1, <1>2
<1>4. parts \in Seq(S)
  <2> HIDE DEF parts, S
  <2> QED
    BY <1>3, SequenceOf
<1> QED
  BY <1>4 DEF Texts

LEMMA SpreadType ==
    ASSUME NEW T, NEW U, NEW text \in Seq(T), NEW h \in [T -> Seq(U)]
    PROVE  Spread(text, h) \in Seq(U)
  BY SpreadParts, FlattenType DEF Spread

LEMMA SpreadEmpty == ASSUME NEW h PROVE Spread(<<>>, h) = <<>>
<1>1. [i \in DOMAIN <<>> |-> h[<<>>[i]]] = <<>>
  OBVIOUS
<1> QED
  BY <1>1, FlattenEmpty DEF Spread

LEMMA SpreadAppend ==
    ASSUME NEW T, NEW U, NEW text \in Seq(T), NEW x \in T, NEW h \in [T -> Seq(U)]
    PROVE  Spread(Append(text, x), h) = Spread(text, h) \o h[x]
<1> DEFINE parts == [i \in DOMAIN text |-> h[text[i]]]
           more == [i \in DOMAIN Append(text, x) |-> h[Append(text, x)[i]]]
<1>1. parts \in Texts(U) /\ h[x] \in Seq(U)
  BY SpreadParts
<1>2. more = Append(parts, h[x])
  <2>1. /\ Len(parts) = Len(text) /\ Len(text) \in Nat
        /\ DOMAIN Append(text, x) = 1..Len(text) + 1
        /\ \A i \in 1..Len(text) : Append(text, x)[i] = text[i]
        /\ Append(text, x)[Len(text) + 1] = x
    OBVIOUS
  <2>2. \A i \in 1..Len(text) + 1 : more[i] = IF i <= Len(text) THEN h[text[i]] ELSE h[x]
    BY <2>1
  <2>3. \A i \in 1..Len(text) + 1 :
            Append(parts, h[x])[i] = IF i <= Len(text) THEN h[text[i]] ELSE h[x]
    BY <2>1
  <2>4. more = [i \in 1..Len(text) + 1 |-> IF i <= Len(text) THEN h[text[i]] ELSE h[x]]
    BY <2>1, <2>2
  <2>5. Append(parts, h[x]) = [i \in 1..Len(text) + 1 |-> IF i <= Len(text) THEN h[text[i]] ELSE h[x]]
    BY <2>1, <2>3
  <2> QED
    BY <2>4, <2>5
<1>3. FlattenSeq(Append(parts, h[x])) = FlattenSeq(parts) \o h[x]
  <2> HIDE DEF parts
  <2> QED
    BY <1>1, FlattenAppend
<1>4. Spread(Append(text, x), h) = FlattenSeq(more) /\ Spread(text, h) = FlattenSeq(parts)
  BY DEF Spread
<1> HIDE DEF parts, more
<1> QED
  BY <1>2, <1>3, <1>4

LEMMA SpreadOne ==
    ASSUME NEW T, NEW U, NEW x \in T, NEW h \in [T -> Seq(U)]
    PROVE  Spread(<<x>>, h) = h[x]
<1>1. PICK e \in Seq(T) : e = <<>>
  BY EmptySeq
<1>2. Spread(Append(e, x), h) = Spread(e, h) \o h[x]
  BY SpreadAppend
<1>3. Append(e, x) = <<x>>
  BY <1>1
<1>4. h[x] \in Seq(U) /\ Spread(e, h) = <<>>
  BY <1>1, SpreadEmpty
<1>5. <<>> \o h[x] = h[x]
  BY <1>4, ConcatEmptySeq
<1> QED
  BY <1>2, <1>3, <1>4, <1>5, Zenon

LEMMA SpreadConcat ==
    ASSUME NEW T, NEW U, NEW h \in [T -> Seq(U)]
    PROVE  \A a, b \in Seq(T) : Spread(a \o b, h) = Spread(a, h) \o Spread(b, h)
<1> SUFFICES ASSUME NEW a \in Seq(T)
             PROVE  \A b \in Seq(T) : Spread(a \o b, h) = Spread(a, h) \o Spread(b, h)
  OBVIOUS
<1> DEFINE S == {b \in Seq(T) : Spread(a \o b, h) = Spread(a, h) \o Spread(b, h)}
<1>1. <<>> \in S
  <2>1. a \o <<>> = a /\ <<>> \in Seq(T)
    BY ConcatEmptySeq
  <2>2. Spread(a, h) \in Seq(U)
    BY SpreadType
  <2>3. Spread(a, h) \o Spread(<<>>, h) = Spread(a, h)
    BY <2>2, SpreadEmpty, ConcatEmptySeq
  <2> QED
    BY <2>1, <2>3
<1>2. ASSUME NEW b \in Seq(T), b \in S, NEW x \in T PROVE Append(b, x) \in S
  <2>1. Append(b, x) \in Seq(T) /\ a \o b \in Seq(T)
    BY AppendProperties, ConcatProperties
  <2>2. a \o Append(b, x) = Append(a \o b, x)
    <3>1. <<x>> \in Seq(T)
      OBVIOUS
    <3>2. Append(b, x) = b \o <<x>> /\ Append(a \o b, x) = (a \o b) \o <<x>>
      BY <2>1, AppendIsConcat
    <3>3. PICK c \in Seq(T) : c = <<x>>
      BY <3>1
    <3>4. (a \o b) \o c = a \o (b \o c)
      BY ConcatAssociative
    <3> QED
      BY <3>2, <3>3, <3>4, Zenon
  <2>3. Spread(Append(a \o b, x), h) = Spread(a \o b, h) \o h[x]
    <3>1. PICK c \in Seq(T) : c = a \o b
      BY <2>1, Zenon
    <3>2. Spread(Append(c, x), h) = Spread(c, h) \o h[x]
      BY SpreadAppend
    <3> QED
      BY <3>1, <3>2, Zenon
  <2>4. Spread(Append(b, x), h) = Spread(b, h) \o h[x]
    BY SpreadAppend
  <2>5. Spread(a, h) \in Seq(U) /\ Spread(b, h) \in Seq(U) /\ h[x] \in Seq(U)
    BY SpreadType
  <2>6. (Spread(a, h) \o Spread(b, h)) \o h[x] = Spread(a, h) \o (Spread(b, h) \o h[x])
    BY <2>5, ConcatAssociative
  <2>7. Spread(a \o b, h) = Spread(a, h) \o Spread(b, h)
    BY <1>2
  <2>8. Spread(a \o Append(b, x), h) = Spread(a, h) \o Spread(Append(b, x), h)
    BY <2>2, <2>3, <2>4, <2>6, <2>7, Zenon
  <2> QED
    BY <2>1, <2>8
<1>3. \A b \in Seq(T) : b \in S
  <2> HIDE DEF S
  <2> QED
    BY <1>1, <1>2, SequenceInduction
<1> QED
  BY <1>3

\* A text for every element.
Replacements(T) == [T -> Seq(T)]

\* Two replacements in one.
LEMMA SpreadTwice ==
    ASSUME NEW T, NEW g \in Replacements(T), NEW h \in Replacements(T),
           NEW k \in Replacements(T), \A x \in T : k[x] = Spread(g[x], h)
    PROVE  \A t \in Seq(T) : Spread(Spread(t, g), h) = Spread(t, k)
<1> DEFINE S == {t \in Seq(T) : Spread(Spread(t, g), h) = Spread(t, k)}
<1>5. \A a, b \in Seq(T) : Spread(a \o b, h) = Spread(a, h) \o Spread(b, h)
  <2>1. h \in [T -> Seq(T)]
    BY DEF Replacements
  <2> QED
    BY <2>1, SpreadConcat
<1>2. <<>> \in S
  <2>1. Spread(<<>>, k) = <<>> /\ Spread(<<>>, g) = <<>> /\ Spread(<<>>, h) = <<>>
    BY SpreadEmpty
  <2> QED
    BY <2>1
<1>3. ASSUME NEW t \in Seq(T), t \in S, NEW x \in T PROVE Append(t, x) \in S
  <2>1. Append(t, x) \in Seq(T)
    BY AppendProperties
  <2>2. Spread(Append(t, x), g) = Spread(t, g) \o g[x]
    BY SpreadAppend DEF Replacements
  <2>3. Spread(t, g) \in Seq(T) /\ g[x] \in Seq(T)
    BY SpreadType DEF Replacements
  <2>4. Spread(Spread(t, g) \o g[x], h) = Spread(Spread(t, g), h) \o Spread(g[x], h)
    <3>1. PICK a \in Seq(T), b \in Seq(T) : a = Spread(t, g) /\ b = g[x]
      BY <2>3
    <3> QED
      BY <1>5, <3>1, Zenon
  <2>5. k[x] = Spread(g[x], h)
    OBVIOUS
  <2>6. Spread(Append(t, x), k) = Spread(t, k) \o k[x]
    BY SpreadAppend DEF Replacements
  <2>7. Spread(Spread(t, g), h) = Spread(t, k)
    BY <1>3
  <2>8. Spread(Spread(Append(t, x), g), h) = Spread(Append(t, x), k)
    BY <2>2, <2>4, <2>5, <2>6, <2>7, Zenon
  <2> QED
    BY <2>1, <2>8
<1>4. \A t \in Seq(T) : t \in S
  <2> HIDE DEF S
  <2> QED
    BY <1>2, <1>3, SequenceInduction
<1> QED
  BY <1>4

\* What is replaced by itself stays.
LEMMA SpreadSame ==
    ASSUME NEW T, NEW U, T \subseteq U, NEW h \in [U -> Seq(U)], \A x \in T : h[x] = <<x>>
    PROVE  \A t \in Seq(T) : Spread(t, h) = t
<1> DEFINE S == {t \in Seq(T) : Spread(t, h) = t}
<1>1. <<>> \in S
  BY SpreadEmpty
<1>2. ASSUME NEW t \in Seq(T), t \in S, NEW x \in T PROVE Append(t, x) \in S
  <2>1. t \in Seq(U) /\ x \in U /\ Append(t, x) \in Seq(T)
    BY SeqMonotonic, AppendProperties
  <2>2. Spread(Append(t, x), h) = Spread(t, h) \o h[x]
    BY <2>1, SpreadAppend
  <2>3. h[x] = <<x>> /\ Spread(t, h) = t
    BY <1>2
  <2>4. Append(t, x) = t \o <<x>>
    BY AppendIsConcat
  <2> QED
    BY <2>1, <2>2, <2>3, <2>4
<1>3. \A t \in Seq(T) : t \in S
  <2> HIDE DEF S
  <2> QED
    BY <1>1, <1>2, SequenceInduction
<1> QED
  BY <1>3

\* What has been put in the place of the elements is all there is.
LEMMA SpreadRange ==
    ASSUME NEW T, NEW U, NEW t \in Seq(T), NEW h \in [T -> Seq(U)]
    PROVE  Range(Spread(t, h)) = UNION {Range(h[t[i]]) : i \in DOMAIN t}
<1> DEFINE parts == [i \in DOMAIN t |-> h[t[i]]]
<1>1. parts \in Texts(U) /\ DOMAIN parts = DOMAIN t /\ \A i \in DOMAIN t : parts[i] = h[t[i]]
  BY SpreadParts
<1>2. Spread(t, h) = FlattenSeq(parts)
  BY DEF Spread
<1> HIDE DEF parts
<1>3. /\ \A j \in DOMAIN Spread(t, h) :
            \E i \in DOMAIN t : \E k \in DOMAIN h[t[i]] : Spread(t, h)[j] = h[t[i]][k]
      /\ \A i \in DOMAIN t : \A k \in DOMAIN h[t[i]] :
            \E j \in DOMAIN Spread(t, h) : Spread(t, h)[j] = h[t[i]][k]
  BY <1>1, <1>2, FlattenElements
<1> QED
  BY <1>3 DEF Range

-----------------------------------------------------------------------------
(* Sequences that list a set.                                              *)

\* A sequence of SetToSeqs(S) holds every element of S, at one place.
LEMMA Listing ==
    ASSUME NEW S, IsFiniteSet(S), NEW q \in SetToSeqs(S)
    PROVE  /\ q \in Seq(S) /\ Len(q) = Cardinality(S) /\ Cardinality(S) \in Nat
           /\ Range(q) = S
           /\ \A i, j \in DOMAIN q : q[i] = q[j] => i = j
<1> DEFINE D == 1..Cardinality(S)
<1>1. q \in [D -> S] /\ \A i, j \in D : i # j => q[i] # q[j]
  BY DEF SetToSeqs
<1>2. Cardinality(S) \in Nat
  BY FS_CardinalityType
<1>3. IsFiniteSet(D) /\ Cardinality(D) = Cardinality(S)
  BY <1>2, FS_Interval
<1>4. q \in Seq(S) /\ Len(q) = Cardinality(S)
  BY <1>1, <1>2, SequenceOf
<1> HIDE DEF D
<1>5. q \in Injection(D, S)
  BY <1>1 DEF Injection, IsInjective
<1>6. q \in Surjection(D, S)
  BY <1>3, <1>5, FS_Injection
<1>7. Range(q) = S
  BY <1>1, <1>6 DEF Surjection, Range
<1>8. \A i, j \in DOMAIN q : q[i] = q[j] => i = j
  BY <1>1
<1> QED
  BY <1>2, <1>4, <1>7, <1>8
=============================================================================
