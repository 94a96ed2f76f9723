-------------------------- MODULE EnrichmentProofs --------------------------
(***************************************************************************)
(* Theorems about Enrichment, for any workspace, any number of reviews and *)
(* symbols, any edits and any of the limits.                               *)
(***************************************************************************)
EXTENDS Enrichment, SequenceFacts, FiniteSetTheorems, TLAPS

-----------------------------------------------------------------------------
(* Excerpts.                                                               *)

\* The sums of the first numbers of a list.
IsSum(f, cost, m) == f[0] = 0 /\ \A n \in 1..m : f[n] = f[n - 1] + cost[n]

LEMMA SumExists ==
    ASSUME NEW m \in Nat, NEW cost \in [1..m -> Nat]
    PROVE  \E f \in [0..m -> Nat] : IsSum(f, cost, m)
<1> DEFINE step == [n \in 1..m |-> [x \in Nat |-> x + cost[n]]]
<1>1. step \in [1..m -> [Nat -> Nat]]
  OBVIOUS
<1>2. PICK f \in [0..m -> Nat] : f[0] = 0 /\ \A n \in 1..m : f[n] = step[n][f[n - 1]]
  <2>1. PICK S, b, k, t : S = Nat /\ b = 0 /\ k = m /\ t = step
    OBVIOUS
  <2>2. b \in S /\ k \in Nat /\ t \in [1..k -> [S -> S]]
    <3> HIDE DEF step
    <3> QED
      BY <1>1, <2>1
  <2>3. \E f \in [0..k -> S] : f[0] = b /\ \A n \in 1..k : f[n] = t[n][f[n - 1]]
    BY ONLY <2>2, Recursion
  <2> HIDE DEF step
  <2> QED
    BY <2>1, <2>3
<1>3. ASSUME NEW n \in 1..m PROVE f[n] = f[n - 1] + cost[n]
  <2>1. f[n - 1] \in Nat
    OBVIOUS
  <2> QED
    BY <1>2, <2>1
<1> QED
  BY <1>2, <1>3 DEF IsSum

\* A line has a number of bytes, and so have several.
LEMMA SizeType ==
    ASSUME NEW ls \in Seq(Line)
    PROVE  Size(ls) \in Nat /\ (Len(ls) = 0 => Size(ls) = 0)
<1> DEFINE newline(n) == IF n = 1 THEN 0 ELSE 1
<1>1. PICK m \in Nat : m = Len(ls)
  OBVIOUS
<1>2. \A n \in 1..m : ls[n].size \in Nat
  <2>1. \A n \in 1..m : ls[n] \in Line
    BY <1>1, ElementOfSeq
  <2> QED
    BY <2>1 DEF Line
<1> DEFINE Eq(g) == g = [n \in 0..m |-> IF n = 0 THEN 0
                                        ELSE g[n - 1] + ls[n].size + newline(n)]
<1>3. PICK cost \in [1..m -> Nat] : \A n \in 1..m : cost[n] = ls[n].size + newline(n)
  <2>1. [n \in 1..m |-> ls[n].size + newline(n)] \in [1..m -> Nat]
    BY <1>2
  <2> QED
    BY <2>1
<1>4. PICK f \in [0..m -> Nat] : IsSum(f, cost, m)
  BY SumExists
<1>5. ASSUME NEW n \in 1..m PROVE f[n] = f[n - 1] + ls[n].size + newline(n)
  <2>1. f[n - 1] \in Nat /\ ls[n].size \in Nat /\ newline(n) \in Nat
    BY <1>2
  <2>2. f[n] = f[n - 1] + (ls[n].size + newline(n))
    BY <1>3, <1>4 DEF IsSum
  <2>3. PICK a \in Nat, b \in Nat, c \in Nat :
            a = f[n - 1] /\ b = ls[n].size /\ c = newline(n)
    BY <2>1
  <2> HIDE DEF newline
  <2> QED
    BY <2>2, <2>3
<1>6. Eq(f)
  <2>1. \A n \in 0..m : n # 0 => n \in 1..m
    OBVIOUS
  <2>2. f[0] = 0
    BY <1>4 DEF IsSum
  <2> HIDE DEF newline
  <2> QED
    BY <1>5, <2>1, <2>2
<1>7. PICK g : Eq(g) /\ Size(ls) = g[m]
  <2>1. Size(ls) = (CHOOSE g : Eq(g))[m]
    BY <1>1 DEF Size
  <2> HIDE DEF Eq
  <2> QED
    BY <1>6, <2>1
<1>8. g[0] = 0 /\ \A n \in 1..m : g[n] = g[n - 1] + ls[n].size + newline(n)
  <2>1. 0 \in 0..m /\ \A n \in 1..m : n \in 0..m /\ n # 0
    OBVIOUS
  <2> HIDE DEF newline
  <2> QED
    BY <1>7, <2>1
<1> DEFINE S == {n \in 0..m : g[n] \in Nat}
<1>9. 0 \in S
  BY <1>8
<1>10. ASSUME NEW n \in 1..m, n - 1 \in S PROVE n \in S
  <2>1. g[n - 1] \in Nat /\ ls[n].size \in Nat /\ newline(n) \in Nat
    BY <1>2, <1>10
  <2>2. g[n] = g[n - 1] + ls[n].size + newline(n)
    BY <1>8
  <2>3. PICK a \in Nat, b \in Nat, c \in Nat :
            a = g[n - 1] /\ b = ls[n].size /\ c = newline(n)
    BY <2>1
  <2>4. g[n] = a + b + c
    BY ONLY <2>2, <2>3
  <2>5. a + b + c \in Nat
    OBVIOUS
  <2>6. g[n] \in Nat
    BY ONLY <2>4, <2>5
  <2> QED
    BY <2>6
<1>11. \A n \in 0..m : n \in S
  <2> HIDE DEF S
  <2> QED
    BY <1>9, <1>10, InductionUpTo
<1>12. g[m] \in Nat
  <2>1. m \in 0..m
    OBVIOUS
  <2> QED
    BY <1>11, <2>1
<1> HIDE DEF Eq
<1> QED
  BY <1>1, <1>7, <1>8, <1>12

\* A part of a sequence, between places that are there.
LEMMA Part ==
    ASSUME NEW S, NEW s \in Seq(S), NEW a \in Nat, a >= 1, NEW b \in Int, b <= Len(s)
    PROVE  /\ SubSeq(s, a, b) \in Seq(S)
           /\ Len(SubSeq(s, a, b)) = IF a <= b THEN b - a + 1 ELSE 0
           /\ \A i \in 1..b - a + 1 : SubSeq(s, a, b)[i] = s[a + i - 1]
<1>1. \A i \in a..b : s[i] \in S
  <2> SUFFICES ASSUME NEW i \in a..b PROVE s[i] \in S
    OBVIOUS
  <2>1. i \in 1..Len(s)
    OBVIOUS
  <2> QED
    BY <2>1, ElementOfSeq
<1>2. a \in Int
  OBVIOUS
<1> QED
  BY <1>1, <1>2, SubSeqProperties

\* Its beginning.
LEMMA Beginnings ==
    ASSUME NEW S, NEW s \in Seq(S), NEW n \in 0..Len(s)
    PROVE  /\ SubSeq(s, 1, n) \in Seq(S) /\ Len(SubSeq(s, 1, n)) = n
           /\ \A i \in 1..n : SubSeq(s, 1, n)[i] = s[i]
<1>1. n \in Int /\ n \in Nat /\ n <= Len(s) /\ 1 \in Nat /\ 1 >= 1
  OBVIOUS
<1>2. /\ SubSeq(s, 1, n) \in Seq(S)
      /\ Len(SubSeq(s, 1, n)) = IF 1 <= n THEN n - 1 + 1 ELSE 0
      /\ \A i \in 1..n - 1 + 1 : SubSeq(s, 1, n)[i] = s[1 + i - 1]
  BY <1>1, Part
<1>3. PICK c : c = SubSeq(s, 1, n)
  OBVIOUS
<1>4. c \in Seq(S) /\ Len(c) = n /\ \A i \in 1..n : c[i] = s[i]
  BY <1>1, <1>2, <1>3
<1> QED
  BY <1>3, <1>4

LEMMA Cutting ==
    ASSUME NEW S, NEW s \in Seq(S), NEW n \in Nat
    PROVE  /\ FirstOnes(s, n) \in Seq(S)
           /\ Len(FirstOnes(s, n)) = Lesser(Len(s), n)
           /\ \A i \in 1..Lesser(Len(s), n) : FirstOnes(s, n)[i] = s[i]
<1>1. Lesser(Len(s), n) \in 0..Len(s)
  BY DEF Lesser
<1> QED
  BY <1>1, Beginnings DEF FirstOnes

\* Sequences with the same elements are the same.
LEMMA SameSeq ==
    ASSUME NEW S, NEW s \in Seq(S), NEW t \in Seq(S), Len(s) = Len(t),
           \A i \in 1..Len(s) : s[i] = t[i]
    PROVE  s = t
  OBVIOUS

\* The elements from a to n are the same in s and t.
Agree(s, t, a, n) == \A i \in a..n : s[i] = t[i]

\* In p, that begins with element a of s, element n of s comes at its place, and
\* up to there p is as t is.
BeginsAs(p, s, t, a, n) ==
    /\ n - a + 1 \in 1..Len(p)
    /\ p[n - a + 1] = s[n]
    /\ SubSeq(p, 1, n - a + 1) = SubSeq(t, a, n)

\* The beginning of a part is a part, and a part does not tell what is after it.
LEMMA PartOfPart ==
    ASSUME NEW s \in Seq(Line), NEW t \in Seq(Line), NEW a \in Nat, a >= 1, NEW b \in Int,
           b <= Len(s), NEW n \in Nat, a <= n, n <= b, n <= Len(t),
           Agree(s, t, a, n)
    PROVE  BeginsAs(SubSeq(s, a, b), s, t, a, n)
<1>1. PICK p : p = SubSeq(s, a, b)
  OBVIOUS
<1>2. /\ p \in Seq(Line) /\ Len(p) = b - a + 1
      /\ \A i \in 1..b - a + 1 : p[i] = s[a + i - 1]
  BY <1>1, Part
<1>3. PICK k \in Nat : k = n - a + 1 /\ k >= 1 /\ k <= Len(p)
  BY <1>2
<1>4. PICK q : q = SubSeq(p, 1, k)
  OBVIOUS
<1>5. k \in 0..Len(p)
  BY <1>2, <1>3
<1>6. q \in Seq(Line) /\ Len(q) = k /\ \A i \in 1..k : q[i] = p[i]
  BY ONLY <1>2, <1>4, <1>5, Beginnings
<1>7. PICK u : u = SubSeq(t, a, n)
  OBVIOUS
<1>8. n \in Int
  OBVIOUS
<1>9. u \in Seq(Line) /\ Len(u) = n - a + 1 /\ \A i \in 1..n - a + 1 : u[i] = t[a + i - 1]
  BY <1>7, <1>8, Part
<1>10. ASSUME NEW i \in 1..k PROVE q[i] = u[i]
  <2>1. i \in 1..b - a + 1 /\ a + i - 1 \in a..n
    BY <1>2, <1>3
  <2>2. q[i] = s[a + i - 1]
    BY <1>2, <1>6, <2>1
  <2>3. u[i] = t[a + i - 1]
    BY <1>3, <1>9
  <2>4. s[a + i - 1] = t[a + i - 1]
    BY <2>1 DEF Agree
  <2> QED
    BY <2>2, <2>3, <2>4
<1>11. q = u
  <2>1. Len(q) = Len(u) /\ \A i \in 1..Len(q) : q[i] = u[i]
    BY <1>3, <1>6, <1>9, <1>10
  <2> QED
    BY ONLY <1>6, <1>9, <2>1, SameSeq
<1>12. p[k] = s[n]
  <2>1. k \in 1..b - a + 1 /\ a + k - 1 = n
    BY <1>2, <1>3
  <2> QED
    BY <1>2, <2>1
<1> QED
  BY <1>1, <1>2, <1>3, <1>4, <1>7, <1>11, <1>12 DEF BeginsAs

\* The lines that are whole within a cap: as many as have room.
LEMMA WholeInIs ==
    ASSUME NEW ls \in Seq(Line), NEW cap \in Nat
    PROVE  \E k \in 0..Len(ls) :
              /\ WholeIn(ls, cap) = SubSeq(ls, 1, k)
              /\ Size(SubSeq(ls, 1, k)) <= cap
              /\ \A n \in 0..Len(ls) : Size(SubSeq(ls, 1, n)) <= cap => n <= k
<1> DEFINE fits == {n \in 0..Len(ls) : Size(SubSeq(ls, 1, n)) <= cap}
           spare == {m \in Nat : \E n \in fits : m = Len(ls) - n}
<1>1. 0 \in fits
  <2>1. 0 \in 0..Len(ls)
    OBVIOUS
  <2>2. SubSeq(ls, 1, 0) \in Seq(Line) /\ Len(SubSeq(ls, 1, 0)) = 0
    BY <2>1, Beginnings
  <2>3. Size(SubSeq(ls, 1, 0)) = 0
    BY <2>2, SizeType
  <2> QED
    BY <2>1, <2>3
<1>2. PICK m \in spare : \A o \in spare : m <= o
  <2>1. spare \subseteq Nat /\ spare # {}
    BY <1>1
  <2> HIDE DEF spare
  <2> QED
    BY <2>1, LeastNumber
<1>3. PICK n \in fits : m = Len(ls) - n
  OBVIOUS
<1>4. ASSUME NEW o \in fits PROVE o <= n
  <2>1. Len(ls) \in Nat /\ o \in 0..Len(ls) /\ n \in 0..Len(ls)
    BY <1>3
  <2>2. Len(ls) - o \in spare
    BY <2>1
  <2>3. m <= Len(ls) - o
    BY <1>2, <2>2
  <2> QED
    BY <1>3, <2>1, <2>3
<1>5. PICK k : k = CHOOSE o \in fits : \A i \in fits : i <= o
  OBVIOUS
<1>6. k \in fits /\ \A i \in fits : i <= k
  <2> HIDE DEF fits
  <2> QED
    BY <1>3, <1>4, <1>5
<1>7. WholeIn(ls, cap) = SubSeq(ls, 1, k)
  BY <1>5 DEF WholeIn
<1> QED
  BY <1>6, <1>7

LEMMA WholeInType ==
    ASSUME NEW ls \in Seq(Line), NEW cap \in Nat
    PROVE  WholeIn(ls, cap) \in Seq(Line) /\ Size(WholeIn(ls, cap)) \in Nat
<1>1. PICK k \in 0..Len(ls) : WholeIn(ls, cap) = SubSeq(ls, 1, k)
  BY WholeInIs
<1>2. WholeIn(ls, cap) \in Seq(Line)
  BY <1>1, Beginnings
<1> QED
  BY <1>2, SizeType

\* A line up to which there is room is among them.
LEMMA WholeInShows ==
    ASSUME NEW ls \in Seq(Line), NEW cap \in Nat, NEW n \in 1..Len(ls),
           Size(SubSeq(ls, 1, n)) <= cap
    PROVE  \E j \in DOMAIN WholeIn(ls, cap) : WholeIn(ls, cap)[j] = ls[n]
<1>1. PICK k \in 0..Len(ls) :
        /\ WholeIn(ls, cap) = SubSeq(ls, 1, k)
        /\ \A m \in 0..Len(ls) : Size(SubSeq(ls, 1, m)) <= cap => m <= k
  BY WholeInIs
<1>2. PICK w : w = WholeIn(ls, cap)
  OBVIOUS
<1>3. w \in Seq(Line) /\ Len(w) = k /\ \A i \in 1..k : w[i] = ls[i]
  BY <1>1, <1>2, Beginnings
<1>4. n \in 0..Len(ls) /\ n \in 1..k
  BY <1>1
<1>5. n \in DOMAIN w /\ w[n] = ls[n]
  BY <1>3, <1>4
<1> QED
  BY <1>2, <1>5

LEMMA NoExcerptType == NoExcerpt \in Excerpt
  BY EmptySeq DEF NoExcerpt, Excerpt

LEMMA CutType ==
    ASSUME NEW ls \in Seq(Line), NEW cap \in Nat
    PROVE  Cut(ls, cap) \in Excerpt
<1>1. WholeIn(ls, cap) \in Seq(Line) /\ Size(ls) \in Nat
  BY WholeInType, SizeType
<1>2. Lesser(Size(ls), cap) \in Nat
  BY <1>1 DEF Lesser
<1> QED
  BY <1>1, <1>2 DEF Cut, Excerpt

LEMMA WholeLinesType ==
    ASSUME NEW ls \in Seq(Line), NEW cap \in Nat \ {0}
    PROVE  WholeLines(ls, cap) \in Excerpt
<1>1. cap - 1 \in Nat
  OBVIOUS
<1>2. WholeIn(ls, cap - 1) \in Seq(Line) /\ Size(WholeIn(ls, cap - 1)) \in Nat
  BY <1>1, WholeInType
<1> QED
  BY <1>2 DEF WholeLines, Excerpt

\* What a scanner yields of a file is its beginning.
LEMMA ScannedIs ==
    ASSUME NEW ls \in Seq(Line)
    PROVE  /\ Scanned(ls) \in Seq(Line) /\ Len(Scanned(ls)) <= Len(ls)
           /\ \A i \in 1..Len(Scanned(ls)) : Scanned(ls)[i] = ls[i]
<1> DEFINE long == {n \in DOMAIN ls : ls[n].size > MaxLine}
<1>1. CASE long = {}
  <2>1. Scanned(ls) = ls
    BY <1>1 DEF Scanned
  <2> QED
    BY <2>1
<1>2. CASE long # {}
  <2>1. long \subseteq Nat
    OBVIOUS
  <2>2. PICK n : n = CHOOSE k \in long : \A m \in long : k <= m
    OBVIOUS
  <2>3. n \in long
    <3> HIDE DEF long
    <3> QED
      BY <1>2, <2>1, <2>2, LeastNumber
  <2>4. n - 1 \in 0..Len(ls)
    BY <2>3
  <2>5. Scanned(ls) = SubSeq(ls, 1, n - 1)
    BY <1>2, <2>2 DEF Scanned
  <2>6. PICK k \in 0..Len(ls) : k = n - 1
    BY <2>4
  <2> QED
    BY <2>5, <2>6, Beginnings
<1> QED
  BY <1>1, <1>2

LEMMA PartsType ==
    ASSUME NEW ls \in Seq(Line), NEW part \in PartsOf(ls)
    PROVE  part \in Seq(Line)
  BY Beginnings DEF PartsOf

LEMMA SplitIs ==
    ASSUME NEW ls \in Seq(Line)
    PROVE  /\ Split(ls) \in Seq(Line) /\ Len(Split(ls)) = Len(ls) + 1
           /\ \A i \in 1..Len(ls) : Split(ls)[i] = ls[i]
<1> DEFINE L == Line
<1>1. BlankLine \in L
  BY DEF BlankLine, Line
<1>2. ls \in Seq(L)
  OBVIOUS
<1> HIDE DEF L
<1>3. /\ Append(ls, BlankLine) \in Seq(L)
      /\ Len(Append(ls, BlankLine)) = Len(ls) + 1
      /\ \A i \in 1..Len(ls) : Append(ls, BlankLine)[i] = ls[i]
  BY <1>1, <1>2, AppendProperties
<1> QED
  BY <1>3 DEF Split, L

\* The files that are present, as they are read.
LEMMA Reading ==
    ASSUME TypeOK, NEW f \in DOMAIN disk
    PROVE  /\ f \in File
           /\ disk[f].lines \in Seq(Line) /\ disk[f].mtime \in 0..edits
           /\ Pieces(f) \in Seq(Line) /\ Len(Pieces(f)) = Len(disk[f].lines) + 1
           /\ Len(disk[f].lines) \in Nat
           /\ \A i \in 1..Len(disk[f].lines) : Pieces(f)[i] = disk[f].lines[i]
<1>1. f \in File /\ disk[f].lines \in Seq(Line) /\ disk[f].mtime \in 0..edits
  BY DEF TypeOK
<1>2. Len(disk[f].lines) \in Nat
  BY <1>1
<1> QED
  BY <1>1, <1>2, SplitIs DEF Pieces

\* A line and some lines around it.
LEMMA WindowType ==
    ASSUME NEW ls \in Seq(Line), NEW n \in Nat
    PROVE  Window(ls, n) \in Seq(Line)
<1>1. Len(ls) \in Nat /\ Before \in Nat /\ After \in Nat
  BY EnrichmentAssumption
<1>2. PICK a \in Nat : a = Larger(1, n - Before) /\ a >= 1
  BY EnrichmentAssumption DEF Larger
<1>3. PICK b \in Int : b = Lesser(n + After, Len(ls)) /\ b <= Len(ls)
  BY <1>1 DEF Lesser
<1>4. SubSeq(ls, a, b) \in Seq(Line)
  BY <1>1, <1>2, <1>3, Part
<1> QED
  BY <1>2, <1>3, <1>4 DEF Window

LEMMA CapsType == Cap \in Nat \ {0} /\ TestCap \in Nat \ {0} /\ Cap \in Nat
  BY EnrichmentAssumption

LEMMA ReadExcerptAtType ==
    ASSUME NEW ls \in Seq(Line), NEW n \in Nat
    PROVE  ReadExcerptAt(ls, n) \in Excerpt
<1>1. Scanned(ls) \in Seq(Line)
  BY ScannedIs
<1>2. Window(Scanned(ls), n) \in Seq(Line)
  BY <1>1, WindowType
<1> QED
  BY <1>2, CutType, CapsType DEF ReadExcerptAt

LEMMA ReadExcerptType ==
    ASSUME NEW ls \in Seq(Line), NEW n \in Nat, NEW cap \in Nat \ {0}
    PROVE  ReadExcerpt(ls, n, cap) \in Excerpt
<1>1. CASE n = 0
  <2>1. Split(ls) \in Seq(Line) /\ cap \in Nat
    BY SplitIs
  <2> QED
    BY <1>1, <2>1, CutType DEF ReadExcerpt
<1>2. CASE n # 0
  <2>1. Scanned(ls) \in Seq(Line)
    BY ScannedIs
  <2>2. Window(Scanned(ls), n) \in Seq(Line)
    BY <2>1, WindowType
  <2> QED
    BY <1>2, <2>2, WholeLinesType DEF ReadExcerpt
<1> QED
  BY <1>1, <1>2

\* Where an excerpt of v1 ends: before the first blank line after the body.
EndOf(f, n) ==
    LET ls == Pieces(f)
        end == Lesser(n + After, Len(ls))
        ends == {i \in n + Body + 2 .. end : ls[i].blank}
    IN  IF ends = {} THEN end ELSE (CHOOSE i \in ends : \A j \in ends : i <= j) - 1

LEMMA ExcerptEnd ==
    ASSUME TypeOK, NEW f \in DOMAIN disk, NEW n \in Nat
    PROVE  /\ EndOf(f, n) \in Nat /\ EndOf(f, n) <= Len(Pieces(f))
           /\ n <= Len(Pieces(f)) => n <= EndOf(f, n)
<1>1. /\ Len(Pieces(f)) \in Nat /\ After \in Nat /\ Body \in Nat
  BY Reading, EnrichmentAssumption
<1> DEFINE ls == Pieces(f)
           end == Lesser(n + After, Len(ls))
           ends == {i \in n + Body + 2 .. end : ls[i].blank}
<1>2. end \in Nat /\ end <= Len(ls) /\ (n <= Len(ls) => n <= end)
  BY <1>1 DEF Lesser
<1>3. CASE ends = {}
  BY <1>2, <1>3 DEF EndOf
<1>4. CASE ends # {}
  <2>1. ends \subseteq Nat
    BY <1>1, <1>2
  <2>2. PICK i \in ends : \A j \in ends : i <= j
    <3> HIDE DEF ends
    <3> QED
      BY <1>4, <2>1, LeastNumber
  <2>3. PICK i_ : i_ = (CHOOSE i1 \in ends : \A j \in ends : i1 <= j)
    OBVIOUS
  <2>4. i_ \in ends
    <3> HIDE DEF ends
    <3> QED
      BY <2>2, <2>3
  <2>5. EndOf(f, n) = i_ - 1
    BY <1>4, <2>3 DEF EndOf
  <2>6. i_ \in Int /\ n + Body + 2 <= i_ /\ i_ <= end
    BY <1>1, <1>2, <2>4
  <2> HIDE DEF ends, end
  <2> QED
    BY <1>1, <1>2, <2>5, <2>6
<1> QED
  BY <1>3, <1>4

LEMMA BuildExcerptIs ==
    ASSUME NEW f \in DOMAIN disk, NEW n
    PROVE  BuildExcerpt(f, n) = Cut(SubSeq(Pieces(f), Larger(1, n - Before), EndOf(f, n)), Cap)
  BY DEF BuildExcerpt, EndOf

LEMMA BuildExcerptType ==
    ASSUME TypeOK, NEW f, NEW n \in Nat
    PROVE  BuildExcerpt(f, n) \in Excerpt
<1>1. CASE f \notin DOMAIN disk
  BY <1>1, NoExcerptType DEF BuildExcerpt
<1>2. CASE f \in DOMAIN disk
  <2>1. PICK a \in Nat : a = Larger(1, n - Before) /\ a >= 1
    BY EnrichmentAssumption DEF Larger
  <2>2. PICK b \in Int : b = EndOf(f, n) /\ b <= Len(Pieces(f))
    BY <1>2, ExcerptEnd
  <2>3. SubSeq(Pieces(f), a, b) \in Seq(Line)
    BY <1>2, <2>1, <2>2, Reading, Part
  <2>4. Cut(SubSeq(Pieces(f), a, b), Cap) \in Excerpt
    BY <2>3, CutType, CapsType
  <2> QED
    BY <1>2, <2>1, <2>2, <2>4, BuildExcerptIs
<1> QED
  BY <1>1, <1>2

-----------------------------------------------------------------------------
(* Lists of files to attach.                                               *)

\* What AttachReferenced is given: a file, an excerpt, and symbols.
Attachable(T) ==
    \A x \in T : x.file \in File /\ x.excerpt \in Excerpt /\ x.syms \subseteq Symbol

\* Each file is there once.
Distinct(refs) == \A i, j \in DOMAIN refs : refs[i].file = refs[j].file => i = j

FirstOf(refs, f) ==
    CHOOSE i \in DOMAIN refs : refs[i].file = f /\ \A j \in 1..i - 1 : refs[j].file # f
SymsOf(refs, f) == UNION {refs[i].syms : i \in {j \in DOMAIN refs : refs[j].file = f}}
InputOf(refs, f) ==
    [file |-> f, excerpt |-> refs[FirstOf(refs, f)].excerpt, syms |-> SymsOf(refs, f)]

LEMMA MergedIs ==
    ASSUME NEW refs
    PROVE  Merged(refs) = {InputOf(refs, f) : f \in FilesOf(refs)}
  BY DEF Merged, InputOf, FirstOf, SymsOf, FilesOf

\* The excerpt of a file is the one that was seen first.
LEMMA FirstIs ==
    ASSUME NEW T, NEW refs \in Seq(T), NEW f \in FilesOf(refs)
    PROVE  /\ FirstOf(refs, f) \in DOMAIN refs
           /\ refs[FirstOf(refs, f)].file = f
<1> DEFINE S == {i \in DOMAIN refs : refs[i].file = f}
<1>1. S \subseteq Nat /\ S # {}
  BY DEF FilesOf
<1>2. PICK i \in S : \A j \in S : i <= j
  <2> HIDE DEF S
  <2> QED
    BY <1>1, LeastNumber
<1>3. ASSUME NEW j \in 1..i - 1 PROVE refs[j].file # f
  <2>1. j \in DOMAIN refs /\ ~ (i <= j)
    BY <1>1
  <2> QED
    BY <1>2, <2>1
<1>4. \E i_ \in DOMAIN refs : refs[i_].file = f /\ \A j \in 1..i_ - 1 : refs[j].file # f
  BY <1>3
<1> QED
  BY <1>4 DEF FirstOf

LEMMA MergedType ==
    ASSUME NEW T, Attachable(T), NEW refs \in Seq(T)
    PROVE  Merged(refs) \subseteq Input /\ IsFiniteSet(Merged(refs))
<1>1. ASSUME NEW f \in FilesOf(refs) PROVE InputOf(refs, f) \in Input
  <2>1. PICK i \in DOMAIN refs : i = FirstOf(refs, f) /\ refs[i].file = f
    BY FirstIs
  <2>2. refs[i] \in T
    BY ElementOfSeq
  <2>3. f \in File /\ refs[i].excerpt \in Excerpt
    BY <2>1, <2>2 DEF Attachable
  <2>4. SymsOf(refs, f) \subseteq Symbol
    <3>1. \A j \in DOMAIN refs : refs[j] \in T
      BY ElementOfSeq
    <3>2. \A j \in DOMAIN refs : refs[j].syms \subseteq Symbol
      BY <3>1 DEF Attachable
    <3> QED
      BY <3>2 DEF SymsOf
  <2> QED
    BY <2>1, <2>3, <2>4 DEF InputOf, Input
<1>2. FilesOf(refs) \subseteq File
  <2>1. \A j \in DOMAIN refs : refs[j] \in T
    BY ElementOfSeq
  <2>2. \A j \in DOMAIN refs : refs[j].file \in File
    BY <2>1 DEF Attachable
  <2> QED
    BY <2>2 DEF FilesOf
<1>3. IsFiniteSet(FilesOf(refs))
  BY <1>2, FS_Subset, EnrichmentAssumption
<1>4. IsFiniteSet({InputOf(refs, f) : f \in FilesOf(refs)})
  <2> DEFINE F == FilesOf(refs)
             M == {InputOf(refs, f) : f \in F}
             g == [f \in F |-> InputOf(refs, f)]
  <2>1. g \in Surjection(F, M)
    BY DEF Surjection
  <2> HIDE DEF F, M, g
  <2>2. IsFiniteSet(M)
    BY <1>3, <2>1, FS_Surjection DEF F
  <2> QED
    BY <2>2 DEF M, F
<1> QED
  BY <1>1, <1>4, MergedIs

\* An input for each file.
LEMMA MergedElement ==
    ASSUME NEW T, NEW refs \in Seq(T), NEW x \in Merged(refs)
    PROVE  /\ x.file \in FilesOf(refs) /\ x = InputOf(refs, x.file)
           /\ \E i \in DOMAIN refs : refs[i].file = x.file /\ x.excerpt = refs[i].excerpt
<1>1. PICK f \in FilesOf(refs) : x = InputOf(refs, f)
  BY MergedIs
<1>2. x.file = f /\ x.excerpt = refs[FirstOf(refs, f)].excerpt
  BY <1>1 DEF InputOf
<1>3. FirstOf(refs, f) \in DOMAIN refs /\ refs[FirstOf(refs, f)].file = f
  BY FirstIs
<1> QED
  BY <1>1, <1>2, <1>3

LEMMA MergedFiles ==
    ASSUME NEW refs, NEW f \in FilesOf(refs)
    PROVE  \E x \in Merged(refs) : x.file = f
<1>1. InputOf(refs, f) \in Merged(refs) /\ InputOf(refs, f).file = f
  BY MergedIs DEF InputOf
<1> QED
  BY <1>1

\* A set that is sorted.
LEMMA SortedInputs ==
    ASSUME NEW S, IsFiniteSet(S), NEW q \in Sorted(S, FitOrder)
    PROVE  /\ q \in Seq(S) /\ Range(q) = S /\ \A i, j \in DOMAIN q : q[i] = q[j] => i = j
<1>1. q \in SetToSeqs(S)
  BY DEF Sorted
<1> QED
  BY <1>1, Listing

LEMMA SortedCandidates ==
    ASSUME NEW S, IsFiniteSet(S), NEW q \in Sorted(S, RankOrder)
    PROVE  /\ q \in Seq(S) /\ Range(q) = S /\ \A i, j \in DOMAIN q : q[i] = q[j] => i = j
<1>1. q \in SetToSeqs(S)
  BY DEF Sorted
<1> QED
  BY <1>1, Listing

LEMMA SortedFiles ==
    ASSUME NEW S, IsFiniteSet(S), NEW q \in Sorted(S, TierOrder)
    PROVE  /\ q \in Seq(S) /\ Range(q) = S /\ \A i, j \in DOMAIN q : q[i] = q[j] => i = j
           /\ \A i, j \in DOMAIN q : i < j => ~ TierOrder(q[j], q[i])
<1>1. q \in SetToSeqs(S) /\ \A i, j \in DOMAIN q : i < j => ~ TierOrder(q[j], q[i])
  BY DEF Sorted
<1> QED
  BY <1>1, Listing

\* The orders in which the symbols are gone through.
LEMMA SymbolOrder ==
    ASSUME NEW q, q \in BySymbol \/ q \in SetToSeqs(Symbol)
    PROVE  q \in Seq(Symbol) /\ Range(q) = Symbol /\ \A i, j \in DOMAIN q : q[i] = q[j] => i = j
<1>1. q \in SetToSeqs(Symbol)
  BY DEF BySymbol, Sorted
<1> QED
  BY <1>1, Listing, EnrichmentAssumption

\* A longer list of a smaller set.
LEMMA WiderSeq ==
    ASSUME NEW S, NEW T, S \subseteq T, NEW q \in Seq(S)
    PROVE  q \in Seq(T)
  BY SeqMonotonic

-----------------------------------------------------------------------------
(* Candidates.                                                             *)

\* What speaks for a file is finitely many.
LEMMA DirectFinite ==
    ASSUME NEW r, NEW f
    PROVE  IsFiniteSet(Direct(r, f)) /\ Cardinality(Direct(r, f)) \in Nat
<1>1. MaxRefs \in Nat /\ IsFiniteSet(Symbol)
  BY EnrichmentAssumption
<1>2. IsFiniteSet(1..MaxRefs)
  BY <1>1, FS_Interval
<1>3. IsFiniteSet(Symbol \X (1..MaxRefs))
  <2> DEFINE I == 1..MaxRefs
  <2> HIDE DEF I
  <2> QED
    BY <1>1, <1>2, FS_Product DEF I
<1>4. Direct(r, f) \subseteq Symbol \X (1..MaxRefs)
  BY DEF Direct
<1>5. IsFiniteSet(Direct(r, f))
  BY <1>3, <1>4, FS_Subset
<1> QED
  BY <1>5, FS_CardinalityType

LEMMA IndexLines ==
    ASSUME TypeOK, NEW f \in DOMAIN idx
    PROVE  f \in File /\ idx[f] \in Seq(Line) /\ Len(idx[f]) \in Nat
           /\ IsFiniteSet(DOMAIN idx[f]) /\ DOMAIN idx[f] = 1..Len(idx[f])
<1>1. idx \in Workspace
  BY DEF TypeOK
<1>2. f \in File /\ idx[f] \in Seq(Line)
  BY <1>1, EnrichmentAssumption
<1>3. Len(idx[f]) \in Nat /\ DOMAIN idx[f] = 1..Len(idx[f])
  BY <1>2
<1>4. IsFiniteSet(1..Len(idx[f]))
  BY <1>3, FS_Interval
<1> QED
  BY <1>2, <1>3, <1>4

LEMMA IndexedFinite ==
    ASSUME TypeOK, NEW f
    PROVE  /\ IsFiniteSet(Uses(f)) /\ Cardinality(Uses(f)) \in Nat
           /\ IsFiniteSet(Types(f)) /\ Cardinality(Types(f)) \in Nat
           /\ \A m \in Uses(f) \cup Types(f) :
                 f \in DOMAIN idx /\ m[1] \in DOMAIN idx[f] /\ m[1] \in Nat
<1>1. IsFiniteSet({}) /\ IsFiniteSet(Symbol) /\ IsFiniteSet(TypeRef)
  BY FS_EmptySet, FS_Subset, EnrichmentAssumption
<1>2. IsFiniteSet(Uses(f))
  <2>1. CASE ~ (config.callers /\ Indexed(f))
    BY <1>1, <2>1 DEF Uses
  <2>2. CASE config.callers /\ Indexed(f)
    <3>1. f \in DOMAIN idx
      BY <2>2 DEF Indexed
    <3>2. IsFiniteSet((DOMAIN idx[f]) \X Symbol)
      BY <1>1, <3>1, IndexLines, FS_Product
    <3>3. Uses(f) \subseteq (DOMAIN idx[f]) \X Symbol
      BY DEF Uses
    <3> QED
      BY <3>2, <3>3, FS_Subset
  <2> QED
    BY <2>1, <2>2
<1>3. IsFiniteSet(Types(f))
  <2>1. CASE ~ (config.types /\ Indexed(f))
    BY <1>1, <2>1 DEF Types
  <2>2. CASE config.types /\ Indexed(f)
    <3>1. f \in DOMAIN idx
      BY <2>2 DEF Indexed
    <3>2. IsFiniteSet((DOMAIN idx[f]) \X TypeRef)
      BY <1>1, <3>1, IndexLines, FS_Product
    <3>3. Types(f) \subseteq (DOMAIN idx[f]) \X TypeRef
      BY DEF Types
    <3> QED
      BY <3>2, <3>3, FS_Subset
  <2> QED
    BY <2>1, <2>2
<1>4. ASSUME NEW m \in Uses(f) \cup Types(f)
      PROVE  f \in DOMAIN idx /\ m[1] \in DOMAIN idx[f] /\ m[1] \in Nat
  <2>1. f \in DOMAIN idx /\ m[1] \in DOMAIN idx[f]
    BY DEF Uses, Types, Indexed
  <2> QED
    BY <2>1, IndexLines
<1> QED
  BY <1>2, <1>3, <1>4, FS_CardinalityType

\* The first line of several.
LinesOf(f) == {m[1] : m \in Uses(f) \cup Types(f)}
HintOf(f) ==
    IF LinesOf(f) = {} THEN 0 ELSE CHOOSE n \in LinesOf(f) : \A m \in LinesOf(f) : n <= m

LEMMA HintIs ==
    ASSUME TypeOK, NEW f
    PROVE  HintOf(f) \in Nat /\ (HintOf(f) # 0 => HintOf(f) \in LinesOf(f))
<1>1. LinesOf(f) \subseteq Nat
  BY IndexedFinite DEF LinesOf
<1>2. CASE LinesOf(f) = {}
  BY <1>2 DEF HintOf
<1>3. CASE LinesOf(f) # {}
  <2>1. \E n \in LinesOf(f) : \A m \in LinesOf(f) : n <= m
    BY <1>1, <1>3, LeastNumber
  <2>2. HintOf(f) \in LinesOf(f)
    BY <1>3, <2>1 DEF HintOf
  <2> QED
    BY <1>1, <2>2
<1> QED
  BY <1>2, <1>3

StrategyOf(r, f) ==
    IF Direct(r, f) # {} THEN "def_match"
    ELSE IF Uses(f) # {} THEN "caller"
    ELSE IF Types(f) # {} THEN "type_def" ELSE "test"
SpokenFor(r, f) == Direct(r, f) # {} \/ Uses(f) # {} \/ Types(f) # {} \/ IsTest(f)

LEMMA CandidateIs ==
    ASSUME NEW r, NEW f
    PROVE  Candidate(r, f) =
             [file |-> f, strategy |-> StrategyOf(r, f),
              n |-> Cardinality(Direct(r, f)) + Cardinality(Uses(f))
                      + Cardinality(Types(f)) + (IF IsTest(f) THEN 1 ELSE 0),
              hint |-> HintOf(f),
              mtime |-> IF StrategyOf(r, f) = "test" THEN disk[f].mtime ELSE 0]
  BY DEF Candidate, StrategyOf, HintOf, LinesOf

LEMMA CandidatesAre ==
    ASSUME NEW r
    PROVE  Candidates(r) = {Candidate(r, f) : f \in {g \in File : SpokenFor(r, g)}}
  BY DEF Candidates, SpokenFor

\* One for each file.
LEMMA CandidateOf ==
    ASSUME NEW r, NEW c \in Candidates(r)
    PROVE  c.file \in File /\ SpokenFor(r, c.file) /\ c = Candidate(r, c.file)
<1>1. PICK f \in File : SpokenFor(r, f) /\ c = Candidate(r, f)
  BY CandidatesAre
<1>2. c.file = f
  BY <1>1, CandidateIs
<1> QED
  BY <1>1, <1>2

LEMMA CandidatesType ==
    ASSUME TypeOK, NEW r
    PROVE  Candidates(r) \subseteq Ranked /\ IsFiniteSet(Candidates(r))
<1>1. ASSUME NEW f \in File, SpokenFor(r, f) PROVE Candidate(r, f) \in Ranked
  <2>1. StrategyOf(r, f) \in Strategy
    BY DEF StrategyOf, Strategy, Bonus
  <2>2. PICK n \in Nat :
          n = Cardinality(Direct(r, f)) + Cardinality(Uses(f))
                + Cardinality(Types(f)) + (IF IsTest(f) THEN 1 ELSE 0)
    BY DirectFinite, IndexedFinite
  <2>3. PICK t \in Nat : t = IF StrategyOf(r, f) = "test" THEN disk[f].mtime ELSE 0
    <3>1. CASE StrategyOf(r, f) # "test"
      BY <3>1
    <3>2. CASE StrategyOf(r, f) = "test"
      <4>1. f \in DOMAIN disk
        BY <1>1, <3>2 DEF StrategyOf, SpokenFor, IsTest
      <4>2. disk[f].mtime \in 0..edits /\ edits \in Nat
        BY <4>1, Reading, EnrichmentAssumption DEF TypeOK
      <4>3. disk[f].mtime \in Nat
        BY <4>2
      <4> QED
        BY <3>2, <4>3
    <3> QED
      BY <3>1, <3>2
  <2>4. HintOf(f) \in Nat
    BY HintIs
  <2>5. Candidate(r, f) = [file |-> f, strategy |-> StrategyOf(r, f), n |-> n,
                           hint |-> HintOf(f), mtime |-> t]
    BY <2>2, <2>3, CandidateIs
  <2> QED
    BY <2>1, <2>4, <2>5 DEF Ranked
<1>2. Candidates(r) \subseteq Ranked
  BY <1>1, CandidatesAre
<1>3. IsFiniteSet(Candidates(r))
  <2> DEFINE F == {g \in File : SpokenFor(r, g)}
             M == {Candidate(r, f) : f \in F}
             g == [f \in F |-> Candidate(r, f)]
  <2>1. g \in Surjection(F, M)
    BY DEF Surjection
  <2>2. F \subseteq File
    OBVIOUS
  <2>3. M = Candidates(r)
    BY CandidatesAre
  <2> HIDE DEF F, M, g
  <2>4. IsFiniteSet(F)
    BY <2>2, FS_Subset, EnrichmentAssumption
  <2>5. IsFiniteSet(M)
    BY <2>1, <2>4, FS_Surjection
  <2> QED
    BY <2>3, <2>5
<1> QED
  BY <1>2, <1>3

-----------------------------------------------------------------------------
(* Types.                                                                  *)

\* A step of one review.
LEMMA TypedTurn ==
    ASSUME TypeOK, NEW r \in Review, NEW p \in PC, NEW t \in TodoOf(p),
           UNCHANGED world,
           pc' = [pc EXCEPT ![r] = p],
           todo' = [todo EXCEPT ![r] = t] \/ (todo' = todo /\ t = todo[r]),
           began' \in [Review -> 0..edits],
           failed' \in [Review -> SUBSET MayFail],
           pending' \in [Review -> SUBSET (Nat \X Symbol)],
           matches' \in [Review -> [Symbol -> Seq(Ref)]],
           packed' \in [Review -> Seq(Packed)],
           kept' \in [Review -> Seq(Input)],
           used' \in [Review -> Nat]
    PROVE  TypeOK'
<1>1. pc \in [Review -> PC] /\ DOMAIN todo = Review
  BY DEF TypeOK
<1>2. pc' \in [Review -> PC] /\ DOMAIN todo' = Review
  BY <1>1
<1>3. ASSUME NEW q \in Review PROVE todo'[q] \in TodoOf(pc'[q])
  <2>1. CASE q = r
    BY <1>1, <2>1
  <2>2. CASE q # r
    <3>1. todo'[q] = todo[q] /\ pc'[q] = pc[q]
      BY <1>1, <2>2
    <3> QED
      BY <3>1 DEF TypeOK
  <2> QED
    BY <2>1, <2>2
<1>4. /\ edits' = edits /\ disk' = disk /\ idx' = idx /\ config' = config
  BY DEF world
<1>5. /\ edits \in 0..MaxEdits
      /\ DOMAIN disk \subseteq File
      /\ \A f \in DOMAIN disk : disk[f] \in [lines : Seq(Line), mtime : 0..edits]
      /\ idx \in Workspace
      /\ config \in Config
  BY DEF TypeOK
<1> QED
  BY <1>2, <1>3, <1>4, <1>5 DEF TypeOK

\* The parts of the invariant.
LEMMA Parts ==
    ASSUME TypeOK
    PROVE  /\ edits \in Nat /\ edits \in 0..MaxEdits
           /\ pc \in [Review -> PC] /\ DOMAIN todo = Review
           /\ began \in [Review -> 0..edits]
           /\ failed \in [Review -> SUBSET MayFail]
           /\ pending \in [Review -> SUBSET (Nat \X Symbol)]
           /\ matches \in [Review -> [Symbol -> Seq(Ref)]]
           /\ packed \in [Review -> Seq(Packed)]
           /\ kept \in [Review -> Seq(Input)]
           /\ used \in [Review -> Nat]
  BY EnrichmentAssumption DEF TypeOK

LEMMA TodoIs ==
    ASSUME TypeOK, NEW r \in Review
    PROVE  /\ pc[r] \in {"v1", "scan"} => todo[r] \in Seq(File)
           /\ pc[r] = "scan" => todo[r] # <<>>
           /\ pc[r] = "v2" => todo[r] \in Seq(Location)
           /\ pc[r] = "pack" => todo[r] \in Seq(Ranked)
           /\ pc[r] = "fit" => todo[r] \in Seq(Input)
  BY DEF TypeOK, TodoOf

\* The first of what is left.
LEMMA First ==
    ASSUME NEW S, NEW s \in Seq(S), s # <<>>
    PROVE  /\ Head(s) \in S /\ Tail(s) \in Seq(S) /\ Head(s) = s[1]
           /\ Len(Tail(s)) = Len(s) - 1 /\ Len(s) \in Nat /\ Len(s) >= 1
           /\ \A i \in 1..Len(s) - 1 : Tail(s)[i] = s[i + 1]
  OBVIOUS

LEMMA WalkTyped ==
    ASSUME TypeOK, NEW r \in Review, Walk(r) PROVE TypeOK'
<1>1. PICK unlisted \in SUBSET MayFail :
        /\ failed' = [failed EXCEPT ![r] = unlisted]
        /\ \E files \in Sorted((Walked \cap DOMAIN disk) \ unlisted, TierOrder) :
              todo' = [todo EXCEPT ![r] = files]
  BY DEF Walk
<1>0. PICK S : S = (Walked \cap DOMAIN disk) \ unlisted
  OBVIOUS
<1>10. PICK files \in Sorted(S, TierOrder) : todo' = [todo EXCEPT ![r] = files]
  BY <1>0, <1>1
<1>2. files \in Seq(File)
  <2>1. S \subseteq File
    BY <1>0, EnrichmentAssumption
  <2>2. IsFiniteSet(S)
    BY <2>1, FS_Subset, EnrichmentAssumption
  <2>3. files \in Seq(S)
    BY <1>10, <2>2, SortedFiles
  <2> QED
    BY <2>1, <2>3, WiderSeq
<1>3. files \in TodoOf("v1") /\ "v1" \in PC
  BY <1>2 DEF TodoOf, PC
<1>4. began' \in [Review -> 0..edits]
  BY Parts DEF Walk
<1>5. /\ UNCHANGED <<world, pending, matches, packed, kept, used>>
      /\ pc' = [pc EXCEPT ![r] = "v1"]
  BY DEF Walk
<1>6. failed' \in [Review -> SUBSET MayFail]
  BY <1>1, Parts
<1> QED
  BY <1>10, <1>3, <1>4, <1>5, <1>6, Parts, TypedTurn

\* A review forgets no failure, and it is that of no other.
Grows(r) ==
    /\ failed' \in [Review -> SUBSET MayFail]
    /\ \A q \in Review : failed[q] \subseteq failed'[q] /\ (q # r => failed'[q] = failed[q])

LEMMA NoFailure == ASSUME TypeOK, NEW r \in Review, failed' = failed PROVE Grows(r)
  BY Parts DEF Grows

LEMMA Failure ==
    ASSUME TypeOK, NEW r \in Review, NEW f, Fails(r, f)
    PROVE  f \in DOMAIN disk /\ f \in failed'[r] /\ Grows(r)
<1>1. /\ f \in MayFail /\ f \in DOMAIN disk
      /\ failed' = [failed EXCEPT ![r] = failed[r] \cup {f}]
  BY DEF Fails
<1>2. failed \in [Review -> SUBSET MayFail]
  BY Parts
<1> QED
  BY <1>1, <1>2 DEF Grows

\* What scanFile does when it opens a file, whether or not it comes to its end.
LEMMA ScanIs ==
    ASSUME TypeOK, NEW r \in Review, Scan(r) \/ ScanFails(r)
    PROVE  /\ todo[r] \in Seq(File) /\ todo[r] # <<>> /\ pc[r] = "v1"
           /\ Head(todo[r]) \in File
           /\ UNCHANGED <<world, began, matches, packed, kept, used>>
           /\ Grows(r)
           /\ \/ /\ Head(todo[r]) \in DOMAIN disk
                 /\ pc' = [pc EXCEPT ![r] = "scan"] /\ todo' = todo
                 /\ \E ls \in Seq(Line) :
                       /\ pending' = [pending EXCEPT ![r] = Definitions(ls)]
                       /\ Head(todo[r]) \notin failed'[r] =>
                             ls = Scanned(disk[Head(todo[r])].lines)
              \/ /\ Head(todo[r]) \notin DOMAIN disk
                 /\ todo' = [todo EXCEPT ![r] = Tail(todo[r])]
                 /\ UNCHANGED <<pc, pending>>
<1>1. todo[r] \in Seq(File) /\ todo[r] # <<>> /\ pc[r] = "v1"
  BY TodoIs DEF Scan, ScanFails
<1>2. PICK f : f = Head(todo[r])
  OBVIOUS
<1>3. f \in File
  BY <1>1, <1>2, First
<1>4. UNCHANGED <<world, began, matches, packed, kept, used>>
  BY DEF Scan, ScanFails
<1>5. CASE Scan(r)
  <2>1. Grows(r)
    BY <1>5, NoFailure DEF Scan
  <2>2. CASE f \in DOMAIN disk
    <3>1. /\ pc' = [pc EXCEPT ![r] = "scan"] /\ todo' = todo
          /\ pending' = [pending EXCEPT ![r] = Definitions(Scanned(disk[f].lines))]
      BY <1>2, <1>5, <2>2 DEF Scan
    <3>2. Scanned(disk[f].lines) \in Seq(Line)
      BY <2>2, Reading, ScannedIs
    <3> QED
      BY <1>1, <1>2, <1>3, <1>4, <2>1, <2>2, <3>1, <3>2
  <2>3. CASE f \notin DOMAIN disk
    <3>1. /\ todo' = [todo EXCEPT ![r] = Tail(todo[r])]
          /\ UNCHANGED <<pc, pending>>
      BY <1>2, <1>5, <2>3 DEF Scan
    <3> QED
      BY <1>1, <1>2, <1>3, <1>4, <2>1, <2>3, <3>1
  <2> QED
    BY <2>2, <2>3
<1>6. CASE ScanFails(r)
  <2>1. Fails(r, f)
    BY <1>2, <1>6 DEF ScanFails
  <2>2. f \in DOMAIN disk /\ f \in failed'[r] /\ Grows(r)
    BY <2>1, Failure
  <2>3. PICK ls \in PartsOf(disk[f].lines) :
          pending' = [pending EXCEPT ![r] = Definitions(Scanned(ls))]
    BY <1>2, <1>6 DEF ScanFails
  <2>4. Scanned(ls) \in Seq(Line)
    BY <2>2, Reading, PartsType, ScannedIs
  <2>5. pc' = [pc EXCEPT ![r] = "scan"] /\ todo' = todo
    BY <1>6 DEF ScanFails
  <2> QED
    BY <1>1, <1>2, <1>3, <1>4, <2>2, <2>3, <2>4, <2>5
<1> QED
  BY <1>5, <1>6

LEMMA DefinitionsType ==
    ASSUME NEW ls \in Seq(Line)
    PROVE  /\ Definitions(ls) \subseteq Nat \X Symbol
           /\ \A m \in Definitions(ls) : m[1] \in 1..Len(ls) /\ m[2] \in Symbol
                                         /\ m[2] \in ls[m[1]].def
<1>1. DOMAIN ls \subseteq Nat /\ DOMAIN ls = 1..Len(ls)
  OBVIOUS
<1> QED
  BY <1>1 DEF Definitions

LEMMA ScanTyped ==
    ASSUME TypeOK, NEW r \in Review, Scan(r) \/ ScanFails(r) PROVE TypeOK'
<1>1. PICK f : f = Head(todo[r])
  OBVIOUS
<1>2. /\ todo[r] \in Seq(File) /\ todo[r] # <<>> /\ pc[r] = "v1"
      /\ UNCHANGED <<world, began, matches, packed, kept, used>>
      /\ Grows(r)
  BY ScanIs
<1>3. failed' \in [Review -> SUBSET MayFail]
  BY <1>2 DEF Grows
<1>4. CASE f \in DOMAIN disk
  <2>1. PICK ls \in Seq(Line) :
          /\ pending' = [pending EXCEPT ![r] = Definitions(ls)]
          /\ pc' = [pc EXCEPT ![r] = "scan"] /\ todo' = todo
    BY <1>1, <1>4, ScanIs
  <2>2. todo[r] \in TodoOf("scan") /\ "scan" \in PC
    BY <1>2 DEF TodoOf, PC
  <2>3. pending' \in [Review -> SUBSET (Nat \X Symbol)]
    BY <2>1, DefinitionsType, Parts
  <2> QED
    BY <1>2, <1>3, <2>1, <2>2, <2>3, Parts, TypedTurn
<1>5. CASE f \notin DOMAIN disk
  <2>1. /\ todo' = [todo EXCEPT ![r] = Tail(todo[r])]
        /\ UNCHANGED <<pc, pending>>
    BY <1>1, <1>5, ScanIs
  <2>2. pc' = [pc EXCEPT ![r] = "v1"]
    BY <1>2, <2>1, Parts
  <2>3. Tail(todo[r]) \in TodoOf("v1") /\ "v1" \in PC
    BY <1>2, First DEF TodoOf, PC
  <2> QED
    BY <1>2, <1>3, <2>1, <2>2, <2>3, Parts, TypedTurn
<1> QED
  BY <1>4, <1>5

\* One more reference to a symbol.
LEMMA OneMore ==
    ASSUME NEW m \in [Review -> [Symbol -> Seq(Ref)]], NEW r \in Review, NEW s \in Symbol,
           NEW x \in Ref, NEW n, n = [m EXCEPT ![r][s] = Append(@, x)]
    PROVE  /\ n \in [Review -> [Symbol -> Seq(Ref)]]
           /\ n[r][s] = Append(m[r][s], x)
           /\ \A q \in Review, u \in Symbol : (q # r \/ u # s) => n[q][u] = m[q][u]
<1> DEFINE R == Seq(Ref)
<1>1. m[r][s] \in R
  OBVIOUS
<1>2. Append(m[r][s], x) \in R
  BY <1>1, AppendProperties
<1>3. PICK y : y = Append(m[r][s], x)
  OBVIOUS
<1>4. n = [m EXCEPT ![r][s] = y]
  BY <1>3
<1>5. m \in [Review -> [Symbol -> R]] /\ y \in R
  BY <1>2, <1>3
<1> HIDE DEF R
<1>6. n \in [Review -> [Symbol -> R]] /\ n[r][s] = y
  <2>1. n = [m EXCEPT ![r] = [m[r] EXCEPT ![s] = y]]
    BY <1>4
  <2>2. [m[r] EXCEPT ![s] = y] \in [Symbol -> R] /\ [m[r] EXCEPT ![s] = y][s] = y
    BY <1>5
  <2> QED
    BY <1>5, <2>1, <2>2
<1>7. \A q \in Review, u \in Symbol : (q # r \/ u # s) => n[q][u] = m[q][u]
  BY <1>4, <1>5
<1> QED
  BY <1>3, <1>6, <1>7 DEF R

\* What scanFile does with a match, whether or not buildExcerpt reads the file.
LEMMA MatchIs ==
    ASSUME TypeOK, NEW r \in Review, Match(r) \/ MatchFails(r)
    PROVE  /\ todo[r] \in Seq(File) /\ todo[r] # <<>> /\ pc[r] = "scan"
           /\ Head(todo[r]) \in File
           /\ UNCHANGED <<world, began, todo, packed, kept, used>>
           /\ Grows(r)
           /\ \E m \in Open(r) :
                /\ m[1] \in Nat /\ m[2] \in Symbol
                /\ \A o \in Open(r) : m[1] <= o[1]
                /\ \/ /\ pc' = [pc EXCEPT ![r] = "panicked"] /\ UNCHANGED <<pending, matches>>
                   \/ /\ pc' = pc /\ pending' = [pending EXCEPT ![r] = @ \ {m}]
                      /\ \E x \in Ref :
                           /\ x.sym = m[2] /\ x.file = Head(todo[r])
                           /\ matches' = [matches EXCEPT ![r][m[2]] = Append(@, x)]
                           /\ Head(todo[r]) \notin failed'[r] =>
                                x = [sym |-> m[2], file |-> Head(todo[r]),
                                     excerpt |-> BuildExcerpt(Head(todo[r]), m[1])]
<1>1. todo[r] \in Seq(File) /\ todo[r] # <<>> /\ pc[r] = "scan"
  BY TodoIs DEF Match, MatchFails
<1>2. PICK f : f = Head(todo[r])
  OBVIOUS
<1>3. f \in File
  BY <1>1, <1>2, First
<1>4. UNCHANGED <<world, began, todo, packed, kept, used>>
  BY DEF Match, MatchFails
<1>5. \A m \in Open(r) : m[1] \in Nat /\ m[2] \in Symbol
  <2>1. Open(r) \subseteq Nat \X Symbol
    BY Parts DEF Open
  <2> QED
    BY <2>1
<1>6. CASE Match(r)
  <2>1. Grows(r)
    BY <1>6, NoFailure DEF Match
  <2>2. PICK m \in Open(r) :
          /\ \A o \in Open(r) : m[1] <= o[1]
          /\ IF f \in DOMAIN disk /\ OutOfRange(f, m[1])
             THEN pc' = [pc EXCEPT ![r] = "panicked"] /\ UNCHANGED <<pending, matches>>
             ELSE /\ pending' = [pending EXCEPT ![r] = @ \ {m}]
                  /\ matches' = [matches EXCEPT ![r][m[2]] = Append(@,
                       [sym |-> m[2], file |-> f, excerpt |-> BuildExcerpt(f, m[1])])]
                  /\ UNCHANGED pc
    BY <1>2, <1>6 DEF Match
  <2>3. m[1] \in Nat /\ m[2] \in Symbol
    BY <1>5
  <2>4. CASE f \in DOMAIN disk /\ OutOfRange(f, m[1])
    <3>1. pc' = [pc EXCEPT ![r] = "panicked"] /\ UNCHANGED <<pending, matches>>
      BY <2>2, <2>4
    <3> QED
      BY <1>1, <1>2, <1>3, <1>4, <2>1, <2>2, <2>3, <3>1
  <2>5. CASE ~ (f \in DOMAIN disk /\ OutOfRange(f, m[1]))
    <3>1. PICK x : x = [sym |-> m[2], file |-> f, excerpt |-> BuildExcerpt(f, m[1])]
      OBVIOUS
    <3>2. BuildExcerpt(f, m[1]) \in Excerpt
      BY <2>3, BuildExcerptType
    <3>3. x \in Ref /\ x.sym = m[2] /\ x.file = f
      BY <1>3, <2>3, <3>1, <3>2 DEF Ref
    <3>4. /\ pending' = [pending EXCEPT ![r] = @ \ {m}] /\ UNCHANGED pc
          /\ matches' = [matches EXCEPT ![r][m[2]] = Append(@, x)]
      BY <2>2, <2>5, <3>1
    <3> QED
      BY <1>1, <1>2, <1>3, <1>4, <2>1, <2>2, <2>3, <3>1, <3>3, <3>4
  <2> QED
    BY <2>4, <2>5
<1>7. CASE MatchFails(r)
  <2>1. Fails(r, f)
    BY <1>2, <1>7 DEF MatchFails
  <2>2. f \in failed'[r] /\ Grows(r)
    BY <2>1, Failure
  <2>3. PICK m \in Open(r) :
          /\ \A o \in Open(r) : m[1] <= o[1]
          /\ pending' = [pending EXCEPT ![r] = @ \ {m}]
          /\ matches' = [matches EXCEPT ![r][m[2]] = Append(@,
               [sym |-> m[2], file |-> f, excerpt |-> NoExcerpt])]
    BY <1>2, <1>7 DEF MatchFails
  <2>4. m[1] \in Nat /\ m[2] \in Symbol
    BY <1>5
  <2>5. PICK x : x = [sym |-> m[2], file |-> f, excerpt |-> NoExcerpt]
    OBVIOUS
  <2>6. x \in Ref /\ x.sym = m[2] /\ x.file = f
    BY <1>3, <2>4, <2>5, NoExcerptType DEF Ref
  <2>7. pc' = pc
    BY <1>7 DEF MatchFails
  <2>8. matches' = [matches EXCEPT ![r][m[2]] = Append(@, x)]
    BY <2>3, <2>5
  <2> QED
    BY <1>1, <1>2, <1>3, <1>4, <2>2, <2>3, <2>4, <2>6, <2>7, <2>8
<1> QED
  BY <1>6, <1>7

LEMMA MatchTyped ==
    ASSUME TypeOK, NEW r \in Review, Match(r) \/ MatchFails(r) PROVE TypeOK'
<1>1. /\ todo[r] \in Seq(File) /\ todo[r] # <<>> /\ pc[r] = "scan"
      /\ UNCHANGED <<world, began, todo, packed, kept, used>>
      /\ Grows(r)
  BY MatchIs
<1>2. failed' \in [Review -> SUBSET MayFail] /\ todo' = todo
  BY <1>1 DEF Grows
<1>3. PICK m \in Open(r) :
        /\ m[1] \in Nat /\ m[2] \in Symbol
        /\ \/ pc' = [pc EXCEPT ![r] = "panicked"] /\ UNCHANGED <<pending, matches>>
           \/ /\ pc' = pc /\ pending' = [pending EXCEPT ![r] = @ \ {m}]
              /\ \E x \in Ref : matches' = [matches EXCEPT ![r][m[2]] = Append(@, x)]
  BY MatchIs
<1>4. CASE pc' = [pc EXCEPT ![r] = "panicked"] /\ UNCHANGED <<pending, matches>>
  <2>1. todo[r] \in TodoOf("panicked") /\ "panicked" \in PC
    BY <1>1 DEF TodoOf, PC
  <2> QED
    BY <1>1, <1>2, <1>4, <2>1, Parts, TypedTurn
<1>5. CASE /\ pc' = pc /\ pending' = [pending EXCEPT ![r] = @ \ {m}]
           /\ \E x \in Ref : matches' = [matches EXCEPT ![r][m[2]] = Append(@, x)]
  <2>1. pc' = [pc EXCEPT ![r] = "scan"]
    BY <1>1, <1>5, Parts
  <2>2. todo[r] \in TodoOf("scan") /\ "scan" \in PC
    BY <1>1 DEF TodoOf, PC
  <2>3. pending' \in [Review -> SUBSET (Nat \X Symbol)]
    BY <1>5, Parts
  <2>4. matches' \in [Review -> [Symbol -> Seq(Ref)]]
    BY <1>3, <1>5, Parts, OneMore
  <2> QED
    BY <1>1, <1>2, <2>1, <2>2, <2>3, <2>4, Parts, TypedTurn
<1> QED
  BY <1>3, <1>4, <1>5

LEMMA EndOfFileTyped ==
    ASSUME TypeOK, NEW r \in Review, EndOfFile(r) PROVE TypeOK'
<1>1. todo[r] \in Seq(File) /\ todo[r] # <<>>
  BY TodoIs DEF EndOfFile
<1>2. /\ pc' = [pc EXCEPT ![r] = "v1"]
      /\ todo' = [todo EXCEPT ![r] = Tail(todo[r])]
      /\ pending' = [pending EXCEPT ![r] = {}]
      /\ UNCHANGED <<world, began, failed, matches, packed, kept, used>>
  BY DEF EndOfFile
<1>3. Tail(todo[r]) \in TodoOf("v1") /\ "v1" \in PC
  BY <1>1, First DEF TodoOf, PC
<1>4. pending' \in [Review -> SUBSET (Nat \X Symbol)]
  BY <1>2, Parts
<1> QED
  BY <1>2, <1>3, <1>4, Parts, TypedTurn

\* What DefsIn lists of a file, line by line, what LookupDefs lists, file by
\* file, and what LoadIndex lists, symbol by symbol.
DefAt(f, s, n) == IF s \in idx[f][n].def THEN <<[sym |-> s, file |-> f, line |-> n]>> ELSE <<>>
DefLines(f, s) == [n \in DOMAIN idx[f] |-> DefAt(f, s, n)]
DefFiles(order, s) == [i \in DOMAIN order |-> DefsIn(order[i], s)]
DefSymbols(order, symbols) ==
    [i \in DOMAIN symbols |-> FirstOnes(LookupDefs(order, symbols[i]), MaxRefs)]

\* A list of lists.
LEMMA TextOf ==
    ASSUME NEW U, NEW n \in Nat, NEW f, DOMAIN f = 1..n, f = [i \in DOMAIN f |-> f[i]],
           \A i \in 1..n : f[i] \in Seq(U)
    PROVE  f \in Texts(U)
<1>1. PICK T : T = Seq(U)
  OBVIOUS
<1>2. f \in [1..n -> T]
  BY <1>1
<1>3. f \in Seq(T)
  BY ONLY n \in Nat, <1>2, SequenceOf
<1> QED
  BY <1>1, <1>3 DEF Texts

LEMMA DefLinesType ==
    ASSUME TypeOK, NEW f \in DOMAIN idx, NEW s \in Symbol
    PROVE  DefLines(f, s) \in Texts(Location)
<1>1. f \in File /\ Len(idx[f]) \in Nat /\ DOMAIN idx[f] = 1..Len(idx[f])
  BY IndexLines
<1>2. ASSUME NEW n \in 1..Len(idx[f]) PROVE DefAt(f, s, n) \in Seq(Location)
  <2>1. [sym |-> s, file |-> f, line |-> n] \in Location
    BY <1>1 DEF Location
  <2>2. PICK x : x = [sym |-> s, file |-> f, line |-> n]
    OBVIOUS
  <2>3. <<x>> \in Seq(Location) /\ <<>> \in Seq(Location)
    BY <2>1, <2>2
  <2> QED
    BY <2>2, <2>3 DEF DefAt
<1> QED
  BY <1>1, <1>2, TextOf DEF DefLines

LEMMA DefsInType ==
    ASSUME TypeOK, NEW f \in DOMAIN idx, NEW s \in Symbol
    PROVE  /\ DefsIn(f, s) = FlattenSeq(DefLines(f, s))
           /\ DefsIn(f, s) \in Seq(Location)
<1>1. DefsIn(f, s) = FlattenSeq(DefLines(f, s))
  BY DEF DefsIn, DefLines, DefAt
<1> QED
  BY <1>1, DefLinesType, FlattenType

LEMMA FilesOrder ==
    ASSUME TypeOK, NEW order \in SetToSeqs(DOMAIN idx)
    PROVE  order \in Seq(DOMAIN idx) /\ Range(order) = DOMAIN idx
<1>1. IsFiniteSet(DOMAIN idx)
  <2>1. DOMAIN idx \subseteq File
    BY EnrichmentAssumption DEF TypeOK
  <2> QED
    BY <2>1, FS_Subset, EnrichmentAssumption
<1> QED
  BY <1>1, Listing

LEMMA DefFilesType ==
    ASSUME TypeOK, NEW order \in SetToSeqs(DOMAIN idx), NEW s \in Symbol
    PROVE  DefFiles(order, s) \in Texts(Location)
<1>1. order \in Seq(DOMAIN idx)
  BY FilesOrder
<1>2. PICK n \in Nat : n = Len(order) /\ DOMAIN order = 1..n
  BY <1>1
<1>3. ASSUME NEW i \in 1..n PROVE DefsIn(order[i], s) \in Seq(Location)
  <2>1. order[i] \in DOMAIN idx
    BY <1>1, <1>2, ElementOfSeq
  <2> QED
    BY <2>1, DefsInType
<1> QED
  BY <1>2, <1>3, TextOf DEF DefFiles

LEMMA LookupDefsType ==
    ASSUME TypeOK, NEW order \in SetToSeqs(DOMAIN idx), NEW s \in Symbol
    PROVE  /\ LookupDefs(order, s) = FlattenSeq(DefFiles(order, s))
           /\ LookupDefs(order, s) \in Seq(Location)
<1>1. LookupDefs(order, s) = FlattenSeq(DefFiles(order, s))
  BY DEF LookupDefs, DefFiles
<1> QED
  BY <1>1, DefFilesType, FlattenType

LEMMA DefSymbolsType ==
    ASSUME TypeOK, NEW order \in SetToSeqs(DOMAIN idx), NEW symbols \in BySymbol
    PROVE  DefSymbols(order, symbols) \in Texts(Location)
<1>1. symbols \in Seq(Symbol)
  BY SymbolOrder
<1>2. PICK n \in Nat : n = Len(symbols) /\ DOMAIN symbols = 1..n
  BY <1>1
<1>3. ASSUME NEW i \in 1..n
      PROVE  FirstOnes(LookupDefs(order, symbols[i]), MaxRefs) \in Seq(Location)
  <2>1. symbols[i] \in Symbol
    BY <1>1, <1>2, ElementOfSeq
  <2>2. LookupDefs(order, symbols[i]) \in Seq(Location)
    BY <2>1, LookupDefsType
  <2> QED
    BY <2>2, Cutting, EnrichmentAssumption
<1> QED
  BY <1>2, <1>3, TextOf DEF DefSymbols

LEMMA LoadIndexTyped ==
    ASSUME TypeOK, NEW r \in Review, LoadIndex(r) PROVE TypeOK'
<1>1. PICK order \in SetToSeqs(DOMAIN idx), symbols \in BySymbol :
        todo' = [todo EXCEPT ![r] = FlattenSeq(DefSymbols(order, symbols))]
  BY DEF LoadIndex, DefSymbols
<1>2. FlattenSeq(DefSymbols(order, symbols)) \in TodoOf("v2") /\ "v2" \in PC
  BY DefSymbolsType, FlattenType DEF TodoOf, PC
<1>3. /\ UNCHANGED <<world, failed, pending, matches, packed, kept, used>>
      /\ pc' = [pc EXCEPT ![r] = "v2"]
      /\ began' = [began EXCEPT ![r] = edits]
  BY DEF LoadIndex
<1>4. began' \in [Review -> 0..edits]
  BY <1>3, Parts
<1> QED
  BY <1>1, <1>2, <1>3, <1>4, Parts, TypedTurn

\* What locationsToRefs does with a location, whether or not it reads the file.
LEMMA ReadAtIs ==
    ASSUME TypeOK, NEW r \in Review, ReadAt(r) \/ ReadAtFails(r), NEW loc, loc = Head(todo[r])
    PROVE  /\ todo[r] \in Seq(Location) /\ todo[r] # <<>> /\ pc[r] = "v2"
           /\ loc \in Location
           /\ loc.sym \in Symbol /\ loc.file \in File /\ loc.line \in Nat
           /\ todo' = [todo EXCEPT ![r] = Tail(todo[r])]
           /\ UNCHANGED <<world, pc, began, pending, packed, kept, used>>
           /\ Grows(r)
           /\ \E x \in Ref :
                /\ x.sym = loc.sym /\ x.file = loc.file
                /\ matches' = [matches EXCEPT ![r][loc.sym] = Append(@, x)]
                /\ loc.file \notin failed'[r] /\ loc.file \in DOMAIN disk =>
                      x.excerpt = ReadExcerptAt(disk[loc.file].lines, loc.line)
<1>1. todo[r] \in Seq(Location) /\ todo[r] # <<>> /\ pc[r] = "v2"
  BY TodoIs DEF ReadAt, ReadAtFails
<1>2. loc \in Location
  BY <1>1, First
<1>3. loc.sym \in Symbol /\ loc.file \in File /\ loc.line \in Nat
  BY <1>2 DEF Location
<1>4. /\ todo' = [todo EXCEPT ![r] = Tail(todo[r])]
      /\ UNCHANGED <<world, pc, began, pending, packed, kept, used>>
  BY DEF ReadAt, ReadAtFails, Refer
<1>5. CASE ReadAt(r)
  <2>1. PICK e : e = IF loc.file \in DOMAIN disk
                     THEN ReadExcerptAt(disk[loc.file].lines, loc.line) ELSE NoExcerpt
    OBVIOUS
  <2>2. e \in Excerpt
    BY <1>3, <2>1, Reading, ReadExcerptAtType, NoExcerptType
  <2>3. Refer(r, loc, e)
    BY <1>5, <2>1 DEF ReadAt
  <2>4. PICK x : x = [sym |-> loc.sym, file |-> loc.file, excerpt |-> e]
    OBVIOUS
  <2>5. x \in Ref /\ x.sym = loc.sym /\ x.file = loc.file /\ x.excerpt = e
    BY <1>3, <2>2, <2>4 DEF Ref
  <2>6. matches' = [matches EXCEPT ![r][loc.sym] = Append(@, x)]
    BY <2>3, <2>4 DEF Refer
  <2>7. Grows(r)
    BY <1>5, NoFailure DEF ReadAt
  <2>8. loc.file \in DOMAIN disk => x.excerpt = ReadExcerptAt(disk[loc.file].lines, loc.line)
    BY <2>1, <2>5
  <2> QED
    BY <1>1, <1>2, <1>3, <1>4, <2>5, <2>6, <2>7, <2>8
<1>6. CASE ReadAtFails(r)
  <2>1. Fails(r, loc.file)
    BY <1>6 DEF ReadAtFails
  <2>2. loc.file \in DOMAIN disk /\ loc.file \in failed'[r] /\ Grows(r)
    BY <2>1, Failure
  <2>3. PICK ls \in PartsOf(disk[loc.file].lines) : Refer(r, loc, ReadExcerptAt(ls, loc.line))
    BY <1>6 DEF ReadAtFails
  <2>4. PICK e : e = ReadExcerptAt(ls, loc.line)
    OBVIOUS
  <2>5. e \in Excerpt
    BY <1>3, <2>2, <2>4, Reading, PartsType, ReadExcerptAtType
  <2>6. PICK x : x = [sym |-> loc.sym, file |-> loc.file, excerpt |-> e]
    OBVIOUS
  <2>7. x \in Ref /\ x.sym = loc.sym /\ x.file = loc.file
    BY <1>3, <2>5, <2>6 DEF Ref
  <2>8. matches' = [matches EXCEPT ![r][loc.sym] = Append(@, x)]
    BY <2>3, <2>4, <2>6 DEF Refer
  <2> QED
    BY <1>1, <1>2, <1>3, <1>4, <2>2, <2>7, <2>8
<1> QED
  BY <1>5, <1>6

LEMMA ReadAtTyped ==
    ASSUME TypeOK, NEW r \in Review, ReadAt(r) \/ ReadAtFails(r) PROVE TypeOK'
<1>1. PICK loc : loc = Head(todo[r])
  OBVIOUS
<1>2. /\ todo[r] \in Seq(Location) /\ todo[r] # <<>> /\ pc[r] = "v2"
      /\ loc.sym \in Symbol
      /\ todo' = [todo EXCEPT ![r] = Tail(todo[r])]
      /\ UNCHANGED <<world, pc, began, pending, packed, kept, used>>
      /\ Grows(r)
      /\ \E x \in Ref : matches' = [matches EXCEPT ![r][loc.sym] = Append(@, x)]
  BY <1>1, ReadAtIs
<1>3. failed' \in [Review -> SUBSET MayFail]
  BY <1>2 DEF Grows
<1>8. matches' \in [Review -> [Symbol -> Seq(Ref)]]
  BY <1>2, Parts, OneMore
<1>9. Tail(todo[r]) \in TodoOf("v2") /\ "v2" \in PC
  BY <1>2, First DEF TodoOf, PC
<1>10. pc' = [pc EXCEPT ![r] = "v2"]
  BY <1>2, Parts
<1> QED
  BY <1>2, <1>3, <1>8, <1>9, <1>10, Parts, TypedTurn

\* What refsToInputs makes of the references.
LEMMA InputsType ==
    ASSUME NEW refs \in Seq(Ref)
    PROVE  /\ Inputs(refs) \in Seq(Input) /\ DOMAIN Inputs(refs) = DOMAIN refs
           /\ \A i \in DOMAIN refs :
                 /\ Inputs(refs)[i].file = refs[i].file
                 /\ Inputs(refs)[i].excerpt = refs[i].excerpt
                 /\ Inputs(refs)[i].syms = {refs[i].sym}
<1>1. PICK n \in Nat : n = Len(refs) /\ DOMAIN refs = 1..n
  OBVIOUS
<1>2. ASSUME NEW i \in 1..n
      PROVE  [file |-> refs[i].file, excerpt |-> refs[i].excerpt, syms |-> {refs[i].sym}] \in Input
  <2>1. refs[i] \in Ref
    BY <1>1, ElementOfSeq
  <2> QED
    BY <2>1 DEF Ref, Input
<1>3. Inputs(refs) \in [1..n -> Input]
  BY <1>1, <1>2 DEF Inputs
<1>4. Inputs(refs) \in Seq(Input)
  BY <1>3, SequenceOf
<1> QED
  BY <1>1, <1>3, <1>4 DEF Inputs

LEMMA InputAttachable == Attachable(Input)
  BY DEF Attachable, Input

LEMMA PackedAttachable == Attachable(Packed)
  BY DEF Attachable, Packed

\* The references to the symbols, in some order of these.
Gathered(r, order) == FlattenSeq([i \in DOMAIN order |-> matches[r][order[i]]])

LEMMA GatheredParts ==
    ASSUME TypeOK, NEW r \in Review, NEW order \in Seq(Symbol)
    PROVE  [i \in DOMAIN order |-> matches[r][order[i]]] \in Texts(Ref)
<1> DEFINE parts == [i \in DOMAIN order |-> matches[r][order[i]]]
<1>1. PICK T : T = Seq(Ref)
  OBVIOUS
<1>2. matches[r] \in [Symbol -> T]
  BY <1>1, Parts
<1>3. PICK n \in Nat : n = Len(order) /\ DOMAIN order = 1..n
  OBVIOUS
<1>4. \A i \in 1..n : order[i] \in Symbol
  BY <1>3, ElementOfSeq
<1>5. parts \in [1..n -> T]
  BY <1>2, <1>3, <1>4
<1>6. parts \in Seq(T)
  <2> HIDE DEF parts
  <2> QED
    BY <1>5, SequenceOf
<1> QED
  BY <1>1, <1>6 DEF Texts

LEMMA GatheredType ==
    ASSUME TypeOK, NEW r \in Review, NEW order \in Seq(Symbol)
    PROVE  Gathered(r, order) \in Seq(Ref)
  BY GatheredParts, FlattenType DEF Gathered

LEMMA AttachDirectlyTyped ==
    ASSUME TypeOK, NEW r \in Review, AttachDirectly(r) PROVE TypeOK'
<1>1. PICK order \in Orders : \E inputs \in Sorted(Merged(Inputs(Gathered(r, order))), FitOrder) :
        todo' = [todo EXCEPT ![r] = inputs]
  BY DEF AttachDirectly, Gathered
<1>2. PICK S : S = Merged(Inputs(Gathered(r, order)))
  OBVIOUS
<1>3. PICK inputs \in Sorted(S, FitOrder) : todo' = [todo EXCEPT ![r] = inputs]
  BY <1>1, <1>2
<1>4. order \in Seq(Symbol)
  BY SymbolOrder DEF Orders
<1>5. S \subseteq Input /\ IsFiniteSet(S)
  <2>1. Inputs(Gathered(r, order)) \in Seq(Input)
    BY <1>4, GatheredType, InputsType
  <2> QED
    BY <1>2, <2>1, InputAttachable, MergedType
<1>6. inputs \in TodoOf("fit") /\ "fit" \in PC
  <2>1. inputs \in Seq(Input)
    BY <1>5, SortedInputs, WiderSeq
  <2> QED
    BY <2>1 DEF TodoOf, PC
<1>7. /\ pc' = [pc EXCEPT ![r] = "fit"]
      /\ UNCHANGED <<world, began, failed, pending, matches, packed, kept, used>>
  BY DEF AttachDirectly
<1> QED
  BY <1>3, <1>6, <1>7, Parts, TypedTurn

\* What an excerpt costs.
LEMMA CostType ==
    ASSUME NEW e \in Excerpt
    PROVE  Cost(e) \in Nat /\ Cost(e) = e.bytes + Overhead /\ e.bytes \in Nat
<1>1. e.bytes \in Nat /\ Overhead \in Nat
  BY EnrichmentAssumption DEF Excerpt
<1> QED
  BY <1>1 DEF Cost

\* One more at the end of what a review has.
LEMMA Longer ==
    ASSUME NEW S, NEW k \in [Review -> Seq(S)], NEW r \in Review, NEW x \in S,
           NEW n, n = [k EXCEPT ![r] = Append(@, x)]
    PROVE  /\ n \in [Review -> Seq(S)] /\ n[r] = Append(k[r], x)
           /\ \A q \in Review : q # r => n[q] = k[q]
<1>1. Append(k[r], x) \in Seq(S)
  BY AppendProperties
<1> QED
  BY <1>1

LEMMA FitTyped ==
    ASSUME TypeOK, NEW r \in Review, Fit(r) PROVE TypeOK'
<1>1. todo[r] \in Seq(Input) /\ todo[r] # <<>> /\ pc[r] = "fit"
  BY TodoIs DEF Fit
<1>2. PICK in : in = Head(todo[r])
  OBVIOUS
<1>3. /\ IF Fits(r, in.excerpt)
         THEN /\ kept' = [kept EXCEPT ![r] = Append(@, in)]
              /\ used' = [used EXCEPT ![r] = @ + Cost(in.excerpt)]
         ELSE UNCHANGED <<kept, used>>
      /\ todo' = [todo EXCEPT ![r] = Tail(todo[r])]
      /\ UNCHANGED <<world, pc, began, failed, pending, matches, packed>>
  BY <1>2 DEF Fit
<1>4. in \in Input
  BY <1>1, <1>2, First
<1>5. Cost(in.excerpt) \in Nat
  BY <1>4, CostType DEF Input
<1>6. kept' \in [Review -> Seq(Input)]
  <2>1. kept \in [Review -> Seq(Input)]
    BY Parts
  <2>2. CASE kept' = [kept EXCEPT ![r] = Append(@, in)]
    BY <1>4, <2>1, <2>2, Longer
  <2> QED
    BY <1>3, <2>1, <2>2
<1>7. used' \in [Review -> Nat]
  <2>1. used \in [Review -> Nat]
    BY Parts
  <2>2. used[r] + Cost(in.excerpt) \in Nat
    BY <1>5, <2>1
  <2> QED
    BY <1>3, <2>1, <2>2
<1>8. Tail(todo[r]) \in TodoOf("fit") /\ "fit" \in PC
  BY <1>1, First DEF TodoOf, PC
<1>9. pc' = [pc EXCEPT ![r] = "fit"]
  BY <1>1, <1>3, Parts
<1> QED
  BY <1>3, <1>6, <1>7, <1>8, <1>9, Parts, TypedTurn

LEMMA ExpandTyped ==
    ASSUME TypeOK, NEW r \in Review, Expand(r) PROVE TypeOK'
<1>1. PICK ranked \in Sorted(Candidates(r), RankOrder) : todo' = [todo EXCEPT ![r] = ranked]
  BY DEF Expand
<1>2. ranked \in TodoOf("pack") /\ "pack" \in PC
  <2>1. ranked \in Seq(Ranked)
    BY CandidatesType, SortedCandidates, WiderSeq
  <2> QED
    BY <2>1 DEF TodoOf, PC
<1>3. /\ pc' = [pc EXCEPT ![r] = "pack"]
      /\ UNCHANGED <<world, began, failed, pending, matches, packed, kept, used>>
  BY DEF Expand
<1> QED
  BY <1>1, <1>2, <1>3, Parts, TypedTurn

\* What Pack reads for a candidate in a file of these lines, and what it makes
\* of what it has read.
ExcerptFor(c, ls) == ReadExcerpt(ls, c.hint, CapOf(c))
PackedAs(c, excerpt) ==
    [file |-> c.file, strategy |-> c.strategy, hint |-> c.hint,
     excerpt |-> excerpt, syms |-> {}]

LEMMA ExcerptForType ==
    ASSUME NEW c \in Ranked, NEW ls \in Seq(Line)
    PROVE  ExcerptFor(c, ls) \in Excerpt
<1>1. c.hint \in Nat
  BY DEF Ranked
<1>2. CapOf(c) \in Nat \ {0}
  BY CapsType DEF CapOf
<1> QED
  BY <1>1, <1>2, ReadExcerptType DEF ExcerptFor

LEMMA PackedAsType ==
    ASSUME NEW c \in Ranked, NEW e \in Excerpt
    PROVE  PackedAs(c, e) \in Packed
  BY DEF PackedAs, Packed, Ranked

\* A round of Pack, whether or not it reads the file.
LEMMA PackIs ==
    ASSUME TypeOK, NEW r \in Review, Pack(r) \/ PackFails(r), NEW c, c = Head(todo[r])
    PROVE  /\ todo[r] \in Seq(Ranked) /\ todo[r] # <<>> /\ pc[r] = "pack"
           /\ c \in Ranked
           /\ todo' = [todo EXCEPT ![r] = Tail(todo[r])]
           /\ UNCHANGED <<world, pc, began, pending, matches, kept>>
           /\ Grows(r)
           /\ \/ /\ UNCHANGED <<packed, used>>
                 /\ c.file \notin failed'[r] /\ c.file \in DOMAIN disk =>
                      ~ Fits(r, ExcerptFor(c, disk[c.file].lines))
              \/ /\ c.file \in DOMAIN disk
                 /\ \E e \in Excerpt :
                      /\ Fits(r, e)
                      /\ packed' = [packed EXCEPT ![r] = Append(@, PackedAs(c, e))]
                      /\ used' = [used EXCEPT ![r] = @ + Cost(e)]
                      /\ c.file \notin failed'[r] => e = ExcerptFor(c, disk[c.file].lines)
<1>1. todo[r] \in Seq(Ranked) /\ todo[r] # <<>> /\ pc[r] = "pack"
  BY TodoIs DEF Pack, PackFails
<1>2. c \in Ranked
  BY <1>1, First
<1>3. /\ todo' = [todo EXCEPT ![r] = Tail(todo[r])]
      /\ UNCHANGED <<world, pc, began, pending, matches, kept>>
  BY DEF Pack, PackFails
<1>4. CASE Pack(r)
  <2>1. Grows(r)
    BY <1>4, NoFailure DEF Pack
  <2>2. CASE c.file \notin DOMAIN disk
    <3>1. UNCHANGED <<packed, used>>
      BY <1>4, <2>2 DEF Pack
    <3> QED
      BY <1>1, <1>2, <1>3, <2>1, <2>2, <3>1
  <2>3. CASE c.file \in DOMAIN disk
    <3>1. PICK e : e = ExcerptFor(c, disk[c.file].lines)
      OBVIOUS
    <3>2. e \in Excerpt
      BY <1>2, <2>3, <3>1, Reading, ExcerptForType
    <3>3. Offer(r, c, e)
      BY <1>4, <2>3, <3>1 DEF Pack, ExcerptFor
    <3>4. CASE Fits(r, e)
      <4>1. /\ packed' = [packed EXCEPT ![r] = Append(@, PackedAs(c, e))]
            /\ used' = [used EXCEPT ![r] = @ + Cost(e)]
        BY <3>3, <3>4 DEF Offer, PackedAs
      <4> QED
        BY <1>1, <1>2, <1>3, <2>1, <2>3, <3>1, <3>2, <3>4, <4>1
    <3>5. CASE ~ Fits(r, e)
      <4>1. UNCHANGED <<packed, used>>
        BY <3>3, <3>5 DEF Offer
      <4> QED
        BY <1>1, <1>2, <1>3, <2>1, <3>1, <3>5, <4>1
    <3> QED
      BY <3>4, <3>5
  <2> QED
    BY <2>2, <2>3
<1>5. CASE PackFails(r)
  <2>1. Fails(r, c.file)
    BY <1>5 DEF PackFails
  <2>2. c.file \in DOMAIN disk /\ c.file \in failed'[r] /\ Grows(r)
    BY <2>1, Failure
  <2>3. CASE UNCHANGED <<packed, used>>
    BY <1>1, <1>2, <1>3, <2>2, <2>3
  <2>4. CASE \E ls \in PartsOf(disk[c.file].lines) : Offer(r, c, ReadExcerpt(ls, c.hint, CapOf(c)))
    <3>1. PICK ls \in PartsOf(disk[c.file].lines) : Offer(r, c, ExcerptFor(c, ls))
      BY <2>4 DEF ExcerptFor
    <3>2. PICK e : e = ExcerptFor(c, ls)
      OBVIOUS
    <3>3. e \in Excerpt
      BY <1>2, <2>2, <3>2, Reading, PartsType, ExcerptForType
    <3>4. CASE Fits(r, e)
      <4>1. /\ packed' = [packed EXCEPT ![r] = Append(@, PackedAs(c, e))]
            /\ used' = [used EXCEPT ![r] = @ + Cost(e)]
        BY <3>1, <3>2, <3>4 DEF Offer, PackedAs
      <4> QED
        BY <1>1, <1>2, <1>3, <2>2, <3>3, <3>4, <4>1
    <3>5. CASE ~ Fits(r, e)
      <4>1. UNCHANGED <<packed, used>>
        BY <3>1, <3>2, <3>5 DEF Offer
      <4> QED
        BY <1>1, <1>2, <1>3, <2>2, <4>1
    <3> QED
      BY <3>4, <3>5
  <2> QED
    BY <1>5, <2>3, <2>4 DEF PackFails
<1> QED
  BY <1>4, <1>5

LEMMA PackTyped ==
    ASSUME TypeOK, NEW r \in Review, Pack(r) \/ PackFails(r) PROVE TypeOK'
<1>1. PICK c : c = Head(todo[r])
  OBVIOUS
<1>2. /\ todo[r] \in Seq(Ranked) /\ todo[r] # <<>> /\ pc[r] = "pack"
      /\ c \in Ranked
      /\ todo' = [todo EXCEPT ![r] = Tail(todo[r])]
      /\ UNCHANGED <<world, pc, began, pending, matches, kept>>
      /\ Grows(r)
  BY <1>1, PackIs
<1>3. failed' \in [Review -> SUBSET MayFail]
  BY <1>2 DEF Grows
<1>4. Tail(todo[r]) \in TodoOf("pack") /\ "pack" \in PC
  BY <1>2, First DEF TodoOf, PC
<1>5. pc' = [pc EXCEPT ![r] = "pack"]
  BY <1>2, Parts
<1>6. packed \in [Review -> Seq(Packed)] /\ used \in [Review -> Nat]
  BY Parts
<1>7. CASE UNCHANGED <<packed, used>>
  BY <1>2, <1>3, <1>4, <1>5, <1>6, <1>7, Parts, TypedTurn
<1>8. CASE \E e \in Excerpt :
              /\ packed' = [packed EXCEPT ![r] = Append(@, PackedAs(c, e))]
              /\ used' = [used EXCEPT ![r] = @ + Cost(e)]
  <2>1. PICK e \in Excerpt :
          /\ packed' = [packed EXCEPT ![r] = Append(@, PackedAs(c, e))]
          /\ used' = [used EXCEPT ![r] = @ + Cost(e)]
    BY <1>8
  <2>2. PICK x \in Packed : x = PackedAs(c, e)
    BY <1>2, PackedAsType
  <2>3. packed' \in [Review -> Seq(Packed)]
    BY <1>6, <2>1, <2>2, Longer
  <2>4. used[r] + Cost(e) \in Nat
    BY <1>6, CostType
  <2>5. used' \in [Review -> Nat]
    BY <1>6, <2>1, <2>4
  <2> QED
    BY <1>2, <1>3, <1>4, <1>5, <2>3, <2>5, Parts, TypedTurn
<1> QED
  BY <1>1, <1>7, <1>8, PackIs

LEMMA AttachPackedTyped ==
    ASSUME TypeOK, NEW r \in Review, AttachPacked(r) PROVE TypeOK'
<1>1. PICK inputs \in Sorted(Merged(packed[r]), FitOrder) : todo' = [todo EXCEPT ![r] = inputs]
  BY DEF AttachPacked
<1>2. packed[r] \in Seq(Packed)
  BY Parts
<1>3. inputs \in TodoOf("fit") /\ "fit" \in PC
  <2>1. Merged(packed[r]) \subseteq Input /\ IsFiniteSet(Merged(packed[r]))
    BY <1>2, PackedAttachable, MergedType
  <2>2. inputs \in Seq(Input)
    BY <2>1, SortedInputs, WiderSeq
  <2> QED
    BY <2>2 DEF TodoOf, PC
<1>4. /\ pc' = [pc EXCEPT ![r] = "fit"]
      /\ used' = [used EXCEPT ![r] = 0]
      /\ UNCHANGED <<world, began, failed, pending, matches, packed, kept>>
  BY DEF AttachPacked
<1>5. used' \in [Review -> Nat]
  BY <1>4, Parts
<1> QED
  BY <1>1, <1>3, <1>4, <1>5, Parts, TypedTurn

LEMMA EditTyped ==
    ASSUME TypeOK, NEW f \in File, Edit(f) PROVE TypeOK'
<1>1. edits \in Nat /\ edits \in 0..MaxEdits /\ edits < MaxEdits /\ edits' = edits + 1
  BY Parts DEF Edit
<1>2. edits' \in 0..MaxEdits /\ \A n \in 0..edits : n \in 0..edits'
  BY <1>1, EnrichmentAssumption
<1>3. /\ DOMAIN disk \subseteq File
      /\ \A g \in DOMAIN disk : disk[g] \in [lines : Seq(Line), mtime : 0..edits]
  BY DEF TypeOK
<1>4. \A g \in DOMAIN disk : disk[g] \in [lines : Seq(Line), mtime : 0..edits']
  BY <1>2, <1>3
<1>5. /\ DOMAIN disk' \subseteq File
      /\ \A g \in DOMAIN disk' : disk'[g] \in [lines : Seq(Line), mtime : 0..edits']
  <2>1. CASE \E c \in Content :
            disk' = [g \in DOMAIN disk \cup {f} |->
                        IF g = f THEN [lines |-> c, mtime |-> edits + 1] ELSE disk[g]]
    <3>1. PICK c \in Content :
            disk' = [g \in DOMAIN disk \cup {f} |->
                        IF g = f THEN [lines |-> c, mtime |-> edits + 1] ELSE disk[g]]
      BY <2>1
    <3>2. c \in Seq(Line) /\ edits + 1 \in 0..edits'
      BY <1>1, EnrichmentAssumption
    <3>3. [lines |-> c, mtime |-> edits + 1] \in [lines : Seq(Line), mtime : 0..edits']
      BY <3>2
    <3> QED
      BY <1>3, <1>4, <3>1, <3>3
  <2>2. CASE disk' = [g \in DOMAIN disk \ {f} |-> disk[g]]
    BY <1>3, <1>4, <2>2
  <2> QED
    BY <2>1, <2>2 DEF Edit
<1>6. UNCHANGED <<idx, config, pc, began, failed, todo, pending, matches, packed, kept, used>>
  BY DEF Edit
<1>7. began' \in [Review -> 0..edits'] /\ failed' \in [Review -> SUBSET MayFail]
  BY <1>2, <1>6, Parts
<1> QED
  BY <1>2, <1>5, <1>6, <1>7 DEF TypeOK

LEMMA InitTyped == ASSUME Init PROVE TypeOK
<1>1. MaxEdits \in Nat
  BY EnrichmentAssumption
<1>2. /\ DOMAIN idx \subseteq File /\ \A f \in DOMAIN idx : idx[f] \in Seq(Line)
      /\ idx \in Workspace /\ config \in Config
  BY EnrichmentAssumption DEF Init
<1>3. /\ edits = 0 /\ edits \in 0..MaxEdits /\ began \in [Review -> 0..edits]
  BY <1>1 DEF Init
<1>4. DOMAIN disk \subseteq File /\ \A f \in DOMAIN disk : disk[f] \in [lines : Seq(Line), mtime : 0..edits]
  <2>1. disk = [f \in DOMAIN idx |-> [lines |-> idx[f], mtime |-> 0]]
    BY DEF Init
  <2>2. 0 \in 0..edits
    BY <1>3
  <2> QED
    BY <1>2, <2>1, <2>2
<1>5. /\ pc \in [Review -> PC] /\ DOMAIN todo = Review /\ \A r \in Review : todo[r] \in TodoOf(pc[r])
      /\ pending \in [Review -> SUBSET (Nat \X Symbol)]
      /\ used \in [Review -> Nat] /\ failed \in [Review -> SUBSET MayFail]
  BY DEF Init, PC, TodoOf
<1>6. /\ packed \in [Review -> Seq(Packed)] /\ kept \in [Review -> Seq(Input)]
  BY EmptySeq DEF Init
<1>7. matches \in [Review -> [Symbol -> Seq(Ref)]]
  BY EmptySeq DEF Init, NoMatches
<1> QED
  BY <1>2, <1>3, <1>4, <1>5, <1>6, <1>7 DEF TypeOK

LEMMA StepTyped == ASSUME TypeOK, NEW r \in Review, Step(r) PROVE TypeOK'
  BY WalkTyped, ScanTyped, MatchTyped, EndOfFileTyped, LoadIndexTyped, ReadAtTyped,
     AttachDirectlyTyped, FitTyped, ExpandTyped, PackTyped, AttachPackedTyped DEF Step

\* The variables have their types: what is left of the loop a review is in are
\* paths, locations, candidates or inputs, as the loops of FindReferences,
\* FindReferencesV2, Pack and AttachReferenced expect them, and there is a file
\* to scan as long as there are matches to handle.
THEOREM EnrichmentIsTyped == Spec => []TypeOK
<1>1. Init => TypeOK
  BY InitTyped
<1>2. TypeOK /\ [Next]_vars => TypeOK'
  <2> SUFFICES ASSUME TypeOK, [Next]_vars PROVE TypeOK'
    OBVIOUS
  <2>1. ASSUME NEW r \in Review, Step(r) PROVE TypeOK'
    BY <2>1, StepTyped
  <2>2. ASSUME NEW f \in File, Edit(f) PROVE TypeOK'
    BY <2>2, EditTyped
  <2>3. CASE UNCHANGED vars
    BY <2>3 DEF TypeOK, vars
  <2> QED
    BY <2>1, <2>2, <2>3 DEF Next
<1> QED
  BY <1>1, <1>2, PTL DEF Spec

-----------------------------------------------------------------------------
(* Sums of costs.                                                          *)

\* What Total adds for an element.
CostAt(refs, i) == refs[i].excerpt.bytes + Overhead
Priced(T) == \A x \in T : x.excerpt.bytes \in Nat

LEMMA AttachableArePriced == ASSUME NEW T, Attachable(T) PROVE Priced(T)
<1> SUFFICES ASSUME NEW x \in T PROVE x.excerpt.bytes \in Nat
  BY DEF Priced
<1>1. x.excerpt \in Excerpt
  BY DEF Attachable
<1> QED
  BY <1>1, CostType

LEMMA CostAtType ==
    ASSUME NEW T, Priced(T), NEW refs \in Seq(T), NEW i \in 1..Len(refs)
    PROVE  CostAt(refs, i) \in Nat /\ refs[i].excerpt.bytes \in Nat /\ Overhead \in Nat
<1>1. refs[i] \in T
  BY ElementOfSeq
<1>2. refs[i].excerpt.bytes \in Nat
  BY <1>1 DEF Priced
<1>3. Overhead \in Nat
  BY EnrichmentAssumption
<1> QED
  BY <1>2, <1>3 DEF CostAt

LEMMA TotalStepwise ==
    ASSUME NEW T, Priced(T), NEW refs \in Seq(T)
    PROVE  \E f \in [0..Len(refs) -> Nat] :
              /\ f[0] = 0
              /\ \A n \in 1..Len(refs) : f[n] = f[n - 1] + CostAt(refs, n)
              /\ Total(refs) = f[Len(refs)]
<1>1. PICK m \in Nat : m = Len(refs)
  OBVIOUS
<1>2. \A n \in 1..m : CostAt(refs, n) \in Nat /\ refs[n].excerpt.bytes \in Nat /\ Overhead \in Nat
  BY <1>1, CostAtType
<1> DEFINE Eq(g) == g = [n \in 0..m |-> IF n = 0 THEN 0
                                        ELSE g[n - 1] + refs[n].excerpt.bytes + Overhead]
<1>3. [n \in 1..m |-> CostAt(refs, n)] \in [1..m -> Nat]
  BY <1>2
<1>4. PICK f \in [0..m -> Nat] : f[0] = 0 /\ \A n \in 1..m : f[n] = f[n - 1] + CostAt(refs, n)
  <2>1. PICK cost \in [1..m -> Nat] : cost = [n \in 1..m |-> CostAt(refs, n)]
    BY <1>3
  <2>2. PICK f \in [0..m -> Nat] : IsSum(f, cost, m)
    BY SumExists
  <2>3. \A n \in 1..m : cost[n] = CostAt(refs, n)
    BY <2>1
  <2> QED
    BY <2>2, <2>3 DEF IsSum
<1>5. ASSUME NEW n \in 1..m PROVE f[n] = f[n - 1] + refs[n].excerpt.bytes + Overhead
  <2>1. f[n - 1] \in Nat
    OBVIOUS
  <2>2. f[n] = f[n - 1] + (refs[n].excerpt.bytes + Overhead)
    BY <1>4 DEF CostAt
  <2>3. PICK a \in Nat, b \in Nat, c \in Nat :
            a = f[n - 1] /\ b = refs[n].excerpt.bytes /\ c = Overhead
    BY <1>2, <2>1
  <2> QED
    BY <2>2, <2>3
<1>6. Eq(f)
  <2>1. \A n \in 0..m : n # 0 => n \in 1..m
    OBVIOUS
  <2> QED
    BY <1>4, <1>5, <2>1
<1>7. PICK g : Eq(g) /\ Total(refs) = g[m]
  <2>1. Total(refs) = (CHOOSE g : Eq(g))[m]
    BY <1>1 DEF Total
  <2> HIDE DEF Eq
  <2> QED
    BY <1>6, <2>1
<1>8. g[0] = 0 /\ \A n \in 1..m : g[n] = g[n - 1] + refs[n].excerpt.bytes + Overhead
  <2>1. 0 \in 0..m /\ \A n \in 1..m : n \in 0..m /\ n # 0
    OBVIOUS
  <2> QED
    BY <1>7, <2>1
<1> DEFINE S == {n \in 0..m : g[n] = f[n]}
<1>9. 0 \in S
  BY <1>4, <1>8
<1>10. ASSUME NEW n \in 1..m, n - 1 \in S PROVE n \in S
  BY <1>5, <1>8, <1>10
<1>11. \A n \in 0..m : n \in S
  <2> HIDE DEF S
  <2> QED
    BY <1>9, <1>10, InductionUpTo
<1>12. g[m] = f[m]
  <2>1. m \in 0..m
    OBVIOUS
  <2> QED
    BY <1>11, <2>1
<1> HIDE DEF Eq
<1> QED
  BY <1>1, <1>4, <1>7, <1>12

LEMMA TotalEmpty == Total(<<>>) = 0
<1>1. Priced({}) /\ <<>> \in Seq({})
  BY EmptySeq DEF Priced
<1>2. PICK s \in Seq({}) : s = <<>> /\ Len(s) = 0
  BY <1>1
<1> QED
  BY <1>1, <1>2, TotalStepwise

LEMMA TotalAppend ==
    ASSUME NEW T, Priced(T), NEW refs \in Seq(T), NEW x \in T
    PROVE  /\ Total(refs) \in Nat
           /\ Total(Append(refs, x)) = Total(refs) + Cost(x.excerpt)
<1>1. PICK m \in Nat : m = Len(refs)
  OBVIOUS
<1>2. PICK more : more = Append(refs, x)
  OBVIOUS
<1>3. /\ more \in Seq(T) /\ Len(more) = m + 1 /\ more[m + 1] = x
      /\ \A n \in 1..m : more[n] = refs[n]
  BY <1>1, <1>2, AppendProperties
<1>4. PICK f \in [0..m -> Nat] :
        /\ f[0] = 0
        /\ \A n \in 1..m : f[n] = f[n - 1] + CostAt(refs, n)
        /\ Total(refs) = f[m]
  BY <1>1, TotalStepwise
<1>5. PICK g \in [0..m + 1 -> Nat] :
        /\ g[0] = 0
        /\ \A n \in 1..m + 1 : g[n] = g[n - 1] + CostAt(more, n)
        /\ Total(more) = g[m + 1]
  BY <1>3, TotalStepwise
<1> DEFINE S == {n \in 0..m : f[n] = g[n]}
<1>6. 0 \in S
  BY <1>4, <1>5
<1>7. ASSUME NEW n \in 1..m, n - 1 \in S PROVE n \in S
  <2>1. CostAt(refs, n) = CostAt(more, n)
    BY <1>3 DEF CostAt
  <2>2. f[n - 1] = g[n - 1] /\ n \in 1..m + 1 /\ n \in 0..m
    BY <1>7
  <2>3. f[n] = f[n - 1] + CostAt(refs, n)
    BY <1>4
  <2>4. g[n] = g[n - 1] + CostAt(more, n)
    BY <1>5, <2>2
  <2> QED
    BY <2>1, <2>2, <2>3, <2>4
<1>8. \A n \in 0..m : n \in S
  <2> HIDE DEF S
  <2> QED
    BY <1>6, <1>7, InductionUpTo
<1>9. f[m] = g[m]
  <2>1. m \in 0..m
    OBVIOUS
  <2> QED
    BY <1>8, <2>1
<1>10. g[m + 1] = g[m] + CostAt(more, m + 1)
  <2>1. PICK k : k = m + 1
    OBVIOUS
  <2>2. k \in 1..m + 1 /\ k - 1 = m
    BY <2>1
  <2> QED
    BY <1>5, <2>1, <2>2
<1>11. CostAt(more, m + 1) = Cost(x.excerpt)
  BY <1>3 DEF CostAt, Cost
<1>12. f[m] \in Nat
  OBVIOUS
<1> QED
  BY <1>2, <1>4, <1>5, <1>9, <1>10, <1>11, <1>12

-----------------------------------------------------------------------------
(* Lists with each file once.                                              *)

LEMMA FilesAppend ==
    ASSUME NEW T, NEW refs \in Seq(T), NEW x \in T
    PROVE  FilesOf(Append(refs, x)) = FilesOf(refs) \cup {x.file}
<1>0. PICK m \in Nat : m = Len(refs)
  OBVIOUS
<1>1. PICK more : more = Append(refs, x)
  OBVIOUS
<1>2. /\ DOMAIN refs = 1..m /\ DOMAIN more = 1..m + 1
      /\ \A i \in 1..m : more[i] = refs[i]
      /\ more[m + 1] = x
  BY <1>0, <1>1
<1>3. \A i \in 1..m + 1 : i \in 1..m \/ i = m + 1
  OBVIOUS
<1>4. \A i \in 1..m : i \in 1..m + 1
  OBVIOUS
<1>5. m + 1 \in 1..m + 1
  OBVIOUS
<1>6. FilesOf(more) \subseteq FilesOf(refs) \cup {x.file}
  BY ONLY <1>2, <1>3 DEF FilesOf
<1>7. FilesOf(refs) \cup {x.file} \subseteq FilesOf(more)
  BY ONLY <1>2, <1>4, <1>5 DEF FilesOf
<1> QED
  BY <1>1, <1>6, <1>7

LEMMA DistinctAppend ==
    ASSUME NEW T, NEW refs \in Seq(T), NEW x \in T
    PROVE  Distinct(Append(refs, x)) <=> Distinct(refs) /\ x.file \notin FilesOf(refs)
<1>0. PICK m \in Nat : m = Len(refs)
  OBVIOUS
<1>1. PICK more : more = Append(refs, x)
  OBVIOUS
<1>2. /\ DOMAIN refs = 1..m /\ DOMAIN more = 1..m + 1
      /\ \A i \in 1..m : more[i] = refs[i]
      /\ more[m + 1] = x
  BY <1>0, <1>1
<1>3. /\ \A i \in 1..m + 1 : i \in 1..m \/ i = m + 1
      /\ \A i \in 1..m : i \in 1..m + 1 /\ i # m + 1
      /\ m + 1 \in 1..m + 1
  OBVIOUS
<1>4. ASSUME Distinct(more) PROVE Distinct(refs) /\ x.file \notin FilesOf(refs)
  BY ONLY <1>2, <1>3, <1>4 DEF Distinct, FilesOf
<1>5. ASSUME Distinct(refs), x.file \notin FilesOf(refs) PROVE Distinct(more)
  <2> SUFFICES ASSUME NEW i \in 1..m + 1, NEW j \in 1..m + 1, more[i].file = more[j].file
               PROVE  i = j
    BY <1>2 DEF Distinct
  <2>1. \A k \in 1..m : refs[k].file \in FilesOf(refs)
    BY <1>2 DEF FilesOf
  <2> QED
    BY ONLY <1>2, <1>3, <1>5, <2>1, i \in 1..m + 1, j \in 1..m + 1, more[i].file = more[j].file
       DEF Distinct
<1> QED
  BY <1>1, <1>4, <1>5

LEMMA DistinctTail ==
    ASSUME NEW T, NEW refs \in Seq(T), refs # <<>>
    PROVE  /\ Head(refs).file \in FilesOf(refs)
           /\ FilesOf(refs) = FilesOf(Tail(refs)) \cup {Head(refs).file}
           /\ Distinct(refs) => /\ Distinct(Tail(refs))
                                /\ Head(refs).file \notin FilesOf(Tail(refs))
<1>0. PICK m \in Nat : m + 1 = Len(refs)
  <2>1. Len(refs) - 1 \in Nat /\ Len(refs) - 1 + 1 = Len(refs)
    BY First
  <2> QED
    BY <2>1
<1>1. PICK rest : rest = Tail(refs)
  OBVIOUS
<1>2. /\ DOMAIN refs = 1..m + 1 /\ DOMAIN rest = 1..m
      /\ \A i \in 1..m : rest[i] = refs[i + 1]
      /\ refs[1] = Head(refs)
  <2>1. Len(rest) = m /\ rest \in Seq(T)
    BY <1>0, <1>1, First
  <2> QED
    BY <1>0, <1>1, <2>1, First
<1>3. /\ \A i \in 1..m + 1 : i = 1 \/ (i - 1 \in 1..m /\ i - 1 + 1 = i)
      /\ \A i \in 1..m : i + 1 \in 1..m + 1 /\ i + 1 # 1
      /\ 1 \in 1..m + 1
      /\ \A i, j \in 1..m : i + 1 = j + 1 => i = j
  OBVIOUS
<1>4. FilesOf(refs) \subseteq FilesOf(rest) \cup {Head(refs).file}
  <2> SUFFICES ASSUME NEW i \in 1..m + 1
               PROVE  refs[i].file \in FilesOf(rest) \cup {Head(refs).file}
    BY <1>2 DEF FilesOf
  <2>1. CASE i = 1
    BY <1>2, <2>1
  <2>2. CASE i - 1 \in 1..m /\ i - 1 + 1 = i
    <3>1. PICK j \in 1..m : j + 1 = i
      BY <2>2
    <3>2. rest[j] = refs[i]
      BY <1>2, <3>1
    <3> QED
      BY <1>2, <3>2 DEF FilesOf
  <2> QED
    BY <1>3, <2>1, <2>2
<1>5. FilesOf(rest) \cup {Head(refs).file} \subseteq FilesOf(refs)
  BY <1>2, <1>3 DEF FilesOf
<1>6. ASSUME Distinct(refs) PROVE Distinct(rest) /\ Head(refs).file \notin FilesOf(rest)
  <2>1. Distinct(rest)
    <3> SUFFICES ASSUME NEW i \in 1..m, NEW j \in 1..m, rest[i].file = rest[j].file PROVE i = j
      BY <1>2 DEF Distinct
    <3>1. refs[i + 1].file = refs[j + 1].file /\ i + 1 \in 1..m + 1 /\ j + 1 \in 1..m + 1
      BY <1>2, <1>3
    <3>2. i + 1 = j + 1
      BY <1>2, <1>6, <3>1 DEF Distinct
    <3> QED
      BY <1>3, <3>2
  <2>2. ASSUME NEW i \in 1..m PROVE rest[i].file # Head(refs).file
    <3>1. i + 1 \in 1..m + 1 /\ i + 1 # 1 /\ 1 \in 1..m + 1
      BY <1>3
    <3>2. refs[i + 1].file # refs[1].file
      BY <1>2, <1>6, <3>1 DEF Distinct
    <3> QED
      BY <1>2, <3>2
  <2> QED
    BY <1>2, <2>1, <2>2 DEF FilesOf
<1> QED
  BY <1>1, <1>4, <1>5, <1>6

\* There are as many files as entries.
LEMMA DistinctCount ==
    ASSUME NEW T, NEW refs \in Seq(T), Distinct(refs)
    PROVE  Cardinality(FilesOf(refs)) = Len(refs)
<1>1. PICK n \in Nat : n = Len(refs) /\ DOMAIN refs = 1..n
  OBVIOUS
<1> DEFINE D == 1..n
           F == FilesOf(refs)
           g == [i \in D |-> refs[i].file]
<1>2. IsFiniteSet(D) /\ Cardinality(D) = n
  BY FS_Interval
<1>3. g \in Surjection(D, F)
  BY <1>1 DEF Surjection, FilesOf
<1>4. g \in Injection(D, F)
  BY <1>1 DEF Injection, IsInjective, Distinct, FilesOf
<1>5. g \in Bijection(D, F)
  BY <1>3, <1>4 DEF Bijection
<1> HIDE DEF D, F, g
<1>6. Cardinality(F) = Cardinality(D)
  BY <1>2, <1>5, FS_Bijection DEF ExistsBijection
<1> QED
  BY <1>1, <1>2, <1>6 DEF F

\* refs has the files and the excerpts of some of more.
PartOf(refs, more) ==
    \A i \in DOMAIN refs : \E j \in DOMAIN more :
        refs[i].file = more[j].file /\ refs[i].excerpt = more[j].excerpt

\* What AttachReferenced goes through.
LEMMA MergedList ==
    ASSUME NEW T, Attachable(T), NEW refs \in Seq(T),
           NEW q \in Sorted(Merged(refs), FitOrder)
    PROVE  Distinct(q) /\ PartOf(q, refs) /\ FilesOf(q) = FilesOf(refs)
<1>1. /\ q \in Seq(Merged(refs)) /\ Range(q) = Merged(refs)
      /\ \A i, j \in DOMAIN q : q[i] = q[j] => i = j
  BY MergedType, SortedInputs
<1>2. \A i \in DOMAIN q : q[i] \in Merged(refs)
  BY <1>1 DEF Range
<1>3. \A i \in DOMAIN q : /\ q[i].file \in FilesOf(refs) /\ q[i] = InputOf(refs, q[i].file)
                          /\ \E j \in DOMAIN refs : refs[j].file = q[i].file /\ q[i].excerpt = refs[j].excerpt
  BY <1>2, MergedElement
<1>4. Distinct(q)
  BY <1>1, <1>3 DEF Distinct
<1>5. PartOf(q, refs)
  BY <1>3 DEF PartOf
<1>6. FilesOf(q) \subseteq FilesOf(refs)
  BY <1>3 DEF FilesOf
<1>7. ASSUME NEW f \in FilesOf(refs) PROVE f \in FilesOf(q)
  <2>1. PICK x \in Merged(refs) : x.file = f
    BY MergedFiles
  <2>2. PICK i \in DOMAIN q : q[i] = x
    BY <1>1, <2>1 DEF Range
  <2> QED
    BY <2>1, <2>2 DEF FilesOf
<1> QED
  BY <1>4, <1>5, <1>6, <1>7

LEMMA CandidateList ==
    ASSUME TypeOK, NEW r, NEW q \in Sorted(Candidates(r), RankOrder)
    PROVE  Distinct(q) /\ \A i \in DOMAIN q : q[i] \in Candidates(r)
<1>1. /\ q \in Seq(Candidates(r)) /\ Range(q) = Candidates(r)
      /\ \A i, j \in DOMAIN q : q[i] = q[j] => i = j
  BY CandidatesType, SortedCandidates
<1>2. \A i \in DOMAIN q : q[i] \in Candidates(r)
  BY <1>1 DEF Range
<1>3. \A i \in DOMAIN q : q[i] = Candidate(r, q[i].file)
  BY <1>2, CandidateOf
<1> QED
  BY <1>1, <1>2, <1>3 DEF Distinct

-----------------------------------------------------------------------------
(* The units of what a list costs, each with the file it is spent on.      *)

UnitsOf(refs) == UNION {{refs[i].file} \X (1..CostAt(refs, i)) : i \in DOMAIN refs}

LEMMA UnitsAppend ==
    ASSUME NEW T, NEW refs \in Seq(T), NEW x \in T
    PROVE  UnitsOf(Append(refs, x)) = UnitsOf(refs) \cup ({x.file} \X (1..Cost(x.excerpt)))
<1>0. PICK m \in Nat : m = Len(refs)
  OBVIOUS
<1>1. PICK more : more = Append(refs, x)
  OBVIOUS
<1>2. /\ DOMAIN refs = 1..m /\ DOMAIN more = 1..m + 1
      /\ \A i \in 1..m : more[i] = refs[i]
      /\ more[m + 1] = x
  BY <1>0, <1>1
<1>3. /\ \A i \in 1..m : CostAt(more, i) = CostAt(refs, i)
      /\ CostAt(more, m + 1) = Cost(x.excerpt)
  BY <1>2 DEF CostAt, Cost
<1> DEFINE A(i) == {refs[i].file} \X (1..CostAt(refs, i))
           B(i) == {more[i].file} \X (1..CostAt(more, i))
           C == {x.file} \X (1..Cost(x.excerpt))
<1>4. (\A i \in 1..m : A(i) = B(i)) /\ B(m + 1) = C
  BY <1>2, <1>3
<1>5. /\ \A u : u \in UnitsOf(refs) <=> \E i \in 1..m : u \in A(i)
      /\ \A u : u \in UnitsOf(more) <=> \E i \in 1..m + 1 : u \in B(i)
  BY <1>2 DEF UnitsOf
<1>6. \A i : i \in 1..m + 1 <=> i \in 1..m \/ i = m + 1
  OBVIOUS
<1>7. \A u : u \in UnitsOf(more) <=> u \in UnitsOf(refs) \/ u \in C
  <2> HIDE DEF A, B, C
  <2> QED
    BY <1>4, <1>5, <1>6
<1>8. UnitsOf(more) = UnitsOf(refs) \cup C
  <2> HIDE DEF C
  <2> QED
    BY <1>7
<1> QED
  BY <1>1, <1>8

LEMMA UnitsCount ==
    ASSUME NEW T, Priced(T), NEW refs \in Seq(T), Distinct(refs)
    PROVE  IsFiniteSet(UnitsOf(refs)) /\ Cardinality(UnitsOf(refs)) = Total(refs)
<1> DEFINE Good(s) == Distinct(s) => IsFiniteSet(UnitsOf(s)) /\ Cardinality(UnitsOf(s)) = Total(s)
           S == {s \in Seq(T) : Good(s)}
<1>1. <<>> \in S
  <2>1. UnitsOf(<<>>) = {}
    BY DEF UnitsOf
  <2> QED
    BY <2>1, TotalEmpty, FS_EmptySet, EmptySeq
<1>2. ASSUME NEW s \in Seq(T), s \in S, NEW x \in T PROVE Append(s, x) \in S
  <2> SUFFICES ASSUME Distinct(Append(s, x)) PROVE Good(Append(s, x))
    BY AppendProperties
  <2>1. Distinct(s) /\ x.file \notin FilesOf(s)
    BY DistinctAppend
  <2>2. IsFiniteSet(UnitsOf(s)) /\ Cardinality(UnitsOf(s)) = Total(s)
    BY <1>2, <2>1
  <2>3. PICK c \in Nat : c = Cost(x.excerpt)
    BY EnrichmentAssumption DEF Priced, Cost
  <2>4. PICK I, F, C : I = 1..c /\ F = {x.file} /\ C = F \X I
    OBVIOUS
  <2>5. IsFiniteSet(I) /\ Cardinality(I) = c
    BY <2>4, FS_Interval
  <2>6. IsFiniteSet(C) /\ Cardinality(C) = c
    <3>1. IsFiniteSet(F) /\ Cardinality(F) = 1
      BY ONLY <2>4, FS_Singleton
    <3>2. IsFiniteSet(C) /\ Cardinality(C) = Cardinality(F) * Cardinality(I)
      BY ONLY <2>4, <2>5, <3>1, FS_Product
    <3> QED
      BY <2>5, <3>1, <3>2
  <2>7. UnitsOf(s) \cap C = {}
    <3>1. \A u \in UnitsOf(s) : u[1] \in FilesOf(s)
      BY DEF UnitsOf, FilesOf
    <3>2. \A u \in C : u[1] = x.file
      BY <2>4
    <3> QED
      BY <2>1, <3>1, <3>2
  <2>8. /\ IsFiniteSet(UnitsOf(s) \cup C)
        /\ Cardinality(UnitsOf(s) \cup C) =
              Cardinality(UnitsOf(s)) + Cardinality(C) - Cardinality(UnitsOf(s) \cap C)
    BY <2>2, <2>6, FS_Union
  <2>9. Cardinality(UnitsOf(s) \cap C) = 0
    BY <2>7, FS_EmptySet
  <2>10. UnitsOf(Append(s, x)) = UnitsOf(s) \cup C
    BY <2>3, <2>4, UnitsAppend
  <2>11. Total(s) \in Nat /\ Total(Append(s, x)) = Total(s) + c
    BY <2>3, TotalAppend
  <2> QED
    BY <2>2, <2>6, <2>8, <2>9, <2>10, <2>11
<1>3. \A s \in Seq(T) : s \in S
  <2> HIDE DEF S
  <2> QED
    BY <1>1, <1>2, SequenceInduction
<1> QED
  BY <1>3

\* A part of a list costs no more than the list.
LEMMA PartCosts ==
    ASSUME NEW T, Priced(T), NEW refs \in Seq(T), Distinct(refs),
           NEW U, Priced(U), NEW more \in Seq(U), Distinct(more), PartOf(refs, more)
    PROVE  Total(refs) <= Total(more)
<1>1. UnitsOf(refs) \subseteq UnitsOf(more)
  <2> SUFFICES ASSUME NEW i \in DOMAIN refs
               PROVE  {refs[i].file} \X (1..CostAt(refs, i)) \subseteq UnitsOf(more)
    BY DEF UnitsOf
  <2>1. PICK j \in DOMAIN more : refs[i].file = more[j].file /\ refs[i].excerpt = more[j].excerpt
    BY DEF PartOf
  <2>2. CostAt(refs, i) = CostAt(more, j)
    BY <2>1 DEF CostAt
  <2> QED
    BY <2>1, <2>2 DEF UnitsOf
<1>2. IsFiniteSet(UnitsOf(refs)) /\ Cardinality(UnitsOf(refs)) = Total(refs)
  BY UnitsCount
<1>3. IsFiniteSet(UnitsOf(more)) /\ Cardinality(UnitsOf(more)) = Total(more)
  BY UnitsCount
<1>4. Cardinality(UnitsOf(refs)) <= Cardinality(UnitsOf(more))
  BY <1>1, <1>3, FS_Subset
<1> QED
  BY <1>2, <1>3, <1>4

-----------------------------------------------------------------------------
(* The budget, and what is attached within it.                             *)

\* A step of one review leaves the others alone.
LEMMA OthersWait ==
    ASSUME TypeOK, NEW r \in Review, Step(r), NEW q \in Review, q # r
    PROVE  /\ pc'[q] = pc[q] /\ todo'[q] = todo[q] /\ began'[q] = began[q]
           /\ failed'[q] = failed[q]
           /\ pending'[q] = pending[q] /\ matches'[q] = matches[q]
           /\ packed'[q] = packed[q] /\ kept'[q] = kept[q] /\ used'[q] = used[q]
<1>0. /\ pc \in [Review -> PC] /\ DOMAIN todo = Review
      /\ began \in [Review -> 0..edits] /\ failed \in [Review -> SUBSET MayFail]
      /\ pending \in [Review -> SUBSET (Nat \X Symbol)]
      /\ matches \in [Review -> [Symbol -> Seq(Ref)]]
      /\ packed \in [Review -> Seq(Packed)]
      /\ kept \in [Review -> Seq(Input)] /\ used \in [Review -> Nat]
  BY Parts
<1>1. CASE Walk(r)
  BY <1>0, <1>1 DEF Walk
<1>2. CASE Scan(r) \/ ScanFails(r)
  <2>1. /\ UNCHANGED <<world, began, matches, packed, kept, used>> /\ Grows(r)
        /\ \/ /\ pc' = [pc EXCEPT ![r] = "scan"] /\ todo' = todo
              /\ \E ls \in Seq(Line) : pending' = [pending EXCEPT ![r] = Definitions(ls)]
           \/ /\ todo' = [todo EXCEPT ![r] = Tail(todo[r])]
              /\ UNCHANGED <<pc, pending>>
    BY <1>2, ScanIs
  <2> QED
    BY <1>0, <2>1 DEF Grows
<1>3. CASE Match(r) \/ MatchFails(r)
  <2>1. /\ UNCHANGED <<world, began, todo, packed, kept, used>> /\ Grows(r)
        /\ \E m \in Open(r) :
             \/ pc' = [pc EXCEPT ![r] = "panicked"] /\ UNCHANGED <<pending, matches>>
             \/ /\ pc' = pc /\ pending' = [pending EXCEPT ![r] = @ \ {m}]
                /\ \E x \in Ref : matches' = [matches EXCEPT ![r][m[2]] = Append(@, x)]
    BY <1>3, MatchIs
  <2> QED
    BY <1>0, <2>1 DEF Grows
<1>4. CASE EndOfFile(r)
  BY <1>0, <1>4 DEF EndOfFile
<1>5. CASE LoadIndex(r)
  BY <1>0, <1>5 DEF LoadIndex
<1>6. CASE ReadAt(r) \/ ReadAtFails(r)
  <2>1. PICK loc : loc = Head(todo[r])
    OBVIOUS
  <2>2. /\ todo' = [todo EXCEPT ![r] = Tail(todo[r])]
        /\ UNCHANGED <<world, pc, began, pending, packed, kept, used>> /\ Grows(r)
        /\ \E x \in Ref : matches' = [matches EXCEPT ![r][loc.sym] = Append(@, x)]
    <3>1. ReadAt(r) \/ ReadAtFails(r)
      BY <1>6
    <3>2. /\ todo[r] \in Seq(Location) /\ todo[r] # <<>> /\ pc[r] = "v2"
          /\ loc.sym \in Symbol
          /\ todo' = [todo EXCEPT ![r] = Tail(todo[r])]
          /\ UNCHANGED <<world, pc, began, pending, packed, kept, used>>
          /\ Grows(r)
          /\ \E x \in Ref : matches' = [matches EXCEPT ![r][loc.sym] = Append(@, x)]
      BY <2>1, <3>1, ReadAtIs
    <3> QED
      BY <3>2
  <2> QED
    BY <1>0, <2>2 DEF Grows
<1>7. CASE AttachDirectly(r)
  BY <1>0, <1>7 DEF AttachDirectly
<1>8. CASE Fit(r)
  BY <1>0, <1>8 DEF Fit
<1>9. CASE Expand(r)
  BY <1>0, <1>9 DEF Expand
<1>10. CASE Pack(r) \/ PackFails(r)
  <2>1. PICK c : c = Head(todo[r])
    OBVIOUS
  <2>2. /\ todo' = [todo EXCEPT ![r] = Tail(todo[r])]
        /\ UNCHANGED <<world, pc, began, pending, matches, kept>> /\ Grows(r)
        /\ \/ UNCHANGED <<packed, used>>
           \/ \E e \in Excerpt : /\ packed' = [packed EXCEPT ![r] = Append(@, PackedAs(c, e))]
                                 /\ used' = [used EXCEPT ![r] = @ + Cost(e)]
    BY <1>10, <2>1, PackIs
  <2> QED
    BY <1>0, <2>2 DEF Grows
<1>11. CASE AttachPacked(r)
  BY <1>0, <1>11 DEF AttachPacked
<1> QED
  BY <1>1, <1>2, <1>3, <1>4, <1>5, <1>6, <1>7, <1>8, <1>9, <1>10, <1>11 DEF Step

LEMMA WorldWaits ==
    ASSUME NEW r, Step(r)
    PROVE  disk' = disk /\ edits' = edits /\ idx' = idx /\ config' = config
<1>1. UNCHANGED world
  BY DEF Step, Walk, Scan, ScanFails, Match, MatchFails, EndOfFile, LoadIndex, ReadAt,
         ReadAtFails, AttachDirectly, Fit, Expand, Pack, PackFails, AttachPacked
<1> QED
  BY <1>1 DEF world

LEMMA ExpandingWaits == ASSUME config' = config PROVE Expanding' = Expanding
  BY DEF Expanding

\* No file is in both lists.
Disjoint(refs, more) == FilesOf(refs) \cap FilesOf(more) = {}

\* The sums that Pack and AttachReferenced keep are those of their lists.
Spent(r) ==
    /\ pc[r] \notin {"pack", "fit"} => packed[r] = <<>> /\ kept[r] = <<>> /\ used[r] = 0
    /\ pc[r] = "pack" => kept[r] = <<>> /\ used[r] = Total(packed[r])
    /\ pc[r] = "fit" => used[r] = Total(kept[r])
    /\ used[r] <= Budget /\ Total(packed[r]) <= Budget

\* Each file is in one place, and all that was packed is still there.
InOnePlace(r) ==
    /\ Distinct(packed[r]) /\ Distinct(kept[r])
    /\ pc[r] = "pack" => Distinct(todo[r]) /\ Disjoint(packed[r], todo[r])
    /\ pc[r] = "fit" => Distinct(todo[r]) /\ Disjoint(kept[r], todo[r])
    /\ pc[r] = "fit" /\ Expanding =>
         /\ PartOf(todo[r], packed[r]) /\ PartOf(kept[r], packed[r])
         /\ FilesOf(packed[r]) \subseteq FilesOf(kept[r]) \cup FilesOf(todo[r])

Kept(r) == Spent(r) /\ InOnePlace(r)

LEMMA EmptyList ==
    /\ Distinct(<<>>) /\ FilesOf(<<>>) = {} /\ Total(<<>>) = 0
    /\ \A refs : PartOf(<<>>, refs)
    /\ \A refs : Disjoint(<<>>, refs)
<1>1. Distinct(<<>>) /\ FilesOf(<<>>) = {} /\ \A refs : PartOf(<<>>, refs)
  BY DEF Distinct, FilesOf, PartOf
<1> QED
  BY <1>1, TotalEmpty DEF Disjoint

\* A step of the resolvers.
Resolves(r) ==
    \/ Walk(r) \/ Scan(r) \/ ScanFails(r) \/ Match(r) \/ MatchFails(r) \/ EndOfFile(r)
    \/ LoadIndex(r) \/ ReadAt(r) \/ ReadAtFails(r)

LEMMA ResolvingKept ==
    ASSUME TypeOK, NEW r \in Review, Kept(r), Resolves(r)
    PROVE  Kept(r)'
<1>1. pc[r] \notin {"pack", "fit"} /\ UNCHANGED <<packed, kept, used>>
  BY DEF Resolves, Walk, Scan, ScanFails, Match, MatchFails, EndOfFile, LoadIndex, ReadAt,
         ReadAtFails
<1>2. pc'[r] \notin {"pack", "fit"}
  <2>1. pc'[r] = pc[r] \/ pc'[r] \in {"v1", "v2", "scan", "panicked"}
    BY Parts DEF Resolves, Walk, Scan, ScanFails, Match, MatchFails, EndOfFile, LoadIndex,
                 ReadAt, ReadAtFails
  <2> QED
    BY <1>1, <2>1
<1>3. packed[r] = <<>> /\ kept[r] = <<>> /\ used[r] = 0
  BY <1>1 DEF Kept, Spent
<1> QED
  BY <1>1, <1>2, <1>3, EmptyList, EnrichmentAssumption DEF Kept, Spent, InOnePlace

LEMMA AttachDirectlyKept ==
    ASSUME TypeOK, NEW r \in Review, Kept(r), AttachDirectly(r)
    PROVE  Kept(r)'
<1>1. PICK order \in Orders : \E inputs \in Sorted(Merged(Inputs(Gathered(r, order))), FitOrder) :
        todo' = [todo EXCEPT ![r] = inputs]
  BY DEF AttachDirectly, Gathered
<1>2. PICK refs : refs = Inputs(Gathered(r, order))
  OBVIOUS
<1>3. PICK inputs \in Sorted(Merged(refs), FitOrder) : todo' = [todo EXCEPT ![r] = inputs]
  BY <1>1, <1>2
<1>4. refs \in Seq(Input)
  <2>1. order \in Seq(Symbol)
    BY SymbolOrder DEF Orders
  <2> QED
    BY <1>2, <2>1, GatheredType, InputsType
<1>5. Distinct(inputs)
  BY <1>4, InputAttachable, MergedList
<1>6. /\ pc[r] \in {"v1", "v2"} /\ pc'[r] = "fit" /\ todo'[r] = inputs /\ ~ Expanding
      /\ UNCHANGED <<world, packed, kept, used>>
  BY <1>3, Parts DEF AttachDirectly, Found
<1>7. packed[r] = <<>> /\ kept[r] = <<>> /\ used[r] = 0
  BY <1>6 DEF Kept, Spent
<1>8. ~ Expanding'
  BY <1>6, ExpandingWaits DEF world
<1>9. Spent(r)'
  BY <1>6, <1>7, EmptyList, EnrichmentAssumption DEF Spent
<1>10. InOnePlace(r)'
  BY <1>5, <1>6, <1>7, <1>8, EmptyList DEF InOnePlace
<1> QED
  BY <1>9, <1>10 DEF Kept

LEMMA ExpandKept ==
    ASSUME TypeOK, NEW r \in Review, Kept(r), Expand(r)
    PROVE  Kept(r)'
<1>1. PICK ranked \in Sorted(Candidates(r), RankOrder) : todo' = [todo EXCEPT ![r] = ranked]
  BY DEF Expand
<1>2. Distinct(ranked)
  BY CandidateList
<1>3. /\ pc[r] \in {"v1", "v2"} /\ pc'[r] = "pack" /\ todo'[r] = ranked /\ Expanding
      /\ UNCHANGED <<packed, kept, used>>
  BY <1>1, Parts DEF Expand, Found
<1>4. packed[r] = <<>> /\ kept[r] = <<>> /\ used[r] = 0
  BY <1>3 DEF Kept, Spent
<1>5. Spent(r)'
  BY <1>3, <1>4, EmptyList, EnrichmentAssumption DEF Spent
<1>6. InOnePlace(r)'
  BY <1>2, <1>3, <1>4, EmptyList DEF InOnePlace
<1> QED
  BY <1>5, <1>6 DEF Kept

LEMMA AttachPackedKept ==
    ASSUME TypeOK, NEW r \in Review, Kept(r), AttachPacked(r)
    PROVE  Kept(r)'
<1>1. PICK inputs \in Sorted(Merged(packed[r]), FitOrder) : todo' = [todo EXCEPT ![r] = inputs]
  BY DEF AttachPacked
<1>2. packed[r] \in Seq(Packed)
  BY Parts
<1>3. Distinct(inputs) /\ PartOf(inputs, packed[r]) /\ FilesOf(inputs) = FilesOf(packed[r])
  BY <1>2, PackedAttachable, MergedList
<1>4. /\ pc[r] = "pack" /\ pc'[r] = "fit" /\ todo'[r] = inputs
      /\ used'[r] = 0 /\ UNCHANGED <<packed, kept>>
  BY <1>1, Parts DEF AttachPacked
<1>5. kept[r] = <<>> /\ Total(packed[r]) <= Budget /\ Distinct(packed[r])
  BY <1>4 DEF Kept, Spent, InOnePlace
<1>6. Spent(r)'
  BY <1>4, <1>5, EmptyList, EnrichmentAssumption DEF Spent
<1>7. InOnePlace(r)'
  BY <1>3, <1>4, <1>5, EmptyList DEF InOnePlace
<1> QED
  BY <1>6, <1>7 DEF Kept

LEMMA PackKept ==
    ASSUME TypeOK, NEW r \in Review, Kept(r), Pack(r) \/ PackFails(r)
    PROVE  Kept(r)'
<1>2. PICK c : c = Head(todo[r])
  OBVIOUS
<1>1. /\ todo[r] \in Seq(Ranked) /\ todo[r] # <<>> /\ pc[r] = "pack"
      /\ todo' = [todo EXCEPT ![r] = Tail(todo[r])]
      /\ UNCHANGED <<pc, kept>>
      /\ c \in Ranked
  BY <1>2, PackIs
<1>5. /\ kept[r] = <<>> /\ used[r] = Total(packed[r]) /\ used[r] <= Budget
      /\ Distinct(packed[r]) /\ Distinct(todo[r]) /\ Disjoint(packed[r], todo[r])
  BY <1>1 DEF Kept, Spent, InOnePlace
<1>6. /\ FilesOf(todo[r]) = FilesOf(Tail(todo[r])) \cup {c.file}
      /\ Distinct(Tail(todo[r])) /\ c.file \notin FilesOf(Tail(todo[r]))
  BY <1>1, <1>2, <1>5, DistinctTail
<1>7. pc'[r] = "pack" /\ kept'[r] = <<>> /\ todo'[r] = Tail(todo[r])
  BY <1>1, <1>5, Parts
<1>8. CASE UNCHANGED <<packed, used>>
  <2>1. packed' = packed /\ used' = used
    BY <1>8
  <2>2. Spent(r)'
    BY <1>5, <1>7, <2>1 DEF Spent
  <2>3. InOnePlace(r)'
    BY <1>5, <1>6, <1>7, <2>1, EmptyList DEF InOnePlace, Disjoint
  <2> QED
    BY <2>2, <2>3 DEF Kept
<1>9. ASSUME NEW e \in Excerpt, Fits(r, e),
             packed' = [packed EXCEPT ![r] = Append(@, PackedAs(c, e))],
             used' = [used EXCEPT ![r] = @ + Cost(e)]
      PROVE  Kept(r)'
  <2>1. PICK x \in Packed : x = PackedAs(c, e)
    BY <1>1, PackedAsType
  <2>2. x.file = c.file /\ x.excerpt = e
    BY <2>1 DEF PackedAs
  <2>3. packed[r] \in Seq(Packed) /\ used[r] \in Nat
    BY Parts
  <2>4. packed'[r] = Append(packed[r], x) /\ used'[r] = used[r] + Cost(x.excerpt)
    BY <1>9, <2>1, <2>2, Parts
  <2>5. Total(packed'[r]) = used'[r] /\ used'[r] <= Budget
    <3>1. Total(packed'[r]) = Total(packed[r]) + Cost(x.excerpt)
      BY <2>3, <2>4, PackedAttachable, AttachableArePriced, TotalAppend
    <3>2. used[r] + Cost(x.excerpt) <= Budget
      BY <1>9, <2>2 DEF Fits
    <3> QED
      BY <1>5, <2>4, <3>1, <3>2
  <2>6. FilesOf(packed'[r]) = FilesOf(packed[r]) \cup {c.file}
    BY <2>2, <2>3, <2>4, FilesAppend
  <2>7. Distinct(packed'[r])
    <3>1. c.file \notin FilesOf(packed[r])
      BY <1>5, <1>6 DEF Disjoint
    <3> QED
      BY <1>5, <2>2, <2>3, <2>4, <3>1, DistinctAppend
  <2>8. Spent(r)'
    BY <1>7, <2>5 DEF Spent
  <2>9. InOnePlace(r)'
    BY <1>5, <1>6, <1>7, <2>6, <2>7, EmptyList DEF InOnePlace, Disjoint
  <2> QED
    BY <2>8, <2>9 DEF Kept
<1> QED
  BY <1>2, <1>8, <1>9, PackIs

LEMMA PartOfTail ==
    ASSUME NEW T, NEW refs \in Seq(T), refs # <<>>, NEW more, PartOf(refs, more)
    PROVE  /\ PartOf(Tail(refs), more)
           /\ \E j \in DOMAIN more :
                 Head(refs).file = more[j].file /\ Head(refs).excerpt = more[j].excerpt
<1>1. /\ Tail(refs) \in Seq(T) /\ Head(refs) = refs[1] /\ 1 \in DOMAIN refs
      /\ \A i \in DOMAIN Tail(refs) : i + 1 \in DOMAIN refs /\ Tail(refs)[i] = refs[i + 1]
  BY First
<1> QED
  BY <1>1 DEF PartOf

LEMMA PartOfAppend ==
    ASSUME NEW T, NEW refs \in Seq(T), NEW x \in T, NEW more, PartOf(refs, more),
           \E j \in DOMAIN more : x.file = more[j].file /\ x.excerpt = more[j].excerpt
    PROVE  PartOf(Append(refs, x), more)
<1>0. PICK m \in Nat : m = Len(refs)
  OBVIOUS
<1>1. PICK longer : longer = Append(refs, x)
  OBVIOUS
<1>2. /\ DOMAIN refs = 1..m /\ DOMAIN longer = 1..m + 1
      /\ \A i \in 1..m : longer[i] = refs[i]
      /\ longer[m + 1] = x
  BY <1>0, <1>1
<1>3. \A i \in 1..m + 1 : i \in 1..m \/ i = m + 1
  OBVIOUS
<1> QED
  BY <1>1, <1>2, <1>3 DEF PartOf

LEMMA FitKept ==
    ASSUME TypeOK, NEW r \in Review, Kept(r), Fit(r)
    PROVE  Kept(r)'
<1>1. todo[r] \in Seq(Input) /\ todo[r] # <<>> /\ pc[r] = "fit"
  BY TodoIs DEF Fit
<1>2. PICK in : in = Head(todo[r])
  OBVIOUS
<1>3. /\ IF Fits(r, in.excerpt)
         THEN /\ kept' = [kept EXCEPT ![r] = Append(@, in)]
              /\ used' = [used EXCEPT ![r] = @ + Cost(in.excerpt)]
         ELSE UNCHANGED <<kept, used>>
      /\ todo' = [todo EXCEPT ![r] = Tail(todo[r])]
      /\ UNCHANGED <<world, pc, packed>>
  BY <1>2 DEF Fit
<1>4. in \in Input
  BY <1>1, <1>2, First
<1>5. /\ used[r] = Total(kept[r]) /\ used[r] <= Budget /\ Total(packed[r]) <= Budget
      /\ Distinct(packed[r]) /\ Distinct(kept[r]) /\ Distinct(todo[r]) /\ Disjoint(kept[r], todo[r])
  BY <1>1 DEF Kept, Spent, InOnePlace
<1>6. /\ FilesOf(todo[r]) = FilesOf(Tail(todo[r])) \cup {in.file}
      /\ Distinct(Tail(todo[r])) /\ in.file \notin FilesOf(Tail(todo[r]))
  BY <1>1, <1>2, <1>5, DistinctTail
<1>7. /\ pc'[r] = "fit" /\ todo'[r] = Tail(todo[r])
      /\ packed'[r] = packed[r] /\ Expanding' = Expanding
  BY <1>1, <1>3, Parts, ExpandingWaits DEF world
<1>8. kept[r] \in Seq(Input) /\ used[r] \in Nat
  BY Parts
<1>9. PICK more : more = Append(kept[r], in)
  OBVIOUS
<1>10. /\ Distinct(more) /\ more \in Seq(Input)
       /\ FilesOf(more) = FilesOf(kept[r]) \cup {in.file}
  <2>1. in.file \notin FilesOf(kept[r])
    BY <1>5, <1>6 DEF Disjoint
  <2> QED
    BY <1>4, <1>5, <1>8, <1>9, <2>1, DistinctAppend, FilesAppend, AppendProperties
<1>11. Total(more) = used[r] + Cost(in.excerpt)
  BY <1>4, <1>5, <1>8, <1>9, InputAttachable, AttachableArePriced, TotalAppend
<1>12. ASSUME Expanding
       PROVE  /\ PartOf(Tail(todo[r]), packed[r]) /\ PartOf(more, packed[r])
              /\ FilesOf(packed[r]) \subseteq FilesOf(more) \cup FilesOf(Tail(todo[r]))
              /\ Fits(r, in.excerpt)
  <2>1. /\ PartOf(todo[r], packed[r]) /\ PartOf(kept[r], packed[r])
        /\ FilesOf(packed[r]) \subseteq FilesOf(kept[r]) \cup FilesOf(todo[r])
    BY <1>1, <1>12 DEF Kept, InOnePlace
  <2>2. PartOf(Tail(todo[r]), packed[r])
    BY <1>1, <2>1, PartOfTail
  <2>3. \E j \in DOMAIN packed[r] :
            in.file = packed[r][j].file /\ in.excerpt = packed[r][j].excerpt
    BY <1>1, <1>2, <2>1, PartOfTail
  <2>4. PartOf(more, packed[r])
    BY <1>4, <1>8, <1>9, <2>1, <2>3, PartOfAppend
  <2>5. FilesOf(packed[r]) \subseteq FilesOf(more) \cup FilesOf(Tail(todo[r]))
    BY <1>6, <1>10, <2>1
  <2>6. Total(more) <= Total(packed[r])
    <3>1. packed[r] \in Seq(Packed) /\ Priced(Packed) /\ Priced(Input)
      BY Parts, InputAttachable, PackedAttachable, AttachableArePriced
    <3> QED
      BY <1>5, <1>10, <2>4, <3>1, PartCosts
  <2>7. Fits(r, in.excerpt)
    <3>1. PICK a \in Nat, b \in Nat, c \in Nat :
            a = Total(more) /\ b = Total(packed[r]) /\ c = Budget
      <4>1. Total(more) \in Nat
        BY <1>4, <1>8, <1>11, CostType DEF Input
      <4>2. Total(packed[r]) \in Nat
        <5>1. packed[r] \in Seq(Packed) /\ Priced(Packed)
          BY Parts, PackedAttachable, AttachableArePriced
        <5> QED
          BY <5>1, TotalStepwise
      <4> QED
        BY <4>1, <4>2, EnrichmentAssumption
    <3>2. a <= b /\ b <= c
      BY <1>5, <2>6, <3>1
    <3>3. a <= c
      BY <3>2
    <3> QED
      BY <1>11, <3>1, <3>3 DEF Fits
  <2> QED
    BY <2>2, <2>4, <2>5, <2>7
<1>13. CASE Fits(r, in.excerpt)
  <2>1. kept'[r] = more /\ used'[r] = used[r] + Cost(in.excerpt)
    BY <1>3, <1>9, <1>13, Parts
  <2>2. used'[r] <= Budget
    BY <1>13, <2>1 DEF Fits
  <2>3. Spent(r)'
    BY <1>5, <1>7, <1>11, <2>1, <2>2 DEF Spent
  <2>4. Disjoint(more, Tail(todo[r]))
    BY <1>5, <1>6, <1>10 DEF Disjoint
  <2>5. InOnePlace(r)'
    BY <1>5, <1>6, <1>7, <1>10, <1>12, <2>1, <2>4 DEF InOnePlace
  <2> QED
    BY <2>3, <2>5 DEF Kept
<1>14. CASE ~ Fits(r, in.excerpt)
  <2>1. ~ Expanding /\ kept' = kept /\ used' = used
    BY <1>3, <1>12, <1>14
  <2>2. Spent(r)'
    BY <1>5, <1>7, <2>1 DEF Spent
  <2>3. Disjoint(kept[r], Tail(todo[r]))
    BY <1>5, <1>6 DEF Disjoint
  <2>4. InOnePlace(r)'
    BY <1>5, <1>6, <1>7, <2>1, <2>3 DEF InOnePlace
  <2> QED
    BY <2>2, <2>4 DEF Kept
<1> QED
  BY <1>13, <1>14

\* What depends on the variables of one review and the configuration only.
LEMMA KeptWaits ==
    ASSUME NEW q, Kept(q), config' = config,
           pc'[q] = pc[q], todo'[q] = todo[q], packed'[q] = packed[q],
           kept'[q] = kept[q], used'[q] = used[q]
    PROVE  Kept(q)'
<1>1. Expanding' = Expanding
  BY ExpandingWaits
<1>2. Spent(q)'
  BY DEF Kept, Spent
<1>3. InOnePlace(q)'
  BY <1>1 DEF Kept, InOnePlace
<1> QED
  BY <1>2, <1>3 DEF Kept

KeptInv == TypeOK /\ \A r \in Review : Kept(r)

LEMMA KeptInitially == ASSUME Init PROVE KeptInv
<1> SUFFICES ASSUME NEW r \in Review PROVE Kept(r)
  BY InitTyped DEF KeptInv
<1>1. pc[r] = "start" /\ packed[r] = <<>> /\ kept[r] = <<>> /\ used[r] = 0
  BY DEF Init
<1> QED
  BY <1>1, EmptyList, EnrichmentAssumption DEF Kept, Spent, InOnePlace

LEMMA KeptStep == ASSUME KeptInv, [Next]_vars PROVE KeptInv'
<1>0. TypeOK /\ \A q \in Review : Kept(q)
  BY DEF KeptInv
<1>1. ASSUME NEW r \in Review, Step(r) PROVE KeptInv'
  <2>1. TypeOK'
    BY <1>0, <1>1, StepTyped
  <2>2. Kept(r)'
    BY <1>0, <1>1, ResolvingKept, AttachDirectlyKept, FitKept, ExpandKept, PackKept,
       AttachPackedKept DEF Step, Resolves
  <2>3. ASSUME NEW q \in Review, q # r PROVE Kept(q)'
    BY <1>0, <1>1, <2>3, OthersWait, WorldWaits, KeptWaits
  <2> QED
    BY <2>1, <2>2, <2>3 DEF KeptInv
<1>2. ASSUME NEW f \in File, Edit(f) PROVE KeptInv'
  <2>1. TypeOK'
    BY <1>0, <1>2, EditTyped
  <2>2. UNCHANGED <<idx, config, pc, began, failed, todo, pending, matches, packed, kept, used>>
    BY <1>2 DEF Edit
  <2>3. ASSUME NEW q \in Review PROVE Kept(q)'
    BY <1>0, <2>2, KeptWaits
  <2> QED
    BY <2>1, <2>3 DEF KeptInv
<1>3. CASE UNCHANGED vars
  <2>1. UNCHANGED <<disk, edits, idx, config, pc, began, failed, todo, pending, matches, packed, kept, used>>
    BY <1>3 DEF vars
  <2>2. TypeOK'
    BY <1>0, <2>1 DEF TypeOK
  <2>3. ASSUME NEW q \in Review PROVE Kept(q)'
    BY <1>0, <2>1, KeptWaits
  <2> QED
    BY <2>2, <2>3 DEF KeptInv
<1> QED
  BY <1>1, <1>2, <1>3 DEF Next

THEOREM KeptIsInvariant == Spec => []KeptInv
  BY KeptInitially, KeptStep, PTL DEF Spec

LEMMA KeptTotal == ASSUME KeptInv, NEW r \in Review PROVE Total(kept[r]) <= Budget
<1>1. Kept(r) /\ pc[r] \in PC
  BY Parts DEF KeptInv
<1>2. CASE pc[r] = "fit"
  BY <1>1, <1>2 DEF Kept, Spent
<1>3. CASE pc[r] # "fit"
  BY <1>1, <1>3, EmptyList, EnrichmentAssumption DEF Kept, Spent
<1> QED
  BY <1>2, <1>3

\* What is packed, and what is attached in the end, costs no more than
\* EnrichBudget, although Pack and AttachReferenced only look at a sum they
\* keep beside the list.
THEOREM EnrichmentKeepsItsBudget == Spec => []BudgetKept
<1>1. KeptInv => BudgetKept
  BY KeptTotal DEF KeptInv, Kept, Spent, BudgetKept
<1> QED
  BY <1>1, KeptIsInvariant, PTL

\* No file is attached twice, whatever symbols, strategies and lines led to it.
THEOREM FilesAreAttachedOnce == Spec => []AttachedOnce
<1>1. KeptInv => AttachedOnce
  <2> SUFFICES ASSUME KeptInv, NEW r \in Review
               PROVE  Cardinality(FilesOf(kept[r])) = Len(kept[r])
    BY DEF AttachedOnce
  <2>1. Distinct(kept[r]) /\ kept[r] \in Seq(Input)
    BY Parts DEF KeptInv, Kept, InOnePlace
  <2> QED
    BY <2>1, DistinctCount
<1> QED
  BY <1>1, KeptIsInvariant, PTL

\* AttachReferenced drops nothing of what Pack has chosen: what it has kept at
\* any time is a part of what was packed, with the excerpts that were packed,
\* so the next file fits.
THEOREM NothingPackedIsDropped == Spec => []SecondFitDropsNothing
<1>1. KeptInv => SecondFitDropsNothing
  <2> SUFFICES ASSUME KeptInv, NEW r \in Review, Done(r), Expanding
               PROVE  FilesOf(kept[r]) = FilesOf(packed[r])
    BY DEF SecondFitDropsNothing
  <2>1. pc[r] = "fit" /\ todo[r] = <<>> /\ Kept(r)
    BY DEF Done, KeptInv
  <2>2. /\ PartOf(kept[r], packed[r])
        /\ FilesOf(packed[r]) \subseteq FilesOf(kept[r]) \cup FilesOf(todo[r])
    BY <2>1 DEF Kept, InOnePlace
  <2>3. FilesOf(todo[r]) = {}
    BY <2>1, EmptyList
  <2>4. FilesOf(kept[r]) \subseteq FilesOf(packed[r])
    BY <2>2 DEF PartOf, FilesOf
  <2> QED
    BY <2>2, <2>3, <2>4
<1> QED
  BY <1>1, KeptIsInvariant, PTL

-----------------------------------------------------------------------------
(* What excerpts show.                                                     *)

Holds(w, line) == \E j \in DOMAIN w : w[j] = line

\* A line that has room, with the lines before it, in what was cut around it.
LEMMA RoomShows ==
    ASSUME NEW s \in Seq(Line), NEW t \in Seq(Line), NEW a \in Nat, a >= 1, NEW b \in Int,
           b <= Len(s), NEW n \in Nat, a <= n, n <= b, n <= Len(t),
           Agree(s, t, a, n),
           NEW cap \in Nat, Size(SubSeq(t, a, n)) <= cap
    PROVE  Holds(WholeIn(SubSeq(s, a, b), cap), t[n])
<1>0. \A i \in a..n : s[i] = t[i]
  BY DEF Agree
<1>1. /\ n - a + 1 \in 1..Len(SubSeq(s, a, b))
      /\ SubSeq(s, a, b)[n - a + 1] = s[n]
      /\ SubSeq(SubSeq(s, a, b), 1, n - a + 1) = SubSeq(t, a, n)
  <2>1. /\ s \in Seq(Line) /\ t \in Seq(Line) /\ a \in Nat /\ a >= 1 /\ b \in Int
        /\ b <= Len(s) /\ n \in Nat /\ a <= n /\ n <= b /\ n <= Len(t)
        /\ Agree(s, t, a, n)
    OBVIOUS
  <2>2. BeginsAs(SubSeq(s, a, b), s, t, a, n)
    BY ONLY <2>1, PartOfPart
  <2> QED
    BY <2>2 DEF BeginsAs
<1>2. PICK p, k : p = SubSeq(s, a, b) /\ k = n - a + 1
  OBVIOUS
<1>3. p \in Seq(Line)
  BY <1>2, Part
<1>4. k \in 1..Len(p) /\ Size(SubSeq(p, 1, k)) <= cap
  BY <1>1, <1>2
<1>5. \E j \in DOMAIN WholeIn(p, cap) : WholeIn(p, cap)[j] = p[k]
  BY ONLY <1>3, <1>4, cap \in Nat, WholeInShows
<1>6. p[k] = t[n]
  <2>1. n \in a..n
    OBVIOUS
  <2> QED
    BY <1>0, <1>1, <1>2, <2>1
<1> QED
  BY <1>2, <1>5, <1>6 DEF Holds

LEMMA Around ==
    ASSUME NEW n \in Nat, n >= 1, NEW m \in Nat, n <= m
    PROVE  /\ Larger(1, n - Before) \in Nat /\ Larger(1, n - Before) >= 1
           /\ Larger(1, n - Before) <= n
           /\ Lesser(n + After, m) \in Int /\ n <= Lesser(n + After, m) /\ Lesser(n + After, m) <= m
<1>1. Before \in Nat /\ After \in Nat
  BY EnrichmentAssumption
<1> QED
  BY <1>1 DEF Larger, Lesser

\* A line that has room is whole in a window around it.
LEMMA WindowShows ==
    ASSUME TypeOK, NEW f \in DOMAIN disk, NEW n, NEW cap \in Nat, HasRoom(f, n, cap),
           NEW w, w = WholeIn(Window(Scanned(disk[f].lines), n), cap)
    PROVE  \E j \in DOMAIN w : w[j] = disk[f].lines[n]
<1>1. PICK ls, s : ls = disk[f].lines /\ s = Scanned(ls)
  OBVIOUS
<1>2. /\ ls \in Seq(Line) /\ s \in Seq(Line) /\ Len(s) <= Len(ls)
      /\ \A i \in 1..Len(s) : s[i] = ls[i]
  BY <1>1, Reading, ScannedIs
<1>3. n \in DOMAIN s /\ Size(SubSeq(ls, Larger(1, n - Before), n)) <= cap
  BY <1>1 DEF HasRoom
<1>4. n \in Nat /\ n >= 1 /\ n <= Len(s) /\ n <= Len(ls) /\ Len(s) \in Nat
  BY <1>2, <1>3
<1>5. PICK a, b : a = Larger(1, n - Before) /\ b = Lesser(n + After, Len(s))
  OBVIOUS
<1>6. a \in Nat /\ a >= 1 /\ a <= n /\ b \in Int /\ n <= b /\ b <= Len(s)
  BY <1>4, <1>5, Around
<1>7. \A i \in a..n : s[i] = ls[i]
  <2>1. \A i \in a..n : i \in 1..Len(s)
    BY <1>4, <1>6
  <2> QED
    BY <1>2, <2>1
<1>8. w = WholeIn(SubSeq(s, a, b), cap)
  BY <1>1, <1>5 DEF Window
<1>9. Size(SubSeq(ls, a, n)) <= cap
  BY <1>3, <1>5
<1>10. Agree(s, ls, a, n)
  BY <1>7 DEF Agree
<1>11. Holds(WholeIn(SubSeq(s, a, b), cap), ls[n])
  BY ONLY <1>2, <1>4, <1>6, <1>9, <1>10, cap \in Nat, RoomShows
<1> QED
  BY <1>1, <1>8, <1>11 DEF Holds

LEMMA ReadExcerptAtShows ==
    ASSUME TypeOK, NEW f \in DOMAIN disk, NEW n, HasRoom(f, n, Cap),
           NEW w, w = ReadExcerptAt(disk[f].lines, n).lines
    PROVE  \E j \in DOMAIN w : w[j] = disk[f].lines[n]
<1>1. w = WholeIn(Window(Scanned(disk[f].lines), n), Cap)
  BY DEF ReadExcerptAt, Cut
<1> QED
  BY <1>1, CapsType, WindowShows

LEMMA ReadExcerptShows ==
    ASSUME TypeOK, NEW f \in DOMAIN disk, NEW n, n # 0, NEW cap \in Nat \ {0},
           HasRoom(f, n, cap - 1), NEW w, w = ReadExcerpt(disk[f].lines, n, cap).lines
    PROVE  \E j \in DOMAIN w : w[j] = disk[f].lines[n]
<1>1. w = WholeIn(Window(Scanned(disk[f].lines), n), cap - 1)
  BY DEF ReadExcerpt, WholeLines
<1>2. cap - 1 \in Nat
  OBVIOUS
<1> QED
  BY <1>1, <1>2, WindowShows

LEMMA BuildExcerptShows ==
    ASSUME TypeOK, NEW f \in DOMAIN disk, NEW n, HasRoom(f, n, Cap),
           NEW w, w = BuildExcerpt(f, n).lines
    PROVE  \E j \in DOMAIN w : w[j] = disk[f].lines[n]
<1>1. PICK ls, s : ls = disk[f].lines /\ s = Pieces(f)
  OBVIOUS
<1>2. /\ ls \in Seq(Line) /\ s \in Seq(Line) /\ Len(s) = Len(ls) + 1 /\ Len(ls) \in Nat
      /\ \A i \in 1..Len(ls) : s[i] = ls[i]
  BY <1>1, Reading
<1>3. n \in DOMAIN Scanned(ls) /\ Size(SubSeq(ls, Larger(1, n - Before), n)) <= Cap
  BY <1>1 DEF HasRoom
<1>4. n \in Nat /\ n >= 1 /\ n <= Len(ls) /\ n <= Len(s)
  <2>1. Scanned(ls) \in Seq(Line) /\ Len(Scanned(ls)) <= Len(ls)
    BY <1>2, ScannedIs
  <2> QED
    BY <1>2, <1>3, <2>1
<1>5. PICK a, b, cap : a = Larger(1, n - Before) /\ b = EndOf(f, n) /\ cap = Cap
  OBVIOUS
<1>6. b \in Int /\ n <= b /\ b <= Len(s)
  BY <1>1, <1>4, <1>5, ExcerptEnd
<1>7. a \in Nat /\ a >= 1 /\ a <= n
  BY <1>2, <1>4, <1>5, Around
<1>8. \A i \in a..n : s[i] = ls[i]
  <2>1. \A i \in a..n : i \in 1..Len(ls)
    BY <1>2, <1>4, <1>7
  <2> QED
    BY <1>2, <2>1
<1>9. w = WholeIn(SubSeq(s, a, b), cap)
  BY <1>1, <1>5, BuildExcerptIs DEF Cut
<1>10. Size(SubSeq(ls, a, n)) <= cap /\ cap \in Nat
  BY <1>3, <1>5, CapsType
<1>11. Agree(s, ls, a, n)
  BY <1>8 DEF Agree
<1>12. Holds(WholeIn(SubSeq(s, a, b), cap), ls[n])
  BY ONLY <1>2, <1>4, <1>6, <1>7, <1>10, <1>11, RoomShows
<1> QED
  BY <1>1, <1>9, <1>12 DEF Holds

\* What is in a list after Append, in its rest, and in a concatenation.
LEMMA RangeAppend ==
    ASSUME NEW T, NEW s \in Seq(T), NEW x \in T
    PROVE  Range(Append(s, x)) = Range(s) \cup {x}
<1>0. PICK m \in Nat : m = Len(s)
  OBVIOUS
<1>1. PICK longer : longer = Append(s, x)
  OBVIOUS
<1>2. /\ DOMAIN s = 1..m /\ DOMAIN longer = 1..m + 1
      /\ \A i \in 1..m : longer[i] = s[i]
      /\ longer[m + 1] = x
  BY <1>0, <1>1
<1>3. /\ \A i \in 1..m + 1 : i \in 1..m \/ i = m + 1
      /\ \A i \in 1..m : i \in 1..m + 1
      /\ m + 1 \in 1..m + 1
  OBVIOUS
<1>4. Range(longer) = Range(s) \cup {x}
  BY <1>2, <1>3 DEF Range
<1> QED
  BY <1>1, <1>4

LEMMA RangeTail ==
    ASSUME NEW T, NEW s \in Seq(T), s # <<>>
    PROVE  Range(Tail(s)) \subseteq Range(s) /\ Head(s) \in Range(s)
<1>1. /\ Tail(s) \in Seq(T) /\ Head(s) = s[1] /\ 1 \in DOMAIN s
      /\ \A i \in DOMAIN Tail(s) : i + 1 \in DOMAIN s /\ Tail(s)[i] = s[i + 1]
  BY First
<1> QED
  BY <1>1 DEF Range

LEMMA RangeEmpty == Range(<<>>) = {}
  BY DEF Range

\* The file f is what r has seen, or what the index was built from.
Unedited(r, f) == IF config.index THEN AsIndexed(f) ELSE SameSince(r, f)

\* Every definition of one of these symbols in the file f has room in an excerpt.
Roomy(f, syms) ==
    \A m \in Definitions(disk[f].lines) : m[2] \in syms => HasRoom(f, m[1], Cap)

ShowsRef(r, x) ==
    x.file \notin failed[r] /\ Unedited(r, x.file) /\ Roomy(x.file, {x.sym})
        => \E j \in DOMAIN x.excerpt.lines : x.sym \in x.excerpt.lines[j].def
ShowsInput(r, x) ==
    x.file \notin failed[r] /\ Unedited(r, x.file) /\ Roomy(x.file, x.syms)
        => \E j \in DOMAIN x.excerpt.lines : x.excerpt.lines[j].def \cap x.syms # {}
ShowsHint(r, c) ==
    /\ c.file \notin failed[r]
    /\ c.hint # 0 /\ AsIndexed(c.file)
    /\ HasRoom(c.file, c.hint, CapOf(c) - 1)
    => \E j \in DOMAIN c.excerpt.lines :
          c.excerpt.lines[j].def \cup c.excerpt.lines[j].use # {}

\* A location of the index, a candidate's line, and a match of v1 are there.
InIndex(x) == x.file \in DOMAIN idx /\ x.line \in DOMAIN idx[x.file] /\ x.sym \in idx[x.file][x.line].def
HasHint(c) ==
    c.hint # 0 => /\ c.file \in DOMAIN idx /\ c.hint \in DOMAIN idx[c.file]
                  /\ idx[c.file][c.hint].def \cup idx[c.file][c.hint].use # {}
Seen(r, f, m) ==
    f \notin failed[r] /\ SameSince(r, f)
        => m[1] \in DOMAIN disk[f].lines /\ m[2] \in disk[f].lines[m[1]].def

\* A file that was not edited is what the index has.
Untouched ==
    \A f \in DOMAIN disk : disk[f].mtime = 0 => f \in DOMAIN idx /\ disk[f].lines = idx[f]

Shown(r) ==
    /\ pc[r] \in {"v1", "scan"} => ~ config.index
    /\ pc[r] = "v2" => config.index
    /\ pc[r] = "start" => \A s \in Symbol : matches[r][s] = <<>>
    /\ \A s \in Symbol : \A x \in Range(matches[r][s]) : ShowsRef(r, x)
    /\ pc[r] = "scan" => \A m \in pending[r] : Seen(r, Head(todo[r]), m)
    /\ pc[r] = "v2" => \A x \in Range(todo[r]) : InIndex(x)
    /\ pc[r] = "pack" => Expanding /\ \A x \in Range(todo[r]) : HasHint(x)
    /\ pc[r] = "fit" /\ ~ Expanding => \A x \in Range(todo[r]) : ShowsInput(r, x)
    /\ ~ Expanding => \A x \in Range(kept[r]) : ShowsInput(r, x)
    /\ \A x \in Range(packed[r]) : ShowsHint(r, x)

ShownInv == KeptInv /\ Untouched /\ \A r \in Review : Shown(r)

\* A file that stays has as much room.
LEMMA RoomStays ==
    ASSUME NEW f, disk'[f] = disk[f]
    PROVE  /\ \A n, cap : HasRoom(f, n, cap)' <=> HasRoom(f, n, cap)
           /\ \A syms : Roomy(f, syms)' <=> Roomy(f, syms)
<1>1. \A n, cap : HasRoom(f, n, cap)' <=> HasRoom(f, n, cap)
  BY DEF HasRoom
<1> QED
  BY <1>1 DEF Roomy

\* The disk stays: what r has seen and has, it still has.
LEMMA StillSeen ==
    ASSUME NEW r, UNCHANGED world, began'[r] = began[r], failed[r] \subseteq failed'[r]
    PROVE  /\ \A f : SameSince(r, f)' <=> SameSince(r, f)
           /\ \A f : AsIndexed(f)' <=> AsIndexed(f)
           /\ \A f : Unedited(r, f)' <=> Unedited(r, f)
           /\ \A x : ShowsRef(r, x) => ShowsRef(r, x)'
           /\ \A x : ShowsInput(r, x) => ShowsInput(r, x)'
           /\ \A x : ShowsHint(r, x) => ShowsHint(r, x)'
           /\ \A x : InIndex(x)' <=> InIndex(x)
           /\ \A x : HasHint(x)' <=> HasHint(x)
           /\ \A f, m : Seen(r, f, m) => Seen(r, f, m)'
<1>0. \A f : disk'[f] = disk[f]
  BY DEF world
<1>1. \A f : SameSince(r, f)' <=> SameSince(r, f)
  BY DEF SameSince, world
<1>2. \A f : AsIndexed(f)' <=> AsIndexed(f)
  BY DEF AsIndexed, world
<1>3. \A f : Unedited(r, f)' <=> Unedited(r, f)
  BY <1>1, <1>2 DEF Unedited, world
<1>4. \A x : ShowsRef(r, x) => ShowsRef(r, x)'
  BY <1>0, <1>3, RoomStays DEF ShowsRef
<1>5. \A x : ShowsInput(r, x) => ShowsInput(r, x)'
  BY <1>0, <1>3, RoomStays DEF ShowsInput
<1>6. \A x : ShowsHint(r, x) => ShowsHint(r, x)'
  BY <1>0, <1>2, RoomStays DEF ShowsHint
<1>7. \A x : InIndex(x)' <=> InIndex(x)
  BY DEF InIndex, world
<1>8. \A x : HasHint(x)' <=> HasHint(x)
  BY DEF HasHint, world
<1>9. \A f, m : Seen(r, f, m) => Seen(r, f, m)'
  BY <1>1 DEF Seen, world
<1> QED
  BY <1>1, <1>2, <1>3, <1>4, <1>5, <1>6, <1>7, <1>8, <1>9

\* An edit makes the file newer than anything seen or indexed.
LEMMA EditedIsNewer ==
    ASSUME TypeOK, NEW g \in File, Edit(g), NEW r \in Review
    PROVE  /\ \A f : SameSince(r, f)' => SameSince(r, f) /\ disk'[f] = disk[f]
           /\ \A f : AsIndexed(f)' => AsIndexed(f) /\ disk'[f] = disk[f]
           /\ \A f : Unedited(r, f)' => Unedited(r, f) /\ disk'[f] = disk[f]
           /\ \A x : ShowsRef(r, x) => ShowsRef(r, x)'
           /\ \A x : ShowsInput(r, x) => ShowsInput(r, x)'
           /\ \A x : ShowsHint(r, x) => ShowsHint(r, x)'
           /\ \A x : InIndex(x) => InIndex(x)'
           /\ \A x : HasHint(x) => HasHint(x)'
           /\ \A f, m : Seen(r, f, m) => Seen(r, f, m)'
<1>0. /\ edits \in Nat /\ began[r] \in 0..edits /\ began'[r] = began[r]
      /\ failed' = failed /\ idx' = idx /\ config' = config
  BY Parts DEF Edit
<1>1. ASSUME NEW f \in DOMAIN disk'
      PROVE  \/ disk'[f].mtime = edits + 1
             \/ f \in DOMAIN disk /\ disk'[f] = disk[f]
  BY DEF Edit
<1>2. ~ (edits + 1 <= began[r]) /\ edits + 1 # 0
  BY <1>0
<1>3. \A f : SameSince(r, f)' => SameSince(r, f) /\ disk'[f] = disk[f]
  BY <1>0, <1>1, <1>2 DEF SameSince
<1>4. \A f : AsIndexed(f)' => AsIndexed(f) /\ disk'[f] = disk[f]
  BY <1>0, <1>1, <1>2 DEF AsIndexed
<1>5. \A f : Unedited(r, f)' => Unedited(r, f) /\ disk'[f] = disk[f]
  BY <1>0, <1>3, <1>4 DEF Unedited
<1>6. \A x : ShowsRef(r, x) => ShowsRef(r, x)'
  BY <1>0, <1>5, RoomStays DEF ShowsRef
<1>7. \A x : ShowsInput(r, x) => ShowsInput(r, x)'
  BY <1>0, <1>5, RoomStays DEF ShowsInput
<1>8. \A x : ShowsHint(r, x) => ShowsHint(r, x)'
  BY <1>0, <1>4, RoomStays DEF ShowsHint
<1>9. \A x : InIndex(x) => InIndex(x)'
  BY <1>0 DEF InIndex
<1>10. \A x : HasHint(x) => HasHint(x)'
  BY <1>0 DEF HasHint
<1>11. \A f, m : Seen(r, f, m) => Seen(r, f, m)'
  BY <1>0, <1>3 DEF Seen
<1> QED
  BY <1>3, <1>4, <1>5, <1>6, <1>7, <1>8, <1>9, <1>10, <1>11

\* The steps of the resolvers.
LEMMA WalkShown ==
    ASSUME KeptInv, Untouched, NEW r \in Review, Shown(r), Walk(r)
    PROVE  Shown(r)'
<1>1. /\ TypeOK /\ pc[r] = "start" /\ pc'[r] = "v1" /\ ~ config.index /\ config' = config
      /\ UNCHANGED <<matches, packed, kept>>
  BY Parts DEF KeptInv, Walk, world
<1>2. packed[r] = <<>> /\ kept[r] = <<>> /\ \A s \in Symbol : matches[r][s] = <<>>
  BY <1>1 DEF KeptInv, Kept, Spent, Shown
<1> QED
  BY <1>1, <1>2, RangeEmpty DEF Shown

LEMMA ScanShown ==
    ASSUME KeptInv, Untouched, NEW r \in Review, Shown(r), Scan(r) \/ ScanFails(r)
    PROVE  Shown(r)'
<1>0. TypeOK
  BY DEF KeptInv
<1>5. PICK f : f = Head(todo[r])
  OBVIOUS
<1>6. /\ pc[r] = "v1"
      /\ UNCHANGED <<world, began, matches, packed, kept>>
      /\ Grows(r)
  BY <1>0, ScanIs
<1>1. ~ config.index /\ failed[r] \subseteq failed'[r] /\ began'[r] = began[r]
  BY <1>6 DEF Shown, Grows
<1>2. config' = config /\ Expanding' = Expanding
  BY <1>6, ExpandingWaits DEF world
<1>7. CASE f \in DOMAIN disk
  <2>1. PICK ls \in Seq(Line) :
          /\ pc' = [pc EXCEPT ![r] = "scan"] /\ todo' = todo
          /\ pending' = [pending EXCEPT ![r] = Definitions(ls)]
          /\ f \notin failed'[r] => ls = Scanned(disk[f].lines)
    BY <1>0, <1>5, <1>7, ScanIs
  <2>2. pc'[r] = "scan" /\ pending'[r] = Definitions(ls)
    BY <1>0, <2>1, Parts
  <2>3. ASSUME NEW m \in Definitions(ls) PROVE Seen(r, f, m)'
    <3> SUFFICES ASSUME f \notin failed'[r]
                 PROVE  m[1] \in DOMAIN disk[f].lines /\ m[2] \in disk[f].lines[m[1]].def
      BY <1>6 DEF Seen, world
    <3>1. ls = Scanned(disk[f].lines) /\ disk[f].lines \in Seq(Line)
      BY <1>0, <1>7, <2>1, Reading
    <3>2. /\ m[1] \in 1..Len(ls) /\ m[2] \in ls[m[1]].def
      BY DefinitionsType
    <3>3. Len(ls) <= Len(disk[f].lines) /\ \A i \in 1..Len(ls) : ls[i] = disk[f].lines[i]
      BY <3>1, ScannedIs
    <3> QED
      BY <3>1, <3>2, <3>3
  <2>4. ASSUME NEW m \in pending'[r] PROVE Seen(r, Head(todo[r]), m)'
    <3>1. Seen(r, f, m)'
      BY <2>2, <2>3, <2>4
    <3> QED
      BY <1>5, <2>1, <3>1
  <2> QED
    BY <1>1, <1>2, <1>6, <2>2, <2>4, StillSeen DEF Shown
<1>8. CASE f \notin DOMAIN disk
  <2>1. pc' = pc
    BY <1>0, <1>5, <1>8, ScanIs
  <2> QED
    BY <1>1, <1>2, <1>6, <2>1, StillSeen DEF Shown
<1> QED
  BY <1>7, <1>8

LEMMA MatchShown ==
    ASSUME KeptInv, Untouched, NEW r \in Review, Shown(r), Match(r) \/ MatchFails(r)
    PROVE  Shown(r)'
<1>0. TypeOK
  BY DEF KeptInv
<1>3. PICK f : f = Head(todo[r])
  OBVIOUS
<1>1. /\ pc[r] = "scan" /\ todo[r] \in Seq(File) /\ todo[r] # <<>> /\ f \in File
      /\ UNCHANGED <<world, began, todo, packed, kept>>
      /\ Grows(r)
  BY <1>0, <1>3, MatchIs
<1>7. ~ config.index /\ failed[r] \subseteq failed'[r] /\ began'[r] = began[r]
  BY <1>1 DEF Shown, Grows
<1>2. config' = config /\ Expanding' = Expanding
  BY <1>1, ExpandingWaits DEF world
<1>4. PICK m \in Open(r) :
          /\ m[1] \in Nat /\ m[2] \in Symbol
          /\ \/ pc' = [pc EXCEPT ![r] = "panicked"] /\ UNCHANGED <<pending, matches>>
             \/ /\ pc' = pc /\ pending' = [pending EXCEPT ![r] = @ \ {m}]
                /\ \E x \in Ref :
                     /\ x.sym = m[2] /\ x.file = f
                     /\ matches' = [matches EXCEPT ![r][m[2]] = Append(@, x)]
                     /\ f \notin failed'[r] =>
                          x = [sym |-> m[2], file |-> f, excerpt |-> BuildExcerpt(f, m[1])]
  BY <1>0, <1>3, MatchIs
<1>5. CASE pc' = [pc EXCEPT ![r] = "panicked"] /\ UNCHANGED <<pending, matches>>
  <2>1. pc'[r] = "panicked" /\ matches' = matches
    BY <1>0, <1>5, Parts
  <2> QED
    BY <1>1, <1>2, <1>7, <2>1, StillSeen DEF Shown
<1>6. ASSUME NEW x \in Ref, x.sym = m[2], x.file = f,
             pc' = pc, pending' = [pending EXCEPT ![r] = @ \ {m}],
             matches' = [matches EXCEPT ![r][m[2]] = Append(@, x)],
             f \notin failed'[r] =>
                x = [sym |-> m[2], file |-> f, excerpt |-> BuildExcerpt(f, m[1])]
      PROVE  Shown(r)'
  <2>1. m \in pending[r] /\ m \in Nat \X Symbol
    BY <1>0, Parts DEF Open
  <2>5. ShowsRef(r, x)'
    <3> SUFFICES ASSUME f \notin failed'[r], Unedited(r, f), Roomy(f, {m[2]})
                 PROVE  \E j \in DOMAIN x.excerpt.lines : m[2] \in x.excerpt.lines[j].def
      <4>1. disk' = disk /\ disk'[f] = disk[f]
        BY <1>1 DEF world
      <4>2. Unedited(r, f)' => Unedited(r, f)
        BY <1>1, <1>7, StillSeen
      <4>3. Roomy(f, {m[2]})' => Roomy(f, {m[2]})
        BY <4>1, RoomStays
      <4> QED
        BY <1>6, <4>2, <4>3 DEF ShowsRef
    <3>1. SameSince(r, f)
      BY <1>7 DEF Unedited
    <3>2. f \in DOMAIN disk /\ f \notin failed[r]
      BY <1>7, <3>1 DEF SameSince
    <3>3. Seen(r, f, m)
      BY <1>1, <1>3, <2>1 DEF Shown
    <3>4. m[1] \in DOMAIN disk[f].lines /\ m[2] \in disk[f].lines[m[1]].def
      BY <3>1, <3>2, <3>3 DEF Seen
    <3>5. m \in Definitions(disk[f].lines)
      BY <2>1, <3>4 DEF Definitions
    <3>6. HasRoom(f, m[1], Cap)
      BY <3>5 DEF Roomy
    <3>7. PICK w : w = BuildExcerpt(f, m[1]).lines
      OBVIOUS
    <3>8. \E j \in DOMAIN w : w[j] = disk[f].lines[m[1]]
      BY <1>0, <3>2, <3>6, <3>7, BuildExcerptShows
    <3>9. x.excerpt.lines = w
      BY <1>6, <3>7
    <3> QED
      BY <3>4, <3>8, <3>9
  <2>6. /\ matches'[r][m[2]] = Append(matches[r][m[2]], x)
        /\ \A s \in Symbol : s # m[2] => matches'[r][s] = matches[r][s]
    <3>1. matches \in [Review -> [Symbol -> Seq(Ref)]]
      BY <1>0, Parts
    <3> QED
      BY <1>4, <1>6, <3>1, OneMore
  <2>7. ASSUME NEW s \in Symbol, NEW y \in Range(matches'[r][s]) PROVE ShowsRef(r, y)'
    <3>1. CASE s # m[2]
      <4>1. y \in Range(matches[r][s])
        BY <2>6, <2>7, <3>1
      <4>2. ShowsRef(r, y)
        BY <4>1 DEF Shown
      <4> QED
        BY <1>1, <1>7, <4>2, StillSeen
    <3>2. CASE s = m[2]
      <4>1. matches[r][s] \in Seq(Ref)
        BY <1>0, Parts
      <4>2. Range(Append(matches[r][s], x)) = Range(matches[r][s]) \cup {x}
        BY <4>1, RangeAppend
      <4>3. y \in Range(matches[r][s]) \/ y = x
        BY <2>6, <2>7, <3>2, <4>2
      <4>4. y \in Range(matches[r][s]) => ShowsRef(r, y)
        BY DEF Shown
      <4>5. y \in Range(matches[r][s]) => ShowsRef(r, y)'
        BY <1>1, <1>7, <4>4, StillSeen
      <4> QED
        BY <2>5, <4>3, <4>5
    <3> QED
      BY <3>1, <3>2
  <2>9. ASSUME NEW n \in pending'[r] PROVE Seen(r, Head(todo[r]), n)'
    <3>1. PICK g : g = Head(todo[r])
      OBVIOUS
    <3>2. n \in pending[r]
      BY <1>0, <1>6, <2>9, Parts
    <3>3. Seen(r, g, n)
      BY <1>1, <3>1, <3>2 DEF Shown
    <3>4. Seen(r, g, n)'
      BY <1>1, <1>7, <3>3, StillSeen
    <3> QED
      BY <1>1, <3>1, <3>4
  <2> QED
    BY <1>1, <1>2, <1>6, <1>7, <2>7, <2>9, StillSeen DEF Shown
<1> QED
  BY <1>4, <1>5, <1>6

LEMMA EndOfFileShown ==
    ASSUME KeptInv, Untouched, NEW r \in Review, Shown(r), EndOfFile(r)
    PROVE  Shown(r)'
<1>1. /\ pc[r] = "scan" /\ pc'[r] = "v1"
      /\ UNCHANGED <<world, began, failed, matches, packed, kept>>
  BY Parts DEF KeptInv, EndOfFile
<1>2. config' = config /\ Expanding' = Expanding
  BY <1>1, ExpandingWaits DEF world
<1> QED
  BY <1>1, <1>2, StillSeen DEF Shown

\* What the index lists is in it.
LEMMA ListedIsInIndex ==
    ASSUME TypeOK, NEW order \in SetToSeqs(DOMAIN idx), NEW symbols \in BySymbol,
           NEW x \in Range(FlattenSeq(DefSymbols(order, symbols)))
    PROVE  InIndex(x)
<1>1. ASSUME NEW f \in DOMAIN idx, NEW s \in Symbol, NEW y, y \in Range(DefsIn(f, s))
      PROVE  InIndex(y)
  <2>1. PICK parts : parts = DefLines(f, s)
    OBVIOUS
  <2>2. /\ parts \in Texts(Location) /\ y \in Range(FlattenSeq(parts))
        /\ DOMAIN parts = DOMAIN idx[f]
        /\ \A n \in DOMAIN idx[f] : parts[n] = DefAt(f, s, n)
    BY <1>1, <2>1, DefLinesType, DefsInType DEF DefLines
  <2>3. PICK n \in DOMAIN parts : \E k \in DOMAIN parts[n] : y = parts[n][k]
    BY <2>2, FlattenElements DEF Range
  <2>4. PICK k \in DOMAIN DefAt(f, s, n) : y = DefAt(f, s, n)[k]
    BY <2>2, <2>3
  <2>5. s \in idx[f][n].def /\ y = [sym |-> s, file |-> f, line |-> n]
    BY <2>4 DEF DefAt
  <2> QED
    BY <2>2, <2>5 DEF InIndex
<1>2. ASSUME NEW s \in Symbol, NEW y, y \in Range(LookupDefs(order, s))
      PROVE  InIndex(y)
  <2>1. PICK parts : parts = DefFiles(order, s)
    OBVIOUS
  <2>2. /\ parts \in Texts(Location) /\ y \in Range(FlattenSeq(parts))
        /\ DOMAIN parts = DOMAIN order
        /\ \A n \in DOMAIN order : parts[n] = DefsIn(order[n], s)
    BY <1>2, <2>1, DefFilesType, LookupDefsType DEF DefFiles
  <2>3. PICK n \in DOMAIN parts : \E k \in DOMAIN parts[n] : y = parts[n][k]
    BY <2>2, FlattenElements DEF Range
  <2>4. y \in Range(DefsIn(order[n], s))
    BY <2>2, <2>3 DEF Range
  <2>5. order[n] \in DOMAIN idx
    BY <2>2, FilesOrder DEF Range
  <2> QED
    BY <1>1, <2>4, <2>5
<1>3. PICK parts : parts = DefSymbols(order, symbols)
  OBVIOUS
<1>4. /\ parts \in Texts(Location) /\ x \in Range(FlattenSeq(parts))
      /\ DOMAIN parts = DOMAIN symbols
      /\ \A n \in DOMAIN symbols : parts[n] = FirstOnes(LookupDefs(order, symbols[n]), MaxRefs)
  BY <1>3, DefSymbolsType DEF DefSymbols
<1>5. PICK n \in DOMAIN parts : \E k \in DOMAIN parts[n] : x = parts[n][k]
  BY <1>4, FlattenElements DEF Range
<1>6. symbols[n] \in Symbol
  BY <1>4, SymbolOrder DEF Range
<1>7. PICK defs : defs = LookupDefs(order, symbols[n])
  OBVIOUS
<1>8. defs \in Seq(Location)
  BY <1>6, <1>7, LookupDefsType
<1>9. PICK k \in DOMAIN FirstOnes(defs, MaxRefs) : x = FirstOnes(defs, MaxRefs)[k]
  BY <1>4, <1>5, <1>7
<1>10. x \in Range(defs)
  <2>1. PICK c, m : c = FirstOnes(defs, MaxRefs) /\ m = Lesser(Len(defs), MaxRefs)
    OBVIOUS
  <2>2. c \in Seq(Location) /\ Len(c) = m /\ \A i \in 1..m : c[i] = defs[i]
    BY <1>8, <2>1, Cutting, EnrichmentAssumption
  <2>3. k \in 1..m /\ m <= Len(defs) /\ m \in Nat
    BY <1>8, <1>9, <2>1, <2>2, EnrichmentAssumption DEF Lesser
  <2>4. k \in DOMAIN defs /\ x = defs[k]
    BY <1>8, <1>9, <2>1, <2>2, <2>3
  <2> QED
    BY <2>4 DEF Range
<1> QED
  BY <1>2, <1>6, <1>7, <1>10

LEMMA LoadIndexShown ==
    ASSUME KeptInv, Untouched, NEW r \in Review, Shown(r), LoadIndex(r)
    PROVE  Shown(r)'
<1>0. TypeOK
  BY DEF KeptInv
<1>1. PICK order \in SetToSeqs(DOMAIN idx), symbols \in BySymbol :
        todo' = [todo EXCEPT ![r] = FlattenSeq(DefSymbols(order, symbols))]
  BY DEF LoadIndex, DefSymbols
<1>2. /\ pc[r] = "start" /\ pc'[r] = "v2" /\ config.index
      /\ UNCHANGED <<world, matches, packed, kept>>
  BY <1>0, Parts DEF LoadIndex
<1>3. packed[r] = <<>> /\ kept[r] = <<>> /\ \A s \in Symbol : matches[r][s] = <<>>
  BY <1>2 DEF KeptInv, Kept, Spent, Shown
<1>4. ASSUME NEW x \in Range(todo'[r]) PROVE InIndex(x)'
  <2>1. x \in Range(FlattenSeq(DefSymbols(order, symbols)))
    BY <1>0, <1>1, <1>4, Parts
  <2>2. InIndex(x)
    BY <1>0, <2>1, ListedIsInIndex
  <2> QED
    BY <1>2, <2>2 DEF InIndex, world
<1>5. config' = config
  BY <1>2 DEF world
<1> QED
  BY <1>2, <1>3, <1>4, <1>5, RangeEmpty DEF Shown

LEMMA ReadAtShown ==
    ASSUME KeptInv, Untouched, NEW r \in Review, Shown(r), ReadAt(r) \/ ReadAtFails(r)
    PROVE  Shown(r)'
<1>0. TypeOK
  BY DEF KeptInv
<1>3. PICK loc : loc = Head(todo[r])
  OBVIOUS
<1>1. /\ pc[r] = "v2" /\ todo[r] \in Seq(Location) /\ todo[r] # <<>>
      /\ loc.sym \in Symbol
      /\ todo' = [todo EXCEPT ![r] = Tail(todo[r])]
      /\ UNCHANGED <<world, pc, began, packed, kept>>
      /\ Grows(r)
  BY <1>0, <1>3, ReadAtIs
<1>4. PICK x \in Ref :
        /\ x.sym = loc.sym /\ x.file = loc.file
        /\ matches' = [matches EXCEPT ![r][loc.sym] = Append(@, x)]
        /\ loc.file \notin failed'[r] /\ loc.file \in DOMAIN disk =>
              x.excerpt = ReadExcerptAt(disk[loc.file].lines, loc.line)
  BY <1>0, <1>3, ReadAtIs
<1>5. config.index /\ failed[r] \subseteq failed'[r] /\ began'[r] = began[r]
  BY <1>1 DEF Shown, Grows
<1>2. config' = config /\ Expanding' = Expanding
  BY <1>1, ExpandingWaits DEF world
<1>6. /\ loc \in Range(todo[r])
      /\ Range(Tail(todo[r])) \subseteq Range(todo[r])
  BY <1>1, <1>3, RangeTail
<1>7. PICK f : f = loc.file
  OBVIOUS
<1>10. ShowsRef(r, x)'
  <2> SUFFICES ASSUME f \notin failed'[r], Unedited(r, f), Roomy(f, {loc.sym})
               PROVE  \E j \in DOMAIN x.excerpt.lines : loc.sym \in x.excerpt.lines[j].def
    <3>1. disk'[f] = disk[f]
      BY <1>1 DEF world
    <3>2. Unedited(r, f)' => Unedited(r, f)
      BY <1>1, <1>5, StillSeen
    <3>3. Roomy(f, {loc.sym})' => Roomy(f, {loc.sym})
      BY <3>1, RoomStays
    <3> QED
      BY <1>4, <1>7, <3>2, <3>3 DEF ShowsRef
  <2>1. f \in DOMAIN disk /\ disk[f].mtime = 0
    BY <1>5 DEF Unedited, AsIndexed
  <2>2. disk[f].lines = idx[f]
    BY <2>1 DEF Untouched
  <2>3. loc.line \in DOMAIN disk[f].lines /\ loc.sym \in disk[f].lines[loc.line].def
    BY <1>1, <1>6, <1>7, <2>2 DEF Shown, InIndex
  <2>4. <<loc.line, loc.sym>> \in Definitions(disk[f].lines)
    BY <1>1, <2>3 DEF Definitions
  <2>5. HasRoom(f, loc.line, Cap)
    BY <2>4 DEF Roomy
  <2>6. PICK w : w = ReadExcerptAt(disk[f].lines, loc.line).lines
    OBVIOUS
  <2>7. \E j \in DOMAIN w : w[j] = disk[f].lines[loc.line]
    BY <1>0, <2>1, <2>5, <2>6, ReadExcerptAtShows
  <2>8. x.excerpt.lines = w
    BY <1>4, <1>7, <2>1, <2>6
  <2> QED
    BY <2>3, <2>7, <2>8
<1>11. /\ matches'[r][loc.sym] = Append(matches[r][loc.sym], x)
       /\ \A s \in Symbol : s # loc.sym => matches'[r][s] = matches[r][s]
  <2>1. matches \in [Review -> [Symbol -> Seq(Ref)]]
    BY <1>0, Parts
  <2> QED
    BY <1>1, <1>4, <2>1, OneMore
<1>12. ASSUME NEW s \in Symbol, NEW y \in Range(matches'[r][s]) PROVE ShowsRef(r, y)'
  <2>0. ASSUME y \in Range(matches[r][s]) PROVE ShowsRef(r, y)'
    <3>1. ShowsRef(r, y)
      BY <2>0 DEF Shown
    <3> QED
      BY <1>1, <1>5, <3>1, StillSeen
  <2>1. CASE s # loc.sym
    BY <1>11, <1>12, <2>0, <2>1
  <2>2. CASE s = loc.sym
    <3>1. matches[r][s] \in Seq(Ref)
      BY <1>0, Parts
    <3>2. Range(Append(matches[r][s], x)) = Range(matches[r][s]) \cup {x}
      BY <3>1, RangeAppend
    <3>3. y \in Range(matches[r][s]) \/ y = x
      BY <1>11, <1>12, <2>2, <3>2
    <3> QED
      BY <1>10, <2>0, <3>3
  <2> QED
    BY <2>1, <2>2
<1>13. todo'[r] = Tail(todo[r])
  BY <1>0, <1>1, Parts
<1> QED
  BY <1>1, <1>2, <1>5, <1>6, <1>12, <1>13, StillSeen DEF Shown

\* The steps that attach.
LEMMA AttachDirectlyShown ==
    ASSUME KeptInv, Untouched, NEW r \in Review, Shown(r), AttachDirectly(r)
    PROVE  Shown(r)'
<1>0. TypeOK
  BY DEF KeptInv
<1>1. PICK order \in Orders : \E inputs \in Sorted(Merged(Inputs(Gathered(r, order))), FitOrder) :
        todo' = [todo EXCEPT ![r] = inputs]
  BY DEF AttachDirectly, Gathered
<1>2. PICK all, refs : all = Gathered(r, order) /\ refs = Inputs(all)
  OBVIOUS
<1>3. PICK inputs \in Sorted(Merged(refs), FitOrder) : todo' = [todo EXCEPT ![r] = inputs]
  BY <1>1, <1>2
<1>4. order \in Seq(Symbol) /\ Range(order) = Symbol
  BY SymbolOrder DEF Orders
<1>5. all \in Seq(Ref)
  BY <1>0, <1>2, <1>4, GatheredType
<1>6. /\ refs \in Seq(Input) /\ DOMAIN refs = DOMAIN all
      /\ \A i \in DOMAIN all : /\ refs[i].file = all[i].file
                               /\ refs[i].excerpt = all[i].excerpt
                               /\ refs[i].syms = {all[i].sym}
  BY <1>2, <1>5, InputsType
<1>7. ASSUME NEW i \in DOMAIN all PROVE ShowsRef(r, all[i])
  <2>1. PICK parts : parts = [n \in DOMAIN order |-> matches[r][order[n]]]
    OBVIOUS
  <2>2. /\ parts \in Texts(Ref) /\ all = FlattenSeq(parts)
        /\ DOMAIN parts = DOMAIN order
        /\ \A n \in DOMAIN order : parts[n] = matches[r][order[n]]
    BY <1>0, <1>2, <1>4, <2>1, GatheredParts DEF Gathered
  <2>3. PICK n \in DOMAIN parts : \E k \in DOMAIN parts[n] : all[i] = parts[n][k]
    BY <2>2, FlattenElements
  <2>4. order[n] \in Symbol /\ all[i] \in Range(matches[r][order[n]])
    BY <1>4, <2>2, <2>3 DEF Range
  <2> QED
    BY <2>4 DEF Shown
<1>8. ASSUME NEW x \in Merged(refs) PROVE ShowsInput(r, x)
  <2>1. x.file \in FilesOf(refs) /\ x = InputOf(refs, x.file)
    BY <1>6, MergedElement
  <2>2. PICK f, i : f = x.file /\ i = FirstOf(refs, x.file)
    OBVIOUS
  <2>3. i \in DOMAIN refs /\ refs[i].file = f
    BY <1>6, <2>1, <2>2, FirstIs
  <2>4. x = [file |-> f, excerpt |-> refs[i].excerpt, syms |-> SymsOf(refs, f)]
    BY <2>1, <2>2 DEF InputOf
  <2>5. x.excerpt = all[i].excerpt /\ x.syms = SymsOf(refs, f) /\ all[i].file = f
    BY <1>6, <2>3, <2>4
  <2>6. all[i].sym \in x.syms
    BY <1>6, <2>3, <2>5 DEF SymsOf
  <2>7. ShowsRef(r, all[i])
    BY <1>6, <1>7, <2>3
  <2>8. Roomy(f, x.syms) => Roomy(f, {all[i].sym})
    BY <2>6 DEF Roomy
  <2> QED
    BY <2>2, <2>5, <2>6, <2>7, <2>8 DEF ShowsRef, ShowsInput
<1>9. Range(inputs) = Merged(refs)
  BY <1>6, InputAttachable, MergedType, SortedInputs
<1>10. /\ pc[r] \in {"v1", "v2"} /\ pc'[r] = "fit" /\ todo'[r] = inputs
       /\ UNCHANGED <<world, began, failed, matches, packed, kept>>
  BY <1>0, <1>3, Parts DEF AttachDirectly, Found
<1>11. config' = config /\ Expanding' = Expanding
  BY <1>10, ExpandingWaits DEF world
<1>12. kept[r] = <<>>
  BY <1>10 DEF KeptInv, Kept, Spent
<1> QED
  BY <1>8, <1>9, <1>10, <1>11, <1>12, StillSeen, RangeEmpty DEF Shown

LEMMA FitShown ==
    ASSUME KeptInv, Untouched, NEW r \in Review, Shown(r), Fit(r)
    PROVE  Shown(r)'
<1>0. TypeOK
  BY DEF KeptInv
<1>1. /\ pc[r] = "fit" /\ todo[r] \in Seq(Input) /\ todo[r] # <<>> /\ kept[r] \in Seq(Input)
      /\ UNCHANGED <<world, pc, began, failed, matches, packed>>
  BY <1>0, TodoIs, Parts DEF Fit
<1>2. config' = config /\ Expanding' = Expanding
  BY <1>1, ExpandingWaits DEF world
<1>3. PICK in : in = Head(todo[r])
  OBVIOUS
<1>4. in \in Input /\ in \in Range(todo[r]) /\ Range(Tail(todo[r])) \subseteq Range(todo[r])
  BY <1>1, <1>3, First, RangeTail
<1>5. todo'[r] = Tail(todo[r]) /\ kept'[r] \in {kept[r], Append(kept[r], in)}
  BY <1>0, <1>3, Parts DEF Fit
<1>6. Range(Append(kept[r], in)) = Range(kept[r]) \cup {in}
  BY <1>1, <1>4, RangeAppend
<1>7. Range(kept'[r]) \subseteq Range(kept[r]) \cup {in}
  BY <1>5, <1>6
<1>8. ~ Expanding => ShowsInput(r, in) /\ \A x \in Range(kept[r]) : ShowsInput(r, x)
  BY <1>1, <1>4 DEF Shown
<1> QED
  BY <1>1, <1>2, <1>4, <1>5, <1>7, <1>8, StillSeen DEF Shown

LEMMA ExpandShown ==
    ASSUME KeptInv, Untouched, NEW r \in Review, Shown(r), Expand(r)
    PROVE  Shown(r)'
<1>0. TypeOK
  BY DEF KeptInv
<1>1. PICK ranked \in Sorted(Candidates(r), RankOrder) : todo' = [todo EXCEPT ![r] = ranked]
  BY DEF Expand
<1>2. Range(ranked) = Candidates(r)
  BY <1>0, CandidatesType, SortedCandidates
<1>3. /\ pc[r] \in {"v1", "v2"} /\ pc'[r] = "pack" /\ todo'[r] = ranked
      /\ UNCHANGED <<world, began, failed, matches, packed, kept>>
  BY <1>0, <1>1, Parts DEF Expand, Found
<1>4. config' = config /\ Expanding' = Expanding /\ Expanding
  BY <1>3, ExpandingWaits DEF world, Expand
<1>5. ASSUME NEW c \in Candidates(r) PROVE HasHint(c)
  <2>1. PICK f : f = c.file
    OBVIOUS
  <2>2. c = Candidate(r, f)
    BY <2>1, CandidateOf
  <2>3. c.hint = HintOf(f)
    BY <2>2, CandidateIs
  <2> SUFFICES ASSUME HintOf(f) # 0
               PROVE  /\ f \in DOMAIN idx /\ HintOf(f) \in DOMAIN idx[f]
                      /\ idx[f][HintOf(f)].def \cup idx[f][HintOf(f)].use # {}
    BY <2>1, <2>3 DEF HasHint
  <2>4. HintOf(f) \in LinesOf(f)
    BY <1>0, HintIs
  <2>5. PICK m \in Uses(f) \cup Types(f) : m[1] = HintOf(f)
    BY <2>4 DEF LinesOf
  <2>6. f \in DOMAIN idx /\ m[1] \in DOMAIN idx[f]
    BY <1>0, IndexedFinite
  <2>7. m[2] \in idx[f][m[1]].use \/ m[2] \in idx[f][m[1]].def
    BY DEF Uses, Types
  <2> QED
    BY <2>5, <2>6, <2>7
<1>6. kept[r] = <<>> /\ packed[r] = <<>>
  BY <1>3 DEF KeptInv, Kept, Spent
<1>7. \A s \in Symbol : \A x \in Range(matches'[r][s]) : ShowsRef(r, x)'
  BY <1>3, StillSeen DEF Shown
<1>8. \A x \in Range(todo'[r]) : HasHint(x)'
  BY <1>2, <1>3, <1>5, StillSeen
<1>9. \A x \in Range(packed'[r]) : ShowsHint(r, x)'
  BY <1>3, <1>6, RangeEmpty
<1> QED
  BY <1>3, <1>4, <1>7, <1>8, <1>9 DEF Shown

LEMMA PackShown ==
    ASSUME KeptInv, Untouched, NEW r \in Review, Shown(r), Pack(r) \/ PackFails(r)
    PROVE  Shown(r)'
<1>0. TypeOK
  BY DEF KeptInv
<1>2. PICK c : c = Head(todo[r])
  OBVIOUS
<1>1. /\ pc[r] = "pack" /\ todo[r] \in Seq(Ranked) /\ todo[r] # <<>>
      /\ c \in Ranked
      /\ todo' = [todo EXCEPT ![r] = Tail(todo[r])]
      /\ UNCHANGED <<world, pc, began, matches, kept>>
      /\ Grows(r)
  BY <1>0, <1>2, PackIs
<1>3. failed[r] \subseteq failed'[r] /\ began'[r] = began[r]
  BY <1>1 DEF Grows
<1>4. config' = config /\ Expanding' = Expanding
  BY <1>1, ExpandingWaits DEF world
<1>5. c \in Range(todo[r]) /\ Range(Tail(todo[r])) \subseteq Range(todo[r])
  BY <1>1, <1>2, RangeTail
<1>6. todo'[r] = Tail(todo[r])
  BY <1>0, <1>1, Parts
<1>8. \A x \in Range(packed[r]) : ShowsHint(r, x)'
  <2>1. \A x \in Range(packed[r]) : ShowsHint(r, x)
    BY DEF Shown
  <2> QED
    BY <1>1, <1>3, <2>1, StillSeen
<1>7. ASSUME NEW x \in Range(packed'[r]) PROVE ShowsHint(r, x)'
  <2>1. CASE packed' = packed
    BY <1>7, <1>8, <2>1
  <2>2. ASSUME c.file \in DOMAIN disk, NEW e \in Excerpt,
               packed' = [packed EXCEPT ![r] = Append(@, PackedAs(c, e))],
               c.file \notin failed'[r] => e = ExcerptFor(c, disk[c.file].lines)
        PROVE  ShowsHint(r, x)'
    <3>1. PICK y : y = PackedAs(c, e)
      OBVIOUS
    <3>2. y \in Packed
      BY <1>1, <3>1, PackedAsType
    <3>3. y.file = c.file /\ y.hint = c.hint /\ y.excerpt = e /\ y.strategy = c.strategy
      BY <3>1 DEF PackedAs
    <3>4. packed'[r] = Append(packed[r], y) /\ packed[r] \in Seq(Packed)
      BY <1>0, <2>2, <3>1, Parts
    <3>5. Range(Append(packed[r], y)) = Range(packed[r]) \cup {y}
      BY <3>2, <3>4, RangeAppend
    <3>6. ShowsHint(r, y)'
      <4>1. PICK f, n, cap : f = c.file /\ n = c.hint /\ cap = CapOf(c)
        OBVIOUS
      <4>2. CapOf(y) = cap /\ cap \in Nat \ {0}
        BY <3>3, <4>1, CapsType DEF CapOf
      <4>0. PICK w : w = ReadExcerpt(disk[f].lines, n, cap).lines
        OBVIOUS
      <4>3. f \notin failed'[r] => e.lines = w
        BY <2>2, <4>0, <4>1 DEF ExcerptFor
      <4>4. ASSUME n # 0, AsIndexed(f), HasRoom(f, n, cap - 1)
            PROVE  \E j \in DOMAIN w : w[j].def \cup w[j].use # {}
        <5>1. f \in DOMAIN disk /\ disk[f].mtime = 0
          BY <4>4 DEF AsIndexed
        <5>2. disk[f].lines = idx[f]
          BY <5>1 DEF Untouched
        <5>3. HasHint(c)
          BY <1>1, <1>5 DEF Shown
        <5>4. n \in DOMAIN disk[f].lines /\ disk[f].lines[n].def \cup disk[f].lines[n].use # {}
          BY <4>1, <4>4, <5>2, <5>3 DEF HasHint
        <5>5. \E j \in DOMAIN w : w[j] = disk[f].lines[n]
          BY <1>0, <4>0, <4>2, <4>4, <5>1, ReadExcerptShows
        <5> QED
          BY <5>4, <5>5
      <4>5. AsIndexed(f)' => AsIndexed(f)
        BY <1>1, <1>3, StillSeen
      <4>6. HasRoom(f, n, cap - 1)' => HasRoom(f, n, cap - 1)
        <5>1. disk'[f] = disk[f]
          BY <1>1 DEF world
        <5> QED
          BY <5>1, RoomStays
      <4> QED
        BY <3>3, <4>1, <4>2, <4>3, <4>4, <4>5, <4>6 DEF ShowsHint
    <3>7. x \in Range(packed[r]) \/ x = y
      BY <1>7, <3>4, <3>5
    <3> QED
      BY <1>8, <3>6, <3>7
  <2>3. \/ packed' = packed
        \/ /\ c.file \in DOMAIN disk
           /\ \E e \in Excerpt :
                /\ packed' = [packed EXCEPT ![r] = Append(@, PackedAs(c, e))]
                /\ c.file \notin failed'[r] => e = ExcerptFor(c, disk[c.file].lines)
    BY <1>0, <1>2, PackIs
  <2> QED
    BY <2>1, <2>2, <2>3
<1> QED
  BY <1>1, <1>3, <1>4, <1>5, <1>6, <1>7, StillSeen DEF Shown

LEMMA AttachPackedShown ==
    ASSUME KeptInv, Untouched, NEW r \in Review, Shown(r), AttachPacked(r)
    PROVE  Shown(r)'
<1>1. /\ pc[r] = "pack" /\ pc'[r] = "fit"
      /\ UNCHANGED <<world, began, failed, matches, packed, kept>>
  BY Parts DEF KeptInv, AttachPacked
<1>2. config' = config /\ Expanding' = Expanding
  BY <1>1, ExpandingWaits DEF world
<1>3. kept[r] = <<>>
  BY <1>1 DEF KeptInv, Kept, Spent
<1> QED
  BY <1>1, <1>2, <1>3, StillSeen, RangeEmpty DEF Shown

\* What depends on one review, the configuration and the disk.
LEMMA ShownWaits ==
    ASSUME NEW q, Shown(q), config' = config,
           pc'[q] = pc[q], todo'[q] = todo[q], pending'[q] = pending[q],
           matches'[q] = matches[q], packed'[q] = packed[q], kept'[q] = kept[q],
           \A x : ShowsRef(q, x) => ShowsRef(q, x)',
           \A x : ShowsInput(q, x) => ShowsInput(q, x)',
           \A x : ShowsHint(q, x) => ShowsHint(q, x)',
           \A x : InIndex(x) => InIndex(x)',
           \A x : HasHint(x) => HasHint(x)',
           \A f, m : Seen(q, f, m) => Seen(q, f, m)'
    PROVE  Shown(q)'
<1>1. Expanding' = Expanding
  BY ExpandingWaits
<1> QED
  BY <1>1 DEF Shown

THEOREM ShownIsInvariant == Spec => []ShownInv
<1>1. Init => ShownInv
  <2> SUFFICES ASSUME Init PROVE ShownInv
    OBVIOUS
  <2>1. KeptInv
    BY KeptInitially
  <2>2. Untouched
    BY DEF Init, Untouched
  <2>3. ASSUME NEW r \in Review PROVE Shown(r)
    <3>1. pc[r] = "start" /\ packed[r] = <<>> /\ kept[r] = <<>>
      BY DEF Init
    <3>2. \A s \in Symbol : matches[r][s] = <<>>
      BY DEF Init, NoMatches
    <3> QED
      BY <3>1, <3>2, RangeEmpty DEF Shown
  <2> QED
    BY <2>1, <2>2, <2>3 DEF ShownInv
<1>2. ShownInv /\ [Next]_vars => ShownInv'
  <2> SUFFICES ASSUME ShownInv, [Next]_vars PROVE ShownInv'
    OBVIOUS
  <2>0. KeptInv /\ TypeOK /\ Untouched /\ \A q \in Review : Shown(q)
    BY DEF ShownInv, KeptInv
  <2>1. KeptInv'
    BY <2>0, KeptStep
  <2>2. ASSUME NEW r \in Review, Step(r) PROVE Untouched' /\ \A q \in Review : Shown(q)'
    <3>1. UNCHANGED world
      BY <2>2, WorldWaits DEF world
    <3>2. Untouched'
      BY <2>0, <3>1 DEF Untouched, world
    <3>3. Shown(r)'
      BY <2>0, <2>2, WalkShown, ScanShown, MatchShown, EndOfFileShown, LoadIndexShown, ReadAtShown,
         AttachDirectlyShown, FitShown, ExpandShown, PackShown, AttachPackedShown DEF Step
    <3>4. ASSUME NEW q \in Review, q # r PROVE Shown(q)'
      <4>1. /\ pc'[q] = pc[q] /\ todo'[q] = todo[q] /\ began'[q] = began[q]
            /\ failed'[q] = failed[q]
            /\ pending'[q] = pending[q] /\ matches'[q] = matches[q]
            /\ packed'[q] = packed[q] /\ kept'[q] = kept[q]
        BY <2>0, <2>2, <3>4, OthersWait
      <4>2. config' = config
        BY <3>1 DEF world
      <4> QED
        BY <2>0, <3>1, <4>1, <4>2, StillSeen, ShownWaits
    <3> QED
      BY <3>2, <3>3, <3>4
  <2>3. ASSUME NEW g \in File, Edit(g) PROVE Untouched' /\ \A q \in Review : Shown(q)'
    <3>1. edits + 1 # 0 /\ idx' = idx
      BY <2>0, <2>3, Parts DEF Edit
    <3>2. \A f \in DOMAIN disk' : disk'[f].mtime = edits + 1 \/ (f \in DOMAIN disk /\ disk'[f] = disk[f])
      BY <2>3 DEF Edit
    <3>3. Untouched'
      BY <2>0, <3>1, <3>2 DEF Untouched
    <3>4. UNCHANGED <<config, pc, todo, pending, matches, packed, kept>>
      BY <2>3 DEF Edit
    <3>5. ASSUME NEW q \in Review PROVE Shown(q)'
      BY <2>0, <2>3, <3>4, EditedIsNewer, ShownWaits
    <3> QED
      BY <3>3, <3>5
  <2>4. ASSUME UNCHANGED vars PROVE Untouched' /\ \A q \in Review : Shown(q)'
    <3>1. UNCHANGED <<world, pc, began, failed, todo, pending, matches, packed, kept>>
      BY <2>4 DEF vars, world
    <3>2. Untouched'
      BY <2>0, <3>1 DEF Untouched, world
    <3>3. config' = config
      BY <3>1 DEF world
    <3>4. ASSUME NEW q \in Review PROVE Shown(q)'
      BY <2>0, <3>1, <3>3, StillSeen, ShownWaits
    <3> QED
      BY <3>2, <3>4
  <2> QED
    BY <2>1, <2>2, <2>3, <2>4 DEF Next, ShownInv
<1> QED
  BY <1>1, <1>2, PTL DEF Spec

\* The excerpt of a file shows the place it is attached for: a definition that
\* v1 found, or a definition or a use that the index has (buildExcerpt,
\* readExcerptAt, readExcerpt), unless the file was edited, after the review
\* began or after the index was built, or could not be read, or the cap or a line
\* that is too long for a scanner ended the excerpt before it.  It says nothing of
\* what the expansion attaches without a line.
THEOREM ExcerptsShowTheirMatch == Spec => []ExcerptShowsMatch
<1>1. ShownInv => ExcerptShowsMatch
  <2> SUFFICES ASSUME ShownInv, NEW r \in Review
               PROVE  /\ ~ Expanding => \A i \in DOMAIN kept[r] : ShowsInput(r, kept[r][i])
                      /\ \A i \in DOMAIN packed[r] : ShowsHint(r, packed[r][i])
    BY DEF ExcerptShowsMatch, ShowsInput, ShowsHint, Unedited, Roomy
  <2>1. Shown(r)
    BY DEF ShownInv
  <2>2. \A i \in DOMAIN kept[r] : kept[r][i] \in Range(kept[r])
    BY DEF Range
  <2>3. \A i \in DOMAIN packed[r] : packed[r][i] \in Range(packed[r])
    BY DEF Range
  <2> QED
    BY <2>1, <2>2, <2>3 DEF Shown
<1> QED
  BY <1>1, ShownIsInvariant, PTL

-----------------------------------------------------------------------------
(* The order of the walk.                                                  *)

\* The references of ms that are from f, the matches of s that wait, and those
\* there are in f.
TakenFrom(ms, f) == {j \in DOMAIN ms : ms[j].file = f}
Waiting(p, s) == {m \in p : m[2] = s}
Defining(f, s) == Waiting(Definitions(Scanned(disk[f].lines)), s)

\* f is what it was, and reading it did not fail.
Intact(r, f) == SameSince(r, f) /\ f \notin failed[r]

LEMMA TakenMore ==
    ASSUME NEW ms \in Seq(Ref), NEW x \in Ref, NEW f, NEW more, more = Append(ms, x)
    PROVE  /\ Cardinality(TakenFrom(ms, f)) \in Nat
           /\ x.file # f => Cardinality(TakenFrom(more, f)) = Cardinality(TakenFrom(ms, f))
           /\ x.file = f => Cardinality(TakenFrom(more, f)) = Cardinality(TakenFrom(ms, f)) + 1
<1>0. PICK n \in Nat : n = Len(ms)
  OBVIOUS
<1>1. /\ DOMAIN ms = 1..n /\ DOMAIN more = 1..n + 1
      /\ \A i \in 1..n : more[i] = ms[i]
      /\ more[n + 1] = x
  BY <1>0
<1>2. IsFiniteSet(TakenFrom(ms, f)) /\ Cardinality(TakenFrom(ms, f)) \in Nat
  <2>1. IsFiniteSet(1..n)
    BY FS_Interval
  <2>2. TakenFrom(ms, f) \in SUBSET (1..n)
    BY <1>1 DEF TakenFrom
  <2>3. IsFiniteSet(TakenFrom(ms, f))
    BY <2>1, <2>2, FS_Subset
  <2> QED
    BY <2>3, FS_CardinalityType
<1>3. CASE x.file # f
  <2>1. TakenFrom(more, f) = TakenFrom(ms, f)
    BY <1>1, <1>3 DEF TakenFrom
  <2> QED
    BY <1>2, <1>3, <2>1
<1>4. CASE x.file = f
  <2>1. TakenFrom(more, f) = TakenFrom(ms, f) \cup {n + 1}
    BY <1>1, <1>4 DEF TakenFrom
  <2>2. n + 1 \notin TakenFrom(ms, f)
    BY <1>1 DEF TakenFrom
  <2> QED
    BY <1>2, <1>4, <2>1, <2>2, FS_AddElement
<1> QED
  BY <1>3, <1>4

LEMMA WaitingLess ==
    ASSUME NEW p, IsFiniteSet(p), NEW m \in p, NEW less, less = p \ {m}
    PROVE  /\ IsFiniteSet(less)
           /\ \A s : IsFiniteSet(Waiting(p, s)) /\ Cardinality(Waiting(p, s)) \in Nat
           /\ Cardinality(Waiting(less, m[2])) = Cardinality(Waiting(p, m[2])) - 1
<1>1. IsFiniteSet(less)
  <2>1. less \in SUBSET p
    OBVIOUS
  <2> QED
    BY <2>1, FS_Subset
<1>2. ASSUME NEW s PROVE IsFiniteSet(Waiting(p, s)) /\ Cardinality(Waiting(p, s)) \in Nat
  <2>1. Waiting(p, s) \in SUBSET p
    BY DEF Waiting
  <2>2. IsFiniteSet(Waiting(p, s))
    BY <2>1, FS_Subset
  <2> QED
    BY <2>2, FS_CardinalityType
<1>3. m \in Waiting(p, m[2]) /\ Waiting(less, m[2]) = Waiting(p, m[2]) \ {m}
  BY DEF Waiting
<1>4. Cardinality(Waiting(less, m[2])) = Cardinality(Waiting(p, m[2])) - 1
  <2>1. PICK W : W = Waiting(p, m[2])
    OBVIOUS
  <2>2. IsFiniteSet(W) /\ m \in W
    BY <1>2, <1>3, <2>1
  <2>3. Cardinality(W \ {m}) = Cardinality(W) - 1
    BY ONLY <2>2, FS_RemoveElement
  <2> QED
    BY <1>3, <2>1, <2>3
<1> QED
  BY <1>1, <1>2, <1>4

LEMMA DefinitionsAreFinite ==
    ASSUME NEW ls \in Seq(Line) PROVE IsFiniteSet(Definitions(ls))
<1>1. PICK n \in Nat : n = Len(ls) /\ DOMAIN ls = 1..n
  OBVIOUS
<1>2. IsFiniteSet(1..n)
  BY FS_Interval
<1>3. IsFiniteSet((1..n) \X Symbol)
  BY <1>2, EnrichmentAssumption, FS_Product
<1>4. Definitions(ls) \in SUBSET ((1..n) \X Symbol)
  BY <1>1 DEF Definitions
<1> QED
  BY <1>3, <1>4, FS_Subset

\* No reference of ms is from a farther file than f.
NoFarther(ms, f) == \A j \in DOMAIN ms : Tier(ms[j].file) <= Tier(f)

\* All that f defines of s is in ms, or the cap was reached before f.
Settled(ms, f, s) ==
    \/ Cardinality(TakenFrom(ms, f)) = Cardinality(Defining(f, s))
    \/ Len(ms) >= MaxRefs /\ NoFarther(ms, f)

\* All that f defines of s is in ms or in p.
Counted(ms, p, f, s) ==
    Cardinality(TakenFrom(ms, f)) + Cardinality(Waiting(p, s)) = Cardinality(Defining(f, s))

ByTier(q) == \A i, j \in DOMAIN q : i <= j => Tier(q[i]) <= Tier(q[j])
Once(q) == \A i, j \in DOMAIN q : q[i] = q[j] => i = j
Ahead(ms, q) == \A f \in Range(q) : NoFarther(ms, f)
Unread(ms, q) == \A j \in DOMAIN ms : ms[j].file \notin Range(q)

Ordered(r) ==
    /\ pc[r] = "start" => \A s \in Symbol : matches[r][s] = <<>>
    /\ pc[r] \in {"v1", "scan"} =>
         /\ ByTier(todo[r]) /\ Once(todo[r])
         /\ \A s \in Symbol : Ahead(matches[r][s], todo[r])
         /\ \A f \in Walked : f \notin Range(todo[r]) /\ Intact(r, f)
              => \A s \in Symbol : Settled(matches[r][s], f, s)
    /\ pc[r] = "v1" => \A s \in Symbol : Unread(matches[r][s], todo[r])
    /\ pc[r] = "scan" =>
         /\ \A s \in Symbol : Unread(matches[r][s], Tail(todo[r]))
         /\ IsFiniteSet(pending[r])
         /\ Intact(r, Head(todo[r]))
              => \A s \in Symbol : Counted(matches[r][s], pending[r], Head(todo[r]), s)

OrderedInv == TypeOK /\ \A r \in Review : Ordered(r)

\* What is left after the first.
LEMMA QueueTail ==
    ASSUME NEW q \in Seq(File), q # <<>>, ByTier(q), Once(q)
    PROVE  /\ Tail(q) \in Seq(File) /\ ByTier(Tail(q)) /\ Once(Tail(q))
           /\ Head(q) \in Range(q) /\ Head(q) \notin Range(Tail(q))
           /\ Range(q) = Range(Tail(q)) \cup {Head(q)}
           /\ \A f \in Range(q) : Tier(Head(q)) <= Tier(f)
<1>1. PICK n \in Nat : n = Len(q) /\ n >= 1
  BY First
<1>2. PICK t \in Seq(File) : t = Tail(q)
  BY First
<1>3. /\ DOMAIN q = 1..n /\ DOMAIN t = 1..n - 1 /\ Head(q) = q[1]
      /\ \A i \in 1..n - 1 : t[i] = q[i + 1]
  BY <1>1, <1>2, First
<1>4. ByTier(t)
  <2> SUFFICES ASSUME NEW i \in 1..n - 1, NEW j \in 1..n - 1, i <= j PROVE Tier(t[i]) <= Tier(t[j])
    BY <1>3 DEF ByTier
  <2>1. i + 1 \in 1..n /\ j + 1 \in 1..n /\ i + 1 <= j + 1
    OBVIOUS
  <2> QED
    BY <1>3, <2>1 DEF ByTier
<1>5. Once(t)
  <2> SUFFICES ASSUME NEW i \in 1..n - 1, NEW j \in 1..n - 1, t[i] = t[j] PROVE i = j
    BY <1>3 DEF Once
  <2>1. i + 1 \in 1..n /\ j + 1 \in 1..n
    OBVIOUS
  <2>2. q[i + 1] = q[j + 1] /\ DOMAIN q = 1..n
    BY <1>3
  <2>3. PICK a, b : a = i + 1 /\ b = j + 1
    OBVIOUS
  <2>4. a = b
    BY <2>1, <2>2, <2>3 DEF Once
  <2> QED
    BY <2>3, <2>4
<1>6. Range(q) = {q[i] : i \in 1..n} /\ Range(t) = {t[i] : i \in 1..n - 1}
  BY <1>3 DEF Range
<1>7. 1 \in 1..n /\ \A i \in 1..n : i = 1 \/ (i - 1 \in 1..n - 1 /\ (i - 1) + 1 = i /\ 1 <= i)
  BY <1>1
<1>8. \A i \in 1..n - 1 : i + 1 \in 1..n /\ i + 1 # 1
  OBVIOUS
<1>9. q[1] \notin Range(t)
  BY <1>3, <1>6, <1>7, <1>8 DEF Once
<1>10. Range(q) = Range(t) \cup {q[1]}
  <2>1. \A i \in 1..n : q[i] = q[1] \/ q[i] \in Range(t)
    BY <1>3, <1>6, <1>7
  <2>2. \A i \in 1..n - 1 : t[i] \in Range(q)
    BY <1>3, <1>6, <1>8
  <2>3. q[1] \in Range(q)
    BY <1>6, <1>7
  <2> QED
    BY <1>6, <2>1, <2>2, <2>3
<1>11. ASSUME NEW f \in Range(q) PROVE Tier(q[1]) <= Tier(f)
  <2>1. PICK i \in 1..n : f = q[i]
    BY <1>6
  <2>2. 1 <= i
    OBVIOUS
  <2> QED
    BY <1>3, <1>7, <2>1, <2>2 DEF ByTier
<1> QED
  BY <1>2, <1>3, <1>4, <1>5, <1>9, <1>10, <1>11

LEMMA TierIs == ASSUME NEW f PROVE Tier(f) \in Nat
  BY DEF Tier

LEMMA WalkedByTier ==
    ASSUME NEW S, IsFiniteSet(S), NEW q \in Sorted(S, TierOrder)
    PROVE  ByTier(q) /\ Once(q) /\ Range(q) = S
<1>1. q \in Seq(S) /\ Range(q) = S /\ Once(q)
  BY SortedFiles DEF Once
<1>2. ASSUME NEW i \in DOMAIN q, NEW j \in DOMAIN q, i <= j PROVE Tier(q[i]) <= Tier(q[j])
  <2>0. i \in Nat /\ j \in Nat /\ Tier(q[i]) \in Nat /\ Tier(q[j]) \in Nat
    BY <1>1, TierIs
  <2>1. CASE i = j
    BY <2>0, <2>1
  <2>2. CASE i < j
    <3>1. ~ TierOrder(q[j], q[i])
      BY <2>2, SortedFiles
    <3>2. ~ (Tier(q[j]) < Tier(q[i]))
      BY <3>1 DEF TierOrder
    <3> QED
      BY <2>0, <3>2
  <2> QED
    BY <1>2, <2>0, <2>1, <2>2
<1> QED
  BY <1>1, <1>2 DEF ByTier

\* The disk stays, or f is what it was.
LEMMA SettledStays ==
    ASSUME disk' = disk
    PROVE  /\ \A ms, f, s : Settled(ms, f, s)' <=> Settled(ms, f, s)
           /\ \A ms, p, f, s : Counted(ms, p, f, s)' <=> Counted(ms, p, f, s)
  BY DEF Settled, Counted, Defining

LEMMA OrderedWaits ==
    ASSUME NEW q, Ordered(q), pc'[q] = pc[q], todo'[q] = todo[q],
           pending'[q] = pending[q], matches'[q] = matches[q],
           \A f : Intact(q, f)' => Intact(q, f) /\ disk'[f] = disk[f]
    PROVE  Ordered(q)'
<1>1. ASSUME NEW f, Intact(q, f)'
      PROVE  /\ Intact(q, f)
             /\ \A ms, s : Settled(ms, f, s)' <=> Settled(ms, f, s)
             /\ \A ms, p, s : Counted(ms, p, f, s)' <=> Counted(ms, p, f, s)
  BY <1>1 DEF Settled, Counted, Defining
<1>2. PICK h, ms, p : h = Head(todo[q]) /\ ms = matches[q] /\ p = pending[q]
  OBVIOUS
<1>3. ASSUME pc'[q] \in {"v1", "scan"}, NEW f \in Walked, f \notin Range(todo'[q]), Intact(q, f)',
             NEW s \in Symbol
      PROVE  Settled(ms[s], f, s)'
  <2>1. Settled(ms[s], f, s)
    BY <1>1, <1>2, <1>3 DEF Ordered
  <2>2. PICK mss : mss = ms[s]
    OBVIOUS
  <2> QED
    BY <1>1, <1>3, <2>1, <2>2
<1>4. ASSUME pc'[q] = "scan", Intact(q, h)', NEW s \in Symbol
      PROVE  Counted(ms[s], p, h, s)'
  <2>1. Counted(ms[s], p, h, s)
    BY <1>1, <1>2, <1>4 DEF Ordered
  <2>2. PICK mss : mss = ms[s]
    OBVIOUS
  <2> QED
    BY <1>1, <1>4, <2>1, <2>2
<1> QED
  BY <1>2, <1>3, <1>4 DEF Ordered

LEMMA WalkOrdered ==
    ASSUME TypeOK, NEW r \in Review, Ordered(r), Walk(r) PROVE Ordered(r)'
<1>0. PICK unlisted \in SUBSET (MayFail \cap DOMAIN disk) :
        /\ failed' = [failed EXCEPT ![r] = unlisted]
        /\ \E files \in Sorted((Walked \cap DOMAIN disk) \ unlisted, TierOrder) :
             todo' = [todo EXCEPT ![r] = files]
  BY DEF Walk
<1>1. PICK listed, files : /\ listed = (Walked \cap DOMAIN disk) \ unlisted
                           /\ files \in Sorted(listed, TierOrder)
                           /\ todo' = [todo EXCEPT ![r] = files]
  BY <1>0
<1>2. ByTier(files) /\ Once(files) /\ Range(files) = listed
  <2>1. IsFiniteSet(listed)
    <3>1. listed \in SUBSET File
      BY <1>1, EnrichmentAssumption
    <3> QED
      BY <3>1, EnrichmentAssumption, FS_Subset
  <2>2. files \in Sorted(listed, TierOrder)
    BY <1>1
  <2> QED
    BY ONLY <2>1, <2>2, WalkedByTier
<1>3. /\ pc[r] = "start" /\ pc'[r] = "v1" /\ todo'[r] = files
      /\ matches' = matches /\ disk' = disk /\ failed'[r] = unlisted
  BY <1>0, <1>1, Parts DEF Walk, world
<1>4. \A s \in Symbol : matches[r][s] = <<>>
  BY <1>3 DEF Ordered
<1>5. \A s \in Symbol : Ahead(matches[r][s], files) /\ Unread(matches[r][s], files)
  BY <1>4 DEF Ahead, NoFarther, Unread
<1>6. \A f \in Walked : f \notin Range(files) => ~ Intact(r, f)'
  BY <1>1, <1>2, <1>3 DEF Intact, SameSince
<1> QED
  BY <1>2, <1>3, <1>5, <1>6 DEF Ordered

LEMMA ScanOrdered ==
    ASSUME TypeOK, NEW r \in Review, Ordered(r), Scan(r) \/ ScanFails(r) PROVE Ordered(r)'
<1>1. /\ pc[r] = "v1" /\ todo[r] \in Seq(File) /\ todo[r] # <<>>
      /\ UNCHANGED <<disk, began, matches>> /\ Grows(r)
  BY ScanIs DEF world
<1>2. PICK q, f : q = todo[r] /\ f = Head(q)
  OBVIOUS
<1>0. \/ /\ f \in DOMAIN disk
         /\ pc' = [pc EXCEPT ![r] = "scan"] /\ todo' = todo
         /\ \E ls \in Seq(Line) :
              /\ pending' = [pending EXCEPT ![r] = Definitions(ls)]
              /\ f \notin failed'[r] => ls = Scanned(disk[f].lines)
      \/ /\ f \notin DOMAIN disk
         /\ todo' = [todo EXCEPT ![r] = Tail(todo[r])]
         /\ UNCHANGED <<pc, pending>>
  BY <1>2, ScanIs
<1>3. /\ ByTier(q) /\ Once(q)
      /\ \A s \in Symbol : Ahead(matches[r][s], q) /\ Unread(matches[r][s], q)
      /\ \A g \in Walked : g \notin Range(q) /\ Intact(r, g)
           => \A s \in Symbol : Settled(matches[r][s], g, s)
  BY <1>1, <1>2 DEF Ordered
<1>4. /\ Tail(q) \in Seq(File) /\ ByTier(Tail(q)) /\ Once(Tail(q))
      /\ f \in Range(q) /\ Range(q) = Range(Tail(q)) \cup {f}
  BY <1>1, <1>2, <1>3, QueueTail
<1>5. \A s \in Symbol : Ahead(matches[r][s], Tail(q)) /\ Unread(matches[r][s], Tail(q))
  BY <1>3, <1>4 DEF Ahead, Unread
<1>6. \A g : Intact(r, g)' => Intact(r, g)
  BY <1>1 DEF Intact, SameSince, Grows
<1>7. CASE f \in DOMAIN disk
  <2>1. PICK ls \in Seq(Line) :
              /\ pending' = [pending EXCEPT ![r] = Definitions(ls)]
              /\ f \notin failed'[r] => ls = Scanned(disk[f].lines)
    BY <1>0, <1>7
  <2>2. PICK p : /\ p = Definitions(ls)
                 /\ pc' = [pc EXCEPT ![r] = "scan"] /\ todo' = todo
                 /\ pending' = [pending EXCEPT ![r] = p]
    BY <1>0, <1>7, <2>1
  <2>3. pc'[r] = "scan" /\ pending'[r] = p
    BY <2>2, Parts
  <2>5. IsFiniteSet(p)
    BY <2>2, DefinitionsAreFinite
  <2>6. ASSUME Intact(r, f)', NEW s \in Symbol PROVE Counted(matches[r][s], p, f, s)
    <3>0. Waiting(p, s) = Defining(f, s)
      BY <2>1, <2>2, <2>6 DEF Intact, Defining
    <3>1. TakenFrom(matches[r][s], f) = {}
      BY <1>3, <1>4 DEF Unread, TakenFrom
    <3>2. Cardinality(TakenFrom(matches[r][s], f)) = 0
      BY <3>1, FS_EmptySet
    <3>3. Cardinality(Waiting(p, s)) \in Nat
      <4>1. Waiting(p, s) \in SUBSET p
        BY DEF Waiting
      <4> QED
        BY <2>5, <4>1, FS_Subset, FS_CardinalityType
    <3> QED
      BY <3>0, <3>2, <3>3 DEF Counted
  <2>7. Intact(r, f)' => \A s \in Symbol : Counted(matches[r][s], p, f, s)'
    <3> SUFFICES ASSUME Intact(r, f)', NEW s \in Symbol PROVE Counted(matches[r][s], p, f, s)'
      OBVIOUS
    <3>1. PICK ms : ms = matches[r][s]
      OBVIOUS
    <3>2. Counted(ms, p, f, s)'
      BY <1>1, <2>6, <3>1, SettledStays
    <3> QED
      BY <1>1, <3>1, <3>2
  <2>8. \A g \in Walked : g \notin Range(q) /\ Intact(r, g)'
          => \A s \in Symbol : Settled(matches[r][s], g, s)'
    <3> SUFFICES ASSUME NEW g \in Walked, g \notin Range(q), Intact(r, g)', NEW s \in Symbol
                 PROVE  Settled(matches[r][s], g, s)'
      OBVIOUS
    <3>1. PICK ms : ms = matches[r][s]
      OBVIOUS
    <3>2. Settled(ms, g, s)'
      BY <1>1, <1>3, <1>6, <3>1, SettledStays
    <3> QED
      BY <1>1, <3>1, <3>2
  <2> QED
    BY <1>1, <1>2, <1>3, <1>5, <2>2, <2>3, <2>5, <2>7, <2>8 DEF Ordered
<1>8. CASE f \notin DOMAIN disk
  <2>1. todo' = [todo EXCEPT ![r] = Tail(@)] /\ UNCHANGED <<pc, pending>>
    BY <1>0, <1>8
  <2>2. todo'[r] = Tail(q)
    BY <1>2, <2>1, Parts
  <2>3. \A g \in Walked : g \notin Range(Tail(q)) /\ Intact(r, g)'
          => \A s \in Symbol : Settled(matches[r][s], g, s)'
    <3> SUFFICES ASSUME NEW g \in Walked, g \notin Range(Tail(q)), Intact(r, g)', NEW s \in Symbol
                 PROVE  Settled(matches[r][s], g, s)'
      OBVIOUS
    <3>1. PICK ms : ms = matches[r][s]
      OBVIOUS
    <3>2. Intact(r, g) /\ g \notin Range(q)
      BY <1>4, <1>6, <1>8 DEF Intact, SameSince
    <3>3. Settled(ms, g, s)'
      BY <1>1, <1>3, <3>1, <3>2, SettledStays
    <3> QED
      BY <1>1, <3>1, <3>3
  <2> QED
    BY <1>1, <1>4, <1>5, <2>1, <2>2, <2>3 DEF Ordered
<1> QED
  BY <1>7, <1>8

LEMMA MatchOrdered ==
    ASSUME TypeOK, NEW r \in Review, Ordered(r), Match(r) \/ MatchFails(r) PROVE Ordered(r)'
<1>1. /\ pc[r] = "scan" /\ todo[r] \in Seq(File) /\ todo[r] # <<>>
      /\ UNCHANGED <<disk, began, todo>> /\ Grows(r)
  BY MatchIs DEF world
<1>2. PICK q, f : q = todo[r] /\ f = Head(q)
  OBVIOUS
<1>3. PICK m \in Open(r) :
          /\ m[1] \in Nat /\ m[2] \in Symbol
          /\ \/ pc' = [pc EXCEPT ![r] = "panicked"]
             \/ /\ pc' = pc /\ pending' = [pending EXCEPT ![r] = @ \ {m}]
                /\ \E x \in Ref :
                     /\ x.file = f
                     /\ matches' = [matches EXCEPT ![r][m[2]] = Append(@, x)]
  BY <1>2, MatchIs
<1>4. CASE pc' = [pc EXCEPT ![r] = "panicked"]
  <2>1. pc'[r] = "panicked"
    BY <1>4, Parts
  <2> QED
    BY <2>1 DEF Ordered
<1>5. CASE /\ pc' = pc /\ pending' = [pending EXCEPT ![r] = @ \ {m}]
           /\ \E x \in Ref :
                /\ x.file = f
                /\ matches' = [matches EXCEPT ![r][m[2]] = Append(@, x)]
  <2>0. PICK x \in Ref : /\ x.file = f
                         /\ matches' = [matches EXCEPT ![r][m[2]] = Append(@, x)]
    BY <1>5
  <2>1. m \in pending[r] /\ m[1] \in Nat /\ m[2] \in Symbol /\ ~ Full(r, m[2])
    BY <1>3 DEF Open
  <2>2. PICK p, less : p = pending[r] /\ less = p \ {m}
    OBVIOUS
  <2>3. x \in Ref /\ x.file = f
    BY <2>0
  <2>4. pending'[r] = less
    BY <1>5, <2>2, Parts
  <2>5. PICK old, new : old = matches[r] /\ new = matches'[r]
    OBVIOUS
  <2>6. /\ old[m[2]] \in Seq(Ref) /\ new[m[2]] = Append(old[m[2]], x)
        /\ \A s \in Symbol : s # m[2] => new[s] = old[s]
    <3>1. matches' = [matches EXCEPT ![r][m[2]] = Append(@, x)]
      BY <2>0
    <3>2. matches \in [Review -> [Symbol -> Seq(Ref)]]
      BY Parts
    <3> QED
      BY <2>1, <2>3, <2>5, <3>1, <3>2, OneMore
  <2>7. PICK ms, more : ms = old[m[2]] /\ more = Append(ms, x)
    OBVIOUS
  <2>8. /\ DOMAIN more = DOMAIN ms \cup {Len(ms) + 1}
        /\ \A j \in DOMAIN ms : more[j] = ms[j]
        /\ more[Len(ms) + 1] = x
    BY <2>3, <2>6, <2>7
  <2>9. /\ ByTier(q) /\ Once(q)
        /\ \A s \in Symbol : Ahead(old[s], q) /\ Unread(old[s], Tail(q))
        /\ \A g \in Walked : g \notin Range(q) /\ Intact(r, g)
             => \A s \in Symbol : Settled(old[s], g, s)
        /\ IsFiniteSet(p)
        /\ Intact(r, f) => \A s \in Symbol : Counted(old[s], p, f, s)
    BY <1>1, <1>2, <2>2, <2>5 DEF Ordered
  <2>10. /\ f \in Range(q) /\ f \notin Range(Tail(q))
         /\ \A g \in Range(q) : Tier(f) <= Tier(g)
    BY <1>1, <1>2, <2>9, QueueTail
  <2>11. ASSUME NEW s \in Symbol PROVE Ahead(new[s], q) /\ Unread(new[s], Tail(q))
    <3>1. CASE s # m[2]
      BY <2>6, <2>9, <3>1
    <3>2. CASE s = m[2]
      <4>1. new[s] = more /\ Ahead(ms, q) /\ Unread(ms, Tail(q))
        BY <2>1, <2>6, <2>7, <2>9, <3>2
      <4>2. Ahead(more, q)
        BY <2>3, <2>8, <2>10, <4>1 DEF Ahead, NoFarther
      <4>3. Unread(more, Tail(q))
        BY <2>3, <2>8, <2>10, <4>1 DEF Unread
      <4> QED
        BY <4>1, <4>2, <4>3
    <3> QED
      BY <3>1, <3>2
  <2>12. \A g : Intact(r, g)' => Intact(r, g)
    BY <1>1 DEF Intact, SameSince, Grows
  <2>13. ASSUME NEW g \in Walked, g \notin Range(q), Intact(r, g)', NEW s \in Symbol
         PROVE  Settled(new[s], g, s)
    <3>1. Settled(old[s], g, s)
      BY <2>9, <2>12, <2>13
    <3>2. CASE s # m[2]
      BY <2>6, <3>1, <3>2
    <3>3. CASE s = m[2]
      <4>1. new[s] = more /\ old[s] = ms /\ ms \in Seq(Ref)
        BY <2>6, <2>7, <3>3
      <4>2. ~ (Len(ms) >= MaxRefs)
        BY <2>1, <2>5, <2>7 DEF Full
      <4>3. Cardinality(TakenFrom(ms, g)) = Cardinality(Defining(g, s))
        BY <3>1, <4>1, <4>2 DEF Settled
      <4>4. x.file # g
        BY <2>3, <2>10, <2>13
      <4>5. Cardinality(TakenFrom(more, g)) = Cardinality(TakenFrom(ms, g))
        BY <2>3, <2>7, <4>1, <4>4, TakenMore
      <4> QED
        BY <4>1, <4>3, <4>5 DEF Settled
    <3> QED
      BY <3>2, <3>3
  <2>14. ASSUME Intact(r, f)', NEW s \in Symbol PROVE Counted(new[s], less, f, s)
    <3>1. Counted(old[s], p, f, s)
      BY <2>9, <2>12, <2>14
    <3>2. /\ Cardinality(Waiting(p, m[2])) \in Nat
          /\ Cardinality(Waiting(less, m[2])) = Cardinality(Waiting(p, m[2])) - 1
          /\ s # m[2] => Waiting(less, s) = Waiting(p, s)
      <4>1. m \in p /\ less = p \ {m} /\ IsFiniteSet(p)
        BY <2>1, <2>2, <2>9
      <4>2. Cardinality(Waiting(p, m[2])) \in Nat
        BY ONLY <4>1, WaitingLess
      <4>3. Cardinality(Waiting(less, m[2])) = Cardinality(Waiting(p, m[2])) - 1
        BY ONLY <4>1, WaitingLess
      <4>4. s # m[2] => Waiting(less, s) = Waiting(p, s)
        BY ONLY <4>1 DEF Waiting
      <4> QED
        BY ONLY <4>2, <4>3, <4>4
    <3>3. CASE s # m[2]
      BY <2>6, <3>1, <3>2, <3>3 DEF Counted
    <3>4. CASE s = m[2]
      <4>1. new[s] = more /\ old[s] = ms /\ ms \in Seq(Ref)
        BY <2>6, <2>7, <3>4
      <4>2. /\ Cardinality(TakenFrom(ms, f)) \in Nat
            /\ Cardinality(TakenFrom(more, f)) = Cardinality(TakenFrom(ms, f)) + 1
        <5>1. ms \in Seq(Ref) /\ more = Append(ms, x) /\ x \in Ref /\ x.file = f
          BY <2>3, <2>7, <4>1
        <5> QED
          BY ONLY <5>1, TakenMore
      <4>3. Cardinality(TakenFrom(ms, f)) + Cardinality(Waiting(p, s)) = Cardinality(Defining(f, s))
        BY <3>1, <4>1 DEF Counted
      <4>4. Cardinality(TakenFrom(more, f)) + Cardinality(Waiting(less, s)) = Cardinality(Defining(f, s))
        BY <3>2, <3>4, <4>2, <4>3
      <4> QED
        BY <4>1, <4>4 DEF Counted
    <3> QED
      BY <3>3, <3>4
  <2>15. IsFiniteSet(less)
    BY <2>1, <2>2, <2>9, WaitingLess
  <2>16. /\ \A s \in Symbol : Ahead(matches'[r][s], q) /\ Unread(matches'[r][s], Tail(q))
         /\ pc'[r] = "scan" /\ todo'[r] = q
    BY <1>1, <1>2, <1>5, <2>5, <2>11
  <2>17. \A g \in Walked : g \notin Range(q) /\ Intact(r, g)'
          => \A s \in Symbol : Settled(matches[r][s], g, s)'
    <3> SUFFICES ASSUME NEW g \in Walked, g \notin Range(q), Intact(r, g)', NEW s \in Symbol
                 PROVE  Settled(matches[r][s], g, s)'
      OBVIOUS
    <3>1. PICK mss : mss = new[s]
      OBVIOUS
    <3>2. Settled(mss, g, s)'
      BY <1>1, <2>13, <3>1, SettledStays
    <3> QED
      BY <2>5, <3>1, <3>2
  <2>18. Intact(r, f)' => \A s \in Symbol : Counted(matches[r][s], pending[r], f, s)'
    <3> SUFFICES ASSUME Intact(r, f)', NEW s \in Symbol
                 PROVE  Counted(matches[r][s], pending[r], f, s)'
      OBVIOUS
    <3>1. PICK mss : mss = new[s]
      OBVIOUS
    <3>2. Counted(mss, less, f, s)'
      BY <1>1, <2>14, <3>1, SettledStays
    <3> QED
      BY <2>4, <2>5, <3>1, <3>2
  <2> QED
    BY <1>2, <2>4, <2>9, <2>15, <2>16, <2>17, <2>18 DEF Ordered
<1> QED
  BY <1>3, <1>4, <1>5

LEMMA EndOfFileOrdered ==
    ASSUME TypeOK, NEW r \in Review, Ordered(r), EndOfFile(r) PROVE Ordered(r)'
<1>1. /\ pc[r] = "scan" /\ todo[r] \in Seq(File) /\ todo[r] # <<>> /\ Open(r) = {}
      /\ pc'[r] = "v1" /\ todo'[r] = Tail(todo[r])
      /\ UNCHANGED <<disk, began, failed, matches>>
  BY TodoIs, Parts DEF EndOfFile, world
<1>2. PICK q, f, p, old : q = todo[r] /\ f = Head(q) /\ p = pending[r] /\ old = matches[r]
  OBVIOUS
<1>3. /\ ByTier(q) /\ Once(q)
      /\ \A s \in Symbol : Ahead(old[s], q) /\ Unread(old[s], Tail(q))
      /\ \A g \in Walked : g \notin Range(q) /\ Intact(r, g)
           => \A s \in Symbol : Settled(old[s], g, s)
      /\ Intact(r, f) => \A s \in Symbol : Counted(old[s], p, f, s)
  BY <1>1, <1>2 DEF Ordered
<1>4. /\ Tail(q) \in Seq(File) /\ ByTier(Tail(q)) /\ Once(Tail(q))
      /\ f \in Range(q) /\ Range(q) = Range(Tail(q)) \cup {f}
  BY <1>1, <1>2, <1>3, QueueTail
<1>5. \A s \in Symbol : Ahead(old[s], Tail(q))
  BY <1>3, <1>4 DEF Ahead
<1>6. \A g : Intact(r, g)' <=> Intact(r, g)
  BY <1>1 DEF Intact, SameSince
<1>7. ASSUME Intact(r, f), NEW s \in Symbol PROVE Settled(old[s], f, s)
  <2>1. CASE Waiting(p, s) = {}
    <3>1. Cardinality(Waiting(p, s)) = 0
      BY <2>1, FS_EmptySet
    <3>2. Cardinality(TakenFrom(old[s], f)) \in Nat
      <4>1. PICK ms \in Seq(Ref) : ms = old[s]
        BY <1>2, Parts
      <4>2. PICK n \in Nat : n = Len(ms) /\ DOMAIN ms = 1..n
        BY <4>1
      <4>3. TakenFrom(ms, f) \in SUBSET (1..n)
        BY <4>2 DEF TakenFrom
      <4>4. IsFiniteSet(1..n)
        BY FS_Interval
      <4> QED
        BY <4>1, <4>3, <4>4, FS_Subset, FS_CardinalityType
    <3>3. Cardinality(TakenFrom(old[s], f)) + Cardinality(Waiting(p, s)) = Cardinality(Defining(f, s))
      BY <1>3, <1>7 DEF Counted
    <3>4. Cardinality(TakenFrom(old[s], f)) = Cardinality(Defining(f, s))
      BY <3>1, <3>2, <3>3
    <3> QED
      BY <3>4 DEF Settled
  <2>2. CASE Waiting(p, s) # {}
    <3>1. PICK m \in p : m[2] = s
      BY <2>2 DEF Waiting
    <3>2. Full(r, s)
      BY <1>1, <1>2, <3>1 DEF Open
    <3>3. Len(old[s]) >= MaxRefs /\ NoFarther(old[s], f)
      BY <1>2, <1>3, <1>4, <3>2 DEF Full, Ahead
    <3> QED
      BY <3>3 DEF Settled
  <2> QED
    BY <2>1, <2>2
<1>8. \A g \in Walked : g \notin Range(Tail(q)) /\ Intact(r, g)'
        => \A s \in Symbol : Settled(matches[r][s], g, s)'
  <2> SUFFICES ASSUME NEW g \in Walked, g \notin Range(Tail(q)), Intact(r, g)', NEW s \in Symbol
               PROVE  Settled(matches[r][s], g, s)'
    OBVIOUS
  <2>1. PICK ms : ms = old[s]
    OBVIOUS
  <2>2. Settled(ms, g, s)
    BY <1>3, <1>4, <1>6, <1>7, <2>1
  <2>3. Settled(ms, g, s)'
    BY <1>1, <2>2, SettledStays
  <2> QED
    BY <1>1, <1>2, <2>1, <2>3
<1> QED
  BY <1>1, <1>2, <1>3, <1>4, <1>5, <1>8 DEF Ordered

\* The other steps leave the walk, or do not concern it.
LEMMA BeyondOrdered ==
    ASSUME TypeOK, NEW r \in Review,
           \/ LoadIndex(r) \/ ReadAt(r) \/ ReadAtFails(r) \/ AttachDirectly(r) \/ Fit(r)
           \/ Expand(r) \/ Pack(r) \/ PackFails(r) \/ AttachPacked(r)
    PROVE  Ordered(r)'
<1>1. pc'[r] \in {"v2", "pack", "fit"}
  BY Parts DEF LoadIndex, ReadAt, ReadAtFails, AttachDirectly, Fit, Expand, Pack, PackFails,
               AttachPacked
<1> QED
  BY <1>1 DEF Ordered

\* The walk of v1 goes from the nearest tier to the farthest; of the files it
\* has behind it, that are unchanged and could be read, every definition that
\* the scanner comes to was taken unless the cap was reached no farther away.
THEOREM OrderedIsInvariant == Spec => []OrderedInv
<1>1. Init => OrderedInv
  BY InitTyped DEF OrderedInv, Ordered, Init, NoMatches
<1>2. OrderedInv /\ [Next]_vars => OrderedInv'
  <2> SUFFICES ASSUME OrderedInv, [Next]_vars PROVE OrderedInv'
    OBVIOUS
  <2>0. TypeOK /\ \A q \in Review : Ordered(q)
    BY DEF OrderedInv
  <2>1. ASSUME NEW r \in Review, Step(r) PROVE OrderedInv'
    <3>1. TypeOK' /\ disk' = disk
      BY <2>0, <2>1, StepTyped, WorldWaits
    <3>2. Ordered(r)'
      BY <2>0, <2>1, WalkOrdered, ScanOrdered, MatchOrdered, EndOfFileOrdered, BeyondOrdered DEF Step
    <3>3. ASSUME NEW q \in Review, q # r PROVE Ordered(q)'
      <4>1. /\ pc'[q] = pc[q] /\ todo'[q] = todo[q] /\ began'[q] = began[q]
            /\ failed'[q] = failed[q] /\ pending'[q] = pending[q] /\ matches'[q] = matches[q]
        BY <2>0, <2>1, <3>3, OthersWait
      <4>2. \A f : Intact(q, f)' => Intact(q, f) /\ disk'[f] = disk[f]
        BY <3>1, <4>1 DEF Intact, SameSince
      <4> QED
        BY <2>0, <4>1, <4>2, OrderedWaits
    <3> QED
      BY <3>1, <3>2, <3>3 DEF OrderedInv
  <2>2. ASSUME NEW g \in File, Edit(g) PROVE OrderedInv'
    <3>1. TypeOK'
      BY <2>0, <2>2, EditTyped
    <3>2. UNCHANGED <<pc, failed, todo, pending, matches>>
      BY <2>2 DEF Edit
    <3>3. ASSUME NEW q \in Review PROVE Ordered(q)'
      <4>1. \A f : Intact(q, f)' => Intact(q, f) /\ disk'[f] = disk[f]
        BY <2>0, <2>2, <3>2, EditedIsNewer DEF Intact
      <4> QED
        BY <2>0, <3>2, <4>1, OrderedWaits
    <3> QED
      BY <3>1, <3>3 DEF OrderedInv
  <2>3. CASE UNCHANGED vars
    <3>1. UNCHANGED <<disk, edits, idx, config, pc, began, failed, todo, pending, matches, packed, kept, used>>
      BY <2>3 DEF vars
    <3>2. TypeOK'
      BY <2>0, <3>1 DEF TypeOK
    <3>3. ASSUME NEW q \in Review PROVE Ordered(q)'
      <4>1. \A f : Intact(q, f)' => Intact(q, f) /\ disk'[f] = disk[f]
        BY <3>1 DEF Intact, SameSince
      <4> QED
        BY <2>0, <3>1, <4>1, OrderedWaits
    <3> QED
      BY <3>2, <3>3 DEF OrderedInv
  <2> QED
    BY <2>1, <2>2, <2>3 DEF Next
<1> QED
  BY <1>1, <1>2, PTL DEF Spec

\* When v1 leaves out definitions of a symbol, they are the farther ones: a
\* definition in a nearer tier than one that was taken is taken too, unless
\* its file was edited, could not be read, or has a line above it that is too
\* long for the scanner (collectTiers, FindReferences).
THEOREM NearestAreKept == Spec => []NearestKept
<1>1. OrderedInv /\ ShownInv => NearestKept
  <2> SUFFICES ASSUME OrderedInv, ShownInv, NEW r \in Review, Found(r), ~ config.index,
                      NEW s \in Symbol, NEW i \in DOMAIN matches[r][s],
                      NEW f \in Walked, Intact(r, f),
                      Tier(f) < Tier(matches[r][s][i].file)
               PROVE  Cardinality(TakenFrom(matches[r][s], f)) = Cardinality(Defining(f, s))
    BY DEF NearestKept, TakenFrom, Defining, Waiting, Intact
  <2>1. Ordered(r) /\ Shown(r)
    BY DEF OrderedInv, ShownInv
  <2>2. pc[r] = "v1" /\ todo[r] = <<>>
    BY <2>1 DEF Found, Shown
  <2>3. f \notin Range(todo[r])
    BY <2>2, RangeEmpty
  <2>4. Settled(matches[r][s], f, s)
    BY <2>1, <2>2, <2>3 DEF Ordered
  <2>5. ~ NoFarther(matches[r][s], f)
    BY TierIs DEF NoFarther
  <2> QED
    BY <2>4, <2>5 DEF Settled
<1> QED
  BY <1>1, OrderedIsInvariant, ShownIsInvariant, PTL

-----------------------------------------------------------------------------
(* What a review has done is a function of the workspace.                  *)

\* R orders D: of two elements one comes first.
Ranking(R, D) ==
    /\ \A x, y \in D : x # y => <<x, y>> \in R \/ <<y, x>> \in R
    /\ \A x, y \in D : ~ (<<x, y>> \in R /\ <<y, x>> \in R)

\* s goes up in R, and leaves out nothing of D that comes before what it has.
Ascends(s, R) == \A i, j \in DOMAIN s : i < j => <<s[i], s[j]>> \in R
Beginning(s, D, R) ==
    \A x \in D, j \in DOMAIN s : <<x, s[j]>> \in R => \E i \in DOMAIN s : s[i] = x

\* Two such sequences do not part.
LEMMA NoFork ==
    ASSUME NEW D, NEW R, Ranking(R, D), NEW a \in Seq(D), NEW b \in Seq(D),
           Ascends(a, R), Ascends(b, R), Beginning(b, D, R),
           NEW n \in DOMAIN a \cap DOMAIN b, \A i \in DOMAIN a \cap DOMAIN b : i < n => a[i] = b[i]
    PROVE  <<a[n], b[n]>> \notin R
<1> SUFFICES ASSUME <<a[n], b[n]>> \in R PROVE FALSE
  OBVIOUS
<1>1. a[n] \in D /\ b[n] \in D
  BY ElementOfSeq
<1>2. PICK i \in DOMAIN b : b[i] = a[n]
  BY <1>1 DEF Beginning
<1>3. DOMAIN a = 1..Len(a) /\ DOMAIN b = 1..Len(b) /\ Len(a) \in Nat /\ Len(b) \in Nat
  OBVIOUS
<1>4. i \in Nat /\ n \in Nat
  BY <1>3
<1>5. CASE i < n
  <2>1. i \in DOMAIN a
    BY <1>3, <1>4, <1>5
  <2>2. a[i] = a[n] /\ <<a[i], a[n]>> \in R
    BY <1>2, <1>5, <2>1 DEF Ascends
  <2> QED
    BY <1>1, <2>2 DEF Ranking
<1>6. CASE i = n
  BY <1>1, <1>2, <1>6 DEF Ranking
<1>7. CASE n < i
  <2>1. <<b[n], b[i]>> \in R
    BY <1>7 DEF Ascends
  <2> QED
    BY <1>1, <1>2, <2>1 DEF Ranking
<1> QED
  BY <1>4, <1>5, <1>6, <1>7

LEMMA SameBeginning ==
    ASSUME NEW D, NEW R, Ranking(R, D), NEW a \in Seq(D), NEW b \in Seq(D),
           Ascends(a, R), Ascends(b, R), Beginning(a, D, R), Beginning(b, D, R)
    PROVE  \A i \in DOMAIN a \cap DOMAIN b : a[i] = b[i]
<1> DEFINE S == {i \in DOMAIN a \cap DOMAIN b : a[i] # b[i]}
<1> SUFFICES ASSUME S # {} PROVE FALSE
  OBVIOUS
<1>1. PICK n \in S : \A m \in S : n <= m
  <2>1. S \subseteq Nat
    <3>1. DOMAIN a = 1..Len(a)
      OBVIOUS
    <3> QED
      BY <3>1
  <2> HIDE DEF S
  <2> QED
    BY <2>1, LeastNumber
<1>2. n \in DOMAIN a \cap DOMAIN b /\ a[n] # b[n]
  OBVIOUS
<1>3. \A i \in DOMAIN a \cap DOMAIN b : i < n => a[i] = b[i]
  <2> SUFFICES ASSUME NEW i \in DOMAIN a \cap DOMAIN b, i < n, a[i] # b[i] PROVE FALSE
    OBVIOUS
  <2>1. i \in S /\ i \in Nat /\ n \in Nat
    <3>1. DOMAIN a = 1..Len(a)
      OBVIOUS
    <3> QED
      BY <1>2, <3>1
  <2>2. n <= i
    BY <1>1, <2>1
  <2> QED
    BY <2>1, <2>2
<1>4. a[n] \in D /\ b[n] \in D
  BY <1>2, ElementOfSeq
<1> HIDE DEF S
<1>5. <<a[n], b[n]>> \notin R
  BY <1>2, <1>3, NoFork
<1>6. <<b[n], a[n]>> \notin R
  <2>1. n \in DOMAIN b \cap DOMAIN a /\ \A i \in DOMAIN b \cap DOMAIN a : i < n => b[i] = a[i]
    BY <1>2, <1>3
  <2> QED
    BY <2>1, NoFork
<1> QED
  BY <1>2, <1>4, <1>5, <1>6 DEF Ranking

\* Two sorted listings of a set are one.
LEMMA SameListing ==
    ASSUME NEW S, IsFiniteSet(S), NEW R, Ranking(R, S),
           NEW a \in SetToSeqs(S), \A i, j \in DOMAIN a : i < j => <<a[j], a[i]>> \notin R,
           NEW b \in SetToSeqs(S), \A i, j \in DOMAIN b : i < j => <<b[j], b[i]>> \notin R
    PROVE  a = b
<1>1. ASSUME NEW q \in SetToSeqs(S), \A i, j \in DOMAIN q : i < j => <<q[j], q[i]>> \notin R
      PROVE  /\ q \in Seq(S) /\ Len(q) = Cardinality(S) /\ Cardinality(S) \in Nat
             /\ Ascends(q, R) /\ Beginning(q, S, R)
  <2>1. /\ q \in Seq(S) /\ Len(q) = Cardinality(S) /\ Cardinality(S) \in Nat
        /\ Range(q) = S /\ \A i, j \in DOMAIN q : q[i] = q[j] => i = j
    BY <1>1, Listing
  <2>2. Ascends(q, R)
    <3> SUFFICES ASSUME NEW i \in DOMAIN q, NEW j \in DOMAIN q, i < j PROVE <<q[i], q[j]>> \in R
      BY DEF Ascends
    <3>1. q[i] \in S /\ q[j] \in S /\ i # j
      BY <2>1, ElementOfSeq
    <3>2. q[i] # q[j] /\ <<q[j], q[i]>> \notin R
      BY <1>1, <2>1, <3>1
    <3> QED
      BY <3>1, <3>2 DEF Ranking
  <2>3. Beginning(q, S, R)
    BY <2>1 DEF Beginning, Range
  <2> QED
    BY <2>1, <2>2, <2>3
<1>2. \A i \in DOMAIN a \cap DOMAIN b : a[i] = b[i]
  BY <1>1, SameBeginning
<1>3. a \in Seq(S) /\ b \in Seq(S) /\ Len(a) = Len(b)
  BY <1>1
<1> QED
  BY <1>2, <1>3

\* What the symbols, the candidates and the inputs are sorted by.
LEMMA SameSymbols == ASSUME NEW a \in BySymbol, NEW b \in BySymbol PROVE a = b
<1> DEFINE R == {p \in Symbol \X Symbol : p[1] < p[2]}
<1>1. Ranking(R, Symbol)
  BY EnrichmentAssumption DEF Ranking
<1>2. ASSUME NEW q \in BySymbol
      PROVE  q \in SetToSeqs(Symbol) /\ \A i, j \in DOMAIN q : i < j => <<q[j], q[i]>> \notin R
  BY DEF BySymbol, Sorted, Ascending
<1> HIDE DEF R
<1> QED
  BY <1>1, <1>2, EnrichmentAssumption, SameListing

-----------------------------------------------------------------------------
(* Resolver v1: the references are those of the nearest places.            *)

\* The places v1 finds the symbol s at, in the order of the walk, and what it
\* makes of one.
PlacesIn(f, s) ==
    {n \in DOMAIN Scanned(disk[f].lines) : s \in Scanned(disk[f].lines)[n].def}
Places(s) == UNION {{f} \X PlacesIn(f, s) : f \in Walked \cap DOMAIN disk}
Nearer ==
    {p \in (File \X Nat) \X (File \X Nat) :
        TierOrder(p[1][1], p[2][1]) \/ (p[1][1] = p[2][1] /\ p[1][2] < p[2][2])}
RefAt(s, p) == [sym |-> s, file |-> p[1], excerpt |-> BuildExcerpt(p[1], p[2])]

\* The references ms are those of the first places, listed in at.
Firsts(at, ms, s) ==
    /\ \A i \in 1..Len(ms) : ms[i] = RefAt(s, at[i])
    /\ Ascends(at, Nearer) /\ Beginning(at, Places(s), Nearer)
    /\ Len(ms) <= MaxRefs

\* They are all there are, or as many as may be, but for those that wait.
AllBut(at, ms, s, waits) ==
    Len(ms) >= MaxRefs \/ \A p \in Places(s) : p \in Range(at) \/ p \in waits

\* The files still to be scanned.
Queue(files) ==
    /\ files \in Seq(Walked \cap DOMAIN disk)
    /\ \A i, j \in DOMAIN files : i < j => TierOrder(files[i], files[j])

\* Between two files, and inside the file f, of which p is not yet handled.
WalkedTo(ms, files, s) ==
    \E at \in [1..Len(ms) -> Places(s)] :
        /\ Firsts(at, ms, s)
        /\ \A i \in 1..Len(ms) : \A g \in Range(files) : TierOrder(at[i][1], g)
        /\ AllBut(at, ms, s, Range(files) \X Nat)
ScannedTo(ms, f, rest, p, s) ==
    \E at \in [1..Len(ms) -> Places(s)] :
        /\ Firsts(at, ms, s)
        /\ \A i \in 1..Len(ms) : at[i][1] = f \/ TierOrder(at[i][1], f)
        /\ \A m \in Waiting(p, s) : /\ <<f, m[1]>> \in Places(s)
                                    /\ \A i \in 1..Len(ms) : at[i][1] = f => at[i][2] < m[1]
        /\ AllBut(at, ms, s, (Range(rest) \X Nat) \cup {<<f, m[1]>> : m \in Waiting(p, s)})

LEMMA Tiers ==
    ASSUME NEW f \in File, NEW g \in File
    PROVE  /\ ~ TierOrder(f, f)
           /\ f # g => TierOrder(f, g) \/ TierOrder(g, f)
           /\ ~ (TierOrder(f, g) /\ TierOrder(g, f))
           /\ \A h \in File : TierOrder(f, g) /\ TierOrder(g, h) => TierOrder(f, h)
<1>1. f \in Nat /\ g \in Nat /\ \A h \in File : h \in Nat
  BY EnrichmentAssumption
<1>2. Tier(f) \in Nat /\ Tier(g) \in Nat /\ \A h \in File : Tier(h) \in Nat
  BY TierIs
<1> QED
  BY <1>1, <1>2 DEF TierOrder

LEMMA PlacesType ==
    ASSUME TypeOK, NEW s
    PROVE  /\ Places(s) \subseteq File \X Nat
           /\ \A p : p \in Places(s) <=>
                 \E f \in Walked \cap DOMAIN disk : \E n \in PlacesIn(f, s) : p = <<f, n>>
<1>1. \A p : p \in Places(s) <=>
                 \E f \in Walked \cap DOMAIN disk : \E n \in PlacesIn(f, s) : p = <<f, n>>
  BY DEF Places
<1>2. ASSUME NEW f \in Walked \cap DOMAIN disk, NEW n \in PlacesIn(f, s)
      PROVE  f \in File /\ n \in Nat
  <2>1. f \in File /\ disk[f].lines \in Seq(Line)
    BY Reading
  <2>2. Scanned(disk[f].lines) \in Seq(Line)
    BY <2>1, ScannedIs
  <2> QED
    BY <2>1, <2>2 DEF PlacesIn
<1> QED
  BY <1>1, <1>2

LEMMA NearerRanks ==
    ASSUME TypeOK, NEW s
    PROVE  Ranking(Nearer, Places(s))
<1>1. ASSUME NEW p \in Places(s), NEW q \in Places(s)
      PROVE  /\ p = <<p[1], p[2]>> /\ q = <<q[1], q[2]>>
             /\ p[1] \in File /\ q[1] \in File /\ p[2] \in Nat /\ q[2] \in Nat
             /\ (<<p, q>> \in Nearer <=> TierOrder(p[1], q[1]) \/ (p[1] = q[1] /\ p[2] < q[2]))
             /\ (<<q, p>> \in Nearer <=> TierOrder(q[1], p[1]) \/ (q[1] = p[1] /\ q[2] < p[2]))
  BY PlacesType DEF Nearer
<1>2. ASSUME NEW p \in Places(s), NEW q \in Places(s), p # q
      PROVE  <<p, q>> \in Nearer \/ <<q, p>> \in Nearer
  BY <1>1, <1>2, Tiers
<1>3. ASSUME NEW p \in Places(s), NEW q \in Places(s)
      PROVE  ~ (<<p, q>> \in Nearer /\ <<q, p>> \in Nearer)
  BY <1>1, Tiers
<1> QED
  BY <1>2, <1>3 DEF Ranking

\* EndOf, of the pieces of a file.
EndIn(ls, n) ==
    LET end == Lesser(n + After, Len(ls))
        ends == {i \in n + Body + 2 .. end : ls[i].blank}
    IN  IF ends = {} THEN end ELSE (CHOOSE i \in ends : \A j \in ends : i <= j) - 1

\* While the disk stays, so do its places.
LEMMA ExcerptStays ==
    ASSUME disk' = disk
    PROVE  \A f, n : BuildExcerpt(f, n)' = BuildExcerpt(f, n)
<1>1. \A f : Pieces(f)' = Pieces(f)
  BY DEF Pieces
<1> SUFFICES ASSUME NEW f, NEW n PROVE BuildExcerpt(f, n)' = BuildExcerpt(f, n)
  OBVIOUS
<1>2. CASE f \in DOMAIN disk
  <2>1. BuildExcerpt(f, n) = Cut(SubSeq(Pieces(f), Larger(1, n - Before), EndOf(f, n)), Cap)
    BY <1>2, BuildExcerptIs
  <2>2. EndOf(f, n)' = EndOf(f, n)
    <3>1. EndOf(f, n) = EndIn(Pieces(f), n)
      BY DEF EndOf, EndIn
    <3>2. EndOf(f, n)' = EndIn(Pieces(f)', n)
      BY DEF EndOf, EndIn
    <3> QED
      BY <1>1, <3>1, <3>2
  <2>3. BuildExcerpt(f, n)' = Cut(SubSeq(Pieces(f)', Larger(1, n - Before), EndOf(f, n)'), Cap)
    BY <1>2 DEF BuildExcerpt, EndOf
  <2> QED
    BY <1>1, <2>1, <2>2, <2>3
<1>3. CASE f \notin DOMAIN disk
  BY <1>3 DEF BuildExcerpt
<1> QED
  BY <1>2, <1>3

LEMMA PlacesStay ==
    ASSUME disk' = disk
    PROVE  /\ \A s : Places(s)' = Places(s)
           /\ \A s, p : RefAt(s, p)' = RefAt(s, p)
           /\ \A files : Queue(files)' <=> Queue(files)
           /\ \A at, ms, s : Firsts(at, ms, s)' <=> Firsts(at, ms, s)
           /\ \A at, ms, s, waits : AllBut(at, ms, s, waits)' <=> AllBut(at, ms, s, waits)
<1>1. \A f, s : PlacesIn(f, s)' = PlacesIn(f, s)
  BY DEF PlacesIn
<1>2. \A s : Places(s)' = Places(s)
  BY <1>1 DEF Places
<1>3. \A s, p : RefAt(s, p)' = RefAt(s, p)
  BY ExcerptStays DEF RefAt
<1>4. \A files : Queue(files)' <=> Queue(files)
  BY DEF Queue
<1>5. \A at, ms, s : Firsts(at, ms, s)' <=> Firsts(at, ms, s)
  BY <1>2, <1>3 DEF Firsts
<1>6. \A at, ms, s, waits : AllBut(at, ms, s, waits)' <=> AllBut(at, ms, s, waits)
  BY <1>2 DEF AllBut
<1> QED
  BY <1>2, <1>3, <1>4, <1>5, <1>6

LEMMA WalkStays ==
    ASSUME disk' = disk
    PROVE  /\ \A ms, files, s : WalkedTo(ms, files, s)' <=> WalkedTo(ms, files, s)
           /\ \A ms, f, rest, p, s : ScannedTo(ms, f, rest, p, s)' <=> ScannedTo(ms, f, rest, p, s)
<1>1. \A ms, files, s : WalkedTo(ms, files, s)' <=> WalkedTo(ms, files, s)
  BY PlacesStay DEF WalkedTo
<1>2. ASSUME NEW ms, NEW f, NEW rest, NEW p, NEW s
      PROVE  ScannedTo(ms, f, rest, p, s)' <=> ScannedTo(ms, f, rest, p, s)
  <2>1. PICK w : w = (Range(rest) \X Nat) \cup {<<f, m[1]>> : m \in Waiting(p, s)}
    OBVIOUS
  <2>2. /\ Places(s)' = Places(s) /\ \A at : Firsts(at, ms, s)' <=> Firsts(at, ms, s)
        /\ \A at : AllBut(at, ms, s, w)' <=> AllBut(at, ms, s, w)
    BY PlacesStay
  <2> QED
    BY <2>1, <2>2 DEF ScannedTo
<1> QED
  BY <1>1, <1>2

LEMMA QueueHead ==
    ASSUME NEW q, Queue(q), q # <<>>
    PROVE  /\ Queue(Tail(q)) /\ Head(q) \in Walked \cap DOMAIN disk
           /\ Range(q) = Range(Tail(q)) \cup {Head(q)}
           /\ \A g \in Range(Tail(q)) : TierOrder(Head(q), g)
           /\ Head(q) \in File /\ Range(Tail(q)) \subseteq File
<1>1. PICK S : S = Walked \cap DOMAIN disk /\ S \subseteq File
  BY EnrichmentAssumption
<1>2. q \in Seq(S) /\ \A i, j \in DOMAIN q : i < j => TierOrder(q[i], q[j])
  BY <1>1 DEF Queue
<1>3. PICK n, t :
        /\ n = Len(q) /\ n \in Nat /\ n >= 1 /\ DOMAIN q = 1..n
        /\ t = Tail(q) /\ t \in Seq(S) /\ Len(t) = n - 1
        /\ Head(q) = q[1] /\ Head(q) \in S /\ \A i \in 1..n - 1 : t[i] = q[i + 1]
  <2>1. PICK n, t : n = Len(q) /\ t = Tail(q)
    OBVIOUS
  <2>2. /\ n \in Nat /\ n >= 1 /\ t \in Seq(S) /\ Len(t) = n - 1
        /\ Head(q) = q[1] /\ Head(q) \in S /\ \A i \in 1..n - 1 : t[i] = q[i + 1]
    BY ONLY q # <<>>, <1>2, <2>1, First
  <2>3. DOMAIN q = 1..n
    BY <1>2, <2>1
  <2> QED
    BY <2>1, <2>2, <2>3
<1>4. ASSUME NEW i \in DOMAIN t, NEW j \in DOMAIN t, i < j PROVE TierOrder(t[i], t[j])
  <2>1. i + 1 \in 1..n /\ j + 1 \in 1..n /\ i + 1 < j + 1 /\ t[i] = q[i + 1] /\ t[j] = q[j + 1]
    BY <1>3, <1>4
  <2> QED
    BY <1>2, <1>3, <2>1
<1>5. ASSUME NEW g \in Range(t) PROVE TierOrder(q[1], g)
  <2>1. PICK i \in DOMAIN t : g = t[i]
    BY DEF Range
  <2>2. i + 1 \in 1..n /\ 1 \in 1..n /\ 1 < i + 1 /\ t[i] = q[i + 1]
    BY <1>3
  <2> QED
    BY <1>2, <1>3, <2>1, <2>2
<1>6. Range(q) = Range(t) \cup {q[1]}
  <2>1. Range(t) \subseteq Range(q) /\ q[1] \in Range(q)
    <3>1. \A i \in DOMAIN t : i + 1 \in 1..n /\ t[i] = q[i + 1]
      BY <1>3
    <3>2. 1 \in 1..n
      BY <1>3
    <3> QED
      BY <1>3, <3>1, <3>2 DEF Range
  <2>2. ASSUME NEW i \in 1..n, i # 1 PROVE q[i] \in Range(t)
    <3>1. i - 1 \in DOMAIN t /\ t[i - 1] = q[i - 1 + 1] /\ i - 1 + 1 = i
      BY <1>3, <2>2
    <3> QED
      BY <3>1 DEF Range
  <2> QED
    BY <1>3, <2>1, <2>2 DEF Range
<1>7. Range(t) \subseteq File
  BY <1>1, <1>3, ElementOfSeq DEF Range
<1> QED
  BY <1>1, <1>3, <1>4, <1>5, <1>6, <1>7 DEF Queue

\* The walk begins with all the files in front of it.
LEMMA WalkBegins ==
    ASSUME TypeOK, NEW files \in Sorted(Walked \cap DOMAIN disk, TierOrder)
    PROVE  Queue(files) /\ \A s : WalkedTo(<<>>, files, s)
<1>1. PICK S : S = Walked \cap DOMAIN disk /\ S \in SUBSET File
  BY EnrichmentAssumption
<1>2. IsFiniteSet(S)
  BY <1>1, EnrichmentAssumption, FS_Subset
<1>3. /\ files \in Seq(S) /\ Range(files) = S /\ \A i, j \in DOMAIN files : files[i] = files[j] => i = j
      /\ \A i, j \in DOMAIN files : i < j => ~ TierOrder(files[j], files[i])
  BY <1>1, <1>2, SortedFiles
<1>4. ASSUME NEW i \in DOMAIN files, NEW j \in DOMAIN files, i < j
      PROVE  TierOrder(files[i], files[j])
  <2>1. files[i] \in File /\ files[j] \in File /\ i # j
    <3>1. i \in Nat /\ j \in Nat
      BY <1>3
    <3> QED
      BY <1>1, <1>3, <1>4, <3>1, ElementOfSeq
  <2> QED
    BY <1>3, <1>4, <2>1, Tiers
<1>5. Queue(files)
  BY <1>1, <1>3, <1>4 DEF Queue
<1>6. ASSUME NEW s PROVE WalkedTo(<<>>, files, s)
  <2>1. PICK at : at = [i \in 1..0 |-> i]
    OBVIOUS
  <2>2. at \in [1..Len(<<>>) -> Places(s)] /\ DOMAIN at = {} /\ Len(<<>>) = 0
    BY <2>1
  <2>3. Firsts(at, <<>>, s)
    BY <2>2, EnrichmentAssumption DEF Firsts, Ascends, Beginning
  <2>4. AllBut(at, <<>>, s, Range(files) \X Nat)
    <3> SUFFICES ASSUME NEW p \in Places(s) PROVE p \in Range(files) \X Nat
      BY DEF AllBut
    <3>1. p[1] \in S /\ p \in File \X Nat
      BY <1>1, PlacesType
    <3> QED
      BY <1>3, <3>1
  <2> QED
    BY <2>2, <2>3, <2>4 DEF WalkedTo
<1> QED
  BY <1>5, <1>6

\* The next file is opened: all its places wait.
LEMMA ScanOpens ==
    ASSUME TypeOK, NEW q, Queue(q), q # <<>>, NEW ms \in Seq(Ref), NEW s \in Symbol,
           WalkedTo(ms, q, s), NEW f, f = Head(q), NEW p,
           p = Definitions(Scanned(disk[f].lines))
    PROVE  ScannedTo(ms, f, Tail(q), p, s)
<1>1. /\ f \in Walked \cap DOMAIN disk /\ Range(q) = Range(Tail(q)) \cup {f}
      /\ \A g \in Range(Tail(q)) : TierOrder(f, g) /\ f \in File
  BY QueueHead
<1>2. PICK at \in [1..Len(ms) -> Places(s)] :
        /\ Firsts(at, ms, s)
        /\ \A i \in 1..Len(ms) : \A g \in Range(q) : TierOrder(at[i][1], g)
        /\ AllBut(at, ms, s, Range(q) \X Nat)
  BY DEF WalkedTo
<1>3. \A i \in 1..Len(ms) : TierOrder(at[i][1], f)
  BY <1>1, <1>2
<1>4. ASSUME NEW m \in Waiting(p, s)
      PROVE  /\ <<f, m[1]>> \in Places(s)
             /\ \A i \in 1..Len(ms) : at[i][1] = f => at[i][2] < m[1]
  <2>1. m[1] \in PlacesIn(f, s)
    BY DEF Waiting, Definitions, PlacesIn
  <2>2. f \in File
    BY <1>1, Reading
  <2> QED
    BY <1>1, <1>3, <2>1, <2>2, PlacesType, Tiers
<1>5. AllBut(at, ms, s, (Range(Tail(q)) \X Nat) \cup {<<f, m[1]>> : m \in Waiting(p, s)})
  <2> SUFFICES ASSUME NEW x \in Places(s), x \in Range(q) \X Nat
               PROVE  x \in (Range(Tail(q)) \X Nat) \cup {<<f, m[1]>> : m \in Waiting(p, s)}
    BY <1>2 DEF AllBut
  <2>1. CASE x[1] \in Range(Tail(q))
    BY <2>1
  <2>2. CASE x[1] \notin Range(Tail(q))
    <3>0. PICK g \in Walked \cap DOMAIN disk : \E n \in PlacesIn(g, s) : x = <<g, n>>
      BY PlacesType
    <3>1. PICK n \in PlacesIn(g, s) : x = <<g, n>>
      BY <3>0
    <3>2. g = f
      BY <1>1, <2>2, <3>1
    <3>3. PICK m : m = <<n, s>>
      OBVIOUS
    <3>4. m \in Waiting(p, s) /\ m[1] = n
      BY <3>1, <3>2, <3>3 DEF Waiting, Definitions, PlacesIn
    <3> QED
      BY <3>1, <3>2, <3>3, <3>4
  <2> QED
    BY <2>1, <2>2
<1> QED
  BY <1>2, <1>3, <1>4, <1>5 DEF ScannedTo

\* The file is done: its places are taken, or there is no room for them.
LEMMA FileEnds ==
    ASSUME TypeOK, NEW ms \in Seq(Ref), NEW s, NEW f \in File, NEW rest, Range(rest) \subseteq File,
           \A g \in Range(rest) : TierOrder(f, g), NEW p, ScannedTo(ms, f, rest, p, s),
           \A m \in Waiting(p, s) : Len(ms) >= MaxRefs
    PROVE  WalkedTo(ms, rest, s)
<1>1. PICK at \in [1..Len(ms) -> Places(s)] :
        /\ Firsts(at, ms, s)
        /\ \A i \in 1..Len(ms) : at[i][1] = f \/ TierOrder(at[i][1], f)
        /\ AllBut(at, ms, s, (Range(rest) \X Nat) \cup {<<f, m[1]>> : m \in Waiting(p, s)})
  BY DEF ScannedTo
<1>2. ASSUME NEW i \in 1..Len(ms), NEW g \in Range(rest) PROVE TierOrder(at[i][1], g)
  <2>1. at[i][1] \in File
    BY PlacesType
  <2> QED
    BY <1>1, <2>1, Tiers
<1>3. AllBut(at, ms, s, Range(rest) \X Nat)
  BY <1>1 DEF AllBut
<1> QED
  BY <1>1, <1>2, <1>3 DEF WalkedTo

\* The first match of those that wait is taken.
LEMMA MatchTakes ==
    ASSUME TypeOK, NEW ms \in Seq(Ref), NEW s, NEW f \in File, NEW rest, Range(rest) \subseteq File,
           \A g \in Range(rest) : TierOrder(f, g), NEW p, ScannedTo(ms, f, rest, p, s),
           NEW m \in Waiting(p, s), p \subseteq Nat \X Symbol, Len(ms) < MaxRefs,
           \A o \in Waiting(p, s) : m[1] <= o[1],
           NEW x, x = RefAt(s, <<f, m[1]>>), NEW more, more = Append(ms, x), NEW less, less = p \ {m}
    PROVE  ScannedTo(more, f, rest, less, s)
<1>1. PICK at \in [1..Len(ms) -> Places(s)] :
        /\ Firsts(at, ms, s)
        /\ \A i \in 1..Len(ms) : at[i][1] = f \/ TierOrder(at[i][1], f)
        /\ \A o \in Waiting(p, s) : /\ <<f, o[1]>> \in Places(s)
                                    /\ \A i \in 1..Len(ms) : at[i][1] = f => at[i][2] < o[1]
        /\ AllBut(at, ms, s, (Range(rest) \X Nat) \cup {<<f, o[1]>> : o \in Waiting(p, s)})
  BY DEF ScannedTo
<1>2. PICK n, y, k : n = Len(ms) /\ n \in Nat /\ y = <<f, m[1]>> /\ k = m[1]
  <2>1. Len(ms) \in Nat
    OBVIOUS
  <2> QED
    BY <2>1
<1>3. y \in Places(s) /\ y[1] = f /\ y[2] = k /\ k \in Nat /\ MaxRefs \in Nat
  BY <1>1, <1>2, EnrichmentAssumption DEF Waiting
<1>4. PICK up : up = [i \in 1..n + 1 |-> IF i <= n THEN at[i] ELSE y]
  OBVIOUS
<1>5. /\ up \in [1..n + 1 -> Places(s)] /\ DOMAIN up = 1..n + 1 /\ up[n + 1] = y
      /\ \A i \in 1..n : up[i] = at[i] /\ up[i] \in Places(s)
  <2>1. PICK D : D = Places(s)
    OBVIOUS
  <2>2. at \in [1..n -> D] /\ y \in D
    BY <1>2, <1>3, <2>1
  <2>3. n + 1 \in 1..n + 1 /\ ~ (n + 1 <= n) /\ \A i \in 1..n : i \in 1..n + 1 /\ i <= n
    BY <1>2
  <2>4. up \in [1..n + 1 -> D] /\ DOMAIN up = 1..n + 1 /\ up[n + 1] = y
    BY <1>2, <1>4, <2>2, <2>3
  <2>5. \A i \in 1..n : up[i] = at[i] /\ up[i] \in D
    BY <1>4, <2>2, <2>3
  <2> QED
    BY <2>1, <2>4, <2>5
<1>6. /\ Len(more) = n + 1 /\ more[n + 1] = x /\ \A i \in 1..n : more[i] = ms[i]
  BY <1>2
<1>7. \A q \in Places(s) : q = <<q[1], q[2]>> /\ q[1] \in File /\ q[2] \in Nat
  BY PlacesType
<1>8. ASSUME NEW i \in 1..n PROVE <<at[i], y>> \in Nearer
  <2>1. at[i] \in Places(s)
    BY <1>5
  <2>2. (at[i][1] = f /\ at[i][2] < k) \/ TierOrder(at[i][1], f)
    BY <1>1, <1>2
  <2> QED
    BY <1>2, <1>3, <1>7, <2>1, <2>2 DEF Nearer
<1>9. Ascends(up, Nearer)
  <2> SUFFICES ASSUME NEW i \in 1..n + 1, NEW j \in 1..n + 1, i < j PROVE <<up[i], up[j]>> \in Nearer
    BY <1>5 DEF Ascends
  <2>1. CASE j <= n
    <3>1. i \in 1..n /\ j \in 1..n
      BY <1>2, <2>1
    <3>2. <<at[i], at[j]>> \in Nearer
      BY <1>1, <1>2, <3>1 DEF Firsts, Ascends
    <3> QED
      BY <1>5, <3>1, <3>2
  <2>2. CASE ~ (j <= n)
    <3>1. i \in 1..n /\ j = n + 1
      BY <1>2, <2>2
    <3> QED
      BY <1>5, <1>8, <3>1
  <2> QED
    BY <2>1, <2>2
<1>10. ASSUME NEW q \in Places(s), <<q, y>> \in Nearer PROVE q \in Range(at)
  <2>1. /\ TierOrder(q[1], f) \/ (q[1] = f /\ q[2] < k)
        /\ q[1] \in File
    BY <1>3, <1>7, <1>10 DEF Nearer
  <2>2. q[1] \notin Range(rest)
    BY <2>1, Tiers
  <2>3. ASSUME NEW o \in Waiting(p, s), q = <<f, o[1]>> PROVE FALSE
    <3>1. o[1] \in Nat /\ k <= o[1]
      BY <1>2 DEF Waiting
    <3>2. q[1] = f /\ q[2] = o[1]
      BY <2>3
    <3> QED
      BY <1>3, <2>1, <3>1, <3>2, Tiers
  <2>4. ~ (Len(ms) >= MaxRefs)
    BY <1>2, <1>3
  <2> QED
    BY <1>1, <2>2, <2>3, <2>4 DEF AllBut
<1>11. Beginning(up, Places(s), Nearer)
  <2> SUFFICES ASSUME NEW q \in Places(s), NEW j \in 1..n + 1, <<q, up[j]>> \in Nearer
               PROVE  \E i \in 1..n + 1 : up[i] = q
    BY <1>5 DEF Beginning
  <2>1. q \in Range(at)
    <3>1. CASE j <= n
      <4>0. j \in 1..n /\ DOMAIN at = 1..n
        BY <1>2, <3>1
      <4>1. j \in DOMAIN at /\ <<q, at[j]>> \in Nearer
        BY <1>5, <4>0
      <4> QED
        BY <1>1, <4>1 DEF Firsts, Beginning, Range
    <3>2. CASE ~ (j <= n)
      <4>1. j = n + 1
        BY <1>2, <3>2
      <4> QED
        BY <1>5, <1>10, <4>1
    <3> QED
      BY <3>1, <3>2
  <2>2. PICK i \in 1..n : q = at[i]
    BY <1>2, <2>1 DEF Range
  <2>3. i \in 1..n + 1
    BY <1>2
  <2> QED
    BY <1>5, <2>2, <2>3
<1>12. Firsts(up, more, s)
  <2>1. \A i \in 1..n + 1 : more[i] = RefAt(s, up[i])
    <3> SUFFICES ASSUME NEW i \in 1..n + 1 PROVE more[i] = RefAt(s, up[i])
      OBVIOUS
    <3>1. CASE i \in 1..n
      BY <1>1, <1>2, <1>5, <1>6, <3>1 DEF Firsts
    <3>2. CASE i \notin 1..n
      <4>1. i = n + 1
        BY <1>2, <3>2
      <4> QED
        BY <1>2, <1>5, <1>6, <4>1
    <3> QED
      BY <3>1, <3>2
  <2>2. n + 1 <= MaxRefs
    BY <1>2, <1>3
  <2> QED
    BY <1>6, <1>9, <1>11, <2>1, <2>2 DEF Firsts
<1>13. \A i \in 1..n + 1 : up[i][1] = f \/ TierOrder(up[i][1], f)
  <2> SUFFICES ASSUME NEW i \in 1..n + 1 PROVE up[i][1] = f \/ TierOrder(up[i][1], f)
    OBVIOUS
  <2>1. CASE i \in 1..n
    BY <1>1, <1>2, <1>5, <2>1
  <2>2. CASE i \notin 1..n
    <3>1. i = n + 1
      BY <1>2, <2>2
    <3> QED
      BY <1>3, <1>5, <3>1
  <2> QED
    BY <2>1, <2>2
<1>14. ASSUME NEW o \in Waiting(less, s)
       PROVE  /\ <<f, o[1]>> \in Places(s)
              /\ \A i \in 1..n + 1 : up[i][1] = f => up[i][2] < o[1]
  <2>1. o \in Waiting(p, s) /\ o # m
    BY DEF Waiting
  <2>2. o[1] \in Nat /\ k <= o[1] /\ o[1] # k
    BY <1>2, <2>1 DEF Waiting
  <2>3. ASSUME NEW i \in 1..n + 1, up[i][1] = f PROVE up[i][2] < o[1]
    <3>1. CASE i \in 1..n
      BY <1>1, <1>2, <1>5, <2>1, <2>3, <3>1
    <3>2. CASE i \notin 1..n
      <4>1. i = n + 1
        BY <1>2, <3>2
      <4> QED
        BY <1>3, <1>5, <2>2, <4>1
    <3> QED
      BY <3>1, <3>2
  <2> QED
    BY <1>1, <2>1, <2>3
<1>15. AllBut(up, more, s, (Range(rest) \X Nat) \cup {<<f, o[1]>> : o \in Waiting(less, s)})
  <2> SUFFICES ASSUME NEW q \in Places(s), q \notin Range(rest) \X Nat, q \notin Range(up)
               PROVE  \E o \in Waiting(less, s) : q = <<f, o[1]>>
    BY DEF AllBut
  <2>1. q \notin Range(at) /\ q # y
    <3>1. \A i \in 1..n : i \in 1..n + 1 /\ up[i] = at[i]
      BY <1>2, <1>5
    <3>2. n + 1 \in 1..n + 1 /\ DOMAIN at = 1..n
      BY <1>2
    <3>3. \A i \in 1..n + 1 : up[i] # q
      BY <1>5 DEF Range
    <3>4. q # y
      BY <1>5, <3>2, <3>3
    <3>5. \A i \in 1..n : at[i] # q
      BY <3>1, <3>3
    <3> QED
      BY <3>2, <3>4, <3>5 DEF Range
  <2>2. ~ (Len(ms) >= MaxRefs)
    BY <1>2, <1>3
  <2>3. PICK o \in Waiting(p, s) : q = <<f, o[1]>>
    BY <1>1, <2>1, <2>2 DEF AllBut
  <2>4. o # m
    BY <1>2, <2>1, <2>3
  <2>5. o \in Waiting(less, s)
    BY <2>4 DEF Waiting
  <2> QED
    BY <2>3, <2>5
<1> QED
  BY <1>5, <1>6, <1>12, <1>13, <1>14, <1>15 DEF ScannedTo

\* What waits of another symbol is still the same.
LEMMA MatchLeaves ==
    ASSUME NEW ms, NEW s, NEW f, NEW rest, NEW p, ScannedTo(ms, f, rest, p, s),
           NEW m, m[2] # s, NEW less, less = p \ {m}
    PROVE  ScannedTo(ms, f, rest, less, s)
<1>1. Waiting(less, s) = Waiting(p, s)
  BY DEF Waiting
<1> QED
  BY <1>1 DEF ScannedTo

\* When no file is left, the references are determined.
LEMMA NoLonger ==
    ASSUME TypeOK, NEW ms \in Seq(Ref), NEW ns \in Seq(Ref), NEW s,
           NEW a \in [1..Len(ms) -> Places(s)], NEW b \in [1..Len(ns) -> Places(s)],
           Firsts(a, ms, s), Firsts(b, ns, s), AllBut(b, ns, s, {})
    PROVE  Len(ms) <= Len(ns) /\ \A i \in 1..Len(ms) : i \in 1..Len(ns) => ms[i] = ns[i]
<1>1. PICK n, k, D : n = Len(ms) /\ k = Len(ns) /\ n \in Nat /\ k \in Nat /\ D = Places(s)
  OBVIOUS
<1>2. a \in Seq(D) /\ b \in Seq(D) /\ DOMAIN a = 1..n /\ DOMAIN b = 1..k
  BY <1>1, SequenceOf
<1>3. Ranking(Nearer, D)
  BY <1>1, NearerRanks
<1>4. \A i \in DOMAIN a \cap DOMAIN b : a[i] = b[i]
  <2>1. Ascends(a, Nearer) /\ Ascends(b, Nearer) /\ Beginning(a, D, Nearer) /\ Beginning(b, D, Nearer)
    BY <1>1 DEF Firsts
  <2>2. PICK aa, bb : aa = a /\ bb = b
    OBVIOUS
  <2>3. /\ aa \in Seq(D) /\ bb \in Seq(D) /\ Ascends(aa, Nearer) /\ Ascends(bb, Nearer)
        /\ Beginning(aa, D, Nearer) /\ Beginning(bb, D, Nearer)
    BY <1>2, <2>1, <2>2
  <2>4. \A i \in DOMAIN aa \cap DOMAIN bb : aa[i] = bb[i]
    BY ONLY <1>3, <2>3, SameBeginning
  <2> QED
    BY <2>2, <2>4
<1>5. n <= k
  <2>1. CASE k >= MaxRefs
    <3>1. n <= MaxRefs /\ MaxRefs \in Nat
      BY <1>1, EnrichmentAssumption DEF Firsts
    <3> QED
      BY <1>1, <2>1, <3>1
  <2>2. CASE ~ (k >= MaxRefs)
    <3> SUFFICES ASSUME k < n PROVE FALSE
      BY <1>1
    <3>1. k + 1 \in 1..n /\ a[k + 1] \in D
      BY <1>1, <1>2
    <3>2. PICK i \in 1..k : b[i] = a[k + 1]
      BY <1>1, <1>2, <2>2, <3>1 DEF AllBut, Range
    <3>3. i \in 1..n /\ i < k + 1
      BY <1>1
    <3>4. a[i] = a[k + 1] /\ <<a[i], a[k + 1]>> \in Nearer
      BY <1>1, <1>2, <1>4, <3>1, <3>2, <3>3 DEF Firsts, Ascends
    <3> QED
      BY <1>3, <3>1, <3>4 DEF Ranking
  <2> QED
    BY <2>1, <2>2
<1>6. ASSUME NEW i \in 1..n, i \in 1..k PROVE ms[i] = ns[i]
  BY <1>1, <1>2, <1>4, <1>6 DEF Firsts
<1> QED
  BY <1>1, <1>5, <1>6

LEMMA SameReferences ==
    ASSUME TypeOK, NEW ms \in Seq(Ref), NEW ns \in Seq(Ref), NEW s,
           WalkedTo(ms, <<>>, s), WalkedTo(ns, <<>>, s)
    PROVE  ms = ns
<1>0. Range(<<>>) \X Nat = {}
  BY RangeEmpty
<1>1. PICK a \in [1..Len(ms) -> Places(s)] : Firsts(a, ms, s) /\ AllBut(a, ms, s, {})
  BY <1>0 DEF WalkedTo
<1>2. PICK b \in [1..Len(ns) -> Places(s)] : Firsts(b, ns, s) /\ AllBut(b, ns, s, {})
  BY <1>0 DEF WalkedTo
<1>3. Len(ms) <= Len(ns) /\ \A i \in 1..Len(ms) : i \in 1..Len(ns) => ms[i] = ns[i]
  BY <1>1, <1>2, NoLonger
<1>4. Len(ns) <= Len(ms)
  BY <1>1, <1>2, NoLonger
<1> QED
  BY <1>3, <1>4

-----------------------------------------------------------------------------
(* Resolver v2: a reference for each entry of the index.                   *)

\* What c is put together from.
Joins(c, a, z) ==
    \A j \in DOMAIN c : (j \in DOMAIN a /\ c[j] = a[j]) \/ \E k \in DOMAIN z : c[j] = z[k]

\* Lists that have nothing twice, and nothing in common.
LEMMA OnceConcat ==
    ASSUME NEW T, NEW a \in Seq(T), NEW z \in Seq(T), Once(a), Once(z),
           \A k \in DOMAIN a, l \in DOMAIN z : a[k] # z[l], NEW c, c = a \o z
    PROVE  Once(c) /\ Joins(c, a, z)
<1>1. /\ c \in Seq(T) /\ Len(c) = Len(a) + Len(z)
      /\ \A i \in 1..Len(a) + Len(z) : c[i] = IF i <= Len(a) THEN a[i] ELSE z[i - Len(a)]
  BY ConcatProperties
<1>2. PICK n, m : n = Len(a) /\ m = Len(z) /\ n \in Nat /\ m \in Nat
  <2>1. Len(a) \in Nat /\ Len(z) \in Nat
    OBVIOUS
  <2> QED
    BY <2>1
<1>3. DOMAIN a = 1..n /\ DOMAIN z = 1..m /\ DOMAIN c = 1..n + m
  BY <1>1, <1>2
<1>4. ASSUME NEW i \in 1..n + m
      PROVE  \/ i \in 1..n /\ c[i] = a[i]
             \/ i - n \in 1..m /\ c[i] = z[i - n] /\ i \notin 1..n
  BY <1>1, <1>2
<1>5. ASSUME NEW i \in 1..n + m, NEW j \in 1..n + m, c[i] = c[j] PROVE i = j
  <2>1. CASE i \in 1..n /\ j \in 1..n
    BY <1>2, <1>3, <1>4, <1>5, <2>1 DEF Once
  <2>2. CASE i \notin 1..n /\ j \notin 1..n
    <3>1. i - n \in 1..m /\ c[i] = z[i - n] /\ j - n \in 1..m /\ c[j] = z[j - n]
      BY <1>4, <2>2
    <3>2. i - n = j - n
      BY <1>3, <1>5, <3>1 DEF Once
    <3> QED
      BY <1>2, <3>2
  <2>3. CASE i \in 1..n /\ j \notin 1..n
    BY <1>3, <1>4, <1>5, <2>3
  <2>4. CASE i \notin 1..n /\ j \in 1..n
    BY <1>3, <1>4, <1>5, <2>4
  <2> QED
    BY <2>1, <2>2, <2>3, <2>4
<1>6. Once(c)
  BY <1>3, <1>5 DEF Once
<1>7. Joins(c, a, z)
  BY <1>3, <1>4 DEF Joins
<1> QED
  BY <1>6, <1>7

LEMMA FlattenOnce ==
    ASSUME NEW T, NEW s \in Texts(T), \A i \in DOMAIN s : Once(s[i]),
           \A i, j \in DOMAIN s : i # j =>
              \A k \in DOMAIN s[i], l \in DOMAIN s[j] : s[i][k] # s[j][l]
    PROVE  Once(FlattenSeq(s))
<1>1. PICK n : n = Len(s) /\ n \in Nat /\ DOMAIN s = 1..n
  BY DEF Texts
<1>2. PICK f \in [0..n -> Seq(T)] : IsFlattening(f, s) /\ FlattenSeq(s) = f[n]
  BY <1>1, FlatteningExists, FlatteningIs
<1> DEFINE From(m) == \A j \in DOMAIN f[m] : \E i \in 1..m : \E k \in DOMAIN s[i] : f[m][j] = s[i][k]
           S == {m \in 0..n : From(m) /\ Once(f[m])}
<1>3. 0 \in S
  <2>1. f[0] = <<>> /\ DOMAIN f[0] = {} /\ 0 \in 0..n
    BY <1>1, <1>2 DEF IsFlattening
  <2> QED
    BY <2>1 DEF Once
<1>4. ASSUME NEW m \in 1..n, m - 1 \in S PROVE m \in S
  <2>1. /\ f[m - 1] \in Seq(T) /\ s[m] \in Seq(T) /\ m \in 0..n
        /\ f[m] = f[m - 1] \o s[m]
    <3>1. m - 1 \in 0..n /\ m \in 0..n /\ m \in 1..Len(s)
      BY <1>1
    <3>2. f[m] = f[m - 1] \o s[m]
      BY <1>2, <3>1 DEF IsFlattening
    <3>3. s[m] \in Seq(T)
      BY <3>1 DEF Texts
    <3> QED
      BY <1>2, <3>1, <3>2, <3>3
  <2>0. PICK a \in Seq(T), z \in Seq(T) : f[m - 1] = a /\ s[m] = z
    BY <2>1
  <2>2. PICK c : f[m - 1] = a /\ s[m] = z /\ f[m] = c
    BY <2>0
  <2>3. a \in Seq(T) /\ z \in Seq(T) /\ c = a \o z
    BY <2>1, <2>2
  <2>4. \A j \in DOMAIN a : \E i \in 1..(m - 1) : \E k \in DOMAIN s[i] : a[j] = s[i][k]
    BY <1>4, <2>2
  <2>5. Once(a) /\ Once(z)
    BY <1>1, <1>4, <2>2
  <2>6. ASSUME NEW j \in DOMAIN a, NEW l \in DOMAIN z PROVE a[j] # z[l]
    <3>1. PICK i \in 1..(m - 1) : \E k \in DOMAIN s[i] : a[j] = s[i][k]
      BY <2>4
    <3>2. i \in DOMAIN s /\ m \in DOMAIN s /\ i # m
      BY <1>1
    <3>3. PICK k \in DOMAIN s[i] : a[j] = s[i][k]
      BY <3>1
    <3> QED
      BY <2>2, <3>2, <3>3
  <2>7. Once(c) /\ Joins(c, a, z)
    BY ONLY <2>3, <2>5, <2>6, OnceConcat
  <2>9. ASSUME NEW j \in DOMAIN c PROVE \E i \in 1..m : \E k \in DOMAIN s[i] : c[j] = s[i][k]
    <3>1. CASE j \in DOMAIN a /\ c[j] = a[j]
      <4>1. j \in DOMAIN a /\ c[j] = a[j]
        BY <3>1
      <4>2. PICK i \in 1..(m - 1) : \E l \in DOMAIN s[i] : a[j] = s[i][l]
        BY <2>4, <4>1
      <4>3. i \in 1..m
        BY <1>1
      <4> QED
        BY <4>1, <4>2, <4>3
    <3>2. CASE \E k \in DOMAIN z : c[j] = z[k]
      <4>1. m \in 1..m
        BY <1>1
      <4> QED
        BY <2>2, <3>2, <4>1
    <3> QED
      BY <2>7, <3>1, <3>2 DEF Joins
  <2> QED
    BY <2>1, <2>2, <2>7, <2>9
<1>5. \A m \in 0..n : m \in S
  <2> HIDE DEF S
  <2> QED
    BY <1>1, <1>3, <1>4, InductionUpTo
<1>6. n \in S
  <2> HIDE DEF S
  <2> QED
    BY <1>1, <1>5
<1> QED
  BY <1>2, <1>6

\* The lines of the index that define s.
Entries(s) ==
    {m \in UNION {{f} \X (DOMAIN idx[f]) : f \in DOMAIN idx} : s \in idx[m[1]][m[2]].def}
LocationOf(s, m) == [sym |-> s, file |-> m[1], line |-> m[2]]

\* One reference for each of them, but for those that are still listed.
ReadTo(ms, locs, s) ==
    \E at \in [1..Len(ms) -> Entries(s)] :
        /\ \A i, j \in 1..Len(ms) : at[i] = at[j] => i = j
        /\ \A i \in 1..Len(ms) : ms[i].file = at[i][1] /\ LocationOf(s, at[i]) \notin Range(locs)
        /\ \A m \in Entries(s) : m \in Range(at) \/ LocationOf(s, m) \in Range(locs)

LEMMA EntriesType ==
    ASSUME TypeOK, NEW s
    PROVE  /\ Entries(s) \subseteq File \X Nat
           /\ \A m : m \in Entries(s) <=>
                 \E f \in DOMAIN idx : \E n \in DOMAIN idx[f] : m = <<f, n>> /\ s \in idx[f][n].def
<1>1. \A m : m \in Entries(s) <=>
                 \E f \in DOMAIN idx : \E n \in DOMAIN idx[f] : m = <<f, n>> /\ s \in idx[f][n].def
  BY DEF Entries
<1>2. ASSUME NEW f \in DOMAIN idx, NEW n \in DOMAIN idx[f] PROVE f \in File /\ n \in Nat
  BY IndexLines
<1> QED
  BY <1>1, <1>2

LEMMA ReadStays ==
    ASSUME idx' = idx
    PROVE  /\ \A ms, locs, s : ReadTo(ms, locs, s)' <=> ReadTo(ms, locs, s)
           /\ FewDefs' <=> FewDefs
<1>1. \A s : Entries(s)' = Entries(s)
  BY DEF Entries
<1>2. \A s, m : LocationOf(s, m)' = LocationOf(s, m)
  BY DEF LocationOf
<1> QED
  BY <1>1, <1>2 DEF ReadTo, FewDefs

\* DefsIn lists each line of a file that defines s, once.
LEMMA DefsInOnce ==
    ASSUME TypeOK, NEW f \in DOMAIN idx, NEW s \in Symbol
    PROVE  /\ Once(DefsIn(f, s))
           /\ \A x : x \in Range(DefsIn(f, s)) <=>
                 \E n \in DOMAIN idx[f] : s \in idx[f][n].def /\ x = LocationOf(s, <<f, n>>)
<1>1. PICK parts, flat : parts = DefLines(f, s) /\ flat = FlattenSeq(parts)
  OBVIOUS
<1>2. /\ parts \in Texts(Location) /\ DefsIn(f, s) = flat
      /\ DOMAIN parts = DOMAIN idx[f] /\ \A n \in DOMAIN idx[f] : parts[n] = DefAt(f, s, n)
  BY <1>1, DefLinesType, DefsInType DEF DefLines
<1>3. \A n \in DOMAIN idx[f] :
         IF s \in idx[f][n].def THEN parts[n] = <<LocationOf(s, <<f, n>>)>> ELSE parts[n] = <<>>
  BY <1>2 DEF DefAt, LocationOf
<1>4. ASSUME NEW n \in DOMAIN idx[f], NEW k \in DOMAIN parts[n]
      PROVE  s \in idx[f][n].def /\ k = 1 /\ parts[n][k] = LocationOf(s, <<f, n>>)
  BY <1>3
<1>5. ASSUME NEW n \in DOMAIN parts PROVE Once(parts[n])
  <2>1. \A k \in DOMAIN parts[n] : k = 1
    BY <1>2, <1>4
  <2> QED
    BY <2>1 DEF Once
<1>6. ASSUME NEW n \in DOMAIN parts, NEW m \in DOMAIN parts, n # m,
             NEW k \in DOMAIN parts[n], NEW l \in DOMAIN parts[m], parts[n][k] = parts[m][l]
      PROVE  FALSE
  <2>1. LocationOf(s, <<f, n>>) = LocationOf(s, <<f, m>>)
    BY <1>2, <1>4, <1>6
  <2>2. LocationOf(s, <<f, n>>).line = n /\ LocationOf(s, <<f, m>>).line = m
    BY DEF LocationOf
  <2> QED
    BY <1>6, <2>1, <2>2
<1>7. Once(flat)
  BY <1>1, <1>2, <1>5, <1>6, FlattenOnce
<1>8. ASSUME NEW x \in Range(flat)
      PROVE  \E n \in DOMAIN idx[f] : s \in idx[f][n].def /\ x = LocationOf(s, <<f, n>>)
  <2>1. PICK n \in DOMAIN parts : \E k \in DOMAIN parts[n] : x = parts[n][k]
    BY <1>1, <1>2, <1>8, FlattenElements DEF Range
  <2> QED
    BY <1>2, <1>4, <2>1
<1>9. ASSUME NEW n \in DOMAIN idx[f], s \in idx[f][n].def
      PROVE  LocationOf(s, <<f, n>>) \in Range(flat)
  <2>1. PICK x : x = LocationOf(s, <<f, n>>)
    OBVIOUS
  <2>2. 1 \in DOMAIN parts[n] /\ parts[n][1] = x
    BY <1>3, <1>9, <2>1
  <2>3. PICK j \in DOMAIN flat : flat[j] = parts[n][1]
    BY <1>1, <1>2, <2>2, FlattenElements
  <2> QED
    BY <2>1, <2>2, <2>3 DEF Range
<1> QED
  BY <1>2, <1>7, <1>8, <1>9

\* LookupDefs lists each entry of s, once.
LEMMA LookupOnce ==
    ASSUME TypeOK, NEW order \in SetToSeqs(DOMAIN idx), NEW s \in Symbol
    PROVE  /\ Once(LookupDefs(order, s))
           /\ \A x : x \in Range(LookupDefs(order, s)) <=> \E m \in Entries(s) : x = LocationOf(s, m)
<1>1. PICK parts, flat : parts = DefFiles(order, s) /\ flat = FlattenSeq(parts)
  OBVIOUS
<1>2. /\ parts \in Texts(Location) /\ LookupDefs(order, s) = flat
      /\ DOMAIN parts = DOMAIN order /\ \A i \in DOMAIN order : parts[i] = DefsIn(order[i], s)
  BY <1>1, DefFilesType, LookupDefsType DEF DefFiles
<1>3. /\ \A i \in DOMAIN order : order[i] \in DOMAIN idx
      /\ \A f \in DOMAIN idx : \E i \in DOMAIN order : order[i] = f
      /\ \A i, j \in DOMAIN order : order[i] = order[j] => i = j
  <2>1. IsFiniteSet(DOMAIN idx)
    <3>1. DOMAIN idx \subseteq File
      BY EnrichmentAssumption DEF TypeOK
    <3> QED
      BY <3>1, FS_Subset, EnrichmentAssumption
  <2>2. Range(order) = DOMAIN idx /\ \A i, j \in DOMAIN order : order[i] = order[j] => i = j
    BY <2>1, Listing
  <2> QED
    BY <2>2 DEF Range
<1>4. ASSUME NEW i \in DOMAIN parts
      PROVE  /\ Once(parts[i])
             /\ \A x : x \in Range(parts[i]) <=>
                   \E n \in DOMAIN idx[order[i]] :
                       s \in idx[order[i]][n].def /\ x = LocationOf(s, <<order[i], n>>)
  <2>1. PICK f \in DOMAIN idx : f = order[i]
    BY <1>2, <1>3
  <2>2. parts[i] = DefsIn(f, s)
    BY <1>2, <2>1
  <2>3. /\ Once(DefsIn(f, s))
        /\ \A x : x \in Range(DefsIn(f, s)) <=>
              \E n \in DOMAIN idx[f] : s \in idx[f][n].def /\ x = LocationOf(s, <<f, n>>)
    BY DefsInOnce
  <2> QED
    BY <2>1, <2>2, <2>3
<1>5. ASSUME NEW i \in DOMAIN parts, NEW j \in DOMAIN parts, i # j,
             NEW k \in DOMAIN parts[i], NEW l \in DOMAIN parts[j], parts[i][k] = parts[j][l]
      PROVE  FALSE
  <2>1. parts[i][k] \in Range(parts[i]) /\ parts[j][l] \in Range(parts[j])
    BY DEF Range
  <2>2. parts[i][k].file = order[i] /\ parts[j][l].file = order[j]
    BY <1>4, <2>1 DEF LocationOf
  <2> QED
    BY <1>2, <1>3, <1>5, <2>2
<1>6. Once(flat)
  BY <1>1, <1>2, <1>4, <1>5, FlattenOnce
<1>7. ASSUME NEW x \in Range(flat) PROVE \E m \in Entries(s) : x = LocationOf(s, m)
  <2>1. PICK i \in DOMAIN parts : \E k \in DOMAIN parts[i] : x = parts[i][k]
    BY <1>1, <1>2, <1>7, FlattenElements DEF Range
  <2>2. x \in Range(parts[i])
    BY <2>1 DEF Range
  <2>3. PICK n \in DOMAIN idx[order[i]] :
            s \in idx[order[i]][n].def /\ x = LocationOf(s, <<order[i], n>>)
    BY <1>4, <2>2
  <2>4. PICK m : m = <<order[i], n>>
    OBVIOUS
  <2>5. m \in Entries(s)
    BY <1>2, <1>3, <2>3, <2>4, EntriesType
  <2> QED
    BY <2>3, <2>4, <2>5
<1>8. ASSUME NEW m \in Entries(s) PROVE LocationOf(s, m) \in Range(flat)
  <2>1. PICK f \in DOMAIN idx : \E n \in DOMAIN idx[f] : m = <<f, n>> /\ s \in idx[f][n].def
    BY EntriesType
  <2>2. PICK n \in DOMAIN idx[f] : m = <<f, n>> /\ s \in idx[f][n].def
    BY <2>1
  <2>3. PICK i \in DOMAIN parts : order[i] = f
    BY <1>2, <1>3
  <2>4. PICK x : x = LocationOf(s, m)
    OBVIOUS
  <2>5. x \in Range(parts[i])
    BY <1>4, <2>2, <2>3, <2>4
  <2>6. PICK k \in DOMAIN parts[i] : x = parts[i][k]
    BY <2>5 DEF Range
  <2>7. PICK j \in DOMAIN flat : flat[j] = parts[i][k]
    BY <1>1, <1>2, FlattenElements
  <2> QED
    BY <2>4, <2>6, <2>7 DEF Range
<1> QED
  BY <1>2, <1>6, <1>7, <1>8

LEMMA EntriesFinite ==
    ASSUME TypeOK, NEW s
    PROVE  IsFiniteSet(Entries(s)) /\ Cardinality(Entries(s)) \in Nat
<1>1. PICK D : D = DOMAIN idx /\ D \in SUBSET File
  BY EnrichmentAssumption DEF TypeOK
<1>2. IsFiniteSet(D)
  BY <1>1, FS_Subset, EnrichmentAssumption
<1>3. PICK L : L = [f \in D |-> {f} \X (DOMAIN idx[f])]
  OBVIOUS
<1>4. PICK parts : parts = {L[f] : f \in D}
  OBVIOUS
<1>5. IsFiniteSet(parts)
  <2>1. L \in Surjection(D, parts)
    BY <1>3, <1>4 DEF Surjection
  <2> QED
    BY <1>2, <2>1, FS_Surjection
<1>6. ASSUME NEW S \in parts PROVE IsFiniteSet(S)
  <2>1. PICK f \in D : S = {f} \X (DOMAIN idx[f])
    BY <1>3, <1>4
  <2>2. IsFiniteSet(DOMAIN idx[f]) /\ IsFiniteSet({f})
    BY <1>1, IndexLines, FS_Singleton
  <2> QED
    BY <2>1, <2>2, FS_Product
<1>7. IsFiniteSet(UNION parts)
  BY <1>5, <1>6, FS_UNION
<1>8. Entries(s) \in SUBSET (UNION parts)
  <2>1. \A f \in D : L[f] = {f} \X (DOMAIN idx[f])
    BY <1>3
  <2>2. UNION parts = UNION {{f} \X (DOMAIN idx[f]) : f \in DOMAIN idx}
    BY <1>1, <1>4, <2>1
  <2> QED
    BY <2>2 DEF Entries
<1> QED
  BY <1>7, <1>8, FS_Subset, FS_CardinalityType

\* With few definitions, none of them is cut off.
LEMMA LookupFits ==
    ASSUME TypeOK, FewDefs, NEW order \in SetToSeqs(DOMAIN idx), NEW s \in Symbol
    PROVE  FirstOnes(LookupDefs(order, s), MaxRefs) = LookupDefs(order, s)
<1>1. PICK q : q = LookupDefs(order, s) /\ q \in Seq(Location)
  BY LookupDefsType
<1>2. PICK n : n = Len(q) /\ n \in Nat /\ DOMAIN q = 1..n
  BY <1>1
<1>3. PICK D, E : D = 1..n /\ E = Entries(s)
  OBVIOUS
<1>4. PICK at : at = [i \in D |-> <<q[i].file, q[i].line>>]
  OBVIOUS
<1>5. ASSUME NEW i \in D PROVE at[i] \in E /\ q[i] = LocationOf(s, at[i])
  <2>1. q[i] \in Range(q)
    BY <1>2, <1>3 DEF Range
  <2>2. PICK m \in E : q[i] = LocationOf(s, m)
    BY <1>1, <1>3, <2>1, LookupOnce
  <2>3. m = <<m[1], m[2]>> /\ q[i].file = m[1] /\ q[i].line = m[2]
    BY <1>3, <2>2, EntriesType DEF LocationOf
  <2> QED
    BY <1>4, <2>2, <2>3
<1>6. \A i, j \in D : at[i] = at[j] => i = j
  BY <1>1, <1>2, <1>3, <1>5, LookupOnce DEF Once
<1>7. at \in Injection(D, E)
  BY <1>4, <1>5, <1>6 DEF Injection, IsInjective
<1>8. Cardinality(D) <= Cardinality(E) /\ Cardinality(D) = n /\ Cardinality(E) \in Nat
  <2>1. IsFiniteSet(E) /\ Cardinality(E) \in Nat
    BY <1>3, EntriesFinite
  <2>2. Cardinality(D) <= Cardinality(E)
    BY <1>7, <2>1, FS_Injection
  <2>3. Cardinality(D) = n
    <3>0. n \in Nat /\ 1 \in Int /\ n \in Int
      BY <1>2
    <3>1. Cardinality(1..n) = n
      BY ONLY <3>0, FS_Interval
    <3> QED
      BY <1>3, <3>1
  <2> QED
    BY <2>1, <2>2, <2>3
<1>9. Cardinality(E) <= MaxRefs
  BY <1>3 DEF FewDefs, Entries
<1>10. n <= MaxRefs /\ MaxRefs \in Nat
  BY <1>2, <1>8, <1>9, EnrichmentAssumption
<1>11. PICK c : c = FirstOnes(q, MaxRefs)
  OBVIOUS
<1>12. Lesser(Len(q), MaxRefs) = n
  BY <1>2, <1>10 DEF Lesser
<1>13. c \in Seq(Location) /\ Len(c) = n /\ \A i \in 1..n : c[i] = q[i]
  BY <1>1, <1>10, <1>11, <1>12, Cutting
<1>14. c = q
  BY <1>1, <1>2, <1>13
<1> QED
  BY <1>1, <1>11, <1>14

\* LoadIndex lists all the entries of all the symbols, each once.
LEMMA LoadedOnce ==
    ASSUME TypeOK, FewDefs, NEW order \in SetToSeqs(DOMAIN idx), NEW symbols \in BySymbol
    PROVE  /\ Once(FlattenSeq(DefSymbols(order, symbols)))
           /\ \A s \in Symbol : \A m \in Entries(s) :
                 LocationOf(s, m) \in Range(FlattenSeq(DefSymbols(order, symbols)))
<1>1. PICK parts, flat : parts = DefSymbols(order, symbols) /\ flat = FlattenSeq(parts)
  OBVIOUS
<1>2. /\ parts \in Texts(Location) /\ DOMAIN parts = DOMAIN symbols
      /\ \A i \in DOMAIN symbols : parts[i] = FirstOnes(LookupDefs(order, symbols[i]), MaxRefs)
  BY <1>1, DefSymbolsType DEF DefSymbols
<1>3. /\ \A i \in DOMAIN symbols : symbols[i] \in Symbol
      /\ \A s \in Symbol : \E i \in DOMAIN symbols : symbols[i] = s
      /\ \A i, j \in DOMAIN symbols : symbols[i] = symbols[j] => i = j
  <2>1. symbols \in SetToSeqs(Symbol)
    BY DEF BySymbol, Sorted
  <2>2. Range(symbols) = Symbol /\ \A i, j \in DOMAIN symbols : symbols[i] = symbols[j] => i = j
    BY <2>1, Listing, EnrichmentAssumption
  <2> QED
    BY <2>2 DEF Range
<1>4. ASSUME NEW i \in DOMAIN parts
      PROVE  /\ Once(parts[i])
             /\ \A x : x \in Range(parts[i]) <=>
                   \E m \in Entries(symbols[i]) : x = LocationOf(symbols[i], m)
  <2>1. PICK s \in Symbol : s = symbols[i]
    BY <1>2, <1>3
  <2>2. parts[i] = LookupDefs(order, s)
    BY <1>2, <2>1, LookupFits
  <2> QED
    BY <2>1, <2>2, LookupOnce
<1>5. ASSUME NEW i \in DOMAIN parts, NEW j \in DOMAIN parts, i # j,
             NEW k \in DOMAIN parts[i], NEW l \in DOMAIN parts[j], parts[i][k] = parts[j][l]
      PROVE  FALSE
  <2>1. parts[i][k] \in Range(parts[i]) /\ parts[j][l] \in Range(parts[j])
    BY DEF Range
  <2>2. parts[i][k].sym = symbols[i] /\ parts[j][l].sym = symbols[j]
    BY <1>4, <2>1 DEF LocationOf
  <2> QED
    BY <1>2, <1>3, <1>5, <2>2
<1>6. Once(flat)
  BY <1>1, <1>2, <1>4, <1>5, FlattenOnce
<1>7. ASSUME NEW s \in Symbol, NEW m \in Entries(s) PROVE LocationOf(s, m) \in Range(flat)
  <2>1. PICK i \in DOMAIN parts : symbols[i] = s
    BY <1>2, <1>3
  <2>2. PICK x : x = LocationOf(s, m)
    OBVIOUS
  <2>3. x \in Range(parts[i])
    BY <1>4, <2>1, <2>2
  <2>4. PICK k \in DOMAIN parts[i] : x = parts[i][k]
    BY <2>3 DEF Range
  <2>5. PICK j \in DOMAIN flat : flat[j] = parts[i][k]
    BY <1>1, <1>2, FlattenElements
  <2> QED
    BY <2>2, <2>4, <2>5 DEF Range
<1> QED
  BY <1>1, <1>6, <1>7

\* The location at the head is read, and is no longer listed.
LEMMA OnceTail ==
    ASSUME NEW T, NEW q \in Seq(T), q # <<>>, Once(q)
    PROVE  /\ Once(Tail(q)) /\ Head(q) \notin Range(Tail(q)) /\ Head(q) \in Range(q)
           /\ Range(q) = Range(Tail(q)) \cup {Head(q)}
<1>1. PICK n, t :
        /\ n \in Nat /\ n >= 1 /\ DOMAIN q = 1..n /\ t = Tail(q) /\ DOMAIN t = 1..n - 1
        /\ Head(q) = q[1] /\ \A i \in 1..n - 1 : t[i] = q[i + 1]
  <2>1. PICK n, t : n = Len(q) /\ t = Tail(q)
    OBVIOUS
  <2>2. /\ n \in Nat /\ n >= 1 /\ t \in Seq(T) /\ Len(t) = n - 1
        /\ Head(q) = q[1] /\ \A i \in 1..n - 1 : t[i] = q[i + 1]
    BY ONLY q \in Seq(T), q # <<>>, <2>1, First
  <2>3. DOMAIN q = 1..n /\ DOMAIN t = 1..n - 1
    BY <2>1, <2>2
  <2> QED
    BY <2>1, <2>2, <2>3
<1>2. 1 \in DOMAIN q /\ \A i \in DOMAIN t : i + 1 \in DOMAIN q /\ i + 1 # 1 /\ t[i] = q[i + 1]
  BY <1>1
<1>3. Once(t)
  <2> SUFFICES ASSUME NEW i \in DOMAIN t, NEW j \in DOMAIN t, t[i] = t[j] PROVE i = j
    BY DEF Once
  <2>1. i + 1 = j + 1
    BY <1>2 DEF Once
  <2> QED
    BY <1>1, <2>1
<1>4. q[1] \notin Range(t)
  BY <1>2 DEF Once, Range
<1>5. Range(q) = Range(t) \cup {q[1]}
  <2>1. Range(t) \cup {q[1]} \subseteq Range(q)
    BY <1>2 DEF Range
  <2>2. ASSUME NEW i \in DOMAIN q, i # 1 PROVE q[i] \in Range(t)
    <3>1. i - 1 \in DOMAIN t /\ t[i - 1] = q[i - 1 + 1] /\ i - 1 + 1 = i
      BY <1>1, <2>2
    <3> QED
      BY <3>1 DEF Range
  <2> QED
    BY <2>1, <2>2 DEF Range
<1> QED
  BY <1>1, <1>3, <1>4, <1>5

LEMMA ReadNext ==
    ASSUME TypeOK, NEW locs \in Seq(Location), locs # <<>>, Once(locs), NEW loc, loc = Head(locs),
           InIndex(loc), NEW ms \in Seq(Ref), ReadTo(ms, locs, loc.sym),
           NEW x, x.file = loc.file, NEW more, more = Append(ms, x)
    PROVE  ReadTo(more, Tail(locs), loc.sym)
<1>1. PICK s, n, rest : s = loc.sym /\ n = Len(ms) /\ n \in Nat /\ rest = Tail(locs)
  <2>1. Len(ms) \in Nat
    OBVIOUS
  <2> QED
    BY <2>1
<1>2. /\ loc \in Location /\ loc \in Range(locs) /\ loc \notin Range(rest)
      /\ Range(rest) \subseteq Range(locs) /\ Range(locs) = Range(rest) \cup {loc}
  BY <1>1, First, OnceTail
<1>3. PICK at \in [1..n -> Entries(s)] :
        /\ \A i, j \in 1..n : at[i] = at[j] => i = j
        /\ \A i \in 1..n : ms[i].file = at[i][1] /\ LocationOf(s, at[i]) \notin Range(locs)
        /\ \A m \in Entries(s) : m \in Range(at) \/ LocationOf(s, m) \in Range(locs)
  BY <1>1 DEF ReadTo
<1>4. PICK m, E : m = <<loc.file, loc.line>> /\ E = Entries(s)
  OBVIOUS
<1>5. m \in E /\ LocationOf(s, m) = loc /\ m[1] = loc.file
  <2>1. m \in E
    BY <1>1, <1>4, EntriesType DEF InIndex
  <2>2. LocationOf(s, m) = loc
    BY <1>1, <1>2, <1>4 DEF LocationOf, Location
  <2> QED
    BY <1>4, <2>1, <2>2
<1>6. ASSUME NEW i \in 1..n PROVE at[i] # m
  BY <1>2, <1>3, <1>5
<1>7. PICK up : up = [i \in 1..n + 1 |-> IF i <= n THEN at[i] ELSE m]
  OBVIOUS
<1>8. n + 1 \in 1..n + 1 /\ ~ (n + 1 <= n) /\ \A i \in 1..n : i \in 1..n + 1 /\ i <= n
  BY <1>1
<1>9. \A i \in 1..n + 1 : i \in 1..n \/ i = n + 1
  BY <1>1
<1>10. /\ up \in [1..n + 1 -> E] /\ DOMAIN up = 1..n + 1 /\ up[n + 1] = m
       /\ \A i \in 1..n : up[i] = at[i]
  BY <1>3, <1>4, <1>5, <1>7, <1>8, <1>9
<1>11. Len(more) = n + 1 /\ more[n + 1] = x /\ \A i \in 1..n : more[i] = ms[i]
  BY <1>1
<1>12. \A i, j \in 1..n + 1 : up[i] = up[j] => i = j
  BY <1>3, <1>6, <1>9, <1>10
<1>13. \A i \in 1..n + 1 : more[i].file = up[i][1] /\ LocationOf(s, up[i]) \notin Range(rest)
  BY <1>2, <1>3, <1>5, <1>9, <1>10, <1>11
<1>14. ASSUME NEW e \in E PROVE e \in Range(up) \/ LocationOf(s, e) \in Range(rest)
  <2>1. CASE e \in Range(at)
    <3>1. PICK i \in 1..n : e = at[i]
      BY <1>3, <2>1 DEF Range
    <3>2. i \in DOMAIN up /\ up[i] = e
      BY <1>8, <1>10, <3>1
    <3> QED
      BY <3>2 DEF Range
  <2>2. CASE LocationOf(s, e) = loc
    <3>1. e = <<e[1], e[2]>> /\ e[1] = loc.file /\ e[2] = loc.line
      BY <1>4, <2>2, EntriesType DEF LocationOf
    <3>2. n + 1 \in DOMAIN up /\ up[n + 1] = e
      BY <1>4, <1>8, <1>10, <3>1
    <3> QED
      BY <3>2 DEF Range
  <2> QED
    BY <1>2, <1>3, <1>4, <2>1, <2>2
<1>15. ReadTo(more, rest, s)
  BY <1>4, <1>10, <1>11, <1>12, <1>13, <1>14 DEF ReadTo
<1> QED
  BY <1>1, <1>15

LEMMA ReadOther ==
    ASSUME NEW locs \in Seq(Location), locs # <<>>, Once(locs), NEW s, Head(locs).sym # s,
           NEW ms, ReadTo(ms, locs, s)
    PROVE  ReadTo(ms, Tail(locs), s)
<1>1. PICK rest, loc : rest = Tail(locs) /\ loc = Head(locs)
  OBVIOUS
<1>2. Range(locs) = Range(rest) \cup {loc} /\ loc.sym # s
  BY <1>1, OnceTail
<1>3. \A m : LocationOf(s, m) # loc
  BY <1>2 DEF LocationOf
<1>4. \A m : LocationOf(s, m) \in Range(locs) <=> LocationOf(s, m) \in Range(rest)
  BY <1>2, <1>3
<1>5. ReadTo(ms, rest, s)
  BY <1>4 DEF ReadTo
<1> QED
  BY <1>1, <1>5

LEMMA ReadBegins ==
    ASSUME NEW locs, NEW s, \A m \in Entries(s) : LocationOf(s, m) \in Range(locs)
    PROVE  ReadTo(<<>>, locs, s)
<1>1. PICK at : at = [i \in 1..0 |-> i]
  OBVIOUS
<1>2. PICK ms : ms = <<>>
  OBVIOUS
<1>3. 1..Len(ms) = {}
  BY <1>2
<1>4. at \in [1..Len(ms) -> Entries(s)]
  BY <1>1, <1>3
<1>5. ReadTo(ms, locs, s)
  BY <1>3, <1>4 DEF ReadTo
<1> QED
  BY <1>2, <1>5

\* In the end there are as many direct candidates as the index has entries.
EntriesIn(f) == {p \in Symbol \X (File \X Nat) : p[2] \in Entries(p[1]) /\ p[2][1] = f}

LEMMA DirectCount ==
    ASSUME TypeOK, FewDefs, NEW r \in Review, NEW f, f \notin DiffFile,
           \A s \in Symbol : ReadTo(matches[r][s], <<>>, s)
    PROVE  Cardinality(Direct(r, f)) = Cardinality(EntriesIn(f))
<1> DEFINE Reads(at, s) ==
              /\ at \in [1..Len(matches[r][s]) -> Entries(s)]
              /\ \A i, j \in 1..Len(matches[r][s]) : at[i] = at[j] => i = j
              /\ \A i \in 1..Len(matches[r][s]) : matches[r][s][i].file = at[i][1]
              /\ \A m \in Entries(s) : m \in Range(at)
           A == [s \in Symbol |-> CHOOSE at : Reads(at, s)]
           D == Direct(r, f)
           E == EntriesIn(f)
           g == [d \in D |-> <<d[1], A[d[1]][d[2]]>>]
<1>1. ASSUME NEW s \in Symbol PROVE Reads(A[s], s)
  <2>1. PICK at : Reads(at, s)
    BY RangeEmpty DEF ReadTo
  <2> HIDE DEF Reads
  <2> QED
    BY <2>1
<1>2. ASSUME NEW s \in Symbol
      PROVE  /\ Len(matches[r][s]) \in Nat /\ Len(matches[r][s]) <= MaxRefs
             /\ DOMAIN matches[r][s] = 1..Len(matches[r][s])
  <2>1. PICK n : n = Len(matches[r][s]) /\ n \in Nat /\ DOMAIN matches[r][s] = 1..n
    <3>1. matches[r][s] \in Seq(Ref)
      BY Parts
    <3> QED
      BY <3>1
  <2>2. PICK at, I, X : at = A[s] /\ I = 1..n /\ X = Entries(s)
    OBVIOUS
  <2>3. at \in Injection(I, X)
    <3> HIDE DEF A
    <3> QED
      BY <1>1, <2>1, <2>2 DEF Injection, IsInjective
  <2>4. IsFiniteSet(X) /\ Cardinality(X) \in Nat
    BY <2>2, EntriesFinite
  <2>5. Cardinality(I) <= Cardinality(X)
    BY <2>3, <2>4, FS_Injection
  <2>6. n \in Nat /\ 1 \in Int /\ n \in Int
    BY <2>1
  <2>7. Cardinality(1..n) = n
    BY ONLY <2>6, FS_Interval
  <2>8. Cardinality(X) <= MaxRefs /\ MaxRefs \in Nat
    BY <2>2, EnrichmentAssumption DEF FewDefs, Entries
  <2> QED
    BY <2>1, <2>2, <2>4, <2>5, <2>7, <2>8
<1>3. \A d : d \in D <=> \E s \in Symbol : \E i \in 1..Len(matches[r][s]) :
                            d = <<s, i>> /\ matches[r][s][i].file = f
  <2>1. ASSUME NEW d \in D
        PROVE  \E s \in Symbol : \E i \in 1..Len(matches[r][s]) :
                            d = <<s, i>> /\ matches[r][s][i].file = f
    BY <1>2 DEF Direct
  <2>2. ASSUME NEW s \in Symbol, NEW i \in 1..Len(matches[r][s]), matches[r][s][i].file = f
        PROVE  <<s, i>> \in D
    <3>1. i \in 1..MaxRefs
      BY <1>2, EnrichmentAssumption
    <3> QED
      BY <1>2, <2>2, <3>1 DEF Direct
  <2> HIDE DEF D
  <2> QED
    BY <2>1, <2>2
<1>4. \A e : e \in E <=> \E s \in Symbol : \E m \in Entries(s) : e = <<s, m>> /\ m[1] = f
  BY EntriesType DEF EntriesIn
<1> HIDE DEF A, D, E
<1>5. ASSUME NEW d \in D PROVE g[d] \in E
  <2>1. PICK s \in Symbol : \E i \in 1..Len(matches[r][s]) :
                            d = <<s, i>> /\ matches[r][s][i].file = f
    BY <1>3
  <2>2. PICK i \in 1..Len(matches[r][s]) : d = <<s, i>> /\ matches[r][s][i].file = f
    BY <2>1
  <2>3. A[s][i] \in Entries(s) /\ A[s][i][1] = f /\ g[d] = <<s, A[s][i]>>
    BY <1>1, <2>2
  <2> QED
    BY <1>4, <2>3
<1>6. ASSUME NEW d \in D, NEW e \in D, g[d] = g[e] PROVE d = e
  <2>1. PICK s \in Symbol : \E i \in 1..Len(matches[r][s]) : d = <<s, i>>
    BY <1>3
  <2>2. PICK i \in 1..Len(matches[r][s]) : d = <<s, i>>
    BY <2>1
  <2>3. PICK t \in Symbol : \E j \in 1..Len(matches[r][t]) : e = <<t, j>>
    BY <1>3
  <2>4. PICK j \in 1..Len(matches[r][t]) : e = <<t, j>>
    BY <2>3
  <2>5. g[d] = <<s, A[s][i]>> /\ g[e] = <<t, A[t][j]>>
    BY <2>2, <2>4
  <2>6. s = t /\ A[s][i] = A[s][j]
    BY <1>6, <2>5
  <2> QED
    BY <1>1, <2>2, <2>4, <2>6
<1>7. ASSUME NEW e \in E PROVE \E d \in D : g[d] = e
  <2>1. PICK s \in Symbol : \E m \in Entries(s) : e = <<s, m>> /\ m[1] = f
    BY <1>4
  <2>2. PICK m \in Entries(s) : e = <<s, m>> /\ m[1] = f
    BY <2>1
  <2>3. PICK i \in 1..Len(matches[r][s]) : A[s][i] = m
    BY <1>1 DEF Range
  <2>4. PICK d : d = <<s, i>>
    OBVIOUS
  <2>5. d \in D
    BY <1>1, <1>3, <2>2, <2>3, <2>4
  <2>6. g[d] = e
    BY <2>2, <2>3, <2>4, <2>5
  <2> QED
    BY <2>5, <2>6
<1>8. g \in Bijection(D, E)
  <2>1. g \in [D -> E]
    BY <1>5
  <2> HIDE DEF g
  <2> QED
    BY <2>1, <1>6, <1>7 DEF Bijection, Injection, Surjection, IsInjective
<1>9. IsFiniteSet(D)
  BY DirectFinite DEF D
<1>10. Cardinality(D) = Cardinality(E)
  <2> HIDE DEF g
  <2> QED
    BY <1>8, <1>9, FS_Bijection DEF ExistsBijection
<1> QED
  BY <1>10 DEF D, E

LEMMA SameDirect ==
    ASSUME TypeOK, FewDefs, NEW r \in Review, NEW q \in Review, NEW f,
           \A s \in Symbol : ReadTo(matches[r][s], <<>>, s) /\ ReadTo(matches[q][s], <<>>, s)
    PROVE  Cardinality(Direct(r, f)) = Cardinality(Direct(q, f))
<1>1. CASE f \in DiffFile
  BY <1>1 DEF Direct
<1>2. CASE f \notin DiffFile
  <2>1. Cardinality(Direct(r, f)) = Cardinality(EntriesIn(f))
    BY <1>2, DirectCount
  <2>2. Cardinality(Direct(q, f)) = Cardinality(EntriesIn(f))
    BY <1>2, DirectCount
  <2> QED
    BY <2>1, <2>2
<1> QED
  BY <1>1, <1>2

-----------------------------------------------------------------------------
(* What is attached follows from what was found.                           *)

LEMMA NotEmpty == ASSUME NEW S, IsFiniteSet(S) PROVE S = {} <=> Cardinality(S) = 0
  BY FS_EmptySet

\* As many definitions in each file make the same candidates.
LEMMA SameCandidates ==
    ASSUME NEW r, NEW q, \A f : Cardinality(Direct(r, f)) = Cardinality(Direct(q, f))
    PROVE  Candidates(r) = Candidates(q)
<1>1. \A f : Direct(r, f) = {} <=> Direct(q, f) = {}
  BY DirectFinite, NotEmpty
<1>2. \A f : StrategyOf(r, f) = StrategyOf(q, f) /\ (SpokenFor(r, f) <=> SpokenFor(q, f))
  BY <1>1 DEF StrategyOf, SpokenFor
<1>3. \A f : Candidate(r, f) = Candidate(q, f)
  BY <1>2, CandidateIs
<1> QED
  BY <1>2, <1>3, CandidatesAre

LeastOf(S) == CHOOSE n \in S : \A m \in S : n <= m

LEMMA CandidatesStay ==
    ASSUME disk' = disk, idx' = idx, config' = config, NEW r, matches'[r] = matches[r]
    PROVE  Candidates(r)' = Candidates(r)
<1>1. \A f : Direct(r, f)' = Direct(r, f)
  BY DEF Direct
<1>2. \A f : Indexed(f)' <=> Indexed(f)
  BY DEF Indexed
<1>3. \A f : Uses(f)' = Uses(f) /\ Types(f)' = Types(f) /\ (IsTest(f)' <=> IsTest(f))
  BY <1>2 DEF Uses, Types, IsTest
<1>4. ASSUME NEW f PROVE Candidate(r, f)' = Candidate(r, f)
  <2>1. LinesOf(f)' = LinesOf(f)
    BY <1>3 DEF LinesOf
  <2>2. HintOf(f)' = HintOf(f)
    <3>1. HintOf(f) = IF LinesOf(f) = {} THEN 0 ELSE LeastOf(LinesOf(f))
      BY DEF HintOf, LeastOf
    <3>2. HintOf(f)' = IF LinesOf(f)' = {} THEN 0 ELSE LeastOf(LinesOf(f)')
      BY DEF HintOf, LeastOf
    <3> QED
      BY <2>1, <3>1, <3>2
  <2>3. StrategyOf(r, f)' = StrategyOf(r, f)
    BY <1>1, <1>3 DEF StrategyOf
  <2>4. Candidate(r, f)' =
          [file |-> f, strategy |-> StrategyOf(r, f)',
           n |-> Cardinality(Direct(r, f)') + Cardinality(Uses(f)')
                   + Cardinality(Types(f)') + (IF IsTest(f)' THEN 1 ELSE 0),
           hint |-> HintOf(f)',
           mtime |-> IF StrategyOf(r, f)' = "test" THEN disk'[f].mtime ELSE 0]
    BY DEF Candidate, StrategyOf, HintOf, LinesOf
  <2> QED
    BY <1>1, <1>3, <2>2, <2>3, <2>4, CandidateIs
<1> QED
  BY <1>1, <1>3, <1>4 DEF Candidates

\* Candidates are ranked: no two are equal.
LEMMA RankRanks ==
    ASSUME TypeOK, NEW r, NEW S, S = Candidates(r)
    PROVE  Ranking({p \in S \X S : RankOrder(p[1], p[2])}, S)
<1>1. ASSUME NEW a \in S
      PROVE  Score(a) \in Nat /\ a.mtime \in Nat /\ a.file \in Nat
  <2>1. a \in Ranked
    BY CandidatesType
  <2>2. a.n \in Nat /\ a.mtime \in Nat /\ a.file \in Nat
    BY <2>1, EnrichmentAssumption DEF Ranked
  <2>3. Bonus[a.strategy] \in Nat
    BY <2>1 DEF Ranked, Strategy, Bonus
  <2> QED
    BY <2>2, <2>3 DEF Score
<1>2. \A a, b \in S : a.file = b.file => a = b
  BY CandidateOf
<1> QED
  BY <1>1, <1>2 DEF Ranking, RankOrder

LEMMA SameRanked ==
    ASSUME TypeOK, NEW r, NEW a \in Sorted(Candidates(r), RankOrder),
           NEW b \in Sorted(Candidates(r), RankOrder)
    PROVE  a = b
<1>1. PICK S : S = Candidates(r)
  OBVIOUS
<1>2. PICK R : R = {p \in S \X S : RankOrder(p[1], p[2])}
  OBVIOUS
<1>3. Ranking(R, S) /\ IsFiniteSet(S)
  BY <1>1, <1>2, RankRanks, CandidatesType
<1>4. ASSUME NEW q \in Sorted(Candidates(r), RankOrder)
      PROVE  q \in SetToSeqs(S) /\ \A i, j \in DOMAIN q : i < j => <<q[j], q[i]>> \notin R
  BY <1>1, <1>2 DEF Sorted
<1> QED
  BY <1>3, <1>4, SameListing

LEMMA FitRanks ==
    ASSUME NEW T, Attachable(T), NEW refs \in Seq(T), NEW S, S = Merged(refs)
    PROVE  Ranking({p \in S \X S : FitOrder(p[1], p[2])}, S)
<1>1. ASSUME NEW a \in S
      PROVE  Cardinality(a.syms) \in Nat /\ a.excerpt.bytes \in Nat /\ a.file \in Nat
  <2>1. a \in Input
    BY MergedType
  <2>2. a.syms \in SUBSET Symbol /\ a.excerpt.bytes \in Nat /\ a.file \in Nat
    BY <2>1, EnrichmentAssumption DEF Input, Excerpt
  <2>3. Cardinality(a.syms) \in Nat
    BY <2>2, EnrichmentAssumption, FS_Subset, FS_CardinalityType
  <2> QED
    BY <2>2, <2>3
<1>2. \A a, b \in S : a.file = b.file => a = b
  BY MergedElement
<1>3. ASSUME NEW a \in S, NEW b \in S, a # b PROVE FitOrder(a, b) \/ FitOrder(b, a)
  <2>1. a.file # b.file
    BY <1>2, <1>3
  <2> QED
    BY <1>1, <2>1 DEF FitOrder
<1>4. ASSUME NEW a \in S, NEW b \in S PROVE ~ (FitOrder(a, b) /\ FitOrder(b, a))
  BY <1>1 DEF FitOrder
<1> QED
  BY <1>3, <1>4 DEF Ranking

LEMMA SameInputs ==
    ASSUME NEW T, Attachable(T), NEW refs \in Seq(T),
           NEW a \in Sorted(Merged(refs), FitOrder), NEW b \in Sorted(Merged(refs), FitOrder)
    PROVE  a = b
<1>1. PICK S : S = Merged(refs)
  OBVIOUS
<1>2. PICK R : R = {p \in S \X S : FitOrder(p[1], p[2])}
  OBVIOUS
<1>3. Ranking(R, S) /\ IsFiniteSet(S)
  BY <1>1, <1>2, FitRanks, MergedType
<1>4. ASSUME NEW q \in Sorted(Merged(refs), FitOrder)
      PROVE  q \in SetToSeqs(S) /\ \A i, j \in DOMAIN q : i < j => <<q[j], q[i]>> \notin R
  BY <1>1, <1>2 DEF Sorted
<1> QED
  BY <1>3, <1>4, SameListing

-----------------------------------------------------------------------------
(* The loops that spend the budget.                                        *)

\* What a round is offered, x being what there is so far and what it costs.
Take(o, x) ==
    IF x[2] + o.cost <= Budget THEN <<Append(x[1], o.item), x[2] + o.cost>> ELSE x

\* What there is after n rounds.
Spending(offers, n, x) ==
    \E F : /\ F[0] = <<<<>>, 0>> /\ F[n] = x
           /\ \A i \in 1..n : F[i] = Take(offers[i], F[i - 1])

LEMMA SpendingNone == ASSUME NEW offers PROVE Spending(offers, 0, <<<<>>, 0>>)
<1>1. PICK F : F = [i \in {0} |-> <<<<>>, 0>>]
  OBVIOUS
<1>2. F[0] = <<<<>>, 0>> /\ \A i \in 1..0 : F[i] = Take(offers[i], F[i - 1])
  BY <1>1
<1> QED
  BY <1>2 DEF Spending

LEMMA SpendingMore ==
    ASSUME NEW offers, NEW n \in Nat, NEW x, Spending(offers, n, x)
    PROVE  Spending(offers, n + 1, Take(offers[n + 1], x))
<1>1. PICK F : /\ F[0] = <<<<>>, 0>> /\ F[n] = x
               /\ \A i \in 1..n : F[i] = Take(offers[i], F[i - 1])
  BY DEF Spending
<1>2. PICK y : y = Take(offers[n + 1], x)
  OBVIOUS
<1>3. PICK G : G = [i \in 0..n + 1 |-> IF i = n + 1 THEN y ELSE F[i]]
  OBVIOUS
<1>4. \A i \in 0..n : G[i] = F[i]
  BY <1>3
<1>5. G[n + 1] = y /\ G[0] = <<<<>>, 0>>
  BY <1>1, <1>3
<1>6. ASSUME NEW i \in 1..n + 1 PROVE G[i] = Take(offers[i], G[i - 1])
  <2>1. CASE i = n + 1
    <3>1. i - 1 = n /\ n \in 0..n
      BY <2>1
    <3>2. G[i - 1] = x
      BY <1>1, <1>4, <3>1
    <3> QED
      BY <1>2, <1>5, <2>1, <3>2
  <2>2. CASE i # n + 1
    <3>1. i \in 1..n /\ i \in 0..n /\ i - 1 \in 0..n
      BY <2>2
    <3> QED
      BY <1>1, <1>4, <3>1
  <2> QED
    BY <2>1, <2>2
<1> QED
  BY <1>2, <1>5, <1>6 DEF Spending

LEMMA SpendingSame ==
    ASSUME NEW offers, NEW n \in Nat, NEW x, NEW y,
           Spending(offers, n, x), Spending(offers, n, y)
    PROVE  x = y
<1>1. PICK F : /\ F[0] = <<<<>>, 0>> /\ F[n] = x
               /\ \A i \in 1..n : F[i] = Take(offers[i], F[i - 1])
  BY DEF Spending
<1>2. PICK G : /\ G[0] = <<<<>>, 0>> /\ G[n] = y
               /\ \A i \in 1..n : G[i] = Take(offers[i], G[i - 1])
  BY DEF Spending
<1> DEFINE S == {i \in 0..n : F[i] = G[i]}
<1>3. 0 \in S
  BY <1>1, <1>2
<1>4. ASSUME NEW i \in 1..n, i - 1 \in S PROVE i \in S
  BY <1>1, <1>2, <1>4
<1>5. \A i \in 0..n : i \in S
  <2> HIDE DEF S
  <2> QED
    BY <1>3, <1>4, InductionUpTo
<1>6. n \in S
  <2> HIDE DEF S
  <2> QED
    BY <1>5
<1> QED
  BY <1>1, <1>2, <1>6

\* The loop over list has rest left of it.
Midway(list, offers, rest, x) ==
    \E n \in Nat :
        /\ Len(list) = n + Len(rest)
        /\ \A i \in 1..Len(rest) : rest[i] = list[n + i]
        /\ Spending(offers, n, x)

LEMMA MidwayBegins ==
    ASSUME NEW T, NEW list \in Seq(T), NEW offers
    PROVE  Midway(list, offers, list, <<<<>>, 0>>)
<1>1. 0 \in Nat /\ Len(list) = 0 + Len(list) /\ \A i \in 1..Len(list) : list[i] = list[0 + i]
  OBVIOUS
<1> QED
  BY <1>1, SpendingNone DEF Midway

LEMMA MidwayNext ==
    ASSUME NEW T, NEW list \in Seq(T), NEW offers, NEW rest \in Seq(T), rest # <<>>,
           NEW x, Midway(list, offers, rest, x),
           NEW o, \A i \in DOMAIN list : list[i] = Head(rest) => offers[i] = o
    PROVE  Midway(list, offers, Tail(rest), Take(o, x))
<1>1. PICK n \in Nat :
        /\ Len(list) = n + Len(rest)
        /\ \A i \in 1..Len(rest) : rest[i] = list[n + i]
        /\ Spending(offers, n, x)
  BY DEF Midway
<1>2. PICK m, t, k : m = Len(rest) /\ t = Tail(rest) /\ k = n + 1
  OBVIOUS
<1>3. /\ m \in Nat /\ m >= 1 /\ Len(t) = m - 1 /\ Head(rest) = rest[1]
      /\ \A i \in 1..m - 1 : t[i] = rest[i + 1]
  BY ONLY rest \in Seq(T), rest # <<>>, <1>2, First
<1>4. k \in DOMAIN list /\ list[k] = Head(rest)
  <2>1. DOMAIN list = 1..n + m
    BY <1>1, <1>2
  <2>2. 1 \in 1..m /\ k \in 1..n + m
    BY <1>2, <1>3
  <2> QED
    BY <1>1, <1>2, <1>3, <2>1, <2>2
<1>5. Spending(offers, k, Take(o, x))
  <2>1. offers[k] = o
    BY <1>4
  <2> QED
    BY <1>1, <1>2, <2>1, SpendingMore
<1>6. Len(list) = k + Len(t) /\ k \in Nat
  BY <1>1, <1>2, <1>3
<1>7. ASSUME NEW i \in 1..Len(t) PROVE t[i] = list[k + i]
  <2>1. i + 1 \in 1..m /\ i \in 1..m - 1 /\ n + (i + 1) = k + i
    BY <1>2, <1>3
  <2> QED
    BY <1>1, <1>2, <1>3, <2>1
<1>8. Midway(list, offers, t, Take(o, x))
  BY <1>5, <1>6, <1>7 DEF Midway
<1> QED
  BY <1>2, <1>8

LEMMA MidwaySame ==
    ASSUME NEW T, NEW list \in Seq(T), NEW offers, NEW x, NEW y,
           Midway(list, offers, <<>>, x), Midway(list, offers, <<>>, y)
    PROVE  x = y
<1>1. PICK n \in Nat : Len(list) = n + Len(<<>>) /\ Spending(offers, n, x)
  BY DEF Midway
<1>2. PICK k \in Nat : Len(list) = k + Len(<<>>) /\ Spending(offers, k, y)
  BY DEF Midway
<1>3. n = k
  BY <1>1, <1>2
<1> QED
  BY <1>1, <1>2, <1>3, SpendingSame

\* What Pack is offered for a candidate, and AttachReferenced for an input.  A
\* file that is gone is not to be had.
ExcerptOf(c) == ExcerptFor(c, disk[c.file].lines)
OfferOf(c) ==
    [item |-> PackedAs(c, ExcerptOf(c)),
     cost |-> IF c.file \in DOMAIN disk THEN Cost(ExcerptOf(c)) ELSE Budget + 1]
OfferIn(x) == [item |-> x, cost |-> Cost(x.excerpt)]
Offered(list) == [i \in DOMAIN list |-> OfferOf(list[i])]
OfferedIn(list) == [i \in DOMAIN list |-> OfferIn(list[i])]

LEMMA OffersStay ==
    ASSUME disk' = disk
    PROVE  \A list : Offered(list)' = Offered(list)
<1>1. \A c : ExcerptOf(c)' = ExcerptOf(c)
  BY DEF ExcerptOf
<1>3. \A c : OfferOf(c)' = OfferOf(c)
  BY <1>1 DEF OfferOf
<1> QED
  BY <1>3 DEF Offered

\* A round of the loops.
LEMMA PackTakes ==
    ASSUME TypeOK, NEW r \in Review, Pack(r) \/ PackFails(r), failed'[r] = {},
           NEW c, c = Head(todo[r])
    PROVE  /\ <<packed'[r], used'[r]>> = Take(OfferOf(c), <<packed[r], used[r]>>)
           /\ todo'[r] = Tail(todo[r])
<1>1. used[r] \in Nat /\ Budget \in Nat
  BY Parts, EnrichmentAssumption
<1>2. todo'[r] = Tail(todo[r])
  BY PackIs, Parts
<1>5. \/ /\ packed'[r] = packed[r] /\ used'[r] = used[r]
         /\ c.file \in DOMAIN disk => ~ Fits(r, ExcerptOf(c))
      \/ /\ c.file \in DOMAIN disk
         /\ Fits(r, ExcerptOf(c))
         /\ packed'[r] = Append(packed[r], PackedAs(c, ExcerptOf(c)))
         /\ used'[r] = used[r] + Cost(ExcerptOf(c))
  <2>1. PICK x : x = ExcerptOf(c)
    OBVIOUS
  <2>2. c.file \notin failed'[r]
    OBVIOUS
  <2>3. \/ /\ UNCHANGED <<packed, used>>
           /\ c.file \notin failed'[r] /\ c.file \in DOMAIN disk => ~ Fits(r, x)
        \/ /\ c.file \in DOMAIN disk
           /\ \E e \in Excerpt :
                /\ Fits(r, e)
                /\ packed' = [packed EXCEPT ![r] = Append(@, PackedAs(c, e))]
                /\ used' = [used EXCEPT ![r] = @ + Cost(e)]
                /\ c.file \notin failed'[r] => e = x
    BY <2>1, PackIs DEF ExcerptOf
  <2>4. CASE UNCHANGED <<packed, used>> /\ (c.file \in DOMAIN disk => ~ Fits(r, x))
    BY <2>1, <2>4
  <2>5. CASE /\ c.file \in DOMAIN disk /\ Fits(r, x)
             /\ packed' = [packed EXCEPT ![r] = Append(@, PackedAs(c, x))]
             /\ used' = [used EXCEPT ![r] = @ + Cost(x)]
    BY <2>1, <2>5, Parts
  <2> QED
    BY <2>2, <2>3, <2>4, <2>5
<1>3. CASE c.file \in DOMAIN disk
  <2>1. OfferOf(c).item = PackedAs(c, ExcerptOf(c)) /\ OfferOf(c).cost = Cost(ExcerptOf(c))
    BY <1>3 DEF OfferOf
  <2>2. CASE Fits(r, ExcerptOf(c))
    BY <1>2, <1>3, <1>5, <2>1, <2>2 DEF Take, Fits
  <2>3. CASE ~ Fits(r, ExcerptOf(c))
    BY <1>2, <1>5, <2>1, <2>3 DEF Take, Fits
  <2> QED
    BY <2>2, <2>3
<1>4. CASE c.file \notin DOMAIN disk
  <2>1. packed'[r] = packed[r] /\ used'[r] = used[r]
    BY <1>4, <1>5
  <2>2. OfferOf(c).cost = Budget + 1
    BY <1>4 DEF OfferOf
  <2> QED
    BY <1>1, <1>2, <2>1, <2>2 DEF Take
<1> QED
  BY <1>3, <1>4

LEMMA FitTakes ==
    ASSUME TypeOK, NEW r \in Review, Fit(r), NEW in, in = Head(todo[r])
    PROVE  /\ <<kept'[r], used'[r]>> = Take(OfferIn(in), <<kept[r], used[r]>>)
           /\ todo'[r] = Tail(todo[r])
<1>1. OfferIn(in).item = in /\ OfferIn(in).cost = Cost(in.excerpt)
  BY DEF OfferIn
<1>2. todo'[r] = Tail(todo[r])
  BY Parts DEF Fit
<1>3. CASE Fits(r, in.excerpt)
  <2>1. kept'[r] = Append(kept[r], in) /\ used'[r] = used[r] + Cost(in.excerpt)
    BY <1>3, Parts DEF Fit
  <2> QED
    BY <1>1, <1>2, <1>3, <2>1 DEF Take, Fits
<1>4. CASE ~ Fits(r, in.excerpt)
  <2>1. kept'[r] = kept[r] /\ used'[r] = used[r]
    BY <1>4 DEF Fit
  <2> QED
    BY <1>1, <1>2, <1>4, <2>1 DEF Take, Fits
<1> QED
  BY <1>3, <1>4

-----------------------------------------------------------------------------
(* Two reviews of one workspace attach the same.                           *)

InRank(S) == Sorted(S, RankOrder)
InFit(S) == Sorted(S, FitOrder)

\* What Repeatable speaks of: the workspace is still as it was when r began.
Comparable(r) ==
    began[r] = edits /\ failed[r] = {} /\ (config.index => Expanding /\ FewDefs)

\* The references r has found, what it has packed of the candidates they
\* make, and what it has kept of refs, are those of the workspace.
Resolved(r) ==
    \A s \in Symbol : IF config.index THEN ReadTo(matches[r][s], <<>>, s)
                                      ELSE WalkedTo(matches[r][s], <<>>, s)
Packing(r, rest, u) ==
    \E list \in InRank(Candidates(r)) : Midway(list, Offered(list), rest, <<packed[r], u>>)
Fitting(r, refs) ==
    \E list \in InFit(Merged(refs)) : Midway(list, OfferedIn(list), todo[r], <<kept[r], used[r]>>)

Claims(r) ==
    /\ pc[r] = "v1" => /\ Queue(todo[r])
                       /\ \A s \in Symbol : WalkedTo(matches[r][s], todo[r], s)
    /\ pc[r] = "scan" =>
         /\ Queue(todo[r])
         /\ \A s \in Symbol :
               ScannedTo(matches[r][s], Head(todo[r]), Tail(todo[r]), pending[r], s)
    /\ pc[r] = "v2" => /\ Once(todo[r])
                       /\ \A s \in Symbol : ReadTo(matches[r][s], todo[r], s)
    /\ pc[r] = "pack" => Resolved(r) /\ Packing(r, todo[r], used[r])
    /\ pc[r] = "fit" /\ Expanding =>
         /\ Resolved(r) /\ \E u : Packing(r, <<>>, u)
         /\ Fitting(r, packed[r])
    /\ pc[r] = "fit" /\ ~ Expanding =>
         /\ Resolved(r)
         /\ \E order \in BySymbol : Fitting(r, Inputs(Gathered(r, order)))
Traced(r) == Comparable(r) => Claims(r)

TracedInv == ShownInv /\ \A r \in Review : Traced(r)

LEMMA ComparableStays ==
    ASSUME edits' = edits, idx' = idx, config' = config, NEW r, began'[r] = began[r],
           failed[r] \subseteq failed'[r]
    PROVE  Comparable(r)' => Comparable(r)
<1>1. (FewDefs' <=> FewDefs) /\ (Expanding' <=> Expanding)
  BY ReadStays, ExpandingWaits
<1> QED
  BY <1>1 DEF Comparable

\* It is enough to look at the phase that a step leads to.
LEMMA ToWalk ==
    ASSUME disk' = disk, NEW r, pc'[r] = "v1", NEW q, todo'[r] = q, NEW M, matches'[r] = M,
           Queue(q), \A s \in Symbol : WalkedTo(M[s], q, s)
    PROVE  Claims(r)'
<1>1. Queue(q)'
  BY PlacesStay
<1>2. ASSUME NEW s \in Symbol PROVE WalkedTo(M[s], q, s)'
  <2>1. PICK ms : ms = M[s]
    OBVIOUS
  <2>2. WalkedTo(ms, q, s)'
    BY <2>1, WalkStays
  <2> QED
    BY <2>1, <2>2
<1> QED
  BY <1>1, <1>2 DEF Claims

LEMMA ToScan ==
    ASSUME disk' = disk, NEW r, pc'[r] = "scan", NEW q, todo'[r] = q, NEW M, matches'[r] = M,
           NEW p, pending'[r] = p,
           Queue(q), \A s \in Symbol : ScannedTo(M[s], Head(q), Tail(q), p, s)
    PROVE  Claims(r)'
<1>1. Queue(q)'
  BY PlacesStay
<1>2. ASSUME NEW s \in Symbol PROVE ScannedTo(M[s], Head(q), Tail(q), p, s)'
  <2>1. PICK ms, f, rest : ms = M[s] /\ f = Head(q) /\ rest = Tail(q)
    OBVIOUS
  <2>2. ScannedTo(ms, f, rest, p, s)'
    BY <2>1, WalkStays
  <2> QED
    BY <2>1, <2>2
<1> QED
  BY <1>1, <1>2 DEF Claims

LEMMA ToRead ==
    ASSUME idx' = idx, NEW r, pc'[r] = "v2", NEW q, todo'[r] = q, NEW M, matches'[r] = M,
           Once(q), \A s \in Symbol : ReadTo(M[s], q, s)
    PROVE  Claims(r)'
<1>1. ASSUME NEW s \in Symbol PROVE ReadTo(M[s], q, s)'
  <2>1. PICK ms : ms = M[s]
    OBVIOUS
  <2>2. ReadTo(ms, q, s)'
    BY <2>1, ReadStays
  <2> QED
    BY <2>1, <2>2
<1> QED
  BY <1>1 DEF Claims

LEMMA ResolvedStays ==
    ASSUME disk' = disk, idx' = idx, config' = config, NEW r, matches'[r] = matches[r]
    PROVE  /\ Resolved(r)' <=> Resolved(r)
           /\ \A order : Gathered(r, order)' = Gathered(r, order)
<1>1. ASSUME NEW s
      PROVE  /\ ReadTo(matches[r][s], <<>>, s)' <=> ReadTo(matches[r][s], <<>>, s)
             /\ WalkedTo(matches[r][s], <<>>, s)' <=> WalkedTo(matches[r][s], <<>>, s)
  <2>1. PICK ms, e : ms = matches[r][s] /\ e = <<>>
    OBVIOUS
  <2>2. /\ ReadTo(ms, e, s)' <=> ReadTo(ms, e, s)
        /\ WalkedTo(ms, e, s)' <=> WalkedTo(ms, e, s)
    BY ReadStays, WalkStays
  <2> QED
    BY <2>1, <2>2
<1>2. Resolved(r)' <=> Resolved(r)
  BY <1>1 DEF Resolved
<1>3. \A order : Gathered(r, order)' = Gathered(r, order)
  BY DEF Gathered
<1> QED
  BY <1>2, <1>3

LEMMA PackingStays ==
    ASSUME disk' = disk, idx' = idx, config' = config, NEW r, matches'[r] = matches[r],
           NEW rest, NEW u, NEW p, p = packed'[r],
           \E list \in InRank(Candidates(r)) : Midway(list, Offered(list), rest, <<p, u>>)
    PROVE  Packing(r, rest, u)'
<1>1. PICK C : C = Candidates(r)
  OBVIOUS
<1>2. Candidates(r)' = C
  BY <1>1, CandidatesStay
<1>3. PICK list \in InRank(C) : Midway(list, Offered(list), rest, <<p, u>>)
  BY <1>1
<1>4. PICK o : o = Offered(list)
  OBVIOUS
<1>5. Offered(list)' = o
  BY <1>4, OffersStay
<1> QED
  BY <1>2, <1>3, <1>4, <1>5 DEF Packing

LEMMA ToPack ==
    ASSUME disk' = disk, idx' = idx, config' = config, NEW r, matches'[r] = matches[r],
           pc'[r] = "pack", NEW q, todo'[r] = q, NEW u, used'[r] = u, NEW p, packed'[r] = p,
           Resolved(r),
           \E list \in InRank(Candidates(r)) : Midway(list, Offered(list), q, <<p, u>>)
    PROVE  Claims(r)'
<1>1. Resolved(r)'
  BY ResolvedStays
<1>2. Packing(r, q, u)'
  BY PackingStays
<1> QED
  BY <1>1, <1>2 DEF Claims

LEMMA ToFit ==
    ASSUME disk' = disk, idx' = idx, config' = config, NEW r, matches'[r] = matches[r],
           pc'[r] = "fit", Expanding, packed'[r] = packed[r], Resolved(r), NEW u, Packing(r, <<>>, u),
           NEW q, todo'[r] = q, NEW k, kept'[r] = k, NEW v, used'[r] = v,
           NEW list, list \in InFit(Merged(packed[r])), Midway(list, OfferedIn(list), q, <<k, v>>)
    PROVE  Claims(r)'
<1>1. Resolved(r)' /\ Expanding'
  BY ResolvedStays, ExpandingWaits
<1>2. Packing(r, <<>>, u)'
  <2>1. PICK e, p : e = <<>> /\ p = packed[r]
    OBVIOUS
  <2>2. Packing(r, e, u)'
    BY <2>1, PackingStays DEF Packing
  <2> QED
    BY <2>1, <2>2
<1>3. Fitting(r, packed[r])'
  BY DEF Fitting
<1> QED
  BY <1>1, <1>2, <1>3 DEF Claims

LEMMA ToFitDirectly ==
    ASSUME disk' = disk, idx' = idx, config' = config, NEW r, matches'[r] = matches[r],
           pc'[r] = "fit", ~ Expanding, Resolved(r), NEW order \in BySymbol,
           NEW q, todo'[r] = q, NEW k, kept'[r] = k, NEW v, used'[r] = v,
           NEW list, list \in InFit(Merged(Inputs(Gathered(r, order)))),
           Midway(list, OfferedIn(list), q, <<k, v>>)
    PROVE  Claims(r)'
<1>1. Resolved(r)' /\ ~ Expanding'
  BY ResolvedStays, ExpandingWaits
<1>2. PICK refs : refs = Inputs(Gathered(r, order))
  OBVIOUS
<1>3. Inputs(Gathered(r, order))' = refs
  BY <1>2, ResolvedStays
<1>4. Fitting(r, Inputs(Gathered(r, order)))'
  BY <1>2, <1>3 DEF Fitting
<1> QED
  BY <1>1, <1>4 DEF Claims

\* The steps of v1.
LEMMA WalkTraced ==
    ASSUME ShownInv, NEW r \in Review, Walk(r), failed'[r] = {} PROVE Claims(r)'
<1>1. TypeOK /\ Shown(r)
  BY DEF ShownInv, KeptInv
<1>0. PICK unlisted \in SUBSET (MayFail \cap DOMAIN disk) :
        /\ failed' = [failed EXCEPT ![r] = unlisted]
        /\ \E files \in Sorted((Walked \cap DOMAIN disk) \ unlisted, TierOrder) :
             todo' = [todo EXCEPT ![r] = files]
  BY DEF Walk
<1>2. PICK files \in Sorted(Walked \cap DOMAIN disk, TierOrder) : todo' = [todo EXCEPT ![r] = files]
  <2>1. unlisted = {}
    BY <1>0, <1>1, Parts
  <2>2. (Walked \cap DOMAIN disk) \ unlisted = Walked \cap DOMAIN disk
    BY <2>1
  <2> QED
    BY <1>0, <2>2
<1>3. /\ pc[r] = "start" /\ pc'[r] = "v1" /\ todo'[r] = files
      /\ matches'[r] = matches[r] /\ disk' = disk
  BY <1>1, <1>2, Parts DEF Walk, world
<1>4. \A s \in Symbol : WalkedTo(matches[r][s], files, s)
  <2>1. \A s \in Symbol : matches[r][s] = <<>>
    BY <1>1, <1>3 DEF Shown
  <2> QED
    BY <1>1, <2>1, WalkBegins
<1>5. Queue(files)
  BY <1>1, WalkBegins
<1> QED
  BY <1>3, <1>4, <1>5, ToWalk

LEMMA ScanTraced ==
    ASSUME ShownInv, NEW r \in Review, Claims(r), Scan(r) \/ ScanFails(r), failed'[r] = {}
    PROVE  Claims(r)'
<1>1. TypeOK
  BY DEF ShownInv, KeptInv
<1>2. PICK q, f, M : q = todo[r] /\ f = Head(q) /\ M = matches[r]
  OBVIOUS
<1>3. /\ pc[r] = "v1" /\ q # <<>> /\ disk' = disk /\ matches'[r] = M
      /\ Queue(q) /\ \A s \in Symbol : WalkedTo(M[s], q, s)
  BY <1>1, <1>2, ScanIs DEF Claims, world
<1>4. f \in DOMAIN disk
  BY <1>2, <1>3, QueueHead
<1>5. PICK p : p = Definitions(Scanned(disk[f].lines))
  OBVIOUS
<1>6. pc'[r] = "scan" /\ todo'[r] = q /\ pending'[r] = p
  <2>1. /\ pc' = [pc EXCEPT ![r] = "scan"] /\ todo' = todo
        /\ \E ls \in Seq(Line) :
              /\ pending' = [pending EXCEPT ![r] = Definitions(ls)]
              /\ ls = Scanned(disk[f].lines)
    BY <1>1, <1>2, <1>4, ScanIs
  <2> QED
    BY <1>1, <1>2, <1>5, <2>1, Parts
<1>7. ASSUME NEW s \in Symbol PROVE ScannedTo(M[s], f, Tail(q), p, s)
  <2>1. M[s] \in Seq(Ref)
    BY <1>1, <1>2, Parts
  <2> QED
    BY <1>1, <1>2, <1>3, <1>5, <2>1, ScanOpens
<1> QED
  BY <1>2, <1>3, <1>6, <1>7, ToScan

LEMMA MatchTraced ==
    ASSUME ShownInv, NEW r \in Review, Claims(r), Match(r) \/ MatchFails(r), failed'[r] = {}
    PROVE  Claims(r)'
<1>1. TypeOK
  BY DEF ShownInv, KeptInv
<1>2. PICK q, f, rest, M, p :
        q = todo[r] /\ f = Head(q) /\ rest = Tail(q) /\ M = matches[r] /\ p = pending[r]
  OBVIOUS
<1>3. /\ pc[r] = "scan" /\ q # <<>> /\ disk' = disk /\ todo'[r] = q
      /\ Queue(q) /\ \A s \in Symbol : ScannedTo(M[s], f, rest, p, s)
  BY <1>1, <1>2, MatchIs DEF Claims, world
<1>4. PICK m \in Open(r) :
        /\ \A o \in Open(r) : m[1] <= o[1]
        /\ \/ pc' = [pc EXCEPT ![r] = "panicked"]
           \/ /\ pc' = pc /\ pending' = [pending EXCEPT ![r] = @ \ {m}]
              /\ \E x \in Ref :
                   /\ matches' = [matches EXCEPT ![r][m[2]] = Append(@, x)]
                   /\ x = [sym |-> m[2], file |-> f, excerpt |-> BuildExcerpt(f, m[1])]
  <2>1. f \notin failed'[r]
    OBVIOUS
  <2>2. PICK m \in Open(r) :
          /\ \A o \in Open(r) : m[1] <= o[1]
          /\ \/ /\ pc' = [pc EXCEPT ![r] = "panicked"] /\ UNCHANGED <<pending, matches>>
             \/ /\ pc' = pc /\ pending' = [pending EXCEPT ![r] = @ \ {m}]
                /\ \E x \in Ref :
                     /\ matches' = [matches EXCEPT ![r][m[2]] = Append(@, x)]
                     /\ f \notin failed'[r] =>
                          x = [sym |-> m[2], file |-> f, excerpt |-> BuildExcerpt(f, m[1])]
    BY <1>1, <1>2, MatchIs
  <2> QED
    BY <2>1, <2>2
<1>5. CASE pc' = [pc EXCEPT ![r] = "panicked"]
  <2>1. pc'[r] = "panicked"
    BY <1>1, <1>5, Parts
  <2> QED
    BY <2>1 DEF Claims
<1>6. CASE /\ pc' = pc /\ pending' = [pending EXCEPT ![r] = @ \ {m}]
           /\ \E x \in Ref :
                /\ matches' = [matches EXCEPT ![r][m[2]] = Append(@, x)]
                /\ x = [sym |-> m[2], file |-> f, excerpt |-> BuildExcerpt(f, m[1])]
  <2>0. PICK x \in Ref : /\ matches' = [matches EXCEPT ![r][m[2]] = Append(@, x)]
                         /\ x = [sym |-> m[2], file |-> f, excerpt |-> BuildExcerpt(f, m[1])]
    BY <1>6
  <2>1. PICK s : s = m[2]
    OBVIOUS
  <2>2. /\ m \in p /\ p \subseteq Nat \X Symbol /\ s \in Symbol /\ m[1] \in Nat
        /\ Len(M[s]) < MaxRefs /\ M[s] \in Seq(Ref)
    <3>1. m \in p /\ ~ Full(r, s)
      BY <1>2, <2>1 DEF Open
    <3>2. p \subseteq Nat \X Symbol
      BY <1>1, <1>2, Parts
    <3>3. s \in Symbol /\ m[1] \in Nat
      BY <2>1, <3>1, <3>2
    <3>4. M[s] \in Seq(Ref)
      BY <1>1, <1>2, <3>3, Parts
    <3>5. Len(M[s]) < MaxRefs
      <4>1. ~ (Len(M[s]) >= MaxRefs) /\ Len(M[s]) \in Nat /\ MaxRefs \in Nat
        BY <1>2, <3>1, <3>4, EnrichmentAssumption DEF Full
      <4> QED
        BY <4>1
    <3> QED
      BY <3>1, <3>2, <3>3, <3>4, <3>5
  <2>3. f \in File /\ Range(rest) \subseteq File /\ \A g \in Range(rest) : TierOrder(f, g)
    BY <1>2, <1>3, QueueHead
  <2>4. x = RefAt(s, <<f, m[1]>>) /\ x \in Ref
    BY <2>0, <2>1 DEF RefAt
  <2>5. PICK less, N : less = p \ {m} /\ N = matches'[r]
    OBVIOUS
  <2>6. pc'[r] = "scan" /\ pending'[r] = less
    BY <1>1, <1>2, <1>3, <1>6, <2>5, Parts
  <2>7. N[s] = Append(M[s], x) /\ \A t \in Symbol : t # s => N[t] = M[t]
    <3>1. matches' = [matches EXCEPT ![r][s] = Append(@, x)]
      BY <2>0, <2>1
    <3>2. matches \in [Review -> [Symbol -> Seq(Ref)]]
      BY <1>1, Parts
    <3>3. /\ matches'[r][s] = Append(matches[r][s], x)
          /\ \A t \in Symbol : t # s => matches'[r][t] = matches[r][t]
      BY <2>2, <2>4, <3>1, <3>2, OneMore
    <3> QED
      BY <1>2, <2>5, <3>3
  <2>8. ASSUME NEW t \in Symbol PROVE ScannedTo(N[t], f, rest, less, t)
    <3>1. CASE t # s
      <4>1. N[t] = M[t] /\ ScannedTo(M[t], f, rest, p, t)
        BY <1>3, <2>7, <3>1
      <4> QED
        BY <2>1, <2>5, <3>1, <4>1, MatchLeaves
    <3>2. CASE t = s
      <4>1. PICK ms, more : ms = M[s] /\ more = N[s]
        OBVIOUS
      <4>2. ms \in Seq(Ref) /\ more = Append(ms, x) /\ Len(ms) < MaxRefs /\ ScannedTo(ms, f, rest, p, s)
        BY <1>3, <2>2, <2>7, <4>1
      <4>3. m \in Waiting(p, s)
        BY <2>1, <2>2 DEF Waiting
      <4>4. \A o \in Waiting(p, s) : m[1] <= o[1]
        <5>1. \A o \in Waiting(p, s) : o \in Open(r)
          <6>1. ~ Full(r, s)
            BY <2>1 DEF Open
          <6> QED
            BY <1>2, <6>1 DEF Open, Waiting
        <5> QED
          BY <1>4, <5>1
      <4>5. ScannedTo(more, f, rest, less, s)
        BY <1>1, <2>2, <2>3, <2>4, <2>5, <4>2, <4>3, <4>4, MatchTakes
      <4> QED
        BY <3>2, <4>1, <4>5
    <3> QED
      BY <3>1, <3>2
  <2> QED
    BY <1>2, <1>3, <2>5, <2>6, <2>8, ToScan
<1> QED
  BY <1>4, <1>5, <1>6

LEMMA EndOfFileTraced ==
    ASSUME ShownInv, NEW r \in Review, Claims(r), EndOfFile(r) PROVE Claims(r)'
<1>1. TypeOK
  BY DEF ShownInv, KeptInv
<1>2. PICK q, f, rest, M, p :
        q = todo[r] /\ f = Head(q) /\ rest = Tail(q) /\ M = matches[r] /\ p = pending[r]
  OBVIOUS
<1>3. /\ pc[r] = "scan" /\ q # <<>> /\ Open(r) = {}
      /\ Queue(q) /\ \A s \in Symbol : ScannedTo(M[s], f, rest, p, s)
  BY <1>1, <1>2, TodoIs DEF EndOfFile, Claims
<1>4. disk' = disk /\ todo'[r] = rest /\ matches'[r] = M /\ pc'[r] = "v1"
  BY <1>1, <1>2, Parts DEF EndOfFile, world
<1>5. /\ Queue(rest) /\ f \in File /\ Range(rest) \subseteq File
      /\ \A g \in Range(rest) : TierOrder(f, g)
  BY <1>2, <1>3, QueueHead
<1>6. ASSUME NEW s \in Symbol PROVE WalkedTo(M[s], rest, s)
  <2>1. PICK ms : ms = M[s]
    OBVIOUS
  <2>2. ms \in Seq(Ref)
    BY <1>1, <1>2, <2>1, Parts
  <2>3. \A m \in Waiting(p, s) : Len(ms) >= MaxRefs
    BY <1>2, <1>3, <2>1 DEF Open, Waiting, Full
  <2>4. WalkedTo(ms, rest, s)
    BY <1>1, <1>3, <1>5, <2>1, <2>2, <2>3, FileEnds
  <2> QED
    BY <2>1, <2>4
<1> QED
  BY <1>4, <1>5, <1>6, ToWalk

\* The steps of v2.
LEMMA LoadIndexTraced ==
    ASSUME ShownInv, NEW r \in Review, FewDefs, LoadIndex(r) PROVE Claims(r)'
<1>1. TypeOK /\ Shown(r)
  BY DEF ShownInv, KeptInv
<1>2. PICK order \in SetToSeqs(DOMAIN idx), symbols \in BySymbol :
        todo' = [todo EXCEPT ![r] = FlattenSeq(DefSymbols(order, symbols))]
  BY DEF LoadIndex, DefSymbols
<1>3. PICK q, M : q = FlattenSeq(DefSymbols(order, symbols)) /\ M = matches[r]
  OBVIOUS
<1>4. /\ pc[r] = "start" /\ pc'[r] = "v2" /\ todo'[r] = q /\ matches'[r] = M /\ idx' = idx
  BY <1>1, <1>2, <1>3, Parts DEF LoadIndex, world
<1>5. Once(q) /\ \A s \in Symbol : \A m \in Entries(s) : LocationOf(s, m) \in Range(q)
  BY <1>1, <1>3, LoadedOnce
<1>6. ASSUME NEW s \in Symbol PROVE ReadTo(M[s], q, s)
  <2>1. M[s] = <<>>
    BY <1>1, <1>3, <1>4 DEF Shown
  <2>2. ReadTo(<<>>, q, s)
    BY <1>5, ReadBegins
  <2> QED
    BY <2>1, <2>2
<1> QED
  BY <1>4, <1>5, <1>6, ToRead

LEMMA ReadAtTraced ==
    ASSUME ShownInv, NEW r \in Review, Claims(r), ReadAt(r) \/ ReadAtFails(r) PROVE Claims(r)'
<1>1. TypeOK /\ Shown(r)
  BY DEF ShownInv, KeptInv
<1>2. PICK q, loc, M : q = todo[r] /\ loc = Head(q) /\ M = matches[r]
  OBVIOUS
<1>3. /\ pc[r] = "v2" /\ q # <<>> /\ q \in Seq(Location)
      /\ Once(q) /\ \A s \in Symbol : ReadTo(M[s], q, s)
  BY <1>1, <1>2, ReadAtIs DEF Claims
<1>4. /\ todo' = [todo EXCEPT ![r] = Tail(todo[r])]
      /\ UNCHANGED <<world, pc, began, pending, packed, kept, used>>
      /\ \E x \in Ref : /\ x.sym = loc.sym /\ x.file = loc.file
                        /\ matches' = [matches EXCEPT ![r][loc.sym] = Append(@, x)]
  BY <1>1, <1>2, ReadAtIs
<1>8. PICK x \in Ref : /\ x.file = loc.file
                       /\ matches' = [matches EXCEPT ![r][loc.sym] = Append(@, x)]
  BY <1>4
<1>5. /\ matches' = [matches EXCEPT ![r][loc.sym] = Append(@, x)]
      /\ pc'[r] = "v2" /\ todo'[r] = Tail(q) /\ idx' = idx
  BY <1>1, <1>2, <1>3, <1>4, <1>8, Parts DEF world
<1>6. loc \in Location /\ InIndex(loc)
  <2>1. loc \in Location /\ loc \in Range(q)
    BY <1>2, <1>3, First, RangeTail
  <2> QED
    BY <1>1, <1>2, <1>3, <2>1 DEF Shown
<1>7. loc.sym \in Symbol /\ loc.file \in File /\ loc.line \in Nat
  BY <1>6 DEF Location
<1>9. PICK N : N = matches'[r]
  OBVIOUS
<1>10. N[loc.sym] = Append(M[loc.sym], x) /\ \A s \in Symbol : s # loc.sym => N[s] = M[s]
  <2>1. matches \in [Review -> [Symbol -> Seq(Ref)]]
    BY <1>1, Parts
  <2>2. /\ matches'[r][loc.sym] = Append(matches[r][loc.sym], x)
        /\ \A s \in Symbol : s # loc.sym => matches'[r][s] = matches[r][s]
    BY <1>5, <1>7, <1>8, <2>1, OneMore
  <2> QED
    BY <1>2, <1>9, <2>2
<1>11. Once(Tail(q))
  BY <1>3, OnceTail
<1>12. ASSUME NEW s \in Symbol PROVE ReadTo(N[s], Tail(q), s)
  <2>1. CASE s # loc.sym
    <3>1. ReadTo(M[s], Tail(q), s)
      BY <1>2, <1>3, <2>1, ReadOther
    <3> QED
      BY <1>10, <2>1, <3>1
  <2>2. CASE s = loc.sym
    <3>1. PICK ms, more : ms = M[loc.sym] /\ more = N[loc.sym]
      OBVIOUS
    <3>2. ms \in Seq(Ref) /\ more = Append(ms, x) /\ ReadTo(ms, q, loc.sym)
      BY <1>1, <1>2, <1>3, <1>7, <1>10, <3>1, Parts
    <3>3. ReadTo(more, Tail(q), loc.sym)
      BY <1>1, <1>2, <1>3, <1>6, <1>8, <3>2, ReadNext
    <3> QED
      BY <2>2, <3>1, <3>3
  <2> QED
    BY <2>1, <2>2
<1> QED
  BY <1>5, <1>9, <1>11, <1>12, ToRead

\* The steps that attach.
LEMMA FoundIsResolved ==
    ASSUME ShownInv, NEW r \in Review, Claims(r), Found(r)
    PROVE  Resolved(r) /\ packed[r] = <<>> /\ kept[r] = <<>> /\ used[r] = 0
<1>1. pc[r] \in {"v1", "v2"} /\ todo[r] = <<>>
  BY DEF Found
<1>2. Shown(r) /\ Kept(r)
  BY DEF ShownInv, KeptInv
<1>3. packed[r] = <<>> /\ kept[r] = <<>> /\ used[r] = 0
  BY <1>1, <1>2 DEF Kept, Spent
<1>4. CASE pc[r] = "v1"
  <2>1. ~ config.index /\ \A s \in Symbol : WalkedTo(matches[r][s], <<>>, s)
    BY <1>1, <1>2, <1>4 DEF Shown, Claims
  <2> QED
    BY <1>3, <2>1 DEF Resolved
<1>5. CASE pc[r] = "v2"
  <2>1. config.index /\ \A s \in Symbol : ReadTo(matches[r][s], <<>>, s)
    BY <1>1, <1>2, <1>5 DEF Shown, Claims
  <2> QED
    BY <1>3, <2>1 DEF Resolved
<1> QED
  BY <1>1, <1>4, <1>5

LEMMA AttachDirectlyTraced ==
    ASSUME ShownInv, NEW r \in Review, Comparable(r), Claims(r), AttachDirectly(r)
    PROVE  Claims(r)'
<1>1. TypeOK
  BY DEF ShownInv, KeptInv
<1>2. Found(r) /\ ~ Expanding /\ ~ config.index
  BY DEF AttachDirectly, Comparable
<1>3. Resolved(r) /\ kept[r] = <<>> /\ used[r] = 0
  BY <1>2, FoundIsResolved
<1>4. PICK order \in BySymbol :
        \E list \in Sorted(Merged(Inputs(Gathered(r, order))), FitOrder) :
            todo' = [todo EXCEPT ![r] = list]
  BY <1>2 DEF AttachDirectly, Gathered, Orders
<1>5. PICK list \in Sorted(Merged(Inputs(Gathered(r, order))), FitOrder) :
            todo' = [todo EXCEPT ![r] = list]
  BY <1>4
<1>6. PICK S : S = Merged(Inputs(Gathered(r, order)))
  OBVIOUS
<1>7. list \in InFit(S)
  BY <1>6 DEF InFit
<1>8. list \in Seq(S)
  <2>1. order \in Seq(Symbol)
    BY SymbolOrder
  <2>2. Inputs(Gathered(r, order)) \in Seq(Input)
    BY <1>1, <2>1, GatheredType, InputsType
  <2>3. IsFiniteSet(S)
    BY <1>6, <2>2, InputAttachable, MergedType
  <2> QED
    BY <1>6, <2>3, SortedInputs
<1>9. Midway(list, OfferedIn(list), list, <<<<>>, 0>>)
  BY <1>8, MidwayBegins
<1>10. /\ disk' = disk /\ idx' = idx /\ config' = config /\ matches'[r] = matches[r]
       /\ pc'[r] = "fit" /\ todo'[r] = list /\ kept'[r] = <<>> /\ used'[r] = 0
  BY <1>1, <1>3, <1>5, Parts DEF AttachDirectly, world
<1>11. PICK k : k = <<>>
  OBVIOUS
<1>12. list \in InFit(Merged(Inputs(Gathered(r, order)))) /\ kept'[r] = k
       /\ Midway(list, OfferedIn(list), list, <<k, 0>>)
  BY <1>6, <1>7, <1>9, <1>10, <1>11
<1> QED
  BY <1>2, <1>3, <1>10, <1>12, ToFitDirectly

LEMMA RankedType ==
    ASSUME TypeOK, NEW r, NEW list \in InRank(Candidates(r)) PROVE list \in Seq(Ranked)
<1>1. PICK S : S = Candidates(r)
  OBVIOUS
<1>2. IsFiniteSet(S) /\ S \subseteq Ranked
  BY <1>1, CandidatesType
<1>3. list \in Seq(S)
  BY <1>1, <1>2, SortedCandidates DEF InRank
<1> QED
  BY <1>2, <1>3, WiderSeq

LEMMA FittedType ==
    ASSUME NEW T, Attachable(T), NEW refs \in Seq(T), NEW list \in InFit(Merged(refs))
    PROVE  list \in Seq(Input)
<1>1. PICK S : S = Merged(refs)
  OBVIOUS
<1>2. IsFiniteSet(S) /\ S \subseteq Input
  BY <1>1, MergedType
<1>3. list \in Seq(S)
  BY <1>1, <1>2, SortedInputs DEF InFit
<1> QED
  BY <1>2, <1>3, WiderSeq

LEMMA ExpandTraced ==
    ASSUME ShownInv, NEW r \in Review, Claims(r), Expand(r) PROVE Claims(r)'
<1>1. TypeOK
  BY DEF ShownInv, KeptInv
<1>2. Found(r)
  BY DEF Expand
<1>3. Resolved(r) /\ packed[r] = <<>> /\ used[r] = 0
  BY <1>2, FoundIsResolved
<1>4. PICK list \in InRank(Candidates(r)) : todo' = [todo EXCEPT ![r] = list]
  BY DEF Expand, InRank
<1>5. list \in Seq(Ranked)
  BY <1>1, RankedType
<1>6. PICK p, u : p = <<>> /\ u = 0
  OBVIOUS
<1>7. Midway(list, Offered(list), list, <<p, u>>)
  BY <1>5, <1>6, MidwayBegins
<1>8. /\ disk' = disk /\ idx' = idx /\ config' = config /\ matches'[r] = matches[r]
      /\ pc'[r] = "pack" /\ todo'[r] = list /\ packed'[r] = p /\ used'[r] = u
  BY <1>1, <1>3, <1>4, <1>6, Parts DEF Expand, world
<1> QED
  BY <1>3, <1>7, <1>8, ToPack

LEMMA PackTraced ==
    ASSUME ShownInv, NEW r \in Review, Claims(r), Pack(r) \/ PackFails(r), failed'[r] = {}
    PROVE  Claims(r)'
<1>1. TypeOK
  BY DEF ShownInv, KeptInv
<1>2. PICK q, c, x, y :
        q = todo[r] /\ c = Head(q) /\ x = <<packed[r], used[r]>> /\ y = <<packed'[r], used'[r]>>
  OBVIOUS
<1>3. pc[r] = "pack" /\ q # <<>> /\ q \in Seq(Ranked)
  BY <1>1, <1>2, PackIs
<1>4. Resolved(r) /\ Packing(r, q, used[r])
  BY <1>2, <1>3 DEF Claims
<1>5. PICK list \in InRank(Candidates(r)) : Midway(list, Offered(list), q, x)
  BY <1>2, <1>4 DEF Packing
<1>6. y = Take(OfferOf(c), x) /\ todo'[r] = Tail(q)
  BY <1>1, <1>2, PackTakes
<1>7. list \in Seq(Ranked)
  BY <1>1, RankedType
<1>8. PICK offers, o : offers = Offered(list) /\ o = OfferOf(c)
  OBVIOUS
<1>9. \A i \in DOMAIN list : list[i] = Head(q) => offers[i] = o
  BY <1>2, <1>8 DEF Offered
<1>10. Midway(list, offers, Tail(q), Take(o, x))
  <2>1. Midway(list, offers, q, x)
    BY <1>5, <1>8
  <2> QED
    BY ONLY <1>3, <1>7, <1>9, <2>1, MidwayNext
<1>11. Midway(list, Offered(list), Tail(q), y)
  BY <1>6, <1>8, <1>10
<1>12. /\ disk' = disk /\ idx' = idx /\ config' = config /\ matches'[r] = matches[r]
       /\ pc'[r] = "pack"
  BY <1>1, <1>2, <1>3, PackIs DEF world
<1>13. PICK t, p, u : t = Tail(q) /\ p = packed'[r] /\ u = used'[r]
  OBVIOUS
<1>14. /\ todo'[r] = t /\ packed'[r] = p /\ used'[r] = u
       /\ \E l \in InRank(Candidates(r)) : Midway(l, Offered(l), t, <<p, u>>)
  BY <1>2, <1>6, <1>11, <1>13
<1> QED
  BY <1>4, <1>12, <1>14, ToPack

LEMMA AttachPackedTraced ==
    ASSUME ShownInv, NEW r \in Review, Claims(r), AttachPacked(r) PROVE Claims(r)'
<1>1. TypeOK /\ Shown(r) /\ Kept(r)
  BY DEF ShownInv, KeptInv
<1>2. pc[r] = "pack" /\ todo[r] = <<>> /\ Expanding /\ kept[r] = <<>>
  BY <1>1 DEF AttachPacked, Shown, Kept, Spent
<1>3. PICK u : u = used[r]
  OBVIOUS
<1>4. Resolved(r) /\ Packing(r, <<>>, u)
  BY <1>2, <1>3 DEF Claims
<1>5. PICK list \in InFit(Merged(packed[r])) : todo' = [todo EXCEPT ![r] = list]
  BY DEF AttachPacked, InFit
<1>6. list \in Seq(Input)
  BY <1>1, FittedType, PackedAttachable, Parts
<1>7. PICK k, v : k = <<>> /\ v = 0
  OBVIOUS
<1>8. Midway(list, OfferedIn(list), list, <<k, v>>)
  BY <1>6, <1>7, MidwayBegins
<1>9. /\ disk' = disk /\ idx' = idx /\ config' = config /\ matches'[r] = matches[r]
      /\ pc'[r] = "fit" /\ packed'[r] = packed[r] /\ todo'[r] = list /\ kept'[r] = k /\ used'[r] = v
  BY <1>1, <1>2, <1>5, <1>7, Parts DEF AttachPacked, world
<1> QED
  BY <1>2, <1>4, <1>8, <1>9, ToFit

\* One more round of Fit, over the inputs made of refs.
LEMMA FitRound ==
    ASSUME TypeOK, NEW r \in Review, Fit(r), NEW T, Attachable(T), NEW refs \in Seq(T),
           Fitting(r, refs)
    PROVE  \E list \in InFit(Merged(refs)) :
              Midway(list, OfferedIn(list), Tail(todo[r]), <<kept'[r], used'[r]>>)
<1>1. PICK q, in, x, y :
        q = todo[r] /\ in = Head(q) /\ x = <<kept[r], used[r]>> /\ y = <<kept'[r], used'[r]>>
  OBVIOUS
<1>2. q # <<>> /\ q \in Seq(Input)
  BY <1>1, TodoIs DEF Fit
<1>3. PICK list \in InFit(Merged(refs)) : Midway(list, OfferedIn(list), q, x)
  BY <1>1 DEF Fitting
<1>4. y = Take(OfferIn(in), x)
  BY <1>1, FitTakes
<1>5. list \in Seq(Input)
  BY FittedType
<1>6. PICK offers, o : offers = OfferedIn(list) /\ o = OfferIn(in)
  OBVIOUS
<1>7. \A i \in DOMAIN list : list[i] = Head(q) => offers[i] = o
  BY <1>1, <1>6 DEF OfferedIn
<1>8. Midway(list, offers, Tail(q), Take(o, x))
  <2>1. Midway(list, offers, q, x)
    BY <1>3, <1>6
  <2> QED
    BY ONLY <1>2, <1>5, <1>7, <2>1, MidwayNext
<1>9. Midway(list, OfferedIn(list), Tail(q), y)
  BY <1>4, <1>6, <1>8
<1> QED
  BY <1>1, <1>9

LEMMA FitTraced ==
    ASSUME ShownInv, NEW r \in Review, Comparable(r), Claims(r), Fit(r) PROVE Claims(r)'
<1>1. TypeOK
  BY DEF ShownInv, KeptInv
<1>2. /\ disk' = disk /\ idx' = idx /\ config' = config /\ matches'[r] = matches[r]
      /\ pc[r] = "fit" /\ pc'[r] = "fit" /\ packed'[r] = packed[r] /\ todo'[r] = Tail(todo[r])
  BY <1>1, Parts DEF Fit, world
<1>3. PICK t, k, v : t = Tail(todo[r]) /\ k = kept'[r] /\ v = used'[r]
  OBVIOUS
<1>4. CASE Expanding
  <2>1. Resolved(r) /\ (\E u : Packing(r, <<>>, u)) /\ Fitting(r, packed[r])
    BY <1>2, <1>4 DEF Claims
  <2>2. packed[r] \in Seq(Packed)
    BY <1>1, Parts
  <2>3. PICK list \in InFit(Merged(packed[r])) : Midway(list, OfferedIn(list), t, <<k, v>>)
    BY <1>1, <1>3, <2>1, <2>2, PackedAttachable, FitRound
  <2>4. PICK u : Packing(r, <<>>, u)
    BY <2>1
  <2>5. todo'[r] = t
    BY <1>2, <1>3
  <2> QED
    BY <1>2, <1>3, <1>4, <2>1, <2>3, <2>4, <2>5, ToFit
<1>5. CASE ~ Expanding
  <2>1. Resolved(r) /\ \E order \in BySymbol : Fitting(r, Inputs(Gathered(r, order)))
    BY <1>2, <1>5 DEF Claims
  <2>2. PICK order \in BySymbol : Fitting(r, Inputs(Gathered(r, order)))
    BY <2>1
  <2>3. PICK refs : refs = Inputs(Gathered(r, order))
    OBVIOUS
  <2>4. refs \in Seq(Input)
    <3>1. order \in Seq(Symbol)
      BY SymbolOrder
    <3> QED
      BY <1>1, <2>3, <3>1, GatheredType, InputsType
  <2>5. PICK list \in InFit(Merged(refs)) : Midway(list, OfferedIn(list), t, <<k, v>>)
    BY <1>1, <1>3, <2>2, <2>3, <2>4, InputAttachable, FitRound
  <2>6. todo'[r] = t /\ list \in InFit(Merged(Inputs(Gathered(r, order))))
    BY <1>2, <1>3, <2>3
  <2> QED
    BY <1>2, <1>3, <1>5, <2>1, <2>5, <2>6, ToFitDirectly
<1> QED
  BY <1>4, <1>5

\* What another review does, and a step that changes nothing.
LEMMA ClaimsWait ==
    ASSUME disk' = disk, idx' = idx, config' = config, NEW q, pc[q] \in PC, Claims(q),
           pc'[q] = pc[q], todo'[q] = todo[q], pending'[q] = pending[q],
           matches'[q] = matches[q], packed'[q] = packed[q], kept'[q] = kept[q],
           used'[q] = used[q]
    PROVE  Claims(q)'
<1>1. CASE pc[q] \in {"start", "panicked"}
  BY <1>1 DEF Claims
<1>2. CASE pc[q] = "v1"
  BY <1>2, ToWalk DEF Claims
<1>3. CASE pc[q] = "scan"
  BY <1>3, ToScan DEF Claims
<1>4. CASE pc[q] = "v2"
  BY <1>4, ToRead DEF Claims
<1>5. CASE pc[q] = "pack"
  <2>1. Resolved(q) /\ Packing(q, todo[q], used[q])
    BY <1>5 DEF Claims
  <2> QED
    BY <1>5, <2>1, ToPack DEF Packing
<1>6. CASE pc[q] = "fit" /\ Expanding
  <2>1. Resolved(q) /\ (\E u : Packing(q, <<>>, u)) /\ Fitting(q, packed[q])
    BY <1>6 DEF Claims
  <2>2. PICK u : Packing(q, <<>>, u)
    BY <2>1
  <2>3. PICK list \in InFit(Merged(packed[q])) :
            Midway(list, OfferedIn(list), todo[q], <<kept[q], used[q]>>)
    BY <2>1 DEF Fitting
  <2> QED
    BY <1>6, <2>1, <2>2, <2>3, ToFit
<1>7. CASE pc[q] = "fit" /\ ~ Expanding
  <2>1. Resolved(q) /\ \E order \in BySymbol : Fitting(q, Inputs(Gathered(q, order)))
    BY <1>7 DEF Claims
  <2>2. PICK order \in BySymbol : Fitting(q, Inputs(Gathered(q, order)))
    BY <2>1
  <2>3. PICK list \in InFit(Merged(Inputs(Gathered(q, order)))) :
            Midway(list, OfferedIn(list), todo[q], <<kept[q], used[q]>>)
    BY <2>2 DEF Fitting
  <2> QED
    BY <1>7, <2>1, <2>2, <2>3, ToFitDirectly
<1> QED
  BY <1>1, <1>2, <1>3, <1>4, <1>5, <1>6, <1>7 DEF PC

LEMMA TracedWaits ==
    ASSUME disk' = disk, edits' = edits, idx' = idx, config' = config, NEW q, pc[q] \in PC, Traced(q),
           pc'[q] = pc[q], todo'[q] = todo[q], began'[q] = began[q], failed'[q] = failed[q],
           pending'[q] = pending[q], matches'[q] = matches[q], packed'[q] = packed[q],
           kept'[q] = kept[q], used'[q] = used[q]
    PROVE  Traced(q)'
<1>1. Comparable(q)' => Comparable(q)
  BY ComparableStays
<1>2. ASSUME Comparable(q) PROVE Claims(q)'
  <2>1. Claims(q)
    BY <1>2 DEF Traced
  <2> QED
    BY <2>1, ClaimsWait
<1> QED
  BY <1>1, <1>2 DEF Traced

LEMMA StepTraced ==
    ASSUME ShownInv, NEW r \in Review, Traced(r), Step(r) PROVE Traced(r)'
<1>1. TypeOK
  BY DEF ShownInv, KeptInv
<1>2. disk' = disk /\ edits' = edits /\ idx' = idx /\ config' = config
  BY WorldWaits
<1> SUFFICES ASSUME Comparable(r)' PROVE Claims(r)'
  BY DEF Traced
<1>6. failed'[r] = {}
  BY DEF Comparable
<1>3. CASE Walk(r)
  BY <1>3, <1>6, WalkTraced
<1>4. CASE LoadIndex(r)
  <2>1. config.index' /\ (FewDefs' <=> FewDefs)
    BY <1>2, <1>4, ReadStays DEF LoadIndex
  <2>2. FewDefs
    BY <2>1 DEF Comparable
  <2> QED
    BY <1>4, <2>2, LoadIndexTraced
<1>5. ASSUME \/ Scan(r) \/ ScanFails(r) \/ Match(r) \/ MatchFails(r) \/ EndOfFile(r)
             \/ ReadAt(r) \/ ReadAtFails(r) \/ AttachDirectly(r) \/ Fit(r)
             \/ Expand(r) \/ Pack(r) \/ PackFails(r) \/ AttachPacked(r)
      PROVE  Claims(r)'
  <2>1. began' = began
    BY <1>5 DEF Scan, ScanFails, Match, MatchFails, EndOfFile, ReadAt, ReadAtFails, AttachDirectly,
                Fit, Expand, Pack, PackFails, AttachPacked
  <2>4. failed[r] \subseteq failed'[r]
    <3>1. CASE \/ ScanFails(r) \/ MatchFails(r) \/ ReadAtFails(r) \/ PackFails(r)
      BY <1>1, <3>1, Parts DEF ScanFails, MatchFails, ReadAtFails, PackFails, Fails
    <3>2. CASE failed' = failed
      BY <3>2
    <3> QED
      BY <1>5, <3>1, <3>2 DEF Scan, Match, EndOfFile, ReadAt, AttachDirectly, Fit, Expand, Pack,
                              AttachPacked
  <2>2. Comparable(r)
    BY <1>2, <2>1, <2>4, ComparableStays
  <2>3. Claims(r)
    BY <2>2 DEF Traced
  <2> QED
    BY <1>5, <1>6, <2>2, <2>3, ScanTraced, MatchTraced, EndOfFileTraced, ReadAtTraced,
       AttachDirectlyTraced, FitTraced, ExpandTraced, PackTraced, AttachPackedTraced
<1> QED
  BY <1>3, <1>4, <1>5 DEF Step

\* After an edit no review that has begun is spoken of any more.
LEMMA EditTraced ==
    ASSUME TypeOK, NEW f \in File, Edit(f), NEW r \in Review PROVE Traced(r)'
<1>1. edits \in Nat /\ began[r] \in 0..edits /\ began' = began /\ edits' = edits + 1
  BY Parts DEF Edit
<1>2. began'[r] # edits'
  BY <1>1
<1> QED
  BY <1>2 DEF Traced, Comparable

LEMMA TracedNext == ASSUME TracedInv, ShownInv', [Next]_vars PROVE TracedInv'
<1>0. ShownInv /\ TypeOK /\ \A r \in Review : Traced(r) /\ pc[r] \in PC
  BY Parts DEF TracedInv, ShownInv, KeptInv
<1>1. ASSUME NEW r \in Review, Step(r) PROVE \A q \in Review : Traced(q)'
  <2>1. disk' = disk /\ edits' = edits /\ idx' = idx /\ config' = config
    BY <1>1, WorldWaits
  <2>2. ASSUME NEW q \in Review, q # r PROVE Traced(q)'
    <3>1. /\ pc'[q] = pc[q] /\ todo'[q] = todo[q] /\ began'[q] = began[q]
          /\ failed'[q] = failed[q] /\ pending'[q] = pending[q] /\ matches'[q] = matches[q]
          /\ packed'[q] = packed[q] /\ kept'[q] = kept[q] /\ used'[q] = used[q]
      BY <1>0, <1>1, <2>2, OthersWait
    <3> QED
      BY <1>0, <2>1, <3>1, TracedWaits
  <2>3. Traced(r)'
    BY <1>0, <1>1, StepTraced
  <2> QED
    BY <2>2, <2>3
<1>2. ASSUME NEW f \in File, Edit(f) PROVE \A q \in Review : Traced(q)'
  BY <1>0, <1>2, EditTraced
<1>3. ASSUME UNCHANGED vars PROVE \A q \in Review : Traced(q)'
  <2>1. UNCHANGED <<disk, edits, idx, config, pc, began, failed, todo, pending, matches, packed, kept, used>>
    BY <1>3 DEF vars
  <2> QED
    BY <1>0, <2>1, TracedWaits
<1>4. \A q \in Review : Traced(q)'
  BY <1>1, <1>2, <1>3 DEF Next
<1> QED
  BY <1>4 DEF TracedInv

LEMMA TracedInitially == ASSUME Init, ShownInv PROVE TracedInv
<1>1. \A r \in Review : pc[r] = "start"
  BY DEF Init
<1> QED
  BY <1>1 DEF TracedInv, Traced, Claims

\* What a review of an unchanged workspace, that can be read, has found, packed
\* and kept is what
\* the workspace has: the places a walk comes to first, or one reference for
\* each line of the index that defines the symbol, and what the loops make of
\* them.
THEOREM TracedIsInvariant == Spec => []TracedInv
<1>1. Spec => []ShownInv
  BY ShownIsInvariant
<1>2. Init /\ ShownInv => TracedInv
  BY TracedInitially
<1>3. TracedInv /\ ShownInv' /\ [Next]_vars => TracedInv'
  BY TracedNext
<1> QED
  BY <1>1, <1>2, <1>3, PTL DEF Spec

-----------------------------------------------------------------------------

LEMMA SamePacked ==
    ASSUME TypeOK, NEW r \in Review, NEW q \in Review, Candidates(r) = Candidates(q),
           NEW u, Packing(r, <<>>, u), NEW v, Packing(q, <<>>, v)
    PROVE  packed[r] = packed[q]
<1>1. PICK list \in InRank(Candidates(r)) : Midway(list, Offered(list), <<>>, <<packed[r], u>>)
  BY DEF Packing
<1>2. PICK other \in InRank(Candidates(q)) : Midway(other, Offered(other), <<>>, <<packed[q], v>>)
  BY DEF Packing
<1>3. list = other
  BY <1>1, <1>2, SameRanked DEF InRank
<1>4. list \in Seq(Ranked)
  BY <1>1, RankedType
<1>5. PICK offers, x, y : offers = Offered(list) /\ x = <<packed[r], u>> /\ y = <<packed[q], v>>
  OBVIOUS
<1>6. Midway(list, offers, <<>>, x) /\ Midway(list, offers, <<>>, y)
  BY <1>1, <1>2, <1>3, <1>5
<1>7. x = y
  BY <1>4, <1>6, MidwaySame
<1> QED
  BY <1>5, <1>7

LEMMA SameKept ==
    ASSUME NEW r, NEW q, todo[r] = <<>>, todo[q] = <<>>, NEW T, Attachable(T), NEW refs \in Seq(T),
           Fitting(r, refs), Fitting(q, refs)
    PROVE  kept[r] = kept[q]
<1>1. PICK list \in InFit(Merged(refs)) : Midway(list, OfferedIn(list), <<>>, <<kept[r], used[r]>>)
  BY DEF Fitting
<1>2. PICK other \in InFit(Merged(refs)) :
          Midway(other, OfferedIn(other), <<>>, <<kept[q], used[q]>>)
  BY DEF Fitting
<1>3. list = other
  BY <1>1, <1>2, SameInputs DEF InFit
<1>4. list \in Seq(Input)
  BY <1>1, FittedType
<1>5. PICK offers, x, y :
        offers = OfferedIn(list) /\ x = <<kept[r], used[r]>> /\ y = <<kept[q], used[q]>>
  OBVIOUS
<1>6. Midway(list, offers, <<>>, x) /\ Midway(list, offers, <<>>, y)
  BY <1>1, <1>2, <1>3, <1>5
<1>7. x = y
  BY <1>4, <1>6, MidwaySame
<1> QED
  BY <1>5, <1>7

\* v1 has found the same references for each symbol.
LEMMA SameMatches ==
    ASSUME TypeOK, NEW r \in Review, NEW q \in Review, Resolved(r), Resolved(q), ~ config.index
    PROVE  matches[r] = matches[q]
<1>1. ASSUME NEW s \in Symbol PROVE matches[r][s] = matches[q][s]
  <2>1. WalkedTo(matches[r][s], <<>>, s) /\ WalkedTo(matches[q][s], <<>>, s)
    BY DEF Resolved
  <2>2. PICK ms, ns : ms = matches[r][s] /\ ns = matches[q][s]
    OBVIOUS
  <2>3. ms \in Seq(Ref) /\ ns \in Seq(Ref)
    BY <2>2, Parts
  <2> QED
    BY <2>1, <2>2, <2>3, SameReferences
<1>2. DOMAIN matches[r] = Symbol /\ DOMAIN matches[q] = Symbol /\ matches \in [Review -> [Symbol -> Seq(Ref)]]
  BY Parts
<1>3. PICK T : T = Seq(Ref)
  OBVIOUS
<1>4. matches[r] \in [Symbol -> T] /\ matches[q] \in [Symbol -> T]
  BY <1>2, <1>3
<1> QED
  BY <1>1, <1>4

LEMMA SameAttached ==
    ASSUME TypeOK, NEW r \in Review, NEW q \in Review, Done(r), Done(q), Comparable(r),
           Claims(r), Claims(q)
    PROVE  kept[r] = kept[q]
<1>1. /\ pc[r] = "fit" /\ pc[q] = "fit" /\ todo[r] = <<>> /\ todo[q] = <<>>
      /\ Resolved(r) /\ Resolved(q)
  BY DEF Done, Claims
<1>2. CASE Expanding
  <2>1. PICK u : Packing(r, <<>>, u)
    BY <1>1, <1>2 DEF Claims
  <2>2. PICK v : Packing(q, <<>>, v)
    BY <1>1, <1>2 DEF Claims
  <2>3. Fitting(r, packed[r]) /\ Fitting(q, packed[q])
    BY <1>1, <1>2 DEF Claims
  <2>4. ASSUME NEW f PROVE Cardinality(Direct(r, f)) = Cardinality(Direct(q, f))
    <3>1. CASE config.index
      <4>1. FewDefs
        BY <3>1 DEF Comparable
      <4>2. \A s \in Symbol : ReadTo(matches[r][s], <<>>, s) /\ ReadTo(matches[q][s], <<>>, s)
        BY <1>1, <3>1 DEF Resolved
      <4> QED
        BY <4>1, <4>2, SameDirect
    <3>2. CASE ~ config.index
      <4>1. matches[r] = matches[q]
        BY <1>1, <3>2, SameMatches
      <4> QED
        BY <4>1 DEF Direct
    <3> QED
      BY <3>1, <3>2
  <2>5. Candidates(r) = Candidates(q)
    BY <2>4, SameCandidates
  <2>6. packed[r] = packed[q]
    BY <2>1, <2>2, <2>5, SamePacked
  <2>7. packed[r] \in Seq(Packed)
    BY Parts
  <2>8. PICK refs : refs = packed[r]
    OBVIOUS
  <2>9. refs \in Seq(Packed) /\ Fitting(r, refs) /\ Fitting(q, refs)
    BY <2>3, <2>6, <2>7, <2>8
  <2> QED
    BY <1>1, <2>9, PackedAttachable, SameKept
<1>3. CASE ~ Expanding
  <2>1. PICK order \in BySymbol : Fitting(r, Inputs(Gathered(r, order)))
    BY <1>1, <1>3 DEF Claims
  <2>2. PICK other \in BySymbol : Fitting(q, Inputs(Gathered(q, other)))
    BY <1>1, <1>3 DEF Claims
  <2>3. ~ config.index
    BY <1>3 DEF Comparable
  <2>4. order = other
    BY <2>1, <2>2, SameSymbols
  <2>5. Gathered(r, order) = Gathered(q, order)
    <3>1. matches[r] = matches[q]
      BY <1>1, <2>3, SameMatches
    <3> QED
      BY <3>1 DEF Gathered
  <2>6. PICK refs : refs = Inputs(Gathered(r, order))
    OBVIOUS
  <2>7. refs \in Seq(Input)
    <3>1. order \in Seq(Symbol)
      BY SymbolOrder
    <3> QED
      BY <2>6, <3>1, GatheredType, InputsType
  <2>8. Fitting(r, refs) /\ Fitting(q, refs)
    BY <2>1, <2>2, <2>4, <2>5, <2>6
  <2> QED
    BY <1>1, <2>7, <2>8, InputAttachable, SameKept
<1> QED
  BY <1>2, <1>3

\* Reviews of one bundle in one workspace, that both could read, attach the same,
\* in the same order, although the maps of the resolvers and of AttachReferenced are walked in any
\* order and the reviews are interleaved in any way: v1 takes the nearest
\* places by path, the expansion sorts by a total order and reads every excerpt
\* anew, and what the loops keep is a function of the sorted lists.
THEOREM SameWorkspaceSameAttachments == Spec => []Repeatable
<1>1. TracedInv => Repeatable
  <2> SUFFICES ASSUME TracedInv, NEW r \in Review, NEW q \in Review, Done(r), Done(q),
                      Comparable(r), Comparable(q)
               PROVE  kept[r] = kept[q]
    BY DEF Repeatable, Comparable
  <2>1. TypeOK
    BY DEF TracedInv, ShownInv, KeptInv
  <2>2. Claims(r) /\ Claims(q)
    BY DEF TracedInv, Traced
  <2> QED
    BY <2>1, <2>2, SameAttached
<1> QED
  BY <1>1, TracedIsInvariant, PTL
=============================================================================
