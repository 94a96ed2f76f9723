--------------------------- MODULE TreeWalkProofs ---------------------------
(***************************************************************************)
(* Proofs about TreeWalk: for every tree, every way of reading it and      *)
(* every choice of calls that trap, a walk finds and reports what it       *)
(* should, once each and in the order of the source.                       *)
(*                                                                         *)
(* The strengthening says where the results are in relation to the walk's  *)
(* position: behind it.  For the cursor that is a position in the numbering*)
(* of the nodes; for the stack, all that is found comes before all that    *)
(* lies on the stack, and the subtrees of the nodes on the stack are       *)
(* disjoint, the topmost first.                                            *)
(*                                                                         *)
(* That nothing is missed is the other direction: what has not been found  *)
(* yet is ahead, at the cursor's position or after it, or below a node     *)
(* that is still on the stack.  It needs the cursor's depth to be right, as*)
(* the walk ends when the depth is 0.                                      *)
(***************************************************************************)
EXTENDS TreeWalk, FiniteSetTheorems, WellFoundedInduction, TLAPS

\* All results are of nodes before n.
Behind(n) ==
    /\ \A i \in DOMAIN found : found[i].node < n
    /\ \A i \in DOMAIN symbols : symbols[i].of < n

AtNode == {"node", "end", "name", "width"}
CursorInv ==
    step \in CursorSteps =>
        /\ way \in {"cursor", "names", "own"}
        /\ here \in Nodes(tree)
        /\ step = "new" => found = <<>> /\ symbols = <<>> /\ here = 1 /\ buf.at = 1
        /\ step \in AtNode \cup {"visit"} => Behind(here)
        /\ step = "down" => Behind(here + 1)
        /\ step \in {"next", "up"} => Behind(tree.last[here] + 1)
        /\ step \in AtNode => here \in tree.hit
        /\ step = "end" => way = "cursor" /\ buf = Node(here)
        /\ step = "name" => way = "names" /\ buf = Node(here)
        /\ step = "width" => way \in {"names", "own"} /\ buf = Node(Field(here, NameField))
        /\ step = "up" => depth # 0

\* The nodes on the stack come after n, and after one another from the top.
OnStack(n) ==
    \A i \in DOMAIN stack :
        /\ stack[i] \in Nodes(tree) /\ Named(tree, stack[i])
        /\ n < stack[i]
        /\ \A j \in DOMAIN stack : i < j => tree.last[stack[j]] < stack[i]

\* What holds before a node is popped, of the node in hand, and of the children
\* collected so far.
AtPop == OnStack(0) /\ \A i \in DOMAIN stack : Behind(stack[i])
InHand == here \in Nodes(tree) /\ Named(tree, here) /\ OnStack(tree.last[here])
AtChild ==
    \A i \in DOMAIN kids :
        /\ kids[i] \in NamedChildren(tree, here)
        /\ kids[i] <= index
        /\ \A j \in 1..(i - 1) : kids[j] < kids[i]

StackInv ==
    step \in {"pop", "measure", "count", "child"} =>
        /\ way = "stack"
        /\ symbols = <<>>
        /\ step = "pop" => AtPop
        /\ step # "pop" => InHand
        /\ step = "measure" => here \in tree.hit /\ Behind(here)
        /\ step \in {"count", "child"} => Behind(here + 1)
        /\ step = "child" => AtChild

\* What is still to be looked up comes after what has been reported.
Later(n, k) == \A i \in DOMAIN symbols : InTurn(<<symbols[i].of, symbols[i].field>>, <<n, k>>)

LookInv ==
    step = "look" =>
        /\ way = "stack"
        /\ \A p \in pending :
              /\ p[1] \in DOMAIN found
              /\ p[2] \in DOMAIN tree.fields[found[p[1]].raw]
              /\ Later(found[p[1]].node, p[2])

CaptureInv ==
    step = "capture" =>
        /\ way = "query"
        /\ \A p \in pending :
              /\ p \in LookUps(tree, tree.hit)
              /\ tree.fields[p[1]][p[2]] # 0
              /\ Later(p[1], p[2])

WalkInv == WalkTypeOK /\ InOrder /\ CursorInv /\ StackInv /\ LookInv /\ CaptureInv

-----------------------------------------------------------------------------
(* Trees.                                                                  *)

\* The nodes are numbered from 1, and a subtree is an interval of them that
\* holds the subtrees of its nodes.
LEMMA TreeFacts ==
    ASSUME NEW t, IsTree(t)
    PROVE  /\ Nodes(t) = 1..Len(t.last) /\ Len(t.last) \in Nat \ {0}
           /\ \A n \in Nodes(t) : n \in Nat \ {0} /\ t.last[n] \in Nodes(t) /\ n <= t.last[n]
           /\ \A n, m \in Nodes(t) : Within(t, m, n) => t.last[m] <= t.last[n]
           /\ t.named \subseteq Nodes(t) /\ t.hit \subseteq t.named
           /\ \A n \in Nodes(t) : /\ t.fields[n] \in Seq(Nat)
                                  /\ DOMAIN t.fields[n] \subseteq Nat
                                  /\ \A k \in DOMAIN t.fields[n] : t.fields[n][k] \in Nat
<1>1. t.last \in Seq(Nat) /\ DOMAIN t.last = 1..Len(t.last) /\ Len(t.last) \in Nat
  BY DEF IsTree
<1>2. \A n \in DOMAIN t.last : t.last[n] \in DOMAIN t.last /\ n <= t.last[n]
  BY DEF IsTree
<1>3. \A n \in DOMAIN t.last : \A m \in n..t.last[n] : t.last[m] <= t.last[n]
  BY DEF IsTree
<1>4. ASSUME NEW n \in Nodes(t), NEW m \in Nodes(t), Within(t, m, n)
      PROVE  t.last[m] <= t.last[n]
  BY <1>1, <1>2, <1>3, <1>4 DEF Nodes, Within
<1>5. Len(t.last) # 0
  BY <1>1 DEF IsTree
<1>6. t.fields \in [DOMAIN t.last -> Seq(Nat)]
  BY DEF IsTree
<1>7. ASSUME NEW n \in Nodes(t)
      PROVE  /\ t.fields[n] \in Seq(Nat)
             /\ DOMAIN t.fields[n] \subseteq Nat
             /\ \A k \in DOMAIN t.fields[n] : t.fields[n][k] \in Nat
  <2>1. t.fields[n] \in Seq(Nat)
    BY <1>6 DEF Nodes
  <2> QED
    BY <2>1
<1>8. t.named \subseteq Nodes(t) /\ t.hit \subseteq t.named
  BY DEF IsTree, Nodes
<1> QED
  BY <1>1, <1>2, <1>4, <1>5, <1>7, <1>8 DEF Nodes

\* The subtrees of two children of a node are disjoint.
LEMMA Siblings ==
    ASSUME NEW t, IsTree(t), NEW p, NEW c \in Nodes(t), NEW d \in Nodes(t), p \in Nodes(t),
           IsParent(t, p, c), IsParent(t, p, d), c < d
    PROVE  t.last[c] < d
<1>1. c \in (p + 1)..(d - 1)
  BY TreeFacts DEF IsParent
<1>2. ~Within(t, d, c)
  BY <1>1 DEF IsParent
<1> QED
  BY <1>2, TreeFacts DEF Within

\* A named child of a node reached through named nodes is reached so, too.
LEMMA NamedChild ==
    ASSUME NEW t, IsTree(t), NEW p \in Nodes(t), NEW c \in NamedChildren(t, p), Named(t, p)
    PROVE  Named(t, c)
<1>1. c \in Nodes(t) /\ c \in t.named /\ IsParent(t, p, c)
  BY TreeFacts DEF NamedChildren
<1>2. SUFFICES ASSUME NEW m \in 2..c, Within(t, c, m) PROVE m \in t.named
  BY DEF Named
<1>3. m \in Nodes(t) /\ p < c /\ p \in Nat /\ c \in Nat /\ m \in Nat
  BY <1>1, TreeFacts DEF IsParent
<1>4. CASE m = c
  BY <1>1, <1>4
<1>5. CASE m # c /\ p < m
  BY <1>1, <1>2, <1>3, <1>5 DEF IsParent
<1>6. CASE m <= p
  <2>1. Within(t, p, m)
    BY <1>2, <1>3, <1>6, TreeFacts DEF Within
  <2> QED
    BY <2>1, <1>3, <1>6 DEF Named
<1> QED
  BY <1>3, <1>4, <1>5, <1>6

-----------------------------------------------------------------------------
(* Steps that leave the results alone.                                     *)

resultVars == <<tree, way, found, symbols>>

\* An element of a sequence over S is in S.
LEMMA Element ==
    ASSUME NEW S, NEW s \in Seq(S)
    PROVE  /\ Len(s) \in Nat /\ DOMAIN s = 1..Len(s)
           /\ \A i \in DOMAIN s : s[i] \in S
OBVIOUS

\* So it is after an element of S was appended.
LEMMA Appended ==
    ASSUME NEW S, NEW s \in Seq(S), NEW e \in S
    PROVE  /\ Append(s, e) \in Seq(S) /\ Len(Append(s, e)) = Len(s) + 1
           /\ DOMAIN Append(s, e) = 1..(Len(s) + 1)
           /\ \A i \in DOMAIN s : Append(s, e)[i] = s[i]
           /\ Append(s, e)[Len(s) + 1] = e
OBVIOUS

LEMMA ResultTypes ==
    ASSUME WalkTypeOK
    PROVE  /\ Len(found) \in Nat /\ DOMAIN found = 1..Len(found)
           /\ \A i \in DOMAIN found : found[i].node \in Nat /\ found[i].raw \in Nat
           /\ Len(symbols) \in Nat /\ DOMAIN symbols = 1..Len(symbols)
           /\ \A i \in DOMAIN symbols :
                 symbols[i].of \in Nat /\ symbols[i].field \in Nat /\ symbols[i].child \in Nat
<1> DEFINE F == [node : Nat, raw : Nat]
           R == [of : Nat, field : Nat, child : Nat]
<1>1. found \in Seq(F) /\ symbols \in Seq(R)
  BY DEF WalkTypeOK
<1>2. /\ \A f \in F : f.node \in Nat /\ f.raw \in Nat
      /\ \A r \in R : r.of \in Nat /\ r.field \in Nat /\ r.child \in Nat
  OBVIOUS
<1> HIDE DEF F, R
<1>3. /\ Len(found) \in Nat /\ DOMAIN found = 1..Len(found)
      /\ \A i \in DOMAIN found : found[i] \in F
  BY <1>1, Element, Zenon
<1>4. /\ Len(symbols) \in Nat /\ DOMAIN symbols = 1..Len(symbols)
      /\ \A i \in DOMAIN symbols : symbols[i] \in R
  BY <1>1, Element, Zenon
<1> QED
  BY <1>2, <1>3, <1>4

\* What is behind a node is behind every later one.
LEMMA BehindLater ==
    ASSUME WalkTypeOK, NEW m \in Nat, NEW n \in Nat, m <= n, Behind(m)
    PROVE  Behind(n)
BY ResultTypes DEF Behind

LEMMA SameResults ==
    ASSUME InOrder, UNCHANGED resultVars
    PROVE  InOrder' /\ \A n : Behind(n) <=> Behind(n)'
BY DEF InOrder, FoundInOrder, ReportedInOrder, InTurn, NoName, Field, Before, resultVars, Behind

\* The same, when the results have not changed.
LEMMA BehindStays ==
    ASSUME WalkTypeOK, NEW m \in Nat, Behind(m), UNCHANGED <<found, symbols>>
    PROVE  \A n \in Nat : m <= n => Behind(n)'
<1> SUFFICES ASSUME NEW n \in Nat, m <= n PROVE Behind(n)'
  OBVIOUS
<1>1. Behind(n)
  BY BehindLater
<1> QED
  BY <1>1 DEF Behind

\* A result more.
LEMMA FoundMore ==
    ASSUME WalkTypeOK, NEW n \in Nat, NEW r \in Nat,
           found' = Append(found, [node |-> n, raw |-> r])
    PROVE  /\ found' \in Seq([node : Nat, raw : Nat])
           /\ DOMAIN found' = 1..(Len(found) + 1)
           /\ \A i \in DOMAIN found : found'[i] = found[i]
           /\ found'[Len(found) + 1].node = n /\ found'[Len(found) + 1].raw = r
<1> DEFINE F == [node : Nat, raw : Nat]
           e == [node |-> n, raw |-> r]
<1>1. found \in Seq(F) /\ e \in F /\ e.node = n /\ e.raw = r /\ found' = Append(found, e)
  BY DEF WalkTypeOK
<1> HIDE DEF F, e
<1>2. /\ found' \in Seq(F) /\ DOMAIN found' = 1..(Len(found) + 1)
      /\ \A i \in DOMAIN found : found'[i] = found[i]
      /\ found'[Len(found) + 1] = e
  BY <1>1, Appended
<1> QED
  BY <1>1, <1>2 DEF F

LEMMA SymbolsMore ==
    ASSUME WalkTypeOK, NEW n \in Nat, NEW k \in Nat, NEW c \in Nat,
           symbols' = Append(symbols, [of |-> n, field |-> k, child |-> c])
    PROVE  /\ symbols' \in Seq([of : Nat, field : Nat, child : Nat])
           /\ DOMAIN symbols' = 1..(Len(symbols) + 1)
           /\ \A i \in DOMAIN symbols : symbols'[i] = symbols[i]
           /\ symbols'[Len(symbols) + 1].of = n
           /\ symbols'[Len(symbols) + 1].field = k
           /\ symbols'[Len(symbols) + 1].child = c
<1> DEFINE R == [of : Nat, field : Nat, child : Nat]
           e == [of |-> n, field |-> k, child |-> c]
<1>1. symbols \in Seq(R) /\ e \in R /\ e.of = n /\ e.field = k /\ e.child = c
      /\ symbols' = Append(symbols, e)
  BY DEF WalkTypeOK
<1> HIDE DEF R, e
<1>2. /\ symbols' \in Seq(R) /\ DOMAIN symbols' = 1..(Len(symbols) + 1)
      /\ \A i \in DOMAIN symbols : symbols'[i] = symbols[i]
      /\ symbols'[Len(symbols) + 1] = e
  BY <1>1, Appended
<1> QED
  BY <1>1, <1>2 DEF R

\* All results but the new one are of nodes before n, the new one is of n.
LEMMA BehindMore ==
    ASSUME WalkTypeOK, NEW n \in Nat, NEW r \in Nat, NEW k \in Nat, Behind(n),
           \/ UNCHANGED found
           \/ found' = Append(found, [node |-> n, raw |-> r]),
           \/ UNCHANGED symbols
           \/ symbols' = Append(symbols, [of |-> n, field |-> k, child |-> r])
    PROVE  \A m \in Nat : n < m => Behind(m)'
<1> SUFFICES ASSUME NEW m \in Nat, n < m PROVE Behind(m)'
  OBVIOUS
<1>1. ASSUME NEW i \in DOMAIN found' PROVE found'[i].node < m
  <2>1. CASE UNCHANGED found
    BY <1>1, <2>1, ResultTypes DEF Behind
  <2>2. CASE found' = Append(found, [node |-> n, raw |-> r])
    <3>1. i \in DOMAIN found \/ i = Len(found) + 1
      BY <1>1, <2>2, FoundMore, ResultTypes
    <3> QED
      BY <2>2, <3>1, FoundMore, ResultTypes DEF Behind
  <2> QED
    BY <2>1, <2>2
<1>2. ASSUME NEW i \in DOMAIN symbols' PROVE symbols'[i].of < m
  <2>1. CASE UNCHANGED symbols
    BY <1>2, <2>1, ResultTypes DEF Behind
  <2>2. CASE symbols' = Append(symbols, [of |-> n, field |-> k, child |-> r])
    <3>1. i \in DOMAIN symbols \/ i = Len(symbols) + 1
      BY <1>2, <2>2, SymbolsMore, ResultTypes
    <3> QED
      BY <2>2, <3>1, SymbolsMore, ResultTypes DEF Behind
  <2> QED
    BY <2>1, <2>2
<1> QED
  BY <1>1, <1>2 DEF Behind

\* The calls of the cursor lead to nodes of the tree.
LEMMA Calls ==
    ASSUME NEW t, IsTree(t), NEW n \in Nodes(t)
    PROVE  /\ FirstChild(t, Cursor(n)) # 0 =>
                FirstChild(t, Cursor(n)) = n + 1 /\ n + 1 \in Nodes(t)
           /\ NextSibling(t, Cursor(n)) # 0 =>
                NextSibling(t, Cursor(n)) = t.last[n] + 1 /\ t.last[n] + 1 \in Nodes(t)
           /\ ParentOf(t, Cursor(n)) # 0 =>
                /\ ParentOf(t, Cursor(n)) \in Nodes(t)
                /\ t.last[n] <= t.last[ParentOf(t, Cursor(n))]
<1>1. Cursor(n).kind = "cursor" /\ Cursor(n).at = n
  BY DEF Cursor
<1>2. FirstChild(t, Cursor(n)) # 0 =>
        FirstChild(t, Cursor(n)) = n + 1 /\ n + 1 \in Nodes(t)
  BY <1>1, TreeFacts DEF FirstChild
<1>3. ASSUME NextSibling(t, Cursor(n)) # 0
      PROVE  NextSibling(t, Cursor(n)) = t.last[n] + 1 /\ t.last[n] + 1 \in Nodes(t)
  <2>1. PICK p \in Nodes(t) : t.last[n] < t.last[p]
    BY <1>1, <1>3 DEF NextSibling
  <2>2. NextSibling(t, Cursor(n)) = t.last[n] + 1
    BY <1>1, <1>3 DEF NextSibling
  <2> QED
    BY <2>1, <2>2, TreeFacts
<1>4. ASSUME ParentOf(t, Cursor(n)) # 0
      PROVE  /\ ParentOf(t, Cursor(n)) \in Nodes(t)
             /\ t.last[n] <= t.last[ParentOf(t, Cursor(n))]
  <2> DEFINE p == CHOOSE p \in Nodes(t) : IsParent(t, p, n)
  <2>1. ParentOf(t, Cursor(n)) = p /\ \E q \in Nodes(t) : IsParent(t, q, n)
    BY <1>1, <1>4 DEF ParentOf
  <2>2. p \in Nodes(t) /\ IsParent(t, p, n)
    BY <2>1
  <2> HIDE DEF p
  <2>3. Within(t, n, p)
    BY <2>2 DEF IsParent
  <2> QED
    BY <2>1, <2>2, <2>3, TreeFacts
<1> QED
  BY <1>2, <1>3, <1>4

-----------------------------------------------------------------------------
(* The cursor walks.                                                       *)

\* A walk that has a tree is in one.
LEMMA InTree == ASSUME WalkTypeOK, step # "idle" PROVE tree \in Tree /\ IsTree(tree)
BY TreeAssumption DEF WalkTypeOK

\* What a call leaves in the buffer.
Buffer == [kind : {"node", "cursor", "junk"}, at : Nat]
LEMMA Buffers ==
    /\ Junk \in Buffer
    /\ \A n \in Nat : Node(n) \in Buffer /\ Cursor(n) \in Buffer
    /\ \A b \in Buffer : b.at \in Nat /\ NodeAt(b) \in Nat
BY DEF Buffer, Junk, Node, Cursor, NodeAt

\* The children of a node are natural numbers, and those that are looked up have
\* their places in the list of the fields.
LEMMA FieldTypes ==
    ASSUME IsTree(tree), NEW n \in Nodes(tree)
    PROVE  /\ \A k : Field(n, k) \in Nat
           /\ \A k : k # 0 /\ Field(n, k) # 0 =>
                 k \in DOMAIN tree.fields[n] /\ Field(n, k) = tree.fields[n][k]
           /\ Field(n, 0) = n
           /\ \A k \in DOMAIN tree.fields[n] : k \in Nat \ {0} /\ Field(n, k) = tree.fields[n][k]
<1>1. ASSUME NEW k \in DOMAIN tree.fields[n] PROVE k \in Nat \ {0}
  <2>1. tree.fields[n] \in Seq(Nat)
    BY TreeFacts
  <2> QED
    BY <1>1, <2>1
<1> QED
  BY <1>1, TreeFacts DEF Field

\* A cursor that stays where it is.
LEMMA Stays ==
    ASSUME hurt \in BOOLEAN, NEW n, NEW s, NoMove(n, s)
    PROVE  /\ here' = here /\ step' = s /\ hurt' \in {hurt, TRUE}
           /\ buf' \in {Cursor(here), Junk}
           /\ ~hurt' => ~hurt /\ n = 0
<1>1. CASE buf' = Restored /\ step' = s /\ hurt' = (hurt \/ n # 0)
  <2>1. n = 0 => hurt' = hurt
    BY <1>1, Zenon
  <2>2. n # 0 => hurt' = TRUE
    BY <1>1, Zenon
  <2>3. hurt' \in {hurt, TRUE} /\ (~hurt' => ~hurt /\ n = 0)
    BY <2>1, <2>2
  <2> QED
    BY <1>1, <2>3 DEF NoMove, Restored
<1>2. CASE Traps(s)
  BY <1>2 DEF NoMove, Traps
<1> QED
  BY <1>1, <1>2 DEF NoMove

LEMMA CursorKeepsTypes ==
    ASSUME WalkInv, CursorStep
    PROVE  WalkTypeOK' /\ CursorInv'
<1> USE DEF cursorVars
<1>0. /\ WalkTypeOK /\ CursorInv /\ step \in CursorSteps
  BY DEF WalkInv, CursorStep, NewCursor, Visit, CurrentNode, Record, NameChild, Name, GoDown,
         GoNext, GoUp, DeleteCursor, CursorSteps
<1>1. /\ tree \in Tree /\ IsTree(tree) /\ here \in Nodes(tree) /\ here \in Nat \ {0}
      /\ step # "idle" /\ way \in {"cursor", "names", "own"}
  BY <1>0, InTree DEF CursorInv, CursorSteps, WalkTypeOK
<1>2. buf \in Buffer
  BY <1>0 DEF WalkTypeOK, Buffer
<1>3. /\ Cursor(here) \in Buffer /\ Cursor(buf.at) \in Buffer /\ Junk \in Buffer
      /\ Cursor(here).kind = "cursor" /\ Cursor(here).at = here /\ NodeAt(Cursor(here)) = here
  BY <1>1, <1>2, Buffers DEF Cursor, NodeAt
<1>4. ASSUME /\ step' \in CursorSteps \cup {"over"}
             /\ buf' \in Buffer /\ here' \in Nodes(tree) /\ depth' \in Nat
             /\ found' \in Seq([node : Nat, raw : Nat])
             /\ symbols' \in Seq([of : Nat, field : Nat, child : Nat])
             /\ hurt' \in BOOLEAN
             /\ UNCHANGED cursorVars
      PROVE  WalkTypeOK'
  <2>1. step' \in Walking \cup {"over"} /\ step' # "idle"
    BY <1>4 DEF Walking, CursorSteps
  <2>2. here' \in Nat \ {0}
    BY <1>1, <1>4, TreeFacts
  <2> QED
    BY <1>0, <1>1, <1>4, <2>1, <2>2 DEF WalkTypeOK, Buffer
<1>5. CASE NewCursor
  <2>1. found = <<>> /\ symbols = <<>> /\ here = 1 /\ buf.at = 1 /\ step = "new"
    BY <1>0, <1>5 DEF NewCursor, CursorInv, CursorSteps
  <2>2. step' \in {"visit", "over"} /\ buf' \in {Cursor(buf.at), Junk} /\ hurt' \in {hurt, TRUE}
    BY <1>5 DEF NewCursor, Traps
  <2>3. UNCHANGED <<cursorVars, here, depth, found, symbols>>
    BY <1>5 DEF NewCursor
  <2>4. WalkTypeOK'
    BY <1>0, <1>1, <1>3, <1>4, <2>2, <2>3 DEF WalkTypeOK, CursorSteps
  <2>5. CursorInv'
    BY <1>1, <2>1, <2>2, <2>3 DEF CursorInv, AtNode, CursorSteps, Behind
  <2> QED
    BY <2>4, <2>5
<1>6. CASE Visit
  <2>1. /\ step = "visit" /\ Behind(here)
        /\ UNCHANGED <<cursorVars, here, depth, found, symbols>>
    BY <1>0, <1>6 DEF Visit, CursorInv, CursorSteps
  <2>2. /\ step' \in {"node", "down", "delete"} /\ buf' \in Buffer /\ hurt' \in BOOLEAN
        /\ step' = "node" => here \in tree.hit
    BY <1>0, <1>3, <1>6 DEF Visit, Traps, Restored, WalkTypeOK
  <2>3. WalkTypeOK'
    BY <1>0, <1>1, <1>4, <2>1, <2>2 DEF WalkTypeOK, CursorSteps
  <2>4. \A n \in Nat : here <= n => Behind(n)'
    BY <1>0, <1>1, <2>1, BehindStays
  <2>5. CursorInv'
    BY <1>1, <2>1, <2>2, <2>4 DEF CursorInv, AtNode, CursorSteps, Behind
  <2> QED
    BY <2>3, <2>5
<1>7. CASE CurrentNode
  <2>1. /\ step = "node" /\ Behind(here) /\ here \in tree.hit
        /\ UNCHANGED <<cursorVars, here, depth, found, symbols>>
    BY <1>0, <1>7 DEF CurrentNode, CursorInv, CursorSteps, AtNode
  <2>2. \/ /\ buf' = Node(here) /\ hurt' = hurt
           /\ \/ step' = "name" /\ way = "names"
              \/ step' = "width" /\ way = "own"
              \/ step' = "end" /\ way = "cursor"
        \/ step' = "down" /\ buf' = Junk /\ hurt' = TRUE
    BY <1>1, <1>3, <1>7 DEF CurrentNode, Traps, Restored
  <2>3. WalkTypeOK'
    BY <1>0, <1>1, <1>3, <1>4, <2>1, <2>2, Buffers DEF WalkTypeOK, CursorSteps
  <2>4. \A n \in Nat : here <= n => Behind(n)'
    BY <1>0, <1>1, <2>1, BehindStays
  <2>5. way = "own" => Field(here, NameField)' = here /\ Node(here) = Node(Field(here, NameField))'
    BY <2>1 DEF Field, NameField, Node
  <2>6. Behind(here)' /\ Behind(here + 1)'
    BY <1>1, <2>1, <2>4 DEF Behind
  <2>7. CursorInv'
    BY <1>1, <2>1, <2>2, <2>5, <2>6 DEF CursorInv, AtNode, CursorSteps
  <2> QED
    BY <2>3, <2>7
<1>8. CASE Record
  <2>1. /\ step = "end" /\ Behind(here) /\ buf = Node(here)
        /\ UNCHANGED <<cursorVars, here, depth, symbols>>
    BY <1>0, <1>8 DEF Record, CursorInv, CursorSteps, AtNode
  <2>2. /\ step' = "down" /\ buf' \in {buf, Junk} /\ hurt' \in BOOLEAN
        /\ \/ found' = Append(found, [node |-> here, raw |-> here])
           \/ found' = found
    <3>1. buf.at = here /\ hurt \in BOOLEAN
      BY <1>0, <2>1 DEF Node, WalkTypeOK
    <3>2. CASE step' = "down" /\ hurt' = hurt /\ buf' = AfterEndIndex(buf)
               /\ found' = Append(found, [node |-> buf.at, raw |-> buf'.at])
      BY <3>1, <3>2 DEF AfterEndIndex
    <3>3. CASE Traps("down") /\ found' = found
      BY <3>3 DEF Traps
    <3> QED
      BY <1>8, <3>2, <3>3 DEF Record
  <2>3. found' \in Seq([node : Nat, raw : Nat])
    BY <1>0, <1>1, <2>2, FoundMore DEF WalkTypeOK
  <2>4. WalkTypeOK'
    BY <1>0, <1>1, <1>2, <1>3, <1>4, <2>1, <2>2, <2>3 DEF WalkTypeOK, CursorSteps
  <2>5. \A n \in Nat : here < n => Behind(n)'
    BY <1>0, <1>1, <2>1, <2>2, BehindMore
  <2>6. Behind(here + 1)'
    BY <1>1, <2>1, <2>5 DEF Behind
  <2>7. CursorInv'
    BY <1>1, <2>1, <2>2, <2>6 DEF CursorInv, AtNode, CursorSteps
  <2> QED
    BY <2>4, <2>7
<1>9. CASE NameChild
  <2>1. /\ step = "name" /\ Behind(here) /\ buf = Node(here) /\ here \in tree.hit /\ way = "names"
        /\ UNCHANGED <<cursorVars, here, depth, found, symbols>>
    BY <1>0, <1>9 DEF NameChild, CursorInv, CursorSteps, AtNode
  <2>2. \/ buf' = Node(Field(here, 1)) /\ step' = "width" /\ hurt' = hurt
        \/ step' = "down" /\ buf' = Junk /\ hurt' = TRUE
    BY <1>9, <2>1 DEF NameChild, Traps, Node
  <2>3. Field(here, 1) \in Nat
    BY <1>1, FieldTypes
  <2>4. WalkTypeOK'
    BY <1>0, <1>1, <1>3, <1>4, <2>1, <2>2, <2>3, Buffers DEF WalkTypeOK, CursorSteps
  <2>5. \A n \in Nat : here <= n => Behind(n)'
    BY <1>0, <1>1, <2>1, BehindStays
  <2>6. Field(here, NameField)' = Field(here, 1)
    BY <2>1 DEF Field, NameField
  <2>7. CursorInv'
    BY <1>1, <2>1, <2>2, <2>5, <2>6 DEF CursorInv, AtNode, CursorSteps, Behind
  <2> QED
    BY <2>4, <2>7
<1>10. CASE Name
  <2> PICK k : k = NameField
    OBVIOUS
  <2>0. k \in Nat
    BY DEF NameField
  <2>1. /\ step = "width" /\ Behind(here) /\ buf = Node(Field(here, NameField))
        /\ UNCHANGED <<cursorVars, here, depth, found>>
    BY <1>0, <1>10 DEF Name, CursorInv, CursorSteps, AtNode
  <2>2. /\ step' = "down" /\ buf' \in {buf, Junk} /\ hurt' \in BOOLEAN
        /\ \/ symbols' = Append(symbols, [of |-> here, field |-> k, child |-> Field(here, k)])
           \/ symbols' = symbols
    BY <1>0, <1>10, <2>1 DEF Name, Traps, Node, WalkTypeOK
  <2>3. symbols' \in Seq([of : Nat, field : Nat, child : Nat])
    <3>1. here \in Nat /\ Field(here, k) \in Nat
      BY <1>1, FieldTypes
    <3> PICK h, c : h = here /\ c = Field(here, k)
      OBVIOUS
    <3>2. CASE symbols' = Append(symbols, [of |-> h, field |-> k, child |-> c])
      BY <1>0, <2>0, <3>1, <3>2, SymbolsMore
    <3>3. CASE symbols' = symbols
      BY <1>0, <3>3 DEF WalkTypeOK
    <3> QED
      BY <2>2, <3>2, <3>3
  <2>4. WalkTypeOK'
    BY <1>0, <1>1, <1>2, <1>3, <1>4, <2>1, <2>2, <2>3 DEF WalkTypeOK, CursorSteps
  <2>5. \A n \in Nat : here < n => Behind(n)'
    BY <1>0, <1>1, <2>0, <2>1, <2>2, FieldTypes, BehindMore
  <2>6. CursorInv'
    BY <1>1, <2>1, <2>2, <2>5 DEF CursorInv, AtNode, CursorSteps, Behind
  <2> QED
    BY <2>4, <2>6
<1>11. CASE GoDown
  <2> DEFINE n == FirstChild(tree, Cursor(here))
  <2>1. /\ step = "down" /\ Behind(here + 1)
        /\ UNCHANGED <<cursorVars, found, symbols>>
    BY <1>0, <1>11 DEF GoDown, CursorInv, CursorSteps
  <2>2. \A m \in Nat : here + 1 <= m => Behind(m)'
    BY <1>0, <1>1, <2>1, BehindStays
  <2>3. n \in Nat /\ (n # 0 => n = here + 1 /\ n \in Nodes(tree))
    BY <1>1, <1>3, Calls, TreeFacts DEF FirstChild
  <2>4. CASE n # 0 /\ MoveTo(n, "visit") /\ depth' = depth + 1
    <3>1. buf' = Cursor(n) /\ here' = n /\ step' = "visit" /\ hurt' = hurt
      BY <2>4 DEF MoveTo
    <3> HIDE DEF n
    <3>2. n \in Nodes(tree) /\ n \in Nat /\ depth \in Nat /\ hurt \in BOOLEAN
      BY <1>0, <1>1, <2>3, <2>4, TreeFacts DEF WalkTypeOK
    <3>3. depth' \in Nat
      BY <2>1, <2>4, <3>2
    <3>4. WalkTypeOK'
      BY <1>0, <1>4, <2>1, <3>1, <3>2, <3>3, Buffers DEF WalkTypeOK, CursorSteps
    <3>5. CursorInv'
      BY <1>1, <2>1, <2>2, <2>3, <2>4, <3>1, <3>2, TreeFacts
      DEF CursorInv, AtNode, CursorSteps, Behind
    <3> QED
      BY <3>4, <3>5
  <2>5. CASE NoMove(n, "next") /\ depth' = depth
    <3>1. /\ here' = here /\ step' = "next" /\ hurt' \in {hurt, TRUE}
          /\ buf' \in {Cursor(here), Junk}
      BY <1>0, <2>5, Stays DEF WalkTypeOK
    <3> HIDE DEF n
    <3>2. depth' \in Nat /\ hurt' \in BOOLEAN /\ buf' \in Buffer
      BY <1>0, <1>3, <2>5, <3>1 DEF WalkTypeOK
    <3>3. WalkTypeOK'
      BY <1>0, <1>1, <1>4, <2>1, <3>1, <3>2 DEF WalkTypeOK, CursorSteps
    <3>4. CursorInv'
      BY <1>1, <2>1, <2>2, <3>1, TreeFacts DEF CursorInv, AtNode, CursorSteps, Behind
    <3> QED
      BY <3>3, <3>4
  <2> QED
    BY <2>4, <2>5, <1>11 DEF GoDown, MoveTo, Restored
<1>12. CASE GoNext
  <2> DEFINE n == NextSibling(tree, Cursor(here))
  <2>1. /\ step = "next" /\ Behind(tree.last[here] + 1)
        /\ UNCHANGED <<cursorVars, depth, found, symbols>>
    BY <1>0, <1>12 DEF GoNext, CursorInv, CursorSteps
  <2>2. \A m \in Nat : tree.last[here] + 1 <= m => Behind(m)'
    BY <1>0, <1>1, <2>1, BehindStays, TreeFacts
  <2>3. n # 0 => n = tree.last[here] + 1 /\ n \in Nodes(tree)
    BY <1>1, Calls
  <2>4. \/ n # 0 /\ buf' = Cursor(n) /\ here' = n /\ step' = "visit" /\ hurt' = hurt
        \/ /\ here' = here /\ hurt' \in {hurt, TRUE}
           /\ (depth = 0 /\ step' = "delete") \/ (depth # 0 /\ step' = "up")
           /\ buf' \in {Cursor(here), Junk}
    <3>1. CASE MoveTo(n, "visit")
      BY <3>1 DEF MoveTo
    <3>2. CASE NoMove(n, Unwind)
      <4> PICK u : u = Unwind
        OBVIOUS
      <4>1. /\ here' = here /\ step' = u /\ hurt' \in {hurt, TRUE}
            /\ buf' \in {Cursor(here), Junk}
        BY <1>0, <3>2, Stays DEF WalkTypeOK
      <4> QED
        BY <4>1 DEF Unwind
    <3> QED
      BY <1>12, <3>1, <3>2 DEF GoNext, Restored
  <2> HIDE DEF n
  <2>5. buf' \in Buffer /\ here' \in Nodes(tree) /\ depth' \in Nat /\ hurt' \in BOOLEAN
    BY <1>0, <1>1, <1>3, <2>1, <2>3, <2>4, TreeFacts, Buffers DEF WalkTypeOK
  <2>6. WalkTypeOK'
    BY <1>0, <1>4, <2>1, <2>4, <2>5 DEF WalkTypeOK, CursorSteps
  <2>7. CursorInv'
    BY <1>1, <2>1, <2>2, <2>3, <2>4, TreeFacts DEF CursorInv, AtNode, CursorSteps, Behind
  <2> QED
    BY <2>6, <2>7
<1>13. CASE GoUp
  <2> DEFINE n == ParentOf(tree, Cursor(here))
  <2>1. /\ step = "up" /\ Behind(tree.last[here] + 1) /\ depth # 0
        /\ UNCHANGED <<cursorVars, found, symbols>>
    BY <1>0, <1>13 DEF GoUp, CursorInv, CursorSteps
  <2>2. \A m \in Nat : tree.last[here] + 1 <= m => Behind(m)'
    BY <1>0, <1>1, <2>1, BehindStays, TreeFacts
  <2>3. n # 0 => n \in Nodes(tree) /\ tree.last[here] <= tree.last[n]
    BY <1>1, Calls
  <2>4. CASE n # 0 /\ MoveTo(n, "next") /\ depth' = depth - 1
    <3>1. buf' = Cursor(n) /\ here' = n /\ step' = "next" /\ hurt' = hurt
      BY <2>4 DEF MoveTo
    <3> HIDE DEF n
    <3>2. n \in Nodes(tree) /\ n \in Nat /\ depth \in Nat /\ hurt \in BOOLEAN
      BY <1>0, <1>1, <2>3, <2>4, TreeFacts DEF WalkTypeOK
    <3>3. depth' \in Nat
      BY <2>1, <2>4, <3>2
    <3>4. WalkTypeOK'
      BY <1>0, <1>4, <2>1, <3>1, <3>2, <3>3, Buffers DEF WalkTypeOK, CursorSteps
    <3>5. \A m \in Nat : tree.last[n] + 1 <= m => Behind(m)'
      BY <1>1, <2>2, <2>3, <2>4, <3>2, TreeFacts
    <3>6. tree.last[n] + 1 \in Nat
      BY <1>1, <3>2, TreeFacts
    <3>7. CursorInv'
      BY <1>1, <2>1, <3>1, <3>2, <3>5, <3>6
      DEF CursorInv, AtNode, CursorSteps, Behind
    <3> QED
      BY <3>4, <3>7
  <2>5. CASE NoMove(n, "delete") /\ depth' = depth
    <3>1. /\ here' = here /\ step' = "delete" /\ hurt' \in {hurt, TRUE}
          /\ buf' \in {Cursor(here), Junk}
      BY <1>0, <2>5, Stays DEF WalkTypeOK
    <3> HIDE DEF n
    <3>2. depth' \in Nat /\ hurt' \in BOOLEAN /\ buf' \in Buffer
      BY <1>0, <1>3, <2>5, <3>1 DEF WalkTypeOK
    <3>3. WalkTypeOK'
      BY <1>0, <1>1, <1>4, <2>1, <3>1, <3>2 DEF WalkTypeOK, CursorSteps
    <3>4. CursorInv'
      BY <1>1, <2>1, <2>2, <3>1, TreeFacts DEF CursorInv, AtNode, CursorSteps, Behind
    <3> QED
      BY <3>3, <3>4
  <2> QED
    BY <2>4, <2>5, <1>13 DEF GoUp, MoveTo, Restored
<1>14. CASE DeleteCursor
  <2>1. /\ step' = "over" /\ buf' \in Buffer /\ step = "delete"
        /\ UNCHANGED <<cursorVars, here, depth, found, symbols, hurt>>
    BY <1>3, <1>14 DEF DeleteCursor, Restored
  <2>2. WalkTypeOK'
    BY <1>0, <1>1, <1>4, <2>1 DEF WalkTypeOK
  <2>3. CursorInv'
    BY <2>1 DEF CursorInv, CursorSteps
  <2> QED
    BY <2>2, <2>3
<1> QED
  BY <1>5, <1>6, <1>7, <1>8, <1>9, <1>10, <1>11, <1>12, <1>13, <1>14 DEF CursorStep
-----------------------------------------------------------------------------
(* Order.                                                                  *)

\* A node that is to be found, and comes after all that was found.
LEMMA FoundNext ==
    ASSUME WalkTypeOK, FoundInOrder, UNCHANGED <<tree, way>>,
           NEW n \in Nat, n \in ToFind(tree, way),
           \A i \in DOMAIN found : found[i].node < n,
           found' = Append(found, [node |-> n, raw |-> n])
    PROVE  FoundInOrder'
<1> SUFFICES ASSUME NEW i \in DOMAIN found'
             PROVE  /\ found'[i].node \in ToFind(tree, way)
                    /\ found'[i].raw = found'[i].node
                    /\ \A j \in 1..(i - 1) : found'[j].node < found'[i].node
  BY DEF FoundInOrder, ToFind
<1>1. CASE i \in DOMAIN found
  <2>1. \A j \in 1..(i - 1) : j \in DOMAIN found
    BY <1>1, ResultTypes
  <2> QED
    BY <1>1, <2>1, FoundMore DEF FoundInOrder
<1>2. CASE i = Len(found) + 1
  <2>1. \A j \in 1..(i - 1) : j \in DOMAIN found
    BY <1>2, ResultTypes
  <2> QED
    BY <1>2, <2>1, FoundMore
<1> QED
  BY <1>1, <1>2, FoundMore, ResultTypes

\* A child that is to be reported, or no name, and comes after all reported ones.
LEMMA ReportedNext ==
    ASSUME WalkTypeOK, ReportedInOrder, UNCHANGED <<tree, way>>,
           NEW n \in Nat, NEW k \in Nat, NEW c \in Nat, c = Field(n, k),
           <<n, k>> \in ToReport(tree, way)
              \/ (way = "names" /\ n \in tree.hit /\ k = 1 /\ c = 0),
           Later(n, k),
           symbols' = Append(symbols, [of |-> n, field |-> k, child |-> c])
    PROVE  ReportedInOrder'
<1> SUFFICES ASSUME NEW i \in DOMAIN symbols'
             PROVE  /\ symbols'[i].child = Field(symbols'[i].of, symbols'[i].field)
                    /\ \/ <<symbols'[i].of, symbols'[i].field>> \in ToReport(tree, way)
                       \/ NoName(symbols'[i])
                    /\ \A j \in 1..(i - 1) : InTurn(<<symbols'[j].of, symbols'[j].field>>,
                                                    <<symbols'[i].of, symbols'[i].field>>)
  BY DEF ReportedInOrder, InTurn, NoName, Field
<1>1. CASE i \in DOMAIN symbols
  <2>1. \A j \in 1..(i - 1) : j \in DOMAIN symbols
    BY <1>1, ResultTypes
  <2> QED
    BY <1>1, <2>1, SymbolsMore DEF ReportedInOrder
<1>2. CASE i = Len(symbols) + 1
  <2>1. \A j \in 1..(i - 1) : j \in DOMAIN symbols
    BY <1>2, ResultTypes
  <2> QED
    BY <1>2, <2>1, SymbolsMore DEF NoName, Later
<1>3. i \in DOMAIN symbols \/ i = Len(symbols) + 1
  BY SymbolsMore, ResultTypes
<1> QED
  BY <1>1, <1>2, <1>3

\* What was reported of earlier nodes comes before any child of n.
LEMMA BehindIsBefore ==
    ASSUME WalkTypeOK, NEW n \in Nat, Behind(n)
    PROVE  \A k : Later(n, k)
BY ResultTypes DEF Behind, Later, InTurn, Before

LEMMA CursorKeepsOrder ==
    ASSUME WalkInv, CursorStep
    PROVE  InOrder'
<1> USE DEF cursorVars
<1>1. /\ WalkTypeOK /\ InOrder /\ FoundInOrder /\ ReportedInOrder /\ CursorInv
  BY DEF WalkInv, InOrder
<1>2. CASE Record
  <2>1. /\ step = "end" /\ Behind(here) /\ buf = Node(here) /\ here \in tree.hit
        /\ way = "cursor" /\ here \in Nat
    BY <1>1, <1>2 DEF Record, CursorInv, CursorSteps, AtNode, WalkTypeOK
  <2>2. UNCHANGED <<tree, way, symbols>>
    BY <1>2 DEF Record
  <2>3. CASE UNCHANGED found
    BY <1>1, <2>2, <2>3, SameResults DEF resultVars
  <2>4. CASE found' = Append(found, [node |-> here, raw |-> here])
    <3>1. here \in ToFind(tree, way)
      BY <2>1 DEF ToFind
    <3>2. FoundInOrder'
      BY <1>1, <2>1, <2>2, <2>4, <3>1, FoundNext DEF Behind
    <3>3. ReportedInOrder'
      BY <1>1, <2>2 DEF ReportedInOrder, InTurn, NoName, Field
    <3> QED
      BY <3>2, <3>3 DEF InOrder
  <2> QED
    BY <1>2, <2>1, <2>3, <2>4 DEF Record, AfterEndIndex, Node
<1>3. CASE Name
  <2> PICK k : k = NameField
    OBVIOUS
  <2>1. /\ step = "width" /\ Behind(here) /\ buf.at = Field(here, k) /\ here \in tree.hit
        /\ way \in {"names", "own"} /\ here \in Nat /\ here \in Nodes(tree) /\ IsTree(tree)
        /\ k = (IF way = "own" THEN 0 ELSE 1) /\ k \in Nat /\ here # 0
    BY <1>1, <1>3, InTree
    DEF Name, CursorInv, CursorSteps, AtNode, WalkTypeOK, Node, NameField
  <2>2. UNCHANGED <<tree, way, found>>
    BY <1>3 DEF Name
  <2>3. CASE UNCHANGED symbols
    BY <1>1, <2>2, <2>3, SameResults DEF resultVars
  <2>4. CASE /\ HasWidth(buf.at)
             /\ symbols' = Append(symbols, [of |-> here, field |-> k, child |-> Field(here, k)])
    <3> DEFINE c == Field(here, k)
    <3>1. c \in Nat /\ (c # 0 => c \notin tree.empty)
      BY <2>1, <2>4, FieldTypes DEF HasWidth
    <3>2. \/ <<here, k>> \in ToReport(tree, way)
          \/ (way = "names" /\ here \in tree.hit /\ k = 1 /\ c = 0)
      <4>1. CASE way = "own"
        BY <2>1, <3>1, <4>1, FieldTypes DEF ToReport
      <4>2. CASE way = "names" /\ c # 0
        <5>1. 1 \in DOMAIN tree.fields[here] /\ c = tree.fields[here][1] /\ k = 1
          BY <2>1, <4>2, FieldTypes
        <5> QED
          BY <2>1, <3>1, <4>2, <5>1 DEF ToReport, LookUps
      <4> QED
        BY <2>1, <4>1, <4>2
    <3>3. ReportedInOrder'
      BY <1>1, <2>1, <2>2, <2>4, <3>1, <3>2, ReportedNext, BehindIsBefore
    <3>4. FoundInOrder'
      BY <1>1, <2>2 DEF FoundInOrder, ToFind
    <3> QED
      BY <3>3, <3>4 DEF InOrder
  <2> QED
    BY <1>3, <2>1, <2>3, <2>4 DEF Name
<1>4. CASE UNCHANGED resultVars
  BY <1>1, <1>4, SameResults
<1> QED
  BY <1>2, <1>3, <1>4 DEF CursorStep, NewCursor, Visit, CurrentNode, NameChild, GoDown, GoNext,
     GoUp, DeleteCursor, resultVars
-----------------------------------------------------------------------------
(* The walk with a stack.                                                  *)

\* When the node in hand is done with, the stack is as before a pop.
LEMMA BackToPop ==
    ASSUME WalkTypeOK, step # "idle", InHand, Behind(here + 1)
    PROVE  AtPop
<1>1. here \in Nat /\ tree.last[here] \in Nat /\ here <= tree.last[here]
  BY InTree, TreeFacts DEF InHand
<1>2. ASSUME NEW i \in DOMAIN stack
      PROVE  0 < stack[i] /\ Behind(stack[i])
  <2>1. stack[i] \in Nat /\ tree.last[here] < stack[i]
    BY InTree, TreeFacts DEF InHand, OnStack
  <2> QED
    BY <1>1, <2>1, BehindLater
<1> QED
  BY <1>2 DEF AtPop, InHand, OnStack

LEMMA AtPopUnchanged ==
    ASSUME AtPop, UNCHANGED <<tree, stack, found, symbols>>
    PROVE  AtPop'
BY DEF AtPop, OnStack, Nodes, Named, Within, Behind

LEMMA InHandUnchanged ==
    ASSUME InHand, UNCHANGED <<tree, here, stack>>
    PROVE  InHand'
BY DEF InHand, OnStack, Nodes, Named, Within

\* The node popped is in hand, and the rest of the stack could be popped next.
LEMMA PopFacts ==
    ASSUME WalkTypeOK, step # "idle", AtPop, stack # <<>>, UNCHANGED <<tree, found, symbols>>,
           here' = stack[Len(stack)], stack' = SubSeq(stack, 1, Len(stack) - 1)
    PROVE  /\ stack' \in Seq(Nat \ {0}) /\ here' \in Nat \ {0}
           /\ InHand' /\ AtPop' /\ \A n \in Nat : here' <= n => Behind(n)'
<1>1. stack \in Seq(Nat \ {0}) /\ Len(stack) \in Nat \ {0} /\ DOMAIN stack = 1..Len(stack)
  BY DEF WalkTypeOK
<1>2. /\ DOMAIN stack' = 1..(Len(stack) - 1) /\ stack' \in Seq(Nat \ {0})
      /\ \A i \in DOMAIN stack' : i \in DOMAIN stack /\ i < Len(stack) /\ stack'[i] = stack[i]
  BY <1>1
<1>3. Len(stack) \in DOMAIN stack
  BY <1>1
<1>4. here' \in Nodes(tree) /\ Named(tree, here') /\ here' \in Nat \ {0} /\ Behind(here')
  BY <1>3, InTree, TreeFacts DEF AtPop, OnStack
<1>5. ASSUME NEW n \in Nat, here' <= n PROVE Behind(n)'
  <2>1. Behind(n)
    BY <1>4, <1>5, BehindLater
  <2> QED
    BY <2>1 DEF Behind
<1>6. InHand'
  <2>1. \A i \in DOMAIN stack' : tree.last[here'] < stack'[i]
    BY <1>1, <1>2, <1>3 DEF AtPop, OnStack
  <2>2. \A i \in DOMAIN stack' :
           /\ stack'[i] \in Nodes(tree) /\ Named(tree, stack'[i])
           /\ \A j \in DOMAIN stack' : i < j => tree.last[stack'[j]] < stack'[i]
    BY <1>2 DEF AtPop, OnStack
  <2> QED
    BY <1>4, <2>1, <2>2 DEF InHand, OnStack, Nodes, Named, Within
<1>7. AtPop'
  <2>1. \A i \in DOMAIN stack' :
           /\ stack'[i] \in Nodes(tree) /\ Named(tree, stack'[i])
           /\ 0 < stack'[i]
           /\ \A j \in DOMAIN stack' : i < j => tree.last[stack'[j]] < stack'[i]
    BY <1>2 DEF AtPop, OnStack
  <2>2. \A i \in DOMAIN stack' : Behind(stack'[i])
    BY <1>2 DEF AtPop
  <2> QED
    BY <2>1, <2>2 DEF AtPop, OnStack, Nodes, Named, Within, Behind
<1> QED
  BY <1>2, <1>4, <1>5, <1>6, <1>7

\* Reversing a sequence keeps its elements and turns their order.
LEMMA ReversedFacts ==
    ASSUME NEW S, NEW s \in Seq(S)
    PROVE  /\ Reversed(s) \in Seq(S) /\ Len(Reversed(s)) = Len(s)
           /\ \A i \in 1..Len(s) : /\ Len(s) + 1 - i \in DOMAIN s
                                   /\ Reversed(s)[i] = s[Len(s) + 1 - i]
<1>1. Len(s) \in Nat /\ DOMAIN s = 1..Len(s) /\ \A i \in DOMAIN s : s[i] \in S
  BY Element
<1>2. \A i \in 1..Len(s) : Len(s) + 1 - i \in 1..Len(s)
  BY <1>1
<1>3. Reversed(s) \in [1..Len(s) -> S]
  BY <1>1, <1>2 DEF Reversed
<1>4. Reversed(s) \in Seq(S) /\ Len(Reversed(s)) = Len(s)
  BY <1>1, <1>3
<1> QED
  BY <1>1, <1>2, <1>4 DEF Reversed

\* The children of the node in hand come before all that is on the stack, and
\* after all that was found.
LEMMA PushOrder ==
    ASSUME WalkTypeOK, step # "idle", InHand, Behind(here + 1), AtChild,
           UNCHANGED <<tree, found, symbols>>,
           NEW r, r = Reversed(kids),
           DOMAIN stack' = 1..(Len(stack) + Len(kids)),
           \A i \in 1..Len(stack) : stack'[i] = stack[i],
           \A i \in (Len(stack) + 1)..(Len(stack) + Len(kids)) : stack'[i] = r[i - Len(stack)]
    PROVE  AtPop'
<1>1. /\ Len(stack) \in Nat /\ Len(kids) \in Nat
      /\ DOMAIN stack = 1..Len(stack) /\ DOMAIN kids = 1..Len(kids)
      /\ \A i \in 1..Len(kids) : /\ Len(kids) + 1 - i \in DOMAIN kids
                                 /\ r[i] = kids[Len(kids) + 1 - i]
  <2> DEFINE N == Nat \ {0}
  <2>1. stack \in Seq(N) /\ kids \in Seq(N)
    BY DEF WalkTypeOK
  <2> HIDE DEF N
  <2>2. /\ Len(stack) \in Nat /\ Len(kids) \in Nat
        /\ DOMAIN stack = 1..Len(stack) /\ DOMAIN kids = 1..Len(kids)
    BY <2>1, Element
  <2> QED
    BY <2>1, <2>2, ReversedFacts
<1>2. /\ IsTree(tree) /\ here \in Nodes(tree) /\ here \in Nat
      /\ tree.last[here] \in Nat /\ here <= tree.last[here]
  BY InTree, TreeFacts DEF InHand
<1>3. ASSUME NEW i \in 1..Len(kids)
      PROVE  /\ r[i] \in Nodes(tree) /\ r[i] \in Nat /\ Named(tree, r[i])
             /\ IsParent(tree, here, r[i]) /\ here < r[i]
             /\ tree.last[r[i]] <= tree.last[here] /\ tree.last[r[i]] \in Nat
             /\ \A j \in 1..Len(kids) : i < j => tree.last[r[j]] < r[i]
  <2> DEFINE K == Len(kids) + 1
  <2>1. K - i \in DOMAIN kids /\ r[i] = kids[K - i]
    BY <1>1
  <2>2. r[i] \in NamedChildren(tree, here)
    BY <2>1 DEF AtChild
  <2>3. r[i] \in Nodes(tree) /\ Named(tree, r[i]) /\ IsParent(tree, here, r[i])
    BY <1>2, <2>2, NamedChild, TreeFacts DEF InHand, NamedChildren
  <2>4. /\ r[i] \in Nat /\ here < r[i] /\ tree.last[r[i]] \in Nat
        /\ tree.last[r[i]] <= tree.last[here]
    BY <1>2, <2>3, TreeFacts DEF IsParent
  <2>5. ASSUME NEW j \in 1..Len(kids), i < j PROVE tree.last[r[j]] < r[i]
    <3>1. K - j \in DOMAIN kids /\ r[j] = kids[K - j]
      BY <1>1
    <3>2. K - j \in 1..((K - i) - 1)
      BY <1>1, <2>5, <3>1
    <3>3. r[j] < r[i]
      BY <2>1, <3>1, <3>2 DEF AtChild
    <3>4. r[j] \in NamedChildren(tree, here)
      BY <3>1 DEF AtChild
    <3>5. r[j] \in Nodes(tree) /\ IsParent(tree, here, r[j])
      BY <1>2, <3>4, TreeFacts DEF NamedChildren
    <3> QED
      BY <1>2, <2>3, <3>3, <3>5, Siblings
  <2> QED
    BY <2>3, <2>4, <2>5
<1>4. /\ DOMAIN stack' = 1..(Len(stack) + Len(kids))
      /\ \A i \in 1..Len(stack) : stack'[i] = stack[i]
      /\ \A i \in (Len(stack) + 1)..(Len(stack) + Len(kids)) :
            i - Len(stack) \in 1..Len(kids) /\ stack'[i] = r[i - Len(stack)]
  BY <1>1
<1>5. ASSUME NEW i \in DOMAIN stack'
      PROVE  /\ stack'[i] \in Nodes(tree) /\ Named(tree, stack'[i])
             /\ 0 < stack'[i] /\ Behind(stack'[i])
             /\ \A j \in DOMAIN stack' : i < j => tree.last[stack'[j]] < stack'[i]
  <2>1. CASE i \in 1..Len(stack)
    <3>1. /\ stack[i] \in Nodes(tree) /\ Named(tree, stack[i]) /\ stack[i] \in Nat
          /\ tree.last[here] < stack[i]
          /\ \A j \in DOMAIN stack : i < j => tree.last[stack[j]] < stack[i]
      BY <1>1, <1>2, <2>1, TreeFacts DEF InHand, OnStack
    <3>2. Behind(stack[i])
      BY <1>2, <3>1, BehindLater
    <3>3. ASSUME NEW j \in DOMAIN stack', i < j PROVE tree.last[stack'[j]] < stack'[i]
      <4>1. CASE j \in 1..Len(stack)
        BY <1>1, <1>4, <2>1, <3>1, <3>3, <4>1
      <4>2. CASE j \in (Len(stack) + 1)..(Len(stack) + Len(kids))
        <5>1. /\ tree.last[stack'[j]] <= tree.last[here]
              /\ tree.last[stack'[j]] \in Nat
          BY <1>3, <1>4, <4>2
        <5> QED
          BY <1>2, <1>4, <2>1, <3>1, <5>1
      <4> QED
        BY <1>1, <1>4, <4>1, <4>2
    <3> QED
      BY <1>2, <1>4, <2>1, <3>1, <3>2, <3>3
  <2>2. CASE i \in (Len(stack) + 1)..(Len(stack) + Len(kids))
    <3> DEFINE k == i - Len(stack)
    <3>1. k \in 1..Len(kids) /\ stack'[i] = r[k]
      BY <1>4, <2>2
    <3>2. Behind(r[k])
      <4> HIDE DEF k
      <4>1. r[k] \in Nat /\ here < r[k]
        BY <1>3, <3>1
      <4> QED
        BY <1>2, <4>1, BehindLater
    <3>3. ASSUME NEW j \in DOMAIN stack', i < j PROVE tree.last[stack'[j]] < stack'[i]
      <4>1. j \in (Len(stack) + 1)..(Len(stack) + Len(kids)) /\ k < j - Len(stack)
        BY <1>1, <1>4, <2>2, <3>3
      <4> DEFINE l == j - Len(stack)
      <4>2. l \in 1..Len(kids) /\ stack'[j] = r[l] /\ k < l
        BY <1>4, <4>1
      <4> HIDE DEF k, l
      <4> QED
        BY <1>3, <3>1, <4>2
    <3> HIDE DEF k
    <3>4. r[k] \in Nodes(tree) /\ Named(tree, r[k]) /\ here < r[k] /\ r[k] \in Nat
      BY <1>3, <3>1
    <3> QED
      BY <1>2, <3>1, <3>2, <3>3, <3>4
  <2> QED
    BY <1>1, <1>4, <2>1, <2>2
<1>6. AtPop'
  BY <1>5 DEF AtPop, OnStack, Nodes, Named, Within, Behind
<1> QED
  BY <1>6

\* An element of a concatenation is in the one or the other part.
LEMMA Concatenated ==
    ASSUME NEW S, NEW s \in Seq(S), NEW t \in Seq(S)
    PROVE  /\ s \o t \in Seq(S) /\ DOMAIN (s \o t) = 1..(Len(s) + Len(t))
           /\ \A i \in 1..Len(s) : (s \o t)[i] = s[i]
           /\ \A i \in (Len(s) + 1)..(Len(s) + Len(t)) : (s \o t)[i] = t[i - Len(s)]
OBVIOUS

LEMMA PushFacts ==
    ASSUME WalkTypeOK, step # "idle", InHand, Behind(here + 1), AtChild,
           UNCHANGED <<tree, found, symbols>>, stack' = stack \o Reversed(kids)
    PROVE  stack' \in Seq(Nat \ {0}) /\ AtPop'
<1> DEFINE r == Reversed(kids)
           N == Nat \ {0}
<1>1. stack \in Seq(N) /\ r \in Seq(N) /\ Len(r) = Len(kids)
  BY ReversedFacts DEF WalkTypeOK
<1>2. /\ stack' \in Seq(N) /\ DOMAIN stack' = 1..(Len(stack) + Len(kids))
      /\ \A i \in 1..Len(stack) : stack'[i] = stack[i]
      /\ \A i \in (Len(stack) + 1)..(Len(stack) + Len(kids)) : stack'[i] = r[i - Len(stack)]
  <2>1. stack' = stack \o r
    OBVIOUS
  <2> HIDE DEF r, N
  <2>2. /\ stack \o r \in Seq(N) /\ DOMAIN (stack \o r) = 1..(Len(stack) + Len(r))
        /\ \A i \in 1..Len(stack) : (stack \o r)[i] = stack[i]
        /\ \A i \in (Len(stack) + 1)..(Len(stack) + Len(r)) : (stack \o r)[i] = r[i - Len(stack)]
    BY <1>1, Concatenated, Zenon
  <2> QED
    BY <1>1, <2>1, <2>2, Zenon
<1> QED
  BY <1>2, PushOrder

\* A child more, after those collected.
LEMMA ChildFacts ==
    ASSUME WalkTypeOK, step # "idle", InHand, Behind(here + 1), AtChild, NEW c \in Coming,
           kids' = Append(kids, c), UNCHANGED <<tree, here>>, index' = c
    PROVE  c \in Nat \ {0} /\ kids' \in Seq(Nat \ {0}) /\ AtChild'
<1> DEFINE N == Nat \ {0}
<1>1. IsTree(tree) /\ here \in Nodes(tree) /\ index \in Nat /\ kids \in Seq(N)
  BY InTree DEF InHand, WalkTypeOK
<1>2. c \in NamedChildren(tree, here) /\ index < c /\ c \in N
  BY <1>1, TreeFacts DEF Coming, NamedChildren
<1>3. /\ Len(kids) \in Nat /\ DOMAIN kids = 1..Len(kids) /\ \A i \in DOMAIN kids : kids[i] \in N
  <2> HIDE DEF N
  <2> QED
    BY <1>1, Element
<1>4. /\ kids' \in Seq(N) /\ DOMAIN kids' = 1..(Len(kids) + 1)
      /\ \A i \in DOMAIN kids : kids'[i] = kids[i]
      /\ kids'[Len(kids) + 1] = c
  <2> HIDE DEF N
  <2> QED
    BY <1>1, <1>2, Appended
<1>5. ASSUME NEW i \in DOMAIN kids'
      PROVE  /\ kids'[i] \in NamedChildren(tree, here)
             /\ kids'[i] <= index'
             /\ \A j \in 1..(i - 1) : kids'[j] < kids'[i]
  <2>1. i \in DOMAIN kids \/ i = Len(kids) + 1
    BY <1>3, <1>4
  <2>2. \A j \in 1..(i - 1) : j \in DOMAIN kids
    BY <1>3, <2>1
  <2>3. CASE i \in DOMAIN kids
    BY <1>1, <1>2, <1>3, <1>4, <2>2, <2>3 DEF AtChild
  <2>4. CASE i = Len(kids) + 1
    <3>1. kids'[i] = c
      BY <1>4, <2>4
    <3>2. ASSUME NEW j \in 1..(i - 1) PROVE kids'[j] < c
      <4>1. kids'[j] = kids[j] /\ kids[j] <= index /\ kids[j] \in Nat
        BY <1>3, <1>4, <2>2 DEF AtChild
      <4> QED
        BY <1>1, <1>2, <4>1
    <3> QED
      BY <1>2, <3>1, <3>2
  <2> QED
    BY <2>1, <2>3, <2>4
<1>6. AtChild'
  BY <1>5 DEF AtChild, NamedChildren
<1> QED
  BY <1>2, <1>4, <1>6

\* The nodes found by the walk with a stack are nodes of the tree.
LEMMA FoundNodes ==
    ASSUME WalkTypeOK, step # "idle", FoundInOrder
    PROVE  \A i \in DOMAIN found : found[i].raw = found[i].node /\ found[i].node \in Nodes(tree)
BY InTree, TreeFacts DEF FoundInOrder, ToFind

\* One step more in the order of the results.
LEMMA BehindOrder ==
    ASSUME WalkTypeOK, NEW n \in Nat, Behind(n)
    PROVE  \A i \in DOMAIN found : found[i].node < n
BY DEF Behind

\* All look-ups come first.
LEMMA PoppedFacts ==
    ASSUME WalkTypeOK, step # "idle", FoundInOrder, NEW p,
           p \in UNION {{i} \X DOMAIN tree.fields[found[i].raw] : i \in DOMAIN found}
    PROVE  /\ p \in Nat \X Nat /\ p[1] \in DOMAIN found
           /\ p[2] \in DOMAIN tree.fields[found[p[1]].raw]
<1>1. PICK i \in DOMAIN found : p \in {i} \X DOMAIN tree.fields[found[i].raw]
  OBVIOUS
<1>2. found[i].raw \in Nodes(tree) /\ i \in Nat
  BY FoundNodes, ResultTypes
<1>3. DOMAIN tree.fields[found[i].raw] \subseteq Nat
  BY <1>2, InTree, TreeFacts
<1> QED
  BY <1>1, <1>2, <1>3

\* The child that is looked up next is reported in its place, and what is still
\* to be looked up comes after it.
LEMMA LookUpFacts ==
    ASSUME WalkTypeOK, step = "look", LookInv, FoundInOrder, ReportedInOrder,
           NEW p, p \in pending, IsFirst(p, pending), pending' = pending \ {p},
           UNCHANGED <<tree, way, found>>,
           NEW c, c = Field(found[p[1]].raw, p[2]),
           \/ UNCHANGED symbols
           \/ /\ Found(c)
              /\ symbols' = Append(symbols, [of |-> found[p[1]].node, field |-> p[2], child |-> c])
    PROVE  /\ symbols' \in Seq([of : Nat, field : Nat, child : Nat])
           /\ ReportedInOrder'
           /\ \A q \in pending' : /\ q[1] \in DOMAIN found
                                  /\ q[2] \in DOMAIN tree.fields[found[q[1]].raw]
                                  /\ Later(found[q[1]].node, q[2])'
<1> DEFINE n == found[p[1]].node
           k == p[2]
<1>1. /\ IsTree(tree) /\ way = "stack" /\ p \in Nat \X Nat /\ p[1] \in DOMAIN found
      /\ p[2] \in DOMAIN tree.fields[found[p[1]].raw] /\ Later(n, k)
  BY InTree DEF LookInv, WalkTypeOK
<1>2. found[p[1]].raw = n /\ n \in Nodes(tree) /\ n \in ToFind(tree, way)
  BY <1>1, FoundNodes DEF FoundInOrder
<1>3. n \in Nat /\ k \in Nat /\ c \in Nat /\ c = Field(n, k)
  BY <1>1, <1>2, TreeFacts, FieldTypes
<1>4. <<n, k>> \in LookUps(tree, ToFind(tree, way)) /\ c = tree.fields[n][k]
  BY <1>1, <1>2, <1>3, FieldTypes DEF LookUps
<1>5. ASSUME NEW q \in pending, q # p
      PROVE  /\ q[1] \in DOMAIN found /\ q[2] \in DOMAIN tree.fields[found[q[1]].raw]
             /\ Later(found[q[1]].node, q[2])
             /\ InTurn(<<n, k>>, <<found[q[1]].node, q[2]>>)
  <2>1. /\ q[1] \in DOMAIN found /\ q[2] \in DOMAIN tree.fields[found[q[1]].raw]
        /\ Later(found[q[1]].node, q[2])
    BY DEF LookInv
  <2>2. Before(p, q)
    BY <1>5 DEF IsFirst
  <2>3. CASE p[1] = q[1] /\ p[2] < q[2]
    BY <1>1, <2>1, <2>3 DEF InTurn, Before
  <2>4. CASE p[1] < q[1]
    <3>1. p[1] \in 1..(q[1] - 1)
      BY <1>1, <2>1, <2>4, ResultTypes
    <3>2. n < found[q[1]].node
      BY <2>1, <3>1 DEF FoundInOrder
    <3> QED
      BY <1>1, <2>1, <3>2 DEF InTurn, Before
  <2> QED
    BY <2>2, <2>3, <2>4 DEF Before
<1> HIDE DEF n, k
<1>6. CASE UNCHANGED symbols
  <2>1. symbols' \in Seq([of : Nat, field : Nat, child : Nat])
    BY <1>6 DEF WalkTypeOK
  <2>2. ReportedInOrder'
    BY <1>6 DEF ReportedInOrder, InTurn, NoName, Field
  <2> QED
    BY <1>5, <1>6, <2>1, <2>2 DEF Later, InTurn
<1>7. CASE Found(c) /\ symbols' = Append(symbols, [of |-> n, field |-> k, child |-> c])
  <2>1. c \notin {0} \cup tree.empty
    BY <1>7 DEF Found
  <2>2. <<n, k>> \in ToReport(tree, way)
    BY <1>1, <1>4, <2>1 DEF ToReport
  <2>3. symbols' \in Seq([of : Nat, field : Nat, child : Nat])
    BY <1>3, <1>7, SymbolsMore
  <2>4. Later(n, k)
    BY <1>1 DEF n, k
  <2>5. ReportedInOrder'
    BY <1>3, <1>7, <2>2, <2>4, ReportedNext
  <2>6. ASSUME NEW q \in pending' PROVE Later(found[q[1]].node, q[2])'
    <3>1. q \in pending /\ q # p
      OBVIOUS
    <3>2. Later(found[q[1]].node, q[2]) /\ InTurn(<<n, k>>, <<found[q[1]].node, q[2]>>)
      BY <1>5, <3>1
    <3>3. ASSUME NEW i \in DOMAIN symbols'
          PROVE  InTurn(<<symbols'[i].of, symbols'[i].field>>, <<found[q[1]].node, q[2]>>)
      <4>1. /\ DOMAIN symbols' = 1..(Len(symbols) + 1)
            /\ \A j \in DOMAIN symbols : symbols'[j] = symbols[j]
            /\ symbols'[Len(symbols) + 1].of = n /\ symbols'[Len(symbols) + 1].field = k
        BY <1>3, <1>7, SymbolsMore
      <4>2. i \in DOMAIN symbols \/ i = Len(symbols) + 1
        BY <4>1, ResultTypes
      <4> QED
        BY <3>2, <4>1, <4>2 DEF Later
    <3> QED
      BY <3>3 DEF Later, InTurn
  <2>7. \A q \in pending' : q[1] \in DOMAIN found /\ q[2] \in DOMAIN tree.fields[found[q[1]].raw]
    BY <1>5
  <2> QED
    BY <2>3, <2>5, <2>6, <2>7
<1> QED
  BY <1>6, <1>7 DEF n, k

LEMMA StackKeeps ==
    ASSUME WalkInv, StackStep
    PROVE  WalkTypeOK' /\ StackInv' /\ LookInv' /\ InOrder'
<1> USE DEF stackVars
<1> DEFINE N == Nat \ {0}
<1>0. /\ WalkTypeOK /\ StackInv /\ LookInv /\ InOrder /\ FoundInOrder /\ ReportedInOrder
      /\ step \in StackSteps /\ way = "stack"
  BY DEF WalkInv, InOrder, StackInv, LookInv, StackSteps, StackStep, Pop, Measure, Count, Child,
         PushKids, Popped, LookUp
<1>1. tree \in Tree /\ IsTree(tree) /\ step # "idle"
  BY <1>0, InTree DEF StackSteps
<1>2. buf \in Buffer /\ Junk \in Buffer /\ here \in N /\ Node(here) \in Buffer
  BY <1>0, Buffers DEF WalkTypeOK, Buffer
<1>3. /\ stack \in Seq(N) /\ kids \in Seq(N) /\ index \in Nat
      /\ found \in Seq([node : Nat, raw : Nat]) /\ pending \subseteq Nat \X Nat
      /\ symbols \in Seq([of : Nat, field : Nat, child : Nat]) /\ hurt \in BOOLEAN
  BY <1>0 DEF WalkTypeOK
<1>4. ASSUME /\ step' \in StackSteps
             /\ buf' \in Buffer /\ here' \in N
             /\ stack' \in Seq(N) /\ kids' \in Seq(N) /\ index' \in Nat
             /\ found' \in Seq([node : Nat, raw : Nat]) /\ pending' \subseteq Nat \X Nat
             /\ symbols' \in Seq([of : Nat, field : Nat, child : Nat])
             /\ hurt' \in BOOLEAN
             /\ UNCHANGED <<tree, way, depth>>
      PROVE  WalkTypeOK'
  <2>1. step' \in Walking /\ step' # "idle"
    BY <1>4 DEF Walking, StackSteps
  <2> QED
    BY <1>0, <1>1, <1>4, <2>1 DEF WalkTypeOK, Buffer
<1>5. CASE Pop
  <2>1. /\ step = "pop" /\ stack # <<>> /\ AtPop /\ symbols = <<>>
        /\ here' = stack[Len(stack)] /\ stack' = SubSeq(stack, 1, Len(stack) - 1)
        /\ UNCHANGED <<tree, way, depth, symbols, kids, index, found, pending>>
    BY <1>0, <1>5 DEF Pop, StackInv
  <2>2. /\ stack' \in Seq(N) /\ here' \in N
        /\ InHand' /\ AtPop' /\ \A n \in Nat : here' <= n => Behind(n)'
    BY <1>0, <1>1, <2>1, PopFacts
  <2>3. \/ /\ step' = "measure" /\ here' \in tree.hit
           /\ buf' = Node(here') /\ hurt' = hurt
        \/ step' = "count" /\ buf' = Node(here') /\ hurt' = hurt
        \/ step' = "pop" /\ buf' = Junk /\ hurt' = TRUE
    BY <1>5 DEF Pop, Traps
  <2>4. step' \in StackSteps /\ buf' \in Buffer /\ hurt' \in BOOLEAN
    BY <1>2, <1>3, <2>2, <2>3, Buffers DEF StackSteps
  <2>5. WalkTypeOK'
    BY <1>3, <1>4, <2>1, <2>2, <2>4
  <2>6. Behind(here)' /\ Behind(here + 1)'
    BY <2>2 DEF Behind
  <2>7. StackInv' /\ LookInv'
    BY <1>0, <2>1, <2>2, <2>3, <2>6 DEF StackInv, LookInv
  <2>8. InOrder'
    BY <1>0, <2>1, SameResults DEF resultVars
  <2> QED
    BY <2>5, <2>7, <2>8
<1>6. CASE Measure
  <2>1. /\ step = "measure" /\ here \in tree.hit /\ InHand /\ Behind(here) /\ symbols = <<>>
        /\ step' = "count"
        /\ UNCHANGED <<tree, way, depth, symbols, here, stack, kids, index, pending>>
    BY <1>0, <1>6 DEF Measure, StackInv, Traps
  <2>2. buf' \in {Node(here), Junk} /\ hurt' \in {hurt, TRUE}
    BY <1>6 DEF Measure, Traps, AfterEndIndex
  <2>3. \/ UNCHANGED found
        \/ /\ here \notin tree.empty
           /\ found' = Append(found, [node |-> here, raw |-> here])
    BY <1>6 DEF Measure
  <2>4. found' \in Seq([node : Nat, raw : Nat])
    BY <1>0, <1>2, <1>3, <2>3, FoundMore
  <2>5. WalkTypeOK'
    BY <1>2, <1>3, <1>4, <2>1, <2>2, <2>4 DEF StackSteps
  <2>6. \A n \in Nat : here < n => Behind(n)'
    BY <1>0, <1>2, <2>1, <2>3, BehindMore
  <2>7. Behind(here + 1)' /\ InHand'
    BY <1>2, <2>1, <2>6, InHandUnchanged DEF Behind
  <2>8. StackInv' /\ LookInv'
    BY <1>0, <2>1, <2>7 DEF StackInv, LookInv
  <2>9. InOrder'
    <3>1. CASE UNCHANGED found
      BY <1>0, <2>1, <3>1, SameResults DEF resultVars
    <3>2. CASE /\ here \notin tree.empty
               /\ found' = Append(found, [node |-> here, raw |-> here])
      <4>1. here \in ToFind(tree, way)
        BY <1>0, <2>1, <3>2 DEF ToFind, InHand
      <4>2. FoundInOrder'
        BY <1>0, <1>2, <2>1, <3>2, <4>1, FoundNext, BehindOrder
      <4>3. ReportedInOrder'
        BY <1>0, <2>1 DEF ReportedInOrder, InTurn, ToReport, ToFind, NoName, Field, Before
      <4> QED
        BY <4>2, <4>3 DEF InOrder
    <3> QED
      BY <2>3, <3>1, <3>2
  <2> QED
    BY <2>5, <2>8, <2>9
<1>7. CASE Count
  <2>1. /\ step = "count" /\ InHand /\ Behind(here + 1) /\ symbols = <<>>
        /\ kids' = <<>> /\ index' = here
        /\ UNCHANGED <<tree, way, depth, symbols, here, stack, found, pending>>
    BY <1>0, <1>7 DEF Count, StackInv
  <2>2. /\ step' \in {"child", "pop"} /\ buf' \in {Node(here), Junk} /\ hurt' \in {hurt, TRUE}
    BY <1>7 DEF Count, Traps
  <2>3. WalkTypeOK'
    <3>1. kids' \in Seq(N) /\ index' \in Nat
      BY <1>2, <2>1
    <3>2. /\ step' \in StackSteps /\ buf' \in Buffer /\ here' \in N /\ stack' \in Seq(N)
          /\ found' \in Seq([node : Nat, raw : Nat]) /\ pending' \subseteq Nat \X Nat
          /\ symbols' \in Seq([of : Nat, field : Nat, child : Nat]) /\ hurt' \in BOOLEAN
      BY <1>2, <1>3, <2>1, <2>2 DEF StackSteps
    <3> QED
      BY <1>4, <2>1, <3>1, <3>2
  <2>4. AtPop
    BY <1>0, <1>1, <2>1, BackToPop
  <2>5. AtPop' /\ InHand' /\ Behind(here + 1)' /\ AtChild'
    BY <2>1, <2>4, AtPopUnchanged, InHandUnchanged DEF Behind, AtChild
  <2>6. StackInv' /\ LookInv'
    BY <1>0, <2>1, <2>2, <2>5 DEF StackInv, LookInv
  <2>7. InOrder'
    BY <1>0, <2>1, SameResults DEF resultVars
  <2> QED
    BY <2>3, <2>6, <2>7
<1>8. CASE Child
  <2>1. /\ step = "child" /\ InHand /\ Behind(here + 1) /\ AtChild /\ symbols = <<>>
        /\ UNCHANGED <<tree, way, depth, symbols, here, stack, found, pending>>
    BY <1>0, <1>8 DEF Child, StackInv
  <2>2. PICK c \in Coming : index' = c
    BY <1>8 DEF Child, IsLeast
  <2>3. /\ step' = "child" /\ buf' \in {Node(c), Junk} /\ hurt' \in {hurt, TRUE}
        /\ UNCHANGED kids \/ kids' = Append(kids, c)
    BY <1>8, <2>1, <2>2 DEF Child, Traps
  <2>4. c \in N /\ index < c
    BY <1>1, TreeFacts DEF Coming, NamedChildren
  <2>5. kids' \in Seq(N) /\ AtChild'
    <3>1. CASE UNCHANGED kids
      <4>1. \A i \in DOMAIN kids : kids[i] \in N
        BY <1>3, Element, Zenon
      <4>2. \A i \in DOMAIN kids : kids[i] <= c
        BY <1>3, <2>1, <2>4, <4>1 DEF AtChild
      <4> QED
        BY <1>3, <2>1, <2>2, <3>1, <4>2 DEF AtChild, NamedChildren
    <3>2. CASE kids' = Append(kids, c)
      BY <1>0, <1>1, <2>1, <2>2, <3>2, ChildFacts
    <3> QED
      BY <2>3, <3>1, <3>2
  <2>6. InHand' /\ Behind(here + 1)'
    BY <2>1, InHandUnchanged DEF Behind
  <2>7. buf' \in Buffer /\ hurt' \in BOOLEAN /\ index' \in Nat
    BY <1>2, <1>3, <2>2, <2>3, <2>4, Buffers
  <2>8. WalkTypeOK'
    BY <1>2, <1>3, <1>4, <2>1, <2>3, <2>5, <2>7 DEF StackSteps
  <2>9. StackInv' /\ LookInv'
    BY <1>0, <2>1, <2>3, <2>5, <2>6 DEF StackInv, LookInv
  <2>10. InOrder'
    BY <1>0, <2>1, SameResults DEF resultVars
  <2> QED
    BY <2>8, <2>9, <2>10
<1>9. CASE PushKids
  <2>1. /\ step = "child" /\ InHand /\ Behind(here + 1) /\ AtChild /\ symbols = <<>>
        /\ stack' = stack \o Reversed(kids) /\ step' = "pop"
        /\ UNCHANGED <<tree, way, depth, symbols, buf, here, kids, index, found, pending, hurt>>
    BY <1>0, <1>9 DEF PushKids, StackInv
  <2>2. stack' \in Seq(N) /\ AtPop'
    BY <1>0, <1>1, <2>1, PushFacts
  <2>3. WalkTypeOK'
    BY <1>2, <1>3, <1>4, <2>1, <2>2 DEF StackSteps
  <2>4. StackInv' /\ LookInv'
    BY <1>0, <2>1, <2>2 DEF StackInv, LookInv
  <2>5. InOrder'
    BY <1>0, <2>1, SameResults DEF resultVars
  <2> QED
    BY <2>3, <2>4, <2>5
<1>10. CASE Popped
  <2>1. /\ step = "pop" /\ symbols = <<>> /\ step' = "look"
        /\ pending' = UNION {{i} \X DOMAIN tree.fields[found[i].raw] : i \in DOMAIN found}
        /\ UNCHANGED <<tree, way, depth, symbols, buf, here, stack, kids, index, found, hurt>>
    BY <1>0, <1>10 DEF Popped, StackInv
  <2>2. \A p \in pending' : /\ p \in Nat \X Nat /\ p[1] \in DOMAIN found
                            /\ p[2] \in DOMAIN tree.fields[found[p[1]].raw]
    BY <1>0, <1>1, <2>1, PoppedFacts
  <2>3. pending' \subseteq Nat \X Nat
    BY <2>2, Zenon
  <2>4. WalkTypeOK'
    BY <1>2, <1>3, <1>4, <2>1, <2>3 DEF StackSteps
  <2>5. \A n, k : Later(n, k)'
    BY <2>1 DEF Later
  <2>6. StackInv' /\ LookInv'
    BY <1>0, <2>1, <2>2, <2>5 DEF StackInv, LookInv, Later
  <2>7. InOrder'
    BY <1>0, <2>1, SameResults DEF resultVars
  <2> QED
    BY <2>4, <2>6, <2>7
<1>11. CASE LookUp
  <2>1. /\ step = "look" /\ UNCHANGED <<tree, way, here, depth, stack, kids, index, found>>
    BY <1>11 DEF LookUp
  <2>2. PICK p \in pending :
          LET c == Field(found[p[1]].raw, p[2])
          IN  /\ IsFirst(p, pending)
              /\ pending' = pending \ {p}
              /\ \/ /\ buf' = AfterEndIndex(Node(c))
                    /\ symbols' = IF Found(c)
                                  THEN Append(symbols, [of |-> found[p[1]].node,
                                                        field |-> p[2], child |-> c])
                                  ELSE symbols
                    /\ UNCHANGED <<hurt, step>>
                 \/ Traps("look") /\ UNCHANGED symbols
    BY <1>11 DEF LookUp
  <2> DEFINE c == Field(found[p[1]].raw, p[2])
  <2>3. /\ step' = "look" /\ buf' \in {Node(c), Junk} /\ hurt' \in {hurt, TRUE}
        /\ pending' = pending \ {p} /\ IsFirst(p, pending)
    BY <2>1, <2>2 DEF Traps, AfterEndIndex
  <2>4. \/ UNCHANGED symbols
        \/ /\ Found(c)
           /\ symbols' = Append(symbols, [of |-> found[p[1]].node, field |-> p[2], child |-> c])
    BY <2>2
  <2>5. c \in Nat
    <3>1. found[p[1]].raw \in Nodes(tree)
      BY <1>0, <1>1, <2>1, FoundNodes DEF LookInv
    <3> QED
      BY <1>1, <3>1, FieldTypes
  <2>6. /\ symbols' \in Seq([of : Nat, field : Nat, child : Nat])
        /\ ReportedInOrder'
        /\ \A q \in pending' : /\ q[1] \in DOMAIN found
                               /\ q[2] \in DOMAIN tree.fields[found[q[1]].raw]
                               /\ Later(found[q[1]].node, q[2])'
    BY <1>0, <2>1, <2>3, <2>4, LookUpFacts
  <2> HIDE DEF c
  <2>7. buf' \in Buffer /\ hurt' \in BOOLEAN /\ pending' \subseteq Nat \X Nat
    BY <1>2, <1>3, <2>3, <2>5, Buffers
  <2>8. WalkTypeOK'
    BY <1>2, <1>3, <1>4, <2>1, <2>3, <2>6, <2>7 DEF StackSteps
  <2>9. StackInv' /\ LookInv'
    BY <1>0, <2>1, <2>3, <2>6 DEF StackInv, LookInv, Later, InTurn
  <2>10. FoundInOrder'
    BY <1>0, <2>1 DEF FoundInOrder
  <2> QED
    BY <2>6, <2>8, <2>9, <2>10 DEF InOrder
<1> QED
  BY <1>5, <1>6, <1>7, <1>8, <1>9, <1>10, <1>11 DEF StackStep

-----------------------------------------------------------------------------
(* Query.Exec, and the rest.                                               *)

LEMMA LookUpTypes ==
    ASSUME NEW t, IsTree(t), NEW S, S \subseteq Nodes(t), NEW p, p \in LookUps(t, S)
    PROVE  /\ p \in Nat \X Nat /\ p = <<p[1], p[2]>> /\ p[1] \in S
           /\ p[2] \in DOMAIN t.fields[p[1]]
<1>1. PICK n \in S : p \in {n} \X DOMAIN t.fields[n]
  BY DEF LookUps
<1>2. n \in Nat /\ DOMAIN t.fields[n] \subseteq Nat
  BY TreeFacts
<1> QED
  BY <1>1, <1>2

LEMMA CaptureKeeps ==
    ASSUME WalkInv, Capture
    PROVE  WalkTypeOK' /\ CaptureInv' /\ InOrder'
<1>0. /\ WalkTypeOK /\ CaptureInv /\ FoundInOrder /\ ReportedInOrder
      /\ step = "capture" /\ way = "query" /\ step # "idle"
      /\ UNCHANGED <<tree, way, here, depth, stack, kids, index, found>>
  BY DEF WalkInv, InOrder, Capture, CaptureInv
<1>1. IsTree(tree) /\ tree.hit \subseteq Nodes(tree)
  BY <1>0, InTree, TreeFacts
<1>2. PICK p \in pending :
        LET c == Field(p[1], p[2])
        IN  /\ pending' = pending \ {p}
            /\ \/ /\ buf' = AfterEndIndex(Node(c))
                  /\ symbols' = IF Scanned(c)
                                THEN Append(symbols, [of |-> p[1], field |-> p[2], child |-> c])
                                ELSE symbols
                  /\ UNCHANGED <<hurt, step>>
               \/ Traps("capture") /\ UNCHANGED symbols
  BY DEF Capture
<1> DEFINE c == Field(p[1], p[2])
           n == p[1]
           k == p[2]
<1>3. /\ step' = "capture" /\ buf' \in {Node(c), Junk} /\ hurt' \in {hurt, TRUE}
      /\ pending' = pending \ {p}
  BY <1>0, <1>2 DEF Traps, AfterEndIndex
<1>4. \/ UNCHANGED symbols
      \/ /\ c \notin tree.empty
         /\ symbols' = Append(symbols, [of |-> n, field |-> k, child |-> c])
  BY <1>2 DEF Scanned
<1>5. p \in LookUps(tree, tree.hit) /\ tree.fields[p[1]][p[2]] # 0 /\ Later(n, k)
  BY <1>0 DEF CaptureInv
<1>6. /\ p = <<n, k>> /\ n \in tree.hit /\ n \in Nodes(tree) /\ k \in DOMAIN tree.fields[n]
      /\ n \in Nat /\ k \in Nat
  BY <1>1, <1>5, LookUpTypes
<1>7. c \in Nat /\ c = tree.fields[n][k]
  BY <1>1, <1>6, FieldTypes
<1> HIDE DEF c, n, k
<1>8. buf' \in Buffer /\ hurt' \in BOOLEAN /\ pending' \subseteq Nat \X Nat
  BY <1>0, <1>3, <1>7, Buffers DEF WalkTypeOK
<1>9. symbols' \in Seq([of : Nat, field : Nat, child : Nat])
  BY <1>0, <1>4, <1>6, <1>7, SymbolsMore DEF WalkTypeOK
<1>10. WalkTypeOK'
  BY <1>0, <1>3, <1>8, <1>9 DEF WalkTypeOK, Buffer, Walking
<1>11. FoundInOrder'
  BY <1>0 DEF FoundInOrder
<1>12. ReportedInOrder'
  <2>1. CASE UNCHANGED symbols
    BY <1>0, <2>1 DEF ReportedInOrder, InTurn, NoName, Field
  <2>2. CASE /\ c \notin tree.empty
             /\ symbols' = Append(symbols, [of |-> n, field |-> k, child |-> c])
    <3>1. <<n, k>> \in ToReport(tree, way)
      BY <1>0, <1>5, <1>6, <1>7, <2>2 DEF ToReport, n, k
    <3>2. c = Field(n, k)
      BY DEF c, n, k
    <3> QED
      BY <1>0, <1>5, <1>6, <1>7, <2>2, <3>1, <3>2, ReportedNext
  <2> QED
    BY <1>4, <2>1, <2>2
<1>13. ASSUME NEW q \in pending'
       PROVE  /\ q \in LookUps(tree, tree.hit)
              /\ tree.fields[q[1]][q[2]] # 0
              /\ Later(q[1], q[2])'
  <2>1. q \in pending /\ q # p
    BY <1>3
  <2>2. /\ q \in LookUps(tree, tree.hit) /\ tree.fields[q[1]][q[2]] # 0 /\ Later(q[1], q[2])
    BY <1>0, <2>1 DEF CaptureInv
  <2>3. InTurn(<<n, k>>, <<q[1], q[2]>>)
    <3>1. q = <<q[1], q[2]>>
      BY <1>1, <2>2, LookUpTypes
    <3> QED
      BY <1>0, <1>6, <2>1, <3>1 DEF InTurn
  <2>4. CASE UNCHANGED symbols
    BY <1>0, <2>2, <2>4 DEF Later, InTurn
  <2>5. CASE symbols' = Append(symbols, [of |-> n, field |-> k, child |-> c])
    <3>1. /\ DOMAIN symbols' = 1..(Len(symbols) + 1)
          /\ \A j \in DOMAIN symbols : symbols'[j] = symbols[j]
          /\ symbols'[Len(symbols) + 1].of = n /\ symbols'[Len(symbols) + 1].field = k
      BY <1>0, <1>6, <1>7, <2>5, SymbolsMore
    <3>2. ASSUME NEW i \in DOMAIN symbols'
          PROVE  InTurn(<<symbols'[i].of, symbols'[i].field>>, <<q[1], q[2]>>)
      <4>1. i \in DOMAIN symbols \/ i = Len(symbols) + 1
        BY <1>0, <3>1, ResultTypes
      <4> QED
        BY <2>2, <2>3, <3>1, <4>1 DEF Later
    <3> QED
      BY <1>0, <2>2, <3>2 DEF Later, InTurn
  <2> QED
    BY <1>4, <2>4, <2>5
<1>14. CaptureInv'
  BY <1>0, <1>13 DEF CaptureInv, Later, InTurn
<1> QED
  BY <1>10, <1>11, <1>12, <1>14 DEF InOrder

\* A walk that is over, or has not begun, has all to do or nothing.
LEMMA FreshKeeps ==
    ASSUME NEW w \in Way, NEW t, NEW s, Fresh(w, t, s),
           \/ s = "idle" /\ t = <<>>
           \/ t \in Tree /\ s = FirstStep(w)
    PROVE  WalkInv'
<1>1. /\ tree' = t /\ way' = w /\ step' = s /\ buf' = Node(1) /\ here' = 1 /\ depth' = 0
      /\ stack' = (IF s = "pop" THEN <<1>> ELSE <<>>)
      /\ kids' = <<>> /\ index' = 0 /\ found' = <<>> /\ symbols' = <<>> /\ hurt' = FALSE
      /\ pending' = IF s = "capture"
                    THEN {p \in LookUps(t, t.hit) : t.fields[p[1]][p[2]] # 0} ELSE {}
  BY DEF Fresh
<1>2. \/ s = "idle" /\ t = <<>>
      \/ /\ t \in Tree /\ IsTree(t)
         /\ \/ s = "pop" /\ w = "stack"
            \/ s = "capture" /\ w = "query"
            \/ s = "new" /\ w \in {"cursor", "names", "own"}
  BY TreeAssumption DEF FirstStep, Way
<1>3. pending' \subseteq Nat \X Nat
  <2>1. CASE s = "capture"
    <3>1. IsTree(t) /\ t.hit \subseteq Nodes(t)
      BY <1>2, <2>1, TreeFacts
    <3>2. \A p \in pending' : p \in LookUps(t, t.hit)
      BY <1>1, <2>1
    <3> QED
      BY <3>1, <3>2, LookUpTypes
  <2> QED
    BY <1>1, <2>1
<1>4. WalkTypeOK'
  <2>1. step' \in Walking \cup {"idle", "over"}
    BY <1>1, <1>2 DEF Walking, CursorSteps, StackSteps
  <2>2. IF step' = "idle" THEN tree' = <<>> ELSE tree' \in Tree
    BY <1>1, <1>2
  <2>3. buf' \in Buffer
    BY <1>1, Buffers
  <2>4. stack' \in Seq(Nat \ {0}) /\ kids' \in Seq(Nat \ {0})
    <3>1. <<>> \in Seq(Nat \ {0}) /\ <<1>> \in Seq(Nat \ {0})
      OBVIOUS
    <3>2. stack' \in {<<>>, <<1>>} /\ kids' = <<>>
      BY <1>1
    <3> QED
      BY <3>1, <3>2, Zenon
  <2>5. /\ found' \in Seq([node : Nat, raw : Nat])
        /\ symbols' \in Seq([of : Nat, field : Nat, child : Nat])
    BY <1>1
  <2>6. way' \in Way /\ here' \in Nat \ {0} /\ depth' \in Nat /\ index' \in Nat
    BY <1>1
  <2>7. hurt' \in BOOLEAN
    BY <1>1, Zenon
  <2> QED
    BY <1>3, <2>1, <2>2, <2>3, <2>4, <2>5, <2>6, <2>7 DEF WalkTypeOK, Buffer
<1>5. InOrder'
  BY <1>1 DEF InOrder, FoundInOrder, ReportedInOrder
<1>6. \A n : Behind(n)' /\ \A k : Later(n, k)'
  BY <1>1 DEF Behind, Later
<1>7. CursorInv'
  BY <1>1, <1>2, <1>6, TreeFacts DEF CursorInv, CursorSteps, AtNode, Node
<1>8. StackInv'
  <2>1. CASE s = "pop"
    <3>1. /\ stack' = <<1>> /\ 1 \in Nodes(t) /\ Named(t, 1)
      BY <1>1, <1>2, <2>1, TreeFacts DEF Named
    <3>2. AtPop'
      BY <1>1, <1>6, <3>1 DEF AtPop, OnStack, Nodes, Named, Within, Behind
    <3> QED
      BY <1>1, <1>2, <2>1, <3>2 DEF StackInv
  <2> QED
    BY <1>1, <1>2, <2>1 DEF StackInv
<1>9. LookInv' /\ CaptureInv'
  BY <1>1, <1>2, <1>6 DEF LookInv, CaptureInv, Later
<1> QED
  BY <1>4, <1>5, <1>7, <1>8, <1>9 DEF WalkInv

LEMMA ReportedKeeps ==
    ASSUME WalkInv, AllReported
    PROVE  WalkInv'
<1>1. /\ step' = "over" /\ step # "idle"
      /\ UNCHANGED <<tree, way, depth, symbols, buf, here, stack, kids, index, found, pending, hurt>>
  BY DEF AllReported, stackVars
<1>2. WalkTypeOK'
  BY <1>1 DEF WalkInv, WalkTypeOK
<1>3. InOrder'
  BY <1>1, SameResults DEF WalkInv, resultVars
<1> QED
  BY <1>1, <1>2, <1>3 DEF WalkInv, CursorInv, StackInv, LookInv, CaptureInv, CursorSteps

-----------------------------------------------------------------------------
(* The theorems.                                                           *)

LEMMA WalkInvInit == ASSUME WalkInit PROVE WalkInv
<1>1. /\ WalkTypeOK
  <2>1. buf \in Buffer
    BY Buffers DEF WalkInit
  <2>2. /\ stack \in Seq(Nat \ {0}) /\ kids \in Seq(Nat \ {0})
        /\ found \in Seq([node : Nat, raw : Nat])
        /\ symbols \in Seq([of : Nat, field : Nat, child : Nat])
    BY DEF WalkInit
  <2>3. /\ way \in Way /\ here \in Nat \ {0} /\ depth \in Nat /\ index \in Nat
        /\ pending \subseteq Nat \X Nat /\ step = "idle" /\ tree = <<>>
    BY DEF WalkInit, Way
  <2>4. hurt \in BOOLEAN
    BY Zenon DEF WalkInit
  <2> QED
    BY <2>1, <2>2, <2>3, <2>4 DEF WalkTypeOK, Buffer
<1>2. InOrder
  BY DEF WalkInit, InOrder, FoundInOrder, ReportedInOrder
<1> QED
  BY <1>1, <1>2 DEF WalkInit, WalkInv, CursorInv, StackInv, LookInv, CaptureInv, CursorSteps

\* The step of a walk that is over or has not begun is none of a walk's.
LEMMA WalkInvKept ==
    ASSUME WalkInv, [WalkNext]_walkVars
    PROVE  WalkInv'
<1>1. CASE CursorStep
  <2>1. step' \in CursorSteps \cup {"over"}
    BY <1>1 DEF CursorStep, NewCursor, Visit, CurrentNode, Record, NameChild, Name, GoDown, GoNext,
       GoUp, DeleteCursor, CursorSteps, MoveTo, NoMove, Traps, Unwind
  <2>2. StackInv' /\ LookInv' /\ CaptureInv'
    BY <2>1 DEF StackInv, LookInv, CaptureInv, CursorSteps
  <2> QED
    BY <1>1, <2>2, CursorKeepsTypes, CursorKeepsOrder DEF WalkInv
<1>2. CASE StackStep
  <2>1. step' \in StackSteps
    BY <1>2 DEF StackStep, Pop, Measure, Count, Child, PushKids, Popped, LookUp, StackSteps, Traps
  <2>2. CursorInv' /\ CaptureInv'
    BY <2>1 DEF CursorInv, CaptureInv, CursorSteps, StackSteps
  <2> QED
    BY <1>2, <2>2, StackKeeps DEF WalkInv
<1>3. CASE Capture
  <2>1. step' = "capture"
    BY <1>3 DEF Capture, Traps
  <2>2. CursorInv' /\ StackInv' /\ LookInv'
    BY <2>1 DEF CursorInv, StackInv, LookInv, CursorSteps
  <2> QED
    BY <1>3, <2>2, CaptureKeeps DEF WalkInv
<1>4. CASE AllReported
  BY <1>4, ReportedKeeps
<1>5. CASE Forget
  BY <1>5, FreshKeeps DEF Forget, Way
<1>6. ASSUME NEW w \in Way, NEW t \in Tree, Begin(w, t) PROVE WalkInv'
  BY <1>6, FreshKeeps DEF Begin
<1>7. CASE UNCHANGED walkVars
  BY <1>7 DEF walkVars, WalkInv, WalkTypeOK, InOrder, FoundInOrder, ReportedInOrder, InTurn, NoName, Field,
     NameField, CursorInv, StackInv, AtPop, InHand, AtChild, OnStack, Behind, LookInv, CaptureInv, Later
<1> QED
  BY <1>1, <1>2, <1>3, <1>4, <1>5, <1>6, <1>7 DEF WalkNext, WalkStep

\* The state of a walk keeps its type: trees of any size and shape, any way of
\* reading them, and any calls that trap.
THEOREM WalkTypeCorrect == WalkSpec => []WalkTypeOK
<1>1. WalkInit => WalkInv
  BY WalkInvInit
<1>2. WalkInv /\ [WalkNext]_walkVars => WalkInv'
  BY WalkInvKept
<1>3. WalkInv => WalkTypeOK
  BY DEF WalkInv
<1> QED
  BY <1>1, <1>2, <1>3, PTL DEF WalkSpec

\* The nodes a walk finds and the children it reports are in the order of the
\* source (of a query: of the runtime), once each, and each is what it is to find:
\* for trees of any size and shape, and whatever calls of the runtime fail.
THEOREM WalksFindInOrder == WalkSpec => []InOrder
<1>1. WalkInit => WalkInv
  BY WalkInvInit
<1>2. WalkInv /\ [WalkNext]_walkVars => WalkInv'
  BY WalkInvKept
<1>3. WalkInv => InOrder
  BY DEF WalkInv
<1> QED
  BY <1>1, <1>2, <1>3, PTL DEF WalkSpec

-----------------------------------------------------------------------------
(* What is still ahead of a walk in which no call has failed.              *)

\* What has been found and reported so far.
Got(n) == \E i \in DOMAIN found : found[i].node = n
Told(p) == \E i \in DOMAIN symbols : symbols[i].of = p[1] /\ symbols[i].field = p[2]

\* Nothing that is to be found or reported was missed before n.
AllBefore(n) ==
    /\ \A m \in ToFind(tree, way) : m < n => Got(m)
    /\ \A p \in ToReport(tree, way) : p[1] < n => Told(p)

\* The nodes whose subtrees n is in: as many as the cursor is below the root.
Above(t, n) == {p \in Nodes(t) : p < n /\ Within(t, n, p)}
DepthInv == step \in CursorSteps => depth = Cardinality(Above(tree, here))

\* The cursor goes up when there is no next sibling.
CursorMisses ==
    /\ step \in AtNode \cup {"visit"} => AllBefore(here)
    /\ step = "down" => AllBefore(here + 1)
    /\ step \in {"next", "up"} => AllBefore(tree.last[here] + 1)
    /\ step = "up" => NextSibling(tree, Cursor(here)) = 0
    /\ step \in {"delete", "over"} => AllBefore(Len(tree.last) + 1)

\* A node that was not found lies below one on the stack, below the one in hand,
\* or below a child that is still to come or was collected.
Stacked(n) == \E i \in DOMAIN stack : Within(tree, n, stack[i])
Collected(n) == \E i \in DOMAIN kids : Within(tree, n, kids[i])
Expected(n) == \E c \in Coming : Within(tree, n, c)
StackMisses ==
    \A n \in ToFind(tree, way) :
        /\ step = "pop" => Got(n) \/ Stacked(n)
        /\ step = "measure" => Got(n) \/ Stacked(n) \/ Within(tree, n, here)
        /\ step = "count" => Got(n) \/ Stacked(n) \/ (Within(tree, n, here) /\ n # here)
        /\ step = "child" => Got(n) \/ Stacked(n) \/ Collected(n) \/ Expected(n)
        /\ step = "look" => Got(n)

\* A child that was not reported is still to be looked up.
ReportMisses ==
    \A p \in ToReport(tree, way) :
        /\ step = "look" =>
              Told(p) \/ \E i \in DOMAIN found : found[i].node = p[1] /\ <<i, p[2]>> \in pending
        /\ step = "capture" => Told(p) \/ p \in pending

MissInv == ~hurt /\ step # "idle" => CursorMisses /\ StackMisses /\ ReportMisses

LessThan == {p \in Nat \X Nat : p[1] < p[2]}

\* A set of natural numbers has a least element, and a bounded one a greatest.
LEMMA Least ==
    ASSUME NEW S, S \subseteq Nat, S # {}
    PROVE  \E n \in S : \A m \in S : n <= m
<1>1. IsWellFoundedOn(LessThan, Nat)
  BY NatLessThanWellFounded DEF OpToRel, LessThan
<1>2. PICK n \in S : \A m \in S : ~ (<<m, n>> \in LessThan)
  BY <1>1, WFMin
<1>3. ASSUME NEW m \in S PROVE n <= m
  <2>1. m \in Nat /\ n \in Nat /\ ~ (<<m, n>> \in LessThan)
    BY <1>2
  <2>2. ~ (m < n)
    BY <2>1 DEF LessThan
  <2> QED
    BY <2>1, <2>2
<1> QED
  BY <1>2, <1>3

LEMMA Greatest ==
    ASSUME NEW S, NEW b \in Nat, S \subseteq 0..b, S # {}
    PROVE  \E n \in S : \A m \in S : m <= n
<1> DEFINE T == {k \in 0..b : b - k \in S}
<1>1. T \subseteq Nat /\ T # {}
  <2>1. PICK n \in S : TRUE
    OBVIOUS
  <2>2. b - n \in 0..b /\ b - (b - n) = n
    BY <2>1
  <2> QED
    BY <2>2
<1>2. PICK k \in T : \A j \in T : k <= j
  <2> HIDE DEF T
  <2> QED
    BY <1>1, Least
<1>3. \A m \in S : b - m \in T
  OBVIOUS
<1>4. b - k \in S /\ \A m \in S : m <= b - k
  BY <1>2, <1>3
<1> QED
  BY <1>4

\* The nodes above a node are its parent and those above the parent.
LEMMA AboveParent ==
    ASSUME NEW t, IsTree(t), NEW p \in Nodes(t), NEW n \in Nodes(t), IsParent(t, p, n)
    PROVE  /\ Above(t, n) = Above(t, p) \cup {p} /\ p \notin Above(t, p)
           /\ IsFiniteSet(Above(t, p)) /\ Cardinality(Above(t, n)) = Cardinality(Above(t, p)) + 1
           /\ Cardinality(Above(t, p)) \in Nat
<1>1. /\ p \in Nat /\ n \in Nat /\ p < n /\ Within(t, n, p)
      /\ \A q \in Nodes(t) : q \in Nat /\ t.last[q] \in Nat
      /\ \A q \in (p + 1)..(n - 1) : ~Within(t, n, q)
  BY TreeFacts DEF IsParent
<1>2. ASSUME NEW q \in Above(t, n) PROVE q \in Above(t, p) \cup {p}
  <2>1. q \in Nodes(t) /\ q < n /\ Within(t, n, q)
    BY DEF Above
  <2>2. q \in Nat /\ t.last[q] \in Nat /\ ~ (q \in (p + 1)..(n - 1))
    BY <1>1, <2>1
  <2>3. q <= p
    BY <1>1, <2>1, <2>2
  <2>4. p <= t.last[q]
    BY <1>1, <2>1, <2>2 DEF Within
  <2>5. CASE q = p
    BY <2>5
  <2>6. CASE q # p
    BY <1>1, <2>1, <2>2, <2>3, <2>4, <2>6 DEF Above, Within
  <2> QED
    BY <2>5, <2>6
<1>3. ASSUME NEW q \in Above(t, p) PROVE q \in Above(t, n)
  <2>1. q \in Nodes(t) /\ q < p /\ Within(t, p, q)
    BY DEF Above
  <2>2. t.last[p] <= t.last[q] /\ q \in Nat /\ t.last[p] \in Nat /\ t.last[q] \in Nat
    BY <1>1, <2>1, TreeFacts
  <2>3. q < n /\ Within(t, n, q)
    BY <1>1, <2>1, <2>2 DEF Within
  <2> QED
    BY <2>1, <2>3 DEF Above
<1>4. p \in Above(t, n) /\ p \notin Above(t, p)
  BY <1>1 DEF Above
<1>5. Above(t, n) = Above(t, p) \cup {p}
  BY <1>2, <1>3, <1>4
<1>6. IsFiniteSet(Above(t, p))
  <2>1. Above(t, p) \subseteq 0..p
    <3>1. SUFFICES ASSUME NEW q \in Above(t, p) PROVE q \in 0..p
      OBVIOUS
    <3>2. q \in Nodes(t) /\ q < p
      BY DEF Above
    <3>3. q \in Nat /\ p \in Nat
      BY <1>1, <3>2
    <3> QED
      BY <3>2, <3>3
  <2>2. IsFiniteSet(0..p)
    BY <1>1, FS_Interval
  <2> QED
    BY <2>1, <2>2, FS_Subset
<1> QED
  BY <1>4, <1>5, <1>6, FS_AddElement, FS_CardinalityType

\* A node below another has a parent.
LEMMA HasParent ==
    ASSUME NEW t, IsTree(t), NEW n \in Nodes(t), Above(t, n) # {}
    PROVE  \E p \in Nodes(t) : IsParent(t, p, n)
<1>1. n \in Nat /\ Above(t, n) \subseteq 0..n
  BY TreeFacts DEF Above
<1>2. PICK p \in Above(t, n) : \A q \in Above(t, n) : q <= p
  BY <1>1, Greatest
<1>3. p \in Nodes(t) /\ p \in Nat /\ p < n /\ Within(t, n, p)
  BY <1>1, <1>2 DEF Above
<1>4. ASSUME NEW q \in (p + 1)..(n - 1), Within(t, n, q) PROVE FALSE
  <2>1. q \in Nodes(t)
    BY <1>1, <1>3, TreeFacts
  <2>2. q \in Above(t, n)
    BY <1>1, <1>3, <1>4, <2>1 DEF Above
  <2> QED
    BY <1>2, <1>3, <2>2
<1> QED
  BY <1>3, <1>4 DEF IsParent

\* Only the root has no node above it.
LEMMA RootHasNoneAbove ==
    ASSUME NEW t, IsTree(t), NEW n \in Nodes(t)
    PROVE  /\ 1 \in Nodes(t) /\ t.last[1] = Len(t.last)
           /\ Above(t, 1) = {} /\ Cardinality(Above(t, 1)) = 0
           /\ Above(t, n) = {} => n = 1
<1>1. 1 \in Nodes(t) /\ t.last[1] = Len(t.last)
  BY DEF IsTree, Nodes
<1>2. Above(t, 1) = {}
  BY TreeFacts DEF Above
<1>3. ASSUME n # 1 PROVE 1 \in Above(t, n)
  BY <1>1, <1>3, TreeFacts DEF Above, Within
<1> QED
  BY <1>1, <1>2, <1>3, FS_EmptySet

\* What the cursor's moves do to its depth.
LEMMA Moves ==
    ASSUME NEW t, IsTree(t), NEW n \in Nodes(t)
    PROVE  /\ FirstChild(t, Cursor(n)) # 0 => IsParent(t, n, n + 1)
           /\ FirstChild(t, Cursor(n)) = 0 => t.last[n] = n
           /\ NextSibling(t, Cursor(n)) # 0 =>
                \E p \in Nodes(t) : IsParent(t, p, n) /\ IsParent(t, p, t.last[n] + 1)
           /\ ParentOf(t, Cursor(n)) # 0 => IsParent(t, ParentOf(t, Cursor(n)), n)
           /\ ParentOf(t, Cursor(n)) = 0 => Above(t, n) = {}
           /\ NextSibling(t, Cursor(n)) = 0 => \A p \in Nodes(t) :
                IsParent(t, p, n) => t.last[p] = t.last[n]
<1>1. /\ Cursor(n).kind = "cursor" /\ Cursor(n).at = n
      /\ n \in Nat \ {0} /\ t.last[n] \in Nat /\ n <= t.last[n]
      /\ \A q \in Nodes(t) : q \in Nat \ {0} /\ t.last[q] \in Nat
  BY TreeFacts DEF Cursor
<1>2. FirstChild(t, Cursor(n)) # 0 => IsParent(t, n, n + 1)
  BY <1>1 DEF FirstChild, IsParent, Within
<1>3. FirstChild(t, Cursor(n)) = 0 => t.last[n] = n
  BY <1>1 DEF FirstChild
<1>4. ASSUME NextSibling(t, Cursor(n)) # 0
      PROVE  \E p \in Nodes(t) : IsParent(t, p, n) /\ IsParent(t, p, t.last[n] + 1)
  <2>1. PICK p \in Nodes(t) : IsParent(t, p, n) /\ t.last[n] < t.last[p]
    BY <1>1, <1>4 DEF NextSibling
  <2> DEFINE m == t.last[n] + 1
  <2>2. p < n /\ p < m /\ m <= t.last[p] /\ m \in Nat
    BY <1>1, <2>1 DEF IsParent
  <2>3. ASSUME NEW q \in (p + 1)..(m - 1), Within(t, m, q) PROVE FALSE
    <3>1. q \in Nodes(t)
      BY <1>1, <2>2, TreeFacts
    <3>2. CASE q < n
      <4>1. Within(t, n, q)
        BY <1>1, <2>2, <2>3, <3>1, <3>2 DEF Within
      <4>2. q \in (p + 1)..(n - 1)
        BY <1>1, <2>2, <3>1, <3>2
      <4> QED
        BY <2>1, <4>1, <4>2 DEF IsParent
    <3>3. CASE n <= q
      <4>1. Within(t, q, n)
        BY <1>1, <2>2, <3>1, <3>3 DEF Within
      <4>2. t.last[q] <= t.last[n]
        BY <3>1, <4>1, TreeFacts
      <4> QED
        BY <1>1, <2>3, <3>1, <4>2 DEF Within
    <3> QED
      BY <1>1, <3>1, <3>2, <3>3
  <2>4. IsParent(t, p, m)
    <3>1. p \in Nat /\ Within(t, m, p)
      BY <1>1, <2>2 DEF Within
    <3> HIDE DEF m
    <3>2. \A q \in (p + 1)..(m - 1) : ~Within(t, m, q)
      BY <2>3
    <3> QED
      BY <2>2, <3>1, <3>2 DEF IsParent
  <2> QED
    BY <2>1, <2>4
<1>5. ASSUME NEW p \in Nodes(t), IsParent(t, p, n)
      PROVE  ParentOf(t, Cursor(n)) # 0 /\ IsParent(t, ParentOf(t, Cursor(n)), n)
  <2> DEFINE q == CHOOSE q \in Nodes(t) : IsParent(t, q, n)
  <2>1. ParentOf(t, Cursor(n)) = q
    BY <1>1, <1>5 DEF ParentOf
  <2>2. q \in Nodes(t) /\ IsParent(t, q, n)
    BY <1>5
  <2> QED
    BY <1>1, <2>1, <2>2
<1>6. ParentOf(t, Cursor(n)) # 0 => \E p \in Nodes(t) : IsParent(t, p, n)
  BY <1>1 DEF ParentOf
<1>7. ParentOf(t, Cursor(n)) = 0 => Above(t, n) = {}
  BY <1>5, HasParent
<1>8. ASSUME NextSibling(t, Cursor(n)) = 0, NEW p \in Nodes(t), IsParent(t, p, n)
      PROVE  t.last[p] = t.last[n]
  <2>1. ~(t.last[n] < t.last[p])
    BY <1>1, <1>8 DEF NextSibling
  <2>2. t.last[n] <= t.last[p]
    BY <1>8, TreeFacts DEF IsParent
  <2> QED
    BY <1>1, <2>1, <2>2
<1> QED
  BY <1>2, <1>3, <1>4, <1>5, <1>6, <1>7, <1>8

-----------------------------------------------------------------------------
(* What is to be found and reported.                                       *)

\* It is of nodes of the tree, and of nodes whose type the extractor knows.
LEMMA Wanted ==
    ASSUME WalkTypeOK, step # "idle"
    PROVE  /\ IsTree(tree)
           /\ \A n \in ToFind(tree, way) : n \in tree.hit /\ n \in Nodes(tree)
           /\ \A p \in ToReport(tree, way) :
                /\ p[1] \in tree.hit /\ p[1] \in Nodes(tree) /\ p = <<p[1], p[2]>>
                /\ Field(p[1], p[2]) # 0 /\ Field(p[1], p[2]) \notin tree.empty
                /\ way # "cursor" /\ (way = "names" => p[2] = 1) /\ (way = "own" => p[2] = 0)
                /\ way = "stack" => p[1] \in ToFind(tree, way)
                /\ way # "own" => /\ p \in LookUps(tree, tree.hit)
                                  /\ p[2] \in DOMAIN tree.fields[p[1]]
                                  /\ tree.fields[p[1]][p[2]] # 0
<1>1. IsTree(tree) /\ tree.hit \subseteq Nodes(tree)
  BY InTree, TreeFacts
<1>2. \A n \in ToFind(tree, way) : n \in tree.hit /\ n \in Nodes(tree)
  BY <1>1 DEF ToFind
<1>3. ASSUME NEW p \in ToReport(tree, way)
      PROVE  /\ p[1] \in tree.hit /\ p[1] \in Nodes(tree) /\ p = <<p[1], p[2]>>
             /\ Field(p[1], p[2]) # 0 /\ Field(p[1], p[2]) \notin tree.empty
             /\ way # "cursor" /\ (way = "names" => p[2] = 1) /\ (way = "own" => p[2] = 0)
             /\ way = "stack" => p[1] \in ToFind(tree, way)
             /\ way # "own" => /\ p \in LookUps(tree, tree.hit)
                               /\ p[2] \in DOMAIN tree.fields[p[1]]
                               /\ tree.fields[p[1]][p[2]] # 0
  <2> DEFINE of == IF way = "stack" THEN ToFind(tree, way) ELSE tree.hit
  <2>1. CASE way = "own"
    <3>1. p \in (tree.hit \ tree.empty) \X {0}
      BY <2>1 DEF ToReport
    <3>2. p[1] \in Nodes(tree) /\ p[2] = 0 /\ p = <<p[1], p[2]>> /\ p[1] \notin tree.empty
          /\ p[1] \in tree.hit
      BY <1>1, <3>1
    <3>3. Field(p[1], p[2]) = p[1] /\ p[1] # 0
      BY <1>1, <3>2, FieldTypes, TreeFacts
    <3> QED
      BY <2>1, <3>2, <3>3
  <2>2. CASE way # "own"
    <3>1. p \in {q \in LookUps(tree, of) :
                   /\ way # "cursor" /\ (way = "names" => q[2] = 1)
                   /\ tree.fields[q[1]][q[2]] \notin {0} \cup tree.empty}
      BY <2>2 DEF ToReport
    <3>2. PICK n \in of : p \in {n} \X DOMAIN tree.fields[n]
      BY <3>1 DEF LookUps
    <3>3. p = <<p[1], p[2]>> /\ p[1] = n /\ p[2] \in DOMAIN tree.fields[p[1]]
      BY <3>2
    <3>4. n \in tree.hit /\ n \in Nodes(tree)
      BY <1>1, <1>2, <3>2
    <3>5. p \in LookUps(tree, tree.hit)
      BY <3>2, <3>4 DEF LookUps
    <3>6. way = "stack" => n \in ToFind(tree, way)
      BY <3>2
    <3>7. Field(p[1], p[2]) = tree.fields[p[1]][p[2]]
      BY <1>1, <3>3, <3>4, FieldTypes
    <3> QED
      BY <2>2, <3>1, <3>3, <3>4, <3>5, <3>6, <3>7
  <2> QED
    BY <2>1, <2>2
<1> QED
  BY <1>1, <1>2, <1>3

\* What has been found and reported stays so.
LEMMA Grows ==
    ASSUME WalkTypeOK, NEW n \in Nat, NEW r \in Nat, NEW m \in Nat, NEW k \in Nat, NEW c \in Nat,
           \/ UNCHANGED found
           \/ found' = Append(found, [node |-> n, raw |-> r]),
           \/ UNCHANGED symbols
           \/ symbols' = Append(symbols, [of |-> m, field |-> k, child |-> c])
    PROVE  /\ \A x : Got(x) => Got(x)'
           /\ \A p : Told(p) => Told(p)'
           /\ found' = Append(found, [node |-> n, raw |-> r]) => Got(n)'
           /\ symbols' = Append(symbols, [of |-> m, field |-> k, child |-> c]) => Told(<<m, k>>)'
<1>1. ASSUME found' = Append(found, [node |-> n, raw |-> r])
      PROVE  (\A x : Got(x) => Got(x)') /\ Got(n)'
  <2>1. /\ DOMAIN found = 1..Len(found) /\ Len(found) \in Nat
        /\ DOMAIN found' = 1..(Len(found) + 1)
        /\ \A i \in DOMAIN found : found'[i] = found[i]
        /\ found'[Len(found) + 1].node = n
    BY <1>1, FoundMore, ResultTypes
  <2> QED
    BY <2>1 DEF Got
<1>2. ASSUME symbols' = Append(symbols, [of |-> m, field |-> k, child |-> c])
      PROVE  (\A p : Told(p) => Told(p)') /\ Told(<<m, k>>)'
  <2>1. /\ DOMAIN symbols = 1..Len(symbols) /\ Len(symbols) \in Nat
        /\ DOMAIN symbols' = 1..(Len(symbols) + 1)
        /\ \A i \in DOMAIN symbols : symbols'[i] = symbols[i]
        /\ symbols'[Len(symbols) + 1].of = m
        /\ symbols'[Len(symbols) + 1].field = k
    BY <1>2, SymbolsMore, ResultTypes
  <2> QED
    BY <2>1 DEF Told
<1>3. UNCHANGED found => \A x : Got(x) => Got(x)'
  BY DEF Got
<1>4. UNCHANGED symbols => \A p : Told(p) => Told(p)'
  BY DEF Told
<1> QED
  BY <1>1, <1>2, <1>3, <1>4

\* A step that forgets no result keeps what was before a node, and all before it.
LEMMA BeforeStays ==
    ASSUME WalkTypeOK, step # "idle", NEW m \in Nat, NEW n \in Nat, m <= n, AllBefore(n),
           UNCHANGED <<tree, way>>,
           \A x : Got(x) => Got(x)', \A p : Told(p) => Told(p)'
    PROVE  AllBefore(m)'
<1>1. \A x \in ToFind(tree, way) : x \in Nat
  BY Wanted, TreeFacts
<1>2. \A p \in ToReport(tree, way) : p[1] \in Nat
  BY Wanted, TreeFacts
<1>3. ASSUME NEW x \in ToFind(tree, way), x < m PROVE Got(x)'
  BY <1>1, <1>3 DEF AllBefore
<1>4. ASSUME NEW p \in ToReport(tree, way), p[1] < m PROVE Told(p)'
  BY <1>2, <1>4 DEF AllBefore
<1> QED
  BY <1>3, <1>4 DEF AllBefore

\* All before the next node are all before this one, and what there is of it.
LEMMA BeforeNext ==
    ASSUME WalkTypeOK, step # "idle", NEW n \in Nat, AllBefore(n),
           UNCHANGED <<tree, way>>,
           \A x : Got(x) => Got(x)', \A p : Told(p) => Told(p)',
           n \in ToFind(tree, way) => Got(n)',
           \A p \in ToReport(tree, way) : p[1] = n => Told(p)'
    PROVE  AllBefore(n + 1)'
<1>1. \A x \in ToFind(tree, way) : x \in Nat
  BY Wanted, TreeFacts
<1>2. \A p \in ToReport(tree, way) : p[1] \in Nat
  BY Wanted, TreeFacts
<1>3. ASSUME NEW x \in ToFind(tree, way), x < n + 1 PROVE Got(x)'
  <2>1. x < n \/ x = n
    BY <1>1, <1>3
  <2> QED
    BY <2>1 DEF AllBefore
<1>4. ASSUME NEW p \in ToReport(tree, way), p[1] < n + 1 PROVE Told(p)'
  <2>1. p[1] < n \/ p[1] = n
    BY <1>2, <1>4
  <2> QED
    BY <2>1 DEF AllBefore
<1> QED
  BY <1>3, <1>4 DEF AllBefore

-----------------------------------------------------------------------------
(* The cursor misses nothing.                                              *)

LEMMA CursorKeepsDepth ==
    ASSUME WalkInv, DepthInv, CursorStep
    PROVE  DepthInv'
<1> USE DEF cursorVars
<1>1. /\ WalkTypeOK /\ step \in CursorSteps /\ step # "idle"
      /\ depth = Cardinality(Above(tree, here)) /\ UNCHANGED tree
      /\ IsTree(tree) /\ here \in Nodes(tree)
  <2>1. step \in CursorSteps /\ step # "idle" /\ UNCHANGED tree
    BY DEF CursorStep, NewCursor, Visit, CurrentNode, Record, NameChild, Name, GoDown,
           GoNext, GoUp, DeleteCursor, CursorSteps
  <2> QED
    BY <2>1, InTree DEF WalkInv, CursorInv, DepthInv
<1>2. SUFFICES ASSUME step' \in CursorSteps
               PROVE  depth' = Cardinality(Above(tree, here'))
  BY <1>1 DEF DepthInv
<1>3. ASSUME UNCHANGED <<depth, here>> PROVE depth' = Cardinality(Above(tree, here'))
  BY <1>1, <1>3
<1>4. CASE GoDown
  <2>1. SUFFICES ASSUME FirstChild(tree, Cursor(here)) # 0, here' = FirstChild(tree, Cursor(here)),
                        depth' = depth + 1
                 PROVE  depth' = Cardinality(Above(tree, here'))
    BY <1>3, <1>4 DEF GoDown, MoveTo, NoMove, Restored
  <2>2. here' = here + 1 /\ here + 1 \in Nodes(tree) /\ IsParent(tree, here, here + 1)
    BY <1>1, <2>1, Calls, Moves
  <2>3. Cardinality(Above(tree, here + 1)) = Cardinality(Above(tree, here)) + 1
    BY <1>1, <2>2, AboveParent
  <2> QED
    BY <1>1, <2>1, <2>2, <2>3
<1>5. CASE GoNext
  <2> DEFINE n == NextSibling(tree, Cursor(here))
  <2>1. SUFFICES ASSUME n # 0, here' = n, depth' = depth
                 PROVE  depth' = Cardinality(Above(tree, here'))
    BY <1>3, <1>5 DEF GoNext, MoveTo, NoMove, Restored
  <2>2. n = tree.last[here] + 1 /\ n \in Nodes(tree)
    BY <1>1, <2>1, Calls
  <2>3. PICK p \in Nodes(tree) : IsParent(tree, p, here) /\ IsParent(tree, p, tree.last[here] + 1)
    BY <1>1, <2>1, Moves
  <2>4. /\ Cardinality(Above(tree, here)) = Cardinality(Above(tree, p)) + 1
        /\ Cardinality(Above(tree, n)) = Cardinality(Above(tree, p)) + 1
    BY <1>1, <2>2, <2>3, AboveParent
  <2> QED
    BY <1>1, <2>1, <2>4
<1>6. CASE GoUp
  <2> DEFINE p == ParentOf(tree, Cursor(here))
  <2>1. SUFFICES ASSUME p # 0, here' = p, depth' = depth - 1
                 PROVE  depth' = Cardinality(Above(tree, here'))
    BY <1>3, <1>6 DEF GoUp, MoveTo, NoMove, Restored
  <2>2. p \in Nodes(tree) /\ IsParent(tree, p, here)
    BY <1>1, <2>1, Calls, Moves
  <2>3. /\ Cardinality(Above(tree, here)) = Cardinality(Above(tree, p)) + 1
        /\ Cardinality(Above(tree, p)) \in Nat
    <3> HIDE DEF p
    <3> QED
      BY <1>1, <2>2, AboveParent
  <2> QED
    BY <1>1, <2>1, <2>3
<1>7. CASE NewCursor \/ Visit \/ CurrentNode \/ Record \/ NameChild \/ Name \/ DeleteCursor
  <2>1. UNCHANGED <<depth, here>>
    BY <1>7 DEF NewCursor, Visit, CurrentNode, Record, NameChild, Name, DeleteCursor
  <2> QED
    BY <1>3, <2>1
<1> QED
  BY <1>4, <1>5, <1>6, <1>7 DEF CursorStep

\* A call that does not trap, and does not fail where the tree goes on.
LEMMA CursorMissesNothing ==
    ASSUME WalkInv, DepthInv, CursorMisses, CursorStep, ~hurt'
    PROVE  CursorMisses'
<1> USE DEF cursorVars
<1>1. /\ WalkTypeOK /\ step \in CursorSteps /\ step # "idle" /\ UNCHANGED <<tree, way>>
      /\ IsTree(tree) /\ here \in Nodes(tree) /\ here \in Nat /\ tree.last[here] \in Nat
      /\ Len(tree.last) \in Nat
  <2>1. step \in CursorSteps /\ step # "idle" /\ UNCHANGED <<tree, way>>
    BY DEF CursorStep, NewCursor, Visit, CurrentNode, Record, NameChild, Name, GoDown,
           GoNext, GoUp, DeleteCursor, CursorSteps
  <2>2. WalkTypeOK /\ here \in Nodes(tree) /\ IsTree(tree)
    BY <2>1, InTree DEF WalkInv, CursorInv
  <2> QED
    BY <2>1, <2>2, TreeFacts
<1>2. UNCHANGED <<found, symbols>> =>
        (\A x : Got(x) => Got(x)') /\ (\A p : Told(p) => Told(p)')
  BY DEF Got, Told
<1>3. Restored = Cursor(here) /\ NodeAt(Restored) = here /\ Cursor(here).kind = "cursor"
      /\ Cursor(here).at = here
  BY DEF Restored, NodeAt, Cursor
<1> PICK h, e : h = here /\ e = tree.last[here]
  OBVIOUS
<1>4. CASE NewCursor
  <2>1. step = "new" /\ step' = "visit" /\ UNCHANGED here
    BY <1>4 DEF NewCursor, Traps
  <2>2. here = 1
    BY <1>1, <2>1 DEF WalkInv, CursorInv
  <2>3. \A m \in ToFind(tree, way) : ~ (m < 1)
    BY <1>1, Wanted, TreeFacts
  <2>4. \A p \in ToReport(tree, way) : ~ (p[1] < 1)
    BY <1>1, Wanted, TreeFacts
  <2>5. AllBefore(here)'
    BY <1>1, <2>1, <2>2, <2>3, <2>4 DEF AllBefore
  <2> QED
    BY <2>1, <2>5 DEF CursorMisses, AtNode
<1>5. CASE Visit
  <2>1. /\ step = "visit" /\ step' = IF here \in tree.hit THEN "node" ELSE "down"
        /\ UNCHANGED <<here, found, symbols>>
    BY <1>3, <1>5 DEF Visit, Traps
  <2>2. AllBefore(here)
    BY <2>1 DEF CursorMisses
  <2>3. CASE here \in tree.hit
    <3>1. AllBefore(here)'
      BY <1>1, <1>2, <2>1, <2>2, BeforeStays
    <3> QED
      BY <2>1, <2>3, <3>1 DEF CursorMisses, AtNode
  <2>4. CASE here \notin tree.hit
    <3>1. /\ here \notin ToFind(tree, way)
          /\ \A p \in ToReport(tree, way) : p[1] # here
      BY <1>1, <2>4, Wanted
    <3>2. AllBefore(here + 1)'
      BY <1>1, <1>2, <2>1, <2>2, <3>1, BeforeNext
    <3> QED
      BY <2>1, <2>4, <3>2 DEF CursorMisses, AtNode
  <2> QED
    BY <2>3, <2>4
<1>6. CASE CurrentNode \/ NameChild
  <2>1. step \in AtNode /\ step' \in AtNode /\ UNCHANGED <<here, found, symbols>>
    BY <1>6 DEF CurrentNode, NameChild, Traps, AtNode
  <2>2. AllBefore(here)'
    BY <1>1, <1>2, <2>1, BeforeStays DEF CursorMisses
  <2> QED
    BY <2>1, <2>2 DEF CursorMisses, AtNode
<1>7. CASE Record
  <2>1. /\ step = "end" /\ step' = "down" /\ UNCHANGED <<here, symbols>>
        /\ found' = Append(found, [node |-> buf.at, raw |-> AfterEndIndex(buf).at])
    BY <1>7 DEF Record, Traps
  <2>2. AllBefore(here) /\ way = "cursor" /\ buf.at = here /\ AfterEndIndex(buf).at = here
    BY <2>1 DEF CursorMisses, AtNode, WalkInv, CursorInv, CursorSteps, Node, AfterEndIndex
  <2>3. (\A x : Got(x) => Got(x)') /\ (\A p : Told(p) => Told(p)') /\ Got(h)'
    BY <1>1, <2>1, <2>2, Grows
  <2>4. ToReport(tree, way) = {}
    BY <1>1, <2>2, Wanted
  <2>5. AllBefore(h + 1)'
    BY <1>1, <2>2, <2>3, <2>4, BeforeNext
  <2> QED
    BY <2>1, <2>5 DEF CursorMisses, AtNode
<1>8. CASE Name
  <2> PICK k : k = NameField
    OBVIOUS
  <2>1. step = "width" /\ step' = "down" /\ UNCHANGED <<here, found>>
    BY <1>8 DEF Name, Traps
  <2>2. /\ AllBefore(here) /\ way \in {"names", "own"} /\ k = (IF way = "own" THEN 0 ELSE 1)
        /\ buf.at = Field(here, k) /\ Field(here, k) \in Nat /\ k \in Nat
    BY <1>1, <2>1, FieldTypes
    DEF CursorMisses, AtNode, WalkInv, CursorInv, CursorSteps, Node, NameField
  <2>3. \/ symbols' = Append(symbols, [of |-> here, field |-> k, child |-> Field(here, k)])
        \/ /\ UNCHANGED symbols
           /\ Field(here, k) = 0 \/ Field(here, k) \in tree.empty
    <3>1. CASE symbols' = Append(symbols, [of |-> here, field |-> NameField, child |-> buf.at])
      BY <2>2, <3>1
    <3>2. CASE UNCHANGED symbols /\ (buf.at = 0 \/ ~HasWidth(buf.at))
      BY <2>2, <3>2 DEF HasWidth
    <3> QED
      BY <1>8, <3>1, <3>2 DEF Name, Traps
  <2>4. (\A x : Got(x) => Got(x)') /\ (\A p : Told(p) => Told(p)')
    BY <1>1, <2>1, <2>2, <2>3, Grows
  <2>5. ASSUME NEW p \in ToReport(tree, way), p[1] = here PROVE Told(p)'
    <3>1. p = <<here, k>> /\ Field(here, k) # 0 /\ Field(here, k) \notin tree.empty
      BY <1>1, <2>2, <2>5, Wanted
    <3>2. symbols' = Append(symbols, [of |-> here, field |-> k, child |-> Field(here, k)])
      BY <2>3, <3>1
    <3> QED
      BY <1>1, <2>1, <2>2, <3>1, <3>2, Grows
  <2>6. here \notin ToFind(tree, way)
    BY <2>2 DEF ToFind
  <2>7. AllBefore(h + 1)'
    BY <1>1, <2>2, <2>4, <2>5, <2>6, BeforeNext
  <2> QED
    BY <2>1, <2>7 DEF CursorMisses, AtNode
<1>9. CASE GoDown
  <2> DEFINE n == FirstChild(tree, Cursor(here))
  <2>1. /\ step = "down" /\ UNCHANGED <<found, symbols>>
        /\ \/ n # 0 /\ here' = n /\ step' = "visit"
           \/ n = 0 /\ here' = here /\ step' = "next"
    BY <1>3, <1>9 DEF GoDown, MoveTo, NoMove, Traps
  <2>2. AllBefore(h + 1)'
    BY <1>1, <1>2, <2>1, BeforeStays DEF CursorMisses
  <2>3. n # 0 => n = here + 1
    BY <1>1, Calls
  <2>4. n = 0 => tree.last[here] = here
    BY <1>1, Moves
  <2> QED
    BY <1>1, <2>1, <2>2, <2>3, <2>4 DEF CursorMisses, AtNode
<1>10. CASE GoNext
  <2> DEFINE n == NextSibling(tree, Cursor(here))
  <2>1. /\ step = "next" /\ UNCHANGED <<found, symbols, depth>>
        /\ \/ n # 0 /\ here' = n /\ step' = "visit"
           \/ n = 0 /\ here' = here /\ step' = Unwind
    BY <1>3, <1>10 DEF GoNext, MoveTo, NoMove, Traps
  <2>2. AllBefore(e + 1)'
    BY <1>1, <1>2, <2>1, BeforeStays DEF CursorMisses
  <2>3. n # 0 => n = tree.last[here] + 1
    BY <1>1, Calls
  <2>4. ASSUME n = 0, depth = 0 PROVE tree.last[here] = Len(tree.last)
    <3>1. ASSUME NEW p \in Nodes(tree), IsParent(tree, p, here) PROVE FALSE
      <4>1. /\ Cardinality(Above(tree, here)) = Cardinality(Above(tree, p)) + 1
            /\ Cardinality(Above(tree, p)) \in Nat
        BY <1>1, <3>1, AboveParent
      <4> QED
        BY <1>1, <2>4, <4>1 DEF DepthInv
    <3>2. Above(tree, here) = {}
      BY <1>1, <3>1, HasParent
    <3> QED
      BY <1>1, <3>2, RootHasNoneAbove
  <2>5. CASE n # 0
    BY <1>1, <2>1, <2>2, <2>3, <2>5 DEF CursorMisses, AtNode
  <2>6. CASE n = 0 /\ depth = 0
    BY <1>1, <2>1, <2>2, <2>4, <2>6 DEF CursorMisses, AtNode, Unwind
  <2>7. CASE n = 0 /\ depth # 0
    BY <1>1, <2>1, <2>2, <2>7 DEF CursorMisses, AtNode, Unwind
  <2> QED
    BY <2>5, <2>6, <2>7
<1>11. CASE GoUp
  <2> DEFINE p == ParentOf(tree, Cursor(here))
  <2>1. /\ step = "up" /\ UNCHANGED <<found, symbols>>
        /\ \/ p # 0 /\ here' = p /\ step' = "next"
           \/ p = 0 /\ here' = here /\ step' = "delete"
    BY <1>3, <1>11 DEF GoUp, MoveTo, NoMove, Traps
  <2>2. AllBefore(e + 1)' /\ NextSibling(tree, Cursor(here)) = 0
    BY <1>1, <1>2, <2>1, BeforeStays DEF CursorMisses
  <2>3. p # 0 => tree.last[p] = tree.last[here]
    <3>1. p # 0 => p \in Nodes(tree) /\ IsParent(tree, p, here)
      BY <1>1, Calls, Moves
    <3>2. \A q \in Nodes(tree) : IsParent(tree, q, here) => tree.last[q] = tree.last[here]
      BY <1>1, <2>2, Moves
    <3> HIDE DEF p
    <3> QED
      BY <3>1, <3>2
  <2>4. p = 0 => tree.last[here] = Len(tree.last)
    BY <1>1, Moves, RootHasNoneAbove
  <2> QED
    BY <1>1, <2>1, <2>2, <2>3, <2>4 DEF CursorMisses, AtNode
<1>12. CASE DeleteCursor
  <2>1. step = "delete" /\ step' = "over" /\ UNCHANGED <<found, symbols>>
    BY <1>12 DEF DeleteCursor
  <2>2. AllBefore(Len(tree.last) + 1)'
    BY <1>1, <1>2, <2>1, BeforeStays DEF CursorMisses
  <2> QED
    BY <1>1, <2>1, <2>2 DEF CursorMisses, AtNode
<1> QED
  BY <1>4, <1>5, <1>6, <1>7, <1>8, <1>9, <1>10, <1>11, <1>12 DEF CursorStep

-----------------------------------------------------------------------------
(* The stack, the look-ups and the captures miss nothing.                  *)

\* A node below one reached through named nodes is it, or below a named child.
LEMMA BelowAChild ==
    ASSUME NEW t, IsTree(t), NEW p \in Nodes(t), NEW n \in Nodes(t),
           Within(t, n, p), n # p, Named(t, n)
    PROVE  \E c \in NamedChildren(t, p) : Within(t, n, c)
<1> DEFINE S == {c \in Nodes(t) : p < c /\ Within(t, n, c)}
<1>1. /\ \A q \in Nodes(t) : q \in Nat \ {0} /\ t.last[q] \in Nat /\ q <= t.last[q]
      /\ p \in Nat \ {0} /\ n \in Nat /\ p <= n /\ n <= t.last[p]
  BY TreeFacts DEF Within
<1>2. n \in S
  BY <1>1 DEF Within
<1>3. S \subseteq Nat
  BY <1>1
<1>4. PICK c \in S : \A d \in S : c <= d
  <2> HIDE DEF S
  <2> QED
    BY <1>2, <1>3, Least
<1>5. c \in Nodes(t) /\ c \in Nat /\ p < c /\ c <= n /\ n <= t.last[c] /\ Within(t, n, c)
  BY <1>1, <1>4 DEF Within
<1>6. ASSUME NEW q \in (p + 1)..(c - 1), Within(t, c, q) PROVE FALSE
  <2>1. q \in Nat /\ p < q /\ q < c
    BY <1>1, <1>5
  <2>2. q \in Nodes(t)
    BY <1>1, <1>5, <2>1, TreeFacts
  <2>3. t.last[c] <= t.last[q]
    BY <1>5, <1>6, <2>2, TreeFacts
  <2>4. Within(t, n, q)
    BY <1>1, <1>5, <2>1, <2>2, <2>3 DEF Within
  <2> QED
    BY <1>1, <1>4, <1>5, <2>1, <2>2, <2>4
<1>7. IsParent(t, p, c)
  <2>1. Within(t, c, p)
    BY <1>1, <1>5 DEF Within
  <2> QED
    BY <1>5, <1>6, <2>1 DEF IsParent
<1>8. c \in t.named
  <2>1. c \in 2..n
    BY <1>1, <1>5
  <2> QED
    BY <1>5, <2>1 DEF Named
<1> QED
  BY <1>5, <1>7, <1>8 DEF NamedChildren

\* The stack of a node more, and the stack without its top.
LEMMA TopOff ==
    ASSUME NEW s \in Seq(Nat \ {0}), s # <<>>
    PROVE  LET r == SubSeq(s, 1, Len(s) - 1)
           IN  \A i \in DOMAIN s : i = Len(s) \/ (i \in DOMAIN r /\ r[i] = s[i])
OBVIOUS

LEMMA PopMissesNothing ==
    ASSUME WalkInv, StackMisses, Pop, ~hurt'
    PROVE  StackMisses'
<1>1. /\ WalkTypeOK /\ step = "pop" /\ stack # <<>> /\ stack \in Seq(Nat \ {0})
      /\ UNCHANGED <<tree, way, found>>
      /\ here' = stack[Len(stack)] /\ stack' = SubSeq(stack, 1, Len(stack) - 1)
      /\ step' = IF here' \in tree.hit THEN "measure" ELSE "count"
  BY DEF WalkInv, WalkTypeOK, Pop, stackVars, Traps
<1>2. SUFFICES ASSUME NEW n \in ToFind(tree, way)
               PROVE  /\ step' = "measure" => (Got(n) \/ Stacked(n) \/ Within(tree, n, here))'
                      /\ step' = "count" =>
                            (Got(n) \/ Stacked(n) \/ (Within(tree, n, here) /\ n # here))'
  BY <1>1 DEF StackMisses
<1>3. n \in tree.hit
  BY <1>1, Wanted
<1>4. Got(n) \/ Stacked(n)
  BY <1>1 DEF StackMisses
<1>5. Got(n) => Got(n)'
  BY <1>1 DEF Got
<1>6. ASSUME Stacked(n) PROVE Stacked(n)' \/ Within(tree, n, here')
  <2>1. PICK i \in DOMAIN stack : Within(tree, n, stack[i])
    BY <1>6 DEF Stacked
  <2>2. CASE i = Len(stack)
    BY <1>1, <2>1, <2>2
  <2>3. CASE i \in DOMAIN stack' /\ stack'[i] = stack[i]
    BY <1>1, <2>1, <2>3 DEF Stacked
  <2> QED
    BY <1>1, <2>2, <2>3, TopOff
<1> QED
  BY <1>1, <1>3, <1>4, <1>5, <1>6

LEMMA MeasureMissesNothing ==
    ASSUME WalkInv, StackMisses, Measure, ~hurt'
    PROVE  StackMisses'
<1>1. /\ WalkTypeOK /\ step = "measure" /\ step' = "count" /\ UNCHANGED <<tree, way, here, stack>>
      /\ UNCHANGED symbols
      /\ found' = IF here \in tree.empty THEN found
                  ELSE Append(found, [node |-> here, raw |-> here])
  BY DEF WalkInv, Measure, stackVars, Traps
<1>2. way = "stack" /\ here \in Nat
  BY <1>1 DEF WalkInv, StackInv, WalkTypeOK
<1>3. (\A n : Got(n) => Got(n)') /\ (here \notin tree.empty => Got(here)')
  BY <1>1, <1>2, Grows
<1>4. SUFFICES ASSUME NEW n \in ToFind(tree, way)
               PROVE  (Got(n) \/ Stacked(n) \/ (Within(tree, n, here) /\ n # here))'
  BY <1>1 DEF StackMisses
<1>5. Got(n) \/ Stacked(n) \/ Within(tree, n, here)
  BY <1>1 DEF StackMisses
<1>6. Stacked(n) => Stacked(n)'
  BY <1>1 DEF Stacked
<1>7. n \notin tree.empty
  BY <1>2 DEF ToFind
<1>8. CASE n = here
  BY <1>1, <1>3, <1>7, <1>8
<1>9. CASE n # here
  BY <1>1, <1>3, <1>5, <1>6, <1>9
<1> QED
  BY <1>8, <1>9

LEMMA CountMissesNothing ==
    ASSUME WalkInv, StackMisses, Count, ~hurt'
    PROVE  StackMisses'
<1>1. /\ WalkTypeOK /\ step = "count" /\ step' = "child" /\ UNCHANGED <<tree, way, here, stack, found>>
      /\ kids' = <<>> /\ index' = here
  BY DEF WalkInv, Count, stackVars, Traps
<1>2. way = "stack" /\ here \in Nodes(tree) /\ IsTree(tree)
  BY <1>1, InTree DEF WalkInv, StackInv, InHand
<1>3. SUFFICES ASSUME NEW n \in ToFind(tree, way)
               PROVE  (Got(n) \/ Stacked(n) \/ Expected(n))'
  BY <1>1 DEF StackMisses
<1>4. Got(n) \/ Stacked(n) \/ (Within(tree, n, here) /\ n # here)
  BY <1>1 DEF StackMisses
<1>5. (Got(n) => Got(n)') /\ (Stacked(n) => Stacked(n)')
  BY <1>1 DEF Got, Stacked
<1>6. ASSUME Within(tree, n, here), n # here PROVE Expected(n)'
  <2>1. n \in Nodes(tree) /\ Named(tree, n)
    BY <1>1, <1>2, Wanted DEF ToFind
  <2>2. PICK c \in NamedChildren(tree, here) : Within(tree, n, c)
    BY <1>2, <1>6, <2>1, BelowAChild
  <2>3. c > here
    BY <1>2, TreeFacts DEF NamedChildren, IsParent
  <2> QED
    BY <1>1, <2>2, <2>3 DEF Expected, Coming
<1> QED
  BY <1>4, <1>5, <1>6

LEMMA ChildMissesNothing ==
    ASSUME WalkInv, StackMisses, Child, ~hurt'
    PROVE  StackMisses'
<1>1. /\ WalkTypeOK /\ step = "child" /\ step' = "child" /\ UNCHANGED <<tree, way, here, stack, found>>
      /\ IsLeast(index', Coming) /\ kids' = Append(kids, index') /\ kids \in Seq(Nat \ {0})
  BY DEF WalkInv, WalkTypeOK, Child, stackVars, Traps
<1>2. SUFFICES ASSUME NEW n \in ToFind(tree, way)
               PROVE  (Got(n) \/ Stacked(n) \/ Collected(n) \/ Expected(n))'
  BY <1>1 DEF StackMisses
<1>3. Got(n) \/ Stacked(n) \/ Collected(n) \/ Expected(n)
  BY <1>1 DEF StackMisses
<1>4. (Got(n) => Got(n)') /\ (Stacked(n) => Stacked(n)')
  BY <1>1 DEF Got, Stacked
<1>5. /\ index' \in Coming /\ \A c \in Coming : index' <= c
      /\ \A c \in Coming : c \in NamedChildren(tree, here) /\ c \in Nat \ {0}
  BY <1>1, InTree, TreeFacts DEF IsLeast, Coming, NamedChildren
<1>6. /\ DOMAIN kids' = 1..(Len(kids) + 1) /\ DOMAIN kids = 1..Len(kids) /\ Len(kids) \in Nat
      /\ \A i \in DOMAIN kids : kids'[i] = kids[i]
      /\ kids'[Len(kids) + 1] = index'
  BY <1>1, <1>5, Appended, Element
<1>7. Collected(n) => Collected(n)'
  BY <1>1, <1>6 DEF Collected
<1>8. ASSUME NEW c \in Coming, Within(tree, n, c) PROVE Collected(n)' \/ Expected(n)'
  <2>1. CASE c = index'
    BY <1>1, <1>6, <1>8, <2>1 DEF Collected
  <2>2. CASE c # index'
    <3>1. c > index'
      BY <1>5, <2>2
    <3>2. c \in Coming'
      BY <1>1, <1>5, <3>1 DEF Coming
    <3> QED
      BY <1>1, <1>8, <3>2 DEF Expected
  <2> QED
    BY <2>1, <2>2
<1> QED
  BY <1>3, <1>4, <1>7, <1>8 DEF Expected

LEMMA PushMissesNothing ==
    ASSUME WalkInv, StackMisses, PushKids
    PROVE  StackMisses'
<1>1. /\ WalkTypeOK /\ step = "child" /\ step' = "pop" /\ UNCHANGED <<tree, way, found>>
      /\ Coming = {} /\ stack' = stack \o Reversed(kids)
      /\ kids \in Seq(Nat \ {0}) /\ stack \in Seq(Nat \ {0})
  BY DEF WalkInv, WalkTypeOK, PushKids, stackVars
<1>2. SUFFICES ASSUME NEW n \in ToFind(tree, way) PROVE (Got(n) \/ Stacked(n))'
  BY <1>1 DEF StackMisses
<1>3. Got(n) \/ Stacked(n) \/ Collected(n)
  BY <1>1 DEF StackMisses, Expected
<1>4. Got(n) => Got(n)'
  BY <1>1 DEF Got
<1>5. Len(stack) \in Nat /\ Len(kids) \in Nat /\ DOMAIN stack = 1..Len(stack)
      /\ DOMAIN kids = 1..Len(kids)
  BY <1>1
<1>6. /\ DOMAIN stack' = 1..(Len(stack) + Len(kids))
      /\ \A i \in 1..Len(stack) : stack'[i] = stack[i]
      /\ \A i \in (Len(stack) + 1)..(Len(stack) + Len(kids)) :
            stack'[i] = Reversed(kids)[i - Len(stack)]
  <2> DEFINE r == Reversed(kids)
             N == Nat \ {0}
  <2>1. r \in Seq(N) /\ Len(r) = Len(kids) /\ stack \in Seq(N) /\ stack' = stack \o r
    BY <1>1, ReversedFacts
  <2> HIDE DEF r, N
  <2>2. /\ DOMAIN (stack \o r) = 1..(Len(stack) + Len(r))
        /\ \A i \in 1..Len(stack) : (stack \o r)[i] = stack[i]
        /\ \A i \in (Len(stack) + 1)..(Len(stack) + Len(r)) : (stack \o r)[i] = r[i - Len(stack)]
    BY <2>1, Concatenated, Zenon
  <2>3. /\ DOMAIN stack' = 1..(Len(stack) + Len(kids))
        /\ \A i \in 1..Len(stack) : stack'[i] = stack[i]
        /\ \A i \in (Len(stack) + 1)..(Len(stack) + Len(kids)) : stack'[i] = r[i - Len(stack)]
    BY <2>1, <2>2, Zenon
  <2> QED
    BY <2>3 DEF r
<1>7. Stacked(n) => Stacked(n)'
  BY <1>1, <1>5, <1>6 DEF Stacked
<1>8. ASSUME NEW i \in DOMAIN kids, Within(tree, n, kids[i]) PROVE Stacked(n)'
  <2> DEFINE k == Len(kids) + 1 - i
             j == Len(stack) + k
  <2>1. i \in Nat /\ 1 <= i /\ i <= Len(kids)
    BY <1>5
  <2>2. k \in 1..Len(kids) /\ Len(kids) + 1 - k = i
    BY <1>5, <2>1
  <2> HIDE DEF k
  <2>3. /\ j \in (Len(stack) + 1)..(Len(stack) + Len(kids)) /\ j - Len(stack) = k
        /\ j \in 1..(Len(stack) + Len(kids))
    BY <1>5, <2>2
  <2>4. Reversed(kids)[k] = kids[i]
    <3>1. Reversed(kids)[k] = kids[Len(kids) + 1 - k]
      BY <1>1, <2>2, ReversedFacts
    <3> QED
      BY <2>2, <3>1
  <2> HIDE DEF j
  <2>5. j \in DOMAIN stack' /\ stack'[j] = kids[i]
    BY <1>6, <2>3, <2>4
  <2> QED
    BY <1>1, <1>8, <2>5 DEF Stacked
<1> QED
  BY <1>3, <1>4, <1>7, <1>8 DEF Collected

LEMMA PoppedMissesNothing ==
    ASSUME WalkInv, StackMisses, Popped
    PROVE  StackMisses' /\ ReportMisses'
<1>1. /\ WalkTypeOK /\ step = "pop" /\ step' = "look" /\ UNCHANGED <<tree, way, found, symbols>>
      /\ stack = <<>>
      /\ pending' = UNION {{i} \X DOMAIN tree.fields[found[i].raw] : i \in DOMAIN found}
  BY DEF WalkInv, Popped, stackVars
<1>2. way = "stack"
  BY <1>1 DEF WalkInv, StackInv
<1>3. \A n \in ToFind(tree, way) : Got(n)
  BY <1>1 DEF StackMisses, Stacked
<1>4. StackMisses'
  BY <1>1, <1>3 DEF StackMisses, Got
<1>5. ASSUME NEW p \in ToReport(tree, way)
      PROVE  \E i \in DOMAIN found : found[i].node = p[1] /\ <<i, p[2]>> \in pending'
  <2>1. p[1] \in ToFind(tree, way) /\ p[2] \in DOMAIN tree.fields[p[1]]
    BY <1>1, <1>2, Wanted
  <2>2. PICK i \in DOMAIN found : found[i].node = p[1]
    BY <1>3, <2>1 DEF Got
  <2>3. found[i].raw = p[1]
    BY <2>2 DEF WalkInv, InOrder, FoundInOrder
  <2>4. <<i, p[2]>> \in {i} \X DOMAIN tree.fields[found[i].raw]
    BY <2>1, <2>3
  <2> QED
    BY <1>1, <2>2, <2>4
<1>6. ReportMisses'
  BY <1>1, <1>5 DEF ReportMisses
<1> QED
  BY <1>4, <1>6

LEMMA LookMissesNothing ==
    ASSUME WalkInv, StackMisses, ReportMisses, LookUp, ~hurt'
    PROVE  StackMisses' /\ ReportMisses'
<1>1. PICK p \in pending :
        /\ pending' = pending \ {p}
        /\ symbols' = IF Found(Field(found[p[1]].raw, p[2]))
                      THEN Append(symbols, [of |-> found[p[1]].node, field |-> p[2],
                                            child |-> Field(found[p[1]].raw, p[2])])
                      ELSE symbols
  BY DEF LookUp, Traps
<1>2. WalkTypeOK /\ step = "look" /\ step' = "look" /\ UNCHANGED <<tree, way, found>>
  BY DEF WalkInv, LookUp, Traps
<1>3. /\ p = <<p[1], p[2]>> /\ p[1] \in DOMAIN found /\ p[2] \in Nat /\ IsTree(tree)
      /\ found[p[1]].raw = found[p[1]].node /\ found[p[1]].node \in Nodes(tree)
  <2>1. pending \subseteq Nat \X Nat /\ p[1] \in DOMAIN found
    BY <1>2 DEF WalkTypeOK, WalkInv, LookInv
  <2>2. found[p[1]].node \in ToFind(tree, way) /\ found[p[1]].raw = found[p[1]].node
    BY <2>1 DEF WalkInv, InOrder, FoundInOrder
  <2> QED
    BY <1>2, <2>1, <2>2, Wanted
<1> PICK n : n = found[p[1]].node
  OBVIOUS
<1>4. n \in Nat /\ Field(n, p[2]) \in Nat
  BY <1>3, TreeFacts, FieldTypes
<1>5. /\ \A x : Told(x) => Told(x)'
      /\ Found(Field(n, p[2])) => Told(<<n, p[2]>>)'
  <2>1. symbols' = IF Found(Field(n, p[2]))
                   THEN Append(symbols, [of |-> n, field |-> p[2], child |-> Field(n, p[2])])
                   ELSE symbols
    BY <1>1, <1>3
  <2> QED
    BY <1>2, <1>3, <1>4, <2>1, Grows
<1>6. StackMisses'
  BY <1>2 DEF StackMisses, Got
<1>7. ASSUME NEW q \in ToReport(tree, way)
      PROVE  \/ Told(q)'
             \/ \E i \in DOMAIN found : found[i].node = q[1] /\ <<i, q[2]>> \in pending'
  <2>1. CASE Told(q)
    BY <1>5, <2>1
  <2>2. ASSUME NEW i \in DOMAIN found, found[i].node = q[1], <<i, q[2]>> \in pending
        PROVE  \/ Told(q)'
               \/ \E j \in DOMAIN found : found[j].node = q[1] /\ <<j, q[2]>> \in pending'
    <3>1. CASE <<i, q[2]>> = p
      <4>1. q = <<q[1], q[2]>> /\ q[1] = n /\ q[2] = p[2] /\ Found(Field(n, p[2]))
        BY <1>2, <1>3, <2>2, <3>1, Wanted DEF Found
      <4> QED
        BY <1>5, <4>1
    <3>2. CASE <<i, q[2]>> # p
      BY <1>1, <2>2, <3>2
    <3> QED
      BY <3>1, <3>2
  <2> QED
    BY <1>2, <2>1, <2>2 DEF ReportMisses
<1>8. ReportMisses'
  BY <1>2, <1>7 DEF ReportMisses
<1> QED
  BY <1>6, <1>8

LEMMA CaptureMissesNothing ==
    ASSUME WalkInv, ReportMisses, Capture, ~hurt'
    PROVE  ReportMisses'
<1>1. PICK p \in pending :
        /\ pending' = pending \ {p}
        /\ symbols' = IF Scanned(Field(p[1], p[2]))
                      THEN Append(symbols, [of |-> p[1], field |-> p[2],
                                            child |-> Field(p[1], p[2])])
                      ELSE symbols
  BY DEF Capture, Traps
<1>2. WalkTypeOK /\ step = "capture" /\ step' = "capture" /\ UNCHANGED <<tree, way, found>>
  BY DEF WalkInv, Capture, Traps
<1>3. p = <<p[1], p[2]>> /\ p[1] \in Nat /\ p[2] \in Nat
  BY <1>2 DEF WalkTypeOK
<1>4. Field(p[1], p[2]) \in Nat
  <2>1. IsTree(tree) /\ p \in LookUps(tree, tree.hit)
    BY <1>2, InTree DEF WalkInv, CaptureInv
  <2>2. p[1] \in Nodes(tree)
    BY <2>1, TreeFacts DEF LookUps
  <2> QED
    BY <2>1, <2>2, FieldTypes
<1>5. /\ \A x : Told(x) => Told(x)'
      /\ Scanned(Field(p[1], p[2])) => Told(<<p[1], p[2]>>)'
  BY <1>1, <1>2, <1>3, <1>4, Grows
<1>6. ASSUME NEW q \in ToReport(tree, way) PROVE Told(q)' \/ q \in pending'
  <2>1. Told(q) \/ q \in pending
    BY <1>2 DEF ReportMisses
  <2>2. CASE q = p
    <3>1. Scanned(Field(p[1], p[2]))
      BY <1>2, <2>2, Wanted DEF Scanned
    <3> QED
      BY <1>3, <1>5, <2>2, <3>1
  <2>3. CASE q # p
    BY <1>1, <1>5, <2>1, <2>3
  <2> QED
    BY <2>2, <2>3
<1> QED
  BY <1>2, <1>6 DEF ReportMisses

LEMMA ReportedMissesNothing ==
    ASSUME WalkInv, StackMisses, ReportMisses, AllReported
    PROVE  CursorMisses'
<1>1. /\ WalkTypeOK /\ step \in {"look", "capture"} /\ step' = "over" /\ pending = {}
      /\ UNCHANGED <<tree, way, found, symbols>>
  BY DEF WalkInv, AllReported, stackVars
<1>2. \A p \in ToReport(tree, way) : Told(p)'
  BY <1>1 DEF ReportMisses, Told
<1>3. step = "capture" => ToFind(tree, way) = {}
  BY <1>1 DEF WalkInv, CaptureInv, ToFind
<1>4. \A n \in ToFind(tree, way) : Got(n)'
  BY <1>1, <1>3 DEF StackMisses, Got
<1>5. AllBefore(Len(tree.last) + 1)'
  BY <1>1, <1>2, <1>4 DEF AllBefore
<1> QED
  BY <1>1, <1>5 DEF CursorMisses, AtNode

LEMMA BeginMissesNothing ==
    ASSUME NEW w \in Way, NEW t \in Tree, Begin(w, t)
    PROVE  DepthInv' /\ CursorMisses' /\ StackMisses' /\ ReportMisses'
<1> DEFINE s == FirstStep(w)
<1>1. /\ tree' = t /\ way' = w /\ step' = s /\ here' = 1 /\ depth' = 0
      /\ stack' = IF s = "pop" THEN <<1>> ELSE <<>>
      /\ pending' = IF s = "capture"
                    THEN {p \in LookUps(t, t.hit) : t.fields[p[1]][p[2]] # 0} ELSE {}
  BY DEF Begin, Fresh
<1>2. /\ IsTree(t)
      /\ \/ s = "pop" /\ w = "stack"
         \/ s = "capture" /\ w = "query"
         \/ s = "new" /\ w \in {"cursor", "names", "own"}
  BY TreeAssumption DEF FirstStep, Way
<1> HIDE DEF s
<1>3. DepthInv'
  <2>1. Cardinality(Above(t, 1)) = 0
    BY <1>2, TreeFacts, RootHasNoneAbove
  <2> QED
    BY <1>1, <2>1 DEF DepthInv
<1>4. CursorMisses'
  BY <1>1, <1>2 DEF CursorMisses, AtNode
<1>5. StackMisses'
  <2>1. CASE s = "pop"
    <3>1. ASSUME NEW n \in ToFind(t, w) PROVE Stacked(n)'
      <4>1. n \in Nodes(t)
        BY <1>2, TreeFacts DEF ToFind
      <4>2. Within(t, n, 1)
        BY <1>2, <4>1, TreeFacts, RootHasNoneAbove DEF Within
      <4>3. 1 \in DOMAIN stack' /\ stack'[1] = 1
        BY <1>1, <2>1
      <4> QED
        BY <1>1, <4>2, <4>3 DEF Stacked
    <3> QED
      BY <1>1, <2>1, <3>1 DEF StackMisses
  <2>2. CASE s # "pop"
    BY <1>1, <1>2, <2>2 DEF StackMisses
  <2> QED
    BY <2>1, <2>2
<1>6. ReportMisses'
  <2>1. ASSUME s = "capture", NEW p \in ToReport(t, w) PROVE p \in pending'
    BY <1>1, <1>2, <2>1 DEF ToReport
  <2>2. s # "look"
    BY <1>2
  <2> QED
    BY <1>1, <2>1, <2>2 DEF ReportMisses
<1> QED
  BY <1>3, <1>4, <1>5, <1>6

-----------------------------------------------------------------------------
(* The theorem.                                                            *)

LEMMA MissInvKept ==
    ASSUME WalkInv, DepthInv, MissInv, [WalkNext]_walkVars
    PROVE  DepthInv' /\ MissInv'
<1>1. CASE CursorStep
  <2>1. step \in CursorSteps /\ step' \in CursorSteps \cup {"over"} /\ (~hurt' => ~hurt)
    <3>1. step \in CursorSteps /\ step' \in CursorSteps \cup {"over"}
      BY <1>1 DEF CursorStep, NewCursor, Visit, CurrentNode, Record, NameChild, Name, GoDown,
         GoNext, GoUp, DeleteCursor, CursorSteps, MoveTo, NoMove, Traps, Unwind
    <3>2. ASSUME GoDown \/ GoNext \/ GoUp, ~hurt' PROVE ~hurt
      <4>1. \/ UNCHANGED hurt
            \/ \E n, u : NoMove(n, u)
        BY <3>2 DEF GoDown, GoNext, GoUp, MoveTo
      <4>2. hurt \in BOOLEAN
        BY DEF WalkInv, WalkTypeOK
      <4> QED
        BY <3>2, <4>1, <4>2, Stays
    <3>3. ASSUME NewCursor \/ Visit \/ CurrentNode \/ Record \/ NameChild \/ Name \/ DeleteCursor,
                 ~hurt'
          PROVE  ~hurt
      BY <3>3 DEF NewCursor, Visit, CurrentNode, Record, NameChild, Name, DeleteCursor, Traps
    <3> QED
      BY <1>1, <3>1, <3>2, <3>3 DEF CursorStep
  <2>2. StackMisses' /\ ReportMisses'
    BY <2>1 DEF StackMisses, ReportMisses, CursorSteps
  <2>3. ~hurt' => CursorMisses'
    BY <1>1, <2>1, CursorMissesNothing DEF MissInv, CursorSteps
  <2> QED
    BY <1>1, <2>2, <2>3, CursorKeepsDepth DEF MissInv
<1>2. CASE StackStep
  <2>1. step \in StackSteps /\ step' \in StackSteps /\ (~hurt' => ~hurt)
    <3>1. step \in StackSteps /\ step' \in StackSteps
      BY <1>2 DEF StackStep, Pop, Measure, Count, Child, PushKids, Popped, LookUp, StackSteps, Traps
    <3>2. Pop \/ Measure \/ Count \/ Child => (~hurt' => ~hurt)
      BY DEF Pop, Measure, Count, Child, Traps
    <3>3. PushKids \/ Popped \/ LookUp => (~hurt' => ~hurt)
      BY DEF PushKids, Popped, LookUp, Traps
    <3> QED
      BY <1>2, <3>1, <3>2, <3>3 DEF StackStep
  <2>2. DepthInv' /\ CursorMisses'
    BY <2>1 DEF DepthInv, CursorMisses, CursorSteps, StackSteps, AtNode
  <2>3. SUFFICES ASSUME ~hurt' PROVE StackMisses' /\ ReportMisses'
    BY <2>2 DEF MissInv
  <2>4. StackMisses /\ ReportMisses
    BY <2>1, <2>3 DEF MissInv, StackSteps
  <2>5. step' \notin {"look", "capture"} => ReportMisses'
    BY DEF ReportMisses
  <2>6. CASE Pop
    BY <2>3, <2>4, <2>5, <2>6, PopMissesNothing DEF Pop, Traps
  <2>7. CASE Measure
    BY <2>3, <2>4, <2>5, <2>7, MeasureMissesNothing DEF Measure, Traps
  <2>8. CASE Count
    BY <2>3, <2>4, <2>5, <2>8, CountMissesNothing DEF Count, Traps
  <2>9. CASE Child
    BY <2>3, <2>4, <2>5, <2>9, ChildMissesNothing DEF Child, Traps
  <2>10. CASE PushKids
    BY <2>4, <2>5, <2>10, PushMissesNothing DEF PushKids
  <2>11. CASE Popped
    BY <2>4, <2>11, PoppedMissesNothing
  <2>12. CASE LookUp
    BY <2>3, <2>4, <2>12, LookMissesNothing
  <2> QED
    BY <1>2, <2>6, <2>7, <2>8, <2>9, <2>10, <2>11, <2>12 DEF StackStep
<1>3. CASE Capture
  <2>1. step = "capture" /\ step' = "capture" /\ (~hurt' => ~hurt)
    BY <1>3 DEF Capture, Traps
  <2>2. DepthInv' /\ CursorMisses' /\ StackMisses'
    BY <2>1 DEF DepthInv, CursorMisses, StackMisses, CursorSteps, AtNode
  <2> QED
    BY <1>3, <2>1, <2>2, CaptureMissesNothing DEF MissInv
<1>4. CASE AllReported
  <2>1. step \in {"look", "capture"} /\ step' = "over" /\ UNCHANGED hurt
    BY <1>4 DEF AllReported
  <2>2. DepthInv' /\ StackMisses' /\ ReportMisses'
    BY <2>1 DEF DepthInv, StackMisses, ReportMisses, CursorSteps
  <2> QED
    BY <1>4, <2>1, <2>2, ReportedMissesNothing DEF MissInv
<1>5. CASE Forget
  <2>1. step' = "idle"
    BY <1>5 DEF Forget, Fresh
  <2> QED
    BY <2>1 DEF DepthInv, MissInv, CursorSteps
<1>6. ASSUME NEW w \in Way, NEW t \in Tree, Begin(w, t) PROVE DepthInv' /\ MissInv'
  BY <1>6, BeginMissesNothing DEF MissInv
<1>7. CASE UNCHANGED walkVars
  <2>1. UNCHANGED <<tree, way, step, here, depth, stack, kids, index, found, pending, symbols, hurt>>
    BY <1>7 DEF walkVars
  <2>2. DepthInv'
    BY <2>1 DEF DepthInv
  <2>3. \A n : AllBefore(n) => AllBefore(n)'
    BY <2>1 DEF AllBefore, Got, Told
  <2>4. CursorMisses => CursorMisses'
    BY <2>1, <2>3 DEF CursorMisses
  <2>5. StackMisses => StackMisses'
    BY <2>1 DEF StackMisses, Got, Stacked, Collected, Expected, Coming
  <2>6. ReportMisses => ReportMisses'
    BY <2>1 DEF ReportMisses, Told
  <2>7. (~hurt' /\ step' # "idle") => (~hurt /\ step # "idle")
    BY <2>1
  <2> QED
    BY <2>2, <2>4, <2>5, <2>6, <2>7 DEF MissInv
<1> QED
  BY <1>1, <1>2, <1>3, <1>4, <1>5, <1>6, <1>7 DEF WalkNext, WalkStep

\* A walk in which no call of the runtime trapped has found every node it is to
\* find and reported every child: for trees of any size and shape.  Of the walks
\* by cursor that is said only of those whose cursor went wherever the tree goes
\* on; a cursor that stays where it is costs them whole subtrees.
THEOREM WalksMissNothing == WalkSpec => []NothingMissed
<1> DEFINE I == WalkInv /\ DepthInv /\ MissInv
<1>1. WalkInit => I
  BY WalkInvInit DEF WalkInit, DepthInv, MissInv, CursorSteps
<1>2. I /\ [WalkNext]_walkVars => I'
  BY WalkInvKept, MissInvKept
<1>3. I => NothingMissed
  <2>1. SUFFICES ASSUME WalkInv, MissInv, step = "over", ~hurt
                 PROVE  /\ ToFind(tree, way) \subseteq {found[i].node : i \in DOMAIN found}
                        /\ ToReport(tree, way) \subseteq
                              {<<symbols[i].of, symbols[i].field>> : i \in DOMAIN symbols}
    BY DEF NothingMissed
  <2>2. AllBefore(Len(tree.last) + 1) /\ WalkTypeOK /\ IsTree(tree)
    BY <2>1, InTree DEF MissInv, CursorMisses, WalkInv
  <2>3. \A n \in Nodes(tree) : n < Len(tree.last) + 1
    BY <2>2, TreeFacts
  <2>4. ASSUME NEW n \in ToFind(tree, way)
        PROVE  n \in {found[i].node : i \in DOMAIN found}
    <3>1. Got(n)
      BY <2>1, <2>2, <2>3, Wanted DEF AllBefore
    <3> QED
      BY <3>1 DEF Got
  <2>5. ASSUME NEW p \in ToReport(tree, way)
        PROVE  p \in {<<symbols[i].of, symbols[i].field>> : i \in DOMAIN symbols}
    <3>1. p = <<p[1], p[2]>> /\ Told(p)
      BY <2>1, <2>2, <2>3, Wanted DEF AllBefore
    <3> QED
      BY <3>1 DEF Told
  <2> QED
    BY <2>4, <2>5
<1> QED
  BY <1>1, <1>2, <1>3, PTL DEF WalkSpec
=============================================================================
