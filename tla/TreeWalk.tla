------------------------------ MODULE TreeWalk ------------------------------
(***************************************************************************)
(* Reading a syntax tree out of the tree-sitter runtime, one wasm call at  *)
(* a time (symbols/treesitter/cursor.go, Query.Exec, and the loops over    *)
(* nodes in symbols/wasm.go).                                              *)
(*                                                                         *)
(* Every call takes its node or cursor from one TRANSFER_BUFFER and leaves *)
(* its result there, and mem.Read returns a view of it, not a copy; so a   *)
(* walk must put back what a call needs before it makes the call, and copy *)
(* what it wants to keep.  Any call may trap, and the walks go on.         *)
(*                                                                         *)
(* The nodes of a tree are numbered in the order of the source (preorder). *)
(* last[n] is the last node of n's subtree, so that a subtree is n..last[n]*)
(* and the tree needs no recursion.                                        *)
(***************************************************************************)
EXTENDS Naturals, Sequences, FiniteSets

CONSTANT Tree   \* the trees a parser may return

\* How a tree is read.
\* cursor  WalkAllNamedNodes: a tree cursor, all nodes
\* names   WalkNamedChildren: the same, and the name of each node
\* own     WalkNamedChildren without a name field: each node itself
\* stack   WalkAllNamedNodesNoCursor, and the look-ups of the extractors
\* query   Query.Exec
Way == {"cursor", "names", "own", "stack", "query"}

\* named, hit (the type is in matchSymIDs) and empty (no width) are sets of
\* nodes; fields[n] are the children the extractor looks up in n, in its order,
\* the name first, and 0 where n has no such child.
IsTree(t) ==
    LET node == DOMAIN t.last
    IN  /\ t.last \in Seq(Nat) /\ 1 \in node /\ t.last[1] = Len(t.last)
        /\ \A n \in node : t.last[n] \in node /\ n <= t.last[n]
        /\ \A n \in node : \A m \in n..t.last[n] : t.last[m] <= t.last[n]
        /\ t.named \subseteq node /\ t.hit \subseteq t.named /\ t.empty \subseteq node
        /\ t.fields \in [node -> Seq(Nat)]
        /\ \A n \in node : \A k \in DOMAIN t.fields[n] : t.fields[n][k] \in {0} \cup node

ASSUME TreeAssumption == \A t \in Tree : IsTree(t)

VARIABLES
    tree,     \* the tree that is walked
    way,
    step,     \* the next call
    buf,      \* TRANSFER_BUFFER
    here,     \* the walk's position: the Go copy of the cursor, or the popped node
    depth,    \* how far below the root the cursor is
    stack,    \* nodes still to be visited
    kids,     \* children of the popped node, collected so far
    index,    \* the next of them
    found,    \* results: RawNodes
    pending,  \* look-ups or captures still to come
    symbols,  \* what has been reported of the nodes
    hurt      \* ghost: a call trapped, or a cursor stayed where it was

walkVars == <<tree, way, step, buf, here, depth, stack, kids, index, found, pending, symbols, hurt>>

Node(n) == [kind |-> "node", at |-> n]     \* a TSNode; no node if n is 0
Cursor(n) == [kind |-> "cursor", at |-> n] \* the 16 bytes of a cursor
Junk == [kind |-> "junk", at |-> 0]        \* what a trap leaves

-----------------------------------------------------------------------------
(* The tree.                                                               *)

Nodes(t) == DOMAIN t.last

\* m is in n's subtree.
Within(t, m, n) == n <= m /\ m <= t.last[n]
IsParent(t, p, n) ==
    /\ p < n /\ Within(t, n, p)
    /\ \A q \in (p + 1)..(n - 1) : ~Within(t, n, q)
NamedChildren(t, n) == {c \in t.named : IsParent(t, n, c)}

\* The children looked up in the nodes S.
LookUps(t, S) == UNION {{n} \X DOMAIN t.fields[n] : n \in S}

\* Where the calls of the cursor lead, 0 for nowhere.  One that finds anything
\* but a cursor in the buffer fails; so may one that does (NoMove).
FirstChild(t, b) ==
    IF b.kind = "cursor" /\ b.at < t.last[b.at] THEN b.at + 1 ELSE 0
NextSibling(t, b) ==
    IF b.kind = "cursor" /\ \E p \in Nodes(t) : IsParent(t, p, b.at) /\ t.last[b.at] < t.last[p]
    THEN t.last[b.at] + 1 ELSE 0
ParentOf(t, b) ==
    IF b.kind = "cursor" /\ \E p \in Nodes(t) : IsParent(t, p, b.at)
    THEN CHOOSE p \in Nodes(t) : IsParent(t, p, b.at) ELSE 0
NodeAt(b) == IF b.kind = "cursor" THEN b.at ELSE 0

\* (Mutant.) ts_node_end_index_wasm writes its result to the buffer.
EndIndexWrites(b) == Junk
\* It returns its result and leaves the buffer as it is.
AfterEndIndex(b) == b

IsLeast(n, S) == n \in S /\ \A m \in S : n <= m
\* p comes before q.
Before(p, q) == p[1] < q[1] \/ (p[1] = q[1] /\ p[2] < q[2])
IsFirst(p, S) == p \in S /\ \A q \in S \ {p} : Before(p, q)

-----------------------------------------------------------------------------
\* A walk of t that has not begun, or of no tree.
Fresh(w, t, next) ==
    /\ tree' = t
    /\ way' = w
    /\ step' = next
    /\ buf' = Node(1)
    /\ here' = 1
    /\ depth' = 0
    /\ stack' = IF next = "pop" THEN <<1>> ELSE <<>>
    /\ kids' = <<>>
    /\ index' = 0
    /\ found' = <<>>
    /\ pending' = IF next = "capture"
                  THEN {p \in LookUps(t, t.hit) : t.fields[p[1]][p[2]] # 0}
                  ELSE {}
    /\ symbols' = <<>>
    /\ hurt' = FALSE

FirstStep(w) == IF w = "stack" THEN "pop" ELSE IF w = "query" THEN "capture" ELSE "new"

\* RootNode has left the root in the buffer.
Begin(w, t) ==
    /\ step = "idle"
    /\ Fresh(w, t, FirstStep(w))

\* The results have been used.
Forget ==
    /\ step = "over"
    /\ Fresh("cursor", <<>>, "idle")

\* A call that traps: what was to come of it does not, and the walk goes on.
Traps(next) ==
    /\ step' = next
    /\ buf' = Junk
    /\ hurt' = TRUE

-----------------------------------------------------------------------------
(* WalkAllNamedNodes and WalkNamedChildren.                                *)

cursorVars == <<tree, way, stack, kids, index, pending>>

\* (Mutant.) The buffer holds what the call before left there.
NotRestored == buf
\* restoreCursor.
Restored == Cursor(here)

\* No cursor: the walk returns an error.
NewCursor ==
    /\ step = "new"
    /\ \/ step' = "visit" /\ buf' = Cursor(buf.at) /\ UNCHANGED hurt
       \/ Traps("over")
    /\ UNCHANGED <<cursorVars, here, depth, found, symbols>>

\* The type of the current node.  An error ends the walk, with what it has.
Visit ==
    /\ step = "visit"
    /\ \/ /\ step' = IF NodeAt(Restored) \in tree.hit THEN "node" ELSE "down"
          /\ buf' = Restored
          /\ UNCHANGED hurt
       \/ Traps("delete")
    /\ UNCHANGED <<cursorVars, here, depth, found, symbols>>

CurrentNode ==
    /\ step = "node"
    /\ \/ /\ buf' = Node(NodeAt(Restored))
          /\ step' = CASE way = "names" -> "name" [] way = "own" -> "width" [] OTHER -> "end"
          /\ UNCHANGED hurt
       \/ Traps("down")
    /\ UNCHANGED <<cursorVars, here, depth, found, symbols>>

\* WalkAllNamedNodes copies the node it read after it has asked for its end.
Record ==
    /\ step = "end"
    /\ \/ /\ buf' = AfterEndIndex(buf)
          /\ found' = Append(found, [node |-> buf.at, raw |-> buf'.at])
          /\ step' = "down"
          /\ UNCHANGED hurt
       \/ Traps("down") /\ UNCHANGED found
    /\ UNCHANGED <<cursorVars, here, depth, symbols>>

\* The child of n the extractor looks up under its k-th id, n itself for none.  A
\* field the grammar has no id for has no child.
Field(n, k) ==
    IF k = 0 THEN n ELSE IF k \in DOMAIN tree.fields[n] THEN tree.fields[n][k] ELSE 0

\* nameFieldID: 0 stands also for a runtime without childByFieldFn.
NameField == IF way = "own" THEN 0 ELSE 1

NameChild ==
    /\ step = "name"
    /\ \/ /\ buf' = Node(Field(buf.at, 1))
          /\ step' = "width"
          /\ UNCHANGED hurt
       \/ Traps("down")
    /\ UNCHANGED <<cursorVars, here, depth, found, symbols>>

\* A name without width is left out.  That there is no name is not noticed: the
\* end of no node may be anything.
HasWidth(c) == c # 0 => c \notin tree.empty

Name ==
    /\ step = "width"
    /\ \/ /\ HasWidth(buf.at)
          /\ symbols' = Append(symbols, [of |-> here, field |-> NameField, child |-> buf.at])
          /\ step' = "down"
          /\ UNCHANGED <<buf, hurt>>
       \/ /\ buf.at = 0 \/ ~HasWidth(buf.at)
          /\ step' = "down"
          /\ UNCHANGED <<buf, hurt, symbols>>
       \/ Traps("down") /\ UNCHANGED symbols
    /\ UNCHANGED <<cursorVars, here, depth, found>>

\* A successful move leaves the cursor in the buffer, from where it is copied.
MoveTo(n, next) ==
    /\ n # 0
    /\ buf' = Cursor(n)
    /\ here' = n
    /\ step' = next
    /\ UNCHANGED hurt

\* The move is not possible, or the call traps, or it fails though the tree goes on
\* there: for some grammars cursors do (WalkAllNamedNodesNoCursor's comment).
NoMove(n, next) ==
    /\ \/ buf' = Restored /\ step' = next /\ hurt' = (hurt \/ n # 0)
       \/ Traps(next)
    /\ UNCHANGED here

GoDown ==
    /\ step = "down"
    /\ LET n == FirstChild(tree, Restored)
       IN  \/ MoveTo(n, "visit") /\ depth' = depth + 1
           \/ NoMove(n, "next") /\ UNCHANGED depth
    /\ UNCHANGED <<cursorVars, found, symbols>>

\* At depth 0 there is no parent to go back to.
Unwind == IF depth = 0 THEN "delete" ELSE "up"

GoNext ==
    /\ step = "next"
    /\ LET n == NextSibling(tree, Restored)
       IN  MoveTo(n, "visit") \/ NoMove(n, Unwind)
    /\ UNCHANGED <<cursorVars, depth, found, symbols>>

GoUp ==
    /\ step = "up"
    /\ LET n == ParentOf(tree, Restored)
       IN  \/ MoveTo(n, "next") /\ depth' = depth - 1
           \/ NoMove(n, "delete") /\ UNCHANGED depth
    /\ UNCHANGED <<cursorVars, found, symbols>>

\* The deferred function; its error is dropped.
DeleteCursor ==
    /\ step = "delete"
    /\ buf' \in {Restored, Junk}
    /\ step' = "over"
    /\ UNCHANGED <<cursorVars, here, depth, found, symbols, hurt>>

CursorStep ==
    \/ NewCursor \/ Visit \/ CurrentNode \/ Record \/ NameChild \/ Name
    \/ GoDown \/ GoNext \/ GoUp \/ DeleteCursor

-----------------------------------------------------------------------------
(* WalkAllNamedNodesNoCursor.                                              *)

stackVars == <<tree, way, depth, symbols>>

\* The type of the node on top.  An error drops the node and all below it.
Pop ==
    /\ step = "pop"
    /\ stack # <<>>
    /\ here' = stack[Len(stack)]
    /\ stack' = SubSeq(stack, 1, Len(stack) - 1)
    /\ \/ /\ step' = IF here' \in tree.hit THEN "measure" ELSE "count"
          /\ buf' = Node(here')
          /\ UNCHANGED hurt
       \/ Traps("pop")
    /\ UNCHANGED <<stackVars, kids, index, found, pending>>

\* Nodes without width are left out.
Measure ==
    /\ step = "measure"
    /\ \/ /\ buf' = AfterEndIndex(Node(here))
          /\ found' = IF here \in tree.empty THEN found
                      ELSE Append(found, [node |-> here, raw |-> here])
          /\ step' = "count"
          /\ UNCHANGED hurt
       \/ Traps("count") /\ UNCHANGED found
    /\ UNCHANGED <<stackVars, here, stack, kids, index, pending>>

\* NamedChildCount.  An error drops the children.
Count ==
    /\ step = "count"
    /\ \/ buf' = Node(here) /\ step' = "child" /\ UNCHANGED hurt
       \/ Traps("pop")
    /\ kids' = <<>>
    /\ index' = here
    /\ UNCHANGED <<stackVars, here, stack, found, pending>>

\* The children from the index on; an error drops one of them.
Coming == {c \in NamedChildren(tree, here) : c > index}

Child ==
    /\ step = "child"
    /\ \E c \in Coming : IsLeast(c, Coming) /\ index' = c
    /\ \/ /\ buf' = Node(index')
          /\ kids' = Append(kids, index')
          /\ UNCHANGED <<hurt, step>>
       \/ Traps("child") /\ UNCHANGED kids
    /\ UNCHANGED <<stackVars, here, stack, found, pending>>

\* (Mutant.) The children are pushed from left to right.
LeftToRight(s) == s
\* From right to left, so that the leftmost child ends up on top.
Reversed(s) == [i \in DOMAIN s |-> s[Len(s) + 1 - i]]

PushKids ==
    /\ step = "child"
    /\ Coming = {}
    /\ stack' = stack \o Reversed(kids)
    /\ step' = "pop"
    /\ UNCHANGED <<stackVars, buf, here, kids, index, found, pending, hurt>>

\* Nothing is left on the stack: the extractor goes through the nodes, and
\* through its look-ups for each of them.
Popped ==
    /\ step = "pop"
    /\ stack = <<>>
    /\ pending' = UNION {{i} \X DOMAIN tree.fields[found[i].raw] : i \in DOMAIN found}
    /\ step' = "look"
    /\ UNCHANGED <<stackVars, buf, here, stack, kids, index, found, hurt>>

\* There is such a child, and it has a width.
Found(c) == c # 0 /\ c \notin tree.empty

\* NodeChildByFieldID and NamedChild.
LookUp ==
    /\ step = "look"
    /\ \E p \in pending :
       LET c == Field(found[p[1]].raw, p[2])
       IN  /\ IsFirst(p, pending)
           /\ pending' = pending \ {p}
           /\ \/ /\ buf' = AfterEndIndex(Node(c))
                 /\ symbols' = IF Found(c)
                               THEN Append(symbols, [of |-> found[p[1]].node,
                                                     field |-> p[2], child |-> c])
                               ELSE symbols
                 /\ UNCHANGED <<hurt, step>>
              \/ Traps("look") /\ UNCHANGED symbols
    /\ UNCHANGED <<tree, way, here, depth, stack, kids, index, found>>

\* scanCaptures leaves out the captures without width.
Scanned(c) == c \notin tree.empty

\* Query.Exec: of each match, the capture it is returned for, in the order the
\* runtime has put them in.
Capture ==
    /\ step = "capture"
    /\ \E p \in pending :
       LET c == Field(p[1], p[2])
       IN  /\ pending' = pending \ {p}
           /\ \/ /\ buf' = AfterEndIndex(Node(c))
                 /\ symbols' = IF Scanned(c)
                               THEN Append(symbols, [of |-> p[1], field |-> p[2], child |-> c])
                               ELSE symbols
                 /\ UNCHANGED <<hurt, step>>
              \/ Traps("capture") /\ UNCHANGED symbols
    /\ UNCHANGED <<tree, way, here, depth, stack, kids, index, found>>

AllReported ==
    /\ step \in {"look", "capture"}
    /\ pending = {}
    /\ step' = "over"
    /\ UNCHANGED <<stackVars, buf, here, stack, kids, index, found, pending, hurt>>

StackStep == Pop \/ Measure \/ Count \/ Child \/ PushKids \/ Popped \/ LookUp
WalkStep == CursorStep \/ StackStep \/ Capture \/ AllReported

WalkInit ==
    /\ tree = <<>> /\ way = "cursor" /\ step = "idle"
    /\ buf = Node(1) /\ here = 1 /\ depth = 0
    /\ stack = <<>> /\ kids = <<>> /\ index = 0
    /\ found = <<>> /\ pending = {} /\ symbols = <<>> /\ hurt = FALSE

WalkNext == WalkStep \/ Forget \/ \E w \in Way, t \in Tree : Begin(w, t)

WalkSpec == WalkInit /\ [][WalkNext]_walkVars

-----------------------------------------------------------------------------
(* Properties.                                                             *)

CursorSteps == {"new", "visit", "node", "end", "name", "width", "down", "next", "up", "delete"}
StackSteps == {"pop", "measure", "count", "child", "look"}
Walking == CursorSteps \cup StackSteps \cup {"capture"}

\* The state has its type; there is a tree whenever one is walked.
WalkTypeOK ==
    /\ way \in Way
    /\ step \in Walking \cup {"idle", "over"}
    /\ IF step = "idle" THEN tree = <<>> ELSE tree \in Tree
    /\ buf \in [kind : {"node", "cursor", "junk"}, at : Nat]
    /\ here \in Nat \ {0}
    /\ depth \in Nat
    /\ stack \in Seq(Nat \ {0})
    /\ kids \in Seq(Nat \ {0})
    /\ index \in Nat
    /\ found \in Seq([node : Nat, raw : Nat])
    /\ pending \subseteq Nat \X Nat
    /\ symbols \in Seq([of : Nat, field : Nat, child : Nat])
    /\ hurt \in BOOLEAN

\* A node that is reached through named nodes.
Named(t, n) == \A m \in 2..n : Within(t, n, m) => m \in t.named

\* The nodes a walk is to find, and the children to report.
ToFind(t, w) ==
    {n \in t.hit : w = "cursor" \/ (w = "stack" /\ n \notin t.empty /\ Named(t, n))}

ToReport(t, w) ==
    LET of == IF w = "stack" THEN ToFind(t, w) ELSE t.hit
    IN  IF w = "own" THEN (t.hit \ t.empty) \X {0}
        ELSE {p \in LookUps(t, of) : /\ w # "cursor" /\ (w = "names" => p[2] = 1)
                                     /\ t.fields[p[1]][p[2]] \notin {0} \cup t.empty}

FoundInOrder ==
    \A i \in DOMAIN found :
        /\ found[i].node \in ToFind(tree, way)
        /\ found[i].raw = found[i].node
        /\ \A j \in 1..(i - 1) : found[j].node < found[i].node

\* The name of no node has been reported (WalkNamedChildren).
NoName(s) == way = "names" /\ s.of \in tree.hit /\ s.field = 1 /\ s.child = 0
\* The children of a query come in the order of the runtime.
InTurn(p, q) == IF way = "query" THEN p # q ELSE Before(p, q)

ReportedInOrder ==
    \A i \in DOMAIN symbols :
        LET s == symbols[i]
        IN  /\ s.child = Field(s.of, s.field)
            /\ <<s.of, s.field>> \in ToReport(tree, way) \/ NoName(s)
            /\ \A j \in 1..(i - 1) : InTurn(<<symbols[j].of, symbols[j].field>>, <<s.of, s.field>>)

\* Whatever calls fail, the nodes found are nodes the walk is to find, once each
\* and in the order of the source, each with the bytes of that node and no
\* other; and so are the children reported of them, but that a query's come in
\* the order of its captures.
InOrder == FoundInOrder /\ ReportedInOrder

\* A walk in which no call trapped has found every node it is to find, and
\* reported every child; of a walk by cursor that is said only if the cursor also
\* went wherever the tree goes on, which for some grammars it does not.
NothingMissed ==
    (step = "over" /\ ~hurt) =>
        /\ ToFind(tree, way) \subseteq {found[i].node : i \in DOMAIN found}
        /\ ToReport(tree, way) \subseteq {<<symbols[i].of, symbols[i].field>> : i \in DOMAIN symbols}
=============================================================================
