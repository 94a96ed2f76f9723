--------------------------- MODULE LanguageProofs ---------------------------
(***************************************************************************)
(* Proofs about Language: its walks are walks of TreeWalk, and whatever    *)
(* traps, an extraction leaves the wasm heap as it found it and the runtime*)
(* whole or closed.                                                        *)
(*                                                                         *)
(* The strengthening says, for each place an extraction can be at, which   *)
(* objects it holds: those a deferred function is to free, and those of the*)
(* call it is in.                                                          *)
(***************************************************************************)
EXTENDS Language, TreeWalkProofs, SequenceTheorems

-----------------------------------------------------------------------------
(* The walks.                                                              *)

\* The way a file is extracted is one of TreeWalk's.
PlanInv == plan \in Way

\* A step of the process is a step of a walk, or leaves the walk alone.
LEMMA StepIsWalkStep ==
    ASSUME PlanInv, [Next]_vars
    PROVE  PlanInv' /\ [WalkNext]_walkVars
<1> USE DEF PlanInv, runtimeVars, heapVars, askVars
<1>1. CASE Load
  BY <1>1 DEF Load, LoadFails, RuntimeStarts, SwapEnv, LinkGrammar, RestoreEnv, GrammarStarts,
     Instantiate, CloseRuntime
<1>2. CASE NewQuery
  BY <1>2 DEF NewQuery, MallocText, QueryNew, QueryTraps, CaptureNames, FreeText
<1>3. CASE ParserNew \/ ParseSource \/ DeleteParser \/ RootNode \/ RootType \/ AskType \/ TypeId
  BY <1>3 DEF ParserNew, ParseSource, DeleteParser, RootNode, RootType, AskType, TypeId
<1>4. CASE TypesAsked
  BY <1>4 DEF TypesAsked, WalkNext
<1>5. CASE Captures
  BY <1>5 DEF Captures, WalkNext
<1>6. CASE WalkOn
  BY <1>6 DEF WalkOn, WalkNext
<1>7. CASE Walked
  BY <1>7 DEF Walked, WalkNext
<1>8. CASE Deferred \/ Return \/ Restart
  BY <1>8 DEF Deferred, Return, Restart, CloseRuntime
<1>9. ASSUME NEW w \in Ways, Extract(w) PROVE PlanInv' /\ UNCHANGED walkVars
  BY <1>9, LanguageAssumption DEF Extract
<1>10. CASE UNCHANGED vars
  BY <1>10 DEF vars
<1> QED
  BY <1>1, <1>2, <1>3, <1>4, <1>5, <1>6, <1>7, <1>8, <1>9, <1>10 DEF Next, Run

\* What Language does with a tree is what TreeWalk does: every property of a walk
\* by itself is one of the walks of a process that loads grammars, compiles
\* queries, parses, fails and dies.
THEOREM LanguageImplementsTreeWalk == Spec => WalkSpec
<1>1. Init => PlanInv /\ WalkInit
  BY DEF Init, PlanInv, Way
<1>2. PlanInv /\ [Next]_vars => PlanInv' /\ [WalkNext]_walkVars
  BY StepIsWalkStep
<1> QED
  BY <1>1, <1>2, PTL DEF Spec, WalkSpec

\* The nodes found and the children reported by any extraction of a process are
\* in the order of the source, once each, and each is what is to be found.
THEOREM ExtractionsFindInOrder == Spec => []InOrder
BY LanguageImplementsTreeWalk, WalksFindInOrder, PTL

\* An extraction in which no call of the walk trapped, and whose cursor never
\* stayed behind, has found and reported all it is to, whatever the process did
\* and suffered before.
THEOREM ExtractionsMissNothing == Spec => []NothingMissed
BY LanguageImplementsTreeWalk, WalksMissNothing, PTL

-----------------------------------------------------------------------------
(* The runtime.                                                            *)

Loading == {"boot", "init", "swap", "link", "restore", "start"}
\* Where an extraction may be without a runtime.
Anywhere == {"idle", "return", "panic", "died"}

Whole == modules = Booted \cup {"grammar"} /\ env = "runtime" /\ base = "grammar"

RuntimeInv ==
    /\ lang => Whole /\ pc \notin Loading
    /\ ~lang => pc \in Loading \cup Anywhere
    /\ ~lang /\ pc \in Anywhere => modules = {}
    /\ pc = "boot" /\ "env" \in modules => env = "runtime"
    /\ pc \in {"init", "swap", "link"} => modules = Booted
    /\ pc = "init" => env = "runtime"
    /\ pc = "link" => env = "grammar"
    /\ pc \in {"restore", "start"} => modules = Booted \cup {"grammar"} /\ base = "grammar"
    /\ pc = "start" => env = "runtime"

\* When the last module is instantiated, all are.
LEMMA LastModule ==
    ASSUME NEW i \in DOMAIN BootOrder, NEW s, s = {BootOrder[j] : j \in 1..(i - 1)}
    PROVE  /\ i = Len(BootOrder) => s \cup {BootOrder[i]} = Booted /\ "env" \in s
           /\ BootOrder[i] # "env" => ("env" \in s \cup {BootOrder[i]} => "env" \in s)
<1>1. /\ Len(BootOrder) = 6 /\ DOMAIN BootOrder = 1..6
      /\ BootOrder[1] = "wasi" /\ BootOrder[2] = "host" /\ BootOrder[3] = "mem_owner"
      /\ BootOrder[4] = "env" /\ BootOrder[5] = "GOT.mem" /\ BootOrder[6] = "tree-sitter"
  BY DEF BootOrder
<1>2. ASSUME i = Len(BootOrder) PROVE s \cup {BootOrder[i]} = Booted /\ "env" \in s
  <2>1. i = 6
    BY <1>1, <1>2
  <2>2. s = {BootOrder[j] : j \in 1..5}
    BY <2>1
  <2>3. Booted = {BootOrder[j] : j \in 1..6}
    BY <1>1 DEF Booted
  <2>4. \A x : x \in s \cup {BootOrder[6]} <=> x \in Booted
    BY <2>2, <2>3
  <2>5. "env" \in s
    BY <1>1, <2>2
  <2> QED
    BY <2>1, <2>4, <2>5
<1> QED
  BY <1>2

LEMMA RuntimeInvKept ==
    ASSUME RuntimeInv, [Next]_vars
    PROVE  RuntimeInv'
<1> USE DEF RuntimeInv, Loading, Anywhere, Whole, runtimeVars, heapVars, askVars
<1>1. CASE LoadFails
  BY <1>1 DEF LoadFails, CloseRuntime
<1>2. ASSUME NEW i \in DOMAIN BootOrder, Instantiate(i) PROVE RuntimeInv'
  <2>1. /\ pc = "boot" /\ ~lang /\ lang' = lang /\ ("env" \in modules => env = "runtime")
        /\ modules' = modules \cup {BootOrder[i]}
        /\ i = Len(BootOrder) => modules' = Booted /\ "env" \in modules
        /\ BootOrder[i] # "env" => ("env" \in modules' => "env" \in modules)
    BY <1>2, LastModule DEF Instantiate
  <2>2. BootOrder[i] = "env" => i # Len(BootOrder)
    BY DEF BootOrder
  <2>3. env' = IF BootOrder[i] = "env" THEN "runtime" ELSE env
    BY <1>2 DEF Instantiate
  <2>4. pc' = IF i = Len(BootOrder) THEN "init" ELSE "boot"
    BY <1>2 DEF Instantiate
  <2> QED
    BY <2>1, <2>2, <2>3, <2>4
<1>3. CASE RuntimeStarts
  BY <1>3 DEF RuntimeStarts
<1>4. CASE SwapEnv
  BY <1>4 DEF SwapEnv
<1>5. CASE LinkGrammar
  BY <1>5 DEF LinkGrammar
<1>6. CASE RestoreEnv
  BY <1>6 DEF RestoreEnv
<1>7. CASE GrammarStarts
  BY <1>7 DEF GrammarStarts
<1>8. CASE NewQuery
  BY <1>8 DEF NewQuery, MallocText, QueryNew, QueryTraps, CaptureNames, FreeText
<1>9. CASE ParserNew \/ ParseSource \/ DeleteParser \/ RootNode \/ RootType \/ AskType \/ TypeId
  BY <1>9 DEF ParserNew, ParseSource, DeleteParser, AfterParse, RootNode, AfterRoot, RootType,
     AskType, TypeId
<1>10. CASE TypesAsked \/ Captures \/ WalkOn \/ Walked
  BY <1>10 DEF TypesAsked, Captures, WalkOn, Walked
<1>11. CASE Deferred \/ Return
  BY <1>11 DEF Deferred, Return
<1>12. CASE Restart
  BY <1>12 DEF Restart, CloseRuntime
<1>13. ASSUME NEW w \in Ways, Extract(w) PROVE RuntimeInv'
  BY <1>13 DEF Extract
<1>14. CASE UNCHANGED vars
  BY <1>14 DEF vars
<1> QED
  BY <1>1, <1>2, <1>3, <1>4, <1>5, <1>6, <1>7, <1>8, <1>9, <1>10, <1>11, <1>12, <1>13, <1>14
  DEF Next, Run, Load

-----------------------------------------------------------------------------
(* The heap.                                                               *)

ToFree(d) == {d[i] : i \in DOMAIN d}

\* Which objects the deferred functions are to free.
DefersInv ==
    /\ defers \in {<<>>, <<"query">>, <<"tree">>, <<"query", "tree">>}
    /\ pc \in Loading \cup {"idle", "died", "text", "compile", "names", "query", "noQuery"} =>
          defers = <<>>
    /\ pc \in {"parser", "parse", "freeParser"} =>
          defers = IF plan = "query" THEN <<"query">> ELSE <<>>
    /\ pc \in {"root", "type", "ids", "id", "captures", "walk"} =>
          defers = IF plan = "query" THEN <<"query", "tree">> ELSE <<"tree">>
    /\ pc \in {"text", "compile", "names", "query", "captures"} => plan = "query"

\* Which objects are held besides: those of the call in hand.
HeldInv ==
    /\ ~misused
    /\ pc \in Loading \cup Anywhere \cup {"text", "parser", "root", "type", "ids", "captures"} =>
          held = ToFree(defers)
    /\ pc \in {"compile", "noQuery"} => held = {"text"}
    /\ pc \in {"names", "query"} => held = {"text", "query"}
    /\ pc = "parse" => held = ToFree(defers) \cup {"parser"}
    /\ pc = "freeParser" => held \ {"tree"} = ToFree(defers) \cup {"parser"}
    /\ pc = "id" => held = ToFree(defers) \cup {"name"}
    /\ pc = "walk" =>
          /\ held \ {"cursor", "captures"} = ToFree(defers)
          /\ "cursor" \in held <=> step \in CursorSteps \ {"new"}

HeapInv == DefersInv /\ HeldInv

\* What is deferred, and what is left of it when its last has run.
LEMMA DeferredFacts ==
    /\ ToFree(<<>>) = {} /\ ToFree(<<"query">>) = {"query"} /\ ToFree(<<"tree">>) = {"tree"}
    /\ ToFree(<<"query", "tree">>) = {"query", "tree"}
    /\ Append(<<>>, "tree") = <<"tree">> /\ Append(<<"query">>, "tree") = <<"query", "tree">>
<1>1. ToFree(<<>>) = {}
  BY DEF ToFree
<1>2. ToFree(<<"query">>) = {"query"} /\ ToFree(<<"tree">>) = {"tree"}
  BY DEF ToFree
<1>3. ToFree(<<"query", "tree">>) = {"query", "tree"}
  BY DEF ToFree
<1>4. Append(<<>>, "tree") = <<"tree">>
  OBVIOUS
<1>5. Append(<<"query">>, "tree") = <<"query", "tree">>
  <2> DEFINE S == {"query", "tree"}
             s == <<"query">>
  <2>1. /\ s \in Seq(S) /\ "tree" \in S /\ Len(s) = 1 /\ s[1] = "query"
        /\ <<"query", "tree">> \in Seq(S) /\ Len(<<"query", "tree">>) = 2
    OBVIOUS
  <2>2. /\ Append(s, "tree") \in Seq(S) /\ Len(Append(s, "tree")) = 2
        /\ Append(s, "tree")[1] = "query" /\ Append(s, "tree")[2] = "tree"
    <3> HIDE DEF S, s
    <3> QED
      BY <2>1, Appended
  <2>3. \A i \in 1..2 : Append(s, "tree")[i] = <<"query", "tree">>[i]
    BY <2>2
  <2> QED
    BY <2>1, <2>2, <2>3, SeqEqual
<1> QED
  BY <1>1, <1>2, <1>3, <1>4, <1>5

LEMMA LastDeferred ==
    ASSUME NEW d, d \in {<<>>, <<"query">>, <<"tree">>, <<"query", "tree">>}, d # <<>>,
           NEW e, e = SubSeq(d, 1, Len(d) - 1)
    PROVE  /\ e \in {<<>>, <<"query">>}
           /\ d[Len(d)] \in ToFree(d) /\ ToFree(e) = ToFree(d) \ {d[Len(d)]}
<1>1. CASE d = <<"query">> \/ d = <<"tree">>
  <2>1. Len(d) = 1 /\ d[1] \in {"query", "tree"} /\ ToFree(d) = {d[1]} /\ e = <<>>
    BY <1>1, DeferredFacts
  <2> QED
    BY <2>1, DeferredFacts
<1>2. CASE d = <<"query", "tree">>
  <2>1. Len(d) = 2 /\ d[2] = "tree"
    BY <1>2
  <2>2. e = SubSeq(<<"query", "tree">>, 1, 1)
    BY <1>2, <2>1
  <2>3. SubSeq(<<"query", "tree">>, 1, 1) = <<"query">>
    <3> DEFINE S == {"query", "tree"}
               s == <<"query", "tree">>
    <3>1. s \in Seq(S) /\ Len(s) = 2 /\ s[1] = "query" /\ <<"query">> \in Seq(S) /\ Len(<<"query">>) = 1
      OBVIOUS
    <3>2. SubSeq(s, 1, 1) \in Seq(S) /\ Len(SubSeq(s, 1, 1)) = 1 /\ SubSeq(s, 1, 1)[1] = "query"
      <4> HIDE DEF S, s
      <4> QED
        BY <3>1
    <3>3. \A i \in 1..1 : SubSeq(s, 1, 1)[i] = <<"query">>[i]
      BY <3>2
    <3> QED
      BY <3>1, <3>2, <3>3, SeqEqual
  <2> QED
    BY <1>2, <2>1, <2>2, <2>3, DeferredFacts
<1> QED
  BY <1>1, <1>2

\* Allocating what is not held, and freeing what is.
LEMMA HeapFacts ==
    ASSUME ~misused, NEW o
    PROVE  /\ Allocate(o) /\ o \notin held => ~misused' /\ held' = held \cup {o}
           /\ Free(o) /\ o \in held => ~misused' /\ held' = held \ {o}
BY Zenon DEF Allocate, Free

\* A step of a walk takes the cursor's steps in their order.
LEMMA CursorSteps1 ==
    ASSUME WalkStep
    PROVE  /\ step = "new" => step' \in {"visit", "over"}
           /\ step = "delete" => step' = "over"
           /\ step \in CursorSteps \ {"new", "delete"} => step' \in CursorSteps \ {"new"}
           /\ step \notin CursorSteps => step' \notin CursorSteps
<1>1. CASE CursorStep
  BY <1>1 DEF CursorStep, NewCursor, Visit, CurrentNode, Record, NameChild, Name, GoDown, GoNext,
     GoUp, DeleteCursor, CursorSteps, MoveTo, NoMove, Traps, Unwind
<1>2. CASE StackStep
  BY <1>2 DEF StackStep, Pop, Measure, Count, Child, PushKids, Popped, LookUp, CursorSteps, Traps
<1>3. CASE Capture \/ AllReported
  BY <1>3 DEF Capture, AllReported, CursorSteps, Traps
<1> QED
  BY <1>1, <1>2, <1>3 DEF WalkStep

LEMMA BeginsWithoutCursor ==
    ASSUME NEW w, NEW t, Begin(w, t)
    PROVE  step' \notin CursorSteps \ {"new"}
BY DEF Begin, Fresh, FirstStep, CursorSteps

LEMMA DefersInvKept ==
    ASSUME HeapInv, [Next]_vars
    PROVE  DefersInv'
<1> USE DEF HeapInv, DefersInv, Loading, Anywhere, runtimeVars, heapVars, askVars
<1>1. CASE Load
  BY <1>1 DEF Load, LoadFails, RuntimeStarts, SwapEnv, LinkGrammar, RestoreEnv,
     GrammarStarts, Instantiate
<1>2. CASE MallocText \/ QueryNew \/ QueryTraps \/ CaptureNames
  BY <1>2 DEF MallocText, QueryNew, QueryTraps, CaptureNames
<1>3. CASE FreeText
  BY <1>3 DEF FreeText
<1>4. CASE ParserNew \/ ParseSource
  BY <1>4 DEF ParserNew, ParseSource
<1>5. CASE DeleteParser
  BY <1>5, DeferredFacts DEF DeleteParser, AfterParse
<1>6. CASE RootNode \/ RootType
  BY <1>6 DEF RootNode, AfterRoot, RootType
<1>7. CASE AskType \/ TypeId \/ TypesAsked
  BY <1>7 DEF AskType, TypeId, TypesAsked
<1>8. CASE Captures \/ WalkOn \/ Walked
  BY <1>8 DEF Captures, WalkOn, Walked
<1>9. CASE Deferred
  BY <1>9, LastDeferred DEF Deferred
<1>10. CASE Return \/ Restart
  BY <1>10 DEF Return, Restart
<1>11. ASSUME NEW w \in Ways, Extract(w) PROVE DefersInv'
  BY <1>11 DEF Extract
<1>12. CASE UNCHANGED vars
  BY <1>12 DEF vars
<1> QED
  BY <1>1, <1>2, <1>3, <1>4, <1>5, <1>6, <1>7, <1>8, <1>9, <1>10, <1>11, <1>12
  DEF Next, Run, NewQuery

LEMMA HeldInvKept ==
    ASSUME HeapInv, [Next]_vars
    PROVE  HeldInv'
<1> USE DEF HeldInv, Loading, Anywhere, runtimeVars, heapVars, askVars
<1>0. DefersInv /\ HeldInv /\ ~misused
  BY DEF HeapInv
<1>a. defers \in {<<>>, <<"query">>, <<"tree">>, <<"query", "tree">>}
  BY <1>0 DEF DefersInv
<1>b. ToFree(defers) \subseteq {"query", "tree"}
  BY <1>a, DeferredFacts
<1>c. UNCHANGED defers => ToFree(defers)' = ToFree(defers)
  BY DEF ToFree
<1>1. CASE Load
  BY <1>0, <1>1, <1>c DEF Load, LoadFails, RuntimeStarts, SwapEnv, LinkGrammar, RestoreEnv,
     GrammarStarts, Instantiate
<1>2. CASE MallocText
  <2>1. ToFree(defers) = {} /\ pc = "text"
    BY <1>0, <1>2, DeferredFacts DEF DefersInv, MallocText
  <2>2. held = {}
    BY <1>0, <2>1
  <2> QED
    BY <1>0, <1>2, <1>c, <2>1, <2>2, HeapFacts DEF MallocText
<1>3. CASE QueryNew \/ QueryTraps
  BY <1>0, <1>3, <1>c, HeapFacts, DeferredFacts DEF QueryNew, QueryTraps, DefersInv
<1>4. CASE CaptureNames
  BY <1>0, <1>4, <1>c, HeapFacts, DeferredFacts DEF CaptureNames, DeleteQuery, DefersInv
<1>5. CASE FreeText
  <2>1. CASE pc = "query" /\ pc' = "parser" /\ defers' = <<"query">>
    <3>1. ~misused' /\ held' = {"query"}
      BY <1>0, <1>5, <2>1, HeapFacts DEF FreeText
    <3> QED
      BY <2>1, <3>1, DeferredFacts
  <2>2. CASE pc = "noQuery" /\ pc' = "return" /\ UNCHANGED defers
    <3>1. ~misused' /\ held' = {}
      BY <1>0, <1>5, <2>2, HeapFacts DEF FreeText
    <3>2. defers' = <<>>
      BY <1>0, <2>2 DEF DefersInv
    <3> QED
      BY <2>2, <3>1, <3>2, DeferredFacts
  <2> QED
    BY <1>5, <2>1, <2>2 DEF FreeText
<1>6. CASE ParserNew
  BY <1>0, <1>6, <1>b, <1>c, HeapFacts DEF ParserNew
<1>7. CASE ParseSource
  <2>1. pc = "parse" /\ pc' = "freeParser" /\ held = ToFree(defers) \cup {"parser"} /\ "tree" \notin held
    <3>1. pc = "parse" /\ pc' = "freeParser"
      BY <1>7 DEF ParseSource
    <3>2. "tree" \notin ToFree(defers)
      BY <1>0, <3>1, DeferredFacts DEF DefersInv
    <3> QED
      BY <1>0, <3>1, <3>2
  <2>2. ~misused' /\ (held' = held \cup {"tree"} \/ held' = held)
    BY <1>0, <1>7, <2>1, HeapFacts DEF ParseSource
  <2>3. held' \ {"tree"} = held
    BY <2>1, <2>2
  <2>4. ToFree(defers)' = ToFree(defers)
    BY <1>7, <1>c DEF ParseSource
  <2> QED
    BY <2>1, <2>2, <2>3, <2>4
<1>8. CASE DeleteParser
  <2>1. pc = "freeParser" /\ held \ {"tree"} = ToFree(defers) \cup {"parser"} /\ "parser" \in held
    BY <1>0, <1>8 DEF DeleteParser
  <2>2. ~misused' /\ held' = held \ {"parser"}
    BY <1>0, <1>8, <2>1, HeapFacts DEF DeleteParser
  <2>3. defers \in {<<>>, <<"query">>}
    BY <1>0, <2>1 DEF DefersInv
  <2>4. "parser" \notin ToFree(defers) /\ "tree" \notin ToFree(defers)
    BY <2>3, DeferredFacts
  <2>5. CASE "tree" \in held
    <3>1. defers' = Append(defers, "tree") /\ pc' \in {"root", "ids"}
      BY <1>8, <2>5 DEF DeleteParser, AfterParse
    <3>2. ToFree(defers)' = ToFree(defers) \cup {"tree"}
      BY <2>3, <3>1, DeferredFacts
    <3>3. held' = ToFree(defers) \cup {"tree"}
      BY <2>1, <2>2, <2>4, <2>5
    <3> QED
      BY <2>2, <3>1, <3>2, <3>3
  <2>6. CASE "tree" \notin held
    <3>1. UNCHANGED defers /\ pc' = "return"
      BY <1>8, <2>6 DEF DeleteParser
    <3>2. held' = ToFree(defers)
      BY <2>1, <2>2, <2>4, <2>6
    <3> QED
      BY <1>c, <2>2, <3>1, <3>2
  <2> QED
    BY <2>5, <2>6
<1>9. CASE RootNode \/ RootType
  BY <1>0, <1>9, <1>c DEF RootNode, AfterRoot, RootType
<1>10. CASE AskType
  BY <1>0, <1>10, <1>b, <1>c, HeapFacts DEF AskType
<1>11. CASE TypeId
  BY <1>0, <1>11, <1>b, <1>c, HeapFacts DEF TypeId
<1>12. CASE TypesAsked
  BY <1>0, <1>12, <1>b, <1>c, BeginsWithoutCursor DEF TypesAsked
<1>13. CASE Captures
  BY <1>0, <1>13, <1>b, <1>c, HeapFacts, BeginsWithoutCursor DEF Captures
<1>14. CASE WalkOn
  <2>1. /\ pc = "walk" /\ pc' = "walk" /\ WalkStep /\ UNCHANGED defers
        /\ held \ {"cursor", "captures"} = ToFree(defers)
        /\ "cursor" \in held <=> step \in CursorSteps \ {"new"}
    BY <1>0, <1>14 DEF WalkOn
  <2>2. CASE step = "new" /\ step' = "visit"
    <3>1. ~misused' /\ held' = held \cup {"cursor"}
      BY <1>0, <1>14, <2>1, <2>2, HeapFacts DEF WalkOn
    <3>2. step' \in CursorSteps \ {"new"}
      BY <2>2 DEF CursorSteps
    <3>3. held' \ {"cursor", "captures"} = held \ {"cursor", "captures"}
      BY <3>1
    <3> QED
      BY <1>c, <2>1, <3>1, <3>2, <3>3
  <2>3. CASE step = "delete"
    <3>1. step \in CursorSteps \ {"new"}
      BY <2>3 DEF CursorSteps
    <3>2. ~misused' /\ held' = held \ {"cursor"}
      BY <1>0, <1>14, <2>1, <2>3, <3>1, HeapFacts DEF WalkOn
    <3>3. step' \notin CursorSteps
      BY <2>1, <2>3, CursorSteps1 DEF CursorSteps
    <3>4. held' \ {"cursor", "captures"} = held \ {"cursor", "captures"}
      BY <3>2
    <3> QED
      BY <1>c, <2>1, <3>2, <3>3, <3>4
  <2>4. CASE ~(step = "new" /\ step' = "visit") /\ step # "delete"
    <3>1. ~misused' /\ held' = held
      BY <1>0, <1>14, <2>4 DEF WalkOn
    <3>2. step \in CursorSteps \ {"new"} <=> step' \in CursorSteps \ {"new"}
      BY <2>1, <2>4, CursorSteps1 DEF CursorSteps
    <3> QED
      BY <1>c, <2>1, <3>1, <3>2
  <2> QED
    BY <2>2, <2>3, <2>4
<1>15. CASE Walked
  <2>1. /\ pc = "walk" /\ pc' = "return" /\ step = "over" /\ UNCHANGED defers
        /\ held \ {"cursor", "captures"} = ToFree(defers)
        /\ "cursor" \notin held
    BY <1>0, <1>15 DEF Walked, Forget, CursorSteps
  <2>2. ~misused' /\ held' = held \ {"captures"}
    <3>1. CASE "captures" \in held
      BY <1>0, <1>15, <3>1, HeapFacts DEF Walked
    <3>2. CASE "captures" \notin held
      BY <1>0, <1>15, <3>2 DEF Walked
    <3> QED
      BY <3>1, <3>2
  <2>3. held' = ToFree(defers)
    BY <2>1, <2>2
  <2> QED
    BY <1>c, <2>1, <2>2, <2>3
<1>16. CASE Deferred
  <2>1. /\ pc \in {"return", "panic"} /\ pc' = pc /\ defers # <<>> /\ held = ToFree(defers)
        /\ Free(defers[Len(defers)]) /\ defers' = SubSeq(defers, 1, Len(defers) - 1)
    BY <1>0, <1>16 DEF Deferred
  <2>2. /\ defers[Len(defers)] \in held
        /\ ToFree(defers') = ToFree(defers) \ {defers[Len(defers)]}
    BY <1>a, <2>1, LastDeferred
  <2>3. ~misused' /\ held' = held \ {defers[Len(defers)]}
    BY <1>0, <2>1, <2>2, HeapFacts
  <2>4. held' = ToFree(defers)'
    BY <2>1, <2>2, <2>3 DEF ToFree
  <2> QED
    BY <2>1, <2>3, <2>4
<1>17. CASE Return
  BY <1>0, <1>17, <1>c DEF Return
<1>18. CASE Restart
  BY <1>0, <1>18, <1>c, DeferredFacts DEF Restart, DefersInv
<1>19. ASSUME NEW w \in Ways, Extract(w) PROVE HeldInv'
  BY <1>0, <1>19, <1>c DEF Extract
<1>20. CASE UNCHANGED vars
  BY <1>0, <1>20, <1>c DEF vars, walkVars
<1> QED
  BY <1>1, <1>2, <1>3, <1>4, <1>5, <1>6, <1>7, <1>8, <1>9, <1>10, <1>11, <1>12, <1>13, <1>14,
     <1>15, <1>16, <1>17, <1>18, <1>19, <1>20 DEF Next, Run, NewQuery

\* Init, and the whole invariant.
LEMMA HeapInit == ASSUME Init PROVE HeapInv /\ RuntimeInv
<1>1. DefersInv
  BY DEF Init, DefersInv
<1>2. HeldInv
  BY DeferredFacts DEF Init, HeldInv, Loading, Anywhere
<1>3. RuntimeInv
  BY DEF Init, RuntimeInv, Loading, Anywhere, Whole
<1> QED
  BY <1>1, <1>2, <1>3 DEF HeapInv

\* Whatever traps, and however an extraction ends, the wasm heap is left as it
\* was found, no object is freed twice or lost, and the runtime is whole or
\* closed: for any number of extractions of any number of files, with any trees.
THEOREM NothingIsLeft == Spec => []LeavesNothing
<1>1. Init => HeapInv /\ RuntimeInv
  BY HeapInit
<1>2. HeapInv /\ RuntimeInv /\ [Next]_vars => HeapInv' /\ RuntimeInv'
  BY DefersInvKept, HeldInvKept, RuntimeInvKept DEF HeapInv
<1>3. HeapInv /\ RuntimeInv => LeavesNothing
  BY DeferredFacts DEF HeapInv, DefersInv, HeldInv, RuntimeInv, Whole, Loading, Anywhere,
     LeavesNothing
<1> QED
  BY <1>1, <1>2, <1>3, PTL DEF Spec

-----------------------------------------------------------------------------
(* Types.                                                                  *)

OwnTypes ==
    /\ pc \in PC
    /\ modules \subseteq Booted \cup {"grammar"}
    /\ env \in {"none", "runtime", "grammar"}
    /\ base \in {"none", "runtime", "grammar"}
    /\ plan \in Way
    /\ held \subseteq Object
    /\ defers \in Seq(Object)
    /\ tries \in 0..MaxQueryRetries
    /\ asked \in 0..Types
    /\ pc = "id" => asked < Types

Switches == lang \in BOOLEAN /\ known \in BOOLEAN /\ misused \in BOOLEAN

LEMMA OwnTypesKept ==
    ASSUME OwnTypes, [Next]_vars
    PROVE  OwnTypes'
<1> USE DEF OwnTypes, PC, runtimeVars, heapVars, askVars, Object, Allocate, Free
<1> USE LanguageAssumption
<1>1. CASE LoadFails \/ RuntimeStarts \/ SwapEnv \/ LinkGrammar \/ RestoreEnv \/ GrammarStarts
  BY <1>1 DEF LoadFails, RuntimeStarts, SwapEnv, LinkGrammar, RestoreEnv, GrammarStarts,
     CloseRuntime
<1>2. ASSUME NEW i \in DOMAIN BootOrder, Instantiate(i) PROVE OwnTypes'
  <2>1. BootOrder[i] \in Booted
    BY DEF Booted
  <2> QED
    BY <1>2, <2>1 DEF Instantiate
<1>3. CASE MallocText \/ QueryNew \/ CaptureNames
  BY <1>3 DEF MallocText, QueryNew, CaptureNames, DeleteQuery
<1>4. CASE QueryTraps
  BY <1>4 DEF QueryTraps, Attempt
<1>5. CASE FreeText
  <2>1. <<"query">> \in Seq(Object)
    OBVIOUS
  <2> QED
    BY <1>5, <2>1 DEF FreeText
<1>6. CASE ParserNew \/ ParseSource
  BY <1>6 DEF ParserNew, ParseSource
<1>7. CASE DeleteParser
  <2>1. Append(defers, "tree") \in Seq(Object)
    OBVIOUS
  <2> QED
    BY <1>7, <2>1 DEF DeleteParser, AfterParse
<1>8. CASE RootNode \/ RootType
  <2>1. pc' \in {"captures", "type", "panic", "ids", "return"}
    BY <1>8 DEF RootNode, AfterRoot, RootType
  <2>2. pc' \in PC /\ pc' # "id"
    BY <2>1
  <2>3. UNCHANGED <<modules, env, base, plan, held, defers, tries, asked>>
    BY <1>8 DEF RootNode, RootType
  <2> QED
    BY <2>2, <2>3
<1>9. CASE AskType
  <2>1. /\ pc' \in {"ids", "id"} /\ asked < Types /\ asked' \in {asked, asked + 1}
        /\ held' \subseteq held \cup {"name"}
        /\ UNCHANGED <<modules, env, base, plan, defers, tries>>
    BY <1>9 DEF AskType
  <2>2. pc' = "id" => asked' < Types
    BY <1>9 DEF AskType
  <2>3. asked' \in 0..Types
    BY <2>1
  <2> QED
    BY <2>1, <2>2, <2>3
<1>10. CASE TypeId
  BY <1>10 DEF TypeId
<1>11. CASE TypesAsked \/ Captures \/ WalkOn \/ Walked
  BY <1>11 DEF TypesAsked, Captures, WalkOn, Walked
<1>12. CASE Deferred
  <2>1. /\ defers # <<>> /\ defers' = SubSeq(defers, 1, Len(defers) - 1) /\ held' \subseteq held
        /\ UNCHANGED <<pc, runtimeVars, plan, askVars>>
    BY <1>12 DEF Deferred
  <2>2. defers' \in Seq(Object)
    BY <2>1
  <2> QED
    BY <2>1, <2>2
<1>13. CASE Return \/ Restart
  BY <1>13 DEF Return, Restart, CloseRuntime
<1>14. ASSUME NEW w \in Ways, Extract(w) PROVE OwnTypes'
  BY <1>14 DEF Extract
<1>15. CASE UNCHANGED vars
  BY <1>15 DEF vars
<1> QED
  BY <1>1, <1>2, <1>3, <1>4, <1>5, <1>6, <1>7, <1>8, <1>9, <1>10, <1>11, <1>12, <1>13, <1>14, <1>15
  DEF Next, Run, Load, NewQuery

LEMMA SwitchesKept ==
    ASSUME Switches, [Next]_vars
    PROVE  Switches'
<1> USE DEF Switches, runtimeVars, heapVars, askVars, Allocate, Free
<1>1. CASE Load
  BY <1>1, Zenon DEF Load, LoadFails, RuntimeStarts, SwapEnv, LinkGrammar, RestoreEnv,
     GrammarStarts, Instantiate
<1>2. CASE NewQuery
  BY <1>2, Zenon DEF NewQuery, MallocText, QueryNew, QueryTraps, CaptureNames, FreeText, DeleteQuery
<1>3. CASE ParserNew \/ ParseSource \/ DeleteParser \/ RootNode \/ RootType
  BY <1>3, Zenon DEF ParserNew, ParseSource, DeleteParser, RootNode, RootType
<1>4. CASE AskType \/ TypeId \/ TypesAsked
  BY <1>4, Zenon DEF AskType, TypeId, TypesAsked
<1>5. CASE Captures \/ WalkOn \/ Walked
  BY <1>5, Zenon DEF Captures, WalkOn, Walked
<1>6. CASE Deferred \/ Return \/ Restart
  BY <1>6, Zenon DEF Deferred, Return, Restart
<1>7. ASSUME NEW w \in Ways, Extract(w) PROVE Switches'
  BY <1>7, Zenon DEF Extract
<1>8. CASE UNCHANGED vars
  BY <1>8, Zenon DEF vars
<1> QED
  BY <1>1, <1>2, <1>3, <1>4, <1>5, <1>6, <1>7, <1>8 DEF Next, Run

\* The state of the runtime, of the extraction and of its walk keeps its types.
THEOREM TypeCorrect == Spec => []TypeOK
<1>1. Init => OwnTypes /\ Switches
  <2>1. ASSUME Init PROVE OwnTypes
    BY <2>1, LanguageAssumption DEF Init, OwnTypes, PC, Way
  <2>2. ASSUME Init PROVE Switches
    BY <2>2, Zenon DEF Init, Switches
  <2> QED
    BY <2>1, <2>2
<1>2. OwnTypes /\ Switches /\ [Next]_vars => OwnTypes' /\ Switches'
  BY OwnTypesKept, SwitchesKept
<1>3. OwnTypes /\ Switches /\ WalkTypeOK => TypeOK
  BY DEF OwnTypes, Switches, TypeOK
<1>4. Spec => []WalkTypeOK
  BY LanguageImplementsTreeWalk, WalkTypeCorrect, PTL
<1> QED
  BY <1>1, <1>2, <1>3, <1>4, PTL DEF Spec
=============================================================================
