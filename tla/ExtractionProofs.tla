-------------------------- MODULE ExtractionProofs --------------------------
(***************************************************************************)
(* Theorems about Extraction, for any number of workers, grammars and      *)
(* files, sources of any length and any policies.                          *)
(***************************************************************************)
EXTENDS Extraction, TLAPS

-----------------------------------------------------------------------------
(* Types.                                                                  *)

\* Every variable always has the type TypeOK gives it.
THEOREM TypeCorrect == Spec => []TypeOK
<1> USE ExtractionAssumption
<1>1. Init => TypeOK
  BY DEF Init, TypeOK, Every, PC
<1>2. TypeOK /\ [Next]_vars => TypeOK'
  <2> SUFFICES ASSUME TypeOK, [Next]_vars PROVE TypeOK'
    OBVIOUS
  <2> USE DEF TypeOK, PC, InRuntime, Parsing
  <2>1. ASSUME NEW w \in Worker, Receive(w) PROVE TypeOK'
    BY <2>1 DEF Receive, parseVars
  <2>2. ASSUME NEW w \in Worker, NEW f \in File, Begin(w, f) PROVE TypeOK'
    BY <2>2 DEF Begin, parseVars
  <2>3. ASSUME NEW w \in Worker, NEW f \in File, SkipLarge(w, f) PROVE TypeOK'
    BY <2>3 DEF SkipLarge, parseVars
  <2>4. ASSUME NEW w \in Worker, GiveUp(w) PROVE TypeOK'
    BY <2>4 DEF GiveUp, parseVars
  <2>5. ASSUME NEW f \in File, Extract(f) PROVE TypeOK'
    <3>1. CASE ExtractPlainly(f)
      BY <3>1 DEF ExtractPlainly, Finish
    <3>2. CASE GetLang(f)
      BY <3>2 DEF GetLang, Enter, Users, parseVars
    <3>3. CASE PhpNative(f)
      BY <3>3 DEF PhpNative, Finish
    <3>4. CASE PhpRegex(f)
      BY <3>4 DEF PhpRegex, Finish
    <3>5. CASE PhpTree(f)
      BY <3>5 DEF PhpTree, Enter, Users, parseVars
    <3>6. CASE QueryCompiled(f)
      BY <3>6 DEF QueryCompiled, parseVars
    <3>7. CASE QueryTraps(f)
      BY <3>7 DEF QueryTraps, Attempt, parseVars
    <3>8. CASE QueryFails(f)
      BY <3>8 DEF QueryFails, Finish
    <3>9. CASE SetSource(f)
      BY <3>9 DEF SetSource
    <3>10. CASE ReadChunk(f)
      <4>1. source \in File
        BY <3>10 DEF ReadChunk, AtEnd, SourceLen
      <4>2. QED
        BY <3>10, <4>1 DEF ReadChunk
    <3>11. CASE ReadEnd(f)
      BY <3>11 DEF ReadEnd
    <3>12. CASE ParseFails(f)
      BY <3>12 DEF ParseFails, parseVars
    <3>13. CASE ClearSource(f)
      <4>1. CASE tree[f]
        <5>1. pc' = [pc EXCEPT ![f] = "walk"] /\ UNCHANGED <<tries, at, tree, foreign, crossed, shared>>
          BY <3>13, <4>1 DEF ClearSource
        <5>2. QED
          BY <3>13, <5>1 DEF ClearSource, SourceAfter
      <4>2. CASE ~tree[f]
        <5>1. Finish(f)
          BY <3>13, <4>2 DEF ClearSource
        <5>2. QED
          BY <3>13, <5>1 DEF ClearSource, SourceAfter, Finish
      <4>3. QED
        BY <4>1, <4>2
    <3>14. CASE Walk(f)
      BY <3>14 DEF Walk, Finish
    <3>15. CASE Send(f)
      BY <3>15 DEF Send, parseVars
    <3>16. QED
      BY <2>5, <3>1, <3>2, <3>3, <3>4, <3>5, <3>6, <3>7, <3>8, <3>9, <3>10,
         <3>11, <3>12, <3>13, <3>14, <3>15 DEF Extract
  <2>6. CASE SetExtractionPolicy
    BY <2>6 DEF SetExtractionPolicy, parseVars
  <2>7. ASSUME NEW w \in Worker, Again(w) PROVE TypeOK'
    BY <2>7 DEF Again, Mine, parseVars
  <2>8. CASE UNCHANGED vars
    BY <2>8 DEF vars
  <2>9. QED
    BY <2>1, <2>2, <2>3, <2>4, <2>5, <2>6, <2>7, <2>8 DEF Next, Work
<1>3. QED
  BY <1>1, <1>2, PTL DEF Spec

-----------------------------------------------------------------------------
(* The shared source buffer.                                               *)

\* When no parse is in progress the package variable keeps no source alive:
\* Parse's deferred function clears it on every return path.
THEOREM SourceIsReleased == Spec => []SourceReleased
<1> USE ExtractionAssumption
<1>1. Init => SourceReleased
  BY DEF Init, SourceReleased
<1>2. TypeOK /\ SourceReleased /\ [Next]_vars => SourceReleased'
  <2> SUFFICES ASSUME TypeOK, SourceReleased, [Next]_vars PROVE SourceReleased'
    OBVIOUS
  <2> USE DEF TypeOK, SourceReleased, Parsing
  <2>1. ASSUME NEW w \in Worker, Receive(w) \/ GiveUp(w) PROVE SourceReleased'
    BY <2>1 DEF Receive, GiveUp, parseVars
  <2>2. ASSUME NEW w \in Worker, NEW f \in File, Begin(w, f) \/ SkipLarge(w, f)
        PROVE  SourceReleased'
    BY <2>2 DEF Begin, SkipLarge, parseVars
  <2>3. ASSUME NEW f \in File, Extract(f) PROVE SourceReleased'
    <3>1. CASE ExtractPlainly(f) \/ PhpNative(f) \/ PhpRegex(f) \/ QueryFails(f) \/ Walk(f)
      BY <3>1 DEF ExtractPlainly, PhpNative, PhpRegex, QueryFails, Walk, Finish
    <3>2. CASE GetLang(f) \/ PhpTree(f) \/ QueryCompiled(f) \/ QueryTraps(f) \/ Send(f)
      BY <3>2 DEF GetLang, PhpTree, QueryCompiled, QueryTraps, Send, parseVars
    <3>3. CASE SetSource(f) \/ ReadChunk(f) \/ ReadEnd(f) \/ ParseFails(f)
      BY <3>3 DEF SetSource, ReadChunk, ReadEnd, ParseFails, parseVars
    <3>4. CASE ClearSource(f)
      BY <3>4 DEF ClearSource, SourceAfter
    <3>5. QED
      BY <2>3, <3>1, <3>2, <3>3, <3>4 DEF Extract
  <2>4. CASE SetExtractionPolicy
    BY <2>4 DEF SetExtractionPolicy, parseVars
  <2>5. ASSUME NEW w \in Worker, Again(w) PROVE SourceReleased'
    BY <2>5 DEF Again, Mine, parseVars
  <2>6. CASE UNCHANGED vars
    BY <2>6 DEF vars
  <2>7. QED
    BY <2>1, <2>2, <2>3, <2>4, <2>5, <2>6 DEF Next, Work
<1>3. QED
  BY <1>1, <1>2, TypeCorrect, PTL DEF Spec

\* Two parses in progress have crossed.
Crossing == \A f, g \in File : f # g /\ pc[f] \in Parsing /\ pc[g] \in Parsing => f \in crossed

\* An extraction that is not parsing or walking has no parse behind it.
Fresh(f) == at[f] = 0 /\ f \notin foreign /\ tree[f] = FALSE

\* A parse that has met no other has its source in the package variable and has
\* been given a beginning of it, and all of it once there is a tree.
OwnSource(f) ==
    /\ pc[f] \notin Parsing \cup {"walk"} => Fresh(f)
    /\ pc[f] = "reading" => tree[f] = FALSE
    /\ f \notin crossed /\ pc[f] \in Parsing => source = f /\ at[f] <= Chunks[f]
    /\ f \notin crossed /\ pc[f] \in Parsing \cup {"walk"} => f \notin foreign
    /\ f \notin crossed /\ (pc[f] = "walk" \/ (pc[f] = "clear" /\ tree[f])) => at[f] = Chunks[f]
ParseInv == Crossing /\ \A f \in File : OwnSource(f)

\* A step that leaves the parse of g as it is, and the source too unless g is
\* not parsing or has been crossed, keeps what is known of g.
LEMMA OwnSourceStays ==
    ASSUME NEW g \in File, OwnSource(g), TypeOK,
           at'[g] = at[g], tree'[g] = tree[g], g \in foreign' <=> g \in foreign,
           g \in crossed => g \in crossed',
           \/ pc'[g] = pc[g]
           \/ pc[g] \notin Parsing \cup {"walk"} /\ pc'[g] \notin Parsing \cup {"walk"},
           source' = source \/ g \in crossed' \/ pc[g] \notin Parsing
    PROVE  OwnSource(g)'
  BY DEF OwnSource, Fresh, Parsing

\* An extractor that finishes leaves nothing of its parse behind.
LEMMA FinishIsFresh ==
    ASSUME TypeOK, ParseInv, NEW f \in File, Finish(f), source' = source \/ pc[f] \in Parsing
    PROVE  ParseInv'
<1> USE DEF TypeOK
<1>1. Crossing'
  BY DEF ParseInv, Crossing, Finish, Parsing
<1>2. OwnSource(f)'
  BY DEF Finish, OwnSource, Fresh, Parsing
<1>3. ASSUME NEW g \in File, g # f PROVE OwnSource(g)'
  <2>1. source' = source \/ g \in crossed' \/ pc[g] \notin Parsing
    BY <1>3 DEF ParseInv, Crossing, Finish
  <2>2. QED
    BY <1>3, <2>1, OwnSourceStays DEF ParseInv, Finish
<1>4. QED
  BY <1>1, <1>2, <1>3 DEF ParseInv

\* A parse that no other one overlapped was given its own source, all of it and
\* nothing else, whatever the callback found in the package variable meanwhile.
THEOREM UndisturbedParsesAreOwn == Spec => []UndisturbedParseIsOwn
<1> USE ExtractionAssumption
<1>1. Init => ParseInv
  BY DEF Init, ParseInv, Crossing, OwnSource, Fresh, Every, Parsing
<1>2. TypeOK /\ ParseInv /\ [Next]_vars => ParseInv'
  <2> SUFFICES ASSUME TypeOK, ParseInv, [Next]_vars PROVE ParseInv'
    OBVIOUS
  <2> USE DEF TypeOK
  <2>1. ASSUME UNCHANGED parseVars,
               \A g \in File : \/ pc'[g] = pc[g]
                               \/ /\ pc[g] \notin Parsing \cup {"walk"}
                                  /\ pc'[g] \notin Parsing \cup {"walk"}
        PROVE  ParseInv'
    <3>1. Crossing'
      BY <2>1 DEF ParseInv, Crossing, parseVars
    <3>2. ASSUME NEW g \in File PROVE OwnSource(g)'
      BY <2>1, OwnSourceStays DEF ParseInv, parseVars
    <3>3. QED
      BY <3>1, <3>2 DEF ParseInv
  <2>2. ASSUME NEW w \in Worker, Receive(w) \/ GiveUp(w) PROVE ParseInv'
    BY <2>1, <2>2 DEF Receive, GiveUp
  <2>3. ASSUME NEW w \in Worker, NEW f \in File, Begin(w, f) \/ SkipLarge(w, f) PROVE ParseInv'
    BY <2>1, <2>3 DEF Begin, SkipLarge, Parsing
  <2>4. ASSUME NEW f \in File, Extract(f) PROVE ParseInv'
    <3>1. CASE ExtractPlainly(f) \/ PhpNative(f) \/ PhpRegex(f) \/ QueryFails(f) \/ Walk(f)
      BY <3>1, FinishIsFresh DEF ExtractPlainly, PhpNative, PhpRegex, QueryFails, Walk
    <3>2. CASE GetLang(f) \/ PhpTree(f) \/ QueryCompiled(f) \/ QueryTraps(f) \/ Send(f)
      <4>1. UNCHANGED parseVars
        BY <3>2 DEF GetLang, PhpTree, QueryCompiled, QueryTraps, Send
      <4>2. pc[f] \notin Parsing \cup {"walk"} /\ pc'[f] \notin Parsing \cup {"walk"}
        BY <3>2 DEF GetLang, PhpTree, QueryCompiled, QueryTraps, Send, Parsing
      <4>3. \A g \in File : g # f => pc'[g] = pc[g]
        BY <3>2 DEF GetLang, PhpTree, QueryCompiled, QueryTraps, Send
      <4>4. QED
        BY <2>1, <4>1, <4>2, <4>3
    <3>3. CASE SetSource(f)
      <4>1. Crossing'
        BY <3>3 DEF ParseInv, Crossing, SetSource, Parsing
      <4>2. OwnSource(f)'
        BY <3>3 DEF ParseInv, OwnSource, Fresh, SetSource, Parsing
      <4>3. ASSUME NEW g \in File, g # f PROVE OwnSource(g)'
        <5>1. g \in crossed' \/ pc[g] \notin Parsing
          BY <3>3, <4>3 DEF SetSource
        <5>2. QED
          BY <3>3, <4>3, <5>1, OwnSourceStays DEF ParseInv, SetSource
      <4>4. QED
        BY <4>1, <4>2, <4>3 DEF ParseInv
    <3>4. CASE ReadChunk(f)
      <4>1. Crossing'
        BY <3>4 DEF ParseInv, Crossing, ReadChunk
      <4>2. OwnSource(f)'
        BY <3>4 DEF ParseInv, OwnSource, Fresh, ReadChunk, AtEnd, SourceLen, Parsing
      <4>3. ASSUME NEW g \in File, g # f PROVE OwnSource(g)'
        BY <3>4, <4>3, OwnSourceStays DEF ParseInv, ReadChunk
      <4>4. QED
        BY <4>1, <4>2, <4>3 DEF ParseInv
    <3>5. CASE ReadEnd(f)
      <4>1. Crossing'
        BY <3>5 DEF ParseInv, Crossing, ReadEnd, Parsing
      <4>2. OwnSource(f)'
        <5>1. f \notin crossed => at[f] = Chunks[f]
          BY <3>5 DEF ParseInv, OwnSource, ReadEnd, AtEnd, SourceLen, Parsing
        <5>2. QED
          BY <3>5, <5>1 DEF ParseInv, OwnSource, Fresh, ReadEnd, Parsing
      <4>3. ASSUME NEW g \in File, g # f PROVE OwnSource(g)'
        BY <3>5, <4>3, OwnSourceStays DEF ParseInv, ReadEnd
      <4>4. QED
        BY <4>1, <4>2, <4>3 DEF ParseInv
    <3>6. CASE ParseFails(f)
      <4>1. Crossing'
        BY <3>6 DEF ParseInv, Crossing, ParseFails, parseVars, Parsing
      <4>2. OwnSource(f)'
        BY <3>6 DEF ParseInv, OwnSource, Fresh, ParseFails, parseVars, Parsing
      <4>3. ASSUME NEW g \in File, g # f PROVE OwnSource(g)'
        BY <3>6, <4>3, OwnSourceStays DEF ParseInv, ParseFails, parseVars
      <4>4. QED
        BY <4>1, <4>2, <4>3 DEF ParseInv
    <3>7. CASE ClearSource(f)
      <4>1. CASE ~tree[f]
        <5>1. Finish(f) /\ pc[f] \in Parsing
          BY <3>7, <4>1 DEF ClearSource, Parsing
        <5>2. QED
          BY <5>1, FinishIsFresh
      <4>2. CASE tree[f]
        <5>1. /\ pc[f] = "clear"
              /\ pc' = [pc EXCEPT ![f] = "walk"]
              /\ UNCHANGED <<at, tree, foreign, crossed>>
          BY <3>7, <4>2 DEF ClearSource
        <5>2. Crossing'
          BY <5>1 DEF ParseInv, Crossing, Parsing
        <5>3. OwnSource(f)'
          BY <4>2, <5>1 DEF ParseInv, OwnSource, Fresh, Parsing
        <5>4. ASSUME NEW g \in File, g # f PROVE OwnSource(g)'
          <6>1. g \in crossed \/ pc[g] \notin Parsing
            BY <5>1, <5>4 DEF ParseInv, Crossing, Parsing
          <6>2. QED
            BY <5>1, <5>4, <6>1, OwnSourceStays DEF ParseInv
        <5>5. QED
          BY <5>2, <5>3, <5>4 DEF ParseInv
      <4>3. QED
        BY <4>1, <4>2
    <3>8. QED
      BY <2>4, <3>1, <3>2, <3>3, <3>4, <3>5, <3>6, <3>7 DEF Extract
  <2>5. CASE SetExtractionPolicy
    BY <2>1, <2>5 DEF SetExtractionPolicy
  <2>6. ASSUME NEW w \in Worker, Again(w) PROVE ParseInv'
    BY <2>1, <2>6 DEF Again, Mine, Parsing
  <2>7. CASE UNCHANGED vars
    BY <2>1, <2>7 DEF vars, parseVars
  <2>8. QED
    BY <2>2, <2>3, <2>4, <2>5, <2>6, <2>7 DEF Next, Work
<1>3. ParseInv => UndisturbedParseIsOwn
  BY DEF ParseInv, OwnSource, UndisturbedParseIsOwn
<1>4. QED
  BY <1>1, <1>2, <1>3, TypeCorrect, PTL DEF Spec
=============================================================================
