----------------------------- MODULE Enrichment -----------------------------
(***************************************************************************)
(* What engine.Review does between the diff and the prompt: it looks for   *)
(* the definitions of the diff's symbols in the workspace (resolver v1) or *)
(* in the index (v2), adds callers, type definitions and tests when the    *)
(* expansion is on, and attaches excerpts of the files it found until the  *)
(* byte budget is used up.  Meanwhile the workspace may be edited.         *)
(*                                                                         *)
(* Paths and symbols are numbers, in lexical order.  A line is a number of *)
(* bytes and what is recognised on it, by the pattern of v1 and by the     *)
(* extractor that fed the index alike.                                     *)
(***************************************************************************)
EXTENDS Integers, FiniteSets, Sequences, SequencesExt

CONSTANTS
    Review,      \* reviews of one bundle
    File,        \* repository-relative paths
    Symbol,      \* names in the diff that are not of a standard library
    TypeRef,     \* ... those that are type references
    DiffFile,    \* files the diff changes
    Dir,         \* Dir[f]: the directory of f
    Parent,      \* Parent[d]: the directory of d
    Walked,      \* files in scope that the walk does not skip
    TestsOf,     \* TestsOf[f]: the paths of testPatternsFor(f)
    Workspace,   \* workspaces to begin with: contents of the files present
    Content,     \* what an edit may leave in a file, as a sequence of lines
    MayFail,     \* files that opening or reading may fail for
    Config,      \* engine configurations
    MaxRefs,     \* maxRefsPerSymbol, 5 in the code
    Before,      \* lines of an excerpt before the match, 3
    After,       \* ... after it, 50
    Body,        \* lines after the match that a blank line does not end, 5
    MaxLine,     \* bytes of the longest line a bufio.Scanner yields, 1 MiB
    Cap,         \* bytes of an excerpt, 4096
    TestCap,     \* ... of a test's, 8192
    Overhead,    \* what a file costs besides its excerpt, 80
    Budget,      \* EnrichBudget
    MaxEdits     \* bound: edits of the workspace

\* What a line defines, what it uses, whether it is blank, and its bytes without
\* the newline.
Line == [def : SUBSET Symbol, use : SUBSET Symbol, blank : BOOLEAN, size : Nat]
BlankLine == [def |-> {}, use |-> {}, blank |-> TRUE, size |-> 0]

\* index: UseIndex is set, and a healthy index is there to load.
ConfigType == [index : BOOLEAN, callers : BOOLEAN, types : BOOLEAN, tests : BOOLEAN]

ASSUME EnrichmentAssumption ==
    /\ File \subseteq Nat /\ IsFiniteSet(File)
    /\ Symbol \subseteq Nat /\ IsFiniteSet(Symbol)
    /\ TypeRef \subseteq Symbol
    /\ DiffFile \subseteq File
    /\ Walked \subseteq File
    /\ TestsOf \in [File -> SUBSET File]
    /\ Content \subseteq Seq(Line)
    /\ MayFail \subseteq File
    /\ \A w \in Workspace : DOMAIN w \subseteq File /\ w \in [DOMAIN w -> Seq(Line)]
    /\ Config \subseteq ConfigType
    /\ {Before, After, Body, MaxLine, Overhead, Budget, MaxEdits} \subseteq Nat
    /\ {MaxRefs, Cap, TestCap} \subseteq Nat \ {0}

VARIABLES
    disk,        \* disk[f]: the lines of f and its mtime, for the files present
    edits,       \* edits so far; the mtime of what they write
    idx,         \* the lines of the files as the index was built from them
    config,      \* the configuration of this engine
    pc,          \* where each review is
    began,       \* edits when it began (read by the properties only)
    failed,      \* files it failed to list or to read (read by them only, too)
    todo,        \* what is left of the loop it is in
    pending,     \* v1: the matches not yet handled in the file being scanned
    matches,     \* matches[r][s]: the references found for the symbol s
    packed,      \* the candidates the expansion attached
    kept,        \* bundle.ReferencedFiles
    used         \* UsedBytes of the loop it is in

vars == <<disk, edits, idx, config, pc, began, failed, todo, pending, matches,
          packed, kept, used>>
world == <<disk, edits, idx, config>>

Expanding == config.callers \/ config.types \/ config.tests

\* "v1" is the walk of FindReferences, "scan" the file it is at, "v2" the
\* locations of FindReferencesV2, "pack" and "fit" the two loops that spend
\* the budget.
PC == {"start", "v1", "scan", "v2", "pack", "fit", "panicked"}

\* The resolver has returned; the bundle is complete.
Found(r) == pc[r] \in {"v1", "v2"} /\ todo[r] = <<>>
Done(r) == pc[r] = "fit" /\ todo[r] = <<>>

-----------------------------------------------------------------------------
(* The workspace.                                                          *)

\* A file is created or rewritten, or removed.
Edit(f) ==
    /\ edits < MaxEdits
    /\ edits' = edits + 1
    /\ \/ \E c \in Content :
            disk' = [g \in DOMAIN disk \cup {f} |->
                        IF g = f THEN [lines |-> c, mtime |-> edits + 1] ELSE disk[g]]
       \/ /\ f \in DOMAIN disk
          /\ disk' = [g \in DOMAIN disk \ {f} |-> disk[g]]
    /\ UNCHANGED <<idx, config, pc, began, failed, todo, pending, matches, packed, kept, used>>

-----------------------------------------------------------------------------
(* Excerpts.                                                               *)

Lesser(a, b) == IF a < b THEN a ELSE b
Larger(a, b) == IF a > b THEN a ELSE b

\* The bytes of lines that are joined by newlines.
Size(ls) ==
    LET upTo[n \in 0..Len(ls)] ==
            IF n = 0 THEN 0
            ELSE upTo[n - 1] + ls[n].size + (IF n = 1 THEN 0 ELSE 1)
    IN  upTo[Len(ls)]

\* The lines that are whole in the first cap bytes.
WholeIn(ls, cap) ==
    LET fits == {n \in 0..Len(ls) : Size(SubSeq(ls, 1, n)) <= cap}
    IN  SubSeq(ls, 1, CHOOSE n \in fits : \A m \in fits : m <= n)

\* An excerpt is what can be read in it, and its bytes.  A cut at a number of
\* bytes may go through a line, which then shows nothing any more.
NoExcerpt == [lines |-> <<>>, bytes |-> 0]
Cut(ls, cap) == [lines |-> WholeIn(ls, cap), bytes |-> Lesser(Size(ls), cap)]
\* readExcerpt adds line by line, each with a newline.
WholeLines(ls, cap) ==
    [lines |-> WholeIn(ls, cap - 1), bytes |-> Size(WholeIn(ls, cap - 1))]

\* A scanner stops at a line that is too long for its buffer, and nobody asks
\* for its error.
Scanned(ls) ==
    LET long == {n \in DOMAIN ls : ls[n].size > MaxLine}
    IN  IF long = {} THEN ls
        ELSE SubSeq(ls, 1, (CHOOSE n \in long : \A m \in long : n <= m) - 1)

\* What has been read when reading fails: nothing if opening fails.
PartsOf(ls) == {SubSeq(ls, 1, n) : n \in 0..Len(ls)}

\* Splitting a file at its newlines leaves an empty piece after the last one.
Split(ls) == Append(ls, BlankLine)
Pieces(f) == Split(disk[f].lines)

\* lines[start:end] of buildExcerpt, when the file does not have start lines.
OutOfRange(f, n) == n - Before - 1 > Len(Pieces(f))

\* A match on line n is shown up to the first blank line after its body.
BuildExcerpt(f, n) ==
    IF f \notin DOMAIN disk THEN NoExcerpt
    ELSE LET ls == Pieces(f)
             end == Lesser(n + After, Len(ls))
             ends == {i \in n + Body + 2 .. end : ls[i].blank}
             last == IF ends = {} THEN end ELSE (CHOOSE i \in ends : \A j \in ends : i <= j) - 1
         IN  Cut(SubSeq(ls, Larger(1, n - Before), last), Cap)

\* (Mutant.) Line numbers are taken to begin at 0.
WindowBelow(ls, n) == SubSeq(ls, n + 1, Lesser(n + 1 + After, Len(ls)))

\* readExcerptAt and, with a hint, readExcerpt: no blank line ends them.
Window(ls, n) == SubSeq(ls, Larger(1, n - Before), Lesser(n + After, Len(ls)))

ReadExcerptAt(ls, n) == Cut(Window(Scanned(ls), n), Cap)

\* Without a hint the excerpt is the beginning of the file, in one Read.
ReadExcerpt(ls, hint, cap) ==
    IF hint = 0 THEN Cut(Split(ls), cap) ELSE WholeLines(Window(Scanned(ls), hint), cap)

-----------------------------------------------------------------------------
(* Resolver v1.                                                            *)

\* (Mutant.) Files are scanned by path.
PathOrder(f, g) == f < g

\* The tier of a file: beside the diff, in a directory next to it, elsewhere.
Near == {Dir[d] : d \in DiffFile}
Tier(f) ==
    CASE Dir[f] \in Near -> 0
      [] Dir[f] \notin Near /\ Parent[Dir[f]] \in {Parent[d] : d \in Near} -> 1
      [] OTHER -> 2
TierOrder(f, g) == Tier(f) < Tier(g) \/ (Tier(f) = Tier(g) /\ f < g)

\* The ways to sort S: there is one if the order is total.
Sorted(S, Precedes(_, _)) ==
    {q \in SetToSeqs(S) : \A i, j \in DOMAIN q : i < j => ~Precedes(q[j], q[i])}

\* The cap of the symbol s is reached.
Full(r, s) == Len(matches[r][s]) >= MaxRefs

\* collectTiers; it warns of a directory that cannot be listed, and goes on.
Walk(r) ==
    /\ pc[r] = "start" /\ ~config.index
    /\ pc' = [pc EXCEPT ![r] = "v1"]
    /\ began' = [began EXCEPT ![r] = edits]
    /\ \E unlisted \in SUBSET (MayFail \cap DOMAIN disk) :
         /\ failed' = [failed EXCEPT ![r] = unlisted]
         /\ \E files \in Sorted((Walked \cap DOMAIN disk) \ unlisted, TierOrder) :
              todo' = [todo EXCEPT ![r] = files]
    /\ UNCHANGED <<world, pending, matches, packed, kept, used>>

Definitions(ls) == {m \in (DOMAIN ls) \X Symbol : m[2] \in ls[m[1]].def}

\* scanFile opens the next file and reads it; one that is gone is passed over.
Scan(r) ==
    /\ pc[r] = "v1" /\ todo[r] # <<>>
    /\ LET f == Head(todo[r])
       IN  IF f \in DOMAIN disk
           THEN /\ pc' = [pc EXCEPT ![r] = "scan"]
                /\ pending' = [pending EXCEPT ![r] = Definitions(Scanned(disk[f].lines))]
                /\ UNCHANGED todo
           ELSE /\ todo' = [todo EXCEPT ![r] = Tail(@)]
                /\ UNCHANGED <<pc, pending>>
    /\ UNCHANGED <<world, began, failed, matches, packed, kept, used>>

\* Opening a file that is there fails, or reading it to its end: in both cases
\* scanFile returns as if the file ended here.
Fails(r, f) ==
    /\ f \in MayFail \cap DOMAIN disk
    /\ failed' = [failed EXCEPT ![r] = @ \cup {f}]

ScanFails(r) ==
    /\ pc[r] = "v1" /\ todo[r] # <<>>
    /\ Fails(r, Head(todo[r]))
    /\ pc' = [pc EXCEPT ![r] = "scan"]
    /\ \E ls \in PartsOf(disk[Head(todo[r])].lines) :
         pending' = [pending EXCEPT ![r] = Definitions(Scanned(ls))]
    /\ UNCHANGED <<world, began, todo, matches, packed, kept, used>>

\* The matches that are still of interest, by line.
Open(r) == {m \in pending[r] : ~Full(r, m[2])}

\* The excerpt of a match is cut from a second reading of the file.
Match(r) ==
    /\ pc[r] = "scan"
    /\ \E m \in Open(r) :
         LET f == Head(todo[r])
         IN  /\ \A o \in Open(r) : m[1] <= o[1]
             /\ IF f \in DOMAIN disk /\ OutOfRange(f, m[1])
                THEN /\ pc' = [pc EXCEPT ![r] = "panicked"]
                     /\ UNCHANGED <<pending, matches>>
                ELSE /\ pending' = [pending EXCEPT ![r] = @ \ {m}]
                     /\ matches' = [matches EXCEPT ![r][m[2]] = Append(@,
                          [sym |-> m[2], file |-> f, excerpt |-> BuildExcerpt(f, m[1])])]
                     /\ UNCHANGED pc
    /\ UNCHANGED <<world, began, failed, todo, packed, kept, used>>

\* buildExcerpt cannot read the file: the match is listed without an excerpt.
MatchFails(r) ==
    /\ pc[r] = "scan"
    /\ Fails(r, Head(todo[r]))
    /\ \E m \in Open(r) :
         /\ \A o \in Open(r) : m[1] <= o[1]
         /\ pending' = [pending EXCEPT ![r] = @ \ {m}]
         /\ matches' = [matches EXCEPT ![r][m[2]] = Append(@,
              [sym |-> m[2], file |-> Head(todo[r]), excerpt |-> NoExcerpt])]
    /\ UNCHANGED <<world, pc, began, todo, packed, kept, used>>

EndOfFile(r) ==
    /\ pc[r] = "scan" /\ Open(r) = {}
    /\ pc' = [pc EXCEPT ![r] = "v1"]
    /\ todo' = [todo EXCEPT ![r] = Tail(@)]
    /\ pending' = [pending EXCEPT ![r] = {}]
    /\ UNCHANGED <<world, began, failed, matches, packed, kept, used>>

-----------------------------------------------------------------------------
(* Resolver v2.                                                            *)

FirstOnes(q, n) == SubSeq(q, 1, Lesser(Len(q), n))

\* RebuildLookups walks a map of files, in any order, and each file by line.
\* LookupDefs keeps that order, and locationsToRefs the first of them.
DefsIn(f, s) ==
    FlattenSeq([n \in DOMAIN idx[f] |->
        IF s \in idx[f][n].def THEN <<[sym |-> s, file |-> f, line |-> n]>> ELSE <<>>])
LookupDefs(order, s) == FlattenSeq([i \in DOMAIN order |-> DefsIn(order[i], s)])

Ascending(a, b) == a < b
BySymbol == Sorted(Symbol, Ascending)

LoadIndex(r) ==
    /\ pc[r] = "start" /\ config.index
    /\ pc' = [pc EXCEPT ![r] = "v2"]
    /\ began' = [began EXCEPT ![r] = edits]
    /\ \E order \in SetToSeqs(DOMAIN idx), symbols \in BySymbol :
         todo' = [todo EXCEPT ![r] = FlattenSeq(
                    [i \in DOMAIN symbols |-> FirstOnes(LookupDefs(order, symbols[i]), MaxRefs)])]
    /\ UNCHANGED <<world, failed, pending, matches, packed, kept, used>>

Refer(r, loc, excerpt) ==
    /\ matches' = [matches EXCEPT ![r][loc.sym] =
                      Append(@, [sym |-> loc.sym, file |-> loc.file, excerpt |-> excerpt])]
    /\ todo' = [todo EXCEPT ![r] = Tail(@)]

\* The excerpt is read at the line the index has.
ReadAt(r) ==
    /\ pc[r] = "v2" /\ todo[r] # <<>>
    /\ LET loc == Head(todo[r])
       IN  Refer(r, loc, IF loc.file \in DOMAIN disk
                         THEN ReadExcerptAt(disk[loc.file].lines, loc.line) ELSE NoExcerpt)
    /\ UNCHANGED <<world, pc, began, failed, pending, packed, kept, used>>

\* Opening or reading fails: the excerpt is what there was until then.
ReadAtFails(r) ==
    /\ pc[r] = "v2" /\ todo[r] # <<>>
    /\ LET loc == Head(todo[r])
       IN  /\ Fails(r, loc.file)
           /\ \E ls \in PartsOf(disk[loc.file].lines) :
                Refer(r, loc, ReadExcerptAt(ls, loc.line))
    /\ UNCHANGED <<world, pc, began, pending, packed, kept, used>>

-----------------------------------------------------------------------------
(* AttachReferenced.                                                       *)

\* (Mutant.) References to one file are not merged.
Unmerged(refs) ==
    {[file |-> refs[i].file, excerpt |-> refs[i].excerpt, syms |-> refs[i].syms] :
        i \in DOMAIN refs}

\* One input for each file, with the excerpt that was seen first.
Merged(refs) ==
    LET First(f) == CHOOSE i \in DOMAIN refs :
                        refs[i].file = f /\ \A j \in 1..i - 1 : refs[j].file # f
    IN  {[file |-> f, excerpt |-> refs[First(f)].excerpt,
          syms |-> UNION {refs[i].syms : i \in {j \in DOMAIN refs : refs[j].file = f}}] :
            f \in {refs[i].file : i \in DOMAIN refs}}

\* More symbols first, then the shorter excerpt, then the path.
FitOrder(a, b) ==
    LET m == Cardinality(a.syms)  n == Cardinality(b.syms)
    IN  \/ m > n
        \/ m = n /\ a.excerpt.bytes < b.excerpt.bytes
        \/ m = n /\ a.excerpt.bytes = b.excerpt.bytes /\ a.file < b.file

\* (Mutant.) The overhead of a file is left out of its cost.
CostOfExcerpt(excerpt) == excerpt.bytes

Cost(excerpt) == excerpt.bytes + Overhead
Fits(r, excerpt) == used[r] + Cost(excerpt) <= Budget

\* refsToInputs.
Inputs(refs) ==
    [i \in DOMAIN refs |-> [file |-> refs[i].file, excerpt |-> refs[i].excerpt,
                            syms |-> {refs[i].sym}]]

\* (Mutant.) Symbols are listed as the map yields them.
AnyOrder == SetToSeqs(Symbol)

\* v1 lists what it found by symbol; v2 walks a map, in any order.
Orders == IF config.index THEN SetToSeqs(Symbol) ELSE BySymbol

AttachDirectly(r) ==
    /\ Found(r) /\ ~Expanding
    /\ \E order \in Orders :
         LET refs == FlattenSeq([i \in DOMAIN order |-> matches[r][order[i]]])
         IN  \E inputs \in Sorted(Merged(Inputs(refs)), FitOrder) :
                todo' = [todo EXCEPT ![r] = inputs]
    /\ pc' = [pc EXCEPT ![r] = "fit"]
    /\ UNCHANGED <<world, began, failed, pending, matches, packed, kept, used>>

\* One round of the loop: the next file is kept, or dropped for good.
Fit(r) ==
    /\ pc[r] = "fit" /\ todo[r] # <<>>
    /\ LET in == Head(todo[r])
       IN  IF Fits(r, in.excerpt)
           THEN /\ kept' = [kept EXCEPT ![r] = Append(@, in)]
                /\ used' = [used EXCEPT ![r] = @ + Cost(in.excerpt)]
           ELSE UNCHANGED <<kept, used>>
    /\ todo' = [todo EXCEPT ![r] = Tail(@)]
    /\ UNCHANGED <<world, pc, began, failed, pending, matches, packed>>

-----------------------------------------------------------------------------
(* The expansion.                                                          *)

\* What speaks for a file: definitions that were found in it, lines of the
\* index that use a symbol or define a type, and a name that makes it a test.
Direct(r, f) ==
    IF f \in DiffFile THEN {}
    ELSE {m \in Symbol \X (1..MaxRefs) :
            m[2] \in DOMAIN matches[r][m[1]] /\ matches[r][m[1]][m[2]].file = f}
Indexed(f) == config.index /\ f \in DOMAIN idx \ DiffFile
Uses(f) ==
    IF config.callers /\ Indexed(f)
    THEN {m \in (DOMAIN idx[f]) \X Symbol : m[2] \in idx[f][m[1]].use} ELSE {}
Types(f) ==
    IF config.types /\ Indexed(f)
    THEN {m \in (DOMAIN idx[f]) \X TypeRef : m[2] \in idx[f][m[1]].def} ELSE {}
IsTest(f) ==
    config.tests /\ f \in DOMAIN disk /\ \E d \in DiffFile : f \in TestsOf[d]

\* dedupByFile: the strongest strategy, all matches, the first line of them.
Candidate(r, f) ==
    LET lines == {m[1] : m \in Uses(f) \cup Types(f)}
        strategy == IF Direct(r, f) # {} THEN "def_match"
                    ELSE IF Uses(f) # {} THEN "caller"
                    ELSE IF Types(f) # {} THEN "type_def" ELSE "test"
    IN  [file |-> f, strategy |-> strategy,
         n |-> Cardinality(Direct(r, f)) + Cardinality(Uses(f))
                 + Cardinality(Types(f)) + (IF IsTest(f) THEN 1 ELSE 0),
         hint |-> IF lines = {} THEN 0 ELSE CHOOSE n \in lines : \A m \in lines : n <= m,
         mtime |-> IF strategy = "test" THEN disk[f].mtime ELSE 0]

Candidates(r) ==
    {Candidate(r, f) : f \in {g \in File : Direct(r, g) # {} \/ Uses(g) # {}
                                             \/ Types(g) # {} \/ IsTest(g)}}

\* The default weights.  Only tests carry their mtime, which counts for less
\* than the difference of two other scores.
Bonus == [def_match |-> 8, caller |-> 5, type_def |-> 4, test |-> 2]
Score(c) == 10 * c.n + Bonus[c.strategy]
RankOrder(a, b) ==
    \/ Score(a) > Score(b)
    \/ Score(a) = Score(b) /\ a.mtime > b.mtime
    \/ Score(a) = Score(b) /\ a.mtime = b.mtime /\ a.file < b.file

\* (Mutant.) What the ranking chose is attached without having been packed.
ExpandOnly(r) ==
    /\ Found(r) /\ Expanding
    /\ pc' = [pc EXCEPT ![r] = "fit"]
    /\ \E ranked \in Sorted(Candidates(r), RankOrder) : todo' = [todo EXCEPT ![r] = ranked]
    /\ UNCHANGED <<world, began, failed, pending, matches, packed, kept, used>>

Expand(r) ==
    /\ Found(r) /\ Expanding
    /\ pc' = [pc EXCEPT ![r] = "pack"]
    /\ \E ranked \in Sorted(Candidates(r), RankOrder) : todo' = [todo EXCEPT ![r] = ranked]
    /\ UNCHANGED <<world, began, failed, pending, matches, packed, kept, used>>

CapOf(c) == IF c.strategy = "test" THEN TestCap ELSE Cap

Offer(r, c, excerpt) ==
    IF Fits(r, excerpt)
    THEN /\ packed' = [packed EXCEPT ![r] = Append(@,
              [file |-> c.file, strategy |-> c.strategy, hint |-> c.hint,
               excerpt |-> excerpt, syms |-> {}])]
         /\ used' = [used EXCEPT ![r] = @ + Cost(excerpt)]
    ELSE UNCHANGED <<packed, used>>

\* One round of the loop: the next file is read, and packed if it fits.
Pack(r) ==
    /\ pc[r] = "pack" /\ todo[r] # <<>>
    /\ LET c == Head(todo[r])
       IN  IF c.file \in DOMAIN disk
           THEN Offer(r, c, ReadExcerpt(disk[c.file].lines, c.hint, CapOf(c)))
           ELSE UNCHANGED <<packed, used>>
    /\ todo' = [todo EXCEPT ![r] = Tail(@)]
    /\ UNCHANGED <<world, pc, began, failed, pending, matches, kept>>

\* Opening fails, and the file is skipped, or reading does, which goes unnoticed.
PackFails(r) ==
    /\ pc[r] = "pack" /\ todo[r] # <<>>
    /\ LET c == Head(todo[r])
       IN  /\ Fails(r, c.file)
           /\ \/ UNCHANGED <<packed, used>>
              \/ \E ls \in PartsOf(disk[c.file].lines) :
                    Offer(r, c, ReadExcerpt(ls, c.hint, CapOf(c)))
    /\ todo' = [todo EXCEPT ![r] = Tail(@)]
    /\ UNCHANGED <<world, pc, began, pending, matches, kept>>

\* (Mutant.) The second loop goes on with the sum of the first.
AttachOnTop(r) ==
    /\ pc[r] = "pack" /\ todo[r] = <<>>
    /\ pc' = [pc EXCEPT ![r] = "fit"]
    /\ \E inputs \in Sorted(Merged(packed[r]), FitOrder) : todo' = [todo EXCEPT ![r] = inputs]
    /\ UNCHANGED <<world, began, failed, pending, matches, packed, kept, used>>

\* attachResultToInputs keeps neither strategies nor symbols.
AttachPacked(r) ==
    /\ pc[r] = "pack" /\ todo[r] = <<>>
    /\ pc' = [pc EXCEPT ![r] = "fit"]
    /\ \E inputs \in Sorted(Merged(packed[r]), FitOrder) : todo' = [todo EXCEPT ![r] = inputs]
    /\ used' = [used EXCEPT ![r] = 0]
    /\ UNCHANGED <<world, began, failed, pending, matches, packed, kept>>

-----------------------------------------------------------------------------
NoMatches == [s \in Symbol |-> <<>>]

Init ==
    /\ idx \in Workspace
    /\ disk = [f \in DOMAIN idx |-> [lines |-> idx[f], mtime |-> 0]]
    /\ edits = 0
    /\ config \in Config
    /\ pc = [r \in Review |-> "start"]
    /\ began = [r \in Review |-> 0]
    /\ failed = [r \in Review |-> {}]
    /\ todo = [r \in Review |-> <<>>]
    /\ pending = [r \in Review |-> {}]
    /\ matches = [r \in Review |-> NoMatches]
    /\ packed = [r \in Review |-> <<>>]
    /\ kept = [r \in Review |-> <<>>]
    /\ used = [r \in Review |-> 0]

Step(r) ==
    \/ Walk(r) \/ Scan(r) \/ ScanFails(r) \/ Match(r) \/ MatchFails(r) \/ EndOfFile(r)
    \/ LoadIndex(r) \/ ReadAt(r) \/ ReadAtFails(r)
    \/ AttachDirectly(r) \/ Fit(r)
    \/ Expand(r) \/ Pack(r) \/ PackFails(r) \/ AttachPacked(r)

Next == (\E r \in Review : Step(r)) \/ (\E f \in File : Edit(f))

Spec == Init /\ [][Next]_vars

-----------------------------------------------------------------------------
(* Properties.                                                             *)

Excerpt == [lines : Seq(Line), bytes : Nat]
Ref == [sym : Symbol, file : File, excerpt : Excerpt]
Location == [sym : Symbol, file : File, line : Nat]
Input == [file : File, excerpt : Excerpt, syms : SUBSET Symbol]
Strategy == DOMAIN Bonus
Ranked == [file : File, strategy : Strategy, n : Nat, hint : Nat, mtime : Nat]
Packed == [file : File, strategy : Strategy, hint : Nat, excerpt : Excerpt, syms : {{}}]
TodoOf(p) ==
    CASE p = "v1" -> Seq(File)
      [] p \in {"scan", "panicked"} -> Seq(File) \ {<<>>}
      [] p = "v2" -> Seq(Location)
      [] p = "pack" -> Seq(Ranked)
      [] p = "fit" -> Seq(Input)
      [] OTHER -> {<<>>}

TypeOK ==
    /\ edits \in 0..MaxEdits
    /\ DOMAIN disk \subseteq File
    /\ \A f \in DOMAIN disk : disk[f] \in [lines : Seq(Line), mtime : 0..edits]
    /\ idx \in Workspace
    /\ config \in Config
    /\ pc \in [Review -> PC]
    /\ began \in [Review -> 0..edits]
    /\ failed \in [Review -> SUBSET MayFail]
    /\ DOMAIN todo = Review
    /\ \A r \in Review : todo[r] \in TodoOf(pc[r])
    /\ pending \in [Review -> SUBSET (Nat \X Symbol)]
    /\ matches \in [Review -> [Symbol -> Seq(Ref)]]
    /\ packed \in [Review -> Seq(Packed)]
    /\ kept \in [Review -> Seq(Input)]
    /\ used \in [Review -> Nat]

Total(refs) ==
    LET upTo[n \in 0..Len(refs)] ==
            IF n = 0 THEN 0 ELSE upTo[n - 1] + refs[n].excerpt.bytes + Overhead
    IN  upTo[Len(refs)]
FilesOf(refs) == {refs[i].file : i \in DOMAIN refs}

\* f is what it was when the review r began, or when the index was built.
SameSince(r, f) == f \in DOMAIN disk /\ disk[f].mtime <= began[r]
AsIndexed(f) == f \in DOMAIN disk /\ f \in DOMAIN idx /\ disk[f].mtime = 0

\* What is packed, and what is attached in the end, costs no more than
\* EnrichBudget, overhead included (Pack and AttachReferenced, whose sums are
\* kept beside the lists).
BudgetKept ==
    \A r \in Review : Total(packed[r]) <= Budget /\ Total(kept[r]) <= Budget

\* No file is attached twice, although several symbols, strategies and
\* locations may lead to it (AttachReferenced's merge, dedupByFile).
AttachedOnce ==
    \A r \in Review : Cardinality(FilesOf(kept[r])) = Len(kept[r])

\* AttachReferenced, which fits what Pack has chosen into the same budget in
\* another order, drops none of it: ExpansionDropped counts all that was.
SecondFitDropsNothing ==
    \A r \in Review : Done(r) /\ Expanding => FilesOf(kept[r]) = FilesOf(packed[r])

\* A scanner comes to line n of f, and it and the lines before it fit into cap.
HasRoom(f, n, cap) ==
    LET ls == disk[f].lines
    IN  n \in DOMAIN Scanned(ls) /\ Size(SubSeq(ls, Larger(1, n - Before), n)) <= cap

\* The excerpt of a file shows the place it was cut around: a definition that v1
\* has found, if the file was left alone during the review; one that the index
\* had, or a use of a symbol, if it was left alone since the index was built
\* (buildExcerpt, readExcerptAt, readExcerpt).  The file must have been read
\* without a failure, and the cap must not end the excerpt before the match.
\* Nothing is said of a candidate without a hint: the expansion hands over what
\* the resolver found without its line, and shows the beginning of the file.
ExcerptShowsMatch ==
    \A r \in Review :
        /\ ~Expanding => \A i \in DOMAIN kept[r] :
             LET k == kept[r][i]
             IN  /\ k.file \notin failed[r]
                 /\ IF config.index THEN AsIndexed(k.file) ELSE SameSince(r, k.file)
                 /\ \A m \in Definitions(disk[k.file].lines) :
                       m[2] \in k.syms => HasRoom(k.file, m[1], Cap)
                 => \E j \in DOMAIN k.excerpt.lines : k.excerpt.lines[j].def \cap k.syms # {}
        /\ \A i \in DOMAIN packed[r] :
             LET c == packed[r][i]
             IN  /\ c.file \notin failed[r]
                 /\ c.hint # 0 /\ AsIndexed(c.file)
                 /\ HasRoom(c.file, c.hint, CapOf(c) - 1)
                 => \E j \in DOMAIN c.excerpt.lines :
                       c.excerpt.lines[j].def \cup c.excerpt.lines[j].use # {}

\* When a symbol has more definitions than MaxRefs, v1 leaves out the farther
\* ones: a definition in a nearer tier than one that was taken is taken too,
\* unless its file was edited during the review, reading it failed, or a line
\* above it is too long for the scanner (collectTiers, FindReferences).  Near is
\* what collectTiers makes of it: one level of directories, whatever is below.
NearestKept ==
    \A r \in Review : Found(r) /\ ~config.index =>
        \A s \in Symbol : \A i \in DOMAIN matches[r][s] :
            \A f \in Walked :
                /\ SameSince(r, f) /\ f \notin failed[r]
                /\ Tier(f) < Tier(matches[r][s][i].file)
                => Cardinality({j \in DOMAIN matches[r][s] : matches[r][s][j].file = f})
                     = Cardinality({m \in Definitions(Scanned(disk[f].lines)) : m[2] = s})

\* Two reviews of one bundle in one workspace attach the same excerpts in the
\* same order, if all that is there can be read: nothing depends on the order in
\* which maps are walked.  With the index this needs the expansion, which reads
\* every excerpt anew, and symbols with no more definitions than MaxRefs.
FewDefs ==
    \A s \in Symbol :
        Cardinality({m \in UNION {{f} \X (DOMAIN idx[f]) : f \in DOMAIN idx} :
                        s \in idx[m[1]][m[2]].def}) <= MaxRefs
Repeatable ==
    \A r, q \in Review :
        /\ Done(r) /\ Done(q)
        /\ began[r] = edits /\ began[q] = edits
        /\ failed[r] = {} /\ failed[q] = {}
        /\ config.index => Expanding /\ FewDefs
        => kept[r] = kept[q]

\* What prompt.renderReferencedFiles tells the model of the attached files:
\* "they are unchanged context".
ReferencedAreUnchanged ==
    \A r \in Review : FilesOf(kept[r]) \cap DiffFile = {}

\* What Review's comment says: errors during enrichment do not fail the call.
EnrichmentNeverFails == \A r \in Review : pc[r] # "panicked"
=============================================================================
