----------------------------- MODULE Extraction -----------------------------
(***************************************************************************)
(* Extracting the symbols of files: any number of workers of one process,  *)
(* each running the extractor of a file at a time (symbols/wasm.go,        *)
(* symbols/policy.go) on the grammar runtimes of symbols/treesitter, which *)
(* all of them share and which are fed their source text by a callback     *)
(* from one package variable.                                              *)
(*                                                                         *)
(* The workers of one index.BuildFull are one per language; beside them    *)
(* run those of another build, the reviews, whose ExtractFromBundle goes   *)
(* through the files of a diff, and single ScanFiles.  No lock keeps any   *)
(* two of them out of the runtime of one grammar.                          *)
(*                                                                         *)
(* A worker in Timed goes through ExtractWithPolicy, which runs the        *)
(* extraction in a goroutine and may give up waiting for it; the others    *)
(* call Extract.  An extraction is named by its file: a file that two      *)
(* workers extract is two members of File.  A source is a number of        *)
(* chunks, one per call of the callback.                                   *)
(***************************************************************************)
EXTENDS Naturals, FiniteSets

CONSTANTS
    File,
    Worker,          \* goroutines that extract one file after the other
    WorkerOf,        \* who extracts a file
    Grammar,         \* tree-sitter grammars, one runtime each
    GrammarOf,       \* wasmGrammarNameFor, on File
    KindOf,          \* how a grammar's files are extracted
    Timed,           \* workers that go through ExtractWithPolicy
    Large,           \* files above MaxFileSize
    Chunks,          \* how many calls of the callback a file's source takes
    MaxQueryRetries, \* maxQueryRetries
    Policies,        \* the extraction policies engines are made with
    Nil              \* no file; a nil source

\* ast    no grammar: go/parser (GoASTExtractor)
\* walk   python: parse, then walk the tree
\* php    DispatchPHP
\* query  typescript and tsx: compile a query, parse, run the query
Kind == {"ast", "walk", "php", "query"}
Strategy == {"auto", "treesitter", "phpsyms", "regex"}
Policy == [php : Strategy, timeout : BOOLEAN, maxSize : BOOLEAN]

ASSUME ExtractionAssumption ==
    /\ Nil \notin File
    /\ WorkerOf \in [File -> Worker]
    /\ GrammarOf \in [File -> Grammar]
    /\ KindOf \in [Grammar -> Kind]
    /\ Timed \subseteq Worker
    /\ \A f \in File : WorkerOf[f] \in Timed => KindOf[GrammarOf[f]] = "php"
    /\ Large \subseteq File
    /\ Chunks \in [File -> Nat]
    /\ MaxQueryRetries \in Nat \ {0}
    /\ Policies \subseteq Policy

VARIABLES
    policy,   \* currentPolicy
    source,   \* parseSrcBuf: the file whose source it holds, or Nil
    cur,      \* the file each worker is waiting for
    async,    \* extractions in a goroutine of ExtractWithPolicy
    pc,       \* where the extraction of each file is
    tries,    \* ts_query_new calls that trapped
    at,       \* chunks the parser has been given
    tree,     \* whether the parser returned a tree
    \* Ghosts.
    shared,   \* extractions whose runtime has had another user meanwhile
    foreign,  \* parses that have been given a chunk of another file
    crossed   \* parses that were in progress at the same time as another

parseVars == <<source, at, tree, foreign, crossed>>
vars == <<policy, source, cur, async, pc, tries, at, tree, shared, foreign, crossed>>

\* From Parse's first lock to its deferred function.
Parsing == {"reading", "clear"}
\* Using the runtime of the file's grammar.
InRuntime == {"query", "set", "walk"} \cup Parsing
PC == {"todo", "resolve", "dispatch", "sending", "done"} \cup InRuntime

TypeOK ==
    /\ policy \in Policy
    /\ source \in File \cup {Nil}
    /\ cur \in [Worker -> File \cup {Nil}]
    /\ async \subseteq File
    /\ pc \in [File -> PC]
    /\ tries \in [File -> Nat]
    /\ at \in [File -> Nat]
    /\ tree \in [File -> BOOLEAN]
    /\ shared \subseteq File
    /\ foreign \subseteq File
    /\ crossed \subseteq File

KindOfFile(f) == KindOf[GrammarOf[f]]
Every(v) == [f \in File |-> v]

-----------------------------------------------------------------------------
(* The workers.                                                            *)

\* The files of a language, of a diff or of one call, taken one after the other.
Mine(w) == {f \in File : WorkerOf[f] = w}

\* ExtractWithPolicy's gates, on a snapshot of the policy.
TooLarge(w, f) == w \in Timed /\ f \in Large /\ policy.maxSize

Begin(w, f) ==
    /\ cur[w] = Nil
    /\ f \in Mine(w)
    /\ pc[f] = "todo"
    /\ ~TooLarge(w, f)
    /\ cur' = [cur EXCEPT ![w] = f]
    /\ async' = IF w \in Timed /\ policy.timeout THEN async \cup {f} ELSE async
    /\ pc' = [pc EXCEPT ![f] = IF w \in Timed THEN "dispatch" ELSE "resolve"]
    /\ UNCHANGED <<policy, parseVars, tries, shared>>

\* No extraction, only a warning.
SkipLarge(w, f) ==
    /\ cur[w] = Nil
    /\ f \in Mine(w)
    /\ pc[f] = "todo"
    /\ TooLarge(w, f)
    /\ pc' = [pc EXCEPT ![f] = "done"]
    /\ UNCHANGED <<policy, parseVars, cur, async, tries, shared>>

\* time.After fires before the result is there, or the select picks it though
\* the result is there too.  The goroutine is left to itself.
GiveUp(w) ==
    /\ cur[w] \in async
    /\ cur' = [cur EXCEPT ![w] = Nil]
    /\ UNCHANGED <<policy, parseVars, async, pc, tries, shared>>

\* The worker takes the result: Extract returns, or the select receives it.
Receive(w) ==
    /\ cur[w] # Nil
    /\ pc[cur[w]] = "done"
    /\ cur' = [cur EXCEPT ![w] = Nil]
    /\ UNCHANGED <<policy, parseVars, async, pc, tries, shared>>

\* (Mutant.) The channel has no slot.
Handshake(f) == cur[WorkerOf[f]] = f

\* The goroutine sends its result.  The channel holds one, so it never waits
\* for a receiver.
ChannelTakes(f) == TRUE

Send(f) ==
    /\ pc[f] = "sending"
    /\ ChannelTakes(f)
    /\ pc' = [pc EXCEPT ![f] = "done"]
    /\ UNCHANGED <<policy, parseVars, cur, async, tries, shared>>

-----------------------------------------------------------------------------
(* Choosing an extractor.                                                  *)

\* The extractor returns; in a goroutine its result is still to be sent.
Finish(f) ==
    /\ pc' = [pc EXCEPT ![f] = IF f \in async THEN "sending" ELSE "done"]
    /\ tries' = [tries EXCEPT ![f] = 0]
    /\ at' = [at EXCEPT ![f] = 0]
    /\ tree' = [tree EXCEPT ![f] = FALSE]
    /\ foreign' = foreign \ {f}
    /\ crossed' = crossed \ {f}
    /\ shared' = shared \ {f}

\* f goes into the runtime of its grammar, where others may be: wazero runtimes
\* are single-threaded, and what comes of an extraction that shared one is
\* undefined from here on.
Users(f) == {g \in File \ {f} : pc[g] \in InRuntime /\ GrammarOf[g] = GrammarOf[f]}
Enter(f) == shared' = IF Users(f) = {} THEN shared ELSE shared \cup Users(f) \cup {f}

\* Go files; files whose grammar is not installed or does not load.
ExtractPlainly(f) ==
    /\ pc[f] = "resolve"
    /\ Finish(f)
    /\ UNCHANGED <<policy, source, cur, async>>

\* getCachedLang: the grammar's runtime, loaded under its lock the first time.
GetLang(f) ==
    /\ pc[f] = "resolve"
    /\ KindOfFile(f) # "ast"
    /\ pc' = [pc EXCEPT ![f] = CASE KindOfFile(f) = "php" -> "dispatch"
                                 [] KindOfFile(f) = "query" -> "query"
                                 [] OTHER -> "set"]
    /\ IF KindOfFile(f) = "php" THEN UNCHANGED shared ELSE Enter(f)
    /\ UNCHANGED <<policy, parseVars, cur, async, tries>>

\* DispatchPHP, on a snapshot of the policy: the Go-native extractor, ...
PhpNative(f) ==
    /\ pc[f] = "dispatch"
    /\ policy.php \in {"auto", "phpsyms"}
    /\ Finish(f)
    /\ UNCHANGED <<policy, source, cur, async>>

\* ... regular expressions, ...
PhpRegex(f) ==
    /\ pc[f] = "dispatch"
    /\ policy.php = "regex"
    /\ Finish(f)
    /\ UNCHANGED <<policy, source, cur, async>>

\* ... or the tree, for "auto" when the native extractor found nothing.
PhpTree(f) ==
    /\ pc[f] = "dispatch"
    /\ policy.php \in {"auto", "treesitter"}
    /\ pc' = [pc EXCEPT ![f] = "set"]
    /\ Enter(f)
    /\ UNCHANGED <<policy, parseVars, cur, async, tries>>

-----------------------------------------------------------------------------
(* NewQuery.                                                               *)

QueryCompiled(f) ==
    /\ pc[f] = "query"
    /\ pc' = [pc EXCEPT ![f] = "set"]
    /\ tries' = [tries EXCEPT ![f] = 0]
    /\ UNCHANGED <<policy, parseVars, cur, async, shared>>

\* (Mutant.) The counter of retries counts down.
CountedDown(f) == tries[f] - 1

\* ts_query_new trapped out of bounds; the next attempt may not.
Attempt(f) == tries[f] + 1

QueryTraps(f) ==
    /\ pc[f] = "query"
    /\ Attempt(f) < MaxQueryRetries
    /\ tries' = [tries EXCEPT ![f] = Attempt(f)]
    /\ UNCHANGED <<policy, parseVars, cur, async, pc, shared>>

\* It failed for good: the last attempt trapped, or any failed otherwise.
QueryFails(f) ==
    /\ pc[f] = "query"
    /\ Finish(f)
    /\ UNCHANGED <<policy, source, cur, async>>

-----------------------------------------------------------------------------
(* Parse.                                                                  *)

SetSource(f) ==
    /\ pc[f] = "set"
    /\ source' = f
    /\ pc' = [pc EXCEPT ![f] = "reading"]
    /\ LET others == {g \in File : pc[g] \in Parsing}
       IN crossed' = IF others = {} THEN crossed ELSE crossed \cup others \cup {f}
    /\ UNCHANGED <<policy, cur, async, tries, at, tree, shared, foreign>>

\* The callback: whatever parseSrcBuf holds when it takes the lock.
SourceLen == IF source = Nil THEN 0 ELSE Chunks[source]
\* (Mutant.) The callback drops the last chunk.
LastChunkDropped(f) == at[f] + 1 >= SourceLen
AtEnd(f) == at[f] >= SourceLen

ReadChunk(f) ==
    /\ pc[f] = "reading"
    /\ ~AtEnd(f)
    /\ at' = [at EXCEPT ![f] = @ + 1]
    /\ foreign' = IF source = f THEN foreign ELSE foreign \cup {f}
    /\ UNCHANGED <<policy, source, cur, async, pc, tries, tree, shared, crossed>>

\* Length zero ends the input, and the parser returns its tree.
ReadEnd(f) ==
    /\ pc[f] = "reading"
    /\ AtEnd(f)
    /\ tree' = [tree EXCEPT ![f] = TRUE]
    /\ pc' = [pc EXCEPT ![f] = "clear"]
    /\ UNCHANGED <<policy, source, cur, async, tries, at, shared, foreign, crossed>>

\* A wasm call trapped or returned nothing.
ParseFails(f) ==
    /\ pc[f] = "reading"
    /\ pc' = [pc EXCEPT ![f] = "clear"]
    /\ UNCHANGED <<policy, parseVars, cur, async, tries, shared>>

\* (Mutant.) A parse that failed leaves its source behind.
KeptAfterFailure(f) == IF tree[f] THEN Nil ELSE source

\* Parse's deferred function, on every return path; a parse that failed falls
\* back to regular expressions.
SourceAfter(f) == Nil

ClearSource(f) ==
    /\ pc[f] = "clear"
    /\ source' = SourceAfter(f)
    /\ IF tree[f]
       THEN /\ pc' = [pc EXCEPT ![f] = "walk"]
            /\ UNCHANGED <<tries, at, tree, foreign, crossed, shared>>
       ELSE Finish(f)
    /\ UNCHANGED <<policy, cur, async>>

\* Walking the tree, or running the query on it; an error, an ERROR root or no
\* nodes at all fall back to regular expressions.
Walk(f) ==
    /\ pc[f] = "walk"
    /\ Finish(f)
    /\ UNCHANGED <<policy, source, cur, async>>

-----------------------------------------------------------------------------
\* engine.New mirrors its policy into the process-wide one.
SetExtractionPolicy ==
    /\ policy' \in Policies \ {policy}
    /\ UNCHANGED <<parseVars, cur, async, pc, tries, shared>>

\* The next build, or the next review, whatever the other workers are doing.
\* Bound: a worker's files come again when the goroutines it has left behind
\* are done, so that a file names one of them at most.
Again(w) ==
    /\ cur[w] = Nil
    /\ Mine(w) # {}
    /\ \A f \in Mine(w) : pc[f] = "done"
    /\ async' = async \ Mine(w)
    /\ pc' = [f \in File |-> IF f \in Mine(w) THEN "todo" ELSE pc[f]]
    /\ UNCHANGED <<policy, parseVars, cur, tries, shared>>

Init ==
    /\ policy \in Policies
    /\ source = Nil
    /\ cur = [w \in Worker |-> Nil]
    /\ async = {}
    /\ pc = Every("todo")
    /\ tries = Every(0)
    /\ at = Every(0)
    /\ tree = Every(FALSE)
    /\ shared = {}
    /\ foreign = {}
    /\ crossed = {}

Extract(f) ==
    \/ ExtractPlainly(f) \/ GetLang(f)
    \/ PhpNative(f) \/ PhpRegex(f) \/ PhpTree(f)
    \/ QueryCompiled(f) \/ QueryTraps(f) \/ QueryFails(f)
    \/ SetSource(f) \/ ReadChunk(f) \/ ReadEnd(f) \/ ParseFails(f) \/ ClearSource(f)
    \/ Walk(f) \/ Send(f)

Work(w) == Receive(w) \/ \E f \in File : Begin(w, f) \/ SkipLarge(w, f)

Next ==
    \/ \E w \in Worker : Work(w) \/ GiveUp(w) \/ Again(w)
    \/ \E f \in File : Extract(f)
    \/ SetExtractionPolicy

Spec == Init /\ [][Next]_vars

\* The Go scheduler runs every goroutine that can run; wasm calls return, in a
\* runtime that one goroutine is using.
FairSpec ==
    /\ Spec
    /\ \A f \in File : WF_vars(f \notin shared /\ Extract(f))
    /\ \A w \in Worker : WF_vars(Work(w))

-----------------------------------------------------------------------------
(* Properties.                                                             *)

\* A parse that no other parse of the process overlapped was given its own
\* source, all of it and nothing else, although the callback reads a variable
\* of the package; unless two goroutines were in its runtime.
UndisturbedParseIsOwn ==
    \A f \in File \ (crossed \cup shared) :
        pc[f] = "walk" => f \notin foreign /\ at[f] = Chunks[f]

\* When no parse is in progress the package variable keeps no source alive,
\* whichever way the parses before ended and however they overlapped.
SourceReleased == (\A f \in File : pc[f] \notin Parsing) => source = Nil

\* Every extraction that was begun comes to an end, also one whose caller has
\* stopped waiting: no goroutine is leaked.  Nothing is said of one that gets
\* company in its runtime, which no lock prevents.
EveryExtractionEnds ==
    \A f \in File : pc[f] \in {"resolve", "dispatch"} ~> pc[f] = "done" \/ f \in shared

\* BuildFull (lifecycle.go:29-31): "across-language parallelism is safe because
\* each grammar owns an isolated runtime".  Each parse reads its own source.
ParseReadsItsOwnSource ==
    \A f \in File : pc[f] = "walk" => f \notin foreign /\ at[f] = Chunks[f]

=============================================================================
