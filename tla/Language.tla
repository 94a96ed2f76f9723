------------------------------ MODULE Language ------------------------------
(***************************************************************************)
(* One grammar's tree-sitter runtime in the life of a process: loaded for  *)
(* the first file (symbols/treesitter/runtime.go, LoadGrammar,             *)
(* getCachedLang), cached, and used by the extraction of one file after    *)
(* the other (wasmExtractor.Extract, extractPythonViaWalk,                 *)
(* extractPHPViaWalk, or a caller of the cursor walks).                    *)
(*                                                                         *)
(* Every wasm call may trap.  What is allocated on the wasm heap is freed  *)
(* by Go code, mostly deferred functions; nothing else will.  A trap of    *)
(* RootNode is a panic that nothing recovers from: the deferred functions  *)
(* run and the process dies.                                               *)
(***************************************************************************)
EXTENDS TreeWalk

CONSTANTS
    Ways,            \* how the grammar's files are extracted
    MaxQueryRetries, \* maxQueryRetries
    Types            \* how many node types an extractor looks up

ASSUME LanguageAssumption ==
    /\ Ways \subseteq Way
    /\ MaxQueryRetries \in Nat \ {0}
    /\ Types \in Nat \ {0}

VARIABLES
    pc,       \* the next step of the extraction
    modules,  \* modules instantiated in the grammar's wazero runtime
    env,      \* which "env" module it has
    base,     \* the "env" its grammar was linked against
    lang,     \* whether langCache has the grammar
    plan,     \* how this file is extracted
    held,     \* objects on the wasm heap that nobody has freed
    defers,   \* of those, the ones a deferred function is to free, first to last
    tries,    \* ts_query_new calls that trapped
    asked,    \* node types looked up
    known,    \* whether the grammar has one of them
    misused   \* ghost: an object was freed that was not held, or lost

runtimeVars == <<modules, env, base, lang>>
heapVars == <<held, defers, misused>>
askVars == <<tries, asked, known>>
vars == <<walkVars, pc, runtimeVars, plan, heapVars, askVars>>

Object == {"text", "query", "parser", "tree", "name", "cursor", "captures"}

-----------------------------------------------------------------------------
(* The wasm heap.                                                          *)

Allocate(o) ==
    /\ held' = held \cup {o}
    /\ misused' = (misused \/ o \in held)

\* Whether or not the call traps: its error is dropped and it is not repeated.
Free(o) ==
    /\ held' = held \ {o}
    /\ misused' = (misused \/ o \notin held)

-----------------------------------------------------------------------------
(* Loading.                                                                *)

\* wasmExtractor.Extract, up to getCachedLang; a grammar is extracted in one way.
Extract(w) ==
    /\ pc = "idle"
    /\ plan' = w
    /\ pc' = IF ~lang THEN "boot" ELSE IF w = "query" THEN "text" ELSE "parser"
    /\ tries' = 0 /\ asked' = 0 /\ known' = FALSE
    /\ UNCHANGED <<walkVars, runtimeVars, heapVars>>

\* The modules newRuntime instantiates, each importing from those before it.
BootOrder == <<"wasi", "host", "mem_owner", "env", "GOT.mem", "tree-sitter">>
Booted == {BootOrder[i] : i \in DOMAIN BootOrder}

\* (Mutant.) The runtime of a failed load stays open.
LeftOpen == UNCHANGED <<modules, env, base>>
\* Runtime.Close.
CloseRuntime == modules' = {} /\ env' = "none" /\ base' = "none"

\* newRuntime and getCachedLang: an error closes the runtime, and the file is
\* left to the regular expressions.  Nothing is cached: the next file tries again.
LoadFails ==
    /\ pc \in {"boot", "init", "swap", "link", "restore", "start"}
    /\ CloseRuntime
    /\ pc' = "return"
    /\ UNCHANGED <<walkVars, lang, plan, heapVars, askVars>>

Instantiate(i) ==
    /\ pc = "boot"
    /\ modules = {BootOrder[j] : j \in 1..(i - 1)}
    /\ modules' = modules \cup {BootOrder[i]}
    /\ env' = IF BootOrder[i] = "env" THEN "runtime" ELSE env
    /\ pc' = IF i = Len(BootOrder) THEN "init" ELSE "boot"
    /\ UNCHANGED <<walkVars, base, lang, plan, heapVars, askVars>>

\* bindRuntimeFns, relocations, constructors, ts_init, the shared memory.
RuntimeStarts ==
    /\ pc = "init"
    /\ pc' = "swap"
    /\ UNCHANGED <<walkVars, runtimeVars, plan, heapVars, askVars>>

\* LoadGrammar: "env" is closed and instantiated again, for the grammar ...
SwapEnv ==
    /\ pc = "swap"
    /\ env' = "grammar"
    /\ pc' = "link"
    /\ UNCHANGED <<walkVars, modules, base, lang, plan, heapVars, askVars>>

LinkGrammar ==
    /\ pc = "link"
    /\ modules' = modules \cup {"grammar"}
    /\ base' = env
    /\ pc' = "restore"
    /\ UNCHANGED <<walkVars, env, lang, plan, heapVars, askVars>>

\* ... and for the runtime again.
RestoreEnv ==
    /\ pc = "restore"
    /\ env' = "runtime"
    /\ pc' = "start"
    /\ UNCHANGED <<walkVars, modules, base, lang, plan, heapVars, askVars>>

\* Relocations, constructors, tree_sitter_<name>; getCachedLang caches it.
GrammarStarts ==
    /\ pc = "start"
    /\ lang' = TRUE
    /\ pc' = IF plan = "query" THEN "text" ELSE "parser"
    /\ UNCHANGED <<walkVars, modules, env, base, plan, heapVars, askVars>>

Load ==
    \/ LoadFails \/ RuntimeStarts \/ SwapEnv \/ LinkGrammar \/ RestoreEnv \/ GrammarStarts
    \/ \E i \in DOMAIN BootOrder : Instantiate(i)

-----------------------------------------------------------------------------
(* NewQuery.                                                               *)

MallocText ==
    /\ pc = "text"
    /\ \/ Allocate("text") /\ pc' = "compile"
       \/ UNCHANGED <<held, misused>> /\ pc' = "return"
    /\ UNCHANGED <<walkVars, runtimeVars, plan, defers, askVars>>

\* ts_query_new: a query, no query, or a trap.
QueryNew ==
    /\ pc = "compile"
    /\ \/ Allocate("query") /\ pc' = "names"
       \/ UNCHANGED <<held, misused>> /\ pc' = "noQuery"
    /\ UNCHANGED <<walkVars, runtimeVars, plan, defers, askVars>>

\* (Mutant.) The counter wraps around before the bound is met.
WrapsAround == (tries + 1) % MaxQueryRetries
\* (Mutant.) The attempts are counted down.
CountedDown == tries - 1
Attempt == tries + 1

\* An out-of-bounds trap is tried again: it may have primed the allocator.
QueryTraps ==
    /\ pc = "compile"
    /\ Attempt < MaxQueryRetries
    /\ tries' = Attempt
    /\ UNCHANGED <<walkVars, pc, runtimeVars, plan, heapVars, asked, known>>

\* (Mutant.) The query whose captures cannot be counted is not deleted.
KeepQuery == UNCHANGED <<held, misused>>
\* ts_query_delete.
DeleteQuery == Free("query")

\* The names of the captures; a query whose captures cannot be counted is
\* deleted.
CaptureNames ==
    /\ pc = "names"
    /\ \/ UNCHANGED <<held, misused>> /\ pc' = "query"
       \/ DeleteQuery /\ pc' = "noQuery"
    /\ UNCHANGED <<walkVars, runtimeVars, plan, defers, askVars>>

\* Deferred by NewQuery; Extract defers the deletion of the query it got.
FreeText ==
    /\ Free("text")
    /\ \/ pc = "query" /\ pc' = "parser" /\ defers' = <<"query">>
       \/ pc = "noQuery" /\ pc' = "return" /\ UNCHANGED defers
    /\ UNCHANGED <<walkVars, runtimeVars, plan, askVars>>

NewQuery == MallocText \/ QueryNew \/ QueryTraps \/ CaptureNames \/ FreeText

-----------------------------------------------------------------------------
(* Parse and RootNode.                                                     *)

ParserNew ==
    /\ pc = "parser"
    /\ \/ Allocate("parser") /\ pc' = "parse"
       \/ UNCHANGED <<held, misused>> /\ pc' = "return"
    /\ UNCHANGED <<walkVars, runtimeVars, plan, defers, askVars>>

\* The language is set and the source parsed; either may fail.
ParseSource ==
    /\ pc = "parse"
    /\ Allocate("tree") \/ UNCHANGED <<held, misused>>
    /\ pc' = "freeParser"
    /\ UNCHANGED <<walkVars, runtimeVars, plan, defers, askVars>>

\* A cursor walk asks for the root itself.
AfterParse == IF plan \in {"query", "stack"} THEN "root" ELSE "ids"

\* On each of Parse's return paths; the caller defers closing the tree.
DeleteParser ==
    /\ pc = "freeParser"
    /\ Free("parser")
    /\ IF "tree" \in held THEN pc' = AfterParse /\ defers' = Append(defers, "tree")
                          ELSE pc' = "return" /\ UNCHANGED defers
    /\ UNCHANGED <<walkVars, runtimeVars, plan, askVars>>

\* What follows RootNode: Exec, or Type.
AfterRoot == IF plan = "query" THEN "captures" ELSE "type"

RootNode ==
    /\ pc = "root"
    /\ pc' \in {AfterRoot, "panic"}
    /\ UNCHANGED <<walkVars, runtimeVars, plan, heapVars, askVars>>

\* A tree whose root is an ERROR is left to the regular expressions; a type that
\* cannot be read is none.
RootType ==
    /\ pc = "type"
    /\ pc' \in {"ids", "return"}
    /\ UNCHANGED <<walkVars, runtimeVars, plan, heapVars, askVars>>

-----------------------------------------------------------------------------
(* SymbolIDForName, for each type.                                         *)

AskType ==
    /\ pc = "ids"
    /\ asked < Types
    /\ \/ Allocate("name") /\ pc' = "id" /\ UNCHANGED asked
       \/ asked' = asked + 1 /\ UNCHANGED <<held, misused, pc>>
    /\ UNCHANGED <<walkVars, runtimeVars, plan, defers, tries, known>>

\* An id, or 0 if there is none or the call trapped.
TypeId ==
    /\ pc = "id"
    /\ known' \in {known, TRUE}
    /\ Free("name")
    /\ asked' = asked + 1
    /\ pc' = "ids"
    /\ UNCHANGED <<walkVars, runtimeVars, plan, defers, tries>>

\* Without any, regular expressions; else the walk asks for the root again.
TypesAsked ==
    /\ pc = "ids"
    /\ asked = Types
    /\ IF known
       THEN \/ pc' = "walk" /\ \E t \in Tree : Begin(plan, t)
            \/ pc' = "panic" /\ UNCHANGED walkVars
       ELSE pc' = "return" /\ UNCHANGED walkVars
    /\ UNCHANGED <<runtimeVars, plan, heapVars, askVars>>

-----------------------------------------------------------------------------
(* The walk, and Query.Exec.                                               *)

\* ts_query_captures_wasm leaves the captures on the heap, if there are any.
Captures ==
    /\ pc = "captures"
    /\ \/ /\ pc' = "walk"
          /\ \E t \in Tree : Begin(plan, t)
          /\ IF pending' # {} THEN Allocate("captures") ELSE UNCHANGED <<held, misused>>
       \/ pc' = "return" /\ UNCHANGED <<walkVars, held, misused>>
    /\ UNCHANGED <<runtimeVars, plan, defers, askVars>>

WalkOn ==
    /\ pc = "walk"
    /\ WalkStep
    /\ IF step = "new" /\ step' = "visit" THEN Allocate("cursor")
       ELSE IF step = "delete" THEN Free("cursor")
       ELSE UNCHANGED <<held, misused>>
    /\ UNCHANGED <<pc, runtimeVars, plan, defers, askVars>>

\* Exec's deferred function.
Walked ==
    /\ pc = "walk"
    /\ Forget
    /\ IF "captures" \in held THEN Free("captures") ELSE UNCHANGED <<held, misused>>
    /\ pc' = "return"
    /\ UNCHANGED <<runtimeVars, plan, defers, askVars>>

-----------------------------------------------------------------------------
(* Returning.                                                              *)

\* The last deferred function, of a return or of a panic.
Deferred ==
    /\ pc \in {"return", "panic"}
    /\ defers # <<>>
    /\ Free(defers[Len(defers)])
    /\ defers' = SubSeq(defers, 1, Len(defers) - 1)
    /\ UNCHANGED <<walkVars, pc, runtimeVars, plan, askVars>>

Return ==
    /\ pc \in {"return", "panic"}
    /\ defers = <<>>
    /\ pc' = IF pc = "return" THEN "idle" ELSE "died"
    /\ UNCHANGED <<walkVars, runtimeVars, plan, heapVars, askVars>>

\* A new process, with a heap of its own.
Restart ==
    /\ pc = "died"
    /\ pc' = "idle"
    /\ CloseRuntime
    /\ lang' = FALSE
    /\ held' = {}
    /\ UNCHANGED <<walkVars, plan, defers, misused, askVars>>

Run ==
    \/ Load \/ NewQuery
    \/ ParserNew \/ ParseSource \/ DeleteParser \/ RootNode \/ RootType
    \/ AskType \/ TypeId \/ TypesAsked \/ Captures \/ WalkOn \/ Walked
    \/ Deferred \/ Return

Init ==
    /\ WalkInit
    /\ pc = "idle"
    /\ modules = {} /\ env = "none" /\ base = "none" /\ lang = FALSE
    /\ plan = "cursor"
    /\ held = {} /\ defers = <<>> /\ misused = FALSE
    /\ tries = 0 /\ asked = 0 /\ known = FALSE

Next == Run \/ Restart \/ \E w \in Ways : Extract(w)

Spec == Init /\ [][Next]_vars

\* An extraction is sequential code: it goes on until it has returned.
FairSpec == Spec /\ WF_vars(Run)

-----------------------------------------------------------------------------
(* Properties.                                                             *)

PC == {"idle", "boot", "init", "swap", "link", "restore", "start", "text", "compile", "names",
       "query", "noQuery", "parser", "parse", "freeParser", "root", "type", "ids", "id", "captures",
       "walk", "return", "panic", "died"}

\* The state has its type.
TypeOK ==
    /\ WalkTypeOK
    /\ pc \in PC
    /\ modules \subseteq Booted \cup {"grammar"}
    /\ env \in {"none", "runtime", "grammar"}
    /\ base \in {"none", "runtime", "grammar"}
    /\ lang \in BOOLEAN
    /\ plan \in Way
    /\ held \subseteq Object
    /\ defers \in Seq(Object)
    /\ tries \in 0..MaxQueryRetries
    /\ asked \in 0..Types
    /\ known \in BOOLEAN
    /\ misused \in BOOLEAN

\* Whatever traps, and on whatever path an extraction returns or panics, it frees
\* each object it was given on the wasm heap, once, and no other; and it leaves
\* either a cached grammar, linked past the runtime's own data and table, in a
\* whole runtime that has its own "env" back, or no runtime at all.
LeavesNothing ==
    /\ ~misused
    /\ pc \in {"idle", "died"} =>
          /\ held = {}
          /\ IF lang THEN modules = Booted \cup {"grammar"} /\ env = "runtime" /\ base = "grammar"
                     ELSE modules = {}

\* An extraction returns, with or without symbols, or the process dies of it.
ExtractionReturns == pc \notin {"idle", "died"} ~> pc \in {"idle", "died"}
=============================================================================
