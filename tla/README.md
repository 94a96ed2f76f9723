# A verification of llmreviewkit

llmreviewkit is a Go library that reviews a diff with a language model. It collects
the diff, looks up the definitions the diff uses (by tree-sitter grammars compiled to
WebAssembly, and in an index of the workspace kept on disk), attaches excerpts within a
byte budget, sends the prompt to a provider and parses the answer. This directory holds
TLA+ models of the parts of it that are hard to test, TLC configurations that check them
on small instances, and TLAPS proofs of the most important properties for every instance.

## 1. The system

Lines are those of the repository's files, without the leading `src/`.

| component | state | operations | who calls it |
|---|---|---|---|
| index store (`index/lifecycle.go`, `storage.go`) | `<state>/index/index.json`, `<state>/index/.lock` | `LoadOrBuild`, `BuildFull`, `incrementalUpdate`, `AcquireLock`, `Release`, `LoadJSON`, `WriteJSON` | `engine.SyncIndex` under the lock, `engine.tryLoadIndex` without it; any number of processes share one state directory |
| scanner (`index/scanner.go`) | none; reads the workspace | `WalkWorkspace`, `ScanFile` (stat, read, extract) | `BuildFull`'s workers, `incrementalUpdate` |
| index lookups (`index/index.go`) | maps derived from an `Index` | `RebuildLookups`, `LookupDefs`, ... | resolver, expansion |
| extraction (`symbols/wasm.go`, `policy.go`, `factory*.go`) | the process-wide policy and workspace root; cached languages | `Extract`, `ExtractWithPolicy`, `DispatchPHP`, `SetExtractionPolicy` | scanner (`index/scanner.go`), resolver, `ExtractFromBundle` |
| tree-sitter runtime (`symbols/treesitter/runtime.go`, `parser.go`, `query.go`) | one wazero runtime per grammar, with its modules and its heap; `langCache`; the package variable `parseSrcBuf` | `LoadGrammar`, `Parse` with its read callback, `RootNode`, `NewQuery` with its retries, `Exec`, `Close` | extraction |
| tree-sitter cursors (`symbols/treesitter/cursor.go`) | a node or cursor in the runtime's one `TRANSFER_BUFFER`, its copy in Go | `WalkAllNamedNodes`, `WalkNamedChildren`, `WalkAllNamedNodesNoCursor`, `NodeChildByFieldID`, `NamedChild` | extraction of Python and PHP |
| other extractors (`symbols/regex.go`, `go_ast.go`, `php_native.go`) | none | pure functions of a file | extraction |
| extract cache, state directory, grammar installer (`symbols/cache.go`, `statedir/statedir.go`, `grammars/install.go`) | files under a cache or state directory, their `.tmp` neighbours | `GetOrExtract`, `WriteAtomic`, `Install`, `Remove` | library users |
| resolver (`resolver/`) | none; reads the workspace and an `Index` | v1 (walks files), v2 (index lookups and excerpts) | `engine.Review` |
| expansion (`expand/`, `engine/expansion.go`) | none | `Callers`, `TypeDefs`, `Tests`, `dedupByFile`, `Rank`, `Pack` | `engine.Review` |
| diff bundle (`diff/`) | the bundle | `Collect`, the size cap, `AttachReferenced` | users, `engine.Review` |
| engine (`engine/`) | configuration | `New`, `SyncIndex`, `Review` | users |
| providers (`provider/`) | none | `Chat` with one fallback request after a 400 | `engine.Review` |
| bundle log (`bundlelog/`) | a jsonl file and its backup | `AppendTo`, `AppendWithRotation` | `engine.Review`, users |
| schema, prompt, context, glossary, render, errors, git | none | formatting, decoding, running git | the engine and its users |

Interaction: processes meet in files (the index and its lock, the cache, the log) and by
nothing else; goroutines of a process meet in `BuildFull`'s workers, in the goroutine of
`ExtractWithPolicy`, in the package variables of `symbols` and `symbols/treesitter`, and
through a channel of one slot. The cached grammar runtimes are among those variables:
`BuildFull` gives each one worker, but a `Review` (through `ExtractFromBundle`) and another
build of the process use the same ones at the same time, and no lock keeps them apart. The one callback that matters is
`tree_sitter_parse_callback`: the parser calls it, in WebAssembly, for the next chunk of
source.

What is hard: two callers of `SyncIndex` and a process that dies or loses power inside it;
a file edited between the stat and the read of its scan; modification times that do not
tell two edits apart; the shared source buffer under parallel parses; a timeout that
leaves a goroutine in a runtime; wasm calls that trap, between one buffer they all use and
a heap that nobody collects; a fixed temporary name shared by two writers; line
numbers of one reading of a file applied to a later one; one budget spent in two loops. The
complete list, with lines, is `hazards` in `PROJECT.json`.

What makes each part correct: the index store publishes one whole index at a time, each
superseding the one before, and what it returns agrees with the workspace; extraction
gives every parse its own source and comes to an end; a walk
of a tree finds what it should, in the order of the source, and leaves nothing on the wasm
heap; a replaced file is whole and read whole; the attachment keeps its budget, shows what it was
made for and does not depend on the order of a map; a review sends at most three requests,
never the same twice, returns the answer that parsed and comes to an end; (planned) the log
loses no entry that the rotation was meant to keep.

## 2. The modules

### IndexStore (with SingleWriter)

`IndexStore.tla` models `LoadOrBuild` step by step in each of `Proc` (processes, or
goroutines of one), beside reviews (`Reader`), an environment that edits, removes and
creates files, and time.

| model | code |
|---|---|
| `disk`, `lockFile` | `index.json`, `.lock` |
| `pc`, `idx`, `changed`, `out`, `tries` | the local variables of `LoadOrBuild`, `incrementalUpdate`, `AcquireLock` |
| `work`, `seen` | the file a loop is at, and the result of `os.Stat` in `ScanFile` |
| `Acquire`, `Poll`, `AcquireFails` | `AcquireLock` (`storage.go:87-110`): `O_EXCL`, the poll, the deadline |
| `LoadForBuild`, `LoadFails`, `LoadForUpdate` | `lifecycle.go:85-127`: missing or of another version, unreadable, stale, or usable |
| `Walk`, `StampBuilt`, `ScanStat`, `ScanRead`, `ScanFails` | `BuildFull` with one worker per language, `WalkWorkspace`, which leaves out what it cannot list (`Unlisted`, `scanner.go:125-127`), `ScanFile` |
| `CheckGone`, `CheckMtime`, `WalkForNew` | the two passes of `incrementalUpdate` |
| `WriteTemp`, `Rename`, `WriteFails`, `ReturnUnchanged`, `Release`, `ReleaseFails` | `WriteJSON` and the deferred `Release`, which drops the error of `os.Remove` |
| `ReviewLoads` | `tryLoadIndex` |
| `Edit`, `Remove`, `Tick`, `Flush`, `Crash`, `PowerLoss` | the environment, the kinds of `FaultKinds` |

The symbols of a file are abstracted to the version of the content they were extracted
from: two entries are equal exactly when they were read from the same version.
`SingleWriter.tla` is the abstract specification: a published document with at most one
owner, replaced by its owner only, by a document that supersedes it; an owner that dies, or
leaves the lock behind, is never succeeded. `IndexStore` implements it with `owner` read off the program counters and
the lock file.

### Extraction

`Extraction.tla` models all the goroutines of a process that extract files, as workers with
the files they go through: those of `BuildFull`, one per language; a `Review`, whose
`ExtractFromBundle` takes the files of a diff one after the other; a second `SyncIndex` of
the process; callers of `ExtractWithPolicy` (`Timed`), with its gates, its goroutine and its
channel. Each begins again when it likes (`Again`). It models the choice of an extractor,
`NewQuery`'s bounded retries, and `Parse` with `parseSrcBuf` and its callback. An
extraction is named by its file; a file that two workers extract is two of the model's. A
file's source is a number of chunks. What is found in a tree is left out here: `Walk` ends
the extraction whether it found symbols, or fell back. `Language` models what goes on
inside, for the files of one grammar and one user.

Two goroutines in the runtime of one grammar are possible in the model as in the code: an
extraction that a timeout left behind meets the next one, a review meets a build. What
comes of a single-threaded runtime then is undefined. `shared` remembers the extractions it
happened to, and nothing is promised of what these parse, nor that they come to an end; in
the model they go on like the others or stay where they are. That such a call might take
the process down, or corrupt the heap for the extractions after it, is not modelled.

`SetExtractionPolicy` may happen at any time, as any `engine.New` of the process does it.
`engine.SyncIndex` and `Review` call `Extract` for every language and never
`ExtractWithPolicy`; the latter is exported and documented for library users.

### Language (with TreeWalk)

`Language.tla` follows one grammar through a process: it is loaded for the first file, put
into `langCache`, and used for one file after the other, in the way its extractor uses it
(`Ways`). It EXTENDS `TreeWalk.tla`, which models how a tree is read out of the runtime, one
wasm call at a time. Every wasm call may trap: most errors are handled, some are dropped,
and the one of `RootNode` is a panic.

| model | code |
|---|---|
| `modules`, `env`, `base` | the modules of the wazero runtime, which `env` it has, and the one the grammar was linked against |
| `Instantiate`, `RuntimeStarts` | `newRuntime` (`runtime.go`): each module imports from those before it |
| `SwapEnv`, `LinkGrammar`, `RestoreEnv`, `GrammarStarts`, `LoadFails` | `LoadGrammar` (`parser.go`) and `getCachedLang`; an error closes the runtime |
| `held`, `defers`, `Allocate`, `Free` | the objects on the wasm heap, and those a deferred function is to free |
| `MallocText`, `QueryNew`, `QueryTraps`, `CaptureNames`, `FreeText` | `NewQuery` (`query.go`) |
| `ParserNew`, `ParseSource`, `DeleteParser`, `RootNode` | `Parse`, `RootNode` |
| `RootType`, `AskType`, `TypeId`, `TypesAsked` | the extractors up to their walk: an ERROR as root, the ids of the node types |
| `Captures`, `Walked` | `Query.Exec` and its deferred function |
| `Deferred`, `Return`, `Restart` | the deferred functions, last first, of a return or a panic |
| `buf`, `here`, `step` | `TRANSFER_BUFFER`, the Go copy of the cursor (or the node popped), the next call |
| `NewCursor`, `Visit`, `CurrentNode`, `Record`, `NameChild`, `Name`, `GoDown`, `GoNext`, `GoUp`, `DeleteCursor` | `WalkAllNamedNodes` and `WalkNamedChildren`; `Restored` is `restoreCursor` |
| `Pop`, `Measure`, `Count`, `Child`, `PushKids` | `WalkAllNamedNodesNoCursor` |
| `Popped`, `LookUp` | the loops of the extractors over the nodes found, and their fields |
| `Capture` | `scanCaptures` |

The nodes of a tree are numbered in the order of the source, and a subtree is an interval of
numbers; so a tree is a sequence, and neither a walk nor what it is to find needs recursion.
A call leaves `Junk` in the buffer when it traps. A cursor may also stay where it is though
the tree goes on (`NoMove`): the source says that it does for some grammars and not why
(`cursor.go:419-422`), so the model lets it happen anywhere. `hurt` remembers both. Each way
of `Ways` is one of the five uses made of a grammar: a query, the walk with a stack, and the
cursor walks with a field for the name (`names`), without one (`own`) and for nodes alone
(`cursor`). The extractors of the repository use the query and the stack
(`wasm.go:171`, `:266`, `:566`); the cursor walks are exported. The order in which a query
yields its captures is the runtime's, so any order is possible in the model.
Symbols keep the node and the field they come from; their kinds and names are left out.

### FileReplace

`FileReplace.tla` models what `WriteAtomic`, `GetOrExtract` and `Install` have in common,
on one path, at the level of inodes: `os.WriteFile` opens `<path>.tmp` with `O_TRUNC` and
writes it part by part, the rename moves whatever has that name by then, and a reader goes
on reading the inode it opened. The differences are kept: only `WriteAtomic` removes the
temporary file when writing it fails (`Tidy`), and only `GetOrExtract` reads before it
writes (`Cached`). `WriteJSON` of the index, whose temporary file has a name of its own, is
part of `IndexStore`.

### Enrichment

`Enrichment.tla` models what `engine.Review` does between the diff and the prompt, for any
number of reviews of one bundle, beside an environment that rewrites, creates and removes
files (`Edit`), and whose reads fail (`MayFail`). The order of the files in a loop is part of the state (`todo`), and every
file is read in a step of its own, so that an edit may come between any two of them. What the
code sorts is any sorted sequence of the set (`Sorted`); that there is but one of them, and
that nothing else is left to the order of a Go map, is for `Repeatable` to say.

| model | code |
|---|---|
| `Walk`, `TierOrder` | `collectTiers` (`resolver.go:187-283`): files beside the diff, in directories next to it, elsewhere; a directory that cannot be listed is left out |
| `Scan`, `Match`, `EndOfFile` | `FindReferences` (`resolver.go:97-141`): one file after the other, its matches by line, up to the cap of each symbol; `buildExcerpt` reads the file a second time |
| `ScanFails`, `MatchFails`, `ReadAtFails`, `PackFails` | the same when opening fails (`resolver.go:98-101`, `:289-292`, `v2.go:118-121`, `ranker.go:103-106`) or the reading breaks off, which no caller of a scanner asks about |
| `LoadIndex`, `ReadAt` | `FindReferencesV2` and `locationsToRefs` (`v2.go:67-113`): the locations of an index built before the edits, in the random order of `RebuildLookups` |
| `Candidates`, `Expand` | `runExpansion`, the strategies, `dedupByFile`, `Rank` |
| `Pack`, `AttachPacked` | `expand.Pack` (`ranker.go:93-119`) and `attachResultToInputs` |
| `AttachDirectly` | `engine.go:185-190` and `refsToInputs`, without expansion |
| `Merged`, `FitOrder`, `Fit` | `AttachReferenced` (`attach.go:54-112`): the second, sorted, greedy loop over the same budget |
| `kept`, `used` | `bundle.ReferencedFiles` and the bytes counted so far |

A file is a sequence of lines, and a line is what is recognised on it: the symbols it
defines, those it uses, its length in bytes, and whether it is blank, which is what
`buildExcerpt` looks for. Excerpts are cut at a number of bytes, newlines counted: `Cut` ends
inside a line (`resolver.go:310-312`, `v2.go:145-147`), which then shows nothing, `WholeLines`
between two (`ranker.go:157-159`). A line longer than the scanner's buffer ends the file for
whoever scans it (`Scanned`), but not for `buildExcerpt`. `failed` keeps which files a review
failed to list or to read; only properties read it. Scores keep their weights; the recency term, less than
the difference of two scores, orders equal scores only. A panic is a state
of its own (`"panicked"`), from which nothing follows.

### Review (with OneAnswer)

`Review.tla` models `engine.Review` around its enrichment, for any number of reviews
through either adapter, and servers that refuse, fail, answer anything or never answer.
Reviews of one configuration share nothing but the sink of the bundle log. What the
enrichment attaches is any text (`Attachment`); `Enrichment` says which.

| model | code |
|---|---|
| `Skip`, `Enrich` | `shouldEnrich` (`helpers.go:26-58`) and the block it guards (`engine.go:135-198`) |
| `WriteLog`, `log`, `unlogged` | `AppendTo` (`bundlelog.go:49-65`): one `Write`, whose error is dropped |
| `Prompts`, `Interpolated`, `Replace` | `prompt.Build` and `interpolate`: `ReplaceAll` of one placeholder after the other, in the order of a Go map |
| `Body`, `req` | `Chat` of the adapters: `try` is `TryJSONSchema`, `attempt` what `send` is told, `format` whether the body asks for structured output |
| `Ask`, `sent`; `NetworkError` | `send` up to `client.Do`, and its failures: the timeout, a done context, the connection |
| `Refused`, `Fallback` | a 400 to an attempt: the body without what was refused, no attempt again |
| `ServerFails`, `Unusable`, `Holds` | `mapHTTPError`, answers without choices or blocks, `extractContent` |
| `Good`, `Bad`, `BadAgain`, `Correction` | `schema.Parse` and `Review`'s one retry, whose messages quote the answer |
| `got`, `result` | what came of each request, and which answer's tokens are in the `Result` |

A text is a sequence of placeholders and other pieces; an answer is what `schema.Parse`
makes of it. A `Write` that fails after a part of the line is in `unlogged`, like one that
wrote nothing. The enrichment is one step here and always comes to an end. `got` and `unlogged`
are history: the code keeps neither.

`OneAnswer` is what a caller sees: a bounded number of requests, then one answer or one
error. `ImplementsOneAnswer` says that `Review` implements it with three.

### MC modules

`MCIndexStore`, `MCExtraction`, `MCLanguage`, `MCFileReplace`, `MCEnrichment` and `MCReview`
extend these with the constants of the runs. `IndexStoreProofs`, `ExtractionProofs`,
`TreeWalkProofs`, `LanguageProofs`, `FileReplaceProofs`, `EnrichmentProofs` and `ReviewProofs`
hold the theorems, and `SequenceFacts` what the last two need to know of the operators on
sequences.
A definition whose comment begins with "(Mutant.)" is no part of a model: it is a mistake
that could be made in the definition after it, see section 3.

## 3. The runs

| run | checks | bounds |
|---|---|---|
| `index_sync` | the safety properties of the store and its refinement of `SingleWriter` | 2 processes, 2 files of 2 languages, ticks 1-3, one poll of the lock, `StaleThreshold` 1 tick, I/O errors and deaths anywhere |
| `index_faults` | the lock, and `StalenessBounded` | 2 processes, 1 file, ticks 1-4, versions up to 2; power losses, edits within a tick, back-dated files |
| `index_busy` | `EverySyncEnds`, `Converges`, `ReviewsMoveForward` | 2 processes that keep syncing, 1 file, 1 review, ticks 1-3, deaths |
| `extraction` | the safety and liveness properties of extraction | a build's worker with a TypeScript file of two chunks, a caller of `ExtractWithPolicy` with a PHP file of one (above the size limit of one policy), a review with another PHP file; two attempts at a query, two policies that replace each other |
| `tree_sitter` | what walks find, what is left on the heap, that extractions return | all trees of up to 4 nodes, with an unnamed node or not, a node without width or not, and three choices of the nodes looked for; the five ways; 3 attempts at a query, 2 node types; a trap at every call and a cursor that stays behind at every move; any number of files and restarts |
| `file_replace` | the three properties of replaced files | 1 caller of `WriteAtomic`, 1 of `GetOrExtract`, 1 reader, 3 inodes, 2 contents, 2 parts |
| `enrichment` | the budget, the merge, the excerpts, the tiers, repeatability | 2 interchangeable reviews, 5 files in 3 directories (a changed one, its neighbour, its test, two farther ones), 2 workspaces, 2 symbols with 2 or 3 definitions, `MaxRefs` 2, one edit at any moment, one file that may fail to be listed, opened or read at any of its readings; excerpts of 1 line before and 3 after a match, 5 bytes (tests 7) at most, budget 12, overhead 1, lines of 0, 1, 4 and 9 bytes of which a scanner takes 8; without index, with it, and with every expansion |
| `review` | the conversation, the log line, the prompt, `EveryReviewEnds`, the refinement of `OneAnswer` | 2 reviews, one through each adapter; 3 configurations (enriched and logged; enriched or not, with an unusable schema; not enriched); 2 bundles, one of them with a placeholder in its diff; 1 template that uses a placeholder twice; 2 attachments |
| `index_corrupt`, `extraction_shared`, `enrichment_changed`, `enrichment_panic` | one sentence of a comment each, which the code does not keep | see section 6 |

Why these bounds are enough: two processes are the least that can contend, and a third
adds nobody that the lock does not treat like the second; the waiting one runs into its
deadline in every run (`MaxTries`). Two files of two languages give the parallel workers of
a build and the two passes of an update something to interleave with, and one file
suffices for what is said of each file alone. The clock goes two ticks past
`StaleThreshold`, so that an index is built, gets stale and is rebuilt. Two parts are the
least with a half-written file; with three inodes there is one for the destination, one
for the temporary file and one that a reader still holds. A source of two chunks can be
cut between them. Two of the three extractions share a runtime and one has its own, so that
parses overlap in one runtime, in two, and not at all, and the goroutine that a timeout left
behind meets another user. `MaxClock` and `MaxVer` are the only
bounds on what would otherwise grow; `MaxQueryRetries` is a constant of the code (16),
taken as 2 or 3. Four nodes are the least with a node that has two children of which one
has a child, so that a walk goes down, sideways and up by more than one level; nothing is
carried from one file to the next but the grammar and the heap, and neither grows, so that
`tree_sitter` needs no bound on the files. In `enrichment` the budget holds two or three excerpts of the five, so that
both loops drop files; a definition lies behind as many lines as an excerpt shows before
it, another before a blank line, two of one file are too far apart for one excerpt, one
comes behind a line that leaves no room for it under the cap, and one behind a line that no
scanner gets past; the file that may fail is the nearer one of two;
one edit is enough for each reading that differs from an earlier one, `MaxEdits` bounds
them. `review` has no bound on the conversation: it ends by itself, and that is one of the
properties. Two reviews suffice, as they meet in the log alone. `Permutations(Proc)` in the index runs and those of inodes and contents in
`FileReplace` and of reviews in `Enrichment` are used in runs without liveness properties only; `index_busy`,
`tree_sitter` and `review` have none.

Each property of a passing run has a mutant, a plausible mistake in the code under which
the run fails: a lock that is taken when the deadline has passed, a stat after the read, a
second pass that forgets new files, a threshold that is never looked at, an unbuffered
channel, a retry counter that wraps around or counts down, a callback that drops the last chunk, a buffer that
is kept after a failed parse, a cursor that is not put back before a call, children pushed
from left to right, a query that is not deleted on an error path, a rename before the last part, a cost without its overhead,
a sum that the second loop does not reset, files scanned by path and not by tier, a map
whose order reaches the prompt, a request without a timeout, a fallback that asks for the
same or may follow itself, a correction that quotes nothing, tokens of the wrong answer.
Deadlock is checked except where the system may stop: when
every review of `Enrichment` or `Review` has come to its end, and in the cfgs that say so.

### What the properties say

`IndexStore`
- `LockExclusive`, `NoLostUpdate`: one process at a time, and what it loaded is what it
  replaces.
- `NoHiddenEdit`: an entry on disk, in a build or in a review never has the modification
  time of an edit it has not seen. It rests on `ScanFile` calling `os.Stat` before
  `os.ReadFile`, and on clocks that tell edits apart.
- `SyncReturnsCurrent`: a successful `SyncIndex` agrees with every file left alone since
  the call began. `StalenessBounded`: and, whatever the modification times say, with every
  file left alone for `StaleThreshold`. Both exempt files that could not be listed or scanned
  during the call (`missed`), which the code leaves out without a word.
- `ReviewsMoveForward`: no review reads an older index than an earlier review did.
- `OrphanIsForever`: the lock of a dead process, or of one that failed to remove it, stays,
  and `index.json` with it. This is
  what the code does, not what one would wish: nothing breaks a stale lock.
- `EverySyncEnds`, `Converges`: every call ends; a workspace that is left alone is indexed
  in the end, unless the lock is orphaned. `index_busy`, which checks these two, has deaths
  and no I/O errors, under which nothing need converge.

`Extraction`
- `UndisturbedParseIsOwn`: a parse that no other parse overlapped has read its own source,
  if it had its runtime to itself.
- `SourceReleased`: no source outlives the parses, however many there were at once.
- `EveryExtractionEnds`: no extraction that has its runtime to itself hangs, whether its
  caller waits or not, and so no goroutine leaks.

`Language`
- `InOrder`: whatever calls trap, a walk finds nodes it is to find, once each and in the
  order of the source, each with its own bytes, and reports their children so; of a query's
  captures only that none is reported twice. It is what a
  cursor that is not restored, a view of the buffer that is kept too long or a stack filled
  the wrong way round would break.
- `NothingMissed`: a walk in which no call trapped has found everything; a walk with a cursor,
  if the cursor went wherever the tree goes on. A walk in which a call did trap, or a cursor
  stayed behind, may miss whole subtrees, and reports success all the same. The property is
  about the code around the calls: what is restored, pushed and popped. It does not refute
  the comment at `cursor.go:419-422`, nor explain it.
- `LeavesNothing`: on every path out of an extraction, each object that was allocated on the
  wasm heap has been freed, once, and the runtime is whole or closed.
- `ExtractionReturns`: an extraction returns, or its process dies of a panic.

`FileReplace`
- `FileIsWhole`, `ReadsAreWhole`: what no two writers made at once is whole, also when a dead
  writer's temporary file was there before, and is read whole even while it is replaced.

`Enrichment`
- `BudgetKept`, `AttachedOnce`: of the list that is there at any moment, not of the sum
  the code keeps beside it.
- `SecondFitDropsNothing`: what `Pack` has fitted into the budget fits again in
  `AttachReferenced`, in whatever order. It rests on `dedupByFile` having merged by file
  before, on one cost function, and on a sum that starts from zero.
- `ExcerptShowsMatch`: an excerpt that was cut around a line shows it: in v1 and v2 a
  definition of a symbol the file is listed for, in the expansion a use or a definition. The
  file must have been left alone (since the review began in v1, since the index was built in
  v2 and the expansion) and read without a failure, and there must be room (`HasRoom`): a
  scanner comes to the line, and the cap holds it together with the lines before it that are
  shown. Without room the match is cut off, which is section 6's. It says nothing of files the
  expansion attaches without a line (`hint` is 0): the resolver's own matches and tests, of
  which the beginning is shown.
- `NearestKept`: a symbol's cap leaves out farther files only, as far as nearer ones could be
  listed and read, and up to a line that is too long for the scanner.
- `Repeatable`: equal workspaces in which no reading failed give equal attachments, in the
  same order. Two cases are
  left out, because there the order of a Go map does decide: v2 without expansion, where the
  excerpt of a file with two symbols is that of the symbol seen first; and v2 for symbols
  with more definitions than `MaxRefs`, where the first of them are taken.

`Review`
- `RequestsBounded`, `NothingAskedTwice`, `CorrectionFollowsRejection`: the adapter's
  fallback and `Review`'s retry, each written without the other in mind, compose to three
  requests at most, of which none repeats another. One case is left out of the second: with
  a schema that is no JSON object OpenAI's `send` is told of an attempt that the body does
  not make, and a 400 is answered with the same body.
- `GoodAnswerIsReturned`: an answer that parsed is returned, whatever came before it, with
  its own tokens; nothing else is. What an answer that did not parse cost is reported
  nowhere.
- `LoggedBeforeAsked`: one line per enriched review, before the model is asked, with what is
  attached to the prompt. A review that is not enriched writes none.
- `PromptFaithful`: the map's order does not matter unless a text names a placeholder, and
  no text is lost even then.
- `EveryReviewEnds`, `ImplementsOneAnswer`. That a review ends rests on the client timeout of
  the two adapters; of a caller's own `Provider` nothing is known, and of the enrichment only
  that it ends: it reads finitely many files, but may take so long that it "can stall reviews
  indefinitely" (`options.go:94-97`), which no model without time refutes.

### Fairness

`FairSpec` of `IndexStore` asks of every process that it takes a step of `LoadOrBuild`
when it can for ever: the operating system and the Go scheduler run it, and none of its
steps waits for anything but the lock, which it polls. `Crash` is not fair and may happen
at any time. `BusySpec` adds callers who call again, which only `Converges` needs.
`FairSpec` of `Extraction` asks the same of every worker, and of every extraction whose
runtime has no other user; it supposes that wasm calls return then, which the code does too
(it sets no limit inside a runtime). `SetExtractionPolicy`, `GiveUp` and `Again` are not
fair.
`FairSpec` of `Language` asks that an extraction goes on (`Run`): it is sequential code that
waits for nothing, and its wasm calls return or trap. New files and new processes are not
fair.
`FairSpec` of `Review` asks of every review that it takes a step of its own when it can for
ever; the timeout is one (`HTTPTimeout` of the client, `provider/constants.go:8`). What
servers do is not fair.

## 4. What is proved

The theorems hold for every value of the constants that satisfies the assumption of the
module (`ConstantsAssumption`, `ExtractionAssumption`, `FileReplaceAssumption`,
`TreeAssumption`, `LanguageAssumption`, `EnrichmentAssumption`, `ReviewAssumption`). These
say what the code takes for granted: files, names and placeholders are finitely many, an
excerpt has a byte at least, a placeholder is no other piece of text.

`IndexStoreProofs`
- `TypeCorrect`, `LockIsExclusive`, `NoUpdateIsLost`. The lock's invariant is inductive with
  the types; `NoLostUpdate` needs it, because a rename of another process is what could
  break it.
- `OrphansStay`, without power losses (which may take the lock file away).
- `EditsAreNeverHidden`, for clocks that are neither coarse nor back-dated. The inductive
  invariant (`TrustInv`) adds that no file is stamped later than the clock and that what a
  scan's `os.Stat` saw is not later than the file. The entry that `ScanRead` makes is
  trusted because of the latter, and stays so because a later edit has a later stamp.
- `SyncsReturnCurrent`, for the same clocks, and `StalenessIsBounded`, for any. Both follow
  from `CurrencyInv`, which says of each place in a sync which files its index is right about
  already: those behind the loop's position, those the loop has to come to, and those whose
  entry the modification time, or the age of the index, vouches for.
- `ReviewsNeverGoBack`, without power losses: what a process holds supersedes what is on disk,
  and what is on disk supersedes what any review has loaded.
- `IndexIsASingleWriterDocument`, without power losses: every step of the store is one of
  `SingleWriter`, or leaves its owner and its document alone.

`ExtractionProofs`
- `TypeCorrect`.
- `SourceIsReleased`, inductive as it stands.
- `UndisturbedParsesAreOwn`, from `ParseInv`: two parses in progress have crossed, and one
  that has not finds its source in the variable and has read a beginning of it. The second
  part needs the first: without it another parse's deferred function could clear the
  variable.

`TreeWalkProofs`, for any trees of any size
- `WalkTypeCorrect`.
- `WalksFindInOrder`, from `WalkInv`. `InOrder` is not inductive: it must be known that all
  results lie behind the walk's position (`Behind`), and what that position is differs from
  call to call. A cursor about to go down has behind it the nodes up to its own, one about
  to go sideways or up its whole subtree. The walk with a stack (`StackInv`) needs that the
  subtrees on the stack are disjoint and sorted, the earliest on top; after a pop, the
  children collected lie between the popped node and the rest of the stack.
- `WalksMissNothing`, from `MissInv`: a cursor has found all that lies before its position; for
  the stack, a node that was not found lies in a subtree on it, in the one at hand, or in that
  of a child that was collected or is to come. That a cursor back at depth 0 is done needs that
  its depth is the number of nodes it is below (`DepthInv`).

`LanguageProofs`
- `LanguageImplementsTreeWalk`: each step of the process is a step of a walk, or leaves the
  walk alone. `ExtractionsFindInOrder` and `ExtractionsMissNothing` follow from it and what is
  proved of walks.
- `NothingIsLeft`, from three invariants: what is deferred at each place (`DefersInv`), that
  what is held is that and the objects of the call in hand (`HeldInv`), and how far the
  runtime is linked (`RuntimeInv`).
- `TypeCorrect`.

`FileReplaceProofs`
- `TypeCorrect`, inductive only with `Handles` (an actor has an inode open exactly while it
  reads or writes).
- `PublishedFileIsWhole`, `RenamedIsWritten`, `WholeFilesAreRead`, from `Safe`: the
  temporary file is no file that is published or being read; one that no two writers met
  over has at most one writer behind it, which has written it up to its position; and what
  is published or being read is whole and written by nobody.

`ReviewProofs`
- `RequestsAreBounded`, `NothingIsAskedTwice`, `CorrectionsFollowRejections`,
  `TheGoodAnswerIsReturned`, all from one inductive invariant, `Inv`: every request but the
  one in flight has its outcome (`Answers`), the request being made is the first, what is
  left of it after a 400, or the correction of the last answer (`Pending`), each request
  sent is one of these at its place (`History`), and an answer that parsed is the end
  (`Ended`). The bound needs `Pending`: only the request in hand tells how many may follow.
- `ReviewImplementsOneAnswer`: the steps of `Review` ask, answer, fail or stutter; that
  there is room for another request is `Inv`'s.

- `ReviewIsTyped`, from `ReferInv`: what is quoted or returned has come.
- `ReviewsAreLoggedBeforeTheyAsk`, from `LogInv`, which follows the one line of a review from
  its enrichment to the log.
- `PromptsAreFaithful`, from `PromptInv`: the prompt of a review is what some order of the
  placeholders makes of the template. What one `ReplaceAll` does to a text is a fact about
  `FlattenSeq`; what all of them do is an invariant of the fold over the order, by the least
  place at which it could fail: the placeholders replaced so far have given way to their texts,
  the others are where they were, and no other piece is lost.

`EnrichmentProofs`
- `EnrichmentIsTyped`.
- `EnrichmentKeepsItsBudget`, `FilesAreAttachedOnce`, `NothingPackedIsDropped`, all from
  `KeptInv`: the sum that each loop keeps is the cost of its list (`Spent`), a file is either
  in the list or still in the loop, and what `Pack` has chosen is either attached or still in
  the second loop (`InOnePlace`). That the second loop drops nothing is then an argument about
  the costs of two lists of distinct files, of which one is a part of the other in another
  order: each file is laid out as as many units as it costs, and the units are counted.
- `ExcerptsShowTheirMatch`, from `ShownInv`: what a review has seen in a file is there unless
  the file was edited since or could not be read (`Seen`, `Untouched`), what it has from the
  index is there if it was not edited at all (`InIndex`, `HasHint`), and an excerpt cut around
  a line has that line if there is room for it: the bytes of the lines up to it are no more
  than the cap, so it is among the whole ones.
- `NearestAreKept`, from `OrderedInv`: the files to come are sorted by tier, none of them is
  nearer than a file something was taken from, and of each file that is done and did not fail
  all that a scanner comes to was taken or the cap had been reached no farther away. Within a file, what was taken and what waits add
  up to what it defines.
- `SameWorkspaceSameAttachments`, from `TracedInv`. `Repeatable` compares two reviews that may
  be at any distance from each other, so it is no use to relate them step by step: the
  invariant says of each review by itself that what it has done is what the workspace
  determines, and two that are done are compared then. As long as no edit came after the
  review began and no reading failed (`Comparable`),
  - in v1, the references to a symbol are made of its first places by tier, path and line,
    and every other place is still to come or is shut out by the cap (`WalkedTo`, `ScannedTo`);
    such a list is unique, because the places are ranked (`SameReferences`);
  - in v2, with no more definitions than `MaxRefs`, there is one reference for each entry of
    the index that is not still listed (`ReadTo`). Their order differs from review to review,
    as does the excerpt's; how many there are in a file does not (`SameDirect`), and no more of
    them enters a candidate;
  - `todo` is the rest of the one sorted list of the candidates, or inputs (`SameRanked`,
    `SameInputs`), and what was kept and spent is what the rounds so far make of the part of
    it before (`Midway`). A round is a function of what it is offered (`Take`), so a finished
    loop has one outcome (`MidwaySame`).

  That the two sorts have one outcome is where `RankOrder` and `FitOrder` must be total on
  candidates and inputs: it needs that no two of these have the same file.

`SequenceFacts` has the facts about `FlattenSeq`, `FoldLeft` and `SetToSeqs` these need. The
library's induction theorems cannot be used here, as they take an operator: induction is done on
sets of numbers, by their least element.

Only model-checked: liveness (`EverySyncEnds`, `Converges`, `EveryExtractionEnds`,
`ExtractionReturns`, `EveryReviewEnds`), which is out of this prover's reach. Every other
property of a passing run is a theorem.

## 5. What is not modelled, and the plan

Not modelled: the names and kinds of symbols, and those found by regular expressions,
hunks, templates, JSON and git output (formats, whose specification is their grammar); what
is inside a wasm call, the relocation of a grammar's data and the stubs of libc it is given
(tables and byte layouts); the trampolines, which only forward to the calls of the cursor
walks; the network. `PROJECT.json` names every component with its status.

In this order:

1. `BundleLog`: rotation and appends of several processes.
2. `Extraction`: the extract event beside the path that was taken, and the workspace root.
3. `DiffCap`: the size cap of a bundle.

## 6. Disagreements met on the way

Each is a run that TLC ends with a counterexample, and an entry of `findings`.

- `index_corrupt`: an `index.json` that does not parse is an error on every call, not a
  reason to build (`lifecycle.go:74-75` against `:85-101`). A power loss after the rename
  of a file that was never synced leaves one.
- `extraction_shared`: the workers of different languages share `parseSrcBuf`, so a parse
  may be given another's source, or none (`lifecycle.go:29-31`, `treesitter/runtime.go:32-34`
  against `treesitter/parser.go:173-183`).
- `enrichment_changed`: a file of the diff that defines a symbol of the diff is attached,
  and the prompt says of what is attached that it is unchanged (`engine.go:188` against
  `prompt/prompt.go:115`). `runExpansion` leaves such files out of the resolver's matches,
  callers and type definitions (`expansion.go:30-33`), but `expand.Tests` does not leave out a
  changed test (`test.go:25-42`).
- `enrichment_panic`: a file that gets shorter between the scan and `buildExcerpt`'s own
  reading of it makes the review panic (`resolver.go:309`), though enrichment is to be
  "strictly additive" (`engine.go:131`).

These are conditions of the properties, or were met while modelling, and have no run:

- two callers of `WriteAtomic` on one path share `<path>.tmp`, so that a reader may see a
  half-written file (`statedir.go:48-49` against `:55`; the files of `spoiled` in
  `FileReplace`);
- `tryLoadIndex` takes an index of any age (`engine.go:259-261` against `:264`;
  `ReviewsMoveForward` says nothing of ages);
- `constants.go:14-16` says that the adapters clamp the token limit, which OpenAI's does not
  (`openai.go:86`);
- a request carries the model of `ReviewOptions`, empty or not; the one the adapter was
  configured with, as in the README's example, is used by `Probe` alone (`options.go:211`
  against `openai.go:83`, `anthropic.go:109`);
- `NewQuery` "must be called BEFORE the first lang.Parse call" (`query.go:30-34`); a cached
  Language (`wasm.go:674-697`) has parsed one file when `NewQuery` is called for the next. What
  carries it is the retry after a trap;
- `WalkAllNamedNodesNoCursor` "performs the same walk" (`cursor.go:416-417`), but leaves out
  nodes without width, and named nodes below unnamed ones; `ToFind` says which. The same
  comment says that "cursor-state weirdness causes WalkAllNamedNodes to drop entire subtrees
  for some grammars" (`cursor.go:419-422`), while
  `WalkAllNamedNodes` "returns one RawNode per node whose symbol id appears in matchSymIDs"
  (`:281-282`): `NothingMissed` is conditional for them (`NoMove`, `hurt`);
- "Only nodes with a non-empty name child are reported" (`cursor.go:121-122`), but whether
  there is such a child is not looked at before its end is asked for (`:204-214`, unlike
  `:556`): `NoName` in `ReportedInOrder`;
- a cursor walk that cannot read a type stops there and returns what it has, without an error;
- `extractPythonImportNames` goes through all named children, the module's name among them,
  where its caller's comment skips it (`wasm.go:338`);
- "Caller must serialize Parse for the same Runtime" (`parser.go:175`) and "Within-language
  remains serial — wazero runtimes are single-threaded" (`lifecycle.go:32`) hold of the
  workers of one build only: a `Review` (`engine.go:137`, `bundle.go:62`, `:79`), another
  `SyncIndex` of the process and a goroutine that a timeout left behind use the cached runtime
  of the same grammar (`wasm.go:663-697`) beside it (`shared` in `Extraction`);
- the extract event names the strategy that was chosen, also when regular expressions took
  over (`policy.go:84`);
- "The excerpts are short byte slices around the matched line" (`src/README.md:294-295`): the
  resolver's matches, which the expansion takes over without their lines
  (`expansion.go:34-39`), are shown from the beginning of their files (`ranker.go:130-135`),
  as v1 and v2 do not; and where long lines come before the match, the cut at 4096 bytes is
  before it too (`resolver.go:310-312`, `v2.go:145-147`; `HasRoom`);
- a file that cannot be opened, or has a line over 1 MiB, ends there for the resolver without a
  trace, as nobody reads the scanner's error (`resolver.go:98-105`, `v2.go:118-143`;
  `ScanFails`, `Scanned`);
- tier 1 is "sibling subtrees" (`resolver.go:187-188`), but only files directly in a sibling
  directory are in it, not those farther below (`resolver.go:228`; `Tier`);
- the extract cache is "process-safe", "the loser's write is discarded" (`cache.go:24-30`), but
  two callers for one file share `<path>.tmp` (`cache.go:109-113`): the second one truncates
  what the first is about to rename. A reader takes the half-written entry for a miss
  (`cache.go:88-93`). As with `WriteAtomic`, such files are in `spoiled`, and the properties of
  `FileReplace` say nothing of them.
