----------------------------- MODULE IndexStore -----------------------------
(***************************************************************************)
(* The persisted symbol index of a workspace: index/lifecycle.go,          *)
(* index/storage.go and index/scanner.go, as they are driven by            *)
(* engine.SyncIndex (LoadOrBuild under the lock file) and by               *)
(* engine.Review (tryLoadIndex, which takes no lock).                      *)
(*                                                                         *)
(* What ScanFile extracts from a file is abstracted to the version of the  *)
(* content it read: two entries agree exactly when they were extracted     *)
(* from the same version.  File modification times and the clock are       *)
(* ticks.                                                                  *)
(***************************************************************************)
EXTENDS Integers, FiniteSets

CONSTANTS
    Proc,        \* callers of SyncIndex: processes, or goroutines of one process
    Reader,      \* callers of Review with UseIndex set
    File,        \* repository-relative paths of supported files
    Lang,        \* grammars
    LangOf,      \* LangForPath, on File
    Stale,       \* StaleThreshold, in ticks
    MaxTries,    \* polls of the lock file before the deadline has passed
    MaxClock,    \* bound: the last tick
    MaxVer,      \* bound: versions of a file
    Faults       \* what the environment may do, a subset of FaultKinds

\* io       listing, opening, reading, writing, renaming or removing reports an error
\* crash    a process dies anywhere inside SyncIndex
\* power    the machine loses power; a rename not yet written back may leave
\*          an unreadable index.json (WriteJSON does not fsync)
\* coarse   two edits of a file may carry the same modification time
\* backdate a file may be replaced by one with an older modification time
FaultKinds == {"io", "crash", "power", "coarse", "backdate"}

ASSUME ConstantsAssumption ==
    /\ LangOf \in [File -> Lang]
    /\ Stale \in Nat
    /\ MaxTries \in Nat
    /\ MaxClock \in Nat
    /\ MaxVer \in Nat
    /\ Faults \subseteq FaultKinds

VARIABLES
    now,         \* the wall clock
    ws,          \* ws[f]: the workspace file f
    disk,        \* index.json
    unsynced,    \* whether index.json was renamed into place and not yet written back
    lockFile,    \* whether <stateDir>/index/.lock exists
    pc,          \* where each process is in LoadOrBuild
    tries,       \* failed attempts of AcquireLock
    idx,         \* the *Index a process is building or updating
    work,        \* what is left to do for each file in the current pass
    seen,        \* what ScanFile's os.Stat found, before its ReadFile
    changed,     \* incrementalUpdate's result
    out,         \* what LoadOrBuild is about to return
    view,        \* view[r]: the index a review runs on
    \* Ghosts, read by the properties only.
    since,       \* the first tick that an edit made after the call began may carry
    missed,      \* files that were not listed, or whose scan failed, during this call
    base         \* index.json as the process loaded it

envVars == <<now, ws>>
fileVars == <<disk, unsynced>>
scanVars == <<idx, work, seen, changed>>
ghosts == <<since, missed, base>>
vars == <<now, ws, disk, unsynced, lockFile, pc, tries, idx, work, seen,
          changed, out, view, since, missed, base>>

-----------------------------------------------------------------------------
(* Files, index entries and indexes.                                       *)

\* FileIndex: the mtime it was stamped with and the version it was read from.
Entry == [mtime : Nat, ver : Nat]
NoEntry == [mtime |-> 0, ver |-> 0]
NoFiles == [f \in File |-> NoEntry]

\* "old" is a readable file whose Version is not CurrentSchemaVersion.
IndexKind == {"absent", "corrupt", "old", "index"}
Index == [kind : IndexKind, built : Nat, files : [File -> Entry]]
NoIndex(k) == [kind |-> k, built |-> 0, files |-> NoFiles]

Indexed(i) == {f \in File : i.files[f] # NoEntry}

\* at is the tick of the last change, whatever mtime it left behind.
WsFile == [present : BOOLEAN, mtime : Nat, ver : Nat, at : Nat]
Present == {f \in File : ws[f].present}

PC == {"idle", "locking", "loading", "walk", "stamp", "build", "pass1",
       "pass2", "rename", "release"}

\* The part of LoadOrBuild between AcquireLock and the deferred Release.
Holding(p) == pc[p] \notin {"idle", "locking"}
\* ... from the moment the index was loaded until it was replaced or kept.
Updating(p) == pc[p] \in {"walk", "stamp", "build", "pass1", "pass2", "rename"}

WorkKind == {"none", "check", "stat", "read"}
NoWork == [f \in File |-> "none"]
Quiet(p) == work[p] = NoWork

TypeOK ==
    /\ now \in Nat
    /\ ws \in [File -> WsFile]
    /\ disk \in Index
    /\ unsynced \in BOOLEAN
    /\ lockFile \in BOOLEAN
    /\ pc \in [Proc -> PC]
    /\ tries \in [Proc -> Nat]
    /\ idx \in [Proc -> Index]
    /\ work \in [Proc -> [File -> WorkKind]]
    /\ seen \in [Proc -> [File -> Entry]]
    /\ changed \in [Proc -> BOOLEAN]
    /\ out \in [Proc -> {"none", "ok", "loadError", "ioError"}]
    /\ view \in [Reader -> Index]
    /\ since \in [Proc -> Nat]
    /\ missed \in [Proc -> SUBSET File]
    /\ base \in [Proc -> Index]

-----------------------------------------------------------------------------
(* The environment: edits, time, crashes.                                  *)

Ticks == {t \in {now, now + 1} : t <= MaxClock}

\* A file is created or its content replaced.  Unless the clock is coarse each
\* change falls in a tick of its own; unless backdated it is stamped with it.
Edit(f) ==
    \E t \in Ticks :
        /\ "coarse" \in Faults \/ t > now
        /\ ws[f].ver < MaxVer
        /\ \E m \in IF "backdate" \in Faults THEN 1..t ELSE {t} :
             /\ m > 0
             /\ ws' = [ws EXCEPT ![f] =
                        [present |-> TRUE, mtime |-> m, ver |-> ws[f].ver + 1, at |-> t]]
        /\ now' = t
        /\ UNCHANGED <<fileVars, lockFile, pc, tries, scanVars, out, view, ghosts>>

Remove(f) ==
    \E t \in Ticks :
        /\ "coarse" \in Faults \/ t > now
        /\ ws[f].present
        /\ ws' = [ws EXCEPT ![f] =
                    [present |-> FALSE, mtime |-> ws[f].mtime, ver |-> ws[f].ver, at |-> t]]
        /\ now' = t
        /\ UNCHANGED <<fileVars, lockFile, pc, tries, scanVars, out, view, ghosts>>

Tick ==
    /\ now < MaxClock
    /\ now' = now + 1
    /\ UNCHANGED <<ws, fileVars, lockFile, pc, tries, scanVars, out, view, ghosts>>

\* The kernel writes index.json back.
Flush ==
    /\ unsynced
    /\ unsynced' = FALSE
    /\ UNCHANGED <<envVars, disk, lockFile, pc, tries, scanVars, out, view, ghosts>>

-----------------------------------------------------------------------------
(* LoadOrBuild: taking the lock and loading.                               *)

\* The local variables of p are gone: the call has returned or p has died.
Forget(p) ==
    /\ pc' = [pc EXCEPT ![p] = "idle"]
    /\ tries' = [tries EXCEPT ![p] = 0]
    /\ idx' = [idx EXCEPT ![p] = NoIndex("absent")]
    /\ work' = [work EXCEPT ![p] = NoWork]
    /\ seen' = [seen EXCEPT ![p] = NoFiles]
    /\ changed' = [changed EXCEPT ![p] = FALSE]
    /\ out' = [out EXCEPT ![p] = "none"]
    /\ since' = [since EXCEPT ![p] = 0]
    /\ missed' = [missed EXCEPT ![p] = {}]
    /\ base' = [base EXCEPT ![p] = NoIndex("absent")]

Start(p) ==
    /\ pc[p] = "idle"
    /\ pc' = [pc EXCEPT ![p] = "locking"]
    /\ since' = [since EXCEPT ![p] = IF "coarse" \in Faults THEN now ELSE now + 1]
    /\ UNCHANGED <<envVars, fileVars, lockFile, tries, scanVars, out, view, missed, base>>

\* (Mutant.) A lock is taken over when the deadline has passed.
LockFreeOrOverdue(p) == ~lockFile \/ tries[p] >= MaxTries

\* (Mutant.) A waiter polls for ever.
NoDeadline(p) == FALSE

\* OpenFile with O_CREATE|O_EXCL succeeds exactly when the file is not there;
\* the deadline is looked at after an attempt that failed.
LockFree(p) == ~lockFile
DeadlinePassed(p) == lockFile /\ tries[p] >= MaxTries

Acquire(p) ==
    /\ pc[p] = "locking"
    /\ LockFree(p)
    /\ lockFile' = TRUE
    /\ pc' = [pc EXCEPT ![p] = "loading"]
    /\ UNCHANGED <<envVars, fileVars, tries, scanVars, out, view, ghosts>>

Poll(p) ==
    /\ pc[p] = "locking"
    /\ lockFile
    /\ tries[p] < MaxTries
    /\ tries' = [tries EXCEPT ![p] = @ + 1]
    /\ UNCHANGED <<envVars, fileVars, lockFile, pc, scanVars, out, view, ghosts>>

\* The deadline has passed, or the lock file cannot be created at all.
AcquireFails(p) ==
    /\ pc[p] = "locking"
    /\ DeadlinePassed(p) \/ "io" \in Faults
    /\ Forget(p)
    /\ UNCHANGED <<envVars, fileVars, lockFile, view>>

\* (Mutant.) The age of an index is never looked at.
NeedsBuildAtAnyAge(i) == i.kind \in {"absent", "old"}

\* LoadOrBuild's three ways out of LoadJSON: no usable index, or one older than
\* StaleThreshold, is rebuilt; one that does not parse is an error; the rest is
\* updated in place, starting with a check of every file it knows.
NeedsBuild(i) ==
    \/ i.kind \in {"absent", "old"}
    \/ i.kind = "index" /\ now - i.built > Stale

LoadForBuild(p) ==
    /\ pc[p] = "loading"
    /\ NeedsBuild(disk)
    /\ pc' = [pc EXCEPT ![p] = "walk"]
    /\ base' = [base EXCEPT ![p] = disk]
    /\ UNCHANGED <<envVars, fileVars, lockFile, tries, scanVars, out, view, since, missed>>

LoadFails(p) ==
    /\ pc[p] = "loading"
    /\ disk.kind = "corrupt" \/ "io" \in Faults
    /\ out' = [out EXCEPT ![p] = IF disk.kind = "corrupt" THEN "loadError" ELSE "ioError"]
    /\ pc' = [pc EXCEPT ![p] = "release"]
    /\ UNCHANGED <<envVars, fileVars, lockFile, tries, scanVars, view, ghosts>>

LoadForUpdate(p) ==
    /\ pc[p] = "loading"
    /\ disk.kind = "index"
    /\ ~NeedsBuild(disk)
    /\ pc' = [pc EXCEPT ![p] = "pass1"]
    /\ idx' = [idx EXCEPT ![p] = disk]
    /\ base' = [base EXCEPT ![p] = disk]
    /\ work' = [work EXCEPT ![p] =
                 [f \in File |-> IF f \in Indexed(disk) THEN "check" ELSE "none"]]
    /\ UNCHANGED <<envVars, fileVars, lockFile, tries, seen, changed, out, view, since, missed>>

-----------------------------------------------------------------------------
(* Scanning the workspace.                                                 *)

\* WalkWorkspace leaves out what cannot be listed, and succeeds all the same.
Unlisted == IF "io" \in Faults THEN SUBSET Present ELSE {{}}

\* The files among S that the walk has found are to be scanned.
ToScan(p, S, unlisted) ==
    /\ work' = [work EXCEPT ![p] =
                 [f \in File |-> IF f \in S \ unlisted THEN "stat" ELSE "none"]]
    /\ missed' = [missed EXCEPT ![p] = @ \cup (S \cap unlisted)]

\* BuildFull: WalkWorkspace first, then Built is stamped, then the workers run.
Walk(p) ==
    /\ pc[p] = "walk"
    /\ \E unlisted \in Unlisted : ToScan(p, Present, unlisted)
    /\ pc' = [pc EXCEPT ![p] = "stamp"]
    /\ UNCHANGED <<envVars, fileVars, lockFile, tries, idx, seen, changed, out, view, since, base>>

StampBuilt(p) ==
    /\ pc[p] = "stamp"
    /\ idx' = [idx EXCEPT ![p] = [kind |-> "index", built |-> now, files |-> NoFiles]]
    /\ changed' = [changed EXCEPT ![p] = TRUE]
    /\ pc' = [pc EXCEPT ![p] = "build"]
    /\ UNCHANGED <<envVars, fileVars, lockFile, tries, work, seen, out, view, ghosts>>

\* BuildFull scans the files of one grammar one after the other and the grammars
\* in parallel; incrementalUpdate scans one file at a time.
Lane(p, f) == IF pc[p] = "build" THEN {g \in File : LangOf[g] = LangOf[f]} ELSE File
Free(p, f) == \A g \in Lane(p, f) \ {f} : work[p][g] # "read"

\* (Mutant.) A file is read before it is statted.
EntryStattedAfterRead(p, f) == [mtime |-> ws[f].mtime, ver |-> seen[p][f].ver]

\* (Mutant.) An entry has the age of its file in place of its mtime.
EntryStampedWithAge(p, f) == [mtime |-> seen[p][f].mtime - now, ver |-> ws[f].ver]

\* The entry a scan leaves in the index.
ScannedEntry(p, f) == [mtime |-> seen[p][f].mtime, ver |-> ws[f].ver]

\* incrementalUpdate's first pass: a known file is dropped when os.Stat fails,
\* scanned again when its mtime is later than the entry's, else kept.
CheckGone(p, f) ==
    /\ pc[p] = "pass1"
    /\ work[p][f] = "check"
    /\ \A g \in File : work[p][g] \notin {"stat", "read"}
    /\ ~ws[f].present \/ "io" \in Faults
    /\ idx' = [idx EXCEPT ![p].files[f] = NoEntry]
    /\ work' = [work EXCEPT ![p][f] = "none"]
    /\ changed' = [changed EXCEPT ![p] = TRUE]
    /\ UNCHANGED <<envVars, fileVars, lockFile, pc, tries, seen, out, view, ghosts>>

CheckMtime(p, f) ==
    /\ pc[p] = "pass1"
    /\ work[p][f] = "check"
    /\ \A g \in File : work[p][g] \notin {"stat", "read"}
    /\ ws[f].present
    /\ work' = [work EXCEPT ![p][f] =
                 IF ws[f].mtime > idx[p].files[f].mtime THEN "stat" ELSE "none"]
    /\ UNCHANGED <<envVars, fileVars, lockFile, pc, tries, idx, seen, changed, out, view, ghosts>>

\* ScanFile: os.Stat, and only then os.ReadFile.
ScanStat(p, f) ==
    /\ pc[p] \in {"build", "pass1", "pass2"}
    /\ work[p][f] = "stat"
    /\ Free(p, f)
    /\ ws[f].present
    /\ seen' = [seen EXCEPT ![p][f] = [mtime |-> ws[f].mtime, ver |-> ws[f].ver]]
    /\ work' = [work EXCEPT ![p][f] = "read"]
    /\ UNCHANGED <<envVars, fileVars, lockFile, pc, tries, idx, changed, out, view, ghosts>>

ScanRead(p, f) ==
    /\ work[p][f] = "read"
    /\ ws[f].present
    /\ idx' = [idx EXCEPT ![p].files[f] = ScannedEntry(p, f)]
    /\ changed' = [changed EXCEPT ![p] = TRUE]
    /\ work' = [work EXCEPT ![p][f] = "none"]
    /\ seen' = [seen EXCEPT ![p][f] = NoEntry]
    /\ UNCHANGED <<envVars, fileVars, lockFile, pc, tries, out, view, ghosts>>

\* A scan that fails is skipped: a new file stays out of the index, a known one
\* keeps its old entry.
ScanFails(p, f) ==
    /\ pc[p] \in {"build", "pass1", "pass2"}
    /\ work[p][f] \in {"stat", "read"}
    /\ work[p][f] = "stat" => Free(p, f)
    /\ ~ws[f].present \/ "io" \in Faults
    /\ work' = [work EXCEPT ![p][f] = "none"]
    /\ seen' = [seen EXCEPT ![p][f] = NoEntry]
    /\ missed' = [missed EXCEPT ![p] = @ \cup {f}]
    /\ UNCHANGED <<envVars, fileVars, lockFile, pc, tries, idx, changed, out, view, since, base>>

\* (Mutant.) The second pass forgets new files.
NothingNew(p) == {}

\* incrementalUpdate's second pass: walk again, scan what is not in the index.
NewFiles(p) == Present \ Indexed(idx[p])

WalkForNew(p) ==
    /\ pc[p] = "pass1"
    /\ Quiet(p)
    /\ pc' = [pc EXCEPT ![p] = "pass2"]
    /\ \E unlisted \in Unlisted : ToScan(p, NewFiles(p), unlisted)
    /\ UNCHANGED <<envVars, fileVars, lockFile, tries, idx, seen, changed, out, view, since, base>>

-----------------------------------------------------------------------------
(* Persisting, returning, dying.                                           *)

\* (Mutant.) An update is persisted only when there is a new file.
PersistsNewFilesOnly(p) == Indexed(idx[p]) \ Indexed(base[p]) # {}

\* A build is always persisted, an update when it changed anything.
MustPersist(p) == changed[p]

\* WriteJSON up to the rename: a temporary file with a name of its own, which
\* nobody else opens.
WriteTemp(p) ==
    /\ pc[p] \in {"build", "pass2"}
    /\ Quiet(p)
    /\ MustPersist(p)
    /\ pc' = [pc EXCEPT ![p] = "rename"]
    /\ UNCHANGED <<envVars, fileVars, lockFile, tries, scanVars, out, view, ghosts>>

ReturnUnchanged(p) ==
    /\ pc[p] = "pass2"
    /\ Quiet(p)
    /\ ~MustPersist(p)
    /\ out' = [out EXCEPT ![p] = "ok"]
    /\ pc' = [pc EXCEPT ![p] = "release"]
    /\ UNCHANGED <<envVars, fileVars, lockFile, tries, scanVars, view, ghosts>>

Rename(p) ==
    /\ pc[p] = "rename"
    /\ disk' = idx[p]
    /\ unsynced' = ("power" \in Faults)
    /\ out' = [out EXCEPT ![p] = "ok"]
    /\ pc' = [pc EXCEPT ![p] = "release"]
    /\ UNCHANGED <<envVars, lockFile, tries, scanVars, view, ghosts>>

\* Creating, writing, closing or renaming the temporary file failed; the
\* deferred removal takes it away and index.json is as it was.
WriteFails(p) ==
    /\ pc[p] = "rename"
    /\ "io" \in Faults
    /\ out' = [out EXCEPT ![p] = "ioError"]
    /\ pc' = [pc EXCEPT ![p] = "release"]
    /\ UNCHANGED <<envVars, fileVars, lockFile, tries, scanVars, view, ghosts>>

\* The deferred Release, on every return path.
Release(p) ==
    /\ pc[p] = "release"
    /\ lockFile' = FALSE
    /\ Forget(p)
    /\ UNCHANGED <<envVars, fileVars, view>>

\* Removing the lock file fails, which Release does not tell anyone.
ReleaseFails(p) ==
    /\ pc[p] = "release"
    /\ "io" \in Faults
    /\ Forget(p)
    /\ UNCHANGED <<envVars, fileVars, lockFile, view>>

\* p dies holding the lock (before that it has touched nothing but the lock's
\* directory).  Nobody removes its lock file: AcquireLock does not look at who
\* made it.
Crash(p) ==
    /\ "crash" \in Faults
    /\ Holding(p)
    /\ Forget(p)
    /\ UNCHANGED <<envVars, fileVars, lockFile, view>>

\* Every process dies.  The lock file may or may not have reached the disk.
PowerLoss ==
    /\ "power" \in Faults
    /\ pc' = [p \in Proc |-> "idle"]
    /\ tries' = [p \in Proc |-> 0]
    /\ idx' = [p \in Proc |-> NoIndex("absent")]
    /\ work' = [p \in Proc |-> NoWork]
    /\ seen' = [p \in Proc |-> NoFiles]
    /\ changed' = [p \in Proc |-> FALSE]
    /\ out' = [p \in Proc |-> "none"]
    /\ view' = [r \in Reader |-> NoIndex("absent")]
    /\ since' = [p \in Proc |-> 0]
    /\ missed' = [p \in Proc |-> {}]
    /\ base' = [p \in Proc |-> NoIndex("absent")]
    /\ lockFile' \in {FALSE, lockFile}
    /\ disk' \in {disk} \cup (IF unsynced THEN {NoIndex("corrupt")} ELSE {})
    /\ unsynced' = FALSE
    /\ UNCHANGED envVars

-----------------------------------------------------------------------------
(* Reviews.                                                                *)

\* tryLoadIndex: LoadJSON without the lock; when it fails the review goes on
\* without an index (resolver v1).
ReviewLoads(r) ==
    /\ view' = [view EXCEPT ![r] = IF disk.kind = "index" THEN disk ELSE NoIndex("absent")]
    /\ UNCHANGED <<envVars, fileVars, lockFile, pc, tries, scanVars, out, ghosts>>

-----------------------------------------------------------------------------
Init ==
    /\ now = 1
    /\ ws \in [File -> {[present |-> FALSE, mtime |-> 0, ver |-> 0, at |-> 0],
                        [present |-> TRUE, mtime |-> 1, ver |-> 1, at |-> 1]}]
    /\ disk \in {NoIndex("absent"), NoIndex("old")}
    /\ unsynced = FALSE
    /\ lockFile = FALSE
    /\ pc = [p \in Proc |-> "idle"]
    /\ tries = [p \in Proc |-> 0]
    /\ idx = [p \in Proc |-> NoIndex("absent")]
    /\ work = [p \in Proc |-> NoWork]
    /\ seen = [p \in Proc |-> NoFiles]
    /\ changed = [p \in Proc |-> FALSE]
    /\ out = [p \in Proc |-> "none"]
    /\ view = [r \in Reader |-> NoIndex("absent")]
    /\ since = [p \in Proc |-> 0]
    /\ missed = [p \in Proc |-> {}]
    /\ base = [p \in Proc |-> NoIndex("absent")]

Scan(p) ==
    \E f \in File :
        CheckGone(p, f) \/ CheckMtime(p, f) \/ ScanStat(p, f) \/ ScanRead(p, f) \/ ScanFails(p, f)

\* A step of LoadOrBuild in p.
Step(p) ==
    \/ Acquire(p) \/ Poll(p) \/ AcquireFails(p)
    \/ LoadForBuild(p) \/ LoadFails(p) \/ LoadForUpdate(p)
    \/ Walk(p) \/ StampBuilt(p) \/ Scan(p) \/ WalkForNew(p)
    \/ WriteTemp(p) \/ ReturnUnchanged(p) \/ Rename(p) \/ WriteFails(p)
    \/ Release(p) \/ ReleaseFails(p)

Next ==
    \/ \E f \in File : Edit(f) \/ Remove(f)
    \/ Tick \/ Flush \/ PowerLoss
    \/ \E p \in Proc : Start(p) \/ Step(p) \/ Crash(p)
    \/ \E r \in Reader : ReviewLoads(r)

Spec == Init /\ [][Next]_vars

\* The Go scheduler and the operating system run every process that can run; a
\* process may die (Crash) and nobody is obliged to call SyncIndex.
FairSpec == Spec /\ \A p \in Proc : WF_vars(Step(p))

\* ... and callers who keep calling SyncIndex.
BusySpec == FairSpec /\ \A p \in Proc : WF_vars(Start(p))

-----------------------------------------------------------------------------
(* Properties.                                                             *)

\* At most one process is between AcquireLock and Release, and the lock file
\* is there while one is.
LockExclusive ==
    /\ \A p, q \in Proc : Holding(p) /\ Holding(q) => p = q
    /\ \A p \in Proc : Holding(p) => lockFile

\* Nobody replaces index.json under a process that has loaded it and not yet
\* written it back: no update of another process is overwritten unseen.
NoLostUpdate == \A p \in Proc : Updating(p) => disk = base[p]

\* An entry never hides an edit: if the file changed after its entry was
\* scanned, its mtime is later than the entry's, so the next update rescans it.
\* It rests on ScanFile calling os.Stat before os.ReadFile, and holds of the
\* index on disk, of one being updated, and of one a review is running on.
Trusted(e, f) ==
    /\ e.mtime <= ws[f].mtime
    /\ e.mtime = ws[f].mtime => e.ver = ws[f].ver
EntriesTrusted(i) == \A f \in Indexed(i) : Trusted(i.files[f], f)
NoHiddenEdit ==
    /\ EntriesTrusted(disk)
    /\ \A p \in Proc : EntriesTrusted(idx[p])
    /\ \A r \in Reader : EntriesTrusted(view[r])

\* A successful SyncIndex returns an index that agrees with the workspace on
\* every file that was left alone since the call began, could be listed and
\* could be read: present files at their current version, no entry for a file
\* that is gone.
Current(i, f) ==
    IF ws[f].present THEN i.files[f].ver = ws[f].ver ELSE i.files[f] = NoEntry
Returning(p) == pc[p] = "release" /\ out[p] = "ok"
SyncReturnsCurrent ==
    \A p \in Proc : Returning(p) =>
        \A f \in File \ missed[p] : ws[f].at < since[p] => Current(idx[p], f)

\* However a file came by its mtime, an edit older than StaleThreshold when the
\* call began is in the index a successful SyncIndex returns.
StalenessBounded ==
    \A p \in Proc : Returning(p) =>
        \A f \in File \ missed[p] :
            ws[f].at + Stale + 1 < since[p] => Current(idx[p], f)

\* A later full build never gives way to an earlier one, nor an entry to an older
\* version of its file, nor an index to none.
Supersedes(new, old) ==
    old.kind = "index" =>
        /\ new.kind = "index"
        /\ new.built >= old.built
        /\ \A f \in Indexed(old) \cap Indexed(new) : new.files[f].ver >= old.files[f].ver

\* A reader never goes back to an older index than the one it last used.
ReviewsMoveForward == [][\A r \in Reader : Supersedes(view'[r], view[r])]_view

\* The lock file of a process that died in SyncIndex, or failed to remove it, is
\* never removed, and from then on index.json never changes: AcquireLock does not
\* break a stale lock.
Orphaned == lockFile /\ \A p \in Proc : ~Holding(p)
OrphanIsForever == [][Orphaned => Orphaned' /\ disk' = disk]_<<lockFile, pc, disk>>

\* The lock file and the rename make index.json a document with a single writer.
Owner ==
    IF \E p \in Proc : Holding(p) THEN CHOOSE p \in Proc : Holding(p)
    ELSE IF lockFile THEN "perished" ELSE "nobody"
Document == INSTANCE SingleWriter WITH
    Client <- Proc, Nobody <- "nobody", Perished <- "perished", Newer <- Supersedes,
    owner <- Owner, published <- disk
ImplementsSingleWriter == Document!Spec

\* Every call of SyncIndex comes to an end, whatever the others do: it gets the
\* lock and finishes, or runs into the deadline (or dies).
EverySyncEnds == \A p \in Proc : pc[p] = "locking" ~> pc[p] = "idle"

\* Once the workspace is left alone, callers who keep syncing bring index.json
\* up to date with it and it stays so, unless one of them leaves the lock behind.
DiskCurrent == disk.kind = "index" /\ \A f \in File : Current(disk, f)
Converges == <>[]DiskCurrent \/ <>Orphaned

\* LoadOrBuild (lifecycle.go:74-76): loads the index if present and healthy,
\* otherwise builds full; an index.json that does not parse is not healthy.
UnhealthyIsRebuilt == \A p \in Proc : out[p] # "loadError"
=============================================================================
