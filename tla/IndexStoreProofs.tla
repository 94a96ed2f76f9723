-------------------------- MODULE IndexStoreProofs --------------------------
(***************************************************************************)
(* Theorems about IndexStore, for any number of processes, reviews, files  *)
(* and grammars and any bounds.                                            *)
(***************************************************************************)
EXTENDS IndexStore, TLAPS

-----------------------------------------------------------------------------
(* Types.                                                                  *)

\* The empty values that Init, Forget and PowerLoss put back are well typed.
LEMMA EmptyValues ==
    /\ NoEntry \in Entry
    /\ NoFiles \in [File -> Entry]
    /\ NoWork \in [File -> WorkKind]
    /\ \A k \in IndexKind : NoIndex(k) \in Index
  BY DEF NoEntry, Entry, NoFiles, NoWork, WorkKind, NoIndex, Index

\* A process that returns or dies keeps its local variables well typed.
LEMMA ForgetType ==
    ASSUME TypeOK, NEW p \in Proc, Forget(p)
    PROVE  /\ pc' \in [Proc -> PC]
           /\ tries' \in [Proc -> Nat]
           /\ idx' \in [Proc -> Index]
           /\ work' \in [Proc -> [File -> WorkKind]]
           /\ seen' \in [Proc -> [File -> Entry]]
           /\ changed' \in [Proc -> BOOLEAN]
           /\ out' \in [Proc -> {"none", "ok", "loadError", "ioError"}]
           /\ since' \in [Proc -> Nat]
           /\ missed' \in [Proc -> SUBSET File]
           /\ base' \in [Proc -> Index]
  BY EmptyValues DEF TypeOK, Forget, PC, IndexKind

\* Every variable always has the type TypeOK gives it.
LEMMA ToScanType ==
    ASSUME TypeOK, NEW p \in Proc, NEW S, NEW unlisted, S \subseteq File, ToScan(p, S, unlisted)
    PROVE  work' \in [Proc -> [File -> WorkKind]] /\ missed' \in [Proc -> SUBSET File]
<1>1. [f \in File |-> IF f \in S \ unlisted THEN "stat" ELSE "none"] \in [File -> WorkKind]
  BY DEF WorkKind
<1>2. QED
  BY <1>1 DEF ToScan, TypeOK

THEOREM TypeCorrect == Spec => []TypeOK
<1>1. Init => TypeOK
  <2> SUFFICES ASSUME Init PROVE TypeOK
    OBVIOUS
  <2>1. ws \in [File -> WsFile]
    <3>1. /\ [present |-> FALSE, mtime |-> 0, ver |-> 0, at |-> 0] \in WsFile
          /\ [present |-> TRUE, mtime |-> 1, ver |-> 1, at |-> 1] \in WsFile
      BY DEF WsFile
    <3>2. QED
      BY <3>1 DEF Init
  <2>2. disk \in Index
    BY EmptyValues DEF Init, IndexKind
  <2>3. QED
    BY <2>1, <2>2, EmptyValues DEF Init, TypeOK, PC, IndexKind
<1>2. TypeOK /\ [Next]_vars => TypeOK'
  <2> SUFFICES ASSUME TypeOK, [Next]_vars PROVE TypeOK'
    OBVIOUS
  <2> USE ConstantsAssumption
  <2>1. ASSUME NEW f \in File, Edit(f) PROVE TypeOK'
    <3>1. PICK t \in Ticks, m \in Nat :
             /\ ws' = [ws EXCEPT ![f] =
                        [present |-> TRUE, mtime |-> m, ver |-> ws[f].ver + 1, at |-> t]]
             /\ now' = t
      <4>1. Ticks \subseteq Nat
        BY DEF Ticks, TypeOK
      <4>2. \A t \in Ticks : 1..t \subseteq Nat
        BY <4>1
      <4>3. QED
        BY <2>1, <4>1, <4>2 DEF Edit
    <3>2. t \in Nat
      BY DEF Ticks, TypeOK
    <3>3. ws[f].ver \in Nat
      BY DEF TypeOK, WsFile
    <3>4. [present |-> TRUE, mtime |-> m, ver |-> ws[f].ver + 1, at |-> t] \in WsFile
      BY <3>2, <3>3 DEF WsFile
    <3>5. ws' \in [File -> WsFile]
      BY <3>1, <3>4 DEF TypeOK
    <3>6. QED
      BY <2>1, <3>1, <3>2, <3>5 DEF Edit, TypeOK, fileVars, scanVars, ghosts
  <2>2. ASSUME NEW f \in File, Remove(f) PROVE TypeOK'
    <3>1. PICK t \in Ticks :
             /\ ws' = [ws EXCEPT ![f] =
                        [present |-> FALSE, mtime |-> ws[f].mtime, ver |-> ws[f].ver, at |-> t]]
             /\ now' = t
      BY <2>2 DEF Remove
    <3>2. t \in Nat
      BY DEF Ticks, TypeOK
    <3>3. [present |-> FALSE, mtime |-> ws[f].mtime, ver |-> ws[f].ver, at |-> t] \in WsFile
      BY <3>2 DEF TypeOK, WsFile
    <3>4. ws' \in [File -> WsFile]
      BY <3>1, <3>3 DEF TypeOK
    <3>5. QED
      BY <2>2, <3>1, <3>2, <3>4 DEF Remove, TypeOK, fileVars, scanVars, ghosts
  <2>3. CASE Tick
    BY <2>3 DEF Tick, TypeOK, fileVars, scanVars, ghosts
  <2>4. CASE Flush
    BY <2>4 DEF Flush, TypeOK, envVars, scanVars, ghosts
  <2>5. CASE PowerLoss
    BY <2>5, EmptyValues DEF PowerLoss, TypeOK, envVars, PC, IndexKind
  <2>6. ASSUME NEW p \in Proc, Start(p) PROVE TypeOK'
    BY <2>6 DEF Start, TypeOK, PC, envVars, fileVars, scanVars
  <2>7. ASSUME NEW p \in Proc, Acquire(p) PROVE TypeOK'
    BY <2>7 DEF Acquire, TypeOK, PC, envVars, fileVars, scanVars, ghosts
  <2>8. ASSUME NEW p \in Proc, Poll(p) PROVE TypeOK'
    BY <2>8 DEF Poll, TypeOK, envVars, fileVars, scanVars, ghosts
  <2>9. ASSUME NEW p \in Proc, AcquireFails(p) PROVE TypeOK'
    BY <2>9, ForgetType DEF AcquireFails, TypeOK, envVars, fileVars
  <2>10. ASSUME NEW p \in Proc, LoadForBuild(p) PROVE TypeOK'
    BY <2>10 DEF LoadForBuild, TypeOK, PC, envVars, fileVars, scanVars
  <2>11. ASSUME NEW p \in Proc, LoadFails(p) PROVE TypeOK'
    BY <2>11 DEF LoadFails, TypeOK, PC, envVars, fileVars, scanVars, ghosts
  <2>12. ASSUME NEW p \in Proc, LoadForUpdate(p) PROVE TypeOK'
    <3>1. [f \in File |-> IF f \in Indexed(disk) THEN "check" ELSE "none"] \in [File -> WorkKind]
      BY DEF WorkKind
    <3>2. QED
      BY <2>12, <3>1 DEF LoadForUpdate, TypeOK, PC, envVars, fileVars
  <2>13. ASSUME NEW p \in Proc, Walk(p) PROVE TypeOK'
    <3>1. PICK unlisted : ToScan(p, Present, unlisted)
      BY <2>13 DEF Walk
    <3>2. work' \in [Proc -> [File -> WorkKind]] /\ missed' \in [Proc -> SUBSET File]
      BY <3>1, ToScanType DEF Present
    <3>3. QED
      BY <2>13, <3>2 DEF Walk, TypeOK, PC, envVars, fileVars
  <2>14. ASSUME NEW p \in Proc, StampBuilt(p) PROVE TypeOK'
    <3>1. [kind |-> "index", built |-> now, files |-> NoFiles] \in Index
      BY EmptyValues DEF Index, IndexKind, TypeOK
    <3>2. QED
      BY <2>14, <3>1 DEF StampBuilt, TypeOK, PC, envVars, fileVars, ghosts
  <2>15. ASSUME NEW p \in Proc, NEW f \in File, CheckGone(p, f) PROVE TypeOK'
    <3>1. [idx[p] EXCEPT !.files[f] = NoEntry] \in Index
      BY EmptyValues DEF TypeOK, Index
    <3>2. idx' \in [Proc -> Index]
      BY <2>15, <3>1 DEF CheckGone, TypeOK
    <3>3. work' \in [Proc -> [File -> WorkKind]]
      BY <2>15 DEF CheckGone, TypeOK, WorkKind
    <3>4. QED
      BY <2>15, <3>2, <3>3 DEF CheckGone, TypeOK, envVars, fileVars, ghosts
  <2>16. ASSUME NEW p \in Proc, NEW f \in File, CheckMtime(p, f) PROVE TypeOK'
    <3>1. work' \in [Proc -> [File -> WorkKind]]
      BY <2>16 DEF CheckMtime, TypeOK, WorkKind
    <3>2. QED
      BY <2>16, <3>1 DEF CheckMtime, TypeOK, envVars, fileVars, ghosts
  <2>17. ASSUME NEW p \in Proc, NEW f \in File, ScanStat(p, f) PROVE TypeOK'
    <3>1. work' \in [Proc -> [File -> WorkKind]]
      BY <2>17 DEF ScanStat, TypeOK, WorkKind
    <3>2. [mtime |-> ws[f].mtime, ver |-> ws[f].ver] \in Entry
      BY DEF TypeOK, WsFile, Entry
    <3>3. seen' \in [Proc -> [File -> Entry]]
      BY <2>17, <3>2 DEF ScanStat, TypeOK
    <3>4. QED
      BY <2>17, <3>1, <3>3 DEF ScanStat, TypeOK, envVars, fileVars, ghosts
  <2>18. ASSUME NEW p \in Proc, NEW f \in File, ScanRead(p, f) PROVE TypeOK'
    <3>1. ScannedEntry(p, f) \in Entry
      BY DEF ScannedEntry, TypeOK, WsFile, Entry
    <3>2. [idx[p] EXCEPT !.files[f] = ScannedEntry(p, f)] \in Index
      BY <3>1 DEF TypeOK, Index
    <3>3. idx' \in [Proc -> Index]
      BY <2>18, <3>2 DEF ScanRead, TypeOK
    <3>4. work' \in [Proc -> [File -> WorkKind]] /\ seen' \in [Proc -> [File -> Entry]]
      BY <2>18, EmptyValues DEF ScanRead, TypeOK, WorkKind
    <3>5. QED
      BY <2>18, <3>3, <3>4 DEF ScanRead, TypeOK, envVars, fileVars, ghosts
  <2>19. ASSUME NEW p \in Proc, NEW f \in File, ScanFails(p, f) PROVE TypeOK'
    <3>1. work' \in [Proc -> [File -> WorkKind]] /\ seen' \in [Proc -> [File -> Entry]]
      BY <2>19, EmptyValues DEF ScanFails, TypeOK, WorkKind
    <3>2. missed' \in [Proc -> SUBSET File]
      BY <2>19 DEF ScanFails, TypeOK
    <3>3. QED
      BY <2>19, <3>1, <3>2 DEF ScanFails, TypeOK, envVars, fileVars
  <2>20. ASSUME NEW p \in Proc, WalkForNew(p) PROVE TypeOK'
    <3>1. PICK unlisted : ToScan(p, NewFiles(p), unlisted)
      BY <2>20 DEF WalkForNew
    <3>2. work' \in [Proc -> [File -> WorkKind]] /\ missed' \in [Proc -> SUBSET File]
      BY <3>1, ToScanType DEF NewFiles, Present
    <3>3. QED
      BY <2>20, <3>2 DEF WalkForNew, TypeOK, PC, envVars, fileVars
  <2>21. ASSUME NEW p \in Proc, WriteTemp(p) PROVE TypeOK'
    BY <2>21 DEF WriteTemp, TypeOK, PC, envVars, fileVars, scanVars, ghosts
  <2>22. ASSUME NEW p \in Proc, ReturnUnchanged(p) PROVE TypeOK'
    BY <2>22 DEF ReturnUnchanged, TypeOK, PC, envVars, fileVars, scanVars, ghosts
  <2>23. ASSUME NEW p \in Proc, Rename(p) PROVE TypeOK'
    BY <2>23 DEF Rename, TypeOK, PC, envVars, scanVars, ghosts
  <2>24. ASSUME NEW p \in Proc, WriteFails(p) PROVE TypeOK'
    BY <2>24 DEF WriteFails, TypeOK, PC, envVars, fileVars, scanVars, ghosts
  <2>25. ASSUME NEW p \in Proc, Release(p) PROVE TypeOK'
    BY <2>25, ForgetType DEF Release, TypeOK, envVars, fileVars
  <2>26. ASSUME NEW p \in Proc, Crash(p) PROVE TypeOK'
    BY <2>26, ForgetType DEF Crash, TypeOK, envVars, fileVars
  <2>30. ASSUME NEW p \in Proc, ReleaseFails(p) PROVE TypeOK'
    BY <2>30, ForgetType DEF ReleaseFails, TypeOK, envVars, fileVars
  <2>27. ASSUME NEW r \in Reader, ReviewLoads(r) PROVE TypeOK'
    BY <2>27, EmptyValues DEF ReviewLoads, TypeOK, IndexKind, envVars, fileVars, scanVars, ghosts
  <2>28. CASE UNCHANGED vars
    BY <2>28 DEF vars, TypeOK
  <2>29. QED
    BY <2>1, <2>2, <2>3, <2>4, <2>5, <2>6, <2>7, <2>8, <2>9, <2>10, <2>11, <2>12, <2>13,
       <2>14, <2>15, <2>16, <2>17, <2>18, <2>19, <2>20, <2>21, <2>22, <2>23, <2>24, <2>25,
       <2>26, <2>27, <2>28, <2>30
    DEF Next, Step, Scan
<1>3. QED
  BY <1>1, <1>2, PTL DEF Spec

-----------------------------------------------------------------------------
(* The lock.                                                               *)

\* The steps a process takes between AcquireLock and Release.
InsideStep(p) ==
    \/ LoadForBuild(p) \/ LoadFails(p) \/ LoadForUpdate(p)
    \/ Walk(p) \/ StampBuilt(p) \/ Scan(p) \/ WalkForNew(p)
    \/ WriteTemp(p) \/ ReturnUnchanged(p) \/ Rename(p) \/ WriteFails(p)

\* ScanRead and ScanFails are guarded by work, not by pc: only a process that
\* holds the lock has any work.
WorkNeedsLock == \A p \in Proc : work[p] # NoWork => pc[p] \in {"stamp", "build", "pass1", "pass2"}

\* A step inside the lock is taken by a holder and leaves holders and the lock
\* file as they are.
LEMMA InsideKeepsLock ==
    ASSUME TypeOK, WorkNeedsLock, NEW p \in Proc, InsideStep(p)
    PROVE  /\ Holding(p)
           /\ lockFile' = lockFile
           /\ pc' \in [Proc -> PC]
           /\ pc'[p] \notin {"idle", "locking"}
           /\ \A q \in Proc \ {p} : pc'[q] = pc[q]
<1> USE DEF TypeOK, Holding, PC
<1>1. CASE LoadForBuild(p)
  BY <1>1 DEF LoadForBuild
<1>2. CASE LoadFails(p)
  BY <1>2 DEF LoadFails
<1>3. CASE LoadForUpdate(p)
  BY <1>3 DEF LoadForUpdate
<1>4. CASE Walk(p)
  BY <1>4 DEF Walk
<1>5. CASE StampBuilt(p)
  BY <1>5 DEF StampBuilt
<1>6. CASE Scan(p)
  <2>1. PICK f \in File : CheckGone(p, f) \/ CheckMtime(p, f) \/ ScanStat(p, f)
                             \/ ScanRead(p, f) \/ ScanFails(p, f)
    BY <1>6 DEF Scan
  <2>2. pc' = pc /\ lockFile' = lockFile /\ work[p][f] # "none"
    BY <2>1 DEF CheckGone, CheckMtime, ScanStat, ScanRead, ScanFails
  <2>3. work[p] # NoWork
    BY <2>2 DEF NoWork
  <2>4. QED
    BY <2>2, <2>3 DEF WorkNeedsLock
<1>7. CASE WalkForNew(p)
  BY <1>7 DEF WalkForNew
<1>8. CASE WriteTemp(p)
  BY <1>8 DEF WriteTemp
<1>9. CASE ReturnUnchanged(p)
  BY <1>9 DEF ReturnUnchanged
<1>10. CASE Rename(p)
  BY <1>10 DEF Rename
<1>11. CASE WriteFails(p)
  BY <1>11 DEF WriteFails
<1>12. QED
  BY <1>1, <1>2, <1>3, <1>4, <1>5, <1>6, <1>7, <1>8, <1>9, <1>10, <1>11 DEF InsideStep

\* What a step does to the lock, in the words of the theorems below.
LEMMA StepKinds ==
    ASSUME [Next]_vars
    PROVE  \/ UNCHANGED <<pc, work, lockFile, disk, base>>
           \/ PowerLoss
           \/ \E p \in Proc : Start(p) \/ Acquire(p) \/ AcquireFails(p) \/ InsideStep(p)
                              \/ Release(p) \/ ReleaseFails(p) \/ Crash(p)
<1>1. CASE UNCHANGED vars
  BY <1>1 DEF vars
<1>2. CASE Next
  <2>1. ASSUME NEW f \in File, Edit(f) \/ Remove(f) PROVE UNCHANGED <<pc, work, lockFile, disk, base>>
    BY <2>1 DEF Edit, Remove, fileVars, scanVars, ghosts
  <2>2. CASE Tick \/ Flush
    BY <2>2 DEF Tick, Flush, fileVars, scanVars, ghosts
  <2>3. ASSUME NEW r \in Reader, ReviewLoads(r) PROVE UNCHANGED <<pc, work, lockFile, disk, base>>
    BY <2>3 DEF ReviewLoads, fileVars, scanVars, ghosts
  <2>4. ASSUME NEW p \in Proc, Poll(p) PROVE UNCHANGED <<pc, work, lockFile, disk, base>>
    BY <2>4 DEF Poll, fileVars, scanVars, ghosts
  <2>5. ASSUME NEW p \in Proc, Step(p), ~Poll(p)
        PROVE  Acquire(p) \/ AcquireFails(p) \/ InsideStep(p) \/ Release(p) \/ ReleaseFails(p)
    BY <2>5 DEF Step, InsideStep
  <2>6. QED
    BY <1>2, <2>1, <2>2, <2>3, <2>4, <2>5 DEF Next
<1>3. QED
  BY <1>1, <1>2

LEMMA WorkNeedsLockHolds == Spec => []WorkNeedsLock
<1>1. Init => WorkNeedsLock
  BY DEF Init, WorkNeedsLock
<1>2. TypeOK /\ WorkNeedsLock /\ [Next]_vars => WorkNeedsLock'
  <2> SUFFICES ASSUME TypeOK, WorkNeedsLock, [Next]_vars PROVE WorkNeedsLock'
    OBVIOUS
  <2> USE DEF TypeOK, WorkNeedsLock
  <2>1. CASE UNCHANGED <<pc, work, lockFile, disk, base>>
    BY <2>1
  <2>2. CASE PowerLoss
    BY <2>2 DEF PowerLoss
  <2>3. ASSUME NEW p \in Proc, Start(p) \/ Acquire(p) PROVE WorkNeedsLock'
    BY <2>3 DEF Start, Acquire, scanVars
  <2>4. ASSUME NEW p \in Proc, Forget(p) PROVE WorkNeedsLock'
    BY <2>4 DEF Forget
  <2>5. ASSUME NEW p \in Proc, Scan(p) PROVE WorkNeedsLock'
    <3>1. PICK f \in File : CheckGone(p, f) \/ CheckMtime(p, f) \/ ScanStat(p, f)
                               \/ ScanRead(p, f) \/ ScanFails(p, f)
      BY <2>5 DEF Scan
    <3>2. /\ pc' = pc /\ work[p][f] # "none"
          /\ \A q \in Proc \ {p} : work'[q] = work[q]
      BY <3>1 DEF CheckGone, CheckMtime, ScanStat, ScanRead, ScanFails
    <3>3. work[p] # NoWork
      BY <3>2 DEF NoWork
    <3>4. QED
      BY <3>2, <3>3
  <2>6. ASSUME NEW p \in Proc, InsideStep(p), ~Scan(p) PROVE WorkNeedsLock'
    BY <2>6 DEF InsideStep, LoadForBuild, LoadFails, LoadForUpdate, Walk, StampBuilt, WalkForNew,
                ToScan, WriteTemp, ReturnUnchanged, Rename, WriteFails, Quiet, scanVars
  <2>7. QED
    BY <2>1, <2>2, <2>3, <2>4, <2>5, <2>6, StepKinds DEF AcquireFails, Release, ReleaseFails, Crash
<1>3. QED
  BY <1>1, <1>2, TypeCorrect, PTL DEF Spec

\* Mutual exclusion between AcquireLock and Release, and the lock file is there
\* while a process is: with crashes, power loss and every other fault.
THEOREM LockIsExclusive == Spec => []LockExclusive
<1>1. Init => LockExclusive
  BY DEF Init, LockExclusive, Holding
<1>2. TypeOK /\ WorkNeedsLock /\ LockExclusive /\ [Next]_vars => LockExclusive'
  <2> SUFFICES ASSUME TypeOK, WorkNeedsLock, LockExclusive, [Next]_vars PROVE LockExclusive'
    OBVIOUS
  <2> USE DEF LockExclusive, Holding
  <2>1. CASE UNCHANGED <<pc, work, lockFile, disk, base>>
    BY <2>1
  <2>2. CASE PowerLoss
    BY <2>2 DEF PowerLoss
  <2>3. ASSUME NEW p \in Proc, Start(p) PROVE LockExclusive'
    BY <2>3 DEF Start, TypeOK
  <2>4. ASSUME NEW p \in Proc, Acquire(p) PROVE LockExclusive'
    BY <2>4 DEF Acquire, LockFree, TypeOK
  <2>5. ASSUME NEW p \in Proc, AcquireFails(p) PROVE LockExclusive'
    BY <2>5 DEF AcquireFails, Forget, TypeOK
  <2>6. ASSUME NEW p \in Proc, InsideStep(p) PROVE LockExclusive'
    BY <2>6, InsideKeepsLock
  <2>7. ASSUME NEW p \in Proc, Release(p) PROVE LockExclusive'
    BY <2>7 DEF Release, Forget, TypeOK
  <2>8. ASSUME NEW p \in Proc, ReleaseFails(p) \/ Crash(p) PROVE LockExclusive'
    BY <2>8 DEF ReleaseFails, Crash, Forget, TypeOK
  <2>9. QED
    BY <2>1, <2>2, <2>3, <2>4, <2>5, <2>6, <2>7, <2>8, StepKinds
<1>3. QED
  BY <1>1, <1>2, TypeCorrect, WorkNeedsLockHolds, PTL DEF Spec

\* What a process loaded is what is on disk until it writes its update back.
THEOREM NoUpdateIsLost == Spec => []NoLostUpdate
<1>1. Init => NoLostUpdate
  BY DEF Init, NoLostUpdate, Updating
<1>2. TypeOK /\ WorkNeedsLock /\ LockExclusive /\ NoLostUpdate /\ [Next]_vars => NoLostUpdate'
  <2> SUFFICES ASSUME TypeOK, WorkNeedsLock, LockExclusive, NoLostUpdate, [Next]_vars
               PROVE  NoLostUpdate'
    OBVIOUS
  <2> USE DEF NoLostUpdate, Updating
  <2>1. CASE UNCHANGED <<pc, work, lockFile, disk, base>>
    BY <2>1
  <2>2. CASE PowerLoss
    BY <2>2 DEF PowerLoss
  <2>3. ASSUME NEW p \in Proc, Start(p) \/ Acquire(p) PROVE NoLostUpdate'
    BY <2>3 DEF Start, Acquire, TypeOK, fileVars, ghosts
  <2>4. ASSUME NEW p \in Proc, AcquireFails(p) \/ Release(p) \/ ReleaseFails(p) \/ Crash(p) PROVE NoLostUpdate'
    BY <2>4 DEF AcquireFails, Release, ReleaseFails, Crash, Forget, TypeOK, fileVars
  <2>5. ASSUME NEW p \in Proc, LoadForBuild(p) \/ LoadForUpdate(p) PROVE NoLostUpdate'
    BY <2>5 DEF LoadForBuild, LoadForUpdate, TypeOK, fileVars
  <2>6. ASSUME NEW p \in Proc, Rename(p) PROVE NoLostUpdate'
    <3>1. \A q \in Proc \ {p} : ~Holding(q)
      BY <2>6 DEF Rename, LockExclusive, Holding
    <3>2. QED
      BY <2>6, <3>1 DEF Rename, Holding, TypeOK
  <2>7. ASSUME NEW p \in Proc, Scan(p) PROVE NoLostUpdate'
    BY <2>7 DEF Scan, CheckGone, CheckMtime, ScanStat, ScanRead, ScanFails, fileVars, ghosts
  <2>8. ASSUME NEW p \in Proc, InsideStep(p),
               ~(LoadForBuild(p) \/ LoadForUpdate(p) \/ Rename(p) \/ Scan(p))
        PROVE  NoLostUpdate'
    BY <2>8 DEF InsideStep, LoadFails, Walk, StampBuilt, WalkForNew, ToScan, WriteTemp, ReturnUnchanged,
                WriteFails, TypeOK, fileVars, ghosts
  <2>9. QED
    BY <2>1, <2>2, <2>3, <2>4, <2>5, <2>6, <2>7, <2>8, StepKinds
<1>3. QED
  BY <1>1, <1>2, TypeCorrect, WorkNeedsLockHolds, LockIsExclusive, PTL DEF Spec

\* Without power loss nothing removes the lock file that a process left behind,
\* and no process gets past it to index.json.
THEOREM OrphansStay ==
    ASSUME "power" \notin Faults
    PROVE  Spec => OrphanIsForever
<1>1. ASSUME TypeOK, WorkNeedsLock, [Next]_vars, Orphaned
      PROVE  Orphaned' /\ disk' = disk
  <2> USE <1>1 DEF Orphaned, Holding
  <2>1. CASE UNCHANGED <<pc, work, lockFile, disk, base>>
    BY <2>1
  <2>2. CASE PowerLoss
    BY <2>2 DEF PowerLoss
  <2>3. ASSUME NEW p \in Proc, Start(p) PROVE Orphaned' /\ disk' = disk
    BY <2>3 DEF Start, TypeOK, fileVars
  <2>4. ASSUME NEW p \in Proc, Acquire(p) PROVE FALSE
    BY <2>4 DEF Acquire, LockFree
  <2>5. ASSUME NEW p \in Proc, AcquireFails(p) PROVE Orphaned' /\ disk' = disk
    BY <2>5 DEF AcquireFails, Forget, TypeOK, fileVars
  <2>6. ASSUME NEW p \in Proc, InsideStep(p) \/ Release(p) \/ ReleaseFails(p) \/ Crash(p) PROVE FALSE
    BY <2>6, InsideKeepsLock DEF Release, ReleaseFails, Crash
  <2>7. QED
    BY <2>1, <2>2, <2>3, <2>4, <2>5, <2>6, StepKinds
<1>2. TypeOK /\ WorkNeedsLock /\ [Next]_vars
         => [Orphaned => Orphaned' /\ disk' = disk]_<<lockFile, pc, disk>>
  BY <1>1
<1>3. QED
  BY <1>2, TypeCorrect, WorkNeedsLockHolds, PTL DEF Spec, OrphanIsForever

-----------------------------------------------------------------------------
(* Modification times.                                                     *)

\* The strengthening of NoHiddenEdit: nothing is stamped in the future, what a
\* scan has statted so far is not later than the file, and every entry anywhere
\* is trusted, the empty ones included.
Timely == \A f \in File : ws[f].mtime <= now /\ (ws[f].mtime = 0 => ws[f].ver = 0)
AllTrusted(i) == \A f \in File : Trusted(i.files[f], f)
SeenInTime == \A p \in Proc : \A f \in File : seen[p][f].mtime <= ws[f].mtime
TrustInv ==
    /\ Timely
    /\ SeenInTime
    /\ AllTrusted(disk)
    /\ \A p \in Proc : AllTrusted(idx[p])
    /\ \A r \in Reader : AllTrusted(view[r])

\* An index without entries is trusted.
LEMMA EmptyTrusted ==
    ASSUME TypeOK, Timely
    PROVE  \A i : i.files = NoFiles => AllTrusted(i)
  BY DEF TypeOK, WsFile, Timely, AllTrusted, Trusted, NoFiles, NoEntry

\* Whatever happens to a file, its mtime does not go back, and an entry that is
\* trusted stays trusted: each change carries a later mtime than any before.
LEMMA TrustIsKept ==
    ASSUME TypeOK, Timely, [Next]_vars, Faults \cap {"coarse", "backdate"} = {}
    PROVE  /\ Timely'
           /\ \A f \in File : ws[f].mtime <= ws'[f].mtime
           /\ \A f \in File : \A e \in Entry : Trusted(e, f) => Trusted(e, f)'
<1> USE DEF Timely, Trusted, TypeOK, WsFile, Entry
<1>1. ASSUME NEW f \in File, Edit(f)
      PROVE  /\ Timely'
             /\ \A g \in File : ws[g].mtime <= ws'[g].mtime
             /\ \A g \in File : \A e \in Entry : Trusted(e, g) => Trusted(e, g)'
  <2>1. /\ now' = now + 1
        /\ ws' = [ws EXCEPT ![f] = [present |-> TRUE, mtime |-> now + 1,
                                    ver |-> ws[f].ver + 1, at |-> now + 1]]
    <3>1. "coarse" \notin Faults /\ "backdate" \notin Faults
      OBVIOUS
    <3>2. PICK t \in Ticks :
             /\ t > now
             /\ now' = t
             /\ ws' = [ws EXCEPT ![f] = [present |-> TRUE, mtime |-> t,
                                         ver |-> ws[f].ver + 1, at |-> t]]
      BY <1>1, <3>1 DEF Edit
    <3>3. t = now + 1
      BY <3>2 DEF Ticks
    <3>4. QED
      BY <3>2, <3>3
  <2>2. /\ ws'[f].mtime = now + 1
        /\ \A g \in File \ {f} : ws'[g] = ws[g]
    BY <2>1
  <2>3. QED
    BY <2>1, <2>2
<1>2. ASSUME NEW f \in File, Remove(f)
      PROVE  /\ Timely'
             /\ \A g \in File : ws[g].mtime <= ws'[g].mtime
             /\ \A g \in File : \A e \in Entry : Trusted(e, g) => Trusted(e, g)'
  <2>1. /\ now' \in Nat
        /\ now <= now'
        /\ \A g \in File : ws'[g].mtime = ws[g].mtime /\ ws'[g].ver = ws[g].ver
    BY <1>2 DEF Remove, Ticks
  <2>2. QED
    BY <2>1
<1>3. ASSUME UNCHANGED ws, now' \in Nat, now <= now'
      PROVE  /\ Timely'
             /\ \A g \in File : ws[g].mtime <= ws'[g].mtime
             /\ \A g \in File : \A e \in Entry : Trusted(e, g) => Trusted(e, g)'
  BY <1>3
<1>4. CASE UNCHANGED vars
  BY <1>3, <1>4 DEF vars
<1>5. CASE Tick \/ Flush \/ PowerLoss
  <2>1. UNCHANGED ws /\ now' \in Nat /\ now <= now'
    <3>1. CASE Tick
      BY <3>1 DEF Tick
    <3>2. CASE Flush
      BY <3>2 DEF Flush, envVars
    <3>3. CASE PowerLoss
      BY <3>3 DEF PowerLoss, envVars
    <3>4. QED
      BY <1>5, <3>1, <3>2, <3>3
  <2>2. QED
    BY <1>3, <2>1
<1>6. ASSUME NEW p \in Proc, Start(p) \/ Step(p) \/ Crash(p) PROVE UNCHANGED envVars
  BY <1>6 DEF Start, Crash, Step, Acquire, Poll, AcquireFails, LoadForBuild, LoadFails,
              LoadForUpdate, Walk, StampBuilt, Scan, CheckGone, CheckMtime, ScanStat, ScanRead,
              ScanFails, WalkForNew, ToScan, WriteTemp, ReturnUnchanged, Rename, WriteFails, Release, ReleaseFails
<1>7. ASSUME NEW r \in Reader, ReviewLoads(r) PROVE UNCHANGED envVars
  BY <1>7 DEF ReviewLoads
<1>8. QED
  BY <1>1, <1>2, <1>3, <1>4, <1>5, <1>6, <1>7 DEF Next, envVars

\* Where the values of a step come from: an index is kept, emptied, or copied
\* from memory to disk or from disk to memory; only CheckGone and ScanRead
\* change an entry, and only a stat gives a scan a new mtime.
LEMMA ValueSources ==
    ASSUME TypeOK, [Next]_vars
    PROVE  /\ \/ disk' = disk
              \/ disk'.files = NoFiles
              \/ \E p \in Proc : disk' = idx[p]
           /\ \A p \in Proc : \/ idx'[p] = idx[p]
                              \/ idx'[p].files = NoFiles
                              \/ idx'[p] = disk
                              \/ \E q \in Proc, f \in File : CheckGone(q, f) \/ ScanRead(q, f)
           /\ \A p \in Proc : \A f \in File :
                 \/ seen'[p][f] = seen[p][f]
                 \/ seen'[p][f] = NoEntry
                 \/ ws' = ws /\ seen'[p][f].mtime = ws[f].mtime
           /\ \A r \in Reader : \/ view'[r] = view[r]
                                \/ view'[r].files = NoFiles
                                \/ view'[r] = disk
<1> USE DEF TypeOK
<1>1. CASE UNCHANGED vars
  BY <1>1 DEF vars
<1>2. ASSUME NEW f \in File, Edit(f) \/ Remove(f) PROVE UNCHANGED <<disk, idx, seen, view>>
  BY <1>2 DEF Edit, Remove, fileVars, scanVars
<1>3. CASE Tick \/ Flush
  BY <1>3 DEF Tick, Flush, fileVars, scanVars
<1>4. CASE PowerLoss
  BY <1>4 DEF PowerLoss, NoIndex, NoFiles
<1>5. ASSUME NEW p \in Proc, Forget(p), UNCHANGED <<disk, view>>
      PROVE  /\ \A q \in Proc : idx'[q] = idx[q] \/ idx'[q].files = NoFiles
             /\ \A q \in Proc : \A f \in File : seen'[q][f] \in {seen[q][f], NoEntry}
  BY <1>5 DEF Forget, NoIndex, NoFiles
<1>6. ASSUME NEW p \in Proc, AcquireFails(p) \/ Release(p) \/ ReleaseFails(p) \/ Crash(p)
      PROVE  Forget(p) /\ UNCHANGED <<disk, view>>
  BY <1>6 DEF AcquireFails, Release, ReleaseFails, Crash, fileVars
<1>7. ASSUME NEW p \in Proc,
             \/ Start(p) \/ Acquire(p) \/ Poll(p) \/ LoadForBuild(p) \/ LoadFails(p)
             \/ Walk(p) \/ WalkForNew(p) \/ WriteTemp(p) \/ ReturnUnchanged(p) \/ WriteFails(p)
      PROVE  UNCHANGED <<disk, idx, seen, view>>
  BY <1>7 DEF Start, Acquire, Poll, LoadForBuild, LoadFails, Walk, WalkForNew, ToScan, WriteTemp,
              ReturnUnchanged, WriteFails, fileVars, scanVars
<1>8. ASSUME NEW p \in Proc, LoadForUpdate(p)
      PROVE  UNCHANGED <<disk, seen, view>> /\ \A q \in Proc : idx'[q] \in {idx[q], disk}
  BY <1>8 DEF LoadForUpdate, fileVars
<1>9. ASSUME NEW p \in Proc, StampBuilt(p)
      PROVE  UNCHANGED <<disk, seen, view>> /\ \A q \in Proc : idx'[q] = idx[q] \/ idx'[q].files = NoFiles
  BY <1>9 DEF StampBuilt, fileVars
<1>10. ASSUME NEW p \in Proc, NEW f \in File, CheckGone(p, f) \/ CheckMtime(p, f)
       PROVE  UNCHANGED <<disk, seen, view>> /\ (idx' = idx \/ CheckGone(p, f))
  BY <1>10 DEF CheckGone, CheckMtime, fileVars
<1>11. ASSUME NEW p \in Proc, NEW f \in File, ScanRead(p, f) \/ ScanFails(p, f)
       PROVE  /\ UNCHANGED <<disk, view>>
              /\ idx' = idx \/ ScanRead(p, f)
              /\ \A q \in Proc : \A g \in File : seen'[q][g] \in {seen[q][g], NoEntry}
  <2>1. seen' = [seen EXCEPT ![p] = [seen[p] EXCEPT ![f] = NoEntry]]
    BY <1>11 DEF ScanRead, ScanFails
  <2>2. \A q \in Proc : \A g \in File : seen'[q][g] \in {seen[q][g], NoEntry}
    BY <2>1
  <2>3. QED
    BY <1>11, <2>2 DEF ScanRead, ScanFails, fileVars
<1>12. ASSUME NEW p \in Proc, NEW f \in File, ScanStat(p, f)
       PROVE  /\ UNCHANGED <<ws, disk, idx, view>>
              /\ \A q \in Proc : \A g \in File :
                    seen'[q][g] = seen[q][g] \/ seen'[q][g].mtime = ws[g].mtime
  BY <1>12 DEF ScanStat, envVars, fileVars
<1>13. ASSUME NEW p \in Proc, Rename(p) PROVE disk' = idx[p] /\ UNCHANGED <<idx, seen, view>>
  BY <1>13 DEF Rename, scanVars
<1>14. ASSUME NEW r \in Reader, ReviewLoads(r)
       PROVE  /\ UNCHANGED <<disk, idx, seen>>
              /\ \A x \in Reader : view'[x] = view[x] \/ view'[x] = disk \/ view'[x].files = NoFiles
  BY <1>14 DEF ReviewLoads, NoIndex, fileVars, scanVars
<1>15. CASE \E p \in Proc : Start(p) \/ Step(p) \/ Crash(p)
  <2>1. PICK p \in Proc : Start(p) \/ Step(p) \/ Crash(p)
    BY <1>15
  <2>2. CASE Scan(p)
    BY <2>2, <1>10, <1>11, <1>12 DEF Scan
  <2>3. CASE Rename(p)
    BY <2>3, <1>13
  <2>4. CASE LoadForUpdate(p) \/ StampBuilt(p)
    BY <2>4, <1>8, <1>9
  <2>5. CASE AcquireFails(p) \/ Release(p) \/ ReleaseFails(p) \/ Crash(p)
    BY <2>5, <1>5, <1>6
  <2>6. QED
    BY <2>1, <2>2, <2>3, <2>4, <2>5, <1>7 DEF Step
<1>16. QED
  BY <1>1, <1>2, <1>3, <1>4, <1>14, <1>15 DEF Next

LEMMA TrustInvHolds ==
    ASSUME Faults \cap {"coarse", "backdate"} = {}
    PROVE  Spec => []TrustInv
<1>1. Init => TrustInv
  <2> SUFFICES ASSUME Init PROVE TrustInv
    OBVIOUS
  <2> DEFINE Gone == [present |-> FALSE, mtime |-> 0, ver |-> 0, at |-> 0]
             There == [present |-> TRUE, mtime |-> 1, ver |-> 1, at |-> 1]
  <2>0. now = 1 /\ \A f \in File : ws[f] = Gone \/ ws[f] = There
    BY DEF Init
  <2>1. Timely
    BY <2>0 DEF Timely
  <2>2. \A k \in IndexKind : AllTrusted(NoIndex(k))
    BY <2>0 DEF AllTrusted, Trusted, NoIndex, NoFiles, NoEntry
  <2>3. SeenInTime
    <3>1. \A p \in Proc : \A f \in File : seen[p][f].mtime = 0
      BY DEF Init, NoFiles, NoEntry
    <3>2. QED
      BY <2>0, <3>1 DEF SeenInTime
  <2>4. QED
    BY <2>1, <2>2, <2>3 DEF Init, TrustInv, IndexKind
<1>2. TypeOK /\ TypeOK' /\ TrustInv /\ [Next]_vars => TrustInv'
  <2> SUFFICES ASSUME TypeOK, TypeOK', TrustInv, [Next]_vars PROVE TrustInv'
    OBVIOUS
  <2>1. Timely' /\ \A f \in File : ws[f].mtime <= ws'[f].mtime
    BY TrustIsKept DEF TrustInv
  <2>2. ASSUME NEW i \in Index, AllTrusted(i) PROVE AllTrusted(i)'
    BY <2>2, TrustIsKept DEF AllTrusted, Index, TrustInv
  <2>3. ASSUME NEW i, i.files = NoFiles PROVE AllTrusted(i)'
    BY <2>1, <2>3 DEF TypeOK, WsFile, Timely, AllTrusted, Trusted, NoFiles, NoEntry
  <2>4. ASSUME NEW p \in Proc, NEW f \in File, seen'[p][f] = seen[p][f]
        PROVE  seen'[p][f].mtime <= ws'[f].mtime
    BY <2>1, <2>4 DEF TrustInv, SeenInTime, TypeOK, WsFile, Entry
  <2>5. ASSUME NEW p \in Proc, NEW f \in File, seen'[p][f] = NoEntry
        PROVE  seen'[p][f].mtime <= ws'[f].mtime
    BY <2>5 DEF TypeOK, WsFile, NoEntry
  <2>6. SeenInTime'
    <3>1. ASSUME NEW p \in Proc, NEW f \in File PROVE seen'[p][f].mtime <= ws'[f].mtime
      BY <2>4, <2>5, ValueSources DEF TypeOK, WsFile
    <3>2. QED
      BY <3>1 DEF SeenInTime
  <2>7. AllTrusted(disk)'
    <3>1. CASE disk' = disk
      BY <3>1, <2>2 DEF TrustInv, TypeOK, AllTrusted
    <3>2. CASE disk'.files = NoFiles
      BY <3>2, <2>3 DEF AllTrusted, Trusted
    <3>3. ASSUME NEW p \in Proc, disk' = idx[p] PROVE AllTrusted(disk)'
      <4>1. AllTrusted(idx[p]) /\ idx[p] \in Index
        BY DEF TrustInv, TypeOK
      <4>2. QED
        BY <3>3, <4>1, <2>2 DEF AllTrusted
    <3>4. QED
      BY <3>1, <3>2, <3>3, ValueSources
  <2>8. ASSUME NEW p \in Proc PROVE AllTrusted(idx[p])'
    <3>1. ASSUME NEW q \in Proc, NEW f \in File, CheckGone(q, f) PROVE AllTrusted(idx[p])'
      <4>1. ws' = ws /\ \A g \in File : idx'[p].files[g] \in {idx[p].files[g], NoEntry}
        BY <3>1 DEF CheckGone, envVars, TypeOK, Index
      <4>2. \A g \in File : Trusted(NoEntry, g) /\ Trusted(idx[p].files[g], g)
        BY EmptyTrusted DEF TrustInv, AllTrusted, TypeOK, WsFile, Timely, Trusted, NoEntry
      <4>3. QED
        BY <4>1, <4>2 DEF AllTrusted, Trusted
    <3>2. ASSUME NEW q \in Proc, NEW f \in File, ScanRead(q, f) PROVE AllTrusted(idx[p])'
      <4>1. Trusted(ScannedEntry(q, f), f)
        BY DEF ScannedEntry, TrustInv, SeenInTime, Trusted
      <4>2. /\ ws' = ws
            /\ \A g \in File : \/ idx'[p].files[g] = idx[p].files[g]
                               \/ g = f /\ idx'[p].files[g] = ScannedEntry(q, f)
        <5>1. idx' = [idx EXCEPT ![q] = [idx[q] EXCEPT !.files =
                        [idx[q].files EXCEPT ![f] = ScannedEntry(q, f)]]]
          BY <3>2 DEF ScanRead
        <5>2. idx[p] \in Index /\ idx[q] \in Index
          BY DEF TypeOK
        <5>3. ws' = ws
          BY <3>2 DEF ScanRead, envVars
        <5>4. CASE p = q
          <6>1. idx'[p] = [idx[q] EXCEPT !.files = [idx[q].files EXCEPT ![f] = ScannedEntry(q, f)]]
            BY <5>1, <5>4 DEF TypeOK
          <6>2. idx'[p].files = [idx[q].files EXCEPT ![f] = ScannedEntry(q, f)]
            BY <5>2, <6>1 DEF Index
          <6>3. idx[q].files \in [File -> Entry]
            BY <5>2 DEF Index
          <6>4. \A g \in File : idx'[p].files[g] =
                   IF g = f THEN ScannedEntry(q, f) ELSE idx[q].files[g]
            BY <6>2, <6>3
          <6>5. QED
            BY <5>3, <5>4, <6>4
        <5>5. CASE p # q
          <6>1. idx'[p] = idx[p]
            BY <5>1, <5>5 DEF TypeOK
          <6>2. QED
            BY <5>3, <6>1
        <5>6. QED
          BY <5>4, <5>5
      <4>3. \A g \in File : Trusted(idx[p].files[g], g)
        BY DEF TrustInv, AllTrusted
      <4>4. QED
        BY <4>1, <4>2, <4>3 DEF AllTrusted, Trusted
    <3>3. CASE idx'[p] = idx[p]
      <4>1. AllTrusted(idx[p]) /\ idx[p] \in Index
        BY DEF TrustInv, TypeOK
      <4>2. QED
        BY <3>3, <4>1, <2>2 DEF AllTrusted
    <3>4. CASE idx'[p].files = NoFiles
      BY <3>4, <2>3 DEF AllTrusted, Trusted
    <3>5. CASE idx'[p] = disk
      <4>1. AllTrusted(disk) /\ disk \in Index
        BY DEF TrustInv, TypeOK
      <4>2. QED
        BY <3>5, <4>1, <2>2 DEF AllTrusted
    <3>6. QED
      BY <3>1, <3>2, <3>3, <3>4, <3>5, ValueSources
  <2>9. ASSUME NEW r \in Reader PROVE AllTrusted(view[r])'
    <3>1. CASE view'[r] = view[r]
      <4>1. AllTrusted(view[r]) /\ view[r] \in Index
        BY DEF TrustInv, TypeOK
      <4>2. QED
        BY <3>1, <4>1, <2>2 DEF AllTrusted
    <3>2. CASE view'[r].files = NoFiles
      BY <3>2, <2>3 DEF AllTrusted, Trusted
    <3>3. CASE view'[r] = disk
      <4>1. AllTrusted(disk) /\ disk \in Index
        BY DEF TrustInv, TypeOK
      <4>2. QED
        BY <3>3, <4>1, <2>2 DEF AllTrusted
    <3>4. QED
      BY <3>1, <3>2, <3>3, ValueSources
  <2>10. QED
    BY <2>1, <2>6, <2>7, <2>8, <2>9 DEF TrustInv
<1>3. QED
  BY <1>1, <1>2, TypeCorrect, PTL DEF Spec

\* With modification times that tell any two edits apart, no entry on disk, under
\* update or in a review's hands hides an edit from the next update.
THEOREM EditsAreNeverHidden ==
    ASSUME Faults \cap {"coarse", "backdate"} = {}
    PROVE  Spec => []NoHiddenEdit
<1>1. TrustInv => NoHiddenEdit
  BY DEF TrustInv, NoHiddenEdit, EntriesTrusted, AllTrusted, Indexed
<1>2. QED
  BY <1>1, TrustInvHolds, PTL

-----------------------------------------------------------------------------
(* Time, versions, and the steps that touch an index.                      *)

\* Neither the clock nor a version goes back; a file that changes does so now.
LEMMA TimeGoesOn ==
    ASSUME TypeOK, [Next]_vars
    PROVE  /\ now' \in Nat /\ now <= now'
           /\ \A f \in File : ws[f].ver <= ws'[f].ver
           /\ \A f \in File : \/ ws'[f] = ws[f]
                              \/ /\ now <= ws'[f].at /\ ws'[f].at <= now'
                                 /\ "coarse" \in Faults \/ now < ws'[f].at
           /\ \/ ws' = ws
              \/ UNCHANGED <<fileVars, pc, work, idx, view, out, missed, since>>
<1> USE DEF TypeOK, WsFile
<1>1. ASSUME NEW f \in File, Edit(f)
      PROVE  /\ now' \in Nat /\ now <= now'
             /\ \A g \in File : ws[g].ver <= ws'[g].ver
             /\ \A g \in File : \/ ws'[g] = ws[g]
                                \/ /\ now <= ws'[g].at /\ ws'[g].at <= now'
                                   /\ "coarse" \in Faults \/ now < ws'[g].at
  <2>0. PICK t \in Ticks : \E m :
           /\ "coarse" \in Faults \/ t > now
           /\ ws' = [ws EXCEPT ![f] =
                      [present |-> TRUE, mtime |-> m, ver |-> ws[f].ver + 1, at |-> t]]
           /\ now' = t
    BY <1>1 DEF Edit
  <2>1. PICK m :
           /\ "coarse" \in Faults \/ t > now
           /\ ws' = [ws EXCEPT ![f] =
                      [present |-> TRUE, mtime |-> m, ver |-> ws[f].ver + 1, at |-> t]]
           /\ now' = t
    BY <2>0
  <2>2. t \in Nat /\ now <= t
    BY DEF Ticks
  <2>3. /\ ws'[f].ver = ws[f].ver + 1 /\ ws'[f].at = t
        /\ \A g \in File \ {f} : ws'[g] = ws[g]
    BY <2>1
  <2>4. QED
    BY <2>1, <2>2, <2>3
<1>2. ASSUME NEW f \in File, Remove(f)
      PROVE  /\ now' \in Nat /\ now <= now'
             /\ \A g \in File : ws[g].ver <= ws'[g].ver
             /\ \A g \in File : \/ ws'[g] = ws[g]
                                \/ /\ now <= ws'[g].at /\ ws'[g].at <= now'
                                   /\ "coarse" \in Faults \/ now < ws'[g].at
  <2>1. PICK t \in Ticks :
           /\ "coarse" \in Faults \/ t > now
           /\ ws' = [ws EXCEPT ![f] =
                      [present |-> FALSE, mtime |-> ws[f].mtime, ver |-> ws[f].ver, at |-> t]]
           /\ now' = t
    BY <1>2 DEF Remove
  <2>2. t \in Nat /\ now <= t
    BY DEF Ticks
  <2>3. /\ ws'[f].ver = ws[f].ver /\ ws'[f].at = t
        /\ \A g \in File \ {f} : ws'[g] = ws[g]
    BY <2>1
  <2>4. QED
    BY <2>1, <2>2, <2>3
<1>3. ASSUME NEW f \in File, Edit(f) \/ Remove(f)
      PROVE  UNCHANGED <<fileVars, pc, work, idx, view, out, missed, since>>
  BY <1>3 DEF Edit, Remove, scanVars, ghosts
<1>4. ASSUME UNCHANGED ws, now' \in Nat, now <= now'
      PROVE  \A g \in File : ws[g].ver <= ws'[g].ver
  BY <1>4
<1>5. CASE Tick
  BY <1>4, <1>5 DEF Tick
<1>6. CASE UNCHANGED envVars
  BY <1>4, <1>6 DEF envVars
<1>7. ASSUME NEW p \in Proc, Start(p) \/ Step(p) \/ Crash(p) PROVE UNCHANGED envVars
  BY <1>7 DEF Start, Crash, Step, Acquire, Poll, AcquireFails, LoadForBuild, LoadFails,
              LoadForUpdate, Walk, StampBuilt, Scan, CheckGone, CheckMtime, ScanStat, ScanRead,
              ScanFails, WalkForNew, ToScan, WriteTemp, ReturnUnchanged, Rename, WriteFails, Release, ReleaseFails
<1>8. ASSUME NEW r \in Reader, ReviewLoads(r) PROVE UNCHANGED envVars
  BY <1>8 DEF ReviewLoads
<1>9. CASE UNCHANGED vars \/ Flush \/ PowerLoss
  BY <1>6, <1>9 DEF vars, Flush, PowerLoss, envVars
<1>10. QED
  BY <1>1, <1>2, <1>3, <1>5, <1>6, <1>7, <1>8, <1>9 DEF Next

\* Replacing one entry of one process's index leaves all the rest.
LEMMA OneEntry ==
    ASSUME TypeOK, NEW p \in Proc, NEW f \in File, NEW e \in Entry,
           idx' = [idx EXCEPT ![p].files[f] = e]
    PROVE  /\ \A q \in Proc \ {p} : idx'[q] = idx[q]
           /\ idx'[p].kind = idx[p].kind
           /\ idx'[p].built = idx[p].built
           /\ idx'[p].files[f] = e
           /\ \A g \in File \ {f} : idx'[p].files[g] = idx[p].files[g]
<1>1. idx[p] \in Index /\ idx[p].files \in [File -> Entry]
  BY DEF TypeOK, Index
<1>2. idx' = [idx EXCEPT ![p] = [idx[p] EXCEPT !.files = [idx[p].files EXCEPT ![f] = e]]]
  OBVIOUS
<1>3. idx'[p] = [idx[p] EXCEPT !.files = [idx[p].files EXCEPT ![f] = e]]
  BY <1>2 DEF TypeOK
<1>4. /\ idx'[p].kind = idx[p].kind /\ idx'[p].built = idx[p].built
      /\ idx'[p].files = [idx[p].files EXCEPT ![f] = e]
  BY <1>1, <1>3 DEF Index
<1>5. QED
  BY <1>1, <1>2, <1>4 DEF TypeOK

\* From the moment a process has an index that will replace the one on disk.
Replacing(p) == pc[p] \in {"build", "pass1", "pass2", "rename"}

\* What a step does to the indexes on disk, in memory and in a review's hands.
LEMMA IndexSteps ==
    ASSUME TypeOK, [Next]_vars
    PROVE  \/ /\ UNCHANGED <<disk, idx, view>>
              /\ \A p \in Proc : /\ Replacing(p)' => Replacing(p)
                                 /\ pc'[p] = "pass1" => pc[p] = "pass1"
           \/ PowerLoss
           \/ \E p \in Proc : /\ Forget(p) /\ UNCHANGED <<envVars, disk, view>>
           \/ \E p \in Proc : LoadForUpdate(p) \/ StampBuilt(p) \/ Rename(p)
           \/ \E p \in Proc, f \in File : CheckGone(p, f) \/ ScanRead(p, f)
           \/ \E r \in Reader : ReviewLoads(r)
<1> DEFINE Kept == /\ UNCHANGED <<disk, idx, view>>
                   /\ \A p \in Proc : /\ Replacing(p)' => Replacing(p)
                                      /\ pc'[p] = "pass1" => pc[p] = "pass1"
<1>1. ASSUME UNCHANGED <<disk, idx, view, pc>> PROVE Kept
  BY <1>1 DEF Replacing
<1>2. CASE UNCHANGED vars \/ Tick \/ Flush
  BY <1>1, <1>2 DEF vars, Tick, Flush, fileVars, scanVars
<1>3. ASSUME NEW f \in File, Edit(f) \/ Remove(f) PROVE Kept
  BY <1>1, <1>3 DEF Edit, Remove, fileVars, scanVars
<1>4. ASSUME NEW p \in Proc, NEW f \in File, CheckMtime(p, f) \/ ScanStat(p, f) \/ ScanFails(p, f)
      PROVE  Kept
  BY <1>1, <1>4 DEF CheckMtime, ScanStat, ScanFails, fileVars
<1>5. ASSUME NEW p \in Proc, Start(p) \/ Acquire(p) \/ LoadForBuild(p) \/ LoadFails(p) \/ Walk(p)
                             \/ WalkForNew(p) \/ WriteTemp(p) \/ ReturnUnchanged(p) \/ WriteFails(p)
      PROVE  Kept
  <2>1. UNCHANGED <<disk, idx, view>>
    BY <1>5 DEF Start, Acquire, LoadForBuild, LoadFails, Walk, WalkForNew, ToScan, WriteTemp,
                ReturnUnchanged, WriteFails, fileVars, scanVars
  <2>2. \A q \in Proc : /\ Replacing(q)' => Replacing(q)
                        /\ pc'[q] = "pass1" => pc[q] = "pass1"
    BY <1>5 DEF Start, Acquire, LoadForBuild, LoadFails, Walk, WalkForNew, ToScan, WriteTemp,
                ReturnUnchanged, WriteFails, TypeOK, Replacing
  <2>3. QED
    BY <2>1, <2>2
<1>6. ASSUME NEW p \in Proc, Poll(p) PROVE Kept
  BY <1>1, <1>6 DEF Poll, fileVars, scanVars
<1>7. ASSUME NEW p \in Proc, AcquireFails(p) \/ Release(p) \/ ReleaseFails(p) \/ Crash(p)
      PROVE  Forget(p) /\ UNCHANGED <<envVars, disk, view>>
  BY <1>7 DEF AcquireFails, Release, ReleaseFails, Crash, fileVars
<1>8. ASSUME NEW p \in Proc, Start(p) \/ Step(p) \/ Crash(p)
      PROVE  \/ Kept
             \/ Forget(p) /\ UNCHANGED <<envVars, disk, view>>
             \/ LoadForUpdate(p) \/ StampBuilt(p) \/ Rename(p)
             \/ \E f \in File : CheckGone(p, f) \/ ScanRead(p, f)
  <2> HIDE DEF Kept
  <2>1. CASE Scan(p)
    BY <2>1, <1>4 DEF Scan
  <2>2. QED
    BY <1>8, <2>1, <1>5, <1>6, <1>7 DEF Step
<1>9. QED
  BY <1>2, <1>3, <1>8 DEF Next

-----------------------------------------------------------------------------
(* Indexes move forward.                                                   *)

\* An index was built before now, from versions no later than today's.
NotAhead(i) == i.built <= now /\ \A f \in File : i.files[f].ver <= ws[f].ver

\* The index on disk supersedes every review's; the one that is to replace it
\* supersedes both.
ForwardInv ==
    /\ NotAhead(disk)
    /\ \A p \in Proc : NotAhead(idx[p])
    /\ \A r \in Reader : NotAhead(view[r])
    /\ \A r \in Reader : Supersedes(disk, view[r])
    /\ \A p \in Proc : Replacing(p) => Supersedes(idx[p], disk)
    /\ \A p \in Proc, r \in Reader : Replacing(p) => Supersedes(idx[p], view[r])

\* The cases of Supersedes the steps below need.
LEMMA SupersedesCases ==
    /\ \A i, k : Supersedes(i, NoIndex(k)) \/ k = "index"
    /\ \A i \in Index : Supersedes(i, i)
    /\ TypeOK => \A i \in Index : NotAhead(i) =>
          Supersedes([kind |-> "index", built |-> now, files |-> NoFiles], i)
<1>1. \A i, k : Supersedes(i, NoIndex(k)) \/ k = "index"
  BY DEF Supersedes, NoIndex
<1>2. \A i \in Index : Supersedes(i, i)
  BY DEF Supersedes, Index, Entry, Indexed
<1>3. TypeOK => \A i \in Index : NotAhead(i) =>
          Supersedes([kind |-> "index", built |-> now, files |-> NoFiles], i)
  BY DEF Supersedes, NotAhead, Index, TypeOK, Indexed, NoFiles, NoEntry
<1>4. QED
  BY <1>1, <1>2, <1>3

\* Dropping an entry, or reading it again, supersedes what the index superseded.
LEMMA ScanMovesForward ==
    ASSUME TypeOK, NEW p \in Proc, NEW f \in File, CheckGone(p, f) \/ ScanRead(p, f),
           NEW i \in Index, NotAhead(i), Supersedes(idx[p], i)
    PROVE  Supersedes(idx'[p], i)
<1>1. PICK e \in Entry :
         /\ idx' = [idx EXCEPT ![p].files[f] = e]
         /\ e = NoEntry \/ e.ver = ws[f].ver
  <2>1. NoEntry \in Entry /\ ScannedEntry(p, f) \in Entry /\ ScannedEntry(p, f).ver = ws[f].ver
    BY EmptyValues DEF ScannedEntry, TypeOK, WsFile, Entry
  <2>2. QED
    BY <2>1 DEF CheckGone, ScanRead
<1>2. /\ idx'[p].kind = idx[p].kind
      /\ idx'[p].built = idx[p].built
      /\ idx'[p].files[f] = e
      /\ \A g \in File \ {f} : idx'[p].files[g] = idx[p].files[g]
  BY <1>1, OneEntry
<1>3. QED
  BY <1>1, <1>2 DEF Supersedes, Indexed, NotAhead

LEMMA ForwardInvHolds == Spec => []ForwardInv
<1>1. Init => ForwardInv
  <2> SUFFICES ASSUME Init PROVE ForwardInv
    OBVIOUS
  <2>1. \A k : NotAhead(NoIndex(k))
    <3>1. now = 1 /\ \A f \in File : ws[f].ver \in {0, 1}
      BY DEF Init
    <3>2. QED
      BY <3>1 DEF NotAhead, NoIndex, NoFiles, NoEntry
  <2>2. \A p \in Proc : ~Replacing(p)
    BY DEF Init, Replacing
  <2>3. \A r \in Reader : Supersedes(disk, view[r])
    BY SupersedesCases DEF Init
  <2>4. QED
    BY <2>1, <2>2, <2>3 DEF Init, ForwardInv
<1>2. TypeOK /\ TypeOK' /\ WorkNeedsLock /\ LockExclusive /\ ForwardInv /\ [Next]_vars => ForwardInv'
  <2> SUFFICES ASSUME TypeOK, TypeOK', WorkNeedsLock, LockExclusive, ForwardInv, [Next]_vars
               PROVE  ForwardInv'
    OBVIOUS
  <2>1. ASSUME NEW i \in Index, NotAhead(i) PROVE NotAhead(i)'
    BY <2>1, TimeGoesOn DEF NotAhead, TypeOK, WsFile, Index, Entry
  <2>2. \A k : NotAhead(NoIndex(k))'
    BY TimeGoesOn DEF NotAhead, NoIndex, NoFiles, NoEntry, TypeOK, WsFile
  <2>3. /\ disk \in Index
        /\ \A p \in Proc : idx[p] \in Index
        /\ \A r \in Reader : view[r] \in Index
    BY DEF TypeOK
  <2>4. CASE /\ UNCHANGED <<disk, idx, view>>
             /\ \A p \in Proc : /\ Replacing(p)' => Replacing(p)
                                /\ pc'[p] = "pass1" => pc[p] = "pass1"
    <3>1. NotAhead(disk)' /\ (\A p \in Proc : NotAhead(idx[p])') /\ (\A r \in Reader : NotAhead(view[r])')
      BY <2>1, <2>3, <2>4 DEF ForwardInv, NotAhead
    <3>2. QED
      BY <2>4, <3>1 DEF ForwardInv, Supersedes, Indexed
  <2>5. CASE PowerLoss
    <3>1. /\ \A p \in Proc : idx'[p] = NoIndex("absent") /\ ~Replacing(p)'
          /\ \A r \in Reader : view'[r] = NoIndex("absent")
          /\ disk' = disk \/ disk' = NoIndex("corrupt")
      BY <2>5 DEF PowerLoss, Replacing
    <3>2. NotAhead(disk)'
      BY <2>1, <2>2, <2>3, <3>1 DEF ForwardInv, NotAhead
    <3>3. (\A p \in Proc : NotAhead(idx[p])') /\ (\A r \in Reader : NotAhead(view[r])')
      BY <2>2, <3>1 DEF NotAhead
    <3>4. \A r \in Reader : Supersedes(disk, view[r])'
      BY <3>1 DEF Supersedes, NoIndex
    <3>5. QED
      BY <3>1, <3>2, <3>3, <3>4 DEF ForwardInv
  <2>6. ASSUME NEW p \in Proc, Forget(p), UNCHANGED <<envVars, disk, view>> PROVE ForwardInv'
    <3>1. /\ idx'[p] = NoIndex("absent") /\ ~Replacing(p)'
          /\ \A q \in Proc \ {p} : idx'[q] = idx[q] /\ pc'[q] = pc[q]
      BY <2>6 DEF Forget, Replacing, TypeOK
    <3>2. NotAhead(disk)' /\ \A r \in Reader : NotAhead(view[r])'
      BY <2>1, <2>3, <2>6 DEF ForwardInv, NotAhead
    <3>3. \A q \in Proc : NotAhead(idx[q])'
      BY <2>1, <2>2, <2>3, <3>1 DEF ForwardInv, NotAhead
    <3>4. \A q \in Proc : Replacing(q)' => idx'[q] = idx[q] /\ Replacing(q)
      BY <3>1 DEF Replacing
    <3>5. QED
      BY <2>6, <3>2, <3>3, <3>4 DEF ForwardInv, Supersedes, Indexed
  <2>7. ASSUME NEW p \in Proc, LoadForUpdate(p) \/ StampBuilt(p) PROVE ForwardInv'
    <3>1. /\ UNCHANGED <<disk, view, ws, now>>
          /\ \A q \in Proc \ {p} : idx'[q] = idx[q] /\ (Replacing(q)' => Replacing(q))
      BY <2>7 DEF LoadForUpdate, StampBuilt, fileVars, envVars, TypeOK, Replacing
    <3>2. \/ idx'[p] = disk
          \/ idx'[p] = [kind |-> "index", built |-> now, files |-> NoFiles]
      BY <2>7 DEF LoadForUpdate, StampBuilt, TypeOK
    <3>3. NotAhead(idx[p])'
      BY <2>1, <2>3, <3>1, <3>2 DEF ForwardInv, NotAhead, NoFiles, NoEntry, TypeOK, WsFile
    <3>4. Supersedes(idx'[p], disk) /\ \A r \in Reader : Supersedes(idx'[p], view[r])
      BY <2>3, <3>2, SupersedesCases DEF ForwardInv
    <3>5. NotAhead(disk)' /\ (\A q \in Proc : NotAhead(idx[q])') /\ (\A r \in Reader : NotAhead(view[r])')
      BY <2>1, <2>3, <3>1, <3>3 DEF ForwardInv, NotAhead
    <3>6. \A q \in Proc : Replacing(q)' => /\ Supersedes(idx'[q], disk)
                                           /\ \A r \in Reader : Supersedes(idx'[q], view[r])
      BY <3>1, <3>4 DEF ForwardInv
    <3>7. QED
      BY <3>1, <3>5, <3>6 DEF ForwardInv, Supersedes, Indexed
  <2>8. ASSUME NEW p \in Proc, Rename(p) PROVE ForwardInv'
    <3>1. /\ disk' = idx[p] /\ UNCHANGED <<idx, view, ws, now>> /\ Replacing(p) /\ ~Replacing(p)'
          /\ \A q \in Proc \ {p} : pc'[q] = pc[q]
      BY <2>8 DEF Rename, scanVars, envVars, Replacing, TypeOK
    <3>2. \A q \in Proc : ~Replacing(q)'
      BY <2>8, <3>1 DEF LockExclusive, Holding, Replacing, Rename
    <3>3. NotAhead(disk)' /\ (\A q \in Proc : NotAhead(idx[q])') /\ (\A r \in Reader : NotAhead(view[r])')
      BY <2>1, <2>3, <3>1 DEF ForwardInv, NotAhead
    <3>4. \A r \in Reader : Supersedes(disk, view[r])'
      BY <3>1 DEF ForwardInv, Supersedes, Indexed
    <3>5. QED
      BY <3>2, <3>3, <3>4 DEF ForwardInv
  <2>9. ASSUME NEW p \in Proc, NEW f \in File, CheckGone(p, f) \/ ScanRead(p, f) PROVE ForwardInv'
    <3>1. /\ UNCHANGED <<disk, view, ws, now, pc>>
          /\ \A q \in Proc \ {p} : idx'[q] = idx[q]
      BY <2>9 DEF CheckGone, ScanRead, fileVars, envVars, TypeOK
    <3>2. NotAhead(idx[p])'
      <4>1. PICK e \in Entry : idx' = [idx EXCEPT ![p].files[f] = e] /\ e.ver <= ws[f].ver
        <5>1. /\ NoEntry \in Entry /\ NoEntry.ver <= ws[f].ver
              /\ ScannedEntry(p, f) \in Entry /\ ScannedEntry(p, f).ver <= ws[f].ver
          BY EmptyValues DEF ScannedEntry, NoEntry, TypeOK, WsFile, Entry
        <5>2. QED
          BY <2>9, <5>1 DEF CheckGone, ScanRead
      <4>2. /\ idx'[p].built = idx[p].built /\ idx'[p].files[f] = e
            /\ \A g \in File \ {f} : idx'[p].files[g] = idx[p].files[g]
        BY <4>1, OneEntry, ZenonT(60)
      <4>3. QED
        BY <3>1, <4>1, <4>2 DEF ForwardInv, NotAhead
    <3>3. Replacing(p) => /\ Supersedes(idx'[p], disk)
                          /\ \A r \in Reader : Supersedes(idx'[p], view[r])
      BY <2>3, <2>9, ScanMovesForward DEF ForwardInv
    <3>4. NotAhead(disk)' /\ (\A q \in Proc : NotAhead(idx[q])') /\ (\A r \in Reader : NotAhead(view[r])')
      BY <2>1, <2>3, <3>1, <3>2 DEF ForwardInv, NotAhead
    <3>5. \A q \in Proc : Replacing(q) => /\ Supersedes(idx'[q], disk)
                                          /\ \A r \in Reader : Supersedes(idx'[q], view[r])
      BY <3>1, <3>3 DEF ForwardInv
    <3>6. QED
      BY <3>1, <3>4, <3>5 DEF ForwardInv, Supersedes, Indexed, Replacing
  <2>10. ASSUME NEW r \in Reader, ReviewLoads(r) PROVE ForwardInv'
    <3>1. /\ UNCHANGED <<disk, idx, ws, now, pc>>
          /\ \A x \in Reader \ {r} : view'[x] = view[x]
          /\ view'[r] = disk \/ view'[r] = NoIndex("absent")
      BY <2>10 DEF ReviewLoads, fileVars, scanVars, envVars, TypeOK
    <3>2. NotAhead(disk)' /\ (\A q \in Proc : NotAhead(idx[q])')
      BY <2>1, <2>3, <3>1 DEF ForwardInv, NotAhead
    <3>3. \A x \in Reader : NotAhead(view[x])'
      BY <2>1, <2>2, <2>3, <3>1 DEF ForwardInv, NotAhead
    <3>4. \A x \in Reader : Supersedes(disk, view'[x])
      BY <2>3, <3>1, SupersedesCases DEF ForwardInv
    <3>5. \A p \in Proc, x \in Reader : Replacing(p) => Supersedes(idx[p], view'[x])
      BY <3>1, SupersedesCases DEF ForwardInv
    <3>6. QED
      BY <3>1, <3>2, <3>3, <3>4, <3>5 DEF ForwardInv, Supersedes, Indexed, Replacing
  <2>11. QED
    BY <2>4, <2>5, <2>6, <2>7, <2>8, <2>9, <2>10, IndexSteps
<1>3. QED
  BY <1>1, <1>2, TypeCorrect, WorkNeedsLockHolds, LockIsExclusive, PTL DEF Spec

\* A review never goes back to an older build, an older version of a file or to
\* no index at all; a power loss ends the review before that can happen.
THEOREM ReviewsNeverGoBack ==
    ASSUME "power" \notin Faults
    PROVE  Spec => ReviewsMoveForward
<1>1. TypeOK /\ ForwardInv /\ [Next]_vars =>
         [\A r \in Reader : Supersedes(view'[r], view[r])]_view
  <2> SUFFICES ASSUME TypeOK, ForwardInv, [Next]_vars, view' # view
               PROVE  \A r \in Reader : Supersedes(view'[r], view[r])
    OBVIOUS
  <2>1. ~PowerLoss
    BY DEF PowerLoss
  <2>2. PICK r \in Reader : ReviewLoads(r)
    BY <2>1, IndexSteps DEF LoadForUpdate, StampBuilt, Rename, CheckGone, ScanRead
  <2>3. \A x \in Reader \ {r} : view'[x] = view[x]
    BY <2>2 DEF ReviewLoads, TypeOK
  <2>4. \A x \in Reader : Supersedes(view[x], view[x])
    BY SupersedesCases DEF TypeOK
  <2>5. Supersedes(view'[r], view[r])
    <3>1. CASE disk.kind = "index"
      BY <2>2, <3>1 DEF ReviewLoads, TypeOK, ForwardInv
    <3>2. CASE disk.kind # "index"
      BY <2>2, <3>2 DEF ForwardInv, Supersedes
    <3>3. QED
      BY <3>1, <3>2
  <2>6. QED
    BY <2>3, <2>4, <2>5
<1>2. QED
  BY <1>1, TypeCorrect, ForwardInvHolds, PTL DEF Spec, ReviewsMoveForward

-----------------------------------------------------------------------------
(* The index as a single writer's document.                                *)

\* With crashes and failing system calls, but no power loss, index.json under the
\* lock file is a document with one owner at a time, which is published by its
\* owner only and each time by an index that supersedes the one before; an owner
\* that died, or failed to remove the lock file, is never succeeded.
THEOREM IndexIsASingleWriterDocument ==
    ASSUME "power" \notin Faults
    PROVE  Spec => ImplementsSingleWriter
<1>1. Init => Document!Init
  BY DEF Init, Document!Init, Owner, Holding
<1>2. ASSUME TypeOK, WorkNeedsLock, LockExclusive, LockExclusive', ForwardInv, [Next]_vars
      PROVE  [Document!Next]_<<Owner, disk>>
  <2> USE <1>2
  <2>1. \A p \in Proc : Holding(p) => Owner = p
    BY DEF Owner, LockExclusive
  <2>2. \A p \in Proc : Holding(p)' => Owner' = p
    BY DEF Owner, LockExclusive
  <2>3. (\A p \in Proc : ~Holding(p)) => Owner = IF lockFile THEN "perished" ELSE "nobody"
    BY DEF Owner
  <2>4. (\A p \in Proc : ~Holding(p)') => Owner' = IF lockFile' THEN "perished" ELSE "nobody"
    BY DEF Owner
  <2>5. ASSUME NEW p \in Proc, NEW a, pc' = [pc EXCEPT ![p] = a]
        PROVE  \A q \in Proc \ {p} : (Holding(q)' <=> Holding(q))
    BY <2>5 DEF Holding, TypeOK
  <2>6. ASSUME lockFile' = lockFile, \A p \in Proc : (Holding(p)' <=> Holding(p))
        PROVE  Owner' = Owner
    <3>1. CASE \A p \in Proc : ~Holding(p)
      BY <2>3, <2>4, <2>6, <3>1
    <3>2. ASSUME NEW p \in Proc, Holding(p) PROVE Owner' = Owner
      BY <2>1, <2>2, <2>6, <3>2
    <3>3. QED
      BY <3>1, <3>2
  <2>7. CASE UNCHANGED <<pc, work, lockFile, disk, base>>
    BY <2>6, <2>7 DEF Holding
  <2>8. ASSUME NEW p \in Proc, Start(p) \/ AcquireFails(p) PROVE Owner' = Owner /\ disk' = disk
    <3>1. /\ lockFile' = lockFile /\ disk' = disk
          /\ ~Holding(p) /\ ~Holding(p)'
          /\ \E a : pc' = [pc EXCEPT ![p] = a]
      BY <2>8 DEF Start, AcquireFails, Forget, fileVars, Holding, TypeOK
    <3>2. QED
      BY <2>5, <2>6, <3>1
  <2>9. ASSUME NEW p \in Proc, Acquire(p) PROVE Document!Take(p)
    <3>1. ~lockFile /\ Holding(p)' /\ disk' = disk
      BY <2>9 DEF Acquire, LockFree, Holding, TypeOK, fileVars
    <3>2. Owner = "nobody"
      BY <2>3, <3>1 DEF LockExclusive
    <3>3. QED
      BY <2>2, <3>1, <3>2 DEF Document!Take
  <2>10. ASSUME NEW p \in Proc, InsideStep(p) PROVE [Document!Publish(p)]_<<Owner, disk>>
    <3>1. Owner = p /\ Owner' = p
      BY <2>1, <2>2, <2>10, InsideKeepsLock DEF Holding
    <3>2. disk' = disk \/ Rename(p)
      BY <2>10 DEF InsideStep, LoadForBuild, LoadFails, LoadForUpdate, Walk, StampBuilt, Scan,
                   CheckGone, CheckMtime, ScanStat, ScanRead, ScanFails, WalkForNew, ToScan, WriteTemp,
                   ReturnUnchanged, WriteFails, fileVars
    <3>3. Rename(p) => Supersedes(disk', disk)
      BY DEF Rename, ForwardInv, Replacing
    <3>4. QED
      BY <3>1, <3>2, <3>3 DEF Document!Publish
  <2>11. ASSUME NEW p \in Proc, Release(p) PROVE Document!Leave(p)
    <3>1. Holding(p) /\ ~Holding(p)' /\ ~lockFile' /\ disk' = disk
      BY <2>11 DEF Release, Forget, Holding, TypeOK, fileVars
    <3>2. \A q \in Proc : ~Holding(q)'
      BY <3>1 DEF LockExclusive
    <3>3. QED
      BY <2>1, <2>4, <3>1, <3>2 DEF Document!Leave
  <2>12. ASSUME NEW p \in Proc, ReleaseFails(p) \/ Crash(p) PROVE Document!Perish(p)
    <3>1. Holding(p) /\ ~Holding(p)' /\ lockFile' = lockFile /\ disk' = disk
      BY <2>12 DEF ReleaseFails, Crash, Forget, Holding, TypeOK, fileVars
    <3>2. lockFile' /\ \A q \in Proc : ~Holding(q)'
      <4>1. lockFile /\ \A q \in Proc \ {p} : ~Holding(q)
        BY <3>1 DEF LockExclusive
      <4>2. pc' = [pc EXCEPT ![p] = "idle"]
        BY <2>12 DEF ReleaseFails, Crash, Forget
      <4>3. QED
        BY <2>5, <3>1, <4>1, <4>2
    <3>3. QED
      BY <2>1, <2>4, <3>1, <3>2 DEF Document!Perish
  <2>13. ~PowerLoss
    BY DEF PowerLoss
  <2>14. QED
    BY <2>7, <2>8, <2>9, <2>10, <2>11, <2>12, <2>13, StepKinds DEF Document!Next
<1>3. QED
  BY <1>1, <1>2, TypeCorrect, WorkNeedsLockHolds, LockIsExclusive, ForwardInvHolds, PTL
  DEF Spec, ImplementsSingleWriter, Document!Spec

-----------------------------------------------------------------------------
(* What SyncIndex returns is current.                                      *)

\* An entry of an index is current when its file was last changed before the
\* index was built, whatever the mtimes say: it was read after that.
BuiltFresh(i) == \A f \in Indexed(i) : ws[f].at < i.built => i.files[f].ver = ws[f].ver

\* An index that is updated was built no longer than StaleThreshold before.
BuildInv ==
    /\ BuiltFresh(disk)
    /\ \A p \in Proc : BuiltFresh(idx[p])
    /\ \A p \in Proc : since[p] <= now + 1
    /\ \A p \in Proc : pc[p] = "pass1" => since[p] <= idx[p].built + Stale + 1

\* since is set when a call begins and cleared when it ends.
LEMMA SinceSteps ==
    ASSUME TypeOK, [Next]_vars, NEW p \in Proc
    PROVE  \/ since'[p] = since[p]
           \/ since'[p] <= now + 1 /\ pc'[p] \in {"idle", "locking"}
<1> USE DEF TypeOK
<1>1. CASE UNCHANGED since
  BY <1>1
<1>2. ASSUME NEW q \in Proc, Forget(q) PROVE since'[p] = since[p] \/ (since'[p] = 0 /\ pc'[p] = "idle")
  BY <1>2 DEF Forget
<1>3. ASSUME NEW q \in Proc, AcquireFails(q) \/ Release(q) \/ ReleaseFails(q) \/ Crash(q) PROVE Forget(q)
  BY <1>3 DEF AcquireFails, Release, ReleaseFails, Crash
<1>4. ASSUME NEW q \in Proc, Start(q)
      PROVE  since'[p] = since[p] \/ (since'[p] <= now + 1 /\ pc'[p] = "locking")
  BY <1>4 DEF Start
<1>5. ASSUME NEW q \in Proc,
             \/ Acquire(q) \/ Poll(q) \/ LoadForBuild(q) \/ LoadFails(q) \/ LoadForUpdate(q)
             \/ Walk(q) \/ StampBuilt(q) \/ Scan(q) \/ WalkForNew(q)
             \/ WriteTemp(q) \/ ReturnUnchanged(q) \/ Rename(q) \/ WriteFails(q)
      PROVE  UNCHANGED since
  BY <1>5 DEF Acquire, Poll, LoadForBuild, LoadFails, LoadForUpdate, Walk, StampBuilt, Scan,
              CheckGone, CheckMtime, ScanStat, ScanRead, ScanFails, WalkForNew, ToScan, WriteTemp,
              ReturnUnchanged, Rename, WriteFails, ghosts
<1>6. CASE PowerLoss
  BY <1>6 DEF PowerLoss
<1>7. CASE UNCHANGED vars \/ Tick \/ Flush \/ \E r \in Reader : ReviewLoads(r)
  BY <1>1, <1>7 DEF vars, Tick, Flush, ReviewLoads, ghosts
<1>8. ASSUME NEW f \in File, Edit(f) \/ Remove(f) PROVE UNCHANGED since
  BY <1>8 DEF Edit, Remove, ghosts
<1>9. QED
  BY <1>1, <1>2, <1>3, <1>4, <1>5, <1>6, <1>7, <1>8 DEF Next, Step

LEMMA BuildInvHolds == Spec => []BuildInv
<1>1. Init => BuildInv
  <2> SUFFICES ASSUME Init PROVE BuildInv
    OBVIOUS
  <2>1. \A k : BuiltFresh(NoIndex(k))
    BY DEF BuiltFresh, Indexed, NoIndex, NoFiles
  <2>2. QED
    BY <2>1 DEF Init, BuildInv
<1>2. TypeOK /\ TypeOK' /\ ForwardInv /\ BuildInv /\ [Next]_vars => BuildInv'
  <2> SUFFICES ASSUME TypeOK, TypeOK', ForwardInv, BuildInv, [Next]_vars PROVE BuildInv'
    OBVIOUS
  <2>1. ASSUME NEW i \in Index, BuiltFresh(i), i.built <= now PROVE BuiltFresh(i)'
    <3>1. \A f \in File : ws'[f] = ws[f] \/ now <= ws'[f].at
      BY TimeGoesOn
    <3>2. now \in Nat /\ i.built \in Nat /\ \A f \in File : ws'[f].at \in Nat
      BY DEF TypeOK, Index, WsFile
    <3>3. QED
      BY <2>1, <3>1, <3>2 DEF BuiltFresh, Indexed
  <2>2. ASSUME NEW i, i.files = NoFiles PROVE BuiltFresh(i)'
    BY <2>2 DEF BuiltFresh, Indexed, NoFiles
  <2>3. /\ disk \in Index /\ disk.built <= now
        /\ \A p \in Proc : idx[p] \in Index /\ idx[p].built <= now
    BY DEF TypeOK, ForwardInv, NotAhead
  <2>4. BuiltFresh(disk)'
    <3>1. \/ disk' = disk \/ disk'.files = NoFiles \/ \E p \in Proc : disk' = idx[p]
      BY ValueSources
    <3>2. QED
      BY <2>1, <2>2, <2>3, <3>1 DEF BuildInv, BuiltFresh, Indexed
  <2>5. ASSUME NEW p \in Proc PROVE BuiltFresh(idx[p])'
    <3>1. ASSUME NEW q \in Proc, NEW f \in File, CheckGone(q, f) \/ ScanRead(q, f)
          PROVE  BuiltFresh(idx[p])'
      <4>1. PICK e \in Entry : /\ idx' = [idx EXCEPT ![q].files[f] = e]
                               /\ e = NoEntry \/ e.ver = ws[f].ver
        <5>1. /\ NoEntry \in Entry
              /\ ScannedEntry(q, f) \in Entry /\ ScannedEntry(q, f).ver = ws[f].ver
          BY EmptyValues DEF ScannedEntry, TypeOK, WsFile, Entry
        <5>2. QED
          BY <3>1, <5>1 DEF CheckGone, ScanRead
      <4>2. /\ \A x \in Proc \ {q} : idx'[x] = idx[x]
            /\ idx'[q].built = idx[q].built
            /\ idx'[q].files[f] = e
            /\ \A g \in File \ {f} : idx'[q].files[g] = idx[q].files[g]
        <5>1. idx' = [idx EXCEPT ![q].files[f] = e]
          BY <4>1
        <5>2. QED
          <6>1. \A x \in Proc \ {q} : idx'[x] = idx[x]
            BY <5>1, OneEntry
          <6>2. idx'[q].built = idx[q].built
            BY <5>1, OneEntry
          <6>3. idx'[q].files[f] = e
            BY <5>1, OneEntry
          <6>4. \A g \in File \ {f} : idx'[q].files[g] = idx[q].files[g]
            BY <5>1, OneEntry
          <6>5. QED
            BY <6>1, <6>2, <6>3, <6>4
      <4>3. ws' = ws
        BY <3>1 DEF CheckGone, ScanRead, envVars
      <4>4. QED
        BY <4>1, <4>2, <4>3 DEF BuildInv, BuiltFresh, Indexed
    <3>2. \/ idx'[p] = idx[p] \/ idx'[p].files = NoFiles \/ idx'[p] = disk
          \/ \E q \in Proc, f \in File : CheckGone(q, f) \/ ScanRead(q, f)
      BY ValueSources
    <3>3. QED
      BY <2>1, <2>2, <2>3, <3>1, <3>2 DEF BuildInv, BuiltFresh, Indexed
  <2>6. ASSUME NEW p \in Proc PROVE since'[p] <= now' + 1
    <3>1. since'[p] = since[p] \/ since'[p] <= now + 1
      BY SinceSteps
    <3>2. since'[p] \in Nat /\ since[p] <= now + 1
      BY DEF BuildInv, TypeOK
    <3>3. now \in Nat /\ now' \in Nat /\ now <= now'
      BY TimeGoesOn DEF TypeOK
    <3>4. QED
      BY <3>1, <3>2, <3>3
  <2>7. ASSUME NEW p \in Proc, pc'[p] = "pass1" PROVE since'[p] <= idx'[p].built + Stale + 1
    <3>1. since'[p] = since[p]
      BY <2>7, SinceSteps
    <3>2. CASE pc[p] = "pass1" /\ idx'[p].built = idx[p].built
      BY <3>1, <3>2 DEF BuildInv
    <3>3. CASE LoadForUpdate(p)
      <4>1. idx'[p] = disk /\ now - disk.built <= Stale
        BY <3>3, ConstantsAssumption DEF LoadForUpdate, NeedsBuild, TypeOK, Index
      <4>2. QED
        BY <3>1, <4>1, <2>3, ConstantsAssumption DEF BuildInv, TypeOK, Index
    <3>4. \/ pc[p] = "pass1" /\ idx'[p].built = idx[p].built
          \/ LoadForUpdate(p)
      <4>1. ASSUME NEW q \in Proc, LoadForUpdate(q) \/ StampBuilt(q) \/ Rename(q)
            PROVE  LoadForUpdate(p) \/ (pc[p] = "pass1" /\ idx'[p] = idx[p])
        BY <2>7, <4>1 DEF LoadForUpdate, StampBuilt, Rename, TypeOK, scanVars
      <4>2. ASSUME NEW q \in Proc, NEW f \in File, CheckGone(q, f) \/ ScanRead(q, f)
            PROVE  pc[p] = "pass1" /\ idx'[p].built = idx[p].built
        <5>1. PICK e \in Entry : idx' = [idx EXCEPT ![q].files[f] = e]
          <6>1. NoEntry \in Entry /\ ScannedEntry(q, f) \in Entry
            BY EmptyValues DEF ScannedEntry, TypeOK, WsFile, Entry
          <6>2. QED
            BY <4>2, <6>1 DEF CheckGone, ScanRead
        <5>2. idx'[p].built = idx[p].built
          BY <5>1, OneEntry
        <5>3. QED
          BY <2>7, <4>2, <5>2 DEF CheckGone, ScanRead
      <4>3. ASSUME NEW q \in Proc, Forget(q), UNCHANGED <<envVars, disk, view>>
            PROVE  pc[p] = "pass1" /\ idx'[p] = idx[p]
        BY <2>7, <4>3 DEF Forget, TypeOK
      <4>4. ~PowerLoss
        BY <2>7 DEF PowerLoss
      <4>5. ASSUME NEW r \in Reader, ReviewLoads(r) PROVE pc[p] = "pass1" /\ idx'[p] = idx[p]
        BY <2>7, <4>5 DEF ReviewLoads, scanVars
      <4>6. QED
        BY <2>7, <4>1, <4>2, <4>3, <4>4, <4>5, IndexSteps
    <3>5. QED
      BY <3>2, <3>3, <3>4
  <2>8. QED
    BY <2>4, <2>5, <2>6, <2>7 DEF BuildInv
<1>3. QED
  BY <1>1, <1>2, TypeCorrect, ForwardInvHolds, PTL DEF Spec

\* Whether mtimes tell any two edits of a file apart.
MtimesTell == Faults \cap {"coarse", "backdate"} = {}

\* p has read f or will, and f was left alone: since the call began if mtimes
\* tell, since StaleThreshold before that otherwise.
Settled(p, f) ==
    /\ f \notin missed[p]
    /\ ws[f].at < since[p]
    /\ MtimesTell \/ ws[f].at + Stale + 1 < since[p]

\* How far p has come with a file that is settled.
Progress(p, f) ==
    /\ pc[p] = "stamp" => work[p][f] = IF ws[f].present THEN "stat" ELSE "none"
    /\ pc[p] \in {"build", "pass1", "pass2"} /\ work[p][f] \in {"stat", "read"} => ws[f].present
    /\ pc[p] = "pass1" /\ work[p][f] = "none" => idx[p].files[f] = NoEntry \/ Current(idx[p], f)
    /\ pc[p] \in {"build", "pass2"} /\ work[p][f] = "none" => Current(idx[p], f)
    /\ pc[p] = "rename" \/ Returning(p) => Current(idx[p], f)

CurrencyInv == \A p \in Proc, f \in File : Settled(p, f) => Progress(p, f)

\* A step is a process's own or leaves the process alone.
LEMMA OwnSteps ==
    ASSUME TypeOK, [Next]_vars, NEW p \in Proc
    PROVE  \/ /\ pc'[p] = pc[p] /\ work'[p] = work[p] /\ idx'[p] = idx[p] /\ out'[p] = out[p]
              /\ since'[p] = since[p] /\ missed'[p] = missed[p]
           \/ PowerLoss \/ Start(p) \/ Step(p) \/ Crash(p)
<1> DEFINE Alone == /\ pc'[p] = pc[p] /\ work'[p] = work[p] /\ idx'[p] = idx[p] /\ out'[p] = out[p]
                    /\ since'[p] = since[p] /\ missed'[p] = missed[p]
<1> USE DEF TypeOK
<1>1. CASE UNCHANGED vars \/ Tick \/ Flush \/ \E r \in Reader : ReviewLoads(r)
  BY <1>1 DEF vars, Tick, Flush, ReviewLoads, scanVars, ghosts
<1>2. ASSUME NEW f \in File, Edit(f) \/ Remove(f) PROVE Alone
  BY <1>2 DEF Edit, Remove, scanVars, ghosts
<1>3. ASSUME NEW q \in Proc \ {p}, Forget(q) PROVE Alone
  BY <1>3 DEF Forget
<1>4. ASSUME NEW q \in Proc \ {p}, AcquireFails(q) \/ Release(q) \/ ReleaseFails(q) \/ Crash(q) PROVE Forget(q)
  BY <1>4 DEF AcquireFails, Release, ReleaseFails, Crash
<1>5. ASSUME NEW q \in Proc \ {p},
             Start(q) \/ Acquire(q) \/ Poll(q) \/ LoadForBuild(q) \/ LoadFails(q) \/ LoadForUpdate(q)
      PROVE  Alone
  BY <1>5 DEF Start, Acquire, Poll, LoadForBuild, LoadFails, LoadForUpdate, scanVars, ghosts
<1>6. ASSUME NEW q \in Proc \ {p},
             \/ Walk(q) \/ StampBuilt(q) \/ WalkForNew(q) \/ WriteTemp(q) \/ ReturnUnchanged(q)
             \/ Rename(q) \/ WriteFails(q)
      PROVE  Alone
  BY <1>6 DEF Walk, StampBuilt, WalkForNew, ToScan, WriteTemp, ReturnUnchanged, Rename, WriteFails,
              scanVars, ghosts
<1>7. ASSUME NEW q \in Proc \ {p}, NEW f \in File,
             CheckGone(q, f) \/ CheckMtime(q, f) \/ ScanStat(q, f) \/ ScanRead(q, f) \/ ScanFails(q, f)
      PROVE  Alone
  BY <1>7 DEF CheckGone, CheckMtime, ScanStat, ScanRead, ScanFails, ghosts
<1>8. ASSUME NEW q \in Proc \ {p}, Start(q) \/ Step(q) \/ Crash(q) PROVE Alone
  <2> HIDE DEF Alone
  <2>1. CASE Scan(q)
    BY <2>1, <1>7 DEF Scan
  <2>2. QED
    BY <1>8, <2>1, <1>3, <1>4, <1>5, <1>6 DEF Step
<1>9. QED
  BY <1>1, <1>2, <1>8 DEF Next

\* A file that is settled after a step of a call was settled before it, and the
\* step has left it alone.
LEMMA SettledBefore ==
    ASSUME TypeOK, TypeOK', BuildInv, [Next]_vars, NEW p \in Proc, NEW f \in File,
           Settled(p, f)', pc'[p] \notin {"idle", "locking"}
    PROVE  ws'[f] = ws[f] /\ since'[p] = since[p] /\ (f \notin missed[p] => Settled(p, f))
<1>1. since'[p] = since[p] /\ since[p] <= now + 1
  BY SinceSteps DEF BuildInv
<1>2. /\ ws[f].at \in Nat /\ ws'[f].at \in Nat /\ now \in Nat /\ since[p] \in Nat
      /\ Stale \in Nat
  BY ConstantsAssumption DEF TypeOK, WsFile
<1>3. \/ ws'[f] = ws[f]
      \/ now <= ws'[f].at /\ ("coarse" \in Faults \/ now < ws'[f].at)
  BY TimeGoesOn
<1>4. ws'[f].at < since[p] /\ (MtimesTell \/ ws'[f].at + Stale + 1 < since[p])
  BY <1>1 DEF Settled
<1>5. ws'[f] = ws[f]
  <2>1. CASE MtimesTell
    BY <2>1, <1>1, <1>2, <1>3, <1>4 DEF MtimesTell
  <2>2. CASE ws'[f].at + Stale + 1 < since[p]
    BY <2>2, <1>1, <1>2, <1>3
  <2>3. QED
    BY <2>1, <2>2, <1>4
<1>6. QED
  BY <1>1, <1>4, <1>5 DEF Settled

\* The one place where an entry is kept without being read again: its mtime is
\* the file's, or it was read after the file was last changed.
LEMMA KeptIsCurrent ==
    ASSUME TypeOK, BuildInv, MtimesTell => TrustInv,
           NEW p \in Proc, NEW f \in File, Settled(p, f), pc[p] = "pass1", ws[f].present,
           ~(ws[f].mtime > idx[p].files[f].mtime)
    PROVE  idx[p].files[f] = NoEntry \/ Current(idx[p], f)
<1> DEFINE e == idx[p].files[f]
<1>1. /\ e.mtime \in Nat /\ e.ver \in Nat /\ idx[p].built \in Nat
      /\ ws[f].mtime \in Nat /\ ws[f].at \in Nat /\ since[p] \in Nat /\ Stale \in Nat
  BY ConstantsAssumption DEF TypeOK, Index, Entry, WsFile
<1>2. CASE MtimesTell
  <2>1. Trusted(e, f)
    BY <1>2 DEF TrustInv, AllTrusted
  <2>2. e.ver = ws[f].ver
    BY <1>1, <2>1 DEF Trusted
  <2>3. QED
    BY <2>2 DEF Current
<1>3. CASE ws[f].at + Stale + 1 < since[p]
  <2>1. since[p] <= idx[p].built + Stale + 1
    BY DEF BuildInv
  <2>2. ws[f].at < idx[p].built
    BY <1>1, <1>3, <2>1
  <2>3. e # NoEntry => e.ver = ws[f].ver
    BY <2>2 DEF BuildInv, BuiltFresh, Indexed
  <2>4. QED
    BY <2>3 DEF Current
<1>4. QED
  BY <1>2, <1>3 DEF Settled

\* A step of p takes a settled file as far as it should be.
LEMMA OwnProgress ==
    ASSUME TypeOK, TypeOK', WorkNeedsLock, BuildInv, MtimesTell => TrustInv,
           NEW p \in Proc, NEW f \in File, Settled(p, f), Progress(p, f),
           Step(p), ws'[f] = ws[f], f \notin missed'[p]
    PROVE  Progress(p, f)'
<1> USE DEF TypeOK
<1>0. \A g \in File : idx[p].files[g] \in Entry
  BY DEF Index
<1>1. CASE Acquire(p) \/ Poll(p) \/ LoadForBuild(p)
  <2>1. pc'[p] \in {"locking", "loading", "walk"}
    BY <1>1 DEF Acquire, Poll, LoadForBuild
  <2>2. QED
    BY <2>1 DEF Progress, Returning
<1>2. CASE AcquireFails(p) \/ Release(p) \/ ReleaseFails(p)
  <2>1. pc'[p] = "idle"
    BY <1>2 DEF AcquireFails, Release, ReleaseFails, Forget
  <2>2. QED
    BY <2>1 DEF Progress, Returning
<1>3. CASE LoadFails(p) \/ WriteFails(p)
  <2>1. pc'[p] = "release" /\ out'[p] # "ok"
    BY <1>3 DEF LoadFails, WriteFails
  <2>2. QED
    BY <2>1 DEF Progress, Returning
<1>4. CASE LoadForUpdate(p)
  <2>1. /\ pc'[p] = "pass1" /\ idx'[p] = disk
        /\ work'[p][f] = IF f \in Indexed(disk) THEN "check" ELSE "none"
    BY <1>4 DEF LoadForUpdate
  <2>2. QED
    BY <2>1 DEF Progress, Returning, Indexed
<1>5. CASE Walk(p)
  <2>1. pc'[p] = "stamp" /\ work'[p][f] = IF ws[f].present THEN "stat" ELSE "none"
    <3>1. PICK unlisted : ToScan(p, Present, unlisted) /\ pc' = [pc EXCEPT ![p] = "stamp"]
      BY <1>5 DEF Walk
    <3>2. f \notin Present \cap unlisted
      BY <3>1 DEF ToScan
    <3>3. QED
      BY <3>1, <3>2 DEF ToScan, Present
  <2>2. QED
    BY <2>1 DEF Progress, Returning
<1>6. CASE StampBuilt(p)
  <2>1. /\ pc[p] = "stamp" /\ pc'[p] = "build" /\ work' = work
        /\ idx'[p].files[f] = NoEntry
    BY <1>6 DEF StampBuilt, NoFiles
  <2>2. QED
    BY <2>1 DEF Progress, Returning, Current
<1>7. ASSUME NEW g \in File,
             CheckGone(p, g) \/ CheckMtime(p, g) \/ ScanStat(p, g) \/ ScanRead(p, g) \/ ScanFails(p, g)
      PROVE  Progress(p, f)'
  <2>1. /\ pc' = pc /\ pc[p] \in {"stamp", "build", "pass1", "pass2"}
        /\ work'[p] \in [File -> WorkKind]
        /\ \A h \in File \ {g} : work'[p][h] = work[p][h]
    <3>1. pc' = pc /\ work[p][g] # "none" /\ \E w : work' = [work EXCEPT ![p][g] = w]
      BY <1>7 DEF CheckGone, CheckMtime, ScanStat, ScanRead, ScanFails
    <3>2. work[p] # NoWork
      BY <3>1 DEF NoWork
    <3>3. QED
      BY <3>1, <3>2 DEF WorkNeedsLock
  <2>2. CASE g # f
    <3>1. idx'[p].files[f] = idx[p].files[f]
      <4>1. ASSUME NEW e \in Entry, idx' = [idx EXCEPT ![p].files[g] = e]
            PROVE  idx'[p].files[f] = idx[p].files[f]
        BY <2>2, <4>1, OneEntry
      <4>2. NoEntry \in Entry /\ ScannedEntry(p, g) \in Entry
        BY EmptyValues DEF ScannedEntry, WsFile, Entry
      <4>3. \/ idx' = idx
            \/ \E e \in Entry : idx' = [idx EXCEPT ![p].files[g] = e]
        BY <1>7, <4>2 DEF CheckGone, CheckMtime, ScanStat, ScanRead, ScanFails
      <4>4. QED
        BY <4>1, <4>3
    <3>2. QED
      BY <2>1, <2>2, <3>1 DEF Progress, Returning, Current
  <2>3. ASSUME NEW e \in Entry, idx' = [idx EXCEPT ![p].files[f] = e] PROVE idx'[p].files[f] = e
    <3> HIDE DEF TypeOK
    <3>1. QED
      BY <2>3, OneEntry
  <2>4. CASE g = f /\ CheckGone(p, f)
    <3>1. pc[p] = "pass1" /\ work'[p][f] = "none" /\ idx' = [idx EXCEPT ![p].files[f] = NoEntry]
      BY <2>4 DEF CheckGone
    <3>2. idx'[p].files[f] = NoEntry
      BY <3>1, <2>3, EmptyValues
    <3>3. QED
      BY <2>1, <3>1, <3>2 DEF Progress, Returning
  <2>5. CASE g = f /\ CheckMtime(p, f)
    <3>1. /\ pc[p] = "pass1" /\ ws[f].present /\ idx' = idx
          /\ work'[p][f] = IF ws[f].mtime > idx[p].files[f].mtime THEN "stat" ELSE "none"
      BY <2>5 DEF CheckMtime
    <3>2. CASE ws[f].mtime > idx[p].files[f].mtime
      BY <2>1, <3>1, <3>2 DEF Progress, Returning
    <3>3. CASE ~(ws[f].mtime > idx[p].files[f].mtime)
      <4>1. idx[p].files[f] = NoEntry \/ Current(idx[p], f)
        BY <3>1, <3>3, KeptIsCurrent
      <4>2. QED
        BY <2>1, <3>1, <3>3, <4>1 DEF Progress, Returning, Current
    <3>4. QED
      BY <3>2, <3>3
  <2>6. CASE g = f /\ ScanStat(p, f)
    <3>1. /\ pc[p] \in {"build", "pass1", "pass2"} /\ ws[f].present
          /\ work'[p][f] = "read"
      BY <2>6 DEF ScanStat
    <3>2. QED
      BY <2>1, <3>1 DEF Progress, Returning
  <2>7. CASE g = f /\ ScanRead(p, f)
    <3>1. /\ work[p][f] = "read" /\ ws[f].present /\ work'[p][f] = "none"
          /\ idx' = [idx EXCEPT ![p].files[f] = ScannedEntry(p, f)]
      BY <2>7 DEF ScanRead
    <3>2. ScannedEntry(p, f) \in Entry /\ ScannedEntry(p, f).ver = ws[f].ver
      BY DEF ScannedEntry, WsFile, Entry
    <3>3. idx'[p].files[f] = ScannedEntry(p, f)
      BY <3>1, <3>2, <2>3
    <3>4. Current(idx[p], f)'
      BY <3>1, <3>2, <3>3 DEF Current
    <3>5. pc[p] # "stamp"
      BY <3>1 DEF Progress
    <3>6. QED
      BY <2>1, <3>1, <3>4, <3>5 DEF Progress, Returning
  <2>8. CASE g = f /\ ScanFails(p, f)
    BY <2>8 DEF ScanFails
  <2>9. QED
    BY <1>7, <2>2, <2>4, <2>5, <2>6, <2>7, <2>8
<1>8. CASE WalkForNew(p)
  <2>1. /\ pc[p] = "pass1" /\ pc'[p] = "pass2" /\ idx' = idx /\ work[p][f] = "none"
        /\ work'[p][f] = IF f \in NewFiles(p) THEN "stat" ELSE "none"
    <3>1. PICK unlisted : ToScan(p, NewFiles(p), unlisted)
      BY <1>8 DEF WalkForNew
    <3>2. f \notin NewFiles(p) \cap unlisted
      BY <3>1 DEF ToScan
    <3>3. QED
      BY <1>8, <3>1, <3>2 DEF WalkForNew, ToScan, Quiet, NoWork
  <2>2. f \in NewFiles(p) <=> ws[f].present /\ idx[p].files[f] = NoEntry
    BY DEF NewFiles, Present, Indexed
  <2>3. QED
    BY <2>1, <2>2 DEF Progress, Returning, Current
<1>9. CASE WriteTemp(p) \/ ReturnUnchanged(p)
  <2>1. /\ pc[p] \in {"build", "pass2"} /\ pc'[p] \in {"rename", "release"}
        /\ work[p][f] = "none" /\ idx' = idx
    BY <1>9 DEF WriteTemp, ReturnUnchanged, Quiet, NoWork, scanVars
  <2>2. QED
    BY <2>1 DEF Progress, Returning, Current
<1>10. CASE Rename(p)
  <2>1. pc[p] = "rename" /\ pc'[p] = "release" /\ idx' = idx
    BY <1>10 DEF Rename, scanVars
  <2>2. QED
    BY <2>1 DEF Progress, Returning, Current
<1>11. QED
  BY <1>1, <1>2, <1>3, <1>4, <1>5, <1>6, <1>7, <1>8, <1>9, <1>10 DEF Step, Scan

LEMMA CurrencyInvHolds == Spec => [](CurrencyInv /\ TypeOK)
<1>1. Init => CurrencyInv
  BY DEF Init, CurrencyInv, Progress, Returning
<1>2. TypeOK /\ TypeOK' /\ WorkNeedsLock /\ BuildInv /\ (MtimesTell => TrustInv) /\ CurrencyInv
         /\ [Next]_vars => CurrencyInv'
  <2> SUFFICES ASSUME TypeOK, TypeOK', WorkNeedsLock, BuildInv, MtimesTell => TrustInv,
                      CurrencyInv, [Next]_vars, NEW p \in Proc, NEW f \in File, Settled(p, f)'
               PROVE  Progress(p, f)'
    BY DEF CurrencyInv
  <2>1. CASE pc'[p] \in {"idle", "locking"}
    BY <2>1 DEF Progress, Returning
  <2>2. CASE pc'[p] \notin {"idle", "locking"}
    <3>1. ws'[f] = ws[f] /\ (f \notin missed[p] => Settled(p, f))
      BY <2>2, SettledBefore
    <3>2. f \notin missed'[p]
      BY DEF Settled
    <3>3. CASE /\ pc'[p] = pc[p] /\ work'[p] = work[p] /\ idx'[p] = idx[p] /\ out'[p] = out[p]
               /\ since'[p] = since[p] /\ missed'[p] = missed[p]
      <4>1. Progress(p, f)
        BY <3>1, <3>2, <3>3 DEF CurrencyInv
      <4>2. QED
        BY <3>1, <3>3, <4>1 DEF Progress, Returning, Current
    <3>4. CASE Step(p)
      <4>1. missed[p] \subseteq missed'[p]
        <5>1. pc'[p] # "idle"
          BY <2>2
        <5>2. QED
          BY <3>4, <5>1 DEF Step, Acquire, Poll, AcquireFails, LoadForBuild, LoadFails, LoadForUpdate,
             Walk, StampBuilt, Scan, CheckGone, CheckMtime, ScanStat, ScanRead, ScanFails, WalkForNew,
             ToScan, WriteTemp, ReturnUnchanged, Rename, WriteFails, Release, ReleaseFails, Forget, ghosts, TypeOK
      <4>2. QED
        BY <3>1, <3>2, <3>4, <4>1, OwnProgress DEF CurrencyInv
    <3>5. CASE PowerLoss \/ Start(p) \/ Crash(p)
      BY <2>2, <3>5 DEF PowerLoss, Start, Crash, Forget, TypeOK
    <3>6. QED
      BY <3>3, <3>4, <3>5, OwnSteps
  <2>3. QED
    BY <2>1, <2>2
<1>3. CASE MtimesTell
  <2>1. Spec => []TrustInv
    BY <1>3, TrustInvHolds DEF MtimesTell
  <2>2. QED
    BY <1>1, <1>2, <2>1, TypeCorrect, WorkNeedsLockHolds, BuildInvHolds, PTL DEF Spec
<1>4. CASE ~MtimesTell
  <2>1. TypeOK /\ TypeOK' /\ WorkNeedsLock /\ BuildInv /\ CurrencyInv /\ [Next]_vars => CurrencyInv'
    BY <1>2, <1>4
  <2>2. QED
    BY <1>1, <2>1, TypeCorrect, WorkNeedsLockHolds, BuildInvHolds, PTL DEF Spec
<1>5. QED
  BY <1>3, <1>4

\* When mtimes tell edits apart, a successful SyncIndex returns the current
\* version of every file that was left alone since the call began and could be
\* read, and nothing for a file that is gone.
THEOREM SyncsReturnCurrent ==
    ASSUME Faults \cap {"coarse", "backdate"} = {}
    PROVE  Spec => []SyncReturnsCurrent
<1>1. CurrencyInv /\ TypeOK => SyncReturnsCurrent
  BY DEF CurrencyInv, Settled, MtimesTell, Progress, SyncReturnsCurrent
<1>2. QED
  BY <1>1, CurrencyInvHolds, PTL

\* Whatever the mtimes say and whatever else goes wrong, an edit older than
\* StaleThreshold when the call began is in the index a successful SyncIndex
\* returns.
THEOREM StalenessIsBounded == Spec => []StalenessBounded
<1>1. CurrencyInv /\ TypeOK => StalenessBounded
  <2> SUFFICES ASSUME CurrencyInv, TypeOK, NEW p \in Proc, Returning(p),
                      NEW f \in File \ missed[p], ws[f].at + Stale + 1 < since[p]
               PROVE  Current(idx[p], f)
    BY DEF StalenessBounded
  <2>1. ws[f].at \in Nat /\ since[p] \in Nat /\ Stale \in Nat
    BY ConstantsAssumption DEF TypeOK, WsFile
  <2>2. Settled(p, f)
    BY <2>1 DEF Settled
  <2>3. QED
    BY <2>2 DEF CurrencyInv, Progress
<1>2. QED
  BY <1>1, CurrencyInvHolds, PTL
=============================================================================
