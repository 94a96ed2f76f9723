\* Two callers of SyncIndex, two files of two grammars, crashes and I/O errors.
SPECIFICATION Spec
CONSTANTS
    p1 = p1
    p2 = p2
    r1 = r1
    f1 = f1
    f2 = f2
    Proc = {p1, p2}
    Reader = {}
    File = {f1, f2}
    Lang = {f1, f2}
    LangOf <- TwoLangs
    Stale = 1
    MaxTries = 1
    MaxClock = 3
    MaxVer = 4
    Faults = {"crash", "io"}
SYMMETRY Symmetry
INVARIANTS
    TypeOK
    LockExclusive
    NoLostUpdate
    NoHiddenEdit
    SyncReturnsCurrent
PROPERTIES
    OrphanIsForever
    ImplementsSingleWriter
