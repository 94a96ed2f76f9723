\* Crashes, one reviewer, two callers who keep syncing while a file is edited.
SPECIFICATION BusySpec
CONSTANTS
    p1 = p1
    p2 = p2
    r1 = r1
    f1 = f1
    f2 = f2
    Proc = {p1, p2}
    Reader = {r1}
    File = {f1}
    Lang = {f1, f2}
    LangOf <- TwoLangs
    Stale = 1
    MaxTries = 1
    MaxClock = 3
    MaxVer = 3
    Faults = {"crash"}
PROPERTIES
    EverySyncEnds
    Converges
    ReviewsMoveForward
