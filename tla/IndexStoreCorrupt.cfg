\* Power loss after a rename that was not written back.
SPECIFICATION Spec
CONSTANTS
    p1 = p1
    p2 = p2
    r1 = r1
    f1 = f1
    f2 = f2
    Proc = {p1}
    Reader = {}
    File = {f1}
    Lang = {f1, f2}
    LangOf <- TwoLangs
    Stale = 1
    MaxTries = 1
    MaxClock = 2
    MaxVer = 2
    Faults = {"power"}
INVARIANTS
    UnhealthyIsRebuilt
