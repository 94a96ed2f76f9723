\* Crashes, power loss, a coarse clock and backdated files.
SPECIFICATION Spec
CONSTANTS
    p1 = p1
    p2 = p2
    r1 = r1
    f1 = f1
    f2 = f2
    Proc = {p1, p2}
    Reader = {}
    File = {f1}
    Lang = {f1, f2}
    LangOf <- TwoLangs
    Stale = 1
    MaxTries = 0
    MaxClock = 4
    MaxVer = 2
    Faults = {"crash", "power", "coarse", "backdate"}
SYMMETRY Symmetry
INVARIANTS
    StalenessBounded
