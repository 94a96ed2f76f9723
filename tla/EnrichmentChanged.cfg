CONSTANTS
    Review = {r1}
    File = {1, 2, 3, 4, 5}
    Symbol = {1, 2}
    TypeRef = {1}
    DiffFile = {1}
    Dir <- Dirs
    Parent <- Parents
    Walked = {1, 2, 3, 4}
    TestsOf <- Tests
    Workspace <- Workspaces
    Content <- Contents
    MayFail = {3}
    Config <- Configs
    MaxRefs = 2
    Before = 1
    After = 3
    Body = 1
    MaxLine = 8
    Cap = 5
    TestCap = 7
    Overhead = 1
    Budget = 12
    MaxEdits = 1
SPECIFICATION Spec
CHECK_DEADLOCK FALSE
INVARIANT ReferencedAreUnchanged
