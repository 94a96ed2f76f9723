\* BuildFull on a TypeScript and a Python file, no timeouts.
SPECIFICATION Spec
CONSTANTS
    t1 = t1
    h1 = h1
    h2 = h2
    y1 = y1
    Nil = Nil
    File = {t1, y1}
    Worker = {"typescript", "python"}
    WorkerOf <- PerLanguage
    Grammar = {"typescript", "python"}
    GrammarOf <- Grammars
    KindOf <- Kinds
    Timed = {}
    Large = {}
    Chunks <- Lengths
    MaxQueryRetries = 2
    Policies <- Default
INVARIANTS
    ParseReadsItsOwnSource
