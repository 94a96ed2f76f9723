\* A build's TypeScript worker, a caller of ExtractWithPolicy on a PHP file and a
\* review of another PHP file.
SPECIFICATION FairSpec
CONSTANTS
    t1 = t1
    h1 = h1
    h2 = h2
    y1 = y1
    Nil = Nil
    File = {t1, h1, h2}
    Worker = {"build", "review", "timed"}
    WorkerOf <- BuildTimedAndReview
    Grammar = {"typescript", "php"}
    GrammarOf <- Grammars
    KindOf <- Kinds
    Timed = {"timed"}
    Large = {h1}
    Chunks <- Lengths
    MaxQueryRetries = 2
    Policies <- TimedAndSized
INVARIANTS
    TypeOK
    UndisturbedParseIsOwn
    SourceReleased
PROPERTIES
    EveryExtractionEnds
