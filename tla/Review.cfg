\* Two reviews, one through each adapter.
SPECIFICATION FairSpec
CONSTANTS
    r1 = r1
    r2 = r2
    Review = {r1, r2}
    Adapter <- Adapters
    Key <- Keys
    Refs = "REFERENCED_FILES"
    Piece <- Pieces
    Template <- Templates
    Value <- Bundles
    Attachment <- Attachments
    Model = {"m"}
    NoModel = ""
    Config <- Configs
    Call <- Calls
CHECK_DEADLOCK FALSE
INVARIANTS
    TypeOK
    RequestsBounded
    NothingAskedTwice
    CorrectionFollowsRejection
    GoodAnswerIsReturned
    LoggedBeforeAsked
    PromptFaithful
PROPERTIES
    EveryReviewEnds
    ImplementsOneAnswer
