SPECIFICATION Spec
CONSTANTS
    MaxCycles = 2
    MaxAttempts = 3
    PushEnabled = TRUE
    Misnaming = TRUE
INVARIANTS
    NothingRepeated
    RowsArePrefix
    InputsAreFresh
    FailedPushBlocksReview
    OutputMatchesVerdict
PROPERTIES
    CodingEnds
    ImplementsContract
