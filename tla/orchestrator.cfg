SPECIFICATION Spec
CONSTANTS
    Widths <- MCWidths
    UseComposites = TRUE
    DryRun = FALSE
    Nodes <- AllNodes
INVARIANTS
    TypeOK
    CompletedShowsAll
    HaltShowsCause
    CompletedResultsMatch
PROPERTIES
    PollsMoveForward
    RefusedIsFinal
    ServesTheRun
