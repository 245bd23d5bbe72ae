SPECIFICATION Spec
CONSTANTS
    Widths <- MCWidths
    UseComposites = TRUE
    DryRun = FALSE
    Nodes <- AllNodes
INVARIANTS
    ResultsAreRead
