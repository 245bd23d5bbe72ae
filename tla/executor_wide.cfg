SPECIFICATION Spec
CONSTANTS
    a = a
    b = b
    Term = Term
    Comps = {a, b}
    MaxLevel = 2
    MaxTransientAttempts = 2
    MaxReruns = 1
    UseComposites = TRUE
    ChildSpecs <- WideSpecs
    Costs = {0, 38, 76}
    Total = 80
    MinNode = 1
INVARIANTS
    TypeOK
    CompletedMeansAllDone
    ContextComplete
    ReviewFollowsPush
    UsageFlushed
    ReturnedIsSettled
    FailureIsRecorded
PROPERTIES
    Termination
    HaltedIsQuiet
    LateDispatch
    ImplementsDagRun
