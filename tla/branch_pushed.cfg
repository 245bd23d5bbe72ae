SPECIFICATION Spec
CONSTANTS
    MaxCycles = 2
    MaxAttempts = 3
    PushEnabled = TRUE
    Misnaming = FALSE
INVARIANTS
    BranchIsPushed
