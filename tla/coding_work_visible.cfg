SPECIFICATION Spec
CONSTANTS
    MaxCycles = 3
    MaxAttempts = 3
    PushEnabled = TRUE
    Misnaming = FALSE
INVARIANTS
    WorkIsVisible
