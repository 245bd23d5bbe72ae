SPECIFICATION Spec
CONSTANTS
    MaxAttempts = 3
INVARIANTS
    TypeOK
    VerdictOfBoth
    OneWorktree
PROPERTIES
    StuckWorktreeIsFatal
