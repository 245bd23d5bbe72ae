SPECIFICATION Spec
CONSTANTS
    MaxAttempts = 2
INVARIANTS
    AgentsHaveWorktree
