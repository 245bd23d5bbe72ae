SPECIFICATION Spec
CONSTANTS
    Total = 40
    MinNode = 2
    Charges = {0, 36}
    Overshoot = 1
    Categories = 2
    Opening = {1}
    Sizes = {1, 2}
    Outputs <- MCOutputs
    Capped = TRUE
    MaxTransientAttempts = 2
    MaxReruns = 1
    MaxCycles = 2
    MaxLevel = 1
    MaxComposites = 1
INVARIANTS
    TypeOK
    NewestWin
    DiscoveriesAreDurable
    NodeSpendIsBounded
    RealSpendIsBounded
