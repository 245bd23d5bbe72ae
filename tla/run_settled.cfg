SPECIFICATION Spec
CONSTANTS
    a = a
    b = b
    Term = Term
    Comps = {a}
    MaxLevel = 4
    MaxTransientAttempts = 1
    MaxReruns = 0
    UseComposites = TRUE
    ChildSpecs <- PlainSpecs
    Costs = {0}
    Total = 20
    MinNode = 2
INVARIANTS
    RunIsSettled
