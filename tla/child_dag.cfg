SPECIFICATION ChildSpec
CONSTANTS
    Width = 2
    Ids = {0, 1, 2, 3, 4, 5}
    MaxCopies = 2
    MaxComposites = 3
    MaxUnjustified = 2
INVARIANTS
    ChildTypeOK
    LinearExtension
    SortFailsOnlyOnCycle
    OrderIsTheRows
    StandardOrder
    DuplicateIsLate
