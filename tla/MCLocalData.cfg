SPECIFICATION Spec
CONSTANTS
    Name = {f, g}
    Content = {c1, c2}
    None = None
    NoHash = NoHash
    MaxInt = 3
    RowLimit = 3
    CleanupRows = 1
    MaxUser = 2
    MaxCmds = 2
SYMMETRY MCSymmetry
INVARIANTS HashSound RowsBounded MergeKeeps
PROPERTIES OnlyOursRemoved CheckoutRestores
CHECK_DEADLOCK FALSE
