SPECIFICATION FairSpec
CONSTANTS
    N = 3
    NumRows = 4
    Limit = 1
    Dropped = {1}
    Bad = {3}
    Panics = {1, 2}
    OpenFails = TRUE
    ClientLeaves = TRUE
    ContextEnds = TRUE
CONSTANT Kinds <- AllKinds
INVARIANTS NoSendOnClosed ResultComplete
PROPERTY ExecuteEnds
CHECK_DEADLOCK FALSE
