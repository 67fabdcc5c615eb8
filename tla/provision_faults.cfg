SPECIFICATION FairSpec
CONSTANTS
    n1 = n1
    n2 = n2
    Names = {n1, n2}
    NoName = NoName
    Crashes = TRUE
INVARIANTS
    TypeOK
    FailureLeaves
    GhostsFromFailedJoin
    FailedNodesUnmanaged
    UnmanagedNodesLogged
PROPERTIES
    CreateNodeReturns
    ImplementsNodeCreation
CHECK_DEADLOCK FALSE
