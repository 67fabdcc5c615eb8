SPECIFICATION Spec
CONSTANTS
    n1 = n1
    n2 = n2
    n3 = n3
    n4 = n4
    r1 = r1
    r2 = r2
    None = None
    Names = {n1, n2, n3}
    AtStart = {}
    Routines = {r1, r2}
    MinNodes = 1
    MaxNodes = 1
    MaxWaiting = 2
    MaxFailures = 1
    MaxLeftovers = 2
    RemovalFaults = TRUE
    RepliesLost = TRUE
    Prompt = TRUE
    Crashes = TRUE
SYMMETRY Fresh
INVARIANTS
    TypeOK
    InFlightAccounted
    NodesWithinMax
