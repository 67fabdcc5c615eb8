SPECIFICATION Spec
CONSTANTS
    n1 = n1
    n2 = n2
    n3 = n3
    n4 = n4
    r1 = r1
    r2 = r2
    None = None
    Names = {n1}
    AtStart = {n1}
    Routines = {r1}
    MinNodes = 1
    MaxNodes = 2
    MaxWaiting = 1
    MaxFailures = 1
    MaxLeftovers = 0
    RemovalFaults = FALSE
    RepliesLost = FALSE
    Prompt = TRUE
    Crashes = FALSE
INVARIANT
    MinNodesKept
