SPECIFICATION Spec
CONSTANTS
    n1 = n1
    n2 = n2
    n3 = n3
    n4 = n4
    r1 = r1
    r2 = r2
    None = None
    Names = {n1, n2, n3}
    AtStart = {}
    Routines = {r1}
    MinNodes = 1
    MaxNodes = 3
    MaxWaiting = 1
    MaxFailures = 2
    MaxLeftovers = 1
    RemovalFaults = FALSE
    RepliesLost = FALSE
    Prompt = TRUE
    Crashes = FALSE
PROPERTY
    NoDuplicateProvisioning
