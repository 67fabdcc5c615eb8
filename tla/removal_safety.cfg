SPECIFICATION Spec
CONSTANTS
    n1 = n1
    n2 = n2
    web = web
    dns = dns
    agent = agent
    NoNode = NoNode
    Nodes = {n1, n2}
    Pods = {web, agent}
    Class <- MCClass
    Stubborn = {web}
    UtilLow <- AnyUtil
    ApiFaults = TRUE
    Operators = TRUE
    Shortages = FALSE
    Crashes = TRUE
INVARIANTS
    TypeOK
    DrainVerified
    OnlyRacedWorkloadEvicted
PROPERTY
    ImplementsSafeRemoval
