SPECIFICATION FairSpec
CONSTANTS
    n1 = n1
    n2 = n2
    web = web
    dns = dns
    agent = agent
    NoNode = NoNode
    Nodes = {n1, n2}
    Pods = {web}
    Class <- MCClass
    Stubborn = {web}
    UtilLow <- LowUtil
    ApiFaults = FALSE
    Operators = FALSE
    Shortages = TRUE
    Crashes = FALSE
PROPERTIES
    RemovalEnds
    IdleNodeTakenOut
    DeletedNodeTerminated
