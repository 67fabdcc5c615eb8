SPECIFICATION Spec
CONSTANTS
    n1 = n1
    n2 = n2
    web = web
    dns = dns
    agent = agent
    NoNode = NoNode
    Nodes = {n1}
    Pods = {dns}
    Class <- MCClass
    Stubborn = {}
    UtilLow <- LowUtil
    ApiFaults = FALSE
    Operators = FALSE
    Shortages = FALSE
    Crashes = FALSE
PROPERTY
    CriticalPodsStay
