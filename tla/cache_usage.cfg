SPECIFICATION FairSpec
CONSTANTS
    p1 = p1
    p2 = p2
    n1 = n1
    n2 = n2
    Pods = {p1, p2}
    Nodes = {n1, n2}
    NoNode = NoNode
    Absent = Absent
    NoLists = NoLists
    Request <- MCRequest
    MaxChanges = 2
INVARIANTS
    TypeOK
    UsageMatchesScheduled
    UsageMatchesStore
PROPERTY
    CacheConverges
CHECK_DEADLOCK FALSE
