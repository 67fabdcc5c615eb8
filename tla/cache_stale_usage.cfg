SPECIFICATION Spec
CONSTANTS
    p1 = p1
    p2 = p2
    n1 = n1
    n2 = n2
    Pods = {p1}
    Nodes = {n1}
    NoNode = NoNode
    Absent = Absent
    NoLists = NoLists
    Request <- MCRequest
    MaxChanges = 2
INVARIANT
    UsageIsSum
CHECK_DEADLOCK FALSE
