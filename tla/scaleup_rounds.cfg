SPECIFICATION FairSpec
CONSTANTS
    old = old
    new1 = new1
    new2 = new2
    new3 = new3
    wide = wide
    tiny = tiny
    mini = mini
    vague = vague
    huge = huge
    odd = odd
    Pods = {wide, vague, tiny, mini, huge, odd}
    Names = {old, new1, new2, new3}
    AtStart = {old}
    ReadyAtStart = {old}
    Absent = Absent
    Waiting = Waiting
    Unsupported = {odd}
    NameOf <- MCNameOf
    SpecOf <- MCSpecOf
    NodeSelector <- MCNodeSelector
    Tolerations <- MCTolerations
    Labels <- MCLabels
    Taints <- MCTaints
    Capacity <- MCCapacity
    TemplateLabels <- MCTemplateLabels
    TemplateTaints = {}
    CPUThresholdMillicores = 500
    MemoryThreshold = 256
    NodeCPUCapacity = 2000
    NodeMemoryCapacity = 4096
    MaxNodes = 3
    MaxFailures = 1
INVARIANTS
    TypeOK
    NoNodeForNothing
    EstimateComplete
    BinsAccounted
    RecountWithinBins
    PlacedWhereSchedulable
    RoomIsSeen
    NodesWithinMax
PROPERTIES
    NodesForFeasiblePods
    ShortfallServed
CHECK_DEADLOCK FALSE
