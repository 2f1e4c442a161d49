SPECIFICATION Spec
CONSTANTS
    t1 = t1
    t2 = t2
    t3 = t3
    t4 = t4
    t5 = t5
    NoTag = NoTag
    Tag <- MCTag
    assoc = 4
    L_init = 1
    H_min = 1
    Sets <- OneSet
    miss_curve <- MCCurve
    PastTheEnd <- MCPastTheEnd
    MaxAccess = 5
PROPERTIES
    ShrinkingReducesMisses
