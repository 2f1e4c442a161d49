SPECIFICATION Spec
CONSTANTS
    t1 = t1
    t2 = t2
    t3 = t3
    t4 = t4
    t5 = t5
    NoTag = NoTag
    Tag <- MCTag
    assoc = 3
    L_init = 1
    H_min = 1
    Sets <- TwoSets
    miss_curve <- MCCurve
    PastTheEnd <- MCPastTheEnd
    MaxAccess = 4
SYMMETRY SymmTag
INVARIANTS
    TypeOK
    ShadowIsInclusive
    CountersPredictHits
PROPERTIES
    ResizesPayOff
