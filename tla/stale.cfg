SPECIFICATION Spec
CONSTANTS
    lo1 = lo1
    lo2 = lo2
    hi1 = hi1
    hi2 = hi2
    w1 = w1
    w2 = w2
    w3 = w3
    NoTag = NoTag
    Way <- MCWay
    assoc = 3
    L_init = 1
    H_min = 1
    Addr <- MCAddrHigh
    LowAddr <- MCLow1
    Sets <- OneSet
    extractSet <- InOneSet
    MaxVer = 1
SYMMETRY SymmHigh
INVARIANTS
    ReadsReturnExpected
CHECK_DEADLOCK FALSE
