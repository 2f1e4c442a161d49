SPECIFICATION Spec
CONSTANTS
    s1 = s1
    s2 = s2
    s3 = s3
    l1 = l1
    l2 = l2
    l3 = l3
    NoLine = NoLine
    Source <- PerTcSource
    Line <- MCLine
    Sends <- PerTc
    Tc = {0, 1}
    tc <- TwoTc
    SplitRPort = TRUE
    MSHRs = 2
    WriteBuffers = 1
    numTarget = 3
    Busy = {2}
    hitLatency = 2
    fillLatency = 3
INVARIANTS
    NoAssertionFails
