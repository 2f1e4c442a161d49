SPECIFICATION Spec
CONSTANTS
    s1 = s1
    s2 = s2
    s3 = s3
    l1 = l1
    l2 = l2
    l3 = l3
    NoLine = NoLine
    Source <- PerTcSource
    Line <- ThreeLines
    Sends <- Reads
    Tc = {0}
    tc <- OneTc
    SplitRPort = FALSE
    MSHRs = 1
    WriteBuffers = 2
    numTarget = 3
    Busy = {2}
    hitLatency = 2
    fillLatency = 3
INVARIANTS
    ScheduledOnce
