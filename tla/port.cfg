SPECIFICATION FairSpec
CONSTANTS
    s1 = s1
    s2 = s2
    s3 = s3
    l1 = l1
    l2 = l2
    l3 = l3
    NoLine = NoLine
    Source <- MCSource
    Line <- MCLine
    Sends <- Mixed
    Tc = {0}
    tc <- OneTc
    SplitRPort = FALSE
    MSHRs = 2
    WriteBuffers = 1
    numTarget = 3
    Busy = {2}
    hitLatency = 2
    fillLatency = 3
INVARIANTS
    TypeOK
    NoAssertionFails
    BlockedWhileFull
    RejectedIsRemembered
    AnswerIsRemembered
    TargetsInOrder
    WritesGetExclusive
PROPERTIES
    RequestsAnswered
