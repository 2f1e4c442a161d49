SPECIFICATION Spec
CONSTANTS
    CL = 3
    BL = 4
    tRCD = 3
    tRP = 2
    tRC = 7
    tRRD = 1
    tCCD = 2
    tRTP = 2
    tWTR = 1
    tWR = 2
    tRTRS = 1
    tRFC = 6
    tFAW = 8
    REFRESH_PERIOD = 96
    NUM_RANKS = 2
    NUM_BANKS = 2
    num_pids = 2
    tlength = 32
    offset = 0
    IntRange = 1073741824
    LongRange = 1073741824
    Addr <- MCAddr
    CMD_QUEUE_DEPTH = 3
    TRANS_QUEUE_DEPTH = 1
    Hyper = 192
    Observed = 0
    Transactions <- MCTransactions
INVARIANTS
    TypeOK
    CommandsAreLegal
    OneBurst
    ServedAsIfAlone
    RowsClosedAtTurn
    NoRefreshLost
    NoReadLost
PROPERTIES
    Served
