SPECIFICATION Spec
CONSTANTS
    p0 = p0
    q0 = q0
    p1 = p1
    Port <- MCPort
    tidOf <- MCTid
    num_pids = 2
    tl = 2
    headerCycles = 1
    DataCycles <- MCData
    Layers = {"request"}
INVARIANTS
    RetryListNotEmpty
CHECK_DEADLOCK FALSE
