CONSTANTS
    c1 = c1
    c2 = c2
    i1 = i1
    i2 = i2
    Callers = {c1, c2}
    Instances = {i1, i2}
    Workloads <- AllWorkloads
    MaxDepth = 3
    MaxTx = 3
    None = None
SPECIFICATION FairSpec
INVARIANTS AllOrNothing LockCoversTransaction CycleNeedsNesting
PROPERTIES CallsSucceed
CHECK_DEADLOCK FALSE
