CONSTANTS
    r1 = r1
    r2 = r2
    Replicas = {r1}
    Messages = {1}
    Unhandled = {}
    BatchSize = 1
    MaxProcessed = 1
    MaxFaults = 1
    Nobody = Nobody
SPECIFICATION FairSpec
PROPERTIES ShutdownCompletes
CHECK_DEADLOCK FALSE
