CONSTANTS
    r1 = r1
    r2 = r2
    Replicas = {r1, r2}
    Messages = {1}
    Unhandled = {}
    BatchSize = 1
    MaxProcessed = 1
    MaxFaults = 1
    Nobody = Nobody
SPECIFICATION FairSpec
PROPERTIES DrainsUnlessWedged
CHECK_DEADLOCK FALSE
