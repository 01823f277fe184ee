CONSTANTS
    r1 = r1
    r2 = r2
    Replicas = {r1, r2}
    Messages = {1, 2}
    Unhandled = {2}
    BatchSize = 2
    MaxProcessed = 2
    MaxFaults = 1
    Nobody = Nobody
SYMMETRY ReplicaSymmetry
SPECIFICATION Spec
INVARIANTS SoleConsumer RedeliveryNeedsFault TokensConserved OneCopyPerReplica
PROPERTIES DeliversAtLeastOnce
CHECK_DEADLOCK FALSE
