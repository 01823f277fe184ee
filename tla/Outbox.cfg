CONSTANTS
    r1 = r1
    r2 = r2
    Replicas = {r1, r2}
    Messages = {1, 2, 3}
    BatchSize = 2
    MaxFaults = 1
    Nobody = Nobody
SPECIFICATION FairSpec
INVARIANTS DuplicateNeedsFault FirstSendsInOrder
PROPERTIES DeliversAtLeastOnce OutboxProgresses
