CONSTANTS
    g1 = g1
    g2 = g2
    g3 = g3
    Groups = {g1, g2, g3}
    HandlersOf <- HandlersOfGroups
    MaxWorkers = 2
    MaxFailures = 1
    NoError = NoError
SPECIFICATION FairSpec
INVARIANTS PoolLimit AckNeedsWholeRound
PROPERTIES EveryMessageEnds
CHECK_DEADLOCK FALSE
