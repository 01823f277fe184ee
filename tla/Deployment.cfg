\* All four programs, from start to exit.  A process that has exited stops.
SPECIFICATION SystemSpec
CONSTANTS
    p0 = p0
    q1 = q1
    Processes = {p0, q1}
    Observed = p0
    CallsOf <- CallsOfOthers
    Sources <- SourcesOfAll
    MaxRequests = 2
    MaxFaults = 2
    Nobody = Nobody
    None = None
INVARIANTS AppliedOnceInOrder ReadyWhenRunning ExitIsOrderly
PROPERTIES OnlyFaultsEndAStart EveryStartEnds StopStops
CHECK_DEADLOCK FALSE
