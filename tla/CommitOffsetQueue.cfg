CONSTANTS
    MaxOffset = 5
    Unhandled = {2}
    MaxSize = 3
    MaxFaults = 2
SPECIFICATION FairQueueSpec
INVARIANTS CommittedIsHandled
PROPERTIES CommitsForward EverythingIsCommitted
CHECK_DEADLOCK FALSE
