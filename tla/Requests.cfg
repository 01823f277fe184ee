\* Servers without and with error mappings.
SPECIFICATION Spec
CONSTANTS
    Mappings <- NoneOrTwo
    MaxFaults = 2
INVARIANTS
    FailureIsTold
    NotFoundIsTrue
    RecordedIsSent
CHECK_DEADLOCK FALSE
