SPECIFICATION Spec
CONSTANTS
    Length = 3
    Capacity = 4
    MaxCalls = 5
INVARIANT
    EndOfFileIsNoFailure
CHECK_DEADLOCK FALSE
