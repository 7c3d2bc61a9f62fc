SPECIFICATION FairFieldSpec
CONSTANTS
    modvalue = 4
    Value = {0, 1, 3, 4, 5}
    Step <- MCStep
    MaxItems = 2
    Failsafe = 10
INVARIANTS
    FieldExact
PROPERTIES
    Ends
CHECK_DEADLOCK FALSE
