SPECIFICATION FairSpec
CHECK_DEADLOCK FALSE
CONSTANTS
    t1 = t1
    t2 = t2
    Tools <- MCTools
    Method <- MCMethod
    MaxConns = 3
    MaxLong = 1
    MaxFaults = 2
INVARIANTS
    OwnAnswer
    RequestsInOrder
    RepeatedOnlyAfterLoss
    OneFaultHidden
PROPERTIES
    CallsReturn
