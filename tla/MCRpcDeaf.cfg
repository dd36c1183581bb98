SPECIFICATION FairSpec
CONSTANTS
    t1 = t1
    t2 = t2
    Tools <- MCTools
    Method <- MCMethod
    MaxConns = 3
    MaxLong = 1
    MaxFaults = 0
PROPERTIES
    CallsAlwaysReturn
CHECK_DEADLOCK FALSE
