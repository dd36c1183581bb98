SPECIFICATION FairSpec
CONSTANTS
    Appenders = {a1, a2}
    Extractions <- MCExtractions
    BATCH_SIZE = 2
    MaxEvents = 3
    MaxRestarts = 1
    MaxFaults = 1
    MaxMemories = 6
INVARIANTS
    TypeOK
    AccountedFor
    ReplayOnlyLast
    LagClearedWhenIdle
PROPERTIES
    QueueDrains
    ImplementsEventLog
CHECK_DEADLOCK FALSE
