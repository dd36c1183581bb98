SPECIFICATION Spec
CONSTANTS
    Appenders = {a1, a2}
    Extractions <- MCPlain
    BATCH_SIZE = 2
    MaxEvents = 3
    MaxRestarts = 0
    MaxFaults = 0
    MaxMemories = 6
INVARIANT
    AtLeastOnce
CHECK_DEADLOCK FALSE
