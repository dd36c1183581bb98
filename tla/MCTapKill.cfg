SPECIFICATION Spec
CONSTANTS
    Files = {session1, session2}
    Codex = {}
    Kinds = {"turn", "other"}
    Inodes = {1, 2}
    BATCH = 2
    REDISCOVER = 2
    MaxLines = 3
    MaxReplaced = 0
    MaxStarts = 2
    MaxFaults = 0
INVARIANT
    AtLeastOnceDelivery
CHECK_DEADLOCK FALSE
