SPECIFICATION FairSpec
CONSTANTS
    Files = {rollout}
    Codex = {rollout}
    Kinds = {"turn", "oversize", "garbled", "partial"}
    Inodes = {1, 2}
    BATCH = 2
    REDISCOVER = 2
    MaxLines = 4
    MaxReplaced = 1
    MaxStarts = 2
    MaxFaults = 1
INVARIANTS
    TypeOK
    NothingSkipped
    OnceUnlessReplaced
    OwnSession
PROPERTIES
    TurnArrives
CHECK_DEADLOCK FALSE
