SPECIFICATION FairSpec
CHECK_DEADLOCK FALSE
CONSTANTS
    Daemons = {d1, d2}
    Stops = {p1}
    None = None
    MaxFaults = 1
INVARIANTS
    SoleDaemon
    SocketLeadsToServer
    PidFileNamesServer
PROPERTIES
    ShutdownObeyed
    CommandsReturn
