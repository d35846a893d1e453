SPECIFICATION Spec
CONSTANTS
    LastConnection = 1
    MaxConnections = 1
    MaxLines <- OneLine
    Polite = {1}
    commands <- FullTable
    DefaultPermissions <- SelectOnly
    Passwords <- Granting
INVARIANTS
    EveryCommandKnown
CHECK_DEADLOCK FALSE
