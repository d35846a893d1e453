SPECIFICATION Spec
CONSTANTS
    LastConnection = 1
    MaxConnections = 1
    MaxLines <- OneLine
    Polite = {1}
    commands <- SmallTable
    DefaultPermissions <- SelectOnly
    Passwords <- Granting
INVARIANTS
    WritesSucceed
CHECK_DEADLOCK FALSE
