SPECIFICATION FairSpec
CONSTANTS
    LastConnection = 3
    MaxConnections = 2
    MaxLines <- Talkative
    Polite = {1, 2}
    commands <- SmallTable
    DefaultPermissions <- SelectOnly
    Passwords <- Granting
INVARIANTS
    TypeOK
    EveryClientIsRead
    ChangesAreGranted
PROPERTIES
    GoneIsForgotten
    LinesAreHandled
CHECK_DEADLOCK FALSE
