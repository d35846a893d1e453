SPECIFICATION FairSpec
CONSTANTS
    Events = {0, 1}
    Queried = {0}
    a = a
    b = b
    c = c
    Modules <- MCModules
    Handles <- MCHandles
INVARIANTS
    TypeOK
    OneSource
    OtherAssertsHold
    UnloadedStaysOut
    EveryHandlerOnce
    RerunsBounded
PROPERTIES
    ConnectionComesBack
    ChangeIsRun
    NowMeansNow
CHECK_DEADLOCK FALSE
