SPECIFICATION Spec
CONSTANTS
    Events = {0, 1}
    Queried = {0}
    a = a
    b = b
    c = c
    Modules <- MCModules
    Handles <- MCHandles
INVARIANT
    ReconnectHonoured
CHECK_DEADLOCK FALSE
