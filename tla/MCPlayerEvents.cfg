SPECIFICATION Spec
CHECK_DEADLOCK FALSE
CONSTANTS
    a = a  b = b  r = r
    None = None
    Songs = {a, b, r}
    Duration <- MCDuration
    Remote = {r}
    Titled = {a, r}
    Tagged = {a, r}
    LongPlay = 2
    MinLength = 2
    RepeatWindow = 1
    MaxTime = 5
    OthersUntil = 1
INVARIANTS
    TypeOK
    TimerIsHeard
    HooksSeeTheirEvent
PROPERTIES
    PlaysAreCounted
