SPECIFICATION FairSpec
CONSTANTS
    Songs = {s1, s2}
    Untitled = {}
    NoSong = NoSong
    MaxSubmit = 2
    MaxPlays = 3
    MaxJournal = 3
CHECK_DEADLOCK FALSE
INVARIANTS
    TypeOK
    OneThingUnderWay
    NoLostWakeup
    PendingIsPosted
    IdleIsHealthy
    AssertionsHold
PROPERTIES
    DeliverySpec
    EveryPlayScrobbled
