SPECIFICATION FairSpec
CONSTANTS
    Count = 2
    MaxPlays = 2
INVARIANTS
    TypeOK
    InOrder
    NoPlayLost
PROPERTIES
    SavedSurvives
    SoonOnDisk
