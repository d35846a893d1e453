SPECIFICATION Spec
CONSTANTS
    Count = 1
    MaxPlays = 1
PROPERTY
    SavedIsUnsubmitted
