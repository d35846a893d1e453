SPECIFICATION Spec
CONSTANTS
    Songs = {s1, s2}
    Untitled = {u1}
    NoSong = NoSong
    MaxSubmit = 2
    MaxPlays = 3
    MaxJournal = 3
CHECK_DEADLOCK FALSE
INVARIANTS
    AssertionsHold
