SPECIFICATION FairSpec
CHECK_DEADLOCK FALSE
CONSTANTS
    s1 = s1  s2 = s2  s3 = s3  u1 = u1  u2 = u2  a1 = a1  a2 = a2  b = b  g = g
    d = d  t1 = t1  t2 = t2  x = x  y = y
    None = None
    Songs = {s1, s2, s3}
    Tags = {x, y}
    UriOf <- MCUriOf
    ArtistTagOf <- MCArtistTagOf
    ArtistOf <- MCArtistOf
    AlbumOf <- MCAlbumOf
    GenreOf <- MCGenreOf
    Daemon = d
    Tools = {t1, t2}
    Programs <- MCPrograms
    Library <- MCLibrary
    Playing = {s3}
    Hearings <- MCHearings
    Asks <- MCAsks
    Commands <- MCCommands
    InitialFiles <- MCInitialFiles
    MaxPlays = 1
    MaxStarts = 1
    MaxMishaps = 1
INVARIANTS
    TypeOK
    VersionMeansSchema
    UnusableOnlyAfterMishap
    CountsAddUp
    OnlyWalrusesDeadlock
    CurrentIsFound
    AnswersAreUnderstood
PROPERTIES
    TagsGoAsAsked
    PlaysEnd
