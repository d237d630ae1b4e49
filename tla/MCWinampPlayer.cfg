SPECIFICATION Spec
CONSTANTS
    Songs <- MCSongs
    INTERNAL_BUF_SAMPLES = 2
    Capacity = 2
    Seeks <- MCSeeks
    MaxSeeks = 2
INVARIANTS
    SeeksAreTaken
    ShowsWhatIsHeard
    SongIsHeardOut
    PlayerInv
PROPERTIES
    StopEnds
    SongEnds
