SPECIFICATION Spec
CONSTANTS
    SongA = SongA
    SongB = SongB
    NoSong = NoSong
    Half = Half
    Defaults = Defaults
    DefaultCfg = Defaults
    Songs <- MCSongs
    Cfgs <- MCCfgs
    Length <- MCLength
    Duration <- MCDuration
    INTERNAL_BUF_SAMPLES = 2
    FillSizes <- MCFillSizes
    Seeks <- MCSeeks
    Habits <- NoHabits
INVARIANTS
    DeliversInOrder
    DoneAtEndOnly
    ConfigIsTheOneAsked
    PositionIsKnown
    HandleInv
PROPERTIES
    FillReturns
