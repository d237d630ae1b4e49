SPECIFICATION Spec
CONSTANTS
    Files <- MCFiles
    Configs <- MCConfigs
    MaxBuf = 4
    MaxPlayed = 11
INVARIANTS
    FlatInv
    PlaysTimeline
    SilenceOnlyWhenOver
PROPERTIES
    RenderReturns
