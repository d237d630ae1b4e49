SPECIFICATION Spec
CONSTANTS
    Files <- MCFiles
    LoopTargets = {0, 2}
    Sizes <- MCSizes
    MaxEmpty = 3
    MaxPlayed = 14
INVARIANTS
    PlaysTheFile
    FillsBuffers
PROPERTIES
    RenderReturns
