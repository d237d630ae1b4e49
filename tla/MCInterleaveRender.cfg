SPECIFICATION Spec
CONSTANTS
    Files <- MCFiles
    LoopTargets = {0, 2}
    Sizes <- MCSizes
    Pads <- NoPads
    MaxPlayed = 14
INVARIANTS
    InterleaveInv
    PlaysTheFile
PROPERTIES
    CallsStayInFrame
    RenderReturns
