SPECIFICATION Spec
CONSTANTS
    Files <- RightFiles
    Sizes <- MCSizes
    CallSamples = 3
    MaxEmpty = 3
    Rewound <- AllButAac
    Jumped <- KeepNoDiscard
INVARIANTS
    FrameInv
    PlaysTheStream
PROPERTIES
    RenderReturns
