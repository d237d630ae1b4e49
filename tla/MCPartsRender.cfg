SPECIFICATION Spec
CONSTANTS
    Files <- MCFiles
    LoopTargets = {0, 2}
    Sizes <- MCSizes
    Seeks <- MCSeeks
    MaxPosition = 12
    Habits <- NoHabits
INVARIANTS
    PlaysTheParts
PROPERTIES
    RenderReturns
