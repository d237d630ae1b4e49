SPECIFICATION Spec
CONSTANTS
    Files <- MCFiles
    Configs <- MCConfigs
    MaxBuf = 3
    Seeks <- MCSeeks
    MaxPosition = 10
    MaxLoops = 5
    Habits <- NoHabits
INVARIANTS
    PlayerInv
    PlaysToTheEnd
    LoopOffOnlyInOutro
PROPERTIES
    KeepsPromise
    CallsReturn
