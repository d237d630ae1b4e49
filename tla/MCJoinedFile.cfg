SPECIFICATION JoinedSpec
CONSTANTS
    ArchiveSize = 7
    Sections <- MCSections
    Offsets <- MCOffsets
    MaxLength = 6
    ReadsAtEnd = FALSE
INVARIANTS
    JoinedInv
    JoinsInOrder
    ReadsAllSegments
