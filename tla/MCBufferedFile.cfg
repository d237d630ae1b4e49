SPECIFICATION Spec
CONSTANTS
    Readers <- MCReaders
    FileSizes <- MCFileSizes
    BufSizes <- MCBufSizes
    Offsets <- MCOffsets
    MaxLength = 6
INVARIANTS
    FileInv
    CopiesWhatWasAsked
    ReadsAllThereIs
PROPERTIES
    ReadReturns
