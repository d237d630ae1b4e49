SPECIFICATION Spec
CONSTANTS
    Readers <- CacheReader
    FileSizes <- MCFileSizes
    BufSizes <- MCBufSizes
    Offsets <- MCOffsets
    MaxLength = 6
INVARIANT
    CopiesWhatWasAsked
