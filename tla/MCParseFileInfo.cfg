SPECIFICATION Spec
CONSTANTS
    U32 <- MCU32
    PageSize <- MCPageSize
    DataSizes <- MCDataSizes
    Chunks <- MCChunks
    FmtFields <- MCFmtFields
INVARIANTS
    ReadsInFile
    ChunksWordAligned
PROPERTIES
    ScanMoves
    ScanEnds
    ImplementsContract
\* The function returns and the model ends with it.
CHECK_DEADLOCK FALSE
