SPECIFICATION Spec
CONSTANTS
    ParsedInfos <- MCParsedInfos
    PageSize <- MCPageSize
    Tails <- MCTails
INVARIANTS
    WritesInBounds
    PlanarLayout
    LevelCoversFile
    ReadAsWritten
PROPERTIES
    Ends
    ImplementsContract
\* The process goes on to the next file, or has stopped.
CHECK_DEADLOCK FALSE
