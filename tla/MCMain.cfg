SPECIFICATION Spec
CONSTANTS
    Args <- MCArgs
    Paths <- MCPaths
    PathMax <- MCPathMax
    GlobalSize <- MCGlobalSize
    TempSize <- MCTempSize
    MaxEntries <- MCMaxEntries
INVARIANTS
    LostPaths
    AbortsBeforePath
    TempHolds
    EachFileIsCounted
    TrapsForRoom
PROPERTIES
    MainEnds
\* main ends, one way or the other.
CHECK_DEADLOCK FALSE
