SPECIFICATION Spec
CONSTANTS
    Args <- MCArgs
    Paths <- MCPaths
    PathMax <- MCPathMax
    GlobalSize <- MCGlobalSize
    TempSize <- MCTempSize
    MaxEntries <- MCMaxEntries
INVARIANT PathsAreValid
CHECK_DEADLOCK FALSE
