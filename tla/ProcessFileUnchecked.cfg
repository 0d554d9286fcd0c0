SPECIFICATION Spec
CONSTANTS
    MaxCalls <- MCMaxCalls
    FileSizes <- MCFileSizes
    PageSize <- MCPageSize
    ParsedInfos <- MCParsedInfos
INVARIANT StagesAreChecked
CHECK_DEADLOCK FALSE
