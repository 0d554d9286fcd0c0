SPECIFICATION Spec
CONSTANTS
    ParsedInfos <- MCParsedInfos
    PageSize <- MCPageSize
    Tails <- MCTails
INVARIANT ParsedIsCopied
CHECK_DEADLOCK FALSE
