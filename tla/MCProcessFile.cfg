SPECIFICATION Spec
CONSTANTS
    MaxCalls <- MCMaxCalls
    FileSizes <- MCFileSizes
    PageSize <- MCPageSize
    ParsedInfos <- MCParsedInfos
INVARIANTS
    FileReleased
    ReturnsOnlyByReport
    StopExplained
PROPERTIES
    ReportsParsedFiles
    CallsEnd
    ImplementsCalls
\* The paths are used up, or the process has stopped.
CHECK_DEADLOCK FALSE
