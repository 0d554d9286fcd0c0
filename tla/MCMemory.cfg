SPECIFICATION Spec
CONSTANTS
    PageSize <- MCPageSize
    LastPage <- MCLastPage
    SampleSize <- MCSampleSize
    Sizes <- MCSizes
    MaxMappings <- MCMaxMappings
INVARIANTS
    LiveMappingsWhole
    LeftBehind
    ArenasDroppedOnly
\* A failed assertion ends the process.
CHECK_DEADLOCK FALSE
