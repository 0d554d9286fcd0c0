SPECIFICATION Spec
CONSTANTS
    U64 <- MCU64
    PageSize <- MCPageSize
    Starts <- MCStarts
    Alignments <- MCAlignments
    Sizes <- MCSizes
    MaxBlocks <- MCMaxBlocks
INVARIANTS
    BlocksInArena
    OverlapsOnlyStricter
    BlockHoldsRequest
\* A failed assertion ends the process.
CHECK_DEADLOCK FALSE
