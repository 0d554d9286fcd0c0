SPECIFICATION LevelSpec
CONSTANTS
    ParsedInfos <- MCParsedInfos
    PageSize <- MCPageSize
    Tails <- MCTails
    Byte <- MCByte
    Threshold <- MCThreshold
    FloatThreshold <- MCFloatThreshold
    LargestF32 <- MCLargestF32
    SmallestF32 <- MCSmallestF32
    Infinity <- MCInfinity
    NaN = NaN
    IntSamples <- MCIntSamples
    FloatSamples <- MCFloatSamples
INVARIANTS
    ScaledExactly
    LoudestReported
    NumbersReported
\* The process goes on to the next file, or has stopped.
CHECK_DEADLOCK FALSE
