SPECIFICATION Spec
CONSTANTS
    Chars <- MCChars
    Nul = "nul"
    TrimChars = {" "}
    Capacity <- MCCapacity
    Alignment <- MCAlignment
    Contents <- MCContents
    CStrings <- MCCStrings
    Lengths <- MCLengths
    Cuts <- MCCuts
    MaxStrs <- MCMaxStrs
INVARIANTS
    ViewsInBlock
PROPERTIES
    OneBlockWritten
    AppendsBehind
    CopiesAreEqual
    TrimIsTight
    CstrReadsText
\* A failed assertion ends the process.
CHECK_DEADLOCK FALSE
