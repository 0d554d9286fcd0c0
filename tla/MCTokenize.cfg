SPECIFICATION Spec
CONSTANTS
    MaxLength <- MCMaxLength
PROPERTIES
    ImplementsSplit
    TokensEnd
\* The caller stops when it is told that there are no more tokens.
CHECK_DEADLOCK FALSE
