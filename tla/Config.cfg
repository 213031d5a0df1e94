SPECIFICATION Spec
CONSTANTS
    IntSpan <- MCIntSpan
    LongSpan <- MCLongSpan
    Keys <- MCKeys
    Numbers <- MCNumbers
    MaxLines = 3
INVARIANTS
    ConfigTypeOK
    LastLineCounts
    OtherSettings
    HugeNumbers
\* The file is read once.
CHECK_DEADLOCK FALSE
