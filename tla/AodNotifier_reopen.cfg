SPECIFICATION Spec
CONSTANTS
    UintSpan = 16
    HeaderSize = 3
    MaxErrors = 2
    MaxEmptyReads = 2
    MaxQueued = 1
    Faults = {"device"}
PROPERTY ReopenHeals
