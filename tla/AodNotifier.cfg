SPECIFICATION Spec
CONSTANTS
    UintSpan = 16
    HeaderSize = 3
    MaxErrors = 2
    MaxEmptyReads = 2
    MaxQueued = 2
    Faults = {"poll", "device", "service"}
INVARIANTS
    TypeOK
    NeverShort
PROPERTIES
    ImplementsPolling
    FailedPollStops
    StopsForCause
    FollowsDisplay
    BrightnessRestored
