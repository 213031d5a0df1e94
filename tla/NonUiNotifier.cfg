SPECIFICATION Spec
CONSTANTS
    Files = 2
    MaxErrors = 2
    Faults = {"poll", "service", "files", "err"}
INVARIANT NonUiTypeOK
PROPERTIES
    ImplementsPolling
    RightFilesDropped
    StopsForCause
    FollowsChanges
