SPECIFICATION Spec
CONSTANTS
    Callers = {main, monitor, handler}
    Nobody = Nobody
INVARIANTS
    TypeOK
    NeverTerminated
    InactiveIsQuiet
    BeliefIsTrue
    GoneIsQuiet
PROPERTIES
    LockReleased
    ImplementsContract
