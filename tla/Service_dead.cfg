SPECIFICATION Spec
CONSTANTS
    Components = {"AodNotifier"}
    Timeout = 1
    MaxRestarts = 1
    Users = {"main", "onMain", "onMonitor"}
    Monitor = "monitor"
    Nobody = "nobody"
    AutoRecovery = FALSE
    MaxObjects = 1
    MaxSignals = 0
PROPERTY DeadPollerNoticed
\* main() ends.
CHECK_DEADLOCK FALSE
