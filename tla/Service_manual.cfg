SPECIFICATION Spec
CONSTANTS
    Components = {"AodNotifier", "NonUiNotifier"}
    Timeout = 1
    MaxRestarts = 1
    Users = {"main", "onMain", "onMonitor"}
    Monitor = "monitor"
    Nobody = "nobody"
    AutoRecovery = FALSE
    MaxObjects = 1
    MaxSignals = 0
INVARIANTS
    NoDeadlock
    QuietExit
PROPERTY StopHonoured
\* main() ends.
CHECK_DEADLOCK FALSE
