SPECIFICATION Spec
CONSTANTS
    Components = {"AodNotifier"}
    Timeout = 1
    MaxRestarts = 1
    Users = {"main", "onMain", "onMonitor"}
    Monitor = "monitor"
    Nobody = "nobody"
    AutoRecovery = TRUE
    MaxObjects = 2
    MaxSignals = 0
PROPERTY RecoveryCompletes
\* main() ends.
CHECK_DEADLOCK FALSE
