SPECIFICATION HealthSpec
CONSTANTS
    Components = {aod, nonui}
    Timeout = 1
    MaxRestarts = 2
    Users = {main, handler}
    Monitor = Monitor
    Nobody = Nobody
INVARIANTS
    HealthTypeOK
    RestartBudget
    EveryFailureTried
PROPERTY SilentGivenUp
