CONSTANTS
    c1 = c1
    c2 = c2
    c3 = c3
    Coro = {c1, c2}
    None = None
    AgingThreshold = 1
    AgingInterval = 2
    MaxSleep = 1
    MaxTimers = 1
    MainOps = {"create", "run"}
    CoroOps = {"yield", "exit", "sleep", "cancel"}
    CancelSleeping = TRUE
SPECIFICATION Spec
PROPERTY DeadIsFinal
CHECK_DEADLOCK FALSE
