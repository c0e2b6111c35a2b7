CONSTANTS
    c1 = c1
    c2 = c2
    c3 = c3
    Coro = {c1, c2, c3}
    None = None
    AgingThreshold = 1
    AgingInterval = 1
    MaxSleep = 0
    MaxTimers = 0
    MainOps = {"create", "run", "set_priority"}
    CoroOps = {"yield", "exit", "join"}
    CancelSleeping = FALSE
SPECIFICATION FairSpec
PROPERTIES
    NoStarvation
    JoinReturns
CHECK_DEADLOCK FALSE
