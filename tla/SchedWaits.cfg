CONSTANTS
    c1 = c1
    c2 = c2
    c3 = c3
    Coro = {c1, c2, c3}
    None = None
    AgingThreshold = 1
    AgingInterval = 3
    MaxSleep = 1
    MaxTimers = 1
    MainOps = {"create", "run", "cancel", "destroy", "sched_destroy"}
    CoroOps = {"yield", "exit", "join", "sleep", "read", "cancel", "overflow"}
    CancelSleeping = FALSE
SYMMETRY Symmetric
SPECIFICATION Spec
INVARIANTS
    CountsTheLiving
    WaitersAreReachable
PROPERTIES
    RunReturnsWhenDone
