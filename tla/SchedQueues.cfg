CONSTANTS
    c1 = c1
    c2 = c2
    c3 = c3
    Coro = {c1, c2, c3}
    None = None
    AgingThreshold = 2
    AgingInterval = 2
    MaxSleep = 0
    MaxTimers = 0
    MainOps = {"create", "run", "run_once", "sched_destroy"}
    CoroOps = {"create", "yield", "exit", "set_priority", "read"}
    CancelSleeping = FALSE
SYMMETRY Symmetric
SPECIFICATION Spec
INVARIANTS
    ReadyListsAgree
    NoNullDispatch
PROPERTIES
    ImplementsPriorityFifo
