CONSTANTS
    c1 = c1
    c2 = c2
    c3 = c3
    h1 = h1
    h2 = h2
    Coro = {c1, c2, c3}
    Chan = {h1, h2}
    None = None
    Capacity <- OneSlot
    MaxValues = 4
    MaxBatch = 2
    SelectCases <- Selects
    Uses <- Programs
SYMMETRY Symmetric
SPECIFICATION Spec
CHECK_DEADLOCK FALSE
INVARIANTS
    DeliveredOnce
    QueuedXorReady
    NobodyWaitsInVain
    RefcountExact
    SelectCommitsOnce
PROPERTIES
    ImplementsFifo
