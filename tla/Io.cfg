CONSTANTS
    Coro = {c1, c2}
    None = None
    NFd = 3
    Shared = {}
    Capacity0 = 1
    MaxLeft = 2
    Opens = {TRUE}
    Info = {i1, i2}
    HangUps = {{"read", "write", "HUP"}}
    Sleeper = {s1}
    Owner = {o1}
    Pool = {p1}
    Heap = {h1}
    Nobody = Nobody
    Size <- SmallWheel
    Word = 96
    Delays = {2, 13, 25}
    Lags = {1, 4}
    Rings <- PassingRings
    MaxItems = 2
    MaxPool = 4
    Moves = {FALSE}
SYMMETRY Symmetric
SPECIFICATION MCSpec
CHECK_DEADLOCK FALSE
INVARIANTS
    WaitersAreArmed
    
    PollerKeepsAll
    CompletionsAreOwn
    NobodyIsLost
    TimersKept
PROPERTIES
    Level1OnTime
