CONSTANTS
    MaxCoro = 1
    None = None
    Main = Main
    Outside = Outside
    MaxWorkers = 1
    LOCAL_RUNQ_MAX = 4
    MinLoad = 1
    Spread = 1
    Worlds <- WokenFromOutside
    Stack = {s1, s2, s3}
    NoStack = NoStack
    PoolThread = {1, 2}
    Pool = {1, 2}
    Classes <- TwoClasses
    CLASS_LIMIT = 1
    Requests = {1, 4, 5}
    c1 = c1
    c2 = c2
    g1 = g1
    g2 = g2
    g3 = g3
    t1 = t1
    t2 = t2
    t3 = t3
    Null = Null
    ChanMt = {c1, c2}
    CoroMt = {g1, g2, g3}
    ThreadMt = {t1, t2, t3}
    Bits = 2
    MaxRetry = 2
    Uses <- Programs
SPECIFICATION MCSpec
INVARIANT
    NobodySleepsOnWork
