SPECIFICATION MtSpec
CONSTANTS
    c1 = c1
    c2 = c2
    g1 = g1
    g2 = g2
    g3 = g3
    t1 = t1
    t2 = t2
    t3 = t3
    Null = Null
    ChanMt = {c1, c2}
    CoroMt = {g1, g2, g3}
    ThreadMt = {t1, t2, t3}
    Bits = 2
    MaxRetry = 2
    Uses <- FastPath
INVARIANT TakenOnceInOrder
CHECK_DEADLOCK FALSE
