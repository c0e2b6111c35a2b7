CONSTANTS
    Coro = {c1, c2, c3}
    None = None
    Stack = {k1}
    NSlots = 2
    Depth = 2
    Limit = 1
    Ranked = {c1}
    Realloc = {TRUE}
    Thread = {t1, t2}
    x1 = x1
    x2 = x2
    Ctx = {bg, x1, x2}
    Background = bg
    Timed = {x1}
    Does <- Roles
    Under <- Parents
    Runner = t1
    NULL = NULL
    Key = {key1, key2}
    Value = {v1, v2, v3}
    NoValue = NoValue
    MaxScheds = 2
    MaxNest = 2
SYMMETRY Symmetric
SPECIFICATION MCSpec
CHECK_DEADLOCK FALSE
INVARIANTS
    PlacesAgree
    StackIntact
    ReferencesHold
    CancelReachesOnce
    NoDeadlock
    ClsOwnsValues
    SignalsAreSafe
    PendingIsOwn
PROPERTIES
    QueryIsCurrent
