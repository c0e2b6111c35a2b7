CONSTANTS
    Sleeper = {s1}
    Owner = {o1}
    Pool = {p1}
    Heap = {}
    Nobody = Nobody
    Size <- SmallWheel
    Word = 96
    Delays = {3, 5}
    Lags = {3}
SPECIFICATION Spec
PROPERTY NeverEarly
CHECK_DEADLOCK FALSE
