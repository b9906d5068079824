CONSTANTS
    Max = 13
    TryteMax = 4
    Bound = 64
    Longs <- MCLongs
    Trap = Trap

SPECIFICATION ScalarsSpec

INVARIANT TryteInRange

CHECK_DEADLOCK FALSE
