CONSTANTS
    Max = 13
    TryteMax = 4
    Bound = 64
    Longs <- MCLongs
    Trap = Trap

SPECIFICATION ScalarsSpec

INVARIANTS Sound AgreesWithCore OverflowVariants
PROPERTY PowerExact

CHECK_DEADLOCK FALSE
