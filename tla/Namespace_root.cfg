CONSTANTS
    a = a
    b = b
    Names <- MCNames
    NInodes = 4
    NSlots = 4
    RingSize = 2
    MaxOps = 4
    MaxKills = 0
SPECIFICATION Spec
INVARIANT RootKept
CHECK_DEADLOCK FALSE
