SPECIFICATION Spec
CONSTANTS
    MaxKeys = 4
    Keys = {1, 2, 3, 4, 5, 6}
    Values = {7}
    NBlocks = 10
    MaxHeld = 6
INVARIANTS TreeIsMap
CHECK_DEADLOCK FALSE
