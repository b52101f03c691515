SPECIFICATION Spec
CONSTANTS
    MaxKeys = 4
    Keys = {1, 2, 3, 4, 5}
    Values = {7}
    NBlocks = 9
    MaxHeld = 5
INVARIANTS TypeOK SmallDirectoryIsMap BlocksAreLinked NeverRebalances
CHECK_DEADLOCK FALSE
