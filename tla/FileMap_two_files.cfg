SPECIFICATION Spec
CONSTANTS
    NInodes = 3
    NInodeBits = 4
    NBlocks = 4
    Reserved = 1
    Direct = 1
    Ptrs = 2
    Values = {v1, v2}
    RingSize = 2
    Zero = Zero
    MaxIndex = 3
    MaxPages = 2
    MaxEntries = 5
SYMMETRY Symmetry
INVARIANTS TypeOK ReadsBack BlocksOwned
CHECK_DEADLOCK FALSE
