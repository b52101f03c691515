SPECIFICATION Spec
CONSTANTS
    Threads = {t1, t2}
    NBlocks = 6
    Reserved = 2
    WordBits = 2
    PageBits = 4
    Modulus = 8
PROPERTIES NoDoubleAllocation
