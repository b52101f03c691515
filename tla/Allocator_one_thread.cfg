SPECIFICATION FairSpec
CONSTANTS
    Threads = {t1}
    NBlocks = 6
    Reserved = 2
    WordBits = 2
    PageBits = 4
    Modulus = 8
INVARIANTS TypeOK HandedOutMarked OnlyKillsLeak
PROPERTIES NoDoubleAllocation FailsOnlyWhenFull CallsReturn
