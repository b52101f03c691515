CONSTANTS
    a = a
    b = b
    Names <- MCNames
    NInodes = 5
    NSlots = 8
    RingSize = 3
    MaxOps = 4
    MaxKills = 2
SPECIFICATION Spec
SYMMETRY NameSymmetry
INVARIANTS TypeOK CalmIsMap FilesAreDistinct CalmListing CreatedSurvives
CHECK_DEADLOCK FALSE
