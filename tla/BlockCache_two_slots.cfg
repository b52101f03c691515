SPECIFICATION Spec
CONSTANTS
    Blocks = {0, 1, 2}
    Inodes = {5}
    DataPages = {d1}
    MetaPages = {m1}
    NoPage = NoPage
    CacheSize = 2
    HashSize = 1
    Pinnable = {}
    MaxPin = 1
    MaxGdl = 4
INVARIANTS SlotsAccounted IndexConsistent DirtyTracked
PROPERTIES ImplementsStore
