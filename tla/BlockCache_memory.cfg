SPECIFICATION Spec
CONSTANTS
    Blocks = {0, 1}
    Inodes = {0, 5}
    DataPages = {d1}
    MetaPages = {}
    NoPage = NoPage
    CacheSize = 1
    HashSize = 1
    Pinnable = {}
    MaxPin = 1
    MaxGdl = 5
INVARIANTS NoMemoryFault
