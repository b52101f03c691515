SPECIFICATION FairSpec
CONSTANTS
    Blocks = {0, 1, 2}
    Inodes = {0, 5}
    DataPages = {d1}
    MetaPages = {}
    NoPage = NoPage
    CacheSize = 2
    HashSize = 1
    Pinnable = {0}
    MaxPin = 1
    MaxGdl = 3
INVARIANTS TypeOK GdlNamesPages FsyncCovers
PROPERTIES FsyncDurable PinnedStays CallReturns UnmountEnds
