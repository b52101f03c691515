SPECIFICATION FairSpec
CONSTANTS
    Files = {f1}
    InodePage <- MCInodePage
    Modes = {m1, m2}
    InitMode = m1
    NBlocks = 1
    RingSize = 3
    Ops = {"chmod", "truncate", "write", "unmount"}
    KillIn = {"mounted", "replaying", "destroying"}
INVARIANTS TypeOK RingIsQueue
PROPERTIES ReplayComplete LoopsEnd
CHECK_DEADLOCK FALSE
