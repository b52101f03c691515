SPECIFICATION Spec
CONSTANTS
    Files = {f1, f2}
    InodePage <- MCInodePage
    Modes = {m1, m2}
    InitMode = m1
    NBlocks = 2
    RingSize = 2
    Ops = {"chmod", "truncate"}
    KillIn = {"mounted", "replaying"}
PROPERTIES ModeRecovered
CHECK_DEADLOCK FALSE
