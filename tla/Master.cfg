SPECIFICATION FairPartsSpec
CONSTANTS
    N = 2
    MaxProcs = 16
    MaxSignals = 3
    MaxCrashes = 1
    None = None
    Kinds = {"ping", "close"}   \* a ping becomes a pong, which is passed on like data
    MaxFrames <- TwoAndOne
    MaxPings = 1
INVARIANTS
    CapacityKept
    NoOrphans
    BothTold
PROPERTIES
    MasterHeals
    ShutdownEnds
    RelayCloses
CHECK_DEADLOCK FALSE
