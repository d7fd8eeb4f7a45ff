SPECIFICATION FairTunnelSpec
CONSTANTS
    NoAddr = NoAddr
    Modes <- PunchAndAccept
    MaxTunnels <- TwoOfOne
    MaxRebinds = 1
    MaxDups = 1
    MaxFlight = 2
    StaleTicks = 1
INVARIANTS
    KeyedRemote
PROPERTIES
    HalfOpenCloses
    NatRecovers
CHECK_DEADLOCK FALSE
