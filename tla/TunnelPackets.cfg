SPECIFICATION TunnelSpec
CONSTANTS
    NoAddr = NoAddr
    Modes <- PunchAndAccept
    MaxTunnels <- TwoOfOne
    MaxRebinds = 0
    MaxDups = 0
    MaxFlight = 2
    StaleTicks = 1
INVARIANT
    DeliversPackets
CHECK_DEADLOCK FALSE
