SPECIFICATION PartsSpec
CONSTANTS
    N = 2
    MaxProcs = 16
    MaxSignals = 2
    MaxCrashes = 1
    None = None
    Kinds = {"ping", "close"}   \* a ping becomes a pong, which is passed on like data
    MaxFrames <- TwoAndOne
    MaxPings = 1
INVARIANT ShutdownStopsAll
CHECK_DEADLOCK FALSE
