SPECIFICATION PartsSpec
CONSTANTS
    Services = {u, v}
    Udp = {u}
    Streams = {s, t}
    None = None
    NoMap = NoMap
    MaxData = 3
    Maps = {m, n, d}
    UdpMaps = {d}
    AutoPorts = {1, 2}
    OtherPorts = {}
    Conns = {k}
    MaxPending = 1
INVARIANTS
    NoGaps
    OpenIsExposed
    MappingsSound
PROPERTY
    ShutdownCloses
CHECK_DEADLOCK FALSE
