SPECIFICATION PartsSpec
CONSTANTS
    Peers = {p, q}
    Networks = {m, n}
    MaxEvents = 3
    Faults = {"refused", "unpunched", "norelay", "closed", "stale", "shutdown"}
    None = None
    MaxKeys = 4
    MaxDevs = 3
INVARIANTS
    OneSocket
    
    
    TunAccounted
PROPERTIES
    KeepsIdentity
    
CHECK_DEADLOCK FALSE
