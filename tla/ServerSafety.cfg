SPECIFICATION Spec
CONSTANTS
    Conns = {c1, c2, c3}
    Clients = {a, b}
    Networks = {n}
    MaxClients = 1
    MaxAttempts = 2
    Requests = {"heartbeat", "query"}
    Faults = {"drop", "garbage", "silence", "expiry", "shutdown"}
    Pruner = Pruner
    None = None
SYMMETRY Symmetry
INVARIANTS
    Capacity
    EndpointIsWriter
    WritableIsOnline
CHECK_DEADLOCK FALSE
