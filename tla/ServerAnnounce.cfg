SPECIFICATION MCSpec
CONSTANTS
    Conns = {c1, c2}
    Clients = {a, b}
    Networks = {n}
    MaxClients = 2
    MaxAttempts = 1
    Requests = {"create", "join", "relay"}
    LeaveRequests = {"create", "join", "leave"}
    Faults = {"drop", "silence"}
    Pruner = Pruner
    None = None
INVARIANTS
    PathsAreLive
    

    
CHECK_DEADLOCK FALSE
