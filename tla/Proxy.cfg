SPECIFICATION PartsSpec
CONSTANTS
    s1 = s1
    s2 = s2
    c1 = c1
    c2 = c2
    Conns = {c1, c2}
    ServerList <- Two
    Weight <- Weights
    Backup = {s2}
    Hash <- Hashes
    Algorithms = {"round_robin", "least_conn", "ip_hash", "random"}
    Requests <- Mixed
    MaxRequests <- TwoAndOne
    MaxFailures = 2
    None = None
    NoConn = NoConn
    NoAnswer = NoAnswer
    MaxData = 3
    Borrowers = {b1, b2, b3}
    Pooled = {p1, p2, p3, p4}
    Keys = {k1, k2}
    Sizes = {1, 4}
    MaxSize = 3
    MaxStores = 3
INVARIANTS
    
    
    NothingCutOff
    PoolExact
    MemorySound
    AnswersCurrent

    
CHECK_DEADLOCK FALSE
