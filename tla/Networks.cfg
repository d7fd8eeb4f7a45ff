SPECIFICATION PartsSpec
CONSTANTS
    Clients = {a, b, c}
    NetIds = {n1, n2}
    Codes = {k1, k2}
    ServiceIds = {s}
    None = None
    Absent = Absent
    Senders = {r1, r2}
    Handlers = {h1, h2}
    MaxQueue = 2
    MaxFrames = 2
    Iterators = {r1}
SYMMETRY Symmetry
INVARIANTS
    MembershipAgrees
    
    SpokesLearnHubOnly

    
