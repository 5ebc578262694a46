SPECIFICATION ClientSpec
CONSTANTS
    n1 = n1
    n2 = n2
    n3 = n3
    c1 = c1
    c2 = c2
    Node = {n1, n2, n3}
    Peers <- FullPeers
    Command = {c1, c2}
    NoVote = NoVote
    Timers = {n1, n2}
    Crashers = {}
    Reach <- OneWayReach
    MaxTerm = 2
    MaxLog = 0
    Conn = {1}
    ChanCap = 1
    Doors = {n1, n2}
    Stoppers = {}
    Readers = {}
VIEW AckView
INVARIANTS
    AckIsCommitted
    
CHECK_DEADLOCK FALSE
