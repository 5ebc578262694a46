SPECIFICATION ClientSpec
CONSTANTS
    n1 = n1
    n2 = n2
    c1 = c1
    Node = {n1, n2}
    Peers <- FullPeers
    Command = {c1}
    NoVote = NoVote
    Timers = {n1}
    Crashers = {}
    Reach <- FullReach
    MaxTerm = 1
    MaxLog = 0
    Conn = {1}
    ChanCap = 1
    Doors = {n1, n2}
    Stoppers = {}
    Readers = {n2}
VIEW ClientView
INVARIANTS
    ReadsSeeAcked
CHECK_DEADLOCK FALSE
