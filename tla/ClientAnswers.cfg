SPECIFICATION ClientSpec
CONSTANTS
    n1 = n1
    n2 = n2
    c1 = c1
    c2 = c2
    Node = {n1, n2}
    Peers <- FullPeers
    Command = {c1, c2}
    NoVote = NoVote
    Timers = {n1, n2}
    Crashers = {n1, n2}
    Reach <- FullReach
    MaxTerm = 2
    MaxLog = 1
    Conn = {1}
    ChanCap = 1
    Doors = {n1, n2}
    Stoppers = {n1}
    Readers = {}
VIEW ClientView
INVARIANTS
    ClientTypeOK
    
    RefusedIsAbsent
    ExecutedOnce

    
