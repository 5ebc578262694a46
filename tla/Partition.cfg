SPECIFICATION Spec
CONSTANTS
    n1 = n1
    n2 = n2
    n3 = n3
    c1 = c1
    Node = {n1, n2, n3}
    Peers <- FullPeers
    Command = {c1}
    NoVote = NoVote
    Timers = {n1, n2}
    Crashers = {}
    Reach <- SplitReach
    MaxTerm = 4
    MaxLog = 1
    Conn = {1}
VIEW LiveView
INVARIANTS
    LogMatching
    LeaderCompleteness
CHECK_DEADLOCK FALSE
