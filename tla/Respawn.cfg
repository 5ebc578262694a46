SPECIFICATION Spec
CONSTANTS
    n1 = n1
    n2 = n2
    n3 = n3
    n4 = n4
    n5 = n5
    Node = {n1, n2, n3, n4, n5}
    Peers <- SpawnedPeers
    Command = {}
    NoVote = NoVote
    Timers = {n1, n2}
    Crashers = {}
    Reach <- FullReach
    MaxTerm = 1
    MaxLog = 0
    Conn = {}
VIEW LiveView
INVARIANTS
    ElectionSafety
CHECK_DEADLOCK FALSE
