SPECIFICATION FairSpec
CONSTANTS
    n1 = n1
    n2 = n2
    n3 = n3
    c1 = c1
    Node = {n1, n2, n3}
    Peers <- ApartPeers
    Command = {c1}
    NoVote = NoVote
    Timers = {n1, n2}
    Crashers = {n2}
    Reach <- FullReach
    MaxTerm = 2
    MaxLog = 1
    Conn = {1}
PROPERTIES
    OwnEntriesExecuted
CHECK_DEADLOCK FALSE
