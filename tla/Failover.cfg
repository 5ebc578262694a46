SPECIFICATION WalSpec
CONSTANTS
    n1 = n1
    n2 = n2
    n3 = n3
    c1 = c1
    Node = {n1, n2, n3}
    Peers <- FullPeers
    Command = {c1}
    NoVote = NoVote
    Timers = {n1, n2}
    Crashers = {n1, n3}
    Reach <- OneWayReach
    MaxTerm = 2
    MaxLog = 0
    Conn = {1}
    Stoppers = {}
    MaxWal = 6
VIEW WalView
INVARIANTS
    TypeOK
    Durable
    CommitAfterEntries
    ElectionSafety
    LeaderCompleteness
    MatchIsHeld
PROPERTIES
    VoteStable
    ImplementsRaft
