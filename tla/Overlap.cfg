SPECIFICATION Spec
CONSTANTS
    n1 = n1
    n2 = n2
    c1 = c1
    Node = {n1, n2}
    Peers <- FullPeers
    Command = {c1}
    NoVote = NoVote
    Timers = {n1, n2}
    Crashers = {n2}
    Reach <- FullReach
    MaxTerm = 2
    MaxLog = 2
    Conn = {1, 2}
VIEW ApplyView
INVARIANTS
    MatchIsHeld
    CommitIsCovered
    NoEntrySkipped
PROPERTIES
    CommitStable
    
