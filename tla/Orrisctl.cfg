CONSTANTS
    Node <- Machine
    Command <- Attempt
    MaxNode = 2
    StopLimit = 2
    Sizes = {2}
    MaxPid = 3
    MaxCommand = 3
    MaxSend = 3
    MaxChosen = 2
    Frail = {1}
    Addrs <- AllAddrs
    Worker = {w1}
    Jobs <- Line
    NoNode = NoNode
    Missing = Missing
SPECIFICATION CtlSpec
INVARIANTS CtlTypeOK NoOrphans StopReachesAll OneServesEach CommittedIsReported  GetFindsExecuted 
CHECK_DEADLOCK FALSE
