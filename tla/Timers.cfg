CONSTANTS
    Node = {n1, n2, n3}
    None = None
    Timeouts = {3, 4, 5, 6}
    DialTime = 5
    CallTime = 10
    MaxTerm = 2
    MaxFail = 2
SYMMETRY NodeSymmetry
SPECIFICATION TimersSpec
INVARIANTS TimerArmed HeartbeatsKeepFollowers  
CHECK_DEADLOCK FALSE
