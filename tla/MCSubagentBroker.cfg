SPECIFICATION Spec
CONSTANTS
    Jobs = {j1}
    Conns = {c1, c2}
    MainWaits = {w1}
    Replies = {m1}
    NoConn = NoConn
    NoReply = NoReply
    MaxOutstanding = 2
    MaxRetained = 1
    MaxConnections = 2
    MaxRequests = 2
    MaxClock = 2
INVARIANTS
    WaitersAreParked
    NoWaitBehindSteering
    NoMutualWait
    HoldingsAreBounded
PROPERTIES
    ResponsesAreFinal
SYMMETRY ConnSymmetry
CHECK_DEADLOCK FALSE
