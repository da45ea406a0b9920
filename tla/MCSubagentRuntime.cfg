SPECIFICATION FairRuntimeSpec
CONSTANTS
    j1 = j1
    j2 = j2
    Jobs = {j1, j2}
    Conns = {c1}
    MainWaits = {w1}
    Replies = {m1}
    NoConn = NoConn
    NoReply = NoReply
    MaxOutstanding = 2
    MaxRetained = 1
    MaxConnections = 2
    MaxRequests = 3
    MaxClock = 1
    MaxSends = 3
    MaxGeneration = 4
    MaxActiveJobs = 2
    MaxRetainedJobs = 1
ACTION_CONSTRAINT WithinBounds
INVARIANTS
    NoJobOutlivesItsSession
PROPERTIES
    CompletionsArePublishedOnce
    SendsAreOrderly
    Spec
    EverythingSettles
CHECK_DEADLOCK FALSE
