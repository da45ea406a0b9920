SPECIFICATION FleetSpec
CONSTANTS
    r1 = r1
    k1 = k1
    k2 = k2
    Notifies = {}
    Requests = {r1}
    Kickoffs = {k1, k2}
    None = None
    MaxFrames = 2
    MaxStarts = 3
SYMMETRY Symmetry
INVARIANTS
    KickoffOnce
    AckedIsReceivedIfIdle
CHECK_DEADLOCK FALSE
