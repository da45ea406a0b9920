SPECIFICATION FairLockSpec
CONSTANTS
    c1 = c1
    c2 = c2
    u = u
    p1 = p1
    p2 = p2
    p3 = p3
    None = None
    User = u
    Procs = {p1, p2, p3}
    ProcOf <- ProcessOf
    Calls = {c1, c2}
    Worlds <- WorldsChecked
PROPERTIES
    LockProtects
    DeadLocksEnd
CHECK_DEADLOCK FALSE
