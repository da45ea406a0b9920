SPECIFICATION FairSpec
CONSTANTS
    d = d
    child = child
    other = other
    file = file
    Root = Root
    Paths = {d, child, other, file}
    Parent <- ParentOf
    MaxFaults = 3
INVARIANTS
    ApplyIsAtomic
PROPERTIES
    RecoveryRestores
CHECK_DEADLOCK FALSE
