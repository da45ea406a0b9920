SPECIFICATION FairSpec
CONSTANTS
    HasTimeout = TRUE
    Steers = {s1, s2}
INVARIANTS
    EndsAreSound
PROPERTIES
    MeetsContract
    NeverStuck
CHECK_DEADLOCK FALSE
