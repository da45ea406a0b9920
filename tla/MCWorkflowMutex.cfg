SPECIFICATION MutexSpec
CONSTANTS
    goal = goal
    plan = plan
    s1 = s1
    s2 = s2
    Participants = {goal, plan}
    Sessions = {s1, s2}
    None = None
    Conducts <- ConductsChecked
    MaxGeneration = 3
    MaxOwners = 2
    MaxDepth = 2
SYMMETRY Symmetry
INVARIANTS
    GroupIsSound
PROPERTIES
    HeldUntilReleased
    RefusedOnlyWhenBusy
CHECK_DEADLOCK FALSE
