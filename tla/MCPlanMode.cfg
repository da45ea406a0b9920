SPECIFICATION Spec
CONSTANTS
    Plans = {p1, p2}
    Tools <- MCTools
    Selections <- MCSelections
    Retentions = {"clear-after-first-run"}
    Tree <- MCTree
    MaxQueue = 1
    None = None
INVARIANTS
    PlanningIsSound
    ModeIsEnforced
PROPERTIES
    RetryFollowsItsRequest
    FirstRunRetention
    CommandsActOnTheirPlan
CHECK_DEADLOCK FALSE
SYMMETRY MCSymmetry
