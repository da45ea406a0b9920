SPECIFICATION Spec
CONSTANTS
    AutomaticTurns = 2
    NoProgressTurns = 1
    Answers <- MCAnswers
    Messages <- MCMessages
    MaxGoals = 2
    MaxQueue = 1
INVARIANTS
    GoalIsSound
    AutomaticWorkIsBounded
    ActiveGoalsMove
PROPERTIES
    GroupFollowsGoal
CHECK_DEADLOCK FALSE
