\* A team that has nothing published yet.
CONSTANTS
    team = team
    Team <- team
    Ends <- MCEnds
    WeekLength = 3
    HoldTicks = 2
    RetentionTicks = 6
    MaxTime = 5
    History <- MCNoHistory
    OperatorMay <- MCNoOperator
SPECIFICATION Spec
CHECK_DEADLOCK FALSE
PROPERTY HeldWeeksComeFirst
