\* Operators re-run weeks while the schedule works.
CONSTANTS
    team = team
    Team <- team
    Ends <- MCEnds
    WeekLength = 3
    HoldTicks = 2
    RetentionTicks = 6
    MaxTime = 5
    History <- MCHistory
    OperatorMay <- MCRunners
SPECIFICATION Spec
CHECK_DEADLOCK FALSE
PROPERTY UnhealthyIsHeldFirst
