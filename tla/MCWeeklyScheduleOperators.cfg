\* Operators run, publish and withdraw weeks while the schedule works.
CONSTANTS
    team = team
    Team <- team
    Ends <- MCUnalignedEnds
    WeekLength = 2
    HoldTicks = 1
    RetentionTicks = 4
    MaxTime = 5
    History <- MCHistory
    OperatorMay <- MCOperators
SPECIFICATION Spec
CHECK_DEADLOCK FALSE
PROPERTY HolesAreExpired
