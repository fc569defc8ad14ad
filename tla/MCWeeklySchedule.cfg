\* The schedule alone, invoked again and again.
CONSTANTS
    team = team
    Team <- team
    Ends <- MCEnds
    WeekLength = 3
    HoldTicks = 2
    RetentionTicks = 6
    MaxTime = 6
    History <- MCHistory
    OperatorMay <- MCNoOperator
SPECIFICATION FairSpec
CHECK_DEADLOCK FALSE
INVARIANT TypeOK
PROPERTIES UnhealthyIsHeldFirst OverdueIsPublished
