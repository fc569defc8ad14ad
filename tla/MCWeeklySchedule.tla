---- MODULE MCWeeklySchedule ----
\* A week of three ticks, held for two, kept for six: the order of HOLD_DAYS (3),
\* a week (7) and RETENTION_DAYS (84) on a clock short enough to check.
EXTENDS WeeklySchedule

CONSTANT team

MCEnds == {0, 3, 6}

\* In weeks of two ticks, one more window that operators may run: off the Monday
\* boundary, as runs by hand may be.
MCUnalignedEnds == {0, 2, 3, 4}

MCHistory == {0}

MCNoHistory == {}

MCNoOperator == {}

MCOperators == {"run", "publish", "withdraw"}

MCRunners == {"run"}

====
