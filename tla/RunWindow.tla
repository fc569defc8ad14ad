------------------------------- MODULE RunWindow -------------------------------
(***************************************************************************)
(* The half-open window of a run and its daily buckets:                    *)
(* src/domain/window.py.  A day is its number, an instant a tick.          *)
(***************************************************************************)
EXTENDS Integers

CONSTANTS
    DAY,          \* ticks of one day
    WINDOW_DAYS   \* days of a window: WINDOW_HOURS / 24

ASSUME WindowAssumption == DAY \in Nat \ {0} /\ WINDOW_DAYS \in Nat \ {0}

WindowStart(runAt) == runAt - WINDOW_DAYS * DAY
InWindow(runAt, t) == WindowStart(runAt) <= t /\ t < runAt

DateOf(t) == t \div DAY

\* The end is exclusive, so a run at midnight opens no bucket for the day it stops at.
Dates(runAt) == DateOf(WindowStart(runAt)) .. DateOf(runAt - 1)

Later(a, b) == IF a >= b THEN a ELSE b
Earlier(a, b) == IF a <= b THEN a ELSE b

BucketStart(runAt, d) == Later(WindowStart(runAt), d * DAY)
BucketEnd(runAt, d) == Earlier(runAt, d * DAY + DAY)
CoveredTicks(runAt, d) == BucketEnd(runAt, d) - BucketStart(runAt, d)
===============================================================================
