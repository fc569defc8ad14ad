---- MODULE WeeklySchedule ----
\* The weekly schedule of one team: `alerts-bi weekly` planning, running, judging
\* and publishing the due weeks (src/weekly/plan.py, src/weekly/runner.py), with
\* operators who publish, withdraw and re-run weeks by hand meanwhile, and
\* invocations that fail or are killed at any point.
\*
\* Time is an integer number of ticks, tick 0 a Monday boundary.  A week is named
\* by the instant it ends.  Publication is the atomic ledger that ReviewStore
\* implements, used here through WeekLedger.
EXTENDS PublicationRules, FiniteSets

CONSTANTS Team,
          Ends,           \* window ends runs may have, on a boundary or not
          HoldTicks,      \* HOLD_DAYS
          RetentionTicks, \* RETENTION_DAYS
          MaxTime,        \* bound: the last instant of the clock
          History,        \* the weeks published before the schedule begins
          OperatorMay     \* what operators do: a subset of OperatorActs

OperatorActs == {"run", "publish", "withdraw"}

Aligned(e) == e % WeekLength = 0

ASSUME ScheduleAssumption ==
    /\ Ends \subseteq Int
    /\ HoldTicks \in Nat \ {0} /\ RetentionTicks \in Nat /\ MaxTime \in Nat
    /\ \A e \in 0 .. MaxTime : Aligned(e) => e \in Ends
    /\ History \subseteq {e \in Ends : e <= 0}
    /\ OperatorMay \subseteq OperatorActs

\* first_held of a week with no `held` row: later than any invocation, which makes
\* it MIN's neutral element and never overdue.
Never == MaxTime + 1

VARIABLES
    clock,      \* the time
    ledger,     \* the team's published weeks, readable through WeekLedger
    stored,     \* per week: is a run stored, and did the model assess all of it
    firstHeld,  \* per week: MIN(invoked_at) of its `held` rows in weekly_review_log
    job         \* the invocation that has the schedule lock

vars == <<clock, ledger, stored, firstHeld, job>>

Store == INSTANCE WeekLedger
             WITH Teams <- {Team}, Runs <- Ends,
                  RunTeam <- [e \in Ends |-> Team],
                  RunStart <- [e \in Ends |-> e - WeekLength],
                  RunEnd <- [e \in Ends |-> e]

Published == ledger[Team]

Off == [phase |-> "off", now |-> 0, due |-> {}, allowGap |-> FALSE,
        publishing |-> FALSE, held |-> {}]

Oldest(weeks, e) == e \in weeks /\ \A f \in weeks : e <= f

Latest(weeks, e) == e \in weeks /\ \A f \in weeks : e >= f

----------------------------------------------------------------------------
\* The plan

\* latest_week_end: the end of the last week that had ended by `now`.
LatestWeekEnd(now) == now - (now % WeekLength)

PastRetention(e, now) == e - WeekLength < now - RetentionTicks

\* plan_weeks, the weeks after the latest published one.
Missing(now) ==
    {e \in Ends : /\ Aligned(e)
                  /\ e <= LatestWeekEnd(now)
                  /\ \A p \in Published : p < e}

\* plan.blocked: no scheduled week can follow a latest week off the boundary.
Blocked == \E p \in Published : Latest(Published, p) /\ ~Aligned(p)

Due(now) ==
    IF Published = {}
    THEN {LatestWeekEnd(now)}
    ELSE {e \in Missing(now) : ~PastRetention(e, now)}

\* MUTANT: any week due lets the first one be published across a gap.
AnyMissing(now) == Missing(now)

Expired(now) ==
    IF Published = {} THEN {} ELSE {e \in Missing(now) : PastRetention(e, now)}

----------------------------------------------------------------------------
\* The invocation

\* MUTANT: the loop stays at the week it has dealt with.
ProceedNowhere(e, publishing, allowGap, held) ==
    job' = [phase |-> "run", now |-> job.now, due |-> job.due,
            allowGap |-> allowGap, publishing |-> publishing, held |-> held]

\* The week is done with; the log is written after the last one.
Proceed(e, publishing, allowGap, held) ==
    LET due == job.due \ {e}
    IN  job' = [phase |-> IF due = {} THEN "log" ELSE "run", now |-> job.now,
                due |-> due, allowGap |-> allowGap, publishing |-> publishing,
                held |-> held]

\* Outcome `failed`: no later week of this invocation is published.
Fail(e) == Proceed(e, FALSE, job.allowGap, job.held)

\* run_weekly takes the lock, plans and begins.  An invocation with nothing due,
\* or blocked, changes nothing and is not modelled.  The lock is a session's, on a
\* connection of its own (runner.py:100-117): an invocation that loses it goes on,
\* and one that overlaps it is not modelled.
Start ==
    /\ job.phase = "off"
    /\ ~Blocked
    /\ Due(clock) # {}
    /\ job' = [phase |-> "run", now |-> clock, due |-> Due(clock),
               allowGap |-> Expired(clock) # {}, publishing |-> TRUE, held |-> {}]
    /\ UNCHANGED <<clock, ledger, stored, firstHeld>>

\* execute_run and persist_run, which refuses a run that is published.
RunWeek(e) ==
    /\ job.phase = "run" /\ Oldest(job.due, e)
    /\ e \notin Published
    /\ \E health \in {"healthy", "unhealthy"} : stored' = [stored EXCEPT ![e] = health]
    /\ job' = [job EXCEPT !.phase = "judge"]
    /\ UNCHANGED <<clock, ledger, firstHeld>>

\* Reading Elasticsearch, persisting or rendering raises; rendering comes after
\* the run is stored.
RunWeekFails(e) ==
    /\ job.phase = "run" /\ Oldest(job.due, e)
    /\ \/ UNCHANGED stored
       \/ /\ e \notin Published
          /\ \E health \in {"healthy", "unhealthy"} :
                 stored' = [stored EXCEPT ![e] = health]
    /\ Fail(e)
    /\ UNCHANGED <<clock, ledger, firstHeld>>

HasProblems(e) == stored[e] # "healthy"

\* MUTANT: held for one tick less than HOLD_DAYS.
OverdueEarly(e, now) == now - firstHeld[e] >= HoldTicks - 1

Overdue(e, now) == now - firstHeld[e] >= HoldTicks

\* Outcome `held`.
Hold(e) ==
    /\ job.phase = "judge" /\ Oldest(job.due, e)
    /\ HasProblems(e)
    /\ ~(job.publishing /\ Overdue(e, job.now))
    /\ Proceed(e, FALSE, job.allowGap, job.held \union {e})
    /\ UNCHANGED <<clock, ledger, stored, firstHeld>>

\* Outcome `stored`: healthy, and an earlier week is not published yet.
Keep(e) ==
    /\ job.phase = "judge" /\ Oldest(job.due, e)
    /\ ~HasProblems(e)
    /\ ~job.publishing
    /\ Proceed(e, FALSE, job.allowGap, job.held)
    /\ UNCHANGED <<clock, ledger, stored, firstHeld>>

\* Healthy, or unhealthy and held long enough.
Pass(e) ==
    /\ job.phase = "judge" /\ Oldest(job.due, e)
    /\ job.publishing
    /\ HasProblems(e) => Overdue(e, job.now)
    /\ job' = [job EXCEPT !.phase = "publish"]
    /\ UNCHANGED <<clock, ledger, stored, firstHeld>>

\* publish_run accepts; the gap is accepted for the first week only.
PublishWeek(e) ==
    /\ job.phase = "publish" /\ Oldest(job.due, e)
    /\ Store!Publish(e, FALSE, job.allowGap)
    /\ Proceed(e, TRUE, FALSE, job.held)
    /\ UNCHANGED <<clock, stored, firstHeld>>

\* publish_run refuses or the database fails.
PublishWeekFails(e) ==
    /\ job.phase = "publish" /\ Oldest(job.due, e)
    /\ Fail(e)
    /\ UNCHANGED <<clock, ledger, stored, firstHeld>>

\* MUTANT: MAX(invoked_at), so that every retry restarts the wait.
LastHeld(e) == job.now

\* MIN(invoked_at) once the row of this invocation is there.
FirstHeld(e) == IF job.now < firstHeld[e] THEN job.now ELSE firstHeld[e]

\* One row of weekly_review_log, in its own transaction; the `held` ones are the
\* only rows the schedule reads back.
LogHeld(e) ==
    /\ job.phase = "log" /\ Oldest(job.held, e)
    /\ firstHeld' = [firstHeld EXCEPT ![e] = FirstHeld(e)]
    /\ job' = [job EXCEPT !.held = @ \ {e}]
    /\ UNCHANGED <<clock, ledger, stored>>

Release ==
    /\ job.phase = "log" /\ job.held = {}
    /\ job' = Off
    /\ UNCHANGED <<clock, ledger, stored, firstHeld>>

\* The process is killed, or an exception leaves _run_team or _log: the outcomes
\* not yet logged are lost, and the lock goes with the connection.
Crash ==
    /\ job.phase # "off"
    /\ job' = Off
    /\ UNCHANGED <<clock, ledger, stored, firstHeld>>

Work(e) ==
    \/ RunWeek(e) \/ RunWeekFails(e)
    \/ Hold(e) \/ Keep(e) \/ Pass(e)
    \/ PublishWeek(e) \/ PublishWeekFails(e)
    \/ LogHeld(e)

----------------------------------------------------------------------------
\* Operators and time

\* `alerts-bi run` for any week that has ended.
OperatorRun(e) ==
    /\ "run" \in OperatorMay
    /\ e <= clock /\ e \notin Published
    /\ \E health \in {"healthy", "unhealthy"} : stored' = [stored EXCEPT ![e] = health]
    /\ UNCHANGED <<clock, ledger, firstHeld, job>>

OperatorPublish(e) ==
    /\ "publish" \in OperatorMay
    /\ stored[e] # "none"
    /\ \E allowGap \in BOOLEAN : Store!Publish(e, FALSE, allowGap)
    /\ UNCHANGED <<clock, stored, firstHeld, job>>

OperatorWithdraw(e) ==
    /\ "withdraw" \in OperatorMay
    /\ Store!Withdraw(e)
    /\ UNCHANGED <<clock, stored, firstHeld, job>>

Tick ==
    /\ clock < MaxTime
    /\ clock' = clock + 1
    /\ UNCHANGED <<ledger, stored, firstHeld, job>>

Init ==
    /\ clock = 0
    /\ ledger = [t \in {Team} |-> History]
    /\ stored = [e \in Ends |-> IF e \in History THEN "healthy" ELSE "none"]
    /\ firstHeld = [e \in Ends |-> Never]
    /\ job = Off

Next ==
    \/ Tick
    \/ Start \/ Release \/ Crash
    \/ \E e \in Ends :
           \/ Work(e)
           \/ OperatorRun(e) \/ OperatorPublish(e) \/ OperatorWithdraw(e)

Spec == Init /\ [][Next]_vars

\* The scheduler invokes the job again and again and the job goes on.  Running,
\* judging and publishing a week may fail or be cut short many times, and not
\* every time.
Fairness ==
    /\ WF_vars(Start) /\ WF_vars(Release)
    /\ WF_vars(\E e \in Ends : Hold(e) \/ Keep(e) \/ LogHeld(e))
    /\ \A e \in Ends :
           SF_vars(RunWeek(e)) /\ SF_vars(Pass(e)) /\ SF_vars(PublishWeek(e))

FairSpec == Spec /\ Fairness

----------------------------------------------------------------------------
\* Properties

TypeOK ==
    /\ clock \in 0 .. MaxTime
    /\ ledger \in [{Team} -> SUBSET Ends]
    /\ stored \in [Ends -> {"none", "healthy", "unhealthy"}]
    /\ firstHeld \in [Ends -> 0 .. Never]
    /\ job \in [phase : {"off", "run", "judge", "publish", "log"},
                now : 0 .. MaxTime, due : SUBSET {e \in Ends : Aligned(e)},
                allowGap : BOOLEAN, publishing : BOOLEAN, held : SUBSET Ends]
    /\ job.now <= clock
    /\ job.held \intersect job.due = {}

\* The job, and not an operator, publishes e in this step.
SchedulePublishes(e) == e \in ledger'[Team] \ Published /\ job' # job

\* "Publish a week automatically only when it is healthy"; one the model did not
\* finish appears only after it was held for HOLD_DAYS.
UnhealthyIsHeldFirst ==
    [][\A e \in Ends :
           SchedulePublishes(e) /\ stored[e] # "healthy"
           => clock - firstHeld[e] >= HoldTicks]_vars

\* The schedule skips a week only when its data is past retention: between the
\* latest published week and the one it publishes lies nothing else.
HolesAreExpired ==
    [][\A e, latest, f \in Ends :
           /\ SchedulePublishes(e)
           /\ Latest(Published, latest)
           /\ Aligned(f) /\ latest < f /\ f < e
           => PastRetention(f, job.now)]_vars

\* "An unhealthy week is held and retried", and the weeks after it wait until it
\* is resolved: the schedule never publishes past a held week that can still be
\* run.
HeldWeeksComeFirst ==
    [][\A e, f \in Ends :
           /\ SchedulePublishes(e)
           /\ f < e /\ firstHeld[f] # Never
           => f \in Published \/ PastRetention(f, job.now)]_vars

\* A held week is not held for ever: once it is overdue and the first that is
\* due, it is published, unless its data expires first.
OverdueIsPublished ==
    \A e \in Ends :
        Oldest(Due(clock), e) /\ Overdue(e, clock)
        ~> e \in Published \/ PastRetention(e, clock)

====
