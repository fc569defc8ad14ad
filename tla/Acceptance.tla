------------------------------ MODULE Acceptance ------------------------------
(***************************************************************************)
(* The acceptance check of a stored run against a manifest of expected     *)
(* results (src/run/verify.py).  A run is [phase, readiness, daily,        *)
(* counts, alerts] as in WeekFacts, its days with the unmeasured leaves    *)
(* and its alerts with their node, and the lines its report put in the two *)
(* CSV files; the manifest is the fixture's JSON.  What a manifest may     *)
(* leave out is a function on the names it lists, or a set of at most one. *)
(* Columns that are compared like these, quotients of totals, the counters *)
(* behind a pattern and the sizes of the model's batches are left out.     *)
(***************************************************************************)
EXTENDS WeekFacts

\* The daily columns a manifest sums, those without a panel NULL, and those it
\* lists for a day; what it lists of an alert ("unmeasured" is the column
\* suppression_unmeasured).
SUM_FIELDS == {"alerts", "flagged_by_rule", "suppressed", "unmeasured", "distinct_alerts"}
NULLABLE_FIELDS == {"unseen", "unseen_unmeasured"}
DAY_FIELDS == SUM_FIELDS \union NULLABLE_FIELDS \union {"covered"}
ALERT_FIELDS == {"pattern", "open_since", "unseen"}

Failure(where, expected, actual) == <<where, expected, actual>>

\* VerificationResult.equal: a number against nothing is a mismatch.
Equal(where, expected, actual) ==
    IF expected = actual THEN {} ELSE {Failure(where, expected, actual)}

Total(column, days) == MapThenSumSet(LAMBDA d : d[column], days)

NullableSum(days, column) ==
    LET present == {d \in days : d[column] # Null}
    IN  IF present = {} /\ days # {} THEN Null ELSE Total(column, present)

DaysOf(daily, schema) == {d \in daily : d.schema = schema}
CountsOf(counts, schema) == {c \in counts : c.schema = schema}
Pair(counts, day, rule) ==
    LET rows == {c \in counts : c.day = day /\ c.rule = rule}
    IN  IF rows = {} THEN <<>> ELSE
        LET c == CHOOSE c \in rows : TRUE IN <<c.match_count, c.distinct_count>>

ListedTotal(states) == MapThenSumSet(LAMBDA q : states[q], DOMAIN states)

-------------------------------------------------------------------------------
\* The identity states partition the work list; whose they are is not compared.
VerifyStates(expected, alerts) ==
    (UNION {Equal(<<"identity_states", q>>, expected.states[q], Cardinality(InState(alerts, q))) :
               q \in DOMAIN expected.states})
    \union Equal(<<"identity_states", "total">>,
                 ListedTotal(expected.states), Cardinality(alerts))

VerifyTotals(s, expected, days) ==
    (UNION {Equal(<<"totals", s, f>>, expected.totals[f], Total(f, days)) :
               f \in DOMAIN expected.totals})
    \union (UNION {Equal(<<"unseen", s, f>>, expected.measures[f], NullableSum(days, f)) :
               f \in DOMAIN expected.measures})

\* A listed day must be there.  Of a day that is not listed two columns must be
\* zero, if it is there.
VerifyDays(s, expected, days) ==
    (UNION {LET row == {d \in days : d.day = day}
            IN  IF row = {} THEN {Failure(<<"daily", s, day>>, "present", "missing")}
                ELSE UNION {Equal(<<"daily", s, day, f>>, expected.daily[day][f],
                                  (CHOOSE d \in row : TRUE)[f]) : f \in DOMAIN expected.daily[day]} :
            day \in DOMAIN expected.daily})
    \union (UNION {Equal(<<"daily", s, d.day, "alerts">>, 0, d.alerts)
                   \union Equal(<<"daily", s, d.day, "flagged_by_rule">>, 0, d.flagged_by_rule) :
                   d \in {e \in days : e.day \notin DOMAIN expected.daily}})

\* Every listed pair, and no rule on a day the manifest does not give it.
VerifyListedRules(s, expected, counts) ==
    UNION {Equal(<<"rule", s, k[1], k[2]>>, expected.rules[k], Pair(counts, k[1], k[2])) :
               k \in DOMAIN expected.rules}

VerifyRules(s, expected, counts) ==
    VerifyListedRules(s, expected, counts)
    \union {Failure(<<"rule", s, c.day, c.rule>>, <<>>, <<c.match_count, c.distinct_count>>) :
               c \in {d \in counts : <<d.day, d.rule>> \notin DOMAIN expected.rules}}

\* Work-list values of single alerts: one that is missing fails, it is not skipped.
VerifyAlerts(s, expected, alerts) ==
    UNION {LET found == {a \in alerts : a.key_field = k}
           IN  IF found = {} THEN {Failure(<<"worklist", s, k>>, "present", "missing")}
               ELSE UNION {Equal(<<"worklist", s, k, f>>, expected.worklist[k][f],
                                 (CHOOSE a \in found : TRUE)[f]) : f \in DOMAIN expected.worklist[k]} :
           k \in DOMAIN expected.worklist}

\* The sorted list of the suppressed alerts' nodes: how often each is in it.
SuppressedNodes(alerts) ==
    LET suppressed == {a \in alerts : "R5" \in a.core}
    IN  [n \in {a.node : a \in suppressed} |-> Cardinality({a \in suppressed : a.node = n})]

VerifyBlock(block, run) ==
    LET nodes == SuppressedNodes(run.alerts)
    IN  Equal(<<"suppressed_rows">>, block.rows, Total("suppressed", run.daily))
        \union Equal(<<"unmeasured_leaves">>, block.leaves, Total("unmeasured", run.daily))
        \union (UNION {Equal(<<"suppressed_node_names">>, names, nodes) : names \in block.names})
        \union (UNION {Equal(<<"not_suppressed", n>>, FALSE, n \in DOMAIN nodes) : n \in block.shown})

\* Only where the manifest has the block.
VerifySuppression(expected, run) == UNION {VerifyBlock(block, run) : block \in expected.suppression}

VerifyTeam(manifest, run) ==
    Equal(<<"phase_derived">>, manifest.phase, run.phase)
    \union Equal(<<"phase2_readiness_pct">>, manifest.readiness, run.readiness)
    \union VerifyStates(manifest, run.alerts)
    \union (UNION {LET expected == manifest.schemas[s]
                       days == DaysOf(run.daily, s)
                       mine == AlertsOf(run.alerts, s)
                   IN  Equal(<<"identities", s>>, expected.identities, Cardinality(mine))
                       \union VerifyTotals(s, expected, days)
                       \union VerifyDays(s, expected, days)
                       \union VerifyRules(s, expected, CountsOf(run.counts, s))
                       \union VerifyAlerts(s, expected, mine) : s \in DOMAIN manifest.schemas})
    \union VerifySuppression(manifest, run)

\* The report's files against the rows they were rendered from.
VerifyCsv(run) ==
    Equal(<<"csv", "days">>, Cardinality(run.daily), run.csv.days)
    \union Equal(<<"csv", "alerts">>, Total("alerts", run.daily), run.csv.alerts)
    \union Equal(<<"csv", "worklist">>, Cardinality(run.alerts), run.csv.worklist)

\* The window's shape is read off the v1 buckets only.
VerifyWindow(manifest, run) ==
    LET days == DaysOf(run.daily, "v1")
    IN  Equal(<<"bucket_count">>, manifest.buckets, Cardinality(days))
        \union Equal(<<"covered">>, manifest.covered, Total("covered", days))

Failures(manifest, run) ==
    VerifyTeam(manifest, run) \union VerifyCsv(run) \union VerifyWindow(manifest, run)

-------------------------------------------------------------------------------
(* The manifest somebody writes of a run, as the fixture is written: the   *)
(* days with alerts or with a leaf that could not be measured, every rule  *)
(* and alert, and a block for a team whose panels suppressed something.    *)
IsListed(d) == d.alerts > 0 \/ d.unmeasured > 0
Columns(d) == [f \in DAY_FIELDS |-> d[f]]
Values(a) == [f \in ALERT_FIELDS |-> a[f]]

ManifestOfSchema(run, s) ==
    LET days == DaysOf(run.daily, s)
        counts == CountsOf(run.counts, s)
        mine == AlertsOf(run.alerts, s)
    IN  [identities |-> Cardinality(mine),
         totals |-> [f \in SUM_FIELDS |-> Total(f, days)],
         measures |-> [f \in NULLABLE_FIELDS |-> NullableSum(days, f)],
         daily |-> [n \in {d.day : d \in {e \in days : IsListed(e)}} |->
                       Columns(CHOOSE d \in {e \in days : e.day = n} : TRUE)],
         rules |-> [k \in {<<c.day, c.rule>> : c \in counts} |-> Pair(counts, k[1], k[2])],
         worklist |-> [k \in {a.key_field : a \in mine} |->
                          Values(CHOOSE a \in {b \in mine : b.key_field = k} : TRUE)]]

Suppresses(run) == \E d \in run.daily : d.suppressed > 0 \/ d.unmeasured > 0
BlockOf(run) ==
    LET nodes == SuppressedNodes(run.alerts)
    IN  [rows |-> Total("suppressed", run.daily), leaves |-> Total("unmeasured", run.daily),
         names |-> IF DOMAIN nodes = {} THEN {} ELSE {nodes},
         shown |-> {a.node : a \in run.alerts} \ DOMAIN nodes]

ManifestOf(run) ==
    [phase |-> run.phase, readiness |-> run.readiness,
     states |-> [q \in {a.state : a \in run.alerts} |-> Cardinality(InState(run.alerts, q))],
     schemas |-> [s \in SCHEMAS |-> ManifestOfSchema(run, s)],
     suppression |-> IF Suppresses(run) THEN {BlockOf(run)} ELSE {},
     buckets |-> Cardinality(DaysOf(run.daily, "v1")),
     covered |-> Total("covered", DaysOf(run.daily, "v1"))]

\* What the tables can hold: the keys and the checks of daily_metrics,
\* daily_rule_counts and alert_findings (migration 001), and a report's numbers.
IsStored(run) ==
    /\ StoredRun(run)
    /\ run.csv = [days |-> run.csv.days, alerts |-> run.csv.alerts, worklist |-> run.csv.worklist]
    /\ \A d \in run.daily : /\ d.schema \in SCHEMAS
                            /\ \A f \in SUM_FIELDS : d[f] \in Nat
                            /\ \A f \in NULLABLE_FIELDS : d[f] \in Nat \union {Null}
    /\ \A d, e \in run.daily : d.schema = e.schema /\ d.day = e.day => d = e
    /\ \A c \in run.counts : c.schema \in SCHEMAS
    /\ \A c, e \in run.counts : c.schema = e.schema /\ c.day = e.day /\ c.rule = e.rule => c = e
    /\ \A a \in run.alerts : a.schema \in SCHEMAS /\ a.state \in STATES

\* The lines of a report that has them all.
ReportOf(run) ==
    [days |-> Cardinality(run.daily), alerts |-> Total("alerts", run.daily),
     worklist |-> Cardinality(run.alerts)]

\* A run as the pipeline leaves it: only rows are flagged, and all is reported.
IsWritten(run) ==
    /\ IsStored(run)
    /\ \A d \in run.daily : d.flagged_by_rule <= d.alerts
    /\ run.csv = ReportOf(run)

\* A manifest names an alert by its key_field, as if no application shared it.
KeysAreDistinct(run) ==
    \A a, b \in run.alerts : a.schema = b.schema /\ a.key_field = b.key_field => a = b

-------------------------------------------------------------------------------
(* What another run shares with the one a manifest was made of when the    *)
(* check accepts it, said of the rows of the two.                          *)

\* Days with something to list are the same; another day may be there, without
\* alerts, or not be there.
SameDays(days, others) ==
    /\ \A d \in days : IsListed(d) => \E e \in others : e.day = d.day /\ Columns(e) = Columns(d)
    /\ \A e \in others :
           \/ \E d \in days : d.day = e.day /\ IsListed(d)
           \/ e.alerts = 0 /\ e.flagged_by_rule = 0
    /\ \A f \in SUM_FIELDS : Total(f, days) = Total(f, others)
    /\ \A f \in NULLABLE_FIELDS : NullableSum(days, f) = NullableSum(others, f)

SameRules(counts, others) ==
    {<<c.day, c.rule, c.match_count, c.distinct_count>> : c \in counts}
        = {<<c.day, c.rule, c.match_count, c.distinct_count>> : c \in others}

SameAlerts(mine, theirs) ==
    /\ Cardinality(mine) = Cardinality(theirs)
    /\ {<<a.key_field, Values(a)>> : a \in mine} = {<<a.key_field, Values(a)>> : a \in theirs}

SameSuppression(run, other) ==
    Suppresses(run) =>
        /\ \A f \in {"suppressed", "unmeasured"} : Total(f, run.daily) = Total(f, other.daily)
        /\ LET nodes == SuppressedNodes(run.alerts)
           IN  IF DOMAIN nodes = {}
               THEN \A a \in run.alerts : a.node \notin DOMAIN SuppressedNodes(other.alerts)
               ELSE nodes = SuppressedNodes(other.alerts)

AgreesWith(other, run) ==
    /\ run.phase = other.phase /\ run.readiness = other.readiness
    /\ \A q \in STATES : Cardinality(InState(run.alerts, q)) = Cardinality(InState(other.alerts, q))
    /\ \A s \in SCHEMAS :
           /\ SameDays(DaysOf(run.daily, s), DaysOf(other.daily, s))
           /\ SameRules(CountsOf(run.counts, s), CountsOf(other.counts, s))
           /\ SameAlerts(AlertsOf(run.alerts, s), AlertsOf(other.alerts, s))
    /\ SameSuppression(run, other)
    /\ LET days == DaysOf(run.daily, "v1")
           others == DaysOf(other.daily, "v1")
       IN  Cardinality(days) = Cardinality(others) /\ Total("covered", days) = Total("covered", others)
    /\ other.csv = ReportOf(other)

\* The check accepts the run its manifest was made of; and of all runs exactly
\* those that agree with it, where no two of its alerts share a key_field.
AcceptsExactly(run, other) ==
    LET accepted == Failures(ManifestOf(run), other) = {}
    IN  /\ run = other => accepted
        /\ KeysAreDistinct(run) => (accepted <=> AgreesWith(other, run))
===============================================================================
