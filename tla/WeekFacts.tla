------------------------------- MODULE WeekFacts -------------------------------
(***************************************************************************)
(* What a stored week says, read twice: by an operator straight from the   *)
(* run's tables (src/admin/summary.py) and by a reader through the views   *)
(* of published weeks (migrations 005 to 008, src/portal/                  *)
(* summary_queries.py).  Both end in the same record, SummaryInputs.       *)
(*                                                                         *)
(* Facts[run] is what a completed run stored: [ruleset, snapshot, phase,   *)
(* readiness, daily, counts, alerts].  "snapshot" is the team's registry   *)
(* entry as [v1, panels, v2, effort], Null when it cannot be read; an      *)
(* alert's names are numbers in the order they sort, its url Null when the *)
(* alert names no rule.                                                    *)
(***************************************************************************)
EXTENDS WeekLedger, AlertRules, SequencesExt, Orders

CONSTANT Facts

SCHEMAS == {"v1", "v2"}
STATES == {"rule_flagged", "llm_flagged", "needs_review", "assessed_good", "unassessed"}

\* What the tables can hold: finitely many rows, numbers in the columns that are
\* NOT NULL, the measures of migration 005 NULL or not, and one finding of an alert.
StoredRun(run) ==
    /\ IsFiniteSet(run.daily) /\ IsFiniteSet(run.counts) /\ IsFiniteSet(run.alerts)
    /\ \A d \in run.daily : /\ {d.alerts, d.flagged_by_rule, d.suppressed} \subseteq Nat
                            /\ d.unseen \in Nat \union {Null}
    /\ \A c \in run.counts : c.match_count \in Nat
    /\ \A a \in run.alerts : /\ a.schema \in SCHEMAS /\ a.unseen \in BOOLEAN \union {Null}
                             /\ {a.application, a.key_field, a.row_count} \subseteq Int
    /\ \A a, b \in run.alerts :
           /\ a.schema = b.schema /\ a.application = b.application /\ a.key_field = b.key_field
           => a = b

ASSUME RunsAssumption ==
    /\ RunTeam \in [Runs -> Teams] /\ RunStart \in [Runs -> Int] /\ RunEnd \in [Runs -> Int]
    /\ Null \notin Int /\ Null \notin BOOLEAN
    /\ \A r \in Runs : StoredRun(Facts[r])

\* What one analysis derived of one set of rows: a core rule that counted an event is
\* a finding of an alert, and what hides an alert is in the sums of its schema's days.
IsDerived(run) ==
    /\ \A c \in run.counts :
           c.rule \in CORE => \E a \in run.alerts : a.schema = c.schema /\ c.rule \in a.core
    /\ \A a \in run.alerts :
           /\ "R5" \in a.core => \E d \in run.daily : d.schema = a.schema /\ d.suppressed > 0
           /\ a.unseen = TRUE => \E d \in run.daily : d.schema = a.schema /\ d.unseen # Null

ASSUME DerivedAssumption == \A r \in Runs : IsDerived(Facts[r])

AlertsOf(alerts, schema) == {a \in alerts : a.schema = schema}
InState(alerts, state) == {a \in alerts : a.state = state}

\* What the whole row of a missing snapshot is to both readers: no basis at all.
MeasurementBasis(snapshot) ==
    IF snapshot = Null THEN <<Null, Null, Null>>
    ELSE <<snapshot.v1, snapshot.panels, snapshot.v2>>

EffortOf(snapshot) == IF snapshot = Null THEN Null ELSE snapshot.effort

\* url:<alert_rule_url> or, for an alert without one, app:<application>.
RuleKey(alert) ==
    IF alert.url # Null THEN <<"url", alert.url>> ELSE <<"app", alert.application>>

V1Rules(alerts) == {RuleKey(a) : a \in AlertsOf(alerts, "v1")}

-------------------------------------------------------------------------------
(* The views.  Each sees the ledger as it is at the instant it is read.    *)

PublishedRuns == UNION {ledger[t] : t \in Teams}

\* LAG over the team's published weeks by the end of their window.
WeeksBefore(r) == {q \in ledger[RunTeam[r]] : RunEnd[q] < RunEnd[r]}

ViewBasisChanged(r) ==
    \E q \in WeeksBefore(r) :
        /\ \A p \in WeeksBefore(r) : RunEnd[p] <= RunEnd[q]
        /\ \/ Facts[q].ruleset # Facts[r].ruleset
           \/ MeasurementBasis(Facts[q].snapshot) # MeasurementBasis(Facts[r].snapshot)

Review(r) ==
    [team |-> RunTeam[r], run |-> r, start |-> RunStart[r], end |-> RunEnd[r],
     phase |-> Facts[r].phase, readiness |-> Facts[r].readiness,
     basis_changed |-> ViewBasisChanged(r), effort |-> EffortOf(Facts[r].snapshot)]

PortalReviews == {Review(r) : r \in PublishedRuns}

\* SUM: a sum of nothing, or of NULLs only, is NULL.
SqlSum(rows, column) ==
    LET measured == {d \in rows : d[column] # Null}
    IN  IF measured = {} THEN Null ELSE MapThenSumSet(LAMBDA d : d[column], measured)
Coalesce(n) == IF n = Null THEN 0 ELSE n

NeedsAttention(a) ==
    a.state \in {"rule_flagged", "llm_flagged", "needs_review"} \/ a.readiness # {}

PortalSchemaTotals(r) ==
    IF r \notin PublishedRuns THEN {} ELSE
    {LET days == {d \in Facts[r].daily : d.schema = s}
         mine == AlertsOf(Facts[r].alerts, s)
         flags == {a \in mine : a.unseen # Null}
     IN  [schema |-> s,
          events |-> Coalesce(SqlSum(days, "alerts")),
          flagged_rows |-> Coalesce(SqlSum(days, "flagged_by_rule")),
          suppressed |-> Coalesce(SqlSum(days, "suppressed")),
          unseen |-> SqlSum(days, "unseen"),
          distinct_alerts |-> Cardinality(mine),
          states |-> [q \in STATES |-> Cardinality(InState(mine, q))],
          readiness_gaps |-> Cardinality({a \in mine : a.readiness # {}}),
          needs_attention |-> Cardinality({a \in mine : NeedsAttention(a)}),
          unseen_alerts |-> IF flags = {} THEN Null
                            ELSE Cardinality({a \in flags : a.unseen})] : s \in SCHEMAS}

\* A rule has a row when it matched an event; its alerts may be none.
PortalRuleTotals(r) ==
    IF r \notin PublishedRuns THEN {} ELSE
    {[schema |-> k[1], rule |-> k[2],
      events |-> SqlSum({c \in Facts[r].counts : <<c.schema, c.rule>> = k}, "match_count"),
      alerts |-> Cardinality({a \in Facts[r].alerts :
                                 a.schema = k[1] /\ k[2] \in a.core \union a.readiness})] :
     k \in {<<c.schema, c.rule>> : c \in Facts[r].counts}}

AttentionRank(a) ==
    CASE a.state = "rule_flagged" -> 0
      [] a.state = "llm_flagged" -> 1
      [] a.state = "needs_review" -> 2
      [] a.readiness # {} -> 3
      [] OTHER -> 4

\* A mutant: the alerts of any stored run.
EveryStoredAlert(r) == Facts[r].alerts

PortalAlerts(r) == IF r \in PublishedRuns THEN Facts[r].alerts ELSE {}

PortalDailyMetrics(r) ==
    IF r \notin PublishedRuns THEN {} ELSE
    {[schema |-> d.schema, day |-> d.day, covered |-> d.covered, distinct |-> d.distinct_alerts,
      flagged |-> d.flagged_distinct] : d \in Facts[r].daily}

-------------------------------------------------------------------------------
(* What load_portal_summary makes of each answer.  A missing row is zero.  *)

CONSTANT HISTORY_WEEKS   \* the selected week and those the estimate can reach

ASSUME HistoryAssumption == HISTORY_WEEKS \in Nat \ {0}

SchemaTotalsOf(rows) ==
    [s \in SCHEMAS |->
        LET row == {t \in rows : t.schema = s}
            Of(column) == IF row = {} THEN 0 ELSE (CHOOSE t \in row : TRUE)[column]
            Optional(column) == IF row = {} THEN Null ELSE (CHOOSE t \in row : TRUE)[column]
            states == IF row = {} THEN [q \in STATES |-> 0] ELSE (CHOOSE t \in row : TRUE).states
        IN  [events |-> Of("events"), distinct_alerts |-> Of("distinct_alerts"),
             rule_flagged_events |-> Of("flagged_rows"),
             rule_flagged_alerts |-> states["rule_flagged"],
             suppressed |-> Of("suppressed"), unseen |-> Optional("unseen"),
             unseen_alerts |-> Optional("unseen_alerts"), states |-> states,
             readiness_gaps |-> Of("readiness_gaps")]]

\* TOP (n), newest first, then reversed: a sequence of reviews.
LastWeeks(team, end, n) ==
    LET weeks == {v \in PortalReviews : v.team = team /\ v.end <= end}
        recent == {v \in weeks : Cardinality({w \in weeks : w.end > v.end}) < n}
    IN  SortedBy(recent, LAMBDA v, w : v.end < w.end)

\* A mutant: the plausible reading of "up to 3 earlier weeks".
OneWeekShort(team, end) == LastWeeks(team, end, HISTORY_WEEKS - 1)

HistoryWeeks(team, end) == LastWeeks(team, end, HISTORY_WEEKS)

\* The second of the two statements _history sends, for the weeks of the first.
HistoryRules(weeks) == [k \in DOMAIN weeks |-> V1Rules(PortalAlerts(weeks[k].run))]

HistoryOf(weeks, rules) ==
    [k \in DOMAIN weeks |-> [week_end |-> weeks[k].end, v1_rules |-> rules[k],
                             basis_changed |-> weeks[k].basis_changed]]

PortalInputs(review, totals, rules, daily, alerts, weeks, weekRules) ==
    [team |-> review.team, start |-> review.start, end |-> review.end,
     phase |-> review.phase, readiness |-> review.readiness,
     schemas |-> SchemaTotalsOf(totals), rules |-> rules, alerts |-> alerts,
     published |-> TRUE, history |-> HistoryOf(weeks, weekRules),
     effort |-> review.effort, daily |-> daily]

\* Every statement answered at one instant.
PortalSummary(r) ==
    LET weeks == HistoryWeeks(RunTeam[r], RunEnd[r])
    IN  PortalInputs(Review(r), PortalSchemaTotals(r), PortalRuleTotals(r),
                     PortalDailyMetrics(r), PortalAlerts(r), weeks, HistoryRules(weeks))
-------------------------------------------------------------------------------
(* The admin app's own reading of the same rows.                           *)

SumOrNone(days, column) ==
    IF \A d \in days : d[column] = Null THEN Null
    ELSE MapThenSumSet(LAMBDA d : Coalesce(d[column]), days)

AdminSchemaTotals(schema, daily, alerts) ==
    LET days == {d \in daily : d.schema = schema}
        mine == AlertsOf(alerts, schema)
        flags == {a \in mine : a.unseen \in BOOLEAN}
    IN  [events |-> MapThenSumSet(LAMBDA d : d.alerts, days),
         distinct_alerts |-> Cardinality(mine),
         rule_flagged_events |-> MapThenSumSet(LAMBDA d : d.flagged_by_rule, days),
         rule_flagged_alerts |-> Cardinality(InState(mine, "rule_flagged")),
         suppressed |-> MapThenSumSet(LAMBDA d : d.suppressed, days),
         unseen |-> SumOrNone(days, "unseen"),
         unseen_alerts |-> IF flags # {} THEN Cardinality({a \in flags : a.unseen}) ELSE Null,
         states |-> [q \in {a.state : a \in mine} |-> Cardinality(InState(mine, q))],
         readiness_gaps |-> Cardinality({a \in mine : a.readiness # {}})]

AdminRuleTotals(counts, alerts) ==
    {[schema |-> c.schema, rule |-> c.rule,
      events |-> MapThenSumSet(LAMBDA d : d.match_count,
                               {d \in counts : d.schema = c.schema /\ d.rule = c.rule}),
      alerts |-> Cardinality({a \in AlertsOf(alerts, c.schema) :
                                 c.rule \in a.core \/ c.rule \in a.readiness})] : c \in counts}

\* Every currently published week of the team, oldest first.
PublishedWeeks(team) == SortedBy(ledger[team], LAMBDA p, q : RunEnd[p] < RunEnd[q])

BasisChanges(runs) ==
    [i \in DOMAIN runs |->
        /\ i > 1
        /\ \/ Facts[runs[i]].ruleset # Facts[runs[i - 1]].ruleset
           \/ MeasurementBasis(Facts[runs[i]].snapshot)
                  # MeasurementBasis(Facts[runs[i - 1]].snapshot)]

\* The changes are computed over every week, and then the weeks after "until" dropped.
PublishedHistory(team, until) ==
    LET runs == PublishedWeeks(team)
        changes == BasisChanges(runs)
        kept == SortedBy({i \in DOMAIN runs : RunEnd[runs[i]] <= until}, LAMBDA i, j : i < j)
    IN  [k \in DOMAIN kept |->
            LET i == kept[k]
            IN  [week_end |-> RunEnd[runs[i]], v1_rules |-> V1Rules(Facts[runs[i]].alerts),
                 basis_changed |-> changes[i]]]

Publication(r) == IF r \in ledger[RunTeam[r]] THEN "published" ELSE "not published"

DailyPoints(daily) ==
    {[schema |-> d.schema, day |-> d.day, covered |-> d.covered, distinct |-> d.distinct_alerts,
      flagged |-> d.flagged_distinct] : d \in daily}

AdminSummary(r) ==
    LET f == Facts[r]
        published == Publication(r) = "published"
    IN  [team |-> RunTeam[r], start |-> RunStart[r], end |-> RunEnd[r],
         phase |-> f.phase, readiness |-> f.readiness,
         schemas |-> [s \in SCHEMAS |-> AdminSchemaTotals(s, f.daily, f.alerts)],
         rules |-> AdminRuleTotals(f.counts, f.alerts), alerts |-> f.alerts,
         published |-> published,
         history |-> IF published THEN PublishedHistory(RunTeam[r], RunEnd[r]) ELSE <<>>,
         effort |-> EffortOf(f.snapshot), daily |-> DailyPoints(f.daily)]
===============================================================================
