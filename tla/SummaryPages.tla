----------------------------- MODULE SummaryPages -----------------------------
(***************************************************************************)
(* The figures of a week as each surface shows them: the shared widgets an *)
(* operator sees (src/portal/summary_view.py, through src/admin/summary.py)*)
(* and the tabs a reader sees (src/portal/tabs.py).  The two were written  *)
(* apart, over summaries that were queried apart.                          *)
(***************************************************************************)
EXTENDS TeamSummary

\* "No alerts fired" is said of a schema with neither an event nor an alert.
Quiet(totals) == totals.events = 0 /\ totals.distinct_alerts = 0
Top(seq, n) == SubSeq(seq, 1, Earlier(n, Len(seq)))
Outcomes(totals) == [q \in STATES |-> StateCount(totals, q)]
LoudestOf(fire, schema) ==
    Top(SelectSeq(fire, LAMBDA row : row.alert.schema = schema), TOP_LOUD)
Listed(alerts) == Top(LouderFirst(alerts), TOP_LISTED)
HiddenAlerts(alerts) == {a \in alerts : "R5" \in a.core}
UnseenAlerts(alerts) == {a \in alerts : a.unseen = TRUE}

-------------------------------------------------------------------------------
(* src/portal/summary_view.py                                              *)

Glance(summary, schema) ==
    LET totals == summary.inputs.schemas[schema]
    IN  IF Quiet(totals) THEN Null
        ELSE [alerts |-> totals.distinct_alerts, events |-> totals.events,
              outcomes |-> Outcomes(totals)]

\* The bars: rules with their alerts and events, readiness apart from quality.
Why(rules, ids) == {<<t.rule, t.schema, t.alerts, t.events>> : t \in {u \in rules : u.rule \in ids}}

\* A gap counts the rows it was seen in and the alerts that have it still: one that
\* was closed within the week has a bar of no alerts.
OpenGaps(bars) == {<<b[1], b[2], b[3]>> : b \in {c \in bars : c[3] # 0}}

ModelFindings(alerts) ==
    LET found == {a \in InState(alerts, "llm_flagged") : a.principle # Null}
    IN  {LET mine == {a \in found : <<a.principle, a.schema>> = k}
         IN  <<k, Cardinality(mine), Rows(mine)>> : k \in {<<a.principle, a.schema>> : a \in found}}

\* Whole percent, half up; a nonzero share never reads 0 and only the whole reads 100.
Share(n, total) ==
    LET percent == (200 * n + total) \div (2 * total)
    IN  IF n > 0 /\ percent = 0 THEN "<1"
        ELSE IF n < total THEN Earlier(percent, 99) ELSE percent

Donut(alerts, schema) ==
    LET counts == PrimaryRuleCounts(alerts, schema)
        total == MapThenSumSet(LAMBDA r : counts[r], DOMAIN counts)
    IN  [r \in DOMAIN counts |-> <<counts[r], Share(counts[r], total)>>]

\* The applications a rule was seen in, the loudest first.
TopApplications(alerts, schema, rule) ==
    LET carriers == {a \in AlertsOf(alerts, schema) : rule \in a.core \union a.readiness}
        Of(app) == Rows({a \in carriers : a.application = app})
    IN  Top(SortedBy({a.application : a \in carriers},
                LAMBDA x, y : Of(x) > Of(y) \/ (Of(x) = Of(y) /\ x < y)), 3)

ByRule(rules, alerts) ==
    {<<t.rule, t.schema, t.events, t.alerts, TopApplications(alerts, t.schema, t.rule)>> :
        t \in rules}

\* What a schema's panels hide: a count, or no more than that nothing was found.
HiddenCard(summary) ==
    [counts |-> [s \in SCHEMAS |-> summary.inputs.schemas[s].suppressed],
     listed |-> Listed(HiddenAlerts(summary.inputs.alerts))]

UnseenCard(summary) ==
    [counts |-> [s \in SCHEMAS |->
        LET totals == summary.inputs.schemas[s]
        IN  CASE totals.unseen = Null -> <<"not measured">>
              [] totals.unseen = 0 -> <<"none">>
              [] OTHER -> <<"found", totals.unseen, Coalesce(totals.unseen_alerts)>>],
     listed |-> Listed(UnseenAlerts(summary.inputs.alerts))]

Progress(summary) ==
    LET v1 == AlertsOf(summary.inputs.alerts, "v1")
        v2 == AlertsOf(summary.inputs.alerts, "v2")
    IN  [phase |-> summary.inputs.phase,
         left |-> <<summary.estimate.rules_left, Cardinality({a.application : a \in v1}),
                    summary.inputs.schemas["v1"].distinct_alerts>>,
         ready |-> <<Cardinality({a \in v2 : Ready(a)}), Cardinality(v2)>>,
         critical |-> Cardinality(CriticalWithoutRunbook(v2))]

OperatorFigures(summary) ==
    [glance |-> [s \in SCHEMAS |-> Glance(summary, s)],
     quality |-> Why(summary.inputs.rules, CORE),
     readiness |-> OpenGaps(Why(summary.inputs.rules, READINESS)),
     loudest |-> [s \in SCHEMAS |-> LoudestOf(summary.fire, s)],
     biggest |-> summary.biggest, findings |-> summary.key_findings,
     hidden |-> HiddenCard(summary), unseen |-> UnseenCard(summary),
     progress |-> Progress(summary),
     advisory |-> [q \in {"llm_flagged", "needs_review"} |->
                      [s \in SCHEMAS |-> StateCount(summary.inputs.schemas[s], q)]]]

\* What the operator's own page shows besides, of the week alone and of its slides.
OperatorExtras(summary) ==
    LET alerts == summary.inputs.alerts
    IN  [model |-> ModelFindings(alerts), donut |-> [s \in SCHEMAS |-> Donut(alerts, s)],
         by_rule |-> ByRule(summary.inputs.rules, alerts),
         by_application |-> summary.by_application, estimate |-> summary.estimate]

-------------------------------------------------------------------------------
(* src/portal/tabs.py                                                      *)

\* Overview: one card per schema.
SchemaCard(summary, schema) ==
    LET totals == summary.inputs.schemas[schema]
    IN  IF Quiet(totals) THEN Null
        ELSE [outcomes |-> Outcomes(totals), events |-> totals.events,
              alerts |-> totals.distinct_alerts]

\* Fix list, "What to change": a rule's cell is empty when no alert carries it, and
\* tells no events of a gap.
Carried(rules, ids) == {t \in rules : t.rule \in ids /\ t.alerts # 0}
Cells(rules) == {<<t.rule, t.schema, t.alerts, t.events>> : t \in Carried(rules, CORE)}
GapCells(rules) == {<<t.rule, t.schema, t.alerts>> : t \in Carried(rules, READINESS)}

AdvisoryRows(summary) ==
    [q \in {"llm_flagged", "needs_review"} |->
        [s \in SCHEMAS |-> StateCount(summary.inputs.schemas[s], q)]]

\* Dashboards: with nothing suppressed no alert is listed as hidden.
HiddenBody(summary) ==
    LET schemas == summary.inputs.schemas
    IN  [counts |-> [s \in SCHEMAS |-> schemas[s].suppressed],
         listed |-> IF \E s \in SCHEMAS : schemas[s].suppressed # 0
                    THEN Listed(HiddenAlerts(summary.inputs.alerts)) ELSE <<>>]

UnseenBody(summary) ==
    LET schemas == summary.inputs.schemas
        measured == {s \in SCHEMAS : schemas[s].unseen # Null}
    IN  [counts |-> [s \in SCHEMAS |->
            IF s \notin measured THEN <<"not measured">>
            ELSE IF schemas[s].unseen # 0
                 THEN <<"found", schemas[s].unseen, Coalesce(schemas[s].unseen_alerts)>>
                 ELSE <<"none">>],
         listed |-> IF measured = {} THEN <<>> ELSE Listed(UnseenAlerts(summary.inputs.alerts))]

\* Migration: the phase comes from the review row, the rest from the summary.
MigrationBody(selected, summary) ==
    LET v1 == AlertsOf(summary.inputs.alerts, "v1")
        v2 == AlertsOf(summary.inputs.alerts, "v2")
    IN  [phase |-> selected.phase,
         left |-> IF v1 = {} THEN <<0, 0, 0>>
                  ELSE <<summary.estimate.rules_left, Cardinality({a.application : a \in v1}),
                         Cardinality(v1)>>,
         ready |-> <<Cardinality({a \in v2 : Ready(a)}), Cardinality(v2)>>,
         critical |-> Cardinality(CriticalWithoutRunbook(v2))]

ReaderFigures(selected, summary) ==
    [glance |-> [s \in SCHEMAS |-> SchemaCard(summary, s)],
     quality |-> Cells(summary.inputs.rules), readiness |-> GapCells(summary.inputs.rules),
     loudest |-> [s \in SCHEMAS |-> LoudestOf(summary.fire, s)],
     biggest |-> summary.biggest, findings |-> summary.key_findings,
     hidden |-> HiddenBody(summary), unseen |-> UnseenBody(summary),
     progress |-> MigrationBody(selected, summary), advisory |-> AdvisoryRows(summary)]

-------------------------------------------------------------------------------
\* The figures the two pages of a published week share, and the projection on
\* the slides, are the same ("so an operator and a reader always see the same
\* figure", src/admin/summary.py).
SameFigures ==
    LET Same(review, operator, reader) ==
            /\ OperatorFigures(operator) = ReaderFigures(review, reader)
            /\ OperatorExtras(operator) = OperatorExtras(reader)
            /\ operator.inputs.daily = reader.inputs.daily
    IN  \A t \in Teams : \A r \in ledger[t] :
            Same(Review(r), Summarize(AdminSummary(r)), Summarize(PortalSummary(r)))
===============================================================================
