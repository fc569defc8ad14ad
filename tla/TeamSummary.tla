------------------------------ MODULE TeamSummary ------------------------------
(***************************************************************************)
(* The summary of a week, made of SummaryInputs: src/insights/.  It is one *)
(* function of its inputs, used by both surfaces, and the figures each     *)
(* surface puts on its page are read from it: summary_view.py for the      *)
(* operator, tabs.py for the reader.                                       *)
(***************************************************************************)
EXTENDS WeekFacts

CONSTANTS
    DEFAULT_V1_RULE_EFFORT,  \* hundredths of a day
    TOP_LISTED,              \* rows of a list of alerts
    TOP_LOUD                 \* rows of a schema's loudest alerts

ASSUME ListsAssumption == TOP_LISTED \in Nat

\* Catalogue order: R1 .. R10, not the order of the names.
RuleOrder == [r \in CORE \union READINESS |->
    CASE r = "R1" -> 1 [] r = "R2" -> 2 [] r = "R3" -> 3 [] r = "R4" -> 4 [] r = "R5" -> 5
      [] r = "R6" -> 6 [] r = "R7" -> 7 [] r = "R8" -> 8 [] r = "R9" -> 9 [] r = "R10" -> 10]

FirstRule(rules) == CHOOSE r \in rules : \A q \in rules : RuleOrder[r] <= RuleOrder[q]

Rows(alerts) == MapThenSumSet(LAMBDA a : a.row_count, alerts)

-------------------------------------------------------------------------------
(* Time to retire v1 (src/insights/estimate.py).                           *)

LOOKBACK_WEEKS == 3
MIN_EARLIER_WEEKS == 2
MIN_RETIRED == 2

\* "Older weeks cannot change the estimate, so they are never read."
ASSUME ReachAssumption == HISTORY_WEEKS > LOOKBACK_WEEKS

\* How far back from the last week an unbroken, equally measured history goes.
LookbackStops(history, i) ==
    \/ history[i + 1].basis_changed
    \/ history[i + 1].week_end - history[i].week_end # WeekLength

EarlierWeeks(history) ==
    LET n == Len(history)
        Unbroken(k) == \A i \in n - k .. n - 1 : ~LookbackStops(history, i)
        most == CHOOSE k \in 0 .. Earlier(LOOKBACK_WEEKS, n - 1) :
                    /\ Unbroken(k)
                    /\ \A j \in 0 .. Earlier(LOOKBACK_WEEKS, n - 1) : Unbroken(j) => j <= k
        stop == n - 1 - most
    IN  [weeks |-> {history[i].v1_rules : i \in n - most .. n - 1}, found |-> most,
         stop |-> CASE most = LOOKBACK_WEEKS -> "full"
                    [] stop = 0 -> "start"
                    [] history[stop + 1].basis_changed -> "basis"
                    [] OTHER -> "gap"]

CeilDiv(a, b) == (a + b - 1) \div b

Estimate(inputs) ==
    LET left == Cardinality(V1Rules(inputs.alerts))
        each == IF inputs.effort # Null THEN inputs.effort ELSE DEFAULT_V1_RULE_EFFORT
        Answer(lookback, retired, projected, reason) ==
            [rules_left |-> left, lookback |-> lookback, retired |-> retired,
             projected |-> projected, reason |-> reason,
             override |-> inputs.effort # Null, effort |-> left * each]
        n == Len(inputs.history)
        earlier == EarlierWeeks(inputs.history)
        retired == Cardinality((UNION earlier.weeks) \ inputs.history[n].v1_rules)
    IN  CASE ~inputs.published \/ n = 0 -> Answer(0, Null, Null, "not published")
          [] earlier.found < MIN_EARLIER_WEEKS ->
                 Answer(earlier.found, Null, Null, earlier.stop)
          [] retired < MIN_RETIRED -> Answer(earlier.found, retired, Null, "too few retired")
          [] OTHER ->
                 \* ceil(left / (retired / weeks)) weeks after the selected one
                 Answer(earlier.found, retired,
                        inputs.history[n].week_end
                            + WeekLength * CeilDiv(left * earlier.found, retired), Null)

-------------------------------------------------------------------------------
(* Groups, orders and the biggest source (src/insights/aggregate.py).      *)

Identity(a) == <<IF a.schema = "v1" THEN 1 ELSE 2, a.application, a.key_field>>
Smaller(x, y) ==
    \E i \in 1 .. Len(x) : x[i] < y[i] /\ \A j \in 1 .. i - 1 : x[j] = y[j]

\* The most events first, then by identity.
LouderFirst(alerts) ==
    SortedBy(alerts, LAMBDA a, b :
        a.row_count > b.row_count \/ (a.row_count = b.row_count /\ Smaller(Identity(a), Identity(b))))

Biggest(alerts) == IF alerts = {} THEN Null ELSE
    CHOOSE a \in alerts : \A b \in alerts : b # a =>
        Smaller(<<-a.row_count, Identity(a)[1], a.key_field, a.application>>,
                <<-b.row_count, Identity(b)[1], b.key_field, b.application>>)

ByApplication(alerts) ==
    {LET members == {a \in alerts : <<a.application, a.schema>> = k}
         Of(state) == InState(members, state)
     IN  [application |-> k[1], schema |-> k[2], alerts |-> Cardinality(members),
          events |-> Rows(members),
          rule_flagged |-> <<Cardinality(Of("rule_flagged")), Rows(Of("rule_flagged"))>>,
          llm_flagged |-> <<Cardinality(Of("llm_flagged")), Rows(Of("llm_flagged"))>>,
          rules |-> UNION {a.core : a \in members}] :
     k \in {<<a.application, a.schema>> : a \in alerts}}

\* One row per alert: how long it was active, and how long its open episode fires.
FireRows(alerts) ==
    LET order == LouderFirst(alerts)
    IN  [k \in DOMAIN order |->
        LET a == order[k]
        IN  [alert |-> a, span |-> a.last_seen - a.first_seen,
             open |-> IF a.open_since = Null THEN Null ELSE a.last_seen - a.open_since,
             pattern |-> a.pattern]]

\* Each rule-flagged alert under its first rule in catalogue order.
PrimaryRuleCounts(alerts, schema) ==
    LET flagged == {a \in InState(AlertsOf(alerts, schema), "rule_flagged") : a.core # {}}
    IN  [r \in {FirstRule(a.core) : a \in flagged} |->
            Cardinality({a \in flagged : FirstRule(a.core) = r})]
-------------------------------------------------------------------------------
(* Key findings (src/insights/findings.py): [kind, rule, figures].         *)

MAX_FINDINGS == 5
NoFinding == [kind |-> "none", rule |-> Null, figures |-> {}]
Finding(kind, rule, figures) == [kind |-> kind, rule |-> rule, figures |-> figures]

Critical(a) == a.severity = "critical"
Ready(a) == a.readiness \cap {"R8", "R10"} = {} /\ ~(Critical(a) /\ "R9" \in a.readiness)
CriticalWithoutRunbook(alerts) ==
    {a \in AlertsOf(alerts, "v2") : Critical(a) /\ "R9" \in a.readiness}

\* Over both schemas the rule with the most events, described where it is biggest.
Largest(rules, alerts) ==
    LET Total(r) == MapThenSumSet(LAMBDA t : t.events, {t \in rules : t.rule = r})
        noisy == {r \in CORE : Total(r) > 0}
        rule == CHOOSE r \in noisy : \A q \in noisy \ {r} :
                    Smaller(<<-Total(r), RuleOrder[r]>>, <<-Total(q), RuleOrder[q]>>)
        per == {t \in rules : t.rule = rule}
        where == CHOOSE t \in per : \A u \in per \ {t} :
                     t.events > u.events \/ (t.events = u.events /\ t.schema = "v1")
        carriers == {a \in AlertsOf(alerts, where.schema) : rule \in a.core}
        others == {a.core \ {rule} : a \in carriers}
        also == IF Cardinality(others) = 1 /\ \E s \in others : Cardinality(s) = 1
                THEN UNION others ELSE {}
    IN  IF noisy = {} THEN NoFinding
        ELSE Finding("largest", rule, {<<where.schema, where.events, where.alerts, also>>})

\* The schemas a figure is told of, never added together.
Parts(counts) == {<<s, counts[s]>> : s \in {t \in SCHEMAS : counts[t] > 0}}
StateCount(totals, state) == IF state \in DOMAIN totals.states THEN totals.states[state] ELSE 0

Unassessed(schemas) ==
    LET parts == Parts([s \in SCHEMAS |-> StateCount(schemas[s], "unassessed")])
    IN  IF parts = {} THEN NoFinding ELSE Finding("unassessed", Null, parts)

LouderSchema(schemas) == IF schemas["v2"].events > schemas["v1"].events THEN "v2" ELSE "v1"

\* The fewest alerts that make four fifths of the louder schema's events.
Concentration(schema, alerts) ==
    LET order == LouderFirst(AlertsOf(alerts, schema))
        n == Len(order)
        total == Rows(AlertsOf(alerts, schema))
        Upto(k) == Rows({order[i] : i \in 1 .. k})
        k == CHOOSE k \in 1 .. n : Upto(k) * 5 >= total * 4
                                     /\ \A j \in 1 .. k - 1 : Upto(j) * 5 < total * 4
    IN  IF n <= 2 \/ total <= 0 THEN NoFinding
        ELSE IF k >= n THEN NoFinding
        ELSE Finding("concentration", Null, {<<schema, k, n, Upto(k), total>>})

HiddenFinding(schemas) ==
    LET parts == Parts([s \in SCHEMAS |-> schemas[s].suppressed])
    IN  IF parts = {} THEN NoFinding ELSE Finding("hidden", "R5", parts)

UnseenFinding(schemas) ==
    LET shown == {s \in SCHEMAS : Coalesce(schemas[s].unseen) > 0}
    IN  IF shown = {} THEN NoFinding
        ELSE Finding("unseen", Null,
                     {<<s, Coalesce(schemas[s].unseen_alerts), schemas[s].unseen>> :
                         s \in shown})

Readiness(alerts) ==
    LET v2 == AlertsOf(alerts, "v2")
    IN  IF v2 = {} THEN NoFinding
        ELSE Finding("readiness", Null,
                     {<<"v2", Cardinality({a \in v2 : Ready(a)}), Cardinality(v2),
                        Cardinality(CriticalWithoutRunbook(v2))>>})

FirstFound(candidates) ==
    LET found == SelectSeq(candidates, LAMBDA f : f.kind # "none")
    IN  SubSeq(found, 1, Earlier(MAX_FINDINGS, Len(found)))

KeyFindings(inputs) ==
    FirstFound(<<Largest(inputs.rules, inputs.alerts), Unassessed(inputs.schemas),
                 Concentration(LouderSchema(inputs.schemas), inputs.alerts),
                 HiddenFinding(inputs.schemas), UnseenFinding(inputs.schemas),
                 Readiness(inputs.alerts)>>)

Summarize(inputs) ==
    [inputs |-> inputs, key_findings |-> KeyFindings(inputs),
     by_application |-> ByApplication(inputs.alerts), fire |-> FireRows(inputs.alerts),
     biggest |-> Biggest(inputs.alerts), estimate |-> Estimate(inputs)]
===============================================================================
