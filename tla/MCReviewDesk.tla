----------------------------- MODULE MCReviewDesk -----------------------------
(***************************************************************************)
(* The subjects of ReviewDesk.  A day is one instant and a window a week.  *)
(***************************************************************************)
EXTENDS PanelDesk

(* Panels.                                                                 *)
Field(name) == Operand("field", name, FALSE)
Text(t) == Operand("literal", t, FALSE)
Var(v) == Operand("variable", v, FALSE)
Compare(f, op, o) == Leaf5("comparison", Field(f), op, <<o>>, FALSE)
In(f, os, neg) == Leaf5("in", Field(f), "IN", os, neg)
TimeFilter == Leaf5("call", Operand("call", "__timeFilter", TRUE), "call", <<>>, FALSE)

MCVariables == [nodes |-> [type |-> "custom", values |-> {"n1", "n2"}, all |-> FALSE],
                every |-> [type |-> "custom", values |-> {"n1", "n2"}, all |-> TRUE],
                one |-> [type |-> "constant", values |-> {"n2"}, all |-> FALSE],
                asked |-> [type |-> "query", values |-> {}, all |-> FALSE]]
MCLikeMatches == [p \in {"n%", "n1", "n2"} |-> IF p = "n%" THEN {"n1", "n2"} ELSE {p}]
MCFolded == [t \in {"n1", "N1", "n2", "disk", "sre", "ops"} |-> IF t = "N1" THEN "n1" ELSE t]
MCPanelRows == [node_name : {"n1", "N1", "n2", Null}, message : {"disk"}, operator : {"sre", "ops"}]

Suppressing ==
    {Compare("node_name", "!=", Text("n1")), Compare("node_name", "<>", Var("nodes")),
     In("node_name", <<Text("n1"), Var("one")>>, TRUE),
     In("node_name", <<Text("n1"), Var("asked")>>, TRUE), In("node_name", <<>>, TRUE),
     Leaf5("like", Field("node_name"), "LIKE", <<Text("n%")>>, TRUE),
     Compare("message", "!=", Text("disk")), Compare("node_name", "!=", Field("message"))}
Narrowing ==
    {Compare("node_name", "=", Text("n1")), In("node_name", <<Var("nodes")>>, FALSE),
     In("node_name", <<Text("n2"), Var("every")>>, FALSE), Compare("operator", "=", Text("sre")),
     Leaf5("like", Field("node_name"), "LIKE", <<Text("n%")>>, FALSE),
     Compare("node_name", "=", Var("gone"))}
Neutral ==
    {Compare("severity", "!=", Text("info")), Compare("message", "=", Text("disk")),
     Compare("operator", "!=", Text("sre")),
     Leaf5("is_null", Field("node_name"), "IS", <<>>, TRUE),
     Leaf5("between", Field("node_name"), "BETWEEN", <<Text("n1"), Text("n2")>>, TRUE), TimeFilter}
Predicates == Suppressing \union Narrowing \union Neutral
Few == {Compare("node_name", "!=", Text("n1")), In("node_name", <<Var("nodes")>>, FALSE), TimeFilter}

Nots(S) == {[type |-> "not", operand |-> n] : n \in S}
Both(S, T) == {Binary(op, l, r) : op \in {"and", "or"}, l \in S, r \in T}
Small == Predicates \union Nots(Predicates) \union Both(Predicates, Predicates)
Trees == Small \union Both(Both(Predicates, Few), Few)
               \union Both(Few, Both(Few, Few) \union Nots(Few))
               \union Nots(Both(Few, Few)) \union Both(Nots(Both(Few, Few)), Few)
PanelDesks == {[kind |-> "panel", tree |-> t] : t \in Trees}

(* Alerts to assess.                                                       *)
ToAssess(schema, app, key, rule, fields) ==
    [schema |-> schema, application |-> app, key_field |-> key, rule |-> rule,
     severity |-> "critical", provider |-> "api", source |-> fields]
Doc1 == [message |-> "m1", object |-> "o", impact |-> "i"]
Doc2 == [message |-> "m2", object |-> "o", impact |-> "i"]
Doc3 == [message |-> "m1", object |-> "o"]
A1 == ToAssess("v1", 1, 1, 1, Doc1)
A2 == ToAssess("v2", 1, 1, 1, Doc2)  \* the identity of A1
A3 == ToAssess("v2", 2, 1, 1, Doc3)
A4 == ToAssess("v1", 1, 3, NoRule, Doc3)
A5 == [ToAssess("v2", 1, 2, NoRule, Doc1) EXCEPT !.severity = "warning"]
Many(n) == [k \in 1 .. n |-> ToAssess("v1", k % 2, n - k, 1, Doc1)]
ExchangeDesks ==
    {[kind |-> "exchange", alerts |-> x[1], configured |-> x[2]] :
        x \in {<<<<A2, A1>>, 1>>, <<<<A2, A1>>, 2>>, <<<<A3, A1>>, 2>>, <<<<A4, A5>>, 2>>,
               <<<<A1, A4, A3>>, 2>>, <<<<A3, A5, A1>>, 1>>}
              \union {<<Many(n), c>> : n \in 4 .. 9, c \in 2 .. 5}}

Says(id, assessment, principle, confidence) ==
    [alert_id |-> id, assessment |-> assessment, principle |-> principle,
     confidence |-> confidence, closed |-> TRUE]
VerdictsOf(id) ==
    {Says(id, "no_violation", "NONE", "low"), Says(id, "catalog_violation", "P1", "high"),
     Says(id, "catalog_violation", "P7", "medium")}
Nobody == <<"v1", 9, 9>>
\* Up to two batches of up to two alerts are answered in every way, more or larger ones in two.
MCResponses(batch) ==
    LET ids == Range(batch.ids)
        good(order) == [k \in DOMAIN order |-> Says(order[k], "no_violation", "NONE", "high")]
        said == UNION {VerdictsOf(id) : id \in ids}
                    \union {Says(Nobody, "no_violation", "NONE", "high"),
                            Says(batch.ids[1], "other", "P1", "high")}
        Lists == UNION {[1 .. n -> said] : n \in 0 .. Cardinality(ids) + 1}
        verdicts == IF Cardinality(ids) <= 2 /\ batch.count <= 2 THEN Lists ELSE {good(batch.ids), good(Tail(batch.ids))}
    IN  {[batch_id |-> BatchId(batch), verdicts |-> v] : v \in verdicts}
        \union {[batch_id |-> <<"another">>, verdicts |-> good(batch.ids)]}

(* Weeks.                                                                  *)
CONSTANTS A, B, a1, a2, a3, a4, a5, r3, b2

Seen(schema, app, key, day, count) ==
    [schema |-> schema, application |-> app, key_field |-> key, url |-> Null,
     node |-> app, severity |-> "warning", row_count |-> count, first_seen |-> day, last_seen |-> day + 1,
     open_since |-> Null, state |-> "assessed_good", core |-> {}, readiness |-> {},
     principle |-> Null, pattern |-> "steady", unseen |-> Null]
OfRule(u, day, count) == [Seen("v1", u % 2, u, day, count) EXCEPT !.url = u]
Flagged(a, rules) == [a EXCEPT !.state = "rule_flagged", !.core = rules]

\* Everything a run derives from its alerts, each of which fired on one day.
Day(s, d, on, flagged, hidden, unseen) ==
    [schema |-> s, day |-> d, covered |-> 1, alerts |-> Rows(on), distinct_alerts |-> Cardinality(on),
     flagged_by_rule |-> Rows(flagged), flagged_distinct |-> Cardinality(flagged),
     suppressed |-> Rows(hidden), unseen |-> unseen, unmeasured |-> 0,
     unseen_unmeasured |-> IF unseen = Null THEN Null ELSE 0]
RuleDay(k, carriers) ==
    [schema |-> k[1], day |-> k[2], rule |-> k[3], match_count |-> Rows(carriers),
     distinct_count |-> Cardinality(carriers)]
FiredOn(alerts, s, d) == {a \in alerts : a.schema = s /\ a.first_seen = d}
DayOf(s, d, on, measured) ==
    Day(s, d, on, {a \in on : a.core # {}}, {a \in on : "R5" \in a.core},
        IF measured THEN Rows({a \in on : a.unseen = TRUE}) ELSE Null)
\* An alert with an empty impact had no runbook either until its last row.
HadOn(a) == a.core \union a.readiness \union (IF a.readiness = {"R8"} THEN {"R9"} ELSE {})
Stored(start, ruleset, snapshot, phase, alerts) ==
    [ruleset |-> ruleset, snapshot |-> snapshot, phase |-> phase, readiness |-> 50, alerts |-> alerts,
     daily |-> {[DayOf(s, d, FiredOn(alerts, s, d), \E a \in alerts : a.schema = s /\ a.unseen # Null)
                    EXCEPT !.unmeasured = IF s = "v1" /\ d = start /\ phase # "phase_0" THEN 1 ELSE 0] :
                    s \in SCHEMAS, d \in start .. start + WeekLength - 1},
     counts |-> {c \in {RuleDay(k, {a \in FiredOn(alerts, k[1], k[2]) : k[3] \in HadOn(a)}) :
                            k \in SCHEMAS \X (start .. start + WeekLength - 1) \X (CORE \union READINESS)} :
                     c.distinct_count > 0}]

Entry(panels, effort) == [v1 |-> "op", panels |-> panels, v2 |-> "op2", effort |-> effort]
Quality(d) ==
    {Flagged(OfRule(1, d, 4), {"R1", "R5"}), Flagged(OfRule(2, d + 1, 2), {"R2"})}
Enriched(d) ==
    {[Seen("v2", 1, 1, d, 3) EXCEPT !.readiness = {"R8"}, !.unseen = FALSE],
     [Seen("v2", 1, 2, d, 3) EXCEPT !.unseen = TRUE, !.severity = "critical", !.readiness = {"R9"}],
     [Seen("v2", 2, 3, d + 2, 1) EXCEPT !.unseen = FALSE, !.state = "llm_flagged", !.principle = "P1"]}

MCRunTeam == [r \in {a1, a2, a3, r3, a4, a5, b2} |-> IF r = b2 THEN B ELSE A]
MCRunStart ==
    [r \in {a1, a2, a3, r3, a4, a5, b2} |->
        CASE r = a1 -> 0 [] r \in {a2, b2} -> 7 [] r \in {a3, r3} -> 14 [] r = a4 -> 21 [] r = a5 -> 28]
MCRunEnd == [r \in {a1, a2, a3, r3, a4, a5, b2} |-> MCRunStart[r] + WeekLength]
AlertsIn(r, d) ==
    CASE r = b2 -> {}
      [] r \in {a1, a2, r3, a5} ->
            Quality(d) \union (IF r \in {a1, a2} THEN {OfRule(u, IF r = a1 THEN 0 ELSE 8, 1) :
                                                            u \in 3 .. IF r = a1 THEN 6 ELSE 5}
                               ELSE Enriched(IF r = a5 THEN 29 ELSE d))
      [] OTHER ->
            (IF r = a3 THEN {OfRule(u, 14, u) : u \in 1 .. 4}
             ELSE {OfRule(u, 22, 2) : u \in 1 .. 3}
                      \union {[OfRule(7, 21, 9) EXCEPT !.state = "unassessed", !.url = 1]})
            \union Enriched(d)
EntryOf(r) ==
    IF r = b2 THEN Null
    ELSE Entry(IF r = r3 THEN "q" ELSE "p", CASE r \in {a1, a2} -> Null [] r = a5 -> 50 [] OTHER -> 75)
PhaseIn(r) == CASE r \in {a1, a2} -> "phase_0" [] r = b2 -> "no_data" [] OTHER -> "phase_1"
MCFacts ==
    [r \in {a1, a2, a3, r3, a4, a5, b2} |->
        Stored(MCRunStart[r], IF r = a1 THEN 1 ELSE 2, EntryOf(r), PhaseIn(r), AlertsIn(r, MCRunStart[r]))]

Filter(schema, state, rule, attention) ==
    [schema |-> schema, state |-> state, rule |-> rule, attention |-> attention]
MCFilters ==
    {Filter("all", "all", "", TRUE), Filter("all", "all", "", FALSE), Filter("v2", "all", "R8", TRUE),
     Filter("v1", "rule_flagged", "", FALSE)}
Request(tab, team, week, filter, number, alert) ==
    [tab |-> tab, team |-> team, week |-> week, filter |-> filter, number |-> number, alert |-> alert]
MCRequests ==
    LET any == Filter("all", "all", "", FALSE)
    IN  {Request("overview", A, Null, any, 1, Null), Request("migration", A, 28, any, 1, Null),
         Request("fix", A, Null, any, 9, Null), Request("overview", B, Null, any, 1, Null),
         Request("alert", A, 35, any, 1, <<2, 1, 2>>), Request("history", A, Null, any, 1, Null)}

(* Runs and the runs the acceptance check is shown in their place.         *)
Refiled(run) == [run EXCEPT !.csv = ReportOf(run)]
Reported(f) ==
    Refiled([phase |-> f.phase, readiness |-> f.readiness, daily |-> f.daily, counts |-> f.counts,
             alerts |-> f.alerts, csv |-> Null])
Changed(S, x, y) == (S \ {x}) \union {y}
\* One row of one table differs, is missing or is one too many, or two alerts have
\* each other's state; and the report is of that, or has lost a line.
Tampered(run) ==
    {Refiled(other) : other \in
        UNION {{[run EXCEPT !.daily = Changed(@, d, [d EXCEPT !.alerts = @ + 1])],
                [run EXCEPT !.daily = Changed(@, d, [d EXCEPT !.flagged_by_rule = @ + 1])],
                [run EXCEPT !.daily = Changed(@, d, [d EXCEPT !.unseen_unmeasured = 1])],
                [run EXCEPT !.daily = @ \ {d}]} : d \in run.daily}
        \union UNION {{[run EXCEPT !.counts = @ \ {c}],
                       [run EXCEPT !.counts = @ \union {[c EXCEPT !.rule = "R7"]}],
                       [run EXCEPT !.counts = Changed(@, c, [c EXCEPT !.rule = "R7"])]} : c \in run.counts}
        \union UNION {{[run EXCEPT !.alerts = Changed(@, a, [a EXCEPT !.pattern = "flapping"])],
                       [run EXCEPT !.alerts = Changed(@, a, [a EXCEPT !.state = "needs_review"])],
                       [run EXCEPT !.alerts = Changed(@, a, [a EXCEPT !.core = @ \union {"R5"}])],
                       [run EXCEPT !.alerts = Changed(@, a, [a EXCEPT !.node = 2])],
                       [run EXCEPT !.alerts = @ \ {a}]} : a \in run.alerts}
        \union {[run EXCEPT !.alerts = (@ \ {a, b}) \union {[a EXCEPT !.state = b.state],
                                                            [b EXCEPT !.state = a.state]}] :
                    a, b \in run.alerts}
        \union {[run EXCEPT !.phase = "done"], [run EXCEPT !.readiness = Null], run}}
    \union {[run EXCEPT !.csv.days = @ - 1], [run EXCEPT !.csv.worklist = @ - 1],
            [run EXCEPT !.csv.alerts = @ + 1]}
ManifestDesks ==
    UNION {{[kind |-> "manifest", run |-> run, other |-> other] :
               other \in Tampered(run) \union Tampered(Reported(MCFacts[b2]))} :
           run \in {Reported(MCFacts[r]) : r \in {a2, a3, a5, b2}}}

(* Documents of teams.                                                     *)
Variable(name, type, value, values) ==
    [name |-> name, type |-> type, value |-> value, values |-> values]
Constant1 == Variable("v", "constant", "n1", Null)
Panel(id, variables) == [id |-> id, variables |-> variables]
PanelLists ==
    {<<>>, <<Panel(1, <<Constant1>>), Panel(2, <<Constant1>>)>>, <<Panel(1, <<>>), Panel(1, <<>>)>>,
     <<Panel(1, <<Constant1, Variable("v", "query", Null, Null)>>)>>,
     <<Panel(1, <<Variable("w", "custom", Null, Null)>>)>>,
     <<Panel(1, <<Variable("w", "interval", Null, Null), Variable("x", "custom", Null, "n1")>>)>>}
MCOperators == {"a", "b", "c"}
Team(id, v1, v2, panels) == [team_id |-> id, v1_operators |-> v1, v2_operator |-> v2, panels |-> panels]
Entries == {Team(id, v1, v2, <<>>) : id \in {"t", "u"}, v1 \in {<<>>, <<"a">>, <<"a", "b">>},
                                     v2 \in {Null, "a", "c"}}
RegistryDesks ==
    {[kind |-> "registry", document |-> d] :
        d \in UNION {[1 .. n -> Entries] : n \in 1 .. 2}
              \union {<<x, y, Team("w", v1, "b", <<>>)>> : x, y \in Entries, v1 \in {<<>>, <<"c">>}}
              \union {<<Team("t", <<"a">>, Null, p)>> : p \in PanelLists}}

MCDesks == PanelDesks \union ExchangeDesks \union ManifestDesks \union RegistryDesks
               \union {[kind |-> "weeks"]}
===============================================================================
