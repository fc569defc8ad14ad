------------------------------ MODULE RuleEngine ------------------------------
(***************************************************************************)
(* What a run reports of one schema, defined over all its rows at once:    *)
(* src/rules/engine.py, src/domain/metrics.py, select_representative of    *)
(* src/domain/normalize.py and the rows a finding of                       *)
(* src/run/orchestrator.py is built from.  The streaming analysis of       *)
(* SchemaStream must arrive at the same figures.                           *)
(***************************************************************************)
EXTENDS FiringFacts, PanelLeaves

Identities(rows) == {rows[i].identity : i \in DOMAIN rows}
RowsOf(rows, id) == {i \in DOMAIN rows : rows[i].identity = id}
RowsOn(rows, d) == {i \in DOMAIN rows : rows[i].date = d}

\* The latest row; among equally late ones the least document hash, then the first.
Representative(rows, id) ==
    LET I == RowsOf(rows, id)
        best == {i \in I : \A j \in I : \/ rows[j].at < rows[i].at
                                        \/ rows[j].at = rows[i].at /\ rows[i].doc <= rows[j].doc}
    IN  rows[Min(best)]

FactsOf(rows, id) ==
    Facts(Ordered(rows, RowsOf(rows, id)), Representative(rows, id).provider)

\* Every rule that holds of a row: R6 of its identity, R5 of its panels, the rest its own.
RowFindings(rows, panels) ==
    LET suppressed == SuppressedRows(panels, rows)
        firing == {id \in Identities(rows) : FactsOf(rows, id).pattern # Null}
    IN  [i \in DOMAIN rows |->
            CoreRules(rows[i]) \cup ReadinessRules(rows[i])
                \cup (IF rows[i].identity \in firing THEN {"R6"} ELSE {})
                \cup (IF i \in suppressed THEN {"R5"} ELSE {})]

\* A rule's matched rows and the first of them, which is its sample.
Evidence(rows, findings, id) ==
    [r \in UNION {findings[i] : i \in RowsOf(rows, id)} |->
        LET matched == {i \in RowsOf(rows, id) : r \in findings[i]}
        IN  [matched_rows |-> Cardinality(matched), sample |-> Min(matched)]]

IdentityReport(rows, panels, findings, id) ==
    LET rep == Representative(rows, id)
        at == {rows[i].at : i \in RowsOf(rows, id)}
    IN  [representative |-> rep,
         row_count |-> Cardinality(RowsOf(rows, id)),
         first_seen |-> Min(at),
         last_seen |-> Max(at),
         core_rule_ids |-> CORE \cap UNION {findings[i] : i \in RowsOf(rows, id)},
         readiness_rule_ids |-> ReadinessRules(rep),
         evidence |-> Evidence(rows, findings, id),
         firing |-> FactsOf(rows, id),
         unseen |-> IF panels = <<>> THEN Null
                    ELSE RowsOf(rows, id) \cap UnseenRows(panels, rows) # {}]

-------------------------------------------------------------------------------
DailyVolume(rows, d) ==
    LET day == {rows[i] : i \in RowsOn(rows, d)}
        noded == {r \in day : ~Blank(r.node_name)}
    IN  [alerts |-> Cardinality(RowsOn(rows, d)),
         distinct_alerts |-> Cardinality({r.identity : r \in day}),
         node_name_numerator |-> Cardinality({<<Scope(r), r.node_name>> : r \in noded}),
         node_name_denominator |-> Cardinality({Scope(r) : r \in noded}),
         key_inflation_numerator |-> Cardinality({r.identity : r \in day}),
         key_inflation_denominator |-> Cardinality({Scope(r) : r \in day})]

\* Rows and identities of a day: <<count, distinct>>.
Tally(rows, I) == <<Cardinality(I), Cardinality({rows[i].identity : i \in I})>>

DailyFlagged(rows, findings, d) ==
    Tally(rows, {i \in RowsOn(rows, d) : findings[i] \cap CORE # {}})

DailyRules(rows, findings, d) ==
    [r \in UNION {findings[i] : i \in RowsOn(rows, d)} |->
        Tally(rows, {i \in RowsOn(rows, d) : r \in findings[i]})]
===============================================================================
