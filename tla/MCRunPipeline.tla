---------------------------- MODULE MCRunPipeline ----------------------------
(***************************************************************************)
(* Families of inputs for RunPipeline.  A day has three ticks and a window *)
(* two days, so that a window that begins inside a day touches three.      *)
(***************************************************************************)
EXTENDS RunPipeline

RUN_AT == 7   \* the window 1 .. 6: days 0 and 2 are partial
MIDNIGHT == 9 \* the window 3 .. 8: two whole days

Doc == [application |-> "shop", key_field |-> "k1", component |-> "cart", message |-> "disk full",
        severity |-> 5, operator |-> "shop-api", node_name |-> Null, alert_rule_url |-> "u",
        provider |-> "api", status |-> "firing", impact |-> "no checkout",
        runbook_url |-> "https://runbook", time_created |-> 0, at |-> 0, doc |-> 1]

AtTick(d, t) == [d EXCEPT !.at = t, !.time_created = t]

\* The feeds of length at most n whose rows, from kinds, come in time order.
Feeds(kinds, ticks, n) ==
    UNION {{[i \in 1 .. m |-> AtTick(f[i][1], f[i][2])] :
              f \in {g \in [1 .. m -> kinds \X ticks] : \A i \in 2 .. m : g[i - 1][2] <= g[i][2]}} :
           m \in 0 .. n}

Input(runAt, v1, v2, panels, llm, maxFaults) ==
    [run_at |-> runAt, feed |-> [v1 |-> v1, v2 |-> v2],
     panels |-> [v1 |-> panels, v2 |-> <<>>],
     operators |-> (IF v1 = <<>> THEN {} ELSE {"v1"}) \cup (IF v2 = <<>> THEN {} ELSE {"v2"}),
     llm |-> llm, faults |-> maxFaults]

\* One identity that fires and clears, from the API or from Grafana.
Fire(provider) == {[Doc EXCEPT !.provider = provider],
                   [Doc EXCEPT !.provider = provider, !.severity = 1]}
FiringInputs ==
    UNION {{Input(RUN_AT, f, <<>>, <<>>, FALSE, 0) : f \in Feeds(Fire(p), {1, 2, 4, 6}, 4)} :
           p \in {"api", "grafana"}}

\* Two nodes and a row without one, under panels that exclude or narrow on them.
Noded == {[Doc EXCEPT !.node_name = "n1"], [Doc EXCEPT !.node_name = "n2", !.key_field = "k2"], Doc}
ALeaf(kind, values) == [kind |-> kind, attribute |-> "node_name", values |-> values]
APanel(leaves) == [parsed |-> TRUE, leaves |-> leaves]
PanelSets ==
    {<<APanel(<<ALeaf("suppression", {"n1"})>>)>>,
     <<APanel(<<ALeaf("suppression", {"n1"}), ALeaf("suppression", {"n2"}), ALeaf("unmeasured", {})>>)>>,
     <<APanel(<<ALeaf("suppression", {"n1"})>>), APanel(<<ALeaf("identity", {"n2"})>>)>>,
     <<APanel(<<ALeaf("identity", {"n1"}), ALeaf("suppression", {"n2"})>>)>>,
     <<APanel(<<ALeaf("suppression", {"n1"})>>),
       APanel(<<ALeaf("suppression", {"n1", "n2"}), ALeaf("identity", {"n2"})>>)>>,
     <<APanel(<<ALeaf("suppression", {"n1"})>>), [parsed |-> FALSE, leaves |-> <<>>]>>}
PanelInputs ==
    {Input(MIDNIGHT, f, <<>>, p, FALSE, 0) : f \in Feeds(Noded, {4, 7}, 4), p \in PanelSets}

\* Rows that single rules hold of, and two hashes at one instant.
Judged == {[Doc EXCEPT !.message = "ok"], [Doc EXCEPT !.key_field = "k2", !.doc = 2],
           [Doc EXCEPT !.component = "test", !.doc = 3]}
Enriched == {[Doc EXCEPT !.impact = Null, !.key_field = "k2"], [Doc EXCEPT !.status = "resolved", !.doc = 2],
             [Doc EXCEPT !.runbook_url = NotAString, !.doc = 3]}
RuleInputs ==
    {Input(RUN_AT, f, g, <<>>, TRUE, 1) : f \in Feeds(Judged, {2, 3}, 3),
                                        g \in Feeds({[Doc EXCEPT !.impact = Null]}, {3}, 1)} \cup
    {Input(RUN_AT, f, g, <<>>, TRUE, 1) : f \in Feeds({Doc}, {2}, 1), g \in Feeds(Enriched, {2, 3}, 3)}

MCInputs == FiringInputs \cup PanelInputs \cup RuleInputs
===============================================================================
