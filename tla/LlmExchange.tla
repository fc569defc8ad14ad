------------------------------ MODULE LlmExchange ------------------------------
(***************************************************************************)
(* What is sent to the model and what is accepted from it: the batches     *)
(* (src/llm/grouping.py), the request of a batch (src/llm/request.py), the *)
(* check of its response (src/llm/response.py) and the outcome of each     *)
(* alert (src/llm/assess.py).                                              *)
(*                                                                         *)
(* An alert is [schema, application, key_field, rule, severity, provider,  *)
(* source]; names that the code sorts are numbers, a rule without a usable *)
(* URL is NoRule, and "source" is the document, a function of its fields.  *)
(***************************************************************************)
EXTENDS Integers, Sequences, FiniteSets, SequencesExt, Orders

CONSTANTS MAX_BATCH_SIZE, NoRule

TransportId(alert) == <<alert.schema, alert.application, alert.key_field>>

\* By the rule's URL, or by the application of an alert without one.
GroupKey(alert) ==
    IF alert.rule # NoRule THEN <<"alert_rule_url", alert.rule>>
    ELSE <<"application", alert.application>>

\* Rule groups come before application groups, as their names sort.
KeyBefore(a, b) ==
    IF a[1] = b[1] THEN a[2] < b[2] ELSE a[1] = "alert_rule_url"

\* By key_field, then application; what still ties keeps its order in the run.
MemberBefore(alerts, i, j) ==
    \/ alerts[i].key_field < alerts[j].key_field
    \/ alerts[i].key_field = alerts[j].key_field
           /\ \/ alerts[i].application < alerts[j].application
              \/ alerts[i].application = alerts[j].application /\ i < j

\* The alerts of a group, by their places in the run.
MembersOf(alerts, key) ==
    SortedBy({i \in DOMAIN alerts : GroupKey(alerts[i]) = key},
             LAMBDA i, j : MemberBefore(alerts, i, j))

KeysOf(alerts) == SortedBy({GroupKey(alerts[i]) : i \in DOMAIN alerts}, KeyBefore)

GroupAlerts(alerts) ==
    LET keys == KeysOf(alerts)
    IN  [g \in DOMAIN keys |->
            LET members == MembersOf(alerts, keys[g])
            IN  [key |-> keys[g], alerts |-> [k \in DOMAIN members |-> alerts[members[k]]]]]

\* ceil(n / maximum) parts that differ by at most one, the larger ones first.
PartitionSizes(n, maximum) ==
    LET count == (n + maximum - 1) \div maximum
    IN [i \in 1 .. count |-> n \div count + (IF i <= n % count THEN 1 ELSE 0)]

\* A mutant: full parts and a tail.
FullThenTail(n, maximum) ==
    LET count == (n + maximum - 1) \div maximum
    IN [i \in 1 .. count |-> IF i < count THEN maximum ELSE n - maximum * (count - 1)]

Cap(configured) == IF configured < MAX_BATCH_SIZE THEN configured ELSE MAX_BATCH_SIZE

\* Where the parts end.
OffsetsOf(sizes) ==
    LET Offset[i \in 0 .. Len(sizes)] == IF i = 0 THEN 0 ELSE Offset[i - 1] + sizes[i]
    IN  Offset

BatchesOf(group, cap) ==
    LET sizes == PartitionSizes(Len(group.alerts), cap)
        offset == OffsetsOf(sizes)
    IN [i \in DOMAIN sizes |->
           LET members == SubSeq(group.alerts, offset[i - 1] + 1, offset[i])
           IN [key |-> group.key, index |-> i, count |-> Len(sizes), alerts |-> members,
               ids |-> [k \in DOMAIN members |-> TransportId(members[k])]]]

BuildBatches(alerts, configured) ==
    LET groups == GroupAlerts(alerts)
    IN FlattenSeq([g \in DOMAIN groups |-> BatchesOf(groups[g], Cap(configured))])

\* The order is turned around for a recorded evaluation trial only.
ReverseForEvaluation(batch) ==
    [batch EXCEPT !.alerts = Reverse(batch.alerts), !.ids = Reverse(batch.ids)]

\* It names the membership and its order.
BatchId(batch) == <<batch.key, batch.index, batch.ids>>

-------------------------------------------------------------------------------
\* The request: what every document says alike is said once.
SharedFieldNames(batch) ==
    {f \in DOMAIN batch.alerts[1].source :
        \A k \in DOMAIN batch.alerts :
            /\ f \in DOMAIN batch.alerts[k].source
            /\ batch.alerts[k].source[f] = batch.alerts[1].source[f]}

\* A mutant: a field that some documents lack is taken for shared.
SharedWherePresent(batch) ==
    {f \in DOMAIN batch.alerts[1].source :
        \A k \in DOMAIN batch.alerts :
            f \in DOMAIN batch.alerts[k].source =>
                batch.alerts[k].source[f] = batch.alerts[1].source[f]}

BuildRequest(batch) ==
    LET shared == SharedFieldNames(batch)
    IN [batch_id |-> BatchId(batch),
        shared |-> [f \in shared |-> batch.alerts[1].source[f]],
        alerts |-> [k \in DOMAIN batch.alerts |->
                       [alert_id |-> batch.ids[k], schema |-> batch.alerts[k].schema,
                        fields |-> [f \in DOMAIN batch.alerts[k].source \ shared |->
                                       batch.alerts[k].source[f]]]]]

ReconstructDocument(request, k) ==
    LET own == request.alerts[k].fields
    IN [f \in DOMAIN own \cup DOMAIN request.shared |->
           IF f \in DOMAIN own THEN own[f] ELSE request.shared[f]]

\* Asserted before the first attempt.
IsLossless(batch) ==
    \A k \in DOMAIN batch.alerts : ReconstructDocument(BuildRequest(batch), k) = batch.alerts[k].source

-------------------------------------------------------------------------------
\* The response, [batch_id, verdicts]; a verdict is [alert_id, assessment,
\* principle, confidence, closed], "closed" telling that it has the fields of
\* the contract, well typed, and no other.
CITABLE_IDS ==
    {"P1", "P2", "P3", "P4", "P5", "P6", "P7", "P8", "P9", "P10", "P11",
     "R1", "R2", "R3", "R4", "R5", "R6", "R7", "R8", "R9", "R10"}

WellPaired(verdict) ==
    CASE verdict.assessment = "no_violation" -> verdict.principle = "NONE"
      [] verdict.assessment = "other" -> verdict.principle = "OTHER"
      [] verdict.assessment = "catalog_violation" -> verdict.principle \in CITABLE_IDS
      [] OTHER -> FALSE

ValidVerdict(verdict) ==
    verdict.closed /\ verdict.confidence \in {"high", "medium", "low"} /\ WellPaired(verdict)

\* Objective scope only: what a principle cannot be said of.
Applicable(verdict, alert) ==
    /\ verdict.principle \in {"P7", "P8", "P9", "R8", "R9", "R10"} => alert.schema = "v2"
    /\ verdict.principle = "P7" => alert.severity = "critical"
    /\ verdict.principle = "R7" => alert.schema = "v1"
    /\ verdict.principle = "R4" => alert.provider = "grafana"

\* A mutant: a second verdict for one alert replaces the first.
CoversRequestLoosely(response, batch) ==
    {response.verdicts[k].alert_id : k \in DOMAIN response.verdicts} = Range(batch.ids)

\* Exactly the requested alerts, each once.
CoversRequest(response, batch) ==
    LET named == {response.verdicts[k].alert_id : k \in DOMAIN response.verdicts}
    IN Cardinality(named) = Len(response.verdicts) /\ named = Range(batch.ids)

\* In the order of the request, whatever the order of the response.
InRequestOrder(response, batch) ==
    [k \in DOMAIN batch.ids |->
        response.verdicts[CHOOSE j \in DOMAIN response.verdicts :
                              response.verdicts[j].alert_id = batch.ids[k]]]

\* A mutant: the k-th verdict is taken for the k-th alert.
AsAnswered(response, batch) == [k \in DOMAIN batch.ids |-> response.verdicts[k]]

\* The verdicts, or none when anything at all is wrong.
ValidateResponse(response, batch) ==
    LET ordered == InRequestOrder(response, batch)
    IN IF /\ response.batch_id = BatchId(batch)
          /\ \A k \in DOMAIN response.verdicts : ValidVerdict(response.verdicts[k])
          /\ CoversRequest(response, batch)
          /\ \A k \in DOMAIN ordered : Applicable(ordered[k], batch.alerts[k])
       THEN ordered ELSE <<>>

StateForVerdict(verdict) ==
    CASE verdict.assessment = "no_violation" -> "assessed_good"
      [] verdict.assessment = "catalog_violation" /\ verdict.confidence = "high" -> "llm_flagged"
      [] OTHER -> "needs_review"

\* Outcomes are kept by identity, without the schema; a batch without an answer leaves them all unassessed.
IdentityOf(alert) == <<alert.application, alert.key_field>>

OutcomesOf(response, batch) ==
    LET verdicts == ValidateResponse(response, batch)
        \* Of two alerts of one identity the later one is kept.
        Latest(identity) == CHOOSE k \in DOMAIN batch.alerts :
            /\ IdentityOf(batch.alerts[k]) = identity
            /\ \A j \in k + 1 .. Len(batch.alerts) : IdentityOf(batch.alerts[j]) # identity
    IN [identity \in {IdentityOf(batch.alerts[k]) : k \in DOMAIN batch.alerts} |->
           IF verdicts = <<>> THEN "unassessed" ELSE StateForVerdict(verdicts[Latest(identity)])]
===============================================================================
