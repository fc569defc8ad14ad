------------------------------ MODULE RunPipeline ------------------------------
(***************************************************************************)
(* One run: both schemas are read from Elasticsearch page by page          *)
(* (src/es/reader.py, src/es/client.py), analysed while they are read      *)
(* (src/run/streaming.py), assessed, and turned into the rows to persist   *)
(* (src/run/orchestrator.py).  The cluster may fail a request, return an   *)
(* incomplete answer, let a point in time expire, or lose, repeat or       *)
(* disorder rows between two pages.                                        *)
(***************************************************************************)
EXTENDS RuleEngine, SchemaStream, SequencesExt

CONSTANTS
    Inputs,   \* what a run may find: [run_at, feed, panels, operators, llm, faults],
              \* "faults" bounding the pages whose rows are not the next ones
    PAGE      \* page_size

VARIABLES
    input,     \* never changes
    pc,
    schema,    \* the schema being read
    scan,      \* the local state of scan_schema
    pits,      \* per schema, the point in time as the cluster knows it
    acc,       \* the SchemaAccumulator being filled
    analysis,  \* the finished analyses
    outcomes,  \* identity -> assessment
    report,    \* the payload to persist, Null before there is one
    faults

vars == <<input, pc, schema, scan, pits, acc, analysis, outcomes, report, faults>>

SCHEMAS == {"v1", "v2"}

\* Documents have an instant and a hash; a team without operators of a schema owns no
\* document of it, and a panel has finitely many leaves.
ASSUME PipelineAssumption ==
    /\ PAGE \in Nat \ {0}
    /\ Null \notin Int
    /\ \A i \in Inputs :
           /\ i.run_at \in Int /\ i.faults \in Nat
           /\ \A s \in SCHEMAS :
                  /\ Len(i.feed[s]) \in Nat /\ DOMAIN i.feed[s] = 1 .. Len(i.feed[s])
                  /\ \A k \in DOMAIN i.feed[s] : {i.feed[s][k].at, i.feed[s][k].doc} \subseteq Int
                  /\ s \notin i.operators => i.feed[s] = <<>>
                  /\ IsFiniteSet(DOMAIN i.panels[s])
                  /\ \A p \in DOMAIN i.panels[s] : IsFiniteSet(DOMAIN i.panels[s][p].leaves)

ASSESSED == {"llm_flagged", "needs_review", "assessed_good", "unassessed"}

Rows(s) == [i \in DOMAIN input.feed[s] |-> NormalizeRow(s, input.feed[s][i])]
Panels(s) == input.panels[s]

NoScan == [after |-> 0, hits |-> <<>>, last |-> FALSE, pages |-> 0, rows |-> 0, total |-> 0,
           failed |-> FALSE]

Init ==
    /\ input \in Inputs
    /\ pc = "open"
    /\ schema = "v1"
    /\ scan = NoScan
    /\ pits = [s \in SCHEMAS |-> "none"]
    /\ acc = NoAnalysis(input.panels["v1"])
    /\ analysis = <<>>
    /\ outcomes = <<>>
    /\ report = Null
    /\ faults = 0

-------------------------------------------------------------------------------
\* After v1 comes v2, each with an accumulator of its own.
FinishSchema ==
    /\ analysis' = Put(analysis, schema, Finish(acc, Panels(schema)))
    /\ scan' = NoScan
    /\ schema' = "v2"
    /\ acc' = NoAnalysis(Panels("v2"))
    /\ pc' = IF schema = "v1" THEN "open" ELSE "assess"

\* A team without operators of a schema is not queried for it.
SkipSchema ==
    /\ pc = "open" /\ schema \notin input.operators
    /\ FinishSchema
    /\ UNCHANGED <<input, pits, outcomes, report, faults>>

OpenPit ==
    /\ pc = "open" /\ schema \in input.operators
    /\ \/ pc' = "search" /\ pits' = [pits EXCEPT ![schema] = "open"]
       \/ pc' = "failed" /\ UNCHANGED pits
    /\ UNCHANGED <<input, schema, scan, acc, analysis, outcomes, report, faults>>

\* A mutant: a page holds one row more than it was asked for.
PageAndOne(after) ==
    SubSeq(Rows(schema), after + 1, Earlier(after + PAGE + 1, Len(Rows(schema))))
PageFrom(after) ==
    SubSeq(Rows(schema), after + 1, Earlier(after + PAGE, Len(Rows(schema))))

\* The next page; or one that loses a row, repeats one, or is out of order.
Deliveries ==
    LET n == Len(Rows(schema))
        a == scan.after
        Descending == {p \in {PageFrom(a)} : p # <<>> /\ p[1].at < p[Len(p)].at}
    IN  {[from |-> a, hits |-> PageFrom(a), wrong |-> 0]} \cup
        IF faults >= input.faults THEN {} ELSE
        {[from |-> f, hits |-> PageFrom(f), wrong |-> 1] : f \in {a - 1, a + 1} \cap (0 .. n)} \cup
        {[from |-> a, hits |-> Reverse(p), wrong |-> 1] : p \in Descending}

\* The first page tells how many rows there are; a page that is not full is the last.
SearchPage ==
    /\ pc = "search" /\ pits[schema] = "open"
    /\ \E page \in Deliveries :
        /\ scan' = [scan EXCEPT !.after = page.from + Len(page.hits),
                                !.hits = page.hits,
                                !.last = Len(page.hits) < PAGE,
                                !.total = IF scan.pages = 0 THEN Len(Rows(schema)) ELSE @,
                                !.pages = @ + 1]
        /\ faults' = faults + page.wrong
    /\ pc' = "consume"
    /\ UNCHANGED <<input, schema, pits, acc, analysis, outcomes, report>>

\* The accumulator raises on a row outside the window or before the last one.
Accepts(row) ==
    InWindow(input.run_at, row.at) /\ ~(acc.last_at # Null /\ row.at < acc.last_at)

ConsumeRow ==
    /\ pc = "consume" /\ scan.hits # <<>>
    /\ LET row == Head(scan.hits)
       IN  \/ /\ Accepts(row)
              /\ acc' = AddRow(acc, Panels(schema), row)
              /\ scan' = [scan EXCEPT !.rows = @ + 1, !.hits = Tail(@)]
              /\ UNCHANGED pc
           \/ /\ ~Accepts(row)
              /\ scan' = [scan EXCEPT !.failed = TRUE]
              /\ pc' = "close"
              /\ UNCHANGED acc
    /\ UNCHANGED <<input, schema, pits, analysis, outcomes, report, faults>>

\* A full page without sort values cannot be continued safely.
EndPage ==
    /\ pc = "consume" /\ scan.hits = <<>>
    /\ \/ scan.last /\ pc' = "close" /\ UNCHANGED scan
       \/ ~scan.last /\ pc' = "search" /\ UNCHANGED scan
       \/ ~scan.last /\ pc' = "close" /\ scan' = [scan EXCEPT !.failed = TRUE]
    /\ UNCHANGED <<input, schema, pits, acc, analysis, outcomes, report, faults>>

\* Mutants: a failed search is simply sent again, or raises past the finally block.
SearchAgain ==
    /\ pc = "search"
    /\ UNCHANGED vars
SearchRaises ==
    /\ pc = "search" /\ pc' = "failed"
    /\ UNCHANGED <<input, schema, scan, pits, acc, analysis, outcomes, report, faults>>

\* The request fails, an answer is partial, or the first one has no exact total.
SearchFails ==
    /\ pc = "search"
    /\ scan' = [scan EXCEPT !.failed = TRUE]
    /\ pc' = "close"
    /\ UNCHANGED <<input, schema, pits, acc, analysis, outcomes, report, faults>>

\* In a finally block, and its own failure is tolerated.
ClosePit ==
    /\ pc = "close"
    /\ \E asked \in {"gone", "leaked"} :
           pits' = [pits EXCEPT ![schema] = IF @ = "open" THEN asked ELSE @]
    /\ pc' = IF scan.failed THEN "failed" ELSE "reconcile"
    /\ UNCHANGED <<input, schema, scan, acc, analysis, outcomes, report, faults>>

\* A mutant: only rows that are missing are noticed.
NoneMissing == scan.rows >= scan.total
Reconciles == scan.rows = scan.total

Reconcile ==
    /\ pc = "reconcile"
    /\ \/ /\ Reconciles
          /\ FinishSchema
       \/ /\ ~Reconciles
          /\ pc' = "failed"
          /\ UNCHANGED <<schema, scan, acc, analysis>>
    /\ UNCHANGED <<input, pits, outcomes, report, faults>>

-------------------------------------------------------------------------------
Found(s) == DOMAIN analysis[s].identities
ReportOf(s, id) == analysis[s].identities[id].report
HasCoreFinding(s, id) == ReportOf(s, id).core_rule_ids # {}
Eligible == UNION {{id \in Found(s) : ~HasCoreFinding(s, id)} : s \in SCHEMAS}

\* Outcomes are kept by application and key field; without a model none is assessed.
Assess ==
    /\ pc = "assess"
    /\ \/ /\ outcomes' \in [Eligible -> IF input.llm THEN ASSESSED ELSE {"unassessed"}]
          /\ pc' = "build"
       \/ /\ input.llm
          /\ pc' = "failed"
          /\ UNCHANGED outcomes
    /\ UNCHANGED <<input, schema, scan, pits, acc, analysis, report, faults>>

QualityState(s, id) ==
    IF HasCoreFinding(s, id) THEN "rule_flagged" ELSE At(outcomes, id, "unassessed")

\* A mutant: an identity with a core finding keeps the state of its namesake.
HoldsOutcome(s, state, d) ==
    {id \in PresentOn(analysis[s], d) : At(outcomes, id, "unassessed") = state}
\* The identities of a day in a state; an assessed state needs that no core rule holds.
InState(s, state, d) == {id \in PresentOn(analysis[s], d) : QualityState(s, id) = state}

GapsOn(s, d) == {id \in PresentOn(analysis[s], d) : ReportOf(s, id).readiness_rule_ids # {}}

\* What is measured once per run stands on the first bucket; no panel, no `unseen`.
FirstBucket(d, n) == IF \E e \in Dates(input.run_at) : e < d THEN 0 ELSE n
IfPanels(s, v) == IF Panels(s) = <<>> THEN Null ELSE v

DayRow(s, d) ==
    LET fin == analysis[s]
    IN  [volume |-> StreamVolume(fin, d),
         covered |-> CoveredTicks(input.run_at, d),
         flagged |-> StreamFlagged(fin, d),
         flagged_by_llm |->
             SumOf([id \in InState(s, "llm_flagged", d) |-> DayOf(fin, id, d).count],
                   InState(s, "llm_flagged", d)),
         states |-> [state \in ASSESSED |-> Cardinality(InState(s, state, d))],
         phase2_gaps |-> Cardinality(GapsOn(s, d)),
         suppressed |-> DaySum(fin, d, LAMBDA day : day.suppressed),
         unseen |-> IfPanels(s, DaySum(fin, d, LAMBDA day : day.unseen)),
         suppression_unmeasured |-> FirstBucket(d, fin.unmeasured_leaves),
         unseen_unmeasured |-> IfPanels(s, FirstBucket(d, fin.unseen_unmeasured))]

SchemaPayload(s) ==
    [daily |-> [d \in Dates(input.run_at) |-> DayRow(s, d)],
     rules |-> [d \in Dates(input.run_at) |-> StreamRules(analysis[s], d)],
     findings |-> [id \in Found(s) |-> [facts |-> ReportOf(s, id), state |-> QualityState(s, id)]]]

Readiness == Phase2Readiness({ReportOf("v2", id).representative : id \in Found("v2")})

Build ==
    /\ pc = "build"
    /\ report' = [schemas |-> [s \in SCHEMAS |-> SchemaPayload(s)],
                  phase |-> DerivePhase(Cardinality(Found("v1")), Cardinality(Found("v2")), Readiness)]
    /\ pc' = "done"
    /\ UNCHANGED <<input, schema, scan, pits, acc, analysis, outcomes, faults>>

-------------------------------------------------------------------------------
\* keep_alive passes between two requests: the next search finds no point in time.
ExpirePit ==
    /\ \E s \in SCHEMAS : pits[s] \in {"open", "leaked"} /\ pits' = [pits EXCEPT ![s] = "gone"]
    /\ UNCHANGED <<input, pc, schema, scan, acc, analysis, outcomes, report, faults>>

Work ==
    \/ SkipSchema \/ OpenPit \/ SearchPage \/ SearchFails \/ ConsumeRow \/ EndPage
    \/ ClosePit \/ Reconcile \/ Assess \/ Build

Ended == pc \in {"done", "failed"}

Stopped == Ended /\ UNCHANGED vars

Next == Work \/ ExpirePit \/ Stopped

\* The run is one thread that keeps going until it returns or raises.
Spec == Init /\ [][Next]_vars /\ WF_vars(Work)

-------------------------------------------------------------------------------
TypeOK ==
    /\ pc \in {"open", "search", "consume", "close", "reconcile", "assess", "build", "done", "failed"}
    /\ schema \in SCHEMAS
    /\ scan.after \in Nat /\ scan.rows \in Nat /\ scan.total \in Nat /\ scan.failed \in BOOLEAN
    /\ Len(scan.hits) <= PAGE
    /\ pits \in [SCHEMAS -> {"none", "open", "leaked", "gone"}]
    /\ DOMAIN analysis \subseteq SCHEMAS
    /\ pc # "done" => report = Null
    /\ faults \in 0 .. input.faults

\* R6 and every fact of an identity's firing, added up row by row with instants
\* and pages in any split, are what all its rows together say (firing.py against
\* firing_stream.py).
FiringIsAsDefined ==
    pc = "done" =>
        \A s \in SCHEMAS : \A id \in Identities(Rows(s)) :
            /\ ReportOf(s, id).firing = FactsOf(Rows(s), id)
            /\ ("R6" \in ReportOf(s, id).core_rule_ids)
                   <=> (FactsOf(Rows(s), id).pattern # Null)

\* The suppressed and unseen rows of every day are those that all rows together
\* give, although a leaf's share is known only after the last page; and what could
\* not be measured adds up, over the days, to the run's own count once.
SuppressionIsAsDefined ==
    pc = "done" =>
        \A s \in SCHEMAS :
            LET rows == Rows(s)
                day == report.schemas[s].daily
                gone == SuppressedRows(Panels(s), rows)
                unseen == UnseenRows(Panels(s), rows)
            IN  /\ \A d \in DOMAIN day :
                       /\ day[d].suppressed = Cardinality(gone \cap RowsOn(rows, d))
                       /\ day[d].unseen = IfPanels(s, Cardinality(unseen \cap RowsOn(rows, d)))
                /\ SumOf([d \in DOMAIN day |-> day[d].suppression_unmeasured], DOMAIN day)
                       = UnmeasuredLeaves(Panels(s), ActiveLeaves(Panels(s), rows))

WindowTicks == WindowStart(input.run_at) .. input.run_at - 1

\* Every daily figure a run persists is the one that its rows define, even when the
\* cluster lost, repeated or disordered a row: then there is no report at all.  The
\* buckets share out the window, none is empty or longer than a day, and a day's
\* covered time is what of it lies in the window.
DaysAreAsDefined ==
    pc = "done" =>
        \A s \in SCHEMAS :
            LET rows == Rows(s)
                findings == RowFindings(rows, Panels(s))
                payload == report.schemas[s]
            IN  /\ \A t \in WindowTicks : DateOf(t) \in DOMAIN payload.daily
                /\ \A d \in Dates(input.run_at) :
                    /\ payload.daily[d].covered = Cardinality({t \in WindowTicks : DateOf(t) = d})
                    /\ payload.daily[d].covered \in 1 .. DAY
                    /\ payload.daily[d].volume = DailyVolume(rows, d)
                    /\ payload.daily[d].flagged = DailyFlagged(rows, findings, d)
                    /\ payload.rules[d] = DailyRules(rows, findings, d)

\* A finding names the latest row, every rule that held of any row with the number
\* of rows and the first of them, and the readiness of the latest row only.
FindingsAreAsDefined ==
    pc = "done" =>
        \A s \in SCHEMAS :
            LET rows == Rows(s)
                findings == RowFindings(rows, Panels(s))
            IN  /\ Found(s) = Identities(rows)
                /\ \A id \in Found(s) :
                       ReportOf(s, id) = IdentityReport(rows, Panels(s), findings, id)

\* The published states of a day account for every identity of that day exactly
\* once: those a core rule holds of anywhere in the window, and the assessed ones.
\* What a rule flags that day is among the former, and no row is flagged twice.
StatesAddUp ==
    pc = "done" =>
        \A s \in SCHEMAS : \A d \in Dates(input.run_at) :
            LET row == report.schemas[s].daily[d]
                findings == report.schemas[s].findings
                withheld == {id \in PresentOn(analysis[s], d) : findings[id].state = "rule_flagged"}
                assessed == SumOf(row.states, ASSESSED)
            IN  /\ row.volume.distinct_alerts = Cardinality(withheld) + assessed
                /\ row.flagged[2] <= Cardinality(withheld)
                /\ row.flagged[1] + row.flagged_by_llm <= row.volume.alerts
                /\ input.llm \/ assessed = row.states["unassessed"]

\* However a run ends, it has asked the cluster to close what it opened.
PitsAreClosed == Ended => \A s \in SCHEMAS : pits[s] # "open"

\* A run returns or raises, whatever the cluster does.
RunEnds == <>Ended
===============================================================================
