--------------------------- MODULE PortalPages_proofs ---------------------------
(***************************************************************************)
(* What pages tell, whatever the teams, the weeks and the requests: a page *)
(* read while weeks come and go tells nothing of a week that is not        *)
(* published; and an operator and a reader are told the same of a          *)
(* published week.  For the latter: the lists and their pages, the weeks   *)
(* before, the projection, and then each figure, all of them functions     *)
(* written twice over the facts of a run.                                  *)
(***************************************************************************)
EXTENDS ReviewDesk_proofs

-------------------------------------------------------------------------------
(* The published weeks.                                                    *)

\* Of one team, of the length of a week, and no two of them share an instant.
LedgerIsSound ==
    /\ ledger \in [Teams -> SUBSET Runs]
    /\ \A t \in Teams :
           /\ IsFiniteSet(ledger[t])
           /\ \A r \in ledger[t] : RunTeam[r] = t /\ RunEnd[r] - RunStart[r] = WeekLength
           /\ \A q, r \in ledger[t] : q # r => RunEnd[q] <= RunStart[r] \/ RunEnd[r] <= RunStart[q]

LEMMA LedgerInitially == LedgerInit => LedgerIsSound
BY FS_EmptySet DEF LedgerInit, LedgerIsSound

LEMMA PublishKeeps ==
    ASSUME LedgerIsSound, NEW r \in Runs, NEW replace, NEW allowGap, Publish(r, replace, allowGap)
    PROVE  LedgerIsSound'
<1> DEFINE t == RunTeam[r]
           kept == {q \in ledger[t] : ~SameWindow(WeekOf(q), WeekOf(r))}
<1>1. t \in Teams /\ RunStart[r] \in Int /\ RunEnd[r] \in Int /\ WeekLength \in Nat \ {0}
    BY RunsAssumption, WeekLengthAssumption
<1>2. ledger' = [ledger EXCEPT ![t] = kept \union {r}] /\ Accepts(WeekOf(r), Weeks(t), replace, allowGap)
    BY DEF Publish
<1>3. RunEnd[r] - RunStart[r] = WeekLength
    BY <1>2 DEF Accepts, WeekOf
<1>4. ASSUME NEW q \in kept
      PROVE  /\ RunStart[q] \in Int /\ RunEnd[q] \in Int /\ RunEnd[q] - RunStart[q] = WeekLength
             /\ RunEnd[q] <= RunStart[r] \/ RunEnd[r] <= RunStart[q]
    <2>1. q \in Runs /\ RunEnd[q] - RunStart[q] = WeekLength
        BY <1>1, <1>4 DEF LedgerIsSound
    <2>2. RunStart[q] \in Int /\ RunEnd[q] \in Int
        BY <2>1, RunsAssumption
    <2>3. WeekOf(q) \in Weeks(t) \ SameWeek(WeekOf(r), Weeks(t))
        BY <1>4 DEF Weeks, SameWeek
    <2>4. ~Overlaps(WeekOf(r), WeekOf(q))
        BY <1>2, <2>3 DEF Accepts
    <2> QED
        BY <1>1, <2>1, <2>2, <2>4 DEF Overlaps, WeekOf
<1> HIDE DEF t
<1>5. IsFiniteSet(kept \union {r})
    <2>1. IsFiniteSet(ledger[t])
        BY <1>1 DEF LedgerIsSound
    <2>2. IsFiniteSet(kept)
        BY <2>1, FS_Subset
    <2> HIDE DEF kept
    <2> QED
        BY <2>2, FS_AddElement
<1>6. kept \subseteq ledger[t] /\ kept \subseteq Runs
    BY <1>1 DEF LedgerIsSound
<1>7. \A u \in Teams : u # t => ledger'[u] = ledger[u]
    BY <1>2 DEF LedgerIsSound
<1>8. ledger'[t] = kept \union {r} /\ ledger' \in [Teams -> SUBSET Runs]
    BY <1>1, <1>2, <1>6 DEF LedgerIsSound
<1> HIDE DEF kept
<1>9. ASSUME NEW u \in Teams
      PROVE  /\ IsFiniteSet(ledger'[u])
             /\ \A q \in ledger'[u] : RunTeam[q] = u /\ RunEnd[q] - RunStart[q] = WeekLength
             /\ \A p, q \in ledger'[u] :
                    p # q => RunEnd[p] <= RunStart[q] \/ RunEnd[q] <= RunStart[p]
    <2>1. CASE u # t
        BY <1>7, <2>1 DEF LedgerIsSound
    <2>2. CASE u = t
        <3>1. \A q \in ledger'[t] : RunTeam[q] = t
            BY <1>1, <1>6, <1>8 DEF LedgerIsSound, t
        <3>2. \A q \in ledger'[t] : RunEnd[q] - RunStart[q] = WeekLength
            BY <1>3, <1>4, <1>8
        <3>3. \A p, q \in ledger'[t] :
                  p # q => RunEnd[p] <= RunStart[q] \/ RunEnd[q] <= RunStart[p]
            BY <1>1, <1>4, <1>6, <1>8 DEF LedgerIsSound
        <3> QED
            BY <1>5, <1>8, <2>2, <3>1, <3>2, <3>3
    <2> QED
        BY <2>1, <2>2
<1> QED
    BY <1>8, <1>9 DEF LedgerIsSound

LEMMA WithdrawKeeps ==
    ASSUME LedgerIsSound, NEW r \in Runs, Withdraw(r)
    PROVE  LedgerIsSound'
<1> DEFINE t == RunTeam[r]
<1>1. t \in Teams
    BY RunsAssumption
<1>2. ledger' = [ledger EXCEPT ![t] = @ \ {r}]
    BY DEF Withdraw
<1> HIDE DEF t
<1>3. ledger' \in [Teams -> SUBSET Runs] /\ \A u \in Teams : ledger'[u] \in SUBSET ledger[u]
    BY <1>1, <1>2 DEF LedgerIsSound
<1>4. \A u \in Teams : IsFiniteSet(ledger'[u])
    BY <1>3, FS_Subset DEF LedgerIsSound
<1> QED
    BY <1>3, <1>4 DEF LedgerIsSound

-------------------------------------------------------------------------------
(* What the views say of a published week is what an operator sees of it.  *)

LEMMA NothingSums ==
    ASSUME NEW column
    PROVE  Total(column, {}) = 0
<1>1. IsFiniteSet({})
    BY FS_EmptySet
<1>2. PICK k : IsSum(k, [d \in {} |-> d[column]], {}) /\ Total(column, {}) = k[{}]
    BY <1>1, TotalIs
<1>3. {} \in SUBSET {}
    OBVIOUS
<1> QED
    BY <1>2, <1>3 DEF IsSum, Summed

LEMMA ColumnAgrees ==
    ASSUME NEW days, IsFiniteSet(days), NEW column, \A d \in days : d[column] \in Nat
    PROVE  Coalesce(SqlSum(days, column)) = Total(column, days) /\ Total(column, days) \in Nat
<1>1. Null \notin Int
    BY RunsAssumption
<1>2. PICK sum : sum = Total(column, days)
    OBVIOUS
<1>3. sum \in Nat
    BY <1>2, SumIsNat
<1>4. {d \in days : d[column] # Null} = days
    BY <1>1
<1>5. SqlSum(days, column) = IF days = {} THEN Null ELSE sum
    BY <1>2, <1>4 DEF SqlSum, Total
<1>6. days = {} => sum = 0
    BY <1>2, NothingSums
<1> QED
    BY <1>1, <1>2, <1>3, <1>5, <1>6 DEF Coalesce

LEMMA MeasureAgrees ==
    ASSUME NEW days, IsFiniteSet(days), NEW column, \A d \in days : d[column] \in Nat \union {Null}
    PROVE  /\ SqlSum(days, column) = SumOrNone(days, column)
           /\ SqlSum(days, column) = Null <=> \A d \in days : d[column] = Null
<1> DEFINE measured == {d \in days : d[column] # Null}
           f == [d \in days |-> Coalesce(d[column])]
           g == [d \in measured |-> d[column]]
<1>1. Null \notin Int
    BY RunsAssumption
<1>2. measured \in SUBSET days /\ IsFiniteSet(measured)
    BY FS_Subset
<1>3. measured = {} <=> \A d \in days : d[column] = Null
    OBVIOUS
<1>4. SqlSum(days, column) = IF measured = {} THEN Null ELSE Total(column, measured)
    BY DEF SqlSum, Total
<1>5. SumOrNone(days, column) = IF measured = {} THEN Null ELSE TotalOrZero(column, days)
    BY <1>3 DEF SumOrNone, TotalOrZero
<1>6. \A d \in measured : d[column] \in Nat /\ f[d] = g[d]
    BY <1>1 DEF Coalesce
<1>7. \A d \in days : f[d] \in Nat
    BY <1>1 DEF Coalesce
<1>8. \A d \in days \ measured : f[d] = 0
    BY DEF Coalesce
<1>9. PICK k : IsSum(k, f, days) /\ TotalOrZero(column, days) = k[days]
    BY TotalOrZeroIs
<1>10. PICK h : IsSum(h, g, measured) /\ Total(column, measured) = h[measured]
    BY <1>2, TotalIs
<1>11. \A d \in measured : d[column] \in Nat
    BY <1>6
<1> HIDE DEF f, g, measured
<1>12. k[days] = k[measured]
    BY <1>2, <1>7, <1>8, <1>9, SumOfTheRest
<1>13. measured \in SUBSET measured
    OBVIOUS
<1>14. h[measured] = k[measured]
    BY <1>2, <1>6, <1>9, <1>10, <1>13, SumsAreOne
<1>15. Total(column, measured) \in Nat
    BY <1>2, <1>11, SumIsNat
<1> QED
    BY <1>1, <1>3, <1>4, <1>5, <1>9, <1>10, <1>12, <1>14, <1>15

\* One term that counts is enough.
LEMMA TotalCounts ==
    ASSUME NEW days, IsFiniteSet(days), NEW column, \A d \in days : d[column] \in Nat,
           NEW d \in days, d[column] > 0
    PROVE  Total(column, days) # 0
<1>1. PICK k : IsSum(k, [e \in days |-> e[column]], days) /\ Total(column, days) = k[days]
    BY TotalIs
<1>2. PICK f : f = [e \in days |-> e[column]]
    OBVIOUS
<1>3. \A e \in days : f[e] \in Nat
    BY <1>2
<1>4. days \in SUBSET days /\ days \ {d} \in SUBSET days
    OBVIOUS
<1>a. IsSum(k, f, days)
    BY <1>1, <1>2
<1>b. k[days] = f[d] + k[days \ {d}]
    BY <1>3, <1>4, <1>a, SumWithout
<1>c. \A T \in SUBSET days : k[T] \in Nat
    BY <1>3, <1>a, PartSumsAreNat
<1>5. k[days] = f[d] + k[days \ {d}] /\ k[days \ {d}] \in Nat
    BY <1>4, <1>b, <1>c
<1>6. f[d] \in Nat /\ f[d] > 0
    BY <1>2
<1> QED
    BY <1>1, <1>5, <1>6

-------------------------------------------------------------------------------
(* The totals of a schema.                                                 *)

\* A row of PortalSchemaTotals.
MeasuredOf(run, u) == {a \in AlertsOf(Facts[run].alerts, u) : a.unseen # Null}
TotalsRow(run, u) ==
    [schema |-> u,
     events |-> Coalesce(SqlSum(DaysOf(Facts[run].daily, u), "alerts")),
     flagged_rows |-> Coalesce(SqlSum(DaysOf(Facts[run].daily, u), "flagged_by_rule")),
     suppressed |-> Coalesce(SqlSum(DaysOf(Facts[run].daily, u), "suppressed")),
     unseen |-> SqlSum(DaysOf(Facts[run].daily, u), "unseen"),
     distinct_alerts |-> Cardinality(AlertsOf(Facts[run].alerts, u)),
     states |-> [q \in STATES |-> Cardinality(InState(AlertsOf(Facts[run].alerts, u), q))],
     readiness_gaps |-> Cardinality({a \in AlertsOf(Facts[run].alerts, u) : a.readiness # {}}),
     needs_attention |-> Cardinality({a \in AlertsOf(Facts[run].alerts, u) : NeedsAttention(a)}),
     unseen_alerts |-> IF MeasuredOf(run, u) = {} THEN Null
                       ELSE Cardinality({a \in MeasuredOf(run, u) : a.unseen})]

LEMMA TotalsRows ==
    ASSUME NEW r \in PublishedRuns
    PROVE  PortalSchemaTotals(r) = {TotalsRow(r, u) : u \in SCHEMAS}
BY DEF PortalSchemaTotals, TotalsRow, DaysOf, MeasuredOf

\* Two totals no page can tell apart.
SameTotals(x, y) ==
    /\ x.events = y.events /\ x.distinct_alerts = y.distinct_alerts
    /\ x.rule_flagged_events = y.rule_flagged_events
    /\ x.rule_flagged_alerts = y.rule_flagged_alerts
    /\ x.suppressed = y.suppressed /\ x.unseen = y.unseen
    /\ x.unseen_alerts = y.unseen_alerts /\ x.readiness_gaps = y.readiness_gaps
    /\ \A q \in STATES : StateCount(x, q) = StateCount(y, q)

LEMMA TotalsAgree ==
    ASSUME NEW r \in Runs, r \in PublishedRuns, NEW s \in SCHEMAS
    PROVE  SameTotals(SchemaTotalsOf(PortalSchemaTotals(r))[s],
                      AdminSchemaTotals(s, Facts[r].daily, Facts[r].alerts))
<1>1. PICK days : days = {d \in Facts[r].daily : d.schema = s}
    OBVIOUS
<1>2. PICK mine : mine = AlertsOf(Facts[r].alerts, s)
    OBVIOUS
<1>3. StoredRun(Facts[r])
    BY RunsAssumption
<1>4. IsFiniteSet(days) /\ IsFiniteSet(mine)
    <2>1. days \subseteq Facts[r].daily /\ mine \subseteq Facts[r].alerts
        BY <1>1, <1>2 DEF AlertsOf
    <2>2. IsFiniteSet(Facts[r].daily) /\ IsFiniteSet(Facts[r].alerts)
        BY <1>3 DEF StoredRun
    <2> QED
        BY <2>1, <2>2, FS_Subset
<1>5. /\ \A d \in days : d["alerts"] \in Nat
      /\ \A d \in days : d["flagged_by_rule"] \in Nat
      /\ \A d \in days : d["suppressed"] \in Nat
      /\ \A d \in days : d["unseen"] \in Nat \union {Null}
    BY <1>1, <1>3 DEF StoredRun
<1>6. \A a \in mine : a.unseen # Null <=> a.unseen \in BOOLEAN
    BY <1>2, <1>3, RunsAssumption DEF StoredRun, AlertsOf
<1>7. PICK t : t = TotalsRow(r, s)
    OBVIOUS
<1>8. PICK flags : flags = {a \in mine : a.unseen # Null}
    OBVIOUS
<1>9. /\ t.events = Total("alerts", days)
      /\ t.flagged_rows = Total("flagged_by_rule", days)
      /\ t.suppressed = Total("suppressed", days)
      /\ t.unseen = SumOrNone(days, "unseen")
      /\ t.distinct_alerts = Cardinality(mine)
      /\ t.states = [q \in STATES |-> Cardinality(InState(mine, q))]
      /\ t.readiness_gaps = Cardinality({a \in mine : a.readiness # {}})
      /\ t.unseen_alerts = IF flags = {} THEN Null ELSE Cardinality({a \in flags : a.unseen})
    <2>1. /\ t.events = Coalesce(SqlSum(days, "alerts"))
          /\ t.flagged_rows = Coalesce(SqlSum(days, "flagged_by_rule"))
          /\ t.suppressed = Coalesce(SqlSum(days, "suppressed"))
          /\ t.unseen = SqlSum(days, "unseen")
        BY <1>1, <1>7 DEF TotalsRow, DaysOf
    <2>2. /\ t.distinct_alerts = Cardinality(mine)
          /\ t.states = [q \in STATES |-> Cardinality(InState(mine, q))]
          /\ t.readiness_gaps = Cardinality({a \in mine : a.readiness # {}})
          /\ t.unseen_alerts = IF flags = {} THEN Null ELSE Cardinality({a \in flags : a.unseen})
        BY <1>2, <1>7, <1>8 DEF TotalsRow, MeasuredOf
    <2>3. Coalesce(SqlSum(days, "alerts")) = Total("alerts", days)
        BY <1>4, <1>5, ColumnAgrees
    <2>4. Coalesce(SqlSum(days, "flagged_by_rule")) = Total("flagged_by_rule", days)
        BY <1>4, <1>5, ColumnAgrees
    <2>5. Coalesce(SqlSum(days, "suppressed")) = Total("suppressed", days)
        BY <1>4, <1>5, ColumnAgrees
    <2>6. SqlSum(days, "unseen") = SumOrNone(days, "unseen")
        BY <1>4, <1>5, MeasureAgrees
    <2> QED
        BY <2>1, <2>2, <2>3, <2>4, <2>5, <2>6
<1>10. PICK x : x = SchemaTotalsOf(PortalSchemaTotals(r))[s]
    OBVIOUS
<1>11. {u \in PortalSchemaTotals(r) : u.schema = s} = {t}
    <2>1. \A u : TotalsRow(r, u).schema = u
        BY DEF TotalsRow
    <2> QED
        BY <1>7, <2>1, TotalsRows
<1>12. /\ x.events = t.events /\ x.distinct_alerts = t.distinct_alerts
       /\ x.rule_flagged_events = t.flagged_rows
       /\ x.rule_flagged_alerts = t.states["rule_flagged"]
       /\ x.suppressed = t.suppressed /\ x.unseen = t.unseen
       /\ x.unseen_alerts = t.unseen_alerts /\ x.states = t.states
       /\ x.readiness_gaps = t.readiness_gaps
    BY <1>10, <1>11 DEF SchemaTotalsOf
<1>13. PICK y : y = AdminSchemaTotals(s, Facts[r].daily, Facts[r].alerts)
    OBVIOUS
<1>14. flags = {a \in mine : a.unseen \in BOOLEAN}
    BY <1>6, <1>8
<1>15. /\ y.events = Total("alerts", days) /\ y.distinct_alerts = Cardinality(mine)
       /\ y.rule_flagged_events = Total("flagged_by_rule", days)
       /\ y.rule_flagged_alerts = Cardinality(InState(mine, "rule_flagged"))
       /\ y.suppressed = Total("suppressed", days) /\ y.unseen = SumOrNone(days, "unseen")
    BY <1>1, <1>2, <1>13 DEF AdminSchemaTotals, Total
<1>16. /\ y.unseen_alerts = IF flags = {} THEN Null ELSE Cardinality({a \in flags : a.unseen})
       /\ y.states = [q \in {a.state : a \in mine} |-> Cardinality(InState(mine, q))]
       /\ y.readiness_gaps = Cardinality({a \in mine : a.readiness # {}})
    BY <1>2, <1>13, <1>14 DEF AdminSchemaTotals
<1>17. \A q \in STATES : StateCount(x, q) = StateCount(y, q)
    <2> SUFFICES ASSUME NEW q \in STATES PROVE StateCount(x, q) = StateCount(y, q)
        OBVIOUS
    <2>1. StateCount(x, q) = Cardinality(InState(mine, q))
        BY <1>9, <1>12 DEF StateCount
    <2>2. StateCount(y, q) = IF q \in {a.state : a \in mine} THEN Cardinality(InState(mine, q)) ELSE 0
        BY <1>16 DEF StateCount
    <2>3. q \notin {a.state : a \in mine} => InState(mine, q) = {}
        BY DEF InState
    <2> QED
        BY <2>1, <2>2, <2>3, FS_EmptySet
<1>18. "rule_flagged" \in STATES
    BY DEF STATES
<1> QED
    BY <1>9, <1>10, <1>12, <1>13, <1>15, <1>16, <1>17, <1>18 DEF SameTotals

LEMMA RulesAgree ==
    ASSUME NEW r \in Runs, r \in PublishedRuns
    PROVE  PortalRuleTotals(r) = AdminRuleTotals(Facts[r].counts, Facts[r].alerts)
<1> DEFINE counts == Facts[r].counts
           alerts == Facts[r].alerts
           Of(k) == {c \in counts : <<c.schema, c.rule>> = k}
           Carriers(k) == {a \in alerts : a.schema = k[1] /\ k[2] \in a.core \union a.readiness}
           Row(k) == [schema |-> k[1], rule |-> k[2], events |-> SqlSum(Of(k), "match_count"),
                      alerts |-> Cardinality(Carriers(k))]
           AdminRow(c) ==
               [schema |-> c.schema, rule |-> c.rule,
                events |-> MapThenSumSet(LAMBDA d : d.match_count,
                                         {d \in counts : d.schema = c.schema /\ d.rule = c.rule}),
                alerts |-> Cardinality({a \in AlertsOf(alerts, c.schema) :
                                           c.rule \in a.core \/ c.rule \in a.readiness})]
<1>1. (\A c \in counts : c.match_count \in Nat) /\ Null \notin Int
    BY RunsAssumption DEF StoredRun
<1>2. ASSUME NEW c \in counts PROVE Row(<<c.schema, c.rule>>) = AdminRow(c)
    <2> DEFINE k == <<c.schema, c.rule>>
    <2>1. Of(k) = {d \in counts : d.schema = c.schema /\ d.rule = c.rule} /\ Of(k) # {}
        BY <1>2
    <2>2. {d \in Of(k) : d["match_count"] # Null} = Of(k)
        BY <1>1
    <2>3. SqlSum(Of(k), "match_count") = MapThenSumSet(LAMBDA d : d["match_count"], Of(k))
        BY <2>1, <2>2 DEF SqlSum
    <2>4. Carriers(k) = {a \in AlertsOf(alerts, c.schema) : c.rule \in a.core \/ c.rule \in a.readiness}
        BY DEF AlertsOf
    <2> QED
        BY <2>1, <2>3, <2>4
<1>3. PortalRuleTotals(r) = {Row(k) : k \in {<<c.schema, c.rule>> : c \in counts}}
    BY DEF PortalRuleTotals
<1>4. AdminRuleTotals(counts, alerts) = {AdminRow(c) : c \in counts}
    BY DEF AdminRuleTotals
<1> HIDE DEF Row, AdminRow
<1>5. {Row(k) : k \in {<<c.schema, c.rule>> : c \in counts}} = {Row(<<c.schema, c.rule>>) : c \in counts}
    OBVIOUS
<1> QED
    BY <1>2, <1>3, <1>4, <1>5

-------------------------------------------------------------------------------
(* The statements of a page.                                               *)

NAMES == {"reviews", "detail", "count", "rows", "counts", "review", "totals", "rules", "daily",
          "alerts", "weeks", "week_rules"}

\* Before: what a statement is read after; none is read twice, but the reviews.
StatementsAre(s, tab) ==
    /\ Len(s) \in Nat /\ Len(s) > 0 /\ DOMAIN s = 1 .. Len(s)
    /\ \A i \in DOMAIN s : s[i] \in NAMES
    /\ s[1] = "reviews"
    /\ \A i, j \in DOMAIN s : i < j => s[i] # s[j] \/ s[j] = "reviews"
    /\ \A i, j \in DOMAIN s : i < j /\ s[j] = "reviews" => s[i] = "reviews"
    /\ \A j \in DOMAIN s : s[j] = "rows" => \E i \in DOMAIN s : i < j /\ s[i] = "count"
    /\ \A j \in DOMAIN s : s[j] = "weeks" => \E i \in DOMAIN s : i < j /\ s[i] = "review"
    /\ \A j \in DOMAIN s : s[j] = "week_rules" => \E i \in DOMAIN s : i < j /\ s[i] = "weeks"
    /\ tab = "alert" => \E i \in DOMAIN s : s[i] = "detail"
    /\ tab = "fix" => \E i, j \in DOMAIN s : s[i] = "count" /\ s[j] = "rows"
    /\ tab \notin {"alert", "history"} =>
           \A n \in {"review", "totals", "rules", "daily", "alerts", "weeks", "week_rules"} :
               \E i \in DOMAIN s : s[i] = n
    /\ tab = "history" => Len(s) = 1
    /\ tab # "history" => s[Len(s)] # "reviews"

LEMMA StatementsInOrder ==
    ASSUME NEW tab
    PROVE  StatementsAre(Statements(tab), tab)
<1>1. PICK whole : whole = <<"review", "totals", "rules", "daily", "alerts", "weeks", "week_rules">>
    OBVIOUS
<1>2. whole \in Seq(NAMES)
    BY <1>1 DEF NAMES
<1>3. CASE tab = "history"
    <2>1. Statements(tab) = <<"reviews">>
        BY <1>3 DEF Statements
    <2> QED
        BY <1>3, <2>1 DEF StatementsAre, NAMES
<1>4. CASE tab = "alert"
    <2>1. Statements(tab) = <<"reviews", "detail">>
        BY <1>4 DEF Statements
    <2> QED
        BY <1>4, <2>1 DEF StatementsAre, NAMES
<1>5. CASE tab = "fix"
    <2>1. PICK p, u : /\ p = <<"reviews", "count", "rows", "counts">>
                      /\ u = <<"reviews", "count", "rows", "counts", "review", "totals", "rules", "daily",
                             "alerts", "weeks", "week_rules">>
        OBVIOUS
    <2>2. Statements(tab) = p \o whole
        BY <1>5, <1>1, <1>2, <2>1 DEF Statements, SUMMARY
    <2>3. p \in Seq(NAMES) /\ u \in Seq(NAMES)
        BY <2>1 DEF NAMES
    <2>4. \A i \in 1 .. 11 : (p \o whole)[i] = u[i]
        BY <1>1, <1>2, <2>1
    <2>5. Len(p \o whole) = 11
        BY <1>1, <1>2, <2>1
    <2>6. Len(u) = 11 /\ DOMAIN u = 1 .. 11
        BY <2>1
    <2>7. Statements(tab) = u
        <3>1. p \o whole \in Seq(NAMES)
            BY <1>2, <2>3, ConcatProperties
        <3> QED
            BY <2>2, <2>3, <2>4, <2>5, <2>6, <3>1, SeqEqual
    <2>8. \A i, j \in 1 .. 11 : i < j => u[i] # u[j] \/ u[j] = "reviews"
        BY <2>1
    <2>9. \A i, j \in 1 .. 11 : i < j /\ u[j] = "reviews" => u[i] = "reviews"
        BY <2>1
    <2>10. \A i \in 1 .. 11 : u[i] \in NAMES
        BY <2>1 DEF NAMES
    <2>11. /\ \A j \in 1 .. 11 : u[j] = "rows" => \E i \in 1 .. 11 : i < j /\ u[i] = "count"
           /\ \A j \in 1 .. 11 : u[j] = "weeks" => \E i \in 1 .. 11 : i < j /\ u[i] = "review"
           /\ \A j \in 1 .. 11 : u[j] = "week_rules" => \E i \in 1 .. 11 : i < j /\ u[i] = "weeks"
        BY <2>1
    <2>12. \A name \in {"review", "totals", "rules", "daily", "alerts", "weeks", "week_rules"} :
               \E i \in 1 .. 11 : u[i] = name
        BY <2>1
    <2>13. tab = "fix" => \E i, j \in 1 .. 11 : u[i] = "count" /\ u[j] = "rows"
        BY <1>5, <2>1
    <2>14. u[1] = "reviews" /\ u[11] # "reviews" /\ tab # "alert" /\ tab # "history"
        BY <1>5, <2>1
    <2>15. StatementsAre(u, tab)
        BY <2>6, <2>8, <2>9, <2>10, <2>11, <2>12, <2>13, <2>14 DEF StatementsAre
    <2> QED
        BY <2>7, <2>15
<1>6. CASE tab = "overview"
    <2>1. PICK p, u : /\ p = <<"reviews", "reviews">>
                      /\ u = <<"reviews", "reviews", "review", "totals", "rules", "daily",
                             "alerts", "weeks", "week_rules">>
        OBVIOUS
    <2>2. Statements(tab) = p \o whole
        BY <1>6, <1>1, <1>2, <2>1 DEF Statements, SUMMARY
    <2>3. p \in Seq(NAMES) /\ u \in Seq(NAMES)
        BY <2>1 DEF NAMES
    <2>4. \A i \in 1 .. 9 : (p \o whole)[i] = u[i]
        BY <1>1, <1>2, <2>1
    <2>5. Len(p \o whole) = 9
        BY <1>1, <1>2, <2>1
    <2>6. Len(u) = 9 /\ DOMAIN u = 1 .. 9
        BY <2>1
    <2>7. Statements(tab) = u
        <3>1. p \o whole \in Seq(NAMES)
            BY <1>2, <2>3, ConcatProperties
        <3> QED
            BY <2>2, <2>3, <2>4, <2>5, <2>6, <3>1, SeqEqual
    <2>8. \A i, j \in 1 .. 9 : i < j => u[i] # u[j] \/ u[j] = "reviews"
        BY <2>1
    <2>9. \A i, j \in 1 .. 9 : i < j /\ u[j] = "reviews" => u[i] = "reviews"
        BY <2>1
    <2>10. \A i \in 1 .. 9 : u[i] \in NAMES
        BY <2>1 DEF NAMES
    <2>11. /\ \A j \in 1 .. 9 : u[j] = "rows" => \E i \in 1 .. 9 : i < j /\ u[i] = "count"
           /\ \A j \in 1 .. 9 : u[j] = "weeks" => \E i \in 1 .. 9 : i < j /\ u[i] = "review"
           /\ \A j \in 1 .. 9 : u[j] = "week_rules" => \E i \in 1 .. 9 : i < j /\ u[i] = "weeks"
        BY <2>1
    <2>12. \A name \in {"review", "totals", "rules", "daily", "alerts", "weeks", "week_rules"} :
               \E i \in 1 .. 9 : u[i] = name
        BY <2>1
    <2>13. tab = "fix" => \E i, j \in 1 .. 9 : u[i] = "count" /\ u[j] = "rows"
        BY <1>6, <2>1
    <2>14. u[1] = "reviews" /\ u[9] # "reviews" /\ tab # "alert" /\ tab # "history"
        BY <1>6, <2>1
    <2>15. StatementsAre(u, tab)
        BY <2>6, <2>8, <2>9, <2>10, <2>11, <2>12, <2>13, <2>14 DEF StatementsAre
    <2> QED
        BY <2>7, <2>15
<1>7. CASE tab \notin {"history", "alert", "fix", "overview"}
    <2>1. PICK p, u : /\ p = <<"reviews">>
                      /\ u = <<"reviews", "review", "totals", "rules", "daily",
                             "alerts", "weeks", "week_rules">>
        OBVIOUS
    <2>2. Statements(tab) = p \o whole
        BY <1>7, <1>1, <1>2, <2>1 DEF Statements, SUMMARY
    <2>3. p \in Seq(NAMES) /\ u \in Seq(NAMES)
        BY <2>1 DEF NAMES
    <2>4. \A i \in 1 .. 8 : (p \o whole)[i] = u[i]
        BY <1>1, <1>2, <2>1
    <2>5. Len(p \o whole) = 8
        BY <1>1, <1>2, <2>1
    <2>6. Len(u) = 8 /\ DOMAIN u = 1 .. 8
        BY <2>1
    <2>7. Statements(tab) = u
        <3>1. p \o whole \in Seq(NAMES)
            BY <1>2, <2>3, ConcatProperties
        <3> QED
            BY <2>2, <2>3, <2>4, <2>5, <2>6, <3>1, SeqEqual
    <2>8. \A i, j \in 1 .. 8 : i < j => u[i] # u[j] \/ u[j] = "reviews"
        BY <2>1
    <2>9. \A i, j \in 1 .. 8 : i < j /\ u[j] = "reviews" => u[i] = "reviews"
        BY <2>1
    <2>10. \A i \in 1 .. 8 : u[i] \in NAMES
        BY <2>1 DEF NAMES
    <2>11. /\ \A j \in 1 .. 8 : u[j] = "rows" => \E i \in 1 .. 8 : i < j /\ u[i] = "count"
           /\ \A j \in 1 .. 8 : u[j] = "weeks" => \E i \in 1 .. 8 : i < j /\ u[i] = "review"
           /\ \A j \in 1 .. 8 : u[j] = "week_rules" => \E i \in 1 .. 8 : i < j /\ u[i] = "weeks"
        BY <2>1
    <2>12. \A name \in {"review", "totals", "rules", "daily", "alerts", "weeks", "week_rules"} :
               \E i \in 1 .. 8 : u[i] = name
        BY <2>1
    <2>13. tab = "fix" => \E i, j \in 1 .. 8 : u[i] = "count" /\ u[j] = "rows"
        BY <1>7, <2>1
    <2>14. u[1] = "reviews" /\ u[8] # "reviews" /\ tab # "alert" /\ tab # "history"
        BY <1>7, <2>1
    <2>15. StatementsAre(u, tab)
        BY <2>6, <2>8, <2>9, <2>10, <2>11, <2>12, <2>13, <2>14 DEF StatementsAre
    <2> QED
        BY <2>7, <2>15
<1> QED
    BY <1>3, <1>4, <1>5, <1>6, <1>7

-------------------------------------------------------------------------------
(* A page being read: what its answers are, and what they say of the week  *)
(* it is about.  Nothing here depends on the ledger, which moves meanwhile. *)

ReviewRow(r, changed) ==
    [team |-> RunTeam[r], run |-> r, start |-> RunStart[r], end |-> RunEnd[r],
     phase |-> Facts[r].phase, readiness |-> Facts[r].readiness,
     basis_changed |-> changed, effort |-> EffortOf(Facts[r].snapshot)]

\* An answer to a statement, of a week that may be gone.
Heard(stmt, got, run) ==
    /\ stmt \in DOMAIN got
    /\ stmt = "count" => got[stmt] \in Nat
    /\ stmt = "review" => \E b \in BOOLEAN : got[stmt] = {ReviewRow(run, b)}
    /\ stmt = "weeks" => Len(got[stmt]) \in Nat /\ DOMAIN got[stmt] = 1 .. Len(got[stmt])

\* What the answer says of a week that is not gone: what an operator sees.
Told(stmt, got, run, filter, number, alert) ==
    LET facts == Facts[run]
        listed == ReaderList(facts.alerts, filter)
    IN  /\ stmt = "count" => got[stmt] = Cardinality(listed)
        /\ stmt = "rows" =>
               got[stmt] = PageOf(ReaderOrder(listed), Clamped(number, Cardinality(listed)))
        /\ stmt = "detail" => got[stmt] = {a \in facts.alerts : Identity(a) = alert}
        /\ stmt = "totals" =>
               \A s \in SCHEMAS : SchemaTotalsOf(got[stmt])[s].events
                                      = AdminSchemaTotals(s, facts.daily, facts.alerts).events
        /\ stmt = "rules" => got[stmt] = AdminRuleTotals(facts.counts, facts.alerts)
        /\ stmt = "daily" => got[stmt] = DailyPoints(facts.daily)
        /\ stmt = "alerts" => got[stmt] = facts.alerts
        /\ stmt = "weeks" => Len(got[stmt]) > 0 /\ got[stmt][Len(got[stmt])].run = run
        /\ stmt = "week_rules" => got[stmt][Len(got["weeks"])] = V1Rules(facts.alerts)

PageShape ==
    LET stmts == Statements(page.tab)
    IN  /\ page = [tab |-> page.tab, team |-> page.team, week |-> page.week,
                   filter |-> page.filter, number |-> page.number, alert |-> page.alert,
                   status |-> page.status, at |-> page.at, selected |-> page.selected,
                   got |-> page.got, left |-> page.left]
        /\ page.got = [s \in DOMAIN page.got |-> page.got[s]]
        /\ page.number \in Int
        /\ page.at \in 1 .. Len(stmts) + 1
        /\ \/ page.status = "reading" /\ page.at <= Len(stmts)
           \/ page.status = "shown" /\ page.at = Len(stmts) + 1
           \/ page.status = "404"
           \/ page.status = "503" /\ page.at > 1 /\ page.selected.review.run \in page.left

\* The week the page is about, and that it is published or known to be gone.
PageWeek ==
    page.at > 1 =>
        LET run == page.selected.review.run
        IN  /\ run \in Runs /\ page.selected.review.team = RunTeam[run]
            /\ run \in page.left \/ run \in PublishedRuns

PageAnswers ==
    \A i \in 1 .. page.at - 1 :
        LET stmt == Statements(page.tab)[i]
            run == page.selected.review.run
        IN  stmt # "reviews" =>
                /\ Heard(stmt, page.got, run)
                /\ run \in page.left
                       \/ Told(stmt, page.got, run, page.filter, page.number, page.alert)

PageReads == page = NoPage \/ (PageShape /\ PageWeek /\ PageAnswers)

PageInvariant == LedgerIsSound /\ PageReads
-------------------------------------------------------------------------------
(* What the statements answer.                                             *)

LEMMA PagesAreNumbers ==
    ASSUME NEW n \in Int, NEW total \in Nat
    PROVE  Clamped(n, total) \in Int /\ Clamped(n, total) >= 1
<1>1. PAGE_SIZE \in Nat \ {0}
    BY PageSizeAssumption
<1>2. CeilDiv(total, PAGE_SIZE) \in Int
    BY <1>1 DEF CeilDiv
<1>3. LastPage(total) \in Int /\ LastPage(total) >= 1
    BY <1>2 DEF LastPage, Later
<1> QED
    BY <1>3 DEF Clamped, Later, Earlier

LEMMA ReadersOrder ==
    ASSUME NEW S, IsFiniteSet(S)
    PROVE  Len(ReaderOrder(S)) = Cardinality(S)
<1>1. PICK n : n = Cardinality(S) /\ n \in Nat
    BY FS_CardinalityType
<1>2. PICK o : o = ReaderOrder(S)
    OBVIOUS
<1> DEFINE Before(a, b) == Smaller(<<AttentionRank(a), -a.row_count>> \o Identity(a),
                                   <<AttentionRank(b), -b.row_count>> \o Identity(b))
           At(k) == CHOOSE x \in S : Cardinality({y \in S : Before(y, x)}) = k - 1
<1>3. ReaderOrder(S) = [k \in 1 .. Cardinality(S) |-> At(k)]
    BY DEF ReaderOrder, SortedBy
<1> HIDE DEF At
<1>4. o \in [1 .. n -> {o[k] : k \in 1 .. n}]
    BY <1>1, <1>2, <1>3
<1>5. Len(o) = n
    BY <1>1, <1>4, LenIs
<1> QED
    BY <1>1, <1>2, <1>5

LEMMA NoRows ==
    ASSUME NEW n \in Int, n >= 1
    PROVE  PageOf(ReaderOrder({}), n) = <<>>
<1>1. PAGE_SIZE \in Nat \ {0}
    BY PageSizeAssumption
<1>2. IsFiniteSet({}) /\ Cardinality({}) = 0
    BY FS_EmptySet
<1>3. Len(ReaderOrder({})) = 0
    BY <1>2, ReadersOrder
<1>4. PICK m : m = n * PAGE_SIZE /\ m \in Nat /\ m >= 1
    BY <1>1
<1>5. Earlier(n * PAGE_SIZE, Len(ReaderOrder({}))) = 0
    BY <1>3, <1>4 DEF Earlier
<1>6. PICK f : f = (n - 1) * PAGE_SIZE + 1 /\ f \in Int /\ 0 < f
    BY <1>1
<1>7. SubSeq(ReaderOrder({}), f, 0) = <<>>
    BY <1>6, SubSeqEmpty
<1> QED
    BY <1>5, <1>6, <1>7 DEF PageOf

LEMMA ListsAreFinite ==
    ASSUME NEW S, IsFiniteSet(S), NEW f
    PROVE  IsFiniteSet(ReaderList(S, f)) /\ Cardinality(ReaderList(S, f)) \in Nat
<1>1. ReaderList(S, f) \in SUBSET S
    BY DEF ReaderList, NeedingAttention, Matching
<1> QED
    BY <1>1, FS_Subset, FS_CardinalityType

LEMMA NoAlerts ==
    ASSUME NEW f
    PROVE  ReaderList({}, f) = {} /\ Matching({}, f) = {} /\ V1Rules({}) = {}
BY DEF ReaderList, NeedingAttention, Matching, V1Rules, AlertsOf

-------------------------------------------------------------------------------
(* The published weeks of a team, newest last.                             *)

\* No two weeks of a team end together.
LEMMA WeeksApart ==
    ASSUME LedgerIsSound, NEW t \in Teams, NEW p \in ledger[t], NEW q \in ledger[t], RunEnd[p] = RunEnd[q]
    PROVE  p = q
<1>1. p \in Runs /\ q \in Runs
    BY DEF LedgerIsSound
<1>2. RunStart[p] \in Int /\ RunEnd[p] \in Int /\ RunStart[q] \in Int /\ RunEnd[q] \in Int
    BY <1>1, RunsAssumption
<1>3. RunEnd[p] - RunStart[p] = WeekLength /\ RunEnd[q] - RunStart[q] = WeekLength
    BY DEF LedgerIsSound
<1>4. p # q => RunEnd[p] <= RunStart[q] \/ RunEnd[q] <= RunStart[p]
    BY DEF LedgerIsSound
<1> QED
    BY <1>2, <1>3, <1>4, WeekLengthAssumption

\* What a reader is told of a run while it is published.
LEMMA ReviewsAre ==
    ASSUME LedgerIsSound, NEW r \in Runs
    PROVE  /\ Review(r).run = r /\ Review(r).team = RunTeam[r] /\ Review(r).end = RunEnd[r]
           /\ RunEnd[r] \in Int /\ RunTeam[r] \in Teams
           /\ r \in PublishedRuns <=> r \in ledger[RunTeam[r]]
           /\ \E b \in BOOLEAN : Review(r) = ReviewRow(r, b)
<1>1. RunTeam[r] \in Teams /\ RunEnd[r] \in Int
    BY RunsAssumption
<1>2. r \in PublishedRuns <=> r \in ledger[RunTeam[r]]
    BY <1>1 DEF LedgerIsSound, PublishedRuns
<1>3. Review(r).run = r /\ Review(r).team = RunTeam[r] /\ Review(r).end = RunEnd[r]
    BY DEF Review
<1>4. \E b \in BOOLEAN : Review(r) = ReviewRow(r, b)
    <2>1. ViewBasisChanged(r) \in BOOLEAN
        BY DEF ViewBasisChanged
    <2>2. Review(r) = ReviewRow(r, ViewBasisChanged(r))
        BY DEF Review, ReviewRow
    <2> QED
        BY <2>1, <2>2
<1> QED
    BY <1>1, <1>2, <1>3, <1>4

\* The weeks a page tells of are published, and its own week is the last.
LEMMA WeeksInOrder ==
    ASSUME LedgerIsSound, NEW t \in Teams, NEW end \in Int, NEW weeks, weeks = HistoryWeeks(t, end)
    PROVE  /\ Len(weeks) \in Nat /\ DOMAIN weeks = 1 .. Len(weeks)
           /\ \A k \in 1 .. Len(weeks) : weeks[k] \in PortalReviews /\ weeks[k].team = t
           /\ \A r \in ledger[t] :
                  RunEnd[r] = end => Len(weeks) > 0 /\ weeks[Len(weeks)].run = r
<1> DEFINE mine == {v \in PortalReviews : v.team = t /\ v.end <= end}
           S == {v \in mine : Cardinality({w \in mine : w.end > v.end}) < HISTORY_WEEKS}
           R == {e \in mine \X mine : e[1].end < e[2].end}
           Ranked(k) == CHOOSE x \in S : Cardinality({y \in S : y.end < x.end}) = k - 1
<1>1. weeks = [k \in 1 .. Cardinality(S) |-> Ranked(k)]
    BY DEF HistoryWeeks, LastWeeks, SortedBy
<1>2. \A v \in mine : v.run \in ledger[t] /\ v = Review(v.run) /\ v.end = RunEnd[v.run]
                      /\ v.end \in Int /\ v.end <= end
    <2> SUFFICES ASSUME NEW v \in mine PROVE v.run \in ledger[t] /\ v = Review(v.run)
                      /\ v.end = RunEnd[v.run] /\ v.end \in Int /\ v.end <= end
        OBVIOUS
    <2>1. PICK r \in PublishedRuns : v = Review(r)
        BY DEF PortalReviews
    <2>2. r \in Runs
        BY DEF PublishedRuns, LedgerIsSound
    <2>3. v.run = r /\ v.team = RunTeam[r] /\ v.end = RunEnd[r] /\ RunEnd[r] \in Int /\ r \in ledger[RunTeam[r]]
        BY <2>1, <2>2, ReviewsAre
    <2> QED
        BY <2>1, <2>3
<1>3. IsFiniteSet(mine)
    <2>1. IsFiniteSet(ledger[t])
        BY DEF LedgerIsSound
    <2> DEFINE f == [q \in ledger[t] |-> Review(q)]
    <2>2. mine \subseteq {f[q] : q \in ledger[t]}
        BY <1>2
    <2> HIDE DEF f, mine
    <2>3. IsFiniteSet({f[q] : q \in ledger[t]})
        BY <2>1, ImageIsFinite
    <2> QED
        BY <2>2, <2>3, FS_Subset
<1>4. \A v, w \in mine : v.end = w.end => v = w
    BY <1>2, WeeksApart
<1>5. S \subseteq mine
    OBVIOUS
<1>6. \A r \in ledger[t] : RunEnd[r] = end => Review(r) \in mine
    <2> SUFFICES ASSUME NEW r \in ledger[t], RunEnd[r] = end PROVE Review(r) \in mine
        OBVIOUS
    <2>1. r \in Runs /\ RunTeam[r] = t /\ r \in PublishedRuns
        BY DEF LedgerIsSound, PublishedRuns
    <2>2. Review(r).team = t /\ Review(r).end = end
        BY <2>1, ReviewsAre
    <2> QED
        BY <2>1, <2>2 DEF PortalReviews
<1>7. \A v \in mine : v.end = end => v \in S
    <2> SUFFICES ASSUME NEW v \in mine, v.end = end PROVE v \in S
        OBVIOUS
    <2>1. {w \in mine : w.end > v.end} = {}
        BY <1>2
    <2>2. Cardinality({w \in mine : w.end > v.end}) = 0
        BY <2>1, FS_EmptySet
    <2> QED
        BY <2>2, HistoryAssumption
<1>8. \A v \in mine : v \in PortalReviews /\ v.team = t
    OBVIOUS
<1>9. \A x, y : <<x, y>> \in R <=> x \in mine /\ y \in mine /\ x.end < y.end
    OBVIOUS
<1>10. \A x \in S : Cardinality({y \in S : y.end < x.end}) = Rank(R, S, x)
    <2> SUFFICES ASSUME NEW x \in S PROVE Cardinality({y \in S : y.end < x.end}) = Rank(R, S, x)
        OBVIOUS
    <2>1. {y \in S : y.end < x.end} = {y \in S : <<y, x>> \in R}
        BY <1>5, <1>9
    <2> QED
        BY <2>1 DEF Rank
<1>11. IsFiniteSet(S)
    BY <1>3, <1>5, FS_Subset
<1> HIDE DEF mine, S, R
<1>12. IsOrder(R, S)
    BY <1>2, <1>4, <1>5, <1>9 DEF IsOrder
<1>13. IsArranged(weeks, R, S)
    <2>1. DOMAIN weeks = 1 .. Cardinality(S)
        BY <1>1
    <2>2. ASSUME NEW k \in DOMAIN weeks, \E x \in S : Rank(R, S, x) = k - 1
          PROVE  weeks[k] \in S /\ Rank(R, S, weeks[k]) = k - 1
        <3>1. weeks[k] = Ranked(k)
            BY <1>1, <2>1
        <3>2. \E x \in S : Cardinality({y \in S : y.end < x.end}) = k - 1
            BY <1>10, <2>2
        <3>3. Ranked(k) \in S /\ Cardinality({y \in S : y.end < Ranked(k).end}) = k - 1
            BY <3>2
        <3> QED
            BY <1>10, <3>1, <3>3
    <2> QED
        BY <2>1, <2>2 DEF IsArranged
<1>14. PICK n : n = Cardinality(S)
    OBVIOUS
<1>15. /\ n \in Nat /\ DOMAIN weeks = 1 .. n
       /\ \A k \in 1 .. n : weeks[k] \in S
       /\ \A x \in S : \E k \in 1 .. n : weeks[k] = x
       /\ \A j, k \in 1 .. n : j < k => <<weeks[j], weeks[k]>> \in R
    BY <1>11, <1>12, <1>13, <1>14, Arranged
<1>16. Len(weeks) = n
    <2>1. weeks = [k \in 1 .. n |-> weeks[k]]
        BY <1>1, <1>14
    <2>2. weeks \in [1 .. n -> S]
        BY <1>15, <2>1
    <2> QED
        BY <1>15, <2>2, LenIs
<1>17. ASSUME NEW r \in ledger[t], RunEnd[r] = end PROVE n > 0 /\ weeks[n].run = r
    <2>1. Review(r) \in mine
        BY <1>6, <1>17
    <2>2. Review(r).end = end /\ Review(r).run = r
        <3>1. r \in Runs
            BY DEF LedgerIsSound
        <3> QED
            BY <1>17, <3>1, ReviewsAre
    <2>3. PICK k \in 1 .. n : weeks[k] = Review(r)
        BY <1>7, <1>15, <2>1, <2>2
    <2>4. k = n
        <3> SUFFICES ASSUME k < n PROVE FALSE
            BY <1>15
        <3>1. <<weeks[k], weeks[n]>> \in R
            BY <1>15
        <3>2. weeks[n] \in mine /\ end < weeks[n].end
            BY <1>9, <2>2, <2>3, <3>1
        <3> QED
            BY <1>2, <3>2
    <2> QED
        BY <1>15, <2>2, <2>3, <2>4
<1> QED
    BY <1>5, <1>8, <1>15, <1>16, <1>17

-------------------------------------------------------------------------------
(* Reading the next statement of a page.                                   *)

\* What is known while a statement that reads the week is about to run.
AtStatement(stmt, run) ==
    /\ PageInvariant /\ page # NoPage /\ page.status = "reading"
    /\ stmt = Statements(page.tab)[page.at] /\ stmt # "reviews"
    /\ run = page.selected.review.run

LEMMA TheWeekIsKnown ==
    ASSUME NEW stmt, NEW run, AtStatement(stmt, run)
    PROVE  /\ page.at \in 1 .. Len(Statements(page.tab)) /\ page.at > 1 /\ page.number \in Int
           /\ run \in Runs /\ page.selected.review.team = RunTeam[run]
           /\ run \in page.left \/ run \in PublishedRuns
           /\ stmt \in NAMES
<1>1. PageShape /\ PageWeek /\ page.status = "reading"
    BY DEF AtStatement, PageInvariant, PageReads
<1>2. PICK n : n = Len(Statements(page.tab))
    OBVIOUS
<1>3. /\ n \in Nat /\ DOMAIN Statements(page.tab) = 1 .. n /\ Statements(page.tab)[1] = "reviews"
      /\ \A i \in 1 .. n : Statements(page.tab)[i] \in NAMES
    BY <1>2, StatementsInOrder DEF StatementsAre
<1>4. page.at \in 1 .. n /\ page.number \in Int
    BY <1>1, <1>2, <1>3 DEF PageShape
<1>5. page.at > 1
    BY <1>3, <1>4 DEF AtStatement
<1> QED
    BY <1>1, <1>2, <1>3, <1>4, <1>5 DEF PageWeek, AtStatement

LEMMA ReadBefore ==
    ASSUME NEW stmt, NEW run, AtStatement(stmt, run), NEW name, name # "reviews",
           \E i \in DOMAIN Statements(page.tab) : i < page.at /\ Statements(page.tab)[i] = name
    PROVE  /\ Heard(name, page.got, run)
           /\ run \in page.left
                  \/ Told(name, page.got, run, page.filter, page.number, page.alert)
<1>1. PICK i \in DOMAIN Statements(page.tab) : i < page.at /\ Statements(page.tab)[i] = name
    OBVIOUS
<1>2. DOMAIN Statements(page.tab) = 1 .. Len(Statements(page.tab)) /\ Len(Statements(page.tab)) \in Nat
    BY StatementsInOrder DEF StatementsAre
<1>3. page.at \in Int
    BY <1>2, TheWeekIsKnown
<1>4. i \in 1 .. page.at - 1
    BY <1>1, <1>2, <1>3
<1>5. PageAnswers
    BY DEF AtStatement, PageInvariant, PageReads
<1> QED
    BY <1>1, <1>4, <1>5 DEF PageAnswers, AtStatement

\* Readers are answered with what is published, and operators see the same.
LEMMA ListsAreTold ==
    ASSUME NEW stmt, NEW run, AtStatement(stmt, run), stmt \in {"count", "rows", "counts", "detail"}
    PROVE  /\ stmt = "count" => Answer(stmt) \in Nat
           /\ run \notin page.left =>
                  LET listed == ReaderList(Facts[run].alerts, page.filter)
                  IN  /\ stmt = "count" => Answer(stmt) = Cardinality(listed)
                      /\ stmt = "rows" => Answer(stmt) = PageOf(ReaderOrder(listed),
                                                             Clamped(page.number, Cardinality(listed)))
                      /\ stmt = "detail" =>
                             Answer(stmt) = {a \in Facts[run].alerts : Identity(a) = page.alert}
           /\ run \notin PublishedRuns =>
                  /\ stmt = "count" => Answer(stmt) = 0
                  /\ stmt = "rows" => Answer(stmt) = <<>>
                  /\ stmt = "counts" => Answer(stmt).all = 0
                  /\ stmt = "detail" => Answer(stmt) = {}
<1>1. /\ run \in Runs
      /\ run \in page.left \/ run \in PublishedRuns
      /\ run = page.selected.review.run /\ page.number \in Int
    BY TheWeekIsKnown DEF AtStatement
<1>2. PortalAlerts(run) = IF run \in PublishedRuns THEN Facts[run].alerts ELSE {}
    BY DEF PortalAlerts
<1>3. IsFiniteSet(PortalAlerts(run))
    <2>1. IsFiniteSet(Facts[run].alerts) /\ IsFiniteSet({})
        BY <1>1, RunsAssumption, FS_EmptySet DEF StoredRun
    <2> QED
        BY <1>2, <2>1
<1>4. Cardinality(ReaderList(PortalAlerts(run), page.filter)) \in Nat
    BY <1>3, ListsAreFinite
<1>5. Cardinality({}) = 0
    BY FS_EmptySet
<1>6. ReaderList({}, page.filter) = {} /\ Matching({}, page.filter) = {}
    BY NoAlerts
<1>7. CASE stmt = "count"
    <2>1. Answer(stmt) = Cardinality(ReaderList(PortalAlerts(run), page.filter))
        BY <1>1, <1>7 DEF Answer
    <2> QED
        BY <1>1, <1>2, <1>4, <1>5, <1>6, <1>7, <2>1
<1>8. CASE stmt = "rows"
    <2>1. PICK count : count = page.got["count"]
        OBVIOUS
    <2>2. Answer(stmt) = PageOf(ReaderOrder(ReaderList(PortalAlerts(run), page.filter)),
                                Clamped(page.number, count))
        BY <1>1, <1>8, <2>1 DEF Answer
    <2>3. \E i \in DOMAIN Statements(page.tab) : i < page.at /\ Statements(page.tab)[i] = "count"
        <3>1. page.at \in DOMAIN Statements(page.tab) /\ Statements(page.tab)[page.at] = "rows"
            BY <1>8, TheWeekIsKnown, StatementsInOrder DEF StatementsAre, AtStatement
        <3> QED
            BY <3>1, StatementsInOrder DEF StatementsAre
    <2>4. /\ Heard("count", page.got, run)
          /\ run \in page.left \/ Told("count", page.got, run, page.filter, page.number, page.alert)
        BY <2>3, ReadBefore
    <2>5. count \in Nat
        BY <2>1, <2>4 DEF Heard
    <2>6. run \notin page.left => count = Cardinality(ReaderList(Facts[run].alerts, page.filter))
        BY <2>1, <2>4 DEF Told
    <2>7. run \notin PublishedRuns => Answer(stmt) = <<>>
        BY <1>1, <1>2, <1>6, <2>2, <2>5, NoRows, PagesAreNumbers
    <2> QED
        BY <1>1, <1>2, <1>8, <2>2, <2>6, <2>7
<1>9. CASE stmt = "counts"
    <2>1. Answer(stmt).all = Cardinality(Matching(PortalAlerts(run), page.filter))
        BY <1>1, <1>9 DEF Answer, WorklistCounts
    <2> QED
        BY <1>2, <1>5, <1>6, <1>9, <2>1
<1>10. CASE stmt = "detail"
    <2>1. Answer(stmt) = {a \in PortalAlerts(run) : Identity(a) = page.alert}
        BY <1>1, <1>10 DEF Answer
    <2> QED
        BY <1>1, <1>2, <1>10, <2>1
<1> QED
    BY <1>7, <1>8, <1>9, <1>10

LEMMA FiguresAreTold ==
    ASSUME NEW stmt, NEW run, AtStatement(stmt, run),
           stmt \in {"review", "totals", "rules", "daily", "alerts"}
    PROVE  /\ stmt = "review" /\ Answer(stmt) # {} => \E b \in BOOLEAN : Answer(stmt) = {ReviewRow(run, b)}
           /\ stmt = "review" /\ Answer(stmt) = {} => run \in page.left
           /\ run \notin page.left =>
                  /\ stmt = "totals" =>
                         \A s \in SCHEMAS : SchemaTotalsOf(Answer(stmt))[s].events
                             = AdminSchemaTotals(s, Facts[run].daily, Facts[run].alerts).events
                  /\ stmt = "rules" => Answer(stmt) = AdminRuleTotals(Facts[run].counts, Facts[run].alerts)
                  /\ stmt = "daily" => Answer(stmt) = DailyPoints(Facts[run].daily)
                  /\ stmt = "alerts" => Answer(stmt) = Facts[run].alerts
           /\ run \notin PublishedRuns => Answer(stmt) = {}
<1>1. /\ run \in Runs
      /\ run \in page.left \/ run \in PublishedRuns
      /\ run = page.selected.review.run /\ page.selected.review.team = RunTeam[run]
    BY TheWeekIsKnown DEF AtStatement
<1>2. LedgerIsSound
    BY DEF AtStatement, PageInvariant
<1>3. CASE stmt = "review"
    <2>1. Answer(stmt) = {v \in PortalReviews : v.run = run /\ v.team = RunTeam[run]}
        BY <1>1, <1>3 DEF Answer
    <2>2. \A v \in PortalReviews : \E r \in Runs \cap PublishedRuns : v = Review(r) /\ v.run = r
        <3> SUFFICES ASSUME NEW v \in PortalReviews
                     PROVE  \E r \in Runs \cap PublishedRuns : v = Review(r) /\ v.run = r
            OBVIOUS
        <3>1. PICK r \in PublishedRuns : v = Review(r)
            BY DEF PortalReviews
        <3>2. r \in Runs
            BY <1>2 DEF PublishedRuns, LedgerIsSound
        <3> QED
            BY <1>2, <3>1, <3>2, ReviewsAre
    <2>3. \A v \in Answer(stmt) : v = Review(run) /\ run \in PublishedRuns
        BY <2>1, <2>2
    <2>4. run \in PublishedRuns => Review(run) \in Answer(stmt)
        <3>1. Review(run).run = run /\ Review(run).team = RunTeam[run]
            BY <1>1, <1>2, ReviewsAre
        <3> QED
            BY <2>1, <3>1 DEF PortalReviews
    <2>5. Answer(stmt) # {} => Answer(stmt) = {Review(run)}
        BY <2>3
    <2>6. \E b \in BOOLEAN : Review(run) = ReviewRow(run, b)
        BY <1>1, <1>2, ReviewsAre
    <2> QED
        BY <1>1, <1>3, <2>3, <2>4, <2>5, <2>6
<1>4. CASE stmt = "totals"
    <2>1. Answer(stmt) = PortalSchemaTotals(run)
        BY <1>1, <1>4 DEF Answer
    <2>2. run \in PublishedRuns => \A s \in SCHEMAS : SchemaTotalsOf(PortalSchemaTotals(run))[s].events
                             = AdminSchemaTotals(s, Facts[run].daily, Facts[run].alerts).events
        BY <1>1, TotalsAgree DEF SameTotals
    <2>3. run \notin PublishedRuns => Answer(stmt) = {}
        BY <2>1 DEF PortalSchemaTotals
    <2> QED
        BY <1>1, <1>4, <2>1, <2>2, <2>3
<1>5. CASE stmt = "rules"
    <2>1. Answer(stmt) = PortalRuleTotals(run)
        BY <1>1, <1>5 DEF Answer
    <2>2. run \notin PublishedRuns => Answer(stmt) = {}
        BY <2>1 DEF PortalRuleTotals
    <2> QED
        BY <1>1, <1>5, <2>1, <2>2, RulesAgree
<1>6. CASE stmt = "daily"
    <2>1. Answer(stmt) = PortalDailyMetrics(run)
        BY <1>1, <1>6 DEF Answer
    <2> QED
        BY <1>1, <1>6, <2>1 DEF PortalDailyMetrics, DailyPoints
<1>7. CASE stmt = "alerts"
    <2>1. Answer(stmt) = PortalAlerts(run)
        BY <1>1, <1>7 DEF Answer
    <2> QED
        BY <1>1, <1>7, <2>1 DEF PortalAlerts
<1> QED
    BY <1>3, <1>4, <1>5, <1>6, <1>7

LEMMA WeeksAreTold ==
    ASSUME NEW stmt, NEW run, AtStatement(stmt, run), NEW answer, answer = Answer(stmt), stmt = "weeks"
    PROVE  /\ Len(answer) \in Nat /\ DOMAIN answer = 1 .. Len(answer)
           /\ run \notin page.left => Len(answer) > 0 /\ answer[Len(answer)].run = run
           /\ \A k \in DOMAIN answer : answer[k].run \in PublishedRuns
<1>1. /\ run \in Runs
      /\ run \in page.left \/ run \in PublishedRuns
      /\ run = page.selected.review.run /\ page.selected.review.team = RunTeam[run]
    BY TheWeekIsKnown DEF AtStatement
<1>2. LedgerIsSound /\ RunTeam[run] \in Teams /\ RunEnd[run] \in Int
    BY <1>1, RunsAssumption DEF AtStatement, PageInvariant
<1>3. \E i \in DOMAIN Statements(page.tab) : i < page.at /\ Statements(page.tab)[i] = "review"
    <2>1. page.at \in DOMAIN Statements(page.tab) /\ Statements(page.tab)[page.at] = "weeks"
        BY TheWeekIsKnown, StatementsInOrder DEF StatementsAre, AtStatement
    <2> QED
        BY <2>1, StatementsInOrder DEF StatementsAre
<1>4. Heard("review", page.got, run)
    BY <1>3, ReadBefore
<1>5. PICK b \in BOOLEAN : page.got["review"] = {ReviewRow(run, b)}
    BY <1>4 DEF Heard
<1>6. (CHOOSE v \in page.got["review"] : TRUE).end = RunEnd[run]
    <2>1. ReviewRow(run, b).end = RunEnd[run]
        BY DEF ReviewRow
    <2> QED
        BY <1>5, <2>1
<1>7. answer = HistoryWeeks(RunTeam[run], RunEnd[run])
    BY <1>1, <1>6 DEF Answer
<1>8. /\ Len(answer) \in Nat /\ DOMAIN answer = 1 .. Len(answer)
      /\ \A k \in 1 .. Len(answer) : answer[k] \in PortalReviews
      /\ \A r \in ledger[RunTeam[run]] :
             RunEnd[r] = RunEnd[run] => Len(answer) > 0 /\ answer[Len(answer)].run = r
    BY <1>2, <1>7, WeeksInOrder
<1>9. run \in PublishedRuns => run \in ledger[RunTeam[run]]
    BY <1>1, <1>2, ReviewsAre
<1>10. \A v \in PortalReviews : v.run \in PublishedRuns
    BY DEF PortalReviews, Review
<1> QED
    BY <1>1, <1>8, <1>9, <1>10

LEMMA WeekRulesAreTold ==
    ASSUME NEW stmt, NEW run, AtStatement(stmt, run), NEW answer, answer = Answer(stmt), stmt = "week_rules"
    PROVE  /\ run \notin page.left =>
                  answer[Len(page.got["weeks"])] = V1Rules(Facts[run].alerts)
           /\ \A k \in DOMAIN answer :
                  page.got["weeks"][k].run \notin PublishedRuns => answer[k] = {}
<1>1. /\ run \in Runs
      /\ run \in page.left \/ run \in PublishedRuns
    BY TheWeekIsKnown DEF AtStatement
<1>2. PICK weeks : weeks = page.got["weeks"]
    OBVIOUS
<1>3. \E i \in DOMAIN Statements(page.tab) : i < page.at /\ Statements(page.tab)[i] = "weeks"
    <2>1. page.at \in DOMAIN Statements(page.tab) /\ Statements(page.tab)[page.at] = "week_rules"
        BY TheWeekIsKnown, StatementsInOrder DEF StatementsAre, AtStatement
    <2> QED
        BY <2>1, StatementsInOrder DEF StatementsAre
<1>4. /\ Heard("weeks", page.got, run)
      /\ run \in page.left \/ Told("weeks", page.got, run, page.filter, page.number, page.alert)
    BY <1>3, ReadBefore
<1>5. Len(weeks) \in Nat /\ DOMAIN weeks = 1 .. Len(weeks)
    BY <1>2, <1>4 DEF Heard
<1>6. run \notin page.left => Len(weeks) > 0 /\ weeks[Len(weeks)].run = run
    BY <1>2, <1>4 DEF Told
<1>7. answer = [k \in DOMAIN weeks |-> V1Rules(PortalAlerts(weeks[k].run))]
    BY <1>2 DEF Answer, HistoryRules
<1>8. \A r : r \notin PublishedRuns => V1Rules(PortalAlerts(r)) = {}
    BY NoAlerts DEF PortalAlerts
<1>9. run \in PublishedRuns => PortalAlerts(run) = Facts[run].alerts
    BY DEF PortalAlerts
<1> QED
    BY <1>1, <1>2, <1>5, <1>6, <1>7, <1>8, <1>9

\* The statement's answer is as an answer must be.
LEMMA TheNextIsTold ==
    ASSUME NEW stmt, NEW run, AtStatement(stmt, run), NEW got, got = WithAnswer(page.got, stmt, Answer(stmt)),
           stmt = "review" => Answer(stmt) # {}
    PROVE  /\ Heard(stmt, got, run)
           /\ run \in page.left \/ Told(stmt, got, run, page.filter, page.number, page.alert)
<1>1. stmt \in DOMAIN got /\ got[stmt] = Answer(stmt)
    BY DEF WithAnswer
<1>2. stmt \in NAMES /\ stmt # "reviews"
    BY TheWeekIsKnown DEF AtStatement
<1>3. CASE stmt \in {"count", "rows", "counts", "detail"}
    BY <1>1, <1>3, ListsAreTold DEF Heard, Told
<1>4. CASE stmt \in {"review", "totals", "rules", "daily", "alerts"}
    BY <1>1, <1>4, FiguresAreTold DEF Heard, Told
<1>5. CASE stmt = "weeks"
    BY <1>1, <1>5, WeeksAreTold DEF Heard, Told
<1>6. CASE stmt = "week_rules"
    <2>1. \E i \in DOMAIN Statements(page.tab) : i < page.at /\ Statements(page.tab)[i] = "weeks"
        <3>1. page.at \in DOMAIN Statements(page.tab) /\ Statements(page.tab)[page.at] = "week_rules"
            BY <1>6, TheWeekIsKnown, StatementsInOrder DEF StatementsAre, AtStatement
        <3> QED
            BY <3>1, StatementsInOrder DEF StatementsAre
    <2>2. "weeks" \in DOMAIN page.got
        BY <2>1, ReadBefore DEF Heard
    <2>3. got["weeks"] = page.got["weeks"]
        BY <1>6, <2>2 DEF WithAnswer
    <2> QED
        BY <1>1, <1>6, <2>3, WeekRulesAreTold DEF Heard, Told
<1> QED
    BY <1>2, <1>3, <1>4, <1>5, <1>6 DEF NAMES

\* What was answered before is not lost.
LEMMA TheOldIsTold ==
    ASSUME NEW got, NEW stmt, NEW answer, NEW more, more = WithAnswer(got, stmt, answer),
           NEW name, name # stmt, NEW run, Heard(name, got, run),
           name = "week_rules" => "weeks" \in DOMAIN got /\ stmt # "weeks",
           NEW filter, NEW number, NEW alert
    PROVE  /\ Heard(name, more, run)
           /\ Told(name, got, run, filter, number, alert) => Told(name, more, run, filter, number, alert)
<1>1. name \in DOMAIN got
    BY DEF Heard
<1>2. name \in DOMAIN more /\ more[name] = got[name]
    BY <1>1 DEF WithAnswer
<1>3. name = "week_rules" => more["weeks"] = got["weeks"]
    BY DEF WithAnswer
<1>4. Heard(name, more, run)
    BY <1>2 DEF Heard
<1>5. ASSUME Told(name, got, run, filter, number, alert) PROVE Told(name, more, run, filter, number, alert)
    BY <1>2, <1>3, <1>5 DEF Told
<1> QED
    BY <1>4, <1>5

-------------------------------------------------------------------------------
(* The invariant of a page.                                                *)

PageIsRecord(p) ==
    p = [tab |-> p.tab, team |-> p.team, week |-> p.week, filter |-> p.filter, number |-> p.number,
         alert |-> p.alert, status |-> p.status, at |-> p.at, selected |-> p.selected,
         got |-> p.got, left |-> p.left]

LEMMA OpenKeeps ==
    ASSUME PageInvariant, NEW request \in Requests, Open(request)
    PROVE  PageInvariant'
<1>1. LedgerIsSound'
    BY DEF Open, PageInvariant, LedgerIsSound
<1>2. page' = [tab |-> request.tab, team |-> request.team, week |-> request.week,
               filter |-> request.filter, number |-> request.number, alert |-> request.alert,
               status |-> "reading", at |-> 1, selected |-> Null,
               got |-> [s \in {} |-> Null], left |-> {}]
    BY DEF Open
<1>3. /\ page'.number = request.number /\ page'.tab = request.tab /\ page'.status = "reading"
      /\ page'.at = 1 /\ page'.got = [s \in {} |-> Null]
    BY <1>2
<1>4. request.number \in Int
    BY RequestsAssumption
<1>5. Len(Statements(request.tab)) \in Nat /\ Len(Statements(request.tab)) > 0
    BY StatementsInOrder DEF StatementsAre
<1>6. page'.got = [s \in DOMAIN page'.got |-> page'.got[s]]
    BY <1>3
<1>7. page' = [tab |-> page'.tab, team |-> page'.team, week |-> page'.week,
               filter |-> page'.filter, number |-> page'.number, alert |-> page'.alert,
               status |-> page'.status, at |-> page'.at, selected |-> page'.selected,
               got |-> page'.got, left |-> page'.left]
    BY <1>2
<1>8. PageShape'
    BY <1>3, <1>4, <1>5, <1>6, <1>7 DEF PageShape
<1>9. PageWeek' /\ PageAnswers'
    BY <1>3 DEF PageWeek, PageAnswers
<1> QED
    BY <1>1, <1>8, <1>9 DEF PageInvariant, PageReads

LEMMA CloseKeeps ==
    ASSUME PageInvariant, Close
    PROVE  PageInvariant'
BY DEF Close, PageInvariant, PageReads, LedgerIsSound

LEMMA ReviewsKeep ==
    ASSUME PageInvariant, page # NoPage, page.status = "reading", ReadReviews, UNCHANGED ledger
    PROVE  PageInvariant'
<1>1. LedgerIsSound /\ LedgerIsSound'
    BY DEF PageInvariant, LedgerIsSound
<1>2. PageShape /\ PageWeek /\ PageAnswers /\ PageIsRecord(page)
    BY DEF PageInvariant, PageReads, PageShape, PageIsRecord
<1>3. PICK stmts, n, reviews, found :
          /\ stmts = Statements(page.tab) /\ n = Len(stmts)
          /\ reviews = TeamReviews(page.team) /\ found = Selected(reviews, page.week)
    OBVIOUS
<1>4. /\ n \in Nat /\ DOMAIN stmts = 1 .. n
      /\ \A i, j \in 1 .. n : i < j /\ stmts[j] = "reviews" => stmts[i] = "reviews"
      /\ page.tab = "history" => n = 1
      /\ page.tab # "history" => stmts[n] # "reviews"
    BY <1>3, StatementsInOrder DEF StatementsAre
<1>5. page.at \in 1 .. n /\ stmts[page.at] = "reviews" /\ page.number \in Int
    BY <1>2, <1>3, <1>4 DEF PageShape, ReadReviews
<1>6. page.got = [s \in DOMAIN page.got |-> page.got[s]]
    BY <1>2 DEF PageShape
<1>7. CASE found = {}
    <2>1. page' = [page EXCEPT !.status = "404"]
        BY <1>3, <1>7 DEF ReadReviews, Finish
    <2>2. page' = [tab |-> page.tab, team |-> page.team, week |-> page.week, filter |-> page.filter,
                   number |-> page.number, alert |-> page.alert, status |-> "404", at |-> page.at,
                   selected |-> page.selected, got |-> page.got, left |-> page.left]
        BY <1>2, <2>1 DEF PageIsRecord
    <2>3. /\ PageIsRecord(page)' /\ page'.got = page.got /\ page'.at = page.at /\ page'.status = "404"
          /\ page'.selected = page.selected /\ page'.left = page.left /\ page'.tab = page.tab
          /\ page'.filter = page.filter /\ page'.number = page.number /\ page'.alert = page.alert
        BY <2>2 DEF PageIsRecord
    <2>4. PageShape'
        BY <1>3, <1>4, <1>5, <1>6, <2>3 DEF PageShape, PageIsRecord
    <2>5. PageWeek' /\ PageAnswers'
        <3>1. PublishedRuns' = PublishedRuns
            BY DEF PublishedRuns
        <3> QED
            BY <1>2, <2>3, <3>1 DEF PageWeek, PageAnswers
    <2> QED
        BY <1>1, <2>4, <2>5 DEF PageInvariant, PageReads
<1>8. CASE found # {}
    <2>1. PICK chosen : chosen \in found /\ chosen = CHOOSE v \in found : TRUE
        BY <1>8
    <2>2. PICK status : status = IF page.tab = "history" THEN "shown" ELSE page.status
        OBVIOUS
    <2>3. page' = [page EXCEPT !.selected = chosen, !.at = page.at + 1, !.status = status]
        BY <1>2, <1>3, <1>8, <2>1, <2>2 DEF ReadReviews, PageIsRecord
    <2>4. page' = [tab |-> page.tab, team |-> page.team, week |-> page.week, filter |-> page.filter,
                   number |-> page.number, alert |-> page.alert, status |-> status,
                   at |-> page.at + 1, selected |-> chosen, got |-> page.got, left |-> page.left]
        BY <1>2, <2>3 DEF PageIsRecord
    <2>5. /\ PageIsRecord(page)' /\ page'.got = page.got /\ page'.at = page.at + 1
          /\ page'.status = status
          /\ page'.selected = chosen /\ page'.left = page.left /\ page'.tab = page.tab
          /\ page'.filter = page.filter /\ page'.number = page.number /\ page'.alert = page.alert
        BY <2>4 DEF PageIsRecord
    <2>6. /\ status = "shown" => page.at + 1 = n + 1
          /\ status # "shown" => status = "reading" /\ page.at + 1 <= n
        BY <1>4, <1>5, <2>2
    <2>7. PageShape'
        BY <1>3, <1>4, <1>5, <1>6, <2>5, <2>6 DEF PageShape, PageIsRecord
    <2>8. chosen.review.run \in PublishedRuns /\ chosen.review.run \in Runs
          /\ chosen.review.team = RunTeam[chosen.review.run]
        <3>1. PICK v \in PortalReviews : chosen = [review |-> v, totals |-> PortalSchemaTotals(v.run)]
            <4>1. chosen \in TeamReviews(page.team)
                BY <1>3, <2>1 DEF Selected
            <4> QED
                BY <4>1 DEF TeamReviews
        <3>2. PICK r \in PublishedRuns : v = Review(r)
            BY DEF PortalReviews
        <3>3. r \in Runs
            BY <1>1 DEF PublishedRuns, LedgerIsSound
        <3>4. v.run = r /\ v.team = RunTeam[r]
            BY <1>1, <3>2, <3>3, ReviewsAre
        <3> QED
            BY <3>1, <3>3, <3>4
    <2>9. PageWeek'
        <3>1. PublishedRuns' = PublishedRuns
            BY DEF PublishedRuns
        <3> QED
            BY <2>5, <2>8, <3>1 DEF PageWeek
    <2>10. PageAnswers'
        <3>1. \A i \in 1 .. page'.at - 1 : stmts[i] = "reviews"
            BY <1>4, <1>5, <2>5
        <3> QED
            BY <1>3, <2>5, <3>1 DEF PageAnswers
    <2> QED
        BY <1>1, <2>7, <2>9, <2>10 DEF PageInvariant, PageReads
<1> QED
    BY <1>7, <1>8

LEMMA NextKeeps ==
    ASSUME PageInvariant, page # NoPage, page.status = "reading", ReadNext, UNCHANGED ledger
    PROVE  PageInvariant'
<1>1. LedgerIsSound /\ LedgerIsSound'
    BY DEF PageInvariant, LedgerIsSound
<1>2. PageShape /\ PageWeek /\ PageAnswers /\ PageIsRecord(page)
    BY DEF PageInvariant, PageReads, PageShape, PageIsRecord
<1>3. PICK stmts, n, at, stmt, answer, run :
          /\ stmts = Statements(page.tab) /\ n = Len(stmts)
          /\ at = page.at /\ stmt = stmts[page.at]
          /\ answer = Answer(stmt) /\ run = page.selected.review.run
    OBVIOUS
<1>4. /\ n \in Nat /\ DOMAIN stmts = 1 .. n
      /\ \A i, j \in 1 .. n : i < j => stmts[i] # stmts[j] \/ stmts[j] = "reviews"
      /\ \A j \in 1 .. n : stmts[j] = "week_rules" => \E i \in 1 .. n : i < j /\ stmts[i] = "weeks"
    BY <1>3, StatementsInOrder DEF StatementsAre
<1>5. stmt # "reviews" /\ AtStatement(stmt, run)
    BY <1>3 DEF ReadNext, AtStatement
<1>6. /\ at \in 1 .. n /\ at > 1 /\ page.number \in Int
      /\ run \in Runs /\ page.selected.review.team = RunTeam[run]
      /\ run \in page.left \/ run \in PublishedRuns
    BY <1>3, <1>5, TheWeekIsKnown
<1>7. page.got = [s \in DOMAIN page.got |-> page.got[s]]
    BY <1>2 DEF PageShape
<1>8. PublishedRuns' = PublishedRuns
    BY DEF PublishedRuns
<1>9. ASSUME NEW status, status = "404" \/ (status = "503" /\ run \in page.left),
             page' = [page EXCEPT !.status = status]
      PROVE  PageInvariant'
    <2>1. page' = [tab |-> page.tab, team |-> page.team, week |-> page.week, filter |-> page.filter,
                   number |-> page.number, alert |-> page.alert, status |-> status, at |-> page.at,
                   selected |-> page.selected, got |-> page.got, left |-> page.left]
        BY <1>2, <1>9 DEF PageIsRecord
    <2>2. /\ PageIsRecord(page)' /\ page'.got = page.got /\ page'.at = page.at /\ page'.status = status
          /\ page'.selected = page.selected /\ page'.left = page.left /\ page'.tab = page.tab
          /\ page'.filter = page.filter /\ page'.number = page.number /\ page'.alert = page.alert
        BY <2>1 DEF PageIsRecord
    <2>3. PageShape'
        BY <1>3, <1>4, <1>6, <1>7, <1>9, <2>2 DEF PageShape, PageIsRecord
    <2>4. PageWeek' /\ PageAnswers'
        BY <1>2, <1>8, <2>2 DEF PageWeek, PageAnswers
    <2> QED
        BY <1>1, <2>3, <2>4 DEF PageInvariant, PageReads
<1>10. CASE stmt = "detail" /\ answer = {}
    <2>1. page' = [page EXCEPT !.status = "404"]
        BY <1>3, <1>10 DEF ReadNext, Finish
    <2> QED
        BY <1>9, <2>1
<1>11. CASE stmt = "review" /\ answer = {}
    <2>1. page' = [page EXCEPT !.status = "503"]
        BY <1>3, <1>11 DEF ReadNext, Finish
    <2>2. run \in page.left
        BY <1>3, <1>5, <1>11, FiguresAreTold
    <2> QED
        BY <1>9, <2>1, <2>2
<1>12. CASE ~(stmt = "detail" /\ answer = {}) /\ ~(stmt = "review" /\ answer = {})
    <2>1. PICK status : status = IF at = n THEN "shown" ELSE page.status
        OBVIOUS
    <2>2. PICK got : got = WithAnswer(page.got, stmt, answer)
        OBVIOUS
    <2>3. page' = [page EXCEPT !.got = WithAnswer(page.got, stmt, answer), !.at = at + 1, !.status = status]
        BY <1>2, <1>3, <1>12, <2>1 DEF ReadNext, PageIsRecord
    <2>4. page' = [tab |-> page.tab, team |-> page.team, week |-> page.week, filter |-> page.filter,
                   number |-> page.number, alert |-> page.alert, status |-> status,
                   at |-> at + 1, selected |-> page.selected, got |-> got, left |-> page.left]
        BY <1>2, <2>2, <2>3 DEF PageIsRecord
    <2>5. /\ PageIsRecord(page)' /\ page'.got = got /\ page'.at = at + 1
          /\ page'.status = status
          /\ page'.selected = page.selected /\ page'.left = page.left /\ page'.tab = page.tab
          /\ page'.filter = page.filter /\ page'.number = page.number /\ page'.alert = page.alert
        BY <2>4 DEF PageIsRecord
    <2>6. /\ status = "shown" => at + 1 = n + 1
          /\ status # "shown" => status = "reading" /\ at + 1 <= n
        BY <1>4, <1>6, <2>1
    <2>7. got = [s \in DOMAIN got |-> got[s]]
        BY <2>2 DEF WithAnswer
    <2>8. PageShape'
        BY <1>3, <1>4, <1>6, <2>5, <2>6, <2>7 DEF PageShape, PageIsRecord
    <2>9. PageWeek'
        BY <1>3, <1>6, <1>8, <2>5 DEF PageWeek
    <2>10. /\ Heard(stmt, got, run)
           /\ run \in page.left \/ Told(stmt, got, run, page.filter, page.number, page.alert)
        BY <1>3, <1>5, <1>12, <2>2, TheNextIsTold
    <2>11. ASSUME NEW i \in 1 .. at - 1, stmts[i] # "reviews"
           PROVE  /\ Heard(stmts[i], got, run)
                  /\ run \in page.left \/ Told(stmts[i], got, run, page.filter, page.number, page.alert)
        <3>1. PICK name : name = stmts[i]
            OBVIOUS
        <3>2. name # stmt /\ i \in 1 .. n
            BY <1>3, <1>4, <1>5, <1>6, <3>1
        <3>3. /\ Heard(name, page.got, run)
              /\ run \in page.left \/ Told(name, page.got, run, page.filter, page.number, page.alert)
            BY <1>2, <1>3, <2>11, <3>1 DEF PageAnswers
        <3>4. name = "week_rules" => "weeks" \in DOMAIN page.got /\ stmt # "weeks"
            <4> SUFFICES ASSUME name = "week_rules" PROVE "weeks" \in DOMAIN page.got /\ stmt # "weeks"
                OBVIOUS
            <4>1. PICK j \in 1 .. n : j < i /\ stmts[j] = "weeks"
                BY <1>4, <3>1, <3>2
            <4>2. j \in 1 .. at - 1 /\ j < at
                BY <1>4, <1>6, <3>2, <4>1
            <4>3. Heard("weeks", page.got, run)
                BY <1>2, <1>3, <4>1, <4>2 DEF PageAnswers
            <4>4. stmt # "weeks"
                BY <1>3, <1>4, <1>6, <4>1, <4>2
            <4> QED
                BY <4>3, <4>4 DEF Heard
        <3>5. /\ Heard(name, got, run)
              /\ Told(name, page.got, run, page.filter, page.number, page.alert)
                     => Told(name, got, run, page.filter, page.number, page.alert)
            BY <2>2, <3>2, <3>3, <3>4, TheOldIsTold
        <3> QED
            BY <3>1, <3>3, <3>5
    <2>12. PageAnswers'
        <3> SUFFICES ASSUME NEW i \in 1 .. at, stmts[i] # "reviews"
                     PROVE  /\ Heard(stmts[i], got, run)
                            /\ run \in page.left
                                   \/ Told(stmts[i], got, run, page.filter, page.number, page.alert)
            <4>1. page'.at - 1 = at
                BY <1>6, <2>5
            <4> QED
                BY <1>3, <2>5, <4>1 DEF PageAnswers
        <3>1. i = at \/ i \in 1 .. at - 1
            BY <1>6
        <3> QED
            BY <1>3, <2>10, <2>11, <3>1
    <2> QED
        BY <1>1, <2>8, <2>9, <2>12 DEF PageInvariant, PageReads
<1> QED
    BY <1>10, <1>11, <1>12

LEMMA MoveKeeps ==
    ASSUME PageInvariant, Move
    PROVE  PageInvariant'
<1>1. LedgerIsSound'
    <2>1. PICK r \in Runs : \/ \E replace, allowGap \in BOOLEAN : Publish(r, replace, allowGap)
                            \/ Withdraw(r)
        BY DEF Move
    <2> QED
        BY <2>1, PublishKeeps, WithdrawKeeps DEF PageInvariant
<1>2. CASE page = NoPage
    BY <1>1, <1>2 DEF Move, PageInvariant, PageReads
<1>3. CASE page # NoPage
    <2>1. PageShape /\ PageWeek /\ PageAnswers /\ PageIsRecord(page)
        BY <1>3 DEF PageInvariant, PageReads, PageShape, PageIsRecord
    <2>2. PICK left : left = page.left \union (PublishedRuns \ UNION {ledger'[t] : t \in Teams})
        OBVIOUS
    <2>3. page' = [page EXCEPT !.left = left]
        BY <1>3, <2>1, <2>2 DEF Move, PageIsRecord
    <2>4. page' = [tab |-> page.tab, team |-> page.team, week |-> page.week, filter |-> page.filter,
                   number |-> page.number, alert |-> page.alert, status |-> page.status, at |-> page.at,
                   selected |-> page.selected, got |-> page.got, left |-> left]
        BY <2>1, <2>3 DEF PageIsRecord
    <2>5. /\ PageIsRecord(page)' /\ page'.got = page.got /\ page'.at = page.at /\ page'.status = page.status
          /\ page'.selected = page.selected /\ page'.left = left /\ page'.tab = page.tab
          /\ page'.filter = page.filter /\ page'.number = page.number /\ page'.alert = page.alert
        BY <2>4 DEF PageIsRecord
    <2>6. left = page.left \union (PublishedRuns \ PublishedRuns')
        BY <2>2 DEF PublishedRuns
    <2>7. PageShape'
        BY <2>1, <2>5, <2>6 DEF PageShape, PageIsRecord
    <2>8. PageWeek'
        BY <2>1, <2>5, <2>6 DEF PageWeek
    <2>9. PageAnswers'
        BY <2>1, <2>5, <2>6 DEF PageAnswers
    <2> QED
        BY <1>1, <2>7, <2>8, <2>9 DEF PageInvariant, PageReads
<1> QED
    BY <1>2, <1>3

-------------------------------------------------------------------------------
(* What a page shows, and what it reads.                                   *)

\* A page that has been read has had all its answers.
LEMMA AllIsTold ==
    ASSUME PageInvariant, page # NoPage, page.status = "shown", NEW run, run = page.selected.review.run,
           run \notin page.left, NEW name, name # "reviews",
           \E i \in DOMAIN Statements(page.tab) : Statements(page.tab)[i] = name
    PROVE  /\ Heard(name, page.got, run)
           /\ Told(name, page.got, run, page.filter, page.number, page.alert)
<1>1. PageShape /\ PageAnswers
    BY DEF PageInvariant, PageReads
<1>2. PICK n : n = Len(Statements(page.tab))
    OBVIOUS
<1>3. n \in Nat /\ DOMAIN Statements(page.tab) = 1 .. n
    BY <1>2, StatementsInOrder DEF StatementsAre
<1>4. page.at = n + 1
    BY <1>1, <1>2 DEF PageShape
<1>5. PICK i \in 1 .. page.at - 1 : Statements(page.tab)[i] = name
    BY <1>3, <1>4
<1> QED
    BY <1>1, <1>5 DEF PageAnswers

\* What either side makes of a week.
InputsOf(p) ==
    [team |-> p.team, start |-> p.start, end |-> p.end, phase |-> p.phase, readiness |-> p.readiness,
     schemas |-> p.schemas, rules |-> p.rules, alerts |-> p.alerts, published |-> p.published,
     history |-> p.history, effort |-> p.effort, daily |-> p.daily]

\* Two summaries that are the same but for what only an operator sees.
TellTheSame(p, q) ==
    /\ p.team = q.team /\ p.start = q.start /\ p.end = q.end /\ p.phase = q.phase
    /\ p.readiness = q.readiness /\ p.rules = q.rules /\ p.alerts = q.alerts
    /\ p.effort = q.effort /\ p.daily = q.daily

LEMMA SameBut ==
    ASSUME NEW p, p = InputsOf(p), p.published = TRUE, NEW q, q = InputsOf(q), TellTheSame(p, q)
    PROVE  [p EXCEPT !.history = <<>>, !.schemas = <<>>]
               = [q EXCEPT !.history = <<>>, !.schemas = <<>>, !.published = TRUE]
<1> DEFINE D == {"team", "start", "end", "phase", "readiness", "schemas", "rules", "alerts",
                 "published", "history", "effort", "daily"}
           r == [p EXCEPT !.history = <<>>, !.schemas = <<>>]
           u == [q EXCEPT !.history = <<>>, !.schemas = <<>>, !.published = TRUE]
<1>1. DOMAIN p = D /\ DOMAIN q = D
    BY DEF InputsOf
<1>2. r = [x \in D |-> r[x]] /\ u = [x \in D |-> u[x]]
    BY <1>1
<1>3. /\ r["history"] = <<>> /\ r["schemas"] = <<>>
      /\ \A x \in D \ {"history", "schemas"} : r[x] = p[x]
    BY <1>1
<1>4. /\ u["history"] = <<>> /\ u["schemas"] = <<>> /\ u["published"] = TRUE
      /\ \A x \in D \ {"history", "schemas", "published"} : u[x] = q[x]
    BY <1>1
<1>5. \A x \in D \ {"history", "schemas", "published"} : p[x] = q[x]
    BY DEF TellTheSame
<1> HIDE DEF r, u
<1>6. \A x \in D : r[x] = u[x]
    BY <1>3, <1>4, <1>5
<1>7. r = u
    BY <1>2, <1>6
<1> QED
    BY <1>7 DEF r, u

LEMMA TheWeekIsShown ==
    ASSUME PageInvariant
    PROVE  ShowsTheWeek
<1> SUFFICES ASSUME page.status \in {"shown", "503"}, page.selected.review.run \notin page.left
             PROVE  ShowsTheWeek
    BY DEF ShowsTheWeek
<1>1. page # NoPage
    BY DEF NoPage
<1>2. PageShape /\ PageWeek
    BY <1>1 DEF PageInvariant, PageReads
<1>3. PICK run : run = page.selected.review.run
    OBVIOUS
<1>4. page.status = "shown" /\ run \notin page.left
    BY <1>2, <1>3 DEF PageShape
<1>5. run \in Runs
    <2>1. page.at > 1
        <3>1. Len(Statements(page.tab)) \in Nat /\ Len(Statements(page.tab)) > 0
            BY StatementsInOrder DEF StatementsAre
        <3> QED
            BY <1>2, <1>4, <3>1 DEF PageShape
    <2> QED
        BY <1>2, <1>3, <2>1 DEF PageWeek
<1>6. PICK facts : facts = AdminSummary(run)
    OBVIOUS
<1>7. /\ facts = InputsOf(facts)
      /\ facts.alerts = Facts[run].alerts
      /\ facts.team = RunTeam[run] /\ facts.start = RunStart[run] /\ facts.end = RunEnd[run]
      /\ facts.phase = Facts[run].phase /\ facts.readiness = Facts[run].readiness
      /\ facts.rules = AdminRuleTotals(Facts[run].counts, Facts[run].alerts)
      /\ facts.effort = EffortOf(Facts[run].snapshot) /\ facts.daily = DailyPoints(Facts[run].daily)
      /\ \A s \in SCHEMAS : facts.schemas[s] = AdminSchemaTotals(s, Facts[run].daily, Facts[run].alerts)
    <2>1. PICK published, history, schemas :
              /\ published = (Publication(run) = "published")
              /\ history = IF published THEN PublishedHistory(RunTeam[run], RunEnd[run]) ELSE <<>>
              /\ schemas = [s \in SCHEMAS |-> AdminSchemaTotals(s, Facts[run].daily, Facts[run].alerts)]
        OBVIOUS
    <2>2. facts = [team |-> RunTeam[run], start |-> RunStart[run], end |-> RunEnd[run],
                   phase |-> Facts[run].phase, readiness |-> Facts[run].readiness, schemas |-> schemas,
                   rules |-> AdminRuleTotals(Facts[run].counts, Facts[run].alerts),
                   alerts |-> Facts[run].alerts, published |-> published, history |-> history,
                   effort |-> EffortOf(Facts[run].snapshot), daily |-> DailyPoints(Facts[run].daily)]
        BY <1>6, <2>1 DEF AdminSummary
    <2> QED
        BY <2>1, <2>2 DEF InputsOf
<1>8. PICK listed : listed = ReaderList(Facts[run].alerts, page.filter)
    OBVIOUS
<1>9. IsFiniteSet(listed) /\ Len(ReaderOrder(listed)) = Cardinality(listed)
    <2>1. IsFiniteSet(Facts[run].alerts)
        BY <1>5, RunsAssumption DEF StoredRun
    <2> QED
        BY <1>8, <2>1, ListsAreFinite, ReadersOrder
<1>10. ASSUME page.tab = "alert"
       PROVE  page.got["detail"] = {a \in facts.alerts : Identity(a) = page.alert}
    <2>1. \E i \in DOMAIN Statements(page.tab) : Statements(page.tab)[i] = "detail"
        BY <1>10, StatementsInOrder DEF StatementsAre
    <2>2. Told("detail", page.got, run, page.filter, page.number, page.alert)
        BY <1>1, <1>3, <1>4, <2>1, AllIsTold
    <2> QED
        BY <1>7, <2>2 DEF Told
<1>11. ASSUME page.tab = "fix"
       PROVE  /\ page.got["rows"] = PageOf(ReaderOrder(listed),
                                           Clamped(page.number, Len(ReaderOrder(listed))))
              /\ page.got["count"] = Len(ReaderOrder(listed))
    <2>1. /\ \E i \in DOMAIN Statements(page.tab) : Statements(page.tab)[i] = "count"
          /\ \E i \in DOMAIN Statements(page.tab) : Statements(page.tab)[i] = "rows"
        BY <1>11, StatementsInOrder DEF StatementsAre
    <2>2. /\ Told("count", page.got, run, page.filter, page.number, page.alert)
          /\ Told("rows", page.got, run, page.filter, page.number, page.alert)
        BY <1>1, <1>3, <1>4, <2>1, AllIsTold
    <2> QED
        BY <1>8, <1>9, <2>2 DEF Told
<1>12. ASSUME page.tab \notin {"alert", "history"}
       PROVE  /\ [PageInputs EXCEPT !.history = <<>>, !.schemas = <<>>]
                     = [facts EXCEPT !.history = <<>>, !.schemas = <<>>, !.published = TRUE]
              /\ \A s \in SCHEMAS : PageInputs.schemas[s].events = facts.schemas[s].events
              /\ \E k \in DOMAIN page.got["weeks"] :
                     /\ page.got["weeks"][k].run = run
                     /\ k = Len(page.got["weeks"])
                     /\ page.got["week_rules"][k] = V1Rules(facts.alerts)
    <2>1. ASSUME NEW name \in {"review", "totals", "rules", "daily", "alerts", "weeks", "week_rules"}
          PROVE  /\ Heard(name, page.got, run)
                 /\ Told(name, page.got, run, page.filter, page.number, page.alert)
        <3>1. StatementsAre(Statements(page.tab), page.tab)
            BY StatementsInOrder
        <3>2. \E i \in DOMAIN Statements(page.tab) : Statements(page.tab)[i] = name
            BY <1>12, <3>1 DEF StatementsAre
        <3>3. name # "reviews"
            OBVIOUS
        <3> QED
            BY <1>1, <1>3, <1>4, <3>2, <3>3, AllIsTold
    <2>2. PICK b \in BOOLEAN : page.got["review"] = {ReviewRow(run, b)}
        <3>1. Heard("review", page.got, run)
            BY <2>1
        <3> QED
            BY <3>1 DEF Heard
    <2>3. (CHOOSE v \in page.got["review"] : TRUE) = ReviewRow(run, b)
        BY <2>2
    <2>4. page.got["rules"] = AdminRuleTotals(Facts[run].counts, Facts[run].alerts)
        <3>1. Told("rules", page.got, run, page.filter, page.number, page.alert)
            BY <2>1
        <3> QED
            BY <3>1 DEF Told
    <2>5. page.got["daily"] = DailyPoints(Facts[run].daily)
        <3>1. Told("daily", page.got, run, page.filter, page.number, page.alert)
            BY <2>1
        <3> QED
            BY <3>1 DEF Told
    <2>6. page.got["alerts"] = Facts[run].alerts
        <3>1. Told("alerts", page.got, run, page.filter, page.number, page.alert)
            BY <2>1
        <3> QED
            BY <3>1 DEF Told
    <2>7. \A s \in SCHEMAS : SchemaTotalsOf(page.got["totals"])[s].events
                                 = AdminSchemaTotals(s, Facts[run].daily, Facts[run].alerts).events
        <3>1. Told("totals", page.got, run, page.filter, page.number, page.alert)
            BY <2>1
        <3> QED
            BY <3>1 DEF Told
    <2>8. PICK weeks, rules : weeks = page.got["weeks"] /\ rules = page.got["week_rules"]
        OBVIOUS
    <2>9. /\ Len(weeks) \in Nat /\ DOMAIN weeks = 1 .. Len(weeks)
          /\ Len(weeks) > 0 /\ weeks[Len(weeks)].run = run
          /\ rules[Len(weeks)] = V1Rules(Facts[run].alerts)
        <3>1. /\ Heard("weeks", page.got, run)
              /\ Told("weeks", page.got, run, page.filter, page.number, page.alert)
              /\ Told("week_rules", page.got, run, page.filter, page.number, page.alert)
            BY <2>1
        <3> QED
            BY <2>8, <3>1 DEF Heard, Told
    <2>10. PICK totals, history : /\ totals = SchemaTotalsOf(page.got["totals"])
                                  /\ history = HistoryOf(page.got["weeks"], page.got["week_rules"])
        OBVIOUS
    <2>11. PageInputs =
              [team |-> RunTeam[run], start |-> RunStart[run], end |-> RunEnd[run],
               phase |-> Facts[run].phase, readiness |-> Facts[run].readiness, schemas |-> totals,
               rules |-> AdminRuleTotals(Facts[run].counts, Facts[run].alerts),
               alerts |-> Facts[run].alerts, published |-> TRUE, history |-> history,
               effort |-> EffortOf(Facts[run].snapshot), daily |-> DailyPoints(Facts[run].daily)]
        <3>1. PageInputs = PortalInputs(ReviewRow(run, b), page.got["totals"], page.got["rules"],
                                        page.got["daily"], page.got["alerts"], page.got["weeks"],
                                        page.got["week_rules"])
            BY <2>3 DEF PageInputs
        <3> QED
            BY <2>4, <2>5, <2>6, <2>10, <3>1 DEF PortalInputs, ReviewRow
    <2>12. [PageInputs EXCEPT !.history = <<>>, !.schemas = <<>>]
               = [facts EXCEPT !.history = <<>>, !.schemas = <<>>, !.published = TRUE]
        <3>1. PICK row : row = PageInputs
            OBVIOUS
        <3>2. row = InputsOf(row) /\ row.published = TRUE /\ TellTheSame(row, facts)
            BY <1>7, <2>11, <3>1 DEF InputsOf, TellTheSame
        <3>3. [row EXCEPT !.history = <<>>, !.schemas = <<>>]
                  = [facts EXCEPT !.history = <<>>, !.schemas = <<>>, !.published = TRUE]
            BY <1>7, <3>2, SameBut
        <3> QED
            BY <3>1, <3>3
    <2>13. \A s \in SCHEMAS : PageInputs.schemas[s].events = facts.schemas[s].events
        BY <1>7, <2>7, <2>10, <2>11
    <2> QED
        BY <1>7, <2>8, <2>9, <2>12, <2>13
<1> QED
    BY <1>3, <1>4, <1>6, <1>7, <1>8, <1>10, <1>11, <1>12 DEF ShowsTheWeek

\* A statement read while the week is gone says nothing of it.
LEMMA NothingOfTheGone ==
    ASSUME PageInvariant, page # NoPage, page.status = "reading", ReadNext, UNCHANGED ledger
    PROVE  ReadsOnlyPublished
<1>1. PageShape /\ PageIsRecord(page)
    BY DEF PageInvariant, PageReads, PageShape, PageIsRecord
<1>2. PICK stmts, stmt, answer, run :
          /\ stmts = Statements(page.tab) /\ stmt = stmts[page.at]
          /\ answer = Answer(stmt) /\ run = page.selected.review.run
    OBVIOUS
<1>3. stmt # "reviews" /\ AtStatement(stmt, run)
    BY <1>2 DEF ReadNext, AtStatement
<1>4. page.at \in Nat /\ page.at > 1 /\ stmt \in NAMES
    BY <1>2, <1>3, TheWeekIsKnown
<1>5. CASE (stmt = "detail" /\ answer = {}) \/ (stmt = "review" /\ answer = {})
    <2>1. \/ page' = [page EXCEPT !.status = "404"]
          \/ page' = [page EXCEPT !.status = "503"]
        BY <1>2, <1>5 DEF ReadNext, Finish
    <2>2. page'.at = page.at
        BY <1>1, <2>1 DEF PageIsRecord
    <2> QED
        BY <1>4, <2>2 DEF ReadsOnlyPublished
<1>6. CASE ~(stmt = "detail" /\ answer = {}) /\ ~(stmt = "review" /\ answer = {})
    <2>1. PICK status : status = IF page.at = Len(stmts) THEN "shown" ELSE page.status
        OBVIOUS
    <2>2. page' = [page EXCEPT !.got = WithAnswer(page.got, stmt, answer), !.at = page.at + 1,
                               !.status = status]
        BY <1>1, <1>2, <1>6, <2>1 DEF ReadNext, PageIsRecord
    <2>3. page'.got = WithAnswer(page.got, stmt, answer)
        BY <1>1, <2>2 DEF PageIsRecord
    <2>4. page'.got[stmt] = answer
        BY <2>3 DEF WithAnswer
    <2>5. CASE stmt = "count"
        <3>1. run \notin PublishedRuns => answer = 0
            BY <1>2, <1>3, <2>5, ListsAreTold
        <3> QED
            BY <1>2, <2>4, <2>5, <3>1 DEF ReadsOnlyPublished
    <2>6. CASE stmt = "rows"
        <3>1. run \notin PublishedRuns => answer = <<>>
            BY <1>2, <1>3, <2>6, ListsAreTold
        <3> QED
            BY <1>2, <2>4, <2>6, <3>1 DEF ReadsOnlyPublished
    <2>7. CASE stmt = "counts"
        <3>1. run \notin PublishedRuns => answer.all = 0
            BY <1>2, <1>3, <2>7, ListsAreTold
        <3> QED
            BY <1>2, <2>4, <2>7, <3>1 DEF ReadsOnlyPublished
    <2>8. CASE stmt = "weeks"
        <3>1. \A k \in DOMAIN answer : answer[k].run \in PublishedRuns
            BY <1>2, <1>3, <2>8, WeeksAreTold
        <3> QED
            BY <1>2, <2>4, <2>8, <3>1 DEF ReadsOnlyPublished
    <2>9. CASE stmt = "week_rules"
        <3>1. \A k \in DOMAIN answer :
                  page.got["weeks"][k].run \notin PublishedRuns => answer[k] = {}
            BY <1>2, <1>3, <2>9, WeekRulesAreTold
        <3> QED
            BY <1>2, <2>4, <2>9, <3>1 DEF ReadsOnlyPublished
    <2>10. CASE stmt \in {"detail", "review", "totals", "rules", "daily", "alerts"}
        <3>1. run \notin PublishedRuns => answer = {}
            BY <1>2, <1>3, <2>10, ListsAreTold, FiguresAreTold
        <3> QED
            BY <1>2, <2>4, <2>10, <3>1 DEF ReadsOnlyPublished
    <2> QED
        BY <1>3, <1>4, <2>5, <2>6, <2>7, <2>8, <2>9, <2>10 DEF NAMES
<1> QED
    BY <1>5, <1>6

LEMMA ReadingOnlyPublished ==
    ASSUME PageInvariant, [Next]_vars
    PROVE  ReadsOnlyPublished
<1> SUFFICES ASSUME page.status = "reading", page'.at > page.at PROVE ReadsOnlyPublished
    BY DEF ReadsOnlyPublished
<1>1. page # NoPage
    BY DEF NoPage
<1>2. PageShape /\ PageIsRecord(page)
    BY <1>1 DEF PageInvariant, PageReads, PageShape, PageIsRecord
<1>3. page.at \in Int
    <2>1. Len(Statements(page.tab)) \in Nat
        BY StatementsInOrder DEF StatementsAre
    <2> QED
        BY <1>2, <2>1 DEF PageShape
<1>4. CASE page' = page
    BY <1>3, <1>4
<1>5. CASE Read
    <2>1. UNCHANGED ledger
        BY <1>5 DEF Read
    <2>2. CASE ReadReviews
        BY <2>2 DEF ReadReviews, ReadsOnlyPublished
    <2>3. CASE ReadNext
        BY <1>1, <2>1, <2>3, NothingOfTheGone
    <2> QED
        BY <1>5, <2>2, <2>3 DEF Read
<1>6. CASE Move
    <2>1. PICK left : page' = [page EXCEPT !.left = left]
        <3> DEFINE left == page.left \union (PublishedRuns \ UNION {ledger'[t] : t \in Teams})
        <3>1. page' = [page EXCEPT !.left = left]
            BY <1>1, <1>2, <1>6 DEF Move, PageIsRecord
        <3> QED
            BY <3>1
    <2>2. page'.at = page.at
        BY <1>2, <2>1 DEF PageIsRecord
    <2> QED
        BY <1>3, <2>2
<1>7. ASSUME NEW request \in Requests, Open(request) PROVE FALSE
    BY <1>1, <1>7 DEF Open
<1>8. CASE Close
    BY <1>8 DEF Close
<1> QED
    BY <1>4, <1>5, <1>6, <1>7, <1>8 DEF Next, vars, Ask, Answered, Reading, Operating, deskVars

LEMMA PageInitially == Init => PageInvariant
BY LedgerInitially DEF Init, PageInvariant, PageReads

LEMMA PageKept ==
    ASSUME PageInvariant, [Next]_vars
    PROVE  PageInvariant'
<1>1. CASE UNCHANGED <<ledger, page>>
    BY <1>1 DEF PageInvariant, PageReads, PageShape, PageWeek, PageAnswers, LedgerIsSound, PublishedRuns
<1>2. CASE Read
    <2>1. page # NoPage /\ page.status = "reading" /\ UNCHANGED ledger
        BY <1>2 DEF Read, NoPage
    <2> QED
        BY <1>2, <2>1, ReviewsKeep, NextKeeps DEF Read
<1> QED
    BY <1>1, <1>2, OpenKeeps, CloseKeeps, MoveKeeps
       DEF Next, vars, Ask, Answered, Reading, Operating, deskVars

\* The page a reader is shown, and every statement it is read with, over every
\* set of teams, weeks and requests and every publication and withdrawal between
\* two statements: nothing of a week that is not published, and of one that
\* stayed published what the operators see (src/portal/app.py, queries.py,
\* summary_queries.py, migrations 005 to 008).
THEOREM PagesTellOfPublishedWeeks == Spec => PagesAreOfPublishedWeeks
<1>1. PageInvariant => (desk.kind = "weeks" => ShowsTheWeek)
    BY TheWeekIsShown
<1>2. PageInvariant /\ [Next]_vars => [desk.kind = "weeks" => ReadsOnlyPublished]_vars
    BY ReadingOnlyPublished
<1> QED
    BY <1>1, <1>2, PageInitially, PageKept, PTL DEF Spec, PagesAreOfPublishedWeeks

-------------------------------------------------------------------------------
(* Lists and their pages.                                                  *)

LEMMA WholePages ==
    ASSUME NEW total \in Nat, NEW last, last = LastPage(total)
    PROVE  /\ last \in Nat /\ last >= 1
           /\ total <= last * PAGE_SIZE
           /\ (last - 1) * PAGE_SIZE <= total
<1>1. PAGE_SIZE \in Nat \ {0}
    BY PageSizeAssumption
<1>2. PICK b : b = PAGE_SIZE /\ b \in Nat \ {0}
    BY <1>1
<1>3. PICK m : m = total + b - 1 /\ m \in Nat
    BY <1>2
<1>4. PICK q, r : q = m \div b /\ r = m % b
    OBVIOUS
<1>5. q \in Nat /\ r \in 0 .. b - 1 /\ m = b * q + r
    BY <1>2, <1>3, <1>4, DivisionIs DEF IsDivision
<1>6. last = IF 1 >= q THEN 1 ELSE q
    BY <1>2, <1>3, <1>4 DEF LastPage, CeilDiv, Later
<1>7. PICK p : p = b * q /\ p \in Nat
    BY <1>2, <1>5
<1>8. total = p + r - b + 1
    BY <1>2, <1>3, <1>5, <1>7
<1>9. CASE q = 0
    <2>1. p = 0 /\ last = 1
        BY <1>2, <1>6, <1>7, <1>9
    <2> QED
        BY <1>2, <1>5, <1>8, <2>1
<1>10. CASE q # 0
    <2>1. last = q /\ q >= 1
        BY <1>5, <1>6, <1>10
    <2>2. last * b = p
        BY <1>2, <1>5, <1>7, <2>1
    <2>3. (last - 1) * b = p - b
        BY <1>2, <1>5, <1>7, <2>1
    <2> QED
        BY <1>2, <1>5, <1>7, <1>8, <2>1, <2>2, <2>3
<1> QED
    BY <1>9, <1>10

LEMMA TimesGrows ==
    ASSUME NEW a \in Nat, NEW b \in Nat, a <= b, NEW c \in Nat
    PROVE  a * c <= b * c
<1>1. PICK d \in Nat : b = a + d
    <2>1. b - a \in Nat /\ b = a + (b - a)
        OBVIOUS
    <2> QED
        BY <2>1
<1>2. b * c = a * c + d * c
    BY <1>1
<1>3. d * c \in Nat /\ a * c \in Nat
    BY <1>1
<1> QED
    BY <1>2, <1>3

\* The pages of a list, one after the other, are the list.
LEMMA PagesAreWhole ==
    ASSUME NEW S, NEW order \in Seq(S)
    PROVE  AllPages(order) = order
<1>1. PICK total : total = Len(order) /\ total \in Nat
    OBVIOUS
<1>2. PICK last : last = LastPage(total)
    OBVIOUS
<1>3. last \in Nat /\ last >= 1 /\ total <= last * PAGE_SIZE /\ (last - 1) * PAGE_SIZE <= total
    BY <1>1, <1>2, WholePages
<1>4. PICK b : b = PAGE_SIZE /\ b \in Nat \ {0}
    BY PageSizeAssumption
<1> DEFINE Next1(g, n) == IF n = 0 THEN <<>> ELSE g[n - 1] \o PageOf(order, Clamped(n, Len(order)))
           Upto(n) == SubSeq(order, 1, Earlier(n * b, total))
           h == [n \in 0 .. last |-> Upto(n)]
           k == CHOOSE g : g = [n \in 0 .. LastPage(Len(order)) |->
                    IF n = 0 THEN <<>> ELSE g[n - 1] \o PageOf(order, Clamped(n, Len(order)))]
<1>5. AllPages(order) = k[last]
    BY <1>1, <1>2 DEF AllPages
<1>6. ASSUME NEW n \in 1 .. last
      PROVE  Upto(n) = Upto(n - 1) \o PageOf(order, Clamped(n, Len(order)))
    <2>1. Clamped(n, Len(order)) = n
        BY <1>1, <1>2, <1>3 DEF Clamped, Later, Earlier
    <2>2. PICK m : m = (n - 1) * b /\ m \in Nat
        BY <1>4
    <2>3. m <= total
        <3>1. (n - 1) * b <= (last - 1) * b
            BY <1>3, <1>4, TimesGrows
        <3> QED
            BY <1>3, <1>4, <2>2, <3>1, <1>1
    <2>4. n * b = m + b
        BY <1>4, <2>2
    <2>5. PICK e : e = Earlier(n * b, total)
        OBVIOUS
    <2>6. e \in m .. total
        BY <1>1, <1>4, <2>2, <2>3, <2>4, <2>5 DEF Earlier
    <2>7. Upto(n - 1) = SubSeq(order, 1, m)
        BY <1>1, <2>2, <2>3 DEF Earlier
    <2>8. PageOf(order, n) = SubSeq(order, m + 1, e)
        BY <1>1, <1>4, <2>2, <2>5 DEF PageOf
    <2>9. SubSeq(order, 1, m) \o SubSeq(order, m + 1, e) = SubSeq(order, 1, e)
        <3>1. 1 \in 1 .. Len(order) + 1 /\ m \in 1 - 1 .. Len(order) /\ e \in m .. Len(order)
            BY <1>1, <2>2, <2>3, <2>6
        <3> QED
            BY <3>1, ConcatAdjacentSubSeq
    <2> QED
        BY <2>1, <2>5, <2>7, <2>8, <2>9
<1>7. Upto(0) = <<>>
    <2>1. Earlier(0 * b, total) = 0
        BY <1>1, <1>4 DEF Earlier
    <2> QED
        BY <2>1, SubSeqEmpty
<1>8. Upto(last) = order
    <2>1. Earlier(last * b, total) = total
        BY <1>1, <1>3, <1>4 DEF Earlier
    <2> QED
        BY <1>1, <2>1, SubSeqFull
<1> HIDE DEF Upto
<1>9. h = [n \in 0 .. last |-> Next1(h, n)]
    <2>1. ASSUME NEW n \in 0 .. last PROVE h[n] = Next1(h, n)
        <3>1. CASE n = 0
            BY <1>7, <3>1
        <3>2. CASE n # 0
            <4>1. n \in 1 .. last /\ n - 1 \in 0 .. last
                BY <1>3, <3>2
            <4> QED
                BY <1>6, <3>2, <4>1
        <3> QED
            BY <3>1, <3>2
    <2> HIDE DEF Next1
    <2> QED
        BY <2>1
<1>10. k = [n \in 0 .. last |-> Next1(k, n)]
    BY <1>1, <1>2, <1>9
<1> HIDE DEF k
<1> DEFINE Off == {n \in 0 .. last : k[n] # h[n]}
<1>11. Off = {}
    <2> SUFFICES ASSUME Off # {} PROVE FALSE
        OBVIOUS
    <2>1. Off \in SUBSET Nat
        BY <1>3
    <2>2. PICK n \in Off : \A m \in Off : n <= m
        BY <2>1, LeastOf
    <2>3. n \in 0 .. last /\ k[n] # h[n]
        OBVIOUS
    <2>4. k[n] = Next1(k, n) /\ h[n] = Next1(h, n)
        BY <1>9, <1>10, <2>3
    <2>5. n # 0
        BY <2>3, <2>4
    <2>6. n - 1 \in 0 .. last /\ n - 1 \notin Off
        BY <1>3, <2>2, <2>3, <2>5
    <2>7. k[n - 1] = h[n - 1]
        BY <2>6
    <2> QED
        BY <2>3, <2>4, <2>5, <2>7
<1>12. k[last] = h[last] /\ h[last] = Upto(last)
    <2>1. last \in 0 .. last
        BY <1>3
    <2>2. last \notin Off
        BY <1>11
    <2>3. k[last] = h[last]
        BY <2>1, <2>2
    <2> QED
        BY <2>1, <2>3
<1> QED
    BY <1>5, <1>8, <1>12

-------------------------------------------------------------------------------
(* Orders by a list of numbers.                                            *)

IsKey(x, n) == Len(x) = n /\ \A i \in 1 .. n : x[i] \in Int

LEMMA KeysAreOrdered ==
    ASSUME NEW n \in Nat, NEW x, IsKey(x, n), NEW y, IsKey(y, n)
    PROVE  /\ ~Smaller(x, x)
           /\ (\A i \in 1 .. n : x[i] = y[i]) \/ Smaller(x, y) \/ Smaller(y, x)
<1>1. ~Smaller(x, x)
    BY DEF Smaller, IsKey
<1>2. SUFFICES ASSUME ~\A i \in 1 .. n : x[i] = y[i] PROVE Smaller(x, y) \/ Smaller(y, x)
    BY <1>1
<1> DEFINE D == {i \in 1 .. n : x[i] # y[i]}
<1>3. D \in SUBSET Nat /\ D # {}
    BY <1>2
<1>4. PICK i \in D : \A j \in D : i <= j
    BY <1>3, LeastOf
<1>5. i \in 1 .. n /\ x[i] # y[i] /\ x[i] \in Int /\ y[i] \in Int
    BY DEF IsKey
<1>6. \A j \in 1 .. i - 1 : x[j] = y[j]
    BY <1>4, <1>5
<1>7. x[i] < y[i] \/ y[i] < x[i]
    BY <1>5
<1> QED
    BY <1>5, <1>6, <1>7 DEF Smaller, IsKey

LEMMA SmallerThanSmaller ==
    ASSUME NEW n \in Nat, NEW x, IsKey(x, n), NEW y, IsKey(y, n), NEW z, IsKey(z, n),
           Smaller(x, y), Smaller(y, z)
    PROVE  Smaller(x, z)
<1>1. PICK i \in 1 .. n : x[i] < y[i] /\ \A j \in 1 .. i - 1 : x[j] = y[j]
    BY DEF Smaller, IsKey
<1>2. PICK k \in 1 .. n : y[k] < z[k] /\ \A j \in 1 .. k - 1 : y[j] = z[j]
    BY DEF Smaller, IsKey
<1>3. \A j \in 1 .. n : x[j] \in Int /\ y[j] \in Int /\ z[j] \in Int
    BY DEF IsKey
<1>4. CASE i <= k
    <2>1. x[i] < z[i]
        <3>1. CASE i = k
            BY <1>1, <1>2, <1>3, <3>1
        <3>2. CASE i < k
            BY <1>1, <1>2, <1>3, <3>2
        <3> QED
            BY <1>4, <3>1, <3>2
    <2>2. \A j \in 1 .. i - 1 : x[j] = z[j]
        BY <1>1, <1>2, <1>4
    <2> QED
        BY <2>1, <2>2 DEF Smaller, IsKey
<1>5. CASE k < i
    <2>1. x[k] < z[k]
        BY <1>1, <1>2, <1>3, <1>5
    <2>2. \A j \in 1 .. k - 1 : x[j] = z[j]
        BY <1>1, <1>2, <1>5
    <2> QED
        BY <2>1, <2>2 DEF Smaller, IsKey
<1> QED
    BY <1>4, <1>5

ByKey(key, S) == {e \in S \X S : Smaller(key[e[1]], key[e[2]])}

LEMMA KeysMakeAnOrder ==
    ASSUME NEW S, NEW n \in Nat, NEW key, \A x \in S : IsKey(key[x], n),
           \A x, y \in S : (\A i \in 1 .. n : key[x][i] = key[y][i]) => x = y
    PROVE  IsOrder(ByKey(key, S), S)
<1>1. \A x, y \in S : <<x, y>> \in ByKey(key, S) <=> Smaller(key[x], key[y])
    BY DEF ByKey
<1>2. \A x \in S : ~Smaller(key[x], key[x])
    BY KeysAreOrdered
<1>3. \A x, y \in S : x = y \/ Smaller(key[x], key[y]) \/ Smaller(key[y], key[x])
    <2> SUFFICES ASSUME NEW x \in S, NEW y \in S, x # y
                 PROVE  Smaller(key[x], key[y]) \/ Smaller(key[y], key[x])
        OBVIOUS
    <2>1. (\A i \in 1 .. n : key[x][i] = key[y][i]) \/ Smaller(key[x], key[y]) \/ Smaller(key[y], key[x])
        BY KeysAreOrdered
    <2> QED
        BY <2>1
<1>4. \A x, y, z \in S : Smaller(key[x], key[y]) /\ Smaller(key[y], key[z]) => Smaller(key[x], key[z])
    BY SmallerThanSmaller
<1> QED
    BY <1>1, <1>2, <1>3, <1>4 DEF IsOrder

LEMMA ReadersList ==
    ASSUME NEW S, IsFiniteSet(S)
    PROVE  AllPages(ReaderOrder(S)) = ReaderOrder(S)
<1>1. PICK n : n = Cardinality(S) /\ n \in Nat
    BY FS_CardinalityType
<1>2. PICK o : o = ReaderOrder(S)
    OBVIOUS
<1> DEFINE Before(a, b) == Smaller(<<AttentionRank(a), -a.row_count>> \o Identity(a),
                                   <<AttentionRank(b), -b.row_count>> \o Identity(b))
           At(k) == CHOOSE x \in S : Cardinality({y \in S : Before(y, x)}) = k - 1
<1>3. ReaderOrder(S) = [k \in 1 .. Cardinality(S) |-> At(k)]
    BY DEF ReaderOrder, SortedBy
<1> HIDE DEF At
<1>4. o \in [1 .. n -> {o[k] : k \in 1 .. n}]
    BY <1>1, <1>2, <1>3
<1>5. o \in Seq({o[k] : k \in 1 .. n})
    BY <1>1, <1>4, LenIs
<1>6. AllPages(o) = o
    BY <1>5, PagesAreWhole
<1> QED
    BY <1>2, <1>6

\* What an alert is sorted by on the operator's list.
OperatorKey(x, sort) ==
    IF sort = "application" THEN <<Identity(x)[2], Identity(x)[1], Identity(x)[3]>>
    ELSE <<-x.row_count, Identity(x)[2], Identity(x)[3], Identity(x)[1]>>

SomeAlerts(S) ==
    /\ IsFiniteSet(S)
    /\ \A a \in S : a.schema \in SCHEMAS /\ {a.application, a.key_field, a.row_count} \subseteq Int
    /\ \A a, b \in S :
           /\ a.schema = b.schema /\ a.application = b.application /\ a.key_field = b.key_field
           => a = b

LEMMA OperatorKeysOrder ==
    ASSUME NEW S, SomeAlerts(S), NEW sort, NEW key, \A x \in S : key[x] = OperatorKey(x, sort)
    PROVE  IsOrder(ByKey(key, S), S)
<1>1. \A x \in S : x.application \in Int /\ x.key_field \in Int /\ x.row_count \in Int
                   /\ x.schema \in SCHEMAS
    BY DEF SomeAlerts
<1>2. \A x \in S : Identity(x)[1] = (IF x.schema = "v1" THEN 1 ELSE 2)
                   /\ Identity(x)[2] = x.application /\ Identity(x)[3] = x.key_field
    BY DEF Identity
<1>3. ASSUME NEW x \in S, NEW y \in S, Identity(x)[1] = Identity(y)[1],
             Identity(x)[2] = Identity(y)[2], Identity(x)[3] = Identity(y)[3]
      PROVE  x = y
    <2>1. x.application = y.application /\ x.key_field = y.key_field
        BY <1>2, <1>3
    <2>2. x.schema = y.schema
        BY <1>1, <1>2, <1>3 DEF SCHEMAS
    <2> QED
        BY <2>1, <2>2 DEF SomeAlerts
<1>4. CASE sort = "application"
    <2>1. \A x \in S : Len(key[x]) = 3 /\ key[x][1] = Identity(x)[2]
                       /\ key[x][2] = Identity(x)[1] /\ key[x][3] = Identity(x)[3]
        BY <1>4 DEF OperatorKey
    <2>2. \A x \in S : IsKey(key[x], 3)
        BY <1>1, <1>2, <2>1 DEF IsKey
    <2>3. \A x, y \in S : (\A i \in 1 .. 3 : key[x][i] = key[y][i]) => x = y
        <3> SUFFICES ASSUME NEW x \in S, NEW y \in S, \A i \in 1 .. 3 : key[x][i] = key[y][i]
                     PROVE  x = y
            OBVIOUS
        <3>1. key[x][1] = key[y][1] /\ key[x][2] = key[y][2] /\ key[x][3] = key[y][3]
            OBVIOUS
        <3> QED
            BY <1>3, <2>1, <3>1
    <2>4. PICK n \in Nat : n = 3
        OBVIOUS
    <2>5. \A x \in S : IsKey(key[x], n)
        BY <2>2, <2>4
    <2>6. \A x, y \in S : (\A i \in 1 .. n : key[x][i] = key[y][i]) => x = y
        BY <2>3, <2>4
    <2> QED
        BY <2>5, <2>6, KeysMakeAnOrder
<1>5. CASE sort # "application"
    <2>1. \A x \in S : Len(key[x]) = 4 /\ key[x][1] = -x.row_count /\ key[x][2] = Identity(x)[2]
                       /\ key[x][3] = Identity(x)[3] /\ key[x][4] = Identity(x)[1]
        BY <1>5 DEF OperatorKey
    <2>2. \A x \in S : IsKey(key[x], 4)
        BY <1>1, <1>2, <2>1 DEF IsKey
    <2>3. \A x, y \in S : (\A i \in 1 .. 4 : key[x][i] = key[y][i]) => x = y
        <3> SUFFICES ASSUME NEW x \in S, NEW y \in S, \A i \in 1 .. 4 : key[x][i] = key[y][i]
                     PROVE  x = y
            OBVIOUS
        <3>1. key[x][2] = key[y][2] /\ key[x][3] = key[y][3] /\ key[x][4] = key[y][4]
            OBVIOUS
        <3> QED
            BY <1>3, <2>1, <3>1
    <2>4. PICK n \in Nat : n = 4
        OBVIOUS
    <2>5. \A x \in S : IsKey(key[x], n)
        BY <2>2, <2>4
    <2>6. \A x, y \in S : (\A i \in 1 .. n : key[x][i] = key[y][i]) => x = y
        BY <2>3, <2>4
    <2> QED
        BY <2>5, <2>6, KeysMakeAnOrder
<1> QED
    BY <1>4, <1>5

LEMMA OperatorsList ==
    ASSUME NEW S, SomeAlerts(S), NEW sort, NEW shown, shown = AllPages(OperatorOrder(S, sort))
    PROVE  {shown[i] : i \in DOMAIN shown} = S /\ Len(shown) = Cardinality(S)
<1>1. PICK o : o = OperatorOrder(S, sort)
    OBVIOUS
<1>2. PICK key : key = [x \in S |-> OperatorKey(x, sort)]
    OBVIOUS
<1>3. PICK R : R = ByKey(key, S)
    OBVIOUS
<1>4. IsOrder(R, S) /\ IsFiniteSet(S)
    <2>1. \A x \in S : key[x] = OperatorKey(x, sort)
        BY <1>2
    <2>2. IsOrder(ByKey(key, S), S)
        BY <2>1, OperatorKeysOrder
    <2> QED
        BY <1>3, <2>2 DEF SomeAlerts
<1> DEFINE Before(y, x) == Smaller(OperatorKey(y, sort), OperatorKey(x, sort))
           At(k) == CHOOSE x \in S : Cardinality({y \in S : Before(y, x)}) = k - 1
<1>5. o = [k \in 1 .. Cardinality(S) |-> At(k)]
    BY <1>1 DEF OperatorOrder, SortedBy, OperatorKey
<1>6. \A x \in S : Cardinality({y \in S : Before(y, x)}) = Rank(R, S, x)
    <2> SUFFICES ASSUME NEW x \in S PROVE Cardinality({y \in S : Before(y, x)}) = Rank(R, S, x)
        OBVIOUS
    <2>1. \A y \in S : <<y, x>> \in R <=> Before(y, x)
        BY <1>2, <1>3 DEF ByKey
    <2> HIDE DEF Before
    <2>2. {y \in S : Before(y, x)} = {y \in S : <<y, x>> \in R}
        BY <2>1
    <2> QED
        BY <2>2 DEF Rank
<1>7. IsArranged(o, R, S)
    <2>1. DOMAIN o = 1 .. Cardinality(S)
        BY <1>5
    <2>2. ASSUME NEW k \in DOMAIN o, \E x \in S : Rank(R, S, x) = k - 1
          PROVE  o[k] \in S /\ Rank(R, S, o[k]) = k - 1
        <3>1. o[k] = At(k)
            BY <1>5, <2>1
        <3> HIDE DEF Before
        <3>2. \E x \in S : Cardinality({y \in S : Before(y, x)}) = k - 1
            BY <1>6, <2>2
        <3>3. At(k) \in S /\ Cardinality({y \in S : Before(y, At(k))}) = k - 1
            BY <3>2
        <3> QED
            BY <1>6, <3>1, <3>3
    <2> QED
        BY <2>1, <2>2 DEF IsArranged
<1> HIDE DEF At
<1>8. o = [k \in DOMAIN o |-> o[k]]
    BY <1>5
<1>9. PICK n : n = Cardinality(S)
    OBVIOUS
<1>10. Lists(o, n, S)
    BY <1>4, <1>7, <1>8, <1>9, ArrangedLists
<1>11. o \in Seq(S) /\ Len(o) = n /\ DOMAIN o = 1 .. n
    BY <1>10 DEF Lists
<1>12. shown = o
    BY <1>1, <1>11, PagesAreWhole
<1>13. {o[i] : i \in DOMAIN o} = S
    BY <1>10, <1>11 DEF Lists
<1> QED
    BY <1>9, <1>11, <1>12, <1>13

-------------------------------------------------------------------------------
(* The number of alerts that need attention.                               *)

LEMMA RanksOfAttention == \A a : AttentionRank(a) < 4 <=> NeedsAttention(a)
<1> SUFFICES ASSUME NEW a PROVE AttentionRank(a) < 4 <=> NeedsAttention(a)
    OBVIOUS
<1>1. CASE a.state = "rule_flagged"
    BY <1>1 DEF AttentionRank, NeedsAttention
<1>2. CASE a.state = "llm_flagged"
    BY <1>2 DEF AttentionRank, NeedsAttention
<1>3. CASE a.state = "needs_review"
    BY <1>3 DEF AttentionRank, NeedsAttention
<1>4. CASE a.state \notin {"rule_flagged", "llm_flagged", "needs_review"}
    <2>1. CASE a.readiness # {}
        BY <1>4, <2>1 DEF AttentionRank, NeedsAttention
    <2>2. CASE a.readiness = {}
        BY <1>4, <2>2 DEF AttentionRank, NeedsAttention
    <2> QED
        BY <2>1, <2>2
<1> QED
    BY <1>1, <1>2, <1>3, <1>4

LEMMA AttentionAddsUp ==
    ASSUME NEW r \in Runs, r \in PublishedRuns
    PROVE  Cardinality(NeedingAttention(Facts[r].alerts)) = Total("needs_attention", PortalSchemaTotals(r))
<1>1. PICK alerts : alerts = Facts[r].alerts
    OBVIOUS
<1>2. IsFiniteSet(alerts) /\ \A a \in alerts : a.schema \in SCHEMAS
    BY <1>1, RunsAssumption DEF StoredRun
<1> DEFINE Of(s) == {a \in AlertsOf(alerts, s) : NeedsAttention(a)}
<1>3. PICK x, y, z : x = Of("v1") /\ y = Of("v2") /\ z = NeedingAttention(alerts)
    OBVIOUS
<1>4. z = x \union y /\ x \cap y = {} /\ x \subseteq alerts /\ y \subseteq alerts
    BY <1>2, <1>3, RanksOfAttention DEF NeedingAttention, AlertsOf, SCHEMAS
<1>5. /\ IsFiniteSet(x) /\ IsFiniteSet(y)
      /\ Cardinality(x) \in Nat /\ Cardinality(y) \in Nat
    BY <1>2, <1>4, FS_Subset, FS_CardinalityType
<1>6. Cardinality(z) = Cardinality(x) + Cardinality(y)
    <2>1. Cardinality(x \union y) = Cardinality(x) + Cardinality(y) - Cardinality(x \cap y)
        BY <1>5, FS_Union
    <2>2. Cardinality(x \cap y) = 0
        BY <1>4, FS_EmptySet
    <2> QED
        BY <1>4, <1>5, <2>1, <2>2
<1>7. PICK u, v : u = TotalsRow(r, "v1") /\ v = TotalsRow(r, "v2")
    OBVIOUS
<1>8. /\ u.schema = "v1" /\ v.schema = "v2"
      /\ u.needs_attention = Cardinality(x) /\ v.needs_attention = Cardinality(y)
    BY <1>1, <1>3, <1>7 DEF TotalsRow
<1>9. u # v
    BY <1>8
<1>10. PICK rows : rows = {u, v}
    OBVIOUS
<1>11. PortalSchemaTotals(r) = rows
    BY <1>7, <1>10, TotalsRows DEF SCHEMAS
<1>12. IsFiniteSet(rows)
    <2>1. IsFiniteSet({u}) /\ rows = {u} \union {v}
        BY <1>10, FS_Singleton
    <2> QED
        BY <2>1, FS_AddElement
<1>13. PICK k : IsSum(k, [d \in rows |-> d["needs_attention"]], rows) /\ Total("needs_attention", rows) = k[rows]
    BY <1>12, TotalIs
<1>14. PICK f : f = [d \in rows |-> d["needs_attention"]]
    OBVIOUS
<1>15. f[u] = Cardinality(x) /\ f[v] = Cardinality(y) /\ (\A d \in rows : f[d] \in Nat) /\ IsSum(k, f, rows)
    BY <1>5, <1>8, <1>10, <1>13, <1>14
<1>16. rows \in SUBSET rows /\ u \in rows /\ rows \ {u} = {v} /\ {v} \in SUBSET rows /\ {} \in SUBSET rows
    BY <1>9, <1>10
<1>17. k[rows] = f[u] + k[rows \ {u}]
    BY <1>12, <1>15, <1>16, SumWithout
<1>18. k[{v}] = f[v] + k[{v} \ {v}]
    BY <1>12, <1>15, <1>16, SumWithout
<1>19. k[{v} \ {v}] = 0
    BY <1>15, <1>16 DEF IsSum, Summed
<1>20. k[{v}] = Cardinality(y)
    BY <1>5, <1>15, <1>18, <1>19
<1>21. k[rows] = Cardinality(x) + Cardinality(y)
    BY <1>15, <1>16, <1>17, <1>20
<1> QED
    BY <1>1, <1>3, <1>6, <1>11, <1>13, <1>21

LEMMA ListsAreTheSame ==
    ASSUME LedgerIsSound
    PROVE  SameLists
<1> SUFFICES ASSUME NEW t \in Teams, NEW r \in ledger[t], NEW f \in Filters
             PROVE  /\ AllPages(ReaderOrder(ReaderList(PortalAlerts(r), f)))
                           = ReaderOrder(ReaderList(PortalAlerts(r), f))
                    /\ \A sort \in {"events", "application"} :
                           LET shown == AllPages(OperatorOrder(Matching(Facts[r].alerts, f), sort))
                           IN  /\ {shown[i] : i \in DOMAIN shown} = Matching(PortalAlerts(r), f)
                               /\ Len(shown) = Cardinality(Matching(PortalAlerts(r), f))
                    /\ Cardinality(ReaderList(PortalAlerts(r), f))
                           = IF f.attention THEN WorklistCounts(PortalAlerts(r), f).attention
                             ELSE WorklistCounts(PortalAlerts(r), f).all
                    /\ (f.schema = "all" /\ f.state = "all" /\ f.rule = "") =>
                           WorklistCounts(PortalAlerts(r), f).attention
                               = MapThenSumSet(LAMBDA s : s.needs_attention, PortalSchemaTotals(r))
    BY DEF SameLists
<1>1. r \in Runs /\ r \in PublishedRuns
    BY DEF LedgerIsSound, PublishedRuns
<1>2. PICK alerts : alerts = Facts[r].alerts
    OBVIOUS
<1>3. PortalAlerts(r) = alerts
    BY <1>1, <1>2 DEF PortalAlerts
<1>4. SomeAlerts(alerts)
    BY <1>1, <1>2, RunsAssumption DEF StoredRun, SomeAlerts
<1>5. PICK found : found = Matching(alerts, f)
    OBVIOUS
<1>6. found \subseteq alerts
    BY <1>5 DEF Matching
<1>7. SomeAlerts(found)
    <2>1. IsFiniteSet(found)
        BY <1>4, <1>6, FS_Subset DEF SomeAlerts
    <2> QED
        BY <1>4, <1>6, <2>1 DEF SomeAlerts
<1>8. IsFiniteSet(ReaderList(alerts, f))
    BY <1>4, ListsAreFinite DEF SomeAlerts
<1>9. AllPages(ReaderOrder(ReaderList(PortalAlerts(r), f))) = ReaderOrder(ReaderList(PortalAlerts(r), f))
    BY <1>3, <1>8, ReadersList
<1>10. ASSUME NEW sort \in {"events", "application"}, NEW shown,
              shown = AllPages(OperatorOrder(found, sort))
       PROVE  {shown[i] : i \in DOMAIN shown} = found /\ Len(shown) = Cardinality(found)
    BY <1>7, <1>10, OperatorsList
<1>11. PICK counts : counts = WorklistCounts(PortalAlerts(r), f)
    OBVIOUS
<1>12. counts.attention = Cardinality(NeedingAttention(found)) /\ counts.all = Cardinality(found)
    BY <1>3, <1>5, <1>11 DEF WorklistCounts
<1>13. Cardinality(ReaderList(PortalAlerts(r), f)) = IF f.attention THEN counts.attention ELSE counts.all
    BY <1>3, <1>5, <1>12 DEF ReaderList
<1>14. ASSUME f.schema = "all" /\ f.state = "all" /\ f.rule = ""
       PROVE  counts.attention = MapThenSumSet(LAMBDA s : s.needs_attention, PortalSchemaTotals(r))
    <2>1. found = alerts
        BY <1>5, <1>14 DEF Matching, SCHEMAS, STATES
    <2>2. Total("needs_attention", PortalSchemaTotals(r))
              = MapThenSumSet(LAMBDA s : s.needs_attention, PortalSchemaTotals(r))
        BY DEF Total
    <2>3. counts.attention = Total("needs_attention", PortalSchemaTotals(r))
        BY <1>1, <1>2, <1>12, <2>1, AttentionAddsUp
    <2> QED
        BY <2>2, <2>3
<1> QED
    BY <1>2, <1>3, <1>5, <1>9, <1>10, <1>11, <1>13, <1>14

-------------------------------------------------------------------------------
(* The weeks before: of an operator and of a reader.                       *)

\* Every element of S once, each before the next.
Ascends(seq, n, R, S) ==
    /\ n \in Nat
    /\ \A k \in 1 .. n : seq[k] \in S
    /\ \A x \in S : \E k \in 1 .. n : seq[k] = x
    /\ \A j, k \in 1 .. n : j < k => <<seq[j], seq[k]>> \in R

\* There is one order of a set.
LEMMA OnlyOrder ==
    ASSUME NEW S, NEW R, IsOrder(R, S), NEW n, NEW seq, Ascends(seq, n, R, S),
           NEW pos, IsArranged(pos, R, S)
    PROVE  /\ IsFiniteSet(S) /\ Cardinality(S) = n
           /\ DOMAIN pos = 1 .. n /\ \A k \in 1 .. n : pos[k] = seq[k]
<1>1. n \in Nat
    BY DEF Ascends
<1>2. \A j, k \in 1 .. n : seq[j] = seq[k] => j = k
    <2> SUFFICES ASSUME NEW j \in 1 .. n, NEW k \in 1 .. n, seq[j] = seq[k], j < k PROVE FALSE
        BY <1>1
    <2>1. <<seq[j], seq[k]>> \in R /\ seq[j] \in S
        BY DEF Ascends
    <2> QED
        BY <2>1 DEF IsOrder
<1>3. S = {seq[k] : k \in 1 .. n}
    BY DEF Ascends
<1>4. IsFiniteSet(S)
    <2>1. IsFiniteSet(1 .. n)
        BY <1>1, IntervalCount
    <2>2. IsFiniteSet({seq[k] : k \in 1 .. n})
        BY <2>1, ImageIsFinite
    <2> QED
        BY <1>3, <2>2
<1>5. Cardinality(S) = n
    BY <1>1, <1>2, <1>3, CountOf
<1>6. ASSUME NEW k \in 1 .. n PROVE Rank(R, S, seq[k]) = k - 1
    <2>1. PICK m : m = k - 1 /\ m \in Nat /\ 1 .. m \subseteq 1 .. n
        BY <1>1
    <2>2. \A j \in 1 .. n : <<seq[j], seq[k]>> \in R <=> j \in 1 .. m
        <3> SUFFICES ASSUME NEW j \in 1 .. n PROVE <<seq[j], seq[k]>> \in R <=> j < k
            BY <1>1, <2>1
        <3>1. j < k => <<seq[j], seq[k]>> \in R
            BY DEF Ascends
        <3>2. k < j => <<seq[k], seq[j]>> \in R
            BY DEF Ascends
        <3>3. seq[j] \in S /\ seq[k] \in S
            BY DEF Ascends
        <3>4. ~(<<seq[j], seq[k]>> \in R /\ <<seq[k], seq[j]>> \in R) /\ <<seq[k], seq[k]>> \notin R
            BY <3>3 DEF IsOrder
        <3>5. j < k \/ j = k \/ k < j
            BY <1>1
        <3> QED
            BY <1>1, <3>1, <3>2, <3>4, <3>5
    <2>3. {y \in S : <<y, seq[k]>> \in R} = {seq[j] : j \in 1 .. m}
        BY <1>3, <2>1, <2>2
    <2>4. Cardinality({seq[j] : j \in 1 .. m}) = m
        <3>1. m \in Nat /\ \A i, j \in 1 .. m : seq[i] = seq[j] => i = j
            BY <1>2, <2>1
        <3> QED
            BY <3>1, CountOf
    <2> QED
        BY <2>1, <2>3, <2>4 DEF Rank
<1>7. /\ DOMAIN pos = 1 .. n
      /\ \A k \in 1 .. n : pos[k] \in S /\ Rank(R, S, pos[k]) = k - 1
    BY <1>4, <1>5, Arranged
<1>8. \A x, z \in S : Rank(R, S, x) = Rank(R, S, z) => x = z
    BY <1>4, RanksGrow
<1>9. \A k \in 1 .. n : seq[k] \in S
    BY DEF Ascends
<1> QED
    BY <1>4, <1>5, <1>6, <1>7, <1>8, <1>9

\* What both histories say of a week.
WeekTold(q) ==
    [week_end |-> RunEnd[q], v1_rules |-> V1Rules(Facts[q].alerts), basis_changed |-> ViewBasisChanged(q)]

\* The weeks of a team in their order.
InTime(runs, n, t) ==
    /\ n \in Nat /\ runs = [k \in 1 .. n |-> runs[k]]
    /\ \A k \in 1 .. n : runs[k] \in ledger[t] /\ runs[k] \in Runs /\ RunEnd[runs[k]] \in Int
    /\ \A q \in ledger[t] : \E k \in 1 .. n : runs[k] = q
    /\ \A j, k \in 1 .. n : j < k <=> RunEnd[runs[j]] < RunEnd[runs[k]]
    /\ \A j, k \in 1 .. n : runs[j] = runs[k] => j = k

LEMMA AllWeeksInTime ==
    ASSUME LedgerIsSound, NEW t \in Teams
    PROVE  \E n : InTime(PublishedWeeks(t), n, t)
<1>1. PICK S : S = ledger[t] /\ IsFiniteSet(S)
    BY DEF LedgerIsSound
<1>2. PICK n : n = Cardinality(S) /\ n \in Nat
    BY <1>1, FS_CardinalityType
<1> DEFINE R == {e \in S \X S : RunEnd[e[1]] < RunEnd[e[2]]}
           At(k) == CHOOSE x \in S : Cardinality({y \in S : RunEnd[y] < RunEnd[x]}) = k - 1
<1>3. PICK runs : runs = PublishedWeeks(t)
    OBVIOUS
<1>4. runs = [k \in 1 .. n |-> At(k)]
    BY <1>1, <1>2, <1>3 DEF PublishedWeeks, SortedBy
<1>5. \A q \in S : q \in Runs /\ RunEnd[q] \in Int
    BY <1>1, RunsAssumption DEF LedgerIsSound
<1>6. \A p, q \in S : RunEnd[p] = RunEnd[q] => p = q
    BY <1>1, WeeksApart
<1>7. \A x, y : <<x, y>> \in R <=> x \in S /\ y \in S /\ RunEnd[x] < RunEnd[y]
    OBVIOUS
<1>8. \A x \in S : Cardinality({y \in S : RunEnd[y] < RunEnd[x]}) = Rank(R, S, x)
    <2> SUFFICES ASSUME NEW x \in S PROVE Cardinality({y \in S : RunEnd[y] < RunEnd[x]}) = Rank(R, S, x)
        OBVIOUS
    <2>1. {y \in S : RunEnd[y] < RunEnd[x]} = {y \in S : <<y, x>> \in R}
        BY <1>7
    <2> QED
        BY <2>1 DEF Rank
<1> HIDE DEF R
<1>9. IsOrder(R, S)
    BY <1>5, <1>6, <1>7 DEF IsOrder
<1>10. IsArranged(runs, R, S)
    <2>1. DOMAIN runs = 1 .. Cardinality(S)
        BY <1>2, <1>4
    <2>2. ASSUME NEW k \in DOMAIN runs, \E x \in S : Rank(R, S, x) = k - 1
          PROVE  runs[k] \in S /\ Rank(R, S, runs[k]) = k - 1
        <3>1. runs[k] = At(k)
            BY <1>2, <1>4, <2>1
        <3>2. \E x \in S : Cardinality({y \in S : RunEnd[y] < RunEnd[x]}) = k - 1
            BY <1>8, <2>2
        <3>3. At(k) \in S /\ Cardinality({y \in S : RunEnd[y] < RunEnd[At(k)]}) = k - 1
            BY <3>2
        <3> QED
            BY <1>8, <3>1, <3>3
    <2> QED
        BY <2>1, <2>2 DEF IsArranged
<1>11. /\ \A k \in 1 .. n : runs[k] \in S
       /\ \A j, k \in 1 .. n : runs[j] = runs[k] => j = k
       /\ \A x \in S : \E k \in 1 .. n : runs[k] = x
       /\ \A j, k \in 1 .. n : j < k => <<runs[j], runs[k]>> \in R
    BY <1>1, <1>2, <1>9, <1>10, Arranged
<1> HIDE DEF At
<1>12. runs = [k \in 1 .. n |-> runs[k]]
    BY <1>4
<1>13. ASSUME NEW j \in 1 .. n, NEW k \in 1 .. n PROVE j < k <=> RunEnd[runs[j]] < RunEnd[runs[k]]
    <2>1. j < k => RunEnd[runs[j]] < RunEnd[runs[k]]
        BY <1>7, <1>11
    <2>2. k < j => RunEnd[runs[k]] < RunEnd[runs[j]]
        BY <1>7, <1>11
    <2>3. RunEnd[runs[k]] \in Int /\ RunEnd[runs[j]] \in Int
        BY <1>5, <1>11
    <2>4. j < k \/ j = k \/ k < j
        BY <1>2
    <2>5. j = k => RunEnd[runs[j]] = RunEnd[runs[k]]
        OBVIOUS
    <2>6. j < k => ~(j = k \/ k < j)
        BY <1>2
    <2> QED
        BY <2>1, <2>2, <2>3, <2>4, <2>5, <2>6
<1> QED
    BY <1>1, <1>2, <1>3, <1>5, <1>11, <1>12, <1>13 DEF InTime

\* The change of a week is from the week before it, to operators and to readers.
LEMMA ChangesAreSeen ==
    ASSUME LedgerIsSound, NEW t \in Teams, NEW runs, NEW n, InTime(runs, n, t), NEW i \in 1 .. n
    PROVE  BasisChanges(runs)[i] = ViewBasisChanged(runs[i])
<1>1. n \in Nat /\ DOMAIN runs = 1 .. n
    BY DEF InTime
<1>2. PICK r : r = runs[i] /\ r \in ledger[t] /\ RunTeam[r] = t
    BY DEF InTime, LedgerIsSound
<1>3. \A q : q \in WeeksBefore(r) <=> \E j \in 1 .. n : j < i /\ q = runs[j]
    <2>1. \A q : q \in WeeksBefore(r) <=> q \in ledger[t] /\ RunEnd[q] < RunEnd[r]
        BY <1>2 DEF WeeksBefore
    <2>2. \A j \in 1 .. n : j < i <=> RunEnd[runs[j]] < RunEnd[r]
        BY <1>2 DEF InTime
    <2>3. \A j \in 1 .. n : runs[j] \in ledger[t]
        BY DEF InTime
    <2>4. \A q \in ledger[t] : \E j \in 1 .. n : runs[j] = q
        BY DEF InTime
    <2> QED
        BY <2>1, <2>2, <2>3, <2>4
<1> DEFINE Differs(q, p) ==
               \/ Facts[q].ruleset # Facts[p].ruleset
               \/ MeasurementBasis(Facts[q].snapshot) # MeasurementBasis(Facts[p].snapshot)
<1>4. BasisChanges(runs)[i] <=> i > 1 /\ Differs(runs[i], runs[i - 1])
    BY <1>1 DEF BasisChanges
<1>5. ViewBasisChanged(r) <=> \E q \in WeeksBefore(r) :
                                  (\A p \in WeeksBefore(r) : RunEnd[p] <= RunEnd[q]) /\ Differs(q, r)
    BY DEF ViewBasisChanged
<1>6. \A q, p : Differs(q, p) <=> Differs(p, q)
    OBVIOUS
<1> HIDE DEF Differs
<1>7. CASE i = 1
    <2>1. \A q : q \notin WeeksBefore(r)
        BY <1>1, <1>3, <1>7
    <2>2. ~ViewBasisChanged(r) /\ ~BasisChanges(runs)[i]
        BY <1>4, <1>5, <1>7, <2>1
    <2> QED
        BY <1>2, <2>2 DEF ViewBasisChanged, BasisChanges, InTime
<1>8. CASE i # 1
    <2>1. i > 1 /\ i - 1 \in 1 .. n /\ i - 1 < i
        BY <1>1, <1>8
    <2>2. PICK p : p = runs[i - 1]
        OBVIOUS
    <2>3. p \in WeeksBefore(r)
        BY <1>3, <2>1, <2>2
    <2>4. \A j \in 1 .. n : j < i => RunEnd[runs[j]] <= RunEnd[p]
        <3> SUFFICES ASSUME NEW j \in 1 .. n, j < i PROVE RunEnd[runs[j]] <= RunEnd[p]
            OBVIOUS
        <3>1. RunEnd[runs[j]] \in Int /\ RunEnd[p] \in Int
            BY <2>1, <2>2 DEF InTime
        <3>2. j = i - 1 \/ j < i - 1
            BY <1>1, <2>1
        <3>3. j < i - 1 => RunEnd[runs[j]] < RunEnd[p]
            BY <2>1, <2>2 DEF InTime
        <3> QED
            BY <2>2, <3>1, <3>2, <3>3
    <2>5. \A q \in WeeksBefore(r) : RunEnd[q] <= RunEnd[p]
        BY <1>3, <2>4
    <2>6. ASSUME NEW q \in WeeksBefore(r), RunEnd[p] <= RunEnd[q] PROVE q = p
        <3>1. PICK j \in 1 .. n : j < i /\ q = runs[j]
            BY <1>3
        <3>2. RunEnd[q] \in Int /\ RunEnd[p] \in Int
            BY <2>1, <2>2, <3>1 DEF InTime
        <3>3. j < i - 1 => RunEnd[q] < RunEnd[p]
            BY <2>1, <2>2, <3>1 DEF InTime
        <3>4. j = i - 1
            BY <1>1, <2>1, <2>6, <3>1, <3>2, <3>3
        <3> QED
            BY <2>2, <3>1, <3>4
    <2>7. ViewBasisChanged(r) <=> Differs(p, r)
        BY <1>5, <2>3, <2>5, <2>6
    <2>8. BasisChanges(runs)[i] <=> Differs(p, r)
        BY <1>2, <1>4, <1>6, <2>1, <2>2
    <2>9. ViewBasisChanged(r) \in BOOLEAN /\ BasisChanges(runs)[i] \in BOOLEAN
        BY <1>1 DEF ViewBasisChanged, BasisChanges
    <2> QED
        BY <1>2, <2>7, <2>8, <2>9
<1> QED
    BY <1>7, <1>8

\* What an operator is told of the weeks up to the one of r, the m-th.
LEMMA OperatorsHistory ==
    ASSUME LedgerIsSound, NEW t \in Teams, NEW runs, runs = PublishedWeeks(t),
           NEW n, InTime(runs, n, t), NEW m \in 1 .. n, NEW hist,
           hist = PublishedHistory(t, RunEnd[runs[m]])
    PROVE  Len(hist) = m /\ DOMAIN hist = 1 .. m /\ \A k \in 1 .. m : hist[k] = WeekTold(runs[k])
<1>1. n \in Nat /\ DOMAIN runs = 1 .. n /\ m \in Nat /\ 1 .. m \subseteq 1 .. n
    BY DEF InTime
<1>2. PICK changes : changes = BasisChanges(runs)
    OBVIOUS
<1>9. PICK S : S = {i \in DOMAIN runs : RunEnd[runs[i]] <= RunEnd[runs[m]]}
    OBVIOUS
<1> DEFINE kept == SortedBy(S, LAMBDA i, j : i < j)
<1>3. hist = [k \in DOMAIN kept |->
                 [week_end |-> RunEnd[runs[kept[k]]], v1_rules |-> V1Rules(Facts[runs[kept[k]]].alerts),
                  basis_changed |-> changes[kept[k]]]]
    BY <1>2, <1>9 DEF PublishedHistory
<1>4. S = 1 .. m
    <2>1. ASSUME NEW i \in 1 .. n PROVE RunEnd[runs[i]] <= RunEnd[runs[m]] <=> i <= m
        <3>1. RunEnd[runs[i]] \in Int /\ RunEnd[runs[m]] \in Int
            BY DEF InTime
        <3>2. m < i <=> RunEnd[runs[m]] < RunEnd[runs[i]]
            BY DEF InTime
        <3> QED
            BY <1>1, <3>1, <3>2
    <2> QED
        BY <1>1, <1>9, <2>1
<1> DEFINE R == {e \in S \X S : e[1] < e[2]}
           At(k) == CHOOSE x \in S : Cardinality({y \in S : y < x}) = k - 1
<1>5. PICK p : p = kept
    OBVIOUS
<1>6. p = [k \in 1 .. Cardinality(S) |-> At(k)]
    BY <1>5 DEF SortedBy
<1> HIDE DEF kept
<1>7. \A x, y : <<x, y>> \in R <=> x \in S /\ y \in S /\ x < y
    OBVIOUS
<1>8. \A x \in S : Cardinality({y \in S : y < x}) = Rank(R, S, x)
    <2> SUFFICES ASSUME NEW x \in S PROVE Cardinality({y \in S : y < x}) = Rank(R, S, x)
        OBVIOUS
    <2>1. {y \in S : y < x} = {y \in S : <<y, x>> \in R}
        BY <1>7
    <2> QED
        BY <2>1 DEF Rank
<1> HIDE DEF R
<1>10. IsOrder(R, S)
    BY <1>1, <1>4, <1>7 DEF IsOrder
<1>11. IsArranged(p, R, S)
    <2>1. DOMAIN p = 1 .. Cardinality(S)
        BY <1>6
    <2>2. ASSUME NEW k \in DOMAIN p, \E x \in S : Rank(R, S, x) = k - 1
          PROVE  p[k] \in S /\ Rank(R, S, p[k]) = k - 1
        <3>1. p[k] = At(k)
            BY <1>6, <2>1
        <3>2. \E x \in S : Cardinality({y \in S : y < x}) = k - 1
            BY <1>8, <2>2
        <3>3. At(k) \in S /\ Cardinality({y \in S : y < At(k)}) = k - 1
            BY <3>2
        <3> QED
            BY <1>8, <3>1, <3>3
    <2> QED
        BY <2>1, <2>2 DEF IsArranged
<1>12. PICK q : q = [k \in 1 .. m |-> k]
    OBVIOUS
<1>13. Ascends(q, m, R, S)
    BY <1>1, <1>4, <1>7, <1>12 DEF Ascends
<1>14. DOMAIN p = 1 .. m /\ \A k \in 1 .. m : p[k] = q[k]
    BY <1>10, <1>11, <1>13, OnlyOrder
<1>15. DOMAIN kept = 1 .. m /\ \A k \in 1 .. m : kept[k] = k
    BY <1>5, <1>12, <1>14
<1>16. DOMAIN hist = 1 .. m
    BY <1>3, <1>15
<1>17. ASSUME NEW k \in 1 .. m PROVE hist[k] = WeekTold(runs[k])
    <2>1. changes[k] = ViewBasisChanged(runs[k])
        BY <1>1, <1>2, ChangesAreSeen
    <2> QED
        BY <1>3, <1>15, <2>1 DEF WeekTold
<1>18. Len(hist) = m
    <2>1. hist = [k \in 1 .. m |-> hist[k]]
        BY <1>3, <1>15
    <2>2. hist \in [1 .. m -> {hist[k] : k \in 1 .. m}]
        BY <2>1
    <2> QED
        BY <1>1, <2>2, LenIs
<1> QED
    BY <1>16, <1>17, <1>18

\* A reader is told of the last of the same weeks.
LEMMA ReadersWeeks ==
    ASSUME LedgerIsSound, NEW t \in Teams, NEW runs, NEW n, InTime(runs, n, t), NEW m \in 1 .. n,
           NEW c, c = Earlier(HISTORY_WEEKS, m), NEW weeks, weeks = HistoryWeeks(t, RunEnd[runs[m]])
    PROVE  DOMAIN weeks = 1 .. c /\ \A k \in 1 .. c : weeks[k] = Review(runs[k + (m - c)])
<1>1. /\ n \in Nat /\ m \in Nat /\ 1 .. m \subseteq 1 .. n /\ HISTORY_WEEKS \in Nat \ {0}
    BY HistoryAssumption DEF InTime
<1>2. c \in Nat /\ c >= 1 /\ c <= m /\ c <= HISTORY_WEEKS /\ (c < m => c = HISTORY_WEEKS)
    BY <1>1 DEF Earlier
<1>3. PICK end : end = RunEnd[runs[m]] /\ end \in Int
    BY DEF InTime
<1> DEFINE mine == {v \in PortalReviews : v.team = t /\ v.end <= end}
           After(v) == {w \in mine : w.end > v.end}
           S == {v \in mine : Cardinality({w \in mine : w.end > v.end}) < HISTORY_WEEKS}
           R == {e \in mine \X mine : e[1].end < e[2].end}
           Ranked(k) == CHOOSE x \in S : Cardinality({y \in S : y.end < x.end}) = k - 1
<1>4. weeks = [k \in 1 .. Cardinality(S) |-> Ranked(k)]
    BY <1>3 DEF HistoryWeeks, LastWeeks, SortedBy
<1>5. \A k \in 1 .. n : /\ runs[k] \in Runs /\ runs[k] \in PublishedRuns
                        /\ Review(runs[k]).team = t /\ Review(runs[k]).end = RunEnd[runs[k]]
                        /\ Review(runs[k]).run = runs[k] /\ RunEnd[runs[k]] \in Int
    <2> SUFFICES ASSUME NEW k \in 1 .. n
                 PROVE  /\ runs[k] \in Runs /\ runs[k] \in PublishedRuns
                        /\ Review(runs[k]).team = t /\ Review(runs[k]).end = RunEnd[runs[k]]
                        /\ Review(runs[k]).run = runs[k] /\ RunEnd[runs[k]] \in Int
        OBVIOUS
    <2>1. runs[k] \in ledger[t] /\ runs[k] \in Runs /\ RunEnd[runs[k]] \in Int
        BY DEF InTime
    <2>2. RunTeam[runs[k]] = t /\ runs[k] \in PublishedRuns
        BY <2>1 DEF LedgerIsSound, PublishedRuns
    <2> QED
        BY <2>1, <2>2, ReviewsAre
<1>6. \A v : v \in mine <=> \E k \in 1 .. m : v = Review(runs[k])
    <2>1. ASSUME NEW v \in mine PROVE \E k \in 1 .. m : v = Review(runs[k])
        <3>1. PICK q \in PublishedRuns : v = Review(q)
            BY DEF PortalReviews
        <3>2. q \in Runs
            BY DEF PublishedRuns, LedgerIsSound
        <3>3. v.team = RunTeam[q] /\ v.end = RunEnd[q] /\ RunEnd[q] \in Int /\ q \in ledger[RunTeam[q]]
            BY <3>1, <3>2, ReviewsAre
        <3>4. q \in ledger[t] /\ RunEnd[q] <= end
            BY <3>3
        <3>5. PICK k \in 1 .. n : runs[k] = q
            BY <3>4 DEF InTime
        <3>6. m < k <=> RunEnd[runs[m]] < RunEnd[runs[k]]
            BY DEF InTime
        <3>7. k <= m
            BY <1>1, <1>3, <3>3, <3>4, <3>5, <3>6
        <3> QED
            BY <1>1, <3>1, <3>5, <3>7
    <2>2. ASSUME NEW k \in 1 .. m PROVE Review(runs[k]) \in mine
        <3>1. k \in 1 .. n /\ ~(m < k)
            BY <1>1
        <3>2. m < k <=> RunEnd[runs[m]] < RunEnd[runs[k]]
            BY <3>1 DEF InTime
        <3>3. RunEnd[runs[k]] <= end
            BY <1>3, <1>5, <3>1, <3>2
        <3> QED
            BY <1>5, <3>1, <3>3 DEF PortalReviews
    <2> HIDE DEF mine
    <2> QED
        BY <2>1, <2>2
<1>7. \A j, k \in 1 .. m : j < k <=> Review(runs[j]).end < Review(runs[k]).end
    <2> SUFFICES ASSUME NEW j \in 1 .. m, NEW k \in 1 .. m
                 PROVE  j < k <=> Review(runs[j]).end < Review(runs[k]).end
        OBVIOUS
    <2>1. j \in 1 .. n /\ k \in 1 .. n
        BY <1>1
    <2> QED
        BY <1>5, <2>1 DEF InTime
<1>8. \A j, k \in 1 .. m : Review(runs[j]) = Review(runs[k]) => j = k
    <2> SUFFICES ASSUME NEW j \in 1 .. m, NEW k \in 1 .. m, Review(runs[j]) = Review(runs[k]) PROVE j = k
        OBVIOUS
    <2>1. j \in 1 .. n /\ k \in 1 .. n
        BY <1>1
    <2>2. runs[j] = runs[k]
        BY <1>5, <2>1
    <2> QED
        BY <2>1, <2>2 DEF InTime
<1>9. \A x, y : <<x, y>> \in R <=> x \in mine /\ y \in mine /\ x.end < y.end
    OBVIOUS
<1>10. S \subseteq mine /\ \A v \in mine : v \in S <=> Cardinality(After(v)) < HISTORY_WEEKS
    OBVIOUS
<1> HIDE DEF mine, S
<1>11. ASSUME NEW k \in 1 .. m PROVE Review(runs[k]) \in S <=> k > m - c
    <2>a. PICK rest : rest = m - k /\ rest \in Nat
        BY <1>1
    <2>b. PICK f : f = [i \in 1 .. rest |-> Review(runs[k + i])]
        OBVIOUS
    <2>1. rest = m - k /\ rest \in Nat /\ f = [i \in 1 .. rest |-> Review(runs[k + i])]
        BY <2>a, <2>b
    <2>2. \A i \in 1 .. rest : k + i \in 1 .. m
        BY <1>1, <2>1
    <2>3. \A i, j \in 1 .. rest : f[i] = f[j] => i = j
        <3> SUFFICES ASSUME NEW i \in 1 .. rest, NEW j \in 1 .. rest, f[i] = f[j] PROVE i = j
            OBVIOUS
        <3>1. k + i = k + j
            BY <1>8, <2>1, <2>2
        <3> QED
            BY <1>1, <2>1, <3>1
    <2>4. After(Review(runs[k])) = {f[i] : i \in 1 .. rest}
        <3>1. ASSUME NEW w \in After(Review(runs[k])) PROVE \E i \in 1 .. rest : w = f[i]
            <4>1. w \in mine /\ Review(runs[k]).end < w.end
                <5>1. w \in mine /\ w.end > Review(runs[k]).end
                    OBVIOUS
                <5>2. PICK j \in 1 .. m : w = Review(runs[j])
                    BY <1>6, <5>1
                <5>3. j \in 1 .. n /\ k \in 1 .. n
                    BY <1>1
                <5>4. w.end \in Int /\ Review(runs[k]).end \in Int
                    BY <1>5, <5>2, <5>3
                <5> QED
                    BY <5>1, <5>4
            <4>2. PICK j \in 1 .. m : w = Review(runs[j])
                BY <1>6, <4>1
            <4>3. k < j
                BY <1>7, <4>1, <4>2
            <4>4. j - k \in 1 .. rest /\ k + (j - k) = j
                BY <1>1, <2>1, <4>3
            <4> QED
                BY <2>1, <4>2, <4>4
        <3>2. ASSUME NEW i \in 1 .. rest PROVE f[i] \in After(Review(runs[k]))
            <4>1. k + i \in 1 .. m /\ k < k + i /\ f[i] = Review(runs[k + i])
                BY <1>1, <2>1, <2>2
            <4>2. f[i] \in mine /\ Review(runs[k]).end < f[i].end
                BY <1>6, <1>7, <4>1
            <4>3. k \in 1 .. n /\ k + i \in 1 .. n
                BY <1>1, <4>1
            <4>4. f[i].end \in Int /\ Review(runs[k]).end \in Int
                BY <1>5, <4>1, <4>3
            <4>5. f[i].end > Review(runs[k]).end
                BY <4>2, <4>4
            <4> QED
                BY <4>2, <4>5
        <3> HIDE DEF After
        <3> QED
            BY <3>1, <3>2
    <2>5. Cardinality({f[i] : i \in 1 .. rest}) = rest
        BY <2>a, <2>3, CountOf
    <2>6. Review(runs[k]) \in mine
        BY <1>6
    <2>7. Review(runs[k]) \in S <=> rest < HISTORY_WEEKS
        BY <1>10, <2>4, <2>5, <2>6
    <2>8. rest < HISTORY_WEEKS <=> k > m - c
        BY <1>1, <1>2, <2>1
    <2> QED
        BY <2>7, <2>8
<1> HIDE DEF R
<1>12. \A x \in S : Cardinality({y \in S : y.end < x.end}) = Rank(R, S, x)
    <2> SUFFICES ASSUME NEW x \in S PROVE Cardinality({y \in S : y.end < x.end}) = Rank(R, S, x)
        OBVIOUS
    <2>1. {y \in S : y.end < x.end} = {y \in S : <<y, x>> \in R}
        BY <1>9, <1>10
    <2> QED
        BY <2>1 DEF Rank
<1>13. \A v \in S : \E k \in 1 .. m : k > m - c /\ v = Review(runs[k])
    <2> SUFFICES ASSUME NEW v \in S PROVE \E k \in 1 .. m : k > m - c /\ v = Review(runs[k])
        OBVIOUS
    <2>1. PICK k \in 1 .. m : v = Review(runs[k])
        BY <1>6, <1>10
    <2> QED
        BY <1>11, <2>1
<1>14. \A v \in mine : v.end \in Int
    <2> SUFFICES ASSUME NEW v \in mine PROVE v.end \in Int
        OBVIOUS
    <2>1. PICK k \in 1 .. m : v = Review(runs[k])
        BY <1>6
    <2> QED
        BY <1>1, <1>5, <2>1
<1>15. \A v, w \in mine : v = w \/ v.end < w.end \/ w.end < v.end
    <2> SUFFICES ASSUME NEW v \in mine, NEW w \in mine PROVE v = w \/ v.end < w.end \/ w.end < v.end
        OBVIOUS
    <2>1. PICK j, k \in 1 .. m : v = Review(runs[j]) /\ w = Review(runs[k])
        BY <1>6
    <2>2. j < k \/ j = k \/ k < j
        BY <1>1
    <2> QED
        BY <1>7, <2>1, <2>2
<1>16. IsOrder(R, S)
    BY <1>9, <1>10, <1>14, <1>15 DEF IsOrder
<1>17. IsArranged(weeks, R, S)
    <2>1. DOMAIN weeks = 1 .. Cardinality(S)
        BY <1>4
    <2>2. ASSUME NEW k \in DOMAIN weeks, \E x \in S : Rank(R, S, x) = k - 1
          PROVE  weeks[k] \in S /\ Rank(R, S, weeks[k]) = k - 1
        <3>1. weeks[k] = Ranked(k)
            BY <1>4, <2>1
        <3>2. \E x \in S : Cardinality({y \in S : y.end < x.end}) = k - 1
            BY <1>12, <2>2
        <3>3. Ranked(k) \in S /\ Cardinality({y \in S : y.end < Ranked(k).end}) = k - 1
            BY <3>2
        <3> QED
            BY <1>12, <3>1, <3>3
    <2> QED
        BY <2>1, <2>2 DEF IsArranged
<1>18. PICK d : d = m - c /\ d \in Nat
    BY <1>1, <1>2
<1>19. PICK seq : seq = [k \in 1 .. c |-> Review(runs[k + d])]
    OBVIOUS
<1>20. \A k \in 1 .. c : k + d \in 1 .. m /\ k + d > d /\ seq[k] = Review(runs[k + d])
    BY <1>1, <1>2, <1>18, <1>19
<1>21. \A k \in 1 .. c : seq[k] \in S
    BY <1>11, <1>18, <1>20
<1>22. \A v \in S : \E k \in 1 .. c : seq[k] = v
    <2> SUFFICES ASSUME NEW v \in S PROVE \E k \in 1 .. c : seq[k] = v
        OBVIOUS
    <2>1. PICK j \in 1 .. m : j > d /\ v = Review(runs[j])
        BY <1>13, <1>18
    <2>2. j - d \in 1 .. c /\ (j - d) + d = j
        BY <1>1, <1>2, <1>18, <2>1
    <2> QED
        BY <1>20, <2>1, <2>2
<1>23. \A j, k \in 1 .. c : j < k => <<seq[j], seq[k]>> \in R
    <2> SUFFICES ASSUME NEW j \in 1 .. c, NEW k \in 1 .. c, j < k PROVE <<seq[j], seq[k]>> \in R
        OBVIOUS
    <2>1. j + d \in 1 .. m /\ k + d \in 1 .. m /\ j + d < k + d
        BY <1>2, <1>18, <1>20
    <2>2. Review(runs[j + d]).end < Review(runs[k + d]).end
        BY <1>7, <2>1
    <2>3. seq[j] \in mine /\ seq[k] \in mine
        BY <1>10, <1>21
    <2> QED
        BY <1>9, <1>20, <2>2, <2>3
<1>24. Ascends(seq, c, R, S)
    BY <1>2, <1>21, <1>22, <1>23 DEF Ascends
<1>25. DOMAIN weeks = 1 .. c /\ \A k \in 1 .. c : weeks[k] = seq[k]
    BY <1>16, <1>17, <1>24, OnlyOrder
<1> QED
    BY <1>18, <1>20, <1>25

-------------------------------------------------------------------------------
(* The projection.                                                         *)

Unbroken(history, n, k) == \A i \in n - k .. n - 1 : ~LookbackStops(history, i)

\* As far back as the history is unbroken, and no further than top.
IsReach(most, history, n, top) ==
    /\ most \in 0 .. top /\ Unbroken(history, n, most)
    /\ \A j \in 0 .. top : Unbroken(history, n, j) => j <= most

LEMMA SomeReach ==
    ASSUME NEW history, NEW n \in Nat \ {0}, NEW top \in Nat
    PROVE  \E most : IsReach(most, history, n, top)
<1> DEFINE N == {top - j : j \in {i \in 0 .. top : Unbroken(history, n, i)}}
<1>1. Unbroken(history, n, 0)
    BY DEF Unbroken
<1>2. N \in SUBSET Nat /\ N # {}
    <2>1. 0 \in {i \in 0 .. top : Unbroken(history, n, i)}
        BY <1>1
    <2> QED
        BY <2>1
<1>3. PICK p \in N : \A q \in N : p <= q
    BY <1>2, LeastOf
<1>4. PICK most \in 0 .. top : Unbroken(history, n, most) /\ p = top - most
    OBVIOUS
<1>5. ASSUME NEW j \in 0 .. top, Unbroken(history, n, j) PROVE j <= most
    <2>1. top - j \in N
        BY <1>5
    <2>2. p <= top - j
        BY <1>3, <2>1
    <2> QED
        BY <1>4, <2>2
<1>6. IsReach(most, history, n, top)
    BY <1>4, <1>5 DEF IsReach
<1> QED
    BY <1>6

LEMMA OneReach ==
    ASSUME NEW top \in Nat, NEW h, NEW n, NEW g, NEW m,
           \A k \in 0 .. top : Unbroken(h, n, k) <=> Unbroken(g, m, k),
           NEW a, IsReach(a, h, n, top), NEW b, IsReach(b, g, m, top)
    PROVE  a = b
<1>1. a \in 0 .. top /\ b \in 0 .. top /\ Unbroken(h, n, a) /\ Unbroken(g, m, b)
    BY DEF IsReach
<1>2. Unbroken(g, m, a) /\ Unbroken(h, n, b)
    BY <1>1
<1>3. a <= b /\ b <= a
    BY <1>1, <1>2 DEF IsReach
<1> QED
    BY <1>1, <1>3

TopOf(n) == Earlier(LOOKBACK_WEEKS, n - 1)
MostOf(history, n) == CHOOSE k \in 0 .. TopOf(n) :
                          /\ Unbroken(history, n, k)
                          /\ \A j \in 0 .. TopOf(n) : Unbroken(history, n, j) => j <= k

LEMMA TheReach ==
    ASSUME NEW history, NEW n \in Nat \ {0}
    PROVE  TopOf(n) \in Nat /\ IsReach(MostOf(history, n), history, n, TopOf(n))
<1>1. TopOf(n) \in Nat
    BY DEF TopOf, Earlier, LOOKBACK_WEEKS
<1>2. PICK top : top = TopOf(n) /\ top \in Nat
    BY <1>1
<1>3. \E most : IsReach(most, history, n, top)
    BY <1>2, SomeReach
<1> QED
    BY <1>2, <1>3 DEF MostOf, IsReach

\* A history, and its last weeks.
IsEndOf(short, c, whole, m) ==
    /\ m \in Nat \ {0} /\ c = Earlier(HISTORY_WEEKS, m)
    /\ Len(whole) = m /\ Len(short) = c
    /\ \A k \in 1 .. c : short[k] = whole[k + (m - c)]

LEMMA EndIsEnough ==
    ASSUME NEW short, NEW c, NEW whole, NEW m, IsEndOf(short, c, whole, m)
    PROVE  EarlierWeeks(short) = EarlierWeeks(whole)
<1>1. /\ m \in Nat \ {0} /\ HISTORY_WEEKS \in Nat \ {0} /\ HISTORY_WEEKS > 3
      /\ Len(whole) = m /\ Len(short) = c
    BY HistoryAssumption, ReachAssumption DEF IsEndOf, LOOKBACK_WEEKS
<1>2. c \in Nat \ {0} /\ c <= m /\ (c < m => c > 3)
    BY <1>1 DEF IsEndOf, Earlier
<1>3. PICK d : d = m - c /\ d \in Nat /\ m = c + d
    BY <1>1, <1>2
<1>4. PICK top : top = TopOf(c) /\ top = TopOf(m) /\ top \in 0 .. 3 /\ top <= c - 1
    <2>1. TopOf(c) = TopOf(m) /\ TopOf(c) \in 0 .. 3 /\ TopOf(c) <= c - 1
        BY <1>1, <1>2 DEF TopOf, Earlier, LOOKBACK_WEEKS
    <2> QED
        BY <2>1
<1>5. \A k \in 1 .. c : short[k] = whole[k + d]
    BY <1>3 DEF IsEndOf
<1>6. ASSUME NEW i \in 1 .. c - 1 PROVE LookbackStops(short, i) <=> LookbackStops(whole, i + d)
    <2>1. i \in 1 .. c /\ i + 1 \in 1 .. c /\ (i + 1) + d = (i + d) + 1
        BY <1>2, <1>3
    <2>2. short[i] = whole[i + d] /\ short[i + 1] = whole[(i + d) + 1]
        BY <1>5, <2>1
    <2> QED
        BY <2>2 DEF LookbackStops
<1>7. ASSUME NEW k \in 0 .. top PROVE Unbroken(short, c, k) <=> Unbroken(whole, m, k)
    <2>1. ASSUME Unbroken(short, c, k), NEW j \in m - k .. m - 1 PROVE ~LookbackStops(whole, j)
        <3>1. j - d \in c - k .. c - 1 /\ j - d \in 1 .. c - 1 /\ (j - d) + d = j
            BY <1>2, <1>3, <1>4
        <3>2. ~LookbackStops(short, j - d)
            BY <2>1, <3>1 DEF Unbroken
        <3> QED
            BY <1>6, <3>1, <3>2
    <2>2. ASSUME Unbroken(whole, m, k), NEW i \in c - k .. c - 1 PROVE ~LookbackStops(short, i)
        <3>1. i + d \in m - k .. m - 1 /\ i \in 1 .. c - 1
            BY <1>2, <1>3, <1>4
        <3>2. ~LookbackStops(whole, i + d)
            BY <2>2, <3>1 DEF Unbroken
        <3> QED
            BY <1>6, <3>1, <3>2
    <2> QED
        BY <2>1, <2>2 DEF Unbroken
<1>8. PICK a : a = MostOf(short, c) /\ IsReach(a, short, c, top)
    BY <1>2, <1>4, TheReach
<1>9. PICK b : b = MostOf(whole, m) /\ IsReach(b, whole, m, top)
    BY <1>1, <1>4, TheReach
<1>10. a = b
    <2>1. top \in Nat
        BY <1>4
    <2> QED
        BY <1>7, <1>8, <1>9, <2>1, OneReach
<1>11. a \in 0 .. top
    BY <1>8 DEF IsReach
<1> DEFINE Weeks1(h, n, most) == {h[i].v1_rules : i \in n - most .. n - 1}
           Stop(h, n, most) == CASE most = LOOKBACK_WEEKS -> "full"
                                 [] n - 1 - most = 0 -> "start"
                                 [] h[n - 1 - most + 1].basis_changed -> "basis"
                                 [] OTHER -> "gap"
<1>12. EarlierWeeks(short) = [weeks |-> Weeks1(short, c, a), found |-> a, stop |-> Stop(short, c, a)]
    BY <1>1, <1>8 DEF EarlierWeeks, MostOf, TopOf, Unbroken
<1>13. EarlierWeeks(whole) = [weeks |-> Weeks1(whole, m, b), found |-> b, stop |-> Stop(whole, m, b)]
    BY <1>1, <1>9 DEF EarlierWeeks, MostOf, TopOf, Unbroken
<1>14. Weeks1(short, c, a) = Weeks1(whole, m, a)
    <2>1. \A i \in c - a .. c - 1 : i + d \in m - a .. m - 1 /\ short[i] = whole[i + d]
        BY <1>2, <1>3, <1>4, <1>5, <1>11
    <2>2. \A j \in m - a .. m - 1 : j - d \in c - a .. c - 1 /\ short[j - d] = whole[j]
        <3> SUFFICES ASSUME NEW j \in m - a .. m - 1
                     PROVE  j - d \in c - a .. c - 1 /\ short[j - d] = whole[j]
            OBVIOUS
        <3>1. j - d \in c - a .. c - 1 /\ (j - d) + d = j
            BY <1>2, <1>3, <1>4, <1>11
        <3> QED
            BY <2>1, <3>1
    <2> QED
        BY <2>1, <2>2
<1>15. Stop(short, c, a) = Stop(whole, m, a)
    <2>1. CASE a = 3
        BY <2>1 DEF LOOKBACK_WEEKS
    <2>2. CASE a # 3
        <3>1. c - 1 - a = 0 <=> m - 1 - a = 0
            BY <1>1, <1>2, <1>3, <1>4, <1>11, <2>2
        <3>2. c - 1 - a # 0 => short[c - 1 - a + 1] = whole[m - 1 - a + 1]
            <4> SUFFICES ASSUME c - 1 - a # 0 PROVE short[c - 1 - a + 1] = whole[m - 1 - a + 1]
                OBVIOUS
            <4>1. c - 1 - a + 1 \in 1 .. c /\ (c - 1 - a + 1) + d = m - 1 - a + 1
                BY <1>2, <1>3, <1>4, <1>11
            <4> QED
                BY <1>5, <4>1
        <3> QED
            BY <3>1, <3>2
    <2> QED
        BY <2>1, <2>2
<1> QED
    BY <1>10, <1>12, <1>13, <1>14, <1>15

LEMMA SameEstimate ==
    ASSUME NEW x, NEW y, x.alerts = y.alerts, x.effort = y.effort, x.published = y.published,
           NEW c, NEW m, IsEndOf(y.history, c, x.history, m)
    PROVE  Estimate(x) = Estimate(y)
<1>1. /\ Len(x.history) = m /\ Len(y.history) = c /\ m \in Nat \ {0} /\ c \in Nat \ {0}
      /\ y.history[c] = x.history[m]
    <2>1. Len(x.history) = m /\ Len(y.history) = c /\ m \in Nat \ {0}
        BY DEF IsEndOf
    <2>2. c \in Nat \ {0} /\ c \in 1 .. c /\ c + (m - c) = m
        BY <2>1, HistoryAssumption DEF IsEndOf, Earlier
    <2> QED
        BY <2>1, <2>2 DEF IsEndOf
<1>2. PICK e : e = EarlierWeeks(x.history) /\ e = EarlierWeeks(y.history)
    BY EndIsEnough
<1>3. PICK last : last = x.history[m] /\ last = y.history[c]
    BY <1>1
<1> DEFINE Left(z) == Cardinality(V1Rules(z.alerts))
           Each(z) == IF z.effort # Null THEN z.effort ELSE DEFAULT_V1_RULE_EFFORT
           Answer1(z, lookback, retired, projected, reason) ==
               [rules_left |-> Left(z), lookback |-> lookback, retired |-> retired,
                projected |-> projected, reason |-> reason, override |-> z.effort # Null,
                effort |-> Left(z) * Each(z)]
           retired == Cardinality((UNION e.weeks) \ last.v1_rules)
           Says(z) ==
               CASE ~z.published -> Answer1(z, 0, Null, Null, "not published")
                 [] e.found < MIN_EARLIER_WEEKS -> Answer1(z, e.found, Null, Null, e.stop)
                 [] retired < MIN_RETIRED -> Answer1(z, e.found, retired, Null, "too few retired")
                 [] OTHER -> Answer1(z, e.found, retired,
                                 last.week_end + WeekLength * CeilDiv(Left(z) * e.found, retired), Null)
<1>4. m # 0 /\ c # 0
    BY <1>1
<1>5. Estimate(x) = Says(x)
    BY <1>1, <1>2, <1>3, <1>4 DEF Estimate
<1>6. Estimate(y) = Says(y)
    BY <1>1, <1>2, <1>3, <1>4 DEF Estimate
<1>7. Says(x) = Says(y)
    BY DEF Says
<1> QED
    BY <1>5, <1>6, <1>7

LEMMA RulesAreLeft ==
    ASSUME NEW x
    PROVE  Estimate(x).rules_left = Cardinality(V1Rules(x.alerts))
BY DEF Estimate

-------------------------------------------------------------------------------
(* The two summaries of a published week.                                  *)

\* All that the figures are made of is the same in both.
Alike(x, y) ==
    /\ x.alerts = y.alerts /\ x.rules = y.rules /\ x.daily = y.daily
    /\ x.published = y.published /\ x.effort = y.effort /\ x.phase = y.phase
    /\ \A s \in SCHEMAS : SameTotals(y.schemas[s], x.schemas[s])
    /\ \E c, m : IsEndOf(y.history, c, x.history, m)

LEMMA HistoriesMeet ==
    ASSUME LedgerIsSound, NEW t \in Teams, NEW r \in ledger[t],
           NEW whole, whole = PublishedHistory(t, RunEnd[r]),
           NEW weeks, weeks = HistoryWeeks(t, RunEnd[r]),
           NEW short, short = HistoryOf(weeks, HistoryRules(weeks))
    PROVE  \E c, m : IsEndOf(short, c, whole, m)
<1>1. PICK runs : runs = PublishedWeeks(t)
    OBVIOUS
<1>2. PICK n : InTime(runs, n, t)
    BY <1>1, AllWeeksInTime
<1>3. PICK m \in 1 .. n : runs[m] = r
    BY <1>2 DEF InTime
<1>4. /\ n \in Nat /\ m \in Nat \ {0} /\ 1 .. m \subseteq 1 .. n
    BY <1>2 DEF InTime
<1>5. Len(whole) = m /\ \A k \in 1 .. m : whole[k] = WeekTold(runs[k])
    BY <1>1, <1>2, <1>3, OperatorsHistory
<1>6. PICK c : c = Earlier(HISTORY_WEEKS, m)
    OBVIOUS
<1>7. c \in Nat /\ c >= 1 /\ c <= m
    BY <1>4, <1>6, HistoryAssumption DEF Earlier
<1>8. DOMAIN weeks = 1 .. c /\ \A k \in 1 .. c : weeks[k] = Review(runs[k + (m - c)])
    BY <1>2, <1>3, <1>6, ReadersWeeks
<1>9. ASSUME NEW k \in 1 .. c PROVE short[k] = whole[k + (m - c)]
    <2>1. PICK i : i = k + (m - c) /\ i \in 1 .. m /\ i \in 1 .. n
        BY <1>4, <1>7
    <2>2. PICK q : q = runs[i] /\ q \in ledger[t] /\ q \in Runs
        BY <1>2, <2>1 DEF InTime
    <2>3. q \in PublishedRuns
        BY <2>2 DEF PublishedRuns
    <2>4. weeks[k] = Review(q)
        BY <1>8, <2>1, <2>2
    <2>5. Review(q).end = RunEnd[q] /\ Review(q).run = q /\ Review(q).basis_changed = ViewBasisChanged(q)
        BY DEF Review
    <2>6. HistoryRules(weeks)[k] = V1Rules(Facts[q].alerts)
        BY <1>8, <2>3, <2>4, <2>5 DEF HistoryRules, PortalAlerts
    <2>7. short[k] = [week_end |-> weeks[k].end, v1_rules |-> HistoryRules(weeks)[k],
                      basis_changed |-> weeks[k].basis_changed]
        BY <1>8 DEF HistoryOf
    <2>8. short[k] = WeekTold(q)
        BY <2>4, <2>5, <2>6, <2>7 DEF WeekTold
    <2> QED
        BY <1>5, <2>1, <2>2, <2>8
<1>10. Len(short) = c
    <2>1. short = [k \in 1 .. c |-> [week_end |-> weeks[k].end, v1_rules |-> HistoryRules(weeks)[k],
                                     basis_changed |-> weeks[k].basis_changed]]
        BY <1>8 DEF HistoryOf
    <2>2. short = [k \in 1 .. c |-> short[k]]
        BY <2>1
    <2>3. short \in [1 .. c -> {short[k] : k \in 1 .. c}]
        BY <2>2
    <2> QED
        BY <1>7, <2>3, LenIs
<1>11. IsEndOf(short, c, whole, m)
    BY <1>4, <1>5, <1>6, <1>9, <1>10 DEF IsEndOf
<1> QED
    BY <1>11

LEMMA SummariesAlike ==
    ASSUME LedgerIsSound, NEW t \in Teams, NEW r \in ledger[t],
           NEW x, x = AdminSummary(r), NEW y, y = PortalSummary(r)
    PROVE  /\ Alike(x, y) /\ x.alerts = Facts[r].alerts /\ x.phase = Review(r).phase
           /\ x.rules = AdminRuleTotals(Facts[r].counts, Facts[r].alerts)
           /\ \A s \in SCHEMAS : x.schemas[s] = AdminSchemaTotals(s, Facts[r].daily, Facts[r].alerts)
<1>1. r \in Runs /\ r \in PublishedRuns /\ RunTeam[r] = t
    BY DEF LedgerIsSound, PublishedRuns
<1>2. Publication(r) = "published"
    BY <1>1 DEF Publication
<1>3. /\ x.alerts = Facts[r].alerts /\ x.rules = AdminRuleTotals(Facts[r].counts, Facts[r].alerts)
      /\ x.daily = DailyPoints(Facts[r].daily) /\ x.published = TRUE
      /\ x.effort = EffortOf(Facts[r].snapshot) /\ x.phase = Facts[r].phase
      /\ x.history = PublishedHistory(t, RunEnd[r])
      /\ \A s \in SCHEMAS : x.schemas[s] = AdminSchemaTotals(s, Facts[r].daily, Facts[r].alerts)
    BY <1>1, <1>2 DEF AdminSummary
<1>4. PICK weeks : weeks = HistoryWeeks(t, RunEnd[r])
    OBVIOUS
<1>5. /\ y.alerts = PortalAlerts(r) /\ y.rules = PortalRuleTotals(r)
      /\ y.daily = PortalDailyMetrics(r) /\ y.published = TRUE
      /\ y.effort = Review(r).effort /\ y.phase = Review(r).phase
      /\ y.history = HistoryOf(weeks, HistoryRules(weeks))
      /\ y.schemas = SchemaTotalsOf(PortalSchemaTotals(r))
    BY <1>1, <1>4 DEF PortalSummary, PortalInputs
<1>6. Review(r).effort = EffortOf(Facts[r].snapshot) /\ Review(r).phase = Facts[r].phase
    BY DEF Review
<1>7. PortalAlerts(r) = Facts[r].alerts
    BY <1>1 DEF PortalAlerts
<1>8. PortalDailyMetrics(r) = DailyPoints(Facts[r].daily)
    BY <1>1 DEF PortalDailyMetrics, DailyPoints
<1>9. PortalRuleTotals(r) = AdminRuleTotals(Facts[r].counts, Facts[r].alerts)
    BY <1>1, RulesAgree
<1>10. \A s \in SCHEMAS : SameTotals(y.schemas[s], x.schemas[s])
    BY <1>1, <1>3, <1>5, TotalsAgree
<1>11. \E c, m : IsEndOf(y.history, c, x.history, m)
    BY <1>3, <1>4, <1>5, HistoriesMeet
<1> QED
    BY <1>3, <1>5, <1>6, <1>7, <1>8, <1>9, <1>10, <1>11 DEF Alike

LEMMA SameFindings ==
    ASSUME NEW x, NEW y, Alike(x, y)
    PROVE  KeyFindings(x) = KeyFindings(y)
<1>1. x.rules = y.rules /\ x.alerts = y.alerts
    BY DEF Alike
<1>2. \A s \in SCHEMAS : /\ x.schemas[s].events = y.schemas[s].events
                         /\ x.schemas[s].suppressed = y.schemas[s].suppressed
                         /\ x.schemas[s].unseen = y.schemas[s].unseen
                         /\ x.schemas[s].unseen_alerts = y.schemas[s].unseen_alerts
                         /\ StateCount(x.schemas[s], "unassessed") = StateCount(y.schemas[s], "unassessed")
    BY DEF Alike, SameTotals, STATES
<1>3. Unassessed(x.schemas) = Unassessed(y.schemas)
    <2>1. [s \in SCHEMAS |-> StateCount(x.schemas[s], "unassessed")]
              = [s \in SCHEMAS |-> StateCount(y.schemas[s], "unassessed")]
        BY <1>2
    <2> QED
        BY <2>1 DEF Unassessed
<1>4. LouderSchema(x.schemas) = LouderSchema(y.schemas)
    BY <1>2 DEF LouderSchema, SCHEMAS
<1>5. HiddenFinding(x.schemas) = HiddenFinding(y.schemas)
    <2>1. [s \in SCHEMAS |-> x.schemas[s].suppressed] = [s \in SCHEMAS |-> y.schemas[s].suppressed]
        BY <1>2
    <2> QED
        BY <2>1 DEF HiddenFinding
<1>6. UnseenFinding(x.schemas) = UnseenFinding(y.schemas)
    <2> DEFINE Shown(z) == {s \in SCHEMAS : Coalesce(z.schemas[s].unseen) > 0}
               Row(z, s) == <<s, Coalesce(z.schemas[s].unseen_alerts), z.schemas[s].unseen>>
    <2>1. Shown(x) = Shown(y)
        BY <1>2
    <2>2. {Row(x, s) : s \in Shown(x)} = {Row(y, s) : s \in Shown(y)}
        BY <1>2, <2>1
    <2>3. \A z : UnseenFinding(z.schemas) =
                     IF Shown(z) = {} THEN NoFinding
                     ELSE Finding("unseen", Null, {Row(z, s) : s \in Shown(z)})
        BY DEF UnseenFinding
    <2> HIDE DEF Shown, Row
    <2> QED
        BY <2>1, <2>2, <2>3
<1> QED
    BY <1>1, <1>3, <1>4, <1>5, <1>6 DEF KeyFindings

\* A day that hides something is in the sum of its schema, and one that was
\* measured makes the sum a number.
LEMMA NothingListed ==
    ASSUME NEW r \in Runs, NEW alerts, alerts = Facts[r].alerts,
           NEW totals, totals = [s \in SCHEMAS |-> AdminSchemaTotals(s, Facts[r].daily, alerts)]
    PROVE  /\ (\A s \in SCHEMAS : totals[s].suppressed = 0) => HiddenAlerts(alerts) = {}
           /\ (\A s \in SCHEMAS : totals[s].unseen = Null) => UnseenAlerts(alerts) = {}
<1>1. StoredRun(Facts[r]) /\ IsDerived(Facts[r])
    BY RunsAssumption, DerivedAssumption
<1>2. PICK daily : daily = Facts[r].daily
    OBVIOUS
<1> DEFINE Days(s) == {d \in daily : d.schema = s}
<1>3. ASSUME NEW s \in SCHEMAS
      PROVE  /\ totals[s].suppressed = Total("suppressed", Days(s))
             /\ totals[s].unseen = SumOrNone(Days(s), "unseen")
    BY <1>2 DEF AdminSchemaTotals, Total
<1>4. ASSUME NEW s PROVE /\ IsFiniteSet(Days(s))
                         /\ \A d \in Days(s) : d["suppressed"] \in Nat
                         /\ \A d \in Days(s) : d["unseen"] \in Nat \union {Null}
    <2>1. IsFiniteSet(daily) /\ Days(s) \subseteq daily
        BY <1>1, <1>2 DEF StoredRun
    <2>2. IsFiniteSet(Days(s))
        BY <2>1, FS_Subset
    <2> QED
        BY <1>1, <1>2, <2>2 DEF StoredRun
<1>5. ASSUME \A s \in SCHEMAS : totals[s].suppressed = 0, NEW a \in HiddenAlerts(alerts) PROVE FALSE
    <2>1. a \in alerts /\ "R5" \in a.core /\ a.schema \in SCHEMAS
        BY <1>1, <1>5 DEF HiddenAlerts, StoredRun
    <2>2. PICK d \in daily : d.schema = a.schema /\ d.suppressed > 0
        BY <1>1, <1>2, <2>1 DEF IsDerived
    <2>3. PICK days : days = Days(a.schema) /\ d \in days /\ d["suppressed"] > 0
        BY <2>2
    <2>4. Total("suppressed", days) # 0
        BY <1>4, <2>3, TotalCounts
    <2> QED
        BY <1>3, <1>5, <2>1, <2>3, <2>4
<1>6. ASSUME \A s \in SCHEMAS : totals[s].unseen = Null, NEW a \in UnseenAlerts(alerts) PROVE FALSE
    <2>1. a \in alerts /\ a.unseen = TRUE /\ a.schema \in SCHEMAS
        BY <1>1, <1>6 DEF UnseenAlerts, StoredRun
    <2>2. PICK d \in daily : d.schema = a.schema /\ d.unseen # Null
        BY <1>1, <1>2, <2>1 DEF IsDerived
    <2>3. PICK days : days = Days(a.schema) /\ d \in days /\ d["unseen"] # Null
        BY <2>2
    <2>4. IsFiniteSet(days) /\ \A e \in days : e["unseen"] \in Nat \union {Null}
        BY <1>4, <2>3
    <2>5. SumOrNone(days, "unseen") # Null
        BY <2>3, <2>4, MeasureAgrees
    <2> QED
        BY <1>3, <1>6, <2>1, <2>3, <2>5
<1> QED
    BY <1>5, <1>6

\* Every bar of a core rule has an alert, and so a cell.
LEMMA BarsAreCells ==
    ASSUME NEW r \in Runs, NEW rules, rules = AdminRuleTotals(Facts[r].counts, Facts[r].alerts)
    PROVE  Why(rules, CORE) = Cells(rules) /\ OpenGaps(Why(rules, READINESS)) = GapCells(rules)
<1>1. StoredRun(Facts[r]) /\ IsDerived(Facts[r])
    BY RunsAssumption, DerivedAssumption
<1> DEFINE Carriers(c) == {a \in AlertsOf(Facts[r].alerts, c.schema) :
                               c.rule \in a.core \/ c.rule \in a.readiness}
           AdminRow(c) ==
               [schema |-> c.schema, rule |-> c.rule,
                events |-> MapThenSumSet(LAMBDA d : d.match_count,
                                         {d \in Facts[r].counts : d.schema = c.schema /\ d.rule = c.rule}),
                alerts |-> Cardinality(Carriers(c))]
<1>2. rules = {AdminRow(c) : c \in Facts[r].counts}
    BY DEF AdminRuleTotals
<1>3. \A c : AdminRow(c).rule = c.rule /\ AdminRow(c).alerts = Cardinality(Carriers(c))
    OBVIOUS
<1>4. \A c, a : a \in Carriers(c) <=> /\ a \in Facts[r].alerts /\ a.schema = c.schema
                                      /\ c.rule \in a.core \/ c.rule \in a.readiness
    BY DEF AlertsOf
<1> HIDE DEF AdminRow, Carriers
<1>5. ASSUME NEW u \in rules, u.rule \in CORE PROVE u.alerts # 0
    <2>1. PICK c \in Facts[r].counts : u = AdminRow(c)
        BY <1>2, <1>5
    <2>2. u.rule = c.rule /\ u.alerts = Cardinality(Carriers(c))
        BY <1>3, <2>1
    <2>3. PICK a \in Facts[r].alerts : a.schema = c.schema /\ c.rule \in a.core
        BY <1>1, <1>5, <2>2 DEF IsDerived
    <2>4. a \in Carriers(c) /\ Carriers(c) \subseteq Facts[r].alerts
        BY <1>4, <2>3
    <2>5. IsFiniteSet(Facts[r].alerts)
        BY <1>1 DEF StoredRun
    <2>6. IsFiniteSet(Carriers(c))
        BY <2>4, <2>5, FS_Subset
    <2>7. Cardinality(Carriers(c)) # 0
        BY <2>4, <2>6, FS_EmptySet
    <2> QED
        BY <2>2, <2>7
<1>6. {u \in rules : u.rule \in CORE} = Carried(rules, CORE)
    BY <1>5 DEF Carried
<1>7. Why(rules, CORE) = Cells(rules)
    BY <1>6 DEF Why, Cells
<1>8. ASSUME NEW b PROVE b \in OpenGaps(Why(rules, READINESS)) <=> b \in GapCells(rules)
    <2>1. ASSUME b \in OpenGaps(Why(rules, READINESS)) PROVE b \in GapCells(rules)
        <3>1. PICK c \in Why(rules, READINESS) : c[3] # 0 /\ b = <<c[1], c[2], c[3]>>
            BY <2>1 DEF OpenGaps
        <3>2. PICK t \in rules : t.rule \in READINESS /\ c = <<t.rule, t.schema, t.alerts, t.events>>
            BY <3>1 DEF Why
        <3>3. t.alerts # 0 /\ b = <<t.rule, t.schema, t.alerts>>
            BY <3>1, <3>2
        <3> QED
            BY <3>2, <3>3 DEF GapCells, Carried
    <2>2. ASSUME b \in GapCells(rules) PROVE b \in OpenGaps(Why(rules, READINESS))
        <3>1. PICK t \in rules : t.rule \in READINESS /\ t.alerts # 0 /\ b = <<t.rule, t.schema, t.alerts>>
            BY <2>2 DEF GapCells, Carried
        <3>2. PICK c : c = <<t.rule, t.schema, t.alerts, t.events>>
            OBVIOUS
        <3>3. c \in Why(rules, READINESS)
            BY <3>1, <3>2 DEF Why
        <3>4. c[3] # 0 /\ b = <<c[1], c[2], c[3]>>
            BY <3>1, <3>2
        <3> QED
            BY <3>3, <3>4 DEF OpenGaps
    <2> QED
        BY <2>1, <2>2
<1>9. OpenGaps(Why(rules, READINESS)) = GapCells(rules)
    BY <1>8
<1> QED
    BY <1>7, <1>9

-------------------------------------------------------------------------------
(* The figures, one by one.                                                *)

LEMMA NothingToList == Listed({}) = <<>>
<1>1. PICK list : list = LouderFirst({})
    OBVIOUS
<1>2. Cardinality({}) = 0 /\ 1 .. 0 = {}
    BY FS_EmptySet
<1>3. list = <<>>
    <2> DEFINE Pick(k) == CHOOSE x \in {} : Cardinality({y \in {} :
                              \/ y.row_count > x.row_count
                              \/ y.row_count = x.row_count /\ Smaller(Identity(y), Identity(x))}) = k - 1
    <2>1. list = [k \in 1 .. 0 |-> Pick(k)]
        BY <1>1, <1>2 DEF LouderFirst, SortedBy
    <2> HIDE DEF Pick
    <2> QED
        BY <1>2, <2>1
<1>4. Earlier(TOP_LISTED, Len(list)) = 0
    BY <1>3, ListsAssumption DEF Earlier
<1>5. SubSeq(list, 1, 0) = <<>>
    BY <1>3
<1> QED
    BY <1>1, <1>4, <1>5 DEF Listed, Top

LEMMA SameOutcomes ==
    ASSUME NEW x, NEW y, SameTotals(x, y)
    PROVE  Outcomes(x) = Outcomes(y)
<1>1. \A q \in STATES : StateCount(x, q) = StateCount(y, q)
    BY DEF SameTotals
<1> QED
    BY <1>1 DEF Outcomes

LEMMA SameGlance ==
    ASSUME NEW x, NEW y, NEW s \in SCHEMAS, SameTotals(y.inputs.schemas[s], x.inputs.schemas[s])
    PROVE  Glance(x, s) = SchemaCard(y, s)
<1>1. PICK a : a = x.inputs.schemas[s]
    OBVIOUS
<1>2. PICK b : b = y.inputs.schemas[s]
    OBVIOUS
<1>3. SameTotals(b, a)
    BY <1>1, <1>2
<1>4. Outcomes(b) = Outcomes(a)
    BY <1>3, SameOutcomes
<1>5. b.events = a.events /\ b.distinct_alerts = a.distinct_alerts
    BY <1>3 DEF SameTotals
<1>6. Glance(x, s) = IF Quiet(a) THEN Null
                     ELSE [alerts |-> a.distinct_alerts, events |-> a.events, outcomes |-> Outcomes(a)]
    BY <1>1 DEF Glance
<1>7. SchemaCard(y, s) = IF Quiet(b) THEN Null
                         ELSE [outcomes |-> Outcomes(b), events |-> b.events, alerts |-> b.distinct_alerts]
    BY <1>2 DEF SchemaCard
<1>8. Quiet(a) <=> Quiet(b)
    BY <1>5 DEF Quiet
<1> QED
    BY <1>4, <1>5, <1>6, <1>7, <1>8

\* The reader's two cards list alerts only when their schemas have something to tell.
LEMMA SameHidden ==
    ASSUME NEW x, NEW y, x.inputs.alerts = y.inputs.alerts,
           \A s \in SCHEMAS : x.inputs.schemas[s].suppressed = y.inputs.schemas[s].suppressed,
           (\A s \in SCHEMAS : x.inputs.schemas[s].suppressed = 0) => HiddenAlerts(x.inputs.alerts) = {}
    PROVE  HiddenCard(x) = HiddenBody(y)
<1> DEFINE Counts(z) == [s \in SCHEMAS |-> z.inputs.schemas[s].suppressed]
           all == Listed(HiddenAlerts(x.inputs.alerts))
           some == \E s \in SCHEMAS : y.inputs.schemas[s].suppressed # 0
<1>1. Counts(x) = Counts(y)
    OBVIOUS
<1>2. HiddenCard(x) = [counts |-> Counts(x), listed |-> all]
    BY DEF HiddenCard
<1>3. HiddenBody(y) = [counts |-> Counts(y), listed |-> IF some THEN all ELSE <<>>]
    BY DEF HiddenBody
<1>4. ~some => all = <<>>
    BY NothingToList
<1> HIDE DEF Counts, all, some
<1> QED
    BY <1>1, <1>2, <1>3, <1>4

LEMMA SameUnseen ==
    ASSUME NEW x, NEW y, x.inputs.alerts = y.inputs.alerts,
           \A s \in SCHEMAS : /\ x.inputs.schemas[s].unseen = y.inputs.schemas[s].unseen
                              /\ x.inputs.schemas[s].unseen_alerts = y.inputs.schemas[s].unseen_alerts,
           (\A s \in SCHEMAS : x.inputs.schemas[s].unseen = Null) => UnseenAlerts(x.inputs.alerts) = {}
    PROVE  UnseenCard(x) = UnseenBody(y)
<1> DEFINE OnCard(totals) ==
               CASE totals.unseen = Null -> <<"not measured">>
                 [] totals.unseen = 0 -> <<"none">>
                 [] OTHER -> <<"found", totals.unseen, Coalesce(totals.unseen_alerts)>>
           measured == {s \in SCHEMAS : y.inputs.schemas[s].unseen # Null}
           InBody(s) == IF s \notin measured THEN <<"not measured">>
                      ELSE IF y.inputs.schemas[s].unseen # 0
                           THEN <<"found", y.inputs.schemas[s].unseen,
                                  Coalesce(y.inputs.schemas[s].unseen_alerts)>>
                           ELSE <<"none">>
           all == Listed(UnseenAlerts(x.inputs.alerts))
<1>1. Null # 0
    BY RunsAssumption
<1>2. ASSUME NEW s \in SCHEMAS PROVE OnCard(x.inputs.schemas[s]) = InBody(s)
    <2>1. PICK n : n = x.inputs.schemas[s].unseen /\ n = y.inputs.schemas[s].unseen
        OBVIOUS
    <2>2. PICK k : k = x.inputs.schemas[s].unseen_alerts /\ k = y.inputs.schemas[s].unseen_alerts
        OBVIOUS
    <2>3. CASE n = Null
        BY <1>1, <2>1, <2>3
    <2>4. CASE n = 0
        BY <1>1, <2>1, <2>4
    <2>5. CASE n # Null /\ n # 0
        BY <2>1, <2>2, <2>5
    <2> QED
        BY <2>3, <2>4, <2>5
<1>3. UnseenCard(x) = [counts |-> [s \in SCHEMAS |-> OnCard(x.inputs.schemas[s])], listed |-> all]
    BY DEF UnseenCard
<1>4. UnseenBody(y) = [counts |-> [s \in SCHEMAS |-> InBody(s)],
                       listed |-> IF measured = {} THEN <<>> ELSE all]
    BY DEF UnseenBody
<1>5. measured = {} => all = <<>>
    BY NothingToList
<1> HIDE DEF OnCard, InBody, all, measured
<1>6. [s \in SCHEMAS |-> OnCard(x.inputs.schemas[s])] = [s \in SCHEMAS |-> InBody(s)]
    BY <1>2
<1> QED
    BY <1>3, <1>4, <1>5, <1>6

\* With no alert in v1 there is no application, no alert and no rule left.
LEMMA SameProgress ==
    ASSUME NEW x, NEW y, NEW selected, x.inputs.phase = selected.phase,
           NEW alerts, alerts = x.inputs.alerts, alerts = y.inputs.alerts,
           x.estimate = y.estimate,
           x.estimate.rules_left = Cardinality(V1Rules(alerts)),
           x.inputs.schemas["v1"].distinct_alerts = Cardinality(AlertsOf(alerts, "v1"))
    PROVE  Progress(x) = MigrationBody(selected, y)
<1>1. PICK v1 : v1 = AlertsOf(alerts, "v1")
    OBVIOUS
<1> DEFINE v2 == AlertsOf(alerts, "v2")
           apps == {a.application : a \in v1}
           left == <<x.estimate.rules_left, Cardinality(apps), Cardinality(v1)>>
           ready == <<Cardinality({a \in v2 : Ready(a)}), Cardinality(v2)>>
           critical == Cardinality(CriticalWithoutRunbook(v2))
<1>2. Progress(x) = [phase |-> selected.phase, left |-> left, ready |-> ready, critical |-> critical]
    BY <1>1 DEF Progress
<1>3. MigrationBody(selected, y) =
          [phase |-> selected.phase, left |-> IF v1 = {} THEN <<0, 0, 0>> ELSE left,
           ready |-> ready, critical |-> critical]
    BY <1>1 DEF MigrationBody
<1>4. ASSUME v1 = {} PROVE left = <<0, 0, 0>>
    <2>1. V1Rules(alerts) = {} /\ apps = {}
        BY <1>1, <1>4 DEF V1Rules
    <2> QED
        BY <1>4, <2>1, FS_EmptySet
<1> HIDE DEF left, ready, critical
<1> QED
    BY <1>2, <1>3, <1>4

LEMMA SameAdvice ==
    ASSUME NEW x, NEW y, \A s \in SCHEMAS : SameTotals(y.inputs.schemas[s], x.inputs.schemas[s])
    PROVE  [q \in {"llm_flagged", "needs_review"} |->
               [s \in SCHEMAS |-> StateCount(x.inputs.schemas[s], q)]] = AdvisoryRows(y)
<1>1. ASSUME NEW q \in {"llm_flagged", "needs_review"}, NEW s \in SCHEMAS
      PROVE  StateCount(x.inputs.schemas[s], q) = StateCount(y.inputs.schemas[s], q)
    BY DEF SameTotals, STATES
<1> DEFINE Counted(z, q) == [s \in SCHEMAS |-> StateCount(z.inputs.schemas[s], q)]
<1>2. ASSUME NEW q \in {"llm_flagged", "needs_review"} PROVE Counted(x, q) = Counted(y, q)
    BY <1>1
<1>3. AdvisoryRows(y) = [q \in {"llm_flagged", "needs_review"} |-> Counted(y, q)]
    BY DEF AdvisoryRows
<1> HIDE DEF Counted
<1>4. [q \in {"llm_flagged", "needs_review"} |-> Counted(x, q)]
          = [q \in {"llm_flagged", "needs_review"} |-> Counted(y, q)]
    BY <1>2
<1> QED
    BY <1>3, <1>4 DEF Counted

LEMMA ListsAreOfAlerts ==
    ASSUME NEW x, NEW y, x.alerts = y.alerts, x.rules = y.rules, Estimate(x) = Estimate(y),
           NEW sx, sx = Summarize(x), NEW sy, sy = Summarize(y)
    PROVE  /\ sx.fire = sy.fire /\ sx.biggest = sy.biggest
           /\ OperatorExtras(sx) = OperatorExtras(sy)
<1>1. /\ sx.inputs = x /\ sx.fire = FireRows(x.alerts) /\ sx.biggest = Biggest(x.alerts)
      /\ sx.by_application = ByApplication(x.alerts) /\ sx.estimate = Estimate(x)
    BY DEF Summarize
<1>2. /\ sy.inputs = y /\ sy.fire = FireRows(x.alerts) /\ sy.biggest = Biggest(x.alerts)
      /\ sy.by_application = ByApplication(x.alerts) /\ sy.estimate = Estimate(x)
    BY DEF Summarize
<1> DEFINE Extras(alerts, rules, apps, estimate) ==
               [model |-> ModelFindings(alerts), donut |-> [s \in SCHEMAS |-> Donut(alerts, s)],
                by_rule |-> ByRule(rules, alerts), by_application |-> apps, estimate |-> estimate]
<1>3. \A z : OperatorExtras(z) = Extras(z.inputs.alerts, z.inputs.rules, z.by_application, z.estimate)
    BY DEF OperatorExtras
<1> HIDE DEF Extras
<1> QED
    BY <1>1, <1>2, <1>3

LEMMA WeekIsToldTheSame ==
    ASSUME LedgerIsSound, NEW t \in Teams, NEW r \in ledger[t],
           NEW sx, sx = Summarize(AdminSummary(r)), NEW sy, sy = Summarize(PortalSummary(r))
    PROVE  /\ OperatorFigures(sx) = ReaderFigures(Review(r), sy)
           /\ OperatorExtras(sx) = OperatorExtras(sy)
           /\ sx.inputs.daily = sy.inputs.daily
<1>1. PICK x : x = AdminSummary(r)
    OBVIOUS
<1>2. PICK y : y = PortalSummary(r)
    OBVIOUS
<1>3. PICK alerts : alerts = Facts[r].alerts
    OBVIOUS
<1>4. r \in Runs
    BY DEF LedgerIsSound
<1>5. /\ Alike(x, y) /\ x.alerts = alerts /\ x.phase = Review(r).phase
      /\ x.rules = AdminRuleTotals(Facts[r].counts, Facts[r].alerts)
      /\ \A s \in SCHEMAS : x.schemas[s] = AdminSchemaTotals(s, Facts[r].daily, Facts[r].alerts)
    BY <1>1, <1>2, <1>3, SummariesAlike
<1>6. /\ y.alerts = alerts /\ y.rules = x.rules /\ x.daily = y.daily
      /\ \A s \in SCHEMAS : SameTotals(y.schemas[s], x.schemas[s])
    BY <1>5 DEF Alike
<1>7. Estimate(x) = Estimate(y)
    BY <1>5, SameEstimate DEF Alike
<1>8. KeyFindings(x) = KeyFindings(y)
    BY <1>5, SameFindings
<1>9. /\ sx.inputs = x /\ sy.inputs = y /\ sx.estimate = Estimate(x) /\ sy.estimate = Estimate(y)
      /\ sx.key_findings = KeyFindings(x) /\ sy.key_findings = KeyFindings(y)
    BY <1>1, <1>2 DEF Summarize
<1>10. sx.fire = sy.fire /\ sx.biggest = sy.biggest /\ OperatorExtras(sx) = OperatorExtras(sy)
    BY <1>1, <1>2, <1>5, <1>6, <1>7, ListsAreOfAlerts
<1>11. \A s \in SCHEMAS : SameTotals(sy.inputs.schemas[s], sx.inputs.schemas[s])
    BY <1>6, <1>9
<1>12. ASSUME NEW s \in SCHEMAS PROVE Glance(sx, s) = SchemaCard(sy, s)
    BY <1>11, SameGlance
<1>13. Why(x.rules, CORE) = Cells(y.rules) /\ OpenGaps(Why(x.rules, READINESS)) = GapCells(y.rules)
    BY <1>4, <1>5, <1>6, BarsAreCells
<1>14. /\ (\A s \in SCHEMAS : x.schemas[s].suppressed = 0) => HiddenAlerts(alerts) = {}
       /\ (\A s \in SCHEMAS : x.schemas[s].unseen = Null) => UnseenAlerts(alerts) = {}
    <2>1. PICK totals : totals = [s \in SCHEMAS |-> AdminSchemaTotals(s, Facts[r].daily, alerts)]
        OBVIOUS
    <2>2. \A s \in SCHEMAS : x.schemas[s] = totals[s]
        BY <1>3, <1>5, <2>1
    <2>3. /\ (\A s \in SCHEMAS : totals[s].suppressed = 0) => HiddenAlerts(alerts) = {}
          /\ (\A s \in SCHEMAS : totals[s].unseen = Null) => UnseenAlerts(alerts) = {}
        BY <1>3, <1>4, <2>1, NothingListed
    <2> QED
        BY <2>2, <2>3
<1>15. HiddenCard(sx) = HiddenBody(sy)
    <2>1. \A s \in SCHEMAS : sx.inputs.schemas[s].suppressed = sy.inputs.schemas[s].suppressed
        BY <1>11 DEF SameTotals
    <2> QED
        BY <1>5, <1>6, <1>9, <1>14, <2>1, SameHidden
<1>16. UnseenCard(sx) = UnseenBody(sy)
    <2>1. \A s \in SCHEMAS :
              /\ sx.inputs.schemas[s].unseen = sy.inputs.schemas[s].unseen
              /\ sx.inputs.schemas[s].unseen_alerts = sy.inputs.schemas[s].unseen_alerts
        BY <1>11 DEF SameTotals
    <2> QED
        BY <1>5, <1>6, <1>9, <1>14, <2>1, SameUnseen
<1>17. Progress(sx) = MigrationBody(Review(r), sy)
    <2>1. sx.estimate.rules_left = Cardinality(V1Rules(alerts))
        BY <1>5, <1>9, RulesAreLeft
    <2>2. "v1" \in SCHEMAS
        BY DEF SCHEMAS
    <2>3. x.schemas["v1"] = AdminSchemaTotals("v1", Facts[r].daily, alerts)
        BY <1>3, <1>5, <2>2
    <2>4. sx.inputs.schemas["v1"].distinct_alerts = Cardinality(AlertsOf(alerts, "v1"))
        BY <1>9, <2>3 DEF AdminSchemaTotals
    <2> QED
        BY <1>5, <1>6, <1>7, <1>9, <2>1, <2>4, SameProgress
<1>18. [q \in {"llm_flagged", "needs_review"} |->
           [s \in SCHEMAS |-> StateCount(sx.inputs.schemas[s], q)]] = AdvisoryRows(sy)
    BY <1>11, SameAdvice
<1>19. [s \in SCHEMAS |-> Glance(sx, s)] = [s \in SCHEMAS |-> SchemaCard(sy, s)]
    BY <1>12
<1>20. OperatorFigures(sx) = ReaderFigures(Review(r), sy)
    BY <1>8, <1>9, <1>10, <1>13, <1>15, <1>16, <1>17, <1>18, <1>19
       DEF OperatorFigures, ReaderFigures
<1> QED
    BY <1>6, <1>9, <1>10, <1>20

\* An operator and a reader always see the same figures of a published week, the
\* same projection and the same alerts, whatever else is published, measured or
\* filtered, although the two pages are written apart over the tables and over
\* the views (src/admin/summary.py, src/portal/summary_queries.py, tabs.py).
THEOREM SurfacesAlwaysAgree == Spec => []SurfacesAgree
<1>1. ASSUME LedgerIsSound PROVE SameFigures
    <2> SUFFICES ASSUME NEW t \in Teams, NEW r \in ledger[t]
                 PROVE  LET operator == Summarize(AdminSummary(r))
                            reader == Summarize(PortalSummary(r))
                        IN  /\ OperatorFigures(operator) = ReaderFigures(Review(r), reader)
                            /\ OperatorExtras(operator) = OperatorExtras(reader)
                            /\ operator.inputs.daily = reader.inputs.daily
        BY DEF SameFigures
    <2> QED
        BY <1>1, WeekIsToldTheSame
<1>2. PageInvariant => SurfacesAgree
    BY <1>1, ListsAreTheSame DEF PageInvariant, SurfacesAgree
<1> QED
    BY <1>2, PageInitially, PageKept, PTL DEF Spec
===============================================================================
