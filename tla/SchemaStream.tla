----------------------------- MODULE SchemaStream -----------------------------
(***************************************************************************)
(* The same figures from one pass over the pages, with no row kept:        *)
(* SchemaAccumulator of src/run/streaming.py.  Rows are counted from 1, so *)
(* an ordinal is a position of the scan.                                   *)
(***************************************************************************)
EXTENDS FiringStream, PanelLeaves, Bags

NoAnalysis(panels) ==
    [row_count |-> 0, last_at |-> Null, identities |-> <<>>, scopes |-> <<>>,
     vis |-> NoVisibility(panels)]

EmptyDay == [count |-> 0, rules |-> EmptyBag, signatures |-> <<>>]
EmptyScopes == [count |-> 0, scopes |-> {}, nodes |-> {}]

At(f, x, default) == IF x \in DOMAIN f THEN f[x] ELSE default
Put(f, x, value) == [y \in DOMAIN f \cup {x} |-> IF y = x THEN value ELSE f[y]]

\* A mutant: of equally late candidates the last one read is kept.
LastRead(row, rep) == row.at >= rep.at
\* Among equally late candidates the least document hash is kept.
Supersedes(row, rep) == row.at > rep.at \/ (row.at = rep.at /\ row.doc < rep.doc)

\* A row leaves behind its mask, whether a core rule holds, and whether it is hidden.
AddDay(day, panels, row, ordinal) ==
    LET signature == <<Mask(panels, row), CoreRules(row) # {}, IsHidden(panels, row)>>
        seen == At(day.signatures, signature, [count |-> 0, first |-> ordinal])
    IN  [count |-> day.count + 1,
         rules |-> day.rules (+) SetToBag(CoreRules(row) \cup ReadinessRules(row)),
         signatures |-> Put(day.signatures, signature, [seen EXCEPT !.count = @ + 1])]

Record(samples, rule, ordinal, count) ==
    LET old == At(samples, rule, [matched_rows |-> 0, sample |-> ordinal])
    IN  Put(samples, rule, [old EXCEPT !.matched_rows = @ + count])

RecordAll(samples, rules, ordinal) ==
    [r \in DOMAIN samples \cup rules |->
        IF r \in rules THEN Record(samples, r, ordinal, 1)[r] ELSE samples[r]]

AddIdentity(idn, panels, row, ordinal) ==
    [representative |-> IF Supersedes(row, idn.representative) THEN row ELSE idn.representative,
     first_seen |-> idn.first_seen,
     first_ordinal |-> idn.first_ordinal,
     days |-> Put(idn.days, row.date, AddDay(At(idn.days, row.date, EmptyDay), panels, row, ordinal)),
     samples |-> RecordAll(idn.samples, CoreRules(row) \cup ReadinessRules(row), ordinal),
     firing |-> AddFiring(idn.firing, row)]

NewIdentity(row, ordinal) ==
    [representative |-> row, first_seen |-> row.at, first_ordinal |-> ordinal,
     days |-> <<>>, samples |-> <<>>, firing |-> NoFiring]

AddScope(day, row) ==
    [count |-> day.count + 1,
     scopes |-> day.scopes \cup {Scope(row)},
     nodes |-> day.nodes \cup (IF Blank(row.node_name) THEN {}
                               ELSE {<<Scope(row), row.node_name>>})]

AddRow(acc, panels, row) ==
    LET ordinal == acc.row_count + 1
        idn == At(acc.identities, row.identity, NewIdentity(row, ordinal))
    IN  [row_count |-> ordinal,
         last_at |-> row.at,
         identities |-> Put(acc.identities, row.identity, AddIdentity(idn, panels, row, ordinal)),
         scopes |-> Put(acc.scopes, row.date,
                        AddScope(At(acc.scopes, row.date, EmptyScopes), row)),
         vis |-> AddVisibility(panels, acc.vis, row)]

-------------------------------------------------------------------------------
\* finish(): only now is it known which leaves are active and which identities fire.
SumOf(f, S) == FoldFunctionOnSet(+, 0, f, S)
RowCount(idn) == SumOf([d \in DOMAIN idn.days |-> idn.days[d].count], DOMAIN idn.days)

\* The rows of a day whose signature satisfies a test.
CountWhere(day, Test(_)) ==
    SumOf([s \in DOMAIN day.signatures |-> day.signatures[s].count],
          {s \in DOMAIN day.signatures : Test(s)})

FinishDay(day, panels, active, pattern) ==
    LET Gone(s) == IsSuppressed(panels, active, s[1])
        suppressed == CountWhere(day, Gone)
        withR6 == IF pattern = Null THEN day.rules ELSE Put(day.rules, "R6", day.count)
    IN  [count |-> day.count,
         rules |-> IF suppressed = 0 THEN withR6 ELSE Put(withR6, "R5", suppressed),
         suppressed |-> suppressed,
         flagged |-> CountWhere(day, LAMBDA s : s[2] \/ Gone(s) \/ pattern # Null),
         unseen |-> CountWhere(day, LAMBDA s : s[3] /\ ~Gone(s))]

\* The ordinals at which a suppressed signature was first met.
SuppressedFirsts(idn, panels, active) ==
    UNION {{idn.days[d].signatures[s].first :
               s \in {t \in DOMAIN idn.days[d].signatures : IsSuppressed(panels, active, t[1])}} :
           d \in DOMAIN idn.days}

FinishIdentity(idn, panels, active) ==
    LET facts == FinishFiring(idn.firing, idn.representative.provider)
        days == [d \in DOMAIN idn.days |-> FinishDay(idn.days[d], panels, active, facts.pattern)]
        firsts == SuppressedFirsts(idn, panels, active)
        withR6 == IF facts.pattern = Null THEN idn.samples
                  ELSE Record(idn.samples, "R6", idn.first_ordinal, RowCount(idn))
        samples == IF firsts = {} THEN withR6
                   ELSE Record(withR6, "R5", Min(firsts),
                               SumOf([d \in DOMAIN days |-> days[d].suppressed], DOMAIN days))
    IN  [days |-> days,
         report |->
            [representative |-> idn.representative,
             row_count |-> RowCount(idn),
             first_seen |-> idn.first_seen,
             last_seen |-> idn.representative.at,
             core_rule_ids |-> DOMAIN samples \cap CORE,
             readiness_rule_ids |-> ReadinessRules(idn.representative),
             evidence |-> samples,
             firing |-> facts,
             unseen |-> IF panels = <<>> THEN Null ELSE \E d \in DOMAIN days : days[d].unseen > 0]]

Finish(acc, panels) ==
    LET active == ActiveMask(acc.vis)
    IN  [identities |-> [id \in DOMAIN acc.identities |->
                            FinishIdentity(acc.identities[id], panels, active)],
         scopes |-> acc.scopes,
         row_count |-> acc.row_count,
         unmeasured_leaves |-> UnmeasuredLeaves(panels, active),
         unseen_unmeasured |-> UnseenUnmeasured(panels)]

-------------------------------------------------------------------------------
\* The daily figures of a finished analysis.
PresentOn(fin, d) == {id \in DOMAIN fin.identities : d \in DOMAIN fin.identities[id].days}
DayOf(fin, id, d) == fin.identities[id].days[d]
DaySum(fin, d, f(_)) == SumOf([id \in PresentOn(fin, d) |-> f(DayOf(fin, id, d))], PresentOn(fin, d))

StreamVolume(fin, d) ==
    LET day == At(fin.scopes, d, EmptyScopes)
        keys == Cardinality(PresentOn(fin, d))
    IN  [alerts |-> day.count,
         distinct_alerts |-> keys,
         node_name_numerator |-> Cardinality(day.nodes),
         node_name_denominator |-> Cardinality({n[1] : n \in day.nodes}),
         key_inflation_numerator |-> keys,
         key_inflation_denominator |-> Cardinality(day.scopes)]

StreamFlagged(fin, d) ==
    <<DaySum(fin, d, LAMBDA day : day.flagged),
      Cardinality({id \in PresentOn(fin, d) : DayOf(fin, id, d).flagged > 0})>>

StreamRules(fin, d) ==
    [r \in UNION {DOMAIN DayOf(fin, id, d).rules : id \in PresentOn(fin, d)} |->
        LET matched == {id \in PresentOn(fin, d) : r \in DOMAIN DayOf(fin, id, d).rules}
        IN  <<SumOf([id \in matched |-> DayOf(fin, id, d).rules[r]], matched),
              Cardinality(matched)>>]
===============================================================================
