---- MODULE AssessmentBudget ----
\* What the audit journal promises of each batch, with no process in sight: a
\* cycle has a few slots, one is spent before each remote call, a verdict ends
\* the batch for good, and only an exhausted cycle is followed by another.
EXTENDS Naturals

CONSTANTS Batches, Verdicts, Slots

VARIABLE budget

Entry(cycle, spent, verdicts, exhausted) ==
    [cycle |-> cycle, spent |-> spent, verdicts |-> verdicts,
     exhausted |-> exhausted]

BudgetInit == budget = [b \in Batches |-> Entry(0, {}, {}, TRUE)]

Open(b) ==
    /\ budget[b].exhausted
    /\ budget' = [budget EXCEPT ![b] = Entry(@.cycle + 1, {}, {}, FALSE)]

\* The batch has a cycle to spend in, and no verdict.
Undecided(b) == ~budget[b].exhausted /\ budget[b].verdicts = {}

Spend(b, n) ==
    /\ Undecided(b)
    /\ n \notin budget[b].spent
    /\ budget' = [budget EXCEPT ![b] = Entry(@.cycle, @.spent \union {n}, {}, FALSE)]

Decide(b, v) ==
    /\ Undecided(b)
    /\ budget[b].spent # {}
    /\ budget' = [budget EXCEPT ![b] = Entry(@.cycle, @.spent, {v}, FALSE)]

GiveUp(b) ==
    /\ Undecided(b)
    /\ budget[b].spent = Slots
    /\ budget' = [budget EXCEPT ![b] = Entry(@.cycle, @.spent, {}, TRUE)]

BudgetNext ==
    \E b \in Batches :
        \/ Open(b) \/ GiveUp(b)
        \/ \E n \in Slots : Spend(b, n)
        \/ \E v \in Verdicts : Decide(b, v)

BudgetSpec == BudgetInit /\ [][BudgetNext]_budget

====
