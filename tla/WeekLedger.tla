---- MODULE WeekLedger ----
\* What publication promises, with no transaction in sight: each team has a
\* ledger of published runs, and publishing, replacing and withdrawing are single
\* instants at which the rule of PublicationRules holds of the ledger as it is.
EXTENDS PublicationRules

CONSTANTS Teams, Runs,
          RunTeam,       \* runs.team_id of each run
          RunStart,      \* runs.window_start
          RunEnd         \* runs.window_end

VARIABLE ledger          \* the runs readers see, for each team

WeekOf(r) == [run |-> r, start |-> RunStart[r], end |-> RunEnd[r]]

Weeks(t) == {WeekOf(r) : r \in ledger[t]}

LedgerInit == ledger = [t \in Teams |-> {}]

\* A publication takes the place of the week it replaces, if it replaces one.
Publish(r, replace, allowGap) ==
    LET t == RunTeam[r]
    IN  /\ ledger' = [ledger EXCEPT ![t] =
               {q \in @ : ~SameWindow(WeekOf(q), WeekOf(r))} \union {r}]
        /\ Accepts(WeekOf(r), Weeks(t), replace, allowGap)

Withdraw(r) ==
    LET t == RunTeam[r]
    IN  /\ r \in ledger[t]
        /\ ledger' = [ledger EXCEPT ![t] = @ \ {r}]

\* Both operations change the ledger; said first, it spares TLC the search for
\* the operation behind a step that does not.
LedgerNext ==
    /\ ledger' # ledger
    /\ \E r \in Runs :
           \/ \E replace, allowGap \in BOOLEAN : Publish(r, replace, allowGap)
           \/ Withdraw(r)

LedgerSpec == LedgerInit /\ [][LedgerNext]_ledger

====
