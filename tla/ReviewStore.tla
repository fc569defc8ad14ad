---- MODULE ReviewStore ----
\* The store's review tables under concurrent operators: the `runs` rows and
\* their content, the review_publications history and the finding_decisions,
\* changed by the transactions of
\*   publish_run, unpublish_run   src/review/publication.py
\*   record_decision              src/review/decisions.py
\*   persist_run                  src/db/repositories.py
\* Every transaction is split where another session can come between two of its
\* statements.  Row locks are not variables: which locks a session holds follows
\* from how far its transaction has got (LocksRunRow, LocksTeamWeeks, LocksWeek).
EXTENDS PublicationRules, Sequences, FiniteSets

CONSTANTS Teams, Runs,
          RunTeam,         \* runs.team_id, fixed by the run's identity
          RunStart,        \* runs.window_start
          RunEnd,          \* runs.window_end
          Sessions,        \* database sessions: CLI, admin app, weekly job
          NoRun,           \* what an idle session works on
          MaxPublications, \* bound: rows of review_publications
          MaxContents,     \* bound: times one run is persisted
          MaxDecisions     \* bound: distinct rows of finding_decisions

ASSUME StoreAssumption ==
    /\ RunTeam \in [Runs -> Teams]
    /\ RunStart \in [Runs -> Int]
    /\ RunEnd \in [Runs -> Int]
    /\ NoRun \notin Runs
    /\ MaxPublications \in Nat /\ MaxContents \in Nat /\ MaxDecisions \in Nat

VARIABLES
    content,       \* which execution's rows are stored for a run; 0: none are
    publications,  \* review_publications in publication_id order
    decisions,     \* finding_decisions, each with the content it was made on
    session        \* the transaction each session is in

vars == <<content, publications, decisions, session>>

----------------------------------------------------------------------------
\* State

Idle == [step |-> "idle", run |-> NoRun, replace |-> FALSE, allowGap |-> FALSE]

WeekOf(r) == [run |-> r, start |-> RunStart[r], end |-> RunEnd[r]]

Current == {i \in DOMAIN publications : ~publications[i].withdrawn}

IsPublished(r) == \E i \in Current : publications[i].run = r

CurrentRuns(t) == {r \in Runs : RunTeam[r] = t /\ IsPublished(r)}

\* SELECT ... FROM review_publications WHERE team_id = t AND withdrawn_at IS NULL
CurrentWeeks(t) == {WeekOf(r) : r \in CurrentRuns(t)}

----------------------------------------------------------------------------
\* Locks, held until the transaction ends

\* publish_run reads the run WITH (UPDLOCK).
LocksRunRow(s, r) ==
    session[s].step \in {"runLocked", "accepted"} /\ session[s].run = r

\* _current_weeks reads WITH (UPDLOCK, HOLDLOCK): a lock on the team's range.
LocksTeamWeeks(s, t) ==
    session[s].step = "accepted" /\ RunTeam[session[s].run] = t

\* unpublish_run reads the publication WITH (UPDLOCK).
LocksWeek(s, r) == session[s].step = "found" /\ session[s].run = r

RunRowFree(r) == \A s \in Sessions : ~LocksRunRow(s, r)

\* MUTANT: _current_weeks reads WITH (UPDLOCK) alone, which locks the rows that
\* are there and not the range a new week is inserted into.
RowsFreeOnly(t) ==
    \A s \in Sessions, r \in CurrentRuns(t) :
        ~(LocksTeamWeeks(s, t) \/ LocksWeek(s, r))

\* MUTANT: _current_weeks(lock=False).
NoRangeLock(t) == TRUE

\* A range lock waits for another range lock and for a lock on any of its rows.
TeamWeeksFree(t) ==
    \A s \in Sessions :
        /\ ~LocksTeamWeeks(s, t)
        /\ \A r \in Runs : RunTeam[r] = t => ~LocksWeek(s, r)

WeekFree(r) ==
    \A s \in Sessions : ~LocksTeamWeeks(s, RunTeam[r]) /\ ~LocksWeek(s, r)

----------------------------------------------------------------------------
\* Transactions

Goto(s, step, r, replace, allowGap) ==
    session' = [session EXCEPT ![s] =
        [step |-> step, run |-> r, replace |-> replace, allowGap |-> allowGap]]

End(s) == session' = [session EXCEPT ![s] = Idle]

Init ==
    /\ content = [r \in Runs |-> 0]
    /\ publications = <<>>
    /\ decisions = {}
    /\ session = [s \in Sessions |-> Idle]

\* publish_run: lock and read the run.  Every stored run is "completed": that is
\* the only status the pipeline writes, so reading it says that the run is there.
PublishBegin(s, r, replace, allowGap) ==
    /\ session[s].step = "idle"
    /\ Len(publications) < MaxPublications
    /\ RunRowFree(r)
    /\ content[r] # 0
    /\ Goto(s, "runLocked", r, replace, allowGap)
    /\ UNCHANGED <<content, publications, decisions>>

\* publish_run: lock the team's current weeks, read them and decide.
PublishCheck(s) ==
    /\ session[s].step = "runLocked"
    /\ LET r == session[s].run
       IN  /\ TeamWeeksFree(RunTeam[r])
           /\ IF Accepts(WeekOf(r), CurrentWeeks(RunTeam[r]),
                         session[s].replace, session[s].allowGap)
              THEN Goto(s, "accepted", r, session[s].replace, session[s].allowGap)
              ELSE End(s)
    /\ UNCHANGED <<content, publications, decisions>>

\* MUTANT: the row does not name the run.
UnnamedRow(r) == [run |-> NoRun, withdrawn |-> FALSE]

NewRow(r) == [run |-> r, withdrawn |-> FALSE]

\* The rows with the current publications of `runs` withdrawn.
Withdrawn(runs) ==
    [i \in DOMAIN publications |->
        IF publications[i].run \in runs
        THEN [publications[i] EXCEPT !.withdrawn = TRUE]
        ELSE publications[i]]

\* The replaced week is withdrawn and the new one inserted.
RowsAfterPublishing(r) ==
    LET replaced == {q \in CurrentRuns(RunTeam[r]) : SameWindow(WeekOf(q), WeekOf(r))}
    IN  Append(Withdrawn(replaced), NewRow(r))

PublishCommit(s) ==
    /\ session[s].step = "accepted"
    /\ publications' = RowsAfterPublishing(session[s].run)
    /\ End(s)
    /\ UNCHANGED <<content, decisions>>

\* unpublish_run: lock the run's current publication.
UnpublishFind(s, r) ==
    /\ session[s].step = "idle"
    /\ IsPublished(r)
    /\ WeekFree(r)
    /\ Goto(s, "found", r, FALSE, FALSE)
    /\ UNCHANGED <<content, publications, decisions>>

\* MUTANT: the publication is deleted, not marked.
RowsAfterDeleting(r) == SelectSeq(publications, LAMBDA p : p.run # r)

\* unpublish_run: the row is marked and kept.
RowsAfterUnpublishing(r) == Withdrawn({r})

UnpublishCommit(s) ==
    /\ session[s].step = "found"
    /\ publications' = RowsAfterUnpublishing(session[s].run)
    /\ End(s)
    /\ UNCHANGED <<content, decisions>>

\* persist_run: no current publication, read without a lock.
MayPersist(r) == ~IsPublished(r)

PersistCheck(s, r) ==
    /\ session[s].step = "idle"
    /\ content[r] < MaxContents
    /\ MayPersist(r)
    /\ Goto(s, "unpublishedSeen", r, FALSE, FALSE)
    /\ UNCHANGED <<content, publications, decisions>>

\* persist_run: replace the run's rows and commit.  Updating the runs row waits
\* for a publish_run that holds it; nothing else is asked.
PersistCommit(s) ==
    /\ session[s].step = "unpublishedSeen"
    /\ LET r == session[s].run
       IN  /\ RunRowFree(r)
           /\ content[r] < MaxContents
           /\ content' = [content EXCEPT ![r] = @ + 1]
    /\ End(s)
    /\ UNCHANGED <<publications, decisions>>

\* MUTANT: any stored run may be decided on.
DecideOnStored(r) == content[r] # 0

\* record_decision: the run has a current publication, read without a lock.
MayDecide(r) == IsPublished(r)

DecideCheck(s, r) ==
    /\ session[s].step = "idle"
    /\ Cardinality(decisions) < MaxDecisions
    /\ MayDecide(r)
    /\ Goto(s, "publishedSeen", r, FALSE, FALSE)
    /\ UNCHANGED <<content, publications, decisions>>

\* record_decision: read the alert's row and append the decision.
DecideCommit(s) ==
    /\ session[s].step = "publishedSeen"
    /\ decisions' = decisions \union
           {[run |-> session[s].run, on |-> content[session[s].run]]}
    /\ End(s)
    /\ UNCHANGED <<content, publications>>

\* Database.transaction rolls back on any error; a deadlock victim, a lost
\* connection and a killed process end the same way.  No statement's effect is
\* visible before the commit, so nothing but the session changes.
Rollback(s) ==
    /\ session[s].step # "idle"
    /\ End(s)
    /\ UNCHANGED <<content, publications, decisions>>

Begin(s, r) ==
    \/ \E replace, allowGap \in BOOLEAN : PublishBegin(s, r, replace, allowGap)
    \/ UnpublishFind(s, r)
    \/ PersistCheck(s, r)
    \/ DecideCheck(s, r)

Next ==
    \E s \in Sessions :
        \/ \E r \in Runs : Begin(s, r)
        \/ PublishCheck(s) \/ PublishCommit(s)
        \/ UnpublishCommit(s)
        \/ PersistCommit(s)
        \/ DecideCommit(s)
        \/ Rollback(s)

Spec == Init /\ [][Next]_vars

----------------------------------------------------------------------------
\* Properties

TypeOK ==
    /\ content \in [Runs -> Nat]
    /\ publications \in Seq([run : Runs, withdrawn : BOOLEAN])
    /\ decisions \subseteq [run : Runs, on : Nat]
    /\ session \in [Sessions ->
           [step : {"idle", "runLocked", "accepted", "found", "unpublishedSeen",
                    "publishedSeen"},
            run : Runs \union {NoRun}, replace : BOOLEAN, allowGap : BOOLEAN]]

\* "published weeks never overlap", whatever two operators do at once, and a run
\* has one current publication (ux_review_publications_current_run).
WeeksNeverOverlap ==
    \A i, j \in Current :
        /\ i # j
        /\ RunTeam[publications[i].run] = RunTeam[publications[j].run]
        => ~Overlaps(WeekOf(publications[i].run), WeekOf(publications[j].run))

\* "Withdrawn rows are kept": a publication readers once saw stays in the audit
\* trail with the run it showed, and a withdrawal is never undone.
HistoryIsKept ==
    [][\A i \in DOMAIN publications :
           /\ i \in DOMAIN publications'
           /\ publications'[i].run = publications[i].run
           /\ publications[i].withdrawn => publications'[i].withdrawn]_vars

\* A decision is made against a week readers have seen: its run has a
\* publication, current or withdrawn since.  record_decision takes no lock, so that
\* the week may also be withdrawn before the decision is written.
DecisionsRestOnPublications ==
    \A d \in decisions :
        \E i \in DOMAIN publications : publications[i].run = d.run

\* "A run that is currently published cannot be re-persisted underneath its
\* readers": while a publication is current its run's rows do not change.
PublishedContentIsStable ==
    [][\A i \in Current :
           /\ i \in DOMAIN publications'
           /\ ~publications'[i].withdrawn
           => content'[publications[i].run] = content[publications[i].run]]_vars

\* The refinement: what readers see is a WeekLedger, so the check made under the
\* locks still holds at the instant of the commit.
Ledger == INSTANCE WeekLedger WITH ledger <- [t \in Teams |-> CurrentRuns(t)]

LedgerIsAtomic == Ledger!LedgerSpec

====
