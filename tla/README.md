# Verification of alerts-bi

TLA+ models of alerts-bi, the TLC runs that check them on small instances, and
TLAPS proofs of the properties that matter most. `PROJECT.json` lists the runs,
the mutants of the models that show each property can fail, the source lines
behind every definition, the hazards, the findings and the theorems.

alerts-bi reads a team's alert events of one week from Elasticsearch, judges them
by rules and by a language model, stores the result as a *run* in SQL Server and,
when an operator or the weekly schedule publishes it, shows it to readers.

## Components

Paths are relative to `src/` of the repository.

| component | state | operations | what makes it correct | modelled in |
|---|---|---|---|---|
| publication (`review/publication.py`) | `review_publications`: rows never deleted, current or withdrawn | `publish_run`, `unpublish_run`, `check_publication` | a team's current weeks never overlap and leave no gap nobody accepted; the history is complete | PublicationRules, WeekLedger, ReviewStore |
| decisions (`review/decisions.py`) | `finding_decisions`, append only | `record_decision` | a decision is made on a week readers have seen | ReviewStore |
| run store (`db/repositories.py`, `db/connection.py`) | `runs` and its children, `llm_verdicts` | `persist_run`, `insert_verdict_if_absent`, `find_verdicts`, `Database.transaction` | a run is stored whole, of one attempt, and not while it is published; a stored verdict never changes | ReviewStore, LlmJournal, RunWriters |
| weekly schedule (`weekly/`) | `weekly_review_log`, an application lock | `plan_weeks`, `run_weekly`, `run_health` | only healthy weeks are published, or ones held long enough; in order; every week in the end | WeeklySchedule |
| model assessment (`llm/assess.py`, `db/llm_audit.py`) | scopes, cycles (`llm_review_batches`), attempts; a session lock | `assess_alerts`, `prepare`, `start`, `finish`, `complete_batch` | an attempt is one call; a restart resumes; evidence is not rewritten | AssessmentBudget, LlmJournal |
| batching and responses (`llm/grouping.py`, `request.py`, `response.py`) | none | `build_batches`, `validate_response` | batches partition the alerts; a verdict goes to the alert it was given for | LlmExchange |
| run pipeline (`run/`) | accumulators in memory | `execute_run`, `SchemaAccumulator` | one pass over pages equals the definitions over all rows | RunPipeline, SchemaStream, RuleEngine |
| acceptance check (`run/verify.py`) | none | `verify_acceptance` | a stored run that differs from its manifest in what the manifest lists is refused | Acceptance |
| Elasticsearch reader (`es/`) | a point in time and a cursor | `scan_schema` | every row once, or an error; nothing is left open | RunPipeline |
| rules (`rules/`) | firing state per identity | rules R1 to R10, `firing_facts`, `FiringAccumulator` | streaming and batch agree, rows of one instant included | AlertRules, FiringFacts, FiringStream |
| suppression (`suppression/`) | match counts per leaf | the panel parser, `add`, `finish`, `suppressed` | what it concludes from a panel's text is true of the panel; the blast-radius guard sees the whole denominator | PanelSql, PanelMeaning, PanelLeaves |
| domain (`domain/`) | none | `build_run_window`, normalising, metrics | buckets partition the window | RunWindow, AlertRules, RuleEngine |
| migrations (`db/migrate.py`, `db/ledger.py`, `db/migrations/`) | `alembic_version`, `schema_migrations` | `migrate`, `apply_sql`, `verify_ledger` | each migration once, also across failures; drift is refused | MigrationLedger |
| API (`api/`) | `RunGate` | `start_run` | one run at a time in a process; the gate is always released | RunWriters, Rollout |
| portal, insights, admin pages (`portal/`, `insights/`, `admin/summary.py`) | none | queries over current publications, figures, lists | readers see only published weeks, and the figures operators see | WeekFacts, TeamSummary, SummaryPages, PortalPages |
| registry (`registry.py`) | none | `validate_registry`, `select_team` | an operator belongs to one team | TeamRegistry |
| admin app, CLI (`admin/`, `cli.py`) | none of their own | call the operations above | - | sessions of the modules above |
| prompt and evaluation, reader role, configuration, report layout, hashing, logging | none | loading, rendering | - | not modelled |

### Interactions

The components meet in SQL Server. The CLI, the admin app, the API and the weekly
job are independent processes that open their own sessions. They are kept apart by
transactions with the locks their statements ask for, by the application lock
`alerts-bi-weekly` that one `weekly` invocation holds, by the application lock
`llm-review:<run>` that one assessment of a run holds, and, inside one API process,
by `RunGate`. Nothing keeps `run` by hand apart from the schedule. Every rollout
runs `db setup` in an init container of each pod, while pods of the old image serve.

Inside one process, `execute_run` reads the rows of a team page by page into an
accumulator, asks the model about what no rule has flagged, and gives the
result to `persist_run`; the portal and the admin app read what it stored.

### What is hard here

* Checks made on one read and acted on later, in the same transaction without a
  lock (`persist_run`, `record_decision`) or in another transaction
  (`run_health` and `publish_run`; `find_verdicts` and `persist_run`).
* A job that is killed at any point, whose log is written at the end and whose next
  invocation must carry on.
* A lock that belongs to a database session, held across model calls that take
  minutes; the session may end while the process lives.
* Calls that may have been performed although their answer is lost.
* Time: holding for three days, retention, weeks on and off the Monday boundary.
* Figures of a whole week computed in one pass that keeps no row, from pages that
  split instants and that a changing index may spoil.
* Two processes that delete and insert the same rows, where a `DELETE` that finds
  nothing locks nothing; reports and pages read in several statements.
* Pods of two images that migrate one database, with failures between the batches
  of a revision.
* Conclusions drawn from text: SQL of panels, answers of a model.
* The same figures from two sets of queries, for operators and for readers.

`PROJECT.json` lists each hazard at its line, with the properties that watch it.

## Modules

The modules form five groups. An arrow reads "is used by".

    PublicationRules -> WeekLedger -> ReviewStore, WeeklySchedule      publication
    AssessmentBudget -> LlmJournal                                     assessment
    RunWindow -> AlertRules -> FiringFacts -> FiringStream,
      PanelLeaves, RuleEngine, SchemaStream -> RunPipeline             one run
    MigrationLedger, RunWriters -> Rollout                             one store, many pods
    LlmExchange, TeamRegistry, Acceptance,
      WeekFacts -> TeamSummary -> SummaryPages -> PortalPages
      -> ReviewDesk                                                    reading and telling
    PanelSql -> PanelMeaning, ReviewDesk -> PanelDesk                  reading panels

`MC*` modules give the constants their values for TLC; `*_proofs` modules hold the
theorems of the module they are named after. `Rollout_proofs` holds those of
`RunWriters` and `MigrationLedger` as well, as statements about the composition;
`PortalPages_proofs` extends `ReviewDesk_proofs` with what pages tell of weeks.

### PublicationRules

`check_publication` as a predicate, `Accepts(candidate, current, replace, allowGap)`,
over records `[run, start, end]`. `WeekLedger` and `ReviewStore` both use it, so the
decision is stated once. `Overlaps` compares half-open windows, which is the code's
`min(ends) - max(starts) > 0` for windows of positive length (a check constraint of
the table).

### WeekLedger (abstract)

What publication promises: one set of published runs for each team, and single
instants at which `Publish` and `Withdraw` happen, the rule holding of the set as it
is at that instant. No session, transaction or lock appears.

### ReviewStore

The tables and the sessions that change them. Each transaction is split where
another session's statement can come in between:

| code | actions |
|---|---|
| `publish_run` | `PublishBegin` (run row `UPDLOCK`), `PublishCheck` (`UPDLOCK, HOLDLOCK` on the team's weeks, then the rule), `PublishCommit` |
| `unpublish_run` | `UnpublishFind` (`UPDLOCK` on the row), `UnpublishCommit` |
| `persist_run` | `PersistCheck` (no lock), `PersistCommit` |
| `record_decision` | `DecideCheck` (no lock), `DecideCommit` |
| error, deadlock victim, lost connection, killed process | `Rollback` |

The database runs at READ COMMITTED: a read sees committed rows and takes no lock
that lasts, unless its hint says so. Locks are not variables. Which locks a session
has follows from how far its transaction has got. `UPDATE` or `INSERT` and the commit
after it are one step: until the commit a reader of the changed rows would wait.
`content` counts how often a run was persisted and stands for its rows. Every stored
run is `completed`, the only status the pipeline writes.

### WeeklySchedule

One team's schedule. `ledger` is the team's ledger, changed through `WeekLedger`
(which `ReviewStore` implements), `stored` says of each week whether a run is stored
and whether the model assessed all of it, `firstHeld` is what `_first_held` would
answer, and `job` is the invocation that has the schedule lock: its clock, the weeks
still due, `allow_gap`, `publishing`, and the held weeks it has yet to log. Time is a
number of ticks, tick 0 a Monday; a week is named by its end.

| code | actions |
|---|---|
| `run_weekly`, `plan_weeks` | `Start`, with `Due`, `Expired`, `Blocked` |
| `execute_run`, `persist_run`, rendering | `RunWeek`, `RunWeekFails` |
| `run_health` and what follows | `Hold`, `Keep` (outcome `stored`), `Pass` |
| `publish_run` | `PublishWeek`, `PublishWeekFails` |
| `_log` | `LogHeld`, `Release` |
| process killed, deadline, exception | `Crash` |
| operators | `OperatorRun`, `OperatorPublish`, `OperatorWithdraw` |

The outcomes other than `held` are written to the log and read by nobody, so only
`held` rows are kept. Other teams are separate: an exception in one is caught.
A week has one run here; several runs of one window, and `--replace`, are in
`ReviewStore`.

### AssessmentBudget (abstract)

What the journal promises of a batch: attempts are slots of the newest cycle, one is
spent before each call, a verdict ends the batch for good, and only a cycle whose
slots are all spent and failed is followed by another.

### LlmJournal

The processes that assess one run and the journal they share. A batch stands for its
alerts, which share its fate; the failure categories are one value, `failed`.

| code | actions |
|---|---|
| `execute_run` up to the assessment | `Begin` (documents and stored verdicts are read before the lock is asked for) |
| `locked` | `Acquire`, `Refused`, `Release` |
| `configure` | `Configure`, `ConfigureRefused` (prompt, schema and settings are one value) |
| `prepare` | `PrepareRefused`, `OpenCycle`, `ResumeCycle` |
| `_attempt_batch` | `StartAttempt`, `Interrupt`, `ReplayFailure`, `ReplaySuccess`, `Call`, `FinishFailure`, `FinishSuccess`, `Close` |
| session lost during a call | `LoseConnection`, `OrphanCall` |
| `persist_run` | `Persist`, `PersistRefused` (one instant; `ReviewStore` has its steps) |
| killed, or any exception | `Crash` |
| everyone else | `Publish`, `Withdraw`, `OtherRunPersists`, `SourceChanges` |

Losing the session at any other point ends the invocation at its next statement and
is `Crash`. The test of the publication and the lock are one instant: a process that
is refused in between has the effect of `Crash`.

### RunWindow, AlertRules

An instant is a tick and a day `DAY` ticks. `RunWindow` is `build_run_window`: the
half-open window and its daily buckets, whose bounds are clipped at both ends.
`AlertRules` is one event: `normalize_row` with severity and identity, the
rules one event decides (R1 to R4, R7 and R8 to R10; R5 and R6 need more rows), whether
a team can complete phase 2, and its phase. Text is taken normalised, and a text is a
member of a small set: what a rule tests is kept (membership in its word list, a blank,
a value that is no string), the words are not.

### FiringFacts, FiringStream

R6 twice. `FiringFacts` is `rules/firing.py`: order all the rows of an identity, cut
them into episodes, look for flapping, rate and stuck patterns. `FiringStream` is the
`FiringAccumulator` of `rules/firing_stream.py`, a fold that keeps no row: the rows of
an instant stay pending until a later one shows that the instant is complete. The order
of the definition is the one of `sorted`, ties included (`Precedes`, `Ordered`); the
deque of cycle ends is the set of their instants, which are distinct.

### PanelLeaves, RuleEngine, SchemaStream

`PanelLeaves` says what parsed panels hide, over all rows at once
(`evaluate_suppression`) and in one pass (`suppression/stream.py`), where a leaf that
hides too large a share is disabled, which is known only after the last row.
`RuleEngine` is what a run reports by definition: engine, daily metrics, representative,
the rows of a finding. `SchemaStream` is the `SchemaAccumulator` that arrives at them in
one pass. No definition of one is built on the other; `RunPipeline` compares them.

### RunPipeline

One `execute_run` over both schemas.

| code | actions |
|---|---|
| `scan_schema`: open, search, yield, `finally` | `SkipSchema`, `OpenPit`, `SearchPage`, `SearchFails`, `EndPage`, `ClosePit` |
| `SchemaAccumulator.add` per row, its refusals | `ConsumeRow` |
| row count against the exact total | `Reconcile` |
| `assess_alerts` (one answer for each alert), payloads by day | `Assess`, `Build` |
| the cluster | `ExpirePit`, and in `SearchPage` a page that lost, repeated or disordered a row; in `SearchFails` an error or a partial answer |

The query (operator, time range, sort) is the feed: what the cluster has for the team,
in order. `input.faults` bounds how many pages may be wrong.

### MigrationLedger

`db setup` of each pod.

| code | actions |
|---|---|
| `migrate_database`: look, `CREATE DATABASE` | `FindDatabase`, `CreateDatabase` |
| `migrate`: ledger before and after | `ReadBefore`, `ReadAfter` |
| `env.py`: `verify_ledger`, then Alembic's plan, then the commit | `Verify`, `Plan`, `CommitUpgrade` |
| `apply_sql`: GO batches, then the ledger row; Alembic's version | `RunBatch`, `RecordRevision`, `MoveVersion` |
| any error; process killed | `Fail` in each of these; `Crash` |
| Kubernetes | `Restart` of the init container, `RollOut` of another image |

An image is a function from revisions to files, `[text, down, batches]`; a batch makes
one object, or makes it again (`CREATE OR ALTER`). Database, ledger, version and objects
are `committed`; what an open transaction has written is `work`, and its locks follow from
it. Checking the ledger begins the transaction that everything else of the upgrade
belongs to (see Findings). The check precedes Alembic's read of the version, so the two
may see different states of the database; the model has both reads.

### RunWriters

Sessions that execute, persist and report runs, one action per statement:

| code | actions |
|---|---|
| `start_run`, `_command_run`: gate, `execute_run` | `StartRun`, `Execute`, `ExecuteFails` |
| `persist_run` | `DeleteMetrics`, `DeleteFinding`, `SeekRun`, `InsertRun`, `UpdateRun`, `InsertMetrics`, `InsertFinding` |
| `insert_verdict_if_absent` | `SeekVerdict`, `InsertVerdict` |
| commit; error, deadlock victim | `Commit`, `RollBack` |
| `build_run_outputs`, `get_latest_run` | `GetRun`, `ReadRun`, `ReadMetrics`, `ReadFindings`, `Answer` |

A row is `[val, by, new]`: the attempt it is of, the session that has it locked and what
that session has made of it. A `DELETE` that finds nothing locks nothing, which is why
two first attempts at a run can both be past it; the keys of `daily_metrics` are fixed by
the run id and those of findings are not, and this is what the argument rests on.

### Rollout

`MigrationLedger` and `RunWriters` in one database: a session's pod must have ended its
setup, DDL waits for transactions on the tables and they for DDL, and `Replace` ends
the sessions of a pod at any statement, its gate with them. A *deployment* chooses the
pods, images and sessions of an initial state.

### PanelSql, PanelMeaning

`PanelSql` is the parser of a WHERE clause over the lexer's tokens: a recursive descent
with `NOT`, parentheses, `IN`, `LIKE`, `BETWEEN`, macros, and the ways in which it gives up;
the classes of fields, the template variables, the reading of a leaf below `OR` and
`NOT`, and the marks `highlight_panel_sql` puts on the operators' page.
`PanelMeaning` has no counterpart in the code. It writes a query from a tree with as few
parentheses as SQL allows, evaluates the tree in three-valued logic, and says what
may be concluded from a panel.

### LlmExchange

`build_batches` (groups, cap, even sizes), `build_request` (the fields all documents of a
batch share are sent once), `validate_response` and the outcome of each identity.

### WeekFacts, TeamSummary, SummaryPages, PortalPages

What a stored week says, read twice. `WeekFacts` has the operators' statements on the
run's tables and the readers' views of published weeks, which end in the same record;
`TeamSummary` is the summary, estimate and key findings made of it; `SummaryPages` the
figures each surface puts on its page; `PortalPages` the filters, orders and pages of the two
alert lists, and a portal request as the sequence of statements it runs (`Open`,
`ReadReviews`, `ReadNext`, `Finish`, `Close`) while operators change the ledger (`Move`,
the `Publish` and `Withdraw` of `WeekLedger`, which `ReviewStore` implements).

### Acceptance, TeamRegistry

`Acceptance` is `verify.py`, a function of a stored run and a manifest, and how the fixture's
manifest is written of a run (`ManifestOf`). `Failures` has the comparisons of phase,
readiness, state counts, identities, totals, days, rule counts, suppression (only where the
manifest has the block, the nodes as a sorted list), unseen sums, single alerts, CSV lines and
the window. Left out, all of them further comparisons: the number and sizes of the model's
batches (`verify.py:383-390`), the daily columns that are summed and compared as the modelled
ones are (`flagged_by_llm`, the numerators and denominators, the distinct counts by state) and
the quotients of them, the R6 facts but the pattern and `open_since` (`clear_count`,
`max_clear_cycles_24h`, `max_episode_firing_rows`), and whether the files exist.
`TeamRegistry` has the rules that span entries of the registry, and the choice and snapshot of
an entry.

### ReviewDesk, PanelDesk

One specification for these functions. A *desk* is given in the initial state: a panel,
an exchange of batches with the model (`Ask`, `Answered`), a run and its manifest, a
registry, or the weeks that operators change and readers read (`Reading`, `Operating`).
What a panel's desk promises is in `PanelDesk`, which adds the recursive parser; the
provers cannot work in a module that reaches a recursive operator, and so they can in
`ReviewDesk`.

## Runs

| run | shows | bounds |
|---|---|---|
| `review_store` | types, `WeeksNeverOverlap`, `HistoryIsKept`, `DecisionsRestOnPublications`, and the refinement `LedgerIsAtomic` | two sessions, four runs of one team: two adjacent weeks, a second run of one of them, a run half a week out of line; three publications, one persist per run, one decision |
| `review_store_repersist` | violation of `PublishedContentIsStable` | the same with runs persisted twice |
| `weekly_schedule` | types, `UnhealthyIsHeldFirst`, and the liveness property `OverdueIsPublished` | week 3 ticks, held 2, retention 6, six ticks |
| `weekly_schedule_operators` | `HolesAreExpired` | week 2 ticks, held 1, retention 4, five ticks, a window off the boundary, all operator acts |
| `weekly_schedule_new_team` | violation of `HeldWeeksComeFirst` | nothing published at first |
| `weekly_schedule_rerun` | violation of `UnhealthyIsHeldFirst` | operators who run weeks |
| `llm_journal` | types, `SlotCalledOnce`, `BytesAreRecorded`, `OutcomesRestOnEvidence`, `EvidenceIsKept`, and the refinement `BudgetIsKept` | two processes, one batch, two attempts, two cycles, two settings, two serializations, one verdict |
| `llm_journal_verdicts` | violation of `SameAlertSameVerdict` | one attempt, one cycle, two verdicts |
| `run_pipeline` | types, `FiringIsAsDefined`, `SuppressionIsAsDefined`, `DaysAreAsDefined`, `FindingsAreAsDefined`, `StatesAddUp`, `PitsAreClosed`, and the liveness property `RunEnds` | a day of 3 ticks, a window of 2 days that begins at or after midnight, pages of 2 rows, feeds of up to 4 rows in time order, at most one faulty page |
| `rollout` | types, `SomeVersionDescribesIt`, `DoneMeansHead`, `LedgerOnlyGrows`, `RowsAreOfOneAttempt`, `VerdictsAreStored`, `ReportsAreWhole`, `AnswersAreTheirOwn`, `GateKeepsOrder`, and the liveness properties `SetupsEnd`, `GateIsReleased` | two pods, four images of up to two revisions, three writing sessions and a reading one, two runs that store one verdict, two attempts (one while images change), one crash, one rollout |
| `rollout_failure` | violation of `FailureKeepsRevisions` | two pods and their setups |
| `review_desk` | `PanelReadingIsSound`, `AnswersBind`, `SurfacesAgree`, `AcceptanceIsExact`, `RegistryIsUnambiguous`, `PagesAreOfPublishedWeeks` | trees of up to three of twenty predicates, over eight rows; up to nine alerts in batches of up to four; seven runs of two teams, pages of two alerts, one act of an operator during a page |

Why the bounds are enough.

* *Transactions.* A race needs two sessions, and two of them can be at every pair of
  statements; three publications are a publication, its replacement and an
  overlapping one.
* *Schedule.* Two whole weeks are covered, so that a hole can appear, be overdue and
  expire, with the order HOLD < week < RETENTION of the real constants where they
  matter together.
* *Journal.* Two processes and two attempts let one process die or be cut off in each
  attempt and the other resume; a second cycle follows an exhausted first. Batches
  of a run are dealt with in order and share nothing but the lock.
* *Pipeline.* Four rows on pages of two put an instant on two pages and make a full last
  page, an empty page after it and an empty feed; four are an episode that opens,
  clears, reopens and clears, which is what the thresholds of R6 are set to notice. A window
  that begins after midnight has a bucket more than one that begins at midnight, and
  `DaysAreAsDefined` compares the covered time of each with the ticks that fall in it. The
  feeds come in three families: an identity that fires and clears; rows with and
  without nodes under one or two panels, among them leaves on both sides of the share
  that disables them, a panel that cannot be parsed, and identity leaves of one panel
  and of several; rows that single rules hold of, in both schemas, with a fault.
* *Rollout.* Images are an old one, its successor, a fork of it and one whose first
  revision was edited. Four deployments keep apart what does not interact: four
  images that race with nobody served; a request that is served while its own pod or
  the other goes from the old image to the new; two requests and a command that write
  side by side; a command that writes while a report is read. Two attempts suffice,
  for a mixture is of two. The theorems below have no such bounds.
* *Desk.* Trees of three predicates have every pair of `NOT`, `AND` and `OR` below one
  another and every way in which they need or can do without parentheses. The weeks
  include a replaced run, a gap, an empty week, one whose snapshot cannot be read, and
  weeks before and after a change of the panels or of the effort per rule.

Deadlock is not checked where bounded publications, clocks, attempts and crashes stop a
model, or where its subject is a function. In `run_pipeline` it is: a run that has
ended has `Stopped`, and nothing else may stop.

### Findings

* **A published run can be re-persisted** (`review_store_repersist`). `persist_run`
  reads the publication without a lock and writes later; a publication committed in
  between does not stop it. `UPDLOCK` on the run row, as `publish_run` has it, would.
* **A new team's held week is forgotten** (`weekly_schedule_new_team`). While nothing
  is published only the latest week is due.
* **A week can be judged healthy and published unhealthy** (`weekly_schedule_rerun`).
  The judgement and the publication are two transactions, and `run` by hand takes no
  schedule lock. `HeldFirst` proves that among single invocations this is the only way. Two
  invocations at once are not modelled: the lock of the schedule is a session's, on a connection
  of its own (`runner.py:100-117`), and an invocation that lost it would go on beside the next.
* **Two runs can report different verdicts of one alert** (`llm_journal_verdicts`).
  The verdict table keeps the first; the run that lost keeps its own answer.
* **A failing revision takes the ones before it with it** (`rollout_failure`). `env.py`
  says that each migration gets its own transaction. But the check of the ledger has
  begun one on the same connection, Alembic does not touch a transaction it finds, and
  the one commit comes at the end. Nothing is left half applied, which is what
  `SomeVersionDescribesIt` shows; the upgrade starts over, which the comment denies.

### Observations

Met while modelling; but for the first, no text of the repository is refuted by them, or
they are below what the models tell apart.

* **A bucket may be missing in an accepted run.** `verify.py:280-281` says "Buckets the manifest
  does not mention must exist and be entirely zero: a missing day would otherwise pass
  unnoticed", and the manifest (`test/fixtures/expected-results.json:15`) "Buckets not listed
  under `daily` must be present and entirely zero." The code goes through the buckets that are
  there and compares `alerts` and `flagged_by_rule` of them; `bucket_count` counts those of v1.
  So a run without a zero bucket of v2, if it is not the only one, is accepted, and a column only
  compared for listed days may differ in one that is not listed. This does refute those
  texts. It is the theorem `MissingBucketPasses`, for every run of alerts with distinct
  keys and the manifest made of it, and has no run of its own; `AcceptanceIsExact` says what
  the check does enforce.
* A leaf that narrows a panel to an identity compares text exactly (`evaluate.py:145`),
  SQL Server's usual collation does not: `application = 'Shop'` then hides rows the
  panel shows. `PanelReadingIsSound` claims it only for texts that agree in case.
  `NOT (message = 'x')` is ignored without a trace, and `'$nodes'` in quotes is a literal.
* A readiness gap is counted in every row and an alert's gaps are those of its last row. A gap
  closed within the week has events and no alert: operators see a bar of "0 alerts" with its
  events (`summary_view.py:388`), readers a dash (`tabs.py:354`), and no events of any gap. `SurfacesAgree` compares the alerts of open gaps.
* The effort of a rule that an operator overrides is rounded in two places, `round(…, 2)`
  and `DECIMAL(6,2)`: 0.125 becomes 0.12 for operators and 0.13 for readers.
* `rules_left / pace` is a quotient of floats (`estimate.py:129`): 65 rules left at 13
  retired in three weeks are 15 weeks, and are shown as 16.
* Outcomes are kept by application and key field: an alert that exists in v1 and v2 has the
  outcome of the batch answered last. `AnswersBind` is stated of identities.
* A decision may be recorded on a week that is withdrawn, or whose run is persisted again, between
  the read of `decisions.py:112` and the insert: `DecisionsRestOnPublications` says only that
  the run was published at some time.
* A report is torn if its run is replaced while it is read: `ReportsAreWhole` is about
  the runs that are not, and says nothing of the others.
* A job that is killed before it logs a hold (`runner.py:336`) forgets it, and the wait starts
  again. `OverdueIsPublished` begins with a hold that is logged.
* A portal page is read without a snapshot; `PagesAreOfPublishedWeeks` says what still
  holds. `decisions_for` looks decisions up by schema, application and key field, not by team.
* The acceptance check compares how many alerts are in each state, not which, and finds
  work-list rows by schema and key field, without the application.
* "Every upgrade verifies the ledger before touching anything" (`ledger.py:14`), but it reads
  the version only afterwards. Of three revisions, image A has the first two unedited and
  the third, image B the first and an edited second. Pod A verifies; B commits its
  second; A now reads B's version and runs its third revision on it. The ledger then is
  described by neither image, and verification fails on A's next start. It takes a
  revision edited after release *and* both images rolled out at once, so
  `SomeVersionDescribesIt` is claimed under `EditedThroughout`.
* The ledger's checksum is of the `.sql` text: a changed `down_revision` in the `.py` file of a
  revision that was applied goes unnoticed (`SamePlaces`).
* Two wrong pages of one scan, one that loses a row and one that repeats one, can pass the
  reader's count (`reader.py:197`) and its check of the order.
* Under a command that takes no gate, an attempt that was completed earlier may be the one
  that stays: `GateKeepsOrder` is about requests only.

### Fairness

Fairness is stated where a liveness property needs it, of the steps that the code or the
platform keeps trying.

* `OverdueIsPublished`. The CronJob invokes `weekly` every day: weak fairness of `Start`.
  An invocation goes on: weak fairness of the steps that only decide or log. Running,
  judging and publishing a week may fail, or be cut short by a kill, many times but
  not every time: strong fairness of `RunWeek`, `Pass` and `PublishWeek`. Nothing is
  assumed of operators, of the model's health or of `Crash`. The clock need not
  advance; if it does, a week may expire, which the property allows.
* `RunEnds`. A thread goes on: weak fairness of `Work`. Every request has a timeout, so
  answering and failing are both steps of `Work`; nothing is assumed of the cluster.
* `SetupsEnd`. Kubernetes restarts an init container until it succeeds, and waits for
  locks end as their holders do: strong fairness of each pod's setup steps. The property
  is conditional: a pod whose image the database does not fit fails for ever, rightly.
* `GateIsReleased`. Weak fairness of each serving session's steps: a statement ends, or
  the server ends it as a deadlock victim, which is `RollBack`.

## Proofs

TLAPS checks, for every value of the constants:

| module | theorem | statement |
|---|---|---|
| `ReviewStore_proofs` | `TypeCorrect` | `Spec => []TypeOK` |
| | `NoOverlap` | `Spec => []WeeksNeverOverlap` |
| | `HistoryKept` | `Spec => HistoryIsKept` |
| | `DecisionsRest` | `Spec => []DecisionsRestOnPublications` |
| | `Refinement` | `Spec => LedgerIsAtomic` |
| `WeeklySchedule_proofs` | `TypeCorrect` | `Spec => []TypeOK` |
| | `SkipsOnlyExpired` | `Spec => HolesAreExpired`, whatever operators do |
| | `HeldFirst` | `Spec => UnhealthyIsHeldFirst` when operators do not run weeks |
| `LlmJournal_proofs` | `TypeCorrect` | `Spec => []TypeOK` |
| | `CalledOnce` | `Spec => []SlotCalledOnce` |
| | `SendsWhatIsRecorded` | `Spec => []BytesAreRecorded` |
| | `EvidenceStays` | `Spec => EvidenceIsKept` |
| | `OutcomesRest` | `Spec => OutcomesRestOnEvidence` |
| | `Refinement` | `Spec => BudgetIsKept` |
| `RunPipeline_proofs` | `PitsClosed` | `Spec => []PitsAreClosed` |
| | `RunIsTyped` | `Spec => []TypeOK` |
| | `StatesAccountForAll` | `Spec => []StatesAddUp` |
| | `SuppressionOfThePages` | `Spec => []SuppressionIsAsDefined` under `OneFault` |
| | `FiringOfThePages` | `Spec => []FiringIsAsDefined` under `OneFault` |
| | `DaysOfThePages` | `Spec => []DaysAreAsDefined` under `OneFault` |
| | `FindingsOfThePages` | `Spec => []FindingsAreAsDefined` under `OneFault` |
| `Rollout_proofs` | `RunsAreOfOneAttempt` | `Spec => []RowsAreOfOneAttempt` |
| | `VerdictsOfRunsAreStored` | `Spec => []VerdictsAreStored` |
| | `ReportsBelongTogether` | `Spec => []ReportsAreWhole` |
| | `RequestsAreAnswered` | `Spec => []AnswersAreTheirOwn` |
| | `RequestsAreStoredInOrder` | `Spec => GateKeepsOrder` |
| | `LedgerIsKept` | `Spec => LedgerOnlyGrows` |
| | `RolloutIsTyped` | `Spec => []TypeOK` |
| | `ServingMeansHead` | `Spec => []DoneMeansHead` under `SamePlaces` |
| | `DatabaseIsOfOneVersion` | `Spec => []SomeVersionDescribesIt` under `SamePlaces` and `EditedThroughout` |
| `ReviewDesk_proofs` | `RegistriesAreUnambiguous` | `Spec => []RegistryIsUnambiguous` |
| | `AcceptanceIsAgreement` | `Spec => []AcceptanceIsExact` |
| | `MissingBucketPasses` | a run without a zero bucket of v2 passes for the run that has it |
| | `AnswersAreBound` | `Spec => []AnswersBind` |
| `PortalPages_proofs` | `PagesTellOfPublishedWeeks` | `Spec => PagesAreOfPublishedWeeks` |
| | `SurfacesAlwaysAgree` | `Spec => []SurfacesAgree` |

The assumptions are those the modules declare, and TLC evaluates them on every run:
`StoreAssumption`, `WeekLengthAssumption`, `ScheduleAssumption`, `JournalAssumption`,
`PipelineAssumption`, `WritersAssumption`, `MigrationAssumption`, `RolloutAssumption`, and
those of the desks below.
They give the types of the constants, a positive week, hold, page and number of
attempts, that `NoRun`, `Nobody`, `NoOne`, `None`, `NoSettings` and the marks of a row are
not runs, processes, sessions, revisions, settings or verdicts, that sessions
that read take no gate, and, of the inputs of a run, that `Null` is no instant, that instants
and document hashes can be compared, that a feed and the leaves of a panel are finite, and
that a schema nobody operates has no documents.

Of the desks, they say what the tables, the schemas and the settings make sure of before:

* `RunsAssumption`, `HistoryAssumption`, `PageSizeAssumption`, `RequestsAssumption`: a stored
  run has finitely many rows with numbers in the columns that are `NOT NULL`, one finding
  of an alert, and measures that are numbers or `NULL`; a history and a page have a positive
  length, and a request names a page by an integer.
* `DerivedAssumption`: the rows of a run were derived by one analysis of one feed
  (`SchemaAccumulator.finish`): a core rule that counted an event is a finding of some alert,
  and what hides an alert is in a day of its schema. Readiness rules are left out: they
  are counted over every row and stored from the last one, see Observations.
* `ListsAssumption`, `ReachAssumption`: a list has room for a natural number of rows, and
  readers are given more weeks than the estimate looks back over ("Older weeks cannot change
  the estimate, so they are never read", `summary_queries.py:32`).
* `DocumentsAssumption`: a registry has passed its JSON Schema: arrays are arrays, an operator
  is a string.
* `ManifestsAssumption`: the run of a manifest is one the pipeline wrote, in which only rows
  are flagged and the report has all its lines; the run shown in its place is any that the
  keys and checks of the tables admit.
* `ExchangesAssumption`: what is assessed are findings of one run, told apart by their key; a
  configured batch and the cap are positive; the verdicts of a response are an array
  (`validate_response` refuses any other before it looks further).

Four theorems have hypotheses of their own; the runs satisfy all of them.

* `OneFault`: at most one page of a run is wrong. The reader compares the number of rows with
  the cluster's total and refuses rows that go back in time. A page that loses a row and
  another that repeats one leave the number as it should be, so of two wrong pages
  neither check need notice. `RunIsTyped`, `StatesAccountForAll` and `PitsClosed` hold for any
  number of wrong pages.
* `SamePlaces`: a revision has the same predecessor in every image. The ledger's checksum is of
  the `.sql` text; the predecessor is in the `.py` file, which nothing checks.
* `EditedThroughout`: images that agree on the text of one shared revision agree on all they
  share. Without it the theorem is false (Observations). `MCRollout` states both of its
  images as an assumption, `ImagesAgree`, which TLC evaluates.

**ReviewStore.** That weeks never overlap is not inductive: a session between
`PublishCheck` and `PublishCommit` acts on a verdict. The invariant adds
`PublisherIsAlone` (a session past the check has the team's range to itself: no other
is past it, and no withdrawal of the team is under way), `VerdictHolds` (the rule it
was accepted by still holds of the weeks as they are now), `FoundIsCurrent` (what
`unpublish_run` found is still current) and `BusyOnARun`. `VerdictHolds` survives
because nothing that changes the team's weeks can run beside it. It gives
`WeeksNeverOverlap` at the commit, and it is exactly the guard of `WeekLedger!Publish`
in the refinement.

**WeeklySchedule.** `HolesAreExpired` holds because the gap flag is up only if
the weeks in the gap had expired when the plan was made. The invariant `GapIsExpired`
carries that from `Start` to `PublishWeek`, and publishing the first week takes the
flag down. `UnhealthyIsHeldFirst` needs `Judged`: at phase `publish` the week is still
healthy or overdue, which is where operators who run weeks break it.

**LlmJournal.** No property is inductive alone: the journal can be trusted because a
process that writes it has the lock, and a process that has lost the lock has one call
left. The invariant says, of each process (`InOrder`), that it has the lock while it
works, that the scope has its settings, that it stands in the newest cycle behind
failed attempts only (`Position`), that the attempt it is about to call is journaled
and uncalled (`MayCall`), and that what it says has evidence; of two processes, that
they are about to call for different attempts (`CallersAreApart`); and of the journal,
that attempts and cycles follow one another (`AttemptsInOrder`, `CyclesInOrder`).
A step is first shown `Orderly`: it keeps its own process in order and, seen by the
others, only adds to the journal (`Grows`). `OrderlyInv` then gives the invariant for
all of them at once, and `Grows` is also `EvidenceIsKept`.

**RunPipeline.** `OpenOnlyWhileRead` gives `PitsClosed`: only the schema being read has an
open point in time, and only from its opening to the end of the `finally` block.

The equivalences say that one pass over pages, which keeps no row, ends with what all rows
together define. The invariant `ReadInv` makes the rows visible again: there is a sequence
of rows, in order of time (`HasRead`), such that the accumulator is a function of it
(`AccumulatorIs`), and it is the feed so far (`Straight`) unless a wrong page has shifted
the count for good (`Shifted`) or is about to be refused (`Refused`). At `Reconcile` the
count tells the first from the second, so the rows analysed are those of the feed
(`ReadIsFeed`). `ResultInv` then says that the report is of what was analysed.

`SchemaStream_proofs` has the lemmas about the data. `RowAdded`: a row more makes of the
accumulator of the rows before it that of the rows up to it, which is the induction over
the feed, carried out by the steps of the run. `FinishIs`: `finish()` of such an accumulator
is what the definitions of `RuleEngine` say: a day is a bag of rules and a table of
signatures by mask, and a row of one signature is suppressed if all are. Sums over days,
identities and signatures count rows because these part the rows (`SumOverParts`); a
fold over a finite set is unfolded by the least element of what is left
(`LeastOf`, from the well-foundedness of the naturals).

`FiringOfThePages` is the hardest. Its lemmas describe the facts of a *set* of rows by
their instants alone, without an order: the firing rows after every clear (`Trailing`),
those that no clear parts (`Episode`), and the instants at which a clear ends an episode
(`CycleTimes`). On the one side, an accumulator holds the facts of all complete instants and
the counts of the pending one (`FiringOf`), and a flush adds one complete instant
to such a set (`FlushIs`). On the other, sorting is a bijection that keeps the instants
(`OrderedIs`), and in a sorted sequence the consecutive rows of `firing.py` are these
episodes, cycles and trailing rows (`MaxEpisodeIs`, `MaxCyclesIs`, `OpenSinceIs`).
`FactsAre` joins the two. That hashes decide the order within an instant and yet no fact
depends on them is thereby proved, not assumed.

**RunWriters.** `persist_run` deletes a run's rows and inserts its own, and a deletion that
finds nothing locks nothing, so two sessions may be past their deletions at once. What
decides is the metrics row, whose key every attempt shares: a session that replaced it has
it locked, and a session that found none cannot insert its own once another has. The
invariant `WritersInv` says of each session that persists how far it is with its run
(`Persists`), that it has changed rows of this run only (`ChangesItsRun`), that, once it
has the metrics row, each finding it has scanned is its own or absent still, and that
its row, metrics and findings will be those of its attempt (`Replaces`), and that the
verdicts it has been through are stored or its own (`KeepsVerdicts`). At the commit this is `RowsAreOfOneAttempt`.

`ReportsInv` adds, in the same module, what is told of runs: an attempt that is being
persisted is stored, read and persisted nowhere else, so a replaced run never comes back
(`IsFresh`) and what a reader found in its first query settles the others as long as
it is there (`IsWhole`); the session at work on a request has the gate (`HasGate`) and
its attempt is the newest of the requests; attempts of commands are none of theirs
(`IsACommand`), and an answer is of its own attempt (`IsItsOwn`).

**MigrationLedger.** `LedgerInv` is `RecordedOnce`: a row that an upgrade has recorded and not
committed is in no committed ledger, because its key was free when it was inserted and
has been locked since. This is `LedgerOnlyGrows`.

That the database is always of one version needs to know how far each upgrade is. `SetupsInv`
says it (`Progress`): an upgrade that found `k` revisions and stands at batch `b` of the one
after `m` has written exactly what these would (`Stands`), and has the rest of its image's
history to do. The history of an image is its chain of predecessors; that it is unique and
that its prefixes are closed is proved in the same module. `AppliedInv`: what is
applied has its predecessor applied, which gives `DoneMeansHead`. `StateInv` is
`SomeVersionDescribesIt` with three things it needs: as long as nothing is applied only one
pod upgrades (`FirstAlone`, the lock on the ledger table it creates), whoever upgrades has
files that do not contradict the ledger (`Agreed`, here `EditedThroughout` is used), and a
pod that has moved the version has it locked and found it as it still is
(`VersionAlone`). A commit then leads from what an image left to what its own image
leaves (`CommitDescribes`).

**Rollout.** Both together: a pod's replacement is, for the runs, the end of some sessions
with their transactions rolled back, a setup step is no step of theirs, and a step of a run
changes nothing that a setup reads.

**PortalPages.** A page is read in several statements, and what it has read may be withdrawn
before it is shown. `PageInvariant` says of every answer a page holds that it has its shape,
whatever happened since (`Heard`), and, unless the week has left, that it is what an operator
sees of the facts (`Told`); and of the week itself that it is published or is known to have
left. A statement asked while the week is published is told (`TheNextIsTold`), what was told
stays told while the week stays (`TheOldIsTold`), and when a page is shown the last check
found its week (`TheWeekIsShown`, `NothingOfTheGone`). The lemmas follow the views from the
ledger to the page: the weeks of a team sorted by their ends are a list without repetition
(`RanksGrow`, `Arranged`, `WeeksInOrder`), and a filter keeps what is published published.

That operators and readers see the same needs no more of the system than `LedgerIsSound`:
the published weeks of a team do not overlap, so they are in one order by their ends. The
rest is about definitions written apart. A sum does not depend on the order of its terms
(`SumWithout`), so `SUM` of the measured days, made zero or kept `NULL`, is Python's sum
(`ColumnAgrees`, `MeasureAgrees`, `TotalsAgree`, `RulesAgree`). A work list cut into pages
and put together again is the list, and the operator's orders lose no alert, as each is one finding
(`PagesAreWhole`, `OperatorKeysOrder`, `ListsAreTheSame`). The week before is the same to
`LAG` and to a walk over all weeks (`ChangesAreSeen`), so the reader's last weeks are the end
of the operator's history (`HistoriesMeet`), and as the estimate looks back over fewer weeks
than that, to the first gap or changed basis, it is the same of both (`EndIsEnough`,
`SameEstimate`). What a page leaves out when there is nothing to tell is empty on the other
(`BarsAreCells`, `NothingListed`, `RulesAreLeft`); here `DerivedAssumption` is used.

**ReviewDesk.** The registry is one pass over its entries, a recursive function that exists
because the document is finite (`PassGrows`, `PassExists`). `PassedOver` is the invariant of the pass, with
the number of entries read as its index: the operators seen are those of the entries so far,
each recorded for a team that names it, and there is no problem exactly if no two entries
share a team or an operator and each has operators and sound panels. `EntryKeeps` is its
step; an accepted document has it at its last entry (`AcceptedOnly`), so that an operator has
one owner (`OnceEach`, `OneOwnerOf`).

The acceptance check is a set of failures, so that no failure is no failure of any part
(`PartsAgree`), and each part is empty exactly if the two runs agree in it: `StatesAgree`,
`DaysAgree`, `CountsAgree`, `AlertsAgree`, `SuppressionAgrees`, `WindowAgrees`, `CsvAgrees`. Read
from the check to the rows this needs counting: a work list of as many alerts as the manifest
lists, in which each listed one is found, has no other (`AlertsAgree`), and state counts that
add up to the work list leave no state over (`StatesAgree`). `MissingBucketPasses` is the
agreement of a run with itself less one row of zeros: it is of no sum (`TotalWithout`,
`NullableWithout`), and not of v1.

The exchange cuts each group into even parts and joins the parts of all groups. A partition
is described by where its parts end (`IsCut`): every place is in one part (`CutOnce`), the
parts of `PartitionSizes` end with the group (`EvenParts`, `PartsAre`), and joining sequences
keeps each element once (`Flattened`). So the places of what is sent and of what is to be
assessed correspond one to one (`EveryAlertIsSent`), and the identifiers of a batch are
distinct. With that, "as many verdicts as alerts, and each alert named exactly once" and the
code's "no identifier twice, and the set of them is the set asked for" are the same
(`SaidOnce`, by counting), and an accepted answer pairs each alert with the verdict that
names it (`TakenWhole`). `ExchangeInv` carries the outcomes of the batch answered last from
`Answered` to the next `Ask`.

Only model-checked: the liveness properties (`OverdueIsPublished`, `RunEnds`, `SetupsEnd`,
`GateIsReleased`), which are out of the prover's reach, as `ENABLED` is;
and `PanelReadingIsSound`, because the panel parser is a recursive descent over tokens and a
panel's meaning is recursive too, and the provers cannot work in a module that reaches a
`RECURSIVE` operator.

tlapm reads an unparenthesised `UNION A \union B` as `UNION (A \union B)`, SANY and TLC as
`(UNION A) \union B`; the modules parenthesise it, so that both check the same formula.

## Plan

What the project set out to model, in its order; all of it is done, as far as the
last section says.

1. `PublicationRules`, `WeekLedger`, `ReviewStore`: publication under concurrency.
2. `WeeklySchedule`: the schedule over the ledger.
3. `AssessmentBudget`, `LlmJournal`: model assessment, crash and resumption.
4. `RunPipeline` and what it stands on: one pass over pages against the definitions.
5. `RunWriters`: the statements of `persist_run` and of a report among each other.
6. `MigrationLedger`, and `Rollout` for both: revisions, batches, failure, drift.
7. The functions of `ReviewDesk`: panels, exchange, pages, acceptance, registry.
8. Proofs of 1 to 7: types, invariants, action properties and both refinements.

What would come next: the run pipeline as an implementation of an abstract run that reads
its feed in one step; the assessment of several batches of one run, interleaved with
`RunWriters`; `stamp` and the guarded reset.

## Not modelled

* *Text and layout*: rule texts, prompts, markup, charts, slides, report files, the fields
  of an alert card, the SQL lexer. They keep no state and nothing is decided by them.
* *The JSON schemas* of the registry's entries, of API requests and of model responses:
  libraries check them. What the code checks beyond them is modelled.
* *Data*: word lists, catalogues and regular expressions are membership in a set; dates are
  ticks, and what a parser of dates cannot read is one value; LIKE patterns are the texts
  they match.
* *`stamp` and `reset_test_database`*: tools of a developer and of the tests, used on
  databases nobody else has open.
* *Prompt and evaluation harness, the reader role's grants, configuration, logging,
  hashing, authentication*: no state that another step depends on.
* *Smaller queries*: counts of R8 to R10 gaps on the advisory page beyond the rows they are
  read from, the decisions a page of the work list shows beside an alert, the list
  of publications, `--dry-run` and `status`.
* *SQL Server*: locks are derived from what a transaction has done and asked for, at READ
  COMMITTED; its deadlock detector is represented by its effect, a rollback.
* *Floating point*: ratios and projections are computed exactly.
* *The deterministic generators and fixtures* under `scripts/` and the tests.
