------------------------------- MODULE RunWriters -------------------------------
(***************************************************************************)
(* Sessions that execute, persist and render runs of the same store at     *)
(* once, statement by statement: requests of the HTTP surface, which one   *)
(* gate keeps apart, and commands, which it does not.                      *)
(*   start_run, resolve_outputs, RunGate       src/api/service.py          *)
(*   persist_run, get_latest_run               src/db/repositories.py      *)
(*   build_run_outputs                         src/report/render.py        *)
(*   _command_run, _command_report             src/cli.py                  *)
(* Published runs, which persist_run refuses, are in ReviewStore; no run   *)
(* is published here.  Of the tables that hang on a run, daily_metrics has *)
(* rows whose keys the run id fixes, and the others are one, "finding".    *)
(***************************************************************************)
EXTENDS Integers, Sequences, FiniteSets

CONSTANTS
    Sessions,
    Gated,       \* the sessions that are requests to start a run
    Readers,     \* the sessions that only render what is stored
    Runs,        \* run ids of one team
    Findings,    \* keys of alert_findings, in the order of the index
    Verdicts,    \* keys of llm_verdicts
    Payloads,    \* what executing may yield: [run, findings, verdicts]
    NoOne,       \* no session
    MaxAttempts  \* bound: executions

ASSUME WritersAssumption ==
    /\ Gated \cup Readers \subseteq Sessions /\ Gated \cap Readers = {}
    /\ NoOne \notin Sessions
    /\ IsFiniteSet(Findings) /\ Findings = 1 .. Cardinality(Findings)
    /\ MaxAttempts \in Nat
    /\ \A p \in Payloads : p.run \in Runs /\ p.findings \subseteq Findings /\ p.verdicts \in Seq(Verdicts)

RunRow(r) == <<"run", r, 0>>
MetricsRow(r) == <<"metrics", r, 0>>
FindingRow(r, f) == <<"finding", r, f>>
VerdictRow(v) == <<"verdict", v, 0>>
Keys == {RunRow(r) : r \in Runs} \cup {MetricsRow(r) : r \in Runs}
        \cup {FindingRow(r, f) : r \in Runs, f \in Findings} \cup {VerdictRow(v) : v \in Verdicts}

VARIABLES
    rows,      \* of each key the attempt stored, 0 for none, and who is changing it to what
    attempts,  \* the executions so far; their order is that of completed_at
    writer,    \* where each session is
    gate       \* the session that holds the RunGate

writerVars == <<rows, attempts, writer, gate>>

Stored(attempt) == [val |-> attempt, by |-> NoOne, new |-> 0]
NoReport == [run |-> 0, metrics |-> 0, findings |-> [f \in Findings |-> 0]]
Resting == [step |-> "idle", attempt |-> 0, run |-> NoOne, at |-> 1, report |-> NoReport]

WritersInit ==
    /\ rows = [k \in Keys |-> Stored(0)]
    /\ attempts = <<>>
    /\ writer = [s \in Sessions |-> Resting]
    /\ gate = NoOne

-------------------------------------------------------------------------------
\* READ COMMITTED: a statement waits for the rows another transaction has changed,
\* and sees its own changes and what is committed.
Free(s, k) == rows[k].by \in {s, NoOne}
Sees(s, k) == IF rows[k].by = s THEN rows[k].new ELSE rows[k].val

Write(s, k, attempt) ==
    rows' = [rows EXCEPT ![k] = [val |-> rows[k].val, by |-> s, new |-> attempt]]

\* A row that is not there is neither deleted nor locked.
Delete(s, k) == IF Sees(s, k) = 0 THEN UNCHANGED rows ELSE Write(s, k, 0)

CommitRows(s) ==
    rows' = [k \in Keys |-> IF rows[k].by = s THEN Stored(rows[k].new) ELSE rows[k]]
RollBackRows(s) ==
    rows' = [k \in Keys |-> IF rows[k].by = s THEN Stored(rows[k].val) ELSE rows[k]]

Run(s) == writer[s].run
Payload(s) == attempts[writer[s].attempt]

\* The session goes to a step and, in it, to the row at "at".
GoTo(s, step, at) ==
    writer' = [writer EXCEPT ![s] = [step |-> step, attempt |-> writer[s].attempt, run |-> Run(s),
                                     at |-> at, report |-> writer[s].report]]
Step(s, step) == GoTo(s, step, 1)

\* A mutant: the gate is not given back.
KeepGate(s) == gate
Release(s) == IF gate = s THEN NoOne ELSE gate

\* The `finally` of start_run.
Leave(s) ==
    /\ writer' = [writer EXCEPT ![s] = Resting]
    /\ gate' = Release(s)

-------------------------------------------------------------------------------
\* A mutant: a request does not ask for the gate.
OpenGate == TRUE
GateFree == gate = NoOne

\* A request that finds the gate taken is answered 409; a command takes none.
StartRun(s) ==
    /\ writer[s].step = "idle" /\ s \notin Readers
    /\ s \in Gated => GateFree
    /\ gate' = IF s \in Gated THEN s ELSE gate
    /\ Step(s, "execute")
    /\ UNCHANGED <<rows, attempts>>

Kind(s) == IF s \in Gated THEN "request" ELSE "command"
Requested(n) == attempts[n].by = "request"

Execute(s) ==
    /\ writer[s].step = "execute"
    /\ Len(attempts) < MaxAttempts
    /\ \E p \in Payloads :
           /\ attempts' = Append(attempts, [run |-> p.run, findings |-> p.findings,
                                            verdicts |-> p.verdicts, by |-> Kind(s)])
           /\ writer' = [writer EXCEPT ![s] =
                  [step |-> "metrics", attempt |-> Len(attempts) + 1, run |-> p.run, at |-> 1,
                   report |-> NoReport]]
    /\ UNCHANGED <<rows, gate>>

ExecuteFails(s) ==
    /\ writer[s].step = "execute"
    /\ Leave(s)
    /\ UNCHANGED <<rows, attempts>>

-------------------------------------------------------------------------------
\* persist_run.
DeleteMetrics(s) ==
    /\ writer[s].step = "metrics"
    /\ Free(s, MetricsRow(Run(s)))
    /\ Delete(s, MetricsRow(Run(s)))
    /\ Step(s, IF Findings = {} THEN "seek" ELSE "findings")
    /\ UNCHANGED <<attempts, gate>>

\* A mutant: the other tables are left to the cascade from runs.
LeaveFinding(s, k) == UNCHANGED rows
DeleteRow(s, k) == Delete(s, k)

\* The range of the run is scanned in the order of the index.
DeleteFinding(s) ==
    /\ writer[s].step = "findings"
    /\ LET k == FindingRow(Run(s), writer[s].at)
       IN  Free(s, k) /\ DeleteRow(s, k)
    /\ IF writer[s].at = Cardinality(Findings) THEN Step(s, "seek")
       ELSE GoTo(s, "findings", writer[s].at + 1)
    /\ UNCHANGED <<attempts, gate>>

SeekRun(s) ==
    /\ writer[s].step = "seek"
    /\ Free(s, RunRow(Run(s)))
    /\ Step(s, IF Sees(s, RunRow(Run(s))) = 0 THEN "insert" ELSE "update")
    /\ UNCHANGED <<rows, attempts, gate>>

\* An INSERT of a key that has been committed fails.
Insert(s, k, next) ==
    /\ Free(s, k)
    /\ IF Sees(s, k) # 0
       THEN RollBackRows(s) /\ Leave(s)
       ELSE Write(s, k, writer[s].attempt) /\ next /\ UNCHANGED gate

InsertRun(s) ==
    /\ writer[s].step = "insert"
    /\ Insert(s, RunRow(Run(s)), Step(s, "addMetrics"))
    /\ UNCHANGED attempts

UpdateRun(s) ==
    /\ writer[s].step = "update"
    /\ Free(s, RunRow(Run(s)))
    /\ Write(s, RunRow(Run(s)), writer[s].attempt)
    /\ Step(s, "addMetrics")
    /\ UNCHANGED <<attempts, gate>>

InsertMetrics(s) ==
    /\ writer[s].step = "addMetrics"
    /\ Insert(s, MetricsRow(Run(s)), Step(s, "addFindings"))
    /\ UNCHANGED attempts

InsertFinding(s) ==
    /\ writer[s].step = "addFindings"
    /\ LET more == {f \in Payload(s).findings : f >= writer[s].at}
       IN  \/ more = {} /\ Step(s, "verdicts") /\ UNCHANGED <<rows, gate>>
           \/ \E f \in more :
                 /\ \A g \in more : f <= g
                 /\ Insert(s, FindingRow(Run(s), f), GoTo(s, "addFindings", f + 1))
    /\ UNCHANGED attempts

\* A mutant: a verdict that another transaction has not committed counts as stored.
SkipsUncommitted(s, k) == TRUE
WaitsForVerdict(s, k) == Free(s, k)

\* insert_verdict_if_absent: IF NOT EXISTS ... INSERT, two statements without a
\* range lock between them, for one verdict after the other.
SeekVerdict(s) ==
    /\ writer[s].step = "verdicts"
    /\ IF writer[s].at > Len(Payload(s).verdicts) THEN Step(s, "commit")
       ELSE LET k == VerdictRow(Payload(s).verdicts[writer[s].at])
            IN  /\ WaitsForVerdict(s, k)
                /\ IF Sees(s, k) # 0 \/ ~Free(s, k) THEN GoTo(s, "verdicts", writer[s].at + 1)
                   ELSE GoTo(s, "addVerdict", writer[s].at)
    /\ UNCHANGED <<rows, attempts, gate>>

InsertVerdict(s) ==
    /\ writer[s].step = "addVerdict"
    /\ Insert(s, VerdictRow(Payload(s).verdicts[writer[s].at]),
              GoTo(s, "verdicts", writer[s].at + 1))
    /\ UNCHANGED attempts

\* A mutant: the gate is given back before the report is rendered.
EarlyRelease(s) == Release(s)
GateAfterCommit(s) == gate

Commit(s) ==
    /\ writer[s].step = "commit"
    /\ CommitRows(s)
    /\ Step(s, "readRun")
    /\ gate' = GateAfterCommit(s)
    /\ UNCHANGED attempts

InPersist(s) ==
    writer[s].step \in {"metrics", "findings", "seek", "insert", "update", "addMetrics",
                        "addFindings", "verdicts", "addVerdict", "commit"}

\* An error, a deadlock victim's among them, ends the transaction and the command.
RollBack(s) ==
    /\ InPersist(s)
    /\ RollBackRows(s)
    /\ Leave(s)
    /\ UNCHANGED attempts

-------------------------------------------------------------------------------
StoredRuns == {r \in Runs : rows[RunRow(r)].val # 0}

\* GET /runs/{run_id}, `report --run-id`, and both with "latest", the newest stored run.
GetRun(s) ==
    /\ writer[s].step = "idle" /\ s \in Readers
    /\ \E r \in StoredRuns :
           writer' = [writer EXCEPT ![s] = [step |-> "readRun", attempt |-> 0, run |-> r, at |-> 1,
                                            report |-> NoReport]]
    /\ UNCHANGED <<rows, attempts, gate>>

\* build_run_outputs reads table after table, each with a query of its own.
Report(run, metrics, findings) == [run |-> run, metrics |-> metrics, findings |-> findings]
Reads(s, step, report) ==
    writer' = [writer EXCEPT ![s] = [step |-> step, attempt |-> writer[s].attempt, run |-> Run(s),
                                     at |-> 1, report |-> report]]

ReadRun(s) ==
    /\ writer[s].step = "readRun"
    /\ Free(s, RunRow(Run(s)))
    /\ Reads(s, "readMetrics", Report(rows[RunRow(Run(s))].val, 0, NoReport.findings))
    /\ UNCHANGED <<rows, attempts, gate>>

ReadMetrics(s) ==
    /\ writer[s].step = "readMetrics"
    /\ Free(s, MetricsRow(Run(s)))
    /\ Reads(s, "readFindings",
             Report(writer[s].report.run, rows[MetricsRow(Run(s))].val, NoReport.findings))
    /\ UNCHANGED <<rows, attempts, gate>>

ReadFindings(s) ==
    /\ writer[s].step = "readFindings"
    /\ \A f \in Findings : Free(s, FindingRow(Run(s), f))
    /\ Reads(s, "answer", Report(writer[s].report.run, writer[s].report.metrics,
                                 [f \in Findings |-> rows[FindingRow(Run(s), f)].val]))
    /\ UNCHANGED <<rows, attempts, gate>>

Answer(s) ==
    /\ writer[s].step = "answer"
    /\ Leave(s)
    /\ UNCHANGED <<rows, attempts>>

Statement(s) ==
    \/ DeleteMetrics(s) \/ DeleteFinding(s) \/ SeekRun(s) \/ InsertRun(s) \/ UpdateRun(s)
    \/ InsertMetrics(s) \/ InsertFinding(s) \/ SeekVerdict(s) \/ InsertVerdict(s)
    \/ ReadRun(s) \/ ReadMetrics(s) \/ ReadFindings(s)

WriterStep(s) ==
    \/ Execute(s) \/ ExecuteFails(s) \/ Statement(s) \/ Commit(s) \/ RollBack(s) \/ Answer(s)

WritersNext == \E s \in Sessions : StartRun(s) \/ GetRun(s) \/ WriterStep(s)

WritersSpec == WritersInit /\ [][WritersNext]_writerVars

-------------------------------------------------------------------------------
WritersTypeOK ==
    /\ rows \in [Keys -> [val : 0 .. MaxAttempts, by : Sessions \cup {NoOne}, new : 0 .. MaxAttempts]]
    /\ Len(attempts) <= MaxAttempts
    /\ gate \in Gated \cup {NoOne}
    /\ \A s \in Sessions : writer[s].attempt \in 0 .. Len(attempts)

\* "a restarted run cannot leave a mixture of two attempts behind" (repositories.py):
\* whichever sessions persist one run at once, its row, its metrics and its findings
\* are those of one attempt, all of them.
RowsAreOfOneAttempt ==
    \A r \in Runs :
        LET n == rows[RunRow(r)].val
        IN  /\ rows[MetricsRow(r)].val = n
            /\ \A f \in Findings :
                   rows[FindingRow(r, f)].val =
                       IF n # 0 /\ f \in attempts[n].findings THEN n ELSE 0

\* What a stored run was assessed by is in llm_verdicts: by its own attempt, or by the
\* one that came first and was not replaced.
VerdictsAreStored ==
    \A r \in StoredRuns : \A i \in DOMAIN attempts[rows[RunRow(r)].val].verdicts :
        rows[VerdictRow(attempts[rows[RunRow(r)].val].verdicts[i])].val # 0

\* A report is read in several queries while others persist: if its run is still as the
\* first query found it, all its parts belong together.  One whose run was replaced
\* meanwhile may be torn.
ReportsAreWhole ==
    \A s \in Sessions :
        LET report == writer[s].report
        IN  writer[s].step = "answer" /\ report.run = rows[RunRow(Run(s))].val
            => /\ report.metrics = report.run
               /\ \A f \in Findings :
                      (report.findings[f] # 0) <=> (f \in attempts[report.run].findings)

\* Under the gate a request is answered with the very attempt it has made, as long as
\* no command persists the same run; and attempts are stored in the order in which
\* they were completed.
AnswersAreTheirOwn ==
    \A s \in Gated :
        LET mine == writer[s].attempt
        IN  /\ writer[s].step = "answer"
            /\ \A n \in DOMAIN attempts : attempts[n].run = Run(s) => Requested(n)
            => writer[s].report.run = mine /\ writer[s].report.metrics = mine

GateKeepsOrder ==
    [][\A r \in Runs :
           LET old == rows[RunRow(r)].val
               new == rows'[RunRow(r)].val
           IN  old # 0 /\ Requested(old) /\ Requested(new) => old <= new]_writerVars

\* The gate is given back, however a run ends.
GateIsReleased == (gate # NoOne) ~> (gate = NoOne)
===============================================================================
