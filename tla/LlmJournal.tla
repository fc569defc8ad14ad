---- MODULE LlmJournal ----
\* One run's model assessment and its audit journal: processes that assess the
\* same run id, one at a time under the scope's application lock, each able to
\* die or to lose its database session at any point, and resume one another.
\*   assess_alerts, _assess_alerts, _attempt_batch     src/llm/assess.py
\*   SqlLlmJournal                                      src/db/llm_audit.py
\*   find_verdicts, persist_run                         src/db/repositories.py
\*
\* A batch stands for its alerts, which share its fate: they are requested,
\* assessed and stored in the verdict table together.  A failed call is one
\* value, whatever the failure category.
EXTENDS Integers

CONSTANTS Batches,     \* the run's batches, numbered in the order they are sent
          Verdicts,    \* what the model may say of a batch
          Settings,    \* prompt, schema and audit settings of an invocation
          Requests,    \* the bytes a batch may serialize to
          MaxAttempts, \* MAX_ATTEMPTS
          MaxCycles,   \* bound: cycles of one batch
          Processes,
          Nobody,      \* no process has the lock
          NoSettings   \* the scope is not configured yet

ASSUME JournalAssumption ==
    /\ Batches \subseteq Nat
    /\ MaxAttempts \in Nat \ {0} /\ MaxCycles \in Nat
    /\ Verdicts \intersect {"none", "started", "failed", "unassessed"} = {}
    /\ Nobody \notin Processes
    /\ NoSettings \notin Settings

Cycles == 1 .. MaxCycles
Slots == 1 .. MaxAttempts

VARIABLES
    scope,     \* llm_review_scopes: the settings recorded for the run
    newest,    \* per batch, the highest cycle_number in llm_review_batches
    cycles,    \* llm_review_batches: status and request of each cycle
    attempts,  \* llm_review_attempts: "none" (no row), "started", "failed", or
               \* the verdict of the response
    holder,    \* who has the lock "llm-review:<scope>"
    proc,      \* where each process is in assess_alerts and persist_run
    source,    \* what each batch would serialize to if it were read now
    verdicts,  \* llm_verdicts, shared with every other run
    stored,    \* the outcomes persisted with the run; all "none" before that
    published, \* has the run a current publication?
    calls      \* how often the endpoint was called for each attempt

journal == <<scope, newest, cycles, attempts>>
store == <<verdicts, stored, published>>
vars == <<journal, holder, proc, source, store, calls>>

----------------------------------------------------------------------------
\* Processes

\* `outcome` is the AssessmentResult being built: "none" where it is still open.
Idle == [phase |-> "idle", settings |-> NoSettings,
         request |-> [b \in Batches |-> "none"],
         outcome |-> [b \in Batches |-> "none"],
         cycle |-> 0, attempt |-> 0, reply |-> "none"]

\* The batch a process is at: the first one that has no outcome.
At(p, b) ==
    /\ proc[p].outcome[b] = "none"
    /\ \A a \in Batches : proc[p].outcome[a] = "none" => b <= a

Finished(p) == \A b \in Batches : proc[p].outcome[b] # "none"

\* The attempt a process is at, as its row in the journal.
Row(p, b) == attempts[b][proc[p].cycle][proc[p].attempt]

WriteRow(p, b, row) ==
    attempts' = [attempts EXCEPT ![b][proc[p].cycle][proc[p].attempt] = row]

\* MUTANT: the lock does not outlive the transaction that takes it.
LockNotKept == TRUE

LockFree == holder = Nobody

\* The lock is released, by `locked` or with the session it belongs to.
Unlock(p) == holder' = IF holder = p THEN Nobody ELSE holder

Move(p, state) == proc' = [proc EXCEPT ![p] = state]

Goto(p, phase) == Move(p, [proc[p] EXCEPT !.phase = phase])

\* An exception ends the invocation.
Stop(p) == Unlock(p) /\ Move(p, Idle)

----------------------------------------------------------------------------
\* Beginning an invocation

\* execute_run reads the alerts and then the verdicts stored for them, before it
\* asks for the lock.
Begin(p, s) ==
    /\ proc[p].phase = "idle"
    /\ Move(p, [Idle EXCEPT !.phase = "ready", !.settings = s,
                            !.request = source, !.outcome = verdicts])
    /\ UNCHANGED <<journal, holder, source, store, calls>>

\* sp_getapplock for the session, with no wait; then the publication is checked.
Acquire(p) ==
    /\ proc[p].phase = "ready"
    /\ LockFree /\ ~published
    /\ holder' = p
    /\ Goto(p, "locked")
    /\ UNCHANGED <<journal, source, store, calls>>

Refused(p) ==
    /\ proc[p].phase = "ready"
    /\ ~LockFree \/ published
    /\ Stop(p)
    /\ UNCHANGED <<journal, source, store, calls>>

MayConfigure(p) == scope \in {NoSettings, proc[p].settings}

Configure(p) ==
    /\ proc[p].phase = "locked"
    /\ MayConfigure(p)
    /\ scope' = IF scope = NoSettings THEN proc[p].settings ELSE scope
    /\ Goto(p, "batch")
    /\ UNCHANGED <<newest, cycles, attempts, holder, source, store, calls>>

ConfigureRefused(p) ==
    /\ proc[p].phase = "locked"
    /\ ~MayConfigure(p)
    /\ Stop(p)
    /\ UNCHANGED <<journal, source, store, calls>>

----------------------------------------------------------------------------
\* Preparing a batch

Newest(b) == cycles[b][newest[b]]

\* MUTANT: a cycle is resumed whatever the batch serializes to now.
AnyRequest(p, b) == TRUE

SameRequest(p, b) == newest[b] # 0 => Newest(b).request = proc[p].request[b]

\* MUTANT: a cycle that was interrupted is not resumed.
MustOpenUnlessClosed(b) == newest[b] # 0 => Newest(b).status # "succeeded"

MustOpen(b) == newest[b] # 0 => Newest(b).status = "exhausted"

PrepareRefused(p, b) ==
    /\ proc[p].phase = "batch" /\ At(p, b)
    /\ ~SameRequest(p, b)
    /\ Stop(p)
    /\ UNCHANGED <<journal, source, store, calls>>

\* The rows of a cycle are gone through from the first.
Enter(p, c) ==
    Move(p, [proc[p] EXCEPT !.phase = "attempt", !.cycle = c, !.attempt = 1])

OpenCycle(p, b) ==
    /\ proc[p].phase = "batch" /\ At(p, b)
    /\ SameRequest(p, b) /\ MustOpen(b)
    /\ newest[b] < MaxCycles
    /\ newest' = [newest EXCEPT ![b] = @ + 1]
    /\ cycles' = [cycles EXCEPT ![b][newest[b] + 1] =
           [status |-> "running", request |-> proc[p].request[b]]]
    /\ Enter(p, newest[b] + 1)
    /\ UNCHANGED <<scope, attempts, holder, source, store, calls>>

ResumeCycle(p, b) ==
    /\ proc[p].phase = "batch" /\ At(p, b)
    /\ SameRequest(p, b) /\ ~MustOpen(b)
    /\ Enter(p, newest[b])
    /\ UNCHANGED <<journal, holder, source, store, calls>>

----------------------------------------------------------------------------
\* The attempts of a batch

Reply(p, phase, reply) ==
    Move(p, [proc[p] EXCEPT !.phase = phase, !.reply = reply])

\* MUTANT: one attempt too many.
OneAttemptMore(p) ==
    IF proc[p].attempt <= MaxAttempts
    THEN Move(p, [proc[p] EXCEPT !.phase = "attempt", !.attempt = @ + 1,
                                 !.reply = "none"])
    ELSE Reply(p, "close", "failed")

\* The attempt failed: the next one, or none is left.
NextAttempt(p) ==
    IF proc[p].attempt < MaxAttempts
    THEN Move(p, [proc[p] EXCEPT !.phase = "attempt", !.attempt = @ + 1,
                                 !.reply = "none"])
    ELSE Reply(p, "close", "failed")

Succeed(p, v) == Reply(p, "close", v)

\* MUTANT: an attempt whose answer was lost is sent again.
NotAnswered(p, b) == Row(p, b) \in {"none", "started"}

NotStarted(p, b) == Row(p, b) = "none"

\* The row is committed before the call.
StartAttempt(p, b) ==
    /\ proc[p].phase = "attempt" /\ At(p, b)
    /\ NotStarted(p, b)
    /\ WriteRow(p, b, "started")
    /\ Goto(p, "call")
    /\ UNCHANGED <<scope, newest, cycles, holder, source, store, calls>>

\* A row without a result: the endpoint may have done the work, so the attempt
\* is spent and recorded as interrupted.
Interrupt(p, b) ==
    /\ proc[p].phase = "attempt" /\ At(p, b)
    /\ Row(p, b) = "started" /\ ~NotStarted(p, b)
    /\ WriteRow(p, b, "failed")
    /\ NextAttempt(p)
    /\ UNCHANGED <<scope, newest, cycles, holder, source, store, calls>>

ReplayFailure(p, b) ==
    /\ proc[p].phase = "attempt" /\ At(p, b)
    /\ Row(p, b) = "failed"
    /\ NextAttempt(p)
    /\ UNCHANGED <<journal, holder, source, store, calls>>

ReplaySuccess(p, b) ==
    /\ proc[p].phase = "attempt" /\ At(p, b)
    /\ Row(p, b) \in Verdicts
    /\ Succeed(p, Row(p, b))
    /\ UNCHANGED <<journal, holder, source, store, calls>>

CountCall(p, b) ==
    calls' = [calls EXCEPT ![b][proc[p].cycle][proc[p].attempt] = @ + 1]

Call(p, b) ==
    /\ proc[p].phase = "call" /\ At(p, b)
    /\ CountCall(p, b)
    /\ \E reply \in Verdicts \union {"failed"} : Reply(p, "reply", reply)
    /\ UNCHANGED <<journal, holder, source, store>>

\* The database session ends while the process waits for the model: the lock is
\* gone, and the process learns of it when it writes the answer.
LoseConnection(p) ==
    /\ proc[p].phase = "call"
    /\ Unlock(p)
    /\ Goto(p, "orphan")
    /\ UNCHANGED <<journal, source, store, calls>>

OrphanCall(p, b) ==
    /\ proc[p].phase = "orphan" /\ At(p, b)
    /\ CountCall(p, b)
    /\ Stop(p)
    /\ UNCHANGED <<journal, source, store>>

FinishFailure(p, b) ==
    /\ proc[p].phase = "reply" /\ At(p, b)
    /\ proc[p].reply = "failed"
    /\ WriteRow(p, b, "failed")
    /\ NextAttempt(p)
    /\ UNCHANGED <<scope, newest, cycles, holder, source, store, calls>>

FinishSuccess(p, b) ==
    /\ proc[p].phase = "reply" /\ At(p, b)
    /\ proc[p].reply \in Verdicts
    /\ WriteRow(p, b, proc[p].reply)
    /\ Succeed(p, proc[p].reply)
    /\ UNCHANGED <<scope, newest, cycles, holder, source, store, calls>>

\* MUTANT: a batch that failed is taken for a good one.
GoodByDefault(p) == IF proc[p].reply = "failed" THEN "good" ELSE proc[p].reply

Outcome(p) == IF proc[p].reply = "failed" THEN "unassessed" ELSE proc[p].reply

\* complete_batch, and the outcome of every alert of the batch.
Close(p, b) ==
    /\ proc[p].phase = "close" /\ At(p, b)
    /\ cycles' = [cycles EXCEPT ![b][proc[p].cycle].status =
           IF proc[p].reply = "failed" THEN "exhausted" ELSE "succeeded"]
    /\ Move(p, [proc[p] EXCEPT !.phase = "batch", !.cycle = 0, !.attempt = 0,
                               !.reply = "none",
                               !.outcome = [@ EXCEPT ![b] = Outcome(p)]])
    /\ UNCHANGED <<scope, newest, attempts, holder, source, store, calls>>

Work(p, b) ==
    \/ PrepareRefused(p, b) \/ OpenCycle(p, b) \/ ResumeCycle(p, b)
    \/ StartAttempt(p, b) \/ Interrupt(p, b)
    \/ ReplayFailure(p, b) \/ ReplaySuccess(p, b)
    \/ Call(p, b) \/ OrphanCall(p, b)
    \/ FinishFailure(p, b) \/ FinishSuccess(p, b) \/ Close(p, b)

----------------------------------------------------------------------------
\* Ending an invocation

Release(p) ==
    /\ proc[p].phase = "batch" /\ Finished(p)
    /\ Unlock(p)
    /\ Goto(p, "assessed")
    /\ UNCHANGED <<journal, source, store, calls>>

\* insert_verdict_if_absent for what the model said: the row there wins.
Inserted(outcome) ==
    [b \in Batches |-> IF verdicts[b] = "none" /\ outcome[b] \in Verdicts
                       THEN outcome[b] ELSE verdicts[b]]

\* persist_run, in one instant: ReviewStore has its steps.  The lock is not held.
Persist(p) ==
    /\ proc[p].phase = "assessed"
    /\ ~published
    /\ stored' = proc[p].outcome
    /\ verdicts' = Inserted(proc[p].outcome)
    /\ Move(p, Idle)
    /\ UNCHANGED <<journal, holder, source, published, calls>>

PersistRefused(p) ==
    /\ proc[p].phase = "assessed"
    /\ published
    /\ Stop(p)
    /\ UNCHANGED <<journal, source, store, calls>>

\* The process dies, or an exception ends it, at any point.
Crash(p) ==
    /\ proc[p].phase # "idle"
    /\ Stop(p)
    /\ UNCHANGED <<journal, source, store, calls>>

Step(p) ==
    \/ \E s \in Settings : Begin(p, s)
    \/ Acquire(p) \/ Refused(p) \/ Configure(p) \/ ConfigureRefused(p)
    \/ LoseConnection(p) \/ Release(p) \/ Persist(p) \/ PersistRefused(p)
    \/ Crash(p)
    \/ \E b \in Batches : Work(p, b)

----------------------------------------------------------------------------
\* The rest of the system

Publish ==
    /\ \A b \in Batches : stored[b] # "none"
    /\ ~published /\ published' = TRUE
    /\ UNCHANGED <<journal, holder, proc, source, verdicts, stored, calls>>

Withdraw ==
    /\ published /\ published' = FALSE
    /\ UNCHANGED <<journal, holder, proc, source, verdicts, stored, calls>>

\* A run of an overlapping window stores its verdict of the same alerts.
OtherRunPersists(b, v) ==
    /\ verdicts[b] = "none"
    /\ verdicts' = [verdicts EXCEPT ![b] = v]
    /\ UNCHANGED <<journal, holder, proc, source, stored, published, calls>>

\* The documents in Elasticsearch change, or expire.
SourceChanges(b) ==
    /\ \E r \in Requests : source' = [source EXCEPT ![b] = r]
    /\ UNCHANGED <<journal, holder, proc, store, calls>>

Environment ==
    \/ Publish \/ Withdraw
    \/ \E b \in Batches :
           SourceChanges(b) \/ \E v \in Verdicts : OtherRunPersists(b, v)

Init ==
    /\ scope = NoSettings
    /\ newest = [b \in Batches |-> 0]
    /\ cycles = [b \in Batches |->
           [c \in Cycles |-> [status |-> "none", request |-> "none"]]]
    /\ attempts = [b \in Batches |-> [c \in Cycles |-> [n \in Slots |-> "none"]]]
    /\ calls = [b \in Batches |-> [c \in Cycles |-> [n \in Slots |-> 0]]]
    /\ holder = Nobody
    /\ proc = [p \in Processes |-> Idle]
    /\ source \in [Batches -> Requests]
    /\ verdicts = [b \in Batches |-> "none"]
    /\ stored = [b \in Batches |-> "none"]
    /\ published = FALSE

Next == Environment \/ \E p \in Processes : Step(p)

Spec == Init /\ [][Next]_vars

----------------------------------------------------------------------------
\* Properties

Phases == {"idle", "ready", "locked", "batch", "attempt", "call", "orphan",
           "reply", "close", "assessed"}

Outcomes == Verdicts \union {"none", "unassessed"}

TypeOK ==
    /\ scope \in Settings \union {NoSettings}
    /\ newest \in [Batches -> 0 .. MaxCycles]
    /\ cycles \in [Batches -> [Cycles ->
           [status : {"none", "running", "succeeded", "exhausted"},
            request : Requests \union {"none"}]]]
    /\ attempts \in [Batches -> [Cycles -> [Slots ->
           Verdicts \union {"none", "started", "failed"}]]]
    /\ holder \in Processes \union {Nobody}
    /\ proc \in [Processes ->
           [phase : Phases, settings : Settings \union {NoSettings},
            request : [Batches -> Requests \union {"none"}],
            outcome : [Batches -> Outcomes],
            cycle : 0 .. MaxCycles, attempt : 0 .. MaxAttempts,
            reply : Verdicts \union {"none", "failed"}]]
    /\ source \in [Batches -> Requests]
    /\ verdicts \in [Batches -> Verdicts \union {"none"}]
    /\ stored \in [Batches -> Outcomes]
    /\ published \in BOOLEAN
    /\ calls \in [Batches -> [Cycles -> [Slots -> Nat]]]

\* An attempt is one call: however processes die, lose their session and resume
\* one another, the endpoint is called at most once for each journaled attempt,
\* and never for one that is not in the journal.
SlotCalledOnce ==
    \A b \in Batches, c \in Cycles, n \in Slots :
        calls[b][c][n] <= IF attempts[b][c][n] = "none" THEN 0 ELSE 1

\* What the endpoint is called with is what the journal says it was called with.
BytesAreRecorded ==
    \A p \in Processes, b \in Batches :
        proc[p].phase \in {"call", "orphan"} /\ At(p, b)
        => /\ cycles[b][proc[p].cycle].request = proc[p].request[b]
           /\ scope = proc[p].settings

\* What a run comes to say of a batch rests on the record: a verdict on an answer
\* in the journal or on a verdict stored before, and "unassessed" on a cycle whose
\* attempts all failed.
OutcomesRestOnEvidence ==
    [][stored' # stored =>
       \A b \in Batches :
           /\ stored'[b] \in Verdicts =>
                  \/ verdicts[b] = stored'[b]
                  \/ \E c \in Cycles, n \in Slots : attempts[b][c][n] = stored'[b]
           /\ stored'[b] = "unassessed" =>
                  \E c \in Cycles :
                      /\ cycles[b][c].status = "exhausted"
                      /\ \A n \in Slots : attempts[b][c][n] = "failed"]_vars

\* Nothing in the journal is rewritten: the result of an attempt and the request
\* of a cycle stay as they are.
EvidenceIsKept ==
    [][\A b \in Batches, c \in Cycles :
           /\ cycles[b][c].status # "none" =>
                  cycles'[b][c].request = cycles[b][c].request
           /\ \A n \in Slots : attempts[b][c][n] \notin {"none", "started"} =>
                  attempts'[b][c][n] = attempts[b][c][n]]_vars

\* The newest cycle of each batch, seen as a budget of attempts.
Spent(b) ==
    IF newest[b] = 0 THEN {}
    ELSE {n \in Slots : attempts[b][newest[b]][n] # "none"}

Decided(b) ==
    IF newest[b] = 0 THEN {}
    ELSE {v \in Verdicts : \E n \in Slots : attempts[b][newest[b]][n] = v}

Budget == INSTANCE AssessmentBudget
              WITH budget <- [b \in Batches |->
                       [cycle |-> newest[b], spent |-> Spent(b),
                        verdicts |-> Decided(b), exhausted |-> MustOpen(b)]]

\* The journal keeps each batch to its budget: a batch with a verdict is never
\* sent again, and one without is given up only when all attempts are spent.
BudgetIsKept == Budget!BudgetSpec

\* "The same alert always returns the same stored verdict": what a run says of an
\* alert is what the verdict table says of it.
SameAlertSameVerdict ==
    \A b \in Batches : stored[b] \in Verdicts => stored[b] = verdicts[b]

====
