---- MODULE LlmJournal_proofs ----
\* What TLAPS proves of LlmJournal, for any number of batches, attempts, cycles
\* and processes.  Everything rests on one fact: a process at work on a batch has
\* the lock, so the journal is as it left it.  A process that has lost the lock
\* does one thing more, the call of an attempt that is its own.
EXTENDS LlmJournal, TLAPS

----------------------------------------------------------------------------
\* The invariant

InBatch == {"attempt", "call", "reply", "close"}

Working == InBatch \union {"locked", "batch"}

Calling == {"call", "orphan"}

\* A process between `locked` and its end is the one that has the lock.
HasTheLock(p) == proc[p].phase \in Working => holder = p

\* An invocation has settings, and past `configure` they are the scope's.
HasTheScope(p) ==
    /\ proc[p].phase # "idle" => proc[p].settings # NoSettings
    /\ proc[p].phase \in InBatch \union {"batch", "orphan"} =>
           scope = proc[p].settings

\* A process at work is in the newest cycle, which is open, and all the attempts
\* before its own have failed.
Position(p, b) ==
    /\ newest[b] \in Cycles /\ proc[p].cycle = newest[b]
    /\ proc[p].attempt \in Slots
    /\ cycles[b][newest[b]].status # "exhausted"
    /\ \A m \in Slots : m < proc[p].attempt => attempts[b][newest[b]][m] = "failed"
    /\ proc[p].phase \in {"call", "reply"} => Row(p, b) = "started"
    /\ proc[p].phase = "reply" => proc[p].reply \in Verdicts \union {"failed"}
    /\ proc[p].phase = "close" =>
           \/ proc[p].reply \in Verdicts /\ Row(p, b) = proc[p].reply
           \/ /\ proc[p].reply = "failed"
              /\ \A n \in Slots : attempts[b][newest[b]][n] = "failed"

IsPlaced(p) ==
    \A b \in Batches : proc[p].phase \in InBatch /\ At(p, b) => Position(p, b)

\* A process about to call does it for an attempt in the journal that was not
\* called yet.
Uncalled(p, b) ==
    /\ proc[p].cycle \in Cycles /\ proc[p].cycle <= newest[b]
    /\ proc[p].attempt \in Slots
    /\ Row(p, b) # "none"
    /\ calls[b][proc[p].cycle][proc[p].attempt] = 0

MayCall(p) ==
    \A b \in Batches : proc[p].phase \in Calling /\ At(p, b) => Uncalled(p, b)

\* The request a process sends for a batch is the one its cycle records.
Recorded(p, b) == cycles[b][proc[p].cycle].request = proc[p].request[b]

SendsTheRecorded(p) ==
    \A b \in Batches :
        proc[p].phase \in InBatch \union {"orphan"} /\ At(p, b) => Recorded(p, b)

\* What a process says of a batch rests on the record.
Evidence(b, outcome) ==
    /\ outcome \in Verdicts =>
           \/ verdicts[b] = outcome
           \/ \E c \in Cycles, n \in Slots : attempts[b][c][n] = outcome
    /\ outcome = "unassessed" =>
           \E c \in Cycles :
               /\ cycles[b][c].status = "exhausted"
               /\ \A n \in Slots : attempts[b][c][n] = "failed"

HasEvidence(p) == \A b \in Batches : Evidence(b, proc[p].outcome[b])

InOrder(p) ==
    /\ HasTheLock(p) /\ HasTheScope(p) /\ IsPlaced(p) /\ MayCall(p)
    /\ SendsTheRecorded(p) /\ HasEvidence(p)

\* No two processes are about to call for the same attempt.
CallersAreApart ==
    \A p, q \in Processes, b \in Batches :
        /\ p # q
        /\ proc[p].phase \in Calling /\ At(p, b)
        /\ proc[q].phase \in Calling /\ At(q, b)
        => proc[p].cycle # proc[q].cycle \/ proc[p].attempt # proc[q].attempt

\* The cycles of a batch follow one another, each exhausted before the next.
CyclesInOrder ==
    \A b \in Batches, c \in Cycles :
        /\ c < newest[b] => cycles[b][c].status = "exhausted"
        /\ cycles[b][c].status = "none" <=> newest[b] < c

\* The attempts of a cycle follow one another, each failed before the next.
AttemptsInOrder ==
    \A b \in Batches, c \in Cycles, n \in Slots :
        /\ attempts[b][c][n] # "none" =>
               /\ c <= newest[b]
               /\ \A m \in Slots : m < n => attempts[b][c][m] = "failed"
        /\ cycles[b][c].status = "exhausted" => attempts[b][c][n] = "failed"

IInv ==
    /\ TypeOK
    /\ CyclesInOrder /\ AttemptsInOrder /\ SlotCalledOnce
    /\ CallersAreApart
    /\ \A p \in Processes : InOrder(p)

----------------------------------------------------------------------------
\* Writing one cell, moving one process

Rows == Verdicts \union {"none", "started", "failed"}

CycleRecords ==
    [status : {"none", "running", "succeeded", "exhausted"},
     request : Requests \union {"none"}]

States ==
    [phase : Phases, settings : Settings \union {NoSettings},
     request : [Batches -> Requests \union {"none"}],
     outcome : [Batches -> Outcomes],
     cycle : 0 .. MaxCycles, attempt : 0 .. MaxAttempts,
     reply : Verdicts \union {"none", "failed"}]

LEMMA CellWritten ==
    ASSUME NEW S, NEW f \in [Batches -> [Cycles -> [Slots -> S]]],
           NEW b \in Batches, NEW c \in Cycles, NEW n \in Slots, NEW v \in S,
           NEW g, g = [f EXCEPT ![b][c][n] = v]
    PROVE  /\ g \in [Batches -> [Cycles -> [Slots -> S]]]
           /\ \A b2 \in Batches, c2 \in Cycles, n2 \in Slots :
                  g[b2][c2][n2] = IF b2 = b /\ c2 = c /\ n2 = n THEN v
                                  ELSE f[b2][c2][n2]
  OBVIOUS

\* What a process writes is the cell of its attempt.
LEMMA RowWritten ==
    ASSUME TypeOK, NEW p \in Processes, NEW b \in Batches, NEW row \in Rows,
           proc[p].cycle \in Cycles, proc[p].attempt \in Slots,
           WriteRow(p, b, row)
    PROVE  /\ attempts' \in [Batches -> [Cycles -> [Slots -> Rows]]]
           /\ \A a \in Batches, c \in Cycles, n \in Slots :
                  attempts'[a][c][n] =
                      IF a = b /\ c = proc[p].cycle /\ n = proc[p].attempt
                      THEN row ELSE attempts[a][c][n]
  <1>1. attempts \in [Batches -> [Cycles -> [Slots -> Rows]]]
    BY DEF TypeOK, Rows
  <1>2. attempts' = [attempts EXCEPT ![b][proc[p].cycle][proc[p].attempt] = row]
    BY DEF WriteRow
  <1> QED
    BY <1>1, <1>2, CellWritten

LEMMA CallCounted ==
    ASSUME TypeOK, NEW p \in Processes, NEW b \in Batches,
           proc[p].cycle \in Cycles, proc[p].attempt \in Slots,
           CountCall(p, b)
    PROVE  /\ calls' \in [Batches -> [Cycles -> [Slots -> Nat]]]
           /\ \A a \in Batches, c \in Cycles, n \in Slots :
                  calls'[a][c][n] =
                      IF a = b /\ c = proc[p].cycle /\ n = proc[p].attempt
                      THEN calls[a][c][n] + 1 ELSE calls[a][c][n]
  <1> DEFINE k == calls[b][proc[p].cycle][proc[p].attempt] + 1
  <1>1. calls \in [Batches -> [Cycles -> [Slots -> Nat]]]
    BY DEF TypeOK
  <1>2. k \in Nat
    BY <1>1
  <1>3. calls' = [calls EXCEPT ![b][proc[p].cycle][proc[p].attempt] = k]
    BY DEF CountCall
  <1> HIDE DEF k
  <1>4. /\ calls' \in [Batches -> [Cycles -> [Slots -> Nat]]]
        /\ \A a \in Batches, c \in Cycles, n \in Slots :
               calls'[a][c][n] =
                   IF a = b /\ c = proc[p].cycle /\ n = proc[p].attempt
                   THEN k ELSE calls[a][c][n]
    BY <1>1, <1>2, <1>3, CellWritten
  <1> QED
    BY <1>4 DEF k

LEMMA StateOf ==
    ASSUME TypeOK, NEW p \in Processes
    PROVE  /\ proc \in [Processes -> States] /\ proc[p] \in States
           /\ proc[p].phase \in Phases
           /\ proc[p].settings \in Settings \union {NoSettings}
           /\ proc[p].request \in [Batches -> Requests \union {"none"}]
           /\ proc[p].outcome \in [Batches -> Outcomes]
           /\ proc[p].cycle \in 0 .. MaxCycles /\ proc[p].attempt \in 0 .. MaxAttempts
           /\ proc[p].reply \in Verdicts \union {"none", "failed"}
  <1>1. proc \in [Processes -> States]
    BY DEF TypeOK, States
  <1>2. proc[p] \in States
    BY <1>1
  <1> QED
    BY <1>1, <1>2 DEF States

LEMMA Moved ==
    ASSUME TypeOK, NEW p \in Processes, NEW state \in States, Move(p, state)
    PROVE  /\ proc' \in [Processes -> States]
           /\ proc'[p] = state
           /\ \A q \in Processes \ {p} : proc'[q] = proc[q]
  BY StateOf DEF Move

\* The fields a move gives, and those it leaves.
Kept(p) ==
    /\ proc'[p].settings = proc[p].settings
    /\ proc'[p].request = proc[p].request
    /\ proc'[p].outcome = proc[p].outcome

Alone(p) ==
    /\ proc' \in [Processes -> States]
    /\ \A q \in Processes \ {p} : proc'[q] = proc[q]

LEMMA GotoMoves ==
    ASSUME TypeOK, NEW p \in Processes, NEW phase \in Phases, Goto(p, phase)
    PROVE  /\ Alone(p) /\ Kept(p)
           /\ proc'[p].phase = phase
           /\ proc'[p].cycle = proc[p].cycle
           /\ proc'[p].attempt = proc[p].attempt
           /\ proc'[p].reply = proc[p].reply
  <1> DEFINE state == [proc[p] EXCEPT !.phase = phase]
  <1>1. state \in States
    BY StateOf DEF States
  <1>2. Move(p, state)
    BY DEF Goto
  <1>3. /\ state.phase = phase /\ state.settings = proc[p].settings
        /\ state.request = proc[p].request /\ state.outcome = proc[p].outcome
        /\ state.cycle = proc[p].cycle /\ state.attempt = proc[p].attempt
        /\ state.reply = proc[p].reply
    BY StateOf DEF States
  <1> HIDE DEF state
  <1> QED
    BY <1>1, <1>2, <1>3, Moved DEF Alone, Kept

LEMMA ReplyMoves ==
    ASSUME TypeOK, NEW p \in Processes, NEW phase \in Phases,
           NEW reply \in Verdicts \union {"none", "failed"}, Reply(p, phase, reply)
    PROVE  /\ Alone(p) /\ Kept(p)
           /\ proc'[p].phase = phase /\ proc'[p].reply = reply
           /\ proc'[p].cycle = proc[p].cycle
           /\ proc'[p].attempt = proc[p].attempt
  <1> DEFINE state == [proc[p] EXCEPT !.phase = phase, !.reply = reply]
  <1>1. state \in States
    BY StateOf DEF States
  <1>2. Move(p, state)
    BY DEF Reply
  <1>3. /\ state.phase = phase /\ state.settings = proc[p].settings
        /\ state.request = proc[p].request /\ state.outcome = proc[p].outcome
        /\ state.cycle = proc[p].cycle /\ state.attempt = proc[p].attempt
        /\ state.reply = reply
    BY StateOf DEF States
  <1> HIDE DEF state
  <1> QED
    BY <1>1, <1>2, <1>3, Moved DEF Alone, Kept

LEMMA EnterMoves ==
    ASSUME TypeOK, NEW p \in Processes, NEW c \in 0 .. MaxCycles, Enter(p, c)
    PROVE  /\ Alone(p) /\ Kept(p)
           /\ proc'[p].phase = "attempt"
           /\ proc'[p].cycle = c /\ proc'[p].attempt = 1
  <1> DEFINE state == [proc[p] EXCEPT !.phase = "attempt", !.cycle = c, !.attempt = 1]
  <1>0. 1 \in 0 .. MaxAttempts
    BY JournalAssumption
  <1>1. state \in States
    BY <1>0, StateOf, ZenonT(30) DEF States, Phases
  <1>2. Move(p, state)
    BY DEF Enter
  <1>3. /\ state.phase = "attempt" /\ state.settings = proc[p].settings
        /\ state.request = proc[p].request /\ state.outcome = proc[p].outcome
        /\ state.cycle = c /\ state.attempt = 1
    BY StateOf DEF States
  <1> HIDE DEF state
  <1> QED
    BY <1>1, <1>2, <1>3, Moved DEF Alone, Kept

LEMMA NextAttemptMoves ==
    ASSUME TypeOK, NEW p \in Processes, NextAttempt(p)
    PROVE  /\ Alone(p) /\ Kept(p)
           /\ proc'[p].cycle = proc[p].cycle
           /\ \/ /\ proc'[p].phase = "attempt"
                 /\ proc[p].attempt < MaxAttempts
                 /\ proc'[p].attempt = proc[p].attempt + 1
              \/ /\ proc'[p].phase = "close" /\ proc'[p].reply = "failed"
                 /\ proc[p].attempt >= MaxAttempts
                 /\ proc'[p].attempt = proc[p].attempt
  <1>1. proc[p].attempt \in 0 .. MaxAttempts /\ MaxAttempts \in Nat
    BY StateOf, JournalAssumption
  <1>2. CASE proc[p].attempt < MaxAttempts
    <2> DEFINE state == [proc[p] EXCEPT !.phase = "attempt", !.attempt = @ + 1,
                                        !.reply = "none"]
    <2>0. proc[p].attempt + 1 \in 0 .. MaxAttempts
      BY <1>1, <1>2
    <2>1. state \in States
      BY <2>0, StateOf, ZenonT(30) DEF States, Phases
    <2>2. Move(p, state)
      BY <1>2 DEF NextAttempt
    <2>3. /\ state.phase = "attempt" /\ state.settings = proc[p].settings
          /\ state.request = proc[p].request /\ state.outcome = proc[p].outcome
          /\ state.cycle = proc[p].cycle /\ state.attempt = proc[p].attempt + 1
      BY StateOf DEF States
    <2> HIDE DEF state
    <2> QED
      BY <1>2, <2>1, <2>2, <2>3, Moved DEF Alone, Kept
  <1>3. CASE ~(proc[p].attempt < MaxAttempts)
    <2>1. Reply(p, "close", "failed")
      BY <1>3 DEF NextAttempt
    <2>2. "close" \in Phases /\ "failed" \in Verdicts \union {"none", "failed"}
      BY DEF Phases
    <2> QED
      BY <1>1, <1>3, <2>1, <2>2, ReplyMoves
  <1> QED
    BY <1>2, <1>3

\* A process that is idle has nothing to keep in order.
LEMMA IdleMoves ==
    ASSUME TypeOK, NEW p \in Processes, Move(p, Idle)
    PROVE  /\ Alone(p)
           /\ proc'[p].phase = "idle"
           /\ \A b \in Batches : proc'[p].outcome[b] = "none"
  <1>1. Idle \in States
    BY JournalAssumption DEF Idle, States, Phases, Outcomes
  <1> QED
    BY <1>1, Moved DEF Alone, Idle

LEMMA BeginMoves ==
    ASSUME TypeOK, NEW p \in Processes, NEW s \in Settings, Begin(p, s)
    PROVE  /\ Alone(p)
           /\ proc'[p].phase = "ready" /\ proc'[p].settings = s
           /\ proc'[p].outcome = verdicts
  <1> DEFINE state == [Idle EXCEPT !.phase = "ready", !.settings = s,
                                   !.request = source, !.outcome = verdicts]
  <1>1. /\ source \in [Batches -> Requests \union {"none"}]
        /\ verdicts \in [Batches -> Outcomes]
    BY DEF TypeOK, Outcomes
  <1>2. state \in States
    <2>1. Idle \in States
      BY JournalAssumption DEF Idle, States, Phases, Outcomes
    <2> QED
      BY <1>1, <2>1 DEF States, Phases
  <1>3. Move(p, state)
    BY DEF Begin
  <1>4. state.phase = "ready" /\ state.settings = s /\ state.outcome = verdicts
    BY DEF Idle
  <1> HIDE DEF state
  <1> QED
    BY <1>2, <1>3, <1>4, Moved DEF Alone

LEMMA CloseMoves ==
    ASSUME TypeOK, NEW p \in Processes, NEW b \in Batches, Close(p, b),
           Outcome(p) \in Outcomes
    PROVE  /\ Alone(p)
           /\ proc'[p].phase = "batch"
           /\ proc'[p].settings = proc[p].settings
           /\ \A a \in Batches : proc'[p].outcome[a] =
                  IF a = b THEN Outcome(p) ELSE proc[p].outcome[a]
  <1> DEFINE outcome == [proc[p].outcome EXCEPT ![b] = Outcome(p)]
             state == [proc[p] EXCEPT !.phase = "batch", !.cycle = 0, !.attempt = 0,
                                      !.reply = "none", !.outcome = outcome]
  <1>1. /\ outcome \in [Batches -> Outcomes]
        /\ \A a \in Batches : outcome[a] =
               IF a = b THEN Outcome(p) ELSE proc[p].outcome[a]
    BY StateOf
  <1>2. Move(p, state)
    BY DEF Close
  <1> HIDE DEF outcome
  <1>3. 0 \in 0 .. MaxCycles /\ 0 \in 0 .. MaxAttempts
    BY JournalAssumption
  <1>4. state \in States
    <2>1. "batch" \in Phases /\ proc[p] \in States
      BY StateOf DEF Phases
    <2> QED
      BY <1>1, <1>3, <2>1 DEF States
  <1>5. /\ state.phase = "batch" /\ state.settings = proc[p].settings
        /\ state.outcome = outcome
    BY StateOf DEF States
  <1> HIDE DEF state
  <1> QED
    BY <1>1, <1>2, <1>4, <1>5, Moved DEF Alone

----------------------------------------------------------------------------
\* What a step keeps

\* A process is at one batch at most.
LEMMA AtOneBatch ==
    ASSUME NEW p \in Processes, NEW a \in Batches, NEW b \in Batches,
           At(p, a), At(p, b)
    PROVE  a = b
  <1>1. a \in Nat /\ b \in Nat
    BY JournalAssumption
  <1>2. a <= b /\ b <= a
    BY DEF At
  <1> QED
    BY <1>1, <1>2

\* The journal only grows.
Grows ==
    /\ scope # NoSettings => scope' = scope
    /\ \A b \in Batches : newest[b] <= newest'[b]
    /\ \A b \in Batches, c \in Cycles :
           /\ cycles[b][c].status # "none" =>
                  cycles'[b][c].request = cycles[b][c].request
           /\ cycles[b][c].status = "exhausted" => cycles'[b][c].status = "exhausted"
    /\ \A b \in Batches, c \in Cycles, n \in Slots :
           /\ attempts[b][c][n] # "none" => attempts'[b][c][n] # "none"
           /\ attempts[b][c][n] \notin {"none", "started"} =>
                  attempts'[b][c][n] = attempts[b][c][n]

VerdictsLast == \A b \in Batches : verdicts[b] \in Verdicts => verdicts'[b] = verdicts[b]

LEMMA JournalTypes ==
    ASSUME TypeOK
    PROVE  /\ newest \in [Batches -> 0 .. MaxCycles]
           /\ \A b \in Batches : newest[b] \in 0 .. MaxCycles
           /\ cycles \in [Batches -> [Cycles -> CycleRecords]]
           /\ attempts \in [Batches -> [Cycles -> [Slots -> Rows]]]
           /\ calls \in [Batches -> [Cycles -> [Slots -> Nat]]]
           /\ MaxAttempts \in Nat \ {0} /\ MaxCycles \in Nat
           /\ {"none", "started", "failed", "unassessed"} \intersect Verdicts = {}
  BY JournalAssumption DEF TypeOK, CycleRecords, Rows

LEMMA QuietGrows ==
    ASSUME TypeOK, UNCHANGED journal
    PROVE  Grows
  BY JournalTypes DEF journal, Grows

LEMMA EvidenceLasts ==
    ASSUME TypeOK, Grows, VerdictsLast, NEW b \in Batches, NEW outcome \in Outcomes,
           Evidence(b, outcome)
    PROVE  Evidence(b, outcome)'
  <1>1. \A v \in Verdicts : v \notin {"none", "started", "failed", "unassessed"}
    BY JournalAssumption
  <1>2. ASSUME outcome \in Verdicts
        PROVE  \/ verdicts'[b] = outcome
               \/ \E c \in Cycles, n \in Slots : attempts'[b][c][n] = outcome
    <2>1. CASE verdicts[b] = outcome
      BY <1>2, <2>1 DEF VerdictsLast
    <2>2. CASE \E c \in Cycles, n \in Slots : attempts[b][c][n] = outcome
      BY <1>1, <1>2, <2>2 DEF Grows
    <2> QED
      BY <1>2, <2>1, <2>2 DEF Evidence
  <1>3. ASSUME outcome = "unassessed"
        PROVE  \E c \in Cycles :
                   /\ cycles'[b][c].status = "exhausted"
                   /\ \A n \in Slots : attempts'[b][c][n] = "failed"
    <2>1. PICK c \in Cycles : /\ cycles[b][c].status = "exhausted"
                              /\ \A n \in Slots : attempts[b][c][n] = "failed"
      BY <1>3 DEF Evidence
    <2>2. \A n \in Slots : attempts'[b][c][n] = "failed"
      BY <2>1 DEF Grows
    <2> QED
      BY <2>1, <2>2 DEF Grows
  <1> QED
    BY <1>2, <1>3 DEF Evidence

\* A process that does not move stays in order, if the journal only grows, nobody
\* else writes while it is at work, and nobody else calls for its attempt.
LEMMA OtherInOrder ==
    ASSUME TypeOK, TypeOK', CyclesInOrder, Grows, VerdictsLast,
           NEW q \in Processes, InOrder(q), proc'[q] = proc[q],
           proc[q].phase \in Working => holder' = holder /\ UNCHANGED journal,
           \A b \in Batches : proc[q].phase \in Calling /\ At(q, b) =>
               calls'[b][proc[q].cycle][proc[q].attempt]
                   = calls[b][proc[q].cycle][proc[q].attempt]
    PROVE  InOrder(q)'
  <1>1. HasTheLock(q)'
    BY DEF InOrder, HasTheLock
  <1>2. HasTheScope(q)'
    BY DEF InOrder, HasTheScope, Grows, InBatch
  <1>3. \A b \in Batches : At(q, b)' <=> At(q, b)
    BY DEF At
  <1>4. IsPlaced(q)'
    <2> SUFFICES ASSUME NEW b \in Batches, proc[q].phase \in InBatch, At(q, b)
                 PROVE  Position(q, b)'
      BY <1>3 DEF IsPlaced
    <2>1. Position(q, b) /\ UNCHANGED journal
      BY DEF InOrder, IsPlaced, Working
    <2> QED
      BY <2>1 DEF Position, Row, journal
  <1>5. MayCall(q)'
    <2> SUFFICES ASSUME NEW b \in Batches, proc[q].phase \in Calling, At(q, b)
                 PROVE  Uncalled(q, b)'
      BY <1>3 DEF MayCall
    <2>1. Uncalled(q, b)
      BY DEF InOrder, MayCall
    <2>2. newest[b] <= newest'[b] /\ newest[b] \in Int /\ newest'[b] \in Int
      BY DEF Grows, TypeOK
    <2>3. proc[q].cycle \in Int /\ proc[q].cycle <= newest'[b]
      BY <2>1, <2>2, StateOf DEF Uncalled
    <2>4. calls'[b][proc[q].cycle][proc[q].attempt] = 0
      BY <2>1 DEF Uncalled
    <2>5. attempts'[b][proc[q].cycle][proc[q].attempt] # "none"
      BY <2>1 DEF Uncalled, Row, Grows
    <2> QED
      BY <2>1, <2>3, <2>4, <2>5 DEF Uncalled, Row
  <1>6. SendsTheRecorded(q)'
    <2> SUFFICES ASSUME NEW b \in Batches, proc[q].phase \in InBatch \union {"orphan"},
                        At(q, b)
                 PROVE  Recorded(q, b)'
      BY <1>3 DEF SendsTheRecorded
    <2>1. Recorded(q, b)
      BY DEF InOrder, SendsTheRecorded
    <2>2. CASE proc[q].phase \in InBatch
      BY <2>1, <2>2 DEF Recorded, Working, journal
    <2>3. CASE proc[q].phase = "orphan"
      <3>1. proc[q].cycle \in Cycles /\ proc[q].cycle <= newest[b]
        BY <2>3 DEF InOrder, MayCall, Uncalled, Calling
      <3>2. cycles[b][proc[q].cycle].status # "none"
        BY <3>1, JournalTypes DEF CyclesInOrder, Cycles
      <3> QED
        BY <2>1, <3>1, <3>2 DEF Recorded, Grows
    <2> QED
      BY <2>2, <2>3
  <1>7. HasEvidence(q)'
    <2> SUFFICES ASSUME NEW b \in Batches
                 PROVE  Evidence(b, proc[q].outcome[b])'
      BY DEF HasEvidence
    <2>1. Evidence(b, proc[q].outcome[b]) /\ proc[q].outcome[b] \in Outcomes
      BY StateOf DEF InOrder, HasEvidence
    <2>2. Evidence(b, proc[q].outcome[b])'
      BY <2>1, EvidenceLasts
    <2> QED
      BY <2>2
  <1> QED
    BY <1>1, <1>2, <1>4, <1>5, <1>6, <1>7 DEF InOrder

\* What a process says is still on the record.
LEMMA EvidenceOf ==
    ASSUME TypeOK, Grows, VerdictsLast, NEW p \in Processes, HasEvidence(p),
           proc'[p].outcome = proc[p].outcome
    PROVE  HasEvidence(p)'
  <1> SUFFICES ASSUME NEW b \in Batches
               PROVE  Evidence(b, proc[p].outcome[b])'
    BY DEF HasEvidence
  <1>1. proc[p].outcome[b] \in Outcomes /\ Evidence(b, proc[p].outcome[b])
    BY StateOf DEF HasEvidence
  <1>2. \A o : o = proc[p].outcome[b] => Evidence(b, o)'
    BY <1>1, EvidenceLasts
  <1> QED
    BY <1>2 DEF Evidence

\* A process that ends its step outside a batch.
LEMMA OutOfBatch ==
    ASSUME TypeOK, Grows, VerdictsLast, NEW p \in Processes, InOrder(p), Kept(p),
           proc[p].phase # "idle",
           proc'[p].phase \in {"ready", "locked", "batch", "assessed"},
           proc'[p].phase \in {"locked", "batch"} => holder' = p,
           proc'[p].phase = "batch" => scope' = proc[p].settings
    PROVE  InOrder(p)'
  <1>1. HasTheLock(p)'
    BY DEF HasTheLock, Working, InBatch
  <1>2. HasTheScope(p)'
    BY DEF InOrder, HasTheScope, InBatch, Kept
  <1>3. IsPlaced(p)' /\ MayCall(p)' /\ SendsTheRecorded(p)'
    BY DEF IsPlaced, MayCall, SendsTheRecorded, InBatch, Calling
  <1>4. HasEvidence(p)'
    BY EvidenceOf DEF InOrder, Kept
  <1> QED
    BY <1>1, <1>2, <1>3, <1>4 DEF InOrder

\* A process that ends its step in its batch.
LEMMA WithinBatch ==
    ASSUME TypeOK, Grows, VerdictsLast, NEW p \in Processes, NEW b \in Batches,
           InOrder(p), At(p, b), proc[p].phase \in InBatch \union {"batch"},
           Kept(p), proc'[p].phase \in InBatch,
           holder' = holder, scope' = scope,
           Position(p, b)', Recorded(p, b)',
           proc'[p].phase = "call" => Uncalled(p, b)'
    PROVE  InOrder(p)'
  <1>1. HasTheLock(p)'
    BY DEF InOrder, HasTheLock, Working
  <1>2. HasTheScope(p)'
    BY DEF InOrder, HasTheScope, InBatch, Kept
  <1>3. \A a \in Batches : At(p, a)' => a = b
    <2>1. \A a \in Batches : At(p, a)' <=> At(p, a)
      BY DEF At, Kept
    <2> QED
      BY <2>1, AtOneBatch
  <1>4. IsPlaced(p)' /\ SendsTheRecorded(p)'
    BY <1>3 DEF IsPlaced, SendsTheRecorded
  <1>5. MayCall(p)'
    BY <1>3 DEF MayCall, InBatch, Calling
  <1>6. HasEvidence(p)'
    BY EvidenceOf DEF InOrder, Kept
  <1> QED
    BY <1>1, <1>2, <1>4, <1>5, <1>6 DEF InOrder

LEMMA IdleInOrder ==
    ASSUME TypeOK, NEW p \in Processes, Move(p, Idle)
    PROVE  InOrder(p)'
  <1>1. proc'[p].phase = "idle" /\ \A b \in Batches : proc'[p].outcome[b] = "none"
    BY IdleMoves
  <1>2. (HasTheLock(p) /\ HasTheScope(p) /\ IsPlaced(p) /\ MayCall(p)
            /\ SendsTheRecorded(p))'
    BY <1>1 DEF HasTheLock, HasTheScope, IsPlaced, MayCall, SendsTheRecorded,
                Working, InBatch, Calling
  <1>3. HasEvidence(p)'
    BY <1>1, JournalAssumption DEF HasEvidence, Evidence
  <1> QED
    BY <1>2, <1>3 DEF InOrder

----------------------------------------------------------------------------
\* A step of one process, as the others see it

\* The endpoint was called for p's attempt, and p calls no more.
Counted(p) ==
    /\ proc[p].phase \in Calling /\ proc'[p].phase \notin Calling
    /\ \E b \in Batches :
           /\ At(p, b)
           /\ \A a \in Batches, c \in Cycles, n \in Slots :
                  calls'[a][c][n] =
                      IF a = b /\ c = proc[p].cycle /\ n = proc[p].attempt
                      THEN calls[a][c][n] + 1 ELSE calls[a][c][n]

\* A process comes to call for an attempt that was not in the journal.
CallsForItsOwn(p) ==
    proc'[p].phase \in Calling =>
        /\ Kept(p)
        /\ proc'[p].cycle = proc[p].cycle /\ proc'[p].attempt = proc[p].attempt
        /\ \/ proc[p].phase \in Calling
           \/ \A b \in Batches : At(p, b) => Row(p, b) = "none"

Orderly(p) ==
    /\ TypeOK' /\ CyclesInOrder' /\ AttemptsInOrder' /\ InOrder(p)'
    /\ Alone(p) /\ Grows /\ VerdictsLast
    /\ proc[p].phase \in Working \/ UNCHANGED journal
    /\ holder' = holder \/ holder \in {p, Nobody}
    /\ calls' = calls \/ Counted(p)
    /\ CallsForItsOwn(p)

LEMMA OrderlyInv ==
    ASSUME IInv, NEW p \in Processes, Orderly(p)
    PROVE  IInv'
  <1>1. TypeOK /\ TypeOK' /\ InOrder(p) /\ \A q \in Processes : InOrder(q)
    BY DEF IInv, Orderly
  <1>2. ASSUME NEW b \in Batches, proc[p].phase \in Calling, At(p, b)
        PROVE  Uncalled(p, b)
    BY <1>1, <1>2 DEF InOrder, MayCall
  <1>3. ASSUME NEW q \in Processes \ {p}
        PROVE  InOrder(q)'
    <2>1. proc'[q] = proc[q] /\ InOrder(q)
      BY <1>1 DEF Orderly, Alone
    <2>2. proc[q].phase \in Working => holder' = holder /\ UNCHANGED journal
      BY <1>1, <2>1, JournalAssumption DEF InOrder, HasTheLock, Orderly
    <2>3. ASSUME NEW b \in Batches, proc[q].phase \in Calling, At(q, b)
          PROVE  calls'[b][proc[q].cycle][proc[q].attempt]
                     = calls[b][proc[q].cycle][proc[q].attempt]
      <3>1. CASE Counted(p)
        <4>1. Uncalled(q, b)
          BY <2>1, <2>3 DEF InOrder, MayCall
        <4>2. At(p, b) => \/ proc[p].cycle # proc[q].cycle
                          \/ proc[p].attempt # proc[q].attempt
          BY <2>3, <3>1 DEF IInv, CallersAreApart, Counted
        <4> QED
          BY <3>1, <4>1, <4>2 DEF Counted, Uncalled
      <3> QED
        BY <3>1 DEF Orderly
    <2> QED
      BY <1>1, <2>1, <2>2, <2>3, OtherInOrder DEF IInv, Orderly
  <1>4. SlotCalledOnce'
    <2> SUFFICES ASSUME NEW b \in Batches, NEW c \in Cycles, NEW n \in Slots
                 PROVE  calls'[b][c][n] <= IF attempts'[b][c][n] = "none" THEN 0 ELSE 1
      BY DEF SlotCalledOnce
    <2>1. calls[b][c][n] \in Nat /\ calls'[b][c][n] \in Nat
      BY <1>1 DEF TypeOK
    <2>2. /\ calls[b][c][n] <= IF attempts[b][c][n] = "none" THEN 0 ELSE 1
          /\ attempts[b][c][n] # "none" => attempts'[b][c][n] # "none"
      BY DEF IInv, SlotCalledOnce, Orderly, Grows
    <2>3. CASE calls'[b][c][n] = calls[b][c][n]
      BY <2>1, <2>2, <2>3
    <2>4. CASE calls'[b][c][n] # calls[b][c][n]
      <3>1. /\ proc[p].phase \in Calling /\ At(p, b)
            /\ c = proc[p].cycle /\ n = proc[p].attempt
            /\ calls'[b][c][n] = calls[b][c][n] + 1
        BY <2>4 DEF Orderly, Counted
      <3>2. Uncalled(p, b)
        BY <1>2, <3>1
      <3>3. calls[b][c][n] = 0 /\ attempts[b][c][n] # "none"
        BY <3>1, <3>2 DEF Uncalled, Row
      <3> QED
        BY <2>2, <3>1, <3>3
    <2> QED
      BY <2>3, <2>4
  <1>5. ASSUME NEW q \in Processes \ {p}, NEW b \in Batches,
               proc'[p].phase \in Calling, At(p, b)',
               proc'[q].phase \in Calling, At(q, b)'
        PROVE  proc'[p].cycle # proc'[q].cycle \/ proc'[p].attempt # proc'[q].attempt
    <2>1. proc'[q] = proc[q]
      BY DEF Orderly, Alone
    <2>2. /\ proc'[p].cycle = proc[p].cycle /\ proc'[p].attempt = proc[p].attempt
          /\ At(p, b) /\ At(q, b)
      BY <1>5, <2>1 DEF Orderly, CallsForItsOwn, Kept, At
    <2>3. CASE proc[p].phase \in Calling
      BY <1>5, <2>1, <2>2, <2>3 DEF IInv, CallersAreApart
    <2>4. CASE Row(p, b) = "none"
      <3>1. Uncalled(q, b)
        BY <1>1, <1>5, <2>1, <2>2 DEF InOrder, MayCall
      <3> QED
        BY <2>1, <2>2, <2>4, <3>1 DEF Uncalled, Row
    <2> QED
      BY <1>5, <2>2, <2>3, <2>4 DEF Orderly, CallsForItsOwn
  <1>6. CallersAreApart'
    <2> SUFFICES ASSUME NEW q \in Processes, NEW r \in Processes, NEW b \in Batches,
                        q # r,
                        proc'[q].phase \in Calling, At(q, b)',
                        proc'[r].phase \in Calling, At(r, b)'
                 PROVE  proc'[q].cycle # proc'[r].cycle
                            \/ proc'[q].attempt # proc'[r].attempt
      BY DEF CallersAreApart
    <2>1. CASE q = p
      BY <1>5, <2>1
    <2>2. CASE r = p
      BY <1>5, <2>2
    <2>3. CASE q # p /\ r # p
      <3>1. proc'[q] = proc[q] /\ proc'[r] = proc[r]
        BY <2>3 DEF Orderly, Alone
      <3>2. At(q, b) /\ At(r, b)
        BY <3>1 DEF At
      <3> QED
        BY <3>1, <3>2 DEF IInv, CallersAreApart
    <2> QED
      BY <2>1, <2>2, <2>3
  <1> QED
    BY <1>1, <1>3, <1>4, <1>6 DEF IInv, Orderly

----------------------------------------------------------------------------
\* The steps that write nothing in the journal and call nobody

LEMMA QuietOrderly ==
    ASSUME IInv, NEW p \in Processes, UNCHANGED <<journal, calls>>, Alone(p),
           UNCHANGED <<source, published>>,
           VerdictsLast, verdicts' \in [Batches -> Verdicts \union {"none"}],
           stored' \in [Batches -> Outcomes],
           holder' \in Processes \union {Nobody},
           holder' = holder \/ holder \in {p, Nobody},
           CallsForItsOwn(p),
           InOrder(p)'
    PROVE  Orderly(p)
  <1>1. TypeOK /\ CyclesInOrder /\ AttemptsInOrder
    BY DEF IInv
  <1>2. CyclesInOrder' /\ AttemptsInOrder'
    BY <1>1 DEF CyclesInOrder, AttemptsInOrder, journal
  <1>3. TypeOK'
    BY <1>1 DEF TypeOK, Alone, States, journal
  <1>4. Grows
    BY <1>1, QuietGrows
  <1> QED
    BY <1>2, <1>3, <1>4 DEF Orderly

\* An invocation ends, or dies.
LEMMA StopOrderly ==
    ASSUME IInv, NEW p \in Processes, Stop(p), UNCHANGED <<journal, source, store, calls>>
    PROVE  Orderly(p)
  <1>1. TypeOK
    BY DEF IInv
  <1>2. Alone(p) /\ proc'[p].phase = "idle" /\ InOrder(p)'
    BY <1>1, IdleMoves, IdleInOrder DEF Stop
  <1>3. CallsForItsOwn(p)
    BY <1>2 DEF CallsForItsOwn, Calling
  <1>4. /\ holder' \in Processes \union {Nobody}
        /\ holder' = holder \/ holder \in {p, Nobody}
    BY <1>1 DEF Stop, Unlock, TypeOK
  <1>5. /\ VerdictsLast /\ verdicts' \in [Batches -> Verdicts \union {"none"}]
        /\ stored' \in [Batches -> Outcomes] /\ UNCHANGED <<source, published, journal, calls>>
    BY <1>1 DEF VerdictsLast, store, TypeOK
  <1> QED
    BY <1>2, <1>3, <1>4, <1>5, QuietOrderly

\* A process goes from one phase outside a batch to another.
LEMMA GotoOrderly ==
    ASSUME IInv, NEW p \in Processes, NEW phase \in {"locked", "assessed"},
           Goto(p, phase), proc[p].phase # "idle",
           holder' \in Processes \union {Nobody},
           holder' = holder \/ holder \in {p, Nobody},
           phase = "locked" => holder' = p,
           UNCHANGED <<journal, source, store, calls>>
    PROVE  Orderly(p)
  <1>1. TypeOK /\ InOrder(p) /\ phase \in Phases
    BY DEF IInv, Phases
  <1>2. Alone(p) /\ Kept(p) /\ proc'[p].phase = phase
    BY <1>1, GotoMoves
  <1>3. /\ VerdictsLast /\ verdicts' \in [Batches -> Verdicts \union {"none"}]
        /\ stored' \in [Batches -> Outcomes] /\ UNCHANGED <<source, published, journal, calls>>
    BY <1>1 DEF VerdictsLast, store, TypeOK
  <1>4. Grows
    BY <1>1, QuietGrows
  <1>5. InOrder(p)'
    BY <1>1, <1>2, <1>3, <1>4, OutOfBatch
  <1>6. CallsForItsOwn(p)
    BY <1>2 DEF CallsForItsOwn, Calling
  <1> QED
    BY <1>2, <1>3, <1>5, <1>6, QuietOrderly

LEMMA BeginOrderly ==
    ASSUME IInv, NEW p \in Processes, NEW s \in Settings, Begin(p, s)
    PROVE  Orderly(p)
  <1>1. TypeOK
    BY DEF IInv
  <1>2. /\ Alone(p) /\ proc'[p].phase = "ready" /\ proc'[p].settings = s
        /\ proc'[p].outcome = verdicts
    BY <1>1, BeginMoves
  <1>3. UNCHANGED <<journal, holder, source, store, calls>>
    BY DEF Begin
  <1>4. /\ VerdictsLast /\ verdicts' \in [Batches -> Verdicts \union {"none"}]
        /\ stored' \in [Batches -> Outcomes] /\ UNCHANGED <<source, published, journal, calls>>
        /\ holder' \in Processes \union {Nobody} /\ holder' = holder
    BY <1>1, <1>3 DEF VerdictsLast, store, TypeOK
  <1>5. CallsForItsOwn(p)
    BY <1>2 DEF CallsForItsOwn, Calling
  <1>6. (HasTheLock(p) /\ HasTheScope(p) /\ IsPlaced(p) /\ MayCall(p)
            /\ SendsTheRecorded(p))'
    BY <1>2, JournalAssumption
       DEF HasTheLock, HasTheScope, IsPlaced, MayCall, SendsTheRecorded,
           Working, InBatch, Calling
  <1>7. HasEvidence(p)'
    <2>1. \A b \in Batches : verdicts'[b] = verdicts[b] /\ verdicts[b] # "unassessed"
      BY <1>1, <1>3, JournalAssumption DEF store, TypeOK
    <2> QED
      BY <1>2, <2>1 DEF HasEvidence, Evidence
  <1> QED
    BY <1>2, <1>4, <1>5, <1>6, <1>7, QuietOrderly DEF InOrder

\* persist_run writes the run and the verdict table, and adds to both.
LEMMA PersistOrderly ==
    ASSUME IInv, NEW p \in Processes, Persist(p)
    PROVE  Orderly(p)
  <1>1. TypeOK
    BY DEF IInv
  <1>2. Move(p, Idle)
    BY DEF Persist
  <1>3. Alone(p) /\ proc'[p].phase = "idle" /\ InOrder(p)'
    BY <1>1, <1>2, IdleMoves, IdleInOrder
  <1>4. CallsForItsOwn(p)
    BY <1>3 DEF CallsForItsOwn, Calling
  <1>5. VerdictsLast /\ verdicts' \in [Batches -> Verdicts \union {"none"}]
    BY <1>1, JournalAssumption DEF Persist, Inserted, VerdictsLast, TypeOK
  <1>6. stored' \in [Batches -> Outcomes]
    BY <1>1, StateOf DEF Persist
  <1>7. /\ UNCHANGED <<source, published, journal, calls>>
        /\ holder' \in Processes \union {Nobody} /\ holder' = holder
    BY <1>1 DEF Persist, TypeOK
  <1> QED
    BY <1>3, <1>4, <1>5, <1>6, <1>7, QuietOrderly

\* The lock is lost before the answer is here.
LEMMA LoseConnectionOrderly ==
    ASSUME IInv, NEW p \in Processes, LoseConnection(p)
    PROVE  Orderly(p)
  <1>1. TypeOK /\ InOrder(p) /\ "orphan" \in Phases
    BY DEF IInv, Phases
  <1>2. /\ Alone(p) /\ Kept(p) /\ proc'[p].phase = "orphan"
        /\ proc'[p].cycle = proc[p].cycle /\ proc'[p].attempt = proc[p].attempt
    BY <1>1, GotoMoves DEF LoseConnection
  <1>3. proc[p].phase = "call" /\ UNCHANGED <<journal, source, store, calls>>
    BY DEF LoseConnection
  <1>4. /\ VerdictsLast /\ verdicts' \in [Batches -> Verdicts \union {"none"}]
        /\ stored' \in [Batches -> Outcomes] /\ UNCHANGED <<source, published, journal, calls>>
    BY <1>1, <1>3 DEF VerdictsLast, store, TypeOK
  <1>5. /\ holder' \in Processes \union {Nobody}
        /\ holder' = holder \/ holder \in {p, Nobody}
    BY <1>1 DEF LoseConnection, Unlock, TypeOK
  <1>6. CallsForItsOwn(p)
    BY <1>2, <1>3 DEF CallsForItsOwn, Calling
  <1>7. \A b \in Batches : At(p, b)' <=> At(p, b)
    BY <1>2 DEF At, Kept
  <1>8. Grows
    BY <1>1, <1>3, QuietGrows
  <1>9. InOrder(p)'
    <2>1. HasTheLock(p)' /\ IsPlaced(p)'
      BY <1>2 DEF HasTheLock, IsPlaced, Working, InBatch
    <2>2. HasTheScope(p)'
      BY <1>1, <1>2, <1>3 DEF InOrder, HasTheScope, InBatch, Kept, journal
    <2>3. MayCall(p)'
      BY <1>1, <1>2, <1>3, <1>7 DEF InOrder, MayCall, Calling, Uncalled, Row, journal
    <2>4. SendsTheRecorded(p)'
      BY <1>1, <1>2, <1>3, <1>7
         DEF InOrder, SendsTheRecorded, InBatch, Recorded, Kept, journal
    <2>5. HasEvidence(p)'
      BY <1>1, <1>2, <1>4, <1>8, EvidenceOf DEF InOrder, Kept
    <2> QED
      BY <2>1, <2>2, <2>3, <2>4, <2>5 DEF InOrder
  <1> QED
    BY <1>2, <1>4, <1>5, <1>6, <1>9, QuietOrderly

----------------------------------------------------------------------------
\* The steps of a batch

\* What is known of a process at work on a batch.
LEMMA AtWork ==
    ASSUME IInv, NEW p \in Processes, NEW b \in Batches, At(p, b),
           proc[p].phase \in InBatch
    PROVE  /\ TypeOK /\ InOrder(p) /\ Position(p, b) /\ Recorded(p, b)
           /\ holder = p /\ proc[p].phase \in Working
           /\ proc[p].cycle = newest[b] /\ proc[p].cycle \in Cycles
           /\ proc[p].attempt \in Slots
           /\ newest[b] \in 0 .. MaxCycles /\ cycles[b][newest[b]].status # "none"
           /\ \A n \in Slots : n > proc[p].attempt /\ Row(p, b) # "failed" =>
                  attempts[b][newest[b]][n] = "none"
  <1>1. TypeOK /\ InOrder(p) /\ Position(p, b) /\ Recorded(p, b)
    BY DEF IInv, InOrder, IsPlaced, SendsTheRecorded
  <1>2. holder = p /\ proc[p].phase \in Working
    BY <1>1 DEF InOrder, HasTheLock, Working
  <1>3. /\ proc[p].cycle = newest[b] /\ proc[p].cycle \in Cycles
        /\ proc[p].attempt \in Slots
    BY <1>1 DEF Position
  <1>4. newest[b] \in 0 .. MaxCycles /\ cycles[b][newest[b]].status # "none"
    BY <1>1, <1>3, JournalTypes DEF IInv, CyclesInOrder
  <1>5. \A n \in Slots : n > proc[p].attempt /\ Row(p, b) # "failed" =>
            attempts[b][newest[b]][n] = "none"
    <2>1. proc[p].attempt \in Int /\ \A n \in Slots : n \in Int
      BY <1>3 DEF Slots
    <2> QED
      BY <1>3, <2>1 DEF IInv, AttemptsInOrder, Row
  <1> QED
    BY <1>1, <1>2, <1>3, <1>4, <1>5

\* A process in a batch moves on in it, and writes nothing.
LEMMA QuietInBatch ==
    ASSUME IInv, NEW p \in Processes, NEW b \in Batches, At(p, b),
           proc[p].phase \in InBatch \union {"batch"},
           UNCHANGED <<journal, holder, source, store, calls>>,
           Alone(p), Kept(p), proc'[p].phase \in InBatch \ Calling,
           Position(p, b)', Recorded(p, b)'
    PROVE  Orderly(p)
  <1>1. TypeOK /\ InOrder(p)
    BY DEF IInv
  <1>2. /\ VerdictsLast /\ verdicts' \in [Batches -> Verdicts \union {"none"}]
        /\ stored' \in [Batches -> Outcomes] /\ UNCHANGED <<source, published, journal, calls>>
        /\ holder' \in Processes \union {Nobody} /\ holder' = holder /\ scope' = scope
    BY <1>1 DEF VerdictsLast, store, TypeOK, journal
  <1>3. Grows
    BY <1>1, QuietGrows
  <1>4. CallsForItsOwn(p)
    BY DEF CallsForItsOwn
  <1>5. InOrder(p)'
    BY <1>1, <1>2, <1>3, WithinBatch DEF Calling
  <1> QED
    BY <1>2, <1>4, <1>5, QuietOrderly

LEMMA ResumeCycleOrderly ==
    ASSUME IInv, NEW p \in Processes, NEW b \in Batches, ResumeCycle(p, b)
    PROVE  Orderly(p)
  <1>1. TypeOK /\ newest[b] \in 0 .. MaxCycles
    BY JournalTypes DEF IInv
  <1>2. /\ Alone(p) /\ Kept(p) /\ proc'[p].phase = "attempt"
        /\ proc'[p].cycle = newest[b] /\ proc'[p].attempt = 1
    BY <1>1, EnterMoves DEF ResumeCycle
  <1>3. /\ newest[b] \in Cycles /\ cycles[b][newest[b]].status # "exhausted"
        /\ cycles[b][newest[b]].request = proc[p].request[b]
    BY <1>1 DEF ResumeCycle, MustOpen, SameRequest, Newest, Cycles
  <1>4. Position(p, b)'
    <2>1. 1 \in Slots /\ \A m \in Slots : ~(m < 1)
      BY JournalAssumption DEF Slots
    <2> QED
      BY <1>2, <1>3, <2>1 DEF Position, ResumeCycle, journal
  <1>5. Recorded(p, b)'
    BY <1>2, <1>3 DEF Recorded, ResumeCycle, journal, Kept
  <1> QED
    BY <1>2, <1>4, <1>5, QuietInBatch DEF ResumeCycle, InBatch, Calling

\* The attempts before the next one have failed.
LEMMA NextIsPlaced ==
    ASSUME TypeOK, NEW p \in Processes, NEW b \in Batches, NextAttempt(p),
           newest[b] \in Cycles, newest' = newest, proc[p].cycle = newest[b],
           proc[p].attempt \in Slots,
           cycles' = cycles, cycles[b][newest[b]].status # "exhausted",
           \A m \in Slots :
               m <= proc[p].attempt => attempts'[b][newest[b]][m] = "failed"
    PROVE  Position(p, b)'
  <1>1. /\ proc'[p].cycle = proc[p].cycle
        /\ \/ /\ proc'[p].phase = "attempt"
              /\ proc[p].attempt < MaxAttempts
              /\ proc'[p].attempt = proc[p].attempt + 1
           \/ /\ proc'[p].phase = "close" /\ proc'[p].reply = "failed"
              /\ proc[p].attempt >= MaxAttempts
              /\ proc'[p].attempt = proc[p].attempt
    BY NextAttemptMoves
  <1>2. proc[p].attempt \in Int /\ MaxAttempts \in Int
    BY JournalAssumption DEF Slots
  <1>3. proc'[p].attempt \in Slots
    BY <1>1, <1>2 DEF Slots
  <1>4. \A m \in Slots : m \in Int /\ m <= MaxAttempts
    BY DEF Slots
  <1>5. \A m \in Slots : m < proc'[p].attempt => attempts'[b][newest[b]][m] = "failed"
    BY <1>1, <1>2, <1>4
  <1>6. proc'[p].phase = "close" => \A n \in Slots : attempts'[b][newest[b]][n] = "failed"
    BY <1>1, <1>2, <1>4
  <1> QED
    BY <1>1, <1>3, <1>5, <1>6 DEF Position

LEMMA ReplayFailureOrderly ==
    ASSUME IInv, NEW p \in Processes, NEW b \in Batches, ReplayFailure(p, b)
    PROVE  Orderly(p)
  <1>1. /\ TypeOK /\ Position(p, b) /\ Recorded(p, b)
        /\ proc[p].cycle = newest[b] /\ proc[p].attempt \in Slots
    BY AtWork DEF ReplayFailure, InBatch
  <1>2. UNCHANGED journal /\ NextAttempt(p) /\ Row(p, b) = "failed" /\ At(p, b)
    BY DEF ReplayFailure
  <1>3. Alone(p) /\ Kept(p) /\ proc'[p].phase \in {"attempt", "close"}
            /\ proc'[p].cycle = proc[p].cycle
    BY <1>1, <1>2, NextAttemptMoves
  <1>4. \A m \in Slots : m <= proc[p].attempt => attempts'[b][newest[b]][m] = "failed"
    <2>1. \A m \in Slots : m <= proc[p].attempt => m < proc[p].attempt \/ m = proc[p].attempt
      BY <1>1 DEF Slots
    <2> QED
      BY <1>1, <1>2, <2>1 DEF Position, Row, journal
  <1>5. Position(p, b)'
    BY <1>1, <1>2, <1>4, NextIsPlaced DEF journal, Position
  <1>6. Recorded(p, b)'
    BY <1>1, <1>2, <1>3 DEF Recorded, journal, Kept
  <1> QED
    BY <1>2, <1>3, <1>5, <1>6, QuietInBatch DEF ReplayFailure, InBatch, Calling

LEMMA ReplaySuccessOrderly ==
    ASSUME IInv, NEW p \in Processes, NEW b \in Batches, ReplaySuccess(p, b)
    PROVE  Orderly(p)
  <1>1. /\ TypeOK /\ Position(p, b) /\ Recorded(p, b) /\ "close" \in Phases
    BY AtWork DEF ReplaySuccess, InBatch, Phases
  <1>2. UNCHANGED journal /\ Row(p, b) \in Verdicts /\ At(p, b)
    BY DEF ReplaySuccess
  <1>3. /\ Alone(p) /\ Kept(p) /\ proc'[p].phase = "close"
        /\ proc'[p].reply = Row(p, b)
        /\ proc'[p].cycle = proc[p].cycle /\ proc'[p].attempt = proc[p].attempt
    <2> DEFINE row == Row(p, b)
    <2>1. row \in Verdicts \union {"none", "failed"} /\ Reply(p, "close", row)
      BY <1>2 DEF ReplaySuccess, Succeed
    <2> HIDE DEF row
    <2>2. /\ Alone(p) /\ Kept(p) /\ proc'[p].phase = "close" /\ proc'[p].reply = row
          /\ proc'[p].cycle = proc[p].cycle /\ proc'[p].attempt = proc[p].attempt
      BY <1>1, <2>1, ReplyMoves
    <2> QED
      BY <2>2 DEF row
  <1>4. Position(p, b)'
    BY <1>1, <1>2, <1>3 DEF Position, Row, journal
  <1>5. Recorded(p, b)'
    BY <1>1, <1>2, <1>3 DEF Recorded, journal, Kept
  <1> QED
    BY <1>2, <1>3, <1>4, <1>5, QuietInBatch DEF ReplaySuccess, InBatch, Calling

----------------------------------------------------------------------------
\* The steps that write the row of an attempt

\* The row of the attempt a process is at is written over nothing or "started".
Writes(p, b, row) ==
    /\ At(p, b) /\ proc[p].phase \in InBatch
    /\ Row(p, b) \in {"none", "started"}
    /\ WriteRow(p, b, row)
    /\ UNCHANGED <<scope, newest, cycles, holder, source, store, calls>>

LEMMA RowIsWritten ==
    ASSUME IInv, NEW p \in Processes, NEW b \in Batches,
           NEW row \in Rows \ {"none"}, Writes(p, b, row), Alone(p)
    PROVE  /\ TypeOK' /\ CyclesInOrder' /\ AttemptsInOrder'
           /\ Grows /\ VerdictsLast
           /\ attempts'[b][newest[b]][proc[p].attempt] = row
           /\ \A m \in Slots :
                  m < proc[p].attempt => attempts'[b][newest[b]][m] = "failed"
  <1>1. /\ TypeOK /\ Position(p, b)
        /\ proc[p].cycle = newest[b] /\ proc[p].cycle \in Cycles
        /\ proc[p].attempt \in Slots
        /\ \A n \in Slots : n > proc[p].attempt /\ Row(p, b) # "failed" =>
               attempts[b][newest[b]][n] = "none"
    BY AtWork DEF Writes
  <1>2. /\ attempts' \in [Batches -> [Cycles -> [Slots -> Rows]]]
        /\ \A a \in Batches, c \in Cycles, n \in Slots :
               attempts'[a][c][n] =
                   IF a = b /\ c = newest[b] /\ n = proc[p].attempt
                   THEN row ELSE attempts[a][c][n]
    BY <1>1, RowWritten DEF Writes
  <1>3. TypeOK'
    BY <1>1, <1>2 DEF TypeOK, Alone, States, Writes, Rows, store
  <1>4. CyclesInOrder'
    BY DEF IInv, CyclesInOrder, Writes
  <1>5. Row(p, b) = attempts[b][newest[b]][proc[p].attempt]
    BY <1>1 DEF Row
  <1>6. Grows
    <2>1. /\ \A a \in Batches : newest[a] <= newest'[a]
          /\ UNCHANGED <<scope, cycles>>
      BY <1>1, JournalTypes DEF Writes
    <2>2. \A a \in Batches, c \in Cycles, n \in Slots :
              /\ attempts[a][c][n] # "none" => attempts'[a][c][n] # "none"
              /\ attempts[a][c][n] \notin {"none", "started"} =>
                     attempts'[a][c][n] = attempts[a][c][n]
      BY <1>2, <1>5 DEF Writes
    <2> QED
      BY <2>1, <2>2 DEF Grows
  <1>7. AttemptsInOrder'
    <2> SUFFICES ASSUME NEW a \in Batches, NEW c \in Cycles, NEW n \in Slots
                 PROVE  /\ attempts'[a][c][n] # "none" =>
                               /\ c <= newest[a]
                               /\ \A m \in Slots : m < n => attempts'[a][c][m] = "failed"
                        /\ cycles[a][c].status = "exhausted" =>
                               attempts'[a][c][n] = "failed"
      BY DEF AttemptsInOrder, Writes
    <2>1. /\ attempts[a][c][n] # "none" =>
                 /\ c <= newest[a]
                 /\ \A m \in Slots : m < n => attempts[a][c][m] = "failed"
          /\ cycles[a][c].status = "exhausted" => attempts[a][c][n] = "failed"
      BY DEF IInv, AttemptsInOrder
    <2>2. CASE ~(a = b /\ c = newest[b])
      BY <1>2, <2>1, <2>2
    <2>3. CASE a = b /\ c = newest[b]
      <3>1. cycles[a][c].status # "exhausted" /\ c <= newest[a]
        BY <1>1, <2>3 DEF Position, Cycles
      <3>2. ASSUME NEW m \in Slots, m < n, attempts'[a][c][n] # "none"
            PROVE  attempts'[a][c][m] = "failed"
        <4>1. m \in Int /\ n \in Int /\ proc[p].attempt \in Int
          BY <1>1 DEF Slots
        <4>2. CASE n <= proc[p].attempt
          <5>1. m < proc[p].attempt
            BY <3>2, <4>1, <4>2
          <5>2. attempts[a][c][m] = "failed"
            BY <1>1, <2>3, <5>1 DEF Position
          <5>3. m # proc[p].attempt
            BY <4>1, <5>1
          <5> QED
            BY <1>2, <2>3, <5>2, <5>3
        <4>3. CASE n > proc[p].attempt
          <5>1. attempts[a][c][n] = "none"
            BY <1>1, <2>3, <4>3 DEF Writes
          <5> QED
            BY <1>2, <3>2, <4>1, <4>3, <5>1
        <4> QED
          BY <4>1, <4>2, <4>3
      <3> QED
        BY <3>1, <3>2
    <2> QED
      BY <2>2, <2>3
  <1>8. VerdictsLast
    BY DEF VerdictsLast, Writes, store
  <1>9. \A m \in Slots :
            m < proc[p].attempt => attempts'[b][newest[b]][m] = "failed"
    <2>1. proc[p].attempt \in Int
      BY <1>1 DEF Slots
    <2>2. \A m \in Slots :
              m < proc[p].attempt => attempts[b][newest[b]][m] = "failed"
      BY <1>1 DEF Position
    <2> QED
      BY <1>1, <1>2, <2>1, <2>2
  <1> QED
    BY <1>1, <1>2, <1>3, <1>4, <1>6, <1>7, <1>8, <1>9

LEMMA WritesOrderly ==
    ASSUME IInv, NEW p \in Processes, NEW b \in Batches,
           NEW row \in Rows \ {"none"}, Writes(p, b, row), Alone(p), Kept(p),
           proc'[p].phase \in InBatch, proc'[p].cycle = proc[p].cycle,
           CallsForItsOwn(p), Position(p, b)',
           proc'[p].phase = "call" => Uncalled(p, b)'
    PROVE  Orderly(p)
  <1>1. /\ TypeOK /\ InOrder(p) /\ Recorded(p, b) /\ proc[p].phase \in Working
    BY AtWork DEF Writes
  <1>2. TypeOK' /\ CyclesInOrder' /\ AttemptsInOrder' /\ Grows /\ VerdictsLast
    BY RowIsWritten
  <1>3. Recorded(p, b)'
    BY <1>1 DEF Recorded, Writes, Kept
  <1>4. InOrder(p)'
    BY <1>1, <1>2, <1>3, WithinBatch DEF Writes
  <1> QED
    BY <1>1, <1>2, <1>4 DEF Orderly, Writes

LEMMA StartAttemptOrderly ==
    ASSUME IInv, NEW p \in Processes, NEW b \in Batches, StartAttempt(p, b)
    PROVE  Orderly(p)
  <1>1. /\ TypeOK /\ Position(p, b) /\ proc[p].cycle = newest[b]
        /\ newest[b] \in 0 .. MaxCycles
        /\ proc[p].cycle \in Cycles /\ proc[p].attempt \in Slots /\ "call" \in Phases
    BY AtWork DEF StartAttempt, InBatch, Phases
  <1>2. At(p, b) /\ Row(p, b) = "none" /\ Writes(p, b, "started")
    BY DEF StartAttempt, NotStarted, Writes, InBatch
  <1>3. /\ Alone(p) /\ Kept(p) /\ proc'[p].phase = "call"
        /\ proc'[p].cycle = proc[p].cycle /\ proc'[p].attempt = proc[p].attempt
    BY <1>1, GotoMoves DEF StartAttempt
  <1>4. "started" \in Rows \ {"none"}
    BY DEF Rows
  <1>5. /\ attempts'[b][newest[b]][proc[p].attempt] = "started"
        /\ \A m \in Slots :
               m < proc[p].attempt => attempts'[b][newest[b]][m] = "failed"
    BY <1>2, <1>3, <1>4, RowIsWritten
  <1>6. Position(p, b)'
    BY <1>1, <1>3, <1>5 DEF Position, Row, StartAttempt
  <1>7. Uncalled(p, b)'
    <2>1. calls[b][newest[b]][proc[p].attempt] = 0
      <3>1. calls[b][newest[b]][proc[p].attempt] \in Nat
        BY <1>1, JournalTypes
      <3>2. calls[b][newest[b]][proc[p].attempt] <= 0
        BY <1>1, <1>2 DEF IInv, SlotCalledOnce, Row
      <3> QED
        BY <3>1, <3>2
    <2> QED
      BY <1>1, <1>3, <1>5, <2>1 DEF Uncalled, Row, StartAttempt
  <1>8. CallsForItsOwn(p)
    <2>1. \A a \in Batches : At(p, a) => a = b
      BY <1>2, AtOneBatch
    <2> QED
      BY <1>2, <1>3, <2>1 DEF CallsForItsOwn
  <1> QED
    BY <1>2, <1>3, <1>4, <1>6, <1>7, <1>8, WritesOrderly DEF InBatch

\* An attempt is recorded as failed, and the next one is due.
LEMMA FailureOrderly ==
    ASSUME IInv, NEW p \in Processes, NEW b \in Batches,
           Writes(p, b, "failed"), NextAttempt(p)
    PROVE  Orderly(p)
  <1>1. /\ TypeOK /\ Position(p, b) /\ proc[p].cycle = newest[b]
        /\ newest[b] \in Cycles /\ proc[p].attempt \in Slots
        /\ cycles[b][newest[b]].status # "exhausted"
    BY AtWork DEF Writes, Position
  <1>2. /\ Alone(p) /\ Kept(p) /\ proc'[p].phase \in {"attempt", "close"}
        /\ proc'[p].cycle = proc[p].cycle
    BY <1>1, NextAttemptMoves
  <1>3. "failed" \in Rows \ {"none"}
    BY DEF Rows
  <1>4. /\ attempts'[b][newest[b]][proc[p].attempt] = "failed"
        /\ \A m \in Slots :
               m < proc[p].attempt => attempts'[b][newest[b]][m] = "failed"
    BY <1>2, <1>3, RowIsWritten
  <1>5. \A m \in Slots : m <= proc[p].attempt => attempts'[b][newest[b]][m] = "failed"
    <2>1. \A m \in Slots : m <= proc[p].attempt => m < proc[p].attempt \/ m = proc[p].attempt
      BY <1>1 DEF Slots
    <2> QED
      BY <1>4, <2>1
  <1>6. Position(p, b)'
    BY <1>1, <1>5, NextIsPlaced DEF Writes
  <1>7. CallsForItsOwn(p)
    BY <1>2 DEF CallsForItsOwn, Calling
  <1> QED
    BY <1>2, <1>3, <1>6, <1>7, WritesOrderly DEF InBatch

LEMMA FinishSuccessOrderly ==
    ASSUME IInv, NEW p \in Processes, NEW b \in Batches, FinishSuccess(p, b)
    PROVE  Orderly(p)
  <1> DEFINE reply == proc[p].reply
  <1>1. /\ TypeOK /\ Position(p, b) /\ proc[p].cycle = newest[b] /\ "close" \in Phases
        /\ proc[p].attempt \in Slots
    BY AtWork DEF FinishSuccess, InBatch, Phases
  <1>2. Writes(p, b, reply) /\ reply \in Verdicts /\ Reply(p, "close", reply)
    BY <1>1 DEF FinishSuccess, Writes, Position, InBatch, Succeed
  <1>3. reply \in Rows \ {"none"} /\ reply \in Verdicts \union {"none", "failed"}
    BY <1>2, JournalAssumption DEF Rows
  <1> HIDE DEF reply
  <1>4. /\ Alone(p) /\ Kept(p) /\ proc'[p].phase = "close" /\ proc'[p].reply = reply
        /\ proc'[p].cycle = proc[p].cycle /\ proc'[p].attempt = proc[p].attempt
    BY <1>1, <1>2, <1>3, ReplyMoves
  <1>5. /\ attempts'[b][newest[b]][proc[p].attempt] = reply
        /\ \A m \in Slots :
               m < proc[p].attempt => attempts'[b][newest[b]][m] = "failed"
    BY <1>2, <1>3, <1>4, RowIsWritten
  <1>6. Position(p, b)'
    BY <1>1, <1>2, <1>4, <1>5 DEF Position, Row, Writes
  <1>7. CallsForItsOwn(p)
    BY <1>4 DEF CallsForItsOwn, Calling
  <1> QED
    BY <1>2, <1>3, <1>4, <1>6, <1>7, WritesOrderly DEF InBatch

----------------------------------------------------------------------------
\* The steps that call

\* The endpoint is called for the attempt a process is at.
LEMMA CalledOrderly ==
    ASSUME IInv, NEW p \in Processes, NEW b \in Batches, At(p, b),
           proc[p].phase \in Calling, CountCall(p, b),
           Alone(p), proc'[p].phase \notin Calling, InOrder(p)',
           holder' \in Processes \union {Nobody},
           holder' = holder \/ holder \in {p, Nobody},
           UNCHANGED <<journal, source, store>>
    PROVE  Orderly(p)
  <1>1. TypeOK /\ Uncalled(p, b)
    BY DEF IInv, InOrder, MayCall
  <1>2. /\ calls' \in [Batches -> [Cycles -> [Slots -> Nat]]]
        /\ \A a \in Batches, c \in Cycles, n \in Slots :
               calls'[a][c][n] =
                   IF a = b /\ c = proc[p].cycle /\ n = proc[p].attempt
                   THEN calls[a][c][n] + 1 ELSE calls[a][c][n]
    BY <1>1, CallCounted DEF Uncalled
  <1>3. Counted(p)
    BY <1>2 DEF Counted
  <1>4. TypeOK'
    BY <1>1, <1>2 DEF TypeOK, Alone, States, journal, store
  <1>5. CyclesInOrder' /\ AttemptsInOrder'
    BY DEF IInv, CyclesInOrder, AttemptsInOrder, journal
  <1>6. Grows /\ VerdictsLast /\ CallsForItsOwn(p)
    BY <1>1, QuietGrows DEF VerdictsLast, store, CallsForItsOwn
  <1> QED
    BY <1>3, <1>4, <1>5, <1>6 DEF Orderly

LEMMA CallOrderly ==
    ASSUME IInv, NEW p \in Processes, NEW b \in Batches, Call(p, b)
    PROVE  Orderly(p)
  <1>1. /\ TypeOK /\ InOrder(p) /\ Position(p, b) /\ Recorded(p, b)
        /\ "reply" \in Phases
    BY AtWork DEF Call, InBatch, Phases
  <1>2. PICK reply \in Verdicts \union {"failed"} : Reply(p, "reply", reply)
    BY DEF Call
  <1>3. /\ Alone(p) /\ Kept(p) /\ proc'[p].phase = "reply" /\ proc'[p].reply = reply
        /\ proc'[p].cycle = proc[p].cycle /\ proc'[p].attempt = proc[p].attempt
    BY <1>1, <1>2, ReplyMoves
  <1>4. /\ At(p, b) /\ proc[p].phase = "call" /\ CountCall(p, b)
        /\ UNCHANGED <<journal, holder, source, store>>
    BY DEF Call
  <1>5. Position(p, b)'
    BY <1>1, <1>3, <1>4 DEF Position, Row, journal
  <1>6. Recorded(p, b)'
    BY <1>1, <1>3, <1>4 DEF Recorded, Kept, journal
  <1>7. Grows /\ VerdictsLast /\ scope' = scope
    BY <1>1, <1>4, QuietGrows DEF VerdictsLast, store, journal
  <1>8. InOrder(p)'
    BY <1>1, <1>3, <1>4, <1>5, <1>6, <1>7, WithinBatch DEF InBatch
  <1>9. holder' \in Processes \union {Nobody}
    BY <1>1, <1>4 DEF TypeOK
  <1> QED
    BY <1>3, <1>4, <1>8, <1>9, CalledOrderly DEF Calling

LEMMA OrphanCallOrderly ==
    ASSUME IInv, NEW p \in Processes, NEW b \in Batches, OrphanCall(p, b)
    PROVE  Orderly(p)
  <1>1. TypeOK
    BY DEF IInv
  <1>2. Alone(p) /\ proc'[p].phase = "idle" /\ InOrder(p)'
    BY <1>1, IdleMoves, IdleInOrder DEF OrphanCall, Stop
  <1>3. /\ holder' \in Processes \union {Nobody}
        /\ holder' = holder \/ holder \in {p, Nobody}
    BY <1>1 DEF OrphanCall, Stop, Unlock, TypeOK
  <1> QED
    BY <1>2, <1>3, CalledOrderly DEF OrphanCall, Calling

----------------------------------------------------------------------------
\* The steps that write the scope and the cycles

LEMMA ConfigureOrderly ==
    ASSUME IInv, NEW p \in Processes, Configure(p)
    PROVE  Orderly(p)
  <1>1. TypeOK /\ InOrder(p) /\ CyclesInOrder /\ AttemptsInOrder /\ "batch" \in Phases
    BY DEF IInv, Phases
  <1>2. /\ proc[p].phase = "locked" /\ Goto(p, "batch")
        /\ UNCHANGED <<newest, cycles, attempts, holder, source, store, calls>>
    BY DEF Configure
  <1>3. Alone(p) /\ Kept(p) /\ proc'[p].phase = "batch"
    BY <1>1, <1>2, GotoMoves
  <1>4. scope' = proc[p].settings /\ (scope # NoSettings => scope' = scope)
    BY DEF Configure, MayConfigure
  <1>5. holder = p
    BY <1>1, <1>2 DEF InOrder, HasTheLock, Working
  <1>6. Grows
    BY <1>1, <1>2, <1>4, JournalTypes DEF Grows
  <1>7. TypeOK'
    <2>1. scope' \in Settings \union {NoSettings}
      BY <1>1, <1>4, StateOf
    <2> QED
      BY <1>1, <1>2, <1>3, <2>1 DEF TypeOK, Alone, States, store
  <1>8. CyclesInOrder' /\ AttemptsInOrder' /\ VerdictsLast
    BY <1>1, <1>2 DEF CyclesInOrder, AttemptsInOrder, VerdictsLast, store
  <1>9. InOrder(p)'
    BY <1>1, <1>2, <1>3, <1>4, <1>5, <1>6, <1>8, OutOfBatch
  <1>10. CallsForItsOwn(p)
    BY <1>3 DEF CallsForItsOwn, Calling
  <1> QED
    BY <1>2, <1>3, <1>6, <1>7, <1>8, <1>9, <1>10 DEF Orderly, Working

LEMMA OpenCycleOrderly ==
    ASSUME IInv, NEW p \in Processes, NEW b \in Batches, OpenCycle(p, b)
    PROVE  Orderly(p)
  <1> DEFINE k == newest[b] + 1
             opened == [status |-> "running", request |-> proc[p].request[b]]
  <1>1. /\ TypeOK /\ InOrder(p) /\ CyclesInOrder /\ AttemptsInOrder
        /\ newest \in [Batches -> 0 .. MaxCycles] /\ newest[b] \in 0 .. MaxCycles
        /\ cycles \in [Batches -> [Cycles -> CycleRecords]]
    BY JournalTypes DEF IInv
  <1>2. /\ proc[p].phase = "batch" /\ At(p, b) /\ MustOpen(b)
        /\ newest[b] < MaxCycles
        /\ UNCHANGED <<scope, attempts, holder, source, store, calls>>
    BY DEF OpenCycle
  <1>3. k \in Cycles /\ k \in 0 .. MaxCycles
    BY <1>1, <1>2, JournalAssumption DEF Cycles
  <1>4. /\ newest' \in [Batches -> 0 .. MaxCycles]
        /\ \A a \in Batches : newest'[a] = IF a = b THEN k ELSE newest[a]
    BY <1>1, <1>3 DEF OpenCycle
  <1>5. /\ cycles' \in [Batches -> [Cycles -> CycleRecords]]
        /\ \A a \in Batches, c \in Cycles :
               cycles'[a][c] = IF a = b /\ c = k THEN opened ELSE cycles[a][c]
    <2>1. opened \in CycleRecords
      BY <1>1, StateOf DEF CycleRecords
    <2>2. cycles' = [cycles EXCEPT ![b][k] = opened]
      BY DEF OpenCycle
    <2> HIDE DEF opened, k
    <2> QED
      BY <1>1, <1>3, <2>1, <2>2
  <1>6. /\ Alone(p) /\ Kept(p) /\ proc'[p].phase = "attempt"
        /\ proc'[p].cycle = k /\ proc'[p].attempt = 1
    BY <1>1, <1>3, EnterMoves DEF OpenCycle
  <1>7. TypeOK'
    BY <1>1, <1>2, <1>4, <1>5, <1>6 DEF TypeOK, Alone, States, CycleRecords, store
  <1>8. /\ \A a \in Batches : newest[a] \in Int /\ newest[a] >= 0
        /\ \A c \in Cycles : c \in Int /\ c >= 1
        /\ opened.status = "running" /\ opened.request = proc[p].request[b]
    BY <1>1 DEF Cycles
  <1>9. cycles[b][k].status = "none"
    BY <1>1, <1>3, <1>8 DEF CyclesInOrder
  <1> HIDE DEF opened
  <1>10. Grows
    <2>1. \A a \in Batches : newest[a] <= newest'[a]
      BY <1>4, <1>8
    <2>2. \A a \in Batches, c \in Cycles :
              cycles[a][c].status # "none" => cycles'[a][c] = cycles[a][c]
      BY <1>5, <1>9
    <2> QED
      BY <1>2, <2>1, <2>2 DEF Grows
  <1>11. CyclesInOrder'
    <2> SUFFICES ASSUME NEW a \in Batches, NEW c \in Cycles
                 PROVE  /\ c < newest'[a] => cycles'[a][c].status = "exhausted"
                        /\ cycles'[a][c].status = "none" <=> newest'[a] < c
      BY DEF CyclesInOrder
    <2>1. /\ c < newest[a] => cycles[a][c].status = "exhausted"
          /\ cycles[a][c].status = "none" <=> newest[a] < c
      BY <1>1 DEF CyclesInOrder
    <2>2. CASE a # b
      BY <1>4, <1>5, <2>1, <2>2
    <2>3. CASE a = b /\ c = k
      BY <1>4, <1>5, <1>8, <2>3
    <2>4. CASE a = b /\ c # k
      <3>1. c = newest[b] => cycles[a][c].status = "exhausted"
        BY <1>2, <1>8, <2>4 DEF MustOpen, Newest
      <3>2. cycles'[a][c] = cycles[a][c] /\ newest'[a] = k
        BY <1>4, <1>5, <2>4
      <3>3. CASE c <= newest[b]
        BY <1>8, <2>1, <2>4, <3>1, <3>2, <3>3
      <3>4. CASE c > k
        BY <1>8, <2>1, <2>4, <3>2, <3>4
      <3> QED
        BY <1>8, <2>4, <3>3, <3>4
    <2> QED
      BY <2>2, <2>3, <2>4
  <1>12. AttemptsInOrder'
    <2> SUFFICES ASSUME NEW a \in Batches, NEW c \in Cycles, NEW n \in Slots
                 PROVE  /\ attempts[a][c][n] # "none" =>
                               /\ c <= newest'[a]
                               /\ \A m \in Slots : m < n => attempts[a][c][m] = "failed"
                        /\ cycles'[a][c].status = "exhausted" =>
                               attempts[a][c][n] = "failed"
      BY <1>2 DEF AttemptsInOrder
    <2>1. /\ attempts[a][c][n] # "none" =>
                 /\ c <= newest[a]
                 /\ \A m \in Slots : m < n => attempts[a][c][m] = "failed"
          /\ cycles[a][c].status = "exhausted" => attempts[a][c][n] = "failed"
      BY <1>1 DEF AttemptsInOrder
    <2>2. attempts[a][c][n] # "none" => c <= newest'[a]
      BY <1>4, <1>8, <2>1
    <2>3. cycles'[a][c].status = "exhausted" => cycles[a][c].status = "exhausted"
      BY <1>5, <1>8
    <2> QED
      BY <2>1, <2>2, <2>3
  <1>13. Position(p, b)'
    <2>1. 1 \in Slots /\ \A m \in Slots : ~(m < 1)
      BY JournalAssumption DEF Slots
    <2> QED
      BY <1>3, <1>4, <1>5, <1>6, <1>8, <2>1 DEF Position
  <1>14. Recorded(p, b)'
    BY <1>3, <1>5, <1>6, <1>8 DEF Recorded, Kept
  <1>15. VerdictsLast /\ CallsForItsOwn(p)
    BY <1>2, <1>6 DEF VerdictsLast, store, CallsForItsOwn, Calling
  <1>16. InOrder(p)'
    BY <1>1, <1>2, <1>6, <1>10, <1>13, <1>14, <1>15, WithinBatch DEF InBatch
  <1> QED
    BY <1>2, <1>6, <1>7, <1>10, <1>11, <1>12, <1>15, <1>16 DEF Orderly, Working

LEMMA CloseOrderly ==
    ASSUME IInv, NEW p \in Processes, NEW b \in Batches, Close(p, b)
    PROVE  Orderly(p)
  <1> DEFINE status == IF proc[p].reply = "failed" THEN "exhausted" ELSE "succeeded"
             closed == [cycles[b][newest[b]] EXCEPT !.status = status]
  <1>1. /\ TypeOK /\ InOrder(p) /\ CyclesInOrder /\ AttemptsInOrder
        /\ cycles \in [Batches -> [Cycles -> CycleRecords]]
    BY JournalTypes DEF IInv
  <1>2. /\ proc[p].phase = "close" /\ At(p, b)
        /\ UNCHANGED <<scope, newest, attempts, holder, source, store, calls>>
    BY DEF Close
  <1>3. /\ holder = p /\ proc[p].phase \in Working /\ Position(p, b)
        /\ proc[p].cycle = newest[b] /\ newest[b] \in Cycles
        /\ proc[p].attempt \in Slots
        /\ cycles[b][newest[b]].status \notin {"none", "exhausted"}
    BY <1>2, AtWork DEF InBatch, Position
  <1>4. /\ cycles' \in [Batches -> [Cycles -> CycleRecords]]
        /\ \A a \in Batches, c \in Cycles :
               cycles'[a][c] = IF a = b /\ c = newest[b] THEN closed ELSE cycles[a][c]
    <2>1. closed \in CycleRecords
      BY <1>1, <1>3 DEF CycleRecords
    <2>2. cycles' = [cycles EXCEPT ![b][newest[b]] = closed]
      BY <1>3 DEF Close
    <2> HIDE DEF closed
    <2> QED
      BY <1>1, <1>3, <2>1, <2>2
  <1>5. /\ closed.request = cycles[b][newest[b]].request
        /\ closed.status = status /\ status \in {"exhausted", "succeeded"}
        /\ status = "exhausted" <=> proc[p].reply = "failed"
    BY <1>1, <1>3 DEF CycleRecords
  <1> HIDE DEF closed, status
  <1>6. /\ proc[p].reply = "failed" => \A n \in Slots : attempts[b][newest[b]][n] = "failed"
        /\ proc[p].reply # "failed" =>
               /\ proc[p].reply \in Verdicts
               /\ attempts[b][newest[b]][proc[p].attempt] = proc[p].reply
    BY <1>2, <1>3, JournalAssumption DEF Position, Row
  <1>7. Outcome(p) \in Outcomes
    BY <1>6 DEF Outcome, Outcomes
  <1>8. /\ Alone(p) /\ proc'[p].phase = "batch"
        /\ proc'[p].settings = proc[p].settings
        /\ \A a \in Batches : proc'[p].outcome[a] =
               IF a = b THEN Outcome(p) ELSE proc[p].outcome[a]
    BY <1>1, <1>7, CloseMoves
  <1>9. TypeOK'
    BY <1>1, <1>2, <1>4, <1>8 DEF TypeOK, Alone, States, CycleRecords, store
  <1>10. CyclesInOrder'
    <2> SUFFICES ASSUME NEW a \in Batches, NEW c \in Cycles
                 PROVE  /\ c < newest[a] => cycles'[a][c].status = "exhausted"
                        /\ cycles'[a][c].status = "none" <=> newest[a] < c
      BY <1>2 DEF CyclesInOrder
    <2>1. /\ c < newest[a] => cycles[a][c].status = "exhausted"
          /\ cycles[a][c].status = "none" <=> newest[a] < c
      BY <1>1 DEF CyclesInOrder
    <2>2. CASE a = b /\ c = newest[b]
      BY <1>3, <1>4, <1>5, <2>1, <2>2 DEF Cycles
    <2> QED
      BY <1>4, <2>1, <2>2
  <1>11. AttemptsInOrder'
    BY <1>1, <1>2, <1>4, <1>5, <1>6 DEF AttemptsInOrder
  <1>12. Grows /\ VerdictsLast
    <2>1. \A a \in Batches : newest[a] <= newest'[a]
      BY <1>1, <1>2, JournalTypes
    <2>2. \A a \in Batches, c \in Cycles :
              /\ cycles'[a][c].request = cycles[a][c].request
              /\ cycles[a][c].status = "exhausted" => cycles'[a][c].status = "exhausted"
      BY <1>3, <1>4, <1>5
    <2> QED
      BY <1>2, <2>1, <2>2 DEF Grows, VerdictsLast, store
  <1>13. CallsForItsOwn(p)
    BY <1>8 DEF CallsForItsOwn, Calling
  <1>14. InOrder(p)'
    <2>1. HasTheLock(p)' /\ HasTheScope(p)'
      BY <1>1, <1>2, <1>3, <1>8 DEF InOrder, HasTheLock, HasTheScope, InBatch
    <2>2. IsPlaced(p)' /\ MayCall(p)' /\ SendsTheRecorded(p)'
      BY <1>8 DEF IsPlaced, MayCall, SendsTheRecorded, InBatch, Calling
    <2>3. ASSUME NEW a \in Batches
          PROVE  Evidence(a, proc[p].outcome[a])'
      <3>1. CASE a = b
        <4>1. CASE proc[p].reply = "failed"
          <5>1. /\ proc'[p].outcome[a] = "unassessed"
                /\ cycles'[a][newest[b]].status = "exhausted"
                /\ \A n \in Slots : attempts'[a][newest[b]][n] = "failed"
            BY <1>2, <1>3, <1>4, <1>5, <1>6, <1>8, <3>1, <4>1 DEF Outcome
          <5> QED
            BY <1>3, <5>1, JournalAssumption DEF Evidence
        <4>2. CASE proc[p].reply # "failed"
          <5>1. /\ proc'[p].outcome[a] \in Verdicts
                /\ attempts'[a][newest[b]][proc[p].attempt] = proc'[p].outcome[a]
            BY <1>2, <1>6, <1>8, <3>1, <4>2 DEF Outcome
          <5> QED
            BY <1>3, <5>1, JournalAssumption DEF Evidence
        <4> QED
          BY <4>1, <4>2
      <3>2. CASE a # b
        <4>1. /\ proc'[p].outcome[a] = proc[p].outcome[a]
              /\ proc[p].outcome[a] \in Outcomes
              /\ Evidence(a, proc[p].outcome[a])
          BY <1>1, <1>8, <3>2, StateOf DEF InOrder, HasEvidence
        <4>2. \A o : o = proc[p].outcome[a] => Evidence(a, o)'
          BY <1>1, <1>12, <4>1, EvidenceLasts
        <4> QED
          BY <4>1, <4>2 DEF Evidence
      <3> QED
        BY <3>1, <3>2
    <2>4. HasEvidence(p)'
      BY <2>3 DEF HasEvidence
    <2> QED
      BY <2>1, <2>2, <2>4 DEF InOrder
  <1> QED
    BY <1>2, <1>3, <1>8, <1>9, <1>10, <1>11, <1>12, <1>13, <1>14 DEF Orderly

----------------------------------------------------------------------------
\* The invariant holds

LEMMA InitInv == Init => IInv
  <1> SUFFICES ASSUME Init
               PROVE  IInv
    OBVIOUS
  <1>1. /\ Idle \in States /\ MaxCycles \in Nat /\ 0 \in 0 .. MaxCycles
        /\ \A c \in Cycles : c \in Int /\ 0 < c
    BY JournalAssumption DEF Idle, States, Phases, Outcomes, Cycles
  <1>2. TypeOK
    <2>1. proc \in [Processes -> States]
      BY <1>1 DEF Init
    <2>2. calls \in [Batches -> [Cycles -> [Slots -> Nat]]]
      BY DEF Init
    <2> HIDE DEF States
    <2> QED
      BY <1>1, <2>1, <2>2 DEF Init, TypeOK, States, Outcomes
  <1>3. CyclesInOrder /\ AttemptsInOrder /\ SlotCalledOnce
    BY <1>1 DEF Init, CyclesInOrder, AttemptsInOrder, SlotCalledOnce
  <1>4. \A p \in Processes : proc[p].phase = "idle" /\ \A b \in Batches : proc[p].outcome[b] = "none"
    BY DEF Init, Idle
  <1>5. CallersAreApart
    BY <1>4 DEF CallersAreApart, Calling
  <1>6. \A p \in Processes : InOrder(p)
    BY <1>4, JournalAssumption
       DEF InOrder, HasTheLock, HasTheScope, IsPlaced, MayCall, SendsTheRecorded,
           HasEvidence, Evidence, Working, InBatch, Calling
  <1> QED
    BY <1>2, <1>3, <1>5, <1>6 DEF IInv

LEMMA WorkOrderly ==
    ASSUME IInv, NEW p \in Processes, NEW b \in Batches, Work(p, b)
    PROVE  Orderly(p)
  <1>1. CASE PrepareRefused(p, b)
    BY <1>1, StopOrderly DEF PrepareRefused
  <1>2. CASE OpenCycle(p, b)
    BY <1>2, OpenCycleOrderly
  <1>3. CASE ResumeCycle(p, b)
    BY <1>3, ResumeCycleOrderly
  <1>4. CASE StartAttempt(p, b)
    BY <1>4, StartAttemptOrderly
  <1>5. CASE Interrupt(p, b)
    BY <1>5, FailureOrderly DEF Interrupt, Writes, InBatch
  <1>6. CASE ReplayFailure(p, b)
    BY <1>6, ReplayFailureOrderly
  <1>7. CASE ReplaySuccess(p, b)
    BY <1>7, ReplaySuccessOrderly
  <1>8. CASE Call(p, b)
    BY <1>8, CallOrderly
  <1>9. CASE OrphanCall(p, b)
    BY <1>9, OrphanCallOrderly
  <1>10. CASE FinishFailure(p, b)
    <2>1. At(p, b) /\ proc[p].phase = "reply"
      BY <1>10 DEF FinishFailure
    <2>2. Row(p, b) = "started"
      BY <2>1, AtWork DEF InBatch, Position
    <2> QED
      BY <1>10, <2>1, <2>2, FailureOrderly DEF FinishFailure, Writes, InBatch
  <1>11. CASE FinishSuccess(p, b)
    BY <1>11, FinishSuccessOrderly
  <1>12. CASE Close(p, b)
    BY <1>12, CloseOrderly
  <1> QED
    BY <1>1, <1>2, <1>3, <1>4, <1>5, <1>6, <1>7, <1>8, <1>9, <1>10, <1>11, <1>12
       DEF Work

LEMMA StepOrderly ==
    ASSUME IInv, NEW p \in Processes, Step(p)
    PROVE  Orderly(p)
  <1>1. CASE \E s \in Settings : Begin(p, s)
    BY <1>1, BeginOrderly
  <1>2. CASE Acquire(p)
    BY <1>2, GotoOrderly DEF Acquire, LockFree
  <1>3. CASE Refused(p)
    BY <1>3, StopOrderly DEF Refused
  <1>4. CASE Configure(p)
    BY <1>4, ConfigureOrderly
  <1>5. CASE ConfigureRefused(p)
    BY <1>5, StopOrderly DEF ConfigureRefused
  <1>6. CASE LoseConnection(p)
    BY <1>6, LoseConnectionOrderly
  <1>7. CASE Release(p)
    <2>1. /\ holder' \in Processes \union {Nobody}
          /\ holder' = holder \/ holder \in {p, Nobody}
      BY <1>7 DEF Release, Unlock, IInv, TypeOK
    <2> QED
      BY <1>7, <2>1, GotoOrderly DEF Release
  <1>8. CASE Persist(p)
    BY <1>8, PersistOrderly
  <1>9. CASE PersistRefused(p)
    BY <1>9, StopOrderly DEF PersistRefused
  <1>10. CASE Crash(p)
    BY <1>10, StopOrderly DEF Crash
  <1>11. CASE \E b \in Batches : Work(p, b)
    BY <1>11, WorkOrderly
  <1> QED
    BY <1>1, <1>2, <1>3, <1>4, <1>5, <1>6, <1>7, <1>8, <1>9, <1>10, <1>11 DEF Step

\* The rest of the system touches neither the journal nor the processes.
LEMMA EnvironmentInv ==
    ASSUME IInv, Environment
    PROVE  /\ IInv' /\ Grows
           /\ UNCHANGED <<journal, stored>>
  <1>1. UNCHANGED <<journal, holder, proc, calls>> /\ TypeOK
    BY DEF Environment, Publish, Withdraw, OtherRunPersists, SourceChanges, IInv, store
  <1>2. TypeOK' /\ VerdictsLast /\ stored' = stored
    <2>1. CASE Publish \/ Withdraw
      BY <1>1, <2>1 DEF Publish, Withdraw, TypeOK, VerdictsLast, journal
    <2>2. CASE \E b \in Batches : SourceChanges(b)
      <3>1. PICK b \in Batches, r \in Requests :
                source' = [source EXCEPT ![b] = r] /\ UNCHANGED store
        BY <2>2 DEF SourceChanges
      <3>2. source' \in [Batches -> Requests]
        BY <1>1, <3>1 DEF TypeOK
      <3> QED
        BY <1>1, <3>1, <3>2 DEF TypeOK, VerdictsLast, journal, store
    <2>3. CASE \E b \in Batches, v \in Verdicts : OtherRunPersists(b, v)
      <3>1. PICK b \in Batches, v \in Verdicts : OtherRunPersists(b, v)
        BY <2>3
      <3>2. verdicts' \in [Batches -> Verdicts \union {"none"}] /\ VerdictsLast
        BY <1>1, <3>1, JournalAssumption DEF OtherRunPersists, TypeOK, VerdictsLast
      <3> QED
        BY <1>1, <3>1, <3>2 DEF OtherRunPersists, TypeOK, journal
    <2> QED
      BY <2>1, <2>2, <2>3 DEF Environment
  <1>3. Grows
    BY <1>1, QuietGrows
  <1>4. \A p \in Processes : InOrder(p)'
    <2> SUFFICES ASSUME NEW p \in Processes
                 PROVE  InOrder(p)'
      OBVIOUS
    <2>1. CyclesInOrder /\ InOrder(p) /\ proc'[p] = proc[p]
      BY <1>1 DEF IInv
    <2> QED
      BY <1>1, <1>2, <1>3, <2>1, OtherInOrder
  <1>5. (CyclesInOrder /\ AttemptsInOrder /\ SlotCalledOnce /\ CallersAreApart)'
    BY <1>1 DEF IInv, CyclesInOrder, AttemptsInOrder, SlotCalledOnce, CallersAreApart,
                At, journal
  <1> QED
    BY <1>1, <1>2, <1>3, <1>4, <1>5 DEF IInv

LEMMA NextInv == IInv /\ [Next]_vars => IInv'
  <1> SUFFICES ASSUME IInv, [Next]_vars
               PROVE  IInv'
    OBVIOUS
  <1>1. CASE Environment
    BY <1>1, EnvironmentInv
  <1>2. CASE \E p \in Processes : Step(p)
    BY <1>2, StepOrderly, OrderlyInv
  <1>3. CASE UNCHANGED vars
    <2>1. UNCHANGED <<journal, store, holder, proc, source, calls>>
      BY <1>3 DEF vars, journal, store
    <2>2. TypeOK'
      BY <2>1 DEF IInv, TypeOK, journal, store
    <2>3. CyclesInOrder' /\ AttemptsInOrder' /\ SlotCalledOnce'
      BY <2>1 DEF IInv, CyclesInOrder, AttemptsInOrder, SlotCalledOnce, journal, Row
    <2>4. CallersAreApart'
      BY <2>1 DEF IInv, CallersAreApart, At
    <2>5. ASSUME NEW p \in Processes PROVE InOrder(p)'
      <3>1. InOrder(p)
        BY DEF IInv
      <3>2. HasTheLock(p)' /\ HasTheScope(p)' /\ IsPlaced(p)'
        BY <2>1, <3>1 DEF InOrder, HasTheLock, HasTheScope, IsPlaced, Position, At, Row, journal
      <3>3. MayCall(p)' /\ SendsTheRecorded(p)'
        BY <2>1, <3>1 DEF InOrder, MayCall, Uncalled, SendsTheRecorded, Recorded, At, Row, journal
      <3>4. HasEvidence(p)'
        BY <2>1, <3>1 DEF InOrder, HasEvidence, Evidence, journal, store
      <3> QED
        BY <3>2, <3>3, <3>4 DEF InOrder
    <2> QED
      BY <2>2, <2>3, <2>4, <2>5 DEF IInv
  <1> QED
    BY <1>1, <1>2, <1>3 DEF Next

LEMMA Inductive == Spec => []IInv
  BY InitInv, NextInv, PTL DEF Spec

\* Types are kept by every step: the journal, the processes and the tables only
\* hold what they should.
THEOREM TypeCorrect == Spec => []TypeOK
  <1>1. IInv => TypeOK
    BY DEF IInv
  <1> QED
    BY <1>1, Inductive, PTL

----------------------------------------------------------------------------
\* The properties

\* The endpoint is called at most once for each attempt in the journal, and never
\* for one that is not in it, whatever processes die or lose their session.
THEOREM CalledOnce == Spec => []SlotCalledOnce
  <1>1. IInv => SlotCalledOnce
    BY DEF IInv
  <1> QED
    BY <1>1, Inductive, PTL

\* A process calls with the request and the settings that the journal records.
THEOREM SendsWhatIsRecorded == Spec => []BytesAreRecorded
  <1>1. IInv => BytesAreRecorded
    BY DEF IInv, InOrder, HasTheScope, SendsTheRecorded, Recorded, InBatch,
           BytesAreRecorded
  <1> QED
    BY <1>1, Inductive, PTL

LEMMA StepGrows ==
    ASSUME IInv, [Next]_vars
    PROVE  Grows
  <1>1. TypeOK
    BY DEF IInv
  <1>2. CASE Environment
    BY <1>2, EnvironmentInv
  <1>3. CASE \E p \in Processes : Step(p)
    BY <1>3, StepOrderly DEF Orderly
  <1>4. CASE UNCHANGED vars
    BY <1>1, <1>4, QuietGrows DEF vars
  <1> QED
    BY <1>2, <1>3, <1>4 DEF Next

\* No step rewrites the request of a cycle or the result of an attempt.
THEOREM EvidenceStays == Spec => EvidenceIsKept
  <1> DEFINE Keeps ==
          \A b \in Batches, c \in Cycles :
              /\ cycles[b][c].status # "none" =>
                     cycles'[b][c].request = cycles[b][c].request
              /\ \A n \in Slots : attempts[b][c][n] \notin {"none", "started"} =>
                     attempts'[b][c][n] = attempts[b][c][n]
  <1>1. IInv /\ [Next]_vars => [Keeps]_vars
    BY StepGrows DEF Grows
  <1> QED
    BY <1>1, Inductive, PTL DEF Spec, EvidenceIsKept

LEMMA OnlyPersistStores ==
    ASSUME NEW p \in Processes, Step(p)
    PROVE  Persist(p) \/ stored' = stored
  <1>1. ASSUME NEW b \in Batches, Work(p, b)
        PROVE  stored' = stored
    BY <1>1 DEF Work, store, PrepareRefused, OpenCycle, ResumeCycle, StartAttempt,
                Interrupt, ReplayFailure, ReplaySuccess, Call, OrphanCall,
                FinishFailure, FinishSuccess, Close
  <1> QED
    BY <1>1 DEF Step, store, Begin, Acquire, Refused, Configure, ConfigureRefused,
                LoseConnection, Release, PersistRefused, Crash

\* A run stores a verdict only if it is in the journal or in the verdict table,
\* and "unassessed" only for a cycle whose attempts all failed.
THEOREM OutcomesRest == Spec => OutcomesRestOnEvidence
  <1> DEFINE Rests ==
          stored' # stored =>
              \A b \in Batches :
                  /\ stored'[b] \in Verdicts =>
                         \/ verdicts[b] = stored'[b]
                         \/ \E c \in Cycles, n \in Slots : attempts[b][c][n] = stored'[b]
                  /\ stored'[b] = "unassessed" =>
                         \E c \in Cycles :
                             /\ cycles[b][c].status = "exhausted"
                             /\ \A n \in Slots : attempts[b][c][n] = "failed"
  <1>1. ASSUME IInv, [Next]_vars, stored' # stored
        PROVE  Rests
    <2>1. PICK p \in Processes : Step(p)
      BY <1>1, EnvironmentInv DEF Next, vars, store
    <2>2. stored' = proc[p].outcome
      BY <1>1, <2>1, OnlyPersistStores DEF Persist
    <2>3. \A b \in Batches : Evidence(b, proc[p].outcome[b])
      BY <1>1 DEF IInv, InOrder, HasEvidence
    <2> QED
      BY <2>2, <2>3 DEF Evidence
  <1>2. IInv /\ [Next]_vars => [Rests]_vars
    BY <1>1
  <1> QED
    BY <1>2, Inductive, PTL DEF Spec, OutcomesRestOnEvidence

----------------------------------------------------------------------------
\* The journal keeps each batch to its budget

Entry(b) == [cycle |-> newest[b], spent |-> Spent(b), verdicts |-> Decided(b),
             exhausted |-> MustOpen(b)]

Entries == [b \in Batches |-> Entry(b)]

\* The entry of a batch in an open cycle.
OpenEntry(k, spent, answers) ==
    [cycle |-> k, spent |-> spent, verdicts |-> answers, exhausted |-> FALSE]

LEMMA EntryOfOpen ==
    ASSUME NEW b \in Batches, newest[b] # 0, Newest(b).status # "exhausted"
    PROVE  Entry(b) = OpenEntry(newest[b], Spent(b), Decided(b))
  <1>1. MustOpen(b) = FALSE
    BY DEF MustOpen
  <1> QED
    BY <1>1, Zenon DEF Entry, OpenEntry

\* A step on the rows of one batch changes the budget of that batch.
OnlyIn(b) ==
    \A a \in Batches \ {b} :
        /\ newest'[a] = newest[a] /\ cycles'[a] = cycles[a]
        /\ attempts'[a] = attempts[a]

LEMMA EntryMoves ==
    ASSUME NEW b \in Batches, OnlyIn(b)
    PROVE  Entries' = [Entries EXCEPT ![b] = Entry(b)']
  <1>1. \A a \in Batches \ {b} : Entry(a)' = Entry(a)
    BY DEF OnlyIn, Entry, Spent, Decided, MustOpen, Newest
  <1> QED
    BY <1>1 DEF Entries

\* The moves of the budget, in its terms.
LEMMA Opens ==
    ASSUME NEW b \in Batches, OnlyIn(b), MustOpen(b),
           Entry(b)' = OpenEntry(newest[b] + 1, {}, {})
    PROVE  Budget!BudgetNext
  <1>1. Entries' = [Entries EXCEPT ![b] = Entry(b)']
    BY EntryMoves
  <1>2. Entries[b].exhausted /\ Entries[b].cycle = newest[b]
    BY DEF Entries, Entry
  <1>3. Budget!Open(b)
    BY <1>1, <1>2 DEF Budget!Open, Budget!Entry, Entries, Entry, OpenEntry
  <1> QED
    BY <1>3 DEF Budget!BudgetNext

LEMMA Spends ==
    ASSUME NEW b \in Batches, OnlyIn(b), NEW n \in Slots, n \notin Spent(b),
           Entry(b) = OpenEntry(newest[b], Spent(b), {}),
           Entry(b)' = OpenEntry(newest[b], Spent(b) \union {n}, {})
    PROVE  Budget!BudgetNext
  <1>1. Entries' = [Entries EXCEPT ![b] = Entry(b)']
    BY EntryMoves
  <1>2. /\ Entries[b].cycle = newest[b] /\ Entries[b].spent = Spent(b)
        /\ Entries[b].verdicts = {} /\ ~Entries[b].exhausted
    BY DEF Entries, OpenEntry
  <1>3. Budget!Spend(b, n)
    BY <1>1, <1>2 DEF Budget!Spend, Budget!Undecided, Budget!Entry, Entries, Entry, OpenEntry
  <1> QED
    BY <1>3 DEF Budget!BudgetNext

LEMMA Decides ==
    ASSUME NEW b \in Batches, OnlyIn(b), NEW v \in Verdicts, Spent(b) # {},
           Entry(b) = OpenEntry(newest[b], Spent(b), {}),
           Entry(b)' = OpenEntry(newest[b], Spent(b), {v})
    PROVE  Budget!BudgetNext
  <1>1. Entries' = [Entries EXCEPT ![b] = Entry(b)']
    BY EntryMoves
  <1>2. /\ Entries[b].cycle = newest[b] /\ Entries[b].spent = Spent(b)
        /\ Entries[b].verdicts = {} /\ ~Entries[b].exhausted
    BY DEF Entries, OpenEntry
  <1>3. Budget!Decide(b, v)
    BY <1>1, <1>2 DEF Budget!Decide, Budget!Undecided, Budget!Entry, Entries, Entry, OpenEntry
  <1> QED
    BY <1>3 DEF Budget!BudgetNext

LEMMA GivesUp ==
    ASSUME NEW b \in Batches, OnlyIn(b), Spent(b) = Slots,
           Entry(b) = OpenEntry(newest[b], Spent(b), {}),
           Entry(b)' = [cycle |-> newest[b], spent |-> Spent(b), verdicts |-> {},
                        exhausted |-> TRUE]
    PROVE  Budget!BudgetNext
  <1>1. Entries' = [Entries EXCEPT ![b] = Entry(b)']
    BY EntryMoves
  <1>2. /\ Entries[b].cycle = newest[b] /\ Entries[b].spent = Spent(b)
        /\ Entries[b].verdicts = {} /\ ~Entries[b].exhausted
    BY DEF Entries, OpenEntry
  <1>3. Budget!GiveUp(b)
    BY <1>1, <1>2 DEF Budget!GiveUp, Budget!Undecided, Budget!Entry, Entries, Entry, OpenEntry
  <1> QED
    BY <1>3 DEF Budget!BudgetNext

\* A step that leaves the entry of its batch leaves the budget.
LEMMA LeavesBudget ==
    ASSUME NEW b \in Batches, OnlyIn(b), Entry(b)' = Entry(b)
    PROVE  Entries' = Entries
  <1>1. Entries' = [Entries EXCEPT ![b] = Entry(b)']
    BY EntryMoves
  <1> QED
    BY <1>1 DEF Entries

LEMMA QuietLeavesBudget ==
    ASSUME UNCHANGED journal
    PROVE  Entries' = Entries
  BY DEF journal, Entries, Entry, Spent, Decided, MustOpen, Newest

LEMMA BudgetInitially == Init => Budget!BudgetInit
  <1> SUFFICES ASSUME Init
               PROVE  Budget!BudgetInit
    OBVIOUS
  <1>1. \A b \in Batches : newest[b] = 0
    BY DEF Init
  <1>2. \A b \in Batches : Spent(b) = {} /\ Decided(b) = {} /\ MustOpen(b) = TRUE
    BY <1>1 DEF Spent, Decided, MustOpen
  <1> QED
    BY <1>1, <1>2 DEF Budget!BudgetInit, Budget!Entry

\* No answer is known of a batch whose current attempt has none.
LEMMA Undecided ==
    ASSUME IInv, NEW p \in Processes, NEW b \in Batches, At(p, b),
           proc[p].phase \in InBatch, Row(p, b) \in {"none", "started", "failed"},
           Row(p, b) = "failed" => \A n \in Slots : attempts[b][newest[b]][n] = "failed"
    PROVE  /\ newest[b] # 0 /\ Newest(b).status # "exhausted" /\ Decided(b) = {}
           /\ Row(p, b) = attempts[b][newest[b]][proc[p].attempt]
  <1>1. /\ TypeOK /\ Position(p, b) /\ proc[p].cycle = newest[b]
        /\ newest[b] \in Cycles /\ proc[p].attempt \in Slots
        /\ \A n \in Slots : n > proc[p].attempt /\ Row(p, b) # "failed" =>
               attempts[b][newest[b]][n] = "none"
    BY AtWork
  <1>2. newest[b] # 0 /\ cycles[b][newest[b]].status # "exhausted"
    BY <1>1 DEF Cycles, Position
  <1>4. Row(p, b) = attempts[b][newest[b]][proc[p].attempt]
    BY <1>1 DEF Row
  <1>5. \A n \in Slots : attempts[b][newest[b]][n] \in {"none", "started", "failed"}
    <2>1. \A n \in Slots : n < proc[p].attempt \/ n = proc[p].attempt \/ n > proc[p].attempt
      BY <1>1 DEF Slots
    <2> QED
      BY <1>1, <1>4, <2>1 DEF Position
  <1>6. Decided(b) = {}
    BY <1>5, JournalAssumption DEF Decided
  <1> QED
    BY <1>2, <1>4, <1>6 DEF Newest

\* A row written changes the entry by itself.
LEMMA EntryOfRow ==
    ASSUME IInv, NEW p \in Processes, NEW b \in Batches,
           NEW row \in Rows \ {"none"}, Writes(p, b, row), Alone(p)
    PROVE  /\ OnlyIn(b)
           /\ Entry(b) = OpenEntry(newest[b], Spent(b), {})
           /\ Entry(b)' = OpenEntry(newest[b], Spent(b) \union {proc[p].attempt},
                                    {row} \intersect Verdicts)
           /\ proc[p].attempt \in Slots
           /\ proc[p].attempt \in Spent(b) <=> Row(p, b) # "none"
  <1>1. /\ TypeOK /\ proc[p].cycle = newest[b]
        /\ newest[b] \in Cycles /\ proc[p].attempt \in Slots
    BY AtWork DEF Writes
  <1>2. /\ newest[b] # 0 /\ Newest(b).status # "exhausted" /\ Decided(b) = {}
        /\ Row(p, b) = attempts[b][newest[b]][proc[p].attempt]
    BY Undecided DEF Writes
  <1>3. \A a \in Batches, c \in Cycles, n \in Slots :
            attempts'[a][c][n] =
                IF a = b /\ c = newest[b] /\ n = proc[p].attempt
                THEN row ELSE attempts[a][c][n]
    BY <1>1, RowWritten DEF Writes
  <1>4. newest' = newest /\ cycles' = cycles
    BY DEF Writes
  <1>5. OnlyIn(b)
    BY <1>1, <1>4 DEF OnlyIn, Writes, WriteRow, TypeOK
  <1>6. Spent(b)' = Spent(b) \union {proc[p].attempt}
    BY <1>1, <1>2, <1>3, <1>4 DEF Spent
  <1>7. Decided(b)' = {row} \intersect Verdicts
    BY <1>1, <1>2, <1>3, <1>4 DEF Decided
  <1>8. MustOpen(b)' = FALSE
    BY <1>2, <1>4 DEF MustOpen, Newest
  <1>9. proc[p].attempt \in Spent(b) <=> Row(p, b) # "none"
    BY <1>1, <1>2 DEF Spent
  <1>10. Entry(b) = OpenEntry(newest[b], Spent(b), {})
    BY <1>2, EntryOfOpen
  <1>11. Entry(b)' = OpenEntry(newest[b], Spent(b) \union {proc[p].attempt},
                              {row} \intersect Verdicts)
    BY <1>4, <1>6, <1>7, <1>8, Zenon DEF Entry, OpenEntry
  <1> QED
    BY <1>1, <1>5, <1>9, <1>10, <1>11

LEMMA FailureLeavesBudget ==
    ASSUME IInv, NEW p \in Processes, NEW b \in Batches,
           Writes(p, b, "failed"), Row(p, b) = "started", NextAttempt(p)
    PROVE  Entries' = Entries
  <1>1. Alone(p) /\ "failed" \in Rows \ {"none"} /\ {"failed"} \intersect Verdicts = {}
    BY NextAttemptMoves, JournalAssumption DEF IInv, Rows
  <1>2. /\ OnlyIn(b)
        /\ Entry(b) = OpenEntry(newest[b], Spent(b), {})
        /\ Entry(b)' = OpenEntry(newest[b], Spent(b) \union {proc[p].attempt}, {})
        /\ proc[p].attempt \in Spent(b)
    BY <1>1, EntryOfRow
  <1>3. Spent(b) \union {proc[p].attempt} = Spent(b)
    BY <1>2
  <1>4. Entry(b)' = Entry(b)
    BY <1>2, <1>3
  <1> QED
    BY <1>2, <1>4, LeavesBudget

LEMMA OpenCycleOpens ==
    ASSUME IInv, NEW p \in Processes, NEW b \in Batches, OpenCycle(p, b)
    PROVE  Budget!BudgetNext
  <1> DEFINE k == newest[b] + 1
  <1>1. /\ TypeOK /\ newest \in [Batches -> 0 .. MaxCycles]
        /\ newest[b] \in 0 .. MaxCycles
        /\ cycles \in [Batches -> [Cycles -> CycleRecords]]
    BY JournalTypes DEF IInv
  <1>2. /\ MustOpen(b) /\ attempts' = attempts
        /\ newest' = [newest EXCEPT ![b] = k] /\ k \in Cycles /\ k # 0 /\ newest[b] < k
    BY <1>1, JournalAssumption DEF OpenCycle, Cycles
  <1>3. cycles' = [cycles EXCEPT ![b][k] =
            [status |-> "running", request |-> proc[p].request[b]]]
    BY DEF OpenCycle
  <1> HIDE DEF k
  <1>4. OnlyIn(b)
    BY <1>1, <1>2, <1>3 DEF OnlyIn
  <1>5. newest'[b] = k /\ cycles'[b][k].status = "running"
    BY <1>1, <1>2, <1>3
  <1>6. \A n \in Slots : attempts[b][k][n] = "none"
    <2>1. ~(k <= newest[b])
      BY <1>1, <1>2 DEF Cycles
    <2> QED
      BY <1>2, <2>1 DEF IInv, AttemptsInOrder
  <1>7. Spent(b)' = {} /\ Decided(b)' = {} /\ MustOpen(b)' = FALSE
    <2>1. Spent(b)' = {}
      BY <1>2, <1>5, <1>6 DEF Spent
    <2>2. Decided(b)' = {}
      BY <1>2, <1>5, <1>6, JournalAssumption DEF Decided
    <2>3. MustOpen(b)' = FALSE
      BY <1>2, <1>5 DEF MustOpen, Newest
    <2> QED
      BY <2>1, <2>2, <2>3
  <1>8. Entry(b)' = OpenEntry(k, {}, {})
    BY <1>5, <1>7, Zenon DEF Entry, OpenEntry
  <1> QED
    BY <1>2, <1>4, <1>8, Opens DEF k

LEMMA StartAttemptSpends ==
    ASSUME IInv, NEW p \in Processes, NEW b \in Batches, StartAttempt(p, b)
    PROVE  Budget!BudgetNext
  <1>1. Writes(p, b, "started") /\ Row(p, b) = "none"
    BY DEF StartAttempt, NotStarted, Writes, InBatch
  <1>2. /\ Alone(p) /\ "started" \in Rows \ {"none"}
        /\ {"started"} \intersect Verdicts = {}
    BY GotoMoves, JournalAssumption DEF StartAttempt, IInv, Rows, Phases
  <1>3. /\ OnlyIn(b)
        /\ Entry(b) = OpenEntry(newest[b], Spent(b), {})
        /\ Entry(b)' = OpenEntry(newest[b], Spent(b) \union {proc[p].attempt}, {})
        /\ proc[p].attempt \in Slots /\ proc[p].attempt \notin Spent(b)
    BY <1>1, <1>2, EntryOfRow
  <1> QED
    BY <1>3, Spends

LEMMA FinishSuccessDecides ==
    ASSUME IInv, NEW p \in Processes, NEW b \in Batches, FinishSuccess(p, b)
    PROVE  Budget!BudgetNext
  <1> DEFINE v == proc[p].reply
  <1>1. /\ proc[p].phase = "reply" /\ At(p, b) /\ v \in Verdicts
        /\ Reply(p, "close", v) /\ WriteRow(p, b, v)
        /\ UNCHANGED <<scope, newest, cycles, holder, source, store, calls>>
    BY DEF FinishSuccess, Succeed
  <1>2. Row(p, b) = "started"
    BY <1>1, AtWork DEF InBatch, Position
  <1>3. Writes(p, b, v) /\ v \in Rows \ {"none"}
    BY <1>1, <1>2, JournalAssumption DEF Writes, InBatch, Rows
  <1> HIDE DEF v
  <1>4. Alone(p)
    BY <1>1, ReplyMoves DEF IInv, Phases
  <1>5. /\ OnlyIn(b)
        /\ Entry(b) = OpenEntry(newest[b], Spent(b), {})
        /\ Entry(b)' = OpenEntry(newest[b], Spent(b) \union {proc[p].attempt},
                                 {v} \intersect Verdicts)
        /\ proc[p].attempt \in Spent(b)
    BY <1>2, <1>3, <1>4, EntryOfRow
  <1>6. Spent(b) \union {proc[p].attempt} = Spent(b) /\ {v} \intersect Verdicts = {v}
    BY <1>1, <1>5
  <1>7. Entry(b)' = OpenEntry(newest[b], Spent(b), {v}) /\ Spent(b) # {}
    BY <1>5, <1>6
  <1> QED
    BY <1>1, <1>5, <1>7, Decides

\* A cycle is closed as exhausted only when all its attempts are spent.
LEMMA CloseGivesUp ==
    ASSUME IInv, NEW p \in Processes, NEW b \in Batches, Close(p, b)
    PROVE  Budget!BudgetNext \/ Entries' = Entries
  <1>1. /\ proc[p].phase = "close" /\ At(p, b)
        /\ newest' = newest /\ attempts' = attempts
    BY DEF Close
  <1>2. /\ TypeOK /\ Position(p, b) /\ proc[p].cycle = newest[b]
        /\ newest[b] \in Cycles /\ newest[b] # 0
        /\ cycles[b][newest[b]].status # "exhausted"
    BY <1>1, AtWork DEF InBatch, Position, Cycles
  <1>3. /\ cycles \in [Batches -> [Cycles -> CycleRecords]]
        /\ cycles' = [cycles EXCEPT ![b][newest[b]].status =
               IF proc[p].reply = "failed" THEN "exhausted" ELSE "succeeded"]
    BY <1>2, JournalTypes DEF Close
  <1>4. cycles'[b][newest[b]].status
            = IF proc[p].reply = "failed" THEN "exhausted" ELSE "succeeded"
    BY <1>2, <1>3 DEF CycleRecords
  <1>5. OnlyIn(b)
    BY <1>1, <1>3 DEF OnlyIn
  <1>6. Spent(b)' = Spent(b) /\ Decided(b)' = Decided(b)
    BY <1>1 DEF Spent, Decided
  <1>7. CASE proc[p].reply = "failed"
    <2>1. \A n \in Slots : attempts[b][newest[b]][n] = "failed"
      BY <1>1, <1>2, <1>7, JournalAssumption DEF Position
    <2>2. Spent(b) = Slots
      BY <1>2, <2>1 DEF Spent
    <2>3. Decided(b) = {}
      BY <1>2, <2>1, JournalAssumption DEF Decided
    <2>4. MustOpen(b)' = TRUE
      BY <1>1, <1>4, <1>7 DEF MustOpen, Newest
    <2>5. Entry(b) = OpenEntry(newest[b], Spent(b), {})
      BY <1>2, <2>3, EntryOfOpen DEF Newest
    <2>6. Entry(b)' = [cycle |-> newest[b], spent |-> Spent(b), verdicts |-> {},
                       exhausted |-> TRUE]
      BY <1>1, <1>6, <2>3, <2>4, Zenon DEF Entry
    <2> QED
      BY <1>5, <2>2, <2>5, <2>6, GivesUp
  <1>8. CASE proc[p].reply # "failed"
    <2>1. MustOpen(b) = FALSE /\ MustOpen(b)' = FALSE
      BY <1>1, <1>2, <1>4, <1>8 DEF MustOpen, Newest
    <2>2. Entry(b)' = Entry(b)
      BY <1>1, <1>6, <2>1, Zenon DEF Entry
    <2> QED
      BY <1>5, <2>2, LeavesBudget
  <1> QED
    BY <1>7, <1>8

LEMMA WorkKeepsBudget ==
    ASSUME IInv, NEW p \in Processes, NEW b \in Batches, Work(p, b)
    PROVE  Budget!BudgetNext \/ Entries' = Entries
  <1>1. CASE OpenCycle(p, b)
    BY <1>1, OpenCycleOpens
  <1>2. CASE StartAttempt(p, b)
    BY <1>2, StartAttemptSpends
  <1>3. CASE Interrupt(p, b)
    BY <1>3, FailureLeavesBudget DEF Interrupt, Writes, InBatch
  <1>4. CASE FinishFailure(p, b)
    <2>1. At(p, b) /\ proc[p].phase = "reply"
      BY <1>4 DEF FinishFailure
    <2>2. Row(p, b) = "started"
      BY <2>1, AtWork DEF InBatch, Position
    <2> QED
      BY <1>4, <2>1, <2>2, FailureLeavesBudget DEF FinishFailure, Writes, InBatch
  <1>5. CASE FinishSuccess(p, b)
    BY <1>5, FinishSuccessDecides
  <1>6. CASE Close(p, b)
    BY <1>6, CloseGivesUp
  <1>7. CASE \/ PrepareRefused(p, b) \/ ResumeCycle(p, b) \/ ReplayFailure(p, b)
             \/ ReplaySuccess(p, b) \/ Call(p, b) \/ OrphanCall(p, b)
    BY <1>7, QuietLeavesBudget DEF PrepareRefused, ResumeCycle, ReplayFailure,
           ReplaySuccess, Call, OrphanCall
  <1> QED
    BY <1>1, <1>2, <1>3, <1>4, <1>5, <1>6, <1>7 DEF Work

LEMMA StepKeepsBudget ==
    ASSUME IInv, [Next]_vars
    PROVE  Budget!BudgetNext \/ Entries' = Entries
  <1>1. CASE Environment
    BY <1>1, EnvironmentInv, QuietLeavesBudget
  <1>2. ASSUME NEW p \in Processes, NEW b \in Batches, Work(p, b)
        PROVE  Budget!BudgetNext \/ Entries' = Entries
    BY <1>2, WorkKeepsBudget
  <1>3. ASSUME NEW p \in Processes, Configure(p)
        PROVE  Entries' = Entries
    BY <1>3 DEF Configure, Entries, Entry, Spent, Decided, MustOpen, Newest
  <1>4. ASSUME NEW p \in Processes,
               \/ \E s \in Settings : Begin(p, s)
               \/ Acquire(p) \/ Refused(p) \/ ConfigureRefused(p) \/ LoseConnection(p)
               \/ Release(p) \/ Persist(p) \/ PersistRefused(p) \/ Crash(p)
        PROVE  Entries' = Entries
    BY <1>4, QuietLeavesBudget DEF Begin, Acquire, Refused, ConfigureRefused,
           LoseConnection, Release, Persist, PersistRefused, Crash
  <1>5. CASE UNCHANGED vars
    BY <1>5, QuietLeavesBudget DEF vars
  <1> QED
    BY <1>1, <1>2, <1>3, <1>4, <1>5 DEF Next, Step

\* The journal implements the budget of attempts: a batch with a verdict is never
\* sent again, and one without is given up only when all attempts are spent.
THEOREM Refinement == Spec => BudgetIsKept
  <1>1. IInv /\ [Next]_vars => [Budget!BudgetNext]_Entries
    BY StepKeepsBudget
  <1>2. Entries = [b \in Batches |->
            [cycle |-> newest[b], spent |-> Spent(b),
             verdicts |-> Decided(b), exhausted |-> MustOpen(b)]]
    BY DEF Entries, Entry
  <1> QED
    BY <1>1, <1>2, Inductive, BudgetInitially, PTL
       DEF Spec, BudgetIsKept, Budget!BudgetSpec, Entries, Entry

====
