---------------------------- MODULE Rollout_proofs ----------------------------
(***************************************************************************)
(* Why pods that are replaced and migrate at once leave a database that    *)
(* one image describes:                                                    *)
(*   - a ledger row, once committed, is never written again, because a     *)
(*     revision is recorded only where no session has recorded it;         *)
(*   - what an open upgrade has written is what the revisions of its image *)
(*     from the version it read to the one it is at make (SetupsInv);      *)
(*   - what is applied is closed under down (AppliedInv);                  *)
(*   - whoever moves the version holds it, has files that the ledger does  *)
(*     not contradict, and moves a database that its own image would have  *)
(*     left where it is (StateInv).                                        *)
(* And that the runs stored meanwhile are of one attempt each, and what is *)
(* answered of them is too: a pod that is replaced ends its sessions, and  *)
(* setups leave the runs alone.                                            *)
(***************************************************************************)
EXTENDS Rollout, FiniteSetTheorems, TLAPS, WellFoundedInduction

-------------------------------------------------------------------------------
(* The writers of runs and their readers.                                  *)

Attempt == [run : Runs, findings : SUBSET Findings, verdicts : Seq(Verdicts),
            by : {"request", "command"}]
Row == [val : Nat, by : Sessions \cup {NoOne}, new : Nat]
ReportType == [run : Nat, metrics : Nat, findings : [Findings -> Nat]]
Steps == {"idle", "execute", "metrics", "findings", "seek", "insert", "update", "addMetrics",
          "addFindings", "verdicts", "addVerdict", "commit", "readRun", "readMetrics",
          "readFindings", "answer"}
Place == [step : Steps, attempt : Nat, run : Runs \cup {NoOne}, at : Nat, report : ReportType]

Typed ==
    /\ rows \in [Keys -> Row]
    /\ attempts \in Seq(Attempt)
    /\ writer \in [Sessions -> Place]
    /\ gate \in Gated \cup {NoOne}

\* A session in its transaction persists the run of an attempt that was made; the
\* session that reads a run has one.
Persists(s) ==
    /\ InPersist(s) =>
           /\ writer[s].attempt \in 1 .. Len(attempts)
           /\ Run(s) = attempts[writer[s].attempt].run
           /\ writer[s].step = "findings" => writer[s].at \in Findings
    /\ writer[s].step \in {"readRun", "readMetrics", "readFindings"} => Run(s) \in Runs

\* It has changed rows of that run only, and stored no verdict but as its own.
ChangesItsRun(s) ==
    /\ \A r \in Runs :
           /\ rows[RunRow(r)].by = s => InPersist(s) /\ r = Run(s)
           /\ rows[MetricsRow(r)].by = s => InPersist(s) /\ r = Run(s)
           /\ \A f \in Findings : rows[FindingRow(r, f)].by = s => InPersist(s) /\ r = Run(s)
    /\ \A v \in Verdicts :
           rows[VerdictRow(v)].by = s => InPersist(s) /\ rows[VerdictRow(v)].new # 0

Becomes(s, k, attempt) == rows[k].by = s /\ rows[k].new = attempt

\* Findings of its run that its DELETE has passed, and those it has inserted.
Scanned(s) ==
    {f \in Findings : /\ writer[s].step # "metrics"
                      /\ writer[s].step = "findings" => f < writer[s].at}
Added(s) ==
    {f \in Findings : /\ writer[s].step \in {"addFindings", "verdicts", "addVerdict", "commit"}
                      /\ f \in Payload(s).findings
                      /\ writer[s].step = "addFindings" => f < writer[s].at}

\* How far the run has been replaced.  Who has the metrics row keeps every other
\* session from replacing the run, so what was absent when scanned is absent still.
Replaces(s) ==
    InPersist(s) =>
        /\ writer[s].step \in {"addMetrics", "addFindings", "verdicts", "addVerdict", "commit"}
              => Becomes(s, RunRow(Run(s)), writer[s].attempt)
        /\ writer[s].step \in {"addFindings", "verdicts", "addVerdict", "commit"}
              => Becomes(s, MetricsRow(Run(s)), writer[s].attempt)
        /\ rows[MetricsRow(Run(s))].by = s =>
              \A f \in Scanned(s) : \/ rows[FindingRow(Run(s), f)].by = s
                                    \/ rows[FindingRow(Run(s), f)].val = 0
        /\ \A f \in Added(s) : Becomes(s, FindingRow(Run(s), f), writer[s].attempt)
        /\ \A f \in Findings \ Added(s) :
              rows[FindingRow(Run(s), f)].by = s => rows[FindingRow(Run(s), f)].new = 0

\* The verdicts it was assessed by and has passed are stored, or will be with the rest.
Keeps(s, v) == rows[VerdictRow(v)].val # 0 \/ rows[VerdictRow(v)].by = s
KeepsVerdicts(s) ==
    /\ writer[s].step \in {"verdicts", "addVerdict"} =>
           \A i \in 1 .. Len(Payload(s).verdicts) :
               i < writer[s].at => Keeps(s, Payload(s).verdicts[i])
    /\ writer[s].step \in {"verdicts", "addVerdict"} => writer[s].at >= 1
    /\ writer[s].step = "addVerdict" => writer[s].at \in 1 .. Len(Payload(s).verdicts)
    /\ writer[s].step = "commit" =>
           \A i \in 1 .. Len(Payload(s).verdicts) : Keeps(s, Payload(s).verdicts[i])

InOrder(s) == Persists(s) /\ ChangesItsRun(s) /\ Replaces(s) /\ KeepsVerdicts(s)

StoredAttempts == \A r \in Runs : rows[RunRow(r)].val \in 0 .. Len(attempts)

WritersInv ==
    /\ Typed
    /\ \A s \in Sessions : InOrder(s)
    /\ StoredAttempts
    /\ RowsAreOfOneAttempt
    /\ VerdictsAreStored

-------------------------------------------------------------------------------
LEMMA FindingsAreNumbered ==
    ASSUME WritersAssumption
    PROVE  /\ Cardinality(Findings) \in Nat /\ Findings \subseteq Nat
           /\ \A f \in Findings : 1 <= f /\ f <= Cardinality(Findings)
           /\ \A f \in 1 .. Cardinality(Findings) : f \in Findings
           /\ Findings # {} => 1 \in Findings
<1>1. Cardinality(Findings) \in Nat
    BY FS_CardinalityType DEF WritersAssumption
<1> QED
    BY <1>1 DEF WritersAssumption

LEMMA KeysAre ==
    /\ \A r \in Runs : RunRow(r) \in Keys /\ MetricsRow(r) \in Keys
    /\ \A r \in Runs, f \in Findings : FindingRow(r, f) \in Keys
    /\ \A v \in Verdicts : VerdictRow(v) \in Keys
BY DEF Keys

\* What a step of the sessions S leaves to the others: their places and rows, and what
\* is stored, but for what one of S commits.
Beside(S) ==
    /\ Typed'
    /\ \A t \in Sessions \ S : writer'[t] = writer[t]
    /\ \A k \in Keys : \A t \in Sessions \ S :
           rows[k].by = t \/ rows'[k].by = t => rows'[k] = rows[k]
    /\ Len(attempts) <= Len(attempts')
    /\ \A n \in 1 .. Len(attempts) : attempts'[n] = attempts[n]
    /\ \A k \in Keys : rows'[k].val = rows[k].val
                       \/ (rows[k].by \in S /\ writer[rows[k].by].step = "commit")
    /\ \A v \in Verdicts : rows[VerdictRow(v)].val # 0 => rows'[VerdictRow(v)].val # 0

LEMMA RunIsARun ==
    ASSUME WritersAssumption, Typed, NEW s \in Sessions, Persists(s), InPersist(s)
    PROVE  /\ writer[s].attempt \in 1 .. Len(attempts)
           /\ Run(s) \in Runs
           /\ Payload(s) \in Attempt
<1>1. attempts[writer[s].attempt] \in Attempt /\ Run(s) = attempts[writer[s].attempt].run
    BY DEF Typed, Persists
<1> QED
    BY <1>1 DEF Attempt, Payload, Persists

LEMMA OthersInOrder ==
    ASSUME WritersAssumption, WritersInv, NEW S \in SUBSET Sessions, Beside(S),
           NEW t \in Sessions \ S
    PROVE  InOrder(t)'
<1> USE DEF Beside
<1>1. InOrder(t) /\ \A s \in S : InOrder(s)
    BY DEF WritersInv
<1>2. writer'[t] = writer[t] /\ (InPersist(t)' <=> InPersist(t)) /\ Run(t)' = Run(t)
    BY DEF InPersist, Run
<1>3. InPersist(t) => Payload(t)' = Payload(t) /\ Scanned(t)' = Scanned(t) /\ Added(t)' = Added(t)
    BY <1>1, <1>2 DEF InOrder, Persists, Payload, Scanned, Added
<1>4. Persists(t)'
    BY <1>1, <1>2 DEF InOrder, Persists, WritersInv, Typed
<1>5. ChangesItsRun(t)'
    BY <1>1, <1>2, KeysAre DEF InOrder, ChangesItsRun
<1>6. Replaces(t)'
    <2> SUFFICES ASSUME InPersist(t) PROVE Replaces(t)'
        BY <1>2 DEF Replaces
    <2>1. Run(t) \in Runs /\ Added(t) \subseteq Findings /\ Scanned(t) \subseteq Findings
        BY <1>1, RunIsARun DEF InOrder, WritersInv, Added, Scanned, Attempt
    <2>2. \A f \in Findings : FindingRow(Run(t), f) \in Keys
        BY <2>1, KeysAre
    <2>3. RunRow(Run(t)) \in Keys /\ MetricsRow(Run(t)) \in Keys
        BY <2>1, KeysAre
    <2>4. ASSUME rows'[MetricsRow(Run(t))].by = t, NEW f \in Scanned(t)
          PROVE  \/ rows'[FindingRow(Run(t), f)].by = t
                 \/ rows'[FindingRow(Run(t), f)].val = 0
        <3>1. rows[MetricsRow(Run(t))].by = t
            BY <2>3, <2>4
        <3>2. FindingRow(Run(t), f) \in Keys
            BY <2>1, <2>2
        <3>3. CASE rows[FindingRow(Run(t), f)].by = t
            BY <3>2, <3>3
        <3>4. CASE rows[FindingRow(Run(t), f)].val = 0
            <4>1. CASE rows'[FindingRow(Run(t), f)].val = rows[FindingRow(Run(t), f)].val
                BY <3>4, <4>1
            <4>2. CASE /\ rows[FindingRow(Run(t), f)].by \in S
                       /\ writer[rows[FindingRow(Run(t), f)].by].step = "commit"
                <5> DEFINE s == rows[FindingRow(Run(t), f)].by
                <5>1. InPersist(s) /\ Run(s) = Run(t)
                    BY <1>1, <2>1, <4>2 DEF InOrder, ChangesItsRun
                <5>2. rows[MetricsRow(Run(s))].by = s
                    BY <1>1, <4>2, <5>1 DEF InOrder, Replaces, Becomes
                <5> QED
                    BY <3>1, <4>2, <5>1, <5>2
            <4> QED
                BY <3>2, <4>1, <4>2
        <3> QED
            BY <1>1, <3>1, <3>3, <3>4 DEF InOrder, Replaces
    <2>5. \A f \in Added(t) : Becomes(t, FindingRow(Run(t), f), writer[t].attempt)'
        BY <1>1, <1>2, <2>1, <2>2 DEF InOrder, Replaces, Becomes
    <2>6. \A f \in Findings \ Added(t) :
              rows'[FindingRow(Run(t), f)].by = t => rows'[FindingRow(Run(t), f)].new = 0
        BY <1>1, <2>2 DEF InOrder, Replaces
    <2>7. /\ writer[t].step \in {"addMetrics", "addFindings", "verdicts", "addVerdict", "commit"}
                => Becomes(t, RunRow(Run(t)), writer[t].attempt)'
          /\ writer[t].step \in {"addFindings", "verdicts", "addVerdict", "commit"}
                => Becomes(t, MetricsRow(Run(t)), writer[t].attempt)'
        BY <1>1, <1>2, <2>3 DEF InOrder, Replaces, Becomes
    <2> QED
        BY <1>2, <1>3, <2>4, <2>5, <2>6, <2>7 DEF Replaces
<1>7. KeepsVerdicts(t)'
    <2> SUFFICES ASSUME InPersist(t) PROVE KeepsVerdicts(t)'
        BY <1>2 DEF KeepsVerdicts, InPersist
    <2>1. \A i \in 1 .. Len(Payload(t).verdicts) : Payload(t).verdicts[i] \in Verdicts
        BY <1>1, RunIsARun DEF InOrder, WritersInv, Attempt
    <2>2. \A v \in Verdicts : Keeps(t, v) => Keeps(t, v)'
        BY KeysAre DEF Keeps
    <2> QED
        BY <1>1, <1>2, <1>3, <2>1, <2>2 DEF InOrder, KeepsVerdicts
<1> QED
    BY <1>4, <1>5, <1>6, <1>7 DEF InOrder

\* As long as nothing is committed, what is stored stays as it should be.
LEMMA TablesStay ==
    ASSUME WritersAssumption, WritersInv, NEW S \in SUBSET Sessions, Beside(S),
           \A k \in Keys : rows'[k].val = rows[k].val
    PROVE  StoredAttempts' /\ RowsAreOfOneAttempt' /\ VerdictsAreStored'
<1>1. StoredAttempts'
    BY KeysAre DEF WritersInv, StoredAttempts, Beside, Typed
<1>2. ASSUME NEW r \in Runs PROVE rows'[RunRow(r)].val = rows[RunRow(r)].val
                                  /\ (rows[RunRow(r)].val # 0 =>
                                        attempts'[rows[RunRow(r)].val] = attempts[rows[RunRow(r)].val])
    BY KeysAre DEF WritersInv, StoredAttempts, Beside, Typed
<1>3. RowsAreOfOneAttempt'
    BY <1>2, KeysAre DEF WritersInv, RowsAreOfOneAttempt
<1>4. VerdictsAreStored'
    <2> SUFFICES ASSUME NEW r \in Runs, rows'[RunRow(r)].val # 0,
                        NEW i \in DOMAIN attempts'[rows'[RunRow(r)].val].verdicts
                 PROVE  rows'[VerdictRow(attempts'[rows'[RunRow(r)].val].verdicts[i])].val # 0
        BY DEF VerdictsAreStored, StoredRuns
    <2>1. rows'[RunRow(r)].val = rows[RunRow(r)].val /\ rows[RunRow(r)].val # 0
        BY <1>2
    <2>2. attempts'[rows'[RunRow(r)].val] = attempts[rows[RunRow(r)].val]
        BY <1>2, <2>1
    <2>3. attempts[rows[RunRow(r)].val] \in Attempt
        <3>1. attempts \in Seq(Attempt) /\ Len(attempts) \in Nat
            BY DEF WritersInv, Typed
        <3>2. rows[RunRow(r)].val \in 1 .. Len(attempts)
            BY <2>1, <3>1 DEF WritersInv, StoredAttempts
        <3> QED
            BY <3>1, <3>2
    <2>4. attempts[rows[RunRow(r)].val].verdicts[i] \in Verdicts
        BY <2>2, <2>3 DEF Attempt
    <2>5. rows[VerdictRow(attempts[rows[RunRow(r)].val].verdicts[i])].val # 0
        BY <2>1, <2>2 DEF WritersInv, VerdictsAreStored, StoredRuns
    <2> QED
        BY <2>2, <2>4, <2>5, KeysAre
<1> QED
    BY <1>1, <1>3, <1>4

-------------------------------------------------------------------------------
\* A step that commits nothing keeps the invariant if its own session is in order.
LEMMA QuietStep ==
    ASSUME WritersAssumption, WritersInv, NEW S \in SUBSET Sessions, Beside(S),
           \A k \in Keys : rows'[k].val = rows[k].val,
           \A s \in S : InOrder(s)'
    PROVE  WritersInv'
<1>1. \A t \in Sessions : InOrder(t)'
    BY OthersInOrder
<1> QED
    BY <1>1, TablesStay DEF WritersInv, Beside

\* Resting sessions have changed nothing and promise nothing.
LEMMA RestingInOrder ==
    ASSUME WritersAssumption, Typed', NEW s \in Sessions, writer'[s] = Resting,
           \A k \in Keys : rows'[k].by # s
    PROVE  InOrder(s)'
<1>1. writer'[s].step = "idle"
    BY DEF Resting
<1>2. ~InPersist(s)'
    BY <1>1 DEF InPersist
<1>3. ChangesItsRun(s)'
    BY KeysAre DEF ChangesItsRun
<1> QED
    BY <1>1, <1>2, <1>3 DEF InOrder, Persists, Replaces, KeepsVerdicts

LEMMA RestingTyped == WritersAssumption => Resting \in Place /\ NoReport \in ReportType
BY DEF Resting, NoReport, Place, ReportType, Steps

\* Sessions that end roll back what they had changed.
Ended(S) ==
    /\ rows' = [k \in Keys |-> IF rows[k].by \in S THEN Stored(rows[k].val) ELSE rows[k]]
    /\ writer' = [s \in Sessions |-> IF s \in S THEN Resting ELSE writer[s]]
    /\ gate' \in Gated \cup {NoOne}
    /\ UNCHANGED attempts

LEMMA EndedKeeps ==
    ASSUME WritersAssumption, WritersInv, NEW S \in SUBSET Sessions, Ended(S)
    PROVE  WritersInv'
<1>1. Typed'
    BY RestingTyped DEF WritersInv, Typed, Ended, Row, Stored
<1>2. \A k \in Keys : rows'[k].val = rows[k].val
    BY DEF Ended, Stored, WritersInv, Typed, Row
<1>3. \A k \in Keys : \A t \in Sessions \ S :
           rows[k].by = t \/ rows'[k].by = t => rows'[k] = rows[k]
    BY DEF Ended, Stored, WritersAssumption
<1>4. Beside(S)
    BY <1>1, <1>2, <1>3, KeysAre DEF Ended, Beside
<1>5. \A s \in S : InOrder(s)'
    BY <1>1, RestingInOrder DEF Ended, Stored, WritersAssumption
<1> QED
    BY <1>2, <1>4, <1>5, QuietStep

-------------------------------------------------------------------------------
LEMMA GoesTo ==
    ASSUME WritersAssumption, Typed, NEW s \in Sessions, NEW step \in Steps, NEW at \in Nat,
           GoTo(s, step, at)
    PROVE  /\ writer' \in [Sessions -> Place]
           /\ \A t \in Sessions \ {s} : writer'[t] = writer[t]
           /\ writer'[s].step = step /\ writer'[s].at = at
           /\ writer'[s].attempt = writer[s].attempt /\ writer'[s].run = writer[s].run
           /\ writer'[s].report = writer[s].report
BY DEF Typed, GoTo, Place, Run

LEMMA Writes ==
    ASSUME WritersAssumption, Typed, NEW s \in Sessions, NEW k \in Keys, NEW attempt \in Nat,
           Free(s, k), Write(s, k, attempt)
    PROVE  /\ rows' \in [Keys -> Row]
           /\ \A j \in Keys : rows'[j].val = rows[j].val
           /\ \A j \in Keys \ {k} : rows'[j] = rows[j]
           /\ rows'[k].by = s /\ rows'[k].new = attempt
           /\ \A j \in Keys : \A t \in Sessions \ {s} :
                  rows[j].by = t \/ rows'[j].by = t => rows'[j] = rows[j]
BY DEF Typed, Write, Row, Free, WritersAssumption

LEMMA Deletes ==
    ASSUME WritersAssumption, Typed, NEW s \in Sessions, NEW k \in Keys, Free(s, k), Delete(s, k)
    PROVE  /\ rows' \in [Keys -> Row]
           /\ \A j \in Keys : rows'[j].val = rows[j].val
           /\ \A j \in Keys \ {k} : rows'[j] = rows[j]
           /\ \/ rows'[k].by = s /\ rows'[k].new = 0
              \/ rows'[k] = rows[k] /\ rows[k].val = 0 /\ rows[k].by # s
           /\ \A j \in Keys : \A t \in Sessions \ {s} :
                  rows[j].by = t \/ rows'[j].by = t => rows'[j] = rows[j]
<1>1. CASE Sees(s, k) = 0
    BY <1>1 DEF Typed, Delete, Sees, Free
<1>2. CASE Sees(s, k) # 0
    BY <1>2, Writes DEF Delete
<1> QED
    BY <1>1, <1>2

\* A step of one session that commits nothing.
LEMMA BesideOne ==
    ASSUME WritersAssumption, Typed, NEW s \in Sessions,
           rows' \in [Keys -> Row], writer' \in [Sessions -> Place],
           gate' \in Gated \cup {NoOne}, UNCHANGED attempts,
           \A t \in Sessions \ {s} : writer'[t] = writer[t],
           \A k \in Keys : rows'[k].val = rows[k].val,
           \A k \in Keys : \A t \in Sessions \ {s} :
               rows[k].by = t \/ rows'[k].by = t => rows'[k] = rows[k]
    PROVE  Beside({s})
BY KeysAre DEF Typed, Beside

-------------------------------------------------------------------------------
\* What is common to the steps of a session in its transaction that commit nothing.
LEMMA TransactionStep ==
    ASSUME WritersAssumption, WritersInv, NEW s \in Sessions,
           rows' \in [Keys -> Row], \A k \in Keys : rows'[k].val = rows[k].val,
           \A k \in Keys : \A t \in Sessions \ {s} :
               rows[k].by = t \/ rows'[k].by = t => rows'[k] = rows[k],
           writer' \in [Sessions -> Place], \A t \in Sessions \ {s} : writer'[t] = writer[t],
           UNCHANGED <<attempts, gate>>,
           Typed' => InOrder(s)'
    PROVE  WritersInv'
<1>1. Beside({s}) /\ Typed'
    BY BesideOne DEF WritersInv, Typed
<1> QED
    BY <1>1, QuietStep

\* It stays with its run and attempt.
LEMMA Moves ==
    ASSUME WritersAssumption, WritersInv, NEW s \in Sessions, InPersist(s),
           NEW step \in {"metrics", "findings", "seek", "insert", "update", "addMetrics",
                         "addFindings", "verdicts", "addVerdict", "commit"},
           NEW at \in Nat, GoTo(s, step, at), UNCHANGED attempts,
           step = "findings" => at \in Findings
    PROVE  /\ writer' \in [Sessions -> Place] /\ \A t \in Sessions \ {s} : writer'[t] = writer[t]
           /\ writer'[s].step = step /\ writer'[s].at = at
           /\ writer'[s].attempt = writer[s].attempt
           /\ Run(s)' = Run(s) /\ InPersist(s)' /\ Payload(s)' = Payload(s)
           /\ Persists(s)'
<1>1. Typed /\ Persists(s) /\ step \in Steps
    BY DEF WritersInv, InOrder, Steps
<1>2. /\ writer' \in [Sessions -> Place] /\ \A t \in Sessions \ {s} : writer'[t] = writer[t]
      /\ writer'[s].step = step /\ writer'[s].at = at
      /\ writer'[s].attempt = writer[s].attempt /\ writer'[s].run = writer[s].run
    BY <1>1, GoesTo
<1>3. Run(s)' = Run(s) /\ InPersist(s)' /\ Payload(s)' = Payload(s)
    BY <1>2 DEF Run, InPersist, Payload
<1> QED
    BY <1>1, <1>2, <1>3 DEF Persists

\* What a session in its transaction has, in one place.
LEMMA InTransaction ==
    ASSUME WritersAssumption, WritersInv, NEW s \in Sessions, InPersist(s)
    PROVE  /\ Typed /\ Persists(s) /\ ChangesItsRun(s) /\ Replaces(s) /\ KeepsVerdicts(s)
           /\ writer[s].attempt \in 1 .. Len(attempts)
           /\ Run(s) \in Runs /\ Payload(s) \in Attempt
           /\ RunRow(Run(s)) \in Keys /\ MetricsRow(Run(s)) \in Keys
           /\ \A f \in Findings : FindingRow(Run(s), f) \in Keys
           /\ writer[s].at \in Nat
<1>1. Typed /\ Persists(s) /\ ChangesItsRun(s) /\ Replaces(s) /\ KeepsVerdicts(s)
    BY DEF WritersInv, InOrder
<1>2. writer[s].attempt \in 1 .. Len(attempts) /\ Run(s) \in Runs /\ Payload(s) \in Attempt
    BY <1>1, RunIsARun
<1>3. writer[s].at \in Nat
    BY <1>1 DEF Typed, Place
<1> QED
    BY <1>1, <1>2, <1>3, KeysAre

\* Changing one row of its run is its right.
LEMMA ChangesOneRow ==
    ASSUME WritersAssumption, WritersInv, NEW s \in Sessions, InPersist(s), NEW k \in Keys,
           \/ k = RunRow(Run(s)) \/ k = MetricsRow(Run(s))
           \/ \E f \in Findings : k = FindingRow(Run(s), f),
           \A j \in Keys \ {k} : rows'[j] = rows[j],
           InPersist(s)', Run(s)' = Run(s)
    PROVE  ChangesItsRun(s)'
<1>1. \A r \in Runs : RunRow(r) = k \/ rows'[RunRow(r)] = rows[RunRow(r)]
    BY KeysAre
<1>2. \A r \in Runs : MetricsRow(r) = k \/ rows'[MetricsRow(r)] = rows[MetricsRow(r)]
    BY KeysAre
<1>3. \A r \in Runs, f \in Findings :
          FindingRow(r, f) = k \/ rows'[FindingRow(r, f)] = rows[FindingRow(r, f)]
    BY KeysAre
<1>4. \A v \in Verdicts : rows'[VerdictRow(v)] = rows[VerdictRow(v)]
    <2>1. ASSUME NEW v \in Verdicts PROVE VerdictRow(v) # k
        BY DEF RunRow, MetricsRow, FindingRow, VerdictRow
    <2> QED
        BY <2>1, KeysAre
<1>5. \A r \in Runs : /\ RunRow(r) = k => r = Run(s)
                      /\ MetricsRow(r) = k => r = Run(s)
                      /\ \A f \in Findings : FindingRow(r, f) = k => r = Run(s)
    BY DEF RunRow, MetricsRow, FindingRow
<1> QED
    BY <1>1, <1>2, <1>3, <1>4, <1>5, InTransaction DEF ChangesItsRun

LEMMA DeleteMetricsKeeps ==
    ASSUME WritersAssumption, WritersInv, NEW s \in Sessions, DeleteMetrics(s)
    PROVE  WritersInv'
<1> DEFINE k == MetricsRow(Run(s))
           next == IF Findings = {} THEN "seek" ELSE "findings"
<1>1. InPersist(s) /\ writer[s].step = "metrics" /\ UNCHANGED <<attempts, gate>>
    BY DEF DeleteMetrics, InPersist
<1>2. Free(s, k) /\ Delete(s, k) /\ GoTo(s, next, 1) /\ k \in Keys /\ Typed
    BY <1>1, InTransaction DEF DeleteMetrics, Step
<1> HIDE DEF k, next
<1>3. /\ writer'[s].step = next /\ writer'[s].at = 1
      /\ writer' \in [Sessions -> Place] /\ \A t \in Sessions \ {s} : writer'[t] = writer[t]
      /\ writer'[s].attempt = writer[s].attempt
      /\ Run(s)' = Run(s) /\ InPersist(s)' /\ Persists(s)'
    BY <1>1, <1>2, Moves, FindingsAreNumbered DEF next
<1>4. ChangesItsRun(s)'
    BY <1>1, <1>2, <1>3, Deletes, ChangesOneRow DEF k
<1>5. Replaces(s)'
    <2>1. Scanned(s)' = {} /\ Added(s)' = {} /\ Added(s) = {}
        BY <1>1, <1>3, FindingsAreNumbered DEF Scanned, Added, next
    <2>2. \A f \in Findings : rows'[FindingRow(Run(s), f)] = rows[FindingRow(Run(s), f)]
        BY <1>1, <1>2, InTransaction, Deletes DEF k, MetricsRow, FindingRow
    <2> QED
        BY <1>1, <1>3, <2>1, <2>2, InTransaction DEF Replaces, next
<1>6. KeepsVerdicts(s)'
    BY <1>3 DEF KeepsVerdicts, next
<1> QED
    BY <1>1, <1>2, <1>3, <1>4, <1>5, <1>6, Deletes, TransactionStep DEF InOrder

LEMMA DeleteFindingKeeps ==
    ASSUME WritersAssumption, WritersInv, NEW s \in Sessions, DeleteFinding(s)
    PROVE  WritersInv'
<1> DEFINE f0 == writer[s].at
           k == FindingRow(Run(s), f0)
           last == f0 = Cardinality(Findings)
           next == IF last THEN "seek" ELSE "findings"
           at == IF last THEN 1 ELSE f0 + 1
<1>1. InPersist(s) /\ writer[s].step = "findings" /\ UNCHANGED <<attempts, gate>>
    BY DEF DeleteFinding, InPersist
<1>2. f0 \in Findings /\ at \in Nat /\ (next = "findings" => at \in Findings)
    BY <1>1, InTransaction, FindingsAreNumbered DEF Persists
<1>3. Free(s, k) /\ Delete(s, k) /\ GoTo(s, next, at) /\ k \in Keys /\ Typed
    BY <1>1, <1>2, InTransaction DEF DeleteFinding, DeleteRow, Step
<1> HIDE DEF f0, k, next, at, last
<1>4. /\ writer'[s].step = next /\ writer'[s].at = at
      /\ writer' \in [Sessions -> Place] /\ \A t \in Sessions \ {s} : writer'[t] = writer[t]
      /\ writer'[s].attempt = writer[s].attempt
      /\ Run(s)' = Run(s) /\ InPersist(s)' /\ Persists(s)'
    BY <1>1, <1>2, <1>3, Moves DEF next
<1>5. ChangesItsRun(s)'
    BY <1>1, <1>2, <1>3, <1>4, Deletes, ChangesOneRow DEF k
<1>6. Replaces(s)'
    <2>1. Scanned(s)' = Scanned(s) \cup {f0} /\ Added(s)' = {} /\ Added(s) = {}
        BY <1>1, <1>2, <1>4, FindingsAreNumbered DEF Scanned, Added, next, at, last, f0
    <2>2. \A f \in Findings \ {f0} : rows'[FindingRow(Run(s), f)] = rows[FindingRow(Run(s), f)]
        BY <1>1, <1>3, InTransaction, Deletes DEF k, FindingRow
    <2>3. rows'[MetricsRow(Run(s))] = rows[MetricsRow(Run(s))]
        BY <1>1, <1>3, InTransaction, Deletes DEF k, MetricsRow, FindingRow
    <2>4. \/ rows'[FindingRow(Run(s), f0)].by = s /\ rows'[FindingRow(Run(s), f0)].new = 0
          \/ rows'[FindingRow(Run(s), f0)].by # s /\ rows'[FindingRow(Run(s), f0)].val = 0
        BY <1>1, <1>3, InTransaction, Deletes DEF k
    <2>5. \A f \in Scanned(s) \cup {f0} : f \in Findings
        BY <1>2 DEF Scanned
    <2> QED
        BY <1>1, <1>4, <2>1, <2>2, <2>3, <2>4, <2>5, InTransaction DEF Replaces, next
<1>7. KeepsVerdicts(s)'
    BY <1>4 DEF KeepsVerdicts, next
<1> QED
    BY <1>1, <1>3, <1>4, <1>5, <1>6, <1>7, Deletes, TransactionStep DEF InOrder

LEMMA SeekRunKeeps ==
    ASSUME WritersAssumption, WritersInv, NEW s \in Sessions, SeekRun(s)
    PROVE  WritersInv'
<1> DEFINE next == IF Sees(s, RunRow(Run(s))) = 0 THEN "insert" ELSE "update"
<1>1. InPersist(s) /\ writer[s].step = "seek" /\ UNCHANGED <<attempts, gate, rows>>
    BY DEF SeekRun, InPersist
<1>2. GoTo(s, next, 1) /\ next \in {"insert", "update"}
    BY DEF SeekRun, Step
<1> HIDE DEF next
<1>3. /\ writer'[s].step = next /\ writer'[s].at = 1
      /\ writer' \in [Sessions -> Place] /\ \A t \in Sessions \ {s} : writer'[t] = writer[t]
      /\ writer'[s].attempt = writer[s].attempt
      /\ Run(s)' = Run(s) /\ InPersist(s)' /\ Persists(s)'
    BY <1>1, <1>2, Moves
<1>4. ChangesItsRun(s)'
    BY <1>1, <1>3, InTransaction DEF ChangesItsRun
<1>5. Replaces(s)'
    <2>1. Scanned(s)' = Findings /\ Scanned(s) = Findings /\ Added(s)' = {} /\ Added(s) = {}
        BY <1>1, <1>2, <1>3 DEF Scanned, Added
    <2> QED
        BY <1>1, <1>2, <1>3, <2>1, InTransaction DEF Replaces
<1>6. KeepsVerdicts(s)'
    BY <1>2, <1>3 DEF KeepsVerdicts
<1> QED
    BY <1>1, <1>3, <1>4, <1>5, <1>6, InTransaction, TransactionStep DEF InOrder, Typed

-------------------------------------------------------------------------------
\* An INSERT of a stored key fails, and the session ends.
LEMMA FailedInsertKeeps ==
    ASSUME WritersAssumption, WritersInv, NEW s \in Sessions, RollBackRows(s), Leave(s),
           UNCHANGED attempts
    PROVE  WritersInv'
<1>1. Ended({s})
    BY DEF Ended, RollBackRows, Leave, Release, WritersInv, Typed
<1> QED
    BY <1>1, EndedKeeps

\* The run's row is its attempt's, inserted or updated.
LEMMA PutRunKeeps ==
    ASSUME WritersAssumption, WritersInv, NEW s \in Sessions,
           writer[s].step \in {"insert", "update"}, Free(s, RunRow(Run(s))),
           Write(s, RunRow(Run(s)), writer[s].attempt), Step(s, "addMetrics"),
           UNCHANGED <<attempts, gate>>
    PROVE  WritersInv'
<1> DEFINE k == RunRow(Run(s))
<1>1. InPersist(s) /\ GoTo(s, "addMetrics", 1)
    BY DEF InPersist, Step
<1>2. k \in Keys /\ Typed /\ writer[s].attempt \in Nat
    BY <1>1, InTransaction
<1>3. /\ rows' \in [Keys -> Row]
      /\ \A j \in Keys : rows'[j].val = rows[j].val
      /\ \A j \in Keys \ {k} : rows'[j] = rows[j]
      /\ rows'[k].by = s /\ rows'[k].new = writer[s].attempt
      /\ \A j \in Keys : \A t \in Sessions \ {s} :
             rows[j].by = t \/ rows'[j].by = t => rows'[j] = rows[j]
    BY <1>2, Writes
<1> HIDE DEF k
<1>4. /\ writer'[s].step = "addMetrics" /\ writer'[s].at = 1
      /\ writer' \in [Sessions -> Place] /\ \A t \in Sessions \ {s} : writer'[t] = writer[t]
      /\ writer'[s].attempt = writer[s].attempt
      /\ Run(s)' = Run(s) /\ InPersist(s)' /\ Persists(s)'
    BY <1>1, Moves
<1>5. ChangesItsRun(s)'
    BY <1>1, <1>2, <1>3, <1>4, ChangesOneRow DEF k
<1>6. Replaces(s)'
    <2>1. Scanned(s)' = Findings /\ Scanned(s) = Findings /\ Added(s)' = {} /\ Added(s) = {}
        BY <1>4 DEF Scanned, Added
    <2>2. /\ \A f \in Findings : rows'[FindingRow(Run(s), f)] = rows[FindingRow(Run(s), f)]
          /\ rows'[MetricsRow(Run(s))] = rows[MetricsRow(Run(s))]
        BY <1>1, <1>3, InTransaction DEF k, RunRow, MetricsRow, FindingRow
    <2> QED
        BY <1>1, <1>3, <1>4, <2>1, <2>2, InTransaction DEF Replaces, Becomes, k
<1>7. KeepsVerdicts(s)'
    BY <1>4 DEF KeepsVerdicts
<1> QED
    BY <1>3, <1>4, <1>5, <1>6, <1>7, TransactionStep DEF InOrder

LEMMA InsertRunKeeps ==
    ASSUME WritersAssumption, WritersInv, NEW s \in Sessions, InsertRun(s)
    PROVE  WritersInv'
BY FailedInsertKeeps, PutRunKeeps DEF InsertRun, Insert

LEMMA UpdateRunKeeps ==
    ASSUME WritersAssumption, WritersInv, NEW s \in Sessions, UpdateRun(s)
    PROVE  WritersInv'
BY PutRunKeeps DEF UpdateRun

\* The metrics row was deleted, by this session or before: if it was absent when it
\* came to delete it, then so was the rest of the run.
LEMMA InsertMetricsKeeps ==
    ASSUME WritersAssumption, WritersInv, NEW s \in Sessions, InsertMetrics(s)
    PROVE  WritersInv'
<1> DEFINE k == MetricsRow(Run(s))
<1>1. InPersist(s) /\ writer[s].step = "addMetrics" /\ UNCHANGED attempts
    BY DEF InsertMetrics, InPersist
<1>2. CASE Sees(s, k) # 0
    BY <1>1, <1>2, FailedInsertKeeps DEF InsertMetrics, Insert
<1>3. CASE Sees(s, k) = 0
    <2>1. Free(s, k) /\ Write(s, k, writer[s].attempt) /\ GoTo(s, "addFindings", 1)
          /\ UNCHANGED gate
        BY <1>3 DEF InsertMetrics, Insert, Step
    <2>2. k \in Keys /\ Typed /\ writer[s].attempt \in Nat
        BY <1>1, InTransaction
    <2>3. /\ rows' \in [Keys -> Row]
          /\ \A j \in Keys : rows'[j].val = rows[j].val
          /\ \A j \in Keys \ {k} : rows'[j] = rows[j]
          /\ rows'[k].by = s /\ rows'[k].new = writer[s].attempt
          /\ \A j \in Keys : \A t \in Sessions \ {s} :
                 rows[j].by = t \/ rows'[j].by = t => rows'[j] = rows[j]
        BY <2>1, <2>2, Writes
    <2>4. rows[k].by = s \/ \A f \in Findings : rows[FindingRow(Run(s), f)].val = 0
        <3>1. CASE rows[k].by # s
            <4>1. rows[k].val = 0 /\ rows[RunRow(Run(s))].val = 0
                BY <1>1, <1>3, <3>1, InTransaction DEF Sees, WritersInv, RowsAreOfOneAttempt
            <4> QED
                BY <1>1, <4>1, InTransaction DEF WritersInv, RowsAreOfOneAttempt
        <3> QED
            BY <3>1
    <2> HIDE DEF k
    <2>5. /\ writer'[s].step = "addFindings" /\ writer'[s].at = 1
          /\ writer' \in [Sessions -> Place] /\ \A t \in Sessions \ {s} : writer'[t] = writer[t]
          /\ writer'[s].attempt = writer[s].attempt
          /\ Run(s)' = Run(s) /\ InPersist(s)' /\ Persists(s)' /\ Payload(s)' = Payload(s)
        BY <1>1, <2>1, Moves
    <2>6. ChangesItsRun(s)'
        BY <1>1, <2>2, <2>3, <2>5, ChangesOneRow DEF k
    <2>7. Replaces(s)'
        <3>1. Scanned(s)' = Findings /\ Scanned(s) = Findings /\ Added(s)' = {} /\ Added(s) = {}
            BY <1>1, <2>5, FindingsAreNumbered DEF Scanned, Added
        <3>2. /\ \A f \in Findings : rows'[FindingRow(Run(s), f)] = rows[FindingRow(Run(s), f)]
              /\ rows'[RunRow(Run(s))] = rows[RunRow(Run(s))]
            BY <1>1, <2>3, InTransaction DEF k, RunRow, MetricsRow, FindingRow
        <3>3. \A f \in Findings : rows'[FindingRow(Run(s), f)].by = s
                                  \/ rows'[FindingRow(Run(s), f)].val = 0
            BY <1>1, <2>4, <3>1, <3>2, InTransaction DEF Replaces, k
        <3>4. /\ Becomes(s, RunRow(Run(s)), writer[s].attempt)'
              /\ Becomes(s, MetricsRow(Run(s)), writer[s].attempt)'
            BY <1>1, <2>3, <2>5, <3>2, InTransaction DEF Replaces, Becomes, k
        <3>5. \A f \in Findings : rows'[FindingRow(Run(s), f)].by = s
                                  => rows'[FindingRow(Run(s), f)].new = 0
            BY <1>1, <3>1, <3>2, InTransaction DEF Replaces
        <3> QED
            BY <2>5, <3>1, <3>3, <3>4, <3>5 DEF Replaces
    <2>8. KeepsVerdicts(s)'
        BY <2>5 DEF KeepsVerdicts
    <2> QED
        BY <1>1, <2>1, <2>3, <2>5, <2>6, <2>7, <2>8, TransactionStep DEF InOrder
<1> QED
    BY <1>2, <1>3

LEMMA LastFindingKeeps ==
    ASSUME WritersAssumption, WritersInv, NEW s \in Sessions, writer[s].step = "addFindings",
           {f \in Payload(s).findings : f >= writer[s].at} = {}, Step(s, "verdicts"),
           UNCHANGED <<rows, gate, attempts>>
    PROVE  WritersInv'
<1>1. InPersist(s) /\ GoTo(s, "verdicts", 1)
    BY DEF InPersist, Step
<1>2. /\ writer'[s].step = "verdicts" /\ writer'[s].at = 1
      /\ writer' \in [Sessions -> Place] /\ \A t \in Sessions \ {s} : writer'[t] = writer[t]
      /\ writer'[s].attempt = writer[s].attempt
      /\ Run(s)' = Run(s) /\ InPersist(s)' /\ Persists(s)' /\ Payload(s)' = Payload(s)
    BY <1>1, Moves
<1>3. ChangesItsRun(s)'
    BY <1>1, <1>2, InTransaction DEF ChangesItsRun
<1>4. Replaces(s)'
    <2>1. writer[s].at \in Nat
        BY <1>1, InTransaction
    <2>2. Scanned(s)' = Findings /\ Scanned(s) = Findings /\ Added(s)' = Added(s)
        BY <1>2, <2>1, FindingsAreNumbered DEF Scanned, Added
    <2> QED
        BY <1>1, <1>2, <2>2, InTransaction DEF Replaces, Becomes
<1>5. KeepsVerdicts(s)'
    BY <1>2 DEF KeepsVerdicts
<1> QED
    BY <1>1, <1>2, <1>3, <1>4, <1>5, InTransaction, TransactionStep DEF InOrder, Typed

\* The findings are inserted in their order, so those passed are those below.
LEMMA NextFindingKeeps ==
    ASSUME WritersAssumption, WritersInv, NEW s \in Sessions, writer[s].step = "addFindings",
           NEW f0 \in Payload(s).findings, f0 >= writer[s].at,
           \A g \in Payload(s).findings : g >= writer[s].at => f0 <= g,
           Free(s, FindingRow(Run(s), f0)),
           Write(s, FindingRow(Run(s), f0), writer[s].attempt),
           GoTo(s, "addFindings", f0 + 1), UNCHANGED <<gate, attempts>>
    PROVE  WritersInv'
<1> DEFINE k == FindingRow(Run(s), f0)
<1>1. InPersist(s)
    BY DEF InPersist
<1>2. f0 \in Findings /\ f0 \in Nat /\ f0 + 1 \in Nat
    BY <1>1, InTransaction, FindingsAreNumbered DEF Attempt
<1>3. k \in Keys /\ Typed /\ writer[s].attempt \in Nat
    BY <1>1, <1>2, InTransaction
<1>4. /\ rows' \in [Keys -> Row]
      /\ \A j \in Keys : rows'[j].val = rows[j].val
      /\ \A j \in Keys \ {k} : rows'[j] = rows[j]
      /\ rows'[k].by = s /\ rows'[k].new = writer[s].attempt
      /\ \A j \in Keys : \A t \in Sessions \ {s} :
             rows[j].by = t \/ rows'[j].by = t => rows'[j] = rows[j]
    BY <1>3, Writes
<1> HIDE DEF k
<1>5. /\ writer'[s].step = "addFindings" /\ writer'[s].at = f0 + 1
      /\ writer' \in [Sessions -> Place] /\ \A t \in Sessions \ {s} : writer'[t] = writer[t]
      /\ writer'[s].attempt = writer[s].attempt
      /\ Run(s)' = Run(s) /\ InPersist(s)' /\ Persists(s)' /\ Payload(s)' = Payload(s)
    BY <1>1, <1>2, Moves
<1>6. ChangesItsRun(s)'
    BY <1>1, <1>2, <1>3, <1>4, <1>5, ChangesOneRow DEF k
<1>7. Replaces(s)'
    <2>1. Scanned(s)' = Findings /\ Scanned(s) = Findings
        BY <1>5 DEF Scanned
    <2>2. Added(s)' = Added(s) \cup {f0}
        BY <1>1, <1>2, <1>5, InTransaction, FindingsAreNumbered DEF Added
    <2>3. \A f \in Findings \ {f0} : rows'[FindingRow(Run(s), f)] = rows[FindingRow(Run(s), f)]
        BY <1>1, <1>4, InTransaction DEF k, FindingRow
    <2>4. /\ rows'[RunRow(Run(s))] = rows[RunRow(Run(s))]
          /\ rows'[MetricsRow(Run(s))] = rows[MetricsRow(Run(s))]
        BY <1>1, <1>4, InTransaction DEF k, RunRow, MetricsRow, FindingRow
    <2>5. \A f \in Findings : rows'[FindingRow(Run(s), f)].by = s
                              \/ rows[MetricsRow(Run(s))].by # s
                              \/ rows'[FindingRow(Run(s), f)].val = 0
        BY <1>1, <1>4, <2>1, <2>3, InTransaction DEF Replaces, k
    <2>6. \A f \in Added(s) \cup {f0} : Becomes(s, FindingRow(Run(s), f), writer[s].attempt)'
        BY <1>1, <1>4, <1>5, <2>3, InTransaction DEF Replaces, Becomes, Added, k
    <2>7. \A f \in Findings \ (Added(s) \cup {f0}) :
              rows'[FindingRow(Run(s), f)].by = s => rows'[FindingRow(Run(s), f)].new = 0
        BY <1>1, <2>3, InTransaction DEF Replaces
    <2>8. /\ Becomes(s, RunRow(Run(s)), writer[s].attempt)'
          /\ Becomes(s, MetricsRow(Run(s)), writer[s].attempt)'
        BY <1>1, <1>5, <2>4, InTransaction DEF Replaces, Becomes
    <2> QED
        BY <1>5, <2>1, <2>2, <2>4, <2>5, <2>6, <2>7, <2>8 DEF Replaces
<1>8. KeepsVerdicts(s)'
    BY <1>5 DEF KeepsVerdicts
<1> QED
    BY <1>4, <1>5, <1>6, <1>7, <1>8, TransactionStep DEF InOrder

LEMMA InsertFindingKeeps ==
    ASSUME WritersAssumption, WritersInv, NEW s \in Sessions, InsertFinding(s)
    PROVE  WritersInv'
<1> DEFINE more == {f \in Payload(s).findings : f >= writer[s].at}
<1>1. writer[s].step = "addFindings" /\ UNCHANGED attempts
    BY DEF InsertFinding
<1>2. CASE more = {} /\ Step(s, "verdicts") /\ UNCHANGED <<rows, gate>>
    BY <1>1, <1>2, LastFindingKeeps
<1>3. ASSUME NEW f \in more, \A g \in more : f <= g,
             Insert(s, FindingRow(Run(s), f), GoTo(s, "addFindings", f + 1))
      PROVE  WritersInv'
    <2>1. CASE RollBackRows(s) /\ Leave(s)
        BY <1>1, <2>1, FailedInsertKeeps
    <2>2. CASE /\ Write(s, FindingRow(Run(s), f), writer[s].attempt)
               /\ GoTo(s, "addFindings", f + 1) /\ UNCHANGED gate
        BY <1>1, <1>3, <2>2, NextFindingKeeps DEF Insert
    <2> QED
        BY <1>3, <2>1, <2>2 DEF Insert
<1> QED
    BY <1>2, <1>3 DEF InsertFinding

-------------------------------------------------------------------------------
\* What is common to the steps that store the verdicts: the run is replaced.
Replaced(s) ==
    /\ Becomes(s, RunRow(Run(s)), writer[s].attempt)
    /\ Becomes(s, MetricsRow(Run(s)), writer[s].attempt)
    /\ \A f \in Findings :
           /\ f \in Payload(s).findings => Becomes(s, FindingRow(Run(s), f), writer[s].attempt)
           /\ f \notin Payload(s).findings =>
                 /\ rows[FindingRow(Run(s), f)].by = s => rows[FindingRow(Run(s), f)].new = 0
                 /\ rows[FindingRow(Run(s), f)].by = s \/ rows[FindingRow(Run(s), f)].val = 0

LEMMA ReplacesReplaced ==
    ASSUME WritersAssumption, WritersInv, NEW s \in Sessions,
           writer[s].step \in {"verdicts", "addVerdict", "commit"}
    PROVE  Replaced(s)
<1>1. InPersist(s)
    BY DEF InPersist
<1>2. Scanned(s) = Findings /\ Added(s) = Payload(s).findings
    BY <1>1, InTransaction DEF Scanned, Added, Attempt
<1> QED
    BY <1>1, <1>2, InTransaction DEF Replaces, Replaced, Becomes

LEMMA ReplacedReplaces ==
    ASSUME NEW s, Replaced(s)', writer'[s].step \in {"verdicts", "addVerdict", "commit"}
    PROVE  Replaces(s)'
<1>1. Scanned(s)' = Findings /\ Added(s)' = {f \in Findings : f \in Payload(s)'.findings}
    BY DEF Scanned, Added
<1> QED
    BY <1>1 DEF Replaces, Replaced, Becomes

\* A step among the verdicts changes no other rows.
LEMMA VerdictStepKeeps ==
    ASSUME WritersAssumption, WritersInv, NEW s \in Sessions,
           writer[s].step \in {"verdicts", "addVerdict"},
           NEW step \in {"verdicts", "addVerdict", "commit"}, NEW at \in Nat, GoTo(s, step, at),
           rows' \in [Keys -> Row], \A k \in Keys : rows'[k].val = rows[k].val,
           \A k \in Keys : \A t \in Sessions \ {s} :
               rows[k].by = t \/ rows'[k].by = t => rows'[k] = rows[k],
           \A r \in Runs : rows'[RunRow(r)] = rows[RunRow(r)]
                          /\ rows'[MetricsRow(r)] = rows[MetricsRow(r)],
           \A r \in Runs, f \in Findings : rows'[FindingRow(r, f)] = rows[FindingRow(r, f)],
           \A v \in Verdicts : rows'[VerdictRow(v)].by = s => rows'[VerdictRow(v)].new # 0,
           KeepsVerdicts(s)', UNCHANGED <<attempts, gate>>
    PROVE  WritersInv'
<1>1. InPersist(s) /\ Replaced(s)
    BY ReplacesReplaced DEF InPersist
<1>2. /\ writer'[s].step = step /\ writer'[s].at = at
      /\ writer' \in [Sessions -> Place] /\ \A t \in Sessions \ {s} : writer'[t] = writer[t]
      /\ writer'[s].attempt = writer[s].attempt
      /\ Run(s)' = Run(s) /\ InPersist(s)' /\ Persists(s)' /\ Payload(s)' = Payload(s)
    BY <1>1, Moves
<1>3. ChangesItsRun(s)'
    BY <1>1, <1>2, InTransaction DEF ChangesItsRun
<1>4. Replaced(s)'
    BY <1>1, <1>2, InTransaction DEF Replaced, Becomes
<1>5. Replaces(s)'
    BY <1>2, <1>4, ReplacedReplaces
<1> QED
    BY <1>2, <1>3, <1>5, TransactionStep DEF InOrder

LEMMA SeekVerdictKeeps ==
    ASSUME WritersAssumption, WritersInv, NEW s \in Sessions, SeekVerdict(s)
    PROVE  WritersInv'
<1> DEFINE at == writer[s].at
           list == Payload(s).verdicts
<1>1. InPersist(s) /\ writer[s].step = "verdicts" /\ UNCHANGED <<rows, attempts, gate>>
    BY DEF SeekVerdict, InPersist
<1>2. Typed /\ at \in Nat /\ at >= 1 /\ Len(list) \in Nat /\ list \in Seq(Verdicts)
    BY <1>1, InTransaction DEF KeepsVerdicts, Attempt
<1>3. \A i \in 1 .. Len(list) : i < at => Keeps(s, list[i])
    BY <1>1, InTransaction DEF KeepsVerdicts
<1>4. \A v \in Verdicts : rows[VerdictRow(v)].by = s => rows[VerdictRow(v)].new # 0
    BY <1>1, InTransaction DEF ChangesItsRun
<1>5. ASSUME NEW step \in {"verdicts", "addVerdict", "commit"}, NEW j \in Nat, GoTo(s, step, j)
      PROVE  /\ writer'[s].step = step /\ writer'[s].at = j
             /\ Payload(s)' = Payload(s) /\ \A v \in Verdicts : Keeps(s, v) <=> Keeps(s, v)'
    BY <1>1, <1>5, Moves DEF Keeps
<1>6. rows' \in [Keys -> Row]
    BY <1>1, <1>2 DEF Typed
<1>7. ASSUME NEW step \in {"verdicts", "addVerdict", "commit"}, NEW j \in Nat, GoTo(s, step, j),
             KeepsVerdicts(s)'
      PROVE  WritersInv'
    BY <1>1, <1>4, <1>6, <1>7, VerdictStepKeeps
<1> HIDE DEF at, list
<1>8. CASE at > Len(list)
    <2>1. GoTo(s, "commit", 1)
        BY <1>1, <1>8 DEF SeekVerdict, Step, at, list
    <2>2. writer'[s].step = "commit" /\ Payload(s)'.verdicts = list
          /\ \A v \in Verdicts : Keeps(s, v) <=> Keeps(s, v)'
        BY <1>5, <2>1 DEF list
    <2>3. \A i \in 1 .. Len(list) : list[i] \in Verdicts /\ i < at
        BY <1>2, <1>8
    <2>4. KeepsVerdicts(s)'
        BY <1>3, <2>2, <2>3 DEF KeepsVerdicts
    <2> QED
        BY <1>7, <2>1, <2>4
<1>9. CASE ~(at > Len(list))
    <2> DEFINE k == VerdictRow(list[at])
    <2>1. at \in 1 .. Len(list) /\ list[at] \in Verdicts /\ at + 1 \in Nat
        BY <1>2, <1>9
    <2>2. Free(s, k)
        BY <1>9 DEF SeekVerdict, WaitsForVerdict, at, list
    <2>3. CASE Sees(s, k) # 0
        <3>1. GoTo(s, "verdicts", at + 1)
            BY <1>9, <2>3 DEF SeekVerdict, at, list
        <3>2. writer'[s].step = "verdicts" /\ writer'[s].at = at + 1 /\ Payload(s)'.verdicts = list
              /\ \A v \in Verdicts : Keeps(s, v) <=> Keeps(s, v)'
            BY <1>5, <2>1, <3>1 DEF list
        <3>3. Keeps(s, list[at])
            BY <2>3 DEF Sees, Keeps
        <3>4. \A i \in 1 .. Len(list) : list[i] \in Verdicts /\ (i < at + 1 => i < at \/ i = at)
            BY <1>2
        <3>5. KeepsVerdicts(s)'
            BY <1>2, <1>3, <3>2, <3>3, <3>4 DEF KeepsVerdicts
        <3> QED
            BY <1>7, <2>1, <3>1, <3>5
    <2>4. CASE Sees(s, k) = 0
        <3>1. GoTo(s, "addVerdict", at)
            BY <1>9, <2>2, <2>4 DEF SeekVerdict, at, list
        <3>2. writer'[s].step = "addVerdict" /\ writer'[s].at = at /\ Payload(s)'.verdicts = list
              /\ \A v \in Verdicts : Keeps(s, v) <=> Keeps(s, v)'
            BY <1>2, <1>5, <3>1 DEF list
        <3>3. \A i \in 1 .. Len(list) : list[i] \in Verdicts
            BY <1>2
        <3>4. KeepsVerdicts(s)'
            BY <1>2, <1>3, <2>1, <3>2, <3>3 DEF KeepsVerdicts
        <3> QED
            BY <1>2, <1>7, <3>1, <3>4
    <2> QED
        BY <2>3, <2>4
<1> QED
    BY <1>8, <1>9

LEMMA InsertVerdictKeeps ==
    ASSUME WritersAssumption, WritersInv, NEW s \in Sessions, InsertVerdict(s)
    PROVE  WritersInv'
<1> DEFINE at == writer[s].at
           list == Payload(s).verdicts
           k == VerdictRow(list[at])
<1>1. InPersist(s) /\ writer[s].step = "addVerdict" /\ UNCHANGED attempts
    BY DEF InsertVerdict, InPersist
<1>2. CASE RollBackRows(s) /\ Leave(s)
    BY <1>1, <1>2, FailedInsertKeeps
<1>3. CASE /\ Free(s, k) /\ Write(s, k, writer[s].attempt)
           /\ GoTo(s, "verdicts", at + 1) /\ UNCHANGED gate
    <2>1. /\ Typed /\ at \in 1 .. Len(list) /\ list \in Seq(Verdicts) /\ list[at] \in Verdicts
          /\ k \in Keys /\ writer[s].attempt \in Nat \ {0} /\ at + 1 \in Nat
        BY <1>1, InTransaction, KeysAre DEF KeepsVerdicts, Attempt
    <2>2. \A i \in 1 .. Len(list) : i < at => Keeps(s, list[i])
        BY <1>1, InTransaction DEF KeepsVerdicts
    <2>3. /\ rows' \in [Keys -> Row]
          /\ \A j \in Keys : rows'[j].val = rows[j].val
          /\ \A j \in Keys \ {k} : rows'[j] = rows[j]
          /\ rows'[k].by = s /\ rows'[k].new = writer[s].attempt
          /\ \A j \in Keys : \A t \in Sessions \ {s} :
                 rows[j].by = t \/ rows'[j].by = t => rows'[j] = rows[j]
        BY <1>3, <2>1, Writes
    <2>4. writer'[s].step = "verdicts" /\ writer'[s].at = at + 1 /\ Payload(s)' = Payload(s)
        BY <1>1, <1>3, <2>1, Moves
    <2>5. \A v \in Verdicts : Keeps(s, v) => Keeps(s, v)'
        BY <2>3, KeysAre DEF Keeps
    <2>6. \A v \in Verdicts : v = list[at] => Keeps(s, v)'
        BY <2>3 DEF Keeps
    <2>7. \A v \in Verdicts : rows'[VerdictRow(v)].by = s => rows'[VerdictRow(v)].new # 0
        BY <1>1, <2>1, <2>3, KeysAre, InTransaction DEF ChangesItsRun
    <2>8. \A r \in Runs : RunRow(r) # k /\ MetricsRow(r) # k /\ \A f \in Findings : FindingRow(r, f) # k
        BY DEF RunRow, MetricsRow, FindingRow, VerdictRow
    <2>9. /\ \A r \in Runs : rows'[RunRow(r)] = rows[RunRow(r)]
                            /\ rows'[MetricsRow(r)] = rows[MetricsRow(r)]
          /\ \A r \in Runs, f \in Findings : rows'[FindingRow(r, f)] = rows[FindingRow(r, f)]
        BY <2>3, <2>8, KeysAre
    <2> HIDE DEF k
    <2>10. KeepsVerdicts(s)'
        <3>1. \A i \in 1 .. Len(list) : list[i] \in Verdicts /\ (i < at + 1 => i < at \/ i = at)
            BY <2>1
        <3>2. \A i \in 1 .. Len(list) : i < at + 1 =>
                  \E v \in Verdicts : v = list[i] /\ Keeps(s, v)'
            BY <2>2, <2>5, <2>6, <3>1
        <3> QED
            BY <2>1, <2>4, <3>2 DEF KeepsVerdicts
    <2> HIDE DEF at, list
    <2> QED
        BY <1>1, <1>3, <2>1, <2>3, <2>7, <2>9, <2>10, VerdictStepKeeps
<1> QED
    BY <1>2, <1>3 DEF InsertVerdict, Insert

-------------------------------------------------------------------------------
\* What a session has changed becomes what is stored: its whole run.
LEMMA CommitStores ==
    ASSUME WritersAssumption, WritersInv, NEW s \in Sessions, Commit(s)
    PROVE  /\ InPersist(s) /\ writer[s].step = "commit" /\ UNCHANGED <<attempts, gate>>
           /\ Typed /\ writer[s].attempt \in 1 .. Len(attempts) /\ Run(s) \in Runs
           /\ Payload(s) \in Attempt
           /\ writer' \in [Sessions -> Place] /\ \A t \in Sessions \ {s} : writer'[t] = writer[t]
           /\ writer'[s].step = "readRun" /\ Run(s)' = Run(s)
           /\ writer'[s].attempt = writer[s].attempt
           /\ \A k \in Keys : rows'[k] = IF rows[k].by = s THEN Stored(rows[k].new) ELSE rows[k]
           /\ rows' \in [Keys -> Row]
           /\ \A k \in Keys : rows'[k].by # s /\
                  rows'[k].val = IF rows[k].by = s THEN rows[k].new ELSE rows[k].val
           /\ \A r \in Runs : r # Run(s) =>
                  /\ rows'[RunRow(r)].val = rows[RunRow(r)].val
                  /\ rows'[MetricsRow(r)].val = rows[MetricsRow(r)].val
                  /\ \A f \in Findings : rows'[FindingRow(r, f)].val = rows[FindingRow(r, f)].val
           /\ rows'[RunRow(Run(s))].val = writer[s].attempt
           /\ rows'[MetricsRow(Run(s))].val = writer[s].attempt
           /\ \A f \in Findings : rows'[FindingRow(Run(s), f)].val =
                                      IF f \in Payload(s).findings THEN writer[s].attempt ELSE 0
<1>1. InPersist(s) /\ writer[s].step = "commit" /\ UNCHANGED <<attempts, gate>>
    BY DEF Commit, InPersist, GateAfterCommit
<1>2. /\ Typed /\ writer[s].attempt \in 1 .. Len(attempts) /\ Run(s) \in Runs
      /\ Payload(s) \in Attempt
    BY <1>1, InTransaction
<1>3. /\ writer' \in [Sessions -> Place] /\ \A t \in Sessions \ {s} : writer'[t] = writer[t]
      /\ writer'[s].step = "readRun" /\ Run(s)' = Run(s)
      /\ writer'[s].attempt = writer[s].attempt
    BY <1>2, GoesTo DEF Commit, Step, Steps, Run
<1>4. \A k \in Keys : rows'[k] = IF rows[k].by = s THEN Stored(rows[k].new) ELSE rows[k]
    BY DEF Commit, CommitRows
<1>5. rows' \in [Keys -> Row]
    BY <1>2 DEF Commit, CommitRows, Typed, Row, Stored
<1>6. \A k \in Keys : rows'[k].by # s
                     /\ rows'[k].val = IF rows[k].by = s THEN rows[k].new ELSE rows[k].val
    <2> SUFFICES ASSUME NEW k \in Keys
                 PROVE  rows'[k].by # s
                        /\ rows'[k].val = IF rows[k].by = s THEN rows[k].new ELSE rows[k].val
        OBVIOUS
    <2>1. CASE rows[k].by = s
        <3>1. rows'[k] = Stored(rows[k].new)
            BY <1>4, <2>1
        <3>2. Stored(rows[k].new).by = NoOne /\ Stored(rows[k].new).val = rows[k].new
            BY DEF Stored
        <3> QED
            BY <2>1, <3>1, <3>2 DEF WritersAssumption
    <2>2. CASE rows[k].by # s
        BY <1>4, <2>2
    <2> QED
        BY <2>1, <2>2
<1>7. \A r \in Runs : r # Run(s) =>
           /\ rows'[RunRow(r)].val = rows[RunRow(r)].val
           /\ rows'[MetricsRow(r)].val = rows[MetricsRow(r)].val
           /\ \A f \in Findings : rows'[FindingRow(r, f)].val = rows[FindingRow(r, f)].val
    BY <1>1, <1>6, InTransaction, KeysAre DEF ChangesItsRun
<1>8. /\ rows'[RunRow(Run(s))].val = writer[s].attempt
       /\ rows'[MetricsRow(Run(s))].val = writer[s].attempt
       /\ \A f \in Findings : rows'[FindingRow(Run(s), f)].val =
                                  IF f \in Payload(s).findings THEN writer[s].attempt ELSE 0
    <2>1. Replaced(s)
        BY <1>1, ReplacesReplaced
    <2>2. RunRow(Run(s)) \in Keys /\ MetricsRow(Run(s)) \in Keys
          /\ \A f \in Findings : FindingRow(Run(s), f) \in Keys
        BY <1>2, KeysAre
    <2>3. \A f \in Findings : rows'[FindingRow(Run(s), f)].val =
                                  IF f \in Payload(s).findings THEN writer[s].attempt ELSE 0
        <3> SUFFICES ASSUME NEW f \in Findings
                     PROVE  rows'[FindingRow(Run(s), f)].val =
                                IF f \in Payload(s).findings THEN writer[s].attempt ELSE 0
            OBVIOUS
        <3>1. CASE f \in Payload(s).findings
            BY <1>6, <2>1, <2>2, <3>1 DEF Replaced, Becomes
        <3>2. CASE f \notin Payload(s).findings
            BY <1>6, <2>1, <2>2, <3>2 DEF Replaced
        <3> QED
            BY <3>1, <3>2
    <2> QED
        BY <1>6, <2>1, <2>2, <2>3 DEF Replaced, Becomes
<1> QED
    BY <1>1, <1>2, <1>3, <1>4, <1>5, <1>6, <1>7, <1>8

LEMMA CommitKeeps ==
    ASSUME WritersAssumption, WritersInv, NEW s \in Sessions, Commit(s)
    PROVE  WritersInv'
<1>1. InPersist(s) /\ writer[s].step = "commit" /\ UNCHANGED <<attempts, gate>>
    BY CommitStores
<1>2. /\ Typed /\ writer[s].attempt \in 1 .. Len(attempts) /\ Run(s) \in Runs
      /\ Payload(s) \in Attempt
    BY CommitStores
<1>3. /\ writer' \in [Sessions -> Place] /\ \A t \in Sessions \ {s} : writer'[t] = writer[t]
      /\ writer'[s].step = "readRun" /\ Run(s)' = Run(s)
    BY CommitStores
<1>4. \A k \in Keys : rows'[k] = IF rows[k].by = s THEN Stored(rows[k].new) ELSE rows[k]
    BY CommitStores
<1>5. rows' \in [Keys -> Row]
    BY CommitStores
<1>6. \A k \in Keys : rows'[k].by # s
                     /\ rows'[k].val = IF rows[k].by = s THEN rows[k].new ELSE rows[k].val
    BY CommitStores
<1>7. \A r \in Runs : r # Run(s) =>
           /\ rows'[RunRow(r)].val = rows[RunRow(r)].val
           /\ rows'[MetricsRow(r)].val = rows[MetricsRow(r)].val
           /\ \A f \in Findings : rows'[FindingRow(r, f)].val = rows[FindingRow(r, f)].val
    BY CommitStores
<1>8. /\ rows'[RunRow(Run(s))].val = writer[s].attempt
      /\ rows'[MetricsRow(Run(s))].val = writer[s].attempt
      /\ \A f \in Findings : rows'[FindingRow(Run(s), f)].val =
                                 IF f \in Payload(s).findings THEN writer[s].attempt ELSE 0
    BY CommitStores
<1>9. Typed'
    BY <1>1, <1>2, <1>3, <1>5 DEF Typed
<1>10. \A v \in Verdicts : Keeps(s, v) => rows'[VerdictRow(v)].val # 0
    BY <1>1, <1>6, InTransaction, KeysAre DEF ChangesItsRun, Keeps
<1>11. Beside({s})
    <2>1. \A k \in Keys : \A t \in Sessions \ {s} :
              rows[k].by = t \/ rows'[k].by = t => rows'[k] = rows[k]
        <3> SUFFICES ASSUME NEW k \in Keys, NEW t \in Sessions \ {s},
                            rows[k].by = t \/ rows'[k].by = t
                     PROVE  rows'[k] = rows[k]
            OBVIOUS
        <3>1. CASE rows[k].by = s
            <4>1. rows'[k] = Stored(rows[k].new)
                BY <1>4, <3>1
            <4>2. Stored(rows[k].new).by = NoOne
                BY DEF Stored
            <4> QED
                BY <3>1, <4>1, <4>2 DEF WritersAssumption
        <3>2. CASE rows[k].by # s
            BY <1>4, <3>2
        <3> QED
            BY <3>1, <3>2
    <2>2. \A k \in Keys : rows'[k].val = rows[k].val
                         \/ (rows[k].by \in {s} /\ writer[rows[k].by].step = "commit")
        BY <1>1, <1>6
    <2>3. Len(attempts) <= Len(attempts')
          /\ \A n \in 1 .. Len(attempts) : attempts'[n] = attempts[n]
        BY <1>1, <1>2 DEF Typed
    <2> QED
        BY <1>3, <1>9, <1>10, <2>1, <2>2, <2>3 DEF Beside, Keeps
<1>12. \A t \in Sessions \ {s} : InOrder(t)'
    BY <1>11, OthersInOrder
<1>13. InOrder(s)'
    <2>1. ~InPersist(s)'
        BY <1>3 DEF InPersist
    <2>2. ChangesItsRun(s)'
        BY <1>6, KeysAre DEF ChangesItsRun
    <2> QED
        BY <1>2, <1>3, <2>1, <2>2 DEF InOrder, Persists, Replaces, KeepsVerdicts
<1>14. StoredAttempts'
    <2> SUFFICES ASSUME NEW r \in Runs PROVE rows'[RunRow(r)].val \in 0 .. Len(attempts)
        BY <1>1 DEF StoredAttempts
    <2>1. CASE r = Run(s)
        BY <1>2, <1>8, <2>1
    <2>2. CASE r # Run(s)
        BY <1>7, <2>2 DEF WritersInv, StoredAttempts
    <2> QED
        BY <2>1, <2>2
<1>15. RowsAreOfOneAttempt'
    <2> DEFINE n(r) == rows'[RunRow(r)].val
    <2> SUFFICES ASSUME NEW r \in Runs
                 PROVE  /\ rows'[MetricsRow(r)].val = n(r)
                        /\ \A f \in Findings : rows'[FindingRow(r, f)].val =
                               IF n(r) # 0 /\ f \in attempts[n(r)].findings THEN n(r) ELSE 0
        BY <1>1 DEF RowsAreOfOneAttempt
    <2>1. CASE r = Run(s)
        BY <1>2, <1>8, <2>1 DEF Payload
    <2>2. CASE r # Run(s)
        BY <1>7, <2>2 DEF WritersInv, RowsAreOfOneAttempt
    <2> QED
        BY <2>1, <2>2
<1>16. VerdictsAreStored'
    <2> SUFFICES ASSUME NEW r \in Runs, rows'[RunRow(r)].val # 0,
                        NEW i \in DOMAIN attempts[rows'[RunRow(r)].val].verdicts
                 PROVE  rows'[VerdictRow(attempts[rows'[RunRow(r)].val].verdicts[i])].val # 0
        BY <1>1 DEF VerdictsAreStored, StoredRuns
    <2>1. CASE r = Run(s)
        <3>1. attempts[rows'[RunRow(r)].val] = Payload(s)
            BY <1>8, <2>1 DEF Payload
        <3>2. i \in 1 .. Len(Payload(s).verdicts) /\ Payload(s).verdicts[i] \in Verdicts
            BY <1>2, <3>1 DEF Attempt
        <3>3. Keeps(s, Payload(s).verdicts[i])
            BY <1>1, <3>2, InTransaction DEF KeepsVerdicts
        <3> QED
            BY <1>10, <3>1, <3>2, <3>3
    <2>2. CASE r # Run(s)
        <3>1. rows'[RunRow(r)].val = rows[RunRow(r)].val
            BY <1>7, <2>2
        <3>2. attempts[rows[RunRow(r)].val] \in Attempt
            BY <3>1 DEF WritersInv, Typed, StoredAttempts
        <3>3. attempts[rows[RunRow(r)].val].verdicts[i] \in Verdicts
            BY <3>1, <3>2 DEF Attempt
        <3>4. rows[VerdictRow(attempts[rows[RunRow(r)].val].verdicts[i])].val # 0
            BY <3>1 DEF WritersInv, VerdictsAreStored, StoredRuns
        <3> QED
            BY <1>10, <3>1, <3>3, <3>4 DEF Keeps
    <2> QED
        BY <2>1, <2>2
<1> QED
    BY <1>9, <1>12, <1>13, <1>14, <1>15, <1>16 DEF WritersInv

-------------------------------------------------------------------------------
\* Steps outside a transaction change no table.
LEMMA OutsideStepKeeps ==
    ASSUME WritersAssumption, WritersInv, NEW s \in Sessions, ~InPersist(s),
           writer' \in [Sessions -> Place], \A t \in Sessions \ {s} : writer'[t] = writer[t],
           writer'[s].step \in {"idle", "execute", "readRun", "readMetrics", "readFindings", "answer"},
           writer'[s].step \in {"readRun", "readMetrics", "readFindings"} => Run(s)' \in Runs,
           gate' \in Gated \cup {NoOne}, UNCHANGED <<rows, attempts>>
    PROVE  WritersInv'
<1>1. Typed' /\ Beside({s})
    BY BesideOne DEF WritersInv, Typed
<1>2. ~InPersist(s)'
    BY DEF InPersist
<1>3. ChangesItsRun(s)'
    BY <1>2 DEF WritersInv, InOrder, ChangesItsRun
<1>4. InOrder(s)'
    BY <1>2, <1>3 DEF InOrder, Persists, Replaces, KeepsVerdicts
<1> QED
    BY <1>1, <1>4, QuietStep

LEMMA StartRunKeeps ==
    ASSUME WritersAssumption, WritersInv, NEW s \in Sessions, StartRun(s)
    PROVE  WritersInv'
<1>1. ~InPersist(s) /\ Typed /\ GoTo(s, "execute", 1)
    BY DEF StartRun, InPersist, WritersInv, Step
<1>2. /\ writer' \in [Sessions -> Place] /\ \A t \in Sessions \ {s} : writer'[t] = writer[t]
      /\ writer'[s].step = "execute"
    BY <1>1, GoesTo DEF Steps
<1>3. gate' \in Gated \cup {NoOne} /\ UNCHANGED <<rows, attempts>>
    BY <1>1 DEF StartRun, Typed
<1> QED
    BY <1>1, <1>2, <1>3, OutsideStepKeeps

LEMMA GetRunKeeps ==
    ASSUME WritersAssumption, WritersInv, NEW s \in Sessions, GetRun(s)
    PROVE  WritersInv'
<1>1. ~InPersist(s) /\ Typed /\ UNCHANGED <<rows, attempts, gate>>
    BY DEF GetRun, InPersist, WritersInv
<1>2. PICK r \in Runs : writer' = [writer EXCEPT ![s] =
          [step |-> "readRun", attempt |-> 0, run |-> r, at |-> 1, report |-> NoReport]]
    BY DEF GetRun, StoredRuns
<1>3. [step |-> "readRun", attempt |-> 0, run |-> r, at |-> 1, report |-> NoReport] \in Place
    BY RestingTyped DEF Place, Steps
<1>4. /\ writer' \in [Sessions -> Place] /\ \A t \in Sessions \ {s} : writer'[t] = writer[t]
      /\ writer'[s].step = "readRun" /\ Run(s)' = r
    BY <1>1, <1>2, <1>3 DEF Typed, Run
<1> QED
    BY <1>1, <1>4, OutsideStepKeeps DEF Typed

LEMMA ReadsKeeps ==
    ASSUME WritersAssumption, WritersInv, NEW s \in Sessions, ~InPersist(s), Run(s) \in Runs,
           NEW step \in {"readMetrics", "readFindings", "answer"}, NEW report \in ReportType,
           Reads(s, step, report), UNCHANGED <<rows, attempts, gate>>
    PROVE  WritersInv'
<1>1. Typed
    BY DEF WritersInv
<1>2. [step |-> step, attempt |-> writer[s].attempt, run |-> Run(s), at |-> 1, report |-> report]
          \in Place
    BY <1>1 DEF Typed, Place, Steps
<1>3. /\ writer' \in [Sessions -> Place] /\ \A t \in Sessions \ {s} : writer'[t] = writer[t]
      /\ writer'[s].step = step /\ Run(s)' = Run(s)
    BY <1>1, <1>2 DEF Typed, Reads, Run
<1> QED
    BY <1>1, <1>3, OutsideStepKeeps DEF Typed

LEMMA ReadingKeeps ==
    ASSUME WritersAssumption, WritersInv, NEW s \in Sessions,
           ReadRun(s) \/ ReadMetrics(s) \/ ReadFindings(s)
    PROVE  WritersInv'
<1>1. /\ writer[s].step \in {"readRun", "readMetrics", "readFindings"} /\ ~InPersist(s)
      /\ UNCHANGED <<rows, attempts, gate>> /\ Typed
    BY DEF ReadRun, ReadMetrics, ReadFindings, InPersist, WritersInv
<1>2. Run(s) \in Runs
    BY <1>1 DEF WritersInv, InOrder, Persists
<1>3. /\ rows[RunRow(Run(s))].val \in Nat /\ rows[MetricsRow(Run(s))].val \in Nat
      /\ \A f \in Findings : rows[FindingRow(Run(s), f)].val \in Nat
    BY <1>1, <1>2, KeysAre DEF Typed, Row
<1>4. /\ writer[s].report.run \in Nat /\ writer[s].report.metrics \in Nat
      /\ NoReport.findings \in [Findings -> Nat]
    BY <1>1 DEF Typed, Place, ReportType, NoReport
<1>5. CASE ReadRun(s)
    <2>1. Report(rows[RunRow(Run(s))].val, 0, NoReport.findings) \in ReportType
        BY <1>3, <1>4 DEF Report, ReportType
    <2> QED
        BY <1>1, <1>2, <1>5, <2>1, ReadsKeeps DEF ReadRun
<1>6. CASE ReadMetrics(s)
    <2>1. Report(writer[s].report.run, rows[MetricsRow(Run(s))].val, NoReport.findings) \in ReportType
        BY <1>3, <1>4 DEF Report, ReportType
    <2> QED
        BY <1>1, <1>2, <1>6, <2>1, ReadsKeeps DEF ReadMetrics
<1>7. CASE ReadFindings(s)
    <2>1. Report(writer[s].report.run, writer[s].report.metrics,
                 [f \in Findings |-> rows[FindingRow(Run(s), f)].val]) \in ReportType
        BY <1>3, <1>4 DEF Report, ReportType
    <2> QED
        BY <1>1, <1>2, <1>7, <2>1, ReadsKeeps DEF ReadFindings
<1> QED
    BY <1>5, <1>6, <1>7

\* A session that ends outside a transaction has nothing to roll back.
LEMMA LeaveKeeps ==
    ASSUME WritersAssumption, WritersInv, NEW s \in Sessions, ~InPersist(s), Leave(s),
           UNCHANGED <<rows, attempts>>
    PROVE  WritersInv'
<1>1. Resting \in Place /\ Resting.step = "idle"
    BY RestingTyped DEF Resting
<1>2. /\ writer' \in [Sessions -> Place] /\ \A t \in Sessions \ {s} : writer'[t] = writer[t]
      /\ writer'[s].step = "idle" /\ gate' \in Gated \cup {NoOne}
    BY <1>1 DEF WritersInv, Typed, Leave, Release
<1> QED
    BY <1>2, OutsideStepKeeps

LEMMA ExecuteKeeps ==
    ASSUME WritersAssumption, WritersInv, NEW s \in Sessions, Execute(s)
    PROVE  WritersInv'
<1>1. Typed /\ ~InPersist(s) /\ UNCHANGED <<rows, gate>>
    BY DEF WritersInv, Execute, InPersist
<1>2. PICK p \in Payloads :
          /\ attempts' = Append(attempts, [run |-> p.run, findings |-> p.findings,
                                           verdicts |-> p.verdicts, by |-> Kind(s)])
          /\ writer' = [writer EXCEPT ![s] =
                 [step |-> "metrics", attempt |-> Len(attempts) + 1, run |-> p.run, at |-> 1,
                  report |-> NoReport]]
    BY DEF Execute
<1> DEFINE a == [run |-> p.run, findings |-> p.findings, verdicts |-> p.verdicts, by |-> Kind(s)]
           place == [step |-> "metrics", attempt |-> Len(attempts) + 1, run |-> p.run, at |-> 1,
                     report |-> NoReport]
<1>3. p.run \in Runs /\ a \in Attempt
    BY DEF WritersAssumption, Attempt, Kind
<1>4. Len(attempts) \in Nat /\ place \in Place
    BY <1>1, <1>3, RestingTyped DEF Typed, Place, Steps
<1>5. /\ attempts' \in Seq(Attempt) /\ Len(attempts') = Len(attempts) + 1
      /\ attempts'[Len(attempts) + 1] = a
      /\ \A n \in 1 .. Len(attempts) : attempts'[n] = attempts[n]
    BY <1>1, <1>2, <1>3 DEF Typed
<1>6. /\ writer' \in [Sessions -> Place] /\ \A t \in Sessions \ {s} : writer'[t] = writer[t]
      /\ writer'[s] = place
    BY <1>1, <1>2, <1>4 DEF Typed
<1>7. Typed' /\ Beside({s}) /\ \A k \in Keys : rows'[k].val = rows[k].val
    BY <1>1, <1>4, <1>5, <1>6 DEF Typed, Beside
<1>8. /\ writer'[s].step = "metrics" /\ writer'[s].attempt = Len(attempts) + 1
      /\ writer'[s].run = p.run
    BY <1>6
<1>9. Persists(s)'
    BY <1>3, <1>4, <1>5, <1>8 DEF Persists, Run
<1>10. \A r \in Runs : /\ rows'[RunRow(r)].by # s /\ rows'[MetricsRow(r)].by # s
                      /\ \A f \in Findings : rows'[FindingRow(r, f)].by # s
    BY <1>1 DEF WritersInv, InOrder, ChangesItsRun
<1>11. \A v \in Verdicts : rows'[VerdictRow(v)].by # s
    BY <1>1 DEF WritersInv, InOrder, ChangesItsRun
<1>12. ChangesItsRun(s)'
    BY <1>10, <1>11 DEF ChangesItsRun
<1>13. Replaces(s)'
    <2>1. Run(s)' \in Runs /\ Added(s)' = {}
        BY <1>3, <1>8 DEF Run, Added
    <2> QED
        BY <1>8, <1>10, <2>1 DEF Replaces
<1>14. KeepsVerdicts(s)'
    BY <1>8 DEF KeepsVerdicts
<1> QED
    BY <1>7, <1>9, <1>12, <1>13, <1>14, QuietStep DEF InOrder

-------------------------------------------------------------------------------
LEMMA RollBackKeeps ==
    ASSUME WritersAssumption, WritersInv, NEW s \in Sessions, RollBack(s)
    PROVE  WritersInv'
BY FailedInsertKeeps DEF RollBack

LEMMA WriterStepKeeps ==
    ASSUME WritersAssumption, WritersInv, NEW s \in Sessions,
           StartRun(s) \/ GetRun(s) \/ WriterStep(s)
    PROVE  WritersInv'
<1>1. CASE StartRun(s) \/ GetRun(s) \/ Execute(s)
    BY <1>1, StartRunKeeps, GetRunKeeps, ExecuteKeeps
<1>2. CASE ExecuteFails(s) \/ Answer(s)
    BY <1>2, LeaveKeeps DEF ExecuteFails, Answer, InPersist
<1>3. CASE Commit(s) \/ RollBack(s)
    BY <1>3, CommitKeeps, RollBackKeeps
<1>4. CASE DeleteMetrics(s) \/ DeleteFinding(s) \/ SeekRun(s) \/ InsertRun(s) \/ UpdateRun(s)
    BY <1>4, DeleteMetricsKeeps, DeleteFindingKeeps, SeekRunKeeps, InsertRunKeeps, UpdateRunKeeps
<1>5. CASE InsertMetrics(s) \/ InsertFinding(s) \/ SeekVerdict(s) \/ InsertVerdict(s)
    BY <1>5, InsertMetricsKeeps, InsertFindingKeeps, SeekVerdictKeeps, InsertVerdictKeeps
<1>6. CASE ReadRun(s) \/ ReadMetrics(s) \/ ReadFindings(s)
    BY <1>6, ReadingKeeps
<1> QED
    BY <1>1, <1>2, <1>3, <1>4, <1>5, <1>6 DEF WriterStep, Statement

LEMMA StutterKeeps == WritersAssumption /\ WritersInv /\ UNCHANGED writerVars => WritersInv'
<1> SUFFICES ASSUME WritersAssumption, WritersInv, UNCHANGED writerVars PROVE WritersInv'
    OBVIOUS
<1>1. UNCHANGED rows /\ UNCHANGED attempts /\ UNCHANGED writer /\ UNCHANGED gate
    BY DEF writerVars
<1>2. Typed'
    BY <1>1 DEF WritersInv, Typed
<1>3. Len(attempts) <= Len(attempts)
    BY DEF WritersInv, Typed
<1>4. Beside({})
    BY <1>1, <1>2, <1>3 DEF Beside
<1> QED
    BY <1>1, <1>4, QuietStep

LEMMA InitInOrder == WritersAssumption /\ WritersInit => WritersInv
<1> SUFFICES ASSUME WritersAssumption, WritersInit PROVE WritersInv
    OBVIOUS
<1>1. /\ \A k \in Keys : rows[k].val = 0 /\ rows[k].by = NoOne
      /\ \A s \in Sessions : writer[s].step = "idle"
    BY DEF WritersInit, Stored, Resting
<1>2. Typed
    BY RestingTyped DEF WritersInit, Typed, Row, Stored
<1>3. \A s \in Sessions : InOrder(s)
    <2> SUFFICES ASSUME NEW s \in Sessions PROVE InOrder(s)
        OBVIOUS
    <2>1. ~InPersist(s)
        BY <1>1 DEF InPersist
    <2>2. \A k \in Keys : rows[k].by # s
        BY <1>1 DEF WritersAssumption
    <2>3. ChangesItsRun(s)
        BY <2>2, KeysAre DEF ChangesItsRun
    <2> QED
        BY <1>1, <2>1, <2>3 DEF InOrder, Persists, Replaces, KeepsVerdicts
<1>4. StoredAttempts /\ RowsAreOfOneAttempt /\ VerdictsAreStored
    <2>1. \A r \in Runs : rows[RunRow(r)].val = 0
        BY <1>1, KeysAre
    <2>2. StoredAttempts
        BY <1>2, <2>1 DEF StoredAttempts, Typed
    <2>3. RowsAreOfOneAttempt
        BY <1>1, KeysAre DEF RowsAreOfOneAttempt
    <2>4. VerdictsAreStored
        BY <2>1 DEF VerdictsAreStored, StoredRuns
    <2> QED
        BY <2>2, <2>3, <2>4
<1> QED
    BY <1>2, <1>3, <1>4 DEF WritersInv

-------------------------------------------------------------------------------
\* Rows and sessions name attempts that were made, and these are no more than the bound.
Bounded ==
    /\ Len(attempts) <= MaxAttempts
    /\ \A k \in Keys : rows[k].val <= Len(attempts) /\ rows[k].new <= Len(attempts)
    /\ \A s \in Sessions : writer[s].attempt <= Len(attempts)

\* What a step may leave of a row: what it was, what was stored or was to be, or the session's
\* attempt.
LEMMA BoundedStep ==
    ASSUME Typed, Bounded, NEW s \in Sessions,
           Len(attempts') \in Nat, Len(attempts) <= Len(attempts'), Len(attempts') <= MaxAttempts,
           \A k \in Keys :
               \/ rows'[k] \in {rows[k], Stored(rows[k].val), Stored(rows[k].new)}
               \/ rows'[k].val = rows[k].val /\ rows'[k].new \in {0, writer[s].attempt},
           \A t \in Sessions \ {s} : writer'[t] = writer[t],
           writer'[s].attempt \in {0, writer[s].attempt, Len(attempts')}
    PROVE  Bounded'
<1>1. Len(attempts) \in Nat /\ \A t \in Sessions : writer[t].attempt \in Nat
    BY DEF Typed, Place
<1>2. \A k \in Keys : /\ rows[k].val \in 0 .. Len(attempts)
                       /\ rows[k].new \in 0 .. Len(attempts)
    BY <1>1 DEF Typed, Row, Bounded
<1>3. \A k \in Keys : rows'[k].val <= Len(attempts') /\ rows'[k].new <= Len(attempts')
    <2>1. SUFFICES ASSUME NEW k \in Keys
                   PROVE  rows'[k].val <= Len(attempts') /\ rows'[k].new <= Len(attempts')
        OBVIOUS
    <2>2. CASE rows'[k] \in {rows[k], Stored(rows[k].val), Stored(rows[k].new)}
        BY <1>1, <1>2, <2>2 DEF Stored
    <2>3. CASE rows'[k].val = rows[k].val /\ rows'[k].new \in {0, writer[s].attempt}
        BY <1>1, <1>2, <2>3 DEF Bounded
    <2> QED
        BY <2>2, <2>3
<1>4. \A t \in Sessions : writer'[t].attempt <= Len(attempts')
    BY <1>1 DEF Bounded
<1> QED
    BY <1>3, <1>4 DEF Bounded

\* What the statements of a session change of the rows, and of its place.
ChangesRows(s) ==
    \/ UNCHANGED rows
    \/ RollBackRows(s)
    \/ CommitRows(s)
    \/ \E k, attempt : Write(s, k, attempt) /\ attempt \in {0, writer[s].attempt}
ChangesPlace(s) ==
    \/ \E step, at : GoTo(s, step, at)
    \/ \E step, report : Reads(s, step, report)
    \/ Leave(s)

LEMMA ChangesStayBounded ==
    ASSUME Typed, Bounded, NEW s \in Sessions, ChangesRows(s), ChangesPlace(s), UNCHANGED attempts
    PROVE  Bounded'
<1>1. Len(attempts') \in Nat /\ Len(attempts) <= Len(attempts') /\ Len(attempts') <= MaxAttempts
    BY DEF Typed, Bounded
<1>2. ASSUME NEW k \in Keys
      PROVE  \/ rows'[k] \in {rows[k], Stored(rows[k].val), Stored(rows[k].new)}
             \/ rows'[k].val = rows[k].val /\ rows'[k].new \in {0, writer[s].attempt}
    <2>1. CASE UNCHANGED rows
        BY <2>1
    <2>2. CASE RollBackRows(s) \/ CommitRows(s)
        BY <2>2 DEF RollBackRows, CommitRows
    <2>3. ASSUME NEW j, NEW attempt \in {0, writer[s].attempt}, Write(s, j, attempt)
          PROVE  \/ rows'[k] = rows[k]
                 \/ rows'[k].val = rows[k].val /\ rows'[k].new \in {0, writer[s].attempt}
        BY <2>3 DEF Write, Typed
    <2> QED
        BY <2>1, <2>2, <2>3 DEF ChangesRows
<1>3. \A t \in Sessions \ {s} : writer'[t] = writer[t]
    BY DEF ChangesPlace, GoTo, Reads, Leave, Typed
<1>4. writer'[s].attempt \in {0, writer[s].attempt, Len(attempts')}
    <2>1. ASSUME NEW step, NEW at, GoTo(s, step, at) PROVE writer'[s].attempt = writer[s].attempt
        BY <2>1 DEF GoTo, Typed
    <2>2. ASSUME NEW step, NEW report, Reads(s, step, report)
          PROVE  writer'[s].attempt = writer[s].attempt
        BY <2>2 DEF Reads, Typed
    <2>3. ASSUME Leave(s) PROVE writer'[s].attempt = 0
        BY <2>3 DEF Leave, Resting, Typed
    <2> QED
        BY <2>1, <2>2, <2>3 DEF ChangesPlace
<1> QED
    BY <1>1, <1>2, <1>3, <1>4, BoundedStep

LEMMA InsertChanges ==
    ASSUME NEW s \in Sessions, NEW k, NEW step, NEW at, Insert(s, k, GoTo(s, step, at))
    PROVE  ChangesRows(s) /\ ChangesPlace(s)
BY DEF Insert, ChangesRows, ChangesPlace

LEMMA StatementChanges ==
    ASSUME NEW s \in Sessions, Statement(s)
    PROVE  ChangesRows(s) /\ ChangesPlace(s) /\ UNCHANGED attempts
<1>1. CASE DeleteMetrics(s) \/ DeleteFinding(s)
    <2>1. \E k : Delete(s, k)
        BY <1>1 DEF DeleteMetrics, DeleteFinding, DeleteRow
    <2>2. ChangesRows(s)
        BY <2>1 DEF Delete, ChangesRows
    <2>3. ChangesPlace(s) /\ UNCHANGED attempts
        BY <1>1 DEF DeleteMetrics, DeleteFinding, Step, ChangesPlace
    <2> QED
        BY <2>2, <2>3
<1>2. CASE SeekRun(s) \/ UpdateRun(s)
    BY <1>2 DEF SeekRun, UpdateRun, Step, ChangesRows, ChangesPlace
<1>3. CASE InsertRun(s)
    BY <1>3, InsertChanges DEF InsertRun, Step
<1>4. CASE InsertMetrics(s)
    BY <1>4, InsertChanges DEF InsertMetrics, Step
<1>5. CASE InsertFinding(s)
    <2>1. \/ Step(s, "verdicts") /\ UNCHANGED rows
          \/ \E f : Insert(s, FindingRow(Run(s), f), GoTo(s, "addFindings", f + 1))
        BY <1>5 DEF InsertFinding
    <2> QED
        BY <1>5, <2>1, InsertChanges DEF InsertFinding, Step, ChangesRows, ChangesPlace
<1>6. CASE SeekVerdict(s)
    BY <1>6 DEF SeekVerdict, Step, ChangesRows, ChangesPlace
<1>7. CASE InsertVerdict(s)
    BY <1>7, InsertChanges DEF InsertVerdict
<1>8. CASE ReadRun(s) \/ ReadMetrics(s) \/ ReadFindings(s)
    BY <1>8 DEF ReadRun, ReadMetrics, ReadFindings, ChangesRows, ChangesPlace
<1> QED
    BY <1>1, <1>2, <1>3, <1>4, <1>5, <1>6, <1>7, <1>8 DEF Statement

LEMMA WriterStepBounded ==
    ASSUME WritersAssumption, Typed, Bounded, NEW s \in Sessions,
           StartRun(s) \/ GetRun(s) \/ WriterStep(s)
    PROVE  Bounded'
<1>1. CASE StartRun(s)
    BY <1>1, ChangesStayBounded DEF StartRun, Step, ChangesRows, ChangesPlace
<1>2. CASE GetRun(s)
    <2>1. UNCHANGED <<rows, attempts>>
        BY <1>2 DEF GetRun
    <2>2. /\ \A t \in Sessions \ {s} : writer'[t] = writer[t]
          /\ writer'[s].attempt = 0
        BY <1>2 DEF GetRun, Typed
    <2>3. Len(attempts) \in Nat /\ Len(attempts) <= MaxAttempts
        BY DEF Typed, Bounded
    <2> QED
        BY <2>1, <2>2, <2>3, BoundedStep
<1>3. CASE Execute(s)
    <2>1. PICK p \in Payloads :
              /\ attempts' = Append(attempts, [run |-> p.run, findings |-> p.findings,
                                               verdicts |-> p.verdicts, by |-> Kind(s)])
              /\ writer' = [writer EXCEPT ![s] =
                     [step |-> "metrics", attempt |-> Len(attempts) + 1, run |-> p.run, at |-> 1,
                      report |-> NoReport]]
        BY <1>3 DEF Execute
    <2>2. Len(attempts') = Len(attempts) + 1 /\ Len(attempts) \in Nat
        BY <2>1 DEF Typed
    <2>3. Len(attempts) < MaxAttempts /\ MaxAttempts \in Nat /\ UNCHANGED rows
        BY <1>3 DEF Execute, WritersAssumption
    <2>4. /\ \A t \in Sessions \ {s} : writer'[t] = writer[t]
          /\ writer'[s].attempt = Len(attempts) + 1
        BY <2>1 DEF Typed
    <2> QED
        BY <2>2, <2>3, <2>4, BoundedStep
<1>4. CASE ExecuteFails(s) \/ Answer(s)
    BY <1>4, ChangesStayBounded DEF ExecuteFails, Answer, ChangesRows, ChangesPlace
<1>5. CASE Commit(s) \/ RollBack(s)
    BY <1>5, ChangesStayBounded DEF Commit, RollBack, Step, ChangesRows, ChangesPlace
<1>6. CASE Statement(s)
    BY <1>6, StatementChanges, ChangesStayBounded
<1> QED
    BY <1>1, <1>2, <1>3, <1>4, <1>5, <1>6 DEF WriterStep

LEMMA EndedBounded ==
    ASSUME WritersAssumption, Typed, Bounded, NEW S \in SUBSET Sessions, Ended(S)
    PROVE  Bounded'
<1>1. UNCHANGED attempts /\ Len(attempts) \in Nat
    BY DEF Ended, Typed
<1>2. \A k \in Keys : rows'[k] \in {rows[k], Stored(rows[k].val)}
    BY DEF Ended
<1>3. \A k \in Keys : rows'[k].val <= Len(attempts) /\ rows'[k].new <= Len(attempts)
    BY <1>1, <1>2 DEF Stored, Bounded
<1>4. \A t \in Sessions : writer'[t].attempt <= Len(attempts)
    BY <1>1 DEF Ended, Resting, Bounded
<1> QED
    BY <1>1, <1>3, <1>4 DEF Bounded

LEMMA InitBounded ==
    ASSUME WritersAssumption, WritersInit
    PROVE  Bounded
<1>1. Len(attempts) = 0 /\ MaxAttempts \in Nat
    BY DEF WritersInit, WritersAssumption
<1>2. \A k \in Keys : rows[k].val = 0 /\ rows[k].new = 0
    BY DEF WritersInit, Stored
<1>3. \A s \in Sessions : writer[s].attempt = 0
    BY DEF WritersInit, Resting
<1> QED
    BY <1>1, <1>2, <1>3 DEF Bounded

LEMMA BoundedTypes ==
    ASSUME WritersAssumption, Typed, Bounded
    PROVE  WritersTypeOK
<1>1. Len(attempts) \in Nat /\ MaxAttempts \in Nat /\ Len(attempts) <= MaxAttempts
    BY DEF Typed, Bounded, WritersAssumption
<1>2. \A k \in Keys : rows[k] \in
          [val : 0 .. MaxAttempts, by : Sessions \cup {NoOne}, new : 0 .. MaxAttempts]
    BY <1>1 DEF Typed, Row, Bounded
<1>3. \A s \in Sessions : writer[s].attempt \in 0 .. Len(attempts)
    BY <1>1 DEF Typed, Place, Bounded
<1> QED
    BY <1>1, <1>2, <1>3 DEF Typed, WritersTypeOK

-------------------------------------------------------------------------------
\* What is read of a run belongs together, and a request is answered with the attempt
\* it has made itself.
Reports(s) == writer[s].step \in {"readMetrics", "readFindings", "answer"}
Renders(s) == writer[s].step = "readRun" \/ Reports(s)
Now(s) == rows[RunRow(Run(s))].val

\* An attempt that is being persisted is stored nowhere, read by nobody and persisted
\* by no other session: once its run has changed, it does not change back.
IsFresh(s) ==
    InPersist(s) =>
        /\ \A r \in Runs : rows[RunRow(r)].val # writer[s].attempt
        /\ \A t \in Sessions :
               /\ t # s /\ InPersist(t) => writer[t].attempt # writer[s].attempt
               /\ Reports(t) => writer[t].report.run # writer[s].attempt

\* As long as the run is as the first query found it, so is the rest.
IsWhole(s) ==
    /\ Renders(s) => Run(s) \in Runs /\ Now(s) # 0
    /\ Reports(s) => writer[s].report.run \in 1 .. Len(attempts)
    /\ Reports(s) /\ writer[s].report.run = Now(s) =>
           /\ writer[s].step \in {"readFindings", "answer"} => writer[s].report.metrics = Now(s)
           /\ writer[s].step = "answer" =>
                  \A f \in Findings : writer[s].report.findings[f] =
                      IF f \in attempts[Now(s)].findings THEN Now(s) ELSE 0

\* A request that has left the queue has the gate until it is answered; its attempt is
\* the newest one a request has made.
HasGate(s) ==
    s \in Gated =>
        /\ writer[s].step # "idle" => gate = s
        /\ writer[s].step \notin {"idle", "execute"} =>
               /\ writer[s].attempt \in 1 .. Len(attempts)
               /\ attempts[writer[s].attempt].run = Run(s)
               /\ Requested(writer[s].attempt)
               /\ \A n \in 1 .. Len(attempts) : Requested(n) => n <= writer[s].attempt

IsACommand(s) == s \notin Gated /\ InPersist(s) => ~Requested(writer[s].attempt)

OnlyRequests(r) == \A n \in 1 .. Len(attempts) : attempts[n].run = r => Requested(n)

\* From its commit on a request reads its own attempt.
IsItsOwn(s) ==
    s \in Gated /\ Renders(s) /\ OnlyRequests(Run(s)) =>
        /\ Now(s) = writer[s].attempt
        /\ Reports(s) => writer[s].report.run = writer[s].attempt
        /\ writer[s].step \in {"readFindings", "answer"} => writer[s].report.metrics = writer[s].attempt

SessionInv(s) == IsFresh(s) /\ IsWhole(s) /\ HasGate(s) /\ IsACommand(s) /\ IsItsOwn(s)

ReportsInv == WritersInv /\ \A s \in Sessions : SessionInv(s)

-------------------------------------------------------------------------------
\* A statement of a transaction that does not fail.
Quiet(s) ==
    /\ InPersist(s) /\ InPersist(s)'
    /\ writer'[s].attempt = writer[s].attempt /\ Run(s)' = Run(s)
    /\ \A t \in Sessions \ {s} : writer'[t] = writer[t]
    /\ \A k \in Keys : rows'[k].val = rows[k].val
    /\ UNCHANGED <<attempts, gate>>

LEMMA QuietReports ==
    ASSUME WritersAssumption, ReportsInv, NEW s \in Sessions, Quiet(s), NEW t \in Sessions
    PROVE  SessionInv(t)'
<1>1. SessionInv(t) /\ \A u \in Sessions : IsFresh(u)
    BY DEF ReportsInv, SessionInv
<1>2. \A r \in Runs : rows'[RunRow(r)].val = rows[RunRow(r)].val
    BY KeysAre DEF Quiet
<1>3. \A u \in Sessions : /\ InPersist(u)' <=> InPersist(u)
                          /\ writer'[u].attempt = writer[u].attempt /\ Run(u)' = Run(u)
                          /\ Reports(u)' <=> Reports(u)
                          /\ Renders(u)' <=> Renders(u)
                          /\ Reports(u) => writer'[u] = writer[u]
    <2> SUFFICES ASSUME NEW u \in Sessions
                 PROVE  /\ InPersist(u)' <=> InPersist(u)
                        /\ writer'[u].attempt = writer[u].attempt /\ Run(u)' = Run(u)
                        /\ Reports(u)' <=> Reports(u)
                        /\ Renders(u)' <=> Renders(u)
                        /\ Reports(u) => writer'[u] = writer[u]
        OBVIOUS
    <2>1. CASE u = s
        BY <2>1 DEF Quiet, InPersist, Reports, Renders
    <2>2. CASE u # s
        BY <2>2 DEF Quiet, InPersist, Reports, Renders, Run
    <2> QED
        BY <2>1, <2>2
<1>4. UNCHANGED attempts /\ UNCHANGED gate
    BY DEF Quiet
<1>5. IsFresh(t)'
    BY <1>1, <1>2, <1>3 DEF IsFresh
<1>6. Renders(t) => Now(t)' = Now(t)
    BY <1>1, <1>2, <1>3 DEF Now, SessionInv, IsWhole
<1>7. IsWhole(t)'
    BY <1>1, <1>3, <1>4, <1>6 DEF SessionInv, IsWhole, Renders
<1>8. HasGate(t)'
    <2>1. writer[t].step \notin {"idle", "execute"} <=> writer'[t].step \notin {"idle", "execute"}
        BY DEF Quiet, InPersist
    <2>2. writer[t].step = "idle" <=> writer'[t].step = "idle"
        BY DEF Quiet, InPersist
    <2> QED
        BY <1>1, <1>3, <1>4, <2>1, <2>2 DEF SessionInv, HasGate, Requested
<1>9. IsACommand(t)'
    BY <1>1, <1>3, <1>4 DEF SessionInv, IsACommand, Requested
<1>10. IsItsOwn(t)'
    BY <1>1, <1>3, <1>4, <1>6 DEF SessionInv, IsItsOwn, OnlyRequests, Requested, Renders
<1> QED
    BY <1>5, <1>7, <1>8, <1>9, <1>10 DEF SessionInv

\* Sessions that end have nothing to answer any more, and give the gate back.
EndedReleasing(S) == Ended(S) /\ gate' = IF gate \in S THEN NoOne ELSE gate

LEMMA EndedReports ==
    ASSUME WritersAssumption, ReportsInv, NEW S \in SUBSET Sessions, EndedReleasing(S),
           NEW t \in Sessions
    PROVE  SessionInv(t)'
<1>1. SessionInv(t) /\ \A u \in Sessions : IsFresh(u)
    BY DEF ReportsInv, SessionInv
<1>2. \A r \in Runs : rows'[RunRow(r)].val = rows[RunRow(r)].val
    BY KeysAre DEF EndedReleasing, Ended, Stored, ReportsInv, WritersInv, Typed, Row
<1>3. \A u \in Sessions : IF u \in S THEN writer'[u].step = "idle" ELSE writer'[u] = writer[u]
    BY DEF EndedReleasing, Ended, Resting
<1>4. \A u \in Sessions : /\ InPersist(u)' => InPersist(u) /\ u \notin S
                          /\ Reports(u)' => Reports(u) /\ u \notin S
                          /\ Renders(u)' => Renders(u) /\ u \notin S
                          /\ u \notin S => Run(u)' = Run(u)
    BY <1>3 DEF InPersist, Reports, Renders, Run
<1>5. UNCHANGED attempts
    BY DEF EndedReleasing, Ended
<1>6. IsFresh(t)'
    BY <1>1, <1>2, <1>3, <1>4 DEF IsFresh
<1>7. t \notin S /\ Renders(t) => Now(t)' = Now(t)
    BY <1>1, <1>2, <1>4 DEF Now, SessionInv, IsWhole
<1>8. IsWhole(t)'
    BY <1>1, <1>3, <1>4, <1>5, <1>7 DEF SessionInv, IsWhole, Renders
<1>9. HasGate(t)'
    BY <1>1, <1>3, <1>4, <1>5 DEF SessionInv, HasGate, Requested, EndedReleasing
<1>10. IsACommand(t)'
    BY <1>1, <1>3, <1>4, <1>5 DEF SessionInv, IsACommand, Requested
<1>11. IsItsOwn(t)'
    BY <1>1, <1>3, <1>4, <1>5, <1>7 DEF SessionInv, IsItsOwn, OnlyRequests, Requested, Renders
<1> QED
    BY <1>6, <1>8, <1>9, <1>10, <1>11 DEF SessionInv

-------------------------------------------------------------------------------
\* A step of one session that changes no table and leaves the others the gate.
LEMMA OutsideReports ==
    ASSUME WritersAssumption, ReportsInv, NEW s \in Sessions, ~InPersist(s)',
           UNCHANGED <<rows, attempts>>, \A t \in Sessions \ {s} : writer'[t] = writer[t],
           \A t \in Gated \ {s} : writer[t].step # "idle" => gate' = t,
           Reports(s)' => \A t \in Sessions \ {s} :
               InPersist(t) => writer'[s].report.run # writer[t].attempt,
           IsWhole(s)', HasGate(s)', IsItsOwn(s)',
           NEW t \in Sessions
    PROVE  SessionInv(t)'
<1>1. SessionInv(t)
    BY DEF ReportsInv
<1>2. CASE t = s
    BY <1>2 DEF SessionInv, IsFresh, IsACommand
<1>3. CASE t # s
    <2>1. \A u \in Sessions \ {s} : (InPersist(u)' <=> InPersist(u)) /\ (Reports(u)' <=> Reports(u))
                                     /\ (Renders(u)' <=> Renders(u)) /\ Run(u)' = Run(u)
        BY DEF InPersist, Reports, Renders, Run
    <2>2. writer'[t] = writer[t]
        BY <1>3
    <2>3. IsFresh(t)'
        <3> SUFFICES ASSUME InPersist(t)' PROVE IsFresh(t)'
            BY DEF IsFresh
        <3>1. IsFresh(t) /\ InPersist(t)
            BY <1>1, <1>3, <2>1 DEF SessionInv
        <3>2. \A u \in Sessions \ {s} : u # t /\ InPersist(u)' => writer'[u].attempt # writer'[t].attempt
            BY <2>1, <2>2, <3>1 DEF IsFresh
        <3>3. \A u \in Sessions : Reports(u)' => writer'[u].report.run # writer'[t].attempt
            BY <1>3, <2>1, <2>2, <3>1 DEF IsFresh
        <3>4. \A r \in Runs : rows'[RunRow(r)].val # writer'[t].attempt
            BY <2>2, <3>1 DEF IsFresh
        <3> QED
            BY <3>2, <3>3, <3>4 DEF IsFresh
    <2>4. Now(t)' = Now(t)
        BY <1>3, <2>1 DEF Now
    <2>5. IsWhole(t)'
        BY <1>1, <1>3, <2>1, <2>2, <2>4 DEF SessionInv, IsWhole
    <2>6. HasGate(t)'
        BY <1>1, <1>3, <2>1, <2>2 DEF SessionInv, HasGate, Requested
    <2>7. IsACommand(t)'
        BY <1>1, <1>3, <2>1, <2>2 DEF SessionInv, IsACommand, Requested
    <2>8. IsItsOwn(t)'
        BY <1>1, <1>3, <2>1, <2>2, <2>4 DEF SessionInv, IsItsOwn, OnlyRequests, Requested
    <2> QED
        BY <2>3, <2>5, <2>6, <2>7, <2>8 DEF SessionInv
<1> QED
    BY <1>2, <1>3

\* No other request is under way beside the one that has the gate.
LEMMA OneRequest ==
    ASSUME ReportsInv, NEW s \in Gated, NEW t \in Gated, s \in Sessions, t \in Sessions,
           writer[s].step # "idle", writer[t].step # "idle"
    PROVE  s = t
BY DEF ReportsInv, SessionInv, HasGate

LEMMA StartRunReports ==
    ASSUME WritersAssumption, ReportsInv, NEW s \in Sessions, StartRun(s), NEW t \in Sessions
    PROVE  SessionInv(t)'
<1>1. Typed /\ GoTo(s, "execute", 1) /\ UNCHANGED <<rows, attempts>> /\ writer[s].step = "idle"
    BY DEF StartRun, Step, ReportsInv, WritersInv
<1>2. writer'[s].step = "execute" /\ \A u \in Sessions \ {s} : writer'[u] = writer[u]
    BY <1>1, GoesTo DEF Steps
<1>3. ~InPersist(s)' /\ ~Reports(s)' /\ ~Renders(s)'
    BY <1>2 DEF InPersist, Reports, Renders
<1>4. \A u \in Gated \ {s} : writer[u].step # "idle" => gate' = u
    <2> SUFFICES ASSUME NEW u \in Gated \ {s}, writer[u].step # "idle" PROVE gate' = u
        OBVIOUS
    <2>1. gate = u /\ u # NoOne
        BY DEF WritersAssumption, ReportsInv, SessionInv, HasGate
    <2> QED
        BY <2>1 DEF StartRun, GateFree
<1>5. HasGate(s)'
    BY <1>2 DEF StartRun, HasGate
<1> QED
    BY <1>1, <1>2, <1>3, <1>4, <1>5, OutsideReports DEF IsWhole, IsItsOwn

LEMMA LeaveReports ==
    ASSUME WritersAssumption, ReportsInv, NEW s \in Sessions, ExecuteFails(s) \/ Answer(s),
           NEW t \in Sessions
    PROVE  SessionInv(t)'
<1>1. Leave(s) /\ UNCHANGED <<rows, attempts>> /\ Typed
    BY DEF ExecuteFails, Answer, ReportsInv, WritersInv
<1>2. writer'[s].step = "idle" /\ \A u \in Sessions \ {s} : writer'[u] = writer[u]
    BY <1>1 DEF Leave, Typed, Resting
<1>3. ~InPersist(s)' /\ ~Reports(s)' /\ ~Renders(s)'
    BY <1>2 DEF InPersist, Reports, Renders
<1>4. \A u \in Gated \ {s} : writer[u].step # "idle" => gate' = u
    BY <1>1 DEF Leave, Release, WritersAssumption, ReportsInv, SessionInv, HasGate
<1>5. HasGate(s)'
    BY <1>2 DEF HasGate
<1> QED
    BY <1>1, <1>2, <1>3, <1>4, <1>5, OutsideReports DEF IsWhole, IsItsOwn

LEMMA GetRunReports ==
    ASSUME WritersAssumption, ReportsInv, NEW s \in Sessions, GetRun(s), NEW t \in Sessions
    PROVE  SessionInv(t)'
<1>1. Typed /\ UNCHANGED <<rows, attempts, gate>> /\ s \notin Gated
    BY DEF GetRun, ReportsInv, WritersInv, WritersAssumption
<1>2. PICK r \in StoredRuns : writer' = [writer EXCEPT ![s] =
          [step |-> "readRun", attempt |-> 0, run |-> r, at |-> 1, report |-> NoReport]]
    BY DEF GetRun
<1>3. writer'[s].step = "readRun" /\ Run(s)' = r /\ \A u \in Sessions \ {s} : writer'[u] = writer[u]
    BY <1>1, <1>2 DEF Typed, Run
<1>4. ~InPersist(s)' /\ ~Reports(s)'
    BY <1>3 DEF InPersist, Reports
<1>5. \A u \in Gated \ {s} : writer[u].step # "idle" => gate' = u
    BY <1>1 DEF WritersAssumption, ReportsInv, SessionInv, HasGate
<1>6. IsWhole(s)'
    BY <1>1, <1>3, <1>4 DEF IsWhole, Now, StoredRuns
<1>7. HasGate(s)' /\ IsItsOwn(s)'
    BY <1>1 DEF HasGate, IsItsOwn
<1> QED
    BY <1>1, <1>3, <1>4, <1>5, <1>6, <1>7, OutsideReports

\* What the queries of a report leave as it is.
LEMMA ReadsReport ==
    ASSUME WritersAssumption, ReportsInv, NEW s \in Sessions, Renders(s),
           NEW step \in {"readMetrics", "readFindings", "answer"}, NEW report \in ReportType,
           Reads(s, step, report), UNCHANGED <<rows, attempts, gate>>
    PROVE  /\ writer'[s].step = step /\ writer'[s].report = report
           /\ writer'[s].attempt = writer[s].attempt /\ Run(s)' = Run(s) /\ Now(s)' = Now(s)
           /\ \A u \in Sessions \ {s} : writer'[u] = writer[u]
           /\ ~InPersist(s)' /\ Reports(s)' /\ Renders(s)'
           /\ \A u \in Gated \ {s} : writer[u].step # "idle" => gate' = u
           /\ HasGate(s)'
           /\ Run(s) \in Runs /\ Now(s) # 0 /\ Now(s) \in 1 .. Len(attempts) /\ Typed
           /\ rows[MetricsRow(Run(s))].val = Now(s)
           /\ \A f \in Findings : rows[FindingRow(Run(s), f)].val =
                                      IF f \in attempts[Now(s)].findings THEN Now(s) ELSE 0
           /\ IsWhole(s) /\ IsItsOwn(s)
           /\ OnlyRequests(Run(s))' <=> OnlyRequests(Run(s))
<1>1. Typed /\ IsWhole(s) /\ IsItsOwn(s) /\ HasGate(s)
    BY DEF ReportsInv, WritersInv, SessionInv
<1>2. /\ writer'[s].step = step /\ writer'[s].report = report
      /\ writer'[s].attempt = writer[s].attempt /\ Run(s)' = Run(s)
      /\ \A u \in Sessions \ {s} : writer'[u] = writer[u]
    BY <1>1 DEF Typed, Reads, Run
<1>3. ~InPersist(s)' /\ Reports(s)' /\ Renders(s)'
    BY <1>2 DEF InPersist, Reports, Renders
<1>4. \A u \in Gated \ {s} : writer[u].step # "idle" => gate' = u
    BY DEF WritersAssumption, ReportsInv, SessionInv, HasGate
<1>5. Run(s) \in Runs /\ Now(s) # 0 /\ Now(s)' = Now(s)
    BY <1>1, <1>2 DEF IsWhole, Now
<1>6. Now(s) \in 1 .. Len(attempts)
    BY <1>1, <1>5 DEF ReportsInv, WritersInv, StoredAttempts, Now, Typed
<1>7. /\ rows[MetricsRow(Run(s))].val = Now(s)
      /\ \A f \in Findings : rows[FindingRow(Run(s), f)].val =
                                 IF f \in attempts[Now(s)].findings THEN Now(s) ELSE 0
    BY <1>5 DEF ReportsInv, WritersInv, RowsAreOfOneAttempt, Now
<1>8. HasGate(s)'
    BY <1>1, <1>2 DEF HasGate, Requested, Renders, Reports
<1>9. OnlyRequests(Run(s))' <=> OnlyRequests(Run(s))
    BY <1>2 DEF OnlyRequests, Requested
<1> QED
    BY <1>1, <1>2, <1>3, <1>4, <1>5, <1>6, <1>7, <1>8, <1>9

LEMMA ReadRunReports ==
    ASSUME WritersAssumption, ReportsInv, NEW s \in Sessions, ReadRun(s), NEW t \in Sessions
    PROVE  SessionInv(t)'
<1> DEFINE report == Report(Now(s), 0, NoReport.findings)
<1>1. Renders(s) /\ Reads(s, "readMetrics", report) /\ UNCHANGED <<rows, attempts, gate>>
    BY DEF ReadRun, Renders, Now
<1>2. report \in ReportType /\ report.run = Now(s)
    <2>1. Run(s) \in Runs /\ Typed
        BY <1>1 DEF ReportsInv, WritersInv, SessionInv, IsWhole
    <2>2. Now(s) \in Nat
        BY <2>1, KeysAre DEF Now, Typed, Row
    <2>3. NoReport.findings \in [Findings -> Nat]
        BY DEF NoReport
    <2> QED
        BY <2>2, <2>3 DEF Report, ReportType
<1> HIDE DEF report
<1>3. \A u \in Sessions \ {s} : InPersist(u) => report.run # writer[u].attempt
    BY <1>1, <1>2, ReadsReport DEF ReportsInv, SessionInv, IsFresh, Now
<1>4. IsWhole(s)'
    BY <1>1, <1>2, ReadsReport DEF IsWhole
<1>5. IsItsOwn(s)'
    BY <1>1, <1>2, ReadsReport DEF IsItsOwn
<1> QED
    BY <1>1, <1>2, <1>3, <1>4, <1>5, ReadsReport, OutsideReports

LEMMA ReadMetricsReports ==
    ASSUME WritersAssumption, ReportsInv, NEW s \in Sessions, ReadMetrics(s), NEW t \in Sessions
    PROVE  SessionInv(t)'
<1> DEFINE report == Report(writer[s].report.run, rows[MetricsRow(Run(s))].val, NoReport.findings)
<1>1. Renders(s) /\ Reads(s, "readFindings", report) /\ UNCHANGED <<rows, attempts, gate>>
      /\ Reports(s)
    BY DEF ReadMetrics, Renders, Reports
<1>2. /\ report \in ReportType /\ report.run = writer[s].report.run
      /\ report.metrics = rows[MetricsRow(Run(s))].val
    <2>1. Run(s) \in Runs /\ Typed
        BY <1>1 DEF ReportsInv, WritersInv, SessionInv, IsWhole
    <2>2. rows[MetricsRow(Run(s))].val \in Nat /\ writer[s].report.run \in Nat
        BY <2>1, KeysAre DEF Typed, Row, Place, ReportType
    <2>3. NoReport.findings \in [Findings -> Nat]
        BY DEF NoReport
    <2> QED
        BY <2>2, <2>3 DEF Report, ReportType
<1> HIDE DEF report
<1>3. \A u \in Sessions \ {s} : InPersist(u) => report.run # writer[u].attempt
    BY <1>1, <1>2 DEF ReportsInv, SessionInv, IsFresh
<1>4. IsWhole(s)'
    BY <1>1, <1>2, ReadsReport DEF IsWhole
<1>5. IsItsOwn(s)'
    BY <1>1, <1>2, ReadsReport DEF IsItsOwn
<1> QED
    BY <1>1, <1>2, <1>3, <1>4, <1>5, ReadsReport, OutsideReports

LEMMA ReadFindingsReports ==
    ASSUME WritersAssumption, ReportsInv, NEW s \in Sessions, ReadFindings(s), NEW t \in Sessions
    PROVE  SessionInv(t)'
<1> DEFINE report == Report(writer[s].report.run, writer[s].report.metrics,
                            [f \in Findings |-> rows[FindingRow(Run(s), f)].val])
<1>1. Renders(s) /\ Reads(s, "answer", report) /\ UNCHANGED <<rows, attempts, gate>>
      /\ Reports(s) /\ writer[s].step = "readFindings"
    BY DEF ReadFindings, Renders, Reports
<1>2. /\ report \in ReportType /\ report.run = writer[s].report.run
      /\ report.metrics = writer[s].report.metrics
      /\ \A f \in Findings : report.findings[f] = rows[FindingRow(Run(s), f)].val
    <2>1. Run(s) \in Runs /\ Typed
        BY <1>1 DEF ReportsInv, WritersInv, SessionInv, IsWhole
    <2>2. /\ \A f \in Findings : rows[FindingRow(Run(s), f)].val \in Nat
          /\ writer[s].report.run \in Nat /\ writer[s].report.metrics \in Nat
        BY <2>1, KeysAre DEF Typed, Row, Place, ReportType
    <2> QED
        BY <2>2 DEF Report, ReportType
<1> HIDE DEF report
<1>3. \A u \in Sessions \ {s} : InPersist(u) => report.run # writer[u].attempt
    BY <1>1, <1>2 DEF ReportsInv, SessionInv, IsFresh
<1>4. IsWhole(s)'
    BY <1>1, <1>2, ReadsReport DEF IsWhole
<1>5. IsItsOwn(s)'
    BY <1>1, <1>2, ReadsReport DEF IsItsOwn
<1> QED
    BY <1>1, <1>2, <1>3, <1>4, <1>5, ReadsReport, OutsideReports

-------------------------------------------------------------------------------
\* What is stored, persisted or read was made before.
LEMMA AttemptsWereMade ==
    ASSUME WritersAssumption, ReportsInv
    PROVE  /\ Len(attempts) \in Nat
           /\ \A r \in Runs : rows[RunRow(r)].val \in 0 .. Len(attempts)
           /\ \A t \in Sessions : InPersist(t) => writer[t].attempt \in 1 .. Len(attempts)
           /\ \A t \in Sessions : Reports(t) => writer[t].report.run \in 1 .. Len(attempts)
<1>1. Len(attempts) \in Nat
    BY DEF ReportsInv, WritersInv, Typed
<1>2. \A r \in Runs : rows[RunRow(r)].val \in 0 .. Len(attempts)
    BY DEF ReportsInv, WritersInv, StoredAttempts
<1>3. \A t \in Sessions : InPersist(t) => writer[t].attempt \in 1 .. Len(attempts)
    BY DEF ReportsInv, WritersInv, InOrder, Persists
<1>4. \A t \in Sessions : Reports(t) => writer[t].report.run \in 1 .. Len(attempts)
    BY DEF ReportsInv, SessionInv, IsWhole
<1> QED
    BY <1>1, <1>2, <1>3, <1>4

LEMMA ExecuteReports ==
    ASSUME WritersAssumption, ReportsInv, NEW s \in Sessions, Execute(s), NEW t \in Sessions
    PROVE  SessionInv(t)'
<1> DEFINE new == Len(attempts) + 1
<1>1. Typed /\ UNCHANGED rows /\ UNCHANGED gate /\ writer[s].step = "execute" /\ new \in Nat
    BY DEF Execute, ReportsInv, WritersInv, Typed
<1>2. PICK p \in Payloads :
          /\ attempts' = Append(attempts, [run |-> p.run, findings |-> p.findings,
                                           verdicts |-> p.verdicts, by |-> Kind(s)])
          /\ writer' = [writer EXCEPT ![s] =
                 [step |-> "metrics", attempt |-> Len(attempts) + 1, run |-> p.run, at |-> 1,
                  report |-> NoReport]]
    BY DEF Execute
<1>3. /\ writer'[s].step = "metrics" /\ writer'[s].attempt = new /\ Run(s)' = p.run
      /\ \A u \in Sessions \ {s} : writer'[u] = writer[u]
    BY <1>1, <1>2 DEF Typed, Run
<1>4. /\ Len(attempts') = new /\ \A n \in 1 .. Len(attempts) : attempts'[n] = attempts[n]
      /\ attempts'[new].run = p.run /\ attempts'[new].by = Kind(s)
    <2> DEFINE a == [run |-> p.run, findings |-> p.findings, verdicts |-> p.verdicts, by |-> Kind(s)]
    <2>1. a.run = p.run /\ a.by = Kind(s)
        OBVIOUS
    <2>2. attempts' = Append(attempts, a)
        BY <1>2
    <2> HIDE DEF a
    <2>3. Len(attempts') = new /\ attempts'[new] = a
          /\ \A n \in 1 .. Len(attempts) : attempts'[n] = attempts[n]
        BY <1>1, <2>2 DEF Typed
    <2> QED
        BY <2>1, <2>3
<1> HIDE DEF new
<1>5. new = Len(attempts) + 1 /\ Len(attempts) \in Nat
    BY <1>1 DEF new, Typed
<1>6. InPersist(s)' /\ ~Reports(s)' /\ ~Renders(s)'
    BY <1>3 DEF InPersist, Reports, Renders
<1>7. \A u \in Sessions \ {s} : (InPersist(u)' <=> InPersist(u)) /\ (Reports(u)' <=> Reports(u))
                                 /\ (Renders(u)' <=> Renders(u)) /\ Run(u)' = Run(u)
    BY <1>3 DEF InPersist, Reports, Renders, Run
<1>8. \A n \in 1 .. Len(attempts) : Requested(n)' <=> Requested(n)
    BY <1>4 DEF Requested
<1>9. attempts'[new].by = "request" <=> s \in Gated
    BY <1>4 DEF Kind
<1>10. CASE t = s
    <2>1. IsFresh(s)'
        <3>1. \A r \in Runs : rows'[RunRow(r)].val # new
            BY <1>1, <1>5, AttemptsWereMade
        <3>2. \A u \in Sessions : u # s /\ InPersist(u)' => writer'[u].attempt # new
            BY <1>3, <1>5, <1>7, AttemptsWereMade
        <3>3. \A u \in Sessions : Reports(u)' => writer'[u].report.run # new
            BY <1>3, <1>5, <1>6, <1>7, AttemptsWereMade
        <3> QED
            BY <1>3, <3>1, <3>2, <3>3 DEF IsFresh
    <2>2. IsWhole(s)' /\ IsItsOwn(s)'
        BY <1>6 DEF IsWhole, IsItsOwn
    <2>3. HasGate(s)'
        <3>1. s \in Gated => gate = s
            BY <1>1 DEF ReportsInv, SessionInv, HasGate
        <3> QED
            BY <1>1, <1>3, <1>4, <1>5, <1>9, <3>1 DEF HasGate, Requested
    <2>4. IsACommand(s)'
        BY <1>3, <1>9 DEF IsACommand, Requested
    <2> QED
        BY <1>10, <2>1, <2>2, <2>3, <2>4 DEF SessionInv
<1>11. CASE t # s
    <2>1. SessionInv(t) /\ writer'[t] = writer[t]
        BY <1>3, <1>11 DEF ReportsInv
    <2>2. IsFresh(t)'
        <3> SUFFICES ASSUME InPersist(t)' PROVE IsFresh(t)'
            BY DEF IsFresh
        <3>1. IsFresh(t) /\ InPersist(t) /\ writer[t].attempt # new
            BY <1>5, <1>7, <1>11, <2>1, AttemptsWereMade DEF SessionInv
        <3>2. \A r \in Runs : rows'[RunRow(r)].val # writer'[t].attempt
            BY <1>1, <2>1, <3>1 DEF IsFresh
        <3>3. \A u \in Sessions : u # t /\ InPersist(u)' => writer'[u].attempt # writer'[t].attempt
            BY <1>3, <1>7, <2>1, <3>1 DEF IsFresh
        <3>4. \A u \in Sessions : Reports(u)' => writer'[u].report.run # writer'[t].attempt
            BY <1>3, <1>6, <1>7, <2>1, <3>1 DEF IsFresh
        <3> QED
            BY <3>2, <3>3, <3>4 DEF IsFresh
    <2>3. Now(t)' = Now(t)
        BY <1>1, <1>7, <1>11 DEF Now
    <2>4. IsWhole(t)'
        <3>1. Renders(t) => Now(t)' # 0 /\ Run(t)' \in Runs
            BY <1>7, <1>11, <2>1, <2>3 DEF SessionInv, IsWhole
        <3>2. Reports(t) => writer'[t].report.run \in 1 .. Len(attempts')
            BY <1>4, <1>5, <2>1 DEF SessionInv, IsWhole
        <3>3. Reports(t) => Now(t) \in 1 .. Len(attempts)
            BY <2>1, AttemptsWereMade DEF SessionInv, IsWhole, Now, Renders
        <3> QED
            BY <1>4, <1>7, <1>11, <2>1, <2>3, <3>1, <3>2, <3>3 DEF SessionInv, IsWhole
    <2>5. HasGate(t)'
        <3> SUFFICES ASSUME t \in Gated, writer[t].step # "idle" PROVE HasGate(t)'
            BY <2>1 DEF HasGate
        <3>1. s \notin Gated
            BY <1>1, <1>11, OneRequest
        <3>2. HasGate(t)
            BY <2>1 DEF SessionInv
        <3>3. \A n \in 1 .. Len(attempts') : Requested(n)' => n \in 1 .. Len(attempts) /\ Requested(n)
            BY <1>4, <1>5, <1>8, <1>9, <3>1 DEF Requested
        <3>4. Run(t)' = Run(t)
            BY <1>7, <1>11
        <3> DEFINE mine == writer[t].attempt
        <3>5. writer[t].step \notin {"idle", "execute"} =>
                  /\ mine \in 1 .. Len(attempts)
                  /\ attempts'[mine].run = Run(t)
                  /\ Requested(mine)
                  /\ \A n \in 1 .. Len(attempts') : Requested(n)' => n <= mine
            BY <1>4, <3>2, <3>3 DEF HasGate
        <3>6. writer[t].step \notin {"idle", "execute"} => attempts'[mine].by = "request"
            BY <1>4, <3>5 DEF Requested
        <3>7. writer[t].step \notin {"idle", "execute"} => mine \in 1 .. Len(attempts')
            BY <1>4, <1>5, <3>5
        <3>8. gate' = t
            BY <1>1, <3>2 DEF HasGate
        <3> QED
            BY <2>1, <3>4, <3>5, <3>6, <3>7, <3>8 DEF HasGate, Requested
    <2>6. IsACommand(t)'
        <3> SUFFICES ASSUME t \notin Gated, InPersist(t) PROVE IsACommand(t)'
            BY <1>7, <1>11 DEF IsACommand
        <3>1. ~Requested(writer[t].attempt) /\ writer[t].attempt \in 1 .. Len(attempts)
            BY <2>1, AttemptsWereMade DEF SessionInv, IsACommand
        <3> QED
            BY <1>4, <2>1, <3>1 DEF IsACommand, Requested
    <2>7. IsItsOwn(t)'
        <3>1. OnlyRequests(Run(t))' => OnlyRequests(Run(t))
            BY <1>4, <1>5, <1>7, <1>8, <1>11 DEF OnlyRequests
        <3> QED
            BY <1>7, <1>11, <2>1, <2>3, <3>1 DEF SessionInv, IsItsOwn
    <2> QED
        BY <2>2, <2>4, <2>5, <2>6, <2>7 DEF SessionInv
<1> QED
    BY <1>10, <1>11

LEMMA CommitReports ==
    ASSUME WritersAssumption, ReportsInv, NEW s \in Sessions, Commit(s), NEW t \in Sessions
    PROVE  SessionInv(t)'
<1> DEFINE mine == writer[s].attempt
<1>1. /\ InPersist(s) /\ writer[s].step = "commit" /\ UNCHANGED attempts /\ UNCHANGED gate
      /\ mine \in 1 .. Len(attempts) /\ Run(s) \in Runs
      /\ \A u \in Sessions \ {s} : writer'[u] = writer[u]
      /\ writer'[s].step = "readRun" /\ Run(s)' = Run(s) /\ writer'[s].attempt = mine
    BY CommitStores DEF ReportsInv
<1>2. /\ rows'[RunRow(Run(s))].val = mine
      /\ \A r \in Runs : r # Run(s) => rows'[RunRow(r)].val = rows[RunRow(r)].val
    BY CommitStores DEF ReportsInv
<1> HIDE DEF mine
<1>3. ~InPersist(s)' /\ ~Reports(s)' /\ Renders(s)' /\ ~Renders(s)
    BY <1>1 DEF InPersist, Reports, Renders
<1>4. \A u \in Sessions \ {s} : (InPersist(u)' <=> InPersist(u)) /\ (Reports(u)' <=> Reports(u))
                                 /\ (Renders(u)' <=> Renders(u)) /\ Run(u)' = Run(u)
    BY <1>1 DEF InPersist, Reports, Renders, Run
<1>5. SessionInv(s) /\ SessionInv(t)
    BY DEF ReportsInv
<1>6. CASE t = s
    <2>1. Now(s)' = mine
        BY <1>1, <1>2 DEF Now
    <2>2. IsFresh(s)' /\ IsACommand(s)'
        BY <1>3 DEF IsFresh, IsACommand
    <2>3. IsWhole(s)'
        BY <1>1, <1>3, <2>1 DEF IsWhole
    <2>4. HasGate(s)'
        BY <1>1, <1>5 DEF SessionInv, HasGate, Requested, mine
    <2>5. IsItsOwn(s)'
        BY <1>1, <1>3, <2>1 DEF IsItsOwn
    <2> QED
        BY <1>6, <2>2, <2>3, <2>4, <2>5 DEF SessionInv
<1>7. CASE t # s
    <2>1. writer'[t] = writer[t]
        BY <1>1, <1>7
    <2>2. IsFresh(t)'
        <3> SUFFICES ASSUME InPersist(t) PROVE IsFresh(t)'
            BY <1>4, <1>7 DEF IsFresh
        <3>1. writer[t].attempt # mine
            BY <1>1, <1>5, <1>7 DEF SessionInv, IsFresh, mine
        <3>2. \A r \in Runs : rows'[RunRow(r)].val # writer[t].attempt
            BY <1>2, <1>5, <3>1 DEF SessionInv, IsFresh
        <3>3. \A u \in Sessions : u # t /\ InPersist(u)' => writer'[u].attempt # writer[t].attempt
            BY <1>1, <1>3, <1>4, <1>5 DEF SessionInv, IsFresh
        <3>4. \A u \in Sessions : Reports(u)' => writer'[u].report.run # writer[t].attempt
            BY <1>1, <1>3, <1>4, <1>5 DEF SessionInv, IsFresh
        <3> QED
            BY <2>1, <3>2, <3>3, <3>4 DEF IsFresh
    <2>3. Renders(t) => Run(t) \in Runs /\ Now(t)' # 0 /\ (Run(t) # Run(s) => Now(t)' = Now(t))
        BY <1>1, <1>2, <1>4, <1>5, <1>7 DEF SessionInv, IsWhole, Now
    <2>4. Reports(t) /\ Run(t) = Run(s) => writer[t].report.run # Now(t)'
        BY <1>1, <1>2, <1>4, <1>5, <1>7 DEF SessionInv, IsFresh, Now, mine
    <2>5. IsWhole(t)'
        <3>1. Renders(t)' => Run(t)' \in Runs /\ Now(t)' # 0
            BY <1>4, <1>7, <2>3
        <3>2. Reports(t)' => writer'[t].report.run \in 1 .. Len(attempts')
            BY <1>1, <1>4, <1>5, <1>7, <2>1 DEF SessionInv, IsWhole
        <3>3. Reports(t)' /\ writer'[t].report.run = Now(t)' => Reports(t) /\ Now(t)' = Now(t)
            BY <1>4, <1>7, <2>1, <2>3, <2>4 DEF Renders
        <3> QED
            BY <1>1, <1>5, <2>1, <3>1, <3>2, <3>3 DEF SessionInv, IsWhole
    <2>6. HasGate(t)'
        BY <1>1, <1>4, <1>5, <1>7, <2>1 DEF SessionInv, HasGate, Requested
    <2>7. IsACommand(t)'
        BY <1>1, <1>4, <1>5, <1>7, <2>1 DEF SessionInv, IsACommand, Requested
    <2>8. IsItsOwn(t)'
        <3> SUFFICES ASSUME t \in Gated, Renders(t), OnlyRequests(Run(t))
                     PROVE  IsItsOwn(t)'
            BY <1>1, <1>4, <1>7 DEF IsItsOwn, OnlyRequests, Requested
        <3>1. s \notin Gated
            BY <1>1, <1>7, OneRequest DEF Renders, Reports
        <3>2. ~Requested(mine) /\ attempts[mine].run = Run(s)
            BY <1>1, <1>5, <3>1, InTransaction DEF SessionInv, IsACommand, ReportsInv, Persists, mine
        <3>3. Run(t) # Run(s)
            BY <1>1, <3>2 DEF OnlyRequests
        <3>4. Now(t)' = Now(t)
            BY <2>3, <3>3
        <3> QED
            BY <1>4, <1>5, <1>7, <2>1, <3>4 DEF SessionInv, IsItsOwn
    <2> QED
        BY <2>2, <2>5, <2>6, <2>7, <2>8 DEF SessionInv
<1> QED
    BY <1>6, <1>7

-------------------------------------------------------------------------------
LEMMA GoesQuietly ==
    ASSUME WritersAssumption, WritersInv, NEW s \in Sessions, InPersist(s),
           NEW step \in {"metrics", "findings", "seek", "insert", "update", "addMetrics",
                         "addFindings", "verdicts", "addVerdict", "commit"},
           NEW at, GoTo(s, step, at),
           \A k \in Keys : rows'[k].val = rows[k].val, UNCHANGED <<attempts, gate>>
    PROVE  Quiet(s)
<1>1. /\ writer'[s].step = step /\ writer'[s].attempt = writer[s].attempt /\ Run(s)' = Run(s)
      /\ \A t \in Sessions \ {s} : writer'[t] = writer[t]
    BY DEF GoTo, WritersInv, Typed, Run
<1> QED
    BY <1>1 DEF Quiet, InPersist

LEMMA FailsReleasing ==
    ASSUME WritersInv, NEW s \in Sessions, RollBackRows(s), Leave(s), UNCHANGED attempts
    PROVE  EndedReleasing({s})
BY DEF EndedReleasing, Ended, RollBackRows, Leave, Release, WritersInv, Typed

\* An INSERT goes quietly or ends the session.
LEMMA InsertsQuietly ==
    ASSUME WritersAssumption, WritersInv, NEW s \in Sessions, InPersist(s), NEW k \in Keys,
           NEW step \in {"addMetrics", "addFindings", "verdicts"}, NEW at,
           Insert(s, k, GoTo(s, step, at)), UNCHANGED attempts
    PROVE  Quiet(s) \/ EndedReleasing({s})
<1>1. CASE RollBackRows(s) /\ Leave(s)
    BY <1>1, FailsReleasing
<1>2. CASE Free(s, k) /\ Write(s, k, writer[s].attempt) /\ GoTo(s, step, at) /\ UNCHANGED gate
    <2>1. Typed /\ writer[s].attempt \in Nat
        BY InTransaction
    <2>2. \A j \in Keys : rows'[j].val = rows[j].val
        BY <1>2, <2>1, Writes
    <2> QED
        BY <1>2, <2>2, GoesQuietly
<1> QED
    BY <1>1, <1>2 DEF Insert

LEMMA StatementsGoQuietly ==
    ASSUME WritersAssumption, WritersInv, NEW s \in Sessions,
           \/ DeleteMetrics(s) \/ DeleteFinding(s) \/ SeekRun(s) \/ InsertRun(s) \/ UpdateRun(s)
           \/ InsertMetrics(s) \/ InsertFinding(s) \/ SeekVerdict(s) \/ InsertVerdict(s)
    PROVE  Quiet(s) \/ EndedReleasing({s})
<1>1. InPersist(s) /\ UNCHANGED attempts /\ Typed
    BY DEF DeleteMetrics, DeleteFinding, SeekRun, InsertRun, UpdateRun, InsertMetrics,
           InsertFinding, SeekVerdict, InsertVerdict, InPersist, WritersInv
<1>2. /\ RunRow(Run(s)) \in Keys /\ MetricsRow(Run(s)) \in Keys /\ writer[s].attempt \in Nat
      /\ \A f \in Findings : FindingRow(Run(s), f) \in Keys
    BY <1>1, InTransaction
<1>3. CASE DeleteMetrics(s)
    <2>1. \A j \in Keys : rows'[j].val = rows[j].val
        BY <1>1, <1>2, <1>3, Deletes DEF DeleteMetrics
    <2> QED
        BY <1>1, <1>3, <2>1, GoesQuietly DEF DeleteMetrics, Step
<1>4. CASE DeleteFinding(s)
    <2>1. writer[s].at \in Findings
        BY <1>1, <1>4, InTransaction DEF DeleteFinding, Persists
    <2>2. \A j \in Keys : rows'[j].val = rows[j].val
        BY <1>1, <1>2, <1>4, <2>1, Deletes DEF DeleteFinding, DeleteRow
    <2> QED
        BY <1>1, <1>4, <2>2, GoesQuietly DEF DeleteFinding, Step
<1>5. CASE SeekRun(s)
    BY <1>1, <1>5, GoesQuietly DEF SeekRun, Step
<1>6. CASE UpdateRun(s)
    <2>1. \A j \in Keys : rows'[j].val = rows[j].val
        BY <1>1, <1>2, <1>6, Writes DEF UpdateRun
    <2> QED
        BY <1>1, <1>6, <2>1, GoesQuietly DEF UpdateRun, Step
<1>7. CASE InsertRun(s) \/ InsertMetrics(s)
    BY <1>1, <1>2, <1>7, InsertsQuietly DEF InsertRun, InsertMetrics, Step
<1>8. CASE InsertFinding(s)
    <2>1. Payload(s).findings \subseteq Findings
        BY <1>1, InTransaction DEF Attempt
    <2>2. CASE Step(s, "verdicts") /\ UNCHANGED <<rows, gate>>
        BY <1>1, <2>2, GoesQuietly DEF Step
    <2>3. ASSUME NEW f \in Payload(s).findings,
                 Insert(s, FindingRow(Run(s), f), GoTo(s, "addFindings", f + 1))
          PROVE  Quiet(s) \/ EndedReleasing({s})
        BY <1>1, <1>2, <2>1, <2>3, InsertsQuietly
    <2> QED
        BY <1>8, <2>2, <2>3 DEF InsertFinding
<1>9. CASE SeekVerdict(s)
    BY <1>1, <1>9, GoesQuietly DEF SeekVerdict, Step
<1>10. CASE InsertVerdict(s)
    <2>1. writer[s].at \in 1 .. Len(Payload(s).verdicts) /\ Payload(s) \in Attempt
        BY <1>1, <1>10, InTransaction DEF InsertVerdict, KeepsVerdicts
    <2>2. VerdictRow(Payload(s).verdicts[writer[s].at]) \in Keys
        BY <2>1, KeysAre DEF Attempt
    <2> QED
        BY <1>1, <1>10, <2>2, InsertsQuietly DEF InsertVerdict
<1> QED
    BY <1>3, <1>4, <1>5, <1>6, <1>7, <1>8, <1>9, <1>10

-------------------------------------------------------------------------------
LEMMA WriterStepReports ==
    ASSUME WritersAssumption, ReportsInv, NEW s \in Sessions,
           StartRun(s) \/ GetRun(s) \/ WriterStep(s)
    PROVE  ReportsInv'
<1>1. WritersInv'
    BY WriterStepKeeps DEF ReportsInv
<1>2. ASSUME NEW t \in Sessions PROVE SessionInv(t)'
    <2>1. CASE StartRun(s) \/ GetRun(s) \/ Execute(s) \/ Commit(s)
        BY <2>1, StartRunReports, GetRunReports, ExecuteReports, CommitReports
    <2>2. CASE ExecuteFails(s) \/ Answer(s)
        BY <2>2, LeaveReports
    <2>3. CASE ReadRun(s) \/ ReadMetrics(s) \/ ReadFindings(s)
        BY <2>3, ReadRunReports, ReadMetricsReports, ReadFindingsReports
    <2>4. CASE RollBack(s)
        BY <2>4, FailsReleasing, EndedReports DEF RollBack, ReportsInv
    <2>5. CASE \/ DeleteMetrics(s) \/ DeleteFinding(s) \/ SeekRun(s) \/ InsertRun(s) \/ UpdateRun(s)
               \/ InsertMetrics(s) \/ InsertFinding(s) \/ SeekVerdict(s) \/ InsertVerdict(s)
        BY <2>5, StatementsGoQuietly, QuietReports, EndedReports DEF ReportsInv
    <2> QED
        BY <2>1, <2>2, <2>3, <2>4, <2>5 DEF WriterStep, Statement
<1> QED
    BY <1>1, <1>2 DEF ReportsInv

LEMMA StutterReports ==
    ASSUME WritersAssumption, ReportsInv, UNCHANGED writerVars
    PROVE  ReportsInv'
<1>1. UNCHANGED rows /\ UNCHANGED attempts /\ UNCHANGED writer /\ UNCHANGED gate
    BY DEF writerVars
<1>2. \A s \in Sessions : SessionInv(s)'
    BY <1>1 DEF ReportsInv, SessionInv, IsFresh, IsWhole, HasGate, IsACommand, IsItsOwn, OnlyRequests,
                Now, Renders, Reports, InPersist, Run, Requested
<1> QED
    BY <1>2, StutterKeeps DEF ReportsInv

LEMMA InitReports == WritersAssumption /\ WritersInit => ReportsInv
<1> SUFFICES ASSUME WritersAssumption, WritersInit PROVE ReportsInv
    OBVIOUS
<1>1. \A s \in Sessions : writer[s].step = "idle"
    BY DEF WritersInit, Resting
<1>2. \A s \in Sessions : SessionInv(s)
    BY <1>1 DEF SessionInv, IsFresh, IsWhole, HasGate, IsACommand, IsItsOwn, Renders, Reports, InPersist
<1> QED
    BY <1>2, InitInOrder DEF ReportsInv

-------------------------------------------------------------------------------
\* The invariant gives what is promised of reports and answers.
LEMMA InvReportsAreWhole ==
    ASSUME WritersAssumption, ReportsInv
    PROVE  ReportsAreWhole
<1> SUFFICES ASSUME NEW s \in Sessions, writer[s].step = "answer",
                    writer[s].report.run = rows[RunRow(Run(s))].val
             PROVE  /\ writer[s].report.metrics = writer[s].report.run
                    /\ \A f \in Findings : (writer[s].report.findings[f] # 0) <=>
                                              (f \in attempts[writer[s].report.run].findings)
    BY DEF ReportsAreWhole
<1>1. Reports(s) /\ Renders(s) /\ writer[s].report.run = Now(s)
    BY DEF Reports, Renders, Now
<1>2. IsWhole(s)
    BY DEF ReportsInv, SessionInv
<1> QED
    BY <1>1, <1>2 DEF IsWhole

LEMMA InvAnswersAreTheirOwn ==
    ASSUME WritersAssumption, ReportsInv
    PROVE  AnswersAreTheirOwn
<1> SUFFICES ASSUME NEW s \in Gated, writer[s].step = "answer",
                    \A n \in DOMAIN attempts : attempts[n].run = Run(s) => Requested(n)
             PROVE  /\ writer[s].report.run = writer[s].attempt
                    /\ writer[s].report.metrics = writer[s].attempt
    BY DEF AnswersAreTheirOwn
<1>1. s \in Sessions /\ Reports(s) /\ Renders(s)
    BY DEF Reports, Renders, WritersAssumption
<1>2. OnlyRequests(Run(s))
    BY DEF OnlyRequests, ReportsInv, WritersInv, Typed
<1>3. IsItsOwn(s)
    BY <1>1 DEF ReportsInv, SessionInv
<1> QED
    BY <1>1, <1>2, <1>3 DEF IsItsOwn

\* Only a commit changes what is stored, and a request commits the newest one.
LEMMA KeepsOrder ==
    ASSUME WritersAssumption, ReportsInv, NEW s \in Sessions,
           StartRun(s) \/ GetRun(s) \/ WriterStep(s), NEW r \in Runs,
           rows[RunRow(r)].val # 0, Requested(rows[RunRow(r)].val), Requested(rows'[RunRow(r)].val)
    PROVE  rows[RunRow(r)].val <= rows'[RunRow(r)].val
<1>1. rows[RunRow(r)].val \in 1 .. Len(attempts)
    BY DEF ReportsInv, WritersInv, StoredAttempts, Typed
<1>2. CASE rows'[RunRow(r)].val = rows[RunRow(r)].val
    BY <1>1, <1>2
<1>3. CASE rows'[RunRow(r)].val # rows[RunRow(r)].val
    <2>1. RunRow(r) \in Keys
        BY KeysAre
    <2>2. ~(Quiet(s) \/ EndedReleasing({s}))
        BY <1>3, <2>1 DEF Quiet, EndedReleasing, Ended, Stored, ReportsInv, WritersInv, Typed, Row
    <2>3. Commit(s)
        <3>1. ~(StartRun(s) \/ GetRun(s) \/ Execute(s) \/ ExecuteFails(s) \/ Answer(s)
                \/ ReadRun(s) \/ ReadMetrics(s) \/ ReadFindings(s))
            BY <1>3 DEF StartRun, GetRun, Execute, ExecuteFails, Answer, ReadRun, ReadMetrics, ReadFindings
        <3>2. ~RollBack(s)
            BY <2>2, FailsReleasing DEF RollBack, ReportsInv
        <3>3. ~(\/ DeleteMetrics(s) \/ DeleteFinding(s) \/ SeekRun(s) \/ InsertRun(s) \/ UpdateRun(s)
                \/ InsertMetrics(s) \/ InsertFinding(s) \/ SeekVerdict(s) \/ InsertVerdict(s))
            BY <2>2, StatementsGoQuietly DEF ReportsInv
        <3> QED
            BY <3>1, <3>2, <3>3 DEF WriterStep, Statement
    <2>4. r = Run(s) /\ rows'[RunRow(r)].val = writer[s].attempt /\ InPersist(s)
        BY <1>3, <2>3, CommitStores DEF ReportsInv
    <2>5. s \in Gated
        BY <2>4 DEF ReportsInv, SessionInv, IsACommand
    <2>6. \A n \in 1 .. Len(attempts) : Requested(n) => n <= writer[s].attempt
        BY <2>4, <2>5 DEF ReportsInv, SessionInv, HasGate, InPersist
    <2> QED
        BY <1>1, <2>4, <2>6
<1> QED
    BY <1>2, <1>3

-------------------------------------------------------------------------------
(* Setups.                                                                 *)

Records(p, r) == setup[p].work.ledger[r] # None

\* A revision is recorded by one session at most, and not again.
RecordedOnce ==
    \A r \in Revisions : \A p \in Pods : Records(p, r) =>
        committed.ledger[r] = None /\ \A q \in Pods \ {p} : ~Records(q, r)

LedgerInv ==
    /\ DOMAIN setup = Pods
    /\ \A p \in Pods : DOMAIN setup[p].work.ledger = Revisions
    /\ DOMAIN committed.ledger = Revisions
    /\ RecordedOnce

-------------------------------------------------------------------------------
\* A step of one setup that commits nothing and records no revision.
LEMMA RecordsNoneKeeps ==
    ASSUME LedgerInv, NEW p \in Pods, UNCHANGED committed, DOMAIN setup' = Pods,
           \A q \in Pods \ {p} : setup'[q] = setup[q],
           DOMAIN setup'[p].work.ledger = Revisions,
           \A r \in Revisions : Records(p, r)' => Records(p, r)
    PROVE  LedgerInv'
BY DEF LedgerInv, RecordedOnce, Records

LEMMA FailKeeps ==
    ASSUME LedgerInv, NEW p \in Pods, Fail(p), UNCHANGED committed
    PROVE  LedgerInv'
<1>1. /\ DOMAIN setup' = Pods /\ \A q \in Pods \ {p} : setup'[q] = setup[q]
      /\ setup'[p].work = Nothing
    BY DEF LedgerInv, Fail, Idle
<1>2. DOMAIN setup'[p].work.ledger = Revisions /\ \A r \in Revisions : ~Records(p, r)'
    BY <1>1 DEF Nothing, Written, Records
<1> QED
    BY <1>1, <1>2, RecordsNoneKeeps

LEMMA GotoKeeps ==
    ASSUME LedgerInv, NEW p \in Pods, NEW step, Goto(p, step), UNCHANGED committed
    PROVE  LedgerInv'
<1>1. /\ DOMAIN setup' = Pods /\ \A q \in Pods \ {p} : setup'[q] = setup[q]
      /\ setup'[p].work = setup[p].work
    BY DEF LedgerInv, Goto
<1> QED
    BY <1>1, RecordsNoneKeeps DEF LedgerInv, Records

LEMMA ReadBeforeKeeps ==
    ASSUME LedgerInv, NEW p \in Pods, ReadBefore(p)
    PROVE  LedgerInv'
<1>1. /\ DOMAIN setup' = Pods /\ \A q \in Pods \ {p} : setup'[q] = setup[q]
      /\ setup'[p].work = setup[p].work
    BY DEF LedgerInv, ReadBefore
<1> QED
    BY <1>1, RecordsNoneKeeps DEF ReadBefore, LedgerInv, Records

LEMMA PlanKeeps ==
    ASSUME LedgerInv, NEW p \in Pods, Plan(p)
    PROVE  LedgerInv'
<1>1. CASE Fail(p)
    BY <1>1, FailKeeps DEF Plan
<1>2. CASE ~Fail(p)
    <2>1. /\ DOMAIN setup' = Pods /\ \A q \in Pods \ {p} : setup'[q] = setup[q]
          /\ setup'[p].work = setup[p].work
        BY <1>2 DEF LedgerInv, Plan, Upgrade, Written
    <2> QED
        BY <2>1, RecordsNoneKeeps DEF Plan, LedgerInv, Records
<1> QED
    BY <1>1, <1>2

LEMMA RunBatchKeeps ==
    ASSUME LedgerInv, NEW p \in Pods, RunBatch(p)
    PROVE  LedgerInv'
<1>1. CASE Fail(p)
    BY <1>1, FailKeeps DEF RunBatch
<1>2. CASE ~Fail(p)
    <2>1. /\ DOMAIN setup' = Pods /\ \A q \in Pods \ {p} : setup'[q] = setup[q]
          /\ setup'[p].work.ledger = setup[p].work.ledger
        BY <1>2 DEF LedgerInv, RunBatch, Upgrade, Written
    <2> QED
        BY <2>1, RecordsNoneKeeps DEF RunBatch, LedgerInv, Records
<1> QED
    BY <1>1, <1>2

LEMMA MoveVersionKeeps ==
    ASSUME LedgerInv, NEW p \in Pods, MoveVersion(p)
    PROVE  LedgerInv'
<1>1. CASE Fail(p)
    BY <1>1, FailKeeps DEF MoveVersion
<1>2. CASE ~Fail(p)
    <2>1. /\ DOMAIN setup' = Pods /\ \A q \in Pods \ {p} : setup'[q] = setup[q]
          /\ setup'[p].work.ledger = setup[p].work.ledger
        BY <1>2 DEF LedgerInv, MoveVersion, Upgrade, Written
    <2> QED
        BY <2>1, RecordsNoneKeeps DEF MoveVersion, LedgerInv, Records
<1> QED
    BY <1>1, <1>2

\* A revision is recorded where neither the ledger nor another session has it.
LEMMA RecordRevisionKeeps ==
    ASSUME LedgerInv, NEW p \in Pods, RecordRevision(p)
    PROVE  LedgerInv'
<1> DEFINE r == Head(setup[p].todo)
<1>1. CASE Fail(p)
    BY <1>1, FailKeeps DEF RecordRevision
<1>2. CASE ~Fail(p)
    <2>1. RowFree(p, r) /\ NotRecorded(p, r) /\ UNCHANGED committed
        BY <1>2 DEF RecordRevision
    <2>2. /\ DOMAIN setup' = Pods /\ \A q \in Pods \ {p} : setup'[q] = setup[q]
          /\ DOMAIN setup'[p].work.ledger = Revisions
          /\ \A x \in Revisions \ {r} : setup'[p].work.ledger[x] = setup[p].work.ledger[x]
        BY <1>2 DEF LedgerInv, RecordRevision, Upgrade, Written
    <2> HIDE DEF r
    <2>3. \A x \in Revisions \ {r} : Records(p, x)' <=> Records(p, x)
        BY <2>2 DEF Records
    <2>4. \A q \in Pods \ {p} : \A x \in Revisions : Records(q, x)' <=> Records(q, x)
        BY <2>2 DEF Records
    <2>5. committed.ledger[r] = None /\ \A q \in Pods \ {p} : ~Records(q, r)
        BY <2>1 DEF RowFree, NotRecorded, Records
    <2>6. RecordedOnce'
        BY <2>1, <2>3, <2>4, <2>5 DEF LedgerInv, RecordedOnce
    <2> QED
        BY <2>1, <2>2, <2>6 DEF LedgerInv
<1> QED
    BY <1>1, <1>2

\* A commit adds what its session alone has recorded.
LEMMA CommitAdds ==
    ASSUME LedgerInv, NEW p \in Pods, CommitUpgrade(p)
    PROVE  /\ DOMAIN committed'.ledger = Revisions
           /\ \A r \in Revisions :
                  committed'.ledger[r] = IF Records(p, r) THEN setup[p].work.ledger[r]
                                         ELSE committed.ledger[r]
BY DEF CommitUpgrade, Written, Over, Records, LedgerInv

LEMMA CommitKeepsLedger ==
    ASSUME LedgerInv, NEW p \in Pods, CommitUpgrade(p)
    PROVE  LedgerInv'
<1>1. /\ DOMAIN setup' = Pods /\ \A q \in Pods \ {p} : setup'[q] = setup[q]
      /\ setup'[p].work = Nothing
    BY DEF LedgerInv, CommitUpgrade
<1>2. DOMAIN setup'[p].work.ledger = Revisions /\ \A r \in Revisions : ~Records(p, r)'
    BY <1>1 DEF Nothing, Written, Records
<1>3. \A q \in Pods \ {p} : \A r \in Revisions : Records(q, r)' <=> Records(q, r)
    BY <1>1 DEF Records
<1>4. RecordedOnce'
    BY <1>2, <1>3, CommitAdds DEF LedgerInv, RecordedOnce
<1> QED
    BY <1>1, <1>2, <1>4, CommitAdds DEF LedgerInv

-------------------------------------------------------------------------------
LEMMA MigrationKeeps ==
    ASSUME LedgerInv, NEW p \in Pods, SetupStep(p) \/ Crash(p) \/ RollOut(p)
    PROVE  LedgerInv'
<1>1. CASE FindDatabase(p) \/ Verify(p) \/ ReadAfter(p) \/ Restart(p)
    BY <1>1, GotoKeeps, FailKeeps DEF FindDatabase, Verify, ReadAfter, Restart
<1>2. CASE CreateDatabase(p) \/ Crash(p)
    BY <1>2, GotoKeeps, FailKeeps DEF CreateDatabase, Crash
<1>3. CASE ReadBefore(p) \/ Plan(p) \/ RunBatch(p)
    BY <1>3, ReadBeforeKeeps, PlanKeeps, RunBatchKeeps
<1>4. CASE RecordRevision(p) \/ MoveVersion(p) \/ CommitUpgrade(p)
    BY <1>4, RecordRevisionKeeps, MoveVersionKeeps, CommitKeepsLedger
<1>5. CASE RollOut(p)
    <2>1. /\ DOMAIN setup' = Pods /\ \A q \in Pods \ {p} : setup'[q] = setup[q]
          /\ setup'[p].work = Nothing /\ UNCHANGED committed
        BY <1>5 DEF LedgerInv, RollOut, Idle
    <2>2. DOMAIN setup'[p].work.ledger = Revisions /\ \A r \in Revisions : ~Records(p, r)'
        BY <2>1 DEF Nothing, Written, Records
    <2> QED
        BY <2>1, <2>2, RecordsNoneKeeps
<1> QED
    BY <1>1, <1>2, <1>3, <1>4, <1>5 DEF SetupStep

LEMMA InitLedger == MigrationInit => LedgerInv
BY DEF MigrationInit, Idle, Nothing, Written, LedgerInv, RecordedOnce, Records

\* No step changes or loses a row of the ledger.
LEMMA LedgerStays ==
    ASSUME LedgerInv, NEW p \in Pods, SetupStep(p) \/ Crash(p) \/ RollOut(p), NEW r \in Applied
    PROVE  committed'.ledger[r] = committed.ledger[r]
<1>1. r \in Revisions /\ committed.ledger[r] # None
    BY DEF Applied
<1>2. CASE CommitUpgrade(p)
    BY <1>1, <1>2, CommitAdds DEF LedgerInv, RecordedOnce
<1>3. CASE ~CommitUpgrade(p)
    BY <1>3 DEF SetupStep, FindDatabase, CreateDatabase, ReadBefore, Verify, Plan, RunBatch,
                RecordRevision, MoveVersion, ReadAfter, Restart, Crash, RollOut
<1> QED
    BY <1>2, <1>3

-------------------------------------------------------------------------------
\* Of finite sets, one has no other of them among its subsets.
LEMMA SmallestSet ==
    ASSUME NEW C, C # {}, \A T \in C : IsFiniteSet(T)
    PROVE  \E T \in C : \A U \in C : U \subseteq T => U = T
<1> DEFINE S == UNION C
           R == StrictSubsetOrdering(S)
           F == FiniteSubsetsOf(S)
<1>1. IsWellFoundedOn(R, F)
    BY FS_StrictSubsetOrderingWellFounded
<1>2. C \subseteq F
    BY DEF FiniteSubsetsOf
<1> HIDE DEF R, F
<1>3. PICK T \in C : \A U \in C : ~ (<<U, T>> \in R)
    BY <1>1, <1>2, WFMin
<1>4. \A U \in C : U \subseteq T => U = T
    BY <1>3 DEF R, StrictSubsetOrdering
<1> QED
    BY <1>4

\* A set of naturals has a least one: the induction of this module.
LEMMA LeastOf ==
    ASSUME NEW T \in SUBSET Nat, T # {}
    PROVE  \E n \in T : \A m \in T : n <= m
<1> DEFINE C == {0 .. n : n \in T}
<1>1. C # {}
    OBVIOUS
<1>2. ASSUME NEW U \in C PROVE IsFiniteSet(U)
    <2>1. PICK n \in T : U = 0 .. n
        OBVIOUS
    <2>2. n \in Int /\ 0 \in Int
        OBVIOUS
    <2> QED
        BY <2>1, <2>2, FS_Interval
<1> HIDE DEF C
<1>3. \A U \in C : IsFiniteSet(U)
    BY <1>2
<1>4. PICK U \in C : \A V \in C : V \subseteq U => V = U
    BY <1>1, <1>3, SmallestSet
<1>5. PICK n \in T : U = 0 .. n
    BY <1>4 DEF C
<1>6. ASSUME NEW m \in T, m < n PROVE FALSE
    <2>1. 0 .. m \in C
        BY DEF C
    <2>2. 0 .. m \subseteq 0 .. n /\ n \notin 0 .. m /\ n \in 0 .. n
        BY <1>6
    <2> QED
        BY <2>1, <2>2, <1>4, <1>5
<1> QED
    BY <1>6

LEMMA GreatestOf ==
    ASSUME NEW n \in Nat, NEW T \in SUBSET (1 .. n), T # {}
    PROVE  \E m \in T : \A k \in T : k <= m
<1> DEFINE U == {k \in 0 .. n : n - k \in T}
<1>1. U \in SUBSET Nat
    OBVIOUS
<1>2. PICK t \in T : TRUE
    OBVIOUS
<1>3. n - t \in U
    BY n - (n - t) = t
<1>4. PICK k \in U : \A l \in U : k <= l
    BY <1>1, <1>3, LeastOf
<1>5. ASSUME NEW m \in T PROVE m <= n - k
    <2>1. n - m \in U
        BY n - (n - m) = m
    <2>2. k <= n - m
        BY <1>4, <2>1
    <2> QED
        BY <2>2
<1> QED
    BY <1>4, <1>5

-------------------------------------------------------------------------------
Size(files) == Cardinality(DOMAIN files)

\* What Alembic takes an image's history to be.
LEMMA HistoryIs ==
    ASSUME NEW i \in Images, Histories(i) # {}
    PROVE  /\ Size(i) \in Nat
           /\ History(i) \in [1 .. Size(i) -> DOMAIN i]
           /\ \A r \in DOMAIN i : \E n \in 1 .. Size(i) : History(i)[n] = r
           /\ \A n \in 1 .. Size(i) :
                  i[History(i)[n]].down = IF n = 1 THEN None ELSE History(i)[n - 1]
<1>1. IsFiniteSet(DOMAIN i)
    BY MigrationAssumption
<1>2. Size(i) \in Nat
    BY <1>1, FS_CardinalityType DEF Size
<1>3. History(i) \in Histories(i)
    BY DEF History
<1> QED
    BY <1>2, <1>3 DEF Histories, Size

LEMMA RevisionsAre ==
    ASSUME NEW i \in Images, NEW r \in DOMAIN i
    PROVE  /\ r \in Revisions /\ r # None
           /\ i[r].text \in Texts /\ i[r].text # None
           /\ \A b \in DOMAIN i[r].batches : i[r].batches[b].object \in Objects
<1>1. r \in Revisions /\ i[r] \in Scripts
    BY DEF Revisions, Scripts
<1>2. i[r].text \in Texts /\ \A b \in DOMAIN i[r].batches : i[r].batches[b].object \in Objects
    BY <1>1 DEF Texts, Objects
<1> QED
    BY <1>1, <1>2, MigrationAssumption

\* Up to a revision that two images share, their histories are the same.
LEMMA SharedHistory ==
    ASSUME SamePlaces,
           NEW i \in Images, Histories(i) # {}, NEW j \in Images, Histories(j) # {},
           NEW m \in 1 .. Size(i), NEW n \in 1 .. Size(j), History(i)[m] = History(j)[n]
    PROVE  m = n /\ \A k \in 1 .. n : History(i)[k] = History(j)[k]
<1> DEFINE hi == History(i)
           hj == History(j)
           Same(d) == d < m /\ d < n /\ hi[m - d] = hj[n - d]
           Differ == {d \in Nat : d < n /\ ~Same(d)}
<1>1. /\ Size(i) \in Nat /\ Size(j) \in Nat
      /\ hi \in [1 .. Size(i) -> DOMAIN i] /\ hj \in [1 .. Size(j) -> DOMAIN j]
      /\ \A k \in 1 .. Size(i) : i[hi[k]].down = IF k = 1 THEN None ELSE hi[k - 1]
      /\ \A k \in 1 .. Size(j) : j[hj[k]].down = IF k = 1 THEN None ELSE hj[k - 1]
    BY HistoryIs
<1> HIDE DEF hi, hj
<1>2. hi[m] = hj[n]
    BY DEF hi, hj
<1>3. ASSUME NEW d \in Nat, Same(d)
      PROVE  (d + 1 = m <=> d + 1 = n) /\ (d + 1 < n => Same(d + 1))
    <2>1. m - d \in 1 .. Size(i) /\ n - d \in 1 .. Size(j) /\ hi[m - d] = hj[n - d]
        BY <1>1, <1>3
    <2>2. hi[m - d] \in DOMAIN i \cap DOMAIN j
        BY <1>1, <2>1
    <2>3. i[hi[m - d]].down = j[hj[n - d]].down
        BY <2>1, <2>2 DEF SamePlaces
    <2>4. (m - d = 1) <=> (n - d = 1)
        <3>1. m - d # 1 => hi[m - d - 1] # None
            <4>1. m - d # 1 => m - d - 1 \in 1 .. Size(i)
                BY <2>1, <1>1
            <4> QED
                BY <4>1, <1>1, RevisionsAre
        <3>2. n - d # 1 => hj[n - d - 1] # None
            <4>1. n - d # 1 => n - d - 1 \in 1 .. Size(j)
                BY <2>1, <1>1
            <4> QED
                BY <4>1, <1>1, RevisionsAre
        <3> QED
            BY <1>1, <2>1, <2>3, <3>1, <3>2
    <2>5. n - d # 1 => hi[m - d - 1] = hj[n - d - 1]
        BY <1>1, <2>1, <2>3, <2>4
    <2>6. m - d - 1 = m - (d + 1) /\ n - d - 1 = n - (d + 1)
        BY <1>1
    <2> QED
        BY <1>1, <1>3, <2>4, <2>5, <2>6
<1>4. Differ = {}
    <2> SUFFICES ASSUME Differ # {} PROVE FALSE
        OBVIOUS
    <2>1. PICK d \in Differ : \A e \in Differ : d <= e
        BY LeastOf
    <2>2. d # 0
        BY <1>2, <1>1
    <2>3. d \in Nat /\ d < n /\ ~Same(d)
        BY <2>1
    <2>4. d - 1 \in Nat /\ d - 1 < n /\ (d - 1) + 1 = d
        BY <2>2, <2>3, <1>1
    <2> HIDE DEF Same
    <2>5. Same(d - 1)
        <3>1. d - 1 \notin Differ
            BY <2>1, <2>3, <2>4
        <3> QED
            BY <2>4, <3>1
    <2> QED
        BY <1>3, <2>3, <2>4, <2>5
<1> HIDE DEF Same
<1>5. \A d \in Nat : d < n => Same(d)
    BY <1>4
<1>6. m = n
    <2>1. n - 1 \in Nat /\ n - 1 < n /\ (n - 1) + 1 = n
        BY <1>1
    <2>2. Same(n - 1)
        BY <1>5, <2>1
    <2> QED
        BY <1>3, <2>1, <2>2
<1>7. ASSUME NEW k \in 1 .. n PROVE hi[k] = hj[k]
    <2>1. n - k \in Nat /\ n - k < n /\ n - (n - k) = k
        BY <1>1
    <2>2. Same(n - k)
        BY <1>5, <2>1
    <2> QED
        BY <2>1, <2>2, <1>6 DEF Same
<1> QED
    BY <1>6, <1>7 DEF hi, hj

\* The last maker is the one whose text stays.
LEMMA MadeByLast ==
    ASSUME NEW files, NEW places \in SUBSET Nat, NEW o, NEW n \in Makers(files, places, o),
           \A k \in Makers(files, places, o) : k <= n
    PROVE  MadeBy(files, places, o) = files[History(files)[n]].text
<1> DEFINE M == Makers(files, places, o)
           c == CHOOSE x \in M : \A k \in M : k <= x
<1>1. M \in SUBSET Nat
    BY DEF Makers
<1>2. c \in M /\ \A k \in M : k <= c
    OBVIOUS
<1>3. c = n
    BY <1>1, <1>2
<1> HIDE DEF c
<1> QED
    BY <1>3 DEF MadeBy, c

LEMMA MadeByNone ==
    ASSUME NEW files, NEW places, NEW o, Makers(files, places, o) = {}
    PROVE  MadeBy(files, places, o) = None
BY DEF MadeBy

LEMMA MadeBySame ==
    ASSUME NEW files, NEW here, NEW there, NEW o, Makers(files, here, o) = Makers(files, there, o)
    PROVE  MadeBy(files, here, o) = MadeBy(files, there, o)
<1> DEFINE Of(makers) ==
        IF makers = {} THEN None
        ELSE files[History(files)[CHOOSE n \in makers : \A k \in makers : k <= n]].text
<1>1. \A places : MadeBy(files, places, o) = Of(Makers(files, places, o))
    BY DEF MadeBy
<1> HIDE DEF Of
<1> QED
    BY <1>1

\* Of places up to n, there is a last maker or none.
LEMMA MadeByIs ==
    ASSUME NEW files, NEW n \in Nat, NEW places \in SUBSET (1 .. n), NEW o,
           Makers(files, places, o) # {}
    PROVE  \E m \in Makers(files, places, o) :
               /\ \A k \in Makers(files, places, o) : k <= m
               /\ MadeBy(files, places, o) = files[History(files)[m]].text
<1>1. Makers(files, places, o) \in SUBSET (1 .. n)
    BY DEF Makers
<1>2. places \in SUBSET Nat
    OBVIOUS
<1>3. PICK m \in Makers(files, places, o) : \A k \in Makers(files, places, o) : k <= m
    BY <1>1, GreatestOf
<1> QED
    BY <1>2, <1>3, MadeByLast

\* One revision more.
LEMMA MadeByNext ==
    ASSUME NEW files, NEW k \in Nat, NEW m \in Nat, k <= m, NEW o
    PROVE  MadeBy(files, k + 1 .. m + 1, o) =
               IF Makes(files[History(files)[m + 1]], o) THEN files[History(files)[m + 1]].text
               ELSE MadeBy(files, k + 1 .. m, o)
<1>1. CASE Makes(files[History(files)[m + 1]], o)
    <2>1. m + 1 \in Makers(files, k + 1 .. m + 1, o)
        BY <1>1 DEF Makers
    <2>2. \A x \in Makers(files, k + 1 .. m + 1, o) : x <= m + 1
        BY DEF Makers
    <2>3. k + 1 .. m + 1 \in SUBSET Nat
        OBVIOUS
    <2> QED
        BY <1>1, <2>1, <2>2, <2>3, MadeByLast
<1>2. CASE ~Makes(files[History(files)[m + 1]], o)
    <2>1. Makers(files, k + 1 .. m + 1, o) = Makers(files, k + 1 .. m, o)
        BY <1>2 DEF Makers
    <2>2. MadeBy(files, k + 1 .. m + 1, o) = MadeBy(files, k + 1 .. m, o)
        BY <2>1, MadeBySame
    <2> QED
        BY <1>2, <2>2
<1> QED
    BY <1>1, <1>2

\* What later revisions have not made is as the earlier ones left it.
LEMMA MadeBySplit ==
    ASSUME NEW i \in Images, Histories(i) # {},
           NEW k \in Nat, NEW m \in k .. Size(i), NEW o
    PROVE  MadeBy(i, 1 .. m, o) = IF MadeBy(i, k + 1 .. m, o) # None THEN MadeBy(i, k + 1 .. m, o)
                                  ELSE MadeBy(i, 1 .. k, o)
<1>1. Size(i) \in Nat /\ History(i) \in [1 .. Size(i) -> DOMAIN i]
    BY HistoryIs
<1>2. m \in Nat /\ m <= Size(i)
    BY <1>1
<1>3. \A x \in 1 .. m : i[History(i)[x]].text # None
    <2>1. \A x \in 1 .. m : History(i)[x] \in DOMAIN i
        BY <1>2, <1>1
    <2> QED
        BY <2>1, RevisionsAre
<1>4. CASE Makers(i, k + 1 .. m, o) # {}
    <2>1. k + 1 .. m \in SUBSET (1 .. m) /\ 1 .. m \in SUBSET Nat
        BY <1>2
    <2>2. PICK x \in Makers(i, k + 1 .. m, o) :
              /\ \A y \in Makers(i, k + 1 .. m, o) : y <= x
              /\ MadeBy(i, k + 1 .. m, o) = i[History(i)[x]].text
        BY <1>2, <1>4, <2>1, MadeByIs
    <2>3. x \in Makers(i, 1 .. m, o) /\ \A y \in Makers(i, 1 .. m, o) : y <= x
        BY <1>2, <2>2 DEF Makers
    <2>4. MadeBy(i, 1 .. m, o) = i[History(i)[x]].text
        BY <2>1, <2>3, MadeByLast
    <2>5. x \in 1 .. m
        BY <2>3 DEF Makers
    <2> QED
        BY <1>3, <2>2, <2>4, <2>5
<1>5. CASE Makers(i, k + 1 .. m, o) = {}
    <2>1. Makers(i, 1 .. m, o) = Makers(i, 1 .. k, o)
        BY <1>2, <1>5 DEF Makers
    <2>2. MadeBy(i, k + 1 .. m, o) = None
        BY <1>5, MadeByNone
    <2>3. MadeBy(i, 1 .. m, o) = MadeBy(i, 1 .. k, o)
        BY <2>1, MadeBySame
    <2> QED
        BY <2>2, <2>3
<1> QED
    BY <1>4, <1>5

\* Histories that are the same so far, of the same scripts, have made the same.
LEMMA MadeByShared ==
    ASSUME NEW i, NEW j, NEW n \in Nat, NEW o,
           \A k \in 1 .. n : History(i)[k] = History(j)[k] /\ i[History(i)[k]] = j[History(i)[k]]
    PROVE  MadeBy(i, 1 .. n, o) = MadeBy(j, 1 .. n, o)
<1>1. Makers(i, 1 .. n, o) = Makers(j, 1 .. n, o)
    BY DEF Makers
<1>2. CASE Makers(i, 1 .. n, o) = {}
    BY <1>1, <1>2, MadeByNone
<1>3. CASE Makers(i, 1 .. n, o) # {}
    <2>1. PICK m \in Makers(i, 1 .. n, o) :
              /\ \A k \in Makers(i, 1 .. n, o) : k <= m
              /\ MadeBy(i, 1 .. n, o) = i[History(i)[m]].text
        BY <1>3, MadeByIs
    <2>2. MadeBy(j, 1 .. n, o) = j[History(j)[m]].text
        BY <1>1, <2>1, MadeByLast
    <2>3. m \in 1 .. n
        BY DEF Makers
    <2> QED
        BY <2>1, <2>2, <2>3
<1> QED
    BY <1>2, <1>3

SetupSteps == {"find", "create", "before", "verify", "plan", "batch", "record", "version", "commit",
          "after", "done", "failed"}
TextOrNone == Texts \cup {None}
Works == [ledger : [Revisions -> TextOrNone], version : Revisions \cup {None},
          objects : [Objects -> TextOrNone]]
Setups == [step : SetupSteps, todo : Seq(Revisions), at : Nat, work : Works,
           seen : Revisions \cup {None}, before : SUBSET Revisions]

\* The ledger, version and objects that revisions k + 1 to m of an image write, and the
\* first b batches of the next one.
Recorded(files, k, m) ==
    [r \in Revisions |-> IF \E x \in k + 1 .. m : History(files)[x] = r THEN files[r].text
                         ELSE None]
MovedTo(files, k, m) == IF m = k THEN None ELSE History(files)[m]
MakesUpTo(script, b, o) == \E c \in DOMAIN script.batches : c <= b /\ script.batches[c].object = o
Coming(files, m) == files[History(files)[m + 1]]
Made(files, k, m, b) ==
    [o \in Objects |-> IF m < Size(files) /\ MakesUpTo(Coming(files, m), b, o)
                       THEN Coming(files, m).text ELSE MadeBy(files, k + 1 .. m, o)]

\* An upgrade of a database that k revisions have made, at batch b + 1 of revision m + 1.
Stands(files, s, k, m, b) ==
    /\ Histories(files) # {}
    /\ k \in Nat /\ m \in Nat /\ b \in Nat /\ k <= m /\ m <= Size(files)
    /\ s.seen = MovedTo(files, 0, k)
    /\ Len(s.todo) = Size(files) - m
    /\ \A x \in 1 .. Size(files) - m : s.todo[x] = History(files)[m + x]
    /\ s.step = "commit" <=> m = Size(files)
    /\ s.step = "batch" => s.at = b + 1 /\ s.at \in DOMAIN Coming(files, m).batches
    /\ s.step \in {"record", "version"} => b = Len(Coming(files, m).batches)
    /\ s.work.ledger = Recorded(files, k, IF s.step = "version" THEN m + 1 ELSE m)
    /\ s.work.version = MovedTo(files, k, m)
    /\ s.work.objects = Made(files, k, m, b)

Upgrading(s) == s.step \in {"batch", "record", "version", "commit"}

Progress(files, s) ==
    IF Upgrading(s) THEN \E k, m, b \in Nat : Stands(files, s, k, m, b) ELSE s.work = Nothing

-------------------------------------------------------------------------------
LEMMA NothingIsTyped == Nothing \in Works
BY DEF Nothing, Written, Works, TextOrNone

\* The revision that an upgrade is at.
LEMMA RunningIs ==
    ASSUME NEW i \in Images, NEW s \in Setups, NEW k, NEW m, NEW b,
           Stands(i, s, k, m, b), s.step # "commit"
    PROVE  /\ Size(i) \in Nat /\ m \in Nat /\ m + 1 \in 1 .. Size(i) /\ m < Size(i)
           /\ Head(s.todo) = History(i)[m + 1]
           /\ History(i)[m + 1] \in DOMAIN i
           /\ Len(Coming(i, m).batches) \in Nat \ {0}
           /\ DOMAIN Coming(i, m).batches = 1 .. Len(Coming(i, m).batches)
           /\ \A c \in DOMAIN Coming(i, m).batches : Coming(i, m).batches[c].object \in Objects
           /\ Coming(i, m).text \in Texts /\ Coming(i, m).text # None
<1>1. Size(i) \in Nat /\ History(i) \in [1 .. Size(i) -> DOMAIN i]
    BY HistoryIs DEF Stands
<1>2. m \in Nat /\ m + 1 \in 1 .. Size(i) /\ Len(s.todo) = Size(i) - m
    BY <1>1 DEF Stands
<1>3. s.todo \in Seq(Revisions)
    BY DEF Setups
<1>4. Head(s.todo) = s.todo[1]
    BY <1>1, <1>2, <1>3
<1>5. s.todo[1] = History(i)[m + 1]
    BY <1>1, <1>2 DEF Stands
<1>6. History(i)[m + 1] \in DOMAIN i
    BY <1>1, <1>2
<1>7. Coming(i, m).batches \in Seq([object : Objects, again : BOOLEAN]) \ {<<>>}
    BY <1>6, MigrationAssumption DEF Coming
<1>8. /\ Len(Coming(i, m).batches) \in Nat \ {0}
      /\ DOMAIN Coming(i, m).batches = 1 .. Len(Coming(i, m).batches)
    BY <1>7
<1>9. \A c \in DOMAIN Coming(i, m).batches : Coming(i, m).batches[c].object \in Objects
    BY <1>6, RevisionsAre DEF Coming
<1>10. Coming(i, m).text \in Texts /\ Coming(i, m).text # None
    BY <1>6, RevisionsAre DEF Coming
<1> QED
    BY <1>1, <1>2, <1>4, <1>5, <1>6, <1>8, <1>9, <1>10

\* Another batch of it.
LEMMA BatchStands ==
    ASSUME NEW i \in Images, NEW s \in Setups, NEW k, NEW m, NEW b,
           Stands(i, s, k, m, b), s.step = "batch", NEW t \in Setups,
           t.todo = s.todo, t.seen = s.seen,
           IF s.at = Len(Coming(i, m).batches) THEN t.step = "record"
           ELSE t.step = "batch" /\ t.at = s.at + 1,
           t.work = Written(s.work.ledger, s.work.version,
                            [s.work.objects EXCEPT ![Coming(i, m).batches[s.at].object] =
                                 Coming(i, m).text])
    PROVE  Stands(i, t, k, m, b + 1)
<1> DEFINE script == Coming(i, m)
<1>1. s.step # "commit"
    OBVIOUS
<1>2. /\ m < Size(i) /\ Len(script.batches) \in Nat \ {0}
      /\ DOMAIN script.batches = 1 .. Len(script.batches)
    BY <1>1, RunningIs
<1>3. b \in Nat /\ m \in Nat /\ s.at = b + 1 /\ s.at \in DOMAIN script.batches
    BY DEF Stands
<1>4. \A o \in Objects : MakesUpTo(script, b + 1, o)
                             <=> MakesUpTo(script, b, o) \/ script.batches[s.at].object = o
    BY <1>2, <1>3 DEF MakesUpTo
<1>5. t.work.objects = [s.work.objects EXCEPT ![script.batches[s.at].object] = script.text]
      /\ t.work.ledger = s.work.ledger /\ t.work.version = s.work.version
    BY DEF Written
<1>6. s.work.objects = Made(i, k, m, b) /\ m < Size(i)
    BY <1>2 DEF Stands
<1> HIDE DEF script
<1>7. t.work.objects = [o \in Objects |-> IF script.batches[s.at].object = o THEN script.text
                                          ELSE Made(i, k, m, b)[o]]
    BY <1>5, <1>6 DEF Made
<1>8. t.work.objects = Made(i, k, m, b + 1)
    BY <1>4, <1>6, <1>7 DEF Made, script
<1>9. t.step = "batch" => t.at = (b + 1) + 1 /\ t.at \in DOMAIN script.batches
    BY <1>2, <1>3 DEF script
<1>10. t.step \in {"record", "version"} => b + 1 = Len(script.batches)
    BY <1>2, <1>3 DEF script
<1> QED
    BY <1>3, <1>5, <1>8, <1>9, <1>10 DEF Stands, script

\* Its row in the ledger.
LEMMA RecordStands ==
    ASSUME NEW i \in Images, NEW s \in Setups, NEW k, NEW m, NEW b,
           Stands(i, s, k, m, b), s.step = "record", NEW t \in Setups,
           t.todo = s.todo, t.seen = s.seen, t.step = "version",
           t.work = Written([s.work.ledger EXCEPT ![Head(s.todo)] = Coming(i, m).text],
                            s.work.version, s.work.objects)
    PROVE  Stands(i, t, k, m, b)
<1>1. /\ m + 1 \in 1 .. Size(i) /\ Head(s.todo) = History(i)[m + 1]
      /\ Coming(i, m) = i[History(i)[m + 1]]
    BY RunningIs DEF Coming
<1>2. s.step # "version"
    OBVIOUS
<1>3. k \in Nat /\ m \in Nat /\ k <= m /\ s.work.ledger = Recorded(i, k, m)
    BY <1>2 DEF Stands
<1>4. t.work.ledger = [s.work.ledger EXCEPT ![Head(s.todo)] = Coming(i, m).text]
    BY DEF Written
<1>5. \A r : (\E x \in k + 1 .. m + 1 : History(i)[x] = r)
                 <=> (\E x \in k + 1 .. m : History(i)[x] = r) \/ r = History(i)[m + 1]
    BY <1>3
<1>6. History(i)[m + 1] \in Revisions
    BY <1>2, RunningIs, RevisionsAre
<1>7. t.work.ledger = Recorded(i, k, m + 1)
    <2>1. DOMAIN s.work.ledger = Revisions
        BY <1>3 DEF Recorded
    <2>2. t.work.ledger = [r \in Revisions |-> IF r = History(i)[m + 1] THEN Coming(i, m).text
                                               ELSE s.work.ledger[r]]
        BY <1>1, <1>4, <2>1
    <2>3. \A r \in Revisions : t.work.ledger[r] = IF r = History(i)[m + 1] THEN i[r].text
                                                  ELSE Recorded(i, k, m)[r]
        BY <1>1, <1>3, <2>2
    <2>4. \A r \in Revisions : t.work.ledger[r] = Recorded(i, k, m + 1)[r]
        BY <1>5, <2>3 DEF Recorded
    <2> QED
        BY <2>2, <2>4 DEF Recorded
<1>8. t.work.version = s.work.version /\ t.work.objects = s.work.objects
    BY DEF Written
<1> QED
    BY <1>7, <1>8 DEF Stands

\* The version, after which comes the next revision or the commit.
LEMMA MoveStands ==
    ASSUME NEW i \in Images, NEW s \in Setups, NEW k, NEW m, NEW b,
           Stands(i, s, k, m, b), s.step = "version", NEW t \in Setups,
           t.todo = Tail(s.todo), t.seen = s.seen, t.at = 1,
           t.step = IF Len(s.todo) = 1 THEN "commit" ELSE "batch",
           t.work = Written(s.work.ledger, Head(s.todo), s.work.objects)
    PROVE  Stands(i, t, k, m + 1, 0)
<1>1. /\ m + 1 \in 1 .. Size(i) /\ Head(s.todo) = History(i)[m + 1]
      /\ DOMAIN Coming(i, m).batches = 1 .. Len(Coming(i, m).batches)
    BY RunningIs
<1>2. Histories(i) # {}
    BY DEF Stands
<1>3. Size(i) \in Nat /\ History(i) \in [1 .. Size(i) -> DOMAIN i]
    BY <1>2, HistoryIs
<1>4. k \in Nat /\ m \in Nat /\ k <= m /\ b = Len(Coming(i, m).batches)
    BY DEF Stands
<1>5. s.todo \in Seq(Revisions) /\ Len(s.todo) = Size(i) - m
    BY DEF Setups, Stands
<1>6. Len(t.todo) = Size(i) - (m + 1) /\ \A x \in 1 .. Size(i) - (m + 1) : t.todo[x] = s.todo[x + 1]
    BY <1>1, <1>3, <1>4, <1>5
<1>7. \A x \in 1 .. Size(i) - (m + 1) : t.todo[x] = History(i)[(m + 1) + x]
    <2>1. \A x \in 1 .. Size(i) - (m + 1) : x + 1 \in 1 .. Size(i) - m /\ m + (x + 1) = (m + 1) + x
        BY <1>3, <1>4
    <2> QED
        BY <1>6, <2>1 DEF Stands
<1>8. t.step = "commit" <=> m + 1 = Size(i)
    BY <1>3, <1>4, <1>5
<1>9. t.step = "batch" => t.at = 0 + 1 /\ t.at \in DOMAIN Coming(i, m + 1).batches
    <2>1. ASSUME t.step = "batch" PROVE 1 \in DOMAIN Coming(i, m + 1).batches
        <3>1. (m + 1) + 1 \in 1 .. Size(i)
            BY <1>1, <1>3, <1>4, <1>8, <2>1
        <3>2. History(i)[(m + 1) + 1] \in DOMAIN i
            BY <1>3, <3>1
        <3>3. Coming(i, m + 1).batches \in Seq([object : Objects, again : BOOLEAN]) \ {<<>>}
            BY <3>2, MigrationAssumption DEF Coming
        <3> QED
            BY <3>3
    <2> QED
        BY <2>1
<1>10. t.work.ledger = Recorded(i, k, m + 1) /\ t.work.objects = Made(i, k, m, b)
    BY DEF Stands, Written
<1>11. t.work.version = MovedTo(i, k, m + 1)
    BY <1>1, <1>4 DEF MovedTo, Written
<1>12. Made(i, k, m, b) = Made(i, k, m + 1, 0)
    <2>1. \A o \in Objects : MakesUpTo(Coming(i, m), b, o) <=> Makes(Coming(i, m), o)
        BY <1>1, <1>4 DEF MakesUpTo, Makes
    <2>2. \A o \in Objects : m + 1 < Size(i) => ~MakesUpTo(Coming(i, m + 1), 0, o)
        <3>1. ASSUME m + 1 < Size(i) PROVE DOMAIN Coming(i, m + 1).batches \in SUBSET (Nat \ {0})
            <4>1. (m + 1) + 1 \in 1 .. Size(i)
                BY <3>1, <1>3, <1>4
            <4>2. History(i)[(m + 1) + 1] \in DOMAIN i
                BY <1>3, <4>1
            <4>3. Coming(i, m + 1).batches \in Seq([object : Objects, again : BOOLEAN])
                BY <4>2, MigrationAssumption DEF Coming
            <4> QED
                BY <4>3
        <3> QED
            BY <3>1 DEF MakesUpTo
    <2>3. \A o \in Objects : MadeBy(i, k + 1 .. m + 1, o) =
              IF Makes(Coming(i, m), o) THEN Coming(i, m).text ELSE MadeBy(i, k + 1 .. m, o)
        BY <1>4, MadeByNext DEF Coming
    <2>4. m < Size(i)
        BY <1>1, <1>3, <1>4
    <2> QED
        BY <2>1, <2>2, <2>3, <2>4 DEF Made
<1>13. t.step \notin {"record", "version"}
    OBVIOUS
<1>14. m + 1 \in Nat /\ 0 \in Nat /\ k <= m + 1 /\ m + 1 <= Size(i)
    BY <1>1, <1>3, <1>4
<1> QED
    BY <1>2, <1>4, <1>6, <1>7, <1>8, <1>9, <1>10, <1>11, <1>12, <1>13, <1>14 DEF Stands

LEMMA PositionIs ==
    ASSUME NEW i \in Images, Histories(i) # {},
           NEW v \in DOMAIN i \cup {None}
    PROVE  /\ Position(i, v) \in 0 .. Size(i)
           /\ v = MovedTo(i, 0, Position(i, v))
<1>1. /\ Size(i) \in Nat /\ DOMAIN History(i) = 1 .. Size(i)
      /\ \A r \in DOMAIN i : \E n \in 1 .. Size(i) : History(i)[n] = r
    BY HistoryIs
<1>2. CASE v = None
    BY <1>1, <1>2 DEF Position, MovedTo
<1>3. CASE v # None
    <2>1. \E n \in DOMAIN History(i) : History(i)[n] = v
        BY <1>1, <1>3
    <2>2. Position(i, v) \in 1 .. Size(i) /\ History(i)[Position(i, v)] = v
        BY <1>1, <1>3, <2>1 DEF Position
    <2> QED
        BY <1>1, <2>2 DEF MovedTo
<1> QED
    BY <1>2, <1>3

\* Nothing is written yet.
LEMMA NothingWritten ==
    ASSUME NEW i, NEW k \in Nat, Size(i) \in Nat,
           k < Size(i) => DOMAIN Coming(i, k).batches \in SUBSET (Nat \ {0})
    PROVE  /\ Nothing.ledger = Recorded(i, k, k)
           /\ Nothing.version = MovedTo(i, k, k)
           /\ Nothing.objects = Made(i, k, k, 0)
<1>1. Nothing.ledger = Recorded(i, k, k) /\ Nothing.version = MovedTo(i, k, k)
    BY DEF Nothing, Written, Recorded, MovedTo
<1>2. \A o : MadeBy(i, k + 1 .. k, o) = None
    BY MadeByNone DEF Makers
<1>3. k < Size(i) => \A o : ~MakesUpTo(Coming(i, k), 0, o)
    BY DEF MakesUpTo
<1>4. Nothing.objects = Made(i, k, k, 0)
    BY <1>2, <1>3 DEF Nothing, Written, Made
<1> QED
    BY <1>1, <1>4

\* A plan is where the database is.
LEMMA PlanStands ==
    ASSUME NEW i \in Images, NEW v, CanUpgrade(i, v), NEW t \in Setups,
           t.todo = Missing(i, v), t.seen = v, t.at = 1, t.work = Nothing,
           t.step = IF Missing(i, v) = <<>> THEN "commit" ELSE "batch"
    PROVE  Stands(i, t, Position(i, v), Position(i, v), 0)
<1> DEFINE k == Position(i, v)
<1>1. Histories(i) # {} /\ v \in DOMAIN i \cup {None}
    BY DEF CanUpgrade
<1>2. /\ Size(i) \in Nat /\ History(i) \in [1 .. Size(i) -> DOMAIN i]
      /\ k \in 0 .. Size(i) /\ v = MovedTo(i, 0, k)
    BY <1>1, HistoryIs, PositionIs
<1>3. t.todo = SubSeq(History(i), k + 1, Size(i))
    <2>1. Len(History(i)) = Size(i)
        BY <1>2
    <2> QED
        BY <2>1 DEF Missing
<1> HIDE DEF k
<1>4. History(i) \in Seq(DOMAIN i) /\ Len(History(i)) = Size(i)
    BY <1>2
<1>5. Len(t.todo) = Size(i) - k /\ \A x \in 1 .. Size(i) - k : t.todo[x] = History(i)[k + x]
    BY <1>2, <1>3, <1>4
<1>6. t.todo = <<>> <=> k = Size(i)
    BY <1>2, <1>5 DEF Setups
<1>7. k < Size(i) => /\ 1 \in DOMAIN Coming(i, k).batches
                     /\ DOMAIN Coming(i, k).batches \in SUBSET (Nat \ {0})
    <2>1. ASSUME k < Size(i)
          PROVE  Coming(i, k).batches \in Seq([object : Objects, again : BOOLEAN]) \ {<<>>}
        <3>1. History(i)[k + 1] \in DOMAIN i
            BY <1>2, <2>1
        <3> QED
            BY <3>1, MigrationAssumption DEF Coming
    <2> QED
        BY <2>1
<1>8. /\ t.work.ledger = Recorded(i, k, k) /\ t.work.version = MovedTo(i, k, k)
      /\ t.work.objects = Made(i, k, k, 0)
    BY <1>2, <1>7, NothingWritten
<1>9. /\ k \in Nat /\ k <= k /\ k <= Size(i) /\ t.seen = MovedTo(i, 0, k)
      /\ t.step \notin {"record", "version"}
      /\ t.step = "commit" <=> k = Size(i)
      /\ t.step = "batch" => t.at = 0 + 1 /\ t.at \in DOMAIN Coming(i, k).batches
    BY <1>2, <1>6, <1>7
<1>10. Stands(i, t, k, k, 0)
    BY <1>1, <1>5, <1>8, <1>9 DEF Stands
<1> QED
    BY <1>10 DEF k

-------------------------------------------------------------------------------
\* Where each pod's setup is.
SetupsInv ==
    /\ image \in [Pods -> Images]
    /\ setup \in [Pods -> Setups]
    /\ committed \in Works
    /\ \A p \in Pods : Progress(image[p], setup[p])

LEMMA OneMoves ==
    ASSUME SetupsInv, NEW p \in Pods, NEW t \in Setups, setup' = [setup EXCEPT ![p] = t],
           UNCHANGED <<image, committed>>, Progress(image[p], t)
    PROVE  SetupsInv'
<1>1. setup' \in [Pods -> Setups] /\ setup'[p] = t /\ \A q \in Pods \ {p} : setup'[q] = setup[q]
    BY DEF SetupsInv
<1>2. \A q \in Pods : Progress(image[q], setup'[q])
    BY <1>1 DEF SetupsInv
<1>3. \A q \in Pods : Progress(image'[q], setup'[q])
    BY <1>2
<1> QED
    BY <1>1, <1>3 DEF SetupsInv

LEMMA IdleIsTyped == Idle \in Setups /\ [Idle EXCEPT !.step = "failed"] \in Setups
<1>1. Idle \in Setups
    BY NothingIsTyped DEF Idle, Setups, SetupSteps
<1> QED
    BY <1>1 DEF Setups, SetupSteps

LEMMA FailMoves ==
    ASSUME SetupsInv, NEW p \in Pods, Fail(p), UNCHANGED <<image, committed>>
    PROVE  SetupsInv'
<1> DEFINE t == [Idle EXCEPT !.step = "failed"]
<1>1. t.step = "failed" /\ t.work = Nothing
    BY DEF Idle
<1>2. Progress(image[p], t)
    BY <1>1 DEF Progress, Upgrading
<1>3. t \in Setups
    BY IdleIsTyped
<1> HIDE DEF t
<1> QED
    BY <1>2, <1>3, OneMoves DEF Fail, t

LEMMA GotoMoves ==
    ASSUME SetupsInv, NEW p \in Pods, NEW step \in SetupSteps, Goto(p, step),
           UNCHANGED <<image, committed>>,
           ~Upgrading(setup[p]), step \notin {"batch", "record", "version", "commit"}
    PROVE  SetupsInv'
<1> DEFINE t == [setup[p] EXCEPT !.step = step]
<1>1. setup[p] \in Setups
    BY DEF SetupsInv
<1>2. t \in Setups /\ t.step = step /\ t.work = setup[p].work
    BY <1>1 DEF Setups
<1>3. Progress(image[p], t)
    BY <1>2 DEF Progress, Upgrading, SetupsInv
<1>4. setup' = [setup EXCEPT ![p] = t]
    BY DEF Goto
<1> HIDE DEF t
<1> QED
    BY <1>2, <1>3, <1>4, OneMoves

LEMMA ReadBeforeMoves ==
    ASSUME SetupsInv, NEW p \in Pods, ReadBefore(p)
    PROVE  SetupsInv'
<1> DEFINE t == [setup[p] EXCEPT !.step = "verify", !.before = Applied]
<1>1. setup[p] \in Setups /\ setup[p].step = "before"
    BY DEF SetupsInv, ReadBefore
<1>2. t \in Setups /\ t.step = "verify" /\ t.work = setup[p].work
    BY <1>1 DEF Setups, SetupSteps, Applied
<1>3. Progress(image[p], t)
    BY <1>1, <1>2 DEF Progress, Upgrading, SetupsInv
<1>4. setup' = [setup EXCEPT ![p] = t]
    BY DEF ReadBefore
<1> HIDE DEF t
<1> QED
    BY <1>2, <1>3, <1>4, OneMoves DEF ReadBefore

LEMMA PlanMoves ==
    ASSUME SetupsInv, NEW p \in Pods, Plan(p)
    PROVE  SetupsInv'
<1>1. CASE Fail(p)
    BY <1>1, FailMoves DEF Plan
<1>2. CASE ~Fail(p)
    <2> DEFINE i == image[p]
               v == committed.version
               t == [step |-> IF Missing(i, v) = <<>> THEN "commit" ELSE "batch",
                     todo |-> Missing(i, v), at |-> 1, seen |-> v, work |-> setup[p].work,
                     before |-> setup[p].before]
    <2>1. i \in Images /\ v \in Revisions \cup {None} /\ setup[p] \in Setups /\ setup[p].step = "plan"
        BY DEF SetupsInv, Works, Plan
    <2>2. setup[p].work = Nothing
        BY <2>1 DEF SetupsInv, Progress, Upgrading
    <2>3. CanUpgrade(i, v) /\ setup' = [setup EXCEPT ![p] = t]
        BY <1>2 DEF Plan, Upgrade
    <2>4. Missing(i, v) \in Seq(Revisions)
        <3>1. Histories(i) # {} /\ v \in DOMAIN i \cup {None}
            BY <2>3 DEF CanUpgrade
        <3>2. /\ Size(i) \in Nat /\ History(i) \in [1 .. Size(i) -> DOMAIN i]
              /\ Position(i, v) \in 0 .. Size(i)
            BY <2>1, <3>1, HistoryIs, PositionIs
        <3>3. DOMAIN i \in SUBSET Revisions
            BY <2>1 DEF Revisions
        <3>4. History(i) \in Seq(Revisions) /\ Len(History(i)) = Size(i)
            BY <3>2, <3>3
        <3> QED
            BY <3>2, <3>4 DEF Missing
    <2>5. t \in Setups
        BY <2>1, <2>4 DEF Setups, SetupSteps
    <2>6. /\ t.step = IF Missing(i, v) = <<>> THEN "commit" ELSE "batch"
          /\ t.todo = Missing(i, v) /\ t.at = 1 /\ t.seen = v /\ t.work = Nothing
        BY <2>2
    <2>7. Upgrading(t)
        BY <2>6 DEF Upgrading
    <2> HIDE DEF t, i, v
    <2>8. Stands(i, t, Position(i, v), Position(i, v), 0)
        BY <2>1, <2>3, <2>5, <2>6, PlanStands
    <2>9. Position(i, v) \in Nat
        BY <2>8 DEF Stands
    <2>10. Progress(i, t)
        BY <2>7, <2>8, <2>9 DEF Progress
    <2> QED
        BY <2>3, <2>5, <2>10, OneMoves DEF Plan, i
<1> QED
    BY <1>1, <1>2

\* An upgrade goes on as far as the record of its setup shows.
LEMMA UpgradeMoves ==
    ASSUME SetupsInv, NEW p \in Pods, UNCHANGED <<image, committed>>,
           NEW step, NEW todo, NEW at, NEW seen, NEW work, Upgrade(p, step, todo, at, seen, work),
           step \in {"batch", "record", "version", "commit"}, todo \in Seq(Revisions), at \in Nat,
           seen \in Revisions \cup {None}, work \in Works,
           \A t \in Setups :
               t.step = step /\ t.todo = todo /\ t.at = at /\ t.seen = seen /\ t.work = work
               => \E k, m, b \in Nat : Stands(image[p], t, k, m, b)
    PROVE  SetupsInv'
<1> DEFINE t == [step |-> step, todo |-> todo, at |-> at, seen |-> seen, work |-> work,
                 before |-> setup[p].before]
<1>1. setup[p] \in Setups
    BY DEF SetupsInv
<1>2. t \in Setups
    BY <1>1 DEF Setups, SetupSteps
<1>3. t.step = step /\ t.todo = todo /\ t.at = at /\ t.seen = seen /\ t.work = work
    OBVIOUS
<1>4. setup' = [setup EXCEPT ![p] = t]
    BY DEF Upgrade
<1> HIDE DEF t
<1>5. \E k, m, b \in Nat : Stands(image[p], t, k, m, b)
    BY <1>2, <1>3
<1>6. Progress(image[p], t)
    BY <1>3, <1>5 DEF Progress, Upgrading
<1> QED
    BY <1>2, <1>4, <1>6, OneMoves

\* Where an upgrade stands.
LEMMA UpgradeStands ==
    ASSUME SetupsInv, NEW p \in Pods, Upgrading(setup[p])
    PROVE  /\ image[p] \in Images /\ setup[p] \in Setups /\ setup[p].work \in Works
           /\ \E k, m, b \in Nat : Stands(image[p], setup[p], k, m, b)
BY DEF SetupsInv, Progress, Setups

LEMMA RunBatchMoves ==
    ASSUME SetupsInv, NEW p \in Pods, RunBatch(p)
    PROVE  SetupsInv'
<1>1. CASE Fail(p)
    BY <1>1, FailMoves DEF RunBatch
<1>2. CASE ~Fail(p)
    <2> DEFINE s == setup[p]
               script == Script(p)
               last == s.at = Len(script.batches)
               object == script.batches[s.at].object
               work == Written(s.work.ledger, s.work.version,
                               [s.work.objects EXCEPT ![object] = script.text])
    <2>1. s.step = "batch"
        BY DEF RunBatch
    <2>2. /\ image[p] \in Images /\ s \in Setups /\ s.work \in Works
          /\ \E k, m, b \in Nat : Stands(image[p], s, k, m, b)
        BY <2>1, UpgradeStands DEF Upgrading
    <2>3. PICK k \in Nat, m \in Nat, b \in Nat : Stands(image[p], s, k, m, b)
        BY <2>2
    <2>4. s.step # "commit"
        BY <2>1
    <2>5. script = Coming(image[p], m) /\ script.text \in Texts
        BY <2>2, <2>3, <2>4, RunningIs DEF Script, Coming
    <2>6. Upgrade(p, IF last THEN "record" ELSE "batch", s.todo, IF last THEN 1 ELSE s.at + 1,
                  s.seen, work)
        BY <1>2 DEF RunBatch
    <2>7. work \in Works
        BY <2>2, <2>5 DEF Works, Written, TextOrNone
    <2>8. /\ (IF last THEN 1 ELSE s.at + 1) \in Nat /\ s.todo \in Seq(Revisions)
          /\ s.seen \in Revisions \cup {None}
        BY <2>2 DEF Setups
    <2>9. \A t \in Setups :
              /\ t.step = (IF last THEN "record" ELSE "batch")
              /\ t.todo = s.todo /\ t.at = (IF last THEN 1 ELSE s.at + 1)
              /\ t.seen = s.seen /\ t.work = work
              => \E c, n, d \in Nat : Stands(image[p], t, c, n, d)
        <3>1. SUFFICES ASSUME NEW t \in Setups, t.step = (IF last THEN "record" ELSE "batch"),
                              t.todo = s.todo, t.at = (IF last THEN 1 ELSE s.at + 1),
                              t.seen = s.seen, t.work = work
                       PROVE  Stands(image[p], t, k, m, b + 1)
            OBVIOUS
        <3> QED
            BY <2>1, <2>2, <2>3, <2>5, <3>1, BatchStands
    <2>10. UNCHANGED <<image, committed>>
        BY DEF RunBatch
    <2> HIDE DEF s, work, last, script, object
    <2> QED
        BY <2>10, <2>6, <2>7, <2>8, <2>9, UpgradeMoves
<1> QED
    BY <1>1, <1>2

LEMMA RecordRevisionMoves ==
    ASSUME SetupsInv, NEW p \in Pods, RecordRevision(p)
    PROVE  SetupsInv'
<1>1. CASE Fail(p)
    BY <1>1, FailMoves DEF RecordRevision
<1>2. CASE ~Fail(p)
    <2> DEFINE s == setup[p]
               work == Written([s.work.ledger EXCEPT ![Head(s.todo)] = Script(p).text],
                               s.work.version, s.work.objects)
    <2>1. s.step = "record"
        BY DEF RecordRevision
    <2>2. /\ image[p] \in Images /\ s \in Setups /\ s.work \in Works
          /\ \E k, m, b \in Nat : Stands(image[p], s, k, m, b)
        BY <2>1, UpgradeStands DEF Upgrading
    <2>3. PICK k \in Nat, m \in Nat, b \in Nat : Stands(image[p], s, k, m, b)
        BY <2>2
    <2>4. s.step # "commit"
        BY <2>1
    <2>5. Script(p) = Coming(image[p], m) /\ Script(p).text \in Texts
        BY <2>2, <2>3, <2>4, RunningIs DEF Script, Coming
    <2>6. Upgrade(p, "version", s.todo, 1, s.seen, work)
        BY <1>2 DEF RecordRevision
    <2>7. work \in Works
        BY <2>2, <2>5 DEF Works, Written, TextOrNone
    <2>8. s.todo \in Seq(Revisions) /\ s.seen \in Revisions \cup {None}
        BY <2>2 DEF Setups
    <2>9. \A t \in Setups :
              t.step = "version" /\ t.todo = s.todo /\ t.at = 1 /\ t.seen = s.seen /\ t.work = work
              => \E c, n, d \in Nat : Stands(image[p], t, c, n, d)
        <3>1. SUFFICES ASSUME NEW t \in Setups, t.step = "version", t.todo = s.todo, t.at = 1,
                              t.seen = s.seen, t.work = work
                       PROVE  Stands(image[p], t, k, m, b)
            OBVIOUS
        <3> QED
            BY <2>1, <2>2, <2>3, <2>5, <3>1, RecordStands
    <2>10. UNCHANGED <<image, committed>>
        BY DEF RecordRevision
    <2> HIDE DEF s, work
    <2> QED
        BY <2>10, <2>6, <2>7, <2>8, <2>9, UpgradeMoves
<1> QED
    BY <1>1, <1>2

LEMMA MoveVersionMoves ==
    ASSUME SetupsInv, NEW p \in Pods, MoveVersion(p)
    PROVE  SetupsInv'
<1>1. CASE Fail(p)
    BY <1>1, FailMoves DEF MoveVersion
<1>2. CASE ~Fail(p)
    <2> DEFINE s == setup[p]
               step == IF Len(s.todo) = 1 THEN "commit" ELSE "batch"
               rest == Tail(s.todo)
               work == Written(s.work.ledger, Head(s.todo), s.work.objects)
    <2>1. s.step = "version"
        BY DEF MoveVersion
    <2>2. /\ image[p] \in Images /\ s \in Setups /\ s.work \in Works
          /\ \E k, m, b \in Nat : Stands(image[p], s, k, m, b)
        BY <2>1, UpgradeStands DEF Upgrading
    <2>3. PICK k \in Nat, m \in Nat, b \in Nat : Stands(image[p], s, k, m, b)
        BY <2>2
    <2>4. s.step # "commit"
        BY <2>1
    <2>5. Head(s.todo) \in Revisions /\ Len(s.todo) = Size(image[p]) - m /\ m < Size(image[p])
          /\ Size(image[p]) \in Nat
        <3>1. Head(s.todo) \in DOMAIN image[p] /\ m < Size(image[p]) /\ Size(image[p]) \in Nat
            BY <2>2, <2>3, <2>4, RunningIs
        <3> QED
            BY <2>2, <2>3, <3>1, RevisionsAre DEF Stands
    <2>6. Upgrade(p, step, rest, 1, s.seen, work)
        BY <1>2 DEF MoveVersion
    <2>7. work \in Works
        BY <2>2, <2>5 DEF Works, Written
    <2>8. rest \in Seq(Revisions) /\ s.seen \in Revisions \cup {None}
        <3>1. s.todo \in Seq(Revisions) /\ s.todo # <<>> /\ s.seen \in Revisions \cup {None}
            BY <2>2, <2>5 DEF Setups
        <3> QED
            BY <3>1
    <2>9. \A t \in Setups :
              t.step = step /\ t.todo = rest /\ t.at = 1 /\ t.seen = s.seen /\ t.work = work
              => \E c, n, d \in Nat : Stands(image[p], t, c, n, d)
        <3>1. SUFFICES ASSUME NEW t \in Setups, t.step = step, t.todo = rest, t.at = 1,
                              t.seen = s.seen, t.work = work
                       PROVE  Stands(image[p], t, k, m + 1, 0)
            OBVIOUS
        <3> QED
            BY <2>1, <2>2, <2>3, <3>1, MoveStands
    <2>10. UNCHANGED <<image, committed>>
        BY DEF MoveVersion
    <2>11. step \in {"batch", "record", "version", "commit"}
        OBVIOUS
    <2>12. 1 \in Nat
        OBVIOUS
    <2> HIDE DEF s, work, step, rest
    <2> QED
        BY <2>10, <2>6, <2>7, <2>8, <2>9, <2>11, <2>12, UpgradeMoves
<1> QED
    BY <1>1, <1>2

\* After the commit, and with another image, nothing is written.
LEMMA CommitUpgradeMoves ==
    ASSUME SetupsInv, NEW p \in Pods, CommitUpgrade(p)
    PROVE  SetupsInv'
<1> DEFINE t == [setup[p] EXCEPT !.step = "after", !.work = Nothing]
<1>1. setup[p] \in Setups /\ setup[p].work \in Works /\ committed \in Works
    BY DEF SetupsInv, Setups
<1>2. t \in Setups /\ t.step = "after" /\ t.work = Nothing
    BY <1>1, NothingIsTyped DEF Setups, SetupSteps
<1>3. setup' = [setup EXCEPT ![p] = t] /\ image' = image
    BY DEF CommitUpgrade
<1>4. committed' \in Works
    BY <1>1 DEF CommitUpgrade, Works, Written, Over, TextOrNone
<1>5. Progress(image[p], t)
    BY <1>2 DEF Progress, Upgrading
<1> HIDE DEF t
<1>6. setup' \in [Pods -> Setups] /\ setup'[p] = t /\ \A q \in Pods \ {p} : setup'[q] = setup[q]
    BY <1>2, <1>3 DEF SetupsInv
<1>7. \A q \in Pods : Progress(image'[q], setup'[q])
    BY <1>3, <1>5, <1>6 DEF SetupsInv
<1> QED
    BY <1>3, <1>4, <1>6, <1>7 DEF SetupsInv

LEMMA RollOutMoves ==
    ASSUME SetupsInv, NEW p \in Pods, RollOut(p)
    PROVE  SetupsInv'
<1>1. image' \in [Pods -> Images] /\ committed' = committed
      /\ \A q \in Pods \ {p} : image'[q] = image[q]
    BY DEF SetupsInv, RollOut
<1>2. setup' \in [Pods -> Setups] /\ setup'[p] = Idle /\ \A q \in Pods \ {p} : setup'[q] = setup[q]
    BY IdleIsTyped DEF SetupsInv, RollOut
<1>3. Progress(image'[p], Idle)
    BY DEF Progress, Upgrading, Idle
<1>4. \A q \in Pods : Progress(image'[q], setup'[q])
    BY <1>1, <1>2, <1>3 DEF SetupsInv
<1> QED
    BY <1>1, <1>2, <1>4 DEF SetupsInv

LEMMA SetupsMove ==
    ASSUME SetupsInv, NEW p \in Pods, SetupStep(p) \/ Crash(p) \/ RollOut(p)
    PROVE  SetupsInv'
<1>1. CASE FindDatabase(p) \/ CreateDatabase(p) \/ Verify(p) \/ ReadAfter(p) \/ Restart(p)
    <2>1. ~Upgrading(setup[p]) /\ UNCHANGED <<image, committed>>
        BY <1>1 DEF FindDatabase, CreateDatabase, Verify, ReadAfter, Restart, Upgrading
    <2>2. \/ Fail(p)
          \/ \E step \in {"find", "create", "before", "plan", "done"} : Goto(p, step)
        BY <1>1 DEF FindDatabase, CreateDatabase, Verify, ReadAfter, Restart
    <2> QED
        BY <2>1, <2>2, FailMoves, GotoMoves DEF SetupSteps
<1>2. CASE Crash(p)
    BY <1>2, FailMoves DEF Crash
<1>3. CASE ReadBefore(p) \/ Plan(p) \/ RunBatch(p)
    BY <1>3, ReadBeforeMoves, PlanMoves, RunBatchMoves
<1>4. CASE RecordRevision(p) \/ MoveVersion(p) \/ CommitUpgrade(p) \/ RollOut(p)
    BY <1>4, RecordRevisionMoves, MoveVersionMoves, CommitUpgradeMoves, RollOutMoves
<1> QED
    BY <1>1, <1>2, <1>3, <1>4 DEF SetupStep

LEMMA InitSetups ==
    ASSUME MigrationInit
    PROVE  SetupsInv
<1>1. \A p \in Pods : Progress(image[p], Idle)
    BY DEF Progress, Upgrading, Idle
<1> QED
    BY <1>1, IdleIsTyped, NothingIsTyped DEF MigrationInit, SetupsInv

\* What a set of revisions that is closed under down has of a history, it has from the start.
LEMMA HasFromTheStart ==
    ASSUME NEW i \in Images, Histories(i) # {}, NEW A,
           \A r \in DOMAIN i \cap A : i[r].down \in A \cup {None},
           NEW n \in 1 .. Size(i), History(i)[n] \in A
    PROVE  \A k \in 1 .. n : History(i)[k] \in A
<1> DEFINE h == History(i)
           Out == {d \in Nat : d < n /\ h[n - d] \notin A}
<1>1. /\ Size(i) \in Nat /\ h \in [1 .. Size(i) -> DOMAIN i]
      /\ \A k \in 1 .. Size(i) : i[h[k]].down = IF k = 1 THEN None ELSE h[k - 1]
    BY HistoryIs
<1>2. h[n] \in A
    OBVIOUS
<1> HIDE DEF h
<1>3. ASSUME Out # {} PROVE FALSE
    <2>1. PICK d \in Out : \A e \in Out : d <= e
        BY <1>3, LeastOf
    <2>2. d \in Nat /\ d < n /\ h[n - d] \notin A
        BY <2>1
    <2>3. d # 0
        BY <1>2, <1>1, <2>2
    <2>4. d - 1 \in Nat /\ d - 1 < n /\ ~(d <= d - 1)
        BY <2>2, <2>3, <1>1
    <2>5. d - 1 \notin Out
        BY <2>1, <2>4
    <2>6. h[n - (d - 1)] \in A
        BY <2>4, <2>5
    <2>7. n - (d - 1) \in 1 .. Size(i) /\ n - (d - 1) # 1 /\ (n - (d - 1)) - 1 = n - d
        BY <1>1, <2>2, <2>3
    <2>8. n - d \in 1 .. Size(i)
        BY <1>1, <2>2
    <2>9. i[h[n - (d - 1)]].down = h[n - d] /\ h[n - d] # None
        BY <1>1, <2>7, <2>8, RevisionsAre
    <2> QED
        BY <1>1, <2>2, <2>6, <2>7, <2>9
<1>4. ASSUME NEW k \in 1 .. n PROVE h[k] \in A
    <2>1. n - k \in Nat /\ n - k < n /\ n - (n - k) = k
        BY <1>1
    <2> QED
        BY <1>3, <2>1
<1> QED
    BY <1>4 DEF h

\* Before anything is applied its predecessor is, and what a session has read is applied.
AppliedInv ==
    /\ \A i \in Images : \A r \in DOMAIN i \cap Applied : i[r].down \in Applied \cup {None}
    /\ committed.version \in Applied \cup {None}
    /\ \A p \in Pods : Upgrading(setup[p]) => setup[p].seen \in Applied \cup {None}
    /\ \A p \in Pods : setup[p].step \in {"after", "done"} => DOMAIN image[p] \subseteq Applied

LEMMA NoneApplied ==
    ASSUME AppliedInv, NEW p \in Pods, UNCHANGED committed,
           \A q \in Pods \ {p} : setup'[q] = setup[q] /\ image'[q] = image[q],
           Upgrading(setup'[p]) => setup'[p].seen \in Applied \cup {None},
           setup'[p].step \in {"after", "done"} => DOMAIN image'[p] \subseteq Applied
    PROVE  AppliedInv'
<1>1. Applied' = Applied
    BY DEF Applied
<1>2. \A q \in Pods : Upgrading(setup'[q]) => setup'[q].seen \in Applied \cup {None}
    BY DEF AppliedInv
<1>3. \A q \in Pods : setup'[q].step \in {"after", "done"} => DOMAIN image'[q] \subseteq Applied
    BY DEF AppliedInv
<1>4. Upgrading(setup[p])' <=> Upgrading(setup'[p])
    BY DEF Upgrading
<1> QED
    BY <1>1, <1>2, <1>3 DEF AppliedInv, Upgrading

\* What a commit makes of the applied revisions: those and the ones it has run.
LEMMA CommitApplies ==
    ASSUME SetupsInv, NEW p \in Pods, CommitUpgrade(p),
           NEW k, NEW m, NEW b, Stands(image[p], setup[p], k, m, b)
    PROVE  \A r : r \in Applied' <=>
               r \in Applied \/ \E x \in k + 1 .. m : History(image[p])[x] = r
<1> DEFINE i == image[p]
           h == History(i)
<1>1. setup[p].step = "commit" /\ i \in Images
    BY DEF CommitUpgrade, SetupsInv
<1>2. m = Size(i) /\ Histories(i) # {} /\ k \in Nat /\ m \in Nat
    BY <1>1 DEF Stands
<1>3. h \in [1 .. Size(i) -> DOMAIN i]
    BY <1>1, <1>2, HistoryIs
<1>4. \A x \in k + 1 .. m : h[x] \in DOMAIN i
    BY <1>2, <1>3
<1>5. \A x \in k + 1 .. m : h[x] \in Revisions /\ i[h[x]].text # None
    BY <1>1, <1>4, RevisionsAre
<1>6. committed'.ledger = Over(Recorded(i, k, m), committed.ledger) /\ committed \in Works
    BY <1>1 DEF CommitUpgrade, Written, Stands, SetupsInv
<1> HIDE DEF i, h
<1>7. \A r \in Revisions : committed'.ledger[r] =
          IF \E x \in k + 1 .. m : h[x] = r THEN i[r].text ELSE committed.ledger[r]
    BY <1>5, <1>6 DEF Over, Recorded, Works, h
<1>8. \A r : r \in Applied' <=> r \in Applied \/ \E x \in k + 1 .. m : h[x] = r
    BY <1>5, <1>7 DEF Applied
<1> QED
    BY <1>8 DEF i, h

\* A commit leaves all revisions of its image applied.
LEMMA CommitAppliesAll ==
    ASSUME SetupsInv, AppliedInv, NEW p \in Pods, CommitUpgrade(p)
    PROVE  DOMAIN image[p] \subseteq Applied'
<1>1. setup[p].step = "commit" /\ Upgrading(setup[p])
    BY DEF CommitUpgrade, Upgrading
<1>2. PICK k \in Nat, m \in Nat, b \in Nat : Stands(image[p], setup[p], k, m, b)
    BY <1>1, UpgradeStands
<1>3. \A r : r \in Applied' <=>
          r \in Applied \/ \E x \in k + 1 .. m : History(image[p])[x] = r
    BY <1>2, CommitApplies
<1> DEFINE i == image[p]
           h == History(i)
<1>4. i \in Images /\ Histories(i) # {} /\ k <= m /\ m = Size(i) /\ setup[p].seen = MovedTo(i, 0, k)
    BY <1>1, <1>2 DEF SetupsInv, Stands
<1>5. /\ Size(i) \in Nat /\ h \in [1 .. Size(i) -> DOMAIN i]
      /\ \A r \in DOMAIN i : \E n \in 1 .. Size(i) : h[n] = r
    BY <1>4, HistoryIs
<1>6. \A x \in 1 .. k : h[x] \in Applied
    <2>1. CASE k = 0
        BY <2>1
    <2>2. CASE k # 0
        <3>1. k \in 1 .. Size(i)
            BY <1>4, <1>5, <2>2
        <3>2. h[k] # None
            BY <1>4, <1>5, <3>1, RevisionsAre
        <3>3. h[k] \in Applied
            BY <1>1, <1>4, <2>2, <3>2 DEF AppliedInv, MovedTo
        <3> QED
            BY <1>4, <3>1, <3>3, HasFromTheStart DEF AppliedInv
    <2> QED
        BY <2>1, <2>2
<1>7. \A r : r \in Applied' <=> r \in Applied \/ \E x \in k + 1 .. m : h[x] = r
    BY <1>3
<1>8. \A x \in 1 .. Size(i) : h[x] \in Applied'
    BY <1>4, <1>5, <1>6, <1>7
<1> HIDE DEF h
<1> QED
    BY <1>5, <1>8

LEMMA CommitKeepsApplied ==
    ASSUME SamePlaces, SetupsInv, AppliedInv, NEW p \in Pods, CommitUpgrade(p)
    PROVE  AppliedInv'
<1>1. setup[p].step = "commit" /\ Upgrading(setup[p])
    BY DEF CommitUpgrade, Upgrading
<1>2. PICK k \in Nat, m \in Nat, b \in Nat : Stands(image[p], setup[p], k, m, b)
    BY <1>1, UpgradeStands
<1>3. \A r : r \in Applied' <=>
          r \in Applied \/ \E x \in k + 1 .. m : History(image[p])[x] = r
    BY <1>2, CommitApplies
<1> DEFINE i == image[p]
           h == History(i)
<1>4. i \in Images /\ Histories(i) # {} /\ m = Size(i)
    BY <1>1, <1>2 DEF SetupsInv, Stands
<1>5. \A r : r \in Applied' <=> r \in Applied \/ \E x \in k + 1 .. m : h[x] = r
    BY <1>3
<1>6. /\ Size(i) \in Nat /\ h \in [1 .. Size(i) -> DOMAIN i]
      /\ \A n \in 1 .. Size(i) : i[h[n]].down = IF n = 1 THEN None ELSE h[n - 1]
    BY <1>4, HistoryIs
<1>7. DOMAIN i \subseteq Applied'
    BY CommitAppliesAll
<1>8. ASSUME NEW j \in Images, NEW r \in DOMAIN j \cap Applied'
      PROVE  j[r].down \in Applied' \cup {None}
    <2>1. CASE r \in Applied
        BY <1>5, <2>1 DEF AppliedInv
    <2>2. CASE r \notin Applied
        <3>1. r \in DOMAIN i
            BY <1>4, <1>5, <1>6, <2>2
        <3>2. j[r].down = i[r].down
            BY <1>4, <3>1 DEF SamePlaces
        <3>3. i[r].down \in DOMAIN i \cup {None}
            BY <1>4, <3>1, MigrationAssumption
        <3> QED
            BY <1>7, <3>2, <3>3
    <2> QED
        BY <2>1, <2>2
<1>9. committed'.version \in Applied' \cup {None}
    <2>1. committed'.version = IF setup[p].work.version # None THEN setup[p].work.version
                               ELSE committed.version
        BY DEF CommitUpgrade, Written
    <2>2. setup[p].work.version = None \/ (setup[p].work.version = h[m] /\ m \in 1 .. Size(i))
        <3>1. setup[p].work.version = MovedTo(i, k, m) /\ k <= m /\ k \in Nat
            BY <1>2 DEF Stands
        <3>2. m # k => m \in 1 .. Size(i)
            BY <1>4, <1>6, <3>1
        <3> QED
            BY <3>1, <3>2 DEF MovedTo
    <2>3. setup[p].work.version \in DOMAIN i \cup {None}
        BY <1>6, <2>2
    <2> QED
        BY <1>5, <1>7, <2>1, <2>3 DEF AppliedInv
<1>10. setup'[p].step = "after" /\ \A q \in Pods \ {p} : setup'[q] = setup[q]
    BY DEF CommitUpgrade, SetupsInv, Setups
<1>11. image' = image
    BY DEF CommitUpgrade
<1>12. \A q \in Pods : Upgrading(setup'[q]) => setup'[q].seen \in Applied' \cup {None}
    BY <1>5, <1>10 DEF AppliedInv, Upgrading
<1>13. \A q \in Pods : setup'[q].step \in {"after", "done"} => DOMAIN image'[q] \subseteq Applied'
    BY <1>5, <1>7, <1>10, <1>11 DEF AppliedInv
<1>14. \A j \in Images : \A r \in DOMAIN j \cap Applied' : j[r].down \in Applied' \cup {None}
    BY <1>8
<1> QED
    BY <1>9, <1>12, <1>13, <1>14 DEF AppliedInv, Upgrading

\* What the steps other than a commit do to the record of a setup.
LEMMA OtherSteps ==
    ASSUME SetupsInv, NEW p \in Pods, SetupStep(p) \/ Crash(p) \/ RollOut(p), ~CommitUpgrade(p)
    PROVE  /\ UNCHANGED committed
           /\ \A q \in Pods \ {p} : setup'[q] = setup[q] /\ image'[q] = image[q]
           /\ Upgrading(setup'[p]) =>
                  \/ Plan(p) /\ setup'[p].seen = committed.version
                  \/ Upgrading(setup[p]) /\ setup'[p].seen = setup[p].seen
           /\ setup'[p].step \in {"after", "done"} => ReadAfter(p) /\ setup[p].step = "after"
<1>1. setup \in [Pods -> Setups] /\ setup[p] \in Setups
    BY DEF SetupsInv
<1>2. ASSUME NEW step, Goto(p, step)
      PROVE  /\ \A q \in Pods \ {p} : setup'[q] = setup[q]
             /\ setup'[p].step = step /\ setup'[p].seen = setup[p].seen
    BY <1>1, <1>2 DEF Goto, Setups
<1>3. ASSUME Fail(p)
      PROVE  /\ \A q \in Pods \ {p} : setup'[q] = setup[q]
             /\ setup'[p].step = "failed"
    BY <1>1, <1>3 DEF Fail, Idle
<1>4. ASSUME NEW step, NEW todo, NEW at, NEW seen, NEW work, Upgrade(p, step, todo, at, seen, work)
      PROVE  /\ \A q \in Pods \ {p} : setup'[q] = setup[q]
             /\ setup'[p].step = step /\ setup'[p].seen = seen
    BY <1>1, <1>4 DEF Upgrade
<1>5. CASE FindDatabase(p) \/ CreateDatabase(p) \/ Verify(p) \/ Restart(p) \/ Crash(p)
    <2>1. UNCHANGED <<image, committed>>
        BY <1>5 DEF FindDatabase, CreateDatabase, Verify, Restart, Crash
    <2>2. Fail(p) \/ \E step \in {"find", "create", "before", "plan"} : Goto(p, step)
        BY <1>5 DEF FindDatabase, CreateDatabase, Verify, Restart, Crash
    <2> QED
        BY <2>1, <2>2, <1>2, <1>3 DEF Upgrading
<1>6. CASE ReadBefore(p)
    <2>1. UNCHANGED <<image, committed>>
        BY <1>6 DEF ReadBefore
    <2>2. setup'[p].step = "verify" /\ \A q \in Pods \ {p} : setup'[q] = setup[q]
        BY <1>1, <1>6 DEF ReadBefore, Setups
    <2> QED
        BY <2>1, <2>2 DEF Upgrading
<1>7. CASE ReadAfter(p)
    <2>1. UNCHANGED <<image, committed>> /\ Goto(p, "done") /\ setup[p].step = "after"
        BY <1>7 DEF ReadAfter
    <2> QED
        BY <1>7, <2>1, <1>2 DEF Upgrading
<1>8. CASE Plan(p)
    <2>1. UNCHANGED <<image, committed>>
        BY <1>8 DEF Plan
    <2>2. CASE Fail(p)
        BY <2>1, <2>2, <1>3 DEF Upgrading
    <2>3. CASE ~Fail(p)
        <3>1. \E step \in {"commit", "batch"} : \E todo, work :
                  Upgrade(p, step, todo, 1, committed.version, work)
            BY <1>8, <2>3 DEF Plan
        <3> QED
            BY <1>8, <2>1, <3>1, <1>4
    <2> QED
        BY <2>2, <2>3
<1>9. CASE RunBatch(p) \/ RecordRevision(p) \/ MoveVersion(p)
    <2>1. UNCHANGED <<image, committed>> /\ Upgrading(setup[p])
        BY <1>9 DEF RunBatch, RecordRevision, MoveVersion, Upgrading
    <2>2. CASE Fail(p)
        BY <2>1, <2>2, <1>3 DEF Upgrading
    <2>3. CASE ~Fail(p)
        <3>1. \E step \in {"batch", "record", "version", "commit"} : \E todo, at, work :
                  Upgrade(p, step, todo, at, setup[p].seen, work)
            <4>1. CASE RunBatch(p)
                BY <2>3, <4>1 DEF RunBatch
            <4>2. CASE RecordRevision(p)
                BY <2>3, <4>2 DEF RecordRevision
            <4>3. CASE MoveVersion(p)
                BY <2>3, <4>3 DEF MoveVersion
            <4> QED
                BY <1>9, <4>1, <4>2, <4>3
        <3> QED
            BY <2>1, <3>1, <1>4
    <2> QED
        BY <2>2, <2>3
<1>10. CASE RollOut(p)
    <2>1. committed' = committed /\ setup' = [setup EXCEPT ![p] = Idle]
        BY <1>10 DEF RollOut
    <2>2. \A q \in Pods \ {p} : image'[q] = image[q]
        BY <1>10 DEF RollOut, SetupsInv
    <2> QED
        BY <1>1, <2>1, <2>2 DEF Idle, Upgrading
<1> QED
    BY <1>5, <1>6, <1>7, <1>8, <1>9, <1>10 DEF SetupStep

LEMMA AppliedKeeps ==
    ASSUME SamePlaces, SetupsInv, AppliedInv,
           NEW p \in Pods, SetupStep(p) \/ Crash(p) \/ RollOut(p)
    PROVE  AppliedInv'
<1>1. CASE CommitUpgrade(p)
    BY <1>1, CommitKeepsApplied
<1>2. CASE ~CommitUpgrade(p)
    <2>1. /\ UNCHANGED committed
          /\ \A q \in Pods \ {p} : setup'[q] = setup[q] /\ image'[q] = image[q]
        BY <1>2, OtherSteps
    <2>2. Upgrading(setup'[p]) => setup'[p].seen \in Applied \cup {None}
        BY <1>2, OtherSteps DEF AppliedInv
    <2>3. setup'[p].step \in {"after", "done"} => DOMAIN image'[p] \subseteq Applied
        <3>1. SUFFICES ASSUME setup'[p].step \in {"after", "done"}
                       PROVE  DOMAIN image'[p] \subseteq Applied
            OBVIOUS
        <3>2. ReadAfter(p) /\ setup[p].step = "after"
            BY <1>2, <3>1, OtherSteps
        <3> QED
            BY <3>2 DEF ReadAfter, AppliedInv
    <2> QED
        BY <2>1, <2>2, <2>3, NoneApplied
<1> QED
    BY <1>1, <1>2

LEMMA InitApplied ==
    ASSUME MigrationInit
    PROVE  AppliedInv
<1>1. Applied = {} /\ committed.version = None
    BY DEF MigrationInit, Applied, Nothing, Written
<1>2. \A p \in Pods : setup[p].step = "find"
    BY DEF MigrationInit, Idle
<1> QED
    BY <1>1, <1>2 DEF AppliedInv, Upgrading

LEMMA LeftByIs ==
    ASSUME NEW i, NEW n \in Nat
    PROVE  LeftBy(i, n) = Written(Recorded(i, 0, n), MovedTo(i, 0, n),
                                  [o \in Objects |-> MadeBy(i, 1 .. n, o)])
BY DEF LeftBy, Recorded, MovedTo

\* A database that another image has left at a version is as this image would have left it
\* there, if the ledger does not contradict its files.
LEMMA SameState ==
    ASSUME SamePlaces, EditedThroughout,
           NEW i \in Images, Histories(i) # {}, NEW j \in Images, Histories(j) # {},
           NEW n \in 0 .. Size(j), committed = LeftBy(j, n), ~Drifted(i),
           NEW k \in 0 .. Size(i), committed.version = MovedTo(i, 0, k)
    PROVE  committed = LeftBy(i, k)
<1>1. /\ Size(i) \in Nat /\ History(i) \in [1 .. Size(i) -> DOMAIN i]
      /\ Size(j) \in Nat /\ History(j) \in [1 .. Size(j) -> DOMAIN j]
    BY HistoryIs
<1>2. k \in Nat /\ n \in Nat /\ k <= Size(i) /\ n <= Size(j)
    BY <1>1
<1>3. /\ committed.ledger = Recorded(j, 0, n) /\ MovedTo(j, 0, n) = MovedTo(i, 0, k)
    BY <1>2, LeftByIs DEF Written
<1>4. (\A x \in 1 .. k : History(i)[x] # None) /\ \A x \in 1 .. n : History(j)[x] # None
    <2>1. /\ \A x \in 1 .. k : History(i)[x] \in DOMAIN i
          /\ \A x \in 1 .. n : History(j)[x] \in DOMAIN j
        BY <1>1, <1>2
    <2> QED
        BY <2>1, RevisionsAre
<1>5. CASE n = 0
    <2>1. k = 0
        BY <1>2, <1>3, <1>4, <1>5 DEF MovedTo
    <2>2. Recorded(i, 0, 0) = Recorded(j, 0, 0)
        BY DEF Recorded
    <2>3. \A o : MadeBy(i, 1 .. 0, o) = None /\ MadeBy(j, 1 .. 0, o) = None
        BY MadeByNone DEF Makers
    <2>4. LeftBy(i, 0) = LeftBy(j, 0)
        <3>1. MovedTo(i, 0, 0) = MovedTo(j, 0, 0)
            BY DEF MovedTo
        <3>2. [o \in Objects |-> MadeBy(i, 1 .. 0, o)] = [o \in Objects |-> MadeBy(j, 1 .. 0, o)]
            BY <2>3
        <3> QED
            BY <2>2, <3>1, <3>2, LeftByIs
    <2> QED
        BY <1>5, <2>1, <2>4
<1>6. CASE n # 0
    <2>1. k \in 1 .. Size(i) /\ n \in 1 .. Size(j) /\ History(i)[k] = History(j)[n]
        BY <1>2, <1>3, <1>4, <1>6 DEF MovedTo
    <2>2. k = n /\ \A x \in 1 .. n : History(i)[x] = History(j)[x]
        BY <2>1, SharedHistory
    <2>3. \A x \in 1 .. n : History(j)[x] \in DOMAIN i \cap DOMAIN j
        BY <1>1, <1>2, <2>2
    <2> DEFINE r == History(j)[1]
    <2>4. 1 \in 1 .. n /\ 1 \in 0 + 1 .. n
        BY <1>2, <1>6
    <2>5. r \in DOMAIN i \cap DOMAIN j /\ r \in Revisions /\ j[r].text # None
        BY <2>3, <2>4, RevisionsAre
    <2>6. committed.ledger[r] = j[r].text
        BY <1>3, <2>4, <2>5 DEF Recorded
    <2>7. i[r].text = j[r].text
        BY <2>5, <2>6 DEF Drifted, Applied
    <2>8. \A s \in DOMAIN i \cap DOMAIN j : i[s] = j[s]
        BY <2>5, <2>7 DEF EditedThroughout
    <2> HIDE DEF r
    <2>9. \A x \in 1 .. n : History(j)[x] = History(i)[x] /\ j[History(j)[x]] = i[History(j)[x]]
        BY <2>2, <2>3, <2>8
    <2>10. \A o : MadeBy(j, 1 .. n, o) = MadeBy(i, 1 .. n, o)
        BY <1>2, <2>9, MadeByShared
    <2>11. Recorded(j, 0, n) = Recorded(i, 0, n)
        <3>1. 0 + 1 .. n = 1 .. n
            OBVIOUS
        <3> QED
            BY <2>9, <3>1 DEF Recorded
    <2>12. LeftBy(j, n) = LeftBy(i, n)
        <3>1. [o \in Objects |-> MadeBy(i, 1 .. n, o)] = [o \in Objects |-> MadeBy(j, 1 .. n, o)]
            BY <2>10
        <3> QED
            BY <1>2, <1>3, <2>2, <2>11, <3>1, LeftByIs
    <2> QED
        BY <2>2, <2>12
<1> QED
    BY <1>5, <1>6

-------------------------------------------------------------------------------
\* Whoever upgrades has files that the ledger does not contradict; as long as nothing is
\* applied it does so alone; and whoever has moved the version holds it.
FirstAlone == Applied = {} => \A p, q \in Pods : InUpgrade(p) /\ InUpgrade(q) => p = q
Agreed == \A p \in Pods : InUpgrade(p) => ~Drifted(image[p])
VersionAlone ==
    \A p \in Pods : setup[p].work.version # None =>
        committed.version = setup[p].seen /\ \A q \in Pods \ {p} : setup[q].work.version = None

StateInv == SomeVersionDescribesIt /\ FirstAlone /\ Agreed /\ VersionAlone

\* What a commit that moves the version makes of the database.
LEMMA CommitDescribes ==
    ASSUME SetupsInv, NEW p \in Pods, CommitUpgrade(p),
           NEW k, NEW m, NEW b, Stands(image[p], setup[p], k, m, b), k # m,
           committed = LeftBy(image[p], k)
    PROVE  committed' = LeftBy(image[p], m)
<1> DEFINE i == image[p]
           h == History(i)
           work == setup[p].work
<1>1. setup[p].step = "commit" /\ i \in Images /\ Histories(i) # {}
    BY DEF CommitUpgrade, SetupsInv, Stands
<1>2. /\ k \in Nat /\ m \in Nat /\ k <= m /\ m = Size(i)
      /\ work.version = MovedTo(i, k, m) /\ work.objects = Made(i, k, m, b)
    BY <1>1 DEF Stands
<1>3. h \in [1 .. Size(i) -> DOMAIN i]
    BY <1>1, HistoryIs
<1>4. h[m] \in DOMAIN i /\ h[m] # None
    <2>1. m \in 1 .. Size(i)
        BY <1>2
    <2> QED
        BY <1>1, <1>3, <2>1, RevisionsAre
<1>5. /\ committed.ledger = Recorded(i, 0, k)
      /\ committed.objects = [o \in Objects |-> MadeBy(i, 1 .. k, o)]
    BY <1>2, LeftByIs DEF Written
<1>6. committed' = Written(Over(work.ledger, committed.ledger), h[m],
                           Over(work.objects, committed.objects))
    BY <1>2, <1>4 DEF CommitUpgrade, MovedTo
<1>7. \A r \in Revisions : Over(work.ledger, committed.ledger)[r] = Recorded(i, 0, m)[r]
    <2>1. \A r \in Revisions : committed'.ledger[r] =
              IF \E x \in k + 1 .. m : h[x] = r THEN i[r].text ELSE committed.ledger[r]
        <3>1. committed'.ledger = Over(Recorded(i, k, m), committed.ledger) /\ committed \in Works
            BY <1>1 DEF CommitUpgrade, Written, Stands, SetupsInv
        <3>2. \A x \in k + 1 .. m : h[x] \in DOMAIN i
            BY <1>2, <1>3
        <3>3. \A x \in k + 1 .. m : i[h[x]].text # None
            BY <1>1, <3>2, RevisionsAre
        <3> HIDE DEF i
        <3> QED
            BY <3>1, <3>3 DEF Over, Recorded, Works
    <2>2. committed'.ledger = Over(work.ledger, committed.ledger)
        BY <1>6 DEF Written
    <2>3. \A x : x \in 0 + 1 .. m <=> x \in 0 + 1 .. k \/ x \in k + 1 .. m
        BY <1>2
    <2>4. ASSUME NEW r \in Revisions PROVE committed'.ledger[r] = Recorded(i, 0, m)[r]
        <3>1. committed.ledger[r] = IF \E x \in 0 + 1 .. k : h[x] = r THEN i[r].text ELSE None
            BY <1>5 DEF Recorded
        <3>2. committed'.ledger[r] =
                  IF \E x \in k + 1 .. m : h[x] = r THEN i[r].text ELSE committed.ledger[r]
            BY <2>1
        <3>3. Recorded(i, 0, m)[r] = IF \E x \in 0 + 1 .. m : h[x] = r THEN i[r].text ELSE None
            BY DEF Recorded
        <3> HIDE DEF h, i
        <3> QED
            BY <2>3, <3>2, <3>1, <3>3
    <2> QED
        BY <2>2, <2>4
<1>8. Over(work.ledger, committed.ledger) = Recorded(i, 0, m)
    BY <1>5, <1>7 DEF Over, Recorded
<1>9. Over(work.objects, committed.objects) = [o \in Objects |-> MadeBy(i, 1 .. m, o)]
    <2>1. \A o \in Objects : work.objects[o] = MadeBy(i, k + 1 .. m, o)
        BY <1>2 DEF Made
    <2>2. m \in k .. Size(i)
        BY <1>2
    <2>3. \A o \in Objects : MadeBy(i, 1 .. m, o) =
              IF MadeBy(i, k + 1 .. m, o) # None THEN MadeBy(i, k + 1 .. m, o)
              ELSE MadeBy(i, 1 .. k, o)
        BY <1>1, <1>2, <2>2, MadeBySplit
    <2> HIDE DEF i, h, work
    <2> QED
        BY <1>5, <2>1, <2>3 DEF Over
<1>10. MovedTo(i, 0, m) = h[m]
    BY <1>2 DEF MovedTo
<1> QED
    BY <1>2, <1>6, <1>8, <1>9, <1>10, LeftByIs

\* A commit that does not move it changes nothing.
LEMMA CommitOfNothing ==
    ASSUME SetupsInv, NEW p \in Pods, CommitUpgrade(p),
           NEW k, NEW m, NEW b, Stands(image[p], setup[p], k, m, b), k = m
    PROVE  committed' = committed
<1> DEFINE i == image[p]
           work == setup[p].work
<1>1. /\ setup[p].step = "commit" /\ committed \in Works /\ i \in Images
    BY DEF CommitUpgrade, SetupsInv
<1>2. /\ k \in Nat /\ m = Size(i) /\ work.ledger = Recorded(i, k, k)
      /\ work.version = None /\ work.objects = Made(i, k, k, b)
    BY <1>1 DEF Stands, MovedTo
<1>3. \A o \in Objects : work.objects[o] = None
    <2>1. \A o : MadeBy(i, k + 1 .. k, o) = None
        BY <1>2, MadeByNone DEF Makers
    <2> QED
        BY <1>2, <2>1 DEF Made
<1>4. \A r \in Revisions : work.ledger[r] = None
    BY <1>2 DEF Recorded
<1>5. committed' = Written(Over(work.ledger, committed.ledger), committed.version,
                           Over(work.objects, committed.objects))
    BY <1>2 DEF CommitUpgrade
<1> HIDE DEF i, work
<1>6. Over(work.ledger, committed.ledger) = committed.ledger
    BY <1>1, <1>4 DEF Over, Works
<1>7. Over(work.objects, committed.objects) = committed.objects
    BY <1>1, <1>3 DEF Over, Works
<1> QED
    BY <1>1, <1>5, <1>6, <1>7 DEF Written, Works

\* A step other than a commit takes up an upgrade only by verifying the ledger, and moves
\* the version only where nobody else has.
LEMMA OtherUpgrades ==
    ASSUME SetupsInv, NEW p \in Pods, SetupStep(p) \/ Crash(p) \/ RollOut(p), ~CommitUpgrade(p)
    PROVE  /\ InUpgrade(p)' =>
                  /\ image'[p] = image[p]
                  /\ InUpgrade(p) \/ (~Drifted(image[p]) /\ LedgerFree(p))
           /\ setup'[p].work.version # None =>
                  /\ setup'[p].seen = setup[p].seen
                  /\ \/ setup'[p].work.version = setup[p].work.version
                     \/ /\ VersionFree(p)
                        /\ setup[p].work.version # None \/ committed.version = setup[p].seen
<1>1. setup \in [Pods -> Setups] /\ setup[p] \in Setups /\ Nothing.version = None
    BY DEF SetupsInv, Nothing, Written
<1>2. ASSUME NEW step, Goto(p, step)
      PROVE  /\ setup'[p].step = step /\ setup'[p].seen = setup[p].seen
             /\ setup'[p].work = setup[p].work
    BY <1>1, <1>2 DEF Goto, Setups
<1>3. ASSUME Fail(p)
      PROVE  setup'[p].step = "failed" /\ setup'[p].work.version = None
    BY <1>1, <1>3 DEF Fail, Idle
<1>4. ASSUME NEW step, NEW todo, NEW at, NEW seen, NEW work, Upgrade(p, step, todo, at, seen, work)
      PROVE  setup'[p].step = step /\ setup'[p].seen = seen /\ setup'[p].work = work
    BY <1>1, <1>4 DEF Upgrade
<1>5. CASE FindDatabase(p) \/ CreateDatabase(p) \/ ReadAfter(p) \/ Restart(p) \/ Crash(p)
    <2>1. Fail(p) \/ \E step \in {"find", "create", "before", "done"} : Goto(p, step)
        BY <1>5 DEF FindDatabase, CreateDatabase, ReadAfter, Restart, Crash
    <2> QED
        BY <2>1, <1>2, <1>3 DEF InUpgrade
<1>6. CASE Verify(p)
    <2>1. UNCHANGED image /\ LedgerFree(p)
        BY <1>6 DEF Verify
    <2>2. Fail(p) \/ (Goto(p, "plan") /\ ~Drifted(image[p]))
        BY <1>6 DEF Verify
    <2> QED
        BY <2>1, <2>2, <1>2, <1>3 DEF InUpgrade
<1>7. CASE ReadBefore(p)
    <2>1. /\ setup'[p].step = "verify" /\ setup'[p].work = setup[p].work
          /\ setup'[p].seen = setup[p].seen
        BY <1>1, <1>7 DEF ReadBefore, Setups
    <2> QED
        BY <2>1 DEF InUpgrade
<1>8. CASE RollOut(p)
    <2>1. setup'[p] = Idle
        BY <1>1, <1>8 DEF RollOut
    <2> QED
        BY <1>1, <2>1 DEF Idle, InUpgrade
<1>9. CASE Plan(p)
    <2>1. UNCHANGED image /\ InUpgrade(p) /\ setup[p].step = "plan"
        BY <1>9 DEF Plan, InUpgrade
    <2>2. setup[p].work.version = None
        BY <1>1, <2>1 DEF SetupsInv, Progress, Upgrading
    <2>3. CASE Fail(p)
        BY <2>1, <2>3, <1>3
    <2>4. CASE ~Fail(p)
        <3>1. \E step, todo : Upgrade(p, step, todo, 1, committed.version, setup[p].work)
            BY <1>9, <2>4 DEF Plan
        <3>2. setup'[p].work.version = None
            BY <2>2, <3>1, <1>4
        <3> QED
            BY <2>1, <3>2
    <2> QED
        BY <2>3, <2>4
<1>10. CASE RunBatch(p) \/ RecordRevision(p) \/ MoveVersion(p)
    <2>1. UNCHANGED image /\ InUpgrade(p)
        BY <1>10 DEF RunBatch, RecordRevision, MoveVersion, InUpgrade
    <2>2. CASE Fail(p)
        BY <2>1, <2>2, <1>3
    <2>3. CASE ~Fail(p) /\ ~MoveVersion(p)
        <3>1. \E step, todo, at, work : /\ Upgrade(p, step, todo, at, setup[p].seen, work)
                                        /\ work.version = setup[p].work.version
            <4>1. CASE RunBatch(p)
                BY <2>3, <4>1 DEF RunBatch, Written
            <4>2. CASE RecordRevision(p)
                BY <2>3, <4>2 DEF RecordRevision, Written
            <4> QED
                BY <1>10, <2>3, <4>1, <4>2
        <3>2. setup'[p].work.version = setup[p].work.version /\ setup'[p].seen = setup[p].seen
            BY <3>1, <1>4
        <3> QED
            BY <2>1, <3>2
    <2>4. CASE ~Fail(p) /\ MoveVersion(p)
        <3>1. \E step, todo, at, work : Upgrade(p, step, todo, at, setup[p].seen, work)
            BY <2>4 DEF MoveVersion
        <3>2. setup'[p].seen = setup[p].seen
            BY <3>1, <1>4
        <3>3. VersionFree(p) /\ (setup[p].work.version # None \/ committed.version = setup[p].seen)
            BY <2>4 DEF MoveVersion
        <3> QED
            BY <2>1, <3>2, <3>3
    <2> QED
        BY <2>2, <2>3, <2>4
<1> QED
    BY <1>5, <1>6, <1>7, <1>8, <1>9, <1>10 DEF SetupStep

LEMMA OthersKeepState ==
    ASSUME SetupsInv, StateInv, NEW p \in Pods, SetupStep(p) \/ Crash(p) \/ RollOut(p),
           ~CommitUpgrade(p)
    PROVE  StateInv'
<1>1. /\ UNCHANGED committed
      /\ \A q \in Pods \ {p} : setup'[q] = setup[q] /\ image'[q] = image[q]
    BY OtherSteps
<1>2. Applied' = Applied
    BY <1>1 DEF Applied
<1>3. SomeVersionDescribesIt'
    BY <1>1 DEF StateInv, SomeVersionDescribesIt, Describes
<1>4. \A q \in Pods \ {p} : InUpgrade(q)' <=> InUpgrade(q)
    BY <1>1 DEF InUpgrade
<1>5. InUpgrade(p)' => InUpgrade(p) \/ LedgerFree(p)
    BY OtherUpgrades
<1>6. FirstAlone'
    BY <1>2, <1>4, <1>5 DEF StateInv, FirstAlone, LedgerFree
<1>7. \A files : Drifted(files)' <=> Drifted(files)
    BY <1>1, <1>2 DEF Drifted
<1>8. InUpgrade(p)' => image'[p] = image[p] /\ (InUpgrade(p) \/ ~Drifted(image[p]))
    BY OtherUpgrades
<1>9. Agreed'
    BY <1>1, <1>4, <1>7, <1>8 DEF StateInv, Agreed, Drifted
<1>10. VersionAlone'
    BY <1>1, OtherUpgrades DEF StateInv, VersionAlone, VersionFree
<1> QED
    BY <1>3, <1>6, <1>9, <1>10 DEF StateInv

\* The database that a transaction has moved on is one that its image has left.
LEMMA StoodOnItsOwn ==
    ASSUME SamePlaces, EditedThroughout, SetupsInv, StateInv, NEW p \in Pods,
           NEW k, NEW m, NEW b, Stands(image[p], setup[p], k, m, b), k # m, InUpgrade(p)
    PROVE  committed = LeftBy(image[p], k)
<1> DEFINE i == image[p]
<1>1. i \in Images /\ Histories(i) # {}
    BY DEF SetupsInv, Stands
<1>2. /\ Size(i) \in Nat /\ k \in Nat /\ m \in Nat /\ k <= m /\ m <= Size(i)
      /\ History(i) \in [1 .. Size(i) -> DOMAIN i]
    BY <1>1, HistoryIs DEF Stands
<1>3. setup[p].work.version # None
    <2>1. m \in 1 .. Size(i)
        BY <1>2
    <2>2. History(i)[m] # None
        BY <1>1, <1>2, <2>1, RevisionsAre
    <2> QED
        BY <2>2 DEF Stands, MovedTo
<1>4. committed.version = MovedTo(i, 0, k)
    BY <1>3 DEF StateInv, VersionAlone, Stands
<1>5. CASE committed = Nothing
    <2>1. k = 0
        <3>1. SUFFICES ASSUME k # 0 PROVE FALSE
            OBVIOUS
        <3>2. k \in 1 .. Size(i)
            BY <1>2, <3>1
        <3>3. History(i)[k] # None
            BY <1>1, <1>2, <3>2, RevisionsAre
        <3> QED
            BY <1>4, <1>5, <3>1, <3>3 DEF MovedTo, Nothing, Written
    <2>2. Nothing.ledger = Recorded(i, 0, 0) /\ MovedTo(i, 0, 0) = None
        BY DEF Nothing, Written, Recorded, MovedTo
    <2>3. \A o : MadeBy(i, 1 .. 0, o) = None
        BY MadeByNone DEF Makers
    <2>4. Nothing = Written(Recorded(i, 0, 0), MovedTo(i, 0, 0),
                            [o \in Objects |-> MadeBy(i, 1 .. 0, o)])
        BY <2>2, <2>3 DEF Nothing, Written
    <2> QED
        BY <1>5, <2>1, <2>4, LeftByIs
<1>6. CASE committed # Nothing
    <2>1. PICK j \in Images : Describes(j)
        BY <1>6 DEF StateInv, SomeVersionDescribesIt
    <2>2. Histories(j) # {} /\ \E n \in 0 .. Size(j) : committed = LeftBy(j, n)
        BY <2>1 DEF Describes, Size
    <2>3. PICK n \in 0 .. Size(j) : committed = LeftBy(j, n)
        BY <2>2
    <2>4. ~Drifted(i) /\ k \in 0 .. Size(i)
        BY <1>2 DEF StateInv, Agreed
    <2> HIDE DEF i
    <2> QED
        BY <1>1, <1>4, <2>2, <2>3, <2>4, SameState DEF i
<1> QED
    BY <1>5, <1>6

\* A commit that moves it leaves every other upgrade's files uncontradicted: they share a
\* revision with what was applied, the first, and so the scripts of all they share.
LEMMA CommitContradictsNone ==
    ASSUME SamePlaces, EditedThroughout, SetupsInv, AppliedInv, StateInv,
           NEW p \in Pods, CommitUpgrade(p),
           NEW k, NEW m, NEW b, Stands(image[p], setup[p], k, m, b), k # m,
           NEW q \in Pods \ {p}, InUpgrade(q)
    PROVE  ~Drifted(image[q])'
<1> DEFINE i == image[p]
           j == image[q]
           h == History(i)
<1>1. /\ setup[p].step = "commit" /\ i \in Images /\ j \in Images /\ Histories(i) # {}
      /\ image' = image
    BY DEF CommitUpgrade, SetupsInv, Stands
<1>2. /\ Size(i) \in Nat /\ k \in Nat /\ m \in Nat /\ k <= m /\ m = Size(i)
      /\ h \in [1 .. Size(i) -> DOMAIN i]
    BY <1>1, HistoryIs DEF Stands
<1>3. committed = LeftBy(i, k) /\ committed' = LeftBy(i, m)
    <2>1. InUpgrade(p)
        BY <1>1 DEF InUpgrade
    <2>2. committed = LeftBy(i, k)
        BY <2>1, StoodOnItsOwn
    <2> QED
        BY <2>2, CommitDescribes
<1>4. Applied # {} /\ ~Drifted(j)
    <2>1. InUpgrade(p) /\ p # q
        BY <1>1 DEF InUpgrade
    <2> QED
        BY <2>1 DEF StateInv, FirstAlone, Agreed
<1>5. committed.ledger = Recorded(i, 0, k) /\ committed'.ledger = Recorded(i, 0, m)
    BY <1>2, <1>3, LeftByIs DEF Written
<1>6. 1 \in 1 .. k /\ 1 \in 0 + 1 .. k
    <2>1. PICK r \in Revisions : committed.ledger[r] # None
        BY <1>4 DEF Applied
    <2>2. \E x \in 0 + 1 .. k : h[x] = r
        BY <1>5, <2>1 DEF Recorded
    <2> QED
        BY <1>2, <2>2
<1> DEFINE first == h[1]
<1>7. first \in DOMAIN i /\ first \in Revisions /\ i[first].text # None
    BY <1>1, <1>2, <1>6, RevisionsAre
<1>8. committed.ledger[first] = i[first].text
    BY <1>5, <1>6, <1>7 DEF Recorded
<1>9. ASSUME NEW r \in DOMAIN j, r \in Applied' PROVE j[r].text = committed'.ledger[r]
    <2>1. r \in Revisions /\ committed'.ledger[r] # None
        BY <1>9 DEF Applied
    <2>2. PICK x \in 0 + 1 .. m : h[x] = r
        BY <1>5, <2>1 DEF Recorded
    <2>3. committed'.ledger[r] = i[r].text
        BY <1>5, <2>1, <2>2 DEF Recorded
    <2>4. x \in 1 .. Size(i) /\ r \in DOMAIN i
        BY <1>2, <2>2
    <2>5. \A s \in DOMAIN i \cap DOMAIN j : i[s].down \in DOMAIN j \cup {None}
        BY <1>1, MigrationAssumption DEF SamePlaces
    <2>6. first \in DOMAIN j
        <3>1. History(i)[x] \in DOMAIN j
            BY <2>2, <1>9
        <3>2. \A y \in 1 .. x : History(i)[y] \in DOMAIN j
            BY <1>1, <2>4, <2>5, <3>1, HasFromTheStart
        <3>3. 1 \in 1 .. x
            BY <2>4
        <3> QED
            BY <3>2, <3>3
    <2>7. j[first].text = i[first].text
        BY <1>4, <1>7, <1>8, <2>6 DEF Drifted, Applied
    <2>8. j[r] = i[r]
        BY <1>1, <1>7, <2>4, <2>6, <2>7 DEF EditedThroughout
    <2> QED
        BY <2>3, <2>8
<1>10. image'[q] = j
    BY <1>1
<1> HIDE DEF j
<1> QED
    BY <1>9, <1>10 DEF Drifted

LEMMA CommitKeepsState ==
    ASSUME SamePlaces, EditedThroughout, SetupsInv, AppliedInv, StateInv,
           NEW p \in Pods, CommitUpgrade(p)
    PROVE  StateInv'
<1>1. setup[p].step = "commit" /\ InUpgrade(p) /\ image' = image
    BY DEF CommitUpgrade, InUpgrade
<1>2. PICK k \in Nat, m \in Nat, b \in Nat : Stands(image[p], setup[p], k, m, b)
    BY <1>1, UpgradeStands DEF Upgrading
<1>3. /\ setup'[p].step = "after" /\ setup'[p].work = Nothing
      /\ \A q \in Pods \ {p} : setup'[q] = setup[q]
    <2>1. setup \in [Pods -> Setups] /\ setup[p] \in Setups
        BY DEF SetupsInv
    <2> QED
        BY <2>1 DEF CommitUpgrade, Setups
<1>4. ~InUpgrade(p)' /\ \A q \in Pods \ {p} : InUpgrade(q)' <=> InUpgrade(q)
    BY <1>3 DEF InUpgrade
<1>5. \A r \in Applied : r \in Applied'
    BY <1>2, CommitApplies
<1>6. FirstAlone'
    BY <1>4, <1>5 DEF StateInv, FirstAlone
<1>7. VersionAlone'
    <2>1. setup'[p].work.version = None
        BY <1>3 DEF Nothing, Written
    <2>2. ASSUME NEW q \in Pods \ {p}, setup[q].work.version # None
          PROVE  /\ committed'.version = setup'[q].seen
                 /\ \A o \in Pods \ {q} : setup'[o].work.version = None
        <3>1. /\ committed.version = setup[q].seen
              /\ \A o \in Pods \ {q} : setup[o].work.version = None
            BY <2>2 DEF StateInv, VersionAlone
        <3>2. committed'.version = committed.version
            BY <3>1 DEF CommitUpgrade, Written
        <3> QED
            BY <1>3, <2>1, <3>1, <3>2
    <2> QED
        BY <1>3, <2>1, <2>2 DEF VersionAlone
<1>8. CASE k = m
    <2>1. committed' = committed
        BY <1>2, <1>8, CommitOfNothing
    <2>2. SomeVersionDescribesIt' /\ \A files : Drifted(files)' <=> Drifted(files)
        BY <2>1 DEF StateInv, SomeVersionDescribesIt, Describes, Drifted, Applied
    <2>3. Agreed'
        BY <1>1, <1>4, <2>2 DEF StateInv, Agreed, Drifted
    <2> QED
        BY <1>6, <1>7, <2>2, <2>3 DEF StateInv
<1>9. CASE k # m
    <2>1. committed' = LeftBy(image[p], m)
        BY <1>1, <1>2, <1>9, StoodOnItsOwn, CommitDescribes
    <2>2. image[p] \in Images /\ Histories(image[p]) # {} /\ m \in 0 .. Size(image[p])
        BY <1>2 DEF SetupsInv, Stands
    <2>3. SomeVersionDescribesIt'
        BY <2>1, <2>2 DEF SomeVersionDescribesIt, Describes, Size
    <2>4. \A q \in Pods : InUpgrade(q)' => ~Drifted(image[q])'
        BY <1>2, <1>4, <1>9, CommitContradictsNone
    <2>5. Agreed'
        BY <2>4 DEF Agreed
    <2> QED
        BY <1>6, <1>7, <2>3, <2>5 DEF StateInv
<1> QED
    BY <1>8, <1>9

LEMMA InitState ==
    ASSUME MigrationInit
    PROVE  StateInv
<1>1. committed = Nothing /\ \A p \in Pods : setup[p] = Idle
    BY DEF MigrationInit
<1>2. \A p \in Pods : ~InUpgrade(p) /\ setup[p].work.version = None
    BY <1>1 DEF Idle, InUpgrade, Nothing, Written
<1> QED
    BY <1>1, <1>2 DEF StateInv, SomeVersionDescribesIt, FirstAlone, Agreed, VersionAlone

-------------------------------------------------------------------------------
\* What was applied before a setup began is applied.
BoundsInv ==
    /\ database \in BOOLEAN
    /\ \A p \in Pods : setup[p].before \subseteq Applied
    /\ rollouts \in 0 .. MaxRollouts /\ crashes \in 0 .. MaxCrashes

LEMMA BoundsKeep ==
    ASSUME SetupsInv, BoundsInv, NEW p \in Pods, SetupStep(p) \/ Crash(p) \/ RollOut(p)
    PROVE  BoundsInv'
<1>1. setup \in [Pods -> Setups] /\ setup[p] \in Setups
    BY DEF SetupsInv
<1>2. ASSUME NEW q \in Pods, Fail(p) PROVE setup'[q].before \in {setup[q].before, {}}
    BY <1>1, <1>2 DEF Fail, Idle
<1>3. ASSUME NEW q \in Pods, NEW step, Goto(p, step) PROVE setup'[q].before = setup[q].before
    BY <1>1, <1>3 DEF Goto, Setups
<1>4. ASSUME NEW q \in Pods, NEW step, NEW todo, NEW at, NEW seen, NEW work,
             Upgrade(p, step, todo, at, seen, work)
      PROVE  setup'[q].before = setup[q].before
    BY <1>1, <1>4 DEF Upgrade
<1>5. database' \in BOOLEAN
    BY DEF BoundsInv, SetupStep, FindDatabase, CreateDatabase, ReadBefore, Verify, Plan, RunBatch,
           RecordRevision, MoveVersion, CommitUpgrade, ReadAfter, Restart, Crash, RollOut
<1>6. rollouts' \in 0 .. MaxRollouts /\ crashes' \in 0 .. MaxCrashes
    <2>1. CASE Crash(p)
        BY <2>1, MigrationAssumption DEF BoundsInv, Crash
    <2>2. CASE RollOut(p)
        BY <2>2, MigrationAssumption DEF BoundsInv, RollOut
    <2>3. CASE SetupStep(p)
        BY <2>3 DEF BoundsInv, bounds, SetupStep, FindDatabase, CreateDatabase, ReadBefore, Verify,
                    Plan, RunBatch, RecordRevision, MoveVersion, CommitUpgrade, ReadAfter, Restart
    <2> QED
        BY <2>1, <2>2, <2>3
<1>7. Applied \subseteq Applied'
    <2>1. CASE CommitUpgrade(p)
        <3>1. PICK k \in Nat, m \in Nat, b \in Nat : Stands(image[p], setup[p], k, m, b)
            BY <2>1, UpgradeStands DEF CommitUpgrade, Upgrading
        <3> QED
            BY <2>1, <3>1, CommitApplies
    <2>2. CASE ~CommitUpgrade(p)
        BY <2>2, OtherSteps DEF Applied
    <2> QED
        BY <2>1, <2>2
<1>8. ASSUME NEW q \in Pods
      PROVE  setup'[q].before \in {setup[q].before, Applied, {}}
    <2>1. CASE \/ FindDatabase(p) \/ CreateDatabase(p) \/ Verify(p) \/ ReadAfter(p)
               \/ Restart(p) \/ Crash(p)
        <3>1. Fail(p) \/ \E step : Goto(p, step)
            BY <2>1 DEF FindDatabase, CreateDatabase, Verify, ReadAfter, Restart, Crash
        <3> QED
            BY <3>1, <1>2, <1>3
    <2>2. CASE ReadBefore(p)
        BY <1>1, <2>2 DEF ReadBefore, Setups
    <2>3. CASE Plan(p) \/ RunBatch(p) \/ RecordRevision(p) \/ MoveVersion(p)
        <3>1. Fail(p) \/ \E step, todo, at, seen, work : Upgrade(p, step, todo, at, seen, work)
            <4>1. CASE Plan(p)
                BY <4>1 DEF Plan
            <4>2. CASE RunBatch(p)
                BY <4>2 DEF RunBatch
            <4>3. CASE RecordRevision(p)
                BY <4>3 DEF RecordRevision
            <4>4. CASE MoveVersion(p)
                BY <4>4 DEF MoveVersion
            <4> QED
                BY <2>3, <4>1, <4>2, <4>3, <4>4
        <3> QED
            BY <3>1, <1>2, <1>4
    <2>4. CASE CommitUpgrade(p)
        BY <1>1, <2>4 DEF CommitUpgrade, Setups
    <2>5. CASE RollOut(p)
        BY <1>1, <2>5 DEF RollOut, Idle, Setups
    <2> QED
        BY <2>1, <2>2, <2>3, <2>4, <2>5 DEF SetupStep
<1>9. \A q \in Pods : setup'[q].before \subseteq Applied'
    BY <1>7, <1>8 DEF BoundsInv
<1> QED
    BY <1>5, <1>6, <1>9 DEF BoundsInv

LEMMA InitBounds ==
    ASSUME MigrationInit
    PROVE  BoundsInv
<1>1. \A p \in Pods : setup[p].before = {}
    BY DEF MigrationInit, Idle
<1>2. rollouts \in 0 .. MaxRollouts /\ crashes \in 0 .. MaxCrashes
    BY MigrationAssumption DEF MigrationInit
<1>3. database \in BOOLEAN
    BY DEF MigrationInit
<1> QED
    BY <1>1, <1>2, <1>3 DEF BoundsInv

-------------------------------------------------------------------------------
LEMMA TypedMigration ==
    ASSUME SetupsInv, BoundsInv
    PROVE  MigrationTypeOK
BY DEF SetupsInv, BoundsInv, MigrationTypeOK, Works, TextOrNone

LEMMA HeadOfDone ==
    ASSUME AppliedInv
    PROVE  DoneMeansHead
BY DEF AppliedInv, DoneMeansHead

-------------------------------------------------------------------------------
(* The runs, while pods are replaced and migrate.                          *)

LEMMA ReplaceReports ==
    ASSUME WritersAssumption, ReportsInv, NEW p \in Pods, Replace(p)
    PROVE  ReportsInv' /\ EndedReleasing(SessionsOf(p))
<1>1. EndedReleasing(SessionsOf(p)) /\ SessionsOf(p) \in SUBSET Sessions
    BY DEF Replace, EndedReleasing, Ended, ReportsInv, WritersInv, Typed, SessionsOf
<1>2. WritersInv'
    BY <1>1, EndedKeeps DEF EndedReleasing, ReportsInv
<1>3. \A t \in Sessions : SessionInv(t)'
    BY <1>1, EndedReports
<1> QED
    BY <1>1, <1>2, <1>3 DEF ReportsInv

\* What a step of a pod or a session is to the runs.
LEMMA StepsAre ==
    ASSUME [Next]_vars
    PROVE  \/ UNCHANGED writerVars
           \/ \E p \in Pods : Replace(p)
           \/ \E s \in Sessions : StartRun(s) \/ GetRun(s) \/ WriterStep(s)
BY DEF Next, vars, Migrate, Serve

LEMMA NextReports ==
    ASSUME WritersAssumption, ReportsInv, [Next]_vars
    PROVE  ReportsInv'
BY StepsAre, StutterReports, ReplaceReports, WriterStepReports

THEOREM RunsInvariant == Spec => []ReportsInv
<1>1. Init => ReportsInv
    BY WritersAssumption, InitReports DEF Init
<1>2. ReportsInv /\ [Next]_vars => ReportsInv'
    BY WritersAssumption, NextReports
<1> QED
    BY <1>1, <1>2, PTL DEF Spec

\* Of a run that several sessions persist at once, in pods that may be replaced at any
\* statement, the row, the metrics and the findings are those of one attempt, all of them.
THEOREM RunsAreOfOneAttempt == Spec => []RowsAreOfOneAttempt
BY RunsInvariant, PTL DEF ReportsInv, WritersInv

\* The verdicts a stored run was assessed by are stored.
THEOREM VerdictsOfRunsAreStored == Spec => []VerdictsAreStored
BY RunsInvariant, PTL DEF ReportsInv, WritersInv

\* A report read in several queries is of one attempt if its run has not been replaced
\* since the first of them.
THEOREM ReportsBelongTogether == Spec => []ReportsAreWhole
<1>1. ReportsInv => ReportsAreWhole
    BY WritersAssumption, InvReportsAreWhole
<1> QED
    BY <1>1, RunsInvariant, PTL

\* A request is answered with the attempt it has made, if no command persists its run.
THEOREM RequestsAreAnswered == Spec => []AnswersAreTheirOwn
<1>1. ReportsInv => AnswersAreTheirOwn
    BY WritersAssumption, InvAnswersAreTheirOwn
<1> QED
    BY <1>1, RunsInvariant, PTL

\* Of two attempts that requests have made of a run, the later one stays.
THEOREM RequestsAreStoredInOrder == Spec => GateKeepsOrder
<1>1. ASSUME ReportsInv, [Next]_vars, NEW r \in Runs,
             rows[RunRow(r)].val # 0, Requested(rows[RunRow(r)].val), Requested(rows'[RunRow(r)].val)
      PROVE  rows[RunRow(r)].val <= rows'[RunRow(r)].val
    <2>1. RunRow(r) \in Keys /\ rows[RunRow(r)].val \in Nat
        BY <1>1, KeysAre DEF ReportsInv, WritersInv, Typed, Row
    <2>2. CASE UNCHANGED writerVars
        BY <2>1, <2>2 DEF writerVars
    <2>3. ASSUME NEW p \in Pods, Replace(p) PROVE rows[RunRow(r)].val <= rows'[RunRow(r)].val
        BY <2>1, <2>3 DEF Replace, Stored, ReportsInv, WritersInv, Typed, Row
    <2>4. ASSUME NEW s \in Sessions, StartRun(s) \/ GetRun(s) \/ WriterStep(s)
          PROVE  rows[RunRow(r)].val <= rows'[RunRow(r)].val
        BY <1>1, <2>4, WritersAssumption, KeepsOrder
    <2> QED
        BY <1>1, <2>2, <2>3, <2>4, StepsAre
<1>2. ReportsInv /\ [Next]_vars =>
          [\A r \in Runs : rows[RunRow(r)].val # 0 /\ Requested(rows[RunRow(r)].val)
                           /\ Requested(rows'[RunRow(r)].val)
                           => rows[RunRow(r)].val <= rows'[RunRow(r)].val]_writerVars
    BY <1>1
<1> QED
    BY <1>2, RunsInvariant, PTL DEF Spec, GateKeepsOrder

-------------------------------------------------------------------------------
LEMMA NextLedger ==
    ASSUME LedgerInv, [Next]_vars
    PROVE  /\ LedgerInv'
           /\ \A r \in Applied : committed'.ledger[r] = committed.ledger[r]
<1>1. CASE UNCHANGED migrationVars
    BY <1>1 DEF migrationVars, LedgerInv, RecordedOnce, Records
<1>2. ASSUME NEW p \in Pods, SetupStep(p) \/ Crash(p) \/ RollOut(p)
      PROVE  LedgerInv' /\ \A r \in Applied : committed'.ledger[r] = committed.ledger[r]
    BY <1>2, MigrationKeeps, LedgerStays
<1> QED
    BY <1>1, <1>2 DEF Next, Migrate, Replace, Serve, vars

\* What was applied stays applied, by whatever image: its ledger row is not changed or
\* lost, although the pods that migrate at once and those that die write to it too.
THEOREM LedgerIsKept == Spec => LedgerOnlyGrows
<1>1. Init => LedgerInv
    BY InitLedger DEF Init
<1>2. LedgerInv /\ [Next]_vars => LedgerInv'
    BY NextLedger
<1>3. LedgerInv /\ [Next]_vars =>
          [\A r \in Applied : committed'.ledger[r] = committed.ledger[r]]_migrationVars
    BY NextLedger
<1> QED
    BY <1>1, <1>2, <1>3, PTL DEF Spec, LedgerOnlyGrows

-------------------------------------------------------------------------------
\* What a step of a pod or a session is to the migrations.
LEMMA NextMigrates ==
    ASSUME [Next]_vars
    PROVE  \/ UNCHANGED migrationVars
           \/ \E p \in Pods : SetupStep(p) \/ Crash(p) \/ RollOut(p)
BY DEF Next, Migrate, Replace, Serve, vars

LEMMA MigrationsStay ==
    ASSUME UNCHANGED migrationVars
    PROVE  /\ SetupsInv => SetupsInv'
           /\ BoundsInv => BoundsInv'
           /\ AppliedInv => AppliedInv'
           /\ StateInv => StateInv'
<1>1. UNCHANGED <<image, database, committed, setup, rollouts, crashes>>
    BY DEF migrationVars
<1>2. UNCHANGED Applied
    BY <1>1 DEF Applied
<1>3. SetupsInv => SetupsInv'
    BY <1>1 DEF SetupsInv
<1>4. BoundsInv => BoundsInv'
    BY <1>1, <1>2 DEF BoundsInv
<1>5. AppliedInv => AppliedInv'
    BY <1>1, <1>2 DEF AppliedInv
<1>6. StateInv => StateInv'
    BY <1>1, <1>2 DEF StateInv, SomeVersionDescribesIt, Describes, FirstAlone, Agreed, Drifted,
                      VersionAlone, InUpgrade
<1> QED
    BY <1>3, <1>4, <1>5, <1>6

\* Each setup has planned what its image says is missing, has run and recorded the planned
\* revisions up to where it stands and nothing else, and knows a ledger that still stands,
\* whatever the other pods' setups, failures and restarts have done meanwhile.
THEOREM SetupsInvariant == Spec => [](SetupsInv /\ BoundsInv)
<1>1. Init => SetupsInv /\ BoundsInv
    BY InitSetups, InitBounds DEF Init
<1>2. ASSUME SetupsInv, BoundsInv, [Next]_vars PROVE SetupsInv' /\ BoundsInv'
    <2>1. CASE UNCHANGED migrationVars
        BY <1>2, <2>1, MigrationsStay
    <2>2. ASSUME NEW p \in Pods, SetupStep(p) \/ Crash(p) \/ RollOut(p) PROVE SetupsInv' /\ BoundsInv'
        BY <1>2, <2>2, SetupsMove, BoundsKeep
    <2> QED
        BY <1>2, <2>1, <2>2, NextMigrates
<1> QED
    BY <1>1, <1>2, PTL DEF Spec

\* The database, what is applied and what the sessions hold are what they are declared as;
\* what a setup found applied stays applied.
THEOREM RolloutIsTyped == Spec => []TypeOK
<1>1. Init => Bounded
    BY WritersAssumption, InitBounded DEF Init
<1>2. ReportsInv /\ Bounded /\ [Next]_vars => Bounded'
    <2>1. SUFFICES ASSUME ReportsInv, Bounded, [Next]_vars PROVE Bounded'
        OBVIOUS
    <2>2. Typed
        BY <2>1 DEF ReportsInv, WritersInv
    <2>3. CASE UNCHANGED writerVars
        BY <2>1, <2>3 DEF writerVars, Bounded
    <2>4. ASSUME NEW p \in Pods, Replace(p) PROVE Bounded'
        <3>1. SessionsOf(p) \in SUBSET Sessions /\ Ended(SessionsOf(p))
            BY <2>1, <2>4, ReplaceReports, WritersAssumption DEF EndedReleasing, SessionsOf
        <3> QED
            BY <2>1, <2>2, <3>1, WritersAssumption, EndedBounded
    <2>5. ASSUME NEW s \in Sessions, StartRun(s) \/ GetRun(s) \/ WriterStep(s) PROVE Bounded'
        BY <2>1, <2>2, <2>5, WritersAssumption, WriterStepBounded
    <2> QED
        BY <2>1, <2>3, <2>4, <2>5, StepsAre
<1>3. SetupsInv /\ BoundsInv /\ ReportsInv /\ Bounded => TypeOK
    BY WritersAssumption, BoundedTypes, TypedMigration DEF TypeOK, ReportsInv, WritersInv
<1> QED
    BY <1>1, <1>2, <1>3, SetupsInvariant, RunsInvariant, PTL DEF Spec

LEMMA AppliedInvariant ==
    ASSUME SamePlaces
    PROVE  Spec => [](SetupsInv /\ AppliedInv)
<1>1. Init => SetupsInv /\ AppliedInv
    BY InitSetups, InitApplied DEF Init
<1>2. ASSUME SetupsInv, AppliedInv, [Next]_vars PROVE SetupsInv' /\ AppliedInv'
    <2>1. CASE UNCHANGED migrationVars
        BY <1>2, <2>1, MigrationsStay
    <2>2. ASSUME NEW p \in Pods, SetupStep(p) \/ Crash(p) \/ RollOut(p) PROVE SetupsInv' /\ AppliedInv'
        BY <1>2, <2>2, SetupsMove, AppliedKeeps
    <2> QED
        BY <1>2, <2>1, <2>2, NextMigrates
<1> QED
    BY <1>1, <1>2, PTL DEF Spec

\* A pod serves with all of its image's revisions applied, whatever other pods' setups have
\* done, as long as revisions keep their places.
THEOREM ServingMeansHead ==
    ASSUME SamePlaces
    PROVE  Spec => []DoneMeansHead
BY AppliedInvariant, HeadOfDone, PTL

LEMMA NextState ==
    ASSUME SamePlaces, EditedThroughout, SetupsInv, AppliedInv, StateInv, [Next]_vars
    PROVE  SetupsInv' /\ AppliedInv' /\ StateInv'
<1>1. CASE UNCHANGED migrationVars
    BY <1>1, MigrationsStay
<1>2. ASSUME NEW p \in Pods, SetupStep(p) \/ Crash(p) \/ RollOut(p)
      PROVE  SetupsInv' /\ AppliedInv' /\ StateInv'
    <2>1. SetupsInv' /\ AppliedInv'
        BY <1>2, SetupsMove, AppliedKeeps
    <2>2. CASE CommitUpgrade(p)
        BY <2>1, <2>2, CommitKeepsState
    <2>3. CASE ~CommitUpgrade(p)
        BY <1>2, <2>1, <2>3, OthersKeepState
    <2> QED
        BY <2>2, <2>3
<1> QED
    BY <1>1, <1>2, NextMigrates

\* Tables, version and ledger are always what the revisions of one image leave, however
\* many pods of however many images migrate at once and wherever they fail.
THEOREM DatabaseIsOfOneVersion ==
    ASSUME SamePlaces, EditedThroughout
    PROVE  Spec => []SomeVersionDescribesIt
<1>1. Init => SetupsInv /\ AppliedInv /\ StateInv
    BY InitSetups, InitApplied, InitState DEF Init
<1>2. SetupsInv /\ AppliedInv /\ StateInv /\ [Next]_vars => SetupsInv' /\ AppliedInv' /\ StateInv'
    BY NextState
<1>3. StateInv => SomeVersionDescribesIt
    BY DEF StateInv
<1> QED
    BY <1>1, <1>2, <1>3, PTL DEF Spec
===============================================================================
