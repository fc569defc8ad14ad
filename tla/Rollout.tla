-------------------------------- MODULE Rollout --------------------------------
(***************************************************************************)
(* The pods of MigrationLedger with the sessions of RunWriters in them: a  *)
(* pod serves once its setup has ended, and a new image is rolled out to   *)
(* one pod while another persists, reads or migrates.                      *)
(***************************************************************************)
EXTENDS MigrationLedger, RunWriters

CONSTANTS
    PodOf,        \* the pod each session runs in
    Deployments   \* [pods, images, offered, sessions, attempts]: the pods in use, what
                  \* they run at first, what may be rolled out to them, the sessions in
                  \* use and, a bound, their executions

ASSUME RolloutAssumption ==
    /\ PodOf \in [Sessions -> Pods]
    /\ \A d \in Deployments : d.pods \subseteq Pods /\ d.sessions \subseteq Sessions
                                /\ d.images \cup d.offered \subseteq Images
                                /\ d.attempts \in Nat

VARIABLE deployment   \* never changes

vars == <<migrationVars, writerVars, deployment>>

SessionsOf(p) == {s \in Sessions : PodOf[s] = p}

Init ==
    /\ MigrationInit /\ WritersInit
    /\ deployment \in Deployments
    /\ \A p \in Pods : image[p] \in deployment.images

\* DDL takes a schema lock, which waits for open transactions on the tables and
\* which their statements wait for.
RowsAreFree == \A k \in Keys : rows[k].by = NoOne
TablesAreFree == \A p \in Pods : \A o \in Objects : setup[p].work.objects[o] = None

Migrate(p) ==
    /\ p \in deployment.pods
    /\ setup[p].step = "batch" => RowsAreFree
    /\ SetupStep(p) \/ Crash(p)
    /\ UNCHANGED <<writerVars, deployment>>

\* The application container starts after the init container has ended.
Serving(s) == s \in deployment.sessions /\ setup[PodOf[s]].step = "done"

Serve(s) ==
    /\ Serving(s)
    /\ \/ StartRun(s) \/ GetRun(s)
       \/ WriterStep(s) /\ (Statement(s) => TablesAreFree)
    /\ Len(attempts') <= deployment.attempts
    /\ UNCHANGED <<migrationVars, deployment>>

\* The sessions of a pod that is replaced end with it, and so does its gate.
Replace(p) ==
    /\ RollOut(p)
    /\ rows' = [k \in Keys |-> IF rows[k].by \in SessionsOf(p) THEN Stored(rows[k].val) ELSE rows[k]]
    /\ writer' = [s \in Sessions |-> IF s \in SessionsOf(p) THEN Resting ELSE writer[s]]
    /\ gate' = IF gate \in SessionsOf(p) THEN NoOne ELSE gate
    /\ image'[p] \in deployment.offered
    /\ UNCHANGED <<attempts, deployment>>

Next ==
    \/ \E p \in Pods : Migrate(p) \/ Replace(p)
    \/ \E s \in Sessions : Serve(s)

\* Pods are started until their setup ends, statements and waits for locks end, and
\* the server ends a deadlock.
Fairness ==
    /\ \A p \in Pods : SF_vars(Migrate(p) /\ SetupStep(p))
    /\ \A s \in Sessions : WF_vars(Serve(s) /\ WriterStep(s))

Spec == Init /\ [][Next]_vars /\ Fairness

-------------------------------------------------------------------------------
TypeOK == MigrationTypeOK /\ WritersTypeOK

\* A pod whose image describes the database for good ends its setup, although setups
\* of other pods, runs and failures come in between.
SetupsEnd ==
    \A p \in Pods :
        (p \in deployment.pods /\ <>[]Describes(image[p])) => <>[](setup[p].step = "done")
===============================================================================
