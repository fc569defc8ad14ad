---------------------------- MODULE MigrationLedger ----------------------------
(***************************************************************************)
(* `alerts-bi db setup` on every rollout: pods that find or create the     *)
(* database and bring it to the head of the revisions in their own image,  *)
(* each able to fail or die at any point and to be started again.          *)
(*   migrate_database, migrate                 src/db/migrate.py           *)
(*   verify_ledger, apply_sql                  src/db/ledger.py            *)
(*   run_migrations_online                     src/db/migrations/env.py    *)
(* A revision's file is a sequence of GO batches, each making one object;  *)
(* its text is a value, which stands for its checksum as well.             *)
(***************************************************************************)
EXTENDS Integers, Sequences, FiniteSets

CONSTANTS
    Pods,
    Images,      \* an image: revision -> [text, down, batches], batches being
                 \* [object, again], "again" for CREATE OR ALTER
    None,        \* no revision, no text
    MaxRollouts, \* bound: images rolled out to a running pod
    MaxCrashes   \* bound: failures that nothing in the model causes

Revisions == UNION {DOMAIN i : i \in Images}
Scripts == UNION {{i[r] : r \in DOMAIN i} : i \in Images}
Texts == {script.text : script \in Scripts}
Objects == UNION {{script.batches[k].object : k \in DOMAIN script.batches} : script \in Scripts}

ASSUME MigrationAssumption ==
    /\ MaxRollouts \in Nat /\ MaxCrashes \in Nat
    /\ None \notin Revisions \cup Texts
    /\ \A i \in Images : IsFiniteSet(DOMAIN i)
    /\ \A i \in Images : \A r \in DOMAIN i :
           /\ i[r].down \in (DOMAIN i \ {r}) \cup {None}
           /\ i[r].batches \in Seq([object : Objects, again : BOOLEAN]) \ {<<>>}

VARIABLES
    image,      \* of each pod
    database,   \* does it exist?
    committed,  \* what every session sees of it
    setup,      \* the invocation of each pod
    rollouts, crashes

migrationVars == <<image, database, committed, setup, rollouts, crashes>>
bounds == <<rollouts, crashes>>

\* schema_migrations, alembic_version, and the text each object was made by.
Written(ledger, version, objects) == [ledger |-> ledger, version |-> version, objects |-> objects]
Nothing == Written([r \in Revisions |-> None], None, [o \in Objects |-> None])

\* An invocation: the revisions still to run, the batch it is at, what its open
\* transaction has written, the version it has read and the ledger it found.
Idle == [step |-> "find", todo |-> <<>>, at |-> 1, work |-> Nothing, seen |-> None, before |-> {}]

MigrationInit ==
    /\ image \in [Pods -> Images]
    /\ database = FALSE
    /\ committed = Nothing
    /\ setup = [p \in Pods |-> Idle]
    /\ rollouts = 0
    /\ crashes = 0

Applied == {r \in Revisions : committed.ledger[r] # None}

-------------------------------------------------------------------------------
\* An upgrade is one transaction: from the check of the ledger, whose queries begin
\* it, to the commit in env.py.
InUpgrade(p) == setup[p].step \in {"plan", "batch", "record", "version", "commit"}

\* ensure_ledger creates the table where there is none, and the schema lock on it
\* keeps every other session out until the transaction ends.
LedgerFree(p) == Applied = {} => \A q \in Pods \ {p} : ~InUpgrade(q)

\* What an open transaction has written is locked until it ends.
ObjectFree(p, o) == \A q \in Pods \ {p} : setup[q].work.objects[o] = None
RowFree(p, r) == \A q \in Pods \ {p} : setup[q].work.ledger[r] = None
VersionFree(p) == \A q \in Pods \ {p} : setup[q].work.version = None

Goto(p, step) == setup' = [setup EXCEPT ![p].step = step]
Fail(p) == setup' = [setup EXCEPT ![p] = [Idle EXCEPT !.step = "failed"]]

\* An upgrade goes on.
Upgrade(p, step, todo, at, seen, work) ==
    setup' = [setup EXCEPT ![p] = [step |-> step, todo |-> todo, at |-> at, seen |-> seen,
                                   work |-> work, before |-> setup[p].before]]

-------------------------------------------------------------------------------
\* An image's revisions in the order of its graph: one such order if the graph has one
\* head, none if it has several or a cycle.
Histories(files) ==
    {h \in [1 .. Cardinality(DOMAIN files) -> DOMAIN files] :
        /\ \A r \in DOMAIN files : \E n \in DOMAIN h : h[n] = r
        /\ \A n \in DOMAIN h : files[h[n]].down = IF n = 1 THEN None ELSE h[n - 1]}

History(files) == CHOOSE h \in Histories(files) : TRUE

\* How many of them have run when the database is at `version`.
Position(files, version) ==
    IF version = None THEN 0 ELSE CHOOSE n \in DOMAIN History(files) : History(files)[n] = version

\* A mutant: the upgrade stops short of the head.
StopsShort(files, version) ==
    IF version = None THEN <<History(files)[1]>> ELSE <<>>
\* What Alembic runs to bring a database at `version` to the head.
Missing(files, version) ==
    SubSeq(History(files), Position(files, version) + 1, Len(History(files)))

Script(p) == image[p][Head(setup[p].todo)]

-------------------------------------------------------------------------------
\* A mutant: the database is created without looking.
NeverSeen == FALSE
\* migrate_database looks for the database in one connection to master and creates
\* it if it was not there; another pod may have created it in between.
DatabaseSeen == database

FindDatabase(p) ==
    /\ setup[p].step = "find"
    /\ Goto(p, IF DatabaseSeen THEN "before" ELSE "create")
    /\ UNCHANGED <<image, database, committed, bounds>>

CreateDatabase(p) ==
    /\ setup[p].step = "create"
    /\ IF database THEN Fail(p) ELSE Goto(p, "before")
    /\ database' = TRUE
    /\ UNCHANGED <<image, committed, bounds>>

\* migrate reads the ledger before and after; what ensure_ledger creates here is
\* rolled back when the connection closes.
ReadBefore(p) ==
    /\ setup[p].step = "before"
    /\ LedgerFree(p)
    /\ setup' = [setup EXCEPT ![p].step = "verify", ![p].before = Applied]
    /\ UNCHANGED <<image, database, committed, bounds>>

\* A mutant: the ledger is not compared with the files.
NoDrift(files) == files = <<>>
\* A ledger row without a file is left alone.
Drifted(files) ==
    \E r \in Applied \cap DOMAIN files : files[r].text # committed.ledger[r]

Verify(p) ==
    /\ setup[p].step = "verify"
    /\ LedgerFree(p)
    /\ IF Drifted(image[p]) THEN Fail(p) ELSE Goto(p, "plan")
    /\ UNCHANGED <<image, database, committed, bounds>>

\* Alembic refuses several heads and a version the image does not have.
CanUpgrade(files, version) ==
    Histories(files) # {} /\ version \in DOMAIN files \cup {None}

Plan(p) ==
    /\ setup[p].step = "plan"
    /\ VersionFree(p)
    /\ LET todo == Missing(image[p], committed.version)
       IN  IF ~CanUpgrade(image[p], committed.version) THEN Fail(p)
           ELSE Upgrade(p, IF todo = <<>> THEN "commit" ELSE "batch", todo, 1,
                        committed.version, setup[p].work)
    /\ UNCHANGED <<image, database, committed, bounds>>

\* CREATE of an object that is there is an error, CREATE OR ALTER is not.
CanRun(p, batch) ==
    \/ batch.again
    \/ committed.objects[batch.object] = None /\ setup[p].work.objects[batch.object] = None

\* apply_sql: one GO batch, which waits for whoever holds the object.
RunBatch(p) ==
    /\ setup[p].step = "batch"
    /\ LET batch == Script(p).batches[setup[p].at]
           last == setup[p].at = Len(Script(p).batches)
           work == setup[p].work
       IN  /\ ObjectFree(p, batch.object)
           /\ IF ~CanRun(p, batch) THEN Fail(p)
              ELSE Upgrade(p, IF last THEN "record" ELSE "batch", setup[p].todo,
                           IF last THEN 1 ELSE setup[p].at + 1, setup[p].seen,
                           Written(work.ledger, work.version,
                                   [work.objects EXCEPT ![batch.object] = Script(p).text]))
    /\ UNCHANGED <<image, database, committed, bounds>>

\* The primary key of schema_migrations.
NotRecorded(p, r) == committed.ledger[r] = None

\* apply_sql: the ledger row, in the same transaction as the batches.
RecordRevision(p) ==
    /\ setup[p].step = "record"
    /\ LET r == Head(setup[p].todo)
           work == setup[p].work
       IN  /\ RowFree(p, r)
           /\ IF ~NotRecorded(p, r) THEN Fail(p)
              ELSE Upgrade(p, "version", setup[p].todo, 1, setup[p].seen,
                           Written([work.ledger EXCEPT ![r] = Script(p).text], work.version,
                                   work.objects))
    /\ UNCHANGED <<image, database, committed, bounds>>

\* Alembic moves the version on from the one it knows, and fails when another session
\* has moved it.  Nothing is committed between two revisions: begin_transaction on a
\* connection that is in a transaction begins none and ends none.
MoveVersion(p) ==
    /\ setup[p].step = "version"
    /\ VersionFree(p)
    /\ IF setup[p].work.version = None /\ committed.version # setup[p].seen THEN Fail(p)
       ELSE Upgrade(p, IF Len(setup[p].todo) = 1 THEN "commit" ELSE "batch", Tail(setup[p].todo),
                    1, setup[p].seen,
                    Written(setup[p].work.ledger, Head(setup[p].todo), setup[p].work.objects))
    /\ UNCHANGED <<image, database, committed, bounds>>

\* A mutant: a commit leaves only what its transaction wrote.
Instead(written, old) == written
Over(written, old) == [k \in DOMAIN old |-> IF written[k] # None THEN written[k] ELSE old[k]]

CommitUpgrade(p) ==
    /\ setup[p].step = "commit"
    /\ LET work == setup[p].work
       IN  committed' = Written(Over(work.ledger, committed.ledger),
                                IF work.version # None THEN work.version ELSE committed.version,
                                Over(work.objects, committed.objects))
    /\ setup' = [setup EXCEPT ![p].step = "after", ![p].work = Nothing]
    /\ UNCHANGED <<image, database, bounds>>

ReadAfter(p) ==
    /\ setup[p].step = "after"
    /\ LedgerFree(p)
    /\ Goto(p, "done")
    /\ UNCHANGED <<image, database, committed, bounds>>

\* A statement fails or the pod dies: its connection closes and what it wrote is
\* rolled back.
Crash(p) ==
    /\ setup[p].step \notin {"failed", "done"}
    /\ crashes < MaxCrashes
    /\ crashes' = crashes + 1
    /\ Fail(p)
    /\ UNCHANGED <<image, database, committed, rollouts>>

\* A deployment replaces the image of a pod that runs, which starts with its setup.
RollOut(p) ==
    /\ setup[p].step = "done"
    /\ rollouts < MaxRollouts
    /\ rollouts' = rollouts + 1
    /\ \E i \in Images : image' = [image EXCEPT ![p] = i]
    /\ setup' = [setup EXCEPT ![p] = Idle]
    /\ UNCHANGED <<database, committed, crashes>>

\* An init container that failed is started again.
Restart(p) ==
    /\ setup[p].step = "failed"
    /\ Goto(p, "find")
    /\ UNCHANGED <<image, database, committed, bounds>>

SetupStep(p) ==
    \/ FindDatabase(p) \/ CreateDatabase(p) \/ ReadBefore(p) \/ Verify(p) \/ Plan(p)
    \/ RunBatch(p) \/ RecordRevision(p) \/ MoveVersion(p) \/ CommitUpgrade(p) \/ ReadAfter(p)
    \/ Restart(p)

MigrationNext == \E p \in Pods : SetupStep(p) \/ Crash(p) \/ RollOut(p)

MigrationSpec == MigrationInit /\ [][MigrationNext]_migrationVars

-------------------------------------------------------------------------------
MigrationTypeOK ==
    /\ database \in BOOLEAN
    /\ committed.ledger \in [Revisions -> Texts \cup {None}]
    /\ committed.objects \in [Objects -> Texts \cup {None}]
    /\ committed.version \in Revisions \cup {None}
    /\ \A p \in Pods : setup[p].before \subseteq Applied
    /\ rollouts \in 0 .. MaxRollouts /\ crashes \in 0 .. MaxCrashes

\* Which of the revisions at some places of an image's history make an object, and the
\* text of the last of them.
Makes(script, o) == \E k \in DOMAIN script.batches : script.batches[k].object = o
Makers(files, places, o) == {n \in places : Makes(files[History(files)[n]], o)}
MadeBy(files, places, o) ==
    LET makers == Makers(files, places, o)
    IN  IF makers = {} THEN None
        ELSE files[History(files)[CHOOSE n \in makers : \A k \in makers : k <= n]].text

\* The database as the first n revisions of an image leave it.
LeftBy(files, n) ==
    Written([r \in Revisions |-> IF \E k \in 1 .. n : History(files)[k] = r THEN files[r].text
                                 ELSE None],
            IF n = 0 THEN None ELSE History(files)[n],
            [o \in Objects |-> MadeBy(files, 1 .. n, o)])

\* Is the database what this image's revisions, up to one of them, leave?
Describes(files) ==
    /\ Histories(files) # {}
    /\ \E n \in 0 .. Cardinality(DOMAIN files) : committed = LeftBy(files, n)

\* "a database in a state no version describes" (tests/integration/test_migrations.py)
\* never comes about: whatever pods of different images do at once and wherever they
\* fail, tables, version and ledger are what the revisions of one image leave.
SomeVersionDescribesIt == committed = Nothing \/ \E i \in Images : Describes(i)

\* It asks two things of the images.  A revision has the same place in all of them.
SamePlaces == \A i, j \in Images : \A r \in DOMAIN i \cap DOMAIN j : i[r].down = j[r].down

\* And a revision is not edited after another that stays: an image that has another one's
\* text of one shared revision has its scripts of all.  verify_ledger does not see to it: a
\* pod that has passed it runs its later revisions on whatever another image commits of an
\* earlier one before its version is read.
EditedThroughout ==
    \A i, j \in Images : \A r, s \in DOMAIN i \cap DOMAIN j : i[r].text = j[r].text => i[s] = j[s]

\* What was applied stays applied: a ledger row is never changed or lost.
LedgerOnlyGrows ==
    [][\A r \in Applied : committed'.ledger[r] = committed.ledger[r]]_migrationVars

\* A pod whose setup has ended finds every revision of its image applied, whatever
\* other pods have done since: its application may use the schema.
DoneMeansHead == \A p \in Pods : setup[p].step = "done" => DOMAIN image[p] \subseteq Applied

\* "a failure leaves the revisions before it applied and recorded, and a rerun resumes
\* rather than starting over" (env.py): a revision that fails takes none of the
\* revisions before it with it.
FailureKeepsRevisions ==
    [][\A p \in Pods :
           setup[p].step \in {"batch", "record", "version"} /\ setup'[p].step = "failed"
           => \A r \in Revisions \ {Head(setup[p].todo)} :
                  setup[p].work.ledger[r] # None => r \in Applied']_migrationVars
===============================================================================
