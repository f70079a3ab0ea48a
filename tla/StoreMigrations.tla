--------------------------- MODULE StoreMigrations ----------------------------
(***************************************************************************)
(* run-store-migrations.mjs: every deployment brings the list of migration *)
(* files it was built with and applies those the database has not recorded *)
(* yet.  Deployments overlap, are older or newer than what the database    *)
(* has seen, and may stop anywhere; some migrations were applied by hand   *)
(* before there was a record.                                              *)
(*                                                                         *)
(* A migration is [file, hash, sql]: its SQL is plain, or destructive      *)
(* without the comment that allows it.                                     *)
(***************************************************************************)
EXTENDS Naturals, Sequences, Functions, FiniteSetsExt

CONSTANTS
    Deployments,
    Releases,       \* the lists of migrations deployments are built with
    LegacyHashes,   \* [file, hash] the runner knows to have been applied by hand
    NoDeployment,
    NoHash

ReleasedMigrations == UNION {Range(r) : r \in Releases}

\* A release is a directory: each of its files has a name and a hash of its own.
ASSUME ReleasesAssumption ==
    /\ NoDeployment \notin Deployments
    /\ Releases \subseteq Seq(ReleasedMigrations)
    /\ \A g \in ReleasedMigrations : g.hash # NoHash
    /\ \A r \in Releases : \A i, j \in DOMAIN r : r[i].file = r[j].file => i = j

VARIABLES
    schema,      \* the migrations whose SQL has been committed, in their order
    handMade,    \* files applied by hand: "compatible" or not what is expected
    recorded,    \* schema_migrations: the hash of each file
    holder,      \* the session that holds the advisory lock
    deployments

migrationVars == <<schema, handMade, recorded, holder, deployments>>

MigrationFiles == {g.file : g \in ReleasedMigrations}

NotStarted == [at |-> "idle"]

MigrationsInit ==
    /\ schema = <<>>
    /\ handMade \in [{l.file : l \in LegacyHashes} ->
                       {"absent", "compatible", "incompatible"}]
    /\ recorded = [f \in MigrationFiles |-> NoHash]
    /\ holder = NoDeployment
    /\ deployments = [d \in Deployments |-> NotStarted]

Set(d, value) == deployments' = [deployments EXCEPT ![d] = value]

\* The finally block, or the end of the session, gives the lock back.
Leave(d, at) ==
    /\ Set(d, [at |-> at])
    /\ holder' = IF holder = d THEN NoDeployment ELSE holder

\* readMigrations refuses the whole list for one unsafe file.
DeploymentStarts(d, release) ==
    /\ deployments[d] = NotStarted
    /\ IF \E i \in DOMAIN release : release[i].sql = "destructive"
       THEN Set(d, [at |-> "failed"])
       ELSE Set(d, [at |-> "locking", list |-> release])
    /\ UNCHANGED <<schema, handMade, recorded, holder>>

\* A bug to be caught: no advisory lock.
GoWithoutLock(d) ==
    /\ deployments[d].at = "locking"
    /\ Set(d, [deployments[d] EXCEPT !.at = "reading"])
    /\ UNCHANGED <<schema, handMade, recorded, holder>>

TakeLock(d) ==
    /\ deployments[d].at = "locking" /\ holder = NoDeployment
    /\ holder' = d
    /\ Set(d, [deployments[d] EXCEPT !.at = "reading"])
    /\ UNCHANGED <<schema, handMade, recorded>>

Rewritten(list, history) ==
    \E i \in DOMAIN list : history[list[i].file] \notin {NoHash, list[i].hash}

\* What was applied is read once, under the lock, and a changed file stops the
\* deployment before the first pending one is applied.
ReadHistory(d) ==
    LET list == deployments[d].list
    IN  /\ deployments[d].at = "reading"
        /\ IF Rewritten(list, recorded) THEN Leave(d, "failed")
           ELSE /\ Set(d, [at |-> "applying", list |-> list, known |-> recorded])
                /\ UNCHANGED holder
        /\ UNCHANGED <<schema, handMade, recorded>>

\* The files of the list that were recorded are skipped, in order.
Pending(t) == {i \in DOMAIN t.list : t.known[t.list[i].file] = NoHash}

FirstPending(t) == t.list[Min(Pending(t))]

LegacyState(g) ==
    IF [file |-> g.file, hash |-> g.hash] \in LegacyHashes
    THEN handMade[g.file] ELSE "absent"

\* The INSERT into schema_migrations: its primary key refuses a second row.
RecordMigration(d, g) ==
    LET t == deployments[d]
    IN  IF recorded[g.file] # NoHash THEN Leave(d, "failed") /\ UNCHANGED recorded
        ELSE /\ recorded' = [recorded EXCEPT ![g.file] = g.hash]
             /\ Set(d, [t EXCEPT !.at = "applying", !.known[g.file] = g.hash])
             /\ UNCHANGED holder

Backfill(d) ==
    LET t == deployments[d]
    IN  /\ t.at = "applying" /\ Pending(t) # {}
        /\ LegacyState(FirstPending(t)) = "compatible"
        /\ RecordMigration(d, FirstPending(t))
        /\ UNCHANGED <<schema, handMade>>

\* A bug to be caught: the SQL is committed before its record.
RunSqlAlone(d) ==
    LET t == deployments[d]
    IN  /\ t.at = "applying" /\ Pending(t) # {}
        /\ LegacyState(FirstPending(t)) = "absent"
        /\ Set(d, [t EXCEPT !.at = "ran"])
        /\ schema' = Append(schema, FirstPending(t))
        /\ UNCHANGED <<handMade, recorded, holder>>

\* The SQL runs in a transaction that nobody sees yet, or it fails.
RunSql(d) ==
    LET t == deployments[d]
    IN  /\ t.at = "applying" /\ Pending(t) # {}
        /\ LegacyState(FirstPending(t)) = "absent"
        /\ Set(d, [t EXCEPT !.at = "ran"])
        /\ UNCHANGED <<schema, handMade, recorded, holder>>

SqlFails(d) ==
    LET t == deployments[d]
    IN  /\ t.at = "applying" /\ Pending(t) # {}
        /\ LegacyState(FirstPending(t)) # "compatible"
        /\ Leave(d, "failed")
        /\ UNCHANGED <<schema, handMade, recorded>>

\* The record and the SQL are committed together.
CommitMigration(d) ==
    LET g == FirstPending(deployments[d])
    IN  /\ deployments[d].at = "ran"
        /\ RecordMigration(d, g)
        /\ schema' = IF recorded[g.file] # NoHash THEN schema ELSE Append(schema, g)
        /\ UNCHANGED handMade

DeploymentEnds(d) ==
    /\ deployments[d].at = "applying" /\ Pending(deployments[d]) = {}
    /\ Leave(d, "done")
    /\ UNCHANGED <<schema, handMade, recorded>>

DeploymentStops(d) ==
    /\ deployments[d].at \in {"locking", "reading", "applying", "ran"}
    /\ Leave(d, "failed")
    /\ UNCHANGED <<schema, handMade, recorded>>

\* The build is started again, with the same files or with others.
Redeploy(d) ==
    /\ deployments[d].at = "failed"
    /\ Set(d, NotStarted)
    /\ UNCHANGED <<schema, handMade, recorded, holder>>

MigrationStep ==
    \E d \in Deployments :
       \/ \E release \in Releases : DeploymentStarts(d, release)
       \/ TakeLock(d) \/ ReadHistory(d)
       \/ Backfill(d) \/ RunSql(d) \/ SqlFails(d) \/ CommitMigration(d)
       \/ DeploymentEnds(d) \/ DeploymentStops(d) \/ Redeploy(d)

-------------------------------------------------------------------------------
\* The database is always what its record says it is, whatever deployment
\* stopped where: a migration that ran is recorded with the text it ran, once,
\* and what is recorded ran or had been applied by hand.
HistoryIsTrue ==
    /\ \A i, j \in DOMAIN schema : schema[i].file = schema[j].file => i = j
    /\ \A i \in DOMAIN schema : recorded[schema[i].file] = schema[i].hash
    /\ \A f \in MigrationFiles : recorded[f] # NoHash =>
          \/ \E i \in DOMAIN schema : schema[i].file = f
          \/ f \in DOMAIN handMade /\ handMade[f] = "compatible"

\* A deployment adds to a history only when the whole of its list agrees with
\* what was recorded at that moment, not with what it read before: two
\* releases that tell the history differently never mix.
OneHistory ==
    [][\A d \in Deployments :
          deployments[d].at \in {"applying", "ran"} /\ recorded' # recorded
          /\ deployments'[d] # deployments[d] =>
             ~Rewritten(deployments[d].list, recorded)]_migrationVars
===============================================================================
