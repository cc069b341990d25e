--------------------------- MODULE SchemaMigrator ---------------------------
(***************************************************************************)
(* Engines that start against one PostgreSQL database and migrate its      *)
(* schema: Migrate of each store under a session's advisory lock, one      *)
(* transaction per file, baseline inference for a database made by hand.   *)
(*                                                                         *)
(* A version is the number of its file, its marker the object the file     *)
(* creates.  Nodes may run binaries that know different numbers of files.  *)
(***************************************************************************)
EXTENDS Naturals, FiniteSets, FiniteSetsExt

CONSTANTS
    Nodes,
    Latest,         \* per node: the files its binary embeds are 1..Latest[n]
    MigratingStores,\* number of stores of an engine that implement SchemaMigrator
    Nobody,
    MaxFailures

ASSUME SchemaAssumption ==
    /\ Latest \in [Nodes -> Nat \ {0}]
    /\ MigratingStores \in Nat \ {0}
    /\ MaxFailures \in Nat

VARIABLES
    db,             \* markers present, versions recorded, legacy: an events_store without tenant_id
    session,        \* who holds the advisory lock
    migrating,      \* per node: where Engine.Start is
    stores,         \* per node: stores migrated
    current,        \* per node: the version its Migrate works from
    failures,
    before,         \* history: the database at first
    ran             \* history: per version, how often its file was committed

schemaVars == <<db, session, migrating, stores, current, failures, before, ran>>

Versions == 1..Max(Range(Latest))

\* From a database, with engines that have or have not been started.
SchemaInit(databases, engines) ==
    /\ db \in databases
    /\ session = Nobody
    /\ migrating = engines
    /\ stores = [n \in Nodes |-> 0]
    /\ current = [n \in Nodes |-> 0]
    /\ failures = 0
    /\ before = db
    /\ ran = [v \in Versions |-> 0]

MigrationStarts(n) ==
    /\ migrating[n] = "stopped"
    /\ migrating' = [migrating EXCEPT ![n] = "lock"]
    /\ stores' = [stores EXCEPT ![n] = 0]
    /\ UNCHANGED <<db, session, current, failures, before, ran>>

TakeLock(n) ==
    /\ migrating[n] = "lock"
    /\ session = Nobody
    /\ session' = n
    /\ migrating' = [migrating EXCEPT ![n] = "recorded"]
    /\ UNCHANGED <<db, stores, current, failures, before, ran>>

\* Migrate returns: the lock is released; the next store, or the engine is started or not.
Leave(n, ok) ==
    /\ session' = Nobody
    /\ stores' = [stores EXCEPT ![n] = @ + 1]
    /\ migrating' = [migrating EXCEPT ![n] =
           IF ~ok THEN "refused" ELSE IF stores'[n] < MigratingStores THEN "lock" ELSE "started"]

\* recordedVersion
RecordedVersion(n) ==
    /\ migrating[n] = "recorded"
    /\ current' = [current EXCEPT ![n] = IF db.rows = {} THEN 0 ELSE Max(db.rows)]
    /\ migrating' = [migrating EXCEPT ![n] = IF db.rows = {} THEN "baseline" ELSE "apply"]
    /\ UNCHANGED <<db, session, stores, failures, before, ran>>

\* A bug: the markers are counted.
InferByCount(markers) == Cardinality(markers)

\* inferSchemaVersion: the longest run of markers from the first.
InferSchemaVersion(markers) == Max({v \in 0..Max(Versions) : 1..v \subseteq markers})

\* recordBaseline: readCatalog, the inference, and the rows in one statement.
RecordBaseline(n) ==
    /\ migrating[n] = "baseline"
    /\ IF db.legacy /\ 1 \notin db.markers
       THEN Leave(n, FALSE) /\ UNCHANGED <<db, current>>
       ELSE /\ current' = [current EXCEPT ![n] = InferSchemaVersion(db.markers)]
            /\ db' = [db EXCEPT !.rows = 1..InferSchemaVersion(db.markers)]
            /\ migrating' = [migrating EXCEPT ![n] = "apply"]
            /\ UNCHANGED <<session, stores>>
    /\ UNCHANGED <<failures, before, ran>>

\* checkSchemaNotAhead, pendingSchemaFiles and applySchemaFile: the file and its row
\* commit together; the row's key refuses a version that is there.
ApplySchemaFile(n) ==
    /\ migrating[n] = "apply"
    /\ LET next == current[n] + 1
       IN  IF current[n] >= Latest[n]
           THEN Leave(n, current[n] = Latest[n]) /\ UNCHANGED <<db, current, ran>>
           ELSE IF next \in db.rows
           THEN Leave(n, FALSE) /\ UNCHANGED <<db, current, ran>>
           ELSE /\ db' = [db EXCEPT !.markers = @ \cup {next}, !.rows = @ \cup {next}]
                /\ current' = [current EXCEPT ![n] = next]
                /\ ran' = [ran EXCEPT ![next] = @ + 1]
                /\ UNCHANGED <<session, stores, migrating>>
    /\ UNCHANGED <<failures, before>>

\* A statement fails, or the process dies: the lock goes with the session, and Start is
\* called again.
MigrationFails(n) ==
    /\ migrating[n] \in {"lock", "recorded", "baseline", "apply"}
    /\ failures < MaxFailures
    /\ failures' = failures + 1
    /\ migrating' = [migrating EXCEPT ![n] = "stopped"]
    /\ session' = IF session = n THEN Nobody ELSE session
    /\ UNCHANGED <<db, stores, current, before, ran>>

Migrate(n) == TakeLock(n) \/ RecordedVersion(n) \/ RecordBaseline(n) \/ ApplySchemaFile(n)

SchemaNext == \E n \in Nodes : MigrationStarts(n) \/ Migrate(n) \/ MigrationFails(n)

-----------------------------------------------------------------------------
(***************************************************************************)
(* Properties.                                                             *)
(***************************************************************************)

(* What the database records is what it has: versions from 1 without a gap, each with
   the objects of its file, and a node that started finds all the files its binary
   embeds, and no others, applied, whichever nodes started before it and wherever they
   failed.  A newer binary may migrate further while it runs.  No file is run twice, or
   on a database that already went through it: "the point of the inference is not to
   re-run the expensive ones" (Migrate). *)
SchemaIsWhole ==
    /\ db.rows = 1..Cardinality(db.rows) /\ (before.rows = {} => db.rows \subseteq db.markers)
    /\ \A n \in Nodes : migrating[n] = "started" =>
           1..Latest[n] \subseteq db.rows /\ before.rows \subseteq 1..Latest[n]
    /\ \A v \in Versions :
           ran[v] <= 1 /\ (1..v \subseteq before.markers \cup before.rows => ran[v] = 0)
=============================================================================
