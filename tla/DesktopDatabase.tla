--------------------------- MODULE DesktopDatabase ---------------------------
(***************************************************************************)
(* Opening the desktop's SQLite database (src/src/db): the key from the    *)
(* operating system's credential store, the one-time encryption of an      *)
(* older plaintext database with its backup and its temporary copy, the    *)
(* recovery from that backup, and the schema migrations.  Every statement  *)
(* and every file operation is a step of its own, and the process may end  *)
(* after any of them (a crash, or an error that open() returns); the user  *)
(* starts it again.                                                        *)
(***************************************************************************)
EXTENDS Integers, Sequences

CONSTANTS
    Olds,               \* databases left by earlier builds: user_version and schema
    ExportKeepsVersion, \* does sqlcipher_export copy PRAGMA user_version?
    MaxWork,            \* bound on the user's committed changes
    MaxStops,           \* bound on crashes and failures
    MaxFaults           \* bound on lost keys, damaged files and faulty exports

\* What each migration adds to the schema, statement by statement.  Only ADD
\* COLUMN fails when it is repeated; composite_key is one transaction.
MIGRATIONS == << <<"dup_flag">>, <<"audit_log">>,
                 <<"gst_rate", "gst_amount", "gst_type">>, <<"unique_rules">>,
                 <<"composite_key">>, <<"license_tables">>, <<"integrity_hmac">> >>
Columns == {"dup_flag", "gst_rate", "gst_amount", "gst_type", "integrity_hmac"}
Latest  == Len(MIGRATIONS)
Schema  == UNION {{MIGRATIONS[v][i] : i \in 1..Len(MIGRATIONS[v])} : v \in 1..Latest}
LEGACY_BASELINE_VERSION == 2

Database == [work: Nat, user_version: 0..Latest, schema: SUBSET Schema]
NewDatabase == [work |-> 0, user_version |-> 0, schema |-> {}]

ASSUME DatabaseAssumption ==
    /\ Olds \subseteq Database
    /\ ExportKeepsVersion \in BOOLEAN
    /\ MaxWork \in Nat /\ MaxStops \in Nat /\ MaxFaults \in Nat

\* A file: absent, of no bytes (which SQLite takes for a new database, whatever
\* the key), plaintext, encrypted under a key, or not a database.
Absent           == [kind |-> "absent", key |-> 0, db |-> NewDatabase]
Empty            == [kind |-> "empty", key |-> 0, db |-> NewDatabase]
Torn             == [kind |-> "torn", key |-> 0, db |-> NewDatabase]
Plain(db)        == [kind |-> "plain", key |-> 0, db |-> db]
Encrypted(k, db) == [kind |-> "encrypted", key |-> k, db |-> db]

VARIABLES
    path,      \* the database file
    bak,       \* <path>.bak
    tmp,       \* <path>.migrating
    key,       \* the credential store's entry; 0: none
    keys,      \* how many keys have been generated
    pc,        \* where open() is; "running" when it has returned a connection
    recovered, \* recovered_once
    migration, \* the migration under way, its statements executed so far, and
               \* the baseline
    committed, \* history: the changes the user has committed
    fate,      \* history: "spared", or "damaged" (a key or a file was lost), or
               \* "cut" (a copy back from the backup was cut short as well)
    stops, faults

files == <<path, bak, tmp>>
vars  == <<files, key, keys, pc, recovered, migration, committed, fate, stops, faults>>

NoMigration == [version |-> 0, done |-> 0, baseline |-> 0]
Readable(file) == file.kind = "encrypted" /\ file.key = key
Goto(where) == pc' = where /\ UNCHANGED <<recovered, committed, fate, stops, faults>>

-----------------------------------------------------------------------------
\* The user starts the program: key_literal.
Start ==
    /\ pc = "off"
    /\ pc' = "open" /\ recovered' = FALSE
    /\ IF key = 0 THEN keys' = keys + 1 /\ key' = keys' ELSE UNCHANGED <<key, keys>>
    /\ UNCHANGED <<files, migration, committed, fate, stops, faults>>

\* A failure ends the attempt.
Stop ==
    /\ pc' = "off" /\ migration' = NoMigration
    /\ UNCHANGED <<recovered, committed, fate, stops, faults>>

\* A file of no bytes passes try_open_with_key.
OpenNew ==
    /\ pc = "open" /\ path.kind \in {"absent", "empty"}
    /\ path' = Encrypted(key, NewDatabase)
    /\ Goto("schema")
    /\ UNCHANGED <<bak, tmp, key, keys, migration>>

OpenEncrypted ==
    /\ pc = "open" /\ Readable(path)
    /\ Goto("schema")
    /\ UNCHANGED <<files, key, keys, migration>>

OpenPlaintext ==
    /\ pc = "open" /\ path.kind = "plain"
    /\ Goto(IF bak.kind = "absent" THEN "backup" ELSE "export")
    /\ UNCHANGED <<files, key, keys, migration>>

Unreadable == path.kind = "torn" \/ (path.kind = "encrypted" /\ path.key # key)

\* Mutants: start afresh; try the backup again and again.
Recover_Afresh ==
    /\ pc = "open" /\ Unreadable
    /\ path' = Encrypted(key, NewDatabase)
    /\ Goto("schema")
    /\ UNCHANGED <<bak, tmp, key, keys, migration>>
Recover_Forever ==
    /\ pc = "open" /\ Unreadable
    /\ IF bak.kind = "absent"
       THEN Stop /\ UNCHANGED path
       ELSE path' \in {Empty, Torn} /\ Goto("restore") /\ UNCHANGED migration
    /\ UNCHANGED <<bak, tmp, key, keys>>

\* Neither plaintext nor readable with the key: copy the backup, once.
Recover ==
    /\ pc = "open" /\ Unreadable
    /\ IF recovered \/ bak.kind = "absent"
       THEN Stop /\ UNCHANGED path
       ELSE path' \in {Empty, Torn} /\ Goto("restore") /\ UNCHANGED migration
    /\ UNCHANGED <<bak, tmp, key, keys>>

Restored ==
    /\ pc = "restore"
    /\ path' = bak
    /\ pc' = "open" /\ recovered' = TRUE
    /\ UNCHANGED <<bak, tmp, key, keys, migration, committed, fate, stops, faults>>

-----------------------------------------------------------------------------
(***************************************************************************)
(* migrate_plaintext_to_encrypted.  fs::copy and the export write their    *)
(* target bit by bit, so it is empty or torn while they run; the rename is  *)
(* atomic.                                                                 *)
(***************************************************************************)
BeginBackup ==
    /\ pc = "backup"
    /\ bak' \in {Empty, Torn}
    /\ Goto("copy")
    /\ UNCHANGED <<path, tmp, key, keys, migration>>

FinishBackup ==
    /\ pc = "copy"
    /\ bak' = path
    /\ Goto("export")
    /\ UNCHANGED <<path, tmp, key, keys, migration>>

BeginExport ==
    /\ pc = "export"
    /\ tmp' = Torn
    /\ Goto("exporting")
    /\ UNCHANGED <<path, bak, key, keys, migration>>

Exported(db) == IF ExportKeepsVersion THEN db ELSE [db EXCEPT !.user_version = 0]

\* The export reports success, also in the rare case verification is there for.
FinishExport ==
    /\ pc = "exporting"
    /\ \/ tmp' = Encrypted(key, Exported(path.db)) /\ UNCHANGED faults
       \/ /\ faults < MaxFaults /\ faults' = faults + 1
          /\ \/ tmp' = Torn
             \/ path.db.work > 0 /\ tmp' = Encrypted(key, [path.db EXCEPT !.work = @ - 1])
    /\ pc' = "verify"
    /\ UNCHANGED <<path, bak, key, keys, recovered, migration, committed, fate, stops>>

\* Mutant: the row counts are not compared.
verify_migrated_db_Opens ==
    /\ pc = "verify"
    /\ IF Readable(tmp) THEN Goto("rename") /\ UNCHANGED <<tmp, migration>>
       ELSE tmp' = Absent /\ Stop
    /\ UNCHANGED <<path, bak, key, keys>>

verify_migrated_db ==
    /\ pc = "verify"
    /\ IF Readable(tmp) /\ tmp.db.work = path.db.work
       THEN Goto("rename") /\ UNCHANGED <<tmp, migration>>
       ELSE tmp' = Absent /\ Stop
    /\ UNCHANGED <<path, bak, key, keys>>

Rename ==
    /\ pc = "rename"
    /\ path' = tmp /\ tmp' = Absent
    /\ Goto("schema")
    /\ UNCHANGED <<bak, key, keys, migration>>

-----------------------------------------------------------------------------
(***************************************************************************)
(* apply_migrations: each migration's statements, then its user_version.   *)
(***************************************************************************)
Baseline(db) ==
    IF db.user_version # 0 THEN db.user_version
    ELSE IF "dup_flag" \in db.schema THEN LEGACY_BASELINE_VERSION ELSE 0

BeginSchema ==
    /\ pc = "schema"
    /\ migration' = [version |-> Baseline(path.db) + 1, done |-> 0,
                     baseline |-> Baseline(path.db)]
    /\ Goto("migrate")
    /\ UNCHANGED <<files, key, keys>>

Statements == MIGRATIONS[migration.version]

Execute ==
    /\ pc = "migrate" /\ migration.version <= Latest
    /\ migration.done < Len(Statements)
    /\ LET added == Statements[migration.done + 1]
       IN  IF added \in Columns /\ added \in path.db.schema
           THEN Stop /\ UNCHANGED path \* duplicate column name
           ELSE /\ path' = [path EXCEPT !.db.schema = @ \cup {added}]
                /\ migration' = [migration EXCEPT !.done = @ + 1]
                /\ Goto("migrate")
    /\ UNCHANGED <<bak, tmp, key, keys>>

RecordVersion ==
    /\ pc = "migrate" /\ migration.version <= Latest
    /\ migration.done = Len(Statements)
    /\ path' = [path EXCEPT !.db.user_version = migration.version]
    /\ migration' = [migration EXCEPT !.version = @ + 1, !.done = 0]
    /\ Goto("migrate")
    /\ UNCHANGED <<bak, tmp, key, keys>>

FinishSchema ==
    /\ pc = "migrate" /\ migration.version > Latest
    /\ path' = IF path.db.user_version < migration.baseline
               THEN [path EXCEPT !.db.user_version = migration.baseline] ELSE path
    /\ migration' = NoMigration
    /\ Goto("running")
    /\ UNCHANGED <<bak, tmp, key, keys>>

-----------------------------------------------------------------------------
\* The user works, and quits.
Work ==
    /\ pc = "running" /\ committed < MaxWork
    /\ path' = [path EXCEPT !.db.work = @ + 1]
    /\ committed' = committed + 1
    /\ UNCHANGED <<bak, tmp, key, keys, pc, recovered, migration, fate, stops, faults>>

Quit ==
    /\ pc = "running"
    /\ Stop
    /\ UNCHANGED <<files, key, keys>>

\* The process ends in the middle.
Crash ==
    /\ pc # "off" /\ stops < MaxStops
    /\ stops' = stops + 1
    /\ pc' = "off" /\ migration' = NoMigration
    /\ fate' = IF pc = "restore" THEN "cut" ELSE fate
    /\ UNCHANGED <<files, key, keys, recovered, committed, faults>>

\* The credential store loses its entry, or the disk damages the file.
Damage ==
    /\ pc = "off" /\ faults < MaxFaults
    /\ faults' = faults + 1 /\ fate' = (IF fate = "cut" THEN "cut" ELSE "damaged")
    /\ \/ key' = 0 /\ UNCHANGED path
       \/ path.kind # "absent" /\ path' = Torn /\ UNCHANGED key
    /\ UNCHANGED <<bak, tmp, keys, pc, recovered, migration, committed, stops>>

Init ==
    /\ \/ path = Absent /\ committed = 0
       \/ \E db \in Olds : path = Plain(db) /\ committed = db.work
    /\ bak = Absent /\ tmp = Absent
    /\ key = 0 /\ keys = 0
    /\ pc = "off" /\ recovered = FALSE /\ migration = NoMigration
    /\ fate = "spared" /\ stops = 0 /\ faults = 0

Open ==
    \/ OpenNew \/ OpenEncrypted \/ OpenPlaintext \/ Recover \/ Restored
    \/ BeginBackup \/ FinishBackup \/ BeginExport \/ FinishExport
    \/ verify_migrated_db \/ Rename
    \/ BeginSchema \/ Execute \/ RecordVersion \/ FinishSchema

Next == Start \/ Open \/ Work \/ Quit \/ Crash \/ Damage

Spec == Init /\ [][Next]_vars

\* open() does not stand still: it runs to its end on the UI thread.
FairSpec == Spec /\ WF_vars(Open)

-----------------------------------------------------------------------------
File == [kind: {"absent", "empty", "plain", "encrypted", "torn"}, key: Nat, db: Database]

\* Files hold what the code writes into them; a backup is never encrypted.
TypeOK ==
    /\ path \in File /\ tmp \in File
    /\ bak \in File /\ bak.kind # "encrypted"
    /\ key \in 0..keys /\ keys \in Nat
    /\ pc \in {"off", "open", "restore", "backup", "copy", "export", "exporting",
               "verify", "rename", "schema", "migrate", "running"}
    /\ recovered \in BOOLEAN /\ fate \in {"spared", "damaged", "cut"}
    /\ migration \in [version: 0..Latest + 1, done: Nat, baseline: 0..Latest]
    /\ committed \in Nat /\ stops \in Nat /\ faults \in Nat

\* "The original plaintext file is never modified or removed until a verified
\* encrypted replacement exists": whatever step the process dies in, the file
\* is there, can be read, and holds everything the user has committed.
WorkSurvives ==
    fate = "spared" => /\ path.kind = "encrypted" => Readable(path)
                       /\ path.kind \notin {"empty", "torn"}
                       /\ path.db.work = committed

\* After a lost key or a damaged file the program runs again with no less than
\* the backup holds, or it does not run.
RestoredInFull ==
    pc = "running" /\ bak.kind = "plain" => path.db.work >= bak.db.work

\* The same, as long as no copy back from the backup was cut short.
NeverBehindBackup == fate # "cut" => RestoredInFull

\* Every attempt to open the database ends, in a connection or an error: the
\* recovery loop does not go round for ever.
StartupEnds == []<>(pc \in {"off", "running"})

=============================================================================
