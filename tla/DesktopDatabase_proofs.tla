----------------------- MODULE DesktopDatabase_proofs -----------------------
(***************************************************************************)
(* Theorems about DesktopDatabase, for any older databases, any number of  *)
(* crashes, lost keys and damaged files, and any amount of work.           *)
(***************************************************************************)
EXTENDS DesktopDatabase, TLAPS

\* The parts of open() that run while the file is still plaintext, and those
\* that run when it is encrypted.
Encrypting == {"backup", "copy", "export", "exporting", "verify", "rename"}
Connected  == {"schema", "migrate", "running"}

\* Where open() is tells what the files are.
Progress ==
    /\ pc # "off" => key # 0
    /\ pc \in Encrypting => path.kind = "plain"
    /\ pc \in Connected => path.kind = "encrypted" /\ path.key = key
    /\ pc = "rename" => /\ tmp.kind = "encrypted" /\ tmp.key = key
                        /\ tmp.db.work = path.db.work
    /\ pc = "restore" => /\ path.kind \in {"empty", "torn"} /\ bak.kind # "absent"
                         /\ fate # "spared"

\* The backup never holds more than the database, while there is one, unless a
\* copy back was cut short.
BackupIsOlder ==
    fate # "cut" /\ bak.kind = "plain" /\ path.kind \in {"plain", "encrypted"}
        => path.db.work >= bak.db.work

\* TypeOK in two parts: the flags, and the rest.
FlagsOK == recovered \in BOOLEAN /\ fate \in {"spared", "damaged", "cut"}
RestOK ==
    /\ path \in File /\ tmp \in File
    /\ bak \in File /\ bak.kind # "encrypted"
    /\ key \in 0..keys /\ keys \in Nat
    /\ pc \in {"off", "open", "restore", "backup", "copy", "export", "exporting",
               "verify", "rename", "schema", "migrate", "running"}
    /\ migration \in [version: 0..Latest + 1, done: Nat, baseline: 0..Latest]
    /\ committed \in Nat /\ stops \in Nat /\ faults \in Nat

\* A file is encrypted under a key that was generated.
KeyUsed == path.kind = "encrypted" => path.key \in 1..keys

\* There is no backup of a file that never was; an empty file is a copy that
\* was cut short, or a copy of one.
Fresh ==
    /\ path.kind \in {"absent", "empty"} => path.db.work = 0
    /\ path.kind = "absent" => bak.kind = "absent"
    /\ path.kind = "empty" /\ pc # "restore" => fate = "cut" \/ bak.kind # "plain"
    /\ bak.kind = "empty" => bak.db.work = 0

\* No migration is under way unless open() is at it.
Migrating ==
    pc = "migrate" => migration.version \in 1..Latest + 1

IInv == FlagsOK /\ RestOK /\ KeyUsed /\ Fresh /\ Progress /\ WorkSurvives /\ BackupIsOlder /\ Migrating

-----------------------------------------------------------------------------
\* There are migrations.
LEMMA SomeMigrations == Latest \in Nat /\ Latest >= 2
BY DEF Latest, MIGRATIONS

\* The files and databases that the actions build.
LEMMA Values ==
    /\ NewDatabase \in Database
    /\ Absent \in File /\ Empty \in File /\ Torn \in File
    /\ \A db \in Database : Plain(db) \in File
    /\ \A db \in Database, k \in Nat : Encrypted(k, db) \in File
    /\ NoMigration \in [version: 0..Latest + 1, done: Nat, baseline: 0..Latest]
BY SomeMigrations DEF NewDatabase, Database, Absent, Empty, Torn, Plain, Encrypted, File, NoMigration

LEMMA InitIInv == Init => IInv
<1> SUFFICES ASSUME Init PROVE IInv
  OBVIOUS
<1>1. path \in File /\ path.kind \in {"absent", "plain"} /\ path.db.work = committed
      /\ committed \in Nat
  <2>1. CASE path = Absent /\ committed = 0
    BY <2>1, Values DEF Absent, NewDatabase
  <2>2. CASE \E db \in Olds : path = Plain(db) /\ committed = db.work
    <3>1. PICK db \in Olds : path = Plain(db) /\ committed = db.work
      BY <2>2
    <3>2. db \in Database
      BY DatabaseAssumption
    <3> QED
      BY <3>1, <3>2, Values DEF Plain, Database
  <2> QED
    BY <2>1, <2>2 DEF Init
<1>2. RestOK
  <2>1. bak \in File /\ tmp \in File
    BY Values DEF Init
  <2>2. bak.kind # "encrypted"
    BY DEF Init, Absent
  <2>3. migration \in [version: 0..Latest + 1, done: Nat, baseline: 0..Latest]
    BY Values DEF Init
  <2> QED
    BY <1>1, <2>1, <2>2, <2>3 DEF Init, RestOK
<1>6. FlagsOK /\ KeyUsed /\ Fresh
  <2>1. path.kind = "absent" => path.db.work = 0 /\ bak.kind = "absent"
    BY DEF Init, Absent, NewDatabase, Plain
  <2>2. bak.kind # "empty" /\ path.kind # "empty"
    BY <1>1 DEF Init, Absent
  <2> QED
    BY <1>1, <2>1, <2>2 DEF Init, FlagsOK, KeyUsed, Fresh
<1>3. Progress
  BY DEF Init, Progress, Encrypting, Connected
<1>4. WorkSurvives
  BY <1>1 DEF WorkSurvives
<1>5. BackupIsOlder /\ Migrating
  BY DEF Init, BackupIsOlder, Migrating, Absent
<1> QED
  BY <1>2, <1>3, <1>4, <1>5, <1>6 DEF IInv

-----------------------------------------------------------------------------
(***************************************************************************)
(* Every step keeps the invariant: starting and stopping, opening and      *)
(* recovering, encrypting, migrating, working.                             *)
(***************************************************************************)
\* An attempt that ends, whatever became of the temporary copy.
LEMMA StopStep ==
    ASSUME IInv, pc' = "off", migration' = NoMigration, UNCHANGED <<path, bak, key, keys>>,
           tmp' \in File, UNCHANGED <<recovered, committed, faults>>, stops' \in Nat,
           fate' = IF pc = "restore" THEN "cut" ELSE fate
    PROVE  IInv'
<1>1. RestOK' /\ FlagsOK' /\ KeyUsed'
  BY Values DEF IInv, RestOK, FlagsOK, KeyUsed
<1>2. Fresh'
  BY DEF IInv, Fresh
<1>3. Progress'
  BY DEF Progress, Encrypting, Connected
<1>4. WorkSurvives' /\ BackupIsOlder' /\ Migrating'
  BY DEF IInv, Progress, WorkSurvives, Readable, BackupIsOlder, Migrating
<1> QED
  BY <1>1, <1>2, <1>3, <1>4 DEF IInv

LEMMA StartStep == ASSUME IInv, Start PROVE IInv'
<1>1. RestOK' /\ KeyUsed' /\ key' # 0
  BY DEF Start, IInv, RestOK, KeyUsed, files
<1>2. FlagsOK'
  BY DEF Start, IInv, FlagsOK
<1>3. Progress'
  BY <1>1 DEF Start, Progress, Encrypting, Connected
<1>4. WorkSurvives'
  BY DEF Start, IInv, RestOK, KeyUsed, WorkSurvives, Readable, files
<1>5. BackupIsOlder' /\ Migrating' /\ Fresh'
  BY DEF Start, IInv, BackupIsOlder, Migrating, Fresh, files
<1> QED
  BY <1>1, <1>2, <1>3, <1>4, <1>5 DEF IInv

\* Opening a new, an encrypted or a plaintext file leaves the work as it is.
LEMMA OpenStep ==
    ASSUME IInv, OpenNew \/ OpenEncrypted \/ OpenPlaintext
    PROVE  IInv'
<1>1. CASE OpenNew
  <2>1. path' = Encrypted(key, NewDatabase) /\ path.kind \in {"absent", "empty"}
        /\ pc' = "schema" /\ pc = "open"
    BY <1>1 DEF OpenNew, Goto
  <2>2. path' \in File /\ path'.kind = "encrypted" /\ path'.key = key
    BY <2>1, Values DEF Encrypted, IInv, RestOK
  <2>3. path'.db.work = 0
    BY <2>1 DEF Encrypted, NewDatabase
  <2>4. UNCHANGED <<bak, tmp, key, keys, migration, recovered, committed, fate, stops, faults>>
    BY <1>1 DEF OpenNew, Goto
  <2>5. key \in 1..keys
    BY <2>1 DEF IInv, RestOK, Progress
  <2>6. fate = "spared" => committed = 0
    BY <2>1 DEF IInv, WorkSurvives, Fresh
  <2>7. RestOK' /\ KeyUsed' /\ Fresh'
    BY <2>1, <2>2, <2>4, <2>5 DEF IInv, RestOK, KeyUsed, Fresh
  <2>8. FlagsOK' /\ Migrating'
    BY <2>1, <2>4 DEF IInv, FlagsOK, Migrating
  <2>9. Progress' /\ WorkSurvives' /\ BackupIsOlder'
    BY <2>1, <2>2, <2>3, <2>4, <2>5, <2>6 DEF IInv, Progress, Encrypting, Connected,
       WorkSurvives, Readable, BackupIsOlder, Fresh
  <2> QED
    BY <2>7, <2>8, <2>9 DEF IInv
<1>2. CASE OpenEncrypted
  BY <1>2 DEF OpenEncrypted, Goto, files, IInv, FlagsOK, RestOK, KeyUsed, Progress, Encrypting,
     Connected, WorkSurvives, Readable, BackupIsOlder, Migrating, Fresh
<1>3. CASE OpenPlaintext
  BY <1>3 DEF OpenPlaintext, Goto, files, IInv, FlagsOK, RestOK, KeyUsed, Progress, Encrypting,
     Connected, WorkSurvives, Readable, BackupIsOlder, Migrating, Fresh
<1> QED
  BY <1>1, <1>2, <1>3

\* Recovery runs only after a loss, and brings the backup back.
LEMMA RecoverStep ==
    ASSUME IInv, Recover \/ Restored
    PROVE  IInv'
<1>1. CASE Recover
  <2>1. fate # "spared"
    BY <1>1 DEF Recover, Unreadable, Readable, IInv, WorkSurvives
  <2>2. CASE recovered \/ bak.kind = "absent"
    <3>1. Stop /\ UNCHANGED path
      BY <1>1, <2>2, Zenon DEF Recover
    <3> QED
      BY <1>1, <3>1, StopStep DEF Recover, Stop, IInv, RestOK
  <2>3. CASE ~(recovered \/ bak.kind = "absent")
    <3>1. path' \in {Empty, Torn} /\ Goto("restore") /\ UNCHANGED <<bak, tmp, key, keys, migration>>
      BY <1>1, <2>3 DEF Recover
    <3>2. path' \in File /\ path'.kind \in {"empty", "torn"} /\ path'.db.work = 0
      <4>1. path' \in File
        BY <3>1, Values
      <4>2. path'.kind \in {"empty", "torn"} /\ path'.db.work = 0
        BY <3>1 DEF Empty, Torn, NewDatabase
      <4> QED
        BY <4>1, <4>2
    <3>3. RestOK' /\ KeyUsed' /\ Fresh'
      BY <3>1, <3>2 DEF Goto, IInv, RestOK, KeyUsed, Fresh
    <3>4. FlagsOK'
      BY <3>1 DEF Goto, IInv, FlagsOK
    <3>5. Progress'
      BY <1>1, <2>1, <2>3, <3>1, <3>2 DEF Recover, Goto, IInv, Progress, Encrypting, Connected
    <3>6. WorkSurvives' /\ BackupIsOlder' /\ Migrating'
      BY <2>1, <3>1, <3>2 DEF Goto, WorkSurvives, BackupIsOlder, Migrating
    <3> QED
      BY <3>3, <3>4, <3>5, <3>6 DEF IInv
  <2> QED
    BY <2>2, <2>3
<1>2. CASE Restored
  <2>1. fate # "spared"
    BY <1>2 DEF Restored, IInv, Progress, WorkSurvives
  <2>2. RestOK' /\ KeyUsed' /\ Fresh'
    BY <1>2 DEF Restored, IInv, RestOK, KeyUsed, Fresh, Progress
  <2>3. FlagsOK'
    BY <1>2 DEF Restored, IInv, FlagsOK
  <2>4. Progress' /\ Migrating'
    BY <1>2 DEF Restored, IInv, Progress, Encrypting, Connected, Migrating
  <2>5. WorkSurvives'
    BY <1>2, <2>1 DEF Restored, WorkSurvives
  <2>6. BackupIsOlder'
    <3>1. path' = bak /\ bak' = bak /\ bak.db.work \in Nat
      BY <1>2 DEF Restored, IInv, RestOK, File, Database
    <3> QED
      BY <3>1 DEF BackupIsOlder
  <2> QED
    BY <2>2, <2>3, <2>4, <2>5, <2>6 DEF IInv
<1> QED
  BY <1>1, <1>2

\* The encryption: the database stays as it is until the rename, and what is
\* renamed holds as much work.
LEMMA BackupStep ==
    ASSUME IInv, BeginBackup \/ FinishBackup \/ BeginExport
    PROVE  IInv'
<1>1. UNCHANGED <<path, key, keys, migration, recovered, committed, fate, stops, faults>>
  BY DEF BeginBackup, FinishBackup, BeginExport, Goto
<1>2. path.kind = "plain" /\ pc' \in {"copy", "export", "exporting"}
  BY DEF BeginBackup, FinishBackup, BeginExport, Goto, IInv, Progress, Encrypting
<1>3. /\ bak' \in File /\ tmp' \in File /\ bak'.kind # "encrypted"
      /\ \/ bak' \in {bak, path}
         \/ bak'.kind = "torn"
         \/ bak'.kind = "empty" /\ bak'.db.work = 0
  <2>1. CASE BeginBackup
    <3>1. bak' \in {Empty, Torn} /\ tmp' = tmp
      BY <2>1 DEF BeginBackup
    <3>2. bak' \in File /\ tmp' \in File
      BY <3>1, Values DEF IInv, RestOK
    <3>3. bak'.kind = "torn" \/ (bak'.kind = "empty" /\ bak'.db.work = 0)
      BY <3>1 DEF Empty, Torn, NewDatabase
    <3> QED
      BY <3>2, <3>3
  <2>2. CASE FinishBackup
    BY <1>2, <2>2 DEF FinishBackup, IInv, RestOK
  <2>3. CASE BeginExport
    BY <2>3, Values DEF BeginExport, IInv, RestOK
  <2> QED
    BY <2>1, <2>2, <2>3
<1>4. pc \in Encrypting
  BY DEF BeginBackup, FinishBackup, BeginExport, Encrypting
<1>5. RestOK' /\ KeyUsed' /\ Fresh'
  BY <1>1, <1>2, <1>3 DEF IInv, RestOK, KeyUsed, Fresh
<1>6. FlagsOK' /\ Migrating'
  BY <1>1, <1>2 DEF IInv, FlagsOK, Migrating
<1>7. Progress'
  BY <1>1, <1>2, <1>4 DEF IInv, Progress, Encrypting, Connected
<1>8. WorkSurvives'
  BY <1>1, <1>2 DEF IInv, WorkSurvives
<1>9. BackupIsOlder'
  <2>1. path.db.work \in Nat
    BY DEF IInv, RestOK, File, Database
  <2> QED
    BY <1>1, <1>3, <2>1 DEF IInv, BackupIsOlder
<1> QED
  BY <1>5, <1>6, <1>7, <1>8, <1>9 DEF IInv

LEMMA ExportStep ==
    ASSUME IInv, FinishExport \/ (verify_migrated_db /\ pc' = "rename")
    PROVE  IInv'
<1>1. UNCHANGED <<path, bak, key, keys, migration, recovered, committed, fate, stops>>
  BY DEF FinishExport, verify_migrated_db, Goto, Stop
<1>2. pc \in Encrypting /\ pc' \in Encrypting \ {"export"} /\ path.kind = "plain"
  BY DEF FinishExport, Encrypting, verify_migrated_db, IInv, Progress
<1>3. tmp' \in File /\ faults' \in Nat
  <2>1. CASE FinishExport
    <3>1. path.db \in Database /\ Exported(path.db) \in Database /\ key \in Nat
      BY SomeMigrations DEF IInv, RestOK, File, Exported, Database
    <3>2. path.db.work > 0 => [path.db EXCEPT !.work = @ - 1] \in Database
      BY <3>1 DEF Database
    <3>3. faults' \in Nat
      BY <2>1 DEF FinishExport, IInv, RestOK
    <3> QED
      BY <2>1, <3>1, <3>2, <3>3, Values DEF FinishExport
  <2>2. CASE verify_migrated_db /\ pc' = "rename"
    BY <2>2 DEF verify_migrated_db, Goto, Stop, IInv, RestOK
  <2> QED
    BY <2>1, <2>2
<1>4. pc' = "rename" => tmp'.kind = "encrypted" /\ tmp'.key = key /\ tmp'.db.work = path.db.work
  BY DEF FinishExport, verify_migrated_db, Goto, Stop, Readable
<1>5. RestOK' /\ KeyUsed' /\ Fresh'
  BY <1>1, <1>2, <1>3 DEF IInv, RestOK, KeyUsed, Fresh, Encrypting
<1>6. FlagsOK' /\ Migrating'
  BY <1>1, <1>2 DEF IInv, FlagsOK, Migrating, Encrypting
<1>7. Progress'
  BY <1>1, <1>2, <1>4 DEF IInv, Progress, Encrypting, Connected
<1>8. WorkSurvives' /\ BackupIsOlder'
  BY <1>1, <1>2 DEF IInv, WorkSurvives, BackupIsOlder
<1> QED
  BY <1>5, <1>6, <1>7, <1>8 DEF IInv

LEMMA VerifyStep == ASSUME IInv, verify_migrated_db PROVE IInv'
<1>1. CASE Readable(tmp) /\ tmp.db.work = path.db.work
  BY <1>1, ExportStep DEF verify_migrated_db, Goto
<1>2. CASE ~(Readable(tmp) /\ tmp.db.work = path.db.work)
  <2>1. tmp' = Absent /\ Stop /\ UNCHANGED <<path, bak, key, keys>>
    BY <1>2, Zenon DEF verify_migrated_db
  <2> QED
    BY <2>1, StopStep, Values DEF verify_migrated_db, Stop, IInv, RestOK
<1> QED
  BY <1>1, <1>2

LEMMA RenameStep == ASSUME IInv, Rename PROVE IInv'
<1>1. /\ path' = tmp /\ tmp' = Absent /\ pc = "rename" /\ pc' = "schema"
      /\ UNCHANGED <<bak, key, keys, migration, recovered, committed, fate, stops, faults>>
  BY DEF Rename, Goto
<1>2. /\ tmp.kind = "encrypted" /\ tmp.key = key /\ tmp.db.work = path.db.work
      /\ path.kind = "plain" /\ key \in 1..keys
  BY <1>1 DEF IInv, Progress, RestOK, Encrypting
<1>3. RestOK' /\ KeyUsed' /\ Fresh'
  BY <1>1, <1>2, Values DEF IInv, RestOK, KeyUsed, Fresh
<1>4. FlagsOK' /\ Migrating'
  BY <1>1 DEF IInv, FlagsOK, Migrating
<1>5. Progress'
  BY <1>1, <1>2 DEF IInv, Progress, Encrypting, Connected
<1>6. WorkSurvives' /\ BackupIsOlder'
  BY <1>1, <1>2 DEF IInv, WorkSurvives, Readable, BackupIsOlder
<1> QED
  BY <1>3, <1>4, <1>5, <1>6 DEF IInv

\* A step on the open database that does not touch the work, or adds to it.
LEMMA ConnectedStep ==
    ASSUME IInv, pc \in Connected, pc' \in Connected,
           NEW db \in Database, path' = [path EXCEPT !.db = db],
           db.work = path.db.work + (committed' - committed),
           committed' \in {committed, committed + 1},
           migration' \in [version: 0..Latest + 1, done: Nat, baseline: 0..Latest],
           pc' = "migrate" => migration'.version \in 1..Latest + 1,
           UNCHANGED <<bak, tmp, key, keys, recovered, fate, stops, faults>>
    PROVE  IInv'
<1>1. /\ path.kind = "encrypted" /\ path.key = key /\ path.db.work \in Nat
      /\ committed \in Nat
  BY DEF IInv, Progress, RestOK, File, Database
<1>2. path' \in File /\ path'.kind = path.kind /\ path'.key = path.key /\ path'.db = db
  BY DEF IInv, RestOK, File
<1>3. RestOK' /\ KeyUsed' /\ Fresh'
  BY <1>1, <1>2 DEF IInv, RestOK, KeyUsed, Fresh, Connected
<1>4. FlagsOK' /\ Migrating'
  BY DEF IInv, FlagsOK, Migrating
<1>5. Progress'
  BY <1>1, <1>2 DEF IInv, Progress, Encrypting, Connected
<1>6. WorkSurvives'
  BY <1>1, <1>2 DEF IInv, WorkSurvives, Readable
<1>7. BackupIsOlder'
  <2>1. bak.db.work \in Nat
    BY DEF IInv, RestOK, File, Database
  <2> QED
    BY <1>1, <1>2, <2>1 DEF IInv, BackupIsOlder
<1> QED
  BY <1>3, <1>4, <1>5, <1>6, <1>7 DEF IInv

\* The schema steps: each is a ConnectedStep, or the end of the attempt.
LEMMA BeginSchemaStep == ASSUME IInv, BeginSchema PROVE IInv'
<1>1. path.db \in Database /\ path = [path EXCEPT !.db = path.db] /\ path.db.work \in Nat
      /\ committed \in Nat
  BY DEF IInv, RestOK, File, Database
<1>2. Baseline(path.db) \in 0..Latest
  BY <1>1, SomeMigrations DEF Baseline, Database, LEGACY_BASELINE_VERSION
<1>3. /\ migration' \in [version: 0..Latest + 1, done: Nat, baseline: 0..Latest]
      /\ migration'.version \in 1..Latest + 1
  BY <1>2, SomeMigrations DEF BeginSchema
<1>4. /\ pc \in Connected /\ pc' \in Connected
      /\ UNCHANGED <<path, bak, tmp, key, keys, recovered, committed, fate, stops, faults>>
  BY DEF BeginSchema, Goto, Connected, files
<1>5. path' = [path EXCEPT !.db = path.db]
  BY <1>1, <1>4
<1>6. path.db.work = path.db.work + (committed' - committed)
  BY <1>1, <1>4
<1> QED
  BY <1>1, <1>3, <1>4, <1>5, <1>6, ConnectedStep

LEMMA ExecuteStep == ASSUME IInv, Execute PROVE IInv'
<1> DEFINE added == Statements[migration.done + 1]
           db == [path.db EXCEPT !.schema = @ \cup {added}]
           repeated == added \in Columns /\ added \in path.db.schema
<1>1. /\ path.db \in Database /\ path \in File /\ path.db.work \in Nat /\ committed \in Nat
      /\ migration \in [version: 0..Latest + 1, done: Nat, baseline: 0..Latest]
      /\ migration.version \in 1..Latest /\ pc = "migrate"
  <2>1. pc = "migrate" /\ migration.version <= Latest
    BY Zenon DEF Execute
  <2> QED
    BY <2>1, SomeMigrations DEF IInv, RestOK, File, Database, Migrating
<1>2. CASE repeated
  <2>1. Stop /\ UNCHANGED path
    BY <1>2, Zenon DEF Execute
  <2> QED
    BY <2>1, StopStep DEF Execute, Stop, IInv, RestOK
<1>3. CASE ~repeated
  <2>1. /\ path' = [path EXCEPT !.db.schema = @ \cup {added}]
        /\ migration' = [migration EXCEPT !.done = @ + 1]
        /\ Goto("migrate")
    BY <1>3, Zenon DEF Execute
  <2>2. added \in Schema
    <3>1. migration.done + 1 \in 1..Len(MIGRATIONS[migration.version])
      BY <1>1, SMTT(30) DEF Execute, Statements, MIGRATIONS
    <3> QED
      BY <1>1, <3>1 DEF Statements, Schema
  <2>3. db \in Database /\ db.work = path.db.work
    BY <1>1, <2>2 DEF Database
  <2>4. path' = [path EXCEPT !.db = db]
    BY <1>1, <2>1 DEF File
  <2>5. /\ migration' \in [version: 0..Latest + 1, done: Nat, baseline: 0..Latest]
        /\ migration'.version \in 1..Latest + 1
    BY <1>1, <2>1, SomeMigrations
  <2>6. /\ pc \in Connected /\ pc' \in Connected
        /\ UNCHANGED <<bak, tmp, key, keys, recovered, committed, fate, stops, faults>>
    BY <2>1 DEF Execute, Goto, Connected
  <2>7. db.work = path.db.work + (committed' - committed)
    BY <1>1, <2>3, <2>6
  <2> HIDE DEF db
  <2> QED
    BY <2>3, <2>4, <2>5, <2>6, <2>7, ConnectedStep
<1> QED
  BY <1>2, <1>3

LEMMA RecordVersionStep == ASSUME IInv, RecordVersion PROVE IInv'
<1> DEFINE db == [path.db EXCEPT !.user_version = migration.version]
<1>1. /\ path.db \in Database /\ path \in File /\ path.db.work \in Nat /\ committed \in Nat
      /\ migration \in [version: 0..Latest + 1, done: Nat, baseline: 0..Latest]
      /\ migration.version \in 1..Latest
  BY SMTT(30) DEF RecordVersion, IInv, RestOK, File, Database, Migrating
<1>2. db \in Database /\ db.work = path.db.work
  BY <1>1 DEF Database
<1>3. path' = [path EXCEPT !.db = db]
  BY <1>1 DEF RecordVersion, File
<1>4. /\ migration' \in [version: 0..Latest + 1, done: Nat, baseline: 0..Latest]
      /\ migration'.version \in 1..Latest + 1
  <2>1. migration' = [migration EXCEPT !.version = migration.version + 1, !.done = 0]
    BY DEF RecordVersion
  <2>2. migration.version + 1 \in 1..Latest + 1 /\ migration.version + 1 \in 0..Latest + 1
    BY <1>1, SomeMigrations
  <2>3. migration' = [version |-> migration.version + 1, done |-> 0,
                      baseline |-> migration.baseline]
    BY <1>1, <2>1
  <2> QED
    BY <1>1, <2>2, <2>3
<1>5. /\ pc \in Connected /\ pc' \in Connected
      /\ UNCHANGED <<bak, tmp, key, keys, recovered, committed, fate, stops, faults>>
  BY DEF RecordVersion, Goto, Connected
<1>6. db.work = path.db.work + (committed' - committed)
  BY <1>1, <1>2, <1>5
<1> HIDE DEF db
<1> QED
  BY <1>2, <1>3, <1>4, <1>5, <1>6, ConnectedStep

LEMMA FinishSchemaStep == ASSUME IInv, FinishSchema PROVE IInv'
<1> DEFINE db == IF path.db.user_version < migration.baseline
                 THEN [path.db EXCEPT !.user_version = migration.baseline] ELSE path.db
<1>1. /\ path.db \in Database /\ path \in File /\ path.db.work \in Nat /\ committed \in Nat
      /\ migration \in [version: 0..Latest + 1, done: Nat, baseline: 0..Latest]
  BY DEF IInv, RestOK, File, Database
<1>2. db \in Database /\ db.work = path.db.work
  BY <1>1 DEF Database
<1>3. path' = [path EXCEPT !.db = db]
  BY <1>1 DEF FinishSchema, File
<1>4. /\ migration' \in [version: 0..Latest + 1, done: Nat, baseline: 0..Latest]
      /\ pc' # "migrate"
  BY Values DEF FinishSchema, Goto
<1>5. /\ pc \in Connected /\ pc' \in Connected
      /\ UNCHANGED <<bak, tmp, key, keys, recovered, committed, fate, stops, faults>>
  BY DEF FinishSchema, Goto, Connected
<1>6. db.work = path.db.work + (committed' - committed)
  BY <1>1, <1>2, <1>5
<1> HIDE DEF db
<1> QED
  BY <1>2, <1>3, <1>4, <1>5, <1>6, ConnectedStep

LEMMA WorkStep == ASSUME IInv, Work PROVE IInv'
<1> DEFINE db == [path.db EXCEPT !.work = @ + 1]
<1>1. /\ path.db \in Database /\ path \in File /\ path.db.work \in Nat /\ committed \in Nat
      /\ migration \in [version: 0..Latest + 1, done: Nat, baseline: 0..Latest]
  BY DEF IInv, RestOK, File, Database
<1>2. db \in Database /\ db.work = path.db.work + 1
  BY <1>1 DEF Database
<1>3. path' = [path EXCEPT !.db = db]
  BY <1>1 DEF Work, File
<1>4. /\ pc \in Connected /\ pc' \in Connected /\ pc' # "migrate"
      /\ UNCHANGED <<bak, tmp, key, keys, migration, recovered, fate, stops, faults>>
  BY DEF Work, Connected
<1>5. committed' = committed + 1
  BY DEF Work
<1>6. db.work = path.db.work + (committed' - committed)
  BY <1>1, <1>2, <1>5
<1> HIDE DEF db
<1> QED
  BY <1>1, <1>2, <1>3, <1>4, <1>5, <1>6, ConnectedStep

\* A lost key or a damaged file, between two starts.
LEMMA DamageStep == ASSUME IInv, Damage PROVE IInv'
<1>1. /\ pc = "off" /\ pc' = "off" /\ fate' # "spared" /\ (fate = "cut" => fate' = "cut")
      /\ fate' \in {"damaged", "cut"} /\ faults' = faults + 1
      /\ UNCHANGED <<bak, tmp, keys, recovered, migration, committed, stops>>
      /\ \/ key' = 0 /\ UNCHANGED path
         \/ path.kind # "absent" /\ path' = Torn /\ UNCHANGED key
  BY DEF Damage
<1>2. path' \in File /\ key' \in 0..keys
      /\ (path' = path \/ path'.kind = "torn")
  BY <1>1, Values DEF IInv, RestOK, Torn
<1>3. RestOK' /\ KeyUsed' /\ Fresh'
  BY <1>1, <1>2 DEF IInv, RestOK, KeyUsed, Fresh
<1>4. FlagsOK'
  BY <1>1 DEF IInv, FlagsOK
<1>5. Progress' /\ WorkSurvives' /\ Migrating'
  BY <1>1 DEF Progress, Encrypting, Connected, WorkSurvives, Migrating
<1>6. BackupIsOlder'
  BY <1>1, <1>2 DEF IInv, BackupIsOlder
<1> QED
  BY <1>3, <1>4, <1>5, <1>6 DEF IInv

\* One lemma for every action of Next.
LEMMA StepIInv == IInv /\ [Next]_vars => IInv'
<1> SUFFICES ASSUME IInv, [Next]_vars PROVE IInv'
  OBVIOUS
<1>1. CASE Start
  BY <1>1, StartStep
<1>2. CASE Open
  BY <1>2, OpenStep, RecoverStep, BackupStep, ExportStep, VerifyStep, RenameStep,
     BeginSchemaStep, ExecuteStep, RecordVersionStep, FinishSchemaStep DEF Open
<1>3. CASE Work
  BY <1>3, WorkStep
<1>4. CASE Quit
  BY <1>4, StopStep DEF Quit, Stop, files, IInv, RestOK
<1>5. CASE Crash
  BY <1>5, StopStep DEF Crash, files, IInv, RestOK
<1>6. CASE Damage
  BY <1>6, DamageStep
<1>7. CASE UNCHANGED vars
  BY <1>7 DEF vars, files, IInv, FlagsOK, RestOK, KeyUsed, Fresh, Progress, WorkSurvives,
     Readable, BackupIsOlder, Migrating, Encrypting, Connected
<1> QED
  BY <1>1, <1>2, <1>3, <1>4, <1>5, <1>6, <1>7 DEF Next

\* The invariant implies what is promised.
LEMMA Promised == IInv => TypeOK /\ WorkSurvives /\ NeverBehindBackup
<1> SUFFICES ASSUME IInv PROVE TypeOK /\ WorkSurvives /\ NeverBehindBackup
  OBVIOUS
<1>1. TypeOK
  BY Zenon DEF IInv, FlagsOK, RestOK, TypeOK
<1>2. NeverBehindBackup
  BY DEF IInv, Progress, Connected, BackupIsOlder, NeverBehindBackup, RestoredInFull
<1> QED
  BY <1>1, <1>2 DEF IInv

\* The invariant holds always (db/encryption.rs, db/mod.rs apply_migrations).
THEOREM Inductive == Spec => []IInv
BY InitIInv, StepIInv, PTL DEF Spec

\* The files hold what the code writes into them; the backup that recovery
\* restores is never encrypted (encryption.rs open_encrypted).
THEOREM Types == Spec => []TypeOK
BY Inductive, Promised, PTL

\* Whatever step the process dies in, the database file can be read and holds
\* all committed work (encryption.rs migrate_plaintext_to_encrypted).
THEOREM Survives == Spec => []WorkSurvives
BY Inductive, Promised, PTL

\* A running program never works on less than its plaintext backup holds, not
\* even after a lost key or a damaged file (encryption.rs open_encrypted).
THEOREM NeverBehind == Spec => []NeverBehindBackup
BY Inductive, Promised, PTL
=============================================================================
