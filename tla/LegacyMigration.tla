--------------------------- MODULE LegacyMigration ---------------------------
(***************************************************************************)
(* The one-time import of an export of the old program (src/migration/):   *)
(* the program closes its connection and a thread backs the database up,   *)
(* imports clients, rules, ledgers, dedupe hashes, import history with its *)
(* transactions and settings, statement by statement and without an outer  *)
(* transaction, checks row counts, copies the backup back when anything    *)
(* failed, and reopens the connection.  Statements fail, the process dies, *)
(* the import is run again, the user reclassifies what was imported.       *)
(*                                                                         *)
(* A record is what tells it from others: a client its name, a rule,       *)
(* ledger or hash its natural key (patterns with their case folded), a     *)
(* transaction its id and who wrote it last.  Row ids are positions.       *)
(***************************************************************************)
EXTENDS Naturals, Sequences, FiniteSets, Functions

CONSTANTS
    OldIds,       \* the old program's client ids
    Names, Keys, Files, TxnIds, \* the values of the records' other fields
    Exports,      \* the export files the user may pick
    InitialDbs,   \* the databases a migration may find
    Global,       \* the old program's cross-client scope
    Torn,         \* a database file cut short
    NoBackup, NoExport,
    MaxRuns, MaxFaults, MaxStops   \* bounds

\* What the export's arrays hold; the rules, ledgers and hashes of a client are
\* listed with its id, or under the global scope, which is no client's id.
Row    == [client: OldIds \cup {Global}, key: Keys]
Export == [clients: Seq([id: OldIds, name: Names]),
           rules: Seq(Row), ledgers: Seq(Row), hashes: Seq(Row),
           history: Seq([client: OldIds \cup {Global}, file: Files, count: Nat,
                         txns: Seq(TxnIds)]),
           settings: {"good", "broken"}]

\* The tables the import writes, and what their foreign keys ask for.
Database == [clients: Seq(Names), rules: SUBSET (Nat \X Keys),
             ledgers: SUBSET (Nat \X Keys), hashes: SUBSET (Nat \X Keys),
             history: Seq([client: Nat, file: Files, count: Nat]),
             txns: SUBSET [client: Nat, id: TxnIds, by: {"legacy", "user"}, import: Nat],
             settings: {"own", "legacy"}]
Linked(d) ==
    /\ \A r \in d.rules \cup d.ledgers \cup d.hashes : r[1] \in DOMAIN d.clients
    /\ \A t \in d.txns :
          /\ t.client \in DOMAIN d.clients
          /\ t.import # 0 => t.import \in DOMAIN d.history \* 0: SQL NULL

\* clients.name is UNIQUE.
ASSUME MigrationAssumption ==
    /\ Global \notin OldIds /\ Torn \notin Database
    /\ Exports \subseteq Export
    /\ \A d \in InitialDbs : d \in Database /\ Linked(d) /\ IsInjective(d.clients)

VARIABLES
    db,       \* the database file, or Torn
    keyring,  \* the AI key in the credential store: "own" or "legacy"
    backup,   \* the backup of the run in progress, or NoBackup
    before,   \* the database when the user started the run (history variable)
    conn,     \* the program's connection: "open", "closed" for a run, or not opened ("failed")
    pc,       \* where the migration thread is
    todo,     \* the records the phase has left
    export,   \* the export being imported
    ids,      \* IdMap: old client id -> client row
    found,    \* import row of the history record whose transactions come next
    report,   \* counts and outcome
    runs, faults, stops

vars == <<db, keyring, backup, before, conn, pc, todo, export, ids, found, report, runs, faults, stops>>

Keyed == {"rules", "ledgers", "hashes"}
Counted == Keyed \cup {"clients", "history", "txns"}
Phases == <<"clients", "rules", "ledgers", "hashes", "history", "settings">>
Importing == Range(Phases) \cup {"txns", "saveSettings", "validate"}

NewReport == [imported |-> [e \in Counted |-> 0], success |-> FALSE, rolledBack |-> FALSE]

Init ==
    /\ db \in InitialDbs
    /\ keyring = "own" /\ backup = NoBackup /\ before = db /\ conn = "open" /\ pc = "idle" /\ todo = {}
    /\ export = NoExport /\ ids = << >> /\ found = 0 /\ report = NewReport
    /\ runs = 0 /\ faults = 0 /\ stops = 0

---------------------------------------------------------------------------
(* IdMap: clients the import has met; "global" never resolves. *)
Resolves(c) == c # Global /\ c \in DOMAIN ids
RowsOf(e) == CASE e = "clients" -> Len(db.clients)
               [] e = "history" -> Len(db.history)
               [] OTHER         -> Cardinality(db[e])
TxnKeys(d) == {<<t.client, t.id>> : t \in d.txns}

Met(old, row) == ids' = [c \in DOMAIN ids \cup {old} |-> IF c = old THEN row ELSE ids[c]]
Count(e, n) == report' = [report EXCEPT !.imported[e] = @ + n]
First(S) == CHOOSE i \in S : \A j \in S : i <= j

\* The phase that follows, with its records still to do.
Enter(phase) ==
    /\ pc' = phase
    /\ todo' = IF phase # "settings" THEN DOMAIN export[phase] ELSE {}
PhaseDone ==
    /\ pc \in Range(Phases) \ {"settings"} /\ todo = {}
    /\ Enter(Phases[1 + CHOOSE i \in DOMAIN Phases : Phases[i] = pc])
    /\ UNCHANGED <<db, keyring, backup, before, conn, export, ids, found, report, runs, faults, stops>>

\* Mutant: the connection stays open during the run.
Run_KeepsConn(x) ==
    /\ pc = "idle" /\ runs < MaxRuns
    /\ runs' = runs + 1
    /\ pc' = "backup" /\ export' = x /\ todo' = {}
    /\ ids' = << >> /\ found' = 0 /\ report' = NewReport /\ backup' = NoBackup /\ before' = db
    /\ UNCHANGED <<db, keyring, conn, faults, stops>>
\* do_migration_run: the live connection is closed and the thread starts.
Run(x) ==
    /\ pc = "idle" /\ runs < MaxRuns
    /\ runs' = runs + 1
    /\ conn' = "closed" /\ pc' = "backup" /\ export' = x /\ todo' = {}
    /\ ids' = << >> /\ found' = 0 /\ report' = NewReport /\ backup' = NoBackup /\ before' = db
    /\ UNCHANGED <<db, keyring, faults, stops>>

\* Mutant: the thread returns without reopening the connection.
GiveUp_Returns ==
    /\ pc' = "idle"
    /\ UNCHANGED <<db, keyring, before, conn, todo, export, ids, found, report, runs, stops>>
\* An error before anything was written: the report says so, nothing is restored.
GiveUp ==
    /\ pc' = "reopen"
    /\ UNCHANGED <<db, keyring, before, conn, todo, export, ids, found, report, runs, stops>>

\* backup_database copies the file and opens the copy to see that it is sound.
Backup ==
    /\ pc = "backup"
    /\ \/ /\ db # Torn
          /\ backup' = db /\ pc' = "open"
          /\ UNCHANGED <<db, keyring, before, conn, todo, export, ids, found, report, runs, faults, stops>>
       \/ db = Torn /\ GiveUp /\ UNCHANGED <<backup, faults>>
Open ==
    /\ pc = "open" /\ Enter(Phases[1])
    /\ UNCHANGED <<db, keyring, backup, before, conn, export, ids, found, report, runs, faults, stops>>
OpenFails ==
    /\ pc \in {"backup", "open"} /\ faults < MaxFaults
    /\ faults' = faults + 1 /\ UNCHANGED backup /\ GiveUp

---------------------------------------------------------------------------
(* import_all, one statement or transaction at a time. *)
Importer == UNCHANGED <<keyring, backup, before, conn, export, runs, faults, stops>>

\* A client that exists under its name is taken over, any other is added.
ImportClient ==
    /\ pc = "clients" /\ todo # {}
    /\ LET i == First(todo)
           c == export.clients[i]
           known == {k \in DOMAIN db.clients : db.clients[k] = c.name}
       IN /\ todo' = todo \ {i}
          /\ IF known # {}
             THEN /\ Met(c.id, First(known))
                  /\ UNCHANGED <<db, report>>
             ELSE /\ db' = [db EXCEPT !.clients = Append(@, c.name)]
                  /\ Met(c.id, Len(db.clients) + 1)
                  /\ Count("clients", 1)
    /\ UNCHANGED <<pc, found>> /\ Importer

\* Rules go in one by one, in order; ledgers one by one, client after client;
\* the hashes of a client together.  Records of the global scope and of
\* clients the export does not have are left out.
Batches(e) ==
    LET same(i) == {j \in todo : Resolves(export[e][j].client)
                                 /\ ids[export[e][j].client] = ids[export[e][i].client]}
        good == {i \in todo : Resolves(export[e][i].client)}
        begun == {i \in good : \E j \in DOMAIN export[e] \ todo :
                     /\ Resolves(export[e][j].client)
                     /\ ids[export[e][j].client] = ids[export[e][i].client]}
    IN  CASE e = "rules"   -> {{First(good)} : i \in good}
          [] e = "ledgers" -> {{First(same(i))} : i \in IF begun # {} THEN begun ELSE good}
          [] e = "hashes"  -> {same(i) : i \in good}
RowOf(e, i) == <<ids[export[e][i].client], export[e][i].key>>

\* import_dedupe counts what get_dedupe_hashes did not have, repeats in the
\* export included; the other two count the rows INSERT OR IGNORE added.
NewRows(e, batch) ==
    IF e = "hashes" THEN Cardinality({i \in batch : RowOf(e, i) \notin db[e]})
    ELSE Cardinality({RowOf(e, i) : i \in batch} \ db[e])
ImportKeyed(e) ==
    /\ pc = e
    /\ \E batch \in Batches(e) :
          /\ todo' = todo \ batch
          /\ db' = [db EXCEPT ![e] = @ \cup {RowOf(e, i) : i \in batch}]
          /\ Count(e, NewRows(e, batch))
    /\ UNCHANGED <<pc, ids, found>> /\ Importer
SkipUnresolved ==
    /\ pc \in Keyed \cup {"history"}
    /\ LET lost == {i \in todo : ~Resolves(export[pc][i].client)}
       IN lost # {} /\ todo' = todo \ lost
    /\ UNCHANGED <<db, pc, ids, found, report>> /\ Importer

\* Mutant: a history record is always new.
SameImport_None(h) == {}
\* A history record is known by client, file and the count the export
\* declares; a new one is saved with the count of its transactions.
SameImport(h) == {k \in DOMAIN db.history :
                     db.history[k] = [client |-> ids[h.client], file |-> h.file, count |-> h.count]}
\* Mutant: an import that is registered counts as done.
RegisterImport_SkipsKnown ==
    /\ pc = "history" /\ todo # {} /\ Resolves(export.history[First(todo)].client)
    /\ LET h == export.history[First(todo)]
       IN IF SameImport(h) # {}
          THEN pc' = pc /\ todo' = todo \ {First(todo)} /\ UNCHANGED <<db, found, report>>
          ELSE /\ db' = [db EXCEPT !.history = Append(@,
                            [client |-> ids[h.client], file |-> h.file, count |-> Len(h.txns)])]
               /\ found' = Len(db.history) + 1
               /\ Count("history", 1)
               /\ pc' = "txns" /\ todo' = todo
    /\ UNCHANGED ids /\ Importer
RegisterImport ==
    /\ pc = "history" /\ todo # {} /\ Resolves(export.history[First(todo)].client)
    /\ LET h == export.history[First(todo)]
       IN IF SameImport(h) # {}
          THEN found' = First(SameImport(h)) /\ UNCHANGED <<db, report>>
          ELSE /\ db' = [db EXCEPT !.history = Append(@,
                            [client |-> ids[h.client], file |-> h.file, count |-> Len(h.txns)])]
               /\ found' = Len(db.history) + 1
               /\ Count("history", 1)
    /\ pc' = "txns"
    /\ UNCHANGED <<todo, ids>> /\ Importer

\* upsert_transactions: INSERT OR REPLACE on (client, id), in one transaction.
\* What count_existing_transaction_ids finds counts as skipped.
StoreTransactions ==
    /\ pc = "txns"
    /\ LET h == export.history[First(todo)]
           c == ids[h.client]
           new == {[client |-> c, id |-> x, by |-> "legacy", import |-> found] : x \in Range(h.txns)}
           there == {x \in Range(h.txns) : <<c, x>> \in TxnKeys(db)}
       IN /\ db' = [db EXCEPT !.txns = {t \in @ : t.client # c \/ t.id \notin Range(h.txns)} \cup new]
          /\ Count("txns", Len(h.txns) - Cardinality(there))
          /\ todo' = todo \ {First(todo)}
    /\ pc' = "history"
    /\ UNCHANGED <<ids, found>> /\ Importer

\* Settings that are no object are reported and skipped.  Settings::save
\* writes the AI key to the credential store, outside the database.
ImportSettings ==
    /\ pc = "settings"
    /\ IF export.settings = "good"
       THEN pc' = "saveSettings" /\ keyring' = "legacy"
       ELSE pc' = "validate" /\ UNCHANGED keyring
    /\ UNCHANGED <<db, backup, before, conn, todo, export, ids, found, report, runs, faults, stops>>
SaveSettings ==
    /\ pc = "saveSettings" /\ pc' = "validate"
    /\ db' = [db EXCEPT !.settings = "legacy"]
    /\ UNCHANGED <<todo, ids, found, report>> /\ Importer

\* A statement fails: import_all returns the error.
Fail ==
    /\ pc \in Importing \ {"validate"} /\ faults < MaxFaults
    /\ faults' = faults + 1 /\ pc' = "rollback"
    /\ UNCHANGED <<db, keyring, backup, before, conn, todo, export, ids, found, report, runs, stops>>

\* validate_migrated: a table holds no fewer rows than were reported for it.
RowsMissing == \E e \in Counted : report.imported[e] > 0 /\ RowsOf(e) < report.imported[e]
Validate ==
    /\ pc = "validate"
    /\ IF RowsMissing THEN pc' = "rollback" /\ UNCHANGED report
       ELSE pc' = "reopen" /\ report' = [report EXCEPT !.success = TRUE]
    /\ UNCHANGED <<db, todo, ids, found>> /\ Importer

\* restore_from_backup, or its failure, which may leave the file cut short.
Rollback ==
    /\ pc = "rollback" /\ pc' = "reopen"
    /\ db' = backup /\ report' = [report EXCEPT !.rolledBack = TRUE]
    /\ UNCHANGED <<todo, ids, found>> /\ Importer
RollbackFails ==
    /\ pc = "rollback" /\ faults < MaxFaults
    /\ faults' = faults + 1 /\ pc' = "reopen" /\ db' \in {db, Torn}
    /\ UNCHANGED <<keyring, backup, before, conn, todo, export, ids, found, report, runs, stops>>

\* Whatever happened, the thread reopens the connection and reports.
Opened == IF db # Torn THEN "open" ELSE "failed"
Reopen ==
    /\ pc = "reopen" /\ pc' = "idle" /\ conn' = Opened
    /\ UNCHANGED <<db, keyring, backup, before, todo, export, ids, found, report, runs, faults, stops>>
\* The open of an intact file fails (its key, a lock, the disk): it is logged,
\* and the program stays without a connection.
ReopenFails ==
    /\ pc = "reopen" /\ pc' = "idle" /\ conn' = "failed"
    /\ faults < MaxFaults /\ faults' = faults + 1
    /\ UNCHANGED <<db, keyring, backup, before, todo, export, ids, found, report, runs, stops>>

---------------------------------------------------------------------------
(* Around the thread. *)

\* The user classifies a transaction; without a connection nothing is saved.
Edit ==
    /\ conn = "open"
    /\ \E t \in db.txns : /\ t.by = "legacy"
                          /\ db' = [db EXCEPT !.txns = (@ \ {t}) \cup {[t EXCEPT !.by = "user"]}]
    /\ UNCHANGED <<keyring, backup, before, conn, pc, todo, export, ids, found, report, runs, faults, stops>>

Crash ==
    /\ pc # "down" /\ stops < MaxStops
    /\ stops' = stops + 1 /\ pc' = "down" /\ conn' = "closed"
    /\ db' \in IF pc = "rollback" THEN {db, Torn} ELSE {db}
    /\ report' = NewReport
    /\ UNCHANGED <<keyring, backup, before, todo, export, ids, found, runs, faults>>
Start ==
    /\ pc = "down" /\ pc' = "idle" /\ conn' = Opened
    /\ UNCHANGED <<db, keyring, backup, before, todo, export, ids, found, report, runs, faults, stops>>

Thread ==
    \/ Backup \/ Open \/ PhaseDone \/ ImportClient \/ SkipUnresolved
    \/ \E e \in Keyed : ImportKeyed(e)
    \/ RegisterImport \/ StoreTransactions \/ ImportSettings \/ SaveSettings
    \/ Validate \/ Rollback \/ Reopen
Next ==
    \/ Thread
    \/ \E x \in Exports : Run(x)
    \/ OpenFails \/ Fail \/ RollbackFails \/ ReopenFails \/ Edit \/ Crash \/ Start

Spec == Init /\ [][Next]_vars /\ WF_vars(Thread)

---------------------------------------------------------------------------
(* Properties. *)

TypeOK ==
    /\ pc \in Importing \cup {"idle", "down", "backup", "open", "rollback", "reopen"}
    /\ db = Torn \/ (db \in Database /\ Linked(db))
    /\ conn \in {"open", "closed", "failed"}
    /\ conn = "open" => pc = "idle" /\ db # Torn

\* What a run reports is so.  Success: every record of the export whose client
\* it could resolve is in the database, also when an earlier run or a crash
\* left part of it there (mod.rs: "moving an existing user ... without losing
\* data").  A rollback: the database is as it was when the user started the
\* run, whichever phase failed (report.rs "no partial data was left behind").
ReportIsTrue ==
    /\ report.rolledBack /\ pc = "reopen" => db = before
    /\ report.success =>
       /\ \A i \in DOMAIN export.clients : export.clients[i].name \in Range(db.clients)
       /\ \A e \in Keyed : \A i \in DOMAIN export[e] :
             export[e][i].client \in {c.id : c \in Range(export.clients)} => RowOf(e, i) \in db[e]
       /\ \A h \in Range(export.history) :
             h.client \in {c.id : c \in Range(export.clients)} =>
                \A x \in Range(h.txns) : <<ids[h.client], x>> \in TxnKeys(db)
       /\ export.settings = "good" => db.settings = "legacy" /\ keyring = "legacy"

\* However often a migration is run, fails, or dies in the middle, no client
\* and no import is registered twice (importer.rs "duplicate-safely by natural
\* key"); excepted are an import whose declared count is wrong (its key differs
\* from what is stored) and one that the database found had twice already
\* (import_history has no UNIQUE and the program's own imports do not look).
Miscounted == {h.file : h \in {g \in UNION {Range(x.history) : x \in Exports} : g.count # Len(g.txns)}}
FoundTwice == {h \in UNION {Range(d.history) : d \in InitialDbs} :
                  \E d \in InitialDbs : \E j, k \in DOMAIN d.history :
                      j # k /\ d.history[j] = h /\ d.history[k] = h}
NothingTwice ==
    db # Torn =>
       /\ IsInjective(db.clients)
       /\ \A j, k \in DOMAIN db.history :
             db.history[j] = db.history[k] /\ db.history[j].file \notin Miscounted
                => j = k \/ db.history[j] \in FoundTwice

\* Nothing but the import of the same transaction undoes what the user did to
\* it: no edit is saved to a database a running migration will put back.
EditsOutliveRollback ==
    [][\A t \in (IF db = Torn THEN {} ELSE db.txns) :
          t.by = "user" => \/ pc = "txns" \/ db' = Torn
                           \/ t \in db'.txns]_vars

\* Every way the thread ends, early returns included, leads through the
\* reopening: no run leaves the connection closed.  Whether the open succeeds
\* is another matter ("failed").
MigrationEnds == (pc = "backup") ~> (pc = "down" \/ (pc = "idle" /\ conn # "closed"))

=============================================================================
