# TLA+ models of the bank statement processor

The repository is a desktop program (Rust, Slint, SQLite/SQLCipher) that reads bank
statements, and a licensing server (Rust, axum, PostgreSQL) that sells licenses through the
Razorpay payment gateway and counts the devices that use them. This directory models the
parts where several actors, failures or restarts meet, and the way of a statement's amounts from
the printed page to the accountant's files; it checks them with TLC and proves the main results
with TLAPS. Source paths below are relative to the repository root (`src/...`
in the program's own layout; PROJECT.json prefixes the directory the checkout lives in).

## The system

| Component | State it keeps | Operations | What is hard | What makes it correct |
|---|---|---|---|---|
| Checkout and payment webhooks (`server/src/service/payment_service.rs`, `repository/payment_webhook_event.rs`) | tables subscriptions, payments, licenses, payment_webhook_events | create_checkout_session; one handler per webhook: resolve from reads, then claim_and_apply in one transaction | duplicated, reordered, lost events; reads before the transaction go stale; failed requests | an event acts once; a license is paid for; refunds and cancellations are final; no event touches another customer |
| Reconciliation (`server/src/reconciliation.rs`) | none of its own; synthetic event ids in the ledger | hourly listing of gateway payments, healed through the webhook path | races with webhooks; time-outs; the lookback window | what the gateway captured is applied without any webhook (it is not: ReconcileBackstop) |
| Devices and licenses (`service/license_service.rs`, `repository/device.rs`) | tables licenses, devices; row locks | activate, validate, heartbeat, deactivate | many machines, one limit; administrators and billing in between | never more than max_devices; no refusal while a slot is free; every request ends |
| Administrator service (`service/admin_service.rs`) | the same tables | revoke, restore, (de)activate a device; lists | check and update in two statements | as above |
| Desktop license client (`src/license/`, call sites in `src/main.rs`) | table local_license; the database mutex; the screen | activate, check_status, enforce, refresh | network loss, clock changes, lost writes, checks of several threads | refusals stay, revocations arrive, the grace period ends |
| Desktop database (`src/db/`) | the database file, its `.bak` and `.migrating` files, the key in the credential store, PRAGMA user_version | open: encrypt once, recover, migrate the schema | a crash at any statement or file operation; a lost key; a damaged file | committed work survives; recovery ends; an open database has its whole schema |
| Batch import and main window (`src/main.rs`) | the transactions on screen, the batch in progress | batch run, pause, abort, password prompt, OCR and AI threads, autosave | event-loop interleavings, partial saves | nothing read is lost or counted twice |
| Legacy migration importer (`src/migration/`) | the database and a backup of it | backup, import phases, validation, restore | a failure or crash between phases, a window that stays live | success means everything is there, a rollback restores, repeating is safe |
| Sessions and rate limits (`server/src/service/auth_service.rs`, `rate_limit.rs`, `rate_limit_cleanup.rs`) | sessions; token buckets | login, guards, logout; charge a bucket, evict idle ones | revocation while a request runs; senders behind shared proxies; eviction; restart | a logged-out session opens nothing; nobody exceeds the quota or pays for another |
| Column detection (`src/parser/column_detector.rs`, `excel_parser.rs`) and bank detection (`bank_detection.rs`) | none | score labels, or contents, into columns; assign items to columns; weigh the evidence for a bank | labels in any order, partial and combined labels; payments that name other banks | every text is read under its own label; the issuer is the letterhead's bank |
| Statement readers (`src/parser/*.rs`) | the buffers a row loop carries: pending transaction, held words, open block, running balance | fourteen row loops and their passes: sides, balances, duplicates, repairs | one transaction spread over rows in many ways; sides told by balances only; misread digits | what is read is what the bank booked |
| Classification (`classifier.rs`, `party_master.rs`, `gst_engine.rs`) | the rules; the rows' vendor, head, type, tags, flags | party name, rules, keywords, type, GST, duplicates, one name per party | runs again after edits and rules; passes feed one another | the user's work stays; one spelling per party; of duplicates one stays |
| Exports and dashboard (`export/`, `analytics.rs`, `tally_group_engine.rs`, re-import in `main.rs`) | files; the workbook and its way back | six formats, validation, preview, badges, workbook, re-import | each format decides dates, sides, opening rows in its own way | books balance with the bank; counts announced are counts written |
| Bank reconciliation (`src/reconciliation.rs`) | vouchers, last report | import a register, score, greedy matching | ties and competing pairs | one-to-one and stable |
| Settings, screens, server shell, deployment scripts, audit trail, protocol types, monthly password | files, rows nobody relates to others | configuration, I/O | - | - |

How they interact: the gateway and the reconciliation job write licenses through
`claim_and_apply`; `license_service` reads them and owns the devices; the desktop asks
`license_service` over HTTPS and caches the answer in its database, which `db::open` has
decrypted and migrated; every part of the desktop shares one connection behind one mutex and
reports to the Slint event loop. A file goes through column detection, a reader, bank detection,
classification and the screen to the database (files of a batch straight to the database), and
from the screen to the exports, the workbook and the reconciliation. PROJECT.json lists every component with its status, and the
hazards of the code, each at its line with the properties that watch it.

## Modules

| Module | Models | Read with |
|---|---|---|
| `PaymentStore` | the payment tables, the checkout, the gateway (charges, refunds, disputes, lapses), `ResolvePayment` and `ResolveLicense` (what a webhook reads and decides) and `claim_and_apply` (what its transaction writes) | payment_service.rs, payment_webhook_event.rs |
| `AtomicWebhooks` | the abstract specification: an event is resolved and applied at one moment | |
| `PaymentWebhooks` | tasks that handle webhooks as the server does: Receive (payment lookup), ReadLicense, Claim or ClaimLost, Fail; other tasks' steps come in between | payment_service.rs handle_webhook |
| `PaymentReconciliation` | extends it with the reconciliation job: StartRun, reconcile_one, ReadPayment, FinishRun, TimeOut, and charges leaving the lookback window | reconciliation.rs |
| `DeviceSlots` | the abstract slot discipline of one license | |
| `LicenseServer` | requests as statement-level tasks with PostgreSQL row locks; administrators; billing; the clock | license_service.rs, device.rs, admin_service.rs |
| `LicenseDesktop` | the checks of background threads: lock, online question, offline grace, watermark, the outcome applied by the event loop | src/license/*.rs, main.rs |
| `DesktopDatabase` | `db::open` at file-operation and statement level, with crashes, lost keys and damaged files | src/db/encryption.rs, src/db/mod.rs |
| `BatchImport` | the batch run on the event loop: timers, pause, abort, password prompt, reading threads, saves and dedupe hashes, files opened on their own and clients selected meanwhile, classify, crash | src/main.rs, src/db/mod.rs |
| `LegacyMigration` | the import thread, statement by statement: backup, phases, validation, restore, reopening, which may fail; crashes, failed statements, repeated runs, edits meanwhile | src/migration/*.rs, main.rs |
| `Admission` | requests as tasks: forwarded headers, the two limiters, eviction, login, session and administrator guards, logout, shutdown and restart | rate_limit.rs, rate_limit_cleanup.rs, auth_service.rs, routes/*.rs, main.rs |
| `Workspace` | the window outside a batch: clients, files, scanned files' and the AI's threads, edits, rules, undo, imports, restart | src/main.rs, src/db/mod.rs |
| `Layout` | the labels of a page scored and assigned, columns told from contents, items put under labels; the evidence for the issuing bank | column_detector.rs, bank_detection.rs, excel_parser.rs, pdf_parser.rs |
| `Statement` | the row loops of fourteen readers, a row a step, and their passes | pdf_parser.rs, excel_parser.rs, ocr_parser.rs, transaction_extractor.rs |
| `Classification` | party names, rules, keyword tables, voucher types, GST, duplicates, names merged (operators) | classifier.rs, party_master.rs, gst_engine.rs, narration_cleaner.rs |
| `Exports` | posting ledgers and groups, dashboard, badges, six formats, validation, preview, workbook and its reading (operators) | export/*.rs, tally_group_engine.rs, analytics.rs, main.rs |
| `Positions` | the rows of a list at some positions: `retain` and `filter` told so that the provers have facts about it; used by Statement, Classification, BatchImport and Workspace | main.rs |
| `Reconciliation` | the register's import, the score of a pair, the greedy claims one at a time | reconciliation.rs, main.rs |
| `Books` | composes Layout, Statement, Classification, Exports and Reconciliation: locate, read, identify, load, classify, edit, add, reset duplicates, re-import, match | main.rs |
| `*_MC` | the model values, event sets, old databases, statements, pages and registers the runs use | |
| `PaymentWebhooks_proofs`, `License_proofs` (server and desktop), `DesktopDatabase_proofs`, `BatchImport_proofs`, `LegacyMigration_proofs`, `Admission_proofs`, `Workspace_proofs`, `Books_proofs` (and its Reconciliation) | theorems and proofs | |

Correspondence with the code. A definition has the name of the function it models where one
exists; PROJECT.json "map" gives the lines. Table rows are functions or sequences, a NULL is a
named constant (`NoCharge`, `Never`), the surrogate keys are positions. One step of a model is
one thing the code does without another actor being able to see its middle: a statement, a
transaction, a stretch between two `.await`s or under one mutex, a file operation (two steps
where the operation itself can be cut short: `fs::copy`, `sqlcipher_export`); in BatchImport
and Workspace it is a handler of the event loop, whose calls are functions from one state of the
window (`Desk`) to the next ones. In Statement a step is a row or a pass; the sequential
engines of Classification and Exports are operators that the handlers of Books apply. What a task has
read and will use later is kept in the task (`handlers`, `calls`, `threads`), so staleness is
in the model. Names suffixed `_Something` next to an action are variants with a plausible bug;
the specifications do not use them, they show that each property notices the bug.

Abstractions. Payloads are their event type, their charge and whether the amount matches;
signatures hold (a request without one has no effect). Times are small integers; a plan's
period is one tick. A license key names its license. The work in the desktop database is the
number of committed changes. PostgreSQL is READ COMMITTED with row locks; SQLite statements
outside a transaction commit one by one. `sqlcipher_export` either copies `user_version` or
not: the constant `ExportKeepsVersion` leaves it open, the runs take TRUE. The cells of a
statement hold what the parsers recognise in them (a date, an amount in paise, a side's mark,
words); a label or a narration is a sequence of fragments or words, and the keyword tables are
represented by members that differ in what they hold, begin or end with; a lexicon says which
keywords the engines find inside a word. A mention stands for what names a bank in a text.

## Runs

Passing:

| Run | Instance | What it shows |
|---|---|---|
| WebhooksSerial | one checkout, two charges, all events of a one-time payment, one failing request, one tick | with one task the statement-level server implements `AtomicWebhooks` (RefinesAtomic); one live license per subscription; an active license is paid, in full; revoked stays revoked; every event is processed in the end |
| WebhooksConcurrent | two tasks, a one-time and a recurring checkout, two charges | an event takes effect once and only with its ledger row; no step changes two customers' rows, however stale the reads |
| LicenseServer | two machines, one slot, an administrator, expiry | the limit is only claimed when it is real; the server implements `DeviceSlots`; every request ends |
| LicenseDesktop | two threads, two days, no grace beyond the day, one lost write; the server answers active, suspended or revoked | refusals stay, the watermark does not move back, revocations reach an open program, the grace period ends |
| DesktopDatabase | a new, a pre-versioning and a version-3 database; two crashes, two faults, two changes | committed work survives a crash at every step; the program never runs on less than the backup; every start ends |
| LegacyMigration | two exports, an empty and a used database; two runs, one failed statement, one crash | success means the whole export is there and a rollback that nothing is (ReportIsTrue); nothing is registered twice; edits outlive a rollback; every end of a run reaches the reopening of the database |
| Admission | three requests of two clients behind one or two proxies; two users; a device; one stop | nobody gets more than the quota (WithinBudget) or is refused for another's requests (OwnBudget); a logged-out session stays out |
| BatchImport | a plain file that has a transaction twice and a protected one that shares one with it; two clients, a batch per start of the program, a file opened on its own; one failed read or write, or a crash | nothing is stored twice for a client whose rows were always compared with what is stored for it (`bypassed` names the others, see below); a batch reports each file once and ends, or waits for the user, unless it meets what an aborted one left or its prompt is taken by a file opened on its own (`crossed`) |
| Workspace | two clients, a sheet and a scan that share a transaction; two loads; two turns or failed writes or reads besides | what is shown is stored unless a write failed; a checked transaction is stored once; automatic steps leave the user's work alone |
| Books | 7 400 statements of fourteen readers, 1 003 pages, two sheets taken on to the books; two user turns | what was read is what was booked (LedgerRead), under its own label (ColumnsRead), of its own bank (OwnBank); the money is right in every file and Tally's ledgers are defined once (BooksBalance); counts agree; duplicates, names and matches are consistent |

Two runs find a disagreement between the code and what the repository says of it (PROJECT.json
"findings" has the quotes; more are described below):

| Run | What happens |
|---|---|
| RaceRevoked | an activation looks the license up, a refund revokes it, the activation commits and the license is active again |
| ReconcileBackstop | the activation webhook is lost; every reconciliation run lists the payment and skips it, because neither its order id nor its id is what the checkout stored, the id of the payment link or subscription |

Bounds. Two charges let a subscription renew and let one charge's refund meet the other's
capture; two tasks, machines or threads give every pairwise interleaving, and each property
is about at most two actors; two slots' worth of machines for one slot makes the limit bind.
`MaxTime` = 1 (LicenseServer) and `MaxNow` = 1 (PaymentStore) are one expiry; `Answers` is what the license server may report,
without "expired" in LicenseDesktop (see below); `MaxLicenses` is never the reason an activation waits with the
charges at hand. A failed request, lost write or crash is counted (`MaxFaults`, `MaxStops`):
after the bound nothing fails, which liveness needs anyway. Two stops are enough for a crash
during the recovery from a crash. BatchImport has one batch per
start, so a second one after a crash, and a file opened on its own before, during or after it:
each may store what the other does not know, which is all it takes to store twice; a third file
would only be another of the two kinds. A failure that is followed by a crash is left to the
proof, which bounds neither. Two timers
(`MaxTimers`) are the fewest with which two chains go on with one batch.

Bounds of the desktop's data. Statement: ledgers of one to three transactions (two of them on
one day) of 200, 350 and 900 rupees from 5 000, every order of sides up to two and two of
three, each transaction in any of the styles its layout prints (wrapped, above, around, split,
cut year, marked, guessed, without balance, digits, both sides, ...), with or without opening
and closing rows, newest first where the reader knows it; and scans of four layouts with one
misread balance (or amount), after the first transaction. Three rows are the fewest with a
row that has neighbours on both sides, and the passes look one row back. `Readable` leaves out
what a layout cannot tell: a side on the first row before any balance is known; a word above a
page's later row, which is a continuation of the row before. Layout: the five labels of a
plain sheet in any order, those of five other banks (a value date, unknown and short labels, an
unrecognised column and a nameless one among them) turned round and read from either end, in
cells or 100 points apart, amounts from 50 points left to 49 right of their label, a decoy row
above, unlabelled pages, a label in two items with amounts left of it, under its first half and
under its second; every combination of a bank's own evidence on the page and in the file name
with ten sets of narrations that name other banks, in payment references and outside. ColumnsRead
leaves out two kinds of page, and TLC shows that each is misread (see Reading below): another
date label that scores better, or as well and further left, and items under the second half of
a split label. OwnBank leaves out another bank's domain, and its name outside a payment
reference where the statement's own evidence is weak; without either exception TLC finds a
wrong bank. One sheet and one page
are laid out in all these ways, other statements in the usual one: nothing the readers do
depends on where the columns were. Books: two sheets with equal amounts on one day and on two
days, eight meanings of their narrations, two rule books, two edits, three added rows, nine
questions to the export wizard, three registers and two turns: an edit or a rule and what
classification, re-import or matching make of it. Amounts are whole rupees, so that the
accounting formats' rounding has nothing to round.
Workspace: two turns besides two loads are enough for each property to fail under its mutant,
and for a thread to report after a change of client. LegacyMigration: a second run after a
rollback, a crash or a success; the exports name a client twice, repeat a hash, miscount a file
and share a transaction id, the used database already has a client and some of their rows. Admission: `Burst` 2 of three requests makes the limiter bind.

Fairness. Webhooks: the gateway retries until it gets a 2xx (strong fairness of receiving
some unprocessed event, because a task is busy between), and tokio polls a started task. In
ReconcileBackstop the interval fires and a run goes on; nothing is assumed of the gateway. LicenseServer: PostgreSQL queues lock requests, so a request that can go on again
and again does (strong fairness). LicenseDesktop: the 24-hour timer fires while the window is
open; mutex waits and HTTP requests end. DesktopDatabase: `open` runs to its end on one
thread; starting, crashing and quitting are never forced. BatchImport: Slint fires its timers
and threads end; the user resumes what was paused and gives up, in the end, on a file that keeps
asking for its password.
LegacyMigration: the migration thread goes on unless the process dies; nothing makes the
reopening succeed. Admission, Workspace and
Books state safety only.

Deadlock checking is on in DesktopDatabase, BatchImport and Books. The other
models may stop for a reason of the system: every charge is spent and every event processed,
or the bounds on time, runs or turns are reached; their liveness properties say what must have
happened then.

## Proofs

TLC agreed with each theorem and each inductive invariant on the instances above before it
was proved. No axiom is used; the constants' assumptions are the named ASSUMEs.

* `PaymentWebhooks_proofs`. IInv is TypeOK, TasksOK and GatewayIdBelongs. TasksOK says what a
  task in flight holds: an effect whose gateway id is NULL or the charge of its own event, an
  activation, and whose license id, once read, is of the effect's checkout. It is needed
  because a task commits long after it read, and it holds because nothing it speaks of is
  ever taken back: license rows keep their subscription, a captured charge stays one. From it
  follow Types, GatewayIds, EffectOnce and OneCheckout, for any number of tasks, checkouts,
  charges and ids. The lemma LatestBelongs (find_latest_by_subscription returns a row of that
  subscription) needs that a finite set of positions has a greatest element.
  With one task (Handlers = {h}) the handler and its transaction have one moment. TasksFresh says
  that what the task read still decides: between its lookups and its claim only the customer, the
  gateway and the clock move, and they leave the rows it read and the charges it speaks of alone
  (SentStays, PaymentStays, OutcomeStays), so ClaimIsAtomic: the claim applies what would be
  resolved now. Hence SerialIsAtomic (the refinement of AtomicWebhooks), and the properties of the
  atomic server become those of the statements: one live license per checkout (SerialOneLive), an
  active license's payment stands (SerialSettled), it was paid in full (SerialPaid), revoked stays
  revoked (SerialRevoked). SerialPaid leaves subscription.activated out: that event names no
  charge, so what it issues has no amount to compare (SerialSettled covers it). RaceRevoked shows
  that one task is a hypothesis that cannot be dropped.
* `License_proofs`, the server. The invariant is LockedSnapshot with the types: while a request
  holds the locks, every step that changes Active waits (RowLocked), so the count it read is
  the count it commits on. Hence the refinement of DeviceSlots, the limit and the truth of
  LICENSE_DEVICE_LIMIT_REACHED, for any number of machines and any limit.
* `License_proofs`, the desktop. A thread between its first read and its last write holds the mutex,
  network round trip included (UnderMutex), so what it loaded is still the record (LoadedIsRecord);
  RefusalRecorded relates what the server last said to the record as long as no write failed. From
  these RefusedStaysLockedHolds and WatermarkHolds, for any number of threads, any grace period and
  a clock set to anything.
* `DesktopDatabase_proofs`. Where `open` is tells what the files are (Progress), a backup is
  never newer than the database (BackupIsOlder), an empty file is a copy cut short (Fresh).
  From these WorkSurvives and NeverBehindBackup for any old databases and any number of
  crashes, lost keys, damaged files and faulty exports.
* `LegacyMigration_proofs`. The heart of IInv is Progress: what a phase has behind it (the export's
  records that are no longer in todo) is in the tables, under the row ids the import has met, and
  no later phase takes it away (InStays: the tables only grow). RunOK says that from the backup to
  its end a run has the database as it was in `backup`, which needs the closed connection;
  UserRowsKept, that every row the user wrote is in it. A success therefore means everything is
  there and a rollback brings back what was (ReportHolds), edits outlive it (EditsHold), also when
  runs are repeated after failures and crashes. NothingTwiceHolds adds that a history record is
  appended only when its key is not there; what the database found has twice is excepted (FoundTwice),
  because import_history has no UNIQUE and the program's own imports do not look.
  MigrationAssumption: an export's clients are not called "global", which the old program reserves
  (transformer.rs:19-32); names are UNIQUE and foreign keys hold in the databases found (db/mod.rs
  SCHEMA_SQL). For any exports, databases, number of runs, failures and crashes.
* `Admission_proofs`. SessionInv says what a request behind the session guard holds: the token of
  a session's row, which once it was no good stays so, because no step removes a session, prolongs
  it or takes a revocation back (SessionsKept). From it LoggedOutStaysOut, across logouts, crashes
  and restarts. Ledger is the limiter's bookkeeping: a bucket owes each admission of its sender
  what was admitted since, and owes no more than goes back to a moment when it was full. The first
  half gives WithinBudget, the second OwnBudget; evicting an entry that is worth nothing changes
  neither. KeyIsSender (the last entry of the header that is no proxy is where the request entered
  our proxies) makes both say something of senders; it rests on ArrivalAssumption, that a login
  comes from somebody who is no proxy. For any number of requests, addresses, proxies, burst,
  refill and lifetime.
* `Books_proofs`, the books. BooksInv says that what the parser has read and what is on the screen
  are lists, the screen's of whole rows, and that a flagged row follows a row of its amount
  (Follows). The last is there for Load and AutoClassify, whose detection starts from the flags it
  finds: with it, of an amount the first row is never flagged, so every flagged row follows one that
  is not, and DupFlagsHolds needs no sums. SaveTxn leaves amounts, re-import and ResetDedupe clear
  the flags first, AddRow appends, so each keeps it. OneSpellingHolds: two names of the same words,
  each as often, have the same signature, so they resolve among the same spellings; the fullest
  spelling (CHOOSE) is one of them whatever the weights, because there are finitely many names and
  the order among equals has no cycle (BeforeIsAnOrder). It speaks of every name the program
  normalizes: all vendors, and the ledgers that are no category. CountsAgreeHolds: an accepted export has no row
  without a date (Errors), and on dated rows Tally's filter and the other formats' are one set of
  positions (DatedRows); a file has two lines a voucher (JournalLines, TallyLines); the three types
  split the rows (PreviewAdds); a badge and its filter ask the same of a row (BadgesShow).
  LedgersDefinedHolds: a line's account is the bank, cash, capital or the ledger of an exported row
  (TallyAccounts), and of the rows that post to a ledger exactly the least defines it (MastersOnce); a bank ledger
  without a name is excepted.
  For any statements, pages, dictionaries, rule books, settings, edits, added rows, options and any
  number of turns. OptionsAssumption names the six programs the wizard offers; a seventh has no file.
  The third pass of the detection flags by a function of the earlier rows' flags; that the function
  exists (HitExists) is proved by a least counterexample (Least), where induction over a list is out
  of reach.
* `Books_proofs`, the reconciliation. The report grows one claim at a time while candidates are struck
  out. Free says that the candidates left share no side with a match, Settled that every
  scoring pair is left, matched, or excluded by a match of the same transaction or voucher that
  scores no less. Both are inductive because a claim takes a best candidate; with no candidate
  left Settled is stability (NoBlockingPair) and OneToOne is MatchedOnce, for every register,
  every list of transactions, every tolerance and whatever the scores are, as long as they are
  numbers (ScoreInt).
* `Workspace_proofs`. A handler turns one desk into another, so the invariant is of a desk and each
  helper has a lemma about the desks it returns (Upserted, SelectStep, LoadStep). Shown says that a row
  on the screen whose id is not in `unsaved` is in the client's table, and that ids which repeat on
  the screen are in `unsaved`: without the second half a write of the last such row would
  contradict the first. Once says of a client whose rows were all checked that a key has one id
  and is hashed wherever a row may come back from (a load that could not read the hashes marks
  its client `unchecked`, as one without the check does): its table, the screen, the copy the AI thread
  took of it, and through ReloadImport any row that names one of its imports. A thread's result is
  dropped against the hashes of the moment it reports, which is why no order of reports matters.
  From these ShownHolds, LoadedHolds and SurvivesHold, for any clients, statements, rules, edits,
  threads, failed writes and restarts. The check compares with earlier loads only (main.rs:1328), so
  of what it does not compare (Uncompared: rows typed in, and what one statement has twice, both of
  which are stored) LoadedOnce says nothing. What `retain` keeps
  is written by positions (Only) and not with SelectSeq, whose recursion the provers do not expand.
* `BatchImport_proofs`. Good, of a desk as in Workspace, has two halves. Of the rows of a client that
  is not `bypassed`: a key has one id among those stored, shown and in its batch (unless its
  statement has it twice), and what is stored is known to the batch that runs for the client, or
  would be to one begun now, because it is on the screen or its hash is stored. Every handler keeps
  it because a file appends rows whose keys are new to what it is compared with, and where that is
  less than what is stored the client becomes bypassed. Of files: in a batch that is not `crossed`,
  a file it has yet to report is in one place only, the queue, the prompt or a reading thread,
  which is why no order of timers, pauses, prompts and threads reports it twice; a prompt that is
  not shown has no file. Hence StoredHolds and ReportedHolds, for any clients, files, contents and
  passwords and any number of batches, timers, files opened on their own, failed reads and writes
  and crashes.

Model-checked only:

* Liveness, out of the prover's reach: the webhooks' RequestsEnd and every event being processed,
  EventuallyClaimed, RevocationReaches, GraceEnds, StartupEnds, MigrationEnds, BatchEnds;
  the payment reconciliation has no theorem, its one property is refuted.
* LedgerRead, ColumnsRead and OwnBank: what a reader returns for a page is a fold over the page's
  rows, so what it returns for every page is induction over data; the pages themselves are the
  constants.
* BooksBalance, all but LedgersDefined in it: the sums over a ledger and over a file's lines are
  folds as well, and that the screen's money is the bank's rests on LedgerRead.
* NoBlockingPair, proved of the reconciliation by itself (Stable), is checked in Books with the
  entries the screen gives it; that those are entries with finitely many words depends on what
  the readers return.

## Seen while modelling, without a run of its own

### Disagreements with the repository's own words

* `payment_webhook_event.rs:380`: ResolveDispute sets the license active without looking at the
  subscription, so halted, disputed, dispute won leaves an active license on a suspended
  subscription; line 61 says "a subscription going inactive must immediately invalidate its
  license too".
* `license/mod.rs:218`: the offline branch fails closed for a cached "revoked" or "suspended", not
  for "expired": the next check, offline, is granted the grace period, although lines 211-217 and
  `validation.rs:33-35` mean every refusal. LicenseDesktop's server does not answer "expired".
* `db/mod.rs:1002`: user_version 0 with a dup_flag column is taken for an older build, but a first
  start that died between migration 1's ALTER (1015) and its user_version (1018) looks the same,
  so migration 2 (audit_log) is skipped for ever; lines 743-745 and 792-794 say an open database
  has the schema. DesktopDatabase's WorkSurvives speaks of the work, not the schema.
* `db/mod.rs:180`: the key is (client_id, id) and ids are positions in the file (pdf_parser.rs:686,
  transaction_extractor.rs:2060, excel_parser.rs:876), so the rows of a client's second statement
  replace the first's at the same positions, and the dedupe hashes keep them from being imported
  again; `tests/analytics_export_persistence.rs:202-206` expects both.
* `main.rs:4999`: an open that fails after a migration, on an intact file, is logged and leaves no
  connection until the next start; the comment at 4988 says callers "must never leave db_ref
  permanently empty". ReopenFails is in the model, so MigrationEnds asks only that every end of the
  thread comes to the reopening.
* `main.rs:1774`: a file opened on its own clears the pending file of the prompt whoever it belongs
  to, and confirming a prompt without one only hides it (7071-7075): a batch that waits for a
  password then waits for ever, although `ui/mod.rs:48-50` has it resumed once the prompt is
  confirmed or cancelled. BatchEnds leaves out such a batch (`crossed`); without the exception TLC
  finds one.
* `main.rs:1945`: a batch compares with the hashes of its start (2430-2436); what a file opened on
  its own has stored since, with its hashes, it stores again, although `db/mod.rs:637-639` says they
  let "dedup catch the same statement being re-loaded". `main_screen.slint:1584-1588` leaves Load
  Single File on during a batch. StoredOnce leaves such a client out (`bypassed`).
* `column_detector.rs:562-566`: split labels, "DEBIT/" beside "CREDIT(Rs)", are said to be detected as
  one column. "DEBIT/" fits the combined label by its beginning (10 points) and takes that field
  first, so the second half stays a credit column and 618-661 is reached only by texts such as
  "DEBIT/(Rs)"; the test at 1665 asks only that the combined column is set.
* `bank_detection.rs:1143`: the comment says "Narration-derived evidence must never be stronger" than
  the file's name; a bank's domain in any text (0.95) and its name outside a payment reference
  (0.80) are. OwnBank's exceptions are these two.
* `migration/importer.rs:3-8` speaks of one SQLite transaction; phases commit on their own.
* `classifier.rs:122-128` says that making a rule and matching it cannot drift apart; the pattern is
  made of the text without runs of six digits (157-179) and looked for in the text with them
  (216-221), so a rule learned from "UPI/123456789012/ACME" never matches.
* `ai_classifier.rs:43`: the scope All is documented wider than is_eligible_for_ai allows.

### Server and startup

* A refund event that overtakes its capture finds no payment with that gateway id and is
  acknowledged; the later capture issues a license for refunded money until reconciliation
  sees the refund. With two tasks OneLiveLicense can fail the same way as RevokedStaysRevoked
  does in RaceRevoked.
* `OrderIdIsCheckoutRef`: whether a payment's order id is the reference stored at checkout. What
  create_checkout stores is the id of a payment link or subscription (client.rs:361-364, 396-399),
  and payment_service.rs:303-307 says the two never agree: ReconcileBackstop takes FALSE, and
  nothing is healed. Were they to agree, CapturedIsHealed would hold on the same instance (TLC
  finds no violation with TRUE), as long as a run's one page (`BatchSize`, client.rs:151-158)
  holds all the payments in the window; and the job would then also activate a payment of the
  wrong amount, because its synthetic payload has no amount (payment_service.rs:876-886).
  The webhook runs take TRUE, as the payloads of tests/payment_flow.rs do: with FALSE
  payment.captured and payment.failed find no row either, and less could go wrong. The proofs are
  for both values.
* restore_license checks the status and updates it in two statements: a suspension in between
  is overwritten (modelled in LicenseServer; no comment says which one should win).
* activate's answer carries the license as read before the locks; a device may take the slot
  though the answer is lost (the retry is then answered from its own row).
* Outcomes of license checks reach the event loop after the mutex is released, so an older
  one may be applied last; the 24-hour timer corrects it.
* activate() writes the clock watermark without the maximum that advance_clock_watermark
  takes (excepted in WatermarkNeverMovesBack).
* A `.bak` torn by a crash is reused by the next attempt; with the key lost later there is
  nothing to recover from. A lost key makes recovery put the old plaintext backup in the
  place of the encrypted database. Migration 3 is three statements without a transaction: a
  crash between them makes every later start fail with a duplicate column.

* A recovery that dies when `fs::copy` has truncated the file (`fate` = "cut", which
  NeverBehindBackup excepts) leaves an empty file; the next start opens it as a new database
  and leaves the backup alone.

### Batch and window

* Auto-Classify All after an import in the same session stores the rows without their import:
  the transactions in memory never carry an import_id, although main.rs:3375-3377 counts on it.
* The password prompt's overlay has no TouchArea, so the window behind it stays live. Aborting a
  batch whose file waits for a password leaves the prompt: unlocking then imports the file
  without the dedupe check, and in a second batch of the session the old prompt or thread reports a
  file of the first, or lets the batch wait for ever: the late thread clears the pending file under
  the new prompt. A file opened on its own uses the same prompt. These batches are
  `crossed`, which ReportedOnce and BatchEnds leave out. With Pause and Resume a second prompt may
  overwrite the first, whose file is then neither loaded nor failed, and cancelling the prompt once
  it has no file reports a failure without a name (NoFile).
* Rows are compared with less than is stored for their client (`bypassed`, which StoredOnce leaves
  out; without the exception TLC finds a transaction stored twice within five steps): a file is
  opened on its own while the client's batch runs, whose hashes are stored when it ends;
  the dedupe box is off, or a protected file is unlocked; the stored hashes or rows cannot be read
  (`ok().unwrap_or_default()`); or a batch ends after another client was selected, whose screen then
  holds the first client's rows, to be compared with and stored for the second.
* Reset Dedupe History while a batch runs is not modelled.
* A batch file whose history row cannot be saved is reported as OK, and its dedupe hashes are
  stored all the same, so a retry skips it.
* The dedupe hashes are stored before the rows (main.rs:1347-1358): after a failed save the rows are
  "already loaded" until the hashes are reset.
* The AI thread (main.rs:3434-3490) puts its copy of the screen back and stores it for the client
  selected then; a scanned file's late result is stored for the current client too.
* The undo stack survives a change of client and a reload, and does not restore the
  classification's source; `manual-{n}` ids repeat after a deletion; Mark Suspense is not stored;
  Delete Import is refused by a foreign key without a word; import_rules_json deletes and inserts
  outside a transaction; visible_to_abs (main.rs:6648) ignores two of the filters.
* Legacy import: repeats in an export make validation roll everything back; a run repeated
  overwrites edits; the API key in the credential store is not rolled back; a crash leaves a part
  of the import until the next run.
* A restart of the server forgets the buckets; when every hop is trusted the key is the peer.

### Reading

* After two halves of a label are merged the right one stays a fence, and amounts under it are
  dropped.
* A value date left of the transaction's date takes its column when the two labels score alike
  ("Value Dt", "Date"): of equals the lower index wins (column_detector.rs:459-500); the test at 1178
  has them in the other order.
* A label in two items ("Txn" "Date"): the part that is a label wins and the other becomes a fence.
* A sheet whose narration label is unknown, below a row that looks like labels, is read from the
  decoy; a plain "Amount" is taken for the debit; the contents fill the debit with any numeric
  column when the header has only a combined one.
* correct_debit_credit flips every amount under 50 paise, and does not use a known opening balance
  for the first row; a row without a balance before it can cause a wrong swap, or a false mismatch.
* A genuine repeat on one day is dropped where no balance is printed.
* A misread first balance in the IDBI, IDFC, SBI and Union layouts makes the repair overwrite all
  that follow; in Union one misread low digit of a balance can rewrite a right amount.
* Newest-first listings are told by their dates: one of a single day is not, and sheets and pages
  are never; their prepended opening row uses the newest row.

### Books

* A bank whose ledger has no name gets "{bank} A/c" in Tally's vouchers (tally.rs:175-183) and no
  master (245), so BooksBalance asks for the masters only of a named one.
* Tally contra vouchers always debit cash, also for a withdrawal (tally.rs:363-367); in the other
  formats a contra deposit is a bank credit. A type edited, ruled or guessed from words against the
  row's side posts the wrong way (BooksBalance asks for `Agreeing` types).
* Tally's period leaves a row with no date out, the other formats keep it; the quick Tally export
  lacks two of the wizard's checks; dates typed by hand are not validated.
* A duplicate stays flagged when its original is deleted; the second pass flags a refund that
  carries its payment's reference.
* After a rule is deleted its ledger stays on the rows; names chain one step only; names starting
  with a dictionary word collapse ("TATA STEEL"); two names of equal words keep a random spelling of
  the two; category words are found inside others ("Coffee": fee, "Brentwood": rent).
* The workbook's verdict can be MISMATCH for a closing balance ending in .50; a re-imported
  unreviewed row with a party becomes the user's own; GST fields are not reset when a later
  analysis finds nothing.
* The register's "voucher" column may be "Voucher Type"; a debit cell printing 0 hides the credit
  amount; matching ignores the direction of the money; the report survives a new load.

## Not modelled

PROJECT.json "components" gives the reason for each: the audit trail is fire-and-forget; the
screens and the deployment scripts keep no protocol state; the monthly password is a pure function
of two inputs. Left out of modelled components: the recognition of characters, dates and amounts
inside a cell (regular expressions over text, unit-tested on samples; the models start from what
they return), OCR correction tables, the narration cleaner's wording, report layout, the filters'
and dialogs' appearance, file dialogs. Two kinds of hazard have no property: a dispute
closed after a halt (payment_service.rs:707) and ids that two statements share (db/mod.rs:180),
because the code does not do what its comments or tests say; both are described above.

## Plan

Done: every module of the table above. What is left, in order:

1. An abstract book of accounts (rows and their money) that Books implements.
2. Renewals and cancellation of subscriptions by the customer in the reconciliation run.
