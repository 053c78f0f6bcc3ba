----------------------------- MODULE BatchImport -----------------------------
(* The batch run of the desktop program (src/main.rs): files are read one   *)
(* per turn of the event loop, and between two turns the user may pause,    *)
(* resume, abort, answer a password prompt (whose overlay does not keep     *)
(* clicks from the window behind it), load a file on its own, select a      *)
(* client or classify; threads that read scanned pages report back; the     *)
(* process may die.                                                         *)
(*                                                                          *)
(* A handler runs to its end on the event loop, so each action is one       *)
(* handler; a desk is what a handler has made of the state so far.          *)
(* A client is always selected.  A transaction is its dedupe key (the hash  *)
(* of date, narration and amounts) and its id, which the parsers make of    *)
(* its position in its file.  Opening-balance rows are left out, and Reset  *)
(* Dedupe History, which forgets the hashes on purpose.                     *)
EXTENDS Positions, FiniteSetsExt, SequencesExt

CONSTANTS Clients,
          Files,        \* the files the user picks, in the order of Picked
          Picked,
          Contents,     \* Contents[f]: the keys of the transactions in f
          Locked,       \* the files that ask for a password
          NoRow, NoFile, NoBatch, NoImport,
          MaxBatches,   \* batches per start of the program
          MaxTimers,    \* timers pending when the user resumes a batch
          MaxLoads,     \* files loaded on their own
          MaxFaults     \* failed reads and writes of the database, and crashes

\* The file dialog returns a selection: no file twice.
ASSUME PickedIsFiles == /\ Files # {} /\ IsFiniteSet(Files) /\ Locked \subseteq Files
                        /\ Picked \in Seq(Files) /\ IsInjective(Picked)
ASSUME BoundsAreNaturals ==
    /\ MaxBatches \in Nat /\ MaxTimers \in Nat /\ MaxLoads \in Nat
    /\ MaxFaults \in Nat

Keys      == UNION {{Contents[f][i] : i \in DOMAIN Contents[f]} : f \in Files}
Positions == UNION {DOMAIN Contents[f] : f \in Files}
ASSUME ContentsAreSequences == \A f \in Files : Contents[f] \in Seq(Keys)

Rows    == [id : Positions, key : Keys, import : Nat \cup {NoImport}]
Batches == [remaining : Seq(Files), all_txns : Seq(Rows), persisted_hashes : SUBSET Keys,
            client : Clients, paused : BOOLEAN,
            results : Seq([file : Files \cup {NoFile}, ok : BOOLEAN]), crossed : BOOLEAN]

ASSUME NamesAreApart == /\ NoFile \notin Files /\ NoBatch \notin Batches
                        /\ NoRow \notin [key : Keys, import : Nat \cup {NoImport}]

VARIABLES
    client,        \* AppState.client_id
    transactions,  \* each client's table, by id: NoRow, or the key and the import
    history,       \* import_history: the transaction count of each import
    hashes,        \* each client's dedupe_hashes
    screen,        \* AppState.transactions
    batch,         \* AppState.batch_progress: NoBatch or a record
    timers,        \* pending single_shot timers that call continue_batch
    prompt,        \* the password prompt and pending_pdf_path
    ocr,           \* the threads that unlock and read a scanned file
    bypassed,      \* the clients whose rows were compared with less than is
                   \* stored, see Missed (history variable)
    started, loads, faults

vars == <<client, transactions, history, hashes, screen, batch, timers, prompt, ocr,
          bypassed, started, loads, faults>>

Desk == [client |-> client, transactions |-> transactions, history |-> history,
         hashes |-> hashes, screen |-> screen, batch |-> batch, timers |-> timers,
         prompt |-> prompt, ocr |-> ocr, bypassed |-> bypassed, faults |-> faults]

(* The handler ends with the desk d.                                        *)
Leave(d) ==
    /\ client' = d.client
    /\ transactions' = d.transactions
    /\ history' = d.history
    /\ hashes' = d.hashes
    /\ screen' = d.screen
    /\ batch' = d.batch
    /\ timers' = d.timers
    /\ prompt' = d.prompt
    /\ ocr' = d.ocr
    /\ bypassed' = d.bypassed
    /\ faults' = d.faults

NoPrompt == [file |-> NoFile, visible |-> FALSE]

Init ==
    /\ client \in Clients
    /\ transactions = [c \in Clients |-> [i \in Positions |-> NoRow]]
    /\ history = <<>>
    /\ hashes = [c \in Clients |-> {}]
    /\ screen = <<>>
    /\ batch = NoBatch
    /\ timers = 0
    /\ prompt = NoPrompt
    /\ ocr = {}
    /\ bypassed = {}
    /\ started = 0 /\ loads = 0 /\ faults = 0

-----------------------------------------------------------------------------
(* The database.                                                            *)

KeysOf(rows) == {rows[j].key : j \in DOMAIN rows}

(* INSERT OR REPLACE of all rows in one transaction; without an import of   *)
(* its own the call keeps the import each row carries.                      *)
upsert_transactions(table, import, rows) ==
    [i \in Positions |->
        LET at == {j \in DOMAIN rows : rows[j].id = i}
        IN  IF at = {} THEN table[i]
            ELSE LET r == rows[Max(at)]
                 IN  [key    |-> r.key,
                      import |-> IF import = NoImport THEN r.import ELSE import]]

get_transactions(table) ==
    SetToSeq({[id |-> i, key |-> table[i].key, import |-> table[i].import] :
                  i \in {p \in Positions : table[p] # NoRow}})

Faulty(d) == IF d.faults = MaxFaults THEN {} ELSE {[d EXCEPT !.faults = @ + 1]}

(* save_import and upsert_transactions, one after the other: both succeed,  *)
(* the first fails, or the second fails and the history row stays.          *)
SaveImport(d, c, rows) ==
    LET import   == Len(d.history) + 1
        recorded == [d EXCEPT !.history = Append(@, Len(rows))]
    IN  [saved  |-> [recorded EXCEPT
                        !.transactions[c] = upsert_transactions(@, import, rows)],
         failed |-> Faulty(d) \cup Faulty(recorded)]

-----------------------------------------------------------------------------
(* What a file is compared with.                                            *)

parse(f) == [i \in DOMAIN Contents[f] |->
                [id |-> i, key |-> Contents[f][i], import |-> NoImport]]

Unknown(f, known) == Only(parse(f), {i \in DOMAIN Contents[f] : Contents[f][i] \notin known})

(* A mutant: only the stored hashes count as known.                         *)
new_txns_HashesOnly(b, f) == Unknown(f, b.persisted_hashes)

(* What the batch has neither read before nor knows from earlier imports.   *)
new_txns(b, f) == Unknown(f, KeysOf(b.all_txns) \cup b.persisted_hashes)

Running(d, c) == d.batch # NoBatch /\ d.batch.client = c

KeysStored(d, c) ==
    {d.transactions[c][i].key : i \in {p \in Positions : d.transactions[c][p] # NoRow}}

(* The client, when these keys are not all that it has stored.              *)
Missed(d, c, known) == IF KeysStored(d, c) \subseteq known THEN {} ELSE {c}

-----------------------------------------------------------------------------
(* The steps of a batch.                                                    *)

Result(f, ok) == [file |-> f, ok |-> ok]

Report(d, r) == [d EXCEPT !.batch.results = Append(@, r)]

(* A failed save of the transactions marks the file's result; a failed save *)
(* of the history row is only logged.                                       *)
record_batch_success(d, f) ==
    LET fresh == new_txns(d.batch, f)
        kept  == [d EXCEPT !.batch.all_txns = @ \o fresh]
        save  == SaveImport(kept, d.batch.client, fresh)
    IN  IF d.batch = NoBatch THEN {d}
        ELSE IF fresh = <<>> THEN {Report(kept, Result(f, TRUE))}
        ELSE {Report(save.saved, Result(f, TRUE))}
             \cup {Report(x, Result(f, x.history = d.history)) : x \in save.failed}

record_batch_failure(d, f) ==
    IF d.batch = NoBatch THEN d ELSE Report(d, Result(f, FALSE))

(* finish_batch: the hashes of all transactions are stored (a failure is    *)
(* logged), and the batch's transactions replace those on the screen, also  *)
(* when another client has been selected in the meantime.                   *)
finish_batch(d) ==
    LET c      == d.batch.client
        closed == [d EXCEPT !.batch = NoBatch]
        shown  == [closed EXCEPT !.screen = d.batch.all_txns, !.bypassed = @ \cup ({d.client} \ {c})]
    IN  IF d.batch = NoBatch THEN {d}
        ELSE IF d.batch.all_txns = <<>> THEN {closed}
        ELSE {[shown EXCEPT !.hashes[c] = @ \cup KeysOf(d.batch.all_txns)]} \cup Faulty(shown)

(* The next file: it is read and recorded and a timer goes on with the      *)
(* batch, or the batch waits for its password.                              *)
process_next(d, f) ==
    IF f \in Locked
    THEN {[d EXCEPT !.prompt = [file |-> f, visible |-> TRUE]]}
    ELSE {[x EXCEPT !.timers = @ + 1] :
             x \in record_batch_success(d, f) \cup {record_batch_failure(d, f)}}

continue_batch(d) ==
    IF d.batch = NoBatch THEN {d}
    ELSE IF d.batch.paused THEN {d}
    ELSE IF d.batch.remaining = <<>> THEN finish_batch(d)
    ELSE process_next([d EXCEPT !.batch.remaining = Tail(@)], Head(d.batch.remaining))

(* The batch meets a prompt or a thread that is not its own (a history      *)
(* field), or loses the file of its prompt.                                 *)
Crossed(d) == IF d.batch = NoBatch THEN d ELSE [d EXCEPT !.batch.crossed = TRUE]

(* A file opened on its own: its rows are stored for the selected client    *)
(* and replace those on the screen; the pending file of the prompt is       *)
(* forgotten, also a batch's, and what is cancelled in it then has no name. *)
(* A batch that runs for the client does not know of the rows, nor they of  *)
(* the batch's.                                                             *)
apply_parse_result(d, rows, known) ==
    LET met  == IF d.prompt.file = NoFile THEN d ELSE Crossed(d)
        save == SaveImport(met, d.client, rows)
    IN  {[x EXCEPT !.screen = rows, !.prompt.file = NoFile,
                   !.bypassed = @ \cup IF Running(d, d.client) THEN {d.client}
                                       ELSE Missed(d, d.client, known)] :
            x \in {save.saved} \cup save.failed}

(* The hashes of the rows whose keys are not known are stored, then they.   *)
StoreUnknown(d, f, known) ==
    LET fresh == Unknown(f, known)
        noted == [d EXCEPT !.hashes[d.client] = @ \cup KeysOf(fresh)]
    IN  IF fresh = <<>> THEN {d}
        ELSE UNION {apply_parse_result(x, fresh, known) : x \in {noted} \cup Faulty(d)}

(* Load Single File compares with the stored hashes, of which it reads none *)
(* when that fails; or the switch for it is off.                            *)
finish_load_file(d, f) ==
    apply_parse_result(d, parse(f), {})
    \cup StoreUnknown(d, f, d.hashes[d.client])
    \cup UNION {StoreUnknown(x, f, {}) : x \in Faulty(d)}

(* The client's transactions come on the screen, or none if reading them    *)
(* fails.                                                                   *)
Shown(d, c) ==
    LET selected == [d EXCEPT !.client = c]
        missed   == IF Running(d, c) THEN {} ELSE Missed(d, c, d.hashes[c])
    IN  {[selected EXCEPT !.screen = get_transactions(d.transactions[c])]}
        \cup {[x EXCEPT !.screen = <<>>, !.bypassed = @ \cup missed] : x \in Faulty(selected)}

-----------------------------------------------------------------------------
(* The handlers of the window.                                              *)

Volatile == <<started, loads>>

(* start_batch takes the transactions on the screen and the stored hashes,  *)
(* or none when they cannot be read, and reads a first file.                *)
Begun(d, known) ==
    [d EXCEPT !.batch = [remaining |-> Picked, all_txns |-> d.screen, persisted_hashes |-> known,
                         client |-> d.client, paused |-> FALSE, results |-> <<>>,
                         crossed |-> d.prompt.file # NoFile \/ d.ocr # {}]]

start_batch(d) ==
    LET missed == Missed(d, d.client, KeysOf(d.screen))
    IN  {Begun(d, d.hashes[d.client])}
        \cup {Begun([x EXCEPT !.bypassed = @ \cup missed], {}) : x \in Faulty(d)}

(* The batch buttons are off while a batch runs.                            *)
StartBatch ==
    /\ batch = NoBatch
    /\ started < MaxBatches
    /\ \E x \in start_batch(Desk) : \E d \in continue_batch(x) : Leave(d)
    /\ started' = started + 1
    /\ UNCHANGED loads

(* Load Single File, which nothing turns off: the password is asked for, in *)
(* the prompt a batch may be waiting with, or the rows are stored.  What a  *)
(* thread reads from scanned pages comes at a later moment.                 *)
LoadFile(f) ==
    /\ loads < MaxLoads
    /\ IF f \in Locked
       THEN Leave([Crossed(Desk) EXCEPT !.prompt = [file |-> f, visible |-> TRUE]])
       ELSE \E d \in finish_load_file(Desk, f) : Leave(d)
    /\ loads' = loads + 1
    /\ UNCHANGED started

(* A timer of continue_batch fires; a batch that is over ignores it.        *)
Tick ==
    /\ timers > 0
    /\ \E d \in continue_batch([Desk EXCEPT !.timers = @ - 1]) : Leave(d)
    /\ UNCHANGED Volatile

Pause ==
    /\ batch # NoBatch
    /\ ~batch.paused
    /\ Leave([Desk EXCEPT !.batch.paused = TRUE])
    /\ UNCHANGED Volatile

(* A mutant: Resume waits for the timer to come round.                      *)
Resume_Waits ==
    /\ batch # NoBatch
    /\ batch.paused
    /\ timers < MaxTimers
    /\ Leave([Desk EXCEPT !.batch.paused = FALSE])
    /\ UNCHANGED Volatile

(* Resume goes on at once, also when a timer or a prompt will do so too.    *)
Resume ==
    /\ batch # NoBatch
    /\ batch.paused
    /\ timers < MaxTimers
    /\ \E d \in continue_batch([Desk EXCEPT !.batch.paused = FALSE]) : Leave(d)
    /\ UNCHANGED Volatile

Abort ==
    /\ batch # NoBatch
    /\ \E d \in finish_batch(Desk) : Leave(d)
    /\ UNCHANGED Volatile

(* What a file that was read is used for: the batch, if one ran when its    *)
(* password was given, even if it has ended since; else the screen.         *)
Opened(d, f, in_batch) ==
    IF in_batch THEN UNION {continue_batch(x) : x \in record_batch_success(d, f)}
                ELSE apply_parse_result(d, parse(f), {})

NotOpened(d, f, in_batch) ==
    IF in_batch THEN continue_batch(record_batch_failure(d, f)) ELSE {d}

(* A mutant: the prompt stays open while its file is read.                  *)
Answered_StaysOpen == Desk

Answered == [Desk EXCEPT !.prompt = NoPrompt]

(* The password is right, or at least not certainly wrong (then the prompt  *)
(* stays as it is): the text is there, or a thread must read the pages.     *)
PwdConfirm ==
    /\ prompt.visible
    /\ IF prompt.file = NoFile THEN Leave(Answered)
       ELSE \/ \E d \in Opened(Answered, prompt.file, batch # NoBatch) : Leave(d)
            \/ Leave([Answered EXCEPT !.ocr =
                        @ \cup {[file |-> prompt.file, in_batch |-> batch # NoBatch]}])
    /\ UNCHANGED Volatile

PwdCancel ==
    /\ prompt.visible
    /\ \E d \in NotOpened(Answered, prompt.file, batch # NoBatch) : Leave(d)
    /\ UNCHANGED Volatile

(* The thread reports: pages read, a wrong password (asked for again), or   *)
(* nothing found.                                                           *)
OcrDone(o) ==
    /\ o \in ocr
    /\ LET done == [Desk EXCEPT !.ocr = @ \ {o}]
       IN  \/ \E d \in Opened(done, o.file, o.in_batch) : Leave(d)
           \/ Leave([done EXCEPT !.prompt = [file |-> o.file, visible |-> TRUE]])
           \/ \E d \in NotOpened(done, o.file, o.in_batch) : Leave(d)
    /\ UNCHANGED Volatile

(* Auto-Classify All stores the transactions on the screen.                 *)
AutoClassify ==
    /\ screen # <<>>
    /\ Leave([Desk EXCEPT !.transactions[client] = upsert_transactions(@, NoImport, screen)])
    /\ UNCHANGED Volatile

(* The client list stays enabled while a batch runs.                        *)
SelectClient(c) ==
    /\ \E d \in Shown(Desk, c) : Leave(d)
    /\ UNCHANGED Volatile

(* The process dies and starts again with the client selected last.         *)
Restart ==
    /\ \E x \in Faulty(Desk) :
          \E d \in Shown([x EXCEPT !.batch = NoBatch, !.timers = 0, !.prompt = NoPrompt,
                                   !.ocr = {}], client) : Leave(d)
    /\ started' = 0
    /\ UNCHANGED loads

Next ==
    \/ StartBatch
    \/ \E f \in Files : LoadFile(f)
    \/ Tick
    \/ Pause
    \/ Resume
    \/ Abort
    \/ PwdConfirm
    \/ PwdCancel
    \/ \E o \in ocr : OcrDone(o)
    \/ AutoClassify
    \/ \E c \in Clients : SelectClient(c)
    \/ Restart

Spec == Init /\ [][Next]_vars

(* Timers fire and threads end; the user answers the prompt, gives up on a  *)
(* file that asks again and again, and resumes what was paused.             *)
Fairness ==
    /\ WF_vars(Tick)
    /\ WF_vars(\E o \in ocr : OcrDone(o))
    /\ SF_vars(PwdCancel)
    /\ WF_vars(Resume)

FairSpec == Spec /\ Fairness

-----------------------------------------------------------------------------
(* Properties.                                                              *)

(* Every table, list and flag holds what the code can put there.            *)
TypeOK ==
    /\ client \in Clients
    /\ transactions \in
          [Clients -> [Positions -> {NoRow} \cup [key : Keys, import : Nat \cup {NoImport}]]]
    /\ history \in Seq(Nat)
    /\ hashes \in [Clients -> SUBSET Keys]
    /\ screen \in Seq(Rows)
    /\ batch \in Batches \cup {NoBatch}
    /\ timers \in Nat
    /\ prompt \in [file : Files \cup {NoFile}, visible : BOOLEAN]
    /\ ocr \subseteq [file : Files, in_batch : BOOLEAN]
    /\ bypassed \subseteq Clients
    /\ started \in 0 .. MaxBatches /\ loads \in 0 .. MaxLoads /\ faults \in 0 .. MaxFaults

(* The transactions a statement has twice: the check for duplicates         *)
(* compares with what was read before the file, not within it.              *)
Repeated == {k \in Keys : \E f \in Files : \E i, j \in DOMAIN Contents[f] :
                              i # j /\ Contents[f][i] = k /\ Contents[f][j] = k}

(* No client has a transaction stored twice, whatever is paused, aborted,   *)
(* loaded, selected, fails or dies, unless its own statement has it twice,  *)
(* as long as the client is not bypassed: a file was opened on its own      *)
(* while its batch ran, or compared with hashes that lack some of its rows  *)
(* (they are stored when a batch ends, and may not be); an unlocked one is  *)
(* compared with none; the rows on the screen and the hashes could not be   *)
(* read; or another client's batch ended on its screen.                     *)
StoredOnce ==
    \A c \in Clients \ bypassed : \A i, j \in Positions :
        /\ transactions[c][i] # NoRow /\ transactions[c][j] # NoRow
        /\ transactions[c][i].key = transactions[c][j].key
        => i = j \/ transactions[c][i].key \in Repeated

(* No file is reported twice by a batch, however many timers, prompts and   *)
(* threads go on with it, when it keeps its prompt to itself and does not   *)
(* meet those of an aborted one.                                            *)
ReportedOnce ==
    batch # NoBatch /\ ~batch.crossed => \A m, n \in DOMAIN batch.results :
        m # n => batch.results[m].file # batch.results[n].file

(* Such a batch ends.                                                       *)
BatchEnds == (batch # NoBatch /\ ~batch.crossed) ~> (batch = NoBatch \/ batch.crossed)

=============================================================================
