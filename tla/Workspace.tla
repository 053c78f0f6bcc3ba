------------------------------ MODULE Workspace ------------------------------
(* The window of the desktop program outside a batch (src/main.rs): clients *)
(* are made, selected and deleted; statements are opened, the scanned ones  *)
(* by a thread that reports back later; transactions are classified by      *)
(* rules, by the AI thread and by hand, and the last edits undone; imports  *)
(* are reloaded and removed; the program is stopped and started.            *)
(*                                                                          *)
(* The transactions on the screen are a copy: a handler changes the copy    *)
(* and then writes to the database, and the write may fail.  A handler runs *)
(* to its end on the event loop, so each action is one handler; a desk is   *)
(* what a handler has made of the state so far.  The overlays of the two    *)
(* threads do not keep clicks from the window behind them.                  *)
(*                                                                          *)
(* A transaction is its dedupe key, its id (which the parsers make of its   *)
(* position in the file, and "Add Row" of the number of rows on the         *)
(* screen), its import and its classification: ledger, status and source.   *)
(* A rule maps a key to a ledger; opening balances, tags and the confidence *)
(* (which decides nothing the status and the source do not) are left out.   *)
EXTENDS Positions, FiniteSetsExt, SequencesExt

CONSTANTS Clients, NoClient,   \* ids that clients get, in some order
          Files, Scanned,      \* the statements, and those read by a thread
          Contents,            \* Contents[f]: the keys in f, in order
          Typed,               \* the key of a row typed in by hand
          Picked,              \* the ledger the user picks
          Suggested,           \* the ledger the AI suggests
          NoLedger, NoImport, NoRun,
          MaxLoads,            \* statements opened
          MaxTurns             \* other things the user does, failed writes and restarts

ASSUME NamesAreApart ==
    /\ NoClient \notin Clients
    /\ Scanned \subseteq Files
    /\ NoImport \notin Nat
    /\ NoLedger \notin {Picked, Suggested}
ASSUME BoundsAreNaturals ==
    MaxLoads \in Nat /\ MaxTurns \in Nat

Keys == (UNION {{Contents[f][i] : i \in DOMAIN Contents[f]} : f \in Files}) \cup {Typed}

ASSUME ContentsAreSequences == \A f \in Files : Contents[f] \in Seq(Keys)

VARIABLES
    clients,     \* the clients table
    born,        \* the ids given to clients so far (AUTOINCREMENT)
    tables,      \* transactions, by client: a set of rows, one per id
    history,     \* import_history: by import id, its client or NoClient once gone
    hashes,      \* dedupe_hashes, by client
    rules,       \* classification_rules: by client, a ledger or NoLedger per key
    client,      \* AppState.client_id
    screen,      \* AppState.transactions
    undo,        \* AppState.undo_stack
    ocr,         \* the files that threads are reading
    ai,          \* the AI thread: NoRun, or its copy of the screen and the client it was of
    unsaved,     \* ids whose row on the screen was not written as shown (history variable)
    unchecked,   \* clients that got rows without the dedupe check (history variable)
    loads, edits, mishaps

vars == <<clients, born, tables, history, hashes, rules, client, screen, undo, ocr, ai,
          unsaved, unchecked, loads, edits, mishaps>>

Desk == [clients |-> clients, born |-> born, tables |-> tables, history |-> history,
         hashes |-> hashes, rules |-> rules, client |-> client, screen |-> screen,
         undo |-> undo, ocr |-> ocr, ai |-> ai, unsaved |-> unsaved,
         unchecked |-> unchecked, mishaps |-> mishaps]

(* The handler ends with the desk d.                                        *)
Leave(d) ==
    /\ clients' = d.clients
    /\ born' = d.born
    /\ tables' = d.tables
    /\ history' = d.history
    /\ hashes' = d.hashes
    /\ rules' = d.rules
    /\ client' = d.client
    /\ screen' = d.screen
    /\ undo' = d.undo
    /\ ocr' = d.ocr
    /\ ai' = d.ai
    /\ unsaved' = d.unsaved
    /\ unchecked' = d.unchecked
    /\ mishaps' = d.mishaps

NoRules == [k \in Keys |-> NoLedger]

Init ==
    /\ clients = {} /\ born = {}
    /\ tables = [c \in Clients |-> {}]
    /\ history = <<>>
    /\ hashes = [c \in Clients |-> {}]
    /\ rules = [c \in Clients |-> NoRules]
    /\ client = NoClient
    /\ screen = <<>>
    /\ undo = <<>>
    /\ ocr = {}
    /\ ai = NoRun
    /\ unsaved = {} /\ unchecked = {}
    /\ loads = 0 /\ edits = 0 /\ mishaps = 0

-----------------------------------------------------------------------------
(* Classification.                                                          *)

Class(ledger, status, source) == [ledger |-> ledger, status |-> status, source |-> source]
Raw    == Class(NoLedger, "unreviewed", "")
ByUser(ledger) == Class(ledger, "classified", "user")

(* A mutant: only rows added by hand or marked as suspense are protected.   *)
is_locked_from_auto_classify_StatusOnly(r) ==
    r.class.status \in {"manual", "suspense"} \/ r.class.source = "ai"

is_locked_from_auto_classify(r) ==
    r.class.status \in {"manual", "suspense"} \/ r.class.source \in {"user", "ai"}

(* A rule that matches decides; without one the row is unreviewed again and *)
(* keeps the ledger it has.                                                 *)
classify_one(r, known) ==
    IF known[r.key] # NoLedger
    THEN [r EXCEPT !.class = Class(known[r.key], "classified", "rule")]
    ELSE [r EXCEPT !.class = Class(@.ledger, "unreviewed", "")]

classify_all(rows, known) ==
    [j \in DOMAIN rows |->
        IF is_locked_from_auto_classify(rows[j]) THEN rows[j]
        ELSE classify_one(rows[j], known)]

(* The rules of a client; without a client there are none.                  *)
get_rules(d) == IF d.client = NoClient THEN NoRules ELSE d.rules[d.client]

-----------------------------------------------------------------------------
(* The database.                                                            *)

Ids(rows) == {rows[j].id : j \in DOMAIN rows}
KeysOf(rows) == {rows[j].key : j \in DOMAIN rows}
Twice(rows) == {rows[j].id : j \in {i \in DOMAIN rows : \E o \in 1 .. i - 1 : rows[o].id = rows[i].id}}

(* A write that may be made: it succeeds, or it fails and is only logged.   *)
Faulty(d) == IF edits + d.mishaps >= MaxTurns THEN {} ELSE {[d EXCEPT !.mishaps = @ + 1]}
Write(d, done, fails(_)) == {done} \cup {fails(x) : x \in Faulty(d)}

(* INSERT OR REPLACE of the rows in one transaction, which the foreign keys *)
(* refuse for a client or an import that does not exist.                    *)
Replaced(table, import, rows) ==
    {r \in table : r.id \notin Ids(rows)} \cup
    {LET r == rows[Max({j \in DOMAIN rows : rows[j].id = i})]
     IN  IF import = NoImport THEN r ELSE [r EXCEPT !.import = import] : i \in Ids(rows)}

Allowed(d, import, rows) ==
    /\ d.client \in d.clients
    /\ \A j \in DOMAIN rows :
           LET i == IF import = NoImport THEN rows[j].import ELSE import
           IN  i = NoImport \/ d.history[i] # NoClient

upsert_transactions(d, import, rows) ==
    LET refused(x) == [x EXCEPT !.unsaved = @ \cup Ids(rows)]
    IN  IF ~Allowed(d, import, rows) THEN {refused(d)}
        ELSE Write(d, [d EXCEPT !.tables[d.client] = Replaced(@, import, rows),
                                !.unsaved = (@ \ Ids(rows)) \cup Twice(rows)], refused)

(* UPDATE of the classification of one row.                                 *)
upsert_transaction_classification(d, r) ==
    LET refused(x) == [x EXCEPT !.unsaved = @ \cup {r.id}]
    IN  IF d.client = NoClient THEN {refused(d)}
        ELSE Write(d, [d EXCEPT !.tables[d.client] =
                {IF o.id = r.id THEN [o EXCEPT !.class = r.class] ELSE o : o \in @}], refused)

get_transactions(d, c) == SetToSeq(d.tables[c])

(* The rows of an import are looked up without regard to the client.        *)
get_transactions_for_import(d, import) ==
    SetToSeq({r \in UNION {d.tables[c] : c \in d.clients} : r.import = import})

-----------------------------------------------------------------------------
(* Opening a statement.                                                     *)

parse(f) == [j \in DOMAIN Contents[f] |->
                [id |-> <<"file", j>>, key |-> Contents[f][j], import |-> NoImport, class |-> Raw]]

(* The rows are classified, recorded as an import and stored; the import    *)
(* may fail, and then nothing is stored.  In any case they replace those    *)
(* on the screen, without their import, and the edits are forgotten.        *)
apply_parse_result(d, rows) ==
    LET result   == classify_all(rows, get_rules(d))
        shown(x) == [x EXCEPT !.screen = result, !.undo = <<>>]
        fresh    == [d EXCEPT !.unsaved = {}]
        import   == Len(d.history) + 1
        recorded == [fresh EXCEPT !.history = Append(@, d.client)]
        lost(x)  == [x EXCEPT !.unsaved = Ids(result)]
    IN  IF d.client = NoClient THEN {shown(lost(fresh))}
        ELSE {shown(x) : x \in upsert_transactions(recorded, import, result)
                                 \cup {lost(x) : x \in Faulty(fresh)}}

(* What is known of earlier loads is dropped; the hashes of the rest are    *)
(* stored before its rows are.  Hashes that cannot be read count as none.   *)
finish_load_file(d, f, dedup) ==
    LET unhashed(x) == [x EXCEPT !.unchecked = @ \cup {d.client}]
        fresh(known) == Only(parse(f), {j \in DOMAIN Contents[f] : Contents[f][j] \notin known})
        hashed(x, rows) == Write(x, [x EXCEPT !.hashes[d.client] = @ \cup KeysOf(rows)], unhashed)
        applied(x, rows) == IF rows = <<>> THEN {x}
                            ELSE UNION {apply_parse_result(y, rows) : y \in hashed(x, rows)}
    IN  IF d.client = NoClient THEN apply_parse_result(d, parse(f))
        ELSE IF ~dedup THEN apply_parse_result(unhashed(d), parse(f))
        ELSE applied(d, fresh(d.hashes[d.client]))
             \cup UNION {applied(unhashed(x), fresh({})) : x \in Faulty(d)}

-----------------------------------------------------------------------------
(* The handlers: statements.                                                *)

Bounds == <<loads, edits>>

(* What the user does to rows, clients, rules and imports is bounded.        *)
Edited == edits + mishaps < MaxTurns /\ edits' = edits + 1 /\ UNCHANGED loads

LoadFile(f, dedup) ==
    /\ loads < MaxLoads
    /\ loads' = loads + 1
    /\ IF f \in Scanned THEN Leave([Desk EXCEPT !.ocr = @ \cup {f}])
       ELSE \E d \in finish_load_file(Desk, f, dedup) : Leave(d)
    /\ UNCHANGED edits

(* A mutant: the result is dropped against the hashes known earlier on.     *)
OcrDone_KnownEarlier(f, dedup) ==
    /\ f \in ocr
    /\ \/ \E d \in finish_load_file([Desk EXCEPT !.ocr = @ \ {f}, !.hashes = [c \in Clients |-> {}]], f, dedup) :
             Leave([d EXCEPT !.hashes = [c \in Clients |-> @[c] \cup hashes[c]]])
       \/ Leave([Desk EXCEPT !.ocr = @ \ {f}])
    /\ UNCHANGED Bounds

(* The thread reports: its rows are stored for the client selected by now,  *)
(* or the pages could not be read.                                          *)
OcrDone(f, dedup) ==
    /\ f \in ocr
    /\ LET done == [Desk EXCEPT !.ocr = @ \ {f}]
       IN  \E d \in finish_load_file(done, f, dedup) \cup {done} : Leave(d)
    /\ UNCHANGED Bounds

-----------------------------------------------------------------------------
(* The handlers: clients.                                                   *)

(* A client is shown as the database has it, classified again if the rules  *)
(* change anything; the edits on the undo stack stay.                       *)
select_client(d, c) ==
    LET stored == get_transactions(d, c)
        chosen == [d EXCEPT !.client = c, !.unsaved = {}]
        rows   == classify_all(stored, d.rules[c])
    IN  {[x EXCEPT !.screen = rows] :
            x \in IF rows = stored THEN {chosen} ELSE upsert_transactions(chosen, NoImport, rows)}

(* Chosen from the list, or again by Refresh.                               *)
SelectClient(c) ==
    /\ c \in clients
    /\ \E d \in select_client(Desk, c) : Leave(d)
    /\ UNCHANGED Bounds

(* Ids are never used again.                                                *)
NewClient(c) ==
    /\ c \notin born
    /\ \E d \in select_client([Desk EXCEPT !.clients = @ \cup {c}, !.born = @ \cup {c}], c) : Leave(d)
    /\ UNCHANGED Bounds

(* The rows of a deleted client go with it.                                 *)
DeleteClient ==
    /\ Edited
    /\ client # NoClient
    /\ \E d \in Write(Desk,
            [Desk EXCEPT !.clients = @ \ {client}, !.tables[client] = {},
                         !.hashes[client] = {}, !.rules[client] = NoRules,
                         !.history = [i \in DOMAIN @ |-> IF @[i] = client THEN NoClient ELSE @[i]],
                         !.client = NoClient, !.screen = <<>>, !.unsaved = {}],
            LAMBDA x : x) : Leave(d)

-----------------------------------------------------------------------------
(* The handlers: classification.                                            *)

(* A mutant: the rows are classified on the screen only.                    *)
AutoClassify_ShownOnly ==
    /\ screen # <<>>
    /\ Leave([Desk EXCEPT !.screen = classify_all(screen, get_rules(Desk))])
    /\ UNCHANGED Bounds

AutoClassify ==
    /\ screen # <<>>
    /\ LET rows == classify_all(screen, get_rules(Desk))
       IN  \E d \in upsert_transactions(Desk, NoImport, rows) : Leave([d EXCEPT !.screen = rows])
    /\ UNCHANGED Bounds

(* The thread takes a copy of the screen.                                   *)
AiClassify ==
    /\ Edited
    /\ screen # <<>>
    /\ ai = NoRun
    /\ Leave([Desk EXCEPT !.ai = [rows |-> screen, home |-> client]])

(* In the scope "All"; the other scope answers for fewer of these rows.      *)
is_eligible_for_ai(r) == r.class.status \notin {"manual", "suspense"}

(* Batches may fail or be cancelled: some of the rows come back classified. *)
(* The thread's copy replaces the screen and is stored for the client       *)
(* selected by now.                                                         *)
AiDone ==
    /\ ai # NoRun
    /\ \E answered \in SUBSET DOMAIN ai.rows :
          LET rows == [j \in DOMAIN ai.rows |->
                          IF j \in answered /\ is_eligible_for_ai(ai.rows[j])
                          THEN [ai.rows[j] EXCEPT !.class = Class(Suggested, "classified", "ai")]
                          ELSE ai.rows[j]]
              done == [Desk EXCEPT !.ai = NoRun, !.screen = rows, !.unsaved = {},
                          !.unchecked = IF ai.home = client THEN @ ELSE @ \cup {client}]
          IN  \E d \in upsert_transactions(done, NoImport, rows) : Leave(d)
    /\ UNCHANGED Bounds

DeleteRule(k) ==
    /\ Edited
    /\ client # NoClient
    /\ rules[client][k] # NoLedger
    /\ \E d \in Write(Desk, [Desk EXCEPT !.rules[client][k] = NoLedger], LAMBDA x : x) : Leave(d)

-----------------------------------------------------------------------------
(* The handlers: one row.                                                   *)

(* INSERT OR IGNORE of a learned rule.                                      *)
add_rule(d, r) ==
    IF d.client = NoClient THEN {d}
    ELSE Write(d, IF d.rules[d.client][r.key] = NoLedger
                  THEN [d EXCEPT !.rules[d.client][r.key] = r.class.ledger] ELSE d,
               LAMBDA x : x)

(* The row's present classification goes on the undo stack.                 *)
SaveTxn(j, learn) ==
    /\ Edited
    /\ LET r     == [screen[j] EXCEPT !.class = ByUser(Picked)]
           shown == [Desk EXCEPT !.screen[j] = r,
                        !.undo = Append(@, [id |-> r.id, class |-> screen[j].class])]
       IN  \E d \in UNION {upsert_transaction_classification(x, r) :
                              x \in IF learn THEN add_rule(shown, r) ELSE {shown}} : Leave(d)

(* The first row on the screen with the id of the last edit gets back its   *)
(* ledger and status, not its source.                                       *)
UndoLastEdit ==
    /\ undo # <<>>
    /\ LET entry  == Last(undo)
           popped == [Desk EXCEPT !.undo = Front(@)]
           at     == {j \in DOMAIN screen : screen[j].id = entry.id}
       IN  IF at = {} THEN Leave(popped)
           ELSE LET j == Min(at)
                    r == [screen[j] EXCEPT !.class = [entry.class EXCEPT !.source = screen[j].class.source]]
                IN  \E d \in upsert_transaction_classification([popped EXCEPT !.screen[j] = r], r) : Leave(d)
    /\ UNCHANGED Bounds

(* Only the copy on the screen is marked.                                   *)
MarkSuspense(j) ==
    /\ Edited
    /\ Leave([Desk EXCEPT !.screen[j].class.status = "suspense", !.unsaved = @ \cup {screen[j].id}])

DeleteTxn(j) ==
    /\ Edited
    /\ LET i     == screen[j].id
           shown == [Desk EXCEPT !.screen = RemoveAt(@, j),
                                 !.unsaved = IF i \in Twice(screen) THEN @ \cup {i} ELSE @]
       IN  IF client = NoClient THEN Leave(shown)
           ELSE \E d \in Write(shown, [shown EXCEPT !.tables[client] = {r \in @ : r.id # i}], LAMBDA x : x) :
                   Leave(d)

(* The id counts the rows on the screen, deleted ones no longer.            *)
ManualId(n) == <<"manual", n>>

AddTxn ==
    /\ Edited
    /\ LET r == [id |-> ManualId(Len(screen)), key |-> Typed, import |-> NoImport,
                 class |-> Class(Picked, "manual", "user")]
           shown == [Desk EXCEPT !.screen = Append(@, r)]
       IN  \E d \in upsert_transactions(shown, NoImport, <<r>>) :
              Leave([d EXCEPT !.unsaved = IF r.id \in Ids(screen) \/ client = NoClient
                                          THEN @ \cup {r.id} ELSE @])

-----------------------------------------------------------------------------
(* The handlers: imports, dedupe, start.                                    *)

LoadAll ==
    /\ client # NoClient
    /\ Leave([Desk EXCEPT !.screen = get_transactions(Desk, client), !.unsaved = {}])
    /\ UNCHANGED Bounds

ReloadImport(i) ==
    /\ history[i] = client /\ client # NoClient
    /\ LET rows == get_transactions_for_import(Desk, i)
       IN  Leave([Desk EXCEPT !.screen = rows,
                              !.unsaved = {r.id : r \in ToSet(rows) \ tables[client]} \cup Twice(rows)])
    /\ UNCHANGED Bounds

(* The foreign key keeps an import that a row still names.                  *)
DeleteImport(i) ==
    /\ Edited
    /\ history[i] = client /\ client # NoClient
    /\ \A c \in clients : \A r \in tables[c] : r.import # i
    /\ \E d \in Write(Desk, [Desk EXCEPT !.history[i] = NoClient], LAMBDA x : x) : Leave(d)

ResetDedupe ==
    /\ Edited
    /\ screen # <<>> /\ client # NoClient
    /\ \E d \in Write(Desk, [Desk EXCEPT !.hashes[client] = {}, !.unchecked = @ \cup {client}],
                      LAMBDA x : x) : Leave(d)

(* What is only in memory is gone; the last client is selected again.       *)
Restart(c) ==
    /\ edits + mishaps < MaxTurns
    /\ c \in clients
    /\ \E d \in select_client([Desk EXCEPT !.undo = <<>>, !.ocr = {}, !.ai = NoRun, !.mishaps = @ + 1], c) : Leave(d)
    /\ UNCHANGED Bounds

-----------------------------------------------------------------------------
Next ==
    \/ \E f \in Files, dedup \in BOOLEAN : LoadFile(f, dedup) \/ OcrDone(f, dedup)
    \/ \E c \in Clients : SelectClient(c) \/ NewClient(c) \/ Restart(c)
    \/ DeleteClient
    \/ AutoClassify
    \/ AiClassify
    \/ AiDone
    \/ \E k \in Keys : DeleteRule(k)
    \/ \E j \in DOMAIN screen :
          \/ \E learn \in BOOLEAN : SaveTxn(j, learn)
          \/ MarkSuspense(j)
          \/ DeleteTxn(j)
    \/ UndoLastEdit
    \/ AddTxn
    \/ LoadAll
    \/ \E i \in DOMAIN history : ReloadImport(i) \/ DeleteImport(i)
    \/ ResetDedupe

Spec == Init /\ [][Next]_vars

-----------------------------------------------------------------------------
Classes == [ledger : {NoLedger, Picked, Suggested},
            status : {"unreviewed", "classified", "manual", "suspense"},
            source : {"", "rule", "user", "ai"}]
RowIds == {"file", "manual"} \X Nat
Rows   == [id : RowIds, key : Keys, import : Nat \cup {NoImport}, class : Classes]
Desks  == [clients : SUBSET Clients, born : SUBSET Clients, tables : [Clients -> SUBSET Rows],
           history : Seq(Clients \cup {NoClient}), hashes : [Clients -> SUBSET Keys],
           rules : [Clients -> [Keys -> {NoLedger, Picked, Suggested}]],
           client : Clients \cup {NoClient}, screen : Seq(Rows),
           undo : Seq([id : RowIds, class : Classes]), ocr : SUBSET Files,
           ai : {NoRun} \cup [rows : Seq(Rows), home : Clients \cup {NoClient}],
           unsaved : SUBSET RowIds, unchecked : SUBSET (Clients \cup {NoClient}), mishaps : Nat]

TypeOK == Desk \in Desks /\ loads \in Nat /\ edits \in Nat

(* What the user has classified by hand stays so through every automatic    *)
(* step: Auto-Classify, the classification at a change of client, a reload, *)
(* a restart, a change of the rules; and an edit or an undo reaches no      *)
(* other row.  A statement loaded over the row and the AI's answer may      *)
(* replace it, and so may a row on the screen whose write had failed.       *)
Changed(c, r) == ~ \E o \in tables'[c] : o.id = r.id /\ o.key = r.key /\ o.class = r.class

UserWorkSurvives ==
    [][LET touched == {r \in UNION {{<<c, o>> : o \in tables[c]} : c \in clients \cap clients'} :
                          /\ r[2].class.source = "user"
                          /\ Changed(r[1], r[2])
                          /\ ~(r[1] = client /\ r[2].id \in unsaved)}
       IN  \/ touched = {}
           \/ Len(history') > Len(history)
           \/ ai # NoRun /\ ai' = NoRun
           \/ Cardinality(touched) = 1 /\ (edits' # edits \/ undo' # undo)]_vars

(* What the screen shows of the selected client is what the database holds, *)
(* but for a failed write, a mark of suspense and two rows of one id:       *)
(* no handler changes the screen and forgets to write it.                   *)
ShownIsStored ==
    client # NoClient =>
        \A j \in DOMAIN screen : screen[j].id \notin unsaved =>
            \E r \in tables[client] : r.id = screen[j].id /\ r.key = screen[j].key
                                       /\ r.class = screen[j].class

(* What the check for duplicates does not compare: rows typed in, and the   *)
(* transactions a statement has twice, for it compares with what was read   *)
(* before the file, not within it.                                          *)
Repeated == {k \in Keys : \E f \in Files : \E i, j \in DOMAIN Contents[f] :
                              i # j /\ Contents[f][i] = k /\ Contents[f][j] = k}
Uncompared == {Typed} \cup Repeated

(* However many statements overlap, and whenever their threads report, a    *)
(* transaction that was checked for duplicates is stored once, unless its   *)
(* own statement has it twice.                                              *)
LoadedOnce ==
    \A c \in clients \ unchecked : \A r, o \in tables[c] :
        r.key = o.key /\ r.key \notin Uncompared => r = o

=============================================================================
