-------------------------------- MODULE Books --------------------------------
(***************************************************************************)
(* From a bank's statement to the accountant's files: the columns of the   *)
(* file are found (Layout), its rows are read (Statement), its bank is     *)
(* named (Layout); the transactions are put on the screen and classified   *)
(* (Classification), corrected by the user, taken out to a workbook and    *)
(* back, written to the accounting formats (Exports) and matched with a    *)
(* register of vouchers (Reconciliation).  The handlers are the callbacks  *)
(* of src/main.rs; what each does in the database is in Workspace.         *)
(***************************************************************************)
EXTENDS Statement, Layout, Exports, Reconciliation

CONSTANTS
    PagesOf(_),  \* how a statement may be laid out
    Accepted,    \* the statements the user goes on to work with
    Meanings,    \* what the words of their narrations say: by narration, [text, ref]
    RuleBooks,   \* the lists of rules that may be stored already
    Settings,    \* [gst, ledgers, dedupe]
    Edits,       \* what the user may enter for a row: [vendor, head, type]
    Extras,      \* rows the user may add: [date, text, dr, cr, type]
    Options,     \* what the export wizard may be asked
    MaxTurns     \* bound: the user's steps after the statement is loaded

\* The wizard offers six programs.
ASSUME OptionsAssumption ==
    \A o \in Options : o.software \in {"Tally", "Zoho", "QuickBooks", "Odoo", "Csv", "Xml"}

VARIABLES
    screen,      \* AppState.transactions
    ob,          \* AppState.opening_balance
    cb,          \* AppState.closing_balance
    rules,       \* classification_rules of the client
    set,         \* the settings and the Dedupe switch
    turns

bvars == <<screen, ob, cb, rules, set, turns>>

BooksInit == /\ Init /\ LayoutInit /\ ReconInit
             /\ page \in PagesOf(statement)
             /\ screen = <<>> /\ ob = Empty /\ cb = Empty
             /\ rules \in IF statement \in Accepted THEN RuleBooks ELSE {<<>>}
             /\ set \in Settings
             /\ turns = 0

Turn == turns < MaxTurns /\ turns' = turns + 1

(***************************************************************************)
(* Loading                                                                 *)
(***************************************************************************)
\* A transaction as the parser hands it over.
Fresh(t, m) ==
    [date |-> t.date, text |-> IF t.opening THEN <<>> ELSE m[t.narr].text,
     ref |-> IF t.opening THEN Empty ELSE m[t.narr].ref, dr |-> t.dr, cr |-> t.cr, bal |-> t.bal,
     vendor |-> <<>>, head |-> <<>>, type |-> "Unknown", status |-> "unreviewed", conf |-> 0, source |-> "",
     tags |-> {}, dup |-> FALSE, opening |-> t.opening, gst |-> NoGst]

\* Rows as they may be, classified and then given one name for every party.
Reclassified(rows) == UNION {Normalized(ts) : ts \in {ClassifyAll(named, rules, set) : named \in rows}}
\* apply_parse_result: one name for every party, before and after the classification.
Applied(rows) == Reclassified(UNION {Normalized(ts) : ts \in rows})

Load == /\ issuer # Unseen /\ statement \in Accepted
        /\ screen = <<>>
        /\ \E m \in Meanings :
             /\ {t.narr : t \in {u \in Range(txns) : ~u.opening}} \subseteq DOMAIN m
             /\ screen' \in Applied({[k \in DOMAIN txns |-> Fresh(txns[k], m)]})
        /\ ob' = opening /\ cb' = closing
        /\ UNCHANGED <<vars, lvars, rvars, rules, set, turns>>

(***************************************************************************)
(* The user's steps                                                        *)
(***************************************************************************)
AutoClassify == /\ screen # <<>> /\ Turn
                /\ screen' \in Reclassified({screen})
                /\ UNCHANGED <<vars, lvars, rvars, ob, cb, rules, set>>

Saved(t, e, learn) ==
    [Named(t, e.vendor, e.head, e.type) EXCEPT !.status = "classified", !.source = "user",
                                               !.conf = IF learn THEN 100 ELSE 75]
\* Save & Learn keeps a rule for the row's words, unless there is one.
Learned(t) == LET key == Pattern(t) IN
    IF key = Empty \/ \E k \in DOMAIN rules : rules[k].key = key /\ rules[k].client THEN rules
    ELSE Append(rules, [key |-> key, vendor |-> t.vendor, head |-> t.head, client |-> TRUE,
                        type |-> IF t.type = "Unknown" THEN "" ELSE t.type])

SaveTxn(k, e, learn) ==
    /\ Turn
    /\ screen' = [screen EXCEPT ![k] = Saved(@, e, learn)]
    /\ rules' = IF learn THEN Learned(screen'[k]) ELSE rules
    /\ UNCHANGED <<vars, lvars, rvars, ob, cb, set>>

AddRow(x) ==
    /\ screen # <<>> /\ Turn
    /\ screen' = Append(screen,
         [date |-> x.date, text |-> x.text, ref |-> Empty, dr |-> x.dr, cr |-> x.cr, bal |-> Empty,
          vendor |-> <<>>, head |-> <<>>, type |-> x.type, status |-> "manual", conf |-> 100, source |-> "user",
          tags |-> {}, dup |-> FALSE, opening |-> FALSE, gst |-> NoGst])
    /\ UNCHANGED <<vars, lvars, rvars, ob, cb, rules, set>>

ResetDedupe ==
    /\ screen # <<>> /\ Turn
    /\ screen' = Detect([k \in DOMAIN screen |-> [screen[k] EXCEPT !.dup = FALSE, !.tags = @ \ {"DUP"}]])
    /\ UNCHANGED <<vars, lvars, rvars, ob, cb, rules, set>>

\* The workbook is saved, one of its rows given another party and ledger, and read back.
Reimport(k, e) ==
    /\ Turn
    /\ LET book == Workbook(screen, ob, cb)
           told == [book EXCEPT !.rows[k] = [@ EXCEPT !.vendor = e.vendor, !.head = e.head]]
           back == ReadAll(told)
       IN  /\ back # <<>>
           /\ screen' \in Applied({back})
    /\ ob' = Empty /\ cb' = Empty
    /\ UNCHANGED <<vars, lvars, rvars, rules, set>>

(***************************************************************************)
(* Reconciling                                                             *)
(***************************************************************************)
Entered(t) == [date |-> t.date, amount |-> Amount(t), narr |-> Words4(t), ref |-> t.ref]
Entries(ts) == [k \in DOMAIN Real(ts) |-> Entered(Real(ts)[k])]

TakeRegister == /\ screen # <<>> /\ Turn
                /\ \E reg \in Registers : ImportRegister(reg)
                /\ UNCHANGED <<vars, lvars, screen, ob, cb, rules, set>>
Match == /\ \/ bank = <<>> /\ Run(Entries(screen))
            \/ Claim
         /\ UNCHANGED <<vars, lvars, bvars>>

(***************************************************************************)
(* Exporting                                                               *)
(***************************************************************************)
Refused == [file |-> File(<<>>, NoMasters), said |-> 0]

\* on_do_export_accounting: checked first; the toast counts the transactions.
Wizard(o) == IF screen = <<>> \/ Errors(screen, o) # {} THEN Refused
             ELSE [file |-> AccountingFile(screen, o, ob), said |-> Len(Filtered(screen, o))]

\* on_do_export_tally: only an empty file is refused.
QuickTally(o) == IF screen = <<>> \/ Preview(screen, o).total = 0 THEN Refused
                 ELSE [file |-> TallyFile(screen, o, ob), said |-> Preview(screen, o).total]

(***************************************************************************)
(* The specification                                                       *)
(***************************************************************************)
\* The parser finds the columns, reads the rows, and then asks whose statement it was.
Locate   == at = 1 /\ passes = <<"read">> /\ FindColumns /\ UNCHANGED <<vars, bvars, rvars>>
Reads    == columns # Unseen /\ Next /\ UNCHANGED <<lvars, bvars, rvars>>
Identify == passes = <<>> /\ NameIssuer /\ UNCHANGED <<vars, bvars, rvars>>

User == \/ Load \/ AutoClassify \/ ResetDedupe
        \/ \E k \in DOMAIN screen, e \in Edits, learn \in BOOLEAN : ~screen[k].opening /\ SaveTxn(k, e, learn)
        \/ \E x \in Extras : AddRow(x)
        \/ \E k \in DOMAIN Real(screen), e \in Edits : Reimport(k, e)
        \/ TakeRegister \/ Match
BooksNext == Locate \/ Reads \/ Identify \/ User
BooksSpec == BooksInit /\ [][BooksNext]_<<vars, lvars, bvars, rvars>>

(***************************************************************************)
(* Properties                                                              *)
(***************************************************************************)
Moves(account, file) == LET own == SelectSeq(file.lines, LAMBDA l : l.account = account)
                        IN  FoldSeq(LAMBDA l, sum : sum + l.dr - l.cr, 0, own)
Everything(o) == o.from = Empty /\ o.to = Empty /\ ~o.classified /\ ~o.skipLow /\ ~o.ob
\* Every voucher is of the type its side calls for.
Agreeing(type, o) == \A t \in Range(Filtered(screen, o)) : Amount(t) > 0 => type[t] = IF Credit(t) THEN "Receipt" ELSE "Payment"
TypesOf(o) == [t \in Range(screen) |-> IF o.software = "Tally" THEN TallyType(t) ELSE PlainType(t)]
MoneyOf(t) == [date |-> t.date, dr |-> t.dr, cr |-> t.cr]

\* A Tally file with ledgers, the wizard's or the quick one, names only ledgers it defines
\* and each of them once, whatever the rows that post to it are; cash and capital are Tally's.
\* A bank's ledger without a name is the exception: the vouchers name one that is not defined.
LedgersDefined == BankLedger # <<>> => \A o \in Options : o.software = "Tally" /\ o.ledgers =>
    \A export \in {Wizard(o), QuickTally(o)} : \A l \in Range(export.file.lines) :
        l.account \in {Cash, Capital} \/ Cardinality({m \in export.file.masters : m.ledger = l.account}) = 1

\* The money is right from the bank to the books: the rows on the screen are those the
\* bank booked and those the user added, in that order, whatever was classified, edited,
\* flagged or taken through a workbook; an accepted export of everything moves the bank's
\* ledger by what the bank's balance moved, provided no voucher was given the type of the
\* other side, and names only ledgers it defines; and the totals of the dashboard and the
\* workbook lead from the opening balance to the closing one.
BooksBalance == LedgersDefined /\ (screen # <<>> =>
    LET rows   == Real(screen)
        ledger == statement.ledger
        net    == Total(rows, CreditOf) - Total(rows, DebitOf)
        dash   == Dashboard(screen, ob)
    IN  /\ \A k \in DOMAIN ledger : MoneyOf(rows[k]) = MoneyOf(ledger[k])
        /\ \A o \in Options : Wizard(o) # Refused /\ Everything(o) /\ Agreeing(TypesOf(o), o) =>
             Moves(IF o.software = "Tally" THEN TallyBank ELSE BankLedger, Wizard(o).file) = net
        /\ ob # Empty /\ Len(rows) = Len(ledger) /\ Last(ledger).bal # None =>
             /\ dash.opening + dash.credit - dash.debit = dash.closing
             /\ Workbook(screen, ob, cb).verdict # "MISMATCH")

\* What is announced is what is written: the count of the export's toast is the number of
\* vouchers in the file, the preview's count the vouchers of the quick Tally export, and
\* each badge of the filter bar the number of rows its filter shows.
CountsAgree ==
    /\ \A o \in Options :
         LET vouchers_(file) == Len(file.lines) \div 2 - IF o.software = "Tally" /\ o.ob /\ ob # Empty THEN 1 ELSE 0
         IN  /\ Wizard(o) # Refused => vouchers_(Wizard(o).file) = Wizard(o).said
             /\ o.software = "Tally" /\ QuickTally(o) # Refused =>
                  LET p == Preview(screen, o) IN
                  vouchers_(QuickTally(o).file) = p.total /\ p.payment + p.receipt + p.contra = p.total
    /\ \A f \in DOMAIN Badges(screen) :
         Badges(screen)[f] = Cardinality({k \in DOMAIN Real(screen) : Shows(Real(screen)[k], f)})

\* Of rows that repeat each other one stays unflagged: a row is flagged only when an earlier
\* one of the same amount is not, so leaving the flagged rows out loses no amount; and no
\* two rows the last detection left alone have the same date, words and amounts.
DupFlags == [][ResetDedupe \/ (set.dedupe /\ (Load \/ AutoClassify)) =>
    \A k \in DOMAIN screen' : Eligible(screen'[k]) =>
        IF screen'[k].dup
        THEN \E j \in 1 .. k - 1 : ~screen'[j].dup /\ Amount(screen'[j]) = Amount(screen'[k])
        ELSE \A j \in 1 .. k - 1 : Eligible(screen'[j]) => screen'[j].dup \/ HashOf(screen'[j]) # HashOf(screen'[k])
    ]_<<vars, lvars, bvars, rvars>>

\* Two names have the same words, each as often, in any order.
SameWords(a, b) ==
    /\ Range(a) = Range(b)
    /\ \A w \in Range(a) : Cardinality({k \in DOMAIN a : a[k] = w}) = Cardinality({k \in DOMAIN b : b[k] = w})

\* After a statement is loaded or classified a party has one name: of its vendors, and its
\* ledgers that are no category, no two that have the same words are spelled differently.
OneSpelling == [][Load \/ AutoClassify =>
    \A a, b \in RawNames(screen') : SameWords(a, b) => a = b
    ]_<<vars, lvars, bvars, rvars>>
=============================================================================
