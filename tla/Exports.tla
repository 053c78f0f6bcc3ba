------------------------------ MODULE Exports ------------------------------
(***************************************************************************)
(* What leaves the program: the ledger a transaction posts to and its      *)
(* group (src/tally_group_engine.rs), the totals of the dashboard          *)
(* (analytics.rs), the vouchers of the accounting files (export/tally.rs,  *)
(* export/accounting.rs), the workbook (export/excel.rs) and what is read   *)
(* back from it.  Amounts are in paise; a date is a day, 0 when the cell    *)
(* is empty and -1 when its text is no date.                               *)
(***************************************************************************)
EXTENDS Classification

CONSTANTS Cash,     \* the ledger of contra vouchers
          Capital,  \* the ledger against which an opening balance is booked
          Account   \* what the vouchers call the bank's ledger when it has no name

Real(ts) == Only(ts, {k \in DOMAIN ts : ~ts[k].opening})
Total(ts, Value(_)) == FoldSeq(LAMBDA t, sum : sum + Value(t), 0, ts)
CreditOf(t) == IF t.cr = Empty THEN 0 ELSE t.cr
DebitOf(t)  == IF t.dr = Empty THEN 0 ELSE t.dr

(***************************************************************************)
(* Ledgers and their groups                                                *)
(***************************************************************************)
Unclassified == <<"UNCLASSIFIED">>
PostingLedger(t) == IF t.head # <<>> THEN t.head ELSE IF t.vendor # <<>> THEN t.vendor ELSE Unclassified

\* The words of a keyword, all of which the name has, its group, and its weight with the
\* bonus for its length.
Group(words, group, weight) == [words |-> words, group |-> group, weight |-> weight]
IncomeGroups == {
    Group({"SALES"}, "Sales Accounts", 21),
    Group({"CONSULTING", "INCOME"}, "Direct Income", 13),
    Group({"INTEREST", "INCOME"}, "Indirect Income", 13),
    Group({"DIVIDEND", "INCOME"}, "Indirect Income", 13),
    Group({"PURCHASE"}, "Purchase Accounts", 11) }
ExpenseGroups == {
    Group({"SALARIES"}, "Indirect Expenses", 11),
    Group({"RENT"}, "Indirect Expenses", 10),
    Group({"TELEPHONE"}, "Indirect Expenses", 10),
    Group({"ELECTRICITY"}, "Indirect Expenses", 11),
    Group({"BANK", "CHARGES"}, "Indirect Expenses", 11),
    Group({"PROFESSIONAL", "FEES"}, "Indirect Expenses", 12),
    Group({"INSURANCE"}, "Indirect Expenses", 10),
    Group({"TRAVELLING"}, "Indirect Expenses", 21) }
OverheadGroups == {
    Group({"ADVERTISEMENT"}, "Indirect Expenses", 11),
    Group({"STATIONERY"}, "Indirect Expenses", 10),
    Group({"FUEL"}, "Indirect Expenses", 8),
    Group({"FOOD"}, "Indirect Expenses", 8),
    Group({"MEDICAL"}, "Indirect Expenses", 9),
    Group({"GROCERY"}, "Indirect Expenses", 8),
    Group({"SOFTWARE"}, "Indirect Expenses", 9),
    Group({"COURIER"}, "Indirect Expenses", 9),
    Group({"OFFICE", "EXPENSE"}, "Indirect Expenses", 9) }
BalanceGroups == {
    Group({"LABOUR"}, "Direct Expenses", 10),
    Group({"GST", "PAYABLE"}, "Duties & Taxes", 12),
    Group({"INCOME", "TAX", "PAYABLE"}, "Duties & Taxes", 13),
    Group({"CREDITORS"}, "Sundry Creditors", 11),
    Group({"DEBTORS"}, "Sundry Debtors", 11),
    Group({"CASH"}, "Cash-in-Hand", 10),
    Group({"HDFC"}, "Bank Accounts", 8) }
AssetGroups == {
    Group({"COMPUTER"}, "Fixed Assets", 10),
    Group({"CARE"}, "Fixed Assets", 9),
    Group({"INVESTMENTS"}, "Investments", 11),
    Group({"LOAN"}, "Loans (Liability)", 9),
    Group({"CAPITAL"}, "Capital Account", 11) }
Groups == IncomeGroups \cup ExpenseGroups \cup OverheadGroups \cup BalanceGroups \cup AssetGroups

GroupScore(name, group) == MapThenSumSet(LAMBDA g : g.weight, {g \in Groups : g.group = group /\ g.words \subseteq Range(name)})

\* tally_group_engine::classify: a group with the best score (any of them, in the order of a
\* hash map), else the side and the size of the amount decide.
GroupsFor(name, t) ==
    LET scored == {g.group : g \in {h \in Groups : h.words \subseteq Range(name)}}
        best   == {g \in scored : \A o \in scored : GroupScore(name, g) >= GroupScore(name, o)}
        large  == CreditOf(t) + DebitOf(t) >= 1000000
    IN  IF best # {} THEN best
        ELSE {IF t.cr # Empty THEN IF large THEN "Sundry Debtors" ELSE "Indirect Income"
              ELSE IF large THEN "Sundry Creditors" ELSE "Indirect Expenses"}

\* party_group: a vendor without a ledger is a party, on the side of the voucher's type.
IsParty(t) == t.head = <<>> /\ t.vendor # <<>>
PartyGroup(receipt) == {IF receipt THEN "Sundry Debtors" ELSE "Sundry Creditors"}
ExpenseHead(t) == IF IsParty(t) THEN PartyGroup(t.type = "Receipt") ELSE GroupsFor(t.head, t)

(***************************************************************************)
(* The screen                                                              *)
(***************************************************************************)
\* validate_transaction; other limits than these are out of a statement's reach.
Sound(t) == t.date > 0 /\ (t.dr # Empty \/ t.cr # Empty) /\ t.text # <<>> /\ ~t.dup
NeedsReview(t) == \/ t.status = "needs_review"
                  \/ t.status \notin {"needs_review", "suspense", "manual"} /\ ~Sound(t)

\* match_status
Shows(t, filter) ==
    CASE filter \in {"unreviewed", "suspense"} -> t.status = filter
      [] filter = "high"         -> t.status = "classified" /\ t.conf >= 70
      [] filter = "duplicates"   -> t.dup
      [] filter = "gst"          -> t.tags \cap {"GST", "TAX"} # {}
      [] filter = "needs_review" -> NeedsReview(t)
      [] filter = "credits"      -> Credit(t)
      [] filter = "debits"       -> Debit(t)
      [] OTHER                   -> TRUE

\* compute_filter_counts
Badges(ts) ==
    LET Count(Test(_)) == Cardinality({k \in DOMAIN Real(ts) : Test(Real(ts)[k])}) IN
    [all          |-> Len(Real(ts)),
     unreviewed   |-> Count(LAMBDA t : t.status = "unreviewed"),
     suspense     |-> Count(LAMBDA t : t.status = "suspense"),
     high         |-> Count(LAMBDA t : t.status = "classified" /\ t.conf >= 70),
     duplicates   |-> Count(LAMBDA t : t.dup),
     gst          |-> Count(LAMBDA t : t.tags \cap {"GST", "TAX"} # {}),
     needs_review |-> Count(NeedsReview)]

\* analytics::compute, the figures of its summary.
Dashboard(ts, ob) ==
    LET balances == SelectSeq(Real(ts), LAMBDA t : t.bal # Empty) IN
    [opening |-> ob,
     credit  |-> Total(Real(ts), CreditOf),
     debit   |-> Total(Real(ts), DebitOf),
     closing |-> IF balances = <<>> THEN Empty ELSE Last(balances).bal,
     vendors |-> Cardinality({t.vendor : t \in Range(Real(ts))} \ {<<>>}),
     suspense |-> Total(SelectSeq(Real(ts), LAMBDA t : t.status = "suspense"), Amount)]

(***************************************************************************)
(* Accounting files                                                        *)
(*                                                                         *)
(* The options are [software, from, to, classified, skipLow, ob, ledgers,  *)
(* gst]; a file is its lines, two for every voucher, and its ledgers.      *)
(***************************************************************************)
InPeriod(d, o) == (o.from # Empty => d >= o.from) /\ (o.to # Empty => d <= o.to)
Wanted(t, o)   == /\ ~t.opening
                  /\ o.classified => t.status \notin {"unreviewed", "suspense"}
                  /\ o.skipLow => t.conf >= 40

\* tally::in_range refuses a row without a date, accounting::in_date_range takes it.
TallyRows(ts, o) ==
    Only(ts, {k \in DOMAIN ts : Wanted(ts[k], o) /\ ts[k].date # 0 /\ InPeriod(ts[k].date, o)})
Filtered(ts, o) ==
    Only(ts, {k \in DOMAIN ts : Wanted(ts[k], o) /\ (ts[k].date = 0 \/ InPeriod(ts[k].date, o))})

TallyType(t) == IF t.type \in {"Receipt", "Contra", "Payment"} THEN t.type
                ELSE IF Found(t.text) \cap {"ATM", "CASH"} # {} THEN "Contra"
                ELSE IF Credit(t) THEN "Receipt" ELSE "Payment"
PlainType(t) == IF t.type \in {"Receipt", "Contra", "Payment"} THEN t.type
                ELSE IF t.cr # Empty THEN "Receipt" ELSE "Payment"

Line(account, dr, cr) == [account |-> account, dr |-> dr, cr |-> cr]
Voucher(debited, credited, amount) == <<Line(debited, amount, 0), Line(credited, 0, amount)>>

\* bank_ledger_name
TallyBank == IF BankLedger # <<>> THEN BankLedger ELSE Account

\* txn_voucher: a contra always debits the bank.
TallyVoucher(t) == CASE TallyType(t) = "Receipt" -> Voucher(TallyBank, PostingLedger(t), Amount(t))
                     [] TallyType(t) = "Contra"  -> Voucher(TallyBank, Cash, Amount(t))
                     [] OTHER                    -> Voucher(PostingLedger(t), TallyBank, Amount(t))

\* One master for every ledger, its group taken from the first row that posts to it; the
\* bank's has none when the client was given no name for it.
Masters(rows) ==
    LET first == {k \in DOMAIN rows : \A j \in 1 .. k - 1 : PostingLedger(rows[j]) # PostingLedger(rows[k])}
        Of(t) == [ledger |-> PostingLedger(t),
                  groups |-> IF IsParty(t) THEN PartyGroup(TallyType(t) = "Receipt") ELSE GroupsFor(PostingLedger(t), t)]
    IN  (IF BankLedger = <<>> THEN {} ELSE {[ledger |-> BankLedger, groups |-> {"Bank Accounts"}]})
        \cup {Of(rows[k]) : k \in {j \in first : PostingLedger(rows[j]) # BankLedger}}

NoMasters == {}
File(lines, masters) == [lines |-> lines, masters |-> masters]
VouchersOf(rows, Of(_)) == [l \in 1 .. 2 * Len(rows) |-> Of(rows[(l + 1) \div 2])[2 - (l % 2)]]

\* tally::generate
TallyFile(ts, o, ob) ==
    LET rows  == TallyRows(ts, o)
        start == IF o.ob /\ ob # Empty /\ rows # <<>> THEN Voucher(BankLedger, Capital, ob) ELSE <<>>
    IN  File(start \o VouchersOf(rows, TallyVoucher), IF o.ledgers THEN Masters(rows) ELSE NoMasters)

\* Mutant: the sides of the bank and of the ledger swapped.
Journal_Swapped(t) == IF PlainType(t) = "Receipt"
                      THEN <<Line(BankLedger, 0, Amount(t)), Line(PostingLedger(t), Amount(t), 0)>>
                      ELSE <<Line(BankLedger, Amount(t), 0), Line(PostingLedger(t), 0, Amount(t))>>

\* The two lines of the journals of Zoho, QuickBooks and Odoo: the bank's, then the ledger's.
Journal(t) == IF PlainType(t) = "Receipt"
              THEN <<Line(BankLedger, Amount(t), 0), Line(PostingLedger(t), 0, Amount(t))>>
              ELSE <<Line(BankLedger, 0, Amount(t)), Line(PostingLedger(t), Amount(t), 0)>>

\* The generic formats name the ledger debited and the ledger credited.
Sides(t) == IF PlainType(t) = "Receipt" THEN Voucher(BankLedger, PostingLedger(t), Amount(t))
            ELSE Voucher(PostingLedger(t), BankLedger, Amount(t))

\* Zoho's ledger line also names the tax, when asked and known.
ZohoJournal(t, o) ==
    LET taxed == o.gst /\ t.gst.type # Empty /\ t.gst.rate # Empty
        side  == IF t.dr # Empty THEN "Purchase Tax" ELSE "Sales Tax"
    IN  [k \in 1 .. 2 |-> [account |-> Journal(t)[k].account, dr |-> Journal(t)[k].dr, cr |-> Journal(t)[k].cr,
                           tax |-> IF k = 2 /\ taxed THEN <<t.gst.type, side, t.gst.rate>> ELSE <<>>]]

ZohoFile(ts, o)       == File(VouchersOf(Filtered(ts, o), LAMBDA t : ZohoJournal(t, o)), NoMasters)
QuickBooksFile(ts, o) == File(VouchersOf(Filtered(ts, o), Journal), NoMasters)
OdooFile(ts, o)       == File(VouchersOf(Filtered(ts, o), Journal), NoMasters)
CsvFile(ts, o)        == File(VouchersOf(Filtered(ts, o), Sides), NoMasters)
XmlFile(ts, o)        == File(VouchersOf(Filtered(ts, o), Sides), NoMasters)

\* accounting::generate
AccountingFile(ts, o, ob) ==
    CASE o.software = "Tally"      -> TallyFile(ts, o, ob)
      [] o.software = "Zoho"       -> ZohoFile(ts, o)
      [] o.software = "QuickBooks" -> QuickBooksFile(ts, o)
      [] o.software = "Odoo"       -> OdooFile(ts, o)
      [] o.software = "Csv"        -> CsvFile(ts, o)
      [] o.software = "Xml"        -> XmlFile(ts, o)

\* Mutant: rows without a date pass.
Errors_NoDates(ts, o) ==
    LET rows == Range(Filtered(ts, o)) IN
    (IF rows = {} THEN {"empty"} ELSE {}) \cup (IF \E t \in rows : PostingLedger(t) = BankLedger THEN {"self posted"} ELSE {})

\* accounting::validate; any of these stops the export.
Errors(ts, o) ==
    LET rows == Range(Filtered(ts, o)) IN
    {e \in {"empty", "self posted", "bad date"} :
        \/ e = "empty" /\ rows = {}
        \/ e = "self posted" /\ BankLedger # <<>> /\ \E t \in rows : PostingLedger(t) = BankLedger
        \/ e = "bad date" /\ \E t \in rows : t.date <= 0}

\* count_preview
Preview(ts, o) ==
    LET rows == TallyRows(ts, o)
        Of(type) == Cardinality({k \in DOMAIN rows : TallyType(rows[k]) = type})
    IN  [total |-> Len(rows), payment |-> Of("Payment"), receipt |-> Of("Receipt"), contra |-> Of("Contra"),
         skipped |-> Len(Real(ts)) - Len(rows)]

(***************************************************************************)
(* The workbook                                                            *)
(***************************************************************************)
\* To the rupee, half away from zero.
Rupees(x) == IF x < 0 THEN -(((50 - x) \div 100) * 100) ELSE ((x + 50) \div 100) * 100
Gap(a, b) == IF a < b THEN b - a ELSE a - b

\* What the calculated closing balance says of the stated one.
Verdict(ts, ob, cb) ==
    LET calc == Rupees(ob + Total(Real(ts), CreditOf) - Total(Real(ts), DebitOf))
    IN  IF ob = Empty \/ cb = Empty THEN "N/A" ELSE IF Gap(calc, cb) < 50 THEN "RECONCILED" ELSE "MISMATCH"

RowCells(t) == [date |-> t.date, text |-> t.text, ref |-> t.ref, dr |-> t.dr, cr |-> t.cr, bal |-> t.bal,
             vendor |-> t.vendor, head |-> t.head, type |-> t.type, status |-> t.status, tags |-> t.tags, conf |-> t.conf]

\* The ledgers of the heads sheets and their sums.
HeadSums(ts, type, word, value) ==
    LET rows == {k \in DOMAIN ts : /\ ~ts[k].opening /\ value[k] # 0 /\ ts[k].head # <<>>
                                   /\ ts[k].type = type \/ word \in Range(ts[k].head)}
    IN  {[head |-> h, amount |-> MapThenSumSet(LAMBDA k : value[k], {k \in rows : ts[k].head = h})] :
            h \in {ts[k].head : k \in rows}}

\* export_xlsx
Workbook(ts, ob, cb) ==
    [rows     |-> [k \in DOMAIN Real(ts) |-> RowCells(Real(ts)[k])],
     verdict  |-> Verdict(ts, ob, cb),
     receipts |-> HeadSums(ts, "Receipt", "INCOME", [k \in DOMAIN ts |-> CreditOf(ts[k])]),
     payments |-> HeadSums(ts, "Payment", "EXPENSE", [k \in DOMAIN ts |-> DebitOf(ts[k])])]

\* A row of the workbook read back: a party or a ledger makes it the user's, whatever its
\* status said, and a zero is no amount.
ReadBack(c) ==
    LET nonzero(x) == IF x = 0 THEN Empty ELSE x
        status == IF c.status \in {"suspense", "classified", "needs_review"} THEN c.status
                  ELSE IF c.vendor = <<>> /\ c.head = <<>> THEN "unreviewed" ELSE "classified"
    IN  [date |-> c.date, text |-> c.text, ref |-> c.ref, bal |-> nonzero(c.bal),
         dr |-> nonzero(c.dr), cr |-> nonzero(c.cr), vendor |-> c.vendor, head |-> c.head,
         type |-> IF c.type \in {"Payment", "Receipt", "Contra"} THEN c.type ELSE "Payment",
         status |-> status, conf |-> c.conf, source |-> IF status = "classified" THEN "user" ELSE "",
         tags |-> c.tags, dup |-> FALSE, opening |-> FALSE,
         gst |-> NoGst]
ReadAll(book) ==
    LET kept == Only(book.rows, {k \in DOMAIN book.rows : book.rows[k].text # <<>> \/ book.rows[k].date # 0})
    IN  [k \in DOMAIN kept |-> ReadBack(kept[k])]
=============================================================================
