----------------------------- MODULE Statement -----------------------------
(***************************************************************************)
(* Reading a bank statement: the row loops of the sheet, PDF, scanned and  *)
(* text parsers, and the passes that settle the side and the balance of    *)
(* every transaction they found.                                           *)
(*                                                                         *)
(* A statement is what a bank printed of its ledger: rows of cells, each   *)
(* holding a date, some narration, amounts and a balance.  The parser that *)
(* the file's layout selects reads the rows one at a time, with the        *)
(* buffers it carries from row to row, and then runs its passes in order.  *)
(* Recognising a date, an amount or a column inside a cell's text is left  *)
(* out: a row carries what the parsers see in it.  Amounts are in paise.   *)
(***************************************************************************)
EXTENDS Positions, SequencesExt

CONSTANTS
    None,        \* no amount, balance or transaction
    Statements,  \* what the banks print: [reader, rows, ledger, newest]
    KotakSpan    \* MAX_KOTAK_NARRATION_SPAN

VARIABLES
    statement,   \* the file being read
    at,          \* the next row
    txns,        \* the transactions read so far
    opening,     \* op_balance
    closing,     \* closing_balance
    pending,     \* the PDF loop's transaction that waits for its amount
    ahead,       \* narration and type code read before their transaction
    block,       \* the block of rows the scanned-table parsers are in
    known,       \* last_chainedbalance of the Union Bank parser
    passes       \* the passes still to run; "unread" when the parser gives up

vars == <<statement, at, txns, opening, closing, pending, ahead, block, known, passes>>

Blocks  == {"Wealth", "Normal", "Idbi", "Idfc", "Sbi", "Union"}
Reader  == statement.reader
Rows    == statement.rows

\* A row with nothing in it.  `part' says whether its date lacks the year ("cut") or
\* is only a year ("tail"); `mark' is the side its sign, suffix or words name; `cut'
\* the columns whose amount goes on in the next row; `loose' bare numbers, each of
\* the column (or the narration) it belongs to.
Blank == [date |-> 0, part |-> "full", narr |-> <<>>, kind |-> "plain", dr |-> None, cr |-> None,
          bal |-> None, mark |-> "", cut |-> {}, loose |-> <<>>]

NoWords == [narr |-> <<>>, type |-> <<>>]

Init == /\ statement \in Statements
        /\ at = 1
        /\ txns = <<>> /\ pending = None /\ block = None
        /\ opening = None /\ closing = None /\ known = None
        /\ ahead = NoWords
        /\ passes = <<"read">>

(***************************************************************************)
(* Rows                                                                    *)
(***************************************************************************)
HasAmount(r) == r.dr # None \/ r.cr # None
Value(r)     == IF r.dr # None THEN r.dr ELSE r.cr
Or0(x)       == IF x = None THEN 0 ELSE x
Net(t)       == Or0(t.cr) - Or0(t.dr)
Magnitude(x) == IF x < 0 THEN -x ELSE x

\* A row's amounts once its own sign or Dr/Cr suffix has been read.
Sided(r) == IF r.mark = "" \/ ~HasAmount(r) THEN r
            ELSE [r EXCEPT !.dr = IF r.mark = "dr" THEN Value(r) ELSE None,
                           !.cr = IF r.mark = "cr" THEN Value(r) ELSE None]

Txn(r, narr) == [date |-> r.date, narr |-> narr, dr |-> r.dr, cr |-> r.cr, bal |-> r.bal, mark |-> r.mark,
                 amts |-> <<>>, prev |-> None, ok |-> "unchecked", opening |-> FALSE]

\* The row the PDF loop is at: a date that lacks its year takes it from the next row.
Stitched == /\ Reader \in {"Page", "Headless"}
            /\ Rows[at].part = "cut"
            /\ at < Len(Rows)
            /\ Rows[at + 1].part = "tail"
            /\ ~HasAmount(Rows[at + 1])
            /\ Rows[at + 1].bal = None
Width == IF Stitched THEN 2 ELSE 1
Row   == IF Stitched THEN [Rows[at] EXCEPT !.part = "full", !.narr = @ \o Rows[at + 1].narr] ELSE Rows[at]
Dated(r) == r.date # 0 /\ r.part = "full"

\* Where the table starts: the first whole header row, else the first partial one.
HeaderAt == LET whole == {k \in DOMAIN Rows : Rows[k].kind = "header"}
                half  == {k \in DOMAIN Rows : Rows[k].kind = "partial header"}
                best  == IF whole # {} THEN whole ELSE half
            IN  IF best = {} THEN 0 ELSE CHOOSE k \in best : \A j \in best : k <= j

\* What the sheet's loop does with a row.
SheetRule(r) ==
    IF ~Dated(r) /\ r.narr = <<>> /\ ~HasAmount(r) /\ r.bal = None THEN "skip"
    ELSE IF r.bal # None /\ ~HasAmount(r) /\ closing = None /\ r.kind = "closing" THEN "closing"
    ELSE IF r.bal # None /\ ~HasAmount(r) /\ opening = None /\ (r.narr = <<>> \/ r.kind = "opening") THEN "opening"
    ELSE IF r.kind # "plain" THEN "skip"
    ELSE IF ~Dated(r) /\ r.narr # <<>> /\ ~HasAmount(r) THEN IF txns = <<>> THEN "skip" ELSE "continue"
    ELSE IF ~Dated(r) \/ ~HasAmount(r) THEN "skip"
    ELSE "add"

LastLacksBalance == txns # <<>> /\ Last(txns).bal = None

\* What the PDF loop does with a row that has only a balance, "" for the later rules (a
\* pending transaction always has its balance: it is held for nothing else).
BalanceRule(r) ==
    IF r.bal = None \/ HasAmount(r) THEN ""
    ELSE IF closing = None /\ r.kind = "closing" THEN "closing"
    ELSE IF r.narr = <<>> /\ LastLacksBalance THEN "balance"
    ELSE IF opening = None /\ (r.narr = <<>> \/ r.kind = "opening") THEN "opening"
    ELSE ""

Words(r) == ahead.narr \o ahead.type \o r.narr

\* What the PDF loop does with any other row.
PageRule(r) ==
    IF r.kind = "stop" THEN "stop"
    ELSE IF r.date = 0 /\ r.narr = <<>> /\ ~HasAmount(r) /\ r.bal = None THEN "skip"
    ELSE IF BalanceRule(r) # "" THEN BalanceRule(r)
    ELSE IF r.kind \notin {"plain", "type"} THEN "skip"
    ELSE IF ~Dated(r) /\ r.narr # <<>> /\ ~HasAmount(r) /\ r.bal = None /\ txns = <<>> THEN "hold"
    ELSE IF ~Dated(r) /\ r.kind = "type" /\ ~HasAmount(r) /\ r.bal = None THEN "type"
    ELSE IF ~Dated(r) /\ (r.narr # <<>> \/ r.bal # None) /\ ~HasAmount(r) /\ txns # <<>> THEN "continue"
    ELSE IF ~Dated(r) THEN "skip"
    ELSE IF pending # None /\ Words(r) = <<>> /\ HasAmount(r) THEN "merge"
    ELSE IF HasAmount(r) THEN "add"
    ELSE IF Words(r) # <<>> /\ r.bal # None THEN "pend"
    ELSE IF Words(r) # <<>> THEN "drop" ELSE "skip"

\* The fixed-width parsers want a date and a balance on the line.
LineRule(r) ==
    IF ~Dated(r) \/ r.bal = None THEN "skip"
    ELSE IF r.kind \in {"opening", "closing"} THEN r.kind
    ELSE IF (Reader = "Cosmos" /\ r.kind # "plain") \/ ~HasAmount(r) THEN "skip"
    ELSE "add"

TextRule(r) ==
    IF Dated(r) THEN IF HasAmount(r) \/ r.bal # None THEN "text" ELSE "skip"
    ELSE IF txns # <<>> /\ ~HasAmount(r) /\ r.bal = None /\ r.narr # <<>> THEN "continue" ELSE "skip"

\* The scanned tables' parsers: what ends the table, what repeats on every page,
\* and what belongs to a block.
BlockRule(r) ==
    IF r.kind = "stop" /\ Reader \notin {"Sbi", "Union"} THEN "stop"
    ELSE IF r.kind = "label" THEN "label"
    ELSE IF r.kind # "plain" THEN "skip"
    ELSE IF /\ Reader = "Wealth"
            /\ ~Dated(r) /\ ~HasAmount(r) /\ r.narr # <<>>
            /\ at < Len(Rows) /\ Dated(Rows[at + 1]) THEN "hold"
    ELSE IF Dated(r) \/ (Reader = "Sbi" /\ r.part = "cut" /\ at < Len(Rows) /\ Rows[at + 1].part = "tail") THEN "open"
    ELSE IF block # None THEN "into" ELSE "skip"

\* The lines of a multi-line listing, one field on each.
LinesRule(r) ==
    IF r.kind # "plain" THEN "skip"
    ELSE IF Dated(r) THEN IF block # None /\ block.narr = <<>> /\ block.amts = <<>> /\ block.bal = None
                          THEN "skip" ELSE "open"
    ELSE IF block = None \/ r.loose # <<>> THEN "skip" ELSE "into"

IsKotakStart == Reader = "Kotak" /\ Row.kind = "anchor"

Rule ==
    IF at <= HeaderAt THEN "skip"
    ELSE IF Reader = "Sheet" THEN SheetRule(Row)
    ELSE IF Reader \in {"Page", "Headless"} THEN PageRule(Row)
    ELSE IF Reader \in {"Fixed", "Cosmos"} THEN LineRule(Row)
    ELSE IF Reader = "Text" THEN TextRule(Row)
    ELSE IF Reader = "Lines" THEN LinesRule(Row)
    ELSE IF Reader \in Blocks THEN BlockRule(Row)
    ELSE IF IsKotakStart THEN "kotak" ELSE "skip"

Reading == passes = <<"read">> /\ at <= Len(Rows)
Advance(n) == at' = at + n /\ UNCHANGED <<statement, closing, passes>>

SkipRow == /\ Reading /\ Rule \in {"skip", "label", "stop", "drop"}
           /\ at' = IF Rule = "stop" THEN Len(Rows) + 1 ELSE at + IF Rule = "label" THEN 2 ELSE Width
           /\ pending' = IF Rule = "drop" THEN None ELSE pending
           /\ ahead' = IF Rule = "drop" THEN NoWords ELSE ahead
           /\ UNCHANGED <<statement, txns, opening, closing, block, known, passes>>

TakeOpening == /\ Reading /\ Rule = "opening"
               /\ opening' = Row.bal
               /\ Advance(Width) /\ UNCHANGED <<txns, pending, ahead, block, known>>

TakeClosing == /\ Reading /\ Rule = "closing"
               /\ closing' = Row.bal
               /\ at' = at + Width
               /\ UNCHANGED <<statement, txns, opening, pending, ahead, block, known, passes>>

TakeBalance == /\ Reading /\ Rule = "balance"
               /\ txns' = [txns EXCEPT ![Len(txns)].bal = Row.bal]
               /\ Advance(Width) /\ UNCHANGED <<opening, pending, ahead, block, known>>

\* narr_buffer, type_buffer and the wealth statement's lookahead_narr.
HoldWords == /\ Reading /\ Rule \in {"hold", "type"}
             /\ ahead' = IF Rule = "type" THEN [ahead EXCEPT !.type = Row.narr]
                                          ELSE [ahead EXCEPT !.narr = @ \o Row.narr]
             /\ Advance(Width) /\ UNCHANGED <<txns, opening, pending, block, known>>

ContinueLast == /\ Reading /\ Rule = "continue"
                /\ LET last == Last(txns)
                   IN  txns' = [txns EXCEPT ![Len(txns)] =
                         [last EXCEPT !.narr = @ \o Row.narr,
                                      !.bal = IF Reader \in {"Page", "Headless"} /\ @ = None THEN Row.bal ELSE @]]
                /\ Advance(Width) /\ UNCHANGED <<opening, pending, ahead, block, known>>

AddTxn == /\ Reading /\ Rule = "add"
          /\ LET r == IF Reader = "Cosmos" THEN Row ELSE Sided(Row)
             IN  txns' = Append(txns, Txn(r, IF Reader \in {"Page", "Headless"} THEN Words(Row) ELSE Row.narr))
          /\ ahead' = NoWords /\ pending' = None
          /\ Advance(Width) /\ UNCHANGED <<opening, block, known>>

\* Bank of Baroda prints the amount on a row of its own, after the narration's.
HoldTxn == /\ Reading /\ Rule = "pend"
           /\ pending' = Txn(Row, Words(Row))
           /\ ahead' = NoWords
           /\ Advance(Width) /\ UNCHANGED <<txns, opening, block, known>>

MergeTxn == /\ Reading /\ Rule = "merge"
            /\ LET r == Sided(Row)
               IN  txns' = Append(txns, [pending EXCEPT !.dr = r.dr, !.cr = r.cr,
                                                        !.bal = IF @ = None THEN r.bal ELSE @])
            /\ pending' = None
            /\ Advance(Width) /\ UNCHANGED <<opening, ahead, block, known>>

\* A dated text line: its last amount is the balance, the others are candidates.
AddText == /\ Reading /\ Rule = "text"
           /\ txns' = Append(txns, [Txn(Row, Row.narr) EXCEPT !.dr = None, !.cr = None,
                                    !.amts = (IF HasAmount(Row) THEN <<Value(Row)>> ELSE <<>>)
                                             \o [k \in DOMAIN Row.loose |-> Row.loose[k].val]])
           /\ Advance(1) /\ UNCHANGED <<opening, pending, ahead, block, known>>

\* Kotak's narrow layout: from the anchor to the next signed amount, wherever it is.
\* The last of two or more lines between them is the reference.
KotakBlock ==
    /\ Reading /\ Rule = "kotak"
    /\ LET reach  == {k \in at + 1 .. at + KotakSpan : k <= Len(Rows) /\ HasAmount(Rows[k])}
           amount == CHOOSE k \in reach : \A j \in reach : k <= j
           lines  == [k \in 1 .. amount - at - 1 |-> Rows[at + k].narr]
           words  == FlattenSeq(IF Len(lines) < 2 THEN lines ELSE Front(lines))
           hasBal == amount < Len(Rows) /\ Rows[amount + 1].bal # None
           r      == [Sided(Rows[amount]) EXCEPT !.date = Row.date,
                                                 !.bal = IF hasBal THEN Rows[amount + 1].bal ELSE None]
       IN  IF reach = {} THEN at' = at + 1 /\ UNCHANGED txns
           ELSE /\ at' = amount + IF words # <<>> /\ hasBal THEN 2 ELSE 1
                /\ txns' = IF words = <<>> THEN txns ELSE Append(txns, Txn(r, words))
    /\ UNCHANGED <<statement, opening, closing, pending, ahead, block, known, passes>>

(***************************************************************************)
(* Blocks of rows                                                          *)
(***************************************************************************)
\* Mutant: a loose number goes to the first open column, in whatever order.
Columns_Reversed == <<"bal", "cr", "dr">>

Columns == <<"dr", "cr", "bal">>
CellsOf(r) == [c \in {"dr", "cr", "bal"} |-> IF c = "dr" THEN r.dr ELSE IF c = "cr" THEN r.cr ELSE r.bal]

\* classify_row: loose numbers complete the amounts that stop at the decimal point, in
\* the columns' order; a wrong one leaves text that is no amount.  The bare numbers of
\* a row that completes nothing are narration.
Classified(b, r) ==
    LET hanging == SelectSeq(Columns, LAMBDA c : c \in b.cut)
        Pair(c) == CHOOSE k \in DOMAIN hanging : hanging[k] = c
        Joined(c) == IF c \notin b.cut \/ Pair(c) > Len(r.loose) THEN b.cells[c]
                     ELSE IF r.loose[Pair(c)].of = c THEN b.cells[c] ELSE None
        taken   == {hanging[k] : k \in {k \in DOMAIN hanging : k <= Len(r.loose)}}
        rescued == IF b.cut # {} \/ Reader \notin {"Idbi", "Idfc", "Sbi", "Union"} THEN <<>>
                   ELSE [k \in DOMAIN r.loose |-> r.loose[k].val]
    IN  [b EXCEPT !.narr  = @ \o rescued \o r.narr,
                  !.cells = [c \in DOMAIN @ |-> IF @[c] # None THEN Joined(c) ELSE CellsOf(r)[c]],
                  !.cut   = (@ \ taken) \cup r.cut]

EmptyBlock(date, narr) == [date |-> date, narr |-> narr, cells |-> [c \in {"dr", "cr", "bal"} |-> None],
                           cut |-> {}, amts |-> <<>>, bal |-> None]

\* What a block becomes when the next one opens: nothing without an amount, except
\* that Union Bank's missing amount is read off the balances.
BlockTxn(b) ==
    LET cells  == b.cells
        moved  == IF known = None \/ cells["bal"] = None THEN 0 ELSE cells["bal"] - known
        found  == Reader = "Union" /\ cells["dr"] = None /\ cells["cr"] = None /\ Magnitude(moved) > 1
    IN  Txn([Blank EXCEPT !.date = b.date, !.bal = cells["bal"],
                          !.dr = IF found /\ moved < 0 THEN -moved ELSE cells["dr"],
                          !.cr = IF found /\ moved > 0 THEN moved ELSE cells["cr"]], b.narr)

\* A group of text lines: its last number is the balance.
LinesTxn(b) == LET nums == IF b.bal = None THEN b.amts ELSE Append(b.amts, b.bal)
               IN  [Txn([Blank EXCEPT !.date = b.date, !.bal = Last(nums)], b.narr) EXCEPT !.amts = Front(nums)]

Flush ==
    IF block = None THEN UNCHANGED <<txns, opening, known>>
    ELSE IF Reader = "Lines"
    THEN /\ txns' = IF Len(block.amts) + (IF block.bal = None THEN 0 ELSE 1) < 2 THEN txns
                    ELSE Append(txns, LinesTxn(block))
         /\ UNCHANGED <<opening, known>>
    ELSE LET t == BlockTxn(block)
         IN  /\ txns' = IF HasAmount(t) THEN Append(txns, t) ELSE txns
             /\ opening' = IF Reader = "Wealth" /\ ~HasAmount(t) /\ opening = None THEN t.bal ELSE opening
             /\ known' = IF Reader = "Union" /\ t.bal # None THEN t.bal ELSE known

IntoBlock(b, r) == IF Reader = "Lines"
                   THEN [b EXCEPT !.narr = @ \o r.narr,
                                  !.amts = IF HasAmount(r) THEN Append(@, Value(r)) ELSE @,
                                  !.bal  = IF r.bal # None THEN r.bal ELSE @]
                   ELSE Classified(b, r)

OpenBlock == /\ Reading /\ Rule = "open"
             /\ Flush
             /\ block' = IntoBlock(EmptyBlock(Row.date, ahead.narr), Row)
             /\ ahead' = NoWords
             /\ Advance(1) /\ UNCHANGED pending

GrowBlock == /\ Reading /\ Rule = "into"
             /\ block' = IntoBlock([block EXCEPT !.narr = @ \o ahead.narr], Row)
             /\ ahead' = NoWords
             /\ Advance(1) /\ UNCHANGED <<txns, opening, pending, known>>

(***************************************************************************)
(* The passes of each parser, and the fewest transactions it trusts        *)
(***************************************************************************)
Settle == <<"heading", "derive", "dedupe", "correct", "validate", "prepend">>
PassesOf ==
    [Sheet    |-> Settle,
     Page     |-> Settle,
     Headless |-> <<"hints", "direction">> \o Tail(Settle),
     Wealth   |-> <<"derive", "one side", "prepend">>,
     Normal   |-> <<"derive", "one side", "prepend">>,
     Idbi     |-> <<"reverse", "derive", "one side", "repair", "prepend">>,
     Idfc     |-> <<"derive", "one side", "repair", "prepend">>,
     Sbi      |-> <<"derive", "one side", "repair", "prepend">>,
     Union    |-> <<"derive", "one side", "repair", "prepend">>,
     Fixed    |-> <<"direction", "derive", "prepend">>,
     Cosmos   |-> <<"movement", "derive", "prepend">>,
     Kotak    |-> <<"derive", "prepend">>,
     Text     |-> <<"decide", "derive", "prepend">>,
     Lines    |-> <<"decide", "derive", "prepend">>]

Fewest == IF Reader \in Blocks \cup {"Cosmos"} THEN 2 ELSE IF Reader = "Kotak" THEN 3 ELSE 1

EndOfRows == /\ passes = <<"read">> /\ at > Len(Rows)
             /\ Flush
             /\ block' = None /\ pending' = None
             /\ passes' = IF Len(txns') < Fewest THEN <<"unread">> ELSE PassesOf[Reader]
             /\ UNCHANGED <<statement, at, closing, ahead>>

Now(p) == passes # <<>> /\ Head(passes) = p
Pass(p) == /\ Now(p) /\ passes' = Tail(passes)
           /\ UNCHANGED <<statement, at, closing, pending, ahead, block, known>>

\* tol: 2% of the amount, one rupee at least.
Within(x, amt) == Magnitude(x) < 100 \/ 50 * Magnitude(x) < amt

\* The balance before the k-th transaction: the last printed one, else the seed.
BalanceBefore(ts, k, seed) ==
    LET with == {j \in 1 .. k - 1 : ts[j].bal # None}
    IN  IF with = {} THEN seed ELSE ts[CHOOSE j \in with : \A i \in with : i <= j].bal

\* A transaction whose balance moved by its amount the other way changes sides.
Turned(t, before) ==
    IF t.bal = None \/ before = None THEN t
    ELSE IF t.dr # None /\ t.cr = None /\ Within(t.bal - before - t.dr, t.dr) THEN [t EXCEPT !.cr = t.dr, !.dr = None]
    ELSE IF t.cr # None /\ t.dr = None /\ Within(t.bal - before + t.cr, t.cr) THEN [t EXCEPT !.dr = t.cr, !.cr = None]
    ELSE t

Seed == LET with == {k \in DOMAIN txns : txns[k].bal # None /\ HasAmount(txns[k])}
        IN  IF opening # None \/ with = {} THEN opening
            ELSE LET t == txns[CHOOSE k \in with : \A j \in with : k <= j] IN t.bal - Net(t)

\* The opening and closing balances of a summary printed above the table.
Above(kind) == {k \in 1 .. HeaderAt - 1 : Rows[k].kind = kind /\ Rows[k].bal # None}
Summary(kind) == Rows[CHOOSE k \in Above(kind) : \A j \in Above(kind) : k <= j].bal
Heading == /\ Now("heading") /\ passes' = Tail(passes)
           /\ opening' = IF opening = None /\ Above("opening") # {} THEN Summary("opening") ELSE opening
           /\ closing' = IF closing = None /\ Above("closing") # {} THEN Summary("closing") ELSE closing
           /\ UNCHANGED <<statement, at, txns, pending, ahead, block, known>>

\* correct_debit_credit_by_balance: starts with no balance, whatever the opening one is.
Correct == /\ Pass("correct")
           /\ txns' = [k \in DOMAIN txns |-> Turned(txns[k], BalanceBefore(txns, k, None))]
           /\ UNCHANGED opening

\* The same pass of the fixed-width and headerless parsers starts from the opening balance.
Direction == /\ Pass("direction")
             /\ txns' = [k \in DOMAIN txns |-> Turned(txns[k], BalanceBefore(txns, k, Seed))]
             /\ UNCHANGED opening

\* Without a header the columns are guesses, and words in the narration come first.
Hints == /\ Pass("hints")
         /\ txns' = [k \in DOMAIN txns |-> Sided(txns[k])]
         /\ UNCHANGED opening

\* Cosmos: the side is the way the balance moved, to a tenth of a percent, then the words.
Near(x, amt) == Magnitude(x) <= 2 \/ 1000 * Magnitude(x) <= amt
Moved(t, before) ==
    LET v == Value(t) IN
    IF Near(t.bal - before - v, v) THEN [t EXCEPT !.dr = None, !.cr = v]
    ELSE IF Near(t.bal - before + v, v) THEN [t EXCEPT !.dr = v, !.cr = None]
    ELSE IF t.mark = "cr" THEN [t EXCEPT !.dr = None, !.cr = v] ELSE [t EXCEPT !.dr = v, !.cr = None]
Movement == /\ Pass("movement")
            /\ txns' = [k \in DOMAIN txns |-> Moved(txns[k], BalanceBefore(txns, k, Seed))]
            /\ UNCHANGED opening

\* Text: in the order of time, by marker, by the balance, credit when nothing tells.
NewestFirst(ts) == ts[1].date > Last(ts).date
Side(t, side, v) == [t EXCEPT !.dr = IF side = "dr" THEN v ELSE None, !.cr = IF side = "cr" THEN v ELSE None]
Decided(t, before) ==
    LET diff == t.bal - before
        best == CHOOSE v \in ToSet(t.amts) : \A u \in ToSet(t.amts) :
                    Magnitude(Magnitude(diff) - v) <= Magnitude(Magnitude(diff) - u)
        fits == LET rest == Magnitude(Magnitude(diff) - best) IN 50 * rest < best
    IN  IF t.amts = <<>> THEN t
        ELSE IF Len(t.amts) = 1
        THEN LET v == t.amts[1] IN
             IF t.mark # "" THEN Side(t, t.mark, v)
             ELSE IF before = None THEN Side(t, "cr", v)
             ELSE IF 50 * Magnitude(diff - v) < v THEN Side(t, "cr", v)
             ELSE IF 50 * Magnitude(diff + v) < v THEN Side(t, "dr", v) ELSE Side(t, "cr", v)
        ELSE IF before = None THEN Side(t, "cr", t.amts[1])
        ELSE IF diff = 0 THEN t
        ELSE Side(t, IF diff < 0 THEN "dr" ELSE "cr",
                  IF fits THEN best ELSE IF diff < 0 THEN t.amts[1] ELSE Last(t.amts))
InTime(ts) == IF NewestFirst(ts) THEN Reverse(ts) ELSE ts
Decide == /\ Pass("decide")
          /\ LET ts == InTime(txns)
                 ds == [k \in DOMAIN ts |-> Decided(ts[k], BalanceBefore(ts, k, None))]
             IN  txns' = IF NewestFirst(txns) THEN Reverse(ds) ELSE ds
          /\ UNCHANGED opening

\* IDBI lists the newest transaction first.
TurnRound == /\ Pass("reverse") /\ txns' = Reverse(txns) /\ UNCHANGED opening

\* compute_prev_balances: derives the opening balance and stamps the one before each row.
Running(ts, start) ==
    LET run[k \in 0 .. Len(ts)] ==
          IF k = 0 THEN start
          ELSE IF ts[k].bal # None THEN ts[k].bal
          ELSE IF run[k - 1] = None THEN None ELSE run[k - 1] + Net(ts[k])
    IN  run
Stamped(ts, start) == [k \in DOMAIN ts |-> [ts[k] EXCEPT !.prev = Running(ts, start)[k - 1]]]
Derived(ts) == LET with == {k \in DOMAIN ts : ts[k].bal # None /\ HasAmount(ts[k])}
               IN  IF opening # None \/ with = {} THEN opening
                   ELSE LET t == ts[CHOOSE k \in with : \A j \in with : k <= j] IN t.bal - Net(t)
Derive == /\ Pass("derive")
          /\ LET listed == IF Reader \in {"Text", "Lines"} /\ NewestFirst(txns) THEN Reverse(txns) ELSE txns
                 stamped == Stamped(listed, Derived(listed))
             IN  /\ opening' = Derived(listed)
                 /\ txns' = IF listed = txns THEN stamped ELSE Reverse(stamped)

\* deduplicate_txns: the first of the rows with the same date, words, amounts and balance.
SameRow(t, u) == t.date = u.date /\ t.narr = u.narr /\ t.dr = u.dr /\ t.cr = u.cr /\ t.bal = u.bal
Dedupe == /\ Pass("dedupe")
          /\ txns' = Only(txns, {k \in DOMAIN txns : \A j \in 1 .. k - 1 : ~SameRow(txns[j], txns[k])})
          /\ UNCHANGED opening

\* validate_balances: more than a rupee off is a mismatch.
Checked(t, before) == IF t.bal = None \/ ~HasAmount(t) THEN t
                      ELSE [t EXCEPT !.ok = IF before = None \/ Magnitude(before + Net(t) - t.bal) <= 100
                                            THEN "ok" ELSE "mismatch"]
Validate == /\ Pass("validate")
            /\ txns' = [k \in DOMAIN txns |-> Checked(txns[k], BalanceBefore(txns, k, opening))]
            /\ UNCHANGED opening

\* A row with an amount on both sides keeps the one its balance explains, else the larger.
OneSided(t) ==
    LET chained  == t.prev # None /\ t.bal # None
        crFits  == chained /\ Within(t.bal - t.prev - t.cr, t.cr)
        drFits  == chained /\ Within(t.bal - t.prev + t.dr, t.dr)
        credit  == IF crFits # drFits THEN crFits ELSE t.cr >= t.dr
    IN  IF t.dr = None \/ t.cr = None THEN t
        ELSE IF credit THEN [t EXCEPT !.dr = None] ELSE [t EXCEPT !.cr = None]
OneSide == /\ Pass("one side")
           /\ txns' = [k \in DOMAIN txns |-> OneSided(txns[k])]
           /\ UNCHANGED opening

\* recover_single_digit_amount_misread: one low digit apart from what the balances say.
Digit(n, k) == (n \div 10 ^ k) % 10
OneDigitOff(a, b) == /\ b > 0 /\ Magnitude(a - b) < 100000
                     /\ \A k \in 3 .. 8 : (a >= 10 ^ k) = (b >= 10 ^ k)
                     /\ Cardinality({k \in 0 .. 8 : Digit(a, k) # Digit(b, k)}) = 1

\* The balance the chain calls for replaces a printed one that does not agree.
Mended(t, before) ==
    LET moved == t.bal - before
        fixed == IF t.cr # None THEN moved ELSE -moved
    IN  IF before = None \/ t.bal = None \/ Magnitude(before + Net(t) - t.bal) <= 1 THEN t
        ELSE IF Reader = "Union" /\ HasAmount(t) /\ OneDigitOff(IF t.cr # None THEN t.cr ELSE t.dr, fixed)
        THEN [t EXCEPT !.prev = before, !.cr = IF @ # None THEN fixed ELSE @,
                       !.dr = IF t.cr = None THEN fixed ELSE @]
        ELSE [t EXCEPT !.bal = before + Net(t), !.prev = before]
Repair == /\ Pass("repair")
          /\ LET mended[k \in DOMAIN txns] == Mended(txns[k], IF k = 1 THEN opening ELSE mended[k - 1].bal)
             IN  txns' = [k \in DOMAIN txns |-> mended[k]]
          /\ UNCHANGED opening

\* prepend_opening_balance_row: the opening balance again, from the first row listed.
Prepend == /\ Pass("prepend")
           /\ LET t  == txns[1]
                  ob == IF t.bal # None /\ HasAmount(t) THEN t.bal - Net(t) ELSE opening
              IN  txns' = IF ob = None THEN txns
                          ELSE <<[Txn([Blank EXCEPT !.bal = ob], <<>>) EXCEPT !.opening = TRUE]>> \o txns
           /\ UNCHANGED opening

Read == \/ SkipRow \/ TakeOpening \/ TakeClosing \/ TakeBalance \/ HoldWords \/ ContinueLast
        \/ AddTxn \/ HoldTxn \/ MergeTxn \/ AddText \/ KotakBlock \/ OpenBlock \/ GrowBlock \/ EndOfRows
Settling == \/ Heading \/ Correct \/ Direction \/ Hints \/ Movement \/ Decide \/ TurnRound \/ Derive \/ Dedupe
            \/ Validate \/ OneSide \/ Repair \/ Prepend
Finished == passes \in {<<>>, <<"unread">>} /\ UNCHANGED vars

Next == Read \/ Settling \/ Finished
Spec == Init /\ [][Next]_vars /\ WF_vars(Next)

(***************************************************************************)
(* Properties                                                              *)
(***************************************************************************)
Shown(t) == [date |-> t.date, narr |-> t.narr, dr |-> t.dr, cr |-> t.cr, bal |-> t.bal]
Listed   == SelectSeq(txns, LAMBDA t : ~t.opening)
AsBooked == [k \in DOMAIN Listed |-> Shown(Listed[k])] = statement.ledger

\* A statement the parser accepts is read as the bank booked it: every transaction once,
\* in its order, with its own narration, its amount on the right side and its balance,
\* whatever way the layout spreads it over rows, and even when one number of a scanned
\* table, after its first transaction, is misread.  Where nothing is misread the opening
\* row and the closing balance are the bank's (a listing that starts with the newest
\* shows another opening row), and if every balance is printed none is marked a mismatch.
\* A parser gives up on no statement but one too short for it.
LedgerRead ==
    /\ passes = <<>> =>
         /\ AsBooked
         /\ ~statement.misread =>
              /\ closing = statement.close
              /\ ~statement.newest => txns[1].opening /\ txns[1].bal = statement.start
              /\ \/ \E k \in DOMAIN statement.ledger : statement.ledger[k].bal = None
                 \/ \A k \in DOMAIN txns : txns[k].ok # "mismatch"
    /\ passes = <<"unread">> => Len(statement.ledger) < Fewest
=============================================================================
