---------------------------- MODULE Statement_MC ----------------------------
(* The statements that banks print of one account: ledgers of up to three    *)
(* transactions, each printed in one of the styles its layout knows, with or *)
(* without an opening and a closing balance; and scans with one misread      *)
(* number.                                                                   *)
EXTENDS Statement

Start   == 500000
Amounts == <<20000, 35000, 90000>>
Dates   == <<1, 2, 2>>
Flip(side) == IF side = "dr" THEN "cr" ELSE "dr"

\* What the bank booked.
Ledger(sides, amounts) ==
    LET n == Len(sides)
        moved(k) == IF sides[k] = "dr" THEN -amounts[k] ELSE amounts[k]
        bal[k \in 0 .. n] == IF k = 0 THEN Start ELSE bal[k - 1] + moved(k)
    IN  [k \in 1 .. n |-> [k |-> k, date |-> Dates[k], side |-> sides[k], bal |-> bal[k],
                           dr |-> IF sides[k] = "dr" THEN amounts[k] ELSE None,
                           cr |-> IF sides[k] = "cr" THEN amounts[k] ELSE None]]
Booked(sides) == Ledger(sides, Amounts)
Orders == {<<"dr">>} \cup [1 .. 2 -> {"dr", "cr"}]
                    \cup {<<"cr", "dr", "dr">>, <<"dr", "cr", "dr">>}

(***************************************************************************)
(* Printing                                                                *)
(***************************************************************************)
A(e) == <<10 * e.k + 1>>
B(e) == <<10 * e.k + 2>>
One(e) == [Blank EXCEPT !.date = e.date, !.narr = A(e), !.dr = e.dr, !.cr = e.cr, !.bal = e.bal]
Worded(narr) == [Blank EXCEPT !.narr = narr]
Loose(of, val) == [of |-> of, val |-> val]
Bare(nums) == [Blank EXCEPT !.loose = nums]
AmountOf(e) == Value(e)
InDebit(e) == [One(e) EXCEPT !.dr = AmountOf(e), !.cr = None]
NoiseRow(kind) == [Blank EXCEPT !.narr = <<1>>, !.kind = kind]

\* The rows of one transaction.
RowsOf(e, style) ==
    CASE style = "plain"       -> <<One(e)>>
      [] style = "noise"       -> <<NoiseRow("noise"), One(e)>>
      [] style = "label"       -> <<NoiseRow("label"), Worded(<<1>>), One(e)>>
      [] style = "wrapped"     -> <<One(e), Worded(B(e))>>
      [] style = "above"       -> <<Worded(B(e)), One(e)>>
      [] style = "around"      -> <<Worded(B(e)), One(e), Worded(<<10 * e.k + 3>>)>>
      [] style = "type"        -> <<[Worded(B(e)) EXCEPT !.kind = "type"], One(e)>>
      [] style = "swapped"     -> <<[One(e) EXCEPT !.dr = e.cr, !.cr = e.dr]>>
      [] style = "signed"      -> <<[InDebit(e) EXCEPT !.mark = e.side]>>
      [] style = "guessed"     -> <<InDebit(e)>>
      [] style = "no balance"  -> <<[One(e) EXCEPT !.bal = None]>>
      [] style = "below"       -> <<[One(e) EXCEPT !.bal = None], [Blank EXCEPT !.bal = e.bal]>>
      [] style = "own row"     -> <<[One(e) EXCEPT !.dr = None, !.cr = None],
                                    [One(e) EXCEPT !.narr = <<>>, !.bal = None]>>
      [] style = "cut year"    -> <<[One(e) EXCEPT !.part = "cut"], [Worded(B(e)) EXCEPT !.part = "tail"]>>
      [] style = "split"       -> <<[One(e) EXCEPT !.cut = {e.side}], Worded(B(e)), Bare(<<Loose(e.side, 50)>>)>>
      [] style = "split twice" -> <<[One(e) EXCEPT !.cut = {e.side, "bal"}],
                                    Bare(<<Loose(e.side, 50), Loose("bal", 50)>>)>>
      [] style = "digits"      -> <<One(e), Bare(<<Loose("narr", 10 * e.k + 2)>>)>>
      [] style = "both"        -> <<[One(e) EXCEPT !.dr = IF @ = None THEN 700 ELSE @,
                                                   !.cr = IF @ = None THEN 700 ELSE @]>>
      [] style = "missing"     -> <<[One(e) EXCEPT !.dr = None, !.cr = None]>>
      [] style = "anchored"    -> <<[Blank EXCEPT !.date = e.date, !.kind = "anchor"], Worded(A(e)),
                                    [InDebit(e) EXCEPT !.date = 0, !.narr = <<>>, !.bal = None, !.mark = e.side],
                                    [Blank EXCEPT !.bal = e.bal]>>
      [] style = "referenced"  -> <<[Blank EXCEPT !.date = e.date, !.kind = "anchor"], Worded(A(e)), Worded(<<1>>),
                                    [InDebit(e) EXCEPT !.date = 0, !.narr = <<>>, !.bal = None, !.mark = e.side],
                                    [Blank EXCEPT !.bal = e.bal]>>
      [] style = "numbered"    -> <<[One(e) EXCEPT !.loose = <<Loose("narr", 777)>>]>>
      [] style = "lines"       -> <<[Blank EXCEPT !.date = e.date], Worded(A(e)),
                                    [Blank EXCEPT !.dr = AmountOf(e)], [Blank EXCEPT !.bal = e.bal]>>

Narration(e, style) ==
    IF style \in {"wrapped", "cut year", "split", "digits"} THEN A(e) \o B(e)
    ELSE IF style \in {"above", "type"} THEN B(e) \o A(e)
    ELSE IF style = "around" THEN B(e) \o A(e) \o <<10 * e.k + 3>>
    ELSE A(e)

\* What should be on the screen for it.
Printed(e, style) == [date |-> e.date, narr |-> Narration(e, style), dr |-> e.dr, cr |-> e.cr,
                    bal |-> IF style = "no balance" THEN None ELSE e.bal]

StylesOf ==
    [Sheet    |-> {"plain", "noise", "wrapped", "swapped", "signed", "no balance"},
     Page     |-> {"plain", "wrapped", "above", "type", "signed", "below", "own row", "cut year"},
     Headless |-> {"plain", "guessed", "signed", "wrapped"},
     Wealth   |-> {"above", "around", "label", "split"},
     Normal   |-> {"plain", "wrapped", "noise", "split", "both"},
     Idbi     |-> {"plain", "wrapped", "label", "digits", "split twice"},
     Idfc     |-> {"plain", "label", "split", "split twice", "digits"},
     Sbi      |-> {"plain", "label", "cut year", "digits", "both"},
     Union    |-> {"plain", "noise", "missing", "digits", "both"},
     Fixed    |-> {"plain", "swapped", "signed", "guessed"},
     Cosmos   |-> {"plain", "noise", "guessed"},
     Kotak    |-> {"anchored", "referenced"},
     Text     |-> {"plain", "wrapped", "signed", "numbered"},
     Lines    |-> {"lines"}]

\* What a layout cannot tell: a side before any balance is known, a word above the
\* first row of a page against one below the last transaction's.
Readable(reader, sides, styles, top) ==
    /\ styles[1] \notin {"swapped", "both", "missing", "type"}
    /\ styles[1] \in {"guessed", "no balance"} => top # "none"
    /\ \A k \in 2 .. Len(styles) :
         /\ reader = "Page" => styles[k] # "above"
         /\ styles[k] = "swapped" => styles[k - 1] # "no balance"
         /\ reader = "Wealth" /\ styles[k] = "split" => styles[k - 1] # "around"
    /\ reader = "Text" => styles[1] = "signed"
    /\ reader = "Lines" => sides[1] = "cr"

Header == [Blank EXCEPT !.narr = <<1>>, !.kind = "header"]
Summed(kind, bal) == [Blank EXCEPT !.narr = <<1>>, !.kind = kind, !.bal = bal]
Forward(reader) == IF reader = "Wealth" THEN [Blank EXCEPT !.date = 1, !.narr = <<1>>, !.bal = Start]
                   ELSE [Summed("opening", Start) EXCEPT !.date = 1]
FramesOf(reader) ==
    IF reader \in {"Sheet", "Page"} THEN {<<"none", "none">>, <<"above", "none">>, <<"row", "closing">>}
    ELSE IF reader \in {"Headless", "Fixed", "Cosmos"} THEN {<<"none", "none">>, <<"row", "closing">>}
    ELSE IF reader = "Wealth" THEN {<<"none", "none">>, <<"row", "stop">>}
    ELSE IF reader \in {"Normal", "Idbi", "Idfc"} THEN {<<"none", "none">>, <<"none", "stop">>}
    ELSE {<<"none", "none">>}

InOrder(parts) == LET upTo[k \in 0 .. Len(parts)] == IF k = 0 THEN <<>> ELSE upTo[k - 1] \o parts[k]
                  IN  upTo[Len(parts)]

\* What stands above and below the transactions.
AboveTable(reader, top, close) ==
    (IF top = "above" THEN <<Summed("opening", Start), Summed("closing", close)>> ELSE <<>>)
    \o (IF reader \in {"Sheet", "Page"} THEN <<Header>> ELSE <<>>)
    \o (IF top = "row" THEN <<Forward(reader)>> ELSE <<>>)
BelowTable(end, close) ==
    IF end = "none" THEN <<>>
    ELSE IF end = "closing" THEN <<[Summed("closing", close) EXCEPT !.date = 2]>>
    ELSE <<NoiseRow("stop"), [Blank EXCEPT !.date = 2, !.narr = <<1>>, !.cr = 100, !.bal = 100]>>

Statement(reader, es, styles, top, end, newest) ==
    LET listed == [k \in DOMAIN es |-> RowsOf(es[k], styles[k])]
        shown  == [k \in DOMAIN es |-> Printed(es[k], styles[k])]
        close  == es[Len(es)].bal
    IN  [reader |-> reader, misread |-> FALSE, newest |-> newest,
         rows   |-> AboveTable(reader, top, close) \o InOrder(IF newest \/ reader = "Idbi" THEN Reverse(listed) ELSE listed)
                    \o BelowTable(end, close),
         ledger |-> IF newest THEN Reverse(shown) ELSE shown,
         start  |-> Start,
         close  |-> IF end = "closing" \/ top = "above" THEN close ELSE None]

Clean == UNION {UNION {
            {Statement(reader, Booked(sides), styles, frame[1], frame[2], newest) :
                styles \in {s \in [1 .. Len(sides) -> StylesOf[reader]] : Readable(reader, sides, s, frame[1])},
                newest \in IF reader \in {"Text", "Lines"} /\ Len(sides) > 1 THEN BOOLEAN ELSE {FALSE}} :
            sides \in Orders, frame \in FramesOf(reader)} : reader \in DOMAIN StylesOf}

(***************************************************************************)
(* Scans with one number misread                                           *)
(***************************************************************************)
\* The k-th transaction's balance off by three thousand rupees, or its amount by thirty.
Misread(e, what) ==
    IF what = "bal" THEN [One(e) EXCEPT !.bal = @ + 300000]
    ELSE [One(e) EXCEPT !.dr = IF @ = None THEN @ ELSE @ + 3000, !.cr = IF @ = None THEN @ ELSE @ + 3000]
Scan(reader, sides, k, what) ==
    LET es == Booked(sides)
        listed == [j \in DOMAIN es |-> <<IF j = k THEN Misread(es[j], what) ELSE One(es[j])>>]
        shown  == [j \in DOMAIN es |-> Printed(es[j], "plain")]
    IN  [reader |-> reader, misread |-> TRUE, newest |-> FALSE,
         rows |-> InOrder(IF reader = "Idbi" THEN Reverse(listed) ELSE listed),
         ledger |-> shown, start |-> Start, close |-> None]
Scans == UNION {{Scan(reader, sides, k, what) : k \in 2 .. Len(sides),
                                                what \in IF reader = "Union" THEN {"bal", "amount"} ELSE {"bal"}} :
                  reader \in {"Idbi", "Idfc", "Sbi", "Union"}, sides \in Orders}

MCStatements == Clean \cup Scans
=============================================================================
