------------------------------ MODULE Books_MC ------------------------------
(* Three of the sheets that Statement_MC prints go on to the books, with     *)
(* narrations chosen for what the engines tell apart; and registers whose    *)
(* vouchers suit several transactions.                                       *)
EXTENDS Statement_MC, Layout_MC, Books

(***************************************************************************)
(* Words                                                                   *)
(***************************************************************************)
W(kind, holds, tokens) == [kind |-> kind, holds |-> holds, tokens |-> tokens, rest |-> <<>>]
Plain(w) == W("plain", {}, {w})
Brand(w) == W("plain", {w}, {w})
MCLexicon ==
    [UPI |-> W("skip", {"UPI"}, {}), NEFT |-> W("skip", {"UPI"}, {"NEFT"}),
     ACME |-> Plain("ACME"), TRADERS |-> Plain("TRADERS"), ASHOK |-> Plain("ASHOK"), KUMAR |-> Plain("KUMAR"),
     KUMA |-> Plain("KUMA"), LTD |-> W("plain", {}, {}), REFUND |-> Plain("REFUND"), STAMPS |-> Plain("STAMPS"),
     AIRTEL |-> Brand("AIRTEL"), SWIGGY |-> Brand("SWIGGY"), RENT |-> Brand("RENT"), IGST |-> Brand("IGST"),
     INTEREST |-> W("plain", {"INT CR"}, {"INTEREST"}), CASHWDL |-> W("skip", {"ATM WDL", "ATM", "CASH"}, {"CASH"}),
     GLUED |-> [kind |-> "glued", holds |-> {"UPI", "COFFEE"}, tokens |-> {}, rest |-> <<"COFFEE">>],
     COFFEE |-> Brand("COFFEE"), N1 |-> W("digits", {}, {}), N2 |-> W("digits", {}, {})]

MCDictionary    == [AIRTEL |-> <<"AIRTEL">>, SWIGGY |-> <<"SWIGGY">>]
MCNoise         == {"LTD"}
MCBusiness      == {"TRADERS", "EXPENSE"}
MCBefore        == {<<"ACME", "TRADERS">>, <<"ASHOK", "KUMAR">>, <<"ASHOK", "KUMA">>, <<"FOOD", "RENT">>,
                    <<"KUMA", "KUMAR">>, <<"KUMAR", "LANDLORD">>, <<"KUMA", "LANDLORD">>,
                    <<"ASHOK", "LANDLORD">>, <<"HDFC", "LEDGER">>}
MCStartsWith    == {<<"KUMA", "KUMAR">>}
MCCategoryWords == {"EXPENSE", "INCOME", "RENT", "CASH", "INTEREST", "DEBTORS", "CREDITORS", "CHARGES"}
Hdfc            == <<"HDFC">>
CashLedger      == <<"CASH">>
HdfcAccount     == <<"HDFC", "ACCOUNT">>
CapitalLedger   == <<"CAPITAL", "ACCOUNT">>

(***************************************************************************)
(* Narrations                                                              *)
(***************************************************************************)
Says(text)       == [text |-> text, ref |-> Empty]
Ref(text, ref)   == [text |-> text, ref |-> ref]
Three(a, b, c)   == [narr \in {<<11>>, <<21>>, <<31>>} |-> IF narr = <<11>> THEN a ELSE IF narr = <<21>> THEN b ELSE c]
Upi(name)        == <<<<"UPI">>, <<"N1">>, name>>
MCMeanings == {
    \* Names in any order, shortened, with noise.
    Three(Says(Upi(<<"ASHOK", "KUMAR">>)), Says(Upi(<<"KUMAR", "ASHOK">>)), Says(Upi(<<"ASHOK", "KUMA">>))),
    Three(Says(Upi(<<"ACME", "TRADERS">>)), Says(Upi(<<"TRADERS", "ACME">>)), Says(Upi(<<"ACME", "TRADERS", "LTD">>))),
    \* A repeat, a resemblance, a payment and the refund with its number.
    Three(Says(<<<<"NEFT", "ACME", "TRADERS">>>>), Says(<<<<"RENT", "ACME">>>>), Says(<<<<"RENT", "ACME">>>>)),
    Three(Says(<<<<"RENT", "ACME">>>>), Says(<<<<"ACME", "RENT", "KUMAR">>>>), Says(<<<<"ACME", "RENT", "STAMPS">>>>)),
    Three(Ref(Upi(<<"ACME">>), "N2"), Ref(<<<<"REFUND">>>>, "N2"), Ref(<<<<"STAMPS">>>>, "N2")),
    \* Keywords on either side, tax, cash, a glued reference, a reference in the middle.
    Three(Says(<<<<"AIRTEL", "IGST">>>>), Says(<<<<"SWIGGY">>>>), Says(<<<<"AIRTEL">>>>)),
    Three(Says(<<<<"CASHWDL">>>>), Says(<<<<"INTEREST">>>>), Says(<<<<"STAMPS">>>>)),
    Three(Says(<<<<"GLUED">>>>), Says(<<<<"GLUED">>>>), Says(<<<<"UPI", "N1", "COFFEE">>>>)) }

(***************************************************************************)
(* Statements that go on                                                   *)
(***************************************************************************)
Sheet3(sides, amounts) == Statement("Sheet", Ledger(sides, amounts), <<"plain", "plain", "plain">>, "row", "closing", FALSE)
\* Two movements of the same amount on the same day; the same amount on two days.
Sheets == {Sheet3(<<"cr", "dr", "dr">>, <<20000, 35000, 35000>>), Sheet3(<<"dr", "cr", "dr">>, <<20000, 20000, 90000>>)}
AllStatements == MCStatements \cup Sheets
\* One sheet and one page are laid out in every way, the others in the usual one.
Specimens     == {CHOOSE s \in MCStatements : s.reader = reader /\ Len(s.ledger) = 1 : reader \in {"Sheet", "Page"}}
MCPagesOf(s)  == IF s \in Specimens THEN {p \in MCPages : (p.kind = "sheet") = (s.reader = "Sheet")} ELSE {Usual}
MCRuleBooks == {<<>>, <<[key |-> <<"ACME">>, vendor |-> <<"ACME", "TRADERS">>, head |-> <<"KUMAR", "ASHOK">>,
                         type |-> "", client |-> FALSE]>>}
MCSettings  == {[gst |-> TRUE, ledgers |-> TRUE, dedupe |-> TRUE]}
Edit(vendor, head, type) == [vendor |-> vendor, head |-> head, type |-> type]
MCEdits     == {Edit(<<"KUMAR", "ASHOK">>, <<>>, ""), Edit(<<>>, <<"HDFC">>, "Receipt")}
Extra(date, text, dr, cr, type) == [date |-> date, text |-> text, dr |-> dr, cr |-> cr, type |-> type]
MCExtras    == {Extra(0, <<<<"STAMPS">>>>, 5000, Empty, "Unknown"), Extra(3, <<<<"CASHWDL">>>>, Empty, 20000, "Receipt"),
                Extra(-1, <<>>, Empty, Empty, "Payment")}
Ask(software, from, classified, skipLow, start) ==
    [software |-> software, from |-> from, to |-> Empty, classified |-> classified, skipLow |-> skipLow,
     ob |-> start, ledgers |-> TRUE, gst |-> TRUE]
MCOptions   == {Ask(s, Empty, FALSE, FALSE, FALSE) : s \in {"Tally", "Zoho", "QuickBooks", "Odoo", "Csv", "Xml"}}
               \cup {Ask("Tally", 2, FALSE, FALSE, TRUE), Ask("Zoho", 2, FALSE, TRUE, FALSE),
                     Ask("Tally", Empty, TRUE, FALSE, TRUE)}

(***************************************************************************)
(* Registers                                                               *)
(***************************************************************************)
MCTokens == UNION {MCLexicon[w].tokens : w \in DOMAIN MCLexicon}
MCRefs   == {"N1", "N2", "AIRTEL"}
Heads    == <<{"date"}, {"particular"}, {"voucher"}, {"debit"}, {"credit"}>>
MCRegisters == {
    [heads |-> Heads, rows |-> <<<<1, {"ACME"}, "N2", 20000, Nil>>, <<2, {"RENT", "ACME"}, Nil, 35000, Nil>>,
                                 <<3, {"STAMPS"}, "N2", Nil, 35100>>>>],
    [heads |-> Heads, rows |-> <<<<2, {"ASHOK", "KUMAR"}, Nil, 20100, Nil>>, <<1, {"ASHOK"}, Nil, 20000, Nil>>>>],
    [heads |-> <<{"date"}>>, rows |-> <<>>] }
MCLoaded == UNION {{[k \in DOMAIN s.ledger |-> [date |-> s.ledger[k].date, amount |-> Value(s.ledger[k]), ref |-> m[s.ledger[k].narr].ref,
                     narr |-> UNION {MCLexicon[w].tokens : w \in UNION {Range(part) : part \in Range(m[s.ledger[k].narr].text)}}]] :
                     m \in MCMeanings} : s \in Sheets}
=============================================================================
