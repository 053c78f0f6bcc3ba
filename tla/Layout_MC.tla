------------------------------ MODULE Layout_MC ------------------------------
(* Pages: the labels of several banks turned round and at several distances, *)
(* labels in two halves, a page without labels, sheets with labels nobody    *)
(* knows, amounts that begin left or right of their label, and what pages,   *)
(* files and narrations (in payment references and outside) say of banks.    *)
EXTENDS Layout

MCChars ==
    [date |-> 4, dt |-> 2, txn |-> 3, value |-> 5, transaction |-> 11, narration |-> 9, description |-> 11,
     particulars |-> 11, details |-> 7, remarks |-> 7, ref |-> 3, erence |-> 6, no |-> 2, chq |-> 3, cheque |-> 6,
     id |-> 2, debit |-> 5, dr |-> 2, cr |-> 2, edit |-> 4, withdrawal |-> 10, deposit |-> 7, amt |-> 3,
     amount |-> 6, bal |-> 3, ance |-> 4, closing |-> 7, total |-> 5, statement |-> 9, count |-> 5, type |-> 4]
    @@ (" " :> 1) @@ ("/" :> 1) @@ ("(" :> 1) @@ (")" :> 1) @@ ("(rs)" :> 3)
(***************************************************************************)
(* Labels                                                                  *)
(***************************************************************************)
H(of, text) == [of |-> of, text |-> text]
Dated_(text) == H("date", text)
Full == <<H("date", <<"date">>), H("narration", <<"narration">>), H("reference", <<"chq", "/", "ref", " ", "no">>),
          H("", <<"value", " ", "dt">>), H("debit", <<"withdrawal", " ", "amt">>), H("credit", <<"deposit", " ", "amt">>),
          H("balance", <<"closing", " ">> \o BalanceWord)>>
Five == <<H("date", <<"txn", " ", "date">>), H("narration", <<"description">>), H("debit", <<"debit">>),
          H("credit", CreditWord), H("balance", BalanceWord)>>
Short == <<H("date", <<"date">>), H("narration", <<"details">>), H("", <<"type">>), H("debit", <<"dr">>), H("credit", <<"cr">>),
           H("balance", <<"bal">>)>>
Joint == <<H("date", <<"transaction", " ", "dt">>), H("narration", <<"transaction", " ", "details">>),
           H("reference", <<"transaction", " ", "id">>), H("debitcredit", <<"debit", "/">> \o CreditWord), H("balance", BalanceWord)>>
Unlisted == <<H("date", <<"date", " ", "(", "dt", ")">>), H("narration", <<"particulars", " ", "/", "remarks">>),
              H("reference", <<"txn", " ", "no", "/", "id">>), H("debit", <<"withdrawal", " ", "amt", "(rs)">>),
              H("credit", <<"deposit", " ", "amt", "(rs)">>), H("balance", <<"total", " ", "amount", "(rs)">>)>>
\* Labels left out or unknown.
Nameless == <<H("date", <<"date">>), H("narration", <<"type">>), H("debit", <<"amount", " ", "debit">>),
              H("credit", <<"amount", " ">> \o CreditWord), H("balance", <<>>)>>

Turned_(heads, k) == [j \in DOMAIN heads |-> heads[((j + k) % Len(heads)) + 1]]
Orders_(heads) == {Turned_(h, k) : h \in {heads, Reverse(heads)}, k \in DOMAIN heads}
AllOrders(heads) == {[j \in DOMAIN heads |-> heads[p[j]]] : p \in Permutations(DOMAIN heads)}

(***************************************************************************)
(* Rows                                                                    *)
(***************************************************************************)
Item(x, w, text, is, of) == [x |-> x, w |-> w, text |-> text, is |-> is, of |-> of]
Holding == [date |-> "date", narration |-> "words", reference |-> "number", debit |-> "amount", credit |-> "amount",
            debitcredit |-> "amount", balance |-> "amount"] @@ ("" :> "date")
\* What stands under a label in the k-th line: amounts are shifted, and narrations have two words.
Below_(h, x, k, shift, marked) ==
    IF h.of = (IF k % 2 = 0 THEN "debit" ELSE "credit") THEN <<>>
    ELSE IF h.of = "narration" /\ marked THEN <<Item(x, 10, <<>>, "words", h.of), Item(x + 20, 10, <<>>, "words", h.of)>>
    ELSE IF h.of = "balance" /\ marked /\ k = 1 THEN <<Item(x - 9, 5, <<>>, "sign", h.of), Item(x + 9, 20, <<>>, "amount", h.of)>>
    ELSE IF h.of \in Monetary THEN <<Item(x + shift, 20, <<>>, "amount", h.of)>>
    ELSE <<Item(x, 20, <<>>, Holding[h.of], h.of)>>
LineOf(heads, xs, k, shift, marked) == FlattenSeq([j \in DOMAIN heads |-> Below_(heads[j], xs[j], k, shift, marked)])
LabelRow(heads, xs, w) == [j \in DOMAIN heads |-> Item(xs[j], w, heads[j].text, "label", heads[j].of)]

Cells(heads) == [j \in DOMAIN heads |-> j]
Every(step, heads) == [j \in DOMAIN heads |-> step * j]
\* Rows above the table that look a little like labels.
Decoys == {<<>>, <<<<Item(1, 50, <<"statement", " ", "date">>, "label", ""), Item(2, 50, <<"dr", " ", "count">>, "label", "")>>>>}

Page_(kind, rows, says) == [kind |-> kind, rows |-> rows, above |-> says.above, within |-> says.within,
                            file |-> says.file, bank |-> says.bank]
M(kind, bank, paid) == [kind |-> kind, bank |-> bank, paid |-> paid]
Says_(above, within, file) == [above |-> above, within |-> within, file |-> file, bank |-> "own"]
Letterhead == Says_(<<M("name", "own", FALSE)>>, <<>>, <<>>)

SheetPage(heads, above, says) ==
    Page_("sheet", above \o <<LabelRow(heads, Cells(heads), 1)>>
                   \o [k \in 1 .. 3 |-> LineOf(heads, Cells(heads), k, 0, FALSE)], says)
PdfPage(heads, xs, w, shift, says) ==
    Page_("pdf", <<<<Item(100, 50, <<"statement">>, "label", "")>>, LabelRow(heads, xs, w)>>
                 \o [k \in 1 .. 3 |-> LineOf(heads, xs, k, shift, TRUE)], says)

SheetPages == {SheetPage(h, <<>>, Letterhead) : h \in AllOrders(Five) \cup Orders_(Nameless) \cup Orders_(Full) \cup Orders_(Short)}
              \cup {SheetPage(h, above, Letterhead) : h \in Orders_(Joint) \cup Orders_(Unlisted) \cup {Full, Short}, above \in Decoys}
\* Labels 100 points apart, or so near that all of them look like one.
PdfPages == {PdfPage(h, Every(100, h), w, shift, Letterhead) : w \in {50, 70}, shift \in {-50, 49},
               h \in UNION {Orders_(heads) : heads \in {Five, Joint, Unlisted, Full, Short}}}

\* A label in two items, the second 40 points from the first, and amounts left of it,
\* under its first half and under its second.
Halved(first) == <<<<H("date", <<"date">>)>>, <<H("narration", <<"narration">>)>>,
                   <<H("debitcredit", first), H("", CreditWord \o <<"(rs)">>)>>, <<H("balance", BalanceWord)>>>>
SplitPage(heads, shift) ==
    LET xs == [j \in DOMAIN heads |-> 100 * j - IF heads[j].of = "" THEN 60 ELSE 0]
    IN  Page_("pdf", <<[LabelRow(heads, xs, 30) EXCEPT ![CHOOSE j \in DOMAIN heads : heads[j].of = ""].of = "debitcredit"]>>
                     \o [k \in 1 .. 3 |-> SelectSeq(LineOf(heads, xs, k, shift, TRUE), LAMBDA it : it.of # "")], Letterhead)
HalvedPages == {SplitPage(FlattenSeq(groups), shift) : shift \in {-50, 0, 19, 25},
                  groups \in UNION {Orders_(Halved(first)) : first \in {<<"debit", "/", "(rs)">>, <<"debit", "/">>}}}

\* No labels: columns 100 points apart, give or take a few.
Bare_(marked, k, wide) ==
    LET jitter == IF k % 2 = 0 THEN 4 ELSE -5
        item(j, is, of) == Item(100 * j + jitter, 20, <<>>, is, of)
    IN  <<item(1, "date", "date"), item(2, "words", "narration")>>
        \o (IF wide THEN <<item(3, "number", "reference")>> ELSE <<>>)
        \o <<IF k % 2 = 0 THEN item(4, "amount", "debit") ELSE item(5, "amount", "credit"),
             item(6, IF marked THEN "marked" ELSE "amount", "balance")>>
BarePages == {Page_("pdf", [k \in 1 .. 4 |-> Bare_(marked, k, wide)], Letterhead) : marked, wide \in BOOLEAN}
Fixed_ == Page_("pdf", [k \in 1 .. 6 |-> <<Item(10, 300, <<>>, "words", "")>>], Letterhead)

(***************************************************************************)
(* Banks                                                                   *)
(***************************************************************************)
Own(kind)     == <<M(kind, "own", FALSE)>>
Other(kind)   == M(kind, "other", TRUE)
\* What payment references hold of other banks, and narrations outside a reference.
Named_(kind)  == <<M(kind, "other", FALSE)>>
Payments == {<<>>, <<Other("ifsc"), Other("ifsc")>>, <<Other("name")>>, <<Other("domain")>>,
             <<Other("abbrev"), Other("labelled"), Other("labelled")>>,
             <<Other("name"), Other("ifsc"), Other("ifsc"), M("ifsc", "third", TRUE), M("ifsc", "third", TRUE)>>}
            \cup {Named_(kind) : kind \in {"name", "abbrev", "domain", "labelled"}}
Evidence == {Says_(above, within, file) : within \in Payments, file \in {<<>>, Own("name"), Own("abbrev"), Own("blurred")},
               above \in {<<>>} \cup {Own(kind) : kind \in {"labelled", "ifsc", "domain", "name", "abbrev", "blurred"}}}
Told == {e \in Evidence : e.above # <<>> \/ e.file # <<>>}
\* On a page without labels nothing is a header.
ToldBare == {e \in Told : e.file # <<>> \/ e.above[1].kind \in {"domain", "name"}}
Small(above, says) == LET heads == <<H("date", <<"date">>), H("narration", <<"narration">>), H("debit", <<"dr">>)>>
                      IN  Page_("sheet", above \o <<LabelRow(heads, Cells(heads), 1), LineOf(heads, Cells(heads), 1, 0, FALSE)>>, says)
EvidencePages == {Small(<< <<>> >>, e) : e \in Told}
                 \cup {Page_("pdf", [k \in 1 .. 2 |-> Bare_(TRUE, k, FALSE)], e) : e \in ToldBare}

MCPages == SheetPages \cup PdfPages \cup HalvedPages \cup BarePages \cup {Fixed_} \cup EvidencePages
Usual   == Small(<<>>, Says_(<<>>, <<>>, Own("name")))
MCCoded   == {"own", "other"}
MCTried == <<"other", "own">>
=============================================================================
