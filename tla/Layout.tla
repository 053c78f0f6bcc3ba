------------------------------- MODULE Layout -------------------------------
(***************************************************************************)
(* Where the columns of a statement are, and which bank issued it.         *)
(*                                                                         *)
(* A page is rows of items, each at an x position (in a sheet, its column) *)
(* and, in a row of labels, with a text.  The parser looks for the row of  *)
(* labels, or tells the columns from what stands in them, and then reads   *)
(* every item under the label it belongs to (parser/column_detector.rs and *)
(* the sheet parser's detect_cols_from_content).  Once the transactions    *)
(* are read, bank_detection.rs weighs what the page, the file's name and   *)
(* the narrations say of banks.                                            *)
(*                                                                         *)
(* A text is a sequence of fragments that the patterns are made of, so     *)
(* that what a string starts with, ends with or contains is what its       *)
(* sequence does.  What names a bank is a mention.                         *)
(***************************************************************************)
EXTENDS Integers, Sequences, SequencesExt, FiniteSets

CONSTANTS
    Unseen,    \* not looked for yet
    Chars,     \* the number of characters of a fragment
    Coded,     \* IFSC_MAP: the banks whose IFSC prefix is known
    Tried      \* STRUCT_PATTERNS: the banks in the order their domains are tried

VARIABLES
    page,      \* [kind, rows, above, within, file, bank]
    columns,   \* how the columns were found, where their labels are, their x
    issuer     \* [bank, conf]

lvars == <<page, columns, issuer>>

Leading(s, n) == SubSeq(s, 1, Min({n, Len(s)}))

LayoutInit == columns = Unseen /\ issuer = Unseen

(***************************************************************************)
(* Labels                                                                  *)
(***************************************************************************)
AssignOrder == <<"date", "balance", "debitcredit", "debit", "credit", "narration", "reference">>
SideFields  == {"debit", "credit", "debitcredit"}
Monetary    == SideFields \cup {"balance"}

\* The tables' labels that differ in how they begin, end and hold one another.
CreditWord  == <<"cr", "edit">>
BalanceWord == <<"bal", "ance">>
DateLabels      == {<<"date">>, <<"dt">>, <<"txn", " ", "date">>, <<"transaction", " ", "date">>, <<"value", " ", "date">>,
                    <<"value", " ", "dt">>, <<"transaction", " ", "dt">>}
NarrationLabels == {<<"narration">>, <<"description">>, <<"particulars">>, <<"details">>, <<"remarks">>,
                    <<"transaction", " ", "remarks">>, <<"transaction", " ", "details">>}
ReferenceLabels == {<<"ref", "erence">>, <<"ref">>, <<"ref", " ", "no">>, <<"chq", "/", "ref", " ", "no">>,
                    <<"cheque", " ", "no">>, <<"transaction", " ", "id">>, <<"txn", " ", "no">>}
DebitLabels     == {<<"debit">>, <<"dr">>, <<"withdrawal">>, <<"withdrawal", " ", "amt">>, <<"dr", " ", "amount">>,
                    <<"withdrawal", " ", "(", "dr", ")">>, <<"amount", " ", "debit">>}
CreditLabels    == {CreditWord, <<"cr">>, <<"deposit">>, <<"deposit", " ", "amt">>, <<"cr", " ", "amount">>,
                    <<"deposit", " ", "(", "cr", ")">>, <<"amount", " ">> \o CreditWord}
BalanceLabels   == {BalanceWord, <<"bal">>, <<"closing", " ">> \o BalanceWord, <<"total", " ", "amount">>}
JointLabels     == {<<"debit", "/">> \o CreditWord, <<"debit", " ", "/", " ">> \o CreditWord, <<"dr", "/", "cr">>,
                    <<"debit", "/">> \o CreditWord \o <<"(rs)">>}
Patterns == [date |-> DateLabels, narration |-> NarrationLabels, reference |-> ReferenceLabels, debit |-> DebitLabels,
             credit |-> CreditLabels, balance |-> BalanceLabels, debitcredit |-> JointLabels]

Length(text)   == LET upTo[k \in 0 .. Len(text)] == IF k = 0 THEN 0 ELSE upTo[k - 1] + Chars[text[k]]
                  IN  upTo[Len(text)]
Holds(text, p) == \E k \in 0 .. Len(text) - Len(p) : SubSeq(text, k + 1, k + Len(p)) = p

\* score_cell: the best any pattern of the field gives, 0 when none does.
Fits(text, p, points) ==
    CASE points = 100 -> text = p
      [] points = 60  -> IsPrefix(p, text)
      [] points = 40  -> IsSuffix(p, text)
      [] points = 20  -> Length(p) >= 4 /\ Holds(text, p)
      [] points = 10  -> Length(text) >= 4 /\ IsPrefix(text, p)
Points(text, field) ==
    IF Range(text) \subseteq {" "} \/ Length(text) < 2 THEN 0
    ELSE Max({0} \cup {points \in {100, 60, 40, 20, 10} : \E p \in Patterns[field] : Fits(text, p, points)})

\* The fields an item may head, and the best of some candidates: the first of equals.
Candidates(items) ==
    {c \in {[at |-> k, x |-> items[k].x, field |-> field, points |-> Points(items[k].text, field)] :
             k \in DOMAIN items, field \in Range(AssignOrder)} : c.points >= 10}
Leader(S) == CHOOSE c \in S : \A d \in S : c.points > d.points \/ (c.points = d.points /\ c.at <= d.at)
For(S, field) == {c \in S : c.field = field}

\* A part of a combined label must not take the column a plain Debit or Credit heads.
Steals(c, plain) == c.field = "debitcredit" /\ c.points < 100
                    /\ \E d \in plain : d.x = c.x /\ d.points = 100

\* detect_excel_cols: each field in turn takes the best cell that is left.
SheetFields(row) ==
    LET all   == Candidates(row)
        plain == For(all, "debit") \cup For(all, "credit")
        take(found, field) ==
          LET left == {c \in For(all, field) : c.x \notin Range(found) /\ ~Steals(c, plain)}
          IN  IF left = {} THEN found ELSE found @@ (field :> Leader(left).x)
    IN  FoldLeft(take, <<>>, AssignOrder)

\* merge_adjacent_items: what stands closer than 40 points is one label.
Merged(row) ==
    LET join(a, b) == [a EXCEPT !.text = @ \o <<" ">> \o b.text, !.w = b.x + b.w - a.x]
        add(out, it) == IF out # <<>> /\ it.x - (Last(out).x + Last(out).w) <= 40
                        THEN Append(Front(out), join(Last(out), it)) ELSE Append(out, it)
    IN  FoldLeft(add, <<>>, row)

\* "DEBIT/" and "CREDIT" next to each other head one column.
Compound(row, found) ==
    LET word(x) == LET at == {k \in DOMAIN row : row[k].x - x \in -14 .. 14}
                   IN  IF at = {} THEN <<>> ELSE row[Min(at)].text
    IN  /\ {"debit", "credit"} \subseteq DOMAIN found
        /\ found["credit"] - found["debit"] \in -119 .. 119
        /\ Holds(word(found["debit"]), <<"debit">>) /\ Holds(word(found["debit"]), <<"/">>)
        /\ Holds(word(found["credit"]), CreditWord)
        /\ \A side \in {"debit", "credit"}, w \in {"withdrawal", "deposit"} : ~Holds(word(found[side]), <<w>>)

\* find_pdf_header: each field has one candidate, the first of the best items.
PageFields(row) ==
    LET all   == Candidates(row \o Merged(row))
        tops  == {Leader(For(all, c.field)) : c \in all}
        plain == For(tops, "debit") \cup For(tops, "credit")
        take(found, field) ==
          LET left == {c \in For(tops, field) : c.x \notin Range(found) /\ ~Steals(c, plain)}
          IN  IF left = {} THEN found ELSE found @@ (field :> Leader(left).x)
    IN  FoldLeft(take, <<>>, AssignOrder)
Joined(row, found) ==
    IF Compound(row, found)
    THEN [f \in (DOMAIN found \ {"debit", "credit"}) \cup {"debitcredit"} |->
            IF f = "debitcredit" THEN Min({found["debit"], found["credit"]}) ELSE found[f]]
    ELSE found

Half(found)  == "date" \in DOMAIN found /\ DOMAIN found \cap SideFields # {}
Whole(found) == Half(found) /\ "narration" \in DOMAIN found

(***************************************************************************)
(* Contents                                                                *)
(***************************************************************************)
\* detect_cols_from_content: what the labels left open, from three to fifteen rows.
FromContent(rows, found) ==
    LET sample == Leading(SelectSeq(rows, LAMBDA r : r # <<>>), 15)
        cols   == {it.x : it \in UNION {Range(r) : r \in Range(sample)}}
        items(c)   == SelectSeq(FlattenSeq(sample), LAMBDA it : it.x = c)
        numeric == {"amount", "number"}
        count(c, kinds) == Len(SelectSeq(items(c), LAMBDA it : it.is \in kinds))
        free(f, kinds, tenths) == {c \in cols \ Range(f) : count(c, kinds) * 10 > Len(items(c)) * tenths}
        long(c)  == (FoldSeq(LAMBDA it, n : n + it.w, 0, items(c)) * 100) \div Len(items(c))
        rank(field, c) == CASE field = "date"      -> count(c, {"date"})
                            [] field = "balance"   -> count(c, numeric)
                            [] field = "narration" -> long(c)
        open(f, field) == CASE field = "date"      -> free(f, {"date"}, 5)
                            [] field = "balance"   -> free(f, numeric, 7)
                            [] field = "sides"     -> free(f, numeric, 3)
                            [] field = "narration" -> free(f, {"words"}, 3)
        most(S, field) == CHOOSE c \in S : \A d \in S : rank(field, c) > rank(field, d)
                                                        \/ (rank(field, c) = rank(field, d) /\ c >= d)
        sides(S) == ("debit" :> Min(S)) @@ (IF Cardinality(S) = 1 THEN <<>> ELSE "credit" :> Min(S \ {Min(S)}))
        full(f, field) == DOMAIN f \cap (IF field = "sides" THEN {"debit", "credit"} ELSE {field}) # {}
        fill(f, field) == IF full(f, field) \/ open(f, field) = {} THEN f
                          ELSE f @@ IF field = "sides" THEN sides(open(f, field)) ELSE field :> most(open(f, field), field)
    IN  IF Len(sample) < 3 THEN found ELSE FoldLeft(fill, found, <<"date", "balance", "sides", "narration">>)

\* infer_header_from_data: a page without labels, told from the rows that start with a date.
Inferred(rows) ==
    LET dated == Leading(SelectSeq(Leading(rows, 40), LAMBDA r : r # <<>> /\ r[1].is = "date"), 12)
        items == FlattenSeq(dated)
        bucket(it)  == ((it.x + 5) \div 10) * 10
        buckets     == {bucket(it) : it \in Range(items)}
        count(b, is) == Len(SelectSeq(items, LAMBDA it : bucket(it) = b /\ it.is = is))
        dates   == {b \in buckets : count(b, "date") >= 2}
        date    == Min(dates)
        marked  == {b \in buckets : count(b, "marked") >= 1}
        amounts == {b \in buckets : count(b, "amount") >= 1 /\ count(b, "number") = 0 /\ b > date}
        balance == IF marked # {} THEN {Max(marked)} ELSE IF amounts # {} THEN {Max(amounts)} ELSE {}
        rest    == amounts \ balance
        credit  == IF Cardinality(rest) >= 2 THEN {Max(rest)} ELSE {}
        debit   == IF rest = {} THEN {} ELSE {Max(rest \ credit)}
        before(S, x) == {b \in S : b > x /\ \A m \in debit \cup credit \cup balance : b < m}
        words   == before({b \in buckets : count(b, "words") >= 2}, date)
        numbers == before({b \in buckets : count(b, "number") >= 1}, IF words = {} THEN date ELSE Min(words))
        column(field, S) == IF S = {} THEN <<>> ELSE field :> Min(S)
    IN  IF Len(dated) < 2 \/ Cardinality(buckets) < 2 \/ dates = {} \/ rest = {} THEN <<>>
        ELSE column("date", dates) @@ column("balance", balance) @@ column("debit", debit)
             @@ column("credit", credit) @@ column("narration", words) @@ column("reference", numbers)

\* is_fw_format: in most of the first rows everything starts at one place.
FixedWidth(rows) ==
    LET check == Leading(SelectSeq(rows, LAMBDA r : r # <<>>), 30)
        line(r) == \A i, j \in DOMAIN r : r[i].x - r[j].x < 5
    IN  Len(check) >= 5 /\ Len(SelectSeq(check, line)) * 100 >= Len(check) * 85

(***************************************************************************)
(* Columns                                                                 *)
(***************************************************************************)
Labelled(how, at, x) == [how |-> how, at |-> at, x |-> x]
NoColumns == Labelled("none", 0, <<>>)

\* What the rows say when each is taken for the labels, and the first of some of them.
LabelRows(fields) == {[at |-> k, x |-> fields[k]] : k \in DOMAIN fields}
Firsts(heads) == {h \in heads : \A g \in heads : h.at <= g.at}

SheetColumns(rows) ==
    LET top   == Leading(rows, 50)
        heads == LabelRows([k \in DOMAIN top |-> SheetFields(top[k])])
        half  == {h \in heads : Half(h.x)}
        best(some) == IF \E h \in some : Whole(h.x) THEN Firsts({h \in some : Whole(h.x)}) ELSE Firsts(some)
    IN  IF half = {} THEN {NoColumns}
        ELSE {Labelled("cells", h.at, FromContent(SubSeq(rows, h.at + 1, Len(rows)), h.x)) : h \in best(half)}

PageColumns(rows) ==
    LET top   == Leading(rows, 60)
        heads == LabelRows([k \in DOMAIN top |-> PageFields(top[k])])
        whole == {h \in {[h EXCEPT !.x = Joined(top[h.at], @)] : h \in heads} : Whole(h.x)}
        untold == IF FixedWidth(rows) THEN Labelled("fixed", 0, <<>>) ELSE NoColumns
    IN  IF whole # {} THEN {Labelled("header", h.at, h.x) : h \in Firsts(whole)}
        ELSE {IF told # <<>> THEN Labelled("inferred", 0, told) ELSE untold : told \in {Inferred(rows)}}

\* Mutant: only the columns that were recognised limit each other.
Fences_Mapped(c, rows) == Range(c.x)
\* calc_col_boundaries: every label of the header row is a fence, known or not.
Fences(c, rows) == IF c.how = "header" THEN {it.x : it \in Range(rows[c.at])} ELSE Range(c.x)
Below(c, rows, field, it) ==
    LET x      == c.x[field]
        middle(a) == (a + x + 1) \div 2
        left   == {w \in Fences(c, rows) : w < x}
        right  == {w \in Fences(c, rows) : w > x}
    IN  IF c.how = "cells" THEN it.x = x
        ELSE /\ left = {} \/ it.x >= middle(Max(left))
             /\ right = {} \/ it.x < middle(Min(right))

\* assign_cells: of several amounts the last one, unless a sign belongs to it; of
\* several dates the first.
CellOf(c, rows, field, row) ==
    LET under   == SelectSeq(row, LAMBDA it : Below(c, rows, field, it))
        amounts == SelectSeq(under, LAMBDA it : it.is \in {"amount", "marked"})
        dates   == SelectSeq(under, LAMBDA it : it.is = "date")
        signed  == Len(amounts) = 1 /\ \A it \in Range(under) : it.is \in {"amount", "sign"}
    IN  IF Len(under) <= 1 \/ c.how = "cells" THEN under
        ELSE IF field \in Monetary /\ amounts # <<>> /\ ~signed THEN <<Last(amounts)>>
        ELSE IF field = "date" THEN <<IF dates # <<>> THEN dates[1] ELSE under[1]>>
        ELSE under

FindColumns ==
    /\ columns = Unseen
    /\ columns' \in IF page.kind = "sheet" THEN SheetColumns(page.rows) ELSE PageColumns(page.rows)
    /\ UNCHANGED <<page, issuer>>

(***************************************************************************)
(* The bank                                                                *)
(***************************************************************************)
Hit(bank, conf) == [bank |-> bank, conf |-> conf]
Nothing         == Hit("", 0)
OfKind(text, kinds) == SelectSeq(text, LAMBDA m : m.kind \in kinds)
FirstOf(text, conf) == IF text = <<>> THEN Nothing ELSE Hit(text[1].bank, conf)

\* The kinds of mentions: codes, abbreviations (misread ones too), domains, names.
Codes     == {"labelled", "ifsc"}
Shortened == {"abbrev", "blurred"}
Addresses == {"domain"}
Names     == {"name"}
Known(m)  == m.bank \in Coded

\* The first labelled IFSC, else any whose prefix is known.
ByIfsc(text) ==
    LET labelled == OfKind(text, {"labelled"})
    IN  IF labelled # <<>> /\ Known(labelled[1]) THEN FirstOf(labelled, 98)
        ELSE FirstOf(SelectSeq(OfKind(text, Codes), Known), 80)

\* A domain or an address, in the order of the table.
ByStructure(text) ==
    LET at == {k \in DOMAIN Tried : \E m \in Range(text) : m.kind \in Addresses /\ m.bank = Tried[k]}
    IN  IF at = {} THEN Nothing ELSE Hit(Tried[Min(at)], 95)

ByPhrase(text) == FirstOf(OfKind(text, Names), 95)
ByFuzzy(text)  == LET m == OfKind(text, Shortened)
                  IN  FirstOf(m, IF m # <<>> /\ m[1].kind = "abbrev" THEN 85 ELSE 72)
Atmost(hit, conf) == [hit EXCEPT !.conf = Min({@, conf})]
ByFilename(name)  == Atmost(IF ByPhrase(name) # Nothing THEN ByPhrase(name) ELSE ByFuzzy(name), 65)

\* The IFSC prefix that repeats in the narrations; one of them on a tie.
ByNarrations(text) ==
    LET codes  == OfKind(Leading(text, 50), Codes)
        times(b) == Len(SelectSeq(codes, LAMBDA m : m.bank = b))
        banks  == {m.bank : m \in Range(codes)}
        most   == {b \in banks : \A d \in banks : times(b) >= times(d)}
    IN  IF banks = {} THEN {Nothing}
        ELSE {IF times(b) >= 2 /\ b \in Coded THEN Hit(b, 55) ELSE Nothing : b \in most}

\* Mutant: what stands in payment references counts as the page's own text.
WithoutReferences_All(text) == text
\* strip_transaction_references
WithoutReferences(text) == SelectSeq(text, LAMBDA m : ~m.paid)

Stronger(r, hit) == IF hit.conf > r.conf THEN hit ELSE r
Unless(r, conf, hit) == IF r.conf >= conf THEN r ELSE Stronger(r, hit)

\* detect: from the strongest evidence to the weakest.
Issuers(head, text, file, narrations) ==
    LET labelled  == Stronger(Nothing, ByIfsc(head))
        addressed == Unless(labelled, 95, ByStructure(text))
        headed    == Unless(addressed, 95, ByPhrase(head))
        shortened == Unless(headed, 75, ByFuzzy(head))
        named     == Unless(shortened, 82, Atmost(ByPhrase(WithoutReferences(text)), 80))
        filed     == Unless(named, 70, ByFilename(file))
        last      == {Unless(filed, 60, hit) : hit \in ByNarrations(narrations)}
    IN  {IF ByIfsc(head).conf >= 98 THEN Stronger(r, ByIfsc(head)) ELSE r : r \in last}

\* The text above the labels is the header; a page without labels has none.
NameIssuer ==
    /\ columns # Unseen /\ columns.how \in {"cells", "header", "inferred"}
    /\ issuer = Unseen
    /\ issuer' \in Issuers(IF columns.at > 1 THEN page.above ELSE <<>>,
                           page.above \o page.within, page.file, page.within)
    /\ UNCHANGED <<page, columns>>

(***************************************************************************)
(* Properties                                                              *)
(***************************************************************************)
Labels == IF columns.at = 0 THEN {} ELSE Range(page.rows[columns.at])

\* Another label says "date" better than the transaction's own, or as well further left.
Outdated == \E own, other \in Labels :
    /\ own.of = "date" /\ other.of # "date"
    /\ LET points(it) == Points(it.text, "date")
       IN  points(other) > points(own) \/ (points(other) = points(own) /\ other.x < own.x)

\* A label that the page holds in two, and what begins nearer its second half.
Halves == {h \in Labels \X Labels : h[1].of # "" /\ h[1].of = h[2].of /\ h[1].x < h[2].x}
Walled(it) == \E h \in Halves : it.of = h[1].of /\ 2 * it.x >= h[1].x + h[2].x

\* Every text is read under the label the bank printed it under: the row of labels is found,
\* no amount, date or narration lands in another column, and none of a column that was not
\* recognised lands in one that was.  Left out are pages on which a second column of dates
\* is labelled better, or as well and further left (the first of equals wins), and what
\* begins under the second half of a label held in two (that half is a fence of its own).
ColumnsRead ==
    columns # Unseen =>
        /\ \A k \in DOMAIN page.rows : (\E it \in Range(page.rows[k]) : it.is = "label" /\ it.of # "") => columns.at = k
        /\ columns.how \in {"cells", "header", "inferred"} =>
             \A k \in columns.at + 1 .. Len(page.rows) :
                 LET row     == page.rows[k]
                     part(f) == SelectSeq(row, LAMBDA it : it.of = f)
                 IN  \/ /\ \A f \in DOMAIN columns.x : CellOf(columns, page.rows, f, row) = part(f)
                        /\ \A it \in Range(row) : it.of # "" => it.of \in DOMAIN columns.x
                     \/ \E it \in Range(row) : Walled(it)
                     \/ Outdated

\* The bank that issued a statement is not mistaken for one its customer's payments name,
\* whatever IFSC, name or abbreviation stands in their references and however often; only
\* another bank's domain (unless a labelled IFSC is in the header), or its name outside a
\* payment reference (when the statement tells its own bank by no more than a misread
\* abbreviation or the file's name), may mislead.
OwnBank ==
    issuer # Unseen /\ issuer.bank # page.bank =>
        LET head == IF columns.at > 1 THEN page.above ELSE <<>>
            own(text, kinds) == \E m \in Range(text) : m.bank = page.bank /\ m.kind \in kinds
            other(kinds)     == \E m \in Range(page.within) : m.bank # page.bank /\ m.kind \in kinds
                                                              /\ (m.kind \in Names => ~m.paid)
        IN  \/ other(Addresses) /\ ~own(head, {"labelled"})
            \/ other(Names) /\ ~own(head, Codes \cup {"abbrev"}) /\ ~own(page.above, Addresses \cup Names)

=============================================================================
