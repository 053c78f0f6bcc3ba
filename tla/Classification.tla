--------------------------- MODULE Classification ---------------------------
(***************************************************************************)
(* What the program makes of a transaction's words: the party, the ledger, *)
(* the voucher type, the GST estimate and the duplicates of src/            *)
(* classifier.rs and gst_engine.rs, and the one name for every party of    *)
(* party_master.rs.                                                        *)
(*                                                                         *)
(* A text is a sequence of parts (what stands between '/', '-', '|' and    *)
(* ':'), a part a sequence of words; a word may be a phrase.  The lexicon  *)
(* says what a word is and which keywords the engines find inside it, so a *)
(* keyword may be found where nobody meant it.  Each group of keywords of  *)
(* the tables is represented by one or two of them.  Names of parties and  *)
(* ledgers are sequences of words.  Confidence is in percent.              *)
(***************************************************************************)
EXTENDS Positions, SequencesExt, FiniteSetsExt

CONSTANTS
    Empty,       \* a cell that holds nothing
    Lexicon,     \* by word: [kind, holds, tokens, rest]
    Dictionary,  \* VENDOR_DICT: by word, the name of the vendor that starts with it
    Noise,       \* LEDGER_SUFFIX_NOISE
    Business,    \* LEDGER_BIZ_WORDS
    Before,      \* the pairs of words in alphabetical order
    StartsWith,  \* the pairs <<word, a longer word that starts with it>>, of four letters or more
    CategoryWords, \* the words that make a name a category: "expense", "rent", ...
    BankLedger   \* the ledger of the bank account

\* Words compare as strings do.
ASSUME BeforeIsAnOrder ==
    /\ \A p \in Before : p[1] # p[2]
    /\ \A p, q \in Before : p[2] = q[1] => <<p[1], q[2]>> \in Before

Kind(w)     == IF w \in DOMAIN Lexicon THEN Lexicon[w].kind ELSE "plain"
WordsOf(text) == UNION {Range(text[k]) : k \in DOMAIN text} \cap DOMAIN Lexicon
Found(text) == UNION {Lexicon[w].holds : w \in WordsOf(text)}

\* narration and reference, the latter appended to the last part.
Combined(t) == IF t.ref = Empty THEN t.text
               ELSE [t.text EXCEPT ![Len(t.text)] = Append(@, t.ref)]

Credit(t) == t.cr # Empty /\ t.dr = Empty
Debit(t)  == t.dr # Empty /\ t.cr = Empty
Amount(t) == IF t.dr # Empty THEN t.dr ELSE IF t.cr # Empty THEN t.cr ELSE 0

(***************************************************************************)
(* The party's name in a text                                              *)
(***************************************************************************)
\* A reference glued to the words that follow it leaves those words.
Unglued(part) == FlattenSeq([k \in DOMAIN part |->
                     IF Kind(part[k]) = "glued" THEN Lexicon[part[k]].rest ELSE <<part[k]>>])

\* "skip" are the words of payments, "initial" one or two letters, "code" a reference of
\* fourteen or more letters and digits, "long" one word of over ten.
IsJunk(part) == \/ part = <<>>
                \/ Len(part) = 1 /\ Kind(part[1]) \in {"skip", "digits", "ifsc", "initial", "code"}
                \/ \E k \in DOMAIN part : Kind(part[k]) = "handle"

PartScore(part) ==
    3 * Len(part)
    - (IF \E k \in DOMAIN part : Kind(part[k]) \in {"digits", "code", "mixed", "ifsc"} THEN 2 ELSE 0)
    - (IF Kind(part[1]) = "bank" THEN 6 ELSE 0)
    - (IF Len(part) = 1 /\ Kind(part[1]) = "long" THEN 3 ELSE 0)

\* Of a structured text, the first of its best parts.
BestParts(parts) ==
    LET good == {k \in DOMAIN parts : ~IsJunk(parts[k]) /\ PartScore(parts[k]) >= 3}
    IN  {k \in good : \A j \in good : PartScore(parts[j]) < PartScore(parts[k])
                                      \/ (PartScore(parts[j]) = PartScore(parts[k]) /\ k <= j)}

\* Of a sentence, the first run of words that may be a name, six at most.
Sentence(words) ==
    LET starts == {k \in DOMAIN words : Kind(words[k]) \notin {"skip", "digits", "handle", "code", "ifsc"}}
        first  == Min(starts)
        stops  == {k \in first + 1 .. Len(words) : Kind(words[k]) \in {"skip", "digits", "code", "ifsc"}}
        last   == Min(stops \cup {Len(words) + 1, first + 6}) - 1
    IN  IF starts = {} THEN <<>> ELSE SubSeq(words, first, last)

\* normalize_vendor_name: cut at "page", then a trailing initial, then a bare number.
Trimmed(name) ==
    LET page  == {k \in 2 .. Len(name) : name[k] = "page"}
        upTo  == IF page = {} THEN name ELSE SubSeq(name, 1, Min(page) - 1)
        plain == IF Len(upTo) > 1 /\ Kind(Last(upTo)) = "initial" THEN Front(upTo) ELSE upTo
    IN  IF plain # <<>> /\ Kind(Last(plain)) = "digits" THEN Front(plain) ELSE plain

\* extract_party_name
Party(text) ==
    LET parts == [k \in DOMAIN text |-> Unglued(text[k])]
        best  == BestParts(parts)
    IN  IF Len(parts) > 1 /\ best # {} THEN Trimmed(parts[CHOOSE k \in best : TRUE])
        ELSE Trimmed(Sentence(FlattenSeq(parts)))

(***************************************************************************)
(* The keyword tables, in the order they are tried                         *)
(***************************************************************************)
KW(keys, vendor, head, type) == [keys |-> keys, vendor |-> vendor, head |-> head, type |-> type]
Spend(keys, vendor, head) == KW(keys, vendor, head, "Payment")
Self == <<"SELF">>

Banking == <<
    KW({"ATM WDL", "CASH DEP"}, Self, <<"CASH">>, "Contra"),
    KW({"INT CR"}, BankLedger, <<"INTEREST", "INCOME">>, "Receipt"),
    Spend({"BANK CHARGES"}, BankLedger, <<"BANK", "CHARGES">>) >>
Taxes == <<
    Spend({"GST PAYMENT"}, <<"GOVERNMENT", "(GST)">>, <<"GST", "PAYABLE">>),
    Spend({"INCOME TAX"}, <<"INCOME", "TAX", "DEPT">>, <<"INCOME", "TAX", "PAYABLE">>) >>
Staff == <<
    Spend({"SALARY"}, <<"STAFF">>, <<"SALARIES">>),
    Spend({"RENT"}, <<"LANDLORD">>, <<"RENT">>),
    Spend({"PETROL"}, <<"FUEL", "STATION">>, <<"FUEL", "EXPENSE">>) >>
Telecom == <<
    Spend({"AIRTEL"}, <<"AIRTEL">>, <<"TELEPHONE", "EXPENSE">>),
    Spend({"JIO"}, <<"JIO">>, <<"TELEPHONE", "EXPENSE">>),
    Spend({"BSNL"}, <<"BSNL">>, <<"TELEPHONE", "EXPENSE">>),
    Spend({"VODAFONE"}, <<"VODAFONE">>, <<"TELEPHONE", "EXPENSE">>),
    Spend({"BROADBAND"}, <<"TELECOM">>, <<"TELEPHONE", "EXPENSE">>) >>
Utilities == <<
    Spend({"MSEDCL"}, <<"ELECTRICITY", "BOARD">>, <<"ELECTRICITY", "CHARGES">>),
    Spend({"LIC PREMIUM"}, <<"INSURANCE", "CO">>, <<"INSURANCE", "PREMIUM">>) >>
FoodDelivery == <<
    Spend({"SWIGGY"}, <<"SWIGGY">>, <<"FOOD", "EXPENSE">>),
    Spend({"ZOMATO"}, <<"ZOMATO">>, <<"FOOD", "EXPENSE">>),
    Spend({"UBER EATS"}, <<"FOOD", "DELIVERY">>, <<"FOOD", "EXPENSE">>) >>
Daily == <<
    Spend({"CAFE", "COFFEE"}, <<"FOOD", "/", "DINING">>, <<"FOOD", "EXPENSE">>),
    Spend({"KIRANA", "OIL"}, <<"GROCERY", "/", "KIRANA">>, <<"GROCERY", "EXPENSE">>),
    Spend({"PARLOUR"}, <<"PERSONAL", "CARE">>, <<"PERSONAL", "CARE", "EXPENSE">>) >>
Services == <<
    Spend({"COURIER"}, <<"COURIER", "SERVICE">>, <<"COURIER", "&", "POSTAGE", "EXPENSE">>),
    Spend({"XEROX"}, <<"STATIONERY", "SHOP">>, <<"PRINTING", "&", "STATIONERY", "EXPENSE">>),
    Spend({"MEDPLUS"}, <<"MEDICAL">>, <<"MEDICAL", "EXPENSE">>) >>
Shops == <<
    Spend({"AMAZON"}, <<"AMAZON">>, <<"OFFICE", "EXPENSE">>),
    Spend({"FLIPKART"}, <<"FLIPKART">>, <<"OFFICE", "EXPENSE">>),
    Spend({"MYNTRA"}, <<"MYNTRA">>, <<"OFFICE", "EXPENSE">>),
    Spend({"MEESHO"}, <<"MEESHO">>, <<"OFFICE", "EXPENSE">>),
    Spend({"SNAPDEAL"}, <<"ONLINE", "SHOPPING">>, <<"OFFICE", "EXPENSE">>) >>
Software == <<
    Spend({"GOOGLE"}, <<"GOOGLE">>, <<"SOFTWARE", "EXPENSE">>),
    Spend({"MICROSOFT"}, <<"MICROSOFT">>, <<"SOFTWARE", "EXPENSE">>),
    Spend({"ZOOM"}, <<"ZOOM">>, <<"SOFTWARE", "EXPENSE">>),
    Spend({"AWS"}, <<"AMAZON", "AWS">>, <<"SOFTWARE", "EXPENSE">>),
    Spend({"ADOBE"}, <<"SOFTWARE">>, <<"SOFTWARE", "EXPENSE">>) >>
Rides == <<
    Spend({"UBER"}, <<"UBER">>, <<"TRAVELLING", "EXPENSE">>),
    Spend({"OLA CAB"}, <<"OLA">>, <<"TRAVELLING", "EXPENSE">>),
    Spend({"RAPIDO"}, <<"TRANSPORT">>, <<"TRAVELLING", "EXPENSE">>) >>
Finance == <<
    Spend({"IRCTC"}, <<"TRAVEL">>, <<"TRAVELLING", "EXPENSE">>),
    Spend({"CONSULTING"}, <<>>, <<"PROFESSIONAL", "FEES">>),
    Spend({"EMI"}, <<"BANK/NBFC">>, <<"LOAN", "ACCOUNT">>),
    Spend({"SIP"}, <<"INVESTMENT">>, <<"INVESTMENTS">>),
    KW({"DIVIDEND"}, <<"INVESTMENT">>, <<"DIVIDEND", "INCOME">>, "Receipt"),
    Spend({"META ADS"}, <<"ADVERTISEMENT">>, <<"ADVERTISEMENT", "EXPENSE">>) >>

Tables == Banking \o Taxes \o Staff \o Telecom \o Utilities \o FoodDelivery \o Daily
          \o Services \o Shops \o Software \o Rides \o Finance

FirstHit(rows, found) == LET hits == {k \in DOMAIN rows : rows[k].keys \cap found # {}}
                         IN  IF hits = {} THEN Empty ELSE rows[Min(hits)]

\* A transfer: the party is the ledger, on the side of the money.
Transfer(t, party) ==
    KW({}, party,
       IF party # <<>> THEN party ELSE <<"SUNDRY", IF Credit(t) THEN "DEBTORS" ELSE "CREDITORS">>,
       IF Credit(t) THEN "Receipt" ELSE "Payment")

OrTransfer(t, hit) == IF hit # Empty THEN hit
                      ELSE IF "UPI" \in Found(Combined(t)) THEN Transfer(t, Party(Combined(t))) ELSE Empty
KwMatch(t) == OrTransfer(t, FirstHit(Tables, Found(Combined(t))))

(***************************************************************************)
(* One transaction                                                         *)
(***************************************************************************)
Locked(t) == \/ t.status \in {"manual", "suspense"}
             \/ t.source \in {"user", "ai"}
             \/ t.status = "classified" /\ t.conf >= 100

\* A text as it is written, and whether it contains another.
Written(text) == FlattenSeq([k \in DOMAIN text |-> IF k = 1 THEN text[k] ELSE <<"/">> \o text[k]])
Inside(words, long) == \E k \in 0 .. Len(long) - Len(words) : words = SubSeq(long, k + 1, k + Len(words))

\* derive_rule_pattern: the text without its reference numbers, unless no more than the
\* name of a payment network is left.
Pattern(t) == LET left == SelectSeq(Unglued(Written(Combined(t))), LAMBDA w : Kind(w) # "digits")
              IN  IF left = <<>> \/ (Len(left) = 1 /\ Kind(left[1]) = "skip") THEN Empty ELSE left

\* The first rule whose pattern is in the text.
Ruled(t, rules) == LET hits == {k \in DOMAIN rules : Inside(rules[k].key, Written(Combined(t)))}
                   IN  IF hits = {} THEN Empty ELSE rules[Min(hits)]

Named(t, vendor, head, type) ==
    [t EXCEPT !.vendor = IF vendor = <<>> THEN @ ELSE vendor,
              !.head   = IF head = <<>> THEN @ ELSE head,
              !.type   = IF type = "" THEN @ ELSE type]

\* A rule overwrites what it names; a keyword the vendor, the ledger and the type, whatever
\* the side of the money; otherwise only the party is taken.
AsFound(t, rule, hit, party) ==
    IF rule # Empty
    THEN [Named(t, rule.vendor, rule.head, rule.type) EXCEPT
             !.conf = IF rule.client THEN 90 ELSE 60, !.status = "classified", !.source = "rule"]
    ELSE IF hit # Empty
    THEN [t EXCEPT !.vendor = hit.vendor, !.head = hit.head, !.type = hit.type,
                   !.conf = 45, !.status = "classified", !.source = "keyword"]
    ELSE [Named(t, party, <<>>, "") EXCEPT !.conf = 0, !.status = "unreviewed", !.source = ""]
Assigned(t, rules) == AsFound(t, Ruled(t, rules), KwMatch(t), Party(Combined(t)))

\* infer_voucher_type
Typed(t) == IF t.type # "Unknown" THEN t
            ELSE [t EXCEPT !.type = IF Found(Combined(t)) \cap {"ATM", "CASH"} # {} THEN "Contra"
                                    ELSE IF Credit(t) THEN "Receipt"
                                    ELSE IF Debit(t) THEN "Payment" ELSE @]

\* detect_gst
TaxTag(t) ==
    LET found == Found(Combined(t)) IN
    IF found \cap {"IGST", "CGST", "GSTIN"} # {} \/ ("GST" \in found /\ "PAYMENT" \in found) THEN {"GST"}
    ELSE IF "INCOME TAX" \in found THEN {"TAX"} ELSE {}

(***************************************************************************)
(* The GST estimate                                                        *)
(***************************************************************************)
Supplier(keys, rate, type, expense) == [keys |-> keys, rate |-> rate, type |-> type, expense |-> expense]
GstSuppliers == <<
    Supplier({"AIRTEL", "JIO"}, 18, "CGST+SGST", <<"TELEPHONE", "EXPENSE">>),
    Supplier({"GOOGLE", "MICROSOFT"}, 18, "CGST+SGST", <<"SOFTWARE", "EXPENSE">>),
    Supplier({"MSEDCL"}, 5, "CGST+SGST", <<"ELECTRICITY", "CHARGES">>),
    Supplier({"RENT"}, 18, "CGST+SGST", <<"RENT">>),
    Supplier({"SWIGGY"}, 5, "CGST+SGST", <<"FOOD", "EXPENSE">>),
    Supplier({"PETROL"}, 0, "EXEMPT", <<"FUEL", "EXPENSE">>),
    Supplier({"UBER"}, 5, "CGST+SGST", <<"TRAVELLING", "EXPENSE">>) >>

Percents == <<<<"28%", 28>>, <<"18%", 18>>, <<"12%", 12>>, <<"5%", 5>>>>
NoGst == [rate |-> Empty, type |-> Empty, amount |-> Empty]
TaxIn(amount, rate) == (200 * amount * rate + 100 * (100 + rate)) \div (200 * (100 + rate))

\* gst_engine::analyse: the narration, the reference and the vendor.
Analysis(t) ==
    LET found    == Found(Append(Combined(t), t.vendor))
        stated   == {k \in DOMAIN Percents : Percents[k][1] \in found}
        supplier == FirstHit(GstSuppliers, found)
        rate     == IF stated # {} THEN Percents[Min(stated)][2]
                    ELSE IF supplier # Empty THEN supplier.rate ELSE Empty
    IN  IF found \cap {"GST", "IGST", "CGST", "GSTIN"} = {} /\ supplier = Empty /\ stated = {} THEN Empty
        ELSE [rate    |-> rate,
              type    |-> IF "IGST" \in found THEN "IGST"
                          ELSE IF "CGST" \in found THEN "CGST+SGST"
                          ELSE IF supplier # Empty THEN supplier.type
                          ELSE IF rate # Empty THEN "CGST+SGST" ELSE Empty,
              amount  |-> IF Amount(t) = 0 \/ rate \in {Empty, 0} THEN Empty ELSE TaxIn(Amount(t), rate),
              expense |-> IF supplier # Empty THEN supplier.expense ELSE <<>>]

\* An analysis that finds nothing leaves the former estimate.
Estimated(t, gst, ledgers) ==
    IF gst = Empty THEN t
    ELSE [t EXCEPT !.tags = @ \cup {"GST"},
                   !.head = IF ledgers /\ @ = <<>> THEN gst.expense ELSE @,
                   !.gst  = [rate |-> gst.rate, type |-> gst.type, amount |-> gst.amount]]
Taxed(t, on, ledgers) == IF on THEN Estimated(t, Analysis(t), ledgers) ELSE t

\* classify_one; `set' holds the settings.
Tagged(t) == [t EXCEPT !.tags = @ \cup TaxTag(t)]
ClassifyOne(t, rules, set) == Taxed(Tagged(Typed(Assigned(t, rules))), set.gst, set.ledgers)

(***************************************************************************)
(* Duplicates                                                              *)
(***************************************************************************)
\* The words of four letters or more of a narration.
Words4(t) == UNION {Lexicon[w].tokens : w \in WordsOf(t.text)}

Eligible(t)   == ~t.opening /\ t.status # "manual"
HashOf(t)   == <<t.date, t.text, t.dr, t.cr>>
Referred(t) == t.ref # Empty /\ Lexicon[t.ref].kind \in {"digits", "code"} /\ Amount(t) > 0
PaperOf(t)  == <<t.ref, Amount(t)>>
\* At least half of the words of the one with more of them.
Similar(a, b) == LET most == IF Cardinality(Words4(a)) > Cardinality(Words4(b)) THEN Words4(a) ELSE Words4(b)
                 IN  /\ Words4(a) # {} /\ Words4(b) # {}
                     /\ 2 * Cardinality(Words4(a) \cap Words4(b)) >= Cardinality(most)
SameDay(a, b) == a.date = b.date /\ a.dr = b.dr /\ a.cr = b.cr /\ Amount(a) > 0 /\ Similar(a, b)

Flagged(t) == [t EXCEPT !.dup = TRUE, !.tags = @ \cup {"DUP"}]
FlagAll(ts, hit) == [k \in DOMAIN ts |-> IF k \in hit THEN Flagged(ts[k]) ELSE ts[k]]

\* Mutant: a row repeats whatever row is like it, the later ones too.
Repeats_Any(live, key) == {k \in live : \E j \in live \ {k} : key[j] = key[k]}

\* The rows the first two passes look at, and the repeats they find.
Repeats(live, key) == {k \in live : \E j \in live : j < k /\ key[j] = key[k]}

\* Of the rows of a day and an amount, each that resembles an earlier one still unflagged.
Resembling(ts) ==
    LET Live(t) == Eligible(t) /\ ~t.dup
        hit[k \in 1 .. Len(ts)] == Live(ts[k]) /\ \E j \in 1 .. k - 1 : Live(ts[j]) /\ ~hit[j] /\ SameDay(ts[j], ts[k])
    IN  {k \in DOMAIN ts : hit[k]}

\* detect_duplicates
Detect(ts) ==
    LET live == {k \in DOMAIN ts : Eligible(ts[k])}
        one  == FlagAll(ts, Repeats(live, [k \in live |-> HashOf(ts[k])]))
        left == {k \in live : ~one[k].dup /\ Referred(one[k])}
        two  == FlagAll(one, Repeats(left, [k \in left |-> PaperOf(one[k])]))
    IN  FlagAll(two, Resembling(two))

\* classify_all
ClassifyEach(ts, rules, set) ==
    [k \in DOMAIN ts |-> IF ts[k].opening \/ Locked(ts[k]) THEN ts[k] ELSE ClassifyOne(ts[k], rules, set)]
Deduped(ts, on) == IF on THEN Detect(ts) ELSE ts
ClassifyAll(ts, rules, set) == Deduped(ClassifyEach(ts, rules, set), set.dedupe)

(***************************************************************************)
(* One name for every party                                                *)
(***************************************************************************)
IsCategory(name) == Range(name) \cap CategoryWords # {}
Personal(name)   == Range(name) \cap Business = {}

WithoutNoise(name) == LET kept == {k \in DOMAIN name : name[k] \notin Noise}
                      IN  SubSeq(name, 1, IF kept = {} THEN 1 ELSE Max(kept))
\* A word that repeats one of the first two ends the name; a person has two words, in
\* descending order.
Cut(name) == LET again == {k \in 3 .. Len(name) : name[k] \in {name[1], name[2]}}
             IN  IF again = {} THEN name ELSE SubSeq(name, 1, Min(again) - 1)
Capped(name)  == IF Len(name) >= 3 /\ Personal(name) THEN SubSeq(name, 1, 2) ELSE name
Ordered(name) == IF Len(name) = 2 /\ Personal(name) /\ <<name[1], name[2]>> \in Before
                 THEN <<name[2], name[1]>> ELSE name
Branchless(name) == LET at == {k \in 2 .. Len(name) : Kind(name[k]) = "branch"}
                    IN  IF at = {} THEN name ELSE SubSeq(name, 1, Min(at) - 1)

\* normalize_ledger_name: the passes over a name, until the dictionary knows its first word.
LookedUp(out) == IF out.name[1] \in DOMAIN Dictionary THEN [name |-> Dictionary[out.name[1]], done |-> TRUE] ELSE out
Tidied(out, pass) ==
    CASE out.done -> out
      [] pass = "branch" -> LookedUp([out EXCEPT !.name = Branchless(@)])
      [] pass = "noise"  -> [out EXCEPT !.name = WithoutNoise(@)]
      [] pass = "cut"    -> [out EXCEPT !.name = Cut(@)]
      [] pass = "cap"    -> [out EXCEPT !.name = Capped(@)]
      [] pass = "order"  -> LookedUp([out EXCEPT !.name = Ordered(@)])
Normal(name) == IF name = <<>> THEN name
                ELSE FoldLeft(Tidied, [name |-> name, done |-> FALSE],
                              <<"branch", "noise", "cut", "cap", "order">>).name

\* Mutant: the order of the words tells names apart.
Signature_Ordered(name) == name

\* The words of a name in any order.
Signature(name) == [w \in Range(name) |-> Cardinality({k \in DOMAIN name : name[k] = w})]

\* is_partial_name_of: every word starts a word of its own of the longer name.
Starts(w, long) == IF <<w, long>> \in StartsWith \/ w = long THEN Kind(w) # "initial" ELSE FALSE
Partial(short, long) ==
    /\ short # <<>> /\ Len(short) < Len(long)
    /\ \E at \in [DOMAIN short -> DOMAIN long] :
         /\ \A j, k \in DOMAIN short : at[j] = at[k] => j = k
         /\ \A k \in DOMAIN short : Starts(short[k], long[at[k]])

\* The names that are normalized, of the rows but the opening one.
NamesOf(t) == IF t.opening THEN {} ELSE ({t.vendor} \cup (IF IsCategory(t.head) THEN {} ELSE {t.head})) \ {<<>>}
RawNames(ts) == UNION {NamesOf(ts[k]) : k \in DOMAIN ts}

\* How many cells hold a name spelled like this one.
Weight(ts, norm, name) ==
    LET like(cell) == cell \in DOMAIN norm /\ Signature(norm[cell]) = Signature(name)
    IN  Cardinality({k \in DOMAIN ts : ~ts[k].opening /\ like(ts[k].vendor)})
        + Cardinality({k \in DOMAIN ts : ~ts[k].opening /\ ~IsCategory(ts[k].head) /\ like(ts[k].head)})

\* One spelling of every party: of several, whichever the hash set yields first.
Alike(a, b) == Signature(a) = Signature(b)
Spellings(names) ==
    LET alone  == {n \in names : \A o \in names \ {n} : ~Alike(n, o)}
        one(S) == \A n \in names \ alone : Cardinality({s \in S : Alike(s, n)}) = 1
    IN  {alone \cup S : S \in {K \in SUBSET (names \ alone) : one(K)}}

\* What a name becomes: the fuller name with the most cells, else its own spelling.
Fullest(ts, norm, fuller) ==
    LET most == {n \in fuller : \A o \in fuller : Weight(ts, norm, n) >= Weight(ts, norm, o)}
    IN  CHOOSE n \in most : \A o \in most : <<o[1], n[1]>> \notin Before
Resolved(ts, norm, spellings, name) ==
    LET own    == CHOOSE s \in spellings : Alike(s, norm[name])
        fuller == {s \in spellings \ {own} : Partial(own, s)}
    IN  IF fuller = {} THEN own ELSE Fullest(ts, norm, fuller)

Renamed(t, new) == LET As(n) == IF n \in DOMAIN new THEN new[n] ELSE n
                   IN  [t EXCEPT !.vendor = As(@), !.head = IF IsCategory(@) THEN @ ELSE As(@)]

\* normalize_vendors; `norm' holds what each name is normalized to.
NamedBy(ts, norm, spellings) ==
    [k \in DOMAIN ts |-> Renamed(ts[k], [n \in NamesOf(ts[k]) |-> Resolved(ts, norm, spellings, n)])]
Normalized(ts) ==
    UNION {{NamedBy(ts, norm, spellings) : spellings \in Spellings(Range(norm))} :
               norm \in {[n \in RawNames(ts) |-> Normal(n)]}}
=============================================================================
