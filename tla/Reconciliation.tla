--------------------------- MODULE Reconciliation ---------------------------
(***************************************************************************)
(* Matching the loaded bank transactions with the vouchers of a Tally      *)
(* daybook: the register the user imports, the score of a pair, and the    *)
(* greedy assignment, one claimed pair at a time.  Scores are in           *)
(* hundredths, amounts in paise, dates in days.                            *)
(***************************************************************************)
EXTENDS Integers, Sequences, FiniteSets

CONSTANTS
    Nil,         \* a cell, a reference or a column that is not there
    Tokens,      \* the words of four letters or more that narrations hold
    Refs,        \* the references of transactions and numbers of vouchers
    ReconDays,   \* date_fuzzy_days, from the settings
    ReconPct,    \* amount_fuzzy_pct, from the settings, in tenths of a percent
    Registers,   \* the files the user may import: [heads, rows]
    Loaded       \* the bank transactions there may be on the screen

VARIABLES
    vouchers,    \* recon_vouchers
    bank,        \* the transactions of the last run
    left,        \* its candidate pairs that no claimed pair excludes yet
    matches      \* the report's matches
rvars == <<vouchers, bank, left, matches>>

Entry == [date : Int, amount : Nat, narr : SUBSET Tokens, ref : Refs \cup {Nil}]

ReconInit == vouchers = <<>> /\ bank = <<>> /\ left = {} /\ matches = {}

(***************************************************************************)
(* The register: a grid whose first row names its columns                  *)
(***************************************************************************)
\* The first column whose name contains the word.
Column(reg, word) == LET at == {k \in DOMAIN reg.heads : word \in reg.heads[k]}
                     IN  IF at = {} THEN Nil ELSE CHOOSE k \in at : \A j \in at : k <= j
Else(col, other) == IF col = Nil THEN other ELSE col
Cell(row, col)   == IF col = Nil THEN Nil ELSE row[col]
Abs(x)           == IF x < 0 THEN -x ELSE x
AmountIn(row, main, credit) ==
    LET cell == IF Cell(row, main) # Nil THEN Cell(row, main) ELSE Cell(row, credit)
    IN  IF cell = Nil THEN 0 ELSE Abs(cell)

\* parse_tally_grid
Parsed(reg) ==
    LET date   == Column(reg, "date")
        narr   == Else(Column(reg, "particular"), Else(Column(reg, "narration"), Column(reg, "description")))
        amount == Else(Column(reg, "amount"), Column(reg, "debit"))
        Of(row) == [date   |-> row[date],
                    amount |-> AmountIn(row, amount, Column(reg, "credit")),
                    narr   |-> IF row[narr] = Nil THEN {} ELSE row[narr],
                    ref    |-> Cell(row, Column(reg, "voucher"))]
        Kept(row) == row[date] # Nil /\ (Of(row).amount > 0 \/ Of(row).narr # {})
        rows == SelectSeq(reg.rows, Kept)
    IN  IF date = Nil \/ narr = Nil THEN <<>> ELSE [k \in DOMAIN rows |-> Of(rows[k])]

\* The settings are whole numbers, and what is read and what is loaded are entries.
ASSUME ReconAssumption ==
    /\ IsFiniteSet(Tokens)
    /\ ReconDays \in Int /\ ReconPct \in Int
    /\ \A reg \in Registers : Parsed(reg) \in Seq(Entry)
    /\ Loaded \subseteq Seq(Entry)

(***************************************************************************)
(* The score of a pair                                                     *)
(***************************************************************************)
AmountMatch(a, b, pct) == \/ a = 0 /\ b = 0
                          \/ a # 0 /\ b # 0 /\ 1000 * Abs(a - b) <= pct * (IF a > b THEN a ELSE b)

AmountScore(b, v) == IF AmountMatch(b.amount, v.amount, 0) THEN 40
                     ELSE IF AmountMatch(b.amount, v.amount, ReconPct) THEN 30
                     ELSE IF AmountMatch(b.amount, v.amount, 2 * ReconPct) THEN 10 ELSE 0

DateScore(b, v) == LET days == Abs(b.date - v.date) IN
                   IF days = 0 THEN 40
                   ELSE IF days <= 1 THEN 30
                   ELSE IF days <= ReconDays THEN 20
                   ELSE IF days <= 2 * ReconDays THEN 5 ELSE 0

\* Jaccard: the words both have among the words either has.
NarrScore(b, v) ==
    LET both   == Cardinality(b.narr \cap v.narr)
        either == Cardinality(b.narr \cup v.narr)
    IN  IF b.narr = {} \/ v.narr = {} THEN 0
        ELSE IF 5 * both >= 4 * either THEN 20
        ELSE IF 20 * both >= 11 * either THEN (30 * both + either) \div (2 * either) ELSE 0

RefScore(b, v) == IF b.ref # Nil /\ b.ref = v.ref THEN 20 ELSE 0

\* score_match: nothing when the amount or the date is too far apart.
Score(b, v) ==
    LET sum == AmountScore(b, v) + DateScore(b, v) + NarrScore(b, v) + RefScore(b, v)
    IN  IF AmountScore(b, v) = 0 \/ DateScore(b, v) = 0 THEN 0 ELSE IF sum > 100 THEN 100 ELSE sum

\* status_from_score, of a positive score.
Status(score) == IF score >= 90 THEN "Matched" ELSE IF score >= 40 THEN "Likely" ELSE "Possible"

(***************************************************************************)
(* The handlers                                                            *)
(***************************************************************************)
Pairs    == (DOMAIN bank) \X (DOMAIN vouchers)
ScoreOf(p) == Score(bank[p[1]], vouchers[p[2]])

\* A new register clears the report; one without entries changes nothing.
ImportRegister(reg) ==
    /\ left = {}
    /\ Parsed(reg) # <<>>
    /\ vouchers' = Parsed(reg)
    /\ bank' = <<>> /\ matches' = {}
    /\ UNCHANGED left

Run(entries) ==
    /\ left = {}
    /\ vouchers # <<>> /\ entries # <<>>
    /\ bank' = entries
    /\ matches' = {}
    /\ left' = {p \in (DOMAIN entries) \X (DOMAIN vouchers) : Score(entries[p[1]], vouchers[p[2]]) > 0}
    /\ UNCHANGED vouchers

\* Mutant: the first candidate in the order of the lists, whatever its score.
Best_First(p) == \A q \in left : p[1] < q[1] \/ (p[1] = q[1] /\ p[2] <= q[2])

\* Candidates are taken by score; ties in the order of the lists.
Best(p) == \A q \in left : \/ ScoreOf(q) < ScoreOf(p)
                           \/ ScoreOf(q) = ScoreOf(p) /\ (p[1] < q[1] \/ (p[1] = q[1] /\ p[2] <= q[2]))

Claim == \E p \in left :
    /\ Best(p)
    /\ matches' = matches \cup {[bank |-> p[1], voucher |-> p[2], score |-> ScoreOf(p), status |-> Status(ScoreOf(p))]}
    /\ left' = {q \in left : q[1] # p[1] /\ q[2] # p[2]}
    /\ UNCHANGED <<vouchers, bank>>

\* Another client is selected.
ForgetRegister == /\ left = {}
                  /\ vouchers' = <<>> /\ bank' = <<>> /\ matches' = {}
                  /\ UNCHANGED left

ReconNext == \/ \E reg \in Registers : ImportRegister(reg)
             \/ \E entries \in Loaded : Run(entries)
             \/ Claim \/ ForgetRegister
ReconSpec == ReconInit /\ [][ReconNext]_rvars

(***************************************************************************)
(* Properties                                                              *)
(***************************************************************************)
TypeOK == /\ vouchers \in Seq(Entry)
          /\ bank \in Seq(Entry)
          /\ left \subseteq Pairs
          /\ \A m \in matches : /\ m \in [bank : Nat, voucher : Nat, score : Int, status : {"Matched", "Likely", "Possible"}]
                                /\ <<m.bank, m.voucher>> \in Pairs

\* No transaction and no voucher is matched twice.
OneToOne == \A m, n \in matches : m.bank = n.bank \/ m.voucher = n.voucher => m = n

\* A finished report is stable: a pair that was not matched although it scores has a side
\* that is matched with a score at least as good, so no transaction and voucher suit
\* each other better than what the report gave both of them.
NoBlockingPair ==
    left = {} => \A p \in Pairs : ScoreOf(p) > 0 =>
        \E m \in matches : (m.bank = p[1] \/ m.voucher = p[2]) /\ m.score >= ScoreOf(p)

(***************************************************************************)
(* What the matching keeps while it runs                                   *)
(***************************************************************************)
\* Neither side of a candidate is matched yet.
Free    == \A p \in left, m \in matches : m.bank # p[1] /\ m.voucher # p[2]
\* Every scoring pair is still a candidate or has lost to a match.
Settled == bank # <<>> => \A p \in Pairs : ScoreOf(p) > 0 =>
               p \in left \/ \E m \in matches : (m.bank = p[1] \/ m.voucher = p[2]) /\ m.score >= ScoreOf(p)
IInv == TypeOK /\ OneToOne /\ Free /\ Settled
=============================================================================
