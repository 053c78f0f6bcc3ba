---------------------------- MODULE Books_proofs ----------------------------
(***************************************************************************)
(* What the books tell the user, for every statement, rule book, setting,  *)
(* edit and option: a repeated row is flagged and one of its amount stays  *)
(* (DupFlags), a name has one spelling (OneSpelling), every count is that  *)
(* of what is written or shown (CountsAgree), every ledger a file names is *)
(* defined in it once (LedgersDefined); and the report of the              *)
(* reconciliation is one-to-one and stable.  The first four rest on one    *)
(* invariant, BooksInv: what is read and what is on the screen are lists,  *)
(* the screen's of whole rows, and a flagged row follows one whose amount  *)
(* is the same.                                                            *)
(***************************************************************************)
EXTENDS Books, FunctionTheorems, FiniteSetTheorems, WellFoundedInduction, TLAPS

(***************************************************************************)
(* Positions, and the lists made of them.                                  *)
(***************************************************************************)
\* < is well-founded on Nat, as a set of pairs.
LEMMA LessThan == IsWellFoundedOn({ss \in Nat \X Nat : ss[1] < ss[2]}, Nat)
BY NatLessThanWellFounded DEF OpToRel

\* A set of naturals has a least member.
LEMMA Least ==
    ASSUME NEW S \in SUBSET Nat, S # {}
    PROVE  \E x \in S : \A y \in S : x <= y
<1> DEFINE R == {ss \in Nat \X Nat : ss[1] < ss[2]}
<1>1. PICK x \in S : \A y \in S : ~(<<y, x>> \in R)
  <2>1. IsWellFoundedOn(R, Nat)
    BY LessThan
  <2> HIDE DEF R
  <2> QED
    BY <2>1, WFMin
<1>2. \A y \in S : x <= y
  <2> SUFFICES ASSUME NEW y \in S PROVE x <= y
    OBVIOUS
  <2>1. x \in Nat /\ y \in Nat /\ ~(y < x)
    BY <1>1
  <2> QED
    BY <2>1
<1> QED
  BY <1>2

\* A bounded one has a greatest.
LEMMA Greatest ==
    ASSUME NEW n \in Nat, NEW S \in SUBSET (1..n), S # {}
    PROVE  \E l \in S : \A m \in S : m <= l
<1> DEFINE T == {k \in Nat : \E l \in S : k = n - l}
<1>1. T \subseteq Nat /\ T # {}
  <2>1. PICK l \in S : TRUE
    OBVIOUS
  <2>2. n - l \in T
    BY <2>1
  <2> QED
    BY <2>2
<1>2. PICK x \in T : \A y \in T : x <= y
  <2> HIDE DEF T
  <2> QED
    BY <1>1, Least
<1>3. PICK l \in S : x = n - l
  OBVIOUS
<1>4. ASSUME NEW m \in S PROVE m <= l
  <2>1. n - m \in T
    OBVIOUS
  <2>2. x <= n - m
    BY <1>2, <2>1
  <2> QED
    BY <1>3, <2>2
<1> QED
  BY <1>4

\* The n-th of a finite set of positions is the one with n - 1 before it.
LEMMA NthIsOne ==
    ASSUME NEW S \in SUBSET Nat, IsFiniteSet(S)
    PROVE  \A n \in 1..Cardinality(S) :
             Nth(S, n) \in S /\ Cardinality({j \in S : j < Nth(S, n)}) = n - 1
<1> DEFINE Lower(i) == {j \in S : j < i}
           Missing == {n \in 1..Cardinality(S) : \A i \in S : Cardinality(Lower(i)) # n - 1}
<1>1. Cardinality(S) \in Nat
  BY FS_CardinalityType
<1>2. \A i \in S : IsFiniteSet(Lower(i)) /\ Cardinality(Lower(i)) \in Nat
  <2> SUFFICES ASSUME NEW i \in S PROVE IsFiniteSet(Lower(i)) /\ Cardinality(Lower(i)) \in Nat
    OBVIOUS
  <2>1. Lower(i) \in SUBSET S
    OBVIOUS
  <2> QED
    BY <2>1, FS_Subset, FS_CardinalityType
<1>3. Missing = {}
  <2> SUFFICES ASSUME Missing # {} PROVE FALSE
    OBVIOUS
  <2>1. Missing \in SUBSET Nat
    BY <1>1
  <2>2. PICK n \in Missing : \A m \in Missing : n <= m
    <3> HIDE DEF Missing
    <3> QED
      BY <2>1, Least
  <2>3. n \in Nat /\ n >= 1 /\ n <= Cardinality(S)
    BY <1>1
  <2>4. CASE n = 1
    <3>1. S # {}
      BY <2>3, FS_EmptySet
    <3>2. PICK x \in S : \A y \in S : x <= y
      BY <3>1, Least
    <3>3. Lower(x) = {}
      <4> SUFFICES ASSUME NEW y \in S, y < x PROVE FALSE
        OBVIOUS
      <4>1. x <= y /\ x \in Nat /\ y \in Nat
        BY <3>2
      <4> QED
        BY <4>1
    <3>4. Cardinality(Lower(x)) = 0
      BY <3>3, FS_EmptySet
    <3> QED
      BY <2>4, <3>4
  <2>5. CASE n # 1
    <3>1. n - 1 \in 1..Cardinality(S) /\ ~(n <= n - 1)
      BY <1>1, <2>3, <2>5
    <3>2. n - 1 \notin Missing
      BY <2>2, <3>1
    <3>3. PICK i \in S : Cardinality(Lower(i)) = (n - 1) - 1
      BY <3>1, <3>2
    <3>4. PICK U : U = Lower(i) \cup {i}
      OBVIOUS
    <3>5. IsFiniteSet(U) /\ Cardinality(U) = n - 1 /\ U \subseteq S
      <4>1. i \notin Lower(i)
        OBVIOUS
      <4>2. Cardinality(Lower(i) \cup {i}) = Cardinality(Lower(i)) + 1
            /\ IsFiniteSet(Lower(i) \cup {i})
        BY <1>2, <4>1, FS_AddElement
      <4> QED
        BY <2>3, <3>3, <3>4, <4>2
    <3>6. {k \in S : i < k} # {}
      <4> SUFFICES ASSUME {k \in S : i < k} = {} PROVE FALSE
        OBVIOUS
      <4>1. \A k \in S : k = i \/ k < i
        OBVIOUS
      <4>2. U = S
        BY <3>4, <4>1
      <4> QED
        BY <1>1, <2>3, <3>5, <4>2
    <3>7. PICK k \in {l \in S : i < l} : \A l \in {m \in S : i < m} : k <= l
      <4>1. {l \in S : i < l} \in SUBSET Nat
        OBVIOUS
      <4> QED
        BY <3>6, <4>1, Least
    <3>8. Lower(k) = U
      <4>1. \A l \in S : l < k <=> (l < i \/ l = i)
        BY <3>7
      <4> QED
        BY <3>4, <4>1
    <3> QED
      BY <3>5, <3>7, <3>8
  <2> QED
    BY <2>4, <2>5
<1>4. \A n \in 1..Cardinality(S) : \E i \in S : Cardinality(Lower(i)) = n - 1
  BY <1>3
<1> QED
  BY <1>4 DEF Nth

\* A list: a sequence of whatever values.
IsList(s) == \E T : s \in Seq(T)

\* Its positions are the first so many numbers.
LEMMA ListLen ==
    ASSUME NEW s, IsList(s)
    PROVE  /\ Len(s) \in Nat /\ DOMAIN s = 1 .. Len(s) /\ IsFiniteSet(DOMAIN s)
           /\ s = [k \in 1 .. Len(s) |-> s[k]]
<1>1. PICK T : s \in Seq(T)
  BY DEF IsList
<1>2. Len(s) \in Nat /\ DOMAIN s = 1 .. Len(s) /\ s = [k \in 1 .. Len(s) |-> s[k]]
  BY <1>1
<1>3. IsFiniteSet(1 .. Len(s))
  BY <1>2, FS_Interval
<1> QED
  BY <1>2, <1>3

\* A function of the first n numbers is a list of n.
LEMMA ListOf ==
    ASSUME NEW n \in Nat, NEW s, s = [k \in 1 .. n |-> s[k]]
    PROVE  IsList(s) /\ Len(s) = n /\ DOMAIN s = 1 .. n
<1>1. PICK T : T = {s[k] : k \in 1 .. n}
  OBVIOUS
<1>2. \A k \in 1 .. n : s[k] \in T
  BY <1>1
<1>3. s \in [1 .. n -> T]
  BY <1>2
<1>4. s \in Seq(T)
  BY <1>3
<1>5. Len(s) = n /\ DOMAIN s = 1 .. n
  BY <1>3
<1> QED
  BY <1>4, <1>5 DEF IsList

\* So is one that has a list's positions.
LEMMA ListLike ==
    ASSUME NEW s, IsList(s), NEW t, t = [k \in DOMAIN s |-> t[k]]
    PROVE  IsList(t) /\ Len(t) = Len(s) /\ DOMAIN t = DOMAIN s
  BY ListLen, ListOf

\* What is left of a list, or put to its end or its beginning, is a list.
LEMMA ListsGrow ==
    /\ IsList(<<>>) /\ Len(<<>>) = 0
    /\ \A s, x : IsList(s) => /\ IsList(Append(s, x)) /\ Len(Append(s, x)) = Len(s) + 1
                              /\ \A k \in DOMAIN s : Append(s, x)[k] = s[k]
                              /\ Append(s, x)[Len(s) + 1] = x
    /\ \A s, t : IsList(s) /\ IsList(t) => IsList(s \o t) /\ Len(s \o t) = Len(s) + Len(t)
<1>1. IsList(<<>>) /\ Len(<<>>) = 0
  <2>1. <<>> \in Seq({}) /\ Len(<<>>) = 0
    OBVIOUS
  <2> QED
    BY <2>1 DEF IsList
<1>2. ASSUME NEW s, NEW x, IsList(s)
      PROVE  /\ IsList(Append(s, x)) /\ Len(Append(s, x)) = Len(s) + 1
             /\ \A k \in DOMAIN s : Append(s, x)[k] = s[k]
             /\ Append(s, x)[Len(s) + 1] = x
  <2>1. PICK T : s \in Seq(T)
    BY <1>2 DEF IsList
  <2>2. PICK U : U = T \cup {x}
    OBVIOUS
  <2>3. x \in U /\ \A y \in T : y \in U
    BY <2>2
  <2>4. s \in Seq(U)
    BY <2>1, <2>3
  <2>5. /\ Append(s, x) \in Seq(U) /\ Len(Append(s, x)) = Len(s) + 1
        /\ \A k \in DOMAIN s : Append(s, x)[k] = s[k]
        /\ Append(s, x)[Len(s) + 1] = x
    BY <2>3, <2>4
  <2> QED
    BY <2>5 DEF IsList
<1>3. ASSUME NEW s, NEW t, IsList(s), IsList(t)
      PROVE  IsList(s \o t) /\ Len(s \o t) = Len(s) + Len(t)
  <2>1. PICK T : s \in Seq(T)
    BY <1>3 DEF IsList
  <2>2. PICK U : t \in Seq(U)
    BY <1>3 DEF IsList
  <2>3. PICK V : V = T \cup U
    OBVIOUS
  <2>4. s \in Seq(V) /\ t \in Seq(V)
    BY <2>1, <2>2, <2>3
  <2>5. s \o t \in Seq(V) /\ Len(s \o t) = Len(s) + Len(t)
    BY <2>4
  <2> QED
    BY <2>5 DEF IsList
<1> QED
  BY <1>1, <1>2, <1>3

\* The rows at some positions of a list are a list, each of them a row at one of these
\* positions, and every position is one of theirs.
LEMMA OnlyList ==
    ASSUME NEW rows, IsList(rows), NEW S \in SUBSET (DOMAIN rows)
    PROVE  /\ IsList(Only(rows, S)) /\ Len(Only(rows, S)) = Cardinality(S)
           /\ IsFiniteSet(S) /\ Cardinality(S) \in Nat
           /\ \A n \in DOMAIN Only(rows, S) : \E k \in S : Only(rows, S)[n] = rows[k]
           /\ \A k \in S : \E n \in DOMAIN Only(rows, S) : Only(rows, S)[n] = rows[k]
<1>1. S \in SUBSET Nat /\ IsFiniteSet(S) /\ Cardinality(S) \in Nat
  BY ListLen, FS_Subset, FS_CardinalityType
<1>2. \A n \in 1 .. Cardinality(S) : Nth(S, n) \in S /\ Cardinality({j \in S : j < Nth(S, n)}) = n - 1
  BY <1>1, NthIsOne
<1>3. PICK s : s = Only(rows, S)
  OBVIOUS
<1>4. s = [n \in 1 .. Cardinality(S) |-> rows[Nth(S, n)]]
  BY <1>3 DEF Only
<1>5. IsList(s) /\ Len(s) = Cardinality(S) /\ DOMAIN s = 1 .. Cardinality(S)
  <2>1. s = [n \in 1 .. Cardinality(S) |-> s[n]]
    BY <1>4
  <2> QED
    BY <2>1, <1>1, ListOf
<1>6. \A n \in DOMAIN s : \E k \in S : s[n] = rows[k]
  BY <1>2, <1>4
<1>7. ASSUME NEW k \in S PROVE \E n \in DOMAIN s : s[n] = rows[k]
  <2>1. PICK B : B = {j \in S : j < k}
    OBVIOUS
  <2>2. IsFiniteSet(B) /\ Cardinality(B) \in Nat /\ Cardinality(B) <= Cardinality(S) - 1
    <3>1. k \in S /\ k \notin B /\ B \subseteq S \ {k}
      BY <2>1, <1>1
    <3>2. IsFiniteSet(S \ {k}) /\ Cardinality(S \ {k}) = Cardinality(S) - 1
      BY <1>1, FS_RemoveElement
    <3> QED
      BY <3>1, <3>2, FS_Subset, FS_CardinalityType
  <2>3. PICK n : n = Cardinality(B) + 1
    OBVIOUS
  <2>4. n \in 1 .. Cardinality(S)
    BY <1>1, <2>2, <2>3
  <2>5. PICK i : i = Nth(S, n)
    OBVIOUS
  <2>6. i \in S /\ Cardinality({j \in S : j < i}) = Cardinality(B)
    BY <1>2, <2>2, <2>3, <2>4, <2>5
  <2>7. ASSUME NEW a \in S, NEW b \in S, a < b
        PROVE  Cardinality({j \in S : j < a}) # Cardinality({j \in S : j < b})
    <3>1. PICK A : A = {j \in S : j < a}
      OBVIOUS
    <3>2. PICK C : C = {j \in S : j < b}
      OBVIOUS
    <3>3. A \subseteq C /\ a \in C /\ a \notin A
      BY <1>1, <2>7, <3>1, <3>2
    <3>4. IsFiniteSet(C)
      BY <1>1, <3>2, FS_Subset
    <3>5. Cardinality(A) # Cardinality(C)
      BY <3>3, <3>4, FS_Subset
    <3> QED
      BY <3>1, <3>2, <3>5
  <2>8. i = k
    <3>1. i \in Nat /\ k \in Nat
      BY <1>1, <2>6
    <3>2. ~(i < k) /\ ~(k < i)
      BY <2>1, <2>6, <2>7
    <3> QED
      BY <3>1, <3>2
  <2> QED
    BY <1>4, <1>5, <2>4, <2>5, <2>8
<1> QED
  BY <1>1, <1>3, <1>5, <1>6, <1>7

-----------------------------------------------------------------------------
(***************************************************************************)
(* What the parser reads is a list.                                        *)
(***************************************************************************)
LEMMA ReverseList == ASSUME NEW s, IsList(s) PROVE IsList(Reverse(s)) /\ Len(Reverse(s)) = Len(s)
<1>1. PICK n : n = Len(s)
  OBVIOUS
<1>2. PICK t : t = Reverse(s)
  OBVIOUS
<1>3. t = [k \in 1 .. n |-> t[k]]
  BY <1>1, <1>2 DEF Reverse
<1> QED
  BY <1>1, <1>2, <1>3, ListLen, ListOf

\* A function of a list's positions is a list: the form of most passes.
LEMMA MappedList ==
    ASSUME NEW s, IsList(s), NEW t, NEW u, u = [k \in DOMAIN s |-> t[k]]
    PROVE  IsList(u) /\ Len(u) = Len(s) /\ DOMAIN u = DOMAIN s
<1>1. u = [k \in DOMAIN s |-> u[k]]
  OBVIOUS
<1> QED
  BY <1>1, ListLike

\* A list with one of its rows changed.
LEMMA ChangedList ==
    ASSUME NEW s, IsList(s), NEW k, NEW x
    PROVE  IsList([s EXCEPT ![k] = x]) /\ DOMAIN [s EXCEPT ![k] = x] = DOMAIN s
<1>1. PICK t : t = [s EXCEPT ![k] = x]
  OBVIOUS
<1>2. t = [j \in DOMAIN s |-> t[j]]
  BY <1>1
<1> QED
  BY <1>1, <1>2, ListLike

\* Closing a block appends at most one transaction.
LEMMA FlushTxns == ASSUME IsList(txns), Flush PROVE IsList(txns')
<1>1. txns' = txns \/ txns' = Append(txns, LinesTxn(block)) \/ txns' = Append(txns, BlockTxn(block))
  BY DEF Flush
<1>2. CASE txns' = txns
  BY <1>2
<1>3. ASSUME NEW t, txns' = Append(txns, t) PROVE IsList(txns')
  BY <1>3, ListsGrow
<1> QED
  BY <1>1, <1>2, <1>3

\* Reading a row appends to the list, or changes its last rows.
LEMMA ReadTxns == ASSUME IsList(txns), Read PROVE IsList(txns')
<1>1. CASE SkipRow
  BY <1>1 DEF SkipRow
<1>2. CASE TakeOpening
  BY <1>2 DEF TakeOpening
<1>3. CASE TakeClosing
  BY <1>3 DEF TakeClosing
<1>4. CASE TakeBalance
  <2>1. PICK t : txns' = [txns EXCEPT ![Len(txns)] = t]
    BY <1>4 DEF TakeBalance
  <2> QED
    BY <2>1, ChangedList
<1>5. CASE HoldWords
  BY <1>5 DEF HoldWords
<1>6. CASE ContinueLast
  <2>1. PICK t : txns' = [txns EXCEPT ![Len(txns)] = t]
    BY <1>6 DEF ContinueLast
  <2> QED
    BY <2>1, ChangedList
<1>7. CASE AddTxn
  <2>1. PICK t : txns' = Append(txns, t)
    BY <1>7 DEF AddTxn
  <2> QED
    BY <2>1, ListsGrow
<1>8. CASE HoldTxn
  BY <1>8 DEF HoldTxn
<1>9. CASE MergeTxn
  <2>1. PICK t : txns' = Append(txns, t)
    BY <1>9 DEF MergeTxn
  <2> QED
    BY <2>1, ListsGrow
<1>10. CASE AddText
  <2>1. PICK t : txns' = Append(txns, t)
    BY <1>10 DEF AddText
  <2> QED
    BY <2>1, ListsGrow
<1>11. CASE KotakBlock
  <2>1. txns' = txns \/ \E t : txns' = Append(txns, t)
    BY <1>11 DEF KotakBlock
  <2>2. ASSUME NEW t, txns' = Append(txns, t) PROVE IsList(txns')
    BY <2>2, ListsGrow
  <2> QED
    BY <2>1, <2>2
<1>12. CASE OpenBlock
  BY <1>12, FlushTxns DEF OpenBlock
<1>13. CASE GrowBlock
  BY <1>13 DEF GrowBlock
<1>14. CASE EndOfRows
  BY <1>14, FlushTxns DEF EndOfRows
<1> QED
  BY <1>1, <1>2, <1>3, <1>4, <1>5, <1>6, <1>7, <1>8, <1>9, <1>10, <1>11, <1>12, <1>13, <1>14 DEF Read

\* The passes over what was read map it, drop rows of it or reverse it.
LEMMA SettlingTxns == ASSUME IsList(txns), Settling PROVE IsList(txns')
<1>1. CASE Heading
  BY <1>1 DEF Heading
<1>2. CASE Correct
  <2>1. txns' = [k \in DOMAIN txns |-> txns'[k]]
    BY <1>2 DEF Correct
  <2> QED
    BY <2>1, ListLike
<1>3. CASE Direction
  <2>1. txns' = [k \in DOMAIN txns |-> txns'[k]]
    BY <1>3 DEF Direction
  <2> QED
    BY <2>1, ListLike
<1>4. CASE Hints
  <2>1. txns' = [k \in DOMAIN txns |-> txns'[k]]
    BY <1>4 DEF Hints
  <2> QED
    BY <2>1, ListLike
<1>5. CASE Movement
  <2>1. txns' = [k \in DOMAIN txns |-> txns'[k]]
    BY <1>5 DEF Movement
  <2> QED
    BY <2>1, ListLike
<1>6. CASE Decide
  <2>1. PICK ts : ts = InTime(txns)
    OBVIOUS
  <2>2. IsList(ts)
    BY <2>1, ReverseList DEF InTime
  <2>3. PICK ds : /\ ds = [k \in DOMAIN ts |-> Decided(ts[k], BalanceBefore(ts, k, None))]
                  /\ txns' = IF NewestFirst(txns) THEN Reverse(ds) ELSE ds
    BY <1>6, <2>1 DEF Decide
  <2>4. ds = [k \in DOMAIN ts |-> ds[k]]
    BY <2>3
  <2> QED
    BY <2>2, <2>3, <2>4, ListLike, ReverseList
<1>7. CASE TurnRound
  BY <1>7, ReverseList DEF TurnRound
<1>8. CASE Derive
  <2>1. PICK listed : /\ listed = IF Reader \in {"Text", "Lines"} /\ NewestFirst(txns) THEN Reverse(txns) ELSE txns
                      /\ txns' = IF listed = txns THEN Stamped(listed, Derived(listed))
                                 ELSE Reverse(Stamped(listed, Derived(listed)))
    BY <1>8 DEF Derive
  <2>2. IsList(listed)
    BY <2>1, ReverseList
  <2>3. PICK stamped : stamped = Stamped(listed, Derived(listed))
    OBVIOUS
  <2>4. stamped = [k \in DOMAIN listed |-> stamped[k]]
    BY <2>3 DEF Stamped
  <2> QED
    BY <2>1, <2>2, <2>3, <2>4, ListLike, ReverseList
<1>9. CASE Dedupe
  <2>1. PICK S \in SUBSET (DOMAIN txns) : txns' = Only(txns, S)
    BY <1>9 DEF Dedupe
  <2> QED
    BY <2>1, OnlyList
<1>10. CASE Validate
  <2>1. txns' = [k \in DOMAIN txns |-> txns'[k]]
    BY <1>10 DEF Validate
  <2> QED
    BY <2>1, ListLike
<1>11. CASE OneSide
  <2>1. txns' = [k \in DOMAIN txns |-> txns'[k]]
    BY <1>11 DEF OneSide
  <2> QED
    BY <2>1, ListLike
<1>12. CASE Repair
  <2>1. txns' = [k \in DOMAIN txns |-> txns'[k]]
    BY <1>12 DEF Repair
  <2> QED
    BY <2>1, ListLike
<1>13. CASE Prepend
  <2>1. txns' = txns \/ \E x : txns' = <<x>> \o txns
    BY <1>13 DEF Prepend
  <2>2. ASSUME NEW x PROVE IsList(<<x>>)
    <3>1. <<x>> \in Seq({x})
      OBVIOUS
    <3> QED
      BY <3>1 DEF IsList
  <2> QED
    BY <2>1, <2>2, ListsGrow
<1> QED
  BY <1>1, <1>2, <1>3, <1>4, <1>5, <1>6, <1>7, <1>8, <1>9, <1>10, <1>11, <1>12, <1>13 DEF Settling

\* Every step of the parser keeps a list.
LEMMA NextTxns == ASSUME IsList(txns), Next PROVE IsList(txns')
  BY ReadTxns, SettlingTxns DEF Next, Finished, vars

-----------------------------------------------------------------------------
(***************************************************************************)
(* The rows of the screen: what classifying, flagging and naming them      *)
(* leaves alone.                                                           *)
(***************************************************************************)
Fields == {"date", "text", "ref", "dr", "cr", "bal", "vendor", "head", "type", "status", "conf", "source",
           "tags", "dup", "opening", "gst"}
IsRow(t) == Fields \subseteq DOMAIN t

\* u is the row t with other labels, flagged or not as it was.
Relabels(u, t) == /\ DOMAIN u = DOMAIN t
                  /\ u.date = t.date /\ u.text = t.text /\ u.dr = t.dr /\ u.cr = t.cr
                  /\ u.dup = t.dup /\ u.opening = t.opening

\* Naming a row leaves its amounts and its flag.
LEMMA NamedRelabels ==
    ASSUME NEW t, IsRow(t), NEW vendor, NEW head, NEW type
    PROVE  Relabels(Named(t, vendor, head, type), t)
  BY DEF Named, IsRow, Fields, Relabels

\* So does what a rule or the dictionary finds.
LEMMA AsFoundRelabels ==
    ASSUME NEW t, IsRow(t), NEW rule, NEW hit, NEW party
    PROVE  Relabels(AsFound(t, rule, hit, party), t)
<1>1. ASSUME NEW n, Relabels(n, t), NEW conf, NEW status, NEW source,
             NEW u, u = [n EXCEPT !.conf = conf, !.status = status, !.source = source]
      PROVE  Relabels(u, t)
  BY <1>1 DEF IsRow, Fields, Relabels
<1>2. CASE rule # Empty
  <2>1. PICK n : n = Named(t, rule.vendor, rule.head, rule.type)
    OBVIOUS
  <2>2. PICK conf : AsFound(t, rule, hit, party) = [n EXCEPT !.conf = conf, !.status = "classified", !.source = "rule"]
    BY <1>2, <2>1 DEF AsFound
  <2>3. Relabels(n, t)
    BY <2>1, NamedRelabels
  <2> QED
    BY <2>2, <2>3, <1>1
<1>3. CASE rule = Empty /\ hit # Empty
  <2>1. AsFound(t, rule, hit, party) = [t EXCEPT !.vendor = hit.vendor, !.head = hit.head, !.type = hit.type,
                   !.conf = 45, !.status = "classified", !.source = "keyword"]
    BY <1>3 DEF AsFound
  <2> QED
    BY <2>1 DEF IsRow, Fields, Relabels
<1>4. CASE rule = Empty /\ hit = Empty
  <2>1. PICK n : n = Named(t, party, <<>>, "")
    OBVIOUS
  <2>2. AsFound(t, rule, hit, party) = [n EXCEPT !.conf = 0, !.status = "unreviewed", !.source = ""]
    BY <1>4, <2>1 DEF AsFound
  <2>3. Relabels(n, t)
    BY <2>1, NamedRelabels
  <2> QED
    BY <2>2, <2>3, <1>1
<1> QED
  BY <1>2, <1>3, <1>4

\* So does classifying it.
LEMMA ClassifyOneRelabels ==
    ASSUME NEW t, IsRow(t), NEW rs, NEW st
    PROVE  Relabels(ClassifyOne(t, rs, st), t)
<1>1. PICK a : a = Assigned(t, rs)
  OBVIOUS
<1>2. Relabels(a, t)
  BY <1>1, AsFoundRelabels DEF Assigned
<1>3. PICK b : b = Typed(a)
  OBVIOUS
<1>4. Relabels(b, t)
  <2>1. b = a \/ \E type : b = [a EXCEPT !.type = type]
    BY <1>3 DEF Typed
  <2> QED
    BY <2>1, <1>2 DEF IsRow, Fields, Relabels
<1>5. PICK c : c = Tagged(b)
  OBVIOUS
<1>6. Relabels(c, t)
  <2>1. PICK tags : c = [b EXCEPT !.tags = tags]
    BY <1>5 DEF Tagged
  <2> QED
    BY <2>1, <1>4 DEF IsRow, Fields, Relabels
<1>7. PICK d : d = Taxed(c, st.gst, st.ledgers)
  OBVIOUS
<1>8. Relabels(d, t)
  <2>1. d = c \/ \E tags, head, gst : d = [c EXCEPT !.tags = tags, !.head = head, !.gst = gst]
    BY <1>7 DEF Taxed, Estimated
  <2> QED
    BY <2>1, <1>6 DEF IsRow, Fields, Relabels
<1> QED
  BY <1>1, <1>3, <1>5, <1>7, <1>8 DEF ClassifyOne

\* A row that is flagged follows one of the same amount.
Follows(ts) == \A k \in DOMAIN ts : ts[k].dup => \E j \in 1 .. k - 1 : Amount(ts[j]) = Amount(ts[k])
Screen(ts)  == IsList(ts) /\ (\A k \in DOMAIN ts : IsRow(ts[k])) /\ Follows(ts)

\* Rows relabelled one by one.
LEMMA RelabelledScreen ==
    ASSUME NEW ts, Screen(ts), NEW us, us = [k \in DOMAIN ts |-> us[k]],
           \A k \in DOMAIN ts : Relabels(us[k], ts[k])
    PROVE  Screen(us) /\ DOMAIN us = DOMAIN ts
<1>1. IsList(us) /\ DOMAIN us = DOMAIN ts
  BY ListLike DEF Screen
<1>2. \A k \in DOMAIN us : IsRow(us[k])
  BY <1>1 DEF Screen, IsRow, Relabels
<1>3. \A k \in DOMAIN ts : Amount(us[k]) = Amount(ts[k])
  BY DEF Amount, Relabels
<1>4. Follows(us)
  <2> SUFFICES ASSUME NEW k \in DOMAIN us, us[k].dup
               PROVE  \E j \in 1 .. k - 1 : Amount(us[j]) = Amount(us[k])
    BY DEF Follows
  <2>1. ts[k].dup
    BY <1>1 DEF Relabels
  <2>2. PICK j \in 1 .. k - 1 : Amount(ts[j]) = Amount(ts[k])
    BY <1>1, <2>1 DEF Screen, Follows
  <2>3. j \in DOMAIN ts
    BY <1>1, ListLen DEF Screen
  <2> QED
    BY <1>1, <1>3, <2>2, <2>3
<1> QED
  BY <1>1, <1>2, <1>4 DEF Screen

\* Classifying a screen keeps what is known of it.
LEMMA ClassifiedScreen ==
    ASSUME NEW ts, Screen(ts), NEW rs, NEW st
    PROVE  Screen(ClassifyEach(ts, rs, st))
<1>1. PICK us : us = ClassifyEach(ts, rs, st)
  OBVIOUS
<1>2. us = [k \in DOMAIN ts |-> us[k]]
  BY <1>1 DEF ClassifyEach
<1>3. ASSUME NEW k \in DOMAIN ts PROVE Relabels(us[k], ts[k])
  <2>1. us[k] = ts[k] \/ us[k] = ClassifyOne(ts[k], rs, st)
    BY <1>1 DEF ClassifyEach
  <2>2. Relabels(ts[k], ts[k])
    BY DEF Relabels
  <2> QED
    BY <2>1, <2>2, ClassifyOneRelabels DEF Screen
<1> QED
  BY <1>1, <1>2, <1>3, RelabelledScreen

-----------------------------------------------------------------------------
(***************************************************************************)
(* The duplicates.                                                         *)
(***************************************************************************)
\* Whether a row is flagged is well defined: it depends on the earlier ones only.
LEMMA HitExists ==
    ASSUME NEW n \in Nat, NEW R
    PROVE  \E f : f = [k \in 1 .. n |-> \E j \in 1 .. k - 1 : <<j, k>> \in R /\ ~f[j]]
<1> DEFINE Right(f, m) == f = [k \in 1 .. m |-> \E j \in 1 .. k - 1 : <<j, k>> \in R /\ ~f[j]]
           Missing == {m \in Nat : ~\E f : Right(f, m)}
<1>1. Missing = {}
  <2> SUFFICES ASSUME Missing # {} PROVE FALSE
    OBVIOUS
  <2>1. PICK m \in Missing : \A l \in Missing : m <= l
    <3>1. Missing \in SUBSET Nat
      OBVIOUS
    <3> HIDE DEF Missing
    <3> QED
      BY <3>1, Least
  <2>2. CASE m = 0
    <3>1. PICK f : f = [k \in 1 .. 0 |-> TRUE]
      OBVIOUS
    <3>2. Right(f, 0)
      BY <3>1
    <3> QED
      BY <2>1, <2>2, <3>2
  <2>3. CASE m # 0
    <3>1. m - 1 \in Nat /\ ~(m <= m - 1)
      BY <2>1, <2>3
    <3>2. m - 1 \notin Missing
      BY <2>1, <3>1
    <3>3. PICK f : Right(f, m - 1)
      BY <3>1, <3>2
    <3>4. PICK last \in BOOLEAN : last = \E j \in 1 .. m - 1 : <<j, m>> \in R /\ ~f[j]
      OBVIOUS
    <3>5. PICK g : g = [k \in 1 .. m |-> IF k = m THEN last ELSE f[k]]
      OBVIOUS
    <3>6. \A k \in 1 .. m - 1 : g[k] = f[k]
      BY <3>1, <3>5
    <3>7. ASSUME NEW k \in 1 .. m
          PROVE  g[k] = \E j \in 1 .. k - 1 : <<j, k>> \in R /\ ~g[j]
      <4>1. \A j \in 1 .. k - 1 : g[j] = f[j]
        BY <3>1, <3>6
      <4>2. (\E j \in 1 .. k - 1 : <<j, k>> \in R /\ ~g[j]) = (\E j \in 1 .. k - 1 : <<j, k>> \in R /\ ~f[j])
        BY <4>1
      <4>3. CASE k = m
        BY <3>1, <3>4, <3>5, <4>2, <4>3
      <4>4. CASE k # m
        <5>1. k \in 1 .. m - 1
          BY <3>1, <4>4
        <5>2. f[k] = \E j \in 1 .. k - 1 : <<j, k>> \in R /\ ~f[j]
          BY <3>3, <5>1
        <5> QED
          BY <3>6, <4>2, <5>1, <5>2
      <4> QED
        BY <4>3, <4>4
    <3>8. Right(g, m)
      BY <3>5, <3>7
    <3> QED
      BY <2>1, <3>8
  <2> QED
    BY <2>2, <2>3
<1>2. n \notin Missing
  BY <1>1
<1> QED
  BY <1>2

\* The third pass flags only rows that follow one like them.
LEMMA ResemblesEarlier ==
    ASSUME NEW ts, IsList(ts), NEW k \in Resembling(ts)
    PROVE  k \in DOMAIN ts /\ \E j \in 1 .. k - 1 : SameDay(ts[j], ts[k])
<1> DEFINE Live(t) == Eligible(t) /\ ~t.dup
           R == {p \in (1 .. Len(ts)) \X (1 .. Len(ts)) :
                    Live(ts[p[2]]) /\ Live(ts[p[1]]) /\ SameDay(ts[p[1]], ts[p[2]])}
           Body(f, i) == Live(ts[i]) /\ \E j \in 1 .. i - 1 : Live(ts[j]) /\ ~f[j] /\ SameDay(ts[j], ts[i])
<1>1. Len(ts) \in Nat /\ DOMAIN ts = 1 .. Len(ts)
  BY ListLen
<1>2. PICK f : f = [i \in 1 .. Len(ts) |-> \E j \in 1 .. i - 1 : <<j, i>> \in R /\ ~f[j]]
  <2> HIDE DEF R
  <2> QED
    BY <1>1, HitExists
<1>3. f = [i \in 1 .. Len(ts) |-> Body(f, i)]
  <2>1. ASSUME NEW i \in 1 .. Len(ts)
        PROVE  (\E j \in 1 .. i - 1 : <<j, i>> \in R /\ ~f[j]) = Body(f, i)
    <3>1. \A j \in 1 .. i - 1 : j \in 1 .. Len(ts)
      BY <1>1
    <3>2. \A j \in 1 .. i - 1 : <<j, i>> \in R <=> Live(ts[i]) /\ Live(ts[j]) /\ SameDay(ts[j], ts[i])
      BY <3>1
    <3> HIDE DEF R, Live
    <3> QED
      BY <3>2
  <2> HIDE DEF R, Body
  <2> QED
    BY <1>2, <2>1
<1>4. PICK h : /\ h = [i \in 1 .. Len(ts) |-> Body(h, i)]
               /\ Resembling(ts) = {i \in DOMAIN ts : h[i]}
  <2>1. PICK h : h = CHOOSE g : g = [i \in 1 .. Len(ts) |-> Body(g, i)]
    OBVIOUS
  <2>2. h = [i \in 1 .. Len(ts) |-> Body(h, i)]
    <3> HIDE DEF Body
    <3> QED
      BY <1>3, <2>1
  <2>3. Resembling(ts) = {i \in DOMAIN ts : h[i]}
    BY <2>1 DEF Resembling
  <2> QED
    BY <2>2, <2>3
<1>5. k \in DOMAIN ts /\ h[k]
  BY <1>4
<1>6. Body(h, k)
  <2> HIDE DEF Body
  <2> QED
    BY <1>1, <1>4, <1>5
<1> QED
  BY <1>5, <1>6

\* Of a flagged row's amount the first is not flagged.
LEMMA FirstUnflagged ==
    ASSUME NEW ts, Screen(ts), NEW k \in DOMAIN ts, ts[k].dup
    PROVE  \E j \in 1 .. k - 1 : ~ts[j].dup /\ Amount(ts[j]) = Amount(ts[k])
<1> DEFINE Equal == {j \in DOMAIN ts : Amount(ts[j]) = Amount(ts[k])}
<1>1. Len(ts) \in Nat /\ DOMAIN ts = 1 .. Len(ts)
  BY ListLen DEF Screen
<1>2. k \in Equal
  OBVIOUS
<1>3. PICK l \in Equal : \A j \in Equal : l <= j
  <2>1. Equal \in SUBSET Nat
    BY <1>1
  <2> HIDE DEF Equal
  <2> QED
    BY <1>2, <2>1, Least
<1>4. l \in DOMAIN ts /\ Amount(ts[l]) = Amount(ts[k]) /\ l <= k
  BY <1>2, <1>3
<1>5. ~ts[l].dup
  <2> SUFFICES ASSUME ts[l].dup PROVE FALSE
    OBVIOUS
  <2>1. PICK j \in 1 .. l - 1 : Amount(ts[j]) = Amount(ts[l])
    BY <1>4 DEF Screen, Follows
  <2>2. j \in Equal /\ ~(l <= j)
    BY <1>1, <1>4, <2>1
  <2> QED
    BY <1>3, <2>2
<1>6. l # k
  BY <1>5
<1>7. l \in 1 .. k - 1
  BY <1>1, <1>4, <1>6
<1> QED
  BY <1>4, <1>5, <1>7

\* Flagging rows that follow one of the same amount.
LEMMA FlaggedScreen ==
    ASSUME NEW ts, Screen(ts), NEW hit,
           \A k \in hit : k \in DOMAIN ts /\ \E j \in 1 .. k - 1 : Amount(ts[j]) = Amount(ts[k]),
           NEW us, us = FlagAll(ts, hit)
    PROVE  /\ Screen(us) /\ DOMAIN us = DOMAIN ts
           /\ \A k \in DOMAIN ts : /\ HashOf(us[k]) = HashOf(ts[k]) /\ Amount(us[k]) = Amount(ts[k])
                                   /\ Eligible(us[k]) <=> Eligible(ts[k])
                                   /\ us[k].dup <=> (ts[k].dup \/ k \in hit)
<1>1. us = [k \in DOMAIN ts |-> us[k]]
  BY DEF FlagAll
<1>2. IsList(us) /\ DOMAIN us = DOMAIN ts
  BY <1>1, ListLike DEF Screen
<1>3. ASSUME NEW k \in DOMAIN ts
      PROVE  /\ IsRow(us[k])
             /\ HashOf(us[k]) = HashOf(ts[k]) /\ Amount(us[k]) = Amount(ts[k])
             /\ Eligible(us[k]) <=> Eligible(ts[k])
             /\ us[k].dup <=> (ts[k].dup \/ k \in hit)
  <2>1. PICK t : t = ts[k]
    OBVIOUS
  <2>2. IsRow(t)
    BY <2>1 DEF Screen
  <2>3. CASE k \in hit
    <3>1. PICK tags : us[k] = [t EXCEPT !.dup = TRUE, !.tags = tags]
      BY <2>1, <2>3 DEF FlagAll, Flagged
    <3>2. PICK u : u = us[k]
      OBVIOUS
    <3>3. /\ DOMAIN u = DOMAIN t /\ u.date = t.date /\ u.text = t.text /\ u.dr = t.dr /\ u.cr = t.cr
          /\ u.opening = t.opening /\ u.status = t.status /\ u.dup = TRUE
      BY <2>2, <3>1, <3>2 DEF IsRow, Fields
    <3>4. IsRow(u) /\ HashOf(u) = HashOf(t) /\ Amount(u) = Amount(t) /\ (Eligible(u) <=> Eligible(t)) /\ u.dup
      BY <2>2, <3>3 DEF IsRow, HashOf, Amount, Eligible
    <3> QED
      BY <2>1, <2>3, <3>2, <3>4
  <2>4. CASE k \notin hit
    <3>1. us[k] = ts[k]
      BY <2>4 DEF FlagAll
    <3> QED
      BY <2>1, <2>2, <2>4, <3>1
  <2> QED
    BY <2>3, <2>4
<1>4. Follows(us)
  <2> SUFFICES ASSUME NEW k \in DOMAIN ts, us[k].dup
               PROVE  \E j \in 1 .. k - 1 : Amount(us[j]) = Amount(us[k])
    BY <1>2 DEF Follows
  <2>1. ts[k].dup \/ k \in hit
    BY <1>3
  <2>2. PICK j \in 1 .. k - 1 : Amount(ts[j]) = Amount(ts[k])
    BY <2>1 DEF Screen, Follows
  <2>3. j \in DOMAIN ts
    BY <1>2, ListLen
  <2> QED
    BY <1>3, <2>2, <2>3
<1> QED
  BY <1>2, <1>3, <1>4 DEF Screen

\* What DupFlags says of a screen.
Unrepeated(ts) ==
    \A k \in DOMAIN ts : Eligible(ts[k]) =>
        IF ts[k].dup
        THEN \E j \in 1 .. k - 1 : ~ts[j].dup /\ Amount(ts[j]) = Amount(ts[k])
        ELSE \A j \in 1 .. k - 1 : Eligible(ts[j]) => ts[j].dup \/ HashOf(ts[j]) # HashOf(ts[k])

\* Detection makes a list of whole rows of what it is given, unrepeated.
LEMMA DetectedScreen ==
    ASSUME NEW ts, Screen(ts)
    PROVE  Screen(Detect(ts)) /\ Unrepeated(Detect(ts))
<1>1. PICK live : live = {k \in DOMAIN ts : Eligible(ts[k])}
  OBVIOUS
<1>2. PICK first : first = Repeats(live, [k \in live |-> HashOf(ts[k])])
  OBVIOUS
<1>3. PICK one : one = FlagAll(ts, first)
  OBVIOUS
<1>4. PICK left1 : left1 = {k \in live : ~one[k].dup /\ Referred(one[k])}
  OBVIOUS
<1>5. PICK second : second = Repeats(left1, [k \in left1 |-> PaperOf(one[k])])
  OBVIOUS
<1>6. PICK two : two = FlagAll(one, second)
  OBVIOUS
<1>7. PICK three : three = FlagAll(two, Resembling(two))
  OBVIOUS
<1>8. Detect(ts) = three
  BY <1>1, <1>2, <1>3, <1>4, <1>5, <1>6, <1>7 DEF Detect
<1>9. Len(ts) \in Nat /\ DOMAIN ts = 1 .. Len(ts)
  BY ListLen DEF Screen
<1>10. \A k \in DOMAIN ts : \A j \in DOMAIN ts : j < k => j \in 1 .. k - 1
  BY <1>9
<1>11. \A k \in first : k \in DOMAIN ts /\ \E j \in 1 .. k - 1 : Amount(ts[j]) = Amount(ts[k])
  <2> SUFFICES ASSUME NEW k \in first
               PROVE  k \in DOMAIN ts /\ \E j \in 1 .. k - 1 : Amount(ts[j]) = Amount(ts[k])
    OBVIOUS
  <2>1. PICK j \in live : k \in live /\ j < k /\ HashOf(ts[j]) = HashOf(ts[k])
    BY <1>2 DEF Repeats
  <2>2. Amount(ts[j]) = Amount(ts[k])
    BY <2>1 DEF HashOf, Amount
  <2> QED
    BY <1>1, <1>10, <2>1, <2>2
<1>12. /\ Screen(one) /\ DOMAIN one = DOMAIN ts
       /\ \A k \in DOMAIN ts : /\ HashOf(one[k]) = HashOf(ts[k]) /\ Amount(one[k]) = Amount(ts[k])
                               /\ Eligible(one[k]) <=> Eligible(ts[k])
                               /\ one[k].dup <=> (ts[k].dup \/ k \in first)
  BY <1>3, <1>11, FlaggedScreen
<1>13. \A k \in second : k \in DOMAIN one /\ \E j \in 1 .. k - 1 : Amount(one[j]) = Amount(one[k])
  <2> SUFFICES ASSUME NEW k \in second
               PROVE  k \in DOMAIN one /\ \E j \in 1 .. k - 1 : Amount(one[j]) = Amount(one[k])
    OBVIOUS
  <2>1. PICK j \in left1 : k \in left1 /\ j < k /\ PaperOf(one[j]) = PaperOf(one[k])
    BY <1>5 DEF Repeats
  <2>2. Amount(one[j]) = Amount(one[k])
    BY <2>1 DEF PaperOf
  <2> QED
    BY <1>1, <1>4, <1>10, <1>12, <2>1, <2>2
<1>14. /\ Screen(two) /\ DOMAIN two = DOMAIN one
       /\ \A k \in DOMAIN one : /\ HashOf(two[k]) = HashOf(one[k]) /\ Amount(two[k]) = Amount(one[k])
                                /\ Eligible(two[k]) <=> Eligible(one[k])
                                /\ two[k].dup <=> (one[k].dup \/ k \in second)
  BY <1>6, <1>12, <1>13, FlaggedScreen
<1>15. \A k \in Resembling(two) : k \in DOMAIN two /\ \E j \in 1 .. k - 1 : Amount(two[j]) = Amount(two[k])
  <2> SUFFICES ASSUME NEW k \in Resembling(two)
               PROVE  k \in DOMAIN two /\ \E j \in 1 .. k - 1 : Amount(two[j]) = Amount(two[k])
    OBVIOUS
  <2>1. k \in DOMAIN two /\ \E j \in 1 .. k - 1 : SameDay(two[j], two[k])
    BY <1>14, ResemblesEarlier DEF Screen
  <2>2. PICK j \in 1 .. k - 1 : SameDay(two[j], two[k])
    BY <2>1
  <2>3. Amount(two[j]) = Amount(two[k])
    BY <2>2 DEF SameDay, Amount
  <2> QED
    BY <2>1, <2>2, <2>3
<1>16. /\ Screen(three) /\ DOMAIN three = DOMAIN two
       /\ \A k \in DOMAIN two : /\ HashOf(three[k]) = HashOf(two[k]) /\ Amount(three[k]) = Amount(two[k])
                                /\ Eligible(three[k]) <=> Eligible(two[k])
                                /\ three[k].dup <=> (two[k].dup \/ k \in Resembling(two))
  BY <1>7, <1>14, <1>15, FlaggedScreen
<1>17. Unrepeated(three)
  <2> SUFFICES ASSUME NEW k \in DOMAIN three, ~three[k].dup, Eligible(three[k]),
                      NEW j \in 1 .. k - 1, Eligible(three[j])
               PROVE  HashOf(three[j]) # HashOf(three[k])
    BY <1>16, FirstUnflagged DEF Unrepeated
  <2>1. k \in DOMAIN ts /\ j \in DOMAIN ts /\ j < k
    BY <1>9, <1>12, <1>14, <1>16
  <2>2. Eligible(ts[k]) /\ Eligible(ts[j]) /\ k \notin first
    BY <1>12, <1>14, <1>16, <2>1
  <2>3. HashOf(ts[j]) # HashOf(ts[k])
    BY <1>1, <1>2, <2>1, <2>2 DEF Repeats
  <2> QED
    BY <1>12, <1>14, <1>16, <2>1, <2>3
<1> QED
  BY <1>8, <1>16, <1>17

-----------------------------------------------------------------------------
(***************************************************************************)
(* One name for every party.                                               *)
(***************************************************************************)
\* A finite set has a member that no other comes before.
LEMMA MinimalOf ==
    ASSUME NEW S, IsFiniteSet(S), S # {}, NEW R,
           \A a \in S : <<a, a>> \notin R,
           \A a, b, c \in S : <<a, b>> \in R /\ <<b, c>> \in R => <<a, c>> \in R
    PROVE  \E a \in S : \A b \in S : <<b, a>> \notin R
<1>1. PICK prior : prior = [a \in S |-> {b \in S : <<b, a>> \in R}]
  OBVIOUS
<1>2. PICK count : count = [a \in S |-> Cardinality(prior[a])]
  OBVIOUS
<1>3. ASSUME NEW a \in S PROVE IsFiniteSet(prior[a]) /\ count[a] = Cardinality(prior[a]) /\ count[a] \in Nat
  <2>1. prior[a] \in SUBSET S /\ count[a] = Cardinality(prior[a])
    BY <1>1, <1>2
  <2> QED
    BY <2>1, FS_Subset, FS_CardinalityType
<1>4. PICK Counts : Counts = {count[a] : a \in S}
  OBVIOUS
<1>5. PICK m \in Counts : \A c \in Counts : m <= c
  <2>1. Counts \in SUBSET Nat /\ Counts # {}
    BY <1>3, <1>4
  <2> QED
    BY <2>1, Least
<1>6. PICK a \in S : m = count[a]
  BY <1>4, <1>5
<1>7. ASSUME NEW b \in S, <<b, a>> \in R PROVE FALSE
  <2>1. \A c \in prior[b] : c \in prior[a]
    BY <1>1, <1>7
  <2>2. b \in prior[a] /\ b \notin prior[b]
    BY <1>1, <1>7
  <2>3. prior[b] \in SUBSET prior[a] /\ prior[b] # prior[a]
    BY <2>1, <2>2
  <2>4. count[b] <= count[a] /\ count[b] # count[a]
    BY <1>3, <2>3, FS_Subset
  <2>5. count[a] <= count[b]
    BY <1>4, <1>5, <1>6
  <2> QED
    BY <1>3, <2>4, <2>5
<1> QED
  BY <1>7

\* As many values as arguments at most.
LEMMA FiniteImage ==
    ASSUME NEW S, IsFiniteSet(S), NEW f
    PROVE  IsFiniteSet({f[x] : x \in S})
<1> DEFINE T == {f[x] : x \in S}
           g == [x \in S |-> f[x]]
<1>1. g \in Surjection(S, T)
  BY DEF Surjection
<1> HIDE DEF T, g
<1>2. IsFiniteSet(T)
  BY <1>1, FS_Surjection
<1> QED
  BY <1>2 DEF T

\* The weight of a spelling is a number.
LEMMA WeightNat ==
    ASSUME NEW ts, IsList(ts), NEW norm, NEW name
    PROVE  Weight(ts, norm, name) \in Nat
<1>1. \A P \in SUBSET (DOMAIN ts) : Cardinality(P) \in Nat
  BY ListLen, FS_Subset, FS_CardinalityType
<1> QED
  BY <1>1 DEF Weight

\* The fullest of some names is one of them.
LEMMA FullestIsOne ==
    ASSUME NEW ts, IsList(ts), NEW norm, NEW fuller, IsFiniteSet(fuller), fuller # {}
    PROVE  Fullest(ts, norm, fuller) \in fuller
<1> DEFINE w == [n \in fuller |-> Weight(ts, norm, n)]
           Heavier == {p \in fuller \X fuller : w[p[1]] > w[p[2]]}
           most == {n \in fuller : \A o \in fuller : Weight(ts, norm, n) >= Weight(ts, norm, o)}
           Earlier == {p \in most \X most : <<p[1][1], p[2][1]>> \in Before}
<1>1. \A n \in fuller : w[n] = Weight(ts, norm, n) /\ w[n] \in Nat
  BY WeightNat
<1>2. PICK n \in fuller : \A o \in fuller : <<o, n>> \notin Heavier
  <2>1. /\ \A a \in fuller : <<a, a>> \notin Heavier
        /\ \A a, b, c \in fuller : <<a, b>> \in Heavier /\ <<b, c>> \in Heavier => <<a, c>> \in Heavier
    <3> HIDE DEF w
    <3> QED
      BY <1>1
  <2> HIDE DEF Heavier
  <2> QED
    BY <2>1, MinimalOf
<1>3. n \in most
  <2>1. \A o \in fuller : ~(w[o] > w[n])
    <3> HIDE DEF w
    <3> QED
      BY <1>2
  <2>2. \A o \in fuller : w[n] >= w[o]
    <3> HIDE DEF w
    <3> QED
      BY <1>1, <2>1
  <2> HIDE DEF w
  <2> QED
    BY <1>1, <2>2
<1>4. most \subseteq fuller /\ IsFiniteSet(most) /\ most # {}
  <2>1. most \in SUBSET fuller
    OBVIOUS
  <2> HIDE DEF most
  <2> QED
    BY <1>3, <2>1, FS_Subset
<1>5. PICK m \in most : \A o \in most : <<o, m>> \notin Earlier
  <2>1. /\ \A a \in most : <<a, a>> \notin Earlier
        /\ \A a, b, c \in most : <<a, b>> \in Earlier /\ <<b, c>> \in Earlier => <<a, c>> \in Earlier
    <3> HIDE DEF most
    <3>1. \A x, y : <<x, y>> \in Before => x # y
      BY BeforeIsAnOrder
    <3>2. \A x, y, z : <<x, y>> \in Before /\ <<y, z>> \in Before => <<x, z>> \in Before
      BY BeforeIsAnOrder
    <3> QED
      BY <3>1, <3>2
  <2> HIDE DEF Earlier, most
  <2> QED
    BY <1>4, <2>1, MinimalOf
<1>6. \E l \in most : \A o \in most : <<o[1], l[1]>> \notin Before
  <2> HIDE DEF most
  <2> QED
    BY <1>5
<1>7. Fullest(ts, norm, fuller) = CHOOSE l \in most : \A o \in most : <<o[1], l[1]>> \notin Before
  BY DEF Fullest
<1> HIDE DEF most
<1> QED
  BY <1>4, <1>6, <1>7

\* The spellings are some of the names, no two of them alike, and one like each name.
LEMMA SpellingsApart ==
    ASSUME NEW names, IsFiniteSet(names), NEW spellings \in Spellings(names)
    PROVE  /\ spellings \subseteq names /\ IsFiniteSet(spellings)
           /\ \A n \in names : \E s \in spellings : Alike(s, n)
           /\ \A a, b \in spellings : Alike(a, b) => a = b
<1> DEFINE alone == {n \in names : \A o \in names \ {n} : ~Alike(n, o)}
<1>1. PICK S \in SUBSET (names \ alone) :
        /\ \A n \in names \ alone : Cardinality({s \in S : Alike(s, n)}) = 1
        /\ spellings = alone \cup S
  BY DEF Spellings
<1>2. /\ \A a : Alike(a, a)
      /\ \A a, b : Alike(a, b) => Alike(b, a)
  BY DEF Alike
<1>3. spellings \subseteq names /\ IsFiniteSet(spellings)
  <2>1. spellings \in SUBSET names
    BY <1>1
  <2> QED
    BY <2>1, FS_Subset
<1>4. ASSUME NEW n \in names PROVE \E s \in spellings : Alike(s, n)
  <2>1. CASE n \in alone
    BY <1>1, <1>2, <2>1
  <2>2. CASE n \notin alone
    <3>1. PICK X : X = {s \in S : Alike(s, n)}
      OBVIOUS
    <3>2. Cardinality(X) = 1
      BY <1>1, <2>2, <3>1
    <3>3. X # {}
      BY <3>2, FS_EmptySet
    <3> HIDE DEF alone
    <3> QED
      BY <1>1, <3>1, <3>3
  <2> QED
    BY <2>1, <2>2
<1>5. ASSUME NEW a \in spellings, NEW b \in spellings, Alike(a, b) PROVE a = b
  <2>1. CASE a \in alone
    BY <1>3, <1>5, <2>1
  <2>2. CASE b \in alone
    BY <1>2, <1>3, <1>5, <2>2
  <2>3. CASE a \notin alone /\ b \notin alone
    <3>1. PICK X : X = {s \in S : Alike(s, a)}
      OBVIOUS
    <3>2. Cardinality(X) = 1
      BY <1>1, <1>3, <2>3, <3>1
    <3>3. IsFiniteSet(X)
      <4>1. X \in SUBSET spellings
        BY <1>1, <3>1
      <4> QED
        BY <1>3, <4>1, FS_Subset
    <3>4. PICK x : X = {x}
      BY <3>2, <3>3, FS_Singleton
    <3>5. a \in X /\ b \in X
      BY <1>1, <1>2, <1>5, <2>3, <3>1
    <3> QED
      BY <3>4, <3>5
  <2> QED
    BY <2>1, <2>2, <2>3
<1> QED
  BY <1>3, <1>4, <1>5

\* Names of the same words resolve to one of them.
LEMMA ResolvedIsOne ==
    ASSUME NEW ts, IsList(ts), NEW names, IsFiniteSet(names), NEW spellings \in Spellings(names),
           NEW norm, NEW name, norm[name] \in names
    PROVE  Resolved(ts, norm, spellings, name) \in spellings
<1>1. PICK own : own = CHOOSE s \in spellings : Alike(s, norm[name])
  OBVIOUS
<1>2. own \in spellings
  BY <1>1, SpellingsApart
<1>3. PICK fuller : fuller = {s \in spellings \ {own} : Partial(own, s)}
  OBVIOUS
<1>4. fuller \subseteq spellings /\ IsFiniteSet(fuller)
  <2>1. fuller \in SUBSET spellings
    BY <1>3
  <2> QED
    BY <2>1, SpellingsApart, FS_Subset
<1>5. Resolved(ts, norm, spellings, name) = IF fuller = {} THEN own ELSE Fullest(ts, norm, fuller)
  BY <1>1, <1>3 DEF Resolved
<1> QED
  BY <1>2, <1>4, <1>5, FullestIsOne

\* The names of a list's rows are finitely many.
LEMMA NamesFinite == ASSUME NEW ts, IsList(ts) PROVE IsFiniteSet(RawNames(ts))
<1> DEFINE v == [k \in DOMAIN ts |-> ts[k].vendor]
           h == [k \in DOMAIN ts |-> ts[k].head]
           V == {v[k] : k \in DOMAIN ts}
           H == {h[k] : k \in DOMAIN ts}
<1>1. IsFiniteSet(V) /\ IsFiniteSet(H)
  <2>1. IsFiniteSet(DOMAIN ts)
    BY ListLen
  <2> HIDE DEF v, h
  <2> QED
    BY <2>1, FiniteImage
<1>2. RawNames(ts) \subseteq V \cup H
  <2> SUFFICES ASSUME NEW k \in DOMAIN ts, NEW n \in NamesOf(ts[k]) PROVE n \in V \cup H
    BY DEF RawNames
  <2>1. n = ts[k].vendor \/ n = ts[k].head
    BY DEF NamesOf
  <2> QED
    BY <2>1
<1> HIDE DEF V, H
<1>3. IsFiniteSet(V \cup H)
  BY <1>1, FS_Union
<1> QED
  BY <1>2, <1>3, FS_Subset

\* What OneSpelling says of a screen.
OneName(ts) == \A a, b \in RawNames(ts) : SameWords(a, b) => a = b

\* Normalising keeps the screen and leaves one spelling of a name.
LEMMA NormalizedScreen ==
    ASSUME NEW ts, Screen(ts), NEW us \in Normalized(ts)
    PROVE  Screen(us) /\ OneName(us) /\ (Unrepeated(ts) => Unrepeated(us))
<1>1. PICK norm : norm = [n \in RawNames(ts) |-> Normal(n)]
  OBVIOUS
<1>2. PICK spellings \in Spellings(Range(norm)) : us = NamedBy(ts, norm, spellings)
  BY <1>1 DEF Normalized
<1>3. DOMAIN norm = RawNames(ts) /\ \A n \in RawNames(ts) : norm[n] \in Range(norm)
  BY <1>1 DEF Range
<1>4. IsFiniteSet(Range(norm))
  <2>1. IsFiniteSet(RawNames(ts))
    BY NamesFinite DEF Screen
  <2>2. Range(norm) = {norm[n] : n \in RawNames(ts)}
    BY <1>3 DEF Range
  <2> QED
    BY <2>1, <2>2, FiniteImage
<1>5. us = [k \in DOMAIN ts |-> us[k]] /\ DOMAIN us = DOMAIN ts
  BY <1>2 DEF NamedBy
<1>6. ASSUME NEW k \in DOMAIN ts
      PROVE  /\ Relabels(us[k], ts[k]) /\ us[k].status = ts[k].status
             /\ NamesOf(us[k]) \subseteq spellings
  <2>1. PICK t : t = ts[k]
    OBVIOUS
  <2>2. PICK u : u = us[k]
    OBVIOUS
  <2>3. PICK new : new = [n \in NamesOf(t) |-> Resolved(ts, norm, spellings, n)]
    OBVIOUS
  <2>4. u = Renamed(t, new)
    BY <1>2, <2>1, <2>2, <2>3 DEF NamedBy
  <2>5. \A n \in NamesOf(t) : new[n] \in spellings
    <3> SUFFICES ASSUME NEW n \in NamesOf(t) PROVE Resolved(ts, norm, spellings, n) \in spellings
      BY <2>3
    <3>1. n \in RawNames(ts)
      BY <2>1 DEF RawNames
    <3> QED
      BY <1>3, <1>4, <3>1, ResolvedIsOne DEF Screen
  <2>6. DOMAIN new = NamesOf(t)
    BY <2>3
  <2>7. IsRow(t)
    BY <2>1 DEF Screen
  <2>8. PICK vendor : vendor = IF t.vendor \in DOMAIN new THEN new[t.vendor] ELSE t.vendor
    OBVIOUS
  <2>9. PICK head : head = IF IsCategory(t.head) THEN t.head
                           ELSE IF t.head \in DOMAIN new THEN new[t.head] ELSE t.head
    OBVIOUS
  <2>10. u = [t EXCEPT !.vendor = vendor, !.head = head]
    BY <2>4, <2>8, <2>9 DEF Renamed
  <2>11. Relabels(u, t) /\ u.status = t.status /\ u.vendor = vendor /\ u.head = head /\ u.opening = t.opening
    BY <2>7, <2>10 DEF IsRow, Fields, Relabels
  <2>12. ASSUME NEW n \in NamesOf(u) PROVE n \in spellings
    <3>1. ~t.opening /\ n # <<>> /\ (n = vendor \/ (n = head /\ ~IsCategory(head)))
      BY <2>11 DEF NamesOf
    <3>2. CASE n = vendor
      <4>1. CASE t.vendor \in NamesOf(t)
        BY <2>5, <2>6, <2>8, <3>2, <4>1
      <4>2. CASE t.vendor \notin NamesOf(t)
        <5>1. t.vendor = <<>>
          BY <3>1, <4>2 DEF NamesOf
        <5> QED
          BY <2>6, <2>8, <3>1, <3>2, <4>2, <5>1
      <4> QED
        BY <4>1, <4>2
    <3>3. CASE n = head /\ ~IsCategory(head)
      <4>1. ~IsCategory(t.head)
        BY <2>9, <3>3
      <4>2. CASE t.head \in NamesOf(t)
        BY <2>5, <2>6, <2>9, <3>3, <4>1, <4>2
      <4>3. CASE t.head \notin NamesOf(t)
        <5>1. t.head = <<>>
          BY <3>1, <4>1, <4>3 DEF NamesOf
        <5> QED
          BY <2>6, <2>9, <3>1, <3>3, <4>1, <4>3, <5>1
      <4> QED
        BY <4>2, <4>3
    <3> QED
      BY <3>1, <3>2, <3>3
  <2> QED
    BY <2>1, <2>2, <2>11, <2>12
<1>7. Screen(us)
  BY <1>5, <1>6, RelabelledScreen
<1>8. OneName(us)
  <2> SUFFICES ASSUME NEW a \in RawNames(us), NEW b \in RawNames(us), SameWords(a, b) PROVE a = b
    BY DEF OneName
  <2>1. a \in spellings /\ b \in spellings
    BY <1>5, <1>6 DEF RawNames
  <2>2. Alike(a, b)
    BY DEF SameWords, Alike, Signature
  <2> QED
    BY <1>4, <2>1, <2>2, SpellingsApart
<1>9. Unrepeated(ts) => Unrepeated(us)
  <2>1. \A k \in DOMAIN ts : /\ Eligible(us[k]) <=> Eligible(ts[k])
                             /\ us[k].dup <=> ts[k].dup
                             /\ Amount(us[k]) = Amount(ts[k]) /\ HashOf(us[k]) = HashOf(ts[k])
    BY <1>6 DEF Relabels, Eligible, Amount, HashOf
  <2>2. \A k \in DOMAIN ts : \A j \in 1 .. k - 1 : j \in DOMAIN ts
    BY ListLen DEF Screen
  <2> SUFFICES ASSUME Unrepeated(ts), NEW k \in DOMAIN ts, Eligible(us[k])
               PROVE  IF us[k].dup
                      THEN \E j \in 1 .. k - 1 : ~us[j].dup /\ Amount(us[j]) = Amount(us[k])
                      ELSE \A j \in 1 .. k - 1 : Eligible(us[j]) => us[j].dup \/ HashOf(us[j]) # HashOf(us[k])
    BY <1>5 DEF Unrepeated
  <2>3. Eligible(ts[k]) /\ (us[k].dup <=> ts[k].dup)
    BY <2>1
  <2>4. CASE us[k].dup
    <3>1. PICK j \in 1 .. k - 1 : ~ts[j].dup /\ Amount(ts[j]) = Amount(ts[k])
      BY <2>3, <2>4 DEF Unrepeated
    <3> QED
      BY <2>1, <2>2, <2>4, <3>1
  <2>5. CASE ~us[k].dup
    <3>1. \A j \in 1 .. k - 1 : Eligible(ts[j]) => ts[j].dup \/ HashOf(ts[j]) # HashOf(ts[k])
      BY <2>3, <2>5 DEF Unrepeated
    <3> QED
      BY <2>1, <2>2, <2>5, <3>1
  <2> QED
    BY <2>4, <2>5
<1> QED
  BY <1>7, <1>8, <1>9

-----------------------------------------------------------------------------
(***************************************************************************)
(* The inductive invariant: what the parser has read is a list, the screen *)
(* is a list of whole rows, and a flagged row follows one of its amount.   *)
(* DupFlags and OneSpelling say of a step what Unrepeated and OneName say  *)
(* of the screen it leaves; the flags are right after a detection only if  *)
(* those it found were (an edit or an added row keeps them), and the best  *)
(* of some names exists only among finitely many.                          *)
(***************************************************************************)
BooksInv == IsList(txns) /\ Screen(screen)

\* Rows made anew are not flagged.
LEMMA UnflaggedScreen ==
    ASSUME NEW s, IsList(s), NEW us, us = [k \in DOMAIN s |-> us[k]],
           \A k \in DOMAIN s : IsRow(us[k]) /\ us[k].dup = FALSE
    PROVE  Screen(us)
<1>1. IsList(us) /\ DOMAIN us = DOMAIN s
  BY ListLike
<1> QED
  BY <1>1 DEF Screen, Follows

\* Classified again, and given one name for every party.
LEMMA ReclassifiedScreen ==
    ASSUME NEW rows, \A ts \in rows : Screen(ts), NEW us \in Reclassified(rows)
    PROVE  Screen(us) /\ OneName(us) /\ (set.dedupe => Unrepeated(us))
<1>1. PICK named \in rows : us \in Normalized(ClassifyAll(named, rules, set))
  BY DEF Reclassified
<1>2. PICK each : each = ClassifyEach(named, rules, set)
  OBVIOUS
<1>3. Screen(each)
  BY <1>1, <1>2, ClassifiedScreen
<1>4. PICK all : all = ClassifyAll(named, rules, set)
  OBVIOUS
<1>5. all = IF set.dedupe THEN Detect(each) ELSE each
  BY <1>2, <1>4 DEF ClassifyAll, Deduped
<1>6. Screen(all) /\ (set.dedupe => Unrepeated(all))
  BY <1>3, <1>5, DetectedScreen
<1> QED
  BY <1>1, <1>4, <1>6, NormalizedScreen

\* What a load or an import puts on the screen.
LEMMA AppliedScreen ==
    ASSUME NEW ts, Screen(ts), NEW us \in Applied({ts})
    PROVE  Screen(us) /\ OneName(us) /\ (set.dedupe => Unrepeated(us))
<1>1. PICK named : named = UNION {Normalized(t) : t \in {ts}}
  OBVIOUS
<1>2. \A n \in named : Screen(n)
  BY <1>1, NormalizedScreen
<1>3. us \in Reclassified(named)
  BY <1>1 DEF Applied
<1> QED
  BY <1>2, <1>3, ReclassifiedScreen

\* Loading.
LEMMA LoadScreen ==
    ASSUME IsList(txns), Load
    PROVE  Screen(screen') /\ OneName(screen') /\ (set.dedupe => Unrepeated(screen'))
<1>1. PICK m \in Meanings : screen' \in Applied({[k \in DOMAIN txns |-> Fresh(txns[k], m)]})
  BY DEF Load
<1>2. PICK ts : ts = [k \in DOMAIN txns |-> Fresh(txns[k], m)]
  OBVIOUS
<1>3. ts = [k \in DOMAIN txns |-> ts[k]]
  BY <1>2
<1>4. ASSUME NEW k \in DOMAIN txns PROVE IsRow(ts[k]) /\ ts[k].dup = FALSE
  <2>1. ts[k] = Fresh(txns[k], m)
    BY <1>2
  <2>2. DOMAIN Fresh(txns[k], m) = Fields /\ Fresh(txns[k], m).dup = FALSE
    BY DEF Fresh, Fields
  <2> QED
    BY <2>1, <2>2 DEF IsRow
<1>5. Screen(ts)
  BY <1>3, <1>4, UnflaggedScreen
<1> QED
  BY <1>1, <1>2, <1>5, AppliedScreen

\* Classifying again.
LEMMA AutoClassifyScreen ==
    ASSUME Screen(screen), AutoClassify
    PROVE  Screen(screen') /\ OneName(screen') /\ (set.dedupe => Unrepeated(screen'))
<1>1. screen' \in Reclassified({screen})
  BY DEF AutoClassify
<1>2. \A ts \in {screen} : Screen(ts)
  OBVIOUS
<1> QED
  BY <1>1, <1>2, ReclassifiedScreen

\* Detecting again.
LEMMA ResetDedupeScreen ==
    ASSUME Screen(screen), ResetDedupe
    PROVE  Screen(screen') /\ Unrepeated(screen')
<1>1. PICK ts : /\ ts = [k \in DOMAIN screen |-> [screen[k] EXCEPT !.dup = FALSE, !.tags = @ \ {"DUP"}]]
                /\ screen' = Detect(ts)
  BY DEF ResetDedupe
<1>2. ts = [k \in DOMAIN screen |-> ts[k]]
  BY <1>1
<1>3. ASSUME NEW k \in DOMAIN screen PROVE IsRow(ts[k]) /\ ts[k].dup = FALSE
  <2>1. PICK t : t = screen[k]
    OBVIOUS
  <2>2. IsRow(t)
    BY <2>1 DEF Screen
  <2>3. PICK tags : ts[k] = [t EXCEPT !.dup = FALSE, !.tags = tags]
    BY <1>1, <2>1
  <2>4. PICK u : u = ts[k]
    OBVIOUS
  <2>5. DOMAIN u = DOMAIN t /\ u.dup = FALSE
    BY <2>2, <2>3, <2>4 DEF IsRow, Fields
  <2> QED
    BY <2>2, <2>4, <2>5 DEF IsRow
<1>4. Screen(ts)
  BY <1>2, <1>3, UnflaggedScreen DEF Screen
<1> QED
  BY <1>1, <1>4, DetectedScreen

\* Saving an edited row, which may have been flagged.
LEMMA SaveTxnScreen ==
    ASSUME Screen(screen), NEW k \in DOMAIN screen, NEW e, NEW learn, SaveTxn(k, e, learn)
    PROVE  Screen(screen')
<1>1. PICK saved : saved = Saved(screen[k], e, learn)
  OBVIOUS
<1>2. screen' = [screen EXCEPT ![k] = saved]
  BY <1>1 DEF SaveTxn
<1>3. Relabels(saved, screen[k])
  <2>1. PICK t : t = screen[k]
    OBVIOUS
  <2>2. IsRow(t)
    BY <2>1 DEF Screen
  <2>3. PICK n : n = Named(t, e.vendor, e.head, e.type)
    OBVIOUS
  <2>4. Relabels(n, t)
    BY <2>2, <2>3, NamedRelabels
  <2>5. PICK conf : saved = [n EXCEPT !.status = "classified", !.source = "user", !.conf = conf]
    BY <1>1, <2>1, <2>3 DEF Saved
  <2>6. Relabels(saved, t)
    BY <2>2, <2>4, <2>5 DEF IsRow, Fields, Relabels
  <2> QED
    BY <2>1, <2>6
<1>4. PICK us : us = screen'
  OBVIOUS
<1>5. us = [j \in DOMAIN screen |-> us[j]]
  BY <1>2, <1>4
<1>6. \A j \in DOMAIN screen : Relabels(us[j], screen[j])
  BY <1>2, <1>3, <1>4 DEF Relabels
<1> QED
  BY <1>4, <1>5, <1>6, RelabelledScreen

\* Adding a row of the user's.
LEMMA AddRowScreen == ASSUME Screen(screen), NEW x, AddRow(x) PROVE Screen(screen')
<1>1. PICK row : /\ row = [date |-> x.date, text |-> x.text, ref |-> Empty, dr |-> x.dr, cr |-> x.cr, bal |-> Empty,
                           vendor |-> <<>>, head |-> <<>>, type |-> x.type, status |-> "manual", conf |-> 100,
                           source |-> "user", tags |-> {}, dup |-> FALSE, opening |-> FALSE, gst |-> NoGst]
                 /\ screen' = Append(screen, row)
  BY DEF AddRow
<1>2. IsRow(row) /\ row.dup = FALSE
  BY <1>1 DEF IsRow, Fields
<1>3. PICK us : us = screen'
  OBVIOUS
<1>4. PICK n : n = Len(screen)
  OBVIOUS
<1>5. /\ IsList(us) /\ Len(us) = n + 1 /\ us[n + 1] = row
      /\ \A k \in DOMAIN screen : us[k] = screen[k]
  BY <1>1, <1>3, <1>4, ListsGrow DEF Screen
<1>6. n \in Nat /\ DOMAIN screen = 1 .. n /\ DOMAIN us = 1 .. n + 1
  BY <1>4, <1>5, ListLen DEF Screen
<1>7. \A k \in DOMAIN us : k \in DOMAIN screen \/ k = n + 1
  BY <1>6
<1>8. \A k \in DOMAIN us : IsRow(us[k])
  BY <1>2, <1>5, <1>7 DEF Screen
<1>9. Follows(us)
  <2> SUFFICES ASSUME NEW k \in DOMAIN us, us[k].dup
               PROVE  \E j \in 1 .. k - 1 : Amount(us[j]) = Amount(us[k])
    BY DEF Follows
  <2>1. k \in DOMAIN screen /\ screen[k].dup
    BY <1>2, <1>5, <1>7
  <2>2. PICK j \in 1 .. k - 1 : Amount(screen[j]) = Amount(screen[k])
    BY <2>1 DEF Screen, Follows
  <2>3. j \in DOMAIN screen
    BY <1>6, <2>1
  <2> QED
    BY <1>5, <2>1, <2>2, <2>3
<1> QED
  BY <1>3, <1>5, <1>8, <1>9 DEF Screen

\* The workbook read back.
LEMMA ReimportScreen ==
    ASSUME Screen(screen), NEW k, NEW e, Reimport(k, e)
    PROVE  Screen(screen')
<1>1. PICK real : real = Real(screen)
  OBVIOUS
<1>2. IsList(real)
  BY <1>1, OnlyList DEF Real, Screen
<1>3. PICK book : book = Workbook(screen, ob, cb)
  OBVIOUS
<1>4. /\ book.rows = [j \in DOMAIN real |-> RowCells(real[j])]
      /\ "rows" \in DOMAIN book
  BY <1>1, <1>3 DEF Workbook
<1>5. IsList(book.rows)
  BY <1>2, <1>4, MappedList
<1>6. PICK cells : cells = [book.rows[k] EXCEPT !.vendor = e.vendor, !.head = e.head]
  OBVIOUS
<1>7. PICK told : told = [book EXCEPT !.rows[k] = cells]
  OBVIOUS
<1>8. told.rows = [book.rows EXCEPT ![k] = cells]
  BY <1>4, <1>7
<1>9. screen' \in Applied({ReadAll(told)})
  BY <1>3, <1>6, <1>7 DEF Reimport
<1>10. PICK rows : rows = told.rows
  OBVIOUS
<1>11. IsList(rows)
  BY <1>5, <1>8, <1>10, ChangedList
<1>12. PICK S : S = {j \in DOMAIN rows : rows[j].text # <<>> \/ rows[j].date # 0}
  OBVIOUS
<1>13. PICK kept : kept = Only(rows, S)
  OBVIOUS
<1>14. IsList(kept)
  BY <1>11, <1>12, <1>13, OnlyList
<1>15. PICK back : back = ReadAll(told)
  OBVIOUS
<1>16. back = [j \in DOMAIN kept |-> ReadBack(kept[j])]
  BY <1>10, <1>12, <1>13, <1>15 DEF ReadAll
<1>17. back = [j \in DOMAIN kept |-> back[j]]
  BY <1>16
<1>18. ASSUME NEW j \in DOMAIN kept PROVE IsRow(back[j]) /\ back[j].dup = FALSE
  <2>1. back[j] = ReadBack(kept[j])
    BY <1>16
  <2>2. DOMAIN ReadBack(kept[j]) = Fields /\ ReadBack(kept[j]).dup = FALSE
    BY DEF ReadBack, Fields
  <2> QED
    BY <2>1, <2>2 DEF IsRow
<1>19. Screen(back)
  BY <1>14, <1>17, <1>18, UnflaggedScreen
<1> QED
  BY <1>9, <1>15, <1>19, AppliedScreen

\* The program starts with nothing read and nothing on the screen.
LEMMA BooksInitInv == BooksInit => BooksInv
<1>1. BooksInit => txns = <<>> /\ screen = <<>>
  BY DEF BooksInit, Init
<1>2. Screen(<<>>)
  BY ListsGrow DEF Screen, Follows
<1> QED
  BY <1>1, <1>2, ListsGrow DEF BooksInv

\* Every step of the parser and of the user keeps the invariant.
LEMMA BooksNextInv == ASSUME BooksInv, [BooksNext]_<<vars, lvars, bvars, rvars>> PROVE BooksInv'
<1> USE DEF BooksInv
<1>1. CASE Locate
  BY <1>1 DEF Locate, vars, bvars
<1>2. CASE Reads
  BY <1>2, NextTxns DEF Reads, bvars
<1>3. CASE Identify
  BY <1>3 DEF Identify, vars, bvars
<1>4. CASE Load
  BY <1>4, LoadScreen DEF Load, vars
<1>5. CASE AutoClassify
  BY <1>5, AutoClassifyScreen DEF AutoClassify, vars
<1>6. CASE ResetDedupe
  BY <1>6, ResetDedupeScreen DEF ResetDedupe, vars
<1>7. ASSUME NEW k \in DOMAIN screen, NEW e, NEW learn, SaveTxn(k, e, learn) PROVE BooksInv'
  <2>1. Screen(screen')
    BY <1>7, SaveTxnScreen
  <2>2. txns' = txns
    BY <1>7 DEF SaveTxn, vars
  <2> QED
    BY <2>1, <2>2
<1>8. ASSUME NEW x, AddRow(x) PROVE BooksInv'
  BY <1>8, AddRowScreen DEF AddRow, vars
<1>9. ASSUME NEW k, NEW e, Reimport(k, e) PROVE BooksInv'
  BY <1>9, ReimportScreen DEF Reimport, vars
<1>10. CASE TakeRegister
  BY <1>10 DEF TakeRegister, vars
<1>11. CASE Match
  BY <1>11 DEF Match, vars, bvars
<1>12. CASE UNCHANGED <<vars, lvars, bvars, rvars>>
  BY <1>12 DEF vars, bvars
<1> QED
  BY <1>1, <1>2, <1>3, <1>4, <1>5, <1>6, <1>7, <1>8, <1>9, <1>10, <1>11, <1>12 DEF BooksNext, User

\* The screen stays a list of rows each flagged one of which follows one of its amount.
THEOREM BooksInductive == BooksSpec => []BooksInv
  BY BooksInitInv, BooksNextInv, PTL DEF BooksSpec

\* A row that repeats another is flagged, and one that stays unflagged for every amount, by
\* every detection, for all statements, narrations, rules, settings and edits.
THEOREM DupFlagsHolds == BooksSpec => DupFlags
<1>1. ASSUME BooksInv, ResetDedupe \/ (set.dedupe /\ (Load \/ AutoClassify))
      PROVE  Unrepeated(screen')
  BY <1>1, LoadScreen, AutoClassifyScreen, ResetDedupeScreen DEF BooksInv
<1>2. ASSUME BooksInv
      PROVE  [ResetDedupe \/ (set.dedupe /\ (Load \/ AutoClassify)) =>
                \A k \in DOMAIN screen' : Eligible(screen'[k]) =>
                    IF screen'[k].dup
                    THEN \E j \in 1 .. k - 1 : ~screen'[j].dup /\ Amount(screen'[j]) = Amount(screen'[k])
                    ELSE \A j \in 1 .. k - 1 : Eligible(screen'[j]) => screen'[j].dup \/ HashOf(screen'[j]) # HashOf(screen'[k])
             ]_<<vars, lvars, bvars, rvars>>
  BY <1>1, <1>2 DEF Unrepeated
<1> QED
  BY <1>2, BooksInductive, PTL DEF BooksSpec, DupFlags

\* No two vendors, or ledgers that are no category, of a loaded or classified screen are the
\* same words spelled differently.
THEOREM OneSpellingHolds == BooksSpec => OneSpelling
<1>1. ASSUME BooksInv, Load \/ AutoClassify PROVE OneName(screen')
  BY <1>1, LoadScreen, AutoClassifyScreen DEF BooksInv
<1>2. ASSUME BooksInv
      PROVE  [Load \/ AutoClassify => \A a, b \in RawNames(screen') : SameWords(a, b) => a = b]_<<vars, lvars, bvars, rvars>>
  BY <1>1, <1>2 DEF OneName
<1> QED
  BY <1>2, BooksInductive, PTL DEF BooksSpec, OneSpelling

-----------------------------------------------------------------------------
(***************************************************************************)
(* The counts.                                                             *)
(***************************************************************************)
\* A file of vouchers has two lines for each.
LEMMA JournalLines ==
    ASSUME NEW ts, IsList(ts), NEW o, o.software \in {"Zoho", "QuickBooks", "Odoo", "Csv", "Xml"}, NEW start
    PROVE  Len(AccountingFile(ts, o, start).lines) = 2 * Len(Filtered(ts, o))
<1>1. PICK rows : rows = Filtered(ts, o)
  OBVIOUS
<1>2. Len(rows) \in Nat
  BY <1>1, OnlyList DEF Filtered
<1>3. PICK lines : lines = AccountingFile(ts, o, start).lines
  OBVIOUS
<1>4. lines = [l \in 1 .. 2 * Len(rows) |-> lines[l]]
  <2>1. CASE o.software = "Zoho"
    BY <1>1, <1>3, <2>1 DEF AccountingFile, ZohoFile, File, VouchersOf
  <2>2. CASE o.software = "QuickBooks"
    BY <1>1, <1>3, <2>2 DEF AccountingFile, QuickBooksFile, File, VouchersOf
  <2>3. CASE o.software = "Odoo"
    BY <1>1, <1>3, <2>3 DEF AccountingFile, OdooFile, File, VouchersOf
  <2>4. CASE o.software = "Csv"
    BY <1>1, <1>3, <2>4 DEF AccountingFile, CsvFile, File, VouchersOf
  <2>5. CASE o.software = "Xml"
    BY <1>1, <1>3, <2>5 DEF AccountingFile, XmlFile, File, VouchersOf
  <2> QED
    BY <2>1, <2>2, <2>3, <2>4, <2>5
<1> QED
  BY <1>1, <1>2, <1>3, <1>4, ListOf

\* So has a Tally file, whose opening balance is a voucher of its own.
LEMMA TallyLines ==
    ASSUME NEW ts, IsList(ts), NEW o, NEW start
    PROVE  /\ Len(TallyRows(ts, o)) \in Nat
           /\ Len(TallyFile(ts, o, start).lines) =
                2 * Len(TallyRows(ts, o)) + IF o.ob /\ start # Empty /\ TallyRows(ts, o) # <<>> THEN 2 ELSE 0
<1>1. PICK rows : rows = TallyRows(ts, o)
  OBVIOUS
<1>2. Len(rows) \in Nat
  BY <1>1, OnlyList DEF TallyRows
<1>3. PICK vouchers_ : vouchers_ = VouchersOf(rows, TallyVoucher)
  OBVIOUS
<1>4. vouchers_ = [l \in 1 .. 2 * Len(rows) |-> vouchers_[l]]
  BY <1>3 DEF VouchersOf
<1>5. IsList(vouchers_) /\ Len(vouchers_) = 2 * Len(rows)
  BY <1>2, <1>4, ListOf
<1>6. PICK first : first = IF o.ob /\ start # Empty /\ rows # <<>> THEN Voucher(BankLedger, Capital, start) ELSE <<>>
  OBVIOUS
<1>7. IsList(first) /\ Len(first) = IF o.ob /\ start # Empty /\ rows # <<>> THEN 2 ELSE 0
  <2>1. ASSUME NEW x, NEW y PROVE IsList(<<x, y>>) /\ Len(<<x, y>>) = 2
    <3>1. <<x, y>> \in Seq({x, y}) /\ Len(<<x, y>>) = 2
      OBVIOUS
    <3> QED
      BY <3>1 DEF IsList
  <2>2. IsList(Voucher(BankLedger, Capital, start)) /\ Len(Voucher(BankLedger, Capital, start)) = 2
    BY <2>1 DEF Voucher
  <2> QED
    BY <1>6, <2>2, ListsGrow
<1>8. TallyFile(ts, o, start).lines = first \o vouchers_
  BY <1>1, <1>3, <1>6 DEF TallyFile, File
<1>9. Len(first \o vouchers_) = Len(first) + Len(vouchers_)
  BY <1>5, <1>7, ListsGrow
<1> QED
  BY <1>1, <1>2, <1>5, <1>7, <1>8, <1>9

\* Rows that pass the wizard's checks all have a date: the two filters agree on them.
LEMMA DatedRows ==
    ASSUME NEW ts, IsList(ts), NEW o, Errors(ts, o) = {}
    PROVE  TallyRows(ts, o) = Filtered(ts, o) /\ TallyRows(ts, o) # <<>>
<1>1. PICK S : S = {k \in DOMAIN ts : Wanted(ts[k], o) /\ (ts[k].date = 0 \/ InPeriod(ts[k].date, o))}
  OBVIOUS
<1>2. PICK rows : rows = Filtered(ts, o)
  OBVIOUS
<1>3. rows = Only(ts, S) /\ S \in SUBSET (DOMAIN ts)
  BY <1>1, <1>2 DEF Filtered
<1>4. Range(rows) # {} /\ \A t \in Range(rows) : ~(t.date <= 0)
  BY <1>2 DEF Errors
<1>5. ASSUME NEW k \in S PROVE ts[k].date # 0
  <2>1. PICK n \in DOMAIN rows : rows[n] = ts[k]
    BY <1>3, OnlyList
  <2>2. ts[k] \in Range(rows)
    BY <2>1 DEF Range
  <2> QED
    BY <1>4, <2>2
<1>6. S = {k \in DOMAIN ts : Wanted(ts[k], o) /\ ts[k].date # 0 /\ InPeriod(ts[k].date, o)}
  BY <1>1, <1>5
<1>7. TallyRows(ts, o) = rows
  BY <1>3, <1>6 DEF TallyRows
<1>8. rows # <<>>
  BY <1>4 DEF Range
<1> QED
  BY <1>2, <1>7, <1>8

\* The size of a union of sets with nothing in common.
LEMMA DisjointUnion ==
    ASSUME NEW S, NEW T, IsFiniteSet(S), IsFiniteSet(T), S \cap T = {}
    PROVE  IsFiniteSet(S \cup T) /\ Cardinality(S \cup T) = Cardinality(S) + Cardinality(T)
<1>1. PICK n : n = Cardinality(S)
  OBVIOUS
<1>2. PICK m : m = Cardinality(T)
  OBVIOUS
<1>3. n \in Nat /\ m \in Nat
  BY <1>1, <1>2, FS_CardinalityType
<1>4. Cardinality(S \cap T) = 0
  BY FS_EmptySet
<1>5. IsFiniteSet(S \cup T) /\ Cardinality(S \cup T) = Cardinality(S) + Cardinality(T) - Cardinality(S \cap T)
  BY FS_Union
<1>6. Cardinality(S \cup T) = n + m - 0
  BY <1>1, <1>2, <1>4, <1>5
<1>7. Cardinality(S \cup T) = n + m
  BY <1>3, <1>6
<1> QED
  BY <1>1, <1>2, <1>5, <1>7

\* The preview's types are all there.
LEMMA PreviewAdds ==
    ASSUME NEW ts, IsList(ts), NEW o
    PROVE  LET p == Preview(ts, o) IN p.total = Len(TallyRows(ts, o)) /\ p.payment + p.receipt + p.contra = p.total
<1>1. PICK rows : rows = TallyRows(ts, o)
  OBVIOUS
<1>2. IsList(rows) /\ Len(rows) \in Nat /\ DOMAIN rows = 1 .. Len(rows) /\ IsFiniteSet(DOMAIN rows)
  BY <1>1, OnlyList, ListLen DEF TallyRows
<1>3. PICK P : P = {k \in DOMAIN rows : TallyType(rows[k]) = "Payment"}
  OBVIOUS
<1>4. PICK R : R = {k \in DOMAIN rows : TallyType(rows[k]) = "Receipt"}
  OBVIOUS
<1>5. PICK C : C = {k \in DOMAIN rows : TallyType(rows[k]) = "Contra"}
  OBVIOUS
<1>6. \A t : TallyType(t) \in {"Payment", "Receipt", "Contra"}
  BY DEF TallyType
<1>7. P \cap R = {} /\ (P \cup R) \cap C = {} /\ (P \cup R) \cup C = DOMAIN rows
  BY <1>3, <1>4, <1>5, <1>6
<1>8. /\ IsFiniteSet(P) /\ IsFiniteSet(R) /\ IsFiniteSet(C) /\ IsFiniteSet(P \cup R)
      /\ Cardinality(P) \in Nat /\ Cardinality(R) \in Nat /\ Cardinality(C) \in Nat
  BY <1>2, <1>7, FS_Subset, FS_CardinalityType
<1>9. Cardinality(P \cup R) = Cardinality(P) + Cardinality(R)
  BY <1>7, <1>8, DisjointUnion
<1>10. Cardinality(DOMAIN rows) = Cardinality(P) + Cardinality(R) + Cardinality(C)
  BY <1>7, <1>8, <1>9, DisjointUnion
<1>11. Cardinality(DOMAIN rows) = Len(rows)
  <2>1. PICK n : n = Len(rows)
    OBVIOUS
  <2>2. n \in Nat /\ DOMAIN rows = 1 .. n
    BY <1>2, <2>1
  <2>3. Cardinality(1 .. n) = n
    BY <2>2, FS_Interval
  <2> QED
    BY <2>1, <2>2, <2>3
<1>12. /\ Preview(ts, o).total = Len(rows) /\ Preview(ts, o).payment = Cardinality(P)
       /\ Preview(ts, o).receipt = Cardinality(R) /\ Preview(ts, o).contra = Cardinality(C)
  BY <1>1, <1>3, <1>4, <1>5 DEF Preview
<1> QED
  BY <1>1, <1>8, <1>10, <1>11, <1>12

\* The filters of the bar.
LEMMA BadgesShow ==
    ASSUME NEW ts, IsList(ts), NEW f \in DOMAIN Badges(ts)
    PROVE  Badges(ts)[f] = Cardinality({k \in DOMAIN Real(ts) : Shows(Real(ts)[k], f)})
<1>1. PICK rows : rows = Real(ts)
  OBVIOUS
<1>2. Len(rows) \in Nat /\ DOMAIN rows = 1 .. Len(rows)
  BY <1>1, OnlyList, ListLen DEF Real
<1>3. f \in {"all", "unreviewed", "suspense", "high", "duplicates", "gst", "needs_review"}
  BY DEF Badges
<1>4. CASE f = "all"
  <2>1. {k \in DOMAIN rows : Shows(rows[k], f)} = DOMAIN rows
    BY <1>4 DEF Shows
  <2>2. Cardinality(DOMAIN rows) = Len(rows)
    BY <1>2, FS_Interval
  <2> QED
    BY <1>1, <1>4, <2>1, <2>2 DEF Badges
<1>5. CASE f = "unreviewed"
  BY <1>5 DEF Badges, Shows
<1>6. CASE f = "suspense"
  BY <1>6 DEF Badges, Shows
<1>7. CASE f = "high"
  BY <1>7 DEF Badges, Shows
<1>8. CASE f = "duplicates"
  BY <1>8 DEF Badges, Shows
<1>9. CASE f = "gst"
  BY <1>9 DEF Badges, Shows
<1>10. CASE f = "needs_review"
  BY <1>10 DEF Badges, Shows
<1> QED
  BY <1>3, <1>4, <1>5, <1>6, <1>7, <1>8, <1>9, <1>10

\* Every count the user is told is that of what is written or shown, for every screen the
\* program can be in.
THEOREM CountsAgreeHolds == BooksSpec => []CountsAgree
<1> DEFINE Vouchers(o, file) == Len(file.lines) \div 2 - IF o.software = "Tally" /\ o.ob /\ ob # Empty THEN 1 ELSE 0
<1>1. ASSUME BooksInv, NEW o \in Options, Wizard(o) # Refused
      PROVE  Vouchers(o, Wizard(o).file) = Wizard(o).said
  <2>1. IsList(screen)
    BY <1>1 DEF BooksInv, Screen
  <2>2. /\ Errors(screen, o) = {}
        /\ Wizard(o).file = AccountingFile(screen, o, ob) /\ Wizard(o).said = Len(Filtered(screen, o))
    BY <1>1 DEF Wizard
  <2>3. PICK n : n = Len(Filtered(screen, o))
    OBVIOUS
  <2>4. n \in Nat
    BY <2>1, <2>3, OnlyList DEF Filtered
  <2>5. CASE o.software = "Tally"
    <3>1. Wizard(o).file = TallyFile(screen, o, ob)
      BY <2>2, <2>5 DEF AccountingFile
    <3>2. Len(Wizard(o).file.lines) = 2 * n + IF o.ob /\ ob # Empty THEN 2 ELSE 0
      BY <2>1, <2>2, <2>3, <3>1, TallyLines, DatedRows
    <3>3. CASE o.ob /\ ob # Empty
      <4>1. Len(Wizard(o).file.lines) = 2 * n + 2
        BY <3>2, <3>3
      <4>2. (2 * n + 2) \div 2 - 1 = n
        BY <2>4
      <4> QED
        BY <2>2, <2>3, <2>5, <3>3, <4>1, <4>2
    <3>4. CASE ~(o.ob /\ ob # Empty)
      <4>1. Len(Wizard(o).file.lines) = 2 * n
        BY <2>4, <3>2, <3>4
      <4>2. (2 * n) \div 2 - 0 = n
        BY <2>4
      <4> QED
        BY <2>2, <2>3, <2>5, <3>4, <4>1, <4>2
    <3> QED
      BY <3>3, <3>4
  <2>6. CASE o.software # "Tally"
    <3>1. Len(Wizard(o).file.lines) = 2 * n
      BY <2>1, <2>2, <2>3, <2>6, JournalLines, OptionsAssumption
    <3>2. (2 * n) \div 2 - 0 = n
      BY <2>4
    <3> QED
      BY <2>2, <2>3, <2>6, <3>1, <3>2
  <2> QED
    BY <2>5, <2>6
<1>2. ASSUME BooksInv, NEW o \in Options, o.software = "Tally", QuickTally(o) # Refused
      PROVE  LET p == Preview(screen, o)
             IN  Vouchers(o, QuickTally(o).file) = p.total /\ p.payment + p.receipt + p.contra = p.total
  <2>1. IsList(screen)
    BY <1>2 DEF BooksInv, Screen
  <2>2. PICK p : p = Preview(screen, o)
    OBVIOUS
  <2>3. PICK n : n = Len(TallyRows(screen, o))
    OBVIOUS
  <2>4. p.total = n /\ p.payment + p.receipt + p.contra = n /\ n \in Nat
    BY <2>1, <2>2, <2>3, PreviewAdds, TallyLines
  <2>5. p.total # 0 /\ QuickTally(o).file = TallyFile(screen, o, ob)
    BY <1>2, <2>2 DEF QuickTally
  <2>6. TallyRows(screen, o) # <<>>
    BY <2>3, <2>4, <2>5, ListsGrow
  <2>7. Len(QuickTally(o).file.lines) = 2 * n + IF o.ob /\ ob # Empty THEN 2 ELSE 0
    BY <2>1, <2>3, <2>5, <2>6, TallyLines
  <2>8. CASE o.ob /\ ob # Empty
    <3>1. Len(QuickTally(o).file.lines) = 2 * n + 2
      BY <2>7, <2>8
    <3>2. (2 * n + 2) \div 2 - 1 = n
      BY <2>4
    <3> QED
      BY <1>2, <2>2, <2>4, <2>8, <3>1, <3>2
  <2>9. CASE ~(o.ob /\ ob # Empty)
    <3>1. Len(QuickTally(o).file.lines) = 2 * n
      BY <2>4, <2>7, <2>9
    <3>2. (2 * n) \div 2 - 0 = n
      BY <2>4
    <3> QED
      BY <1>2, <2>2, <2>4, <2>9, <3>1, <3>2
  <2> QED
    BY <2>8, <2>9
<1>3. ASSUME BooksInv, NEW f \in DOMAIN Badges(screen)
      PROVE  Badges(screen)[f] = Cardinality({k \in DOMAIN Real(screen) : Shows(Real(screen)[k], f)})
  BY <1>3, BadgesShow DEF BooksInv, Screen
<1>4. BooksInv => CountsAgree
  BY <1>1, <1>2, <1>3 DEF CountsAgree
<1> QED
  BY <1>4, BooksInductive, PTL


-----------------------------------------------------------------------------
(***************************************************************************)
(* The ledgers.                                                            *)
(***************************************************************************)
\* The lines of a Tally file name the bank, cash, capital or the ledger of a row.
LEMMA TallyAccounts ==
    ASSUME BankLedger # <<>>, NEW ts, IsList(ts), NEW o, NEW start, NEW l \in Range(TallyFile(ts, o, start).lines)
    PROVE  \/ l.account \in {Cash, Capital, BankLedger}
           \/ \E k \in DOMAIN TallyRows(ts, o) : l.account = PostingLedger(TallyRows(ts, o)[k])
<1>1. PICK rows : rows = TallyRows(ts, o)
  OBVIOUS
<1>2. IsList(rows) /\ Len(rows) \in Nat /\ DOMAIN rows = 1 .. Len(rows)
  BY <1>1, OnlyList, ListLen DEF TallyRows
<1>3. PICK vouchers_ : vouchers_ = VouchersOf(rows, TallyVoucher)
  OBVIOUS
<1>4. PICK first : first = IF o.ob /\ start # Empty /\ rows # <<>> THEN Voucher(BankLedger, Capital, start) ELSE <<>>
  OBVIOUS
<1>5. TallyFile(ts, o, start).lines = first \o vouchers_
  BY <1>1, <1>3, <1>4 DEF TallyFile, File
<1>6. IsList(vouchers_) /\ DOMAIN vouchers_ = 1 .. 2 * Len(rows)
  <2>1. vouchers_ = [i \in 1 .. 2 * Len(rows) |-> vouchers_[i]]
    BY <1>3 DEF VouchersOf
  <2> QED
    BY <1>2, <2>1, ListOf
<1>7. ASSUME NEW t, NEW j \in 1 .. 2 PROVE TallyVoucher(t)[j].account \in {BankLedger, Cash, PostingLedger(t)}
  <2>1. \A a, b, m : Voucher(a, b, m)[j].account \in {a, b}
    BY DEF Voucher, Line
  <2> QED
    BY <2>1 DEF TallyVoucher, TallyBank
<1>8. ASSUME NEW i \in DOMAIN vouchers_
      PROVE  \E k \in DOMAIN rows : vouchers_[i].account \in {BankLedger, Cash, PostingLedger(rows[k])}
  <2>1. PICK n : n = Len(rows)
    OBVIOUS
  <2>2. i \in 1 .. 2 * n /\ n \in Nat
    BY <1>2, <1>6, <2>1
  <2>3. (i + 1) \div 2 \in 1 .. n /\ 2 - (i % 2) \in 1 .. 2
    BY <2>2
  <2>4. vouchers_[i] = TallyVoucher(rows[(i + 1) \div 2])[2 - (i % 2)]
    BY <1>3, <2>1, <2>2 DEF VouchersOf
  <2> QED
    BY <1>2, <1>7, <2>1, <2>3, <2>4
<1>9. IsList(first) /\ \A i \in DOMAIN first : first[i].account \in {BankLedger, Capital}
  <2>1. CASE first = <<>>
    BY <2>1, ListsGrow
  <2>2. CASE first = Voucher(BankLedger, Capital, start)
    <3>1. PICK x : x = Line(BankLedger, start, 0)
      OBVIOUS
    <3>2. PICK y : y = Line(Capital, 0, start)
      OBVIOUS
    <3>3. first = <<x, y>> /\ x.account = BankLedger /\ y.account = Capital
      BY <2>2, <3>1, <3>2 DEF Voucher, Line
    <3>4. <<x, y>> \in Seq({x, y}) /\ DOMAIN <<x, y>> = 1 .. 2 /\ <<x, y>>[1] = x /\ <<x, y>>[2] = y
      OBVIOUS
    <3>5. IsList(first)
      BY <3>3, <3>4 DEF IsList
    <3>6. ASSUME NEW i \in DOMAIN first PROVE first[i] = x \/ first[i] = y
      <4>1. i = 1 \/ i = 2
        BY <3>3, <3>4
      <4> QED
        BY <3>3, <3>4, <4>1
    <3> QED
      BY <3>3, <3>5, <3>6
  <2> QED
    BY <1>4, <2>1, <2>2
<1>10. PICK i \in DOMAIN (first \o vouchers_) : l = (first \o vouchers_)[i]
  BY <1>5 DEF Range
<1>11. \/ \E j \in DOMAIN first : l = first[j]
       \/ \E j \in DOMAIN vouchers_ : l = vouchers_[j]
  <2>1. PICK S : first \in Seq(S)
    BY <1>9 DEF IsList
  <2>2. PICK T : vouchers_ \in Seq(T)
    BY <1>6 DEF IsList
  <2>3. first \in Seq(S \cup T) /\ vouchers_ \in Seq(S \cup T)
    BY <2>1, <2>2
  <2>4. /\ DOMAIN first = 1 .. Len(first) /\ DOMAIN vouchers_ = 1 .. Len(vouchers_)
        /\ Len(first) \in Nat /\ Len(vouchers_) \in Nat
        /\ DOMAIN (first \o vouchers_) = 1 .. Len(first) + Len(vouchers_)
        /\ \A n \in 1 .. Len(first) + Len(vouchers_) :
             (first \o vouchers_)[n] = IF n <= Len(first) THEN first[n] ELSE vouchers_[n - Len(first)]
    BY <2>3
  <2>5. CASE i <= Len(first)
    BY <1>10, <2>4, <2>5
  <2>6. CASE ~(i <= Len(first))
    <3>1. i - Len(first) \in DOMAIN vouchers_ /\ l = vouchers_[i - Len(first)]
      BY <1>10, <2>4, <2>6
    <3> QED
      BY <3>1
  <2> QED
    BY <2>5, <2>6
<1> QED
  BY <1>1, <1>8, <1>9, <1>11

\* A row's ledger is defined for the first row that posts to it, and only for it.
LEMMA MastersOnce ==
    ASSUME BankLedger # <<>>, NEW rows, IsList(rows), NEW a, a = BankLedger \/ \E k \in DOMAIN rows : a = PostingLedger(rows[k])
    PROVE  Cardinality({m \in Masters(rows) : m.ledger = a}) = 1
<1> DEFINE first == {k \in DOMAIN rows : \A j \in 1 .. k - 1 : PostingLedger(rows[j]) # PostingLedger(rows[k])}
           Groups_(t) == IF IsParty(t) THEN PartyGroup(TallyType(t) = "Receipt") ELSE GroupsFor(PostingLedger(t), t)
           Of(t) == [ledger |-> PostingLedger(t), groups |-> Groups_(t)]
           own == [ledger |-> BankLedger, groups |-> {"Bank Accounts"}]
<1>1. Masters(rows) = {own} \cup {Of(rows[k]) : k \in {j \in first : PostingLedger(rows[j]) # BankLedger}}
  BY DEF Masters
<1>2. own.ledger = BankLedger /\ \A t : Of(t).ledger = PostingLedger(t)
  OBVIOUS
<1> HIDE DEF Groups_, Of, own
<1>3. \E m \in Masters(rows) : {n \in Masters(rows) : n.ledger = a} = {m}
  <2>1. CASE a = BankLedger
    <3>1. own \in Masters(rows) /\ own.ledger = a
      BY <1>1, <1>2, <2>1
    <3>2. \A m \in Masters(rows) : m.ledger = a => m = own
      BY <1>1, <1>2, <2>1
    <3> QED
      BY <3>1, <3>2
  <2>2. CASE a # BankLedger
    <3>1. PICK S : S = {k \in DOMAIN rows : a = PostingLedger(rows[k])}
      OBVIOUS
    <3>2. S # {} /\ S \in SUBSET Nat /\ DOMAIN rows = 1 .. Len(rows) /\ Len(rows) \in Nat
      BY <2>2, <3>1, ListLen
    <3>3. PICK k \in S : \A j \in S : k <= j
      BY <3>2, Least
    <3>4. k \in first
      BY <3>1, <3>2, <3>3
    <3>5. \A j \in first : PostingLedger(rows[j]) = a => j = k
      <4> SUFFICES ASSUME NEW j \in first, PostingLedger(rows[j]) = a, j # k PROVE FALSE
        OBVIOUS
      <4>1. j \in S
        BY <3>1
      <4>2. k \in Nat /\ j \in Nat /\ k <= j /\ 1 <= k
        BY <3>1, <3>2, <3>3, <4>1
      <4>3. k \in 1 .. j - 1
        BY <4>2
      <4> QED
        BY <3>1, <3>3, <4>3
    <3>6. Of(rows[k]) \in Masters(rows) /\ Of(rows[k]).ledger = a
      BY <1>1, <1>2, <2>2, <3>1, <3>4
    <3>7. ASSUME NEW m \in Masters(rows), m.ledger = a PROVE m = Of(rows[k])
      <4>1. m # own
        BY <1>2, <2>2, <3>7
      <4>2. PICK j \in first : m = Of(rows[j])
        BY <1>1, <3>7, <4>1
      <4>3. PostingLedger(rows[j]) = a
        BY <1>2, <3>7, <4>2
      <4> QED
        BY <3>5, <4>2, <4>3
    <3> HIDE DEF first
    <3> QED
      BY <3>6, <3>7
  <2> QED
    BY <2>1, <2>2
<1> QED
  BY <1>3, FS_Singleton

\* Every ledger a Tally file names is defined in it once, for every screen the program can be
\* in, every question to the wizard and every name of the bank's ledger.
THEOREM LedgersDefinedHolds == BooksSpec => []LedgersDefined
<1>1. ASSUME BooksInv PROVE LedgersDefined
  <2> SUFFICES ASSUME BankLedger # <<>>, NEW o \in Options, o.software = "Tally", o.ledgers,
                      NEW export \in {Wizard(o), QuickTally(o)}, NEW l \in Range(export.file.lines),
                      l.account \notin {Cash, Capital}
               PROVE  Cardinality({m \in export.file.masters : m.ledger = l.account}) = 1
    BY DEF LedgersDefined
  <2>1. IsList(screen)
    BY <1>1 DEF BooksInv, Screen
  <2>2. export # Refused
    <3>1. Refused.file.lines = <<>>
      BY DEF Refused, File
    <3>2. Range(<<>>) = {}
      BY DEF Range
    <3> QED
      BY <3>1, <3>2
  <2>3. PICK file : file = TallyFile(screen, o, ob)
    OBVIOUS
  <2>4. export.file = file
    BY <2>2, <2>3 DEF Wizard, QuickTally, AccountingFile
  <2>5. PICK rows : rows = TallyRows(screen, o)
    OBVIOUS
  <2>6. IsList(rows)
    BY <2>1, <2>5, OnlyList DEF TallyRows
  <2>7. file.masters = Masters(rows)
    BY <2>3, <2>5 DEF TallyFile, File
  <2>8. l.account = BankLedger \/ \E k \in DOMAIN rows : l.account = PostingLedger(rows[k])
    BY <2>1, <2>3, <2>4, <2>5, TallyAccounts
  <2>9. PICK a : a = l.account
    OBVIOUS
  <2>10. Cardinality({m \in Masters(rows) : m.ledger = a}) = 1
    <3>1. a = BankLedger \/ \E k \in DOMAIN rows : a = PostingLedger(rows[k])
      BY <2>8, <2>9
    <3> QED
      BY <2>6, <3>1, MastersOnce, Zenon
  <2> QED
    BY <2>4, <2>7, <2>9, <2>10
<1> QED
  BY <1>1, BooksInductive, PTL

-----------------------------------------------------------------------------
(***************************************************************************)
(* The reconciliation report, for every register, every list of            *)
(* transactions and every tolerance.                                       *)
(***************************************************************************)
\* A score is a number, so that any two pairs compare.
LEMMA ScoreInt ==
    ASSUME NEW b \in Entry, NEW v \in Entry
    PROVE  Score(b, v) \in Int
<1> DEFINE both   == Cardinality(b.narr \cap v.narr)
           either == Cardinality(b.narr \cup v.narr)
<1>1. /\ IsFiniteSet(b.narr \cap v.narr)
      /\ IsFiniteSet(b.narr \cup v.narr)
  BY ReconAssumption, FS_Subset DEF Entry
<1>2. both \in Nat /\ either \in Nat
  BY <1>1, FS_CardinalityType
<1>3. b.narr # {} => either > 0
  BY <1>1, <1>2, FS_EmptySet
<1>4. NarrScore(b, v) \in Int
  <2>1. b.narr # {} => (30 * both + either) \div (2 * either) \in Int
    <3> SUFFICES ASSUME b.narr # {}
                 PROVE (30 * both + either) \div (2 * either) \in Int
      OBVIOUS
    <3>1. 2 * either \in Nat /\ 2 * either > 0 /\ 30 * both + either \in Nat
      BY <1>2, <1>3
    <3> HIDE DEF both, either
    <3> QED
      BY <3>1
  <2> QED
    BY <2>1 DEF NarrScore
<1>5. AmountScore(b, v) \in Int /\ DateScore(b, v) \in Int /\ RefScore(b, v) \in Int
  BY DEF AmountScore, DateScore, RefScore
<1> QED
  BY <1>4, <1>5 DEF Score

\* The score of a pair of the lists is a number.
LEMMA ScoreOfInt ==
    ASSUME TypeOK, NEW p \in Pairs
    PROVE  ScoreOf(p) \in Int
  BY ScoreInt DEF TypeOK, Pairs, ScoreOf

\* The invariant of the greedy assignment holds of no report.
LEMMA InitIInv == ReconInit => IInv
  BY DEF ReconInit, IInv, TypeOK, OneToOne, Free, Settled, Pairs, Entry

\* Emptying the report, or starting one with every scoring pair a candidate.
LEMMA RestartIInv ==
    ASSUME vouchers' \in Seq(Entry), bank' \in Seq(Entry), matches' = {},
           left' \subseteq Pairs',
           bank' # <<>> => \A p \in Pairs' : ScoreOf(p)' > 0 => p \in left'
    PROVE  IInv'
  BY DEF IInv, TypeOK, OneToOne, Free, Settled

\* Claiming the best candidate keeps it.
LEMMA ClaimIInv == ASSUME IInv, Claim PROVE IInv'
<1>1. PICK p \in left :
        /\ Best(p)
        /\ matches' = matches \cup {[bank |-> p[1], voucher |-> p[2], score |-> ScoreOf(p), status |-> Status(ScoreOf(p))]}
        /\ left' = {q \in left : q[1] # p[1] /\ q[2] # p[2]}
        /\ UNCHANGED <<vouchers, bank>>
  BY DEF Claim
<1> DEFINE new == [bank |-> p[1], voucher |-> p[2], score |-> ScoreOf(p), status |-> Status(ScoreOf(p))]
<1>2. p \in Pairs /\ p = <<p[1], p[2]>> /\ p[1] \in Nat /\ p[2] \in Nat
  BY DEF IInv, TypeOK, Pairs
<1>3. \A q \in Pairs : ScoreOf(q) \in Int
  BY ScoreOfInt DEF IInv
<1>4. Pairs' = Pairs /\ \A q : ScoreOf(q)' = ScoreOf(q)
  BY <1>1 DEF Pairs, ScoreOf
<1>5. TypeOK'
  <2>1. new \in [bank : Nat, voucher : Nat, score : Int, status : {"Matched", "Likely", "Possible"}]
    BY <1>2, <1>3 DEF Status
  <2>2. <<new.bank, new.voucher>> \in Pairs
    BY <1>2
  <2> QED
    BY <1>1, <1>4, <2>1, <2>2 DEF IInv, TypeOK
<1>6. OneToOne'
  BY <1>1 DEF IInv, OneToOne, Free
<1>7. Free'
  BY <1>1 DEF IInv, Free
<1>8. Settled'
  <2> SUFFICES ASSUME bank # <<>>, NEW q \in Pairs, ScoreOf(q) > 0, q \notin left'
               PROVE \E m \in matches' : (m.bank = q[1] \/ m.voucher = q[2]) /\ m.score >= ScoreOf(q)
    BY <1>1, <1>4 DEF Settled
  <2>1. CASE q \in left
    <3>1. q[1] = p[1] \/ q[2] = p[2]
      BY <1>1, <2>1
    <3>2. ScoreOf(p) >= ScoreOf(q)
      BY <1>1, <1>2, <1>3, <2>1 DEF Best
    <3>3. new \in matches'
      BY <1>1
    <3> QED
      BY <3>1, <3>2, <3>3
  <2>2. CASE q \notin left
    BY <1>1, <2>2 DEF IInv, Settled
  <2> QED
    BY <2>1, <2>2
<1> QED
  BY <1>5, <1>6, <1>7, <1>8 DEF IInv

\* So does every step.
LEMMA NextIInv == ASSUME IInv, [ReconNext]_rvars PROVE IInv'
<1>1. ASSUME NEW reg \in Registers, ImportRegister(reg) PROVE IInv'
  BY <1>1, RestartIInv, ReconAssumption DEF ImportRegister
<1>2. ASSUME NEW entries \in Loaded, Run(entries) PROVE IInv'
  BY <1>2, RestartIInv, ReconAssumption DEF Run, IInv, TypeOK, Pairs, ScoreOf
<1>3. CASE Claim
  BY <1>3, ClaimIInv
<1>4. CASE ForgetRegister
  BY <1>4, RestartIInv DEF ForgetRegister
<1>5. CASE UNCHANGED rvars
  BY <1>5 DEF rvars, IInv, TypeOK, OneToOne, Free, Settled, Pairs, ScoreOf
<1> QED
  BY <1>1, <1>2, <1>3, <1>4, <1>5 DEF ReconNext

\* The scores, the matches and the candidates keep their types.
THEOREM ReconTyped == ReconSpec => []TypeOK
  BY InitIInv, NextIInv, PTL DEF ReconSpec, IInv

\* No transaction and no voucher of a report is matched twice.
THEOREM MatchedOnce == ReconSpec => []OneToOne
  BY InitIInv, NextIInv, PTL DEF ReconSpec, IInv

\* A finished report leaves out no pair that scores better than what its sides got.
THEOREM Stable == ReconSpec => []NoBlockingPair
<1>1. IInv => NoBlockingPair
  BY DEF IInv, TypeOK, Settled, NoBlockingPair, Pairs
<1> QED
  BY <1>1, InitIInv, NextIInv, PTL DEF ReconSpec
=============================================================================
