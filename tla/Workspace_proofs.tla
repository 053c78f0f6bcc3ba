-------------------------- MODULE Workspace_proofs --------------------------
(***************************************************************************)
(* The screen shows what the database holds, a statement checked for       *)
(* duplicates is stored once, and what the user has classified outlives    *)
(* every automatic step, for any clients, statements, rules and number of  *)
(* edits, threads, failed writes and restarts.                             *)
(***************************************************************************)
EXTENDS Workspace, SequenceTheorems, FunctionTheorems, FiniteSetTheorems, WellFoundedInduction,
        TLAPS

(***************************************************************************)
(* The inductive invariant is of a desk, the state as a handler has it in  *)
(* hand.  ShownIsStored also needs that the ids that repeat on the screen  *)
(* are excused (Shown), and LoadedOnce that a key has one id and is hashed *)
(* wherever a row of the client may come back from: its table, the screen, *)
(* the copy of the AI thread and, through ReloadImport, a row of any place *)
(* that names an import of the client (Once).                              *)
(***************************************************************************)
AiRows(d)   == IF d.ai = NoRun THEN {} ELSE ToSet(d.ai.rows)
Anywhere(d) == (UNION {d.tables[c] : c \in Clients}) \cup ToSet(d.screen) \cup AiRows(d)

\* The rows that are of client c, or on their way to it.
Of(d, c) ==
    d.tables[c] \cup (IF d.client = c THEN ToSet(d.screen) ELSE {})
        \cup (IF d.ai # NoRun /\ d.ai.home = c THEN AiRows(d) ELSE {})
        \cup {r \in Anywhere(d) : r.import \in DOMAIN d.history /\ d.history[r.import] = c}

Registered(d) ==
    /\ d.clients \subseteq d.born /\ IsFiniteSet(d.clients)
    /\ d.client # NoClient => d.client \in d.clients
    /\ \A i \in DOMAIN d.history : d.history[i] # NoClient => d.history[i] \in d.born
    /\ d.ai # NoRun /\ d.ai.home # NoClient => d.ai.home \in d.born

OnePerId(table) == \A r, o \in table : r.id = o.id => r = o

TablesOK(d) == \A c \in Clients :
    /\ IsFiniteSet(d.tables[c])
    /\ c \notin d.clients => d.tables[c] = {}
    /\ OnePerId(d.tables[c])

ImportsKnown(d) == \A r \in Anywhere(d) : r.import = NoImport \/ r.import \in DOMAIN d.history

Well(d) == d \in Desks /\ Registered(d) /\ TablesOK(d) /\ ImportsKnown(d)

Matches(r, o) == r.id = o.id /\ r.key = o.key /\ r.class = o.class

Shown(d) == d.client # NoClient =>
    /\ Twice(d.screen) \subseteq d.unsaved
    /\ \A j \in DOMAIN d.screen : d.screen[j].id \notin d.unsaved =>
          \E r \in d.tables[d.client] : Matches(r, d.screen[j])

Once(d) == \A c \in d.clients \ d.unchecked : \A r \in Of(d, c) :
    r.key \notin Uncompared => r.key \in d.hashes[c] /\ \A o \in Of(d, c) : o.key = r.key => o.id = r.id

\* Every row of R is one of O, but for its classification, or typed in.
Copied(R, O) == \A r \in R :
    \/ r.key = Typed /\ r.import = NoImport
    \/ \E o \in O : o.id = r.id /\ o.key = r.key /\ o.import = r.import

\* What moves rows between the tables, the screen and the threads.
Moved(d, x) ==
    /\ x \in Desks
    /\ x.clients = d.clients /\ x.born = d.born /\ x.history = d.history /\ x.hashes = d.hashes
    /\ d.unchecked \subseteq x.unchecked
    /\ x.client # NoClient => x.client \in d.clients
    /\ \/ x.ai \in {d.ai, NoRun}
       \/ x.ai.rows = d.screen /\ x.ai.home = d.client
    /\ Copied(ToSet(x.screen), Anywhere(d))
    /\ x.client \in x.clients \ x.unchecked => Copied(ToSet(x.screen), Of(d, x.client))
    /\ \A c \in Clients :
          \/ x.tables[c] = d.tables[c]
          \/ /\ c = x.client
             /\ IsFiniteSet(x.tables[c]) /\ OnePerId(x.tables[c])
             /\ Copied(x.tables[c], d.tables[c] \cup ToSet(x.screen))

-----------------------------------------------------------------------------
(***************************************************************************)
(* Positions, and the sequences made of sets of them.                      *)
(***************************************************************************)
\* < is well-founded on Nat, as a set of pairs.
LEMMA LessThan == IsWellFoundedOn({ss \in Nat \X Nat : ss[1] < ss[2]}, Nat)
BY NatLessThanWellFounded DEF OpToRel

\* A set of naturals has a least member.
LEMMA Least ==
    ASSUME NEW S \in SUBSET Nat, S # {}
    PROVE  \E x \in S : \A y \in S : x <= y
<1> DEFINE R == {ss \in Nat \X Nat : ss[1] < ss[2]}
<1>1. PICK x \in S : \A y \in S : ~(<<y, x>> \in R)
  <2>1. IsWellFoundedOn(R, Nat)
    BY LessThan
  <2> HIDE DEF R
  <2> QED
    BY <2>1, WFMin
<1>2. \A y \in S : x <= y
  <2> SUFFICES ASSUME NEW y \in S PROVE x <= y
    OBVIOUS
  <2>1. x \in Nat /\ y \in Nat /\ ~(y < x)
    BY <1>1
  <2> QED
    BY <2>1
<1> QED
  BY <1>2

\* A bounded one has a greatest.
LEMMA Greatest ==
    ASSUME NEW n \in Nat, NEW S \in SUBSET (1..n), S # {}
    PROVE  \E l \in S : \A m \in S : m <= l
<1> DEFINE T == {k \in Nat : \E l \in S : k = n - l}
<1>1. T \subseteq Nat /\ T # {}
  <2>1. PICK l \in S : TRUE
    OBVIOUS
  <2>2. n - l \in T
    BY <2>1
  <2> QED
    BY <2>2
<1>2. PICK x \in T : \A y \in T : x <= y
  <2> HIDE DEF T
  <2> QED
    BY <1>1, Least
<1>3. PICK l \in S : x = n - l
  OBVIOUS
<1>4. ASSUME NEW m \in S PROVE m <= l
  <2>1. n - m \in T
    OBVIOUS
  <2>2. x <= n - m
    BY <1>2, <2>1
  <2> QED
    BY <1>3, <2>2
<1> QED
  BY <1>4

\* Of positions there is a last one: the row that wins an INSERT OR REPLACE.
LEMMA MaxIsOne ==
    ASSUME NEW n \in Nat, NEW S \in SUBSET (1..n), S # {}
    PROVE  Max(S) \in S
BY Greatest DEF Max

\* Of positions there is a first one: the row undo_last_edit looks for.
LEMMA MinIsOne ==
    ASSUME NEW S \in SUBSET Nat, S # {}
    PROVE  Min(S) \in S
BY Least DEF Min

\* SetToSeq lists members of the set, each once.
LEMMA Listed ==
    ASSUME NEW S, IsFiniteSet(S)
    PROVE  /\ SetToSeq(S) \in Seq(S)
           /\ \A i \in DOMAIN SetToSeq(S) : SetToSeq(S)[i] \in S
           /\ \A i, j \in DOMAIN SetToSeq(S) : SetToSeq(S)[i] = SetToSeq(S)[j] => i = j
<1>1. Cardinality(S) \in Nat /\ ExistsBijection(1..Cardinality(S), S)
  BY FS_CardinalityType
<1>2. PICK b \in Bijection(1..Cardinality(S), S) : TRUE
  BY <1>1 DEF ExistsBijection
<1>3. b \in [1..Cardinality(S) -> S] /\ IsInjective(b)
  BY <1>2 DEF Bijection, Injection
<1>4. SetToSeq(S) \in [1..Cardinality(S) -> S] /\ IsInjective(SetToSeq(S))
  BY <1>3 DEF SetToSeq
<1>5. PICK q : q = SetToSeq(S)
  OBVIOUS
<1>6. q \in Seq(S)
  BY <1>1, <1>4, <1>5, SeqDef
<1> QED
  BY <1>4, <1>5, <1>6 DEF IsInjective

\* The n-th of a finite set of positions is the one with n - 1 before it.
LEMMA NthIsOne ==
    ASSUME NEW S \in SUBSET Nat, IsFiniteSet(S)
    PROVE  \A n \in 1..Cardinality(S) :
             Nth(S, n) \in S /\ Cardinality({j \in S : j < Nth(S, n)}) = n - 1
<1> DEFINE Below(i) == {j \in S : j < i}
           Missing == {n \in 1..Cardinality(S) : \A i \in S : Cardinality(Below(i)) # n - 1}
<1>1. Cardinality(S) \in Nat
  BY FS_CardinalityType
<1>2. \A i \in S : IsFiniteSet(Below(i)) /\ Cardinality(Below(i)) \in Nat
  <2> SUFFICES ASSUME NEW i \in S PROVE IsFiniteSet(Below(i)) /\ Cardinality(Below(i)) \in Nat
    OBVIOUS
  <2>1. Below(i) \in SUBSET S
    OBVIOUS
  <2> QED
    BY <2>1, FS_Subset, FS_CardinalityType
<1>3. Missing = {}
  <2> SUFFICES ASSUME Missing # {} PROVE FALSE
    OBVIOUS
  <2>1. Missing \in SUBSET Nat
    BY <1>1
  <2>2. PICK n \in Missing : \A m \in Missing : n <= m
    <3> HIDE DEF Missing
    <3> QED
      BY <2>1, Least
  <2>3. n \in Nat /\ n >= 1 /\ n <= Cardinality(S)
    BY <1>1
  <2>4. CASE n = 1
    <3>1. S # {}
      BY <2>3, FS_EmptySet
    <3>2. PICK x \in S : \A y \in S : x <= y
      BY <3>1, Least
    <3>3. Below(x) = {}
      <4> SUFFICES ASSUME NEW y \in S, y < x PROVE FALSE
        OBVIOUS
      <4>1. x <= y /\ x \in Nat /\ y \in Nat
        BY <3>2
      <4> QED
        BY <4>1
    <3>4. Cardinality(Below(x)) = 0
      BY <3>3, FS_EmptySet
    <3> QED
      BY <2>4, <3>4
  <2>5. CASE n # 1
    <3>1. n - 1 \in 1..Cardinality(S) /\ ~(n <= n - 1)
      BY <1>1, <2>3, <2>5
    <3>2. n - 1 \notin Missing
      BY <2>2, <3>1
    <3>3. PICK i \in S : Cardinality(Below(i)) = (n - 1) - 1
      BY <3>1, <3>2
    <3>4. PICK U : U = Below(i) \cup {i}
      OBVIOUS
    <3>5. IsFiniteSet(U) /\ Cardinality(U) = n - 1 /\ U \subseteq S
      <4>1. i \notin Below(i)
        OBVIOUS
      <4>2. Cardinality(Below(i) \cup {i}) = Cardinality(Below(i)) + 1
            /\ IsFiniteSet(Below(i) \cup {i})
        BY <1>2, <4>1, FS_AddElement
      <4> QED
        BY <2>3, <3>3, <3>4, <4>2
    <3>6. {k \in S : i < k} # {}
      <4> SUFFICES ASSUME {k \in S : i < k} = {} PROVE FALSE
        OBVIOUS
      <4>1. \A k \in S : k = i \/ k < i
        OBVIOUS
      <4>2. U = S
        BY <3>4, <4>1
      <4> QED
        BY <1>1, <2>3, <3>5, <4>2
    <3>7. PICK k \in {l \in S : i < l} : \A l \in {m \in S : i < m} : k <= l
      <4>1. {l \in S : i < l} \in SUBSET Nat
        OBVIOUS
      <4> QED
        BY <3>6, <4>1, Least
    <3>8. Below(k) = U
      <4>1. \A l \in S : l < k <=> (l < i \/ l = i)
        BY <3>7
      <4> QED
        BY <3>4, <4>1
    <3> QED
      BY <3>5, <3>7, <3>8
  <2> QED
    BY <2>4, <2>5
<1>4. \A n \in 1..Cardinality(S) : \E i \in S : Cardinality(Below(i)) = n - 1
  BY <1>3
<1> QED
  BY <1>4 DEF Nth

\* Only lists the rows at these positions, each once.
LEMMA OnlyThese ==
    ASSUME NEW T, NEW rows \in Seq(T), NEW S \in SUBSET (DOMAIN rows)
    PROVE  /\ Only(rows, S) \in Seq(T)
           /\ \A n \in DOMAIN Only(rows, S) : Nth(S, n) \in S /\ Only(rows, S)[n] = rows[Nth(S, n)]
           /\ \A m, n \in DOMAIN Only(rows, S) : Nth(S, m) = Nth(S, n) => m = n
<1>1. DOMAIN rows = 1..Len(rows) /\ Len(rows) \in Nat
  BY LenProperties
<1>2. S \in SUBSET Nat /\ IsFiniteSet(S)
  <2>1. IsFiniteSet(1..Len(rows))
    BY <1>1, FS_Interval
  <2> QED
    BY <1>1, <2>1, FS_Subset
<1>3. Cardinality(S) \in Nat
  BY <1>2, FS_CardinalityType
<1>4. \A n \in 1..Cardinality(S) : Nth(S, n) \in S /\ Cardinality({j \in S : j < Nth(S, n)}) = n - 1
  BY <1>2, NthIsOne
<1>5. \A n \in 1..Cardinality(S) : rows[Nth(S, n)] \in T
  BY <1>4, ElementOfSeq, <1>1
<1>6. Only(rows, S) \in [1..Cardinality(S) -> T]
  BY <1>5 DEF Only
<1>7. Only(rows, S) \in Seq(T) /\ DOMAIN Only(rows, S) = 1..Cardinality(S)
  BY <1>3, <1>6, SeqDef
<1>8. \A m, n \in 1..Cardinality(S) : Nth(S, m) = Nth(S, n) => m = n
  <2> SUFFICES ASSUME NEW m \in 1..Cardinality(S), NEW n \in 1..Cardinality(S),
                      Nth(S, m) = Nth(S, n)
               PROVE  m = n
    OBVIOUS
  <2>1. m - 1 = n - 1
    BY <1>4
  <2> QED
    BY <1>3, <2>1
<1> QED
  BY <1>4, <1>7, <1>8 DEF Only

\* What is left of a sequence without its j-th element, in its order.
LeftOf(new, s, j) ==
    /\ \A k \in DOMAIN new : \E m \in DOMAIN s : m # j /\ new[k] = s[m]
    /\ \A l, k \in DOMAIN new : l < k =>
          \E m, p \in DOMAIN s : m < p /\ new[l] = s[m] /\ new[k] = s[p]

\* Vec::remove leaves the other rows, in their order.
LEMMA Removed ==
    ASSUME NEW T, NEW s \in Seq(T), NEW j \in DOMAIN s, NEW new, new = RemoveAt(s, j)
    PROVE  new \in Seq(T) /\ LeftOf(new, s, j)
<1>1. Len(s) \in Nat /\ DOMAIN s = 1..Len(s) /\ j \in 1..Len(s)
  BY LenProperties
<1>2. /\ SubSeq(s, 1, j-1) \in Seq(T) /\ Len(SubSeq(s, 1, j-1)) = j - 1
      /\ \A k \in 1..j-1 : SubSeq(s, 1, j-1)[k] = s[k]
      /\ SubSeq(s, j+1, Len(s)) \in Seq(T) /\ Len(SubSeq(s, j+1, Len(s))) = Len(s) - j
      /\ \A k \in 1..Len(s) - j : SubSeq(s, j+1, Len(s))[k] = s[j + k]
  BY <1>1, SMTT(30)
<1>3. PICK a, b : a = SubSeq(s, 1, j-1) /\ b = SubSeq(s, j+1, Len(s))
  OBVIOUS
<1>4. RemoveAt(s, j) = a \o b
  BY <1>3 DEF RemoveAt
<1>5. /\ a \o b \in Seq(T) /\ DOMAIN (a \o b) = 1..Len(s) - 1
      /\ \A k \in 1..Len(s) - 1 : (a \o b)[k] = IF k < j THEN s[k] ELSE s[k + 1]
  <2>1. /\ a \in Seq(T) /\ Len(a) = j - 1 /\ \A k \in 1..j-1 : a[k] = s[k]
        /\ b \in Seq(T) /\ Len(b) = Len(s) - j /\ \A k \in 1..Len(s) - j : b[k] = s[j + k]
    BY <1>2, <1>3
  <2>2. /\ a \o b \in Seq(T) /\ Len(a \o b) = Len(a) + Len(b)
        /\ \A k \in 1..Len(a) + Len(b) : (a \o b)[k] = IF k <= Len(a) THEN a[k] ELSE b[k - Len(a)]
    BY <2>1, ConcatProperties
  <2>3. Len(a) + Len(b) = Len(s) - 1
    BY <1>1, <2>1
  <2>4. ASSUME NEW k \in 1..Len(s) - 1 PROVE (a \o b)[k] = IF k < j THEN s[k] ELSE s[k + 1]
    <3>1. CASE k < j
      <4>1. k <= Len(a) /\ k \in 1..j-1
        BY <1>1, <2>1, <3>1
      <4> QED
        BY <2>1, <2>2, <2>3, <3>1, <4>1
    <3>2. CASE ~(k < j)
      <4>1. k - Len(a) \in 1..Len(s) - j /\ j + (k - Len(a)) = k + 1 /\ ~(k <= Len(a))
        BY <1>1, <2>1, <3>2
      <4> QED
        BY <2>1, <2>2, <2>3, <3>2, <4>1
    <3> QED
      BY <3>1, <3>2
  <2> QED
    BY <2>2, <2>3, <2>4, LenProperties
<1> DEFINE was == [k \in 1..Len(s) - 1 |-> IF k < j THEN k ELSE k + 1]
<1>6. \A k \in 1..Len(s) - 1 : was[k] = IF k < j THEN k ELSE k + 1
  OBVIOUS
<1> HIDE DEF was
<1>7. \A k \in 1..Len(s) - 1 : was[k] \in (DOMAIN s) \ {j} /\ (a \o b)[k] = s[was[k]]
  <2> SUFFICES ASSUME NEW k \in 1..Len(s) - 1
               PROVE  was[k] \in (DOMAIN s) \ {j} /\ (a \o b)[k] = s[was[k]]
    OBVIOUS
  <2>1. was[k] \in 1..Len(s) /\ was[k] # j
    BY <1>1, <1>6
  <2>2. (a \o b)[k] = IF k < j THEN s[k] ELSE s[k + 1]
    BY <1>5
  <2> QED
    BY <1>1, <1>6, <2>1, <2>2
<1>8. \A k, l \in 1..Len(s) - 1 : k < l => was[k] < was[l]
  BY <1>1, <1>6
<1>9. new \in Seq(T) /\ DOMAIN new = 1..Len(s) - 1
  BY <1>4, <1>5
<1>10. \A k \in DOMAIN new : was[k] \in DOMAIN s /\ was[k] # j /\ new[k] = s[was[k]]
  BY <1>4, <1>7, <1>9
<1>11. \A k \in DOMAIN new : \E m \in DOMAIN s : m # j /\ new[k] = s[m]
  BY <1>10
<1>12. \A l, k \in DOMAIN new : l < k =>
          \E m, p \in DOMAIN s : m < p /\ new[l] = s[m] /\ new[k] = s[p]
  BY <1>8, <1>9, <1>10
<1> QED
  BY <1>9, <1>11, <1>12 DEF LeftOf

\* A finite union of finite sets is finite.
LEMMA FiniteUnion ==
    ASSUME NEW C, IsFiniteSet(C), NEW t, \A c \in C : IsFiniteSet(t[c])
    PROVE  IsFiniteSet(UNION {t[c] : c \in C})
<1> DEFINE All(D) == UNION {t[c] : c \in D}
           Bad == {D \in SUBSET C : ~IsFiniteSet(All(D))}
<1>1. Bad = {}
  <2> SUFFICES ASSUME Bad # {} PROVE FALSE
    OBVIOUS
  <2>1. IsWellFoundedOn(StrictSubsetOrdering(C), FiniteSubsetsOf(C)) /\ FiniteSubsetsOf(C) = SUBSET C
    BY FS_StrictSubsetOrderingWellFounded, FS_FiniteSubsetsOfFinite
  <2>2. PICK D \in Bad : \A E \in Bad : ~(<<E, D>> \in StrictSubsetOrdering(C))
    <3>1. Bad \subseteq FiniteSubsetsOf(C)
      BY <2>1
    <3> HIDE DEF Bad
    <3> QED
      BY <2>1, <3>1, WFMin
  <2>3. D # {}
    <3>1. All({}) = {}
      OBVIOUS
    <3> QED
      BY <3>1, FS_EmptySet
  <2>4. PICK c \in D : TRUE
    BY <2>3
  <2>5. PICK E : E = D \ {c}
    OBVIOUS
  <2>6. E \in SUBSET C /\ E \notin Bad
    <3>1. <<E, D>> \in StrictSubsetOrdering(C)
      BY <2>4, <2>5 DEF StrictSubsetOrdering
    <3> QED
      BY <2>2, <2>5, <3>1
  <2>7. IsFiniteSet(All(E))
    BY <2>6
  <2>8. All(D) = All(E) \cup t[c]
    BY <2>4, <2>5
  <2>9. IsFiniteSet(All(E) \cup t[c])
    BY <2>4, <2>7, FS_Union
  <2> QED
    BY <2>8, <2>9
<1> QED
  BY <1>1

-----------------------------------------------------------------------------
(***************************************************************************)
(* The desk, and the rows that move on it.                                 *)
(***************************************************************************)
\* The desk after a handler that left with x.
LEMMA Left ==
    ASSUME NEW x \in Desks, Leave(x)
    PROVE  Desk' = x
BY DEF Leave, Desk, Desks

\* The desk is the state.
LEMMA DeskFields ==
    /\ Desk.clients = clients /\ Desk.born = born /\ Desk.tables = tables
    /\ Desk.history = history /\ Desk.hashes = hashes /\ Desk.rules = rules
    /\ Desk.client = client /\ Desk.screen = screen /\ Desk.undo = undo
    /\ Desk.ocr = ocr /\ Desk.ai = ai /\ Desk.unsaved = unsaved
    /\ Desk.unchecked = unchecked /\ Desk.mishaps = mishaps
BY DEF Desk

\* What the fields of a desk are.
LEMMA Fields ==
    ASSUME NEW d \in Desks
    PROVE  /\ d.clients \in SUBSET Clients /\ d.born \in SUBSET Clients
           /\ d.tables \in [Clients -> SUBSET Rows]
           /\ d.history \in Seq(Clients \cup {NoClient}) /\ d.hashes \in [Clients -> SUBSET Keys]
           /\ d.rules \in [Clients -> [Keys -> {NoLedger, Picked, Suggested}]]
           /\ d.client \in Clients \cup {NoClient} /\ d.screen \in Seq(Rows)
           /\ d.undo \in Seq([id : RowIds, class : Classes]) /\ d.ocr \in SUBSET Files
           /\ d.ai \in {NoRun} \cup [rows : Seq(Rows), home : Clients \cup {NoClient}]
           /\ d.unsaved \in SUBSET RowIds /\ d.unchecked \in SUBSET (Clients \cup {NoClient})
           /\ d.mishaps \in Nat
BY DEF Desks

\* A row is somewhere if a table, the screen or the AI thread has it.
LEMMA Places ==
    ASSUME NEW d, NEW r
    PROVE  r \in Anywhere(d) <=> \/ \E c \in Clients : r \in d.tables[c]
                                 \/ r \in ToSet(d.screen)
                                 \/ r \in AiRows(d)
<1>1. r \in UNION {d.tables[c] : c \in Clients} <=> \E c \in Clients : r \in d.tables[c]
  OBVIOUS
<1>2. r \in Anywhere(d) <=> \/ r \in UNION {d.tables[c] : c \in Clients}
                            \/ r \in ToSet(d.screen) \/ r \in AiRows(d)
  BY Zenon DEF Anywhere
<1> QED
  BY <1>1, <1>2

\* No row appears from nowhere.
LEMMA MovedCopies ==
    ASSUME NEW d, NEW x, Moved(d, x)
    PROVE  Copied(Anywhere(x), Anywhere(d))
<1>1. Copied(ToSet(x.screen), Anywhere(d))
  BY DEF Moved
<1>2. AiRows(x) \subseteq Anywhere(d)
  <2>1. AiRows(x) \subseteq AiRows(d) \cup ToSet(d.screen)
    <3>1. CASE x.ai \in {d.ai, NoRun}
      BY <3>1 DEF AiRows
    <3>2. CASE x.ai.rows = d.screen
      BY <3>2 DEF AiRows
    <3> QED
      BY <3>1, <3>2 DEF Moved
  <2> QED
    BY <2>1, Places
<1>3. ASSUME NEW c \in Clients PROVE Copied(x.tables[c], Anywhere(d))
  <2>1. d.tables[c] \subseteq Anywhere(d)
    BY DEF Anywhere
  <2>2. CASE x.tables[c] = d.tables[c]
    BY <2>1, <2>2 DEF Copied
  <2>3. CASE Copied(x.tables[c], d.tables[c] \cup ToSet(x.screen))
    BY <1>1, <2>1, <2>3 DEF Copied
  <2> QED
    BY <2>2, <2>3 DEF Moved
<1> SUFFICES ASSUME NEW r \in Anywhere(x), ~(r.key = Typed /\ r.import = NoImport)
             PROVE  \E o \in Anywhere(d) : o.id = r.id /\ o.key = r.key /\ o.import = r.import
  BY DEF Copied
<1>4. CASE r \in ToSet(x.screen)
  BY <1>1, <1>4 DEF Copied
<1>5. CASE r \in AiRows(x)
  BY <1>2, <1>5
<1>6. CASE \E c \in Clients : r \in x.tables[c]
  <2>1. PICK c \in Clients : r \in x.tables[c]
    BY <1>6
  <2> QED
    BY <1>3, <2>1 DEF Copied
<1> QED
  BY <1>4, <1>5, <1>6, Places

\* Rows move between places: what is known of them goes with them.
LEMMA MovedWell ==
    ASSUME NEW d, NEW x, Well(d), Moved(d, x)
    PROVE  Well(x)
<1>1. x \in Desks
  BY DEF Moved
<1>2. Registered(x)
  <2>1. x.ai # NoRun /\ x.ai.home # NoClient => x.ai.home \in x.born
    <3>1. CASE x.ai \in {d.ai, NoRun}
      BY <3>1 DEF Well, Registered, Moved
    <3>2. CASE x.ai.rows = d.screen /\ x.ai.home = d.client
      BY <3>2 DEF Well, Registered, Moved
    <3> QED
      BY <3>1, <3>2 DEF Moved
  <2> QED
    BY <2>1 DEF Well, Registered, Moved
<1>3. TablesOK(x)
  <2> SUFFICES ASSUME NEW c \in Clients
               PROVE  /\ IsFiniteSet(x.tables[c])
                      /\ c \notin x.clients => x.tables[c] = {}
                      /\ OnePerId(x.tables[c])
    BY DEF TablesOK
  <2>1. CASE x.tables[c] = d.tables[c]
    BY <2>1 DEF Well, TablesOK, Moved
  <2>2. CASE c = x.client /\ IsFiniteSet(x.tables[c]) /\ OnePerId(x.tables[c])
    <3>1. c # NoClient
      BY NamesAreApart
    <3> QED
      BY <2>2, <3>1 DEF Moved
  <2> QED
    BY <2>1, <2>2 DEF Moved
<1>4. Copied(Anywhere(x), Anywhere(d))
  BY MovedCopies
<1>5. ImportsKnown(x)
  BY <1>4 DEF Copied, ImportsKnown, Well, Moved
<1> QED
  BY <1>1, <1>2, <1>3, <1>5 DEF Well

\* And with them, that a key has one id among the rows of a client.
LEMMA MovedOnce ==
    ASSUME NEW d, NEW x, Well(d), Moved(d, x), Once(d)
    PROVE  Once(x)
<1>1. Copied(Anywhere(x), Anywhere(d))
  BY MovedCopies
<1> SUFFICES ASSUME NEW c \in x.clients \ x.unchecked
             PROVE  \A r \in Of(x, c) : r.key \notin Uncompared =>
                       r.key \in x.hashes[c] /\ \A o \in Of(x, c) : o.key = r.key => o.id = r.id
  BY DEF Once
<1>2. c \in d.clients \ d.unchecked /\ c \in Clients /\ c # NoClient /\ x.hashes = d.hashes
      /\ c \in x.clients
  BY NamesAreApart, Fields DEF Moved, Well
<1>3. Copied(Of(x, c), Of(d, c))
  <2> SUFFICES ASSUME NEW r \in Of(x, c), ~(r.key = Typed /\ r.import = NoImport)
               PROVE  \E o \in Of(d, c) : o.id = r.id /\ o.key = r.key /\ o.import = r.import
    BY DEF Copied
  <2>0. CASE r \in ToSet(x.screen) /\ x.client = c
    BY <2>0, <1>2 DEF Moved, Copied
  <2>1. CASE r \in x.tables[c]
    <3>1. CASE x.tables[c] = d.tables[c]
      BY <2>1, <3>1 DEF Of
    <3>2. CASE c = x.client /\ Copied(x.tables[c], d.tables[c] \cup ToSet(x.screen))
      <4>1. PICK o \in d.tables[c] \cup ToSet(x.screen) :
               o.id = r.id /\ o.key = r.key /\ o.import = r.import
        BY <2>1, <3>2 DEF Copied
      <4>2. CASE o \in d.tables[c]
        BY <4>1, <4>2 DEF Of
      <4>3. CASE o \in ToSet(x.screen)
        <5>1. Copied(ToSet(x.screen), Of(d, c))
          BY <1>2, <3>2 DEF Moved
        <5>2. ~(o.key = Typed /\ o.import = NoImport)
          BY <4>1
        <5>3. PICK p \in Of(d, c) : p.id = o.id /\ p.key = o.key /\ p.import = o.import
          BY <4>3, <5>1, <5>2 DEF Copied
        <5> QED
          BY <4>1, <5>3
      <4> QED
        BY <4>2, <4>3
    <3> QED
      BY <1>2, <3>1, <3>2 DEF Moved
  <2>2. CASE x.ai # NoRun /\ x.ai.home = c /\ r \in AiRows(x)
    <3>1. CASE x.ai = d.ai
      BY <2>2, <3>1 DEF Of, AiRows
    <3>2. CASE x.ai.rows = d.screen /\ x.ai.home = d.client
      BY <2>2, <3>2 DEF Of, AiRows
    <3> QED
      BY <2>2, <3>1, <3>2 DEF Moved
  <2>3. CASE r \in Anywhere(x) /\ r.import \in DOMAIN x.history /\ x.history[r.import] = c
    <3>1. PICK o \in Anywhere(d) : o.id = r.id /\ o.key = r.key /\ o.import = r.import
      BY <1>1, <2>3 DEF Copied
    <3>2. o \in Of(d, c)
      <4>1. x.history = d.history
        BY DEF Moved
      <4> QED
        BY <2>3, <3>1, <4>1 DEF Of
    <3> QED
      BY <3>1, <3>2
  <2> QED
    BY <2>0, <2>1, <2>2, <2>3 DEF Of
<1>4. ASSUME NEW r \in Of(x, c), r.key \notin Uncompared PROVE r.key \in x.hashes[c]
  <2>1. PICK o \in Of(d, c) : o.id = r.id /\ o.key = r.key
    BY <1>3, <1>4 DEF Copied, Uncompared
  <2>2. o.key \in d.hashes[c]
    BY <1>2, <1>4, <2>1 DEF Once
  <2> QED
    BY <1>2, <2>1, <2>2
<1>5. ASSUME NEW r \in Of(x, c), NEW o \in Of(x, c), r.key \notin Uncompared, o.key = r.key
      PROVE  o.id = r.id
  <2>1. PICK p \in Of(d, c) : p.id = r.id /\ p.key = r.key
    BY <1>3, <1>5 DEF Copied, Uncompared
  <2>2. PICK q \in Of(d, c) : q.id = o.id /\ q.key = o.key
    BY <1>3, <1>5 DEF Copied, Uncompared
  <2>3. q.id = p.id
    BY <1>2, <1>5, <2>1, <2>2 DEF Once
  <2> QED
    BY <2>1, <2>2, <2>3
<1> QED
  BY <1>4, <1>5

-----------------------------------------------------------------------------
(***************************************************************************)
(* Lists of rows.                                                          *)
(***************************************************************************)
\* As many values as arguments at most.
LEMMA FiniteImage ==
    ASSUME NEW S, IsFiniteSet(S), NEW f
    PROVE  IsFiniteSet({f[x] : x \in S})
<1> DEFINE T == {f[x] : x \in S}
           g == [x \in S |-> f[x]]
<1>1. g \in Surjection(S, T)
  BY DEF Surjection
<1> HIDE DEF T, g
<1>2. IsFiniteSet(T)
  BY <1>1, FS_Surjection
<1> QED
  BY <1>2 DEF T

\* The classifications the handlers give are classifications.
LEMMA ClassesTyped ==
    /\ Raw \in Classes /\ ByUser(Picked) \in Classes
    /\ Class(Picked, "manual", "user") \in Classes
    /\ Class(Suggested, "classified", "ai") \in Classes
BY DEF Raw, ByUser, Class, Classes

\* Classification touches only the class, and not that of the user's rows.
LEMMA Classified ==
    ASSUME NEW rows \in Seq(Rows), NEW known \in [Keys -> {NoLedger, Picked, Suggested}]
    PROVE  /\ classify_all(rows, known) \in Seq(Rows)
           /\ DOMAIN classify_all(rows, known) = DOMAIN rows
           /\ \A j \in DOMAIN rows :
                 LET r == classify_all(rows, known)[j]
                 IN  /\ r.id = rows[j].id /\ r.key = rows[j].key /\ r.import = rows[j].import
                     /\ rows[j].class.source = "user" => r = rows[j]
<1> DEFINE new == classify_all(rows, known)
<1>1. ASSUME NEW r \in Rows
      PROVE  /\ classify_one(r, known) \in Rows
             /\ classify_one(r, known).id = r.id /\ classify_one(r, known).key = r.key
             /\ classify_one(r, known).import = r.import
  <2>1. known[r.key] \in {NoLedger, Picked, Suggested} /\ r.class \in Classes
    BY DEF Rows
  <2>2. /\ Class(known[r.key], "classified", "rule") \in Classes
        /\ Class(r.class.ledger, "unreviewed", "") \in Classes
    BY <2>1 DEF Class, Classes
  <2> QED
    BY <2>2 DEF classify_one, Rows
<1>2. \A j \in DOMAIN rows : rows[j] \in Rows
  BY ElementOfSeq, LenProperties
<1>3. /\ DOMAIN new = DOMAIN rows
      /\ \A j \in DOMAIN rows : new[j] = IF is_locked_from_auto_classify(rows[j]) THEN rows[j]
                                          ELSE classify_one(rows[j], known)
  BY DEF classify_all
<1> HIDE DEF new
<1>4. \A j \in DOMAIN rows :
         /\ new[j] \in Rows
         /\ new[j].id = rows[j].id /\ new[j].key = rows[j].key /\ new[j].import = rows[j].import
         /\ rows[j].class.source = "user" => new[j] = rows[j]
  BY <1>1, <1>2, <1>3 DEF is_locked_from_auto_classify
<1>5. new = classify_all(rows, known) /\ new \in [DOMAIN rows -> Rows]
  <2>1. new = [j \in DOMAIN rows |-> new[j]]
    BY <1>3 DEF new, classify_all
  <2> QED
    BY <1>4, <2>1 DEF new
<1>6. new \in Seq(Rows)
  BY <1>5, LenProperties, SeqDef
<1> QED
  BY <1>3, <1>4, <1>5, <1>6

\* The rules a handler reads are a ledger or none for every key.
LEMMA RulesTyped ==
    ASSUME NEW d \in Desks
    PROVE  get_rules(d) \in [Keys -> {NoLedger, Picked, Suggested}]
BY Fields DEF get_rules, NoRules

-----------------------------------------------------------------------------
\* What a list of rows is made of.
LEMMA SeqRows ==
    ASSUME NEW rows \in Seq(Rows)
    PROVE  /\ \E n \in Nat : DOMAIN rows = 1..n /\ n = Len(rows)
           /\ \A j \in DOMAIN rows : rows[j] \in Rows
           /\ ToSet(rows) \subseteq Rows
           /\ Ids(rows) \subseteq RowIds /\ Twice(rows) \subseteq Ids(rows)
           /\ IsFiniteSet(Ids(rows))
<1>1. PICK n \in Nat : DOMAIN rows = 1..n /\ n = Len(rows)
  BY LenProperties
<1>2. \A j \in DOMAIN rows : rows[j] \in Rows
  BY ElementOfSeq, LenProperties
<1>3. IsFiniteSet(Ids(rows))
  <2>1. IsFiniteSet(1..n)
    BY <1>1, FS_Interval
  <2> DEFINE f == [j \in 1..n |-> rows[j].id]
  <2>2. IsFiniteSet({f[j] : j \in 1..n})
    BY <2>1, FiniteImage
  <2>3. {f[j] : j \in 1..n} = Ids(rows)
    BY <1>1 DEF Ids
  <2> QED
    BY <2>2, <2>3
<1> QED
  BY <1>1, <1>2, <1>3 DEF ToSet, Ids, Twice, Rows

\* Two positions of one id.
LEMMA TwiceIsTwo ==
    ASSUME NEW rows \in Seq(Rows), NEW i \in DOMAIN rows, NEW j \in DOMAIN rows,
           rows[i].id = rows[j].id, rows[i].id \notin Twice(rows)
    PROVE  i = j
<1>1. PICK n \in Nat : DOMAIN rows = 1..n
  BY SeqRows
<1>2. ~(i < j)
  <2> SUFFICES ASSUME i < j PROVE FALSE
    OBVIOUS
  <2>1. i \in 1..j - 1
    BY <1>1
  <2> QED
    BY <2>1 DEF Twice
<1>3. ~(j < i)
  <2> SUFFICES ASSUME j < i PROVE FALSE
    OBVIOUS
  <2>1. j \in 1..i - 1
    BY <1>1
  <2> QED
    BY <2>1 DEF Twice
<1> QED
  BY <1>1, <1>2, <1>3

\* Rows of different ids repeat none.
LEMMA NotTwice ==
    ASSUME NEW rows \in Seq(Rows),
           \A i, j \in DOMAIN rows : rows[i].id = rows[j].id => i = j
    PROVE  Twice(rows) = {}
<1>1. PICK n \in Nat : DOMAIN rows = 1..n
  BY SeqRows
<1> SUFFICES ASSUME NEW i \in DOMAIN rows, NEW o \in 1..i - 1, rows[o].id = rows[i].id
             PROVE  FALSE
  BY DEF Twice
<1>2. o \in DOMAIN rows /\ o # i
  BY <1>1
<1> QED
  BY <1>2

-----------------------------------------------------------------------------
(***************************************************************************)
(* The writes to the tables.                                               *)
(***************************************************************************)
Imports == Nat \cup {NoImport}

\* A row may be of no import.
LEMMA NoImportIsOne == NoImport \in Imports
BY DEF Imports

With(r, import) == IF import = NoImport THEN r ELSE [r EXCEPT !.import = import]

\* INSERT OR REPLACE: every row is one of the table's that none of the rows
\* replaces, or one of the rows, with the import it was given.
LEMMA ReplacedRows ==
    ASSUME NEW table, table \in SUBSET Rows, IsFiniteSet(table), OnePerId(table),
           NEW import \in Imports, NEW rows \in Seq(Rows)
    PROVE  /\ Replaced(table, import, rows) \subseteq Rows
           /\ IsFiniteSet(Replaced(table, import, rows)) /\ OnePerId(Replaced(table, import, rows))
           /\ \A r \in Replaced(table, import, rows) :
                 \/ r \in table /\ r.id \notin Ids(rows)
                 \/ \E j \in DOMAIN rows : r = With(rows[j], import)
           /\ \A r \in table : r.id \notin Ids(rows) => r \in Replaced(table, import, rows)
           /\ \A j \in DOMAIN rows : rows[j].id \notin Twice(rows) =>
                 With(rows[j], import) \in Replaced(table, import, rows)
<1> DEFINE new == Replaced(table, import, rows)
           At(i) == {j \in DOMAIN rows : rows[j].id = i}
           Last1(i) == Max(At(i))
           Row(j) == With(rows[j], import)
           Kept == {r \in table : r.id \notin Ids(rows)}
           Put == {Row(Last1(i)) : i \in Ids(rows)}
<1>1. PICK n \in Nat : DOMAIN rows = 1..n
  BY SeqRows
<1>2. \A j \in DOMAIN rows : rows[j] \in Rows
  BY SeqRows
<1>3. \A j \in DOMAIN rows : Row(j) \in Rows /\ Row(j).id = rows[j].id
  BY <1>2 DEF Rows, With, Imports
<1>4. \A i \in Ids(rows) : Last1(i) \in DOMAIN rows /\ rows[Last1(i)].id = i
  <2> SUFFICES ASSUME NEW i \in Ids(rows) PROVE Last1(i) \in At(i)
    OBVIOUS
  <2>1. At(i) # {} /\ At(i) \in SUBSET (1..n)
    BY <1>1 DEF Ids
  <2> HIDE DEF At
  <2> QED
    BY <2>1, MaxIsOne
<1>5. new = Kept \cup Put
  BY Zenon DEF Replaced, With
<1> HIDE DEF new, At, Last1, Row
<1>6. \A i \in Ids(rows) : Row(Last1(i)) \in Rows /\ Row(Last1(i)).id = i
  BY <1>3, <1>4
<1>7. new \subseteq Rows
  BY <1>5, <1>6
<1>8. IsFiniteSet(new)
  <2>1. IsFiniteSet(Kept)
    BY FS_Subset
  <2>2. IsFiniteSet(Put)
    <3> DEFINE f == [i \in Ids(rows) |-> Row(Last1(i))]
    <3>1. IsFiniteSet({f[i] : i \in Ids(rows)})
      BY SeqRows, FiniteImage
    <3>2. {f[i] : i \in Ids(rows)} = Put
      OBVIOUS
    <3> QED
      BY <3>1, <3>2
  <2> QED
    BY <1>5, <2>1, <2>2, FS_Union
<1>9. OnePerId(new)
  <2> SUFFICES ASSUME NEW r \in new, NEW o \in new, r.id = o.id PROVE r = o
    BY DEF OnePerId
  <2>1. CASE r \in Kept /\ o \in Kept
    BY <2>1 DEF OnePerId
  <2>2. CASE r \in Put /\ o \in Put
    BY <1>6, <2>2
  <2>3. CASE (r \in Kept /\ o \in Put) \/ (r \in Put /\ o \in Kept)
    BY <1>6, <2>3
  <2> QED
    BY <1>5, <2>1, <2>2, <2>3
<1>10. \A r \in new : \/ r \in table /\ r.id \notin Ids(rows)
                      \/ \E j \in DOMAIN rows : r = Row(j)
  BY <1>4, <1>5
<1>11. ASSUME NEW j \in DOMAIN rows, rows[j].id \notin Twice(rows) PROVE Row(j) \in new
  <2>1. rows[j].id \in Ids(rows)
    BY DEF Ids
  <2>2. Last1(rows[j].id) = j
    BY <1>4, <1>11, <2>1, TwiceIsTwo
  <2> QED
    BY <1>5, <2>1, <2>2
<1> QED
  BY <1>5, <1>7, <1>8, <1>9, <1>10, <1>11 DEF Row, new

\* What a desk keeps when only its tables are written to.
Beside(d, x) ==
    /\ x.clients = d.clients /\ x.born = d.born /\ x.history = d.history /\ x.hashes = d.hashes
    /\ x.rules = d.rules /\ x.client = d.client /\ x.screen = d.screen /\ x.undo = d.undo
    /\ x.ocr = d.ocr /\ x.ai = d.ai /\ x.unchecked = d.unchecked

\* A write that fails changes nothing but the count of mishaps.
LEMMA FaultyDesk ==
    ASSUME NEW d \in Desks, NEW x \in Faulty(d)
    PROVE  x \in Desks /\ Beside(d, x) /\ x.tables = d.tables /\ x.unsaved = d.unsaved
<1>1. x = [d EXCEPT !.mishaps = @ + 1]
  BY DEF Faulty
<1>2. d.mishaps + 1 \in Nat
  BY Fields
<1> QED
  BY <1>1, <1>2 DEF Desks, Beside

\* The rows are stored for the client, or are not what the table holds.
LEMMA Upserted ==
    ASSUME NEW d \in Desks, TablesOK(d), d.client \in Clients \cup {NoClient},
           d.clients \subseteq Clients,
           NEW import \in Imports, NEW rows \in Seq(Rows),
           NEW x \in upsert_transactions(d, import, rows)
    PROVE  /\ x \in Desks /\ Beside(d, x)
           /\ \/ /\ x.tables = d.tables /\ x.unsaved = d.unsaved \cup Ids(rows)
              \/ /\ d.client \in d.clients
                 /\ x.tables[d.client] = Replaced(d.tables[d.client], import, rows)
                 /\ \A c \in Clients : c # d.client => x.tables[c] = d.tables[c]
                 /\ x.unsaved = (d.unsaved \ Ids(rows)) \cup Twice(rows)
<1> DEFINE refused(y) == [y EXCEPT !.unsaved = @ \cup Ids(rows)]
<1>1. ASSUME NEW y \in Desks
      PROVE  refused(y) \in Desks /\ Beside(y, refused(y)) /\ refused(y).tables = y.tables
             /\ refused(y).unsaved = y.unsaved \cup Ids(rows)
  <2>1. y.unsaved \cup Ids(rows) \in SUBSET RowIds
    BY SeqRows, Fields
  <2> QED
    BY <2>1 DEF Desks, Beside
<1>2. CASE x = refused(d)
  BY <1>1, <1>2
<1>3. CASE \E y \in Faulty(d) : x = refused(y)
  BY <1>1, <1>3, FaultyDesk DEF Beside
<1>4. CASE /\ d.client \in d.clients
           /\ x = [d EXCEPT !.tables[d.client] = Replaced(@, import, rows),
                            !.unsaved = (@ \ Ids(rows)) \cup Twice(rows)]
  <2>1. PICK c \in Clients : c = d.client
    BY <1>4, Fields
  <2>2. PICK old : old = d.tables[c]
    OBVIOUS
  <2>3. old \in SUBSET Rows /\ IsFiniteSet(old) /\ OnePerId(old)
    BY <2>1, <2>2, Fields DEF TablesOK
  <2>4. PICK t : t = Replaced(old, import, rows)
    OBVIOUS
  <2>5. t \in SUBSET Rows
    BY <2>3, <2>4, ReplacedRows
  <2>6. PICK u \in SUBSET RowIds : u = (d.unsaved \ Ids(rows)) \cup Twice(rows)
    BY SeqRows, Fields
  <2>7. x = [d EXCEPT !.tables[c] = t, !.unsaved = u]
    BY <1>4, <2>1, <2>2, <2>4, <2>6
  <2>8. /\ x \in Desks /\ Beside(d, x) /\ x.tables = [d.tables EXCEPT ![c] = t]
        /\ x.unsaved = u
    <3>1. PICK tt \in [Clients -> SUBSET Rows] : tt = [d.tables EXCEPT ![c] = t]
      BY <2>1, <2>5, Fields
    <3>2. x = [d EXCEPT !.tables = tt, !.unsaved = u]
      BY <2>7, <3>1 DEF Desks
    <3> QED
      BY <2>6, <3>1, <3>2 DEF Desks, Beside
  <2>9. t = x.tables[c] /\ \A b \in Clients : b # c => x.tables[b] = d.tables[b]
    BY <2>1, <2>8, Fields
  <2> QED
    BY <1>4, <2>1, <2>2, <2>4, <2>6, <2>8, <2>9
<1>5. \/ x = refused(d)
      \/ \E y \in Faulty(d) : x = refused(y)
      \/ /\ d.client \in d.clients
         /\ x = [d EXCEPT !.tables[d.client] = Replaced(@, import, rows),
                          !.unsaved = (@ \ Ids(rows)) \cup Twice(rows)]
  BY DEF upsert_transactions, Write, Allowed
<1> QED
  BY <1>2, <1>3, <1>4, <1>5

\* UPDATE of one row's classification.
Regraded(table, r) == {IF o.id = r.id THEN [o EXCEPT !.class = r.class] ELSE o : o \in table}

\* UPDATE by id changes the classification of one row at most.
LEMMA RegradedRows ==
    ASSUME NEW table, table \in SUBSET Rows, IsFiniteSet(table), OnePerId(table), NEW r \in Rows
    PROVE  /\ Regraded(table, r) \subseteq Rows /\ IsFiniteSet(Regraded(table, r))
           /\ OnePerId(Regraded(table, r))
           /\ \A o \in Regraded(table, r) :
                 \E p \in table : o.id = p.id /\ o.key = p.key /\ o.import = p.import
           /\ \A p \in table : p.id # r.id => p \in Regraded(table, r)
           /\ \A p \in table : p.id = r.id =>
                 \E o \in Regraded(table, r) : o.id = p.id /\ o.key = p.key /\ o.class = r.class
<1> DEFINE New(p) == IF p.id = r.id THEN [p EXCEPT !.class = r.class] ELSE p
<1>1. \A p \in table : /\ New(p) \in Rows /\ New(p).id = p.id /\ New(p).key = p.key /\ New(p).import = p.import
                       /\ p.id # r.id => New(p) = p
                       /\ p.id = r.id => New(p).class = r.class
  BY DEF Rows
<1>2. Regraded(table, r) = {New(p) : p \in table}
  BY Zenon DEF Regraded
<1>3. IsFiniteSet(Regraded(table, r))
  <2>0. PICK f : f = [p \in table |-> New(p)]
    OBVIOUS
  <2>1. IsFiniteSet({f[p] : p \in table})
    BY FiniteImage
  <2>2. {f[p] : p \in table} = {New(p) : p \in table}
    BY <2>0
  <2> QED
    BY <1>2, <2>1, <2>2
<1> HIDE DEF New
<1>4. OnePerId(Regraded(table, r))
  BY <1>1, <1>2 DEF OnePerId
<1>5. /\ Regraded(table, r) \subseteq Rows
      /\ \A o \in Regraded(table, r) : \E p \in table : o = New(p)
      /\ \A p \in table : New(p) \in Regraded(table, r)
  BY <1>1, <1>2
<1>6. \A o \in Regraded(table, r) :
         \E p \in table : o.id = p.id /\ o.key = p.key /\ o.import = p.import
  BY <1>1, <1>5
<1>7. \A p \in table : p.id # r.id => p \in Regraded(table, r)
  BY <1>1, <1>5
<1>8. \A p \in table : p.id = r.id =>
         \E o \in Regraded(table, r) : o.id = p.id /\ o.key = p.key /\ o.class = r.class
  BY <1>1, <1>5
<1> QED
  BY <1>3, <1>4, <1>5, <1>6, <1>7, <1>8

\* The row is written, or is not what the table holds.
LEMMA Reclassified ==
    ASSUME NEW d \in Desks, TablesOK(d), d.client # NoClient => d.client \in d.clients,
           NEW r \in Rows, NEW x \in upsert_transaction_classification(d, r)
    PROVE  /\ x \in Desks /\ Beside(d, x)
           /\ \/ /\ x.tables = d.tables /\ x.unsaved = d.unsaved \cup {r.id}
              \/ /\ d.client \in d.clients
                 /\ x.tables[d.client] = Regraded(d.tables[d.client], r)
                 /\ \A c \in Clients : c # d.client => x.tables[c] = d.tables[c]
                 /\ x.unsaved = d.unsaved
<1> DEFINE refused(y) == [y EXCEPT !.unsaved = @ \cup {r.id}]
<1>1. ASSUME NEW y \in Desks
      PROVE  refused(y) \in Desks /\ Beside(y, refused(y)) /\ refused(y).tables = y.tables
             /\ refused(y).unsaved = y.unsaved \cup {r.id}
  <2>1. y.unsaved \cup {r.id} \in SUBSET RowIds
    BY Fields DEF Rows
  <2> QED
    BY <2>1 DEF Desks, Beside
<1>2. CASE x = refused(d)
  BY <1>1, <1>2
<1>3. CASE \E y \in Faulty(d) : x = refused(y)
  BY <1>1, <1>3, FaultyDesk DEF Beside
<1> HIDE DEF refused
<1>4. CASE /\ d.client # NoClient
           /\ x = [d EXCEPT !.tables[d.client] = Regraded(@, r)]
  <2>1. PICK c \in Clients : c = d.client /\ c \in d.clients
    BY <1>4, Fields
  <2>2. PICK old : old = d.tables[c]
    OBVIOUS
  <2>3. old \in SUBSET Rows /\ IsFiniteSet(old) /\ OnePerId(old)
    BY <2>1, <2>2, Fields DEF TablesOK
  <2>4. PICK t : t = Regraded(old, r)
    OBVIOUS
  <2>5. t \in SUBSET Rows
    BY <2>3, <2>4, RegradedRows
  <2>6. x = [d EXCEPT !.tables[c] = t]
    BY <1>4, <2>1, <2>2, <2>4
  <2>7. PICK tt \in [Clients -> SUBSET Rows] : tt = [d.tables EXCEPT ![c] = t]
    BY <2>1, <2>5, Fields
  <2>8. x = [d EXCEPT !.tables = tt]
    BY <2>6, <2>7 DEF Desks
  <2>9. x \in Desks /\ Beside(d, x) /\ x.tables = tt /\ x.unsaved = d.unsaved
    BY <2>7, <2>8 DEF Desks, Beside
  <2>10. tt[c] = t /\ \A b \in Clients : b # c => tt[b] = d.tables[b]
    BY <2>1, <2>7, Fields
  <2> QED
    BY <2>1, <2>2, <2>4, <2>9, <2>10
<1>5. \/ x = refused(d)
      \/ \E y \in Faulty(d) : x = refused(y)
      \/ d.client # NoClient /\ x = [d EXCEPT !.tables[d.client] = Regraded(@, r)]
  BY DEF upsert_transaction_classification, Write, Regraded, refused
<1> QED
  BY <1>2, <1>3, <1>4, <1>5

-----------------------------------------------------------------------------
WithScreen(d, rows) == [d EXCEPT !.screen = rows]

\* Rows are put on the screen and stored for the client: what there is to
\* know of select_client, AutoClassify and AiDone.
LEMMA Displayed ==
    ASSUME NEW d, Well(d), NEW y \in Desks,
           y.clients = d.clients, y.born = d.born, y.history = d.history, y.hashes = d.hashes,
           y.tables = d.tables, d.unchecked \subseteq y.unchecked, y.ai \in {d.ai, NoRun},
           y.client # NoClient => y.client \in d.clients,
           NEW rows \in Seq(Rows), Copied(ToSet(rows), Anywhere(d)),
           y.client \in d.clients \ y.unchecked => Copied(ToSet(rows), Of(d, y.client)),
           NEW x1 \in upsert_transactions(y, NoImport, rows),
           NEW x, x = WithScreen(x1, rows)
    PROVE  /\ Moved(d, x) /\ Shown(x)
           /\ x.ai = y.ai /\ x.client = y.client /\ x.rules = y.rules
           /\ \A c \in Clients :
                \/ x.tables[c] = d.tables[c]
                \/ /\ c = y.client
                   /\ \A r \in d.tables[c] : r.id \notin Ids(rows) => r \in x.tables[c]
                   /\ \A j \in DOMAIN rows : rows[j].id \notin Twice(rows) => rows[j] \in x.tables[c]
<1>1. /\ y.client \in Clients \cup {NoClient} /\ y.clients \subseteq Clients
      /\ TablesOK(y)
  BY Fields DEF Well, TablesOK
<1>2. /\ x1 \in Desks /\ Beside(y, x1)
      /\ \/ /\ x1.tables = y.tables /\ x1.unsaved = y.unsaved \cup Ids(rows)
         \/ /\ y.client \in y.clients
            /\ x1.tables[y.client] = Replaced(y.tables[y.client], NoImport, rows)
            /\ \A c \in Clients : c # y.client => x1.tables[c] = y.tables[c]
            /\ x1.unsaved = (y.unsaved \ Ids(rows)) \cup Twice(rows)
  BY <1>1, NoImportIsOne, Upserted
<1>3. /\ x \in Desks /\ x.clients = d.clients /\ x.born = d.born /\ x.history = d.history
      /\ x.hashes = d.hashes /\ x.client = y.client /\ x.ai = y.ai /\ x.unchecked = y.unchecked
      /\ x.screen = rows /\ x.tables = x1.tables /\ x.unsaved = x1.unsaved /\ x.rules = y.rules
  BY <1>2 DEF Desks, Beside, WithScreen
<1>4. CASE x1.tables = y.tables /\ x1.unsaved = y.unsaved \cup Ids(rows)
  <2>1. x.tables = d.tables /\ Ids(rows) \subseteq x.unsaved
    BY <1>3, <1>4
  <2>2. Moved(d, x)
    BY <1>3, <2>1 DEF Moved
  <2>3. Shown(x)
    BY <1>3, <2>1, SeqRows DEF Shown, Ids
  <2> QED
    BY <1>3, <2>1, <2>2, <2>3
<1>5. CASE /\ y.client \in y.clients
           /\ x1.tables[y.client] = Replaced(y.tables[y.client], NoImport, rows)
           /\ \A c \in Clients : c # y.client => x1.tables[c] = y.tables[c]
           /\ x1.unsaved = (y.unsaved \ Ids(rows)) \cup Twice(rows)
  <2>1. PICK c \in Clients : c = y.client
    BY <1>1, <1>5
  <2>2. PICK old : old = d.tables[c]
    OBVIOUS
  <2>3. old \in SUBSET Rows /\ IsFiniteSet(old) /\ OnePerId(old)
    BY <2>1, <2>2, Fields DEF TablesOK, Well
  <2>4. PICK t : t = Replaced(old, NoImport, rows)
    OBVIOUS
  <2>5. /\ IsFiniteSet(t) /\ OnePerId(t)
        /\ \A r \in t : \/ r \in old /\ r.id \notin Ids(rows)
                        \/ \E j \in DOMAIN rows : r = rows[j]
        /\ \A r \in old : r.id \notin Ids(rows) => r \in t
        /\ \A j \in DOMAIN rows : rows[j].id \notin Twice(rows) => rows[j] \in t
    <3>1. \A r : With(r, NoImport) = r
      BY DEF With
    <3>2. /\ IsFiniteSet(t) /\ OnePerId(t)
          /\ \A r \in t : \/ r \in old /\ r.id \notin Ids(rows)
                          \/ \E j \in DOMAIN rows : r = With(rows[j], NoImport)
          /\ \A r \in old : r.id \notin Ids(rows) => r \in t
          /\ \A j \in DOMAIN rows : rows[j].id \notin Twice(rows) => With(rows[j], NoImport) \in t
      BY <2>3, <2>4, NoImportIsOne, ReplacedRows
    <3> QED
      BY <3>1, <3>2
  <2>6. /\ x.tables[c] = t /\ \A b \in Clients : b # c => x.tables[b] = d.tables[b]
        /\ x.unsaved = (y.unsaved \ Ids(rows)) \cup Twice(rows)
    <3>1. d.tables \in [Clients -> SUBSET Rows]
      BY Fields DEF Well
    <3> QED
      BY <1>3, <1>5, <2>1, <2>2, <2>4, <3>1
  <2>7. Copied(t, old \cup ToSet(rows))
    BY <2>5 DEF Copied, ToSet
  <2>8. Moved(d, x)
    BY <1>3, <2>1, <2>2, <2>5, <2>6, <2>7 DEF Moved
  <2>9. Shown(x)
    <3>1. \A j \in DOMAIN rows : rows[j].id \notin x.unsaved => rows[j].id \notin Twice(rows)
      BY <2>6
    <3>2. \A j \in DOMAIN rows : rows[j].id \notin x.unsaved => Matches(rows[j], rows[j]) /\ rows[j] \in x.tables[c]
      BY <2>5, <2>6, <3>1 DEF Matches
    <3> QED
      BY <1>3, <2>1, <2>6, <3>2 DEF Shown
  <2> QED
    BY <1>3, <2>1, <2>2, <2>5, <2>6, <2>8, <2>9
<1> QED
  BY <1>2, <1>4, <1>5

-----------------------------------------------------------------------------
(***************************************************************************)
(* What a step does to the user's rows, and the handlers that show rows.   *)
(***************************************************************************)
\* The user's rows of a table, but for these ids, are in the new one.
Kept(table, new, but) ==
    \A r \in table : r.class.source = "user" /\ r.id \notin but => \E o \in new : Matches(o, r)

\* They are in every table, but for what the screen shows and could not store.
Quiet(d, x, but) ==
    \A c \in d.clients \cap x.clients :
        Kept(d.tables[c], x.tables[c], IF c = d.client THEN d.unsaved \cup but ELSE {})

\* A step that leaves the tables and the screen.
Still(d, x) ==
    /\ x \in Desks
    /\ x.clients = d.clients /\ x.born = d.born /\ x.history = d.history /\ x.hashes = d.hashes
    /\ x.tables = d.tables /\ x.client = d.client /\ x.screen = d.screen
    /\ x.unsaved = d.unsaved /\ x.unchecked = d.unchecked
    /\ \/ x.ai \in {d.ai, NoRun}
       \/ x.ai.rows = d.screen /\ x.ai.home = d.client

\* Rows are copies of themselves.
LEMMA CopiedSubset ==
    ASSUME NEW R, NEW O, R \subseteq O
    PROVE  Copied(R, O)
BY DEF Copied

\* A copy of a copy is one.
LEMMA CopiedTwice ==
    ASSUME NEW R, NEW O, NEW P, Copied(R, O), Copied(O, P)
    PROVE  Copied(R, P)
<1> SUFFICES ASSUME NEW r \in R, ~(r.key = Typed /\ r.import = NoImport)
             PROVE  \E p \in P : p.id = r.id /\ p.key = r.key /\ p.import = r.import
  BY DEF Copied
<1>1. PICK o \in O : o.id = r.id /\ o.key = r.key /\ o.import = r.import
  BY DEF Copied
<1>2. PICK p \in P : p.id = o.id /\ p.key = o.key /\ p.import = o.import
  BY <1>1 DEF Copied
<1> QED
  BY <1>1, <1>2

\* The screen and a table are of their client.
LEMMA ScreenIsOf ==
    ASSUME NEW d
    PROVE  /\ ToSet(d.screen) \subseteq Anywhere(d)
           /\ ToSet(d.screen) \subseteq Of(d, d.client)
           /\ \A c : d.tables[c] \subseteq Of(d, c)
           /\ \A c \in Clients : d.tables[c] \subseteq Anywhere(d)
<1>1. ToSet(d.screen) \subseteq Of(d, d.client) /\ \A c : d.tables[c] \subseteq Of(d, c)
  BY DEF Of
<1> QED
  BY <1>1, Places

\* Nothing to show for a step that leaves the tables and the screen.
LEMMA StillStep ==
    ASSUME NEW d, Well(d), Shown(d), NEW x, Still(d, x)
    PROVE  Moved(d, x) /\ Shown(x) /\ Quiet(d, x, {})
<1>1. Moved(d, x)
  <2>1. Copied(ToSet(x.screen), Anywhere(d)) /\ Copied(ToSet(x.screen), Of(d, x.client))
    BY ScreenIsOf, CopiedSubset DEF Still
  <2>2. x.client # NoClient => x.client \in d.clients
    BY DEF Still, Well, Registered
  <2> QED
    BY <2>1, <2>2 DEF Moved, Still
<1>2. Shown(x)
  BY DEF Still, Shown
<1>3. Quiet(d, x, {})
  BY DEF Still, Quiet, Kept, Matches
<1> QED
  BY <1>1, <1>2, <1>3

-----------------------------------------------------------------------------
\* A client is shown: what is stored, classified again.
LEMMA SelectStep ==
    ASSUME NEW d, Well(d), NEW c \in d.clients, NEW x \in select_client(d, c)
    PROVE  Moved(d, x) /\ Shown(x) /\ Quiet(d, x, {})
<1>1. d \in Desks /\ c \in Clients /\ c # NoClient
  BY Fields, NamesAreApart DEF Well
<1>2. PICK table : table = d.tables[c]
  OBVIOUS
<1>3. table \in SUBSET Rows /\ IsFiniteSet(table) /\ OnePerId(table)
  BY <1>1, <1>2, Fields DEF Well, TablesOK
<1>4. PICK stored : stored = SetToSeq(table)
  OBVIOUS
<1>5. /\ stored \in Seq(table)
      /\ \A i \in DOMAIN stored : stored[i] \in table
      /\ \A i, j \in DOMAIN stored : stored[i] = stored[j] => i = j
  BY <1>3, <1>4, Listed
<1>6. stored \in Seq(Rows)
  BY <1>3, <1>5
<1>7. PICK known \in [Keys -> {NoLedger, Picked, Suggested}] : known = d.rules[c]
  BY <1>1, Fields
<1>8. PICK rows : rows = classify_all(stored, known)
  OBVIOUS
<1>9. /\ rows \in Seq(Rows) /\ DOMAIN rows = DOMAIN stored
      /\ \A j \in DOMAIN stored :
            /\ rows[j].id = stored[j].id /\ rows[j].key = stored[j].key /\ rows[j].import = stored[j].import
            /\ stored[j].class.source = "user" => rows[j] = stored[j]
  BY <1>6, <1>7, <1>8, Classified
<1>10. \A i, j \in DOMAIN rows : rows[i].id = rows[j].id => i = j
  <2> SUFFICES ASSUME NEW i \in DOMAIN rows, NEW j \in DOMAIN rows, rows[i].id = rows[j].id
               PROVE  i = j
    OBVIOUS
  <2>1. stored[i] \in table /\ stored[j] \in table /\ stored[i].id = stored[j].id
    BY <1>5, <1>9
  <2>2. stored[i] = stored[j]
    BY <1>3, <2>1 DEF OnePerId
  <2> QED
    BY <1>5, <1>9, <2>2
<1>11. Twice(rows) = {}
  BY <1>9, <1>10, NotTwice
<1>12. Copied(ToSet(rows), table)
  BY <1>5, <1>9 DEF Copied, ToSet
<1>13. Copied(ToSet(rows), Anywhere(d)) /\ Copied(ToSet(rows), Of(d, c))
  <2>1. table \subseteq Anywhere(d) /\ table \subseteq Of(d, c)
    BY <1>1, <1>2, ScreenIsOf
  <2> QED
    BY <1>12, <2>1 DEF Copied
<1>14. PICK y : y = [d EXCEPT !.client = c, !.unsaved = {}]
  OBVIOUS
<1>15. /\ y \in Desks /\ y.clients = d.clients /\ y.born = d.born /\ y.history = d.history
       /\ y.hashes = d.hashes /\ y.tables = d.tables /\ y.unchecked = d.unchecked /\ y.ai = d.ai
       /\ y.client = c /\ y.unsaved = {} /\ y.rules = d.rules
  BY <1>1, <1>14 DEF Desks
<1>16. PICK x1 \in (IF rows = stored THEN {y} ELSE upsert_transactions(y, NoImport, rows)) :
          x = WithScreen(x1, rows)
  BY <1>2, <1>4, <1>7, <1>8, <1>14 DEF select_client, get_transactions, WithScreen
<1>17. CASE rows = stored
  <2>1. x = [y EXCEPT !.screen = rows]
    BY <1>16, <1>17 DEF WithScreen
  <2>2. /\ x \in Desks /\ x.clients = d.clients /\ x.born = d.born /\ x.history = d.history
        /\ x.hashes = d.hashes /\ x.tables = d.tables /\ x.unchecked = d.unchecked /\ x.ai = d.ai
        /\ x.client = c /\ x.unsaved = {} /\ x.screen = rows
    BY <1>9, <1>15, <2>1 DEF Desks
  <2>3. Moved(d, x)
    BY <1>13, <2>2 DEF Moved
  <2>4. Shown(x)
    BY <1>2, <1>5, <1>11, <1>17, <2>2 DEF Shown, Matches
  <2>5. Quiet(d, x, {})
    BY <2>2 DEF Quiet, Kept, Matches
  <2> QED
    BY <2>3, <2>4, <2>5
<1>18. CASE rows # stored
  <2>1. x1 \in upsert_transactions(y, NoImport, rows) /\ x = WithScreen(x1, rows)
    BY <1>16, <1>18
  <2>2. /\ Moved(d, x) /\ Shown(x) /\ x.client = y.client
        /\ \A b \in Clients :
             \/ x.tables[b] = d.tables[b]
             \/ /\ b = y.client
                /\ \A r \in d.tables[b] : r.id \notin Ids(rows) => r \in x.tables[b]
                /\ \A j \in DOMAIN rows : rows[j].id \notin Twice(rows) => rows[j] \in x.tables[b]
    <3>1. /\ y.unchecked = d.unchecked /\ y.ai \in {d.ai, NoRun}
          /\ y.client # NoClient => y.client \in d.clients
          /\ d.unchecked \subseteq y.unchecked
          /\ Copied(ToSet(rows), Anywhere(d))
          /\ y.client \in d.clients \ y.unchecked => Copied(ToSet(rows), Of(d, y.client))
      BY <1>13, <1>15
    <3>2. rows \in Seq(Rows) /\ x1 \in upsert_transactions(y, NoImport, rows)
      BY <1>9, <2>1
    <3> QED
      BY <1>15, <2>1, <3>1, <3>2, Displayed
  <2>3. Kept(table, x.tables[c], {})
    <3> SUFFICES ASSUME NEW r \in table, r.class.source = "user"
                 PROVE  \E o \in x.tables[c] : Matches(o, r)
      BY DEF Kept
    <3>1. CASE r \in x.tables[c]
      BY <3>1 DEF Matches
    <3>2. CASE r \notin x.tables[c]
      <4>1. PICK j \in DOMAIN rows : rows[j].id = r.id
        BY <1>1, <1>2, <2>2, <3>2 DEF Ids
      <4>2. stored[j] = r
        BY <1>3, <1>5, <1>9, <4>1 DEF OnePerId
      <4>3. rows[j] = r
        BY <1>9, <4>1, <4>2
      <4>4. rows[j] \in x.tables[c]
        BY <1>1, <1>2, <1>11, <1>15, <2>2, <3>2, <4>1
      <4> QED
        BY <3>2, <4>3, <4>4
    <3> QED
      BY <3>1, <3>2
  <2>4. Quiet(d, x, {})
    <3> SUFFICES ASSUME NEW b \in d.clients
                 PROVE  Kept(d.tables[b], x.tables[b], {})
      BY DEF Quiet, Kept
    <3>1. CASE b = c
      BY <1>2, <2>3, <3>1
    <3>2. CASE b # c
      <4>1. x.tables[b] = d.tables[b]
        BY <1>1, <1>15, <2>2, <3>2, Fields
      <4> QED
        BY <4>1 DEF Kept, Matches
    <3> QED
      BY <3>1, <3>2
  <2> QED
    BY <2>2, <2>4
<1> QED
  BY <1>17, <1>18

-----------------------------------------------------------------------------
(***************************************************************************)
(* A statement is loaded.                                                  *)
(***************************************************************************)
\* The desk once rows are shown that were not stored, or stored with import
\* Len(d.history) + 1.
Showing(d, x, rows) ==
    /\ x \in Desks
    /\ x.clients = d.clients /\ x.born = d.born /\ x.hashes = d.hashes /\ x.client = d.client
    /\ x.ai = d.ai /\ x.unchecked = d.unchecked /\ x.screen = rows

LoadFails(d, x, rows) ==
    /\ \/ x.history = d.history
       \/ d.client \in Clients /\ x.history = Append(d.history, d.client)
    /\ x.tables = d.tables
    /\ Ids(rows) \subseteq x.unsaved

LoadStores(d, x, rows) ==
    /\ d.client \in d.clients
    /\ x.history = Append(d.history, d.client)
    /\ x.tables[d.client] = Replaced(d.tables[d.client], Len(d.history) + 1, rows)
    /\ \A c \in Clients : c # d.client => x.tables[c] = d.tables[c]
    /\ Twice(rows) \subseteq x.unsaved

Blank(d, rows) == [d EXCEPT !.screen = rows, !.undo = <<>>]

\* What is on the screen, and nothing to undo.
LEMMA BlankDesk ==
    ASSUME NEW d \in Desks, NEW rows \in Seq(Rows)
    PROVE  /\ Blank(d, rows) \in Desks
           /\ Blank(d, rows).clients = d.clients /\ Blank(d, rows).born = d.born
           /\ Blank(d, rows).hashes = d.hashes /\ Blank(d, rows).client = d.client
           /\ Blank(d, rows).ai = d.ai /\ Blank(d, rows).unchecked = d.unchecked
           /\ Blank(d, rows).screen = rows /\ Blank(d, rows).history = d.history
           /\ Blank(d, rows).tables = d.tables /\ Blank(d, rows).unsaved = d.unsaved
<1>1. <<>> \in Seq([id : RowIds, class : Classes])
  BY EmptySeq
<1> QED
  BY <1>1 DEF Desks, Blank

\* apply_parse_result shows the classified rows, stored under a new import or not.
LEMMA Parsed ==
    ASSUME NEW d, Well(d), NEW rows \in Seq(Rows), NEW x \in apply_parse_result(d, rows)
    PROVE  LET result == classify_all(rows, get_rules(d))
           IN  Showing(d, x, result) /\ (LoadFails(d, x, result) \/ LoadStores(d, x, result))
<1>1. d \in Desks /\ (d.client # NoClient => d.client \in d.clients /\ d.client \in Clients)
  BY Fields DEF Well, Registered
<1>2. PICK result : result = classify_all(rows, get_rules(d))
  OBVIOUS
<1>3. result \in Seq(Rows)
  BY <1>1, <1>2, RulesTyped, Classified
<1>4. PICK fresh : fresh = [d EXCEPT !.unsaved = {}]
  OBVIOUS
<1>5. /\ fresh \in Desks /\ fresh.clients = d.clients /\ fresh.born = d.born /\ fresh.history = d.history
      /\ fresh.hashes = d.hashes /\ fresh.tables = d.tables /\ fresh.unchecked = d.unchecked
      /\ fresh.ai = d.ai /\ fresh.client = d.client
  BY <1>1, <1>4 DEF Desks
<1> DEFINE lost(y) == [y EXCEPT !.unsaved = Ids(result)]
           recorded == [fresh EXCEPT !.history = Append(@, d.client)]
<1>6. ASSUME NEW y \in Desks
      PROVE  /\ lost(y) \in Desks /\ lost(y).clients = y.clients /\ lost(y).born = y.born
             /\ lost(y).history = y.history
             /\ lost(y).hashes = y.hashes /\ lost(y).tables = y.tables /\ lost(y).unchecked = y.unchecked
             /\ lost(y).ai = y.ai /\ lost(y).client = y.client /\ lost(y).unsaved = Ids(result)
  <2>1. Ids(result) \in SUBSET RowIds
    BY <1>3, SeqRows
  <2> QED
    BY <2>1 DEF Desks
<1>7. ASSUME NEW y, y = fresh \/ y \in Faulty(fresh), x = Blank(lost(y), result)
      PROVE  Showing(d, x, result) /\ LoadFails(d, x, result)
  <2>1. /\ y \in Desks /\ y.clients = d.clients /\ y.born = d.born /\ y.history = d.history
        /\ y.hashes = d.hashes /\ y.tables = d.tables /\ y.unchecked = d.unchecked
        /\ y.ai = d.ai /\ y.client = d.client
    BY <1>5, <1>7, FaultyDesk DEF Beside
  <2>2. PICK z \in Desks : z = lost(y)
    BY <1>6, <2>1
  <2>3. /\ z.clients = d.clients /\ z.born = d.born /\ z.history = d.history
        /\ z.hashes = d.hashes /\ z.tables = d.tables /\ z.unchecked = d.unchecked
        /\ z.ai = d.ai /\ z.client = d.client /\ z.unsaved = Ids(result)
    BY <1>6, <2>1, <2>2
  <2> HIDE DEF lost
  <2>4. x = Blank(z, result)
    BY <1>7, <2>2
  <2> QED
    <3>1. /\ x \in Desks /\ x.clients = z.clients /\ x.born = z.born /\ x.hashes = z.hashes
          /\ x.client = z.client /\ x.ai = z.ai /\ x.unchecked = z.unchecked /\ x.screen = result
          /\ x.history = z.history /\ x.tables = z.tables /\ x.unsaved = z.unsaved
      BY <1>3, <2>2, <2>4, BlankDesk
    <3> QED
      BY <2>3, <3>1 DEF Showing, LoadFails
<1>8. ASSUME d.client # NoClient, NEW x1 \in upsert_transactions(recorded, Len(d.history) + 1, result),
             x = Blank(x1, result)
      PROVE  Showing(d, x, result) /\ (LoadFails(d, x, result) \/ LoadStores(d, x, result))
  <2>1. Append(d.history, d.client) \in Seq(Clients \cup {NoClient}) /\ Len(d.history) + 1 \in Imports
    BY <1>1, Fields, AppendProperties, LenProperties DEF Imports
  <2>2. PICK y : y = recorded
    OBVIOUS
  <2>3. /\ y \in Desks /\ y.clients = d.clients /\ y.born = d.born /\ y.history = Append(d.history, d.client)
        /\ y.hashes = d.hashes /\ y.tables = d.tables /\ y.unchecked = d.unchecked
        /\ y.ai = d.ai /\ y.client = d.client
    BY <1>5, <2>1, <2>2 DEF Desks
  <2>4. TablesOK(y) /\ y.client \in Clients \cup {NoClient} /\ y.clients \subseteq Clients
    BY <1>1, <2>3, Fields DEF Well, TablesOK
  <2>5. PICK import \in Imports : import = Len(d.history) + 1
    BY <2>1
  <2>6. x1 \in upsert_transactions(y, import, result)
    BY <1>8, <2>2, <2>5
  <2>7. /\ x1 \in Desks /\ Beside(y, x1)
        /\ \/ /\ x1.tables = y.tables /\ x1.unsaved = y.unsaved \cup Ids(result)
           \/ /\ y.client \in y.clients
              /\ x1.tables[y.client] = Replaced(y.tables[y.client], import, result)
              /\ \A c \in Clients : c # y.client => x1.tables[c] = y.tables[c]
              /\ x1.unsaved = (y.unsaved \ Ids(result)) \cup Twice(result)
    BY <1>3, <2>3, <2>4, <2>5, <2>6, Upserted
  <2>8. Showing(d, x, result) /\ x.history = y.history /\ x.tables = x1.tables /\ x.unsaved = x1.unsaved
    BY <1>3, <1>8, <2>3, <2>7, BlankDesk DEF Showing, Beside
  <2>9. CASE x1.tables = y.tables /\ x1.unsaved = y.unsaved \cup Ids(result)
    BY <1>1, <1>8, <2>3, <2>8, <2>9 DEF LoadFails
  <2>10. CASE /\ y.client \in y.clients
              /\ x1.tables[y.client] = Replaced(y.tables[y.client], import, result)
              /\ \A c \in Clients : c # y.client => x1.tables[c] = y.tables[c]
              /\ x1.unsaved = (y.unsaved \ Ids(result)) \cup Twice(result)
    BY <2>3, <2>5, <2>8, <2>10 DEF LoadStores
  <2> QED
    BY <2>7, <2>8, <2>9, <2>10
<1>9. \/ x = Blank(lost(fresh), result)
      \/ \E y \in Faulty(fresh) : x = Blank(lost(y), result)
      \/ d.client # NoClient /\ \E x1 \in upsert_transactions(recorded, Len(d.history) + 1, result) : x = Blank(x1, result)
  BY <1>2, <1>4 DEF apply_parse_result, Blank
<1> HIDE DEF lost, recorded
<1>10. Showing(d, x, result) /\ (LoadFails(d, x, result) \/ LoadStores(d, x, result))
  BY <1>7, <1>8, <1>9
<1> QED
  BY <1>2, <1>10

\* Rows that are new to the client, one id per key, and known to its hashes.
NewTo(d, rows) ==
    d.client \in d.clients \ d.unchecked =>
        \A j \in DOMAIN rows : rows[j].key \notin Uncompared =>
            /\ rows[j].key \in d.hashes[d.client]
            /\ \A o \in Of(d, d.client) : o.key # rows[j].key
            /\ \A i \in DOMAIN rows : rows[i].key = rows[j].key => rows[i].id = rows[j].id

\* The history after a load.
LEMMA Recorded ==
    ASSUME NEW d, Well(d), NEW x, NEW rows,
           Showing(d, x, rows), LoadFails(d, x, rows) \/ LoadStores(d, x, rows)
    PROVE  /\ DOMAIN d.history \subseteq DOMAIN x.history
           /\ \A i \in DOMAIN d.history : x.history[i] = d.history[i]
           /\ \A i \in DOMAIN x.history : i \in DOMAIN d.history \/
                 (x.history[i] = d.client /\ i = Len(d.history) + 1)
           /\ DOMAIN d.history \subseteq Nat /\ DOMAIN x.history \subseteq Nat
           /\ LoadStores(d, x, rows) => Len(d.history) + 1 \in DOMAIN x.history
           /\ Len(x.history) > Len(d.history) \/ x.tables = d.tables
<1>1. /\ d.history \in Seq(Clients \cup {NoClient}) /\ d.client \in Clients \cup {NoClient}
      /\ d.clients \subseteq Clients
  BY Fields DEF Well
<1>2. Len(d.history) \in Nat /\ DOMAIN d.history = 1..Len(d.history)
  BY <1>1, LenProperties
<1>3. CASE x.history = d.history /\ x.tables = d.tables
  <2>1. ~LoadStores(d, x, rows)
    <3> SUFFICES ASSUME LoadStores(d, x, rows) PROVE FALSE
      OBVIOUS
    <3>1. x.history = Append(d.history, d.client)
      BY DEF LoadStores
    <3>2. Len(x.history) = Len(d.history) + 1
      BY <1>1, <3>1, AppendProperties
    <3>3. Len(x.history) = Len(d.history)
      BY <1>3
    <3> QED
      BY <1>2, <3>2, <3>3
  <2> QED
    BY <1>2, <1>3, <2>1
<1>4. CASE x.history = Append(d.history, d.client)
  <2>1. /\ x.history \in Seq(Clients \cup {NoClient}) /\ Len(x.history) = Len(d.history) + 1
        /\ \A i \in 1..Len(d.history) : x.history[i] = d.history[i]
        /\ x.history[Len(d.history) + 1] = d.client
    BY <1>1, <1>4, AppendProperties
  <2>2. DOMAIN x.history = 1..(Len(d.history) + 1)
    BY <2>1, LenProperties
  <2>3. DOMAIN d.history \subseteq DOMAIN x.history /\ Len(d.history) + 1 \in DOMAIN x.history
    BY <1>2, <2>2
  <2>4. \A i \in DOMAIN x.history : i \in DOMAIN d.history \/ i = Len(d.history) + 1
    BY <1>2, <2>2
  <2>5. DOMAIN d.history \subseteq Nat /\ DOMAIN x.history \subseteq Nat
    BY <1>2, <2>2
  <2> QED
    BY <1>2, <2>1, <2>3, <2>4, <2>5
<1>5. (x.history = d.history /\ x.tables = d.tables) \/ x.history = Append(d.history, d.client)
  BY DEF LoadFails, LoadStores
<1> QED
  BY <1>3, <1>4, <1>5

\* What a load puts into the table.
LEMMA Stored ==
    ASSUME NEW d, Well(d), NEW x, NEW rows \in Seq(Rows), LoadStores(d, x, rows)
    PROVE  /\ d.client \in Clients /\ d.client # NoClient
           /\ IsFiniteSet(x.tables[d.client]) /\ OnePerId(x.tables[d.client])
           /\ \A r \in x.tables[d.client] :
                 \/ r \in d.tables[d.client]
                 \/ /\ r.import = Len(d.history) + 1
                    /\ \E j \in DOMAIN rows : r.id = rows[j].id /\ r.key = rows[j].key
           /\ \A j \in DOMAIN rows : rows[j].id \notin Twice(rows) =>
                 \E r \in x.tables[d.client] : Matches(r, rows[j])
<1>1. PICK c \in Clients : c = d.client /\ c # NoClient
  BY Fields, NamesAreApart DEF Well, LoadStores
<1>2. PICK old : old = d.tables[c]
  OBVIOUS
<1>3. old \in SUBSET Rows /\ IsFiniteSet(old) /\ OnePerId(old)
  BY <1>1, <1>2, Fields DEF Well, TablesOK
<1>4. PICK import \in Imports : import = Len(d.history) + 1 /\ import # NoImport
  <2>1. Len(d.history) \in Nat
    BY Fields, LenProperties DEF Well
  <2>2. Len(d.history) + 1 \in Nat
    BY <2>1
  <2> QED
    BY <2>2, NamesAreApart DEF Imports
<1>5. PICK t : t = Replaced(old, import, rows)
  OBVIOUS
<1>6. /\ IsFiniteSet(t) /\ OnePerId(t)
      /\ \A r \in t : \/ r \in old /\ r.id \notin Ids(rows)
                      \/ \E j \in DOMAIN rows : r = With(rows[j], import)
      /\ \A j \in DOMAIN rows : rows[j].id \notin Twice(rows) => With(rows[j], import) \in t
  BY <1>3, <1>5, ReplacedRows
<1>7. t = x.tables[c]
  BY <1>1, <1>2, <1>4, <1>5 DEF LoadStores
<1>8. \A j \in DOMAIN rows : LET r == With(rows[j], import)
                             IN  r.import = import /\ Matches(r, rows[j])
  <2> SUFFICES ASSUME NEW j \in DOMAIN rows
               PROVE  With(rows[j], import).import = import /\ Matches(With(rows[j], import), rows[j])
    OBVIOUS
  <2>1. rows[j] \in Rows
    BY SeqRows
  <2> QED
    BY <1>4, <2>1 DEF With, Matches, Rows
<1>9. \A r \in t : \/ r \in old
                   \/ r.import = import /\ \E j \in DOMAIN rows : r.id = rows[j].id /\ r.key = rows[j].key
  BY <1>6, <1>8 DEF Matches
<1> QED
  BY <1>1, <1>2, <1>4, <1>6, <1>7, <1>8, <1>9

\* Every row anywhere was there before, or is one of those loaded.
LEMMA LoadedRows ==
    ASSUME NEW d, Well(d), NEW x, NEW rows \in Seq(Rows), Showing(d, x, rows),
           LoadFails(d, x, rows) \/ LoadStores(d, x, rows)
    PROVE  \A r \in Anywhere(x) :
              \/ r \in Anywhere(d)
              \/ \E j \in DOMAIN rows : r = rows[j]
              \/ /\ LoadStores(d, x, rows) /\ r.import = Len(d.history) + 1
                 /\ \E j \in DOMAIN rows : r.id = rows[j].id /\ r.key = rows[j].key
<1> SUFFICES ASSUME NEW r \in Anywhere(x)
             PROVE  \/ r \in Anywhere(d)
                    \/ \E j \in DOMAIN rows : r = rows[j]
                    \/ /\ LoadStores(d, x, rows) /\ r.import = Len(d.history) + 1
                       /\ \E j \in DOMAIN rows : r.id = rows[j].id /\ r.key = rows[j].key
  OBVIOUS
<1>1. CASE r \in AiRows(x)
  <2>1. AiRows(x) = AiRows(d)
    BY DEF AiRows, Showing
  <2> QED
    BY <1>1, <2>1, Places
<1>2. CASE r \in ToSet(x.screen)
  BY <1>2 DEF Showing, ToSet
<1>3. CASE \E c \in Clients : r \in x.tables[c]
  <2>1. PICK c \in Clients : r \in x.tables[c]
    BY <1>3
  <2>2. CASE r \in d.tables[c]
    BY <2>2, Places
  <2>3. CASE r \notin d.tables[c]
    <3>1. LoadStores(d, x, rows) /\ c = d.client
      BY <2>1, <2>3 DEF LoadFails, LoadStores
    <3> QED
      BY <2>1, <2>3, <3>1, Stored
  <2> QED
    BY <2>2, <2>3
<1> QED
  BY <1>1, <1>2, <1>3, Places

\* A load keeps the invariant: the new import is known, the new rows have one id each.
LEMMA LoadWell ==
    ASSUME NEW d, Well(d), NEW x, NEW rows \in Seq(Rows), Showing(d, x, rows),
           LoadFails(d, x, rows) \/ LoadStores(d, x, rows),
           \A j \in DOMAIN rows : rows[j].import = NoImport
    PROVE  Well(x) /\ Shown(x)
<1>1. x \in Desks
  BY DEF Showing
<1>2. /\ DOMAIN d.history \subseteq DOMAIN x.history
      /\ \A i \in DOMAIN d.history : x.history[i] = d.history[i]
      /\ \A i \in DOMAIN x.history : i \in DOMAIN d.history \/
            (x.history[i] = d.client /\ i = Len(d.history) + 1)
      /\ LoadStores(d, x, rows) => Len(d.history) + 1 \in DOMAIN x.history
  BY Recorded
<1>3. Registered(x)
  <2>1. \A i \in DOMAIN x.history : x.history[i] # NoClient => x.history[i] \in x.born
    BY <1>2 DEF Well, Registered, Showing
  <2> QED
    BY <2>1 DEF Well, Registered, Showing
<1>4. TablesOK(x)
  <2> SUFFICES ASSUME NEW c \in Clients
               PROVE  /\ IsFiniteSet(x.tables[c])
                      /\ c \notin x.clients => x.tables[c] = {}
                      /\ OnePerId(x.tables[c])
    BY DEF TablesOK
  <2>1. CASE x.tables[c] = d.tables[c]
    BY <2>1 DEF Well, TablesOK, Showing
  <2>2. CASE LoadStores(d, x, rows) /\ c = d.client
    BY <2>2, Stored DEF LoadStores, Showing
  <2> QED
    BY <2>1, <2>2 DEF LoadFails, LoadStores
<1>5. ImportsKnown(x)
  <2> SUFFICES ASSUME NEW r \in Anywhere(x)
               PROVE  r.import = NoImport \/ r.import \in DOMAIN x.history
    BY DEF ImportsKnown
  <2>1. \/ r \in Anywhere(d)
        \/ \E j \in DOMAIN rows : r = rows[j]
        \/ LoadStores(d, x, rows) /\ r.import = Len(d.history) + 1
    BY LoadedRows
  <2> QED
    BY <1>2, <2>1 DEF Well, ImportsKnown
<1>6. Shown(x)
  <2>1. CASE LoadFails(d, x, rows)
    BY <2>1, SeqRows DEF LoadFails, Showing, Shown, Ids
  <2>2. CASE LoadStores(d, x, rows)
    <3>1. \A j \in DOMAIN rows : rows[j].id \notin Twice(rows) =>
             \E r \in x.tables[d.client] : Matches(r, rows[j])
      BY <2>2, Stored
    <3>2. x.screen = rows /\ x.client = d.client /\ Twice(rows) \subseteq x.unsaved
      BY <2>2 DEF LoadStores, Showing
    <3> QED
      BY <3>1, <3>2 DEF Shown
  <2> QED
    BY <2>1, <2>2
<1> QED
  BY <1>1, <1>3, <1>4, <1>5, <1>6 DEF Well

\* A load of rows that are new to the client, by key, keeps the keys apart.
LEMMA LoadOnce ==
    ASSUME NEW d, Well(d), Once(d), NEW x, NEW rows \in Seq(Rows), Showing(d, x, rows),
           LoadFails(d, x, rows) \/ LoadStores(d, x, rows),
           \A j \in DOMAIN rows : rows[j].import = NoImport,
           NewTo(d, rows)
    PROVE  Once(x)
<1>1. /\ \A i \in DOMAIN d.history : x.history[i] = d.history[i]
      /\ \A i \in DOMAIN x.history : i \in DOMAIN d.history \/
            (x.history[i] = d.client /\ i = Len(d.history) + 1)
      /\ DOMAIN x.history \subseteq Nat /\ NoImport \notin Nat
  BY Recorded, NamesAreApart
<1> SUFFICES ASSUME NEW c \in x.clients \ x.unchecked
             PROVE  \A r \in Of(x, c) : r.key \notin Uncompared =>
                       r.key \in x.hashes[c] /\ \A o \in Of(x, c) : o.key = r.key => o.id = r.id
  BY DEF Once
<1>2. c \in d.clients \ d.unchecked /\ c \in Clients /\ x.hashes = d.hashes
  BY Fields DEF Showing, Well
<1>3. ASSUME NEW r \in Of(x, c)
      PROVE  \/ r \in Of(d, c)
             \/ c = d.client /\ \E j \in DOMAIN rows : r.id = rows[j].id /\ r.key = rows[j].key
  <2>1. CASE r \in x.tables[c]
    <3>1. CASE r \in d.tables[c]
      BY <3>1 DEF Of
    <3>2. CASE r \notin d.tables[c]
      <4>1. LoadStores(d, x, rows) /\ c = d.client
        BY <1>2, <2>1, <3>2 DEF LoadFails, LoadStores
      <4> QED
        BY <2>1, <3>2, <4>1, Stored
    <3> QED
      BY <3>1, <3>2
  <2>2. CASE x.client = c /\ r \in ToSet(x.screen)
    BY <2>2 DEF Showing, ToSet
  <2>3. CASE x.ai # NoRun /\ x.ai.home = c /\ r \in AiRows(x)
    <3>1. x.ai = d.ai /\ AiRows(x) = AiRows(d)
      BY DEF Showing, AiRows
    <3> QED
      BY <2>3, <3>1 DEF Of
  <2>4. CASE r \in Anywhere(x) /\ r.import \in DOMAIN x.history /\ x.history[r.import] = c
    <3>1. \/ r \in Anywhere(d)
          \/ \E j \in DOMAIN rows : r = rows[j]
          \/ /\ LoadStores(d, x, rows) /\ r.import = Len(d.history) + 1
             /\ \E j \in DOMAIN rows : r.id = rows[j].id /\ r.key = rows[j].key
      BY <2>4, LoadedRows
    <3>2. r.import # NoImport
      BY <1>1, <2>4
    <3>3. CASE r \in Anywhere(d)
      <4>1. r.import \in DOMAIN d.history
        BY <3>2, <3>3 DEF Well, ImportsKnown
      <4>2. d.history[r.import] = c
        BY <1>1, <2>4, <4>1
      <4> QED
        BY <3>3, <4>1, <4>2 DEF Of
    <3>4. CASE /\ LoadStores(d, x, rows) /\ r.import = Len(d.history) + 1
               /\ \E j \in DOMAIN rows : r.id = rows[j].id /\ r.key = rows[j].key
      <4>1. r.import \notin DOMAIN d.history
        <5>1. d.history \in Seq(Clients \cup {NoClient})
          BY Fields DEF Well
        <5>2. Len(d.history) \in Nat /\ DOMAIN d.history = 1..Len(d.history)
          BY <5>1, LenProperties
        <5> QED
          BY <3>4, <5>2
      <4>2. c = d.client
        BY <1>1, <2>4, <4>1
      <4> QED
        BY <3>4, <4>2
    <3> QED
      BY <3>1, <3>2, <3>3, <3>4
  <2> QED
    BY <2>1, <2>2, <2>3, <2>4 DEF Of
<1>4. ASSUME NEW r \in Of(x, c), r.key \notin Uncompared PROVE r.key \in x.hashes[c]
  <2>1. CASE r \in Of(d, c)
    BY <1>2, <1>4, <2>1 DEF Once
  <2>2. CASE c = d.client /\ \E j \in DOMAIN rows : r.id = rows[j].id /\ r.key = rows[j].key
    BY <1>2, <1>4, <2>2 DEF NewTo
  <2> QED
    BY <1>3, <2>1, <2>2
<1>5. ASSUME NEW r \in Of(x, c), NEW o \in Of(x, c), r.key \notin Uncompared, o.key = r.key
      PROVE  o.id = r.id
  <2>1. CASE r \in Of(d, c) /\ o \in Of(d, c)
    BY <1>2, <1>5, <2>1 DEF Once
  <2>2. CASE c = d.client /\ \E j \in DOMAIN rows : r.id = rows[j].id /\ r.key = rows[j].key
    <3>1. PICK j \in DOMAIN rows : r.id = rows[j].id /\ r.key = rows[j].key
      BY <2>2
    <3>2. o \notin Of(d, c)
      BY <1>2, <1>5, <2>2, <3>1 DEF NewTo
    <3>3. PICK i \in DOMAIN rows : o.id = rows[i].id /\ o.key = rows[i].key
      BY <1>3, <3>2
    <3> QED
      BY <1>2, <1>5, <2>2, <3>1, <3>3 DEF NewTo
  <2>3. CASE c = d.client /\ \E j \in DOMAIN rows : o.id = rows[j].id /\ o.key = rows[j].key
    <3>1. PICK j \in DOMAIN rows : o.id = rows[j].id /\ o.key = rows[j].key
      BY <2>3
    <3>2. r \notin Of(d, c)
      BY <1>2, <1>5, <2>3, <3>1 DEF NewTo
    <3>3. PICK i \in DOMAIN rows : r.id = rows[i].id /\ r.key = rows[i].key
      BY <1>3, <3>2
    <3> QED
      BY <1>2, <1>5, <2>3, <3>1, <3>3, ZenonT(60) DEF NewTo
  <2> QED
    BY <1>3, <2>1, <2>2, <2>3
<1> QED
  BY <1>4, <1>5

\* The parsers number the rows of a file and know no import.
LEMMA ParsedRows ==
    ASSUME NEW f \in Files
    PROVE  /\ parse(f) \in Seq(Rows) /\ DOMAIN parse(f) = DOMAIN Contents[f]
           /\ \A j \in DOMAIN Contents[f] :
                 /\ parse(f)[j].id = <<"file", j>> /\ parse(f)[j].key = Contents[f][j]
                 /\ parse(f)[j].import = NoImport
<1>1. PICK n \in Nat : DOMAIN Contents[f] = 1..n
  BY ContentsAreSequences, LenProperties
<1>2. \A j \in DOMAIN Contents[f] : Contents[f][j] \in Keys
  BY ContentsAreSequences, ElementOfSeq, LenProperties
<1>3. \A j \in DOMAIN Contents[f] : <<"file", j>> \in RowIds
  BY <1>1 DEF RowIds
<1>4. \A j \in DOMAIN Contents[f] :
         [id |-> <<"file", j>>, key |-> Contents[f][j], import |-> NoImport, class |-> Raw] \in Rows
  BY <1>2, <1>3, ClassesTyped DEF Rows
<1>5. parse(f) \in [1..n -> Rows]
  BY <1>1, <1>4 DEF parse
<1>6. parse(f) \in Seq(Rows)
  BY <1>5, SeqDef
<1> QED
  BY <1>1, <1>6 DEF parse

\* Desks that differ in what has no rows.
LEMMA SameRows ==
    ASSUME NEW d, NEW y, y.tables = d.tables, y.screen = d.screen, y.ai = d.ai, y.client = d.client,
           y.history = d.history
    PROVE  Anywhere(y) = Anywhere(d) /\ \A c : Of(y, c) = Of(d, c)
<1>1. AiRows(y) = AiRows(d)
  BY DEF AiRows
<1>2. Anywhere(y) = Anywhere(d)
  BY <1>1, Zenon DEF Anywhere
<1> QED
  BY <1>1, <1>2 DEF Of

\* What is known of a desk does not depend on hashes and rules.
LEMMA SameWell ==
    ASSUME NEW d, Well(d), NEW y \in Desks, y.tables = d.tables, y.screen = d.screen, y.ai = d.ai,
           y.client = d.client, y.history = d.history, y.clients = d.clients, y.born = d.born
    PROVE  Well(y)
<1>1. Anywhere(y) = Anywhere(d)
  BY SameRows
<1> QED
  BY <1>1 DEF Well, Registered, TablesOK, ImportsKnown

\* The rows of a load that passed the check are new.
LEMMA CheckedAreNew ==
    ASSUME NEW d, Well(d), Once(d), NEW f \in Files, d.client # NoClient,
           NEW y \in Desks, y.tables = d.tables, y.screen = d.screen, y.ai = d.ai, y.client = d.client,
           y.history = d.history, y.clients = d.clients, y.unchecked = d.unchecked,
           NEW fresh,
           fresh = Only(parse(f), {j \in DOMAIN Contents[f] : Contents[f][j] \notin d.hashes[d.client]}),
           KeysOf(fresh) \subseteq y.hashes[d.client],
           NEW rows \in Seq(Rows), DOMAIN rows = DOMAIN fresh,
           \A j \in DOMAIN rows : rows[j].id = fresh[j].id /\ rows[j].key = fresh[j].key
    PROVE  NewTo(y, rows)
<1>1. PICK S \in SUBSET (DOMAIN parse(f)) :
         S = {j \in DOMAIN Contents[f] : Contents[f][j] \notin d.hashes[d.client]}
  BY ParsedRows
<1>2. /\ \A n \in DOMAIN fresh : Nth(S, n) \in S /\ fresh[n] = parse(f)[Nth(S, n)]
      /\ \A m, n \in DOMAIN fresh : Nth(S, m) = Nth(S, n) => m = n
  <2>1. PICK p \in Seq(Rows) : p = parse(f)
    BY ParsedRows
  <2>2. S \in SUBSET (DOMAIN p)
    BY <2>1
  <2>3. fresh = Only(p, S)
    BY <1>1, <2>1
  <2>4. \A n \in DOMAIN Only(p, S) : Nth(S, n) \in S
    BY <2>1, <2>2, OnlyThese
  <2>5. \A n \in DOMAIN Only(p, S) : Only(p, S)[n] = p[Nth(S, n)]
    BY <2>1, <2>2, OnlyThese
  <2>6. \A m, n \in DOMAIN Only(p, S) : Nth(S, m) = Nth(S, n) => m = n
    BY <2>1, <2>2, OnlyThese
  <2> QED
    BY <2>1, <2>3, <2>4, <2>5, <2>6
<1>3. \A n \in DOMAIN fresh : /\ Nth(S, n) \in DOMAIN Contents[f]
                              /\ fresh[n].id = <<"file", Nth(S, n)>> /\ fresh[n].key = Contents[f][Nth(S, n)]
                              /\ fresh[n].key \notin d.hashes[d.client]
  <2> SUFFICES ASSUME NEW n \in DOMAIN fresh
               PROVE  /\ Nth(S, n) \in DOMAIN Contents[f]
                      /\ fresh[n].id = <<"file", Nth(S, n)>> /\ fresh[n].key = Contents[f][Nth(S, n)]
                      /\ fresh[n].key \notin d.hashes[d.client]
    OBVIOUS
  <2>1. PICK m : m = Nth(S, n)
    OBVIOUS
  <2>2. m \in DOMAIN Contents[f] /\ Contents[f][m] \notin d.hashes[d.client] /\ fresh[n] = parse(f)[m]
    BY <1>1, <1>2, <2>1
  <2>3. parse(f)[m].id = <<"file", m>> /\ parse(f)[m].key = Contents[f][m]
    BY <2>2, ParsedRows
  <2> QED
    BY <2>1, <2>2, <2>3
<1> SUFFICES ASSUME y.client \in y.clients \ y.unchecked, NEW j \in DOMAIN rows,
                    rows[j].key \notin Uncompared
             PROVE  /\ rows[j].key \in y.hashes[y.client]
                    /\ \A o \in Of(y, y.client) : o.key # rows[j].key
                    /\ \A i \in DOMAIN rows : rows[i].key = rows[j].key => rows[i].id = rows[j].id
  BY DEF NewTo
<1>4. ASSUME NEW k \in DOMAIN Contents[f], NEW l \in DOMAIN Contents[f], Contents[f][k] = rows[j].key,
             Contents[f][l] = rows[j].key
      PROVE  k = l
  <2>1. rows[j].key \in Keys
    BY <1>4 DEF Keys
  <2> QED
    BY <1>4, <2>1 DEF Uncompared, Repeated
<1>5. rows[j].key \in y.hashes[y.client]
  BY DEF KeysOf
<1>6. ASSUME NEW o \in Of(y, y.client), o.key = rows[j].key PROVE FALSE
  <2>1. o \in Of(d, d.client) /\ d.client \in d.clients \ d.unchecked
    BY <1>6, SameRows
  <2>2. o.key \in d.hashes[d.client]
    BY <1>6, <2>1 DEF Once
  <2> QED
    BY <1>3, <1>6, <2>2
<1>7. ASSUME NEW i \in DOMAIN rows, rows[i].key = rows[j].key PROVE rows[i].id = rows[j].id
  <2>1. /\ Contents[f][Nth(S, i)] = rows[j].key /\ Contents[f][Nth(S, j)] = rows[j].key
        /\ Nth(S, i) \in DOMAIN Contents[f] /\ Nth(S, j) \in DOMAIN Contents[f]
    BY <1>3, <1>7
  <2>2. Nth(S, i) = Nth(S, j)
    BY <1>4, <2>1
  <2> QED
    BY <1>3, <2>2, SMTT(30)
<1> QED
  BY <1>5, <1>6, <1>7

\* What a finished load leaves behind.
LoadedFrom(d, x) ==
    /\ Well(x) /\ Shown(x)
    /\ Once(d) => Once(x)
    /\ Len(x.history) > Len(d.history) \/ x.tables = d.tables

\* The rows are classified and shown, after the hashes were dealt with.
LEMMA ApplyStep ==
    ASSUME NEW d, Well(d), NEW y \in Desks, y.tables = d.tables, y.screen = d.screen, y.ai = d.ai,
           y.client = d.client, y.history = d.history, y.clients = d.clients, y.born = d.born,
           NEW rows \in Seq(Rows), \A j \in DOMAIN rows : rows[j].import = NoImport,
           Once(d) =>
              /\ Once(y)
              /\ \A new \in Seq(Rows) :
                    /\ DOMAIN new = DOMAIN rows
                    /\ \A j \in DOMAIN new : new[j].id = rows[j].id /\ new[j].key = rows[j].key
                    => NewTo(y, new),
           NEW x \in apply_parse_result(y, rows)
    PROVE  LoadedFrom(d, x)
<1>1. Well(y)
  BY SameWell
<1>2. PICK result : result = classify_all(rows, get_rules(y))
  OBVIOUS
<1>3. /\ result \in Seq(Rows) /\ DOMAIN result = DOMAIN rows
      /\ \A j \in DOMAIN rows : /\ result[j].id = rows[j].id /\ result[j].key = rows[j].key
                                /\ result[j].import = rows[j].import
  BY <1>2, RulesTyped, Classified
<1>4. Showing(y, x, result) /\ (LoadFails(y, x, result) \/ LoadStores(y, x, result))
  BY <1>1, <1>2, Parsed
<1>5. Well(x) /\ Shown(x)
  BY <1>1, <1>3, <1>4, LoadWell
<1>6. Len(x.history) > Len(d.history) \/ x.tables = d.tables
  BY <1>1, <1>4, Recorded
<1>7. ASSUME Once(d) PROVE Once(x)
  <2>1. Once(y) /\ NewTo(y, result)
    BY <1>3, <1>7
  <2> QED
    BY <1>1, <1>3, <1>4, <2>1, LoadOnce
<1> QED
  BY <1>5, <1>6, <1>7 DEF LoadedFrom

\* A desk that differs from d in its hashes, of which it has no fewer, and in the clients
\* and mishaps it counts.
Marked(d, y) ==
    /\ y \in Desks /\ y.tables = d.tables /\ y.screen = d.screen /\ y.ai = d.ai
    /\ y.client = d.client /\ y.history = d.history /\ y.clients = d.clients /\ y.born = d.born
    /\ y.unsaved = d.unsaved
    /\ \A b \in Clients : d.hashes[b] \subseteq y.hashes[b]
    /\ d.unchecked \subseteq y.unchecked

LEMMA MarkedOnce ==
    ASSUME NEW d, Well(d), NEW y, Marked(d, y), Once(d)
    PROVE  Once(y)
<1>1. d \in Desks /\ d.clients \subseteq Clients
  BY Fields DEF Well
<1>2. \A c : Of(y, c) = Of(d, c)
  BY SameRows DEF Marked
<1> SUFFICES ASSUME NEW c \in y.clients \ y.unchecked, NEW r \in Of(y, c), r.key \notin Uncompared
             PROVE  r.key \in y.hashes[c] /\ \A o \in Of(y, c) : o.key = r.key => o.id = r.id
  BY DEF Once
<1>3. c \in d.clients \ d.unchecked /\ c \in Clients /\ r \in Of(d, c)
  BY <1>1, <1>2 DEF Marked
<1>4. r.key \in d.hashes[c] /\ \A o \in Of(d, c) : o.key = r.key => o.id = r.id
  BY <1>3 DEF Once
<1> QED
  BY <1>2, <1>3, <1>4 DEF Marked

\* The hashes of a statement's rows are stored.
LEMMA HashesStored ==
    ASSUME NEW d \in Desks, d.client \in Clients, NEW rows \in Seq(Rows),
           NEW y, y = [d EXCEPT !.hashes[d.client] = @ \cup KeysOf(rows)]
    PROVE  /\ Marked(d, y) /\ y.unchecked = d.unchecked
           /\ KeysOf(rows) \subseteq y.hashes[d.client]
<1>1. PICK c \in Clients : c = d.client
  OBVIOUS
<1>2. KeysOf(rows) \in SUBSET Keys
  <2>1. \A j \in DOMAIN rows : rows[j] \in Rows
    BY SeqRows
  <2>2. \A j \in DOMAIN rows : rows[j].key \in Keys
    BY <2>1 DEF Rows
  <2> QED
    BY <2>2 DEF KeysOf
<1>3. PICK hh : hh = [d.hashes EXCEPT ![c] = @ \cup KeysOf(rows)]
  OBVIOUS
<1>4. hh \in [Clients -> SUBSET Keys]
  BY <1>2, <1>3, Fields
<1>5. \A b \in Clients : d.hashes[b] \subseteq hh[b]
  BY <1>3, Fields
<1>6. KeysOf(rows) \subseteq hh[c]
  BY <1>3, Fields
<1>7. y = [d EXCEPT !.hashes = hh]
  BY <1>1, <1>3 DEF Desks
<1>8. /\ y \in Desks /\ y.tables = d.tables /\ y.screen = d.screen /\ y.ai = d.ai
      /\ y.client = d.client /\ y.clients = d.clients /\ y.born = d.born /\ y.history = d.history
      /\ y.hashes = hh /\ y.unchecked = d.unchecked /\ y.unsaved = d.unsaved
  BY <1>4, <1>7 DEF Desks
<1> QED
  BY <1>1, <1>5, <1>6, <1>8 DEF Marked

\* The client is marked as one that got rows without the check, after a failure or none.
LEMMA ClientMarked ==
    ASSUME NEW d \in Desks, NEW z \in Faulty(d) \cup {d}, NEW y, y = [z EXCEPT !.unchecked = @ \cup {d.client}]
    PROVE  Marked(d, y) /\ d.client \in y.unchecked
<1>1. /\ z \in Desks /\ z.tables = d.tables /\ z.screen = d.screen /\ z.ai = d.ai
      /\ z.client = d.client /\ z.history = d.history /\ z.clients = d.clients /\ z.born = d.born
      /\ z.hashes = d.hashes /\ z.unchecked = d.unchecked /\ z.unsaved = d.unsaved
  BY FaultyDesk DEF Beside
<1>2. z.unchecked \cup {d.client} \in SUBSET (Clients \cup {NoClient})
  BY <1>1, Fields
<1>3. /\ y \in Desks /\ y.tables = d.tables /\ y.screen = d.screen /\ y.ai = d.ai
      /\ y.client = d.client /\ y.history = d.history /\ y.clients = d.clients /\ y.born = d.born
      /\ y.hashes = d.hashes /\ y.unchecked = d.unchecked \cup {d.client} /\ y.unsaved = d.unsaved
  BY <1>1, <1>2 DEF Desks
<1> QED
  BY <1>3 DEF Marked

LEMMA MarkedTwice ==
    ASSUME NEW d, NEW y, Marked(d, y), NEW x, Marked(y, x)
    PROVE  Marked(d, x) /\ (d.client \in y.unchecked => d.client \in x.unchecked)
<1>1. \A b \in Clients : d.hashes[b] \subseteq x.hashes[b]
  BY DEF Marked
<1> QED
  BY <1>1 DEF Marked

\* Rows that were not compared reach a client that is marked.
LEMMA UncheckedLoad ==
    ASSUME NEW d, Well(d), NEW y, Marked(d, y), d.client \in y.unchecked,
           NEW rows \in Seq(Rows), \A j \in DOMAIN rows : rows[j].import = NoImport,
           NEW x \in apply_parse_result(y, rows)
    PROVE  LoadedFrom(d, x)
<1>1. \A new : NewTo(y, new)
  BY DEF NewTo, Marked
<1>2. Once(d) => Once(y)
  BY MarkedOnce
<1> QED
  BY <1>1, <1>2, ApplyStep DEF Marked

\* Rows that are new to the hashes, which are stored, reach their client.
LEMMA CheckedLoad ==
    ASSUME NEW d, Well(d), NEW f \in Files, d.client \in Clients, d.client # NoClient,
           NEW new \in Seq(Rows),
           new = Only(parse(f), {j \in DOMAIN Contents[f] : Contents[f][j] \notin d.hashes[d.client]}),
           \A j \in DOMAIN new : new[j].import = NoImport,
           NEW y, Marked(d, y), y.unchecked = d.unchecked, KeysOf(new) \subseteq y.hashes[d.client],
           NEW x \in apply_parse_result(y, new)
    PROVE  LoadedFrom(d, x)
<1>1. Once(d) => Once(y)
  BY MarkedOnce
<1>2. ASSUME Once(d), NEW rows \in Seq(Rows), DOMAIN rows = DOMAIN new,
             \A j \in DOMAIN rows : rows[j].id = new[j].id /\ rows[j].key = new[j].key
      PROVE  NewTo(y, rows)
  BY <1>2, CheckedAreNew DEF Marked
<1> QED
  BY <1>1, <1>2, ApplyStep DEF Marked

\* Those of a statement's rows that are not known.
Unknown(f, known) == Only(parse(f), {j \in DOMAIN Contents[f] : Contents[f][j] \notin known})

LEMMA UnknownRows ==
    ASSUME NEW f \in Files, NEW known
    PROVE  /\ Unknown(f, known) \in Seq(Rows)
           /\ \A j \in DOMAIN Unknown(f, known) : Unknown(f, known)[j].import = NoImport
<1>1. PICK p \in Seq(Rows) : p = parse(f) /\ \A j \in DOMAIN p : p[j].import = NoImport
  BY ParsedRows
<1>2. PICK S \in SUBSET (DOMAIN p) : S = {j \in DOMAIN Contents[f] : Contents[f][j] \notin known}
  BY <1>1, ParsedRows
<1>3. Unknown(f, known) = Only(p, S)
  BY <1>1, <1>2 DEF Unknown
<1>4. Only(p, S) \in Seq(Rows)
  BY <1>1, <1>2, OnlyThese
<1>5. \A n \in DOMAIN Only(p, S) : Nth(S, n) \in S
  BY <1>1, <1>2, OnlyThese
<1>6. \A n \in DOMAIN Only(p, S) : Only(p, S)[n] = p[Nth(S, n)]
  BY <1>1, <1>2, OnlyThese
<1>7. \A n \in DOMAIN Only(p, S) : Only(p, S)[n].import = NoImport
  BY <1>1, <1>2, <1>5, <1>6, ZenonT(60)
<1> QED
  BY <1>3, <1>4, <1>7

\* finish_load_file in each of its ways: without a client, unchecked, nothing new, with the
\* hashes stored or not, and with none that could be read.
LEMMA LoadStep ==
    ASSUME NEW d, Well(d), Shown(d), NEW f \in Files, NEW dedup \in BOOLEAN,
           NEW x \in finish_load_file(d, f, dedup)
    PROVE  LoadedFrom(d, x)
<1>1. d \in Desks /\ (d.client # NoClient => d.client \in Clients)
  BY Fields DEF Well
<1>2. /\ parse(f) \in Seq(Rows)
      /\ \A j \in DOMAIN parse(f) : parse(f)[j].import = NoImport
  BY ParsedRows
<1> DEFINE unhashed(z) == [z EXCEPT !.unchecked = @ \cup {d.client}]
           hashed(z, rows) == {[z EXCEPT !.hashes[d.client] = @ \cup KeysOf(rows)]} \cup {unhashed(w) : w \in Faulty(z)}
           applied(z, rows) == IF rows = <<>> THEN {z}
                               ELSE UNION {apply_parse_result(y, rows) : y \in hashed(z, rows)}
<1>3. CASE d.client = NoClient /\ x \in apply_parse_result(d, parse(f))
  <2>1. d.client \notin d.clients
    BY <1>1, <1>3, NamesAreApart, Fields
  <2>2. \A new : NewTo(d, new)
    BY <2>1 DEF NewTo
  <2> QED
    BY <1>1, <1>2, <1>3, <2>2, ApplyStep
<1>4. CASE x \in apply_parse_result(unhashed(d), parse(f))
  <2>1. PICK y : y = unhashed(d)
    OBVIOUS
  <2>2. Marked(d, y) /\ d.client \in y.unchecked
    BY <1>1, <2>1, ClientMarked
  <2> HIDE DEF unhashed
  <2> QED
    BY <1>2, <1>4, <2>1, <2>2, UncheckedLoad
<1>5. CASE d.client # NoClient /\ x \in applied(d, Unknown(f, d.hashes[d.client]))
  <2>1. PICK new \in Seq(Rows) : new = Unknown(f, d.hashes[d.client]) /\ \A j \in DOMAIN new : new[j].import = NoImport
    BY UnknownRows
  <2>2. CASE x = d
    BY <2>2 DEF LoadedFrom
  <2>3. ASSUME NEW y, y = [d EXCEPT !.hashes[d.client] = @ \cup KeysOf(new)], x \in apply_parse_result(y, new)
        PROVE  LoadedFrom(d, x)
    <3>1. Marked(d, y) /\ y.unchecked = d.unchecked /\ KeysOf(new) \subseteq y.hashes[d.client]
      BY <1>1, <1>5, <2>3, HashesStored
    <3>2. new = Only(parse(f), {j \in DOMAIN Contents[f] : Contents[f][j] \notin d.hashes[d.client]})
      BY <2>1 DEF Unknown
    <3> QED
      BY <1>1, <1>5, <2>1, <2>3, <3>1, <3>2, CheckedLoad
  <2>4. ASSUME NEW w \in Faulty(d), NEW y, y = unhashed(w), x \in apply_parse_result(y, new)
        PROVE  LoadedFrom(d, x)
    <3>1. Marked(d, y) /\ d.client \in y.unchecked
      BY <1>1, <2>4, ClientMarked
    <3> QED
      BY <2>1, <2>4, <3>1, UncheckedLoad
  <2>5. \/ x = d
        \/ \E y : y = [d EXCEPT !.hashes[d.client] = @ \cup KeysOf(new)] /\ x \in apply_parse_result(y, new)
        \/ \E w \in Faulty(d) : x \in apply_parse_result(unhashed(w), new)
    BY <1>5, <2>1
  <2> HIDE DEF unhashed
  <2> QED
    BY <2>2, <2>3, <2>4, <2>5
<1>6. ASSUME NEW v \in Faulty(d), d.client # NoClient, x \in applied(unhashed(v), Unknown(f, {}))
      PROVE  LoadedFrom(d, x)
  <2>1. PICK new \in Seq(Rows) : new = Unknown(f, {}) /\ \A j \in DOMAIN new : new[j].import = NoImport
    BY UnknownRows
  <2>2. PICK z : z = unhashed(v)
    OBVIOUS
  <2>3. Marked(d, z) /\ d.client \in z.unchecked /\ z \in Desks /\ z.client = d.client
    <3>1. Marked(d, z) /\ d.client \in z.unchecked
      BY <1>1, <1>6, <2>2, ClientMarked
    <3> QED
      BY <3>1 DEF Marked
  <2>4. CASE x = z
    <3>1. Once(d) => Once(z)
      BY <2>3, MarkedOnce, SameWell DEF Marked
    <3>2. Well(z)
      BY <2>3, SameWell DEF Marked
    <3>3. Shown(z)
      BY <2>3 DEF Shown, Marked
    <3>4. z.tables = d.tables
      BY <2>3 DEF Marked
    <3> QED
      BY <2>4, <3>1, <3>2, <3>3, <3>4 DEF LoadedFrom
  <2>5. ASSUME NEW y, y = [z EXCEPT !.hashes[d.client] = @ \cup KeysOf(new)], x \in apply_parse_result(y, new)
        PROVE  LoadedFrom(d, x)
    <3>1. Marked(z, y)
      BY <1>1, <1>6, <2>3, <2>5, HashesStored
    <3>2. Marked(d, y) /\ d.client \in y.unchecked
      BY <2>3, <3>1, MarkedTwice
    <3> QED
      BY <2>1, <2>5, <3>2, UncheckedLoad
  <2>6. ASSUME NEW w \in Faulty(z), NEW y, y = unhashed(w), x \in apply_parse_result(y, new)
        PROVE  LoadedFrom(d, x)
    <3>1. Marked(z, y)
      BY <2>3, <2>6, ClientMarked
    <3>2. Marked(d, y) /\ d.client \in y.unchecked
      BY <2>3, <3>1, MarkedTwice
    <3> QED
      BY <2>1, <2>6, <3>2, UncheckedLoad
  <2>7. \/ x = z
        \/ \E y : y = [z EXCEPT !.hashes[d.client] = @ \cup KeysOf(new)] /\ x \in apply_parse_result(y, new)
        \/ \E w \in Faulty(z) : x \in apply_parse_result(unhashed(w), new)
    BY <1>6, <2>1, <2>2
  <2> HIDE DEF unhashed
  <2> QED
    BY <2>4, <2>5, <2>6, <2>7
<1>7. \/ d.client = NoClient /\ x \in apply_parse_result(d, parse(f))
      \/ x \in apply_parse_result(unhashed(d), parse(f))
      \/ d.client # NoClient /\ x \in applied(d, Unknown(f, d.hashes[d.client]))
      \/ d.client # NoClient /\ \E v \in Faulty(d) : x \in applied(unhashed(v), Unknown(f, {}))
  <2>1. \A z, rows : hashed(z, rows) = Write(z, [z EXCEPT !.hashes[d.client] = @ \cup KeysOf(rows)], unhashed)
    BY Zenon DEF Write
  <2> QED
    BY <2>1, Zenon DEF finish_load_file, Unknown
<1> HIDE DEF unhashed, hashed, applied
<1> QED
  BY <1>3, <1>4, <1>5, <1>6, <1>7, Zenon

-----------------------------------------------------------------------------
(***************************************************************************)
(* A row is classified.                                                    *)
(***************************************************************************)
\* A row of the screen is classified and stored.
LEMMA ReclassStep ==
    ASSUME NEW d, Well(d), Shown(d), NEW j \in DOMAIN d.screen, NEW r \in Rows,
           r.id = d.screen[j].id, r.key = d.screen[j].key, r.import = d.screen[j].import,
           NEW y \in Desks, y.tables = d.tables, y.client = d.client, y.clients = d.clients,
           y.born = d.born, y.history = d.history, y.hashes = d.hashes, y.unsaved = d.unsaved,
           y.unchecked = d.unchecked, y.ai = d.ai,
           DOMAIN y.screen = DOMAIN d.screen, y.screen[j] = r,
           \A k \in DOMAIN d.screen : k # j => y.screen[k] = d.screen[k],
           NEW x \in upsert_transaction_classification(y, r)
    PROVE  Moved(d, x) /\ Shown(x) /\ Quiet(d, x, {r.id})
<1>1. /\ d \in Desks /\ d.screen \in Seq(Rows) /\ y.screen \in Seq(Rows)
      /\ d.clients \subseteq Clients /\ NoClient \notin Clients
      /\ d.client # NoClient => d.client \in d.clients
  BY Fields, NamesAreApart DEF Well, Registered
<1>2. TablesOK(y)
  BY DEF Well, TablesOK
<1>3. /\ x \in Desks /\ Beside(y, x)
      /\ \/ x.tables = y.tables /\ x.unsaved = y.unsaved \cup {r.id}
         \/ /\ y.client \in y.clients
            /\ x.tables[y.client] = Regraded(y.tables[y.client], r)
            /\ \A c \in Clients : c # y.client => x.tables[c] = y.tables[c]
            /\ x.unsaved = y.unsaved
  BY <1>1, <1>2, Reclassified
<1>4. /\ x.clients = d.clients /\ x.born = d.born /\ x.history = d.history /\ x.hashes = d.hashes
      /\ x.client = d.client /\ x.screen = y.screen /\ x.ai = d.ai /\ x.unchecked = d.unchecked
  BY <1>3 DEF Beside
<1>5. \A k \in DOMAIN d.screen : /\ y.screen[k].id = d.screen[k].id /\ y.screen[k].key = d.screen[k].key
                                 /\ y.screen[k].import = d.screen[k].import
  OBVIOUS
<1>6. Copied(ToSet(x.screen), ToSet(d.screen))
  BY <1>4, <1>5 DEF Copied, ToSet
<1>7. Copied(ToSet(x.screen), Anywhere(d)) /\ Copied(ToSet(x.screen), Of(d, x.client))
  BY <1>4, <1>6, ScreenIsOf DEF Copied
<1>8. Twice(x.screen) = Twice(d.screen)
  <2>1. PICK n \in Nat : DOMAIN d.screen = 1..n
    BY <1>1, SeqRows
  <2>2. \A k \in DOMAIN d.screen : \A o \in 1..k - 1 : o \in DOMAIN d.screen
    BY <2>1
  <2>3. \A k \in DOMAIN d.screen :
           (\E o \in 1..k - 1 : y.screen[o].id = y.screen[k].id) <=>
           (\E o \in 1..k - 1 : d.screen[o].id = d.screen[k].id)
    BY <1>5, <2>2
  <2> QED
    BY <1>4, <1>5, <2>3 DEF Twice
<1>9. CASE x.tables = y.tables /\ x.unsaved = y.unsaved \cup {r.id}
  <2>1. Moved(d, x)
    BY <1>1, <1>3, <1>4, <1>7, <1>9 DEF Moved
  <2>2. Shown(x)
    BY <1>4, <1>8, <1>9 DEF Shown
  <2>3. Quiet(d, x, {r.id})
    BY <1>4, <1>9 DEF Quiet, Kept, Matches
  <2> QED
    BY <2>1, <2>2, <2>3
<1>10. CASE /\ y.client \in y.clients
            /\ x.tables[y.client] = Regraded(y.tables[y.client], r)
            /\ \A c \in Clients : c # y.client => x.tables[c] = y.tables[c]
            /\ x.unsaved = y.unsaved
  <2>1. PICK c \in Clients : c = d.client /\ c # NoClient
    BY <1>1, <1>10
  <2>2. PICK old : old = d.tables[c]
    OBVIOUS
  <2>3. old \in SUBSET Rows /\ IsFiniteSet(old) /\ OnePerId(old)
    BY <1>1, <2>1, <2>2, Fields DEF Well, TablesOK
  <2>4. PICK new : new = Regraded(old, r)
    OBVIOUS
  <2>5. /\ IsFiniteSet(new) /\ OnePerId(new)
        /\ \A o \in new : \E p \in old : o.id = p.id /\ o.key = p.key /\ o.import = p.import
        /\ \A p \in old : p.id # r.id => p \in new
        /\ \A p \in old : p.id = r.id => \E o \in new : o.id = p.id /\ o.key = p.key /\ o.class = r.class
    BY <2>3, <2>4, RegradedRows
  <2>6. new = x.tables[c] /\ \A b \in Clients : b # c => x.tables[b] = d.tables[b]
    BY <1>10, <2>1, <2>2, <2>4
  <2>7. Copied(new, old)
    BY <2>5 DEF Copied
  <2>9. Moved(d, x)
    <3>1. Copied(new, old \cup ToSet(x.screen))
      BY <2>7 DEF Copied
    <3> QED
      BY <1>1, <1>3, <1>4, <1>7, <2>1, <2>2, <2>5, <2>6, <3>1 DEF Moved
  <2>10. Shown(x)
    <3>1. ASSUME NEW k \in DOMAIN d.screen, d.screen[k].id \notin d.unsaved
          PROVE  \E o \in new : Matches(o, y.screen[k])
      <4>1. PICK p \in old : Matches(p, d.screen[k])
        BY <2>1, <2>2, <3>1 DEF Shown
      <4>2. CASE p.id # r.id
        <5>1. k # j
          BY <4>1, <4>2 DEF Matches
        <5> QED
          BY <2>5, <4>1, <4>2, <5>1
      <4>3. CASE p.id = r.id
        <5>1. d.screen[k].id \notin Twice(d.screen)
          BY <2>1, <3>1 DEF Shown
        <5>2. k = j
          BY <1>1, <4>1, <4>3, <5>1, TwiceIsTwo DEF Matches
        <5> QED
          BY <2>5, <4>1, <4>3, <5>2 DEF Matches
      <4> QED
        BY <4>2, <4>3
    <3>2. x.unsaved = d.unsaved /\ Twice(d.screen) \subseteq d.unsaved
      BY <1>10, <2>1 DEF Shown
    <3> QED
      BY <1>4, <1>5, <1>8, <2>1, <2>6, <3>1, <3>2 DEF Shown
  <2>11. Quiet(d, x, {r.id})
    <3> SUFFICES ASSUME NEW b \in d.clients
                 PROVE  Kept(d.tables[b], x.tables[b], IF b = d.client THEN d.unsaved \cup {r.id} ELSE {})
      BY DEF Quiet
    <3>1. CASE b = c
      BY <2>1, <2>2, <2>6, <2>5, <3>1 DEF Kept, Matches
    <3>2. CASE b # c
      BY <1>1, <2>1, <2>6, <3>2 DEF Kept, Matches
    <3> QED
      BY <3>1, <3>2
  <2> QED
    BY <2>9, <2>10, <2>11
<1> QED
  BY <1>3, <1>9, <1>10

-----------------------------------------------------------------------------
(***************************************************************************)
(* The handlers, one lemma each.                                           *)
(***************************************************************************)
Held(d, x) == Well(x) /\ Shown(x) /\ (Once(d) => Once(x))

\* The user's work after a step that ends with the desk x.
WorkSurvives(d, x) ==
    \/ Quiet(d, x, {})
    \/ Len(x.history) > Len(d.history)
    \/ d.ai # NoRun /\ x.ai = NoRun
    \/ (\E i : Quiet(d, x, {i})) /\ (edits' # edits \/ x.undo # d.undo)

Outcome == \E x \in Desks : Leave(x) /\ Held(Desk, x) /\ WorkSurvives(Desk, x)

\* What moves rows keeps the invariant.
LEMMA MovedHeld ==
    ASSUME NEW d, Well(d), NEW x, Moved(d, x), Shown(x)
    PROVE  x \in Desks /\ Held(d, x)
BY MovedWell, MovedOnce DEF Held, Well

\* So does what leaves them.
LEMMA StillHeld ==
    ASSUME NEW d, Well(d), Shown(d), NEW x, Still(d, x)
    PROVE  x \in Desks /\ Held(d, x) /\ WorkSurvives(d, x) /\ Well(x) /\ Shown(x) /\ (Once(d) => Once(x))
<1>1. Moved(d, x) /\ Shown(x) /\ Quiet(d, x, {})
  BY StillStep
<1> QED
  BY <1>1, MovedWell, MovedOnce DEF Held, WorkSurvives, Well

\* A failed write is such a step.
LEMMA FaultyStill ==
    ASSUME NEW d \in Desks, NEW x \in Faulty(d)
    PROVE  Still(d, x)
BY FaultyDesk DEF Still, Beside

\* Tables that stay keep the user's rows.
LEMMA SameTablesQuiet ==
    ASSUME NEW d, NEW x, x.tables = d.tables, NEW S
    PROVE  Quiet(d, x, S)
BY DEF Quiet, Kept, Matches

-----------------------------------------------------------------------------
\* A scanned statement starts a thread, the others are loaded at once.
LEMMA LoadFileStep ==
    ASSUME Well(Desk), Shown(Desk), NEW f \in Files, NEW dedup \in BOOLEAN, LoadFile(f, dedup)
    PROVE  Outcome
<1>1. CASE f \in Scanned
  <2>1. PICK x : x = [Desk EXCEPT !.ocr = @ \cup {f}] /\ Leave(x)
    BY <1>1 DEF LoadFile
  <2>2. Desk.ocr \cup {f} \in SUBSET Files
    BY Fields DEF Well
  <2>3. Still(Desk, x)
    <3>1. PICK d \in Desks : d = Desk
      BY DEF Well
    <3> QED
      BY <2>1, <2>2, <3>1 DEF Still, Desks
  <2> QED
    BY <2>1, <2>3, StillHeld DEF Outcome
<1>2. CASE f \notin Scanned
  <2>1. PICK x \in finish_load_file(Desk, f, dedup) : Leave(x)
    BY <1>2 DEF LoadFile
  <2>2. LoadedFrom(Desk, x)
    BY <2>1, LoadStep
  <2>3. WorkSurvives(Desk, x)
    BY <2>2, SameTablesQuiet DEF LoadedFrom, WorkSurvives
  <2> QED
    BY <2>1, <2>2, <2>3 DEF LoadedFrom, Outcome, Held, Well
<1> QED
  BY <1>1, <1>2

\* The thread reports to whatever client is selected by then.
LEMMA OcrDoneStep ==
    ASSUME Well(Desk), Shown(Desk), NEW f \in Files, NEW dedup \in BOOLEAN, OcrDone(f, dedup)
    PROVE  Outcome
<1>1. PICK done : done = [Desk EXCEPT !.ocr = @ \ {f}]
  OBVIOUS
<1>2. Desk.ocr \ {f} \in SUBSET Files
  BY Fields DEF Well
<1>3. Still(Desk, done)
  <2>1. PICK d \in Desks : d = Desk
    BY DEF Well
  <2> QED
    BY <1>1, <1>2, <2>1 DEF Still, Desks
<1>4. PICK x \in finish_load_file(done, f, dedup) \cup {done} : Leave(x)
  BY <1>1 DEF OcrDone
<1>5. CASE x = done
  BY <1>3, <1>4, <1>5, StillHeld DEF Outcome
<1>6. CASE x \in finish_load_file(done, f, dedup)
  <2>1. Well(done) /\ Shown(done) /\ (Once(Desk) => Once(done))
    BY <1>3, StillHeld
  <2>2. LoadedFrom(done, x)
    BY <1>6, <2>1, LoadStep
  <2>3. done.tables = Desk.tables /\ done.history = Desk.history
    BY <1>3 DEF Still
  <2>4. WorkSurvives(Desk, x)
    BY <2>2, <2>3, SameTablesQuiet DEF LoadedFrom, WorkSurvives
  <2> QED
    BY <1>4, <2>1, <2>2, <2>4 DEF LoadedFrom, Outcome, Held, Well
<1> QED
  BY <1>4, <1>5, <1>6

-----------------------------------------------------------------------------
\* A client is selected, or again by Refresh.
LEMMA SelectClientStep ==
    ASSUME Well(Desk), Shown(Desk), NEW c \in Clients, SelectClient(c)
    PROVE  Outcome
<1>1. PICK x \in select_client(Desk, c) : Leave(x)
  BY DEF SelectClient
<1>2. c \in Desk.clients
  BY DeskFields DEF SelectClient
<1>3. Moved(Desk, x) /\ Shown(x) /\ Quiet(Desk, x, {})
  BY <1>1, <1>2, SelectStep
<1> QED
  BY <1>1, <1>3, MovedHeld DEF Outcome, WorkSurvives

\* The threads and the stack are gone, the tables are not.
LEMMA RestartStep ==
    ASSUME Well(Desk), Shown(Desk), NEW c \in Clients, Restart(c)
    PROVE  Outcome
<1>1. PICK d \in Desks : d = Desk
  BY DEF Well
<1>2. PICK up : up = [d EXCEPT !.undo = <<>>, !.ocr = {}, !.ai = NoRun, !.mishaps = @ + 1]
  OBVIOUS
<1>3. PICK x \in select_client(up, c) : Leave(x)
  BY <1>1, <1>2 DEF Restart
<1>4. Still(d, up)
  <2>1. <<>> \in Seq([id : RowIds, class : Classes]) /\ d.mishaps + 1 \in Nat
    BY Fields, EmptySeq
  <2> QED
    BY <1>2, <2>1 DEF Still, Desks
<1>5. Well(up) /\ Shown(up) /\ (Once(d) => Once(up))
  BY <1>1, <1>4, StillHeld
<1>6. c \in up.clients
  BY <1>1, <1>4, DeskFields DEF Restart, Still
<1>7. Moved(up, x) /\ Shown(x) /\ Quiet(up, x, {})
  BY <1>3, <1>5, <1>6, SelectStep
<1>8. x \in Desks /\ Held(up, x)
  BY <1>5, <1>7, MovedHeld
<1>9. Quiet(d, x, {})
  BY <1>4, <1>7 DEF Quiet, Still
<1> QED
  BY <1>1, <1>3, <1>5, <1>8, <1>9 DEF Outcome, WorkSurvives, Held

\* No row is of a client that was never there: its id is new.
LEMMA NewClientStep ==
    ASSUME Well(Desk), Shown(Desk), NEW c \in Clients, NewClient(c)
    PROVE  Outcome
<1>1. PICK d \in Desks : d = Desk
  BY DEF Well
<1>2. PICK y : y = [d EXCEPT !.clients = @ \cup {c}, !.born = @ \cup {c}]
  OBVIOUS
<1>3. PICK x \in select_client(y, c) : Leave(x)
  BY <1>1, <1>2 DEF NewClient
<1>4. c \notin d.born /\ d.clients \subseteq d.born /\ d.clients \subseteq Clients /\ d.born \subseteq Clients
  BY <1>1, DeskFields, Fields DEF NewClient, Well, Registered
<1>5. /\ y \in Desks /\ y.clients = d.clients \cup {c} /\ y.born = d.born \cup {c} /\ y.tables = d.tables
      /\ y.history = d.history /\ y.hashes = d.hashes /\ y.client = d.client /\ y.screen = d.screen
      /\ y.ai = d.ai /\ y.unsaved = d.unsaved /\ y.unchecked = d.unchecked
  BY <1>2, <1>4 DEF Desks
<1>6. Anywhere(y) = Anywhere(d) /\ \A b : Of(y, b) = Of(d, b)
  BY <1>5, SameRows
<1>7. Well(y)
  <2>1. IsFiniteSet(y.clients)
    BY <1>1, <1>5, FS_AddElement DEF Well, Registered
  <2>2. Registered(y)
    BY <1>1, <1>5, <2>1 DEF Well, Registered
  <2>3. TablesOK(y)
    BY <1>1, <1>5 DEF Well, TablesOK
  <2>4. ImportsKnown(y)
    BY <1>1, <1>5, <1>6 DEF Well, ImportsKnown
  <2> QED
    BY <1>5, <2>2, <2>3, <2>4 DEF Well
<1>8. Of(d, c) = {}
  <2>1. d.tables[c] = {} /\ d.client # c
    BY <1>1, <1>4, NamesAreApart DEF Well, TablesOK, Registered
  <2>2. ~(d.ai # NoRun /\ d.ai.home = c)
    BY <1>1, <1>4, NamesAreApart DEF Well, Registered
  <2>3. \A i \in DOMAIN d.history : d.history[i] # c
    BY <1>1, <1>4, NamesAreApart DEF Well, Registered
  <2> QED
    BY <2>1, <2>2, <2>3 DEF Of
<1>9. Once(d) => Once(y)
  BY <1>5, <1>6, <1>8 DEF Once
<1>10. Moved(y, x) /\ Shown(x) /\ Quiet(y, x, {})
  BY <1>3, <1>5, <1>7, SelectStep
<1>11. x \in Desks /\ Held(y, x)
  BY <1>7, <1>10, MovedHeld
<1>12. Quiet(d, x, {})
  BY <1>5, <1>10 DEF Quiet
<1> QED
  BY <1>1, <1>3, <1>9, <1>11, <1>12 DEF Outcome, WorkSurvives, Held

\* A write of the desk itself that may fail, and then changes nothing.
LEMMA WriteStep ==
    ASSUME Well(Desk), Shown(Desk), NEW done, NEW x, x = done \/ x \in Faulty(Desk), Leave(x),
           x = done => done \in Desks /\ Held(Desk, done) /\ WorkSurvives(Desk, done)
    PROVE  Outcome
<1>1. CASE x = done
  BY <1>1 DEF Outcome
<1>2. CASE x \in Faulty(Desk)
  <2>1. Still(Desk, x)
    BY <1>2, FaultyStill DEF Well
  <2> QED
    BY <2>1, StillHeld DEF Outcome
<1> QED
  BY <1>1, <1>2

\* The rows, the hashes and the imports go with the client.
LEMMA DeleteClientStep ==
    ASSUME Well(Desk), Shown(Desk), DeleteClient
    PROVE  Outcome
<1>1. PICK d \in Desks : d = Desk
  BY DEF Well
<1>2. PICK c \in Clients : c = d.client /\ c # NoClient
  BY <1>1, DeskFields, Fields DEF DeleteClient
<1>3. PICK done : done = [d EXCEPT !.clients = @ \ {c}, !.tables[c] = {},
                            !.hashes[c] = {}, !.rules[c] = NoRules,
                            !.history = [i \in DOMAIN @ |-> IF @[i] = c THEN NoClient ELSE @[i]],
                            !.client = NoClient, !.screen = <<>>, !.unsaved = {}]
  OBVIOUS
<1>4. PICK x : (x = done \/ x \in Faulty(Desk)) /\ Leave(x)
  BY <1>1, <1>2, <1>3, DeskFields DEF DeleteClient, Write
<1>5. PICK t : t = [d.tables EXCEPT ![c] = {}]
  OBVIOUS
<1>6. PICK hh : hh = [d.hashes EXCEPT ![c] = {}]
  OBVIOUS
<1>7. PICK rr : rr = [d.rules EXCEPT ![c] = NoRules]
  OBVIOUS
<1>8. PICK past : past = [i \in DOMAIN d.history |-> IF d.history[i] = c THEN NoClient ELSE d.history[i]]
  OBVIOUS
<1>9. done = [d EXCEPT !.clients = @ \ {c}, !.tables = t, !.hashes = hh, !.rules = rr, !.history = past,
                       !.client = NoClient, !.screen = <<>>, !.unsaved = {}]
  BY <1>3, <1>5, <1>6, <1>7, <1>8 DEF Desks
<1>10. /\ t \in [Clients -> SUBSET Rows] /\ t[c] = {} /\ \A b \in Clients : b # c => t[b] = d.tables[b]
  BY <1>5, Fields
<1>11. /\ hh \in [Clients -> SUBSET Keys] /\ \A b \in Clients : b # c => hh[b] = d.hashes[b]
  BY <1>6, Fields
<1>12. rr \in [Clients -> [Keys -> {NoLedger, Picked, Suggested}]]
  BY <1>7, Fields DEF NoRules
<1>13. /\ past \in Seq(Clients \cup {NoClient}) /\ DOMAIN past = DOMAIN d.history
       /\ \A i \in DOMAIN past : past[i] # NoClient => past[i] = d.history[i] /\ past[i] # c
  <2>1. PICK n \in Nat : DOMAIN d.history = 1..n
    BY Fields, LenProperties
  <2>2. \A i \in 1..n : d.history[i] \in Clients \cup {NoClient}
    BY <2>1, Fields, ElementOfSeq, LenProperties
  <2>3. past \in [1..n -> Clients \cup {NoClient}]
    BY <1>8, <2>1, <2>2
  <2>4. past \in Seq(Clients \cup {NoClient})
    BY <2>3, SeqDef
  <2> QED
    BY <1>8, <2>1, <2>4
<1>14. <<>> \in Seq(Rows) /\ ToSet(<<>>) = {}
  BY EmptySeq DEF ToSet
<1>15. /\ done \in Desks /\ done.clients = d.clients \ {c} /\ done.tables = t /\ done.hashes = hh
       /\ done.history = past /\ done.client = NoClient /\ done.screen = <<>> /\ done.ai = d.ai
       /\ done.born = d.born /\ done.unchecked = d.unchecked
  BY <1>9, <1>10, <1>11, <1>12, <1>13, <1>14 DEF Desks
<1>16. Anywhere(done) \subseteq Anywhere(d)
  <2> SUFFICES ASSUME NEW r \in Anywhere(done) PROVE r \in Anywhere(d)
    OBVIOUS
  <2>1. AiRows(done) = AiRows(d)
    BY <1>15 DEF AiRows
  <2>2. CASE \E b \in Clients : r \in done.tables[b]
    BY <1>10, <1>15, <2>2, Places
  <2>3. CASE r \in ToSet(done.screen)
    BY <1>14, <1>15, <2>3
  <2> QED
    BY <2>1, <2>2, <2>3, Places
<1>17. Well(done)
  <2>1. Registered(done)
    <3>1. IsFiniteSet(d.clients \ {c})
      <4>1. IsFiniteSet(d.clients)
        BY <1>1 DEF Well, Registered
      <4> QED
        BY <4>1, FS_RemoveElement
    <3> QED
      BY <1>1, <1>13, <1>15, <3>1 DEF Well, Registered
  <2>2. TablesOK(done)
    <3>1. TablesOK(d) /\ IsFiniteSet({})
      BY <1>1, FS_EmptySet DEF Well
    <3> SUFFICES ASSUME NEW b \in Clients
                 PROVE  /\ IsFiniteSet(done.tables[b])
                        /\ b \notin done.clients => done.tables[b] = {}
                        /\ OnePerId(done.tables[b])
      BY DEF TablesOK
    <3>2. CASE b = c
      BY <1>10, <1>15, <3>1, <3>2 DEF OnePerId
    <3>3. CASE b # c
      BY <1>10, <1>15, <3>1, <3>3 DEF TablesOK
    <3> QED
      BY <3>2, <3>3
  <2>3. ImportsKnown(done)
    BY <1>1, <1>13, <1>15, <1>16 DEF Well, ImportsKnown
  <2> QED
    BY <1>15, <2>1, <2>2, <2>3 DEF Well
<1>18. Shown(done)
  BY <1>15 DEF Shown
<1>19. Once(d) => Once(done)
  <2> SUFFICES ASSUME Once(d), NEW b \in done.clients \ done.unchecked
               PROVE  \A r \in Of(done, b) : r.key \notin Uncompared =>
                         r.key \in done.hashes[b] /\ \A o \in Of(done, b) : o.key = r.key => o.id = r.id
    BY DEF Once
  <2>1. b \in d.clients \ d.unchecked /\ b \in Clients /\ b # c /\ b # NoClient
    BY <1>15, Fields, NamesAreApart
  <2>2. Of(done, b) \subseteq Of(d, b)
    <3> SUFFICES ASSUME NEW r \in Of(done, b) PROVE r \in Of(d, b)
      OBVIOUS
    <3>1. CASE r \in done.tables[b]
      BY <1>10, <1>15, <2>1, <3>1 DEF Of
    <3>2. ~(done.client = b)
      BY <1>15, <2>1
    <3>3. CASE done.ai # NoRun /\ done.ai.home = b /\ r \in AiRows(done)
      <4>1. AiRows(done) = AiRows(d)
        BY <1>15 DEF AiRows
      <4> QED
        BY <1>15, <3>3, <4>1 DEF Of
    <3>4. CASE r \in Anywhere(done) /\ r.import \in DOMAIN done.history /\ done.history[r.import] = b
      BY <1>13, <1>15, <1>16, <2>1, <3>4 DEF Of
    <3> QED
      BY <3>1, <3>2, <3>3, <3>4 DEF Of
  <2>3. done.hashes[b] = d.hashes[b]
    BY <1>11, <1>15, <2>1
  <2> QED
    BY <2>1, <2>2, <2>3 DEF Once
<1>20. Quiet(d, done, {})
  <2> SUFFICES ASSUME NEW b \in d.clients \cap done.clients
               PROVE  Kept(d.tables[b], done.tables[b], IF b = d.client THEN d.unsaved \cup {} ELSE {})
    BY DEF Quiet
  <2>1. done.tables[b] = d.tables[b]
    BY <1>10, <1>15, Fields
  <2> QED
    BY <2>1 DEF Kept, Matches
<1> QED
  BY <1>1, <1>4, <1>15, <1>17, <1>18, <1>19, <1>20, WriteStep DEF Held, WorkSurvives

\* Rules have no rows.
LEMMA DeleteRuleStep ==
    ASSUME Well(Desk), Shown(Desk), NEW k \in Keys, DeleteRule(k)
    PROVE  Outcome
<1>1. PICK d \in Desks : d = Desk
  BY DEF Well
<1>2. PICK c \in Clients : c = d.client
  BY <1>1, DeskFields, Fields DEF DeleteRule
<1>3. PICK done : done = [d EXCEPT !.rules[c][k] = NoLedger]
  OBVIOUS
<1>4. PICK x : (x = done \/ x \in Faulty(Desk)) /\ Leave(x)
  BY <1>1, <1>2, <1>3, DeskFields DEF DeleteRule, Write
<1>5. PICK rr : rr = [d.rules EXCEPT ![c][k] = NoLedger]
  OBVIOUS
<1>6. done = [d EXCEPT !.rules = rr]
  BY <1>3, <1>5 DEF Desks
<1>7. rr \in [Clients -> [Keys -> {NoLedger, Picked, Suggested}]]
  BY <1>5, Fields
<1>8. Still(d, done)
  BY <1>6, <1>7 DEF Still, Desks
<1> QED
  BY <1>1, <1>4, <1>8, StillHeld, WriteStep

\* Rows of the same ids repeat the same of them.
LEMMA SameTwice ==
    ASSUME NEW old \in Seq(Rows), NEW rows, DOMAIN rows = DOMAIN old,
           \A j \in DOMAIN old : rows[j].id = old[j].id
    PROVE  Twice(rows) = Twice(old)
<1>1. PICK n \in Nat : DOMAIN old = 1..n
  BY SeqRows
<1>2. \A k \in DOMAIN old : \A o \in 1..k - 1 : o \in DOMAIN old
  BY <1>1
<1>3. ASSUME NEW k \in DOMAIN old
      PROVE (\E o \in 1..k - 1 : rows[o].id = rows[k].id) <=>
            (\E o \in 1..k - 1 : old[o].id = old[k].id)
  BY <1>2
<1>4. {k \in DOMAIN rows : \E o \in 1..k - 1 : rows[o].id = rows[k].id} =
      {k \in DOMAIN old : \E o \in 1..k - 1 : old[o].id = old[k].id}
  BY <1>3
<1> DEFINE S == {k \in DOMAIN old : \E o \in 1..k - 1 : old[o].id = old[k].id}
<1>5. Twice(rows) = {rows[k].id : k \in S} /\ Twice(old) = {old[k].id : k \in S}
  BY <1>4, Zenon DEF Twice
<1>6. \A k \in S : rows[k].id = old[k].id
  OBVIOUS
<1> HIDE DEF S
<1> QED
  BY <1>5, <1>6

\* The rows of the screen are classified again and stored.
LEMMA AutoClassifyStep ==
    ASSUME Well(Desk), Shown(Desk), AutoClassify
    PROVE  Outcome
<1>1. PICK d \in Desks : d = Desk
  BY DEF Well
<1>2. PICK rows : rows = classify_all(d.screen, get_rules(d))
  OBVIOUS
<1>3. d.screen \in Seq(Rows)
  BY Fields
<1>4. /\ rows \in Seq(Rows) /\ DOMAIN rows = DOMAIN d.screen
      /\ \A j \in DOMAIN d.screen :
            /\ rows[j].id = d.screen[j].id /\ rows[j].key = d.screen[j].key
            /\ rows[j].import = d.screen[j].import
            /\ d.screen[j].class.source = "user" => rows[j] = d.screen[j]
  BY <1>2, <1>3, RulesTyped, Classified
<1>5. PICK x1 \in upsert_transactions(d, NoImport, rows) : Leave(WithScreen(x1, rows))
  BY <1>1, <1>2, DeskFields DEF AutoClassify, WithScreen
<1>6. PICK x : x = WithScreen(x1, rows) /\ Leave(x)
  BY <1>5
<1>7. Copied(ToSet(rows), ToSet(d.screen))
  BY <1>4 DEF Copied, ToSet
<1>8. Copied(ToSet(rows), Anywhere(d)) /\ Copied(ToSet(rows), Of(d, d.client))
  BY <1>7, ScreenIsOf DEF Copied
<1>9. d.client # NoClient => d.client \in d.clients
  BY <1>1 DEF Well, Registered
<1>10. /\ Moved(d, x) /\ Shown(x)
       /\ \A c \in Clients :
            \/ x.tables[c] = d.tables[c]
            \/ /\ c = d.client
               /\ \A r \in d.tables[c] : r.id \notin Ids(rows) => r \in x.tables[c]
               /\ \A j \in DOMAIN rows : rows[j].id \notin Twice(rows) => rows[j] \in x.tables[c]
  BY <1>1, <1>4, <1>5, <1>6, <1>8, <1>9, Displayed
<1>11. Twice(rows) = Twice(d.screen)
  BY <1>3, <1>4, SameTwice
<1>12. Quiet(d, x, {})
  <2> SUFFICES ASSUME NEW c \in d.clients, NEW r \in d.tables[c], r.class.source = "user",
                      c = d.client => r.id \notin d.unsaved
               PROVE  \E o \in x.tables[c] : Matches(o, r)
    BY DEF Quiet, Kept
  <2>1. c \in Clients /\ c # NoClient
    BY Fields, NamesAreApart
  <2>2. CASE r \in x.tables[c]
    BY <2>2 DEF Matches
  <2>3. CASE r \notin x.tables[c]
    <3>1. /\ c = d.client /\ r.id \in Ids(rows)
          /\ \A j \in DOMAIN rows : rows[j].id \notin Twice(rows) => rows[j] \in x.tables[c]
      BY <1>10, <2>1, <2>3
    <3>2. PICK j \in DOMAIN rows : rows[j].id = r.id
      BY <3>1 DEF Ids
    <3>3. d.screen[j].id = r.id /\ j \in DOMAIN d.screen
      BY <1>4, <3>2
    <3>4. PICK o \in d.tables[c] : Matches(o, d.screen[j])
      BY <1>1, <2>1, <3>1, <3>3 DEF Shown
    <3>5. o = r
      BY <1>1, <2>1, <3>3, <3>4 DEF Well, TablesOK, OnePerId, Matches
    <3>6. Matches(rows[j], r)
      BY <1>4, <3>3, <3>4, <3>5 DEF Matches
    <3>7. rows[j].id \notin Twice(rows)
      BY <1>1, <1>11, <2>1, <3>1, <3>2 DEF Shown
    <3> QED
      BY <3>1, <3>2, <3>6, <3>7
  <2> QED
    BY <2>2, <2>3
<1> QED
  BY <1>1, <1>6, <1>10, <1>12, MovedHeld DEF Outcome, WorkSurvives

\* The thread's copy is of the screen's client, whoever is selected later.
LEMMA AiClassifyStep ==
    ASSUME Well(Desk), Shown(Desk), AiClassify
    PROVE  Outcome
<1>1. PICK d \in Desks : d = Desk
  BY DEF Well
<1>2. PICK x : x = [d EXCEPT !.ai = [rows |-> d.screen, home |-> d.client]] /\ Leave(x)
  BY <1>1, DeskFields DEF AiClassify
<1>3. [rows |-> d.screen, home |-> d.client] \in [rows : Seq(Rows), home : Clients \cup {NoClient}]
  BY Fields
<1>4. Still(d, x)
  BY <1>2, <1>3 DEF Still, Desks
<1> QED
  BY <1>1, <1>2, <1>4, StillHeld DEF Outcome

\* The thread's rows are its copy, but for their classification.
LEMMA AiDoneStep ==
    ASSUME Well(Desk), Shown(Desk), AiDone
    PROVE  Outcome
<1>1. PICK d \in Desks : d = Desk
  BY DEF Well
<1>2. PICK answered \in SUBSET DOMAIN d.ai.rows :
        LET rows == [j \in DOMAIN d.ai.rows |->
                        IF j \in answered /\ is_eligible_for_ai(d.ai.rows[j])
                        THEN [d.ai.rows[j] EXCEPT !.class = Class(Suggested, "classified", "ai")]
                        ELSE d.ai.rows[j]]
            done == [d EXCEPT !.ai = NoRun, !.screen = rows, !.unsaved = {},
                        !.unchecked = IF d.ai.home = d.client THEN @ ELSE @ \cup {d.client}]
        IN  \E x \in upsert_transactions(done, NoImport, rows) : Leave(x)
  BY <1>1, DeskFields DEF AiDone
<1>3. PICK old : old = d.ai.rows
  OBVIOUS
<1>4. d.ai # NoRun /\ old \in Seq(Rows) /\ d.ai.home \in Clients \cup {NoClient}
  BY <1>1, <1>3, DeskFields, Fields DEF AiDone
<1>5. PICK rows : rows = [j \in DOMAIN old |->
                        IF j \in answered /\ is_eligible_for_ai(old[j])
                        THEN [old[j] EXCEPT !.class = Class(Suggested, "classified", "ai")]
                        ELSE old[j]]
  OBVIOUS
<1>6. PICK n \in Nat : DOMAIN old = 1..n /\ \A j \in DOMAIN old : old[j] \in Rows
  BY <1>4, SeqRows
<1>7. /\ DOMAIN rows = DOMAIN old
      /\ \A j \in DOMAIN old : /\ rows[j] \in Rows /\ rows[j].id = old[j].id
                               /\ rows[j].key = old[j].key /\ rows[j].import = old[j].import
  BY <1>5, <1>6, ClassesTyped DEF Rows
<1>8. rows \in Seq(Rows)
  <2>1. rows \in [1..n -> Rows]
    BY <1>5, <1>6, <1>7
  <2> QED
    BY <1>6, <2>1, SeqDef
<1>9. PICK y : y = [d EXCEPT !.ai = NoRun, !.screen = rows, !.unsaved = {},
                        !.unchecked = IF d.ai.home = d.client THEN @ ELSE @ \cup {d.client}]
  OBVIOUS
<1>10. /\ y \in Desks /\ y.clients = d.clients /\ y.born = d.born /\ y.history = d.history
       /\ y.hashes = d.hashes /\ y.tables = d.tables /\ y.ai = NoRun /\ y.client = d.client
       /\ y.screen = rows /\ d.unchecked \subseteq y.unchecked
       /\ d.ai.home # d.client => d.client \in y.unchecked
  BY <1>8, <1>9, Fields, ZenonT(60) DEF Desks
<1>11. PICK x \in upsert_transactions(y, NoImport, rows) : Leave(x)
  BY <1>2, <1>3, <1>5, <1>9
<1>12. TablesOK(y) /\ y.client \in Clients \cup {NoClient} /\ y.clients \subseteq Clients
       /\ (y.client # NoClient => y.client \in d.clients)
  BY <1>1, <1>10, Fields DEF Well, TablesOK, Registered
<1>13. x \in Desks /\ x.screen = rows
  BY <1>8, <1>10, <1>11, <1>12, NoImportIsOne, Upserted DEF Beside
<1>14. x = WithScreen(x, rows)
  BY <1>13 DEF WithScreen, Desks
<1>15. Copied(ToSet(rows), AiRows(d))
  BY <1>3, <1>4, <1>7 DEF Copied, ToSet, AiRows
<1>16. Copied(ToSet(rows), Anywhere(d))
  BY <1>15, Places DEF Copied
<1>17. y.client \in d.clients \ y.unchecked => Copied(ToSet(rows), Of(d, y.client))
  <2> SUFFICES ASSUME d.ai.home = d.client PROVE Copied(ToSet(rows), Of(d, d.client))
    BY <1>10
  <2>1. AiRows(d) \subseteq Of(d, d.client)
    BY <1>4 DEF Of
  <2> QED
    BY <1>15, <2>1 DEF Copied
<1>18. Moved(d, x) /\ Shown(x) /\ x.ai = NoRun
  <2>1. y.ai \in {d.ai, NoRun}
    BY <1>10
  <2> QED
    BY <1>1, <1>8, <1>10, <1>11, <1>12, <1>14, <1>16, <1>17, <2>1, Displayed
<1> QED
  BY <1>1, <1>4, <1>11, <1>18, MovedHeld DEF Outcome, WorkSurvives

\* Only the screen changes, to rows of the client.
LEMMA LookStep ==
    ASSUME NEW d, Well(d), NEW x \in Desks,
           x.clients = d.clients, x.born = d.born, x.history = d.history, x.hashes = d.hashes,
           x.tables = d.tables, x.client = d.client, x.unchecked = d.unchecked, x.ai = d.ai,
           Copied(ToSet(x.screen), Anywhere(d)), Copied(ToSet(x.screen), Of(d, d.client)),
           Shown(x)
    PROVE  Held(d, x) /\ WorkSurvives(d, x)
<1>1. d.client # NoClient => d.client \in d.clients
  BY DEF Well, Registered
<1>2. Moved(d, x)
  BY <1>1 DEF Moved
<1>3. Quiet(d, x, {})
  BY SameTablesQuiet
<1> QED
  BY <1>2, <1>3, MovedHeld DEF WorkSurvives

\* Every row of the client, as stored.
LEMMA LoadAllStep ==
    ASSUME Well(Desk), Shown(Desk), LoadAll
    PROVE  Outcome
<1>1. PICK d \in Desks : d = Desk
  BY DEF Well
<1>2. PICK c \in Clients : c = d.client
  BY <1>1, DeskFields, Fields DEF LoadAll
<1>3. PICK table : table = d.tables[c]
  OBVIOUS
<1>4. table \in SUBSET Rows /\ IsFiniteSet(table) /\ OnePerId(table)
  BY <1>1, <1>2, <1>3, Fields DEF Well, TablesOK
<1>5. PICK rows : rows = SetToSeq(table)
  OBVIOUS
<1>6. /\ rows \in Seq(table)
      /\ \A i \in DOMAIN rows : rows[i] \in table
      /\ \A i, j \in DOMAIN rows : rows[i] = rows[j] => i = j
  BY <1>4, <1>5, Listed
<1>7. rows \in Seq(Rows)
  BY <1>4, <1>6
<1>8. PICK x : x = [d EXCEPT !.screen = rows, !.unsaved = {}] /\ Leave(x)
  BY <1>1, <1>2, <1>3, <1>5, DeskFields DEF LoadAll, get_transactions
<1>9. /\ x \in Desks /\ x.clients = d.clients /\ x.born = d.born /\ x.history = d.history
      /\ x.hashes = d.hashes /\ x.tables = d.tables /\ x.client = d.client
      /\ x.unchecked = d.unchecked /\ x.ai = d.ai /\ x.screen = rows /\ x.unsaved = {}
  BY <1>7, <1>8 DEF Desks
<1>10. \A i, j \in DOMAIN rows : rows[i].id = rows[j].id => i = j
  BY <1>4, <1>6 DEF OnePerId
<1>11. Twice(rows) = {}
  BY <1>7, <1>10, NotTwice
<1>12. Shown(x)
  BY <1>2, <1>3, <1>6, <1>9, <1>11 DEF Shown, Matches
<1>13. ToSet(rows) \subseteq table
  BY <1>6 DEF ToSet
<1>14. Copied(ToSet(rows), Anywhere(d)) /\ Copied(ToSet(rows), Of(d, d.client))
  BY <1>2, <1>3, <1>13, ScreenIsOf, CopiedSubset
<1>15. Held(d, x) /\ WorkSurvives(d, x)
  BY <1>1, <1>9, <1>12, <1>14, LookStep
<1> QED
  BY <1>1, <1>8, <1>9, <1>15 DEF Outcome

\* The rows of an import are its client's, in whichever table they are.
LEMMA ReloadImportStep ==
    ASSUME Well(Desk), Shown(Desk), NEW i \in DOMAIN history, ReloadImport(i)
    PROVE  Outcome
<1>1. PICK d \in Desks : d = Desk
  BY DEF Well
<1>2. PICK c \in Clients : c = d.client
  BY <1>1, DeskFields, Fields DEF ReloadImport
<1>3. i \in DOMAIN d.history /\ d.history[i] = c
  BY <1>1, <1>2, DeskFields DEF ReloadImport
<1>4. PICK named : named = {r \in UNION {d.tables[b] : b \in d.clients} : r.import = i}
  OBVIOUS
<1>5. d.clients \subseteq Clients
  BY Fields
<1>6. \A r \in named : r.import = i /\ \E b \in Clients : r \in d.tables[b]
  BY <1>4, <1>5
<1>7. named \subseteq Rows
  BY <1>6, Fields
<1>8. IsFiniteSet(named)
  <2>1. IsFiniteSet(d.clients) /\ \A b \in d.clients : IsFiniteSet(d.tables[b])
    BY <1>1, <1>5 DEF Well, Registered, TablesOK
  <2>2. PICK all : all = UNION {d.tables[b] : b \in d.clients}
    OBVIOUS
  <2>3. PICK t : t = d.tables
    OBVIOUS
  <2>4. IsFiniteSet(d.clients) /\ \A b \in d.clients : IsFiniteSet(t[b])
    BY <2>1, <2>3
  <2>5. IsFiniteSet(UNION {t[b] : b \in d.clients})
    BY <2>4, FiniteUnion
  <2>6. IsFiniteSet(all)
    BY <2>2, <2>3, <2>5
  <2>7. named \in SUBSET all
    BY <1>4, <2>2
  <2> QED
    BY <2>6, <2>7, FS_Subset
<1>9. PICK rows : rows = SetToSeq(named)
  OBVIOUS
<1>10. rows \in Seq(named) /\ \A j \in DOMAIN rows : rows[j] \in named
  BY <1>8, <1>9, Listed
<1>11. rows \in Seq(Rows)
  BY <1>7, <1>10
<1>12. PICK lost : lost = {r.id : r \in ToSet(rows) \ d.tables[c]} \cup Twice(rows)
  OBVIOUS
<1>13. PICK x : x = [d EXCEPT !.screen = rows, !.unsaved = lost] /\ Leave(x)
  <2>1. get_transactions_for_import(d, i) = rows
    BY <1>4, <1>9 DEF get_transactions_for_import
  <2>2. Leave([Desk EXCEPT !.screen = rows,
                   !.unsaved = {r.id : r \in ToSet(rows) \ tables[client]} \cup Twice(rows)])
    BY <1>1, <2>1 DEF ReloadImport
  <2>3. {r.id : r \in ToSet(rows) \ tables[client]} \cup Twice(rows) = lost
    BY <1>1, <1>2, <1>12, DeskFields
  <2>4. Leave([Desk EXCEPT !.screen = rows, !.unsaved = lost])
    BY <2>2, <2>3
  <2> QED
    BY <1>1, <2>4
<1>14. lost \in SUBSET RowIds
  <2>1. \A r \in ToSet(rows) : r.id \in RowIds
    BY <1>11, SeqRows DEF Rows
  <2>2. Twice(rows) \subseteq RowIds
    BY <1>11, SeqRows
  <2> QED
    BY <1>12, <2>1, <2>2
<1>15. /\ x \in Desks /\ x.clients = d.clients /\ x.born = d.born /\ x.history = d.history
       /\ x.hashes = d.hashes /\ x.tables = d.tables /\ x.client = d.client
       /\ x.unchecked = d.unchecked /\ x.ai = d.ai /\ x.screen = rows /\ x.unsaved = lost
  BY <1>11, <1>13, <1>14 DEF Desks
<1>16. Shown(x)
  <2>1. \A j \in DOMAIN rows : rows[j].id \notin lost => rows[j] \in d.tables[c]
    BY <1>12 DEF ToSet
  <2>2. Twice(rows) \subseteq lost
    BY <1>12
  <2> QED
    BY <1>2, <1>15, <2>1, <2>2 DEF Shown, Matches
<1>17. ToSet(rows) \subseteq Anywhere(d)
  BY <1>6, <1>10, Places DEF ToSet
<1>18. ToSet(rows) \subseteq Of(d, c)
  <2>1. \A r \in ToSet(rows) : r.import = i
    BY <1>6, <1>10 DEF ToSet
  <2> QED
    BY <1>3, <1>17, <2>1 DEF Of
<1>19. Copied(ToSet(rows), Anywhere(d)) /\ Copied(ToSet(rows), Of(d, d.client))
  BY <1>2, <1>17, <1>18, CopiedSubset
<1>20. Held(d, x) /\ WorkSurvives(d, x)
  BY <1>1, <1>15, <1>16, <1>19, LookStep
<1> QED
  BY <1>1, <1>13, <1>15, <1>20 DEF Outcome

\* Only the copy on the screen is marked.
LEMMA MarkSuspenseStep ==
    ASSUME Well(Desk), Shown(Desk), NEW j \in DOMAIN screen, MarkSuspense(j)
    PROVE  Outcome
<1>1. PICK d \in Desks : d = Desk
  BY DEF Well
<1>2. d.screen \in Seq(Rows) /\ j \in DOMAIN d.screen
  BY <1>1, DeskFields, Fields
<1>3. PICK x : x = [d EXCEPT !.screen[j].class.status = "suspense", !.unsaved = @ \cup {d.screen[j].id}]
               /\ Leave(x)
  BY <1>1, DeskFields DEF MarkSuspense
<1>4. PICK n \in Nat : DOMAIN d.screen = 1..n /\ \A k \in 1..n : d.screen[k] \in Rows
  BY <1>2, SeqRows
<1>5. PICK rows : rows = [d.screen EXCEPT ![j].class.status = "suspense"]
  OBVIOUS
<1>6. /\ DOMAIN rows = DOMAIN d.screen
      /\ \A k \in DOMAIN d.screen : /\ rows[k] \in Rows
                                    /\ rows[k].id = d.screen[k].id /\ rows[k].key = d.screen[k].key
                                    /\ rows[k].import = d.screen[k].import
                                    /\ k # j => rows[k] = d.screen[k]
  <2>1. DOMAIN rows = DOMAIN d.screen /\ \A k \in DOMAIN d.screen : k # j => rows[k] = d.screen[k]
    BY <1>2, <1>5
  <2>2. rows[j] = [d.screen[j] EXCEPT !.class.status = "suspense"] /\ d.screen[j] \in Rows
    BY <1>2, <1>4, <1>5
  <2>3. /\ rows[j] \in Rows /\ rows[j].id = d.screen[j].id /\ rows[j].key = d.screen[j].key
        /\ rows[j].import = d.screen[j].import
    BY <2>2, ZenonT(60) DEF Rows, Classes
  <2> QED
    BY <1>4, <2>1, <2>3
<1>7. rows \in Seq(Rows)
  <2>1. rows \in [1..n -> Rows]
    BY <1>4, <1>5, <1>6
  <2> QED
    BY <2>1, SeqDef
<1>8. x = [d EXCEPT !.screen = rows, !.unsaved = @ \cup {d.screen[j].id}]
  BY <1>3, <1>5 DEF Desks
<1>9. d.screen[j].id \in RowIds
  BY <1>2, <1>4 DEF Rows
<1>10. /\ x \in Desks /\ x.clients = d.clients /\ x.born = d.born /\ x.history = d.history
       /\ x.hashes = d.hashes /\ x.tables = d.tables /\ x.client = d.client
       /\ x.unchecked = d.unchecked /\ x.ai = d.ai /\ x.screen = rows
       /\ x.unsaved = d.unsaved \cup {d.screen[j].id}
  BY <1>7, <1>8, <1>9 DEF Desks
<1>11. Twice(rows) = Twice(d.screen)
  BY <1>2, <1>6, SameTwice
<1>12. Shown(x)
  <2>1. \A k \in DOMAIN rows : rows[k].id \notin x.unsaved =>
           rows[k] = d.screen[k] /\ d.screen[k].id \notin d.unsaved
    BY <1>6, <1>10
  <2> QED
    BY <1>1, <1>6, <1>10, <1>11, <2>1 DEF Shown
<1>13. Copied(ToSet(rows), ToSet(d.screen))
  BY <1>6 DEF Copied, ToSet
<1>14. Copied(ToSet(rows), Anywhere(d)) /\ Copied(ToSet(rows), Of(d, d.client))
  BY <1>13, ScreenIsOf DEF Copied
<1>15. Held(d, x) /\ WorkSurvives(d, x)
  BY <1>1, <1>10, <1>12, <1>14, LookStep
<1> QED
  BY <1>1, <1>3, <1>10, <1>15 DEF Outcome

\* The import is gone and no row names it: what was of its client through it
\* is of the client no longer.
LEMMA DeleteImportStep ==
    ASSUME Well(Desk), Shown(Desk), NEW i \in DOMAIN history, DeleteImport(i)
    PROVE  Outcome
<1>1. PICK d \in Desks : d = Desk
  BY DEF Well
<1>2. PICK done : done = [d EXCEPT !.history[i] = NoClient]
  OBVIOUS
<1>3. PICK x : (x = done \/ x \in Faulty(Desk)) /\ Leave(x)
  BY <1>1, <1>2 DEF DeleteImport, Write
<1>4. PICK past : past = [d.history EXCEPT ![i] = NoClient]
  OBVIOUS
<1>5. done = [d EXCEPT !.history = past]
  BY <1>2, <1>4 DEF Desks
<1>6. d.history \in Seq(Clients \cup {NoClient}) /\ i \in DOMAIN d.history
  BY <1>1, DeskFields, Fields
<1>7. /\ past \in Seq(Clients \cup {NoClient}) /\ DOMAIN past = DOMAIN d.history
      /\ \A k \in DOMAIN past : past[k] # NoClient => past[k] = d.history[k]
  BY <1>4, <1>6, ExceptSeq
<1>8. /\ done \in Desks /\ done.clients = d.clients /\ done.born = d.born /\ done.history = past
      /\ done.hashes = d.hashes /\ done.tables = d.tables /\ done.client = d.client
      /\ done.unchecked = d.unchecked /\ done.ai = d.ai /\ done.screen = d.screen
      /\ done.unsaved = d.unsaved
  BY <1>5, <1>7 DEF Desks
<1>9. AiRows(done) = AiRows(d)
  BY <1>8 DEF AiRows
<1>10. \A r : r \in Anywhere(done) <=> r \in Anywhere(d)
  BY <1>8, <1>9, Places
<1>11. Well(done)
  <2>1. Registered(done)
    BY <1>1, <1>7, <1>8 DEF Well, Registered
  <2>2. TablesOK(done)
    BY <1>1, <1>8 DEF Well, TablesOK
  <2>3. ImportsKnown(done)
    BY <1>1, <1>7, <1>8, <1>10 DEF Well, ImportsKnown
  <2> QED
    BY <1>8, <2>1, <2>2, <2>3 DEF Well
<1>12. Shown(done)
  BY <1>1, <1>8 DEF Shown
<1>13. Once(d) => Once(done)
  <2> SUFFICES ASSUME Once(d), NEW c \in done.clients \ done.unchecked
               PROVE  \A r \in Of(done, c) : r.key \notin Uncompared =>
                         r.key \in done.hashes[c] /\ \A o \in Of(done, c) : o.key = r.key => o.id = r.id
    BY DEF Once
  <2>1. c # NoClient /\ c \in d.clients \ d.unchecked
    BY <1>8, Fields, NamesAreApart
  <2>2. Of(done, c) \subseteq Of(d, c)
    <3> SUFFICES ASSUME NEW r \in Of(done, c) PROVE r \in Of(d, c)
      OBVIOUS
    <3>1. CASE r \in done.tables[c] \/ (done.client = c /\ r \in ToSet(done.screen))
      BY <1>8, <3>1 DEF Of
    <3>2. CASE done.ai # NoRun /\ done.ai.home = c /\ r \in AiRows(done)
      BY <1>8, <1>9, <3>2 DEF Of
    <3>3. CASE r \in Anywhere(done) /\ r.import \in DOMAIN done.history /\ done.history[r.import] = c
      BY <1>7, <1>8, <1>10, <2>1, <3>3 DEF Of
    <3> QED
      BY <3>1, <3>2, <3>3 DEF Of
  <2> QED
    BY <1>8, <2>1, <2>2 DEF Once
<1>14. WorkSurvives(d, done)
  BY <1>8, SameTablesQuiet DEF WorkSurvives
<1> QED
  BY <1>1, <1>3, <1>8, <1>11, <1>12, <1>13, <1>14, WriteStep DEF Held

\* The hashes are forgotten: from now on the client is not checked.
LEMMA ResetDedupeStep ==
    ASSUME Well(Desk), Shown(Desk), ResetDedupe
    PROVE  Outcome
<1>1. PICK d \in Desks : d = Desk
  BY DEF Well
<1>2. PICK c \in Clients : c = d.client
  BY <1>1, DeskFields, Fields DEF ResetDedupe
<1>3. PICK done : done = [d EXCEPT !.hashes[c] = {}, !.unchecked = @ \cup {c}]
  OBVIOUS
<1>4. PICK x : (x = done \/ x \in Faulty(Desk)) /\ Leave(x)
  BY <1>1, <1>2, <1>3, DeskFields DEF ResetDedupe, Write
<1>5. PICK hh : hh = [d.hashes EXCEPT ![c] = {}]
  OBVIOUS
<1>6. done = [d EXCEPT !.hashes = hh, !.unchecked = @ \cup {c}]
  BY <1>3, <1>5 DEF Desks
<1>7. hh \in [Clients -> SUBSET Keys] /\ \A b \in Clients : b # c => hh[b] = d.hashes[b]
  BY <1>5, Fields
<1>8. /\ done \in Desks /\ done.clients = d.clients /\ done.born = d.born /\ done.history = d.history
      /\ done.hashes = hh /\ done.tables = d.tables /\ done.client = d.client
      /\ done.unchecked = d.unchecked \cup {c} /\ done.ai = d.ai /\ done.screen = d.screen
      /\ done.unsaved = d.unsaved
  BY <1>6, <1>7 DEF Desks
<1>9. Well(done)
  BY <1>1, <1>8, SameWell
<1>10. Shown(done)
  BY <1>1, <1>8 DEF Shown
<1>11. Once(d) => Once(done)
  <2>1. \A b : Of(done, b) = Of(d, b)
    BY <1>8, SameRows
  <2>2. \A b \in done.clients \ done.unchecked :
           b \in d.clients \ d.unchecked /\ done.hashes[b] = d.hashes[b]
    BY <1>7, <1>8, Fields
  <2> QED
    BY <2>1, <2>2 DEF Once
<1>12. WorkSurvives(d, done)
  BY <1>8, SameTablesQuiet DEF WorkSurvives
<1> QED
  BY <1>1, <1>4, <1>8, <1>9, <1>10, <1>11, <1>12, WriteStep DEF Held

-----------------------------------------------------------------------------
\* A row of the screen is replaced by one that differs in its classification.
LEMMA PutRow ==
    ASSUME NEW rows \in Seq(Rows), NEW j \in DOMAIN rows, NEW r \in Rows
    PROVE  /\ [rows EXCEPT ![j] = r] \in Seq(Rows)
           /\ DOMAIN [rows EXCEPT ![j] = r] = DOMAIN rows
           /\ [rows EXCEPT ![j] = r][j] = r
           /\ \A k \in DOMAIN rows : k # j => [rows EXCEPT ![j] = r][k] = rows[k]
BY ExceptSeq

\* A row classified anew is the same row.
LEMMA RowIsTyped ==
    ASSUME NEW r \in Rows, NEW class \in Classes
    PROVE  /\ [r EXCEPT !.class = class] \in Rows
           /\ [r EXCEPT !.class = class].id = r.id /\ [r EXCEPT !.class = class].key = r.key
           /\ [r EXCEPT !.class = class].import = r.import
BY DEF Rows

\* A row of the screen classified by the user, and perhaps a rule learned.
LEMMA SaveTxnStep ==
    ASSUME Well(Desk), Shown(Desk), NEW j \in DOMAIN screen, NEW learn \in BOOLEAN, SaveTxn(j, learn),
           edits \in Nat
    PROVE  Outcome
<1>1. PICK d \in Desks : d = Desk
  BY DEF Well
<1>2. d.screen \in Seq(Rows) /\ j \in DOMAIN d.screen /\ d.undo \in Seq([id : RowIds, class : Classes])
  BY <1>1, DeskFields, Fields
<1>3. d.screen[j] \in Rows
  BY <1>2, SeqRows
<1>4. PICK r : r = [d.screen[j] EXCEPT !.class = ByUser(Picked)]
  OBVIOUS
<1>5. r \in Rows /\ r.id = d.screen[j].id /\ r.key = d.screen[j].key /\ r.import = d.screen[j].import
  BY <1>3, <1>4, ClassesTyped, RowIsTyped
<1>6. PICK shown : shown = [d EXCEPT !.screen[j] = r,
                              !.undo = Append(@, [id |-> r.id, class |-> d.screen[j].class])]
  OBVIOUS
<1>7. PICK y \in (IF learn THEN add_rule(shown, r) ELSE {shown}) :
         \E x \in upsert_transaction_classification(y, r) : Leave(x)
  BY <1>1, <1>4, <1>6, DeskFields DEF SaveTxn
<1>8. PICK x \in upsert_transaction_classification(y, r) : Leave(x)
  BY <1>7
<1>9. PICK rows : rows = [d.screen EXCEPT ![j] = r]
  OBVIOUS
<1>10. /\ rows \in Seq(Rows) /\ DOMAIN rows = DOMAIN d.screen /\ rows[j] = r
       /\ \A k \in DOMAIN d.screen : k # j => rows[k] = d.screen[k]
  BY <1>2, <1>5, <1>9, PutRow
<1>11. PICK undone : undone = Append(d.undo, [id |-> r.id, class |-> d.screen[j].class])
  OBVIOUS
<1>12. undone \in Seq([id : RowIds, class : Classes])
  <2>1. [id |-> r.id, class |-> d.screen[j].class] \in [id : RowIds, class : Classes]
    BY <1>3, <1>5 DEF Rows
  <2> QED
    BY <1>2, <1>11, <2>1, AppendProperties
<1>13. shown = [d EXCEPT !.screen = rows, !.undo = undone]
  BY <1>6, <1>9, <1>11 DEF Desks
<1>14. /\ shown \in Desks /\ shown.tables = d.tables /\ shown.client = d.client
       /\ shown.clients = d.clients /\ shown.born = d.born /\ shown.history = d.history
       /\ shown.hashes = d.hashes /\ shown.unsaved = d.unsaved /\ shown.unchecked = d.unchecked
       /\ shown.ai = d.ai /\ shown.screen = rows
  BY <1>10, <1>12, <1>13 DEF Desks
<1>15. /\ y \in Desks /\ y.tables = d.tables /\ y.client = d.client
       /\ y.clients = d.clients /\ y.born = d.born /\ y.history = d.history
       /\ y.hashes = d.hashes /\ y.unsaved = d.unsaved /\ y.unchecked = d.unchecked
       /\ y.ai = d.ai /\ y.screen = rows
  <2>1. CASE y = shown
    BY <1>14, <2>1
  <2>2. CASE y \in Faulty(shown)
    BY <1>14, <2>2, FaultyDesk DEF Beside
  <2>3. CASE /\ shown.client # NoClient
             /\ y = [shown EXCEPT !.rules[shown.client][r.key] = r.class.ledger]
    <3>1. PICK rr : rr = [shown.rules EXCEPT ![shown.client][r.key] = r.class.ledger]
      OBVIOUS
    <3>2. r.class.ledger = Picked
      BY <1>3, <1>4 DEF Rows, ByUser, Class
    <3>3. rr \in [Clients -> [Keys -> {NoLedger, Picked, Suggested}]]
      BY <1>14, <3>1, <3>2, Fields
    <3>4. y = [shown EXCEPT !.rules = rr]
      BY <1>14, <2>3, <3>1 DEF Desks
    <3> QED
      BY <1>14, <3>3, <3>4 DEF Desks
  <2>4. y = shown \/ y \in Faulty(shown) \/
          (shown.client # NoClient /\ y = [shown EXCEPT !.rules[shown.client][r.key] = r.class.ledger])
    BY <1>7 DEF add_rule, Write
  <2> QED
    BY <2>1, <2>2, <2>3, <2>4
<1>16. Moved(d, x) /\ Shown(x) /\ Quiet(d, x, {r.id})
  BY <1>1, <1>2, <1>5, <1>8, <1>10, <1>15, ReclassStep
<1>17. edits' # edits
  BY DEF SaveTxn, Edited
<1>18. Held(d, x) /\ x \in Desks /\ WorkSurvives(d, x)
  BY <1>1, <1>16, <1>17, MovedHeld DEF WorkSurvives
<1> QED
  BY <1>1, <1>8, <1>18 DEF Outcome

\* Vec::pop takes an entry from the stack.
LEMMA LastAndFront ==
    ASSUME NEW E, NEW s \in Seq(E), s # <<>>
    PROVE  Last(s) \in E /\ Front(s) \in Seq(E) /\ Front(s) # s
<1>1. Len(s) \in Nat /\ Len(s) # 0
  BY LenProperties, EmptySeq
<1>2. Last(s) \in E
  BY <1>1, ElementOfSeq DEF Last
<1>3. PICK f : f = SubSeq(s, 1, Len(s) - 1)
  OBVIOUS
<1>4. f \in Seq(E) /\ Len(f) = Len(s) - 1
  <2>1. PICK n \in Nat : n = Len(s) - 1 /\ n <= Len(s)
    <3>1. \A k \in Nat : k # 0 => k - 1 \in Nat /\ k - 1 <= k
      OBVIOUS
    <3>2. Len(s) - 1 \in Nat /\ Len(s) - 1 <= Len(s)
      BY <1>1, <3>1
    <3> QED
      BY <3>2
  <2>2. SubSeq(s, 1, n) \in Seq(E) /\ Len(SubSeq(s, 1, n)) = n
    BY <1>1, <2>1
  <2> QED
    BY <1>3, <2>1, <2>2
<1>5. Front(s) = f
  BY <1>3 DEF Front
<1> QED
  BY <1>1, <1>2, <1>4, <1>5

\* The entry leaves the stack; the first row of its id gets its classification.
LEMMA UndoLastEditStep ==
    ASSUME Well(Desk), Shown(Desk), UndoLastEdit
    PROVE  Outcome
<1>1. PICK d \in Desks : d = Desk
  BY DEF Well
<1>2. d.screen \in Seq(Rows) /\ d.undo \in Seq([id : RowIds, class : Classes]) /\ d.undo # <<>>
  BY <1>1, DeskFields, Fields DEF UndoLastEdit
<1>3. PICK entry : entry = Last(d.undo)
  OBVIOUS
<1>4. PICK rest : rest = Front(d.undo)
  OBVIOUS
<1>5. /\ entry \in [id : RowIds, class : Classes]
      /\ rest \in Seq([id : RowIds, class : Classes]) /\ rest # d.undo
  <2>1. PICK E : E = [id : RowIds, class : Classes]
    OBVIOUS
  <2>2. PICK s \in Seq(E) : s = d.undo
    BY <1>2, <2>1
  <2> QED
    BY <1>2, <1>3, <1>4, <2>1, <2>2, LastAndFront
<1>6. PICK popped : popped = [d EXCEPT !.undo = rest]
  OBVIOUS
<1>7. popped \in Desks
  BY <1>5, <1>6 DEF Desks
<1>8. PICK at : at = {j \in DOMAIN d.screen : d.screen[j].id = entry.id}
  OBVIOUS
<1>9. CASE at = {}
  <2>1. Leave(popped)
    BY <1>1, <1>3, <1>4, <1>6, <1>8, <1>9, DeskFields DEF UndoLastEdit
  <2>2. Still(d, popped)
    BY <1>6, <1>7 DEF Still, Desks
  <2> QED
    BY <1>1, <2>1, <2>2, StillHeld DEF Outcome
<1>10. CASE at # {}
  <2>1. PICK n \in Nat : DOMAIN d.screen = 1..n /\ \A k \in 1..n : d.screen[k] \in Rows
    BY <1>2, SeqRows
  <2>2. PICK j \in DOMAIN d.screen : j = Min(at) /\ j \in at
    <3>1. at \in SUBSET Nat
      BY <1>8, <2>1
    <3>2. Min(at) \in at
      BY <1>10, <3>1, MinIsOne
    <3> QED
      BY <1>8, <3>2
  <2>3. PICK class : class = [entry.class EXCEPT !.source = d.screen[j].class.source]
    OBVIOUS
  <2>4. class \in Classes /\ d.screen[j] \in Rows
    BY <1>5, <2>1, <2>3 DEF Rows, Classes
  <2>5. PICK r : r = [d.screen[j] EXCEPT !.class = class]
    OBVIOUS
  <2>6. r \in Rows /\ r.id = d.screen[j].id /\ r.key = d.screen[j].key /\ r.import = d.screen[j].import
    BY <2>4, <2>5, RowIsTyped
  <2>7. PICK y : y = [popped EXCEPT !.screen[j] = r]
    OBVIOUS
  <2>8. PICK x \in upsert_transaction_classification(y, r) : Leave(x)
    BY <1>1, <1>3, <1>4, <1>6, <1>8, <1>10, <2>2, <2>3, <2>5, <2>7, DeskFields DEF UndoLastEdit
  <2>9. PICK rows : rows = [d.screen EXCEPT ![j] = r]
    OBVIOUS
  <2>10. /\ rows \in Seq(Rows) /\ DOMAIN rows = DOMAIN d.screen /\ rows[j] = r
         /\ \A k \in DOMAIN d.screen : k # j => rows[k] = d.screen[k]
    BY <1>2, <2>6, <2>9, PutRow
  <2>11. popped.screen = d.screen
    BY <1>6 DEF Desks
  <2>12. y = [popped EXCEPT !.screen = rows]
    BY <1>7, <2>7, <2>9, <2>11 DEF Desks
  <2>13. /\ y \in Desks /\ y.tables = d.tables /\ y.client = d.client
         /\ y.clients = d.clients /\ y.born = d.born /\ y.history = d.history
         /\ y.hashes = d.hashes /\ y.unsaved = d.unsaved /\ y.unchecked = d.unchecked
         /\ y.ai = d.ai /\ y.screen = rows /\ y.undo = rest
    BY <1>6, <1>7, <2>10, <2>12 DEF Desks
  <2>14. Moved(d, x) /\ Shown(x) /\ Quiet(d, x, {r.id})
    <3>1. Well(d) /\ Shown(d) /\ j \in DOMAIN d.screen /\ DOMAIN y.screen = DOMAIN d.screen
      BY <1>1, <2>2, <2>10, <2>13
    <3>2. y.screen[j] = r /\ \A k \in DOMAIN d.screen : k # j => y.screen[k] = d.screen[k]
      BY <2>10, <2>13
    <3> QED
      BY <2>6, <2>8, <2>13, <3>1, <3>2, ReclassStep
  <2>15. x.undo # d.undo
    <3>1. Beside(y, x)
      <4>1. TablesOK(y) /\ (y.client # NoClient => y.client \in y.clients)
        BY <1>1, <2>13 DEF Well, TablesOK, Registered
      <4> QED
        BY <2>6, <2>8, <2>13, <4>1, Reclassified
    <3> QED
      BY <1>5, <2>13, <3>1 DEF Beside
  <2>16. Held(d, x) /\ x \in Desks /\ WorkSurvives(d, x)
    BY <1>1, <2>14, <2>15, MovedHeld DEF WorkSurvives
  <2> QED
    BY <1>1, <2>8, <2>16 DEF Outcome
<1> QED
  BY <1>9, <1>10

-----------------------------------------------------------------------------
\* A row goes from the screen, and every row of its id from the table.
LEMMA DeleteTxnStep ==
    ASSUME Well(Desk), Shown(Desk), NEW j \in DOMAIN screen, DeleteTxn(j), edits \in Nat
    PROVE  Outcome
<1>1. PICK d \in Desks : d = Desk
  BY DEF Well
<1>2. d.screen \in Seq(Rows) /\ j \in DOMAIN d.screen
  BY <1>1, DeskFields, Fields
<1>3. PICK n \in Nat : DOMAIN d.screen = 1..n /\ \A k \in 1..n : d.screen[k] \in Rows
  BY <1>2, SeqRows
<1>4. PICK i \in RowIds : i = d.screen[j].id
  BY <1>2, <1>3 DEF Rows
<1>5. PICK rows : rows = RemoveAt(d.screen, j)
  OBVIOUS
<1>6. /\ \A k \in DOMAIN rows : \E m \in DOMAIN d.screen : m # j /\ rows[k] = d.screen[m]
      /\ \A l, k \in DOMAIN rows : l < k =>
            \E m, p \in DOMAIN d.screen : m < p /\ rows[l] = d.screen[m] /\ rows[k] = d.screen[p]
  <2>1. LeftOf(rows, d.screen, j)
    BY <1>2, <1>5, Removed
  <2> QED
    BY <2>1, Zenon DEF LeftOf
<1>7. rows \in Seq(Rows)
  BY <1>2, <1>5, Removed
<1>8. PICK gone \in SUBSET RowIds : gone = IF i \in Twice(d.screen) THEN d.unsaved \cup {i} ELSE d.unsaved
  BY Fields
<1>9. PICK shown : shown = [d EXCEPT !.screen = rows, !.unsaved = gone]
  OBVIOUS
<1>10. /\ shown \in Desks /\ shown.clients = d.clients /\ shown.born = d.born
       /\ shown.history = d.history /\ shown.hashes = d.hashes /\ shown.tables = d.tables
       /\ shown.client = d.client /\ shown.unchecked = d.unchecked /\ shown.ai = d.ai
       /\ shown.screen = rows /\ shown.unsaved = gone
  BY <1>7, <1>8, <1>9 DEF Desks
<1>11. /\ client = NoClient => Leave(shown)
       /\ client # NoClient => \E x : /\ Leave(x)
                                      /\ \/ x = [shown EXCEPT !.tables[client] = {r \in @ : r.id # i}]
                                         \/ x \in Faulty(shown)
  <2>1. shown = [Desk EXCEPT !.screen = RemoveAt(@, j),
                             !.unsaved = IF i \in Twice(screen) THEN @ \cup {i} ELSE @]
    <3>1. Desk.screen = d.screen /\ Desk.unsaved = d.unsaved /\ screen = d.screen
      BY <1>1, DeskFields
    <3> QED
      BY <1>1, <1>5, <1>8, <1>9, <3>1
  <2>2. screen[j].id = i
    BY <1>1, <1>4, DeskFields
  <2> QED
    BY <2>1, <2>2 DEF DeleteTxn, Write
<1>12. Twice(rows) \subseteq Twice(d.screen)
  <2> SUFFICES ASSUME NEW k \in DOMAIN rows, NEW l \in 1..k - 1, rows[l].id = rows[k].id
               PROVE  rows[k].id \in Twice(d.screen)
    BY DEF Twice
  <2>1. PICK m \in Nat : DOMAIN rows = 1..m
    BY <1>7, SeqRows
  <2>2. l \in DOMAIN rows /\ l < k
    BY <2>1
  <2>3. PICK o, p \in DOMAIN d.screen : o < p /\ rows[l] = d.screen[o] /\ rows[k] = d.screen[p]
    BY <1>6, <2>2
  <2>4. o \in 1..p - 1 /\ d.screen[o].id = d.screen[p].id
    BY <1>3, <2>3
  <2> QED
    BY <2>3, <2>4 DEF Twice
<1>13. \A k \in DOMAIN rows : rows[k].id = i => i \in Twice(d.screen)
  <2> SUFFICES ASSUME NEW k \in DOMAIN rows, rows[k].id = i PROVE i \in Twice(d.screen)
    OBVIOUS
  <2>1. PICK m \in DOMAIN d.screen : m # j /\ d.screen[m].id = d.screen[j].id
    BY <1>4, <1>6
  <2> QED
    BY <1>2, <1>4, <2>1, TwiceIsTwo
<1>14. d.unsaved \subseteq gone /\ (i \in Twice(d.screen) => i \in gone)
  BY <1>8
<1>15. d.client # NoClient =>
         /\ Twice(rows) \subseteq gone
         /\ \A k \in DOMAIN rows : rows[k].id \notin gone =>
               rows[k].id # i /\ \E r \in d.tables[d.client] : Matches(r, rows[k])
  BY <1>1, <1>6, <1>12, <1>13, <1>14 DEF Shown
<1>16. Shown(shown)
  BY <1>10, <1>15 DEF Shown
<1>17. ToSet(rows) \subseteq ToSet(d.screen)
  BY <1>6 DEF ToSet
<1>18. Copied(ToSet(rows), Anywhere(d)) /\ Copied(ToSet(rows), Of(d, d.client))
  BY <1>17, ScreenIsOf, CopiedSubset
<1>19. Held(d, shown) /\ WorkSurvives(d, shown)
  BY <1>1, <1>10, <1>16, <1>18, LookStep
<1>20. CASE client = NoClient
  BY <1>1, <1>10, <1>11, <1>19, <1>20 DEF Outcome
<1>21. CASE client # NoClient
  <2>1. PICK c \in Clients : c = d.client /\ c = client /\ c # NoClient
    BY <1>1, <1>21, DeskFields, Fields
  <2>2. PICK x : Leave(x) /\ (x = [shown EXCEPT !.tables[c] = {r \in @ : r.id # i}] \/ x \in Faulty(shown))
    BY <1>11, <1>21, <2>1
  <2>3. CASE x \in Faulty(shown)
    <3>1. Still(shown, x)
      BY <1>10, <2>3, FaultyStill
    <3>2. x \in Desks /\ Held(shown, x) /\ x.tables = shown.tables
      BY <1>19, <3>1, StillHeld DEF Held, Still
    <3>3. WorkSurvives(d, x)
      BY <1>10, <3>2, SameTablesQuiet DEF WorkSurvives
    <3> QED
      BY <1>1, <1>19, <2>2, <3>2, <3>3 DEF Outcome, Held
  <2>4. CASE x = [shown EXCEPT !.tables[c] = {r \in @ : r.id # i}]
    <3>1. PICK old \in SUBSET Rows : old = d.tables[c]
      BY Fields
    <3>2. IsFiniteSet(old) /\ OnePerId(old) /\ TablesOK(d)
      BY <1>1, <3>1 DEF Well, TablesOK
    <3>3. PICK new \in SUBSET old : new = {r \in old : r.id # i}
      OBVIOUS
    <3>4. IsFiniteSet(new) /\ OnePerId(new) /\ \A r \in new : r.id # i
      BY <3>2, <3>3, FS_Subset DEF OnePerId
    <3>5. PICK t : t = [d.tables EXCEPT ![c] = new]
      OBVIOUS
    <3>6. /\ t \in [Clients -> SUBSET Rows] /\ t[c] = new /\ \A b \in Clients : b # c => t[b] = d.tables[b]
      BY <3>5, Fields
    <3>7. x = [shown EXCEPT !.tables = t]
      BY <1>10, <2>4, <3>1, <3>3, <3>5 DEF Desks
    <3>8. /\ x \in Desks /\ x.clients = d.clients /\ x.born = d.born
          /\ x.history = d.history /\ x.hashes = d.hashes /\ x.tables = t
          /\ x.client = d.client /\ x.unchecked = d.unchecked /\ x.ai = d.ai
          /\ x.screen = rows /\ x.unsaved = gone
      BY <1>10, <3>6, <3>7 DEF Desks
    <3>9. c \in d.clients
      BY <1>1, <2>1 DEF Well, Registered
    <3>10. Moved(d, x)
      <4>1. Copied(new, old \cup ToSet(rows))
        BY <3>3 DEF Copied
      <4> QED
        BY <1>18, <2>1, <3>1, <3>4, <3>6, <3>8, <3>9, <4>1 DEF Moved
    <3>11. Shown(x)
      <4>1. \A k \in DOMAIN rows : rows[k].id \notin gone => \E r \in new : Matches(r, rows[k])
        BY <1>15, <2>1, <3>1, <3>3 DEF Matches
      <4> QED
        BY <1>15, <2>1, <3>6, <3>8, <4>1 DEF Shown
    <3>12. Quiet(d, x, {i})
      <4> SUFFICES ASSUME NEW b \in d.clients
                   PROVE  Kept(d.tables[b], x.tables[b], IF b = d.client THEN d.unsaved \cup {i} ELSE {})
        BY DEF Quiet
      <4>1. CASE b = c
        BY <2>1, <3>1, <3>3, <3>6, <3>8, <4>1 DEF Kept, Matches
      <4>2. CASE b # c
        BY <2>1, <3>6, <3>8, <4>2, Fields DEF Kept, Matches
      <4> QED
        BY <4>1, <4>2
    <3>13. edits' # edits
      <4>1. Edited
        BY DEF DeleteTxn
      <4> QED
        BY <4>1 DEF Edited
    <3>14. Held(d, x) /\ WorkSurvives(d, x)
      BY <1>1, <3>10, <3>11, <3>12, <3>13, MovedHeld DEF WorkSurvives
    <3> QED
      BY <1>1, <2>2, <3>8, <3>14 DEF Outcome
  <2> QED
    BY <2>2, <2>3, <2>4
<1> QED
  BY <1>20, <1>21

\* One row after the others.
LEMMA OneMore ==
    ASSUME NEW old \in Seq(Rows), NEW r \in Rows, NEW new, new = Append(old, r)
    PROVE  /\ new \in Seq(Rows)
           /\ \A k \in DOMAIN new : new[k] = r \/ (k \in DOMAIN old /\ new[k] = old[k])
<1>1. Len(old) \in Nat /\ DOMAIN old = 1..Len(old)
  BY LenProperties
<1>2. /\ new \in Seq(Rows) /\ DOMAIN new = 1..Len(old) + 1
      /\ new[Len(old) + 1] = r /\ \A k \in 1..Len(old) : new[k] = old[k]
  BY <1>1, AppendProperties, LenProperties
<1>3. \A k \in DOMAIN new : new[k] = r \/ (k \in DOMAIN old /\ new[k] = old[k])
  <2> SUFFICES ASSUME NEW k \in DOMAIN new PROVE new[k] = r \/ (k \in DOMAIN old /\ new[k] = old[k])
    OBVIOUS
  <2>1. k = Len(old) + 1 \/ k \in 1..Len(old)
    BY <1>1, <1>2
  <2> QED
    BY <1>1, <1>2, <2>1
<1> QED
  BY <1>2, <1>3

\* The new row repeats an id only if the screen had it.
LEMMA OneMoreTwice ==
    ASSUME NEW old \in Seq(Rows), NEW r \in Rows, NEW new, new = Append(old, r)
    PROVE  \A i \in Twice(new) : i \in Twice(old) \/ (i = r.id /\ i \in Ids(old))
<1>1. Len(old) \in Nat /\ DOMAIN old = 1..Len(old)
  BY LenProperties
<1>2. /\ DOMAIN new = 1..Len(old) + 1 /\ \A k \in 1..Len(old) : new[k] = old[k]
  BY <1>1, AppendProperties, LenProperties
<1>3. \A k \in DOMAIN new : new[k] = r \/ (k \in DOMAIN old /\ new[k] = old[k])
  BY OneMore
<1>4. ASSUME NEW i \in Twice(new) PROVE i \in Twice(old) \/ (i = r.id /\ i \in Ids(old))
  <2>1. PICK k \in DOMAIN new : new[k].id = i /\ \E o \in 1..k - 1 : new[o].id = new[k].id
    BY DEF Twice
  <2>2. PICK o \in 1..k - 1 : new[o].id = i
    BY <2>1
  <2>3. o \in DOMAIN old /\ new[o] = old[o]
    BY <1>1, <1>2, <2>1, <2>2
  <2>4. CASE k \in DOMAIN old
    <3>1. new[k] = old[k]
      BY <1>1, <1>2, <2>4
    <3>2. old[o].id = old[k].id
      BY <2>1, <2>2, <2>3, <3>1
    <3> QED
      BY <2>1, <2>2, <2>4, <3>1, <3>2 DEF Twice
  <2>5. CASE k \notin DOMAIN old
    <3>1. new[k] = r
      BY <1>3, <2>1, <2>5
    <3> QED
      BY <2>1, <2>2, <2>3, <3>1 DEF Ids
  <2> QED
    BY <2>4, <2>5
<1> QED
  BY <1>4

\* One row stored.
LEMMA OneRow ==
    ASSUME NEW r \in Rows
    PROVE  /\ <<r>> \in Seq(Rows) /\ DOMAIN <<r>> = {1} /\ <<r>>[1] = r
           /\ Ids(<<r>>) = {r.id} /\ Twice(<<r>>) = {}
<1>1. <<r>> \in Seq(Rows) /\ DOMAIN <<r>> = {1} /\ <<r>>[1] = r
  OBVIOUS
<1>2. Ids(<<r>>) = {r.id}
  BY <1>1 DEF Ids
<1>3. Twice(<<r>>) = {}
  BY <1>1, NotTwice
<1> QED
  BY <1>1, <1>2, <1>3

\* What a typed row and its write make of a desk.
LEMMA AddedRow ==
    ASSUME NEW d, Well(d), Shown(d), NEW r \in Rows, r.key = Typed, r.import = NoImport,
           NEW rows, rows = Append(d.screen, r), NEW shown, shown = WithScreen(d, rows),
           NEW one \in Seq(Rows), DOMAIN one = {1}, one[1] = r, Ids(one) = {r.id}, Twice(one) = {},
           NEW x1 \in upsert_transactions(shown, NoImport, one), NEW x,
           x = [x1 EXCEPT !.unsaved = IF r.id \in Ids(d.screen) \/ d.client = NoClient
                                      THEN @ \cup {r.id} ELSE @]
    PROVE  Moved(d, x) /\ Shown(x) /\ Quiet(d, x, {r.id})
<1>1. d \in Desks
  BY DEF Well
<1>2. d.screen \in Seq(Rows)
  BY <1>1, Fields
<1>3. /\ rows \in Seq(Rows)
      /\ \A k \in DOMAIN rows : rows[k] = r \/ (k \in DOMAIN d.screen /\ rows[k] = d.screen[k])
      /\ \A i \in Twice(rows) : i \in Twice(d.screen) \/ (i = r.id /\ i \in Ids(d.screen))
  <2>1. PICK old : old = d.screen /\ old \in Seq(Rows)
    BY <1>2
  <2>2. rows = Append(old, r) /\ r \in Rows
    BY <2>1
  <2>3. rows \in Seq(Rows)
    BY <2>1, <2>2, OneMore
  <2>4. \A k \in DOMAIN rows : rows[k] = r \/ (k \in DOMAIN old /\ rows[k] = old[k])
    BY <2>1, <2>2, OneMore
  <2>5. \A i \in Twice(rows) : i \in Twice(old) \/ (i = r.id /\ i \in Ids(old))
    BY <2>1, <2>2, OneMoreTwice, ZenonT(60)
  <2> QED
    BY <2>1, <2>3, <2>4, <2>5
<1>4. /\ shown \in Desks /\ shown.clients = d.clients /\ shown.born = d.born
      /\ shown.history = d.history /\ shown.hashes = d.hashes /\ shown.tables = d.tables
      /\ shown.client = d.client /\ shown.unchecked = d.unchecked /\ shown.ai = d.ai
      /\ shown.screen = rows /\ shown.unsaved = d.unsaved
  BY <1>1, <1>3 DEF Desks, WithScreen
<1>5. /\ x1 \in Desks /\ Beside(shown, x1)
       /\ \/ x1.tables = d.tables /\ x1.unsaved = d.unsaved \cup {r.id}
          \/ /\ d.client \in d.clients
             /\ x1.tables[d.client] = Replaced(d.tables[d.client], NoImport, one)
             /\ \A c \in Clients : c # d.client => x1.tables[c] = d.tables[c]
             /\ x1.unsaved = d.unsaved \ {r.id}
  <2>1. TablesOK(shown) /\ shown.client \in Clients \cup {NoClient} /\ shown.clients \subseteq Clients
    BY <1>1, <1>4, Fields DEF Well, TablesOK
  <2>4. /\ x1 \in Desks /\ Beside(shown, x1)
        /\ \/ x1.tables = shown.tables /\ x1.unsaved = shown.unsaved \cup Ids(one)
           \/ /\ shown.client \in shown.clients
              /\ x1.tables[shown.client] = Replaced(shown.tables[shown.client], NoImport, one)
              /\ \A c \in Clients : c # shown.client => x1.tables[c] = shown.tables[c]
              /\ x1.unsaved = (shown.unsaved \ Ids(one)) \cup Twice(one)
    BY <1>4, <2>1, NoImportIsOne, Upserted
  <2> QED
    BY <1>4, <2>4
<1>6. r.id \in RowIds
  BY DEF Rows
<1>7. PICK lost \in SUBSET RowIds :
          lost = IF r.id \in Ids(d.screen) \/ d.client = NoClient THEN x1.unsaved \cup {r.id} ELSE x1.unsaved
  BY <1>5, <1>6, Fields
<1>8. x = [x1 EXCEPT !.unsaved = lost]
  BY <1>7
<1>9. /\ x \in Desks /\ x.clients = d.clients /\ x.born = d.born
       /\ x.history = d.history /\ x.hashes = d.hashes /\ x.tables = x1.tables
       /\ x.client = d.client /\ x.unchecked = d.unchecked /\ x.ai = d.ai
       /\ x.screen = rows /\ x.unsaved = lost
  <2>1. /\ x \in Desks /\ x.clients = x1.clients /\ x.born = x1.born
        /\ x.history = x1.history /\ x.hashes = x1.hashes /\ x.tables = x1.tables
        /\ x.client = x1.client /\ x.unchecked = x1.unchecked /\ x.ai = x1.ai
        /\ x.screen = x1.screen /\ x.unsaved = lost
    BY <1>5, <1>7, <1>8, ZenonT(60) DEF Desks
  <2> QED
    BY <1>4, <1>5, <2>1 DEF Beside
<1>10. Copied(ToSet(rows), Anywhere(d)) /\ Copied(ToSet(rows), Of(d, d.client))
  <2>1. \A o \in ToSet(rows) : o = r \/ o \in ToSet(d.screen)
    BY <1>3 DEF ToSet
  <2> QED
    BY <2>1, ScreenIsOf DEF Copied
<1>11. ASSUME d.client # NoClient
       PROVE  Twice(rows) \subseteq lost
  <2> SUFFICES ASSUME NEW i \in Twice(rows) PROVE i \in lost
    OBVIOUS
  <2>1. CASE i = r.id /\ i \in Ids(d.screen)
    BY <1>7, <2>1
  <2>2. CASE i \in Twice(d.screen)
    <3>1. i \in d.unsaved /\ i \in Ids(d.screen)
      BY <1>1, <1>2, <1>11, <2>2, SeqRows DEF Shown
    <3> QED
      BY <1>5, <1>7, <3>1
  <2> QED
    BY <1>3, <2>1, <2>2
<1>12. CASE x1.tables = d.tables /\ x1.unsaved = d.unsaved \cup {r.id}
  <2>1. Shown(x)
    <3> SUFFICES ASSUME d.client # NoClient, NEW k \in DOMAIN rows, rows[k].id \notin lost
                 PROVE  \E o \in d.tables[d.client] : Matches(o, rows[k])
      BY <1>9, <1>11, <1>12 DEF Shown
    <3>1. rows[k].id \notin d.unsaved /\ rows[k] # r
      BY <1>7, <1>12
    <3>2. k \in DOMAIN d.screen /\ rows[k] = d.screen[k]
      BY <1>3, <3>1
    <3> QED
      BY <1>1, <3>1, <3>2 DEF Shown
  <2>2. d.client # NoClient => d.client \in d.clients
    BY DEF Well, Registered
  <2>3. Moved(d, x)
    BY <1>9, <1>10, <1>12, <2>2 DEF Moved
  <2>4. Quiet(d, x, {r.id})
    BY <1>9, <1>12, SameTablesQuiet
  <2> QED
    BY <2>1, <2>3, <2>4
<1>13. CASE /\ d.client \in d.clients
            /\ x1.tables[d.client] = Replaced(d.tables[d.client], NoImport, one)
            /\ \A c \in Clients : c # d.client => x1.tables[c] = d.tables[c]
            /\ x1.unsaved = d.unsaved \ {r.id}
  <2>1. PICK c \in Clients : c = d.client /\ c # NoClient
    BY <1>1, <1>13, Fields, NamesAreApart
  <2>2. PICK old \in SUBSET Rows : old = d.tables[c]
    BY <1>1, <2>1, Fields
  <2>3. IsFiniteSet(old) /\ OnePerId(old)
    BY <1>1, <2>1, <2>2 DEF Well, TablesOK
  <2>4. PICK t : t = Replaced(old, NoImport, one)
    OBVIOUS
  <2>5. /\ IsFiniteSet(t) /\ OnePerId(t) /\ r \in t
        /\ \A o \in t : o \in old \/ o = r
        /\ \A o \in old : o.id # r.id => o \in t
    <3>2. \A o : With(o, NoImport) = o
      BY DEF With
    <3>4. /\ IsFiniteSet(t) /\ OnePerId(t)
          /\ \A o \in t : \/ o \in old /\ o.id \notin Ids(one)
                          \/ \E j \in DOMAIN one : o = With(one[j], NoImport)
          /\ \A o \in old : o.id \notin Ids(one) => o \in t
          /\ \A j \in DOMAIN one : one[j].id \notin Twice(one) => With(one[j], NoImport) \in t
      BY <2>2, <2>3, <2>4, NoImportIsOne, ReplacedRows
    <3> QED
      BY <3>2, <3>4
  <2>6. x.tables[c] = t /\ \A b \in Clients : b # c => x.tables[b] = d.tables[b]
    BY <1>9, <1>13, <2>1, <2>2, <2>4
  <2>7. Moved(d, x)
    <3>1. r \in ToSet(rows)
      <4>1. Len(d.screen) + 1 \in DOMAIN rows /\ rows[Len(d.screen) + 1] = r
        BY <1>2, AppendProperties, LenProperties
      <4> QED
        BY <4>1 DEF ToSet
    <3>2. Copied(t, old \cup ToSet(rows))
      BY <2>5, <3>1 DEF Copied
    <3> QED
      BY <1>9, <1>10, <1>13, <2>1, <2>2, <2>5, <2>6, <3>2 DEF Moved
  <2>8. Shown(x)
    <3> SUFFICES ASSUME NEW k \in DOMAIN rows, rows[k].id \notin lost
                 PROVE  \E o \in t : Matches(o, rows[k])
      BY <1>9, <1>11, <2>1, <2>6 DEF Shown
    <3>1. CASE rows[k] = r
      BY <2>5, <3>1 DEF Matches
    <3>2. CASE rows[k] # r
      <4>1. k \in DOMAIN d.screen /\ rows[k] = d.screen[k] /\ rows[k].id \in Ids(d.screen)
        BY <1>3, <3>2 DEF Ids
      <4>2. rows[k].id # r.id
        BY <1>7, <4>1
      <4>3. d.screen[k].id \notin d.unsaved
        BY <1>7, <1>13, <4>1, <4>2
      <4>4. PICK o \in old : Matches(o, d.screen[k])
        BY <1>1, <2>1, <2>2, <4>1, <4>3 DEF Shown
      <4> QED
        BY <2>5, <4>1, <4>2, <4>4 DEF Matches
    <3> QED
      BY <3>1, <3>2
  <2>9. Quiet(d, x, {r.id})
    <3> SUFFICES ASSUME NEW b \in d.clients
                 PROVE  Kept(d.tables[b], x.tables[b], IF b = d.client THEN d.unsaved \cup {r.id} ELSE {})
      BY DEF Quiet
    <3>1. CASE b = c
      BY <2>1, <2>2, <2>5, <2>6, <3>1 DEF Kept, Matches
    <3>2. CASE b # c
      BY <1>1, <2>1, <2>6, <3>2, Fields DEF Kept, Matches
    <3> QED
      BY <3>1, <3>2
  <2> QED
    BY <2>7, <2>8, <2>9
<1> QED
  BY <1>5, <1>12, <1>13

\* A row typed in is shown and stored, unless a row of its id was there.
LEMMA AddTxnStep ==
    ASSUME Well(Desk), Shown(Desk), AddTxn, edits \in Nat
    PROVE  Outcome
<1>1. PICK d \in Desks : d = Desk
  BY DEF Well
<1>2. d.screen \in Seq(Rows)
  BY <1>1, Fields
<1>3. PICK r : r = [id |-> ManualId(Len(d.screen)), key |-> Typed, import |-> NoImport,
                    class |-> Class(Picked, "manual", "user")]
  OBVIOUS
<1>4. r \in Rows /\ r.key = Typed /\ r.import = NoImport
  <2>1. ManualId(Len(d.screen)) \in RowIds
    BY <1>2, LenProperties DEF ManualId, RowIds
  <2>2. Typed \in Keys
    BY DEF Keys
  <2> QED
    BY <1>3, <2>1, <2>2, ClassesTyped DEF Rows
<1>5. PICK rows : rows = Append(d.screen, r)
  OBVIOUS
<1>6. PICK shown : shown = WithScreen(d, rows)
  OBVIOUS
<1>7. PICK one : one = <<r>>
  OBVIOUS
<1>8. PICK x1 \in upsert_transactions(shown, NoImport, one) :
         Leave([x1 EXCEPT !.unsaved = IF r.id \in Ids(d.screen) \/ d.client = NoClient
                                      THEN @ \cup {r.id} ELSE @])
  <2>1. Desk.screen = screen /\ Desk.client = client /\ screen = d.screen /\ client = d.client
    BY <1>1, DeskFields
  <2>2. shown = [Desk EXCEPT !.screen = Append(@, r)]
    BY <1>1, <1>5, <1>6 DEF WithScreen
  <2> QED
    BY <1>3, <1>7, <2>1, <2>2 DEF AddTxn
<1>9. PICK x : Leave(x) /\ x = [x1 EXCEPT !.unsaved = IF r.id \in Ids(d.screen) \/ d.client = NoClient
                                                      THEN @ \cup {r.id} ELSE @]
  BY <1>8
<1>10. Moved(d, x) /\ Shown(x) /\ Quiet(d, x, {r.id})
  <2>1. /\ one \in Seq(Rows) /\ DOMAIN one = {1} /\ one[1] = r /\ Ids(one) = {r.id} /\ Twice(one) = {}
    BY <1>4, <1>7, OneRow
  <2> QED
    BY <1>1, <1>4, <1>5, <1>6, <1>8, <1>9, <2>1, AddedRow, ZenonT(60)
<1>11. edits' # edits
  <2>1. Edited
    BY DEF AddTxn
  <2> QED
    BY <2>1 DEF Edited
<1>12. x \in Desks /\ Held(d, x) /\ WorkSurvives(d, x)
  BY <1>1, <1>10, <1>11, MovedHeld DEF WorkSurvives
<1> QED
  BY <1>1, <1>9, <1>12 DEF Outcome

-----------------------------------------------------------------------------
(***************************************************************************)
(* The theorems.                                                           *)
(***************************************************************************)
\* Every handler keeps the invariant and the work of the user.
LEMMA NextStep ==
    ASSUME Well(Desk), Shown(Desk), edits \in Nat, Next
    PROVE  Outcome
<1>1. ASSUME NEW f \in Files, NEW dedup \in BOOLEAN, LoadFile(f, dedup) PROVE Outcome
  BY <1>1, LoadFileStep
<1>2. ASSUME NEW f \in Files, NEW dedup \in BOOLEAN, OcrDone(f, dedup) PROVE Outcome
  BY <1>2, OcrDoneStep
<1>3. ASSUME NEW c \in Clients, SelectClient(c) PROVE Outcome
  BY <1>3, SelectClientStep
<1>4. ASSUME NEW c \in Clients, NewClient(c) PROVE Outcome
  BY <1>4, NewClientStep
<1>5. ASSUME NEW c \in Clients, Restart(c) PROVE Outcome
  BY <1>5, RestartStep
<1>6. CASE DeleteClient
  BY <1>6, DeleteClientStep
<1>7. CASE AutoClassify
  BY <1>7, AutoClassifyStep
<1>8. CASE AiClassify
  BY <1>8, AiClassifyStep
<1>9. CASE AiDone
  BY <1>9, AiDoneStep
<1>10. ASSUME NEW k \in Keys, DeleteRule(k) PROVE Outcome
  BY <1>10, DeleteRuleStep
<1>11. ASSUME NEW j \in DOMAIN screen, NEW learn \in BOOLEAN, SaveTxn(j, learn) PROVE Outcome
  BY <1>11, SaveTxnStep
<1>12. ASSUME NEW j \in DOMAIN screen, MarkSuspense(j) PROVE Outcome
  BY <1>12, MarkSuspenseStep
<1>13. ASSUME NEW j \in DOMAIN screen, DeleteTxn(j) PROVE Outcome
  BY <1>13, DeleteTxnStep
<1>14. CASE UndoLastEdit
  BY <1>14, UndoLastEditStep
<1>15. CASE AddTxn
  BY <1>15, AddTxnStep
<1>16. CASE LoadAll
  BY <1>16, LoadAllStep
<1>17. ASSUME NEW i \in DOMAIN history, ReloadImport(i) PROVE Outcome
  BY <1>17, ReloadImportStep
<1>18. ASSUME NEW i \in DOMAIN history, DeleteImport(i) PROVE Outcome
  BY <1>18, DeleteImportStep
<1>19. CASE ResetDedupe
  BY <1>19, ResetDedupeStep
<1> QED
  BY <1>1, <1>2, <1>3, <1>4, <1>5, <1>6, <1>7, <1>8, <1>9, <1>10, <1>11, <1>12, <1>13, <1>14,
     <1>15, <1>16, <1>17, <1>18, <1>19 DEF Next

\* What a handler makes of the counters.
LEMMA NextCounts ==
    ASSUME loads \in Nat, edits \in Nat, Next
    PROVE  loads' \in Nat /\ edits' \in Nat
<1> DEFINE Counted == \/ UNCHANGED Bounds
                      \/ Edited
                      \/ loads' = loads + 1 /\ UNCHANGED edits
<1>1. ASSUME NEW f \in Files, NEW dedup \in BOOLEAN, LoadFile(f, dedup) \/ OcrDone(f, dedup)
      PROVE  Counted
  BY <1>1 DEF LoadFile, OcrDone
<1>2. ASSUME NEW c \in Clients, SelectClient(c) \/ NewClient(c) \/ Restart(c) PROVE Counted
  BY <1>2 DEF SelectClient, NewClient, Restart
<1>3. ASSUME DeleteClient \/ AutoClassify \/ AiClassify \/ AiDone PROVE Counted
  BY <1>3 DEF DeleteClient, AutoClassify, AiClassify, AiDone
<1>4. ASSUME NEW k \in Keys, DeleteRule(k) PROVE Counted
  BY <1>4 DEF DeleteRule
<1>5. ASSUME NEW j \in DOMAIN screen,
             (\E learn \in BOOLEAN : SaveTxn(j, learn)) \/ MarkSuspense(j) \/ DeleteTxn(j)
      PROVE  Counted
  BY <1>5 DEF SaveTxn, MarkSuspense, DeleteTxn
<1>6. ASSUME UndoLastEdit \/ AddTxn \/ LoadAll \/ ResetDedupe PROVE Counted
  BY <1>6 DEF UndoLastEdit, AddTxn, LoadAll, ResetDedupe
<1>7. ASSUME NEW i \in DOMAIN history, ReloadImport(i) \/ DeleteImport(i) PROVE Counted
  BY <1>7 DEF ReloadImport, DeleteImport
<1>8. Counted
  <2> HIDE DEF Counted
  <2> QED
    BY <1>1, <1>2, <1>3, <1>4, <1>5, <1>6, <1>7 DEF Next
<1> QED
  BY <1>8 DEF Bounds, Edited

-----------------------------------------------------------------------------
IInv == Well(Desk) /\ Shown(Desk) /\ loads \in Nat /\ edits \in Nat

\* An empty database has nothing to say against the invariant.
LEMMA InitDesk ==
    ASSUME Init
    PROVE  IInv /\ Once(Desk)
<1>1. PICK d : d = Desk
  OBVIOUS
<1>2. /\ d.clients = {} /\ d.born = {} /\ d.tables = [c \in Clients |-> {}] /\ d.history = <<>>
      /\ d.hashes = [c \in Clients |-> {}] /\ d.client = NoClient /\ d.screen = <<>> /\ d.ai = NoRun
  BY <1>1, DeskFields DEF Init
<1>3. d \in Desks
  <2>1. /\ <<>> \in Seq(Rows) /\ <<>> \in Seq(Clients \cup {NoClient})
        /\ <<>> \in Seq([id : RowIds, class : Classes])
    OBVIOUS
  <2>2. /\ [c \in Clients |-> {}] \in [Clients -> SUBSET Rows]
        /\ [c \in Clients |-> {}] \in [Clients -> SUBSET Keys]
    OBVIOUS
  <2>3. [c \in Clients |-> NoRules] \in [Clients -> [Keys -> {NoLedger, Picked, Suggested}]]
    BY DEF NoRules
  <2> QED
    BY <1>1, <2>1, <2>2, <2>3 DEF Init, Desk, Desks
<1>4. IsFiniteSet({})
  BY FS_EmptySet
<1>5. Registered(d)
  BY <1>2, <1>4 DEF Registered
<1>6. TablesOK(d)
  BY <1>2, <1>4 DEF TablesOK, OnePerId
<1>7. \A r : r \notin Anywhere(d)
  <2>1. ToSet(<<>>) = {}
    BY DEF ToSet
  <2> QED
    BY <1>2, <2>1, Places DEF AiRows
<1>8. ImportsKnown(d)
  BY <1>7 DEF ImportsKnown
<1>9. Shown(d) /\ Once(d)
  BY <1>2 DEF Shown, Once
<1> QED
  BY <1>1, <1>3, <1>5, <1>6, <1>8, <1>9 DEF Init, Well, IInv

\* A desk that is left for the same desk.
LEMMA SameDesk ==
    ASSUME UNCHANGED vars
    PROVE  Desk' = Desk /\ loads' = loads /\ edits' = edits
BY DEF vars, Desk

\* One handler, or none.
LEMMA StepDesk ==
    ASSUME IInv, [Next]_vars
    PROVE  IInv' /\ (Once(Desk) => Once(Desk)')
<1>1. CASE Next
  <2>1. Outcome
    BY <1>1, NextStep DEF IInv
  <2>2. PICK x \in Desks : Leave(x) /\ Held(Desk, x)
    BY <2>1 DEF Outcome
  <2>3. Desk' = x
    BY <2>2, Left
  <2>4. loads' \in Nat /\ edits' \in Nat
    BY <1>1, NextCounts DEF IInv
  <2> QED
    BY <2>2, <2>3, <2>4 DEF Held, IInv
<1>2. CASE UNCHANGED vars
  BY <1>2, SameDesk DEF IInv
<1> QED
  BY <1>1, <1>2

\* Every handler of the event loop (main.rs) keeps the desk well formed and the screen's rows stored.
THEOREM Inductive == Spec => []IInv
<1>1. Init => IInv
  BY InitDesk
<1>2. IInv /\ [Next]_vars => IInv'
  BY StepDesk
<1> QED
  BY <1>1, <1>2, PTL DEF Spec

\* Every handler leaves the tables, the screen, the undo stack and the threads well formed: rows,
\* ids and classifications are of the kinds AppState and the schema know.
THEOREM Types == Spec => []TypeOK
<1>1. IInv => TypeOK
  BY DEF IInv, Well, TypeOK
<1> QED
  BY <1>1, Inductive, PTL

\* No handler changes AppState.transactions and forgets the database: what the selected client's
\* screen shows is stored, but for failed writes, marks of suspense and ids the screen repeats.
THEOREM ShownHolds == Spec => []ShownIsStored
<1>1. IInv => ShownIsStored
  BY DeskFields DEF IInv, Shown, ShownIsStored, Matches
<1> QED
  BY <1>1, Inductive, PTL

\* finish_load_file: a checked transaction is stored once, whatever loads overlap and whenever
\* their threads report, unless its own statement has it twice.
THEOREM LoadedHolds == Spec => []LoadedOnce
<1>1. Init => IInv /\ Once(Desk)
  BY InitDesk
<1>2. IInv /\ Once(Desk) /\ [Next]_vars => (IInv /\ Once(Desk))'
  BY StepDesk
<1>3. IInv /\ Once(Desk) => LoadedOnce
  <2> SUFFICES ASSUME IInv, Once(Desk), NEW c \in clients \ unchecked,
                      NEW r \in tables[c], NEW o \in tables[c], r.key = o.key, r.key \notin Uncompared
               PROVE  r = o
    BY DEF LoadedOnce
  <2>1. PICK d \in Desks : d = Desk
    BY DEF IInv, Well
  <2>2. c \in d.clients \ d.unchecked /\ r \in d.tables[c] /\ o \in d.tables[c] /\ c \in Clients
    BY <2>1, DeskFields, Fields
  <2>3. r \in Of(d, c) /\ o \in Of(d, c)
    BY <2>2 DEF Of
  <2>4. r.id = o.id
    BY <2>1, <2>2, <2>3 DEF Once
  <2> QED
    BY <2>1, <2>2, <2>4 DEF IInv, Well, TablesOK, OnePerId
<1> QED
  BY <1>1, <1>2, <1>3, PTL DEF Spec

-----------------------------------------------------------------------------
\* What a step does to rows of the user that are not excused.
Touched == {r \in UNION {{<<c, o>> : o \in tables[c]} : c \in clients \cap clients'} :
               /\ r[2].class.source = "user"
               /\ Changed(r[1], r[2])
               /\ ~(r[1] = client /\ r[2].id \in unsaved)}

\* A row that is touched is one of those the handler was allowed to touch.
LEMMA TouchedRow ==
    ASSUME NEW x \in Desks, Leave(x), NEW but, Quiet(Desk, x, but), NEW r \in Touched
    PROVE  r[1] = client /\ client \in clients /\ r[2].id \in but /\ r[2] \in tables[client] /\ r = <<client, r[2]>>
<1>1. PICK c \in clients \cap clients' : \E o \in tables[c] : r = <<c, o>>
  BY DEF Touched
<1>2. PICK o \in tables[c] : r = <<c, o>>
  BY <1>1
<1>3. o.class.source = "user" /\ Changed(c, o) /\ ~(c = client /\ o.id \in unsaved)
  BY <1>2 DEF Touched
<1>4. x.clients = clients' /\ x.tables = tables'
  BY DEF Leave
<1>5. Kept(tables[c], tables'[c], IF c = client THEN unsaved \cup but ELSE {})
  BY <1>1, <1>4, DeskFields DEF Quiet
<1>6. o.id \in (IF c = client THEN unsaved \cup but ELSE {})
  <2> SUFFICES ASSUME o.id \notin (IF c = client THEN unsaved \cup but ELSE {})
               PROVE  FALSE
    OBVIOUS
  <2>1. \E p \in tables'[c] : Matches(p, o)
    BY <1>2, <1>3, <1>5 DEF Kept
  <2> QED
    BY <1>3, <2>1 DEF Changed, Matches
<1>7. c = client /\ o.id \in but
  BY <1>3, <1>6
<1> QED
  BY <1>1, <1>2, <1>7

\* What a handler may do to the work of the user.
LEMMA SurviveStep ==
    ASSUME IInv, Next
    PROVE  \/ Touched = {}
           \/ Len(history') > Len(history)
           \/ ai # NoRun /\ ai' = NoRun
           \/ Cardinality(Touched) = 1 /\ (edits' # edits \/ undo' # undo)
<1>1. Outcome
  BY NextStep DEF IInv
<1>2. PICK x \in Desks : Leave(x) /\ WorkSurvives(Desk, x)
  BY <1>1 DEF Outcome
<1>3. x.history = history' /\ x.ai = ai' /\ x.undo = undo'
  BY <1>2 DEF Leave
<1>4. CASE Quiet(Desk, x, {})
  BY <1>2, <1>4, TouchedRow
<1>5. CASE Len(x.history) > Len(Desk.history)
  BY <1>3, <1>5, DeskFields
<1>6. CASE Desk.ai # NoRun /\ x.ai = NoRun
  BY <1>3, <1>6, DeskFields
<1>7. CASE (\E i : Quiet(Desk, x, {i})) /\ (edits' # edits \/ x.undo # Desk.undo)
  <2>1. PICK i : Quiet(Desk, x, {i})
    BY <1>7
  <2>2. \A r \in Touched : client \in clients /\ r[2].id = i /\ r[2] \in tables[client] /\ r = <<client, r[2]>>
    BY <1>2, <2>1, TouchedRow
  <2>3. CASE Touched # {}
    <3>1. PICK r \in Touched : TRUE
      BY <2>3
    <3>2. client \in Clients
      <4>1. client \in clients
        BY <2>2, <3>1
      <4> QED
        BY <4>1, DeskFields, Fields DEF IInv, Well
    <3>3. OnePerId(tables[client])
      BY <3>2, DeskFields DEF IInv, Well, TablesOK
    <3>4. Touched = {r}
      BY <2>2, <3>1, <3>3 DEF OnePerId
    <3>5. Cardinality(Touched) = 1
      BY <3>4, FS_Singleton
    <3> QED
      BY <1>3, <1>7, <3>5, DeskFields
  <2> QED
    BY <2>3
<1> QED
  BY <1>2, <1>4, <1>5, <1>6, <1>7 DEF WorkSurvives

\* is_locked_from_auto_classify: no automatic step takes back what the user classified, and an edit
\* or an undo changes no row but its own.
THEOREM SurvivesHold == Spec => UserWorkSurvives
<1>1. IInv /\ [Next]_vars =>
      [LET touched == {r \in UNION {{<<c, o>> : o \in tables[c]} : c \in clients \cap clients'} :
                          /\ r[2].class.source = "user"
                          /\ Changed(r[1], r[2])
                          /\ ~(r[1] = client /\ r[2].id \in unsaved)}
       IN  \/ touched = {}
           \/ Len(history') > Len(history)
           \/ ai # NoRun /\ ai' = NoRun
           \/ Cardinality(touched) = 1 /\ (edits' # edits \/ undo' # undo)]_vars
  BY SurviveStep DEF Touched
<1> QED
  BY <1>1, Inductive, PTL DEF Spec, UserWorkSurvives

=============================================================================
