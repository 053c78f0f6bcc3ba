------------------------- MODULE BatchImport_proofs -------------------------
(***************************************************************************)
(* A transaction is stored once and a file reported once, for any clients, *)
(* files, contents and passwords, any number of batches, timers, threads,  *)
(* files loaded on their own, failed reads and writes and crashes.         *)
(***************************************************************************)
EXTENDS BatchImport, SequenceTheorems, FunctionTheorems, FiniteSetTheorems, WellFoundedInduction,
        TLAPS

(***************************************************************************)
(* The inductive invariant is of a desk, the state as a handler has it in  *)
(* hand.  StoredOnce holds because a client's rows, those stored, those on *)
(* the screen and those of the batch, have one id each, and because those  *)
(* stored are all known to what a file's rows are compared with: the batch *)
(* if one runs, else what it would begin with.  ReportedOnce holds because *)
(* a file that a clean batch has yet to report is in one place: the queue, *)
(* the prompt or a reading thread.                                         *)
(***************************************************************************)
Entries == [key : Keys, import : Nat \cup {NoImport}]
Tables  == [Positions -> {NoRow} \cup Entries]
Reports == [file : Files \cup {NoFile}, ok : BOOLEAN]
Threads == [file : Files, in_batch : BOOLEAN]

Desks == [client : Clients, transactions : [Clients -> Tables], history : Seq(Nat),
          hashes : [Clients -> SUBSET Keys], screen : Seq(Rows), batch : Batches \cup {NoBatch},
          timers : Nat, prompt : [file : Files \cup {NoFile}, visible : BOOLEAN],
          ocr : SUBSET Threads, bypassed : SUBSET Clients, faults : 0 .. MaxFaults]

\* The keys and ids of the rows of a table, and of a list.
Cells(table) == {<<table[i].key, i>> : i \in {p \in Positions : table[p] # NoRow}}
Lines(rows)  == {<<rows[n].key, rows[n].id>> : n \in DOMAIN rows}
KeysIn(P)    == {q[1] : q \in P}

\* A transaction has one id among these.
OneId(P) == \A q, r \in P : q[1] = r[1] => q[2] = r[2] \/ q[1] \in Repeated

\* The rows of the client that are stored, shown or in its batch.
InHand(d, c) == Cells(d.transactions[c])
                \cup (IF d.client = c THEN Lines(d.screen) ELSE {})
                \cup (IF Running(d, c) THEN Lines(d.batch.all_txns) ELSE {})

\* The batch knows the rows of its client.
BatchKnows(d, c) == Running(d, c) =>
    KeysIn(InHand(d, c)) \subseteq KeysOf(d.batch.all_txns) \cup d.batch.persisted_hashes

\* A batch that began now would know those that are stored.
ScreenKnows(d, c) == ~Running(d, c) /\ d.client = c =>
    KeysStored(d, c) \subseteq KeysOf(d.screen) \cup d.hashes[c]

Traced(d)   == \A c \in Clients \ d.bypassed : OneId(InHand(d, c)) /\ BatchKnows(d, c)
Prepared(d) == \A c \in Clients \ d.bypassed : ScreenKnows(d, c)

\* The hashes a batch began with are still there when it ends.
Backed(d) == d.batch # NoBatch => d.batch.persisted_hashes \subseteq d.hashes[d.batch.client]

Kept(d) == Backed(d) /\ Traced(d) /\ Prepared(d)

Clean(d)    == d.batch # NoBatch /\ ~d.batch.crossed
Queued(d)   == {d.batch.remaining[n] : n \in DOMAIN d.batch.remaining}
Reported(d) == {d.batch.results[n].file : n \in DOMAIN d.batch.results}
Waiting(d)  == IF d.prompt.visible THEN {d.prompt.file} ELSE {}
Reading(d)  == {o.file : o \in d.ocr}

\* A file that nothing goes on with.
Nowhere(d, f) == f \notin Queued(d) /\ f \notin Reported(d) /\ f \notin Waiting(d) /\ f \notin Reading(d)

\* No file is twice in the queue, among the results or with the threads.
Alone(remaining, results, threads) ==
    /\ \A m, n \in DOMAIN remaining : m # n => remaining[m] # remaining[n]
    /\ \A m, n \in DOMAIN results : m # n => results[m].file # results[n].file
    /\ \A o \in threads : o.in_batch

Apart(queued, reported, waiting, reading) ==
    /\ queued \cap reported = {} /\ queued \cap waiting = {} /\ queued \cap reading = {}
    /\ reported \cap waiting = {} /\ reported \cap reading = {}
    /\ waiting \cap reading = {}

InOnePlace(d) == Clean(d) =>
    /\ Alone(d.batch.remaining, d.batch.results, d.ocr)
    /\ Apart(Queued(d), Reported(d), Waiting(d), Reading(d))

\* A prompt that is closed has no file.
Closed(d) == ~d.prompt.visible => d.prompt.file = NoFile

Good(d) == d \in Desks /\ Kept(d) /\ Closed(d) /\ InOnePlace(d)

\* The batch may be told of the file.
MayReport(d, f) == Clean(d) => Nowhere(d, f)

-----------------------------------------------------------------------------
(***************************************************************************)
(* Positions, and the sequences made of sets of them.                      *)
(***************************************************************************)
\* < is well-founded on Nat, as a set of pairs.
LEMMA LessThan == IsWellFoundedOn({ss \in Nat \X Nat : ss[1] < ss[2]}, Nat)
BY NatLessThanWellFounded DEF OpToRel

\* A set of naturals has a least member.
LEMMA Least ==
    ASSUME NEW S \in SUBSET Nat, S # {}
    PROVE  \E x \in S : \A y \in S : x <= y
<1> DEFINE R == {ss \in Nat \X Nat : ss[1] < ss[2]}
<1>1. PICK x \in S : \A y \in S : ~(<<y, x>> \in R)
  <2>1. IsWellFoundedOn(R, Nat)
    BY LessThan
  <2> HIDE DEF R
  <2> QED
    BY <2>1, WFMin
<1>2. \A y \in S : x <= y
  <2> SUFFICES ASSUME NEW y \in S PROVE x <= y
    OBVIOUS
  <2>1. x \in Nat /\ y \in Nat /\ ~(y < x)
    BY <1>1
  <2> QED
    BY <2>1
<1> QED
  BY <1>2

\* A bounded one has a greatest.
LEMMA Greatest ==
    ASSUME NEW n \in Nat, NEW S \in SUBSET (1..n), S # {}
    PROVE  \E l \in S : \A m \in S : m <= l
<1> DEFINE T == {k \in Nat : \E l \in S : k = n - l}
<1>1. T \subseteq Nat /\ T # {}
  <2>1. PICK l \in S : TRUE
    OBVIOUS
  <2>2. n - l \in T
    BY <2>1
  <2> QED
    BY <2>2
<1>2. PICK x \in T : \A y \in T : x <= y
  <2> HIDE DEF T
  <2> QED
    BY <1>1, Least
<1>3. PICK l \in S : x = n - l
  OBVIOUS
<1>4. ASSUME NEW m \in S PROVE m <= l
  <2>1. n - m \in T
    OBVIOUS
  <2>2. x <= n - m
    BY <1>2, <2>1
  <2> QED
    BY <1>3, <2>2
<1> QED
  BY <1>4

\* Of positions there is a last one: the row that wins an INSERT OR REPLACE.
LEMMA MaxIsOne ==
    ASSUME NEW n \in Nat, NEW S \in SUBSET (1..n), S # {}
    PROVE  Max(S) \in S
BY Greatest DEF Max

\* The n-th of a finite set of positions is the one with n - 1 before it.
LEMMA NthIsOne ==
    ASSUME NEW S \in SUBSET Nat, IsFiniteSet(S)
    PROVE  \A n \in 1..Cardinality(S) :
             Nth(S, n) \in S /\ Cardinality({j \in S : j < Nth(S, n)}) = n - 1
<1> DEFINE Below(i) == {j \in S : j < i}
           Missing == {n \in 1..Cardinality(S) : \A i \in S : Cardinality(Below(i)) # n - 1}
<1>1. Cardinality(S) \in Nat
  BY FS_CardinalityType
<1>2. \A i \in S : IsFiniteSet(Below(i)) /\ Cardinality(Below(i)) \in Nat
  <2> SUFFICES ASSUME NEW i \in S PROVE IsFiniteSet(Below(i)) /\ Cardinality(Below(i)) \in Nat
    OBVIOUS
  <2>1. Below(i) \in SUBSET S
    OBVIOUS
  <2> QED
    BY <2>1, FS_Subset, FS_CardinalityType
<1>3. Missing = {}
  <2> SUFFICES ASSUME Missing # {} PROVE FALSE
    OBVIOUS
  <2>1. Missing \in SUBSET Nat
    BY <1>1
  <2>2. PICK n \in Missing : \A m \in Missing : n <= m
    <3> HIDE DEF Missing
    <3> QED
      BY <2>1, Least
  <2>3. n \in Nat /\ n >= 1 /\ n <= Cardinality(S)
    BY <1>1
  <2>4. CASE n = 1
    <3>1. S # {}
      BY <2>3, FS_EmptySet
    <3>2. PICK x \in S : \A y \in S : x <= y
      BY <3>1, Least
    <3>3. Below(x) = {}
      <4> SUFFICES ASSUME NEW y \in S, y < x PROVE FALSE
        OBVIOUS
      <4>1. x <= y /\ x \in Nat /\ y \in Nat
        BY <3>2
      <4> QED
        BY <4>1
    <3>4. Cardinality(Below(x)) = 0
      BY <3>3, FS_EmptySet
    <3> QED
      BY <2>4, <3>4
  <2>5. CASE n # 1
    <3>1. n - 1 \in 1..Cardinality(S) /\ ~(n <= n - 1)
      BY <1>1, <2>3, <2>5
    <3>2. n - 1 \notin Missing
      BY <2>2, <3>1
    <3>3. PICK i \in S : Cardinality(Below(i)) = (n - 1) - 1
      BY <3>1, <3>2
    <3>4. PICK U : U = Below(i) \cup {i}
      OBVIOUS
    <3>5. IsFiniteSet(U) /\ Cardinality(U) = n - 1 /\ U \subseteq S
      <4>1. i \notin Below(i)
        OBVIOUS
      <4>2. Cardinality(Below(i) \cup {i}) = Cardinality(Below(i)) + 1
            /\ IsFiniteSet(Below(i) \cup {i})
        BY <1>2, <4>1, FS_AddElement
      <4> QED
        BY <2>3, <3>3, <3>4, <4>2
    <3>6. {k \in S : i < k} # {}
      <4> SUFFICES ASSUME {k \in S : i < k} = {} PROVE FALSE
        OBVIOUS
      <4>1. \A k \in S : k = i \/ k < i
        OBVIOUS
      <4>2. U = S
        BY <3>4, <4>1
      <4> QED
        BY <1>1, <2>3, <3>5, <4>2
    <3>7. PICK k \in {l \in S : i < l} : \A l \in {m \in S : i < m} : k <= l
      <4>1. {l \in S : i < l} \in SUBSET Nat
        OBVIOUS
      <4> QED
        BY <3>6, <4>1, Least
    <3>8. Below(k) = U
      <4>1. \A l \in S : l < k <=> (l < i \/ l = i)
        BY <3>7
      <4> QED
        BY <3>4, <4>1
    <3> QED
      BY <3>5, <3>7, <3>8
  <2> QED
    BY <2>4, <2>5
<1>4. \A n \in 1..Cardinality(S) : \E i \in S : Cardinality(Below(i)) = n - 1
  BY <1>3
<1> QED
  BY <1>4 DEF Nth

\* Only lists the rows at these positions, each once.
LEMMA OnlyThese ==
    ASSUME NEW T, NEW rows \in Seq(T), NEW S \in SUBSET (DOMAIN rows)
    PROVE  /\ Only(rows, S) \in Seq(T)
           /\ \A n \in DOMAIN Only(rows, S) : Nth(S, n) \in S /\ Only(rows, S)[n] = rows[Nth(S, n)]
           /\ \A m, n \in DOMAIN Only(rows, S) : Nth(S, m) = Nth(S, n) => m = n
<1>1. DOMAIN rows = 1..Len(rows) /\ Len(rows) \in Nat
  BY LenProperties
<1>2. S \in SUBSET Nat /\ IsFiniteSet(S)
  <2>1. IsFiniteSet(1..Len(rows))
    BY <1>1, FS_Interval
  <2> QED
    BY <1>1, <2>1, FS_Subset
<1>3. Cardinality(S) \in Nat
  BY <1>2, FS_CardinalityType
<1>4. \A n \in 1..Cardinality(S) : Nth(S, n) \in S /\ Cardinality({j \in S : j < Nth(S, n)}) = n - 1
  BY <1>2, NthIsOne
<1>5. \A n \in 1..Cardinality(S) : rows[Nth(S, n)] \in T
  BY <1>4, ElementOfSeq, <1>1
<1>6. Only(rows, S) \in [1..Cardinality(S) -> T]
  BY <1>5 DEF Only
<1>7. Only(rows, S) \in Seq(T) /\ DOMAIN Only(rows, S) = 1..Cardinality(S)
  BY <1>3, <1>6, SeqDef
<1>8. \A m, n \in 1..Cardinality(S) : Nth(S, m) = Nth(S, n) => m = n
  <2> SUFFICES ASSUME NEW m \in 1..Cardinality(S), NEW n \in 1..Cardinality(S),
                      Nth(S, m) = Nth(S, n)
               PROVE  m = n
    OBVIOUS
  <2>1. m - 1 = n - 1
    BY <1>4
  <2> QED
    BY <1>3, <2>1
<1> QED
  BY <1>4, <1>7, <1>8 DEF Only

-----------------------------------------------------------------------------
(***************************************************************************)
(* Rows in the table and in lists.                                         *)
(***************************************************************************)
\* There are finitely many positions.
LEMMA FinitePositions == IsFiniteSet(Positions)
<1> DEFINE D == [f \in Files |-> DOMAIN Contents[f]]
           T == {D[f] : f \in Files}
<1>1. D \in Surjection(Files, T)
  BY DEF Surjection
<1>2. IsFiniteSet(T)
  BY <1>1, FS_Surjection, PickedIsFiles
<1>3. ASSUME NEW f \in Files PROVE IsFiniteSet(DOMAIN Contents[f])
  <2>1. PICK s \in Seq(Keys) : s = Contents[f]
    BY ContentsAreSequences
  <2>2. DOMAIN s = 1 .. Len(s) /\ Len(s) \in Nat
    BY LenProperties
  <2>3. IsFiniteSet(1 .. Len(s))
    BY <2>2, FS_Interval
  <2> QED
    BY <2>1, <2>2, <2>3
<1>4. IsFiniteSet(UNION T)
  BY <1>2, <1>3, FS_UNION
<1>5. UNION T = Positions
  BY DEF Positions
<1> QED
  BY <1>4, <1>5

\* SetToSeq lists the members of the set, all of them.
LEMMA Listed ==
    ASSUME NEW S, IsFiniteSet(S)
    PROVE  /\ SetToSeq(S) \in Seq(S)
           /\ \A i \in DOMAIN SetToSeq(S) : SetToSeq(S)[i] \in S
           /\ \A s \in S : \E i \in DOMAIN SetToSeq(S) : SetToSeq(S)[i] = s
<1>1. Cardinality(S) \in Nat /\ ExistsBijection(1..Cardinality(S), S)
  BY FS_CardinalityType
<1>2. PICK b \in Bijection(1..Cardinality(S), S) : TRUE
  BY <1>1 DEF ExistsBijection
<1>3. b \in [1..Cardinality(S) -> S] /\ IsInjective(b)
  BY <1>2 DEF Bijection, Injection
<1>4. SetToSeq(S) \in [1..Cardinality(S) -> S] /\ IsInjective(SetToSeq(S))
  BY <1>3 DEF SetToSeq
<1>5. PICK q : q = SetToSeq(S)
  OBVIOUS
<1>6. q \in Seq(S)
  BY <1>1, <1>4, <1>5, SeqDef
<1>7. q \in Injection(1..Cardinality(S), S)
  BY <1>4, <1>5 DEF Injection
<1>8. Cardinality(1..Cardinality(S)) = Cardinality(S)
  BY <1>1, FS_Interval
<1>9. q \in Surjection(1..Cardinality(S), S)
  BY <1>7, <1>8, FS_Injection
<1>10. \A s \in S : \E i \in 1..Cardinality(S) : q[i] = s
  BY <1>9 DEF Surjection
<1>11. DOMAIN q = 1..Cardinality(S)
  BY <1>4, <1>5
<1> QED
  BY <1>4, <1>5, <1>6, <1>10, <1>11

\* INSERT OR REPLACE: a row is as it was, or as the list has it.
LEMMA Upserted ==
    ASSUME NEW table \in Tables, NEW rows \in Seq(Rows), NEW import \in Nat \cup {NoImport},
           NEW new, new = upsert_transactions(table, import, rows)
    PROVE  /\ new \in Tables
           /\ Cells(new) \subseteq Cells(table) \cup Lines(rows)
<1> DEFINE At(i) == {j \in DOMAIN rows : rows[j].id = i}
<1>1. ASSUME NEW i \in Positions, At(i) # {}
      PROVE  \E j \in DOMAIN rows : rows[j].id = i /\ new[i].key = rows[j].key /\ new[i] \in Entries
  <2>1. DOMAIN rows = 1..Len(rows) /\ Len(rows) \in Nat
    BY LenProperties
  <2>2. Max(At(i)) \in At(i)
    <3>1. At(i) \in SUBSET (1..Len(rows))
      BY <2>1
    <3> HIDE DEF At
    <3> QED
      BY <1>1, <2>1, <3>1, MaxIsOne
  <2>3. PICK r \in Rows : r = rows[Max(At(i))]
    BY <2>1, <2>2, ElementOfSeq
  <2>4. new[i] = [key |-> r.key, import |-> IF import = NoImport THEN r.import ELSE import]
    BY <1>1, <2>3 DEF upsert_transactions
  <2>5. new[i] \in Entries /\ new[i].key = r.key
    BY <2>4 DEF Rows, Entries
  <2> QED
    BY <2>2, <2>3, <2>5
<1>2. ASSUME NEW i \in Positions, At(i) = {}
      PROVE  new[i] = table[i]
  BY <1>2 DEF upsert_transactions
<1>3. new = [i \in Positions |-> new[i]]
  BY DEF upsert_transactions
<1>4. \A i \in Positions : new[i] \in {NoRow} \cup Entries
  BY <1>1, <1>2 DEF Tables
<1>5. Cells(new) \subseteq Cells(table) \cup Lines(rows)
  <2> SUFFICES ASSUME NEW i \in Positions, new[i] # NoRow
               PROVE  <<new[i].key, i>> \in Cells(table) \cup Lines(rows)
    BY DEF Cells
  <2>1. CASE At(i) = {}
    <3>1. new[i] = table[i]
      BY <1>2, <2>1
    <3> HIDE DEF At
    <3> QED
      BY <3>1 DEF Cells
  <2>2. CASE At(i) # {}
    <3>1. PICK j \in DOMAIN rows : rows[j].id = i /\ new[i].key = rows[j].key
      BY <1>1, <2>2
    <3> HIDE DEF At
    <3> QED
      BY <3>1 DEF Lines
  <2> HIDE DEF At
  <2> QED
    BY <2>1, <2>2
<1> HIDE DEF At
<1> QED
  BY <1>3, <1>4, <1>5 DEF Tables

\* The rows a table holds, as they come on the screen.
LEMMA Fetched ==
    ASSUME NEW table \in Tables, NEW rows, rows = get_transactions(table)
    PROVE  /\ rows \in Seq(Rows)
           /\ Lines(rows) = Cells(table)
<1> DEFINE Held == {p \in Positions : table[p] # NoRow}
           Row(i) == [id |-> i, key |-> table[i].key, import |-> table[i].import]
           S == {Row(i) : i \in Held}
<1>1. ASSUME NEW i \in Held PROVE Row(i) \in Rows
  <2>1. table[i] \in Entries
    BY DEF Tables
  <2> QED
    BY <2>1 DEF Entries, Rows
<1>2. IsFiniteSet(S)
  <2>1. IsFiniteSet(Held)
    BY FinitePositions, FS_Subset
  <2>2. [i \in Held |-> Row(i)] \in Surjection(Held, S)
    BY DEF Surjection
  <2> QED
    BY <2>1, <2>2, FS_Surjection
<1>3. rows = SetToSeq(S)
  BY DEF get_transactions
<1>4. /\ rows \in Seq(S)
      /\ \A n \in DOMAIN rows : rows[n] \in S
      /\ \A s \in S : \E n \in DOMAIN rows : rows[n] = s
  <2> HIDE DEF S
  <2> QED
    BY <1>2, <1>3, Listed
<1>5. rows \in Seq(Rows)
  <2>1. S \subseteq Rows
    BY <1>1
  <2>2. \A n \in DOMAIN rows : rows[n] \in Rows
    BY <1>4, <2>1
  <2>3. rows = [n \in 1..Len(rows) |-> rows[n]] /\ Len(rows) \in Nat /\ DOMAIN rows = 1..Len(rows)
    <3> HIDE DEF S
    <3> QED
      BY <1>4, LenProperties
  <2> QED
    BY <2>2, <2>3, SeqDef
<1>6. Cells(table) \subseteq Lines(rows)
  <2> SUFFICES ASSUME NEW i \in Held
               PROVE  <<table[i].key, i>> \in Lines(rows)
    BY DEF Cells
  <2>1. Row(i) \in S
    OBVIOUS
  <2>2. PICK m \in DOMAIN rows : rows[m] = Row(i)
    BY <1>4, <2>1
  <2>3. rows[m].key = table[i].key /\ rows[m].id = i
    BY <2>2
  <2> QED
    BY <2>3 DEF Lines
<1>7. Lines(rows) \subseteq Cells(table)
  <2> SUFFICES ASSUME NEW n \in DOMAIN rows
               PROVE  <<rows[n].key, rows[n].id>> \in Cells(table)
    BY DEF Lines
  <2>1. PICK i \in Held : rows[n] = Row(i)
    BY <1>4
  <2>2. rows[n].key = table[i].key /\ rows[n].id = i
    BY <2>1
  <2> QED
    BY <2>2 DEF Cells
<1> QED
  BY <1>5, <1>6, <1>7

\* The rows of a file, numbered.
LEMMA ParsedRows ==
    ASSUME NEW f \in Files
    PROVE  /\ parse(f) \in Seq(Rows) /\ DOMAIN parse(f) = DOMAIN Contents[f]
           /\ \A i \in DOMAIN Contents[f] : parse(f)[i].id = i /\ parse(f)[i].key = Contents[f][i]
                                             /\ Contents[f][i] \in Keys
<1>1. PICK s \in Seq(Keys) : s = Contents[f]
  BY ContentsAreSequences
<1>2. DOMAIN s = 1..Len(s) /\ Len(s) \in Nat
  BY LenProperties
<1>3. ASSUME NEW i \in DOMAIN s
      PROVE  [id |-> i, key |-> s[i], import |-> NoImport] \in Rows
  <2>1. i \in Positions
    BY <1>1 DEF Positions
  <2>2. s[i] \in Keys
    BY <1>2, ElementOfSeq
  <2> QED
    BY <2>1, <2>2 DEF Rows
<1>4. PICK p : p = parse(f)
  OBVIOUS
<1>5. p = [i \in 1..Len(s) |-> [id |-> i, key |-> s[i], import |-> NoImport]]
  BY <1>1, <1>2, <1>4 DEF parse
<1>6. p \in [1..Len(s) -> Rows]
  BY <1>2, <1>3, <1>5
<1>7. p \in Seq(Rows)
  BY <1>2, <1>6, SeqDef
<1>8. \A i \in DOMAIN s : s[i] \in Keys
  BY <1>2, ElementOfSeq
<1> QED
  BY <1>1, <1>2, <1>4, <1>5, <1>7, <1>8

\* A file's own repetitions are the only ones in it.
LEMMA WholeFile ==
    ASSUME NEW f \in Files
    PROVE  parse(f) \in Seq(Rows) /\ OneId(Lines(parse(f)))
<1>1. PICK p \in Seq(Rows) : p = parse(f)
  BY ParsedRows
<1>2. OneId(Lines(p))
  <2> SUFFICES ASSUME NEW m \in DOMAIN p, NEW n \in DOMAIN p, p[m].key = p[n].key, p[m].id # p[n].id
               PROVE  p[m].key \in Repeated
    BY DEF OneId, Lines
  <2>1. /\ m \in DOMAIN Contents[f] /\ p[m].id = m /\ p[m].key = Contents[f][m] /\ Contents[f][m] \in Keys
        /\ n \in DOMAIN Contents[f] /\ p[n].id = n /\ p[n].key = Contents[f][n]
    BY <1>1, ParsedRows
  <2> QED
    BY <2>1 DEF Repeated
<1> QED
  BY <1>1, <1>2

\* What a file brings: rows whose keys are not known, each key at one position.
LEMMA FreshRows ==
    ASSUME NEW f \in Files, NEW known, NEW new, new = Unknown(f, known)
    PROVE  new \in Seq(Rows) /\ OneId(Lines(new)) /\ KeysOf(new) \cap known = {}
<1>1. PICK S : S = {i \in DOMAIN Contents[f] : Contents[f][i] \notin known}
  OBVIOUS
<1>2. PICK p \in Seq(Rows) : p = parse(f)
  BY ParsedRows
<1>3. S \in SUBSET (DOMAIN p)
  BY <1>1, <1>2, ParsedRows
<1>4. new = Only(p, S)
  BY <1>1, <1>2 DEF Unknown
<1>5. new \in Seq(Rows) /\ \A n \in DOMAIN new : Nth(S, n) \in S /\ new[n] = p[Nth(S, n)]
  BY <1>3, <1>4, OnlyThese
<1>6. \A n \in DOMAIN new : \E i \in S : new[n] = p[i]
  BY <1>5
<1>7. OneId(Lines(new))
  <2>1. Lines(new) \subseteq Lines(p)
    <3> SUFFICES ASSUME NEW n \in DOMAIN new
                 PROVE  \E i \in DOMAIN p : p[i] = new[n]
      BY DEF Lines
    <3> QED
      BY <1>3, <1>6
  <2>2. OneId(Lines(p))
    BY <1>2, WholeFile
  <2> QED
    BY <2>1, <2>2 DEF OneId
<1>8. ASSUME NEW n \in DOMAIN new
      PROVE  new[n].key \notin known
  <2>1. PICK i \in S : new[n] = p[i]
    BY <1>6
  <2>2. i \in DOMAIN Contents[f] /\ Contents[f][i] \notin known
    BY <1>1
  <2>3. p[i].key = Contents[f][i]
    BY <1>2, <2>2, ParsedRows
  <2> QED
    BY <2>1, <2>2, <2>3
<1>9. KeysOf(new) \cap known = {}
  BY <1>8 DEF KeysOf
<1> QED
  BY <1>5, <1>7, <1>9

\* Rows are put behind others.
LEMMA Joined ==
    ASSUME NEW all \in Seq(Rows), NEW new \in Seq(Rows), NEW both, both = all \o new
    PROVE  both \in Seq(Rows) /\ Lines(both) = Lines(all) \cup Lines(new)
<1>1. /\ Len(all) \in Nat /\ DOMAIN all = 1..Len(all)
      /\ Len(new) \in Nat /\ DOMAIN new = 1..Len(new)
  BY LenProperties
<1>2. /\ both \in Seq(Rows) /\ DOMAIN both = 1..(Len(all) + Len(new))
      /\ \A k \in 1..(Len(all) + Len(new)) :
            both[k] = IF k <= Len(all) THEN all[k] ELSE new[k - Len(all)]
  BY <1>1, ConcatProperties, LenProperties
<1>3. ASSUME NEW n \in DOMAIN all PROVE n \in DOMAIN both /\ both[n] = all[n]
  BY <1>1, <1>2
<1>4. ASSUME NEW n \in DOMAIN new PROVE n + Len(all) \in DOMAIN both /\ both[n + Len(all)] = new[n]
  BY <1>1, <1>2
<1>5. \A k \in DOMAIN both : \/ \E m \in DOMAIN all : both[k] = all[m]
                             \/ \E n \in DOMAIN new : both[k] = new[n]
  <2> SUFFICES ASSUME NEW k \in DOMAIN both
               PROVE  \/ \E m \in DOMAIN all : both[k] = all[m]
                      \/ \E n \in DOMAIN new : both[k] = new[n]
    OBVIOUS
  <2>1. CASE k <= Len(all)
    BY <1>1, <1>2, <2>1
  <2>2. CASE k > Len(all)
    <3>1. k - Len(all) \in DOMAIN new /\ both[k] = new[k - Len(all)]
      BY <1>1, <1>2, <2>2
    <3> QED
      BY <3>1
  <2> QED
    BY <1>1, <1>2, <2>1, <2>2
<1>6. Lines(both) \subseteq Lines(all) \cup Lines(new)
  <2> SUFFICES ASSUME NEW k \in DOMAIN both
               PROVE  <<both[k].key, both[k].id>> \in Lines(all) \cup Lines(new)
    BY DEF Lines
  <2>1. ASSUME NEW m \in DOMAIN all, both[k] = all[m]
        PROVE  <<both[k].key, both[k].id>> \in Lines(all)
    BY <2>1 DEF Lines
  <2>2. ASSUME NEW n \in DOMAIN new, both[k] = new[n]
        PROVE  <<both[k].key, both[k].id>> \in Lines(new)
    BY <2>2 DEF Lines
  <2> QED
    BY <1>5, <2>1, <2>2
<1>7. Lines(all) \subseteq Lines(both)
  <2> SUFFICES ASSUME NEW n \in DOMAIN all
               PROVE  <<all[n].key, all[n].id>> \in Lines(both)
    BY DEF Lines
  <2>1. n \in DOMAIN both /\ both[n] = all[n]
    BY <1>3
  <2> QED
    BY <2>1 DEF Lines
<1>8. Lines(new) \subseteq Lines(both)
  <2> SUFFICES ASSUME NEW n \in DOMAIN new
               PROVE  <<new[n].key, new[n].id>> \in Lines(both)
    BY DEF Lines
  <2>1. PICK k \in DOMAIN both : both[k] = new[n]
    BY <1>4
  <2> QED
    BY <2>1 DEF Lines
<1> QED
  BY <1>2, <1>6, <1>7, <1>8

\* The keys of rows, said in two ways.
LEMMA KeyNames ==
    /\ \A rows : KeysOf(rows) = KeysIn(Lines(rows))
    /\ \A d, c : KeysStored(d, c) = KeysIn(Cells(d.transactions[c]))
<1>1. ASSUME NEW rows PROVE KeysOf(rows) = KeysIn(Lines(rows))
  <2>1. ASSUME NEW n \in DOMAIN rows PROVE rows[n].key \in KeysIn(Lines(rows))
    <3>1. <<rows[n].key, rows[n].id>> \in Lines(rows)
      BY DEF Lines
    <3>2. <<rows[n].key, rows[n].id>>[1] = rows[n].key
      OBVIOUS
    <3> QED
      BY <3>1, <3>2 DEF KeysIn
  <2>2. ASSUME NEW q \in Lines(rows) PROVE q[1] \in KeysOf(rows)
    <3>1. PICK n \in DOMAIN rows : q = <<rows[n].key, rows[n].id>>
      BY DEF Lines
    <3> QED
      BY <3>1 DEF KeysOf
  <2> QED
    BY <2>1, <2>2 DEF KeysOf, KeysIn
<1>2. ASSUME NEW d, NEW c PROVE KeysStored(d, c) = KeysIn(Cells(d.transactions[c]))
  <2>1. PICK table : table = d.transactions[c]
    OBVIOUS
  <2>2. ASSUME NEW i \in {p \in Positions : table[p] # NoRow} PROVE table[i].key \in KeysIn(Cells(table))
    <3>1. <<table[i].key, i>> \in Cells(table)
      BY DEF Cells
    <3>2. <<table[i].key, i>>[1] = table[i].key
      OBVIOUS
    <3> QED
      BY <3>1, <3>2 DEF KeysIn
  <2>3. ASSUME NEW q \in Cells(table) PROVE q[1] \in KeysStored(d, c)
    <3>1. PICK i \in {p \in Positions : table[p] # NoRow} : q = <<table[i].key, i>>
      BY DEF Cells
    <3> QED
      BY <2>1, <3>1 DEF KeysStored
  <2> QED
    BY <2>1, <2>2, <2>3 DEF KeysStored, KeysIn
<1> QED
  BY <1>1, <1>2

\* Fewer rows, and rows with other keys.
LEMMA Among ==
    ASSUME NEW P, NEW Q
    PROVE  /\ P \subseteq Q => KeysIn(P) \subseteq KeysIn(Q) /\ (OneId(Q) => OneId(P))
           /\ KeysIn(P \cup Q) = KeysIn(P) \cup KeysIn(Q)
           /\ OneId(P) /\ OneId(Q) /\ KeysIn(P) \cap KeysIn(Q) = {} => OneId(P \cup Q)
<1>1. P \subseteq Q => KeysIn(P) \subseteq KeysIn(Q) /\ (OneId(Q) => OneId(P))
  BY DEF KeysIn, OneId
<1>2. KeysIn(P \cup Q) = KeysIn(P) \cup KeysIn(Q)
  BY DEF KeysIn
<1>3. ASSUME OneId(P), OneId(Q), KeysIn(P) \cap KeysIn(Q) = {} PROVE OneId(P \cup Q)
  <2>1. \A q \in P, r \in Q : q[1] # r[1]
    BY <1>3 DEF KeysIn
  <2> QED
    BY <1>3, <2>1 DEF OneId
<1> QED
  BY <1>1, <1>2, <1>3

-----------------------------------------------------------------------------
(***************************************************************************)
(* The desk in the hands of a handler.                                     *)
(***************************************************************************)
\* What the fields of a desk are.
LEMMA Fields ==
    ASSUME NEW d \in Desks
    PROVE  /\ d.client \in Clients /\ d.transactions \in [Clients -> Tables]
           /\ d.history \in Seq(Nat) /\ d.hashes \in [Clients -> SUBSET Keys]
           /\ d.screen \in Seq(Rows) /\ d.batch \in Batches \cup {NoBatch} /\ d.timers \in Nat
           /\ d.prompt \in [file : Files \cup {NoFile}, visible : BOOLEAN]
           /\ d.ocr \in SUBSET Threads /\ d.bypassed \in SUBSET Clients /\ d.faults \in 0 .. MaxFaults
BY DEF Desks

\* Writes that may fail, and timers, are counted.
LEMMA Counted ==
    ASSUME NEW d \in Desks
    PROVE  /\ d.faults # MaxFaults => [d EXCEPT !.faults = @ + 1] \in Desks
           /\ [d EXCEPT !.timers = @ + 1] \in Desks
           /\ d.timers > 0 => [d EXCEPT !.timers = @ - 1] \in Desks
<1>1. d.faults \in Nat /\ d.faults <= MaxFaults /\ MaxFaults \in Nat /\ d.timers \in Nat
  BY Fields, BoundsAreNaturals
<1>2. d.faults # MaxFaults => d.faults + 1 \in 0 .. MaxFaults
  BY <1>1
<1>3. d.timers + 1 \in Nat /\ (d.timers > 0 => d.timers - 1 \in Nat)
  BY <1>1
<1>4. d.faults # MaxFaults => [d EXCEPT !.faults = @ + 1] \in Desks
  BY <1>2 DEF Desks
<1>5. [d EXCEPT !.timers = @ + 1] \in Desks
  BY <1>3 DEF Desks
<1>6. d.timers > 0 => [d EXCEPT !.timers = @ - 1] \in Desks
  BY <1>3 DEF Desks
<1> QED
  BY <1>4, <1>5, <1>6

\* The rows of a desk, and those of its batch, are the same.
SameRows(d, x) == /\ x.client = d.client /\ x.transactions = d.transactions /\ x.hashes = d.hashes
                  /\ x.screen = d.screen /\ x.bypassed = d.bypassed

SameBatch(a, b) == /\ b.all_txns = a.all_txns /\ b.persisted_hashes = a.persisted_hashes
                   /\ b.client = a.client

SameKnown(d, x) == /\ d.batch = NoBatch <=> x.batch = NoBatch
                   /\ d.batch # NoBatch => SameBatch(d.batch, x.batch)

LEMMA SameKept ==
    ASSUME NEW d, NEW x, Kept(d), SameRows(d, x), SameKnown(d, x)
    PROVE  Kept(x)
<1>1. ASSUME NEW c PROVE /\ Running(x, c) = Running(d, c) /\ InHand(x, c) = InHand(d, c)
                         /\ KeysStored(x, c) = KeysStored(d, c)
  <2>1. Running(x, c) = Running(d, c)
    BY DEF SameKnown, SameBatch, Running
  <2>2. Running(d, c) => x.batch.all_txns = d.batch.all_txns
    BY DEF SameKnown, SameBatch, Running
  <2>3. InHand(x, c) = InHand(d, c)
    BY <2>1, <2>2 DEF InHand, SameRows
  <2>4. KeysStored(x, c) = KeysStored(d, c)
    BY DEF KeysStored, SameRows
  <2> QED
    BY <2>1, <2>3, <2>4
<1>2. ASSUME NEW c PROVE BatchKnows(x, c) = BatchKnows(d, c)
  BY <1>1 DEF BatchKnows, SameKnown, SameBatch, Running
<1>3. ASSUME NEW c PROVE ScreenKnows(x, c) = ScreenKnows(d, c)
  BY <1>1 DEF ScreenKnows, SameRows
<1>4. Backed(x)
  BY DEF Kept, Backed, SameKnown, SameBatch, SameRows
<1> QED
  BY <1>1, <1>2, <1>3, <1>4 DEF Kept, Traced, Prepared, SameRows

\* Where the files of a desk are is the same.
SamePlaces(d, x) == x.batch = d.batch /\ x.prompt = d.prompt /\ x.ocr = d.ocr

LEMMA SamePlacesGood ==
    ASSUME NEW d, InOnePlace(d), Closed(d), NEW x, SamePlaces(d, x)
    PROVE  InOnePlace(x) /\ Closed(x)
<1>1. Clean(x) = Clean(d) /\ Queued(x) = Queued(d) /\ Reported(x) = Reported(d)
      /\ Waiting(x) = Waiting(d) /\ Reading(x) = Reading(d)
  BY DEF SamePlaces, Clean, Queued, Reported, Waiting, Reading
<1>2. InOnePlace(x)
  BY <1>1 DEF InOnePlace, Alone, Apart, SamePlaces
<1> QED
  BY <1>2 DEF Closed, SamePlaces

LEMMA SameGood ==
    ASSUME NEW d, Good(d), NEW x \in Desks, SameRows(d, x), SamePlaces(d, x)
    PROVE  Good(x)
<1>1. SameKnown(d, x)
  BY DEF SamePlaces, SameKnown, SameBatch
<1>2. Kept(x)
  BY <1>1, SameKept DEF Good
<1>3. InOnePlace(x) /\ Closed(x)
  BY SamePlacesGood DEF Good
<1> QED
  BY <1>2, <1>3 DEF Good

\* A file that may be reported still may where the files are the same.
LEMMA SameMayReport ==
    ASSUME NEW d, NEW x, NEW f, MayReport(d, f), SamePlaces(d, x)
    PROVE  MayReport(x, f)
BY DEF MayReport, SamePlaces, Clean, Nowhere, Queued, Reported, Waiting, Reading

\* A failed write or a timer more or less.
LEMMA CountedGood ==
    ASSUME NEW d, Good(d)
    PROVE  /\ d.faults # MaxFaults => Good([d EXCEPT !.faults = @ + 1])
           /\ Good([d EXCEPT !.timers = @ + 1])
           /\ d.timers > 0 => Good([d EXCEPT !.timers = @ - 1])
<1>1. d \in Desks
  BY DEF Good
<1>2. d.faults # MaxFaults => Good([d EXCEPT !.faults = @ + 1])
  <2> SUFFICES ASSUME d.faults # MaxFaults PROVE Good([d EXCEPT !.faults = @ + 1])
    OBVIOUS
  <2>1. PICK x \in Desks : x = [d EXCEPT !.faults = @ + 1]
    BY <1>1, Counted
  <2>2. SameRows(d, x) /\ SamePlaces(d, x)
    BY <1>1, <2>1 DEF Desks, SameRows, SamePlaces
  <2> QED
    BY <2>1, <2>2, SameGood
<1>3. Good([d EXCEPT !.timers = @ + 1])
  <2>1. PICK x \in Desks : x = [d EXCEPT !.timers = @ + 1]
    BY <1>1, Counted
  <2>2. SameRows(d, x) /\ SamePlaces(d, x)
    BY <1>1, <2>1 DEF Desks, SameRows, SamePlaces
  <2> QED
    BY <2>1, <2>2, SameGood
<1>4. d.timers > 0 => Good([d EXCEPT !.timers = @ - 1])
  <2> SUFFICES ASSUME d.timers > 0 PROVE Good([d EXCEPT !.timers = @ - 1])
    OBVIOUS
  <2>1. PICK x \in Desks : x = [d EXCEPT !.timers = @ - 1]
    BY <1>1, Counted
  <2>2. SameRows(d, x) /\ SamePlaces(d, x)
    BY <1>1, <2>1 DEF Desks, SameRows, SamePlaces
  <2> QED
    BY <2>1, <2>2, SameGood
<1> QED
  BY <1>2, <1>3, <1>4

\* Keys of rows, whatever the rows.
LEMMA KeysOfRows ==
    ASSUME NEW rows \in Seq(Rows)
    PROVE  KeysOf(rows) \subseteq Keys
<1>1. \A n \in DOMAIN rows : rows[n] \in Rows
  BY ElementOfSeq, LenProperties
<1> QED
  BY <1>1 DEF KeysOf, Rows

\* Hashes are added.
LEMMA NotedGood ==
    ASSUME NEW d, Good(d), NEW c \in Clients, NEW rows \in Seq(Rows),
           NEW x, x = [d EXCEPT !.hashes[c] = @ \cup KeysOf(rows)]
    PROVE  Good(x) /\ x.client = d.client /\ KeysStored(x, c) = KeysStored(d, c)
           /\ d.hashes[c] \subseteq x.hashes[c]
<1>1. d \in Desks /\ d.hashes \in [Clients -> SUBSET Keys]
  BY Fields DEF Good
<1>2. PICK more \in [Clients -> SUBSET Keys] : more = [d.hashes EXCEPT ![c] = @ \cup KeysOf(rows)]
  BY <1>1, KeysOfRows
<1>3. x = [d EXCEPT !.hashes = more]
  BY <1>1, <1>2 DEF Desks
<1>4. /\ x \in Desks /\ SamePlaces(d, x) /\ x.hashes = more /\ x.client = d.client
      /\ x.transactions = d.transactions /\ x.screen = d.screen /\ x.bypassed = d.bypassed
  BY <1>1, <1>3 DEF Desks, SamePlaces
<1>5. \A e \in Clients : d.hashes[e] \subseteq more[e]
  BY <1>1, <1>2
<1>6. ASSUME NEW e \in Clients
      PROVE  /\ Running(x, e) = Running(d, e) /\ InHand(x, e) = InHand(d, e)
             /\ KeysStored(x, e) = KeysStored(d, e)
  BY <1>4 DEF SamePlaces, Running, InHand, KeysStored
<1>7. ASSUME NEW e \in Clients, ScreenKnows(d, e) PROVE ScreenKnows(x, e)
  BY <1>4, <1>5, <1>6, <1>7 DEF ScreenKnows
<1>8. ASSUME NEW e \in Clients, BatchKnows(d, e) PROVE BatchKnows(x, e)
  BY <1>4, <1>6, <1>8 DEF BatchKnows, SamePlaces
<1>9. Backed(x)
  <2>1. d.batch # NoBatch => d.batch.client \in Clients
    BY <1>1, Fields DEF Batches
  <2> QED
    BY <1>4, <1>5, <2>1 DEF Good, Kept, Backed, SamePlaces
<1>10. Kept(x)
  BY <1>4, <1>6, <1>7, <1>8, <1>9 DEF Good, Kept, Traced, Prepared
<1>11. InOnePlace(x) /\ Closed(x)
  BY <1>4, SamePlacesGood DEF Good
<1> QED
  BY <1>4, <1>5, <1>6, <1>10, <1>11 DEF Good

\* More clients are bypassed.
LEMMA BypassedGood ==
    ASSUME NEW d, Good(d), NEW more \in SUBSET Clients, NEW x, x = [d EXCEPT !.bypassed = @ \cup more]
    PROVE  Good(x)
<1>1. d \in Desks
  BY DEF Good
<1>2. /\ x \in Desks /\ SamePlaces(d, x) /\ x.hashes = d.hashes /\ x.client = d.client
      /\ x.transactions = d.transactions /\ x.screen = d.screen /\ d.bypassed \subseteq x.bypassed
  BY <1>1 DEF Desks, SamePlaces
<1>3. ASSUME NEW e \in Clients
      PROVE  /\ InHand(x, e) = InHand(d, e) /\ BatchKnows(x, e) = BatchKnows(d, e)
             /\ ScreenKnows(x, e) = ScreenKnows(d, e)
  <2>1. /\ Running(x, e) = Running(d, e) /\ InHand(x, e) = InHand(d, e)
        /\ KeysStored(x, e) = KeysStored(d, e)
    BY <1>2 DEF SamePlaces, Running, InHand, KeysStored
  <2> QED
    BY <1>2, <2>1 DEF BatchKnows, ScreenKnows, SamePlaces
<1>4. Kept(x)
  BY <1>2, <1>3 DEF Good, Kept, Traced, Prepared, Backed, SamePlaces
<1>5. InOnePlace(x) /\ Closed(x)
  BY <1>2, SamePlacesGood DEF Good
<1> QED
  BY <1>2, <1>4, <1>5 DEF Good

\* The file's result is put behind the others.
LEMMA Told ==
    ASSUME NEW d, Good(d), d.batch # NoBatch, NEW f \in Files \cup {NoFile}, MayReport(d, f), NEW ok \in BOOLEAN
    PROVE  Good(Report(d, Result(f, ok)))
<1>1. d \in Desks /\ d.batch \in Batches
  BY Fields DEF Good
<1>2. PICK old \in Seq(Reports) : old = d.batch.results
  BY <1>1 DEF Batches, Reports
<1>3. PICK res \in Reports : res = Result(f, ok) /\ res.file = f
  <2>1. [file |-> f, ok |-> ok] \in Reports /\ [file |-> f, ok |-> ok].file = f
    BY DEF Reports
  <2> QED
    BY <2>1 DEF Result
<1>4. PICK new : new = Append(old, res)
  OBVIOUS
<1>5. /\ new \in Seq(Reports) /\ Len(old) \in Nat /\ DOMAIN old = 1..Len(old)
      /\ DOMAIN new = 1..(Len(old) + 1)
      /\ \A k \in 1..Len(old) : new[k] = old[k]
      /\ new[Len(old) + 1] = res
  BY <1>4, AppendProperties, LenProperties
<1>6. PICK b : b = [d.batch EXCEPT !.results = new]
  OBVIOUS
<1>7. /\ b \in Batches /\ b.remaining = d.batch.remaining /\ SameBatch(d.batch, b)
      /\ b.crossed = d.batch.crossed /\ b.results = new
  BY <1>1, <1>5, <1>6 DEF Batches, Reports, SameBatch
<1>8. b # NoBatch
  BY <1>7, NamesAreApart
<1>9. PICK x : x = Report(d, Result(f, ok))
  OBVIOUS
<1>10. x = [d EXCEPT !.batch = b]
  BY <1>1, <1>2, <1>3, <1>4, <1>6, <1>9 DEF Report, Desks
<1>11. x \in Desks /\ SameRows(d, x) /\ x.batch = b /\ x.prompt = d.prompt /\ x.ocr = d.ocr
  BY <1>1, <1>7, <1>10 DEF Desks, SameRows
<1>12. Kept(x)
  <2>1. SameKnown(d, x)
    BY <1>7, <1>8, <1>11 DEF SameKnown, SameBatch
  <2> QED
    BY <1>11, <2>1, SameKept DEF Good
<1>13. InOnePlace(x)
  <2> SUFFICES ASSUME Clean(x) PROVE InOnePlace(x)
    BY DEF InOnePlace, Alone, Apart
  <2>1. Clean(d) /\ Nowhere(d, f)
    BY <1>7, <1>11 DEF Clean, MayReport
  <2>2. Queued(x) = Queued(d) /\ Waiting(x) = Waiting(d) /\ Reading(x) = Reading(d)
    BY <1>7, <1>11 DEF Queued, Waiting, Reading
  <2>3. Reported(x) = Reported(d) \cup {f}
    <3>1. Reported(x) = {new[n].file : n \in DOMAIN new}
      BY <1>7, <1>11 DEF Reported
    <3>2. Reported(d) = {old[n].file : n \in DOMAIN old}
      BY <1>2 DEF Reported
    <3>3. \A n \in DOMAIN new : (n \in DOMAIN old /\ new[n] = old[n]) \/ new[n] = res
      BY <1>5
    <3>4. \A n \in DOMAIN old : n \in DOMAIN new /\ new[n] = old[n]
      BY <1>5
    <3>5. Len(old) + 1 \in DOMAIN new /\ new[Len(old) + 1].file = f
      BY <1>3, <1>5
    <3>6. Reported(x) \subseteq Reported(d) \cup {f}
      BY <1>3, <3>1, <3>2, <3>3
    <3>7. Reported(d) \cup {f} \subseteq Reported(x)
      BY <3>1, <3>2, <3>4, <3>5
    <3> QED
      BY <3>6, <3>7
  <2>4. \A m, n \in DOMAIN new : m # n => new[m].file # new[n].file
    <3> SUFFICES ASSUME NEW m \in DOMAIN new, NEW n \in DOMAIN new, m < n
                 PROVE  new[m].file # new[n].file
      <4>1. \A m, n \in DOMAIN new : m # n => m < n \/ n < m
        BY <1>5
      <4> QED
        BY <4>1
    <3>1. m \in DOMAIN old /\ new[m] = old[m]
      BY <1>5
    <3>2. CASE n \in DOMAIN old
      <4>1. new[n] = old[n] /\ m # n
        BY <1>5, <3>2
      <4> QED
        BY <1>2, <2>1, <3>1, <3>2, <4>1 DEF Good, InOnePlace, Alone, Apart
    <3>3. CASE n \notin DOMAIN old
      <4>1. new[n].file = f
        BY <1>3, <1>5, <3>3
      <4>2. old[m].file \in Reported(d)
        BY <1>2, <3>1 DEF Reported
      <4> QED
        BY <2>1, <3>1, <4>1, <4>2 DEF Nowhere
    <3> QED
      BY <3>2, <3>3
  <2> QED
    BY <1>7, <1>11, <2>1, <2>2, <2>3, <2>4 DEF Good, InOnePlace, Alone, Apart, Nowhere
<1> QED
  BY <1>9, <1>11, <1>12, <1>13 DEF Good, Closed

-----------------------------------------------------------------------------
(***************************************************************************)
(* The steps of a batch.                                                   *)
(***************************************************************************)
\* Rows are stored for the client, and nothing else about rows changes.
Filed(d, x, c, rows) ==
    /\ x.client = d.client /\ x.hashes = d.hashes /\ x.screen = d.screen
    /\ x.bypassed = d.bypassed /\ x.batch = d.batch
    /\ \A e \in Clients : Cells(x.transactions[e]) \subseteq
          Cells(d.transactions[e]) \cup (IF e = c THEN Lines(rows) ELSE {})

\* The rows are the batch's, or the screen's.
AtHand(d, c, rows) == \/ Running(d, c) /\ Lines(rows) \subseteq Lines(d.batch.all_txns)
                      \/ d.client = c /\ rows = d.screen

LEMMA FiledKept ==
    ASSUME NEW d, Kept(d), NEW c, NEW rows, AtHand(d, c, rows), NEW x, Filed(d, x, c, rows)
    PROVE  Kept(x)
<1>1. Backed(x)
  BY DEF Kept, Backed, Filed
<1>2. ASSUME NEW e \in Clients \ x.bypassed
      PROVE  OneId(InHand(x, e)) /\ BatchKnows(x, e) /\ ScreenKnows(x, e)
  <2>1. /\ Running(x, e) = Running(d, e) /\ e \in Clients \ d.bypassed
        /\ OneId(InHand(d, e)) /\ BatchKnows(d, e) /\ ScreenKnows(d, e)
    BY <1>2 DEF Kept, Traced, Prepared, Filed, Running
  <2>2. e = c => Lines(rows) \subseteq InHand(d, e)
    BY DEF AtHand, InHand
  <2>3. InHand(x, e) \subseteq InHand(d, e)
    <3>1. Cells(x.transactions[e]) \subseteq InHand(d, e)
      BY <2>2 DEF Filed, InHand
    <3> QED
      BY <2>1, <3>1 DEF Filed, InHand
  <2>4. OneId(InHand(x, e)) /\ KeysIn(InHand(x, e)) \subseteq KeysIn(InHand(d, e))
    BY <2>1, <2>3, Among
  <2>5. BatchKnows(x, e)
    BY <2>1, <2>4 DEF BatchKnows, Filed
  <2>6. ScreenKnows(x, e)
    <3> SUFFICES ASSUME ~Running(d, e), d.client = e
                 PROVE  KeysStored(x, e) \subseteq KeysOf(d.screen) \cup d.hashes[e]
      BY <2>1 DEF ScreenKnows, Filed
    <3>1. KeysStored(d, e) \subseteq KeysOf(d.screen) \cup d.hashes[e]
      BY <2>1 DEF ScreenKnows
    <3>2. Cells(x.transactions[e]) \subseteq Cells(d.transactions[e]) \cup Lines(d.screen)
      BY DEF Filed, AtHand
    <3>3. KeysIn(Cells(x.transactions[e])) \subseteq KeysIn(Cells(d.transactions[e])) \cup KeysIn(Lines(d.screen))
      <4>1. KeysIn(Cells(d.transactions[e]) \cup Lines(d.screen))
            = KeysIn(Cells(d.transactions[e])) \cup KeysIn(Lines(d.screen))
        BY Among
      <4>2. KeysIn(Cells(x.transactions[e])) \subseteq KeysIn(Cells(d.transactions[e]) \cup Lines(d.screen))
        BY <3>2, Among
      <4> QED
        BY <4>1, <4>2
    <3> QED
      BY <3>1, <3>3, KeyNames
  <2> QED
    BY <2>4, <2>5, <2>6
<1> QED
  BY <1>1, <1>2 DEF Kept, Traced, Prepared

Stored(d, x, c, rows) == x \in Desks /\ SamePlaces(d, x) /\ Filed(d, x, c, rows)

\* save_import and upsert_transactions, whichever of the two fails.
LEMMA Saved ==
    ASSUME NEW d \in Desks, NEW c \in Clients, NEW rows \in Seq(Rows),
           NEW x \in {SaveImport(d, c, rows).saved} \cup SaveImport(d, c, rows).failed
    PROVE  Stored(d, x, c, rows)
<1>1. PICK import \in Nat : import = Len(d.history) + 1
  BY Fields, LenProperties
<1>2. PICK past \in Seq(Nat) : past = Append(d.history, Len(rows))
  <2>1. Len(rows) \in Nat
    BY LenProperties
  <2> QED
    BY <2>1, Fields, AppendProperties
<1>3. PICK recorded : recorded = [d EXCEPT !.history = past]
  OBVIOUS
<1>4. recorded \in Desks /\ recorded.transactions = d.transactions /\ Stored(d, recorded, c, rows)
  <2>1. recorded \in Desks /\ recorded.transactions = d.transactions /\ SamePlaces(d, recorded)
    BY <1>2, <1>3 DEF Desks, SamePlaces
  <2>2. Filed(d, recorded, c, rows)
    BY <1>2, <1>3 DEF Desks, Filed
  <2> QED
    BY <2>1, <2>2 DEF Stored
<1>5. PICK old \in Tables : old = d.transactions[c]
  BY Fields
<1>6. PICK table \in Tables : table = upsert_transactions(old, import, rows)
                              /\ Cells(table) \subseteq Cells(old) \cup Lines(rows)
  BY Upserted
<1>7. PICK all \in [Clients -> Tables] : all = [d.transactions EXCEPT ![c] = table]
  BY <1>6, Fields
<1>8. \/ x = [recorded EXCEPT !.transactions = all]
      \/ \E y \in {d, recorded} : y.faults # MaxFaults /\ x = [y EXCEPT !.faults = @ + 1]
  <2>1. SaveImport(d, c, rows).saved = [recorded EXCEPT !.transactions = all]
    <3>1. SaveImport(d, c, rows).saved = [recorded EXCEPT !.transactions[c] = upsert_transactions(@, import, rows)]
      BY <1>1, <1>2, <1>3 DEF SaveImport
    <3>2. [recorded EXCEPT !.transactions[c] = upsert_transactions(@, import, rows)]
          = [recorded EXCEPT !.transactions =
                [recorded.transactions EXCEPT ![c] = upsert_transactions(recorded.transactions[c], import, rows)]]
      BY <1>4 DEF Desks
    <3> QED
      BY <1>4, <1>5, <1>6, <1>7, <3>1, <3>2
  <2>2. SaveImport(d, c, rows).failed = Faulty(d) \cup Faulty(recorded)
    BY <1>2, <1>3 DEF SaveImport
  <2> QED
    BY <2>1, <2>2 DEF Faulty
<1>9. CASE x = [recorded EXCEPT !.transactions = all]
  <2>1. x \in Desks /\ SamePlaces(d, x) /\ x.transactions = all
    BY <1>4, <1>7, <1>9 DEF Desks, SamePlaces, Stored
  <2>2. \A e \in Clients : Cells(all[e]) \subseteq Cells(d.transactions[e]) \cup (IF e = c THEN Lines(rows) ELSE {})
    <3> SUFFICES ASSUME NEW e \in Clients
                 PROVE  Cells(all[e]) \subseteq Cells(d.transactions[e]) \cup (IF e = c THEN Lines(rows) ELSE {})
      OBVIOUS
    <3>1. all[e] = IF e = c THEN table ELSE d.transactions[e]
      BY <1>7, Fields
    <3> QED
      BY <1>5, <1>6, <3>1
  <2>3. x.client = d.client /\ x.hashes = d.hashes /\ x.screen = d.screen
        /\ x.bypassed = d.bypassed /\ x.batch = d.batch
    BY <1>4, <1>9 DEF Desks, Stored, Filed
  <2> QED
    BY <2>1, <2>2, <2>3 DEF Stored, Filed
<1>10. ASSUME NEW y \in {d, recorded}, y.faults # MaxFaults, x = [y EXCEPT !.faults = @ + 1]
       PROVE  Stored(d, x, c, rows)
  <2>1. y \in Desks /\ y.transactions = d.transactions /\ SamePlaces(d, y)
        /\ y.client = d.client /\ y.hashes = d.hashes /\ y.screen = d.screen
        /\ y.bypassed = d.bypassed /\ y.batch = d.batch
    BY <1>4 DEF SamePlaces, Stored, Filed
  <2>2. x \in Desks
    BY <1>10, <2>1, Counted
  <2>3. x.transactions = y.transactions /\ SamePlaces(y, x)
        /\ x.client = y.client /\ x.hashes = y.hashes /\ x.screen = y.screen
        /\ x.bypassed = y.bypassed /\ x.batch = y.batch
    BY <1>10, <2>1 DEF Desks, SamePlaces
  <2> QED
    BY <2>1, <2>2, <2>3 DEF Stored, SamePlaces, Filed
<1> QED
  BY <1>8, <1>9, <1>10

\* Rows at hand are stored.
LEMMA StoredGood ==
    ASSUME NEW d, Good(d), NEW c, NEW rows, AtHand(d, c, rows), NEW x, Stored(d, x, c, rows)
    PROVE  Good(x)
<1>1. Kept(x)
  BY FiledKept DEF Good, Stored
<1>2. InOnePlace(x) /\ Closed(x)
  BY SamePlacesGood DEF Good, Stored
<1> QED
  BY <1>1, <1>2 DEF Good, Stored

Behind(d, rows) == [d EXCEPT !.batch.all_txns = @ \o rows]

\* What a file brings is put behind the rows of the batch.
LEMMA Grown ==
    ASSUME NEW d, Good(d), d.batch # NoBatch, NEW f \in Files, NEW fresh, fresh = new_txns(d.batch, f),
           NEW x, x = Behind(d, fresh)
    PROVE  /\ Good(x) /\ fresh \in Seq(Rows) /\ x.batch # NoBatch /\ d.batch.client \in Clients
           /\ AtHand(x, d.batch.client, fresh)
           /\ \A g : MayReport(d, g) => MayReport(x, g)
<1>1. d \in Desks /\ d.batch \in Batches /\ d.batch.client \in Clients
  BY Fields DEF Good, Batches
<1>2. PICK all \in Seq(Rows) : all = d.batch.all_txns
  BY <1>1 DEF Batches
<1>3. PICK known : known = KeysOf(all) \cup d.batch.persisted_hashes
  OBVIOUS
<1>4. fresh \in Seq(Rows) /\ OneId(Lines(fresh)) /\ KeysOf(fresh) \cap known = {}
  <2>1. fresh = Unknown(f, known)
    BY <1>2, <1>3 DEF new_txns
  <2> QED
    BY <2>1, FreshRows
<1>5. PICK both \in Seq(Rows) : both = all \o fresh /\ Lines(both) = Lines(all) \cup Lines(fresh)
  BY <1>4, Joined
<1>6. PICK b : b = [d.batch EXCEPT !.all_txns = both]
  OBVIOUS
<1>7. /\ b \in Batches /\ b.remaining = d.batch.remaining /\ b.results = d.batch.results
      /\ b.crossed = d.batch.crossed /\ b.all_txns = both /\ b.client = d.batch.client
      /\ b.persisted_hashes = d.batch.persisted_hashes
  BY <1>1, <1>5, <1>6 DEF Batches
<1>8. b # NoBatch
  BY <1>7, NamesAreApart
<1>9. x = [d EXCEPT !.batch = b]
  BY <1>1, <1>2, <1>5, <1>6 DEF Behind, Desks
<1>10. x \in Desks /\ SameRows(d, x) /\ x.batch = b /\ x.prompt = d.prompt /\ x.ocr = d.ocr
  BY <1>1, <1>7, <1>9 DEF Desks, SameRows
<1>11. AtHand(x, d.batch.client, fresh)
  BY <1>5, <1>7, <1>8, <1>10 DEF AtHand, Running
<1>12. Kept(x)
  <2>1. Backed(x)
    BY <1>7, <1>8, <1>10 DEF Good, Kept, Backed, SameRows
  <2>2. ASSUME NEW c \in Clients \ x.bypassed
        PROVE  OneId(InHand(x, c)) /\ BatchKnows(x, c) /\ ScreenKnows(x, c)
    <3>1. Running(x, c) = Running(d, c) /\ c \in Clients \ d.bypassed /\ KeysStored(x, c) = KeysStored(d, c)
      BY <1>7, <1>8, <1>10, <2>2 DEF Running, SameRows, KeysStored
    <3>2. OneId(InHand(d, c)) /\ BatchKnows(d, c) /\ ScreenKnows(d, c)
      BY <3>1 DEF Good, Kept, Traced, Prepared
    <3>3. ScreenKnows(x, c)
      BY <1>10, <3>1, <3>2 DEF ScreenKnows, SameRows
    <3>4. CASE ~Running(d, c)
      <4>1. InHand(x, c) = InHand(d, c)
        BY <1>10, <3>1, <3>4 DEF InHand, SameRows
      <4> QED
        BY <3>1, <3>2, <3>3, <3>4, <4>1 DEF BatchKnows
    <3>5. CASE Running(d, c)
      <4>1. InHand(x, c) = InHand(d, c) \cup Lines(fresh)
        BY <1>2, <1>5, <1>7, <1>10, <3>1, <3>5 DEF InHand, SameRows
      <4>2. KeysIn(InHand(d, c)) \subseteq known
        BY <1>2, <1>3, <3>2, <3>5 DEF BatchKnows
      <4>3. KeysIn(InHand(d, c)) \cap KeysIn(Lines(fresh)) = {}
        BY <1>4, <4>2, KeyNames
      <4>4. OneId(InHand(x, c)) /\ KeysIn(InHand(x, c)) = KeysIn(InHand(d, c)) \cup KeysOf(fresh)
        <5>1. OneId(InHand(d, c) \cup Lines(fresh))
              /\ KeysIn(InHand(d, c) \cup Lines(fresh)) = KeysIn(InHand(d, c)) \cup KeysIn(Lines(fresh))
          BY <1>4, <3>2, <4>3, Among
        <5> QED
          BY <4>1, <5>1, KeyNames
      <4>5. KeysOf(both) = KeysOf(all) \cup KeysOf(fresh)
        <5>1. KeysIn(Lines(all) \cup Lines(fresh)) = KeysIn(Lines(all)) \cup KeysIn(Lines(fresh))
          BY Among
        <5> QED
          BY <1>5, <5>1, KeyNames
      <4>6. KeysIn(InHand(x, c)) \subseteq KeysOf(x.batch.all_txns) \cup x.batch.persisted_hashes
        BY <1>3, <1>7, <1>10, <4>2, <4>4, <4>5
      <4> QED
        BY <3>3, <4>4, <4>6 DEF BatchKnows
    <3> QED
      BY <3>4, <3>5
  <2> QED
    BY <2>1, <2>2 DEF Kept, Traced, Prepared
<1>13. Clean(x) = Clean(d) /\ Queued(x) = Queued(d) /\ Reported(x) = Reported(d)
       /\ Waiting(x) = Waiting(d) /\ Reading(x) = Reading(d)
  BY <1>7, <1>8, <1>10 DEF Clean, Queued, Reported, Waiting, Reading
<1>14. InOnePlace(x)
  BY <1>7, <1>10, <1>13 DEF Good, InOnePlace, Alone, Apart
<1>15. \A g : MayReport(d, g) => MayReport(x, g)
  BY <1>13 DEF MayReport, Nowhere
<1> QED
  BY <1>1, <1>4, <1>7, <1>8, <1>10, <1>11, <1>12, <1>14, <1>15 DEF Good, Closed

\* record_batch_success
LEMMA SuccessGood ==
    ASSUME NEW d, Good(d), NEW f \in Files, MayReport(d, f), NEW x \in record_batch_success(d, f)
    PROVE  Good(x)
<1>1. CASE d.batch = NoBatch
  BY <1>1 DEF record_batch_success
<1>2. CASE d.batch # NoBatch
  <2>1. PICK fresh : fresh = new_txns(d.batch, f)
    OBVIOUS
  <2>2. PICK kept : kept = [d EXCEPT !.batch.all_txns = @ \o fresh]
    OBVIOUS
  <2>3. /\ Good(kept) /\ fresh \in Seq(Rows) /\ kept.batch # NoBatch /\ d.batch.client \in Clients
        /\ AtHand(kept, d.batch.client, fresh)
        /\ \A g : MayReport(d, g) => MayReport(kept, g)
    <3>1. kept = Behind(d, fresh)
      BY <2>2 DEF Behind
    <3> QED
      BY <1>2, <2>1, <3>1, Grown
  <2>4. MayReport(kept, f)
    BY <2>3
  <2>5. PICK save : save = SaveImport(kept, d.batch.client, fresh)
    OBVIOUS
  <2>6. \/ x = Report(kept, Result(f, TRUE))
        \/ x = Report(save.saved, Result(f, TRUE))
        \/ \E y \in save.failed : x = Report(y, Result(f, y.history = d.history))
    BY <1>2, <2>1, <2>2, <2>5 DEF record_batch_success
  <2>7. PICK y \in {kept, save.saved} \cup save.failed, ok \in BOOLEAN : x = Report(y, Result(f, ok))
    <3>1. CASE x = Report(kept, Result(f, TRUE))
      BY <3>1
    <3>2. CASE x = Report(save.saved, Result(f, TRUE))
      BY <3>2
    <3>3. ASSUME NEW y \in save.failed, x = Report(y, Result(f, y.history = d.history))
          PROVE  \E ok \in BOOLEAN : x = Report(y, Result(f, ok))
      <4>1. PICK ok \in BOOLEAN : ok = (y.history = d.history)
        OBVIOUS
      <4> QED
        BY <3>3, <4>1
    <3> QED
      BY <2>6, <3>1, <3>2, <3>3
  <2>8. CASE y = kept
    BY <2>3, <2>4, <2>7, <2>8, Told
  <2>9. CASE y \in {save.saved} \cup save.failed
    <3>1. Stored(kept, y, d.batch.client, fresh)
      BY <2>3, <2>5, <2>9, Saved DEF Good
    <3>2. Good(y)
      BY <2>3, <3>1, StoredGood
    <3>3. y.batch # NoBatch /\ MayReport(y, f)
      BY <2>3, <2>4, <3>1, SameMayReport DEF Stored, SamePlaces
    <3> QED
      BY <2>7, <3>2, <3>3, Told
  <2> QED
    BY <2>7, <2>8, <2>9
<1> QED
  BY <1>1, <1>2

\* record_batch_failure
LEMMA FailureGood ==
    ASSUME NEW d, Good(d), NEW f \in Files \cup {NoFile}, MayReport(d, f)
    PROVE  Good(record_batch_failure(d, f))
BY Told DEF record_batch_failure

-----------------------------------------------------------------------------
(***************************************************************************)
(* The files of a batch, taken, asked about, read and given up.            *)
(***************************************************************************)
\* What is stored for a batch's client is in the batch, or its hash is.
LEMMA StoredIsKnown ==
    ASSUME NEW d, Backed(d), Traced(d), NEW c \in Clients \ d.bypassed, Running(d, c)
    PROVE  KeysStored(d, c) \subseteq KeysOf(d.batch.all_txns) \cup d.hashes[c]
<1>1. KeysIn(InHand(d, c)) \subseteq KeysOf(d.batch.all_txns) \cup d.batch.persisted_hashes
  BY DEF Traced, BatchKnows
<1>2. KeysIn(Cells(d.transactions[c])) \subseteq KeysIn(InHand(d, c))
  <2>1. Cells(d.transactions[c]) \subseteq InHand(d, c)
    BY DEF InHand
  <2> QED
    BY <2>1, Among
<1>3. d.batch.persisted_hashes \subseteq d.hashes[c]
  BY DEF Backed, Running
<1> QED
  BY <1>1, <1>2, <1>3, KeyNames

\* finish_batch: the rows of the batch come on the screen, or nothing was read.
LEMMA FinishGood ==
    ASSUME NEW d, Good(d), NEW x \in finish_batch(d)
    PROVE  Good(x)
<1>1. CASE d.batch = NoBatch
  BY <1>1 DEF finish_batch
<1>2. CASE d.batch # NoBatch
  <2>1. d \in Desks /\ d.batch \in Batches /\ d.prompt \in [file : Files \cup {NoFile}, visible : BOOLEAN]
    BY <1>2, Fields DEF Good
  <2>2. PICK all \in Seq(Rows), c \in Clients : all = d.batch.all_txns /\ c = d.batch.client
    BY <2>1 DEF Batches
  <2>3. PICK closed : closed = [d EXCEPT !.batch = NoBatch]
    OBVIOUS
  <2>4. /\ closed \in Desks /\ closed.batch = NoBatch /\ SameRows(d, closed)
        /\ closed.prompt = d.prompt /\ closed.faults = d.faults
    BY <2>1, <2>3 DEF Desks, SameRows
  <2>5. CASE all = <<>>
    <3>1. x = closed
      BY <1>2, <2>2, <2>3, <2>5 DEF finish_batch
    <3>2. ASSUME NEW e \in Clients \ closed.bypassed
          PROVE  OneId(InHand(closed, e)) /\ BatchKnows(closed, e) /\ ScreenKnows(closed, e)
      <4>1. e \in Clients \ d.bypassed /\ ~Running(closed, e) /\ KeysStored(closed, e) = KeysStored(d, e)
        BY <2>4, <3>2 DEF SameRows, Running, KeysStored
      <4>2. OneId(InHand(d, e)) /\ ScreenKnows(d, e) /\ Backed(d) /\ Traced(d)
        BY <4>1 DEF Good, Kept, Traced, Prepared
      <4>3. InHand(closed, e) \subseteq InHand(d, e)
        BY <2>4, <4>1 DEF SameRows, InHand
      <4>4. ScreenKnows(closed, e)
        <5>1. CASE Running(d, e)
          <6>1. KeysStored(d, e) \subseteq KeysOf(all) \cup d.hashes[e]
            BY <2>2, <4>1, <4>2, <5>1, StoredIsKnown
          <6>2. KeysOf(all) = {}
            BY <2>5 DEF KeysOf
          <6> QED
            BY <2>4, <4>1, <6>1, <6>2 DEF SameRows, ScreenKnows
        <5>2. CASE ~Running(d, e)
          BY <2>4, <4>1, <4>2, <5>2 DEF SameRows, ScreenKnows
        <5> QED
          BY <5>1, <5>2
      <4> QED
        BY <4>1, <4>2, <4>3, <4>4, Among DEF BatchKnows
    <3>3. Kept(closed)
      BY <2>4, <3>2 DEF Kept, Backed, Traced, Prepared
    <3> QED
      BY <2>4, <3>1, <3>3 DEF Good, InOnePlace, Clean, Closed
  <2>6. CASE all # <<>>
    <3>1. PICK shown : shown = [closed EXCEPT !.screen = all, !.bypassed = @ \cup ({d.client} \ {c})]
      OBVIOUS
    <3>2. /\ shown \in Desks /\ shown.batch = NoBatch /\ shown.screen = all /\ shown.transactions = d.transactions
          /\ shown.bypassed = d.bypassed \cup ({d.client} \ {c}) /\ shown.prompt = d.prompt
          /\ shown.client = d.client /\ shown.hashes = d.hashes /\ shown.faults = d.faults
      <4>1. d.client \in Clients
        BY <2>1, Fields
      <4> QED
        BY <2>4, <3>1, <4>1 DEF Desks, SameRows
    <3>3. ASSUME NEW e \in Clients \ shown.bypassed
          PROVE  OneId(InHand(shown, e)) /\ BatchKnows(shown, e) /\ ScreenKnows(shown, e)
      <4>1. e \in Clients \ d.bypassed /\ ~Running(shown, e) /\ KeysStored(shown, e) = KeysStored(d, e)
        BY <3>2, <3>3 DEF Running, KeysStored
      <4>2. OneId(InHand(d, e)) /\ Backed(d) /\ Traced(d)
        BY <4>1 DEF Good, Kept, Traced
      <4>3. d.client = e => Running(d, e)
        BY <1>2, <2>2, <3>2, <3>3 DEF Running
      <4>4. InHand(shown, e) \subseteq InHand(d, e)
        BY <2>2, <3>2, <4>1, <4>3 DEF InHand
      <4>5. ScreenKnows(shown, e)
        <5> SUFFICES ASSUME d.client = e PROVE KeysStored(d, e) \subseteq KeysOf(all) \cup d.hashes[e]
          BY <3>2, <4>1 DEF ScreenKnows
        <5> QED
          BY <2>2, <4>1, <4>2, <4>3, StoredIsKnown
      <4> QED
        BY <4>1, <4>2, <4>4, <4>5, Among DEF BatchKnows
    <3>4. Good(shown)
      <4>1. Kept(shown)
        BY <3>2, <3>3 DEF Kept, Backed, Traced, Prepared
      <4> QED
        BY <3>2, <4>1 DEF Good, InOnePlace, Clean, Closed
    <3>5. CASE x = [shown EXCEPT !.hashes[c] = @ \cup KeysOf(all)]
      BY <2>2, <3>4, <3>5, NotedGood
    <3>6. CASE x \in Faulty(shown)
      BY <3>4, <3>6, CountedGood DEF Faulty
    <3>7. finish_batch(d) = {[shown EXCEPT !.hashes[c] = @ \cup KeysOf(all)]} \cup Faulty(shown)
      BY <1>2, <2>2, <2>3, <2>6, <3>1 DEF finish_batch
    <3> QED
      BY <3>5, <3>6, <3>7
  <2> QED
    BY <2>5, <2>6
<1> QED
  BY <1>1, <1>2

\* The next file of the queue is taken out of it.
LEMMA Taken ==
    ASSUME NEW d, Good(d), d.batch # NoBatch, d.batch.remaining # <<>>,
           NEW x, x = [d EXCEPT !.batch.remaining = Tail(@)],
           NEW f, f = Head(d.batch.remaining)
    PROVE  Good(x) /\ f \in Files /\ MayReport(x, f)
<1>1. d \in Desks /\ d.batch \in Batches
  BY Fields DEF Good
<1>2. PICK rem \in Seq(Files) : rem = d.batch.remaining
  BY <1>1 DEF Batches
<1>3. PICK rest : rest = Tail(rem)
  OBVIOUS
<1>4. /\ rest \in Seq(Files) /\ f \in Files /\ f = rem[1] /\ 1 \in DOMAIN rem
      /\ \A n \in DOMAIN rest : n + 1 \in DOMAIN rem /\ n + 1 # 1 /\ rest[n] = rem[n + 1]
      /\ \A m, n \in DOMAIN rest : m # n => m + 1 # n + 1
  <2>1. /\ Len(rem) \in Nat /\ Len(rem) > 0 /\ DOMAIN rem = 1..Len(rem)
        /\ rest \in Seq(Files) /\ f \in Files /\ Len(rest) = Len(rem) - 1 /\ DOMAIN rest = 1..Len(rest)
        /\ \A n \in 1..Len(rest) : rest[n] = rem[n + 1]
    <3>1. rem # <<>>
      BY <1>2
    <3>2. Len(rem) \in Nat /\ DOMAIN rem = 1..Len(rem) /\ Len(rem) > 0
      BY <3>1, LenProperties, EmptySeq
    <3>3. /\ rest \in Seq(Files) /\ Head(rem) \in Files /\ Len(rest) = Len(rem) - 1
          /\ \A n \in 1..Len(rest) : rest[n] = rem[n + 1]
      BY <1>3, <3>1, HeadTailProperties
    <3>4. DOMAIN rest = 1..Len(rest)
      BY <3>3, LenProperties
    <3> QED
      BY <1>2, <3>2, <3>3, <3>4
  <2>2. f = rem[1]
    BY <1>2
  <2> QED
    BY <2>1, <2>2
<1>5. PICK b : b = [d.batch EXCEPT !.remaining = rest]
  OBVIOUS
<1>6. /\ b \in Batches /\ b.remaining = rest /\ b.results = d.batch.results
      /\ b.crossed = d.batch.crossed /\ SameBatch(d.batch, b)
  BY <1>1, <1>4, <1>5 DEF Batches, SameBatch
<1>7. b # NoBatch
  BY <1>6, NamesAreApart
<1>8. x = [d EXCEPT !.batch = b]
  BY <1>1, <1>2, <1>3, <1>5 DEF Desks
<1>9. x \in Desks /\ SameRows(d, x) /\ x.batch = b /\ x.prompt = d.prompt /\ x.ocr = d.ocr
  BY <1>1, <1>6, <1>8 DEF Desks, SameRows
<1>10. Kept(x)
  <2>1. SameKnown(d, x)
    BY <1>6, <1>7, <1>9 DEF SameKnown, SameBatch
  <2> QED
    BY <1>9, <2>1, SameKept DEF Good
<1>11. /\ Clean(x) = Clean(d) /\ Reported(x) = Reported(d)
       /\ Waiting(x) = Waiting(d) /\ Reading(x) = Reading(d)
  BY <1>6, <1>7, <1>9 DEF Clean, Reported, Waiting, Reading
<1>12. Queued(x) \subseteq Queued(d) /\ f \in Queued(d)
  <2>1. Queued(x) = {rest[n] : n \in DOMAIN rest} /\ Queued(d) = {rem[n] : n \in DOMAIN rem}
    BY <1>2, <1>6, <1>9 DEF Queued
  <2> QED
    BY <1>4, <2>1
<1>13. ASSUME Clean(d)
       PROVE  /\ f \notin Queued(x)
              /\ \A m, n \in DOMAIN rest : m # n => rest[m] # rest[n]
  <2>1. \A m, n \in DOMAIN rem : m # n => rem[m] # rem[n]
    BY <1>2, <1>13 DEF Good, InOnePlace, Alone, Apart
  <2>2. Queued(x) = {rest[n] : n \in DOMAIN rest}
    BY <1>6, <1>9 DEF Queued
  <2>3. f \notin Queued(x)
    <3> SUFFICES ASSUME NEW n \in DOMAIN rest PROVE rest[n] # f
      BY <2>2
    <3>1. n + 1 \in DOMAIN rem /\ 1 \in DOMAIN rem /\ n + 1 # 1 /\ rest[n] = rem[n + 1] /\ f = rem[1]
      BY <1>4
    <3> QED
      BY <2>1, <3>1
  <2>4. ASSUME NEW m \in DOMAIN rest, NEW n \in DOMAIN rest, m # n
        PROVE  rest[m] # rest[n]
    <3>1. /\ m + 1 \in DOMAIN rem /\ n + 1 \in DOMAIN rem /\ m + 1 # n + 1
          /\ rest[m] = rem[m + 1] /\ rest[n] = rem[n + 1]
      BY <1>4, <2>4
    <3> QED
      BY <2>1, <3>1
  <2> QED
    BY <2>3, <2>4
<1>14. InOnePlace(x)
  <2>1. Clean(d) => Alone(x.batch.remaining, x.batch.results, x.ocr)
    <3>1. x.batch.remaining = rest /\ x.batch.results = d.batch.results /\ x.ocr = d.ocr
      BY <1>6, <1>9
    <3>2. Clean(d) => Alone(d.batch.remaining, d.batch.results, d.ocr)
      BY DEF Good, InOnePlace
    <3> QED
      <4>1. ASSUME Clean(d) PROVE \A m, n \in DOMAIN rest : m # n => rest[m] # rest[n]
        BY <1>13, <4>1
      <4>2. Clean(d) => Alone(rest, d.batch.results, d.ocr)
        BY <3>2, <4>1 DEF Alone
      <4> QED
        BY <3>1, <4>2
  <2>2. Clean(d) => Apart(Queued(x), Reported(x), Waiting(x), Reading(x))
    BY <1>11, <1>12 DEF Good, InOnePlace, Apart
  <2> QED
    BY <1>11, <2>1, <2>2 DEF InOnePlace
<1>15. MayReport(x, f)
  BY <1>11, <1>12, <1>13 DEF Good, InOnePlace, Alone, Apart, MayReport, Nowhere
<1> QED
  BY <1>4, <1>9, <1>10, <1>14, <1>15 DEF Good, Closed

\* The user is asked for the password of the file.
LEMMA Prompted ==
    ASSUME NEW d, Good(d), NEW f \in Files, MayReport(d, f),
           NEW x, x = [d EXCEPT !.prompt = [file |-> f, visible |-> TRUE]]
    PROVE  Good(x)
<1>1. d \in Desks
  BY DEF Good
<1>2. PICK p \in [file : Files \cup {NoFile}, visible : BOOLEAN] :
        p = [file |-> f, visible |-> TRUE] /\ p.file = f /\ p.visible
  <2>1. [file |-> f, visible |-> TRUE] \in [file : Files \cup {NoFile}, visible : BOOLEAN]
    OBVIOUS
  <2> QED
    BY <2>1
<1>3. x \in Desks /\ SameRows(d, x) /\ x.batch = d.batch /\ x.prompt = p /\ x.ocr = d.ocr
  BY <1>1, <1>2 DEF Desks, SameRows
<1>4. Kept(x)
  <2>1. SameKnown(d, x)
    BY <1>3 DEF SameKnown, SameBatch
  <2> QED
    BY <1>3, <2>1, SameKept DEF Good
<1>5. /\ Clean(x) = Clean(d) /\ Queued(x) = Queued(d) /\ Reported(x) = Reported(d)
      /\ Reading(x) = Reading(d) /\ Waiting(x) = {f}
  BY <1>2, <1>3 DEF Clean, Queued, Reported, Waiting, Reading
<1>6. InOnePlace(x)
  <2>1. Clean(d) => Alone(x.batch.remaining, x.batch.results, x.ocr)
    BY <1>3 DEF Good, InOnePlace, Alone
  <2>2. Clean(d) => Apart(Queued(x), Reported(x), Waiting(x), Reading(x))
    BY <1>5 DEF Good, InOnePlace, MayReport, Nowhere, Apart
  <2> QED
    BY <1>5, <2>1, <2>2 DEF InOnePlace
<1> QED
  BY <1>2, <1>3, <1>4, <1>6 DEF Good, Closed

\* process_next: the file is recorded, or its password asked for.
LEMMA ProcessNextGood ==
    ASSUME NEW d, Good(d), NEW f \in Files, MayReport(d, f), NEW x \in process_next(d, f)
    PROVE  Good(x)
<1>1. CASE f \in Locked
  BY <1>1, Prompted DEF process_next
<1>2. CASE f \notin Locked
  <2>1. PICK y \in record_batch_success(d, f) \cup {record_batch_failure(d, f)} :
          x = [y EXCEPT !.timers = @ + 1]
    BY <1>2 DEF process_next
  <2>2. Good(y)
    BY <2>1, SuccessGood, FailureGood
  <2> QED
    BY <2>1, <2>2, CountedGood
<1> QED
  BY <1>1, <1>2

\* continue_batch
LEMMA ContinueGood ==
    ASSUME NEW d, Good(d), NEW x \in continue_batch(d)
    PROVE  Good(x)
<1>1. CASE d.batch = NoBatch \/ d.batch.paused
  BY <1>1 DEF continue_batch
<1>2. CASE d.batch # NoBatch /\ ~d.batch.paused /\ d.batch.remaining = <<>>
  BY <1>2, FinishGood DEF continue_batch
<1>3. CASE d.batch # NoBatch /\ ~d.batch.paused /\ d.batch.remaining # <<>>
  <2>1. PICK y : y = [d EXCEPT !.batch.remaining = Tail(@)]
    OBVIOUS
  <2>2. PICK f : f = Head(d.batch.remaining)
    OBVIOUS
  <2>3. x \in process_next(y, f)
    BY <1>3, <2>1, <2>2 DEF continue_batch
  <2>4. Good(y) /\ f \in Files /\ MayReport(y, f)
    BY <1>3, <2>1, <2>2, Taken
  <2> QED
    BY <2>3, <2>4, ProcessNextGood
<1> QED
  BY <1>1, <1>2, <1>3

\* A batch that meets another's prompt or thread is not clean from then on.
LEMMA CrossedGood ==
    ASSUME NEW d, Good(d), NEW x, x = Crossed(d)
    PROVE  Good(x) /\ ~Clean(x) /\ SameRows(d, x) /\ SameKnown(d, x) /\ x.prompt = d.prompt
<1>1. d \in Desks
  BY DEF Good
<1>2. CASE d.batch = NoBatch
  BY <1>2 DEF Crossed, Clean, SameRows, SameKnown
<1>3. CASE d.batch # NoBatch
  <2>1. d.batch \in Batches
    BY <1>1, <1>3, Fields
  <2>2. PICK b : b = [d.batch EXCEPT !.crossed = TRUE]
    OBVIOUS
  <2>3. b \in Batches /\ b.crossed /\ SameBatch(d.batch, b)
    BY <2>1, <2>2 DEF Batches, SameBatch
  <2>4. b # NoBatch
    BY <2>3, NamesAreApart
  <2>5. x = [d EXCEPT !.batch = b]
    BY <1>1, <1>3, <2>2 DEF Crossed, Desks
  <2>6. x \in Desks /\ SameRows(d, x) /\ x.batch = b /\ x.prompt = d.prompt
    BY <1>1, <2>3, <2>5 DEF Desks, SameRows
  <2>7. SameKnown(d, x) /\ ~Clean(x)
    BY <1>3, <2>3, <2>4, <2>6 DEF SameKnown, Clean
  <2>8. Kept(x)
    BY <2>6, <2>7, SameKept DEF Good
  <2> QED
    BY <2>6, <2>7, <2>8 DEF Good, InOnePlace, Closed
<1> QED
  BY <1>2, <1>3

\* apply_parse_result: rows that were compared with these keys are stored and shown.
LEMMA AppliedGood ==
    ASSUME NEW d, Good(d), NEW rows \in Seq(Rows), OneId(Lines(rows)),
           NEW known, KeysOf(rows) \cap known = {}, known \subseteq d.hashes[d.client],
           NEW x \in apply_parse_result(d, rows, known)
    PROVE  Good(x)
<1>1. d \in Desks /\ d.client \in Clients /\ d.prompt \in [file : Files \cup {NoFile}, visible : BOOLEAN]
  BY Fields DEF Good
<1>2. PICK met : met = IF d.prompt.file = NoFile THEN d ELSE Crossed(d)
  OBVIOUS
<1>3. /\ Good(met) /\ met \in Desks /\ SameRows(d, met) /\ SameKnown(d, met) /\ met.prompt = d.prompt
      /\ d.prompt.file # NoFile => ~Clean(met)
  <2>1. SameRows(d, d) /\ SameKnown(d, d)
    BY DEF SameRows, SameKnown, SameBatch
  <2>2. CASE d.prompt.file = NoFile
    BY <1>2, <2>1, <2>2 DEF Good
  <2>3. CASE d.prompt.file # NoFile
    BY <1>2, <2>3, CrossedGood DEF Good
  <2> QED
    BY <2>2, <2>3
<1>4. PICK more \in SUBSET Clients : more = IF Running(d, d.client) THEN {d.client} ELSE Missed(d, d.client, known)
  BY <1>1 DEF Missed
<1>5. PICK p \in [file : Files \cup {NoFile}, visible : BOOLEAN] :
        p = [d.prompt EXCEPT !.file = NoFile] /\ p.file = NoFile /\ p.visible = d.prompt.visible
  <2>1. PICK q \in [file : Files \cup {NoFile}, visible : BOOLEAN] : q = d.prompt
    BY <1>1
  <2>2. PICK p : p = [q EXCEPT !.file = NoFile]
    OBVIOUS
  <2>3. p \in [file : Files \cup {NoFile}, visible : BOOLEAN] /\ p.file = NoFile /\ p.visible = q.visible
    BY <2>2
  <2> QED
    BY <2>1, <2>2, <2>3
<1>6. PICK z : z = [met EXCEPT !.screen = rows, !.prompt = p, !.bypassed = @ \cup more]
  OBVIOUS
<1>7. /\ z \in Desks /\ z.client = d.client /\ z.transactions = d.transactions /\ z.hashes = d.hashes
      /\ z.screen = rows /\ z.batch = met.batch /\ z.prompt = p /\ z.ocr = met.ocr
      /\ z.bypassed = d.bypassed \cup more
  BY <1>3, <1>4, <1>5, <1>6 DEF Desks, SameRows
<1>8. Kept(z)
  <2>1. Backed(z)
    BY <1>3, <1>7 DEF Good, Kept, Backed, SameRows
  <2>2. ASSUME NEW e \in Clients \ z.bypassed
        PROVE  OneId(InHand(z, e)) /\ BatchKnows(z, e) /\ ScreenKnows(z, e)
    <3>1. /\ e \in Clients \ met.bypassed /\ Running(z, e) = Running(met, e) /\ Running(met, e) = Running(d, e)
          /\ KeysStored(z, e) = KeysStored(d, e)
      BY <1>3, <1>7, <2>2 DEF SameRows, SameKnown, SameBatch, Running, KeysStored
    <3>2. OneId(InHand(met, e)) /\ BatchKnows(met, e)
      BY <1>3, <3>1 DEF Good, Kept, Traced
    <3>3. CASE e # d.client
      <4>1. InHand(z, e) = InHand(met, e)
        BY <1>3, <1>7, <3>1, <3>3 DEF InHand, SameRows
      <4> QED
        BY <1>7, <3>1, <3>2, <3>3, <4>1 DEF BatchKnows, ScreenKnows
    <3>4. CASE e = d.client
      <4>1. ~Running(d, e) /\ KeysStored(d, e) \subseteq known
        BY <1>4, <1>7, <2>2, <3>4 DEF Missed
      <4>2. InHand(z, e) = Cells(d.transactions[e]) \cup Lines(rows)
        BY <1>7, <3>1, <3>4, <4>1 DEF InHand
      <4>3. Cells(d.transactions[e]) \subseteq InHand(met, e)
        BY <1>3 DEF InHand, SameRows
      <4>4. OneId(Cells(d.transactions[e]))
        BY <3>2, <4>3, Among
      <4>5. KeysIn(Cells(d.transactions[e])) \cap KeysIn(Lines(rows)) = {}
        BY <4>1, KeyNames
      <4>6. OneId(InHand(z, e))
        <5>1. OneId(Cells(d.transactions[e]) \cup Lines(rows))
          BY <4>4, <4>5, Among
        <5> QED
          BY <4>2, <5>1
      <4> QED
        BY <1>7, <3>1, <3>4, <4>1, <4>6 DEF BatchKnows, ScreenKnows
    <3> QED
      BY <3>3, <3>4
  <2> QED
    BY <2>1, <2>2 DEF Kept, Traced, Prepared
<1>9. Good(z)
  <2>1. Closed(z)
    BY <1>5, <1>7 DEF Closed
  <2>2. InOnePlace(z)
    <3>1. CASE d.prompt.file = NoFile
      <4>1. p = d.prompt
        BY <1>1, <1>5, <3>1
      <4>2. SamePlaces(met, z)
        BY <1>3, <1>7, <4>1 DEF SamePlaces
      <4> QED
        BY <1>3, <4>2, SamePlacesGood DEF Good
    <3>2. CASE d.prompt.file # NoFile
      BY <1>3, <1>7, <3>2 DEF InOnePlace, Clean
    <3> QED
      BY <3>1, <3>2
  <2> QED
    BY <1>7, <1>8, <2>1, <2>2 DEF Good
<1>10. PICK save : save = SaveImport(met, d.client, rows)
  OBVIOUS
<1>11. PICK y \in {save.saved} \cup save.failed :
         x = [y EXCEPT !.screen = rows, !.prompt.file = NoFile, !.bypassed = @ \cup more]
  BY <1>2, <1>4, <1>10 DEF apply_parse_result
<1>12. Stored(met, y, d.client, rows)
  BY <1>1, <1>3, <1>10, <1>11, Saved
<1>13. /\ y \in Desks /\ y.client = d.client /\ y.hashes = d.hashes /\ y.bypassed = d.bypassed
       /\ y.batch = met.batch /\ y.prompt = d.prompt /\ y.ocr = met.ocr
  BY <1>3, <1>12 DEF Stored, Filed, SamePlaces, SameRows
<1>14. x = [y EXCEPT !.screen = rows, !.prompt = p, !.bypassed = @ \cup more]
  BY <1>5, <1>11, <1>13 DEF Desks
<1>15. /\ x \in Desks /\ x.client = d.client /\ x.hashes = d.hashes /\ x.bypassed = d.bypassed \cup more
       /\ x.batch = met.batch /\ x.prompt = p /\ x.ocr = met.ocr /\ x.screen = rows
       /\ x.transactions = y.transactions
  BY <1>4, <1>13, <1>14 DEF Desks
<1>16. Stored(z, x, d.client, rows)
  <2>1. \A e \in Clients : Cells(x.transactions[e]) \subseteq
           Cells(z.transactions[e]) \cup (IF e = d.client THEN Lines(rows) ELSE {})
    BY <1>3, <1>7, <1>12, <1>15 DEF Stored, Filed, SameRows
  <2> QED
    BY <1>7, <1>15, <2>1 DEF Stored, Filed, SamePlaces
<1> QED
  BY <1>7, <1>9, <1>16, StoredGood DEF AtHand

\* A file is compared with these keys.
LEMMA StoreUnknownGood ==
    ASSUME NEW d, Good(d), NEW f \in Files, NEW known, known \subseteq d.hashes[d.client],
           NEW x \in StoreUnknown(d, f, known)
    PROVE  Good(x)
<1>1. d \in Desks /\ d.client \in Clients
  BY Fields DEF Good
<1>2. PICK fresh : fresh = Unknown(f, known)
  OBVIOUS
<1>3. fresh \in Seq(Rows) /\ OneId(Lines(fresh)) /\ KeysOf(fresh) \cap known = {}
  BY <1>2, FreshRows
<1>4. PICK noted : noted = [d EXCEPT !.hashes[d.client] = @ \cup KeysOf(fresh)]
  OBVIOUS
<1>5. Good(noted) /\ noted.client = d.client /\ known \subseteq noted.hashes[noted.client]
  BY <1>1, <1>3, <1>4, NotedGood
<1>6. ASSUME NEW y \in Faulty(d) PROVE Good(y) /\ known \subseteq y.hashes[y.client]
  <2>1. d.faults # MaxFaults /\ y = [d EXCEPT !.faults = @ + 1]
    BY DEF Faulty
  <2>2. y.hashes = d.hashes /\ y.client = d.client
    BY <1>1, <2>1 DEF Desks
  <2> QED
    BY <2>1, <2>2, CountedGood
<1>7. \/ x = d
      \/ \E y \in {noted} \cup Faulty(d) : x \in apply_parse_result(y, fresh, known)
  BY <1>2, <1>4 DEF StoreUnknown
<1> QED
  BY <1>3, <1>5, <1>6, <1>7, AppliedGood

\* finish_load_file: the hashes were read or not, or nothing is compared.
LEMMA LoadedGood ==
    ASSUME NEW d, Good(d), NEW f \in Files, NEW x \in finish_load_file(d, f)
    PROVE  Good(x)
<1>1. CASE x \in StoreUnknown(d, f, d.hashes[d.client])
  BY <1>1, StoreUnknownGood
<1>2. ASSUME NEW y \in Faulty(d), x \in StoreUnknown(y, f, {})
      PROVE  Good(x)
  <2>1. Good(y)
    BY CountedGood DEF Faulty
  <2> QED
    BY <1>2, <2>1, StoreUnknownGood
<1>3. CASE x \in apply_parse_result(d, parse(f), {})
  BY <1>3, WholeFile, AppliedGood
<1> QED
  BY <1>1, <1>2, <1>3 DEF finish_load_file

\* The file was read.
LEMMA OpenedGood ==
    ASSUME NEW d, Good(d), NEW f \in Files, NEW in_batch, in_batch => MayReport(d, f),
           NEW x \in Opened(d, f, in_batch)
    PROVE  Good(x)
<1>1. CASE in_batch
  <2>1. PICK y \in record_batch_success(d, f) : x \in continue_batch(y)
    BY <1>1 DEF Opened
  <2> QED
    BY <1>1, <2>1, SuccessGood, ContinueGood
<1>2. CASE ~in_batch
  BY <1>2, WholeFile, AppliedGood DEF Opened
<1> QED
  BY <1>1, <1>2

\* The file was not read.
LEMMA NotOpenedGood ==
    ASSUME NEW d, Good(d), NEW f \in Files \cup {NoFile}, NEW in_batch, in_batch => MayReport(d, f),
           NEW x \in NotOpened(d, f, in_batch)
    PROVE  Good(x)
<1>1. CASE in_batch
  BY <1>1, FailureGood, ContinueGood DEF NotOpened
<1>2. CASE ~in_batch
  BY <1>2 DEF NotOpened
<1> QED
  BY <1>1, <1>2

\* The prompt is closed, and its file is in the hands of the handler.
LEMMA AnsweredGood ==
    ASSUME NEW d, Good(d), d.prompt.visible, NEW x, x = [d EXCEPT !.prompt = NoPrompt]
    PROVE  Good(x) /\ MayReport(x, d.prompt.file) /\ x.batch = d.batch
<1>1. d \in Desks
  BY DEF Good
<1>2. PICK p \in [file : Files \cup {NoFile}, visible : BOOLEAN] : p = NoPrompt /\ p.file = NoFile /\ ~p.visible
  <2>1. NoPrompt \in [file : Files \cup {NoFile}, visible : BOOLEAN]
    BY DEF NoPrompt
  <2> QED
    BY <2>1 DEF NoPrompt
<1>3. x \in Desks /\ SameRows(d, x) /\ x.batch = d.batch /\ x.prompt = p /\ x.ocr = d.ocr
  BY <1>1, <1>2 DEF Desks, SameRows
<1>4. Kept(x)
  <2>1. SameKnown(d, x)
    BY <1>3 DEF SameKnown, SameBatch
  <2> QED
    BY <1>3, <2>1, SameKept DEF Good
<1>5. /\ Clean(x) = Clean(d) /\ Queued(x) = Queued(d) /\ Reported(x) = Reported(d)
      /\ Reading(x) = Reading(d) /\ Waiting(x) = {} /\ Waiting(d) = {d.prompt.file}
  BY <1>2, <1>3 DEF Clean, Queued, Reported, Waiting, Reading
<1>6. InOnePlace(x)
  BY <1>3, <1>5 DEF Good, InOnePlace, Alone, Apart
<1>7. MayReport(x, d.prompt.file)
  BY <1>5 DEF Good, InOnePlace, Alone, Apart, MayReport, Nowhere
<1> QED
  BY <1>2, <1>3, <1>4, <1>6, <1>7 DEF Good, Closed

\* A thread ends, and its file is in the hands of the handler.
LEMMA EndedGood ==
    ASSUME NEW d, Good(d), NEW o \in d.ocr, NEW x, x = [d EXCEPT !.ocr = @ \ {o}]
    PROVE  Good(x) /\ o.file \in Files /\ MayReport(x, o.file)
<1>1. d \in Desks /\ d.ocr \in SUBSET Threads
  BY Fields DEF Good
<1>2. PICK left : left = d.ocr \ {o}
  OBVIOUS
<1>3. x \in Desks /\ SameRows(d, x) /\ x.batch = d.batch /\ x.prompt = d.prompt /\ x.ocr = left
  BY <1>1, <1>2 DEF Desks, SameRows
<1>4. o \in Threads /\ o.file \in Files
  BY <1>1 DEF Threads
<1>5. Kept(x)
  <2>1. SameKnown(d, x)
    BY <1>3 DEF SameKnown, SameBatch
  <2> QED
    BY <1>3, <2>1, SameKept DEF Good
<1>6. /\ Clean(x) = Clean(d) /\ Queued(x) = Queued(d) /\ Reported(x) = Reported(d)
      /\ Waiting(x) = Waiting(d) /\ Reading(x) \subseteq Reading(d) /\ o.file \in Reading(d)
  BY <1>2, <1>3 DEF Clean, Queued, Reported, Waiting, Reading
<1>7. ASSUME Clean(d)
      PROVE  o.in_batch /\ o.file \notin Reading(x)
  <2>1. \A t \in d.ocr : t.in_batch
    BY <1>7 DEF Good, InOnePlace, Alone, Apart
  <2>2. \A t \in d.ocr : t.file = o.file => t = o
    BY <1>1, <2>1 DEF Threads
  <2> QED
    BY <1>2, <1>3, <2>1, <2>2 DEF Reading
<1>8. InOnePlace(x)
  <2>1. Clean(d) => Alone(x.batch.remaining, x.batch.results, x.ocr)
    BY <1>2, <1>3 DEF Good, InOnePlace, Alone
  <2>2. Clean(d) => Apart(Queued(x), Reported(x), Waiting(x), Reading(x))
    BY <1>6 DEF Good, InOnePlace, Apart
  <2> QED
    BY <1>6, <2>1, <2>2 DEF InOnePlace
<1>9. MayReport(x, o.file)
  BY <1>6, <1>7 DEF Good, InOnePlace, Alone, Apart, MayReport, Nowhere
<1> QED
  BY <1>3, <1>4, <1>5, <1>6, <1>7, <1>8, <1>9 DEF Good, Closed

\* A thread is started for the file.
LEMMA StartedGood ==
    ASSUME NEW d, Good(d), NEW f \in Files, MayReport(d, f), NEW in_batch \in BOOLEAN, Clean(d) => in_batch,
           NEW x, x = [d EXCEPT !.ocr = @ \cup {[file |-> f, in_batch |-> in_batch]}]
    PROVE  Good(x)
<1>1. d \in Desks /\ d.ocr \in SUBSET Threads
  BY Fields DEF Good
<1>2. PICK o \in Threads : o = [file |-> f, in_batch |-> in_batch] /\ o.file = f /\ o.in_batch = in_batch
  <2>1. [file |-> f, in_batch |-> in_batch] \in Threads
    BY DEF Threads
  <2> QED
    BY <2>1
<1>3. PICK more \in SUBSET Threads : more = d.ocr \cup {o}
  BY <1>1
<1>4. x \in Desks /\ SameRows(d, x) /\ x.batch = d.batch /\ x.prompt = d.prompt /\ x.ocr = more
  BY <1>1, <1>2, <1>3 DEF Desks, SameRows
<1>5. Kept(x)
  <2>1. SameKnown(d, x)
    BY <1>4 DEF SameKnown, SameBatch
  <2> QED
    BY <1>4, <2>1, SameKept DEF Good
<1>6. /\ Clean(x) = Clean(d) /\ Queued(x) = Queued(d) /\ Reported(x) = Reported(d)
      /\ Waiting(x) = Waiting(d) /\ Reading(x) = Reading(d) \cup {f}
  BY <1>2, <1>3, <1>4 DEF Clean, Queued, Reported, Waiting, Reading
<1>7. Clean(d) => \A t \in more : t.in_batch
  BY <1>2, <1>3 DEF Good, InOnePlace, Alone, Apart
<1>8. InOnePlace(x)
  <2>1. Clean(d) => Alone(x.batch.remaining, x.batch.results, x.ocr)
    <3>1. Clean(d) => Alone(d.batch.remaining, d.batch.results, d.ocr)
      BY DEF Good, InOnePlace
    <3> QED
      <4>1. Clean(d) => Alone(d.batch.remaining, d.batch.results, more)
        BY <1>7, <3>1 DEF Alone
      <4> QED
        BY <1>4, <4>1
  <2>2. Clean(d) => Apart(Queued(x), Reported(x), Waiting(x), Reading(x))
    BY <1>6 DEF Good, InOnePlace, MayReport, Nowhere, Apart
  <2> QED
    BY <1>6, <2>1, <2>2 DEF InOnePlace
<1> QED
  BY <1>4, <1>5, <1>8 DEF Good, Closed

-----------------------------------------------------------------------------
(***************************************************************************)
(* The handlers of the window.                                             *)
(***************************************************************************)
\* The variables are what the handler leaves.
LEMMA Left ==
    ASSUME NEW d \in Desks, Leave(d)
    PROVE  Desk' = d
BY DEF Leave, Desk, Desks

\* The variables, as fields of the desk.
LEMMA OnTheDesk ==
    /\ Desk.client = client /\ Desk.transactions = transactions /\ Desk.history = history
    /\ Desk.hashes = hashes /\ Desk.screen = screen /\ Desk.batch = batch /\ Desk.timers = timers
    /\ Desk.prompt = prompt /\ Desk.ocr = ocr /\ Desk.bypassed = bypassed /\ Desk.faults = faults
BY DEF Desk

\* What is pending, and how often a batch was started and a file loaded.
IInv == /\ Good(Desk)
        /\ started \in 0 .. MaxBatches /\ loads \in 0 .. MaxLoads

\* A handler leaves a good desk.
LEMMA LeftGood ==
    ASSUME NEW d, Good(d), Leave(d)
    PROVE  Good(Desk')
BY Left DEF Good

\* A batch begins with keys that, with the screen, are all that is stored.
LEMMA BegunKept ==
    ASSUME NEW d, Good(d), d.batch = NoBatch, NEW known, known \subseteq d.hashes[d.client],
           d.client \notin d.bypassed => KeysStored(d, d.client) \subseteq KeysOf(d.screen) \cup known,
           NEW x, SameRows(d, x), x.batch # NoBatch, x.batch.all_txns = d.screen,
           x.batch.persisted_hashes = known, x.batch.client = d.client
    PROVE  Kept(x)
<1>1. Backed(x)
  BY DEF Backed, SameRows
<1>2. ASSUME NEW e \in Clients \ x.bypassed
      PROVE  OneId(InHand(x, e)) /\ BatchKnows(x, e) /\ ScreenKnows(x, e)
  <2>1. OneId(InHand(d, e)) /\ ~Running(d, e) /\ e \notin d.bypassed /\ (Running(x, e) <=> e = d.client)
    BY <1>2 DEF Good, Kept, Traced, Running, SameRows
  <2>2. InHand(x, e) = InHand(d, e)
    BY <2>1 DEF InHand, SameRows
  <2>3. ScreenKnows(x, e)
    BY <2>1 DEF ScreenKnows, SameRows
  <2>4. BatchKnows(x, e)
    <3> SUFFICES ASSUME e = d.client PROVE KeysIn(InHand(d, e)) \subseteq KeysOf(d.screen) \cup known
      BY <2>1, <2>2 DEF BatchKnows
    <3>1. InHand(d, e) = Cells(d.transactions[e]) \cup Lines(d.screen)
      BY <2>1 DEF InHand
    <3>2. KeysIn(InHand(d, e)) = KeysStored(d, e) \cup KeysOf(d.screen)
      BY <3>1, Among, KeyNames
    <3> QED
      BY <2>1, <3>2
  <2> QED
    BY <2>1, <2>2, <2>3, <2>4
<1> QED
  BY <1>1, <1>2 DEF Kept, Traced, Prepared

\* start_batch: nothing has been reported, and the files are all in the queue.
LEMMA BegunGood ==
    ASSUME NEW d, Good(d), d.batch = NoBatch, NEW known, known \subseteq d.hashes[d.client],
           d.client \notin d.bypassed => KeysStored(d, d.client) \subseteq KeysOf(d.screen) \cup known,
           NEW x, x = Begun(d, known)
    PROVE  Good(x)
<1>1. d \in Desks /\ d.client \in Clients /\ d.hashes[d.client] \in SUBSET Keys
  BY Fields DEF Good
<1>2. PICK b : b = [remaining |-> Picked, all_txns |-> d.screen, persisted_hashes |-> known,
                    client |-> d.client, paused |-> FALSE, results |-> <<>>,
                    crossed |-> d.prompt.file # NoFile \/ d.ocr # {}]
  OBVIOUS
<1>3. /\ b \in Batches /\ b.remaining = Picked /\ b.all_txns = d.screen /\ b.results = <<>>
      /\ b.crossed = (d.prompt.file # NoFile \/ d.ocr # {})
      /\ b.persisted_hashes = known /\ b.client = d.client
  <2>1. d.screen \in Seq(Rows) /\ known \in SUBSET Keys /\ Picked \in Seq(Files)
    BY <1>1, Fields, PickedIsFiles
  <2>2. <<>> \in Seq([file : Files \cup {NoFile}, ok : BOOLEAN])
    BY EmptySeq
  <2> QED
    BY <1>1, <1>2, <2>1, <2>2 DEF Batches
<1>4. b # NoBatch
  BY <1>3, NamesAreApart
<1>5. x = [d EXCEPT !.batch = b]
  BY <1>2 DEF Begun
<1>6. x \in Desks /\ SameRows(d, x) /\ x.batch = b /\ x.prompt = d.prompt /\ x.ocr = d.ocr
  BY <1>1, <1>3, <1>5 DEF Desks, SameRows
<1>7. Kept(x)
  BY <1>3, <1>4, <1>6, BegunKept
<1>8. ASSUME Clean(x)
      PROVE  /\ Alone(x.batch.remaining, x.batch.results, x.ocr)
             /\ Apart(Queued(x), Reported(x), Waiting(x), Reading(x))
  <2>1. d.prompt.file = NoFile /\ d.ocr = {}
    BY <1>3, <1>6, <1>8 DEF Clean
  <2>2. Reported(x) = {} /\ Reading(x) = {} /\ Waiting(x) \subseteq {NoFile}
    BY <1>3, <1>6, <2>1 DEF Reported, Reading, Waiting
  <2>3. Queued(x) \subseteq Files
    <3>1. \A n \in DOMAIN Picked : Picked[n] \in Files
      BY PickedIsFiles, ElementOfSeq, LenProperties
    <3>2. Queued(x) = {Picked[n] : n \in DOMAIN Picked}
      BY <1>3, <1>6 DEF Queued
    <3> QED
      BY <3>1, <3>2
  <2>4. \A m, n \in DOMAIN Picked : m # n => Picked[m] # Picked[n]
    BY PickedIsFiles DEF IsInjective
  <2>5. x.batch.remaining = Picked /\ x.batch.results = <<>> /\ x.ocr = {}
    BY <1>3, <1>6, <2>1
  <2>6. Alone(x.batch.remaining, x.batch.results, x.ocr)
    BY <2>4, <2>5 DEF Alone
  <2> QED
    BY <2>2, <2>3, <2>6, NamesAreApart DEF Apart
<1> QED
  BY <1>6, <1>7, <1>8 DEF Good, InOnePlace, Closed

\* The batch button, when the hashes can be read and when not.
LEMMA StartBatchGood ==
    ASSUME IInv, StartBatch
    PROVE  Good(Desk')
<1>1. PICK d : d = Desk
  OBVIOUS
<1>2. Good(d) /\ d \in Desks /\ d.batch = NoBatch /\ d.client \in Clients
  BY <1>1, OnTheDesk, Fields DEF IInv, Good, StartBatch
<1>3. PICK x \in start_batch(d) : \E y \in continue_batch(x) : Leave(y)
  BY <1>1 DEF StartBatch
<1>4. ASSUME x = Begun(d, d.hashes[d.client])
      PROVE  Good(x)
  <2>1. d.client \notin d.bypassed => KeysStored(d, d.client) \subseteq KeysOf(d.screen) \cup d.hashes[d.client]
    BY <1>2 DEF Good, Kept, Prepared, ScreenKnows, Running
  <2> QED
    <3>1. PICK known : known = d.hashes[d.client]
      OBVIOUS
    <3>2. x = Begun(d, known) /\ known \subseteq d.hashes[d.client]
      BY <1>4, <3>1
    <3>3. d.client \notin d.bypassed => KeysStored(d, d.client) \subseteq KeysOf(d.screen) \cup known
      BY <2>1, <3>1
    <3> QED
      BY <1>2, <3>2, <3>3, BegunGood
<1>5. ASSUME NEW y \in Faulty(d),
             x = Begun([y EXCEPT !.bypassed = @ \cup Missed(d, d.client, KeysOf(d.screen))], {})
      PROVE  Good(x)
  <2>1. d.faults # MaxFaults /\ y = [d EXCEPT !.faults = @ + 1]
    BY DEF Faulty
  <2>2. /\ Good(y) /\ y \in Desks /\ y.client = d.client /\ y.transactions = d.transactions
        /\ y.screen = d.screen /\ y.batch = NoBatch
    BY <1>2, <2>1, CountedGood DEF Good, Desks
  <2>3. PICK more \in SUBSET Clients : more = Missed(d, d.client, KeysOf(d.screen))
    BY <1>2 DEF Missed
  <2>4. PICK z : z = [y EXCEPT !.bypassed = @ \cup more]
    OBVIOUS
  <2>5. /\ Good(z) /\ z.client = d.client /\ z.transactions = d.transactions
        /\ z.screen = d.screen /\ z.batch = NoBatch /\ more \subseteq z.bypassed
    BY <2>2, <2>3, <2>4, BypassedGood DEF Desks
  <2>6. z.client \notin z.bypassed => KeysStored(z, z.client) \subseteq KeysOf(z.screen) \cup {}
    BY <2>3, <2>5 DEF Missed, KeysStored
  <2>7. x = Begun(z, {})
    BY <1>5, <2>3, <2>4
  <2> QED
    BY <2>5, <2>6, <2>7, BegunGood
<1>6. \/ x = Begun(d, d.hashes[d.client])
      \/ \E y \in Faulty(d) : x = Begun([y EXCEPT !.bypassed = @ \cup Missed(d, d.client, KeysOf(d.screen))], {})
  BY <1>3 DEF start_batch
<1>7. Good(x)
  BY <1>4, <1>5, <1>6
<1> QED
  BY <1>3, <1>7, ContinueGood, LeftGood

\* Load Single File, a protected one or not.
LEMMA LoadFileGood ==
    ASSUME IInv, NEW f \in Files, LoadFile(f)
    PROVE  Good(Desk')
<1>1. PICK d : d = Desk
  OBVIOUS
<1>2. Good(d)
  BY <1>1 DEF IInv
<1>3. CASE f \in Locked
  <2>1. PICK x : x = Crossed(d)
    OBVIOUS
  <2>2. Good(x) /\ ~Clean(x)
    BY <1>2, <2>1, CrossedGood
  <2>3. PICK y : y = [x EXCEPT !.prompt = [file |-> f, visible |-> TRUE]]
    OBVIOUS
  <2>4. Good(y)
    BY <2>2, <2>3, Prompted DEF MayReport
  <2> QED
    BY <1>1, <1>3, <2>1, <2>3, <2>4, LeftGood DEF LoadFile
<1>4. CASE f \notin Locked
  <2>1. PICK x \in finish_load_file(d, f) : Leave(x)
    BY <1>1, <1>4 DEF LoadFile
  <2> QED
    BY <1>2, <2>1, LoadedGood, LeftGood
<1> QED
  BY <1>3, <1>4

\* The timer of continue_batch.
LEMMA TickGood ==
    ASSUME IInv, Tick
    PROVE  Good(Desk')
<1>1. Good(Desk) /\ Desk.timers > 0
  BY OnTheDesk DEF IInv, Tick
<1>2. PICK x : x = [Desk EXCEPT !.timers = @ - 1]
  OBVIOUS
<1>3. Good(x)
  BY <1>1, <1>2, CountedGood
<1>4. PICK y \in continue_batch(x) : Leave(y)
  BY <1>2 DEF Tick
<1> QED
  BY <1>3, <1>4, ContinueGood, LeftGood

\* The batch is held, or goes on.
LEMMA HeldGood ==
    ASSUME NEW d, Good(d), d.batch # NoBatch, NEW paused \in BOOLEAN,
           NEW x, x = [d EXCEPT !.batch.paused = paused]
    PROVE  Good(x)
<1>1. d \in Desks /\ d.batch \in Batches
  BY Fields DEF Good
<1>2. PICK b : b = [d.batch EXCEPT !.paused = paused]
  OBVIOUS
<1>3. /\ b \in Batches /\ b.remaining = d.batch.remaining /\ b.results = d.batch.results
      /\ b.crossed = d.batch.crossed /\ SameBatch(d.batch, b)
  BY <1>1, <1>2 DEF Batches, SameBatch
<1>4. b # NoBatch
  BY <1>3, NamesAreApart
<1>5. x = [d EXCEPT !.batch = b]
  BY <1>1, <1>2 DEF Desks
<1>6. x \in Desks /\ SameRows(d, x) /\ x.batch = b /\ x.prompt = d.prompt /\ x.ocr = d.ocr
  BY <1>1, <1>3, <1>5 DEF Desks, SameRows
<1>7. Kept(x)
  <2>1. SameKnown(d, x)
    BY <1>3, <1>4, <1>6 DEF SameKnown, SameBatch
  <2> QED
    BY <1>6, <2>1, SameKept DEF Good
<1>8. /\ Clean(x) = Clean(d) /\ Queued(x) = Queued(d) /\ Reported(x) = Reported(d)
      /\ Waiting(x) = Waiting(d) /\ Reading(x) = Reading(d)
  BY <1>3, <1>4, <1>6 DEF Clean, Queued, Reported, Waiting, Reading
<1>9. InOnePlace(x)
  BY <1>3, <1>6, <1>8 DEF Good, InOnePlace, Alone
<1> QED
  BY <1>6, <1>7, <1>9 DEF Good, Closed

\* Pause, Resume, and Abort, which finishes the batch.
LEMMA HeldOrEndedGood ==
    ASSUME IInv, Pause \/ Resume \/ Abort
    PROVE  Good(Desk')
<1>1. Good(Desk)
  BY DEF IInv
<1>2. CASE Pause
  <2>1. PICK x : x = [Desk EXCEPT !.batch.paused = TRUE]
    OBVIOUS
  <2>2. Leave(x) /\ Desk.batch # NoBatch
    BY <1>2, <2>1, OnTheDesk DEF Pause
  <2> QED
    BY <1>1, <2>1, <2>2, HeldGood, LeftGood
<1>3. CASE Resume
  <2>1. PICK x : x = [Desk EXCEPT !.batch.paused = FALSE]
    OBVIOUS
  <2>2. PICK y \in continue_batch(x) : Leave(y)
    BY <1>3, <2>1 DEF Resume
  <2>3. Desk.batch # NoBatch
    BY <1>3, OnTheDesk DEF Resume
  <2> QED
    BY <1>1, <2>1, <2>2, <2>3, HeldGood, ContinueGood, LeftGood
<1>4. CASE Abort
  <2>1. PICK y \in finish_batch(Desk) : Leave(y)
    BY <1>4 DEF Abort
  <2> QED
    BY <1>1, <2>1, FinishGood, LeftGood
<1> QED
  BY <1>2, <1>3, <1>4

\* on_do_pdf_pwd_confirm and on_do_pdf_pwd_cancel: the prompt's file is used once.
LEMMA PromptGood ==
    ASSUME IInv, PwdConfirm \/ PwdCancel
    PROVE  Good(Desk')
<1>1. Good(Desk) /\ Desk.prompt.visible /\ Desk.prompt \in [file : Files \cup {NoFile}, visible : BOOLEAN]
  BY Fields, OnTheDesk DEF IInv, Good, PwdConfirm, PwdCancel
<1>2. PICK x : x = Answered
  OBVIOUS
<1>3. PICK f : f = prompt.file
  OBVIOUS
<1>4. PICK in_batch \in BOOLEAN : in_batch = (batch # NoBatch)
  OBVIOUS
<1>5. Good(x) /\ MayReport(x, f) /\ x.batch = batch /\ f \in Files \cup {NoFile}
  <2>1. x = [Desk EXCEPT !.prompt = NoPrompt]
    BY <1>2 DEF Answered
  <2>2. f = Desk.prompt.file /\ f \in Files \cup {NoFile}
    BY <1>1, <1>3, OnTheDesk
  <2> QED
    BY <1>1, <2>1, <2>2, AnsweredGood, OnTheDesk
<1>6. Clean(x) => in_batch
  BY <1>4, <1>5 DEF Clean
<1>7. CASE PwdConfirm /\ f = NoFile
  BY <1>2, <1>3, <1>5, <1>7, LeftGood DEF PwdConfirm
<1>8. CASE PwdConfirm /\ f # NoFile
  <2>1. f \in Files
    BY <1>5, <1>8
  <2>2. ASSUME NEW y \in Opened(x, f, in_batch), Leave(y)
        PROVE  Good(Desk')
    BY <1>5, <2>1, <2>2, OpenedGood, LeftGood
  <2>3. PICK y : y = [x EXCEPT !.ocr = @ \cup {[file |-> f, in_batch |-> in_batch]}]
    OBVIOUS
  <2>4. Good(y)
    BY <1>5, <1>6, <2>1, <2>3, StartedGood
  <2>5. (\E z \in Opened(x, f, in_batch) : Leave(z)) \/ Leave(y)
    BY <1>2, <1>3, <1>4, <1>8, <2>3 DEF PwdConfirm
  <2> QED
    BY <2>2, <2>4, <2>5, LeftGood
<1>9. CASE PwdCancel
  <2>1. PICK y \in NotOpened(x, f, in_batch) : Leave(y)
    BY <1>2, <1>3, <1>4, <1>9 DEF PwdCancel
  <2> QED
    BY <1>5, <2>1, NotOpenedGood, LeftGood
<1> QED
  BY <1>7, <1>8, <1>9

\* A thread that read a scanned file reports back.
LEMMA OcrDoneGood ==
    ASSUME IInv, NEW o \in ocr, OcrDone(o)
    PROVE  Good(Desk')
<1>1. Good(Desk) /\ o \in Desk.ocr
  BY OnTheDesk DEF IInv
<1>2. PICK x : x = [Desk EXCEPT !.ocr = @ \ {o}]
  OBVIOUS
<1>3. Good(x) /\ o.file \in Files /\ MayReport(x, o.file)
  BY <1>1, <1>2, EndedGood
<1>4. ASSUME NEW y \in Opened(x, o.file, o.in_batch), Leave(y)
      PROVE  Good(Desk')
  BY <1>3, <1>4, OpenedGood, LeftGood
<1>5. ASSUME NEW y \in NotOpened(x, o.file, o.in_batch), Leave(y)
      PROVE  Good(Desk')
  BY <1>3, <1>5, NotOpenedGood, LeftGood
<1>6. PICK y : y = [x EXCEPT !.prompt = [file |-> o.file, visible |-> TRUE]]
  OBVIOUS
<1>7. Good(y)
  BY <1>3, <1>6, Prompted
<1>8. \/ \E z \in Opened(x, o.file, o.in_batch) : Leave(z)
      \/ Leave(y)
      \/ \E z \in NotOpened(x, o.file, o.in_batch) : Leave(z)
  BY <1>2, <1>6 DEF OcrDone
<1> QED
  BY <1>4, <1>5, <1>7, <1>8, LeftGood

\* Auto-Classify All: rows of the screen are stored again.
LEMMA AutoClassifyGood ==
    ASSUME IInv, AutoClassify
    PROVE  Good(Desk')
<1>1. PICK d : d = Desk
  OBVIOUS
<1>2. Good(d) /\ d \in Desks
  BY <1>1 DEF IInv, Good
<1>3. PICK c \in Clients, rows \in Seq(Rows) : c = d.client /\ rows = d.screen
  BY <1>2, Fields
<1>4. PICK old \in Tables : old = d.transactions[c]
  BY <1>2, Fields
<1>5. PICK table \in Tables : table = upsert_transactions(old, NoImport, rows)
                              /\ Cells(table) \subseteq Cells(old) \cup Lines(rows)
  BY Upserted
<1>6. PICK all \in [Clients -> Tables] : all = [d.transactions EXCEPT ![c] = table]
  BY <1>2, <1>5, Fields
<1>7. PICK x : x = [d EXCEPT !.transactions = all]
  OBVIOUS
<1>8. Leave(x)
  <2>1. PICK y : y = [d EXCEPT !.transactions[c] = upsert_transactions(@, NoImport, rows)]
    OBVIOUS
  <2>2. Leave(y)
    BY <1>1, <1>3, <2>1, OnTheDesk DEF AutoClassify
  <2>3. y = x
    BY <1>2, <1>4, <1>5, <1>6, <1>7, <2>1 DEF Desks
  <2> QED
    BY <2>2, <2>3
<1>9. x \in Desks /\ SamePlaces(d, x) /\ x.transactions = all
  BY <1>2, <1>6, <1>7 DEF Desks, SamePlaces
<1>10. \A e \in Clients : Cells(all[e]) \subseteq Cells(d.transactions[e]) \cup (IF e = c THEN Lines(rows) ELSE {})
  <2> SUFFICES ASSUME NEW e \in Clients
               PROVE  Cells(all[e]) \subseteq Cells(d.transactions[e]) \cup (IF e = c THEN Lines(rows) ELSE {})
    OBVIOUS
  <2>1. all[e] = IF e = c THEN table ELSE d.transactions[e]
    BY <1>2, <1>6, Fields
  <2> QED
    BY <1>4, <1>5, <2>1
<1>11. x.client = d.client /\ x.hashes = d.hashes /\ x.screen = d.screen
       /\ x.bypassed = d.bypassed /\ x.batch = d.batch
  BY <1>2, <1>7 DEF Desks
<1>12. Stored(d, x, c, rows) /\ AtHand(d, c, rows)
  BY <1>3, <1>9, <1>10, <1>11 DEF Stored, Filed, AtHand
<1> QED
  BY <1>2, <1>8, <1>12, StoredGood, LeftGood

\* Rows come on the screen that are stored for the client.
LEMMA ShownKept ==
    ASSUME NEW d, Backed(d), Traced(d), NEW x, x.transactions = d.transactions, x.hashes = d.hashes,
           x.batch = d.batch, d.bypassed \subseteq x.bypassed,
           Lines(x.screen) \subseteq Cells(d.transactions[x.client]),
           x.client \notin x.bypassed /\ ~Running(x, x.client) =>
               KeysStored(d, x.client) \subseteq KeysOf(x.screen) \cup d.hashes[x.client]
    PROVE  Kept(x)
<1>1. Backed(x)
  BY DEF Backed
<1>2. ASSUME NEW e \in Clients \ x.bypassed
      PROVE  OneId(InHand(x, e)) /\ BatchKnows(x, e) /\ ScreenKnows(x, e)
  <2>1. /\ OneId(InHand(d, e)) /\ BatchKnows(d, e) /\ Running(x, e) = Running(d, e)
        /\ KeysStored(x, e) = KeysStored(d, e)
    BY <1>2 DEF Traced, Running, KeysStored
  <2>2. InHand(x, e) \subseteq InHand(d, e)
    BY <2>1 DEF InHand
  <2>3. OneId(InHand(x, e)) /\ KeysIn(InHand(x, e)) \subseteq KeysIn(InHand(d, e))
    BY <2>1, <2>2, Among
  <2>4. BatchKnows(x, e)
    BY <2>1, <2>3 DEF BatchKnows
  <2>5. ScreenKnows(x, e)
    BY <1>2, <2>1 DEF ScreenKnows
  <2> QED
    BY <2>3, <2>4, <2>5
<1> QED
  BY <1>1, <1>2 DEF Kept, Traced, Prepared

\* What is stored comes on the screen, or nothing when it cannot be read.
LEMMA ShownGood ==
    ASSUME NEW d \in Desks, Backed(d), Traced(d), Closed(d), InOnePlace(d), NEW c \in Clients,
           NEW x \in Shown(d, c)
    PROVE  Good(x)
<1>1. PICK selected : selected = [d EXCEPT !.client = c]
  OBVIOUS
<1>2. /\ selected \in Desks /\ SamePlaces(d, selected) /\ selected.client = c
      /\ selected.transactions = d.transactions /\ selected.hashes = d.hashes
      /\ selected.screen = d.screen /\ selected.bypassed = d.bypassed /\ selected.faults = d.faults
  BY <1>1 DEF Desks, SamePlaces
<1>3. PICK table \in Tables : table = d.transactions[c]
  BY Fields
<1>4. PICK missed \in SUBSET Clients : missed = IF Running(d, c) THEN {} ELSE Missed(d, c, d.hashes[c])
  BY DEF Missed
<1>5. CASE x = [selected EXCEPT !.screen = get_transactions(table)]
  <2>1. PICK rows \in Seq(Rows) : rows = get_transactions(table) /\ Lines(rows) = Cells(table)
    BY Fetched
  <2>2. /\ x \in Desks /\ SamePlaces(d, x) /\ x.client = c /\ x.transactions = d.transactions
        /\ x.hashes = d.hashes /\ x.screen = rows /\ x.bypassed = d.bypassed
    BY <1>2, <1>5, <2>1 DEF Desks, SamePlaces
  <2>3. KeysStored(d, c) = KeysOf(rows)
    BY <1>3, <2>1, KeyNames
  <2>4. Kept(x)
    BY <1>3, <2>1, <2>2, <2>3, ShownKept DEF SamePlaces
  <2> QED
    BY <2>2, <2>4, SamePlacesGood DEF Good
<1>6. ASSUME NEW y \in Faulty(selected), x = [y EXCEPT !.screen = <<>>, !.bypassed = @ \cup missed]
      PROVE  Good(x)
  <2>1. selected.faults # MaxFaults /\ y = [selected EXCEPT !.faults = @ + 1]
    BY DEF Faulty
  <2>2. /\ y \in Desks /\ SamePlaces(d, y) /\ y.client = c /\ y.transactions = d.transactions
        /\ y.hashes = d.hashes /\ y.bypassed = d.bypassed
    <3>1. y \in Desks
      BY <1>2, <2>1, Counted
    <3> QED
      BY <1>2, <2>1, <3>1 DEF Desks, SamePlaces
  <2>3. <<>> \in Seq(Rows)
    BY EmptySeq
  <2>4. /\ x \in Desks /\ SamePlaces(d, x) /\ x.client = c /\ x.transactions = d.transactions
        /\ x.hashes = d.hashes /\ x.screen = <<>> /\ x.bypassed = d.bypassed \cup missed
    BY <1>4, <1>6, <2>2, <2>3 DEF Desks, SamePlaces
  <2>5. Lines(<<>>) = {}
    BY DEF Lines
  <2>6. c \notin x.bypassed /\ ~Running(x, c) => KeysStored(d, c) \subseteq d.hashes[c]
    BY <1>4, <2>4 DEF Missed, Running, SamePlaces
  <2>7. Kept(x)
    BY <2>4, <2>5, <2>6, ShownKept DEF SamePlaces
  <2> QED
    BY <2>4, <2>7, SamePlacesGood DEF Good
<1> QED
  BY <1>1, <1>3, <1>4, <1>5, <1>6 DEF Shown

\* A client is selected, also while a batch runs.
LEMMA SelectClientGood ==
    ASSUME IInv, NEW c \in Clients, SelectClient(c)
    PROVE  Good(Desk')
<1>1. PICK x \in Shown(Desk, c) : Leave(x)
  BY DEF SelectClient
<1> QED
  BY <1>1, ShownGood, LeftGood DEF IInv, Good, Kept

\* The process dies and starts again.
LEMMA RestartGood ==
    ASSUME IInv, Restart
    PROVE  Good(Desk')
<1>1. PICK d \in Faulty(Desk) :
             \E x \in Shown([d EXCEPT !.batch = NoBatch, !.timers = 0, !.prompt = NoPrompt, !.ocr = {}], client) : Leave(x)
  BY DEF Restart
<1>2. Good(d) /\ d \in Desks /\ d.client \in Clients /\ d.client = client
  <2>1. Good(Desk) /\ Desk \in Desks /\ Desk.client = client
    BY OnTheDesk DEF IInv, Good
  <2>2. Desk.faults # MaxFaults /\ d = [Desk EXCEPT !.faults = @ + 1]
    BY <1>1 DEF Faulty
  <2>3. Good(d)
    BY <2>1, <2>2, CountedGood
  <2> QED
    BY <2>1, <2>2, <2>3, Fields DEF Good, Desks
<1>3. PICK p \in [file : Files \cup {NoFile}, visible : BOOLEAN] : p = NoPrompt /\ p.file = NoFile /\ ~p.visible
  <2>1. NoPrompt \in [file : Files \cup {NoFile}, visible : BOOLEAN]
    BY DEF NoPrompt
  <2> QED
    BY <2>1 DEF NoPrompt
<1>4. PICK z : z = [d EXCEPT !.batch = NoBatch, !.timers = 0, !.prompt = p, !.ocr = {}]
  OBVIOUS
<1>5. PICK x \in Shown(z, d.client) : Leave(x)
  BY <1>1, <1>2, <1>3, <1>4
<1>6. z \in Desks /\ SameRows(d, z) /\ z.batch = NoBatch /\ z.prompt = p
  BY <1>2, <1>3, <1>4 DEF Desks, SameRows
<1>7. Traced(z)
  <2> SUFFICES ASSUME NEW e \in Clients \ z.bypassed PROVE OneId(InHand(z, e)) /\ BatchKnows(z, e)
    BY DEF Traced
  <2>1. OneId(InHand(d, e)) /\ ~Running(z, e)
    BY <1>2, <1>6 DEF Good, Kept, Traced, SameRows, Running
  <2>2. InHand(z, e) \subseteq InHand(d, e)
    BY <1>6, <2>1 DEF InHand, SameRows
  <2> QED
    BY <2>1, <2>2, Among DEF BatchKnows
<1>8. Backed(z) /\ Closed(z) /\ InOnePlace(z)
  BY <1>3, <1>6 DEF Backed, Closed, InOnePlace, Clean
<1> QED
  BY <1>2, <1>5, <1>6, <1>7, <1>8, ShownGood, LeftGood

-----------------------------------------------------------------------------
(***************************************************************************)
(* The results.                                                            *)
(***************************************************************************)
\* The program starts with nothing stored and no batch.
LEMMA AtInit == Init => IInv
<1> SUFFICES ASSUME Init PROVE IInv
  OBVIOUS
<1>1. PICK d : d = Desk
  OBVIOUS
<1>2. NoPrompt \in [file : Files \cup {NoFile}, visible : BOOLEAN] /\ ~NoPrompt.visible /\ NoPrompt.file = NoFile
  BY DEF NoPrompt
<1>3. <<>> \in Seq(Nat) /\ <<>> \in Seq(Rows)
  BY EmptySeq
<1>4. PICK table \in Tables : table = [i \in Positions |-> NoRow]
  BY DEF Tables
<1>5. PICK all \in [Clients -> Tables] : all = [c \in Clients |-> table]
  OBVIOUS
<1>6. PICK none \in [Clients -> SUBSET Keys] : none = [c \in Clients |-> {}]
  OBVIOUS
<1>7. /\ transactions = all /\ hashes = none /\ client \in Clients /\ history = <<>> /\ screen = <<>>
      /\ batch = NoBatch /\ timers = 0 /\ prompt = NoPrompt /\ ocr = {} /\ bypassed = {} /\ faults = 0
  BY <1>4, <1>5, <1>6 DEF Init
<1>8. d.transactions = all /\ d.screen = <<>> /\ d.batch = NoBatch /\ d.prompt = NoPrompt
  BY <1>1, <1>7, OnTheDesk
<1>9. d \in Desks
  <2>1. /\ transactions \in [Clients -> Tables] /\ history \in Seq(Nat) /\ hashes \in [Clients -> SUBSET Keys]
        /\ screen \in Seq(Rows) /\ batch \in Batches \cup {NoBatch} /\ timers \in Nat
        /\ prompt \in [file : Files \cup {NoFile}, visible : BOOLEAN]
        /\ ocr \in SUBSET Threads /\ bypassed \in SUBSET Clients /\ faults \in 0 .. MaxFaults
    BY <1>2, <1>3, <1>7, BoundsAreNaturals
  <2> QED
    BY <1>1, <1>7, <2>1 DEF Desk, Desks
<1>10. Kept(d)
  <2>1. Cells(table) = {} /\ Lines(<<>>) = {}
    BY <1>4 DEF Cells, Lines
  <2>2. ASSUME NEW c \in Clients PROVE InHand(d, c) = {} /\ KeysStored(d, c) = {} /\ ~Running(d, c)
    <3>1. d.transactions[c] = table
      BY <1>5, <1>8
    <3>2. KeysStored(d, c) = {}
      BY <2>1, <3>1, KeyNames DEF KeysIn
    <3> QED
      BY <1>8, <2>1, <3>1, <3>2 DEF InHand, Running
  <2> QED
    BY <1>8, <2>2 DEF Kept, Backed, Traced, Prepared, OneId, BatchKnows, ScreenKnows
<1>11. Good(d)
  BY <1>2, <1>8, <1>9, <1>10 DEF Good, Closed, InOnePlace, Clean
<1> QED
  BY <1>1, <1>11, BoundsAreNaturals DEF IInv, Init

\* Every handler leaves a desk as they all expect it.
LEMMA AtStep == IInv /\ [Next]_vars => IInv'
<1> SUFFICES ASSUME IInv, [Next]_vars PROVE IInv'
  OBVIOUS
<1>1. CASE UNCHANGED vars
  <2>1. Desk' = Desk
    BY <1>1 DEF vars, Desk
  <2> QED
    BY <1>1, <2>1 DEF IInv, vars
<1>2. CASE Next
  <2>1. Good(Desk')
    BY <1>2, StartBatchGood, LoadFileGood, TickGood, HeldOrEndedGood, PromptGood, OcrDoneGood,
       AutoClassifyGood, SelectClientGood, RestartGood DEF Next
  <2>2. started' \in 0 .. MaxBatches /\ loads' \in 0 .. MaxLoads
    <3>1. /\ started \in 0 .. MaxBatches /\ loads \in 0 .. MaxLoads
          /\ MaxBatches \in Nat /\ MaxLoads \in Nat
      BY BoundsAreNaturals DEF IInv
    <3>2. \/ started < MaxBatches /\ started' = started + 1 /\ loads' = loads
          \/ loads < MaxLoads /\ loads' = loads + 1 /\ started' = started
          \/ started' = 0 /\ loads' = loads
          \/ started' = started /\ loads' = loads
      BY <1>2 DEF Next, StartBatch, LoadFile, Tick, Pause, Resume, Abort, PwdConfirm, PwdCancel, OcrDone,
                  AutoClassify, SelectClient, Restart, Volatile
    <3> QED
      BY <3>1, <3>2
  <2> QED
    BY <2>1, <2>2 DEF IInv
<1> QED
  BY <1>1, <1>2

\* The inductive invariant, of start_batch, continue_batch, record_batch_success,
\* finish_batch, finish_load_file and the handlers that reach them.
THEOREM Inductive == Spec => []IInv
BY AtInit, AtStep, PTL DEF Spec

\* Every table, list and flag holds what the code can put there.
THEOREM Types == Spec => []TypeOK
<1>1. IInv => TypeOK
  <2> SUFFICES ASSUME IInv PROVE TypeOK
    OBVIOUS
  <2>1. Desk \in Desks /\ started \in 0 .. MaxBatches /\ loads \in 0 .. MaxLoads
    BY DEF IInv, Good
  <2>2. /\ client \in Clients /\ transactions \in [Clients -> Tables] /\ history \in Seq(Nat)
        /\ hashes \in [Clients -> SUBSET Keys]
        /\ screen \in Seq(Rows) /\ batch \in Batches \cup {NoBatch} /\ timers \in Nat
        /\ prompt \in [file : Files \cup {NoFile}, visible : BOOLEAN]
        /\ ocr \in SUBSET Threads /\ bypassed \in SUBSET Clients /\ faults \in 0 .. MaxFaults
    BY <2>1, Fields, OnTheDesk
  <2> QED
    BY <2>1, <2>2 DEF TypeOK, Tables, Entries, Threads
<1> QED
  BY <1>1, Inductive, PTL

\* No client that is not bypassed has a transaction stored twice (new_txns compares with
\* the batch, which began with the screen, and with the hashes; finish_load_file with the
\* hashes; save_import and upsert_transactions may fail between any two files).
THEOREM StoredHolds == Spec => []StoredOnce
<1>1. IInv => StoredOnce
  <2> SUFFICES ASSUME IInv, NEW c \in Clients \ bypassed, NEW i \in Positions, NEW j \in Positions,
                      transactions[c][i] # NoRow, transactions[c][j] # NoRow,
                      transactions[c][i].key = transactions[c][j].key
               PROVE  i = j \/ transactions[c][i].key \in Repeated
    BY DEF StoredOnce
  <2>1. PICK table : table = transactions[c]
    OBVIOUS
  <2>2. OneId(Cells(table))
    <3>1. OneId(InHand(Desk, c))
      BY OnTheDesk DEF IInv, Good, Kept, Traced
    <3>2. Cells(table) \subseteq InHand(Desk, c)
      BY <2>1, OnTheDesk DEF InHand
    <3> QED
      BY <3>1, <3>2, Among
  <2>3. <<table[i].key, i>> \in Cells(table) /\ <<table[j].key, j>> \in Cells(table)
    BY <2>1 DEF Cells
  <2>4. PICK q \in Cells(table), r \in Cells(table) :
          q[1] = table[i].key /\ q[2] = i /\ r[1] = table[j].key /\ r[2] = j
    BY <2>3
  <2> QED
    BY <2>1, <2>2, <2>4 DEF OneId
<1> QED
  BY <1>1, Inductive, PTL

\* No file is reported twice (continue_batch takes a file out of the queue, the prompt
\* and the threads hand it on, and record_batch_success or record_batch_failure ends it).
THEOREM ReportedHolds == Spec => []ReportedOnce
<1>1. IInv => ReportedOnce
  <2> SUFFICES ASSUME IInv, batch # NoBatch, ~batch.crossed
               PROVE  \A m, n \in DOMAIN batch.results :
                         m # n => batch.results[m].file # batch.results[n].file
    BY DEF ReportedOnce
  <2>1. Clean(Desk)
    BY OnTheDesk DEF Clean
  <2> QED
    BY <2>1, OnTheDesk DEF IInv, Good, InOnePlace, Alone
<1> QED
  BY <1>1, Inductive, PTL

=============================================================================
