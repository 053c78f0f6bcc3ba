----------------------- MODULE LegacyMigration_proofs -----------------------
(***************************************************************************)
(* A migration reports what is so, keeps the user's edits and registers    *)
(* nothing twice, for every set of exports and of databases it may find,   *)
(* and any number of runs, failed statements and crashes.                  *)
(***************************************************************************)
EXTENDS LegacyMigration, SequenceTheorems, WellFoundedInduction, TLAPS

(***************************************************************************)
(* The inductive invariant.  While a run imports, the connection is closed *)
(* and the backup is the database as it was; what each phase has behind it *)
(* is in the tables and stays there; and the user's transactions are those *)
(* the backup has.                                                         *)
(***************************************************************************)
Tables(d) == d \in Database /\ Linked(d) /\ IsInjective(d.clients)

RunOK ==
    /\ db = Torn \/ Tables(db)
    /\ before = Torn \/ Tables(before)
    /\ pc \in {"backup", "open"} => db = before /\ DOMAIN ids = {}
    /\ pc \in Importing \cup {"open", "rollback"} => Tables(db) /\ Tables(before) /\ backup = before
    /\ pc \notin {"idle", "down"} => export \in Exports

ReportOK ==
    /\ DOMAIN report = DOMAIN NewReport
    /\ report.success \in BOOLEAN /\ report.rolledBack \in BOOLEAN
    /\ report.success => pc \in {"reopen", "idle"}
    /\ report.rolledBack => pc \in {"reopen", "idle"}
    /\ report.rolledBack /\ pc = "reopen" => db = before

TodoOK ==
    /\ pc \in Keyed \cup {"clients", "history"} => todo \subseteq DOMAIN export[pc]
    /\ pc = "txns" => /\ todo \subseteq DOMAIN export.history /\ todo # {}
                      /\ Resolves(export.history[First(todo)].client)
                      /\ found \in DOMAIN db.history

\* The records at the positions S of the export are in the tables.
IdsOK == \A c \in DOMAIN ids : ids[c] \in DOMAIN db.clients
ClientsIn(S) ==
    /\ DOMAIN ids = {export.clients[i].id : i \in S}
    /\ \A i \in S : export.clients[i].name \in Range(db.clients)
KeyedIn(e, S) == \A i \in S : Resolves(export[e][i].client) => RowOf(e, i) \in db[e]
HistoryIn(S) ==
    \A i \in S : Resolves(export.history[i].client) =>
        \A x \in Range(export.history[i].txns) : <<ids[export.history[i].client], x>> \in TxnKeys(db)
SettingsIn == export.settings = "good" => db.settings = "legacy" /\ keyring = "legacy"

\* The places of a run after each phase.
AfterHistory == {"settings", "saveSettings", "validate"}
After(e) == CASE e = "clients" -> Keyed \cup {"history", "txns"} \cup AfterHistory
              [] e = "rules"   -> {"ledgers", "hashes", "history", "txns"} \cup AfterHistory
              [] e = "ledgers" -> {"hashes", "history", "txns"} \cup AfterHistory
              [] e = "hashes"  -> {"history", "txns"} \cup AfterHistory
Behind(e) == IF pc = e THEN DOMAIN export[e] \ todo
             ELSE IF pc \in After(e) THEN DOMAIN export[e] ELSE {}
HistoryBehind == IF pc \in {"history", "txns"} THEN DOMAIN export.history \ todo
                 ELSE IF pc \in AfterHistory THEN DOMAIN export.history ELSE {}

Progress == pc \in Importing =>
    /\ IdsOK /\ ClientsIn(Behind("clients"))
    /\ \A e \in Keyed : KeyedIn(e, Behind(e))
    /\ HistoryIn(HistoryBehind)
    /\ pc = "saveSettings" => export.settings = "good" /\ keyring = "legacy"
    /\ pc = "validate" => SettingsIn

Everything ==
    /\ export \in Exports /\ db # Torn
    /\ ClientsIn(DOMAIN export.clients)
    /\ \A e \in Keyed : KeyedIn(e, DOMAIN export[e])
    /\ HistoryIn(DOMAIN export.history) /\ SettingsIn

UserRowsKept == pc \in Importing \cup {"rollback"} =>
    \A t \in db.txns : t.by = "user" => t \in before.txns

SuccessOK == report.success => Everything

IInv == TypeOK /\ RunOK /\ ReportOK /\ TodoOK /\ Progress /\ UserRowsKept /\ SuccessOK

-----------------------------------------------------------------------------
\* < is well-founded on Nat, as a set of pairs.
LEMMA LessThan == IsWellFoundedOn({ss \in Nat \X Nat : ss[1] < ss[2]}, Nat)
BY NatLessThanWellFounded DEF OpToRel

\* First picks a member: positions are naturals.
LEMMA FirstIsOne ==
    ASSUME NEW S \in SUBSET Nat, S # {}
    PROVE  First(S) \in S
<1> DEFINE R == {ss \in Nat \X Nat : ss[1] < ss[2]}
<1>1. PICK x \in S : \A y \in S : ~(<<y, x>> \in R)
  <2>1. IsWellFoundedOn(R, Nat)
    BY LessThan
  <2> HIDE DEF R
  <2> QED
    BY <2>1, WFMin
<1>2. \A y \in S : x <= y
  <2> SUFFICES ASSUME NEW y \in S PROVE x <= y
    OBVIOUS
  <2>1. x \in Nat /\ y \in Nat /\ ~(y < x)
    BY <1>1
  <2> QED
    BY <2>1
<1> QED
  BY <1>2 DEF First

(***************************************************************************)
(* The types of an export and of a database.                               *)
(***************************************************************************)
LEMMA ExportTyped ==
    ASSUME NEW x \in Exports
    PROVE  /\ DOMAIN x.clients \in SUBSET Nat /\ DOMAIN x.history \in SUBSET Nat
           /\ \A i \in DOMAIN x.clients : x.clients[i].id \in OldIds /\ x.clients[i].name \in Names
           /\ \A e \in Keyed : /\ DOMAIN x[e] \in SUBSET Nat
                               /\ \A i \in DOMAIN x[e] : x[e][i].key \in Keys
           /\ \A i \in DOMAIN x.history :
                /\ x.history[i].file \in Files /\ Len(x.history[i].txns) \in Nat
                /\ Range(x.history[i].txns) \subseteq TxnIds
<1>1. x \in Export
  BY MigrationAssumption
<1>2. /\ x.clients \in Seq([id: OldIds, name: Names])
      /\ \A e \in Keyed : x[e] \in Seq(Row)
      /\ x.history \in Seq([client: OldIds \cup {Global}, file: Files, count: Nat,
                            txns: Seq(TxnIds)])
  BY <1>1 DEF Export, Keyed
<1>3. \A S : \A s \in Seq(S) : DOMAIN s = 1..Len(s) /\ Len(s) \in Nat
                               /\ \A i \in DOMAIN s : s[i] \in S
  BY LenProperties, ElementOfSeq
<1>4. \A i \in DOMAIN x.history :
        x.history[i] \in [client: OldIds \cup {Global}, file: Files, count: Nat,
                          txns: Seq(TxnIds)]
  BY <1>2, <1>3
<1>5. \A i \in DOMAIN x.history :
        x.history[i].file \in Files /\ x.history[i].txns \in Seq(TxnIds)
  BY <1>4
<1>6. \A i \in DOMAIN x.history : Len(x.history[i].txns) \in Nat
                                  /\ Range(x.history[i].txns) \subseteq TxnIds
  BY <1>3, <1>5 DEF Range
<1>7. \A i \in DOMAIN x.clients : x.clients[i] \in [id: OldIds, name: Names]
  BY <1>2, <1>3
<1>8. \A e \in Keyed : /\ DOMAIN x[e] = 1..Len(x[e])
                       /\ \A i \in DOMAIN x[e] : x[e][i] \in Row
  BY <1>2, <1>3
<1>9. /\ DOMAIN x.clients = 1..Len(x.clients) /\ DOMAIN x.history = 1..Len(x.history)
  BY <1>2, <1>3
<1> QED
  BY <1>5, <1>6, <1>7, <1>8, <1>9 DEF Row

\* The first of the records left.
LEMMA FirstTodo ==
    ASSUME IInv, pc \in Keyed \cup {"clients", "history", "txns"}, todo # {}
    PROVE  /\ export \in Exports
           /\ First(todo) \in todo
           /\ todo \in SUBSET Nat
           /\ First(todo) \in DOMAIN export[IF pc = "txns" THEN "history" ELSE pc]
<1>1. export \in Exports
  BY DEF IInv, RunOK, Keyed
<1>2. todo \subseteq DOMAIN export[IF pc = "txns" THEN "history" ELSE pc]
  BY DEF IInv, TodoOK
<1>3. todo \in SUBSET Nat
  BY <1>1, <1>2, ExportTyped DEF Keyed
<1> QED
  BY <1>1, <1>2, <1>3, FirstIsOne

(***************************************************************************)
(* What a step of the import leaves of the invariant to be shown: the      *)
(* tables, the records left and the records behind.                        *)
(***************************************************************************)
LEMMA ImportFrame ==
    ASSUME IInv, pc \in Importing, pc' \in Importing,
           UNCHANGED <<backup, before, conn, export>>,
           Tables(db'), report' = report \/ \E e, n : Count(e, n),
           \A t \in db'.txns : t.by = "user" => t \in db.txns,
           TodoOK', Progress'
    PROVE  IInv'
<1>1. pc \notin {"idle", "down", "reopen", "backup", "open", "rollback"}
      /\ pc' \notin {"idle", "down", "reopen", "backup", "open", "rollback"}
  BY DEF Importing, Range, Phases
<1>2. ~report.success /\ ~report.rolledBack /\ conn # "open" /\ export \in Exports
  BY <1>1 DEF IInv, ReportOK, TypeOK, RunOK
<1>3. TypeOK' /\ RunOK'
  BY <1>1, <1>2 DEF IInv, TypeOK, RunOK, Tables
<1>4. /\ DOMAIN report' = DOMAIN NewReport /\ report'.success = report.success
      /\ report'.rolledBack = report.rolledBack
  BY DEF Count, NewReport, IInv, ReportOK
<1>5. ReportOK' /\ SuccessOK'
  BY <1>2, <1>4 DEF IInv, ReportOK, SuccessOK
<1>6. UserRowsKept'
  BY <1>1 DEF IInv, UserRowsKept
<1> QED
  BY <1>3, <1>5, <1>6 DEF IInv

\* The pairs of two sets.
LEMMA Pairs ==
    /\ \A S, T, a, b : a \in S /\ b \in T => <<a, b>> \in S \X T
    /\ \A S, T : \A r \in S \X T : r[1] \in S
    /\ \A S, T, U : S \subseteq U => S \X T \subseteq U \X T
OBVIOUS

\* Where an import is.
LEMMA ImportPlaces ==
    Importing = {"clients", "rules", "ledgers", "hashes", "history", "settings",
                 "txns", "saveSettings", "validate"}
BY DEF Importing, Range, Phases

\* The tables only grow, for clients that have been met.
Grows ==
    /\ UNCHANGED <<ids, export>>
    /\ DOMAIN db.clients \subseteq DOMAIN db'.clients
    /\ Range(db.clients) \subseteq Range(db'.clients)
    /\ \A e \in Keyed : db[e] \subseteq db'[e]
    /\ TxnKeys(db) \subseteq TxnKeys(db')

\* What is in the tables stays there when they grow.
LEMMA InStays ==
    ASSUME Grows
    PROVE  /\ IdsOK => IdsOK'
           /\ \A S : ClientsIn(S) => ClientsIn(S)'
           /\ \A e \in Keyed : \A S : KeyedIn(e, S) => KeyedIn(e, S)'
           /\ \A S : HistoryIn(S) => HistoryIn(S)'
<1>1. IdsOK => IdsOK'
  BY DEF Grows, IdsOK
<1>2. \A S : ClientsIn(S) => ClientsIn(S)'
  BY DEF Grows, ClientsIn
<1>3. ASSUME NEW e \in Keyed, NEW S, KeyedIn(e, S) PROVE KeyedIn(e, S)'
  BY <1>3 DEF Grows, KeyedIn, Resolves, RowOf
<1>4. ASSUME NEW S, HistoryIn(S) PROVE HistoryIn(S)'
  BY <1>4 DEF Grows, HistoryIn, Resolves
<1> QED
  BY <1>1, <1>2, <1>3, <1>4

\* Nothing yet of a phase that has not begun.
LEMMA NothingIn ==
    /\ \A e \in Keyed : KeyedIn(e, {})
    /\ HistoryIn({})
BY DEF KeyedIn, HistoryIn

\* Adding a row to a keyed table.
LEMMA WithRows ==
    ASSUME Tables(db), NEW e \in Keyed, NEW rows \in SUBSET ((DOMAIN db.clients) \X Keys),
           db' = [db EXCEPT ![e] = @ \cup rows]
    PROVE  /\ Tables(db')
           /\ db'.clients = db.clients /\ db'.history = db.history /\ db'.txns = db.txns
           /\ db'.settings = db.settings
           /\ db'[e] = db[e] \cup rows
           /\ \A f \in Keyed : f # e => db'[f] = db[f]
<1>1. db \in Database /\ Linked(db)
  BY DEF Tables
<1>2. DOMAIN db.clients \subseteq Nat
  <2>1. db.clients \in Seq(Names)
    BY <1>1 DEF Database
  <2> QED
    BY <2>1, LenProperties
<1>3. /\ db'.clients = db.clients /\ db'.history = db.history /\ db'.txns = db.txns
      /\ db'.settings = db.settings
      /\ db'[e] = db[e] \cup rows
      /\ \A f \in Keyed : f # e => db'[f] = db[f]
  BY <1>1 DEF Database, Keyed
<1>4. db[e] \cup rows \in SUBSET (Nat \X Keys)
  <2>1. db[e] \in SUBSET (Nat \X Keys)
    BY <1>1 DEF Database, Keyed
  <2>2. (DOMAIN db.clients) \X Keys \subseteq Nat \X Keys
    BY <1>2, Pairs
  <2> QED
    BY <2>1, <2>2
<1>5. db' \in Database
  <2>1. CASE e = "rules"
    BY <1>1, <1>4, <2>1 DEF Database
  <2>2. CASE e = "ledgers"
    BY <1>1, <1>4, <2>2 DEF Database
  <2>3. CASE e = "hashes"
    BY <1>1, <1>4, <2>3 DEF Database
  <2> QED
    BY <2>1, <2>2, <2>3 DEF Keyed
<1>6. \A r \in rows : r[1] \in DOMAIN db.clients
  <2>1. \A r \in (DOMAIN db.clients) \X Keys : r[1] \in DOMAIN db.clients
    BY Pairs
  <2> QED
    BY <2>1
<1>7. Linked(db')
  <2>1. \A f \in Keyed : \A r \in db'[f] : r[1] \in DOMAIN db.clients
    BY <1>1, <1>3, <1>6 DEF Linked, Keyed
  <2> QED
    BY <1>1, <1>3, <2>1 DEF Linked, Keyed
<1> QED
  BY <1>3, <1>5, <1>7 DEF Tables

\* A batch is records left of clients that have been met.
LEMMA BatchIsLeft ==
    ASSUME NEW e \in Keyed, todo \in SUBSET Nat, NEW batch \in Batches(e)
    PROVE  batch \subseteq todo /\ \A i \in batch : Resolves(export[e][i].client)
<1> DEFINE same(i) == {j \in todo : Resolves(export[e][j].client)
                                      /\ ids[export[e][j].client] = ids[export[e][i].client]}
           good == {i \in todo : Resolves(export[e][i].client)}
<1>1. \A i \in good : same(i) \in SUBSET Nat /\ i \in same(i) /\ same(i) \subseteq good
  OBVIOUS
<1>2. good \in SUBSET Nat
  OBVIOUS
<1>3. CASE e = "rules"
  <2>1. PICK i \in good : batch = {First(good)}
    BY <1>3 DEF Batches
  <2>2. First(good) \in good
    BY <1>2, FirstIsOne
  <2> QED
    BY <2>1, <2>2
<1>4. CASE e = "ledgers"
  <2>1. PICK i \in good : batch = {First(same(i))}
    BY <1>4 DEF Batches
  <2>2. First(same(i)) \in same(i)
    BY <1>1, <2>1, FirstIsOne
  <2> QED
    BY <1>1, <2>1, <2>2
<1>5. CASE e = "hashes"
  <2>1. PICK i \in good : batch = same(i)
    BY <1>5 DEF Batches
  <2> QED
    BY <1>1, <2>1
<1> QED
  BY <1>3, <1>4, <1>5 DEF Keyed

\* A batch of rules, ledgers or hashes goes in (import_rules, import_ledgers,
\* import_dedupe).
LEMMA ImportKeyedStep ==
    ASSUME IInv, NEW e \in Keyed, ImportKeyed(e)
    PROVE  IInv'
<1>1. /\ pc = e /\ pc' = e /\ UNCHANGED <<ids, found, keyring, backup, before, conn, export>>
      /\ e \in Importing
  BY ImportPlaces DEF ImportKeyed, Importer, Keyed
<1>2. PICK batch \in Batches(e) :
         /\ todo' = todo \ batch
         /\ db' = [db EXCEPT ![e] = @ \cup {RowOf(e, i) : i \in batch}]
         /\ Count(e, NewRows(e, batch))
  BY DEF ImportKeyed
<1>3. Tables(db) /\ export \in Exports /\ e \notin {"idle", "down"}
  BY <1>1 DEF IInv, RunOK, Keyed
<1>4. todo \subseteq DOMAIN export[e] /\ DOMAIN export[e] \in SUBSET Nat
  BY <1>1, <1>3, ExportTyped DEF IInv, TodoOK
<1>5. batch \subseteq todo /\ \A i \in batch : Resolves(export[e][i].client)
  BY <1>4, BatchIsLeft
<1>6. /\ IdsOK /\ ClientsIn(DOMAIN export.clients)
      /\ \A f \in Keyed : KeyedIn(f, Behind(f))
      /\ HistoryIn({})
  <2>1. e \in After("clients") /\ e # "clients" /\ e \notin {"history", "txns"} \cup AfterHistory
    BY DEF Keyed, After, AfterHistory
  <2> QED
    BY <1>1, <2>1, NothingIn DEF IInv, Progress, Behind
<1>7. {RowOf(e, i) : i \in batch} \in SUBSET ((DOMAIN db.clients) \X Keys)
  <2>1. ASSUME NEW i \in batch
        PROVE  ids[export[e][i].client] \in DOMAIN db.clients /\ export[e][i].key \in Keys
    BY <1>3, <1>4, <1>5, <1>6, <2>1, ExportTyped DEF IdsOK, Resolves
  <2>2. \A i \in batch : RowOf(e, i) \in (DOMAIN db.clients) \X Keys
    BY <2>1, Pairs DEF RowOf
  <2> QED
    BY <2>2
<1> DEFINE rows == {RowOf(e, i) : i \in batch}
<1>8. /\ Tables(db')
      /\ db'.clients = db.clients /\ db'.history = db.history /\ db'.txns = db.txns
      /\ db'[e] = db[e] \cup rows
      /\ \A f \in Keyed : f # e => db'[f] = db[f]
  BY <1>2, <1>3, <1>7, WithRows
<1>9. Grows
  BY <1>1, <1>8 DEF Grows, TxnKeys
<1>10. KeyedIn(e, DOMAIN export[e] \ todo)
  BY <1>1, <1>6 DEF Behind
<1>11. KeyedIn(e, DOMAIN export[e] \ todo)'
  <2> SUFFICES ASSUME NEW i \in DOMAIN export[e] \ (todo \ batch), Resolves(export[e][i].client)
               PROVE  RowOf(e, i) \in db'[e]
    BY <1>1, <1>2 DEF KeyedIn, Resolves, RowOf
  <2> QED
    BY <1>8, <1>10 DEF KeyedIn
<1>12. TodoOK'
  BY <1>1, <1>2, <1>4 DEF TodoOK, Keyed
<1>13. Progress'
  <2>1. ClientsIn(DOMAIN export.clients)' /\ IdsOK' /\ HistoryIn({})'
    BY <1>1, <1>6, <1>9, InStays
  <2>2. e \in After("clients") /\ e # "clients" /\ e \notin {"history", "txns"} \cup AfterHistory
    BY DEF Keyed, After, AfterHistory
  <2>3. ASSUME NEW f \in Keyed PROVE KeyedIn(f, Behind(f))'
    <3>1. CASE f = e
      BY <1>1, <1>11, <3>1 DEF Behind
    <3>2. CASE f # e
      <4>1. Behind(f)' = Behind(f)
        BY <1>1, <3>2 DEF Behind
      <4>2. PICK S : S = Behind(f)
        OBVIOUS
      <4>3. KeyedIn(f, S)'
        BY <1>6, <1>9, <4>2, InStays
      <4> QED
        BY <4>1, <4>2, <4>3
    <3> QED
      BY <3>1, <3>2
  <2> QED
    BY <1>1, <2>1, <2>2, <2>3 DEF Progress, Behind, HistoryBehind, AfterHistory
<1> QED
  BY <1>1, <1>2, <1>8, <1>12, <1>13, ImportFrame

\* The phase after each phase.
LEMMA NextPhase ==
    ASSUME PhaseDone
    PROVE  \/ pc = "clients" /\ Enter("rules")
           \/ pc = "rules" /\ Enter("ledgers")
           \/ pc = "ledgers" /\ Enter("hashes")
           \/ pc = "hashes" /\ Enter("history")
           \/ pc = "history" /\ Enter("settings")
<1>1. /\ pc \in {"clients", "rules", "ledgers", "hashes", "history"}
      /\ Enter(Phases[1 + CHOOSE i \in DOMAIN Phases : Phases[i] = pc])
  BY DEF PhaseDone, Range, Phases
<1>2. \A i \in 1..6 : (CHOOSE k \in DOMAIN Phases : Phases[k] = Phases[i]) = i
  BY DEF Phases
<1>3. \A i \in 1..5 : pc = Phases[i] => Enter(Phases[1 + i])
  <2> SUFFICES ASSUME NEW i \in 1..5, pc = Phases[i] PROVE Enter(Phases[1 + i])
    OBVIOUS
  <2>1. (CHOOSE k \in DOMAIN Phases : Phases[k] = pc) = i
    BY <1>2
  <2> QED
    BY <1>1, <2>1
<1>4. /\ Phases[1] = "clients" /\ Phases[2] = "rules" /\ Phases[3] = "ledgers"
      /\ Phases[4] = "hashes" /\ Phases[5] = "history" /\ Phases[6] = "settings"
  BY DEF Phases
<1>5. /\ pc = "clients" => Enter(Phases[1 + 1])
      /\ pc = "rules" => Enter(Phases[1 + 2])
      /\ pc = "ledgers" => Enter(Phases[1 + 3])
      /\ pc = "hashes" => Enter(Phases[1 + 4])
      /\ pc = "history" => Enter(Phases[1 + 5])
  BY <1>3, <1>4
<1> QED
  BY <1>1, <1>4, <1>5

\* The next phase starts with all of its records to do (import_all).
LEMMA PhaseDoneStep ==
    ASSUME IInv, PhaseDone
    PROVE  IInv'
<1>1. /\ todo = {}
      /\ UNCHANGED <<db, keyring, backup, before, conn, export, ids, found, report>>
  BY DEF PhaseDone
<1>2. PICK next : /\ Enter(next)
                  /\ \/ pc = "clients" /\ next = "rules"
                     \/ pc = "rules" /\ next = "ledgers"
                     \/ pc = "ledgers" /\ next = "hashes"
                     \/ pc = "hashes" /\ next = "history"
                     \/ pc = "history" /\ next = "settings"
  BY NextPhase
<1>3. pc' = next /\ pc \in Importing /\ pc' \in Importing
  BY <1>2, ImportPlaces DEF Enter
<1>4. todo' = IF next = "settings" THEN {} ELSE DOMAIN export[next]
  BY <1>2 DEF Enter
<1>5. Tables(db')
  BY <1>1, <1>3 DEF IInv, RunOK
<1>6. TodoOK'
  BY <1>1, <1>2, <1>3, <1>4 DEF TodoOK, Keyed
<1>7. Progress'
  <2>1. Behind("clients")' = Behind("clients")
    BY <1>1, <1>2, <1>3 DEF Behind, After, Keyed, AfterHistory
  <2>2. \A e \in Keyed : Behind(e)' \subseteq Behind(e)
    <3> SUFFICES ASSUME NEW e \in Keyed PROVE Behind(e)' \subseteq Behind(e)
      OBVIOUS
    <3>1. CASE pc = e
      BY <1>1, <1>2, <1>3, <3>1 DEF Behind, After, Keyed, AfterHistory
    <3>2. CASE pc # e /\ next = e
      BY <1>1, <1>2, <1>3, <1>4, <3>2 DEF Behind, After, Keyed, AfterHistory
    <3>3. CASE pc # e /\ next # e
      BY <1>1, <1>2, <1>3, <3>3 DEF Behind, After, Keyed, AfterHistory
    <3> QED
      BY <3>1, <3>2, <3>3
  <2>3. HistoryBehind' \subseteq HistoryBehind
    BY <1>1, <1>2, <1>3, <1>4 DEF HistoryBehind, AfterHistory
  <2>4. /\ IdsOK' /\ ClientsIn(Behind("clients"))'
        /\ \A e \in Keyed : KeyedIn(e, Behind(e))'
        /\ HistoryIn(HistoryBehind)'
    <3>1. /\ IdsOK /\ ClientsIn(Behind("clients"))
          /\ \A e \in Keyed : KeyedIn(e, Behind(e))
          /\ HistoryIn(HistoryBehind)
      BY <1>3 DEF IInv, Progress
    <3>2. IdsOK' /\ ClientsIn(Behind("clients"))'
      BY <1>1, <2>1, <3>1 DEF IdsOK, ClientsIn
    <3>3. \A e \in Keyed : KeyedIn(e, Behind(e))'
      BY <1>1, <2>2, <3>1 DEF KeyedIn, Resolves, RowOf
    <3>4. HistoryIn(HistoryBehind)'
      BY <1>1, <2>3, <3>1 DEF HistoryIn, Resolves, TxnKeys
    <3> QED
      BY <3>2, <3>3, <3>4
  <2> QED
    BY <1>2, <1>3, <2>4 DEF Progress
<1> QED
  BY <1>1, <1>3, <1>5, <1>6, <1>7, ImportFrame

\* Records of clients that were never met are left out.
LEMMA SkipUnresolvedStep ==
    ASSUME IInv, SkipUnresolved
    PROVE  IInv'
<1>1. PICK lost : /\ lost = {i \in todo : ~Resolves(export[pc][i].client)}
                  /\ todo' = todo \ lost
  BY DEF SkipUnresolved
<1>2. /\ pc \in Keyed \cup {"history"} /\ pc \in Importing /\ pc' = pc
      /\ UNCHANGED <<db, keyring, backup, before, conn, export, ids, found, report>>
  BY ImportPlaces DEF SkipUnresolved, Importer, Keyed
<1>3. Tables(db')
  BY <1>2 DEF IInv, RunOK
<1>4. TodoOK'
  BY <1>1, <1>2 DEF IInv, TodoOK, Keyed
<1>5. Progress'
  <2>1. /\ IdsOK /\ ClientsIn(Behind("clients"))
        /\ \A e \in Keyed : KeyedIn(e, Behind(e))
        /\ HistoryIn(HistoryBehind)
    BY <1>2 DEF IInv, Progress
  <2>2. IdsOK' /\ ClientsIn(Behind("clients"))'
    <3>1. Behind("clients")' = Behind("clients")
      BY <1>2 DEF Behind, Keyed
    <3> QED
      BY <1>2, <2>1, <3>1 DEF IdsOK, ClientsIn
  <2>3. ASSUME NEW e \in Keyed PROVE KeyedIn(e, Behind(e))'
    <3>1. KeyedIn(e, Behind(e))
      BY <2>1
    <3>2. CASE pc = e
      BY <1>1, <1>2, <3>1, <3>2 DEF Behind, KeyedIn, Resolves, RowOf
    <3>3. CASE pc # e
      BY <1>2, <3>1, <3>3 DEF Behind, KeyedIn, Resolves, RowOf
    <3> QED
      BY <3>2, <3>3
  <2>4. HistoryIn(HistoryBehind)'
    <3>1. CASE pc = "history"
      <4>1. HistoryIn(DOMAIN export.history \ todo)
        BY <2>1, <3>1 DEF HistoryBehind
      <4>2. \A i \in todo : Resolves(export.history[i].client) => i \notin lost
        BY <1>1, <3>1
      <4>3. HistoryIn(DOMAIN export.history \ todo')
        BY <1>1, <3>1, <4>1, <4>2 DEF HistoryIn
      <4>4. HistoryBehind' = DOMAIN export.history \ todo'
        BY <1>2, <3>1 DEF HistoryBehind
      <4> QED
        BY <1>2, <4>3, <4>4 DEF HistoryIn, Resolves, TxnKeys
    <3>2. CASE pc # "history"
      <4>1. HistoryBehind' = {}
        BY <1>2, <3>2 DEF HistoryBehind, AfterHistory, Keyed
      <4> QED
        BY <4>1 DEF HistoryIn
    <3> QED
      BY <3>1, <3>2
  <2> QED
    BY <1>2, <2>2, <2>3, <2>4 DEF Progress, Keyed
<1> QED
  BY <1>2, <1>3, <1>4, <1>5, ImportFrame

\* A client is taken over under its name or added (import_clients).
LEMMA ImportClientStep ==
    ASSUME IInv, ImportClient
    PROVE  IInv'
<1>1. /\ pc = "clients" /\ todo # {} /\ pc' = "clients" /\ pc \in Importing
      /\ UNCHANGED <<keyring, backup, before, conn, export, found>>
  BY ImportPlaces DEF ImportClient, Importer
<1>2. PICK i, c, known :
         /\ i = First(todo) /\ c = export.clients[i]
         /\ known = {k \in DOMAIN db.clients : db.clients[k] = c.name}
         /\ todo' = todo \ {i}
         /\ \/ known # {} /\ Met(c.id, First(known)) /\ UNCHANGED <<db, report>>
            \/ /\ known = {}
               /\ db' = [db EXCEPT !.clients = Append(@, c.name)]
               /\ Met(c.id, Len(db.clients) + 1)
               /\ Count("clients", 1)
  BY DEF ImportClient
<1>3. /\ export \in Exports /\ i \in todo /\ i \in DOMAIN export.clients
      /\ c.name \in Names
  BY <1>1, <1>2, FirstTodo, ExportTyped
<1>4. Tables(db) /\ db.clients \in Seq(Names) /\ db \in Database
  BY <1>1 DEF IInv, RunOK, Tables, Database
<1>5. /\ Tables(db') /\ db'.txns = db.txns
      /\ DOMAIN db.clients \subseteq DOMAIN db'.clients
      /\ Range(db.clients) \subseteq Range(db'.clients)
      /\ \E row \in DOMAIN db'.clients : Met(c.id, row) /\ db'.clients[row] = c.name
  <2>1. CASE known # {} /\ Met(c.id, First(known)) /\ UNCHANGED <<db, report>>
    <3>1. DOMAIN db.clients \subseteq Nat
      BY <1>4, LenProperties
    <3>2. First(known) \in known
      BY <1>2, <2>1, <3>1, FirstIsOne
    <3> QED
      BY <1>2, <1>4, <2>1, <3>2
  <2>2. CASE /\ known = {}
             /\ db' = [db EXCEPT !.clients = Append(@, c.name)]
             /\ Met(c.id, Len(db.clients) + 1)
    <3> DEFINE s == Append(db.clients, c.name)
               n == Len(db.clients) + 1
    <3>1. /\ s \in Seq(Names) /\ DOMAIN s = 1..n /\ DOMAIN db.clients = 1..Len(db.clients)
          /\ Len(db.clients) \in Nat /\ s[n] = c.name
          /\ \A k \in DOMAIN db.clients : s[k] = db.clients[k]
      BY <1>3, <1>4, AppendProperties, LenProperties
    <3>2. /\ db'.clients = s /\ db'.txns = db.txns /\ db'.history = db.history
          /\ db'.rules = db.rules /\ db'.ledgers = db.ledgers /\ db'.hashes = db.hashes
      BY <1>4, <2>2 DEF Database
    <3>3. db' \in Database
      BY <1>4, <2>2, <3>1 DEF Database
    <3>4. DOMAIN db.clients \subseteq DOMAIN s /\ n \in DOMAIN s
      BY <3>1
    <3>5. Linked(db')
      <4> HIDE DEF s
      <4>1. Linked(db)
        BY <1>4 DEF Tables
      <4>2. \A r \in db.rules \cup db.ledgers \cup db.hashes : r[1] \in DOMAIN s
        BY <3>4, <4>1 DEF Linked
      <4>3. \A t \in db.txns : t.client \in DOMAIN s /\ (t.import # 0 => t.import \in DOMAIN db.history)
        BY <3>4, <4>1 DEF Linked
      <4> QED
        BY <3>2, <4>2, <4>3 DEF Linked
    <3>6. IsInjective(s)
      <4> SUFFICES ASSUME NEW j \in DOMAIN s, NEW k \in DOMAIN s, s[j] = s[k] PROVE j = k
        BY DEF IsInjective
      <4>1. \A l \in DOMAIN db.clients : s[l] # c.name
        BY <1>2, <2>2, <3>1
      <4>2. IsInjective(db.clients)
        BY <1>4 DEF Tables
      <4>3. \A l \in DOMAIN s : l \in DOMAIN db.clients \/ l = n
        BY <3>1
      <4> QED
        BY <3>1, <4>1, <4>2, <4>3 DEF IsInjective
    <3>7. Range(db.clients) \subseteq Range(s)
      BY <3>1, <3>4 DEF Range
    <3> QED
      BY <2>2, <3>1, <3>2, <3>3, <3>4, <3>5, <3>6, <3>7 DEF Tables
  <2> QED
    BY <1>2, <2>1, <2>2
<1>6. PICK row \in DOMAIN db'.clients : Met(c.id, row) /\ db'.clients[row] = c.name
  BY <1>5
<1>7. TodoOK'
  BY <1>1, <1>2 DEF IInv, TodoOK, Keyed
<1>8. Progress'
  <2>1. IdsOK /\ ClientsIn(DOMAIN export.clients \ todo)
    BY <1>1 DEF IInv, Progress, Behind
  <2>2. /\ DOMAIN ids' = DOMAIN ids \cup {c.id}
        /\ \A x \in DOMAIN ids' : ids'[x] = IF x = c.id THEN row ELSE ids[x]
    BY <1>6 DEF Met
  <2>3. IdsOK'
    BY <1>5, <2>1, <2>2 DEF IdsOK
  <2>4. DOMAIN export.clients \ todo' = (DOMAIN export.clients \ todo) \cup {i}
    BY <1>2, <1>3
  <2>5. ClientsIn(DOMAIN export.clients \ todo)'
    <3>1. DOMAIN ids' = {export.clients[j].id : j \in (DOMAIN export.clients \ todo) \cup {i}}
      BY <1>2, <2>1, <2>2 DEF ClientsIn
    <3>2. \A j \in (DOMAIN export.clients \ todo) \cup {i} :
             export.clients[j].name \in Range(db'.clients)
      <4>1. c.name \in Range(db'.clients)
        BY <1>6 DEF Range
      <4> QED
        BY <1>2, <1>5, <2>1, <4>1 DEF ClientsIn
    <3> QED
      BY <1>1, <2>4, <3>1, <3>2 DEF ClientsIn
  <2>6. \A e \in Keyed : Behind(e)' = {}
    BY <1>1 DEF Keyed, Behind, After, AfterHistory
  <2>7. HistoryBehind' = {}
    BY <1>1 DEF HistoryBehind, AfterHistory
  <2>8. Behind("clients")' = (DOMAIN export.clients \ todo)'
    BY <1>1 DEF Behind
  <2>9. /\ ClientsIn(Behind("clients"))' /\ HistoryIn(HistoryBehind)'
        /\ \A e \in Keyed : KeyedIn(e, Behind(e))'
    BY <2>5, <2>6, <2>7, <2>8 DEF ClientsIn, HistoryIn, KeyedIn
  <2> QED
    BY <1>1, <2>3, <2>9 DEF Progress
<1>9. report' = report \/ \E e, n : Count(e, n)
  BY <1>2
<1> QED
  BY <1>1, <1>5, <1>7, <1>8, <1>9, ImportFrame

\* From the import history on: what stays when the tables only grow.
LEMMA LateKept ==
    ASSUME IInv, pc \in {"history", "txns"} \cup AfterHistory,
           pc' \in {"history", "txns"} \cup AfterHistory, Grows
    PROVE  /\ IdsOK' /\ ClientsIn(Behind("clients"))'
           /\ \A e \in Keyed : KeyedIn(e, Behind(e))'
           /\ \A S : HistoryIn(S) => HistoryIn(S)'
<1>1. /\ Behind("clients") = DOMAIN export.clients
      /\ \A e \in Keyed : Behind(e) = DOMAIN export[e]
  BY DEF Behind, After, AfterHistory, Keyed
<1>2. /\ Behind("clients")' = DOMAIN export.clients
      /\ \A e \in Keyed : Behind(e)' = DOMAIN export[e]
  BY DEF Behind, After, AfterHistory, Keyed, Grows
<1>3. /\ IdsOK /\ ClientsIn(DOMAIN export.clients)
      /\ \A e \in Keyed : KeyedIn(e, DOMAIN export[e])
  BY <1>1, ImportPlaces DEF IInv, Progress, AfterHistory
<1>4. PICK C : C = DOMAIN export.clients
  OBVIOUS
<1>5. IdsOK' /\ ClientsIn(C)'
  BY <1>3, <1>4, InStays
<1>6. ASSUME NEW e \in Keyed PROVE KeyedIn(e, Behind(e))'
  <2>1. PICK S : S = DOMAIN export[e]
    OBVIOUS
  <2>2. KeyedIn(e, S)'
    BY <1>3, <2>1, InStays
  <2> QED
    BY <1>2, <2>1, <2>2
<1> QED
  BY <1>2, <1>4, <1>5, <1>6, InStays

\* The history record whose turn it is.
LEMMA FirstHistory ==
    ASSUME IInv, pc \in {"history", "txns"}, todo # {},
           Resolves(export.history[First(todo)].client)
    PROVE  \E i, h : /\ i = First(todo) /\ i \in todo /\ i \in DOMAIN export.history
                     /\ h = export.history[i] /\ h \in Range(export.history)
                     /\ export \in Exports
                     /\ h.file \in Files /\ Len(h.txns) \in Nat /\ Range(h.txns) \subseteq TxnIds
                     /\ ids[h.client] \in DOMAIN db.clients /\ ids[h.client] \in Nat
<1>1. /\ export \in Exports /\ First(todo) \in todo
      /\ First(todo) \in DOMAIN export.history
  BY FirstTodo
<1>2. IdsOK /\ Tables(db)
  BY ImportPlaces DEF IInv, Progress, RunOK
<1>3. db.clients \in Seq(Names)
  BY <1>2 DEF Tables, Database
<1>4. DOMAIN db.clients \subseteq Nat
  BY <1>3, LenProperties
<1> QED
  BY <1>1, <1>2, <1>4, ExportTyped DEF IdsOK, Resolves, Range

\* An import is found or added; its transactions come next
\* (import_history_and_transactions).
LEMMA RegisterImportStep ==
    ASSUME IInv, RegisterImport
    PROVE  IInv'
<1>1. /\ pc = "history" /\ pc' = "txns" /\ todo # {} /\ todo' = todo
      /\ Resolves(export.history[First(todo)].client)
      /\ UNCHANGED <<keyring, backup, before, conn, export, ids>>
      /\ pc \in Importing /\ pc' \in Importing
  BY ImportPlaces DEF RegisterImport, Importer
<1>2. PICK i, h : /\ i = First(todo) /\ i \in todo /\ i \in DOMAIN export.history
                  /\ h = export.history[i] /\ h \in Range(export.history)
                  /\ export \in Exports
                  /\ h.file \in Files /\ Len(h.txns) \in Nat /\ Range(h.txns) \subseteq TxnIds
                  /\ ids[h.client] \in DOMAIN db.clients /\ ids[h.client] \in Nat
  BY <1>1, FirstHistory
<1>3. Tables(db) /\ db \in Database /\ db.history \in Seq([client: Nat, file: Files, count: Nat])
  BY <1>1 DEF IInv, RunOK, Tables, Database
<1>4. /\ Tables(db') /\ db'.txns = db.txns /\ db'.clients = db.clients
      /\ \A e \in Keyed : db'[e] = db[e]
      /\ found' \in DOMAIN db'.history
      /\ report' = report \/ Count("history", 1)
  <2>1. CASE SameImport(h) # {} /\ found' = First(SameImport(h)) /\ UNCHANGED <<db, report>>
    <3>1. SameImport(h) \in SUBSET Nat /\ SameImport(h) \subseteq DOMAIN db.history
      BY <1>3, LenProperties DEF SameImport
    <3>2. First(SameImport(h)) \in SameImport(h)
      BY <2>1, <3>1, FirstIsOne
    <3> QED
      BY <1>3, <2>1, <3>1, <3>2
  <2>2. CASE /\ db' = [db EXCEPT !.history = Append(@,
                            [client |-> ids[h.client], file |-> h.file, count |-> Len(h.txns)])]
             /\ found' = Len(db.history) + 1
             /\ Count("history", 1)
    <3>1. PICK s : s = Append(db.history, [client |-> ids[h.client], file |-> h.file,
                                           count |-> Len(h.txns)])
      OBVIOUS
    <3>2. /\ s \in Seq([client: Nat, file: Files, count: Nat])
          /\ DOMAIN db.history \subseteq DOMAIN s /\ Len(db.history) + 1 \in DOMAIN s
      BY <1>2, <1>3, <3>1, AppendProperties, LenProperties, SMTT(30)
    <3>3. /\ db'.history = s /\ db'.txns = db.txns /\ db'.clients = db.clients
          /\ db'.rules = db.rules /\ db'.ledgers = db.ledgers /\ db'.hashes = db.hashes
          /\ db' \in Database
      BY <1>3, <2>2, <3>1, <3>2 DEF Database
    <3>4. Linked(db')
      BY <1>3, <3>2, <3>3 DEF Tables, Linked
    <3> QED
      BY <1>3, <2>2, <3>2, <3>3, <3>4 DEF Tables, Keyed
  <2> QED
    BY <1>2, <2>1, <2>2 DEF RegisterImport
<1>5. Grows
  BY <1>1, <1>4 DEF Grows, TxnKeys
<1>6. TodoOK'
  BY <1>1, <1>3, <1>4 DEF IInv, TodoOK, Resolves, Keyed
<1>7. Progress'
  <2>1. HistoryIn(DOMAIN export.history \ todo)
    BY <1>1 DEF IInv, Progress, HistoryBehind
  <2>2. PICK S : S = DOMAIN export.history \ todo
    OBVIOUS
  <2>3. HistoryBehind' = S
    BY <1>1, <2>2 DEF HistoryBehind
  <2>4. HistoryIn(S)' /\ IdsOK' /\ ClientsIn(Behind("clients"))'
        /\ \A e \in Keyed : KeyedIn(e, Behind(e))'
    BY <1>1, <1>5, <2>1, <2>2, LateKept
  <2> QED
    BY <1>1, <2>3, <2>4 DEF Progress
<1>8. \A t \in db'.txns : t.by = "user" => t \in db.txns
  BY <1>4
<1> QED
  BY <1>1, <1>4, <1>6, <1>7, <1>8, ImportFrame

\* The transactions of an import replace those with the same ids
\* (upsert_transactions).
LEMMA StoreTransactionsStep ==
    ASSUME IInv, StoreTransactions
    PROVE  IInv'
<1>1. /\ pc = "txns" /\ pc' = "history" /\ todo # {}
      /\ Resolves(export.history[First(todo)].client)
      /\ UNCHANGED <<keyring, backup, before, conn, export, ids>>
      /\ pc \in Importing /\ pc' \in Importing
      /\ todo \subseteq DOMAIN export.history /\ found \in DOMAIN db.history
  BY ImportPlaces DEF StoreTransactions, Importer, IInv, TodoOK
<1>2. PICK i, h : /\ i = First(todo) /\ i \in todo /\ i \in DOMAIN export.history
                  /\ h = export.history[i] /\ h \in Range(export.history)
                  /\ export \in Exports
                  /\ h.file \in Files /\ Len(h.txns) \in Nat /\ Range(h.txns) \subseteq TxnIds
                  /\ ids[h.client] \in DOMAIN db.clients /\ ids[h.client] \in Nat
  BY <1>1, FirstHistory
<1>3. PICK c, kept, new :
         /\ c = ids[h.client]
         /\ kept = {t \in db.txns : t.client # c \/ t.id \notin Range(h.txns)}
         /\ new = {[client |-> c, id |-> x, by |-> "legacy", import |-> found] : x \in Range(h.txns)}
  OBVIOUS
<1>4. /\ db' = [db EXCEPT !.txns = kept \cup new] /\ todo' = todo \ {i}
      /\ \E n : Count("txns", n)
  BY <1>2, <1>3 DEF StoreTransactions
<1>5. Tables(db) /\ db \in Database /\ Linked(db)
      /\ db.history \in Seq([client: Nat, file: Files, count: Nat])
  BY <1>1 DEF IInv, RunOK, Tables, Database
<1>6. found \in Nat
  BY <1>1, <1>5, LenProperties
<1>7. /\ db'.txns = kept \cup new /\ db'.clients = db.clients /\ db'.history = db.history
      /\ db'.rules = db.rules /\ db'.ledgers = db.ledgers /\ db'.hashes = db.hashes
      /\ db' \in Database
  <2>1. \A x \in Range(h.txns) : [client |-> c, id |-> x, by |-> "legacy", import |-> found]
          \in [client: Nat, id: TxnIds, by: {"legacy", "user"}, import: Nat]
    BY <1>2, <1>3, <1>6
  <2>2. kept \cup new \in SUBSET [client: Nat, id: TxnIds, by: {"legacy", "user"}, import: Nat]
    BY <1>3, <1>5, <2>1 DEF Database
  <2> QED
    BY <1>4, <1>5, <2>2 DEF Database
<1>8. Tables(db')
  <2>1. \A t \in kept \cup new : t.client \in DOMAIN db.clients
                                 /\ (t.import # 0 => t.import \in DOMAIN db.history)
    BY <1>1, <1>2, <1>3, <1>5 DEF Linked
  <2>2. Linked(db')
    BY <1>5, <1>7, <2>1 DEF Linked
  <2> QED
    BY <1>5, <1>7, <2>2 DEF Tables
<1>9. \A x \in Range(h.txns) : <<c, x>> \in TxnKeys(db')
  <2> SUFFICES ASSUME NEW x \in Range(h.txns) PROVE <<c, x>> \in TxnKeys(db')
    OBVIOUS
  <2>1. PICK t : t = [client |-> c, id |-> x, by |-> "legacy", import |-> found]
    OBVIOUS
  <2>2. t \in db'.txns /\ t.client = c /\ t.id = x
    BY <1>3, <1>7, <2>1
  <2> QED
    BY <2>2 DEF TxnKeys
<1>10. TxnKeys(db) \subseteq TxnKeys(db')
  <2> SUFFICES ASSUME NEW t \in db.txns PROVE <<t.client, t.id>> \in TxnKeys(db')
    BY DEF TxnKeys
  <2>1. CASE t \in kept
    BY <1>7, <2>1 DEF TxnKeys
  <2>2. CASE t \notin kept
    BY <1>3, <1>9, <2>2
  <2> QED
    BY <2>1, <2>2
<1>11. Grows
  BY <1>1, <1>7, <1>10 DEF Grows, Keyed
<1>12. TodoOK'
  BY <1>1, <1>4 DEF TodoOK, Keyed
<1>13. Progress'
  <2>1. HistoryIn(DOMAIN export.history \ todo)
    BY <1>1 DEF IInv, Progress, HistoryBehind
  <2>2. PICK S : S = DOMAIN export.history \ todo
    OBVIOUS
  <2>3. HistoryIn(S)' /\ IdsOK' /\ ClientsIn(Behind("clients"))'
        /\ \A e \in Keyed : KeyedIn(e, Behind(e))'
    BY <1>1, <1>11, <2>1, <2>2, LateKept
  <2>4. HistoryBehind' = S \cup {i}
    BY <1>1, <1>2, <1>4, <2>2 DEF HistoryBehind
  <2>5. \A x \in Range(export.history[i].txns) :
          <<ids[export.history[i].client], x>> \in TxnKeys(db')
    BY <1>2, <1>3, <1>9
  <2>6. HistoryIn(S \cup {i})'
    BY <1>1, <2>3, <2>5 DEF HistoryIn
  <2> QED
    BY <1>1, <2>3, <2>4, <2>6 DEF Progress
<1>14. \A t \in db'.txns : t.by = "user" => t \in db.txns
  BY <1>3, <1>7
<1> QED
  BY <1>1, <1>4, <1>8, <1>12, <1>13, <1>14, ImportFrame

\* The settings parse or do not, and the key goes to the credential store.
LEMMA ImportSettingsStep ==
    ASSUME IInv, ImportSettings
    PROVE  IInv'
<1>1. /\ pc = "settings" /\ pc \in Importing /\ pc' \in Importing
      /\ UNCHANGED <<db, backup, before, conn, todo, export, ids, found, report>>
      /\ \/ export.settings = "good" /\ pc' = "saveSettings" /\ keyring' = "legacy"
         \/ export.settings # "good" /\ pc' = "validate"
  BY ImportPlaces DEF ImportSettings
<1>2. Tables(db')
  BY <1>1 DEF IInv, RunOK
<1>3. Grows
  BY <1>1 DEF Grows, TxnKeys
<1>4. TodoOK'
  BY <1>1 DEF TodoOK, Keyed
<1>5. Progress'
  <2>1. HistoryIn(DOMAIN export.history)
    BY <1>1 DEF IInv, Progress, HistoryBehind, AfterHistory
  <2>2. PICK S : S = DOMAIN export.history
    OBVIOUS
  <2>3. HistoryBehind' = S
    BY <1>1, <2>2 DEF HistoryBehind, AfterHistory
  <2>4. HistoryIn(S)' /\ IdsOK' /\ ClientsIn(Behind("clients"))'
        /\ \A e \in Keyed : KeyedIn(e, Behind(e))'
    BY <1>1, <1>3, <2>1, <2>2, LateKept DEF AfterHistory
  <2> QED
    BY <1>1, <2>3, <2>4 DEF Progress, SettingsIn
<1>6. \A t \in db'.txns : t.by = "user" => t \in db.txns
  BY <1>1
<1> QED
  BY <1>1, <1>2, <1>4, <1>5, <1>6, ImportFrame

\* The settings are saved, the last of the import.
LEMMA SaveSettingsStep ==
    ASSUME IInv, SaveSettings
    PROVE  IInv'
<1>1. /\ pc = "saveSettings" /\ pc' = "validate" /\ pc \in Importing /\ pc' \in Importing
      /\ UNCHANGED <<keyring, backup, before, conn, todo, export, ids, found, report>>
      /\ db' = [db EXCEPT !.settings = "legacy"]
  BY ImportPlaces DEF SaveSettings, Importer
<1>2. Tables(db)
  BY <1>1 DEF IInv, RunOK
<1>3. /\ db'.clients = db.clients /\ db'.history = db.history /\ db'.txns = db.txns
      /\ db'.rules = db.rules /\ db'.ledgers = db.ledgers /\ db'.hashes = db.hashes
      /\ db'.settings = "legacy" /\ db' \in Database
  BY <1>1, <1>2 DEF Tables, Database
<1>4. Linked(db')
  BY <1>2, <1>3 DEF Tables, Linked
<1>5. Tables(db')
  BY <1>2, <1>3, <1>4 DEF Tables
<1>6. Grows
  BY <1>1, <1>3 DEF Grows, TxnKeys, Keyed
<1>7. TodoOK'
  BY <1>1 DEF TodoOK, Keyed
<1>8. Progress'
  <2>1. HistoryIn(DOMAIN export.history) /\ keyring = "legacy"
    BY <1>1 DEF IInv, Progress, HistoryBehind, AfterHistory
  <2>2. PICK S : S = DOMAIN export.history
    OBVIOUS
  <2>3. HistoryBehind' = S
    BY <1>1, <2>2 DEF HistoryBehind, AfterHistory
  <2>4. HistoryIn(S)' /\ IdsOK' /\ ClientsIn(Behind("clients"))'
        /\ \A e \in Keyed : KeyedIn(e, Behind(e))'
    BY <1>1, <1>6, <2>1, <2>2, LateKept DEF AfterHistory
  <2>5. SettingsIn'
    BY <1>1, <1>3, <2>1 DEF SettingsIn
  <2> QED
    BY <1>1, <2>3, <2>4, <2>5 DEF Progress
<1>9. \A t \in db'.txns : t.by = "user" => t \in db.txns
  BY <1>3
<1> QED
  BY <1>1, <1>5, <1>7, <1>8, <1>9, ImportFrame

-----------------------------------------------------------------------------
(***************************************************************************)
(* The steps before and after the import.                                  *)
(***************************************************************************)

\* The user starts a run: the connection is closed (on_do_migration_run).
LEMMA RunStep ==
    ASSUME IInv, NEW x \in Exports, Run(x)
    PROVE  IInv'
<1>1. /\ pc' = "backup" /\ conn' = "closed" /\ export' = x /\ ids' = << >>
      /\ report' = NewReport /\ before' = db /\ db' = db
  BY DEF Run
<1>2. TypeOK' /\ RunOK'
  BY <1>1 DEF IInv, TypeOK, RunOK, Tables, Importing, Range, Phases
<1>3. ReportOK' /\ SuccessOK'
  BY <1>1 DEF ReportOK, SuccessOK, NewReport
<1>4. TodoOK' /\ Progress' /\ UserRowsKept'
  BY <1>1, ImportPlaces DEF TodoOK, Progress, UserRowsKept, Keyed
<1> QED
  BY <1>2, <1>3, <1>4 DEF IInv

\* The database is copied, or found to be cut short (backup_database).
LEMMA BackupStep ==
    ASSUME IInv, Backup
    PROVE  IInv'
<1>1. /\ pc = "backup" /\ UNCHANGED <<db, before, conn, export, ids, report>>
      /\ \/ db # Torn /\ backup' = db /\ pc' = "open"
         \/ pc' = "reopen"
  BY DEF Backup, GiveUp
<1>2. ~report.success /\ ~report.rolledBack /\ conn # "open"
  BY <1>1 DEF IInv, ReportOK, TypeOK
<1>3. TypeOK' /\ RunOK'
  BY <1>1, <1>2, ImportPlaces DEF IInv, TypeOK, RunOK, Tables
<1>4. ReportOK' /\ SuccessOK'
  BY <1>1, <1>2 DEF IInv, ReportOK, SuccessOK
<1>5. TodoOK' /\ Progress' /\ UserRowsKept'
  BY <1>1, ImportPlaces DEF TodoOK, Progress, UserRowsKept, Keyed
<1> QED
  BY <1>3, <1>4, <1>5 DEF IInv

\* The import begins with all clients to do and no client met.
LEMMA OpenStep ==
    ASSUME IInv, Open
    PROVE  IInv'
<1>1. /\ pc = "open" /\ pc' = "clients" /\ todo' = DOMAIN export.clients /\ pc' \in Importing
      /\ UNCHANGED <<db, backup, before, conn, export, ids, found, report>>
  BY ImportPlaces DEF Open, Enter, Phases
<1>2. ~report.success /\ ~report.rolledBack /\ conn # "open"
      /\ db = before /\ DOMAIN ids = {} /\ Tables(db) /\ backup = before /\ export \in Exports
  BY <1>1 DEF IInv, ReportOK, TypeOK, RunOK
<1>3. TypeOK' /\ RunOK'
  BY <1>1, <1>2 DEF IInv, TypeOK, RunOK, Tables
<1>4. ReportOK' /\ SuccessOK'
  BY <1>1, <1>2 DEF IInv, ReportOK, SuccessOK
<1>5. TodoOK'
  BY <1>1 DEF TodoOK, Keyed
<1>6. Progress'
  <2>1. /\ Behind("clients")' = {} /\ HistoryBehind' = {}
        /\ \A e \in Keyed : Behind(e)' = {}
    BY <1>1 DEF Behind, HistoryBehind, After, AfterHistory, Keyed
  <2>2. IdsOK' /\ ClientsIn(Behind("clients"))'
    BY <1>1, <1>2, <2>1 DEF IdsOK, ClientsIn
  <2>3. HistoryIn(HistoryBehind)' /\ \A e \in Keyed : KeyedIn(e, Behind(e))'
    BY <2>1 DEF HistoryIn, KeyedIn
  <2> QED
    BY <1>1, <2>2, <2>3 DEF Progress
<1>7. UserRowsKept'
  BY <1>1, <1>2 DEF UserRowsKept
<1> QED
  BY <1>3, <1>4, <1>5, <1>6, <1>7 DEF IInv

\* A run that fails before its first write leaves the database alone.
LEMMA OpenFailsStep ==
    ASSUME IInv, OpenFails
    PROVE  IInv'
<1>1. /\ pc \in {"backup", "open"} /\ pc' = "reopen"
      /\ UNCHANGED <<db, backup, before, conn, export, ids, report>>
  BY DEF OpenFails, GiveUp
<1>2. ~report.success /\ ~report.rolledBack /\ conn # "open"
  BY <1>1 DEF IInv, ReportOK, TypeOK
<1>3. TypeOK' /\ RunOK'
  BY <1>1, <1>2, ImportPlaces DEF IInv, TypeOK, RunOK, Tables
<1>4. ReportOK' /\ SuccessOK'
  BY <1>1, <1>2 DEF IInv, ReportOK, SuccessOK
<1>5. TodoOK' /\ Progress' /\ UserRowsKept'
  BY <1>1, ImportPlaces DEF TodoOK, Progress, UserRowsKept, Keyed
<1> QED
  BY <1>3, <1>4, <1>5 DEF IInv

\* A statement fails and the import returns its error.
LEMMA FailStep ==
    ASSUME IInv, Fail
    PROVE  IInv'
<1>1. /\ pc \in Importing /\ pc' = "rollback"
      /\ UNCHANGED <<db, backup, before, conn, export, ids, report>>
  BY DEF Fail
<1>2. ~report.success /\ ~report.rolledBack /\ conn # "open"
  BY <1>1, ImportPlaces DEF IInv, ReportOK, TypeOK
<1>3. TypeOK' /\ RunOK'
  BY <1>1, <1>2, ImportPlaces DEF IInv, TypeOK, RunOK, Tables
<1>4. ReportOK' /\ SuccessOK'
  BY <1>1, <1>2 DEF IInv, ReportOK, SuccessOK
<1>5. TodoOK' /\ Progress'
  BY <1>1, ImportPlaces DEF TodoOK, Progress, Keyed
<1>6. UserRowsKept'
  BY <1>1 DEF IInv, UserRowsKept
<1> QED
  BY <1>3, <1>4, <1>5, <1>6 DEF IInv

\* A run that ends well has everything behind it.
LEMMA ValidateStep ==
    ASSUME IInv, Validate
    PROVE  IInv'
<1>1. /\ pc = "validate" /\ pc \in Importing
      /\ UNCHANGED <<db, keyring, backup, before, conn, todo, export, ids, found>>
      /\ \/ pc' = "rollback" /\ UNCHANGED report
         \/ pc' = "reopen" /\ report' = [report EXCEPT !.success = TRUE]
  BY ImportPlaces DEF Validate, Importer
<1>2. ~report.success /\ ~report.rolledBack /\ conn # "open" /\ export \in Exports /\ Tables(db)
  BY <1>1 DEF IInv, ReportOK, TypeOK, RunOK
<1>3. TypeOK' /\ RunOK'
  BY <1>1, <1>2, ImportPlaces DEF IInv, TypeOK, RunOK, Tables
<1>4. ReportOK'
  BY <1>1, <1>2 DEF IInv, ReportOK, NewReport
<1>5. Everything'
  <2>1. /\ ClientsIn(DOMAIN export.clients)
        /\ \A e \in Keyed : KeyedIn(e, DOMAIN export[e])
        /\ HistoryIn(DOMAIN export.history) /\ SettingsIn
    BY <1>1 DEF IInv, Progress, Behind, After, HistoryBehind, AfterHistory, Keyed
  <2>2. db # Torn
    BY <1>2, MigrationAssumption DEF Tables
  <2> QED
    BY <1>1, <1>2, <2>1, <2>2, ZenonT(60) DEF Everything, ClientsIn, KeyedIn, HistoryIn, SettingsIn, Resolves,
                                  RowOf, TxnKeys
<1>6. TodoOK' /\ Progress'
  BY <1>1, ImportPlaces DEF TodoOK, Progress, Keyed
<1>7. UserRowsKept'
  BY <1>1 DEF IInv, UserRowsKept
<1> QED
  BY <1>3, <1>4, <1>5, <1>6, <1>7 DEF IInv, SuccessOK

\* The backup is copied back, or the copy fails (restore_from_backup).
LEMMA RollbackStep ==
    ASSUME IInv, Rollback \/ RollbackFails
    PROVE  IInv'
<1>1. /\ pc = "rollback" /\ pc' = "reopen"
      /\ UNCHANGED <<before, conn, export, ids>>
      /\ \/ db' = backup /\ report' = [report EXCEPT !.rolledBack = TRUE]
         \/ db' \in {db, Torn} /\ report' = report
  BY DEF Rollback, RollbackFails, Importer
<1>2. /\ ~report.success /\ ~report.rolledBack /\ conn # "open"
      /\ Tables(db) /\ Tables(before) /\ backup = before /\ export \in Exports
  BY <1>1 DEF IInv, ReportOK, TypeOK, RunOK
<1>3. TypeOK' /\ RunOK'
  BY <1>1, <1>2, ImportPlaces DEF IInv, TypeOK, RunOK, Tables
<1>4. ReportOK' /\ SuccessOK'
  BY <1>1, <1>2 DEF IInv, ReportOK, SuccessOK, NewReport
<1>5. TodoOK' /\ Progress' /\ UserRowsKept'
  BY <1>1, ImportPlaces DEF TodoOK, Progress, UserRowsKept, Keyed
<1> QED
  BY <1>3, <1>4, <1>5 DEF IInv

\* What is there stays there when only its writer changes.
LEMMA EverythingStays ==
    ASSUME Everything, UNCHANGED <<keyring, export, ids>>,
           db' # Torn, db'.clients = db.clients, db'.settings = db.settings,
           \A e \in Keyed : db'[e] = db[e], TxnKeys(db') = TxnKeys(db)
    PROVE  Everything'
BY DEF Everything, ClientsIn, KeyedIn, HistoryIn, SettingsIn, Resolves, RowOf

\* The connection is reopened, by the thread or by the next start.
LEMMA ReopenStep ==
    ASSUME IInv, Reopen \/ ReopenFails \/ Start
    PROVE  IInv'
<1>1. /\ pc \in {"reopen", "down"} /\ pc' = "idle" /\ conn' \in {Opened, "failed"}
      /\ UNCHANGED <<db, keyring, backup, before, export, ids, report>>
  BY DEF Reopen, ReopenFails, Start
<1>2. TypeOK' /\ RunOK'
  BY <1>1, ImportPlaces DEF IInv, TypeOK, RunOK, Tables, Opened
<1>3. ReportOK'
  BY <1>1 DEF IInv, ReportOK
<1>4. SuccessOK'
  <2> SUFFICES ASSUME report.success PROVE Everything'
    BY <1>1 DEF SuccessOK
  <2>1. Everything
    BY DEF IInv, SuccessOK
  <2> QED
    BY <1>1, <2>1, EverythingStays DEF Everything, TxnKeys
<1>5. TodoOK' /\ Progress' /\ UserRowsKept'
  BY <1>1, ImportPlaces DEF TodoOK, Progress, UserRowsKept, Keyed
<1> QED
  BY <1>2, <1>3, <1>4, <1>5 DEF IInv

\* The process dies; what the tables hold and the report of no run remain.
LEMMA CrashStep ==
    ASSUME IInv, Crash
    PROVE  IInv'
<1>1. /\ pc' = "down" /\ conn' = "closed" /\ db' \in {db, Torn} /\ report' = NewReport
      /\ UNCHANGED before
  BY DEF Crash
<1>2. TypeOK' /\ RunOK'
  BY <1>1, ImportPlaces DEF IInv, TypeOK, RunOK, Tables
<1>3. ReportOK' /\ SuccessOK'
  BY <1>1 DEF ReportOK, SuccessOK, NewReport
<1>4. TodoOK' /\ Progress' /\ UserRowsKept'
  BY <1>1, ImportPlaces DEF TodoOK, Progress, UserRowsKept, Keyed
<1> QED
  BY <1>2, <1>3, <1>4 DEF IInv

\* The user classifies a transaction between two runs.
LEMMA EditStep ==
    ASSUME IInv, Edit
    PROVE  IInv'
<1>1. /\ pc = "idle" /\ pc' = "idle" /\ db # Torn /\ conn = "open" /\ Tables(db)
      /\ UNCHANGED <<keyring, backup, before, conn, export, ids, report>>
  BY DEF Edit, IInv, TypeOK, RunOK
<1>2. PICK t \in db.txns :
         t.by = "legacy" /\ db' = [db EXCEPT !.txns = (@ \ {t}) \cup {[t EXCEPT !.by = "user"]}]
  BY DEF Edit
<1>3. PICK u : u = [t EXCEPT !.by = "user"]
  OBVIOUS
<1>4. /\ t \in [client: Nat, id: TxnIds, by: {"legacy", "user"}, import: Nat]
      /\ db \in Database /\ Linked(db)
  BY <1>1 DEF Tables, Database
<1>5. /\ u \in [client: Nat, id: TxnIds, by: {"legacy", "user"}, import: Nat]
      /\ u.client = t.client /\ u.id = t.id /\ u.import = t.import
  BY <1>3, <1>4
<1>6. /\ db'.txns = (db.txns \ {t}) \cup {u}
      /\ db'.clients = db.clients /\ db'.history = db.history /\ db'.settings = db.settings
      /\ db'.rules = db.rules /\ db'.ledgers = db.ledgers /\ db'.hashes = db.hashes
      /\ db' \in Database
  BY <1>2, <1>3, <1>4, <1>5 DEF Database
<1>7. Linked(db')
  <2>1. \A v \in (db.txns \ {t}) \cup {u} : v.client \in DOMAIN db.clients
                                            /\ (v.import # 0 => v.import \in DOMAIN db.history)
    BY <1>4, <1>5 DEF Linked
  <2> QED
    BY <1>4, <1>6, <2>1 DEF Linked
<1>8. Tables(db') /\ db' # Torn
  BY <1>1, <1>6, <1>7, MigrationAssumption DEF Tables
<1>9. TypeOK' /\ RunOK'
  BY <1>1, <1>8, ImportPlaces DEF IInv, TypeOK, RunOK, Tables
<1>10. ReportOK'
  BY <1>1 DEF IInv, ReportOK
<1>11. TxnKeys(db') = TxnKeys(db)
  <2>1. \A v \in db'.txns : \E w \in db.txns : w.client = v.client /\ w.id = v.id
    BY <1>5, <1>6
  <2>2. \A w \in db.txns : \E v \in db'.txns : w.client = v.client /\ w.id = v.id
    <3> SUFFICES ASSUME NEW w \in db.txns
                 PROVE  \E v \in db'.txns : w.client = v.client /\ w.id = v.id
      OBVIOUS
    <3>1. CASE w = t
      BY <1>5, <1>6, <3>1
    <3>2. CASE w # t
      BY <1>6, <3>2
    <3> QED
      BY <3>1, <3>2
  <2>3. \A a \in TxnKeys(db') : a \in TxnKeys(db)
    BY <2>1 DEF TxnKeys
  <2>4. \A a \in TxnKeys(db) : a \in TxnKeys(db')
    BY <2>2 DEF TxnKeys
  <2> QED
    BY <2>3, <2>4
<1>12. SuccessOK'
  <2> SUFFICES ASSUME report.success PROVE Everything'
    BY <1>1 DEF SuccessOK
  <2>1. Everything
    BY DEF IInv, SuccessOK
  <2> QED
    BY <1>1, <1>6, <1>8, <1>11, <2>1, EverythingStays DEF Keyed
<1>13. TodoOK' /\ Progress' /\ UserRowsKept'
  BY <1>1, ImportPlaces DEF TodoOK, Progress, UserRowsKept, Keyed
<1> QED
  BY <1>9, <1>10, <1>12, <1>13 DEF IInv

\* The invariant holds at the start and every step keeps it.
THEOREM Inductive == Spec => []IInv
<1>1. Init => IInv
  <2> SUFFICES ASSUME Init PROVE IInv
    OBVIOUS
  <2>1. /\ db \in InitialDbs /\ before = db /\ conn = "open" /\ pc = "idle" /\ report = NewReport
    BY DEF Init
  <2>2. Tables(db) /\ db # Torn
    BY <2>1, MigrationAssumption DEF Tables
  <2>3. TypeOK /\ RunOK
    BY <2>1, <2>2, ImportPlaces DEF TypeOK, RunOK, Tables
  <2>4. ReportOK /\ SuccessOK
    BY <2>1 DEF ReportOK, SuccessOK, NewReport
  <2>5. TodoOK /\ Progress /\ UserRowsKept
    BY <2>1, ImportPlaces DEF TodoOK, Progress, UserRowsKept, Keyed
  <2> QED
    BY <2>3, <2>4, <2>5 DEF IInv
<1>2. IInv /\ [Next]_vars => IInv'
  <2> SUFFICES ASSUME IInv, [Next]_vars PROVE IInv'
    OBVIOUS
  <2>1. CASE Thread
    <3>1. \/ Backup \/ Open \/ PhaseDone \/ ImportClient \/ SkipUnresolved
          \/ \E e \in Keyed : ImportKeyed(e)
          \/ RegisterImport \/ StoreTransactions \/ ImportSettings \/ SaveSettings
          \/ Validate \/ Rollback \/ Reopen
      BY <2>1 DEF Thread
    <3> QED
      BY <3>1, BackupStep, OpenStep, PhaseDoneStep, ImportClientStep, SkipUnresolvedStep,
         ImportKeyedStep, RegisterImportStep, StoreTransactionsStep, ImportSettingsStep,
         SaveSettingsStep, ValidateStep, RollbackStep, ReopenStep
  <2>2. CASE \E x \in Exports : Run(x)
    BY <2>2, RunStep
  <2>3. CASE OpenFails \/ Fail \/ RollbackFails \/ ReopenFails \/ Edit \/ Crash \/ Start
    BY <2>3, OpenFailsStep, FailStep, RollbackStep, EditStep, CrashStep, ReopenStep
  <2>4. CASE UNCHANGED vars
    <3>1. UNCHANGED <<db, keyring, backup, before, conn, pc, todo, export, ids, found, report>>
      BY <2>4 DEF vars
    <3>2. TypeOK' /\ RunOK' /\ ReportOK' /\ TodoOK' /\ UserRowsKept'
      BY <3>1 DEF IInv, TypeOK, RunOK, ReportOK, TodoOK, UserRowsKept, Tables, Resolves
    <3>3. Progress' /\ SuccessOK'
      BY <3>1, ZenonT(60) DEF IInv, Progress, SuccessOK, Everything, Behind, HistoryBehind, IdsOK, ClientsIn,
                  KeyedIn, HistoryIn, SettingsIn, Resolves, RowOf, TxnKeys
    <3> QED
      BY <3>2, <3>3 DEF IInv
  <2> QED
    BY <2>1, <2>2, <2>3, <2>4 DEF Next
<1> QED
  BY <1>1, <1>2, PTL DEF Spec

\* Types, foreign keys and the connection: a row of the database always names a
\* client and an import that are there, and the program holds a connection only
\* to a sound database while no migration runs.
THEOREM Types == Spec => []TypeOK
<1>1. IInv => TypeOK
  BY DEF IInv
<1> QED
  BY <1>1, Inductive, PTL

\* What the invariant says of a run that succeeded is what ReportIsTrue says.
LEMMA EverythingIsAll ==
    ASSUME Everything
    PROVE  /\ \A i \in DOMAIN export.clients : export.clients[i].name \in Range(db.clients)
           /\ \A e \in Keyed : \A i \in DOMAIN export[e] :
                 export[e][i].client \in {c.id : c \in Range(export.clients)} => RowOf(e, i) \in db[e]
           /\ \A h \in Range(export.history) :
                 h.client \in {c.id : c \in Range(export.clients)} =>
                    \A x \in Range(h.txns) : <<ids[h.client], x>> \in TxnKeys(db)
           /\ export.settings = "good" => db.settings = "legacy" /\ keyring = "legacy"
<1>1. \A c \in {d.id : d \in Range(export.clients)} : Resolves(c)
  <2> SUFFICES ASSUME NEW c \in {d.id : d \in Range(export.clients)} PROVE Resolves(c)
    OBVIOUS
  <2>1. PICK i \in DOMAIN export.clients : c = export.clients[i].id
    BY DEF Range
  <2>2. c \in OldIds
    BY <2>1, ExportTyped DEF Everything
  <2>3. c \in DOMAIN ids
    BY <2>1 DEF Everything, ClientsIn
  <2> QED
    BY <2>2, <2>3, MigrationAssumption DEF Resolves
<1>2. \A i \in DOMAIN export.clients : export.clients[i].name \in Range(db.clients)
  BY DEF Everything, ClientsIn
<1>3. \A e \in Keyed : \A i \in DOMAIN export[e] :
        export[e][i].client \in {c.id : c \in Range(export.clients)} => RowOf(e, i) \in db[e]
  BY <1>1 DEF Everything, KeyedIn
<1>4. \A h \in Range(export.history) :
        h.client \in {c.id : c \in Range(export.clients)} =>
          \A x \in Range(h.txns) : <<ids[h.client], x>> \in TxnKeys(db)
  <2> SUFFICES ASSUME NEW h \in Range(export.history),
                      h.client \in {c.id : c \in Range(export.clients)}
               PROVE  \A x \in Range(h.txns) : <<ids[h.client], x>> \in TxnKeys(db)
    OBVIOUS
  <2>1. PICK i \in DOMAIN export.history : h = export.history[i]
    BY DEF Range
  <2>2. Resolves(h.client)
    BY <1>1
  <2> QED
    BY <2>1, <2>2 DEF Everything, HistoryIn
<1> QED
  BY <1>2, <1>3, <1>4 DEF Everything, SettingsIn

\* What the report of a run says is so, whatever the exports, however many runs,
\* failures and crashes there were: a success means everything is in the
\* database, a rollback means it is as it was (mod.rs, report.rs).
THEOREM ReportHolds == Spec => []ReportIsTrue
<1>1. IInv => ReportIsTrue
  BY EverythingIsAll DEF IInv, ReportOK, SuccessOK, ReportIsTrue
<1> QED
  BY <1>1, Inductive, PTL

-----------------------------------------------------------------------------
\* The steps that write the database, but for its transactions and its restoring.
LEMMA TxnsStay ==
    ASSUME IInv, ImportClient \/ (\E e \in Keyed : ImportKeyed(e)) \/ RegisterImport \/ SaveSettings
    PROVE  db'.txns = db.txns
<1>1. pc \in Importing
  BY ImportPlaces DEF ImportClient, ImportKeyed, RegisterImport, SaveSettings, Keyed
<1>2. db \in Database
  BY <1>1 DEF IInv, RunOK, Tables
<1>3. CASE ImportClient
  BY <1>2, <1>3 DEF ImportClient, Database
<1>4. CASE \E e \in Keyed : ImportKeyed(e)
  BY <1>2, <1>4 DEF ImportKeyed, Database, Keyed
<1>5. CASE RegisterImport
  BY <1>2, <1>5 DEF RegisterImport, Database
<1>6. CASE SaveSettings
  BY <1>2, <1>6 DEF SaveSettings, Database
<1> QED
  BY <1>3, <1>4, <1>5, <1>6

\* No rollback undoes what the user did: while a run is on, the connection is
\* closed, so the backup already has every edit (on_do_migration_run).
THEOREM EditsHold == Spec => EditsOutliveRollback
<1>1. IInv /\ [Next]_vars =>
        [\A t \in (IF db = Torn THEN {} ELSE db.txns) :
            t.by = "user" => \/ pc = "txns" \/ db' = Torn
                             \/ t \in db'.txns]_vars
  <2> SUFFICES ASSUME IInv, Next, NEW t \in (IF db = Torn THEN {} ELSE db.txns), t.by = "user"
               PROVE  pc = "txns" \/ db' = Torn \/ t \in db'.txns
    OBVIOUS
  <2>1. db # Torn /\ t \in db.txns /\ db \in Database
    BY DEF IInv, RunOK, Tables
  <2>2. CASE Backup \/ Open \/ PhaseDone \/ SkipUnresolved \/ ImportSettings \/ Validate \/ Reopen
             \/ OpenFails \/ Fail \/ ReopenFails \/ Crash \/ Start \/ RollbackFails
    <3>1. db' = db \/ db' = Torn
      BY <2>2 DEF Backup, GiveUp, Open, PhaseDone, SkipUnresolved, ImportSettings, Validate, Reopen,
                  OpenFails, Fail, ReopenFails, Crash, Start, RollbackFails, Importer
    <3> QED
      BY <2>1, <3>1
  <2>3. CASE ImportClient \/ (\E e \in Keyed : ImportKeyed(e)) \/ RegisterImport \/ SaveSettings
    BY <2>1, <2>3, TxnsStay
  <2>4. CASE StoreTransactions
    BY <2>4 DEF StoreTransactions
  <2>5. CASE Rollback
    <3>1. pc = "rollback" /\ db' = backup /\ backup = before
      BY <2>5 DEF Rollback, IInv, RunOK
    <3> QED
      BY <2>1, <3>1 DEF IInv, UserRowsKept
  <2>6. CASE Edit
    <3>1. PICK u \in db.txns :
             u.by = "legacy" /\ db' = [db EXCEPT !.txns = (@ \ {u}) \cup {[u EXCEPT !.by = "user"]}]
      BY <2>6 DEF Edit
    <3>2. t \in db.txns \ {u}
      BY <2>1, <3>1
    <3>3. db.txns \ {u} \subseteq db'.txns
      BY <2>1, <3>1 DEF Database
    <3> QED
      BY <3>2, <3>3
  <2>7. CASE \E x \in Exports : Run(x)
    BY <2>1, <2>7 DEF Run
  <2> QED
    BY <2>2, <2>3, <2>4, <2>5, <2>6, <2>7 DEF Next, Thread
<1> QED
  BY <1>1, Inductive, PTL DEF Spec, EditsOutliveRollback

-----------------------------------------------------------------------------
\* No import is registered twice, in the database and in what a rollback brings back.
Once(d) == \A j, k \in DOMAIN d.history :
              d.history[j] = d.history[k] /\ d.history[j].file \notin Miscounted
                 => j = k \/ d.history[j] \in FoundTwice
RegisteredOnce == /\ db # Torn => Once(db)
                  /\ before # Torn => Once(before)

\* A file no export miscounts has the count its record declares.
LEMMA CountedRight ==
    ASSUME NEW x \in Exports, NEW h \in Range(x.history), h.file \notin Miscounted
    PROVE  h.count = Len(h.txns)
BY DEF Miscounted

\* A record is added only when its key is not there (import_history_and_transactions).
LEMMA RegisterOnce ==
    ASSUME IInv, RegisteredOnce, RegisterImport
    PROVE  db' # Torn => Once(db')
<1>1. /\ pc = "history" /\ todo # {} /\ Resolves(export.history[First(todo)].client)
      /\ pc \in Importing
  BY ImportPlaces DEF RegisterImport
<1>2. PICK i, h : /\ i = First(todo) /\ h = export.history[i] /\ h \in Range(export.history)
                  /\ export \in Exports
  BY <1>1, FirstHistory
<1>3. /\ db \in Database /\ db # Torn /\ Once(db)
      /\ db.history \in Seq([client: Nat, file: Files, count: Nat])
  BY <1>1, MigrationAssumption DEF IInv, RunOK, Tables, RegisteredOnce, Database
<1>4. CASE UNCHANGED db
  BY <1>3, <1>4
<1>5. CASE /\ SameImport(h) = {}
           /\ db' = [db EXCEPT !.history = Append(@,
                        [client |-> ids[h.client], file |-> h.file, count |-> Len(h.txns)])]
  <2>1. PICK new : new = [client |-> ids[h.client], file |-> h.file, count |-> Len(h.txns)]
    OBVIOUS
  <2>2. PICK s, n : s = Append(db.history, new) /\ n = Len(db.history) + 1
    OBVIOUS
  <2>3. s = db'.history
    BY <1>3, <1>5, <2>1, <2>2 DEF Database
  <2>4. new \in [client: Nat, file: Files, count: Nat]
    BY <1>1, <2>1, <1>2, FirstHistory
  <2>5. /\ s[n] = new /\ \A k \in DOMAIN db.history : s[k] = db.history[k]
        /\ \A k \in DOMAIN s : k \in DOMAIN db.history \/ k = n
    BY <1>3, <2>2, <2>4, AppendProperties, LenProperties, SMTT(30)
  <2>6. new.file \notin Miscounted => \A k \in DOMAIN db.history : db.history[k] # new
    <3> SUFFICES ASSUME new.file \notin Miscounted, NEW k \in DOMAIN db.history, db.history[k] = new
                 PROVE  FALSE
      OBVIOUS
    <3>1. h.count = Len(h.txns)
      BY <1>2, <2>1, CountedRight
    <3>2. k \in SameImport(h)
      BY <2>1, <3>1 DEF SameImport
    <3> QED
      BY <1>5, <3>2
  <2>7. \A j, k \in DOMAIN s : s[j] = s[k] /\ s[j].file \notin Miscounted
                                   => j = k \/ s[j] \in FoundTwice
    BY <1>3, <2>5, <2>6 DEF Once
  <2> QED
    BY <2>3, <2>7 DEF Once
<1> QED
  BY <1>2, <1>4, <1>5 DEF RegisterImport

\* The other writes leave the import history alone.
LEMMA HistoryStays ==
    ASSUME IInv, ImportClient \/ (\E e \in Keyed : ImportKeyed(e)) \/ StoreTransactions
                 \/ SaveSettings \/ Edit
    PROVE  db'.history = db.history /\ db # Torn
<1>1. db \in Database /\ db # Torn
  <2>1. CASE Edit
    BY <2>1 DEF Edit, IInv, TypeOK
  <2>2. CASE ~Edit
    <3>1. pc \in Importing
      BY <2>2, ImportPlaces DEF ImportClient, ImportKeyed, StoreTransactions, SaveSettings, Keyed
    <3> QED
      BY <3>1, MigrationAssumption DEF IInv, RunOK, Tables
  <2> QED
    BY <2>1, <2>2
<1>2. CASE ImportClient
  BY <1>1, <1>2 DEF ImportClient, Database
<1>3. CASE \E e \in Keyed : ImportKeyed(e)
  BY <1>1, <1>3 DEF ImportKeyed, Database, Keyed
<1>4. CASE StoreTransactions
  BY <1>1, <1>4 DEF StoreTransactions, Database
<1>5. CASE SaveSettings
  BY <1>1, <1>5 DEF SaveSettings, Database
<1>6. CASE Edit
  BY <1>1, <1>6 DEF Edit, Database
<1> QED
  BY <1>1, <1>2, <1>3, <1>4, <1>5, <1>6

\* No step registers an import a second time.
LEMMA RegisteredOnceStep ==
    ASSUME IInv, RegisteredOnce, [Next]_vars
    PROVE  RegisteredOnce'
<1>1. before' = before \/ before' = db
  BY DEF Next, Thread, Run, Backup, GiveUp, Open, PhaseDone, SkipUnresolved, ImportSettings,
         Validate, Reopen, OpenFails, Fail, ReopenFails, Crash, Start, RollbackFails, Rollback, Importer,
         ImportClient, ImportKeyed, RegisterImport, StoreTransactions, SaveSettings, Edit, vars
<1>2. CASE Backup \/ Open \/ PhaseDone \/ SkipUnresolved \/ ImportSettings \/ Validate \/ Reopen
           \/ OpenFails \/ Fail \/ ReopenFails \/ Crash \/ Start \/ RollbackFails \/ (\E x \in Exports : Run(x))
           \/ UNCHANGED vars
  <2>1. db' = db \/ db' = Torn
    BY <1>2 DEF Backup, GiveUp, Open, PhaseDone, SkipUnresolved, ImportSettings, Validate, Reopen,
                OpenFails, Fail, ReopenFails, Crash, Start, RollbackFails, Importer, Run, vars
  <2> QED
    BY <1>1, <2>1 DEF RegisteredOnce, Once
<1>3. CASE ImportClient \/ (\E e \in Keyed : ImportKeyed(e)) \/ StoreTransactions \/ SaveSettings
           \/ Edit
  <2>1. db'.history = db.history /\ db # Torn
    BY <1>3, HistoryStays
  <2> QED
    BY <1>1, <2>1 DEF RegisteredOnce, Once
<1>4. CASE RegisterImport
  BY <1>1, <1>4, RegisterOnce DEF RegisteredOnce, Once
<1>5. CASE Rollback
  <2>1. db' = before
    BY <1>5 DEF Rollback, IInv, RunOK
  <2> QED
    BY <1>1, <2>1 DEF RegisteredOnce, Once
<1> QED
  BY <1>2, <1>3, <1>4, <1>5 DEF Next, Thread

\* No run registers a client or an import twice (importer.rs "duplicate-safely
\* by natural key"), but for what the database it finds has twice.
THEOREM NothingTwiceHolds == Spec => []NothingTwice
<1>1. Init => RegisteredOnce
  <2>1. ASSUME NEW d \in InitialDbs PROVE Once(d)
    BY DEF Once, FoundTwice, Range
  <2> QED
    BY <2>1 DEF Init, RegisteredOnce
<1>2. IInv /\ RegisteredOnce /\ [Next]_vars => RegisteredOnce'
  BY RegisteredOnceStep
<1>3. IInv /\ RegisteredOnce => NothingTwice
  BY DEF IInv, RunOK, Tables, RegisteredOnce, Once, NothingTwice
<1> QED
  BY <1>1, <1>2, <1>3, Inductive, PTL DEF Spec

=============================================================================
