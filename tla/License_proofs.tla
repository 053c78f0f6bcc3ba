--------------------------- MODULE License_proofs ---------------------------
(***************************************************************************)
(* Theorems about the two ends of the licensing service: LicenseServer,    *)
(* for any finite set of machines and any max_devices, and LicenseDesktop, *)
(* for any number of background threads, any grace period, and a local     *)
(* clock set to anything.                                                  *)
(***************************************************************************)
EXTENDS LicenseServer, LicenseDesktop, FiniteSetTheorems, TLAPS

-----------------------------------------------------------------------------
(***************************************************************************)
(* The server                                                              *)
(***************************************************************************)
\* The inductive invariant: what the holder of the row locks has counted is
\* still there.  Without it nothing ties the count that CommitActivation
\* decides by to the rows it changes.
ServerInv == ServerTypeOK /\ LockedSnapshot

LEMMA ServerInitInv == ServerInit => ServerInv
BY ServerAssumption DEF ServerInit, ServerInv, ServerTypeOK, LockedSnapshot, License, Status, Stage, At

LEMMA NextInv == ServerInv /\ [ServerNext]_svars => ServerInv'
<1> SUFFICES ASSUME ServerInv, [ServerNext]_svars PROVE ServerInv'
  OBVIOUS
<1> USE ServerAssumption DEF ServerInv, ServerTypeOK, LockedSnapshot, License, Status, Stage, At,
                             Continue, Finish, NoRequest, Active, RowLocked
<1>1. ASSUME NEW m \in Machines, FindByKey(m) PROVE ServerInv'
  BY <1>1 DEF FindByKey
<1>2. ASSUME NEW m \in Machines, FindById(m) PROVE ServerInv'
  BY <1>2 DEF FindById
<1>3. ASSUME NEW m \in Machines, FindDevice(m) PROVE ServerInv'
  BY <1>3 DEF FindDevice
<1>4. ASSUME NEW m \in Machines, LockRows(m) PROVE ServerInv'
  BY <1>4, ZenonT(60) DEF LockRows
<1>5. ASSUME NEW m \in Machines, CommitActivation(m) PROVE ServerInv'
  BY <1>5 DEF CommitActivation
<1>6. ASSUME NEW m \in Machines, LimitReached(m) PROVE ServerInv'
  BY <1>6 DEF LimitReached
<1>7. ASSUME NEW m \in Machines, FindActiveDevice(m) PROVE ServerInv'
  BY <1>7 DEF FindActiveDevice
<1>8. ASSUME NEW m \in Machines, TouchLastSeen(m) PROVE ServerInv'
  BY <1>8 DEF TouchLastSeen
<1>9. ASSUME NEW m \in Machines, Deactivate(m) PROVE ServerInv'
  BY <1>9 DEF Deactivate
<1>10. ASSUME NEW m \in Machines, Respond(m) PROVE ServerInv'
  BY <1>10 DEF Respond
<1>11. ASSUME NEW m \in Machines, CallFails(m) PROVE ServerInv'
  BY <1>11 DEF CallFails
<1>12. ASSUME NEW m \in Machines, admin_deactivate_device(m) PROVE ServerInv'
  BY <1>12 DEF admin_deactivate_device
<1>13. ASSUME NEW m \in Machines, admin_activate_device(m) PROVE ServerInv'
  BY <1>13 DEF admin_activate_device
<1>14. ASSUME NEW a \in Admins, FindRevoked(a) PROVE ServerInv'
  BY <1>14 DEF FindRevoked
<1>15. ASSUME NEW a \in Admins, restore_license(a) PROVE ServerInv'
  BY <1>15 DEF restore_license
<1>16. CASE revoke_license
  BY <1>16 DEF revoke_license
<1>17. CASE Billing
  BY <1>17 DEF Billing
<1>18. CASE Tick
  BY <1>18 DEF Tick
<1>19. CASE UNCHANGED svars
  BY <1>19 DEF svars
<1> QED
  BY <1>1, <1>2, <1>3, <1>4, <1>5, <1>6, <1>7, <1>8, <1>9, <1>10, <1>11, <1>12,
     <1>13, <1>14, <1>15, <1>16, <1>17, <1>18, <1>19 DEF ServerNext, Proceed

\* Rows and requests keep their types, and what an activation has counted
\* under the row locks stays true until it commits.
THEOREM ServerTypes == ServerSpec => []ServerTypeOK
<1>1. ServerSpec => []ServerInv
  BY ServerInitInv, NextInv, PTL DEF ServerSpec
<1>2. ServerInv => ServerTypeOK
  BY DEF ServerInv
<1> QED
  BY <1>1, <1>2, PTL

THEOREM SnapshotHolds == ServerSpec => []LockedSnapshot
<1>1. ServerSpec => []ServerInv
  BY ServerInitInv, NextInv, PTL DEF ServerSpec
<1>2. ServerInv => LockedSnapshot
  BY DEF ServerInv
<1> QED
  BY <1>1, <1>2, PTL

-----------------------------------------------------------------------------
\* DeviceSlots counts as this module does.
LEMMA SameCardinality == \A S : Slots!Cardinality(S) = Cardinality(S)
BY Zenon DEF Cardinality, Slots!Cardinality

\* Every step is a step of DeviceSlots or leaves the slots alone.
LEMMA NextRefines == ServerInv /\ [ServerNext]_svars => [Slots!SlotsNext]_<<Active, granted>>
<1> SUFFICES ASSUME ServerInv, [ServerNext]_svars PROVE [Slots!SlotsNext]_<<Active, granted>>
  OBVIOUS
<1> USE DEF ServerInv, ServerTypeOK, LockedSnapshot, At, Active
<1>1. ASSUME NEW m \in Machines, CommitActivation(m)
      PROVE Slots!SlotsNext \/ UNCHANGED <<Active, granted>>
  <2>1. Active' = Active \cup {m} /\ granted' = granted
    BY <1>1 DEF CommitActivation
  <2>2. m \in Active \/ Cardinality(Active) < MaxDevices
    BY <1>1 DEF CommitActivation, HasSlot
  <2>3. CASE m \in Active
    BY <2>1, <2>3
  <2>4. CASE Cardinality(Active) < MaxDevices
    BY <2>1, <2>4, SameCardinality DEF Slots!SlotsNext, Slots!Activate
  <2> QED
    BY <2>2, <2>3, <2>4
<1>2. ASSUME NEW m \in Machines, Deactivate(m) \/ admin_deactivate_device(m)
      PROVE Slots!SlotsNext
  BY <1>2 DEF Deactivate, admin_deactivate_device, Slots!SlotsNext, Slots!Deactivate
<1>3. ASSUME NEW m \in Machines, admin_activate_device(m)
      PROVE Slots!SlotsNext
  BY <1>3 DEF admin_activate_device, Slots!SlotsNext, Slots!Grant
<1>4. CASE UNCHANGED <<devices, granted>>
  BY <1>4
<1>5. \/ UNCHANGED <<devices, granted>>
      \/ \E m \in Machines : \/ CommitActivation(m) \/ admin_activate_device(m)
                             \/ Deactivate(m) \/ admin_deactivate_device(m)
  BY DEF ServerNext, Proceed, svars, FindByKey, FindById, FindDevice, LockRows, LimitReached,
         FindActiveDevice, TouchLastSeen, Respond, CallFails, FindRevoked,
         restore_license, revoke_license, Billing, Tick
<1> QED
  BY <1>1, <1>2, <1>3, <1>4, <1>5

\* The server implements DeviceSlots: its activations, deactivations and
\* grants take effect as if each happened at one moment.
THEOREM Refinement == ServerSpec => RefinesSlots
<1>1. ServerInit => Slots!SlotsInit
  BY DEF ServerInit, Slots!SlotsInit, Active
<1>2. ServerSpec => []ServerInv
  BY ServerInitInv, NextInv, PTL DEF ServerSpec
<1> QED
  BY <1>1, <1>2, NextRefines, PTL DEF ServerSpec, RefinesSlots, Slots!SlotsSpec

-----------------------------------------------------------------------------
\* A step of DeviceSlots keeps customers within the limit.
LEMMA SlotsWithinLimit ==
    ServerTypeOK /\ ServerTypeOK' /\ WithinLimit /\ [Slots!SlotsNext]_<<Active, granted>> => WithinLimit'
<1> SUFFICES ASSUME ServerTypeOK, ServerTypeOK', WithinLimit, [Slots!SlotsNext]_<<Active, granted>>
             PROVE WithinLimit'
  OBVIOUS
<1> USE ServerAssumption
<1>0. /\ WithinLimit <=> Cardinality(Active \ granted) <= MaxDevices
      /\ WithinLimit' <=> Cardinality((Active \ granted)') <= MaxDevices
  BY SameCardinality DEF WithinLimit, Slots!WithinLimit
<1>1. IsFiniteSet(Active) /\ IsFiniteSet(Active') /\ IsFiniteSet(Active \ granted)
  BY FS_Subset DEF Active
<1>2. ASSUME NEW m \in Machines, Slots!Activate(m) PROVE WithinLimit'
  <2>1. Cardinality(Active') <= Cardinality(Active) + 1
    <3>1. Active' = Active \cup {m}
      BY <1>2 DEF Slots!Activate
    <3>2. CASE m \in Active
      <4>1. Active' = Active
        BY <3>1, <3>2
      <4> QED
        BY <4>1, <1>1, FS_CardinalityType
    <3>3. CASE m \notin Active
      <4>1. Cardinality(Active \cup {m}) = Cardinality(Active) + 1
        BY <1>1, <3>3, FS_AddElement
      <4> QED
        BY <3>1, <4>1, <1>1, FS_CardinalityType
    <3> QED
      BY <3>2, <3>3
  <2>2. (Active \ granted)' \subseteq Active'
    OBVIOUS
  <2>3. Cardinality((Active \ granted)') <= Cardinality(Active')
    BY <1>1, <2>2, FS_Subset
  <2>4. Cardinality(Active) < MaxDevices
    BY <1>2, SameCardinality DEF Slots!Activate
  <2>5. /\ Cardinality(Active) \in Nat /\ Cardinality(Active') \in Nat
        /\ Cardinality((Active \ granted)') \in Nat
    BY <1>1, <2>2, FS_Subset, FS_CardinalityType
  <2> QED
    BY <1>0, <2>1, <2>3, <2>4, <2>5
<1>3. ASSUME NEW m \in Machines, Slots!Deactivate(m) \/ Slots!Grant(m)
      PROVE WithinLimit'
  <2>1. (Active \ granted)' \subseteq Active \ granted
    BY <1>3 DEF Slots!Deactivate, Slots!Grant
  <2>2. Cardinality((Active \ granted)') <= Cardinality(Active \ granted)
    BY <1>1, <2>1, FS_Subset
  <2> QED
    <3>1. /\ Cardinality(Active \ granted) \in Nat
          /\ Cardinality((Active \ granted)') \in Nat
      BY <1>1, <2>1, FS_Subset, FS_CardinalityType
    <3> QED
      BY <1>0, <2>2, <3>1
<1>4. CASE UNCHANGED <<Active, granted>>
  BY <1>0, <1>4
<1> QED
  BY <1>2, <1>3, <1>4 DEF Slots!SlotsNext

\* Machines activating at the same time never take more slots than
\* max_devices; only an administrator exceeds it.
THEOREM Limit == ServerSpec => []WithinLimit
<1>1. ServerInit => WithinLimit
  <2>1. ASSUME ServerInit PROVE Active \ granted = {}
    BY <2>1 DEF ServerInit, Active
  <2> QED
    BY <2>1, FS_EmptySet, SameCardinality, ServerAssumption DEF WithinLimit, Slots!WithinLimit
<1>2. ServerSpec => []ServerInv
  BY ServerInitInv, NextInv, PTL DEF ServerSpec
<1>3. ServerInv /\ ServerInv' /\ WithinLimit /\ [ServerNext]_svars => WithinLimit'
  BY NextRefines, SlotsWithinLimit DEF ServerInv
<1> QED
  BY <1>1, <1>2, <1>3, PTL DEF ServerSpec

\* A machine is told that the limit is reached only while every slot is taken.
THEOREM LimitReal == ServerSpec => LimitIsReal
<1>1. ServerSpec => []ServerInv
  BY ServerInitInv, NextInv, PTL DEF ServerSpec
<1>2. ASSUME ServerInv, [ServerNext]_svars, NEW m \in Machines, At(m, "locked"),
             calls'[m].stage = "limit_reached"
      PROVE m \notin Active /\ Cardinality(Active) >= MaxDevices
  <2>1. calls[m].seen = Active
    BY <1>2 DEF ServerInv, LockedSnapshot
  <2>2. ~HasSlot(m)
    <3> USE <1>2 DEF ServerInv, ServerTypeOK, At, Continue, Finish, Stage
    <3>1. ASSUME NEW n \in Machines,
                 \/ FindByKey(n) \/ FindById(n) \/ FindDevice(n) \/ LockRows(n)
                 \/ CommitActivation(n) \/ FindActiveDevice(n) \/ TouchLastSeen(n)
                 \/ Deactivate(n) \/ Respond(n) \/ CallFails(n)
          PROVE FALSE
      BY <3>1 DEF FindByKey, FindById, FindDevice, LockRows, CommitActivation,
             FindActiveDevice, TouchLastSeen, Deactivate, Respond, CallFails
    <3>2. CASE UNCHANGED calls
      BY <3>2
    <3>3. ASSUME NEW n \in Machines, LimitReached(n) PROVE ~HasSlot(m)
      BY <3>3 DEF LimitReached
    <3> QED
      BY <3>1, <3>2, <3>3 DEF ServerNext, Proceed, svars, admin_deactivate_device,
         admin_activate_device, FindRevoked, restore_license, revoke_license, Billing, Tick
  <2>3. IsFiniteSet(Active)
    BY ServerAssumption, FS_Subset DEF Active
  <2> QED
    BY <2>1, <2>2, <2>3, FS_CardinalityType, ServerAssumption DEF HasSlot
<1>3. ServerInv /\ [ServerNext]_svars =>
        [\A m \in Machines :
           At(m, "locked") /\ calls'[m].stage = "limit_reached"
              => m \notin Active /\ Cardinality(Active) >= MaxDevices]_svars
  BY <1>2
<1> QED
  BY <1>1, <1>3, PTL DEF ServerSpec, LimitIsReal

-----------------------------------------------------------------------------
(***************************************************************************)
(* The desktop                                                             *)
(***************************************************************************)
Thread == [pc: {"idle", "waiting", "activate", "check", "asking",
                "licensed", "not_licensed"},
           purpose: Purpose, at: Int, loaded: Record, second: BOOLEAN]

(***************************************************************************)
(* The inductive invariant.  A thread between its first read and its last  *)
(* write holds the database mutex, network round trip included, so what it *)
(* loaded is still what the record is; and as long as no write has failed  *)
(* the record repeats the refusal last heard, or no license is left.       *)
(***************************************************************************)
UnderMutex ==
    \A t \in Threads : threads[t].pc \in {"activate", "check", "asking"} => db_lock = t

LoadedIsRecord ==
    \A t \in Threads : threads[t].pc = "asking" =>
        threads[t].loaded = record /\ record.license_id

RefusalRecorded ==
    faults = 0 /\ heard \in {"revoked", "suspended"} =>
        record.status = heard \/ record = not_activated

Inv == TypeOK /\ UnderMutex /\ LoadedIsRecord /\ RefusalRecorded

-----------------------------------------------------------------------------
LEMMA NotActivated == not_activated \in Record /\ ~not_activated.license_id
BY DEF not_activated, Record, Time, ServerStatus

LEMMA Idle ==
    ASSUME NEW pc \in {"idle", "licensed", "not_licensed", "waiting", "check"},
           NEW purpose \in Purpose, NEW second \in BOOLEAN
    PROVE  /\ [NoWork EXCEPT !.pc = pc, !.purpose = purpose] \in Thread
           /\ [NoWork EXCEPT !.pc = pc, !.purpose = purpose, !.second = second] \in Thread
           /\ NoWork \in Thread
<1>1. NoWork \in Thread
  BY NotActivated DEF NoWork, Thread, Purpose
<1> QED
  BY <1>1 DEF Thread

LEMMA TypeIsThread == TypeOK => threads \in [Threads -> Thread]
BY DEF TypeOK, Thread

\* advance_clock_watermark raises the watermark or leaves it.
LEMMA AdvancedRaises ==
    ASSUME NEW rec \in Record, NEW t \in Int
    PROVE  /\ Advanced(rec, t) \in Record
           /\ Advanced(rec, t).license_id = rec.license_id
           /\ Advanced(rec, t).status = rec.status
           /\ ~rec.license_id => Advanced(rec, t) = rec
           /\ rec.highest_seen_clock # Never =>
                /\ Advanced(rec, t).highest_seen_clock # Never
                /\ Advanced(rec, t).highest_seen_clock >= rec.highest_seen_clock
BY DesktopAssumption DEF Advanced, Record, Time

\* What a thread leaves when it concludes: the record it was given, or none.
LEMMA LeftIsRecord ==
    ASSUME NEW t, NEW licensed, NEW rec, NEW new \in Left(t, licensed, rec)
    PROVE  new = rec \/ new = not_activated
BY DEF Left

\* How a thread's place changes when it concludes.
LEMMA ConcludeMoves ==
    ASSUME TypeOK, UnderMutex, NEW t \in Threads, threads[t].pc = "asking",
           NEW licensed \in BOOLEAN, Conclude(t, licensed)
    PROVE  /\ threads' \in [Threads -> Thread]
           /\ \A u \in Threads : u # t => threads'[u] = threads[u]
           /\ \/ threads'[t].pc = "check" /\ licensed /\ db_lock' = db_lock
              \/ /\ threads'[t].pc \in {"licensed", "not_licensed"} /\ db_lock' = Free
                 /\ threads'[t].pc = "licensed" => licensed \/ threads[t].second
<1>1. threads \in [Threads -> Thread] /\ threads[t].purpose \in Purpose
  BY TypeIsThread DEF Thread
<1>2. CASE threads[t].purpose = "refresh" /\ licensed /\ ~threads[t].second
  <2> DEFINE w == [NoWork EXCEPT !.pc = "check", !.purpose = "refresh", !.second = TRUE]
  <2>1. w \in Thread
    BY Idle DEF Purpose
  <2>2. w.pc = "check"
    BY DEF NoWork
  <2>3. threads' = [threads EXCEPT ![t] = w] /\ UNCHANGED db_lock
    BY <1>2 DEF Conclude
  <2> HIDE DEF w
  <2> QED
    BY <1>1, <1>2, <2>1, <2>2, <2>3
<1>3. CASE ~(threads[t].purpose = "refresh" /\ licensed /\ ~threads[t].second)
  <2> DEFINE pc == IF licensed \/ threads[t].second THEN "licensed" ELSE "not_licensed"
             w == [NoWork EXCEPT !.pc = pc, !.purpose = threads[t].purpose]
  <2>1. w \in Thread
    BY <1>1, Idle
  <2>2. w.pc = pc
    BY DEF NoWork
  <2>3. threads' = [threads EXCEPT ![t] = w] /\ db_lock' = Free
    BY <1>3 DEF Conclude, Unlock
  <2> HIDE DEF w
  <2> QED
    BY <1>1, <2>1, <2>2, <2>3
<1> QED
  BY <1>2, <1>3

-----------------------------------------------------------------------------
(***************************************************************************)
(* One lemma per kind of step.                                             *)
(***************************************************************************)
\* Of the threads only t moves, and it does not begin to ask.
LEMMA MoveKeeps ==
    ASSUME Inv, NEW t \in Threads, NEW w \in Thread,
           threads' = [threads EXCEPT ![t] = w], w.pc # "asking",
           w.pc \in {"activate", "check"} => db_lock' = t,
           \/ db_lock' = db_lock
           \/ db_lock = Free
           \/ db_lock = t,
           db_lock' \in Threads \cup {Free},
           record' \in Record,
           record' # record => db_lock = t,
           UNCHANGED clock, server' \in ServerStatus \cup {"no_answer"},
           screen' \in {"off", "open", "blocked"},
           heard' \in ServerStatus \cup {"not_activated"}, faults' \in Nat,
           RefusalRecorded'
    PROVE  Inv'
<1>1. threads \in [Threads -> Thread]
  BY TypeIsThread DEF Inv
<1>2. threads' \in [Threads -> Thread]
  BY <1>1
<1>3. TypeOK'
  BY <1>2 DEF Inv, TypeOK, Thread
<1>4. UnderMutex'
  BY <1>1, DesktopAssumption DEF Inv, UnderMutex
<1>5. LoadedIsRecord'
  <2> SUFFICES ASSUME NEW u \in Threads, threads'[u].pc = "asking"
               PROVE  threads'[u].loaded = record' /\ record'.license_id
    BY DEF LoadedIsRecord
  <2>1. u # t /\ threads'[u] = threads[u]
    BY <1>1
  <2>2. db_lock = u
    BY <2>1 DEF Inv, UnderMutex
  <2> QED
    BY <2>1, <2>2 DEF Inv, LoadedIsRecord
<1> QED
  BY <1>3, <1>4, <1>5 DEF Inv

LEMMA AskStep ==
    ASSUME Inv, NEW t \in Threads, NEW p \in Purpose, Ask(t, p)
    PROVE  Inv'
<1> DEFINE w == [NoWork EXCEPT !.pc = "waiting", !.purpose = p]
<1>1. w \in Thread
  BY Idle
<1>2. w.pc = "waiting"
  BY DEF NoWork
<1>3. threads' = [threads EXCEPT ![t] = w]
  BY DEF Ask
<1> HIDE DEF w
<1>4. UNCHANGED <<server, clock, record, db_lock, screen, heard, faults>>
  BY DEF Ask, world
<1>5. RefusalRecorded'
  BY <1>4 DEF Inv, RefusalRecorded
<1> QED
  BY <1>1, <1>2, <1>3, <1>4, <1>5, MoveKeeps DEF Inv, TypeOK

LEMMA LockStep ==
    ASSUME Inv, NEW t \in Threads, Lock(t)
    PROVE  Inv'
<1> DEFINE pc == IF threads[t].purpose = "activate" THEN "activate" ELSE "check"
           w == [threads[t] EXCEPT !.pc = pc]
<1>1. threads \in [Threads -> Thread]
  BY TypeIsThread DEF Inv
<1>2. w \in Thread /\ w.pc = pc
  BY <1>1 DEF Thread
<1>3. threads' = [threads EXCEPT ![t] = w]
  BY DEF Lock, Move
<1> HIDE DEF w
<1>4. /\ UNCHANGED <<server, clock, record, screen, heard, faults>>
      /\ db_lock = Free /\ db_lock' = t
  BY DEF Lock, world
<1>5. RefusalRecorded'
  BY <1>4 DEF Inv, RefusalRecorded
<1> QED
  BY <1>2, <1>3, <1>4, <1>5, MoveKeeps DEF Inv, TypeOK

LEMMA ActivateFailsStep ==
    ASSUME Inv, NEW t \in Threads, ActivateFails(t)
    PROVE  Inv'
<1>1. db_lock = t
  BY DEF ActivateFails, Running, Inv, UnderMutex
<1>2. /\ UNCHANGED <<server, clock, record, screen, heard, faults>>
      /\ db_lock' = Free
      /\ threads' = [threads EXCEPT ![t] = NoWork]
  BY DEF ActivateFails, world
<1>3. RefusalRecorded'
  BY <1>2 DEF Inv, RefusalRecorded
<1>4. NoWork \in Thread /\ NoWork.pc = "idle"
  BY Idle DEF NoWork, Purpose
<1> QED
  BY <1>1, <1>2, <1>3, <1>4, MoveKeeps DEF Inv, TypeOK

LEMMA ActivatedStep ==
    ASSUME Inv, NEW t \in Threads, Activated(t)
    PROVE  Inv'
<1> DEFINE w == [threads[t] EXCEPT !.pc = "check"]
<1>1. db_lock = t
  BY DEF Activated, Running, Inv, UnderMutex
<1>2. threads \in [Threads -> Thread]
  BY TypeIsThread DEF Inv
<1>3. w \in Thread /\ w.pc = "check"
  BY <1>2 DEF Thread
<1>4. threads' = [threads EXCEPT ![t] = w] /\ UNCHANGED <<clock, db_lock, screen, faults>>
  BY DEF Activated, Move
<1> HIDE DEF w
<1>5. PICK status \in {"active", "suspended"} :
        /\ server' = status /\ heard' = status
        /\ record' = [license_id |-> TRUE, status |-> status,
                      last_validated_at |-> clock, highest_seen_clock |-> clock]
  BY DEF Activated
<1>6. status \in ServerStatus
  BY DEF ServerStatus
<1>7. record' \in Record
  BY <1>5, <1>6 DEF Record, Time, Inv, TypeOK
<1>8. RefusalRecorded'
  BY <1>5 DEF RefusalRecorded
<1> QED
  BY <1>1, <1>3, <1>4, <1>5, <1>6, <1>7, <1>8, MoveKeeps DEF Inv, TypeOK

LEMMA ApplyStep ==
    ASSUME Inv, NEW t \in Threads, Apply(t)
    PROVE  Inv'
<1>1. /\ UNCHANGED <<server, clock, record, db_lock, heard, faults>>
      /\ threads' = [threads EXCEPT ![t] = NoWork]
      /\ screen' \in {"off", "open", "blocked"}
  BY DEF Apply, world, Inv, TypeOK
<1>2. RefusalRecorded'
  BY <1>1 DEF Inv, RefusalRecorded
<1>3. NoWork \in Thread /\ NoWork.pc = "idle"
  BY Idle DEF NoWork, Purpose
<1> QED
  BY <1>1, <1>2, <1>3, MoveKeeps DEF Inv, TypeOK

\* A write of the record with a raised watermark, or its failure.
LEMMA WriteAdvanced ==
    ASSUME Inv, Write(Advanced(record, clock)), UNCHANGED heard
    PROVE  /\ record' \in Record /\ faults' \in Nat
           /\ record'.license_id = record.license_id
           /\ RefusalRecorded'
           /\ record.highest_seen_clock # Never =>
                /\ record'.highest_seen_clock # Never
                /\ record'.highest_seen_clock >= record.highest_seen_clock
<1>1. record \in Record /\ clock \in Int /\ faults \in Nat
  BY DEF Inv, TypeOK
<1>2. CASE record' = Advanced(record, clock) /\ UNCHANGED faults
  BY <1>1, <1>2, AdvancedRaises, NotActivated DEF Inv, RefusalRecorded
<1>3. CASE record' = record /\ faults' = faults + 1
  BY <1>1, <1>3, DesktopAssumption DEF Inv, RefusalRecorded, Record, Time
<1> QED
  BY <1>2, <1>3 DEF Write

LEMMA CheckStep ==
    ASSUME Inv, NEW t \in Threads, Check(t)
    PROVE  Inv'
<1>1. db_lock = t
  BY DEF Check, Running, Inv, UnderMutex
<1>2. threads \in [Threads -> Thread]
  BY TypeIsThread DEF Inv
<1>3. UNCHANGED <<server, clock, screen, heard>>
  BY DEF Check, world
<1>4. /\ record' \in Record /\ faults' \in Nat /\ RefusalRecorded'
      /\ record'.license_id = record.license_id
  BY <1>3, WriteAdvanced DEF Check
<1>5. CASE ~record.license_id /\ Unlock(t, "not_licensed")
  <2> DEFINE w == [NoWork EXCEPT !.pc = "not_licensed", !.purpose = threads[t].purpose]
  <2>1. w \in Thread
    <3>1. threads[t].purpose \in Purpose
      BY <1>2 DEF Thread
    <3> QED
      BY <3>1, Idle
  <2>2. w.pc = "not_licensed"
    BY DEF NoWork
  <2>3. threads' = [threads EXCEPT ![t] = w] /\ db_lock' = Free
    BY <1>5 DEF Unlock
  <2> HIDE DEF w
  <2> QED
    BY <1>1, <1>3, <1>4, <2>1, <2>2, <2>3, MoveKeeps DEF Inv, TypeOK
<1>6. CASE /\ record.license_id
           /\ threads' = [threads EXCEPT ![t] = [@ EXCEPT !.pc = "asking", !.at = clock,
                                                          !.loaded = record']]
           /\ UNCHANGED db_lock
  <2>1. /\ threads' \in [Threads -> Thread]
        /\ threads'[t].loaded = record' /\ threads'[t].pc = "asking"
        /\ \A u \in Threads : u # t => threads'[u] = threads[u]
    BY <1>2, <1>4, <1>6 DEF Thread, Inv, TypeOK
  <2>2. TypeOK'
    BY <1>3, <1>4, <1>6, <2>1 DEF Inv, TypeOK, Thread
  <2>3. UnderMutex'
    BY <1>1, <1>6, <2>1 DEF Inv, UnderMutex
  <2>4. LoadedIsRecord'
    <3> SUFFICES ASSUME NEW u \in Threads, threads'[u].pc = "asking"
                 PROVE  threads'[u].loaded = record' /\ record'.license_id
      BY DEF LoadedIsRecord
    <3>1. u = t
      BY <1>1, <2>1 DEF Inv, UnderMutex
    <3> QED
      BY <1>4, <1>6, <2>1, <3>1
  <2> QED
    BY <1>4, <2>2, <2>3, <2>4 DEF Inv
<1> QED
  BY <1>5, <1>6 DEF Check

\* A thread concludes: the record it leaves is the one it was given, or none.
LEMMA ConcludeStep ==
    ASSUME Inv, NEW t \in Threads, threads[t].pc = "asking", NEW licensed \in BOOLEAN,
           Conclude(t, licensed),
           record' \in Record, UNCHANGED <<server, clock, screen>>,
           heard' \in ServerStatus \cup {"not_activated"}, faults' \in Nat,
           RefusalRecorded'
    PROVE  Inv'
<1>1. db_lock = t
  BY DEF Inv, UnderMutex
<1>2. /\ threads' \in [Threads -> Thread]
      /\ \A u \in Threads : u # t => threads'[u] = threads[u]
      /\ threads'[t].pc # "asking"
      /\ \/ db_lock' = db_lock
         \/ threads'[t].pc \in {"licensed", "not_licensed"} /\ db_lock' = Free
  BY ConcludeMoves DEF Inv
<1>3. TypeOK'
  BY <1>1, <1>2 DEF Inv, TypeOK, Thread
<1>4. UnderMutex' /\ LoadedIsRecord'
  BY <1>1, <1>2 DEF Inv, UnderMutex, LoadedIsRecord
<1> QED
  BY <1>3, <1>4 DEF Inv

LEMMA AnsweredStep ==
    ASSUME Inv, NEW t \in Threads, Answered(t)
    PROVE  /\ Inv'
           /\ record' = not_activated
                \/ record'.highest_seen_clock = record.highest_seen_clock
<1> DEFINE saved == [threads[t].loaded EXCEPT !.status = server,
                                              !.last_validated_at = threads[t].at]
<1>1. /\ threads[t].pc = "asking" /\ threads[t].loaded = record
      /\ threads[t].at \in Int /\ record \in Record /\ server \in ServerStatus
  BY DEF Answered, Running, Inv, LoadedIsRecord, TypeOK
<1>2. /\ saved \in Record /\ saved.status = server
      /\ saved.highest_seen_clock = record.highest_seen_clock
  BY <1>1 DEF Record, Time
<1>3. heard' = server /\ UNCHANGED <<server, clock, screen>>
  BY DEF Answered, world
<1>4. \/ record' \in Left(t, is_licensed(server), saved) /\ UNCHANGED faults
      \/ record' \in Left(t, is_licensed(server), record) /\ faults' = faults + 1
  BY DEF Answered
<1>5. Conclude(t, is_licensed(server))
  BY DEF Answered
<1> HIDE DEF saved
<1>6. /\ faults \in Nat /\ is_licensed(server) \in BOOLEAN
      /\ heard' \in ServerStatus \cup {"not_activated"}
  BY <1>1, <1>3 DEF Inv, TypeOK, is_licensed
<1>7. CASE record' \in Left(t, is_licensed(server), saved) /\ UNCHANGED faults
  <2>1. record' = saved \/ record' = not_activated
    BY <1>7, LeftIsRecord
  <2>2. RefusalRecorded'
    BY <1>2, <1>3, <2>1 DEF RefusalRecorded
  <2>3. /\ record' \in Record
        /\ record' = not_activated \/ record'.highest_seen_clock = record.highest_seen_clock
    BY <1>2, <2>1, NotActivated
  <2> QED
    BY <1>1, <1>3, <1>5, <1>6, <1>7, <2>2, <2>3, ConcludeStep
<1>8. CASE record' \in Left(t, is_licensed(server), record) /\ faults' = faults + 1
  <2>1. record' = record \/ record' = not_activated
    BY <1>8, LeftIsRecord
  <2>2. RefusalRecorded'
    BY <1>6, <1>8 DEF RefusalRecorded
  <2> QED
    BY <1>1, <1>3, <1>5, <1>6, <1>8, <2>1, <2>2, NotActivated, ConcludeStep
<1> QED
  BY <1>4, <1>7, <1>8

LEMMA UnansweredStep ==
    ASSUME Inv, NEW t \in Threads, Unanswered(t)
    PROVE  /\ Inv'
           /\ record' = record \/ record' = not_activated
<1> DEFINE licensed == OfflineLicensed(threads[t].loaded, threads[t].at)
<1>1. threads[t].pc = "asking" /\ record \in Record
  BY DEF Unanswered, Running, Inv, TypeOK
<1>2. /\ Conclude(t, licensed) /\ record' \in Left(t, licensed, record)
      /\ UNCHANGED <<server, clock, screen, heard, faults>>
  BY DEF Unanswered, world
<1>3. licensed \in BOOLEAN
  BY DEF OfflineLicensed
<1> HIDE DEF licensed
<1>4. record' = record \/ record' = not_activated
  BY <1>2, LeftIsRecord
<1>5. RefusalRecorded'
  BY <1>2, <1>4 DEF Inv, RefusalRecorded
<1> QED
  BY <1>1, <1>2, <1>3, <1>4, <1>5, NotActivated, ConcludeStep DEF Inv, TypeOK

LEMMA OutsideStep ==
    ASSUME Inv, Quit \/ Surroundings \/ UNCHANGED vars
    PROVE  Inv' /\ UNCHANGED record
<1>1. UNCHANGED <<record, heard, faults>>
  BY DEF Quit, Surroundings, vars
<1>2. RefusalRecorded'
  BY <1>1 DEF Inv, RefusalRecorded
<1>3. CASE Quit
  <2>1. NoWork \in Thread /\ NoWork.pc = "idle"
    BY Idle DEF NoWork, Purpose
  <2>2. /\ threads' = [t \in Threads |-> NoWork]
        /\ db_lock' = Free /\ screen' = "off" /\ UNCHANGED <<server, clock>>
    BY <1>3 DEF Quit, world
  <2>3. threads' \in [Threads -> Thread] /\ \A t \in Threads : threads'[t].pc = "idle"
    BY <2>1, <2>2
  <2>4. TypeOK'
    BY <1>1, <2>2, <2>3 DEF Inv, TypeOK, Thread
  <2>5. UnderMutex' /\ LoadedIsRecord'
    BY <2>3 DEF UnderMutex, LoadedIsRecord
  <2> QED
    BY <1>1, <1>2, <2>4, <2>5 DEF Inv
<1>4. CASE Surroundings
  <2>1. UNCHANGED <<record, db_lock, threads, screen, heard, faults>>
    BY <1>4 DEF Surroundings
  <2>2. server' \in ServerStatus \cup {"no_answer"} /\ clock' \in Int
    <3>1. MaxNow \in Nat /\ Answers \subseteq ServerStatus
      BY DesktopAssumption DEF ServerStatus
    <3> QED
      BY <1>4, <3>1 DEF Surroundings, Inv, TypeOK
  <2> QED
    BY <1>1, <1>2, <2>1, <2>2 DEF Inv, TypeOK, UnderMutex, LoadedIsRecord
<1>5. CASE UNCHANGED vars
  BY <1>5 DEF Inv, TypeOK, UnderMutex, LoadedIsRecord, RefusalRecorded, vars, world
<1> QED
  BY <1>1, <1>3, <1>4, <1>5

LEMMA InitInv == Init => Inv
<1> SUFFICES ASSUME Init PROVE Inv
  OBVIOUS
<1>1. NoWork \in Thread /\ NoWork.pc = "idle"
  BY Idle DEF NoWork, Purpose
<1>2. TypeOK
  BY <1>1, NotActivated DEF Init, TypeOK, Thread
<1>3. UnderMutex /\ LoadedIsRecord
  BY <1>1 DEF Init, UnderMutex, LoadedIsRecord
<1> QED
  BY <1>2, <1>3 DEF Init, Inv, RefusalRecorded

LEMMA StepInv == Inv /\ [Next]_vars => Inv'
BY AskStep, LockStep, ActivateFailsStep, ActivatedStep, CheckStep, AnsweredStep, UnansweredStep,
   ApplyStep, OutsideStep DEF Next, Step

\* The inductive invariant holds in every reachable state.
THEOREM Inductive == Spec => []Inv
BY InitInv, StepInv, PTL DEF Spec

-----------------------------------------------------------------------------
\* The record, the mutex and the threads hold values of their types.
THEOREM Types == Spec => []TypeOK
<1>1. Inv => TypeOK
  BY DEF Inv
<1> QED
  BY <1>1, Inductive, PTL

\* check_status's fail-closed guard: once the server has called the license
\* revoked or suspended no offline check lets the user in, however many threads
\* check at the same time and whatever the local clock is set to.
THEOREM RefusedStaysLockedHolds == Spec => RefusedStaysLocked
<1> DEFINE A == \A t \in Threads : AllowedOffline(t) /\ faults = 0 /\ ~threads[t].second
                  => heard \notin {"revoked", "suspended"}
<1>1. Inv /\ [Next]_vars => A
  <2> SUFFICES ASSUME Inv, [Next]_vars, NEW t \in Threads, AllowedOffline(t), faults = 0,
                      ~threads[t].second, heard \in {"revoked", "suspended"}
               PROVE  FALSE
    OBVIOUS
  <2>1. /\ threads[t].pc = "asking" /\ server = "no_answer"
        /\ threads'[t].pc \in {"licensed", "check"}
    BY DEF AllowedOffline, Running
  <2>2. threads[t].loaded = record /\ record.license_id
    BY <2>1 DEF Inv, LoadedIsRecord
  <2>3. record.status = heard
    BY <2>2, NotActivated DEF Inv, RefusalRecorded
  <2>4. CASE Unanswered(t)
    <3>1. OfflineLicensed(threads[t].loaded, threads[t].at) \in BOOLEAN
      BY DEF OfflineLicensed
    <3>2. OfflineLicensed(threads[t].loaded, threads[t].at)
      BY <2>1, <2>4, <3>1, ConcludeMoves DEF Unanswered, Inv
    <3> QED
      BY <2>2, <2>3, <3>2 DEF OfflineLicensed
  <2>5. ASSUME NEW u \in Threads, u # t, Step(u) \/ \E p \in Purpose : Ask(u, p)
        PROVE  threads'[t] = threads[t]
    BY <2>5 DEF Step, Ask, Lock, ActivateFails, Activated, Check, Answered, Unanswered, Apply,
       Move, Conclude, Unlock, Inv, TypeOK
  <2>6. Step(t) \/ (\E p \in Purpose : Ask(t, p)) => Unanswered(t)
    BY <2>1 DEF Step, Ask, Lock, ActivateFails, Activated, Check, Answered, Apply, Running
  <2>7. CASE Quit \/ Surroundings \/ UNCHANGED vars
    <3>1. threads'[t] = threads[t] \/ threads'[t] = NoWork
      BY <2>7 DEF Quit, Surroundings, vars
    <3> QED
      BY <2>1, <3>1 DEF NoWork
  <2> QED
    BY <2>1, <2>4, <2>5, <2>6, <2>7 DEF Next
<1> QED
  BY <1>1, Inductive, PTL DEF Spec, RefusedStaysLocked

\* highest_seen_clock never moves back while a license stays installed, other
\* than by a new activation, although every check reads the record, waits for
\* the network and writes it back.
THEOREM WatermarkHolds == Spec => WatermarkNeverMovesBack
<1> DEFINE A == record.license_id /\ record'.license_id
                /\ (\A t \in Threads : Running(t, "activate") => UNCHANGED threads[t])
                /\ record.highest_seen_clock # Never
                => /\ record'.highest_seen_clock # Never
                   /\ record'.highest_seen_clock >= record.highest_seen_clock
<1>1. Inv /\ [Next]_vars => A
  <2> SUFFICES ASSUME Inv, [Next]_vars, record'.license_id, record.highest_seen_clock # Never,
                      \A t \in Threads : Running(t, "activate") => UNCHANGED threads[t]
               PROVE  /\ record'.highest_seen_clock # Never
                      /\ record'.highest_seen_clock >= record.highest_seen_clock
    OBVIOUS
  <2>1. record.highest_seen_clock \in Int
    BY DEF Inv, TypeOK, Record, Time
  <2>2. CASE UNCHANGED record
    BY <2>1, <2>2
  <2>3. ASSUME NEW t \in Threads, Check(t)
        PROVE  /\ record'.highest_seen_clock # Never
               /\ record'.highest_seen_clock >= record.highest_seen_clock
    BY <2>3, WriteAdvanced DEF Check
  <2>4. ASSUME NEW t \in Threads, Answered(t) \/ Unanswered(t)
        PROVE  /\ record'.highest_seen_clock # Never
               /\ record'.highest_seen_clock >= record.highest_seen_clock
    BY <2>1, <2>4, AnsweredStep, UnansweredStep, NotActivated
  <2>5. ASSUME NEW t \in Threads, Activated(t) PROVE FALSE
    BY <2>5 DEF Activated, Running, Move, Inv, TypeOK
  <2>6. ASSUME NEW t \in Threads,
               \/ Lock(t) \/ ActivateFails(t) \/ Apply(t)
               \/ \E p \in Purpose : Ask(t, p)
        PROVE  UNCHANGED record
    BY <2>6 DEF Lock, ActivateFails, Apply, Ask
  <2>7. Quit \/ Surroundings \/ UNCHANGED vars => UNCHANGED record
    BY OutsideStep
  <2> QED
    BY <2>2, <2>3, <2>4, <2>5, <2>6, <2>7 DEF Next, Step
<1> QED
  BY <1>1, Inductive, PTL DEF Spec, WatermarkNeverMovesBack

=============================================================================
