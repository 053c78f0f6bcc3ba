---------------------------- MODULE LicenseServer ----------------------------
(***************************************************************************)
(* The licensing server's requests about one license and its devices, as   *)
(* concurrent tasks over PostgreSQL: activate, validate (and heartbeat)    *)
(* and deactivate in service/license_service.rs, the administrator's       *)
(* actions in service/admin_service.rs, and the row locks that             *)
(* repository/device.rs takes.  A machine has at most one request in       *)
(* progress.  Licenses share no rows, so one license is enough.            *)
(*                                                                         *)
(* activate_device locks the license row and the license's device rows     *)
(* (SELECT ... FOR UPDATE) until it commits: any UPDATE of one of these    *)
(* rows waits, an INSERT of another device row only for the license row    *)
(* that every activation locks first.                                      *)
(***************************************************************************)
EXTENDS Integers, FiniteSets

CONSTANTS
    Machines,   \* device ids; each sends requests of its own
    Admins,     \* administrators restoring a license
    MaxDevices, \* licenses.max_devices
    MaxTime,    \* bound on the clock
    None        \* no lock holder, no request

ASSUME ServerAssumption ==
    /\ IsFiniteSet(Machines)
    /\ MaxDevices \in Nat
    /\ MaxTime \in Nat
    /\ None \notin Machines

Status  == {"active", "suspended", "revoked"}
License == [status: Status, expires_at: Int]
Stage   == {"none", "admitted", "locked", "activated", "limit_reached",
            "license_read", "device_read", "answered", "found"}

VARIABLES
    license,   \* the license row
    devices,   \* table devices, by device id: no row, active, or deactivated
    row_lock,  \* the request whose transaction holds the row locks
    calls,     \* each machine's request: how far it is and what it has read
    restoring, \* administrators who have found the license revoked
    granted,   \* history: devices an administrator reactivated
    now        \* the clock

svars == <<license, devices, row_lock, calls, restoring, granted, now>>

Active == {m \in Machines : devices[m] = "active"}

effective_status(lic) ==
    IF lic.status = "active" /\ lic.expires_at <= now THEN "expired" ELSE lic.status

\* An UPDATE of m's row waits while an activation holds the locks.
RowLocked(m) == row_lock # None /\ devices[m] # "none"

NoRequest(m) == calls[m].stage = "none"
At(m, stage) == calls[m].stage = stage
Continue(m, stage) == calls' = [calls EXCEPT ![m].stage = stage]
Finish(m) == calls' = [calls EXCEPT ![m] = [stage |-> "none", seen |-> {}]]

-----------------------------------------------------------------------------
(***************************************************************************)
(* POST /activate-license                                                  *)
(***************************************************************************)
\* find_by_key; a revoked or expired license is refused, a suspended one not.
FindByKey(m) ==
    /\ NoRequest(m)
    /\ effective_status(license) \in {"active", "suspended"}
    /\ Continue(m, "admitted")
    /\ UNCHANGED <<license, devices, row_lock, restoring, granted, now>>

\* Mutant: nothing is locked; the device rows are only read.
LockRows_None(m) ==
    /\ At(m, "admitted")
    /\ row_lock' = m
    /\ calls' = [calls EXCEPT ![m].stage = "locked", ![m].seen = Active]
    /\ UNCHANGED <<license, devices, restoring, granted, now>>

\* activate_device begins: lock the license row, then lock and read the
\* device rows.
LockRows(m) ==
    /\ At(m, "admitted") /\ row_lock = None
    /\ row_lock' = m
    /\ calls' = [calls EXCEPT ![m].stage = "locked", ![m].seen = Active]
    /\ UNCHANGED <<license, devices, restoring, granted, now>>

\* An active device is only refreshed; any other needs a free slot.
HasSlot(m) == m \in calls[m].seen \/ Cardinality(calls[m].seen) < MaxDevices

CommitActivation(m) ==
    /\ At(m, "locked") /\ HasSlot(m)
    /\ devices' = [devices EXCEPT ![m] = "active"]
    /\ row_lock' = None
    /\ Continue(m, "activated")
    /\ UNCHANGED <<license, restoring, granted, now>>

\* Mutant: the transaction is not rolled back.
LimitReached_Open(m) ==
    /\ At(m, "locked") /\ ~HasSlot(m)
    /\ Continue(m, "limit_reached")
    /\ UNCHANGED <<license, devices, row_lock, restoring, granted, now>>

LimitReached(m) ==
    /\ At(m, "locked") /\ ~HasSlot(m)
    /\ row_lock' = None
    /\ Continue(m, "limit_reached")
    /\ UNCHANGED <<license, devices, restoring, granted, now>>

\* The subscription lookup and the response.  Its status is that of the
\* license row as it was read first, not as it is now.
Respond(m) ==
    /\ calls[m].stage \in {"activated", "limit_reached", "answered"}
    /\ Finish(m)
    /\ UNCHANGED <<license, devices, row_lock, restoring, granted, now>>

-----------------------------------------------------------------------------
(***************************************************************************)
(* POST /validate-license and /heartbeat                                   *)
(***************************************************************************)
FindById(m) ==
    /\ NoRequest(m)
    /\ Continue(m, "license_read")
    /\ UNCHANGED <<license, devices, row_lock, restoring, granted, now>>

\* find_active_device: no row or a deactivated one is DeviceNotActivated (as
\* is a session of another account).
FindActiveDevice(m) ==
    /\ At(m, "license_read")
    /\ \/ devices[m] = "active" /\ Continue(m, "device_read")
       \/ Continue(m, "answered")
    /\ UNCHANGED <<license, devices, row_lock, restoring, granted, now>>

\* touch_last_seen, then the license's status or, on another fingerprint,
\* DeviceMismatch.
TouchLastSeen(m) ==
    /\ At(m, "device_read") /\ ~RowLocked(m)
    /\ Continue(m, "answered")
    /\ UNCHANGED <<license, devices, row_lock, restoring, granted, now>>

-----------------------------------------------------------------------------
(***************************************************************************)
(* POST /deactivate-license, once the license, the owner, the device row   *)
(* and its fingerprint have been found to match.                           *)
(***************************************************************************)
FindDevice(m) ==
    /\ NoRequest(m) /\ devices[m] = "active"
    /\ Continue(m, "found")
    /\ UNCHANGED <<license, devices, row_lock, restoring, granted, now>>

\* Mutant: the UPDATE does not wait for the lock.
Deactivate_NoWait(m) ==
    /\ At(m, "found")
    /\ devices' = [devices EXCEPT ![m] = "deactivated"]
    /\ granted' = granted \ {m}
    /\ Continue(m, "answered")
    /\ UNCHANGED <<license, row_lock, restoring, now>>

Deactivate(m) ==
    /\ At(m, "found") /\ ~RowLocked(m)
    /\ devices' = [devices EXCEPT ![m] = "deactivated"]
    /\ granted' = granted \ {m}
    /\ Continue(m, "answered")
    /\ UNCHANGED <<license, row_lock, restoring, now>>

\* A statement fails or the server is killed: an open transaction rolls back.
CallFails(m) ==
    /\ ~NoRequest(m)
    /\ Finish(m)
    /\ row_lock' = IF row_lock = m THEN None ELSE row_lock
    /\ UNCHANGED <<license, devices, restoring, granted, now>>

-----------------------------------------------------------------------------
(***************************************************************************)
(* The administrator, the webhooks (PaymentStore's licenses) and time.     *)
(***************************************************************************)
revoke_license ==
    /\ row_lock = None
    /\ license' = [license EXCEPT !.status = "revoked"]
    /\ UNCHANGED <<devices, row_lock, calls, restoring, granted, now>>

FindRevoked(a) ==
    /\ license.status = "revoked"
    /\ restoring' = restoring \cup {a}
    /\ UNCHANGED <<license, devices, row_lock, calls, granted, now>>

\* The UPDATE does not look at the status again.
restore_license(a) ==
    /\ a \in restoring /\ row_lock = None
    /\ restoring' = restoring \ {a}
    /\ license' = [license EXCEPT !.status = "active"]
    /\ UNCHANGED <<devices, row_lock, calls, granted, now>>

admin_deactivate_device(m) ==
    /\ devices[m] # "none" /\ ~RowLocked(m)
    /\ devices' = [devices EXCEPT ![m] = "deactivated"]
    /\ granted' = granted \ {m}
    /\ UNCHANGED <<license, row_lock, calls, restoring, now>>

\* Without the max_devices check.
admin_activate_device(m) ==
    /\ devices[m] # "none" /\ ~RowLocked(m)
    /\ devices' = [devices EXCEPT ![m] = "active"]
    /\ granted' = granted \cup {m}
    /\ UNCHANGED <<license, row_lock, calls, restoring, now>>

Billing ==
    /\ row_lock = None /\ license.status # "revoked"
    /\ \/ license' = [status |-> "active", expires_at |-> now + 1]
       \/ \E s \in {"suspended", "revoked"} : license' = [license EXCEPT !.status = s]
    /\ UNCHANGED <<devices, row_lock, calls, restoring, granted, now>>

Tick == now < MaxTime /\ now' = now + 1
        /\ UNCHANGED <<license, devices, row_lock, calls, restoring, granted>>

-----------------------------------------------------------------------------
ServerInit ==
    /\ license = [status |-> "active", expires_at |-> 1]
    /\ devices = [m \in Machines |-> "none"]
    /\ row_lock = None
    /\ calls = [m \in Machines |-> [stage |-> "none", seen |-> {}]]
    /\ restoring = {} /\ granted = {} /\ now = 0

Proceed(m) ==
    \/ LockRows(m) \/ CommitActivation(m) \/ LimitReached(m)
    \/ FindActiveDevice(m) \/ TouchLastSeen(m) \/ Deactivate(m) \/ Respond(m)

ServerNext ==
    \/ \E m \in Machines :
         \/ FindByKey(m) \/ FindById(m) \/ FindDevice(m)
         \/ Proceed(m) \/ CallFails(m)
         \/ admin_deactivate_device(m) \/ admin_activate_device(m)
    \/ \E a \in Admins : FindRevoked(a) \/ restore_license(a)
    \/ revoke_license \/ Billing \/ Tick

ServerSpec == ServerInit /\ [][ServerNext]_svars

\* A request waiting for a row lock is granted it in the end (PostgreSQL
\* queues lock requests), and a request that can go on is polled again.
ServerFairness == \A m \in Machines : SF_svars(Proceed(m))

ServerFairSpec == ServerSpec /\ ServerFairness

-----------------------------------------------------------------------------
\* Rows and requests have their declared types; "expired" is never stored.
ServerTypeOK ==
    /\ license \in License
    /\ devices \in [Machines -> {"none", "active", "deactivated"}]
    /\ row_lock \in Machines \cup {None}
    /\ calls \in [Machines -> [stage: Stage, seen: SUBSET Machines]]
    /\ restoring \in SUBSET Admins
    /\ granted \in SUBSET Machines
    /\ now \in Nat

Slots == INSTANCE DeviceSlots WITH active <- Active

\* Activations, deactivations and administrators' grants behave as if each
\* happened at one moment: the row locks make check and write one step.
RefinesSlots == Slots!SlotsSpec

\* Customers never hold more than max_devices slots, however many machines
\* activate at the same time.
WithinLimit == Slots!WithinLimit

\* What the lock holder has counted is what is there.
LockedSnapshot ==
    \A m \in Machines :
        /\ At(m, "locked") <=> row_lock = m
        /\ row_lock = m => calls[m].seen = Active

\* LICENSE_DEVICE_LIMIT_REACHED is told to no machine while a slot is free.
LimitIsReal ==
    [][\A m \in Machines :
         At(m, "locked") /\ calls'[m].stage = "limit_reached"
            => m \notin Active /\ Cardinality(Active) >= MaxDevices]_svars

\* Every request ends: none waits for ever for a row that another locked.
RequestsEnd == \A m \in Machines : []<>NoRequest(m)
=============================================================================
