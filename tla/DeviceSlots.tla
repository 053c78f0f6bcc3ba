----------------------------- MODULE DeviceSlots -----------------------------
(***************************************************************************)
(* What the licensing server promises about the devices of one license: a  *)
(* customer's activation takes a slot only while one of max_devices is     *)
(* free, all at once, whatever other requests do; only an administrator    *)
(* may put a device above the limit.  LicenseServer implements this with   *)
(* several database statements per request.                                *)
(***************************************************************************)
EXTENDS Integers, FiniteSets

CONSTANTS
    Machines,   \* device ids
    MaxDevices  \* licenses.max_devices

VARIABLES
    active,  \* devices whose deactivated_at is NULL
    granted  \* those an administrator activated, the limit notwithstanding

SlotsInit == active = {} /\ granted = {}

Activate(m) ==
    /\ Cardinality(active) < MaxDevices
    /\ active' = active \cup {m}
    /\ UNCHANGED granted

Deactivate(m) == active' = active \ {m} /\ granted' = granted \ {m}

Grant(m) == active' = active \cup {m} /\ granted' = granted \cup {m}

SlotsNext == \E m \in Machines : Activate(m) \/ Deactivate(m) \/ Grant(m)

SlotsSpec == SlotsInit /\ [][SlotsNext]_<<active, granted>>

\* Customers never hold more than max_devices slots of one license
\* (LICENSE_DEVICE_LIMIT_REACHED otherwise).
WithinLimit == Cardinality(active \ granted) <= MaxDevices
=============================================================================
