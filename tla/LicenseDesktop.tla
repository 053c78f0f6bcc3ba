--------------------------- MODULE LicenseDesktop ---------------------------
(***************************************************************************)
(* License checks on one desktop installation (src/src/license): a cached  *)
(* record in the local database, an online check when the server answers   *)
(* and an offline grace period when it does not, with a watermark against  *)
(* clocks set back.  Checks run on background threads that hold the        *)
(* database mutex from the first read to the last write, network round     *)
(* trips included; what they conclude is applied to the screen later, by   *)
(* the event loop.                                                         *)
(*                                                                         *)
(* server is what LicenseServer would tell this device: the license's      *)
(* status, or nothing the client treats as an answer (unreachable, rate    *)
(* limited, or any error status such as DeviceNotActivated).               *)
(***************************************************************************)
EXTENDS Integers

CONSTANTS
    Threads,   \* background threads (startup, login, timer, settings)
    Free,      \* the database mutex when no thread holds it
    Answers,   \* the license statuses the server may report
    Grace,     \* grace_period_days
    MaxNow,    \* bound on the local clock, in days
    MaxFaults, \* bound on failed writes of the local database
    Never      \* no timestamp stored

ASSUME DesktopAssumption ==
    /\ Free \notin Threads
    /\ Answers \subseteq {"active", "suspended", "revoked", "expired"}
    /\ Grace \in Nat /\ MaxNow \in Nat /\ MaxFaults \in Nat
    /\ Never \notin Int

ServerStatus == {"active", "suspended", "revoked", "expired"}
Purpose == {"launch", "enforce", "refresh", "activate"}
Time == Int \cup {Never}
Record == [license_id: BOOLEAN, status: ServerStatus \cup {"not_activated"},
           last_validated_at: Time, highest_seen_clock: Time]

VARIABLES
    server,   \* what the server would answer now
    clock,    \* the local clock, which the user can set
    record,   \* table local_license
    db_lock,  \* the thread that holds the database mutex
    threads,  \* what each thread is doing
    screen,   \* not running, logged in, or blocked
    heard,    \* history: the last status received from the server
    faults    \* writes that failed so far

world == <<server, clock>>
vars  == <<world, record, db_lock, threads, screen, heard, faults>>

\* The record of an installation without a license; one without a row
\* behaves alike.
not_activated == [license_id |-> FALSE, status |-> "not_activated",
                  last_validated_at |-> Never, highest_seen_clock |-> Never]

\* A thread: where it is, what for, the time its check started, the record as
\* it loaded it, and whether it is refresh's second check.
NoWork == [pc |-> "idle", purpose |-> "launch", at |-> 0,
           loaded |-> not_activated, second |-> FALSE]

-----------------------------------------------------------------------------
(***************************************************************************)
(* validation.rs                                                           *)
(***************************************************************************)
is_licensed_NotExpired(status) == status # "expired" \* mutant: fails open
is_licensed(status) == status = "active"

\* Mutant: the cached status is not looked at.
OfflineLicensed_ByTimeOnly(rec, t) ==
    /\ rec.last_validated_at # Never
    /\ rec.highest_seen_clock # Never => t >= rec.highest_seen_clock
    /\ t - rec.last_validated_at <= Grace

\* check_status's Err branch and derive_offline_status.
OfflineLicensed(rec, t) ==
    /\ rec.status \notin {"revoked", "suspended"}
    /\ rec.last_validated_at # Never
    /\ rec.highest_seen_clock # Never => t >= rec.highest_seen_clock
    /\ t - rec.last_validated_at <= Grace

\* advance_clock_watermark; without a license nothing ever reads it.
Advanced(rec, t) ==
    IF rec.license_id /\ (rec.highest_seen_clock = Never \/ t > rec.highest_seen_clock)
    THEN [rec EXCEPT !.highest_seen_clock = t] ELSE rec

\* A write of the local record either happens or, its error ignored, not.
Write(rec) ==
    \/ record' = rec /\ UNCHANGED faults
    \/ rec # record /\ record' = record /\ faults < MaxFaults /\ faults' = faults + 1

-----------------------------------------------------------------------------
(***************************************************************************)
(* A thread's check.                                                       *)
(***************************************************************************)
Running(t, pc) == threads[t].pc = pc
Move(t, pc) == threads' = [threads EXCEPT ![t].pc = pc]

\* The event that starts it: startup, the login button or the 24-hour timer,
\* and the two buttons of the license form.
Ask(t, purpose) ==
    /\ Running(t, "idle")
    /\ purpose = "launch" <=> screen = "off"
    /\ purpose = "launch" => \A u \in Threads : Running(u, "idle")
    /\ threads' = [threads EXCEPT ![t] = [NoWork EXCEPT !.pc = "waiting",
                                                        !.purpose = purpose]]
    /\ UNCHANGED <<world, record, db_lock, screen, heard, faults>>

\* Mutant: the mutex is taken for each access only.
Lock_Shared(t) ==
    /\ Running(t, "waiting")
    /\ db_lock' = t
    /\ Move(t, IF threads[t].purpose = "activate" THEN "activate" ELSE "check")
    /\ UNCHANGED <<world, record, screen, heard, faults>>

Lock(t) ==
    /\ Running(t, "waiting") /\ db_lock = Free
    /\ db_lock' = t
    /\ Move(t, IF threads[t].purpose = "activate" THEN "activate" ELSE "check")
    /\ UNCHANGED <<world, record, screen, heard, faults>>

\* The end of the work under the mutex.
Unlock(t, pc) ==
    /\ db_lock' = Free
    /\ threads' = [threads EXCEPT ![t] = [NoWork EXCEPT !.pc = pc,
                                                        !.purpose = threads[t].purpose]]

\* activate: a refusal or a lost answer stores nothing.
ActivateFails(t) ==
    /\ Running(t, "activate")
    /\ db_lock' = Free
    /\ threads' = [threads EXCEPT ![t] = NoWork]
    /\ UNCHANGED <<world, record, screen, heard, faults>>

Activated(t) ==
    /\ Running(t, "activate")
    /\ \E status \in {"active", "suspended"} \cap Answers :
         /\ server \in {status, "no_answer"} \* the device is registered by this call
         /\ server' = status /\ heard' = status
         /\ record' = [license_id |-> TRUE, status |-> status,
                       last_validated_at |-> clock, highest_seen_clock |-> clock]
    /\ Move(t, "check")
    /\ UNCHANGED <<clock, db_lock, screen, faults>>

\* check_status begins: the watermark, then the record; without a license id
\* the result is NotActivated and no request is sent.
Check(t) ==
    /\ Running(t, "check")
    /\ Write(Advanced(record, clock))
    /\ \/ /\ record.license_id
          /\ threads' = [threads EXCEPT ![t] = [@ EXCEPT !.pc = "asking", !.at = clock,
                                                         !.loaded = record']]
          /\ UNCHANGED db_lock
       \/ ~record.license_id /\ Unlock(t, "not_licensed")
    /\ UNCHANGED <<world, screen, heard>>

\* What follows from the result of a check.  refresh checks once more if it
\* was allowed and then ignores the second result.
Conclude(t, licensed) ==
    LET work == threads[t]
    IN  IF work.purpose = "refresh" /\ licensed /\ ~work.second
        THEN /\ threads' = [threads EXCEPT ![t] = [NoWork EXCEPT
                                !.pc = "check", !.purpose = "refresh", !.second = TRUE]]
             /\ UNCHANGED db_lock
        ELSE Unlock(t, IF licensed \/ work.second THEN "licensed" ELSE "not_licensed")

\* What a check leaves in the database: enforce resets the record of a
\* license that is blocked because the server has revoked it, if it can.
Left(t, licensed, rec) ==
    IF ~licensed /\ rec.status = "revoked"
       /\ threads[t].purpose # "launch" /\ ~threads[t].second
    THEN {not_activated, rec} ELSE {rec}

\* The server answers with a status: save it, then conclude.
Answered(t) ==
    /\ Running(t, "asking") /\ server # "no_answer"
    /\ heard' = server
    /\ LET saved == [threads[t].loaded EXCEPT !.status = server,
                                              !.last_validated_at = threads[t].at]
       IN \/ record' \in Left(t, is_licensed(server), saved) /\ UNCHANGED faults
          \/ /\ record' \in Left(t, is_licensed(server), record)
             /\ faults < MaxFaults /\ faults' = faults + 1
    /\ Conclude(t, is_licensed(server))
    /\ UNCHANGED <<world, screen>>

\* No answer, or an error status: the cached record decides.
Unanswered(t) ==
    /\ Running(t, "asking") /\ server = "no_answer"
    /\ LET licensed == OfflineLicensed(threads[t].loaded, threads[t].at)
       IN  /\ Conclude(t, licensed)
           /\ record' \in Left(t, licensed, record)
    /\ UNCHANGED <<world, screen, heard, faults>>

\* Mutant: the timer only logs that the license is gone.
Apply_KeepsOpen(t) ==
    /\ threads[t].pc \in {"licensed", "not_licensed"}
    /\ screen' = IF Running(t, "licensed") THEN "open"
                 ELSE IF threads[t].purpose = "launch" THEN "blocked" ELSE screen
    /\ threads' = [threads EXCEPT ![t] = NoWork]
    /\ UNCHANGED <<world, record, db_lock, heard, faults>>

\* invoke_from_event_loop: a refused activation or refresh leaves the screen.
Apply(t) ==
    /\ threads[t].pc \in {"licensed", "not_licensed"}
    /\ screen' = IF Running(t, "licensed") THEN "open"
                 ELSE IF threads[t].purpose \in {"launch", "enforce"} THEN "blocked"
                 ELSE screen
    /\ threads' = [threads EXCEPT ![t] = NoWork]
    /\ UNCHANGED <<world, record, db_lock, heard, faults>>

-----------------------------------------------------------------------------
\* The process ends, wherever its threads are.
Quit ==
    /\ screen # "off"
    /\ screen' = "off" /\ db_lock' = Free
    /\ threads' = [t \in Threads |-> NoWork]
    /\ UNCHANGED <<world, record, heard, faults>>

Surroundings ==
    /\ \/ server' \in (Answers \cup {"no_answer"}) \ {server} /\ UNCHANGED clock
       \/ clock' \in 0..MaxNow \ {clock} /\ UNCHANGED server
    /\ UNCHANGED <<record, db_lock, threads, screen, heard, faults>>

Init ==
    /\ server = "no_answer" /\ clock = 0
    /\ record = not_activated
    /\ db_lock = Free
    /\ threads = [t \in Threads |-> NoWork]
    /\ screen = "off" /\ heard = "not_activated" /\ faults = 0

Step(t) ==
    \/ Lock(t) \/ ActivateFails(t) \/ Activated(t)
    \/ Check(t) \/ Answered(t) \/ Unanswered(t) \/ Apply(t)

Next ==
    \/ \E t \in Threads : Step(t) \/ \E p \in Purpose : Ask(t, p)
    \/ Quit \/ Surroundings

Spec == Init /\ [][Next]_vars

\* The 24-hour timer fires while the application is open, and a thread that
\* waits for the mutex or the network goes on in the end (requests time out).
Fairness ==
    /\ \A t \in Threads : SF_vars(Step(t))
    /\ SF_vars(screen = "open" /\ \E t \in Threads : Ask(t, "enforce"))

FairSpec == Spec /\ Fairness

-----------------------------------------------------------------------------
\* The record and the threads hold values of their types.
TypeOK ==
    /\ server \in ServerStatus \cup {"no_answer"}
    /\ clock \in Int
    /\ record \in Record
    /\ db_lock \in Threads \cup {Free}
    /\ threads \in [Threads -> [pc: {"idle", "waiting", "activate", "check", "asking",
                                     "licensed", "not_licensed"},
                                purpose: Purpose, at: Int, loaded: Record,
                                second: BOOLEAN]]
    /\ screen \in {"off", "open", "blocked"}
    /\ heard \in ServerStatus \cup {"not_activated"}
    /\ faults \in Nat

\* A step by which a thread finds the license valid without the server.
AllowedOffline(t) ==
    /\ Running(t, "asking") /\ server = "no_answer"
    /\ threads'[t].pc \in {"licensed", "check"}

\* Once the server has called the license revoked or suspended, no offline
\* check lets the user in, also when the reset of the record was lost, until
\* the server says otherwise (check_status's fail-closed guard).
RefusedStaysLocked ==
    [][\A t \in Threads : AllowedOffline(t) /\ faults = 0 /\ ~threads[t].second
         => heard \notin {"revoked", "suspended"}]_vars

\* highest_seen_clock never moves back while a license stays installed, other
\* than by a new activation: no check overwrites what another one recorded.
WatermarkNeverMovesBack ==
    [][record.license_id /\ record'.license_id
         /\ (\A t \in Threads : Running(t, "activate") => UNCHANGED threads[t])
         /\ record.highest_seen_clock # Never
         => /\ record'.highest_seen_clock # Never
            /\ record'.highest_seen_clock >= record.highest_seen_clock]_vars

\* A revocation reaches a desktop that is connected: it is locked in the end,
\* without a restart and whatever was under way.
RevocationReaches ==
    <>[](server = "revoked") => <>[](screen # "open")

\* A desktop cut off from the server is locked once the grace period is over.
GraceEnds ==
    <>[](/\ server = "no_answer" /\ clock = MaxNow
         /\ \/ record.last_validated_at = Never
            \/ MaxNow - record.last_validated_at > Grace)
        => <>[](screen # "open")
=============================================================================
