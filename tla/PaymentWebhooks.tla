--------------------------- MODULE PaymentWebhooks ---------------------------
(***************************************************************************)
(* Webhook handling as the server runs it.  Each request to                *)
(* POST /webhooks/razorpay is handled by a task of its own:                *)
(*   Receive      the signature holds; the payment row is looked up and    *)
(*                its status, amount and currency are judged;              *)
(*   ReadLicense  the subscription and its license are looked up;          *)
(*   Claim        claim_and_apply, one transaction; or                     *)
(*   ClaimLost    the ledger has the event id already: roll back, 200.     *)
(* A task that fails or dies with the process before its COMMIT leaves no  *)
(* trace and the gateway sends the event again.  The lookups run outside   *)
(* the transaction, so other tasks may commit in between.                  *)
(***************************************************************************)
EXTENDS PaymentStore

CONSTANTS
    Handlers,   \* tasks that handle webhook requests at the same time
    Idle,       \* what a task that handles no event holds
    MaxFaults   \* bound on failed or killed requests

ASSUME HandlersAssumption ==
    /\ MaxFaults \in Nat
    /\ Idle \notin [id: EventId, effect: Effect, stage: {"accepted", "payment", "resolved"}]

VARIABLES
    handlers, \* what each task has resolved so far
    faults    \* requests that failed so far

vars == <<store, handlers, faults>>

Task == [id: EventId, effect: Effect, stage: {"accepted", "payment", "resolved"}]

Receive(h, id) ==
    /\ handlers[h] = Idle
    /\ Sent(id)
    /\ handlers' = [handlers EXCEPT
         ![h] = [id |-> id, effect |-> ResolvePayment(id), stage |-> "payment"]]
    /\ UNCHANGED <<store, faults>>

ReadLicense(h) ==
    /\ handlers[h] # Idle /\ handlers[h].stage = "payment"
    /\ handlers' = [handlers EXCEPT
         ![h] = [@ EXCEPT !.effect = ResolveLicense(handlers[h].effect, now),
                          !.stage = "resolved"]]
    /\ UNCHANGED <<store, faults>>

\* Mutant: the effect is applied whether or not the claim was won.
Claim_Unchecked(h) ==
    /\ handlers[h] # Idle /\ handlers[h].stage = "resolved"
    /\ handlers[h].effect.issue => Len(licenses) < MaxLicenses
    /\ webhook_events' = webhook_events \cup {handlers[h].id}
    /\ payments' = AppliedPayments(handlers[h].effect)
    /\ subscriptions' = AppliedSubscriptions(handlers[h].effect)
    /\ licenses' = AppliedLicenses(handlers[h].effect)
    /\ handlers' = [handlers EXCEPT ![h] = Idle]
    /\ UNCHANGED <<session, gateway, now, faults>>

Claim(h) ==
    /\ handlers[h] # Idle /\ handlers[h].stage = "resolved"
    /\ claim_and_apply(handlers[h].id, handlers[h].effect)
    /\ handlers' = [handlers EXCEPT ![h] = Idle]
    /\ UNCHANGED <<session, gateway, now, faults>>

\* Mutant: the loser of a claim waits for ever.
ClaimLost_Waits(h) ==
    /\ handlers[h] # Idle /\ handlers[h].stage = "resolved"
    /\ handlers[h].id \in webhook_events
    /\ UNCHANGED <<store, handlers, faults>>

ClaimLost(h) ==
    /\ handlers[h] # Idle /\ handlers[h].stage = "resolved"
    /\ handlers[h].id \in webhook_events
    /\ handlers' = [handlers EXCEPT ![h] = Idle]
    /\ UNCHANGED <<store, faults>>

\* Mutant: a failure keeps the payment statement.
Fail_NoRollback(h) ==
    /\ handlers[h] # Idle /\ faults < MaxFaults
    /\ payments' = AppliedPayments(handlers[h].effect)
    /\ handlers' = [handlers EXCEPT ![h] = Idle]
    /\ faults' = faults + 1
    /\ UNCHANGED <<session, subscriptions, licenses, webhook_events, gateway, now>>

\* A query or the COMMIT fails (500), or the server is killed.
Fail(h) ==
    /\ handlers[h] # Idle /\ faults < MaxFaults
    /\ handlers' = [handlers EXCEPT ![h] = Idle]
    /\ faults' = faults + 1
    /\ UNCHANGED store

Work(h) == ReadLicense(h) \/ Claim(h) \/ ClaimLost(h)

Init ==
    /\ StoreInit
    /\ handlers = [h \in Handlers |-> Idle]
    /\ faults = 0

Outside == Environment /\ UNCHANGED <<handlers, faults>>

Next ==
    \/ Outside
    \/ \E h \in Handlers :
         \/ \E id \in Deliverable : Receive(h, id)
         \/ Work(h)
         \/ Fail(h)

Spec == Init /\ [][Next]_vars

(***************************************************************************)
(* Fairness.  The gateway keeps sending events until the server answers    *)
(* 2xx, so while some event sent is not in the ledger and a task is free   *)
(* again and again, an unprocessed event is received again and again; and  *)
(* a task in progress runs on: tokio polls it until it completes.          *)
(***************************************************************************)
Redeliver == \E h \in Handlers, id \in Deliverable \ webhook_events : Receive(h, id)

Fairness ==
    /\ \A h \in Handlers : WF_vars(Work(h))
    /\ SF_vars(Redeliver)

FairSpec == Spec /\ Fairness

-----------------------------------------------------------------------------
\* What the tasks hold has the type of what they resolved.
TypeOK ==
    /\ StoreTypeOK
    /\ handlers \in [Handlers -> Task \cup {Idle}]
    /\ faults \in Nat

Atomic == INSTANCE AtomicWebhooks

\* A server that handles one event at a time (one task) does what
\* AtomicWebhooks does: its reads and its transaction have one moment.
RefinesAtomic == Atomic!AtomicSpec

\* The rows change only together with one new row of the ledger, and a ledger
\* row is never lost: an event id takes effect at most once, however many
\* tasks, redeliveries and failures there are.
EffectOnlyWithClaim ==
    [][/\ webhook_events \subseteq webhook_events'
       /\ <<payments, subscriptions, licenses>>' # <<payments, subscriptions, licenses>>
            => \/ session' # session
               \/ \E id \in EventId \ webhook_events :
                    webhook_events' = webhook_events \cup {id}]_vars

\* Every statement of a transaction is about one checkout: an event never
\* changes another customer's rows, even when the license id it writes to was
\* read before other tasks committed.
OneCheckoutPerStep ==
    [][\A c, d \in Checkouts :
         /\ payments'[c] # payments[c] \/ subscriptions'[c] # subscriptions[c]
         /\ \/ payments'[d] # payments[d] \/ subscriptions'[d] # subscriptions[d]
            \/ \E l \in 1..Len(licenses') : /\ licenses'[l].subscription = d
                                            /\ l > Len(licenses) \/ licenses'[l] # licenses[l]
         => c = d]_vars

\* Every event the gateway sent is processed in the end, whatever failed and
\* however many duplicates the tasks are kept busy with.
EventuallyClaimed == <>[](Deliverable \subseteq webhook_events)

-----------------------------------------------------------------------------
(***************************************************************************)
(* Stated in AtomicWebhooks.  The first holds with any number of tasks;    *)
(* the others with one task only, because the lookups that precede the     *)
(* transaction go stale when another task commits.                         *)
(***************************************************************************)
GatewayIdBelongs    == Atomic!GatewayIdBelongs
OneLiveLicense      == Atomic!OneLiveLicense
ActiveLicenseIsPaid == Atomic!ActiveLicenseIsPaid
RevokedStaysRevoked == Atomic!RevokedStaysRevoked
=============================================================================
