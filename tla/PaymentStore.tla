---------------------------- MODULE PaymentStore ----------------------------
(***************************************************************************)
(* The licensing server's payment tables, the part of the payment gateway  *)
(* (Razorpay) the server reacts to, and the two halves of handling one     *)
(* webhook event: what resolve_* in service/payment_service.rs reads, and  *)
(* what claim_and_apply in repository/payment_webhook_event.rs writes.     *)
(*                                                                         *)
(* AtomicWebhooks does both halves in one step; PaymentWebhooks does them  *)
(* as the server does, with other handlers' steps in between.              *)
(*                                                                         *)
(* A checkout is one create_checkout_session call: it inserts one          *)
(* subscription and one payment, so a checkout names both rows.  A charge  *)
(* is one gateway payment (pay_...); a recurring checkout has several.     *)
(***************************************************************************)
EXTENDS Integers, Sequences

CONSTANTS
    Checkouts,            \* create_checkout_session calls
    Recurring,            \* those billed through a gateway subscription
    Lifetime,             \* those that buy the plan without an expiry
    Charges,              \* gateway payment ids
    Attempts,             \* bound: event ids one gateway event is sent under
    EventTypes,           \* the webhook events the gateway sends
    OrderIdIsCheckoutRef, \* does payment.entity.order_id equal the stored ref?
    MaxNow,               \* bound on the clock
    MaxLicenses,          \* bound on the licenses issued
    NoCharge,             \* SQL NULL of payments.gateway_payment_id
    Never                 \* SQL NULL of an expiry

ActivationEvents == {"payment.captured", "payment_link.paid",
                     "subscription.activated", "subscription.charged"}
RefundEvents  == {"refund.created", "refund.processed"}
\* payment.dispute.closed with dispute.entity.status "won", "lost", or other
ClosedEvents  == {"dispute.won", "dispute.lost", "dispute.under_review"}
LapseEvents   == {"subscription.halted", "subscription.cancelled"}
AllEventTypes == ActivationEvents \cup RefundEvents \cup ClosedEvents
                 \cup LapseEvents
                 \cup {"payment.failed", "payment.dispute.created",
                       "payment.authorized"}

\* Events whose payload repeats the reference create_checkout returned.
CheckoutRefEvents == LapseEvents \cup (ActivationEvents \ {"payment.captured"})

ASSUME StoreAssumption ==
    /\ Recurring \subseteq Checkouts
    /\ Lifetime \subseteq Checkouts \ Recurring
    /\ EventTypes \subseteq AllEventTypes
    /\ OrderIdIsCheckoutRef \in BOOLEAN
    /\ Attempts \in Nat /\ MaxNow \in Nat /\ MaxLicenses \in Nat
    /\ NoCharge \notin Charges
    /\ Never \notin Int

PaymentStatus      == {"pending", "succeeded", "failed", "refunded", "disputed"}
SubscriptionStatus == {"pending_payment", "active", "suspended", "cancelled"}
LicenseStatus      == {"active", "suspended", "revoked"}
Expiry             == Int \cup {Never}

VARIABLES
    session,        \* progress of each create_checkout_session call
    subscriptions,  \* table subscriptions, by checkout
    payments,       \* table payments, by checkout
    licenses,       \* table licenses, in order of issue
    webhook_events, \* table payment_webhook_events: the claimed event ids
    charges,        \* the gateway's payments
    lapses,         \* what happened to each gateway subscription
    now             \* the clock, in billing periods

db      == <<subscriptions, payments, licenses, webhook_events>>
gateway == <<charges, lapses>>
store   == <<session, db, gateway, now>>

(***************************************************************************)
(* Event ids.  Attempts 1.. are the ids one gateway event is delivered     *)
(* under (X-Razorpay-Event-Id; a redelivery may carry a new one).  Attempt *)
(* 0 is the id reconcile_one makes up, reconcile:<row>:<status>:<payment>. *)
(***************************************************************************)
EventId == [type: AllEventTypes, checkout: Checkouts,
            charge: Charges \cup {NoCharge}, attempt: 0..Attempts]

Captured(ch) == charges[ch].status \in {"captured", "refunded"}

\* Has the event with this id happened at the gateway?
Sent(id) ==
    \/ /\ id.type = "subscription.activated" \* sent without a payment entity
       /\ id.charge = NoCharge /\ id.checkout \in Recurring
       /\ \E ch \in Charges : charges[ch].checkout = id.checkout /\ Captured(ch)
    \/ /\ id.type \in LapseEvents
       /\ id.charge = NoCharge /\ id.checkout \in Recurring
       /\ id.type \in lapses[id.checkout]
    \/ /\ id.charge \in Charges
       /\ charges[id.charge].checkout = id.checkout
       /\ \/ id.type = "payment.captured" /\ Captured(id.charge)
          \/ /\ id.type = "payment_link.paid" /\ id.checkout \notin Recurring
             /\ Captured(id.charge)
          \/ /\ id.type = "subscription.charged" /\ id.checkout \in Recurring
             /\ Captured(id.charge)
          \/ id.type = "payment.failed" /\ charges[id.charge].status = "failed"
          \/ id.type \in RefundEvents /\ charges[id.charge].status = "refunded"
          \/ id.type = "payment.dispute.created" /\ charges[id.charge].dispute # "none"
          \/ id.type = "dispute.won" /\ charges[id.charge].dispute = "won"
          \/ id.type = "dispute.lost" /\ charges[id.charge].dispute = "lost"
          \/ /\ id.type = "dispute.under_review" \* sent while open, and again later
             /\ charges[id.charge].dispute # "none"
          \/ id.type = "payment.authorized" /\ Captured(id.charge)

Deliverable ==
    {id \in [type: EventTypes, checkout: Checkouts,
             charge: Charges \cup {NoCharge}, attempt: 1..Attempts] : Sent(id)}

-----------------------------------------------------------------------------
(***************************************************************************)
(* Resolution: what an event implies, from the rows as they are now.  An   *)
(* effect is the source's WebhookMutation: the new payment status ("keep": *)
(* the statement is not run), the gateway id to record, the subscription's *)
(* new status and period, and the license to touch (0: none) or to issue.  *)
(***************************************************************************)
Effect == [checkout: Checkouts,
           payment: PaymentStatus \cup {"keep"},
           gateway_payment_id: Charges \cup {NoCharge},
           subscription: SubscriptionStatus \cup {"keep"},
           period_end: Expiry,
           license_status: LicenseStatus \cup {"keep"},
           license: Nat,
           issue: BOOLEAN,
           expires_at: Expiry]

NoEffect(c) == [checkout |-> c, payment |-> "keep",
                gateway_payment_id |-> NoCharge,
                subscription |-> "keep", period_end |-> Never,
                license_status |-> "keep", license |-> 0, issue |-> FALSE,
                expires_at |-> Never]

\* find_by_provider_ref with the reference the event's payload carries.
KnownByProviderRef(id) ==
    /\ id.type \in CheckoutRefEvents \/ OrderIdIsCheckoutRef
    /\ payments[id.checkout].status # "absent"

\* find_by_gateway_payment_id
PaymentsOf(ch) == {c \in Checkouts : ch # NoCharge /\ payments[c].gateway_payment_id = ch}

AmountMatches_Always(id) == TRUE \* mutant: no check

\* A payload without an amount is not a mismatch, and a reconciliation
\* payload never has one.
AmountMatches(id) ==
    id.attempt = 0 \/ id.charge = NoCharge \/ charges[id.charge].amount_ok

resolve_activation(id) ==
    IF /\ KnownByProviderRef(id)
       /\ AmountMatches(id)
       /\ payments[id.checkout].status \notin {"refunded", "disputed"}
    THEN [NoEffect(id.checkout) EXCEPT !.payment = "succeeded",
                                       !.gateway_payment_id = id.charge,
                                       !.subscription = "active",
                                       !.license_status = "active"]
    ELSE NoEffect(id.checkout)

resolve_payment_failed(id) ==
    IF KnownByProviderRef(id) /\ payments[id.checkout].status = "pending"
    THEN [NoEffect(id.checkout) EXCEPT !.payment = "failed"]
    ELSE NoEffect(id.checkout)

resolve_subscription_inactive(id) ==
    IF ~KnownByProviderRef(id) THEN NoEffect(id.checkout)
    ELSE IF id.type = "subscription.halted"
    THEN [NoEffect(id.checkout) EXCEPT !.subscription = "suspended",
                                       !.license_status = "suspended"]
    ELSE [NoEffect(id.checkout) EXCEPT !.subscription = "cancelled",
                                       !.license_status = "revoked"]

\* Refund and dispute events correlate by gateway payment id only.
SettlePayment(id, payment_status, license_status) ==
    IF PaymentsOf(id.charge) = {} THEN NoEffect(id.checkout)
    ELSE LET c == CHOOSE c \in PaymentsOf(id.charge) : TRUE
         IN  [NoEffect(c) EXCEPT !.payment = payment_status,
                                 !.license_status = license_status]

resolve_refund(id)          == SettlePayment(id, "refunded", "revoked")
resolve_dispute_created(id) == SettlePayment(id, "disputed", "suspended")
resolve_dispute_closed(id)  ==
    CASE id.type = "dispute.won"  -> SettlePayment(id, "succeeded", "active")
      [] id.type = "dispute.lost" -> SettlePayment(id, "refunded", "revoked")
      [] OTHER -> NoEffect(id.checkout)

\* The payment lookup and the guards of process_webhook_event's resolve_*.
ResolvePayment(id) ==
    CASE id.type \in ActivationEvents           -> resolve_activation(id)
      [] id.type = "payment.failed"             -> resolve_payment_failed(id)
      [] id.type \in LapseEvents                -> resolve_subscription_inactive(id)
      [] id.type \in RefundEvents               -> resolve_refund(id)
      [] id.type = "payment.dispute.created"    -> resolve_dispute_created(id)
      [] id.type \in ClosedEvents               -> resolve_dispute_closed(id)
      [] OTHER                                  -> NoEffect(id.checkout)

\* Mutant: revoked licenses count as well.
LiveLicenses_AnyStatus(c) == {l \in 1..Len(licenses) : licenses[l].subscription = c}

\* find_latest_by_subscription: the newest license not revoked; 0 if none.
LiveLicenses(c) ==
    {l \in 1..Len(licenses) : licenses[l].subscription = c
                              /\ licenses[l].status # "revoked"}
\* Mutant: only active licenses are found.
Latest_Active(c) ==
    LET found == {l \in LiveLicenses(c) : licenses[l].status = "active"}
    IN  IF found = {} THEN 0 ELSE CHOOSE l \in found : \A m \in found : m <= l
Latest(c) == IF LiveLicenses(c) = {} THEN 0
             ELSE CHOOSE l \in LiveLicenses(c) : \A m \in LiveLicenses(c) : m <= l

plan_period_end(c, t) == IF c \in Lifetime THEN Never ELSE t + 1

\* The subscription and license lookups that complete an effect at time t.
ResolveLicense(eff, t) ==
    LET c == eff.checkout
        l == Latest(c)
    IN  IF eff.license_status = "keep" THEN eff
        ELSE IF eff.subscription = "active"
        THEN [eff EXCEPT !.license = l, !.issue = (l = 0),
                         !.period_end = plan_period_end(c, t),
                         !.expires_at = plan_period_end(c, t)]
        ELSE [eff EXCEPT !.license = l,
                         !.period_end = subscriptions[c].current_period_end,
                         !.expires_at = IF l = 0 THEN Never
                                        ELSE licenses[l].expires_at]

-----------------------------------------------------------------------------
(***************************************************************************)
(* claim_and_apply: the ledger row first, then the effect's statements, in *)
(* one transaction.                                                        *)
(***************************************************************************)
\* Mutant: an UPDATE without its WHERE clause.
AppliedSubscriptions_EveryRow(eff) ==
    IF eff.subscription = "keep" THEN subscriptions
    ELSE [c \in Checkouts |-> [status |-> eff.subscription,
                               current_period_end |-> eff.period_end]]

AppliedPayments(eff) ==
    IF eff.payment = "keep" THEN payments
    ELSE [payments EXCEPT ![eff.checkout] =
             [status |-> eff.payment,
              gateway_payment_id |-> IF eff.gateway_payment_id = NoCharge
                                     THEN @.gateway_payment_id
                                     ELSE eff.gateway_payment_id]]

AppliedSubscriptions(eff) ==
    IF eff.subscription = "keep" THEN subscriptions
    ELSE [subscriptions EXCEPT ![eff.checkout] =
             [status |-> eff.subscription, current_period_end |-> eff.period_end]]

AppliedLicenses(eff) ==
    IF eff.issue
    THEN Append(licenses, [subscription |-> eff.checkout, status |-> "active",
                           expires_at |-> eff.expires_at])
    ELSE IF eff.license = 0 THEN licenses
    ELSE [licenses EXCEPT ![eff.license] =
             [@ EXCEPT !.status = eff.license_status, !.expires_at = eff.expires_at]]

\* The UNIQUE index on payments.gateway_payment_id; breaking it is an error
\* that rolls the transaction back, claim included.
UniqueGatewayId(eff) ==
    eff.gateway_payment_id # NoCharge =>
        \A c \in Checkouts \ {eff.checkout} :
            payments[c].gateway_payment_id # eff.gateway_payment_id

claim_and_apply(id, eff) ==
    /\ id \notin webhook_events
    /\ UniqueGatewayId(eff)
    /\ eff.issue => Len(licenses) < MaxLicenses
    /\ webhook_events' = webhook_events \cup {id}
    /\ payments' = AppliedPayments(eff)
    /\ subscriptions' = AppliedSubscriptions(eff)
    /\ licenses' = AppliedLicenses(eff)

-----------------------------------------------------------------------------
(***************************************************************************)
(* create_checkout_session: three writes in three places, no transaction   *)
(* around them.  The checkout URL reaches the customer only at the end.    *)
(***************************************************************************)
InsertSubscription(c) ==
    /\ session[c] = "none"
    /\ session' = [session EXCEPT ![c] = "inserted"]
    /\ subscriptions' = [subscriptions EXCEPT
         ![c] = [status |-> "pending_payment", current_period_end |-> Never]]
    /\ UNCHANGED <<payments, licenses, webhook_events, gateway, now>>

CreateCheckout(c) ==
    /\ session[c] = "inserted"
    /\ session' = [session EXCEPT ![c] = "created"]
    /\ UNCHANGED <<db, gateway, now>>

InsertPayment(c) ==
    /\ session[c] = "created"
    /\ session' = [session EXCEPT ![c] = "open"]
    /\ payments' = [payments EXCEPT
         ![c] = [status |-> "pending", gateway_payment_id |-> NoCharge]]
    /\ UNCHANGED <<subscriptions, licenses, webhook_events, gateway, now>>

\* The gateway call or the payment INSERT fails: earlier writes stay.
CheckoutFails(c) ==
    /\ session[c] \in {"inserted", "created"}
    /\ session' = [session EXCEPT ![c] = "failed"]
    /\ UNCHANGED <<db, gateway, now>>

Checkout == \E c \in Checkouts :
    InsertSubscription(c) \/ CreateCheckout(c) \/ InsertPayment(c) \/ CheckoutFails(c)

-----------------------------------------------------------------------------
(***************************************************************************)
(* The gateway (external) and the clock.  A payment link is paid once; a   *)
(* subscription is charged until it is cancelled.  Disputes and lapses     *)
(* show only in their events, so they happen only if EventTypes has them.  *)
(***************************************************************************)
CanCharge(c) ==
    /\ session[c] = "open"
    /\ IF c \in Recurring THEN "subscription.cancelled" \notin lapses[c]
       ELSE \A ch \in Charges : charges[ch].checkout = c => ~Captured(ch)

Charge(ch, c, status, amount_ok) ==
    /\ charges[ch].status = "none" /\ CanCharge(c)
    /\ charges' = [charges EXCEPT ![ch] =
         [checkout |-> c, status |-> status, amount_ok |-> amount_ok,
          dispute |-> "none"]]
    /\ UNCHANGED lapses

Refund(ch) ==
    /\ charges[ch].status = "captured"
    /\ charges' = [charges EXCEPT ![ch].status = "refunded"]
    /\ UNCHANGED lapses

Dispute(ch) ==
    /\ "payment.dispute.created" \in EventTypes
    /\ \/ /\ charges[ch].status = "captured" /\ charges[ch].dispute = "none"
          /\ charges' = [charges EXCEPT ![ch].dispute = "open"]
       \/ /\ charges[ch].dispute = "open"
          /\ \E outcome \in {"won", "lost"} :
               charges' = [charges EXCEPT ![ch].dispute = outcome]
    /\ UNCHANGED lapses

Lapse(c) ==
    /\ session[c] = "open"
    /\ \E t \in LapseEvents \cap EventTypes : lapses' = [lapses EXCEPT ![c] = @ \cup {t}]
    /\ UNCHANGED charges

Gateway ==
    /\ \/ \E ch \in Charges, c \in Checkouts :
            \/ Charge(ch, c, "failed", TRUE)
            \/ \E ok \in BOOLEAN : Charge(ch, c, "captured", ok)
       \/ \E ch \in Charges : Refund(ch) \/ Dispute(ch)
       \/ \E c \in Recurring : Lapse(c)
    /\ UNCHANGED <<session, db, now>>

Tick == now < MaxNow /\ now' = now + 1 /\ UNCHANGED <<session, db, gateway>>

StoreInit ==
    /\ session = [c \in Checkouts |-> "none"]
    /\ subscriptions = [c \in Checkouts |->
                          [status |-> "absent", current_period_end |-> Never]]
    /\ payments = [c \in Checkouts |->
                          [status |-> "absent", gateway_payment_id |-> NoCharge]]
    /\ licenses = <<>>
    /\ webhook_events = {}
    /\ charges = [ch \in Charges |-> [checkout |-> NoCharge, status |-> "none",
                                      amount_ok |-> TRUE, dispute |-> "none"]]
    /\ lapses = [c \in Checkouts |-> {}]
    /\ now = 0

Environment == Checkout \/ Gateway \/ Tick

\* The tables hold rows of their declared columns.
StoreTypeOK ==
    /\ session \in [Checkouts -> {"none", "inserted", "created", "open", "failed"}]
    /\ subscriptions \in [Checkouts -> [status: SubscriptionStatus \cup {"absent"},
                                        current_period_end: Expiry]]
    /\ payments \in [Checkouts -> [status: PaymentStatus \cup {"absent"},
                                   gateway_payment_id: Charges \cup {NoCharge}]]
    /\ licenses \in Seq([subscription: Checkouts, status: LicenseStatus,
                         expires_at: Expiry])
    /\ webhook_events \in SUBSET EventId
    /\ charges \in [Charges -> [checkout: Checkouts \cup {NoCharge},
                                status: {"none", "failed", "captured", "refunded"},
                                amount_ok: BOOLEAN,
                                dispute: {"none", "open", "won", "lost"}]]
    /\ lapses \in [Checkouts -> SUBSET LapseEvents]
    /\ now \in Int
=============================================================================
