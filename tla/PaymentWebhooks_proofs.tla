----------------------- MODULE PaymentWebhooks_proofs -----------------------
(***************************************************************************)
(* Theorems about PaymentWebhooks: for any number of webhook tasks first,  *)
(* then for one, and always for any checkouts, charges and event ids.      *)
(***************************************************************************)
EXTENDS PaymentWebhooks, SequenceTheorems, WellFoundedInduction, TLAPS

LicenseRow == [subscription: Checkouts, status: LicenseStatus, expires_at: Expiry]

(***************************************************************************)
(* find_latest_by_subscription returns one of the checkout's licenses.     *)
(***************************************************************************)
\* < is well-founded on Nat, as a set of pairs.
LEMMA LessThan == IsWellFoundedOn({ss \in Nat \X Nat : ss[1] < ss[2]}, Nat)
BY NatLessThanWellFounded DEF OpToRel

\* A nonempty set of positions of a sequence has a greatest element.
LEMMA HasGreatest ==
    ASSUME NEW n \in Nat, NEW S \in SUBSET (1..n), S # {}
    PROVE  \E l \in S : \A m \in S : m <= l
<1> DEFINE T == {n - l : l \in S}
           R == {ss \in Nat \X Nat : ss[1] < ss[2]}
<1>1. T \subseteq Nat /\ T # {}
  <2>1. \A l \in S : n - l \in Nat
    OBVIOUS
  <2>2. PICK l \in S : TRUE
    OBVIOUS
  <2> QED
    BY <2>1, <2>2, Zenon
<1>2. PICK x \in T : \A y \in T : ~(<<y, x>> \in R)
  <2> HIDE DEF T
  <2>1. IsWellFoundedOn(R, Nat)
    BY LessThan
  <2> HIDE DEF R
  <2> QED
    BY <1>1, <2>1, WFMin
<1>3. \A y \in T : ~(y < x)
  <2> HIDE DEF T
  <2> QED
    BY <1>1, <1>2
<1>4. PICK l \in S : x = n - l
  OBVIOUS
<1>5. ASSUME NEW m \in S PROVE m <= l
  <2>1. n - m \in T
    OBVIOUS
  <2>2. ~(n - m < n - l)
    BY <2>1, <1>3, <1>4
  <2> QED
    BY <2>2
<1> QED
  BY <1>5

\* Latest finds a license of the checkout, or none.
LEMMA LatestBelongs ==
    ASSUME NEW c \in Checkouts, licenses \in Seq(LicenseRow)
    PROVE  \/ Latest(c) = 0
           \/ Latest(c) \in 1..Len(licenses) /\ licenses[Latest(c)].subscription = c
<1>1. Len(licenses) \in Nat
  BY LenProperties
<1>2. LiveLicenses(c) \in SUBSET (1..Len(licenses))
  BY DEF LiveLicenses
<1>3. CASE LiveLicenses(c) # {}
  <2>1. \E l \in LiveLicenses(c) : \A m \in LiveLicenses(c) : m <= l
    BY <1>1, <1>2, <1>3, HasGreatest
  <2>2. Latest(c) \in LiveLicenses(c)
    BY <1>3, <2>1 DEF Latest
  <2> QED
    BY <2>2 DEF LiveLicenses
<1>4. CASE LiveLicenses(c) = {}
  BY <1>4 DEF Latest
<1> QED
  BY <1>3, <1>4

(***************************************************************************)
(* The effects that resolution produces.                                   *)
(***************************************************************************)
\* No effect is an effect.
LEMMA NoEffectType ==
    ASSUME NEW c \in Checkouts
    PROVE  NoEffect(c) \in Effect
BY StoreAssumption DEF NoEffect, Effect, Expiry

\* What the payment lookup resolves: no license yet, and a gateway id only for
\* the checkout whose charge the event names.
Resolved(id, eff) ==
    /\ eff \in Effect
    /\ eff.license = 0 /\ ~eff.issue
    /\ eff.gateway_payment_id # NoCharge =>
         /\ eff.gateway_payment_id = id.charge /\ eff.checkout = id.checkout
         /\ id.type \in ActivationEvents

LEMMA ActivationResolves ==
    ASSUME NEW id \in EventId, id.type \in ActivationEvents
    PROVE  Resolved(id, resolve_activation(id))
<1>1. id.checkout \in Checkouts /\ id.charge \in Charges \cup {NoCharge}
  BY DEF EventId
<1>2. NoEffect(id.checkout) \in Effect
  BY <1>1, NoEffectType
<1> QED
  BY <1>1, <1>2 DEF resolve_activation, Resolved, Effect, NoEffect, PaymentStatus,
     SubscriptionStatus, LicenseStatus

LEMMA FailureResolves ==
    ASSUME NEW id \in EventId
    PROVE  Resolved(id, resolve_payment_failed(id))
<1>1. id.checkout \in Checkouts
  BY DEF EventId
<1>2. NoEffect(id.checkout) \in Effect
  BY <1>1, NoEffectType
<1> QED
  BY <1>1, <1>2 DEF resolve_payment_failed, Resolved, Effect, NoEffect, PaymentStatus

LEMMA LapseResolves ==
    ASSUME NEW id \in EventId
    PROVE  Resolved(id, resolve_subscription_inactive(id))
<1>1. id.checkout \in Checkouts
  BY DEF EventId
<1>2. NoEffect(id.checkout) \in Effect
  BY <1>1, NoEffectType
<1> QED
  BY <1>1, <1>2 DEF resolve_subscription_inactive, Resolved, Effect, NoEffect,
     SubscriptionStatus, LicenseStatus

LEMMA SettlementResolves ==
    ASSUME NEW id \in EventId,
           NEW p \in PaymentStatus, NEW l \in LicenseStatus
    PROVE  Resolved(id, SettlePayment(id, p, l))
<1>1. id.checkout \in Checkouts
  BY DEF EventId
<1>2. CASE PaymentsOf(id.charge) = {}
  BY <1>1, <1>2, NoEffectType DEF SettlePayment, Resolved, NoEffect
<1>3. CASE PaymentsOf(id.charge) # {}
  <2> DEFINE c == CHOOSE c \in PaymentsOf(id.charge) : TRUE
  <2>1. c \in Checkouts
    BY <1>3 DEF PaymentsOf
  <2>2. NoEffect(c) \in Effect
    BY <2>1, NoEffectType
  <2>3. SettlePayment(id, p, l) = [NoEffect(c) EXCEPT !.payment = p, !.license_status = l]
    BY <1>3 DEF SettlePayment
  <2> HIDE DEF c
  <2> QED
    BY <2>1, <2>2, <2>3, ZenonT(60) DEF Resolved, Effect, NoEffect
<1> QED
  BY <1>2, <1>3

LEMMA PaymentResolves ==
    ASSUME NEW id \in EventId
    PROVE  Resolved(id, ResolvePayment(id))
<1>1. Resolved(id, NoEffect(id.checkout))
  BY NoEffectType DEF EventId, Resolved, NoEffect
<1>2. id.type \in ActivationEvents => Resolved(id, resolve_activation(id))
  BY ActivationResolves
<1>3. Resolved(id, resolve_payment_failed(id))
  BY FailureResolves
<1>4. Resolved(id, resolve_subscription_inactive(id))
  BY LapseResolves
<1>5. /\ Resolved(id, resolve_refund(id))
      /\ Resolved(id, resolve_dispute_created(id))
  BY SettlementResolves DEF resolve_refund, resolve_dispute_created, PaymentStatus,
     LicenseStatus
<1>6. Resolved(id, resolve_dispute_closed(id))
  BY <1>1, SettlementResolves DEF resolve_dispute_closed, PaymentStatus, LicenseStatus
<1> QED
  BY <1>1, <1>2, <1>3, <1>4, <1>5, <1>6, Zenon DEF ResolvePayment

\* The license lookup keeps the checkout and the gateway id, and finds a license
\* of that checkout.
LEMMA LicenseResolves ==
    ASSUME StoreTypeOK, NEW eff \in Effect, eff.license = 0, NEW t \in Int
    PROVE  LET res == ResolveLicense(eff, t)
           IN  /\ res \in Effect
               /\ res.checkout = eff.checkout
               /\ res.gateway_payment_id = eff.gateway_payment_id
               /\ res.license # 0 => /\ res.license \in 1..Len(licenses)
                                     /\ licenses[res.license].subscription = eff.checkout
                                     /\ res.license_status # "keep"
<1> DEFINE c == eff.checkout
           l == Latest(c)
<1>1. c \in Checkouts
  BY DEF Effect
<1>2. licenses \in Seq(LicenseRow)
  BY DEF StoreTypeOK, LicenseRow
<1>3. \/ l = 0
      \/ l \in 1..Len(licenses) /\ licenses[l].subscription = c
  BY <1>1, <1>2, LatestBelongs
<1> HIDE DEF l
<1>4. Len(licenses) \in Nat
  BY <1>2, LenProperties
<1>5. plan_period_end(c, t) \in Expiry
  BY DEF plan_period_end, Expiry
<1>6. subscriptions[c].current_period_end \in Expiry
  BY <1>1 DEF StoreTypeOK
<1>7. l # 0 => licenses[l].expires_at \in Expiry
  <2>1. l # 0 => licenses[l] \in LicenseRow
    BY <1>2, <1>3, ElementOfSeq
  <2> QED
    BY <2>1 DEF LicenseRow
<1>8. Never \in Expiry
  BY DEF Expiry
<1>9. l \in Nat
  BY <1>3, <1>4
<1>10. CASE eff.license_status = "keep"
  <2>1. ResolveLicense(eff, t) = eff
    BY <1>10 DEF ResolveLicense
  <2> QED
    BY <2>1
<1>11. CASE eff.license_status # "keep" /\ eff.subscription = "active"
  <2>1. ResolveLicense(eff, t) =
          [eff EXCEPT !.license = l, !.issue = (l = 0),
                      !.period_end = plan_period_end(c, t),
                      !.expires_at = plan_period_end(c, t)]
    BY <1>11 DEF ResolveLicense, l
  <2> QED
    BY <2>1, <1>3, <1>5, <1>9, <1>11 DEF Effect
<1>12. CASE eff.license_status # "keep" /\ eff.subscription # "active"
  <2>1. ResolveLicense(eff, t) =
          [eff EXCEPT !.license = l,
                      !.period_end = subscriptions[c].current_period_end,
                      !.expires_at = IF l = 0 THEN Never ELSE licenses[l].expires_at]
    BY <1>12 DEF ResolveLicense, l
  <2> QED
    BY <2>1, <1>3, <1>6, <1>7, <1>8, <1>9, <1>12 DEF Effect
<1> QED
  BY <1>10, <1>11, <1>12

-----------------------------------------------------------------------------
(***************************************************************************)
(* The inductive invariant.  The lookups that precede a transaction go     *)
(* stale, but what they found still belongs to the event's checkout when   *)
(* the transaction runs: licenses are never deleted or moved to another    *)
(* subscription, and a captured charge stays captured.                     *)
(***************************************************************************)
TaskOK(w) ==
    /\ w.stage # "resolved" => w.effect.license = 0
    /\ w.effect.license # 0 =>
         /\ w.effect.license \in 1..Len(licenses)
         /\ licenses[w.effect.license].subscription = w.effect.checkout
         /\ w.effect.license_status # "keep"
    /\ w.effect.gateway_payment_id # NoCharge =>
         /\ Captured(w.effect.gateway_payment_id)
         /\ charges[w.effect.gateway_payment_id].checkout = w.effect.checkout

TasksOK == \A h \in Handlers : handlers[h] # Idle => TaskOK(handlers[h])

IInv == TypeOK /\ TasksOK /\ GatewayIdBelongs

\* Idle is no task.
LEMMA IdleNoTask == Idle \notin Task
BY HandlersAssumption DEF Task

\* An activation event with a charge names a captured charge of its checkout.
LEMMA SentActivation ==
    ASSUME NEW id \in EventId, Sent(id), id.type \in ActivationEvents,
           id.charge # NoCharge
    PROVE  Captured(id.charge) /\ charges[id.charge].checkout = id.checkout
BY DEF Sent, ActivationEvents, LapseEvents, RefundEvents

\* The delivered event ids are event ids.
LEMMA DeliverableIds == Deliverable \subseteq EventId
BY StoreAssumption DEF Deliverable, EventId

-----------------------------------------------------------------------------
(***************************************************************************)
(* Steps outside the tasks.                                                *)
(***************************************************************************)
LEMMA CheckoutStep ==
    ASSUME StoreTypeOK, NEW c \in Checkouts,
           InsertSubscription(c) \/ CreateCheckout(c) \/ InsertPayment(c) \/ CheckoutFails(c)
    PROVE  /\ StoreTypeOK'
           /\ UNCHANGED <<licenses, webhook_events, charges>>
           /\ \A d \in Checkouts :
                payments'[d].gateway_payment_id \in {NoCharge, payments[d].gateway_payment_id}
<1>1. Never \in Expiry
  BY DEF Expiry
<1>2. CASE InsertSubscription(c)
  BY <1>1, <1>2 DEF InsertSubscription, StoreTypeOK, SubscriptionStatus, gateway, LicenseStatus,
     PaymentStatus
<1>3. CASE CreateCheckout(c)
  BY <1>3 DEF CreateCheckout, StoreTypeOK, gateway, db
<1>4. CASE InsertPayment(c)
  BY <1>4 DEF InsertPayment, StoreTypeOK, PaymentStatus, gateway
<1>5. CASE CheckoutFails(c)
  BY <1>5 DEF CheckoutFails, StoreTypeOK, gateway, db
<1> QED
  BY <1>2, <1>3, <1>4, <1>5

\* The gateway never takes a capture back or moves a charge.
LEMMA GatewayStep ==
    ASSUME StoreTypeOK, Gateway
    PROVE  /\ StoreTypeOK'
           /\ UNCHANGED db
           /\ \A ch \in Charges :
                Captured(ch) => Captured(ch)' /\ charges'[ch].checkout = charges[ch].checkout
<1> DEFINE Payment == [checkout: Checkouts \cup {NoCharge},
                       status: {"none", "failed", "captured", "refunded"},
                       amount_ok: BOOLEAN,
                       dispute: {"none", "open", "won", "lost"}]
<1>0. ASSUME NEW ch \in Charges, NEW r \in Payment,
             charges' = [charges EXCEPT ![ch] = r],
             Captured(ch) => /\ r.status \in {"captured", "refunded"}
                             /\ r.checkout = charges[ch].checkout,
             UNCHANGED <<session, db, lapses, now>>
      PROVE  /\ StoreTypeOK'
             /\ \A x \in Charges :
                  Captured(x) => Captured(x)' /\ charges'[x].checkout = charges[x].checkout
  <2>1. charges \in [Charges -> Payment]
    BY DEF StoreTypeOK
  <2>2. charges' \in [Charges -> Payment]
    BY <1>0, <2>1
  <2> HIDE DEF Payment
  <2>3. ASSUME NEW x \in Charges, Captured(x)
        PROVE  Captured(x)' /\ charges'[x].checkout = charges[x].checkout
    <3>1. CASE x = ch
      BY <3>1, <2>1, <2>3, <1>0 DEF Captured
    <3>2. CASE x # ch
      BY <3>2, <2>1, <2>3, <1>0 DEF Captured
    <3> QED
      BY <3>1, <3>2
  <2>4. UNCHANGED <<session, subscriptions, payments, licenses, webhook_events, lapses, now>>
    BY <1>0 DEF db
  <2>5. StoreTypeOK'
    BY <2>2, <2>4 DEF StoreTypeOK, Payment
  <2> QED
    BY <2>3, <2>5
<1>row. ASSUME NEW ch \in Charges
       PROVE  charges[ch] \in Payment
  BY DEF StoreTypeOK
<1>1. ASSUME NEW ch \in Charges, NEW c \in Checkouts,
             NEW status \in {"failed", "captured"}, NEW ok \in BOOLEAN,
             Charge(ch, c, status, ok), UNCHANGED <<session, db, now>>
      PROVE  /\ StoreTypeOK'
             /\ \A x \in Charges :
                  Captured(x) => Captured(x)' /\ charges'[x].checkout = charges[x].checkout
  <2> DEFINE r == [checkout |-> c, status |-> status, amount_ok |-> ok, dispute |-> "none"]
  <2>1. r \in Payment
    OBVIOUS
  <2>2. charges' = [charges EXCEPT ![ch] = r] /\ ~Captured(ch)
    BY <1>1 DEF Charge, Captured
  <2>3. UNCHANGED <<session, db, lapses, now>>
    BY <1>1 DEF Charge
  <2> HIDE DEF Payment, r
  <2> QED
    BY <1>0, <2>1, <2>2, <2>3
<1>2. ASSUME NEW ch \in Charges, Refund(ch), UNCHANGED <<session, db, now>>
      PROVE  /\ StoreTypeOK'
             /\ \A x \in Charges :
                  Captured(x) => Captured(x)' /\ charges'[x].checkout = charges[x].checkout
  <2> DEFINE r == [charges[ch] EXCEPT !.status = "refunded"]
  <2>1. /\ r \in Payment
        /\ r.status \in {"captured", "refunded"} /\ r.checkout = charges[ch].checkout
    BY <1>row
  <2>2. charges' = [charges EXCEPT ![ch] = r]
    BY <1>2 DEF Refund
  <2>3. UNCHANGED <<session, db, lapses, now>>
    BY <1>2 DEF Refund
  <2> HIDE DEF Payment, r
  <2> QED
    BY <1>0, <2>1, <2>2, <2>3
<1>3. ASSUME NEW ch \in Charges, Dispute(ch), UNCHANGED <<session, db, now>>
      PROVE  /\ StoreTypeOK'
             /\ \A x \in Charges :
                  Captured(x) => Captured(x)' /\ charges'[x].checkout = charges[x].checkout
  <2>1. PICK d \in {"open", "won", "lost"} : charges' = [charges EXCEPT ![ch].dispute = d]
    BY <1>3 DEF Dispute
  <2> DEFINE r == [charges[ch] EXCEPT !.dispute = d]
  <2>2. /\ r \in Payment
        /\ r.status = charges[ch].status /\ r.checkout = charges[ch].checkout
    BY <1>row
  <2>3. charges' = [charges EXCEPT ![ch] = r]
    BY <2>1
  <2>4. UNCHANGED <<session, db, lapses, now>>
    BY <1>3 DEF Dispute
  <2> HIDE DEF Payment, r
  <2> QED
    BY <1>0, <2>2, <2>3, <2>4 DEF Captured
<1>4. ASSUME NEW c \in Recurring, Lapse(c), UNCHANGED <<session, db, now>>
      PROVE  /\ StoreTypeOK'
             /\ \A x \in Charges :
                  Captured(x) => Captured(x)' /\ charges'[x].checkout = charges[x].checkout
  <2>1. c \in Checkouts /\ lapses \in [Checkouts -> SUBSET LapseEvents]
    BY StoreAssumption DEF StoreTypeOK
  <2>2. PICK t \in LapseEvents : lapses' = [lapses EXCEPT ![c] = @ \cup {t}]
    BY <1>4 DEF Lapse
  <2>3. lapses[c] \cup {t} \in SUBSET LapseEvents
    BY <2>1
  <2>4. lapses' \in [Checkouts -> SUBSET LapseEvents]
    BY <2>1, <2>2, <2>3
  <2>5. UNCHANGED <<session, db, charges, now>>
    BY <1>4 DEF Lapse
  <2> QED
    BY <2>4, <2>5 DEF StoreTypeOK, Captured, db
<1> QED
  BY <1>1, <1>2, <1>3, <1>4 DEF Gateway

-----------------------------------------------------------------------------
(***************************************************************************)
(* Steps of a task.                                                        *)
(***************************************************************************)
LEMMA ReceiveStep ==
    ASSUME IInv, NEW h \in Handlers, NEW id \in EventId, Receive(h, id)
    PROVE  IInv'
<1> DEFINE w == [id |-> id, effect |-> ResolvePayment(id), stage |-> "payment"]
<1>1. Resolved(id, ResolvePayment(id))
  BY PaymentResolves
<1>2. w \in Task
  BY <1>1 DEF Task, Resolved
<1>3. handlers' = [handlers EXCEPT ![h] = w] /\ UNCHANGED <<store, faults>>
  BY DEF Receive
<1>4. TaskOK(w)
  <2>1. w.effect = ResolvePayment(id)
    OBVIOUS
  <2>2. w.effect.gateway_payment_id # NoCharge =>
          /\ Captured(w.effect.gateway_payment_id)
          /\ charges[w.effect.gateway_payment_id].checkout = w.effect.checkout
    BY <1>1, <2>1, SentActivation DEF Resolved, Receive
  <2> QED
    BY <1>1, <2>1, <2>2 DEF Resolved, TaskOK
<1> HIDE DEF w
<1>5. TypeOK'
  BY <1>2, <1>3 DEF IInv, TypeOK, StoreTypeOK, store, db, gateway
<1>6. TasksOK'
  BY <1>2, <1>3, <1>4 DEF IInv, TypeOK, TasksOK, TaskOK, Captured, store, db, gateway
<1>7. GatewayIdBelongs'
  BY <1>3 DEF IInv, GatewayIdBelongs, Atomic!GatewayIdBelongs, Atomic!Captured, store, db, gateway
<1> QED
  BY <1>5, <1>6, <1>7 DEF IInv

LEMMA ReadLicenseStep ==
    ASSUME IInv, NEW h \in Handlers, ReadLicense(h)
    PROVE  IInv'
<1> DEFINE res == ResolveLicense(handlers[h].effect, now)
           w == [handlers[h] EXCEPT !.effect = res, !.stage = "resolved"]
<1>1. /\ handlers[h] \in Task /\ handlers[h].stage = "payment" /\ TaskOK(handlers[h])
      /\ handlers[h].effect \in Effect
  BY DEF ReadLicense, IInv, TypeOK, TasksOK, Task
<1>2. /\ res \in Effect /\ res.checkout = handlers[h].effect.checkout
      /\ res.gateway_payment_id = handlers[h].effect.gateway_payment_id
      /\ res.license # 0 => /\ res.license \in 1..Len(licenses)
                            /\ licenses[res.license].subscription = handlers[h].effect.checkout
                            /\ res.license_status # "keep"
  <2>1. StoreTypeOK /\ now \in Int
    BY DEF IInv, TypeOK, StoreTypeOK
  <2>2. handlers[h].effect.license = 0
    BY <1>1 DEF TaskOK
  <2> QED
    BY <1>1, <2>1, <2>2, LicenseResolves
<1>3. handlers' = [handlers EXCEPT ![h] = w] /\ UNCHANGED <<store, faults>>
  BY DEF ReadLicense
<1> HIDE DEF res
<1>4. w \in Task
  BY <1>1, <1>2 DEF Task
<1>5. TaskOK(w)
  <2>1. w.effect = res /\ w.stage = "resolved"
    BY <1>1 DEF Task
  <2> QED
    BY <1>1, <1>2, <2>1 DEF TaskOK
<1> HIDE DEF w
<1>6. TypeOK'
  BY <1>3, <1>4 DEF IInv, TypeOK, StoreTypeOK, store, db, gateway
<1>7. TasksOK'
  BY <1>3, <1>5 DEF IInv, TypeOK, TasksOK, TaskOK, Captured, store, db, gateway
<1>8. GatewayIdBelongs'
  BY <1>3 DEF IInv, GatewayIdBelongs, Atomic!GatewayIdBelongs, Atomic!Captured, store, db, gateway
<1> QED
  BY <1>6, <1>7, <1>8 DEF IInv

\* A task that ends without a claim, or fails, leaves the rows as they are.
LEMMA EndStep ==
    ASSUME IInv, NEW h \in Handlers, UNCHANGED store,
           handlers' = [handlers EXCEPT ![h] = Idle],
           faults' \in Nat
    PROVE  IInv'
<1>1. TypeOK'
  BY DEF IInv, TypeOK, StoreTypeOK, store, db, gateway
<1>2. TasksOK'
  BY DEF IInv, TypeOK, TasksOK, TaskOK, Captured, store, db, gateway
<1>3. GatewayIdBelongs'
  BY DEF IInv, GatewayIdBelongs, Atomic!GatewayIdBelongs, Atomic!Captured, store, db, gateway
<1> QED
  BY <1>1, <1>2, <1>3 DEF IInv

\* What the effect's statements leave in the tables.
LEMMA Applied ==
    ASSUME StoreTypeOK, NEW eff \in Effect,
           eff.license # 0 => /\ eff.license \in 1..Len(licenses)
                              /\ licenses[eff.license].subscription = eff.checkout
    PROVE  /\ AppliedPayments(eff) \in [Checkouts -> [status: PaymentStatus \cup {"absent"},
                                          gateway_payment_id: Charges \cup {NoCharge}]]
           /\ AppliedSubscriptions(eff) \in [Checkouts ->
                 [status: SubscriptionStatus \cup {"absent"}, current_period_end: Expiry]]
           /\ \A c \in Checkouts :
                /\ AppliedPayments(eff)[c].gateway_payment_id
                     \in {payments[c].gateway_payment_id} \cup
                         (IF c = eff.checkout THEN {eff.gateway_payment_id} ELSE {})
                /\ c # eff.checkout => /\ AppliedPayments(eff)[c] = payments[c]
                                       /\ AppliedSubscriptions(eff)[c] = subscriptions[c]
<1>1. eff.checkout \in Checkouts
  BY DEF Effect
<1>2. CASE eff.payment = "keep"
  BY <1>1, <1>2 DEF AppliedPayments, AppliedSubscriptions, StoreTypeOK, Effect
<1>3. CASE eff.payment # "keep"
  BY <1>1, <1>3 DEF AppliedPayments, AppliedSubscriptions, StoreTypeOK, Effect
<1> QED
  BY <1>2, <1>3

\* Licenses are only appended, or changed in place for the effect's checkout.
LEMMA AppliedToLicenses ==
    ASSUME licenses \in Seq(LicenseRow), NEW eff \in Effect, 
           eff.license # 0 => /\ eff.license \in 1..Len(licenses)
                              /\ licenses[eff.license].subscription = eff.checkout,
           eff.license # 0 => eff.license_status # "keep"
    PROVE  /\ AppliedLicenses(eff) \in Seq(LicenseRow)
           /\ Len(AppliedLicenses(eff)) \in Nat
           /\ Len(licenses) <= Len(AppliedLicenses(eff))
           /\ \A l \in 1..Len(licenses) :
                /\ AppliedLicenses(eff)[l].subscription = licenses[l].subscription
                /\ \/ AppliedLicenses(eff)[l] = licenses[l]
                   \/ licenses[l].subscription = eff.checkout
           /\ \A l \in 1..Len(AppliedLicenses(eff)) :
                l > Len(licenses) => AppliedLicenses(eff)[l].subscription = eff.checkout
<1>1. Len(licenses) \in Nat
  BY LenProperties
<1>2. \A l \in 1..Len(licenses) : licenses[l] \in LicenseRow
  BY ElementOfSeq
<1>3. CASE eff.issue
  <2> DEFINE row == [subscription |-> eff.checkout, status |-> "active",
                     expires_at |-> eff.expires_at]
  <2>1. row \in LicenseRow
    BY DEF LicenseRow, Effect, LicenseStatus
  <2>2. AppliedLicenses(eff) = Append(licenses, row)
    BY <1>3 DEF AppliedLicenses
  <2>3. row.subscription = eff.checkout
    OBVIOUS
  <2> HIDE DEF row
  <2>4. /\ Append(licenses, row) \in Seq(LicenseRow)
        /\ Len(Append(licenses, row)) = Len(licenses) + 1
        /\ \A l \in 1..Len(licenses) : Append(licenses, row)[l] = licenses[l]
        /\ Append(licenses, row)[Len(licenses) + 1] = row
    BY <2>1, AppendProperties
  <2> QED
    BY <1>1, <2>2, <2>3, <2>4
<1>4. CASE ~eff.issue /\ eff.license = 0
  BY <1>1, <1>4 DEF AppliedLicenses
<1>5. CASE ~eff.issue /\ eff.license # 0
  <2> DEFINE row == [licenses[eff.license] EXCEPT !.status = eff.license_status,
                                                  !.expires_at = eff.expires_at]
  <2>1. AppliedLicenses(eff) = [licenses EXCEPT ![eff.license] = row]
    BY <1>5 DEF AppliedLicenses
  <2>2. row \in LicenseRow /\ row.subscription = eff.checkout
    BY <1>2, <1>5 DEF LicenseRow, Effect
  <2> HIDE DEF row
  <2>3. /\ [licenses EXCEPT ![eff.license] = row] \in Seq(LicenseRow)
        /\ Len([licenses EXCEPT ![eff.license] = row]) = Len(licenses)
    BY <1>5, <2>2, ExceptSeq
  <2>4. \A l \in 1..Len(licenses) :
          [licenses EXCEPT ![eff.license] = row][l] =
            IF l = eff.license THEN row ELSE licenses[l]
    BY <1>5, <2>2, ExceptSeq
  <2> QED
    BY <1>1, <1>5, <2>1, <2>2, <2>3, <2>4
<1> QED
  BY <1>3, <1>4, <1>5 DEF Effect

\* The transaction: the one step in which a task changes the tables.
LEMMA ClaimStep ==
    ASSUME IInv, NEW h \in Handlers, Claim(h)
    PROVE  /\ IInv'
           /\ webhook_events' = webhook_events \cup {handlers[h].id}
           /\ handlers[h].id \in EventId \ webhook_events
           /\ \A c \in Checkouts : c # handlers[h].effect.checkout =>
                payments'[c] = payments[c] /\ subscriptions'[c] = subscriptions[c]
           /\ \A l \in 1..Len(licenses') :
                \/ licenses'[l].subscription = handlers[h].effect.checkout
                \/ l <= Len(licenses) /\ licenses'[l] = licenses[l]
<1> DEFINE eff == handlers[h].effect
           id == handlers[h].id
<1>1. eff \in Effect /\ id \in EventId /\ TaskOK(handlers[h])
  BY DEF Claim, IInv, TypeOK, TasksOK, Task
<1>2. /\ webhook_events' = webhook_events \cup {id}
      /\ id \notin webhook_events
      /\ payments' = AppliedPayments(eff)
      /\ subscriptions' = AppliedSubscriptions(eff)
      /\ licenses' = AppliedLicenses(eff)
      /\ handlers' = [handlers EXCEPT ![h] = Idle]
      /\ UNCHANGED <<session, charges, lapses, now, faults>>
  BY DEF Claim, claim_and_apply, gateway
<1>3. StoreTypeOK /\ licenses \in Seq(LicenseRow)
  BY DEF IInv, TypeOK, StoreTypeOK, LicenseRow
<1>4. eff.license # 0 => /\ eff.license \in 1..Len(licenses)
                         /\ licenses[eff.license].subscription = eff.checkout
                         /\ eff.license_status # "keep"
  BY <1>1 DEF TaskOK
<1>5. eff.gateway_payment_id # NoCharge =>
         /\ Captured(eff.gateway_payment_id)
         /\ charges[eff.gateway_payment_id].checkout = eff.checkout
  BY <1>1 DEF TaskOK
<1> HIDE DEF eff, id
<1>6. /\ payments' \in [Checkouts -> [status: PaymentStatus \cup {"absent"},
                                      gateway_payment_id: Charges \cup {NoCharge}]]
      /\ subscriptions' \in [Checkouts ->
            [status: SubscriptionStatus \cup {"absent"}, current_period_end: Expiry]]
      /\ \A c \in Checkouts :
           /\ payments'[c].gateway_payment_id
                \in {payments[c].gateway_payment_id} \cup
                    (IF c = eff.checkout THEN {eff.gateway_payment_id} ELSE {})
           /\ c # eff.checkout => /\ payments'[c] = payments[c]
                                  /\ subscriptions'[c] = subscriptions[c]
  BY <1>1, <1>2, <1>3, <1>4, Applied
<1>7. /\ licenses' \in Seq(LicenseRow)
      /\ Len(licenses') \in Nat
      /\ Len(licenses) <= Len(licenses')
      /\ \A l \in 1..Len(licenses) :
           /\ licenses'[l].subscription = licenses[l].subscription
           /\ licenses'[l] = licenses[l] \/ licenses[l].subscription = eff.checkout
      /\ \A l \in 1..Len(licenses') :
           l > Len(licenses) => licenses'[l].subscription = eff.checkout
  BY <1>1, <1>2, <1>3, <1>4, AppliedToLicenses
<1>8. Len(licenses) \in Nat
  BY <1>3, LenProperties
<1>9. TypeOK'
  <2>1. StoreTypeOK'
    BY <1>1, <1>2, <1>3, <1>6, <1>7 DEF StoreTypeOK, LicenseRow
  <2> QED
    BY <1>2, <2>1 DEF IInv, TypeOK
<1>10. TasksOK'
  <2> SUFFICES ASSUME NEW g \in Handlers, handlers'[g] # Idle
               PROVE  TaskOK(handlers[g])'
    BY DEF TasksOK
  <2>1. handlers'[g] = handlers[g] /\ handlers[g] # Idle
    BY <1>2 DEF IInv, TypeOK
  <2>2. TaskOK(handlers[g])
    BY <2>1 DEF IInv, TasksOK
  <2> QED
    BY <1>2, <1>7, <1>8, <2>1, <2>2 DEF TaskOK, Captured
<1>11. GatewayIdBelongs'
  BY <1>2, <1>3, <1>5, <1>6 DEF IInv, GatewayIdBelongs, Atomic!GatewayIdBelongs,
     Atomic!Captured, Captured, StoreTypeOK
<1>12. \A l \in 1..Len(licenses') :
         \/ licenses'[l].subscription = eff.checkout
         \/ l <= Len(licenses) /\ licenses'[l] = licenses[l]
  BY <1>7, <1>8
<1> QED
  BY <1>1, <1>2, <1>6, <1>9, <1>10, <1>11, <1>12 DEF IInv, eff, id

-----------------------------------------------------------------------------
LEMMA InitIInv == Init => IInv
<1> SUFFICES ASSUME Init PROVE IInv
  OBVIOUS
<1>1. licenses \in Seq(LicenseRow)
  BY EmptySeq DEF Init, StoreInit
<1>2. Never \in Expiry
  BY DEF Expiry
<1>3. StoreTypeOK
  BY <1>1, <1>2 DEF Init, StoreInit, StoreTypeOK, LicenseRow
<1>4. TypeOK
  BY <1>3 DEF Init, TypeOK
<1>5. TasksOK
  BY DEF Init, TasksOK
<1>6. GatewayIdBelongs
  BY DEF Init, StoreInit, GatewayIdBelongs, Atomic!GatewayIdBelongs
<1> QED
  BY <1>4, <1>5, <1>6 DEF IInv

LEMMA OutsideStep ==
    ASSUME IInv, Outside
    PROVE  IInv' /\ UNCHANGED <<licenses, webhook_events>>
<1>1. StoreTypeOK /\ UNCHANGED <<handlers, faults>>
  BY DEF IInv, TypeOK, Outside
<1>2. SUFFICES /\ StoreTypeOK' /\ UNCHANGED <<licenses, webhook_events>>
               /\ \A ch \in Charges : Captured(ch) =>
                    Captured(ch)' /\ charges'[ch].checkout = charges[ch].checkout
               /\ \A d \in Checkouts : payments'[d].gateway_payment_id
                                         \in {NoCharge, payments[d].gateway_payment_id}
  <2>1. TypeOK'
    BY <1>1, <1>2 DEF IInv, TypeOK
  <2>2. TasksOK'
    BY <1>1, <1>2 DEF IInv, TypeOK, TasksOK, TaskOK, Task, Effect
  <2>3. GatewayIdBelongs'
    BY <1>1, <1>2 DEF IInv, GatewayIdBelongs, Atomic!GatewayIdBelongs, Atomic!Captured,
       Captured, StoreTypeOK
  <2> QED
    BY <1>2, <2>1, <2>2, <2>3 DEF IInv
<1>3. CASE Checkout
  BY <1>1, <1>3, CheckoutStep DEF Checkout, Captured
<1>4. CASE Gateway
  BY <1>1, <1>4, GatewayStep DEF db
<1>5. CASE Tick
  BY <1>1, <1>5 DEF Tick, StoreTypeOK, Captured, db, gateway
<1> QED
  BY <1>3, <1>4, <1>5 DEF Outside, Environment

LEMMA StepIInv == IInv /\ [Next]_vars => IInv'
<1> SUFFICES ASSUME IInv, [Next]_vars PROVE IInv'
  OBVIOUS
<1>1. CASE Outside
  BY <1>1, OutsideStep
<1>2. ASSUME NEW h \in Handlers, NEW id \in Deliverable, Receive(h, id) PROVE IInv'
  BY <1>2, ReceiveStep, DeliverableIds
<1>3. ASSUME NEW h \in Handlers, ReadLicense(h) PROVE IInv'
  BY <1>3, ReadLicenseStep
<1>4. ASSUME NEW h \in Handlers, Claim(h) PROVE IInv'
  BY <1>4, ClaimStep
<1>5. ASSUME NEW h \in Handlers, ClaimLost(h) PROVE IInv'
  <2>1. faults' \in Nat
    BY <1>5 DEF ClaimLost, IInv, TypeOK
  <2> QED
    BY <1>5, <2>1, EndStep DEF ClaimLost
<1>6. ASSUME NEW h \in Handlers, Fail(h) PROVE IInv'
  <2>1. faults' \in Nat
    BY <1>6 DEF Fail, IInv, TypeOK
  <2> QED
    BY <1>6, <2>1, EndStep DEF Fail
<1>7. CASE UNCHANGED vars
  <2>1. TypeOK'
    BY <1>7 DEF IInv, TypeOK, StoreTypeOK, vars, store, db, gateway
  <2>2. TasksOK'
    BY <1>7 DEF IInv, TypeOK, TasksOK, TaskOK, Captured, vars, store, db, gateway
  <2>3. GatewayIdBelongs'
    BY <1>7 DEF IInv, GatewayIdBelongs, Atomic!GatewayIdBelongs, Atomic!Captured,
       vars, store, db, gateway
  <2> QED
    BY <2>1, <2>2, <2>3 DEF IInv
<1> QED
  BY <1>1, <1>2, <1>3, <1>4, <1>5, <1>6, <1>7 DEF Next, Work

\* The inductive invariant holds in every reachable state.
THEOREM Inductive == Spec => []IInv
BY InitIInv, StepIInv, PTL DEF Spec

-----------------------------------------------------------------------------
\* The tables hold rows of their columns' types and the tasks hold effects the
\* server can have resolved.
THEOREM Types == Spec => []TypeOK
<1>1. IInv => TypeOK
  BY DEF IInv
<1> QED
  BY <1>1, Inductive, PTL

\* payments.gateway_payment_id always names a captured charge of the payment's
\* own checkout, with any number of concurrent tasks: a refund or a dispute
\* settles the payment it is about.
THEOREM GatewayIds == Spec => []GatewayIdBelongs
<1>1. IInv => GatewayIdBelongs
  BY DEF IInv
<1> QED
  BY <1>1, Inductive, PTL

\* An event id takes effect at most once, with any number of concurrent tasks,
\* redeliveries and failures.
THEOREM EffectOnce == Spec => EffectOnlyWithClaim
<1> DEFINE A == /\ webhook_events \subseteq webhook_events'
                /\ <<payments, subscriptions, licenses>>'
                       # <<payments, subscriptions, licenses>>
                     => \/ session' # session
                        \/ \E id \in EventId \ webhook_events :
                             webhook_events' = webhook_events \cup {id}
<1>1. IInv /\ [Next]_vars => [A]_vars
  <2> SUFFICES ASSUME IInv, [Next]_vars PROVE [A]_vars
    OBVIOUS
  <2>1. CASE Outside
    <3>1. UNCHANGED <<licenses, webhook_events>>
      BY <2>1, OutsideStep
    <3>2. UNCHANGED <<payments, subscriptions>> \/ session' # session
      BY <2>1 DEF Outside, Environment, Checkout, InsertSubscription, CreateCheckout,
         InsertPayment, CheckoutFails, Gateway, Tick, IInv, TypeOK, StoreTypeOK, db
    <3> QED
      BY <3>1, <3>2
  <2>2. ASSUME NEW h \in Handlers, Claim(h) PROVE A
    BY <2>2, ClaimStep
  <2>3. ASSUME NEW h \in Handlers,
               \/ \E id \in Deliverable : Receive(h, id)
               \/ ReadLicense(h) \/ ClaimLost(h) \/ Fail(h)
        PROVE  A
    BY <2>3 DEF Receive, ReadLicense, ClaimLost, Fail, store, db
  <2> QED
    BY <2>1, <2>2, <2>3 DEF Next, Work
<1> QED
  BY <1>1, Inductive, PTL DEF Spec, EffectOnlyWithClaim

\* A step never changes the rows of two checkouts: what a task found before
\* its transaction still belongs to its event's checkout when it is applied.
THEOREM OneCheckout == Spec => OneCheckoutPerStep
<1> DEFINE Changed(c) == payments'[c] # payments[c] \/ subscriptions'[c] # subscriptions[c]
           Relicensed(c) == \E l \in 1..Len(licenses') :
                              /\ licenses'[l].subscription = c
                              /\ l > Len(licenses) \/ licenses'[l] # licenses[l]
           A == \A c, d \in Checkouts :
                  /\ payments'[c] # payments[c] \/ subscriptions'[c] # subscriptions[c]
                  /\ \/ payments'[d] # payments[d] \/ subscriptions'[d] # subscriptions[d]
                     \/ \E l \in 1..Len(licenses') :
                          /\ licenses'[l].subscription = d
                          /\ l > Len(licenses) \/ licenses'[l] # licenses[l]
                  => c = d
<1>1. IInv /\ [Next]_vars => [A]_vars
  <2> SUFFICES ASSUME IInv, [Next]_vars, NEW c \in Checkouts, NEW d \in Checkouts,
                      Changed(c), Changed(d) \/ Relicensed(d)
               PROVE  c = d
    OBVIOUS
  <2>1. Len(licenses) \in Nat
    BY LenProperties DEF IInv, TypeOK, StoreTypeOK
  <2>2. CASE Outside
    <3>1. UNCHANGED licenses
      BY <2>2, OutsideStep
    <3>2. ~Relicensed(d)
      BY <2>1, <3>1
    <3>3. PICK x \in Checkouts : InsertSubscription(x) \/ InsertPayment(x)
      BY <2>2 DEF Outside, Environment, Checkout, CreateCheckout, CheckoutFails, Gateway,
         Tick, db
    <3>4. \A y \in Checkouts : Changed(y) => y = x
      BY <3>3 DEF InsertSubscription, InsertPayment, IInv, TypeOK, StoreTypeOK
    <3> QED
      BY <3>2, <3>4
  <2>3. ASSUME NEW h \in Handlers, Claim(h) PROVE c = d
    <3>1. /\ \A x \in Checkouts : Changed(x) => x = handlers[h].effect.checkout
          /\ Relicensed(d) => d = handlers[h].effect.checkout
      BY <2>1, <2>3, ClaimStep
    <3> QED
      BY <3>1
  <2>4. CASE UNCHANGED <<payments, subscriptions>>
    BY <2>4
  <2>5. ASSUME NEW h \in Handlers,
               \/ \E id \in Deliverable : Receive(h, id)
               \/ ReadLicense(h) \/ ClaimLost(h) \/ Fail(h)
        PROVE  UNCHANGED <<payments, subscriptions>>
    BY <2>5 DEF Receive, ReadLicense, ClaimLost, Fail, store, db
  <2> QED
    BY <2>2, <2>3, <2>4, <2>5 DEF Next, Work, vars, store, db
<1> QED
  BY <1>1, Inductive, PTL DEF Spec, OneCheckoutPerStep
-----------------------------------------------------------------------------
(***************************************************************************)
(* A server that handles one event at a time, Handlers = {h}.  The store's *)
(* invariant StoreInv is kept by every transaction whose lookups are of    *)
(* the moment it commits; SerialInv says that the one task's are.          *)
(***************************************************************************)
(***************************************************************************)
(* A checkout's rows and its gateway objects appear in the order           *)
(* create_checkout_session makes them: the gateway charges, disputes and   *)
(* lapses only what was opened, and only an open checkout has a payment.   *)
(***************************************************************************)
ChargeOpened(ch) ==
    /\ charges[ch].status # "none" =>
         /\ charges[ch].checkout \in Checkouts
         /\ session[charges[ch].checkout] = "open"
    /\ charges[ch].dispute # "none" => charges[ch].status # "none"

CheckoutOpened(c) ==
    /\ payments[c].status # "absent" <=> session[c] = "open"
    /\ payments[c].status = "absent" => payments[c].gateway_payment_id = NoCharge
    /\ lapses[c] # {} => session[c] = "open"

Opened ==
    /\ \A ch \in Charges : ChargeOpened(ch)
    /\ \A c \in Checkouts : CheckoutOpened(c)

\* The event ids the gateway may send, in any state.
EventOfGateway == [type: EventTypes, checkout: Checkouts,
                   charge: Charges \cup {NoCharge}, attempt: 1..Attempts]

\* What handling an event does when nothing comes between: the effect resolved
\* from the rows as they are, its period counted from time t.
Outcome(id, t) == ResolveLicense(ResolvePayment(id), t)

\* An event was sent about a checkout that is open.
LEMMA SentOpened ==
    ASSUME StoreTypeOK, Opened, NEW id \in EventId, Sent(id)
    PROVE  session[id.checkout] = "open" /\ payments[id.checkout].status # "absent"
<1>1. id.checkout \in Checkouts
  BY DEF EventId
<1>2. ASSUME NEW ch \in Charges, charges[ch].checkout = id.checkout,
             charges[ch].status # "none" \/ charges[ch].dispute # "none"
      PROVE  session[id.checkout] = "open"
  BY <1>2 DEF Opened, ChargeOpened
<1>3. session[id.checkout] = "open"
  <2>1. CASE id.type \in LapseEvents /\ id.type \in lapses[id.checkout]
    BY <1>1, <2>1 DEF Opened, CheckoutOpened
  <2>2. CASE \E ch \in Charges : charges[ch].checkout = id.checkout
                                   /\ (charges[ch].status # "none" \/ charges[ch].dispute # "none")
    BY <1>2, <2>2
  <2> QED
    BY <2>1, <2>2 DEF Sent, Captured
<1> QED
  BY <1>1, <1>3 DEF Opened, CheckoutOpened

-----------------------------------------------------------------------------
(***************************************************************************)
(* Steps outside the tasks leave what a sent event implies as it is.       *)
(***************************************************************************)
\* What the gateway does to a charge that is not new.
LEMMA ChargeMoves ==
    ASSUME StoreTypeOK, Opened, Gateway, NEW ch \in Charges
    PROVE  /\ ChargeOpened(ch)'
           /\ charges[ch].status # "none" =>
                /\ charges'[ch].checkout = charges[ch].checkout
                /\ charges'[ch].amount_ok = charges[ch].amount_ok
                /\ Captured(ch) => Captured(ch)'
                /\ charges[ch].status \in {"failed", "refunded"} =>
                     charges'[ch].status = charges[ch].status
                /\ charges[ch].dispute # "none" => charges'[ch].dispute # "none"
                /\ charges[ch].dispute \in {"won", "lost"} =>
                     charges'[ch].dispute = charges[ch].dispute
<1>1. ChargeOpened(ch) /\ UNCHANGED session
  BY DEF Opened, Gateway
<1>2. ASSUME NEW x \in Charges, NEW c \in Checkouts,
             NEW status \in {"failed", "captured"}, NEW ok \in BOOLEAN, Charge(x, c, status, ok)
      PROVE  /\ charges[ch].status # "none" => charges'[ch] = charges[ch]
             /\ charges[ch].status = "none" =>
                  \/ charges'[ch] = charges[ch]
                  \/ /\ charges'[ch].checkout = c /\ session[c] = "open"
                     /\ charges'[ch].status # "none"
  BY <1>2 DEF Charge, CanCharge, StoreTypeOK
<1>3. ASSUME NEW x \in Charges, Refund(x)
      PROVE  \/ charges'[ch] = charges[ch]
             \/ /\ charges[ch].status = "captured"
                /\ charges'[ch] = [charges[ch] EXCEPT !.status = "refunded"]
  BY <1>3 DEF Refund, StoreTypeOK
<1>4. ASSUME NEW x \in Charges, Dispute(x)
      PROVE  \/ charges'[ch] = charges[ch]
             \/ /\ charges[ch].dispute \in {"none", "open"} /\ charges[ch].status # "none"
                /\ \E d \in {"open", "won", "lost"} :
                     charges'[ch] = [charges[ch] EXCEPT !.dispute = d]
  <2>1. PICK d \in {"open", "won", "lost"} :
          /\ charges[x].dispute \in {"none", "open"}
          /\ charges[x].status = "captured" \/ charges[x].dispute = "open"
          /\ charges' = [charges EXCEPT ![x].dispute = d]
    BY <1>4 DEF Dispute
  <2>2. CASE x = ch
    BY <1>1, <2>1, <2>2 DEF StoreTypeOK, ChargeOpened
  <2>3. CASE x # ch
    BY <2>1, <2>3 DEF StoreTypeOK
  <2> QED
    BY <2>2, <2>3
<1>5. ASSUME NEW c \in Recurring, Lapse(c) PROVE charges'[ch] = charges[ch]
  BY <1>5 DEF Lapse
<1>6. charges[ch] \in [checkout: Checkouts \cup {NoCharge},
                       status: {"none", "failed", "captured", "refunded"},
                       amount_ok: BOOLEAN, dispute: {"none", "open", "won", "lost"}]
  BY DEF StoreTypeOK
<1>7. CASE charges'[ch] = charges[ch]
  BY <1>1, <1>7 DEF ChargeOpened, Captured
<1>8. ASSUME NEW x \in Charges, NEW c \in Checkouts,
             NEW status \in {"failed", "captured"}, NEW ok \in BOOLEAN, Charge(x, c, status, ok),
             charges'[ch] # charges[ch]
      PROVE  ChargeOpened(ch)' /\ charges[ch].status = "none"
  BY <1>1, <1>2, <1>8 DEF ChargeOpened
<1>9. CASE /\ charges[ch].status = "captured"
           /\ charges'[ch] = [charges[ch] EXCEPT !.status = "refunded"]
  BY <1>1, <1>6, <1>9 DEF ChargeOpened, Captured
<1>10. ASSUME charges[ch].dispute \in {"none", "open"}, charges[ch].status # "none",
              NEW d \in {"open", "won", "lost"},
              charges'[ch] = [charges[ch] EXCEPT !.dispute = d]
       PROVE  /\ ChargeOpened(ch)'
              /\ charges'[ch].checkout = charges[ch].checkout
              /\ charges'[ch].amount_ok = charges[ch].amount_ok
              /\ charges'[ch].status = charges[ch].status
              /\ charges'[ch].dispute # "none"
  BY <1>1, <1>6, <1>10 DEF ChargeOpened
<1> QED
  BY <1>3, <1>4, <1>5, <1>7, <1>8, <1>9, <1>10 DEF Gateway, Captured


\* What every step outside the tasks leaves alone.
Kept ==
    /\ UNCHANGED licenses
    /\ \A c \in Checkouts :
         /\ payments'[c].gateway_payment_id = payments[c].gateway_payment_id
         /\ session[c] = "open" =>
              /\ payments'[c] = payments[c] /\ subscriptions'[c] = subscriptions[c]
              /\ lapses[c] \subseteq lapses'[c]
    /\ \A ch \in Charges : charges[ch].status # "none" =>
         /\ charges'[ch].checkout = charges[ch].checkout
         /\ charges'[ch].amount_ok = charges[ch].amount_ok
         /\ Captured(ch) => Captured(ch)'
         /\ charges[ch].status \in {"failed", "refunded"} =>
              charges'[ch].status = charges[ch].status
         /\ charges[ch].dispute # "none" => charges'[ch].dispute # "none"
         /\ charges[ch].dispute \in {"won", "lost"} => charges'[ch].dispute = charges[ch].dispute

LEMMA CheckoutKeeps ==
    ASSUME StoreTypeOK, Opened, Checkout
    PROVE  Opened' /\ Kept
<1>1. UNCHANGED <<licenses, charges, lapses>>
  BY DEF Checkout, InsertSubscription, CreateCheckout, InsertPayment, CheckoutFails, db, gateway
<1>2. PICK x \in Checkouts :
        InsertSubscription(x) \/ CreateCheckout(x) \/ InsertPayment(x) \/ CheckoutFails(x)
  BY DEF Checkout
<1>3. \A c \in Checkouts \ {x} : /\ session'[c] = session[c] /\ payments'[c] = payments[c]
                                 /\ subscriptions'[c] = subscriptions[c]
  BY <1>2 DEF InsertSubscription, CreateCheckout, InsertPayment, CheckoutFails, StoreTypeOK, db
<1>4. /\ session[x] # "open"
      /\ payments'[x].gateway_payment_id = payments[x].gateway_payment_id
      /\ CheckoutOpened(x)'
  <2> USE <1>1, <1>2 DEF Opened, CheckoutOpened, StoreTypeOK
  <2>1. CASE InsertSubscription(x)
    BY <2>1 DEF InsertSubscription
  <2>2. CASE CreateCheckout(x)
    BY <2>2 DEF CreateCheckout, db
  <2>3. CASE InsertPayment(x)
    BY <2>3 DEF InsertPayment
  <2>4. CASE CheckoutFails(x)
    BY <2>4 DEF CheckoutFails, db
  <2> QED
    BY <2>1, <2>2, <2>3, <2>4
<1>5. \A c \in Checkouts : CheckoutOpened(c)'
  BY <1>1, <1>3, <1>4 DEF Opened, CheckoutOpened
<1>6. \A ch \in Charges : ChargeOpened(ch)'
  BY <1>1, <1>3, <1>4 DEF Opened, ChargeOpened
<1>7. Kept
  BY <1>1, <1>3, <1>4 DEF Kept, Captured
<1> QED
  BY <1>5, <1>6, <1>7 DEF Opened

LEMMA GatewayKeeps ==
    ASSUME StoreTypeOK, Opened, Gateway
    PROVE  Opened' /\ Kept
<1>1. UNCHANGED <<session, subscriptions, payments, licenses>>
  BY DEF Gateway, db
<1>2. \A c \in Checkouts : /\ lapses[c] \subseteq lapses'[c]
                           /\ lapses'[c] # lapses[c] => session[c] = "open"
  <2>1. ASSUME NEW c \in Recurring, Lapse(c)
        PROVE  \A x \in Checkouts : /\ lapses[x] \subseteq lapses'[x]
                                    /\ lapses'[x] # lapses[x] => session[x] = "open"
    <3>1. PICK t \in LapseEvents : lapses' = [lapses EXCEPT ![c] = @ \cup {t}]
      BY <2>1 DEF Lapse
    <3> QED
      BY <2>1, <3>1 DEF Lapse, StoreTypeOK
  <2>2. CASE UNCHANGED lapses
    BY <2>2
  <2> QED
    BY <2>1, <2>2 DEF Gateway, Charge, Refund, Dispute
<1>3. \A c \in Checkouts : CheckoutOpened(c)'
  BY <1>1, <1>2 DEF Opened, CheckoutOpened
<1>4. \A ch \in Charges : ChargeOpened(ch)'
  BY ChargeMoves
<1>5. Kept
  BY <1>1, <1>2, ChargeMoves DEF Kept
<1> QED
  BY <1>3, <1>4, <1>5 DEF Opened

LEMMA EnvironmentKeeps ==
    ASSUME StoreTypeOK, Opened, Environment
    PROVE  Opened' /\ Kept
<1>1. CASE Tick
  BY <1>1 DEF Tick, Opened, ChargeOpened, CheckoutOpened, Kept, Captured, db, gateway
<1> QED
  BY <1>1, CheckoutKeeps, GatewayKeeps DEF Environment

\* An event once sent stays sent.
LEMMA SentStays ==
    ASSUME StoreTypeOK, Opened, Kept, NEW id \in EventId, Sent(id)
    PROVE  Sent(id)'
<1>1. session[id.checkout] = "open" /\ id.checkout \in Checkouts
  BY SentOpened DEF EventId
<1>2. CASE /\ id.type = "subscription.activated"
           /\ id.charge = NoCharge /\ id.checkout \in Recurring
           /\ \E ch \in Charges : charges[ch].checkout = id.checkout /\ Captured(ch)
  <2>1. PICK ch \in Charges : charges[ch].checkout = id.checkout /\ Captured(ch)
    BY <1>2
  <2>2. charges'[ch].checkout = id.checkout /\ Captured(ch)'
    BY <2>1 DEF Kept, Captured
  <2> QED
    BY <1>2, <2>2 DEF Sent
<1>3. CASE /\ id.type \in LapseEvents
           /\ id.charge = NoCharge /\ id.checkout \in Recurring
           /\ id.type \in lapses[id.checkout]
  BY <1>1, <1>3 DEF Sent, Kept
<1>4. CASE id.charge \in Charges
  <2>1. charges[id.charge].status # "none"
    BY <1>4, StoreAssumption DEF Sent, Opened, ChargeOpened, Captured
  <2> QED
    BY <1>4, <2>1, StoreAssumption DEF Sent, Kept
<1> QED
  BY <1>2, <1>3, <1>4 DEF Sent

\* The payment lookup of a sent event finds after the step what it found before.
LEMMA PaymentStays ==
    ASSUME StoreTypeOK, Opened, Kept, NEW id \in EventId, Sent(id)
    PROVE  ResolvePayment(id)' = ResolvePayment(id)
<1>1. /\ session[id.checkout] = "open" /\ id.checkout \in Checkouts
      /\ payments'[id.checkout] = payments[id.checkout]
  BY SentOpened DEF EventId, Kept
<1>2. KnownByProviderRef(id)' = KnownByProviderRef(id)
  BY <1>1 DEF KnownByProviderRef
<1>3. AmountMatches(id)' = AmountMatches(id)
  <2>1. CASE id.charge # NoCharge
    <3>1. id.charge \in Charges
      BY <2>1 DEF EventId
    <3>2. charges[id.charge].status # "none"
      BY <2>1, <3>1 DEF Sent, Opened, ChargeOpened, Captured
    <3> QED
      BY <3>1, <3>2 DEF AmountMatches, Kept
  <2> QED
    BY <2>1 DEF AmountMatches
<1>4. PaymentsOf(id.charge)' = PaymentsOf(id.charge)
  BY DEF PaymentsOf, Kept
<1>5. \A p, l : SettlePayment(id, p, l)' = SettlePayment(id, p, l)
  BY <1>4 DEF SettlePayment
<1>6. resolve_activation(id)' = resolve_activation(id)
  BY <1>1, <1>2, <1>3 DEF resolve_activation
<1>7. resolve_payment_failed(id)' = resolve_payment_failed(id)
  BY <1>1, <1>2 DEF resolve_payment_failed
<1>8. resolve_subscription_inactive(id)' = resolve_subscription_inactive(id)
  BY <1>2 DEF resolve_subscription_inactive
<1>9. /\ resolve_refund(id)' = resolve_refund(id)
      /\ resolve_dispute_created(id)' = resolve_dispute_created(id)
      /\ resolve_dispute_closed(id)' = resolve_dispute_closed(id)
  BY <1>5 DEF resolve_refund, resolve_dispute_created, resolve_dispute_closed
<1> QED
  BY <1>6, <1>7, <1>8, <1>9, Zenon DEF ResolvePayment


-----------------------------------------------------------------------------
(***************************************************************************)
(* The three kinds of effect an event resolves to: one that leaves the     *)
(* licenses alone, one that activates a paid checkout, and one that        *)
(* settles the license with its payment.                                   *)
(***************************************************************************)
Quiet(eff) ==
    /\ eff.license_status = "keep"
    /\ \/ eff.payment = "keep"
       \/ eff.payment = "failed" /\ payments[eff.checkout].status = "pending"

Activation(id, eff) ==
    /\ id.type \in ActivationEvents /\ AmountMatches(id)
    /\ eff.checkout = id.checkout /\ eff.subscription = "active"
    /\ eff.payment = "succeeded" /\ eff.license_status = "active"

Settlement(eff) ==
    /\ eff.subscription # "active"
    /\ <<eff.payment, eff.license_status>> \in
         {<<"keep", "suspended">>, <<"keep", "revoked">>, <<"refunded", "revoked">>,
          <<"disputed", "suspended">>, <<"succeeded", "active">>}

Kind(id, eff) ==
    /\ eff \in Effect /\ eff.license = 0 /\ ~eff.issue
    /\ session[eff.checkout] = "open"
    /\ Quiet(eff) \/ Activation(id, eff) \/ Settlement(eff)

LEMMA NoEffectKind ==
    ASSUME NEW id \in EventId, NEW c \in Checkouts, session[c] = "open"
    PROVE  Kind(id, NoEffect(c))
BY NoEffectType DEF Kind, Quiet, NoEffect

LEMMA SettlementKind ==
    ASSUME StoreTypeOK, Opened, NEW id \in EventId, Sent(id), NEW p, NEW l,
           <<p, l>> \in {<<"refunded", "revoked">>, <<"disputed", "suspended">>,
                         <<"succeeded", "active">>}
    PROVE  Kind(id, SettlePayment(id, p, l))
<1>1. p \in PaymentStatus /\ l \in LicenseStatus
  BY DEF PaymentStatus, LicenseStatus
<1>2. Resolved(id, SettlePayment(id, p, l))
  BY <1>1, SettlementResolves
<1>3. CASE PaymentsOf(id.charge) = {}
  BY <1>3, NoEffectKind, SentOpened DEF SettlePayment, EventId
<1>4. CASE PaymentsOf(id.charge) # {}
  <2> DEFINE c == CHOOSE c \in PaymentsOf(id.charge) : TRUE
  <2>1. c \in Checkouts /\ payments[c].gateway_payment_id # NoCharge
    BY <1>4 DEF PaymentsOf
  <2>2. session[c] = "open"
    BY <2>1 DEF Opened, CheckoutOpened
  <2>3. SettlePayment(id, p, l) = [NoEffect(c) EXCEPT !.payment = p, !.license_status = l]
    BY <1>4 DEF SettlePayment
  <2> HIDE DEF c
  <2>4. /\ SettlePayment(id, p, l).checkout = c
        /\ SettlePayment(id, p, l).subscription = "keep"
        /\ SettlePayment(id, p, l).payment = p
        /\ SettlePayment(id, p, l).license_status = l
    BY <2>3 DEF NoEffect
  <2>5. Settlement(SettlePayment(id, p, l))
    BY <2>4 DEF Settlement
  <2> QED
    BY <1>2, <2>2, <2>4, <2>5 DEF Kind, Resolved
<1> QED
  BY <1>3, <1>4

LEMMA PaymentKind ==
    ASSUME StoreTypeOK, Opened, NEW id \in EventId, Sent(id)
    PROVE  Kind(id, ResolvePayment(id))
<1>1. id.checkout \in Checkouts /\ session[id.checkout] = "open"
  BY SentOpened DEF EventId
<1>2. Kind(id, NoEffect(id.checkout))
  BY <1>1, NoEffectKind
<1>3. id.type \in ActivationEvents => Kind(id, resolve_activation(id))
  BY <1>1, <1>2, ActivationResolves DEF resolve_activation, Resolved, Kind, Activation, NoEffect
<1>4. Kind(id, resolve_payment_failed(id))
  BY <1>1, <1>2, FailureResolves DEF resolve_payment_failed, Resolved, Kind, Quiet, NoEffect
<1>5. Kind(id, resolve_subscription_inactive(id))
  BY <1>1, <1>2, LapseResolves DEF resolve_subscription_inactive, Resolved, Kind, Settlement,
     NoEffect
<1>6. /\ Kind(id, resolve_refund(id))
      /\ Kind(id, resolve_dispute_created(id))
      /\ Kind(id, resolve_dispute_closed(id))
  BY <1>2, SettlementKind DEF resolve_refund, resolve_dispute_created, resolve_dispute_closed
<1> QED
  BY <1>2, <1>3, <1>4, <1>5, <1>6, Zenon DEF ResolvePayment

\* The license lookup, too, finds after the step what it found before it.
LEMMA OutcomeStays ==
    ASSUME StoreTypeOK, Opened, Kept, NEW id \in EventId, Sent(id), NEW t
    PROVE  Outcome(id, t)' = Outcome(id, t)
<1>1. PICK eff : eff = ResolvePayment(id)
  OBVIOUS
<1>2. ResolvePayment(id)' = eff
  BY <1>1, PaymentStays
<1>3. eff.checkout \in Checkouts /\ session[eff.checkout] = "open"
  BY <1>1, PaymentKind DEF Kind, Effect
<1>4. UNCHANGED licenses /\ subscriptions'[eff.checkout] = subscriptions[eff.checkout]
  BY <1>3 DEF Kept
<1>5. \A c : Latest(c)' = Latest(c)
  BY <1>4 DEF Latest, LiveLicenses
<1>6. ResolveLicense(eff, t)' = ResolveLicense(eff, t)
  BY <1>4, <1>5 DEF ResolveLicense
<1> QED
  BY <1>1, <1>2, <1>6 DEF Outcome

(***************************************************************************)
(* What the license lookup adds: the license to change is the checkout's   *)
(* live one, and only an activation without one issues a license.          *)
(***************************************************************************)
OutcomeKind(id, eff) ==
    /\ eff \in Effect
    /\ payments[eff.checkout].status # "absent"
    /\ \/ Quiet(eff) /\ eff.license = 0 /\ ~eff.issue
       \/ /\ Activation(id, eff)
          /\ eff.license = Latest(eff.checkout) /\ (eff.issue <=> eff.license = 0)
       \/ Settlement(eff) /\ eff.license = Latest(eff.checkout) /\ ~eff.issue

LEMMA OutcomeHasKind ==
    ASSUME StoreTypeOK, Opened, NEW id \in EventId, Sent(id), NEW t \in Int
    PROVE  OutcomeKind(id, Outcome(id, t))
<1>1. PICK eff : eff = ResolvePayment(id)
  OBVIOUS
<1>2. Kind(id, eff)
  BY <1>1, PaymentKind
<1>3. eff \in Effect /\ eff.license = 0 /\ ~eff.issue
  BY <1>2 DEF Kind
<1>4. PICK res : res = ResolveLicense(eff, t)
  OBVIOUS
<1>5. res \in Effect /\ res.checkout = eff.checkout
  BY <1>3, <1>4, LicenseResolves
<1>6. payments[res.checkout].status # "absent"
  BY <1>2, <1>3, <1>5 DEF Kind, Opened, CheckoutOpened, Effect
<1>7. /\ res.payment = eff.payment /\ res.subscription = eff.subscription
      /\ res.license_status = eff.license_status
  BY <1>3, <1>4 DEF ResolveLicense, Effect
<1>8. CASE Quiet(eff)
  <2>1. res = eff
    BY <1>4, <1>8 DEF ResolveLicense, Quiet
  <2> QED
    BY <1>1, <1>3, <1>4, <1>6, <1>8, <2>1 DEF OutcomeKind, Outcome
<1>9. CASE Activation(id, eff)
  <2>1. res.license = Latest(eff.checkout) /\ res.issue = (Latest(eff.checkout) = 0)
    BY <1>3, <1>4, <1>9 DEF ResolveLicense, Activation, Effect
  <2> QED
    BY <1>1, <1>4, <1>5, <1>6, <1>7, <1>9, <2>1 DEF OutcomeKind, Outcome, Activation
<1>10. CASE Settlement(eff)
  <2>1. eff.license_status # "keep" /\ eff.subscription # "active"
    BY <1>10 DEF Settlement
  <2>2. res.license = Latest(eff.checkout) /\ ~res.issue
    BY <1>3, <1>4, <2>1 DEF ResolveLicense, Effect
  <2> QED
    BY <1>1, <1>4, <1>5, <1>6, <1>7, <1>10, <2>2 DEF OutcomeKind, Outcome, Settlement
<1> QED
  BY <1>2, <1>8, <1>9, <1>10 DEF Kind

-----------------------------------------------------------------------------
(***************************************************************************)
(* A transaction whose lookups are of the moment it commits.               *)
(***************************************************************************)
\* Latest finds a live license whenever there is one.
LEMMA LatestLive ==
    ASSUME NEW c \in Checkouts, licenses \in Seq(LicenseRow)
    PROVE  /\ Latest(c) # 0 => Latest(c) \in LiveLicenses(c)
           /\ Latest(c) = 0 => LiveLicenses(c) = {}
<1>1. Len(licenses) \in Nat
  BY LenProperties
<1>2. LiveLicenses(c) \in SUBSET (1..Len(licenses))
  BY DEF LiveLicenses
<1>3. CASE LiveLicenses(c) # {}
  <2>1. \E l \in LiveLicenses(c) : \A m \in LiveLicenses(c) : m <= l
    BY <1>1, <1>2, <1>3, HasGreatest
  <2>2. Latest(c) \in LiveLicenses(c)
    BY <1>3, <2>1 DEF Latest
  <2> QED
    BY <1>1, <1>2, <2>2
<1>4. CASE LiveLicenses(c) = {}
  BY <1>4 DEF Latest
<1> QED
  BY <1>3, <1>4

\* The transaction changes no license, or the checkout's live one, or it
\* issues one to a checkout that has none.
Relicense(id, eff) ==
    \/ licenses' = licenses /\ (Quiet(eff) \/ LiveLicenses(eff.checkout) = {})
    \/ /\ Activation(id, eff) \/ Settlement(eff)
       /\ Latest(eff.checkout) \in LiveLicenses(eff.checkout)
       /\ Len(licenses') = Len(licenses)
       /\ \A l \in 1..Len(licenses) : l # Latest(eff.checkout) => licenses'[l] = licenses[l]
       /\ licenses'[Latest(eff.checkout)].subscription = eff.checkout
       /\ licenses'[Latest(eff.checkout)].status = eff.license_status
    \/ /\ Activation(id, eff)
       /\ LiveLicenses(eff.checkout) = {}
       /\ Len(licenses') = Len(licenses) + 1
       /\ \A l \in 1..Len(licenses) : licenses'[l] = licenses[l]
       /\ licenses'[Len(licenses) + 1].subscription = eff.checkout
       /\ licenses'[Len(licenses) + 1].status = "active"

LEMMA Relicenses ==
    ASSUME StoreTypeOK, NEW id \in EventId, NEW eff, OutcomeKind(id, eff),
           licenses' = AppliedLicenses(eff)
    PROVE  Relicense(id, eff)
<1>1. eff \in Effect /\ eff.checkout \in Checkouts
  BY DEF OutcomeKind, Effect
<1>2. licenses \in Seq(LicenseRow)
  BY DEF StoreTypeOK, LicenseRow
<1>3. Len(licenses) \in Nat
  BY <1>2, LenProperties
<1>4. \A l \in 1..Len(licenses) : licenses[l] \in LicenseRow
  BY <1>2, ElementOfSeq
<1>5. /\ Latest(eff.checkout) # 0 => Latest(eff.checkout) \in LiveLicenses(eff.checkout)
      /\ Latest(eff.checkout) = 0 => LiveLicenses(eff.checkout) = {}
  BY <1>1, <1>2, LatestLive
<1>6. CASE ~eff.issue /\ eff.license = 0
  BY <1>5, <1>6 DEF AppliedLicenses, Relicense, OutcomeKind
<1>7. CASE eff.issue
  <2> DEFINE row == [subscription |-> eff.checkout, status |-> "active",
                     expires_at |-> eff.expires_at]
  <2>1. Activation(id, eff) /\ Latest(eff.checkout) = 0
    BY <1>7 DEF OutcomeKind
  <2>2. row \in LicenseRow /\ row.subscription = eff.checkout /\ row.status = "active"
    BY <1>1 DEF LicenseRow, Effect, LicenseStatus
  <2>3. licenses' = Append(licenses, row)
    BY <1>7 DEF AppliedLicenses
  <2> HIDE DEF row
  <2>4. /\ Len(licenses') = Len(licenses) + 1
        /\ \A l \in 1..Len(licenses) : licenses'[l] = licenses[l]
        /\ licenses'[Len(licenses) + 1] = row
    BY <1>2, <2>2, <2>3, AppendProperties
  <2> QED
    BY <1>5, <2>1, <2>2, <2>4 DEF Relicense
<1>8. CASE ~eff.issue /\ eff.license # 0
  <2> DEFINE n == eff.license
             row == [licenses[n] EXCEPT !.status = eff.license_status,
                                        !.expires_at = eff.expires_at]
  <2>1. /\ Activation(id, eff) \/ Settlement(eff)
        /\ n = Latest(eff.checkout) /\ n \in LiveLicenses(eff.checkout)
    BY <1>5, <1>8 DEF OutcomeKind
  <2>2. n \in 1..Len(licenses) /\ licenses[n].subscription = eff.checkout
    BY <2>1 DEF LiveLicenses
  <2>3. eff.license_status \in LicenseStatus
    BY <2>1 DEF Activation, Settlement, LicenseStatus
  <2>4. /\ row \in LicenseRow /\ row.subscription = eff.checkout
        /\ row.status = eff.license_status
    BY <1>1, <1>4, <2>2, <2>3 DEF LicenseRow, Effect
  <2>5. licenses' = [licenses EXCEPT ![n] = row]
    BY <1>8 DEF AppliedLicenses
  <2> HIDE DEF row
  <2>6. /\ Len(licenses') = Len(licenses)
        /\ \A l \in 1..Len(licenses) : licenses'[l] = IF l = n THEN row ELSE licenses[l]
    BY <1>2, <2>2, <2>4, <2>5, ExceptSeq
  <2> QED
    BY <2>1, <2>2, <2>4, <2>6 DEF Relicense
<1> QED
  BY <1>6, <1>7, <1>8, <1>1 DEF Effect

(***************************************************************************)
(* The safety properties, conjunct by conjunct.                            *)
(***************************************************************************)
OneLive == \A c \in Checkouts : \A l, m \in LiveLicenses(c) : l = m

ActiveIsSettled ==
    \A l \in 1..Len(licenses) : licenses[l].status = "active" =>
        payments[licenses[l].subscription].status = "succeeded"

PaidInFull(c) == \E ch \in Charges : /\ charges[ch].checkout = c
                                     /\ Captured(ch) /\ charges[ch].amount_ok

IssuedForCharge ==
    "subscription.activated" \notin EventTypes =>
        \A l \in 1..Len(licenses) : PaidInFull(licenses[l].subscription)

StoreInv ==
    StoreTypeOK /\ now \in Nat /\ Opened /\ OneLive /\ ActiveIsSettled /\ IssuedForCharge

\* process_webhook_event with no other handler in between.
AtomicStep(id, eff) ==
    /\ id \in EventOfGateway /\ Sent(id)
    /\ OutcomeKind(id, eff)
    /\ claim_and_apply(id, eff)
    /\ UNCHANGED <<session, gateway, now>>

LEMMA GatewayEventIds == EventOfGateway \subseteq EventId
BY StoreAssumption DEF EventOfGateway, EventId

LEMMA AtomicOpened ==
    ASSUME StoreTypeOK, Opened, NEW id, NEW eff, AtomicStep(id, eff), GatewayIdBelongs'
    PROVE  Opened'
<1>1. eff \in Effect /\ eff.checkout \in Checkouts /\ payments[eff.checkout].status # "absent"
  BY DEF AtomicStep, OutcomeKind, Effect
<1>2. UNCHANGED <<session, charges, lapses>> /\ payments' = AppliedPayments(eff)
  BY DEF AtomicStep, claim_and_apply, gateway
<1>3. \A c \in Checkouts : \/ payments'[c] = payments[c]
                           \/ /\ payments[c].status # "absent" /\ payments'[c].status # "absent"
  BY <1>1, <1>2 DEF AppliedPayments, StoreTypeOK, Effect, PaymentStatus
<1> QED
  BY <1>2, <1>3 DEF Opened, ChargeOpened, CheckoutOpened

LEMMA AtomicOneLive ==
    ASSUME StoreInv, NEW id, NEW eff, AtomicStep(id, eff)
    PROVE  OneLive'
<1>1. Relicense(id, eff)
  BY Relicenses, GatewayEventIds DEF StoreInv, AtomicStep, claim_and_apply
<1>2. Len(licenses) \in Nat
  BY LenProperties DEF StoreInv, StoreTypeOK
<1>3. CASE licenses' = licenses
  BY <1>3 DEF StoreInv, OneLive, LiveLicenses
<1>4. CASE /\ Latest(eff.checkout) \in LiveLicenses(eff.checkout)
           /\ Len(licenses') = Len(licenses)
           /\ \A l \in 1..Len(licenses) : l # Latest(eff.checkout) => licenses'[l] = licenses[l]
           /\ licenses'[Latest(eff.checkout)].subscription = eff.checkout
  <2>1. \A c \in Checkouts : LiveLicenses(c)' \subseteq LiveLicenses(c)
    BY <1>4 DEF LiveLicenses
  <2> QED
    BY <2>1 DEF StoreInv, OneLive
<1>5. CASE /\ LiveLicenses(eff.checkout) = {}
           /\ Len(licenses') = Len(licenses) + 1
           /\ \A l \in 1..Len(licenses) : licenses'[l] = licenses[l]
           /\ licenses'[Len(licenses) + 1].subscription = eff.checkout
  <2>1. \A c \in Checkouts : c # eff.checkout => LiveLicenses(c)' \subseteq LiveLicenses(c)
    BY <1>2, <1>5 DEF LiveLicenses
  <2>2. LiveLicenses(eff.checkout)' \subseteq {Len(licenses) + 1}
    BY <1>2, <1>5 DEF LiveLicenses
  <2> QED
    BY <2>1, <2>2 DEF StoreInv, OneLive
<1> QED
  BY <1>1, <1>3, <1>4, <1>5 DEF Relicense

LEMMA AtomicActive ==
    ASSUME StoreInv, NEW id, NEW eff, AtomicStep(id, eff)
    PROVE  ActiveIsSettled'
<1>1. Relicense(id, eff)
  BY Relicenses, GatewayEventIds DEF StoreInv, AtomicStep, claim_and_apply
<1>2. Len(licenses) \in Nat
  BY LenProperties DEF StoreInv, StoreTypeOK
<1>3. eff \in Effect /\ eff.checkout \in Checkouts /\ OutcomeKind(id, eff)
  BY DEF AtomicStep, OutcomeKind, Effect
<1>4. /\ \A c \in Checkouts : c # eff.checkout => payments'[c] = payments[c]
      /\ payments'[eff.checkout].status =
           IF eff.payment = "keep" THEN payments[eff.checkout].status ELSE eff.payment
  BY <1>3 DEF AtomicStep, claim_and_apply, AppliedPayments, StoreInv, StoreTypeOK
<1>5. \A l \in 1..Len(licenses) : licenses[l].subscription \in Checkouts
  <2>1. \A l \in 1..Len(licenses) : licenses[l] \in LicenseRow
    BY ElementOfSeq DEF StoreInv, StoreTypeOK, LicenseRow
  <2> QED
    BY <2>1 DEF LicenseRow
<1>6. SUFFICES ASSUME NEW l \in 1..Len(licenses'), licenses'[l].status = "active"
               PROVE  payments'[licenses'[l].subscription].status = "succeeded"
  BY DEF ActiveIsSettled
<1>7. CASE Quiet(eff) /\ licenses' = licenses
  BY <1>3, <1>4, <1>5, <1>6, <1>7 DEF Quiet, StoreInv, ActiveIsSettled
<1>8. CASE licenses'[l].subscription # eff.checkout
  <2>1. l \in 1..Len(licenses) /\ licenses'[l] = licenses[l]
    BY <1>1, <1>2, <1>8 DEF Relicense
  <2> QED
    BY <1>4, <1>5, <1>6, <1>8, <2>1 DEF StoreInv, ActiveIsSettled
<1>9. CASE eff.payment = "succeeded"
  BY <1>4, <1>8, <1>9
<1>10. CASE Settlement(eff) /\ eff.payment # "succeeded" /\ licenses'[l].subscription = eff.checkout
  \* the checkout's only live license is the one this settlement takes down
  <2>1. eff.license_status # "active" /\ ~Activation(id, eff)
    BY <1>10 DEF Settlement, Activation
  <2>2. l \in 1..Len(licenses) /\ licenses'[l] = licenses[l]
    BY <1>1, <1>2, <1>6, <2>1 DEF Relicense
  <2>3. l \in LiveLicenses(eff.checkout)
    BY <1>6, <1>10, <2>2 DEF LiveLicenses
  <2>4. l = Latest(eff.checkout)
    <3>1. Latest(eff.checkout) \in LiveLicenses(eff.checkout)
      BY <1>3, <2>3, LatestLive DEF StoreInv, StoreTypeOK, LicenseRow
    <3> QED
      BY <1>3, <2>3, <3>1 DEF StoreInv, OneLive
  <2>5. licenses'[l].status = eff.license_status
    BY <1>1, <1>10, <2>1, <2>2, <2>3, <2>4 DEF Relicense, Quiet, Settlement
  <2> QED
    BY <1>6, <2>1, <2>5
<1>11. CASE Quiet(eff)
  <2>1. ~Activation(id, eff) /\ ~Settlement(eff)
    BY <1>11 DEF Quiet, Activation, Settlement
  <2>2. licenses' = licenses
    BY <1>1, <2>1 DEF Relicense
  <2> QED
    BY <1>7, <1>11, <2>2
<1> QED
  BY <1>3, <1>8, <1>9, <1>10, <1>11 DEF OutcomeKind, Activation

LEMMA AtomicIssued ==
    ASSUME StoreInv, NEW id, NEW eff, AtomicStep(id, eff)
    PROVE  IssuedForCharge'
<1>1. Relicense(id, eff)
  BY Relicenses, GatewayEventIds DEF StoreInv, AtomicStep, claim_and_apply
<1>2. Len(licenses) \in Nat
  BY LenProperties DEF StoreInv, StoreTypeOK
<1>3. \A c : PaidInFull(c) => PaidInFull(c)'
  BY DEF PaidInFull, Captured, AtomicStep, gateway
<1>4. SUFFICES ASSUME "subscription.activated" \notin EventTypes,
                      NEW l \in 1..Len(licenses')
               PROVE  \E c : c = licenses'[l].subscription /\ PaidInFull(c)'
  BY DEF IssuedForCharge, PaidInFull
<1>5. CASE /\ l \in 1..Len(licenses)
           /\ licenses'[l].subscription = licenses[l].subscription
  BY <1>3, <1>4, <1>5 DEF StoreInv, IssuedForCharge
<1>6. CASE Activation(id, eff) /\ licenses'[l].subscription = eff.checkout
  <2>1. id \in EventId /\ id.type \in ActivationEvents /\ id.type # "subscription.activated"
    BY <1>4, <1>6, GatewayEventIds DEF AtomicStep, Activation, EventOfGateway
  <2>2. id.charge \in Charges
    BY <2>1 DEF AtomicStep, Sent, ActivationEvents, LapseEvents
  <2>3. charges[id.charge].checkout = id.checkout /\ Captured(id.charge)
    BY <2>1, <2>2, SentActivation, StoreAssumption DEF AtomicStep
  <2>4. charges[id.charge].amount_ok
    BY <1>6, <2>2, StoreAssumption DEF Activation, AmountMatches, AtomicStep, EventOfGateway
  <2>5. PaidInFull(eff.checkout)
    BY <1>6, <2>2, <2>3, <2>4 DEF PaidInFull, Activation
  <2> QED
    BY <1>3, <1>6, <2>5
<1> QED
  BY <1>1, <1>2, <1>5, <1>6 DEF Relicense, LiveLicenses

\* One atomic transaction keeps the store's invariant, and revokes for good.
LEMMA AtomicStoreInv ==
    ASSUME StoreInv, StoreTypeOK', GatewayIdBelongs', NEW id, NEW eff, AtomicStep(id, eff)
    PROVE  StoreInv'
BY AtomicOpened, AtomicOneLive, AtomicActive, AtomicIssued DEF StoreInv, AtomicStep

LEMMA AtomicRevokes ==
    ASSUME StoreTypeOK, NEW id, NEW eff, AtomicStep(id, eff), NEW l \in 1..Len(licenses),
           licenses[l].status = "revoked"
    PROVE  licenses'[l].status = "revoked"
<1>1. Relicense(id, eff)
  BY Relicenses, GatewayEventIds DEF AtomicStep, claim_and_apply
<1> QED
  BY <1>1 DEF Relicense, LiveLicenses

\* The clock only goes forward.
LEMMA ClockStep ==
    ASSUME Environment
    PROVE  now' = now \/ now' = now + 1
<1>1. CASE Checkout
  BY <1>1 DEF Checkout, InsertSubscription, CreateCheckout, InsertPayment, CheckoutFails
<1>2. CASE Gateway
  BY <1>2 DEF Gateway
<1>3. CASE Tick
  BY <1>3 DEF Tick
<1> QED
  BY <1>1, <1>2, <1>3 DEF Environment

\* Nor do the steps outside the tasks break it.
LEMMA EnvironmentStoreInv ==
    ASSUME StoreInv, StoreTypeOK', Environment
    PROVE  StoreInv'
<1>1. Opened' /\ Kept
  BY EnvironmentKeeps DEF StoreInv
<1>2. UNCHANGED licenses
  BY <1>1 DEF Kept
<1>3. OneLive'
  BY <1>2 DEF StoreInv, OneLive, LiveLicenses
<1>4. ActiveIsSettled'
  <2> SUFFICES ASSUME NEW l \in 1..Len(licenses), licenses[l].status = "active"
               PROVE  payments'[licenses[l].subscription].status = "succeeded"
    BY <1>2 DEF ActiveIsSettled
  <2>1. licenses[l] \in LicenseRow
    BY ElementOfSeq DEF StoreInv, StoreTypeOK, LicenseRow
  <2>2. licenses[l].subscription \in Checkouts
    BY <2>1 DEF LicenseRow
  <2>3. payments[licenses[l].subscription].status = "succeeded"
    BY DEF StoreInv, ActiveIsSettled
  <2> QED
    BY <1>1, <2>2, <2>3 DEF StoreInv, Opened, CheckoutOpened, Kept
<1>5. IssuedForCharge'
  <2>1. \A ch \in Charges : Captured(ch) =>
          /\ Captured(ch)' /\ charges'[ch].checkout = charges[ch].checkout
          /\ charges'[ch].amount_ok = charges[ch].amount_ok
    BY <1>1 DEF Kept, Captured
  <2>2. \A c : PaidInFull(c) => PaidInFull(c)'
    BY <2>1 DEF PaidInFull
  <2> QED
    BY <1>2, <2>2 DEF StoreInv, IssuedForCharge
<1>6. now' \in Nat
  BY ClockStep DEF StoreInv
<1> QED
  BY <1>1, <1>3, <1>4, <1>5, <1>6 DEF StoreInv

-----------------------------------------------------------------------------
(***************************************************************************)
(* One task: what it has looked up is still so when it commits, because    *)
(* only steps outside the tasks came in between.                           *)
(***************************************************************************)
Fresh(id, w) ==
    /\ w.id = id /\ Sent(id)
    /\ \/ w.stage = "payment" /\ w.effect = ResolvePayment(id)
       \/ w.stage = "resolved" /\ \E t \in 0..now : w.effect = Outcome(id, t)

TasksFresh ==
    \A h \in Handlers : handlers[h] # Idle => \E id \in EventOfGateway : Fresh(id, handlers[h])

SerialInv == IInv /\ StoreInv /\ TasksFresh

\* A free task is no obligation, and it is the only one.
LEMMA TaskEnds ==
    ASSUME NEW h, Handlers = {h}, handlers \in [Handlers -> Task \cup {Idle}],
           handlers' = [handlers EXCEPT ![h] = Idle]
    PROVE  TasksFresh'
BY DEF TasksFresh

LEMMA EnvironmentFresh ==
    ASSUME SerialInv, Outside
    PROVE  TasksFresh'
<1>1. StoreTypeOK /\ Opened /\ Kept /\ UNCHANGED handlers
  BY EnvironmentKeeps DEF SerialInv, StoreInv, Outside
<1>2. now \in Int /\ now' \in Int /\ now <= now'
  <2>1. now \in Int
    BY <1>1 DEF StoreTypeOK
  <2> QED
    BY <2>1, ClockStep DEF Outside
<1>3. SUFFICES ASSUME NEW h \in Handlers, handlers[h] # Idle
               PROVE  \E id \in EventOfGateway : Fresh(id, handlers[h])'
  BY <1>1 DEF TasksFresh
<1>4. PICK id \in EventOfGateway : Fresh(id, handlers[h])
  BY <1>3 DEF SerialInv, TasksFresh
<1>5. id \in EventId /\ Sent(id)
  BY <1>4, GatewayEventIds DEF Fresh
<1>6. Sent(id)'
  BY <1>1, <1>5, SentStays
<1>7. CASE handlers[h].stage = "payment" /\ handlers[h].effect = ResolvePayment(id)
  <2>1. ResolvePayment(id)' = ResolvePayment(id)
    BY <1>1, <1>5, PaymentStays
  <2> QED
    BY <1>1, <1>4, <1>6, <1>7, <2>1 DEF Fresh
<1>8. ASSUME NEW t \in 0..now, handlers[h].stage = "resolved",
             handlers[h].effect = Outcome(id, t)
      PROVE  Fresh(id, handlers[h])'
  <2>1. Outcome(id, t)' = Outcome(id, t)
    BY <1>1, <1>5, OutcomeStays
  <2>2. t \in 0..now'
    BY <1>2
  <2> QED
    BY <1>1, <1>4, <1>6, <1>8, <2>1, <2>2 DEF Fresh
<1> QED
  BY <1>4, <1>7, <1>8 DEF Fresh

\* The lookups see the tables only.
LEMMA StoreSame ==
    ASSUME UNCHANGED store, NEW id
    PROVE  /\ Sent(id)' = Sent(id)
           /\ ResolvePayment(id)' = ResolvePayment(id)
           /\ \A t : Outcome(id, t)' = Outcome(id, t)
<1>1. UNCHANGED <<session, subscriptions, payments, licenses, charges, lapses, now>>
  BY DEF store, db, gateway
<1>2. Sent(id)' = Sent(id)
  BY <1>1 DEF Sent, Captured
<1>3. PICK eff : eff = ResolvePayment(id)
  OBVIOUS
<1>4. /\ KnownByProviderRef(id)' = KnownByProviderRef(id)
      /\ AmountMatches(id)' = AmountMatches(id)
      /\ \A p, l : SettlePayment(id, p, l)' = SettlePayment(id, p, l)
  BY <1>1 DEF KnownByProviderRef, AmountMatches, SettlePayment, PaymentsOf
<1>5. /\ resolve_activation(id)' = resolve_activation(id)
      /\ resolve_payment_failed(id)' = resolve_payment_failed(id)
      /\ resolve_subscription_inactive(id)' = resolve_subscription_inactive(id)
      /\ resolve_refund(id)' = resolve_refund(id)
      /\ resolve_dispute_created(id)' = resolve_dispute_created(id)
      /\ resolve_dispute_closed(id)' = resolve_dispute_closed(id)
  BY <1>1, <1>4 DEF resolve_activation, resolve_payment_failed, resolve_subscription_inactive,
     resolve_refund, resolve_dispute_created, resolve_dispute_closed
<1>6. ResolvePayment(id)' = eff
  BY <1>3, <1>5, Zenon DEF ResolvePayment
<1>7. \A c : Latest(c)' = Latest(c)
  BY <1>1 DEF Latest, LiveLicenses
<1>8. \A t : ResolveLicense(eff, t)' = ResolveLicense(eff, t)
  BY <1>1, <1>7 DEF ResolveLicense
<1> QED
  BY <1>2, <1>3, <1>6, <1>8 DEF Outcome

LEMMA ReceiveFresh ==
    ASSUME NEW h, Handlers = {h}, SerialInv, NEW id \in Deliverable, Receive(h, id)
    PROVE  TasksFresh'
<1>1. id \in EventOfGateway /\ Sent(id)
  BY DEF Deliverable, EventOfGateway
<1>2. UNCHANGED store
  BY DEF Receive
<1>3. handlers'[h] = [id |-> id, effect |-> ResolvePayment(id), stage |-> "payment"]
  BY DEF Receive, SerialInv, IInv, TypeOK
<1>4. Fresh(id, handlers[h])'
  BY <1>1, <1>2, <1>3, StoreSame DEF Fresh
<1> QED
  BY <1>1, <1>4 DEF TasksFresh

LEMMA ReadLicenseFresh ==
    ASSUME NEW h, Handlers = {h}, SerialInv, ReadLicense(h)
    PROVE  TasksFresh'
<1>1. PICK id \in EventOfGateway : Fresh(id, handlers[h])
  BY DEF SerialInv, TasksFresh, ReadLicense
<1>2. handlers[h].effect = ResolvePayment(id) /\ handlers[h].id = id /\ Sent(id)
  BY <1>1 DEF Fresh, ReadLicense
<1>3. UNCHANGED store /\ now \in 0..now /\ now' = now
  BY DEF ReadLicense, SerialInv, StoreInv, store
<1>4. handlers[h] \in Task
  BY DEF ReadLicense, SerialInv, IInv, TypeOK
<1>5. /\ handlers'[h].id = id /\ handlers'[h].stage = "resolved"
      /\ handlers'[h].effect = Outcome(id, now)
  BY <1>2, <1>4 DEF ReadLicense, SerialInv, IInv, TypeOK, Task, Outcome
<1>6. Outcome(id, now) = Outcome(id, now)' /\ Sent(id)'
  BY <1>2, <1>3, StoreSame
<1>7. Fresh(id, handlers[h])'
  BY <1>3, <1>5, <1>6 DEF Fresh
<1> QED
  BY <1>1, <1>7 DEF TasksFresh

\* With one task, a transaction does what AtomicWebhooks does in one step.
LEMMA ClaimIsAtomic ==
    ASSUME SerialInv, NEW h \in Handlers, Claim(h)
    PROVE  \E id \in EventOfGateway : \E t \in 0..now :
             /\ AtomicStep(id, Outcome(id, t))
             /\ id \in Deliverable
<1>1. PICK id \in EventOfGateway : Fresh(id, handlers[h])
  BY DEF SerialInv, TasksFresh, Claim
<1>2. PICK t \in 0..now : handlers[h].effect = Outcome(id, t)
  BY <1>1 DEF Fresh, Claim
<1>3. handlers[h].id = id /\ Sent(id) /\ id \in EventId
  BY <1>1, GatewayEventIds DEF Fresh
<1>4. OutcomeKind(id, Outcome(id, t))
  BY <1>3, OutcomeHasKind DEF SerialInv, StoreInv
<1>5. AtomicStep(id, Outcome(id, t))
  BY <1>1, <1>2, <1>3, <1>4 DEF AtomicStep, Claim
<1>6. id \in Deliverable
  BY <1>1, <1>3 DEF Deliverable, EventOfGateway
<1> QED
  BY <1>1, <1>2, <1>5, <1>6

LEMMA SerialStep ==
    ASSUME NEW h, Handlers = {h}, SerialInv, [Next]_vars
    PROVE  SerialInv'
<1>1. IInv'
  BY StepIInv DEF SerialInv
<1>2. StoreTypeOK' /\ GatewayIdBelongs'
  BY <1>1 DEF IInv, TypeOK
<1>3. CASE Outside
  BY <1>1, <1>2, <1>3, EnvironmentStoreInv, EnvironmentFresh DEF SerialInv, Outside
<1>4. CASE UNCHANGED store
  <2>1. UNCHANGED <<session, subscriptions, payments, licenses, charges, lapses, now>>
    BY <1>4 DEF store, db, gateway
  <2>2. Opened' /\ now' \in Nat
    BY <2>1 DEF SerialInv, StoreInv, Opened, ChargeOpened, CheckoutOpened
  <2>3. OneLive' /\ ActiveIsSettled' /\ IssuedForCharge'
    BY <2>1 DEF SerialInv, StoreInv, OneLive, LiveLicenses, ActiveIsSettled, IssuedForCharge,
       PaidInFull, Captured
  <2>4. StoreInv'
    BY <1>2, <2>2, <2>3 DEF StoreInv
  <2>5. TasksFresh'
    <3>1. ASSUME NEW id \in Deliverable, Receive(h, id) PROVE TasksFresh'
      BY <3>1, ReceiveFresh
    <3>2. CASE ReadLicense(h)
      BY <3>2, ReadLicenseFresh
    <3>3. CASE ClaimLost(h) \/ Fail(h) \/ Claim(h)
      BY <3>3, TaskEnds DEF ClaimLost, Fail, Claim, SerialInv, IInv, TypeOK
    <3>4. CASE UNCHANGED handlers
      <4> SUFFICES ASSUME NEW g \in Handlers, handlers[g] # Idle
                   PROVE  \E id \in EventOfGateway : Fresh(id, handlers[g])'
        BY <3>4 DEF TasksFresh
      <4>1. PICK id \in EventOfGateway : Fresh(id, handlers[g])
        BY DEF SerialInv, TasksFresh
      <4>2. now' = now
        BY <2>1
      <4>3. Fresh(id, handlers[g])'
        BY <1>4, <3>4, <4>1, <4>2, StoreSame DEF Fresh
      <4> QED
        BY <4>1, <4>3
    <3> QED
      BY <3>1, <3>2, <3>3, <3>4 DEF Next, Work, vars, Outside
  <2> QED
    BY <1>1, <2>4, <2>5 DEF SerialInv
<1>5. CASE Claim(h)
  <2>1. TasksFresh'
    BY <1>5, TaskEnds DEF Claim, SerialInv, IInv, TypeOK
  <2>2. StoreInv'
    BY <1>2, <1>5, ClaimIsAtomic, AtomicStoreInv DEF SerialInv
  <2> QED
    BY <1>1, <2>1, <2>2 DEF SerialInv
<1> QED
  <2>1. ASSUME NEW g \in Handlers,
               \/ \E id \in Deliverable : Receive(g, id)
               \/ ReadLicense(g) \/ ClaimLost(g) \/ Fail(g)
        PROVE  UNCHANGED store
    BY <2>1 DEF Receive, ReadLicense, ClaimLost, Fail
  <2> QED
    BY <1>3, <1>4, <1>5, <2>1 DEF Next, Work, vars

LEMMA SerialInit == Init => SerialInv
<1> SUFFICES ASSUME Init PROVE SerialInv
  OBVIOUS
<1>1. IInv
  BY InitIInv
<1>2. Opened
  BY DEF Init, StoreInit, Opened, ChargeOpened, CheckoutOpened
<1>3. OneLive /\ ActiveIsSettled /\ IssuedForCharge
  <2>1. Len(licenses) = 0
    BY EmptySeq DEF Init, StoreInit
  <2> QED
    BY <2>1 DEF OneLive, LiveLicenses, ActiveIsSettled, IssuedForCharge
<1>4. TasksFresh
  BY DEF Init, TasksFresh
<1>5. now \in Nat /\ StoreTypeOK
  BY <1>1 DEF Init, StoreInit, IInv, TypeOK
<1> QED
  BY <1>1, <1>2, <1>3, <1>4, <1>5 DEF SerialInv, StoreInv

-----------------------------------------------------------------------------
(***************************************************************************)
(* AtomicWebhooks reads the same tables through the same definitions.      *)
(***************************************************************************)
LEMMA AtomicOutcome ==
    ASSUME NEW id, NEW t
    PROVE  Atomic!ResolveLicense(Atomic!ResolvePayment(id), t) = Outcome(id, t)
<1>1. \A c : Atomic!NoEffect(c) = NoEffect(c)
  BY DEF Atomic!NoEffect, NoEffect
<1>2. /\ Atomic!KnownByProviderRef(id) <=> KnownByProviderRef(id)
      /\ Atomic!AmountMatches(id) <=> AmountMatches(id)
      /\ Atomic!PaymentsOf(id.charge) = PaymentsOf(id.charge)
  BY DEF Atomic!KnownByProviderRef, KnownByProviderRef, Atomic!AmountMatches, AmountMatches,
     Atomic!PaymentsOf, PaymentsOf, Atomic!CheckoutRefEvents, CheckoutRefEvents,
     Atomic!LapseEvents, LapseEvents, Atomic!ActivationEvents, ActivationEvents
<1>3. \A p, l : Atomic!SettlePayment(id, p, l) = SettlePayment(id, p, l)
  BY <1>1, <1>2 DEF Atomic!SettlePayment, SettlePayment
<1>4. /\ Atomic!resolve_activation(id) = resolve_activation(id)
      /\ Atomic!resolve_payment_failed(id) = resolve_payment_failed(id)
      /\ Atomic!resolve_subscription_inactive(id) = resolve_subscription_inactive(id)
  BY <1>1, <1>2 DEF Atomic!resolve_activation, resolve_activation,
     Atomic!resolve_payment_failed, resolve_payment_failed,
     Atomic!resolve_subscription_inactive, resolve_subscription_inactive
<1>5. /\ Atomic!resolve_refund(id) = resolve_refund(id)
      /\ Atomic!resolve_dispute_created(id) = resolve_dispute_created(id)
      /\ Atomic!resolve_dispute_closed(id) = resolve_dispute_closed(id)
  BY <1>1, <1>3 DEF Atomic!resolve_refund, resolve_refund, Atomic!resolve_dispute_created,
     resolve_dispute_created, Atomic!resolve_dispute_closed, resolve_dispute_closed
<1>6. Atomic!ResolvePayment(id) = ResolvePayment(id)
  BY <1>1, <1>4, <1>5, Zenon DEF Atomic!ResolvePayment, ResolvePayment,
     Atomic!ActivationEvents, ActivationEvents, Atomic!LapseEvents, LapseEvents,
     Atomic!RefundEvents, RefundEvents, Atomic!ClosedEvents, ClosedEvents
<1>7. \A c : Atomic!Latest(c) = Latest(c)
  BY DEF Atomic!Latest, Latest, Atomic!LiveLicenses, LiveLicenses
<1>8. \A c : Atomic!plan_period_end(c, t) = plan_period_end(c, t)
  BY DEF Atomic!plan_period_end, plan_period_end
<1>9. \A eff : Atomic!ResolveLicense(eff, t) = ResolveLicense(eff, t)
  BY <1>7, <1>8 DEF Atomic!ResolveLicense, ResolveLicense
<1> QED
  BY <1>6, <1>9 DEF Outcome

LEMMA AtomicProcess ==
    ASSUME NEW id, NEW t \in 0..now, AtomicStep(id, Outcome(id, t))
    PROVE  Atomic!Process(id)
<1>1. PICK eff : eff = Outcome(id, t)
  OBVIOUS
<1>2. Atomic!claim_and_apply(id, eff)
  BY <1>1 DEF AtomicStep, Atomic!claim_and_apply, claim_and_apply,
     Atomic!UniqueGatewayId, UniqueGatewayId, Atomic!AppliedPayments, AppliedPayments,
     Atomic!AppliedSubscriptions, AppliedSubscriptions, Atomic!AppliedLicenses, AppliedLicenses
<1>3. UNCHANGED <<session, Atomic!gateway, now>>
  BY DEF AtomicStep, gateway, Atomic!gateway
<1> QED
  BY <1>1, <1>2, <1>3, AtomicOutcome DEF Atomic!Process

LEMMA AtomicDeliverable == Deliverable \subseteq Atomic!Deliverable
<1>1. \A id : Sent(id) => Atomic!Sent(id)
  BY DEF Sent, Atomic!Sent, Captured, Atomic!Captured, LapseEvents, Atomic!LapseEvents,
     RefundEvents, Atomic!RefundEvents
<1> QED
  BY <1>1 DEF Deliverable, Atomic!Deliverable

LEMMA AtomicEnvironment ==
    ASSUME Environment
    PROVE  Atomic!Environment
<1>1. Checkout => Atomic!Checkout
  BY DEF Checkout, Atomic!Checkout, InsertSubscription, Atomic!InsertSubscription,
     CreateCheckout, Atomic!CreateCheckout, InsertPayment, Atomic!InsertPayment,
     CheckoutFails, Atomic!CheckoutFails, db, Atomic!db, gateway, Atomic!gateway
<1>2. Gateway => Atomic!Gateway
  BY DEF Gateway, Atomic!Gateway, Charge, Atomic!Charge, CanCharge, Atomic!CanCharge,
     Refund, Atomic!Refund, Dispute, Atomic!Dispute, Lapse, Atomic!Lapse,
     LapseEvents, Atomic!LapseEvents, Captured, Atomic!Captured, db, Atomic!db
<1>3. Tick => Atomic!Tick
  BY DEF Tick, Atomic!Tick, db, Atomic!db, gateway, Atomic!gateway
<1> QED
  BY <1>1, <1>2, <1>3 DEF Environment, Atomic!Environment

\* Every step is one of AtomicWebhooks, or changes nothing it sees.
LEMMA SerialRefines ==
    ASSUME NEW h, Handlers = {h}, SerialInv, [Next]_vars
    PROVE  [Atomic!AtomicNext]_Atomic!store
<1>1. CASE UNCHANGED store
  BY <1>1 DEF store, Atomic!store, db, Atomic!db, gateway, Atomic!gateway
<1>2. CASE Outside
  BY <1>2, AtomicEnvironment DEF Outside, Atomic!AtomicNext
<1>3. CASE Claim(h)
  BY <1>3, ClaimIsAtomic, AtomicProcess, AtomicDeliverable
     DEF Atomic!AtomicNext, Atomic!ProcessDelivered
<1>4. ASSUME NEW g \in Handlers,
             \/ \E id \in Deliverable : Receive(g, id)
             \/ ReadLicense(g) \/ ClaimLost(g) \/ Fail(g)
      PROVE  UNCHANGED store
  BY <1>4 DEF Receive, ReadLicense, ClaimLost, Fail
<1> QED
  BY <1>1, <1>2, <1>3, <1>4 DEF Next, Work, vars

LEMMA AtomicInit == Init => Atomic!StoreInit
BY DEF Init, StoreInit, Atomic!StoreInit

-----------------------------------------------------------------------------
\* The invariant of a server with one webhook task holds in every reachable state.
THEOREM SerialInductive ==
    ASSUME NEW h, Handlers = {h}
    PROVE  Spec => []SerialInv
<1>1. SerialInv /\ [Next]_vars => SerialInv'
  BY SerialStep
<1> QED
  BY <1>1, SerialInit, PTL DEF Spec

\* A server that handles one event at a time does what AtomicWebhooks does: an
\* event's lookups and its transaction have one moment, although the customer,
\* the gateway and the clock go on between them.
THEOREM SerialIsAtomic ==
    ASSUME NEW h, Handlers = {h}
    PROVE  Spec => RefinesAtomic
<1>1. SerialInv /\ [Next]_vars => [Atomic!AtomicNext]_Atomic!store
  BY SerialRefines
<1> QED
  BY <1>1, AtomicInit, SerialInductive, PTL DEF Spec, RefinesAtomic, Atomic!AtomicSpec

\* With one task a checkout never has two licenses that are not revoked:
\* renewals extend the one find_latest_by_subscription finds.
THEOREM SerialOneLive ==
    ASSUME NEW h, Handlers = {h}
    PROVE  Spec => []OneLiveLicense
<1>1. SerialInv => OneLiveLicense
  BY DEF SerialInv, StoreInv, OneLive, LiveLicenses, OneLiveLicense, Atomic!OneLiveLicense,
     Atomic!LiveLicenses
<1> QED
  BY <1>1, SerialInductive, PTL

\* With one task an active license's payment has succeeded and stands,
\* whatever events the gateway sends.
THEOREM SerialSettled ==
    ASSUME NEW h, Handlers = {h}
    PROVE  Spec => []ActiveIsSettled
<1>1. SerialInv => ActiveIsSettled
  BY DEF SerialInv, StoreInv
<1> QED
  BY <1>1, SerialInductive, PTL

\* With one task, and events that carry the amount (all activations but
\* subscription.activated), a license was issued for a captured charge of the
\* full price, and an active one's payment has succeeded and stands.
THEOREM SerialPaid ==
    ASSUME NEW h, Handlers = {h}, "subscription.activated" \notin EventTypes
    PROVE  Spec => []ActiveLicenseIsPaid
<1>1. SerialInv => ActiveLicenseIsPaid
  BY DEF SerialInv, StoreInv, ActiveIsSettled, IssuedForCharge, PaidInFull, Captured,
     ActiveLicenseIsPaid, Atomic!ActiveLicenseIsPaid, Atomic!Captured
<1> QED
  BY <1>1, SerialInductive, PTL

\* With one task the webhook path never revives a revoked license.
THEOREM SerialRevoked ==
    ASSUME NEW h, Handlers = {h}
    PROVE  Spec => RevokedStaysRevoked
<1> DEFINE A == \A l \in 1..Len(licenses) :
                  licenses[l].status = "revoked" => licenses'[l].status = "revoked"
<1>1. SerialInv /\ [Next]_vars => [A]_licenses
  <2> SUFFICES ASSUME SerialInv, [Next]_vars, licenses' # licenses PROVE A
    OBVIOUS
  <2>1. Claim(h)
    <3>1. ASSUME NEW g \in Handlers,
                 \/ \E id \in Deliverable : Receive(g, id)
                 \/ ReadLicense(g) \/ ClaimLost(g) \/ Fail(g)
          PROVE  UNCHANGED licenses
      BY <3>1 DEF Receive, ReadLicense, ClaimLost, Fail, store, db
    <3>2. CASE Outside
      BY <3>2, OutsideStep DEF SerialInv
    <3> QED
      BY <3>1, <3>2 DEF Next, Work, vars, store, db
  <2> QED
    BY <2>1, ClaimIsAtomic, AtomicRevokes DEF SerialInv, StoreInv
<1> QED
  BY <1>1, SerialInductive, PTL DEF Spec, RevokedStaysRevoked, Atomic!RevokedStaysRevoked
=============================================================================
