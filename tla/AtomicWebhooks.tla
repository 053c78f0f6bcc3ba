--------------------------- MODULE AtomicWebhooks ---------------------------
(***************************************************************************)
(* What POST /webhooks/razorpay promises: every event id is processed at   *)
(* most once, and what it does depends on the rows as they are when it is  *)
(* claimed.  This is process_webhook_event with no other handler between   *)
(* its reads and its transaction, which is also how a server that handles  *)
(* one event at a time behaves (PaymentWebhooks checks that it does).      *)
(***************************************************************************)
EXTENDS PaymentStore

\* The period is counted from the time t at which the event was read.
Process(id) ==
    /\ \E t \in 0..now : claim_and_apply(id, ResolveLicense(ResolvePayment(id), t))
    /\ UNCHANGED <<session, gateway, now>>

ProcessDelivered == \E id \in Deliverable : Process(id)

AtomicNext == Environment \/ ProcessDelivered

AtomicSpec == StoreInit /\ [][AtomicNext]_store

(***************************************************************************)
(* Safety.                                                                 *)
(***************************************************************************)

\* A subscription has at most one license that is not revoked: renewals
\* extend the row find_latest_by_subscription finds, and only a
\* subscription without one is issued a new license.
OneLiveLicense ==
    \A c \in Checkouts : \A l, m \in LiveLicenses(c) : l = m

\* A license was issued for a charge of its checkout that the gateway captured
\* at the full price (resolve_activation's amount check), and while it is
\* active its payment stands: not one that failed, was refunded, or is under
\* dispute.
ActiveLicenseIsPaid ==
    \A l \in 1..Len(licenses) :
        /\ licenses[l].status = "active" =>
              payments[licenses[l].subscription].status = "succeeded"
        /\ \E ch \in Charges :
              /\ charges[ch].checkout = licenses[l].subscription
              /\ Captured(ch) /\ charges[ch].amount_ok

\* payments.gateway_payment_id, the only key refunds and disputes are matched
\* by, names a captured charge of that very checkout.
GatewayIdBelongs ==
    \A c \in Checkouts : payments[c].gateway_payment_id # NoCharge =>
        /\ Captured(payments[c].gateway_payment_id)
        /\ charges[payments[c].gateway_payment_id].checkout = c

\* The webhook path never revives a revoked license: a refund, a lost
\* dispute and a cancellation are final for the row they revoked.
RevokedStaysRevoked ==
    [][\A l \in 1..Len(licenses) :
         licenses[l].status = "revoked" => licenses'[l].status = "revoked"]_licenses

=============================================================================
