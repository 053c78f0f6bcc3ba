------------------------- MODULE PaymentWebhooks_MC -------------------------
(* Model values and event sets for checking PaymentWebhooks.               *)
EXTENDS PaymentWebhooks, TLC

CONSTANTS link, plan, pay1, pay2, h1, h2

LinkOnly   == {link}
PlanOnly   == {plan}
Both       == {link, plan}
None       == {}
TwoCharges == {pay1, pay2}
OneHandler == {h1}
TwoHandlers == {h1, h2}
Symmetry   == Permutations(TwoCharges) \cup Permutations(TwoHandlers)

\* Everything that can happen to a one-time payment.
LinkEvents == {"payment.captured", "payment_link.paid", "payment.failed",
               "refund.created", "payment.dispute.created",
               "dispute.won", "dispute.lost"}
\* One customer pays once, the other renews, lapses and is refunded.
PaidEvents == {"payment_link.paid", "subscription.charged",
               "subscription.halted", "refund.created"}
\* The two activation events of a subscription's first charge, and its refund.
RefundRace == {"subscription.activated", "subscription.charged", "refund.created"}
\* A halted subscription with a dispute the merchant wins.
HaltAndDispute == {"subscription.activated", "subscription.charged",
                   "subscription.halted", "subscription.cancelled",
                   "payment.dispute.created", "dispute.won",
                   "dispute.under_review", "payment.authorized"}
=============================================================================
