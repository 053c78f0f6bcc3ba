---------------------- MODULE PaymentReconciliation_MC ----------------------
(* Model values and event sets for checking PaymentReconciliation.         *)
EXTENDS PaymentReconciliation

CONSTANTS link, pay1, pay2, job, web

LinkOnly   == {link}
None       == {}
OneCharge  == {pay1}
TwoCharges == {pay1, pay2}
JobOnly    == {job}
JobAndWeb  == {job, web}
LateEvents == {"refund.created"}
=============================================================================
