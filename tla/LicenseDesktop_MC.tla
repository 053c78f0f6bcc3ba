-------------------------- MODULE LicenseDesktop_MC --------------------------
(* Model values for checking LicenseDesktop.                               *)
EXTENDS LicenseDesktop

CONSTANTS t1, t2

OneThread  == {t1}
TwoThreads == {t1, t2}
Refusals   == {"active", "suspended", "revoked"}
Expiry     == {"active", "expired"}
=============================================================================
