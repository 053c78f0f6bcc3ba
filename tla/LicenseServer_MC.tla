-------------------------- MODULE LicenseServer_MC --------------------------
(* Model values for checking LicenseServer.                                *)
EXTENDS LicenseServer

CONSTANTS m1, m2, m3, admin

ThreeMachines == {m1, m2, m3}
TwoMachines   == {m1, m2}
OneAdmin      == {admin}
=============================================================================
