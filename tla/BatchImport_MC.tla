--------------------------- MODULE BatchImport_MC ---------------------------
(* Two clients and two files for checking BatchImport: one file has a       *)
(* transaction twice, the other, protected, shares one with it.             *)
EXTENDS BatchImport

CONSTANTS c1, c2, open, locked, k1, k2

Two == {c1, c2}

TwoFiles  == {open, locked}
InOrder   == <<open, locked>>
Overlap   == (open :> <<k1, k1, k2>>) @@ (locked :> <<k2>>)
Protected == {locked}
=============================================================================
