------------------------- MODULE LegacyMigration_MC -------------------------
(***************************************************************************)
(* Two exports: the first names a client twice, repeats a hash and keeps   *)
(* rules of the global scope; the second declares a wrong count and shares *)
(* a transaction id with the first.  The used database has an import of    *)
(* the first twice, as two statements of one name and length leave it.     *)
(***************************************************************************)
EXTENDS LegacyMigration

MCOldIds == {"c1", "c2", "c3", "c4"}
MCNames  == {"old", "acme", "zeta"}
MCKeys   == {"neft", "upi", "rent", "fees", "h0", "h1"}
MCFiles  == {"f1", "f2", "f3"}
MCTxnIds == {"ob", "t1", "t2"}

At(c, k) == [client |-> c, key |-> k]
Big == [clients  |-> <<[id |-> "c1", name |-> "acme"], [id |-> "c2", name |-> "acme"]>>,
        rules    |-> <<At("c1", "neft"), At("global", "upi"), At("c2", "neft")>>,
        ledgers  |-> <<At("c1", "rent"), At("c3", "rent")>>,
        hashes   |-> <<At("c1", "h1"), At("c2", "h1")>>,
        history  |-> <<[client |-> "c1", file |-> "f1", count |-> 2, txns |-> <<"ob", "t1">>]>>,
        settings |-> "good"]
Small == [clients  |-> <<[id |-> "c1", name |-> "acme"], [id |-> "c4", name |-> "zeta"]>>,
          rules    |-> <<>>, ledgers |-> <<At("c4", "rent"), At("c1", "fees"), At("c4", "fees")>>, 
          hashes |-> <<At("c4", "h1")>>,
          history  |-> <<[client |-> "c1", file |-> "f2", count |-> 3, txns |-> <<"ob", "t2">>],
                         [client |-> "c4", file |-> "f3", count |-> 1, txns |-> <<"ob">>]>>,
          settings |-> "broken"]
MCExports == {Big, Small}

Empty == [clients |-> <<>>, rules |-> {}, ledgers |-> {}, hashes |-> {}, history |-> <<>>,
          txns |-> {}, settings |-> "own"]
Loaded == [client |-> 2, file |-> "f1", count |-> 2]
Used == [Empty EXCEPT !.clients = <<"old", "acme">>, !.rules = {<<2, "neft">>},
                      !.hashes = {<<1, "h1">>, <<2, "h0">>},
                      !.history = <<Loaded, Loaded>>]
MCInitialDbs == {Empty, Used}
=============================================================================
