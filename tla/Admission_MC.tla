---------------------------- MODULE Admission_MC ----------------------------
(***************************************************************************)
(* Two clients, one of them behind a second proxy, and a header that was   *)
(* not empty; a user, an administrator and a wrong password; one device.   *)
(***************************************************************************)
EXTENDS Admission, TLC

Login(hops, said, email, right) ==
    [kind |-> "login", hops |-> hops, said |-> said, email |-> email, right |-> right, device |-> NoDevice]
Other(kind, device) ==
    [kind |-> kind, hops |-> <<"a">>, said |-> <<>>, email |-> "", right |-> FALSE, device |-> device]

MCArrivals ==
    {Login(<<"a", "p">>, <<>>, "root", TRUE), Login(<<"a", "p">>, <<"b">>, "ann", TRUE),
     Login(<<"b", "q", "p">>, <<>>, "ann", FALSE),
     Other("validate", "d"), Other("validate", NoDevice)}
    \cup {Other(k, NoDevice) : k \in {"logout", "subscription", "admin"}}
Symmetry == Permutations(Requests)
=============================================================================
