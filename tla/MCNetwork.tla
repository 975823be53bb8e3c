----------------------------- MODULE MCNetwork -----------------------------
(* Two networks and a hot spot that change a few times, for TLC.           *)
EXTENDS Network

Offered(addrs, dns, foreground) == [addrs |-> addrs, dns |-> dns, foreground |-> foreground]

\* WiFi comes and goes; the other network has an address that baresip does
\* not take, and goes to the background with other servers.
MCOffers ==
    [wifi |-> {Offered({"w1", "w6"}, <<"s1", "s2">>, TRUE)},
     cell |-> {Offered({"c1", "c9"}, <<"s3">>, TRUE), Offered({"c1"}, <<"bad", "s3">>, FALSE)}]

\* In the middle of updates two changes, between updates four.
MCChanges == [alone |-> 2, calm |-> 4]
=============================================================================
