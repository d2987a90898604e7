------------------------------ MODULE MCRelay -------------------------------
(* Instances of Relay for TLC.                                             *)
EXTENDS Relay

\* One request, with and without a header to remove.
OneRequest == {<<"request", "data", "data">>, <<"request", "proxy", "data">>}

\* Several requests, and reads that start between them.
Keepalive == UNION {[1..n -> {"request", "proxy", "data"}] : n \in 1..4}
=============================================================================
