------------------------------ MODULE MCServer ------------------------------
(* Model values for Server.                                                *)
EXTENDS Server
TwoWorkers == {"w1", "w2"}
=============================================================================
