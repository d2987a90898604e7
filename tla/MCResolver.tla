----------------------------- MODULE MCResolver -----------------------------
(* The instance of Resolver for TLC: three datagrams, so that a stray one, a
   repeated one and the answer can meet.                                     *)
EXTENDS Resolver
=============================================================================
