----------------------------- MODULE MCAutoconf -----------------------------
(* The instance of Autoconf for TLC: a censor that falls for nothing, for the
   first or the last attack that is tried, or for two.                       *)
EXTENDS Autoconf

FirstTried == [zero |-> "none", first |-> "disorder_fake", scale |-> FALSE]
LastTried  == [zero |-> "rstack", first |-> "split_fake", scale |-> TRUE]
SomeFooled == {{}, {FirstTried}, {LastTried}, {FirstTried, LastTried}}
=============================================================================
