--------------------------- MODULE MCClientSetup ---------------------------
(***************************************************************************)
(* Instances of ClientSetup for TLC: this connection's port and one other  *)
(* connection of the host.                                                 *)
(***************************************************************************)
EXTENDS ClientSetup

MCPorts == {1080, 1081}

\* Every fault but that which keeps a setup from ending; that one and some beside it; a
\* lost SYN,ACK.
SomeFaults == {AllEvents \ {"raw_socket_fails"},
               {"raw_socket_fails", "profile_change", "send_fails"}, {"lost"}}
NewProfile == {{"profile_change"}}
=============================================================================
