------------------------------- MODULE Tunnel -------------------------------
(***************************************************************************)
(* What a proxied connection promises its two ends: each direction is a    *)
(* byte stream. What one end sends reaches the other in order, without     *)
(* loss or repetition, as long as the tunnel is open; it closes once, and  *)
(* then nothing more arrives. Once a read has failed, anything may arrive  *)
(* until it closes.                                                        *)
(***************************************************************************)
EXTENDS Integers, Sequences, SequencesExt

CONSTANT Ends

VARIABLES
    sent,      \* sent[e]: what e has sent
    received,  \* received[e]: the part of sent[e] that has reached the other end
    open, failing

tunnelVars == <<sent, received, open, failing>>

TunnelInit ==
    /\ sent = [e \in Ends |-> <<>>]
    /\ received = [e \in Ends |-> <<>>]
    /\ open = TRUE /\ failing = FALSE

Send(e) ==
    /\ Len(sent'[e]) > Len(sent[e]) /\ IsPrefix(sent[e], sent'[e])
    /\ \A f \in Ends \ {e} : sent'[f] = sent[f]
    /\ UNCHANGED <<received, open, failing>>

Deliver(e) ==
    /\ open
    /\ Len(received'[e]) > Len(received[e])
    /\ IsPrefix(received[e], received'[e])
    /\ failing \/ IsPrefix(received'[e], sent[e])
    /\ \A f \in Ends \ {e} : received'[f] = received[f]
    /\ UNCHANGED <<sent, open, failing>>

CloseTunnel == open /\ open' = FALSE /\ UNCHANGED <<sent, received, failing>>

Fail == ~failing /\ failing' = TRUE /\ UNCHANGED <<sent, received, open>>

TunnelNext == CloseTunnel \/ Fail \/ \E e \in Ends : Send(e) \/ Deliver(e)

TunnelSpec == TunnelInit /\ [][TunnelNext]_tunnelVars
=============================================================================
