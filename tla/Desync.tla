------------------------------- MODULE Desync -------------------------------
(***************************************************************************)
(* One desync attack: do_desync_attack writes the first request of a       *)
(* connection with a raw socket, mixed with fakes the server must not see, *)
(* behind the back of the kernel's TCP; process_client_cycle then sends    *)
(* as many zero bytes through the kernel, so that the kernel's sequence    *)
(* numbers catch up with the server's.                                     *)
(*                                                                         *)
(* The request is positions 1..last_char of the stream. A packet says      *)
(* which positions it covers; what the server's TCP has stored at each     *)
(* position is the state that matters.                                     *)
(***************************************************************************)
EXTENDS Integers, Sequences, AutoTtl

CONSTANTS
    Profiles,     \* the attack settings a run explores
    MaxLen,       \* bound: bytes of the first request
    FakeLen,      \* bound: bytes of FAKE_TLS_PACKET and FAKE_HTTP_PACKET
    Hops,         \* numbers of routers between the proxy and the server
    InitialTtls,  \* TTLs servers send their packets with
    FaultSets     \* the combinations of faults a run explores

AllEvents == {"raw_fails",   \* a call on the raw socket fails
              "send_fails",  \* send_string on the server socket fails
              "loss",        \* the network loses a packet
              "reorder"}     \* the network reorders packets

ZeroAttacks  == {"fake", "rst", "none"}   \* rst stands for rst and rstack
FirstAttacks == {"disorder", "disorder_fake", "split", "split_fake", "none"}

ProfileType ==
    [zero: ZeroAttacks, first: FirstAttacks, wrong_seq: BOOLEAN,
     fake_packets_ttl: Byte, auto_ttl: BOOLEAN, auto_ttl_a1: Byte,
     auto_ttl_a2: Byte, auto_ttl_max: Byte, min_ttl: Byte]

DefaultTtl == 64

ASSUME ProfilesAssumption == Profiles \subseteq ProfileType
ASSUME LengthsAssumption == MaxLen \in Nat \ {0} /\ FakeLen \in Nat \ {0}
ASSUME PathAssumption ==
    /\ Hops \subseteq 1..29
    /\ InitialTtls \subseteq {64, 128, 255}
ASSUME FaultsAssumption == FaultSets \subseteq SUBSET AllEvents

VARIABLES
    profile, last_char, split_pos,  \* the settings and the request
    hops, ttl,                      \* the path, and the TTL of the SYN,ACK
    faults,                         \* what may go wrong on it
    pc, plan,                       \* the client thread and what it will send
    wire,                           \* packets on their way to the server
    snd_nxt,                        \* bytes the kernel believes it has sent
    rcv, reset                      \* the server's TCP

setting == <<profile, last_char, split_pos, hops, ttl, faults>>
vars == <<setting, pc, plan, wire, snd_nxt, rcv, reset>>

Positions == 1..(MaxLen + FakeLen)

-----------------------------------------------------------------------------
(* What is sent.                                                           *)

FakePacketTtl ==
    IF profile.auto_ttl
    THEN tcp_get_auto_ttl(ttl, profile.auto_ttl_a1, profile.auto_ttl_a2,
                          profile.min_ttl, profile.auto_ttl_max)
    ELSE IF profile.fake_packets_ttl # 0 THEN profile.fake_packets_ttl ELSE DefaultTtl

\* `DON'T send fakes`: without --auto-ttl, --min-ttl leaves the data packet only.
DataOnly ==
    /\ ~profile.auto_ttl /\ profile.min_ttl # 0
    /\ tcp_get_auto_ttl(ttl, 0, 0, profile.min_ttl, 0) # 0

ZeroAttack == IF profile.zero = "none" THEN <<>> ELSE <<profile.zero>>

\* Mutant: the fakes of disorder_fake replace the first half.
FirstAttack_FakeInPlace ==
    CASE profile.first = "disorder"      -> <<"second", "first">>
      [] profile.first = "disorder_fake" -> <<"second", "zeros", "zeros">>
      [] profile.first = "split"         -> <<"first", "second">>
      [] profile.first = "split_fake"    -> <<"zeros", "first", "zeros", "second">>
      [] OTHER                           -> <<"whole">>

FirstAttack ==
    CASE profile.first = "disorder"      -> <<"second", "first">>
      [] profile.first = "disorder_fake" -> <<"second", "zeros", "first", "zeros">>
      [] profile.first = "split"         -> <<"first", "second">>
      [] profile.first = "split_fake"    -> <<"zeros", "first", "zeros", "second">>
      [] OTHER                           -> <<"whole">>

Steps == {"fake", "rst", "zeros", "first", "second", "whole"}
Plan  == IF DataOnly THEN <<"whole">> ELSE ZeroAttack \o FirstAttack

\* form_packet: the captured SYN,ACK's headers turned round, sequence number and
\* TTL as asked. Fakes carry the drifted numbers under --wrong-seq.
Packet == [kind: {"data", "fake", "rst", "sync"}, lo: Nat, hi: Nat, ttl: Byte, valid: BOOLEAN]

Data(lo, hi) == [kind |-> "data", lo |-> lo, hi |-> hi, ttl |-> DefaultTtl, valid |-> TRUE]
Fake(kind, hi) ==
    [kind |-> kind, lo |-> 1, hi |-> hi, ttl |-> FakePacketTtl, valid |-> ~profile.wrong_seq]
Sync(lo, hi) == [kind |-> "sync", lo |-> lo, hi |-> hi, ttl |-> DefaultTtl, valid |-> TRUE]

form_packet(step) ==
    CASE step = "fake"   -> Fake("fake", FakeLen)
      [] step = "rst"    -> Fake("rst", 0)
      [] step = "zeros"  -> Fake("fake", split_pos)
      [] step = "first"  -> Data(1, split_pos)
      [] step = "second" -> Data(split_pos + 1, last_char)
      [] OTHER           -> Data(1, last_char)

-----------------------------------------------------------------------------
TypeOK ==
    /\ profile \in Profiles
    /\ last_char \in 1..MaxLen /\ split_pos \in 0..last_char
    /\ hops \in Hops /\ ttl \in Byte /\ faults \in FaultSets
    /\ pc \in {"attack", "sync", "sync_rest", "done", "failed"}
    /\ plan \in Seq(Steps)
    /\ wire \in Seq(Packet)
    /\ snd_nxt \in 0..MaxLen
    /\ rcv \in [Positions -> {"none", "real", "zero", "fake"}]
    /\ reset \in BOOLEAN

\* split_pos is min(split_position, last_char) or a position inside the SNI; the
\* captured SYN,ACK has lost one from its TTL at every router.
Init ==
    /\ profile \in Profiles
    /\ last_char \in 1..MaxLen /\ split_pos \in 0..last_char
    /\ hops \in Hops /\ \E initial \in InitialTtls : ttl = initial - hops
    /\ faults \in FaultSets
    /\ pc = "attack" /\ plan = Plan
    /\ wire = <<>> /\ snd_nxt = 0
    /\ rcv = [i \in Positions |-> "none"] /\ reset = FALSE

\* The next packet is written to the raw socket.
SendRaw ==
    /\ pc = "attack" /\ plan # <<>>
    /\ wire' = Append(wire, form_packet(Head(plan)))
    /\ plan' = Tail(plan)
    /\ UNCHANGED <<setting, pc, snd_nxt, rcv, reset>>

\* do_desync_attack returns: all is sent, or a call failed and the rest is given
\* up. process_client_cycle does not look at the result.
AttackReturns ==
    /\ pc = "attack"
    /\ plan = <<>> \/ "raw_fails" \in faults
    /\ pc' = "sync" /\ plan' = <<>>
    /\ UNCHANGED <<setting, wire, snd_nxt, rcv, reset>>

\* send_string(server_socket, data_empty, len): nothing is sent for len = 0.
SendZeros(len, next) ==
    /\ wire' = IF len = 0 THEN wire ELSE Append(wire, Sync(snd_nxt + 1, snd_nxt + len))
    /\ snd_nxt' = snd_nxt + len
    /\ pc' = next

\* Mutant: the second half of the zeros is forgotten.
SyncFirst_HalfOnly ==
    /\ pc = "sync"
    /\ IF profile.first = "none" THEN SendZeros(last_char, "done") ELSE SendZeros(split_pos, "done")
    /\ UNCHANGED <<setting, plan, rcv, reset>>

\* Mutant: send_string does not return before it has sent something.
SyncFirst_WaitsForOne ==
    /\ pc = "sync"
    /\ IF profile.first = "none" THEN SendZeros(last_char, "done")
       ELSE SendZeros(split_pos, IF split_pos = 0 THEN "sync" ELSE "sync_rest")
    /\ UNCHANGED <<setting, plan, rcv, reset>>

SyncFirst ==
    /\ pc = "sync"
    /\ IF profile.first = "none"
       THEN SendZeros(last_char, "done") ELSE SendZeros(split_pos, "sync_rest")
    /\ UNCHANGED <<setting, plan, rcv, reset>>

\* Mutant: the second send_string sends the whole length again.
SyncRest_WholeLength ==
    /\ pc = "sync_rest"
    /\ SendZeros(last_char, "done")
    /\ UNCHANGED <<setting, plan, rcv, reset>>

SyncRest ==
    /\ pc = "sync_rest"
    /\ SendZeros(last_char - split_pos, "done")
    /\ UNCHANGED <<setting, plan, rcv, reset>>

\* send_string fails: the client is told and both sockets are closed.
SyncFails ==
    /\ pc \in {"sync", "sync_rest"} /\ "send_fails" \in faults
    /\ pc' = "failed"
    /\ UNCHANGED <<setting, plan, wire, snd_nxt, rcv, reset>>

-----------------------------------------------------------------------------
(* The network and the server's TCP.                                       *)

Remove(s, i) == [j \in 1..(Len(s) - 1) |-> IF j < i THEN s[j] ELSE s[j + 1]]

Content(pkt) == CASE pkt.kind = "data" -> "real" [] pkt.kind = "sync" -> "zero" [] OTHER -> "fake"

\* Does the server's TCP take this packet in?
Accepted(pkt) == Reaches(pkt.ttl, hops) /\ pkt.valid /\ ~reset

\* The server's TCP keeps the first content it sees at each position.
Arrive ==
    \E i \in 1..Len(wire) :
      LET pkt == wire[i]
      IN  /\ i = 1 \/ "reorder" \in faults
          /\ wire' = Remove(wire, i)
          /\ rcv' = [p \in Positions |->
                       IF /\ Accepted(pkt) /\ pkt.kind # "rst"
                          /\ pkt.lo <= p /\ p <= pkt.hi /\ rcv[p] = "none"
                       THEN Content(pkt) ELSE rcv[p]]
          /\ reset' = (reset \/ (Accepted(pkt) /\ pkt.kind = "rst"))
          /\ UNCHANGED <<setting, pc, plan, snd_nxt>>

\* Raw packets are lost for good; the kernel sends its own again.
Lose ==
    /\ "loss" \in faults
    /\ \E i \in 1..Len(wire) : wire[i].kind # "sync" /\ wire' = Remove(wire, i)
    /\ UNCHANGED <<setting, pc, plan, snd_nxt, rcv, reset>>

Finished == pc \in {"done", "failed"} /\ wire = <<>>

Next ==
    \/ SendRaw \/ AttackReturns \/ SyncFirst \/ SyncRest \/ SyncFails
    \/ Arrive \/ Lose
    \/ Finished /\ UNCHANGED vars

\* The client thread goes on and the network delivers what it does not lose.
Fairness ==
    /\ WF_vars(SendRaw \/ AttackReturns \/ SyncFirst \/ SyncRest)
    /\ WF_vars(Arrive)

Spec     == Init /\ [][Next]_vars
FairSpec == Spec /\ Fairness

-----------------------------------------------------------------------------
(* Properties.                                                             *)

\* Settings with which no fake can be taken in by the server: drifted sequence
\* numbers, a fixed TTL within the path, or an automatic one whose a1 and a2 do
\* not exceed the minimum distance.
Tuned(p, h) ==
    \/ p.zero = "none" /\ p.first \in {"disorder", "split", "none"}
    \/ p.wrong_seq
    \/ ~p.auto_ttl /\ p.fake_packets_ttl # 0 /\ p.fake_packets_ttl <= h
    \/ p.auto_ttl /\ p.auto_ttl_a1 <= p.auto_ttl_a2 /\ p.auto_ttl_a2 <= p.min_ttl

\* No fake packet and no reset reaches the server with numbers it accepts: the
\* TTL computed by tcp_get_auto_ttl never exceeds the length of the path.
FakesFallShort ==
    \A i \in 1..Len(wire) :
       wire[i].kind \in {"fake", "rst"} => ~wire[i].valid \/ ~Reaches(wire[i].ttl, hops)

\* The server's application sees the client's request and nothing else: no
\* fake, no zero byte meant for the kernel only, no reset, as long as the network
\* loses and reorders nothing and every call succeeds.
StreamIntact ==
    faults = {} =>
       /\ ~reset
       /\ \A p \in Positions : rcv[p] # "none" => rcv[p] = "real" /\ p <= last_char

\* When everything sent has arrived, the kernel's idea of the stream and the
\* server's agree, even if raw packets were lost, reordered or never sent.
SeqAgrees ==
    pc = "done" /\ wire = <<>> =>
       snd_nxt = last_char /\ \A p \in Positions : rcv[p] # "none" <=> p <= snd_nxt

\* Without faults the whole request reaches the server's application, and the
\* client thread gets to the relay loop, an empty half included.
RequestDelivered ==
    faults = {} => <>(pc = "done" /\ \A p \in 1..last_char : rcv[p] = "real")
=============================================================================
