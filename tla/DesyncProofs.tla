---------------------------- MODULE DesyncProofs ----------------------------
(***************************************************************************)
(* Theorems about tcp_get_auto_ttl and the packets of a desync attack, for *)
(* every set of profiles, every request length and every fault.            *)
(***************************************************************************)
EXTENDS Desync, TLAPS

-----------------------------------------------------------------------------
(* tcp_get_auto_ttl.                                                       *)

\* The distance is recovered exactly, or not at all: a server that starts with
\* 255 is not recognised.
LEMMA DistanceKnown ==
    ASSUME NEW h \in 1..29, NEW initial \in {64, 128, 255}
    PROVE  NHops(initial - h) \in {0, h} /\ initial - h \in Byte
BY SMT DEF NHops, Byte

\* The scale takes off at least nothing and at most a2 - a1.
LEMMA ScaledBounds ==
    ASSUME NEW a1 \in Byte, NEW a2 \in Byte, NEW k \in 1..9, a1 <= a2
    PROVE  Scaled(a1, a2, k) \in 0..(a2 - a1)
<1> DEFINE d == a2 - a1
<1>1. d \in Nat
  BY SMT DEF Byte
<1>2. (d * k) \div 10 \in 0..d
  <2>1. \/ k = 1 \/ k = 2 \/ k = 3 \/ k = 4 \/ k = 5
        \/ k = 6 \/ k = 7 \/ k = 8 \/ k = 9
    BY SMT
  <2> HIDE DEF d
  <2>2. QED
    BY SMT, <1>1, <2>1
<1>3. QED
  BY SMT, <1>2 DEF Scaled, Byte

\* When the distance is at least a2, the TTL is the distance less at least a1:
\* the subtractions do not wrap round.
LEMMA FakeTtlBounds ==
    ASSUME NEW a1 \in Byte, NEW a2 \in Byte, NEW k \in 1..29, a1 <= a2, a2 <= k
    PROVE  FakeTtl(k, a1, a2) \in 0..(k - a1)
<1>1. (k - a2) % 256 = k - a2
  BY SMT DEF Byte
<1>2. CASE (k - a2) % 256 < a2 /\ k <= 9
  <2>1. Scaled(a1, a2, k) \in 0..(a2 - a1)
    BY <1>2, ScaledBounds, SMT
  <2>2. k - a1 - Scaled(a1, a2, k) \in 0..(k - a1)
    BY SMT, <2>1 DEF Byte
  <2>3. (k - a1 - Scaled(a1, a2, k)) % 256 = k - a1 - Scaled(a1, a2, k)
    BY SMT, <2>2 DEF Byte
  <2>4. QED
    BY SMT, <1>2, <2>2, <2>3 DEF FakeTtl
<1>3. CASE ~((k - a2) % 256 < a2 /\ k <= 9)
  BY SMT, <1>1, <1>3 DEF FakeTtl, Byte
<1>4. QED
  BY <1>2, <1>3

\* A minimum distance of at least a2 is all it takes: the automatic TTL never
\* exceeds the distance it was computed from, less a1, whatever the maximum.
\* (The default 1-4-10 comes with a minimum of 3, and wraps round at 3.)
THEOREM AutoTtlFallsShort ==
    ASSUME NEW t \in Byte, NEW a1 \in Byte, NEW a2 \in Byte,
           NEW minhops \in Byte, NEW maxttl \in Byte, a1 <= a2, a2 <= minhops
    PROVE  LET r == tcp_get_auto_ttl(t, a1, a2, minhops, maxttl)
           IN  r \in Byte /\ (r = 0 \/ r <= NHops(t) - a1)
<1>1. NHops(t) \in 0..29
  BY SMT DEF NHops, Byte
<1>2. CASE NHops(t) = 0 \/ NHops(t) <= a1 \/ NHops(t) < minhops
  BY SMT, <1>2 DEF tcp_get_auto_ttl, Byte
<1>3. CASE ~(NHops(t) = 0 \/ NHops(t) <= a1 \/ NHops(t) < minhops)
  <2>1. NHops(t) \in 1..29 /\ a2 <= NHops(t)
    BY SMT, <1>1, <1>3 DEF Byte
  <2>2. FakeTtl(NHops(t), a1, a2) \in 0..(NHops(t) - a1)
    BY <2>1, FakeTtlBounds
  <2>3. QED
    BY SMT, <1>1, <1>3, <2>2 DEF tcp_get_auto_ttl, Byte
<1>4. QED
  BY <1>2, <1>3

\* Whatever the parameters, the TTL is a byte.
LEMMA AutoTtlType ==
    ASSUME NEW t \in Byte, NEW a1 \in Byte, NEW a2 \in Byte,
           NEW minhops \in Byte, NEW maxttl \in Byte
    PROVE  tcp_get_auto_ttl(t, a1, a2, minhops, maxttl) \in Byte
<1>1. NHops(t) \in 0..29
  BY SMT DEF NHops, Byte
<1>2. Scaled(a1, a2, NHops(t)) \in Int
  <2>1. \A x, y \in Int : x * y \in Int
    BY SMT
  <2>2. \A x \in Int : x \div 10 \in Int
    BY SMT
  <2>3. a2 - a1 \in Int /\ a1 - a2 \in Int /\ NHops(t) \in Int
    BY SMT, <1>1 DEF Byte
  <2>4. ((a2 - a1) * NHops(t)) \div 10 \in Int /\ ((a1 - a2) * NHops(t)) \div 10 \in Int
    BY Zenon, <2>1, <2>2, <2>3
  <2>5. QED
    BY SMT, <2>4 DEF Scaled
<1>3. FakeTtl(NHops(t), a1, a2) \in Byte
  <2>1. \A x \in Int : x % 256 \in Byte
    BY SMT DEF Byte
  <2>2. NHops(t) - a2 \in Int /\ NHops(t) - a1 - Scaled(a1, a2, NHops(t)) \in Int
    BY SMT, <1>1, <1>2 DEF Byte
  <2>3. QED
    BY Zenon, <2>1, <2>2 DEF FakeTtl
<1>4. QED
  BY SMT, <1>1, <1>3 DEF tcp_get_auto_ttl, Byte

-----------------------------------------------------------------------------
(* The packets of an attack.                                               *)

\* The settings and the path do not change; they determine the TTL of fakes.
PathInv ==
    /\ profile \in Profiles /\ hops \in Hops
    /\ \E initial \in InitialTtls : ttl = initial - hops

\* The TTL the SYN,ACK arrived with is a byte and tells the distance or nothing.
LEMMA PathFacts ==
    ASSUME PathInv
    PROVE  /\ hops \in 1..29 /\ ttl \in Byte /\ NHops(ttl) \in {0, hops}
           /\ profile \in ProfileType
<1>1. PICK initial \in InitialTtls : ttl = initial - hops
  BY DEF PathInv
<1>2. hops \in 1..29 /\ initial \in {64, 128, 255}
  BY Zenon, PathAssumption DEF PathInv
<1>3. NHops(initial - hops) \in {0, hops} /\ initial - hops \in Byte
  BY <1>2, DistanceKnown
<1>4. profile \in ProfileType
  BY Zenon, ProfilesAssumption DEF PathInv
<1>5. QED
  BY <1>1, <1>2, <1>3, <1>4

\* With tuned settings that send fakes at all, a fake has drifted numbers or a
\* TTL that does not reach the server.
SendsFakes == ~(profile.zero = "none" /\ profile.first \in {"disorder", "split", "none"})
Safe == profile.wrong_seq \/ FakePacketTtl <= hops

\* Tuned settings are safe.
LEMMA TunedIsSafe ==
    ASSUME PathInv, Tuned(profile, hops), SendsFakes
    PROVE  Safe
<1>1. /\ hops \in 1..29 /\ ttl \in Byte /\ NHops(ttl) \in {0, hops}
      /\ profile \in ProfileType
  BY PathFacts
<1>2. CASE profile.wrong_seq
  BY <1>2 DEF Safe
<1>3. CASE ~profile.auto_ttl /\ profile.fake_packets_ttl # 0 /\ profile.fake_packets_ttl <= hops
  BY Zenon, <1>3 DEF Safe, FakePacketTtl
<1>4. CASE profile.auto_ttl /\ profile.auto_ttl_a1 <= profile.auto_ttl_a2
           /\ profile.auto_ttl_a2 <= profile.min_ttl
  <2> DEFINE r == tcp_get_auto_ttl(ttl, profile.auto_ttl_a1, profile.auto_ttl_a2,
                                   profile.min_ttl, profile.auto_ttl_max)
  <2>1. /\ profile.auto_ttl_a1 \in Byte /\ profile.auto_ttl_a2 \in Byte
        /\ profile.min_ttl \in Byte /\ profile.auto_ttl_max \in Byte
    BY SMT, <1>1 DEF ProfileType
  <2>2. r \in Byte /\ (r = 0 \/ r <= NHops(ttl) - profile.auto_ttl_a1)
    BY <1>1, <1>4, <2>1, AutoTtlFallsShort
  <2>3. FakePacketTtl = r
    BY Zenon, <1>4 DEF FakePacketTtl
  <2> HIDE DEF r
  <2>4. r <= hops
    BY SMT, <1>1, <2>1, <2>2 DEF Byte
  <2>5. QED
    BY Zenon, <2>3, <2>4 DEF Safe
<1>5. QED
  BY Zenon, <1>2, <1>3, <1>4 DEF Tuned, SendsFakes

\* The TTL of fakes is a byte.
LEMMA FakePacketTtlType == ASSUME PathInv PROVE FakePacketTtl \in Byte
<1>1. ttl \in Byte /\ profile \in ProfileType
  BY PathFacts
<1>2. /\ profile.auto_ttl_a1 \in Byte /\ profile.auto_ttl_a2 \in Byte
      /\ profile.min_ttl \in Byte /\ profile.auto_ttl_max \in Byte
      /\ profile.fake_packets_ttl \in Byte
  BY SMT, <1>1 DEF ProfileType
<1>3. tcp_get_auto_ttl(ttl, profile.auto_ttl_a1, profile.auto_ttl_a2,
                       profile.min_ttl, profile.auto_ttl_max) \in Byte
  BY <1>1, <1>2, AutoTtlType
<1>4. DefaultTtl \in Byte
  BY SMT DEF DefaultTtl, Byte
<1>5. QED
  BY Zenon, <1>2, <1>3, <1>4 DEF FakePacketTtl

-----------------------------------------------------------------------------
(* Type correctness, which needs to know how far the kernel has got.       *)

SyncInv ==
    /\ pc \in {"attack", "sync"} => snd_nxt = 0
    /\ pc = "sync_rest" => snd_nxt = split_pos

TInv == TypeOK /\ PathInv /\ SyncInv

\* What form_packet returns is a packet.
LEMMA FormPacketType ==
    ASSUME TInv, NEW step \in Steps
    PROVE  form_packet(step) \in Packet
<1>1. FakePacketTtl \in Byte /\ DefaultTtl \in Byte
  BY FakePacketTtlType DEF TInv, DefaultTtl, Byte
<1>2. (~profile.wrong_seq) \in BOOLEAN
  BY SMT
<1>3. /\ split_pos \in Nat /\ last_char \in Nat /\ split_pos + 1 \in Nat
      /\ FakeLen \in Nat /\ 0 \in Nat /\ 1 \in Nat
  BY SMT, LengthsAssumption DEF TInv, TypeOK
<1>4. \A lo, hi \in Nat : Data(lo, hi) \in Packet
  BY SMT, <1>1 DEF Data, Packet
<1>5. \A kind \in {"fake", "rst"}, hi \in Nat : Fake(kind, hi) \in Packet
  BY SMT, <1>1, <1>2, <1>3 DEF Fake, Packet
<1>6. QED
  BY Zenon, <1>3, <1>4, <1>5 DEF form_packet

\* The elements of s without its i-th are elements of s.
OnlyOthers(s, i) ==
    \A j \in 1..Len(Remove(s, i)) : \E k \in 1..Len(s) : Remove(s, i)[j] = s[k]

\* Taking a packet out of a sequence leaves a sequence of the others.
LEMMA RemoveFacts ==
    ASSUME NEW T, NEW s \in Seq(T), NEW i \in 1..Len(s)
    PROVE  /\ Remove(s, i) \in Seq(T)
           /\ Len(Remove(s, i)) = Len(s) - 1
           /\ OnlyOthers(s, i)
<1>1. Len(s) - 1 \in Nat /\ \A j \in 1..(Len(s) - 1) : j \in 1..Len(s) /\ j + 1 \in 1..Len(s)
  BY SMT
<1>2. Remove(s, i) \in [1..(Len(s) - 1) -> T]
  BY SMT, <1>1 DEF Remove
<1>3. Remove(s, i) \in Seq(T) /\ Len(Remove(s, i)) = Len(s) - 1
  <2> DEFINE r == Remove(s, i)
             m == Len(s) - 1
  <2>1. m \in Nat /\ r \in [1..m -> T]
    BY <1>1, <1>2
  <2> HIDE DEF r, m
  <2>2. r \in Seq(T) /\ Len(r) = m
    BY SMT, <2>1
  <2>3. QED
    BY <2>2 DEF r, m
<1>4. \A j \in 1..(Len(s) - 1) : Remove(s, i)[j] = s[j] \/ Remove(s, i)[j] = s[j + 1]
  BY SMT, <1>1 DEF Remove
<1>5. \A j \in 1..(Len(s) - 1) : \E k \in 1..Len(s) : Remove(s, i)[j] = s[k]
  BY Zenon, <1>1, <1>4
<1>6. OnlyOthers(s, i)
  BY Zenon, <1>3, <1>5 DEF OnlyOthers
<1>7. QED
  BY Zenon, <1>3, <1>6

\* The parts of the plan are sequences of steps.
LEMMA AttackTypes ==
    ASSUME PathInv
    PROVE  ZeroAttack \in Seq(Steps) /\ FirstAttack \in Seq(Steps) /\ <<"whole">> \in Seq(Steps)
<1>1. ZeroAttack \in Seq(Steps)
  <2>1. profile.zero \in ZeroAttacks
    BY SMT, PathFacts DEF ProfileType
  <2>2. \A z \in {"fake", "rst"} : <<z>> \in Seq(Steps)
    BY SMT DEF Steps
  <2>3. <<>> \in Seq(Steps)
    BY SMT
  <2>4. QED
    BY Zenon, <2>1, <2>2, <2>3 DEF ZeroAttack, ZeroAttacks
<1>2. <<"whole">> \in Seq(Steps)
  BY SMT DEF Steps
<1>3. FirstAttack \in Seq(Steps)
  <2>1. <<"second", "first">> \in Seq(Steps) /\ <<"first", "second">> \in Seq(Steps)
    BY SMT DEF Steps
  <2>2. <<"second", "zeros", "first", "zeros">> \in Seq(Steps)
    BY SMT DEF Steps
  <2>3. <<"zeros", "first", "zeros", "second">> \in Seq(Steps)
    BY SMT DEF Steps
  <2>4. QED
    BY Zenon, <1>2, <2>1, <2>2, <2>3 DEF FirstAttack
<1>4. QED
  BY Zenon, <1>1, <1>2, <1>3

\* The plan is a sequence of steps.
LEMMA PlanType == ASSUME PathInv PROVE Plan \in Seq(Steps)
<1>1. ZeroAttack \in Seq(Steps) /\ FirstAttack \in Seq(Steps) /\ <<"whole">> \in Seq(Steps)
  BY AttackTypes
<1>2. QED
  BY SMT, <1>1 DEF Plan

\* The initial states are typed.
LEMMA TypeInit == Init => TInv
<1> SUFFICES ASSUME Init PROVE TInv
  OBVIOUS
<1>1. PathInv
  BY Zenon DEF Init, PathInv
<1>2. plan \in Seq(Steps)
  BY Zenon, <1>1, PlanType DEF Init
<1>3. ttl \in Byte
  BY <1>1, PathFacts
<1>4. rcv \in [Positions -> {"none", "real", "zero", "fake"}]
  BY SMT DEF Init
<1>5. SyncInv
  BY SMT DEF Init, SyncInv
<1>6. reset \in BOOLEAN
  BY Zenon DEF Init
<1>7. snd_nxt \in 0..MaxLen
  BY SMT, LengthsAssumption DEF Init
<1>8. TypeOK
  BY SMT, <1>2, <1>3, <1>4, <1>6, <1>7 DEF Init, TypeOK
<1>9. QED
  BY <1>1, <1>5, <1>8 DEF TInv

\* Every step keeps the types.
LEMMA TypeStep == ASSUME TInv, [Next]_vars PROVE TInv'
<1>1. ASSUME UNCHANGED setting, TypeOK', SyncInv' PROVE TInv'
  BY Zenon, <1>1 DEF TInv, PathInv, setting
<1> USE DEF TInv, setting
<1>2. ASSUME SendRaw PROVE TInv'
  <2>1. Head(plan) \in Steps /\ plan' \in Seq(Steps)
    BY SMT, <1>2 DEF SendRaw, TypeOK
  <2>2. wire' \in Seq(Packet)
    <3>1. form_packet(Head(plan)) \in Packet
      BY <2>1, FormPacketType
    <3>2. wire \in Seq(Packet) /\ wire' = Append(wire, form_packet(Head(plan)))
      BY Zenon, <1>2 DEF SendRaw, TypeOK
    <3>3. QED
      BY SMT, <3>1, <3>2
  <2>3. TypeOK' /\ SyncInv'
    BY Zenon, <1>2, <2>1, <2>2 DEF SendRaw, TypeOK, SyncInv
  <2>4. QED
    BY Zenon, <1>1, <1>2, <2>3 DEF SendRaw
<1>3. ASSUME AttackReturns PROVE TInv'
  <2>1. plan' \in Seq(Steps)
    BY SMT, <1>3 DEF AttackReturns
  <2>2. TypeOK' /\ SyncInv'
    BY Zenon, <1>3, <2>1 DEF AttackReturns, TypeOK, SyncInv
  <2>3. QED
    BY Zenon, <1>1, <1>3, <2>2 DEF AttackReturns
<1>4. ASSUME NEW len \in Nat, NEW next, SendZeros(len, next), snd_nxt + len <= MaxLen
      PROVE  wire' \in Seq(Packet) /\ snd_nxt' \in 0..MaxLen /\ snd_nxt' = snd_nxt + len /\ pc' = next
  <2>1. snd_nxt + 1 \in Nat /\ snd_nxt + len \in Nat /\ DefaultTtl \in Byte
    BY SMT DEF TypeOK, DefaultTtl, Byte
  <2>2. Sync(snd_nxt + 1, snd_nxt + len) \in Packet
    BY SMT, <2>1 DEF Sync, Packet
  <2>3. wire \in Seq(Packet)
    BY DEF TypeOK
  <2>4. Append(wire, Sync(snd_nxt + 1, snd_nxt + len)) \in Seq(Packet)
    BY SMT, <2>2, <2>3
  <2>5. wire' \in Seq(Packet) /\ snd_nxt' = snd_nxt + len /\ pc' = next
    BY Zenon, <1>4, <2>3, <2>4 DEF SendZeros
  <2>6. snd_nxt' \in 0..MaxLen
    BY SMT, <1>4, <2>1, <2>5 DEF TypeOK
  <2>7. QED
    BY <2>5, <2>6
<1>5. ASSUME SyncFirst PROVE TInv'
  <2>1. /\ snd_nxt = 0 /\ last_char \in Nat /\ split_pos \in Nat
        /\ snd_nxt + last_char <= MaxLen /\ snd_nxt + split_pos <= MaxLen
        /\ snd_nxt + split_pos = split_pos
    BY SMT, <1>5, LengthsAssumption DEF SyncFirst, TypeOK, SyncInv
  <2>2. CASE profile.first = "none"
    <3>1. SendZeros(last_char, "done")
      BY Zenon, <1>5, <2>2 DEF SyncFirst
    <3>2. wire' \in Seq(Packet) /\ snd_nxt' \in 0..MaxLen /\ pc' = "done"
      BY <1>4, <2>1, <3>1
    <3>3. TypeOK' /\ SyncInv'
      BY Zenon, <1>5, <3>2 DEF SyncFirst, TypeOK, SyncInv
    <3>4. QED
      BY Zenon, <1>1, <1>5, <3>3 DEF SyncFirst
  <2>3. CASE profile.first # "none"
    <3>1. SendZeros(split_pos, "sync_rest")
      BY Zenon, <1>5, <2>3 DEF SyncFirst
    <3>2. /\ wire' \in Seq(Packet) /\ snd_nxt' \in 0..MaxLen /\ pc' = "sync_rest"
          /\ snd_nxt' = split_pos
      BY <1>4, <2>1, <3>1
    <3>3. TypeOK' /\ SyncInv'
      BY Zenon, <1>5, <3>2 DEF SyncFirst, TypeOK, SyncInv
    <3>4. QED
      BY Zenon, <1>1, <1>5, <3>3 DEF SyncFirst
  <2>4. QED
    BY <2>2, <2>3
<1>6. ASSUME SyncRest PROVE TInv'
  <2>1. last_char - split_pos \in Nat /\ snd_nxt + (last_char - split_pos) <= MaxLen
    BY SMT, <1>6, LengthsAssumption DEF SyncRest, TypeOK, SyncInv
  <2>2. SendZeros(last_char - split_pos, "done")
    BY <1>6 DEF SyncRest
  <2>3. wire' \in Seq(Packet) /\ snd_nxt' \in 0..MaxLen /\ pc' = "done"
    BY <1>4, <2>1, <2>2
  <2>4. TypeOK' /\ SyncInv'
    BY Zenon, <1>6, <2>3 DEF SyncRest, TypeOK, SyncInv
  <2>5. QED
    BY Zenon, <1>1, <1>6, <2>4 DEF SyncRest
<1>7. ASSUME SyncFails PROVE TInv'
  <2>1. TypeOK' /\ SyncInv'
    BY Zenon, <1>7 DEF SyncFails, TypeOK, SyncInv
  <2>2. QED
    BY Zenon, <1>1, <1>7, <2>1 DEF SyncFails
<1>8. ASSUME Arrive PROVE TInv'
  <2>1. wire' \in Seq(Packet)
    <3>1. PICK i \in 1..Len(wire) : wire' = Remove(wire, i)
      BY Zenon, <1>8 DEF Arrive
    <3>2. wire \in Seq(Packet)
      BY DEF TypeOK
    <3>3. QED
      BY Zenon, <3>1, <3>2, RemoveFacts
  <2>2. rcv' \in [Positions -> {"none", "real", "zero", "fake"}]
    BY SMT, <1>8 DEF Arrive, TypeOK, Content
  <2>3. reset' \in BOOLEAN
    BY Zenon, <1>8 DEF Arrive
  <2>4. UNCHANGED <<setting, pc, plan, snd_nxt>>
    BY Zenon, <1>8 DEF Arrive
  <2>5. TypeOK' /\ SyncInv'
    BY Zenon, <2>1, <2>2, <2>3, <2>4 DEF TypeOK, SyncInv
  <2>6. QED
    BY Zenon, <1>1, <2>4, <2>5
<1>9. ASSUME Lose PROVE TInv'
  <2>1. wire' \in Seq(Packet)
    <3>1. PICK i \in 1..Len(wire) : wire' = Remove(wire, i)
      BY Zenon, <1>9 DEF Lose
    <3>2. wire \in Seq(Packet)
      BY DEF TypeOK
    <3>3. QED
      BY Zenon, <3>1, <3>2, RemoveFacts
  <2>2. TypeOK' /\ SyncInv'
    BY Zenon, <1>9, <2>1 DEF Lose, TypeOK, SyncInv
  <2>3. QED
    BY Zenon, <1>1, <1>9, <2>2 DEF Lose
<1>10. ASSUME UNCHANGED vars PROVE TInv'
  BY Zenon, <1>10 DEF vars, TypeOK, PathInv, SyncInv
<1>11. QED
  BY Zenon, <1>2, <1>3, <1>5, <1>6, <1>7, <1>8, <1>9, <1>10 DEF Next

\* The variables of an attack keep their types: in particular the kernel never
\* counts more bytes than the request has.
THEOREM TypeCorrect == Spec => []TypeOK
<1>1. TInv /\ [Next]_vars => TInv'
  BY TypeStep
<1>2. TInv => TypeOK
  BY DEF TInv
<1>3. QED
  BY TypeInit, <1>1, <1>2, PTL DEF Spec

-----------------------------------------------------------------------------
(* Fakes fall short.                                                       *)

\* What is still to be sent contains a fake only if the settings ask for one,
\* and what is on the wire falls short.
ShortInv ==
    /\ \A i \in 1..Len(plan) : plan[i] \in {"fake", "rst", "zeros"} => SendsFakes
    /\ FakesFallShort

\* A packet that can do no harm at the server.
Harmless(pkt) == pkt.kind \in {"fake", "rst"} => ~pkt.valid \/ ~Reaches(pkt.ttl, hops)

\* The plan contains fakes only if the settings ask for them.
LEMMA ShortInit == Init => ShortInv
<1> SUFFICES ASSUME Init PROVE ShortInv
  OBVIOUS
<1>1. FakesFallShort
  BY SMT DEF Init, FakesFallShort
<1>2. ASSUME ~SendsFakes, NEW i \in 1..Len(Plan)
      PROVE  Plan[i] \notin {"fake", "rst", "zeros"}
  <2>1. ZeroAttack = <<>>
    BY Zenon, <1>2 DEF SendsFakes, ZeroAttack
  <2>2. FirstAttack \in {<<"second", "first">>, <<"first", "second">>, <<"whole">>}
    BY Zenon, <1>2 DEF SendsFakes, FirstAttack
  <2>3. ZeroAttack \o FirstAttack = FirstAttack
    BY SMT, <2>1, <2>2
  <2>4. Plan \in {<<"second", "first">>, <<"first", "second">>, <<"whole">>}
    BY Zenon, <2>2, <2>3 DEF Plan
  <2>5. QED
    BY SMT, <1>2, <2>4
<1>3. QED
  BY Zenon, <1>1, <1>2 DEF ShortInv, Init

\* Every step keeps it, when the settings are tuned to the path.
LEMMA ShortStep ==
    ASSUME Tuned(profile, hops), TInv, TInv', ShortInv, [Next]_vars
    PROVE  ShortInv'
<1> USE DEF setting
<1>1. ASSUME UNCHANGED <<setting, plan, wire>> PROVE ShortInv'
  BY Zenon, <1>1 DEF ShortInv, FakesFallShort, SendsFakes
<1>2. ASSUME SendRaw PROVE ShortInv'
  <2>1. plan \in Seq(Steps) /\ wire \in Seq(Packet)
    BY DEF TInv, TypeOK
  <2> DEFINE pkt == form_packet(Head(plan))
  <2>2. plan # <<>> /\ plan' = Tail(plan) /\ wire' = Append(wire, pkt) /\ UNCHANGED setting
    BY Zenon, <1>2 DEF SendRaw
  <2>3. /\ Head(plan) = plan[1] /\ 1 \in 1..Len(plan) /\ Head(plan) \in Steps
        /\ \A i \in 1..Len(plan') : i + 1 \in 1..Len(plan) /\ plan'[i] = plan[i + 1]
    BY SMT, <2>1, <2>2
  <2>4. Harmless(pkt)
    <3>1. CASE Head(plan) \in {"fake", "rst", "zeros"}
      <4>1. SendsFakes
        BY Zenon, <2>3, <3>1 DEF ShortInv
      <4>2. Safe
        BY <4>1, TunedIsSafe DEF TInv
      <4>3. pkt.valid = ~profile.wrong_seq /\ pkt.ttl = FakePacketTtl
        BY SMT, <3>1 DEF form_packet, Fake
      <4>4. FakePacketTtl <= hops => ~(FakePacketTtl > hops)
        <5>1. FakePacketTtl \in Byte /\ hops \in 1..29
          BY FakePacketTtlType, PathFacts DEF TInv
        <5>2. QED
          BY SMT, <5>1 DEF Byte
      <4>5. QED
        BY Zenon, <4>2, <4>3, <4>4 DEF Safe, Harmless, Reaches
    <3>2. CASE Head(plan) \notin {"fake", "rst", "zeros"}
      <4>1. pkt.kind = "data"
        BY SMT, <3>2 DEF form_packet, Data
      <4>2. QED
        BY SMT, <4>1 DEF Harmless
    <3>3. QED
      BY <3>1, <3>2
  <2> HIDE DEF pkt
  <2>5. \A i \in 1..Len(wire') : wire'[i] = pkt \/ (i \in 1..Len(wire) /\ wire'[i] = wire[i])
    BY SMT, <2>1, <2>2
  <2>6. FakesFallShort'
    BY Zenon, <2>2, <2>4, <2>5 DEF ShortInv, FakesFallShort, Harmless
  <2>7. QED
    BY Zenon, <2>2, <2>3, <2>6 DEF ShortInv, SendsFakes
<1>3. ASSUME AttackReturns PROVE ShortInv'
  <2>1. Len(plan') = 0 /\ UNCHANGED <<setting, wire>>
    BY SMT, <1>3 DEF AttackReturns
  <2>2. QED
    BY SMT, <2>1 DEF ShortInv, FakesFallShort, Reaches
<1>4. ASSUME NEW len, NEW next, SendZeros(len, next), UNCHANGED <<setting, plan>>
      PROVE  ShortInv'
  <2>1. wire \in Seq(Packet)
    BY DEF TInv, TypeOK
  <2> DEFINE pkt == Sync(snd_nxt + 1, snd_nxt + len)
  <2>2. pkt.kind = "sync" /\ wire' \in {wire, Append(wire, pkt)}
    BY <1>4 DEF Sync, SendZeros
  <2> HIDE DEF pkt
  <2>3. \A i \in 1..Len(wire') : wire'[i] = pkt \/ (i \in 1..Len(wire) /\ wire'[i] = wire[i])
    BY SMT, <2>1, <2>2
  <2>4. FakesFallShort'
    BY Zenon, <1>4, <2>2, <2>3 DEF ShortInv, FakesFallShort
  <2>5. QED
    BY Zenon, <1>4, <2>4 DEF ShortInv, SendsFakes
<1>5. ASSUME SyncFirst \/ SyncRest PROVE ShortInv'
  BY Zenon, <1>4, <1>5 DEF SyncFirst, SyncRest
<1>6. ASSUME SyncFails PROVE ShortInv'
  BY Zenon, <1>1, <1>6 DEF SyncFails
<1>7. ASSUME NEW i \in 1..Len(wire), wire' = Remove(wire, i), UNCHANGED <<setting, plan>>
      PROVE  ShortInv'
  <2>1. \A j \in 1..Len(wire') : \E k \in 1..Len(wire) : wire'[j] = wire[k]
    <3>1. wire \in Seq(Packet)
      BY DEF TInv, TypeOK
    <3>2. OnlyOthers(wire, i)
      BY Zenon, <3>1, <1>7, RemoveFacts
    <3> DEFINE r == Remove(wire, i)
    <3>3. wire' = r /\ \A j \in 1..Len(r) : \E k \in 1..Len(wire) : r[j] = wire[k]
      BY Zenon, <1>7, <3>2 DEF OnlyOthers
    <3> HIDE DEF r
    <3>4. QED
      BY SMT, <3>3
  <2>2. FakesFallShort'
    BY Zenon, <1>7, <2>1 DEF ShortInv, FakesFallShort
  <2>3. QED
    BY Zenon, <1>7, <2>2 DEF ShortInv, SendsFakes
<1>8. ASSUME Arrive \/ Lose PROVE ShortInv'
  BY Zenon, <1>7, <1>8 DEF Arrive, Lose
<1>9. ASSUME UNCHANGED vars PROVE ShortInv'
  BY Zenon, <1>1, <1>9 DEF vars
<1>10. QED
  BY Zenon, <1>2, <1>3, <1>5, <1>6, <1>8, <1>9 DEF Next

\* With settings tuned to the path no fake and no reset is taken in by the
\* server (FakesFallShort), whatever the request, the attack, the split and the
\* faults: for --auto-ttl it is enough that a1 <= a2 <= --min-ttl.
THEOREM FakesNeverArrive ==
    ASSUME \A p \in Profiles, h \in Hops : Tuned(p, h)
    PROVE  Spec => []FakesFallShort
<1>1. TInv => Tuned(profile, hops)
  BY Zenon DEF TInv, PathInv
<1>2. TInv /\ TInv' /\ ShortInv /\ [Next]_vars => ShortInv'
  BY <1>1, ShortStep
<1>3. TInv /\ [Next]_vars => TInv'
  BY TypeStep
<1>4. ShortInv => FakesFallShort
  BY DEF ShortInv
<1>5. QED
  BY TypeInit, ShortInit, <1>2, <1>3, <1>4, PTL DEF Spec

-----------------------------------------------------------------------------
(* What the server has taken in, and how far the kernel has got.           *)

Covers(pkt, p) == pkt.lo <= p /\ p <= pkt.hi
Genuine(pkt)   == pkt.kind \in {"data", "sync"}

\* Genuine packets reach the server and lie inside the request; the server has only what
\* they brought; and what the kernel has sent is there or on its way, since the kernel's
\* own packets are not lost for good.
GoodPacket(pkt) ==
    Genuine(pkt) => pkt.ttl = DefaultTtl /\ pkt.valid /\ pkt.hi <= last_char
AllGood         == \A i \in 1..Len(wire) : GoodPacket(wire[i])
ZerosAhead(p)   == \E i \in 1..Len(wire) : wire[i].kind = "sync" /\ Covers(wire[i], p)

AcceptInv ==
    /\ reset = FALSE
    /\ AllGood
    /\ \A p \in Positions : rcv[p] # "none" => p <= last_char
    /\ pc = "done" => snd_nxt = last_char
    /\ \A p \in 1..snd_nxt : rcv[p] # "none" \/ ZerosAhead(p)

\* A packet that arrives, as far as it concerns the server.
ArrivesAt(i) ==
    /\ i = 1 \/ "reorder" \in faults
    /\ wire' = Remove(wire, i)
    /\ reset' = reset
    /\ \A p \in Positions :
         rcv'[p] = IF Genuine(wire[i]) /\ Covers(wire[i], p) /\ rcv[p] = "none"
                   THEN (IF wire[i].kind = "data" THEN "real" ELSE "zero") ELSE rcv[p]
    /\ UNCHANGED <<setting, pc, plan, snd_nxt>>

\* The server takes in what is genuine, and no fake.
LEMMA ArriveCases ==
    ASSUME TInv, ShortInv, AcceptInv, Arrive
    PROVE  \E i \in 1..Len(wire) : ArrivesAt(i)
<1>1. PICK i \in 1..Len(wire) :
        /\ i = 1 \/ "reorder" \in faults
        /\ wire' = Remove(wire, i)
        /\ rcv' = [p \in Positions |->
                     IF /\ Accepted(wire[i]) /\ wire[i].kind # "rst"
                        /\ wire[i].lo <= p /\ p <= wire[i].hi /\ rcv[p] = "none"
                     THEN Content(wire[i]) ELSE rcv[p]]
        /\ reset' = (reset \/ (Accepted(wire[i]) /\ wire[i].kind = "rst"))
        /\ UNCHANGED <<setting, pc, plan, snd_nxt>>
  BY Zenon DEF Arrive
<1>2. wire[i].kind \in {"data", "fake", "rst", "sync"}
  <2>1. wire \in Seq(Packet)
    BY Zenon DEF TInv, TypeOK
  <2>2. wire[i] \in Packet
    BY SMT, <2>1
  <2>3. QED
    BY SMT, <2>2 DEF Packet
<1>3. wire[i].kind \in {"fake", "rst"} => ~Accepted(wire[i])
  BY Zenon DEF ShortInv, FakesFallShort, Accepted
<1>4. Genuine(wire[i]) => Accepted(wire[i])
  <2>1. hops \in 1..29
    BY Zenon, PathFacts DEF TInv
  <2>2. DefaultTtl > hops
    BY SMT, <2>1 DEF DefaultTtl
  <2>3. QED
    BY Zenon, <2>2 DEF AcceptInv, AllGood, GoodPacket, Accepted, Reaches
<1>5. (Accepted(wire[i]) /\ wire[i].kind # "rst") <=> Genuine(wire[i])
  BY SMT, <1>2, <1>3, <1>4 DEF Genuine
<1>6. Genuine(wire[i]) => Content(wire[i]) = IF wire[i].kind = "data" THEN "real" ELSE "zero"
  BY SMT DEF Genuine, Content
<1>7. reset' = reset
  BY Zenon, <1>1, <1>3 DEF AcceptInv
<1>8. \A p \in Positions :
         rcv'[p] = IF Genuine(wire[i]) /\ Covers(wire[i], p) /\ rcv[p] = "none"
                   THEN (IF wire[i].kind = "data" THEN "real" ELSE "zero") ELSE rcv[p]
  BY Zenon, <1>1, <1>5, <1>6 DEF Covers
<1>9. QED
  BY Zenon, <1>1, <1>7, <1>8 DEF ArrivesAt

\* r is s without its i-th element: nothing is new, nothing else is missing, and without
\* its first the others keep their order.
NothingNew(r, s)   == \A j \in 1..Len(r) : \E k \in 1..Len(s) : r[j] = s[k]
AllBut(i, r, s)    == \A k \in 1..Len(s) : k # i => \E j \in 1..Len(r) : r[j] = s[k]
WithoutFirst(r, s) == \A j \in 1..Len(r) : j + 1 \in 1..Len(s) /\ r[j] = s[j + 1]

\* Taking out one packet keeps each of the others.
LEMMA RemoveKeeps ==
    ASSUME NEW T, NEW s \in Seq(T), NEW i \in 1..Len(s), NEW r, r = Remove(s, i)
    PROVE  /\ Len(r) = Len(s) - 1
           /\ NothingNew(r, s) /\ AllBut(i, r, s) /\ (i = 1 => WithoutFirst(r, s))
<1>1. Len(s) \in Nat /\ Len(r) = Len(s) - 1
  BY SMT, RemoveFacts
<1>2. \A j \in 1..Len(r) : \E k \in 1..Len(s) : r[j] = s[k]
  <2>1. OnlyOthers(s, i)
    BY Zenon, RemoveFacts
  <2>2. QED
    BY Zenon, <2>1 DEF OnlyOthers
<1>3. \A j \in 1..(Len(s) - 1) : r[j] = IF j < i THEN s[j] ELSE s[j + 1]
  BY Zenon DEF Remove
<1>4. ASSUME NEW k \in 1..Len(s), k # i PROVE \E j \in 1..Len(r) : r[j] = s[k]
  <2>1. CASE k < i
    <3>1. k \in 1..Len(r) /\ k \in 1..(Len(s) - 1)
      BY SMT, <1>1, <2>1
    <3>2. QED
      BY Zenon, <1>3, <2>1, <3>1
  <2>2. CASE ~(k < i)
    <3>1. k - 1 \in 1..Len(r) /\ k - 1 \in 1..(Len(s) - 1) /\ ~(k - 1 < i) /\ (k - 1) + 1 = k
      BY SMT, <1>1, <1>4, <2>2
    <3>2. QED
      BY Zenon, <1>3, <3>1
  <2>3. QED
    BY Zenon, <2>1, <2>2
<1>5. ASSUME i = 1, NEW j \in 1..Len(r) PROVE j + 1 \in 1..Len(s) /\ r[j] = s[j + 1]
  <2>1. j \in 1..(Len(s) - 1) /\ ~(j < i) /\ j + 1 \in 1..Len(s)
    BY SMT, <1>1, <1>5
  <2>2. QED
    BY Zenon, <1>3, <2>1
<1>6. QED
  BY Zenon, <1>1, <1>2, <1>4, <1>5 DEF NothingNew, AllBut, WithoutFirst

\* What a sequence of packets holds when one more has been sent.
LEMMA SentOneMore ==
    ASSUME NEW s \in Seq(Packet), NEW pkt \in Packet, NEW r, r = Append(s, pkt)
    PROVE  /\ Len(s) \in Nat /\ Len(r) = Len(s) + 1 /\ r[Len(r)] = pkt /\ Len(r) \in 1..Len(r)
           /\ \A i \in 1..Len(s) : i \in 1..Len(r) /\ r[i] = s[i]
           /\ \A i \in 1..Len(r) : i = Len(r) \/ i \in 1..Len(s)
BY SMT

\* Data of the attack lies inside the request.
LEMMA FormPacketGood ==
    ASSUME TInv, NEW step \in Steps
    PROVE  GoodPacket(form_packet(step))
<1>1. last_char \in Nat /\ split_pos <= last_char /\ last_char <= last_char
  BY SMT DEF TInv, TypeOK
<1>2. \A lo, hi : hi <= last_char => GoodPacket(Data(lo, hi))
  BY SMT DEF GoodPacket, Data
<1>3. \A kind \in {"fake", "rst"} : \A hi : GoodPacket(Fake(kind, hi))
  BY SMT DEF GoodPacket, Genuine, Fake
<1>4. QED
  BY Zenon, <1>1, <1>2, <1>3 DEF form_packet

\* One more good packet spoils nothing.
LEMMA AcceptSent ==
    ASSUME TInv, AcceptInv, NEW pkt \in Packet, GoodPacket(pkt),
           wire' = Append(wire, pkt), UNCHANGED <<setting, rcv, reset>>
    PROVE  /\ reset' = FALSE
           /\ AllGood'
           /\ \A p \in Positions : rcv'[p] # "none" => p <= last_char'
           /\ \A p \in 1..snd_nxt : rcv'[p] # "none" \/ ZerosAhead(p)'
           /\ pkt.kind = "sync" => \A p \in pkt.lo..pkt.hi : ZerosAhead(p)'
<1>1. wire \in Seq(Packet)
  BY Zenon DEF TInv, TypeOK
<1>2. /\ wire'[Len(wire')] = pkt /\ Len(wire') \in 1..Len(wire')
      /\ \A i \in 1..Len(wire) : i \in 1..Len(wire') /\ wire'[i] = wire[i]
      /\ \A i \in 1..Len(wire') : i = Len(wire') \/ i \in 1..Len(wire)
  BY <1>1, SentOneMore
<1>3. UNCHANGED <<last_char, rcv, reset>>
  BY Zenon DEF setting
<1>4. AllGood'
  BY Zenon, <1>2, <1>3 DEF AcceptInv, AllGood, GoodPacket, Genuine
<1>5. \A p \in 1..snd_nxt : rcv'[p] # "none" \/ ZerosAhead(p)'
  BY Zenon, <1>2, <1>3 DEF AcceptInv, ZerosAhead, Covers
<1>6. pkt.kind = "sync" => \A p \in pkt.lo..pkt.hi : ZerosAhead(p)'
  <2>1. \A p \in pkt.lo..pkt.hi : pkt.lo <= p /\ p <= pkt.hi
    BY SMT DEF Packet
  <2>2. QED
    BY Zenon, <1>2, <2>1 DEF ZerosAhead, Covers
<1>7. QED
  BY Zenon, <1>3, <1>4, <1>5, <1>6 DEF AcceptInv

\* Every step keeps it, when fakes fall short.
LEMMA AcceptStep ==
    ASSUME TInv, TInv', ShortInv, AcceptInv, [Next]_vars
    PROVE  AcceptInv'
<1> USE DEF setting
<1>1. ASSUME UNCHANGED <<setting, wire, snd_nxt, rcv, reset>>, pc' # "done" \/ UNCHANGED pc
      PROVE  AcceptInv'
  BY Zenon, <1>1 DEF AcceptInv, AllGood, GoodPacket, ZerosAhead
<1>2. ASSUME SendRaw PROVE AcceptInv'
  <2>1. Head(plan) \in Steps
    <3>1. plan \in Seq(Steps) /\ plan # <<>>
      BY Zenon, <1>2 DEF SendRaw, TInv, TypeOK
    <3>2. QED
      BY SMT, <3>1
  <2> DEFINE pkt == form_packet(Head(plan))
  <2>2. pkt \in Packet /\ GoodPacket(pkt)
    BY Zenon, <2>1, FormPacketType, FormPacketGood
  <2>3. wire' = Append(wire, pkt) /\ UNCHANGED <<setting, rcv, reset, pc, snd_nxt>>
    BY Zenon, <1>2 DEF SendRaw
  <2> HIDE DEF pkt
  <2>4. /\ reset' = FALSE
        /\ AllGood'
        /\ \A p \in Positions : rcv'[p] # "none" => p <= last_char'
        /\ \A p \in 1..snd_nxt : rcv'[p] # "none" \/ ZerosAhead(p)'
    BY Zenon, <2>2, <2>3, AcceptSent
  <2>5. QED
    BY Zenon, <2>3, <2>4 DEF AcceptInv
<1>3. ASSUME AttackReturns PROVE AcceptInv'
  <2>1. pc' = "sync"
    BY Zenon, <1>3 DEF AttackReturns
  <2>2. pc' # "done"
    BY SMT, <2>1
  <2>3. QED
    BY Zenon, <1>1, <1>3, <2>2 DEF AttackReturns
<1>4. ASSUME NEW len \in Nat, NEW next, SendZeros(len, next), UNCHANGED <<setting, rcv, reset>>,
             snd_nxt + len <= last_char, next = "done" => snd_nxt + len = last_char
      PROVE  AcceptInv'
  <2>1. snd_nxt \in Nat /\ snd_nxt' = snd_nxt + len /\ pc' = next
    BY SMT, <1>4 DEF SendZeros, TInv, TypeOK
  <2>2. pc' = "done" => snd_nxt' = last_char'
    BY Zenon, <1>4, <2>1
  <2>3. CASE len = 0
    <3>1. wire' = wire
      BY Zenon, <1>4, <2>3 DEF SendZeros
    <3>2. snd_nxt' = snd_nxt
      BY SMT, <2>1, <2>3
    <3>3. QED
      BY Zenon, <1>4, <2>2, <3>1, <3>2 DEF AcceptInv, AllGood, GoodPacket, ZerosAhead
  <2>4. CASE len # 0
    <3> DEFINE pkt == Sync(snd_nxt + 1, snd_nxt + len)
    <3>1. wire' = Append(wire, pkt)
      BY Zenon, <1>4, <2>4 DEF SendZeros
    <3>2. pkt \in Packet /\ pkt.kind = "sync" /\ pkt.lo = snd_nxt + 1 /\ pkt.hi = snd_nxt + len
      BY SMT, <2>1 DEF Sync, Packet, DefaultTtl, Byte
    <3>3. GoodPacket(pkt)
      BY SMT, <1>4 DEF GoodPacket, Sync
    <3> HIDE DEF pkt
    <3>4. /\ reset' = FALSE
          /\ AllGood'
          /\ \A p \in Positions : rcv'[p] # "none" => p <= last_char'
          /\ \A p \in 1..snd_nxt : rcv'[p] # "none" \/ ZerosAhead(p)'
          /\ pkt.kind = "sync" => \A p \in pkt.lo..pkt.hi : ZerosAhead(p)'
      BY Zenon, <1>4, <3>1, <3>2, <3>3, AcceptSent
    <3>5. \A p \in 1..snd_nxt' : p \in 1..snd_nxt \/ p \in (snd_nxt + 1)..(snd_nxt + len)
      BY SMT, <2>1
    <3>6. \A p \in (snd_nxt + 1)..(snd_nxt + len) : p \in pkt.lo..pkt.hi
      BY SMT, <3>2
    <3>7. \A p \in 1..snd_nxt' : rcv'[p] # "none" \/ ZerosAhead(p)'
      BY Zenon, <3>2, <3>4, <3>5, <3>6
    <3>8. QED
      BY Zenon, <2>2, <3>4, <3>7 DEF AcceptInv
  <2>5. QED
    BY Zenon, <2>3, <2>4
<1>5. ASSUME SyncFirst PROVE AcceptInv'
  <2>1. /\ snd_nxt = 0 /\ last_char \in Nat /\ split_pos \in Nat
        /\ snd_nxt + last_char = last_char /\ snd_nxt + split_pos <= last_char
        /\ snd_nxt + last_char <= last_char
    BY SMT, <1>5, LengthsAssumption DEF SyncFirst, TInv, TypeOK, SyncInv
  <2>2. "sync_rest" # "done"
    BY SMT
  <2>3. UNCHANGED <<setting, rcv, reset>>
    BY Zenon, <1>5 DEF SyncFirst
  <2>4. CASE profile.first = "none"
    <3>1. SendZeros(last_char, "done")
      BY Zenon, <1>5, <2>4 DEF SyncFirst
    <3>2. QED
      BY <1>4, <2>1, <2>3, <3>1
  <2>5. CASE profile.first # "none"
    <3>1. SendZeros(split_pos, "sync_rest")
      BY Zenon, <1>5, <2>5 DEF SyncFirst
    <3>2. QED
      BY <1>4, <2>1, <2>2, <2>3, <3>1
  <2>6. QED
    BY Zenon, <2>4, <2>5
<1>6. ASSUME SyncRest PROVE AcceptInv'
  <2>1. /\ last_char - split_pos \in Nat /\ snd_nxt + (last_char - split_pos) = last_char
        /\ snd_nxt + (last_char - split_pos) <= last_char
    BY SMT, <1>6, LengthsAssumption DEF SyncRest, TInv, TypeOK, SyncInv
  <2>2. SendZeros(last_char - split_pos, "done") /\ UNCHANGED <<setting, rcv, reset>>
    BY <1>6 DEF SyncRest
  <2>3. QED
    BY <1>4, <2>1, <2>2
<1>7. ASSUME SyncFails PROVE AcceptInv'
  <2>1. pc' = "failed"
    BY Zenon, <1>7 DEF SyncFails
  <2>2. pc' # "done"
    BY SMT, <2>1
  <2>3. QED
    BY Zenon, <1>1, <1>7, <2>2 DEF SyncFails
<1>8. wire \in Seq(Packet)
  BY Zenon DEF TInv, TypeOK
<1>9. ASSUME Arrive PROVE AcceptInv'
  <2>1. PICK i \in 1..Len(wire) : ArrivesAt(i)
    BY <1>9, ArriveCases
  <2>2. /\ wire' = Remove(wire, i) /\ UNCHANGED <<setting, pc, snd_nxt, reset>>
        /\ \A p \in Positions :
             rcv'[p] = IF Genuine(wire[i]) /\ Covers(wire[i], p) /\ rcv[p] = "none"
                       THEN (IF wire[i].kind = "data" THEN "real" ELSE "zero") ELSE rcv[p]
    BY Zenon, <2>1 DEF ArrivesAt
  <2>3. NothingNew(wire', wire) /\ AllBut(i, wire', wire)
    BY <1>8, <2>2, RemoveKeeps
  <2>4. AllGood'
    BY ZenonT(60), <2>2, <2>3 DEF AcceptInv, AllGood, GoodPacket, Genuine, NothingNew
  <2>5. ASSUME NEW p \in Positions, rcv'[p] # "none" PROVE p <= last_char'
    <3>1. CASE rcv[p] # "none"
      BY Zenon, <2>2, <3>1 DEF AcceptInv
    <3>2. CASE rcv[p] = "none"
      <4>1. Genuine(wire[i]) /\ p <= wire[i].hi
        BY Zenon, <2>2, <2>5, <3>2 DEF Covers
      <4>2. wire[i].hi <= last_char
        BY Zenon, <4>1 DEF AcceptInv, AllGood, GoodPacket
      <4>3. p \in Nat /\ wire[i].hi \in Nat /\ last_char \in Nat
        <5>1. wire[i] \in Packet
          BY SMT, <1>8
        <5>2. QED
          BY SMTT(60), <5>1, LengthsAssumption DEF Packet, Positions, TInv, TypeOK
      <4>4. p <= last_char
        BY SMT, <4>1, <4>2, <4>3
      <4>5. QED
        BY Zenon, <2>2, <4>4
    <3>3. QED
      BY Zenon, <3>1, <3>2
  <2>6. ASSUME NEW p \in 1..snd_nxt PROVE rcv'[p] # "none" \/ ZerosAhead(p)'
    <3>1. p \in Positions
      BY SMT, LengthsAssumption DEF Positions, TInv, TypeOK
    <3>2. "real" # "none" /\ "zero" # "none"
      BY SMT
    <3>3. CASE rcv[p] # "none"
      BY Zenon, <2>2, <3>1, <3>3
    <3>4. CASE rcv[p] = "none"
      <4>1. PICK k \in 1..Len(wire) : wire[k].kind = "sync" /\ Covers(wire[k], p)
        BY Zenon, <3>4 DEF AcceptInv, ZerosAhead
      <4>2. CASE k = i
        BY Zenon, <2>2, <3>1, <3>2, <4>1, <4>2 DEF Genuine
      <4>3. CASE k # i
        BY Zenon, <2>3, <4>1, <4>3 DEF ZerosAhead, Covers, AllBut
      <4>4. QED
        BY Zenon, <4>2, <4>3
    <3>5. QED
      BY Zenon, <3>3, <3>4
  <2>7. QED
    BY Zenon, <2>2, <2>4, <2>5, <2>6 DEF AcceptInv
<1>10. ASSUME Lose PROVE AcceptInv'
  <2>1. PICK i \in 1..Len(wire) : wire[i].kind # "sync" /\ wire' = Remove(wire, i)
    BY Zenon, <1>10 DEF Lose
  <2>2. NothingNew(wire', wire) /\ AllBut(i, wire', wire)
    BY <1>8, <2>1, RemoveKeeps
  <2>3. UNCHANGED <<setting, pc, snd_nxt, rcv, reset>>
    BY Zenon, <1>10 DEF Lose
  <2>4. AllGood'
    BY Zenon, <2>2, <2>3 DEF AcceptInv, AllGood, GoodPacket, Genuine, NothingNew
  <2>5. ASSUME NEW p \in 1..snd_nxt, rcv[p] = "none" PROVE ZerosAhead(p)'
    <3>1. PICK k \in 1..Len(wire) : wire[k].kind = "sync" /\ Covers(wire[k], p)
      BY Zenon, <2>5 DEF AcceptInv, ZerosAhead
    <3>2. k # i
      BY Zenon, <2>1, <3>1
    <3>3. QED
      BY Zenon, <2>2, <3>1, <3>2 DEF ZerosAhead, Covers, AllBut
  <2>6. QED
    BY Zenon, <2>3, <2>4, <2>5 DEF AcceptInv
<1>11. ASSUME UNCHANGED vars PROVE AcceptInv'
  BY Zenon, <1>1, <1>11 DEF vars
<1>12. QED
  BY Zenon, <1>2, <1>3, <1>5, <1>6, <1>7, <1>9, <1>10, <1>11 DEF Next

\* At the start nothing is sent and nothing is there.
LEMMA AcceptInit == Init => AcceptInv
<1> SUFFICES ASSUME Init PROVE AcceptInv
  OBVIOUS
<1>1. wire = <<>> /\ snd_nxt = 0 /\ pc = "attack" /\ reset = FALSE
      /\ rcv = [i \in Positions |-> "none"]
  BY Zenon DEF Init
<1>2. Len(wire) = 0 /\ 1..snd_nxt = {} /\ pc # "done" /\ 1..Len(wire) = {}
  BY SMT, <1>1
<1>3. QED
  BY Zenon, <1>1, <1>2 DEF AcceptInv, AllGood

\* With settings tuned to the path the kernel's sequence numbers and the server's agree
\* once everything sent has arrived (SeqAgrees): process_client_cycle sends exactly as many
\* zeros as the attack took up, and nothing of the attack lies outside them, whatever
\* packets were lost, reordered or never sent and wherever the request was split.
THEOREM NumbersAgree ==
    ASSUME \A p \in Profiles, h \in Hops : Tuned(p, h)
    PROVE  Spec => []SeqAgrees
<1>1. TInv => Tuned(profile, hops)
  BY Zenon DEF TInv, PathInv
<1>2. TInv /\ TInv' /\ ShortInv /\ [Next]_vars => ShortInv'
  BY <1>1, ShortStep
<1>3. TInv /\ [Next]_vars => TInv'
  BY TypeStep
<1>4. TInv /\ TInv' /\ ShortInv /\ AcceptInv /\ [Next]_vars => AcceptInv'
  BY AcceptStep
<1>5. ASSUME TInv, AcceptInv, pc = "done", wire = <<>>
      PROVE  snd_nxt = last_char /\ \A p \in Positions : rcv[p] # "none" <=> p <= snd_nxt
  <2>1. snd_nxt = last_char
    BY Zenon, <1>5 DEF AcceptInv
  <2>2. 1..Len(wire) = {}
    BY SMT, <1>5
  <2>3. \A p \in 1..snd_nxt : rcv[p] # "none"
    BY Zenon, <1>5, <2>2 DEF AcceptInv, ZerosAhead
  <2>4. \A p \in Positions : p <= snd_nxt => p \in 1..snd_nxt
    BY SMT, <1>5, LengthsAssumption DEF Positions, TInv, TypeOK
  <2>5. QED
    BY Zenon, <1>5, <2>1, <2>3, <2>4 DEF AcceptInv
<1>6. TInv /\ AcceptInv => SeqAgrees
  BY Zenon, <1>5 DEF SeqAgrees
<1>7. QED
  BY TypeInit, ShortInit, AcceptInit, <1>2, <1>3, <1>4, <1>6, PTL DEF Spec
-----------------------------------------------------------------------------
(* Without faults the real data comes before the zeros.                    *)

\* The step of the plan whose packet carries position p of the request.
Carries(step, p) ==
    \/ step = "first" /\ p <= split_pos
    \/ step = "second" /\ p > split_pos
    \/ step = "whole"
InPlan(p)        == \E j \in 1..Len(plan) : Carries(plan[j], p)
DataUpTo(n, p)   == \E j \in 1..n : wire[j].kind = "data" /\ Covers(wire[j], p)

\* Every position of the request is there, on its way or still to be sent; zeros leave only
\* when the plan is empty, and never overtake the data they stand for.
Accounted(p) == rcv[p] = "real" \/ DataUpTo(Len(wire), p) \/ InPlan(p)
ZerosLast(i, p) ==
    wire[i].kind = "sync" /\ Covers(wire[i], p) => rcv[p] = "real" \/ DataUpTo(i - 1, p)
OnlyReal == \A p \in Positions : rcv[p] # "none" => rcv[p] = "real"

StreamInv ==
    faults = {} =>
       /\ pc # "attack" => plan = <<>>
       /\ \A p \in 1..last_char : Accounted(p)
       /\ \A p \in 1..last_char, i \in 1..Len(wire) : ZerosLast(i, p)
       /\ OnlyReal

\* The plan has a packet for every position: the whole request or both parts.
Has(s, x) == \E j \in 1..Len(s) : s[j] = x

\* Putting the zeroth attack first takes nothing from the plan.
LEMMA HasConcat ==
    ASSUME NEW S, NEW s \in Seq(S), NEW t \in Seq(S), NEW x, Has(t, x)
    PROVE  Has(s \o t, x)
<1>1. PICK j \in 1..Len(t) : t[j] = x
  BY Zenon DEF Has
<1>2. Len(s) + j \in 1..Len(s \o t) /\ (s \o t)[Len(s) + j] = x
  BY SMT, <1>1
<1>3. QED
  BY Zenon, <1>2 DEF Has

\* The plan carries the whole request.
LEMMA PlanCarriesAll ==
    ASSUME TInv, plan = Plan, NEW p \in 1..last_char
    PROVE  InPlan(p)
<1>1. Has(<<"whole">>, "whole")
  BY SMT DEF Has
<1>2. Has(FirstAttack, "whole") \/ (Has(FirstAttack, "first") /\ Has(FirstAttack, "second"))
  <2>1. Has(<<"second", "first">>, "first") /\ Has(<<"second", "first">>, "second")
    <3>1. <<"second", "first">>[2] = "first" /\ <<"second", "first">>[1] = "second"
      BY SMT
    <3>2. QED
      BY SMT, <3>1 DEF Has
  <2>2. Has(<<"first", "second">>, "first") /\ Has(<<"first", "second">>, "second")
    <3>1. <<"first", "second">>[1] = "first" /\ <<"first", "second">>[2] = "second"
      BY SMT
    <3>2. QED
      BY SMT, <3>1 DEF Has
  <2>3. Has(<<"second", "zeros", "first", "zeros">>, "first")
        /\ Has(<<"second", "zeros", "first", "zeros">>, "second")
    <3> DEFINE s == <<"second", "zeros", "first", "zeros">>
    <3>1. 3 \in 1..Len(s) /\ s[3] = "first" /\ 1 \in 1..Len(s) /\ s[1] = "second"
      BY SMT
    <3>2. QED
      BY Zenon, <3>1 DEF Has
  <2>4. Has(<<"zeros", "first", "zeros", "second">>, "first")
        /\ Has(<<"zeros", "first", "zeros", "second">>, "second")
    <3> DEFINE s == <<"zeros", "first", "zeros", "second">>
    <3>1. 2 \in 1..Len(s) /\ s[2] = "first" /\ 4 \in 1..Len(s) /\ s[4] = "second"
      BY SMT
    <3>2. QED
      BY Zenon, <3>1 DEF Has
  <2>5. QED
    BY Zenon, <1>1, <2>1, <2>2, <2>3, <2>4 DEF FirstAttack
<1>3. Has(Plan, "whole") \/ (Has(Plan, "first") /\ Has(Plan, "second"))
  <2>1. ZeroAttack \in Seq(Steps) /\ FirstAttack \in Seq(Steps)
    BY AttackTypes DEF TInv
  <2>2. \A x : Has(FirstAttack, x) => Has(ZeroAttack \o FirstAttack, x)
    BY <2>1, HasConcat
  <2>3. QED
    BY Zenon, <1>1, <1>2, <2>2 DEF Plan
<1>4. p <= split_pos \/ p > split_pos
  BY SMT DEF TInv, TypeOK
<1>5. QED
  BY Zenon, <1>3, <1>4 DEF InPlan, Carries, Has

\* At the start everything is still to be sent.
LEMMA StreamInit == Init => StreamInv
<1> SUFFICES ASSUME Init PROVE StreamInv
  OBVIOUS
<1>1. TInv
  BY TypeInit
<1>2. wire = <<>> /\ pc = "attack" /\ rcv = [i \in Positions |-> "none"] /\ plan = Plan
  BY Zenon DEF Init
<1>3. 1..Len(wire) = {}
  BY SMT, <1>2
<1>4. \A p \in 1..last_char : Accounted(p)
  BY Zenon, <1>1, <1>2, PlanCarriesAll DEF Accounted
<1>5. QED
  BY Zenon, <1>2, <1>3, <1>4 DEF StreamInv, OnlyReal

\* A packet more at the end changes nothing before it.
LEMMA DataStays ==
    ASSUME NEW pkt \in Packet, wire \in Seq(Packet), wire' = Append(wire, pkt),
           NEW n \in 0..Len(wire), NEW m \in n..Len(wire'), NEW p, DataUpTo(n, p)
    PROVE  DataUpTo(m, p)'
<1>1. PICK j \in 1..n : wire[j].kind = "data" /\ Covers(wire[j], p)
  BY Zenon DEF DataUpTo
<1>2. /\ Len(wire) \in Nat /\ Len(wire') = Len(wire) + 1
      /\ \A i \in 1..Len(wire) : i \in 1..Len(wire') /\ wire'[i] = wire[i]
  BY SentOneMore
<1>3. j \in 1..Len(wire) /\ j \in 1..m
  BY SMT, <1>1, <1>2
<1>4. wire'[j] = wire[j]
  BY Zenon, <1>2, <1>3
<1>5. QED
  BY Zenon, <1>1, <1>3, <1>4 DEF DataUpTo, Covers

\* Every step keeps it, when fakes fall short.
LEMMA StreamStep ==
    ASSUME TInv, TInv', ShortInv, AcceptInv, StreamInv, [Next]_vars
    PROVE  StreamInv'
<1> USE DEF setting
<1>1. ASSUME faults' # {} PROVE StreamInv'
  BY Zenon, <1>1 DEF StreamInv
<1>2. UNCHANGED setting
  BY Zenon DEF Next, SendRaw, AttackReturns, SyncFirst, SyncRest, SyncFails, Arrive, Lose, vars
<1> SUFFICES ASSUME faults = {} PROVE StreamInv'
  BY Zenon, <1>1, <1>2
<1>3. /\ pc # "attack" => plan = <<>>
      /\ \A p \in 1..last_char : Accounted(p)
      /\ \A p \in 1..last_char, i \in 1..Len(wire) : ZerosLast(i, p)
      /\ OnlyReal
  BY Zenon DEF StreamInv
<1>4. wire \in Seq(Packet) /\ Len(wire) \in Nat /\ plan \in Seq(Steps)
  BY SMT DEF TInv, TypeOK
<1>5. ASSUME UNCHANGED <<wire, rcv, plan>>, pc' # "attack" => plan' = <<>> PROVE StreamInv'
  BY ZenonT(60), <1>2, <1>3, <1>5 DEF StreamInv, Accounted, ZerosLast, OnlyReal, DataUpTo, InPlan, Carries
<1>6. ASSUME NEW pkt \in Packet, wire' = Append(wire, pkt), UNCHANGED rcv,
             pc' # "attack" => plan' = <<>>,
             \A p \in 1..last_char : InPlan(p) => InPlan(p)' \/ (pkt.kind = "data" /\ Covers(pkt, p)),
             pkt.kind = "sync" => plan = <<>>
      PROVE  StreamInv'
  <2>1. /\ wire'[Len(wire')] = pkt /\ Len(wire') \in 1..Len(wire') /\ Len(wire') = Len(wire) + 1
        /\ \A i \in 1..Len(wire) : i \in 1..Len(wire') /\ wire'[i] = wire[i]
        /\ \A i \in 1..Len(wire') : i = Len(wire') \/ i \in 1..Len(wire)
    BY <1>4, <1>6, SentOneMore
  <2>2. \A n \in 0..Len(wire) : \A m \in n..Len(wire') : \A p : DataUpTo(n, p) => DataUpTo(m, p)'
    BY <1>4, <1>6, DataStays
  <2>3. /\ Len(wire) \in 0..Len(wire) /\ Len(wire') \in Len(wire)..Len(wire')
        /\ Len(wire') - 1 \in Len(wire)..Len(wire')
        /\ \A i \in 1..Len(wire) : i - 1 \in 0..Len(wire) /\ i - 1 \in (i - 1)..Len(wire')
    BY SMT, <1>4, <2>1
  <2>4. ASSUME NEW p \in 1..last_char PROVE Accounted(p)'
    <3>1. CASE rcv[p] = "real"
      BY Zenon, <1>6, <3>1 DEF Accounted
    <3>2. CASE DataUpTo(Len(wire), p)
      BY Zenon, <2>2, <2>3, <3>2 DEF Accounted
    <3>3. CASE InPlan(p)
      <4>1. pkt.kind = "data" /\ Covers(pkt, p) => DataUpTo(Len(wire), p)'
        BY Zenon, <2>1 DEF DataUpTo, Covers
      <4>2. QED
        BY Zenon, <1>6, <3>3, <4>1 DEF Accounted
    <3>4. QED
      BY Zenon, <1>3, <3>1, <3>2, <3>3 DEF Accounted
  <2>5. ASSUME NEW p \in 1..last_char, NEW i \in 1..Len(wire') PROVE ZerosLast(i, p)'
    <3>1. CASE i \in 1..Len(wire)
      <4>1. ZerosLast(i, p) /\ wire'[i] = wire[i]
        BY Zenon, <1>3, <2>1, <3>1
      <4>2. DataUpTo(i - 1, p) => DataUpTo(i - 1, p)'
        BY Zenon, <2>2, <2>3, <3>1
      <4>3. QED
        BY Zenon, <1>6, <4>1, <4>2 DEF ZerosLast, Covers
    <3>2. CASE i = Len(wire')
      <4>1. ASSUME pkt.kind = "sync" PROVE rcv[p] = "real" \/ DataUpTo(Len(wire), p)
        <5>1. 1..Len(plan) = {}
          BY SMT, <1>6, <4>1
        <5>2. QED
          BY Zenon, <1>3, <5>1 DEF Accounted, InPlan
      <4>2. DataUpTo(Len(wire), p) => DataUpTo(i - 1, p)'
        BY Zenon, <2>2, <2>3, <3>2
      <4>3. QED
        BY Zenon, <1>6, <2>1, <3>2, <4>1, <4>2 DEF ZerosLast
    <3>3. QED
      BY Zenon, <2>1, <3>1, <3>2
  <2>6. QED
    BY Zenon, <1>2, <1>3, <1>6, <2>4, <2>5 DEF StreamInv, OnlyReal
<1>7. ASSUME SendRaw PROVE StreamInv'
  <2> DEFINE pkt == form_packet(Head(plan))
  <2>1. /\ pc = "attack" /\ plan # <<>> /\ wire' = Append(wire, pkt) /\ plan' = Tail(plan)
        /\ UNCHANGED <<pc, rcv>>
    BY Zenon, <1>7 DEF SendRaw
  <2>2. /\ Head(plan) = plan[1] /\ Head(plan) \in Steps
        /\ \A j \in 1..Len(plan) : j = 1 \/ (j - 1 \in 1..Len(plan') /\ plan'[j - 1] = plan[j])
    BY SMT, <1>4, <2>1
  <2>3. pkt \in Packet
    BY <2>2, FormPacketType
  <2>4. pkt.kind # "sync"
    BY SMT DEF form_packet, Fake, Data
  <2>5. ASSUME NEW p \in 1..last_char, Carries(Head(plan), p) PROVE pkt.kind = "data" /\ Covers(pkt, p)
    <3>1. /\ p \in Nat /\ 1 <= p /\ p <= last_char /\ split_pos \in Nat
          /\ (p > split_pos => split_pos + 1 <= p)
      BY SMT DEF TInv, TypeOK
    <3>2. \A lo, hi : lo <= p /\ p <= hi => Data(lo, hi).kind = "data" /\ Covers(Data(lo, hi), p)
      BY SMT DEF Data, Covers
    <3>3. CASE Head(plan) = "first" /\ p <= split_pos
      <4>1. pkt = Data(1, split_pos)
        BY SMT, <3>3 DEF form_packet
      <4>2. QED
        BY Zenon, <3>1, <3>2, <3>3, <4>1
    <3>4. CASE Head(plan) = "second" /\ p > split_pos
      <4>1. pkt = Data(split_pos + 1, last_char)
        BY SMT, <3>4 DEF form_packet
      <4>2. QED
        BY Zenon, <3>1, <3>2, <3>4, <4>1
    <3>5. CASE Head(plan) = "whole"
      <4>1. pkt = Data(1, last_char)
        BY SMT, <3>5 DEF form_packet
      <4>2. QED
        BY Zenon, <3>1, <3>2, <4>1
    <3>6. QED
      BY Zenon, <2>5, <3>3, <3>4, <3>5 DEF Carries
  <2> HIDE DEF pkt
  <2>6. ASSUME NEW p \in 1..last_char, InPlan(p)
        PROVE  InPlan(p)' \/ (pkt.kind = "data" /\ Covers(pkt, p))
    <3>1. PICK j \in 1..Len(plan) : Carries(plan[j], p)
      BY Zenon, <2>6 DEF InPlan
    <3>2. CASE j = 1
      BY Zenon, <2>2, <2>5, <3>1, <3>2
    <3>3. CASE j # 1
      BY Zenon, <1>2, <2>2, <3>1, <3>3 DEF InPlan, Carries
    <3>4. QED
      BY Zenon, <3>2, <3>3
  <2>7. QED
    BY Zenon, <1>6, <2>1, <2>3, <2>4, <2>6
<1>8. ASSUME AttackReturns PROVE StreamInv'
  <2>1. "raw_fails" \notin faults
    BY SMT
  <2>2. plan = <<>> /\ plan' = <<>> /\ UNCHANGED <<wire, rcv>>
    BY Zenon, <1>8, <2>1 DEF AttackReturns
  <2>3. QED
    BY Zenon, <1>5, <2>2
<1>9. ASSUME NEW len \in Nat, NEW next, SendZeros(len, next), UNCHANGED <<plan, rcv>>, plan = <<>>
      PROVE  StreamInv'
  <2>1. CASE len = 0
    <3>1. wire' = wire
      BY Zenon, <1>9, <2>1 DEF SendZeros
    <3>2. QED
      BY Zenon, <1>5, <1>9, <3>1
  <2>2. CASE len # 0
    <3> DEFINE pkt == Sync(snd_nxt + 1, snd_nxt + len)
    <3>1. wire' = Append(wire, pkt)
      BY Zenon, <1>9, <2>2 DEF SendZeros
    <3>2. pkt \in Packet
      BY SMT DEF Sync, Packet, DefaultTtl, Byte, TInv, TypeOK
    <3> HIDE DEF pkt
    <3>3. \A p \in 1..last_char : InPlan(p) => InPlan(p)'
      BY Zenon, <1>2, <1>9 DEF InPlan, Carries
    <3>4. QED
      BY Zenon, <1>6, <1>9, <3>1, <3>2, <3>3
  <2>3. QED
    BY Zenon, <2>1, <2>2
<1>10. ASSUME SyncFirst \/ SyncRest PROVE StreamInv'
  <2>1. pc # "attack"
    BY SMT, <1>10 DEF SyncFirst, SyncRest
  <2>2. plan = <<>>
    BY Zenon, <1>3, <2>1
  <2>3. last_char \in Nat /\ split_pos \in Nat /\ last_char - split_pos \in Nat
    BY SMT, LengthsAssumption DEF TInv, TypeOK
  <2>4. QED
    BY Zenon, <1>9, <1>10, <2>2, <2>3 DEF SyncFirst, SyncRest
<1>11. ASSUME SyncFails PROVE StreamInv'
  <2>1. pc # "attack"
    BY SMT, <1>11 DEF SyncFails
  <2>2. QED
    BY Zenon, <1>3, <1>5, <1>11, <2>1 DEF SyncFails
<1>12. ASSUME Arrive PROVE StreamInv'
  <2>1. PICK i \in 1..Len(wire) : ArrivesAt(i)
    BY <1>12, ArriveCases
  <2>2. "reorder" \notin faults
    BY SMT
  <2>3. /\ i = 1 /\ wire' = Remove(wire, i) /\ UNCHANGED <<setting, pc, plan>>
        /\ \A p \in Positions :
             rcv'[p] = IF Genuine(wire[i]) /\ Covers(wire[i], p) /\ rcv[p] = "none"
                       THEN (IF wire[i].kind = "data" THEN "real" ELSE "zero") ELSE rcv[p]
    BY Zenon, <2>1, <2>2 DEF ArrivesAt
  <2>4. Len(wire') = Len(wire) - 1 /\ WithoutFirst(wire', wire)
    BY <1>4, <2>3, RemoveKeeps
  <2>5. \A p \in 1..last_char : p \in Positions
    BY SMT, LengthsAssumption DEF Positions, TInv, TypeOK
  <2>6. "real" # "none"
    BY SMT
  <2>7. wire[i].kind = "data" => Genuine(wire[i])
    BY SMT DEF Genuine
  <2>8. ASSUME NEW p \in Positions, wire[i].kind = "data", Covers(wire[i], p) PROVE rcv'[p] = "real"
    BY Zenon, <1>3, <2>3, <2>7, <2>8 DEF OnlyReal
  <2>9. \A p \in Positions : rcv[p] = "real" => rcv'[p] = "real"
    BY Zenon, <2>3, <2>6
  <2>10. ASSUME NEW p \in Positions, rcv'[p] # "none" PROVE rcv'[p] = "real"
    <3>1. CASE rcv[p] # "none"
      BY Zenon, <1>3, <2>9, <3>1 DEF OnlyReal
    <3>2. CASE rcv[p] = "none"
      <4>1. Genuine(wire[i]) /\ Covers(wire[i], p)
        BY Zenon, <2>3, <2>10, <3>2
      <4>2. CASE wire[i].kind = "data"
        BY Zenon, <2>8, <4>1, <4>2
      <4>3. CASE wire[i].kind = "sync"
        <5>1. p \in 1..last_char
          <6>1. wire[i] \in Packet
            BY SMT, <1>4
          <6>2. wire[i].hi <= last_char /\ p <= wire[i].hi
            BY Zenon, <4>1 DEF AcceptInv, AllGood, GoodPacket, Covers
          <6>3. QED
            BY SMTT(60), <6>1, <6>2, LengthsAssumption DEF Packet, Positions, TInv, TypeOK
        <5>2. rcv[p] = "real" \/ DataUpTo(i - 1, p)
          BY Zenon, <1>3, <4>1, <4>3, <5>1 DEF ZerosLast
        <5>3. 1..(i - 1) = {}
          BY SMT, <2>3
        <5>4. QED
          BY Zenon, <2>6, <3>2, <5>2, <5>3 DEF DataUpTo
      <4>4. QED
        BY Zenon, <4>1, <4>2, <4>3 DEF Genuine
    <3>3. QED
      BY Zenon, <3>1, <3>2
  <2>11. ASSUME NEW p \in Positions, NEW n \in 0..Len(wire'), DataUpTo(n + 1, p)
         PROVE  rcv'[p] = "real" \/ DataUpTo(n, p)'
    <3>1. PICK j \in 1..(n + 1) : wire[j].kind = "data" /\ Covers(wire[j], p)
      BY Zenon, <2>11 DEF DataUpTo
    <3>2. CASE j = 1
      BY Zenon, <2>3, <2>8, <3>1, <3>2
    <3>3. CASE j # 1
      <4>1. j - 1 \in 1..n /\ j - 1 \in 1..Len(wire') /\ (j - 1) + 1 = j
        BY SMT, <1>4, <2>4, <3>1, <3>3
      <4>2. wire'[j - 1] = wire[j]
        BY Zenon, <2>4, <4>1 DEF WithoutFirst
      <4>3. QED
        BY Zenon, <3>1, <4>1, <4>2 DEF DataUpTo, Covers
    <3>4. QED
      BY Zenon, <3>2, <3>3
  <2>12. ASSUME NEW p \in 1..last_char PROVE Accounted(p)'
    <3>1. p \in Positions
      BY Zenon, <2>5
    <3>2. CASE rcv[p] = "real"
      BY Zenon, <2>9, <3>1, <3>2 DEF Accounted
    <3>3. CASE DataUpTo(Len(wire), p)
      <4>1. Len(wire') \in 0..Len(wire') /\ Len(wire') + 1 = Len(wire)
        BY SMT, <1>4, <2>4
      <4>2. rcv'[p] = "real" \/ DataUpTo(Len(wire), p)'
        BY Zenon, <2>11, <3>1, <3>3, <4>1
      <4>3. QED
        BY Zenon, <4>2 DEF Accounted
    <3>4. CASE InPlan(p)
      BY Zenon, <2>3, <3>4 DEF Accounted, InPlan, Carries
    <3>5. QED
      BY Zenon, <1>3, <3>2, <3>3, <3>4 DEF Accounted
  <2>13. ASSUME NEW p \in 1..last_char, NEW k \in 1..Len(wire') PROVE ZerosLast(k, p)'
    <3>1. p \in Positions
      BY Zenon, <2>5
    <3>2. k + 1 \in 1..Len(wire) /\ wire'[k] = wire[k + 1]
      BY Zenon, <2>4 DEF WithoutFirst
    <3>3. k - 1 \in 0..Len(wire') /\ (k - 1) + 1 = (k + 1) - 1
      BY SMT, <1>4, <2>4
    <3>4. DataUpTo((k + 1) - 1, p) => rcv'[p] = "real" \/ DataUpTo(k - 1, p)'
      BY Zenon, <2>11, <3>1, <3>3
    <3>5. ZerosLast(k + 1, p)
      BY Zenon, <1>3, <3>2
    <3>6. QED
      BY Zenon, <2>9, <3>1, <3>2, <3>4, <3>5 DEF ZerosLast, Covers
  <2>14. QED
    BY Zenon, <1>3, <2>3, <2>10, <2>12, <2>13 DEF StreamInv, OnlyReal
<1>13. ASSUME Lose PROVE StreamInv'
  <2>1. "loss" \notin faults
    BY SMT
  <2>2. QED
    BY Zenon, <1>13, <2>1 DEF Lose
<1>14. ASSUME UNCHANGED vars PROVE StreamInv'
  BY Zenon, <1>3, <1>5, <1>14 DEF vars
<1>15. QED
  BY Zenon, <1>7, <1>8, <1>10, <1>11, <1>12, <1>13, <1>14 DEF Next

\* With settings tuned to the path and no faults, the server's application sees the client's
\* request and nothing else (StreamIntact): the zeros process_client_cycle sends through the
\* kernel always find their place taken by the real data, for every attack, every split and
\* every length of the request.
THEOREM StreamStaysIntact ==
    ASSUME \A p \in Profiles, h \in Hops : Tuned(p, h)
    PROVE  Spec => []StreamIntact
<1>1. TInv => Tuned(profile, hops)
  BY Zenon DEF TInv, PathInv
<1>2. TInv /\ TInv' /\ ShortInv /\ [Next]_vars => ShortInv'
  BY <1>1, ShortStep
<1>3. TInv /\ [Next]_vars => TInv'
  BY TypeStep
<1>4. TInv /\ TInv' /\ ShortInv /\ AcceptInv /\ [Next]_vars => AcceptInv'
  BY AcceptStep
<1>5. TInv /\ TInv' /\ ShortInv /\ AcceptInv /\ StreamInv /\ [Next]_vars => StreamInv'
  BY StreamStep
<1>6. AcceptInv /\ StreamInv => StreamIntact
  BY Zenon DEF StreamInv, AcceptInv, StreamIntact, OnlyReal
<1>7. QED
  BY TypeInit, ShortInit, AcceptInit, StreamInit, <1>2, <1>3, <1>4, <1>5, <1>6, PTL DEF Spec
=============================================================================
