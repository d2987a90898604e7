--------------------------- MODULE ResolverProofs ---------------------------
(***************************************************************************)
(* Theorems about Resolver: one lookup, for every timeout, every number    *)
(* and order of datagrams and under all its faults.                        *)
(*                                                                         *)
(* Leaves that assign Boolean variables are given to Zenon, the others to  *)
(* SMT.                                                                    *)
(***************************************************************************)
EXTENDS Resolver, TLAPS

-----------------------------------------------------------------------------
(* The inductive invariant.                                                *)

\* The way a lookup takes through resolve_host follows from its settings, and it has
\* an address only at the end of that way.
PathInv ==
    /\ ret = 0 => pc \in {"match", "done"}
    /\ pc = "match" => ret = 0
    /\ pc \in {"open", "check", "poll"} =>
          host \in {"name", "long"} /\ builtin_dns /\ asked = IF doh THEN "doh_server" ELSE "host"
    /\ pc \in {"check", "poll"} => host = "name"
    /\ pc = "open" /\ host = "long" => ~doh
    /\ pc = "get" => host = "name" /\ doh
    /\ pc = "system" => host \in {"name", "long"} /\ ~doh /\ ~builtin_dns

\* The socket is open inside the loop of resolve_host_over_udp and nowhere else.
SocketInv ==
    /\ sock # "twice"
    /\ pc \in {"check", "poll"} <=> sock = "open"
    /\ pc \in {"resolve", "open"} => sock = "none"

\* The lookup that asks for the host itself over UDP.
OverUdp == host = "name" /\ ~doh /\ builtin_dns

\* The datagrams read by the loop decoded and had other ids.
PassedOver == \A j \in 1..taken : arrived[j].ok /\ arrived[j].id = "other"

\* The last datagram read answered the query with this address, the ones before it
\* were passed over.
Answered(a) ==
    /\ taken # 0 /\ arrived[taken].id = "ours" /\ arrived[taken].ok /\ arrived[taken].a = <<a>>
    /\ \A j \in 1..(taken - 1) : arrived[j].ok /\ arrived[j].id = "other"

\* What was read from the socket: while the query is open, nothing that matters; once
\* it has an address, the answer, and that is where the address is from.
ReadInv ==
    /\ pc \in {"resolve", "open", "check", "poll"} => PassedOver
    /\ ret = 0 /\ OverUdp => Answered(IF ip.of = "host" THEN "answer" ELSE ip.of)

\* An address that did not come over UDP is the one asked for, it ends in a NUL only
\* if the system's resolver gave it, and the whitelist was searched for it.
AddressInv ==
    /\ ret = 0 =>
          /\ ~OverUdp => ip.of = IF host = "custom" THEN "custom" ELSE "host"
          /\ ip.nul => host = "name" /\ ~doh /\ ~builtin_dns
    /\ ret = 0 /\ pc = "done" =>
          (in_whitelist <=> match_whitelist_ip(ip) \/ match_whitelist_domain(host))

LookupInv == TypeOK /\ PathInv /\ SocketInv /\ AddressInv /\ ReadInv

-----------------------------------------------------------------------------
(* Type correctness.                                                       *)

Switches ==
    doh \in BOOLEAN /\ builtin_dns \in BOOLEAN /\ in_whitelist \in BOOLEAN

\* Types hold when the lookup starts.
LEMMA TypeInit == Init => TypeOK
<1> SUFFICES ASSUME Init PROVE TypeOK
  OBVIOUS
<1>1. Switches
  BY Zenon DEF Init, Switches
<1>2. /\ elapsed \in 0..(Timeout + 1)
      /\ arrived \in Seq(Datagram) /\ Len(arrived) <= MaxDatagrams /\ taken \in 0..Len(arrived)
  BY SMT, BoundsAssumption DEF Init
<1>3. QED
  BY SMT, <1>1, <1>2 DEF Init, TypeOK, Switches

\* What the ways of finding an address make are addresses.
LEMMA Addresses ==
    /\ \A name \in {"host", "custom", "stray"} : Of(name) \in Address /\ Of(name).of = name
    /\ \A name \in {"host", "custom", "stray"} : Of(name).nul = FALSE
    /\ [of |-> "host", nul |-> TRUE] \in Address
BY Zenon DEF Of, Address

\* The next datagram to be read.
LEMMA NextDatagram ==
    ASSUME TypeOK, UdpRecv
    PROVE  /\ taken' = taken + 1 /\ taken' \in 1..Len(arrived) /\ arrived[taken'] \in Datagram
           /\ taken \in Nat /\ UNCHANGED arrived
BY SMT DEF TypeOK, UdpRecv

\* What a datagram carries.
LEMMA Carried ==
    ASSUME NEW d \in Datagram
    PROVE  /\ d.a \in {<<>>, <<"answer">>, <<"stray">>}
           /\ d.id \in {"ours", "other"}
BY Zenon DEF Datagram

\* The settings never change, and the verdict on the whitelist stays Boolean.
LEMMA SwitchesStep ==
    ASSUME TypeOK, [Next]_vars
    PROVE  UNCHANGED setting /\ in_whitelist' \in BOOLEAN
<1> USE DEF TypeOK
<1>1. ASSUME resolve_host PROVE UNCHANGED setting /\ in_whitelist' \in BOOLEAN
  BY Zenon, <1>1 DEF resolve_host, Encodes, Failed, Found, Of, GoTo, setting, udp
<1>2. ASSUME resolve_host_over_system PROVE UNCHANGED setting /\ in_whitelist' \in BOOLEAN
  BY Zenon, <1>2 DEF resolve_host_over_system, Failed, Found, setting, udp
<1>3. ASSUME resolve_host_over_doh PROVE UNCHANGED setting /\ in_whitelist' \in BOOLEAN
  BY Zenon, <1>3 DEF resolve_host_over_doh, Failed, Found, Of, setting, udp
<1>4. ASSUME UdpOpen PROVE UNCHANGED setting /\ in_whitelist' \in BOOLEAN
  BY Zenon, <1>4 DEF UdpOpen, Encodes, Failed, GoTo, setting, udp
<1>5. ASSUME UdpCheck PROVE UNCHANGED setting /\ in_whitelist' \in BOOLEAN
  BY Zenon, <1>5 DEF UdpCheck, Failed, GoTo, Close, setting, udp
<1>6. ASSUME UdpPollTimeout PROVE UNCHANGED setting /\ in_whitelist' \in BOOLEAN
  BY Zenon, <1>6 DEF UdpPollTimeout, GoTo, setting, udp
<1>7. ASSUME UdpRecv PROVE UNCHANGED setting /\ in_whitelist' \in BOOLEAN
  BY Zenon, <1>7 DEF UdpRecv, Failed, Found, Of, GoTo, Close, Answer, Decoded, setting, udp
<1>8. ASSUME MatchWhitelist PROVE UNCHANGED setting /\ in_whitelist' \in BOOLEAN
  BY Zenon, <1>8 DEF MatchWhitelist, GoTo, match_whitelist_ip, match_whitelist_domain, setting, udp
<1>9. ASSUME UdpPollError PROVE UNCHANGED setting /\ in_whitelist' \in BOOLEAN
  BY Zenon, <1>9 DEF UdpPollError, Failed, Close, setting, udp
<1>10. ASSUME Arrive PROVE UNCHANGED setting /\ in_whitelist' \in BOOLEAN
  BY Zenon, <1>10 DEF Arrive, setting, udp
<1>11. ASSUME Tick PROVE UNCHANGED setting /\ in_whitelist' \in BOOLEAN
  BY Zenon, <1>11 DEF Tick, setting, udp
<1>12. ASSUME UNCHANGED vars PROVE UNCHANGED setting /\ in_whitelist' \in BOOLEAN
  BY Zenon, <1>12 DEF vars, setting, udp
<1>13. QED
  BY Zenon, <1>1, <1>2, <1>3, <1>4, <1>5, <1>6, <1>7, <1>8, <1>9, <1>10, <1>11, <1>12 DEF Next, Thread, Done

\* Every step of the thread, the network and the clock keeps the types.
LEMMA TypeStep == ASSUME TypeOK, [Next]_vars PROVE TypeOK'
<1>0. UNCHANGED setting /\ in_whitelist' \in BOOLEAN
  BY SwitchesStep
<1> USE DEF TypeOK, setting, udp
<1>1. ASSUME resolve_host PROVE TypeOK'
  BY SMT, <1>1, <1>0, Addresses DEF resolve_host, Encodes, Failed, Found, GoTo
<1>2. ASSUME resolve_host_over_system PROVE TypeOK'
  <2>1. ip' \in Address \cup {NoIp}
    BY Zenon, <1>2, Addresses DEF resolve_host_over_system, Failed, Found
  <2>2. pc' \in {"match", "done"} /\ ret' \in {-1, 0} /\ UNCHANGED udp
    BY SMT, <1>2 DEF resolve_host_over_system, Failed, Found
  <2>3. QED
    BY SMT, <1>0, <2>1, <2>2
<1>3. ASSUME resolve_host_over_doh PROVE TypeOK'
  BY SMT, <1>3, <1>0, Addresses DEF resolve_host_over_doh, Failed, Found
<1>4. ASSUME UdpOpen PROVE TypeOK'
  BY SMT, <1>4, <1>0, BoundsAssumption DEF UdpOpen, Encodes, Failed, GoTo
<1>5. ASSUME UdpCheck PROVE TypeOK'
  BY SMT, <1>5, <1>0 DEF UdpCheck, Failed, GoTo, Close
<1>6. ASSUME UdpPollTimeout PROVE TypeOK'
  BY SMT, <1>6, <1>0 DEF UdpPollTimeout, GoTo
<1>7. ASSUME UdpRecv PROVE TypeOK'
  <2>1. PICK d \in Datagram : d = arrived[taken']
    BY Zenon, <1>7, NextDatagram
  <2>2. /\ arrived' \in Seq(Datagram) /\ Len(arrived') <= MaxDatagrams
        /\ taken' \in 0..Len(arrived')
    BY SMT, <1>7, NextDatagram
  <2>3. records' \in {<<>>, <<"answer">>, <<"stray">>}
    BY Zenon, <1>7, <2>1, Carried DEF UdpRecv, Decoded
  <2>4. /\ sock' \in {"none", "open", "closed", "twice"}
        /\ UNCHANGED <<elapsed, asked>>
    BY Zenon, <1>7 DEF UdpRecv, Close
  <2>5. /\ pc' \in {"check", "get", "match", "done"} /\ ret' \in {-1, 0}
        /\ ip' = ip \/ ip' \in Address
    BY SMT, <1>7, Addresses DEF UdpRecv, Failed, Found, GoTo, Answer
  <2>6. QED
    BY SMT, <1>0, <2>2, <2>3, <2>4, <2>5
<1>8. ASSUME MatchWhitelist PROVE TypeOK'
  BY SMT, <1>8, <1>0 DEF MatchWhitelist, GoTo, match_whitelist_ip, match_whitelist_domain
<1>9. ASSUME UdpPollError PROVE TypeOK'
  BY SMT, <1>9, <1>0 DEF UdpPollError, Failed, Close
<1>10. ASSUME Arrive PROVE TypeOK'
  <2>1. PICK d \in Datagram : arrived' = Append(arrived, d)
    BY Zenon, <1>10 DEF Arrive
  <2>2. /\ arrived' \in Seq(Datagram) /\ Len(arrived') <= MaxDatagrams
        /\ taken' \in 0..Len(arrived')
    BY SMT, <1>10, <2>1, BoundsAssumption DEF Arrive
  <2>3. QED
    BY SMT, <1>10, <1>0, <2>1, <2>2 DEF Arrive
<1>11. ASSUME Tick PROVE TypeOK'
  BY SMT, <1>11, <1>0, BoundsAssumption DEF Tick
<1>12. ASSUME UNCHANGED vars PROVE TypeOK'
  BY SMT, <1>12, <1>0 DEF vars
<1>13. QED
  BY Zenon, <1>1, <1>2, <1>3, <1>4, <1>5, <1>6, <1>7, <1>8, <1>9, <1>10, <1>11, <1>12 DEF Next, Thread, Done

-----------------------------------------------------------------------------
(* The other parts of the invariant.                                       *)

\* Every step keeps to the way the settings prescribe.
LEMMA PathStep == ASSUME TypeOK, PathInv, [Next]_vars PROVE PathInv'
<1>0. UNCHANGED setting
  BY SwitchesStep
<1> USE DEF TypeOK, PathInv, setting, udp
<1>1. ASSUME resolve_host PROVE PathInv'
  BY SMT, <1>1, <1>0 DEF resolve_host, Encodes, Failed, Found, GoTo
<1>2. ASSUME resolve_host_over_system PROVE PathInv'
  BY SMT, <1>2, <1>0 DEF resolve_host_over_system, Failed, Found
<1>3. ASSUME resolve_host_over_doh PROVE PathInv'
  BY SMT, <1>3, <1>0 DEF resolve_host_over_doh, Failed, Found
<1>4. ASSUME UdpOpen PROVE PathInv'
  BY SMT, <1>4, <1>0 DEF UdpOpen, Encodes, Failed, GoTo
<1>5. ASSUME UdpCheck PROVE PathInv'
  BY SMT, <1>5, <1>0 DEF UdpCheck, Failed, GoTo, Close
<1>6. ASSUME UdpPollTimeout PROVE PathInv'
  BY SMT, <1>6, <1>0 DEF UdpPollTimeout, GoTo
<1>7. ASSUME UdpRecv PROVE PathInv'
  BY SMT, <1>7, <1>0 DEF UdpRecv, Failed, Found, GoTo, Close, Answer, Decoded
<1>8. ASSUME MatchWhitelist PROVE PathInv'
  BY SMT, <1>8, <1>0 DEF MatchWhitelist, GoTo
<1>9. ASSUME UdpPollError PROVE PathInv'
  BY SMT, <1>9, <1>0 DEF UdpPollError, Failed, Close
<1>10. ASSUME Arrive PROVE PathInv'
  BY SMT, <1>10, <1>0 DEF Arrive
<1>11. ASSUME Tick PROVE PathInv'
  BY SMT, <1>11, <1>0 DEF Tick
<1>12. ASSUME UNCHANGED vars PROVE PathInv'
  BY SMT, <1>12, <1>0 DEF vars
<1>13. QED
  BY Zenon, <1>1, <1>2, <1>3, <1>4, <1>5, <1>6, <1>7, <1>8, <1>9, <1>10, <1>11, <1>12
  DEF Next, Thread, Done

\* Every step keeps the socket where it belongs.
LEMMA SocketStep == ASSUME TypeOK, PathInv, SocketInv, [Next]_vars PROVE SocketInv'
<1> USE DEF TypeOK, PathInv, SocketInv, setting, udp
<1>1. ASSUME resolve_host PROVE SocketInv'
  BY SMT, <1>1 DEF resolve_host, Encodes, Failed, Found, GoTo
<1>2. ASSUME resolve_host_over_system PROVE SocketInv'
  BY SMT, <1>2 DEF resolve_host_over_system, Failed, Found
<1>3. ASSUME resolve_host_over_doh PROVE SocketInv'
  BY SMT, <1>3 DEF resolve_host_over_doh, Failed, Found
<1>4. ASSUME UdpOpen PROVE SocketInv'
  BY SMT, <1>4 DEF UdpOpen, Encodes, Failed, GoTo
<1>5. ASSUME UdpCheck PROVE SocketInv'
  BY SMT, <1>5 DEF UdpCheck, Failed, GoTo, Close
<1>6. ASSUME UdpPollTimeout PROVE SocketInv'
  BY SMT, <1>6 DEF UdpPollTimeout, GoTo
<1>7. ASSUME UdpRecv PROVE SocketInv'
  BY SMT, <1>7 DEF UdpRecv, Failed, Found, GoTo, Close, Answer, Decoded
<1>8. ASSUME MatchWhitelist PROVE SocketInv'
  BY SMT, <1>8 DEF MatchWhitelist, GoTo
<1>9. ASSUME UdpPollError PROVE SocketInv'
  BY SMT, <1>9 DEF UdpPollError, Failed, Close
<1>10. ASSUME Arrive PROVE SocketInv'
  BY SMT, <1>10 DEF Arrive
<1>11. ASSUME Tick PROVE SocketInv'
  BY SMT, <1>11 DEF Tick
<1>12. ASSUME UNCHANGED vars PROVE SocketInv'
  BY SMT, <1>12 DEF vars
<1>13. QED
  BY Zenon, <1>1, <1>2, <1>3, <1>4, <1>5, <1>6, <1>7, <1>8, <1>9, <1>10, <1>11, <1>12
  DEF Next, Thread, Done

\* Every step keeps what is known of the address.
LEMMA AddressStep ==
    ASSUME TypeOK, PathInv, AddressInv, [Next]_vars
    PROVE  AddressInv'
<1>0. UNCHANGED setting
  BY SwitchesStep
<1> USE DEF TypeOK, PathInv, AddressInv, OverUdp, setting, udp, match_whitelist_ip, match_whitelist_domain
<1>1. ASSUME resolve_host PROVE AddressInv'
  BY SMT, <1>1, <1>0, Addresses DEF resolve_host, Encodes, Failed, Found, GoTo
<1>2. ASSUME resolve_host_over_system PROVE AddressInv'
  BY SMT, <1>2, <1>0, Addresses DEF resolve_host_over_system, Failed, Found
<1>3. ASSUME resolve_host_over_doh PROVE AddressInv'
  BY SMT, <1>3, <1>0, Addresses DEF resolve_host_over_doh, Failed, Found
<1>4. ASSUME UdpOpen PROVE AddressInv'
  BY SMT, <1>4, <1>0, Addresses DEF UdpOpen, Encodes, Failed, GoTo
<1>5. ASSUME UdpCheck PROVE AddressInv'
  BY SMT, <1>5, <1>0, Addresses DEF UdpCheck, Failed, GoTo, Close
<1>6. ASSUME UdpPollTimeout PROVE AddressInv'
  BY SMT, <1>6, <1>0, Addresses DEF UdpPollTimeout, GoTo
<1>7. ASSUME UdpRecv PROVE AddressInv'
  <2>1. ret' = 0 => pc' = "match" /\ asked = "host" /\ ~(ip.nul)'
    BY SMT, <1>7, Addresses DEF UdpRecv, Failed, Found, GoTo, Answer, Decoded
  <2>2. QED
    BY SMT, <1>0, <1>7, <2>1 DEF UdpRecv
<1>8. ASSUME MatchWhitelist PROVE AddressInv'
  <2>1. in_whitelist' <=> match_whitelist_ip(ip) \/ match_whitelist_domain(host)
    BY Zenon, <1>8 DEF MatchWhitelist
  <2>2. UNCHANGED <<ip, ret>> /\ pc' = "done" /\ pc = "match"
    BY Zenon, <1>8 DEF MatchWhitelist, GoTo
  <2>3. (ip.nul)' = ip.nul /\ (ip.of)' = ip.of /\ match_whitelist_ip(ip)' = match_whitelist_ip(ip)
    BY Zenon, <1>0, <2>2
  <2>4. QED
    BY SMT, <1>0, <2>1, <2>2, <2>3
<1>9. ASSUME UdpPollError PROVE AddressInv'
  BY SMT, <1>9, <1>0, Addresses DEF UdpPollError, Failed, Close
<1>10. ASSUME Arrive PROVE AddressInv'
  BY SMT, <1>10, <1>0, Addresses DEF Arrive
<1>11. ASSUME Tick PROVE AddressInv'
  BY SMT, <1>11, <1>0, Addresses DEF Tick
<1>12. ASSUME UNCHANGED vars PROVE AddressInv'
  BY SMT, <1>12, <1>0, Addresses DEF vars
<1>13. QED
  BY Zenon, <1>1, <1>2, <1>3, <1>4, <1>5, <1>6, <1>7, <1>8, <1>9, <1>10, <1>11, <1>12
  DEF Next, Thread, Done

\* A step that leaves the socket's datagrams alone and finds no address there keeps what
\* is known of them.
LEMMA ReadStays ==
    ASSUME ReadInv, UNCHANGED <<setting, arrived, taken>>,
           pc' \in {"resolve", "open", "check", "poll"} =>
              pc \in {"resolve", "open", "check", "poll"},
           ret' = 0 /\ OverUdp => ret = 0 /\ ip' = ip
    PROVE  ReadInv'
<1>1. OverUdp' = OverUdp /\ PassedOver' = PassedOver
  BY Zenon DEF OverUdp, PassedOver, setting
<1>2. ASSUME ret' = 0, OverUdp PROVE Answered(IF ip.of = "host" THEN "answer" ELSE ip.of)'
  BY Zenon, <1>2 DEF ReadInv, Answered
<1>3. QED
  BY Zenon, <1>1, <1>2 DEF ReadInv

\* Every step keeps what is known of the datagrams that were read.
LEMMA ReadStep ==
    ASSUME TypeOK, PathInv, SocketInv, ReadInv, [Next]_vars
    PROVE  ReadInv'
<1>0. UNCHANGED setting
  BY SwitchesStep
<1> USE DEF TypeOK, PathInv, SocketInv, OverUdp, setting, udp
<1>1. ASSUME resolve_host PROVE ReadInv'
  BY SMT, <1>1, <1>0, ReadStays DEF resolve_host, Encodes, Failed, Found, GoTo
<1>2. ASSUME resolve_host_over_system PROVE ReadInv'
  BY SMT, <1>2, <1>0, ReadStays DEF resolve_host_over_system, Failed, Found
<1>3. ASSUME resolve_host_over_doh PROVE ReadInv'
  BY SMT, <1>3, <1>0, ReadStays DEF resolve_host_over_doh, Failed, Found
<1>4. ASSUME UdpOpen PROVE ReadInv'
  BY SMT, <1>4, <1>0, ReadStays DEF UdpOpen, Encodes, Failed, GoTo
<1>5. ASSUME UdpCheck PROVE ReadInv'
  BY SMT, <1>5, <1>0, ReadStays DEF UdpCheck, Failed, GoTo, Close
<1>6. ASSUME UdpPollTimeout PROVE ReadInv'
  BY SMT, <1>6, <1>0, ReadStays DEF UdpPollTimeout, GoTo
<1>7. ASSUME UdpRecv PROVE ReadInv'
  <2>1. PICK d \in Datagram : d = arrived[taken']
    BY Zenon, <1>7, NextDatagram
  <2>2. taken' = taken + 1 /\ taken \in Nat /\ UNCHANGED arrived /\ pc = "poll" /\ ret # 0
    BY SMT, <1>7, NextDatagram DEF UdpRecv
  <2>3. \A j \in 1..taken : arrived[j].ok /\ arrived[j].id = "other"
    BY Zenon, <2>2 DEF ReadInv, PassedOver
  <2>4. CASE ~d.ok
    <3>1. pc' = "done" /\ ret' = -1
      BY Zenon, <1>7, <2>1, <2>4 DEF UdpRecv, Failed
    <3>2. QED
      BY SMT, <3>1 DEF ReadInv
  <2>5. CASE d.ok /\ d.id # "ours"
    <3>1. pc' = "check" /\ UNCHANGED ret
      BY Zenon, <1>7, <2>1, <2>5 DEF UdpRecv, GoTo
    <3>2. d.id = "other"
      BY SMT, <2>5, Carried
    <3>3. \A j \in 1..taken' : arrived[j].ok /\ arrived[j].id = "other"
      BY SMT, <2>1, <2>2, <2>3, <2>5, <3>2
    <3>4. PassedOver'
      BY Zenon, <2>2, <3>3 DEF PassedOver
    <3>5. QED
      BY SMT, <2>2, <3>1, <3>4 DEF ReadInv
  <2>6. CASE d.ok /\ d.id = "ours"
    <3>1. pc' \in {"done", "match", "get"}
      BY SMT, <1>7, <2>1, <2>6 DEF UdpRecv, Answer, Failed, Found, GoTo
    <3>2. ASSUME ret' = 0
          PROVE  d.a # <<>> /\ ip'.of = IF Head(d.a) = "answer" THEN "host" ELSE "stray"
      BY SMT, <1>7, <2>1, <2>2, <2>6, <3>2, Addresses
      DEF UdpRecv, Answer, Failed, Found, GoTo, Decoded
    <3>3. ASSUME ret' = 0
          PROVE  d.a = <<IF (ip.of)' = "host" THEN "answer" ELSE (ip.of)'>>
      BY SMT, <3>2, <3>3, Carried
    <3>4. ASSUME ret' = 0
          PROVE  Answered(IF ip.of = "host" THEN "answer" ELSE ip.of)'
      <4>1. \A j \in 1..(taken' - 1) : arrived[j].ok /\ arrived[j].id = "other"
        BY SMT, <2>2, <2>3
      <4>2. taken' # 0
        BY SMT, <2>2
      <4>3. QED
        BY Zenon, <2>1, <2>2, <2>6, <3>3, <3>4, <4>1, <4>2 DEF Answered
    <3>5. QED
      BY SMT, <3>1, <3>4 DEF ReadInv
  <2>7. QED
    BY Zenon, <2>4, <2>5, <2>6
<1>8. ASSUME MatchWhitelist PROVE ReadInv'
  BY SMT, <1>8, <1>0, ReadStays DEF MatchWhitelist, GoTo
<1>9. ASSUME UdpPollError PROVE ReadInv'
  BY SMT, <1>9, <1>0, ReadStays DEF UdpPollError, Failed, Close
<1>10. ASSUME Arrive PROVE ReadInv'
  <2>1. PICK d \in Datagram : arrived' = Append(arrived, d)
    BY Zenon, <1>10 DEF Arrive
  <2>2. UNCHANGED <<pc, ret, taken>> /\ pc \in {"check", "poll"} /\ ret # 0
    BY SMT, <1>10 DEF Arrive
  <2>3. \A j \in 1..taken : arrived'[j] = arrived[j]
    BY SMT, <2>1
  <2>4. PassedOver'
    BY Zenon, <2>2, <2>3 DEF ReadInv, PassedOver
  <2>5. QED
    BY SMT, <2>2, <2>4 DEF ReadInv
<1>11. ASSUME Tick PROVE ReadInv'
  BY SMT, <1>11, <1>0, ReadStays DEF Tick
<1>12. ASSUME UNCHANGED vars PROVE ReadInv'
  BY SMT, <1>12, <1>0, ReadStays DEF vars
<1>13. QED
  BY Zenon, <1>1, <1>2, <1>3, <1>4, <1>5, <1>6, <1>7, <1>8, <1>9, <1>10, <1>11, <1>12
  DEF Next, Thread, Done

-----------------------------------------------------------------------------
(* The theorems.                                                           *)

\* The whole invariant holds of every lookup.
LEMMA LookupInvariant == Spec => []LookupInv
<1>1. Init => LookupInv
  <2> SUFFICES ASSUME Init PROVE LookupInv
    OBVIOUS
  <2>1. TypeOK
    BY TypeInit
  <2>2. PathInv /\ SocketInv /\ AddressInv
    BY SMT DEF Init, PathInv, SocketInv, AddressInv
  <2>3. ReadInv
    BY SMT DEF Init, ReadInv, PassedOver
  <2>4. QED
    BY <2>1, <2>2, <2>3 DEF LookupInv
<1>2. LookupInv /\ [Next]_vars => LookupInv'
  BY TypeStep, PathStep, SocketStep, AddressStep, ReadStep DEF LookupInv
<1>3. QED
  BY <1>1, <1>2, PTL DEF Spec

\* The variables of a lookup keep their types, whatever arrives on its socket.
THEOREM TypeCorrect == Spec => []TypeOK
<1>1. LookupInv => TypeOK
  BY DEF LookupInv
<1>2. QED
  BY <1>1, LookupInvariant, PTL

\* However many datagrams arrive, from whomever and in whatever order, the builtin
\* resolver succeeds only with the address of the first one that has the id of its
\* query, and a DoH lookup only with the address that was asked for.
THEOREM AnswersAreOurs == Spec => []AnswerIsOurs
<1>1. ASSUME TypeOK, NEW a, Answered(a) PROVE FirstAnswer(a)
  <2>1. taken \in 1..Len(arrived)
    BY SMT, <1>1 DEF TypeOK, Answered
  <2>2. QED
    BY Zenon, <1>1, <2>1 DEF Answered, FirstAnswer
<1>2. LookupInv => AnswerIsOurs
  BY Zenon, <1>1 DEF LookupInv, AddressInv, ReadInv, OverUdp, AnswerIsOurs
<1>3. QED
  BY <1>2, LookupInvariant, PTL

\* resolve_host_over_udp closes its socket once on every path, also when a DoH lookup
\* used it to find its server.
THEOREM SocketIsClosed == Spec => []SocketClosed
<1>1. LookupInv => SocketClosed
  BY SMT DEF LookupInv, SocketInv, SocketClosed
<1>2. QED
  BY <1>1, LookupInvariant, PTL

\* A host is left alone exactly if its name or its address is in the whitelist, unless
\* its address came from the system's resolver.
THEOREM WhitelistIsHonoured == Spec => []WhitelistHonoured
<1>1. LookupInv => WhitelistHonoured
  BY Zenon DEF LookupInv, AddressInv, WhitelistHonoured, match_whitelist_ip,
     match_whitelist_domain
<1>2. QED
  BY <1>1, LookupInvariant, PTL
=============================================================================
