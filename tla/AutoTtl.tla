------------------------------ MODULE AutoTtl ------------------------------
(***************************************************************************)
(* tcp_get_auto_ttl: the TTL of fake packets, from the TTL the server's    *)
(* SYN,ACK arrived with. Fakes are meant to be seen on the way and not by  *)
(* the server, so the TTL chosen must not exceed the number of routers on  *)
(* the path. The parameters are uint8_t and the arithmetic is stored in a  *)
(* uint8_t.                                                                *)
(***************************************************************************)
EXTENDS Integers

Byte == 0..255

\* How many routers a packet with this TTL has passed, if it started with 128
\* or 64; 0 when that is not to be told.
NHops(ttl) ==
    IF 98 < ttl /\ ttl < 128 THEN 128 - ttl
    ELSE IF 34 < ttl /\ ttl < 64 THEN 64 - ttl ELSE 0

\* trunc((a2 - a1) * ((float) nhops / 10)): towards zero. The float product is
\* exact enough for nhops <= 9, where it is used, to truncate like the rational.
Scaled(a1, a2, nhops) ==
    IF a2 >= a1 THEN ((a2 - a1) * nhops) \div 10 ELSE -(((a1 - a2) * nhops) \div 10)

\* The TTL before the maximum is applied. Both assignments store an int or a
\* double into a uint8_t.
FakeTtl(nhops, a1, a2) ==
    LET t == (nhops - a2) % 256
    IN  IF t < a2 /\ nhops <= 9 THEN (nhops - a1 - Scaled(a1, a2, nhops)) % 256 ELSE t

\* Mutant: the minimum distance is not asked for.
tcp_get_auto_ttl_NoMinimum(ttl, a1, a2, minhops, maxttl) ==
    LET nhops == NHops(ttl)
        t     == FakeTtl(nhops, a1, a2)
    IN  IF nhops = 0 \/ nhops <= a1 THEN 0
        ELSE IF maxttl # 0 /\ t > maxttl THEN maxttl ELSE t

tcp_get_auto_ttl(ttl, a1, a2, minhops, maxttl) ==
    LET nhops == NHops(ttl)
        t     == FakeTtl(nhops, a1, a2)
    IN  IF nhops = 0 \/ nhops <= a1 \/ nhops < minhops THEN 0
        ELSE IF maxttl # 0 /\ t > maxttl THEN maxttl ELSE t

\* A packet sent with this TTL gets past `hops` routers.
Reaches(ttl, hops) == ttl > hops
=============================================================================
