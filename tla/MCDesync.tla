------------------------------ MODULE MCDesync ------------------------------
(***************************************************************************)
(* Instances of Desync for TLC: the settings each run explores.            *)
(***************************************************************************)
EXTENDS Desync

Setting(zeros, firsts, wrongs, ttls, autos, a1s, a2s, maxs, mins) ==
    [zero: zeros, first: firsts, wrong_seq: wrongs, fake_packets_ttl: ttls,
     auto_ttl: autos, auto_ttl_a1: a1s, auto_ttl_a2: a2s, auto_ttl_max: maxs, min_ttl: mins]

\* Every pair of attacks, harmless by --wrong-seq, by --ttl or by --auto-ttl;
\* and --min-ttl alone.
TunedProfiles ==
    Setting(ZeroAttacks, FirstAttacks, {TRUE}, {0}, {FALSE}, {1}, {4}, {10}, {0})
    \cup Setting(ZeroAttacks, FirstAttacks, {FALSE}, {2}, {FALSE}, {1}, {4}, {10}, {0, 6})
    \cup Setting(ZeroAttacks, FirstAttacks, {FALSE}, {0}, {TRUE}, {1}, {4}, {10}, {4})

\* The same with automatic TTLs at the edges: no decrease, no maximum, a maximum
\* below the distance, a1 equal to a2.
FaultyPathProfiles ==
    TunedProfiles
    \cup Setting({"fake"}, {"split_fake"}, {FALSE}, {0}, {TRUE}, {0, 2}, {2, 5}, {0, 3}, {5})

\* --auto-ttl=1-4-10 with the --min-ttl it implies.
DefaultAuto == Setting({"fake"}, {"none"}, {FALSE}, {0}, {TRUE}, {1}, {4}, {10}, {3})

NearHops == {2, 3, 5, 9, 12}
AllHops == 1..29
CommonTtls == {64, 128}
AllTtls == {64, 128, 255}

NoFaults == {{}}
NoneOrAll == {{}, AllEvents}
=============================================================================
