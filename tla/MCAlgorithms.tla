---------------------------- MODULE MCAlgorithms ----------------------------
(***************************************************************************)
(* The pure algorithms, each on every input of a small set: an action      *)
(* picks an input.                                                         *)
(***************************************************************************)
EXTENDS Algorithms

Nothing == [kind |-> "nothing"]
SeqsUpTo(S, n) == UNION {[1..k -> S] : k \in 0..n}

Letters  == {97, 98}
Needles  == SeqsUpTo(Letters \cup {Star, Question}, 5)
Haystack == SeqsUpTo(Letters, 4)

\* Bytes that make carries, and addresses that add some.
Buffers   == {<<0, 0>> \o b : b \in SeqsUpTo({0, 1, 255}, 4)}
Addresses == {<<0, 0, 0, 0>>, <<255, 255, 255, 255>>, <<255, 255, 0, 1>>}

Exts   == {[type |-> 0, size |-> 1], [type |-> 0, size |-> 3],
           [type |-> 5, size |-> 0], [type |-> 5, size |-> 6]}
Hellos == [sid: {0, 3}, suites: {2, 4}, comp: {1, 2}, exts: SeqsUpTo(Exts, 2)]

\* End, labels, a link to the start of the message and links to elsewhere.
Messages == [1..6 -> {0, 1, 2, 3, 192}]

ElementLists == SeqsUpTo([id: {0, 1}, size: 0..2], 3)

Given(opt, args) == {[opt |-> opt, arg |-> a] : a \in args}
Unsaid == {"none"}

\* Options in groups of four: names for profiles, values that wrap, are refused or conflict.
Options == Given("profile", {"wlan0", "default", ""}) \cup Given("server_port", {81})
    \cup Given("fake_packets_ttl", {5, 65537, 300}) \cup Given("min_ttl", {7})
    \cup Given("auto_ttl", {<<1, 4, 65546>>})
    \cup Given("desync_attacks", {<<"fake", "split">>, <<"rst", "fake">>})
    \cup Given("doh", Unsaid)

\* Every other option, at the limits of its values.
MoreOptions == Given("server_port", {0, 1, 65535, 65536})
    \cup Given("builtin_dns_port", {0, 5353, 65536})
    \cup Given("buffer_size", {-1, 127, 128, 65535, 65536})
    \cup Given("split_position", {-1, 0, 65535, 65536})
    \cup Given("window_size", {0, 65535, 65536, 65537})
    \cup Given("window_scale_factor", {-1, 0, 14, 15, 65536})
    \cup Given("auto_ttl", {<<1, 4>>, <<2, 65537, 9>>, <<1, 4, 10, 2>>})
    \cup Given("desync_attacks", {<<"disorder">>, <<"split", "none">>})
    \cup Given("proxy_mode", {"proxy", "transparent", "none"})
    \cup UNION {Given(text, {"text"}) : text \in {"server_address", "ca_bundle_path", "pid_file",
                   "whitelist_path", "custom_ips_path", "doh_server", "builtin_dns_ip"}}
    \cup UNION {Given(flag, Unsaid) : flag \in {"split_at_sni", "builtin_dns", "wrong_seq",
                   "daemon", "auto", "help"}}

CommandLines == SeqsUpTo(Options, 4) \cup SeqsUpTo(Options \cup MoreOptions, 2)

Lines == SeqsUpTo({"a", "b", " "}, 3)

Init == input = Nothing

Pick(record) == input' = record

PickPattern  == \E n \in Needles, h \in Haystack : Pick([kind |-> "match", needle |-> n, haystack |-> h])
PickPacket   == \E s \in Addresses, d \in Addresses, b \in Buffers :
                    Pick([kind |-> "packet", src |-> s, dst |-> d, bytes |-> b])
PickHello    == \E h \in Hellos : \E read \in 40..Len(Hello(h)) :
                    Pick([kind |-> "hello", hello |-> h, read |-> read])
PickName     == \E m \in Messages, pos \in {0, 3} : Pick([kind |-> "name", message |-> m, pos |-> pos])
PickElements == \E es \in ElementLists : \E read \in 0..Len(Elements(es)) :
                    Pick([kind |-> "elements", elements |-> es, read |-> read])
PickArgs     == \E args \in CommandLines : Pick([kind |-> "args", args |-> args])
PickLines    == \E a \in Lines, b \in Lines, c \in Lines : Pick([kind |-> "lines", lines |-> <<a, b, c>>])
Picked       == input # Nothing /\ UNCHANGED input

Next ==
    \/ input = Nothing /\ (PickPattern \/ PickPacket \/ PickHello \/ PickName)
    \/ input = Nothing /\ (PickElements \/ PickArgs \/ PickLines)
    \/ Picked

Spec == Init /\ [][Next]_input
=============================================================================
