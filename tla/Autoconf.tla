------------------------------ MODULE Autoconf ------------------------------
(***************************************************************************)
(* run_autoconf: resolve a blocked site, count the hops to it with probes  *)
(* of growing TTL, then try every combination of desync attacks until one  *)
(* passes a series of four tests, lower its TTL as far as it still works   *)
(* and report it. The answers to the probes may come late, get lost or be  *)
(* packets of the server that answer no probe, and every test may fail for *)
(* a reason of its own.                                                    *)
(***************************************************************************)
EXTENDS Integers, Sequences

CONSTANTS
    MaxHops,   \* bound: routers and server on the path
    MaxTtl,    \* the greatest TTL that is probed, 255 in the code
    Fooled,    \* the sets of attacks a censor may fall for, to choose from
    Events     \* faults the environment may inject

AllEvents == {"call_fails",  \* a bundle, a context, a lookup, a socket call
              "raw_socket_fails",  \* the raw socket of a sniffer cannot be opened
              "late",        \* a reply that comes after the wait for it
              "lost",        \* a reply that never comes
              "stray",       \* a packet of the connection that answers no probe
              "flaky",       \* a test that fails though the attack works
              "block_page",  \* a page of the censor that passes for the site's
              "bad_input"}   \* a port, a name or a redirect that makes the code throw

ASSUME EventsAssumption == Events \subseteq AllEvents
ASSUME BoundsAssumption == MaxHops \in Nat \ {0} /\ MaxTtl \in 1..255 /\ MaxHops < MaxTtl

VARIABLES
    https, quick,                          \* the site; whether it answers within 1 ms
    hops, dpi, fooled, checks_seq,         \* the path and the censor on it
    pc, ret, ctx,                          \* run_autoconf, its SSL_CTX
    dns,                                   \* the resolver that found the site
    attempt, ttl, replies, clean, fakes_ttl, exact, strayed,  \* count_hops
    comb, profile, tests, result, limit,   \* the combinations and their tests
    flaked, confirmed, reported            \* histories, and what is printed

path    == <<https, quick, hops, dpi, fooled, checks_seq>>
hopping == <<attempt, ttl, replies, clean, fakes_ttl, exact, strayed>>
testing == <<comb, profile, tests, result, limit, flaked, confirmed, reported>>
vars    == <<path, pc, ret, ctx, dns, hopping, testing>>

-----------------------------------------------------------------------------
zero_attacks    == <<"none", "fake", "rst", "rstack">>
first_attacks   == <<"disorder_fake", "split_fake">>
fake_types      == <<"ttl", "wrong-seq">>
win_size_scales == <<FALSE, TRUE>>
comb_all        == Len(zero_attacks) * Len(first_attacks) * Len(fake_types) * Len(win_size_scales)

\* The profile of the n-th combination. It is built from the defaults, so of the
\* resolver that was asked for only the choice of the builtin one is kept.
set_profile(n, hop_ttl, builtin) ==
    LET i    == n - 1
        fake == fake_types[1 + ((i \div 2) % 2)]
    IN  [zero  |-> zero_attacks[1 + (i \div 8)],
         first |-> first_attacks[1 + ((i \div 4) % 2)],
         scale |-> win_size_scales[1 + (i % 2)],
         fake  |-> fake,
         ttl   |-> IF fake = "ttl" THEN hop_ttl ELSE 0,
         dns   |-> IF builtin THEN "default" ELSE "off"]

NoProfile == [zero |-> "none", first |-> "none", scale |-> FALSE,
              fake |-> "none", ttl |-> 0, dns |-> "off"]

Attacks  == [zero: {zero_attacks[i] : i \in 1..4}, first: {first_attacks[i] : i \in 1..2},
             scale: BOOLEAN]
Profiles == [zero: {zero_attacks[i] : i \in 1..4}, first: {first_attacks[i] : i \in 1..2},
             scale: BOOLEAN, fake: {"ttl", "wrong-seq"}, ttl: 0..MaxTtl,
             dns: {"off", "default"}]

\* What the network makes of a profile: the censor has to fall for the attack and to
\* see the fakes; the server has to drop them, by their TTL or their number. A TTL of
\* zero stands for the default one, which reaches the server.
Works(p) ==
    /\ [zero |-> p.zero, first |-> p.first, scale |-> p.scale] \in fooled
    /\ CASE p.fake = "ttl"       -> p.ttl >= dpi /\ p.ttl < hops
         [] p.fake = "wrong-seq" -> ~checks_seq
         [] OTHER                -> FALSE

TypeOK ==
    /\ https \in BOOLEAN /\ quick \in BOOLEAN /\ checks_seq \in BOOLEAN
    /\ hops \in 1..MaxHops /\ dpi \in 1..hops /\ fooled \in Fooled
    /\ pc \in {"bundle", "context", "resolve", "retry", "connect", "send", "wait",
               "choose", "trial", "shrink", "stuck", "thrown", "done"}
    /\ ret \in {-1, 0} /\ ctx \in {"none", "live", "freed", "twice"}
    /\ dns \in {"off", "default", "asked"}
    /\ attempt \in 1..3 /\ ttl \in 0..MaxTtl /\ replies \in 0..(MaxTtl + 1)
    /\ clean \in BOOLEAN /\ exact \in BOOLEAN /\ strayed \in BOOLEAN
    /\ fakes_ttl \in (0..MaxTtl) \cup {256}
    /\ comb \in 1..(comb_all + 1) /\ profile \in Profiles \cup {NoProfile}
    /\ tests \in 0..3 /\ result \in {-1, 0} /\ limit \in 0..MaxTtl
    /\ flaked \in BOOLEAN /\ confirmed \subseteq Profiles
    /\ reported \in Profiles \cup {NoProfile}

Init ==
    /\ https \in BOOLEAN /\ quick \in BOOLEAN /\ checks_seq \in BOOLEAN
    /\ hops \in 1..MaxHops /\ dpi \in 1..hops /\ fooled \in Fooled
    /\ pc = "bundle" /\ ret = 0 /\ ctx = "none" /\ dns = "off"
    /\ attempt = 1 /\ ttl = 0 /\ replies = 0 /\ clean = TRUE /\ fakes_ttl = 256
    /\ exact = FALSE /\ strayed = FALSE
    /\ comb = 1 /\ profile = NoProfile /\ tests = 0 /\ result = 0 /\ limit = 0
    /\ flaked = FALSE /\ confirmed = {} /\ reported = NoProfile

-----------------------------------------------------------------------------
SSL_CTX_free(c) == CASE c = "live" -> "freed" [] OTHER -> "twice"
FreeContext     == ctx' = IF https THEN SSL_CTX_free(ctx) ELSE ctx
Return(r)       == ret' = r /\ pc' = "done"
GoTo(label)     == pc' = label /\ UNCHANGED ret

load_ca_bundle ==
    /\ pc = "bundle"
    /\ \/ "call_fails" \in Events /\ Return(-1)
       \/ GoTo(IF https THEN "context" ELSE "resolve")
    /\ UNCHANGED <<path, ctx, dns, hopping, testing>>

\* Either the store or the context may fail; then there is no context to free.
SSL_CTX_new ==
    /\ pc = "context"
    /\ \/ "call_fails" \in Events /\ Return(-1) /\ UNCHANGED ctx
       \/ ctx' = "live" /\ GoTo("resolve")
    /\ UNCHANGED <<path, dns, hopping, testing>>

\* If the site cannot be resolved over DoH, the user is asked for a DNS server, may
\* keep the default one, and there is one more try.
Resolve ==
    /\ pc = "resolve"
    /\ \/ GoTo("connect") /\ UNCHANGED dns
       \/ "call_fails" \in Events /\ dns' \in {"default", "asked"} /\ GoTo("retry")
    /\ UNCHANGED <<path, ctx, hopping, testing>>

ResolveAgain ==
    /\ pc = "retry"
    /\ \/ GoTo("connect") /\ UNCHANGED ctx
       \/ "call_fails" \in Events /\ FreeContext /\ Return(-1)
    /\ UNCHANGED <<path, dns, hopping, testing>>

-----------------------------------------------------------------------------
(* count_hops: three tries of count_hops_private, the least result wins.   *)

\* Mutant: the last answer wins.
Least_Last(found) == IF found # 256 THEN found ELSE fakes_ttl

Least(found) == IF found < fakes_ttl THEN found ELSE fakes_ttl

\* The try ends with a TTL, or with 256 for "no answer".
TryEnds(found) ==
    LET least == Least(found)
    IN  /\ ttl' = 0 /\ replies' = 0 /\ clean' = TRUE
        /\ exact' = (exact \/ (clean /\ found # 256)) /\ UNCHANGED strayed
        /\ IF attempt < 3
           THEN /\ attempt' = attempt + 1 /\ fakes_ttl' = least
                /\ GoTo("connect") /\ UNCHANGED ctx
           ELSE /\ UNCHANGED attempt
                /\ IF least = 256
                   THEN fakes_ttl' = least /\ FreeContext /\ Return(-1)
                   ELSE fakes_ttl' = least - 1 /\ GoTo("choose") /\ UNCHANGED ctx

\* The handshake that is sniffed, and the raw socket; these failures end the try.
Connect ==
    /\ pc = "connect"
    /\ \/ "call_fails" \in Events /\ TryEnds(256)
       \/ /\ ttl' = 1 /\ GoTo("send")
          /\ UNCHANGED <<attempt, replies, clean, fakes_ttl, exact, strayed, ctx>>
    /\ UNCHANGED <<path, dns, testing>>

\* sniff_handshake_packet returns without the promise that its starter, here or in
\* test_desync_attack, waits for.
NoPromise ==
    /\ "raw_socket_fails" \in Events /\ pc \in {"connect", "trial", "shrink"}
    /\ GoTo("stuck")
    /\ UNCHANGED <<path, ctx, dns, hopping, testing>>

\* An exception nobody catches: std::stoi of a port the user typed, form_dns_request of
\* a name that is too long, or erase() in check_http_response at a slash that the
\* address of a redirect does not have.
Uncaught ==
    /\ "bad_input" \in Events
    /\ pc \in {"bundle", "resolve", "retry"} \/ (pc \in {"trial", "shrink"} /\ ~https)
    /\ GoTo("thrown")
    /\ UNCHANGED <<path, ctx, dns, hopping, testing>>

SendProbe ==
    /\ pc = "send"
    /\ \/ "call_fails" \in Events /\ TryEnds(256)
       \/ /\ replies' = IF ttl >= hops THEN replies + 1 ELSE replies
          /\ GoTo("wait") /\ UNCHANGED <<attempt, ttl, clean, fakes_ttl, exact, strayed, ctx>>
    /\ UNCHANGED <<path, dns, testing>>

\* A packet of the server to the port of the probe counts as the answer to the probe
\* that was sent last.
PollReply ==
    /\ pc = "wait" /\ replies > 0 /\ ~quick
    /\ TryEnds(ttl)
    /\ UNCHANGED <<path, dns, testing>>

\* Mutant: one TTL too many.
NoTtlLeft_OneMore == ttl = MaxTtl + 1

NoTtlLeft == ttl = MaxTtl

\* The wait is over, or poll failed: on to the next TTL. The wait is twice the time
\* of the connect in milliseconds, so there is none if that rounds to zero.
PollTimeout ==
    /\ pc = "wait"
    /\ replies = 0 \/ quick \/ "late" \in Events
    /\ IF NoTtlLeft
       THEN TryEnds(256)
       ELSE /\ ttl' = ttl + 1 /\ clean' = (clean /\ replies = 0)
            /\ GoTo("send") /\ UNCHANGED <<attempt, replies, fakes_ttl, exact, strayed, ctx>>
    /\ UNCHANGED <<path, dns, testing>>

LoseReply ==
    /\ "lost" \in Events /\ pc = "wait" /\ replies > 0
    /\ replies' = replies - 1 /\ clean' = FALSE
    /\ UNCHANGED <<path, pc, ret, ctx, dns, attempt, ttl, fakes_ttl, exact, strayed, testing>>

\* A SYN-ACK sent again, or a server that speaks first.
StrayPacket ==
    /\ "stray" \in Events /\ pc = "wait" /\ clean
    /\ replies' = replies + 1 /\ clean' = FALSE /\ strayed' = TRUE
    /\ UNCHANGED <<path, pc, ret, ctx, dns, attempt, ttl, fakes_ttl, exact, testing>>

-----------------------------------------------------------------------------
(* The combinations, each with a series of four tests at most.             *)

\* Mutant: the last combination is left out.
Untried_ButLast == comb < comb_all

Untried == comb <= comb_all

Choose ==
    /\ pc = "choose" /\ Untried
    /\ profile' = set_profile(comb, fakes_ttl, dns # "off")
    /\ tests' = 0 /\ result' = 0
    /\ GoTo("trial")
    /\ UNCHANGED <<path, ctx, dns, hopping, comb, limit, flaked, confirmed, reported>>

NothingWorks ==
    /\ pc = "choose" /\ ~Untried
    /\ FreeContext /\ Return(0)
    /\ UNCHANGED <<path, dns, hopping, testing>>

\* Mutant: the context is left to run_autoconf, which returns at once.
Report_KeepsContext(p) == reported' = p /\ profile' = p /\ Return(0) /\ UNCHANGED ctx

Report(p) ==
    /\ reported' = p /\ profile' = p
    /\ FreeContext /\ Return(0)

\* Mutants: the same combination again; the TTL is printed as the loop left it.
Following_Same(c) == c
Lowered_Not(p)    == p

Following(c) == c + 1
FromOne(p)   == [p EXCEPT !.ttl = 1]
Lowered(p)   == [p EXCEPT !.ttl = @ - 1]

\* A series of test_desync_attack_wrapper ends.
TrialEnds(r) ==
    IF r = -1
    THEN /\ comb' = Following(comb) /\ GoTo("choose")
         /\ UNCHANGED <<profile, limit, reported, ctx>>
    ELSE /\ UNCHANGED comb
         /\ IF profile.ttl # 0
            THEN /\ limit' = profile.ttl /\ profile' = FromOne(profile)
                 /\ GoTo("shrink") /\ UNCHANGED <<reported, ctx>>
            ELSE Report(profile) /\ UNCHANGED limit

\* A series of show_configured_options ends: the TTL is raised, and lowered again
\* when the loop is left.
ShrinkEnds(r) ==
    LET raised == [profile EXCEPT !.ttl = @ + 1]
    IN  /\ UNCHANGED <<comb, limit>>
        /\ IF raised.ttl <= limit /\ r = -1
           THEN profile' = raised /\ GoTo("shrink") /\ UNCHANGED <<reported, ctx>>
           ELSE Report(Lowered(raised))

SeriesEnds(r) ==
    /\ tests' = 0 /\ result' = 0
    /\ confirmed' = IF r = 0 THEN confirmed \cup {profile} ELSE confirmed
    /\ IF pc = "trial" THEN TrialEnds(r) ELSE ShrinkEnds(r)

\* What check_https_response and check_http_response make of the answer: a certificate
\* proves who sent it, without one a page of the censor that is no redirect, or no
\* early one, is taken for the site's.
Outcome ==
    {r \in {-1, 0} :
        \/ r = 0 /\ (Works(profile) \/ ("block_page" \in Events /\ ~https))
        \/ r = -1 /\ (~Works(profile) \/ "flaky" \in Events)}

\* The first test ends the series when it fails; the three after it are all made.
test_desync_attack ==
    /\ pc \in {"trial", "shrink"}
    /\ \E outcome \in Outcome :
          LET r == IF outcome < result THEN outcome ELSE result
          IN  /\ flaked' = (flaked \/ (outcome = -1 /\ Works(profile)))
              /\ IF tests = 3 \/ (tests = 0 /\ outcome = -1)
                 THEN SeriesEnds(r)
                 ELSE /\ tests' = tests + 1 /\ result' = r
                      /\ UNCHANGED <<pc, ret, ctx, comb, profile, limit, confirmed, reported>>
    /\ UNCHANGED <<path, dns, hopping>>

Done == pc \in {"stuck", "thrown", "done"} /\ UNCHANGED vars

Step == \/ load_ca_bundle \/ SSL_CTX_new \/ Resolve \/ ResolveAgain
        \/ Connect \/ SendProbe \/ PollReply \/ PollTimeout
        \/ Choose \/ NothingWorks \/ test_desync_attack
Next == Step \/ NoPromise \/ Uncaught \/ LoseReply \/ StrayPacket \/ Done

Spec     == Init /\ [][Next]_vars
FairSpec == Spec /\ WF_vars(Step)

-----------------------------------------------------------------------------
\* However run_autoconf ends, the SSL_CTX it made has been freed, and once: on success
\* test_desync_attack_wrapper frees it, on every other way out run_autoconf does.
ContextFreedOnce == ctx # "twice" /\ (pc = "done" => ctx # "live")

\* What count_hops measures. One undisturbed try of the three is enough for fakes that
\* fall short of the server, since late and lost answers only raise the result and the
\* least one is taken; and unless the server sends a packet that answers no probe, the
\* fakes reach every router before the server.
HopsMeasured ==
    pc \in {"choose", "trial", "shrink"} =>
        /\ exact => fakes_ttl < hops
        /\ ~strayed => fakes_ttl >= hops - 1

\* The options show_configured_options prints are, TTL included, ones that passed four
\* tests in a row, even if tests of the search for the least TTL failed by chance; if
\* none did, no lower TTL works with them.
ReportedWorked ==
    reported # NoProfile =>
        /\ reported \in confirmed
        /\ ~flaked => \A t \in 1..(reported.ttl - 1) : ~Works([reported EXCEPT !.ttl = t])

\* "Failed to find any working attack!" is true: if the hops were measured undisturbed
\* and no test failed by chance, none of the combinations works.
NothingMissed ==
    pc = "done" /\ ret = 0 /\ reported = NoProfile /\ exact /\ ~strayed /\ ~flaked =>
        \A n \in 1..comb_all : ~Works(set_profile(n, hops - 1, FALSE))

\* The search ends, whatever is lost or fails on the way, unless it waits for a sniffer
\* that could not start; an exception ends it together with the process.
AutoconfEnds == <>(\/ pc = "done"
                   \/ pc = "stuck" /\ "raw_socket_fails" \in Events
                   \/ pc = "thrown" /\ "bad_input" \in Events)
=============================================================================
