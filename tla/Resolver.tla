------------------------------ MODULE Resolver ------------------------------
(***************************************************************************)
(* One lookup: resolve_host with its four ways to find an address, and the *)
(* test of the whitelist that follows it. The builtin resolver sends one   *)
(* query over UDP and waits, on a socket that anybody can write to, for a  *)
(* datagram with the id of the query; a DoH lookup may need it first, to   *)
(* find the DoH server.                                                    *)
(***************************************************************************)
EXTENDS Integers, Sequences

CONSTANTS
    Timeout,       \* Settings_perst.builtin_dns_req_timeout, in clock ticks
    MaxDatagrams,  \* bound: datagrams that reach the socket
    Events         \* faults the environment may inject

AllEvents == {"call_fails",  \* socket, inet_pton, sendto, poll, getaddrinfo or Get fails
              "malformed"}   \* a datagram that does not decode

ASSUME EventsAssumption == Events \subseteq AllEvents
ASSUME BoundsAssumption == Timeout \in Nat \ {0} /\ MaxDatagrams \in Nat

VARIABLES
    host, doh, builtin_dns, doh_server,   \* the request and the settings
    whitelist_ips, whitelist_domains,
    pc, ip, ret,                          \* resolve_host and what it returns
    sock, elapsed, asked, records,        \* the builtin resolver
    arrived, taken,                       \* the datagrams of its socket, how many were read
    in_whitelist

setting == <<host, doh, builtin_dns, doh_server, whitelist_ips, whitelist_domains>>
udp     == <<sock, elapsed, asked, records, arrived, taken>>
vars    == <<setting, pc, ip, ret, udp, in_whitelist>>

\* Whose address it is, and whether the string ends in a NUL character.
Address  == [of: {"host", "custom", "doh_server", "stray"}, nul: BOOLEAN]
NoIp     == [of |-> "nobody", nul |-> FALSE]
Of(name) == [of |-> name, nul |-> FALSE]

\* Datagrams: answers with the id of the query or another one, with an A record or
\* without, and what does not decode. The resolver looks at nothing but the id: a
\* stranger who knows it writes answers that look like the DNS server's.
Datagram ==
    [id: {"ours"}, a: {<<>>, <<"answer">>, <<"stray">>}, ok: {TRUE}]
    \cup [id: {"other"}, a: {<<>>, <<"stray">>}, ok: {TRUE}]
    \cup [id: {"other"}, a: {<<>>}, ok: {FALSE}]

Close(fd) == CASE fd = "none" -> "none" [] fd = "open" -> "closed" [] OTHER -> "twice"

TypeOK ==
    /\ host \in {"empty", "literal", "custom", "name", "long"}
    /\ doh \in BOOLEAN /\ builtin_dns \in BOOLEAN /\ doh_server \in {"literal", "name", "long"}
    /\ whitelist_ips \subseteq {"host", "custom"} /\ whitelist_domains \subseteq {"name", "literal"}
    /\ pc \in {"resolve", "open", "check", "poll", "get", "system", "match", "done", "terminated"}
    /\ ip \in Address \cup {NoIp} /\ ret \in {-1, 0}
    /\ sock \in {"none", "open", "closed", "twice"}
    /\ elapsed \in 0..(Timeout + 1)
    /\ asked \in {"nobody", "host", "doh_server"}
    /\ records \in {<<>>, <<"answer">>, <<"stray">>}
    /\ arrived \in Seq(Datagram) /\ Len(arrived) <= MaxDatagrams /\ taken \in 0..Len(arrived)
    /\ in_whitelist \in BOOLEAN

Init ==
    /\ host \in {"empty", "literal", "custom", "name", "long"}
    /\ doh \in BOOLEAN /\ builtin_dns \in BOOLEAN /\ doh_server \in {"literal", "name", "long"}
    /\ whitelist_ips \in {{}, {"host"}, {"custom"}}
    /\ whitelist_domains \in {{}, {"name"}, {"literal"}}
    /\ pc = "resolve" /\ ip = NoIp /\ ret = -1
    /\ sock = "none" /\ elapsed = 0 /\ asked = "nobody" /\ records = <<>>
    /\ arrived = <<>> /\ taken = 0 /\ in_whitelist = FALSE

-----------------------------------------------------------------------------
Found(address) == ip' = address /\ ret' = 0 /\ pc' = "match"
Failed         == ret' = -1 /\ pc' = "done" /\ UNCHANGED ip
GoTo(label)    == pc' = label /\ UNCHANGED <<ip, ret>>

\* form_dns_request of this name returns: dnslib refuses a label of more than 63
\* characters, and a name of more than 255, with an exception that nobody catches.
Encodes(name) == (IF name = "host" THEN host ELSE doh_server) # "long"

\* An address or a name of the custom list needs no lookup; else DoH, which forms its
\* query first, the builtin resolver or the system's, in this order of preference.
resolve_host ==
    /\ pc = "resolve"
    /\ CASE host = "empty"   -> Failed
         [] host = "literal" -> Found(Of("host"))
         [] host = "custom"  -> Found(Of("custom"))
         [] OTHER -> GoTo(IF doh
                          THEN IF ~Encodes("host") THEN "terminated"
                               ELSE IF builtin_dns /\ doh_server # "literal" THEN "open" ELSE "get"
                          ELSE IF builtin_dns THEN "open" ELSE "system")
    /\ asked' = IF pc' # "open" THEN asked ELSE IF doh THEN "doh_server" ELSE "host"
    /\ UNCHANGED <<setting, sock, elapsed, records, arrived, taken, in_whitelist>>

\* Mutant: the error code of getaddrinfo is passed on.
resolve_host_over_system_ReturnsErr ==
    /\ pc = "system"
    /\ \/ host # "long" /\ Found([of |-> "host", nul |-> TRUE])
       \/ ("call_fails" \in Events \/ host = "long") /\ ret' = -2 /\ pc' = "done" /\ UNCHANGED ip
    /\ UNCHANGED <<setting, udp, in_whitelist>>

\* The address keeps the NUL inet_ntop wrote: it is cut at the first space.
resolve_host_over_system ==
    /\ pc = "system"
    /\ \/ host # "long" /\ Found([of |-> "host", nul |-> TRUE])
       \/ ("call_fails" \in Events \/ host = "long") /\ Failed
    /\ UNCHANGED <<setting, udp, in_whitelist>>

-----------------------------------------------------------------------------
(* resolve_host_over_udp.                                                  *)

\* The query is formed and sent; start is read.
UdpOpen ==
    /\ pc = "open"
    /\ \/ Encodes(asked) /\ sock' = "open" /\ GoTo("check")
       \/ Encodes(asked) /\ "call_fails" \in Events /\ sock' \in {"none", "closed"} /\ Failed
       \/ ~Encodes(asked) /\ GoTo("terminated") /\ UNCHANGED sock
    /\ elapsed' = 0
    /\ UNCHANGED <<setting, asked, records, arrived, taken, in_whitelist>>

\* Mutant: the clock is started again by every turn of the loop.
UdpCheck_Restarts ==
    /\ pc = "check"
    /\ elapsed' = 0 /\ GoTo("poll")
    /\ UNCHANGED <<setting, sock, asked, records, arrived, taken, in_whitelist>>

\* The head of the loop: out of time, or poll() for the time that is left.
UdpCheck ==
    /\ pc = "check"
    /\ IF elapsed >= Timeout THEN sock' = Close(sock) /\ Failed
       ELSE GoTo("poll") /\ UNCHANGED sock
    /\ UNCHANGED <<setting, elapsed, asked, records, arrived, taken, in_whitelist>>

UdpPollTimeout ==
    /\ pc = "poll" /\ elapsed >= Timeout /\ taken = Len(arrived)
    /\ GoTo("check")
    /\ UNCHANGED <<setting, udp, in_whitelist>>

UdpPollError ==
    /\ pc = "poll" /\ "call_fails" \in Events
    /\ sock' = Close(sock) /\ Failed
    /\ UNCHANGED <<setting, elapsed, asked, records, arrived, taken, in_whitelist>>

\* The first A record: the address asked for, or -1 when there is none.
Answer(a) ==
    IF a = <<>> THEN Failed
    ELSE IF asked = "host" THEN Found(Of(IF Head(a) = "answer" THEN "host" ELSE "stray"))
    ELSE GoTo("get")

\* Mutant: decode() keeps the records of the message before.
Decoded_Accumulates(d) == IF records = <<>> THEN d.a ELSE records

\* Message::decode: removeAllRecords(), then the records of this datagram.
Decoded(d) == d.a

\* Mutant: the exception leaves the socket open.
UdpRecv_LeavesSocket ==
    /\ pc = "poll" /\ taken < Len(arrived)
    /\ taken' = taken + 1
    /\ LET d == arrived[taken'] IN
       IF ~d.ok THEN UNCHANGED <<sock, records>> /\ Failed
       ELSE /\ records' = Decoded(d)
            /\ IF d.id = "ours" THEN sock' = Close(sock) /\ Answer(records')
               ELSE GoTo("check") /\ UNCHANGED sock
    /\ UNCHANGED <<setting, elapsed, asked, arrived, in_whitelist>>

\* A datagram that does not decode ends the lookup, whoever sent it; one with
\* another id is passed over.
UdpRecv ==
    /\ pc = "poll" /\ taken < Len(arrived)
    /\ taken' = taken + 1
    /\ LET d == arrived[taken'] IN
       IF ~d.ok THEN sock' = Close(sock) /\ Failed /\ UNCHANGED records
       ELSE /\ records' = Decoded(d)
            /\ IF d.id = "ours" THEN sock' = Close(sock) /\ Answer(records')
               ELSE GoTo("check") /\ UNCHANGED sock
    /\ UNCHANGED <<setting, elapsed, asked, arrived, in_whitelist>>

\* The DNS server answers, more than once or not at all; strangers write as well.
Arrive ==
    /\ sock = "open" /\ Len(arrived) < MaxDatagrams
    /\ \E d \in Datagram :
          (d.ok \/ "malformed" \in Events) /\ arrived' = Append(arrived, d)
    /\ UNCHANGED <<setting, pc, ip, ret, sock, elapsed, asked, records, taken, in_whitelist>>

Tick ==
    /\ sock = "open" /\ elapsed <= Timeout
    /\ elapsed' = elapsed + 1
    /\ UNCHANGED <<setting, pc, ip, ret, sock, asked, records, arrived, taken, in_whitelist>>

-----------------------------------------------------------------------------
\* The rest of resolve_host_over_doh: gen_x509_store and the GET. The certificate is
\* checked against the DoH server's name with the bundle and the system's CAs, so
\* nobody at a wrong address passes; the request or its answer may be no good.
resolve_host_over_doh ==
    /\ pc = "get"
    /\ \/ Found(Of("host")) /\ doh_server # "long" /\ records # <<"stray">>
       \/ Failed
    /\ UNCHANGED <<setting, udp, in_whitelist>>

match_whitelist_ip(address) == ~address.nul /\ address.of \in whitelist_ips
match_whitelist_domain(name) == name \in whitelist_domains

\* Mutant: the domain decides alone.
MatchWhitelist_DomainOnly ==
    /\ pc = "match"
    /\ in_whitelist' = match_whitelist_domain(host)
    /\ GoTo("done")
    /\ UNCHANGED <<setting, udp>>

\* process_client_cycle, with the address it was given.
MatchWhitelist ==
    /\ pc = "match"
    /\ in_whitelist' = (match_whitelist_ip(ip) \/ match_whitelist_domain(host))
    /\ GoTo("done")
    /\ UNCHANGED <<setting, udp>>

Done == pc \in {"done", "terminated"} /\ UNCHANGED vars

Thread ==
    \/ resolve_host \/ resolve_host_over_system \/ resolve_host_over_doh
    \/ UdpOpen \/ UdpCheck \/ UdpPollTimeout \/ UdpRecv \/ MatchWhitelist

Next == Thread \/ UdpPollError \/ Arrive \/ Tick \/ Done

Spec     == Init /\ [][Next]_vars
FairSpec == Spec /\ WF_vars(Thread) /\ WF_vars(Tick)

-----------------------------------------------------------------------------
(* Properties.                                                             *)

\* The first datagram with the id of the query has this address as its A record, and
\* every one before it decodes.
FirstAnswer(a) ==
    \E i \in 1..Len(arrived) :
       /\ arrived[i].id = "ours" /\ arrived[i].ok /\ arrived[i].a = <<a>>
       /\ \A j \in 1..(i - 1) : arrived[j].ok /\ arrived[j].id = "other"

\* A lookup of the builtin resolver that succeeds gives the address of the first
\* datagram with the id of its query: what came with another id before it leaves no
\* trace, what came later is not read. Over DoH the address is the host's, also when
\* the UDP lookup of the DoH server was answered by a stranger; addresses, names of
\* the custom list and the system's resolver owe nothing to the socket.
AnswerIsOurs ==
    ret = 0 =>
       IF host = "name" /\ ~doh /\ builtin_dns
       THEN FirstAnswer(IF ip.of = "host" THEN "answer" ELSE ip.of)
       ELSE ip.of = IF host = "custom" THEN "custom" ELSE "host"

\* The socket of the builtin resolver is closed once on every path, also when
\* it only served to find the DoH server.
SocketClosed == sock # "twice" /\ (pc \in {"get", "match", "done", "terminated"} => sock # "open")

\* A host whose name or address is in the whitelist is left alone, if its address
\* did not come from the system's resolver.
WhitelistHonoured ==
    pc = "done" /\ ret = 0 /\ (host # "name" \/ doh \/ builtin_dns) =>
       (in_whitelist <=> ip.of \in whitelist_ips \/ host \in whitelist_domains)

\* A name this lookup has to put into a query is too long for one.
NameTooLong ==
    \/ host = "long" /\ (doh \/ builtin_dns)
    \/ host = "name" /\ doh /\ builtin_dns /\ doh_server = "long"

\* Every lookup ends, and returns unless a name is too long for a DNS query: late,
\* foreign and missing answers delay it by no more than builtin_dns_req_timeout.
LookupEnds == <>(pc = "done" \/ (pc = "terminated" /\ NameTooLong))
=============================================================================
