---------------------------- MODULE ClientSetup ----------------------------
(***************************************************************************)
(* How one client connection is set up: the client thread                  *)
(* (process_client_cycle up to the relay loop), the sniffer thread it      *)
(* starts to capture the server's SYN,ACK (sniff_handshake_packet), the    *)
(* route monitor that replaces the global Profile, and the kernel and      *)
(* network the three of them see.                                          *)
(*                                                                         *)
(* Each action is one stretch of code between two points at which the      *)
(* threads can see each other: an atomic load or store, a read of the      *)
(* global Profile, a join, a blocking call.                                *)
(***************************************************************************)
EXTENDS Integers, Sequences

CONSTANTS
    Ports,           \* TCP ports of this host seen on the raw socket
    EventSets,       \* the sets of faults the environment may inject, to choose from
    CaptureTimeout,  \* Settings_perst.packet_capture_timeout, in clock ticks
    MaxArrivals      \* bound: packets of other connections and late segments

AllEvents == {"profile_change",   \* the route monitor switches desync_attacks
              "send_fails",       \* the 200 response cannot be sent
              "raw_socket_fails", \* socket(SOCK_RAW) returns -1 in the sniffer
              "poll_error",       \* poll or recv on the raw socket fails
              "lost",             \* the raw socket misses the SYN,ACK
              "server_first",     \* the server sends data on the new connection
              "bad_input"}        \* the port is no int, or the name too long for a query

ASSUME PortsAssumption == Ports \subseteq 1..65535 /\ Ports # {}
ASSUME EventsAssumption == EventSets \subseteq SUBSET AllEvents
ASSUME BoundsAssumption == CaptureTimeout \in Nat /\ MaxArrivals \in Nat

VARIABLES
    \* the client thread: control, std::thread::joinable(), its descriptors,
    \* the responses sent to the client, what was sent to the server
    pc, joinable, cfd, sfd, resp, sent, attack,
    \* the request: Settings_perst.proxy_mode, is_https, in_whitelist
    mode, https, whitelisted,
    \* the faults of this behaviour
    events,
    \* the global Profile.desync_attacks
    desync,
    \* locals of the client thread that it shares with the sniffer
    flag, local_port, status, ready, sniffed,
    \* the sniffer thread: control, its local_port, is_searched, packets,
    \* milliseconds since start, and the raw socket
    spc, sport, is_searched, packets, elapsed, rfd,
    \* kernel and network: the raw socket's queue, the connection to the
    \* server, its local port, packets arrived so far
    rawq, conn, port, arrived

request == <<mode, https, whitelisted, events>>
client  == <<pc, joinable, cfd, sfd, resp, sent, attack>>
sniffer == <<spc, sport, is_searched, packets, elapsed, rfd>>
network == <<rawq, conn, port, arrived>>
shared  == <<flag, local_port, status, ready, sniffed>>
vars    == <<client, request, desync, shared, sniffer, network>>

Packet   == [from: {"server", "elsewhere"}, port: Ports, kind: {"synack", "segment"}]
NoPacket == [from |-> "none", port |-> -1, kind |-> "none"]

(***************************************************************************)
(* Where the client thread can be, with the line it is about to execute.   *)
(***************************************************************************)
ClientPC == {"recv",         \* 97   set timeouts, receive the first request
             "parse",        \* 124  parse it, find the destination
             "resolve",      \* 170  resolve the host
             "spawn",        \* 185  read Profile, start the sniffer
             "wait",         \* 191  wait for the sniffer's promise
             "connect",      \* 196  create the socket and send the SYN
             "connecting",   \*      blocked in connect()
             "setup",        \* 210  socket options, getsockname, publish port
             "abort",        \* 197, 214, 230  read Profile, stop the sniffer
             "joinstop",     \* 200, 217, 233  join it
             "established",  \* 242  answer 200 to a CONNECT
             "choose",       \* 250  read Profile: attack or forward
             "join",         \* 252  join the sniffer, look at its status
             "hello",        \* 261  receive the first packet of the tunnel
             "attack",       \* 282  do_desync_attack
             "sync",         \* 285  send the zero bytes
             "forward",      \* 306  send the request as it is
             "error",        \* send CONNECTION_ERROR_RESPONSE, close, return
             "relay",        \* 315  the poll loop
             "done",         \* returned
             "terminated",   \* a joinable std::thread was destroyed
             "thrown"}       \* an exception left the thread's function

SnifferPC == {"off", "start", "check", "poll", "done"}

FdState == {"none", "open", "closed", "twice"}

\* close(2) of a descriptor; closing -1 does nothing, a second close may hit a
\* descriptor that another thread has opened meanwhile.
Close(fd) == CASE fd = "none" -> "none" [] fd = "open" -> "closed" [] OTHER -> "twice"

Switches ==
    {joinable, https, whitelisted, desync, flag, ready, is_searched} \subseteq BOOLEAN

TypeOK ==
    /\ Switches
    /\ pc \in ClientPC /\ cfd \in FdState /\ sfd \in FdState
    /\ resp \in Seq({"200", "error"})
    /\ sent \in {"nothing", "request", "desync"}
    /\ attack \in Packet \cup {NoPacket}
    /\ mode \in {"proxy", "transparent"} /\ events \in EventSets
    /\ local_port \in Ports \cup {-1}
    /\ status \in {-1, 0}
    /\ sniffed \in Packet \cup {NoPacket}
    /\ spc \in SnifferPC /\ rfd \in FdState
    /\ sport \in Ports \cup {-1}
    /\ packets \in [Ports -> Packet \cup {NoPacket}]
    /\ elapsed \in 0..(CaptureTimeout + 1)
    /\ rawq \in Seq(Packet)
    /\ conn \in {"none", "syn", "up", "refused"}
    /\ port \in Ports
    /\ arrived \in 0..MaxArrivals

\* The accepted socket is open; std::atomic<int> status has no initial value,
\* so it holds either of the two values the code tells apart.
Init ==
    /\ pc = "recv" /\ joinable = FALSE /\ cfd = "open" /\ sfd = "none"
    /\ resp = <<>> /\ sent = "nothing" /\ attack = NoPacket
    /\ mode \in {"proxy", "transparent"} /\ https = FALSE /\ whitelisted = FALSE
    /\ desync \in BOOLEAN /\ events \in EventSets
    /\ flag = TRUE /\ local_port = -1 /\ status \in {-1, 0} /\ ready = FALSE
    /\ sniffed = NoPacket
    /\ spc = "off" /\ sport = -1 /\ is_searched = FALSE /\ elapsed = 0
    /\ packets = [p \in Ports |-> NoPacket] /\ rfd = "none"
    /\ rawq = <<>> /\ conn = "none" /\ port \in Ports /\ arrived = 0

-----------------------------------------------------------------------------
(* The client thread.                                                      *)

Tunnel == https /\ mode = "proxy"

\* The test `Profile.desync_attacks && !in_whitelist`, evaluated afresh on the
\* global Profile each time it is written.
WantsAttack == desync /\ ~whitelisted

GoTo(label) == pc' = label /\ UNCHANGED <<joinable, cfd, sfd, resp, sent, attack>>

\* Mutant: the server socket is forgotten.
Return_KeepsServerSocket ==
    /\ cfd' = Close(cfd)
    /\ pc' = IF joinable THEN "terminated" ELSE "done"
    /\ UNCHANGED <<joinable, sfd, sent, attack>>

\* Both sockets are closed and the function returns, destroying sniff_thread:
\* the destructor of a joinable std::thread calls std::terminate.
Return ==
    /\ sfd' = Close(sfd)
    /\ cfd' = Close(cfd)
    /\ pc' = IF joinable THEN "terminated" ELSE "done"
    /\ UNCHANGED <<joinable, sent, attack>>

\* Return without a word to the client.
ReturnSilently == Return /\ UNCHANGED resp

\* Return after CONNECTION_ERROR_RESPONSE.
ReturnError == Return /\ resp' = Append(resp, "error")

\* Set the client socket's timeouts and receive the first request.
RecvRequest ==
    /\ pc = "recv"
    /\ GoTo("parse") \/ ReturnSilently
    /\ UNCHANGED <<request, desync, shared, sniffer, network>>

\* The results of parse_request: it fails, finds the host, or finds no Host
\* header, which in transparent mode (-2) is taken for TLS.
parse_request == IF mode = "proxy" THEN {-1, 0} ELSE {-1, 0, -2}

\* std::stoi of the port in parse_request, or form_dns_request in resolve_host, throws;
\* nobody catches it and the process ends.
Throws == "bad_input" \in events /\ GoTo("thrown")

\* In proxy mode a request with the method CONNECT is https; in transparent mode
\* the original destination must also be known.
Parse ==
    /\ pc = "parse"
    /\ \E res \in parse_request :
         \/ Throws /\ UNCHANGED https
         \/ res = -1 /\ ReturnError /\ UNCHANGED https
         \/ res # -1 /\ mode = "proxy" /\ GoTo("resolve") /\ https' \in BOOLEAN
         \/ /\ res # -1 /\ mode = "transparent" /\ https' = (res = -2)
            /\ GoTo("resolve") \/ ReturnSilently
    /\ UNCHANGED <<mode, whitelisted, events, desync, shared, sniffer, network>>

Resolve ==
    /\ pc = "resolve"
    /\ \/ GoTo("spawn") /\ whitelisted' \in BOOLEAN
       \/ (ReturnError \/ Throws) /\ UNCHANGED whitelisted
    /\ UNCHANGED <<mode, https, events, desync, shared, sniffer, network>>

Spawn ==
    /\ pc = "spawn"
    /\ \/ /\ WantsAttack
          /\ pc' = "wait" /\ joinable' = TRUE /\ spc' = "start"
          /\ UNCHANGED <<cfd, sfd, resp, sent, attack>>
       \/ /\ ~WantsAttack
          /\ GoTo("connect") /\ UNCHANGED spc
    /\ UNCHANGED <<request, desync, shared, sport, is_searched, packets, elapsed, rfd, network>>

WaitReady ==
    /\ pc = "wait" /\ ready
    /\ GoTo("connect")
    /\ UNCHANGED <<request, desync, shared, sniffer, network>>

\* init_remote_server_socket up to the SYN: socket() fails and leaves -1 in
\* server_socket, or the address or the window option is refused, or connect()
\* sends the SYN and blocks.
Connect ==
    /\ pc = "connect"
    /\ \/ GoTo("abort") /\ UNCHANGED conn
       \/ /\ pc' = "abort" /\ sfd' = "open"
          /\ UNCHANGED <<joinable, cfd, resp, sent, attack, conn>>
       \/ /\ pc' = "connecting" /\ sfd' = "open" /\ conn' = "syn"
          /\ UNCHANGED <<joinable, cfd, resp, sent, attack>>
    /\ UNCHANGED <<request, desync, shared, sniffer, rawq, port, arrived>>

\* Mutant: the result of connect() is not looked at.
ConnectReturns_Unchecked ==
    /\ pc = "connecting" /\ conn \in {"up", "refused"} /\ GoTo("setup")
    /\ UNCHANGED <<request, desync, shared, sniffer, network>>

\* connect() fails, or the timeouts cannot be set on the connected socket.
ConnectReturns ==
    /\ pc = "connecting"
    /\ \/ conn = "up" /\ GoTo("setup")
       \/ conn \in {"up", "refused"} /\ GoTo("abort")
    /\ UNCHANGED <<request, desync, shared, sniffer, network>>

\* Mutant: the port is published in network byte order.
Setup_NoNtohs ==
    /\ pc = "setup"
    /\ GoTo("established") /\ local_port' = (port % 256) * 256 + port \div 256
    /\ UNCHANGED <<request, desync, flag, status, ready, sniffed, sniffer, network>>

\* Timeouts, TCP_NODELAY and getsockname; then the local port is published.
Setup ==
    /\ pc = "setup"
    /\ \/ GoTo("established") /\ local_port' = port
       \/ GoTo("abort") /\ UNCHANGED local_port
    /\ UNCHANGED <<request, desync, flag, status, ready, sniffed, sniffer, network>>

\* The three failure paths after the sniffer was started.
StopSniffer ==
    /\ pc = "abort"
    /\ \/ WantsAttack /\ flag' = FALSE /\ GoTo("joinstop")
       \/ ~WantsAttack /\ UNCHANGED flag /\ GoTo("error")
    /\ UNCHANGED <<request, desync, local_port, status, ready, sniffed, sniffer, network>>

\* Mutant: detach() in place of join().
JoinSniffer_Detaches(next) ==
    /\ joinable' = FALSE
    /\ pc' = next
    /\ UNCHANGED <<cfd, sfd, resp, sent, attack>>

\* `if (sniff_thread.joinable()) sniff_thread.join();`
JoinSniffer(next) ==
    /\ joinable => spc = "done"
    /\ joinable' = FALSE
    /\ pc' = next
    /\ UNCHANGED <<cfd, sfd, resp, sent, attack>>

\* Mutant: the flag is cleared but the thread not joined.
JoinStopped_NoJoin ==
    /\ pc = "joinstop"
    /\ GoTo("error")
    /\ UNCHANGED <<request, desync, shared, sniffer, network>>

JoinStopped ==
    /\ pc = "joinstop"
    /\ JoinSniffer("error")
    /\ UNCHANGED <<request, desync, shared, sniffer, network>>

FailClient ==
    /\ pc = "error"
    /\ ReturnError
    /\ UNCHANGED <<request, desync, shared, sniffer, network>>

Established ==
    /\ pc = "established"
    /\ \/ ~Tunnel /\ GoTo("choose")
       \/ /\ Tunnel
          /\ pc' = "choose" /\ resp' = Append(resp, "200")
          /\ UNCHANGED <<joinable, cfd, sfd, sent, attack>>
       \/ Tunnel /\ "send_fails" \in events /\ ReturnSilently
    /\ UNCHANGED <<request, desync, shared, sniffer, network>>

Choose ==
    /\ pc = "choose"
    /\ \/ WantsAttack /\ GoTo("join")
       \/ ~WantsAttack /\ ~Tunnel /\ GoTo("forward")
       \/ ~WantsAttack /\ Tunnel /\ GoTo("relay")
    /\ UNCHANGED <<request, desync, shared, sniffer, network>>

JoinCaptured ==
    /\ pc = "join"
    /\ JoinSniffer(IF status = -1 THEN "error" ELSE "hello")
    /\ UNCHANGED <<request, desync, shared, sniffer, network>>

\* The first packet to attack with: in a tunnel it is yet to be received.
RecvHello ==
    /\ pc = "hello"
    /\ GoTo("attack") \/ (Tunnel /\ ReturnSilently)
    /\ UNCHANGED <<request, desync, shared, sniffer, network>>

\* do_desync_attack builds its packets on sniffed_packet.
Attack ==
    /\ pc = "attack"
    /\ pc' = "sync" /\ attack' = sniffed /\ sent' = "desync"
    /\ UNCHANGED <<joinable, cfd, sfd, resp>>
    /\ UNCHANGED <<request, desync, shared, sniffer, network>>

SendSync ==
    /\ pc = "sync"
    /\ GoTo("relay") \/ GoTo("error")
    /\ UNCHANGED <<request, desync, shared, sniffer, network>>

Forward ==
    /\ pc = "forward"
    /\ \/ /\ pc' = "relay" /\ sent' = "request"
          /\ UNCHANGED <<joinable, cfd, sfd, resp, attack>>
       \/ GoTo("error")
    /\ UNCHANGED <<request, desync, shared, sniffer, network>>

\* The poll loop ends; its steps are module Relay's.
RelayEnds ==
    /\ pc = "relay"
    /\ ReturnSilently
    /\ UNCHANGED <<request, desync, shared, sniffer, network>>

\* The setup steps; RelayEnds is apart because a relay need not end.
SetupStep ==
    \/ RecvRequest \/ Parse \/ Resolve \/ Spawn \/ WaitReady \/ Connect
    \/ ConnectReturns \/ Setup \/ StopSniffer \/ JoinStopped \/ FailClient
    \/ Established \/ Choose \/ JoinCaptured \/ RecvHello \/ Attack
    \/ SendSync \/ Forward

-----------------------------------------------------------------------------
(* The sniffer thread.                                                     *)

\* The raw socket is opened and the promise kept; when the socket cannot be
\* created the function returns and neither happens.
SniffStart ==
    /\ spc = "start"
    /\ \/ spc' = "check" /\ rfd' = "open" /\ ready' = TRUE
       \/ /\ "raw_socket_fails" \in events
          /\ spc' = "done" /\ UNCHANGED <<rfd, ready>>
    /\ UNCHANGED <<client, request, desync, flag, local_port, status, sniffed,
                   sport, is_searched, packets, elapsed, network>>

\* Leave the loop (break, or flag cleared): close, status 0, return.
SniffReturn(st, pkt) ==
    /\ spc' = "done"
    /\ rfd' = Close(rfd)
    /\ status' = st
    /\ sniffed' = pkt

\* The loop condition and the search among the packets stored so far.
SniffCheck ==
    /\ spc = "check"
    /\ LET search == flag /\ ~is_searched /\ local_port # -1
           found  == search /\ packets[local_port] # NoPacket
       IN  /\ sport' = IF flag /\ ~is_searched THEN local_port ELSE sport
           /\ is_searched' = (is_searched \/ (search /\ ~found))
           /\ \/ ~flag /\ SniffReturn(0, sniffed)
              \/ found /\ SniffReturn(0, packets[local_port])
              \/ flag /\ ~found /\ spc' = "poll" /\ UNCHANGED <<rfd, status, sniffed>>
    /\ UNCHANGED <<client, request, desync, flag, local_port, ready, packets, elapsed, network>>

\* Mutant: a timeout is reported like a capture.
SniffTimedOut_ReportsSuccess ==
    /\ spc = "poll" /\ elapsed > CaptureTimeout
    /\ SniffReturn(0, sniffed)
    /\ UNCHANGED <<client, request, desync, flag, local_port, ready,
                   sport, is_searched, packets, elapsed, network>>

\* Mutant: `start` is taken anew in every round of the loop.
SniffTimedOut_ClockRestarts ==
    /\ spc = "poll" /\ elapsed > CaptureTimeout
    /\ spc' = "check" /\ elapsed' = 0
    /\ UNCHANGED <<client, request, desync, shared, sport, is_searched, packets, rfd, network>>

\* poll returned, whatever its result, after the time allowed.
SniffTimedOut ==
    /\ spc = "poll" /\ elapsed > CaptureTimeout
    /\ SniffReturn(-1, sniffed)
    /\ UNCHANGED <<client, request, desync, flag, local_port, ready,
                   sport, is_searched, packets, elapsed, network>>

\* poll returned 0.
SniffIdle ==
    /\ spc = "poll" /\ elapsed <= CaptureTimeout /\ rawq = <<>>
    /\ spc' = "check"
    /\ UNCHANGED <<client, request, desync, shared,
                   sport, is_searched, packets, elapsed, rfd, network>>

\* poll returned -1 or an error condition, or recv failed: break.
SniffBreak ==
    /\ spc = "poll" /\ elapsed <= CaptureTimeout /\ "poll_error" \in events
    /\ SniffReturn(0, sniffed)
    /\ UNCHANGED <<client, request, desync, flag, local_port, ready,
                   sport, is_searched, packets, elapsed, network>>

\* Does a packet read from the raw socket come from the server?
FromServer(pkt) == pkt.from = "server"

\* Mutant: any packet of the server will do.
ToOurPort_Any(pkt) == pkt.port \in Ports

\* ... and belong to the connection whose port was published?
ToOurPort(pkt) == pkt.port = sport

\* A packet is read: stored by port while the port is not known, compared with
\* the port afterwards.
SniffPacket ==
    /\ spc = "poll" /\ elapsed <= CaptureTimeout /\ rawq # <<>>
    /\ rawq' = Tail(rawq)
    /\ LET pkt == Head(rawq)
           hit == FromServer(pkt) /\ is_searched /\ ToOurPort(pkt)
       IN  /\ packets' = IF FromServer(pkt) /\ ~is_searched
                         THEN [packets EXCEPT ![pkt.port] = pkt] ELSE packets
           /\ \/ hit /\ SniffReturn(0, pkt)
              \/ ~hit /\ spc' = "check" /\ UNCHANGED <<rfd, status, sniffed>>
    /\ UNCHANGED <<client, request, desync, flag, local_port, ready,
                   sport, is_searched, elapsed, conn, port, arrived>>

SnifferStep ==
    SniffStart \/ SniffCheck \/ SniffTimedOut \/ SniffIdle \/ SniffBreak \/ SniffPacket

-----------------------------------------------------------------------------
(* The route monitor, the clock, the network.                              *)

\* change_profile assigns another profile to Profile; only one with another value
\* of desync_attacks makes a difference here.
change_profile == desync' = ~desync

\* route_monitor_thread sees a new default route.
ProfileChange ==
    /\ "profile_change" \in events
    /\ change_profile
    /\ UNCHANGED <<client, request, shared, sniffer, network>>

Tick ==
    /\ spc \in {"check", "poll"} /\ elapsed <= CaptureTimeout
    /\ elapsed' = elapsed + 1
    /\ UNCHANGED <<client, request, desync, shared, spc, sport, is_searched, packets, rfd, network>>

\* Every TCP packet that reaches the host is copied to the open raw socket.
Deliver(pkt) == rawq' = IF rfd = "open" THEN Append(rawq, pkt) ELSE rawq

\* The server answers the SYN: the raw socket gets its copy before connect()
\* can return.
SynAck ==
    /\ conn = "syn" /\ conn' = "up"
    /\ \/ Deliver([from |-> "server", port |-> port, kind |-> "synack"])
       \/ "lost" \in events /\ UNCHANGED rawq
    /\ UNCHANGED <<client, request, desync, shared, sniffer, port, arrived>>

\* Reset, unreachable, or the kernel gave up.
Refuse ==
    /\ conn = "syn" /\ conn' = "refused"
    /\ UNCHANGED <<client, request, desync, shared, sniffer, rawq, port, arrived>>

\* Traffic of other connections of this host, the same server's included; and
\* data on this connection, when the server is the first to speak. Nobody looks at
\* what kind of packet another connection gets.
Arrive ==
    /\ rfd = "open" /\ arrived < MaxArrivals
    /\ arrived' = arrived + 1
    /\ \E pkt \in Packet :
          /\ pkt.kind = "segment"
          /\ \/ pkt.port # port \/ pkt.from = "elsewhere"
             \/ "server_first" \in events /\ conn = "up"
          /\ Deliver(pkt)
    /\ UNCHANGED <<client, request, desync, shared, sniffer, conn, port>>

\* A terminated process takes no step; what it did stays.
Running == pc \notin {"terminated", "thrown"}
Ended   == ~Running \/ (pc = "done" /\ spc \in {"off", "done"})

Next ==
    \/ Running /\ (SetupStep \/ RelayEnds)
    \/ Running /\ (SnifferStep \/ Tick)
    \/ Running /\ ProfileChange
    \/ Running /\ (SynAck \/ Refuse \/ Arrive)
    \/ Ended /\ UNCHANGED vars

\* Both threads are scheduled, the clock advances, and connect() returns.
Fairness ==
    /\ WF_vars(Running /\ SetupStep)
    /\ WF_vars(Running /\ SnifferStep)
    /\ WF_vars(Running /\ Tick)
    /\ WF_vars(Running /\ (SynAck \/ Refuse))

Spec     == Init /\ [][Next]_vars
FairSpec == Spec /\ Fairness

-----------------------------------------------------------------------------
(* Properties.                                                             *)

\* Whatever traffic the raw socket sees, in whatever order the port is
\* published and the packets are read, the packet handed to the client thread
\* came from the server and was addressed to this very connection
\* (sniff_handshake_packet keeps packets of all ports until it knows which).
CaptureMatchesPort ==
    sniffed # NoPacket => FromServer(sniffed) /\ sniffed.port = port /\ conn = "up"

\* No exit of process_client_cycle destroys a joinable sniff_thread, which
\* would end the whole proxy with std::terminate.
NoTerminate == pc # "terminated"

\* The two faults that make one do so, the profile changing between two tests of it
\* and the 200 response that cannot be sent, are the only ones.
JoinsSniffer == events \cap {"profile_change", "send_fails"} = {} => NoTerminate

\* When process_client_cycle has returned, the sniffer no longer runs: it holds
\* pointers to flag, local_port, status and sniffed_packet, locals of that call.
SnifferInsideCall == pc = "done" => ~joinable /\ spc \in {"off", "done"}

\* Every descriptor is closed at most once on every path, and none is left open
\* when the call has returned, the sniffer's raw socket included.
NoLeak ==
    /\ "twice" \notin {cfd, sfd, rfd}
    /\ pc = "done" => "open" \notin {cfd, sfd, rfd}

\* The client of a tunnel hears "200" only over a live connection, once, and
\* before anything else; an error is the last thing any client hears.
AnswersInOrder ==
    /\ Len(resp) <= 2
    /\ \A i \in DOMAIN resp :
          \/ resp[i] = "200" /\ i = 1 /\ Tunnel /\ conn = "up" /\ local_port = port
          \/ resp[i] = "error" /\ i = Len(resp) /\ pc \in {"done", "terminated"}

\* The packet do_desync_attack takes sequence numbers from is the SYN,ACK of
\* this connection ("Get received SYN, ACK packet"), unless the profile changes, the
\* server is the first to speak or the raw socket cannot be polled.
AttackUsesSynAck ==
    events \cap {"profile_change", "server_first", "poll_error"} = {} /\ sent = "desync" =>
        attack = [from |-> "server", port |-> port, kind |-> "synack"]

\* A setup ends: the client is relayed or told, and its call returns or ends the
\* process, unless the raw socket cannot be created: then the sniffer never keeps its
\* promise.
SetupEnds == <>(pc \in {"relay", "done"} \/ ~Running \/ "raw_socket_fails" \in events)
=============================================================================
