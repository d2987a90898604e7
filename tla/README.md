# DPITunnel-cli: a TLA+ model

DPITunnel-cli is a local HTTP or transparent proxy that gets TLS and HTTP
connections past deep packet inspection. For each client it connects to the
server, captures the server's SYN,ACK with a raw socket, writes the first
request with forged packets ("desync attack"), lets the kernel's TCP catch up
with zero bytes, and then relays both directions. Around this it resolves names,
follows the network with its profiles, and can search for working settings.

This directory models what decides whether such a connection, and the process
around it, behaves: threads and the variables they share, every early return,
sequence numbers and TTLs, descriptors, shutdown, route changes, lookups, and
the algorithms on bytes that all of it rests on. Modules are checked with TLC on
small instances; the theorems in the `*Proofs` modules are checked with TLAPS for
every value of the constants. `PROJECT.json` maps each definition to its source
lines, and lists the runs, mutants, hazards, findings and theorems.

## Inventory

| Component | State | Operations | Interacts with |
|---|---|---|---|
| Server and shutdown (`dpitunnel-cli.cpp`: `main`, `accept_client_cycle`, `sig_int_handler`) | `stop_flag`, `Interrupt_pipe`, `Threads`, `Threads_map_mutex` | accept a client, start and register its thread, join all, stop on a signal | starts client threads and the route monitor; every `poll()` watches its pipe |
| Client setup (`process_client_cycle` to line 313, `sniff_handshake_packet`, `init_remote_server_socket`) | sockets, `sniff_thread`, `flag`, `local_port`, `status`, `sniffed_packet`, the raw socket's queue | read and parse the request, resolve, start the sniffer, connect, answer, join, attack or forward | shares locals with the sniffer; reads the global `Profile` |
| Desync attack (`do_desync_attack`, `form_packet`) | the packets to send; the kernel's and the server's sequence numbers | form and send data, fakes and resets; synchronise with zeros | raw socket and server socket carry the same connection |
| Automatic TTL (`tcp_get_auto_ttl`) | none | TTL of fakes from the TTL of the SYN,ACK | called by the attack |
| Relay loop (`process_client_cycle` from line 315, `recv_string`, `send_string`, `remove_proxy_strings`) | one `buffer`, `last_char`, `is_transfer_failure` | poll, read one side, rewrite, write the other | both peers, the interrupt pipe |
| Route monitor (`netiface.cpp`) | netlink socket, position in its buffer | bind, wait, receive and handle a route message | writes `Profile` |
| Profiles (`profiles.cpp`, `wildcard_match`) | `Profile`, `Profiles` | add, find and activate a profile | read by every client thread |
| Host resolution, whitelist, custom IPs (`dns.cpp`, `utils.cpp`) | query id, elapsed time, UDP socket, lists | literal, custom, DoH, UDP or system lookup; match a list | called by client setup and auto configuration |
| Auto configuration (`autoconf.cpp`, `count_hops`) | `SSL_CTX`, TTLs, candidate settings | resolve, count hops, test each attack, lower the TTL, report | its own sockets and sniffers |
| Checksums (`RawSocket/CheckSum.cpp`) | none | IP and TCP checksums | used by `form_packet` |
| Parsers (`get_tls_sni`, `getDnsDomainName`, `find_ssid`) | a position in bytes from outside | follow lengths and links | the attack, the resolver, the monitor |
| Command line (`parse_cmdline`, list files) | `Profiles`, `Profile`, settings | collect options into profiles | start-up |

What is hard here, and what makes each part correct:

- *Client setup.* Two threads share locals of a stack frame, a dozen early
  returns must stop and join the sniffer and close the right sockets, a global
  profile may change between two reads, the capture races a timeout. Correct
  means: no joinable thread is destroyed, the sniffer does not outlive the call,
  no descriptor leaks or is closed twice, the packet captured is this
  connection's, the client is answered in order, and the call ends.
- *Desync attack.* The same sequence numbers are sent by hand and by the kernel,
  on a network that loses and reorders; fakes must die on the way. Correct means:
  the server reads the request and nothing else, both ends agree on the
  sequence numbers, and no fake gets to the server.
- *Relay.* Two directions share a thread and a buffer, sends are partial, a
  stream may end or be reset at any point. Correct means: two byte streams,
  complete when one side ends, and an end to the loop.
- *Server.* A thread may finish before it is registered, clients remove
  themselves while the process stops, a signal may come between the test of
  the flag and `poll()`, closed descriptor numbers are given out again. Correct
  means: running threads are registered, all are joined before `main` returns,
  and a signal ends the process.
- *Route monitor and profiles.* Messages queue up, get lost, and are handled when
  the network they tell of may have changed again; patterns hide each other.
  Correct means: once the monitor is idle, the profile fits the route announced
  last, and it gets there.
- *Resolver.* Anybody may write to its socket while its clock runs, and a DoH
  lookup may contain a UDP one. Correct means: the first datagram with the query's
  id gives the address and nothing else leaves a trace, nobody misleads a DoH lookup,
  the socket is closed once, the whitelist is honoured, and the lookup ends.
- *Auto configuration.* Three measurements and up to 32 series of tests, each of
  which may be disturbed, decide what is reported. Correct means: what is reported
  passed its tests, nothing that works is missed, the TLS context is freed once,
  and the search ends.
- *Algorithms.* Wrapping carries, lengths and links from outside, patterns, and
  options whose order matters. Correct means: they agree with a definition that
  does not go step by step.

## Modules

| Module | Models |
|---|---|
| `ClientSetup` | `process_client_cycle` up to the relay loop, its sniffer, a profile switch, and the kernel and network around them |
| `AutoTtl` | `tcp_get_auto_ttl`, with its `uint8_t` arithmetic |
| `Desync` | one attack and the zero bytes after it, against a path of given length and a server TCP that keeps the first content it sees at each position |
| `Tunnel` | the abstract specification: two byte streams and one close |
| `Relay` | the poll loop, and its refinement mapping to `Tunnel` |
| `Server` | accept thread, client threads as far as shutdown concerns them, route monitor, `main` and the signal handler |
| `Profiles` | `wildcard_match`, the order of `std::map`, what `change_profile` chooses, and what matching means |
| `RouteMonitor` | the choice at start and `route_monitor_thread`, on top of `Profiles`, against the kernel's routes |
| `Resolver` | `resolve_host` with its ways to an address, and the whitelist test after it |
| `Autoconf` | `run_autoconf`, `count_hops`, the series of tests, the search for the least TTL |
| `Checksum` | both checksums, and what a receiver computes |
| `Parsers` | `get_tls_sni`, `getDnsDomainName`, `find_ssid`, and the inputs they are compared on |
| `CommandLine` | `parse_cmdline` with all its options, `load_whitelist`, `load_custom_ips`, and what the user wrote |
| `Algorithms` | what is claimed of the four pure modules before it, on an input |
| `MC...` | values of constants for TLC; `MCAlgorithms` picks inputs for `Algorithms` |
| `ClientSetupProofs`, `DesyncProofs`, `RelayProofs`, `ServerProofs`, `RouteMonitorProofs`, `ResolverProofs`, `AutoconfProofs` | theorems about the module of that name |
| `AlgorithmProofs` | theorems about the operators of `Profiles`, `Checksum`, `Parsers` and `CommandLine` |

**ClientSetup.** `pc` is the line the client thread is about to execute (the
comment on `ClientPC` gives the numbers), `spc` the sniffer's. An action is the
code between two points where the threads can see each other. The variables
`flag`, `local_port`, `status`, `ready` and `sniffed` are the locals the two
share; `desync` is the global `Profile.desync_attacks`, read afresh at each
place the code reads it. A descriptor is `none`, `open`, `closed` or closed
`twice`. `status` starts with either value, because the code leaves it
uninitialised. Destroying a joinable `std::thread` leads to `terminated`, an
exception of `std::stoi` or `form_dns_request`, which nobody catches, to `thrown`.
`EventSets` are the sets of faults an instance explores; `events` is the one of
a behaviour and never changes, so that a property can say which faults it
excepts (`JoinsSniffer`, `AttackUsesSynAck`, `SetupEnds`).

**Desync.** `plan` is the sequence of packets that the settings ask for, `wire`
what is on its way, `snd_nxt` what the kernel counts, `rcv` the server's
reassembly: `real`, `zero` or `fake` content per position. The split position is
any value `do_desync_attack` can be given, from 0 to the whole length. Packet
contents, checksums and header fields other than sequence number and TTL are
abstracted; `rst` and `rstack` are one attack, since no property tells them
apart. The kernel's own data is retransmitted, so only raw packets are lost.
`faults` is to `FaultSets` what `events` is to `EventSets` above; `StreamIntact`
and `RequestDelivered` speak of behaviours without faults.

**Relay.** Data is counted in units: a request line, the
`Proxy-Connection: keep-alive` header, or anything else. A unit is known by its
sender and its place in the stream, so loss, repetition, mixing and stale
contents are visible. `buffer` keeps what earlier reads left, as the
`std::string` in the code does, and `remove_proxy_strings` searches all of it.
`Tunnel` is instantiated with what each side sent and what was forwarded, both
without the proxy's own header (`Payload`). The history `recv_failed` is `Tunnel`'s `failing`:
after a failing read the code sends the old contents again, so the abstract
specification promises nothing more than that it closes once.

**Server.** `fd[n]` is what the number `Interrupt_pipe[n]` names now, and
`watch[p]` what a thread's `poll()` looked up when it was entered, so that a
number reused by `socket()` or `accept()` is modelled as it happens. A second signal
closes both numbers again, whatever they name; from then on a thread that closes its
own socket may close one of them too (`Closes`), because its number may have been
given out again. `handle[w]`
is the `std::thread` in `Threads`. Modifying `Threads` while it is iterated is
undefined behaviour: `IterationDerails` lets the loop end early or the process
crash, and `race` remembers that a client erased itself there.

**RouteMonitor.** The kernel gives interfaces default routes (a wireless one
joins a network first) and takes them away, and queues a message for the bound
socket, which is lost if the queue is full. `pos` counts the messages `nlh` has
been moved over; a `Recv` at or behind `BufferUnits` may crash or go on. The name
of the access point is read when a message is handled. Names are sequences of
character codes, so that the order of the map is the program's order.

**Resolver.** One lookup and the test of the whitelist. `arrived` are the datagrams
the UDP socket has received, from the DNS server and from strangers, `taken` how many
of them were read. The code looks at the id alone, so a stranger's datagram may have
the query's. An address is represented by whose it is and by whether its string ends
in the NUL that the system path leaves. `Encodes` says which names `form_dns_request`
takes; for the others its exception ends the process (`terminated`). A DoH request is
one step: the certificate is checked against the DoH server's name, with the bundle's
and the system's authorities, so an answer from a wrong address fails.

**Autoconf.** `hops`, `dpi`, `fooled` and `checks_seq` describe the path and the
censor, and `Works` what they make of a profile. `replies` are answers on their
way to `count_hops`; `clean`, `exact`, `strayed`, `flaked` and `confirmed` are
histories the properties need. What one `test_desync_attack` exchanges with the
site is one step with an outcome: over plain HTTP a block page without a redirect
passes for the site (`block_page`). `Uncaught` has the exceptions nobody catches, of a
port or a name the user typed and of a redirect without a slash.

**Pure modules.** `Profiles`, `Checksum`, `Parsers` and `CommandLine` are
operators over recursive functions, each beside a reference definition of another
form: cuts of the haystack for patterns, end-around addition for checksums,
messages built from their parts for the parsers, "the last option of the group"
for command lines. An option is named after the member it sets, `Converted` is what
16-bit members keep of a number, and `Limits` the check behind it. `Algorithms` states the comparisons for the input in its one
variable.

The modules compose by hand-over. `Server`'s `WorkerSetup` stands for all of
`ClientSetup` and `Desync`, its `WorkerTraffic` and `WorkerInterrupted` for
`Relay`; `ClientSetup`'s resolution step stands for `Resolver`, its action `Attack`
for `Desync`, its `relay` for `Relay`, its `ProfileChange` for `RouteMonitor`'s
`Handle`. `SetupEnds`, `LookupEnds`, `RelayEnds` and `JoinsSniffer` are what `Server`
relies on when it lets a client thread always go on. `RouteMonitor` extends
`Profiles`, and `Relay` instantiates `Tunnel`.

## Runs

Passing; between its initial states each has all faults of its module:

| Run | Shows | States |
|---|---|---|
| `setup` | Three sets of faults. Under each: `CaptureMatchesPort`, `SnifferInsideCall`, `NoLeak`, `AnswersInOrder`; unless a fault they name is present: `JoinsSniffer`, `AttackUsesSynAck`, `SetupEnds` | 1.3 million |
| `desync` | Every pair of attacks and every split, without and with loss, reordering and failing sends: `SeqAgrees`, `FakesFallShort`; without: `StreamIntact`, `RequestDelivered` | 1.2 million |
| `server` | One or two signals, failing accepts and reused numbers: `ThreadsTracked`, `JoinedBeforeExit`, `StopEnds` | 216 thousand |
| `relay` | One rewritten request, resets, read errors: `EndForwardsAll`, `RelaysStreams` (the refinement of `Tunnel`), `RelayEnds` | 396 thousand |
| `routes` | Spaced, lost and overtaken messages, five sets of profiles: `ProfileFollowsRoute`, `RouteNoticed` | 139 thousand |
| `resolver` | Foreign, repeated, malformed and missing datagrams, too long names, every setting: `AnswerIsOurs`, `SocketClosed`, `WhitelistHonoured`, `LookupEnds` | 223 thousand |
| `autoconf` | Late, lost and stray answers, flaky tests, block pages, failing calls, exceptions: `ContextFreedOnce`, `HopsMeasured`, `ReportedWorked`, `NothingMissed`, `AutoconfEnds` | 1.7 million |
| `algorithms` | Every input of small sets: `PatternsMatch`, `ChecksumsVerify`, `FieldsFound`, `SettingsAsWritten` | 172 thousand |

All but the last check `TypeOK` too.

Violations, each of something a comment, the README or the help of the program
says:

| Run | What happens |
|---|---|
| `setup_profile_change` | The route monitor replaces `Profile` during a setup; `desync_attacks` turns false between lines 185 and 250, the sniffer is never joined, and `std::terminate` ends the process. |
| `desync_default_ttl` | `--auto-ttl` with its defaults and a server three hops away: `nhops - autottl2` wraps to 255, is cut to the maximum 10, and the fake reaches the server. |
| `relay_stale_header` | A `Proxy-Connection` header from an earlier read, still in the buffer behind `last_char`, makes `remove_proxy_strings` shorten a later request that has none. |
| `routes_overrun` | `nlh` is never set back to the start of the buffer, so after enough route messages `recv()` writes behind its end. |

### What the properties except

A property that names a fault in its condition marks a limit of the code; with the
condition dropped TLC shows the behaviour.

- `JoinsSniffer`, `send_fails`: when the 200 cannot be sent (`dpitunnel-cli.cpp:243`)
  the call returns without joining the sniffer.
- `SetupEnds` and `AutoconfEnds`, `raw_socket_fails`: the sniffer returns at
  `desync.cpp:155` without fulfilling the promise its starter waits for. Both also
  count an uncaught exception (`packet.cpp:103`, `dns.cpp:97`, `autoconf.cpp:465`) as
  an end: it ends the process.
- `AttackUsesSynAck`, `poll_error`: an error in the sniffer is reported as a capture;
  `server_first`: data of a server that speaks first takes the place of its SYN,ACK.
- `StreamIntact`, `raw_fails`: the result of `do_desync_attack` is ignored and the
  server reads the zeros.
- `StopEnds`, a reused number: a thread that enters `poll()` after the handler ran may
  watch another thread's socket under the pipe's number.
- `JoinedBeforeExit`, `race`: `Threads` is iterated without its mutex while a client
  that saw `stop_flag` false under the lock erases itself.
- `RelaysStreams`, `failing`: a failing `recv_string` leaves `last_char`, and the loop
  sends the old contents again.
- `ProfileFollowsRoute` speaks of routes announced after the bind and still there:
  `RTM_DELROUTE` is ignored, and a route that comes between the choice of `main` and
  the bind goes unnoticed. A lost message ends the monitor for good.
- `LookupEnds`, `NameTooLong`: a label of more than 63 characters or a name of more
  than 255 makes dnslib throw outside any `try` (`dns.cpp:97`, `dns.cpp:217`), and the
  process ends.
- `WhitelistHonoured`, the system's resolver: the string keeps the NUL of `inet_ntop`
  (`dns.cpp:53`), and equals no entry.
- `HopsMeasured`, `strayed`: any packet of the connection counts as an answer, so a
  stray one makes the distance too small, in the extreme 1, and a TTL of 0 then means
  the default one. A server that answers within a millisecond is never waited for
  (`socket.cpp:189`), and its hops cannot be counted.
- `PatternsMatch`, two stars in a row: the first is not tried against the empty rest,
  so `a**` does not match `a`.
- `FieldsFound`: a DNS message that ends in a link is refused, though `buffer.cpp:80`
  says that pointers must be understood, and so are names longer than
  `MAX_DOMAIN_LEN`; `find_ssid` leaves its buffer when an
  element before the SSID is cut short.
- `SettingsAsWritten` takes `--ttl`, `--min-ttl`, `--wsize` and `--wsfactor` modulo
  65536, as the code does before it checks the range: 65537 is accepted as 1. The three
  numbers of `--auto-ttl` are cut in the same way and not checked at all.

More follows from the models without a condition. A malformed datagram aborts a
lookup, whoever sent it (`UdpRecv`), and a stranger who knows the id of a query is
believed: `AnswerIsOurs` says which datagram decides, not who sent it. A second signal
closes sockets of other threads that were given the pipe's numbers (`CloseRead`,
`CloseWrite`); no property forbids it. The profile autoconf reports is built from
the defaults, so of a DNS server the user was asked for only the choice of the
builtin resolver remains (`set_profile`). After a failing `accept()` nothing sets
`stop_flag`, so `main` waits for the route monitor until a signal comes
(`MainJoinsMonitor` needs `rpc = "ended"`). `DataOnly` shows that `--min-ttl` without
`--auto-ttl` suppresses fakes for servers at least that far away, where the help
says "minimum TTL for which send fake packets".

### Bounds

- `setup`: two ports, so that packets of another connection compete; two arrivals
  besides the SYN,ACK, so that one can come before and one after the port is
  published; a timeout of one tick, so that capture and timeout race. The three
  sets of faults are all but the one that keeps a setup from ending, that one with a
  failing response and a switched profile, and a lost SYN,ACK alone; in the last the conditional invariants
  bite, in the first and last the liveness property does.
- `desync`: requests of up to two bytes have splits with an empty first part, an
  empty second part and two non-empty parts; fakes of three bytes reach beyond the
  request. Path lengths lie on both sides of every threshold the TTL code uses
  (minimum, a2, 9, maximum). Longer requests repeat the same cases.
- `server`: two clients, one to iterate over while the other erases itself, one to
  hold the lock while the other waits; two signals, so that the second finds the
  numbers of the first reused.
- `relay`: three client units, one server unit, a buffer and a window of two: a
  stream longer than one read, a read longer than one send, and a blocked send all
  occur; longer streams are left to the theorems. `relay_stale_header` needs a buffer of three and up to four units.
- `routes`: one wired and one wireless interface with two networks, a queue of two
  and six messages: the queue overflows, routes come and go while a message waits,
  and a buffer of four units is run out of. Five sets of profiles: exact names with
  and without a default, patterns that hide a name and are hidden by one.
- `resolver`: three datagrams, so that a stray one, a repeated one and the answer
  meet, the stray one with the id of the query or another; a timeout of two ticks, so that one can come before each of two turns.
- `autoconf`: up to three hops and four TTLs for the 255 of the code, so that there
  are TTLs below the censor, between censor and server, and beyond; four sets of
  attacks a censor falls for: none, the first tried, the last tried, both.
- `algorithms`: patterns of up to five characters against names of up to four;
  buffers of up to six bytes of 0, 1 and 255, odd and even, that carry; hellos of two
  extensions cut at every length from 40 on; all DNS messages of six bytes from
  five values, with links forward, back and to themselves; lists of three elements
  cut everywhere; command lines of up to four of twelve options, or of two of all
  options with values on both sides of their limits; files of three lines.
  Sizes of two bytes, names beyond `MAX_DOMAIN_LEN` and longer inputs are left to the
  theorems.

### Fairness

- `ClientSetup`: the scheduler runs both threads, the clock goes on, and
  `connect()` returns, as the kernel's own timeout guarantees. Nothing is assumed
  of a client after the setup: `relay` has no fairness.
- `Desync`: the client thread runs, and the network delivers what it does not
  lose.
- `Relay`: the loop runs, and peers read what they are sent. The second is an
  assumption on peers that the code needs: `send_string` retries on `EAGAIN`
  without looking at `stop_flag`.
- `Server`: every thread that can run does. Clients, routes and signals owe
  nothing. A setup ends (`SetupEnds`).
- `RouteMonitor`: `main` and the monitor are scheduled; the kernel promises nothing.
- `Resolver`: the thread is scheduled and the clock goes on; no answer is promised.
- `Autoconf`: its own steps. Each of them waits for a bounded time in the code; no
  probe has to be answered and no test has to succeed.

## Proofs

Theorems about a specification are of the form `Spec => []P`, from an inductive
invariant, one lemma per conjunct and in it one step per action; the refinement is
`Spec => RelaysStreams`. The only assumptions are the named `ASSUME`s of the modules,
which TLC evaluates on every instance, and those in the statements, listed below.

- `ClientSetupProofs`. `TypeCorrect`, then `ControlInv`: `ThreadInv` (a joinable
  thread exists only where the client thread may still join it, a started sniffer is
  joinable until joined), `ConnInv` (the phase of the connection follows `pc`),
  `FdInv` (which descriptors are open follows `pc` and `spc`). It is needed because
  `NoLeak` and `SnifferInsideCall` speak of the end of a call only. From it
  `SnifferStaysInside` and `NothingLeaks`, under all faults. `CaptureInv` adds that
  each entry of `packets` is a server packet of its own port, and that a published
  port is the connection's; it gives `CaptureIsOurs`. `NeverTerminates`
  (`JoinsSniffer`) and `AttackIsWellFounded` (`AttackUsesSynAck`) are conditional on
  the set of faults. `EventsFixed` says that `events` never changes, so the
  condition can be assumed of a whole behaviour, and `JoinedInv`, `SynAckInv` (the
  raw queue and `packets` hold no other server packet of our port) and `HandoffInv`
  (status 0 means a packet was stored) are inductive under it. `AnswersComeInOrder`
  rests on `AnswerInv`: nothing has been said at the places before the first answer,
  and what has been said is one of four sequences. The conjunct on places is what
  makes a second "200" impossible.
- `DesyncProofs`. `AutoTtlFallsShort`, about the operator alone and all 8-bit
  values: for a1 <= a2 <= min-ttl the TTL is below the distance. `TypeCorrect` with
  `SyncInv` (what the kernel has sent so far). `FakesNeverArrive`: with tuned
  settings no fake on the wire reaches the server, for every request, split, path
  and fault. The hypothesis is that every profile is `Tuned` for every path: it
  sends no fakes, or with wrong sequence numbers, or with a fixed TTL within the
  path, or with an automatic one and a1 <= a2 <= min-ttl; `desync_default_ttl` shows
  what happens without it. From it also `NumbersAgree` (`SeqAgrees`), by
  `AcceptInv`: every byte the kernel has counted is at the server, or a packet of
  zeros that covers it is on the wire. That holds under all faults, because the
  kernel retransmits its zeros and the server keeps the first content at a position.
  `StreamStaysIntact` (`StreamIntact`) needs more, `StreamInv`: each position of the
  request is real at the server, covered by data on the wire, or covered by a step
  still in the plan, and zeros are behind the data they repeat. A lemma shows that
  every plan covers every position, whatever the two attacks are.
- `RelayProofs`. `TypeCorrect`, for any script, buffer and window. `RelayInv` then
  adds `OldUnits` (client units in the buffer have been read), `ForwardInv` (what
  was forwarded and the part of the buffer still to be sent are what was read; or a
  send to a reset peer failed, the rest was dropped, and that side is not read
  again) and `EndInv` (why the loop ends). `ForwardInv` is needed because a prefix
  alone is not inductive: in the middle of a send, and with stale units behind
  `last_char`, the prefix does not say what the next bytes are. It gives
  `EndForwards` (`EndForwardsAll`), `DirectionsStayIntact` (`StreamsIntact`, the
  property that `relay_stale_header` violates) and `RelayImplementsTunnel`: each
  step of the loop or of a peer is a step of `Tunnel` or leaves its state alone.
  These three assume `HeadersLast`: if requests are rewritten, no request follows a
  proxy header in a script. The assumption is not about the code but about its
  input, and `relay_stale_header` shows that it cannot simply go: a request after a
  header can find the old one behind `last_char`.
- `ServerProofs`. `TrackInv`: types, the owner of the mutex, what the accept thread
  is creating, which threads are registered, and what holds while the process
  leaves. It gives `TypeCorrect` (with mutual exclusion), `ThreadsAreTracked` and
  `AllJoinedBeforeExit`, for any set of clients, any number of signals, and reused
  numbers.
- `RouteMonitorProofs`. `TypeCorrect` with `CountInv` (positions and the queue never
  exceed the messages sent). `ProfileFollows` (`ProfileFollowsRoute`) from
  `FollowInv`: the default route announced last is the last one in the queue, else
  the one in hand, else it has its profile. The queue must be in it, since messages
  are handled long after they were sent. It rests on `PatternsAgree` of
  `AlgorithmProofs` and on `ChoiceIsOurs`, that the first match in the order of the
  map exists and is what `change_profile` takes, for all finite sets of names. The
  theorem assumes `NamesApart`, that no name has two stars in a row: for those
  `wildcard_match` itself is wrong, as said above.
- `ResolverProofs`. `LookupInv`: types, `PathInv` (which way of resolving a place in
  the code belongs to), `SocketInv` (the socket is open in the loop and only there),
  `ReadInv` (what was read and passed over decodes and has another id) and `AddressInv`
  (what an address found so far is). `ReadInv` is needed because `AnswerIsOurs` speaks
  of all datagrams before the one that decided. It gives `AnswersAreOurs`,
  `SocketIsClosed` and `WhitelistIsHonoured`, for every timeout and number of
  datagrams, under all events.
- `AutoconfProofs`. `AutoconfInv`: `RangeInv` (bounds of TTL and combination by
  place), `ContextInv` (where the TLS context lives), `HopsInv` (what a try may
  still find: undisturbed, no probe has passed the server and been left unanswered;
  without stray packets only probes that got there are answered), `SeriesInv`,
  `ShrinkInv` and `SearchInv` (what the tests so far have ruled out). It gives
  `ContextIsFreedOnce`, `HopsAreMeasured`, `ReportedHasWorked` and
  `NothingIsMissed`, for all paths shorter than the largest TTL, at most 255, and
  every censor.
- `AlgorithmProofs`. `PatternsAlwaysMatch` (`PatternsMatch`): for all patterns and
  names `wildcard_match` agrees with the definition by cuts, up to adjacent stars.
  The theorem is about the property TLC checks, for every input; the lemma under it,
  `PatternsAgree`, is what `RouteMonitorProofs` uses. By induction from the end of
  the pattern: a row of `from` holds exactly the places from which cuts exist.
  `TwoFoldsSuffice`: for every sum of 32 bits the two folds of `cksumIp` and
  `cksumTcp` leave 16 bits congruent to the sum modulo 65535.
  `ChecksumsAlwaysVerify` (`ChecksumsVerify`): a receiver accepts both checksums,
  for buffers of 2 to 65515 bytes (the most a segment has in an IPv4 packet) whose
  checksum field is zero, as the code leaves it. By induction over pairs of bytes,
  `CalSum` is congruent to the sum of the words modulo 65535 and stays within 32
  bits, so `TwoFoldsSuffice` applies. TLC checks six bytes; the carries of long
  buffers are what this adds.

  `SettingsAlwaysAsWritten` (`SettingsAsWritten`), for command lines and files of any
  length, with all options of the program; assumed is only that arguments and lines
  are sequences. By induction on the
  arguments read, `Parsed`: the profile being written is what the arguments since the
  last `--profile` describe, the stored ones are what their groups describe, and
  `min_ttl` is zero exactly while neither `--min-ttl` nor `--auto-ttl` was read. The
  last part is needed because `--auto-ttl` sets `min_ttl` only if it is zero, so that
  the two options give the same in either order.

  `FieldsAlwaysFound` (`FieldsFound`), for the three parsers. `find_ssid`: any list of
  elements, cut anywhere, by induction along the elements from the last one down.
  `get_tls_sni`: any hello below 65536 bytes, cut anywhere, in the same way along the
  extensions. The hello has a session id and compression methods of less than 128 bytes
  (RFC 5246 allows 32 and defines two; the code reads these sizes as signed chars),
  sizes that fit their two-byte fields, and names that are not empty.
  `getDnsDomainName`: any bytes, any position. That its recursion ends is proved with a
  rank, the number of links not followed yet and then the bytes left, which every step
  lowers; so the function is well defined on all messages. That it decodes what is
  written is an induction on this rank. That it decodes everything that is written takes
  two more facts: a name needs at most one step per byte of the message, because the
  positions on its way need different numbers of steps, so none comes twice; and a link never leads back to the start
  of a call around it, because fewer steps are needed from there than from the call.

The library's induction theorems take an operator as a parameter, which the installed
provers cannot instantiate. Where an argument is by induction on a number (patterns,
checksums, command lines, fields, streams of any length) the proof takes the set of numbers for which the
claim fails and its least element instead.

Only model-checked: all liveness (`SetupEnds`, `RequestDelivered`, `StopEnds`,
`RelayEnds`, `RouteNoticed`, `LookupEnds`, `AutoconfEnds`), which is out of the prover's
reach. Every invariant, action property and refinement that a passing run checks has a
theorem.

## Not modelled

- Vendored code: libnl, cpp-httplib, and the record types of dnslib. It is about 95%
  of the lines in the repository. Of libnl and cpp-httplib a handful of calls are used,
  and modelled from their use, so most of that code has no behaviour in this program.
- HTTP requests at the level of characters: `parse_request`'s regular expression
  (a parse succeeds or fails), and the absolute-URI part of `remove_proxy_strings`.
- Writing the pid file, becoming a daemon, the wording of messages, the prompts of
  auto configuration.
- Uncaught exceptions of a client thread in `Server`: they end the process, and are in
  `ClientSetup`, `Resolver` and `Autoconf`.
- Queries of interfaces and Wi-Fi by ioctl, `getifaddrs` and nl80211, and the reading of
  certificates: input only. Two defects seen there are outside any model: the nl80211
  socket is not freed on success (`netiface.cpp:411`), and the result of
  `if_indextoname` is not looked at.
- The torn read of a `Profile` that is being assigned (`profiles.cpp:30`): a data race on
  strings has no outcomes to enumerate. `ClientSetup` has the switch of one flag.
- Signals whose handlers nest (a SIGTERM inside the handler of a SIGINT): the same signal
  is blocked while its handler runs.

Hazards no property covers fully carry a note in `PROJECT.json`.

## Plan

All safety properties have a theorem. What is left, most useful first:

1. `HeadersLast` in `RelayProofs`: a header before a request does no harm either while
   every read that starts with a request overwrites it. The invariant would have to
   say what lies behind `last_char`.
2. HTTP requests at the level of characters (`parse_request`), and the record types of
   dnslib.

A new component would bring one passing run with all its events, and a violation
only for a disagreement with what the program's documentation says.
