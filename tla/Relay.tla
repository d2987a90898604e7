-------------------------------- MODULE Relay --------------------------------
(***************************************************************************)
(* The client process loop of process_client_cycle: one thread and one     *)
(* buffer carry both directions of a connection, with poll(), recv_string  *)
(* and send_string on two non-blocking sockets.                            *)
(*                                                                         *)
(* What is carried is counted in units: the line of a request, the         *)
(* `Proxy-Connection: keep-alive' header, or anything else.                *)
(***************************************************************************)
EXTENDS Integers, Sequences, SequencesExt

CONSTANTS
    Scripts,     \* bound: what the client may send, as sequences of kinds
    ServerUnits, \* bound: units the server sends
    BufferSize,  \* Profile.buffer_size, in units
    Window,      \* bound: units a socket takes before its peer reads
    Events       \* faults the environment may inject

AllEvents == {"http",        \* a plain HTTP request in proxy mode: rewrite it
              "recv_fails",  \* recv() fails with a critical error
              "reset"}       \* a peer resets its connection

ASSUME EventsAssumption == Events \subseteq AllEvents
ASSUME BoundsAssumption ==
    /\ ServerUnits \in Nat /\ BufferSize \in Nat \ {0} /\ Window \in Nat \ {0}
    /\ Scripts \subseteq Seq({"request", "proxy", "data"})

Sides == {"client", "server"}
Other(side) == IF side = "client" THEN "server" ELSE "client"

VARIABLES
    script,               \* what the client sends
    sent, fin, resets,    \* each peer: units sent, stream ended, connection reset
    read, recv_failed,    \* units recv() has taken from each peer; it has failed
    out, taken,           \* units accepted for each peer, and how many it has read
    pc, todo,             \* the loop, and the sockets with POLLIN still to process
    buffer, last_char, offset,
    is_transfer_failure, stop_flag

peers == <<script, sent, fin, resets, taken, stop_flag>>
input == <<read, recv_failed>>
loop  == <<pc, todo, buffer, last_char, offset, is_transfer_failure>>
vars  == <<peers, input, out, loop>>

\* A unit is known by who sent it and its place in that stream; the buffer first
\* holds what the setup of the connection left in it.
Unit  == {"setup", "client", "server"} \X Nat
Blank == <<"setup", 0>>
Kind(unit) == IF unit[1] = "client" THEN script[unit[2]] ELSE "data"

Total(side)  == IF side = "client" THEN Len(script) ELSE ServerUnits
Unread(side) == sent[side] - read[side]
Space(side)  == Window - (Len(out[side]) - taken[side])
Smaller(n, m)  == IF n < m THEN n ELSE m

TypeOK ==
    /\ script \in Scripts
    /\ sent \in [Sides -> Nat] /\ read \in [Sides -> Nat] /\ taken \in [Sides -> Nat]
    /\ \A s \in Sides : read[s] <= sent[s] /\ sent[s] <= Total(s) /\ Space(s) \in 0..Window
    /\ fin \in [Sides -> BOOLEAN] /\ resets \subseteq Sides
    /\ out \in [Sides -> Seq(Unit)]
    /\ pc \in {"check", "poll", "recv", "send", "closed"}
    /\ todo \in {<<>>, <<"client">>, <<"server">>, <<"client", "server">>}
    /\ buffer \in [1..BufferSize -> Unit]
    /\ last_char \in 0..BufferSize /\ offset \in 0..last_char
    /\ {recv_failed, is_transfer_failure, stop_flag} \subseteq BOOLEAN

Init ==
    /\ script \in Scripts
    /\ sent = [s \in Sides |-> 0] /\ read = [s \in Sides |-> 0] /\ taken = [s \in Sides |-> 0]
    /\ fin = [s \in Sides |-> FALSE] /\ resets = {}
    /\ out = [s \in Sides |-> <<>>]
    /\ pc = "check" /\ todo = <<>>
    /\ buffer = [i \in 1..BufferSize |-> <<"setup", i>>]
    /\ last_char \in 0..BufferSize /\ offset = last_char
    /\ recv_failed = FALSE /\ is_transfer_failure = FALSE /\ stop_flag = FALSE

-----------------------------------------------------------------------------
(* The loop.                                                               *)

\* while (!stop_flag.load() && !is_transfer_failure), then close() of both.
Check ==
    /\ pc = "check"
    /\ pc' = IF stop_flag \/ is_transfer_failure THEN "closed" ELSE "poll"
    /\ UNCHANGED <<peers, input, out, todo, buffer, last_char, offset, is_transfer_failure>>

PollIn(side) == Unread(side) > 0 \/ fin[side]
Ready(side)  == IF PollIn(side) THEN <<side>> ELSE <<>>

\* Mutant: the end of a stream is taken for POLLHUP.
PollReturns_HupOnEnd ==
    /\ pc = "poll"
    /\ resets # {} \/ stop_flag \/ \E s \in Sides : PollIn(s)
    /\ todo' = Ready("client") \o Ready("server")
    /\ pc' = IF resets # {} \/ \E s \in Sides : fin[s] THEN "closed"
             ELSE IF todo' = <<>> THEN "check" ELSE "recv"
    /\ UNCHANGED <<peers, input, out, buffer, last_char, offset, is_transfer_failure>>

\* poll() returns: a socket is ready, was reset (POLLERR, POLLHUP), or the
\* interrupt pipe was closed. Any error ends the loop before POLLIN is looked at.
PollReturns ==
    /\ pc = "poll"
    /\ resets # {} \/ stop_flag \/ \E s \in Sides : PollIn(s)
    /\ todo' = Ready("client") \o Ready("server")
    /\ pc' = IF resets # {} THEN "closed" ELSE IF todo' = <<>> THEN "check" ELSE "recv"
    /\ UNCHANGED <<peers, input, out, buffer, last_char, offset, is_transfer_failure>>

\* recv() puts what it reads at the front of the buffer.
Filled(side, n) ==
    [i \in 1..BufferSize |-> IF i <= n THEN <<side, read[side] + i>> ELSE buffer[i]]

\* remove_proxy_strings: if the buffer starts with a request, the first
\* Proxy-Connection header anywhere in the buffer is erased and last_char lowered.
RemoveProxyStrings(buf, last) ==
    LET headers == {i \in 1..BufferSize : Kind(buf[i]) = "proxy"}
        first   == CHOOSE i \in headers : \A j \in headers : i <= j
    IN  IF Kind(buf[1]) = "request" /\ headers # {} /\ last >= 1
        THEN [buf  |-> [i \in 1..BufferSize |->
                          IF i < first THEN buf[i]
                          ELSE IF i < BufferSize THEN buf[i + 1] ELSE Blank],
              last |-> last - 1]
        ELSE [buf |-> buf, last |-> last]

\* The buffer, as recv_string left it, is ready to be sent to the other side.
Received(side, buf, last) ==
    LET rewritten == IF side = "client" /\ "http" \in Events
                     THEN RemoveProxyStrings(buf, last)
                     ELSE [buf |-> buf, last |-> last]
    IN  /\ buffer' = rewritten.buf /\ last_char' = rewritten.last
        /\ offset' = 0 /\ pc' = "send"
        /\ UNCHANGED <<peers, out, todo>>

\* Mutant: the end of a stream is not a failure.
Recv_IgnoresEnd ==
    /\ pc = "recv"
    /\ LET side == Head(todo)
           n    == Smaller(Unread(side), BufferSize)
       IN  /\ read' = [read EXCEPT ![side] = @ + n]
           /\ UNCHANGED <<recv_failed, is_transfer_failure>>
           /\ Received(side, Filled(side, n), n)

\* Mutant: recv() is given more room than the buffer has.
Recv_Overlong ==
    /\ pc = "recv"
    /\ LET side == Head(todo)
           n    == Unread(side)
       IN  /\ read' = [read EXCEPT ![side] = @ + n]
           /\ is_transfer_failure' = (is_transfer_failure \/ n = 0)
           /\ UNCHANGED recv_failed
           /\ Received(side, Filled(side, n), n)

\* Data, or 0 at the end of the stream, which counts as a failure.
Recv ==
    /\ pc = "recv"
    /\ LET side == Head(todo)
           n    == Smaller(Unread(side), BufferSize)
       IN  /\ read' = [read EXCEPT ![side] = @ + n]
           /\ is_transfer_failure' = (is_transfer_failure \/ n = 0)
           /\ UNCHANGED recv_failed
           /\ Received(side, Filled(side, n), n)

\* A critical error leaves buffer and last_char alone; they are sent all the same.
RecvFails ==
    /\ "recv_fails" \in Events
    /\ pc = "recv"
    /\ is_transfer_failure' = TRUE /\ recv_failed' = TRUE
    /\ UNCHANGED read
    /\ Received(Head(todo), buffer, last_char)

Leg == pc = "send" /\ offset < last_char

\* send() takes a part of what is left; while it takes nothing (EAGAIN)
\* send_string sleeps and tries again, whatever stop_flag says.
SendPart ==
    LET side == Other(Head(todo)) IN
    /\ Leg /\ side \notin resets
    /\ \E n \in 1..Smaller(last_char - offset, Space(side)) :
        /\ out' = [out EXCEPT ![side] = @ \o SubSeq(buffer, offset + 1, offset + n)]
        /\ offset' = offset + n
    /\ UNCHANGED <<peers, input, pc, todo, buffer, last_char, is_transfer_failure>>

NextLeg == todo' = Tail(todo) /\ pc' = IF Len(todo) = 1 THEN "check" ELSE "recv"

SendFails ==
    /\ Leg /\ Other(Head(todo)) \in resets
    /\ is_transfer_failure' = TRUE
    /\ offset' = last_char
    /\ NextLeg
    /\ UNCHANGED <<peers, input, out, buffer, last_char>>

\* Mutant: the loop of send_string stops after one send().
SendReturns_OneSend ==
    /\ pc = "send" /\ (offset > 0 \/ last_char = 0)
    /\ NextLeg
    /\ UNCHANGED <<peers, input, out, buffer, last_char, offset, is_transfer_failure>>

SendReturns ==
    /\ pc = "send" /\ offset = last_char
    /\ NextLeg
    /\ UNCHANGED <<peers, input, out, buffer, last_char, offset, is_transfer_failure>>

-----------------------------------------------------------------------------
(* The two peers, and the signal.                                          *)

PeerSends(side) ==
    /\ ~fin[side] /\ side \notin resets /\ sent[side] < Total(side)
    /\ sent' = [sent EXCEPT ![side] = @ + 1]
    /\ UNCHANGED <<script, fin, resets, taken, stop_flag, input, out, loop>>

PeerEnds(side) ==
    /\ ~fin[side] /\ side \notin resets
    /\ fin' = [fin EXCEPT ![side] = TRUE]
    /\ UNCHANGED <<script, sent, resets, taken, stop_flag, input, out, loop>>

PeerReads(side) ==
    /\ taken[side] < Len(out[side])
    /\ taken' = [taken EXCEPT ![side] = Len(out[side])]
    /\ UNCHANGED <<script, sent, fin, resets, stop_flag, input, out, loop>>

PeerResets(side) ==
    /\ "reset" \in Events
    /\ side \notin resets
    /\ resets' = resets \cup {side}
    /\ UNCHANGED <<script, sent, fin, taken, stop_flag, input, out, loop>>

Signal ==
    /\ ~stop_flag /\ stop_flag' = TRUE
    /\ UNCHANGED <<script, sent, fin, resets, taken, input, out, loop>>

\* The connection is over.
Over == pc = "closed" /\ UNCHANGED vars

Loop  == Check \/ PollReturns \/ Recv \/ RecvFails \/ SendPart \/ SendFails \/ SendReturns
Peer(side) == PeerSends(side) \/ PeerEnds(side) \/ PeerReads(side) \/ PeerResets(side)
Next  == Loop \/ Signal \/ Over \/ \E side \in Sides : Peer(side)

Spec == Init /\ [][Next]_vars

\* The loop runs while it can, and a peer reads what it is sent: send_string
\* waits for a peer that does not, whatever stop_flag says.
FairSpec == Spec /\ WF_vars(Loop) /\ \A side \in Sides : WF_vars(PeerReads(side))

-----------------------------------------------------------------------------
(* Properties.                                                             *)

Stream(side, n) == [i \in 1..n |-> <<side, i>>]

IsHeader(scr, unit) == unit[1] = "client" /\ scr[unit[2]] = "proxy"

WithoutHeaders(scr, units) ==
    LET kept[i \in 0..Len(units)] ==
          IF i = 0 THEN <<>>
          ELSE IF IsHeader(scr, units[i]) THEN kept[i - 1] ELSE Append(kept[i - 1], units[i])
    IN  kept[Len(units)]

\* The proxy's own header is not part of what has to arrive.
Payload(units) == WithoutHeaders(script, units)

Sent == [s \in Sides |-> Payload(Stream(s, sent[s]))]
Got  == [s \in Sides |-> Payload(out[Other(s)])]

AsTunnel == INSTANCE Tunnel
    WITH Ends <- Sides, sent <- Sent, received <- Got, open <- (pc # "closed"),
         failing <- recv_failed

\* Both directions are byte streams, although they share a thread and a buffer:
\* the relay loop implements Tunnel.
RelaysStreams == AsTunnel!TunnelSpec

\* Until a read fails, what has been forwarded to a side is a prefix of what the
\* other side sent, whatever earlier reads left in the buffer.
StreamsIntact == ~recv_failed => \A s \in Sides : IsPrefix(Got[s], Sent[s])

\* When one side alone ends its stream and nothing fails, all it sent is forwarded before the
\* sockets are closed; the end is seen only after the data.
EndForwardsAll ==
    pc = "closed" /\ ~stop_flag /\ ~recv_failed /\ resets = {} =>
        \A s \in Sides : fin[Other(s)] \/ Got[s] = Sent[s]

\* Once a side ends its stream, or the program is told to stop, the loop ends.
RelayEnds == (stop_flag \/ \E s \in Sides : fin[s]) ~> pc = "closed"
=============================================================================
