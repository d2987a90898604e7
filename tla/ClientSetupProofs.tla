------------------------- MODULE ClientSetupProofs -------------------------
(***************************************************************************)
(* Theorems about ClientSetup, for every set of ports, every traffic on    *)
(* the raw socket, every capture timeout and every set of faults, unless a *)
(* theorem names the faults it excludes.                                   *)
(*                                                                         *)
(* Leaves that assign Boolean variables are given to Zenon, the others to  *)
(* SMT.                                                                    *)
(***************************************************************************)
EXTENDS ClientSetup, TLAPS

-----------------------------------------------------------------------------
(* Type correctness.                                                       *)

\* Types hold when the client thread starts.
LEMMA TypeInit == Init => TypeOK
<1> SUFFICES ASSUME Init PROVE TypeOK
  OBVIOUS
<1>1. Switches
  BY Zenon DEF Init, Switches
<1>2. packets \in [Ports -> Packet \cup {NoPacket}]
  BY SMT DEF Init
<1>3. elapsed \in 0..(CaptureTimeout + 1) /\ arrived \in 0..MaxArrivals
  BY SMT, BoundsAssumption DEF Init
<1>4. QED
  BY SMT, <1>1, <1>2, <1>3 DEF Init, TypeOK, ClientPC, SnifferPC, FdState

\* Every step of the threads, the monitor, the clock and the network keeps the
\* Boolean variables Boolean.
LEMMA SwitchesStep == ASSUME TypeOK, [Next]_vars PROVE Switches'
<1> USE DEF TypeOK, Switches, client, request, sniffer, shared

<1>1. ASSUME RecvRequest PROVE Switches'
  BY Zenon, <1>1 DEF RecvRequest, GoTo, ReturnSilently, Return, Close
<1>2. ASSUME Parse PROVE Switches'
  BY Zenon, <1>2 DEF Parse, Throws, GoTo, ReturnError, ReturnSilently, Return, Close
<1>3. ASSUME Resolve PROVE Switches'
  BY Zenon, <1>3 DEF Resolve, Throws, GoTo, ReturnError, Return, Close
<1>4. ASSUME Spawn PROVE Switches'
  BY Zenon, <1>4 DEF Spawn, GoTo
<1>5. ASSUME WaitReady PROVE Switches'
  BY Zenon, <1>5 DEF WaitReady, GoTo
<1>6. ASSUME Connect PROVE Switches'
  BY Zenon, <1>6 DEF Connect, GoTo
<1>7. ASSUME ConnectReturns PROVE Switches'
  BY Zenon, <1>7 DEF ConnectReturns, GoTo
<1>8. ASSUME Setup PROVE Switches'
  BY Zenon, <1>8 DEF Setup, GoTo
<1>9. ASSUME StopSniffer PROVE Switches'
  BY Zenon, <1>9 DEF StopSniffer, GoTo
<1>10. ASSUME JoinStopped PROVE Switches'
  BY Zenon, <1>10 DEF JoinStopped, JoinSniffer
<1>11. ASSUME FailClient PROVE Switches'
  BY Zenon, <1>11 DEF FailClient, ReturnError, Return, Close
<1>12. ASSUME Established PROVE Switches'
  BY Zenon, <1>12 DEF Established, GoTo, ReturnSilently, Return, Close
<1>13. ASSUME Choose PROVE Switches'
  BY Zenon, <1>13 DEF Choose, GoTo
<1>14. ASSUME JoinCaptured PROVE Switches'
  BY Zenon, <1>14 DEF JoinCaptured, JoinSniffer
<1>15. ASSUME RecvHello PROVE Switches'
  BY Zenon, <1>15 DEF RecvHello, GoTo, ReturnSilently, Return, Close
<1>16. ASSUME Attack PROVE Switches'
  BY Zenon, <1>16 DEF Attack
<1>17. ASSUME SendSync PROVE Switches'
  BY Zenon, <1>17 DEF SendSync, GoTo
<1>18. ASSUME Forward PROVE Switches'
  BY Zenon, <1>18 DEF Forward, GoTo
<1>19. ASSUME RelayEnds PROVE Switches'
  BY Zenon, <1>19 DEF RelayEnds, ReturnSilently, Return, Close
<1>20. ASSUME SniffStart PROVE Switches'
  BY Zenon, <1>20 DEF SniffStart
<1>21. ASSUME SniffCheck PROVE Switches'
  BY Zenon, <1>21 DEF SniffCheck, SniffReturn, Close
<1>22. ASSUME SniffTimedOut PROVE Switches'
  BY Zenon, <1>22 DEF SniffTimedOut, SniffReturn, Close
<1>23. ASSUME SniffIdle PROVE Switches'
  BY Zenon, <1>23 DEF SniffIdle
<1>24. ASSUME SniffBreak PROVE Switches'
  BY Zenon, <1>24 DEF SniffBreak, SniffReturn, Close
<1>25. ASSUME SniffPacket PROVE Switches'
  BY Zenon, <1>25 DEF SniffPacket, SniffReturn, Close, FromServer, ToOurPort
<1>26. ASSUME ProfileChange PROVE Switches'
  BY Zenon, <1>26 DEF ProfileChange, change_profile
<1>27. ASSUME Tick PROVE Switches'
  BY Zenon, <1>27 DEF Tick
<1>28. ASSUME SynAck PROVE Switches'
  BY Zenon, <1>28 DEF SynAck, Deliver
<1>29. ASSUME Refuse PROVE Switches'
  BY Zenon, <1>29 DEF Refuse
<1>30. ASSUME Arrive PROVE Switches'
  BY Zenon, <1>30 DEF Arrive, Deliver
<1>31. ASSUME UNCHANGED vars PROVE Switches'
  BY Zenon, <1>31 DEF vars
<1>32. QED
  BY Zenon, <1>1, <1>2, <1>3, <1>4, <1>5, <1>6, <1>7, <1>8, <1>9, <1>10, <1>11, <1>12,
       <1>13, <1>14, <1>15, <1>16, <1>17, <1>18, <1>19, <1>20, <1>21, <1>22, <1>23,
       <1>24, <1>25, <1>26, <1>27, <1>28, <1>29, <1>30, <1>31
  DEF Next, SetupStep, SnifferStep

\* Adding a response keeps the type of the list of responses.
LEMMA AppendResponse ==
    \A s \in Seq({"200", "error"}) : Append(s, "error") \in Seq({"200", "error"})
BY SMT

\* Every step keeps all types.
LEMMA TypeStep == ASSUME TypeOK, [Next]_vars PROVE TypeOK'
<1>0. Switches'
  BY SwitchesStep
<1> USE DEF TypeOK, client, request, sniffer, network, shared, ClientPC, SnifferPC, FdState
<1>1. ASSUME RecvRequest PROVE TypeOK'
  BY SMT, <1>0, <1>1 DEF RecvRequest, GoTo, ReturnSilently, Return, Close
<1>2. ASSUME Parse PROVE TypeOK'
  <2>1. resp' \in Seq({"200", "error"})
    <3>1. resp' = resp \/ resp' = Append(resp, "error")
      BY Zenon, <1>2 DEF Parse, Throws, GoTo, ReturnError, ReturnSilently, Return, Close
    <3>2. resp \in Seq({"200", "error"})
      BY Zenon DEF TypeOK
    <3>3. QED
      BY Zenon, <3>1, <3>2, AppendResponse
  <2>2. QED
    BY SMT, <1>0, <1>2, <2>1 DEF Parse, Throws, GoTo, ReturnError, ReturnSilently, Return, Close
<1>3. ASSUME Resolve PROVE TypeOK'
  <2>1. resp' \in Seq({"200", "error"})
    <3>1. resp' = resp \/ resp' = Append(resp, "error")
      BY Zenon, <1>3 DEF Resolve, Throws, GoTo, ReturnError, Return, Close
    <3>2. resp \in Seq({"200", "error"})
      BY Zenon DEF TypeOK
    <3>3. QED
      BY Zenon, <3>1, <3>2, AppendResponse
  <2>2. QED
    BY SMT, <1>0, <1>3, <2>1 DEF Resolve, Throws, GoTo, ReturnError, Return, Close
<1>4. ASSUME Spawn PROVE TypeOK'
  BY SMT, <1>0, <1>4 DEF Spawn, GoTo
<1>5. ASSUME WaitReady PROVE TypeOK'
  BY SMT, <1>0, <1>5 DEF WaitReady, GoTo
<1>6. ASSUME Connect PROVE TypeOK'
  BY SMT, <1>0, <1>6 DEF Connect, GoTo
<1>7. ASSUME ConnectReturns PROVE TypeOK'
  BY SMT, <1>0, <1>7 DEF ConnectReturns, GoTo
<1>8. ASSUME Setup PROVE TypeOK'
  BY SMT, <1>0, <1>8 DEF Setup, GoTo
<1>9. ASSUME StopSniffer PROVE TypeOK'
  BY SMT, <1>0, <1>9 DEF StopSniffer, GoTo
<1>10. ASSUME JoinStopped PROVE TypeOK'
  BY SMT, <1>0, <1>10 DEF JoinStopped, JoinSniffer
<1>11. ASSUME FailClient PROVE TypeOK'
  BY SMT, <1>0, <1>11 DEF FailClient, ReturnError, Return, Close
<1>12. ASSUME Established PROVE TypeOK'
  <2>1. Append(resp, "200") \in Seq({"200", "error"})
    BY SMT
  <2>2. resp' \in {resp, Append(resp, "200")}
    BY Zenon, <1>12 DEF Established, GoTo, ReturnSilently, Return, Close
  <2>3. /\ pc' \in {"choose", "terminated", "done"}
        /\ cfd' \in {cfd, Close(cfd)} /\ sfd' \in {sfd, Close(sfd)}
        /\ UNCHANGED <<sent, attack, request, desync, shared, sniffer, network>>
    BY Zenon, <1>12 DEF Established, GoTo, ReturnSilently, Return
  <2>4. Close(cfd) \in FdState /\ Close(sfd) \in FdState
    BY SMT DEF Close
  <2>5. resp' \in Seq({"200", "error"}) /\ cfd' \in FdState /\ sfd' \in FdState
    BY Zenon, <2>1, <2>2, <2>3, <2>4
  <2>6. QED
    BY SMT, <1>0, <2>3, <2>5
<1>13. ASSUME Choose PROVE TypeOK'
  BY SMT, <1>0, <1>13 DEF Choose, GoTo
<1>14. ASSUME JoinCaptured PROVE TypeOK'
  BY SMT, <1>0, <1>14 DEF JoinCaptured, JoinSniffer
<1>15. ASSUME RecvHello PROVE TypeOK'
  BY SMT, <1>0, <1>15 DEF RecvHello, GoTo, ReturnSilently, Return, Close
<1>16. ASSUME Attack PROVE TypeOK'
  BY SMT, <1>0, <1>16 DEF Attack
<1>17. ASSUME SendSync PROVE TypeOK'
  BY SMT, <1>0, <1>17 DEF SendSync, GoTo
<1>18. ASSUME Forward PROVE TypeOK'
  BY SMT, <1>0, <1>18 DEF Forward, GoTo
<1>19. ASSUME RelayEnds PROVE TypeOK'
  BY SMT, <1>0, <1>19 DEF RelayEnds, ReturnSilently, Return, Close
<1>20. ASSUME SniffStart PROVE TypeOK'
  BY SMT, <1>0, <1>20 DEF SniffStart
<1>21. ASSUME SniffCheck PROVE TypeOK'
  BY SMT, <1>0, <1>21 DEF SniffCheck, SniffReturn, Close
<1>22. ASSUME SniffTimedOut PROVE TypeOK'
  BY SMT, <1>0, <1>22 DEF SniffTimedOut, SniffReturn, Close
<1>23. ASSUME SniffIdle PROVE TypeOK'
  BY SMT, <1>0, <1>23 DEF SniffIdle
<1>24. ASSUME SniffBreak PROVE TypeOK'
  BY SMT, <1>0, <1>24 DEF SniffBreak, SniffReturn, Close
<1>25. ASSUME SniffPacket PROVE TypeOK'
  <2>1. Head(rawq) \in Packet /\ rawq' \in Seq(Packet)
    BY SMT, <1>25 DEF SniffPacket
  <2>2. Head(rawq).port \in Ports
    BY SMT, <2>1 DEF Packet
  <2>3. packets' \in [Ports -> Packet \cup {NoPacket}]
    BY SMT, <1>25, <2>1, <2>2 DEF SniffPacket
  <2>4. QED
    BY SMT, <1>0, <1>25, <2>1, <2>3 DEF SniffPacket, SniffReturn, Close, FromServer,
         ToOurPort
<1>26. ASSUME ProfileChange PROVE TypeOK'
  BY SMT, <1>0, <1>26 DEF ProfileChange, change_profile
<1>27. ASSUME Tick PROVE TypeOK'
  BY SMT, <1>0, <1>27, BoundsAssumption DEF Tick
<1>28. ASSUME SynAck PROVE TypeOK'
  <2>1. [from |-> "server", port |-> port, kind |-> "synack"] \in Packet
    BY SMT DEF Packet
  <2>2. Append(rawq, [from |-> "server", port |-> port, kind |-> "synack"]) \in Seq(Packet)
    BY SMT, <2>1
  <2>3. rawq' \in Seq(Packet)
    BY Zenon, <1>28, <2>2 DEF SynAck, Deliver
  <2>4. QED
    BY SMT, <1>0, <1>28, <2>3 DEF SynAck
<1>29. ASSUME Refuse PROVE TypeOK'
  BY SMT, <1>0, <1>29 DEF Refuse
<1>30. ASSUME Arrive PROVE TypeOK'
  BY SMT, <1>0, <1>30, BoundsAssumption DEF Arrive, Deliver
<1>31. ASSUME UNCHANGED vars PROVE TypeOK'
  BY SMT, <1>0, <1>31 DEF vars
<1>32. QED
  BY Zenon, <1>1, <1>2, <1>3, <1>4, <1>5, <1>6, <1>7, <1>8, <1>9, <1>10, <1>11, <1>12,
       <1>13, <1>14, <1>15, <1>16, <1>17, <1>18, <1>19, <1>20, <1>21, <1>22, <1>23,
       <1>24, <1>25, <1>26, <1>27, <1>28, <1>29, <1>30, <1>31
  DEF Next, SetupStep, SnifferStep


\* The variables of process_client_cycle and of sniff_handshake_packet keep
\* their types: in particular descriptors, ports, the status and the clock stay
\* within their ranges.
THEOREM TypeCorrect == Spec => []TypeOK
<1>1. TypeOK /\ [Next]_vars => TypeOK'
  BY TypeStep
<1>2. QED
  BY TypeInit, <1>1, PTL DEF Spec

-----------------------------------------------------------------------------
(* Control: where the threads, the connection and the descriptors can be   *)
(* relative to each other, under every fault.                              *)

BeforeSpawn == {"recv", "parse", "resolve", "spawn"}
BeforeSyn   == BeforeSpawn \cup {"wait", "connect"}
AfterSetup  == {"established", "choose", "join", "hello", "attack", "sync", "forward", "relay"}
Returned    == {"done", "terminated"}

\* The sniffer runs only inside the call that started it.
ThreadInv ==
    /\ spc \in {"off", "done"} \/ joinable
    /\ pc \in BeforeSpawn \cup {"done"} => ~joinable
    /\ pc \in BeforeSpawn => spc = "off"

\* How far the client thread is tells how far the connection is.
ConnInv ==
    /\ pc \in BeforeSyn => conn = "none"
    /\ pc \in AfterSetup \cup {"setup"} => conn = "up"
    /\ pc \in AfterSetup => local_port = port

\* Each descriptor is open exactly while its owner uses it.
FdInv ==
    /\ pc \notin Returned => cfd = "open" /\ sfd \in {"none", "open"}
    /\ pc \in Returned => cfd = "closed" /\ sfd \in {"none", "closed"}
    /\ spc \in {"off", "start"} => rfd = "none"
    /\ spc \in {"check", "poll"} => rfd = "open"
    /\ spc = "done" => rfd \in {"none", "closed"}

ControlInv == ThreadInv /\ ConnInv /\ FdInv

\* The initial state satisfies it.
LEMMA ControlInit == Init => ControlInv
BY Zenon DEF Init, ControlInv, ThreadInv, ConnInv, FdInv, BeforeSpawn, BeforeSyn,
     AfterSetup, Returned


\* A thread is joined before its call returns, or the process terminates.
LEMMA ThreadStep == ASSUME TypeOK, ControlInv, [Next]_vars PROVE ThreadInv'
<1> USE DEF ControlInv, ThreadInv, BeforeSpawn, BeforeSyn, AfterSetup, Returned, client,
     sniffer, network, shared
<1>1. ASSUME RecvRequest PROVE ThreadInv'
  BY SMT, <1>1 DEF RecvRequest, GoTo, ReturnSilently, Return, Close
<1>2. ASSUME Parse PROVE ThreadInv'
  BY SMT, <1>2 DEF Parse, Throws, GoTo, ReturnError, ReturnSilently, Return, Close
<1>3. ASSUME Resolve PROVE ThreadInv'
  BY SMT, <1>3 DEF Resolve, Throws, GoTo, ReturnError, Return, Close
<1>4. ASSUME Spawn PROVE ThreadInv'
  BY Zenon, <1>4 DEF Spawn, GoTo
<1>5. ASSUME WaitReady PROVE ThreadInv'
  BY Zenon, <1>5 DEF WaitReady, GoTo
<1>6. ASSUME Connect PROVE ThreadInv'
  BY Zenon, <1>6 DEF Connect, GoTo
<1>7. ASSUME ConnectReturns PROVE ThreadInv'
  BY Zenon, <1>7 DEF ConnectReturns, GoTo
<1>8. ASSUME Setup PROVE ThreadInv'
  BY Zenon, <1>8 DEF Setup, GoTo
<1>9. ASSUME StopSniffer PROVE ThreadInv'
  BY Zenon, <1>9 DEF StopSniffer, GoTo
<1>10. ASSUME JoinStopped PROVE ThreadInv'
  BY Zenon, <1>10 DEF JoinStopped, JoinSniffer
<1>11. ASSUME FailClient PROVE ThreadInv'
  BY SMT, <1>11 DEF FailClient, ReturnError, Return, Close
<1>12. ASSUME Established PROVE ThreadInv'
  BY SMT, <1>12 DEF Established, GoTo, ReturnSilently, Return, Close
<1>13. ASSUME Choose PROVE ThreadInv'
  BY Zenon, <1>13 DEF Choose, GoTo
<1>14. ASSUME JoinCaptured PROVE ThreadInv'
  BY Zenon, <1>14 DEF JoinCaptured, JoinSniffer
<1>15. ASSUME RecvHello PROVE ThreadInv'
  BY SMT, <1>15 DEF RecvHello, GoTo, ReturnSilently, Return, Close
<1>16. ASSUME Attack PROVE ThreadInv'
  BY Zenon, <1>16 DEF Attack
<1>17. ASSUME SendSync PROVE ThreadInv'
  BY Zenon, <1>17 DEF SendSync, GoTo
<1>18. ASSUME Forward PROVE ThreadInv'
  BY Zenon, <1>18 DEF Forward, GoTo
<1>19. ASSUME RelayEnds PROVE ThreadInv'
  BY SMT, <1>19 DEF RelayEnds, ReturnSilently, Return, Close
<1>20. ASSUME SniffStart PROVE ThreadInv'
  BY Zenon, <1>20 DEF SniffStart
<1>21. ASSUME SniffCheck PROVE ThreadInv'
  BY Zenon, <1>21 DEF SniffCheck, SniffReturn, Close
<1>22. ASSUME SniffTimedOut PROVE ThreadInv'
  BY Zenon, <1>22 DEF SniffTimedOut, SniffReturn, Close
<1>23. ASSUME SniffIdle PROVE ThreadInv'
  BY Zenon, <1>23 DEF SniffIdle
<1>24. ASSUME SniffBreak PROVE ThreadInv'
  BY Zenon, <1>24 DEF SniffBreak, SniffReturn, Close
<1>25. ASSUME SniffPacket PROVE ThreadInv'
  BY Zenon, <1>25 DEF SniffPacket, SniffReturn, Close, FromServer, ToOurPort
<1>26. ASSUME ProfileChange PROVE ThreadInv'
  BY Zenon, <1>26 DEF ProfileChange, change_profile
<1>27. ASSUME Tick PROVE ThreadInv'
  BY Zenon, <1>27 DEF Tick
<1>28. ASSUME SynAck PROVE ThreadInv'
  BY Zenon, <1>28 DEF SynAck, Deliver
<1>29. ASSUME Refuse PROVE ThreadInv'
  BY Zenon, <1>29 DEF Refuse
<1>30. ASSUME Arrive PROVE ThreadInv'
  BY Zenon, <1>30 DEF Arrive, Deliver
<1>31. ASSUME UNCHANGED vars PROVE ThreadInv'
  BY Zenon, <1>31 DEF vars
<1>32. QED
  BY Zenon, <1>1, <1>2, <1>3, <1>4, <1>5, <1>6, <1>7, <1>8, <1>9, <1>10, <1>11, <1>12,
       <1>13, <1>14, <1>15, <1>16, <1>17, <1>18, <1>19, <1>20, <1>21, <1>22, <1>23,
       <1>24, <1>25, <1>26, <1>27, <1>28, <1>29, <1>30, <1>31
  DEF Next, SetupStep, SnifferStep


\* The connection is up before anything relies on it.
LEMMA ConnStep == ASSUME TypeOK, ControlInv, [Next]_vars PROVE ConnInv'
<1> USE DEF ControlInv, ConnInv, BeforeSpawn, BeforeSyn, AfterSetup, Returned, client,
     sniffer, network, shared
<1>1. ASSUME RecvRequest PROVE ConnInv'
  BY Zenon, <1>1 DEF RecvRequest, GoTo, ReturnSilently, Return, Close
<1>2. ASSUME Parse PROVE ConnInv'
  BY Zenon, <1>2 DEF Parse, Throws, GoTo, ReturnError, ReturnSilently, Return, Close
<1>3. ASSUME Resolve PROVE ConnInv'
  BY Zenon, <1>3 DEF Resolve, Throws, GoTo, ReturnError, Return, Close
<1>4. ASSUME Spawn PROVE ConnInv'
  BY Zenon, <1>4 DEF Spawn, GoTo
<1>5. ASSUME WaitReady PROVE ConnInv'
  BY Zenon, <1>5 DEF WaitReady, GoTo
<1>6. ASSUME Connect PROVE ConnInv'
  BY Zenon, <1>6 DEF Connect, GoTo
<1>7. ASSUME ConnectReturns PROVE ConnInv'
  BY Zenon, <1>7 DEF ConnectReturns, GoTo
<1>8. ASSUME Setup PROVE ConnInv'
  BY Zenon, <1>8 DEF Setup, GoTo
<1>9. ASSUME StopSniffer PROVE ConnInv'
  BY Zenon, <1>9 DEF StopSniffer, GoTo
<1>10. ASSUME JoinStopped PROVE ConnInv'
  BY Zenon, <1>10 DEF JoinStopped, JoinSniffer
<1>11. ASSUME FailClient PROVE ConnInv'
  BY Zenon, <1>11 DEF FailClient, ReturnError, Return, Close
<1>12. ASSUME Established PROVE ConnInv'
  BY Zenon, <1>12 DEF Established, GoTo, ReturnSilently, Return, Close
<1>13. ASSUME Choose PROVE ConnInv'
  BY Zenon, <1>13 DEF Choose, GoTo
<1>14. ASSUME JoinCaptured PROVE ConnInv'
  BY Zenon, <1>14 DEF JoinCaptured, JoinSniffer
<1>15. ASSUME RecvHello PROVE ConnInv'
  BY Zenon, <1>15 DEF RecvHello, GoTo, ReturnSilently, Return, Close
<1>16. ASSUME Attack PROVE ConnInv'
  BY Zenon, <1>16 DEF Attack
<1>17. ASSUME SendSync PROVE ConnInv'
  BY Zenon, <1>17 DEF SendSync, GoTo
<1>18. ASSUME Forward PROVE ConnInv'
  BY Zenon, <1>18 DEF Forward, GoTo
<1>19. ASSUME RelayEnds PROVE ConnInv'
  BY Zenon, <1>19 DEF RelayEnds, ReturnSilently, Return, Close
<1>20. ASSUME SniffStart PROVE ConnInv'
  BY Zenon, <1>20 DEF SniffStart
<1>21. ASSUME SniffCheck PROVE ConnInv'
  BY Zenon, <1>21 DEF SniffCheck, SniffReturn, Close
<1>22. ASSUME SniffTimedOut PROVE ConnInv'
  BY Zenon, <1>22 DEF SniffTimedOut, SniffReturn, Close
<1>23. ASSUME SniffIdle PROVE ConnInv'
  BY Zenon, <1>23 DEF SniffIdle
<1>24. ASSUME SniffBreak PROVE ConnInv'
  BY Zenon, <1>24 DEF SniffBreak, SniffReturn, Close
<1>25. ASSUME SniffPacket PROVE ConnInv'
  BY Zenon, <1>25 DEF SniffPacket, SniffReturn, Close, FromServer, ToOurPort
<1>26. ASSUME ProfileChange PROVE ConnInv'
  BY Zenon, <1>26 DEF ProfileChange, change_profile
<1>27. ASSUME Tick PROVE ConnInv'
  BY Zenon, <1>27 DEF Tick
<1>28. ASSUME SynAck PROVE ConnInv'
  BY Zenon, <1>28 DEF SynAck, Deliver
<1>29. ASSUME Refuse PROVE ConnInv'
  BY Zenon, <1>29 DEF Refuse
<1>30. ASSUME Arrive PROVE ConnInv'
  BY Zenon, <1>30 DEF Arrive, Deliver
<1>31. ASSUME UNCHANGED vars PROVE ConnInv'
  BY Zenon, <1>31 DEF vars
<1>32. QED
  BY Zenon, <1>1, <1>2, <1>3, <1>4, <1>5, <1>6, <1>7, <1>8, <1>9, <1>10, <1>11, <1>12,
       <1>13, <1>14, <1>15, <1>16, <1>17, <1>18, <1>19, <1>20, <1>21, <1>22, <1>23,
       <1>24, <1>25, <1>26, <1>27, <1>28, <1>29, <1>30, <1>31
  DEF Next, SetupStep, SnifferStep


\* Every path opens and closes each descriptor once.
LEMMA FdStep == ASSUME TypeOK, ControlInv, [Next]_vars PROVE FdInv'
<1> USE DEF ControlInv, FdInv, BeforeSpawn, BeforeSyn, AfterSetup, Returned, client,
     sniffer, network, shared
<1>1. ASSUME RecvRequest PROVE FdInv'
  BY Zenon, <1>1 DEF RecvRequest, GoTo, ReturnSilently, Return, Close
<1>2. ASSUME Parse PROVE FdInv'
  BY Zenon, <1>2 DEF Parse, Throws, GoTo, ReturnError, ReturnSilently, Return, Close
<1>3. ASSUME Resolve PROVE FdInv'
  BY Zenon, <1>3 DEF Resolve, Throws, GoTo, ReturnError, Return, Close
<1>4. ASSUME Spawn PROVE FdInv'
  BY Zenon, <1>4 DEF Spawn, GoTo, ThreadInv
<1>5. ASSUME WaitReady PROVE FdInv'
  BY Zenon, <1>5 DEF WaitReady, GoTo
<1>6. ASSUME Connect PROVE FdInv'
  BY Zenon, <1>6 DEF Connect, GoTo
<1>7. ASSUME ConnectReturns PROVE FdInv'
  BY Zenon, <1>7 DEF ConnectReturns, GoTo
<1>8. ASSUME Setup PROVE FdInv'
  BY Zenon, <1>8 DEF Setup, GoTo
<1>9. ASSUME StopSniffer PROVE FdInv'
  BY Zenon, <1>9 DEF StopSniffer, GoTo
<1>10. ASSUME JoinStopped PROVE FdInv'
  BY Zenon, <1>10 DEF JoinStopped, JoinSniffer
<1>11. ASSUME FailClient PROVE FdInv'
  BY Zenon, <1>11 DEF FailClient, ReturnError, Return, Close
<1>12. ASSUME Established PROVE FdInv'
  BY Zenon, <1>12 DEF Established, GoTo, ReturnSilently, Return, Close
<1>13. ASSUME Choose PROVE FdInv'
  BY Zenon, <1>13 DEF Choose, GoTo
<1>14. ASSUME JoinCaptured PROVE FdInv'
  BY Zenon, <1>14 DEF JoinCaptured, JoinSniffer
<1>15. ASSUME RecvHello PROVE FdInv'
  BY Zenon, <1>15 DEF RecvHello, GoTo, ReturnSilently, Return, Close
<1>16. ASSUME Attack PROVE FdInv'
  BY Zenon, <1>16 DEF Attack
<1>17. ASSUME SendSync PROVE FdInv'
  BY Zenon, <1>17 DEF SendSync, GoTo
<1>18. ASSUME Forward PROVE FdInv'
  BY Zenon, <1>18 DEF Forward, GoTo
<1>19. ASSUME RelayEnds PROVE FdInv'
  BY Zenon, <1>19 DEF RelayEnds, ReturnSilently, Return, Close
<1>20. ASSUME SniffStart PROVE FdInv'
  BY Zenon, <1>20 DEF SniffStart
<1>21. ASSUME SniffCheck PROVE FdInv'
  BY SMT, <1>21 DEF SniffCheck, SniffReturn, Close
<1>22. ASSUME SniffTimedOut PROVE FdInv'
  BY SMT, <1>22 DEF SniffTimedOut, SniffReturn, Close
<1>23. ASSUME SniffIdle PROVE FdInv'
  BY Zenon, <1>23 DEF SniffIdle
<1>24. ASSUME SniffBreak PROVE FdInv'
  BY SMT, <1>24 DEF SniffBreak, SniffReturn, Close
<1>25. ASSUME SniffPacket PROVE FdInv'
  BY SMT, <1>25 DEF SniffPacket, SniffReturn, Close, FromServer, ToOurPort
<1>26. ASSUME ProfileChange PROVE FdInv'
  BY Zenon, <1>26 DEF ProfileChange, change_profile
<1>27. ASSUME Tick PROVE FdInv'
  BY Zenon, <1>27 DEF Tick
<1>28. ASSUME SynAck PROVE FdInv'
  BY Zenon, <1>28 DEF SynAck, Deliver
<1>29. ASSUME Refuse PROVE FdInv'
  BY Zenon, <1>29 DEF Refuse
<1>30. ASSUME Arrive PROVE FdInv'
  BY Zenon, <1>30 DEF Arrive, Deliver
<1>31. ASSUME UNCHANGED vars PROVE FdInv'
  BY Zenon, <1>31 DEF vars
<1>32. QED
  BY Zenon, <1>1, <1>2, <1>3, <1>4, <1>5, <1>6, <1>7, <1>8, <1>9, <1>10, <1>11, <1>12,
       <1>13, <1>14, <1>15, <1>16, <1>17, <1>18, <1>19, <1>20, <1>21, <1>22, <1>23,
       <1>24, <1>25, <1>26, <1>27, <1>28, <1>29, <1>30, <1>31
  DEF Next, SetupStep, SnifferStep

\* Control holds throughout.
LEMMA ControlHolds == Spec => []ControlInv
<1>1. TypeOK /\ ControlInv /\ [Next]_vars => ControlInv'
  BY ThreadStep, ConnStep, FdStep DEF ControlInv
<1>2. QED
  BY TypeCorrect, ControlInit, <1>1, PTL DEF Spec

\* No call returns while its sniffer still runs and could touch the locals it
\* was given, whatever fails: SnifferInsideCall. (Where a joinable thread would
\* be destroyed the process terminates instead.)
THEOREM SnifferStaysInside == Spec => []SnifferInsideCall
<1>1. ControlInv => SnifferInsideCall
  BY Zenon DEF ControlInv, ThreadInv, SnifferInsideCall
<1>2. QED
  BY ControlHolds, <1>1, PTL

\* No descriptor is closed twice and none outlives the call, whatever fails:
\* NoLeak.
THEOREM NothingLeaks == Spec => []NoLeak
<1>1. TypeOK /\ ControlInv => NoLeak
  <2> SUFFICES ASSUME TypeOK, ControlInv PROVE NoLeak
    OBVIOUS
  <2>1. cfd # "twice" /\ sfd # "twice" /\ (pc = "done" => cfd # "open" /\ sfd # "open")
    BY Zenon DEF ControlInv, FdInv, Returned
  <2>2. rfd # "twice" /\ (pc = "done" => rfd # "open")
    BY SMT DEF TypeOK, SnifferPC, ControlInv, FdInv, ThreadInv
  <2>3. QED
    BY Zenon, <2>1, <2>2 DEF NoLeak
<1>2. QED
  BY TypeCorrect, ControlHolds, <1>1, PTL

-----------------------------------------------------------------------------
(* What the client hears, under every fault.                               *)

Unanswered == BeforeSyn \cup {"connecting", "setup", "abort", "joinstop", "established"}
Heard200   == resp \in {<<"200">>, <<"200", "error">>}

\* The responses so far, by how far the client thread is, and what a "200" stands for.
AnswerInv ==
    /\ pc \in Unanswered => resp = <<>>
    /\ resp \in {<<>>, <<"200">>, <<"error">>, <<"200", "error">>}
    /\ resp \in {<<"error">>, <<"200", "error">>} => pc \in Returned
    /\ Heard200 => Tunnel /\ conn = "up" /\ local_port = port

\* One more element.
LEMMA OneMore ==
    ASSUME NEW S, NEW s \in Seq(S), NEW y \in S, NEW r, r = Append(s, y)
    PROVE  /\ r \in Seq(S) /\ Len(r) = Len(s) + 1 /\ r[Len(s) + 1] = y
           /\ \A i \in 1..Len(s) : r[i] = s[i]
BY SMT

\* A second element.
LEMMA AppendToOne == \A x, y : Append(<<x>>, y) = <<x, y>>
<1> SUFFICES ASSUME NEW x, NEW y PROVE Append(<<x>>, y) = <<x, y>>
  OBVIOUS
<1>1. PICK s : s = <<x>>
  OBVIOUS
<1>2. s \in Seq({x, y}) /\ Len(s) = 1 /\ s[1] = x /\ y \in {x, y}
  BY SMT, <1>1
<1>3. PICK r : r = Append(s, y)
  OBVIOUS
<1>4. /\ r \in Seq({x, y}) /\ Len(r) = Len(s) + 1 /\ r[Len(s) + 1] = y
      /\ \A i \in 1..Len(s) : r[i] = s[i]
  <2>1. PICK S : S = {x, y}
    OBVIOUS
  <2>2. s \in Seq(S) /\ y \in S
    BY Zenon, <1>2, <2>1
  <2>3. /\ r \in Seq(S) /\ Len(r) = Len(s) + 1 /\ r[Len(s) + 1] = y
        /\ \A i \in 1..Len(s) : r[i] = s[i]
    BY <1>3, <2>2, OneMore
  <2>4. QED
    BY Zenon, <2>1, <2>3
<1>5. r \in Seq({x, y}) /\ Len(r) = 2 /\ r[1] = x /\ r[2] = y
  BY SMT, <1>2, <1>4
<1>6. r = <<r[1], r[2]>>
  BY SMT, <1>5
<1>7. QED
  BY Zenon, <1>1, <1>3, <1>5, <1>6

\* The four lists of responses are different, and what makes one out of another.
LEMMA ResponseLists ==
    /\ Append(<<>>, "error") = <<"error">> /\ Append(<<>>, "200") = <<"200">>
    /\ Append(<<"200">>, "error") = <<"200", "error">>
    /\ <<>> # <<"200">> /\ <<>> # <<"error">> /\ <<>> # <<"200", "error">>
    /\ <<"200">> # <<"error">> /\ <<"200">> # <<"200", "error">>
    /\ <<"error">> # <<"200", "error">>
<1>1. Append(<<>>, "error") = <<"error">> /\ Append(<<>>, "200") = <<"200">>
  BY SMT
<1>2. Append(<<"200">>, "error") = <<"200", "error">>
  BY AppendToOne
<1>3. /\ Len(<<>>) = 0 /\ Len(<<"200">>) = 1 /\ Len(<<"error">>) = 1
      /\ Len(<<"200", "error">>) = 2
  BY SMT
<1>4. <<"200">>[1] = "200" /\ <<"error">>[1] = "error" /\ "200" # "error"
  BY SMT
<1>5. 0 # 1 /\ 0 # 2 /\ 1 # 2
  BY SMT
<1>6. QED
  BY Zenon, <1>1, <1>2, <1>3, <1>4, <1>5

\* Every step keeps the responses in order.
LEMMA AnswerStep == ASSUME TypeOK, ControlInv, AnswerInv, [Next]_vars PROVE AnswerInv'
<1>A. /\ ControlInv /\ AnswerInv
  OBVIOUS
<1> USE ResponseLists DEF ControlInv, ConnInv, AnswerInv, Heard200, Tunnel, Unanswered, BeforeSpawn,
      BeforeSyn, AfterSetup, Returned, client, request, sniffer, network, shared
<1>1. ASSUME RecvRequest PROVE AnswerInv'
  BY Zenon, <1>1, <1>A DEF RecvRequest, GoTo, ReturnSilently, Return, Close
<1>2. ASSUME Parse PROVE AnswerInv'
  BY Zenon, <1>2, <1>A DEF Parse, Throws, GoTo, ReturnError, ReturnSilently, Return, Close
<1>3. ASSUME Resolve PROVE AnswerInv'
  BY Zenon, <1>3, <1>A DEF Resolve, Throws, GoTo, ReturnError, Return, Close
<1>4. ASSUME Spawn PROVE AnswerInv'
  BY Zenon, <1>4, <1>A DEF Spawn, GoTo
<1>5. ASSUME WaitReady PROVE AnswerInv'
  BY Zenon, <1>5, <1>A DEF WaitReady, GoTo
<1>6. ASSUME Connect PROVE AnswerInv'
  BY Zenon, <1>6, <1>A DEF Connect, GoTo
<1>7. ASSUME ConnectReturns PROVE AnswerInv'
  BY Zenon, <1>7, <1>A DEF ConnectReturns, GoTo
<1>8. ASSUME Setup PROVE AnswerInv'
  BY Zenon, <1>8, <1>A DEF Setup, GoTo
<1>9. ASSUME StopSniffer PROVE AnswerInv'
  BY Zenon, <1>9, <1>A DEF StopSniffer, GoTo
<1>10. ASSUME JoinStopped PROVE AnswerInv'
  BY Zenon, <1>10, <1>A DEF JoinStopped, JoinSniffer
<1>11. ASSUME FailClient PROVE AnswerInv'
  BY Zenon, <1>11, <1>A DEF FailClient, ReturnError, Return, Close
<1>12. ASSUME Established PROVE AnswerInv'
  BY Zenon, <1>12, <1>A DEF Established, GoTo, ReturnSilently, Return, Close
<1>13. ASSUME Choose PROVE AnswerInv'
  BY Zenon, <1>13, <1>A DEF Choose, GoTo
<1>14. ASSUME JoinCaptured PROVE AnswerInv'
  BY Zenon, <1>14, <1>A DEF JoinCaptured, JoinSniffer
<1>15. ASSUME RecvHello PROVE AnswerInv'
  BY Zenon, <1>15, <1>A DEF RecvHello, GoTo, ReturnSilently, Return, Close
<1>16. ASSUME Attack PROVE AnswerInv'
  BY Zenon, <1>16, <1>A DEF Attack
<1>17. ASSUME SendSync PROVE AnswerInv'
  BY Zenon, <1>17, <1>A DEF SendSync, GoTo
<1>18. ASSUME Forward PROVE AnswerInv'
  BY Zenon, <1>18, <1>A DEF Forward, GoTo
<1>19. ASSUME RelayEnds PROVE AnswerInv'
  BY Zenon, <1>19, <1>A DEF RelayEnds, ReturnSilently, Return, Close
<1>20. ASSUME SniffStart PROVE AnswerInv'
  BY Zenon, <1>20, <1>A DEF SniffStart
<1>21. ASSUME SniffCheck PROVE AnswerInv'
  BY Zenon, <1>21, <1>A DEF SniffCheck, SniffReturn, Close
<1>22. ASSUME SniffTimedOut PROVE AnswerInv'
  BY Zenon, <1>22, <1>A DEF SniffTimedOut, SniffReturn, Close
<1>23. ASSUME SniffIdle PROVE AnswerInv'
  BY Zenon, <1>23, <1>A DEF SniffIdle
<1>24. ASSUME SniffBreak PROVE AnswerInv'
  BY Zenon, <1>24, <1>A DEF SniffBreak, SniffReturn, Close
<1>25. ASSUME SniffPacket PROVE AnswerInv'
  BY Zenon, <1>25, <1>A DEF SniffPacket, SniffReturn, Close, FromServer, ToOurPort
<1>26. ASSUME ProfileChange PROVE AnswerInv'
  BY Zenon, <1>26, <1>A DEF ProfileChange, change_profile
<1>27. ASSUME Tick PROVE AnswerInv'
  BY Zenon, <1>27, <1>A DEF Tick
<1>28. ASSUME SynAck PROVE AnswerInv'
  BY Zenon, <1>28, <1>A DEF SynAck, Deliver
<1>29. ASSUME Refuse PROVE AnswerInv'
  BY Zenon, <1>29, <1>A DEF Refuse
<1>30. ASSUME Arrive PROVE AnswerInv'
  BY Zenon, <1>30, <1>A DEF Arrive, Deliver
<1>31. ASSUME UNCHANGED vars PROVE AnswerInv'
  BY Zenon, <1>31, <1>A DEF vars
<1>32. QED
  BY Zenon, <1>1, <1>2, <1>3, <1>4, <1>5, <1>6, <1>7, <1>8, <1>9, <1>10, <1>11, <1>12,
       <1>13, <1>14, <1>15, <1>16, <1>17, <1>18, <1>19, <1>20, <1>21, <1>22, <1>23,
       <1>24, <1>25, <1>26, <1>27, <1>28, <1>29, <1>30, <1>31
  DEF Next, SetupStep, SnifferStep

\* The client of a tunnel hears "200" once, first and only over a live connection, and
\* an error is the last thing any client hears, whatever fails: AnswersInOrder.
THEOREM AnswersComeInOrder == Spec => []AnswersInOrder
<1>1. Init => AnswerInv
  BY SMT DEF Init, AnswerInv, Heard200, Returned
<1>2. TypeOK /\ ControlInv /\ AnswerInv /\ [Next]_vars => AnswerInv'
  BY AnswerStep
<1>3. AnswerInv => AnswersInOrder
  <2> SUFFICES ASSUME AnswerInv PROVE AnswersInOrder
    OBVIOUS
  <2>1. CASE resp = <<>>
    BY SMT, <2>1 DEF AnswersInOrder
  <2>2. CASE resp = <<"200">>
    BY SMT, <2>2 DEF AnswerInv, Heard200, AnswersInOrder
  <2>3. CASE resp = <<"error">>
    BY SMT, <2>3 DEF AnswerInv, AnswersInOrder, Returned
  <2>4. CASE resp = <<"200", "error">>
    BY SMT, <2>4 DEF AnswerInv, Heard200, AnswersInOrder, Returned
  <2>5. QED
    BY Zenon, <2>1, <2>2, <2>3, <2>4 DEF AnswerInv
<1>4. QED
  BY TypeCorrect, ControlHolds, <1>1, <1>2, <1>3, PTL DEF Spec

-----------------------------------------------------------------------------
(* The captured packet belongs to this connection, under every fault.      *)

\* What is on its way to `sniffed`: a packet of the server for our port exists
\* only once the connection is up, stored packets are filed under their own
\* port, and the sniffer compares with the right port.
CaptureInv ==
    /\ \A i \in 1..Len(rawq) : FromServer(rawq[i]) /\ rawq[i].port = port => conn = "up"
    /\ \A p \in Ports : packets[p] # NoPacket =>
          FromServer(packets[p]) /\ packets[p].port = p /\ (p = port => conn = "up")
    /\ local_port \in {-1, port}
    /\ is_searched => sport = port
    /\ CaptureMatchesPort

captureVars == <<rawq, packets, local_port, is_searched, sport, sniffed, conn, port>>

\* The initial state satisfies it.
LEMMA CaptureInit == Init => CaptureInv
BY SMT DEF Init, CaptureInv, CaptureMatchesPort, NoPacket

\* It reads nothing but captureVars.
LEMMA CaptureFrame == CaptureInv /\ UNCHANGED captureVars => CaptureInv'
BY SMT DEF CaptureInv, captureVars, CaptureMatchesPort, FromServer

\* Every step keeps the capture invariant.
LEMMA CaptureStep == ASSUME TypeOK, ControlInv, CaptureInv, [Next]_vars PROVE CaptureInv'
<1>1. ASSUME \/ RecvRequest \/ Parse \/ Resolve \/ Spawn \/ WaitReady
             \/ ConnectReturns \/ StopSniffer \/ JoinStopped \/ FailClient
             \/ Established \/ Choose \/ JoinCaptured \/ RecvHello \/ Attack
             \/ SendSync \/ Forward \/ RelayEnds \/ SniffStart \/ SniffIdle
             \/ ProfileChange \/ Tick \/ UNCHANGED vars
      PROVE  CaptureInv'
  <2>1. UNCHANGED captureVars
    BY Zenon, <1>1 DEF captureVars, RecvRequest, Parse, Resolve, Spawn, WaitReady,
       ConnectReturns, StopSniffer, JoinStopped, FailClient, Established, Choose,
       JoinCaptured, RecvHello, Attack, SendSync, Forward, RelayEnds, SniffStart,
       SniffIdle, ProfileChange, Tick, vars, sniffer, network, shared
  <2>2. QED
    BY <2>1, CaptureFrame
<1>2. ASSUME Connect PROVE CaptureInv'
  <2>1. UNCHANGED <<rawq, packets, local_port, is_searched, sport, sniffed, port>>
    BY Zenon, <1>2 DEF Connect, sniffer, shared
  <2>2. conn # "up"
    BY Zenon, <1>2 DEF Connect, ControlInv, ConnInv, BeforeSyn
  <2>3. QED
    BY SMT, <2>1, <2>2 DEF CaptureInv, CaptureMatchesPort, FromServer
<1>3. ASSUME Setup PROVE CaptureInv'
  <2>1. UNCHANGED <<rawq, packets, is_searched, sport, sniffed, conn, port>>
    BY Zenon, <1>3 DEF Setup, sniffer, network
  <2>2. local_port' \in {-1, port}
    BY Zenon, <1>3 DEF Setup, CaptureInv
  <2>3. QED
    BY SMT, <2>1, <2>2 DEF CaptureInv, CaptureMatchesPort, FromServer
<1>4. ASSUME SniffTimedOut \/ SniffBreak PROVE CaptureInv'
  <2>1. UNCHANGED captureVars
    BY Zenon, <1>4 DEF SniffTimedOut, SniffBreak, SniffReturn, captureVars, network
  <2>2. QED
    BY <2>1, CaptureFrame
<1>5. ASSUME SniffCheck PROVE CaptureInv'
  <2>1. UNCHANGED <<rawq, packets, local_port, conn, port>>
    BY Zenon, <1>5 DEF SniffCheck, network
  <2>2. is_searched' => sport' = port
    <3>1. CASE is_searched
      BY Zenon, <1>5, <3>1 DEF SniffCheck, CaptureInv
    <3>2. CASE ~is_searched
      BY Zenon, <1>5, <3>2 DEF SniffCheck, CaptureInv
    <3>3. QED
      BY <3>1, <3>2
  <2>3. sniffed' = sniffed \/ (local_port = port /\ packets[port] # NoPacket /\ sniffed' = packets[port])
    BY SMT, <1>5 DEF SniffCheck, SniffReturn, CaptureInv, TypeOK
  <2>4. CaptureMatchesPort'
    BY SMT, <2>1, <2>3 DEF CaptureInv, CaptureMatchesPort, FromServer, TypeOK
  <2>5. QED
    BY SMT, <2>1, <2>2, <2>4 DEF CaptureInv, FromServer
<1>6. ASSUME SniffPacket PROVE CaptureInv'
  <2>1. UNCHANGED <<local_port, is_searched, sport, conn, port>>
    BY Zenon, <1>6 DEF SniffPacket
  <2>2. rawq # <<>> /\ rawq' = Tail(rawq)
    BY Zenon, <1>6 DEF SniffPacket
  <2>3. /\ \A i \in 1..Len(rawq') : rawq'[i] = rawq[i + 1] /\ i + 1 \in 1..Len(rawq)
        /\ Head(rawq) = rawq[1] /\ 1 \in 1..Len(rawq)
    BY SMT, <2>2 DEF TypeOK
  <2>4. \A i \in 1..Len(rawq') : FromServer(rawq'[i]) /\ rawq'[i].port = port => conn = "up"
    BY SMT, <2>3 DEF CaptureInv
  <2> DEFINE pkt == Head(rawq)
  <2>5. FromServer(pkt) /\ pkt.port = port => conn = "up"
    BY SMT, <2>3 DEF CaptureInv
  <2>6. packets' \in {packets, [packets EXCEPT ![pkt.port] = pkt]}
        /\ (packets' # packets => FromServer(pkt))
    BY Zenon, <1>6 DEF SniffPacket
  <2>7. \A p \in Ports : packets'[p] # NoPacket =>
          FromServer(packets'[p]) /\ packets'[p].port = p /\ (p = port => conn = "up")
    BY SMT, <2>5, <2>6 DEF CaptureInv, TypeOK
  <2>8. sniffed' = sniffed \/ (sniffed' = pkt /\ FromServer(pkt) /\ pkt.port = port)
    BY SMT, <1>6 DEF SniffPacket, SniffReturn, ToOurPort, CaptureInv
  <2>9. CaptureMatchesPort'
    BY SMT, <2>1, <2>5, <2>8 DEF CaptureInv, CaptureMatchesPort, FromServer
  <2>10. QED
    BY SMT, <2>1, <2>4, <2>7, <2>9 DEF CaptureInv, FromServer
<1>7. ASSUME SynAck \/ Arrive PROVE CaptureInv'
  <2>1. UNCHANGED <<packets, local_port, is_searched, sport, sniffed, port>>
    BY Zenon, <1>7 DEF SynAck, Arrive, sniffer, shared
  <2>2. conn = "up" => conn' = "up"
    BY SMT, <1>7 DEF SynAck, Arrive
  <2>3. PICK pkt \in Packet : /\ rawq' \in {rawq, Append(rawq, pkt)}
                              /\ FromServer(pkt) /\ pkt.port = port => conn' = "up"
    <3>1. CASE SynAck
      <4> DEFINE p == [from |-> "server", port |-> port, kind |-> "synack"]
      <4>1. p \in Packet
        BY SMT DEF Packet, TypeOK
      <4>2. rawq' \in {rawq, Append(rawq, p)} /\ conn' = "up"
        BY Zenon, <3>1 DEF SynAck, Deliver
      <4>3. QED
        BY Zenon, <4>1, <4>2
    <3>2. CASE Arrive
      BY SMT, <3>2 DEF Arrive, Deliver, FromServer
    <3>3. QED
      BY <1>7, <3>1, <3>2
  <2>4. \A i \in 1..Len(rawq') : rawq'[i] = pkt \/ (i \in 1..Len(rawq) /\ rawq'[i] = rawq[i])
    BY SMT, <2>3 DEF TypeOK
  <2>5. \A i \in 1..Len(rawq') : FromServer(rawq'[i]) /\ rawq'[i].port = port => conn' = "up"
    BY SMT, <2>2, <2>3, <2>4 DEF CaptureInv
  <2>6. QED
    BY SMT, <2>1, <2>2, <2>5 DEF CaptureInv, CaptureMatchesPort, FromServer
<1>8. ASSUME Refuse PROVE CaptureInv'
  <2>1. UNCHANGED <<rawq, packets, local_port, is_searched, sport, sniffed, port>> /\ conn # "up"
    BY Zenon, <1>8 DEF Refuse, sniffer, shared
  <2>2. QED
    BY SMT, <2>1 DEF CaptureInv, CaptureMatchesPort, FromServer
<1>9. QED
  BY Zenon, <1>1, <1>2, <1>3, <1>4, <1>5, <1>6, <1>7, <1>8 DEF Next, SetupStep, SnifferStep

\* Whatever fails and whatever else the raw socket sees, the packet the sniffer
\* hands over was sent by the server to this connection: CaptureMatchesPort.
THEOREM CaptureIsOurs == Spec => []CaptureMatchesPort
<1>1. TypeOK /\ ControlInv /\ CaptureInv /\ [Next]_vars => CaptureInv'
  BY CaptureStep
<1>2. CaptureInv => CaptureMatchesPort
  BY DEF CaptureInv
<1>3. QED
  BY TypeCorrect, ControlHolds, CaptureInit, <1>1, <1>2, PTL DEF Spec

-----------------------------------------------------------------------------
(* Without a profile change during the setup the code's repeated tests of  *)
(* WantsAttack agree; if, moreover, the 200 response can be sent, every    *)
(* exit joins the sniffer first.                                           *)

Sniffing == {"wait", "connect", "connecting", "setup", "abort", "joinstop",
             "established", "choose", "join"}

\* The sniffer is joinable only where the code still looks at WantsAttack, and
\* WantsAttack is what it was when the sniffer was started.
JoinedInv ==
    /\ joinable => WantsAttack /\ pc \in Sniffing \cup {"terminated"}
    /\ WantsAttack /\ pc \in Sniffing \ {"abort", "joinstop"} => joinable
    /\ pc = "join" => WantsAttack

\* The initial state satisfies it.
LEMMA JoinedInit == Init => JoinedInv
BY Zenon DEF Init, JoinedInv, Sniffing

\* No step changes which faults may happen.
LEMMA EventsFixed == [Next]_vars => events' = events
BY Zenon DEF Next, SetupStep, SnifferStep, vars, request, RecvRequest, Parse, Resolve, Spawn,
   WaitReady, Connect, ConnectReturns, Setup, StopSniffer, JoinStopped, FailClient,
   Established, Choose, JoinCaptured, RecvHello, Attack, SendSync, Forward, RelayEnds,
   SniffStart, SniffCheck, SniffTimedOut, SniffIdle, SniffBreak, SniffPacket, Tick,
   ProfileChange, SynAck, Refuse, Arrive

\* Every step keeps it when the profile does not change.
LEMMA JoinedStep ==
    ASSUME "profile_change" \notin events,
           TypeOK, ControlInv, JoinedInv, [Next]_vars
    PROVE  JoinedInv'
<1> USE DEF JoinedInv, Sniffing, WantsAttack, client, request
<1>1. ASSUME RecvRequest PROVE JoinedInv'
  BY SMT, <1>1 DEF RecvRequest, GoTo, ReturnSilently, Return
<1>2. ASSUME Parse PROVE JoinedInv'
  BY SMT, <1>2 DEF Parse, Throws, GoTo, ReturnError, ReturnSilently, Return
<1>3. ASSUME Resolve PROVE JoinedInv'
  BY SMT, <1>3 DEF Resolve, Throws, GoTo, ReturnError, Return
<1>4. ASSUME Spawn PROVE JoinedInv'
  BY SMT, <1>4 DEF Spawn, GoTo
<1>5. ASSUME WaitReady PROVE JoinedInv'
  BY Zenon, <1>5 DEF WaitReady, GoTo
<1>6. ASSUME Connect PROVE JoinedInv'
  BY SMT, <1>6 DEF Connect, GoTo
<1>7. ASSUME ConnectReturns PROVE JoinedInv'
  BY SMT, <1>7 DEF ConnectReturns, GoTo
<1>8. ASSUME Setup PROVE JoinedInv'
  BY SMT, <1>8 DEF Setup, GoTo
<1>9. ASSUME StopSniffer PROVE JoinedInv'
  BY SMT, <1>9 DEF StopSniffer, GoTo
<1>10. ASSUME JoinStopped PROVE JoinedInv'
  BY Zenon, <1>10 DEF JoinStopped, JoinSniffer
<1>11. ASSUME FailClient PROVE JoinedInv'
  BY Zenon, <1>11 DEF FailClient, ReturnError, Return
<1>12. ASSUME Established PROVE JoinedInv'
  BY SMT, <1>12 DEF Established, GoTo, ReturnSilently, Return
<1>13. ASSUME Choose PROVE JoinedInv'
  BY SMT, <1>13 DEF Choose, GoTo
<1>14. ASSUME JoinCaptured PROVE JoinedInv'
  BY Zenon, <1>14 DEF JoinCaptured, JoinSniffer
<1>15. ASSUME RecvHello PROVE JoinedInv'
  BY SMT, <1>15 DEF RecvHello, GoTo, ReturnSilently, Return
<1>16. ASSUME Attack PROVE JoinedInv'
  BY Zenon, <1>16 DEF Attack
<1>17. ASSUME SendSync PROVE JoinedInv'
  BY SMT, <1>17 DEF SendSync, GoTo
<1>18. ASSUME Forward PROVE JoinedInv'
  BY SMT, <1>18 DEF Forward, GoTo
<1>19. ASSUME RelayEnds PROVE JoinedInv'
  BY Zenon, <1>19 DEF RelayEnds, ReturnSilently, Return
<1>20. ASSUME SniffStart PROVE JoinedInv'
  BY Zenon, <1>20 DEF SniffStart
<1>21. ASSUME SniffCheck PROVE JoinedInv'
  BY Zenon, <1>21 DEF SniffCheck
<1>22. ASSUME SniffTimedOut PROVE JoinedInv'
  BY Zenon, <1>22 DEF SniffTimedOut
<1>23. ASSUME SniffIdle PROVE JoinedInv'
  BY Zenon, <1>23 DEF SniffIdle
<1>24. ASSUME SniffBreak PROVE JoinedInv'
  BY Zenon, <1>24 DEF SniffBreak
<1>25. ASSUME SniffPacket PROVE JoinedInv'
  BY Zenon, <1>25 DEF SniffPacket
<1>26. ASSUME ProfileChange PROVE JoinedInv'
  BY Zenon, <1>26 DEF ProfileChange, change_profile
<1>27. ASSUME Tick PROVE JoinedInv'
  BY Zenon, <1>27 DEF Tick
<1>28. ASSUME SynAck PROVE JoinedInv'
  BY Zenon, <1>28 DEF SynAck
<1>29. ASSUME Refuse PROVE JoinedInv'
  BY Zenon, <1>29 DEF Refuse
<1>30. ASSUME Arrive PROVE JoinedInv'
  BY Zenon, <1>30 DEF Arrive
<1>31. ASSUME UNCHANGED vars PROVE JoinedInv'
  BY Zenon, <1>31 DEF vars
<1>32. QED
  BY Zenon, <1>1, <1>2, <1>3, <1>4, <1>5, <1>6, <1>7, <1>8, <1>9, <1>10, <1>11, <1>12,
       <1>13, <1>14, <1>15, <1>16, <1>17, <1>18, <1>19, <1>20, <1>21, <1>22, <1>23,
       <1>24, <1>25, <1>26, <1>27, <1>28, <1>29, <1>30, <1>31
  DEF Next, SetupStep, SnifferStep


\* The two faults that end the proxy with std::terminate are the only ones:
\* without them no interleaving of the threads, no failing system call and no
\* traffic destroys a joinable sniff_thread (JoinsSniffer).
THEOREM NeverTerminates == Spec => []JoinsSniffer
<1> DEFINE Quiet == events \cap {"profile_change", "send_fails"} = {}
           Inv   == Quiet => JoinedInv /\ NoTerminate
<1>1. ASSUME Quiet, TypeOK, ControlInv, JoinedInv, [Next]_vars PROVE JoinedInv'
  <2>1. "profile_change" \notin events
    BY <1>1
  <2>2. QED
    BY <1>1, <2>1, JoinedStep
<1>2. ASSUME Quiet, JoinedInv, NoTerminate, [Next]_vars PROVE NoTerminate'
  <2> USE <1>2 DEF NoTerminate, JoinedInv, Sniffing, client
  <2>1. ASSUME \/ RecvRequest \/ Parse \/ Resolve \/ FailClient \/ Established
               \/ RecvHello \/ RelayEnds
        PROVE  NoTerminate'
    BY SMT, <2>1 DEF RecvRequest, Parse, Resolve, Throws, FailClient, Established, RecvHello,
         RelayEnds,
       GoTo, ReturnSilently, ReturnError, Return
  <2>2. ASSUME \/ Spawn \/ WaitReady \/ Connect \/ ConnectReturns \/ Setup \/ StopSniffer
               \/ JoinStopped \/ Choose \/ JoinCaptured \/ Attack \/ SendSync \/ Forward
        PROVE  NoTerminate'
    BY SMT, <2>2 DEF Spawn, WaitReady, Connect, ConnectReturns, Setup, StopSniffer,
       JoinStopped, Choose, JoinCaptured, Attack, SendSync, Forward, GoTo, JoinSniffer
  <2>3. ASSUME \/ SnifferStep \/ Tick \/ ProfileChange \/ SynAck \/ Refuse \/ Arrive
               \/ UNCHANGED vars
        PROVE  NoTerminate'
    BY Zenon, <2>3 DEF SnifferStep, SniffStart, SniffCheck, SniffTimedOut, SniffIdle,
         SniffBreak,
       SniffPacket, Tick, ProfileChange, SynAck, Refuse, Arrive, vars
  <2>4. QED
    BY Zenon, <2>1, <2>2, <2>3 DEF Next, SetupStep
<1>3. Init => Inv
  BY JoinedInit DEF Init, NoTerminate
<1>4. ASSUME TypeOK, ControlInv, Inv, [Next]_vars PROVE Inv'
  <2>1. events' = events
    BY <1>4, EventsFixed
  <2>2. QED
    BY <1>1, <1>2, <1>4, <2>1
<1>5. Inv => JoinsSniffer
  BY DEF JoinsSniffer
<1> HIDE DEF Inv
<1>6. QED
  BY TypeCorrect, ControlHolds, <1>3, <1>4, <1>5, PTL DEF Spec

-----------------------------------------------------------------------------
(* If, moreover, the server does not speak first and the raw socket can be *)
(* polled, the attack is built on the SYN,ACK itself.                      *)

\* Every packet that could become `sniffed` is the SYN,ACK.
SynAckInv ==
    /\ \A i \in 1..Len(rawq) :
          FromServer(rawq[i]) /\ rawq[i].port = port => rawq[i].kind = "synack"
    /\ packets[port] # NoPacket => packets[port].kind = "synack"
    /\ sniffed # NoPacket => sniffed.kind = "synack"

synAckVars == <<rawq, packets, sniffed, port>>

\* The initial state satisfies it.
LEMMA SynAckInit == Init => SynAckInv
BY SMT DEF Init, SynAckInv

\* It reads nothing but synAckVars.
LEMMA SynAckFrame == SynAckInv /\ UNCHANGED synAckVars => SynAckInv'
BY SMT DEF SynAckInv, synAckVars, FromServer

\* Every step keeps it when the server does not speak first.
LEMMA SynAckStep ==
    ASSUME "server_first" \notin events,
           TypeOK, ControlInv, CaptureInv, SynAckInv, [Next]_vars
    PROVE  SynAckInv'
<1>1. ASSUME \/ RecvRequest \/ Parse \/ Resolve \/ Spawn \/ WaitReady \/ Connect
             \/ ConnectReturns \/ Setup \/ StopSniffer \/ JoinStopped \/ FailClient
             \/ Established \/ Choose \/ JoinCaptured \/ RecvHello \/ Attack
             \/ SendSync \/ Forward \/ RelayEnds \/ SniffStart \/ SniffIdle
             \/ SniffTimedOut \/ SniffBreak \/ ProfileChange \/ Tick \/ Refuse \/ UNCHANGED vars
      PROVE  SynAckInv'
  <2>1. UNCHANGED synAckVars
    BY Zenon, <1>1 DEF synAckVars, RecvRequest, Parse, Resolve, Spawn, WaitReady, Connect,
       ConnectReturns, Setup, StopSniffer, JoinStopped, FailClient, Established, Choose,
       JoinCaptured, RecvHello, Attack, SendSync, Forward, RelayEnds, SniffStart,
       SniffIdle, SniffTimedOut, SniffBreak, SniffReturn, ProfileChange, Tick, Refuse,
       vars, sniffer, network, shared
  <2>2. QED
    BY <2>1, SynAckFrame
<1>2. ASSUME SniffCheck PROVE SynAckInv'
  <2>1. UNCHANGED <<rawq, packets, port>>
    BY Zenon, <1>2 DEF SniffCheck, network
  <2>2. sniffed' = sniffed \/ sniffed' = packets[port]
    BY SMT, <1>2 DEF SniffCheck, SniffReturn, CaptureInv
  <2>3. QED
    BY SMT, <2>1, <2>2 DEF SynAckInv, FromServer
<1>3. ASSUME SniffPacket PROVE SynAckInv'
  <2>1. UNCHANGED port
    BY Zenon, <1>3 DEF SniffPacket
  <2>2. rawq # <<>> /\ rawq' = Tail(rawq)
    BY Zenon, <1>3 DEF SniffPacket
  <2>3. /\ \A i \in 1..Len(rawq') : rawq'[i] = rawq[i + 1] /\ i + 1 \in 1..Len(rawq)
        /\ Head(rawq) = rawq[1] /\ 1 \in 1..Len(rawq)
    BY SMT, <2>2 DEF TypeOK
  <2>4. \A i \in 1..Len(rawq') :
           FromServer(rawq'[i]) /\ rawq'[i].port = port => rawq'[i].kind = "synack"
    BY SMT, <2>3 DEF SynAckInv
  <2> DEFINE pkt == Head(rawq)
  <2>5. FromServer(pkt) /\ pkt.port = port => pkt.kind = "synack"
    BY SMT, <2>3 DEF SynAckInv
  <2>6. packets' \in {packets, [packets EXCEPT ![pkt.port] = pkt]}
        /\ (packets' # packets => FromServer(pkt))
    BY Zenon, <1>3 DEF SniffPacket
  <2>7. packets'[port] # NoPacket => packets'[port].kind = "synack"
    BY SMT, <2>5, <2>6 DEF SynAckInv, TypeOK
  <2>8. sniffed' = sniffed \/ (sniffed' = pkt /\ FromServer(pkt) /\ pkt.port = port)
    BY SMT, <1>3 DEF SniffPacket, SniffReturn, ToOurPort, CaptureInv
  <2>9. QED
    BY SMT, <2>1, <2>4, <2>5, <2>7, <2>8 DEF SynAckInv, FromServer
<1>4. ASSUME SynAck \/ Arrive PROVE SynAckInv'
  <2>1. UNCHANGED <<packets, sniffed, port>>
    BY Zenon, <1>4 DEF SynAck, Arrive, sniffer, shared
  <2>2. PICK pkt \in Packet : /\ rawq' \in {rawq, Append(rawq, pkt)}
                              /\ FromServer(pkt) /\ pkt.port = port => pkt.kind = "synack"
    <3>1. CASE SynAck
      <4> DEFINE p == [from |-> "server", port |-> port, kind |-> "synack"]
      <4>1. p \in Packet /\ p.kind = "synack"
        BY SMT DEF Packet, TypeOK
      <4>2. rawq' \in {rawq, Append(rawq, p)}
        BY Zenon, <3>1 DEF SynAck, Deliver
      <4>3. QED
        BY Zenon, <4>1, <4>2
    <3>2. CASE Arrive
      BY SMT, <3>2 DEF Arrive, Deliver, FromServer
    <3>3. QED
      BY <1>4, <3>1, <3>2
  <2>3. \A i \in 1..Len(rawq') : rawq'[i] = pkt \/ (i \in 1..Len(rawq) /\ rawq'[i] = rawq[i])
    BY SMT, <2>2 DEF TypeOK
  <2>4. QED
    BY SMT, <2>1, <2>2, <2>3 DEF SynAckInv, FromServer
<1>5. QED
  BY Zenon, <1>1, <1>2, <1>3, <1>4 DEF Next, SetupStep, SnifferStep

\* How the result changes hands: a sniffer that was not told to stop returns 0
\* only with a packet, and the client attacks only after joining such a sniffer.
HandoffInv ==
    /\ spc \in {"off", "start"} => ~ready
    /\ joinable /\ pc # "wait" => ready
    /\ ~flag => pc \in {"joinstop", "error"} \cup Returned
    /\ spc = "done" /\ ready /\ flag /\ status = 0 => sniffed # NoPacket
    /\ pc \in {"hello", "attack"} => sniffed # NoPacket
    /\ sent = "desync" => attack = [from |-> "server", port |-> port, kind |-> "synack"]

\* The initial state satisfies it.
LEMMA HandoffInit == Init => HandoffInv
BY Zenon DEF Init, HandoffInv

\* Every step keeps it when polling does not fail.
LEMMA HandoffStep ==
    ASSUME "poll_error" \notin events,
           TypeOK, ControlInv, CaptureInv, JoinedInv, SynAckInv, HandoffInv, [Next]_vars
    PROVE  HandoffInv'
<1> USE DEF HandoffInv, Returned, client, network, shared, sniffer
<1>1. ASSUME RecvRequest PROVE HandoffInv'
  BY SMT, <1>1 DEF RecvRequest, GoTo, ReturnSilently, Return
<1>2. ASSUME Parse PROVE HandoffInv'
  BY SMT, <1>2 DEF Parse, Throws, GoTo, ReturnError, ReturnSilently, Return
<1>3. ASSUME Resolve PROVE HandoffInv'
  BY SMT, <1>3 DEF Resolve, Throws, GoTo, ReturnError, Return
<1>4. ASSUME Spawn PROVE HandoffInv'
  BY SMT, <1>4 DEF Spawn, GoTo, ControlInv, ThreadInv, BeforeSpawn
<1>5. ASSUME WaitReady PROVE HandoffInv'
  BY Zenon, <1>5 DEF WaitReady, GoTo
<1>6. ASSUME Connect PROVE HandoffInv'
  BY SMT, <1>6 DEF Connect, GoTo
<1>7. ASSUME ConnectReturns PROVE HandoffInv'
  BY SMT, <1>7 DEF ConnectReturns, GoTo
<1>8. ASSUME Setup PROVE HandoffInv'
  BY SMT, <1>8 DEF Setup, GoTo
<1>9. ASSUME StopSniffer PROVE HandoffInv'
  BY SMT, <1>9 DEF StopSniffer, GoTo
<1>10. ASSUME JoinStopped PROVE HandoffInv'
  BY Zenon, <1>10 DEF JoinStopped, JoinSniffer
<1>11. ASSUME FailClient PROVE HandoffInv'
  BY Zenon, <1>11 DEF FailClient, ReturnError, Return
<1>12. ASSUME Established PROVE HandoffInv'
  BY SMT, <1>12 DEF Established, GoTo, ReturnSilently, Return
<1>13. ASSUME Choose PROVE HandoffInv'
  BY SMT, <1>13 DEF Choose, GoTo
<1>14. ASSUME JoinCaptured PROVE HandoffInv'
  <2>1. joinable /\ spc = "done" /\ ready /\ flag
    BY Zenon, <1>14 DEF JoinCaptured, JoinSniffer, JoinedInv, Sniffing
  <2>2. status = 0 \/ status = -1
    BY SMT DEF TypeOK
  <2>3. pc' \in {"hello", "error"} /\ (pc' = "hello" => status # -1)
    BY Zenon, <1>14 DEF JoinCaptured, JoinSniffer
  <2>4. QED
    BY Zenon, <1>14, <2>1, <2>2, <2>3 DEF JoinCaptured, JoinSniffer
<1>15. ASSUME RecvHello PROVE HandoffInv'
  BY SMT, <1>15 DEF RecvHello, GoTo, ReturnSilently, Return
<1>16. ASSUME Attack PROVE HandoffInv'
  <2>1. sniffed # NoPacket /\ FromServer(sniffed) /\ sniffed.port = port /\ sniffed.kind = "synack"
    BY SMT, <1>16 DEF Attack, CaptureInv, CaptureMatchesPort, SynAckInv
  <2>2. sniffed \in Packet
    BY Zenon, <2>1 DEF TypeOK
  <2>3. sniffed = [from |-> "server", port |-> port, kind |-> "synack"]
    BY SMT, <2>1, <2>2 DEF Packet, FromServer
  <2>4. QED
    BY Zenon, <1>16, <2>3 DEF Attack
<1>17. ASSUME SendSync PROVE HandoffInv'
  BY SMT, <1>17 DEF SendSync, GoTo
<1>18. ASSUME Forward PROVE HandoffInv'
  BY SMT, <1>18 DEF Forward, GoTo
<1>19. ASSUME RelayEnds PROVE HandoffInv'
  BY Zenon, <1>19 DEF RelayEnds, ReturnSilently, Return
<1>20. ASSUME SniffStart PROVE HandoffInv'
  BY SMT, <1>20 DEF SniffStart
<1>21. ASSUME SniffCheck PROVE HandoffInv'
  BY Zenon, <1>21 DEF SniffCheck, SniffReturn
<1>22. ASSUME SniffTimedOut PROVE HandoffInv'
  <2>1. status' # 0
    BY SMT, <1>22 DEF SniffTimedOut, SniffReturn
  <2>2. QED
    BY Zenon, <1>22, <2>1 DEF SniffTimedOut, SniffReturn, ControlInv, FdInv
<1>23. ASSUME SniffIdle PROVE HandoffInv'
  BY Zenon, <1>23 DEF SniffIdle
<1>24. ASSUME SniffBreak PROVE HandoffInv'
  BY Zenon, <1>24 DEF SniffBreak, SniffReturn
<1>25. ASSUME SniffPacket PROVE HandoffInv'
  <2>1. sniffed' \in {sniffed, Head(rawq)} /\ (spc' = "done" => sniffed' = Head(rawq))
    BY Zenon, <1>25 DEF SniffPacket, SniffReturn
  <2>2. Head(rawq) # NoPacket
    BY SMT, <1>25 DEF SniffPacket, TypeOK, Packet, NoPacket
  <2>3. QED
    BY Zenon, <1>25, <2>1, <2>2 DEF SniffPacket, SniffReturn, ControlInv, FdInv
<1>26. ASSUME ProfileChange PROVE HandoffInv'
  BY Zenon, <1>26 DEF ProfileChange, change_profile
<1>27. ASSUME Tick PROVE HandoffInv'
  BY Zenon, <1>27 DEF Tick
<1>28. ASSUME SynAck PROVE HandoffInv'
  BY Zenon, <1>28 DEF SynAck
<1>29. ASSUME Refuse PROVE HandoffInv'
  BY Zenon, <1>29 DEF Refuse
<1>30. ASSUME Arrive PROVE HandoffInv'
  BY Zenon, <1>30 DEF Arrive
<1>31. ASSUME UNCHANGED vars PROVE HandoffInv'
  BY Zenon, <1>31 DEF vars
<1>32. QED
  BY Zenon, <1>1, <1>2, <1>3, <1>4, <1>5, <1>6, <1>7, <1>8, <1>9, <1>10, <1>11, <1>12,
       <1>13, <1>14, <1>15, <1>16, <1>17, <1>18, <1>19, <1>20, <1>21, <1>22, <1>23,
       <1>24, <1>25, <1>26, <1>27, <1>28, <1>29, <1>30, <1>31
  DEF Next, SetupStep, SnifferStep


\* The attack takes its sequence numbers from this connection's SYN,ACK
\* (AttackUsesSynAck) in every interleaving of publishing the port, reading
\* packets and the timeout, even when the raw socket loses packets or cannot be
\* opened, provided none of the three named faults occurs; each of the three
\* breaks it.
THEOREM AttackIsWellFounded == Spec => []AttackUsesSynAck
<1> DEFINE Quiet  == events \cap {"profile_change", "server_first", "poll_error"} = {}
           Inner  == JoinedInv /\ SynAckInv /\ HandoffInv
           Inv    == CaptureInv /\ (Quiet => Inner)
<1>1. Init => Inv
  BY JoinedInit, CaptureInit, SynAckInit, HandoffInit
<1>2. ASSUME TypeOK, ControlInv, Inv, [Next]_vars PROVE Inv'
  <2>1. events' = events
    BY <1>2, EventsFixed
  <2>2. CaptureInv'
    BY <1>2, CaptureStep
  <2>3. ASSUME Quiet PROVE Inner'
    <3>1. "profile_change" \notin events /\ "server_first" \notin events
          /\ "poll_error" \notin events
      BY <2>3
    <3>2. QED
      BY <1>2, <2>3, <3>1, JoinedStep, SynAckStep, HandoffStep
  <2>4. QED
    BY <2>1, <2>2, <2>3
<1>3. Inv => AttackUsesSynAck
  BY Zenon DEF HandoffInv, AttackUsesSynAck
<1> HIDE DEF Inv
<1>4. QED
  BY TypeCorrect, ControlHolds, <1>1, <1>2, <1>3, PTL DEF Spec
=============================================================================
