---------------------------- MODULE ServerProofs ----------------------------
(***************************************************************************)
(* Theorems about Server, for every number of clients, with and without a  *)
(* route monitor, for every number of signals and under all its faults.    *)
(***************************************************************************)
EXTENDS Server, TLAPS

-----------------------------------------------------------------------------
(* Type correctness.                                                       *)

Switches == stop_flag \in BOOLEAN /\ race \in BOOLEAN

\* A step keeps stop_flag and race Boolean.
LEMMA SwitchesStep == ASSUME Switches, [Next]_vars PROVE Switches'
<1> USE DEF Switches
<1>1. ASSUME CloseRead PROVE Switches'
  BY Zenon, <1>1 DEF CloseRead
<1>2. ASSUME CloseWrite PROVE Switches'
  BY Zenon, <1>2 DEF CloseWrite
<1>3. ASSUME AcceptCheck PROVE Switches'
  BY Zenon, <1>3 DEF AcceptCheck, Acceptor
<1>4. ASSUME AcceptEnter PROVE Switches'
  BY Zenon, <1>4 DEF AcceptEnter, Acceptor, Enter
<1>5. ASSUME AcceptInterrupted PROVE Switches'
  BY Zenon, <1>5 DEF AcceptInterrupted, Acceptor
<1>6. ASSUME SpawnWorker PROVE Switches'
  BY Zenon, <1>6 DEF SpawnWorker, Acceptor
<1>7. ASSUME EmplaceWorker PROVE Switches'
  BY Zenon, <1>7 DEF EmplaceWorker, Acceptor
<1>8. ASSUME StartWorker PROVE Switches'
  BY Zenon, <1>8 DEF StartWorker, Acceptor
<1>9. ASSUME JoinNext PROVE Switches'
  BY Zenon, <1>9 DEF JoinNext, Acceptor
<1>10. ASSUME JoinReturns PROVE Switches'
  BY Zenon, <1>10 DEF JoinReturns, Acceptor
<1>11. ASSUME MonitorInit PROVE Switches'
  BY Zenon, <1>11 DEF MonitorInit, RouteMonitor
<1>12. ASSUME MonitorCheck PROVE Switches'
  BY Zenon, <1>12 DEF MonitorCheck, RouteMonitor
<1>13. ASSUME MonitorEnter PROVE Switches'
  BY Zenon, <1>13 DEF MonitorEnter, RouteMonitor, Enter
<1>14. ASSUME MonitorInterrupted PROVE Switches'
  BY Zenon, <1>14 DEF MonitorInterrupted, RouteMonitor
<1>15. ASSUME MonitorClose PROVE Switches'
  BY Zenon, <1>15 DEF MonitorClose, RouteMonitor
<1>16. ASSUME MainJoinsAccept PROVE Switches'
  BY Zenon, <1>16 DEF MainJoinsAccept, Main
<1>17. ASSUME MainJoinsMonitor PROVE Switches'
  BY Zenon, <1>17 DEF MainJoinsMonitor, Main
<1>18. ASSUME Signal PROVE Switches'
  BY Zenon, <1>18 DEF Signal
<1>19. ASSUME AcceptFails PROVE Switches'
  BY Zenon, <1>19 DEF AcceptFails, Acceptor
<1>20. ASSUME IterationDerails PROVE Switches'
  BY Zenon, <1>20 DEF IterationDerails
<1>21. ASSUME MonitorTraffic PROVE Switches'
  BY Zenon, <1>21 DEF MonitorTraffic, RouteMonitor
<1>22. ASSUME NEW w \in Workers, AcceptClient(w) PROVE Switches'
  BY Zenon, <1>22 DEF AcceptClient, Acceptor
<1>23. ASSUME NEW w \in Workers, WorkerTraffic(w) PROVE Switches'
  BY Zenon, <1>23 DEF WorkerTraffic, Worker, Goto
<1>24. ASSUME NEW w \in Workers, WorkerSetup(w) PROVE Switches'
  BY Zenon, <1>24 DEF WorkerSetup, Worker, Goto
<1>25. ASSUME NEW w \in Workers, WorkerCheck(w) PROVE Switches'
  BY Zenon, <1>25 DEF WorkerCheck, Worker, Goto
<1>26. ASSUME NEW w \in Workers, WorkerEnter(w) PROVE Switches'
  BY Zenon, <1>26 DEF WorkerEnter, Worker, Goto, Enter
<1>27. ASSUME NEW w \in Workers, WorkerInterrupted(w) PROVE Switches'
  BY Zenon, <1>27 DEF WorkerInterrupted, Worker, Goto
<1>28. ASSUME NEW w \in Workers, WorkerClose(w) PROVE Switches'
  BY Zenon, <1>28 DEF WorkerClose, Worker, Goto
<1>29. ASSUME NEW w \in Workers, WorkerLock(w) PROVE Switches'
  BY Zenon, <1>29 DEF WorkerLock, Worker, Goto
<1>30. ASSUME NEW w \in Workers, WorkerErase(w) PROVE Switches'
  BY Zenon, <1>30 DEF WorkerErase, Worker, Goto
<1>31. ASSUME UNCHANGED vars PROVE Switches'
  BY Zenon, <1>31 DEF vars
<1>32. QED
  BY Zenon, <1>1, <1>2, <1>3, <1>4, <1>5, <1>6, <1>7, <1>8, <1>9, <1>10,
     <1>11, <1>12, <1>13, <1>14, <1>15, <1>16, <1>17, <1>18, <1>19, <1>20,
     <1>21, <1>22, <1>23, <1>24, <1>25, <1>26, <1>27, <1>28, <1>29, <1>30,
     <1>31 DEF Next, Handler, Accept, Watch, Quit, Gone, Environment, Serve

\* A socket that is opened gets a number that names it; closing frees numbers.
LEMMA DescriptorFacts ==
    ASSUME fd \in [0..1 -> Files]
    PROVE  /\ \A x \in Sockets : Opened(x) \in [0..1 -> Files]
           /\ \A S : Closes(S) => fd' \in [0..1 -> Files]
BY SMT DEF Opened, Closes, Closed, Files

\* Changing one value of a function keeps its type.
LEMMA ExceptType ==
    ASSUME NEW S, NEW T, NEW f \in [S -> T], NEW x, NEW t \in T
    PROVE  [f EXCEPT ![x] = t] \in [S -> T]
BY Zenon

\* The types, apart from who holds the lock.
Types ==
    /\ fd \in [0..1 -> Files]
    /\ mpc \in {"join_accept", "join_monitor", "returned", "crashed"}
    /\ hpc \in {"idle", "close_read", "close_write"}
    /\ signals \in 0..MaxSignals
    /\ apc \in {"check", "enter", "poll", "spawn", "emplace", "start", "done"} \cup Iterating
    /\ cur \in Workers \cup {NoWorker}
    /\ wpc \in [Workers -> {"none", "starter", "lock", "erase", "ended"} \cup InCycle]
    /\ rpc \in {"init", "check", "enter", "poll", "close", "ended"}
    /\ watch \in [Pollers -> Files]
    /\ handle \in [Workers -> {"none", "joinable", "joined", "detached"}]
    /\ mutex \in Workers \cup {NoWorker}

\* Every step keeps the types.
LEMMA TypesStep == ASSUME Types, [Next]_vars PROVE Types'
<1> USE SignalsAssumption, DescriptorFacts DEF Types, Iterating, InCycle
<1>1. ASSUME CloseRead PROVE Types'
  BY SMT, <1>1 DEF CloseRead, Files, Sockets, Pollers
<1>2. ASSUME CloseWrite PROVE Types'
  BY SMT, <1>2 DEF CloseWrite, Files, Sockets, Pollers
<1>3. ASSUME AcceptCheck PROVE Types'
  BY SMT, <1>3 DEF AcceptCheck, Acceptor, Files, Sockets, Pollers
<1>4. ASSUME AcceptEnter PROVE Types'
  BY SMT, <1>4 DEF AcceptEnter, Acceptor, Enter, Files, Sockets, Pollers
<1>5. ASSUME AcceptInterrupted PROVE Types'
  BY SMT, <1>5 DEF AcceptInterrupted, Acceptor, Returns, Files, Sockets, Pollers
<1>6. ASSUME SpawnWorker PROVE Types'
  <2>1. wpc' \in [Workers -> {"none", "starter", "lock", "erase", "ended"} \cup InCycle]
    BY Zenon, <1>6, ExceptType DEF SpawnWorker
  <2>2. QED
    BY SMT, <1>6, <2>1 DEF SpawnWorker, Acceptor
<1>7. ASSUME EmplaceWorker PROVE Types'
  <2>1. handle' \in [Workers -> {"none", "joinable", "joined", "detached"}]
    BY Zenon, <1>7, ExceptType DEF EmplaceWorker
  <2>2. QED
    BY SMT, <1>7, <2>1 DEF EmplaceWorker, Acceptor
<1>8. ASSUME StartWorker PROVE Types'
  <2>1. wpc' \in [Workers -> {"none", "starter", "lock", "erase", "ended"} \cup InCycle]
    BY Zenon, <1>8, ExceptType DEF StartWorker
  <2>2. QED
    BY SMT, <1>8, <2>1 DEF StartWorker, Acceptor
<1>9. ASSUME JoinNext PROVE Types'
  BY SMT, <1>9 DEF JoinNext, Acceptor, Files, Sockets, Pollers
<1>10. ASSUME JoinReturns PROVE Types'
  <2>1. handle' \in [Workers -> {"none", "joinable", "joined", "detached"}]
    
      <3>1. handle[cur] = "joinable" \/ handle[cur] # "joinable"
        OBVIOUS
      <3>2. QED
        BY Zenon, <1>10, <3>1, ExceptType DEF JoinReturns
  <2>2. QED
    BY SMT, <1>10, <2>1 DEF JoinReturns, Acceptor
<1>11. ASSUME MonitorInit PROVE Types'
  BY SMT, <1>11 DEF MonitorInit, RouteMonitor, Files, Sockets, Pollers
<1>12. ASSUME MonitorCheck PROVE Types'
  BY SMT, <1>12 DEF MonitorCheck, RouteMonitor, Files, Sockets, Pollers
<1>13. ASSUME MonitorEnter PROVE Types'
  BY SMT, <1>13 DEF MonitorEnter, RouteMonitor, Enter, Files, Sockets, Pollers
<1>14. ASSUME MonitorInterrupted PROVE Types'
  BY SMT, <1>14 DEF MonitorInterrupted, RouteMonitor, Returns, Files, Sockets, Pollers
<1>15. ASSUME MonitorClose PROVE Types'
  BY SMT, <1>15 DEF MonitorClose, RouteMonitor, Files, Sockets, Pollers
<1>16. ASSUME MainJoinsAccept PROVE Types'
  BY SMT, <1>16 DEF MainJoinsAccept, Main, Files, Sockets, Pollers
<1>17. ASSUME MainJoinsMonitor PROVE Types'
  BY SMT, <1>17 DEF MainJoinsMonitor, Main, Files, Sockets, Pollers
<1>18. ASSUME Signal PROVE Types'
  BY SMT, <1>18 DEF Signal, Files, Sockets, Pollers
<1>19. ASSUME AcceptFails PROVE Types'
  BY SMT, <1>19 DEF AcceptFails, Acceptor, Returns, Files, Sockets, Pollers
<1>20. ASSUME IterationDerails PROVE Types'
  BY SMT, <1>20 DEF IterationDerails, Files, Sockets, Pollers
<1>21. ASSUME MonitorTraffic PROVE Types'
  BY SMT, <1>21 DEF MonitorTraffic, RouteMonitor, Returns, Files, Sockets, Pollers
<1>22. ASSUME NEW w \in Workers, AcceptClient(w) PROVE Types'
  BY SMT, <1>22 DEF AcceptClient, Acceptor, Returns, Files, Sockets, Pollers
<1>23. ASSUME NEW w \in Workers, WorkerTraffic(w) PROVE Types'
  BY SMT, <1>23 DEF WorkerTraffic, Worker, Goto, Returns, Files, Sockets, Pollers
<1>24. ASSUME NEW w \in Workers, WorkerSetup(w) PROVE Types'
  BY SMT, <1>24 DEF WorkerSetup, Worker, Goto, Files, Sockets, Pollers
<1>25. ASSUME NEW w \in Workers, WorkerCheck(w) PROVE Types'
  BY SMT, <1>25 DEF WorkerCheck, Worker, Goto, Files, Sockets, Pollers
<1>26. ASSUME NEW w \in Workers, WorkerEnter(w) PROVE Types'
  BY SMT, <1>26 DEF WorkerEnter, Worker, Goto, Enter, Files, Sockets, Pollers
<1>27. ASSUME NEW w \in Workers, WorkerInterrupted(w) PROVE Types'
  BY SMT, <1>27 DEF WorkerInterrupted, Worker, Goto, Returns, Files, Sockets, Pollers
<1>28. ASSUME NEW w \in Workers, WorkerClose(w) PROVE Types'
  BY SMT, <1>28 DEF WorkerClose, Worker, Goto, Files, Sockets, Pollers
<1>29. ASSUME NEW w \in Workers, WorkerLock(w) PROVE Types'
  BY SMT, <1>29 DEF WorkerLock, Worker, Goto, Files, Sockets, Pollers
<1>30. ASSUME NEW w \in Workers, WorkerErase(w) PROVE Types'
  BY SMT, <1>30 DEF WorkerErase, Worker, Goto, Files, Sockets, Pollers
<1>31. ASSUME UNCHANGED vars PROVE Types'
  BY SMT, <1>31 DEF vars, Files, Sockets, Pollers
<1>32. QED
  BY Zenon, <1>1, <1>2, <1>3, <1>4, <1>5, <1>6, <1>7, <1>8, <1>9, <1>10,
     <1>11, <1>12, <1>13, <1>14, <1>15, <1>16, <1>17, <1>18, <1>19, <1>20,
     <1>21, <1>22, <1>23, <1>24, <1>25, <1>26, <1>27, <1>28, <1>29, <1>30,
     <1>31 DEF Next, Handler, Accept, Watch, Quit, Gone, Environment, Serve

-----------------------------------------------------------------------------
(* Who is registered in Threads.                                           *)

\* The client thread that accept_client_cycle is creating.
Creating ==
    /\ apc = "spawn" => cur \in Workers /\ wpc[cur] = "none"
    /\ apc = "emplace" => cur \in Workers /\ wpc[cur] = "starter"
    /\ apc = "start" => cur \in Workers /\ wpc[cur] = "starter" /\ handle[cur] = "joinable"
    /\ \A w \in Workers : wpc[w] = "starter" => apc \in {"emplace", "start"} /\ cur = w

\* Where a client thread is, and the state of its std::thread.
Registered ==
    \A w \in Workers :
        /\ wpc[w] = "none" => handle[w] = "none"
        /\ wpc[w] \in InCycle \cup {"lock", "erase"} => handle[w] = "joinable"
        /\ wpc[w] = "ended" => handle[w] \in {"joined", "detached"} \/ (handle[w] = "joinable" /\ stop_flag)

Lock == \A w \in Workers : mutex = w <=> wpc[w] = "erase"

\* What accept_client_cycle leaves behind.
AllJoined == \A w \in Workers : wpc[w] \in {"none", "ended"} /\ handle[w] # "joinable"
Leaving ==
    /\ apc = "done" /\ ~race => AllJoined
    /\ mpc \in {"join_monitor", "returned"} => apc = "done"

TrackInv == Switches /\ Types /\ Lock /\ Creating /\ Registered /\ Leaving

\* Threads_map_mutex is held exactly by the thread between WorkerLock and
\* WorkerErase.
LEMMA LockStep == ASSUME TrackInv, [Next]_vars PROVE Lock'
<1> USE DEF TrackInv, Switches, Types, Lock, Creating, Iterating, InCycle
<1>1. ASSUME CloseRead PROVE Lock'
  BY SMT, <1>1, WorkersAssumption DEF CloseRead
<1>2. ASSUME CloseWrite PROVE Lock'
  BY SMT, <1>2, WorkersAssumption DEF CloseWrite
<1>3. ASSUME AcceptCheck PROVE Lock'
  BY SMT, <1>3, WorkersAssumption DEF AcceptCheck, Acceptor
<1>4. ASSUME AcceptEnter PROVE Lock'
  BY SMT, <1>4, WorkersAssumption DEF AcceptEnter, Acceptor, Enter
<1>5. ASSUME AcceptInterrupted PROVE Lock'
  BY SMT, <1>5, WorkersAssumption DEF AcceptInterrupted, Acceptor
<1>6. ASSUME SpawnWorker PROVE Lock'
  BY SMT, <1>6, WorkersAssumption DEF SpawnWorker, Acceptor
<1>7. ASSUME EmplaceWorker PROVE Lock'
  BY SMT, <1>7, WorkersAssumption DEF EmplaceWorker, Acceptor
<1>8. ASSUME StartWorker PROVE Lock'
  BY SMT, <1>8, WorkersAssumption DEF StartWorker, Acceptor
<1>9. ASSUME JoinNext PROVE Lock'
  BY SMT, <1>9, WorkersAssumption DEF JoinNext, Acceptor
<1>10. ASSUME JoinReturns PROVE Lock'
  BY SMT, <1>10, WorkersAssumption DEF JoinReturns, Acceptor
<1>11. ASSUME MonitorInit PROVE Lock'
  BY SMT, <1>11, WorkersAssumption DEF MonitorInit, RouteMonitor
<1>12. ASSUME MonitorCheck PROVE Lock'
  BY SMT, <1>12, WorkersAssumption DEF MonitorCheck, RouteMonitor
<1>13. ASSUME MonitorEnter PROVE Lock'
  BY SMT, <1>13, WorkersAssumption DEF MonitorEnter, RouteMonitor, Enter
<1>14. ASSUME MonitorInterrupted PROVE Lock'
  BY SMT, <1>14, WorkersAssumption DEF MonitorInterrupted, RouteMonitor
<1>15. ASSUME MonitorClose PROVE Lock'
  BY SMT, <1>15, WorkersAssumption DEF MonitorClose, RouteMonitor
<1>16. ASSUME MainJoinsAccept PROVE Lock'
  BY SMT, <1>16, WorkersAssumption DEF MainJoinsAccept, Main
<1>17. ASSUME MainJoinsMonitor PROVE Lock'
  BY SMT, <1>17, WorkersAssumption DEF MainJoinsMonitor, Main
<1>18. ASSUME Signal PROVE Lock'
  BY SMT, <1>18, WorkersAssumption DEF Signal
<1>19. ASSUME AcceptFails PROVE Lock'
  BY SMT, <1>19, WorkersAssumption DEF AcceptFails, Acceptor
<1>20. ASSUME IterationDerails PROVE Lock'
  BY SMT, <1>20, WorkersAssumption DEF IterationDerails
<1>21. ASSUME MonitorTraffic PROVE Lock'
  BY SMT, <1>21, WorkersAssumption DEF MonitorTraffic, RouteMonitor
<1>22. ASSUME NEW w \in Workers, AcceptClient(w) PROVE Lock'
  BY SMT, <1>22, WorkersAssumption DEF AcceptClient, Acceptor
<1>23. ASSUME NEW w \in Workers, WorkerTraffic(w) PROVE Lock'
  BY SMT, <1>23, WorkersAssumption DEF WorkerTraffic, Worker, Goto
<1>24. ASSUME NEW w \in Workers, WorkerSetup(w) PROVE Lock'
  BY SMT, <1>24, WorkersAssumption DEF WorkerSetup, Worker, Goto
<1>25. ASSUME NEW w \in Workers, WorkerCheck(w) PROVE Lock'
  BY SMT, <1>25, WorkersAssumption DEF WorkerCheck, Worker, Goto
<1>26. ASSUME NEW w \in Workers, WorkerEnter(w) PROVE Lock'
  BY SMT, <1>26, WorkersAssumption DEF WorkerEnter, Worker, Goto, Enter
<1>27. ASSUME NEW w \in Workers, WorkerInterrupted(w) PROVE Lock'
  BY SMT, <1>27, WorkersAssumption DEF WorkerInterrupted, Worker, Goto
<1>28. ASSUME NEW w \in Workers, WorkerClose(w) PROVE Lock'
  BY SMT, <1>28, WorkersAssumption DEF WorkerClose, Worker, Goto
<1>29. ASSUME NEW w \in Workers, WorkerLock(w) PROVE Lock'
  BY SMT, <1>29, WorkersAssumption DEF WorkerLock, Worker, Goto
<1>30. ASSUME NEW w \in Workers, WorkerErase(w) PROVE Lock'
  BY SMT, <1>30, WorkersAssumption DEF WorkerErase, Worker, Goto
<1>31. ASSUME UNCHANGED vars PROVE Lock'
  BY SMT, <1>31, WorkersAssumption DEF vars
<1>32. QED
  BY Zenon, <1>1, <1>2, <1>3, <1>4, <1>5, <1>6, <1>7, <1>8, <1>9, <1>10,
     <1>11, <1>12, <1>13, <1>14, <1>15, <1>16, <1>17, <1>18, <1>19, <1>20,
     <1>21, <1>22, <1>23, <1>24, <1>25, <1>26, <1>27, <1>28, <1>29, <1>30,
     <1>31 DEF Next, Handler, Accept, Watch, Quit, Gone, Environment, Serve

\* A client thread waits for thread_starter until it has been registered.
LEMMA CreatingStep == ASSUME TrackInv, [Next]_vars PROVE Creating'
<1> USE DEF TrackInv, Switches, Types, Creating, Registered, Iterating, InCycle
<1>1. ASSUME CloseRead PROVE Creating'
  BY SMT, <1>1 DEF CloseRead
<1>2. ASSUME CloseWrite PROVE Creating'
  BY SMT, <1>2 DEF CloseWrite
<1>3. ASSUME AcceptCheck PROVE Creating'
  BY SMT, <1>3 DEF AcceptCheck, Acceptor
<1>4. ASSUME AcceptEnter PROVE Creating'
  BY SMT, <1>4 DEF AcceptEnter, Acceptor, Enter
<1>5. ASSUME AcceptInterrupted PROVE Creating'
  BY SMT, <1>5 DEF AcceptInterrupted, Acceptor
<1>6. ASSUME SpawnWorker PROVE Creating'
  BY SMT, <1>6 DEF SpawnWorker, Acceptor
<1>7. ASSUME EmplaceWorker PROVE Creating'
  BY SMT, <1>7 DEF EmplaceWorker, Acceptor
<1>8. ASSUME StartWorker PROVE Creating'
  BY SMT, <1>8 DEF StartWorker, Acceptor
<1>9. ASSUME JoinNext PROVE Creating'
  BY SMT, <1>9 DEF JoinNext, Acceptor
<1>10. ASSUME JoinReturns PROVE Creating'
  BY SMT, <1>10 DEF JoinReturns, Acceptor
<1>11. ASSUME MonitorInit PROVE Creating'
  BY SMT, <1>11 DEF MonitorInit, RouteMonitor
<1>12. ASSUME MonitorCheck PROVE Creating'
  BY SMT, <1>12 DEF MonitorCheck, RouteMonitor
<1>13. ASSUME MonitorEnter PROVE Creating'
  BY SMT, <1>13 DEF MonitorEnter, RouteMonitor, Enter
<1>14. ASSUME MonitorInterrupted PROVE Creating'
  BY SMT, <1>14 DEF MonitorInterrupted, RouteMonitor
<1>15. ASSUME MonitorClose PROVE Creating'
  BY SMT, <1>15 DEF MonitorClose, RouteMonitor
<1>16. ASSUME MainJoinsAccept PROVE Creating'
  BY SMT, <1>16 DEF MainJoinsAccept, Main
<1>17. ASSUME MainJoinsMonitor PROVE Creating'
  BY SMT, <1>17 DEF MainJoinsMonitor, Main
<1>18. ASSUME Signal PROVE Creating'
  BY SMT, <1>18 DEF Signal
<1>19. ASSUME AcceptFails PROVE Creating'
  BY SMT, <1>19 DEF AcceptFails, Acceptor
<1>20. ASSUME IterationDerails PROVE Creating'
  BY SMT, <1>20 DEF IterationDerails
<1>21. ASSUME MonitorTraffic PROVE Creating'
  BY SMT, <1>21 DEF MonitorTraffic, RouteMonitor
<1>22. ASSUME NEW w \in Workers, AcceptClient(w) PROVE Creating'
  BY SMT, <1>22 DEF AcceptClient, Acceptor
<1>23. ASSUME NEW w \in Workers, WorkerTraffic(w) PROVE Creating'
  BY SMT, <1>23 DEF WorkerTraffic, Worker, Goto
<1>24. ASSUME NEW w \in Workers, WorkerSetup(w) PROVE Creating'
  BY SMT, <1>24 DEF WorkerSetup, Worker, Goto
<1>25. ASSUME NEW w \in Workers, WorkerCheck(w) PROVE Creating'
  BY SMT, <1>25 DEF WorkerCheck, Worker, Goto
<1>26. ASSUME NEW w \in Workers, WorkerEnter(w) PROVE Creating'
  BY SMT, <1>26 DEF WorkerEnter, Worker, Goto, Enter
<1>27. ASSUME NEW w \in Workers, WorkerInterrupted(w) PROVE Creating'
  BY SMT, <1>27 DEF WorkerInterrupted, Worker, Goto
<1>28. ASSUME NEW w \in Workers, WorkerClose(w) PROVE Creating'
  BY SMT, <1>28 DEF WorkerClose, Worker, Goto
<1>29. ASSUME NEW w \in Workers, WorkerLock(w) PROVE Creating'
  BY SMT, <1>29 DEF WorkerLock, Worker, Goto
<1>30. ASSUME NEW w \in Workers, WorkerErase(w) PROVE Creating'
  BY SMT, <1>30 DEF WorkerErase, Worker, Goto
<1>31. ASSUME UNCHANGED vars PROVE Creating'
  BY SMT, <1>31 DEF vars
<1>32. QED
  BY Zenon, <1>1, <1>2, <1>3, <1>4, <1>5, <1>6, <1>7, <1>8, <1>9, <1>10,
     <1>11, <1>12, <1>13, <1>14, <1>15, <1>16, <1>17, <1>18, <1>19, <1>20,
     <1>21, <1>22, <1>23, <1>24, <1>25, <1>26, <1>27, <1>28, <1>29, <1>30,
     <1>31 DEF Next, Handler, Accept, Watch, Quit, Gone, Environment, Serve

\* A client thread is registered from before it starts until it removes itself.
LEMMA RegisteredStep == ASSUME TrackInv, [Next]_vars PROVE Registered'
<1> USE DEF TrackInv, Switches, Types, Creating, Registered, Iterating, InCycle
<1>1. ASSUME CloseRead PROVE Registered'
  BY SMT, <1>1 DEF CloseRead
<1>2. ASSUME CloseWrite PROVE Registered'
  BY SMT, <1>2 DEF CloseWrite
<1>3. ASSUME AcceptCheck PROVE Registered'
  BY SMT, <1>3 DEF AcceptCheck, Acceptor
<1>4. ASSUME AcceptEnter PROVE Registered'
  BY SMT, <1>4 DEF AcceptEnter, Acceptor, Enter
<1>5. ASSUME AcceptInterrupted PROVE Registered'
  BY SMT, <1>5 DEF AcceptInterrupted, Acceptor
<1>6. ASSUME SpawnWorker PROVE Registered'
  BY SMT, <1>6 DEF SpawnWorker, Acceptor
<1>7. ASSUME EmplaceWorker PROVE Registered'
  BY SMT, <1>7 DEF EmplaceWorker, Acceptor
<1>8. ASSUME StartWorker PROVE Registered'
  BY SMT, <1>8 DEF StartWorker, Acceptor
<1>9. ASSUME JoinNext PROVE Registered'
  BY SMT, <1>9 DEF JoinNext, Acceptor
<1>10. ASSUME JoinReturns PROVE Registered'
  BY SMT, <1>10 DEF JoinReturns, Acceptor
<1>11. ASSUME MonitorInit PROVE Registered'
  BY SMT, <1>11 DEF MonitorInit, RouteMonitor
<1>12. ASSUME MonitorCheck PROVE Registered'
  BY SMT, <1>12 DEF MonitorCheck, RouteMonitor
<1>13. ASSUME MonitorEnter PROVE Registered'
  BY SMT, <1>13 DEF MonitorEnter, RouteMonitor, Enter
<1>14. ASSUME MonitorInterrupted PROVE Registered'
  BY SMT, <1>14 DEF MonitorInterrupted, RouteMonitor
<1>15. ASSUME MonitorClose PROVE Registered'
  BY SMT, <1>15 DEF MonitorClose, RouteMonitor
<1>16. ASSUME MainJoinsAccept PROVE Registered'
  BY SMT, <1>16 DEF MainJoinsAccept, Main
<1>17. ASSUME MainJoinsMonitor PROVE Registered'
  BY SMT, <1>17 DEF MainJoinsMonitor, Main
<1>18. ASSUME Signal PROVE Registered'
  BY SMT, <1>18 DEF Signal
<1>19. ASSUME AcceptFails PROVE Registered'
  BY SMT, <1>19 DEF AcceptFails, Acceptor
<1>20. ASSUME IterationDerails PROVE Registered'
  BY SMT, <1>20 DEF IterationDerails
<1>21. ASSUME MonitorTraffic PROVE Registered'
  BY SMT, <1>21 DEF MonitorTraffic, RouteMonitor
<1>22. ASSUME NEW w \in Workers, AcceptClient(w) PROVE Registered'
  BY SMT, <1>22 DEF AcceptClient, Acceptor
<1>23. ASSUME NEW w \in Workers, WorkerTraffic(w) PROVE Registered'
  BY SMT, <1>23 DEF WorkerTraffic, Worker, Goto
<1>24. ASSUME NEW w \in Workers, WorkerSetup(w) PROVE Registered'
  BY SMT, <1>24 DEF WorkerSetup, Worker, Goto
<1>25. ASSUME NEW w \in Workers, WorkerCheck(w) PROVE Registered'
  BY SMT, <1>25 DEF WorkerCheck, Worker, Goto
<1>26. ASSUME NEW w \in Workers, WorkerEnter(w) PROVE Registered'
  BY SMT, <1>26 DEF WorkerEnter, Worker, Goto, Enter
<1>27. ASSUME NEW w \in Workers, WorkerInterrupted(w) PROVE Registered'
  BY SMT, <1>27 DEF WorkerInterrupted, Worker, Goto
<1>28. ASSUME NEW w \in Workers, WorkerClose(w) PROVE Registered'
  BY SMT, <1>28 DEF WorkerClose, Worker, Goto
<1>29. ASSUME NEW w \in Workers, WorkerLock(w) PROVE Registered'
  BY SMT, <1>29 DEF WorkerLock, Worker, Goto
<1>30. ASSUME NEW w \in Workers, WorkerErase(w) PROVE Registered'
  BY SMT, <1>30 DEF WorkerErase, Worker, Goto
<1>31. ASSUME UNCHANGED vars PROVE Registered'
  BY SMT, <1>31 DEF vars
<1>32. QED
  BY Zenon, <1>1, <1>2, <1>3, <1>4, <1>5, <1>6, <1>7, <1>8, <1>9, <1>10,
     <1>11, <1>12, <1>13, <1>14, <1>15, <1>16, <1>17, <1>18, <1>19, <1>20,
     <1>21, <1>22, <1>23, <1>24, <1>25, <1>26, <1>27, <1>28, <1>29, <1>30,
     <1>31 DEF Next, Handler, Accept, Watch, Quit, Gone, Environment, Serve

\* accept_client_cycle ends with every client thread joined.
LEMMA LeavingStep == ASSUME TrackInv, [Next]_vars PROVE Leaving'
<1> USE DEF TrackInv, Switches, Types, Creating, Registered, Leaving, AllJoined,
     Iterating, InCycle
<1>1. ASSUME CloseRead PROVE Leaving'
  BY SMT, <1>1 DEF CloseRead
<1>2. ASSUME CloseWrite PROVE Leaving'
  BY SMT, <1>2 DEF CloseWrite
<1>3. ASSUME AcceptCheck PROVE Leaving'
  BY SMT, <1>3 DEF AcceptCheck, Acceptor
<1>4. ASSUME AcceptEnter PROVE Leaving'
  BY SMT, <1>4 DEF AcceptEnter, Acceptor, Enter
<1>5. ASSUME AcceptInterrupted PROVE Leaving'
  BY SMT, <1>5 DEF AcceptInterrupted, Acceptor
<1>6. ASSUME SpawnWorker PROVE Leaving'
  BY SMT, <1>6 DEF SpawnWorker, Acceptor
<1>7. ASSUME EmplaceWorker PROVE Leaving'
  BY SMT, <1>7 DEF EmplaceWorker, Acceptor
<1>8. ASSUME StartWorker PROVE Leaving'
  BY SMT, <1>8 DEF StartWorker, Acceptor
<1>9. ASSUME JoinNext PROVE Leaving'
  BY SMT, <1>9 DEF JoinNext, Acceptor
<1>10. ASSUME JoinReturns PROVE Leaving'
  BY SMT, <1>10 DEF JoinReturns, Acceptor
<1>11. ASSUME MonitorInit PROVE Leaving'
  BY SMT, <1>11 DEF MonitorInit, RouteMonitor
<1>12. ASSUME MonitorCheck PROVE Leaving'
  BY SMT, <1>12 DEF MonitorCheck, RouteMonitor
<1>13. ASSUME MonitorEnter PROVE Leaving'
  BY SMT, <1>13 DEF MonitorEnter, RouteMonitor, Enter
<1>14. ASSUME MonitorInterrupted PROVE Leaving'
  BY SMT, <1>14 DEF MonitorInterrupted, RouteMonitor
<1>15. ASSUME MonitorClose PROVE Leaving'
  BY SMT, <1>15 DEF MonitorClose, RouteMonitor
<1>16. ASSUME MainJoinsAccept PROVE Leaving'
  BY SMT, <1>16 DEF MainJoinsAccept, Main
<1>17. ASSUME MainJoinsMonitor PROVE Leaving'
  BY SMT, <1>17 DEF MainJoinsMonitor, Main
<1>18. ASSUME Signal PROVE Leaving'
  BY SMT, <1>18 DEF Signal
<1>19. ASSUME AcceptFails PROVE Leaving'
  BY SMT, <1>19 DEF AcceptFails, Acceptor
<1>20. ASSUME IterationDerails PROVE Leaving'
  BY SMT, <1>20 DEF IterationDerails
<1>21. ASSUME MonitorTraffic PROVE Leaving'
  BY SMT, <1>21 DEF MonitorTraffic, RouteMonitor
<1>22. ASSUME NEW w \in Workers, AcceptClient(w) PROVE Leaving'
  BY SMT, <1>22 DEF AcceptClient, Acceptor
<1>23. ASSUME NEW w \in Workers, WorkerTraffic(w) PROVE Leaving'
  BY SMT, <1>23 DEF WorkerTraffic, Worker, Goto
<1>24. ASSUME NEW w \in Workers, WorkerSetup(w) PROVE Leaving'
  BY SMT, <1>24 DEF WorkerSetup, Worker, Goto
<1>25. ASSUME NEW w \in Workers, WorkerCheck(w) PROVE Leaving'
  BY SMT, <1>25 DEF WorkerCheck, Worker, Goto
<1>26. ASSUME NEW w \in Workers, WorkerEnter(w) PROVE Leaving'
  BY SMT, <1>26 DEF WorkerEnter, Worker, Goto, Enter
<1>27. ASSUME NEW w \in Workers, WorkerInterrupted(w) PROVE Leaving'
  BY SMT, <1>27 DEF WorkerInterrupted, Worker, Goto
<1>28. ASSUME NEW w \in Workers, WorkerClose(w) PROVE Leaving'
  BY SMT, <1>28 DEF WorkerClose, Worker, Goto
<1>29. ASSUME NEW w \in Workers, WorkerLock(w) PROVE Leaving'
  BY SMT, <1>29 DEF WorkerLock, Worker, Goto
<1>30. ASSUME NEW w \in Workers, WorkerErase(w) PROVE Leaving'
  BY SMT, <1>30 DEF WorkerErase, Worker, Goto
<1>31. ASSUME UNCHANGED vars PROVE Leaving'
  BY SMT, <1>31 DEF vars
<1>32. QED
  BY Zenon, <1>1, <1>2, <1>3, <1>4, <1>5, <1>6, <1>7, <1>8, <1>9, <1>10,
     <1>11, <1>12, <1>13, <1>14, <1>15, <1>16, <1>17, <1>18, <1>19, <1>20,
     <1>21, <1>22, <1>23, <1>24, <1>25, <1>26, <1>27, <1>28, <1>29, <1>30,
     <1>31 DEF Next, Handler, Accept, Watch, Quit, Gone, Environment, Serve

\* TrackInv holds initially.
LEMMA TrackInit == Init => TrackInv
<1> SUFFICES ASSUME Init PROVE TrackInv
  OBVIOUS
<1>1. Switches
  BY Zenon DEF Init, Switches
<1>2. Types
  BY SMT, SignalsAssumption DEF Init, Types, Files
<1>3. Lock /\ Creating /\ Registered /\ Leaving
  BY SMT, WorkersAssumption DEF Init, Lock, Creating, Registered, Leaving, InCycle
<1>4. QED
  BY Zenon, <1>1, <1>2, <1>3 DEF TrackInv

\* TrackInv is inductive.
LEMMA TrackStep == TrackInv /\ [Next]_vars => TrackInv'
<1> SUFFICES ASSUME TrackInv, [Next]_vars PROVE TrackInv'
  OBVIOUS
<1>1. Switches' /\ Types'
  BY Zenon, SwitchesStep, TypesStep DEF TrackInv
<1>2. QED
  BY Zenon, <1>1, LockStep, CreatingStep, RegisteredStep, LeavingStep DEF TrackInv

-----------------------------------------------------------------------------
(* The theorems.                                                           *)

\* The variables keep their types, and Threads_map_mutex is held exactly by the
\* client thread that is removing itself from Threads.
THEOREM TypeCorrect == Spec => []TypeOK
<1>1. TrackInv => TypeOK
  BY Zenon DEF TrackInv, Switches, Types, Lock, TypeOK
<1>2. QED
  BY TrackInit, TrackStep, <1>1, PTL DEF Spec

\* A client thread is in Threads, joinable, as long as it serves its client
\* (ThreadsTracked): the promise it waits for is set after emplace.
THEOREM ThreadsAreTracked == Spec => []ThreadsTracked
<1>1. TrackInv => ThreadsTracked
  BY Zenon DEF TrackInv, Registered, ThreadsTracked
<1>2. QED
  BY TrackInit, TrackStep, <1>1, PTL DEF Spec

\* main returns with every client thread finished and joined or detached
\* (JoinedBeforeExit), unless Threads was modified under the join loop.
THEOREM AllJoinedBeforeExit == Spec => []JoinedBeforeExit
<1>1. TrackInv => JoinedBeforeExit
  BY Zenon DEF TrackInv, Leaving, AllJoined, JoinedBeforeExit
<1>2. QED
  BY TrackInit, TrackStep, <1>1, PTL DEF Spec
=============================================================================
