------------------------------- MODULE Server -------------------------------
(***************************************************************************)
(* The life of the process: the accept thread, the client threads it       *)
(* registers in Threads, the route monitor, main and the handler of SIGINT *)
(* and SIGTERM, with the stop_flag and the interrupt pipe that end them.   *)
(*                                                                         *)
(* Only what decides when a thread runs, is woken or ends is kept; what a  *)
(* client thread does for its client is in ClientSetup, Desync and Relay.  *)
(***************************************************************************)
EXTENDS Integers

CONSTANTS
    Workers,     \* bound: the clients that connect
    Monitor,     \* whether there are profiles, and so a route monitor
    MaxSignals,  \* bound: SIGINT or SIGTERM received
    Events       \* faults the environment may inject

AllEvents == {"accept_fails",  \* poll or accept fails in the accept thread
              "reuse"}         \* a new socket gets the number of a closed pipe end

ASSUME EventsAssumption == Events \subseteq AllEvents
ASSUME MonitorAssumption == Monitor \in BOOLEAN
ASSUME SignalsAssumption == MaxSignals \in Nat

VARIABLES
    stop_flag,
    fd,        \* fd[n]: what the descriptor number Interrupt_pipe[n] names
    mpc,       \* main: which thread it joins
    hpc,       \* the signal handler, which runs on main's stack
    signals,   \* signals received so far
    apc, cur,  \* accept_client_cycle, and the client it is dealing with
    wpc,       \* the client threads
    rpc,       \* the route monitor
    watch,     \* what each thread's poll() watches as the interrupt pipe
    handle,    \* the std::thread of each client thread, and so Threads
    mutex,     \* the client thread that holds Threads_map_mutex
    race       \* whether Threads was modified while it was iterated

vars == <<stop_flag, fd, mpc, hpc, signals, apc, cur, wpc, rpc, watch, handle, mutex, race>>

NoWorker == "no client"
Sockets  == (Workers \X {"client", "server"}) \cup {<<"monitor", "netlink">>}
Pollers  == Workers \cup {"acceptor", "monitor"}
Pipe     == <<"interrupt", "pipe">>
Free     == <<"no", "file">>
Files    == {Pipe, Free} \cup Sockets

\* A client thread inside process_client_cycle.
InCycle   == {"setup", "check", "enter", "poll", "close"}
\* accept_client_cycle inside `for (auto &imap: Threads)`.
Iterating == {"iterate", "join"}

ASSUME WorkersAssumption ==
    Workers \cap {NoWorker, "acceptor", "monitor"} = {}

\* The types, and who holds Threads_map_mutex.
TypeOK ==
    /\ stop_flag \in BOOLEAN /\ race \in BOOLEAN
    /\ fd \in [0..1 -> Files]
    /\ mpc \in {"join_accept", "join_monitor", "returned", "crashed"}
    /\ hpc \in {"idle", "close_read", "close_write"}
    /\ signals \in 0..MaxSignals
    /\ apc \in {"check", "enter", "poll", "spawn", "emplace", "start", "done"} \cup Iterating
    /\ cur \in Workers \cup {NoWorker}
    /\ wpc \in [Workers -> {"none", "starter", "lock", "erase", "ended"} \cup InCycle]
    /\ rpc \in {"init", "check", "enter", "poll", "close", "ended"}
    /\ watch \in [Pollers -> Files]
    /\ handle \in [Workers -> {"none", "joinable", "joined", "detached"}]
    /\ mutex \in Workers \cup {NoWorker}
    /\ \A w \in Workers : mutex = w <=> wpc[w] = "erase"

Init ==
    /\ stop_flag = FALSE /\ race = FALSE
    /\ fd = [n \in 0..1 |-> Pipe]
    /\ mpc = "join_accept" /\ hpc = "idle" /\ signals = 0
    /\ apc = "check" /\ cur = NoWorker
    /\ wpc = [w \in Workers |-> "none"]
    /\ rpc = IF Monitor THEN "init" ELSE "ended"
    /\ watch = [p \in Pollers |-> Pipe]
    /\ handle = [w \in Workers |-> "none"]
    /\ mutex = NoWorker

Running == mpc \notin {"returned", "crashed"}

-----------------------------------------------------------------------------
(* Descriptors and poll().                                                 *)

\* The kernel gives a new socket the lowest free number.
Opened(s) ==
    IF "reuse" \notin Events THEN fd
    ELSE IF fd[0] = Free THEN [fd EXCEPT ![0] = s]
    ELSE IF fd[1] = Free THEN [fd EXCEPT ![1] = s]
    ELSE fd

\* A thread closes its sockets. A second signal may have closed one of them before,
\* and its number may have been given to another thread's socket, which is then the
\* one that is closed.
Closed(S, N) == [n \in 0..1 |-> IF fd[n] \in S \/ n \in N THEN Free ELSE fd[n]]
Closes(S)    == \E N \in SUBSET (0..1) : (N = {} \/ signals > 1) /\ fd' = Closed(S, N)

\* poll() looks the descriptor number up when it is called, and forgets it when it
\* returns.
Enter(p)   == watch' = [watch EXCEPT ![p] = fd[0]]
Returns(p) == watch' = [watch EXCEPT ![p] = Pipe]

\* The interrupt wakes poll(): POLLNVAL when the number was free, POLLHUP once
\* the write end of the pipe is closed.
Interrupted(p) == watch[p] = Free \/ (watch[p] = Pipe /\ fd[1] # Pipe)

-----------------------------------------------------------------------------
(* sig_int_handler: main runs it while it waits for a thread.              *)

Signal ==
    /\ Running /\ hpc = "idle" /\ signals < MaxSignals
    /\ signals' = signals + 1
    /\ stop_flag' = TRUE
    /\ hpc' = "close_read"
    /\ UNCHANGED <<fd, mpc, apc, cur, wpc, rpc, watch, handle, mutex, race>>

CloseRead ==
    /\ Running /\ hpc = "close_read"
    /\ fd' = [fd EXCEPT ![0] = Free]
    /\ hpc' = "close_write"
    /\ UNCHANGED <<stop_flag, mpc, signals, apc, cur, wpc, rpc, watch, handle, mutex, race>>

CloseWrite ==
    /\ Running /\ hpc = "close_write"
    /\ fd' = [fd EXCEPT ![1] = Free]
    /\ hpc' = "idle"
    /\ UNCHANGED <<stop_flag, mpc, signals, apc, cur, wpc, rpc, watch, handle, mutex, race>>

-----------------------------------------------------------------------------
(* accept_client_cycle.                                                    *)

Acceptor == <<stop_flag, mpc, hpc, signals, rpc, race>>

\* Mutant: for (;;) instead of while (!stop_flag.load()).
AcceptCheck_Forever ==
    /\ Running /\ apc = "check"
    /\ apc' = "enter"
    /\ UNCHANGED <<Acceptor, fd, cur, wpc, watch, handle, mutex>>

AcceptCheck ==
    /\ Running /\ apc = "check"
    /\ apc' = IF stop_flag THEN "iterate" ELSE "enter"
    /\ UNCHANGED <<Acceptor, fd, cur, wpc, watch, handle, mutex>>

AcceptEnter ==
    /\ Running /\ apc = "enter"
    /\ Enter("acceptor")
    /\ apc' = "poll"
    /\ UNCHANGED <<Acceptor, fd, cur, wpc, handle, mutex>>

AcceptInterrupted ==
    /\ Running /\ apc = "poll" /\ Interrupted("acceptor")
    /\ apc' = "check"
    /\ Returns("acceptor")
    /\ UNCHANGED <<Acceptor, fd, cur, wpc, handle, mutex>>

\* A client is waiting: poll() returns POLLIN and accept() its socket.
AcceptClient(w) ==
    /\ Running /\ apc = "poll" /\ wpc[w] = "none"
    /\ fd' = Opened(<<w, "client">>)
    /\ cur' = w /\ apc' = "spawn"
    /\ Returns("acceptor")
    /\ UNCHANGED <<Acceptor, wpc, handle, mutex>>

AcceptFails ==
    /\ "accept_fails" \in Events
    /\ Running /\ apc = "poll"
    /\ apc' = "iterate"
    /\ Returns("acceptor")
    /\ UNCHANGED <<Acceptor, fd, cur, wpc, handle, mutex>>

\* Mutant: the new thread does not wait for thread_starter.
SpawnWorker_NoStarter ==
    /\ Running /\ apc = "spawn"
    /\ wpc' = [wpc EXCEPT ![cur] = "setup"]
    /\ apc' = "emplace"
    /\ UNCHANGED <<Acceptor, fd, cur, watch, handle, mutex>>

\* std::thread t1(...): the new thread waits for thread_starter.
SpawnWorker ==
    /\ Running /\ apc = "spawn"
    /\ wpc' = [wpc EXCEPT ![cur] = "starter"]
    /\ apc' = "emplace"
    /\ UNCHANGED <<Acceptor, fd, cur, watch, handle, mutex>>

EmplaceWorker ==
    /\ Running /\ apc = "emplace" /\ mutex = NoWorker
    /\ handle' = [handle EXCEPT ![cur] = "joinable"]
    /\ apc' = "start"
    /\ UNCHANGED <<Acceptor, fd, cur, wpc, watch, mutex>>

StartWorker ==
    /\ Running /\ apc = "start"
    /\ wpc' = [wpc EXCEPT ![cur] = "setup"]
    /\ apc' = "check"
    /\ UNCHANGED <<Acceptor, fd, cur, watch, handle, mutex>>

\* Mutant: join() is only called for the threads that have finished.
JoinNext_SkipsRunning ==
    /\ Running /\ apc = "iterate"
    /\ \/ \E w \in Workers :
            handle[w] = "joinable" /\ wpc[w] = "ended" /\ cur' = w /\ apc' = "join"
       \/ /\ \A w \in Workers : handle[w] = "joinable" => wpc[w] # "ended"
          /\ cur' = NoWorker /\ apc' = "done"
    /\ UNCHANGED <<Acceptor, fd, wpc, watch, handle, mutex>>

\* The loop over Threads comes to the next joinable thread, or to the end.
JoinNext ==
    /\ Running /\ apc = "iterate"
    /\ \/ \E w \in Workers : handle[w] = "joinable" /\ cur' = w /\ apc' = "join"
       \/ /\ \A w \in Workers : handle[w] # "joinable"
          /\ cur' = NoWorker /\ apc' = "done"
    /\ UNCHANGED <<Acceptor, fd, wpc, watch, handle, mutex>>

JoinReturns ==
    /\ Running /\ apc = "join" /\ wpc[cur] = "ended"
    /\ handle' = [handle EXCEPT ![cur] = IF @ = "joinable" THEN "joined" ELSE @]
    /\ apc' = "iterate"
    /\ UNCHANGED <<Acceptor, fd, cur, wpc, watch, mutex>>

\* Threads was modified under the loop: its iterator may have lost its place, or
\* point into freed memory.
IterationDerails ==
    /\ Running /\ apc \in Iterating /\ race
    /\ \/ apc' = "done" /\ mpc' = mpc
       \/ mpc' = "crashed" /\ apc' = apc
    /\ UNCHANGED <<stop_flag, hpc, signals, rpc, race, fd, cur, wpc, watch, handle, mutex>>

-----------------------------------------------------------------------------
(* A client thread: the lambda of accept_client_cycle, and the skeleton of *)
(* process_client_cycle.                                                   *)

Worker == <<stop_flag, mpc, hpc, signals, apc, cur, rpc>>

Goto(w, label) == wpc' = [wpc EXCEPT ![w] = label]

\* Everything before the relay loop; it opens the server socket or gives up.
WorkerSetup(w) ==
    /\ Running /\ wpc[w] = "setup"
    /\ fd' = Opened(<<w, "server">>)
    /\ Goto(w, "check") \/ Goto(w, "close")
    /\ UNCHANGED <<Worker, watch, handle, mutex, race>>

WorkerCheck(w) ==
    /\ Running /\ wpc[w] = "check"
    /\ IF stop_flag THEN Goto(w, "close") ELSE Goto(w, "enter")
    /\ UNCHANGED <<Worker, fd, watch, handle, mutex, race>>

WorkerEnter(w) ==
    /\ Running /\ wpc[w] = "enter"
    /\ Enter(w)
    /\ Goto(w, "poll")
    /\ UNCHANGED <<Worker, fd, handle, mutex, race>>

WorkerInterrupted(w) ==
    /\ Running /\ wpc[w] = "poll" /\ Interrupted(w)
    /\ Goto(w, "check")
    /\ Returns(w)
    /\ UNCHANGED <<Worker, fd, handle, mutex, race>>

\* Data is relayed, or a side has closed or failed.
WorkerTraffic(w) ==
    /\ Running /\ wpc[w] = "poll"
    /\ Goto(w, "check") \/ Goto(w, "close")
    /\ Returns(w)
    /\ UNCHANGED <<Worker, fd, handle, mutex, race>>

WorkerClose(w) ==
    /\ Running /\ wpc[w] = "close"
    /\ Closes({<<w, "client">>, <<w, "server">>})
    /\ Goto(w, "lock")
    /\ UNCHANGED <<Worker, watch, handle, mutex, race>>

\* Mutant: no lock_guard.
WorkerLock_NoGuard(w) ==
    /\ Running /\ wpc[w] = "lock"
    /\ IF stop_flag \/ handle[w] = "none"
       THEN Goto(w, "ended") /\ mutex' = mutex
       ELSE Goto(w, "erase") /\ mutex' = w
    /\ UNCHANGED <<Worker, fd, watch, handle, race>>

\* Under the lock: a thread removes itself only while nobody is asked to stop.
WorkerLock(w) ==
    /\ Running /\ wpc[w] = "lock" /\ mutex = NoWorker
    /\ IF stop_flag \/ handle[w] = "none"
       THEN Goto(w, "ended") /\ mutex' = mutex
       ELSE Goto(w, "erase") /\ mutex' = w
    /\ UNCHANGED <<Worker, fd, watch, handle, race>>

\* detach() and erase(), then the lock is released.
WorkerErase(w) ==
    /\ Running /\ wpc[w] = "erase"
    /\ handle' = [handle EXCEPT ![w] = "detached"]
    /\ race' = (race \/ apc \in Iterating)
    /\ mutex' = NoWorker
    /\ Goto(w, "ended")
    /\ UNCHANGED <<Worker, fd, watch>>

-----------------------------------------------------------------------------
(* route_monitor_thread.                                                   *)

RouteMonitor == <<stop_flag, mpc, hpc, signals, apc, cur, wpc, handle, mutex, race>>

MonitorInit ==
    /\ Running /\ rpc = "init"
    /\ \/ fd' = Opened(<<"monitor", "netlink">>) /\ rpc' = "check"
       \/ fd' = fd /\ rpc' = "ended"
    /\ UNCHANGED <<RouteMonitor, watch>>

MonitorCheck ==
    /\ Running /\ rpc = "check"
    /\ rpc' = IF stop_flag THEN "close" ELSE "enter"
    /\ UNCHANGED <<RouteMonitor, fd, watch>>

MonitorEnter ==
    /\ Running /\ rpc = "enter"
    /\ Enter("monitor")
    /\ rpc' = "poll"
    /\ UNCHANGED <<RouteMonitor, fd>>

MonitorInterrupted ==
    /\ Running /\ rpc = "poll" /\ Interrupted("monitor")
    /\ rpc' = "check"
    /\ Returns("monitor")
    /\ UNCHANGED <<RouteMonitor, fd>>

\* A route message is handled, or the netlink socket fails.
MonitorTraffic ==
    /\ Running /\ rpc = "poll"
    /\ rpc' \in {"check", "close"}
    /\ Returns("monitor")
    /\ UNCHANGED <<RouteMonitor, fd>>

MonitorClose ==
    /\ Running /\ rpc = "close"
    /\ Closes({<<"monitor", "netlink">>})
    /\ rpc' = "ended"
    /\ UNCHANGED <<RouteMonitor, watch>>

-----------------------------------------------------------------------------
(* main: t2.join(), t1.join(), return. It waits for its handler to return. *)

Main == <<stop_flag, fd, hpc, signals, apc, cur, wpc, rpc, watch, handle, mutex, race>>

MainJoinsAccept ==
    /\ mpc = "join_accept" /\ hpc = "idle" /\ apc = "done"
    /\ mpc' = "join_monitor"
    /\ UNCHANGED Main

MainJoinsMonitor ==
    /\ mpc = "join_monitor" /\ hpc = "idle" /\ rpc = "ended"
    /\ mpc' = "returned"
    /\ UNCHANGED Main

\* The process is gone.
Gone == ~Running /\ UNCHANGED vars

-----------------------------------------------------------------------------
Handler  == CloseRead \/ CloseWrite
Accept   == \/ AcceptCheck \/ AcceptEnter \/ AcceptInterrupted \/ SpawnWorker
            \/ EmplaceWorker \/ StartWorker \/ JoinNext \/ JoinReturns
Serve(w) == \/ WorkerSetup(w) \/ WorkerCheck(w) \/ WorkerEnter(w) \/ WorkerInterrupted(w)
            \/ WorkerClose(w) \/ WorkerLock(w) \/ WorkerErase(w)
Watch    == \/ MonitorInit \/ MonitorCheck \/ MonitorEnter \/ MonitorInterrupted
            \/ MonitorClose
Quit     == MainJoinsAccept \/ MainJoinsMonitor

\* What clients, routes, users and errors do, which nothing promises.
Environment ==
    \/ Signal \/ AcceptFails \/ IterationDerails \/ MonitorTraffic
    \/ \E w \in Workers : AcceptClient(w) \/ WorkerTraffic(w)

Next ==
    \/ Handler \/ Accept \/ Watch \/ Quit \/ Gone \/ Environment
    \/ \E w \in Workers : Serve(w)

Spec == Init /\ [][Next]_vars

\* The scheduler runs every thread that can run.
Fairness ==
    /\ WF_vars(Handler) /\ WF_vars(Accept) /\ WF_vars(Watch) /\ WF_vars(Quit)
    /\ \A w \in Workers : WF_vars(Serve(w))

FairSpec == Spec /\ Fairness

-----------------------------------------------------------------------------
(* Properties.                                                             *)

\* A client thread that serves its client is in Threads with a joinable
\* std::thread, so shutdown waits for it; one that has finished is no longer in
\* Threads, unless the program was stopping. thread_starter is there for this.
ThreadsTracked ==
    \A w \in Workers :
        /\ wpc[w] \in InCycle => handle[w] = "joinable"
        /\ wpc[w] = "ended" /\ handle[w] = "joinable" => stop_flag

\* When main returns, and Threads is destroyed, no client thread still runs and
\* no std::thread is left joinable, which would call std::terminate.
JoinedBeforeExit ==
    mpc = "returned" /\ ~race =>
        \A w \in Workers : wpc[w] \in {"none", "ended"} /\ handle[w] # "joinable"

\* Once the program is told to stop, by one signal or by several, every poll() is
\* interrupted and main returns, unless a thread that was past its test of stop_flag
\* polls a new socket that was given the pipe's number.
StopEnds == stop_flag ~> (~Running \/ \E p \in Pollers : watch[p] \in Sockets)
=============================================================================
