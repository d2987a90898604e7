---------------------------- MODULE RouteMonitor ----------------------------
(***************************************************************************)
(* How the current profile follows the network: the choice main makes at   *)
(* the start, and route_monitor_thread, which reads the kernel's route     *)
(* messages from a netlink socket, one message to a read.                  *)
(*                                                                         *)
(* The kernel's side: interfaces get and lose default routes, a wireless   *)
(* interface joins an access point before it gets its route.               *)
(***************************************************************************)
EXTENDS Profiles, FiniteSets

CONSTANTS
    Ifaces,        \* names of network interfaces
    AccessPoints,  \* AccessPoints[i]: names of networks i can join, <<>> if wired
    ProfileSets,   \* the sets of profile names a run explores
    BufferUnits,   \* messages the 8192 bytes of the buffer hold
    QueueLimit,    \* messages the kernel queues for the socket
    MaxMessages    \* bound: route messages the kernel sends

ASSUME NetworksAssumption ==
    AccessPoints \in [Ifaces -> SUBSET Seq(Nat)] /\ Ifaces \subseteq Seq(Nat) \ {<<>>}
ASSUME ProfilesAssumption ==
    \A names \in ProfileSets :
       names \subseteq Seq(Nat) \ {<<>>} /\ names # {} /\ IsFiniteSet(names)
ASSUME BoundsAssumption ==
    BufferUnits \in Nat \ {0} /\ QueueLimit \in Nat \ {0} /\ MaxMessages \in Nat

VARIABLES
    profiles,    \* the names in Profiles
    up, ap,      \* interfaces with a default route; the network each is in
    queue, lost, \* messages for the socket; whether one did not fit (ENOBUFS)
    messages,    \* messages sent so far
    pc,          \* main and then the monitor
    pos, msg,    \* where nlh stands in the buffer, and the message it points to
    Profile,     \* the name of the current profile
    latest       \* history: the last interface announced to the socket

kernel  == <<up, ap, messages, latest>>
monitor == <<pc, pos, msg, Profile>>
vars    == <<profiles, queue, lost, kernel, monitor>>

NoIface == <<>>
NoMsg   == [type |-> "none", iface |-> NoIface]
Message == [type: {"RTM_NEWROUTE", "RTM_DELROUTE", "other"}, iface: Ifaces]

\* The name change_profile looks for: iface, or iface:wifi_ap.
Name(iface) ==
    IF iface = NoIface \/ ap[iface] = <<>> THEN iface ELSE iface \o <<Colon>> \o ap[iface]

Listening == pc \in {"poll", "handle"}

TypeOK ==
    /\ profiles \in ProfileSets
    /\ up \subseteq Ifaces /\ ap \in [Ifaces -> Seq(Nat)]
    /\ \A i \in Ifaces : ap[i] \in AccessPoints[i] \cup {<<>>}
    /\ queue \in Seq(Message) /\ Len(queue) <= QueueLimit /\ lost \in BOOLEAN
    /\ messages \in 0..MaxMessages
    /\ pc \in {"choose", "bind", "poll", "handle", "ended", "exited", "crashed"}
    /\ pos \in 0..MaxMessages /\ msg \in Message \cup {NoMsg}
    /\ Profile \in profiles \cup {NoProfile}
    /\ latest \in Ifaces \cup {NoIface}

Init ==
    /\ profiles \in ProfileSets
    /\ up = {} /\ ap = [i \in Ifaces |-> <<>>] /\ messages = 0 /\ latest = NoIface
    /\ queue = <<>> /\ lost = FALSE
    /\ pc = "choose" /\ pos = 0 /\ msg = NoMsg /\ Profile = NoProfile

-----------------------------------------------------------------------------
(* The kernel.                                                             *)

\* A message reaches the socket once it is bound; one that does not fit is lost
\* and leaves an error on the socket.
Notify(type, i) ==
    LET m == [type |-> type, iface |-> i] IN
    /\ messages < MaxMessages /\ messages' = messages + 1
    /\ queue' = IF Listening /\ Len(queue) < QueueLimit THEN Append(queue, m) ELSE queue
    /\ lost' = (lost \/ (Listening /\ Len(queue) = QueueLimit))

\* An interface joins a network and gets a default route.
RouteAdded(i) ==
    /\ i \notin up /\ up' = up \cup {i}
    /\ \E a \in AccessPoints[i] : ap' = [ap EXCEPT ![i] = a]
    /\ Notify("RTM_NEWROUTE", i)
    /\ latest' = IF Listening THEN i ELSE latest
    /\ UNCHANGED <<profiles, monitor>>

\* An interface loses its default route and leaves its network.
RouteDeleted(i) ==
    /\ i \in up /\ up' = up \ {i}
    /\ ap' = [ap EXCEPT ![i] = <<>>]
    /\ Notify("RTM_DELROUTE", i)
    /\ UNCHANGED <<profiles, latest, monitor>>

\* A route that is not a default route comes or goes.
OtherRoute(i) ==
    /\ Notify("other", i)
    /\ UNCHANGED <<profiles, up, ap, latest, monitor>>

-----------------------------------------------------------------------------
(* main, up to the start of the thread.                                    *)

\* get_current_iface_name asks which interface a packet to the Internet would
\* leave by; without a default route there is none. A choice that fails ends main.
ChooseAtStart ==
    /\ pc = "choose"
    /\ \E i \in (IF up = {} THEN {NoIface} ELSE up) :
         LET choice == Chosen(profiles, Name(i))
         IN  IF choice = NoProfile THEN pc' = "exited" /\ UNCHANGED Profile
             ELSE pc' = "bind" /\ Profile' = choice
    /\ UNCHANGED <<profiles, queue, lost, kernel, pos, msg>>

-----------------------------------------------------------------------------
(* route_monitor_thread.                                                   *)

\* socket(), bind() and fcntl(): from now on there are messages, or never.
Bind ==
    /\ pc = "bind"
    /\ pc' \in {"poll", "ended"}
    /\ UNCHANGED <<profiles, queue, lost, kernel, pos, msg, Profile>>

\* poll() reports the lost message as POLLERR, and the loop ends.
PollError ==
    /\ pc = "poll" /\ lost
    /\ pc' = "ended"
    /\ UNCHANGED <<profiles, queue, lost, kernel, pos, msg, Profile>>

\* recv(sock, nlh, buffer.size()): nlh has been left behind the last message, so
\* the buffer is filled from there; behind its end the outcome is undefined.
Recv ==
    /\ pc = "poll" /\ ~lost /\ queue # <<>>
    /\ queue' = Tail(queue) /\ msg' = Head(queue)
    /\ \/ pc' = "handle"
       \/ pos >= BufferUnits /\ pc' = "crashed"
    /\ UNCHANGED <<profiles, lost, kernel, pos, Profile>>

\* RTM_NEWROUTE without a destination and with an outgoing interface.
IsDefaultRoute(m) == m.type = "RTM_NEWROUTE"

\* Mutant: change_profile is asked for the name of the interface alone.
Handle_IfaceOnly ==
    /\ pc = "handle"
    /\ LET choice == IF IsDefaultRoute(msg) THEN Chosen(profiles, msg.iface) ELSE NoProfile
       IN  Profile' = IF choice = NoProfile THEN Profile ELSE choice
    /\ pos' = pos + 1 /\ pc' = "poll" /\ msg' = NoMsg
    /\ UNCHANGED <<profiles, queue, lost, kernel>>

\* Mutant: without NLMSG_NEXT the loop stays with the message it has handled.
Handle_NoNext ==
    /\ pc = "handle"
    /\ LET choice == IF IsDefaultRoute(msg) THEN Chosen(profiles, Name(msg.iface)) ELSE NoProfile
       IN  Profile' = IF choice = NoProfile THEN Profile ELSE choice
    /\ UNCHANGED <<profiles, queue, lost, kernel, pc, pos, msg>>

\* The name of the access point is read now, not when the message was sent; then
\* NLMSG_NEXT moves nlh behind the message.
Handle ==
    /\ pc = "handle"
    /\ LET choice == IF IsDefaultRoute(msg) THEN Chosen(profiles, Name(msg.iface)) ELSE NoProfile
       IN  Profile' = IF choice = NoProfile THEN Profile ELSE choice
    /\ pos' = pos + 1 /\ pc' = "poll" /\ msg' = NoMsg
    /\ UNCHANGED <<profiles, queue, lost, kernel>>

-----------------------------------------------------------------------------
Monitor == Bind \/ PollError \/ Recv \/ Handle
Kernel  == \E i \in Ifaces : RouteAdded(i) \/ RouteDeleted(i) \/ OtherRoute(i)
Idle    == pc \in {"poll", "ended", "exited", "crashed"} /\ UNCHANGED vars

Next == ChooseAtStart \/ Monitor \/ (pc \notin {"exited", "crashed"} /\ Kernel) \/ Idle

Spec == Init /\ [][Next]_vars

\* The threads of the program are scheduled; the kernel promises nothing.
FairSpec == Spec /\ WF_vars(ChooseAtStart) /\ WF_vars(Monitor)

-----------------------------------------------------------------------------
(* Properties.                                                             *)

\* A profile is the right one for a network: a name that matches it, by what
\* patterns mean; "default" only when none does; or, when there is neither, any.
Fits(profile, name) ==
    LET fitting == {p \in profiles : Matches(p, name)}
    IN  IF fitting # {} THEN profile \in fitting
        ELSE Default \in profiles => profile = Default

\* The profile follows the network: whenever the monitor has nothing left to
\* read, the default route announced last, if it is still there, has its profile,
\* however the messages were spaced and whatever came between.
ProfileFollowsRoute ==
    pc = "poll" /\ queue = <<>> /\ ~lost /\ latest \in up => Fits(Profile, Name(latest))

\* And it gets there: an announced route has its profile in the end, unless a
\* later one takes its place, it goes, or the monitor has stopped.
RouteNoticed ==
    \A i \in Ifaces :
       (Listening /\ latest = i /\ i \in up) ~>
          \/ Fits(Profile, Name(i)) \/ latest # i \/ i \notin up
          \/ lost \/ ~Listening

\* Monitor when client changes interfaces: as long as the program runs, what the
\* monitor receives is inside its buffer.
MonitorSurvives == pc # "crashed"
=============================================================================
