------------------------- MODULE RouteMonitorProofs -------------------------
(***************************************************************************)
(* Theorems about the choice of a profile and about RouteMonitor: for all  *)
(* names and patterns, any number of interfaces, profiles and messages.    *)
(***************************************************************************)
EXTENDS RouteMonitor, AlgorithmProofs, FiniteSetTheorems, TLAPS

-----------------------------------------------------------------------------
(* The order of the map, and the choice.                                   *)

\* Of two names one comes first.
LEMMA BeforeIsTotal ==
    ASSUME NEW s \in Seq(Nat), NEW t \in Seq(Nat), s # t
    PROVE  Before(s, t) \/ Before(t, s)
<1>1. PICK D : D = {i \in 1..Len(s) \cap 1..Len(t) : s[i] # t[i]}
  OBVIOUS
<1>2. CASE D = {}
  <2>1. \A i \in 1..Len(s) \cap 1..Len(t) : s[i] = t[i]
    BY Zenon, <1>1, <1>2
  <2>2. Len(s) # Len(t)
    BY SMT, <2>1
  <2>3. CASE Len(s) < Len(t)
    BY SMT, <2>1, <2>3 DEF Before
  <2>4. CASE Len(t) < Len(s)
    BY SMT, <2>1, <2>4 DEF Before
  <2>5. QED
    BY SMT, <2>2, <2>3, <2>4
<1>3. CASE D # {}
  <2>0. D \subseteq Nat
    BY SMT, <1>1
  <2>1. PICK i \in D : \A j \in D : i <= j
    BY <1>3, <2>0, LeastNat
  <2>2. i \in 1..Len(s) /\ i \in 1..Len(t) /\ s[i] # t[i]
    BY Zenon, <1>1, <2>1
  <2>3. \A j \in 1..(i - 1) : s[j] = t[j]
    BY SMT, <1>1, <2>1, <2>2
  <2>4. s[i] < t[i] \/ t[i] < s[i]
    BY SMT, <2>2
  <2>5. \A j \in 1..(i - 1) : t[j] = s[j]
    BY Zenon, <2>3
  <2>6. i \in 1..Len(s) \cap 1..Len(t) /\ i \in 1..Len(t) \cap 1..Len(s)
    BY Zenon, <2>2
  <2>7. QED
    BY Zenon, <2>3, <2>4, <2>5, <2>6 DEF Before
<1>4. QED
  BY Zenon, <1>2, <1>3

\* What comes before a name comes before all behind it.
LEMMA BeforeIsTransitive ==
    ASSUME NEW a \in Seq(Nat), NEW b \in Seq(Nat), NEW c \in Seq(Nat), Before(a, b), Before(b, c)
    PROVE  Before(a, c)
<1> DEFINE Prefix(s, t) == Len(s) < Len(t) /\ \A i \in 1..Len(s) : s[i] = t[i]
           Less(s, t, i) == /\ i \in 1..Len(s) /\ i \in 1..Len(t)
                            /\ s[i] < t[i] /\ \A j \in 1..(i - 1) : s[j] = t[j]
<1>1. \A s, t : Before(s, t) <=> Prefix(s, t) \/ \E i : Less(s, t, i)
  BY Zenon DEF Before
<1>2. CASE Prefix(a, b) /\ Prefix(b, c)
  <2>1. Prefix(a, c)
    BY SMT, <1>2
  <2>2. QED
    BY Zenon, <1>1, <2>1
<1>3. ASSUME NEW i, Prefix(a, b), Less(b, c, i) PROVE Before(a, c)
  <2>1. CASE i <= Len(a)
    <3>1. Less(a, c, i)
      BY SMT, <1>3, <2>1
    <3>2. QED
      BY Zenon, <1>1, <3>1
  <2>2. CASE ~(i <= Len(a))
    <3>1. Prefix(a, c)
      BY SMT, <1>3, <2>2
    <3>2. QED
      BY Zenon, <1>1, <3>1
  <2>3. QED
    BY Zenon, <2>1, <2>2
<1>4. ASSUME NEW i, Less(a, b, i), Prefix(b, c) PROVE Before(a, c)
  <2>1. Less(a, c, i)
    BY SMT, <1>4
  <2>2. QED
    BY Zenon, <1>1, <2>1
<1>5. ASSUME NEW i, NEW k, Less(a, b, i), Less(b, c, k) PROVE Before(a, c)
  <2>1. CASE i <= k
    <3>1. i \in 1..Len(a) /\ i \in 1..Len(b) /\ i \in 1..Len(c) /\ (i = k \/ i \in 1..(k - 1))
      BY SMT, <1>5, <2>1
    <3>2. a[i] \in Nat /\ b[i] \in Nat /\ c[i] \in Nat
      BY SMT, <3>1
    <3>3. a[i] < c[i]
      <4>1. a[i] < b[i] /\ (b[i] < c[i] \/ b[i] = c[i])
        BY Zenon, <1>5, <3>1
      <4>2. QED
        BY SMT, <3>2, <4>1
    <3>4. \A j \in 1..(i - 1) : a[j] = c[j]
      BY SMTT(60), <1>5, <3>1
    <3>5. QED
      BY Zenon, <1>1, <3>1, <3>3, <3>4
  <2>2. CASE ~(i <= k)
    <3>1. k \in 1..Len(a) /\ k \in 1..Len(b) /\ k \in 1..Len(c) /\ k \in 1..(i - 1)
      BY SMT, <1>5, <2>2
    <3>3. a[k] = b[k] /\ b[k] < c[k]
      BY Zenon, <1>5, <3>1
    <3>4. \A j \in 1..(k - 1) : j \in 1..(i - 1)
      BY SMT, <1>5, <2>2
    <3>5. \A j \in 1..(k - 1) : a[j] = c[j]
      BY Zenon, <1>5, <3>4
    <3>6. QED
      BY Zenon, <1>1, <3>1, <3>3, <3>5
  <2>3. QED
    BY Zenon, <2>1, <2>2
<1>6. QED
  BY Zenon, <1>1, <1>2, <1>3, <1>4, <1>5

HasFirst(names) == \E p \in names : \A q \in names : p = q \/ Before(p, q)

\* A finite set of names has a first one: take a smallest set without, and leave out one
\* of its names.
LEMMA FirstExists ==
    ASSUME NEW names \in SUBSET Seq(Nat), IsFiniteSet(names), names # {}
    PROVE  HasFirst(names)
<1> SUFFICES ASSUME ~HasFirst(names) PROVE FALSE
  OBVIOUS
<1> DEFINE Bad == {S \in SUBSET names : S # {} /\ ~HasFirst(S)}
<1>1. \A S \in SUBSET names : IsFiniteSet(S) /\ Cardinality(S) \in Nat
  BY FS_Subset, FS_CardinalityType
<1>2. PICK T : T = {Cardinality(S) : S \in Bad}
  OBVIOUS
<1>3. T \subseteq Nat /\ T # {}
  BY Zenon, <1>1, <1>2
<1>4. PICK m \in T : \A y \in T : m <= y
  BY <1>3, LeastNat
<1>5. PICK S \in Bad : m = Cardinality(S)
  BY Zenon, <1>2, <1>4
<1>6. S \subseteq names /\ IsFiniteSet(S) /\ ~HasFirst(S)
  BY Zenon, <1>1, <1>5
<1>7. PICK x \in S : TRUE
  BY Zenon, <1>5
<1>8. Cardinality(S \ {x}) = m - 1 /\ m \in Nat
  BY <1>1, <1>5, <1>6, <1>7, FS_RemoveElement
<1>9. S \ {x} \notin Bad
  <2>1. S \ {x} \in Bad => m <= m - 1
    BY Zenon, <1>2, <1>4, <1>8
  <2>2. QED
    BY SMT, <1>8, <2>1
<1>10. CASE S \ {x} = {}
  <2>1. \A q \in S : x = q
    BY Zenon, <1>10
  <2>2. QED
    BY Zenon, <1>6, <1>7, <2>1 DEF HasFirst
<1>11. CASE S \ {x} # {}
  <2>1. HasFirst(S \ {x})
    BY Zenon, <1>6, <1>9, <1>11
  <2>2. PICK p \in S \ {x} : \A q \in S \ {x} : p = q \/ Before(p, q)
    BY Zenon, <2>1 DEF HasFirst
  <2>3. p \in Seq(Nat) /\ x \in Seq(Nat) /\ p # x
    BY Zenon, <1>6, <1>7, <2>2
  <2>4. CASE Before(p, x)
    <3>1. \A q \in S : p = q \/ Before(p, q)
      BY Zenon, <2>2, <2>4
    <3>2. QED
      BY Zenon, <1>6, <2>2, <3>1 DEF HasFirst
  <2>5. CASE Before(x, p)
    <3>1. ASSUME NEW q \in S PROVE x = q \/ Before(x, q)
      <4>1. CASE q = x \/ q = p
        BY Zenon, <2>5, <4>1
      <4>2. CASE q # x /\ q # p
        <5>1. Before(p, q) /\ q \in Seq(Nat)
          BY Zenon, <1>6, <2>2, <4>2
        <5>2. QED
          BY Zenon, <2>3, <2>5, <5>1, BeforeIsTransitive
      <4>3. QED
        BY Zenon, <4>1, <4>2
    <3>2. QED
      BY Zenon, <1>6, <1>7, <3>1 DEF HasFirst
  <2>6. QED
    BY Zenon, <2>3, <2>4, <2>5, BeforeIsTotal
<1>12. QED
  BY Zenon, <1>10, <1>11

\* What change_profile chooses: one of the names that match, else the default, else
\* nothing.
LEMMA ChoiceIsOurs ==
    ASSUME NEW names \in SUBSET Seq(Nat), IsFiniteSet(names), NEW name
    PROVE  LET matching == {p \in names : wildcard_match(p, name)}
           IN  /\ Chosen(names, name) \in names \cup {NoProfile}
               /\ matching # {} => Chosen(names, name) \in matching
               /\ matching = {} /\ Default \in names => Chosen(names, name) = Default
<1> DEFINE matching == {p \in names : wildcard_match(p, name)}
<1>1. matching # {} => First(matching) \in matching
  <2>1. IsFiniteSet(matching) /\ matching \in SUBSET Seq(Nat)
    BY FS_Subset
  <2>2. matching # {} => HasFirst(matching)
    BY Zenon, <2>1, FirstExists
  <2>3. QED
    BY Zenon, <2>2 DEF HasFirst, First
<1>2. matching \subseteq names
  OBVIOUS
<1>3. QED
  BY Zenon, <1>1, <1>2 DEF Chosen

-----------------------------------------------------------------------------
(* The inductive invariant.                                                *)

\* nlh has moved over no more messages than were sent and are no longer waiting.
CountInv ==
    /\ pc = "handle" => msg \in Message /\ pos + Len(queue) + 1 <= messages
    /\ pc # "handle" => pos + Len(queue) <= messages

NoneQueued == \A k \in 1..Len(queue) : ~IsDefaultRoute(queue[k])

\* The default route announced last is the last one waiting, if any is, and else the one
\* in hand, if any is; and when none is waiting or in hand, it has its profile.
FollowInv ==
    /\ pc \in {"choose", "bind"} => queue = <<>> /\ latest = NoIface
    /\ Listening /\ ~lost =>
         /\ \A k \in 1..Len(queue) :
              /\ IsDefaultRoute(queue[k])
              /\ \A l \in (k + 1)..Len(queue) : ~IsDefaultRoute(queue[l])
              => queue[k].iface = latest
         /\ pc = "handle" /\ IsDefaultRoute(msg) /\ NoneQueued => msg.iface = latest
         /\ latest \in up /\ NoneQueued /\ ~(pc = "handle" /\ IsDefaultRoute(msg))
              => Fits(Profile, Name(latest))

-----------------------------------------------------------------------------
(* Types.                                                                  *)

\* The choice is a profile or none.
LEMMA ChoiceType ==
    ASSUME profiles \in ProfileSets, NEW name
    PROVE  Chosen(profiles, name) \in profiles \cup {NoProfile}
<1>1. profiles \in SUBSET Seq(Nat) /\ IsFiniteSet(profiles)
  BY Zenon, ProfilesAssumption
<1>2. QED
  BY Zenon, <1>1, ChoiceIsOurs

\* What a message changes.
LEMMA NotifyTypes ==
    ASSUME TypeOK, NEW i \in Ifaces, NEW type \in {"RTM_NEWROUTE", "RTM_DELROUTE", "other"},
           Notify(type, i)
    PROVE  /\ messages \in Nat /\ messages' = messages + 1 /\ messages' \in 0..MaxMessages
           /\ queue' \in Seq(Message) /\ Len(queue') \in 0..QueueLimit
           /\ Len(queue') <= Len(queue) + 1
           /\ lost' \in BOOLEAN
<1>0. [type |-> type, iface |-> i] \in Message
  BY Zenon DEF Message
<1>1. PICK m \in Message : m = [type |-> type, iface |-> i]
  BY Zenon, <1>0
<1>2. /\ messages < MaxMessages /\ messages' = messages + 1
      /\ queue' = IF Listening /\ Len(queue) < QueueLimit THEN Append(queue, m) ELSE queue
  BY Zenon, <1>1 DEF Notify
<1>3. lost' \in BOOLEAN
  BY Zenon DEF Notify, TypeOK
<1>4. messages \in 0..MaxMessages /\ queue \in Seq(Message) /\ Len(queue) <= QueueLimit
  BY Zenon DEF TypeOK
<1>5. messages \in Nat /\ messages' \in 0..MaxMessages
  BY SMT, <1>2, <1>4, BoundsAssumption
<1>6. CASE Listening /\ Len(queue) < QueueLimit
  <2>1. queue' = Append(queue, m)
    BY Zenon, <1>2, <1>6
  <2>2. queue' \in Seq(Message) /\ Len(queue') = Len(queue) + 1 /\ Len(queue) \in Nat
    BY SMT, <1>4, <2>1
  <2>3. QED
    BY SMT, <1>2, <1>3, <1>4, <1>5, <1>6, <2>2, BoundsAssumption
<1>7. CASE ~(Listening /\ Len(queue) < QueueLimit)
  <2>1. queue' = queue
    BY Zenon, <1>2, <1>7
  <2>2. QED
    BY SMT, <1>2, <1>3, <1>4, <1>5, <2>1, BoundsAssumption
<1>8. QED
  BY Zenon, <1>6, <1>7

\* Every step keeps the types.
LEMMA TypeStep == ASSUME TypeOK, CountInv, [Next]_vars PROVE TypeOK' /\ CountInv'
<1> USE DEF kernel, monitor
<1>0. messages \in Nat /\ pos \in Nat /\ Len(queue) \in Nat
  BY SMT, BoundsAssumption DEF TypeOK
<1>1. ASSUME ChooseAtStart PROVE TypeOK' /\ CountInv'
  <2>1. PICK i : LET choice == Chosen(profiles, Name(i))
                 IN  IF choice = NoProfile THEN pc' = "exited" /\ UNCHANGED Profile
                     ELSE pc' = "bind" /\ Profile' = choice
    BY Zenon, <1>1 DEF ChooseAtStart
  <2>2. Profile' \in profiles \cup {NoProfile} /\ pc' \in {"exited", "bind"}
    BY Zenon, <2>1, ChoiceType DEF TypeOK
  <2>3. pc = "choose" /\ UNCHANGED <<profiles, queue, lost, kernel, pos, msg>>
    BY Zenon, <1>1 DEF ChooseAtStart
  <2>4. lost' \in BOOLEAN
    BY Zenon, <2>3 DEF TypeOK
  <2>5. QED
    BY SMT, <2>2, <2>3, <2>4 DEF TypeOK, CountInv
<1>2. ASSUME Bind PROVE TypeOK' /\ CountInv'
  <2>1. lost' \in BOOLEAN
    BY Zenon, <1>2 DEF Bind, TypeOK
  <2>2. QED
    BY SMT, <1>2, <2>1 DEF Bind, TypeOK, CountInv
<1>3. ASSUME PollError PROVE TypeOK' /\ CountInv'
  <2>1. lost' \in BOOLEAN
    BY Zenon, <1>3 DEF PollError, TypeOK
  <2>2. QED
    BY SMT, <1>3, <2>1 DEF PollError, TypeOK, CountInv
<1>4. ASSUME Recv PROVE TypeOK' /\ CountInv'
  <2>1. lost' \in BOOLEAN
    BY Zenon, <1>4 DEF Recv, TypeOK
  <2>2. /\ pc = "poll" /\ queue # <<>> /\ queue' = Tail(queue) /\ msg' = Head(queue)
        /\ pc' \in {"handle", "crashed"} /\ UNCHANGED <<profiles, kernel, pos, Profile>>
    BY Zenon, <1>4 DEF Recv
  <2>3. queue \in Seq(Message) /\ Len(queue) <= QueueLimit
    BY Zenon DEF TypeOK
  <2>4. /\ Head(queue) \in Message /\ Tail(queue) \in Seq(Message)
        /\ Len(Tail(queue)) = Len(queue) - 1
    BY SMT, <2>2, <2>3
  <2>5. Len(queue') <= QueueLimit /\ pos + Len(queue') + 1 <= messages
    BY SMT, <1>0, <2>2, <2>3, <2>4, BoundsAssumption DEF CountInv
  <2>6. pos + Len(queue') <= messages
    BY SMT, <1>0, <2>2, <2>4, <2>5
  <2>7. QED
    BY SMT, <2>1, <2>2, <2>4, <2>5, <2>6 DEF TypeOK, CountInv
<1>5. ASSUME Handle PROVE TypeOK' /\ CountInv'
  <2>1. lost' \in BOOLEAN
    BY Zenon, <1>5 DEF Handle, TypeOK
  <2>2. Profile' \in profiles \cup {NoProfile}
    BY Zenon, <1>5, ChoiceType DEF Handle, TypeOK
  <2>3. /\ pc = "handle" /\ pos' = pos + 1 /\ pc' = "poll" /\ msg' = NoMsg
        /\ UNCHANGED <<profiles, queue, lost, kernel>>
    BY Zenon, <1>5 DEF Handle
  <2>4. pos + Len(queue) + 1 <= messages /\ messages \in 0..MaxMessages
    BY Zenon, <2>3 DEF CountInv, TypeOK
  <2>5. pos' \in 0..MaxMessages /\ pos' + Len(queue) <= messages
    BY SMT, <1>0, <2>3, <2>4, BoundsAssumption
  <2>6. QED
    BY SMT, <2>1, <2>2, <2>3, <2>5 DEF TypeOK, CountInv
<1>6. ASSUME NEW i \in Ifaces, RouteAdded(i) PROVE TypeOK' /\ CountInv'
  <2>1. PICK a \in AccessPoints[i] : ap' = [ap EXCEPT ![i] = a]
    BY Zenon, <1>6 DEF RouteAdded
  <2>2. a \in Seq(Nat)
    BY Zenon, NetworksAssumption
  <2>3. /\ ap' \in [Ifaces -> Seq(Nat)]
        /\ \A x \in Ifaces : ap'[x] \in AccessPoints[x] \cup {<<>>}
    BY SMT, <2>1, <2>2 DEF TypeOK
  <2>4. /\ messages' = messages + 1 /\ messages' \in 0..MaxMessages
        /\ queue' \in Seq(Message) /\ Len(queue') \in 0..QueueLimit
        /\ Len(queue') <= Len(queue) + 1 /\ lost' \in BOOLEAN
    BY Zenon, <1>6, NotifyTypes DEF RouteAdded
  <2>5. up' \subseteq Ifaces /\ latest' \in Ifaces \cup {NoIface} /\ UNCHANGED <<profiles, monitor>>
    BY Zenon, <1>6 DEF RouteAdded, TypeOK
  <2>6. Len(queue') <= QueueLimit /\ Len(queue') \in Nat
    BY SMT, <2>4, BoundsAssumption
  <2>7. QED
    BY SMT, <1>0, <2>3, <2>4, <2>5, <2>6 DEF TypeOK, CountInv
<1>7. ASSUME NEW i \in Ifaces, RouteDeleted(i) PROVE TypeOK' /\ CountInv'
  <2>1. ap' = [ap EXCEPT ![i] = <<>>] /\ <<>> \in Seq(Nat)
    BY <1>7 DEF RouteDeleted
  <2>3. /\ ap' \in [Ifaces -> Seq(Nat)]
        /\ \A x \in Ifaces : ap'[x] \in AccessPoints[x] \cup {<<>>}
    BY SMT, <2>1 DEF TypeOK
  <2>4. /\ messages' = messages + 1 /\ messages' \in 0..MaxMessages
        /\ queue' \in Seq(Message) /\ Len(queue') \in 0..QueueLimit
        /\ Len(queue') <= Len(queue) + 1 /\ lost' \in BOOLEAN
    BY Zenon, <1>7, NotifyTypes DEF RouteDeleted
  <2>5. up' \subseteq Ifaces /\ UNCHANGED <<profiles, latest, monitor>>
    BY Zenon, <1>7 DEF RouteDeleted, TypeOK
  <2>6. Len(queue') <= QueueLimit /\ Len(queue') \in Nat
    BY SMT, <2>4, BoundsAssumption
  <2>7. QED
    BY SMT, <1>0, <2>3, <2>4, <2>5, <2>6 DEF TypeOK, CountInv
<1>8. ASSUME NEW i \in Ifaces, OtherRoute(i) PROVE TypeOK' /\ CountInv'
  <2>4. /\ messages' = messages + 1 /\ messages' \in 0..MaxMessages
        /\ queue' \in Seq(Message) /\ Len(queue') \in 0..QueueLimit
        /\ Len(queue') <= Len(queue) + 1 /\ lost' \in BOOLEAN
    BY Zenon, <1>8, NotifyTypes DEF OtherRoute
  <2>5. UNCHANGED <<profiles, up, ap, latest, monitor>>
    BY Zenon, <1>8 DEF OtherRoute
  <2>6. Len(queue') <= QueueLimit /\ Len(queue') \in Nat
    BY SMT, <2>4, BoundsAssumption
  <2>7. QED
    BY SMT, <1>0, <2>4, <2>5, <2>6 DEF TypeOK, CountInv
<1>9. ASSUME UNCHANGED vars PROVE TypeOK' /\ CountInv'
  BY Zenon, <1>9 DEF vars, TypeOK, CountInv
<1>10. QED
  BY Zenon, <1>1, <1>2, <1>3, <1>4, <1>5, <1>6, <1>7, <1>8, <1>9 DEF Next, Monitor, Kernel, Idle

-----------------------------------------------------------------------------
(* The profile follows the route.                                          *)

\* No profile has two adjacent stars in its name.
NamesApart == \A names \in ProfileSets : \A p \in names : StarsApart(p)

\* change_profile leaves a profile that fits the network it was asked for, since the
\* names it finds are those that match.
LEMMA ChoiceFits ==
    ASSUME NamesApart, TypeOK, NEW name \in Seq(Nat), NEW old
    PROVE  Fits(IF Chosen(profiles, name) = NoProfile THEN old ELSE Chosen(profiles, name), name)
<1> DEFINE matching == {p \in profiles : wildcard_match(p, name)}
           fitting  == {p \in profiles : Matches(p, name)}
<1>1. profiles \in SUBSET Seq(Nat) /\ IsFiniteSet(profiles) /\ NoProfile \notin profiles
  BY Zenon, ProfilesAssumption DEF TypeOK, NoProfile
<1>2. ASSUME NEW p \in profiles PROVE wildcard_match(p, name) <=> Matches(p, name)
  <2>1. p \in Seq(Nat) /\ StarsApart(p)
    BY Zenon, <1>1 DEF NamesApart, TypeOK
  <2>2. MatchesAsMeant(p, name)
    BY Zenon, <2>1, PatternsAgree
  <2>3. QED
    BY Zenon, <2>1, <2>2 DEF MatchesAsMeant
<1>3. matching = fitting
  BY Zenon, <1>2
<1>4. /\ matching # {} => Chosen(profiles, name) \in matching
      /\ matching = {} /\ Default \in profiles => Chosen(profiles, name) = Default
  BY Zenon, <1>1, ChoiceIsOurs
<1>5. CASE matching # {}
  <2>1. Chosen(profiles, name) \in fitting /\ Chosen(profiles, name) # NoProfile
    BY Zenon, <1>1, <1>3, <1>4, <1>5
  <2>2. QED
    BY Zenon, <2>1 DEF Fits
<1>6. CASE matching = {}
  <2>1. fitting = {}
    BY Zenon, <1>3, <1>6
  <2>2. QED
    BY Zenon, <1>1, <1>4, <1>6, <2>1 DEF Fits
<1>7. QED
  BY Zenon, <1>5, <1>6

\* The name of a network is a sequence of characters.
LEMMA NameType == ASSUME TypeOK, NEW i \in Ifaces PROVE Name(i) \in Seq(Nat)
<1>1. i \in Seq(Nat) /\ ap[i] \in Seq(Nat)
  BY Zenon, NetworksAssumption DEF TypeOK
<1>2. <<Colon>> \in Seq(Nat)
  BY SMT DEF Colon
<1>3. i \o <<Colon>> \o ap[i] \in Seq(Nat)
  BY SMT, <1>1, <1>2
<1>4. QED
  BY Zenon, <1>1, <1>3 DEF Name

\* A message that was not lost is at the end of the queue.
LEMMA NotifyQueues ==
    ASSUME TypeOK, NEW i, NEW type, Notify(type, i), Listening, ~lost'
    PROVE  ~lost /\ queue' = Append(queue, [type |-> type, iface |-> i])
<1>1. ~lost /\ ~(Len(queue) = QueueLimit)
  BY Zenon DEF Notify
<1>2. Len(queue) < QueueLimit
  BY SMT, <1>1, BoundsAssumption DEF TypeOK
<1>3. QED
  BY Zenon, <1>1, <1>2 DEF Notify

\* What a queue holds when a message has been added to it.
LEMMA Appended ==
    ASSUME NEW q \in Seq(Message), NEW m, NEW r, r = Append(q, m)
    PROVE  /\ Len(q) \in Nat /\ Len(r) = Len(q) + 1 /\ r[Len(q) + 1] = m
           /\ \A k \in 1..Len(q) : r[k] = q[k]
BY SMT

\* A message about another route, or a route that goes, leaves the order as it is.
LEMMA QuietMessage ==
    ASSUME TypeOK, FollowInv, NEW i \in Ifaces, NEW type \in {"RTM_DELROUTE", "other"},
           Notify(type, i), UNCHANGED <<profiles, latest, monitor>>,
           latest \in up' => latest \in up /\ (Name(latest))' = Name(latest)
    PROVE  FollowInv'
<1>1. UNCHANGED <<pc, msg, Profile>> /\ (Listening' <=> Listening)
  BY Zenon DEF monitor, Listening
<1>2. ASSUME pc \in {"choose", "bind"} PROVE queue' = <<>> /\ latest' = NoIface
  <2>1. ~Listening
    BY SMT, <1>2 DEF Listening
  <2>2. QED
    BY Zenon, <1>2, <2>1 DEF Notify, FollowInv
<1>3. ASSUME Listening, ~lost'
      PROVE  /\ \A k \in 1..Len(queue') :
                  /\ IsDefaultRoute(queue'[k])
                  /\ \A l \in (k + 1)..Len(queue') : ~IsDefaultRoute(queue'[l])
                  => queue'[k].iface = latest
             /\ pc = "handle" /\ IsDefaultRoute(msg) /\ NoneQueued' => msg.iface = latest
             /\ latest \in up' /\ NoneQueued' /\ ~(pc = "handle" /\ IsDefaultRoute(msg))
                  => Fits(Profile, Name(latest))'
  <2>1. ~lost /\ queue' = Append(queue, [type |-> type, iface |-> i])
    BY Zenon, <1>3, NotifyQueues
  <2>2. PICK m : m = [type |-> type, iface |-> i]
    OBVIOUS
  <2>3. ~IsDefaultRoute(m)
    BY SMT, <2>2 DEF IsDefaultRoute
  <2>4. /\ Len(queue) \in Nat /\ Len(queue') = Len(queue) + 1 /\ queue'[Len(queue) + 1] = m
        /\ \A k \in 1..Len(queue) : queue'[k] = queue[k]
    <3>1. queue \in Seq(Message) /\ queue' = Append(queue, m)
      BY Zenon, <2>1, <2>2 DEF TypeOK
    <3>2. QED
      BY <3>1, Appended
  <2>5. ASSUME NEW k \in 1..Len(queue'), IsDefaultRoute(queue'[k]),
               \A l \in (k + 1)..Len(queue') : ~IsDefaultRoute(queue'[l])
        PROVE  queue'[k].iface = latest
    <3>1. k # Len(queue) + 1
      BY Zenon, <2>3, <2>4, <2>5
    <3>2. /\ k \in 1..Len(queue)
          /\ \A l \in (k + 1)..Len(queue) : l \in (k + 1)..Len(queue') /\ l \in 1..Len(queue)
      BY SMT, <2>4, <3>1
    <3>3. IsDefaultRoute(queue[k]) /\ \A l \in (k + 1)..Len(queue) : ~IsDefaultRoute(queue[l])
      BY Zenon, <2>4, <2>5, <3>2
    <3>4. QED
      BY Zenon, <1>3, <2>1, <2>4, <3>2, <3>3 DEF FollowInv
  <2>6. NoneQueued' => NoneQueued
    <3>1. \A k \in 1..Len(queue) : k \in 1..Len(queue')
      BY SMT, <2>4
    <3>2. QED
      BY Zenon, <2>4, <3>1 DEF NoneQueued, IsDefaultRoute
  <2>7. \A p, n : Fits(p, n)' <=> Fits(p, n)
    BY Zenon DEF Fits
  <2>8. QED
    BY Zenon, <1>1, <1>3, <2>1, <2>5, <2>6, <2>7 DEF FollowInv
<1>4. QED
  BY Zenon, <1>1, <1>2, <1>3 DEF FollowInv, IsDefaultRoute

\* Every step keeps the order of the routes, and Handle gives the last one its profile.
LEMMA FollowStep ==
    ASSUME NamesApart, TypeOK, CountInv, FollowInv, [Next]_vars
    PROVE  FollowInv'
<1>1. ASSUME ChooseAtStart PROVE FollowInv'
  <2>1. pc = "choose" /\ pc' \in {"exited", "bind"} /\ UNCHANGED <<queue, latest>>
    BY Zenon, <1>1 DEF ChooseAtStart, kernel
  <2>2. QED
    BY SMT, <2>1 DEF FollowInv, Listening
<1>2. ASSUME Bind PROVE FollowInv'
  <2>1. pc = "bind" /\ pc' \in {"poll", "ended"} /\ UNCHANGED <<queue, latest, up>>
    BY Zenon, <1>2 DEF Bind, kernel
  <2>2. queue' = <<>> /\ Len(queue') = 0 /\ latest' = NoIface
    BY SMT, <2>1 DEF FollowInv
  <2>3. NoIface \notin up'
    BY Zenon, <2>1, NetworksAssumption DEF TypeOK, NoIface
  <2>4. pc' \notin {"choose", "bind", "handle"}
    BY SMT, <2>1
  <2>5. \A k : k \notin 1..0
    BY SMT
  <2>6. QED
    BY Zenon, <2>2, <2>3, <2>4, <2>5 DEF FollowInv
<1>3. ASSUME PollError PROVE FollowInv'
  <2>1. pc' = "ended"
    BY Zenon, <1>3 DEF PollError
  <2>2. QED
    BY SMT, <2>1 DEF FollowInv, Listening
<1>4. ASSUME Recv PROVE FollowInv'
  <2>1. /\ pc = "poll" /\ ~lost /\ queue # <<>> /\ queue' = Tail(queue) /\ msg' = Head(queue)
        /\ pc' \in {"handle", "crashed"} /\ UNCHANGED <<profiles, kernel, Profile>>
    BY Zenon, <1>4 DEF Recv
  <2>2. CASE pc' = "crashed"
    BY SMT, <2>2 DEF FollowInv, Listening
  <2>3. CASE pc' = "handle"
    <3>1. queue \in Seq(Message)
      BY Zenon DEF TypeOK
    <3>2. /\ Len(queue) \in Nat /\ Len(queue') = Len(queue) - 1 /\ msg' = queue[1]
          /\ 1 \in 1..Len(queue)
          /\ \A k \in 1..Len(queue') : queue'[k] = queue[k + 1] /\ k + 1 \in 1..Len(queue)
      BY SMT, <2>1, <3>1
    <3>3. \A k \in 1..Len(queue) :
            /\ IsDefaultRoute(queue[k])
            /\ \A l \in (k + 1)..Len(queue) : ~IsDefaultRoute(queue[l])
            => queue[k].iface = latest
      BY Zenon, <2>1 DEF FollowInv, Listening
    <3>4. UNCHANGED <<up, ap, latest, profiles, Profile>>
      BY Zenon, <2>1 DEF kernel
    <3>5. ASSUME NEW k \in 1..Len(queue'), IsDefaultRoute(queue'[k]),
                 \A l \in (k + 1)..Len(queue') : ~IsDefaultRoute(queue'[l])
          PROVE  queue'[k].iface = latest'
      <4>1. ASSUME NEW l \in ((k + 1) + 1)..Len(queue) PROVE ~IsDefaultRoute(queue[l])
        <5>1. l - 1 \in (k + 1)..Len(queue') /\ l - 1 \in 1..Len(queue') /\ (l - 1) + 1 = l
          BY SMT, <3>2
        <5>2. QED
          BY Zenon, <3>2, <3>5, <5>1
      <4>2. QED
        BY Zenon, <3>2, <3>3, <3>4, <3>5, <4>1
    <3>6. \A l \in 2..Len(queue) : l - 1 \in 1..Len(queue') /\ (l - 1) + 1 = l
      BY SMT, <3>2
    <3>7. NoneQueued' => \A l \in 2..Len(queue) : ~IsDefaultRoute(queue[l])
      BY ZenonT(60), <3>2, <3>6 DEF NoneQueued, IsDefaultRoute
    <3>8. 1 + 1 = 2 /\ \A k \in 1..Len(queue) : k = 1 \/ k \in 2..Len(queue)
      BY SMT, <3>2
    <3>9. IsDefaultRoute(msg') /\ NoneQueued' => msg'.iface = latest'
      BY Zenon, <3>2, <3>3, <3>4, <3>7, <3>8
    <3>10. NoneQueued' /\ ~IsDefaultRoute(msg') => NoneQueued
      BY Zenon, <3>2, <3>7, <3>8 DEF NoneQueued
    <3>11. Fits(Profile, Name(latest))' <=> Fits(Profile, Name(latest))
      BY Zenon, <3>4 DEF Fits, Name
    <3>12. pc # "handle" /\ pc' \notin {"choose", "bind"}
      BY SMT, <2>1, <2>3
    <3>13. NoneQueued' /\ ~IsDefaultRoute(msg') /\ latest' \in up' => Fits(Profile, Name(latest))'
      BY Zenon, <2>1, <3>4, <3>10, <3>11, <3>12 DEF FollowInv, Listening
    <3>14. QED
      BY Zenon, <2>3, <3>5, <3>9, <3>12, <3>13 DEF FollowInv, IsDefaultRoute
  <2>4. QED
    BY Zenon, <2>1, <2>2, <2>3
<1>5. ASSUME Handle PROVE FollowInv'
  <2>1. /\ pc = "handle" /\ pc' = "poll" /\ msg' = NoMsg
        /\ UNCHANGED <<profiles, queue, lost, up, ap, latest>>
    BY Zenon, <1>5 DEF Handle, kernel
  <2>2. pc' \notin {"choose", "bind", "handle"}
    BY SMT, <2>1
  <2>3. (Listening' => Listening) /\ (lost' <=> lost) /\ (NoneQueued' <=> NoneQueued)
    BY Zenon, <2>1 DEF Listening, NoneQueued
  <2>4. \A p, n : Fits(p, n)' <=> Fits(p, n)
    BY Zenon, <2>1 DEF Fits
  <2>5. (Name(latest))' = Name(latest)
    BY Zenon, <2>1 DEF Name
  <2>6. ASSUME Listening, ~lost, latest \in up, NoneQueued PROVE Fits(Profile', Name(latest))
    <3>1. CASE IsDefaultRoute(msg)
      <4>1. msg.iface = latest /\ latest \in Ifaces
        BY Zenon, <2>1, <2>6, <3>1 DEF FollowInv, TypeOK
      <4>2. Name(latest) \in Seq(Nat)
        BY Zenon, <4>1, NameType
      <4>3. Profile' = IF Chosen(profiles, Name(latest)) = NoProfile THEN Profile
                       ELSE Chosen(profiles, Name(latest))
        BY Zenon, <1>5, <3>1, <4>1 DEF Handle
      <4>4. QED
        BY Zenon, <4>2, <4>3, ChoiceFits
    <3>2. CASE ~IsDefaultRoute(msg)
      <4>1. Profile' = Profile
        BY Zenon, <1>5, <3>2 DEF Handle
      <4>2. QED
        BY Zenon, <2>6, <3>2, <4>1 DEF FollowInv
    <3>3. QED
      BY Zenon, <3>1, <3>2
  <2>7. QED
    BY Zenon, <2>1, <2>2, <2>3, <2>4, <2>5, <2>6 DEF FollowInv, IsDefaultRoute
<1>6. ASSUME NEW i \in Ifaces, RouteAdded(i) PROVE FollowInv'
  <2>1. /\ Notify("RTM_NEWROUTE", i) /\ UNCHANGED <<profiles, monitor>>
        /\ latest' = IF Listening THEN i ELSE latest
    BY Zenon, <1>6 DEF RouteAdded
  <2>2. UNCHANGED <<pc, msg, Profile>> /\ (Listening' <=> Listening)
    BY Zenon, <2>1 DEF monitor, Listening
  <2>3. ASSUME pc \in {"choose", "bind"} PROVE queue' = <<>> /\ latest' = NoIface
    <3>1. ~Listening
      BY SMT, <2>3 DEF Listening
    <3>2. QED
      BY Zenon, <2>1, <2>3, <3>1 DEF Notify, FollowInv
  <2>4. ASSUME Listening, ~lost'
        PROVE  /\ ~NoneQueued'
               /\ \A k \in 1..Len(queue') :
                    /\ IsDefaultRoute(queue'[k])
                    /\ \A l \in (k + 1)..Len(queue') : ~IsDefaultRoute(queue'[l])
                    => queue'[k].iface = latest'
    <3>1. PICK m : m = [type |-> "RTM_NEWROUTE", iface |-> i]
      OBVIOUS
    <3>2. IsDefaultRoute(m) /\ m.iface = i /\ latest' = i
      BY SMT, <2>1, <2>4, <3>1 DEF IsDefaultRoute
    <3>3. queue \in Seq(Message) /\ queue' = Append(queue, m)
      BY Zenon, <2>1, <2>4, <3>1, NotifyQueues DEF TypeOK
    <3>4. Len(queue) \in Nat /\ Len(queue') = Len(queue) + 1 /\ queue'[Len(queue) + 1] = m
      BY <3>3, Appended
    <3>5. Len(queue) + 1 \in 1..Len(queue')
      BY SMT, <3>4
    <3>6. ~NoneQueued'
      BY Zenon, <3>2, <3>4, <3>5 DEF NoneQueued, IsDefaultRoute
    <3>7. ASSUME NEW k \in 1..Len(queue'),
                 \A l \in (k + 1)..Len(queue') : ~IsDefaultRoute(queue'[l])
          PROVE  queue'[k].iface = latest'
      <4>1. Len(queue) + 1 \notin (k + 1)..Len(queue')
        BY Zenon, <3>2, <3>4, <3>7
      <4>2. k = Len(queue) + 1
        BY SMT, <3>4, <4>1
      <4>3. QED
        BY Zenon, <3>2, <3>4, <4>2
    <3>8. QED
      BY Zenon, <3>6, <3>7
  <2>5. QED
    BY Zenon, <2>2, <2>3, <2>4 DEF FollowInv, IsDefaultRoute
<1>7. ASSUME NEW i \in Ifaces, RouteDeleted(i) PROVE FollowInv'
  <2>1. /\ Notify("RTM_DELROUTE", i) /\ UNCHANGED <<profiles, latest, monitor>>
        /\ up' = up \ {i} /\ ap' = [ap EXCEPT ![i] = <<>>]
    BY Zenon, <1>7 DEF RouteDeleted
  <2>2. ASSUME latest \in up' PROVE latest \in up /\ (Name(latest))' = Name(latest)
    <3>1. latest \in up /\ latest # i /\ latest \in Ifaces
      BY Zenon, <2>1, <2>2 DEF TypeOK
    <3>2. ap'[latest] = ap[latest]
      BY SMT, <2>1, <3>1 DEF TypeOK
    <3>3. latest' = latest /\ ap'[latest'] = ap[latest]
      BY Zenon, <2>1, <3>2
    <3>4. (Name(latest))' = Name(latest)
      BY SMT, <3>3 DEF Name
    <3>5. QED
      BY Zenon, <3>1, <3>4
  <2>3. QED
    BY Zenon, <2>1, <2>2, QuietMessage
<1>8. ASSUME NEW i \in Ifaces, OtherRoute(i) PROVE FollowInv'
  <2>1. Notify("other", i) /\ UNCHANGED <<profiles, up, ap, latest, monitor>>
    BY Zenon, <1>8 DEF OtherRoute
  <2>2. (Name(latest))' = Name(latest)
    BY Zenon, <2>1 DEF Name
  <2>3. QED
    BY Zenon, <2>1, <2>2, QuietMessage
<1>9. ASSUME UNCHANGED vars PROVE FollowInv'
  BY Zenon, <1>9
  DEF vars, kernel, monitor, FollowInv, Listening, NoneQueued, IsDefaultRoute, Fits, Name
<1>10. QED
  BY Zenon, <1>1, <1>2, <1>3, <1>4, <1>5, <1>6, <1>7, <1>8, <1>9 DEF Next, Monitor, Kernel, Idle

-----------------------------------------------------------------------------
(* The theorems.                                                           *)

\* The monitor keeps its types: the queue stays inside its limit, the current profile is
\* one of the profiles, and nlh moves over no more messages than there were.
LEMMA MonitorTypes == Spec => [](TypeOK /\ CountInv)
<1>1. Init => TypeOK /\ CountInv
  <2> SUFFICES ASSUME Init PROVE TypeOK /\ CountInv
    OBVIOUS
  <2>1. lost \in BOOLEAN
    BY Zenon DEF Init
  <2>2. ap \in [Ifaces -> Seq(Nat)] /\ \A i \in Ifaces : ap[i] = <<>>
    BY SMT DEF Init
  <2>3. queue \in Seq(Message) /\ Len(queue) = 0
    BY SMT DEF Init
  <2>4. QED
    BY SMT, <2>1, <2>2, <2>3, BoundsAssumption DEF Init, TypeOK, CountInv
<1>2. TypeOK /\ CountInv /\ [Next]_vars => (TypeOK /\ CountInv)'
  BY Zenon, TypeStep
<1>3. QED
  BY <1>1, <1>2, PTL DEF Spec

\* The same as a property of the specification.
THEOREM TypeCorrect == Spec => []TypeOK
BY MonitorTypes, PTL

\* If no profile has two adjacent stars in its name, then whenever the monitor has
\* nothing left to read, the default route announced last, if it is still there, has the
\* profile that fits it, whatever the messages before were and how they were spaced.
THEOREM ProfileFollows ==
    ASSUME NamesApart
    PROVE  Spec => []ProfileFollowsRoute
<1>1. Init => FollowInv
  BY SMT DEF Init, FollowInv, Listening
<1>2. TypeOK /\ CountInv /\ FollowInv /\ [Next]_vars => FollowInv'
  BY Zenon, FollowStep
<1>3. FollowInv => ProfileFollowsRoute
  <2> SUFFICES ASSUME FollowInv, pc = "poll", queue = <<>>, ~lost, latest \in up
               PROVE  Fits(Profile, Name(latest))
    BY Zenon DEF ProfileFollowsRoute
  <2>1. NoneQueued
    BY SMT DEF NoneQueued
  <2>2. pc # "handle"
    BY SMT
  <2>3. QED
    BY Zenon, <2>1, <2>2 DEF FollowInv, Listening
<1>4. QED
  BY <1>1, <1>2, <1>3, MonitorTypes, PTL DEF Spec
=============================================================================
