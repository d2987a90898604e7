--------------------------- MODULE AutoconfProofs ---------------------------
(***************************************************************************)
(* Theorems about Autoconf, for every path and censor, every number of     *)
(* TTLs up to that of a byte, and under all its faults.                    *)
(***************************************************************************)
EXTENDS Autoconf, TLAPS

-----------------------------------------------------------------------------
(* The inductive invariant.                                                *)

Counting == pc \in {"connect", "send", "wait"}
Testing  == pc \in {"trial", "shrink"}
Early    == pc \in {"bundle", "context", "resolve", "retry"}

\* Counters stay inside what bounds them: a try has no more answers than probes and
\* one stray packet; a combination under test is one of the list.
RangeInv ==
    /\ pc \in {"send", "wait"} => ttl >= 1
    /\ pc \notin {"send", "wait"} => replies = 0 /\ clean
    /\ pc = "send" => replies < ttl + (IF clean THEN 0 ELSE 1)
    /\ pc = "wait" => replies <= ttl + (IF clean THEN 0 ELSE 1)
    /\ pc \notin {"choose", "trial", "shrink", "stuck", "thrown", "done"} => fakes_ttl >= 1
    /\ pc \in {"choose", "trial", "shrink"} => fakes_ttl < MaxTtl
    /\ Testing => comb <= comb_all /\ profile \in Profiles
    /\ pc = "shrink" => profile.ttl \in 1..limit

\* The context is live from its creation to the first way out.
ContextInv ==
    /\ ~https => ctx = "none" /\ pc # "context"
    /\ https /\ pc \in {"bundle", "context"} => ctx = "none"
    /\ https /\ pc \notin {"bundle", "context", "thrown", "done"} => ctx = "live"
    /\ pc = "thrown" => ctx \in {"none", "live"}
    /\ pc = "done" => ctx \in {"none", "freed"}

\* What a try may still find: undisturbed, no probe has gone beyond the server and been
\* left without its answer; without stray packets only probes that got there are
\* answered. What the tries so far have found follows.
HopsInv ==
    /\ pc = "send" /\ clean => ttl <= hops /\ replies = 0
    /\ pc = "wait" /\ clean => ttl <= hops /\ (replies > 0 => ttl = hops) /\ (replies = 0 => ttl < hops)
    /\ pc \in {"send", "wait"} /\ ~strayed /\ replies > 0 => ttl >= hops
    /\ Early \/ Counting => (exact => fakes_ttl <= hops) /\ (~strayed => fakes_ttl >= hops)
    /\ HopsMeasured

\* A series that has failed although no test failed by chance is one of a profile
\* that does not work.
SeriesInv == Testing /\ result = -1 /\ ~flaked => ~Works(profile)

\* The search for the least TTL: the one found first passed its tests, and those
\* tried since, below the current one, do not work.
ShrinkInv ==
    pc = "shrink" =>
       /\ [profile EXCEPT !.ttl = limit] \in confirmed
       /\ ~flaked => \A t \in 1..(profile.ttl - 1) : ~Works([profile EXCEPT !.ttl = t])

\* The combinations behind are out, the current one is under test; and a search that
\* ends without a report has tried all.
SearchInv ==
    /\ pc = "trial" => profile = set_profile(comb, fakes_ttl, dns # "off")
    /\ pc \in {"choose", "trial"} /\ ~flaked =>
          \A n \in 1..(comb - 1) : ~Works(set_profile(n, fakes_ttl, FALSE))
    /\ Early \/ Counting => comb = 1
    /\ pc # "done" => reported = NoProfile
    /\ NothingMissed

SearchInvs == SeriesInv /\ ShrinkInv /\ SearchInv /\ ReportedWorked
AutoconfInv == TypeOK /\ RangeInv /\ ContextInv /\ HopsInv /\ SearchInvs

-----------------------------------------------------------------------------
(* Facts about the operators.                                              *)

Switches ==
    /\ https \in BOOLEAN /\ quick \in BOOLEAN /\ checks_seq \in BOOLEAN
    /\ clean \in BOOLEAN /\ exact \in BOOLEAN /\ strayed \in BOOLEAN /\ flaked \in BOOLEAN

\* The path and the censor never change, and switches stay Boolean.
LEMMA SwitchesStep ==
    ASSUME Switches, [Next]_vars
    PROVE  UNCHANGED path /\ Switches'
<1> USE DEF Switches, path, hopping, testing
<1>1. ASSUME load_ca_bundle PROVE UNCHANGED path /\ Switches'
  BY Zenon, <1>1 DEF load_ca_bundle, Return, GoTo
<1>2. ASSUME SSL_CTX_new PROVE UNCHANGED path /\ Switches'
  BY Zenon, <1>2 DEF SSL_CTX_new, Return, GoTo
<1>3. ASSUME Resolve PROVE UNCHANGED path /\ Switches'
  BY Zenon, <1>3 DEF Resolve, GoTo
<1>4. ASSUME ResolveAgain PROVE UNCHANGED path /\ Switches'
  BY Zenon, <1>4 DEF ResolveAgain, GoTo, Return, FreeContext
<1>5. ASSUME Connect PROVE UNCHANGED path /\ Switches'
  BY Zenon, <1>5 DEF Connect, TryEnds, GoTo, Return, FreeContext
<1>6. ASSUME SendProbe PROVE UNCHANGED path /\ Switches'
  BY Zenon, <1>6 DEF SendProbe, TryEnds, GoTo, Return, FreeContext
<1>7. ASSUME PollReply PROVE UNCHANGED path /\ Switches'
  BY Zenon, <1>7 DEF PollReply, TryEnds, GoTo, Return, FreeContext
<1>8. ASSUME PollTimeout PROVE UNCHANGED path /\ Switches'
  BY Zenon, <1>8 DEF PollTimeout, TryEnds, GoTo, Return, FreeContext
<1>9. ASSUME Choose PROVE UNCHANGED path /\ Switches'
  BY Zenon, <1>9 DEF Choose, GoTo
<1>10. ASSUME NothingWorks PROVE UNCHANGED path /\ Switches'
  BY Zenon, <1>10 DEF NothingWorks, FreeContext, Return
<1>11. ASSUME test_desync_attack PROVE UNCHANGED path /\ Switches'
  BY Zenon, <1>11
     DEF test_desync_attack, SeriesEnds, TrialEnds, ShrinkEnds, Report, FreeContext, GoTo, Return
<1>12. ASSUME NoPromise \/ Uncaught PROVE UNCHANGED path /\ Switches'
  BY Zenon, <1>12 DEF NoPromise, Uncaught, GoTo
<1>13. ASSUME LoseReply PROVE UNCHANGED path /\ Switches'
  BY Zenon, <1>13 DEF LoseReply
<1>14. ASSUME StrayPacket PROVE UNCHANGED path /\ Switches'
  BY Zenon, <1>14 DEF StrayPacket
<1>15. ASSUME UNCHANGED vars PROVE UNCHANGED path /\ Switches'
  BY Zenon, <1>15 DEF vars
<1>16. QED
  BY Zenon, <1>1, <1>2, <1>3, <1>4, <1>5, <1>6, <1>7, <1>8, <1>9, <1>10, <1>11, <1>12, <1>13, <1>14, <1>15
  DEF Next, Step, Done

\* There are 32 combinations.
LEMMA Combinations == comb_all = 32
BY SMT DEF comb_all, zero_attacks, first_attacks, fake_types, win_size_scales

\* Each of them is a profile.
LEMMA SetProfile ==
    ASSUME NEW n \in 1..comb_all, NEW t \in 0..MaxTtl, NEW b \in BOOLEAN
    PROVE  set_profile(n, t, b) \in Profiles
<1>1. n - 1 \in 0..31
  BY SMT, Combinations
<1>2. /\ 1 + ((n - 1) \div 8) \in 1..4
      /\ 1 + (((n - 1) \div 4) % 2) \in 1..2
      /\ 1 + (((n - 1) \div 2) % 2) \in 1..2
      /\ 1 + ((n - 1) % 2) \in 1..2
  BY SMT, <1>1
<1>3. \A i \in 1..2 : fake_types[i] \in {"ttl", "wrong-seq"} /\ win_size_scales[i] \in BOOLEAN
  <2>1. fake_types[1] = "ttl" /\ fake_types[2] = "wrong-seq"
    BY SMT DEF fake_types
  <2>2. win_size_scales[1] \in BOOLEAN /\ win_size_scales[2] \in BOOLEAN
    BY SMT DEF win_size_scales
  <2>3. \A i \in 1..2 : i = 1 \/ i = 2
    BY SMT
  <2>4. QED
    BY Zenon, <2>1, <2>2, <2>3
<1>4. 0 \in 0..MaxTtl
  BY SMT, BoundsAssumption
<1>5. QED
  BY Zenon, <1>2, <1>3, <1>4 DEF set_profile, Profiles

WithTtl(p, t) == [zero |-> p.zero, first |-> p.first, scale |-> p.scale, fake |-> p.fake,
                  ttl |-> t, dns |-> p.dns]

\* A profile written out.
LEMMA WrittenOut ==
    ASSUME NEW p, NEW t, p = WithTtl(p, p.ttl)
    PROVE  [p EXCEPT !.ttl = t] = WithTtl(p, t)
BY SMT DEF WithTtl

\* Another TTL makes another profile, and only the last one set counts.
LEMMA OtherTtl ==
    ASSUME NEW p \in Profiles
    PROVE  /\ p.ttl \in 0..MaxTtl /\ p # NoProfile
           /\ [p EXCEPT !.ttl = p.ttl] = p
           /\ \A t \in 0..MaxTtl : [p EXCEPT !.ttl = t] \in Profiles
           /\ \A t \in Int : [p EXCEPT !.ttl = t].ttl = t
           /\ \A t, u \in Int :
                 [[p EXCEPT !.ttl = t] EXCEPT !.ttl = u] = [p EXCEPT !.ttl = u]
<1>1. p.ttl \in 0..MaxTtl /\ p # NoProfile
  BY SMT DEF Profiles, NoProfile
<1>2. p = WithTtl(p, p.ttl)
  BY SMT DEF Profiles, WithTtl
<1>3. \A t : [p EXCEPT !.ttl = t] = WithTtl(p, t)
  BY <1>2, WrittenOut
<1>4. ASSUME NEW t \in 0..MaxTtl PROVE [p EXCEPT !.ttl = t] \in Profiles
  BY SMT DEF Profiles
<1>5. \A t : WithTtl(p, t).ttl = t /\ WithTtl(p, t) = WithTtl(WithTtl(p, t), t)
  BY SMT DEF WithTtl
<1>6. \A t, u : [WithTtl(p, t) EXCEPT !.ttl = u] = WithTtl(WithTtl(p, t), u)
  BY <1>5, WrittenOut
<1>7. \A t, u : WithTtl(WithTtl(p, t), u) = WithTtl(p, u)
  BY SMT DEF WithTtl
<1>8. QED
  BY Zenon, <1>1, <1>2, <1>3, <1>4, <1>5, <1>6, <1>7

\* The same for a profile with another name.
LEMMA NewTtl ==
    ASSUME NEW p \in Profiles, NEW t \in 0..MaxTtl, NEW q, q = [p EXCEPT !.ttl = t]
    PROVE  q \in Profiles /\ q.ttl = t
<1>1. t \in Int
  BY SMT, BoundsAssumption
<1>2. QED
  BY Zenon, <1>1, OtherTtl

\* The loop that looks for the least TTL raises it before it is left, and lowers it
\* after.
LEMMA RaisedAndLowered ==
    ASSUME NEW p \in Profiles
    PROVE  Lowered([p EXCEPT !.ttl = @ + 1]) = p
<1>1. p.ttl \in Int /\ p.ttl + 1 \in Int
  <2>1. p.ttl \in 0..MaxTtl
    BY Zenon, OtherTtl
  <2>2. QED
    BY SMT, <2>1, BoundsAssumption
<1>2. PICK q : q = [p EXCEPT !.ttl = p.ttl + 1]
  OBVIOUS
<1>3. q.ttl = p.ttl + 1
  BY Zenon, <1>1, <1>2, OtherTtl
<1>4. q.ttl - 1 = p.ttl
  BY SMT, <1>1, <1>3
<1>5. [q EXCEPT !.ttl = p.ttl] = [p EXCEPT !.ttl = p.ttl]
  BY Zenon, <1>1, <1>2, OtherTtl
<1>6. Lowered(q) = p
  BY Zenon, <1>4, <1>5, OtherTtl DEF Lowered
<1>7. QED
  BY Zenon, <1>2, <1>6

\* A combination works or not whatever resolver found the site.
LEMMA WorksWithoutDns ==
    ASSUME NEW n \in 1..comb_all, NEW t \in 0..MaxTtl, NEW b \in BOOLEAN
    PROVE  Works(set_profile(n, t, b)) <=> Works(set_profile(n, t, FALSE))
BY Zenon DEF Works, set_profile

-----------------------------------------------------------------------------
(* What one call of test_desync_attack does, case by case: r is the result *)
(* of the series so far.                                                   *)

GoesOn(r) ==
    /\ tests < 3 /\ tests' = tests + 1 /\ result' = r
    /\ UNCHANGED <<pc, ret, ctx, comb, profile, limit, confirmed, reported>>

SeriesOver(r) ==
    /\ tests' = 0 /\ result' = 0
    /\ confirmed' = IF r = 0 THEN confirmed \cup {profile} ELSE confirmed

Dropped(r) ==
    /\ pc = "trial" /\ r = -1 /\ SeriesOver(r)
    /\ comb' = comb + 1 /\ pc' = "choose"
    /\ UNCHANGED <<ret, profile, limit, reported, ctx>>

Lowering(r) ==
    /\ pc = "trial" /\ r = 0 /\ SeriesOver(r) /\ profile.ttl # 0
    /\ limit' = profile.ttl /\ profile' = [profile EXCEPT !.ttl = 1] /\ pc' = "shrink"
    /\ UNCHANGED <<ret, comb, reported, ctx>>

Raising(r) ==
    /\ pc = "shrink" /\ r = -1 /\ SeriesOver(r) /\ profile.ttl + 1 <= limit
    /\ profile' = [profile EXCEPT !.ttl = profile.ttl + 1] /\ pc' = "shrink"
    /\ UNCHANGED <<ret, comb, limit, reported, ctx>>

Reporting(r) ==
    /\ \/ pc = "trial" /\ r = 0 /\ profile.ttl = 0
       \/ pc = "shrink" /\ (r = 0 \/ profile.ttl + 1 > limit)
    /\ SeriesOver(r)
    /\ reported' = profile /\ FreeContext /\ ret' = 0 /\ pc' = "done"
    /\ UNCHANGED <<comb, profile, limit>>

Tested(r) ==
    /\ r = -1 /\ result # -1 => ~Works(profile) \/ flaked'
    /\ flaked => flaked'
    /\ UNCHANGED <<path, dns, hopping>>
    /\ GoesOn(r) \/ Dropped(r) \/ Lowering(r) \/ Raising(r) \/ Reporting(r)

\* A call is one of these cases, and a series fails only with a test that failed.
LEMMA TestCases ==
    ASSUME TypeOK, RangeInv, test_desync_attack
    PROVE  Testing /\ \E r \in {-1, 0} : Tested(r)
<1>1. Testing /\ UNCHANGED <<path, dns, hopping>>
  BY Zenon DEF test_desync_attack, Testing
<1>2. profile \in Profiles /\ profile.ttl \in 0..MaxTtl /\ tests \in 0..3
  BY Zenon, <1>1, OtherTtl DEF TypeOK, RangeInv
<1>3. PICK outcome \in Outcome :
        LET r == IF outcome < result THEN outcome ELSE result
        IN  /\ flaked' = (flaked \/ (outcome = -1 /\ Works(profile)))
            /\ IF tests = 3 \/ (tests = 0 /\ outcome = -1)
               THEN SeriesEnds(r)
               ELSE /\ tests' = tests + 1 /\ result' = r
                    /\ UNCHANGED <<pc, ret, ctx, comb, profile, limit, confirmed, reported>>
  BY Zenon DEF test_desync_attack
<1>4. outcome \in {-1, 0}
  BY Zenon DEF Outcome
<1>5. PICK r \in {-1, 0} : r = IF outcome < result THEN outcome ELSE result
  BY SMT, <1>4 DEF TypeOK
<1>6. flaked => flaked'
  BY Zenon, <1>3
<1>7. r = -1 /\ result # -1 => ~Works(profile) \/ flaked'
  <2>1. r = -1 /\ result # -1 => outcome = -1
    BY SMT, <1>4, <1>5 DEF TypeOK
  <2>2. QED
    BY Zenon, <1>3, <2>1
<1>8. CASE ~(tests = 3 \/ (tests = 0 /\ outcome = -1))
  <2>1. GoesOn(r)
    <3>1. tests < 3
      BY SMT, <1>2, <1>8
    <3>2. QED
      BY Zenon, <1>3, <1>5, <1>8, <3>1 DEF GoesOn
  <2>2. QED
    BY Zenon, <1>1, <1>6, <1>7, <2>1 DEF Tested
<1>9. CASE tests = 3 \/ (tests = 0 /\ outcome = -1)
  <2>1. SeriesEnds(r)
    BY Zenon, <1>3, <1>5, <1>9
  <2>2. SeriesOver(r)
    BY Zenon, <2>1 DEF SeriesEnds, SeriesOver
  <2>3. CASE pc = "trial"
    <3>1. TrialEnds(r)
      BY Zenon, <2>1, <2>3 DEF SeriesEnds
    <3>2. Dropped(r) \/ Lowering(r) \/ Reporting(r)
      BY SMT, <2>2, <2>3, <3>1
      DEF TrialEnds, Dropped, Lowering, Reporting, Report, Following, FromOne, GoTo, Return
    <3>3. QED
      BY Zenon, <1>1, <1>6, <1>7, <3>2 DEF Tested
  <2>4. CASE pc = "shrink"
    <3>1. ShrinkEnds(r)
      BY Zenon, <2>1, <2>4 DEF SeriesEnds
    <3>2. PICK raised : raised = [profile EXCEPT !.ttl = profile.ttl + 1]
      OBVIOUS
    <3>3. raised.ttl = profile.ttl + 1
      <4>1. profile.ttl + 1 \in Int
        BY SMT, <1>2, BoundsAssumption
      <4>2. QED
        BY Zenon, <1>2, <3>2, <4>1, OtherTtl
    <3>4. Lowered(raised) = profile
      BY Zenon, <1>2, <3>2, RaisedAndLowered
    <3>5. /\ UNCHANGED <<comb, limit>>
          /\ IF profile.ttl + 1 <= limit /\ r = -1
             THEN profile' = raised /\ GoTo("shrink") /\ UNCHANGED <<reported, ctx>>
             ELSE Report(profile)
      BY Zenon, <3>1, <3>2, <3>3, <3>4 DEF ShrinkEnds
    <3>6. Raising(r) \/ Reporting(r)
      BY SMT, <1>2, <2>2, <2>4, <3>2, <3>5, BoundsAssumption
      DEF Raising, Reporting, Report, GoTo, Return, TypeOK
    <3>7. QED
      BY Zenon, <1>1, <1>6, <1>7, <3>6 DEF Tested
  <2>5. QED
    BY Zenon, <1>1, <2>3, <2>4 DEF Testing
<1>10. QED
  BY Zenon, <1>1, <1>8, <1>9 DEF Tested

-----------------------------------------------------------------------------
(* Types and ranges.                                                       *)

\* The types hold when run_autoconf starts.
LEMMA TypeInit == Init => TypeOK /\ RangeInv
<1> SUFFICES ASSUME Init PROVE TypeOK /\ RangeInv
  OBVIOUS
<1>1. Switches
  BY Zenon DEF Init, Switches
<1>2. QED
  BY SMT, <1>1, BoundsAssumption, Combinations
  DEF Init, TypeOK, RangeInv, Switches, Testing

\* A try that ends keeps them: the next one starts, or the combinations are tried with
\* one hop less, or there was no answer.
LEMMA TryEndsKeepsTypes ==
    ASSUME TypeOK, RangeInv, Counting, NEW found \in (1..MaxTtl) \cup {256},
           Switches', TryEnds(found), UNCHANGED <<path, dns, testing>>
    PROVE  TypeOK' /\ RangeInv'
<1>1. PICK least \in (1..MaxTtl) \cup {256} : least = Least(found)
  BY SMT, BoundsAssumption DEF TypeOK, RangeInv, Counting, Least
<1>2. CASE attempt < 3
  BY SMT, <1>1, <1>2, BoundsAssumption
  DEF TryEnds, GoTo, TypeOK, RangeInv, Counting, Testing, Switches, path, testing
<1>3. CASE ~(attempt < 3)
  BY SMT, <1>1, <1>3, BoundsAssumption
  DEF TryEnds, GoTo, Return, FreeContext, SSL_CTX_free, TypeOK, RangeInv, Counting, Testing,
      Switches, path, testing
<1>4. QED
  BY Zenon, <1>2, <1>3

\* Every step keeps the types and the ranges.
LEMMA TypeStep == ASSUME TypeOK, RangeInv, [Next]_vars PROVE TypeOK' /\ RangeInv'
<1>0. UNCHANGED path /\ Switches'
  <2>1. Switches
    BY Zenon DEF TypeOK, Switches
  <2>2. QED
    BY Zenon, <2>1, SwitchesStep
<1> USE DEF TypeOK, RangeInv, Counting, Testing, Switches, path, hopping, testing
<1>1. ASSUME load_ca_bundle PROVE TypeOK' /\ RangeInv'
  BY SMT, <1>1, <1>0 DEF load_ca_bundle, Return, GoTo
<1>2. ASSUME SSL_CTX_new PROVE TypeOK' /\ RangeInv'
  BY SMT, <1>2, <1>0 DEF SSL_CTX_new, Return, GoTo
<1>3. ASSUME Resolve PROVE TypeOK' /\ RangeInv'
  BY SMT, <1>3, <1>0 DEF Resolve, GoTo
<1>4. ASSUME ResolveAgain PROVE TypeOK' /\ RangeInv'
  BY SMT, <1>4, <1>0 DEF ResolveAgain, GoTo, Return, FreeContext, SSL_CTX_free
<1>5. ASSUME Connect PROVE TypeOK' /\ RangeInv'
  <2>1. CASE TryEnds(256) /\ UNCHANGED <<path, dns, testing>>
    BY Zenon, <1>0, <1>5, <2>1, TryEndsKeepsTypes DEF Connect
  <2>2. CASE ~(TryEnds(256) /\ UNCHANGED <<path, dns, testing>>)
    <3>1. /\ pc = "connect" /\ pc' = "send" /\ ttl' = 1
          /\ UNCHANGED <<attempt, replies, clean, fakes_ttl, exact, strayed, ret, ctx, dns, testing>>
      BY Zenon, <1>5, <2>2 DEF Connect, GoTo
    <3>2. 1 \in 0..MaxTtl
      BY SMT, BoundsAssumption
    <3>3. clean /\ clean' /\ replies' = 0
      BY Zenon, <3>1
    <3>4. QED
      BY SMT, <1>0, <3>1, <3>2, <3>3
  <2>3. QED
    BY ZenonT(60), <2>1, <2>2
<1>6. ASSUME SendProbe PROVE TypeOK' /\ RangeInv'
  <2>1. CASE TryEnds(256) /\ UNCHANGED <<path, dns, testing>>
    BY Zenon, <1>0, <1>6, <2>1, TryEndsKeepsTypes DEF SendProbe
  <2>2. CASE ~(TryEnds(256) /\ UNCHANGED <<path, dns, testing>>)
    BY SMT, <1>0, <1>6, <2>2, BoundsAssumption DEF SendProbe, GoTo
  <2>3. QED
    BY ZenonT(60), <2>1, <2>2
<1>7. ASSUME PollReply PROVE TypeOK' /\ RangeInv'
  <2>1. ttl \in (1..MaxTtl) \cup {256}
    BY SMT, <1>7 DEF PollReply
  <2>2. QED
    BY Zenon, <1>0, <1>7, <2>1, TryEndsKeepsTypes DEF PollReply
<1>8. ASSUME PollTimeout PROVE TypeOK' /\ RangeInv'
  <2>1. CASE TryEnds(256) /\ UNCHANGED <<path, dns, testing>>
    BY Zenon, <1>0, <1>8, <2>1, TryEndsKeepsTypes DEF PollTimeout
  <2>2. CASE ~(TryEnds(256) /\ UNCHANGED <<path, dns, testing>>)
    BY SMT, <1>0, <1>8, <2>2, BoundsAssumption DEF PollTimeout, GoTo, NoTtlLeft
  <2>3. QED
    BY ZenonT(60), <2>1, <2>2
<1>9. ASSUME Choose PROVE TypeOK' /\ RangeInv'
  <2>1. comb \in 1..comb_all /\ fakes_ttl \in 0..MaxTtl
    BY SMT, <1>9, Combinations, BoundsAssumption DEF Choose, Untried
  <2>2. profile' \in Profiles
    BY Zenon, <1>9, <2>1, SetProfile DEF Choose
  <2>3. QED
    BY SMT, <1>9, <1>0, <2>1, <2>2 DEF Choose, GoTo
<1>10. ASSUME NothingWorks PROVE TypeOK' /\ RangeInv'
  BY SMT, <1>10, <1>0 DEF NothingWorks, FreeContext, SSL_CTX_free, Return
<1>11. ASSUME test_desync_attack PROVE TypeOK' /\ RangeInv'
  <2>1. PICK r \in {-1, 0} : Tested(r)
    BY Zenon, <1>11, TestCases
  <2>2. CASE GoesOn(r)
    BY SMT, <1>0, <2>1, <2>2 DEF Tested, GoesOn
  <2>3. CASE Dropped(r)
    BY SMT, <1>0, <2>1, <2>3, Combinations DEF Tested, Dropped, SeriesOver
  <2>4. CASE Lowering(r)
    <3>1. profile \in Profiles /\ profile.ttl \in 0..MaxTtl /\ profile.ttl # 0
      BY Zenon, <2>4, OtherTtl DEF Lowering
    <3>2. 1 \in 0..MaxTtl /\ profile.ttl \in 1..MaxTtl
      BY SMT, <3>1, BoundsAssumption
    <3>3. profile' \in Profiles /\ (profile.ttl)' = 1
      BY <2>4, <3>1, <3>2, NewTtl DEF Lowering
    <3>4. QED
      BY SMT, <1>0, <2>1, <2>4, <3>1, <3>2, <3>3 DEF Tested, Lowering, SeriesOver
  <2>5. CASE Raising(r)
    <3>1. profile \in Profiles /\ profile.ttl \in 1..limit
      BY Zenon, <2>5 DEF Raising
    <3>2. profile.ttl + 1 \in 0..MaxTtl /\ profile.ttl + 1 \in 1..limit
      BY SMT, <2>5, <3>1, BoundsAssumption DEF Raising
    <3>3. profile' \in Profiles /\ (profile.ttl)' = profile.ttl + 1
      BY <2>5, <3>1, <3>2, NewTtl DEF Raising
    <3>4. QED
      BY SMT, <1>0, <2>1, <2>5, <3>1, <3>2, <3>3 DEF Tested, Raising, SeriesOver
  <2>6. CASE Reporting(r)
    BY SMT, <1>0, <2>1, <2>6 DEF Tested, Reporting, SeriesOver, FreeContext, SSL_CTX_free
  <2>7. QED
    BY Zenon, <2>1, <2>2, <2>3, <2>4, <2>5, <2>6 DEF Tested
<1>12. ASSUME NoPromise \/ Uncaught PROVE TypeOK' /\ RangeInv'
  <2>1. /\ pc' \in {"stuck", "thrown"} /\ UNCHANGED <<ret, path, ctx, dns, hopping, testing>>
        /\ pc \in {"bundle", "resolve", "retry", "connect", "trial", "shrink"}
    BY Zenon, <1>12 DEF NoPromise, Uncaught, GoTo
  <2>2. QED
    BY SMT, <1>0, <2>1
<1>13. ASSUME LoseReply PROVE TypeOK' /\ RangeInv'
  <2>1. ~clean' /\ pc = "wait" /\ replies > 0
    BY Zenon, <1>13 DEF LoseReply
  <2>2. QED
    BY SMT, <1>13, <1>0, <2>1, BoundsAssumption DEF LoseReply
<1>14. ASSUME StrayPacket PROVE TypeOK' /\ RangeInv'
  <2>1. clean /\ ~clean' /\ pc = "wait"
    BY Zenon, <1>14 DEF StrayPacket
  <2>2. QED
    BY SMT, <1>14, <1>0, <2>1, BoundsAssumption DEF StrayPacket
<1>15. ASSUME UNCHANGED vars PROVE TypeOK' /\ RangeInv'
  BY SMT, <1>15, <1>0 DEF vars
<1>16. QED
  BY Zenon, <1>1, <1>2, <1>3, <1>4, <1>5, <1>6, <1>7, <1>8, <1>9, <1>10, <1>11, <1>12, <1>13, <1>14, <1>15
  DEF Next, Step, Done

-----------------------------------------------------------------------------
(* The context.                                                            *)

\* Every step keeps it live until the first way out and frees it there.
LEMMA ContextStep ==
    ASSUME TypeOK, RangeInv, ContextInv, [Next]_vars
    PROVE  ContextInv'
<1>0. UNCHANGED https
  <2>1. Switches
    BY Zenon DEF TypeOK, Switches
  <2>2. QED
    BY Zenon, <2>1, SwitchesStep DEF path
<1> USE DEF ContextInv, Testing, path, hopping, testing, FreeContext, SSL_CTX_free, TryEnds
<1>1. ASSUME load_ca_bundle PROVE ContextInv'
  BY SMT, <1>1, <1>0 DEF load_ca_bundle, Return, GoTo
<1>2. ASSUME SSL_CTX_new PROVE ContextInv'
  BY SMT, <1>2, <1>0 DEF SSL_CTX_new, Return, GoTo
<1>3. ASSUME Resolve PROVE ContextInv'
  BY SMT, <1>3, <1>0 DEF Resolve, GoTo, Return
<1>4. ASSUME ResolveAgain PROVE ContextInv'
  BY SMT, <1>4, <1>0 DEF ResolveAgain, GoTo, Return, FreeContext
<1>5. ASSUME Connect PROVE ContextInv'
  BY SMT, <1>5, <1>0 DEF Connect, GoTo, Return
<1>6. ASSUME SendProbe PROVE ContextInv'
  BY SMT, <1>6, <1>0 DEF SendProbe, GoTo, Return
<1>7. ASSUME PollReply PROVE ContextInv'
  BY SMT, <1>7, <1>0 DEF PollReply, GoTo, Return
<1>8. ASSUME PollTimeout PROVE ContextInv'
  BY SMT, <1>8, <1>0 DEF PollTimeout, GoTo, Return
<1>9. ASSUME Choose PROVE ContextInv'
  BY SMT, <1>9, <1>0 DEF Choose, GoTo, Return
<1>10. ASSUME NothingWorks PROVE ContextInv'
  BY SMT, <1>10, <1>0 DEF NothingWorks, FreeContext, Return
<1>11. ASSUME test_desync_attack PROVE ContextInv'
  <2>1. PICK r \in {-1, 0} : Tested(r)
    BY Zenon, <1>11, TestCases
  <2>2. Testing
    BY Zenon, <1>11, TestCases
  <2>3. CASE Reporting(r)
    BY SMT, <1>0, <2>2, <2>3 DEF Reporting
  <2>4. CASE ~Reporting(r)
    <3>1. UNCHANGED ctx /\ pc' \in {"choose", "trial", "shrink"}
      BY SMT, <2>1, <2>2, <2>4 DEF Tested, GoesOn, Dropped, Lowering, Raising
    <3>2. QED
      BY SMT, <1>0, <2>2, <3>1
  <2>5. QED
    BY Zenon, <2>3, <2>4
<1>12. ASSUME NoPromise \/ Uncaught PROVE ContextInv'
  <2>1. /\ pc' \in {"stuck", "thrown"} /\ UNCHANGED <<ret, path, ctx, dns, hopping, testing>>
        /\ pc \in {"bundle", "resolve", "retry", "connect", "trial", "shrink"}
        /\ pc' = "stuck" => pc \in {"connect", "trial", "shrink"}
    BY SMT, <1>12 DEF NoPromise, Uncaught, GoTo
  <2>2. QED
    BY SMT, <1>0, <2>1
<1>13. ASSUME LoseReply PROVE ContextInv'
  BY SMT, <1>13, <1>0 DEF LoseReply
<1>14. ASSUME StrayPacket PROVE ContextInv'
  BY SMT, <1>14, <1>0 DEF StrayPacket
<1>15. ASSUME UNCHANGED vars PROVE ContextInv'
  BY SMT, <1>15, <1>0 DEF vars
<1>16. QED
  BY Zenon, <1>1, <1>2, <1>3, <1>4, <1>5, <1>6, <1>7, <1>8, <1>9, <1>10, <1>11, <1>12, <1>13, <1>14, <1>15
  DEF Next, Step, Done

-----------------------------------------------------------------------------
(* The measured distance.                                                  *)

\* A try that ends keeps what is known of the hops, if what it found is the distance
\* when it was undisturbed, and no less without stray packets.
LEMMA TryEndsKeepsHops ==
    ASSUME TypeOK, RangeInv, HopsInv, Counting, UNCHANGED path,
           NEW found \in (1..MaxTtl) \cup {256}, TryEnds(found),
           clean /\ found # 256 => found = hops,
           ~strayed => found >= hops
    PROVE  HopsInv'
<1>1. PICK least \in (1..MaxTtl) \cup {256} : least = Least(found)
  BY SMT, BoundsAssumption DEF TypeOK, RangeInv, Counting, Least
<1>2. (exact' <=> exact \/ (clean /\ found # 256)) /\ (strayed' <=> strayed)
  BY Zenon DEF TryEnds
<1>3. hops \in 1..MaxHops /\ hops' = hops
  BY Zenon DEF TypeOK, path
<1>4. (exact' => least <= hops) /\ (~strayed' => least >= hops)
  <2>1. (exact => fakes_ttl <= hops) /\ (~strayed => fakes_ttl >= hops)
    BY Zenon DEF HopsInv
  <2>2. fakes_ttl \in (1..MaxTtl) \cup {256}
    BY SMT, BoundsAssumption DEF TypeOK, RangeInv, Counting
  <2>3. QED
    BY SMT, <1>1, <1>2, <1>3, <2>1, <2>2, BoundsAssumption DEF Least
<1>5. \/ pc' = "connect" /\ fakes_ttl' = least
      \/ pc' = "done"
      \/ pc' = "choose" /\ fakes_ttl' = least - 1 /\ least # 256
  BY SMT, <1>1 DEF TryEnds, GoTo, Return
<1>6. QED
  BY SMT, <1>1, <1>3, <1>4, <1>5, BoundsAssumption DEF HopsInv, HopsMeasured, Counting, Early

\* Every step keeps what is known of the hops.
LEMMA HopsStep ==
    ASSUME TypeOK, RangeInv, HopsInv, [Next]_vars
    PROVE  HopsInv'
<1>0. UNCHANGED path
  <2>1. Switches
    BY Zenon DEF TypeOK, Switches
  <2>2. QED
    BY Zenon, <2>1, SwitchesStep
<1>1. ASSUME load_ca_bundle PROVE HopsInv'
  BY SMT, <1>1, <1>0, BoundsAssumption
     DEF load_ca_bundle, Return, GoTo, HopsInv, HopsMeasured, Counting, Early, path, hopping
<1>2. ASSUME SSL_CTX_new PROVE HopsInv'
  BY SMT, <1>2, <1>0, BoundsAssumption
     DEF SSL_CTX_new, Return, GoTo, HopsInv, HopsMeasured, Counting, Early, path, hopping
<1>3. ASSUME Resolve PROVE HopsInv'
  BY SMT, <1>3, <1>0, BoundsAssumption
     DEF Resolve, GoTo, HopsInv, HopsMeasured, Counting, Early, path, hopping
<1>4. ASSUME ResolveAgain PROVE HopsInv'
  BY SMT, <1>4, <1>0, BoundsAssumption
     DEF ResolveAgain, GoTo, Return, FreeContext, HopsInv, HopsMeasured, Counting, Early, path, hopping
<1>5. ASSUME Connect PROVE HopsInv'
  <2>1. CASE TryEnds(256)
    BY SMT, <1>0, <1>5, <2>1, TryEndsKeepsHops, BoundsAssumption DEF Connect, Counting, TypeOK
  <2>2. CASE ~TryEnds(256)
    <3>1. /\ pc = "connect" /\ ttl' = 1 /\ GoTo("send")
          /\ UNCHANGED <<attempt, replies, clean, fakes_ttl, exact, strayed, ctx>>
      BY Zenon, <1>5, <2>2 DEF Connect
    <3>4. pc' = "send" /\ replies' = replies /\ fakes_ttl' = fakes_ttl
      BY Zenon, <3>1 DEF GoTo
    <3>5. (exact' <=> exact) /\ (strayed' <=> strayed)
      BY Zenon, <3>1
    <3>2. replies = 0 /\ hops \in 1..MaxHops /\ hops' = hops
      BY Zenon, <1>0, <3>1 DEF RangeInv, TypeOK, path
    <3>3. QED
      BY SMT, <3>1, <3>2, <3>4, <3>5, BoundsAssumption DEF HopsInv, HopsMeasured, Counting, Early
  <2>3. QED
    BY Zenon, <2>1, <2>2
<1>6. ASSUME SendProbe PROVE HopsInv'
  <2>1. CASE TryEnds(256)
    BY SMT, <1>0, <1>6, <2>1, TryEndsKeepsHops, BoundsAssumption DEF SendProbe, Counting, TypeOK
  <2>2. CASE ~TryEnds(256)
    <3>1. /\ pc = "send" /\ GoTo("wait")
          /\ replies' = IF ttl >= hops THEN replies + 1 ELSE replies
          /\ UNCHANGED <<attempt, ttl, clean, fakes_ttl, exact, strayed, ctx>>
      BY Zenon, <1>6, <2>2 DEF SendProbe
    <3>4. pc' = "wait" /\ ttl' = ttl /\ fakes_ttl' = fakes_ttl
      BY Zenon, <3>1 DEF GoTo
    <3>5. (clean' <=> clean) /\ (exact' <=> exact) /\ (strayed' <=> strayed)
      BY Zenon, <3>1
    <3>2. /\ hops \in 1..MaxHops /\ hops' = hops
          /\ ttl \in 0..MaxTtl /\ replies \in 0..(MaxTtl + 1)
      BY Zenon, <1>0 DEF TypeOK, path
    <3>3. QED
      BY SMT, <3>1, <3>2, <3>4, <3>5, BoundsAssumption DEF HopsInv, HopsMeasured, Counting, Early
  <2>3. QED
    BY Zenon, <2>1, <2>2
<1>7. ASSUME PollReply PROVE HopsInv'
  <2>1. pc = "wait" /\ replies > 0 /\ TryEnds(ttl)
    BY Zenon, <1>7 DEF PollReply
  <2>2. ttl \in 1..MaxTtl
    BY SMT, <2>1, BoundsAssumption DEF TypeOK, RangeInv
  <2>3. (clean => ttl = hops) /\ (~strayed => ttl >= hops) /\ Counting
    BY Zenon, <2>1 DEF HopsInv, Counting
  <2>4. QED
    BY Zenon, <1>0, <2>1, <2>2, <2>3, TryEndsKeepsHops
<1>8. ASSUME PollTimeout PROVE HopsInv'
  <2>1. CASE NoTtlLeft
    BY SMT, <1>0, <1>8, <2>1, TryEndsKeepsHops, BoundsAssumption DEF PollTimeout, Counting, TypeOK
  <2>2. CASE ~NoTtlLeft
    <3>1. /\ pc = "wait" /\ pc' = "send" /\ ttl' = ttl + 1
          /\ (clean' <=> clean /\ replies = 0)
          /\ UNCHANGED <<replies, fakes_ttl>>
          /\ (exact' <=> exact) /\ (strayed' <=> strayed)
      BY Zenon, <1>8, <2>2 DEF PollTimeout, GoTo
    <3>2. /\ hops \in 1..MaxHops /\ hops' = hops
          /\ ttl \in 0..MaxTtl /\ replies \in 0..(MaxTtl + 1)
      BY Zenon, <1>0 DEF TypeOK, path
    <3>3. QED
      BY SMT, <3>1, <3>2, BoundsAssumption DEF HopsInv, HopsMeasured, Counting, Early
  <2>3. QED
    BY Zenon, <2>1, <2>2
<1>9. ASSUME Choose PROVE HopsInv'
  BY SMT, <1>9, <1>0, BoundsAssumption
     DEF Choose, GoTo, HopsInv, HopsMeasured, Counting, Early, path, hopping
<1>10. ASSUME NothingWorks PROVE HopsInv'
  BY SMT, <1>10, <1>0, BoundsAssumption
     DEF NothingWorks, FreeContext, Return, HopsInv, HopsMeasured, Counting, Early, path, hopping
<1>11. ASSUME test_desync_attack PROVE HopsInv'
  <2>1. PICK r \in {-1, 0} : Tested(r)
    BY Zenon, <1>11, TestCases
  <2>2. Testing /\ UNCHANGED <<path, hopping>>
    BY Zenon, <1>11, <2>1, TestCases DEF Tested
  <2>3. pc' \in {"choose", "trial", "shrink", "done"}
    BY SMT, <2>1, <2>2 DEF Tested, GoesOn, Dropped, Lowering, Raising, Reporting, Testing
  <2>4. QED
    BY SMT, <2>2, <2>3 DEF HopsInv, HopsMeasured, Counting, Early, Testing, path, hopping
<1>12. ASSUME NoPromise \/ Uncaught PROVE HopsInv'
  BY SMT, <1>12, <1>0, BoundsAssumption
     DEF NoPromise, Uncaught, GoTo, HopsInv, HopsMeasured, Counting, Early, path, hopping
<1>13. ASSUME LoseReply PROVE HopsInv'
  <2>1. pc = "wait" /\ pc' = "wait" /\ ~clean' /\ replies' = replies - 1 /\ replies > 0
    BY Zenon, <1>13 DEF LoseReply
  <2>2. UNCHANGED <<ttl, fakes_ttl>> /\ (exact' <=> exact) /\ (strayed' <=> strayed)
    BY Zenon, <1>13 DEF LoseReply
  <2>3. hops' = hops /\ replies \in 0..(MaxTtl + 1)
    BY Zenon, <1>0 DEF TypeOK, path
  <2>4. QED
    BY SMT, <2>1, <2>2, <2>3, BoundsAssumption DEF HopsInv, HopsMeasured, Counting, Early
<1>14. ASSUME StrayPacket PROVE HopsInv'
  <2>1. pc = "wait" /\ pc' = "wait" /\ ~clean' /\ strayed'
    BY Zenon, <1>14 DEF StrayPacket
  <2>2. UNCHANGED <<fakes_ttl>> /\ (exact' <=> exact)
    BY Zenon, <1>14 DEF StrayPacket
  <2>3. hops' = hops
    BY Zenon, <1>0 DEF path
  <2>4. QED
    BY SMT, <2>1, <2>2, <2>3 DEF HopsInv, HopsMeasured, Counting, Early
<1>15. ASSUME UNCHANGED vars PROVE HopsInv'
  BY SMT, <1>15, <1>0, BoundsAssumption DEF vars, HopsInv, HopsMeasured, Counting, Early, path, hopping
<1>16. QED
  BY Zenon, <1>1, <1>2, <1>3, <1>4, <1>5, <1>6, <1>7, <1>8, <1>9, <1>10, <1>11, <1>12, <1>13, <1>14, <1>15
  DEF Next, Step, Done

-----------------------------------------------------------------------------
(* The search.                                                             *)

\* Whether a profile works does not change, since path and censor do not.
LEMMA WorksStays ==
    ASSUME UNCHANGED path, NEW p
    PROVE  Works(p)' <=> Works(p)
BY Zenon DEF Works, path

\* A step of resolution or of hop counting, which does not touch the search. It may
\* start it, or end run_autoconf with an error.
LEMMA QuietStep ==
    ASSUME SearchInvs, UNCHANGED <<path, testing>>, pc # "done", Early \/ Counting \/ Testing,
           pc' \notin {"trial", "shrink"}, pc' = "done" => ret' # 0,
           pc' \in {"bundle", "context", "resolve", "retry", "connect", "send", "wait", "choose"}
              => Early \/ Counting
    PROVE  SearchInvs'
<1> USE DEF SearchInvs, testing
<1>1. SeriesInv' /\ ShrinkInv'
  BY Zenon DEF SeriesInv, ShrinkInv, Testing
<1>2. reported' = NoProfile /\ comb' = comb
  BY Zenon DEF SearchInv
<1>3. ReportedWorked'
  BY Zenon, <1>2 DEF ReportedWorked
<1>4. NothingMissed'
  BY Zenon DEF NothingMissed
<1>5. (Early \/ Counting)' => comb' = 1
  BY Zenon, <1>2 DEF SearchInv, Early, Counting
<1>6. pc' = "choose" => comb' = 1
  BY Zenon, <1>2 DEF SearchInv
<1>7. pc' \in {"choose", "trial"} /\ ~flaked' =>
        \A n \in 1..(comb' - 1) : ~(Works(set_profile(n, fakes_ttl, FALSE)))'
  <2>1. \A n \in 1..(1 - 1) : FALSE
    BY SMT
  <2>2. QED
    BY Zenon, <1>6, <2>1
<1>8. QED
  BY Zenon, <1>1, <1>2, <1>3, <1>4, <1>5, <1>7 DEF SearchInv

\* A try that ends starts the next one or the search, or fails.
LEMMA TryEndsIsQuiet ==
    ASSUME SearchInvs, Counting, NEW found, TryEnds(found), UNCHANGED <<path, dns, testing>>
    PROVE  SearchInvs'
<1>1. pc' \in {"connect", "choose"} \/ (pc' = "done" /\ ret' = -1)
  BY Zenon DEF TryEnds, GoTo, Return
<1>2. pc' # "done" => pc' \in {"connect", "choose"}
  BY Zenon, <1>1
<1>3. -1 # 0
  BY SMT
<1>4. pc # "done" /\ pc' \notin {"trial", "shrink"} /\ (pc' = "done" => ret' # 0)
  BY SMT, <1>1 DEF Counting
<1>5. QED
  BY Zenon, <1>4, QuietStep

\* A series that fails although no test failed by chance shows that the profile does
\* not work.
LEMMA FailedSeries ==
    ASSUME SeriesInv, Testing, Tested(-1), ~flaked'
    PROVE  ~Works(profile)
BY Zenon DEF SeriesInv, Tested

\* One test keeps the invariants of the search.
LEMMA TestStep ==
    ASSUME TypeOK, RangeInv, SearchInvs, test_desync_attack
    PROVE  SearchInvs'
<1> USE DEF SearchInvs
<1>1. Testing /\ profile \in Profiles /\ profile.ttl \in 0..MaxTtl /\ profile # NoProfile
  BY Zenon, TestCases, OtherTtl DEF RangeInv
<1>2. PICK r \in {-1, 0} : Tested(r)
  BY Zenon, TestCases
<1>3. UNCHANGED path /\ UNCHANGED dns /\ fakes_ttl' = fakes_ttl /\ (flaked => flaked')
  BY Zenon, <1>2 DEF Tested, hopping
<1>4. \A p : Works(p)' <=> Works(p)
  BY Zenon, <1>3, WorksStays
<1>5. r = -1 /\ ~flaked' => ~Works(profile)
  BY Zenon, <1>1, <1>2, FailedSeries
<1>6. reported = NoProfile
  BY Zenon, <1>1 DEF SearchInv, Testing
<1>7. CASE GoesOn(r)
  <2>1. UNCHANGED <<pc, comb, profile, limit, confirmed, reported>> /\ result' = r
    BY Zenon, <1>7 DEF GoesOn
  <2>2. SeriesInv'
    BY Zenon, <1>4, <1>5, <2>1 DEF SeriesInv
  <2>3. ShrinkInv'
    BY Zenon, <1>3, <1>4, <2>1 DEF ShrinkInv
  <2>4. SearchInv'
    <3>1. ~(Early \/ Counting)'
      BY SMT, <1>1, <2>1 DEF Testing, Early, Counting
    <3>2. (pc = "trial" => profile = set_profile(comb, fakes_ttl, dns # "off"))'
      BY Zenon, <1>3, <2>1 DEF SearchInv
    <3>3. (pc \in {"choose", "trial"} /\ ~flaked =>
             \A n \in 1..(comb - 1) : ~Works(set_profile(n, fakes_ttl, FALSE)))'
      BY Zenon, <1>3, <1>4, <2>1 DEF SearchInv
    <3>4. NothingMissed'
      BY SMT, <1>1, <2>1 DEF NothingMissed, Testing
    <3>5. QED
      BY Zenon, <1>6, <2>1, <3>1, <3>2, <3>3, <3>4 DEF SearchInv
  <2>5. ReportedWorked'
    BY Zenon, <1>6, <2>1 DEF ReportedWorked
  <2>6. QED
    BY Zenon, <2>2, <2>3, <2>4, <2>5
<1>8. CASE Dropped(r)
  <2>1. /\ pc = "trial" /\ r = -1 /\ pc' = "choose" /\ comb' = comb + 1
        /\ UNCHANGED <<reported, profile>>
    BY Zenon, <1>8 DEF Dropped
  <2>2. SeriesInv' /\ ShrinkInv' /\ ReportedWorked' /\ NothingMissed' /\ ~(Early \/ Counting)'
    BY Zenon, <1>6, <2>1
    DEF SeriesInv, ShrinkInv, ReportedWorked, NothingMissed, Testing, Early, Counting
  <2>3. ASSUME ~flaked', NEW n \in 1..comb
        PROVE  ~Works(set_profile(n, fakes_ttl, FALSE))
    <3>1. CASE n = comb
      <4>1. profile = set_profile(comb, fakes_ttl, dns # "off")
        BY Zenon, <2>1 DEF SearchInv
      <4>2. comb \in 1..comb_all /\ fakes_ttl \in 0..MaxTtl
        BY SMT, <1>1, <2>1, Combinations, BoundsAssumption DEF TypeOK, RangeInv
      <4>3. (dns # "off") \in BOOLEAN
        OBVIOUS
      <4>4. QED
        BY Zenon, <1>5, <2>1, <2>3, <3>1, <4>1, <4>2, <4>3, WorksWithoutDns
    <3>2. CASE n # comb
      <4>1. n \in 1..(comb - 1)
        BY SMT, <3>2 DEF TypeOK
      <4>2. QED
        BY Zenon, <1>3, <2>1, <2>3, <4>1 DEF SearchInv
    <3>3. QED
      BY Zenon, <3>1, <3>2
  <2>4. 1..(comb' - 1) = 1..comb
    BY SMT, <2>1 DEF TypeOK
  <2>5. SearchInv'
    BY Zenon, <1>3, <1>4, <1>6, <2>1, <2>2, <2>3, <2>4 DEF SearchInv
  <2>6. QED
    BY Zenon, <2>2, <2>5
<1>9. CASE Lowering(r)
  <2>1. /\ pc' = "shrink" /\ limit' = profile.ttl /\ profile' = [profile EXCEPT !.ttl = 1]
        /\ UNCHANGED reported /\ result' = 0 /\ confirmed' = confirmed \cup {profile}
    BY Zenon, <1>9 DEF Lowering, SeriesOver
  <2>2. 1 \in Int /\ profile.ttl \in Int
    BY SMT, <1>1, BoundsAssumption
  <2>3. profile'.ttl = 1 /\ [profile' EXCEPT !.ttl = limit'] = profile
    BY Zenon, <1>1, <2>1, <2>2, OtherTtl
  <2>4. \A t \in 1..(1 - 1) : FALSE
    BY SMT
  <2>5. ShrinkInv'
    BY Zenon, <2>1, <2>3, <2>4 DEF ShrinkInv
  <2>6. SeriesInv' /\ SearchInv' /\ ReportedWorked'
    BY SMT, <1>6, <2>1 DEF SeriesInv, SearchInv, NothingMissed, ReportedWorked, Early, Counting
  <2>7. QED
    BY Zenon, <2>5, <2>6
<1>10. CASE Raising(r)
  <2>1. /\ pc = "shrink" /\ r = -1 /\ profile.ttl + 1 <= limit
        /\ pc' = "shrink" /\ profile' = [profile EXCEPT !.ttl = profile.ttl + 1]
        /\ UNCHANGED <<limit, reported>> /\ result' = 0
        /\ (confirmed' = IF r = 0 THEN confirmed \cup {profile} ELSE confirmed)
    BY Zenon, <1>10 DEF Raising, SeriesOver
  <2>2. profile.ttl \in Int /\ profile.ttl + 1 \in Int /\ limit \in Int
    BY SMT, <1>1, BoundsAssumption DEF TypeOK
  <2>3. profile'.ttl = profile.ttl + 1
    BY Zenon, <1>1, <2>1, <2>2, OtherTtl
  <2>4. ASSUME NEW t \in Int PROVE [profile' EXCEPT !.ttl = t] = [profile EXCEPT !.ttl = t]
    BY ZenonT(60), <1>1, <2>1, <2>2, OtherTtl
  <2>5. confirmed' = confirmed
    BY SMT, <2>1
  <2>6. ASSUME ~flaked', NEW t \in 1..profile.ttl
        PROVE  ~Works([profile' EXCEPT !.ttl = t])
    <3>1. t \in Int
      OBVIOUS
    <3>2. CASE t = profile.ttl
      BY Zenon, <1>1, <1>5, <2>1, <2>4, <2>6, <3>1, <3>2, OtherTtl
    <3>3. CASE t # profile.ttl
      <4>1. t \in 1..(profile.ttl - 1)
        BY SMT, <2>2, <3>3
      <4>2. QED
        BY Zenon, <1>3, <2>1, <2>4, <2>6, <3>1, <4>1 DEF ShrinkInv
    <3>4. QED
      BY Zenon, <3>2, <3>3
  <2>7. 1..(profile'.ttl - 1) = 1..profile.ttl
    BY SMT, <2>2, <2>3
  <2>8. [profile' EXCEPT !.ttl = limit'] \in confirmed'
    BY Zenon, <2>1, <2>2, <2>4, <2>5 DEF ShrinkInv
  <2>9. ShrinkInv'
    BY Zenon, <1>4, <2>6, <2>7, <2>8 DEF ShrinkInv
  <2>10. SeriesInv' /\ SearchInv' /\ ReportedWorked'
    BY SMT, <1>6, <2>1 DEF SeriesInv, SearchInv, NothingMissed, ReportedWorked, Early, Counting
  <2>11. QED
    BY Zenon, <2>9, <2>10
<1>11. CASE Reporting(r)
  <2>1. /\ pc' = "done" /\ reported' = profile
        /\ (confirmed' = IF r = 0 THEN confirmed \cup {profile} ELSE confirmed)
        /\ \/ pc = "trial" /\ r = 0 /\ profile.ttl = 0
           \/ pc = "shrink" /\ (r = 0 \/ profile.ttl + 1 > limit)
    BY Zenon, <1>11 DEF Reporting, SeriesOver
  <2>2. profile.ttl \in Int /\ limit \in Int
    BY SMT, <1>1, BoundsAssumption DEF TypeOK
  <2>3. profile \in confirmed'
    <3>1. CASE r = 0
      BY Zenon, <2>1, <3>1
    <3>2. CASE r # 0
      <4>1. pc = "shrink" /\ profile.ttl + 1 > limit
        BY Zenon, <2>1, <3>2
      <4>2. profile.ttl \in 1..limit
        BY Zenon, <4>1 DEF RangeInv
      <4>3. profile.ttl = limit
        BY SMT, <2>2, <4>1, <4>2
      <4>4. QED
        BY Zenon, <1>1, <2>1, <3>2, <4>1, <4>3, OtherTtl DEF ShrinkInv
    <3>3. QED
      BY Zenon, <3>1, <3>2
  <2>4. ASSUME ~flaked', NEW t \in 1..(profile.ttl - 1)
        PROVE  ~Works([profile EXCEPT !.ttl = t])
    <3>1. CASE pc = "shrink"
      BY Zenon, <1>3, <2>4, <3>1 DEF ShrinkInv
    <3>2. CASE profile.ttl = 0
      BY SMT, <2>4, <3>2
    <3>3. QED
      BY Zenon, <2>1, <3>1, <3>2
  <2>5. ReportedWorked'
    BY Zenon, <1>4, <2>1, <2>3, <2>4 DEF ReportedWorked
  <2>6. SeriesInv' /\ ShrinkInv' /\ SearchInv'
    <3>1. NothingMissed'
      BY Zenon, <1>1, <2>1 DEF NothingMissed
    <3>2. QED
      BY SMT, <2>1, <3>1 DEF SeriesInv, ShrinkInv, SearchInv, Testing, Early, Counting
  <2>7. QED
    BY Zenon, <2>5, <2>6
<1>12. QED
  BY Zenon, <1>2, <1>7, <1>8, <1>9, <1>10, <1>11 DEF Tested

\* Every step keeps the invariants of the search.
LEMMA SearchStep ==
    ASSUME TypeOK, RangeInv, HopsInv, SearchInvs, [Next]_vars
    PROVE  SearchInvs'
<1>0. UNCHANGED path
  <2>1. Switches
    BY Zenon DEF TypeOK, Switches
  <2>2. QED
    BY Zenon, <2>1, SwitchesStep
<1>W. \A p : Works(p)' <=> Works(p)
  BY Zenon, <1>0, WorksStays
<1>1. ASSUME load_ca_bundle PROVE SearchInvs'
  <2>1. UNCHANGED testing /\ pc # "done" /\ (Early \/ Counting) /\ pc' \notin {"trial", "shrink"}
        /\ (pc' = "done" => ret' # 0)
    BY SMT, <1>1 DEF load_ca_bundle, Return, GoTo, Early, Counting
  <2>2. QED
    BY Zenon, <1>0, <2>1, QuietStep
<1>2. ASSUME SSL_CTX_new PROVE SearchInvs'
  <2>1. UNCHANGED testing /\ pc # "done" /\ (Early \/ Counting) /\ pc' \notin {"trial", "shrink"}
        /\ (pc' = "done" => ret' # 0)
    BY SMT, <1>2 DEF SSL_CTX_new, Return, GoTo, Early, Counting
  <2>2. QED
    BY Zenon, <1>0, <2>1, QuietStep
<1>3. ASSUME Resolve PROVE SearchInvs'
  <2>1. UNCHANGED testing /\ pc # "done" /\ (Early \/ Counting) /\ pc' \notin {"trial", "shrink"}
        /\ (pc' = "done" => ret' # 0)
    BY SMT, <1>3 DEF Resolve, GoTo, Early, Counting
  <2>2. QED
    BY Zenon, <1>0, <2>1, QuietStep
<1>4. ASSUME ResolveAgain PROVE SearchInvs'
  <2>1. UNCHANGED testing /\ pc # "done" /\ (Early \/ Counting) /\ pc' \notin {"trial", "shrink"}
        /\ (pc' = "done" => ret' # 0)
    BY SMT, <1>4 DEF ResolveAgain, Return, GoTo, FreeContext, Early, Counting
  <2>2. QED
    BY Zenon, <1>0, <2>1, QuietStep
<1>5. ASSUME Connect PROVE SearchInvs'
  <2>1. CASE TryEnds(256)
    BY Zenon, <1>0, <1>5, <2>1, TryEndsIsQuiet DEF Connect, Counting
  <2>2. CASE ~TryEnds(256)
    <3>1. UNCHANGED testing /\ pc # "done" /\ (Early \/ Counting) /\ pc' \in {"send", "wait"}
      BY Zenon, <1>5, <2>2 DEF Connect, GoTo, Counting
    <3>2. pc' \notin {"trial", "shrink"} /\ pc' # "done"
      BY SMT, <3>1
    <3>3. QED
      BY Zenon, <1>0, <3>1, <3>2, QuietStep
  <2>3. QED
    BY Zenon, <2>1, <2>2
<1>6. ASSUME SendProbe PROVE SearchInvs'
  <2>1. CASE TryEnds(256)
    BY Zenon, <1>0, <1>6, <2>1, TryEndsIsQuiet DEF SendProbe, Counting
  <2>2. CASE ~TryEnds(256)
    <3>1. UNCHANGED testing /\ pc # "done" /\ (Early \/ Counting) /\ pc' \in {"send", "wait"}
      BY Zenon, <1>6, <2>2 DEF SendProbe, GoTo, Counting
    <3>2. pc' \notin {"trial", "shrink"} /\ pc' # "done"
      BY SMT, <3>1
    <3>3. QED
      BY Zenon, <1>0, <3>1, <3>2, QuietStep
  <2>3. QED
    BY Zenon, <2>1, <2>2
<1>7. ASSUME PollReply PROVE SearchInvs'
  BY Zenon, <1>0, <1>7, TryEndsIsQuiet DEF PollReply, Counting
<1>8. ASSUME PollTimeout PROVE SearchInvs'
  <2>1. CASE TryEnds(256)
    BY Zenon, <1>0, <1>8, <2>1, TryEndsIsQuiet DEF PollTimeout, Counting
  <2>2. CASE ~TryEnds(256)
    <3>1. UNCHANGED testing /\ pc # "done" /\ (Early \/ Counting) /\ pc' \in {"send", "wait"}
      BY Zenon, <1>8, <2>2 DEF PollTimeout, GoTo, Counting
    <3>2. pc' \notin {"trial", "shrink"} /\ pc' # "done"
      BY SMT, <3>1
    <3>3. QED
      BY Zenon, <1>0, <3>1, <3>2, QuietStep
  <2>3. QED
    BY Zenon, <2>1, <2>2
<1>9. ASSUME Choose PROVE SearchInvs'
  <2>1. /\ pc = "choose" /\ pc' = "trial" /\ result' = 0
        /\ profile' = set_profile(comb, fakes_ttl, dns # "off")
        /\ UNCHANGED <<dns, fakes_ttl, comb, reported>> /\ (flaked' <=> flaked)
    BY Zenon, <1>9 DEF Choose, GoTo, hopping
  <2>2. SeriesInv' /\ ShrinkInv' /\ ReportedWorked' /\ NothingMissed' /\ ~(Early \/ Counting)'
    BY SMT, <2>1
    DEF SearchInvs, SearchInv, SeriesInv, ShrinkInv, ReportedWorked, NothingMissed, Early, Counting
  <2>3. SearchInv'
    BY Zenon, <1>W, <2>1, <2>2 DEF SearchInvs, SearchInv
  <2>4. QED
    BY Zenon, <2>2, <2>3 DEF SearchInvs
<1>10. ASSUME NothingWorks PROVE SearchInvs'
  <2>1. /\ pc = "choose" /\ ~(comb <= comb_all) /\ pc' = "done"
        /\ UNCHANGED <<path, hopping, testing>>
    BY Zenon, <1>10 DEF NothingWorks, Untried, Return
  <2>2. reported' = NoProfile /\ ReportedWorked'
    BY Zenon, <2>1 DEF SearchInvs, SearchInv, ReportedWorked, testing
  <2>3. ASSUME exact, ~strayed, ~flaked, NEW n \in 1..comb_all
        PROVE  ~Works(set_profile(n, hops - 1, FALSE))
    <3>1. n \in 1..(comb - 1)
      BY SMT, <2>1, Combinations DEF TypeOK
    <3>2. fakes_ttl = hops - 1
      <4>1. fakes_ttl < hops /\ fakes_ttl >= hops - 1
        BY Zenon, <2>1, <2>3 DEF HopsInv, HopsMeasured
      <4>2. fakes_ttl \in Int /\ hops \in Int
        BY SMT, BoundsAssumption DEF TypeOK
      <4>3. QED
        BY SMT, <4>1, <4>2
    <3>3. QED
      BY Zenon, <2>1, <2>3, <3>1, <3>2 DEF SearchInvs, SearchInv
  <2>4. NothingMissed'
    <3>1. UNCHANGED hops /\ (exact' <=> exact) /\ (strayed' <=> strayed) /\ (flaked' <=> flaked)
      BY Zenon, <2>1 DEF path, hopping, testing
    <3>2. QED
      BY Zenon, <1>W, <2>3, <3>1 DEF NothingMissed
  <2>5. SeriesInv' /\ ShrinkInv' /\ SearchInv'
    BY SMT, <2>1, <2>2, <2>4 DEF SeriesInv, ShrinkInv, SearchInv, Testing, Early, Counting
  <2>6. QED
    BY Zenon, <2>2, <2>5 DEF SearchInvs
<1>11. ASSUME test_desync_attack PROVE SearchInvs'
  BY Zenon, <1>11, TestStep
<1>12. ASSUME NoPromise \/ Uncaught PROVE SearchInvs'
  <2>1. pc # "done" /\ (Early \/ Counting \/ Testing) /\ pc' \in {"stuck", "thrown"} /\ UNCHANGED testing
    BY Zenon, <1>12 DEF NoPromise, Uncaught, GoTo, Early, Counting, Testing
  <2>2. /\ pc' \notin {"trial", "shrink", "bundle", "context", "resolve", "retry", "connect", "send",
                       "wait", "choose", "done"}
    BY SMT, <2>1
  <2>3. QED
    BY Zenon, <1>0, <2>1, <2>2, QuietStep
<1>13. ASSUME LoseReply PROVE SearchInvs'
  <2>1. UNCHANGED testing /\ (Early \/ Counting) /\ pc = "wait" /\ pc' = "wait"
    BY Zenon, <1>13 DEF LoseReply, Counting
  <2>2. pc # "done" /\ pc' \notin {"trial", "shrink"} /\ pc' # "done"
    BY SMT, <2>1
  <2>3. QED
    BY Zenon, <1>0, <2>1, <2>2, QuietStep
<1>14. ASSUME StrayPacket PROVE SearchInvs'
  <2>1. UNCHANGED testing /\ (Early \/ Counting) /\ pc = "wait" /\ pc' = "wait"
    BY Zenon, <1>14 DEF StrayPacket, Counting
  <2>2. pc # "done" /\ pc' \notin {"trial", "shrink"} /\ pc' # "done"
    BY SMT, <2>1
  <2>3. QED
    BY Zenon, <1>0, <2>1, <2>2, QuietStep
<1>15. ASSUME UNCHANGED vars PROVE SearchInvs'
  BY Zenon, <1>15, <1>W
  DEF vars, path, hopping, testing, SearchInvs, SeriesInv, ShrinkInv, SearchInv, ReportedWorked,
      NothingMissed, Testing, Early, Counting
<1>16. QED
  BY Zenon, <1>1, <1>2, <1>3, <1>4, <1>5, <1>6, <1>7, <1>8, <1>9, <1>10, <1>11, <1>12, <1>13, <1>14, <1>15
  DEF Next, Step, Done

-----------------------------------------------------------------------------
(* The theorems.                                                           *)

\* The invariants hold initially and every step keeps them.
LEMMA AutoconfInvariant == Spec => []AutoconfInv
<1>1. Init => AutoconfInv
  <2> SUFFICES ASSUME Init PROVE AutoconfInv
    OBVIOUS
  <2>1. pc = "bundle" /\ ctx = "none" /\ comb = 1 /\ reported = NoProfile
    BY Zenon DEF Init
  <2>2. fakes_ttl = 256 /\ hops \in 1..MaxHops /\ ~exact
    BY Zenon DEF Init
  <2>3. ContextInv
    BY SMT, <2>1 DEF ContextInv
  <2>4. HopsInv
    BY SMT, <2>1, <2>2, BoundsAssumption DEF HopsInv, HopsMeasured
  <2>5. SearchInvs
    BY SMT, <2>1
    DEF SearchInvs, SeriesInv, ShrinkInv, SearchInv, ReportedWorked, NothingMissed, Testing
  <2>6. QED
    BY Zenon, <2>3, <2>4, <2>5, TypeInit DEF AutoconfInv
<1>2. AutoconfInv /\ [Next]_vars => AutoconfInv'
  BY Zenon, TypeStep, ContextStep, HopsStep, SearchStep DEF AutoconfInv
<1>3. QED
  BY <1>1, <1>2, PTL DEF Spec

\* run_autoconf keeps its types: the TTLs it probes and sets fit the byte they are
\* sent in, and no combination beyond the last is tried.
THEOREM TypeCorrect == Spec => []TypeOK
<1>1. AutoconfInv => TypeOK
  BY Zenon DEF AutoconfInv
<1>2. QED
  BY <1>1, AutoconfInvariant, PTL

\* However run_autoconf ends, the context has been freed exactly once.
THEOREM ContextIsFreedOnce == Spec => []ContextFreedOnce
<1>1. AutoconfInv => ContextFreedOnce
  BY SMT DEF AutoconfInv, ContextInv, ContextFreedOnce
<1>2. QED
  BY <1>1, AutoconfInvariant, PTL

\* One undisturbed try of the three is enough for fakes that fall short of the server,
\* and without stray packets they pass every router before it.
THEOREM HopsAreMeasured == Spec => []HopsMeasured
<1>1. AutoconfInv => HopsMeasured
  BY Zenon DEF AutoconfInv, HopsInv
<1>2. QED
  BY <1>1, AutoconfInvariant, PTL

\* The printed options passed four tests in a row, and no lower TTL works with them
\* unless a test failed by chance.
THEOREM ReportedHasWorked == Spec => []ReportedWorked
<1>1. AutoconfInv => ReportedWorked
  BY Zenon DEF AutoconfInv, SearchInvs
<1>2. QED
  BY <1>1, AutoconfInvariant, PTL

\* When nothing is found, undisturbed, no combination works.
THEOREM NothingIsMissed == Spec => []NothingMissed
<1>1. AutoconfInv => NothingMissed
  BY Zenon DEF AutoconfInv, SearchInvs, SearchInv
<1>2. QED
  BY <1>1, AutoconfInvariant, PTL
=============================================================================
