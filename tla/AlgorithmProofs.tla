-------------------------- MODULE AlgorithmProofs --------------------------
(***************************************************************************)
(* Theorems about the pure algorithms, for inputs of every length: what    *)
(* wildcard_match accepts, what a receiver makes of the checksums, what    *)
(* the command line and the files set, and what the parsers of hellos,     *)
(* beacons and DNS messages find; and the induction over numbers that they *)
(* and other proofs rest on.                                               *)
(***************************************************************************)
EXTENDS Algorithms, FiniteSetTheorems, WellFoundedInduction, TLAPS

-----------------------------------------------------------------------------
(* Induction, over sets of numbers.                                        *)

\* A set of numbers that is not empty has a least one.
LEMMA LeastNat ==
    ASSUME NEW T, T \subseteq Nat, T # {}
    PROVE  \E x \in T : \A y \in T : x <= y
<1>1. PICK R : R = OpToRel(<, Nat)
  OBVIOUS
<1>2. IsWellFoundedOn(R, Nat)
  BY <1>1, NatLessThanWellFounded
<1>3. PICK x \in T : \A y \in T : ~(<<y, x>> \in R)
  BY <1>2, WFMin
<1>4. \A u, v \in Nat : <<v, u>> \in R <=> v < u
  BY <1>1 DEF OpToRel
<1>5. ASSUME NEW y \in T PROVE x <= y
  <2>1. x \in Nat /\ y \in Nat
    OBVIOUS
  <2>2. ~(y < x)
    BY <1>3, <1>4, <2>1
  <2> HIDE <1>1
  <2>3. QED
    BY <2>1, <2>2
<1>6. QED
  BY <1>5

\* What holds of the last index, and of each when it holds of the next, holds of all.
LEMMA DownwardInduction ==
    ASSUME NEW N \in Nat, NEW T, N \in T, \A i \in 1..(N - 1) : i + 1 \in T => i \in T
    PROVE  \A i \in 1..N : i \in T
<1> SUFFICES ASSUME NEW b \in 1..N, b \notin T PROVE FALSE
  OBVIOUS
<1>1. PICK D : D = {d \in Nat : d <= N - 1 /\ N - d \notin T}
  OBVIOUS
<1>2. N - b \in D
  BY SMT, <1>1
<1>3. PICK d \in D : \A e \in D : d <= e
  BY <1>1, <1>2, LeastNat
<1>4. d \in Nat /\ d <= N - 1 /\ N - d \notin T /\ d # 0
  BY SMT, <1>1, <1>3
<1>5. (N - d) + 1 \notin T
  BY SMT, <1>4
<1>6. d - 1 \in D
  <2>1. N - (d - 1) = (N - d) + 1
    BY SMT, <1>4
  <2>2. d - 1 \in Nat /\ d - 1 <= N - 1
    BY SMT, <1>4
  <2>3. QED
    BY <1>1, <1>5, <2>1, <2>2
<1>7. QED
  BY SMT, <1>3, <1>4, <1>6

-----------------------------------------------------------------------------
(* wildcard_match.                                                         *)

\* What the function inside wildcard_match has at an index.
Row(needle, haystack, f, i) ==
    IF i > Len(needle) THEN {Len(haystack) + 1} ELSE MatchFrom(needle, haystack, i, f[i + 1])

Rows(needle, haystack, f) == f = [i \in 1..(Len(needle) + 1) |-> Row(needle, haystack, f, i)]

\* The recursion is well defined: from the last index to the first, rows can be added.
LEMMA RowsExist ==
    ASSUME NEW needle \in Seq(Nat), NEW haystack \in Seq(Nat)
    PROVE  \E f : Rows(needle, haystack, f)
<1> DEFINE n == Len(needle)
           P == SUBSET (1..(Len(haystack) + 1))
           Good(k, f) == \A i \in k..(n + 1) : f[i] = Row(needle, haystack, f, i)
           T == {k \in 1..(n + 1) : \E f \in [1..(n + 1) -> P] : Good(k, f)}
<1>0. n \in Nat /\ Len(haystack) \in Nat
  OBVIOUS
<1>1. n + 1 \in T
  <2>1. {Len(haystack) + 1} \in P
    BY SMT, <1>0
  <2>2. PICK f \in [1..(n + 1) -> P] : f = [i \in 1..(n + 1) |-> {Len(haystack) + 1}]
    BY <2>1
  <2>3. Good(n + 1, f)
    BY SMT, <1>0, <2>2 DEF Row
  <2>4. n + 1 \in 1..(n + 1)
    BY SMT, <1>0
  <2>5. QED
    BY Zenon, <2>2, <2>3, <2>4
<1>2. ASSUME NEW k \in 1..((n + 1) - 1), k + 1 \in T
      PROVE  k \in T
  <2>1. PICK f \in [1..(n + 1) -> P] : Good(k + 1, f)
    BY Zenon, <1>2
  <2>2. k \in 1..(n + 1) /\ k + 1 \in 1..(n + 1) /\ ~(k > n)
    BY SMT, <1>0
  <2>3. MatchFrom(needle, haystack, k, f[k + 1]) \in P
    BY Zenon DEF MatchFrom
  <2>4. PICK g \in [1..(n + 1) -> P] :
          g = [f EXCEPT ![k] = MatchFrom(needle, haystack, k, f[k + 1])]
    BY <2>2, <2>3
  <2>5. ASSUME NEW i \in k..(n + 1) PROVE g[i] = Row(needle, haystack, g, i)
    <3>1. CASE i = k
      <4>1. g[k + 1] = f[k + 1]
        BY SMT, <2>2, <2>4
      <4>2. g[k] = MatchFrom(needle, haystack, k, f[k + 1])
        BY SMT, <2>2, <2>4
      <4>3. QED
        BY Zenon, <2>2, <3>1, <4>1, <4>2 DEF Row
    <3>2. CASE i # k
      <4>1. i \in (k + 1)..(n + 1) /\ i \in 1..(n + 1)
        BY SMT, <1>0, <3>2
      <4>2. g[i] = f[i]
        BY SMT, <2>2, <2>4, <3>2, <4>1
      <4>3. i <= n => g[i + 1] = f[i + 1]
        BY SMT, <1>0, <2>2, <2>4, <3>2, <4>1
      <4>4. ~(i <= n) => i > n
        BY SMT, <1>0, <4>1
      <4>5. QED
        BY Zenon, <2>1, <4>1, <4>2, <4>3, <4>4 DEF Row
    <3>3. QED
      BY Zenon, <3>1, <3>2
  <2>6. QED
    BY Zenon, <2>2, <2>4, <2>5
<1>3. 1 \in T
  <2>1. n + 1 \in Nat /\ 1 \in 1..(n + 1)
    BY SMT, <1>0
  <2> HIDE DEF T
  <2>2. QED
    BY <1>1, <1>2, <2>1, DownwardInduction
<1>4. PICK f \in [1..(n + 1) -> P] : Good(1, f)
  BY Zenon, <1>3
<1>5. f = [i \in 1..(n + 1) |-> f[i]]
  BY SMT, <1>4
<1>6. QED
  BY Zenon, <1>4, <1>5 DEF Rows

\* So wildcard_match is what the recursion says.
LEMMA MatchRows ==
    ASSUME NEW needle \in Seq(Nat), NEW haystack \in Seq(Nat)
    PROVE  \E f : /\ Rows(needle, haystack, f)
                  /\ wildcard_match(needle, haystack) <=> 1 \in f[1]
BY Zenon, RowsExist DEF Rows, Row, wildcard_match

\* The pieces the rest of a needle, from its i-th character on, cuts out of a haystack
\* from its j-th on.
CutFrom(needle, haystack, i, j, cut) ==
    LET n == Len(needle)  h == Len(haystack) IN
    /\ cut \in [i..(n + 1) -> 1..(h + 1)]
    /\ cut[i] = j /\ cut[n + 1] = h + 1
    /\ \A q \in i..n :
         IF needle[q] = Star THEN cut[q] <= cut[q + 1]
         ELSE cut[q + 1] = cut[q] + 1 /\ needle[q] \in {Question, haystack[cut[q]]}

\* One more character in front has its piece, when the rest has.
LEMMA CutExtends ==
    ASSUME NEW needle \in Seq(Nat), NEW haystack \in Seq(Nat),
           NEW i \in 1..Len(needle), NEW j \in 1..(Len(haystack) + 1),
           NEW k \in 1..(Len(haystack) + 1), NEW cut, CutFrom(needle, haystack, i + 1, k, cut),
           IF needle[i] = Star THEN j <= k
           ELSE k = j + 1 /\ needle[i] \in {Question, haystack[j]}
    PROVE  \E longer : CutFrom(needle, haystack, i, j, longer)
<1> DEFINE n == Len(needle)  h == Len(haystack)
<1>0. n \in Nat /\ h \in Nat /\ i \in Nat /\ i + 1 \in 1..(n + 1)
  BY SMT
<1>1. /\ cut \in [(i + 1)..(n + 1) -> 1..(h + 1)] /\ cut[i + 1] = k /\ cut[n + 1] = h + 1
      /\ \A q \in (i + 1)..n :
           IF needle[q] = Star THEN cut[q] <= cut[q + 1]
           ELSE cut[q + 1] = cut[q] + 1 /\ needle[q] \in {Question, haystack[cut[q]]}
  BY Zenon DEF CutFrom
<1>2. PICK longer : longer = [q \in i..(n + 1) |-> IF q = i THEN j ELSE cut[q]]
  OBVIOUS
<1>3. \A q \in (i + 1)..(n + 1) : longer[q] = cut[q] /\ q # i
  BY SMT, <1>0, <1>2
<1>4. longer[i] = j /\ i \in i..(n + 1) /\ longer \in [i..(n + 1) -> 1..(h + 1)]
  BY SMT, <1>0, <1>1, <1>2
<1>5. longer[i + 1] = k /\ longer[n + 1] = h + 1
  BY SMT, <1>0, <1>1, <1>3
<1>6. ASSUME NEW q \in i..n
      PROVE  IF needle[q] = Star THEN longer[q] <= longer[q + 1]
             ELSE longer[q + 1] = longer[q] + 1 /\ needle[q] \in {Question, haystack[longer[q]]}
  <2>1. CASE q = i
    BY Zenon, <1>4, <1>5, <2>1
  <2>2. CASE q # i
    <3>1. q \in (i + 1)..n /\ q \in (i + 1)..(n + 1) /\ q + 1 \in (i + 1)..(n + 1)
      BY SMTT(60), <1>0, <2>2
    <3>2. QED
      BY Zenon, <1>1, <1>3, <3>1
  <2>3. QED
    BY Zenon, <2>1, <2>2
<1>7. QED
  BY Zenon, <1>4, <1>5, <1>6 DEF CutFrom

\* Every place in a row has a cut.
LEMMA RowsAreCuts ==
    ASSUME NEW needle \in Seq(Nat), NEW haystack \in Seq(Nat), NEW f, Rows(needle, haystack, f),
           NEW i \in 1..(Len(needle) + 1), NEW j \in f[i]
    PROVE  j \in 1..(Len(haystack) + 1) /\ \E cut : CutFrom(needle, haystack, i, j, cut)
<1> DEFINE n == Len(needle)  h == Len(haystack)
           Cut(q) == \A x \in f[q] : /\ x \in 1..(h + 1)
                                     /\ \E cut : CutFrom(needle, haystack, q, x, cut)
           T == {q \in 1..(n + 1) : Cut(q)}
<1>0. n \in Nat /\ h \in Nat
  OBVIOUS
<1>1. \A q \in 1..(n + 1) : f[q] = Row(needle, haystack, f, q)
  BY Zenon DEF Rows
<1>2. n + 1 \in T
  <2>1. f[n + 1] = {h + 1} /\ n + 1 \in 1..(n + 1) /\ h + 1 \in 1..(h + 1)
    BY SMT, <1>0, <1>1 DEF Row
  <2>2. PICK cut : cut = [q \in (n + 1)..(n + 1) |-> h + 1]
    OBVIOUS
  <2>3. CutFrom(needle, haystack, n + 1, h + 1, cut)
    BY SMT, <1>0, <2>1, <2>2 DEF CutFrom
  <2>4. QED
    BY Zenon, <2>1, <2>3
<1>3. ASSUME NEW q \in 1..((n + 1) - 1), q + 1 \in T PROVE q \in T
  <2>1. q \in 1..n /\ q \in 1..(n + 1) /\ q + 1 \in 1..(n + 1) /\ ~(q > n)
    BY SMT, <1>0
  <2>2. f[q] = MatchFrom(needle, haystack, q, f[q + 1])
    BY Zenon, <1>1, <2>1 DEF Row
  <2>3. ASSUME NEW x \in f[q]
        PROVE  x \in 1..(h + 1) /\ \E cut : CutFrom(needle, haystack, q, x, cut)
    <3>1. /\ x \in 1..(h + 1)
          /\ IF needle[q] = Star THEN q = n \/ \E k \in x..h : k \in f[q + 1]
             ELSE x <= h /\ needle[q] \in {Question, haystack[x]} /\ x + 1 \in f[q + 1]
      BY Zenon, <2>2, <2>3 DEF MatchFrom
    <3>2. \E k \in f[q + 1] : IF needle[q] = Star THEN x <= k
                              ELSE k = x + 1 /\ needle[q] \in {Question, haystack[x]}
      <4>1. CASE needle[q] # Star
        BY Zenon, <3>1, <4>1
      <4>2. CASE needle[q] = Star /\ q = n
        <5>1. h + 1 \in f[q + 1]
          <6>1. q + 1 > n
            BY SMT, <1>0, <4>2
          <6>2. QED
            BY Zenon, <1>1, <2>1, <6>1 DEF Row
        <5>2. x <= h + 1
          BY SMT, <1>0, <3>1
        <5>3. QED
          BY Zenon, <4>2, <5>1, <5>2
      <4>3. CASE needle[q] = Star /\ q # n
        <5>1. PICK k \in x..h : k \in f[q + 1]
          BY Zenon, <3>1, <4>3
        <5>2. x <= k
          BY SMT, <3>1
        <5>3. QED
          BY Zenon, <4>3, <5>1, <5>2
      <4>4. QED
        BY Zenon, <4>1, <4>2, <4>3
    <3>3. PICK k \in f[q + 1] : IF needle[q] = Star THEN x <= k
                                ELSE k = x + 1 /\ needle[q] \in {Question, haystack[x]}
      BY Zenon, <3>2
    <3>4. PICK cut : k \in 1..(h + 1) /\ CutFrom(needle, haystack, q + 1, k, cut)
      BY Zenon, <1>3, <3>3
    <3>5. QED
      BY Zenon, <2>1, <3>1, <3>3, <3>4, CutExtends
  <2>4. QED
    BY Zenon, <2>1, <2>3
<1>4. \A q \in 1..(n + 1) : q \in T
  <2>1. n + 1 \in Nat
    BY SMT, <1>0
  <2> HIDE DEF T
  <2>2. QED
    BY <1>2, <1>3, <2>1, DownwardInduction
<1>5. QED
  BY Zenon, <1>4

\* A cut of the whole haystack leads through the rows, if no two stars are adjacent.
LEMMA CutsAreRows ==
    ASSUME NEW needle \in Seq(Nat), NEW haystack \in Seq(Nat), NEW f, Rows(needle, haystack, f),
           NEW cut, CutFrom(needle, haystack, 1, 1, cut), StarsApart(needle)
    PROVE  1 \in f[1]
<1> DEFINE n == Len(needle)  h == Len(haystack)
           T == {q \in 1..(n + 1) : cut[q] \in f[q]}
<1>0. n \in Nat /\ h \in Nat
  OBVIOUS
<1>1. /\ cut \in [1..(n + 1) -> 1..(h + 1)] /\ cut[1] = 1 /\ cut[n + 1] = h + 1
      /\ \A q \in 1..n :
           IF needle[q] = Star THEN cut[q] <= cut[q + 1]
           ELSE cut[q + 1] = cut[q] + 1 /\ needle[q] \in {Question, haystack[cut[q]]}
  BY Zenon DEF CutFrom
<1>2. \A q \in 1..(n + 1) : f[q] = Row(needle, haystack, f, q)
  BY Zenon DEF Rows
<1>3. n + 1 \in T
  <2>1. n + 1 > n /\ n + 1 \in 1..(n + 1)
    BY SMT, <1>0
  <2>2. QED
    BY Zenon, <1>1, <1>2, <2>1 DEF Row
<1>4. ASSUME NEW q \in 1..((n + 1) - 1), q + 1 \in T PROVE q \in T
  <2>1. q \in 1..n /\ q \in 1..(n + 1) /\ q + 1 \in 1..(n + 1) /\ ~(q > n)
    BY SMT, <1>0
  <2>2. f[q] = MatchFrom(needle, haystack, q, f[q + 1])
    BY Zenon, <1>2, <2>1 DEF Row
  <2>3. cut[q] \in 1..(h + 1) /\ cut[q + 1] \in 1..(h + 1)
    BY Zenon, <1>1, <2>1
  <2>4. CASE needle[q] # Star
    <3>1. cut[q + 1] = cut[q] + 1 /\ needle[q] \in {Question, haystack[cut[q]]}
      BY Zenon, <1>1, <2>1, <2>4
    <3>2. cut[q] <= h
      BY SMT, <1>0, <2>3, <3>1
    <3>3. QED
      BY Zenon, <1>4, <2>1, <2>2, <2>3, <2>4, <3>1, <3>2 DEF MatchFrom
  <2>5. CASE needle[q] = Star /\ q = n
    BY Zenon, <2>1, <2>2, <2>3, <2>5 DEF MatchFrom
  <2>6. CASE needle[q] = Star /\ q # n
    <3>1. q + 1 \in 1..n /\ q \in 1..(n - 1)
      BY SMT, <1>0, <2>1, <2>6
    <3>2. needle[q + 1] # Star
      <4>1. {needle[q], needle[q + 1]} # {Star}
        BY Zenon, <3>1 DEF StarsApart
      <4>2. QED
        BY Zenon, <2>6, <4>1
    <3>3. cut[(q + 1) + 1] = cut[q + 1] + 1 /\ (q + 1) + 1 \in 1..(n + 1)
      <4>1. (q + 1) + 1 \in 1..(n + 1)
        BY SMT, <1>0, <3>1
      <4>2. QED
        BY Zenon, <1>1, <3>1, <3>2, <4>1
    <3>4. cut[(q + 1) + 1] \in 1..(h + 1)
      BY Zenon, <1>1, <3>3
    <3>5. cut[q] <= cut[q + 1]
      BY Zenon, <1>1, <2>1, <2>6
    <3>6. cut[q + 1] \in cut[q]..h
      BY SMT, <1>0, <2>3, <3>3, <3>4, <3>5
    <3>7. QED
      BY Zenon, <1>4, <2>1, <2>2, <2>3, <2>6, <3>6 DEF MatchFrom
  <2>7. QED
    BY Zenon, <2>4, <2>5, <2>6
<1>5. 1 \in T
  <2>1. n + 1 \in Nat /\ 1 \in 1..(n + 1)
    BY SMT, <1>0
  <2> HIDE DEF T
  <2>2. QED
    BY <1>3, <1>4, <2>1, DownwardInduction
<1>6. QED
  BY Zenon, <1>1, <1>5

\* A profile name is matched with the name of a network as it is meant to be, whatever
\* the two are: wildcard_match accepts only what matches in the usual sense, and all of
\* that when no two stars are adjacent.
LEMMA PatternsAgree ==
    ASSUME NEW needle \in Seq(Nat), NEW haystack \in Seq(Nat)
    PROVE  MatchesAsMeant(needle, haystack)
<1>1. PICK f : /\ Rows(needle, haystack, f)
               /\ wildcard_match(needle, haystack) <=> 1 \in f[1]
  BY Zenon, MatchRows
<1>2. Matches(needle, haystack) <=> \E cut : CutFrom(needle, haystack, 1, 1, cut)
  BY Zenon DEF Matches, CutFrom
<1>3. 1 \in 1..(Len(needle) + 1)
  BY SMT
<1>4. QED
  BY Zenon, <1>1, <1>2, <1>3, RowsAreCuts, CutsAreRows DEF MatchesAsMeant

-----------------------------------------------------------------------------
(* The checksums: two folds are enough for every sum CalSum can return.    *)

\* The high half of a sum of 32 bits.
LEMMA HighHalf ==
    ASSUME NEW sum \in Nat, sum < 65536 * 65536
    PROVE  sum \div 65536 \in Nat /\ sum \div 65536 < 65536
BY SMT

\* Its low half.
LEMMA LowHalf ==
    ASSUME NEW sum \in Nat
    PROVE  sum % 65536 \in Nat /\ sum % 65536 < 65536
BY SMT

\* Together they are the sum.
LEMMA Halves ==
    ASSUME NEW sum \in Nat
    PROVE  sum = 65536 * (sum \div 65536) + (sum % 65536)
BY SMT

\* What adding the carry of `once` to it and keeping 16 bits gives.
LEMMA SecondFold ==
    ASSUME NEW once \in Nat, once < 131071
    PROVE  (once + (once \div 65536)) % 65536 =
             IF once < 65536 THEN once ELSE once - 65535
<1>1. CASE once < 65536
  <2>1. once \div 65536 = 0
    BY SMT, <1>1
  <2>2. once % 65536 = once
    BY SMT, <1>1
  <2>3. QED
    BY SMT, <1>1, <2>1, <2>2
<1>2. CASE ~(once < 65536)
  <2>1. once \div 65536 = 1
    BY SMT, <1>2
  <2>2. (once + 1) % 65536 = once - 65535
    BY SMT, <1>2
  <2>3. QED
    BY SMT, <1>2, <2>1, <2>2
<1>3. QED
  BY SMT, <1>1, <1>2

\* The folded sum fits a word and is the sum with end-around carries: it differs from
\* the sum of CalSum by a multiple of 65535, and is zero only if that sum is; so a
\* third fold, which cksumIp and cksumTcp leave out, is never needed.
THEOREM TwoFoldsSuffice ==
    ASSUME NEW sum \in Nat, sum < 65536 * 65536
    PROVE  /\ Folded(sum) \in Nat /\ Folded(sum) < 65536
           /\ \E k \in Nat : sum = Folded(sum) + 65535 * k
           /\ Folded(sum) = 0 <=> sum = 0
<1>1. PICK hi \in Nat : hi = sum \div 65536 /\ hi < 65536
  BY SMT, HighHalf
<1>2. PICK lo \in Nat : lo = sum % 65536 /\ lo < 65536
  BY SMT, LowHalf
<1>3. sum = 65536 * hi + lo
  BY SMT, <1>1, <1>2, Halves
<1>4. hi + lo \in Nat /\ hi + lo < 131071
  BY SMT, <1>1, <1>2
<1>5. Folded(sum) = IF hi + lo < 65536 THEN hi + lo ELSE hi + lo - 65535
  <2>1. Folded(sum) = (hi + lo + ((hi + lo) \div 65536)) % 65536
    BY SMT, <1>1, <1>2 DEF Folded
  <2>2. QED
    BY SMT, <2>1, <1>4, SecondFold
<1>6. Folded(sum) \in Nat /\ Folded(sum) < 65536
  BY SMT, <1>1, <1>2, <1>5
<1>7. Folded(sum) = 0 <=> sum = 0
  BY SMT, <1>1, <1>2, <1>3, <1>5
<1>8. CASE hi + lo < 65536
  <2>1. sum = Folded(sum) + 65535 * hi
    BY SMT, <1>3, <1>5, <1>8
  <2>2. QED
    BY SMT, <1>6, <1>7, <2>1
<1>9. CASE ~(hi + lo < 65536)
  <2>1. PICK k \in Nat : k = hi + 1
    BY SMT
  <2>2. sum = Folded(sum) + 65535 * k
    BY SMT, <1>3, <1>5, <1>9, <2>1
  <2>3. QED
    BY SMT, <1>6, <1>7, <2>2
<1>10. QED
  BY SMT, <1>8, <1>9

-----------------------------------------------------------------------------
(* The checksums: a receiver accepts every packet.                         *)

\* A recursion from the end of a buffer in steps of two, as in CalSum and OnesSum, is well
\* defined.
TwoSteps(n, last, step, f) ==
    f = [i \in 1..(n + 2) |-> IF i > n THEN last ELSE step[i][f[i + 2]]]

\* From the last index to the first, values can be added.
LEMMA TwoStepsExist ==
    ASSUME NEW n \in Nat, NEW V, NEW last \in V, NEW step \in [1..n -> [V -> V]]
    PROVE  \E f \in [1..(n + 2) -> V] : TwoSteps(n, last, step, f)
<1> DEFINE Good(k, f) == \A i \in k..(n + 2) : f[i] = IF i > n THEN last ELSE step[i][f[i + 2]]
           T == {k \in 1..(n + 1) : \E f \in [1..(n + 2) -> V] : Good(k, f)}
<1>1. n + 1 \in T
  <2>1. PICK f \in [1..(n + 2) -> V] : f = [i \in 1..(n + 2) |-> last]
    OBVIOUS
  <2>2. n + 1 \in 1..(n + 1) /\ \A i \in (n + 1)..(n + 2) : i > n /\ i \in 1..(n + 2)
    BY SMT
  <2>3. Good(n + 1, f)
    BY Zenon, <2>1, <2>2
  <2>4. QED
    BY Zenon, <2>1, <2>2, <2>3
<1>2. ASSUME NEW k \in 1..((n + 1) - 1), k + 1 \in T PROVE k \in T
  <2>1. PICK f \in [1..(n + 2) -> V] : Good(k + 1, f)
    BY Zenon, <1>2
  <2>2. k \in 1..n /\ k \in 1..(n + 1) /\ k \in 1..(n + 2) /\ k + 2 \in 1..(n + 2) /\ ~(k > n) /\ k + 2 # k
    BY SMT
  <2>3. step[k][f[k + 2]] \in V
    BY SMT, <2>1, <2>2
  <2>4. PICK g \in [1..(n + 2) -> V] : g = [f EXCEPT ![k] = step[k][f[k + 2]]]
    BY <2>2, <2>3
  <2>5. g[k] = step[k][f[k + 2]] /\ \A i \in 1..(n + 2) : i # k => g[i] = f[i]
    BY Zenon, <2>1, <2>2, <2>4
  <2>6. ASSUME NEW i \in k..(n + 2) PROVE g[i] = IF i > n THEN last ELSE step[i][g[i + 2]]
    <3>1. CASE i = k
      BY Zenon, <2>2, <2>5, <3>1
    <3>2. CASE i # k
      <4>1. i \in (k + 1)..(n + 2) /\ i \in 1..(n + 2) /\ (~(i > n) => i + 2 \in 1..(n + 2) /\ i + 2 # k)
        BY SMT, <3>2
      <4>2. QED
        BY Zenon, <2>1, <2>5, <3>2, <4>1
    <3>3. QED
      BY Zenon, <3>1, <3>2
  <2>7. QED
    BY Zenon, <2>2, <2>4, <2>6
<1>3. 1 \in T
  <2>1. n + 1 \in Nat /\ 1 \in 1..(n + 1)
    BY SMT
  <2> HIDE DEF T
  <2>2. QED
    BY <1>1, <1>2, <2>1, DownwardInduction
<1>4. PICK f \in [1..(n + 2) -> V] : Good(1, f)
  BY Zenon, <1>3
<1>5. f = [i \in 1..(n + 2) |-> f[i]]
  BY SMT, <1>4
<1>6. QED
  BY Zenon, <1>4, <1>5 DEF TwoSteps

\* What holds of the two last indices, and of each when it holds of the two after, holds of all.
LEMMA TwoStepInduction ==
    ASSUME NEW n \in Nat, NEW T, n + 1 \in T, n + 2 \in T,
           \A i \in 1..n : i + 1 \in T /\ i + 2 \in T => i \in T
    PROVE  \A i \in 1..(n + 2) : i \in T
<1>1. PICK D : D = {i \in 1..(n + 1) : i \in T /\ i + 1 \in T}
  OBVIOUS
<1>2. n + 1 \in Nat /\ n + 1 \in 1..(n + 1) /\ (n + 1) + 1 = n + 2
  BY SMT
<1>3. n + 1 \in D
  BY Zenon, <1>1, <1>2
<1>4. ASSUME NEW i \in 1..((n + 1) - 1), i + 1 \in D PROVE i \in D
  <2>1. i \in 1..n /\ i \in 1..(n + 1) /\ (i + 1) + 1 = i + 2
    BY SMT
  <2>2. i + 1 \in T /\ i + 2 \in T
    BY Zenon, <1>1, <1>4, <2>1
  <2>3. QED
    BY Zenon, <1>1, <2>1, <2>2
<1>5. \A i \in 1..(n + 1) : i \in D
  BY <1>2, <1>3, <1>4, DownwardInduction
<1>6. \A i \in 1..(n + 1) : i \in T
  BY Zenon, <1>1, <1>5
<1>7. \A i \in 1..(n + 2) : i \in 1..(n + 1) \/ i = n + 2
  BY SMT
<1>8. QED
  BY Zenon, <1>6, <1>7

Top   == 255
Bytes == 0..Top
Ones  == 65535
Words == 0..Ones

WordOf(a, b) == a * 256 + b

\* What it is to be a byte.
LEMMA ByteBounds == \A x : x \in Bytes <=> x \in Int /\ 0 <= x /\ x <= Top
<1>1. Top \in Int
  BY SMT DEF Top
<1>2. QED
  BY SMT, <1>1 DEF Bytes

\* What it is to be a word.
LEMMA WordBounds == \A x : x \in Words <=> x \in Int /\ 0 <= x /\ x <= Ones
<1>1. Ones \in Int
  BY SMT DEF Ones
<1>2. QED
  BY SMT, <1>1 DEF Words

\* Facts about words.
LEMMA WordFacts ==
    /\ 0 \in Bytes /\ \A a, b \in Bytes : WordOf(a, b) \in Words
    /\ \A x \in Words, v \in Nat : x + v \in Nat
    /\ \A x \in Words, v, m \in Nat : v <= Ones * m => x + v <= Ones * (m + 2)
<1>0. 0 \in Bytes
  <2>1. 0 \in Int /\ 0 <= 0 /\ 0 <= Top
    BY SMT DEF Top
  <2>2. QED
    BY Zenon, <2>1, ByteBounds
<1>1. ASSUME NEW a \in Bytes, NEW b \in Bytes PROVE WordOf(a, b) \in Words
  <2>1. PICK x \in Int, y \in Int : x = a /\ y = b /\ 0 <= x /\ x <= 255 /\ 0 <= y /\ y <= 255
    <3>1. a \in Int /\ 0 <= a /\ a <= Top /\ b \in Int /\ 0 <= b /\ b <= Top
      BY Zenon, ByteBounds
    <3>2. QED
      BY SMT, <3>1 DEF Top
  <2>2. PICK w \in Int : w = x * 256 + y /\ 0 <= w /\ w <= 65535
    BY SMT, <2>1
  <2>3. QED
    <3>1. WordOf(x, y) \in Words
      <4>1. w \in Words
        <5>1. w <= Ones /\ Ones \in Int
          BY SMT, <2>2 DEF Ones
        <5>2. QED
          BY SMT, <2>2, <5>1 DEF Words
      <4>2. w = WordOf(x, y)
        BY SMT, <2>2 DEF WordOf
      <4>3. QED
        BY Zenon, <4>1, <4>2
    <3>2. WordOf(a, b) = WordOf(x, y)
      BY <2>1
    <3>3. QED
      BY <3>1, <3>2
<1>2. \A x \in Words, v \in Nat : x + v \in Nat
  BY SMT, WordBounds
<1>3. \A x \in Words, v, m \in Nat : v <= Ones * m => x + v <= Ones * (m + 2)
  BY SMT, WordBounds DEF Ones
<1>4. QED
  BY Zenon, <1>0, <1>1, <1>2, <1>3

\* The words of a buffer of bytes.
LEMMA WordType ==
    ASSUME NEW buf \in Seq(Bytes)
    PROVE  \A i \in 1..Len(buf) : Word(buf, i) \in Words
<1> SUFFICES ASSUME NEW i \in 1..Len(buf) PROVE Word(buf, i) \in Words
  OBVIOUS
<1>1. buf[i] \in Bytes /\ (i < Len(buf) => buf[i + 1] \in Bytes)
  BY SMT
<1>2. CASE i < Len(buf)
  <2>1. Word(buf, i) = WordOf(buf[i], buf[i + 1])
    BY SMT, <1>2 DEF Word, WordOf
  <2>2. QED
    BY Zenon, <1>1, <1>2, <2>1, WordFacts
<1>3. CASE ~(i < Len(buf))
  <2>1. Word(buf, i) = WordOf(buf[i], 0)
    BY SMT, <1>3 DEF Word, WordOf
  <2>2. QED
    BY Zenon, <1>1, <2>1, WordFacts
<1>4. QED
  BY Zenon, <1>2, <1>3

\* The recursion of CalSum.
LEMMA CalSumIs ==
    ASSUME NEW buf \in Seq(Bytes)
    PROVE  \E f \in [1..(Len(buf) + 2) -> Nat] :
             /\ CalSum(buf) = f[1]
             /\ \A i \in 1..(Len(buf) + 2) : f[i] = IF i > Len(buf) THEN 0 ELSE Word(buf, i) + f[i + 2]
<1> DEFINE n == Len(buf)
           Sum(f) == f = [i \in 1..(n + 2) |-> IF i > n THEN 0 ELSE Word(buf, i) + f[i + 2]]
<1>0. n \in Nat
  OBVIOUS
<1>1. PICK step : step = [i \in 1..n |-> [v \in Nat |-> Word(buf, i) + v]]
  OBVIOUS
<1>2. step \in [1..n -> [Nat -> Nat]]
  <2>1. \A i \in 1..n, v \in Nat : Word(buf, i) + v \in Nat
    <3>1. \A i \in 1..n : Word(buf, i) \in Words
      BY WordType
    <3>2. QED
      BY Zenon, <3>1, WordFacts
  <2>2. QED
    BY Zenon, <1>1, <2>1
<1>3. PICK f \in [1..(n + 2) -> Nat] : TwoSteps(n, 0, step, f)
  BY <1>0, <1>2, TwoStepsExist
<1>4. ASSUME NEW g, g \in [1..(n + 2) -> Nat] PROVE
        \A i \in 1..(n + 2) : ~(i > n) => step[i][g[i + 2]] = Word(buf, i) + g[i + 2]
  <2>1. \A i \in 1..(n + 2) : ~(i > n) => i \in 1..n /\ i + 2 \in 1..(n + 2)
    BY SMT, <1>0
  <2>2. QED
    BY Zenon, <1>1, <1>4, <2>1
<1>5. Sum(f)
  BY Zenon, <1>3, <1>4 DEF TwoSteps
<1>6. PICK c : c = CHOOSE g : Sum(g)
  OBVIOUS
<1>7. Sum(c) /\ CalSum(buf) = c[1]
  BY Zenon, <1>5, <1>6 DEF CalSum
<1>8. \A i \in 1..(n + 2) : c[i] = IF i > n THEN 0 ELSE Word(buf, i) + c[i + 2]
  BY Zenon, <1>7
<1>9. c \in [1..(n + 2) -> Nat]
  <2>1. PICK T : T = {i \in 1..(n + 2) : c[i] \in Nat}
    OBVIOUS
  <2>2. n + 1 \in 1..(n + 2) /\ n + 2 \in 1..(n + 2) /\ n + 1 > n /\ n + 2 > n /\ 0 \in Nat
    BY SMT, <1>0
  <2>3. n + 1 \in T /\ n + 2 \in T
    BY Zenon, <1>8, <2>1, <2>2
  <2>4. ASSUME NEW i \in 1..n, i + 1 \in T /\ i + 2 \in T PROVE i \in T
    <3>1. i \in 1..(n + 2) /\ ~(i > n)
      BY SMT, <1>0
    <3>2. c[i] = Word(buf, i) + c[i + 2] /\ c[i + 2] \in Nat
      BY Zenon, <1>8, <2>1, <2>4, <3>1
    <3>3. c[i] \in Nat
      <4>1. Word(buf, i) \in Words
        BY WordType
      <4>2. QED
        BY Zenon, <3>2, <4>1, WordFacts
    <3>4. QED
      BY Zenon, <2>1, <3>1, <3>3
  <2>5. \A i \in 1..(n + 2) : i \in T
    BY <1>0, <2>3, <2>4, TwoStepInduction
  <2>6. \A i \in 1..(n + 2) : c[i] \in Nat
    BY Zenon, <2>1, <2>5
  <2>7. c = [i \in 1..(n + 2) |-> c[i]]
    BY Zenon, <1>7
  <2>8. QED
    BY Zenon, <2>6, <2>7
<1>10. QED
  BY Zenon, <1>7, <1>8, <1>9

\* How large a sum can get.
LEMMA CalSumBound ==
    ASSUME NEW buf \in Seq(Bytes)
    PROVE  CalSum(buf) \in Nat /\ CalSum(buf) <= Ones * (Len(buf) + 1)
<1>1. PICK n \in Nat : n = Len(buf)
  OBVIOUS
<1>2. PICK c \in [1..(n + 2) -> Nat] :
             /\ CalSum(buf) = c[1]
             /\ \A i \in 1..(n + 2) : c[i] = IF i > n THEN 0 ELSE Word(buf, i) + c[i + 2]
  BY Zenon, <1>1, CalSumIs
<1>3. PICK T : T = {i \in 1..(n + 2) : c[i] <= Ones * ((n + 2) - i)}
  OBVIOUS
<1>4. n + 1 \in T /\ n + 2 \in T
  <2>1. /\ n + 1 \in 1..(n + 2) /\ n + 2 \in 1..(n + 2) /\ n + 1 > n /\ n + 2 > n
        /\ 0 <= Ones * ((n + 2) - (n + 1)) /\ 0 <= Ones * ((n + 2) - (n + 2))
    BY SMT DEF Ones
  <2>2. QED
    BY Zenon, <1>2, <1>3, <2>1
<1>5. ASSUME NEW i \in 1..n, i + 1 \in T /\ i + 2 \in T PROVE i \in T
  <2>1. i \in 1..(n + 2) /\ ~(i > n) /\ i + 2 \in 1..(n + 2)
    BY SMT
  <2>2. c[i] = Word(buf, i) + c[i + 2] /\ c[i + 2] <= Ones * ((n + 2) - (i + 2)) /\ c[i + 2] \in Nat
    BY Zenon, <1>2, <1>3, <1>5, <2>1
  <2>3. Word(buf, i) \in Words
    BY Zenon, <1>1, WordType
  <2>4. c[i] <= Ones * ((n + 2) - i)
    <3>1. (n + 2) - (i + 2) \in Nat /\ (n + 2) - i = ((n + 2) - (i + 2)) + 2
      BY SMT
    <3>2. QED
      BY Zenon, <2>2, <2>3, <3>1, WordFacts
  <2>5. QED
    BY Zenon, <1>3, <2>1, <2>4
<1>6. \A i \in 1..(n + 2) : i \in T
  BY <1>4, <1>5, TwoStepInduction
<1>7. 1 \in 1..(n + 2) /\ (n + 2) - 1 = n + 1
  BY SMT
<1>8. c[1] <= Ones * ((n + 2) - 1) /\ c[1] \in Nat
  BY Zenon, <1>2, <1>3, <1>6, <1>7
<1>9. QED
  BY Zenon, <1>1, <1>2, <1>7, <1>8

\* Equal as sums with end-around carry.
Congruent(o, t) ==
    /\ o \in Words /\ t \in Nat
    /\ \E k \in Nat : t = o + Ones * k
    /\ o = 0 => t = 0

\* Adding a word.
LEMMA AddsWord ==
    ASSUME NEW w \in Words, NEW o, NEW t, Congruent(o, t)
    PROVE  Congruent(OnesAdd(w, o), w + t)
<1>1. w \in Int /\ 0 <= w /\ w <= Ones /\ o \in Int /\ 0 <= o /\ o <= Ones /\ t \in Nat
  BY Zenon, WordBounds DEF Congruent
<1>2. PICK k \in Nat : t = o + Ones * k
  BY Zenon DEF Congruent
<1>3. o = 0 => t = 0
  BY Zenon DEF Congruent
<1>4. w + t \in Nat
  BY SMT, <1>1
<1>5. PICK r : r = OnesAdd(w, o)
  OBVIOUS
<1>6. r = IF w + o > Ones THEN w + o - Ones ELSE w + o
  BY SMT, <1>5 DEF OnesAdd, Ones
<1>7. r \in Int /\ 0 <= r /\ r <= Ones /\ (r = 0 => w = 0 /\ o = 0)
  BY SMT, <1>1, <1>6 DEF Ones
<1>8. r = 0 => w + t = 0
  BY SMT, <1>1, <1>3, <1>7
<1>9. \E j \in Nat : w + t = r + Ones * j
  <2>1. CASE w + o > Ones
    <3>1. PICK j \in Nat : j = k + 1
      BY SMT
    <3>2. w + t = r + Ones * j
      BY SMT, <1>1, <1>2, <1>6, <2>1, <3>1 DEF Ones
    <3>3. QED
      BY Zenon, <3>2
  <2>2. CASE ~(w + o > Ones)
    <3>1. w + t = r + Ones * k
      BY SMT, <1>1, <1>2, <1>6, <2>2 DEF Ones
    <3>2. QED
      BY Zenon, <3>1
  <2>3. QED
    BY Zenon, <2>1, <2>2
<1>10. r \in Words
  BY Zenon, <1>7, WordBounds
<1>11. QED
  BY Zenon, <1>4, <1>5, <1>8, <1>9, <1>10 DEF Congruent

\* The recursion of OnesSum.
LEMMA OnesSumIs ==
    ASSUME NEW buf \in Seq(Bytes), NEW start \in Words
    PROVE  \E f : /\ OnesSum(buf, start) = f[1]
                  /\ \A i \in 1..(Len(buf) + 2) :
                       f[i] = IF i > Len(buf) THEN start ELSE OnesAdd(Word(buf, i), f[i + 2])
<1> DEFINE n == Len(buf)
           Sum(f) == f = [i \in 1..(n + 2) |-> IF i > n THEN start ELSE OnesAdd(Word(buf, i), f[i + 2])]
<1>0. n \in Nat
  OBVIOUS
<1>1. PICK step : step = [i \in 1..n |-> [v \in Words |-> OnesAdd(Word(buf, i), v)]]
  OBVIOUS
<1>2. step \in [1..n -> [Words -> Words]]
  <2>1. ASSUME NEW i \in 1..n, NEW v \in Words PROVE OnesAdd(Word(buf, i), v) \in Words
    <3>1. Word(buf, i) \in Words
      BY WordType
    <3>2. v \in Int /\ 0 <= v /\ v <= Ones
      BY Zenon, WordBounds
    <3>3. v \in Nat /\ 0 \in Nat /\ v = v + Ones * 0
      BY SMT, <3>2 DEF Ones
    <3>4. Congruent(v, v)
      BY Zenon, <3>3 DEF Congruent
    <3>5. Congruent(OnesAdd(Word(buf, i), v), Word(buf, i) + v)
      BY <3>1, <3>4, AddsWord
    <3>6. QED
      BY Zenon, <3>5 DEF Congruent
  <2>2. QED
    BY Zenon, <1>1, <2>1
<1>3. PICK f \in [1..(n + 2) -> Words] : TwoSteps(n, start, step, f)
  BY <1>0, <1>2, TwoStepsExist
<1>4. \A i \in 1..(n + 2) : ~(i > n) => i \in 1..n /\ i + 2 \in 1..(n + 2)
  BY SMT, <1>0
<1>5. \A i \in 1..(n + 2) : ~(i > n) => step[i][f[i + 2]] = OnesAdd(Word(buf, i), f[i + 2])
  BY Zenon, <1>1, <1>3, <1>4
<1>6. Sum(f)
  BY Zenon, <1>3, <1>5 DEF TwoSteps
<1>7. PICK c : c = CHOOSE g : Sum(g)
  OBVIOUS
<1>8. Sum(c) /\ OnesSum(buf, start) = c[1]
  BY Zenon, <1>6, <1>7 DEF OnesSum
<1>9. \A i \in 1..(n + 2) : c[i] = IF i > n THEN start ELSE OnesAdd(Word(buf, i), c[i + 2])
  BY Zenon, <1>8
<1>10. QED
  BY Zenon, <1>8, <1>9

\* The sum with end-around carry is the sum of CalSum, up to carries.
LEMMA OnesSumIsSum ==
    ASSUME NEW buf \in Seq(Bytes), NEW start, NEW t, Congruent(start, t)
    PROVE  Congruent(OnesSum(buf, start), CalSum(buf) + t)
<1>1. PICK n \in Nat : n = Len(buf)
  OBVIOUS
<1>2. PICK c \in [1..(n + 2) -> Nat] :
             /\ CalSum(buf) = c[1]
             /\ \A i \in 1..(n + 2) : c[i] = IF i > n THEN 0 ELSE Word(buf, i) + c[i + 2]
  BY Zenon, <1>1, CalSumIs
<1>3. start \in Words /\ t \in Nat
  BY Zenon DEF Congruent
<1>4. PICK f : /\ OnesSum(buf, start) = f[1]
               /\ \A i \in 1..(n + 2) :
                    f[i] = IF i > n THEN start ELSE OnesAdd(Word(buf, i), f[i + 2])
  <2>1. \E f : /\ OnesSum(buf, start) = f[1]
               /\ \A i \in 1..(Len(buf) + 2) :
                    f[i] = IF i > Len(buf) THEN start ELSE OnesAdd(Word(buf, i), f[i + 2])
    BY <1>3, OnesSumIs
  <2>2. QED
    BY Zenon, <1>1, <2>1
<1>5. PICK T : T = {i \in 1..(n + 2) : Congruent(f[i], c[i] + t)}
  OBVIOUS
<1>6. n + 1 \in T /\ n + 2 \in T
  <2>1. n + 1 \in 1..(n + 2) /\ n + 2 \in 1..(n + 2) /\ n + 1 > n /\ n + 2 > n /\ 0 + t = t
    BY SMT, <1>3
  <2>2. QED
    BY Zenon, <1>2, <1>4, <1>5, <2>1
<1>7. ASSUME NEW i \in 1..n, i + 1 \in T /\ i + 2 \in T PROVE i \in T
  <2>1. i \in 1..(n + 2) /\ ~(i > n) /\ i + 2 \in 1..(n + 2)
    BY SMT
  <2>2. c[i] = Word(buf, i) + c[i + 2] /\ c[i + 2] \in Nat /\ f[i] = OnesAdd(Word(buf, i), f[i + 2])
    BY Zenon, <1>2, <1>4, <2>1
  <2>3. Congruent(f[i + 2], c[i + 2] + t)
    BY Zenon, <1>5, <1>7
  <2>4. Word(buf, i) \in Words
    BY Zenon, <1>1, WordType
  <2>5. Congruent(f[i], Word(buf, i) + (c[i + 2] + t))
    BY Zenon, <2>2, <2>3, <2>4, AddsWord
  <2>6. Word(buf, i) \in Int
    BY Zenon, <2>4, WordBounds
  <2>7. Word(buf, i) + (c[i + 2] + t) = c[i] + t
    BY SMT, <1>3, <2>2, <2>6
  <2>8. QED
    BY Zenon, <1>5, <2>1, <2>5, <2>7
<1>8. \A i \in 1..(n + 2) : i \in T
  BY <1>6, <1>7, TwoStepInduction
<1>9. 1 \in 1..(n + 2)
  BY SMT
<1>10. QED
  BY Zenon, <1>2, <1>4, <1>5, <1>8, <1>9

\* The two bytes of a word.
LEMMA WordBytes ==
    ASSUME NEW x \in Words
    PROVE  x \div 256 \in Bytes /\ x % 256 \in Bytes /\ WordOf(x \div 256, x % 256) = x
<1>1. x \in Int /\ 0 <= x /\ x <= Ones
  BY Zenon, WordBounds
<1>2. x \div 256 \in Int /\ 0 <= x \div 256 /\ x \div 256 <= Top
  BY SMT, <1>1 DEF Ones, Top
<1>3. x % 256 \in Int /\ 0 <= x % 256 /\ x % 256 <= Top
  BY SMT, <1>1 DEF Ones, Top
<1>4. WordOf(x \div 256, x % 256) = x
  BY SMT, <1>1 DEF WordOf
<1>5. QED
  BY Zenon, <1>2, <1>3, <1>4, ByteBounds

\* A checksum stored where there was zero adds itself to the sum.
LEMMA StoredSum ==
    ASSUME NEW buf \in Seq(Bytes), Len(buf) >= 2, buf[1] = 0, buf[2] = 0, NEW x \in Words
    PROVE  Stored(x, buf) \in Seq(Bytes) /\ CalSum(Stored(x, buf)) = x + CalSum(buf)
<1>1. PICK n \in Nat : n = Len(buf) /\ n >= 2
  OBVIOUS
<1>2. PICK h, l : h = x \div 256 /\ l = x % 256
  OBVIOUS
<1>3. h \in Bytes /\ l \in Bytes /\ WordOf(h, l) = x
  BY ZenonT(60), <1>2, WordBytes
<1>4. PICK st, rest, two : /\ st = Stored(x, buf) /\ rest = SubSeq(buf, 3, Len(buf)) /\ two = <<h, l>>
  OBVIOUS
<1>5. st = two \o rest
  BY Zenon, <1>2, <1>4 DEF Stored
<1>6. two \in Seq(Bytes) /\ Len(two) = 2 /\ two[1] = h /\ two[2] = l
  BY SMT, <1>3, <1>4
<1>7. rest \in Seq(Bytes) /\ Len(rest) = n - 2 /\ \A i \in 1..(n - 2) : rest[i] = buf[i + 2]
  BY SMT, <1>1, <1>4
<1>8. /\ st \in Seq(Bytes) /\ Len(st) = Len(two) + Len(rest) /\ \A i \in 1..Len(two) : st[i] = two[i]
      /\ \A i \in (Len(two) + 1)..(Len(two) + Len(rest)) : st[i] = rest[i - Len(two)]
  <2>1. two \in Seq(Bytes) /\ rest \in Seq(Bytes)
    BY Zenon, <1>6, <1>7
  <2>2. QED
    BY SMT, <1>5, <2>1
<1>9. Len(st) = n
  BY SMT, <1>1, <1>6, <1>7, <1>8
<1>10. st[1] = h /\ st[2] = l
  <2>1. 1 \in 1..Len(two) /\ 2 \in 1..Len(two)
    BY SMT, <1>6
  <2>2. QED
    BY Zenon, <1>6, <1>8, <2>1
<1>11. \A i \in 3..n : st[i] = buf[i]
  <2> SUFFICES ASSUME NEW i \in 3..n PROVE st[i] = buf[i]
    OBVIOUS
  <2>1. /\ i \in (Len(two) + 1)..(Len(two) + Len(rest)) /\ i - Len(two) \in 1..(n - 2)
        /\ (i - Len(two)) + 2 = i
    BY SMT, <1>1, <1>6, <1>7
  <2>2. QED
    BY Zenon, <1>7, <1>8, <2>1
<1>12. PICK c \in [1..(n + 2) -> Nat] :
             /\ CalSum(buf) = c[1]
             /\ \A i \in 1..(n + 2) : c[i] = IF i > n THEN 0 ELSE Word(buf, i) + c[i + 2]
  BY Zenon, <1>1, CalSumIs
<1>13. PICK d \in [1..(n + 2) -> Nat] :
             /\ CalSum(st) = d[1]
             /\ \A i \in 1..(n + 2) : d[i] = IF i > n THEN 0 ELSE Word(st, i) + d[i + 2]
  BY Zenon, <1>8, <1>9, CalSumIs
<1>14. \A i \in 3..n : Word(st, i) = Word(buf, i)
  <2> SUFFICES ASSUME NEW i \in 3..n PROVE Word(st, i) = Word(buf, i)
    OBVIOUS
  <2>1. i < n => i + 1 \in 3..n
    BY SMT, <1>1
  <2>2. st[i] = buf[i] /\ (i < n => st[i + 1] = buf[i + 1])
    BY Zenon, <1>11, <2>1
  <2>3. QED
    BY SMT, <1>1, <1>9, <2>2 DEF Word
<1>15. PICK T : T = {i \in 1..(n + 2) : i >= 3 => c[i] = d[i]}
  OBVIOUS
<1>16. n + 1 \in T /\ n + 2 \in T
  <2>1. n + 1 \in 1..(n + 2) /\ n + 2 \in 1..(n + 2) /\ n + 1 > n /\ n + 2 > n
    BY SMT
  <2>2. QED
    BY Zenon, <1>12, <1>13, <1>15, <2>1
<1>17. ASSUME NEW i \in 1..n, i + 1 \in T /\ i + 2 \in T PROVE i \in T
  <2>1. i \in 1..(n + 2) /\ ~(i > n) /\ i + 2 >= 3 /\ (i >= 3 => i \in 3..n)
    BY SMT
  <2>2. c[i] = Word(buf, i) + c[i + 2] /\ d[i] = Word(st, i) + d[i + 2] /\ c[i + 2] = d[i + 2]
    BY Zenon, <1>12, <1>13, <1>15, <1>17, <2>1
  <2>3. i >= 3 => c[i] = d[i]
    BY Zenon, <1>14, <2>1, <2>2
  <2>4. QED
    BY Zenon, <1>15, <2>1, <2>3
<1>18. \A i \in 1..(n + 2) : i \in T
  BY <1>16, <1>17, TwoStepInduction
<1>19. 3 \in 1..(n + 2) /\ 3 >= 3 /\ 1 \in 1..(n + 2) /\ ~(1 > n) /\ 1 + 2 = 3 /\ 1 < n /\ 1 + 1 = 2
  BY SMT, <1>1
<1>20. c[3] = d[3] /\ c[3] \in Nat
  BY Zenon, <1>12, <1>15, <1>18, <1>19
<1>21. c[1] = Word(buf, 1) + c[3] /\ d[1] = Word(st, 1) + d[3]
  BY Zenon, <1>12, <1>13, <1>19
<1>22. Word(buf, 1) = 0
  BY SMT, <1>1, <1>19 DEF Word
<1>23. Word(st, 1) = x
  <2>1. Word(st, 1) = WordOf(st[1], st[1 + 1])
    BY SMT, <1>9, <1>19 DEF Word, WordOf
  <2>2. QED
    BY Zenon, <1>3, <1>10, <1>19, <2>1
<1>24. x \in Int
  BY Zenon, WordBounds
<1>25. d[1] = x + c[1]
  BY SMT, <1>20, <1>21, <1>22, <1>23, <1>24
<1>26. QED
  BY Zenon, <1>4, <1>8, <1>12, <1>13, <1>25

\* A sum of 32 bits, and what cksumIp and cksumTcp make of it.
In32Bits(sum)   == sum < 65536 * 65536
Complement(sum) == 65535 - Folded(sum)

\* A sum and its complement are minus zero.
LEMMA ComplementCancels ==
    ASSUME NEW sum \in Nat, In32Bits(sum)
    PROVE  /\ Complement(sum) \in Words
           /\ \A o : Congruent(o, Complement(sum) + sum) => o = Ones
<1>1. PICK f : f = Folded(sum)
  OBVIOUS
<1>2. f \in Nat /\ f <= Ones /\ \E k \in Nat : sum = f + Ones * k
  <2>1. sum < 65536 * 65536
    BY DEF In32Bits
  <2>2. /\ Folded(sum) \in Nat /\ Folded(sum) < 65536
        /\ \E k \in Nat : sum = Folded(sum) + 65535 * k
    BY SMT, <2>1, TwoFoldsSuffice
  <2>3. PICK k \in Nat : sum = Folded(sum) + 65535 * k
    BY SMT, <2>2
  <2>4. f \in Nat /\ f <= Ones /\ sum = f + Ones * k
    BY SMT, <1>1, <2>2, <2>3 DEF Ones
  <2> HIDE <2>1, <2>2
  <2>5. QED
    BY SMT, <2>4
<1>3. PICK k \in Nat : sum = f + Ones * k
  BY Zenon, <1>2
<1>4. Complement(sum) = Ones - f
  BY SMT, <1>1 DEF Complement, Ones
<1>5. Ones - f \in Int /\ 0 <= Ones - f /\ Ones - f <= Ones
  BY SMT, <1>2 DEF Ones
<1>6. Complement(sum) \in Words
  BY Zenon, <1>4, <1>5, WordBounds
<1>7. ASSUME NEW o, Congruent(o, Complement(sum) + sum) PROVE o = Ones
  <2>1. PICK t : t = Complement(sum) + sum
    OBVIOUS
  <2>2. t \in Nat /\ t = Ones + Ones * k
    BY SMT, <1>2, <1>3, <1>4, <2>1 DEF Ones
  <2>3. o \in Words /\ (o = 0 => t = 0) /\ \E j \in Nat : t = o + Ones * j
    BY Zenon, <1>7, <2>1 DEF Congruent
  <2>4. o \in Int /\ 0 <= o /\ o <= Ones
    BY Zenon, <2>3, WordBounds
  <2>5. PICK j \in Nat : t = o + Ones * j
    BY Zenon, <2>3
  <2>6. o # 0
    BY SMT, <2>2, <2>3 DEF Ones
  <2>7. QED
    BY SMT, <2>2, <2>4, <2>5, <2>6 DEF Ones
<1>8. QED
  BY Zenon, <1>6, <1>7

\* An IP packet has 65535 bytes at most, and its header takes 20 of them.
MaxSegment == 65515

\* What a buffer adds to the sum of a packet.
LEMMA SumFits ==
    ASSUME NEW src \in Seq(Bytes), Len(src) = 4, NEW dst \in Seq(Bytes), Len(dst) = 4,
           NEW buf \in Seq(Bytes), NEW n \in Nat, n = Len(buf), n <= MaxSegment
    PROVE  /\ CalSum(buf) \in Nat /\ In32Bits(CalSum(buf))
           /\ CalPseudoHeadSum(src, dst, n) + CalSum(buf) \in Nat
           /\ In32Bits(CalPseudoHeadSum(src, dst, n) + CalSum(buf))
           /\ CalPseudoHeadSum(src, dst, n) = CalSum(src) + (CalSum(dst) + (6 + n))
<1>1. PICK a, b, c : a = CalSum(src) /\ b = CalSum(dst) /\ c = CalSum(buf)
  OBVIOUS
<1>2. a \in Nat /\ a <= Ones * (Len(src) + 1)
  BY Zenon, <1>1, CalSumBound
<1>3. b \in Nat /\ b <= Ones * (Len(dst) + 1)
  BY Zenon, <1>1, CalSumBound
<1>4. c \in Nat /\ c <= Ones * (n + 1)
  BY Zenon, <1>1, CalSumBound
<1>5. a <= 65535 * 5 /\ b <= 65535 * 5 /\ c <= 65535 * (n + 1)
  BY SMT, <1>2, <1>3, <1>4 DEF Ones
<1>6. c < 65536 * 65536 /\ a + b + 6 + n + c < 65536 * 65536
  BY SMT, <1>2, <1>3, <1>4, <1>5 DEF MaxSegment
<1>7. CalPseudoHeadSum(src, dst, n) = a + b + 6 + n
  BY SMT, <1>1 DEF CalPseudoHeadSum
<1>8. a + b + 6 + n = a + (b + (6 + n)) /\ a + b + 6 + n + c \in Nat
  BY SMT, <1>2, <1>3, <1>4
<1>9. QED
  BY SMT, <1>1, <1>4, <1>6, <1>7, <1>8 DEF In32Bits

\* The receiver of a packet accepts the checksums form_packet stores in it, whatever the
\* addresses and the bytes are, an odd number of them included: as long as the packet is
\* one that IP can carry, its checksum field was zero, and there is room for one.
LEMMA PacketsAccepted ==
    ASSUME NEW src \in Seq(Bytes), Len(src) = 4, NEW dst \in Seq(Bytes), Len(dst) = 4,
           NEW buf \in Seq(Bytes), Len(buf) >= 2, Len(buf) <= MaxSegment, buf[1] = 0, buf[2] = 0
    PROVE  ReceiverAccepts(src, dst, buf)
<1>1. PICK n \in Nat : n = Len(buf)
  OBVIOUS
<1>2. PICK a, b, c : a = CalSum(src) /\ b = CalSum(dst) /\ c = CalSum(buf)
  OBVIOUS
<1>3. PICK ip, tcp : ip = c /\ tcp = CalPseudoHeadSum(src, dst, n) + c
  OBVIOUS
<1>4. /\ ip \in Nat /\ In32Bits(ip) /\ tcp \in Nat /\ In32Bits(tcp)
      /\ CalPseudoHeadSum(src, dst, n) = a + (b + (6 + n))
  BY ZenonT(60), <1>1, <1>2, <1>3, SumFits
<1>5. a \in Nat /\ b \in Nat /\ c \in Nat
  BY Zenon, <1>2, CalSumBound
<1>6. cksumIp(buf) = Complement(ip) /\ cksumTcp(src, dst, buf) = Complement(tcp)
  BY <1>1, <1>2, <1>3 DEF cksumIp, cksumTcp, Complement
<1>7. Complement(ip) \in Words /\ Complement(tcp) \in Words
  BY Zenon, <1>4, ComplementCancels
<1>8. \A x \in Words : Stored(x, buf) \in Seq(Bytes) /\ CalSum(Stored(x, buf)) = x + c
  BY Zenon, <1>2, StoredSum
<1>9. Complement(ip) \in Int /\ Complement(tcp) \in Int
  BY Zenon, <1>7, WordBounds
<1>10. OnesSum(Stored(Complement(ip), buf), 0) = Ones
  <2>1. PICK o, st : o = OnesSum(st, 0) /\ st = Stored(Complement(ip), buf)
    OBVIOUS
  <2>2. st \in Seq(Bytes) /\ CalSum(st) = Complement(ip) + c
    BY Zenon, <1>7, <1>8, <2>1
  <2>3. Congruent(0, 0)
    <3>1. 0 \in Int /\ 0 <= 0 /\ 0 <= Ones /\ 0 \in Nat /\ 0 = 0 + Ones * 0
      BY SMT DEF Ones
    <3>2. QED
      BY Zenon, <3>1, WordBounds DEF Congruent
  <2>4. Congruent(o, CalSum(st) + 0)
    BY Zenon, <2>1, <2>2, <2>3, OnesSumIsSum
  <2>5. CalSum(st) + 0 = Complement(ip) + ip
    BY SMT, <1>3, <1>5, <1>9, <2>2
  <2>6. QED
    BY Zenon, <1>4, <2>1, <2>4, <2>5, ComplementCancels
<1>11. OnesSum(Stored(Complement(tcp), buf), OnesSum(src, OnesSum(dst, 6 + n))) = Ones
  <2>1. PICK o, p, q, st : /\ q = OnesSum(dst, 6 + n) /\ p = OnesSum(src, q) /\ o = OnesSum(st, p)
                           /\ st = Stored(Complement(tcp), buf)
    OBVIOUS
  <2>2. st \in Seq(Bytes) /\ CalSum(st) = Complement(tcp) + c
    BY Zenon, <1>7, <1>8, <2>1
  <2>3. Congruent(6 + n, 6 + n)
    <3>1. /\ 6 + n \in Int /\ 0 <= 6 + n /\ 6 + n <= Ones /\ 6 + n \in Nat /\ 0 \in Nat
          /\ 6 + n = (6 + n) + Ones * 0
      BY SMT, <1>1 DEF Ones, MaxSegment
    <3>2. QED
      BY Zenon, <3>1, WordBounds DEF Congruent
  <2>4. Congruent(q, b + (6 + n))
    BY Zenon, <1>2, <2>1, <2>3, OnesSumIsSum
  <2>5. Congruent(p, a + (b + (6 + n)))
    BY Zenon, <1>2, <2>1, <2>4, OnesSumIsSum
  <2>6. Congruent(o, CalSum(st) + (a + (b + (6 + n))))
    BY Zenon, <2>1, <2>2, <2>5, OnesSumIsSum
  <2>7. CalSum(st) + (a + (b + (6 + n))) = Complement(tcp) + tcp
    BY SMT, <1>3, <1>4, <1>5, <1>9, <2>2
  <2>8. QED
    BY Zenon, <1>4, <2>1, <2>6, <2>7, ComplementCancels
<1>12. Ones = 65535
  BY DEF Ones
<1>13. QED
  BY SMT, <1>1, <1>6, <1>10, <1>11, <1>12 DEF ReceiverAccepts

-----------------------------------------------------------------------------
(* The files with exceptions.                                              *)

\* What holds of 0, and of each number when it holds of the one before, holds of all.
LEMMA UpwardInduction ==
    ASSUME NEW N \in Nat, NEW T, 0 \in T, \A i \in 0..(N - 1) : i \in T => i + 1 \in T
    PROVE  \A i \in 0..N : i \in T
<1> SUFFICES ASSUME NEW b \in 0..N, b \notin T PROVE FALSE
  OBVIOUS
<1>1. PICK D : D = {d \in Nat : d <= N /\ d \notin T}
  OBVIOUS
<1>2. b \in D
  BY SMT, <1>1
<1>3. PICK d \in D : \A e \in D : d <= e
  BY <1>1, <1>2, LeastNat
<1>4. d \in Nat /\ d <= N /\ d \notin T /\ d # 0
  BY SMT, <1>1, <1>3
<1>5. d - 1 \in 0..(N - 1) /\ d - 1 \in Nat /\ (d - 1) + 1 = d /\ d - 1 <= N
  BY SMT, <1>4
<1>6. d - 1 \notin T
  BY Zenon, <1>4, <1>5
<1>7. d - 1 \in D
  BY <1>1, <1>5, <1>6
<1>8. QED
  BY SMT, <1>3, <1>4, <1>7

\* What a concatenation and a part of a sequence are made of.
LEMMA Joined ==
    ASSUME NEW S, NEW a \in Seq(S), NEW b \in Seq(S), NEW c, c = a \o b
    PROVE  /\ c \in Seq(S) /\ Len(c) = Len(a) + Len(b)
           /\ \A j \in 1..Len(a) : c[j] = a[j]
           /\ \A j \in 1..Len(b) : c[Len(a) + j] = b[j]
BY SMT

\* What a part cut out of a sequence holds.
LEMMA Cut ==
    ASSUME NEW S, NEW s \in Seq(S), NEW m \in Nat, m >= 1, NEW n \in Nat, n <= Len(s), m <= n + 1,
           NEW c, c = SubSeq(s, m, n)
    PROVE  /\ c \in Seq(S) /\ Len(c) = n - m + 1
           /\ \A j \in 1..(n - m + 1) : c[j] = s[m + j - 1]
BY SMT

\* Sequences with the same elements are the same.
LEMMA SameSeq ==
    ASSUME NEW S, NEW a \in Seq(S), NEW b \in Seq(S), Len(a) = Len(b),
           \A i \in 1..Len(a) : a[i] = b[i]
    PROVE  a = b
BY SMT

\* find(' ') finds the first space.
LEMMA FirstSpace ==
    ASSUME NEW S, NEW line \in Seq(S), HasSpace(line)
    PROVE  /\ Space(line) \in 1..Len(line) /\ line[Space(line)] = Gap
           /\ \A j \in 1..(Space(line) - 1) : line[j] # Gap
<1>1. PICK T : T = {i \in 1..Len(line) : line[i] = Gap}
  OBVIOUS
<1>2. T # {} /\ T \subseteq Nat /\ DOMAIN line = 1..Len(line)
  BY SMT, <1>1 DEF HasSpace
<1>3. PICK i \in T : \A j \in T : i <= j
  BY <1>2, LeastNat
<1>4. \A j \in 1..(i - 1) : j \notin T /\ j \in 1..Len(line)
  BY SMT, <1>1, <1>3
<1>5. i \in DOMAIN line /\ line[i] = Gap /\ \A j \in 1..(i - 1) : line[j] # Gap
  BY Zenon, <1>1, <1>2, <1>3, <1>4
<1>6. QED
  BY Zenon, <1>2, <1>5 DEF Space

\* The two parts of a line, around the space.
LEMMA LineParts ==
    ASSUME NEW S, NEW line \in Seq(S), HasSpace(line)
    PROVE  /\ Key(line) \in Seq(S) /\ Len(Key(line)) = Space(line) - 1
           /\ \A j \in 1..(Space(line) - 1) : Key(line)[j] = line[j]
           /\ Value(line) \in Seq(S) /\ Len(Value(line)) = Len(line) - Space(line)
           /\ \A j \in 1..(Len(line) - Space(line)) : Value(line)[j] = line[Space(line) + j]
<1>1. PICK k : k = Space(line)
  OBVIOUS
<1>2. k \in 1..Len(line)
  BY <1>1, FirstSpace
<1>3. Key(line) = SubSeq(line, 1, k - 1) /\ Value(line) = SubSeq(line, k + 1, Len(line))
  BY Zenon, <1>1 DEF Key, Value
<1>4. /\ SubSeq(line, 1, k - 1) \in Seq(S) /\ Len(SubSeq(line, 1, k - 1)) = k - 1
      /\ \A j \in 1..(k - 1) : SubSeq(line, 1, k - 1)[j] = line[j]
  BY SMT, <1>2
<1>5. /\ SubSeq(line, k + 1, Len(line)) \in Seq(S)
      /\ Len(SubSeq(line, k + 1, Len(line))) = Len(line) - k
      /\ \A j \in 1..(Len(line) - k) : SubSeq(line, k + 1, Len(line))[j] = line[k + j]
  BY SMT, <1>2
<1>6. QED
  BY Zenon, <1>1, <1>3, <1>4, <1>5

\* A line is its parts with the space between.
LEMMA LineWhole ==
    ASSUME NEW S, NEW line \in Seq(S), HasSpace(line)
    PROVE  line = Key(line) \o <<Gap>> \o Value(line)
<1>1. PICK k, a, b : k = Space(line) /\ a = Key(line) /\ b = Value(line)
  OBVIOUS
<1>2. /\ k \in 1..Len(line) /\ line[k] = Gap
      /\ a \in Seq(S) /\ Len(a) = k - 1 /\ \A j \in 1..(k - 1) : a[j] = line[j]
      /\ b \in Seq(S) /\ Len(b) = Len(line) - k /\ \A j \in 1..(Len(line) - k) : b[j] = line[k + j]
  BY Zenon, <1>1, FirstSpace, LineParts
<1>3. PICK w : w = <<line[k]>>
  OBVIOUS
<1>4. w \in Seq(S) /\ Len(w) = 1 /\ w[1] = line[k]
  BY SMT, <1>2, <1>3
<1>5. PICK c : c = a \o w
  OBVIOUS
<1>6. c \in Seq(S) /\ Len(c) = k /\ \A j \in 1..k : c[j] = line[j]
  <2>1. /\ c \in Seq(S) /\ Len(c) = Len(a) + Len(w)
        /\ \A j \in 1..Len(a) : c[j] = a[j]
        /\ \A j \in 1..Len(w) : c[Len(a) + j] = w[j]
    <3>1. a \in Seq(S) /\ w \in Seq(S)
      BY Zenon, <1>2, <1>4
    <3>2. QED
      BY <3>1, <1>5, Joined
  <2>2. Len(c) = k /\ c[k] = line[k]
    BY SMT, <1>2, <1>4, <2>1
  <2>3. \A j \in 1..k : j = k \/ j \in 1..(k - 1)
    BY SMT, <1>2
  <2>4. QED
    BY Zenon, <1>2, <2>1, <2>2, <2>3
<1>7. PICK d : d = c \o b
  OBVIOUS
<1>8. d \in Seq(S) /\ Len(d) = Len(line)
  <2>1. d \in Seq(S) /\ Len(d) = Len(c) + Len(b)
    <3>1. c \in Seq(S) /\ b \in Seq(S)
      BY Zenon, <1>2, <1>6
    <3>2. QED
      BY <3>1, <1>7, Joined
  <2>2. QED
    BY SMT, <1>2, <1>6, <2>1
<1>9. ASSUME NEW j \in 1..Len(line) PROVE d[j] = line[j]
  <2>1. CASE j <= k
    BY SMT, <1>2, <1>6, <1>7, <2>1
  <2>2. CASE j > k
    <3>1. j - k \in 1..(Len(line) - k) /\ k + (j - k) = j
      BY SMT, <1>2, <2>2
    <3>2. d[j] = b[j - k]
      BY SMT, <1>2, <1>6, <1>7, <2>2
    <3>3. QED
      BY Zenon, <1>2, <3>1, <3>2
  <2>3. QED
    BY SMT, <1>2, <2>1, <2>2
<1>10. d = line
  BY SMT, <1>8, <1>9
<1>11. QED
  BY Zenon, <1>1, <1>2, <1>3, <1>5, <1>7, <1>10

\* load_whitelist lists what follows the word and one space, whatever else the lines hold.
LEMMA WhitelistRead ==
    ASSUME NEW S, NEW lines \in Seq(Seq(S)), NEW word, word # Gap
    PROVE  WhitelistAsWritten(lines, word)
<1> DEFINE Listed(j) == HasSpace(lines[j]) /\ Key(lines[j]) = <<word>>
           Meant(j)  == Len(lines[j]) > 1 /\ SubSeq(lines[j], 1, 2) = <<word, Gap>>
<1>1. ASSUME NEW j \in DOMAIN lines
      PROVE  /\ Listed(j) <=> Meant(j)
             /\ Listed(j) => Value(lines[j]) = SubSeq(lines[j], 3, Len(lines[j]))
  <2>1. PICK line \in Seq(S) : line = lines[j]
    BY SMT
  <2>2. ASSUME HasSpace(line), Key(line) = <<word>>
        PROVE  Len(line) > 1 /\ SubSeq(line, 1, 2) = <<word, Gap>> /\ Space(line) = 2
    <3>1. PICK k \in 1..Len(line) : k = Space(line) /\ line[k] = Gap
      BY Zenon, <2>2, FirstSpace
    <3>2. Len(Key(line)) = k - 1 /\ \A i \in 1..(k - 1) : Key(line)[i] = line[i]
      BY Zenon, <2>2, <3>1, LineParts
    <3>3. k = 2 /\ line[1] = word
      BY SMT, <2>2, <3>1, <3>2
    <3>4. Len(line) > 1 /\ SubSeq(line, 1, 2) = <<line[1], line[2]>>
      <4>1. Len(line) > 1 /\ 2 <= Len(line) /\ 1 <= 2 + 1 /\ 1 >= 1 /\ 1 \in Nat /\ 2 \in Nat
        BY SMT, <3>1, <3>3
      <4>2. PICK c : c = SubSeq(line, 1, 2)
        OBVIOUS
      <4>3. c \in Seq(S) /\ Len(c) = 2 - 1 + 1 /\ \A i \in 1..(2 - 1 + 1) : c[i] = line[1 + i - 1]
        BY <4>1, <4>2, Cut
      <4>4. c[1] = line[1] /\ c[2] = line[2] /\ Len(c) = 2
        BY SMT, <4>3
      <4>5. c = <<line[1], line[2]>>
        BY SMT, <4>3, <4>4
      <4>6. QED
        BY Zenon, <4>1, <4>2, <4>5
    <3>5. QED
      BY Zenon, <3>1, <3>3, <3>4
  <2>3. ASSUME Len(line) > 1, SubSeq(line, 1, 2) = <<word, Gap>>
        PROVE  HasSpace(line) /\ Key(line) = <<word>>
    <3>0. PICK c : c = SubSeq(line, 1, 2)
      OBVIOUS
    <3>1. /\ line[1] = word /\ line[2] = Gap /\ DOMAIN line = 1..Len(line)
          /\ 1 \in 1..Len(line) /\ 2 \in 1..Len(line)
      <4>1. 2 <= Len(line) /\ 1 <= 2 + 1 /\ 1 >= 1 /\ 1 \in Nat /\ 2 \in Nat
        BY SMT, <2>3
      <4>2. c \in Seq(S) /\ Len(c) = 2 - 1 + 1 /\ \A i \in 1..(2 - 1 + 1) : c[i] = line[1 + i - 1]
        BY <3>0, <4>1, Cut
      <4>3. c[1] = line[1] /\ c[2] = line[2]
        BY SMT, <4>2
      <4>4. c[1] = word /\ c[2] = Gap
        <5>1. c = <<word, Gap>>
          BY Zenon, <2>3, <3>0
        <5>2. QED
          BY <5>1
      <4>5. DOMAIN line = 1..Len(line) /\ 1 \in 1..Len(line) /\ 2 \in 1..Len(line)
        BY SMT, <4>1
      <4>6. QED
        BY Zenon, <4>3, <4>4, <4>5
    <3>2. HasSpace(line)
      BY Zenon, <3>1 DEF HasSpace
    <3>3. PICK k \in 1..Len(line) :
            k = Space(line) /\ line[k] = Gap /\ \A i \in 1..(k - 1) : line[i] # Gap
      BY Zenon, <3>2, FirstSpace
    <3>4. k # 1 /\ ~(2 \in 1..(k - 1))
      BY Zenon, <3>1, <3>3
    <3>5. k = 2
      BY SMT, <3>3, <3>4
    <3>6. SubSeq(line, 1, 1) = <<line[1]>>
      <4>1. 1 <= Len(line) /\ 1 <= 1 + 1 /\ 1 >= 1 /\ 1 \in Nat
        BY SMT, <3>1
      <4>2. PICK a : a = SubSeq(line, 1, 1)
        OBVIOUS
      <4>3. a \in Seq(S) /\ Len(a) = 1 - 1 + 1 /\ \A i \in 1..(1 - 1 + 1) : a[i] = line[1 + i - 1]
        BY <4>1, <4>2, Cut
      <4>4. a = <<line[1]>>
        BY SMT, <4>3
      <4>5. QED
        BY Zenon, <4>2, <4>4
    <3>7. k - 1 = 1
      BY SMT, <3>5
    <3>8. QED
      BY Zenon, <3>1, <3>2, <3>3, <3>6, <3>7 DEF Key
  <2>4. ASSUME Space(line) = 2 PROVE Value(line) = SubSeq(line, 3, Len(line))
    <3>1. 2 + 1 = 3
      BY SMT
    <3>2. QED
      BY Zenon, <2>4, <3>1 DEF Value
  <2>5. QED
    BY Zenon, <2>1, <2>2, <2>3, <2>4
<1>2. QED
  BY Zenon, <1>1 DEF WhitelistAsWritten, load_whitelist

\* The recursion of load_custom_ips is well defined.
LEMMA CustomIpsAre ==
    ASSUME NEW lines, Len(lines) \in Nat
    PROVE  \E m : /\ m[0] = [k \in {} |-> <<>>]
                  /\ \A i \in 1..Len(lines) : m[i] = AddLine(m[i - 1], lines[i])
                  /\ load_custom_ips(lines) = m[Len(lines)]
<1> DEFINE n == Len(lines)
           Step(f, i) == IF i = 0 THEN [k \in {} |-> <<>>] ELSE AddLine(f[i - 1], lines[i])
           T == {k \in 0..n : \E f : \A i \in 0..k : f[i] = Step(f, i)}
           Whole(f) == f = [i \in 0..n |-> Step(f, i)]
<1>1. 0 \in T
  <2>1. PICK f : f = [i \in 0..0 |-> [k \in {} |-> <<>>]]
    OBVIOUS
  <2>2. 0 \in 0..n /\ 0 \in 0..0 /\ \A i \in 0..0 : i = 0
    BY SMT
  <2>3. f[0] = Step(f, 0)
    BY Zenon, <2>1, <2>2
  <2>4. QED
    BY Zenon, <2>2, <2>3
<1>2. ASSUME NEW k \in 0..(n - 1), k \in T PROVE k + 1 \in T
  <2>1. PICK f : \A i \in 0..k : f[i] = Step(f, i)
    BY Zenon, <1>2
  <2>2. PICK g : g = [i \in 0..(k + 1) |-> IF i = k + 1 THEN AddLine(f[k], lines[k + 1]) ELSE f[i]]
    OBVIOUS
  <2>3. /\ k + 1 \in 0..n /\ k + 1 # 0 /\ k + 1 \in 0..(k + 1) /\ (k + 1) - 1 = k
        /\ \A i \in 0..(k + 1) : i # k + 1 => i \in 0..k
        /\ \A i \in 0..k : /\ i # k + 1 /\ i \in 0..(k + 1)
                           /\ i # 0 => i - 1 \in 0..k
        /\ k \in 0..k
    BY SMT
  <2>4. g[k + 1] = AddLine(f[k], lines[k + 1]) /\ \A i \in 0..k : g[i] = f[i]
    BY Zenon, <2>2, <2>3
  <2>5. ASSUME NEW i \in 0..(k + 1) PROVE g[i] = Step(g, i)
    <3>1. CASE i = k + 1
      BY Zenon, <2>3, <2>4, <3>1
    <3>2. CASE i # k + 1
      BY Zenon, <2>1, <2>3, <2>4, <3>2
    <3>3. QED
      BY Zenon, <3>1, <3>2
  <2>6. QED
    BY Zenon, <2>3, <2>5
<1>3. n \in T
  <2> HIDE DEF T
  <2>1. \A i \in 0..n : i \in T
    BY <1>1, <1>2, UpwardInduction
  <2>2. QED
    BY <2>1
<1>4. PICK f : \A i \in 0..n : f[i] = Step(f, i)
  BY Zenon, <1>3
<1>5. PICK g : g = [i \in 0..n |-> f[i]]
  OBVIOUS
<1>6. \A i \in 0..n : i # 0 => i - 1 \in 0..n
  BY SMT
<1>7. \A i \in 0..n : f[i] = Step(g, i)
  BY Zenon, <1>4, <1>5, <1>6
<1>8. Whole(g)
  BY Zenon, <1>5, <1>7
<1>9. PICK m : m = CHOOSE h : Whole(h)
  OBVIOUS
<1>10. Whole(m) /\ load_custom_ips(lines) = m[n]
  BY Zenon, <1>8, <1>9 DEF load_custom_ips
<1>11. 0 \in 0..n /\ \A i \in 1..n : i \in 0..n /\ i # 0
  BY SMT
<1>12. QED
  BY Zenon, <1>10, <1>11

\* load_custom_ips takes the first usable line for a name, whatever the lines hold.
LEMMA FirstLineTaken ==
    ASSUME NEW S, NEW lines \in Seq(Seq(S))
    PROVE  FirstLineDecides(lines)
<1> DEFINE n == Len(lines)
           For(j, key) == Usable(lines[j]) /\ Key(lines[j]) = key
           Decides(i, key, value) ==
             /\ For(i, key) /\ value = Value(lines[i])
             /\ \A j \in 1..(i - 1) : ~For(j, key)
           Known(k, c) ==
             /\ \A j \in 1..k : Usable(lines[j]) => Key(lines[j]) \in DOMAIN c
             /\ \A key \in DOMAIN c : \E i \in 1..k : Decides(i, key, c[key])
<1>0. n \in Nat /\ DOMAIN lines = 1..n /\ \A i \in 1..n : lines[i] \in Seq(S)
  BY SMT
<1>1. PICK m : /\ m[0] = [k \in {} |-> <<>>]
               /\ \A i \in 1..n : m[i] = AddLine(m[i - 1], lines[i])
               /\ load_custom_ips(lines) = m[n]
  BY <1>0, CustomIpsAre
<1>2. PICK T : T = {k \in 0..n : Known(k, m[k])}
  OBVIOUS
<1>3. 0 \in T
  <2>1. 0 \in 0..n /\ 1..0 = {}
    BY SMT, <1>0
  <2>2. DOMAIN m[0] = {}
    BY Zenon, <1>1
  <2>3. QED
    BY Zenon, <1>2, <2>1, <2>2
<1>4. ASSUME NEW k \in 0..(n - 1), k \in T PROVE k + 1 \in T
  <2>1. /\ k + 1 \in 0..n /\ k + 1 \in 1..n /\ (k + 1) - 1 = k /\ k + 1 \in 1..(k + 1)
        /\ \A j \in 1..(k + 1) : j # k + 1 => j \in 1..k
        /\ \A j \in 1..k : j \in 1..(k + 1)
    BY SMT, <1>0
  <2>2. PICK c, d, l : c = m[k] /\ d = m[k + 1] /\ l = lines[k + 1]
    OBVIOUS
  <2>3. d = AddLine(c, l) /\ Known(k, c)
    BY Zenon, <1>1, <1>2, <1>4, <2>1, <2>2
  <2>4. /\ \A j \in 1..k : Usable(lines[j]) => Key(lines[j]) \in DOMAIN c
        /\ \A key \in DOMAIN c : \E i \in 1..k : Decides(i, key, c[key])
    BY Zenon, <2>3
  <2>5. CASE ~Usable(l)
    <3>1. d = c
      BY Zenon, <2>3, <2>5 DEF AddLine
    <3>2. \A j \in 1..(k + 1) : Usable(lines[j]) => Key(lines[j]) \in DOMAIN d
      BY Zenon, <2>1, <2>2, <2>4, <2>5, <3>1
    <3>3. ASSUME NEW key \in DOMAIN d PROVE \E i \in 1..(k + 1) : Decides(i, key, d[key])
      <4>1. PICK i \in 1..k : Decides(i, key, c[key])
        BY Zenon, <2>4, <3>1, <3>3
      <4>2. QED
        BY Zenon, <2>1, <3>1, <4>1
    <3>4. QED
      BY Zenon, <1>2, <2>1, <2>2, <3>2, <3>3
  <2>6. CASE Usable(l)
    <3>1. d = [x \in DOMAIN c \cup {Key(l)} |-> IF x \in DOMAIN c THEN c[x] ELSE Value(l)]
      BY Zenon, <2>3, <2>6 DEF AddLine, insert
    <3>2. DOMAIN d = DOMAIN c \cup {Key(l)}
      BY Zenon, <3>1
    <3>3. \A j \in 1..(k + 1) : Usable(lines[j]) => Key(lines[j]) \in DOMAIN d
      BY Zenon, <2>1, <2>2, <2>3, <3>2
    <3>4. ASSUME NEW key \in DOMAIN d PROVE \E i \in 1..(k + 1) : Decides(i, key, d[key])
      <4>1. CASE key \in DOMAIN c
        <5>1. d[key] = c[key]
          BY Zenon, <3>1, <3>2, <4>1
        <5>2. QED
          BY Zenon, <2>1, <2>3, <4>1, <5>1
      <4>2. CASE key \notin DOMAIN c
        <5>1. d[key] = Value(l) /\ key = Key(l)
          BY Zenon, <3>1, <3>2, <4>2
        <5>2. \A j \in 1..k : ~For(j, key)
          <6>1. \A j \in 1..k : Usable(lines[j]) => Key(lines[j]) \in DOMAIN c
            BY Zenon, <2>4
          <6>2. QED
            BY Zenon, <4>2, <6>1
        <5>3. Decides(k + 1, key, d[key])
          BY Zenon, <2>1, <2>2, <2>6, <5>1, <5>2
        <5>4. QED
          BY Zenon, <2>1, <5>3
      <4>3. QED
        BY Zenon, <4>1, <4>2
    <3>5. QED
      BY Zenon, <1>2, <2>1, <2>2, <3>3, <3>4
  <2>7. QED
    BY Zenon, <2>5, <2>6
<1>5. Known(n, m[n])
  <2>1. \A i \in 0..n : i \in T
    BY <1>0, <1>3, <1>4, UpwardInduction
  <2>2. n \in 0..n
    BY SMT, <1>0
  <2>3. QED
    BY Zenon, <1>2, <2>1, <2>2
<1>6. ASSUME NEW key \in DOMAIN load_custom_ips(lines)
      PROVE  \E i \in DOMAIN lines :
               /\ lines[i] = key \o <<Gap>> \o load_custom_ips(lines)[key]
               /\ \A j \in 1..(i - 1) :
                    HasSpace(lines[j]) /\ Key(lines[j]) = key => Value(lines[j]) = <<>>
  <2>1. PICK i \in 1..n : Decides(i, key, m[n][key])
    BY Zenon, <1>1, <1>5, <1>6
  <2>2. lines[i] \in Seq(S) /\ HasSpace(lines[i]) /\ Key(lines[i]) = key /\ key # <<>>
    BY Zenon, <1>0, <2>1 DEF Usable
  <2>3. lines[i] = Key(lines[i]) \o <<Gap>> \o Value(lines[i])
    BY <2>2, LineWhole
  <2>4. \A j \in 1..(i - 1) :
          HasSpace(lines[j]) /\ Key(lines[j]) = key => Value(lines[j]) = <<>>
    BY Zenon, <2>1, <2>2 DEF Usable
  <2>5. QED
    BY Zenon, <1>0, <1>1, <2>1, <2>2, <2>3, <2>4
<1>7. QED
  BY Zenon, <1>6 DEF FirstLineDecides

-----------------------------------------------------------------------------
(* The command line.                                                       *)

\* The greatest of a set of numbers is the one the others do not exceed.
LEMMA GreatestIs ==
    ASSUME NEW S, S \subseteq Int, NEW g \in S, \A l \in S : l <= g
    PROVE  Greatest(S) = g
<1>1. \A k \in S : (\A l \in S : l <= k) => k = g
  BY SMT
<1>2. QED
  BY Zenon, <1>1 DEF Greatest

\* The last of a set of places, when one more is looked at.
LEMMA GreatestStep ==
    ASSUME NEW i \in Nat, NEW j \in Nat, i <= j + 1,
           NEW S \in SUBSET (i..j), NEW R \in SUBSET (i..(j + 1)), \A k \in i..j : k \in R <=> k \in S
    PROVE  /\ j + 1 \in R => Greatest(R) = j + 1
           /\ j + 1 \notin R => R = S
<1>1. ASSUME j + 1 \in R PROVE Greatest(R) = j + 1
  <2>1. R \subseteq Int /\ \A l \in R : l <= j + 1
    BY SMT, <1>1
  <2>2. QED
    BY <1>1, <2>1, GreatestIs
<1>2. ASSUME j + 1 \notin R PROVE R = S
  <2>1. \A k : k \in i..(j + 1) /\ k # j + 1 <=> k \in i..j
    BY SMT
  <2>2. QED
    BY Zenon, <1>2, <2>1
<1>3. QED
  BY Zenon, <1>1, <1>2

\* One more argument is the last one that says something of a member, if it does.
LEMMA LastSaidStep ==
    ASSUME NEW args, NEW m, NEW i \in Nat, NEW j \in Nat, i <= j + 1, NEW default
    PROVE  LastSaid(args, m, i, j + 1, default) =
             IF Sets(args[j + 1], m) THEN Says(args[j + 1], m) ELSE LastSaid(args, m, i, j, default)
<1>1. PICK S, R : S = {k \in i..j : Sets(args[k], m)} /\ R = {k \in i..(j + 1) : Sets(args[k], m)}
  OBVIOUS
<1>2. j + 1 \in i..(j + 1) /\ \A k \in i..j : k \in i..(j + 1)
  BY SMT
<1>3. S \in SUBSET (i..j) /\ R \in SUBSET (i..(j + 1)) /\ \A k \in i..j : k \in R <=> k \in S
  BY Zenon, <1>1, <1>2
<1>4. (j + 1 \in R => Greatest(R) = j + 1) /\ (j + 1 \notin R => R = S)
  BY <1>3, GreatestStep
<1>5. (j + 1 \in R <=> Sets(args[j + 1], m)) /\ (R = {} => j + 1 \notin R)
  BY Zenon, <1>1, <1>2
<1>6. /\ LastSaid(args, m, i, j, default) = IF S = {} THEN default ELSE Says(args[Greatest(S)], m)
      /\ LastSaid(args, m, i, j + 1, default) = IF R = {} THEN default ELSE Says(args[Greatest(R)], m)
  BY Zenon, <1>1 DEF LastSaid
<1>7. QED
  BY Zenon, <1>4, <1>5, <1>6

\* The names that are members of a profile, and the options they are set by.
LEMMA Members ==
    /\ DefaultProfile = [m \in DOMAIN DefaultProfile |-> DefaultProfile[m]]
    /\ DefaultProfile.min_ttl = 0
    /\ {"min_ttl", "auto_ttl", "auto_ttl_a1", "auto_ttl_a2", "auto_ttl_max", "desync_attacks",
        "desync_zero_attack", "desync_first_attack"} \subseteq DOMAIN DefaultProfile
    /\ {"profile", "auto"} \cap DOMAIN DefaultProfile = {} /\ "profile" \notin DOMAIN DefaultSettings
<1>1. DefaultProfile = [m \in DOMAIN DefaultProfile |-> DefaultProfile[m]]
  BY Zenon DEF DefaultProfile
<1>2. DefaultProfile.min_ttl = 0
  BY Zenon DEF DefaultProfile
<1>3. {"min_ttl", "auto_ttl", "auto_ttl_a1", "auto_ttl_a2", "auto_ttl_max", "desync_attacks",
       "desync_zero_attack", "desync_first_attack"} \subseteq DOMAIN DefaultProfile
  BY Zenon DEF DefaultProfile
<1>4. {"profile", "auto"} \cap DOMAIN DefaultProfile = {}
  BY Zenon DEF DefaultProfile
<1>5. "profile" \notin DOMAIN DefaultSettings
  BY Zenon DEF DefaultSettings
<1>6. QED
  BY Zenon, <1>1, <1>2, <1>3, <1>4, <1>5

\* The members that are set together with others, and what these options say of them.
LEMMA GroupedMembers ==
    /\ DOMAIN Part = {"auto_ttl_a1", "auto_ttl_a2", "auto_ttl_max"}
    /\ DOMAIN Kind = {"desync_zero_attack", "desync_first_attack"}
    /\ Part["auto_ttl_a1"] = 1 /\ Part["auto_ttl_a2"] = 2 /\ Part["auto_ttl_max"] = 3
    /\ Kind["desync_zero_attack"] = ZeroNames /\ Kind["desync_first_attack"] = FirstNames
BY Zenon DEF Part, Kind

\* No member of the settings is set together with others, or is one of a profile.
LEMMA SettingsApart ==
    /\ DefaultSettings = [m \in DOMAIN DefaultSettings |-> DefaultSettings[m]]
    /\ \A m \in DOMAIN DefaultSettings : m \notin Grouped /\ m \notin DOMAIN DefaultProfile /\ m # "auto"
<1>1. DefaultSettings = [m \in DOMAIN DefaultSettings |-> DefaultSettings[m]]
  BY Zenon DEF DefaultSettings
<1>2. DOMAIN DefaultSettings = {"server_port", "server_address", "proxy_mode", "ca_bundle_path",
                                "whitelist_path", "custom_ips_path", "pid_file", "daemon"}
  BY Zenon DEF DefaultSettings
<1>3. DOMAIN DefaultProfile = {"buffer_size", "split_position", "fake_packets_ttl", "window_size",
        "window_scale_factor", "wrong_seq", "min_ttl", "auto_ttl", "auto_ttl_a1", "auto_ttl_a2",
        "auto_ttl_max", "doh_server", "builtin_dns", "builtin_dns_ip", "builtin_dns_port",
        "split_at_sni", "desync_attacks", "doh", "desync_zero_attack", "desync_first_attack"}
  BY Zenon DEF DefaultProfile
<1>4. Grouped = {"auto_ttl", "desync_attacks", "auto_ttl_a1", "auto_ttl_a2", "auto_ttl_max",
                 "desync_zero_attack", "desync_first_attack"}
  BY Zenon, GroupedMembers DEF Grouped
<1>5. QED
  BY Zenon, <1>1, <1>2, <1>3, <1>4

\* No arguments describe the default profile.
LEMMA NothingDescribed ==
    ASSUME NEW args, NEW i \in Nat
    PROVE  Described(args, i + 1, i) = DefaultProfile
<1>1. (i + 1)..i = {}
  BY SMT
<1>2. \A m, d : LastSaid(args, m, i + 1, i, d) = d
  BY Zenon, <1>1 DEF LastSaid
<1>3. LeastTtl(args, i + 1, i) = DefaultProfile.min_ttl
  BY Zenon, <1>1 DEF LeastTtl
<1>4. QED
  BY Zenon, <1>2, <1>3, Members DEF Described

\* That a group is begun is not part of what it describes.
LEMMA StartSkipped ==
    ASSUME NEW args, NEW i \in Nat, NEW j \in Nat, i <= j, args[i].opt = "profile"
    PROVE  Described(args, i, j) = Described(args, i + 1, j)
<1>1. \A k : k \in i..j <=> k = i \/ k \in (i + 1)..j
  BY SMT
<1>2. ASSUME NEW m \in DOMAIN DefaultProfile PROVE ~Sets(args[i], m)
  <2>1. m # "profile" /\ "profile" # "auto_ttl" /\ "profile" # "desync_attacks"
    BY Zenon, Members
  <2>2. QED
    BY Zenon, <2>1 DEF Sets
<1>3. ASSUME NEW m \in DOMAIN DefaultProfile
      PROVE  {k \in i..j : Sets(args[k], m)} = {k \in (i + 1)..j : Sets(args[k], m)}
  BY Zenon, <1>1, <1>2
<1>4. \A d : \A m \in DOMAIN DefaultProfile : LastSaid(args, m, i, j, d) = LastSaid(args, m, i + 1, j, d)
  BY Zenon, <1>3 DEF LastSaid
<1>5. LeastTtl(args, i, j) = LeastTtl(args, i + 1, j)
  BY Zenon, <1>1 DEF LeastTtl
<1>6. QED
  BY Zenon, <1>4, <1>5 DEF Described

\* A state with another value of a member of the profile being written, or of the settings.
WithProfile(s, member, value)  == [s EXCEPT !.profile[member] = value]
WithSettings(s, member, value) == [s EXCEPT !.settings[member] = value]

\* The recursion of Attacks is well defined.
LEMMA AttacksAre ==
    ASSUME NEW s, NEW names, Len(names) \in Nat
    PROVE  \E m : /\ m[0] = WithProfile(s, "desync_attacks", TRUE)
                  /\ \A i \in 1..Len(names) : m[i] = Attack(m[i - 1], names[i])
                  /\ Attacks(s, names) = m[Len(names)]
<1> DEFINE n == Len(names)
           s0 == WithProfile(s, "desync_attacks", TRUE)
           Step(f, i) == IF i = 0 THEN s0 ELSE Attack(f[i - 1], names[i])
           T == {k \in 0..n : \E f : \A i \in 0..k : f[i] = Step(f, i)}
           Whole(f) == f = [i \in 0..n |-> Step(f, i)]
<1>1. 0 \in T
  <2>1. PICK f : f = [i \in 0..0 |-> s0]
    OBVIOUS
  <2>2. 0 \in 0..n /\ 0 \in 0..0 /\ \A i \in 0..0 : i = 0
    BY SMT
  <2>3. f[0] = Step(f, 0)
    BY Zenon, <2>1, <2>2
  <2>4. QED
    BY Zenon, <2>2, <2>3
<1>2. ASSUME NEW k \in 0..(n - 1), k \in T PROVE k + 1 \in T
  <2>1. PICK f : \A i \in 0..k : f[i] = Step(f, i)
    BY Zenon, <1>2
  <2>2. PICK g : g = [i \in 0..(k + 1) |-> IF i = k + 1 THEN Attack(f[k], names[k + 1]) ELSE f[i]]
    OBVIOUS
  <2>3. /\ k + 1 \in 0..n /\ k + 1 # 0 /\ k + 1 \in 0..(k + 1) /\ (k + 1) - 1 = k
        /\ \A i \in 0..(k + 1) : i # k + 1 => i \in 0..k
        /\ \A i \in 0..k : /\ i # k + 1 /\ i \in 0..(k + 1)
                           /\ i # 0 => i - 1 \in 0..k
        /\ k \in 0..k
    BY SMT
  <2>4. g[k + 1] = Attack(f[k], names[k + 1]) /\ \A i \in 0..k : g[i] = f[i]
    BY Zenon, <2>2, <2>3
  <2>5. ASSUME NEW i \in 0..(k + 1) PROVE g[i] = Step(g, i)
    <3>1. CASE i = k + 1
      BY Zenon, <2>3, <2>4, <3>1
    <3>2. CASE i # k + 1
      BY Zenon, <2>1, <2>3, <2>4, <3>2
    <3>3. QED
      BY Zenon, <3>1, <3>2
  <2>6. QED
    BY Zenon, <2>3, <2>5
<1>3. n \in T
  <2> HIDE DEF T
  <2>1. \A i \in 0..n : i \in T
    BY <1>1, <1>2, UpwardInduction
  <2>2. QED
    BY <2>1
<1>4. PICK f : \A i \in 0..n : f[i] = Step(f, i)
  BY Zenon, <1>3
<1>5. PICK g : g = [i \in 0..n |-> f[i]]
  OBVIOUS
<1>6. \A i \in 0..n : i # 0 => i - 1 \in 0..n
  BY SMT
<1>7. \A i \in 0..n : f[i] = Step(g, i)
  BY Zenon, <1>4, <1>5, <1>6
<1>8. Whole(g)
  BY Zenon, <1>5, <1>7
<1>9. PICK m : m = CHOOSE h : Whole(h)
  OBVIOUS
<1>10. Whole(m) /\ Attacks(s, names) = m[n]
  BY Zenon, <1>8, <1>9 DEF Attacks, WithProfile
<1>11. 0 \in 0..n /\ \A i \in 1..n : i \in 0..n /\ i # 0
  BY SMT
<1>12. QED
  BY Zenon, <1>10, <1>11

\* The recursion of parse_cmdline is well defined.
LEMMA ParseIs ==
    ASSUME NEW args, Len(args) \in Nat
    PROVE  \E m : /\ m[0] = Start
                  /\ \A i \in 1..Len(args) : m[i] = Turn(m[i - 1], args[i])
                  /\ parse_cmdline(args) = Finish(m[Len(args)])
<1> DEFINE n == Len(args)
           Step(f, i) == IF i = 0 THEN Start ELSE Turn(f[i - 1], args[i])
           T == {k \in 0..n : \E f : \A i \in 0..k : f[i] = Step(f, i)}
           Whole(f) == f = [i \in 0..n |-> Step(f, i)]
<1>1. 0 \in T
  <2>1. PICK f : f = [i \in 0..0 |-> Start]
    OBVIOUS
  <2>2. 0 \in 0..n /\ 0 \in 0..0 /\ \A i \in 0..0 : i = 0
    BY SMT
  <2>3. f[0] = Step(f, 0)
    BY Zenon, <2>1, <2>2
  <2>4. QED
    BY Zenon, <2>2, <2>3
<1>2. ASSUME NEW k \in 0..(n - 1), k \in T PROVE k + 1 \in T
  <2>1. PICK f : \A i \in 0..k : f[i] = Step(f, i)
    BY Zenon, <1>2
  <2>2. PICK g : g = [i \in 0..(k + 1) |-> IF i = k + 1 THEN Turn(f[k], args[k + 1]) ELSE f[i]]
    OBVIOUS
  <2>3. /\ k + 1 \in 0..n /\ k + 1 # 0 /\ k + 1 \in 0..(k + 1) /\ (k + 1) - 1 = k
        /\ \A i \in 0..(k + 1) : i # k + 1 => i \in 0..k
        /\ \A i \in 0..k : /\ i # k + 1 /\ i \in 0..(k + 1)
                           /\ i # 0 => i - 1 \in 0..k
        /\ k \in 0..k
    BY SMT
  <2>4. g[k + 1] = Turn(f[k], args[k + 1]) /\ \A i \in 0..k : g[i] = f[i]
    BY Zenon, <2>2, <2>3
  <2>5. ASSUME NEW i \in 0..(k + 1) PROVE g[i] = Step(g, i)
    <3>1. CASE i = k + 1
      BY Zenon, <2>3, <2>4, <3>1
    <3>2. CASE i # k + 1
      BY Zenon, <2>1, <2>3, <2>4, <3>2
    <3>3. QED
      BY Zenon, <3>1, <3>2
  <2>6. QED
    BY Zenon, <2>3, <2>5
<1>3. n \in T
  <2> HIDE DEF T
  <2>1. \A i \in 0..n : i \in T
    BY <1>1, <1>2, UpwardInduction
  <2>2. QED
    BY <2>1
<1>4. PICK f : \A i \in 0..n : f[i] = Step(f, i)
  BY Zenon, <1>3
<1>5. PICK g : g = [i \in 0..n |-> f[i]]
  OBVIOUS
<1>6. \A i \in 0..n : i # 0 => i - 1 \in 0..n
  BY SMT
<1>7. \A i \in 0..n : f[i] = Step(g, i)
  BY Zenon, <1>4, <1>5, <1>6
<1>8. Whole(g)
  BY Zenon, <1>5, <1>7
<1>9. PICK m : m = CHOOSE h : Whole(h)
  OBVIOUS
<1>10. Whole(m) /\ parse_cmdline(args) = Finish(m[n])
  BY Zenon, <1>8, <1>9 DEF parse_cmdline
<1>11. 0 \in 0..n /\ \A i \in 1..n : i \in 0..n /\ i # 0
  BY SMT
<1>12. QED
  BY Zenon, <1>10, <1>11

\* What a state of parse_cmdline, a profile and the settings are made of.
IsProfile(p)  == p = [m \in DOMAIN DefaultProfile |-> p[m]]
IsSettings(p) == p = [m \in DOMAIN DefaultSettings |-> p[m]]
IsState(s)    == /\ s = [ret |-> s.ret, curr |-> s.curr, profile |-> s.profile,
                         Profiles |-> s.Profiles, Profile |-> s.Profile, settings |-> s.settings]
                 /\ IsProfile(s.profile) /\ IsSettings(s.settings)

\* What options other than --profile leave alone.
Apart(s, t)  == t.curr = s.curr /\ t.Profiles = s.Profiles /\ t.Profile = s.Profile

\* One member of a profile or of the settings takes a value.
Becomes(p, q, member, value) == /\ q[member] = value
                                /\ \A m \in DOMAIN p : m # member => q[m] = p[m]

\* Nothing but the profile that is being described changes.
SameBut(s, t) == IsState(t) /\ Apart(s, t) /\ t.settings = s.settings

\* An option that sets a member of the profile sets this one only.
LEMMA ProfileSet ==
    ASSUME NEW s, IsState(s), NEW x \in DOMAIN DefaultProfile, NEW v, NEW t, t = WithProfile(s, x, v)
    PROVE  SameBut(s, t) /\ t.ret = s.ret /\ Becomes(s.profile, t.profile, x, v)
<1>1. PICK p, q : p = s.profile /\ q = [p EXCEPT ![x] = v]
  OBVIOUS
<1>2. t = [s EXCEPT !.profile = q]
  BY Zenon, <1>1 DEF WithProfile
<1>3. /\ t.profile = q /\ t.curr = s.curr /\ t.Profiles = s.Profiles /\ t.Profile = s.Profile
      /\ t.ret = s.ret /\ t.settings = s.settings
      /\ t = [ret |-> t.ret, curr |-> t.curr, profile |-> t.profile,
              Profiles |-> t.Profiles, Profile |-> t.Profile, settings |-> t.settings]
  BY SMT, <1>2 DEF IsState
<1>4. p = [m \in DOMAIN DefaultProfile |-> p[m]]
  BY Zenon, <1>1 DEF IsState, IsProfile
<1>5. q = [m \in DOMAIN DefaultProfile |-> q[m]] /\ Becomes(p, q, x, v)
  BY Zenon, <1>1, <1>4 DEF Becomes
<1>6. QED
  BY Zenon, <1>1, <1>3, <1>5 DEF SameBut, IsState, IsProfile, Apart

\* An option that sets a member of the settings sets this one only.
LEMMA SettingsSet ==
    ASSUME NEW s, IsState(s), NEW x \in DOMAIN DefaultSettings, NEW v, NEW t, t = WithSettings(s, x, v)
    PROVE  /\ IsState(t) /\ Apart(s, t) /\ t.ret = s.ret /\ t.profile = s.profile
           /\ Becomes(s.settings, t.settings, x, v)
<1>1. PICK p, q : p = s.settings /\ q = [p EXCEPT ![x] = v]
  OBVIOUS
<1>2. t = [s EXCEPT !.settings = q]
  BY Zenon, <1>1 DEF WithSettings
<1>3. /\ t.settings = q /\ t.curr = s.curr /\ t.Profiles = s.Profiles /\ t.Profile = s.Profile
      /\ t.ret = s.ret /\ t.profile = s.profile
      /\ t = [ret |-> t.ret, curr |-> t.curr, profile |-> t.profile,
              Profiles |-> t.Profiles, Profile |-> t.Profile, settings |-> t.settings]
  BY SMT, <1>2 DEF IsState
<1>4. p = [m \in DOMAIN DefaultSettings |-> p[m]]
  BY Zenon, <1>1 DEF IsState, IsSettings
<1>5. q = [m \in DOMAIN DefaultSettings |-> q[m]] /\ Becomes(p, q, x, v)
  BY Zenon, <1>1, <1>4 DEF Becomes
<1>6. QED
  BY Zenon, <1>1, <1>3, <1>5 DEF IsState, IsSettings, Apart

\* Only the attack of one kind changes.
Attacked(name, p, q) ==
    \A m \in DOMAIN DefaultProfile :
       q[m] = IF m \in DOMAIN Kind /\ name \in Kind[m] THEN name ELSE p[m]

\* An attack that is accepted is remembered as that of its kind, and nothing else changes.
LEMMA AttackGives ==
    ASSUME NEW s, IsState(s), s.ret = 0, NEW name, NEW t, t = Attack(s, name), t.ret = 0
    PROVE  SameBut(s, t) /\ Attacked(name, s.profile, t.profile)
<1>0. DOMAIN s.profile = DOMAIN DefaultProfile
  BY Zenon DEF IsState, IsProfile
<1>1. CASE name \in ZeroNames
  <2>1. name \notin FirstNames
    BY <1>1 DEF ZeroNames, FirstNames
  <2>2. t = WithProfile(s, "desync_zero_attack", name)
    BY Zenon, <1>1 DEF Attack, WithProfile
  <2>3. "desync_zero_attack" \in DOMAIN DefaultProfile /\ "desync_zero_attack" # "desync_first_attack"
    BY Zenon, Members
  <2>4. SameBut(s, t) /\ Becomes(s.profile, t.profile, "desync_zero_attack", name)
    BY <2>2, <2>3, ProfileSet
  <2>5. QED
    BY Zenon, <1>0, <1>1, <2>1, <2>3, <2>4, GroupedMembers DEF Becomes, Attacked
<1>2. CASE name \notin ZeroNames /\ name \in FirstNames
  <2>1. t = WithProfile(s, "desync_first_attack", name)
    BY Zenon, <1>2 DEF Attack, WithProfile
  <2>2. "desync_first_attack" \in DOMAIN DefaultProfile /\ "desync_zero_attack" # "desync_first_attack"
    BY Zenon, Members
  <2>3. SameBut(s, t) /\ Becomes(s.profile, t.profile, "desync_first_attack", name)
    BY <2>1, <2>2, ProfileSet
  <2>4. QED
    BY Zenon, <1>0, <1>2, <2>2, <2>3, GroupedMembers DEF Becomes, Attacked
<1>3. CASE name \notin ZeroNames /\ name \notin FirstNames
  <2>1. t = [s EXCEPT !.ret = -1]
    BY Zenon, <1>3 DEF Attack, Refused
  <2>2. t.ret = -1
    BY <2>1 DEF IsState
  <2>3. QED
    BY <2>2
<1>4. QED
  BY Zenon, <1>1, <1>2, <1>3

\* What a list of attacks makes of a profile.
Listed(names, p, q) ==
    \A m \in DOMAIN DefaultProfile :
       q[m] = IF m = "desync_attacks" THEN TRUE
              ELSE IF m \in DOMAIN Kind /\ Places(names, Kind[m]) # {} THEN LastIn(names, Kind[m])
              ELSE p[m]

\* The attacks of a list: of each kind the last one counts.
LEMMA AttacksGive ==
    ASSUME NEW s, IsState(s), s.ret = 0, NEW names, Len(names) \in Nat, DOMAIN names = 1..Len(names),
           NEW t, t = Attacks(s, names), t.ret = 0
    PROVE  SameBut(s, t) /\ Listed(names, s.profile, t.profile)
<1> DEFINE n == Len(names)
           In(k, N) == {l \in 1..k : names[l] \in N}
           Last(k, m, other) == IF m \in DOMAIN Kind /\ In(k, Kind[m]) # {}
                                THEN names[Greatest(In(k, Kind[m]))] ELSE other
<1>0. PICK yes, s0 : yes = TRUE /\ s0 = WithProfile(s, "desync_attacks", yes)
  OBVIOUS
<1>1. PICK m : /\ m[0] = s0
               /\ \A i \in 1..n : m[i] = Attack(m[i - 1], names[i])
               /\ Attacks(s, names) = m[n]
  BY Zenon, <1>0, AttacksAre
<1>2. /\ SameBut(s, s0) /\ s0.ret = 0 /\ Becomes(s.profile, s0.profile, "desync_attacks", yes)
      /\ DOMAIN s.profile = DOMAIN DefaultProfile /\ "desync_attacks" \in DOMAIN DefaultProfile
  <2>1. "desync_attacks" \in DOMAIN DefaultProfile
    BY Zenon, Members
  <2>2. DOMAIN s.profile = DOMAIN DefaultProfile
    BY Zenon DEF IsState, IsProfile
  <2>3. SameBut(s, s0) /\ s0.ret = s.ret /\ Becomes(s.profile, s0.profile, "desync_attacks", yes)
    BY <1>0, <2>1, ProfileSet
  <2>4. QED
    BY Zenon, <2>1, <2>2, <2>3
<1> DEFINE Good(k, u) ==
             u.ret = 0 => /\ SameBut(s, u)
                          /\ \A x \in DOMAIN DefaultProfile : u.profile[x] = Last(k, x, s0.profile[x])
<1>3. PICK T : T = {k \in 0..n : Good(k, m[k])}
  OBVIOUS
<1>4. 0 \in T
  <2>1. 0 \in 0..n /\ 1..0 = {}
    BY SMT
  <2>2. \A x, other : Last(0, x, other) = other
    BY Zenon, <2>1
  <2>3. QED
    BY Zenon, <1>1, <1>2, <1>3, <2>1, <2>2
<1>5. ASSUME NEW k \in 0..(n - 1), k \in T PROVE k + 1 \in T
  <2>1. k + 1 \in 0..n /\ k + 1 \in 1..n /\ (k + 1) - 1 = k /\ k \in Nat
    BY SMT
  <2>2. PICK u, v, name : u = m[k] /\ v = m[k + 1] /\ name = names[k + 1]
    OBVIOUS
  <2>3. v = Attack(u, name) /\ Good(k, u)
    BY Zenon, <1>1, <1>3, <1>5, <2>1, <2>2
  <2>4. ASSUME NEW x, NEW other
        PROVE  Last(k + 1, x, other) =
                 IF x \in DOMAIN Kind /\ name \in Kind[x] THEN name ELSE Last(k, x, other)
    <3>1. PICK A, B : A = In(k, Kind[x]) /\ B = In(k + 1, Kind[x])
      OBVIOUS
    <3>2. 1 \in Nat /\ 1 <= k + 1 /\ k + 1 \in 1..(k + 1) /\ \A l \in 1..k : l \in 1..(k + 1)
      BY SMT
    <3>3. A \in SUBSET (1..k) /\ B \in SUBSET (1..(k + 1)) /\ \A l \in 1..k : l \in B <=> l \in A
      BY Zenon, <3>1, <3>2
    <3>4. (k + 1 \in B => Greatest(B) = k + 1) /\ (k + 1 \notin B => B = A)
      BY ZenonT(60), <2>1, <3>2, <3>3, GreatestStep
    <3>5. (k + 1 \in B <=> name \in Kind[x]) /\ (B = {} => k + 1 \notin B)
      BY Zenon, <2>2, <3>1, <3>2
    <3>6. QED
      BY Zenon, <2>2, <3>1, <3>4, <3>5
  <2>5. ASSUME v.ret = 0 PROVE Good(k + 1, v)
    <3>1. u.ret = 0
      BY Zenon, <2>3, <2>5 DEF Attack
    <3>2. SameBut(s, u) /\ \A x \in DOMAIN DefaultProfile : u.profile[x] = Last(k, x, s0.profile[x])
      BY Zenon, <2>3, <3>1
    <3> HIDE DEF Last
    <3>3. SameBut(u, v) /\ Attacked(name, u.profile, v.profile)
      BY Zenon, <2>3, <2>5, <3>1, <3>2, AttackGives DEF SameBut
    <3>4. SameBut(s, v)
      BY Zenon, <3>2, <3>3 DEF SameBut, Apart
    <3>5. QED
      BY Zenon, <2>4, <3>2, <3>3, <3>4 DEF Attacked
  <2>6. QED
    BY Zenon, <1>3, <2>1, <2>2, <2>5
<1>6. Good(n, m[n])
  <2>1. \A i \in 0..n : i \in T
    BY <1>4, <1>5, UpwardInduction
  <2>2. n \in 0..n
    BY SMT
  <2>3. QED
    BY Zenon, <1>3, <2>1, <2>2
<1>7. \A N : In(n, N) = Places(names, N)
  BY Zenon DEF Places
<1>8. SameBut(s, t) /\ \A x \in DOMAIN DefaultProfile : t.profile[x] = Last(n, x, s0.profile[x])
  BY Zenon, <1>1, <1>6
<1>9. ASSUME NEW x \in DOMAIN DefaultProfile
      PROVE  t.profile[x] = IF x = "desync_attacks" THEN TRUE
               ELSE IF x \in DOMAIN Kind /\ Places(names, Kind[x]) # {} THEN LastIn(names, Kind[x])
               ELSE s.profile[x]
  <2>1. x = "desync_attacks" => x \notin DOMAIN Kind
    BY Zenon, GroupedMembers
  <2>2. t.profile[x] = IF x \in DOMAIN Kind /\ Places(names, Kind[x]) # {}
                       THEN LastIn(names, Kind[x]) ELSE s0.profile[x]
    BY Zenon, <1>7, <1>8 DEF LastIn
  <2>3. s0.profile[x] = IF x = "desync_attacks" THEN yes ELSE s.profile[x]
    BY Zenon, <1>2 DEF Becomes
  <2>4. QED
    BY Zenon, <1>0, <2>1, <2>2, <2>3
<1>10. QED
  BY Zenon, <1>8, <1>9 DEF Listed

\* Which options are about a member, and what they say, by the sort of the member.
LEMMA AboutMembers ==
    ASSUME NEW option, NEW m
    PROVE  /\ m \notin Grouped => /\ Sets(option, m) <=> option.opt = m
                                  /\ Says(option, m) = Converted(m, option.arg)
           /\ m \in {"auto_ttl", "desync_attacks"} => /\ Sets(option, m) <=> option.opt = m
                                                      /\ Says(option, m) = TRUE
           /\ m \in DOMAIN Part => /\ Sets(option, m) <=> option.opt = "auto_ttl"
                                   /\ Says(option, m) = UShort(option.arg[Part[m]])
           /\ m \in DOMAIN Kind =>
                /\ Sets(option, m) <=> /\ option.opt = "desync_attacks"
                                       /\ Places(option.arg, Kind[m]) # {}
                /\ Says(option, m) = LastIn(option.arg, Kind[m])
<1>1. CASE m \in DOMAIN Part
  <2>1. m \in Grouped /\ m \notin {"auto_ttl", "desync_attacks"} /\ m \notin DOMAIN Kind
    BY Zenon, <1>1, GroupedMembers DEF Grouped
  <2>2. QED
    BY Zenon, <1>1, <2>1 DEF Sets, Says
<1>2. CASE m \in DOMAIN Kind
  <2>1. m \in Grouped /\ m \notin {"auto_ttl", "desync_attacks"} /\ m \notin DOMAIN Part
    BY Zenon, <1>2, GroupedMembers DEF Grouped
  <2>2. QED
    BY Zenon, <1>2, <2>1 DEF Sets, Says
<1>3. CASE m \notin DOMAIN Part /\ m \notin DOMAIN Kind
  <2>1. m \notin Grouped => m \notin {"auto_ttl", "desync_attacks"}
    BY Zenon DEF Grouped
  <2>2. QED
    BY Zenon, <1>3, <2>1 DEF Sets, Says
<1>4. QED
  BY Zenon, <1>1, <1>2, <1>3

\* What an option other than --profile makes of the profile that is being described.
Takes(option, p, q) ==
    /\ IsProfile(q)
    /\ option.opt = "min_ttl" => q.min_ttl # 0
    /\ \A m \in DOMAIN DefaultProfile :
         q[m] = IF Sets(option, m) THEN Says(option, m)
                ELSE IF m = "min_ttl" /\ option.opt = "auto_ttl" /\ p[m] = 0 THEN 3
                ELSE p[m]

\* What an option makes of the settings.
TakesSettings(option, p, q) ==
    \A m \in DOMAIN DefaultSettings : q[m] = IF Sets(option, m) THEN Says(option, m) ELSE p[m]

\* Once an option is refused, parse_cmdline does not return zero.
LEMMA RefusedEnds ==
    ASSUME NEW s, IsState(s)
    PROVE  Refused(s).ret # 0 /\ [s EXCEPT !.ret = -2].ret # 0
<1>1. Refused(s).ret = -1 /\ [s EXCEPT !.ret = -2].ret = -2
  BY DEF IsState, Refused
<1>2. QED
  BY <1>1

\* --auto-ttl sets five members of the profile.
LEMMA AutoTtlGives ==
    ASSUME NEW s, IsState(s), s.ret = 0, NEW option, option.opt = "auto_ttl",
           NEW t, t = AutoTtl(s, option.arg), t.ret = 0
    PROVE  SameBut(s, t) /\ Takes(option, s.profile, t.profile)
<1>0. Refused(s).ret # 0
  BY RefusedEnds
<1>1. PICK yes, a, b, c, least, p, q :
        /\ yes = TRUE /\ a = UShort(option.arg[1]) /\ b = UShort(option.arg[2]) /\ c = UShort(option.arg[3])
        /\ p = s.profile /\ least = IF p.min_ttl = 0 THEN 3 ELSE p.min_ttl
        /\ q = [p EXCEPT !.auto_ttl = yes, !.auto_ttl_a1 = a, !.auto_ttl_a2 = b, !.auto_ttl_max = c,
                         !.min_ttl = least]
  OBVIOUS
<1>2. p = [m \in DOMAIN DefaultProfile |-> p[m]]
  BY Zenon, <1>1 DEF IsState, IsProfile
<1>3. t = [s EXCEPT !.profile = q]
  <2>1. t = [s EXCEPT !.profile.auto_ttl = TRUE,
                      !.profile.auto_ttl_a1 = UShort(option.arg[1]),
                      !.profile.auto_ttl_a2 = UShort(option.arg[2]),
                      !.profile.auto_ttl_max = UShort(option.arg[3]),
                      !.profile.min_ttl = IF @ = 0 THEN 3 ELSE @]
    BY Zenon, <1>0 DEF AutoTtl
  <2>2. QED
    BY Zenon, <1>1, <1>2, <2>1
<1>4. /\ t.profile = q /\ t.curr = s.curr /\ t.Profiles = s.Profiles /\ t.Profile = s.Profile
      /\ t.settings = s.settings
      /\ t = [ret |-> t.ret, curr |-> t.curr, profile |-> t.profile,
              Profiles |-> t.Profiles, Profile |-> t.Profile, settings |-> t.settings]
  BY SMT, <1>3 DEF IsState
<1>5. IsProfile(q) /\ \A m \in DOMAIN DefaultProfile :
          q[m] = CASE m = "auto_ttl" -> yes [] m = "auto_ttl_a1" -> a [] m = "auto_ttl_a2" -> b
                   [] m = "auto_ttl_max" -> c [] m = "min_ttl" -> least [] OTHER -> p[m]
  BY Zenon, <1>1, <1>2, Members DEF IsProfile
<1>6. SameBut(s, t)
  BY Zenon, <1>4, <1>5 DEF SameBut, IsState, Apart
<1>7. ASSUME NEW m \in DOMAIN DefaultProfile
      PROVE  q[m] = IF Sets(option, m) THEN Says(option, m)
                    ELSE IF m = "min_ttl" /\ option.opt = "auto_ttl" /\ p[m] = 0 THEN 3 ELSE p[m]
  <2>1. CASE m \in DOMAIN Part
    <3>1. Sets(option, m) /\ Says(option, m) = UShort(option.arg[Part[m]])
      BY Zenon, <2>1, AboutMembers
    <3>2. CASE m = "auto_ttl_a1"
      <4>1. q[m] = a /\ Part[m] = 1
        BY Zenon, <1>5, <3>2, GroupedMembers
      <4>2. QED
        BY Zenon, <1>1, <3>1, <4>1
    <3>3. CASE m = "auto_ttl_a2"
      <4>1. q[m] = b /\ Part[m] = 2
        BY Zenon, <1>5, <3>3, GroupedMembers
      <4>2. QED
        BY Zenon, <1>1, <3>1, <4>1
    <3>4. CASE m = "auto_ttl_max"
      <4>1. q[m] = c /\ Part[m] = 3
        BY Zenon, <1>5, <3>4, GroupedMembers
      <4>2. QED
        BY Zenon, <1>1, <3>1, <4>1
    <3>5. QED
      BY Zenon, <2>1, <3>2, <3>3, <3>4, GroupedMembers
  <2>2. CASE m = "auto_ttl"
    <3>1. Sets(option, m) /\ Says(option, m) = TRUE
      BY Zenon, <2>2, AboutMembers
    <3>2. QED
      BY Zenon, <1>1, <1>5, <2>2, <3>1
  <2>3. CASE m = "min_ttl"
    <3>1. m \notin Grouped /\ m # "auto_ttl"
      BY Zenon, <2>3, GroupedMembers DEF Grouped
    <3>2. ~Sets(option, m)
      BY Zenon, <3>1, AboutMembers
    <3>3. QED
      BY Zenon, <1>1, <1>5, <2>3, <3>2
  <2>4. CASE m \notin DOMAIN Part /\ m # "auto_ttl" /\ m # "min_ttl"
    <3>1. q[m] = p[m]
      BY Zenon, <1>5, <2>4, GroupedMembers
    <3>2. ~Sets(option, m)
      BY Zenon, <2>4 DEF Sets
    <3>3. QED
      BY Zenon, <2>4, <3>1, <3>2
  <2>5. QED
    BY Zenon, <2>1, <2>2, <2>3, <2>4
<1>8. option.opt # "min_ttl" /\ IsProfile(q)
  BY Zenon, <1>5
<1>9. Takes(option, p, q)
  BY Zenon, <1>7, <1>8 DEF Takes
<1>10. QED
  BY Zenon, <1>1, <1>4, <1>6, <1>9

\* An option about one member of the profile.
LEMMA ProfileOption ==
    ASSUME NEW s, IsState(s), s.ret = 0, NEW option, option.opt \in DOMAIN DefaultProfile \ Grouped,
           NEW t, t = SetProfile(s, option.opt, Converted(option.opt, option.arg)), t.ret = 0
    PROVE  SameBut(s, t) /\ Takes(option, s.profile, t.profile)
<1>0. Refused(s).ret # 0
  BY RefusedEnds
<1>1. PICK x, v : x = option.opt /\ v = Converted(x, option.arg) /\ x \in DOMAIN DefaultProfile \ Grouped
  OBVIOUS
<1>2. Accepted(x, v) /\ t = WithProfile(s, x, v) /\ x \in DOMAIN DefaultProfile
  BY Zenon, <1>0, <1>1 DEF SetProfile, WithProfile
<1>3. SameBut(s, t) /\ Becomes(s.profile, t.profile, x, v)
  BY <1>2, ProfileSet
<1>4. x = "min_ttl" => v # 0
  <2>1. "min_ttl" \in DOMAIN Limits /\ Limits["min_ttl"] = 1..255
    BY Zenon DEF Limits
  <2>2. \A k \in 1..255 : k # 0
    BY SMT
  <2>3. QED
    BY Zenon, <1>2, <2>1, <2>2 DEF Accepted
<1>5. x # "auto_ttl" /\ x # "desync_attacks"
  BY Zenon, <1>1 DEF Grouped
<1>6. ASSUME NEW m \in DOMAIN DefaultProfile
      PROVE  t.profile[m] = IF Sets(option, m) THEN Says(option, m) ELSE s.profile[m]
  <2>1. CASE m = x
    BY Zenon, <1>1, <1>3, <2>1, AboutMembers DEF Becomes
  <2>2. CASE m # x
    <3>1. ~Sets(option, m)
      BY Zenon, <1>1, <1>5, <2>2 DEF Sets
    <3>2. t.profile[m] = s.profile[m]
      BY Zenon, <1>3, <2>2 DEF Becomes, IsState, IsProfile
    <3>3. QED
      BY Zenon, <3>1, <3>2
  <2>3. QED
    BY Zenon, <2>1, <2>2
<1>7. IsProfile(t.profile) /\ (x = "min_ttl" => t.profile.min_ttl # 0)
  BY Zenon, <1>3, <1>4 DEF SameBut, IsState, Becomes
<1>8. QED
  BY Zenon, <1>1, <1>3, <1>5, <1>6, <1>7 DEF Takes

\* An option that is accepted sets the members it is about, in the profile being written only.
LEMMA ApplyGives ==
    ASSUME NEW s, IsState(s), s.ret = 0, NEW option, option.opt # "profile",
           option.opt = "desync_attacks" =>
             Len(option.arg) \in Nat /\ DOMAIN option.arg = 1..Len(option.arg),
           NEW t, t = Apply(s, option), t.ret = 0
    PROVE  /\ IsState(t) /\ Apart(s, t) /\ Takes(option, s.profile, t.profile)
           /\ TakesSettings(option, s.settings, t.settings)
<1>0. Refused(s).ret # 0 /\ [s EXCEPT !.ret = -2].ret # 0
  BY RefusedEnds
<1>a. "auto_ttl" \in Grouped /\ "desync_attacks" \in Grouped
  BY Zenon DEF Grouped
<1>b. ASSUME option.opt \notin DOMAIN DefaultSettings
      PROVE  \A m \in DOMAIN DefaultSettings : ~Sets(option, m)
  BY Zenon, <1>b, AboutMembers, SettingsApart
<1>1. CASE option.opt = "auto_ttl"
  <2>1. t = AutoTtl(s, option.arg)
    BY Zenon, <1>1, <1>a, SettingsApart DEF Apply
  <2>2. SameBut(s, t) /\ Takes(option, s.profile, t.profile)
    BY Zenon, <1>1, <2>1, AutoTtlGives
  <2>3. QED
    BY Zenon, <1>1, <1>a, <1>b, <2>2, SettingsApart DEF SameBut, TakesSettings
<1>2. CASE option.opt = "desync_attacks"
  <2>1. t = Attacks(s, option.arg)
    BY Zenon, <1>2, <1>a, SettingsApart DEF Apply
  <2>2. SameBut(s, t) /\ Listed(option.arg, s.profile, t.profile)
    BY Zenon, <1>2, <2>1, AttacksGive
  <2>3. ASSUME NEW m \in DOMAIN DefaultProfile
        PROVE  t.profile[m] = IF Sets(option, m) THEN Says(option, m) ELSE s.profile[m]
    <3>1. CASE m = "desync_attacks"
      BY Zenon, <1>2, <2>2, <3>1, AboutMembers DEF Listed
    <3>2. CASE m \in DOMAIN Kind
      <4>1. m # "desync_attacks"
        BY Zenon, <3>2, GroupedMembers
      <4>2. QED
        BY Zenon, <1>2, <2>2, <3>2, <4>1, AboutMembers DEF Listed
    <3>3. CASE m # "desync_attacks" /\ m \notin DOMAIN Kind
      <4>1. ~Sets(option, m)
        BY Zenon, <1>2, <3>3 DEF Sets
      <4>2. QED
        BY Zenon, <2>2, <3>3, <4>1 DEF Listed
    <3>4. QED
      BY Zenon, <3>1, <3>2, <3>3
  <2>4. option.opt # "auto_ttl" /\ option.opt # "min_ttl"
    BY Zenon, <1>2
  <2>5. Takes(option, s.profile, t.profile)
    BY Zenon, <2>2, <2>3, <2>4 DEF Takes, SameBut, IsState
  <2>6. QED
    BY Zenon, <1>2, <1>a, <1>b, <2>2, <2>5, SettingsApart DEF SameBut, TakesSettings
<1>3. CASE option.opt \in DOMAIN DefaultProfile \ Grouped
  <2>1. option.opt # "auto" /\ option.opt \notin DOMAIN DefaultSettings
    BY Zenon, <1>3, Members, SettingsApart
  <2>2. t = SetProfile(s, option.opt, Converted(option.opt, option.arg))
    BY Zenon, <1>3, <1>a, <2>1 DEF Apply
  <2>3. SameBut(s, t) /\ Takes(option, s.profile, t.profile)
    BY Zenon, <1>3, <2>2, ProfileOption
  <2>4. QED
    BY Zenon, <1>b, <2>1, <2>3 DEF SameBut, TakesSettings
<1>4. CASE option.opt \in DOMAIN DefaultSettings
  <2>1. PICK x, v : x = option.opt /\ v = Converted(x, option.arg)
    OBVIOUS
  <2>2. x \notin Grouped /\ x \notin DOMAIN DefaultProfile /\ x # "auto" /\ x \in DOMAIN DefaultSettings
    BY Zenon, <1>4, <2>1, SettingsApart
  <2>3. t = SetSettings(s, x, v)
    BY Zenon, <1>a, <2>1, <2>2 DEF Apply
  <2>4. t = WithSettings(s, x, v)
    BY Zenon, <1>0, <2>3 DEF SetSettings, WithSettings
  <2>5. IsState(t) /\ Apart(s, t) /\ t.profile = s.profile /\ Becomes(s.settings, t.settings, x, v)
    BY <2>2, <2>4, SettingsSet
  <2>6. TakesSettings(option, s.settings, t.settings)
    <3>1. ASSUME NEW m \in DOMAIN DefaultSettings
          PROVE  t.settings[m] = IF Sets(option, m) THEN Says(option, m) ELSE s.settings[m]
      <4>1. (Sets(option, m) <=> x = m) /\ Says(option, m) = Converted(m, option.arg)
        BY Zenon, <2>1, AboutMembers, SettingsApart
      <4>2. DOMAIN s.settings = DOMAIN DefaultSettings
        BY Zenon DEF IsState, IsSettings
      <4>3. QED
        BY Zenon, <2>1, <2>5, <4>1, <4>2 DEF Becomes
    <3>2. QED
      BY Zenon, <3>1 DEF TakesSettings
  <2>7. \A m \in DOMAIN DefaultProfile : ~Sets(option, m)
    BY Zenon, <1>a, <2>1, <2>2 DEF Sets
  <2>8. x # "auto_ttl" /\ x # "min_ttl"
    BY Zenon, <1>a, <2>2, Members
  <2>9. Takes(option, s.profile, t.profile)
    BY Zenon, <2>1, <2>5, <2>7, <2>8 DEF Takes, IsState
  <2>10. QED
    BY Zenon, <2>5, <2>6, <2>9
<1>5. CASE /\ option.opt # "auto_ttl" /\ option.opt # "desync_attacks"
           /\ option.opt \notin DOMAIN DefaultProfile \ Grouped
           /\ option.opt \notin DOMAIN DefaultSettings
  <2>1. t = Refused(s) \/ t = [s EXCEPT !.ret = -2]
    BY Zenon, <1>5 DEF Apply
  <2>2. QED
    BY Zenon, <1>0, <2>1
<1>6. QED
  BY Zenon, <1>1, <1>2, <1>3, <1>4, <1>5

\* Profiles with the same members are the same.
LEMMA SameProfile ==
    ASSUME NEW p, NEW q, IsProfile(p), IsProfile(q), \A m \in DOMAIN DefaultProfile : p[m] = q[m]
    PROVE  p = q
BY Zenon DEF IsProfile

\* Whether there is a least TTL.
LeastSet(args, i, j) == \E k \in i..j : args[k].opt \in {"min_ttl", "auto_ttl"}

\* An option that is accepted makes the profile what one more argument describes.
LEMMA DescribedStep ==
    ASSUME NEW args, NEW i \in Nat, NEW j \in Nat, i <= j + 1, NEW p, NEW q,
           p = Described(args, i, j), p.min_ttl = 0 <=> ~LeastSet(args, i, j),
           Takes(args[j + 1], p, q)
    PROVE  q = Described(args, i, j + 1) /\ (q.min_ttl = 0 <=> ~LeastSet(args, i, j + 1))
<1>1. PICK o, r : o = args[j + 1] /\ r = Described(args, i, j + 1)
  OBVIOUS
<1>2. \A k : k \in i..(j + 1) <=> k = j + 1 \/ k \in i..j
  BY SMT
<1>3. ASSUME NEW m, NEW d
      PROVE  LastSaid(args, m, i, j + 1, d) = IF Sets(o, m) THEN Says(o, m) ELSE LastSaid(args, m, i, j, d)
  <2>1. LastSaid(args, m, i, j + 1, d) =
          IF Sets(args[j + 1], m) THEN Says(args[j + 1], m) ELSE LastSaid(args, m, i, j, d)
    BY LastSaidStep
  <2>2. QED
    BY Zenon, <1>1, <2>1
<1>4. ASSUME NEW l, NEW u, u = Described(args, i, l)
      PROVE  /\ IsProfile(u)
             /\ u.min_ttl = LastSaid(args, "min_ttl", i, l, LeastTtl(args, i, l))
             /\ \A m \in DOMAIN DefaultProfile :
                  m # "min_ttl" => u[m] = LastSaid(args, m, i, l, DefaultProfile[m])
  BY Zenon, <1>4, Members DEF Described, IsProfile
<1>5. ASSUME NEW m \in DOMAIN DefaultProfile, m # "min_ttl" PROVE q[m] = r[m]
  <2>1. q[m] = IF Sets(o, m) THEN Says(o, m) ELSE p[m]
    BY Zenon, <1>1, <1>5 DEF Takes
  <2>2. /\ p[m] = LastSaid(args, m, i, j, DefaultProfile[m])
        /\ r[m] = LastSaid(args, m, i, j + 1, DefaultProfile[m])
    BY Zenon, <1>1, <1>4, <1>5
  <2>3. QED
    BY Zenon, <1>3, <2>1, <2>2
<1>6. /\ "min_ttl" \in DOMAIN DefaultProfile /\ "min_ttl" # "auto_ttl" /\ 3 # 0
      /\ DefaultProfile.min_ttl = 0 /\ (Sets(o, "min_ttl") <=> o.opt = "min_ttl")
      /\ \A k : Sets(args[k], "min_ttl") <=> args[k].opt = "min_ttl"
  <2>1. "min_ttl" \notin Grouped
    BY Zenon, GroupedMembers DEF Grouped
  <2>2. 3 # 0
    BY SMT
  <2>3. QED
    BY Zenon, <2>1, <2>2, Members, AboutMembers
<1>7. /\ p.min_ttl = LastSaid(args, "min_ttl", i, j, LeastTtl(args, i, j))
      /\ r.min_ttl = LastSaid(args, "min_ttl", i, j + 1, LeastTtl(args, i, j + 1))
      /\ q.min_ttl = IF o.opt = "min_ttl" THEN Says(o, "min_ttl")
                     ELSE IF o.opt = "auto_ttl" /\ p.min_ttl = 0 THEN 3 ELSE p.min_ttl
      /\ o.opt = "min_ttl" => q.min_ttl # 0
  <2>1. /\ p.min_ttl = LastSaid(args, "min_ttl", i, j, LeastTtl(args, i, j))
        /\ r.min_ttl = LastSaid(args, "min_ttl", i, j + 1, LeastTtl(args, i, j + 1))
    BY Zenon, <1>1, <1>4
  <2>2. QED
    BY Zenon, <1>1, <1>6, <2>1 DEF Takes
<1>8. q.min_ttl = r.min_ttl /\ (q.min_ttl = 0 <=> ~LeastSet(args, i, j + 1))
  <2>1. CASE o.opt = "min_ttl"
    <3>1. LeastSet(args, i, j + 1)
      BY Zenon, <1>1, <1>2, <2>1 DEF LeastSet
    <3>2. QED
      BY Zenon, <1>3, <1>6, <1>7, <2>1, <3>1
  <2>2. CASE o.opt = "auto_ttl"
    <3>1. LeastTtl(args, i, j + 1) = 3 /\ LeastSet(args, i, j + 1)
      BY Zenon, <1>1, <1>2, <2>2 DEF LeastSet, LeastTtl
    <3>2. r.min_ttl = LastSaid(args, "min_ttl", i, j, 3) /\ q.min_ttl = IF p.min_ttl = 0 THEN 3 ELSE p.min_ttl
      BY Zenon, <1>3, <1>6, <1>7, <2>2, <3>1
    <3>3. CASE \E k \in i..j : args[k].opt = "min_ttl"
      <4>1. LeastSet(args, i, j)
        BY Zenon, <3>3 DEF LeastSet
      <4>2. \A d, e : LastSaid(args, "min_ttl", i, j, d) = LastSaid(args, "min_ttl", i, j, e)
        BY Zenon, <1>6, <3>3 DEF LastSaid
      <4>3. QED
        BY Zenon, <1>7, <3>1, <3>2, <4>1, <4>2
    <3>4. CASE ~ \E k \in i..j : args[k].opt = "min_ttl"
      <4>1. \A d : LastSaid(args, "min_ttl", i, j, d) = d
        BY Zenon, <1>6, <3>4 DEF LastSaid
      <4>2. p.min_ttl = 0 \/ p.min_ttl = 3
        <5>1. LeastTtl(args, i, j) = 3 \/ LeastTtl(args, i, j) = DefaultProfile.min_ttl
          BY Zenon DEF LeastTtl
        <5>2. QED
          BY Zenon, <1>6, <1>7, <4>1, <5>1
      <4>3. QED
        BY Zenon, <1>6, <3>1, <3>2, <4>1, <4>2
    <3>5. QED
      BY Zenon, <3>3, <3>4
  <2>3. CASE o.opt # "min_ttl" /\ o.opt # "auto_ttl"
    <3>1. LeastTtl(args, i, j + 1) = LeastTtl(args, i, j)
      BY Zenon, <1>1, <1>2, <2>3 DEF LeastTtl
    <3>2. LeastSet(args, i, j + 1) <=> LeastSet(args, i, j)
      BY Zenon, <1>1, <1>2, <2>3 DEF LeastSet
    <3>3. QED
      BY Zenon, <1>3, <1>6, <1>7, <2>3, <3>1, <3>2
  <2>4. QED
    BY Zenon, <2>1, <2>2, <2>3
<1>9. IsProfile(q) /\ IsProfile(r)
  BY Zenon, <1>1, <1>4 DEF Takes
<1>10. \A m \in DOMAIN DefaultProfile : q[m] = r[m]
  BY Zenon, <1>5, <1>8
<1>11. q = r
  BY Zenon, <1>9, <1>10, SameProfile
<1>12. QED
  BY Zenon, <1>1, <1>8, <1>11

\* What the first j arguments say last of the settings.
SettingsUpTo(args, j, settings) ==
    \A m \in DOMAIN DefaultSettings :
       settings[m] = LastSaid(args, m, 1, j, DefaultSettings[m])

\* An option makes the settings what one more argument says of them.
LEMMA SettingsStep ==
    ASSUME NEW args, NEW j \in Nat, NEW p, NEW q, SettingsUpTo(args, j, p),
           TakesSettings(args[j + 1], p, q)
    PROVE  SettingsUpTo(args, j + 1, q)
<1>1. 1 \in Nat /\ 1 <= j + 1
  BY SMT
<1>2. ASSUME NEW m \in DOMAIN DefaultSettings
      PROVE  q[m] = LastSaid(args, m, 1, j + 1, DefaultSettings[m])
  <2>1. LastSaid(args, m, 1, j + 1, DefaultSettings[m]) =
          IF Sets(args[j + 1], m) THEN Says(args[j + 1], m)
          ELSE LastSaid(args, m, 1, j, DefaultSettings[m])
    BY <1>1, LastSaidStep
  <2>2. QED
    BY Zenon, <2>1 DEF SettingsUpTo, TakesSettings
<1>3. QED
  BY Zenon, <1>2 DEF SettingsUpTo

\* The arguments of a command line; --desync-attacks has a list.
Arguments(args) ==
    /\ Len(args) \in Nat /\ DOMAIN args = 1..Len(args)
    /\ \A i \in 1..Len(args) : args[i].opt = "desync_attacks" =>
          Len(args[i].arg) \in Nat /\ DOMAIN args[i].arg = 1..Len(args[i].arg)

\* The group that the argument j belongs to starts at b, or is the one under no name.
Begun(args, b, j) == /\ b \in 0..j /\ (b = 0 \/ b \in Starts(args))
                     /\ \A k \in (b + 1)..j : k \notin Starts(args)

CurrentName(args, b) == IF b = 0 THEN Unnamed ELSE args[b].arg

\* Every name of a group before b has the profile its last group describes.
NamesBefore(args, b) == {args[i].arg : i \in {k \in Starts(args) : k < b}} \ {Unnamed}
DescribedBy(args, b, name, profile) ==
    \E k \in Starts(args) :
       /\ k < b /\ args[k].arg = name
       /\ \A l \in Starts(args) : l < b /\ args[l].arg = name => l <= k
       /\ profile = Described(args, k, GroupEnd(args, k))
Kept(args, b, profiles) ==
    /\ DOMAIN profiles = NamesBefore(args, b)
    /\ \A name \in NamesBefore(args, b) : DescribedBy(args, b, name, profiles[name])

\* The groups start at the arguments --profile.
LEMMA StartsAre ==
    ASSUME NEW args, Arguments(args)
    PROVE  \A k : k \in Starts(args) <=> k \in 1..Len(args) /\ args[k].opt = "profile"
BY Zenon DEF Starts, Arguments

\* A group ends where another starts, or with the command line.
LEMMA GroupEndIs ==
    ASSUME NEW args, Arguments(args), NEW b \in Nat, NEW j \in b..Len(args),
           \A k \in (b + 1)..j : k \notin Starts(args), j = Len(args) \/ j + 1 \in Starts(args)
    PROVE  GroupEnd(args, b) = j
<1>0. PICK n \in Nat : n = Len(args)
  BY Zenon DEF Arguments
<1>1. ASSUME NEW i \in b..Len(args), \A k \in (b + 1)..i : k \notin Starts(args),
             i = Len(args) \/ i + 1 \in Starts(args)
      PROVE  i = j
  <2>1. CASE i < j
    <3>1. i # n /\ i + 1 \in (b + 1)..j
      BY SMT, <1>0, <2>1
    <3>2. QED
      BY Zenon, <1>0, <1>1, <3>1
  <2>2. CASE j < i
    <3>1. j # n /\ j + 1 \in (b + 1)..i
      BY SMT, <1>0, <2>2
    <3>2. QED
      BY Zenon, <1>0, <1>1, <3>1
  <2>3. QED
    BY SMT, <1>0, <2>1, <2>2
<1>2. QED
  BY Zenon, <1>1 DEF GroupEnd

\* The profile of a group that ends is stored under the group's name.
LEMMA GroupStored ==
    ASSUME NEW args, Arguments(args), NEW j \in 0..Len(args), NEW b, Begun(args, b, j),
           j = Len(args) \/ j + 1 \in Starts(args), NEW f, Kept(args, b, f),
           NEW g, g = IF CurrentName(args, b) # Unnamed
                      THEN add_profile(f, CurrentName(args, b), Described(args, b + 1, j)) ELSE f
    PROVE  Kept(args, j + 1, g)
<1>0. PICK n \in Nat : n = Len(args)
  BY Zenon DEF Arguments
<1>1. b \in Nat /\ j \in Nat /\ b \in 0..j
  BY SMT, <1>0 DEF Begun
<1>2. \A k \in Starts(args) : k \in 1..n
  BY Zenon, <1>0, StartsAre
<1>3. \A k \in Starts(args) : k < j + 1 <=> k < b \/ (k = b /\ b # 0)
  <2>1. \A k \in 1..n : k < j + 1 <=> k < b \/ (k = b /\ b # 0) \/ k \in (b + 1)..j
    BY SMT, <1>1
  <2>2. QED
    BY Zenon, <1>2, <2>1 DEF Begun
<1>4. CASE CurrentName(args, b) = Unnamed
  <2>1. b # 0 => args[b].arg = Unnamed
    BY Zenon, <1>4 DEF CurrentName
  <2>2. NamesBefore(args, j + 1) = NamesBefore(args, b)
    BY Zenon, <1>3, <2>1 DEF NamesBefore
  <2>3. \A name, p : name # Unnamed /\ DescribedBy(args, b, name, p) => DescribedBy(args, j + 1, name, p)
    BY Zenon, <1>3, <2>1 DEF DescribedBy
  <2>4. \A name \in NamesBefore(args, b) : name # Unnamed
    BY Zenon DEF NamesBefore
  <2>5. QED
    BY Zenon, <1>4, <2>2, <2>3, <2>4 DEF Kept
<1>5. CASE CurrentName(args, b) # Unnamed
  <2>1. PICK c : c = CurrentName(args, b)
    OBVIOUS
  <2>2. b # 0 /\ b \in Starts(args) /\ c = args[b].arg /\ c # Unnamed
    BY Zenon, <1>5, <2>1 DEF CurrentName, Begun
  <2>3. g = add_profile(f, c, Described(args, b + 1, j))
    BY Zenon, <1>5, <2>1
  <2>4. Described(args, b + 1, j) = Described(args, b, GroupEnd(args, b))
    <3>1. j \in b..Len(args) /\ b <= j
      BY SMT, <1>0, <1>1
    <3>2. GroupEnd(args, b) = j
      BY <1>1, <3>1, GroupEndIs DEF Begun
    <3>3. args[b].opt = "profile"
      BY Zenon, <2>2, StartsAre
    <3>4. Described(args, b, j) = Described(args, b + 1, j)
      BY <1>1, <3>1, <3>3, StartSkipped
    <3>5. QED
      BY Zenon, <3>2, <3>4
  <2>5. NamesBefore(args, j + 1) = NamesBefore(args, b) \cup {c}
    BY Zenon, <1>3, <2>2 DEF NamesBefore
  <2>6. DOMAIN g = NamesBefore(args, j + 1)
    BY Zenon, <2>3, <2>5 DEF add_profile, Kept
  <2>7. ASSUME NEW name \in NamesBefore(args, j + 1) PROVE DescribedBy(args, j + 1, name, g[name])
    <3>1. CASE name = c
      <4>1. g[name] = Described(args, b, GroupEnd(args, b))
        BY Zenon, <2>3, <2>4, <2>5, <3>1 DEF add_profile
      <4>2. b < j + 1 /\ \A l \in Starts(args) : l < j + 1 => l <= b
        <5>1. \A l \in 1..n : l < b => l <= b
          BY SMT, <1>1
        <5>2. b <= b /\ b < j + 1
          BY SMT, <1>1
        <5>3. QED
          BY Zenon, <1>2, <1>3, <5>1, <5>2
      <4>3. QED
        BY Zenon, <2>2, <3>1, <4>1, <4>2 DEF DescribedBy
    <3>2. CASE name # c
      <4>1. name \in NamesBefore(args, b)
        BY Zenon, <2>5, <3>2
      <4>2. g[name] = f[name]
        BY Zenon, <2>3, <3>2, <4>1 DEF add_profile, Kept
      <4>3. DescribedBy(args, b, name, f[name])
        BY Zenon, <4>1 DEF Kept
      <4>4. QED
        BY Zenon, <1>3, <2>2, <3>2, <4>2, <4>3 DEF DescribedBy
    <3>3. QED
      BY Zenon, <3>1, <3>2
  <2>8. QED
    BY Zenon, <2>6, <2>7 DEF Kept
<1>6. QED
  BY Zenon, <1>4, <1>5

\* What parse_cmdline has behind the argument j, unless it refused one.
Parsed(args, j, s) ==
    s.ret = 0 =>
      /\ IsState(s) /\ s.Profile = DefaultProfile /\ SettingsUpTo(args, j, s.settings)
      /\ \E b \in 0..j :
           /\ Begun(args, b, j) /\ s.curr = CurrentName(args, b) /\ Kept(args, b, s.Profiles)
           /\ s.profile = Described(args, b + 1, j)
           /\ s.profile.min_ttl = 0 <=> ~LeastSet(args, b + 1, j)

\* Before the first argument, nothing is stored.
LEMMA ParsedFirst ==
    ASSUME NEW args, Arguments(args)
    PROVE  Parsed(args, 0, Start)
<1>1. /\ IsState(Start) /\ Start.Profile = DefaultProfile /\ Start.curr = Unnamed
      /\ Start.profile = DefaultProfile /\ DOMAIN Start.Profiles = {} /\ DefaultProfile.min_ttl = 0
      /\ Start.settings = DefaultSettings
  <2>1. IsProfile(DefaultProfile) /\ IsSettings(DefaultSettings) /\ DefaultProfile.min_ttl = 0
    BY Zenon, Members, SettingsApart DEF IsProfile, IsSettings
  <2>2. PICK f, p, o : f = [name \in {} |-> DefaultProfile] /\ p = DefaultProfile /\ o = DefaultSettings
    OBVIOUS
  <2>3. Start = [ret |-> 0, curr |-> Unnamed, profile |-> p, Profiles |-> f, Profile |-> p, settings |-> o]
    BY SMT, <2>2 DEF Start
  <2>4. /\ Start.Profile = p /\ Start.curr = Unnamed /\ Start.profile = p /\ Start.Profiles = f
        /\ Start.settings = o
        /\ Start = [ret |-> Start.ret, curr |-> Start.curr, profile |-> Start.profile,
                    Profiles |-> Start.Profiles, Profile |-> Start.Profile, settings |-> Start.settings]
    BY <2>3
  <2>5. DOMAIN f = {}
    BY Zenon, <2>2
  <2>6. QED
    BY Zenon, <2>1, <2>2, <2>4, <2>5 DEF IsState
<1>2. 0 \in 0..0 /\ (0 + 1)..0 = {} /\ 0 \in Nat
  BY SMT
<1>3. Begun(args, 0, 0) /\ Start.curr = CurrentName(args, 0) /\ ~LeastSet(args, 0 + 1, 0)
  BY Zenon, <1>1, <1>2 DEF Begun, CurrentName, LeastSet
<1>4. NamesBefore(args, 0) = {}
  <2>1. \A k \in 1..Len(args) : ~(k < 0)
    BY SMT DEF Arguments
  <2>2. QED
    BY Zenon, <2>1, StartsAre DEF NamesBefore
<1>5. Kept(args, 0, Start.Profiles)
  BY Zenon, <1>1, <1>4 DEF Kept
<1>6. Start.profile = Described(args, 0 + 1, 0)
  BY Zenon, <1>1, <1>2, NothingDescribed
<1>7. SettingsUpTo(args, 0, Start.settings)
  <2>1. 1..0 = {}
    BY SMT
  <2>2. QED
    BY Zenon, <1>1, <2>1 DEF SettingsUpTo, LastSaid
<1>8. QED
  BY Zenon, <1>1, <1>2, <1>3, <1>5, <1>6, <1>7 DEF Parsed

\* One more argument of the command line: a group is continued, or stored and another begun.
LEMMA ParsedStep ==
    ASSUME NEW args, Arguments(args), NEW j \in 0..(Len(args) - 1), NEW s, Parsed(args, j, s),
           NEW t, t = Turn(s, args[j + 1])
    PROVE  Parsed(args, j + 1, t)
<1>0. PICK n \in Nat : n = Len(args)
  BY Zenon DEF Arguments
<1> SUFFICES ASSUME t.ret = 0 PROVE Parsed(args, j + 1, t)
  BY Zenon DEF Parsed
<1>1. s.ret = 0 /\ t = Apply(s, args[j + 1])
  BY Zenon DEF Turn
<1>2. PICK b \in 0..j :
        /\ Begun(args, b, j) /\ s.curr = CurrentName(args, b) /\ Kept(args, b, s.Profiles)
        /\ s.profile = Described(args, b + 1, j)
        /\ s.profile.min_ttl = 0 <=> ~LeastSet(args, b + 1, j)
  BY Zenon, <1>1 DEF Parsed
<1>3. IsState(s) /\ s.Profile = DefaultProfile /\ SettingsUpTo(args, j, s.settings)
  BY Zenon, <1>1 DEF Parsed
<1>4. /\ j \in Nat /\ b \in Nat /\ b + 1 \in Nat /\ b + 1 <= j + 1 /\ b \in 0..(j + 1)
      /\ j + 1 \in 1..n /\ j + 1 \in 0..(j + 1) /\ j \in 0..n /\ j + 1 \in Nat
      /\ ((j + 1) + 1)..(j + 1) = {}
      /\ \A k \in (b + 1)..(j + 1) : k = j + 1 \/ k \in (b + 1)..j
  BY SMT, <1>0
<1>5. CASE args[j + 1].opt = "profile"
  <2>1. t = NextProfile(s, args[j + 1].arg)
    BY Zenon, <1>1, <1>5, Members DEF Apply
  <2>2. PICK f : f = IF s.curr # Unnamed THEN add_profile(s.Profiles, s.curr, s.profile) ELSE s.Profiles
    OBVIOUS
  <2>3. t = [s EXCEPT !.Profiles = f, !.curr = args[j + 1].arg, !.profile = DefaultProfile]
    <3>1. t = [s EXCEPT !.Profiles = IF s.curr # Unnamed THEN add_profile(s.Profiles, s.curr, s.profile)
                                      ELSE s.Profiles,
                        !.curr = args[j + 1].arg, !.profile = DefaultProfile]
      BY Zenon, <2>1 DEF NextProfile
    <3>2. QED
      BY Zenon, <2>2, <3>1
  <2>4. IsProfile(DefaultProfile) /\ DefaultProfile.min_ttl = 0
    BY Zenon, Members DEF IsProfile
  <2>5. /\ t.Profiles = f /\ t.curr = args[j + 1].arg /\ t.profile = DefaultProfile
        /\ t.Profile = s.Profile /\ t.settings = s.settings
    BY <1>3, <2>3 DEF IsState
  <2>6. IsState(t)
    <3>1. t = [ret |-> t.ret, curr |-> t.curr, profile |-> t.profile,
               Profiles |-> t.Profiles, Profile |-> t.Profile, settings |-> t.settings]
      BY <1>3, <2>3 DEF IsState
    <3>2. QED
      BY Zenon, <1>3, <2>4, <2>5, <3>1 DEF IsState
  <2>7. j + 1 \in Starts(args)
    BY Zenon, <1>0, <1>4, <1>5, StartsAre
  <2>8. Kept(args, j + 1, f)
    <3>1. f = IF CurrentName(args, b) # Unnamed
              THEN add_profile(s.Profiles, CurrentName(args, b), Described(args, b + 1, j))
              ELSE s.Profiles
      BY Zenon, <1>2, <2>2
    <3>2. j \in 0..Len(args)
      BY Zenon, <1>0, <1>4
    <3>3. QED
      BY Zenon, <1>2, <2>7, <3>1, <3>2, GroupStored
  <2>9. Begun(args, j + 1, j + 1) /\ t.curr = CurrentName(args, j + 1)
    <3>1. j + 1 # 0
      BY SMT, <1>4
    <3>2. QED
      BY Zenon, <1>4, <2>5, <2>7, <3>1 DEF Begun, CurrentName
  <2>10. t.profile = Described(args, (j + 1) + 1, j + 1)
    BY Zenon, <1>4, <2>5, NothingDescribed
  <2>11. ~LeastSet(args, (j + 1) + 1, j + 1) /\ t.profile.min_ttl = 0
    BY Zenon, <1>4, <2>4, <2>5 DEF LeastSet
  <2>12. SettingsUpTo(args, j + 1, t.settings)
    <3>1. ASSUME NEW m \in DOMAIN DefaultSettings PROVE ~Sets(args[j + 1], m)
      <4>1. m \notin Grouped /\ m # "profile"
        BY Zenon, Members, SettingsApart
      <4>2. Sets(args[j + 1], m) <=> args[j + 1].opt = m
        BY Zenon, <4>1, AboutMembers
      <4>3. QED
        BY Zenon, <1>5, <4>1, <4>2
    <3>2. TakesSettings(args[j + 1], s.settings, t.settings)
      BY Zenon, <2>5, <3>1 DEF TakesSettings
    <3>3. QED
      BY Zenon, <1>3, <1>4, <3>2, SettingsStep
  <2>13. QED
    BY Zenon, <1>3, <1>4, <2>5, <2>6, <2>8, <2>9, <2>10, <2>11, <2>12 DEF Parsed
<1>6. CASE args[j + 1].opt # "profile"
  <2>1. args[j + 1].opt = "desync_attacks" =>
          Len(args[j + 1].arg) \in Nat /\ DOMAIN args[j + 1].arg = 1..Len(args[j + 1].arg)
    BY Zenon, <1>0, <1>4 DEF Arguments
  <2>2. PICK option : option = args[j + 1]
    OBVIOUS
  <2>3. /\ IsState(t) /\ Apart(s, t) /\ Takes(option, s.profile, t.profile)
        /\ TakesSettings(option, s.settings, t.settings)
    <3>1. option.opt = "desync_attacks" =>
            Len(option.arg) \in Nat /\ DOMAIN option.arg = 1..Len(option.arg)
      BY Zenon, <2>1, <2>2
    <3>2. option.opt # "profile" /\ t = Apply(s, option)
      BY Zenon, <1>1, <1>6, <2>2
    <3>3. QED
      BY <1>1, <1>3, <3>1, <3>2, ApplyGives
  <2>4. /\ t.profile = Described(args, b + 1, j + 1)
        /\ t.profile.min_ttl = 0 <=> ~LeastSet(args, b + 1, j + 1)
    <3>1. PICK p, q : p = s.profile /\ q = t.profile
      OBVIOUS
    <3>2. /\ p = Described(args, b + 1, j) /\ Takes(args[j + 1], p, q)
          /\ p.min_ttl = 0 <=> ~LeastSet(args, b + 1, j)
      BY Zenon, <1>2, <2>2, <2>3, <3>1
    <3>3. q = Described(args, b + 1, j + 1) /\ (q.min_ttl = 0 <=> ~LeastSet(args, b + 1, j + 1))
      BY <1>4, <3>2, DescribedStep
    <3>4. QED
      BY Zenon, <3>1, <3>3
  <2>5. j + 1 \notin Starts(args)
    BY Zenon, <1>6, StartsAre
  <2>6. Begun(args, b, j + 1)
    BY Zenon, <1>2, <1>4, <2>5 DEF Begun
  <2>7. SettingsUpTo(args, j + 1, t.settings)
    BY Zenon, <1>3, <1>4, <2>2, <2>3, SettingsStep
  <2>8. QED
    BY Zenon, <1>2, <1>3, <1>4, <2>3, <2>4, <2>6, <2>7 DEF Parsed, Apart
<1>7. QED
  BY Zenon, <1>5, <1>6

\* parse_cmdline gives every profile the options written for it.
LEMMA CommandLineParsed ==
    ASSUME NEW args, Arguments(args)
    PROVE  ParsedAsWritten(args)
<1>0. PICK n \in Nat : n = Len(args)
  BY Zenon DEF Arguments
<1>1. PICK m : /\ m[0] = Start
               /\ \A i \in 1..n : m[i] = Turn(m[i - 1], args[i])
               /\ parse_cmdline(args) = Finish(m[n])
  BY <1>0, ParseIs
<1>2. PICK T : T = {j \in 0..n : Parsed(args, j, m[j])}
  OBVIOUS
<1>3. 0 \in T
  <2>1. 0 \in 0..n
    BY SMT
  <2>2. QED
    BY Zenon, <1>1, <1>2, <2>1, ParsedFirst
<1>4. ASSUME NEW j \in 0..(n - 1), j \in T PROVE j + 1 \in T
  <2>1. j + 1 \in 0..n /\ j + 1 \in 1..n /\ (j + 1) - 1 = j
    BY SMT
  <2>2. m[j + 1] = Turn(m[j], args[j + 1]) /\ Parsed(args, j, m[j]) /\ j \in 0..(Len(args) - 1)
    BY Zenon, <1>0, <1>1, <1>2, <1>4, <2>1
  <2>3. Parsed(args, j + 1, m[j + 1])
    BY Zenon, <2>2, ParsedStep
  <2>4. QED
    BY Zenon, <1>2, <2>1, <2>3
<1>5. Parsed(args, n, m[n])
  <2>1. \A i \in 0..n : i \in T
    BY <1>3, <1>4, UpwardInduction
  <2>2. n \in 0..n
    BY SMT
  <2>3. QED
    BY Zenon, <1>2, <2>1, <2>2
<1>6. PICK s, t : s = m[n] /\ t = Finish(s)
  OBVIOUS
<1> DEFINE names   == {args[i].arg : i \in Starts(args)} \ {Unnamed}
           begin   == IF Starts(args) = {} THEN 0 ELSE Greatest(Starts(args))
           unnamed == Starts(args) = {} \/ args[begin].arg = Unnamed
<1>7. ASSUME t.ret = 0
      PROVE  /\ DOMAIN t.Profiles = names
             /\ \A name \in names : LET i == LastStart(args, name)
                                    IN  t.Profiles[name] = Described(args, i, GroupEnd(args, i))
             /\ t.Profile = IF unnamed THEN Described(args, begin + 1, n) ELSE DefaultProfile
             /\ SettingsUpTo(args, n, t.settings)
  <2>1. s.ret = 0
    <3>1. ASSUME s.ret # 0 PROVE FALSE
      BY Zenon, <1>6, <1>7, <3>1 DEF Finish
    <3>2. QED
      BY Zenon, <3>1
  <2>2. IsState(s) /\ s.Profile = DefaultProfile /\ SettingsUpTo(args, n, s.settings)
    BY Zenon, <1>5, <1>6, <2>1 DEF Parsed
  <2>3. PICK b \in 0..n :
          /\ Begun(args, b, n) /\ s.curr = CurrentName(args, b) /\ Kept(args, b, s.Profiles)
          /\ s.profile = Described(args, b + 1, n)
    BY Zenon, <1>5, <1>6, <2>1 DEF Parsed
  <2>4. PICK f : f = IF s.curr # Unnamed THEN add_profile(s.Profiles, s.curr, s.profile) ELSE s.Profiles
    OBVIOUS
  <2>5. /\ t.Profiles = f /\ t.Profile = IF s.curr # Unnamed THEN DefaultProfile ELSE s.profile
        /\ t.settings = s.settings
    <3>1. CASE s.curr # Unnamed
      <4>1. t = [s EXCEPT !.Profiles = f]
        BY Zenon, <1>6, <2>1, <2>4, <3>1 DEF Finish
      <4>2. t.Profiles = f /\ t.Profile = s.Profile /\ t.settings = s.settings
        BY <2>2, <4>1 DEF IsState
      <4>3. QED
        BY Zenon, <2>2, <3>1, <4>2
    <3>2. CASE s.curr = Unnamed
      <4>1. t = [s EXCEPT !.Profile = s.profile]
        BY Zenon, <1>6, <2>1, <3>2 DEF Finish
      <4>2. t.Profiles = s.Profiles /\ t.Profile = s.profile /\ t.settings = s.settings
        BY <2>2, <4>1 DEF IsState
      <4>3. QED
        BY Zenon, <2>4, <3>2, <4>2
    <3>3. QED
      BY Zenon, <3>1, <3>2
  <2>6. Kept(args, n + 1, f)
    <3>1. f = IF CurrentName(args, b) # Unnamed
              THEN add_profile(s.Profiles, CurrentName(args, b), Described(args, b + 1, n))
              ELSE s.Profiles
      BY Zenon, <2>3, <2>4
    <3>2. n \in 0..Len(args)
      BY SMT, <1>0
    <3>3. QED
      BY Zenon, <1>0, <2>3, <3>1, <3>2, GroupStored
  <2>7. \A k \in Starts(args) : k \in 1..n /\ k < n + 1 /\ k \in Int
    <3>1. \A k \in 1..n : k < n + 1 /\ k \in Int
      BY SMT
    <3>2. QED
      BY Zenon, <1>0, <3>1, StartsAre
  <2>8. names = NamesBefore(args, n + 1)
    BY Zenon, <2>7 DEF NamesBefore
  <2>9. ASSUME NEW name \in names
        PROVE  f[name] = Described(args, LastStart(args, name), GroupEnd(args, LastStart(args, name)))
    <3>1. DescribedBy(args, n + 1, name, f[name])
      BY Zenon, <2>6, <2>8 DEF Kept
    <3>2. PICK k \in Starts(args) :
            /\ args[k].arg = name
            /\ \A l \in Starts(args) : l < n + 1 /\ args[l].arg = name => l <= k
            /\ f[name] = Described(args, k, GroupEnd(args, k))
      BY Zenon, <3>1 DEF DescribedBy
    <3>3. PICK S : S = {i \in Starts(args) : args[i].arg = name}
      OBVIOUS
    <3>4. k \in S /\ S \subseteq Int /\ \A l \in S : l <= k
      BY Zenon, <2>7, <3>2, <3>3
    <3>5. Greatest(S) = k
      BY <3>4, GreatestIs
    <3>6. LastStart(args, name) = k
      BY Zenon, <3>3, <3>5 DEF LastStart
    <3>7. QED
      BY Zenon, <3>2, <3>6
  <2>10. begin = b /\ (Starts(args) = {} <=> b = 0)
    <3>1. \A k \in 1..n : k <= b \/ k \in (b + 1)..n
      BY SMT
    <3>2. \A k \in Starts(args) : k <= b
      BY Zenon, <2>3, <2>7, <3>1 DEF Begun
    <3>3. CASE b = 0
      <4>1. \A k \in 1..n : ~(k <= 0)
        BY SMT
      <4>2. Starts(args) = {}
        BY Zenon, <2>7, <3>2, <3>3, <4>1
      <4>3. QED
        BY Zenon, <3>3, <4>2
    <3>4. CASE b # 0
      <4>1. b \in Starts(args) /\ Starts(args) \subseteq Int
        BY Zenon, <2>3, <2>7, <3>4 DEF Begun
      <4>2. Greatest(Starts(args)) = b
        BY <3>2, <4>1, GreatestIs
      <4>3. QED
        BY Zenon, <3>4, <4>1, <4>2
    <3>5. QED
      BY Zenon, <3>3, <3>4
  <2>11. unnamed <=> s.curr = Unnamed
    BY Zenon, <2>3, <2>10 DEF CurrentName
  <2>12. t.Profile = IF unnamed THEN Described(args, begin + 1, n) ELSE DefaultProfile
    BY Zenon, <2>3, <2>5, <2>10, <2>11
  <2>13. DOMAIN t.Profiles = names
    BY Zenon, <2>5, <2>6, <2>8 DEF Kept
  <2>14. QED
    BY Zenon, <2>2, <2>5, <2>9, <2>12, <2>13
<1>8. QED
  BY Zenon, <1>0, <1>1, <1>6, <1>7 DEF ParsedAsWritten, SettingsUpTo

-----------------------------------------------------------------------------
(* The parsers: what the bytes to compare with look like.                  *)

\* Parts joined one behind the other, as in Elements and ExtPart: each is where the ones
\* before it end.
Joins(S, n, parts, m) ==
    /\ \A i \in 1..n : parts[i] \in Seq(S)
    /\ m[0] = <<>> /\ \A i \in 1..n : m[i] = m[i - 1] \o parts[i]

Placed(S, n, parts, m) ==
    /\ \A i \in 0..n : m[i] \in Seq(S)
    /\ \A i \in 1..n : Len(m[i]) = Len(m[i - 1]) + Len(parts[i])
    /\ \A i \in 0..n : \A j \in i..n : Len(m[i]) <= Len(m[j])
    /\ \A i \in 1..n : \A k \in 1..Len(parts[i]) : m[n][Len(m[i - 1]) + k] = parts[i][k]

\* In what the parts are joined to, each part is where the ones before it end.
LEMMA Concatenated ==
    ASSUME NEW S, NEW n \in Nat, NEW parts, NEW m, Joins(S, n, parts, m)
    PROVE  Placed(S, n, parts, m)
<1>0. /\ \A i \in 1..n : parts[i] \in Seq(S)
      /\ m[0] = <<>> /\ \A i \in 1..n : m[i] = m[i - 1] \o parts[i]
  BY Zenon DEF Joins
<1>1. \A i \in 0..n : m[i] \in Seq(S)
  <2>1. PICK T : T = {i \in 0..n : m[i] \in Seq(S)}
    OBVIOUS
  <2>2. 0 \in T
    <3>1. 0 \in 0..n /\ <<>> \in Seq(S)
      BY SMT
    <3>2. QED
      BY Zenon, <1>0, <2>1, <3>1
  <2>3. ASSUME NEW i \in 0..(n - 1), i \in T PROVE i + 1 \in T
    <3>1. i + 1 \in 0..n /\ i + 1 \in 1..n /\ (i + 1) - 1 = i
      BY SMT
    <3>2. m[i + 1] = m[i] \o parts[i + 1] /\ m[i] \in Seq(S) /\ parts[i + 1] \in Seq(S)
      BY Zenon, <1>0, <2>1, <2>3, <3>1
    <3>3. m[i + 1] \in Seq(S)
      BY <3>2, Joined
    <3>4. QED
      BY Zenon, <2>1, <3>1, <3>3
  <2>4. \A i \in 0..n : i \in T
    BY <2>2, <2>3, UpwardInduction
  <2>5. QED
    BY Zenon, <2>1, <2>4
<1>2. ASSUME NEW i \in 1..n
      PROVE  /\ m[i] \in Seq(S) /\ m[i - 1] \in Seq(S) /\ parts[i] \in Seq(S)
             /\ Len(m[i]) = Len(m[i - 1]) + Len(parts[i])
             /\ \A x \in 1..Len(m[i - 1]) : m[i][x] = m[i - 1][x]
             /\ \A k \in 1..Len(parts[i]) : m[i][Len(m[i - 1]) + k] = parts[i][k]
  <2>1. i - 1 \in 0..n /\ i \in 0..n
    BY SMT
  <2>2. m[i] = m[i - 1] \o parts[i] /\ m[i - 1] \in Seq(S) /\ parts[i] \in Seq(S)
    BY Zenon, <1>0, <1>1, <2>1
  <2>3. PICK a, b, c : a = m[i - 1] /\ b = parts[i] /\ c = m[i]
    OBVIOUS
  <2>4. a \in Seq(S) /\ b \in Seq(S) /\ c = a \o b
    BY Zenon, <2>2, <2>3
  <2>5. /\ c \in Seq(S) /\ Len(c) = Len(a) + Len(b)
        /\ \A j \in 1..Len(a) : c[j] = a[j]
        /\ \A j \in 1..Len(b) : c[Len(a) + j] = b[j]
    BY <2>4, Joined
  <2>6. QED
    BY Zenon, <2>3, <2>4, <2>5
<1>3. ASSUME NEW i \in 0..n
      PROVE  \A j \in i..n : Len(m[i]) <= Len(m[j]) /\ \A x \in 1..Len(m[i]) : m[j][x] = m[i][x]
  <2>1. PICK T : T = {j \in 0..n : j >= i =>
                        Len(m[i]) <= Len(m[j]) /\ \A x \in 1..Len(m[i]) : m[j][x] = m[i][x]}
    OBVIOUS
  <2>0. Len(m[i]) \in Nat
    BY <1>1
  <2>2. 0 \in T
    <3>1. 0 \in 0..n /\ (0 >= i => i = 0) /\ Len(m[i]) <= Len(m[i])
      BY SMT, <2>0
    <3>2. QED
      BY Zenon, <2>1, <3>1
  <2>3. ASSUME NEW j \in 0..(n - 1), j \in T PROVE j + 1 \in T
    <3>1. j + 1 \in 0..n /\ j + 1 \in 1..n /\ (j + 1) - 1 = j /\ (j + 1 >= i => j + 1 = i \/ j >= i)
          /\ j \in 0..n
      BY SMT
    <3>2. CASE j + 1 = i
      <4>1. Len(m[i]) <= Len(m[i])
        BY SMT, <2>0
      <4>2. QED
        BY Zenon, <2>1, <3>1, <3>2, <4>1
    <3>3. CASE ~(j + 1 >= i)
      BY Zenon, <2>1, <3>1, <3>3
    <3>4. CASE j >= i
      <4>1. Len(m[i]) <= Len(m[j]) /\ \A x \in 1..Len(m[i]) : m[j][x] = m[i][x]
        BY Zenon, <2>1, <2>3, <3>4
      <4>2. /\ Len(m[j + 1]) = Len(m[j]) + Len(parts[j + 1])
            /\ \A x \in 1..Len(m[j]) : m[j + 1][x] = m[j][x]
            /\ m[j] \in Seq(S) /\ parts[j + 1] \in Seq(S)
        <5>1. PICK i2 \in 1..n : i2 = j + 1 /\ i2 - 1 = j
          BY Zenon, <3>1
        <5>2. /\ Len(m[i2]) = Len(m[i2 - 1]) + Len(parts[i2])
              /\ \A x \in 1..Len(m[i2 - 1]) : m[i2][x] = m[i2 - 1][x]
              /\ m[i2 - 1] \in Seq(S) /\ parts[i2] \in Seq(S)
          BY Zenon, <1>2
        <5>3. QED
          BY Zenon, <5>1, <5>2
      <4>3. Len(m[j]) \in Nat /\ Len(parts[j + 1]) \in Nat
        BY <4>2
      <4>4. Len(m[i]) <= Len(m[j + 1]) /\ \A x \in 1..Len(m[i]) : x \in 1..Len(m[j])
        <5>1. PICK a \in Nat, b \in Nat, c \in Nat :
                a = Len(m[i]) /\ b = Len(m[j]) /\ c = Len(parts[j + 1])
          BY Zenon, <2>0, <4>3
        <5>2. a <= b /\ Len(m[j + 1]) = b + c
          BY Zenon, <4>1, <4>2, <5>1
        <5>3. a <= b + c /\ \A x \in 1..a : x \in 1..b
          BY SMT, <5>2
        <5>4. QED
          BY Zenon, <5>1, <5>2, <5>3
      <4>5. \A x \in 1..Len(m[i]) : m[j + 1][x] = m[i][x]
        BY Zenon, <4>1, <4>2, <4>4
      <4>6. QED
        BY Zenon, <2>1, <3>1, <4>4, <4>5
    <3>5. QED
      BY Zenon, <3>1, <3>2, <3>3, <3>4
  <2>4. \A j \in 0..n : j \in T
    BY <2>2, <2>3, UpwardInduction
  <2>5. \A j \in i..n : j \in 0..n /\ j >= i
    BY SMT
  <2>6. QED
    BY Zenon, <2>1, <2>4, <2>5
<1>4. ASSUME NEW i \in 1..n, NEW k \in 1..Len(parts[i])
      PROVE  m[n][Len(m[i - 1]) + k] = parts[i][k]
  <2>1. n \in i..n /\ i \in 0..n
    BY SMT
  <2>2. /\ Len(m[i]) = Len(m[i - 1]) + Len(parts[i]) /\ m[i][Len(m[i - 1]) + k] = parts[i][k]
        /\ m[i - 1] \in Seq(S) /\ parts[i] \in Seq(S)
    BY Zenon, <1>2
  <2>3. Len(m[i - 1]) \in Nat /\ Len(parts[i]) \in Nat
    BY <2>2
  <2>4. Len(m[i - 1]) + k \in 1..Len(m[i])
    <3>1. PICK a \in Nat, b \in Nat : a = Len(m[i - 1]) /\ b = Len(parts[i])
      BY Zenon, <2>3
    <3>2. Len(m[i]) = a + b /\ k \in 1..b
      BY Zenon, <2>2, <3>1
    <3>3. a + k \in 1..(a + b)
      BY SMT, <3>2
    <3>4. QED
      BY Zenon, <3>1, <3>2, <3>3
  <2>5. QED
    BY Zenon, <1>3, <2>1, <2>2, <2>4
<1>5. QED
  BY Zenon, <1>1, <1>2, <1>3, <1>4 DEF Placed

\* The recursion of Elements is well defined.
LEMMA ElementsAre ==
    ASSUME NEW es, Len(es) \in Nat
    PROVE  \E m : /\ m[0] = <<>>
                  /\ \A i \in 1..Len(es) : m[i] = m[i - 1] \o ElementBytes(es[i])
                  /\ Elements(es) = m[Len(es)]
<1> DEFINE n == Len(es)
           Step(f, i) == IF i = 0 THEN <<>> ELSE f[i - 1] \o ElementBytes(es[i])
           T == {k \in 0..n : \E f : \A i \in 0..k : f[i] = Step(f, i)}
           Whole(f) == f = [i \in 0..n |-> Step(f, i)]
<1>1. 0 \in T
  <2>1. PICK f : f = [i \in 0..0 |-> <<>>]
    OBVIOUS
  <2>2. 0 \in 0..n /\ 0 \in 0..0 /\ \A i \in 0..0 : i = 0
    BY SMT
  <2>3. f[0] = Step(f, 0)
    BY Zenon, <2>1, <2>2
  <2>4. QED
    BY Zenon, <2>2, <2>3
<1>2. ASSUME NEW k \in 0..(n - 1), k \in T PROVE k + 1 \in T
  <2>1. PICK f : \A i \in 0..k : f[i] = Step(f, i)
    BY Zenon, <1>2
  <2>2. PICK g : g = [i \in 0..(k + 1) |-> IF i = k + 1 THEN f[k] \o ElementBytes(es[k + 1]) ELSE f[i]]
    OBVIOUS
  <2>3. /\ k + 1 \in 0..n /\ k + 1 # 0 /\ k + 1 \in 0..(k + 1) /\ (k + 1) - 1 = k
        /\ \A i \in 0..(k + 1) : i # k + 1 => i \in 0..k
        /\ \A i \in 0..k : /\ i # k + 1 /\ i \in 0..(k + 1)
                           /\ i # 0 => i - 1 \in 0..k
        /\ k \in 0..k
    BY SMT
  <2>4. g[k + 1] = f[k] \o ElementBytes(es[k + 1]) /\ \A i \in 0..k : g[i] = f[i]
    BY Zenon, <2>2, <2>3
  <2>5. ASSUME NEW i \in 0..(k + 1) PROVE g[i] = Step(g, i)
    <3>1. CASE i = k + 1
      BY Zenon, <2>3, <2>4, <3>1
    <3>2. CASE i # k + 1
      BY Zenon, <2>1, <2>3, <2>4, <3>2
    <3>3. QED
      BY Zenon, <3>1, <3>2
  <2>6. QED
    BY Zenon, <2>3, <2>5
<1>3. n \in T
  <2> HIDE DEF T
  <2>1. \A i \in 0..n : i \in T
    BY <1>1, <1>2, UpwardInduction
  <2>2. QED
    BY <2>1
<1>4. PICK f : \A i \in 0..n : f[i] = Step(f, i)
  BY Zenon, <1>3
<1>5. PICK g : g = [i \in 0..n |-> f[i]]
  OBVIOUS
<1>6. \A i \in 0..n : i # 0 => i - 1 \in 0..n
  BY SMT
<1>7. \A i \in 0..n : f[i] = Step(g, i)
  BY Zenon, <1>4, <1>5, <1>6
<1>8. Whole(g)
  BY Zenon, <1>5, <1>7
<1>9. PICK m : m = CHOOSE h : Whole(h)
  OBVIOUS
<1>10. Whole(m) /\ Elements(es) = m[n]
  BY Zenon, <1>8, <1>9 DEF Elements
<1>11. 0 \in 0..n /\ \A i \in 1..n : i \in 0..n /\ i # 0
  BY SMT
<1>12. QED
  BY Zenon, <1>10, <1>11

\* The recursion of ExtPart is well defined.
LEMMA ExtPartIs ==
    ASSUME NEW exts, Len(exts) \in Nat
    PROVE  \E m : /\ m[0] = <<>>
                  /\ \A i \in 1..Len(exts) : m[i] = m[i - 1] \o ExtBytes(exts[i])
                  /\ ExtPart(exts) = m[Len(exts)]
<1> DEFINE n == Len(exts)
           Step(f, i) == IF i = 0 THEN <<>> ELSE f[i - 1] \o ExtBytes(exts[i])
           T == {k \in 0..n : \E f : \A i \in 0..k : f[i] = Step(f, i)}
           Whole(f) == f = [i \in 0..n |-> Step(f, i)]
<1>1. 0 \in T
  <2>1. PICK f : f = [i \in 0..0 |-> <<>>]
    OBVIOUS
  <2>2. 0 \in 0..n /\ 0 \in 0..0 /\ \A i \in 0..0 : i = 0
    BY SMT
  <2>3. f[0] = Step(f, 0)
    BY Zenon, <2>1, <2>2
  <2>4. QED
    BY Zenon, <2>2, <2>3
<1>2. ASSUME NEW k \in 0..(n - 1), k \in T PROVE k + 1 \in T
  <2>1. PICK f : \A i \in 0..k : f[i] = Step(f, i)
    BY Zenon, <1>2
  <2>2. PICK g : g = [i \in 0..(k + 1) |-> IF i = k + 1 THEN f[k] \o ExtBytes(exts[k + 1]) ELSE f[i]]
    OBVIOUS
  <2>3. /\ k + 1 \in 0..n /\ k + 1 # 0 /\ k + 1 \in 0..(k + 1) /\ (k + 1) - 1 = k
        /\ \A i \in 0..(k + 1) : i # k + 1 => i \in 0..k
        /\ \A i \in 0..k : /\ i # k + 1 /\ i \in 0..(k + 1)
                           /\ i # 0 => i - 1 \in 0..k
        /\ k \in 0..k
    BY SMT
  <2>4. g[k + 1] = f[k] \o ExtBytes(exts[k + 1]) /\ \A i \in 0..k : g[i] = f[i]
    BY Zenon, <2>2, <2>3
  <2>5. ASSUME NEW i \in 0..(k + 1) PROVE g[i] = Step(g, i)
    <3>1. CASE i = k + 1
      BY Zenon, <2>3, <2>4, <3>1
    <3>2. CASE i # k + 1
      BY Zenon, <2>1, <2>3, <2>4, <3>2
    <3>3. QED
      BY Zenon, <3>1, <3>2
  <2>6. QED
    BY Zenon, <2>3, <2>5
<1>3. n \in T
  <2> HIDE DEF T
  <2>1. \A i \in 0..n : i \in T
    BY <1>1, <1>2, UpwardInduction
  <2>2. QED
    BY <2>1
<1>4. PICK f : \A i \in 0..n : f[i] = Step(f, i)
  BY Zenon, <1>3
<1>5. PICK g : g = [i \in 0..n |-> f[i]]
  OBVIOUS
<1>6. \A i \in 0..n : i # 0 => i - 1 \in 0..n
  BY SMT
<1>7. \A i \in 0..n : f[i] = Step(g, i)
  BY Zenon, <1>4, <1>5, <1>6
<1>8. Whole(g)
  BY Zenon, <1>5, <1>7
<1>9. PICK m : m = CHOOSE h : Whole(h)
  OBVIOUS
<1>10. Whole(m) /\ ExtPart(exts) = m[n]
  BY Zenon, <1>8, <1>9 DEF ExtPart
<1>11. 0 \in 0..n /\ \A i \in 1..n : i \in 0..n /\ i # 0
  BY SMT
<1>12. QED
  BY Zenon, <1>10, <1>11

\* The first elements of a list are joined like the whole list.
LEMMA ElementsPrefix ==
    ASSUME NEW S, NEW es \in Seq(S), NEW m, m[0] = <<>>,
           \A i \in 1..Len(es) : m[i] = m[i - 1] \o ElementBytes(es[i]), NEW k \in 0..Len(es)
    PROVE  Elements(SubSeq(es, 1, k)) = m[k]
<1>0. Len(es) \in Nat /\ k \in Nat
  BY SMT
<1>1. PICK cut : cut = SubSeq(es, 1, k)
  OBVIOUS
<1>2. Len(cut) = k /\ \A i \in 1..k : cut[i] = es[i]
  <2>1. 1 \in Nat /\ 1 >= 1 /\ k <= Len(es) /\ 1 <= k + 1 /\ k - 1 + 1 = k
        /\ \A i \in 1..k : 1 + i - 1 = i
    BY SMT, <1>0
  <2>2. Len(cut) = k - 1 + 1 /\ \A i \in 1..(k - 1 + 1) : cut[i] = es[1 + i - 1]
    BY <1>0, <1>1, <2>1, Cut
  <2>3. QED
    BY Zenon, <2>1, <2>2
<1>3. PICK f : /\ f[0] = <<>>
               /\ \A i \in 1..k : f[i] = f[i - 1] \o ElementBytes(cut[i])
               /\ Elements(cut) = f[k]
  <2>1. Len(cut) \in Nat
    BY <1>0, <1>2
  <2>2. \E f : /\ f[0] = <<>>
               /\ \A i \in 1..Len(cut) : f[i] = f[i - 1] \o ElementBytes(cut[i])
               /\ Elements(cut) = f[Len(cut)]
    BY <2>1, ElementsAre
  <2>3. QED
    BY Zenon, <1>2, <2>2
<1>4. PICK T : T = {i \in 0..k : f[i] = m[i]}
  OBVIOUS
<1>5. 0 \in T
  <2>1. 0 \in 0..k
    BY SMT, <1>0
  <2>2. QED
    BY Zenon, <1>3, <1>4, <2>1
<1>6. ASSUME NEW i \in 0..(k - 1), i \in T PROVE i + 1 \in T
  <2>1. i + 1 \in 0..k /\ i + 1 \in 1..k /\ i + 1 \in 1..Len(es) /\ (i + 1) - 1 = i
    BY SMT, <1>0
  <2>2. f[i + 1] = f[i] \o ElementBytes(cut[i + 1])
    BY Zenon, <1>3, <2>1
  <2>3. m[i + 1] = m[i] \o ElementBytes(es[i + 1])
    BY Zenon, <2>1
  <2>4. f[i] = m[i] /\ cut[i + 1] = es[i + 1]
    BY Zenon, <1>2, <1>4, <1>6, <2>1
  <2>5. QED
    BY Zenon, <1>4, <2>1, <2>2, <2>3, <2>4
<1>7. \A i \in 0..k : i \in T
  BY <1>0, <1>5, <1>6, UpwardInduction
<1>8. k \in 0..k
  BY SMT, <1>0
<1>9. QED
  BY Zenon, <1>1, <1>3, <1>4, <1>7, <1>8

\* The elements of a sequence.
LEMMA ItemOf == ASSUME NEW S, NEW s \in Seq(S) PROVE \A i \in 1..Len(s) : s[i] \in S
BY SMT

\* Bytes are numbers.
LEMMA BytesAreNat == \A x \in Bytes : x \in Nat
BY SMT, ByteBounds

\* Bytes that do not matter.
LEMMA FillerIs == \A n \in Nat : Filler(n) \in Seq(Bytes) /\ Len(Filler(n)) = n
<1> TAKE n \in Nat
<1>1. PICK f : f = [i \in 1..n |-> 7]
  OBVIOUS
<1>2. f \in [1..n -> Bytes]
  <2>1. 7 \in Bytes
    BY SMT DEF Bytes, Top
  <2>2. QED
    BY Zenon, <1>1, <2>1
<1>3. f \in Seq(Bytes) /\ Len(f) = n
  BY SMT, <1>2
<1>4. QED
  BY Zenon, <1>1, <1>3 DEF Filler

\* The bytes of one element.
LEMMA ElementIs ==
    ASSUME NEW e, e.id \in Bytes, e.size \in Bytes
    PROVE  /\ ElementBytes(e) \in Seq(Bytes) /\ Len(ElementBytes(e)) = 2 + e.size
           /\ ElementBytes(e)[1] = e.id /\ ElementBytes(e)[2] = e.size
<1>1. PICK a, b, c : a = <<e.id, e.size>> /\ b = Filler(e.size) /\ c = a \o b
  OBVIOUS
<1>2. a \in Seq(Bytes) /\ Len(a) = 2 /\ a[1] = e.id /\ a[2] = e.size
  BY <1>1
<1>3. b \in Seq(Bytes) /\ Len(b) = e.size
  <2>1. e.size \in Nat
    BY Zenon, BytesAreNat
  <2>2. QED
    BY <1>1, <2>1, FillerIs
<1>4. /\ c \in Seq(Bytes) /\ Len(c) = Len(a) + Len(b) /\ \A j \in 1..Len(a) : c[j] = a[j]
  BY <1>1, <1>2, <1>3, Joined
<1>5. 1 \in 1..2 /\ 2 \in 1..2
  BY SMT
<1>6. QED
  BY Zenon, <1>1, <1>2, <1>3, <1>4, <1>5 DEF ElementBytes

\* Where the elements of a list start: off[i] bytes are before the element i + 1.
Laid(es, off) ==
    /\ off[0] = 0 /\ \A i \in 0..Len(es) : off[i] \in Nat
    /\ \A i \in 1..Len(es) : off[i] = off[i - 1] + 2 + es[i].size
    /\ \A i \in 0..Len(es) : \A j \in i..Len(es) : off[i] <= off[j]
    /\ \A i \in 0..Len(es) : Len(Elements(SubSeq(es, 1, i))) = off[i]
    /\ Elements(es) \in Seq(Bytes) /\ Len(Elements(es)) = off[Len(es)]
    /\ \A i \in 1..Len(es) : /\ Elements(es)[off[i - 1] + 1] = es[i].id
                             /\ Elements(es)[off[i - 1] + 2] = es[i].size

\* Each element of a beacon has its offset, with its type and its size there.
LEMMA ElementsLaid ==
    ASSUME NEW es \in Seq([id : Bytes, size : Bytes])
    PROVE  \E off : Laid(es, off)
<1>0. PICK n \in Nat : n = Len(es)
  BY SMT
<1>1. PICK m : /\ m[0] = <<>>
               /\ \A i \in 1..n : m[i] = m[i - 1] \o ElementBytes(es[i])
               /\ Elements(es) = m[n]
  BY <1>0, ElementsAre
<1>2. ASSUME NEW i \in 1..n
      PROVE  /\ ElementBytes(es[i]) \in Seq(Bytes) /\ Len(ElementBytes(es[i])) = 2 + es[i].size
             /\ ElementBytes(es[i])[1] = es[i].id /\ ElementBytes(es[i])[2] = es[i].size
             /\ es[i].size \in Nat
  <2>1. es[i].id \in Bytes /\ es[i].size \in Bytes
    <3>1. i \in 1..Len(es)
      BY Zenon, <1>0
    <3>2. es[i] \in [id : Bytes, size : Bytes]
      BY <3>1, ItemOf
    <3>3. QED
      BY <3>2
  <2>2. es[i].size \in Nat
    BY Zenon, <2>1, BytesAreNat
  <2>3. QED
    BY <2>1, <2>2, ElementIs
<1>3. PICK parts : parts = [i \in 1..n |-> ElementBytes(es[i])]
  OBVIOUS
<1>4. \A i \in 1..n : parts[i] = ElementBytes(es[i]) /\ parts[i] \in Seq(Bytes)
  BY Zenon, <1>2, <1>3
<1>5. \A i \in 1..n : m[i] = m[i - 1] \o parts[i]
  BY Zenon, <1>1, <1>4
<1>6. /\ \A i \in 0..n : m[i] \in Seq(Bytes)
      /\ \A i \in 1..n : Len(m[i]) = Len(m[i - 1]) + Len(parts[i])
      /\ \A i \in 0..n : \A j \in i..n : Len(m[i]) <= Len(m[j])
      /\ \A i \in 1..n : \A k \in 1..Len(parts[i]) : m[n][Len(m[i - 1]) + k] = parts[i][k]
  <2>1. Joins(Bytes, n, parts, m)
    BY Zenon, <1>1, <1>4, <1>5 DEF Joins
  <2>2. Placed(Bytes, n, parts, m)
    BY <2>1, Concatenated
  <2>3. QED
    BY Zenon, <2>2 DEF Placed
<1>7. PICK off : off = [i \in 0..n |-> Len(m[i])]
  OBVIOUS
<1>8. \A i \in 0..n : off[i] = Len(m[i]) /\ off[i] \in Nat
  <2>1. ASSUME NEW i \in 0..n PROVE Len(m[i]) \in Nat
    BY <1>6
  <2>2. QED
    BY Zenon, <1>7, <2>1
<1>9. off[0] = 0
  <2>1. 0 \in 0..n /\ Len(<<>>) = 0
    BY SMT
  <2>2. QED
    BY Zenon, <1>1, <1>8, <2>1
<1>10. ASSUME NEW i \in 1..n
       PROVE  /\ off[i] = off[i - 1] + 2 + es[i].size
              /\ Elements(es)[off[i - 1] + 1] = es[i].id
              /\ Elements(es)[off[i - 1] + 2] = es[i].size
  <2>1. i \in 0..n /\ i - 1 \in 0..n
    BY SMT
  <2>2. PICK a \in Nat, b \in Nat : a = off[i - 1] /\ b = es[i].size
    BY Zenon, <1>2, <1>8, <2>1
  <2>3. 1 \in 1..(2 + b) /\ 2 \in 1..(2 + b) /\ a + (2 + b) = a + 2 + b
    BY SMT
  <2>4. Len(parts[i]) = 2 + b /\ parts[i] = ElementBytes(es[i]) /\ Len(m[i - 1]) = a
    BY Zenon, <1>2, <1>4, <1>8, <2>1, <2>2
  <2>5. Len(m[i]) = a + (2 + b) /\ \A k \in 1..(2 + b) : m[n][a + k] = parts[i][k]
    BY Zenon, <1>6, <2>4
  <2>6. QED
    BY ZenonT(60), <1>1, <1>2, <1>8, <2>1, <2>2, <2>3, <2>4, <2>5
<1>11. \A i \in 0..n : \A j \in i..n : off[i] <= off[j]
  <2>1. \A i \in 0..n : \A j \in i..n : j \in 0..n
    BY SMT
  <2>2. QED
    BY Zenon, <1>6, <1>8, <2>1
<1>12. ASSUME NEW i \in 0..n PROVE Len(Elements(SubSeq(es, 1, i))) = off[i]
  <2>1. Elements(SubSeq(es, 1, i)) = m[i]
    BY <1>0, <1>1, ElementsPrefix
  <2>2. QED
    BY Zenon, <1>8, <2>1
<1>13. Elements(es) \in Seq(Bytes) /\ Len(Elements(es)) = off[n]
  <2>1. n \in 0..n
    BY SMT
  <2>2. QED
    BY Zenon, <1>1, <1>6, <1>8, <2>1
<1>14. QED
  BY Zenon, <1>0, <1>8, <1>9, <1>10, <1>11, <1>12, <1>13 DEF Laid

-----------------------------------------------------------------------------
(* The network's name in a beacon.                                         *)

\* One step of find_ssid from p on, when s has what follows from the positions behind p.
FindStep(ies, s, p) ==
    IF p > Len(ies) THEN Outside
    ELSE IF Len(ies) - p > 2 /\ ies[p + 1] # 0 THEN s[NextElement(ies, p)]
    ELSE IF Len(ies) - p < 2 \/ Len(ies) - p < 2 + ies[p + 2] THEN NoSsid
    ELSE <<p + 2, ies[p + 2]>>

\* find_ssid goes forward, so its recursion is well defined.
LEMMA FindSsidIs ==
    ASSUME NEW ies \in Seq(Bytes)
    PROVE  \E s : /\ find_ssid(ies) = s[0]
                  /\ \A p \in 0..(Len(ies) + 257) : s[p] = FindStep(ies, s, p)
<1>0. PICK n \in Nat : n = Len(ies)
  BY SMT
<1>1. PICK M \in Nat : M = n + 257
  BY SMT
<1>2. ASSUME NEW p \in 0..M, ~(p > n), n - p > 2
      PROVE  NextElement(ies, p) \in (p + 1)..M
  <2>1. p + 2 \in 1..Len(ies)
    BY SMT, <1>0, <1>2
  <2>2. ies[p + 2] \in Bytes
    BY <2>1, ItemOf
  <2>3. PICK b \in Int : b = ies[p + 2] /\ 0 <= b /\ b <= 255
    BY <2>2, ByteBounds DEF Top
  <2>4. p + 2 + b \in (p + 1)..M
    BY SMT, <1>1, <1>2, <2>3
  <2>5. QED
    BY Zenon, <2>3, <2>4 DEF NextElement
<1>3. ASSUME NEW p \in 0..M, NEW f, NEW g, \A q \in (p + 1)..M : f[q] = g[q]
      PROVE  FindStep(ies, f, p) = FindStep(ies, g, p)
  <2>1. CASE ~(p > n) /\ n - p > 2
    <3>1. f[NextElement(ies, p)] = g[NextElement(ies, p)]
      BY Zenon, <1>2, <1>3, <2>1
    <3>2. QED
      BY Zenon, <3>1 DEF FindStep
  <2>2. CASE p > n \/ ~(n - p > 2)
    BY Zenon, <1>0, <2>2 DEF FindStep
  <2>3. QED
    BY Zenon, <2>1, <2>2
<1> DEFINE T == {d \in 0..M : \E f : \A p \in (M - d)..M : f[p] = FindStep(ies, f, p)}
           Whole(f) == f = [p \in 0..M |-> FindStep(ies, f, p)]
<1>4. 0 \in T
  <2>1. PICK f : f = [p \in 0..M |-> Outside]
    OBVIOUS
  <2>2. 0 \in 0..M /\ \A p \in (M - 0)..M : p = M /\ p > n /\ p \in 0..M
    BY SMT, <1>1
  <2>3. \A p \in (M - 0)..M : f[p] = FindStep(ies, f, p)
    BY Zenon, <1>0, <2>1, <2>2 DEF FindStep
  <2>4. QED
    BY Zenon, <2>2, <2>3
<1>5. ASSUME NEW d \in 0..(M - 1), d \in T PROVE d + 1 \in T
  <2>1. PICK f : \A p \in (M - d)..M : f[p] = FindStep(ies, f, p)
    BY Zenon, <1>5
  <2>2. PICK k \in 0..M : k = M - (d + 1)
    BY SMT
  <2>3. PICK g : g = [p \in 0..M |-> IF p = k THEN FindStep(ies, f, k) ELSE f[p]]
    OBVIOUS
  <2>4. /\ d + 1 \in 0..M
        /\ \A p \in (M - (d + 1))..M : p \in 0..M /\ (p # k => p \in (M - d)..M)
        /\ \A p \in (M - d)..M : p # k
        /\ \A q \in (k + 1)..M : q # k /\ q \in 0..M
        /\ \A p \in (M - d)..M : \A q \in (p + 1)..M : q # k /\ q \in 0..M
    BY SMT, <2>2
  <2>5. \A p \in 0..M : p # k => g[p] = f[p]
    BY Zenon, <2>3
  <2>6. ASSUME NEW p \in (M - (d + 1))..M PROVE g[p] = FindStep(ies, g, p)
    <3>0. p \in 0..M
      BY Zenon, <2>4
    <3>1. CASE p = k
      <4>1. g[p] = FindStep(ies, f, p)
        BY Zenon, <2>3, <3>0, <3>1
      <4>2. \A q \in (p + 1)..M : f[q] = g[q]
        BY Zenon, <2>4, <2>5, <3>1
      <4>3. QED
        BY Zenon, <1>3, <3>0, <4>1, <4>2
    <3>2. CASE p # k
      <4>1. g[p] = FindStep(ies, f, p)
        BY Zenon, <2>1, <2>4, <2>5, <3>0, <3>2
      <4>2. \A q \in (p + 1)..M : f[q] = g[q]
        BY Zenon, <2>4, <2>5, <3>2
      <4>3. QED
        BY Zenon, <1>3, <3>0, <4>1, <4>2
    <3>3. QED
      BY Zenon, <3>1, <3>2
  <2>7. QED
    BY Zenon, <2>4, <2>6
<1>6. PICK f : \A p \in 0..M : f[p] = FindStep(ies, f, p)
  <2>1. M \in 0..M /\ M - M = 0
    BY SMT
  <2>2. M \in T
    <3> HIDE DEF T
    <3>1. \A d \in 0..M : d \in T
      BY <1>4, <1>5, UpwardInduction
    <3>2. QED
      BY Zenon, <2>1, <3>1
  <2>3. QED
    BY Zenon, <2>1, <2>2
<1>7. PICK g : g = [p \in 0..M |-> f[p]]
  OBVIOUS
<1>8. ASSUME NEW p \in 0..M PROVE f[p] = FindStep(ies, g, p)
  <2>1. \A q \in (p + 1)..M : q \in 0..M
    BY SMT
  <2>2. \A q \in (p + 1)..M : f[q] = g[q]
    BY Zenon, <1>7, <2>1
  <2>3. QED
    BY Zenon, <1>3, <1>6, <2>2
<1>9. Whole(g)
  BY Zenon, <1>7, <1>8
<1>10. PICK s : s = CHOOSE h : Whole(h)
  OBVIOUS
<1>11. Whole(s)
  BY Zenon, <1>9, <1>10
<1>12. find_ssid(ies) = s[0]
  BY Zenon, <1>0, <1>1, <1>10 DEF find_ssid, FindStep
<1>13. QED
  BY ZenonT(60), <1>0, <1>1, <1>11, <1>12

\* find_ssid finds the first SSID of what was read of a list of elements, if it is whole.
LEMMA SsidFound ==
    ASSUME NEW es \in Seq([id : Bytes, size : Bytes]), NEW read \in 0..Len(Elements(es))
    PROVE  SsidLocated(es, read)
<1>0. PICK n \in Nat, r \in Nat : n = Len(es) /\ r = read
  <2>1. Len(Elements(es)) \in Nat
    <3>1. PICK off : Laid(es, off)
      BY ElementsLaid
    <3>2. QED
      BY <3>1 DEF Laid
  <2>2. read \in Nat /\ Len(es) \in Nat
    BY SMT, <2>1
  <2>3. QED
    BY Zenon, <2>2
<1>1. PICK off : Laid(es, off)
  BY ElementsLaid
<1>2. PICK w \in Seq(Bytes) : w = Elements(es) /\ Len(w) = off[n]
  BY Zenon, <1>0, <1>1 DEF Laid
<1>3. /\ off[0] = 0 /\ \A i \in 0..n : off[i] \in Nat
      /\ \A i \in 1..n : off[i] = off[i - 1] + 2 + es[i].size
      /\ \A i \in 0..n : \A j \in i..n : off[i] <= off[j]
      /\ \A i \in 0..n : Len(Elements(SubSeq(es, 1, i))) = off[i]
      /\ \A i \in 1..n : w[off[i - 1] + 1] = es[i].id /\ w[off[i - 1] + 2] = es[i].size
  BY Zenon, <1>0, <1>1, <1>2 DEF Laid
<1>4. \A i \in 1..n : es[i].id \in Bytes /\ es[i].size \in Nat /\ es[i].size <= 255
  <2>1. ASSUME NEW i \in 1..n PROVE es[i].id \in Bytes /\ es[i].size \in Bytes
    <3>1. i \in 1..Len(es)
      BY Zenon, <1>0
    <3>2. es[i] \in [id : Bytes, size : Bytes]
      BY <3>1, ItemOf
    <3>3. QED
      BY <3>2
  <2>2. \A x \in Bytes : x \in Nat /\ x <= 255
    BY SMT, ByteBounds DEF Top
  <2>3. QED
    BY Zenon, <2>1, <2>2
<1>5. PICK b \in Seq(Bytes) : /\ b = SubSeq(w, 1, r) /\ Len(b) = r
                              /\ \A x \in 1..r : b[x] = w[x]
  <2>1. r \in 0..Len(w)
    BY Zenon, <1>0, <1>2
  <2>2. r <= Len(w) /\ 1 <= r + 1 /\ 1 >= 1 /\ 1 \in Nat /\ r - 1 + 1 = r
        /\ \A x \in 1..r : 1 + x - 1 = x
    BY SMT, <1>2, <2>1
  <2>3. PICK c : c = SubSeq(w, 1, r)
    OBVIOUS
  <2>4. c \in Seq(Bytes) /\ Len(c) = r - 1 + 1 /\ \A x \in 1..(r - 1 + 1) : c[x] = w[1 + x - 1]
    BY <2>2, <2>3, Cut
  <2>5. QED
    BY Zenon, <2>2, <2>3, <2>4
<1>6. PICK s : find_ssid(b) = s[0] /\ \A p \in 0..(r + 257) : s[p] = FindStep(b, s, p)
  <2>1. \E s : find_ssid(b) = s[0] /\ \A p \in 0..(Len(b) + 257) : s[p] = FindStep(b, s, p)
    BY FindSsidIs
  <2>2. QED
    BY Zenon, <1>5, <2>1
<1> DEFINE Going(i) == i < n /\ es[i + 1].id # 0 /\ r - off[i] > 2
<1>7. PICK K \in 0..n : ~Going(K) /\ \A i \in 0..(K - 1) : Going(i)
  <2>1. PICK D : D = {i \in Nat : i <= n /\ ~Going(i)}
    OBVIOUS
  <2>2. n \in D
    <3>1. n <= n /\ ~(n < n)
      BY SMT
    <3>2. QED
      BY Zenon, <2>1, <3>1
  <2>3. D \subseteq Nat
    BY Zenon, <2>1
  <2>4. PICK K \in D : \A i \in D : K <= i
    BY <2>2, <2>3, LeastNat
  <2>5. K \in Nat /\ K <= n /\ ~Going(K)
    BY Zenon, <2>1, <2>4
  <2>6. K \in 0..n /\ \A i \in 0..(K - 1) : i \in Nat /\ i <= n /\ ~(K <= i)
    BY SMT, <2>5
  <2>7. QED
    BY Zenon, <2>1, <2>4, <2>5, <2>6
<1>8. ASSUME NEW i \in 0..(n - 1), off[i] + 2 <= r
      PROVE  /\ b[off[i] + 1] = es[i + 1].id /\ b[off[i] + 2] = es[i + 1].size
             /\ off[i + 1] = off[i] + 2 + es[i + 1].size
  <2>1. i \in 0..n /\ i + 1 \in 1..n /\ (i + 1) - 1 = i
    BY SMT
  <2>2. PICK o \in Nat : o = off[i]
    BY Zenon, <1>3, <2>1
  <2>3. o + 1 \in 1..r /\ o + 2 \in 1..r
    BY SMTT(60), <1>8, <2>2
  <2>4. /\ w[off[i] + 1] = es[i + 1].id /\ w[off[i] + 2] = es[i + 1].size
        /\ off[i + 1] = off[i] + 2 + es[i + 1].size
    <3>1. PICK j \in 1..n : j = i + 1 /\ j - 1 = i
      BY Zenon, <2>1
    <3>2. /\ w[off[j - 1] + 1] = es[j].id /\ w[off[j - 1] + 2] = es[j].size
          /\ off[j] = off[j - 1] + 2 + es[j].size
      BY Zenon, <1>3
    <3>3. QED
      BY Zenon, <3>1, <3>2
  <2>5. QED
    BY Zenon, <1>5, <2>2, <2>3, <2>4
<1>9. s[0] = s[off[K]] /\ off[K] \in 0..(r + 257)
  <2>1. PICK T : T = {i \in 0..K : s[0] = s[off[i]] /\ off[i] \in 0..(r + 257)}
    OBVIOUS
  <2>2. 0 \in T
    <3>1. 0 \in 0..K /\ 0 \in 0..(r + 257)
      BY SMT
    <3>2. QED
      BY Zenon, <1>3, <2>1, <3>1
  <2>3. ASSUME NEW i \in 0..(K - 1), i \in T PROVE i + 1 \in T
    <3>1. i + 1 \in 0..K /\ i \in 0..(n - 1) /\ i + 1 \in 1..n /\ i \in 0..n
      BY SMT
    <3>2. s[0] = s[off[i]] /\ off[i] \in 0..(r + 257) /\ es[i + 1].id # 0 /\ r - off[i] > 2
      BY Zenon, <1>7, <2>1, <2>3
    <3>3. PICK o \in Nat, z \in Nat : o = off[i] /\ z = es[i + 1].size /\ z <= 255
      BY ZenonT(60), <1>3, <1>4, <3>1
    <3>4. r - o > 2
      BY Zenon, <3>2, <3>3
    <3>5. o + 2 <= r /\ ~(o > r) /\ o + 2 + z \in 0..(r + 257)
      <4>1. z <= 255
        BY Zenon, <3>3
      <4>2. QED
        BY SMT, <3>4, <4>1
    <3>6. b[o + 1] = es[i + 1].id /\ b[o + 2] = z /\ off[i + 1] = o + 2 + z
      BY Zenon, <1>8, <3>1, <3>3, <3>5
    <3>7. FindStep(b, s, o) = s[NextElement(b, o)]
      BY Zenon, <1>5, <3>2, <3>4, <3>5, <3>6 DEF FindStep
    <3>8. NextElement(b, o) = off[i + 1]
      BY Zenon, <3>6 DEF NextElement
    <3>9. s[0] = s[off[i + 1]]
      BY Zenon, <1>6, <3>2, <3>3, <3>7, <3>8
    <3>10. QED
      BY Zenon, <2>1, <3>1, <3>5, <3>6, <3>9
  <2>4. K \in Nat /\ K \in 0..K
    BY SMT
  <2>5. \A i \in 0..K : i \in T
    BY <2>2, <2>3, <2>4, UpwardInduction
  <2>6. QED
    BY Zenon, <2>1, <2>4, <2>5
<1>10. PICK o \in Nat : o = off[K]
  BY Zenon, <1>3
<1>11. PICK found : found = find_ssid(b)
  OBVIOUS
<1>12. found = FindStep(b, s, o)
  BY Zenon, <1>6, <1>9, <1>10, <1>11
<1> DEFINE ids == {i \in DOMAIN es : es[i].id = 0}
           first == CHOOSE i \in ids : \A j \in ids : i <= j
           start(i) == Len(Elements(SubSeq(es, 1, i - 1))) + 2
           there(i) == start(i) + es[i].size <= read
\* The first SSID is not among the elements that were walked through.
<1>13. ASSUME ids # {}
       PROVE  /\ first \in (K + 1)..n /\ es[first].id = 0
              /\ \A i \in 1..n : es[i].id = 0 => first <= i
  <2>1. \A i : i \in ids <=> i \in 1..n /\ es[i].id = 0
    <3>1. DOMAIN es = 1..n
      BY SMT, <1>0
    <3>2. QED
      BY Zenon, <3>1
  <2> HIDE DEF ids
  <2>2. ids \subseteq Nat
    <3>1. \A i \in 1..n : i \in Nat
      BY SMT
    <3>2. QED
      BY Zenon, <2>1, <3>1
  <2>3. PICK f \in ids : \A j \in ids : f <= j
    BY <1>13, <2>2, LeastNat
  <2>4. first \in ids /\ \A j \in ids : first <= j
    BY Zenon, <2>3
  <2>5. first \in 1..n /\ es[first].id = 0
    BY Zenon, <2>1, <2>4
  <2> HIDE DEF first
  <2>6. ~(first <= K)
    <3>1. SUFFICES ASSUME first <= K PROVE FALSE
      OBVIOUS
    <3>2. first - 1 \in 0..(K - 1) /\ (first - 1) + 1 = first
      BY SMT, <2>5, <3>1
    <3>3. Going(first - 1)
      BY Zenon, <1>7, <3>2
    <3>4. QED
      BY Zenon, <2>5, <3>2, <3>3
  <2>7. first \in (K + 1)..n
    BY SMT, <2>5, <2>6
  <2>8. QED
    BY Zenon, <2>1, <2>4, <2>5, <2>7
<1>14. ASSUME NEW i \in (K + 1)..n
       PROVE  /\ start(i) \in Nat /\ o + 2 <= start(i) /\ es[i].size \in Nat
              /\ i = K + 1 => start(i) = o + 2
              /\ i # K + 1 => K \in 0..(n - 1) /\ o + 2 + es[K + 1].size + 2 <= start(i)
  <2>1. i - 1 \in K..n /\ i - 1 \in 0..n /\ i \in 1..n /\ K \in 0..n
    BY SMT
  <2>2. Len(Elements(SubSeq(es, 1, i - 1))) = off[i - 1] /\ off[K] <= off[i - 1] /\ off[i - 1] \in Nat
    BY Zenon, <1>3, <2>1
  <2>3. PICK q \in Nat : q = off[i - 1] /\ o <= q /\ start(i) = q + 2
    BY Zenon, <1>10, <2>2
  <2>4. q + 2 \in Nat /\ o + 2 <= q + 2
    BY SMT, <2>3
  <2>5. ASSUME i = K + 1 PROVE q = o
    <3>1. i - 1 = K
      BY SMT, <2>5
    <3>2. QED
      BY Zenon, <1>10, <2>3, <3>1
  <2>6. ASSUME i # K + 1 PROVE K \in 0..(n - 1) /\ o + 2 + es[K + 1].size + 2 <= q + 2
    <3>1. K \in 0..(n - 1) /\ K + 1 \in 1..n /\ K + 1 \in 0..n /\ i - 1 \in (K + 1)..n /\ (K + 1) - 1 = K
      BY SMT, <2>6
    <3>2. off[K + 1] <= off[i - 1] /\ off[K + 1] = off[(K + 1) - 1] + 2 + es[K + 1].size
          /\ es[K + 1].size \in Nat
      BY Zenon, <1>3, <1>4, <3>1
    <3>3. PICK z \in Nat : z = es[K + 1].size
      BY Zenon, <3>2
    <3>4. o + 2 + z <= q
      BY Zenon, <1>10, <2>3, <3>1, <3>2, <3>3
    <3>5. o + 2 + z + 2 <= q + 2
      BY SMT, <3>4
    <3>6. QED
      BY Zenon, <3>1, <3>3, <3>5
  <2>7. QED
    BY Zenon, <1>4, <2>1, <2>3, <2>4, <2>5, <2>6

\* Three things are claimed; what was found is one of these.
<1> DEFINE Claim == /\ found \notin {NoSsid, Outside} /\ found[2] > 0 =>
                         ids # {} /\ found = <<start(first), es[first].size>> /\ there(first)
                    /\ ids # {} /\ there(first) => found = <<start(first), es[first].size>>
                    /\ found = Outside => r < Len(w)
<1>15. NoSsid # Outside /\ \A x \in Nat : \A z : <<x, z>> # Outside /\ <<x, z>>[2] = z
  <2>1. 0 # -1 /\ \A x \in Nat : x # -1
    BY SMT
  <2>2. QED
    BY Zenon, <2>1 DEF NoSsid, Outside
<1>16. ASSUME ids # {}, there(first)
       PROVE  /\ first \in (K + 1)..n /\ o + 2 <= r
              /\ first = K + 1 => start(first) = o + 2 /\ o + 2 + es[first].size <= r
              /\ first # K + 1 => K \in 0..(n - 1) /\ o + 2 + es[K + 1].size + 2 <= r
  <2>1. PICK f \in (K + 1)..n : f = first
    BY Zenon, <1>13, <1>16
  <2>2. PICK x \in Nat, z \in Nat : x = start(f) /\ z = es[f].size
    BY Zenon, <1>14
  <2>3. /\ x + z <= r /\ o + 2 <= x /\ (f = K + 1 => x = o + 2)
        /\ f # K + 1 => K \in 0..(n - 1) /\ o + 2 + es[K + 1].size + 2 <= x
    BY Zenon, <1>0, <1>14, <1>16, <2>1, <2>2
  <2>4. o + 2 <= r
    BY SMTT(60), <2>2, <2>3
  <2>5. ASSUME f = K + 1 PROVE o + 2 + z <= r
    BY SMT, <2>2, <2>3, <2>5
  <2>6. ASSUME f # K + 1 PROVE K \in 0..(n - 1) /\ o + 2 + es[K + 1].size + 2 <= r
    <3>1. K \in 0..(n - 1) /\ K + 1 \in 1..n
      BY SMT, <2>6
    <3>2. PICK y \in Nat : y = es[K + 1].size
      BY Zenon, <1>4, <3>1
    <3>3. o + 2 + y + 2 <= x
      BY Zenon, <2>3, <2>6, <3>2
    <3>4. o + 2 + y + 2 <= r
      <4>1. x + z <= r
        BY Zenon, <2>3
      <4>2. QED
        BY SMT, <3>3, <4>1
    <3>5. QED
      BY Zenon, <3>1, <3>2, <3>4
  <2>7. QED
    BY Zenon, <2>1, <2>2, <2>3, <2>4, <2>5, <2>6
<1> HIDE DEF ids, first, start, there
<1>17. ASSUME o > r PROVE Claim
  <2>1. found = Outside
    BY Zenon, <1>5, <1>12, <1>17 DEF FindStep
  <2>2. ~(o + 2 <= r)
    BY SMT, <1>17
  <2>3. r < Len(w)
    <3>1. n \in K..n /\ K \in 0..n /\ n \in 0..n
      BY SMT
    <3>2. off[K] <= off[n] /\ off[n] \in Nat
      BY Zenon, <1>3, <3>1
    <3>3. PICK q \in Nat : q = Len(w) /\ o <= q
      BY Zenon, <1>2, <1>10, <3>2
    <3>4. r < q
      BY SMT, <1>17, <3>3
    <3>5. QED
      BY Zenon, <3>3, <3>4
  <2>4. QED
    BY Zenon, <1>16, <2>1, <2>2, <2>3
<1>18. ASSUME ~(o > r), K = n PROVE Claim
  <2>1. r - o < 2 /\ ~(r - o > 2)
    <3>1. PICK q \in Nat : q = Len(w) /\ o = q /\ r \in 0..q
      BY Zenon, <1>0, <1>2, <1>10, <1>18
    <3>2. QED
      BY SMT, <3>1
  <2>2. found = NoSsid
    BY Zenon, <1>5, <1>12, <1>18, <2>1 DEF FindStep
  <2>3. \A i : ~(i \in (K + 1)..n)
    BY SMT, <1>18
  <2>4. ids = {}
    BY Zenon, <1>13, <2>3
  <2>5. QED
    BY Zenon, <1>15, <2>2, <2>4
<1>19. ASSUME ~(o > r), K # n PROVE Claim
  <2>1. K \in 0..(n - 1) /\ K < n /\ K + 1 \in 1..n /\ K + 1 \in (K + 1)..n
    BY SMT, <1>19
  <2>2. PICK z \in Nat : z = es[K + 1].size /\ z <= 255
    BY Zenon, <1>4, <2>1
  <2>3. o + 2 <= r => b[o + 1] = es[K + 1].id /\ b[o + 2] = z
    BY Zenon, <1>8, <1>10, <2>1, <2>2
  <2>4. CASE r - o > 2
    <3>1. es[K + 1].id = 0
      BY Zenon, <1>7, <1>10, <2>1, <2>4
    <3>2. o + 2 <= r /\ ~(r - o < 2)
      BY SMT, <2>4
    <3>3. b[o + 1] = 0 /\ b[o + 2] = z
      BY Zenon, <2>3, <3>1, <3>2
    <3>4. found = IF r - o < 2 + z THEN NoSsid ELSE <<o + 2, z>>
      BY Zenon, <1>5, <1>12, <1>19, <3>2, <3>3 DEF FindStep
    <3>5. ids # {} /\ first = K + 1
      <4>1. K + 1 \in ids
        <5>1. DOMAIN es = 1..n
          BY SMT, <1>0
        <5>2. QED
          BY Zenon, <2>1, <3>1, <5>1 DEF ids
      <4>2. first \in (K + 1)..n /\ first <= K + 1
        BY Zenon, <1>13, <2>1, <3>1, <4>1
      <4>3. first = K + 1
        BY SMT, <4>2
      <4>4. QED
        BY Zenon, <4>1, <4>3
    <3>6. start(first) = o + 2 /\ es[first].size = z
      BY Zenon, <1>14, <2>1, <2>2, <3>5
    <3>7. there(first) <=> o + 2 + z <= r
      BY Zenon, <1>0, <3>6 DEF there
    <3>8. r - o < 2 + z <=> ~(o + 2 + z <= r)
      BY SMT
    <3>9. o + 2 \in Nat
      BY SMT
    <3>10. CASE o + 2 + z <= r
      BY Zenon, <1>15, <3>4, <3>5, <3>6, <3>7, <3>8, <3>9, <3>10
    <3>11. CASE ~(o + 2 + z <= r)
      BY Zenon, <1>15, <3>4, <3>7, <3>8, <3>11
    <3>12. QED
      BY Zenon, <3>10, <3>11
  <2>5. CASE r - o = 2
    <3>1. o + 2 <= r /\ ~(r - o < 2) /\ ~(r - o > 2) /\ (r - o < 2 + z <=> z # 0) /\ o + 2 \in Nat
          /\ ~(0 > 0) /\ (o + 2 + z <= r <=> z = 0) /\ ~(o + 2 + z + 2 <= r)
      BY SMT, <2>5
    <3>2. found = IF z # 0 THEN NoSsid ELSE <<o + 2, z>>
      <4>1. b[o + 2] = z
        BY Zenon, <2>3, <3>1
      <4>2. found = IF r - o < 2 + z THEN NoSsid ELSE <<o + 2, z>>
        BY Zenon, <1>5, <1>12, <1>19, <3>1, <4>1 DEF FindStep
      <4>3. QED
        BY Zenon, <3>1, <4>2
    <3>3. ASSUME ids # {}, there(first)
          PROVE  start(first) = o + 2 /\ es[first].size = 0 /\ z = 0
      <4>1. first = K + 1
        BY Zenon, <1>16, <2>2, <3>1, <3>3
      <4>2. start(first) = o + 2 /\ o + 2 + es[first].size <= r
        BY Zenon, <1>16, <3>3, <4>1
      <4>3. QED
        BY Zenon, <2>2, <3>1, <4>1, <4>2
    <3>4. CASE z = 0
      <4>1. found = <<o + 2, 0>>
        BY Zenon, <3>2, <3>4
      <4>2. QED
        BY Zenon, <1>15, <3>1, <3>3, <4>1
    <3>5. CASE z # 0
      <4>1. found = NoSsid
        BY Zenon, <3>2, <3>5
      <4>2. QED
        BY Zenon, <1>15, <3>3, <3>5, <4>1
    <3>6. QED
      BY Zenon, <3>4, <3>5
  <2>6. CASE r - o < 2
    <3>1. ~(r - o > 2) /\ ~(o + 2 <= r)
      BY SMT, <2>6
    <3>2. found = NoSsid
      BY Zenon, <1>5, <1>12, <1>19, <2>6, <3>1 DEF FindStep
    <3>3. QED
      BY Zenon, <1>15, <1>16, <3>1, <3>2
  <2>7. QED
    BY SMT, <2>4, <2>5, <2>6
<1>20. Claim
  BY Zenon, <1>17, <1>18, <1>19
<1>21. QED
  BY Zenon, <1>0, <1>2, <1>5, <1>11, <1>20 DEF SsidLocated, ids, first, start, there

-----------------------------------------------------------------------------
(* The server name of a hello.                                             *)

\* The number two bytes of a sequence stand for.
Pair(s, i) == s[i] * 256 + s[i + 1]

\* A number in two bytes.
LEMMA Uint16Is ==
    ASSUME NEW n \in Nat, n < TwoTo16
    PROVE  Uint16(n) \in Seq(Bytes) /\ Len(Uint16(n)) = 2 /\ Pair(Uint16(n), 1) = n
<1>1. PICK a, b : a = n \div 256 /\ b = n % 256
  OBVIOUS
<1>2. a \in Int /\ b \in Int /\ 0 <= a /\ a <= 255 /\ 0 <= b /\ b <= 255 /\ a * 256 + b = n
  BY SMT, <1>1 DEF TwoTo16
<1>3. a \in Bytes /\ b \in Bytes
  BY <1>2, ByteBounds DEF Top
<1>4. PICK u : u = <<a, b>>
  OBVIOUS
<1>5. u \in Seq(Bytes) /\ Len(u) = 2 /\ u[1] = a /\ u[2] = b
  BY <1>3, <1>4
<1>6. 1 + 1 = 2
  BY SMT
<1>7. QED
  BY ZenonT(60), <1>1, <1>2, <1>4, <1>5, <1>6 DEF Uint16, Pair

\* An extension that fits its two bytes of length, and a name that is one.
IsExt(e)   == /\ e.type \in Nat /\ e.type < TwoTo16 /\ e.size \in Nat /\ e.size + 5 < TwoTo16
              /\ e.type = 0 => e.size > 0
BodyLen(e) == IF e.type = 0 THEN e.size + 5 ELSE e.size

\* Two sequences one behind the other, and the pairs of bytes in them.
Behind(a, b, c) ==
    /\ c \in Seq(Bytes) /\ Len(c) = Len(a) + Len(b)
    /\ \A i \in 1..Len(a) : c[i] = a[i]
    /\ \A i \in 1..Len(b) : c[Len(a) + i] = b[i]
    /\ \A i \in 1..(Len(a) - 1) : Pair(c, i) = Pair(a, i)
    /\ \A i \in 1..(Len(b) - 1) : Pair(c, Len(a) + i) = Pair(b, i)

\* Two-byte fields stay what they are when the bytes are joined.
LEMMA PairsJoined ==
    ASSUME NEW a \in Seq(Bytes), NEW b \in Seq(Bytes), NEW c, c = a \o b
    PROVE  Behind(a, b, c)
<1>1. /\ c \in Seq(Bytes) /\ Len(c) = Len(a) + Len(b)
      /\ \A i \in 1..Len(a) : c[i] = a[i]
      /\ \A i \in 1..Len(b) : c[Len(a) + i] = b[i]
  BY Joined
<1>2. PICK m \in Nat, n \in Nat : m = Len(a) /\ n = Len(b)
  OBVIOUS
<1>3. /\ \A i \in 1..(m - 1) : i \in 1..m /\ i + 1 \in 1..m
      /\ \A i \in 1..(n - 1) : i \in 1..n /\ i + 1 \in 1..n /\ m + i + 1 = m + (i + 1)
  BY SMT
<1>4. \A i \in 1..(m - 1) : c[i] = a[i] /\ c[i + 1] = a[i + 1]
  BY Zenon, <1>1, <1>2, <1>3
<1>5. \A i \in 1..(n - 1) : c[m + i] = b[i] /\ c[m + i + 1] = b[i + 1]
  BY Zenon, <1>1, <1>2, <1>3
<1>6. QED
  BY Zenon, <1>1, <1>2, <1>4, <1>5 DEF Pair, Behind

\* The body of an extension.
LEMMA ExtBodyIs ==
    ASSUME NEW e, IsExt(e)
    PROVE  /\ ExtBody(e) \in Seq(Bytes) /\ Len(ExtBody(e)) = BodyLen(e)
           /\ e.type = 0 => Pair(ExtBody(e), 4) = e.size
<1>1. PICK z \in Nat : z = e.size /\ z + 5 < TwoTo16
  BY Zenon DEF IsExt
<1>2. PICK f \in Seq(Bytes) : f = Filler(z) /\ Len(f) = z
  BY FillerIs
<1>3. CASE e.type # 0
  BY Zenon, <1>1, <1>2, <1>3 DEF ExtBody, BodyLen
<1>4. CASE e.type = 0
  <2>1. z + 3 \in Nat /\ z + 3 < TwoTo16 /\ z < TwoTo16 /\ 2 + 1 = 3 /\ 3 + 2 = 5 /\ 5 + z = z + 5
        /\ 1 \in 1..(2 - 1) /\ 3 + 1 = 4 /\ 4 \in 1..(5 - 1)
    BY SMT, <1>1 DEF TwoTo16
  <2>2. PICK u \in Seq(Bytes) : u = Uint16(z + 3) /\ Len(u) = 2
    BY <2>1, Uint16Is
  <2>3. PICK v \in Seq(Bytes) : v = Uint16(z) /\ Len(v) = 2 /\ Pair(v, 1) = z
    BY <2>1, Uint16Is
  <2>4. PICK w : w = <<0>>
    OBVIOUS
  <2>5. w \in Seq(Bytes) /\ Len(w) = 1
    <3>1. 0 \in Bytes
      BY WordFacts
    <3>2. QED
      BY <2>4, <3>1
  <2>6. PICK c, d, b : c = u \o w /\ d = c \o v /\ b = d \o f
    OBVIOUS
  <2>7. c \in Seq(Bytes) /\ Len(c) = Len(u) + Len(w)
    <3>1. Behind(u, w, c)
      BY <2>5, <2>6, PairsJoined
    <3>2. QED
      BY Zenon, <3>1 DEF Behind
  <2>8. /\ d \in Seq(Bytes) /\ Len(d) = Len(c) + Len(v)
        /\ \A i \in 1..(Len(v) - 1) : Pair(d, Len(c) + i) = Pair(v, i)
    <3>1. Behind(c, v, d)
      BY <2>6, <2>7, PairsJoined
    <3>2. QED
      BY Zenon, <3>1 DEF Behind
  <2>9. /\ b \in Seq(Bytes) /\ Len(b) = Len(d) + Len(f)
        /\ \A i \in 1..(Len(d) - 1) : Pair(b, i) = Pair(d, i)
    <3>1. d \in Seq(Bytes)
      BY Zenon, <2>8
    <3>2. Behind(d, f, b)
      BY <2>6, <3>1, PairsJoined
    <3>3. QED
      BY Zenon, <3>2 DEF Behind
  <2>10. Len(c) = 3 /\ Len(d) = 5 /\ Len(b) = z + 5
    BY Zenon, <1>2, <2>1, <2>2, <2>3, <2>5, <2>7, <2>8, <2>9
  <2>11. Pair(d, 4) = z
    BY Zenon, <2>1, <2>3, <2>8, <2>10
  <2>12. Pair(b, 4) = z
    BY Zenon, <2>1, <2>9, <2>10, <2>11
  <2>13. ExtBody(e) = b
    BY Zenon, <1>1, <1>2, <1>4, <2>2, <2>3, <2>4, <2>6 DEF ExtBody
  <2>14. QED
    BY Zenon, <1>1, <1>4, <2>9, <2>10, <2>12, <2>13 DEF BodyLen
<1>5. QED
  BY Zenon, <1>3, <1>4

\* The bytes of an extension.
LEMMA ExtIs ==
    ASSUME NEW e, IsExt(e)
    PROVE  /\ ExtBytes(e) \in Seq(Bytes) /\ Len(ExtBytes(e)) = 4 + BodyLen(e) /\ BodyLen(e) \in Nat
           /\ Pair(ExtBytes(e), 1) = e.type /\ Pair(ExtBytes(e), 3) = BodyLen(e)
           /\ e.type = 0 => Pair(ExtBytes(e), 8) = e.size
<1>1. PICK b \in Seq(Bytes) : /\ b = ExtBody(e) /\ Len(b) = BodyLen(e)
                              /\ e.type = 0 => Pair(b, 4) = e.size
  BY ExtBodyIs
<1>2. PICK n \in Nat : n = BodyLen(e) /\ n < TwoTo16 /\ (e.type = 0 => n >= 5)
  <2>1. PICK z \in Nat : z = e.size /\ z + 5 < TwoTo16
    BY Zenon DEF IsExt
  <2>2. z + 5 \in Nat /\ z < TwoTo16 /\ z + 5 >= 5
    BY SMT, <2>1 DEF TwoTo16
  <2>3. QED
    BY Zenon, <2>1, <2>2 DEF BodyLen
<1>3. PICK t \in Seq(Bytes) : t = Uint16(e.type) /\ Len(t) = 2 /\ Pair(t, 1) = e.type
  <2>1. e.type \in Nat /\ e.type < TwoTo16
    BY Zenon DEF IsExt
  <2>2. QED
    BY <2>1, Uint16Is
<1>4. PICK l \in Seq(Bytes) : l = Uint16(n) /\ Len(l) = 2 /\ Pair(l, 1) = n
  <2>1. n < TwoTo16
    BY Zenon, <1>2
  <2>2. QED
    BY <2>1, Uint16Is
<1>5. PICK c, x : c = t \o l /\ x = c \o b
  OBVIOUS
<1>6. /\ c \in Seq(Bytes) /\ Len(c) = Len(t) + Len(l)
      /\ \A i \in 1..(Len(t) - 1) : Pair(c, i) = Pair(t, i)
      /\ \A i \in 1..(Len(l) - 1) : Pair(c, Len(t) + i) = Pair(l, i)
  <2>1. Behind(t, l, c)
    BY <1>5, PairsJoined
  <2>2. QED
    BY Zenon, <2>1 DEF Behind
<1>7. /\ x \in Seq(Bytes) /\ Len(x) = Len(c) + Len(b)
      /\ \A i \in 1..(Len(c) - 1) : Pair(x, i) = Pair(c, i)
      /\ \A i \in 1..(Len(b) - 1) : Pair(x, Len(c) + i) = Pair(b, i)
  <2>1. c \in Seq(Bytes)
    BY Zenon, <1>6
  <2>2. Behind(c, b, x)
    BY <1>5, <2>1, PairsJoined
  <2>3. QED
    BY Zenon, <2>2 DEF Behind
<1>8. /\ 2 + 2 = 4 /\ 2 + 1 = 3 /\ 4 + 4 = 8 /\ 1 \in 1..(2 - 1) /\ 1 \in 1..(4 - 1) /\ 3 \in 1..(4 - 1)
      /\ (n >= 5 => 4 \in 1..(n - 1))
  BY SMT
<1>9. Len(c) = 4 /\ Pair(c, 1) = e.type /\ Pair(c, 3) = n
  BY Zenon, <1>3, <1>4, <1>6, <1>8
<1>10. /\ Len(x) = 4 + n /\ Pair(x, 1) = e.type /\ Pair(x, 3) = n
       /\ e.type = 0 => Pair(x, 8) = e.size
  BY Zenon, <1>1, <1>2, <1>7, <1>8, <1>9
<1>11. ExtBytes(e) = x
  BY Zenon, <1>1, <1>2, <1>3, <1>4, <1>5 DEF ExtBytes
<1>12. QED
  BY Zenon, <1>2, <1>7, <1>10, <1>11

\* The first extensions are joined like all of them.
LEMMA ExtPartPrefix ==
    ASSUME NEW S, NEW exts \in Seq(S), NEW m, m[0] = <<>>,
           \A i \in 1..Len(exts) : m[i] = m[i - 1] \o ExtBytes(exts[i]), NEW k \in 0..Len(exts)
    PROVE  ExtPart(SubSeq(exts, 1, k)) = m[k]
<1>0. Len(exts) \in Nat /\ k \in Nat
  BY SMT
<1>1. PICK cut : cut = SubSeq(exts, 1, k)
  OBVIOUS
<1>2. Len(cut) = k /\ \A i \in 1..k : cut[i] = exts[i]
  <2>1. 1 \in Nat /\ 1 >= 1 /\ k <= Len(exts) /\ 1 <= k + 1 /\ k - 1 + 1 = k
        /\ \A i \in 1..k : 1 + i - 1 = i
    BY SMT, <1>0
  <2>2. Len(cut) = k - 1 + 1 /\ \A i \in 1..(k - 1 + 1) : cut[i] = exts[1 + i - 1]
    BY <1>0, <1>1, <2>1, Cut
  <2>3. QED
    BY Zenon, <2>1, <2>2
<1>3. PICK f : /\ f[0] = <<>>
               /\ \A i \in 1..k : f[i] = f[i - 1] \o ExtBytes(cut[i])
               /\ ExtPart(cut) = f[k]
  <2>1. Len(cut) \in Nat
    BY <1>0, <1>2
  <2>2. \E f : /\ f[0] = <<>>
               /\ \A i \in 1..Len(cut) : f[i] = f[i - 1] \o ExtBytes(cut[i])
               /\ ExtPart(cut) = f[Len(cut)]
    BY <2>1, ExtPartIs
  <2>3. QED
    BY Zenon, <1>2, <2>2
<1>4. PICK T : T = {i \in 0..k : f[i] = m[i]}
  OBVIOUS
<1>5. 0 \in T
  <2>1. 0 \in 0..k
    BY SMT, <1>0
  <2>2. QED
    BY Zenon, <1>3, <1>4, <2>1
<1>6. ASSUME NEW i \in 0..(k - 1), i \in T PROVE i + 1 \in T
  <2>1. i + 1 \in 0..k /\ i + 1 \in 1..k /\ i + 1 \in 1..Len(exts) /\ (i + 1) - 1 = i
    BY SMT, <1>0
  <2>2. f[i + 1] = f[i] \o ExtBytes(cut[i + 1])
    BY Zenon, <1>3, <2>1
  <2>3. m[i + 1] = m[i] \o ExtBytes(exts[i + 1])
    BY Zenon, <2>1
  <2>4. f[i] = m[i] /\ cut[i + 1] = exts[i + 1]
    BY Zenon, <1>2, <1>4, <1>6, <2>1
  <2>5. QED
    BY Zenon, <1>4, <2>1, <2>2, <2>3, <2>4
<1>7. \A i \in 0..k : i \in T
  BY <1>0, <1>5, <1>6, UpwardInduction
<1>8. k \in 0..k
  BY SMT, <1>0
<1>9. QED
  BY Zenon, <1>1, <1>3, <1>4, <1>7, <1>8

\* Where the extensions of a hello start: off[i] bytes are before the extension i + 1.
ExtsLaid(exts, off) ==
    /\ off[0] = 0 /\ \A i \in 0..Len(exts) : off[i] \in Nat
    /\ \A i \in 1..Len(exts) : BodyLen(exts[i]) \in Nat /\ off[i] = off[i - 1] + 4 + BodyLen(exts[i])
    /\ \A i \in 0..Len(exts) : \A j \in i..Len(exts) : off[i] <= off[j]
    /\ \A i \in 0..Len(exts) : Len(ExtPart(SubSeq(exts, 1, i))) = off[i]
    /\ ExtPart(exts) \in Seq(Bytes) /\ Len(ExtPart(exts)) = off[Len(exts)]
    /\ \A i \in 1..Len(exts) :
         /\ Pair(ExtPart(exts), off[i - 1] + 1) = exts[i].type
         /\ Pair(ExtPart(exts), off[i - 1] + 3) = BodyLen(exts[i])
         /\ exts[i].type = 0 => Pair(ExtPart(exts), off[i - 1] + 8) = exts[i].size

\* Each extension of a hello has its offset, with its type and its size there.
LEMMA ExtensionsLaid ==
    ASSUME NEW S, NEW exts \in Seq(S), \A i \in 1..Len(exts) : IsExt(exts[i])
    PROVE  \E off : ExtsLaid(exts, off)
<1>0. PICK n \in Nat : n = Len(exts)
  BY SMT
<1>1. PICK m : /\ m[0] = <<>>
               /\ \A i \in 1..n : m[i] = m[i - 1] \o ExtBytes(exts[i])
               /\ ExtPart(exts) = m[n]
  BY <1>0, ExtPartIs
<1>2. ASSUME NEW i \in 1..n
      PROVE  /\ ExtBytes(exts[i]) \in Seq(Bytes) /\ Len(ExtBytes(exts[i])) = 4 + BodyLen(exts[i])
             /\ BodyLen(exts[i]) \in Nat
             /\ Pair(ExtBytes(exts[i]), 1) = exts[i].type
             /\ Pair(ExtBytes(exts[i]), 3) = BodyLen(exts[i])
             /\ exts[i].type = 0 => /\ Pair(ExtBytes(exts[i]), 8) = exts[i].size
                                    /\ BodyLen(exts[i]) = exts[i].size + 5
  <2>1. IsExt(exts[i])
    BY Zenon, <1>0
  <2>2. QED
    BY Zenon, <2>1, ExtIs DEF BodyLen
<1>3. PICK parts : parts = [i \in 1..n |-> ExtBytes(exts[i])]
  OBVIOUS
<1>4. \A i \in 1..n : parts[i] = ExtBytes(exts[i]) /\ parts[i] \in Seq(Bytes)
  BY Zenon, <1>2, <1>3
<1>5. \A i \in 1..n : m[i] = m[i - 1] \o parts[i]
  BY Zenon, <1>1, <1>4
<1>6. /\ \A i \in 0..n : m[i] \in Seq(Bytes)
      /\ \A i \in 1..n : Len(m[i]) = Len(m[i - 1]) + Len(parts[i])
      /\ \A i \in 0..n : \A j \in i..n : Len(m[i]) <= Len(m[j])
      /\ \A i \in 1..n : \A k \in 1..Len(parts[i]) : m[n][Len(m[i - 1]) + k] = parts[i][k]
  <2>1. Joins(Bytes, n, parts, m)
    BY Zenon, <1>1, <1>4, <1>5 DEF Joins
  <2>2. Placed(Bytes, n, parts, m)
    BY <2>1, Concatenated
  <2>3. QED
    BY Zenon, <2>2 DEF Placed
<1>7. PICK off : off = [i \in 0..n |-> Len(m[i])]
  OBVIOUS
<1>8. \A i \in 0..n : off[i] = Len(m[i]) /\ off[i] \in Nat
  <2>1. ASSUME NEW i \in 0..n PROVE Len(m[i]) \in Nat
    BY <1>6
  <2>2. QED
    BY Zenon, <1>7, <2>1
<1>9. off[0] = 0
  <2>1. 0 \in 0..n /\ Len(<<>>) = 0
    BY SMT
  <2>2. QED
    BY Zenon, <1>1, <1>8, <2>1
<1>10. ASSUME NEW i \in 1..n
       PROVE  /\ off[i] = off[i - 1] + 4 + BodyLen(exts[i])
              /\ Pair(ExtPart(exts), off[i - 1] + 1) = exts[i].type
              /\ Pair(ExtPart(exts), off[i - 1] + 3) = BodyLen(exts[i])
              /\ exts[i].type = 0 => Pair(ExtPart(exts), off[i - 1] + 8) = exts[i].size
  <2>1. i \in 0..n /\ i - 1 \in 0..n
    BY SMT
  <2>2. PICK a \in Nat, b \in Nat : a = off[i - 1] /\ b = BodyLen(exts[i])
    BY Zenon, <1>2, <1>8, <2>1
  <2>3. PICK x : x = ExtBytes(exts[i]) /\ Len(x) = 4 + b
    BY Zenon, <1>2, <2>2
  <2>4. /\ 1 \in 1..(4 + b) /\ 2 \in 1..(4 + b) /\ 3 \in 1..(4 + b) /\ 4 \in 1..(4 + b)
        /\ a + (4 + b) = a + 4 + b /\ a + 1 + 1 = a + 2 /\ a + 3 + 1 = a + 4 /\ a + 8 + 1 = a + 9
        /\ 1 + 1 = 2 /\ 3 + 1 = 4 /\ 8 + 1 = 9
    BY SMT
  <2>5. Len(parts[i]) = 4 + b /\ parts[i] = x /\ Len(m[i - 1]) = a
    BY Zenon, <1>4, <1>8, <2>1, <2>2, <2>3
  <2>6. Len(m[i]) = a + (4 + b) /\ \A k \in 1..(4 + b) : m[n][a + k] = x[k]
    BY Zenon, <1>6, <2>5
  <2>7. off[i] = a + 4 + b
    BY Zenon, <1>8, <2>1, <2>4, <2>6
  <2>8. Pair(m[n], a + 1) = Pair(x, 1) /\ Pair(m[n], a + 3) = Pair(x, 3)
    <3>1. m[n][a + 1] = x[1] /\ m[n][a + 2] = x[2] /\ m[n][a + 3] = x[3] /\ m[n][a + 4] = x[4]
      BY Zenon, <2>4, <2>6
    <3>2. m[n][a + 1 + 1] = x[1 + 1] /\ m[n][a + 3 + 1] = x[3 + 1]
      BY Zenon, <2>4, <3>1
    <3>3. QED
      BY Zenon, <3>1, <3>2 DEF Pair
  <2>9. ASSUME exts[i].type = 0 PROVE Pair(m[n], a + 8) = Pair(x, 8)
    <3>1. PICK z : z = exts[i].size
      OBVIOUS
    <3>2. z \in Nat /\ b = z + 5
      <4>1. IsExt(exts[i])
        BY Zenon, <1>0
      <4>2. QED
        BY Zenon, <1>2, <2>2, <2>9, <3>1, <4>1 DEF IsExt
    <3>3. 8 \in 1..(4 + b) /\ 9 \in 1..(4 + b)
      BY SMT, <3>2
    <3>4. m[n][a + 8] = x[8] /\ m[n][a + 9] = x[9]
      BY Zenon, <2>6, <3>3
    <3>5. m[n][a + 8 + 1] = x[8 + 1]
      BY Zenon, <2>4, <3>4
    <3>6. QED
      BY Zenon, <3>4, <3>5 DEF Pair
  <2>10. QED
    BY Zenon, <1>1, <1>2, <2>2, <2>3, <2>7, <2>8, <2>9
<1>11. \A i \in 0..n : \A j \in i..n : off[i] <= off[j]
  <2>1. \A i \in 0..n : \A j \in i..n : j \in 0..n
    BY SMT
  <2>2. QED
    BY Zenon, <1>6, <1>8, <2>1
<1>12. ASSUME NEW i \in 0..n PROVE Len(ExtPart(SubSeq(exts, 1, i))) = off[i]
  <2>1. ExtPart(SubSeq(exts, 1, i)) = m[i]
    BY <1>0, <1>1, ExtPartPrefix
  <2>2. QED
    BY Zenon, <1>8, <2>1
<1>13. ExtPart(exts) \in Seq(Bytes) /\ Len(ExtPart(exts)) = off[n]
  <2>1. n \in 0..n
    BY SMT
  <2>2. QED
    BY Zenon, <1>1, <1>6, <1>8, <2>1
<1>14. QED
  BY Zenon, <1>0, <1>2, <1>8, <1>9, <1>10, <1>11, <1>12, <1>13 DEF ExtsLaid

\* A hello whose sizes fit their fields, the session id's and that of the compression
\* methods in a signed char.
IsHello(h) ==
    /\ h.sid \in Nat /\ h.sid < 128 /\ h.comp \in Nat /\ h.comp < 128
    /\ h.suites \in Nat /\ h.suites < TwoTo16
    /\ \A i \in 1..Len(h.exts) : IsExt(h.exts[i])
    /\ Len(HelloHead(h)) + 2 + Len(ExtPart(h.exts)) < TwoTo16

\* Where the fields of a hello are.
HelloLaid(h, w, a, l) ==
    /\ w \in Seq(Bytes) /\ a \in Nat /\ l \in Nat /\ Len(w) = a + 2 + l
    /\ a = Len(HelloHead(h)) /\ a = 47 + h.sid + h.suites + h.comp
    /\ l = Len(ExtPart(h.exts)) /\ a + 2 + l < TwoTo16
    /\ w[44] = h.sid /\ Pair(w, 45 + h.sid) = h.suites /\ w[47 + h.sid + h.suites] = h.comp
    /\ Pair(w, a + 1) = l
    /\ \A i \in 1..(l - 1) : Pair(w, a + 2 + i) = Pair(ExtPart(h.exts), i)

\* A hello has its extensions behind its head, with their size before them.
LEMMA HelloIs ==
    ASSUME NEW S, NEW h, h.exts \in Seq(S), IsHello(h)
    PROVE  \E a, l : HelloLaid(h, Hello(h), a, l)
<1>1. PICK s \in Nat, u \in Nat, m \in Nat :
        s = h.sid /\ u = h.suites /\ m = h.comp /\ s < 128 /\ m < 128 /\ u < TwoTo16
  BY Zenon DEF IsHello
<1>2. PICK e \in Seq(Bytes) : e = ExtPart(h.exts)
  <2>1. \A i \in 1..Len(h.exts) : IsExt(h.exts[i])
    BY Zenon DEF IsHello
  <2>2. PICK off : ExtsLaid(h.exts, off)
    BY <2>1, ExtensionsLaid
  <2>3. QED
    BY Zenon, <2>2 DEF ExtsLaid
<1>3. PICK l \in Nat : l = Len(e)
  OBVIOUS
<1>4. \A x \in Nat : x < 128 => x \in Bytes
  BY SMT, ByteBounds DEF Top
<1>5. PICK p1, p2, p3, p4, p5, p6, p7 :
        /\ p1 = Filler(43) /\ p2 = <<s>> /\ p3 = Filler(s) /\ p4 = Uint16(u) /\ p5 = Filler(u)
        /\ p6 = <<m>> /\ p7 = Filler(m)
  OBVIOUS
<1>6. /\ p1 \in Seq(Bytes) /\ Len(p1) = 43 /\ p3 \in Seq(Bytes) /\ Len(p3) = s
      /\ p5 \in Seq(Bytes) /\ Len(p5) = u /\ p7 \in Seq(Bytes) /\ Len(p7) = m
  <2>1. 43 \in Nat
    BY SMT
  <2>2. QED
    BY Zenon, <1>5, <2>1, FillerIs
<1>7. p2 \in Seq(Bytes) /\ Len(p2) = 1 /\ p2[1] = s /\ p6 \in Seq(Bytes) /\ Len(p6) = 1 /\ p6[1] = m
  <2>1. s \in Bytes /\ m \in Bytes
    BY Zenon, <1>1, <1>4
  <2>2. QED
    BY <1>5, <2>1
<1>8. p4 \in Seq(Bytes) /\ Len(p4) = 2 /\ Pair(p4, 1) = u
  <2>1. u < TwoTo16
    BY Zenon, <1>1
  <2>2. QED
    BY <1>5, <2>1, Uint16Is
<1>9. PICK c2, c3, c4, c5, c6, c7 : /\ c2 = p1 \o p2 /\ c3 = c2 \o p3 /\ c4 = c3 \o p4
                                    /\ c5 = c4 \o p5 /\ c6 = c5 \o p6 /\ c7 = c6 \o p7
  OBVIOUS
<1>10. Behind(p1, p2, c2) /\ c2 \in Seq(Bytes)
  <2>1. Behind(p1, p2, c2)
    BY <1>6, <1>7, <1>9, PairsJoined
  <2>2. QED
    BY Zenon, <2>1 DEF Behind
<1>11. Behind(c2, p3, c3) /\ c3 \in Seq(Bytes)
  <2>1. Behind(c2, p3, c3)
    BY <1>6, <1>9, <1>10, PairsJoined
  <2>2. QED
    BY Zenon, <2>1 DEF Behind
<1>12. Behind(c3, p4, c4) /\ c4 \in Seq(Bytes)
  <2>1. Behind(c3, p4, c4)
    BY <1>8, <1>9, <1>11, PairsJoined
  <2>2. QED
    BY Zenon, <2>1 DEF Behind
<1>13. Behind(c4, p5, c5) /\ c5 \in Seq(Bytes)
  <2>1. Behind(c4, p5, c5)
    BY <1>6, <1>9, <1>12, PairsJoined
  <2>2. QED
    BY Zenon, <2>1 DEF Behind
<1>14. Behind(c5, p6, c6) /\ c6 \in Seq(Bytes)
  <2>1. Behind(c5, p6, c6)
    BY <1>7, <1>9, <1>13, PairsJoined
  <2>2. QED
    BY Zenon, <2>1 DEF Behind
<1>15. Behind(c6, p7, c7) /\ c7 \in Seq(Bytes)
  <2>1. Behind(c6, p7, c7)
    BY <1>6, <1>9, <1>14, PairsJoined
  <2>2. QED
    BY Zenon, <2>1 DEF Behind
<1>16. c7 = HelloHead(h)
  BY Zenon, <1>1, <1>5, <1>9 DEF HelloHead
<1>17. PICK a \in Nat : a = Len(c7)
  BY <1>15
<1>18. l < TwoTo16 /\ a + 2 + l < TwoTo16
  <2>1. a + 2 + l < TwoTo16
    BY Zenon, <1>2, <1>3, <1>16, <1>17 DEF IsHello
  <2>2. QED
    BY SMT, <2>1 DEF TwoTo16
<1>19. PICK p8 \in Seq(Bytes) : p8 = Uint16(l) /\ Len(p8) = 2 /\ Pair(p8, 1) = l
  BY <1>18, Uint16Is
<1>20. PICK c8, w : c8 = c7 \o p8 /\ w = c8 \o e
  OBVIOUS
<1>21. Behind(c7, p8, c8) /\ c8 \in Seq(Bytes)
  <2>1. Behind(c7, p8, c8)
    BY <1>15, <1>20, PairsJoined
  <2>2. QED
    BY Zenon, <2>1 DEF Behind
<1>22. Behind(c8, e, w) /\ w \in Seq(Bytes)
  <2>1. Behind(c8, e, w)
    BY <1>20, <1>21, PairsJoined
  <2>2. QED
    BY Zenon, <2>1 DEF Behind
<1>23. w = Hello(h)
  BY Zenon, <1>2, <1>3, <1>16, <1>19, <1>20 DEF Hello
\* The lengths.
<1>24. /\ Len(c2) = 44 /\ Len(c3) = 44 + s /\ Len(c4) = 46 + s /\ Len(c5) = 46 + s + u
       /\ Len(c6) = 47 + s + u /\ Len(c7) = 47 + s + u + m /\ Len(c8) = a + 2 /\ Len(w) = a + 2 + l
  <2>1. Len(c2) = 43 + 1 /\ Len(c3) = Len(c2) + s
    <3>1. Len(c2) = Len(p1) + Len(p2) /\ Len(c3) = Len(c2) + Len(p3)
      BY Zenon, <1>10, <1>11 DEF Behind
    <3>2. QED
      BY Zenon, <1>6, <1>7, <3>1
  <2>2. Len(c4) = Len(c3) + 2 /\ Len(c5) = Len(c4) + u
    <3>1. Len(c4) = Len(c3) + Len(p4) /\ Len(c5) = Len(c4) + Len(p5)
      BY Zenon, <1>12, <1>13 DEF Behind
    <3>2. QED
      BY Zenon, <1>6, <1>8, <3>1
  <2>3. Len(c6) = Len(c5) + 1 /\ Len(c7) = Len(c6) + m
    <3>1. Len(c6) = Len(c5) + Len(p6) /\ Len(c7) = Len(c6) + Len(p7)
      BY Zenon, <1>14, <1>15 DEF Behind
    <3>2. QED
      BY Zenon, <1>6, <1>7, <3>1
  <2>4. /\ Len(c2) = 44 /\ Len(c3) = 44 + s /\ Len(c4) = 46 + s /\ Len(c5) = 46 + s + u
        /\ Len(c6) = 47 + s + u /\ Len(c7) = 47 + s + u + m
    BY SMT, <2>1, <2>2, <2>3
  <2>5. Len(c8) = a + 2 /\ Len(w) = a + 2 + l
    BY Zenon, <1>3, <1>17, <1>19, <1>21, <1>22 DEF Behind
  <2>6. QED
    BY Zenon, <2>4, <2>5
<1>25. a = 47 + s + u + m
  BY Zenon, <1>17, <1>24
<1>26. /\ 1 \in 1..1 /\ 43 + 1 = 44 /\ 44 + s + 1 = 45 + s /\ 1 \in 1..(2 - 1)
       /\ (46 + s + u) + 1 = 47 + s + u
       /\ 44 \in 1..44 /\ 44 \in 1..(44 + s) /\ 44 \in 1..(46 + s) /\ 44 \in 1..(46 + s + u)
       /\ 44 \in 1..(47 + s + u) /\ 44 \in 1..(47 + s + u + m) /\ 44 \in 1..(a + 2)
  BY SMT, <1>25
<1>27. /\ 45 + s \in 1..((46 + s) - 1) /\ 45 + s \in 1..((46 + s + u) - 1)
       /\ 45 + s \in 1..((47 + s + u) - 1) /\ 45 + s \in 1..((47 + s + u + m) - 1)
       /\ 45 + s \in 1..((a + 2) - 1)
       /\ 47 + s + u \in 1..(47 + s + u) /\ 47 + s + u \in 1..(47 + s + u + m)
       /\ 47 + s + u \in 1..(a + 2) /\ a + 1 \in 1..((a + 2) - 1)
  BY SMT, <1>25
\* The fields.
<1>28. w[44] = s
  <2>1. c2[44] = s
    <3>1. \A i \in 1..Len(p2) : c2[Len(p1) + i] = p2[i]
      BY Zenon, <1>10 DEF Behind
    <3>2. Len(p1) = 43 /\ Len(p2) = 1 /\ p2[1] = s
      BY Zenon, <1>6, <1>7
    <3>3. c2[43 + 1] = s
      BY Zenon, <1>26, <3>1, <3>2
    <3>4. QED
      BY Zenon, <1>26, <3>3
  <2>2. c3[44] = s
    BY Zenon, <1>11, <1>24, <1>26, <2>1 DEF Behind
  <2>3. c4[44] = s
    BY Zenon, <1>12, <1>24, <1>26, <2>2 DEF Behind
  <2>4. c5[44] = s
    BY Zenon, <1>13, <1>24, <1>26, <2>3 DEF Behind
  <2>5. c6[44] = s
    BY Zenon, <1>14, <1>24, <1>26, <2>4 DEF Behind
  <2>6. c7[44] = s
    BY Zenon, <1>15, <1>24, <1>26, <2>5 DEF Behind
  <2>7. c8[44] = s
    BY Zenon, <1>21, <1>24, <1>26, <2>6 DEF Behind
  <2>8. QED
    BY Zenon, <1>22, <1>24, <1>26, <2>7 DEF Behind
<1>29. Pair(w, 45 + s) = u
  <2>1. Pair(c4, 45 + s) = u
    BY ZenonT(60), <1>8, <1>12, <1>24, <1>26 DEF Behind
  <2>2. Pair(c5, 45 + s) = u
    BY Zenon, <1>13, <1>24, <1>27, <2>1 DEF Behind
  <2>3. Pair(c6, 45 + s) = u
    BY Zenon, <1>14, <1>24, <1>27, <2>2 DEF Behind
  <2>4. Pair(c7, 45 + s) = u
    BY Zenon, <1>15, <1>24, <1>27, <2>3 DEF Behind
  <2>5. Pair(c8, 45 + s) = u
    BY Zenon, <1>21, <1>24, <1>25, <1>27, <2>4 DEF Behind
  <2>6. QED
    BY Zenon, <1>22, <1>24, <1>27, <2>5 DEF Behind
<1>30. w[47 + s + u] = m
  <2>1. c6[47 + s + u] = m
    <3>1. \A i \in 1..Len(p6) : c6[Len(c5) + i] = p6[i]
      BY Zenon, <1>14 DEF Behind
    <3>2. Len(c5) = 46 + s + u /\ Len(p6) = 1 /\ p6[1] = m
      BY Zenon, <1>7, <1>24
    <3>3. c6[(46 + s + u) + 1] = m
      BY Zenon, <1>26, <3>1, <3>2
    <3>4. QED
      BY Zenon, <1>26, <3>3
  <2>2. c7[47 + s + u] = m
    BY Zenon, <1>15, <1>24, <1>27, <2>1 DEF Behind
  <2>3. c8[47 + s + u] = m
    BY Zenon, <1>21, <1>24, <1>27, <2>2 DEF Behind
  <2>4. QED
    BY Zenon, <1>22, <1>24, <1>27, <2>3 DEF Behind
<1>31. Pair(w, a + 1) = l
  <2>1. Pair(c8, a + 1) = l
    BY Zenon, <1>17, <1>19, <1>21, <1>26 DEF Behind
  <2>2. QED
    BY Zenon, <1>22, <1>24, <1>27, <2>1 DEF Behind
<1>32. \A i \in 1..(l - 1) : Pair(w, a + 2 + i) = Pair(e, i)
  BY Zenon, <1>3, <1>22, <1>24 DEF Behind
<1>33. HelloLaid(h, w, a, l)
  BY Zenon, <1>1, <1>2, <1>3, <1>16, <1>17, <1>18, <1>22, <1>24, <1>25, <1>28, <1>29, <1>30, <1>31, <1>32
     DEF HelloLaid
<1>34. QED
  BY Zenon, <1>23, <1>33

\* What is read at a position.
LEMMA AtIs ==
    ASSUME NEW b \in Seq(Bytes), NEW i \in Nat
    PROVE  /\ At(b, i) \in Bytes /\ Short(b, i) \in Nat /\ Short(b, i) < TwoTo16
           /\ i < Len(b) => At(b, i) = b[i + 1]
           /\ i + 1 < Len(b) => Short(b, i) = Pair(b, i + 1)
<1>0. PICK n \in Nat : n = Len(b)
  OBVIOUS
<1>1. 32 \in Bytes
  BY SMT DEF Bytes, Top
<1>2. ASSUME NEW j \in Nat PROVE At(b, j) \in Bytes
  <2>1. CASE j < n
    <3>1. j + 1 \in 1..Len(b)
      BY SMT, <1>0, <2>1
    <3>2. b[j + 1] \in Bytes
      BY <3>1, ItemOf
    <3>3. QED
      BY Zenon, <1>0, <2>1, <3>2 DEF At
  <2>2. CASE ~(j < n)
    BY Zenon, <1>0, <1>1, <2>2 DEF At
  <2>3. QED
    BY Zenon, <2>1, <2>2
<1>3. i + 1 \in Nat /\ (i + 1 < n => i < n)
  BY SMT
<1>4. PICK x, y : x = At(b, i) /\ y = At(b, i + 1) /\ x \in Bytes /\ y \in Bytes
  BY Zenon, <1>2, <1>3
<1>5. x \in Int /\ 0 <= x /\ x <= 255 /\ y \in Int /\ 0 <= y /\ y <= 255
  BY <1>4, ByteBounds DEF Top
<1>6. x * 256 + y \in Nat /\ x * 256 + y < TwoTo16
  BY SMT, <1>5 DEF TwoTo16
<1>7. Short(b, i) \in Nat /\ Short(b, i) < TwoTo16
  BY Zenon, <1>4, <1>6 DEF Short
<1>8. i < n => At(b, i) = b[i + 1]
  BY Zenon, <1>0 DEF At
<1>9. i + 1 < n => Short(b, i) = Pair(b, i + 1)
  BY Zenon, <1>0, <1>3 DEF Short, Pair, At
<1>10. QED
  BY Zenon, <1>0, <1>4, <1>7, <1>8, <1>9

\* One turn of the loop of get_tls_sni, with the extension at p.
SniStep(b, end, s, p) ==
    IF p >= end \/ Len(b) <= p + 9 THEN NoName
    ELSE IF Short(b, p) = 0 THEN <<p + 9, Short(b, p + 7)>>
    ELSE s[p + 4 + Short(b, p + 2)]

SniEnd(b)   == (Extensions(b) + 2 + Short(b, Extensions(b))) % TwoTo16
CutShort(b) == \/ Len(b) <= 43 \/ Len(b) <= CipherSuites(b) \/ Len(b) <= Compression(b)
               \/ Len(b) <= Extensions(b)

\* get_tls_sni goes forward, so its recursion is well defined.
LEMMA GetSniIs ==
    ASSUME NEW b \in Seq(Bytes)
    PROVE  \E s : /\ get_tls_sni(b) = IF CutShort(b) THEN NoName ELSE s[Extensions(b) + 2]
                  /\ \A p \in 0..(Len(b) + TwoTo16 + 3) : s[p] = SniStep(b, SniEnd(b), s, p)
<1>0. PICK n \in Nat : n = Len(b)
  OBVIOUS
<1>1. PICK M \in Nat : M = n + TwoTo16 + 3
  BY SMT DEF TwoTo16
<1>a. PICK end : end = SniEnd(b)
  OBVIOUS
<1>2. ASSUME NEW p \in 0..M, ~(n <= p + 9)
      PROVE  p + 4 + Short(b, p + 2) \in (p + 1)..M
  <2>1. p + 2 \in Nat
    BY SMT
  <2>2. PICK x \in Nat : x = Short(b, p + 2) /\ x < TwoTo16
    BY <2>1, AtIs
  <2>3. p + 4 + x \in (p + 1)..M
    BY SMT, <1>1, <1>2, <2>2 DEF TwoTo16
  <2>4. QED
    BY Zenon, <2>2, <2>3
<1>3. ASSUME NEW p \in 0..M, NEW f, NEW g, \A q \in (p + 1)..M : f[q] = g[q]
      PROVE  SniStep(b, end, f, p) = SniStep(b, end, g, p)
  <2>1. CASE ~(n <= p + 9)
    <3>1. f[p + 4 + Short(b, p + 2)] = g[p + 4 + Short(b, p + 2)]
      BY Zenon, <1>2, <1>3, <2>1
    <3>2. QED
      BY Zenon, <3>1 DEF SniStep
  <2>2. CASE n <= p + 9
    BY Zenon, <1>0, <2>2 DEF SniStep
  <2>3. QED
    BY Zenon, <2>1, <2>2
<1> DEFINE T == {d \in 0..M : \E f : \A p \in (M - d)..M : f[p] = SniStep(b, end, f, p)}
           Whole(f) == f = [p \in 0..M |-> SniStep(b, end, f, p)]
<1>4. 0 \in T
  <2>1. PICK f : f = [p \in 0..M |-> NoName]
    OBVIOUS
  <2>2. 0 \in 0..M /\ \A p \in (M - 0)..M : n <= p + 9 /\ p \in 0..M
    BY SMT, <1>1 DEF TwoTo16
  <2>3. \A p \in (M - 0)..M : f[p] = SniStep(b, end, f, p)
    BY Zenon, <1>0, <2>1, <2>2 DEF SniStep
  <2>4. QED
    BY Zenon, <2>2, <2>3
<1>5. ASSUME NEW d \in 0..(M - 1), d \in T PROVE d + 1 \in T
  <2>1. PICK f : \A p \in (M - d)..M : f[p] = SniStep(b, end, f, p)
    BY Zenon, <1>5
  <2>2. PICK k \in 0..M : k = M - (d + 1)
    BY SMT
  <2>3. PICK g : g = [p \in 0..M |-> IF p = k THEN SniStep(b, end, f, k) ELSE f[p]]
    OBVIOUS
  <2>4. /\ d + 1 \in 0..M
        /\ \A p \in (M - (d + 1))..M : p \in 0..M /\ (p # k => p \in (M - d)..M)
        /\ \A p \in (M - d)..M : p # k
        /\ \A q \in (k + 1)..M : q # k /\ q \in 0..M
        /\ \A p \in (M - d)..M : \A q \in (p + 1)..M : q # k /\ q \in 0..M
    BY SMT, <2>2
  <2>5. \A p \in 0..M : p # k => g[p] = f[p]
    BY Zenon, <2>3
  <2>6. ASSUME NEW p \in (M - (d + 1))..M PROVE g[p] = SniStep(b, end, g, p)
    <3>0. p \in 0..M
      BY Zenon, <2>4
    <3>1. CASE p = k
      <4>1. g[p] = SniStep(b, end, f, p)
        BY Zenon, <2>3, <3>0, <3>1
      <4>2. \A q \in (p + 1)..M : f[q] = g[q]
        BY Zenon, <2>4, <2>5, <3>1
      <4>3. QED
        BY Zenon, <1>3, <3>0, <4>1, <4>2
    <3>2. CASE p # k
      <4>1. g[p] = SniStep(b, end, f, p)
        BY Zenon, <2>1, <2>4, <2>5, <3>0, <3>2
      <4>2. \A q \in (p + 1)..M : f[q] = g[q]
        BY Zenon, <2>4, <2>5, <3>2
      <4>3. QED
        BY Zenon, <1>3, <3>0, <4>1, <4>2
    <3>3. QED
      BY Zenon, <3>1, <3>2
  <2>7. QED
    BY Zenon, <2>4, <2>6
<1>6. PICK f : \A p \in 0..M : f[p] = SniStep(b, end, f, p)
  <2>1. M \in 0..M /\ M - M = 0
    BY SMT
  <2>2. M \in T
    <3> HIDE DEF T
    <3>1. \A d \in 0..M : d \in T
      BY <1>4, <1>5, UpwardInduction
    <3>2. QED
      BY Zenon, <2>1, <3>1
  <2>3. QED
    BY Zenon, <2>1, <2>2
<1>7. PICK g : g = [p \in 0..M |-> f[p]]
  OBVIOUS
<1>8. ASSUME NEW p \in 0..M PROVE f[p] = SniStep(b, end, g, p)
  <2>1. \A q \in (p + 1)..M : q \in 0..M
    BY SMT
  <2>2. \A q \in (p + 1)..M : f[q] = g[q]
    BY Zenon, <1>7, <2>1
  <2>3. QED
    BY Zenon, <1>3, <1>6, <2>2
<1>9. Whole(g)
  BY Zenon, <1>7, <1>8
<1>10. PICK s : s = CHOOSE h : Whole(h)
  OBVIOUS
<1>11. Whole(s)
  BY Zenon, <1>9, <1>10
<1>12. get_tls_sni(b) = IF CutShort(b) THEN NoName ELSE s[Extensions(b) + 2]
  <2>1. get_tls_sni(b) = IF CutShort(b) THEN NoName
          ELSE (CHOOSE h : h = [p \in 0..(Len(b) + TwoTo16 + 3) |->
                                  SniStep(b, SniEnd(b), h, p)])[Extensions(b) + 2]
    BY Zenon DEF get_tls_sni, SniStep, SniEnd, CutShort
  <2>2. s = CHOOSE h : h = [p \in 0..(Len(b) + TwoTo16 + 3) |-> SniStep(b, SniEnd(b), h, p)]
    BY Zenon, <1>0, <1>1, <1>a, <1>10
  <2>3. QED
    BY Zenon, <2>1, <2>2
<1>13. QED
  BY Zenon, <1>0, <1>1, <1>a, <1>11, <1>12


\* b is what was read of w, r bytes.
ReadOf(w, r, b) == /\ w \in Seq(Bytes) /\ r \in Nat /\ r <= Len(w) /\ b \in Seq(Bytes) /\ Len(b) = r
                   /\ \A x \in 1..r : b[x] = w[x]

\* What a read returned is the start of what was sent.
LEMMA ReadIs ==
    ASSUME NEW w \in Seq(Bytes), NEW r \in 0..Len(w)
    PROVE  ReadOf(w, r, SubSeq(w, 1, r))
<1>1. r \in Nat /\ r <= Len(w) /\ 1 <= r + 1 /\ 1 >= 1 /\ 1 \in Nat /\ r - 1 + 1 = r
      /\ \A x \in 1..r : 1 + x - 1 = x
  BY SMT
<1>2. PICK c : c = SubSeq(w, 1, r)
  OBVIOUS
<1>3. c \in Seq(Bytes) /\ Len(c) = r - 1 + 1 /\ \A x \in 1..(r - 1 + 1) : c[x] = w[1 + x - 1]
  BY <1>1, <1>2, Cut
<1>4. ReadOf(w, r, c)
  BY Zenon, <1>1, <1>3 DEF ReadOf
<1>5. QED
  BY Zenon, <1>2, <1>4

\* A byte or a pair of bytes that was read is the one that was sent.
LEMMA ReadAt ==
    ASSUME NEW w, NEW r, NEW b, ReadOf(w, r, b), NEW i \in Nat
    PROVE  /\ At(b, i) \in Bytes /\ Short(b, i) \in Nat
           /\ i < r => At(b, i) = w[i + 1]
           /\ i + 1 < r => Short(b, i) = Pair(w, i + 1)
<1>1. b \in Seq(Bytes) /\ Len(b) = r /\ r \in Nat /\ \A x \in 1..r : b[x] = w[x]
  BY Zenon DEF ReadOf
<1>2. /\ At(b, i) \in Bytes /\ Short(b, i) \in Nat
      /\ i < r => At(b, i) = b[i + 1]
      /\ i + 1 < r => Short(b, i) = Pair(b, i + 1)
  <2>1. b \in Seq(Bytes)
    BY Zenon, <1>1
  <2>2. /\ At(b, i) \in Bytes /\ Short(b, i) \in Nat
        /\ i < Len(b) => At(b, i) = b[i + 1]
        /\ i + 1 < Len(b) => Short(b, i) = Pair(b, i + 1)
    BY <2>1, AtIs
  <2>3. QED
    BY Zenon, <1>1, <2>2
<1>3. r \in Nat
  BY Zenon, <1>1
<1>4. (i < r => i + 1 \in 1..r) /\ (i + 1 < r => i + 1 \in 1..r /\ (i + 1) + 1 \in 1..r)
  BY SMT, <1>3
<1>5. i + 1 < r => Pair(b, i + 1) = Pair(w, i + 1)
  BY Zenon, <1>1, <1>4 DEF Pair
<1>6. QED
  BY Zenon, <1>1, <1>2, <1>4, <1>5

\* A read that does not stop before the extensions: get_tls_sni finds where they start, and
\* where they end.
LEMMA ExtensionsReached ==
    ASSUME NEW h, IsHello(h), NEW w, NEW a, NEW l, HelloLaid(h, w, a, l),
           NEW r, NEW b, ReadOf(w, r, b)
    PROVE  \/ CutShort(b) /\ r <= a
           \/ ~CutShort(b) /\ Extensions(b) = a /\ r > a /\ (r > a + 1 => SniEnd(b) = a + 2 + l)
<1>0. \A i \in Nat : /\ Short(b, i) \in Nat
                     /\ i < r => At(b, i) = w[i + 1]
                     /\ i + 1 < r => Short(b, i) = Pair(w, i + 1)
  BY ReadAt
<1>1. PICK s \in Nat, u \in Nat, m \in Nat :
        s = h.sid /\ u = h.suites /\ m = h.comp /\ s < 128 /\ m < 128
  BY Zenon DEF IsHello
<1>2. /\ a \in Nat /\ l \in Nat /\ a = 47 + s + u + m /\ a + 2 + l < TwoTo16
      /\ w[44] = s /\ Pair(w, 45 + s) = u /\ w[47 + s + u] = m /\ Pair(w, a + 1) = l
  BY Zenon, <1>1 DEF HelloLaid
<1>3. r \in Nat /\ Len(b) = r
  BY Zenon DEF ReadOf
<1>4. /\ 43 \in Nat /\ 44 + s \in Nat /\ 46 + s + u \in Nat /\ 43 + 1 = 44
      /\ (44 + s) + 1 = 45 + s /\ (46 + s + u) + 1 = 47 + s + u
      /\ (44 + s) + 2 + u = 46 + s + u /\ (46 + s + u) + 1 + m = 47 + s + u + m
  BY SMT
<1>5. CASE r <= 43
  <2>1. r <= a
    BY SMT, <1>2, <1>3, <1>5
  <2>2. QED
    BY Zenon, <1>3, <1>5, <2>1 DEF CutShort
<1>6. CASE ~(r <= 43)
  <2>1. 43 < r
    BY SMT, <1>3, <1>6
  <2>2. At(b, 43) = s
    <3>1. At(b, 43) = w[43 + 1]
      BY Zenon, <1>0, <1>4, <2>1
    <3>2. QED
      BY Zenon, <1>2, <1>4, <3>1
  <2>3. CipherSuites(b) = 44 + s
    BY Zenon, <1>1, <2>2 DEF CipherSuites, FromChar
  <2>4. CASE r <= 44 + s
    <3>1. r <= a
      BY SMT, <1>2, <1>3, <2>4
    <3>2. QED
      BY Zenon, <1>3, <2>3, <2>4, <3>1 DEF CutShort
  <2>5. CASE r = 44 + s + 1
    <3>1. PICK x \in Nat : x = Short(b, 44 + s)
      BY Zenon, <1>4, <1>0
    <3>2. Compression(b) = (44 + s) + 2 + x
      BY Zenon, <2>3, <3>1 DEF Compression
    <3>3. r <= (44 + s) + 2 + x /\ r <= a
      BY SMT, <1>2, <2>5
    <3>4. QED
      BY Zenon, <1>3, <3>2, <3>3 DEF CutShort
  <2>6. CASE r > 44 + s + 1
    <3>1. (44 + s) + 1 < r /\ ~(r <= 44 + s)
      BY SMT, <1>3, <2>6
    <3>2. Short(b, 44 + s) = Pair(w, (44 + s) + 1)
      BY Zenon, <1>4, <3>1, <1>0
    <3>3. Short(b, 44 + s) = u
      BY Zenon, <1>2, <1>4, <3>2
    <3>4. Compression(b) = 46 + s + u
      BY Zenon, <1>4, <2>3, <3>3 DEF Compression
    <3>5. CASE r <= 46 + s + u
      <4>1. r <= a
        BY SMT, <1>2, <1>3, <3>5
      <4>2. QED
        BY Zenon, <1>3, <3>4, <3>5, <4>1 DEF CutShort
    <3>6. CASE ~(r <= 46 + s + u)
      <4>1. 46 + s + u < r
        BY SMT, <1>3, <3>6
      <4>2. At(b, 46 + s + u) = w[(46 + s + u) + 1]
        BY Zenon, <1>4, <4>1, <1>0
      <4>3. At(b, 46 + s + u) = m
        BY ZenonT(60), <1>2, <1>4, <4>2
      <4>4. Extensions(b) = a
        BY ZenonT(60), <1>1, <1>2, <1>4, <3>4, <4>3 DEF Extensions, FromChar
      <4>5. CASE r <= a
        BY Zenon, <1>3, <4>4, <4>5 DEF CutShort
      <4>6. CASE ~(r <= a)
        <5>1. ~CutShort(b)
          BY Zenon, <1>3, <1>6, <2>3, <3>1, <3>4, <3>6, <4>4, <4>6 DEF CutShort
        <5>2. r > a
          BY SMT, <1>2, <1>3, <4>6
        <5>3. ASSUME r > a + 1 PROVE SniEnd(b) = a + 2 + l
          <6>1. a + 1 < r
            BY SMT, <1>2, <1>3, <5>3
          <6>2. Short(b, a) = l
            BY ZenonT(60), <1>2, <6>1, <1>0
          <6>3. (a + 2 + l) % TwoTo16 = a + 2 + l
            BY SMT, <1>2 DEF TwoTo16
          <6>4. QED
            BY Zenon, <4>4, <6>2, <6>3 DEF SniEnd
        <5>4. QED
          BY Zenon, <4>4, <5>1, <5>2, <5>3
      <4>7. QED
        BY Zenon, <4>5, <4>6
    <3>7. QED
      BY Zenon, <3>5, <3>6
  <2>7. QED
    BY SMT, <1>3, <2>4, <2>5, <2>6
<1>7. QED
  BY Zenon, <1>5, <1>6

\* The server name of a hello is in the first extension of type 0.
LEMMA ServerNameIs ==
    ASSUME NEW S, NEW h, h.exts \in Seq(S), HasName(h)
    PROVE  \E f \in 1..Len(h.exts) :
              /\ h.exts[f].type = 0 /\ \A j \in 1..(f - 1) : h.exts[j].type # 0
              /\ ServerName(h) = <<Len(HelloHead(h)) + 2 + Len(ExtPart(SubSeq(h.exts, 1, f - 1))) + 9,
                                   h.exts[f].size>>
<1>1. PICK n \in Nat : n = Len(h.exts) /\ DOMAIN h.exts = 1..n
  BY SMT
<1>2. PICK D : D = {i \in 1..n : h.exts[i].type = 0}
  OBVIOUS
<1>3. D # {}
  BY Zenon, <1>1, <1>2 DEF HasName
<1>4. D \subseteq Nat
  <2>1. \A i \in 1..n : i \in Nat
    BY SMT
  <2>2. QED
    BY Zenon, <1>2, <2>1
<1>5. PICK g \in D : \A y \in D : g <= y
  BY <1>3, <1>4, LeastNat
<1>6. g \in 1..n /\ h.exts[g].type = 0
  BY Zenon, <1>2, <1>5
<1>7. \A j \in 1..(g - 1) : j \in 1..n /\ ~(g <= j)
  BY SMT, <1>6
<1>8. \A j \in 1..(g - 1) : h.exts[j].type # 0
  BY Zenon, <1>2, <1>5, <1>7
<1> DEFINE FirstName(i) == h.exts[i].type = 0 /\ \A j \in 1..(i - 1) : h.exts[j].type # 0
<1>9. PICK f : f = CHOOSE i \in 1..n : FirstName(i)
  OBVIOUS
<1>10. f \in 1..n /\ FirstName(f)
  BY Zenon, <1>6, <1>8, <1>9
<1>11. ServerName(h) = <<Len(HelloHead(h)) + 2 + Len(ExtPart(SubSeq(h.exts, 1, f - 1))) + 9,
                         h.exts[f].size>>
  BY Zenon, <1>1, <1>9 DEF ServerName
<1>12. QED
  BY Zenon, <1>1, <1>10, <1>11

\* Of a hello, or of as much as was read of it, get_tls_sni finds the server name or nothing;
\* it finds the name that was read whole.
LEMMA SniFound ==
    ASSUME NEW S, NEW h, h.exts \in Seq(S), IsHello(h), NEW read \in 0..Len(Hello(h))
    PROVE  SniLocated(h, read)
<1>1. PICK w, a, l : w = Hello(h) /\ HelloLaid(h, w, a, l)
  <2>1. \E a, l : HelloLaid(h, Hello(h), a, l)
    BY HelloIs
  <2>2. QED
    BY Zenon, <2>1
<1>2. /\ w \in Seq(Bytes) /\ a \in Nat /\ l \in Nat /\ Len(w) = a + 2 + l
      /\ a = Len(HelloHead(h)) /\ l = Len(ExtPart(h.exts)) /\ a + 2 + l < TwoTo16
      /\ \A i \in 1..(l - 1) : Pair(w, a + 2 + i) = Pair(ExtPart(h.exts), i)
  BY Zenon, <1>1 DEF HelloLaid
<1>0. PICK r \in Nat : r = read /\ ReadOf(w, r, SubSeq(w, 1, r))
  <2>1. read \in 0..Len(w)
    BY Zenon, <1>1
  <2>2. ReadOf(w, read, SubSeq(w, 1, read))
    BY <1>2, <2>1, ReadIs
  <2>3. read \in Nat
    BY Zenon, <2>2 DEF ReadOf
  <2>4. QED
    BY Zenon, <2>2, <2>3
<1>3. PICK b : r = read /\ b = SubSeq(w, 1, r) /\ ReadOf(w, r, b)
  BY Zenon, <1>0
<1>4. Len(b) = r /\ b \in Seq(Bytes) /\ r <= a + 2 + l
  BY Zenon, <1>2, <1>3 DEF ReadOf
<1>r. PICK n \in Nat : n = Len(h.exts)
  <2>1. Len(h.exts) \in Nat
    BY SMT
  <2>2. QED
    BY Zenon, <2>1
<1>5. PICK x : n = Len(h.exts) /\ x = h.exts
  BY Zenon, <1>r
<1>6. PICK off : ExtsLaid(x, off)
  <2>1. \A i \in 1..Len(h.exts) : IsExt(h.exts[i])
    BY Zenon DEF IsHello
  <2>2. \E off : ExtsLaid(h.exts, off)
    BY <2>1, ExtensionsLaid
  <2>3. QED
    BY Zenon, <1>5, <2>2
<1>7. /\ off[0] = 0 /\ \A i \in 0..n : off[i] \in Nat
      /\ \A i \in 1..n : BodyLen(x[i]) \in Nat /\ off[i] = off[i - 1] + 4 + BodyLen(x[i])
      /\ \A i \in 0..n : \A j \in i..n : off[i] <= off[j]
      /\ \A i \in 0..n : Len(ExtPart(SubSeq(x, 1, i))) = off[i]
      /\ l = off[n]
      /\ \A i \in 1..n : /\ Pair(ExtPart(x), off[i - 1] + 1) = x[i].type
                         /\ Pair(ExtPart(x), off[i - 1] + 3) = BodyLen(x[i])
                         /\ x[i].type = 0 => Pair(ExtPart(x), off[i - 1] + 8) = x[i].size
  BY Zenon, <1>2, <1>5, <1>6 DEF ExtsLaid
<1>8. \A i \in 1..n : IsExt(x[i])
  BY Zenon, <1>5 DEF IsHello
<1>9. PICK s : /\ get_tls_sni(b) = IF CutShort(b) THEN NoName ELSE s[Extensions(b) + 2]
               /\ \A p \in 0..(r + TwoTo16 + 3) : s[p] = SniStep(b, SniEnd(b), s, p)
  <2>1. b \in Seq(Bytes)
    BY Zenon, <1>4
  <2>2. \E s : /\ get_tls_sni(b) = IF CutShort(b) THEN NoName ELSE s[Extensions(b) + 2]
               /\ \A p \in 0..(Len(b) + TwoTo16 + 3) : s[p] = SniStep(b, SniEnd(b), s, p)
    BY <2>1, GetSniIs
  <2>3. QED
    BY Zenon, <1>4, <2>2
<1>10. \/ CutShort(b) /\ r <= a
       \/ ~CutShort(b) /\ Extensions(b) = a /\ r > a /\ (r > a + 1 => SniEnd(b) = a + 2 + l)
  BY <1>1, <1>3, ExtensionsReached
<1>11. PICK found : found = get_tls_sni(b)
  OBVIOUS
\* Where the walk meets the extension i + 1.
<1> DEFINE P(i) == a + 2 + off[i]
           Claim == /\ found # NoName => HasName(h) /\ found = ServerName(h)
                    /\ HasName(h) /\ ServerName(h)[1] + ServerName(h)[2] <= r => found # NoName
<1>12. \A i \in 0..n : /\ off[i] \in Nat /\ off[i] <= l /\ P(i) \in Nat /\ P(i) \in 0..(r + TwoTo16 + 3)
                       /\ a + 2 <= P(i)
  <2>1. ASSUME NEW i \in 0..n
        PROVE  /\ off[i] \in Nat /\ off[i] <= l /\ P(i) \in Nat /\ P(i) \in 0..(r + TwoTo16 + 3)
               /\ a + 2 <= P(i)
    <3>1. n \in i..n
      BY SMT
    <3>2. PICK o \in Nat : o = off[i] /\ o <= l
      BY Zenon, <1>7, <3>1
    <3>3. a \in Nat /\ l \in Nat /\ a + 2 + l < TwoTo16
      BY Zenon, <1>2
    <3>4. /\ a + 2 + o \in Nat /\ a + 2 + o \in 0..(r + TwoTo16 + 3) /\ a + 2 <= a + 2 + o
      BY SMT, <3>2, <3>3 DEF TwoTo16
    <3>5. QED
      BY Zenon, <3>2, <3>4
  <2>2. QED
    BY Zenon, <2>1
<1>13. ASSUME HasName(h)
       PROVE  \E f \in 1..n : /\ x[f].type = 0 /\ \A j \in 1..(f - 1) : x[j].type # 0
                              /\ ServerName(h) = <<P(f - 1) + 9, x[f].size>>
                              /\ P(f - 1) \in Nat /\ x[f].size \in Nat /\ x[f].size > 0
  <2>1. PICK f \in 1..Len(h.exts) :
              /\ h.exts[f].type = 0 /\ \A j \in 1..(f - 1) : h.exts[j].type # 0
              /\ ServerName(h) = <<Len(HelloHead(h)) + 2 + Len(ExtPart(SubSeq(h.exts, 1, f - 1))) + 9,
                                   h.exts[f].size>>
    BY <1>13, ServerNameIs
  <2>2. f \in 1..n /\ f - 1 \in 0..n
    BY SMT, <1>5, <2>1
  <2>3. Len(ExtPart(SubSeq(h.exts, 1, f - 1))) = off[f - 1]
    BY Zenon, <1>5, <1>7, <2>2
  <2>4. IsExt(x[f])
    BY Zenon, <1>8, <2>2
  <2>5. QED
    BY Zenon, <1>2, <1>5, <1>12, <2>1, <2>2, <2>3, <2>4 DEF IsExt
\* Nothing is found where not even the first byte of the name was read.
<1>14. ASSUME NEW K \in 0..n, \A i \in 0..(K - 1) : x[i + 1].type # 0, r <= P(K) + 9, found = NoName
       PROVE  Claim
  <2>1. SUFFICES ASSUME HasName(h), ServerName(h)[1] + ServerName(h)[2] <= r PROVE FALSE
    BY Zenon, <1>14
  <2>2. PICK f \in 1..n : /\ x[f].type = 0
                          /\ ServerName(h) = <<P(f - 1) + 9, x[f].size>>
                          /\ P(f - 1) \in Nat /\ x[f].size \in Nat /\ x[f].size > 0
    BY Zenon, <1>13, <2>1
  <2>3. ~(f <= K)
    <3>1. SUFFICES ASSUME f <= K PROVE FALSE
      OBVIOUS
    <3>2. f - 1 \in 0..(K - 1) /\ (f - 1) + 1 = f
      BY SMT, <3>1
    <3>3. x[(f - 1) + 1].type # 0
      BY Zenon, <1>14, <3>2
    <3>4. QED
      BY Zenon, <2>2, <3>2, <3>3
  <2>4. f - 1 \in K..n
    BY SMT, <2>3
  <2>5. off[K] <= off[f - 1]
    BY Zenon, <1>7, <2>4
  <2>6. PICK u \in Nat, v \in Nat, z \in Nat : u = off[K] /\ v = off[f - 1] /\ z = x[f].size
    <3>1. f - 1 \in 0..n
      BY SMT
    <3>2. QED
      BY Zenon, <1>7, <2>2, <3>1
  <2>7. a \in Nat /\ r <= a + 2 + u + 9 /\ u <= v /\ z > 0 /\ (a + 2 + v + 9) + z <= r
    <3>1. r <= a + 2 + u + 9 /\ u <= v /\ z > 0 /\ a \in Nat
      BY Zenon, <1>2, <1>14, <2>2, <2>5, <2>6
    <3>2. ServerName(h) = <<a + 2 + v + 9, z>>
      BY Zenon, <2>2, <2>6
    <3>3. ServerName(h)[1] = a + 2 + v + 9 /\ ServerName(h)[2] = z
      BY <3>2
    <3>4. (a + 2 + v + 9) + z <= r
      BY Zenon, <2>1, <3>3
    <3>5. QED
      BY Zenon, <3>1, <3>4
  <2>8. QED
    BY SMT, <2>7
<1> HIDE DEF Claim
<1>15. 0 \in 0..n /\ P(0) = a + 2 /\ (\A i \in 0..(0 - 1) : x[i + 1].type # 0)
  <2>1. 0 \in 0..n /\ a + 2 + 0 = a + 2 /\ \A i : ~(i \in 0..(0 - 1))
    BY SMT, <1>2
  <2>2. QED
    BY Zenon, <1>7, <2>1
<1>16. CASE CutShort(b)
  <2>1. found = NoName
    BY Zenon, <1>9, <1>11, <1>16
  <2>2. a \in Nat /\ r <= a
    BY Zenon, <1>2, <1>10, <1>16
  <2>3. r <= a + 2 + 9
    BY SMT, <2>2
  <2>4. Claim
    BY Zenon, <1>14, <1>15, <2>1, <2>3
  <2>5. QED
    BY Zenon, <1>1, <1>3, <1>11, <2>4 DEF SniLocated, Claim
<1>17. CASE ~CutShort(b)
  <2>1. found = s[P(0)] /\ (r > a + 1 => SniEnd(b) = a + 2 + l)
    BY Zenon, <1>9, <1>10, <1>11, <1>15, <1>17
  <2>2. CASE r <= a + 2 + 9
    <3>1. P(0) \in 0..(r + TwoTo16 + 3)
      BY Zenon, <1>12, <1>15
    <3>2. s[P(0)] = SniStep(b, SniEnd(b), s, P(0))
      BY Zenon, <1>9, <3>1
    <3>3. found = NoName
      BY Zenon, <1>4, <1>15, <2>1, <2>2, <3>2 DEF SniStep
    <3>4. Claim
      BY Zenon, <1>14, <1>15, <2>2, <3>3
    <3>5. QED
      BY Zenon, <1>1, <1>3, <1>11, <3>4 DEF SniLocated, Claim
  <2>3. CASE ~(r <= a + 2 + 9)
    <3>1. SniEnd(b) = a + 2 + l
      <4>1. r > a + 1
        BY SMT, <1>2, <2>3
      <4>2. QED
        BY Zenon, <2>1, <4>1
    <3> DEFINE Going(i) == i < n /\ x[i + 1].type # 0 /\ ~(r <= P(i) + 9)
    <3>2. PICK K \in 0..n : ~Going(K) /\ \A i \in 0..(K - 1) : Going(i)
      <4>1. PICK D : D = {i \in Nat : i <= n /\ ~Going(i)}
        OBVIOUS
      <4>2. n \in D
        <5>1. n <= n /\ ~(n < n)
          BY SMT
        <5>2. QED
          BY Zenon, <4>1, <5>1
      <4>3. D \subseteq Nat
        BY Zenon, <4>1
      <4>4. PICK K \in D : \A i \in D : K <= i
        BY <4>2, <4>3, LeastNat
      <4>5. K \in Nat /\ K <= n /\ ~Going(K)
        BY Zenon, <4>1, <4>4
      <4>6. K \in 0..n /\ \A i \in 0..(K - 1) : i \in Nat /\ i <= n /\ ~(K <= i)
        BY SMT, <4>5
      <4>7. QED
        BY Zenon, <4>1, <4>4, <4>5, <4>6
    \* The fields of an extension that is read as far as its name starts.
    <3>3. ASSUME NEW i \in 0..(n - 1), ~(r <= P(i) + 9)
          PROVE  /\ Short(b, P(i)) = x[i + 1].type /\ P(i) + 4 + Short(b, P(i) + 2) = P(i + 1)
                 /\ x[i + 1].type = 0 => Short(b, P(i) + 7) = x[i + 1].size
                 /\ ~(P(i) >= a + 2 + l)
      <4>1. PICK j \in 1..n : j = i + 1 /\ j - 1 = i /\ i \in 0..n /\ j \in 0..n
        BY SMT
      <4>2. PICK o \in Nat, g \in Nat : o = off[i] /\ g = BodyLen(x[j])
        BY Zenon, <1>7, <4>1
      <4>3. /\ off[j] = o + 4 + g /\ o + 4 + g <= l
            /\ Pair(ExtPart(x), o + 1) = x[j].type /\ Pair(ExtPart(x), o + 3) = g
            /\ x[j].type = 0 => Pair(ExtPart(x), o + 8) = x[j].size
        BY Zenon, <1>7, <1>12, <4>1, <4>2
      <4>4. x[j].type = 0 => g >= 6
        <5>1. IsExt(x[j])
          BY Zenon, <1>8
        <5>2. ASSUME x[j].type = 0 PROVE g >= 6
          <6>1. PICK z \in Nat : z = x[j].size /\ z > 0 /\ g = z + 5
            BY Zenon, <4>2, <5>1, <5>2 DEF IsExt, BodyLen
          <6>2. QED
            BY SMT, <6>1
        <5>3. QED
          BY Zenon, <5>2
      <4>5. a \in Nat /\ l \in Nat /\ ~(r <= a + 2 + o + 9)
        BY Zenon, <1>2, <3>3, <4>2
      <4>6. PICK p \in Nat : p = a + 2 + o
        BY SMT, <4>5
      <4>7. /\ p + 1 < r /\ p + 2 \in Nat /\ (p + 2) + 1 < r /\ p + 7 \in Nat /\ (p + 7) + 1 < r
            /\ o + 1 \in 1..(l - 1) /\ o + 3 \in 1..(l - 1) /\ (g >= 6 => o + 8 \in 1..(l - 1))
            /\ p + 1 = a + 2 + (o + 1) /\ (p + 2) + 1 = a + 2 + (o + 3) /\ (p + 7) + 1 = a + 2 + (o + 8)
            /\ p + 4 + g = a + 2 + (o + 4 + g) /\ ~(p >= a + 2 + l)
        BY SMT, <4>3, <4>5, <4>6
      <4>8. \A q \in Nat : q + 1 < r => Short(b, q) = Pair(w, q + 1)
        BY <1>3, ReadAt
      <4>9. /\ Short(b, p) = Pair(w, a + 2 + (o + 1)) /\ Short(b, p + 2) = Pair(w, a + 2 + (o + 3))
            /\ Short(b, p + 7) = Pair(w, a + 2 + (o + 8))
        BY Zenon, <4>7, <4>8
      <4>10. /\ Pair(w, a + 2 + (o + 1)) = x[j].type /\ Pair(w, a + 2 + (o + 3)) = g
             /\ x[j].type = 0 => Pair(w, a + 2 + (o + 8)) = x[j].size
        BY Zenon, <1>2, <1>5, <4>3, <4>4, <4>7
      <4>11. P(i) = p /\ P(i + 1) = p + 4 + g
        BY Zenon, <4>1, <4>2, <4>3, <4>6, <4>7
      <4>12. QED
        BY Zenon, <4>1, <4>7, <4>9, <4>10, <4>11
    <3>4. s[P(0)] = s[P(K)]
      <4>1. PICK T : T = {i \in 0..K : s[P(0)] = s[P(i)]}
        OBVIOUS
      <4>2. 0 \in T
        <5>1. 0 \in 0..K
          BY SMT
        <5>2. QED
          BY Zenon, <4>1, <5>1
      <4>3. ASSUME NEW i \in 0..(K - 1), i \in T PROVE i + 1 \in T
        <5>1. i + 1 \in 0..K /\ i \in 0..(n - 1) /\ i \in 0..n
          BY SMT
        <5>2. s[P(0)] = s[P(i)] /\ Going(i)
          BY Zenon, <3>2, <4>1, <4>3
        <5>3. s[P(i)] = SniStep(b, a + 2 + l, s, P(i))
          BY Zenon, <1>9, <1>12, <3>1, <5>1
        <5>4. /\ Short(b, P(i)) # 0 /\ P(i) + 4 + Short(b, P(i) + 2) = P(i + 1) /\ ~(P(i) >= a + 2 + l)
              /\ ~(r <= P(i) + 9)
          BY Zenon, <3>3, <5>1, <5>2
        <5>5. s[P(i)] = s[P(i + 1)]
          BY Zenon, <1>4, <5>3, <5>4 DEF SniStep
        <5>6. QED
          BY Zenon, <4>1, <5>1, <5>2, <5>5
      <4>4. K \in Nat /\ K \in 0..K
        BY SMT
      <4>5. \A i \in 0..K : i \in T
        BY <4>2, <4>3, <4>4, UpwardInduction
      <4>6. QED
        BY Zenon, <4>1, <4>4, <4>5
    <3>5. found = SniStep(b, a + 2 + l, s, P(K))
      BY Zenon, <1>9, <1>12, <2>1, <3>1, <3>4
    <3>6. \A i \in 0..(K - 1) : x[i + 1].type # 0
      BY Zenon, <3>2
    <3>7. ASSUME r <= P(K) + 9 PROVE Claim
      <4>1. found = NoName
        BY Zenon, <1>4, <3>5, <3>7 DEF SniStep
      <4>2. QED
        BY Zenon, <1>14, <3>6, <3>7, <4>1
    <3>8. ASSUME ~(r <= P(K) + 9) PROVE Claim
      <4>1. K # n
        <5>1. SUFFICES ASSUME K = n PROVE FALSE
          OBVIOUS
        <5>2. ~(r <= a + 2 + l + 9) /\ r <= a + 2 + l /\ a \in Nat /\ l \in Nat
          BY Zenon, <1>2, <1>4, <1>7, <3>8, <5>1
        <5>3. QED
          BY SMT, <5>2
      <4>2. K \in 0..(n - 1) /\ K + 1 \in 1..n /\ K < n /\ (K + 1) - 1 = K
        BY SMT, <4>1
      <4>3. x[K + 1].type = 0
        BY Zenon, <3>2, <3>8, <4>2
      <4>4. /\ Short(b, P(K)) = 0 /\ Short(b, P(K) + 7) = x[K + 1].size /\ ~(P(K) >= a + 2 + l)
        BY Zenon, <3>3, <3>8, <4>2, <4>3
      <4>5. found = <<P(K) + 9, x[K + 1].size>>
        BY Zenon, <1>4, <3>5, <3>8, <4>4 DEF SniStep
      <4>6. HasName(h)
        <5>1. DOMAIN h.exts = 1..n
          BY SMT, <1>5
        <5>2. QED
          BY Zenon, <1>5, <4>2, <4>3, <5>1 DEF HasName
      <4>7. PICK f \in 1..n : /\ x[f].type = 0 /\ \A j \in 1..(f - 1) : x[j].type # 0
                              /\ ServerName(h) = <<P(f - 1) + 9, x[f].size>>
        BY Zenon, <1>13, <4>6
      <4>8. f = K + 1
        <5>1. ~(f <= K)
          <6>1. SUFFICES ASSUME f <= K PROVE FALSE
            OBVIOUS
          <6>2. f - 1 \in 0..(K - 1) /\ (f - 1) + 1 = f
            BY SMT, <6>1
          <6>3. x[(f - 1) + 1].type # 0
            BY Zenon, <3>6, <6>2
          <6>4. QED
            BY Zenon, <4>7, <6>2, <6>3
        <5>2. ~(K + 1 \in 1..(f - 1))
          BY Zenon, <4>3, <4>7
        <5>3. QED
          BY SMT, <5>1, <5>2
      <4>9. found = ServerName(h)
        BY Zenon, <4>2, <4>5, <4>7, <4>8
      <4>10. found # NoName
        <5>1. P(K) + 9 # 0
          <6>1. PICK p \in Nat : p = P(K)
            BY Zenon, <1>12
          <6>2. p + 9 # 0
            BY SMT
          <6>3. QED
            BY Zenon, <6>1, <6>2
        <5>2. QED
          BY Zenon, <4>5, <5>1 DEF NoName
      <4>11. QED
        BY Zenon, <4>6, <4>9, <4>10 DEF Claim
    <3>9. Claim
      BY Zenon, <3>7, <3>8
    <3>10. QED
      BY Zenon, <1>1, <1>3, <1>11, <3>9 DEF SniLocated, Claim
  <2>4. QED
    BY Zenon, <2>2, <2>3
<1>18. QED
  BY Zenon, <1>16, <1>17

-----------------------------------------------------------------------------
(* A domain name of a message.                                             *)

\* What is written at each position in at most k labels and links, given the same for k - 1.
Layer(buf, k, rest) == [p \in 0..(Len(buf) + 64) |-> IF k = 0 THEN NotDecoded ELSE WrittenAt(buf, rest, p)]

Layered(buf, w) ==
    /\ \A p \in 0..(Len(buf) + 64) : w[0][p] = NotDecoded
    /\ \A k \in 1..(3 * Len(buf)) : \A p \in 0..(Len(buf) + 64) : w[k][p] = WrittenAt(buf, w[k - 1], p)

\* The recursion of Written is well defined.
LEMMA WrittenIs ==
    ASSUME NEW S, NEW buf \in Seq(S), NEW pos
    PROVE  \E w : Layered(buf, w) /\ Written(buf, pos) = w[3 * Len(buf)][pos]
<1>0. PICK n \in Nat : n = 3 * Len(buf)
  BY SMT
<1> DEFINE Step(f, i) == Layer(buf, i, f[i - 1])
           T == {k \in 0..n : \E f : \A i \in 0..k : f[i] = Step(f, i)}
           Whole(f) == f = [i \in 0..n |-> Step(f, i)]
<1>a. ASSUME NEW x, NEW y PROVE Layer(buf, 0, x) = Layer(buf, 0, y)
  <2>1. ASSUME NEW z PROVE Layer(buf, 0, z) = [p \in 0..(Len(buf) + 64) |-> NotDecoded]
    BY Zenon DEF Layer
  <2>2. QED
    BY Zenon, <2>1
<1>1. 0 \in T
  <2>1. PICK f : f = [i \in 0..0 |-> Layer(buf, 0, 0)]
    OBVIOUS
  <2>2. 0 \in 0..n /\ 0 \in 0..0 /\ \A i \in 0..0 : i = 0
    BY SMT
  <2>3. f[0] = Step(f, 0)
    BY Zenon, <1>a, <2>1, <2>2
  <2>4. QED
    BY Zenon, <2>2, <2>3
<1>2. ASSUME NEW k \in 0..(n - 1), k \in T PROVE k + 1 \in T
  <2>1. PICK f : \A i \in 0..k : f[i] = Step(f, i)
    BY Zenon, <1>2
  <2>2. PICK g : g = [i \in 0..(k + 1) |-> IF i = k + 1 THEN Layer(buf, k + 1, f[k]) ELSE f[i]]
    OBVIOUS
  <2>3. /\ k + 1 \in 0..n /\ k + 1 # 0 /\ k + 1 \in 0..(k + 1) /\ (k + 1) - 1 = k
        /\ \A i \in 0..(k + 1) : i # k + 1 => i \in 0..k
        /\ \A i \in 0..k : /\ i # k + 1 /\ i \in 0..(k + 1)
                           /\ i # 0 => i - 1 \in 0..k
        /\ k \in 0..k
    BY SMT
  <2>4. g[k + 1] = Layer(buf, k + 1, f[k]) /\ \A i \in 0..k : g[i] = f[i]
    BY Zenon, <2>2, <2>3
  <2>5. ASSUME NEW i \in 0..(k + 1) PROVE g[i] = Step(g, i)
    <3>1. CASE i = k + 1
      BY Zenon, <2>3, <2>4, <3>1
    <3>2. CASE i # k + 1 /\ i # 0
      BY Zenon, <2>1, <2>3, <2>4, <3>2
    <3>3. CASE i = 0
      <4>1. 0 \in 0..k
        BY SMT
      <4>2. QED
        BY Zenon, <1>a, <2>1, <2>4, <3>3, <4>1
    <3>4. QED
      BY Zenon, <3>1, <3>2, <3>3
  <2>6. QED
    BY Zenon, <2>3, <2>5
<1>3. n \in T
  <2> HIDE DEF T
  <2>1. \A i \in 0..n : i \in T
    BY <1>1, <1>2, UpwardInduction
  <2>2. QED
    BY <2>1
<1>4. PICK f : \A i \in 0..n : f[i] = Step(f, i)
  BY Zenon, <1>3
<1>5. PICK g : g = [i \in 0..n |-> f[i]]
  OBVIOUS
<1>6. \A i \in 0..n : i # 0 => i - 1 \in 0..n
  BY SMT
<1>7. ASSUME NEW i \in 0..n PROVE f[i] = Step(g, i)
  <2>1. CASE i # 0
    BY Zenon, <1>4, <1>5, <1>6, <2>1
  <2>2. CASE i = 0
    BY Zenon, <1>4, <1>a, <2>2
  <2>3. QED
    BY Zenon, <2>1, <2>2
<1>8. Whole(g)
  BY Zenon, <1>5, <1>7
<1>9. PICK w : w = CHOOSE h : Whole(h)
  OBVIOUS
<1>10. Whole(w)
  BY Zenon, <1>8, <1>9
<1>11. Written(buf, pos) = w[n][pos]
  <2>1. Written(buf, pos) =
          (CHOOSE h : h = [i \in 0..(3 * Len(buf)) |-> Layer(buf, i, h[i - 1])])[3 * Len(buf)][pos]
    BY Zenon DEF Written, Layer
  <2>2. w = CHOOSE h : h = [i \in 0..(3 * Len(buf)) |-> Layer(buf, i, h[i - 1])]
    BY Zenon, <1>0, <1>9
  <2>3. QED
    BY Zenon, <1>0, <2>1, <2>2
<1>12. 0 \in 0..n /\ \A i \in 1..n : i \in 0..n /\ i # 0
  BY SMT
<1>13. Layered(buf, w)
  <2>1. w[0] = Layer(buf, 0, w[0 - 1]) /\ \A i \in 1..n : w[i] = Layer(buf, i, w[i - 1])
    BY Zenon, <1>10, <1>12
  <2>2. \A p \in 0..(Len(buf) + 64) : w[0][p] = NotDecoded
    BY Zenon, <2>1 DEF Layer
  <2>3. \A i \in 1..n : \A p \in 0..(Len(buf) + 64) : w[i][p] = WrittenAt(buf, w[i - 1], p)
    BY ZenonT(60), <1>12, <2>1 DEF Layer
  <2>4. QED
    BY Zenon, <1>0, <2>2, <2>3 DEF Layered
<1>14. QED
  BY Zenon, <1>0, <1>11, <1>13

\* A name that was decoded, and what a decoder returns.
IsName(r)   == \E l, z, x : r = [ok |-> TRUE, labels |-> l, size |-> z, next |-> x]
IsResult(r) == r = NotDecoded \/ IsName(r)

\* A result is a name when it says so.
LEMMA ResultIs == \A r : IsResult(r) => (r.ok <=> IsName(r)) /\ (~r.ok <=> r = NotDecoded)
<1>1. ~NotDecoded.ok
  BY DEF NotDecoded
<1>2. ASSUME NEW r, IsName(r) PROVE r.ok
  BY <1>2 DEF IsName
<1>3. QED
  BY Zenon, <1>1, <1>2 DEF IsResult

\* What is in front of a name makes a name of it.
LEMMA NamesAre ==
    ASSUME NEW r, IsName(r), NEW buf, NEW p, NEW q
    PROVE  IsName(WithLabel(buf, p, q, r)) /\ IsName([r EXCEPT !.next = q]) /\ IsName(NameEnd(p))
<1>1. PICK t, l, z, x : t = TRUE /\ r = [ok |-> t, labels |-> l, size |-> z, next |-> x]
  BY Zenon DEF IsName
<1>a. PICK o : o = [ok |-> t, labels |-> l, size |-> z, next |-> x] /\ r = o
  BY Zenon, <1>1
<1>2. PICK l2, z2 : l2 = <<LabelAt(buf, p)>> \o l /\ z2 = buf[p + 1] + (IF buf[q + 1] = 0 THEN 0 ELSE 1) + z
  OBVIOUS
<1>3. WithLabel(buf, p, q, r) = [ok |-> t, labels |-> l2, size |-> z2, next |-> x]
  <2>1. o.labels = l /\ o.size = z
    BY <1>a
  <2>2. WithLabel(buf, p, q, r) = [o EXCEPT !.labels = l2, !.size = z2]
    BY Zenon, <1>a, <1>2, <2>1 DEF WithLabel
  <2>3. o = [ok |-> t, labels |-> l, size |-> z, next |-> x]
    BY Zenon, <1>a
  <2>4. [o EXCEPT !.labels = l2, !.size = z2] = [ok |-> t, labels |-> l2, size |-> z2, next |-> x]
    <3>1. PICK o2 : o2 = [o EXCEPT !.labels = l2]
      OBVIOUS
    <3>2. o2 = [ok |-> t, labels |-> l2, size |-> z, next |-> x]
      BY <2>3, <3>1
    <3>3. [o2 EXCEPT !.size = z2] = [ok |-> t, labels |-> l2, size |-> z2, next |-> x]
      BY <3>2
    <3>4. QED
      BY Zenon, <3>1, <3>3
  <2>5. QED
    BY Zenon, <2>2, <2>4
<1>4. [r EXCEPT !.next = q] = [ok |-> t, labels |-> l, size |-> z, next |-> q]
  <2>1. o = [ok |-> t, labels |-> l, size |-> z, next |-> x]
    BY Zenon, <1>a
  <2>2. [o EXCEPT !.next = q] = [ok |-> t, labels |-> l, size |-> z, next |-> q]
    BY <2>1
  <2>3. QED
    BY Zenon, <1>a, <2>2
<1>5. ASSUME NEW a, NEW b, NEW c PROVE IsName([ok |-> t, labels |-> a, size |-> b, next |-> c])
  BY Zenon, <1>1 DEF IsName
<1>6. IsName(NameEnd(p))
  BY Zenon DEF IsName, NameEnd
<1>7. IsName(WithLabel(buf, p, q, r))
  <2>1. IsName([ok |-> t, labels |-> l2, size |-> z2, next |-> x])
    BY Zenon, <1>5
  <2>2. QED
    BY Zenon, <1>3, <2>1
<1>8. IsName([r EXCEPT !.next = q])
  <2>1. PICK e : e = [r EXCEPT !.next = q]
    OBVIOUS
  <2>2. PICK u : u = [ok |-> t, labels |-> l, size |-> z, next |-> q] /\ IsName(u)
    BY Zenon, <1>5
  <2>3. e = u
    BY Zenon, <1>4, <2>1, <2>2
  <2>4. QED
    BY Zenon, <2>1, <2>2, <2>3
<1>9. QED
  BY Zenon, <1>6, <1>7, <1>8

\* There is something at p that is not the end of a name.
Moves(buf, p) == ~Stuck(buf, p) /\ buf[p + 1] # 0

\* Where one can move from, there is a byte, and where one moves to.
LEMMA MovesTo ==
    ASSUME NEW buf \in Seq(Bytes), NEW p \in 0..(Len(buf) + 64)
    PROVE  /\ ~Stuck(buf, p) => p \in 0..(Len(buf) - 1) /\ p < Len(buf) /\ buf[p + 1] \in Bytes
           /\ Moves(buf, p) /\ IsLink(buf[p + 1]) =>
                 Towards(buf, p) = LinkAt(buf, p) /\ LinkAt(buf, p) \in 0..(Len(buf) - 1) /\ p + 1 < Len(buf)
           /\ Moves(buf, p) /\ ~IsLink(buf[p + 1]) =>
                 /\ Towards(buf, p) = p + 1 + buf[p + 1] /\ p + 1 + buf[p + 1] \in (p + 1)..(Len(buf) + 64)
                 /\ ~(buf[p + 1] > MAX_LABEL_LEN)
           /\ Moves(buf, p) => Towards(buf, p) \in 0..(Len(buf) + 64)
<1>1. PICK n \in Nat : n = Len(buf)
  OBVIOUS
<1>2. ASSUME NEW i \in Nat, i < n PROVE buf[i + 1] \in Bytes
  <2>1. i + 1 \in 1..Len(buf)
    BY SMT, <1>1, <1>2
  <2>2. QED
    BY <2>1, ItemOf
<1>3. ASSUME ~Stuck(buf, p)
      PROVE  p \in 0..(n - 1) /\ p < n /\ buf[p + 1] \in Bytes
  <2>1. ~(p >= n)
    BY Zenon, <1>1, <1>3 DEF Stuck
  <2>2. p \in Nat /\ p \in 0..(n - 1) /\ p < n
    BY SMT, <1>1, <2>1
  <2>3. QED
    BY Zenon, <1>2, <2>2
<1>4. \A x \in Bytes : x \in Nat /\ x <= 255
  BY SMT, ByteBounds DEF Top
<1>5. ASSUME Moves(buf, p), IsLink(buf[p + 1])
      PROVE  Towards(buf, p) = LinkAt(buf, p) /\ LinkAt(buf, p) \in 0..(n - 1) /\ p + 1 < n
  <2>1. ~Stuck(buf, p)
    BY Zenon, <1>5 DEF Moves
  <2>2. ~(p + 1 >= n) /\ ~(LinkAt(buf, p) >= n)
    BY Zenon, <1>1, <1>5, <2>1 DEF Stuck
  <2>3. p + 1 \in Nat /\ p + 1 < n /\ (p + 1) + 1 = p + 2
    BY SMT, <2>2
  <2>4. PICK x, y : x = buf[p + 1] /\ y = buf[p + 2] /\ x \in Bytes /\ y \in Bytes
    BY Zenon, <1>2, <1>3, <2>1, <2>3
  <2>5. x \in Nat /\ y \in Nat
    BY Zenon, <1>4, <2>4
  <2>6. (x % 64) * 256 + y \in Nat
    BY SMT, <2>5
  <2>7. PICK q \in Nat : q = LinkAt(buf, p) /\ ~(q >= n)
    BY Zenon, <2>2, <2>4, <2>6 DEF LinkAt
  <2>8. q \in 0..(n - 1)
    BY SMT, <2>7
  <2>9. QED
    BY Zenon, <1>5, <2>3, <2>7, <2>8 DEF Towards
<1>6. ASSUME Moves(buf, p), ~IsLink(buf[p + 1])
      PROVE  /\ Towards(buf, p) = p + 1 + buf[p + 1] /\ p + 1 + buf[p + 1] \in (p + 1)..(n + 64)
             /\ ~(buf[p + 1] > MAX_LABEL_LEN)
  <2>1. ~Stuck(buf, p)
    BY Zenon, <1>6 DEF Moves
  <2>2. PICK x : x = buf[p + 1] /\ x \in Bytes
    BY Zenon, <1>3, <2>1
  <2>3. ~(x \div 64 \in {1, 2}) /\ x \div 64 # 3
    BY Zenon, <1>6, <2>1, <2>2 DEF Stuck, IsLink
  <2>4. x \in Nat /\ x <= 255 /\ p \in 0..(n - 1)
    BY Zenon, <1>3, <1>4, <2>1, <2>2
  <2>5. x <= 63 /\ p + 1 + x \in (p + 1)..(n + 64) /\ ~(x > 63)
    BY SMT, <2>3, <2>4
  <2>6. QED
    BY Zenon, <1>6, <2>2, <2>5 DEF Towards, MAX_LABEL_LEN
<1>7. ASSUME Moves(buf, p) PROVE Towards(buf, p) \in 0..(n + 64)
  <2>1. (\A q \in (p + 1)..(n + 64) : q \in 0..(n + 64)) /\ (\A q \in 0..(n - 1) : q \in 0..(n + 64))
    BY SMT, <1>1
  <2>2. QED
    BY Zenon, <1>5, <1>6, <1>7, <2>1
<1>8. QED
  BY Zenon, <1>1, <1>3, <1>5, <1>6, <1>7

\* The layers, by what is at a position.
Walked(buf, w) ==
    /\ \A p \in 0..(Len(buf) + 64) : ~w[0][p].ok
    /\ \A k \in 0..(3 * Len(buf)) : \A p \in 0..(Len(buf) + 64) : IsResult(w[k][p])
    /\ \A k \in 1..(3 * Len(buf)) : \A p \in 0..(Len(buf) + 64) :
         /\ Stuck(buf, p) => ~w[k][p].ok
         /\ ~Stuck(buf, p) /\ buf[p + 1] = 0 => w[k][p] = NameEnd(p) /\ w[k][p].ok
         /\ Moves(buf, p) => /\ w[k][p].ok <=> w[k - 1][Towards(buf, p)].ok
                             /\ w[k][p].ok => w[k][p] = Onward(buf, p, w[k - 1][Towards(buf, p)])

\* What the comparison takes from a position, given what it takes where that leads.
LEMMA LayersWalked ==
    ASSUME NEW buf \in Seq(Bytes), NEW w, Layered(buf, w)
    PROVE  Walked(buf, w)
<1>1. PICK n \in Nat, m \in Nat : n = Len(buf) /\ m = 3 * Len(buf)
  BY SMT
<1>2. /\ \A p \in 0..(n + 64) : w[0][p] = NotDecoded
      /\ \A k \in 1..m : \A p \in 0..(n + 64) : w[k][p] = WrittenAt(buf, w[k - 1], p)
  BY Zenon, <1>1 DEF Layered
<1>3. ASSUME NEW k \in 1..m, NEW p \in 0..(n + 64)
      PROVE  /\ Stuck(buf, p) => w[k][p] = NotDecoded
             /\ ~Stuck(buf, p) /\ buf[p + 1] = 0 => w[k][p] = NameEnd(p)
             /\ Moves(buf, p) => w[k][p] = IF w[k - 1][Towards(buf, p)].ok
                                           THEN Onward(buf, p, w[k - 1][Towards(buf, p)]) ELSE NotDecoded
  <2>1. w[k][p] = WrittenAt(buf, w[k - 1], p)
    BY Zenon, <1>2
  <2>2. QED
    BY Zenon, <2>1 DEF WrittenAt, Moves
<1>4. ASSUME NEW p \in 0..(n + 64), Moves(buf, p) PROVE Towards(buf, p) \in 0..(n + 64)
  <2>1. p \in 0..(Len(buf) + 64)
    BY Zenon, <1>1
  <2>2. Moves(buf, p) => Towards(buf, p) \in 0..(Len(buf) + 64)
    BY <2>1, MovesTo
  <2>3. QED
    BY Zenon, <1>1, <1>4, <2>2
<1>5. ASSUME NEW p, NEW r, IsName(r) PROVE IsName(Onward(buf, p, r))
  <2>1. IsName(WithLabel(buf, p, Towards(buf, p), r)) /\ IsName([r EXCEPT !.next = p + 2])
    BY <1>5, NamesAre
  <2>2. QED
    BY Zenon, <2>1 DEF Onward
<1>6. ASSUME NEW p PROVE IsName(NameEnd(p))
  BY Zenon DEF IsName, NameEnd
<1>7. PICK T : T = {k \in 0..m : \A p \in 0..(n + 64) : IsResult(w[k][p])}
  OBVIOUS
<1>8. 0 \in T
  <2>1. 0 \in 0..m
    BY SMT
  <2>2. QED
    BY Zenon, <1>2, <1>7, <2>1 DEF IsResult
<1>9. ASSUME NEW k \in 0..(m - 1), k \in T PROVE k + 1 \in T
  <2>1. k + 1 \in 0..m /\ k + 1 \in 1..m /\ (k + 1) - 1 = k
    BY SMT
  <2>2. \A p \in 0..(n + 64) : IsResult(w[k][p])
    BY Zenon, <1>7, <1>9
  <2>3. ASSUME NEW p \in 0..(n + 64) PROVE IsResult(w[k + 1][p])
    <3>1. CASE Stuck(buf, p)
      BY Zenon, <1>3, <2>1, <3>1 DEF IsResult
    <3>2. CASE ~Stuck(buf, p) /\ buf[p + 1] = 0
      BY Zenon, <1>3, <1>6, <2>1, <3>2 DEF IsResult
    <3>3. CASE Moves(buf, p)
      <4>1. PICK r : r = w[k][Towards(buf, p)] /\ IsResult(r)
        BY Zenon, <1>4, <2>2, <3>3
      <4>2. w[k + 1][p] = IF r.ok THEN Onward(buf, p, r) ELSE NotDecoded
        BY Zenon, <1>3, <2>1, <3>3, <4>1
      <4>3. QED
        BY Zenon, <1>5, <4>1, <4>2, ResultIs DEF IsResult
    <3>4. QED
      BY Zenon, <3>1, <3>2, <3>3 DEF Moves
  <2>4. QED
    BY Zenon, <1>7, <2>1, <2>3
<1>10. \A k \in 0..m : k \in T
  BY <1>8, <1>9, UpwardInduction
<1>11. \A k \in 0..m : \A p \in 0..(n + 64) : IsResult(w[k][p])
  BY Zenon, <1>7, <1>10
<1>12. IsResult(NotDecoded) /\ ~NotDecoded.ok
  BY Zenon, ResultIs DEF IsResult
<1>13. ASSUME NEW k \in 1..m, NEW p \in 0..(n + 64)
       PROVE  /\ Stuck(buf, p) => ~w[k][p].ok
              /\ ~Stuck(buf, p) /\ buf[p + 1] = 0 => w[k][p] = NameEnd(p) /\ w[k][p].ok
              /\ Moves(buf, p) => /\ w[k][p].ok <=> w[k - 1][Towards(buf, p)].ok
                                  /\ w[k][p].ok => w[k][p] = Onward(buf, p, w[k - 1][Towards(buf, p)])
  <2>1. NameEnd(p).ok
    BY Zenon, <1>6, ResultIs DEF IsResult
  <2>2. ASSUME Moves(buf, p)
        PROVE  /\ w[k][p].ok <=> w[k - 1][Towards(buf, p)].ok
               /\ w[k][p].ok => w[k][p] = Onward(buf, p, w[k - 1][Towards(buf, p)])
    <3>1. k - 1 \in 0..m
      BY SMT
    <3>2. PICK r : r = w[k - 1][Towards(buf, p)] /\ IsResult(r)
      BY Zenon, <1>4, <1>11, <2>2, <3>1
    <3>3. w[k][p] = IF r.ok THEN Onward(buf, p, r) ELSE NotDecoded
      BY Zenon, <1>3, <2>2, <3>2
    <3>4. CASE r.ok
      <4>1. IsName(Onward(buf, p, r))
        BY Zenon, <1>5, <3>2, <3>4, ResultIs
      <4>2. Onward(buf, p, r).ok
        BY Zenon, <4>1, ResultIs DEF IsResult
      <4>3. QED
        BY Zenon, <3>2, <3>3, <3>4, <4>2
    <3>5. CASE ~r.ok
      BY Zenon, <1>12, <3>2, <3>3, <3>5
    <3>6. QED
      BY Zenon, <3>4, <3>5
  <2>3. QED
    BY Zenon, <1>3, <1>12, <2>1, <2>2
<1>14. QED
  BY Zenon, <1>1, <1>2, <1>11, <1>12, <1>13 DEF Walked

\* What is written in k labels and links is written in more of them too.
LEMMA NamesStay ==
    ASSUME NEW buf \in Seq(Bytes), NEW w, Walked(buf, w)
    PROVE  \A i \in 0..(3 * Len(buf)) : \A k \in 0..i : \A p \in 0..(Len(buf) + 64) :
              w[k][p].ok => w[i][p] = w[k][p]
<1>1. PICK n \in Nat, m \in Nat : n = Len(buf) /\ m = 3 * Len(buf)
  BY SMT
<1>2. /\ \A p \in 0..(n + 64) : ~w[0][p].ok
      /\ \A k \in 1..m : \A p \in 0..(n + 64) :
         /\ Stuck(buf, p) => ~w[k][p].ok
         /\ ~Stuck(buf, p) /\ buf[p + 1] = 0 => w[k][p] = NameEnd(p) /\ w[k][p].ok
         /\ Moves(buf, p) => /\ w[k][p].ok <=> w[k - 1][Towards(buf, p)].ok
                             /\ w[k][p].ok => w[k][p] = Onward(buf, p, w[k - 1][Towards(buf, p)])
  BY Zenon, <1>1 DEF Walked
<1>3. ASSUME NEW p \in 0..(n + 64), Moves(buf, p) PROVE Towards(buf, p) \in 0..(n + 64)
  <2>1. p \in 0..(Len(buf) + 64)
    BY Zenon, <1>1
  <2>2. Moves(buf, p) => Towards(buf, p) \in 0..(Len(buf) + 64)
    BY <2>1, MovesTo
  <2>3. QED
    BY Zenon, <1>1, <1>3, <2>2
\* One more.
<1>4. PICK T : T = {k \in 0..m : k < m => \A p \in 0..(n + 64) : w[k][p].ok => w[k + 1][p] = w[k][p]}
  OBVIOUS
<1>5. 0 \in T
  <2>1. 0 \in 0..m
    BY SMT
  <2>2. QED
    BY Zenon, <1>2, <1>4, <2>1
<1>6. ASSUME NEW k \in 0..(m - 1), k \in T PROVE k + 1 \in T
  <2>1. k + 1 \in 0..m /\ k + 1 \in 1..m /\ (k + 1) - 1 = k /\ k < m
    BY SMT
  <2>2. \A p \in 0..(n + 64) : w[k][p].ok => w[k + 1][p] = w[k][p]
    BY Zenon, <1>4, <1>6, <2>1
  <2>3. ASSUME k + 1 < m, NEW p \in 0..(n + 64), w[k + 1][p].ok PROVE w[(k + 1) + 1][p] = w[k + 1][p]
    <3>1. PICK j \in 1..m : j = (k + 1) + 1 /\ j - 1 = k + 1
      BY SMT, <2>3
    <3>2. ~Stuck(buf, p)
      BY Zenon, <1>2, <2>1, <2>3
    <3>3. CASE buf[p + 1] = 0
      BY ZenonT(60), <1>2, <2>1, <3>1, <3>2, <3>3
    <3>4. CASE buf[p + 1] # 0
      <4>1. Moves(buf, p)
        BY Zenon, <3>2, <3>4 DEF Moves
      <4>2. PICK q \in 0..(n + 64) : q = Towards(buf, p)
        BY Zenon, <1>3, <4>1
      <4>3. w[k][q].ok /\ w[k + 1][p] = Onward(buf, p, w[k][q])
        BY Zenon, <1>2, <2>1, <2>3, <4>1, <4>2
      <4>4. w[k + 1][q] = w[k][q]
        BY Zenon, <2>2, <4>3
      <4>5. w[j - 1][q].ok
        BY Zenon, <3>1, <4>3, <4>4
      <4>6. w[j][p] = Onward(buf, p, w[j - 1][q])
        BY Zenon, <1>2, <4>1, <4>2, <4>5
      <4>7. QED
        BY Zenon, <3>1, <4>3, <4>4, <4>6
    <3>5. QED
      BY Zenon, <3>3, <3>4
  <2>4. QED
    BY Zenon, <1>4, <2>1, <2>3
<1>7. \A k \in 0..m : k \in T
  BY <1>5, <1>6, UpwardInduction
<1>8. \A k \in 0..(m - 1) : \A p \in 0..(n + 64) : w[k][p].ok => w[k + 1][p] = w[k][p]
  <2>1. \A k \in 0..(m - 1) : k \in 0..m /\ k < m
    BY SMT
  <2>2. QED
    BY Zenon, <1>4, <1>7, <2>1
\* Any number of them.
<1>9. PICK U : U = {i \in 0..m : \A k \in 0..i : \A p \in 0..(n + 64) : w[k][p].ok => w[i][p] = w[k][p]}
  OBVIOUS
<1>10. 0 \in U
  <2>1. 0 \in 0..m /\ \A k \in 0..0 : k = 0
    BY SMT
  <2>2. QED
    BY Zenon, <1>9, <2>1
<1>11. ASSUME NEW i \in 0..(m - 1), i \in U PROVE i + 1 \in U
  <2>1. i + 1 \in 0..m /\ \A k \in 0..(i + 1) : k = i + 1 \/ k \in 0..i
    BY SMT
  <2>2. ASSUME NEW k \in 0..(i + 1), NEW p \in 0..(n + 64), w[k][p].ok PROVE w[i + 1][p] = w[k][p]
    <3>1. CASE k = i + 1
      BY Zenon, <3>1
    <3>2. CASE k \in 0..i
      <4>1. w[i][p] = w[k][p]
        BY Zenon, <1>9, <1>11, <2>2, <3>2
      <4>2. QED
        BY Zenon, <1>8, <2>2, <4>1
    <3>3. QED
      BY Zenon, <2>1, <3>1, <3>2
  <2>3. QED
    BY Zenon, <1>9, <2>1, <2>2
<1>12. \A i \in 0..m : i \in U
  BY <1>10, <1>11, UpwardInduction
<1>13. QED
  BY Zenon, <1>1, <1>9, <1>12

\* A name takes k labels and links, and not fewer.
Needs(w, k, p) == w[k][p].ok /\ ~w[k - 1][p].ok

\* From where a name takes k + 1 of them one moves to where it takes k.
LEMMA NeedsLess ==
    ASSUME NEW buf \in Seq(Bytes), NEW w, Walked(buf, w),
           NEW k \in 1..(3 * Len(buf) - 1), NEW p \in 0..(Len(buf) + 64), Needs(w, k + 1, p)
    PROVE  Moves(buf, p) /\ Towards(buf, p) \in 0..(Len(buf) + 64) /\ Needs(w, k, Towards(buf, p))
<1>1. PICK n \in Nat, m \in Nat : n = Len(buf) /\ m = 3 * Len(buf)
  BY SMT
<1>2. \A j \in 1..m : \A r \in 0..(n + 64) :
         /\ Stuck(buf, r) => ~w[j][r].ok
         /\ ~Stuck(buf, r) /\ buf[r + 1] = 0 => w[j][r].ok
         /\ Moves(buf, r) => (w[j][r].ok <=> w[j - 1][Towards(buf, r)].ok)
  BY Zenon, <1>1 DEF Walked
<1>3. k \in 1..m /\ k + 1 \in 1..m /\ (k + 1) - 1 = k
  BY SMT, <1>1
<1>4. w[k + 1][p].ok /\ ~w[k][p].ok /\ p \in 0..(n + 64)
  BY Zenon, <1>1, <1>3 DEF Needs
<1>5. Moves(buf, p)
  BY Zenon, <1>2, <1>3, <1>4 DEF Moves
<1>6. Towards(buf, p) \in 0..(Len(buf) + 64)
  BY <1>5, MovesTo
<1>7. w[k][Towards(buf, p)].ok /\ ~w[k - 1][Towards(buf, p)].ok
  BY Zenon, <1>2, <1>3, <1>4, <1>5
<1>8. QED
  BY Zenon, <1>5, <1>6, <1>7 DEF Needs

\* A name takes at most one label or link for each position of the message: one that took
\* more would come to a position twice, and so never to its end.
LEMMA NamesAreShort ==
    ASSUME NEW buf \in Seq(Bytes), NEW w, Walked(buf, w),
           NEW k \in 0..(3 * Len(buf)), NEW p \in 0..(Len(buf) + 64), w[k][p].ok
    PROVE  \E j \in 0..Len(buf) : Needs(w, j, p) /\ w[k][p] = w[j][p] /\ j \in 1..k
<1>1. PICK n \in Nat, m \in Nat : n = Len(buf) /\ m = 3 * Len(buf)
  BY SMT
<1>2. \A i \in 0..m : \A j \in 0..i : \A q \in 0..(n + 64) : w[j][q].ok => w[i][q] = w[j][q]
  <2>1. \A i \in 0..(3 * Len(buf)) : \A j \in 0..i : \A q \in 0..(Len(buf) + 64) :
              w[j][q].ok => w[i][q] = w[j][q]
    BY NamesStay
  <2>2. QED
    BY Zenon, <1>1, <2>1
<1>3. PICK K \in 1..k : Needs(w, K, p)
  <2>1. PICK D : D = {j \in Nat : j <= k /\ w[j][p].ok}
    OBVIOUS
  <2>2. k \in D
    <3>1. k \in Nat /\ k <= k
      BY SMT, <1>1
    <3>2. QED
      BY Zenon, <2>1, <3>1
  <2>3. D \subseteq Nat
    BY Zenon, <2>1
  <2>4. PICK K \in D : \A j \in D : K <= j
    BY <2>2, <2>3, LeastNat
  <2>5. K \in Nat /\ K <= k /\ w[K][p].ok
    BY Zenon, <2>1, <2>4
  <2>6. K # 0
    BY Zenon, <2>5 DEF Walked
  <2>7. K \in 1..k /\ K - 1 \in Nat /\ K - 1 <= k /\ ~(K <= K - 1)
    BY SMT, <1>1, <2>5, <2>6
  <2>8. ~w[K - 1][p].ok
    BY Zenon, <2>1, <2>4, <2>7
  <2>9. QED
    BY Zenon, <2>5, <2>7, <2>8 DEF Needs
<1>4. K \in Nat /\ K >= 1 /\ K <= m /\ K \in 0..k /\ k \in 0..m /\ p \in 0..(n + 64)
  BY SMT, <1>1
<1>5. w[k][p] = w[K][p]
  BY Zenon, <1>2, <1>3, <1>4 DEF Needs
\* Every smaller number is that of some position.
<1>6. PICK T : T = {i \in 0..(K - 1) : \E q \in 0..(n + 64) : Needs(w, K - i, q)}
  OBVIOUS
<1>7. 0 \in T
  <2>1. 0 \in 0..(K - 1) /\ K - 0 = K
    BY SMT, <1>4
  <2>2. QED
    BY Zenon, <1>3, <1>4, <1>6, <2>1
<1>8. ASSUME NEW i \in 0..(K - 1 - 1), i \in T PROVE i + 1 \in T
  <2>1. PICK q \in 0..(n + 64) : Needs(w, K - i, q)
    BY Zenon, <1>6, <1>8
  <2>2. PICK j : j = K - (i + 1) /\ j + 1 = K - i /\ j \in 1..(m - 1) /\ i + 1 \in 0..(K - 1)
    BY SMT, <1>4
  <2>3. j \in 1..(3 * Len(buf) - 1) /\ q \in 0..(Len(buf) + 64) /\ Needs(w, j + 1, q)
    BY Zenon, <1>1, <2>1, <2>2
  <2>4. Towards(buf, q) \in 0..(Len(buf) + 64) /\ Needs(w, j, Towards(buf, q))
    BY <2>3, NeedsLess
  <2>5. QED
    BY Zenon, <1>1, <1>6, <2>2, <2>4
<1>9. \A i \in 0..(K - 1) : i \in T
  <2>1. K - 1 \in Nat
    BY SMT, <1>4
  <2>2. QED
    BY <1>7, <1>8, <2>1, UpwardInduction
<1>10. ASSUME NEW j \in 1..K PROVE \E q \in 0..(n - 1) : Needs(w, j, q)
  <2>1. K - j \in 0..(K - 1) /\ K - (K - j) = j /\ j \in 1..m
    BY SMT, <1>4
  <2>2. PICK q \in 0..(n + 64) : Needs(w, j, q)
    BY Zenon, <1>6, <1>9, <2>1
  <2>3. ~Stuck(buf, q)
    BY Zenon, <1>1, <2>1, <2>2 DEF Walked, Needs
  <2>4. q \in 0..(Len(buf) + 64)
    BY Zenon, <1>1
  <2>5. q \in 0..(Len(buf) - 1)
    BY <2>3, <2>4, MovesTo
  <2>6. QED
    BY Zenon, <1>1, <2>2, <2>5
<1>11. ASSUME NEW i \in 1..K, NEW j \in 1..K, i < j, NEW q \in 0..(n - 1), Needs(w, i, q), Needs(w, j, q)
       PROVE  FALSE
  <2>1. j - 1 \in 0..m /\ i \in 0..(j - 1) /\ q \in 0..(n + 64)
    BY SMT, <1>4, <1>11
  <2>2. w[i][q].ok /\ ~w[j - 1][q].ok
    BY Zenon, <1>11 DEF Needs
  <2>3. w[j - 1][q] = w[i][q]
    BY Zenon, <1>2, <2>1, <2>2
  <2>4. QED
    BY Zenon, <2>2, <2>3
\* So there are no more numbers than positions.
<1>12. K <= n
  <2>1. SUFFICES ASSUME ~(K <= n) PROVE FALSE
    OBVIOUS
  <2>2. PICK f : f = [j \in 1..K |-> CHOOSE q \in 0..(n - 1) : Needs(w, j, q)]
    OBVIOUS
  <2>3. \A j \in 1..K : f[j] \in 0..(n - 1) /\ Needs(w, j, f[j])
    BY Zenon, <1>10, <2>2
  <2>4. f \in [1..K -> 0..(n - 1)]
    BY Zenon, <2>2, <2>3
  <2>5. IsFiniteSet(1..K) /\ Cardinality(1..K) = K
    <3>1. 1 \in Int /\ K \in Int /\ ~(1 > K) /\ K - 1 + 1 = K
      BY SMT, <1>4
    <3>2. IsFiniteSet(1..K) /\ Cardinality(1..K) = IF 1 > K THEN 0 ELSE K - 1 + 1
      BY <3>1, FS_Interval
    <3>3. QED
      BY Zenon, <3>1, <3>2
  <2>6. IsFiniteSet(0..(n - 1)) /\ Cardinality(0..(n - 1)) = n
    <3>1. 0 \in Int /\ n - 1 \in Int /\ (0 > n - 1 => n = 0) /\ (n - 1) - 0 + 1 = n
      BY SMT
    <3>2. IsFiniteSet(0..(n - 1)) /\ Cardinality(0..(n - 1)) = IF 0 > n - 1 THEN 0 ELSE (n - 1) - 0 + 1
      BY <3>1, FS_Interval
    <3>3. QED
      BY Zenon, <3>1, <3>2
  <2>7. Cardinality(0..(n - 1)) < Cardinality(1..K)
    <3>1. n < K
      BY SMT, <1>4, <2>1
    <3>2. QED
      BY Zenon, <2>5, <2>6, <3>1
  <2>8. PICK i \in 1..K, j \in 1..K : i # j /\ f[i] = f[j]
    <3>1. IsFiniteSet(1..K) /\ IsFiniteSet(0..(n - 1))
      BY Zenon, <2>5, <2>6
    <3>2. QED
      BY <2>4, <2>7, <3>1, FS_PigeonHole
  <2>9. i < j \/ j < i
    BY SMT, <1>4, <2>8
  <2>10. QED
    BY Zenon, <1>11, <2>3, <2>8, <2>9
<1>13. K \in 0..n
  BY SMT, <1>4, <1>12
<1>14. QED
  BY Zenon, <1>1, <1>3, <1>5, <1>13


\* The places a call of getDnsDomainName is at: a position, and what it knows of links.
CallStates(n) == (0..(n + 64)) \X SUBSET (0..n)

\* A rank of the places that falls when a label is passed and when a new link is followed.
Falls(n, R, M) ==
    /\ \A x \in CallStates(n) : R[x] \in Nat /\ R[x] < M
    /\ \A seen \in SUBSET (0..n) : \A p \in 0..(n + 64) :
         /\ \A q \in (p + 1)..(n + 64) : R[<<q, seen>>] < R[<<p, seen>>]
         /\ \A q \in 0..n : q \notin seen => R[<<q, seen \cup {q}>>] < R[<<p, seen>>]

\* First the links that were not followed count, then the bytes that are left.
LEMMA RankFalls == ASSUME NEW n \in Nat PROVE \E R : \E M \in Nat : Falls(n, R, M)
<1>1. IsFiniteSet(0..n) /\ Cardinality(0..n) = n + 1
  <2>1. 0 \in Int /\ n \in Int /\ ~(0 > n) /\ n - 0 + 1 = n + 1
    BY SMT
  <2>2. IsFiniteSet(0..n) /\ Cardinality(0..n) = IF 0 > n THEN 0 ELSE n - 0 + 1
    BY <2>1, FS_Interval
  <2>3. QED
    BY Zenon, <2>1, <2>2
<1>2. PICK c : c = [s \in SUBSET (0..n) |-> Cardinality((0..n) \ s)]
  OBVIOUS
<1>3. ASSUME NEW s \in SUBSET (0..n) PROVE c[s] \in Nat /\ c[s] <= n + 1 /\ IsFiniteSet((0..n) \ s)
  <2>1. (0..n) \ s \in SUBSET (0..n)
    BY Zenon
  <2>2. IsFiniteSet((0..n) \ s) /\ Cardinality((0..n) \ s) <= Cardinality(0..n)
    BY <1>1, <2>1, FS_Subset
  <2>3. Cardinality((0..n) \ s) \in Nat
    BY <2>2, FS_CardinalityType
  <2>4. QED
    BY Zenon, <1>1, <1>2, <2>2, <2>3
<1>4. ASSUME NEW s \in SUBSET (0..n), NEW q \in 0..n, q \notin s PROVE c[s \cup {q}] = c[s] - 1
  <2>1. (0..n) \ (s \cup {q}) = ((0..n) \ s) \ {q} /\ q \in (0..n) \ s /\ s \cup {q} \in SUBSET (0..n)
    BY Zenon, <1>4
  <2>2. IsFiniteSet((0..n) \ s)
    BY Zenon, <1>3
  <2>3. PICK d : d = (0..n) \ s
    OBVIOUS
  <2>4. Cardinality(d \ {q}) = Cardinality(d) - 1
    <3>1. Cardinality(d \ {q}) = IF q \in d THEN Cardinality(d) - 1 ELSE Cardinality(d)
      BY <2>2, <2>3, FS_RemoveElement
    <3>2. QED
      BY Zenon, <2>1, <2>3, <3>1
  <2>5. QED
    BY Zenon, <1>2, <2>1, <2>3, <2>4
<1>5. PICK v \in Nat : v = n + 65
  BY SMT
<1>6. PICK R : R = [x \in CallStates(n) |-> c[x[2]] * v + (n + 64 - x[1])]
  OBVIOUS
<1>7. ASSUME NEW p \in 0..(n + 64), NEW s \in SUBSET (0..n)
      PROVE  R[<<p, s>>] = c[s] * v + (n + 64 - p) /\ <<p, s>> \in CallStates(n)
  BY Zenon, <1>6 DEF CallStates
<1>8. PICK M \in Nat : M = (n + 2) * v
  BY SMT
<1>9. ASSUME NEW p \in 0..(n + 64), NEW s \in SUBSET (0..n)
      PROVE  R[<<p, s>>] \in Nat /\ R[<<p, s>>] < M
  <2>1. PICK e \in Nat : e = c[s] /\ e <= n + 1
    BY Zenon, <1>3
  <2>2. PICK u \in Nat : u = n + 64 - p /\ u < v
    BY SMT, <1>5
  <2>3. PICK f \in Nat : n + 1 = e + f
    <3>1. n + 1 - e \in Nat /\ n + 1 = e + (n + 1 - e)
      BY SMT, <2>1
    <3>2. QED
      BY Zenon, <3>1
  <2>4. PICK a \in Nat, b \in Nat : a = e * v /\ b = f * v
    BY SMT
  <2>5. (n + 2) * v = a + b + v
    <3>1. n + 2 = e + f + 1
      BY SMT, <2>3
    <3>2. (e + f + 1) * v = e * v + f * v + v
      BY SMT
    <3>3. QED
      BY Zenon, <2>4, <3>1, <3>2
  <2>6. a + u \in Nat /\ a + u < a + b + v
    BY SMT, <2>2
  <2>7. QED
    BY Zenon, <1>7, <1>8, <2>1, <2>2, <2>4, <2>5, <2>6
<1>10. ASSUME NEW p \in 0..(n + 64), NEW s \in SUBSET (0..n), NEW q \in (p + 1)..(n + 64)
       PROVE  R[<<q, s>>] < R[<<p, s>>]
  <2>1. PICK e \in Nat : e = c[s]
    BY Zenon, <1>3
  <2>2. PICK a \in Nat : a = e * v
    BY SMT
  <2>3. q \in 0..(n + 64) /\ a + (n + 64 - q) < a + (n + 64 - p)
    BY SMT
  <2>4. QED
    BY Zenon, <1>7, <2>1, <2>2, <2>3
<1>11. ASSUME NEW p \in 0..(n + 64), NEW s \in SUBSET (0..n), NEW q \in 0..n, q \notin s
       PROVE  R[<<q, s \cup {q}>>] < R[<<p, s>>]
  <2>1. s \cup {q} \in SUBSET (0..n) /\ q \in 0..(n + 64)
    <3>1. q \in 0..(n + 64)
      BY SMT
    <3>2. QED
      BY Zenon, <3>1
  <2>2. PICK e \in Nat, f \in Nat : e = c[s] /\ f = c[s \cup {q}] /\ f = e - 1
    BY Zenon, <1>3, <1>4, <1>11, <2>1
  <2>3. PICK a \in Nat, b \in Nat : a = e * v /\ b = f * v
    BY SMT
  <2>4. a = b + v
    <3>1. e = f + 1
      BY SMT, <2>2
    <3>2. (f + 1) * v = f * v + v
      BY SMT
    <3>3. QED
      BY Zenon, <2>3, <3>1, <3>2
  <2>5. b + (n + 64 - q) < a + (n + 64 - p)
    BY SMT, <1>5, <2>4
  <2>6. QED
    BY ZenonT(60), <1>7, <2>1, <2>2, <2>3, <2>5
<1>12. ASSUME NEW x \in CallStates(n) PROVE R[x] \in Nat /\ R[x] < M
  <2>1. \E p \in 0..(n + 64) : \E s \in SUBSET (0..n) : x = <<p, s>>
    BY DEF CallStates
  <2>2. QED
    BY Zenon, <1>9, <2>1
<1>13. QED
  BY Zenon, <1>10, <1>11, <1>12 DEF Falls

\* What is read at a position that is in the message.
LEMMA CodeAt ==
    ASSUME NEW buf \in Seq(Bytes), NEW p \in Nat, p < Len(buf)
    PROVE  buf[p + 1] \in Nat /\ (p + 1 < Len(buf) => LinkAt(buf, p) \in Nat)
<1>1. PICK n \in Nat : n = Len(buf) /\ p < n
  OBVIOUS
<1>2. ASSUME NEW i \in 1..n PROVE buf[i] \in Nat
  <2>1. i \in 1..Len(buf)
    BY Zenon, <1>1
  <2>2. buf[i] \in Bytes
    BY <2>1, ItemOf
  <2>3. QED
    BY Zenon, <2>2, BytesAreNat
<1>3. p + 1 \in 1..n /\ (p + 1 < n => p + 2 \in 1..n)
  BY SMT, <1>1
<1>4. \A x \in Nat, y \in Nat : (x % 64) * 256 + y \in Nat
  BY SMT
<1>5. QED
  BY Zenon, <1>1, <1>2, <1>3, <1>4 DEF LinkAt

\* What a call reads depends only on calls of a lower rank.
LEMMA ReadsBelow ==
    ASSUME NEW buf \in Seq(Bytes), NEW R, NEW M, Falls(Len(buf), R, M),
           NEW p \in 0..(Len(buf) + 64), NEW seen \in SUBSET (0..Len(buf)), NEW f, NEW g,
           \A y \in CallStates(Len(buf)) : R[y] < R[<<p, seen>>] => f[y] = g[y]
    PROVE  ReadName(buf, f, p, seen) = ReadName(buf, g, p, seen)
<1>1. PICK n \in Nat : n = Len(buf)
  OBVIOUS
<1>2. p \in 0..(n + 64) /\ seen \in SUBSET (0..n)
  BY Zenon, <1>1
<1>3. /\ \A q \in (p + 1)..(n + 64) : R[<<q, seen>>] < R[<<p, seen>>]
      /\ \A q \in 0..n : q \notin seen => R[<<q, seen \cup {q}>>] < R[<<p, seen>>]
  BY Zenon, <1>1, <1>2 DEF Falls
<1>4. \A q \in 0..(n + 64) : \A s \in SUBSET (0..n) :
         R[<<q, s>>] < R[<<p, seen>>] => f[<<q, s>>] = g[<<q, s>>]
  BY Zenon, <1>1 DEF CallStates
<1>5. CASE p >= n
  <2>1. ~(p < n)
    BY SMT, <1>2, <1>5
  <2>2. QED
    BY Zenon, <1>1, <1>5, <2>1 DEF ReadName
<1>6. CASE ~(p >= n)
  <2>1. p \in Nat /\ p < n
    BY SMT, <1>2, <1>6
  <2>2. buf[p + 1] \in Nat /\ (p + 1 < n => LinkAt(buf, p) \in Nat)
    <3>1. p \in Nat /\ p < Len(buf)
      BY Zenon, <1>1, <2>1
    <3>2. buf[p + 1] \in Nat /\ (p + 1 < Len(buf) => LinkAt(buf, p) \in Nat)
      BY <3>1, CodeAt
    <3>3. QED
      BY Zenon, <1>1, <3>2
  <2>3. CASE buf[p + 1] = 0
    <3>1. ReadName(buf, f, p, seen) = NameEnd(p) /\ ReadName(buf, g, p, seen) = NameEnd(p)
      <4>1. ~IsLink(buf[p + 1])
        <5>1. 0 \div 64 # 3
          BY SMT
        <5>2. QED
          BY Zenon, <2>3, <5>1 DEF IsLink
      <4>2. QED
        BY Zenon, <1>1, <1>6, <2>1, <2>3, <4>1 DEF ReadName
    <3>2. QED
      BY Zenon, <3>1
  <2>4. CASE buf[p + 1] # 0 /\ IsLink(buf[p + 1])
    <3>1. PICK q : q = LinkAt(buf, p)
      OBVIOUS
    <3>2. CASE p + 1 >= n \/ q >= n \/ q \in seen \/ p + 2 >= n
      BY Zenon, <1>1, <1>6, <2>1, <2>4, <3>1, <3>2 DEF ReadName
    <3>3. CASE ~(p + 1 >= n \/ q >= n \/ q \in seen \/ p + 2 >= n)
      <4>1. p + 1 < n
        BY SMT, <2>1, <3>3
      <4>2. q \in Nat
        BY Zenon, <2>2, <3>1, <4>1
      <4>3. q \in 0..n /\ q \in 0..(n + 64)
        BY SMT, <3>3, <4>2
      <4>4. seen \cup {q} \in SUBSET (0..n)
        BY Zenon, <1>2, <4>3
      <4>5. f[<<q, seen \cup {q}>>] = g[<<q, seen \cup {q}>>]
        BY Zenon, <1>3, <1>4, <3>3, <4>3, <4>4
      <4>6. QED
        BY Zenon, <1>1, <1>6, <2>1, <2>4, <3>1, <4>5 DEF ReadName
    <3>4. QED
      BY Zenon, <3>2, <3>3
  <2>5. CASE buf[p + 1] # 0 /\ ~IsLink(buf[p + 1])
    <3>1. PICK q \in Nat : q = p + 1 + buf[p + 1]
      BY SMT, <2>1, <2>2
    <3>2. CASE q > n
      BY Zenon, <1>1, <1>6, <2>5, <3>1, <3>2 DEF ReadName
    <3>3. CASE ~(q > n)
      <4>1. q \in (p + 1)..(n + 64) /\ q \in 0..(n + 64)
        BY SMT, <2>1, <2>2, <3>1, <3>3
      <4>2. f[<<q, seen>>] = g[<<q, seen>>]
        BY Zenon, <1>2, <1>3, <1>4, <4>1
      <4>3. QED
        BY Zenon, <1>1, <1>6, <2>5, <3>1, <4>2 DEF ReadName
    <3>4. QED
      BY Zenon, <3>2, <3>3
  <2>6. QED
    BY Zenon, <2>3, <2>4, <2>5
<1>7. QED
  BY Zenon, <1>5, <1>6

\* The recursion of getDnsDomainName is well defined: it comes to an end.
LEMMA NameReadIs ==
    ASSUME NEW buf \in Seq(Bytes), NEW pos
    PROVE  \E d : /\ getDnsDomainName(buf, pos) =
                        IF d[<<pos, {pos}>>].size <= MAX_DOMAIN_LEN THEN d[<<pos, {pos}>>] ELSE NotDecoded
                  /\ \A p \in 0..(Len(buf) + 64) : \A seen \in SUBSET (0..Len(buf)) :
                        d[<<p, seen>>] = ReadName(buf, d, p, seen)
<1>0. PICK n \in Nat : n = Len(buf)
  OBVIOUS
<1>1. PICK R, M : M \in Nat /\ Falls(n, R, M)
  <2>1. \E R : \E M \in Nat : Falls(n, R, M)
    BY RankFalls
  <2>2. QED
    BY Zenon, <2>1
<1> DEFINE X == CallStates(n)
           Step(f, x) == ReadName(buf, f, x[1], x[2])
<1>2. \A x \in X : R[x] \in Nat /\ R[x] < M
  BY Zenon, <1>1 DEF Falls
<1>3. ASSUME NEW x \in X, NEW f, NEW g, \A y \in X : R[y] < R[x] => f[y] = g[y]
      PROVE  Step(f, x) = Step(g, x)
  <2>1. \E p \in 0..(n + 64) : \E s \in SUBSET (0..n) : x = <<p, s>>
    BY DEF CallStates
  <2>2. PICK p \in 0..(Len(buf) + 64), s \in SUBSET (0..Len(buf)) : x = <<p, s>>
    BY Zenon, <1>0, <2>1
  <2>3. Falls(Len(buf), R, M) /\ \A y \in CallStates(Len(buf)) : R[y] < R[<<p, s>>] => f[y] = g[y]
    BY Zenon, <1>0, <1>1, <1>3, <2>2
  <2>4. ReadName(buf, f, p, s) = ReadName(buf, g, p, s)
    BY <2>3, ReadsBelow
  <2>5. x[1] = p /\ x[2] = s
    BY <2>2
  <2>6. QED
    BY Zenon, <2>4, <2>5
<1> HIDE DEF X, Step
<1> DEFINE T == {r \in 0..M : \E f : \A x \in X : R[x] < r => f[x] = Step(f, x)}
           Whole(f) == f = [x \in X |-> Step(f, x)]
<1>4. 0 \in T
  <2>1. 0 \in 0..M
    BY SMT, <1>1
  <2>2. ASSUME NEW x \in X PROVE ~(R[x] < 0)
    <3>1. PICK a \in Nat : a = R[x]
      BY Zenon, <1>2
    <3>2. ~(a < 0)
      BY SMT
    <3>3. QED
      BY Zenon, <3>1, <3>2
  <2>3. QED
    BY Zenon, <2>1, <2>2
<1>5. ASSUME NEW r \in 0..(M - 1), r \in T PROVE r + 1 \in T
  <2>1. PICK f : \A x \in X : R[x] < r => f[x] = Step(f, x)
    BY Zenon, <1>5
  <2>2. PICK g : g = [x \in X |-> IF R[x] < r THEN f[x] ELSE Step(f, x)]
    OBVIOUS
  <2>3. r + 1 \in 0..M /\ r \in Nat
    BY SMT, <1>1
  <2>4. \A x \in X : g[x] = Step(f, x)
    BY Zenon, <2>1, <2>2
  <2>5. \A x \in X : R[x] < r => g[x] = f[x]
    BY Zenon, <2>2
  <2>6. ASSUME NEW x \in X, R[x] < r + 1 PROVE g[x] = Step(g, x)
    <3>1. ASSUME NEW y \in X, R[y] < R[x] PROVE R[y] < r
      <4>1. PICK a \in Nat, b \in Nat : a = R[x] /\ b = R[y]
        BY Zenon, <1>2
      <4>2. a < r + 1 /\ b < a
        BY Zenon, <2>6, <3>1, <4>1
      <4>3. b < r
        BY SMT, <2>3, <4>2
      <4>4. QED
        BY Zenon, <4>1, <4>3
    <3>2. \A y \in X : R[y] < R[x] => f[y] = g[y]
      BY Zenon, <2>5, <3>1
    <3>3. Step(f, x) = Step(g, x)
      BY Zenon, <1>3, <3>2
    <3>4. QED
      BY Zenon, <2>4, <3>3
  <2>7. QED
    BY Zenon, <2>3, <2>6
<1>6. PICK f : \A x \in X : f[x] = Step(f, x)
  <2>1. M \in 0..M
    BY SMT, <1>1
  <2>2. M \in T
    <3> HIDE DEF T
    <3>1. \A r \in 0..M : r \in T
      BY <1>1, <1>4, <1>5, UpwardInduction
    <3>2. QED
      BY Zenon, <2>1, <3>1
  <2>3. QED
    BY Zenon, <1>2, <2>2
<1>7. PICK g : g = [x \in X |-> f[x]]
  OBVIOUS
<1>8. ASSUME NEW x \in X PROVE f[x] = Step(g, x)
  <2>1. \A y \in X : R[y] < R[x] => f[y] = g[y]
    BY Zenon, <1>7
  <2>2. QED
    BY Zenon, <1>3, <1>6, <2>1
<1>9. Whole(g)
  BY Zenon, <1>7, <1>8
<1>10. PICK d : d = CHOOSE h : Whole(h)
  OBVIOUS
<1>11. Whole(d)
  BY Zenon, <1>9, <1>10
<1>12. getDnsDomainName(buf, pos) =
          IF d[<<pos, {pos}>>].size <= MAX_DOMAIN_LEN THEN d[<<pos, {pos}>>] ELSE NotDecoded
  <2> DEFINE Calls(h) == [x \in (0..(Len(buf) + 64)) \X SUBSET (0..Len(buf))
                             |-> ReadName(buf, h, x[1], x[2])]
  <2>1. PICK c : c = CHOOSE h : h = Calls(h)
    OBVIOUS
  <2>2. getDnsDomainName(buf, pos) =
          IF c[<<pos, {pos}>>].size <= MAX_DOMAIN_LEN THEN c[<<pos, {pos}>>] ELSE NotDecoded
    <3>1. getDnsDomainName(buf, pos) =
            IF (CHOOSE h : h = Calls(h))[<<pos, {pos}>>].size <= MAX_DOMAIN_LEN
            THEN (CHOOSE h : h = Calls(h))[<<pos, {pos}>>]
            ELSE NotDecoded
      BY Zenon DEF getDnsDomainName
    <3>2. QED
      BY Zenon, <2>1, <3>1
  <2>3. d = c
    BY Zenon, <1>0, <1>10, <2>1 DEF X, Step, CallStates
  <2>4. QED
    BY Zenon, <2>2, <2>3
<1>13. ASSUME NEW p \in 0..(n + 64), NEW s \in SUBSET (0..n) PROVE d[<<p, s>>] = ReadName(buf, d, p, s)
  <2>1. PICK x : x = <<p, s>> /\ x[1] = p /\ x[2] = s
    <3>1. PICK x : x = <<p, s>>
      OBVIOUS
    <3>2. x[1] = p /\ x[2] = s
      BY <3>1
    <3>3. QED
      BY Zenon, <3>1, <3>2
  <2>2. x \in X
    BY Zenon, <2>1 DEF X, CallStates
  <2>3. d[x] = Step(d, x)
    BY Zenon, <1>11, <2>2
  <2>4. QED
    BY Zenon, <2>1, <2>3 DEF Step
<1>14. QED
  BY Zenon, <1>0, <1>12, <1>13


\* The decoder and what is written go the same way.
SameWay(buf, d, p, seen, q) ==
    /\ Stuck(buf, p) => ReadName(buf, d, p, seen) = NotDecoded
    /\ ~Stuck(buf, p) /\ buf[p + 1] = 0 => ReadName(buf, d, p, seen) = NameEnd(p)
    /\ Moves(buf, p) /\ IsLink(buf[p + 1]) =>
         ReadName(buf, d, p, seen) =
           IF q \in seen \/ p + 2 >= Len(buf) \/ ~d[<<q, seen \cup {q}>>].ok THEN NotDecoded
           ELSE Onward(buf, p, d[<<q, seen \cup {q}>>])
    /\ Moves(buf, p) /\ ~IsLink(buf[p + 1]) =>
         ReadName(buf, d, p, seen) =
           IF q > Len(buf) \/ ~d[<<q, seen>>].ok THEN NotDecoded ELSE Onward(buf, p, d[<<q, seen>>])

\* getDnsDomainName takes the same way through the message as the comparison.
LEMMA ReadStep ==
    ASSUME NEW buf \in Seq(Bytes), NEW p \in 0..(Len(buf) + 64), NEW seen, NEW d, NEW q, q = Towards(buf, p)
    PROVE  SameWay(buf, d, p, seen, q)
<1>1. PICK n \in Nat : n = Len(buf)
  OBVIOUS
<1>2. p \in Nat /\ p \in 0..(n + 64)
  BY SMT, <1>1
<1>3. ~IsLink(0)
  BY SMT DEF IsLink
<1>4. ASSUME p >= n PROVE ReadName(buf, d, p, seen) = NotDecoded
  <2>1. ~(p < n)
    BY SMT, <1>2, <1>4
  <2>2. QED
    BY Zenon, <1>1, <1>4, <2>1 DEF ReadName
<1>5. ASSUME ~(p >= n) PROVE p < n /\ buf[p + 1] \in Nat
  <2>1. p < n
    BY SMT, <1>2, <1>5
  <2>2. p < Len(buf)
    BY Zenon, <1>1, <2>1
  <2>3. buf[p + 1] \in Nat
    BY <1>2, <2>2, CodeAt
  <2>4. QED
    BY Zenon, <2>1, <2>3
<1>6. ASSUME ~(p >= n), buf[p + 1] \div 64 \in {1, 2} PROVE ReadName(buf, d, p, seen) = NotDecoded
  <2>1. PICK c \in Nat : c = buf[p + 1] /\ c \div 64 \in {1, 2}
    BY Zenon, <1>5, <1>6
  <2>2. c # 0 /\ c \div 64 # 3 /\ c > 63
    BY SMT, <2>1
  <2>3. QED
    BY Zenon, <1>1, <1>5, <1>6, <2>1, <2>2 DEF ReadName, IsLink, MAX_LABEL_LEN
<1>7. ASSUME ~(p >= n), IsLink(buf[p + 1]), p + 1 >= n \/ LinkAt(buf, p) >= n
      PROVE  ReadName(buf, d, p, seen) = NotDecoded
  <2>1. buf[p + 1] # 0
    BY Zenon, <1>3, <1>7
  <2>2. QED
    BY Zenon, <1>1, <1>5, <1>7, <2>1 DEF ReadName
<1>8. ASSUME Stuck(buf, p) PROVE ReadName(buf, d, p, seen) = NotDecoded
  BY Zenon, <1>1, <1>4, <1>6, <1>7, <1>8 DEF Stuck
<1>9. ASSUME ~Stuck(buf, p) PROVE ~(p >= n) /\ p < n
  BY Zenon, <1>1, <1>5, <1>9 DEF Stuck
<1>10. ASSUME ~Stuck(buf, p), buf[p + 1] = 0 PROVE ReadName(buf, d, p, seen) = NameEnd(p)
  <2>1. ~IsLink(buf[p + 1])
    BY Zenon, <1>3, <1>10
  <2>2. QED
    BY Zenon, <1>1, <1>9, <1>10, <2>1 DEF ReadName
<1>11. ASSUME Moves(buf, p), IsLink(buf[p + 1])
       PROVE  ReadName(buf, d, p, seen) =
                IF q \in seen \/ p + 2 >= n \/ ~d[<<q, seen \cup {q}>>].ok THEN NotDecoded
                ELSE Onward(buf, p, d[<<q, seen \cup {q}>>])
  <2>1. ~(p >= n) /\ p < n /\ buf[p + 1] # 0 /\ ~(p + 1 >= n) /\ ~(LinkAt(buf, p) >= n) /\ q = LinkAt(buf, p)
    BY Zenon, <1>1, <1>9, <1>11 DEF Moves, Stuck, Towards
  <2>2. QED
    BY Zenon, <1>1, <1>11, <2>1 DEF ReadName, Onward, AfterLink
<1>12. ASSUME Moves(buf, p), ~IsLink(buf[p + 1])
       PROVE  ReadName(buf, d, p, seen) =
                IF q > n \/ ~d[<<q, seen>>].ok THEN NotDecoded ELSE Onward(buf, p, d[<<q, seen>>])
  <2>1. ~(p >= n) /\ p < n /\ buf[p + 1] # 0 /\ q = p + 1 + buf[p + 1]
    BY Zenon, <1>1, <1>9, <1>12 DEF Moves, Stuck, Towards
  <2>2. ~(buf[p + 1] > MAX_LABEL_LEN)
    BY <1>12, MovesTo
  <2>3. QED
    BY Zenon, <1>1, <1>12, <2>1, <2>2 DEF ReadName, Onward
<1>13. QED
  BY Zenon, <1>1, <1>8, <1>10, <1>11, <1>12 DEF SameWay

\* The calls of the decoder.
Reads(buf, d) == \A p \in 0..(Len(buf) + 64) : \A seen \in SUBSET (0..Len(buf)) :
                    d[<<p, seen>>] = ReadName(buf, d, p, seen)

\* One label or link more, in front of what is written.
LEMMA OneMore ==
    ASSUME NEW buf \in Seq(Bytes), NEW w, Walked(buf, w), NEW p \in 0..(Len(buf) + 64), Moves(buf, p),
           NEW k \in 0..Len(buf), w[k][Towards(buf, p)].ok
    PROVE  \E j \in 0..Len(buf) : w[j][p] = Onward(buf, p, w[k][Towards(buf, p)])
<1>1. PICK n \in Nat, m \in Nat : n = Len(buf) /\ m = 3 * Len(buf)
  BY SMT
<1>2. p < Len(buf)
  <2>1. ~Stuck(buf, p)
    BY Zenon DEF Moves
  <2>2. QED
    BY <2>1, MovesTo
<1>3. k + 1 \in 1..m /\ k + 1 \in 0..m /\ (k + 1) - 1 = k
  BY SMT, <1>1, <1>2
<1>4. w[k + 1][p].ok /\ w[k + 1][p] = Onward(buf, p, w[k][Towards(buf, p)])
  BY Zenon, <1>1, <1>3 DEF Walked
<1>5. k + 1 \in 0..(3 * Len(buf)) /\ w[k + 1][p].ok
  BY Zenon, <1>1, <1>3, <1>4
<1>6. \E j \in 0..Len(buf) : w[k + 1][p] = w[j][p]
  <2>1. \E j \in 0..Len(buf) : Needs(w, j, p) /\ w[k + 1][p] = w[j][p] /\ j \in 1..(k + 1)
    BY <1>5, NamesAreShort
  <2>2. QED
    BY Zenon, <2>1
<1>7. QED
  BY Zenon, <1>4, <1>6

\* What the decoder returns is written there.
Justified(buf, w, d) ==
    \A p \in 0..(Len(buf) + 64) : \A seen \in SUBSET (0..Len(buf)) :
       d[<<p, seen>>].ok => \E k \in 0..Len(buf) : w[k][p] = d[<<p, seen>>]

\* What getDnsDomainName decodes is what is written, in at most one step per byte.
LEMMA DecodedIsWritten ==
    ASSUME NEW buf \in Seq(Bytes), NEW w, Walked(buf, w), NEW d, Reads(buf, d)
    PROVE  Justified(buf, w, d)
<1>1. PICK n \in Nat, m \in Nat : n = Len(buf) /\ m = 3 * Len(buf)
  BY SMT
<1>2. PICK R, M : M \in Nat /\ Falls(n, R, M)
  <2>1. \E R : \E M \in Nat : Falls(n, R, M)
    BY RankFalls
  <2>2. QED
    BY Zenon, <2>1
<1> DEFINE Bad(p, s) == d[<<p, s>>].ok /\ ~\E k \in 0..n : w[k][p] = d[<<p, s>>]
<1>3. SUFFICES ASSUME NEW p0 \in 0..(n + 64), NEW s0 \in SUBSET (0..n), Bad(p0, s0) PROVE FALSE
  BY Zenon, <1>1 DEF Justified
<1>4. \A p \in 0..(n + 64) : \A s \in SUBSET (0..n) : R[<<p, s>>] \in Nat
  BY Zenon, <1>2 DEF Falls, CallStates
\* One of the lowest rank.
<1>5. PICK D : D = {a \in Nat : \E p \in 0..(n + 64) : \E s \in SUBSET (0..n) : a = R[<<p, s>>] /\ Bad(p, s)}
  OBVIOUS
<1>6. D \subseteq Nat /\ D # {}
  BY Zenon, <1>3, <1>4, <1>5
<1>7. PICK a \in D : \A b \in D : a <= b
  BY <1>6, LeastNat
<1>8. PICK p \in 0..(n + 64), s \in SUBSET (0..n) : a = R[<<p, s>>] /\ Bad(p, s) /\ a \in Nat
  BY Zenon, <1>5, <1>7
<1>9. ASSUME NEW q \in 0..(n + 64), NEW t \in SUBSET (0..n), R[<<q, t>>] < R[<<p, s>>], d[<<q, t>>].ok
      PROVE  \E k \in 0..n : w[k][q] = d[<<q, t>>]
  <2>1. SUFFICES ASSUME Bad(q, t) PROVE FALSE
    BY Zenon, <1>9
  <2>2. PICK b \in Nat : b = R[<<q, t>>] /\ b \in D
    BY ZenonT(60), <1>4, <1>5, <2>1
  <2>3. a <= b /\ b < a
    BY Zenon, <1>7, <1>8, <1>9, <2>2
  <2>4. QED
    BY SMT, <1>8, <2>3
<1>10. PICK q : q = Towards(buf, p)
  OBVIOUS
<1>11. p \in 0..(Len(buf) + 64) /\ s \in SUBSET (0..Len(buf))
  BY Zenon, <1>1
<1>12. d[<<p, s>>] = ReadName(buf, d, p, s)
  BY Zenon, <1>11 DEF Reads
<1>13. /\ Stuck(buf, p) => ReadName(buf, d, p, s) = NotDecoded
       /\ ~Stuck(buf, p) /\ buf[p + 1] = 0 => ReadName(buf, d, p, s) = NameEnd(p)
       /\ Moves(buf, p) /\ IsLink(buf[p + 1]) =>
            ReadName(buf, d, p, s) =
              IF q \in s \/ p + 2 >= Len(buf) \/ ~d[<<q, s \cup {q}>>].ok THEN NotDecoded
              ELSE Onward(buf, p, d[<<q, s \cup {q}>>])
       /\ Moves(buf, p) /\ ~IsLink(buf[p + 1]) =>
            ReadName(buf, d, p, s) =
              IF q > Len(buf) \/ ~d[<<q, s>>].ok THEN NotDecoded ELSE Onward(buf, p, d[<<q, s>>])
  <2>1. SameWay(buf, d, p, s, q)
    BY <1>10, <1>11, ReadStep
  <2>2. QED
    BY Zenon, <2>1 DEF SameWay
<1>14. IsResult(NotDecoded) /\ ~NotDecoded.ok
  BY Zenon, ResultIs DEF IsResult
<1>15. ~Stuck(buf, p) /\ p < n
  <2>1. ~Stuck(buf, p)
    BY Zenon, <1>8, <1>12, <1>13, <1>14
  <2>2. p < Len(buf)
    BY <1>11, <2>1, MovesTo
  <2>3. QED
    BY Zenon, <1>1, <2>1, <2>2
<1>16. ASSUME NEW t \in SUBSET (0..n), Moves(buf, p), q \in 0..(n + 64),
             R[<<q, t>>] < R[<<p, s>>], d[<<q, t>>].ok,
              d[<<p, s>>] = Onward(buf, p, d[<<q, t>>])
       PROVE  FALSE
  <2>1. PICK k \in 0..n : w[k][q] = d[<<q, t>>]
    BY Zenon, <1>9, <1>16
  <2>2. k \in 0..Len(buf) /\ w[k][Towards(buf, p)].ok
    BY Zenon, <1>1, <1>10, <1>16, <2>1
  <2>3. \E j \in 0..Len(buf) : w[j][p] = Onward(buf, p, w[k][Towards(buf, p)])
    BY <1>11, <1>16, <2>2, OneMore
  <2>4. QED
    BY Zenon, <1>1, <1>8, <1>10, <1>16, <2>1, <2>3
<1>17. CASE buf[p + 1] = 0
  <2>1. 1 \in 1..m /\ 1 \in 0..n
    BY SMT, <1>1, <1>15
  <2>2. w[1][p] = NameEnd(p)
    BY Zenon, <1>1, <1>15, <1>17, <2>1 DEF Walked
  <2>3. d[<<p, s>>] = NameEnd(p)
    BY Zenon, <1>12, <1>13, <1>15, <1>17
  <2>4. QED
    BY Zenon, <1>8, <2>1, <2>2, <2>3
<1>18. CASE buf[p + 1] # 0 /\ IsLink(buf[p + 1])
  <2>1. Moves(buf, p)
    BY Zenon, <1>15, <1>18 DEF Moves
  <2>2. LinkAt(buf, p) \in 0..(Len(buf) - 1) /\ Towards(buf, p) = LinkAt(buf, p)
    BY <1>11, <1>18, <2>1, MovesTo
  <2>3. q \in 0..n /\ q \in 0..(n + 64)
    BY SMT, <1>1, <1>10, <2>2
  <2>4. q \notin s /\ d[<<q, s \cup {q}>>].ok /\ d[<<p, s>>] = Onward(buf, p, d[<<q, s \cup {q}>>])
    BY Zenon, <1>8, <1>12, <1>13, <1>14, <1>18, <2>1
  <2>5. PICK t \in SUBSET (0..n) : t = s \cup {q}
    BY Zenon, <2>3
  <2>6. R[<<q, t>>] < R[<<p, s>>]
    BY Zenon, <1>2, <2>3, <2>4, <2>5 DEF Falls
  <2>7. QED
    BY Zenon, <1>16, <2>1, <2>3, <2>4, <2>5, <2>6
<1>19. CASE buf[p + 1] # 0 /\ ~IsLink(buf[p + 1])
  <2>1. Moves(buf, p)
    BY Zenon, <1>15, <1>19 DEF Moves
  <2>2. Towards(buf, p) = p + 1 + buf[p + 1] /\ p + 1 + buf[p + 1] \in (p + 1)..(Len(buf) + 64)
    BY <1>11, <1>19, <2>1, MovesTo
  <2>3. q \in (p + 1)..(n + 64)
    BY Zenon, <1>1, <1>10, <2>2
  <2>4. q \in 0..(n + 64)
    BY SMT, <1>1, <2>3
  <2>5. d[<<q, s>>].ok /\ d[<<p, s>>] = Onward(buf, p, d[<<q, s>>])
    BY Zenon, <1>8, <1>12, <1>13, <1>14, <1>19, <2>1
  <2>6. R[<<q, s>>] < R[<<p, s>>]
    BY Zenon, <1>2, <2>3 DEF Falls
  <2>7. QED
    BY Zenon, <1>16, <2>1, <2>4, <2>5, <2>6
<1>20. QED
  BY Zenon, <1>17, <1>18, <1>19

\* What is written is decoded, unless the message ends in a link: a link never leads to a
\* call around it, for a name takes more from there than from where the link leads.
LEMMA WrittenIsDecoded ==
    ASSUME NEW buf \in Seq(Bytes), NEW w, Walked(buf, w), NEW d, Reads(buf, d), ~IsLink(buf[Len(buf) - 1])
    PROVE  \A k \in 1..(3 * Len(buf)) : \A p \in 0..(Len(buf) + 64) : \A seen \in SUBSET (0..Len(buf)) :
              Needs(w, k, p) /\ (\A x \in seen : ~w[k - 1][x].ok) => d[<<p, seen>>].ok
<1>1. PICK n \in Nat, m \in Nat : n = Len(buf) /\ m = 3 * Len(buf)
  BY SMT
<1>2. \A p \in 0..(n + 64) : \A s \in SUBSET (0..n) :
         d[<<p, s>>].ok => \E k \in 0..n : w[k][p] = d[<<p, s>>]
  <2>1. Justified(buf, w, d)
    BY DecodedIsWritten
  <2>2. QED
    BY Zenon, <1>1, <2>1 DEF Justified
<1>3. \A i \in 0..m : \A k \in 0..i : \A p \in 0..(n + 64) : w[k][p].ok => w[i][p] = w[k][p]
  <2>1. \A i \in 0..(3 * Len(buf)) : \A k \in 0..i : \A p \in 0..(Len(buf) + 64) :
           w[k][p].ok => w[i][p] = w[k][p]
    BY NamesStay
  <2>2. QED
    BY Zenon, <1>1, <2>1
<1> DEFINE Led(k) == \A p \in 0..(n + 64) : \A s \in SUBSET (0..n) :
                        Needs(w, k, p) /\ (\A x \in s : ~w[k - 1][x].ok) => d[<<p, s>>].ok
<1>4. PICK T : T = {k \in 0..m : k > 0 => Led(k)}
  OBVIOUS
<1>5. 0 \in T
  <2>1. 0 \in 0..m /\ ~(0 > 0)
    BY SMT
  <2>2. QED
    BY Zenon, <1>4, <2>1
<1>6. ASSUME NEW k \in 0..(m - 1), k \in T PROVE k + 1 \in T
  <2>1. k + 1 \in 0..m /\ k + 1 \in 1..m /\ (k + 1) - 1 = k /\ k \in 0..m
    BY SMT
  <2>2. SUFFICES ASSUME NEW p \in 0..(n + 64), NEW s \in SUBSET (0..n), Needs(w, k + 1, p),
                        \A x \in s : ~w[k][x].ok
                 PROVE  d[<<p, s>>].ok
    BY Zenon, <1>4, <2>1
  <2>3. p \in 0..(Len(buf) + 64) /\ s \in SUBSET (0..Len(buf))
    BY Zenon, <1>1
  <2>4. PICK q : q = Towards(buf, p)
    OBVIOUS
  <2>5. SameWay(buf, d, p, s, q)
    BY <2>3, <2>4, ReadStep
  <2>6. d[<<p, s>>] = ReadName(buf, d, p, s)
    BY Zenon, <2>3 DEF Reads
  <2>7. w[k + 1][p].ok /\ ~w[k][p].ok
    BY Zenon, <2>1, <2>2 DEF Needs
  <2>8. ~Stuck(buf, p)
    BY Zenon, <1>1, <2>1, <2>7 DEF Walked
  <2>9. CASE buf[p + 1] = 0
    <3>1. d[<<p, s>>] = NameEnd(p)
      BY Zenon, <2>5, <2>6, <2>8, <2>9 DEF SameWay
    <3>2. w[k + 1][p] = NameEnd(p)
      BY Zenon, <1>1, <2>1, <2>8, <2>9 DEF Walked
    <3>3. QED
      BY Zenon, <2>7, <3>1, <3>2
  <2>10. CASE buf[p + 1] # 0
    <3>1. Moves(buf, p)
      BY Zenon, <2>8, <2>10 DEF Moves
    <3>2. q \in 0..(n + 64)
      <4>1. Towards(buf, p) \in 0..(Len(buf) + 64)
        BY <2>3, <3>1, MovesTo
      <4>2. QED
        BY Zenon, <1>1, <2>4, <4>1
    <3>3. w[k][q].ok
      BY Zenon, <1>1, <2>1, <2>4, <2>7, <3>1 DEF Walked
    <3>4. k # 0
      BY Zenon, <1>1, <3>2, <3>3 DEF Walked
    <3>5. k \in 1..(m - 1) /\ k > 0 /\ k - 1 \in 0..k /\ k \in 1..m
      BY SMT, <3>4
    <3>6. Needs(w, k, q)
      <4>1. k \in 1..(3 * Len(buf) - 1)
        BY Zenon, <1>1, <3>5
      <4>2. Needs(w, k, Towards(buf, p))
        BY <2>2, <2>3, <4>1, NeedsLess
      <4>3. QED
        BY Zenon, <2>4, <4>2
    <3>7. Led(k)
      BY Zenon, <1>4, <1>6, <3>5
    <3>8. \A x \in s : ~w[k - 1][x].ok
      <4>1. ASSUME NEW x \in s, w[k - 1][x].ok PROVE FALSE
        <5>1. x \in 0..n
          BY Zenon, <4>1
        <5>2. x \in 0..(n + 64)
          BY SMT, <5>1
        <5>3. w[k][x] = w[k - 1][x]
          BY Zenon, <1>3, <2>1, <3>5, <4>1, <5>2
        <5>4. QED
          BY Zenon, <2>2, <4>1, <5>3
      <4>2. QED
        BY Zenon, <4>1
    \* What is in front of a name that was decoded makes a name of it.
    <3>9. ASSUME NEW t \in SUBSET (0..n), d[<<q, t>>].ok, d[<<p, s>>] = Onward(buf, p, d[<<q, t>>])
          PROVE  d[<<p, s>>].ok
      <4>1. PICK j \in 0..n : w[j][q] = d[<<q, t>>]
        BY Zenon, <1>2, <3>2, <3>9
      <4>2. j \in 0..Len(buf) /\ w[j][Towards(buf, p)].ok
        BY Zenon, <1>1, <2>4, <3>9, <4>1
      <4>3. PICK i \in 0..Len(buf) : w[i][p] = Onward(buf, p, w[j][Towards(buf, p)])
        BY <2>3, <3>1, <4>2, OneMore
      <4>4. j + 1 \in 1..m /\ (j + 1) - 1 = j
        <5>1. p < Len(buf)
          BY <2>3, <2>8, MovesTo
        <5>2. QED
          BY SMT, <1>1, <5>1
      <4>5. w[j + 1][p].ok /\ w[j + 1][p] = Onward(buf, p, w[j][Towards(buf, p)])
        BY Zenon, <1>1, <3>1, <4>2, <4>4 DEF Walked
      <4>6. QED
        BY Zenon, <2>4, <3>9, <4>1, <4>5
    <3>10. CASE IsLink(buf[p + 1])
      <4>1. p + 1 < Len(buf) /\ LinkAt(buf, p) \in 0..(Len(buf) - 1) /\ Towards(buf, p) = LinkAt(buf, p)
        BY <2>3, <3>1, <3>10, MovesTo
      <4>2. q \in 0..n
        BY SMT, <1>1, <2>4, <4>1
      <4>3. PICK t \in SUBSET (0..n) : t = s \cup {q}
        BY Zenon, <4>2
      <4>4. \A x \in t : ~w[k - 1][x].ok
        BY Zenon, <3>6, <3>8, <4>3 DEF Needs
      <4>5. d[<<q, t>>].ok
        BY Zenon, <3>2, <3>6, <3>7, <4>4
      <4>6. ~(p + 2 >= n)
        <5>1. SUFFICES ASSUME p + 2 >= n PROVE FALSE
          OBVIOUS
        <5>2. Len(buf) - 1 = p + 1
          BY SMT, <1>1, <4>1, <5>1
        <5>3. QED
          BY Zenon, <3>10, <5>2
      <4>7. q \notin s
        BY Zenon, <2>2, <3>3
      <4>8. d[<<p, s>>] = Onward(buf, p, d[<<q, t>>])
        BY Zenon, <1>1, <2>5, <2>6, <3>1, <3>10, <4>3, <4>5, <4>6, <4>7 DEF SameWay
      <4>9. QED
        BY Zenon, <3>9, <4>5, <4>8
    <3>11. CASE ~IsLink(buf[p + 1])
      <4>1. d[<<q, s>>].ok
        BY Zenon, <3>2, <3>6, <3>7, <3>8
      <4>2. ~(q > n)
        <5>1. ~Stuck(buf, q)
          BY Zenon, <1>1, <3>2, <3>3, <3>5 DEF Walked
        <5>2. q \in 0..(Len(buf) + 64)
          BY Zenon, <1>1, <3>2
        <5>3. q < Len(buf)
          BY <5>1, <5>2, MovesTo
        <5>4. QED
          BY SMT, <1>1, <5>2, <5>3
      <4>3. d[<<p, s>>] = Onward(buf, p, d[<<q, s>>])
        BY Zenon, <1>1, <2>5, <2>6, <3>1, <3>11, <4>1, <4>2 DEF SameWay
      <4>4. QED
        BY Zenon, <3>9, <4>1, <4>3
    <3>12. QED
      BY Zenon, <3>10, <3>11
  <2>11. QED
    BY Zenon, <2>9, <2>10
<1>7. \A k \in 0..m : k \in T
  BY <1>5, <1>6, UpwardInduction
<1>8. \A k \in 1..m : k \in 0..m /\ k > 0
  BY SMT
<1>9. QED
  BY Zenon, <1>1, <1>4, <1>7, <1>8

\* getDnsDomainName decodes what is written.
LEMMA NamesDecoded ==
    ASSUME NEW buf \in Seq(Bytes), NEW pos \in 0..Len(buf)
    PROVE  NameDecoded(buf, pos)
<1>1. PICK n \in Nat, m \in Nat : n = Len(buf) /\ m = 3 * Len(buf)
  BY SMT
<1>2. PICK w : Layered(buf, w) /\ Written(buf, pos) = w[3 * Len(buf)][pos]
  BY WrittenIs
<1>3. Walked(buf, w)
  <2>1. Layered(buf, w)
    BY Zenon, <1>2
  <2>2. QED
    BY <2>1, LayersWalked
<1>4. PICK d : /\ getDnsDomainName(buf, pos) =
                     IF d[<<pos, {pos}>>].size <= MAX_DOMAIN_LEN THEN d[<<pos, {pos}>>] ELSE NotDecoded
               /\ Reads(buf, d)
  <2>1. \E d : /\ getDnsDomainName(buf, pos) =
                     IF d[<<pos, {pos}>>].size <= MAX_DOMAIN_LEN THEN d[<<pos, {pos}>>] ELSE NotDecoded
               /\ \A p \in 0..(Len(buf) + 64) : \A seen \in SUBSET (0..Len(buf)) :
                     d[<<p, seen>>] = ReadName(buf, d, p, seen)
    BY NameReadIs
  <2>2. QED
    BY Zenon, <2>1 DEF Reads
<1>5. PICK got, want, r :
        got = getDnsDomainName(buf, pos) /\ want = Written(buf, pos) /\ r = d[<<pos, {pos}>>]
  OBVIOUS
<1>6. pos \in 0..(n + 64) /\ m \in 0..m /\ \A k \in 0..n : k \in 0..m
  BY SMT, <1>1
<1>7. pos \in 0..(Len(buf) + 64) /\ {pos} \in SUBSET (0..Len(buf))
  BY Zenon, <1>1, <1>6
<1>8. ASSUME r.ok PROVE r = want
  <2>1. Justified(buf, w, d)
    BY <1>3, <1>4, DecodedIsWritten
  <2>2. PICK k \in 0..n : w[k][pos] = r
    BY Zenon, <1>1, <1>5, <1>7, <1>8, <2>1 DEF Justified
  <2>3. \A i \in 0..(3 * Len(buf)) : \A j \in 0..i : \A p \in 0..(Len(buf) + 64) :
           w[j][p].ok => w[i][p] = w[j][p]
    BY <1>3, NamesStay
  <2>4. w[m][pos] = w[k][pos]
    BY Zenon, <1>1, <1>6, <1>7, <1>8, <2>2, <2>3
  <2>5. QED
    BY Zenon, <1>1, <1>2, <1>5, <2>2, <2>4
<1>9. ASSUME want.ok, ~IsLink(buf[Len(buf) - 1]) PROVE r.ok
  <2>1. 3 * Len(buf) \in 0..(3 * Len(buf)) /\ w[3 * Len(buf)][pos].ok
    BY Zenon, <1>1, <1>2, <1>5, <1>6, <1>9
  <2>2. PICK j : Needs(w, j, pos) /\ j \in 1..(3 * Len(buf))
    <3>1. \E j \in 0..Len(buf) : /\ Needs(w, j, pos) /\ w[3 * Len(buf)][pos] = w[j][pos]
                                 /\ j \in 1..(3 * Len(buf))
      BY <1>3, <1>7, <2>1, NamesAreShort
    <3>2. QED
      BY Zenon, <3>1
  <2>3. \A x \in {pos} : ~w[j - 1][x].ok
    BY Zenon, <2>2 DEF Needs
  <2>4. \A k \in 1..(3 * Len(buf)) : \A p \in 0..(Len(buf) + 64) : \A seen \in SUBSET (0..Len(buf)) :
           Needs(w, k, p) /\ (\A x \in seen : ~w[k - 1][x].ok) => d[<<p, seen>>].ok
    BY <1>3, <1>4, <1>9, WrittenIsDecoded
  <2>5. QED
    BY Zenon, <1>5, <1>7, <2>2, <2>3, <2>4
<1>10. IsResult(NotDecoded) /\ ~NotDecoded.ok
  BY Zenon, ResultIs DEF IsResult
<1>11. got = IF r.size <= MAX_DOMAIN_LEN THEN r ELSE NotDecoded
  BY Zenon, <1>4, <1>5
<1>12. got.ok => got = want
  BY Zenon, <1>8, <1>10, <1>11
<1>13. want.ok /\ want.size <= MAX_DOMAIN_LEN /\ ~IsLink(buf[Len(buf) - 1]) => got.ok
  BY Zenon, <1>8, <1>9, <1>11
<1>14. QED
  BY Zenon, <1>5, <1>12, <1>13 DEF NameDecoded

-----------------------------------------------------------------------------
(* The properties, for every input.                                        *)

\* Whatever name a profile and a network have, wildcard_match accepts only what the name
\* of the profile stands for, and all of it if no two stars are adjacent.
THEOREM PatternsAlwaysMatch ==
    ASSUME input.kind = "match" => input.needle \in Seq(Nat) /\ input.haystack \in Seq(Nat)
    PROVE  PatternsMatch
BY Zenon, PatternsAgree DEF PatternsMatch

\* Bytes between two four-byte addresses, up to the largest segment of an IPv4 packet, with
\* the field for the checksum zero, as form_packet leaves it.
PacketInput ==
    /\ input.src \in Seq(Bytes) /\ Len(input.src) = 4
    /\ input.dst \in Seq(Bytes) /\ Len(input.dst) = 4
    /\ input.bytes \in Seq(Bytes) /\ Len(input.bytes) >= 2 /\ Len(input.bytes) <= MaxSegment
    /\ input.bytes[1] = 0 /\ input.bytes[2] = 0

\* Whatever form_packet sends, its receiver accepts the checksums cksumIp and cksumTcp
\* computed for it.
THEOREM ChecksumsAlwaysVerify ==
    ASSUME input.kind = "packet" => PacketInput
    PROVE  ChecksumsVerify
BY Zenon, PacketsAccepted DEF ChecksumsVerify, PacketInput

\* Whatever options a command line that parse_cmdline accepts has, every profile has the ones
\* written for it and the settings are the ones written last, as the members that hold them
\* convert them; and whatever the files hold, the first line for a name gives load_custom_ips
\* its address, and load_whitelist takes what follows the word at the start of a line.
THEOREM SettingsAlwaysAsWritten ==
    ASSUME NEW S, input.kind = "args" => Arguments(input.args),
           input.kind = "lines" => input.lines \in Seq(Seq(S))
    PROVE  SettingsAsWritten
<1>1. "a" # Gap
  BY Zenon DEF Gap
<1>2. input.kind = "lines" => FirstLineDecides(input.lines) /\ WhitelistAsWritten(input.lines, "a")
  BY <1>1, FirstLineTaken, WhitelistRead
<1>3. QED
  BY Zenon, <1>2, CommandLineParsed DEF SettingsAsWritten

\* What the parsers are given: a hello of a TLS client as far as it was read, a message and
\* the reader's position in it, the elements of a beacon as far as they were read.
HelloInput    == /\ input.hello.exts \in Seq([type : Nat, size : Nat]) /\ IsHello(input.hello)
                 /\ input.read \in 0..Len(Hello(input.hello))
NameInput     == input.message \in Seq(Bytes) /\ input.pos \in 0..Len(input.message)
ElementsInput == /\ input.elements \in Seq([id : Bytes, size : Bytes])
                 /\ input.read \in 0..Len(Elements(input.elements))

\* Whatever hello, message or list of elements is received, get_tls_sni finds the server name
\* or nothing, getDnsDomainName comes to an end and returns the name that is written there,
\* and find_ssid finds the first network name.
THEOREM FieldsAlwaysFound ==
    ASSUME input.kind = "hello" => HelloInput, input.kind = "name" => NameInput,
           input.kind = "elements" => ElementsInput
    PROVE  FieldsFound
<1>1. ASSUME input.kind = "hello" PROVE SniLocated(input.hello, input.read)
  <2>1. /\ input.hello.exts \in Seq([type : Nat, size : Nat]) /\ IsHello(input.hello)
        /\ input.read \in 0..Len(Hello(input.hello))
    BY Zenon, <1>1 DEF HelloInput
  <2>2. QED
    BY <2>1, SniFound
<1>2. ASSUME input.kind = "name" PROVE NameDecoded(input.message, input.pos)
  <2>1. input.message \in Seq(Bytes) /\ input.pos \in 0..Len(input.message)
    BY Zenon, <1>2 DEF NameInput
  <2>2. QED
    BY <2>1, NamesDecoded
<1>3. ASSUME input.kind = "elements" PROVE SsidLocated(input.elements, input.read)
  <2>1. /\ input.elements \in Seq([id : Bytes, size : Bytes])
        /\ input.read \in 0..Len(Elements(input.elements))
    BY Zenon, <1>3 DEF ElementsInput
  <2>2. QED
    BY <2>1, SsidFound
<1>4. QED
  BY Zenon, <1>1, <1>2, <1>3 DEF FieldsFound
=============================================================================
