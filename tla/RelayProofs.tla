---------------------------- MODULE RelayProofs ----------------------------
(***************************************************************************)
(* The relay loop implements Tunnel and forwards everything before it      *)
(* closes: for every script, every buffer, window and set of faults, as    *)
(* long as no request follows a Proxy-Connection header.                   *)
(***************************************************************************)
EXTENDS Relay, WellFoundedInduction, TLAPS

-----------------------------------------------------------------------------
(* Streams without headers.                                                *)

\* A set of numbers that is not empty has a least one.
LEMMA LeastNat ==
    ASSUME NEW T, T \subseteq Nat, T # {}
    PROVE  \E x \in T : \A y \in T : x <= y
<1>1. PICK R : R = OpToRel(<, Nat)
  OBVIOUS
<1>2. IsWellFoundedOn(R, Nat)
  BY <1>1, NatLessThanWellFounded
<1>3. PICK x \in T : \A y \in T : ~(<<y, x>> \in R)
  BY <1>2, WFMin
<1>4. \A u, v \in Nat : <<v, u>> \in R <=> v < u
  BY <1>1 DEF OpToRel
<1>5. ASSUME NEW y \in T PROVE x <= y
  <2>1. x \in Nat /\ y \in Nat
    OBVIOUS
  <2>2. ~(y < x)
    BY <1>3, <1>4, <2>1
  <2> HIDE <1>1
  <2>3. QED
    BY <2>1, <2>2
<1>6. QED
  BY <1>5

\* What holds of 0, and of each number when it holds of the one before, holds of all.
LEMMA UpwardInduction ==
    ASSUME NEW N \in Nat, NEW T, 0 \in T, \A i \in 0..(N - 1) : i \in T => i + 1 \in T
    PROVE  \A i \in 0..N : i \in T
<1> SUFFICES ASSUME NEW b \in 0..N, b \notin T PROVE FALSE
  OBVIOUS
<1>1. PICK D : D = {d \in Nat : d <= N /\ d \notin T}
  OBVIOUS
<1>2. b \in D
  BY SMT, <1>1
<1>3. PICK d \in D : \A e \in D : d <= e
  BY <1>1, <1>2, LeastNat
<1>4. d \in Nat /\ d <= N /\ d \notin T /\ d # 0
  BY SMT, <1>1, <1>3
<1>5. d - 1 \in 0..(N - 1) /\ d - 1 \in Nat /\ (d - 1) + 1 = d /\ d - 1 <= N
  BY SMT, <1>4
<1>6. d - 1 \notin T
  BY Zenon, <1>4, <1>5
<1>7. d - 1 \in D
  BY <1>1, <1>5, <1>6
<1>8. QED
  BY SMT, <1>3, <1>4, <1>7

\* One step of the recursion inside WithoutHeaders, and the function it defines.
Keep(scr, kept, unit) == IF IsHeader(scr, unit) THEN kept ELSE Append(kept, unit)
KeptFun(scr, units, f) ==
    f = [i \in 0..Len(units) |-> IF i = 0 THEN <<>> ELSE Keep(scr, f[i - 1], units[i])]

\* The recursion is well defined: from nothing on, units can be added.
LEMMA KeptExists ==
    ASSUME NEW S, NEW scr, NEW units \in Seq(S)
    PROVE  \E f \in [0..Len(units) -> Seq(S)] : KeptFun(scr, units, f)
<1> DEFINE n == Len(units)
           Good(k, f) == \A i \in 0..k : f[i] = IF i = 0 THEN <<>> ELSE Keep(scr, f[i - 1], units[i])
           T == {k \in 0..n : \E f \in [0..n -> Seq(S)] : Good(k, f)}
<1>0. n \in Nat
  OBVIOUS
<1>1. 0 \in T
  <2>1. <<>> \in Seq(S)
    BY SMT
  <2>2. PICK f \in [0..n -> Seq(S)] : f = [i \in 0..n |-> <<>>]
    BY <2>1
  <2>3. Good(0, f)
    BY SMT, <1>0, <2>2
  <2>4. 0 \in 0..n
    BY SMT, <1>0
  <2>5. QED
    BY Zenon, <2>2, <2>3, <2>4
<1>2. ASSUME NEW k \in 0..(n - 1), k \in T PROVE k + 1 \in T
  <2>1. PICK f \in [0..n -> Seq(S)] : Good(k, f)
    BY Zenon, <1>2
  <2>2. k \in 0..n /\ k + 1 \in 0..n /\ k + 1 \in 1..n /\ k + 1 # 0 /\ (k + 1) - 1 = k
    BY SMT, <1>0
  <2>3. Keep(scr, f[k], units[k + 1]) \in Seq(S)
    <3>1. f[k] \in Seq(S) /\ units[k + 1] \in S
      BY SMT, <2>1, <2>2
    <3>2. Append(f[k], units[k + 1]) \in Seq(S)
      BY SMT, <3>1
    <3>3. QED
      BY Zenon, <3>1, <3>2 DEF Keep
  <2>4. PICK g \in [0..n -> Seq(S)] : g = [f EXCEPT ![k + 1] = Keep(scr, f[k], units[k + 1])]
    BY <2>2, <2>3
  <2>5. g[k + 1] = Keep(scr, f[k], units[k + 1]) /\ \A i \in 0..k : g[i] = f[i]
    BY SMT, <1>0, <2>1, <2>2, <2>4
  <2>6. ASSUME NEW i \in 0..(k + 1)
        PROVE  g[i] = IF i = 0 THEN <<>> ELSE Keep(scr, g[i - 1], units[i])
    <3>1. CASE i = k + 1
      <4>1. k \in 0..k
        BY SMT, <1>0
      <4>2. QED
        BY Zenon, <2>2, <2>5, <3>1, <4>1
    <3>2. CASE i # k + 1
      <4>1. i \in 0..k /\ (i # 0 => i - 1 \in 0..k)
        BY SMT, <1>0, <3>2
      <4>2. QED
        BY Zenon, <2>1, <2>5, <4>1
    <3>3. QED
      BY Zenon, <3>1, <3>2
  <2>7. QED
    BY Zenon, <2>2, <2>4, <2>6
<1>3. n \in T
  <2>1. n \in 0..n
    BY SMT, <1>0
  <2> HIDE DEF T
  <2>2. QED
    BY <1>0, <1>1, <1>2, <2>1, UpwardInduction
<1>4. PICK f \in [0..n -> Seq(S)] : Good(n, f)
  BY Zenon, <1>3
<1>5. f = [i \in 0..n |-> f[i]]
  BY SMT, <1>4
<1>6. QED
  BY Zenon, <1>4, <1>5 DEF KeptFun

\* So WithoutHeaders is what the recursion says.
LEMMA KeptIs ==
    ASSUME NEW S, NEW scr, NEW units \in Seq(S)
    PROVE  \E f : KeptFun(scr, units, f) /\ WithoutHeaders(scr, units) = f[Len(units)]
<1> DEFINE c == CHOOSE f : KeptFun(scr, units, f)
<1>1. KeptFun(scr, units, c)
  BY Zenon, KeptExists
<1>2. WithoutHeaders(scr, units) = c[Len(units)]
  BY Zenon DEF WithoutHeaders, KeptFun, Keep
<1>3. QED
  BY Zenon, <1>1, <1>2

\* What is kept of a stream is a stream of the same units.
LEMMA KeptType ==
    ASSUME NEW S, NEW scr, NEW units \in Seq(S), NEW f, KeptFun(scr, units, f)
    PROVE  \A i \in 0..Len(units) : f[i] \in Seq(S)
<1> DEFINE n == Len(units)
           T == {i \in 0..n : f[i] \in Seq(S)}
<1>0. n \in Nat
  OBVIOUS
<1>1. \A i \in 0..n : f[i] = IF i = 0 THEN <<>> ELSE Keep(scr, f[i - 1], units[i])
  BY Zenon DEF KeptFun
<1>2. 0 \in T
  <2>1. 0 \in 0..n /\ <<>> \in Seq(S)
    BY SMT, <1>0
  <2>2. f[0] = <<>>
    BY Zenon, <1>1, <2>1
  <2>3. QED
    BY Zenon, <2>1, <2>2
<1>3. ASSUME NEW k \in 0..(n - 1), k \in T PROVE k + 1 \in T
  <2>1. k + 1 \in 0..n /\ k + 1 \in 1..n /\ k + 1 # 0 /\ (k + 1) - 1 = k
    BY SMT, <1>0
  <2>2. f[k] \in Seq(S) /\ units[k + 1] \in S
    BY SMT, <1>3, <2>1
  <2>3. Append(f[k], units[k + 1]) \in Seq(S)
    BY SMT, <2>2
  <2>4. f[k + 1] = Keep(scr, f[k], units[k + 1])
    BY Zenon, <1>1, <2>1
  <2>5. f[k + 1] \in Seq(S)
    BY Zenon, <2>2, <2>3, <2>4 DEF Keep
  <2>6. QED
    BY Zenon, <2>1, <2>5
<1>4. \A i \in 0..n : i \in T
  <2> HIDE DEF T
  <2>1. QED
    BY <1>0, <1>2, <1>3, UpwardInduction
<1>5. QED
  BY Zenon, <1>4

\* What WithoutHeaders returns.
LEMMA WithoutType ==
    ASSUME NEW S, NEW scr
    PROVE  \A u \in Seq(S) : WithoutHeaders(scr, u) \in Seq(S)
<1> SUFFICES ASSUME NEW u \in Seq(S) PROVE WithoutHeaders(scr, u) \in Seq(S)
  OBVIOUS
<1>1. PICK f : KeptFun(scr, u, f) /\ WithoutHeaders(scr, u) = f[Len(u)]
  BY Zenon, KeptIs
<1>2. Len(u) \in 0..Len(u)
  BY SMT
<1>3. QED
  BY Zenon, <1>1, <1>2, KeptType

\* Nothing is kept of nothing.
LEMMA WithoutNothing ==
    ASSUME NEW scr
    PROVE  WithoutHeaders(scr, <<>>) = <<>>
<1>1. <<>> \in Seq({}) /\ Len(<<>>) = 0 /\ 0 \in 0..0
  BY SMT
<1>2. PICK f : KeptFun(scr, <<>>, f) /\ WithoutHeaders(scr, <<>>) = f[Len(<<>>)]
  BY Zenon, <1>1, KeptIs
<1>3. QED
  BY Zenon, <1>1, <1>2 DEF KeptFun

\* A unit more is kept, unless it is a header.
LEMMA WithoutAppend ==
    ASSUME NEW S, NEW scr
    PROVE  \A s \in Seq(S), x \in S :
              WithoutHeaders(scr, Append(s, x)) = Keep(scr, WithoutHeaders(scr, s), x)
<1> SUFFICES ASSUME NEW s \in Seq(S), NEW x \in S
             PROVE  WithoutHeaders(scr, Append(s, x)) = Keep(scr, WithoutHeaders(scr, s), x)
  OBVIOUS
<1>0. PICK t : t = Append(s, x)
  OBVIOUS
<1>1. /\ t \in Seq(S) /\ Len(s) \in Nat /\ Len(t) = Len(s) + 1 /\ t[Len(t)] = x
      /\ \A i \in 1..Len(s) : t[i] = s[i]
  BY SMT, <1>0
<1>2. PICK f : KeptFun(scr, s, f) /\ WithoutHeaders(scr, s) = f[Len(s)]
  BY Zenon, KeptIs
<1>3. PICK g : KeptFun(scr, t, g) /\ WithoutHeaders(scr, t) = g[Len(t)]
  BY Zenon, <1>1, KeptIs
<1>4. /\ \A i \in 0..Len(s) : f[i] = IF i = 0 THEN <<>> ELSE Keep(scr, f[i - 1], s[i])
      /\ \A i \in 0..Len(t) : g[i] = IF i = 0 THEN <<>> ELSE Keep(scr, g[i - 1], t[i])
  BY Zenon, <1>2, <1>3 DEF KeptFun
<1> DEFINE T == {i \in 0..Len(s) : f[i] = g[i]}
<1>5. 0 \in T
  <2>1. 0 \in 0..Len(s) /\ 0 \in 0..Len(t)
    BY SMT, <1>1
  <2>2. QED
    BY Zenon, <1>4, <2>1
<1>6. ASSUME NEW k \in 0..(Len(s) - 1), k \in T PROVE k + 1 \in T
  <2>1. /\ k + 1 \in 0..Len(s) /\ k + 1 \in 1..Len(s) /\ k + 1 \in 0..Len(t)
        /\ k + 1 # 0 /\ (k + 1) - 1 = k
    BY SMT, <1>1
  <2>2. f[k] = g[k]
    BY Zenon, <1>6
  <2>3. f[k + 1] = Keep(scr, f[k], s[k + 1]) /\ g[k + 1] = Keep(scr, g[k], t[k + 1])
    BY Zenon, <1>4, <2>1
  <2>4. t[k + 1] = s[k + 1]
    BY Zenon, <1>1, <2>1
  <2>5. QED
    BY Zenon, <2>1, <2>2, <2>3, <2>4
<1>7. f[Len(s)] = g[Len(s)]
  <2>1. Len(s) \in 0..Len(s)
    BY SMT, <1>1
  <2> HIDE DEF T
  <2>2. Len(s) \in T
    BY <1>1, <1>5, <1>6, <2>1, UpwardInduction
  <2>3. QED
    BY Zenon, <2>2 DEF T
<1>8. Len(t) \in 0..Len(t) /\ Len(t) # 0 /\ Len(t) - 1 = Len(s) /\ Len(s) \in 0..Len(s)
  BY SMT, <1>1
<1>9. g[Len(t)] = Keep(scr, g[Len(s)], x)
  BY Zenon, <1>1, <1>4, <1>8
<1>10. QED
  BY Zenon, <1>0, <1>2, <1>3, <1>7, <1>9

\* WithoutHeaders works through a stream piece by piece.
LEMMA WithoutConcat ==
    ASSUME NEW S, NEW scr
    PROVE  \A s, t \in Seq(S) :
             WithoutHeaders(scr, s \o t) = WithoutHeaders(scr, s) \o WithoutHeaders(scr, t)
<1> SUFFICES ASSUME NEW s \in Seq(S), NEW t \in Seq(S)
             PROVE  WithoutHeaders(scr, s \o t) =
                      WithoutHeaders(scr, s) \o WithoutHeaders(scr, t)
  OBVIOUS
<1>app. \A u \in Seq(S), x \in S :
          WithoutHeaders(scr, Append(u, x)) = Keep(scr, WithoutHeaders(scr, u), x)
  BY WithoutAppend
<1> DEFINE W(u) == WithoutHeaders(scr, u)
           n == Len(t)
           part(k) == SubSeq(t, 1, k)
           T == {k \in 0..n : W(s \o part(k)) = W(s) \o W(part(k))}
<1>0. n \in Nat
  OBVIOUS
<1>1. \A u \in Seq(S) : W(u) \in Seq(S)
  BY WithoutType
<1>2. 0 \in T
  <2>1. part(0) = <<>> /\ s \o <<>> = s /\ 0 \in 0..n
    BY SMT, <1>0
  <2>2. W(<<>>) = <<>> /\ W(s) \in Seq(S)
    BY Zenon, <1>1, WithoutNothing
  <2> HIDE DEF W
  <2>3. W(s) \o <<>> = W(s)
    BY SMT, <2>2
  <2>4. QED
    BY Zenon, <2>1, <2>2, <2>3
<1>3. ASSUME NEW k \in 0..(n - 1), k \in T PROVE k + 1 \in T
  <2>1. k + 1 \in 0..n /\ k + 1 \in 1..n /\ k \in 0..n
    BY SMT, <1>0
  <2>2. part(k) \in Seq(S) /\ t[k + 1] \in S /\ part(k + 1) = Append(part(k), t[k + 1])
    BY SMT, <1>0, <2>1
  <2>3. s \o part(k) \in Seq(S) /\ s \o part(k + 1) = Append(s \o part(k), t[k + 1])
    <3> HIDE DEF part
    <3>1. s \o part(k) \in Seq(S)
      BY SMT, <2>2
    <3>2. s \o Append(part(k), t[k + 1]) = Append(s \o part(k), t[k + 1])
      BY SMT, <2>2
    <3>3. QED
      BY <2>2, <3>1, <3>2
  <2>4. W(part(k + 1)) = Keep(scr, W(part(k)), t[k + 1])
    BY Zenon, <1>app, <2>2
  <2>5. W(s \o part(k + 1)) = Keep(scr, W(s \o part(k)), t[k + 1])
    BY Zenon, <1>app, <2>2, <2>3
  <2>6. W(s) \in Seq(S) /\ W(part(k)) \in Seq(S)
    BY Zenon, <1>1, <2>2
  <2> HIDE DEF W, part
  <2>7. W(s) \o Append(W(part(k)), t[k + 1]) = Append(W(s) \o W(part(k)), t[k + 1])
    BY SMT, <2>2, <2>6
  <2>8. W(s \o part(k)) = W(s) \o W(part(k))
    BY Zenon, <1>3
  <2>9. Keep(scr, W(s) \o W(part(k)), t[k + 1]) = W(s) \o Keep(scr, W(part(k)), t[k + 1])
    BY Zenon, <2>7 DEF Keep
  <2>10. QED
    BY Zenon, <2>1, <2>4, <2>5, <2>8, <2>9
<1>4. n \in T
  <2>1. n \in 0..n
    BY SMT, <1>0
  <2> HIDE DEF T
  <2>2. QED
    BY <1>0, <1>2, <1>3, <2>1, UpwardInduction
<1>5. part(n) = t
  BY SMT, <1>0
<1>6. QED
  BY Zenon, <1>4, <1>5

-----------------------------------------------------------------------------
(* Types.                                                                  *)

Buffers == [1..BufferSize -> Unit]
Todos   == {<<>>, <<"client">>, <<"server">>, <<"client", "server">>}

\* There is something to do while a socket is processed.
TInv == TypeOK /\ (pc \in {"recv", "send"} => todo # <<>>)

\* What is left to do after the first socket is the server or nothing.
LEMMA TodoFacts ==
    ASSUME NEW t \in Todos, t # <<>>
    PROVE  /\ Head(t) \in Sides /\ Other(Head(t)) \in Sides /\ Other(Head(t)) # Head(t)
           /\ Tail(t) \in {<<>>, <<"server">>} /\ (Len(t) = 1 <=> Tail(t) = <<>>)
           /\ (Tail(t) # <<>> => Head(t) = "client")
<1>1. CASE t = <<"client">>
  BY SMT, <1>1 DEF Sides, Other
<1>2. CASE t = <<"server">>
  BY SMT, <1>2 DEF Sides, Other
<1>3. CASE t = <<"client", "server">>
  BY SMT, <1>3 DEF Sides, Other
<1>4. QED
  BY Zenon, <1>1, <1>2, <1>3 DEF Todos

\* One after the other they are both.
LEMMA PairConcat == \A x, y : <<x>> \o <<y>> = <<x, y>>
<1> SUFFICES ASSUME NEW x, NEW y PROVE <<x>> \o <<y>> = <<x, y>>
  OBVIOUS
<1>1. PICK S : S = {x, y}
  OBVIOUS
<1>2. <<x>> \in Seq(S) /\ <<y>> \in Seq(S) /\ Len(<<x>>) = 1 /\ Len(<<y>>) = 1
  BY SMT, <1>1
<1>3. PICK s, t : s = <<x>> \o <<y>> /\ t = <<x, y>>
  OBVIOUS
<1>4. s \in Seq(S) /\ Len(s) = 2 /\ s[1] = x /\ s[2] = y
  BY SMT, <1>2, <1>3
<1>5. t \in Seq(S) /\ Len(t) = 2 /\ t[1] = x /\ t[2] = y
  BY SMT, <1>1, <1>3
<1>6. s = t
  BY SMT, <1>4, <1>5
<1>7. QED
  BY <1>3, <1>6

\* A header taken out leaves a buffer.
LEMMA RemovedType ==
    ASSUME NEW buf \in Buffers, NEW last \in 0..BufferSize
    PROVE  /\ RemoveProxyStrings(buf, last).buf \in Buffers
           /\ RemoveProxyStrings(buf, last).last \in 0..BufferSize
<1>1. PICK headers : headers = {i \in 1..BufferSize : Kind(buf[i]) = "proxy"}
  OBVIOUS
<1>2. PICK first : first = CHOOSE i \in headers : \A j \in headers : i <= j
  OBVIOUS
<1>3. PICK b : b = [i \in 1..BufferSize |->
                      IF i < first THEN buf[i] ELSE IF i < BufferSize THEN buf[i + 1] ELSE Blank]
  OBVIOUS
<1>4. RemoveProxyStrings(buf, last) = IF Kind(buf[1]) = "request" /\ headers # {} /\ last >= 1
                                      THEN [buf |-> b, last |-> last - 1]
                                      ELSE [buf |-> buf, last |-> last]
  BY Zenon, <1>1, <1>2, <1>3 DEF RemoveProxyStrings
<1>5. Blank \in Unit
  BY SMT DEF Blank, Unit
<1>6. BufferSize \in Nat /\ \A i \in 1..BufferSize : i < BufferSize => i + 1 \in 1..BufferSize
  BY SMT, BoundsAssumption
<1>7. b \in Buffers
  BY SMT, <1>3, <1>5, <1>6 DEF Buffers
<1>8. last >= 1 => last - 1 \in 0..BufferSize
  BY SMT, <1>6
<1>9. QED
  BY SMT, <1>4, <1>7, <1>8

\* What recv() leaves is a buffer.
LEMMA FilledType ==
    ASSUME TInv, NEW side \in Sides, NEW n
    PROVE  Filled(side, n) \in Buffers
<1>1. buffer \in Buffers /\ read[side] \in Nat
  BY Zenon DEF TInv, TypeOK, Buffers
<1>2. \A i \in 1..BufferSize : <<side, read[side] + i>> \in Unit
  BY SMT, <1>1 DEF Unit, Sides
<1>3. \A i \in 1..BufferSize : buffer[i] \in Unit
  BY SMT, <1>1 DEF Buffers
<1>4. QED
  BY Zenon, <1>2, <1>3 DEF Filled, Buffers

\* How much recv() reads.
LEMMA ReadAmount ==
    ASSUME TInv, NEW side \in Sides, NEW n, n = Smaller(Unread(side), BufferSize)
    PROVE  /\ n \in 0..BufferSize /\ read[side] \in Nat /\ sent[side] \in Nat
           /\ read[side] + n \in Nat /\ read[side] + n <= sent[side]
           /\ (n = 0 => read[side] = sent[side])
<1>1. read[side] \in Nat /\ sent[side] \in Nat /\ read[side] <= sent[side]
  BY Zenon DEF TInv, TypeOK
<1>2. BufferSize \in Nat \ {0}
  BY Zenon, BoundsAssumption
<1>3. QED
  BY SMT, <1>1, <1>2 DEF Smaller, Unread

\* What recv_string and the rewriting leave for send_string.
LEMMA ReceivedType ==
    ASSUME NEW side, NEW buf \in Buffers, NEW last \in 0..BufferSize, Received(side, buf, last)
    PROVE  /\ buffer' \in Buffers /\ last_char' \in 0..BufferSize /\ offset' = 0 /\ pc' = "send"
           /\ UNCHANGED <<peers, out, todo>>
<1>1. CASE side = "client" /\ "http" \in Events
  <2>1. /\ buffer' = RemoveProxyStrings(buf, last).buf
        /\ last_char' = RemoveProxyStrings(buf, last).last
        /\ offset' = 0 /\ pc' = "send" /\ UNCHANGED <<peers, out, todo>>
    BY Zenon, <1>1 DEF Received
  <2>2. QED
    BY Zenon, <2>1, RemovedType
<1>2. CASE ~(side = "client" /\ "http" \in Events)
  <2>1. PICK r : r = [buf |-> buf, last |-> last]
    OBVIOUS
  <2>2. r.buf = buf /\ r.last = last
    BY <2>1
  <2>3. /\ buffer' = r.buf /\ last_char' = r.last
        /\ offset' = 0 /\ pc' = "send" /\ UNCHANGED <<peers, out, todo>>
    BY Zenon, <1>2, <2>1 DEF Received
  <2>4. QED
    BY Zenon, <2>2, <2>3
<1>3. QED
  BY Zenon, <1>1, <1>2

\* A piece of a buffer.
LEMMA PieceType ==
    ASSUME NEW U, NEW N \in Nat, NEW buf \in [1..N -> U]
    PROVE  \A a \in 0..N : \A b \in a..N :
             /\ SubSeq(buf, a + 1, b) \in Seq(U) /\ Len(SubSeq(buf, a + 1, b)) = b - a
             /\ \A i \in 1..(b - a) : SubSeq(buf, a + 1, b)[i] = buf[a + i]
<1> SUFFICES ASSUME NEW a \in 0..N, NEW b \in a..N
             PROVE  /\ SubSeq(buf, a + 1, b) \in Seq(U) /\ Len(SubSeq(buf, a + 1, b)) = b - a
                    /\ \A i \in 1..(b - a) : SubSeq(buf, a + 1, b)[i] = buf[a + i]
  OBVIOUS
<1>1. buf \in Seq(U) /\ Len(buf) = N
  BY SMT
<1>2. a + 1 \in Nat /\ b \in Nat /\ b <= Len(buf) /\ a + 1 >= 1
  BY SMT, <1>1
<1>3. /\ SubSeq(buf, a + 1, b) \in Seq(U) /\ Len(SubSeq(buf, a + 1, b)) = b - a
      /\ \A i \in 1..(b - a) : SubSeq(buf, a + 1, b)[i] = buf[a + i]
  BY SMT, <1>1, <1>2
<1>4. QED
  BY Zenon, <1>3

\* The types of what the peers see, and of what the loop keeps.
StreamsOK ==
    /\ sent \in [Sides -> Nat] /\ read \in [Sides -> Nat] /\ taken \in [Sides -> Nat]
    /\ \A s \in Sides : read[s] <= sent[s] /\ sent[s] <= Total(s) /\ Space(s) \in 0..Window
    /\ out \in [Sides -> Seq(Unit)]
LoopOK ==
    /\ pc \in {"check", "poll", "recv", "send", "closed"} /\ todo \in Todos
    /\ pc \in {"recv", "send"} => todo # <<>>
    /\ buffer \in Buffers /\ last_char \in 0..BufferSize /\ offset \in 0..last_char
FlagsOK ==
    /\ script \in Scripts /\ fin \in [Sides -> BOOLEAN] /\ resets \subseteq Sides
    /\ recv_failed \in BOOLEAN /\ is_transfer_failure \in BOOLEAN /\ stop_flag \in BOOLEAN

\* Together they are the types.
LEMMA TypeParts == TInv <=> StreamsOK /\ LoopOK /\ FlagsOK
<1>1. {recv_failed, is_transfer_failure, stop_flag} \subseteq BOOLEAN <=>
        recv_failed \in BOOLEAN /\ is_transfer_failure \in BOOLEAN /\ stop_flag \in BOOLEAN
  BY SMT
<1>2. QED
  BY Zenon, <1>1 DEF TInv, TypeOK, StreamsOK, LoopOK, FlagsOK, Todos, Buffers

\* The initial states are typed.
LEMMA TypeInit == Init => TInv
<1> SUFFICES ASSUME Init PROVE TInv
  OBVIOUS
<1>1. /\ sent = [s \in Sides |-> 0] /\ read = [s \in Sides |-> 0] /\ taken = [s \in Sides |-> 0]
      /\ out = [s \in Sides |-> <<>>] /\ script \in Scripts
  BY Zenon DEF Init
<1>2. \A s \in Sides : Total(s) \in Nat
  <2>1. script \in Seq({"request", "proxy", "data"})
    BY Zenon, <1>1, BoundsAssumption
  <2>2. Len(script) \in Nat /\ ServerUnits \in Nat
    BY SMT, <2>1, BoundsAssumption
  <2>3. QED
    BY Zenon, <2>2 DEF Total
<1>3. <<>> \in Seq(Unit) /\ Len(<<>>) = 0 /\ Window - (0 - 0) \in 0..Window /\ 0 <= 0
  BY SMT, BoundsAssumption
<1>4. \A n \in Nat : 0 <= n
  BY SMT
<1>5. 0 \in Nat
  BY SMT
<1>6. sent \in [Sides -> Nat] /\ read \in [Sides -> Nat] /\ taken \in [Sides -> Nat]
      /\ out \in [Sides -> Seq(Unit)]
  BY Zenon, <1>1, <1>3, <1>5
<1>7. \A s \in Sides : read[s] <= sent[s] /\ sent[s] <= Total(s) /\ Space(s) \in 0..Window
  <2> SUFFICES ASSUME NEW s \in Sides
               PROVE  read[s] <= sent[s] /\ sent[s] <= Total(s) /\ Space(s) \in 0..Window
    OBVIOUS
  <2>1. read[s] = 0 /\ sent[s] = 0 /\ taken[s] = 0 /\ out[s] = <<>>
    BY Zenon, <1>1
  <2>2. Space(s) = Window - (0 - 0)
    BY Zenon, <1>3, <2>1 DEF Space
  <2>3. QED
    BY Zenon, <1>2, <1>3, <1>4, <2>1, <2>2
<1>8. StreamsOK
  BY Zenon, <1>6, <1>7 DEF StreamsOK
<1>9. buffer \in Buffers
  <2>1. \A i \in 1..BufferSize : <<"setup", i>> \in Unit
    BY SMT, BoundsAssumption DEF Unit
  <2>2. QED
    BY Zenon, <2>1 DEF Init, Buffers
<1>10. LoopOK
  <2>1. pc = "check" /\ todo = <<>> /\ last_char \in 0..BufferSize /\ offset = last_char
    BY Zenon DEF Init
  <2>2. offset \in 0..last_char
    BY SMT, <2>1, BoundsAssumption
  <2>3. pc \notin {"recv", "send"} /\ todo \in Todos
    BY SMT, <2>1 DEF Todos
  <2>4. QED
    BY Zenon, <1>9, <2>1, <2>2, <2>3 DEF LoopOK
<1>11. FlagsOK
  BY Zenon DEF Init, FlagsOK
<1>12. QED
  BY <1>8, <1>10, <1>11, TypeParts

\* Sending a piece of the buffer.
LEMMA SendPartType ==
    ASSUME TInv, SendPart
    PROVE  /\ Head(todo) \in Sides /\ pc = "send" /\ offset < last_char
           /\ UNCHANGED <<peers, input, pc, todo, buffer, last_char, is_transfer_failure>>
           /\ \E n \in Nat, piece \in Seq(Unit) :
                /\ offset + n <= last_char /\ offset' = offset + n
                /\ Len(piece) = n /\ n <= Space(Other(Head(todo)))
                /\ piece = SubSeq(buffer, offset + 1, offset + n)
                /\ out' = [out EXCEPT ![Other(Head(todo))] = @ \o piece]
<1>1. StreamsOK /\ LoopOK
  BY TypeParts
<1>2. pc = "send" /\ offset < last_char
  BY Zenon DEF SendPart, Leg
<1>3. Head(todo) \in Sides /\ Other(Head(todo)) \in Sides
  <2>1. todo \in Todos /\ todo # <<>>
    BY Zenon, <1>1, <1>2 DEF LoopOK
  <2>2. QED
    BY <2>1, TodoFacts
<1>4. PICK n \in 1..Smaller(last_char - offset, Space(Other(Head(todo)))) :
        /\ out' = [out EXCEPT ![Other(Head(todo))] = @ \o SubSeq(buffer, offset + 1, offset + n)]
        /\ offset' = offset + n
  BY Zenon DEF SendPart
<1>5. /\ n \in Nat /\ offset + n <= last_char /\ n <= Space(Other(Head(todo)))
      /\ offset \in 0..BufferSize /\ offset + n \in offset..BufferSize /\ BufferSize \in Nat
      /\ (offset + n) - offset = n
  <2>1. Space(Other(Head(todo))) \in 0..Window /\ Window \in Nat /\ BufferSize \in Nat
    BY Zenon, <1>1, <1>3, BoundsAssumption DEF StreamsOK
  <2>2. last_char \in 0..BufferSize /\ offset \in 0..last_char
    BY Zenon, <1>1 DEF LoopOK
  <2>3. QED
    BY SMT, <2>1, <2>2 DEF Smaller
<1>6. buffer \in [1..BufferSize -> Unit]
  BY Zenon, <1>1 DEF LoopOK, Buffers
<1>7. /\ SubSeq(buffer, offset + 1, offset + n) \in Seq(Unit)
      /\ Len(SubSeq(buffer, offset + 1, offset + n)) = (offset + n) - offset
  <2>1. \A a \in 0..BufferSize : \A b \in a..BufferSize :
          SubSeq(buffer, a + 1, b) \in Seq(Unit) /\ Len(SubSeq(buffer, a + 1, b)) = b - a
    BY <1>5, <1>6, PieceType
  <2>2. QED
    BY Zenon, <1>5, <2>1
<1>8. UNCHANGED <<peers, input, pc, todo, buffer, last_char, is_transfer_failure>>
  BY Zenon DEF SendPart
<1>9. QED
  BY Zenon, <1>2, <1>3, <1>4, <1>5, <1>7, <1>8

\* Every step keeps the types.
LEMMA TypeStep == ASSUME TInv, [Next]_vars PROVE TInv'
<1> USE DEF peers, input, loop
<1>0. StreamsOK /\ LoopOK /\ FlagsOK
  BY TypeParts
<1>1. ASSUME StreamsOK', LoopOK', FlagsOK' PROVE TInv'
  <2>1. (TInv <=> StreamsOK /\ LoopOK /\ FlagsOK)'
    BY TypeParts, PTL
  <2>2. QED
    BY Zenon, <1>1, <2>1
<1>2. ASSUME UNCHANGED <<script, sent, read, taken, out>> PROVE StreamsOK'
  BY Zenon, <1>0, <1>2 DEF StreamsOK, Total, Space
<1>3. ASSUME UNCHANGED loop PROVE LoopOK'
  BY Zenon, <1>0, <1>3 DEF LoopOK
<1>4. ASSUME UNCHANGED <<peers, recv_failed, is_transfer_failure>> PROVE FlagsOK'
  BY Zenon, <1>0, <1>4 DEF FlagsOK
<1>5. ASSUME Check PROVE TInv'
  <2>1. /\ pc' \in {"closed", "poll"}
        /\ UNCHANGED <<peers, input, out, todo, buffer, last_char, offset, is_transfer_failure>>
    BY Zenon, <1>5 DEF Check
  <2>2. pc' \in {"check", "poll", "recv", "send", "closed"} /\ pc' \notin {"recv", "send"}
    BY SMT, <2>1
  <2>3. LoopOK'
    BY Zenon, <1>0, <2>1, <2>2 DEF LoopOK
  <2>4. QED
    BY Zenon, <1>1, <1>2, <1>4, <2>1, <2>3
<1>6. ASSUME PollReturns PROVE TInv'
  <2>1. /\ pc' = IF resets # {} THEN "closed" ELSE IF todo' = <<>> THEN "check" ELSE "recv"
        /\ todo' = Ready("client") \o Ready("server")
        /\ UNCHANGED <<peers, input, out, buffer, last_char, offset, is_transfer_failure>>
    BY Zenon, <1>6 DEF PollReturns
  <2>2. Ready("client") \in {<<>>, <<"client">>} /\ Ready("server") \in {<<>>, <<"server">>}
    BY Zenon DEF Ready
  <2>3. todo' \in Todos
    <3>1. <<>> \o <<>> = <<>> /\ <<>> \o <<"server">> = <<"server">>
      BY SMT
    <3>2. <<"client">> \o <<>> = <<"client">>
      BY SMT
    <3>3. <<"client">> \o <<"server">> = <<"client", "server">>
      BY PairConcat
    <3>4. QED
      BY Zenon, <2>1, <2>2, <3>1, <3>2, <3>3 DEF Todos
  <2>4. pc' \in {"check", "recv", "closed"} /\ (pc' = "recv" => todo' # <<>>)
    BY SMT, <2>1
  <2>5. pc' \in {"check", "poll", "recv", "send", "closed"} /\ (pc' \in {"recv", "send"} => todo' # <<>>)
    BY SMT, <2>4
  <2>6. LoopOK'
    BY Zenon, <1>0, <2>1, <2>3, <2>5 DEF LoopOK
  <2>7. QED
    BY Zenon, <1>1, <1>2, <1>4, <2>1, <2>6
<1>7. ASSUME NEW side, NEW buf \in Buffers, NEW last \in 0..BufferSize, Received(side, buf, last),
             pc = "recv"
      PROVE  LoopOK' /\ UNCHANGED <<peers, out>>
  <2>1. /\ buffer' \in Buffers /\ last_char' \in 0..BufferSize /\ offset' = 0 /\ pc' = "send"
        /\ UNCHANGED <<peers, out, todo>>
    BY Zenon, <1>7, ReceivedType
  <2>2. offset' \in 0..last_char'
    BY SMT, <2>1, BoundsAssumption
  <2>3. pc' \in {"check", "poll", "recv", "send", "closed"} /\ pc \in {"recv", "send"}
    BY SMT, <1>7, <2>1
  <2>4. todo' \in Todos /\ todo' # <<>>
    BY Zenon, <1>0, <2>1, <2>3 DEF LoopOK
  <2>5. QED
    BY Zenon, <2>1, <2>2, <2>3, <2>4 DEF LoopOK
<1>8. ASSUME pc \in {"recv", "send"} PROVE Head(todo) \in Sides
  <2>1. todo \in Todos /\ todo # <<>>
    BY Zenon, <1>0, <1>8 DEF LoopOK
  <2>2. QED
    BY <2>1, TodoFacts
<1>9. ASSUME Recv PROVE TInv'
  <2>1. PICK side, n : side = Head(todo) /\ n = Smaller(Unread(side), BufferSize)
    OBVIOUS
  <2>2. /\ pc = "recv" /\ read' = [read EXCEPT ![side] = @ + n]
        /\ is_transfer_failure' = (is_transfer_failure \/ n = 0) /\ UNCHANGED recv_failed
        /\ Received(side, Filled(side, n), n)
    BY Zenon, <1>9, <2>1 DEF Recv
  <2>3. pc \in {"recv", "send"}
    BY SMT, <2>2
  <2>4. side \in Sides
    BY Zenon, <1>8, <2>1, <2>3
  <2>5. n \in 0..BufferSize /\ read[side] + n \in Nat /\ read[side] + n <= sent[side]
    BY <2>1, <2>4, ReadAmount
  <2>6. Filled(side, n) \in Buffers
    BY <2>4, FilledType
  <2>7. LoopOK' /\ UNCHANGED <<peers, out>>
    BY Zenon, <1>7, <2>2, <2>5, <2>6
  <2>8. read' \in [Sides -> Nat]
    BY SMT, <1>0, <2>2, <2>4, <2>5 DEF StreamsOK
  <2>9. \A s \in Sides : read'[s] = IF s = side THEN read[s] + n ELSE read[s]
    <3>1. read \in [Sides -> Nat]
      BY Zenon, <1>0 DEF StreamsOK
    <3>2. QED
      BY SMT, <2>2, <2>4, <3>1
  <2>10. StreamsOK'
    BY Zenon, <1>0, <2>5, <2>7, <2>8, <2>9 DEF StreamsOK, Total, Space
  <2>11. FlagsOK'
    BY Zenon, <1>0, <2>2, <2>7 DEF FlagsOK
  <2>12. QED
    BY Zenon, <1>1, <2>7, <2>10, <2>11
<1>10. ASSUME RecvFails PROVE TInv'
  <2>1. /\ pc = "recv" /\ is_transfer_failure' = TRUE /\ recv_failed' = TRUE /\ UNCHANGED read
        /\ Received(Head(todo), buffer, last_char)
    BY Zenon, <1>10 DEF RecvFails
  <2>2. buffer \in Buffers /\ last_char \in 0..BufferSize
    BY Zenon, <1>0 DEF LoopOK
  <2>3. LoopOK' /\ UNCHANGED <<peers, out>>
    BY Zenon, <1>7, <2>1, <2>2
  <2>4. FlagsOK'
    BY Zenon, <1>0, <2>1, <2>3 DEF FlagsOK
  <2>5. QED
    BY Zenon, <1>1, <1>2, <2>1, <2>3, <2>4
<1>11. ASSUME SendPart PROVE TInv'
  <2>1. PICK to : to = Other(Head(todo))
    OBVIOUS
  <2>2. PICK n \in Nat, piece \in Seq(Unit) :
                /\ offset + n <= last_char /\ offset' = offset + n
                /\ Len(piece) = n /\ n <= Space(to)
                /\ out' = [out EXCEPT ![to] = @ \o piece]
    BY Zenon, <1>11, <2>1, SendPartType
  <2>3. /\ UNCHANGED <<peers, input, pc, todo, buffer, last_char, is_transfer_failure>>
        /\ Head(todo) \in Sides
    BY Zenon, <1>11, SendPartType
  <2>4. to \in Sides
    BY SMT, <2>1, <2>3 DEF Other, Sides
  <2>5. out \in [Sides -> Seq(Unit)] /\ taken \in [Sides -> Nat]
    BY Zenon, <1>0 DEF StreamsOK
  <2>6. PICK U : U = Seq(Unit)
    OBVIOUS
  <2>7. out[to] \in Seq(Unit) /\ out[to] \o piece \in Seq(Unit)
        /\ Len(out[to] \o piece) = Len(out[to]) + n /\ Len(out[to]) \in Nat
    <3>1. out[to] \in Seq(Unit)
      BY Zenon, <2>4, <2>5
    <3>2. \A x \in Seq(Unit) : x \o piece \in Seq(Unit) /\ Len(x \o piece) = Len(x) + Len(piece)
                               /\ Len(x) \in Nat
      BY SMT
    <3>3. QED
      BY Zenon, <2>2, <3>1, <3>2
  <2>8. out' \in [Sides -> Seq(Unit)]
        /\ \A s \in Sides : out'[s] = IF s = to THEN out[to] \o piece ELSE out[s]
    <3>1. out \in [Sides -> U] /\ out[to] \o piece \in U
      BY Zenon, <2>5, <2>6, <2>7
    <3>2. out' \in [Sides -> U] /\ \A s \in Sides : out'[s] = IF s = to THEN out[to] \o piece ELSE out[s]
      BY Zenon, <2>2, <2>4, <3>1
    <3>3. QED
      BY Zenon, <2>6, <3>2
  <2>9. ASSUME NEW s \in Sides PROVE Space(s)' \in 0..Window
    <3>1. Space(s) \in 0..Window /\ taken'[s] = taken[s] /\ taken[s] \in Nat
      BY Zenon, <1>0, <2>3, <2>5 DEF StreamsOK
    <3>2. CASE s = to
      <4>1. Len(out'[s]) = Len(out[s]) + n /\ Len(out[s]) \in Nat
        BY Zenon, <2>7, <2>8, <3>2
      <4>2. Space(s) = Window - (Len(out[s]) - taken[s]) /\ Space(s)' = Window - (Len(out'[s]) - taken[s])
        BY Zenon, <3>1 DEF Space
      <4>3. Window \in Nat /\ n <= Space(s)
        BY Zenon, <2>2, <3>2, BoundsAssumption
      <4>4. Space(s)' = Space(s) - n
        BY SMT, <3>1, <4>1, <4>2, <4>3
      <4>5. QED
        BY SMT, <3>1, <4>3, <4>4
    <3>3. CASE s # to
      BY Zenon, <2>8, <3>1, <3>3 DEF Space
    <3>4. QED
      BY Zenon, <3>2, <3>3
  <2>10. StreamsOK'
    BY Zenon, <1>0, <2>3, <2>8, <2>9 DEF StreamsOK, Total
  <2>11. offset' \in 0..last_char'
    BY SMT, <1>0, <2>2, <2>3, BoundsAssumption DEF LoopOK
  <2>12. LoopOK'
    BY Zenon, <1>0, <2>3, <2>11 DEF LoopOK
  <2>13. QED
    BY Zenon, <1>1, <1>4, <2>3, <2>10, <2>12
<1>12. ASSUME NextLeg, pc = "send", offset' \in 0..last_char, UNCHANGED <<buffer, last_char>>
       PROVE  LoopOK'
  <2>1. pc \in {"recv", "send"}
    BY SMT, <1>12
  <2>2. todo \in Todos /\ todo # <<>>
    BY Zenon, <1>0, <2>1 DEF LoopOK
  <2>3. Tail(todo) \in {<<>>, <<"server">>} /\ (Len(todo) = 1 <=> Tail(todo) = <<>>)
    BY <2>2, TodoFacts
  <2>4. todo' = Tail(todo) /\ pc' = IF Len(todo) = 1 THEN "check" ELSE "recv"
    BY Zenon, <1>12 DEF NextLeg
  <2>5. todo' \in Todos
    BY Zenon, <2>3, <2>4 DEF Todos
  <2>6. pc' \in {"check", "poll", "recv", "send", "closed"} /\ (pc' \in {"recv", "send"} => todo' # <<>>)
    BY SMT, <2>3, <2>4
  <2>7. QED
    BY Zenon, <1>0, <1>12, <2>5, <2>6 DEF LoopOK
<1>13. ASSUME SendFails PROVE TInv'
  <2>1. /\ pc = "send" /\ is_transfer_failure' = TRUE /\ offset' = last_char /\ NextLeg
        /\ UNCHANGED <<peers, input, out, buffer, last_char>>
    BY Zenon, <1>13 DEF SendFails, Leg
  <2>2. offset' \in 0..last_char
    BY SMT, <1>0, <2>1, BoundsAssumption DEF LoopOK
  <2>3. LoopOK'
    BY Zenon, <1>12, <2>1, <2>2
  <2>4. FlagsOK'
    BY Zenon, <1>0, <2>1 DEF FlagsOK
  <2>5. QED
    BY Zenon, <1>1, <1>2, <2>1, <2>3, <2>4
<1>14. ASSUME SendReturns PROVE TInv'
  <2>1. /\ pc = "send" /\ NextLeg
        /\ UNCHANGED <<peers, input, out, buffer, last_char, offset, is_transfer_failure>>
    BY Zenon, <1>14 DEF SendReturns
  <2>2. offset' \in 0..last_char
    BY Zenon, <1>0, <2>1 DEF LoopOK
  <2>3. LoopOK'
    BY Zenon, <1>12, <2>1, <2>2
  <2>4. QED
    BY Zenon, <1>1, <1>2, <1>4, <2>1, <2>3
<1>15. ASSUME NEW side \in Sides, PeerSends(side) PROVE TInv'
  <2>1. /\ sent[side] < Total(side) /\ sent' = [sent EXCEPT ![side] = @ + 1]
        /\ UNCHANGED <<script, fin, resets, taken, stop_flag, input, out, loop>>
    BY Zenon, <1>15 DEF PeerSends
  <2>2. sent \in [Sides -> Nat] /\ read \in [Sides -> Nat]
    BY Zenon, <1>0 DEF StreamsOK
  <2>3. sent' \in [Sides -> Nat] /\ \A s \in Sides : sent'[s] = IF s = side THEN sent[s] + 1 ELSE sent[s]
    BY SMT, <2>1, <2>2
  <2>4. Total(side) \in Nat
    <3>1. script \in Seq({"request", "proxy", "data"})
      BY Zenon, <1>0, BoundsAssumption DEF FlagsOK
    <3>2. Len(script) \in Nat /\ ServerUnits \in Nat
      BY SMT, <3>1, BoundsAssumption
    <3>3. QED
      BY Zenon, <3>2 DEF Total
  <2>5. read[side] <= sent[side] /\ sent[side] \in Nat /\ read[side] \in Nat
    BY Zenon, <1>0, <2>2 DEF StreamsOK
  <2>6. read[side] <= sent[side] + 1 /\ sent[side] + 1 <= Total(side)
    BY SMT, <2>1, <2>4, <2>5
  <2>7. StreamsOK'
    BY Zenon, <1>0, <2>1, <2>3, <2>6 DEF StreamsOK, Total, Space
  <2>8. FlagsOK'
    BY Zenon, <1>0, <2>1 DEF FlagsOK
  <2>9. QED
    BY Zenon, <1>1, <1>3, <2>1, <2>7, <2>8
<1>16. ASSUME NEW side \in Sides, PeerEnds(side) \/ PeerResets(side) \/ Signal PROVE TInv'
  <2>1. UNCHANGED <<script, sent, taken, input, out, loop>>
    BY Zenon, <1>16 DEF PeerEnds, PeerResets, Signal
  <2>2. fin' \in [Sides -> BOOLEAN]
    <3>1. fin \in [Sides -> BOOLEAN]
      BY Zenon, <1>0 DEF FlagsOK
    <3>2. fin' = fin \/ fin' = [fin EXCEPT ![side] = TRUE]
      BY Zenon, <1>16 DEF PeerEnds, PeerResets, Signal
    <3>3. QED
      BY Zenon, <3>1, <3>2
  <2>3. resets' \subseteq Sides
    BY Zenon, <1>0, <1>16 DEF PeerEnds, PeerResets, Signal, FlagsOK
  <2>4. stop_flag' \in BOOLEAN
    BY Zenon, <1>0, <1>16 DEF PeerEnds, PeerResets, Signal, FlagsOK
  <2>5. FlagsOK'
    BY Zenon, <1>0, <2>1, <2>2, <2>3, <2>4 DEF FlagsOK
  <2>6. QED
    BY Zenon, <1>1, <1>2, <1>3, <2>1, <2>5
<1>17. ASSUME NEW side \in Sides, PeerReads(side) PROVE TInv'
  <2>1. /\ taken[side] < Len(out[side]) /\ taken' = [taken EXCEPT ![side] = Len(out[side])]
        /\ UNCHANGED <<script, sent, fin, resets, stop_flag, input, out, loop>>
    BY Zenon, <1>17 DEF PeerReads
  <2>2. taken \in [Sides -> Nat] /\ out[side] \in Seq(Unit)
    BY Zenon, <1>0 DEF StreamsOK
  <2>3. Len(out[side]) \in Nat
    BY SMT, <2>2
  <2>4. taken' \in [Sides -> Nat]
        /\ \A s \in Sides : taken'[s] = IF s = side THEN Len(out[side]) ELSE taken[s]
    BY Zenon, <2>1, <2>2, <2>3
  <2>5. Window - (Len(out[side]) - Len(out[side])) \in 0..Window
    BY SMT, <2>3, BoundsAssumption
  <2>6. StreamsOK'
    BY Zenon, <1>0, <2>1, <2>4, <2>5 DEF StreamsOK, Total, Space
  <2>7. FlagsOK'
    BY Zenon, <1>0, <2>1 DEF FlagsOK
  <2>8. QED
    BY Zenon, <1>1, <1>3, <2>1, <2>6, <2>7
<1>18. ASSUME UNCHANGED vars PROVE TInv'
  BY Zenon, <1>1, <1>2, <1>3, <1>4, <1>18 DEF vars
<1>19. "client" \in Sides
  BY Zenon DEF Sides
<1>20. QED
  BY Zenon, <1>5, <1>6, <1>9, <1>10, <1>11, <1>13, <1>14, <1>15, <1>16, <1>17, <1>18, <1>19
  DEF Next, Loop, Peer, Over

\* The variables of the relay keep their types: no read is longer than the buffer, nothing
\* behind last_char is sent, and no socket takes more than its window.
THEOREM TypeCorrect == Spec => []TypeOK
<1>1. TInv /\ [Next]_vars => TInv'
  BY TypeStep
<1>2. TInv => TypeOK
  BY DEF TInv
<1>3. QED
  BY TypeInit, <1>1, <1>2, PTL DEF Spec

-----------------------------------------------------------------------------
(* What has been forwarded.                                                *)

\* No request follows a header: the one thing that lets remove_proxy_strings find a header
\* of an earlier read is excluded; scripts without headers, and connections that are not
\* rewritten, are all admitted.
HeadersLast ==
    "http" \in Events =>
       \A scr \in Scripts : \A i, j \in 1..Len(scr) :
          scr[i] = "proxy" /\ scr[j] = "request" => j < i

\* Client units in the buffer have been read.
OldUnits == \A i \in 1..BufferSize : buffer[i][1] = "client" => buffer[i][2] \in 1..read["client"]

\* Until a read fails: what was forwarded, and the part of the buffer still to be sent, is
\* what was read; or a send failed, the rest was dropped, and this side is not read again.
Pending(s) ==
    IF pc = "send" /\ Head(todo) = s THEN SubSeq(buffer, offset + 1, last_char) ELSE <<>>
Exact(s) == Payload(out[Other(s)]) \o Payload(Pending(s)) = Payload(Stream(s, read[s]))
NotAgain(s) ==
    \/ pc \in {"check", "closed"}
    \/ pc \in {"recv", "send"} /\ s # Head(todo) /\ (s = "server" => Tail(todo) = <<>>)
Dropped(s) ==
    /\ is_transfer_failure /\ Other(s) \in resets /\ NotAgain(s)
    /\ IsPrefix(Payload(out[Other(s)]), Payload(Stream(s, read[s])))
ForwardInv == ~recv_failed => \A s \in Sides : Exact(s) \/ Dropped(s)

\* A socket is read because it is ready; the loop fails because a call failed or a stream
\* ended with all of it read; and it closes for one of the known reasons.
EndInv ==
    /\ pc = "recv" => PollIn(Head(todo))
    /\ pc \in {"recv", "send"} /\ Tail(todo) # <<>> => PollIn("server")
    /\ is_transfer_failure =>
         recv_failed \/ resets # {} \/ \E e \in Sides : fin[e] /\ read[e] = sent[e]
    /\ pc = "closed" => stop_flag \/ is_transfer_failure \/ resets # {}

-----------------------------------------------------------------------------
(* Facts about streams.                                                    *)

\* Sequences are equal when their elements are.
LEMMA SameElements ==
    ASSUME NEW S, NEW a \in Seq(S), NEW b \in Seq(S), Len(a) = Len(b),
           \A i \in 1..Len(a) : a[i] = b[i]
    PROVE  a = b
BY SMT

\* Prefixes.
LEMMA PrefixFacts ==
    ASSUME NEW S, NEW a \in Seq(S), NEW b \in Seq(S)
    PROVE  /\ a \o b \in Seq(S) /\ Len(a \o b) = Len(a) + Len(b)
           /\ IsPrefix(a, a \o b)
           /\ a \o <<>> = a /\ (Len(b) = 0 => a \o b = a) /\ Len(b) \in Nat
<1>1. a \o b \in Seq(S) /\ Len(a \o b) = Len(a) + Len(b) /\ Len(a) \in Nat /\ Len(b) \in Nat
  BY SMT
<1>2. PICK c : c = a \o b
  OBVIOUS
<1>3. c \in Seq(S) /\ Len(c) = Len(a) + Len(b) /\ \A i \in 1..Len(a) : c[i] = a[i]
  BY SMT, <1>2
<1>4. PICK u, v : u = SubSeq(a, 1, Len(a)) /\ v = SubSeq(c, 1, Len(a))
  OBVIOUS
<1>5. u \in Seq(S) /\ Len(u) = Len(a) /\ \A i \in 1..Len(a) : u[i] = a[i]
  BY SMT, <1>1, <1>4
<1>6. Len(a) <= Len(c)
  BY SMT, <1>1, <1>3
<1>7. v \in Seq(S) /\ Len(v) = Len(a) /\ \A i \in 1..Len(a) : v[i] = c[i]
  BY SMT, <1>1, <1>3, <1>4, <1>6
<1>8. u = v
  <2>1. \A i \in 1..Len(u) : u[i] = v[i]
    BY Zenon, <1>3, <1>5, <1>7
  <2>2. Len(u) = Len(v)
    BY Zenon, <1>5, <1>7
  <2>3. QED
    BY <1>5, <1>7, <2>1, <2>2, SameElements
<1>9. IsPrefix(a, a \o b)
  BY Zenon, <1>2, <1>4, <1>6, <1>8 DEF IsPrefix
<1>10. a \o <<>> = a
  BY SMT
<1>11. Len(b) = 0 => a \o b = a
  BY SMT
<1>12. QED
  BY Zenon, <1>1, <1>9, <1>10, <1>11

\* A prefix stays one when the stream grows.
LEMMA PrefixGrows ==
    ASSUME NEW S, NEW a \in Seq(S), NEW b \in Seq(S), NEW c \in Seq(S), IsPrefix(a, b)
    PROVE  IsPrefix(a, b \o c)
<1>1. Len(a) <= Len(b) /\ SubSeq(a, 1, Len(a)) = SubSeq(b, 1, Len(a))
  BY Zenon DEF IsPrefix
<1>2. PICK d : d = b \o c
  OBVIOUS
<1>3. d \in Seq(S) /\ Len(d) = Len(b) + Len(c) /\ \A i \in 1..Len(b) : d[i] = b[i]
  BY SMT, <1>2
<1>4. Len(a) \in Nat /\ Len(b) \in Nat /\ Len(c) \in Nat
  BY SMT
<1>5. Len(a) <= Len(d)
  BY SMT, <1>1, <1>3, <1>4
<1>6. PICK u, v : u = SubSeq(b, 1, Len(a)) /\ v = SubSeq(d, 1, Len(a))
  OBVIOUS
<1>7. u \in Seq(S) /\ Len(u) = Len(a) /\ \A i \in 1..Len(a) : u[i] = b[i]
  BY SMT, <1>1, <1>4, <1>6
<1>8. v \in Seq(S) /\ Len(v) = Len(a) /\ \A i \in 1..Len(a) : v[i] = d[i]
  BY SMT, <1>3, <1>4, <1>5, <1>6
<1>9. \A i \in 1..Len(a) : i \in 1..Len(b)
  BY SMT, <1>1, <1>4
<1>10. u = v
  BY SMT, <1>3, <1>7, <1>8, <1>9
<1>11. QED
  BY Zenon, <1>1, <1>2, <1>5, <1>6, <1>10 DEF IsPrefix

\* What a read takes from a stream.
Chunk(s, from, n) == [i \in 1..n |-> <<s, from + i>>]

\* A stream is what was read of it before and what is read now.
LEMMA StreamSplit ==
    ASSUME NEW s \in Sides, NEW from \in Nat, NEW n \in Nat
    PROVE  /\ Stream(s, from) \in Seq(Unit) /\ Chunk(s, from, n) \in Seq(Unit)
           /\ Len(Chunk(s, from, n)) = n
           /\ Stream(s, from + n) = Stream(s, from) \o Chunk(s, from, n)
<1>1. \A i \in Nat : <<s, i>> \in Unit
  BY SMT DEF Unit, Sides
<1>2. Stream(s, from) \in [1..from -> Unit] /\ \A i \in 1..from : Stream(s, from)[i] = <<s, i>>
  BY SMT, <1>1 DEF Stream
<1>3. /\ Chunk(s, from, n) \in [1..n -> Unit]
      /\ \A i \in 1..n : Chunk(s, from, n)[i] = <<s, from + i>>
  BY SMT, <1>1 DEF Chunk
<1>4. /\ Stream(s, from + n) \in [1..(from + n) -> Unit]
      /\ \A i \in 1..(from + n) : Stream(s, from + n)[i] = <<s, i>>
  BY SMT, <1>1 DEF Stream
<1>5. PICK a, b, c, U : a = Stream(s, from) /\ b = Chunk(s, from, n) /\ c = Stream(s, from + n) /\ U = Unit
  OBVIOUS
<1>6. a \in Seq(U) /\ Len(a) = from /\ \A i \in 1..from : a[i] = <<s, i>>
  BY <1>2, <1>5
<1>7. b \in Seq(U) /\ Len(b) = n /\ \A i \in 1..n : b[i] = <<s, from + i>>
  BY <1>3, <1>5
<1>8. c \in Seq(U) /\ Len(c) = from + n /\ \A i \in 1..(from + n) : c[i] = <<s, i>>
  BY <1>4, <1>5
<1>9. PICK d : d = a \o b
  OBVIOUS
<1>10. /\ d \in Seq(U) /\ Len(d) = from + n /\ \A i \in 1..from : d[i] = a[i]
       /\ \A i \in (from + 1)..(from + n) : d[i] = b[i - from]
  <2>1. /\ d \in Seq(U) /\ Len(d) = Len(a) + Len(b) /\ \A i \in 1..Len(a) : d[i] = a[i]
        /\ \A i \in (Len(a) + 1)..(Len(a) + Len(b)) : d[i] = b[i - Len(a)]
    <3>1. a \in Seq(U) /\ b \in Seq(U)
      BY Zenon, <1>6, <1>7
    <3>2. QED
      BY SMT, <1>9, <3>1
  <2>2. QED
    BY Zenon, <1>6, <1>7, <2>1
<1>11. \A i \in 1..(from + n) : d[i] = <<s, i>>
  <2> SUFFICES ASSUME NEW i \in 1..(from + n) PROVE d[i] = <<s, i>>
    OBVIOUS
  <2>1. CASE i \in 1..from
    BY Zenon, <1>6, <1>10, <2>1
  <2>2. CASE i \notin 1..from
    <3>1. i \in (from + 1)..(from + n) /\ i - from \in 1..n /\ from + (i - from) = i
      BY SMT, <2>2
    <3>2. QED
      BY Zenon, <1>7, <1>10, <3>1
  <2>3. QED
    BY Zenon, <2>1, <2>2
<1>12. c = d
  BY SMT, <1>8, <1>10, <1>11
<1>13. QED
  BY Zenon, <1>5, <1>6, <1>7, <1>9, <1>12

\* A stream with one of its headers taken out has the same payload.
LEMMA HeaderRemoved ==
    ASSUME NEW U, NEW scr, NEW n \in Nat, NEW f \in 1..n,
           NEW chunk \in Seq(U), Len(chunk) = n, IsHeader(scr, chunk[f]),
           NEW short \in Seq(U), Len(short) = n - 1,
           \A i \in 1..(n - 1) : short[i] = IF i < f THEN chunk[i] ELSE chunk[i + 1]
    PROVE  WithoutHeaders(scr, short) = WithoutHeaders(scr, chunk)
<1>1. PICK a, b, h : a = SubSeq(chunk, 1, f - 1) /\ b = SubSeq(chunk, f + 1, n) /\ h = chunk[f]
  OBVIOUS
<1>2. h \in U
  BY SMT, <1>1
<1>3. a \in Seq(U) /\ Len(a) = f - 1 /\ \A i \in 1..(f - 1) : a[i] = chunk[i]
  BY SMT, <1>1
<1>4. b \in Seq(U) /\ Len(b) = n - f /\ \A i \in 1..(n - f) : b[i] = chunk[f + i]
  BY SMT, <1>1
<1>5. PICK ah : ah = Append(a, h)
  OBVIOUS
<1>6. ah \in Seq(U) /\ Len(ah) = f /\ ah[f] = h /\ \A i \in 1..(f - 1) : ah[i] = a[i]
  BY SMT, <1>2, <1>3, <1>5
<1>7. chunk = ah \o b
  <2>1. PICK c : c = ah \o b
    OBVIOUS
  <2>2. /\ c \in Seq(U) /\ Len(c) = Len(ah) + Len(b) /\ \A i \in 1..Len(ah) : c[i] = ah[i]
        /\ \A i \in (Len(ah) + 1)..(Len(ah) + Len(b)) : c[i] = b[i - Len(ah)]
    <3>1. ah \in Seq(U) /\ b \in Seq(U)
      BY Zenon, <1>4, <1>6
    <3>2. QED
      BY SMT, <2>1, <3>1
  <2>3. Len(c) = n
    BY SMT, <1>4, <1>6, <2>2
  <2>4. ASSUME NEW i \in 1..n PROVE chunk[i] = c[i]
    <3>1. CASE i < f
      <4>1. i \in 1..(f - 1) /\ i \in 1..Len(ah)
        BY SMT, <1>6, <3>1
      <4>2. QED
        BY Zenon, <1>3, <1>6, <2>2, <4>1
    <3>2. CASE i = f
      <4>1. i \in 1..Len(ah)
        BY SMT, <1>6, <3>2
      <4>2. QED
        BY Zenon, <1>1, <1>6, <2>2, <3>2, <4>1
    <3>3. CASE i > f
      <4>1. /\ i \in (Len(ah) + 1)..(Len(ah) + Len(b)) /\ i - Len(ah) \in 1..(n - f)
            /\ f + (i - Len(ah)) = i
        BY SMT, <1>4, <1>6, <3>3
      <4>2. QED
        BY Zenon, <1>4, <2>2, <4>1
    <3>4. i < f \/ i = f \/ i > f
      BY SMT
    <3>5. QED
      BY Zenon, <3>1, <3>2, <3>3, <3>4
  <2>5. chunk = c
    BY <2>2, <2>3, <2>4, SameElements
  <2>6. QED
    BY Zenon, <2>1, <2>5
<1>8. short = a \o b
  <2>1. PICK c : c = a \o b
    OBVIOUS
  <2>2. /\ c \in Seq(U) /\ Len(c) = Len(a) + Len(b) /\ \A i \in 1..Len(a) : c[i] = a[i]
        /\ \A i \in (Len(a) + 1)..(Len(a) + Len(b)) : c[i] = b[i - Len(a)]
    <3>1. a \in Seq(U) /\ b \in Seq(U)
      BY Zenon, <1>3, <1>4
    <3>2. QED
      BY SMT, <2>1, <3>1
  <2>3. Len(c) = n - 1
    BY SMT, <1>3, <1>4, <2>2
  <2>4. ASSUME NEW i \in 1..(n - 1) PROVE short[i] = c[i]
    <3>1. CASE i < f
      <4>1. i \in 1..(f - 1) /\ i \in 1..Len(a)
        BY SMT, <1>3, <3>1
      <4>2. QED
        BY Zenon, <1>3, <2>2, <3>1, <4>1
    <3>2. CASE ~(i < f)
      <4>1. /\ i \in (Len(a) + 1)..(Len(a) + Len(b)) /\ i - Len(a) \in 1..(n - f)
            /\ f + (i - Len(a)) = i + 1
        BY SMT, <1>3, <1>4, <3>2
      <4>2. QED
        BY Zenon, <1>4, <2>2, <3>2, <4>1
    <3>3. QED
      BY Zenon, <3>1, <3>2
  <2>5. short = c
    BY <2>2, <2>3, <2>4, SameElements
  <2>6. QED
    BY Zenon, <2>1, <2>5
<1>9. WithoutHeaders(scr, ah) = WithoutHeaders(scr, a)
  <2>1. \A u \in Seq(U), x \in U :
          WithoutHeaders(scr, Append(u, x)) = Keep(scr, WithoutHeaders(scr, u), x)
    BY WithoutAppend
  <2>2. WithoutHeaders(scr, ah) = Keep(scr, WithoutHeaders(scr, a), h)
    BY Zenon, <1>2, <1>3, <1>5, <2>1
  <2>3. QED
    BY Zenon, <1>1, <2>2 DEF Keep
<1>10. \A u, v \in Seq(U) :
          WithoutHeaders(scr, u \o v) = WithoutHeaders(scr, u) \o WithoutHeaders(scr, v)
  BY SMTT(60), WithoutConcat
<1>11. WithoutHeaders(scr, ah \o b) = WithoutHeaders(scr, ah) \o WithoutHeaders(scr, b)
  BY Zenon, <1>4, <1>6, <1>10
<1>12. WithoutHeaders(scr, a \o b) = WithoutHeaders(scr, a) \o WithoutHeaders(scr, b)
  BY Zenon, <1>3, <1>4, <1>10
<1>13. QED
  BY Zenon, <1>7, <1>8, <1>9, <1>11, <1>12

\* What the rewriting does to what was read.
LEMMA RewriteCases ==
    ASSUME NEW side, NEW buf \in Buffers, NEW last \in 0..BufferSize, Received(side, buf, last)
    PROVE  \/ buffer' = buf /\ last_char' = last
           \/ /\ "http" \in Events /\ side = "client" /\ Kind(buf[1]) = "request" /\ last >= 1
              /\ last_char' = last - 1
              /\ \E f \in 1..BufferSize :
                   /\ Kind(buf[f]) = "proxy"
                   /\ \A i \in 1..BufferSize :
                        buffer'[i] = IF i < f THEN buf[i]
                                     ELSE IF i < BufferSize THEN buf[i + 1] ELSE Blank
<1>1. CASE ~(side = "client" /\ "http" \in Events)
  <2>1. PICK r : r = [buf |-> buf, last |-> last]
    OBVIOUS
  <2>2. r.buf = buf /\ r.last = last
    BY <2>1
  <2>3. buffer' = r.buf /\ last_char' = r.last
    BY Zenon, <1>1, <2>1 DEF Received
  <2>4. QED
    BY Zenon, <2>2, <2>3
<1>2. CASE side = "client" /\ "http" \in Events
  <2>1. PICK headers : headers = {i \in 1..BufferSize : Kind(buf[i]) = "proxy"}
    OBVIOUS
  <2>2. PICK first : first = CHOOSE i \in headers : \A j \in headers : i <= j
    OBVIOUS
  <2>3. PICK b : b = [i \in 1..BufferSize |->
                        IF i < first THEN buf[i] ELSE IF i < BufferSize THEN buf[i + 1] ELSE Blank]
    OBVIOUS
  <2>4. PICK r, q : r = [buf |-> b, last |-> last - 1] /\ q = [buf |-> buf, last |-> last]
    OBVIOUS
  <2>5. r.buf = b /\ r.last = last - 1 /\ q.buf = buf /\ q.last = last
    BY <2>4
  <2>6. RemoveProxyStrings(buf, last) =
          IF Kind(buf[1]) = "request" /\ headers # {} /\ last >= 1 THEN r ELSE q
    BY Zenon, <2>1, <2>2, <2>3, <2>4 DEF RemoveProxyStrings
  <2>7. /\ buffer' = RemoveProxyStrings(buf, last).buf
        /\ last_char' = RemoveProxyStrings(buf, last).last
    BY Zenon, <1>2 DEF Received
  <2>8. CASE Kind(buf[1]) = "request" /\ headers # {} /\ last >= 1
    <3>1. buffer' = b /\ last_char' = last - 1
      BY Zenon, <2>5, <2>6, <2>7, <2>8
    <3>2. headers \subseteq Nat
      BY SMT, <2>1
    <3>3. \E i \in headers : \A j \in headers : i <= j
      BY <2>8, <3>2, LeastNat
    <3>4. first \in headers
      BY Zenon, <2>2, <3>3
    <3>5. first \in 1..BufferSize /\ Kind(buf[first]) = "proxy"
      BY Zenon, <2>1, <3>4
    <3>6. \A i \in 1..BufferSize :
             buffer'[i] = IF i < first THEN buf[i] ELSE IF i < BufferSize THEN buf[i + 1] ELSE Blank
      BY Zenon, <2>3, <3>1
    <3>7. QED
      BY Zenon, <1>2, <2>8, <3>1, <3>5, <3>6
  <2>9. CASE ~(Kind(buf[1]) = "request" /\ headers # {} /\ last >= 1)
    BY Zenon, <2>5, <2>6, <2>7, <2>9
  <2>10. QED
    BY Zenon, <2>8, <2>9
<1>3. QED
  BY Zenon, <1>1, <1>2

-----------------------------------------------------------------------------
(* Client units in the buffer have been read.                              *)

OldIn(buf, r) == \A i \in 1..BufferSize : buf[i][1] = "client" => buf[i][2] \in 1..r

\* The rewriting brings nothing new.
LEMMA OldKept ==
    ASSUME NEW side, NEW buf \in Buffers, NEW last \in 0..BufferSize, NEW r,
           Received(side, buf, last), OldIn(buf, r)
    PROVE  OldIn(buffer', r)
<1>1. Blank[1] # "client"
  BY SMT DEF Blank
<1>2. \A i \in 1..BufferSize : i < BufferSize => i + 1 \in 1..BufferSize
  BY SMT, BoundsAssumption
<1>3. CASE buffer' = buf
  BY Zenon, <1>3
<1>4. ASSUME NEW f \in 1..BufferSize,
             \A i \in 1..BufferSize :
               buffer'[i] = IF i < f THEN buf[i] ELSE IF i < BufferSize THEN buf[i + 1] ELSE Blank
      PROVE  OldIn(buffer', r)
  <2> SUFFICES ASSUME NEW i \in 1..BufferSize, buffer'[i][1] = "client"
               PROVE  buffer'[i][2] \in 1..r
    BY Zenon DEF OldIn
  <2>1. CASE i < f
    <3>1. buffer'[i] = buf[i]
      BY Zenon, <1>4, <2>1
    <3>2. QED
      BY Zenon, <3>1 DEF OldIn
  <2>2. CASE ~(i < f) /\ i < BufferSize
    <3>1. buffer'[i] = buf[i + 1] /\ i + 1 \in 1..BufferSize
      BY Zenon, <1>2, <1>4, <2>2
    <3>2. QED
      BY Zenon, <3>1 DEF OldIn
  <2>3. CASE ~(i < f) /\ ~(i < BufferSize)
    <3>1. buffer'[i] = Blank
      BY Zenon, <1>4, <2>3
    <3>2. QED
      BY Zenon, <1>1, <3>1
  <2>4. QED
    BY Zenon, <2>1, <2>2, <2>3
<1>5. QED
  BY Zenon, <1>3, <1>4, RewriteCases

\* What recv() puts into the buffer counts as read afterwards.
LEMMA OldFilled ==
    ASSUME TInv, OldUnits, NEW side \in Sides, NEW n \in Nat, NEW r \in Nat,
           r = IF side = "client" THEN read["client"] + n ELSE read["client"]
    PROVE  OldIn(Filled(side, n), r)
<1>1. read["client"] \in Nat /\ read[side] \in Nat
  BY SMT DEF TInv, TypeOK, Sides
<1>2. read["client"] <= r
  BY SMT, <1>1
<1>3. \A i \in 1..BufferSize : Filled(side, n)[i] = IF i <= n THEN <<side, read[side] + i>> ELSE buffer[i]
  BY Zenon DEF Filled
<1>4. ASSUME NEW i \in 1..BufferSize, Filled(side, n)[i][1] = "client"
      PROVE  Filled(side, n)[i][2] \in 1..r
  <2>1. CASE i <= n
    <3>1. PICK u : u = <<side, read[side] + i>>
      OBVIOUS
    <3>2. u[1] = side /\ u[2] = read[side] + i
      BY SMT, <3>1
    <3>3. Filled(side, n)[i] = u
      BY Zenon, <1>3, <2>1, <3>1
    <3>4. side = "client"
      BY Zenon, <1>4, <3>2, <3>3
    <3>5. read[side] + i \in 1..r
      BY SMT, <1>1, <2>1, <3>4
    <3>6. QED
      BY Zenon, <3>2, <3>3, <3>5
  <2>2. CASE ~(i <= n)
    <3>1. Filled(side, n)[i] = buffer[i]
      BY Zenon, <1>3, <2>2
    <3>2. buffer[i][2] \in 1..read["client"]
      BY Zenon, <1>4, <3>1 DEF OldUnits
    <3>3. \A k \in 1..read["client"] : k \in 1..r
      BY SMT, <1>1, <1>2
    <3>4. QED
      BY Zenon, <3>1, <3>2, <3>3
  <2>3. QED
    BY Zenon, <2>1, <2>2
<1>5. QED
  BY Zenon, <1>4 DEF OldIn

\* The parts of a successful read.
LEMMA RecvParts ==
    ASSUME TInv, Recv
    PROVE  \E side \in Sides, n \in 0..BufferSize :
             /\ side = Head(todo) /\ n = Smaller(Unread(side), BufferSize) /\ pc = "recv"
             /\ read[side] \in Nat /\ read[side] + n \in Nat /\ read[side] + n <= sent[side]
             /\ (n = 0 => read[side] = sent[side])
             /\ \A s \in Sides : read'[s] = IF s = side THEN read[s] + n ELSE read[s]
             /\ is_transfer_failure' = (is_transfer_failure \/ n = 0) /\ UNCHANGED recv_failed
             /\ Filled(side, n) \in Buffers /\ Received(side, Filled(side, n), n)
<1>1. PICK side, n : side = Head(todo) /\ n = Smaller(Unread(side), BufferSize)
  OBVIOUS
<1>2. /\ pc = "recv" /\ read' = [read EXCEPT ![side] = @ + n]
      /\ is_transfer_failure' = (is_transfer_failure \/ n = 0) /\ UNCHANGED recv_failed
      /\ Received(side, Filled(side, n), n)
  BY Zenon, <1>1 DEF Recv
<1>3. side \in Sides
  <2>1. pc \in {"recv", "send"}
    BY SMT, <1>2
  <2>2. todo \in Todos /\ todo # <<>>
    BY Zenon, <2>1 DEF TInv, TypeOK, Todos
  <2>3. Head(todo) \in Sides
    BY <2>2, TodoFacts
  <2>4. QED
    BY Zenon, <1>1, <2>3
<1>4. /\ n \in 0..BufferSize /\ read[side] \in Nat
      /\ read[side] + n \in Nat /\ read[side] + n <= sent[side]
      /\ (n = 0 => read[side] = sent[side])
  BY <1>1, <1>3, ReadAmount
<1>5. Filled(side, n) \in Buffers
  BY <1>3, FilledType
<1>6. \A s \in Sides : read'[s] = IF s = side THEN read[s] + n ELSE read[s]
  <2>1. read \in [Sides -> Nat]
    BY Zenon DEF TInv, TypeOK
  <2>2. QED
    BY SMT, <1>2, <1>3, <2>1
<1>7. QED
  BY Zenon, <1>1, <1>2, <1>3, <1>4, <1>5, <1>6

\* Every step keeps it.
LEMMA OldStep == ASSUME TInv, OldUnits, [Next]_vars PROVE OldUnits'
<1> USE DEF peers, input, loop
<1>1. ASSUME UNCHANGED <<buffer, read>> PROVE OldUnits'
  BY Zenon, <1>1 DEF OldUnits
<1>2. ASSUME Recv PROVE OldUnits'
  <2>1. PICK side \in Sides, n \in 0..BufferSize :
             /\ \A s \in Sides : read'[s] = IF s = side THEN read[s] + n ELSE read[s]
             /\ Filled(side, n) \in Buffers /\ Received(side, Filled(side, n), n)
             /\ read[side] + n \in Nat
    BY Zenon, <1>2, RecvParts
  <2>2. "client" \in Sides /\ n \in Nat
    BY SMT, <2>1, BoundsAssumption DEF Sides
  <2>3. read' ["client"] = IF side = "client" THEN read["client"] + n ELSE read["client"]
    BY Zenon, <2>1, <2>2
  <2>4. read' ["client"] \in Nat
    BY SMT, <2>1, <2>2, <2>3 DEF TInv, TypeOK
  <2>5. OldIn(Filled(side, n), read'["client"])
    BY <2>1, <2>2, <2>3, <2>4, OldFilled
  <2>6. OldIn(buffer', read'["client"])
    BY Zenon, <2>1, <2>5, OldKept
  <2>7. QED
    BY Zenon, <2>6 DEF OldIn, OldUnits
<1>3. ASSUME RecvFails PROVE OldUnits'
  <2>1. UNCHANGED read /\ Received(Head(todo), buffer, last_char)
    BY Zenon, <1>3 DEF RecvFails
  <2>2. buffer \in Buffers /\ last_char \in 0..BufferSize /\ OldIn(buffer, read["client"])
    BY Zenon DEF TInv, TypeOK, Buffers, OldUnits, OldIn
  <2>3. OldIn(buffer', read["client"])
    BY Zenon, <2>1, <2>2, OldKept
  <2>4. QED
    BY Zenon, <2>1, <2>3 DEF OldUnits, OldIn
<1>4. QED
  BY Zenon, <1>1, <1>2, <1>3
  DEF Next, Loop, Check, PollReturns, SendPart, SendFails, SendReturns, Peer, PeerSends, PeerEnds,
      PeerReads, PeerResets, Signal, Over, vars

\* At the start there are none.
LEMMA OldInit == Init => OldUnits
<1> SUFFICES ASSUME Init, NEW i \in 1..BufferSize PROVE buffer[i][1] # "client"
  BY Zenon DEF OldUnits
<1>1. buffer[i] = <<"setup", i>>
  BY Zenon DEF Init
<1>2. QED
  BY SMT, <1>1

-----------------------------------------------------------------------------
(* What a read leaves to be sent is what it read, but for a header.        *)

\* Only a header of this very read is taken out.
LEMMA HeaderIsNew ==
    ASSUME HeadersLast, TInv, OldUnits, NEW n \in 1..BufferSize, NEW f \in 1..BufferSize,
           "http" \in Events, read["client"] + n <= sent["client"],
           Kind(Filled("client", n)[1]) = "request", Kind(Filled("client", n)[f]) = "proxy"
    PROVE  f <= n /\ IsHeader(script, <<"client", read["client"] + f>>)
<1>0. PICK r : r = read["client"]
  OBVIOUS
<1>1. r \in Nat /\ sent["client"] \in Nat /\ sent["client"] <= Len(script)
  <2>1. "client" \in Sides
    BY Zenon DEF Sides
  <2>2. QED
    BY Zenon, <1>0, <2>1 DEF TInv, TypeOK, Total
<1>2. script \in Scripts /\ script \in Seq({"request", "proxy", "data"})
  BY Zenon, BoundsAssumption DEF TInv, TypeOK
<1>3. Len(script) \in Nat
  BY SMT, <1>2
<1>4. 1 \in 1..BufferSize /\ 1 <= n /\ BufferSize \in Nat
  BY SMT, BoundsAssumption
<1>5. \A i \in 1..BufferSize : Filled("client", n)[i] = IF i <= n THEN <<"client", r + i>> ELSE buffer[i]
  BY Zenon, <1>0 DEF Filled
<1>6. \A i : <<"client", r + i>>[1] = "client" /\ <<"client", r + i>>[2] = r + i
  BY SMT
<1>7. script[r + 1] = "request"
  <2>1. Filled("client", n)[1] = <<"client", r + 1>>
    BY Zenon, <1>4, <1>5
  <2>2. QED
    BY Zenon, <1>6, <2>1 DEF Kind
<1>8. r + 1 \in 1..Len(script)
  BY SMT, <1>0, <1>1, <1>3, <1>4
<1>9. f <= n
  <2> SUFFICES ASSUME ~(f <= n) PROVE FALSE
    OBVIOUS
  <2>1. Filled("client", n)[f] = buffer[f]
    BY Zenon, <1>5
  <2>2. "proxy" # "data"
    BY SMT
  <2>3. buffer[f][1] = "client" /\ script[buffer[f][2]] = "proxy"
    BY Zenon, <2>1, <2>2 DEF Kind
  <2>4. PICK k : k = buffer[f][2]
    OBVIOUS
  <2>5. k \in 1..r
    BY Zenon, <1>0, <2>3, <2>4 DEF OldUnits
  <2>6. k \in 1..Len(script)
    BY SMT, <1>1, <1>3, <1>8, <2>5
  <2>7. r + 1 < k
    BY Zenon, <1>2, <1>7, <1>8, <2>3, <2>4, <2>6 DEF HeadersLast
  <2>8. QED
    BY SMT, <1>1, <2>5, <2>7
<1>10. Filled("client", n)[f] = <<"client", r + f>>
  BY Zenon, <1>5, <1>9
<1>11. script[r + f] = "proxy"
  BY Zenon, <1>6, <1>10 DEF Kind
<1>12. QED
  BY Zenon, <1>0, <1>6, <1>9, <1>11 DEF IsHeader

\* What is about to be sent after a read has the payload of what was read.
LEMMA ReceivedPayload ==
    ASSUME HeadersLast, TInv, OldUnits, NEW side \in Sides, NEW n \in 0..BufferSize,
           read[side] \in Nat, read[side] + n <= sent[side],
           Received(side, Filled(side, n), n)
    PROVE  /\ SubSeq(buffer', 0 + 1, last_char') \in Seq(Unit)
           /\ WithoutHeaders(script, SubSeq(buffer', 0 + 1, last_char')) =
                WithoutHeaders(script, Chunk(side, read[side], n))
<1>0. PICK r : r = read[side] /\ r \in Nat
  OBVIOUS
<1>1. BufferSize \in Nat /\ n \in Nat /\ 0 \in 0..BufferSize
  BY SMT, BoundsAssumption
<1>2. Filled(side, n) \in Buffers
  BY FilledType
<1>3. buffer' \in Buffers /\ last_char' \in 0..BufferSize
  BY Zenon, <1>2, ReceivedType
<1>4. PICK b, l, U : b = buffer' /\ l = last_char' /\ U = Unit
  OBVIOUS
<1>5. b \in [1..BufferSize -> U] /\ l \in 0..BufferSize
  BY Zenon, <1>3, <1>4 DEF Buffers
<1>6. /\ SubSeq(b, 0 + 1, l) \in Seq(U) /\ Len(SubSeq(b, 0 + 1, l)) = l - 0
      /\ \A i \in 1..(l - 0) : SubSeq(b, 0 + 1, l)[i] = b[0 + i]
  <2>1. \A x \in 0..BufferSize : \A y \in x..BufferSize :
             /\ SubSeq(b, x + 1, y) \in Seq(U) /\ Len(SubSeq(b, x + 1, y)) = y - x
             /\ \A i \in 1..(y - x) : SubSeq(b, x + 1, y)[i] = b[x + i]
    BY <1>1, <1>5, PieceType
  <2>2. QED
    BY Zenon, <1>1, <1>5, <2>1
<1>7. PICK short : short = SubSeq(b, 0 + 1, l)
  OBVIOUS
<1>8. short \in Seq(U) /\ Len(short) = l /\ \A i \in 1..l : short[i] = b[i]
  <2>1. l - 0 = l /\ \A i \in 1..l : 0 + i = i
    BY SMT, <1>1, <1>5
  <2>2. QED
    BY Zenon, <1>6, <1>7, <2>1
<1>9. PICK chunk : chunk = Chunk(side, r, n)
  OBVIOUS
<1>10. chunk \in Seq(U) /\ Len(chunk) = n
  <2>1. Chunk(side, r, n) \in Seq(Unit) /\ Len(Chunk(side, r, n)) = n
    BY <1>0, <1>1, StreamSplit
  <2>2. QED
    BY Zenon, <1>4, <1>9, <2>1
<1>11. \A i \in 1..n : chunk[i] = <<side, r + i>>
  BY Zenon, <1>9 DEF Chunk
<1>12. \A i \in 1..BufferSize : i <= n => Filled(side, n)[i] = <<side, r + i>>
  BY Zenon, <1>0 DEF Filled
<1>13. \A i \in 1..n : i \in 1..BufferSize /\ i <= n
  BY SMT, <1>1
<1>14. \A i \in 1..n : chunk[i] = Filled(side, n)[i]
  BY Zenon, <1>11, <1>12, <1>13
<1>15. CASE b = Filled(side, n) /\ l = n
  <2>1. \A i \in 1..Len(short) : short[i] = chunk[i]
    BY Zenon, <1>8, <1>14, <1>15
  <2>2. Len(short) = Len(chunk)
    BY Zenon, <1>8, <1>10, <1>15
  <2>3. short = chunk
    BY <1>8, <1>10, <2>1, <2>2, SameElements
  <2>4. QED
    BY Zenon, <1>0, <1>4, <1>7, <1>8, <1>9, <2>3
<1>16. ASSUME "http" \in Events, side = "client", Kind(Filled(side, n)[1]) = "request", n >= 1,
              l = n - 1, NEW f \in 1..BufferSize, Kind(Filled(side, n)[f]) = "proxy",
              \A i \in 1..BufferSize :
                 b[i] = IF i < f THEN Filled(side, n)[i]
                        ELSE IF i < BufferSize THEN Filled(side, n)[i + 1] ELSE Blank
       PROVE  WithoutHeaders(script, short) = WithoutHeaders(script, chunk)
  <2>1. n \in 1..BufferSize
    BY SMT, <1>1, <1>16
  <2>2. f <= n /\ IsHeader(script, <<"client", read["client"] + f>>)
    <3>1. read["client"] + n <= sent["client"] /\ Kind(Filled("client", n)[1]) = "request"
          /\ Kind(Filled("client", n)[f]) = "proxy"
      BY Zenon, <1>16
    <3>2. QED
      BY <1>16, <2>1, <3>1, HeaderIsNew
  <2>3. f \in 1..n
    BY SMT, <2>1, <2>2
  <2>4. IsHeader(script, chunk[f])
    BY Zenon, <1>0, <1>11, <1>16, <2>2, <2>3
  <2>5. ASSUME NEW i \in 1..(n - 1) PROVE short[i] = IF i < f THEN chunk[i] ELSE chunk[i + 1]
    <3>1. i \in 1..BufferSize /\ i < BufferSize /\ i \in 1..n /\ i + 1 \in 1..n /\ i \in 1..l
      BY SMT, <1>1, <1>16, <2>1
    <3>2. short[i] = b[i] /\ chunk[i] = Filled(side, n)[i] /\ chunk[i + 1] = Filled(side, n)[i + 1]
      BY Zenon, <1>8, <1>14, <3>1
    <3>3. QED
      BY Zenon, <1>16, <3>1, <3>2
  <2>6. Len(short) = n - 1
    BY Zenon, <1>8, <1>16
  <2>7. QED
    BY <1>1, <1>8, <1>10, <2>3, <2>4, <2>5, <2>6, HeaderRemoved
<1>17. CASE ~(b = Filled(side, n) /\ l = n)
  <2>1. /\ "http" \in Events /\ side = "client" /\ Kind(Filled(side, n)[1]) = "request" /\ n >= 1
        /\ l = n - 1
        /\ \E f \in 1..BufferSize :
             /\ Kind(Filled(side, n)[f]) = "proxy"
             /\ \A i \in 1..BufferSize :
                  b[i] = IF i < f THEN Filled(side, n)[i]
                         ELSE IF i < BufferSize THEN Filled(side, n)[i + 1] ELSE Blank
    BY Zenon, <1>2, <1>4, <1>17, RewriteCases
  <2>2. WithoutHeaders(script, short) = WithoutHeaders(script, chunk)
    BY Zenon, <1>16, <2>1
  <2>3. QED
    BY Zenon, <1>0, <1>4, <1>7, <1>8, <1>9, <2>2
<1>18. QED
  BY Zenon, <1>15, <1>17

-----------------------------------------------------------------------------
(* Why the loop ends.                                                      *)

\* The peers and the signal.
Outside == Signal \/ UNCHANGED vars \/ \E side \in Sides : Peer(side)

\* What they leave alone, and what they can only add to.
LEMMA OutsideStep ==
    ASSUME TInv, Outside
    PROVE  /\ UNCHANGED <<script, input, out, loop>> /\ (stop_flag => stop_flag') /\ resets \subseteq resets'
           /\ \A s \in Sides : /\ sent[s] \in Nat /\ sent'[s] \in Nat /\ sent[s] <= sent'[s]
                               /\ fin[s] => fin'[s] /\ sent'[s] = sent[s]
<1>1. sent \in [Sides -> Nat] /\ fin \in [Sides -> BOOLEAN]
  BY Zenon DEF TInv, TypeOK
<1>2. \A s \in Sides : sent[s] \in Nat /\ sent[s] <= sent[s]
  BY SMT, <1>1
<1>3. ASSUME UNCHANGED <<sent, fin>>
      PROVE  \A s \in Sides : /\ sent[s] \in Nat /\ sent'[s] \in Nat /\ sent[s] <= sent'[s]
                              /\ fin[s] => fin'[s] /\ sent'[s] = sent[s]
  BY Zenon, <1>2, <1>3
<1>4. CASE Signal
  BY Zenon, <1>3, <1>4 DEF Signal
<1>5. CASE UNCHANGED vars
  BY Zenon, <1>3, <1>5 DEF vars, peers
<1>6. ASSUME NEW side \in Sides, PeerSends(side)
      PROVE  /\ UNCHANGED <<script, input, out, loop, resets, stop_flag>>
             /\ \A s \in Sides : /\ sent[s] \in Nat /\ sent'[s] \in Nat /\ sent[s] <= sent'[s]
                                 /\ fin[s] => fin'[s] /\ sent'[s] = sent[s]
  <2>1. /\ ~fin[side] /\ sent' = [sent EXCEPT ![side] = @ + 1]
        /\ UNCHANGED <<script, fin, resets, taken, stop_flag, input, out, loop>>
    BY Zenon, <1>6 DEF PeerSends
  <2>2. \A s \in Sides : sent'[s] = IF s = side THEN sent[s] + 1 ELSE sent[s]
    BY Zenon, <1>1, <2>1
  <2>3. \A s \in Sides : sent[s] + 1 \in Nat /\ sent[s] <= sent[s] + 1
    BY SMT, <1>2
  <2>4. QED
    BY Zenon, <1>2, <2>1, <2>2, <2>3
<1>7. ASSUME NEW side \in Sides, PeerEnds(side)
      PROVE  /\ UNCHANGED <<script, input, out, loop, resets, stop_flag>>
             /\ \A s \in Sides : /\ sent[s] \in Nat /\ sent'[s] \in Nat /\ sent[s] <= sent'[s]
                                 /\ fin[s] => fin'[s] /\ sent'[s] = sent[s]
  <2>1. /\ fin' = [fin EXCEPT ![side] = TRUE]
        /\ UNCHANGED <<script, sent, resets, taken, stop_flag, input, out, loop>>
    BY Zenon, <1>7 DEF PeerEnds
  <2>2. \A s \in Sides : fin[s] => fin'[s]
    BY Zenon, <1>1, <2>1
  <2>3. QED
    BY Zenon, <1>2, <2>1, <2>2
<1>8. ASSUME NEW side \in Sides, PeerReads(side) \/ PeerResets(side)
      PROVE  /\ UNCHANGED <<script, input, out, loop, stop_flag, sent, fin>> /\ resets \subseteq resets'
  BY Zenon, <1>8 DEF PeerReads, PeerResets
<1>9. QED
  BY Zenon, <1>3, <1>4, <1>5, <1>6, <1>7, <1>8 DEF Outside, Peer

\* A socket that is ready stays ready until it is read.
LEMMA StaysReady ==
    ASSUME TInv, NEW s \in Sides, PollIn(s), read'[s] = read[s], fin[s] => fin'[s],
           sent'[s] \in Nat, sent[s] <= sent'[s]
    PROVE  PollIn(s)'
<1>1. read[s] \in Nat /\ sent[s] \in Nat
  BY Zenon DEF TInv, TypeOK
<1>2. CASE fin[s]
  BY Zenon, <1>2 DEF PollIn
<1>3. CASE Unread(s) > 0
  <2>1. sent'[s] - read'[s] > 0
    BY SMT, <1>1, <1>3 DEF Unread
  <2>2. QED
    BY Zenon, <2>1 DEF PollIn, Unread
<1>4. QED
  BY Zenon, <1>2, <1>3 DEF PollIn

\* At the start nothing has failed.
LEMMA EndInit == Init => EndInv
<1> SUFFICES ASSUME Init PROVE EndInv
  OBVIOUS
<1>1. pc = "check" /\ is_transfer_failure = FALSE
  BY Zenon DEF Init
<1>2. pc # "recv" /\ pc \notin {"recv", "send"} /\ pc # "closed"
  BY SMT, <1>1
<1>3. QED
  BY Zenon, <1>1, <1>2 DEF EndInv

\* Every step keeps it.
LEMMA EndStep == ASSUME TInv, EndInv, [Next]_vars PROVE EndInv'
<1>0. "client" \in Sides /\ "server" \in Sides
  BY Zenon DEF Sides
<1>1. \A s \in Sides : read[s] \in Nat /\ sent[s] \in Nat /\ sent[s] <= sent[s]
  BY SMT DEF TInv, TypeOK
<1>2. ASSUME pc \in {"recv", "send"}
      PROVE  /\ Head(todo) \in Sides /\ Tail(todo) \in {<<>>, <<"server">>}
             /\ (Tail(todo) # <<>> => Head(todo) = "client") /\ (Len(todo) = 1 <=> Tail(todo) = <<>>)
  <2>1. todo \in Todos /\ todo # <<>>
    BY Zenon, <1>2 DEF TInv, TypeOK, Todos
  <2>2. QED
    BY <2>1, TodoFacts
<1>3. CASE Outside
  <2>1. /\ UNCHANGED <<script, input, out, loop>> /\ (stop_flag => stop_flag') /\ resets \subseteq resets'
        /\ \A s \in Sides : /\ sent[s] \in Nat /\ sent'[s] \in Nat /\ sent[s] <= sent'[s]
                            /\ fin[s] => fin'[s] /\ sent'[s] = sent[s]
    BY <1>3, OutsideStep
  <2>2. UNCHANGED <<read, recv_failed, pc, todo, is_transfer_failure>>
    BY Zenon, <2>1 DEF input, loop
  <2>3. \A s \in Sides : PollIn(s) => PollIn(s)'
    <3> SUFFICES ASSUME NEW s \in Sides, PollIn(s) PROVE PollIn(s)'
      OBVIOUS
    <3>1. read'[s] = read[s] /\ (fin[s] => fin'[s]) /\ sent'[s] \in Nat /\ sent[s] <= sent'[s]
      BY Zenon, <2>1, <2>2
    <3>2. QED
      BY <3>1, StaysReady
  <2>4. pc = "recv" => pc \in {"recv", "send"}
    BY SMT
  <2>5. (pc = "recv" => PollIn(Head(todo)))'
    <3>1. SUFFICES ASSUME pc = "recv" PROVE PollIn(Head(todo))'
      BY Zenon, <2>2
    <3>2. PICK h \in Sides : h = Head(todo) /\ PollIn(h)
      BY Zenon, <1>2, <2>4, <3>1 DEF EndInv
    <3>3. PollIn(h)' /\ h = Head(todo')
      BY Zenon, <2>2, <2>3, <3>2
    <3>4. QED
      BY Zenon, <3>3 DEF PollIn, Unread
  <2>6. (pc \in {"recv", "send"} /\ Tail(todo) # <<>> => PollIn("server"))'
    BY Zenon, <1>0, <2>2, <2>3 DEF EndInv
  <2>7. (is_transfer_failure =>
         recv_failed \/ resets # {} \/ \E e \in Sides : fin[e] /\ read[e] = sent[e])'
    BY Zenon, <2>1, <2>2 DEF EndInv
  <2>8. (pc = "closed" => stop_flag \/ is_transfer_failure \/ resets # {})'
    BY Zenon, <2>1, <2>2 DEF EndInv
  <2>9. QED
    BY Zenon, <2>5, <2>6, <2>7, <2>8 DEF EndInv
<1>4. ASSUME UNCHANGED peers, UNCHANGED read PROVE \A s \in Sides : PollIn(s) => PollIn(s)'
  BY Zenon, <1>4 DEF PollIn, Unread, peers
<1>5. CASE Check
  <2>1. /\ pc' \in {"closed", "poll"} /\ (pc' = "closed" => stop_flag \/ is_transfer_failure)
        /\ UNCHANGED <<peers, input, out, todo, buffer, last_char, offset, is_transfer_failure>>
    <3>1. "poll" # "closed"
      BY SMT
    <3>2. QED
      BY Zenon, <1>5, <3>1 DEF Check
  <2>2. pc' # "recv" /\ pc' \notin {"recv", "send"}
    BY SMT, <2>1
  <2>3. QED
    BY Zenon, <2>1, <2>2 DEF EndInv, peers, input
<1>6. CASE PollReturns
  <2>1. /\ pc' = IF resets # {} THEN "closed" ELSE IF todo' = <<>> THEN "check" ELSE "recv"
        /\ todo' = Ready("client") \o Ready("server")
        /\ UNCHANGED <<peers, input, out, buffer, last_char, offset, is_transfer_failure>>
    BY Zenon, <1>6 DEF PollReturns
  <2>2. \A s \in Sides : PollIn(s) => PollIn(s)'
    BY Zenon, <1>4, <2>1 DEF input
  <2>3. /\ pc' \in {"recv", "send"} => pc' = "recv" /\ todo' # <<>>
        /\ pc' = "recv" => todo' # <<>>
        /\ pc' = "closed" => resets # {}
    BY SMT, <2>1
  <2>4. CASE PollIn("client")
    <3>1. Ready("client") = <<"client">> /\ Ready("server") \in {<<>>, <<"server">>}
          /\ (Ready("server") # <<>> => PollIn("server"))
      BY Zenon, <2>4 DEF Ready
    <3>2. <<"client">> \o <<>> = <<"client">> /\ Head(<<"client">>) = "client" /\ Tail(<<"client">>) = <<>>
      BY SMT
    <3>3. <<"client">> \o <<"server">> = <<"client", "server">>
      BY PairConcat
    <3>4. Head(<<"client", "server">>) = "client"
      BY SMT
    <3>5. Head(todo') = "client" /\ (Tail(todo') # <<>> => PollIn("server"))
      BY Zenon, <2>1, <3>1, <3>2, <3>3, <3>4
    <3>6. (PollIn(Head(todo)))' /\ (Tail(todo') # <<>> => PollIn("server")')
      BY Zenon, <1>0, <2>2, <2>4, <3>5 DEF PollIn, Unread
    <3>7. QED
      BY Zenon, <2>1, <2>3, <3>6 DEF EndInv, peers, input
  <2>5. CASE ~PollIn("client") /\ PollIn("server")
    <3>1. Ready("client") = <<>> /\ Ready("server") = <<"server">>
      BY Zenon, <2>5 DEF Ready
    <3>2. <<>> \o <<"server">> = <<"server">> /\ Head(<<"server">>) = "server"
      BY SMT
    <3>3. Head(todo') = "server" /\ PollIn("server")'
      BY Zenon, <1>0, <2>1, <2>2, <2>5, <3>1, <3>2
    <3>4. (PollIn(Head(todo)))'
      BY Zenon, <3>3 DEF PollIn, Unread
    <3>5. QED
      BY Zenon, <2>1, <2>3, <3>3, <3>4 DEF EndInv, peers, input
  <2>6. CASE ~PollIn("client") /\ ~PollIn("server")
    <3>1. Ready("client") = <<>> /\ Ready("server") = <<>>
      BY Zenon, <2>6 DEF Ready
    <3>2. <<>> \o <<>> = <<>>
      BY SMT
    <3>3. todo' = <<>>
      BY Zenon, <2>1, <3>1, <3>2
    <3>4. QED
      BY Zenon, <2>1, <2>3, <3>3 DEF EndInv, peers, input
  <2>7. QED
    BY Zenon, <2>4, <2>5, <2>6
<1>7. ASSUME pc = "recv", NEW b, NEW l, b \in Buffers, l \in 0..BufferSize, Received(Head(todo), b, l),
             \A s \in Sides : s # Head(todo) => read'[s] = read[s]
      PROVE  /\ pc' = "send" /\ UNCHANGED peers
             /\ (pc = "recv" => PollIn(Head(todo)))'
             /\ (pc \in {"recv", "send"} /\ Tail(todo) # <<>> => PollIn("server"))'
             /\ (pc = "closed" => stop_flag \/ is_transfer_failure \/ resets # {})'
  <2>1. pc' = "send" /\ UNCHANGED <<peers, out, todo>>
    BY Zenon, <1>7, ReceivedType
  <2>2. pc' # "recv" /\ pc' # "closed" /\ pc \in {"recv", "send"} /\ "client" # "server"
    BY SMT, <1>7, <2>1
  <2>3. ASSUME Tail(todo') # <<>> PROVE PollIn("server")'
    <3>1. Tail(todo) # <<>> /\ Head(todo) = "client" /\ PollIn("server")
      BY Zenon, <1>2, <2>1, <2>2, <2>3 DEF EndInv
    <3>2. read'["server"] = read["server"]
      BY Zenon, <1>0, <1>7, <2>2, <3>1
    <3>3. QED
      BY Zenon, <2>1, <3>1, <3>2 DEF PollIn, Unread, peers
  <2>4. QED
    BY Zenon, <2>1, <2>2, <2>3
<1>8. CASE Recv
  <2>1. PICK side \in Sides, n \in 0..BufferSize :
             /\ side = Head(todo) /\ n = Smaller(Unread(side), BufferSize) /\ pc = "recv"
             /\ read[side] \in Nat /\ read[side] + n \in Nat /\ read[side] + n <= sent[side]
             /\ (n = 0 => read[side] = sent[side])
             /\ \A s \in Sides : read'[s] = IF s = side THEN read[s] + n ELSE read[s]
             /\ is_transfer_failure' = (is_transfer_failure \/ n = 0) /\ UNCHANGED recv_failed
             /\ Filled(side, n) \in Buffers /\ Received(side, Filled(side, n), n)
    BY Zenon, <1>8, RecvParts
  <2>2. \A s \in Sides : s # Head(todo) => read'[s] = read[s]
    BY Zenon, <2>1
  <2>3. /\ pc' = "send" /\ UNCHANGED peers
        /\ (pc = "recv" => PollIn(Head(todo)))'
        /\ (pc \in {"recv", "send"} /\ Tail(todo) # <<>> => PollIn("server"))'
        /\ (pc = "closed" => stop_flag \/ is_transfer_failure \/ resets # {})'
    <3>1. PICK b, l : b = Filled(side, n) /\ l = n
      OBVIOUS
    <3>2. pc = "recv" /\ b \in Buffers /\ l \in 0..BufferSize /\ Received(Head(todo), b, l)
      BY Zenon, <2>1, <3>1
    <3>3. QED
      BY Zenon, <1>7, <2>2, <3>2
  <2>4. (is_transfer_failure =>
         recv_failed \/ resets # {} \/ \E e \in Sides : fin[e] /\ read[e] = sent[e])'
    <3>1. SUFFICES ASSUME is_transfer_failure \/ n = 0, ~recv_failed, resets = {}
                   PROVE  \E e \in Sides : fin'[e] /\ read'[e] = sent'[e]
      BY Zenon, <2>1, <2>3 DEF peers
    <3>2. CASE n = 0
      <4>1. PollIn(side) /\ read[side] = sent[side]
        BY Zenon, <2>1, <3>2 DEF EndInv
      <4>2. ~(Unread(side) > 0)
        BY SMT, <1>1, <2>1, <4>1 DEF Unread
      <4>3. read[side] + n = read[side]
        BY SMT, <2>1, <3>2
      <4>4. fin[side] /\ read'[side] = sent[side]
        BY Zenon, <2>1, <4>1, <4>2, <4>3 DEF PollIn
      <4>5. QED
        BY Zenon, <2>1, <2>3, <4>4 DEF peers
    <3>3. CASE is_transfer_failure
      <4>1. PICK e \in Sides : fin[e] /\ read[e] = sent[e]
        BY Zenon, <3>1, <3>3 DEF EndInv
      <4>2. e = side => read[e] + n = read[e]
        BY SMT, <1>1, <2>1, <4>1
      <4>3. read'[e] = read[e]
        BY Zenon, <2>1, <4>2
      <4>4. QED
        BY Zenon, <2>3, <4>1, <4>3 DEF peers
    <3>4. QED
      BY Zenon, <3>1, <3>2, <3>3
  <2>5. QED
    BY Zenon, <2>3, <2>4 DEF EndInv
<1>9. CASE RecvFails
  <2>1. /\ pc = "recv" /\ recv_failed' = TRUE /\ UNCHANGED read
        /\ Received(Head(todo), buffer, last_char)
    BY Zenon, <1>9 DEF RecvFails
  <2>2. buffer \in Buffers /\ last_char \in 0..BufferSize
    BY Zenon DEF TInv, TypeOK, Buffers
  <2>3. /\ (pc = "recv" => PollIn(Head(todo)))'
        /\ (pc \in {"recv", "send"} /\ Tail(todo) # <<>> => PollIn("server"))'
        /\ (pc = "closed" => stop_flag \/ is_transfer_failure \/ resets # {})'
    BY Zenon, <1>7, <2>1, <2>2
  <2>4. QED
    BY Zenon, <2>1, <2>3 DEF EndInv
<1>10. CASE SendPart
  <2>1. UNCHANGED <<peers, input, pc, todo, buffer, last_char, is_transfer_failure>>
    BY Zenon, <1>10 DEF SendPart
  <2>2. QED
    BY Zenon, <2>1 DEF EndInv, PollIn, Unread, peers, input
<1>11. ASSUME pc = "send", NextLeg, UNCHANGED <<peers, input>>,
              is_transfer_failure' => is_transfer_failure \/ resets # {}
       PROVE  EndInv'
  <2>1. todo' = Tail(todo) /\ pc' = IF Len(todo) = 1 THEN "check" ELSE "recv"
    BY Zenon, <1>11 DEF NextLeg
  <2>2. pc \in {"recv", "send"} /\ pc' # "closed" /\ pc' # "send" /\ (pc' = "recv" => Len(todo) # 1)
    BY SMT, <1>11, <2>1
  <2>3. Tail(todo) \in {<<>>, <<"server">>} /\ (Len(todo) = 1 <=> Tail(todo) = <<>>)
        /\ (Tail(todo) # <<>> => PollIn("server"))
    BY Zenon, <1>2, <2>2 DEF EndInv
  <2>4. Head(<<"server">>) = "server" /\ Tail(<<"server">>) = <<>>
    BY SMT
  <2>5. pc' = "recv" => Head(todo') = "server" /\ Tail(todo') = <<>> /\ PollIn("server")'
    BY Zenon, <1>0, <1>4, <1>11, <2>1, <2>2, <2>3, <2>4 DEF input
  <2>6. (pc = "recv" => PollIn(Head(todo)))'
    BY Zenon, <2>5 DEF PollIn, Unread
  <2>7. (pc \in {"recv", "send"} /\ Tail(todo) # <<>> => PollIn("server"))'
    BY Zenon, <2>2, <2>5
  <2>8. QED
    BY Zenon, <1>11, <2>2, <2>6, <2>7 DEF EndInv, peers, input
<1>12. CASE SendFails
  BY Zenon, <1>11, <1>12 DEF SendFails, Leg
<1>13. CASE SendReturns
  BY Zenon, <1>11, <1>13 DEF SendReturns
<1>14. QED
  BY Zenon, <1>3, <1>5, <1>6, <1>8, <1>9, <1>10, <1>12, <1>13 DEF Next, Loop, Outside, Over

-----------------------------------------------------------------------------
(* What was read is forwarded, or waits in the buffer.                     *)

\* Where the relay is with one of its sockets.
LEMMA AtHead ==
    ASSUME TInv, pc \in {"recv", "send"}
    PROVE  /\ Head(todo) \in Sides /\ Other(Head(todo)) \in Sides /\ Other(Head(todo)) # Head(todo)
           /\ Tail(todo) \in {<<>>, <<"server">>} /\ (Len(todo) = 1 <=> Tail(todo) = <<>>)
           /\ (Tail(todo) # <<>> => Head(todo) = "client")
<1>1. todo \in Todos /\ todo # <<>>
  BY Zenon DEF TInv, TypeOK, Todos
<1>2. QED
  BY <1>1, TodoFacts

\* A direction that a step does not touch.
LEMMA ExactStays ==
    ASSUME NEW s \in Sides, Exact(s), UNCHANGED script,
           ~(pc = "send" /\ Head(todo) = s), ~(pc' = "send" /\ Head(todo') = s),
           out'[Other(s)] = out[Other(s)], read'[s] = read[s]
    PROVE  Exact(s)'
BY Zenon DEF Exact, Payload, Pending, Stream

\* What was dropped stays dropped.
LEMMA DroppedStays ==
    ASSUME NEW s \in Sides, Dropped(s), UNCHANGED script, is_transfer_failure', resets \subseteq resets',
           NotAgain(s)', out'[Other(s)] = out[Other(s)], read'[s] = read[s]
    PROVE  Dropped(s)'
BY Zenon DEF Dropped, Payload, Stream, IsPrefix

\* At the start nothing was read.
LEMMA ForwardInit == Init => ForwardInv
<1> SUFFICES ASSUME Init, NEW s \in Sides PROVE Exact(s)
  BY Zenon DEF ForwardInv
<1>1. pc = "check" /\ out = [e \in Sides |-> <<>>] /\ read = [e \in Sides |-> 0]
  BY Zenon DEF Init
<1>2. Other(s) \in Sides /\ pc # "send"
  BY SMT, <1>1 DEF Sides, Other
<1>3. out[Other(s)] = <<>> /\ Pending(s) = <<>> /\ read[s] = 0
  BY Zenon, <1>1, <1>2 DEF Pending
<1>4. Stream(s, 0) = <<>> /\ <<>> \o <<>> = <<>>
  BY SMT DEF Stream
<1>5. QED
  BY Zenon, <1>3, <1>4, WithoutNothing DEF Exact, Payload

\* A read moves what was read into the buffer.
LEMMA ForwardRecv ==
    ASSUME HeadersLast, TInv, OldUnits, ForwardInv, Recv, ~recv_failed, NEW s \in Sides
    PROVE  Exact(s)' \/ Dropped(s)'
<1>1. PICK side \in Sides, n \in 0..BufferSize :
             /\ side = Head(todo) /\ n = Smaller(Unread(side), BufferSize) /\ pc = "recv"
             /\ read[side] \in Nat /\ read[side] + n \in Nat /\ read[side] + n <= sent[side]
             /\ (n = 0 => read[side] = sent[side])
             /\ \A e \in Sides : read'[e] = IF e = side THEN read[e] + n ELSE read[e]
             /\ is_transfer_failure' = (is_transfer_failure \/ n = 0) /\ UNCHANGED recv_failed
             /\ Filled(side, n) \in Buffers /\ Received(side, Filled(side, n), n)
  BY Zenon, RecvParts
<1>2. offset' = 0 /\ pc' = "send" /\ UNCHANGED <<peers, out, todo>>
  BY Zenon, <1>1, ReceivedType
<1>3. UNCHANGED <<script, resets>>
  BY Zenon, <1>2 DEF peers
<1>4. pc # "send" /\ pc # "check" /\ pc # "closed" /\ pc' \in {"recv", "send"}
  BY SMT, <1>1, <1>2
<1>5. Exact(s) \/ Dropped(s)
  BY Zenon DEF ForwardInv
<1>6. CASE s # side
  <2>1. out'[Other(s)] = out[Other(s)] /\ read'[s] = read[s] /\ Head(todo') # s
    BY Zenon, <1>1, <1>2, <1>6
  <2>2. CASE Exact(s)
    BY Zenon, <1>3, <1>4, <2>1, <2>2, ExactStays
  <2>3. CASE Dropped(s)
    <3>1. is_transfer_failure' /\ NotAgain(s)'
      BY Zenon, <1>1, <1>2, <1>4, <2>3 DEF Dropped, NotAgain
    <3>2. Dropped(s)'
      BY Zenon, <1>3, <2>1, <2>3, <3>1, DroppedStays
    <3>3. QED
      BY Zenon, <3>2
  <2>4. QED
    BY Zenon, <1>5, <2>2, <2>3
<1>7. CASE s = side
  <2>1. Exact(s)
    BY Zenon, <1>1, <1>4, <1>5, <1>7 DEF Dropped, NotAgain
  <2>2. PICK a, b, c, o, w : /\ a = Stream(s, read[s]) /\ b = Chunk(s, read[s], n) /\ o = out[Other(s)]
                             /\ c = SubSeq(buffer', 0 + 1, last_char')
                             /\ w = WithoutHeaders(script, b)
    OBVIOUS
  <2>3. a \in Seq(Unit) /\ b \in Seq(Unit) /\ Stream(s, read[s] + n) = a \o b
    <3>1. n \in Nat
      BY SMT, BoundsAssumption
    <3>2. read[s] \in Nat
      BY Zenon, <1>1, <1>7
    <3>3. QED
      BY <2>2, <3>1, <3>2, StreamSplit
  <2>4. c \in Seq(Unit) /\ WithoutHeaders(script, c) = w
    <3>1. /\ SubSeq(buffer', 0 + 1, last_char') \in Seq(Unit)
          /\ WithoutHeaders(script, SubSeq(buffer', 0 + 1, last_char')) =
               WithoutHeaders(script, Chunk(side, read[side], n))
      BY <1>1, ReceivedPayload
    <3>2. QED
      BY Zenon, <1>7, <2>2, <3>1
  <2>5. o \in Seq(Unit)
    <3>1. Other(s) \in Sides
      BY SMT DEF Other, Sides
    <3>2. QED
      BY Zenon, <2>2, <3>1 DEF TInv, TypeOK
  <2>6. WithoutHeaders(script, o) = WithoutHeaders(script, a)
    <3>1. WithoutHeaders(script, o) \o WithoutHeaders(script, <<>>) = WithoutHeaders(script, a)
      BY Zenon, <1>4, <2>1, <2>2 DEF Exact, Pending, Payload
    <3>2. WithoutHeaders(script, <<>>) = <<>>
      BY WithoutNothing
    <3>3. \A u \in Seq(Unit) : WithoutHeaders(script, u) \in Seq(Unit)
      BY WithoutType
    <3>4. PICK x : x = WithoutHeaders(script, o) /\ x \in Seq(Unit)
      BY Zenon, <2>5, <3>3
    <3>5. x \o <<>> = x
      BY SMT, <3>4
    <3>6. QED
      BY Zenon, <3>1, <3>2, <3>4, <3>5
  <2>7. WithoutHeaders(script, a \o b) = WithoutHeaders(script, a) \o w
    <3>1. \A u, v \in Seq(Unit) :
             WithoutHeaders(script, u \o v) = WithoutHeaders(script, u) \o WithoutHeaders(script, v)
      BY WithoutConcat
    <3>2. QED
      BY Zenon, <2>2, <2>3, <3>1
  <2>8. read'[s] = read[s] + n /\ out'[Other(s)] = o /\ Pending(s)' = c
    BY Zenon, <1>1, <1>2, <1>7, <2>2 DEF Pending
  <2>9. Stream(s, read'[s]) = a \o b
    BY Zenon, <2>3, <2>8
  <2>10. WithoutHeaders(script', out'[Other(s)]) \o WithoutHeaders(script', Pending(s)') =
           WithoutHeaders(script', Stream(s, read'[s]))
    BY Zenon, <1>3, <2>4, <2>6, <2>7, <2>8, <2>9
  <2>11. Exact(s)'
    BY Zenon, <2>10 DEF Exact, Payload, Stream
  <2>12. QED
    BY Zenon, <2>11
<1>8. QED
  BY Zenon, <1>6, <1>7

\* A part of the buffer is sent in two pieces.
LEMMA BufferSplit ==
    ASSUME NEW U, NEW N \in Nat, NEW buf \in [1..N -> U],
           NEW a \in 0..N, NEW l \in a..N, NEW m \in a..l
    PROVE  /\ SubSeq(buf, a + 1, m) \in Seq(U) /\ SubSeq(buf, m + 1, l) \in Seq(U)
           /\ SubSeq(buf, a + 1, l) = SubSeq(buf, a + 1, m) \o SubSeq(buf, m + 1, l)
<1>1. \A x \in 0..N : \A y \in x..N :
             /\ SubSeq(buf, x + 1, y) \in Seq(U) /\ Len(SubSeq(buf, x + 1, y)) = y - x
             /\ \A i \in 1..(y - x) : SubSeq(buf, x + 1, y)[i] = buf[x + i]
  BY PieceType
<1>2. m \in 0..N /\ m \in a..N /\ l \in m..N /\ a \in Nat /\ l \in Nat /\ m \in Nat
  BY SMT
<1>3. PICK u, v, w : u = SubSeq(buf, a + 1, m) /\ v = SubSeq(buf, m + 1, l) /\ w = SubSeq(buf, a + 1, l)
  OBVIOUS
<1>4. u \in Seq(U) /\ Len(u) = m - a /\ \A i \in 1..(m - a) : u[i] = buf[a + i]
  BY Zenon, <1>1, <1>2, <1>3
<1>5. v \in Seq(U) /\ Len(v) = l - m /\ \A i \in 1..(l - m) : v[i] = buf[m + i]
  BY Zenon, <1>1, <1>2, <1>3
<1>6. w \in Seq(U) /\ Len(w) = l - a /\ \A i \in 1..(l - a) : w[i] = buf[a + i]
  BY Zenon, <1>1, <1>2, <1>3
<1>7. PICK c : c = u \o v
  OBVIOUS
<1>8. /\ c \in Seq(U) /\ Len(c) = Len(u) + Len(v) /\ \A i \in 1..Len(u) : c[i] = u[i]
      /\ \A i \in (Len(u) + 1)..(Len(u) + Len(v)) : c[i] = v[i - Len(u)]
  <2>1. u \in Seq(U) /\ v \in Seq(U)
    BY Zenon, <1>4, <1>5
  <2>2. QED
    BY SMT, <1>7, <2>1
<1>9. Len(c) = Len(w)
  BY SMT, <1>2, <1>4, <1>5, <1>6, <1>8
<1>10. ASSUME NEW i \in 1..Len(w) PROVE w[i] = c[i]
  <2>1. i \in 1..(l - a)
    BY Zenon, <1>6
  <2>2. CASE i <= m - a
    <3>1. i \in 1..(m - a) /\ i \in 1..Len(u)
      BY SMT, <1>2, <1>4, <2>1, <2>2
    <3>2. QED
      BY Zenon, <1>4, <1>6, <1>8, <2>1, <3>1
  <2>3. CASE ~(i <= m - a)
    <3>1. /\ i \in (Len(u) + 1)..(Len(u) + Len(v)) /\ i - Len(u) \in 1..(l - m)
          /\ m + (i - Len(u)) = a + i
      BY SMT, <1>2, <1>4, <1>5, <2>1, <2>3
    <3>2. QED
      BY Zenon, <1>5, <1>6, <1>8, <2>1, <3>1
  <2>4. QED
    BY Zenon, <2>2, <2>3
<1>11. w = c
  BY <1>6, <1>8, <1>9, <1>10, SameElements
<1>12. QED
  BY Zenon, <1>3, <1>4, <1>5, <1>7, <1>11

\* What send() takes moves from the buffer to the socket.
LEMMA ForwardSend ==
    ASSUME TInv, ForwardInv, SendPart, ~recv_failed, NEW s \in Sides
    PROVE  Exact(s)' \/ Dropped(s)'
<1>1. /\ Head(todo) \in Sides /\ pc = "send" /\ offset < last_char
      /\ UNCHANGED <<peers, input, pc, todo, buffer, last_char, is_transfer_failure>>
  BY Zenon, SendPartType
<1>2. PICK h, to : h = Head(todo) /\ to = Other(h)
  OBVIOUS
<1>3. PICK n \in Nat, piece \in Seq(Unit) :
                /\ offset + n <= last_char /\ offset' = offset + n
                /\ Len(piece) = n
                /\ piece = SubSeq(buffer, offset + 1, offset + n)
                /\ out' = [out EXCEPT ![to] = @ \o piece]
  BY Zenon, <1>2, SendPartType
<1>4. h \in Sides /\ to \in Sides /\ Other(s) \in Sides /\ (s # h => Other(s) # to)
  BY SMT, <1>1, <1>2 DEF Other, Sides
<1>5. \A e \in Sides : out'[e] = IF e = to THEN out[e] \o piece ELSE out[e]
  BY Zenon, <1>3, <1>4 DEF TInv, TypeOK
<1>6. Exact(s) \/ Dropped(s)
  BY Zenon DEF ForwardInv
<1>7. pc \in {"recv", "send"} /\ pc \notin {"check", "closed"}
  BY SMT, <1>1
<1>8. UNCHANGED <<script, resets, read>>
  BY Zenon, <1>1 DEF peers, input
<1>9. CASE s # h
  <2>1. out'[Other(s)] = out[Other(s)] /\ Head(todo) # s /\ Head(todo') # s
    BY Zenon, <1>1, <1>2, <1>4, <1>5, <1>9
  <2>2. CASE Exact(s)
    BY Zenon, <1>8, <2>1, <2>2, ExactStays
  <2>3. CASE Dropped(s)
    <3>1. is_transfer_failure' /\ NotAgain(s)'
      BY Zenon, <1>1, <2>3 DEF Dropped, NotAgain
    <3>2. Dropped(s)'
      BY Zenon, <1>8, <2>1, <2>3, <3>1, DroppedStays
    <3>3. QED
      BY Zenon, <3>2
  <2>4. QED
    BY Zenon, <1>6, <2>2, <2>3
<1>10. CASE s = h
  <2>1. Exact(s)
    BY Zenon, <1>2, <1>6, <1>7, <1>10 DEF Dropped, NotAgain
  <2>2. PICK o, rest : o = out[to] /\ rest = SubSeq(buffer, (offset + n) + 1, last_char)
    OBVIOUS
  <2>3. o \in Seq(Unit)
    BY Zenon, <1>4, <2>2 DEF TInv, TypeOK
  <2>4. rest \in Seq(Unit) /\ SubSeq(buffer, offset + 1, last_char) = piece \o rest
    <3>1. /\ BufferSize \in Nat /\ offset \in 0..BufferSize /\ last_char \in offset..BufferSize
          /\ offset + n \in offset..last_char
      BY SMT, <1>1, <1>3, BoundsAssumption DEF TInv, TypeOK
    <3>2. buffer \in [1..BufferSize -> Unit]
      BY Zenon DEF TInv, TypeOK
    <3>3. PICK m : m = offset + n
      OBVIOUS
    <3>4. m \in offset..last_char
      BY Zenon, <3>1, <3>3
    <3>5. /\ SubSeq(buffer, m + 1, last_char) \in Seq(Unit)
          /\ SubSeq(buffer, offset + 1, last_char) =
               SubSeq(buffer, offset + 1, m) \o SubSeq(buffer, m + 1, last_char)
      BY <3>1, <3>2, <3>4, BufferSplit
    <3>6. QED
      BY Zenon, <1>3, <2>2, <3>3, <3>5
  <2>5. \A u, v \in Seq(Unit) :
           WithoutHeaders(script, u \o v) = WithoutHeaders(script, u) \o WithoutHeaders(script, v)
    BY WithoutConcat
  <2>6. \A u \in Seq(Unit) : WithoutHeaders(script, u) \in Seq(Unit)
    BY WithoutType
  <2>7. PICK x, y, z : /\ x = WithoutHeaders(script, o) /\ y = WithoutHeaders(script, piece)
                       /\ z = WithoutHeaders(script, rest)
    OBVIOUS
  <2>8. x \in Seq(Unit) /\ y \in Seq(Unit) /\ z \in Seq(Unit)
    BY Zenon, <2>3, <2>4, <2>6, <2>7
  <2>9. (x \o y) \o z = x \o (y \o z)
    BY SMT, <2>8
  <2>10. WithoutHeaders(script, o \o piece) = x \o y /\ WithoutHeaders(script, piece \o rest) = y \o z
    BY Zenon, <2>3, <2>4, <2>5, <2>7
  <2>11. x \o (y \o z) = WithoutHeaders(script, Stream(s, read[s]))
    BY Zenon, <1>1, <1>2, <1>10, <2>1, <2>2, <2>4, <2>7, <2>10 DEF Exact, Pending, Payload
  <2>12. out'[Other(s)] = o \o piece /\ Pending(s)' = rest /\ read'[s] = read[s]
    BY Zenon, <1>1, <1>2, <1>3, <1>4, <1>5, <1>8, <1>10, <2>2 DEF Pending
  <2>13. WithoutHeaders(script', out'[Other(s)]) \o WithoutHeaders(script', Pending(s)') =
           WithoutHeaders(script', Stream(s, read'[s]))
    BY Zenon, <1>8, <2>7, <2>9, <2>10, <2>11, <2>12
  <2>14. Exact(s)'
    BY Zenon, <2>13 DEF Exact, Payload, Stream
  <2>15. QED
    BY Zenon, <2>14
<1>11. QED
  BY Zenon, <1>9, <1>10

\* The types of the streams.
LEMMA StreamTypes ==
    ASSUME TInv, NEW s \in Sides
    PROVE  /\ out[Other(s)] \in Seq(Unit) /\ Pending(s) \in Seq(Unit)
           /\ Payload(out[Other(s)]) \in Seq(Unit) /\ Payload(Pending(s)) \in Seq(Unit)
<1>1. Other(s) \in Sides
  BY SMT DEF Other, Sides
<1>2. out[Other(s)] \in Seq(Unit)
  BY Zenon, <1>1 DEF TInv, TypeOK
<1>3. Pending(s) \in Seq(Unit)
  <2>1. /\ BufferSize \in Nat /\ offset \in 0..BufferSize /\ last_char \in offset..BufferSize
    BY SMT, BoundsAssumption DEF TInv, TypeOK
  <2>2. buffer \in [1..BufferSize -> Unit]
    BY Zenon DEF TInv, TypeOK
  <2>3. \A a \in 0..BufferSize : \A b \in a..BufferSize : SubSeq(buffer, a + 1, b) \in Seq(Unit)
    BY <2>1, <2>2, PieceType
  <2>4. <<>> \in Seq(Unit)
    BY SMT
  <2>5. QED
    BY Zenon, <2>1, <2>3, <2>4 DEF Pending
<1>4. \A u \in Seq(Unit) : WithoutHeaders(script, u) \in Seq(Unit)
  BY WithoutType
<1>5. QED
  BY Zenon, <1>2, <1>3, <1>4 DEF Payload

\* The loop turns to the next socket, or starts again.
LEMMA ForwardNext ==
    ASSUME TInv, ForwardInv, ~recv_failed, pc = "send", NextLeg,
           UNCHANGED <<script, resets, out, read>>, is_transfer_failure => is_transfer_failure',
           \/ offset = last_char
           \/ is_transfer_failure' /\ Other(Head(todo)) \in resets,
           NEW s \in Sides
    PROVE  Exact(s)' \/ Dropped(s)'
<1>1. pc \in {"recv", "send"} /\ pc \notin {"check", "closed"}
  BY SMT
<1>2. /\ Tail(todo) \in {<<>>, <<"server">>} /\ (Len(todo) = 1 <=> Tail(todo) = <<>>)
      /\ (Tail(todo) # <<>> => Head(todo) = "client")
  BY Zenon, <1>1, AtHead
<1>3. todo' = Tail(todo) /\ pc' = IF Len(todo) = 1 THEN "check" ELSE "recv"
  BY Zenon DEF NextLeg
<1>4. pc' # "send" /\ pc' \in {"check", "recv"} /\ "server" # "client"
  BY SMT, <1>3
<1>5. Head(<<"server">>) = "server" /\ Tail(<<"server">>) = <<>>
  BY SMT
<1>6. \/ pc' = "check"
      \/ pc' = "recv" /\ todo' = <<"server">> /\ Tail(todo) # <<>> /\ Head(todo) = "client"
  BY Zenon, <1>2, <1>3
<1>7. Exact(s) \/ Dropped(s)
  BY Zenon DEF ForwardInv
<1>8. out'[Other(s)] = out[Other(s)] /\ read'[s] = read[s] /\ resets \subseteq resets'
  BY Zenon
<1>9. s = "client" \/ s = "server"
  BY Zenon DEF Sides
<1>10. CASE s # Head(todo)
  <2>1. CASE Exact(s)
    BY Zenon, <1>4, <1>8, <1>10, <2>1, ExactStays
  <2>2. CASE Dropped(s)
    <3>1. pc' = "check"
      BY Zenon, <1>1, <1>6, <1>9, <1>10, <2>2 DEF Dropped, NotAgain
    <3>2. pc' \in {"check", "closed"}
      BY Zenon, <3>1
    <3>3. is_transfer_failure' /\ NotAgain(s)'
      BY Zenon, <2>2, <3>2 DEF Dropped, NotAgain
    <3>4. Dropped(s)'
      BY Zenon, <1>8, <2>2, <3>3, DroppedStays
    <3>5. QED
      BY Zenon, <3>4
  <2>3. QED
    BY Zenon, <1>7, <2>1, <2>2
<1>11. CASE s = Head(todo)
  <2>1. Exact(s)
    BY Zenon, <1>1, <1>7, <1>11 DEF Dropped, NotAgain
  <2>2. PICK x, y : x = Payload(out[Other(s)]) /\ y = Payload(Pending(s))
    OBVIOUS
  <2>3. x \in Seq(Unit) /\ y \in Seq(Unit)
    BY Zenon, <2>2, StreamTypes
  <2>4. x \o y = WithoutHeaders(script, Stream(s, read[s]))
    BY Zenon, <2>1, <2>2 DEF Exact, Payload
  <2>5. WithoutHeaders(script, <<>>) = <<>> /\ x \o <<>> = x
    <3>1. x \o <<>> = x
      BY SMT, <2>3
    <3>2. QED
      BY Zenon, <3>1, WithoutNothing
  <2>6. CASE offset = last_char
    <3>1. Pending(s) = <<>>
      <4>1. SubSeq(buffer, offset + 1, last_char) = <<>>
        <5>1. offset \in Nat /\ last_char \in Nat /\ offset + 1 > last_char
          BY SMT, <2>6, BoundsAssumption DEF TInv, TypeOK
        <5>2. buffer \in [1..BufferSize -> Unit] /\ BufferSize \in Nat
          BY Zenon, BoundsAssumption DEF TInv, TypeOK
        <5>3. buffer \in Seq(Unit)
          BY SMT, <5>2
        <5>4. QED
          BY SMT, <5>1, <5>3
      <4>2. QED
        BY Zenon, <1>11, <4>1 DEF Pending
    <3>2. x = WithoutHeaders(script, Stream(s, read[s]))
      BY Zenon, <2>2, <2>4, <2>5, <3>1 DEF Payload
    <3>3. Pending(s)' = <<>>
      BY Zenon, <1>4 DEF Pending
    <3>4. WithoutHeaders(script', out'[Other(s)]) \o WithoutHeaders(script', Pending(s)') =
            WithoutHeaders(script', Stream(s, read'[s]))
      BY Zenon, <1>8, <2>2, <2>5, <3>2, <3>3 DEF Payload
    <3>5. Exact(s)'
      BY Zenon, <3>4 DEF Exact, Payload, Stream
    <3>6. QED
      BY Zenon, <3>5
  <2>7. CASE is_transfer_failure' /\ Other(Head(todo)) \in resets
    <3>1. IsPrefix(x, x \o y)
      BY <2>3, PrefixFacts
    <3>2. IsPrefix(WithoutHeaders(script', out'[Other(s)]), WithoutHeaders(script', Stream(s, read'[s])))
      BY Zenon, <1>8, <2>2, <2>4, <3>1 DEF Payload
    <3>3. NotAgain(s)'
      <4>1. CASE pc' = "check"
        <5>1. pc' \in {"check", "closed"}
          BY Zenon, <4>1
        <5>2. QED
          BY Zenon, <5>1 DEF NotAgain
      <4>2. CASE pc' = "recv" /\ todo' = <<"server">> /\ Head(todo) = "client"
        <5>1. pc' \in {"recv", "send"} /\ s # Head(todo') /\ Tail(todo') = <<>>
          BY Zenon, <1>4, <1>5, <1>11, <4>2
        <5>2. QED
          BY Zenon, <5>1 DEF NotAgain
      <4>3. QED
        BY Zenon, <1>6, <4>1, <4>2
    <3>4. is_transfer_failure' /\ Other(s) \in resets'
      BY Zenon, <1>11, <2>7
    <3>5. Dropped(s)'
      BY Zenon, <3>2, <3>3, <3>4 DEF Dropped, Payload, Stream, IsPrefix
    <3>6. QED
      BY Zenon, <3>5
  <2>8. QED
    BY Zenon, <2>6, <2>7
<1>12. QED
  BY Zenon, <1>10, <1>11

\* Every step keeps it.
LEMMA ForwardStep ==
    ASSUME HeadersLast, TInv, OldUnits, ForwardInv, [Next]_vars
    PROVE  ForwardInv'
<1> SUFFICES ASSUME ~recv_failed', NEW s \in Sides PROVE Exact(s)' \/ Dropped(s)'
  BY Zenon DEF ForwardInv
<1>1. ASSUME ~recv_failed PROVE Exact(s) \/ Dropped(s)
  BY Zenon, <1>1 DEF ForwardInv
<1>2. CASE Outside
  <2>1. UNCHANGED <<script, input, out, loop>> /\ resets \subseteq resets'
    BY <1>2, OutsideStep
  <2>2. UNCHANGED <<read, recv_failed, pc, todo, buffer, last_char, offset, is_transfer_failure>>
    BY Zenon, <2>1 DEF input, loop
  <2>3. ASSUME Exact(s) PROVE Exact(s)'
    BY Zenon, <2>1, <2>2, <2>3 DEF Exact, Payload, Pending, Stream
  <2>4. ASSUME Dropped(s) PROVE Dropped(s)'
    BY Zenon, <2>1, <2>2, <2>4, DroppedStays DEF Dropped, NotAgain
  <2>5. QED
    BY Zenon, <1>1, <2>2, <2>3, <2>4
<1>3. CASE Check
  <2>1. /\ pc = "check" /\ pc' = IF stop_flag \/ is_transfer_failure THEN "closed" ELSE "poll"
        /\ UNCHANGED <<peers, input, out, todo, buffer, last_char, offset, is_transfer_failure>>
    BY Zenon, <1>3 DEF Check
  <2>2. pc # "send" /\ pc' # "send" /\ UNCHANGED <<script, resets, out, read, recv_failed>>
    <3>1. pc # "send" /\ pc' # "send"
      BY SMT, <2>1
    <3>2. QED
      BY Zenon, <2>1, <3>1 DEF peers, input
  <2>3. ASSUME Exact(s) PROVE Exact(s)'
    BY Zenon, <2>1, <2>2, <2>3, ExactStays
  <2>4. ASSUME Dropped(s) PROVE Dropped(s)'
    <3>1. pc' \in {"check", "closed"}
      BY Zenon, <2>1, <2>4 DEF Dropped
    <3>2. QED
      BY Zenon, <2>1, <2>2, <2>4, <3>1, DroppedStays DEF Dropped, NotAgain
  <2>5. QED
    BY Zenon, <1>1, <2>2, <2>3, <2>4
<1>4. CASE PollReturns
  <2>1. /\ pc = "poll" /\ pc' \in {"closed", "check", "recv"}
        /\ UNCHANGED <<peers, input, out, buffer, last_char, offset, is_transfer_failure>>
    BY Zenon, <1>4 DEF PollReturns
  <2>2. /\ pc \notin {"check", "closed"} /\ pc \notin {"recv", "send"} /\ pc # "send" /\ pc' # "send"
        /\ UNCHANGED <<script, resets, out, read, recv_failed>>
    <3>1. pc \notin {"check", "closed"} /\ pc \notin {"recv", "send"} /\ pc # "send" /\ pc' # "send"
      BY SMT, <2>1
    <3>2. QED
      BY Zenon, <2>1, <3>1 DEF peers, input
  <2>3. Exact(s)
    BY Zenon, <1>1, <2>2 DEF Dropped, NotAgain
  <2>4. Exact(s)'
    BY Zenon, <2>1, <2>2, <2>3, ExactStays
  <2>5. QED
    BY Zenon, <2>4
<1>5. CASE Recv
  <2>1. ~recv_failed
    BY Zenon, <1>5 DEF Recv
  <2>2. QED
    BY <1>5, <2>1, ForwardRecv
<1>6. CASE RecvFails
  BY Zenon, <1>6 DEF RecvFails
<1>7. CASE SendPart
  <2>1. ~recv_failed
    BY Zenon, <1>7 DEF SendPart, input
  <2>2. QED
    BY <1>7, <2>1, ForwardSend
<1>8. CASE SendFails
  <2>1. /\ pc = "send" /\ Other(Head(todo)) \in resets /\ is_transfer_failure' /\ NextLeg
        /\ UNCHANGED <<script, resets, out, read, recv_failed>>
    BY Zenon, <1>8 DEF SendFails, Leg, peers, input
  <2>2. QED
    BY Zenon, <2>1, ForwardNext
<1>9. CASE SendReturns
  <2>1. /\ pc = "send" /\ offset = last_char /\ NextLeg
        /\ UNCHANGED <<script, resets, out, read, recv_failed, is_transfer_failure>>
    BY Zenon, <1>9 DEF SendReturns, peers, input
  <2>2. QED
    BY Zenon, <2>1, ForwardNext
<1>10. QED
  BY Zenon, <1>2, <1>3, <1>4, <1>5, <1>6, <1>7, <1>8, <1>9 DEF Next, Loop, Outside, Over

-----------------------------------------------------------------------------
(* The theorems.                                                           *)

RelayInv == TInv /\ OldUnits /\ ForwardInv /\ EndInv

\* The whole invariant, for every constant that keeps headers last.
LEMMA RelayInvariant == ASSUME HeadersLast PROVE Spec => []RelayInv
<1>1. Init => RelayInv
  BY Zenon, TypeInit, OldInit, ForwardInit, EndInit DEF RelayInv
<1>2. RelayInv /\ [Next]_vars => RelayInv'
  <2> SUFFICES ASSUME RelayInv, [Next]_vars PROVE RelayInv'
    OBVIOUS
  <2>1. TInv /\ OldUnits /\ ForwardInv /\ EndInv
    BY Zenon DEF RelayInv
  <2>2. TInv'
    BY <2>1, TypeStep
  <2>3. OldUnits'
    BY <2>1, OldStep
  <2>4. ForwardInv'
    BY <2>1, ForwardStep
  <2>5. EndInv'
    BY <2>1, EndStep
  <2>6. QED
    BY Zenon, <2>2, <2>3, <2>4, <2>5 DEF RelayInv
<1>3. QED
  BY <1>1, <1>2, PTL DEF Spec

\* When one side alone ends its stream and nothing fails, all it sent is forwarded before the
\* sockets are closed, for every buffer size, window and script in which no request follows a
\* Proxy-Connection header: recv() returns 0, which ends the loop, only after all of the data.
THEOREM EndForwards == ASSUME HeadersLast PROVE Spec => []EndForwardsAll
<1>1. RelayInv => EndForwardsAll
  <2> SUFFICES ASSUME RelayInv, pc = "closed", ~stop_flag, ~recv_failed, resets = {},
                      NEW s \in Sides, ~fin[Other(s)]
               PROVE  Got[s] = Sent[s]
    BY Zenon DEF EndForwardsAll
  <2>1. TInv /\ ForwardInv /\ EndInv
    BY Zenon DEF RelayInv
  <2>2. PICK e \in Sides : fin[e] /\ read[e] = sent[e]
    BY Zenon, <2>1 DEF EndInv
  <2>3. e = s
    <3>1. e = s \/ e = Other(s)
      BY SMT DEF Sides, Other
    <3>2. QED
      BY Zenon, <2>2, <3>1
  <2>4. Exact(s) /\ pc # "send"
    <3>1. pc # "send"
      BY SMT
    <3>2. QED
      BY Zenon, <2>1, <3>1 DEF ForwardInv, Dropped
  <2>5. Pending(s) = <<>>
    BY Zenon, <2>4 DEF Pending
  <2>6. PICK x : x = Payload(out[Other(s)]) /\ x \in Seq(Unit)
    BY Zenon, <2>1, StreamTypes
  <2>7. x \o <<>> = x
    BY SMT, <2>6
  <2>8. x = Payload(Stream(s, sent[s]))
    BY Zenon, <2>2, <2>3, <2>4, <2>5, <2>6, <2>7, WithoutNothing DEF Exact, Payload
  <2>9. QED
    BY Zenon, <2>6, <2>8 DEF Got, Sent
<1>2. QED
  BY <1>1, RelayInvariant, PTL

\* What was forwarded is a prefix of what was sent.
LEMMA IntactNow == ASSUME TInv, ForwardInv PROVE StreamsIntact
<1> SUFFICES ASSUME ~recv_failed, NEW s \in Sides PROVE IsPrefix(Got[s], Sent[s])
  BY Zenon DEF StreamsIntact
<1>1. PICK x, y, r, m : /\ x = Payload(out[Other(s)]) /\ y = Payload(Pending(s)) /\ r = read[s]
                        /\ m = sent[s] - read[s]
  OBVIOUS
<1>2. x \in Seq(Unit) /\ y \in Seq(Unit)
  BY Zenon, <1>1, StreamTypes
<1>3. r \in Nat /\ m \in Nat /\ sent[s] = r + m
  BY SMT, <1>1 DEF TInv, TypeOK
<1>4. PICK a, b : a = Stream(s, r) /\ b = Chunk(s, r, m)
  OBVIOUS
<1>5. a \in Seq(Unit) /\ b \in Seq(Unit) /\ Stream(s, sent[s]) = a \o b
  <2>1. Stream(s, r) \in Seq(Unit) /\ Chunk(s, r, m) \in Seq(Unit)
        /\ Stream(s, r + m) = Stream(s, r) \o Chunk(s, r, m)
    BY <1>3, StreamSplit
  <2>2. QED
    BY Zenon, <1>3, <1>4, <2>1
<1>6. Payload(a \o b) = Payload(a) \o Payload(b) /\ Payload(a) \in Seq(Unit) /\ Payload(b) \in Seq(Unit)
  <2>1. \A u, v \in Seq(Unit) :
           WithoutHeaders(script, u \o v) = WithoutHeaders(script, u) \o WithoutHeaders(script, v)
    BY WithoutConcat
  <2>2. \A u \in Seq(Unit) : WithoutHeaders(script, u) \in Seq(Unit)
    BY WithoutType
  <2>3. QED
    BY Zenon, <1>5, <2>1, <2>2 DEF Payload
<1>7. IsPrefix(x, Payload(a))
  <2>1. CASE Exact(s)
    <3>1. x \o y = Payload(a)
      BY Zenon, <1>1, <1>4, <2>1 DEF Exact
    <3>2. IsPrefix(x, x \o y)
      BY <1>2, PrefixFacts
    <3>3. QED
      BY Zenon, <3>1, <3>2
  <2>2. CASE Dropped(s)
    BY Zenon, <1>1, <1>4, <2>2 DEF Dropped
  <2>3. QED
    BY Zenon, <2>1, <2>2 DEF ForwardInv
<1>8. IsPrefix(x, Payload(a) \o Payload(b))
  BY <1>2, <1>6, <1>7, PrefixGrows
<1>9. Got[s] = x /\ Sent[s] = Payload(a) \o Payload(b)
  BY Zenon, <1>1, <1>5, <1>6 DEF Got, Sent
<1>10. QED
  BY Zenon, <1>8, <1>9

\* Until a read fails, both directions are intact: whatever the interleaving of the two
\* sockets in the one buffer, what was forwarded to a side is a prefix of what the other sent.
THEOREM DirectionsStayIntact == ASSUME HeadersLast PROVE Spec => []StreamsIntact
<1>1. RelayInv => StreamsIntact
  BY IntactNow DEF RelayInv
<1>2. QED
  BY <1>1, RelayInvariant, PTL

-----------------------------------------------------------------------------
(* The relay implements Tunnel.                                            *)

\* What a stream and its payload gain when units are added.
LEMMA PayloadGrows ==
    ASSUME NEW scr, NEW a \in Seq(Unit), NEW b \in Seq(Unit)
    PROVE  LET x == WithoutHeaders(scr, a)
               y == WithoutHeaders(scr, a \o b)
           IN  IsPrefix(x, y) /\ (y = x \/ Len(y) > Len(x))
<1>1. PICK x, y, z : /\ x = WithoutHeaders(scr, a) /\ y = WithoutHeaders(scr, a \o b)
                     /\ z = WithoutHeaders(scr, b)
  OBVIOUS
<1>2. x \in Seq(Unit) /\ z \in Seq(Unit)
  <2>1. \A u \in Seq(Unit) : WithoutHeaders(scr, u) \in Seq(Unit)
    BY WithoutType
  <2>2. QED
    BY Zenon, <1>1, <2>1
<1>3. y = x \o z
  <2>1. \A u, v \in Seq(Unit) :
           WithoutHeaders(scr, u \o v) = WithoutHeaders(scr, u) \o WithoutHeaders(scr, v)
    BY WithoutConcat
  <2>2. QED
    BY Zenon, <1>1, <2>1
<1>4. /\ IsPrefix(x, x \o z) /\ Len(x \o z) = Len(x) + Len(z)
      /\ (Len(z) = 0 => x \o z = x) /\ Len(z) \in Nat
  BY <1>2, PrefixFacts
<1>5. Len(x) \in Nat
  BY SMT, <1>2
<1>6. Len(z) # 0 => Len(x) + Len(z) > Len(x)
  BY SMT, <1>4, <1>5
<1>7. IsPrefix(x, y) /\ (y = x \/ Len(y) > Len(x))
  BY Zenon, <1>3, <1>4, <1>6
<1>8. QED
  BY Zenon, <1>1, <1>7

\* The ways in which a step of the relay is a step of Tunnel.
TunnelStep == [AsTunnel!TunnelNext]_(AsTunnel!tunnelVars)

\* What the streams are that Tunnel sees.
LEMMA TunnelStreams ==
    ASSUME NEW s \in Sides
    PROVE  /\ Sent[s] = WithoutHeaders(script, Stream(s, sent[s]))
           /\ Got[s] = WithoutHeaders(script, out[Other(s)])
           /\ Sent'[s] = WithoutHeaders(script', Stream(s, sent'[s]))
           /\ Got'[s] = WithoutHeaders(script', out'[Other(s)])
BY Zenon DEF Sent, Got, Payload, Stream

\* A function on the sides is known by its values.
LEMMA SameOnSides ==
    /\ (\A s \in Sides : Sent'[s] = Sent[s]) => Sent' = Sent
    /\ (\A s \in Sides : Got'[s] = Got[s]) => Got' = Got
<1>1. /\ Sent = [s \in Sides |-> Sent[s]] /\ Sent' = [s \in Sides |-> Sent'[s]]
      /\ Got = [s \in Sides |-> Got[s]] /\ Got' = [s \in Sides |-> Got'[s]]
  BY Zenon DEF Sent, Got
<1>2. QED
  BY Zenon, <1>1

\* The initial states are initial states of Tunnel.
LEMMA TunnelStart == Init => AsTunnel!TunnelInit
<1> SUFFICES ASSUME Init PROVE AsTunnel!TunnelInit
  OBVIOUS
<1>1. pc = "check" /\ out = [e \in Sides |-> <<>>] /\ sent = [e \in Sides |-> 0] /\ recv_failed = FALSE
  BY Zenon DEF Init
<1>2. ASSUME NEW s \in Sides PROVE Payload(Stream(s, sent[s])) = <<>> /\ Payload(out[Other(s)]) = <<>>
  <2>1. Other(s) \in Sides
    BY SMT DEF Sides, Other
  <2>2. Stream(s, 0) = <<>>
    BY SMT DEF Stream
  <2>3. QED
    BY Zenon, <1>1, <2>1, <2>2, WithoutNothing DEF Payload
<1>3. Sent = [e \in Sides |-> <<>>] /\ Got = [e \in Sides |-> <<>>]
  BY Zenon, <1>2 DEF Sent, Got
<1>4. (pc # "closed") = TRUE
  BY SMT, <1>1
<1>5. QED
  BY Zenon, <1>1, <1>3, <1>4 DEF AsTunnel!TunnelInit

\* A step that changes neither stream.
LEMMA TunnelQuiet ==
    ASSUME TInv, UNCHANGED <<script, sent, out>>,
           \/ UNCHANGED recv_failed /\ (pc' = "closed" => pc = "closed")
                                    /\ (pc = "closed" => pc' = "closed")
           \/ UNCHANGED recv_failed /\ pc # "closed" /\ pc' = "closed"
           \/ recv_failed' = TRUE /\ pc # "closed" /\ pc' # "closed"
    PROVE  TunnelStep
<1>1. Sent' = Sent /\ Got' = Got
  <2>1. \A s \in Sides : Sent'[s] = Sent[s] /\ Got'[s] = Got[s]
    BY Zenon, TunnelStreams
  <2>2. QED
    BY Zenon, <2>1, SameOnSides
<1>2. recv_failed \in BOOLEAN
  BY Zenon DEF TInv, TypeOK
<1>3. CASE UNCHANGED recv_failed /\ (pc' = "closed" <=> pc = "closed")
  <2>1. (pc' # "closed") = (pc # "closed")
    BY Zenon, <1>3
  <2>2. UNCHANGED AsTunnel!tunnelVars
    BY Zenon, <1>1, <1>3, <2>1 DEF AsTunnel!tunnelVars
  <2>3. QED
    BY Zenon, <2>2 DEF TunnelStep
<1>4. CASE UNCHANGED recv_failed /\ pc # "closed" /\ pc' = "closed"
  <2>1. (pc' # "closed") = FALSE
    BY Zenon, <1>4
  <2>2. AsTunnel!CloseTunnel
    BY Zenon, <1>1, <1>4, <2>1 DEF AsTunnel!CloseTunnel
  <2>3. QED
    BY Zenon, <2>2 DEF TunnelStep, AsTunnel!TunnelNext
<1>5. CASE recv_failed' = TRUE /\ pc # "closed" /\ pc' # "closed"
  <2>1. (pc' # "closed") = (pc # "closed")
    BY Zenon, <1>5
  <2>2. CASE recv_failed
    <3>1. recv_failed' = recv_failed
      BY Zenon, <1>2, <1>5, <2>2
    <3>2. QED
      BY Zenon, <1>3, <1>5, <3>1
  <2>3. CASE ~recv_failed
    <3>1. AsTunnel!Fail
      BY Zenon, <1>1, <1>5, <2>1, <2>3 DEF AsTunnel!Fail
    <3>2. QED
      BY Zenon, <3>1 DEF TunnelStep, AsTunnel!TunnelNext
  <2>4. QED
    BY Zenon, <2>2, <2>3
<1>6. QED
  BY Zenon, <1>3, <1>4, <1>5

\* A unit sent is sent in Tunnel, unless it is a header.
LEMMA TunnelSends ==
    ASSUME TInv, NEW side \in Sides, PeerSends(side)
    PROVE  TunnelStep
<1>1. /\ sent' = [sent EXCEPT ![side] = @ + 1]
      /\ UNCHANGED <<script, fin, resets, taken, stop_flag, input, out, loop>>
  BY Zenon DEF PeerSends
<1>2. UNCHANGED <<script, out, recv_failed, pc>>
  BY Zenon, <1>1 DEF input, loop
<1>3. \A s \in Sides : sent'[s] = IF s = side THEN sent[s] + 1 ELSE sent[s]
  BY Zenon, <1>1 DEF TInv, TypeOK
<1>4. \A s \in Sides : Got'[s] = Got[s] /\ (s # side => Sent'[s] = Sent[s])
  BY Zenon, <1>2, <1>3, TunnelStreams
<1>5. Got' = Got
  BY Zenon, <1>4, SameOnSides
<1>6. IsPrefix(Sent[side], Sent'[side]) /\ (Sent'[side] = Sent[side] \/ Len(Sent'[side]) > Len(Sent[side]))
  <2>1. PICK k, a, b : k = sent[side] /\ a = Stream(side, k) /\ b = Chunk(side, k, 1)
    OBVIOUS
  <2>2. k \in Nat /\ 1 \in Nat
    BY SMT, <2>1 DEF TInv, TypeOK
  <2>3. a \in Seq(Unit) /\ b \in Seq(Unit) /\ Stream(side, k + 1) = a \o b
    BY <2>1, <2>2, StreamSplit
  <2>4. PICK x, y : x = WithoutHeaders(script, a) /\ y = WithoutHeaders(script, a \o b)
    OBVIOUS
  <2>5. IsPrefix(x, y) /\ (y = x \/ Len(y) > Len(x))
    BY <2>3, <2>4, PayloadGrows
  <2>6. Sent[side] = x /\ Sent'[side] = y
    BY Zenon, <1>2, <1>3, <2>1, <2>3, <2>4, TunnelStreams
  <2>7. QED
    BY Zenon, <2>5, <2>6
<1>7. (pc' # "closed") = (pc # "closed")
  BY Zenon, <1>2
<1>8. CASE Sent'[side] = Sent[side]
  <2>1. Sent' = Sent
    BY Zenon, <1>4, <1>8, SameOnSides
  <2>2. UNCHANGED AsTunnel!tunnelVars
    BY Zenon, <1>2, <1>5, <1>7, <2>1 DEF AsTunnel!tunnelVars
  <2>3. QED
    BY Zenon, <2>2 DEF TunnelStep
<1>9. CASE Len(Sent'[side]) > Len(Sent[side])
  <2>1. AsTunnel!Send(side)
    BY Zenon, <1>2, <1>4, <1>5, <1>6, <1>7, <1>9 DEF AsTunnel!Send, AsTunnel!IsPrefix, IsPrefix
  <2>2. QED
    BY Zenon, <2>1 DEF TunnelStep, AsTunnel!TunnelNext
<1>10. QED
  BY Zenon, <1>6, <1>8, <1>9

\* What send() takes is delivered in Tunnel, unless it is a header.
LEMMA TunnelDelivers ==
    ASSUME TInv, StreamsIntact', SendPart
    PROVE  TunnelStep
<1>1. /\ Head(todo) \in Sides /\ pc = "send"
      /\ UNCHANGED <<peers, input, pc, todo, buffer, last_char, is_transfer_failure>>
  BY Zenon, SendPartType
<1>2. PICK h, to : h = Head(todo) /\ to = Other(h)
  OBVIOUS
<1>3. PICK piece \in Seq(Unit) : out' = [out EXCEPT ![to] = @ \o piece]
  BY Zenon, <1>2, SendPartType
<1>4. UNCHANGED <<script, sent, recv_failed>>
  BY Zenon, <1>1 DEF peers, input
<1>5. h \in Sides /\ to \in Sides /\ \A s \in Sides : Other(s) \in Sides /\ (s # h => Other(s) # to)
  BY SMT, <1>1, <1>2 DEF Other, Sides
<1>6. \A e \in Sides : out'[e] = IF e = to THEN out[e] \o piece ELSE out[e]
  BY Zenon, <1>3, <1>5 DEF TInv, TypeOK
<1>7. \A s \in Sides : Sent'[s] = Sent[s] /\ (s # h => Got'[s] = Got[s])
  <2> SUFFICES ASSUME NEW s \in Sides PROVE Sent'[s] = Sent[s] /\ (s # h => Got'[s] = Got[s])
    OBVIOUS
  <2>1. /\ Sent[s] = WithoutHeaders(script, Stream(s, sent[s]))
        /\ Got[s] = WithoutHeaders(script, out[Other(s)])
        /\ Sent'[s] = WithoutHeaders(script', Stream(s, sent'[s]))
        /\ Got'[s] = WithoutHeaders(script', out'[Other(s)])
    BY TunnelStreams
  <2>2. s # h => out'[Other(s)] = out[Other(s)]
    BY Zenon, <1>5, <1>6
  <2>3. QED
    BY Zenon, <1>4, <2>1, <2>2
<1>8. Sent' = Sent
  BY Zenon, <1>7, SameOnSides
<1>9. IsPrefix(Got[h], Got'[h]) /\ (Got'[h] = Got[h] \/ Len(Got'[h]) > Len(Got[h]))
  <2>1. PICK o : o = out[to] /\ o \in Seq(Unit)
    BY Zenon, <1>5 DEF TInv, TypeOK
  <2>2. PICK x, y : x = WithoutHeaders(script, o) /\ y = WithoutHeaders(script, o \o piece)
    OBVIOUS
  <2>3. IsPrefix(x, y) /\ (y = x \/ Len(y) > Len(x))
    BY <2>1, <2>2, PayloadGrows
  <2>4. Got[h] = x /\ Got'[h] = y
    BY Zenon, <1>2, <1>4, <1>5, <1>6, <2>1, <2>2, TunnelStreams
  <2>5. QED
    BY Zenon, <2>3, <2>4
<1>10. (pc' # "closed") = (pc # "closed") /\ pc # "closed"
  <2>1. pc # "closed"
    BY SMT, <1>1
  <2>2. QED
    BY Zenon, <1>1, <2>1
<1>11. recv_failed \/ IsPrefix(Got'[h], Sent[h])
  BY Zenon, <1>4, <1>5, <1>7 DEF StreamsIntact, IsPrefix
<1>12. CASE Got'[h] = Got[h]
  <2>1. Got' = Got
    BY Zenon, <1>7, <1>12, SameOnSides
  <2>2. UNCHANGED AsTunnel!tunnelVars
    BY Zenon, <1>4, <1>8, <1>10, <2>1 DEF AsTunnel!tunnelVars
  <2>3. QED
    BY Zenon, <2>2 DEF TunnelStep
<1>13. CASE Len(Got'[h]) > Len(Got[h])
  <2>1. AsTunnel!Deliver(h)
    BY Zenon, <1>4, <1>7, <1>8, <1>9, <1>10, <1>11, <1>13
    DEF AsTunnel!Deliver, AsTunnel!IsPrefix, IsPrefix
  <2>2. QED
    BY Zenon, <1>5, <2>1 DEF TunnelStep, AsTunnel!TunnelNext
<1>14. QED
  BY Zenon, <1>9, <1>12, <1>13

\* Every step of the relay is a step of Tunnel, or leaves it as it is.
LEMMA TunnelSteps ==
    ASSUME RelayInv, RelayInv', [Next]_vars
    PROVE  TunnelStep
<1>1. TInv /\ StreamsIntact'
  <2>1. (TInv /\ ForwardInv => StreamsIntact)'
    BY IntactNow, PTL
  <2>2. QED
    BY Zenon, <2>1 DEF RelayInv
<1> USE DEF peers, input, loop
<1>2. CASE Outside
  <2>1. ASSUME NEW side \in Sides, PeerSends(side) PROVE TunnelStep
    BY <1>1, <2>1, TunnelSends
  <2>2. ASSUME ~(\E side \in Sides : PeerSends(side)) PROVE TunnelStep
    <3>1. UNCHANGED <<script, sent, out, recv_failed, pc>>
      BY Zenon, <1>2, <2>2 DEF Outside, Peer, PeerEnds, PeerReads, PeerResets, Signal, vars
    <3>2. QED
      BY Zenon, <1>1, <3>1, TunnelQuiet
  <2>3. QED
    BY Zenon, <2>1, <2>2
<1>3. CASE Check
  <2>1. pc = "check" /\ UNCHANGED <<script, sent, out, recv_failed>>
    BY Zenon, <1>3 DEF Check
  <2>2. pc # "closed"
    BY SMT, <2>1
  <2>3. QED
    BY Zenon, <1>1, <2>1, <2>2, TunnelQuiet
<1>4. CASE PollReturns
  <2>1. pc = "poll" /\ UNCHANGED <<script, sent, out, recv_failed>>
    BY Zenon, <1>4 DEF PollReturns
  <2>2. pc # "closed"
    BY SMT, <2>1
  <2>3. QED
    BY Zenon, <1>1, <2>1, <2>2, TunnelQuiet
<1>5. CASE Recv
  <2>1. pc = "recv" /\ pc' = "send" /\ UNCHANGED <<script, sent, out, recv_failed>>
    BY Zenon, <1>5 DEF Recv, Received
  <2>2. pc # "closed" /\ pc' # "closed"
    BY SMT, <2>1
  <2>3. QED
    BY Zenon, <1>1, <2>1, <2>2, TunnelQuiet
<1>6. CASE RecvFails
  <2>1. pc = "recv" /\ pc' = "send" /\ UNCHANGED <<script, sent, out>> /\ recv_failed' = TRUE
    BY Zenon, <1>6 DEF RecvFails, Received
  <2>2. pc # "closed" /\ pc' # "closed"
    BY SMT, <2>1
  <2>3. QED
    BY Zenon, <1>1, <2>1, <2>2, TunnelQuiet
<1>7. CASE SendPart
  BY <1>1, <1>7, TunnelDelivers
<1>8. CASE SendFails \/ SendReturns
  <2>1. /\ pc = "send" /\ pc' = IF Len(todo) = 1 THEN "check" ELSE "recv"
        /\ UNCHANGED <<script, sent, out, recv_failed>>
    BY Zenon, <1>8 DEF SendFails, SendReturns, Leg, NextLeg
  <2>2. pc # "closed" /\ pc' # "closed"
    BY SMT, <2>1
  <2>3. QED
    BY Zenon, <1>1, <2>1, <2>2, TunnelQuiet
<1>9. QED
  BY Zenon, <1>2, <1>3, <1>4, <1>5, <1>6, <1>7, <1>8 DEF Next, Loop, Outside, Over

\* The relay loop implements Tunnel: one thread and one buffer carry two independent byte
\* streams, in order, without loss or repetition while the connection is open.
THEOREM RelayImplementsTunnel == ASSUME HeadersLast PROVE Spec => RelaysStreams
<1>1. RelayInv /\ RelayInv' /\ [Next]_vars => [AsTunnel!TunnelNext]_(AsTunnel!tunnelVars)
  BY TunnelSteps DEF TunnelStep
<1>2. QED
  BY <1>1, RelayInvariant, TunnelStart, PTL DEF Spec, RelaysStreams, AsTunnel!TunnelSpec
=============================================================================
