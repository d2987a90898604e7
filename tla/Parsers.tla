------------------------------ MODULE Parsers ------------------------------
(***************************************************************************)
(* The parsers that walk through bytes from outside by the lengths they    *)
(* find there: the server name of a TLS hello, a domain name of a DNS      *)
(* message, the network name in an access point's beacon. Positions count  *)
(* from zero.                                                              *)
(***************************************************************************)
EXTENDS Integers, Sequences

\* A byte of what was received; behind it the buffer holds the spaces it was made with.
At(bytes, i)    == IF i < Len(bytes) THEN bytes[i + 1] ELSE 32
Short(bytes, i) == At(bytes, i) * 256 + At(bytes, i + 1)

\* How many values an unsigned short has.
TwoTo16 == 65536

\* A char that becomes an unsigned short: it is signed.
FromChar(b) == IF b < 128 THEN b ELSE TwoTo16 - 256 + b

-----------------------------------------------------------------------------
(* get_tls_sni                                                             *)

NoName == <<0, 0>>

\* Where the fields of the hello start: cipher suites, compression, extensions.
CipherSuites(bytes) == 44 + FromChar(At(bytes, 43))
Compression(bytes)  == CipherSuites(bytes) + 2 + Short(bytes, CipherSuites(bytes))
Extensions(bytes)   == Compression(bytes) + 1 + FromChar(At(bytes, Compression(bytes)))

\* Start and length of the server name, or zeros when a check against the number of
\* bytes received stops the walk or no extension has the type 0.
get_tls_sni(bytes) ==
    LET last == Len(bytes)
        ext  == Extensions(bytes)
        end  == (ext + 2 + Short(bytes, ext)) % TwoTo16
        scan[it \in 0..(last + TwoTo16 + 3)] ==
          IF it >= end \/ last <= it + 9 THEN NoName
          ELSE IF Short(bytes, it) = 0 THEN <<it + 9, Short(bytes, it + 7)>>
          ELSE scan[it + 4 + Short(bytes, it + 2)]
    IN  IF last <= 43 \/ last <= CipherSuites(bytes) \/ last <= Compression(bytes) \/ last <= ext
        THEN NoName ELSE scan[ext + 2]

\* A hello to compare with: the sizes of its session id, cipher suites and compression
\* methods and its extensions, of which one of type 0 holds a name.
Filler(n) == [i \in 1..n |-> 7]
Uint16(n) == <<n \div 256, n % 256>>
ExtBody(e) == IF e.type = 0 THEN Uint16(e.size + 3) \o <<0>> \o Uint16(e.size) \o Filler(e.size)
              ELSE Filler(e.size)
ExtBytes(e) == Uint16(e.type) \o Uint16(Len(ExtBody(e))) \o ExtBody(e)

ExtPart(exts) == LET p[i \in 0..Len(exts)] == IF i = 0 THEN <<>> ELSE p[i - 1] \o ExtBytes(exts[i])
                 IN  p[Len(exts)]

HelloHead(h) == Filler(43) \o <<h.sid>> \o Filler(h.sid) \o Uint16(h.suites) \o Filler(h.suites)
                \o <<h.comp>> \o Filler(h.comp)
Hello(h)     == HelloHead(h) \o Uint16(Len(ExtPart(h.exts))) \o ExtPart(h.exts)

HasName(h) == \E i \in DOMAIN h.exts : h.exts[i].type = 0
ServerName(h) ==
    LET i == CHOOSE i \in DOMAIN h.exts :
                h.exts[i].type = 0 /\ \A j \in 1..(i - 1) : h.exts[j].type # 0
    IN  <<Len(HelloHead(h)) + 2 + Len(ExtPart(SubSeq(h.exts, 1, i - 1))) + 9, h.exts[i].size>>

\* Of a hello, or as much of it as the first read returned, get_tls_sni finds the server
\* name or nothing, never something else; and it finds a name that was read whole.
SniLocated(h, read) ==
    LET found == get_tls_sni(SubSeq(Hello(h), 1, read)) IN
    /\ found # NoName => HasName(h) /\ found = ServerName(h)
    /\ HasName(h) /\ ServerName(h)[1] + ServerName(h)[2] <= read => found # NoName

-----------------------------------------------------------------------------
(* Buffer::getDnsDomainName                                                *)

MAX_LABEL_LEN  == 63
MAX_DOMAIN_LEN == 255

NotDecoded == [ok |-> FALSE, labels |-> <<>>, size |-> 0, next |-> 0]
NameEnd(p) == [ok |-> TRUE, labels |-> <<>>, size |-> 0, next |-> p + 1]

\* The control code of a link, where it leads, and the label at p.
IsLink(ctrl)    == ctrl \div 64 = 3
LinkAt(buf, p)  == (buf[p + 1] % 64) * 256 + buf[p + 2]
LabelAt(buf, p) == SubSeq(buf, p + 2, p + 1 + buf[p + 1])

\* The label at p and a rest that starts at q: between them is a dot, unless a zero is at q.
WithLabel(buf, p, q, r) ==
    [r EXCEPT !.labels = <<LabelAt(buf, p)>> \o @,
              !.size   = buf[p + 1] + (IF buf[q + 1] = 0 THEN 0 ELSE 1) + @]

\* Mutant: after a link the reader stays behind the name the link led to.
AfterLink_Stays(r, saved) == r

\* setPos(saveBuffPos): the reader is back behind the link.
AfterLink(r, saved) == [r EXCEPT !.next = saved]

\* What is read from p on, in a call whose start and those of the calls around it,
\* mLinkPos, are `seen`. Every read is checked against the size; so is every new
\* position, which excludes the one behind the last byte.
ReadName(buf, d, p, seen) ==
    LET n    == Len(buf)
        ctrl == buf[p + 1]
        link == LinkAt(buf, p)
        next == p + 1 + ctrl
    IN  CASE p >= n -> NotDecoded
          [] p < n /\ ctrl = 0 -> NameEnd(p)
          [] p < n /\ IsLink(ctrl) ->
               IF p + 1 >= n \/ link >= n \/ link \in seen \/ p + 2 >= n THEN NotDecoded
               ELSE LET r == d[<<link, seen \cup {link}>>]
                    IN  IF r.ok THEN AfterLink(r, p + 2) ELSE NotDecoded
          [] OTHER ->
               IF ctrl > MAX_LABEL_LEN \/ next > n \/ ~d[<<next, seen>>].ok THEN NotDecoded
               ELSE WithLabel(buf, p, next, d[<<next, seen>>])

\* Each call refuses a name that is too long; the outermost one has the longest.
getDnsDomainName(buf, pos) ==
    LET n == Len(buf)
        d[x \in (0..(n + 64)) \X SUBSET (0..n)] == ReadName(buf, d, x[1], x[2])
        r == d[<<pos, {pos}>>]
    IN  IF r.size <= MAX_DOMAIN_LEN THEN r ELSE NotDecoded

\* What RFC 1035 says is written at a position, to compare with: labels up to a zero or
\* a link, in at most k of them; a link goes on where it points and takes two bytes.
Stuck(buf, p) ==
    \/ p >= Len(buf)
    \/ buf[p + 1] \div 64 \in {1, 2}
    \/ IsLink(buf[p + 1]) /\ (p + 1 >= Len(buf) \/ LinkAt(buf, p) >= Len(buf))
Towards(buf, p)   == IF IsLink(buf[p + 1]) THEN LinkAt(buf, p) ELSE p + 1 + buf[p + 1]
Onward(buf, p, r) == IF IsLink(buf[p + 1]) THEN [r EXCEPT !.next = p + 2]
                     ELSE WithLabel(buf, p, Towards(buf, p), r)

WrittenAt(buf, rest, p) ==
    CASE Stuck(buf, p) -> NotDecoded
      [] ~Stuck(buf, p) /\ buf[p + 1] = 0 -> NameEnd(p)
      [] OTHER -> LET r == rest[Towards(buf, p)] IN IF r.ok THEN Onward(buf, p, r) ELSE NotDecoded

Written(buf, pos) ==
    LET n == Len(buf)
        w[k \in 0..(3 * n)] ==
          [p \in 0..(n + 64) |-> IF k = 0 THEN NotDecoded ELSE WrittenAt(buf, w[k - 1], p)]
    IN  w[3 * n][pos]

\* A name is decoded as it is written, with the reader behind it, and a loop of links is
\* an error and not a hang; only a name that is too long and a message that ends in a
\* link are refused though they are well formed.
NameDecoded(buf, pos) ==
    LET got == getDnsDomainName(buf, pos)  want == Written(buf, pos) IN
    /\ got.ok => got = want
    /\ want.ok /\ want.size <= MAX_DOMAIN_LEN /\ ~IsLink(buf[Len(buf) - 1]) => got.ok

-----------------------------------------------------------------------------
(* find_ssid                                                               *)

NoSsid  == <<0, 0>>
Outside == <<-1, 0>>

NextElement(ies, p) == p + 2 + ies[p + 2]

\* Start and length of the SSID. An element longer than the rest makes the unsigned
\* length of the rest wrap around, and the walk leaves the buffer.
find_ssid(ies) ==
    LET n == Len(ies)
        s[p \in 0..(n + 257)] ==
          IF p > n THEN Outside
          ELSE IF n - p > 2 /\ ies[p + 1] # 0 THEN s[NextElement(ies, p)]
          ELSE IF n - p < 2 \/ n - p < 2 + ies[p + 2] THEN NoSsid
          ELSE <<p + 2, ies[p + 2]>>
    IN  s[0]

\* Elements to compare with, each an id and a size.
ElementBytes(e) == <<e.id, e.size>> \o Filler(e.size)
Elements(es) == LET p[i \in 0..Len(es)] == IF i = 0 THEN <<>> ELSE p[i - 1] \o ElementBytes(es[i])
                IN  p[Len(es)]

\* In a whole list of elements the first SSID is found and nothing else is taken for
\* one; in a list cut short, the same, unless the walk leaves the buffer because the
\* element that was cut comes before the SSID.
SsidLocated(es, read) ==
    LET ids   == {i \in DOMAIN es : es[i].id = 0}
        first == CHOOSE i \in ids : \A j \in ids : i <= j
        start(i) == Len(Elements(SubSeq(es, 1, i - 1))) + 2
        found == find_ssid(SubSeq(Elements(es), 1, read))
        there(i) == start(i) + es[i].size <= read
    IN  /\ found \notin {NoSsid, Outside} /\ found[2] > 0 =>
              ids # {} /\ found = <<start(first), es[first].size>> /\ there(first)
        /\ ids # {} /\ there(first) => found = <<start(first), es[first].size>>
        /\ found = Outside => read < Len(Elements(es))
=============================================================================
