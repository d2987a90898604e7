------------------------------ MODULE Checksum ------------------------------
(***************************************************************************)
(* The checksums of the packets that are built by hand: 16-bit words are   *)
(* added up in 32 bits and the carries are folded in twice.                *)
(***************************************************************************)
EXTENDS Integers, Sequences

\* The words of a buffer of bytes; an odd last byte is the high half of its word.
Word(buf, i) == buf[i] * 256 + (IF i < Len(buf) THEN buf[i + 1] ELSE 0)

\* Mutant: an odd last byte is the low half.
CalSum_OddLow(buf) ==
    LET n == Len(buf)
        s[i \in 1..(n + 2)] == IF i > n THEN 0
                               ELSE IF i = n THEN buf[n] ELSE Word(buf, i) + s[i + 2]
    IN  s[1]

\* No packet has the 65538 words it takes to leave 32 bits.
CalSum(buf) ==
    LET n == Len(buf)
        s[i \in 1..(n + 2)] == IF i > n THEN 0 ELSE Word(buf, i) + s[i + 2]
    IN  s[1]

\* Source, destination, protocol and length, as the words of the pseudo header.
CalPseudoHeadSum(src, dst, len) == CalSum(src) + CalSum(dst) + 6 + len

\* ckSum = (ckSum >> 16) + (ckSum & 0xffff); ckSum += ckSum >> 16; (uint16_t) ckSum.
Folded(sum) ==
    LET once == (sum \div 65536) + (sum % 65536)
    IN  (once + (once \div 65536)) % 65536

\* Both take the header with its checksum field set to zero.
cksumIp(head) == 65535 - Folded(CalSum(head))

cksumTcp(src, dst, segment) ==
    65535 - Folded(CalPseudoHeadSum(src, dst, Len(segment)) + CalSum(segment))

-----------------------------------------------------------------------------
(* What the receiver of a packet computes, to compare with.                *)

\* Addition of 16-bit words with end-around carry, of the words of all buffers.
OnesAdd(a, b) == IF a + b > 65535 THEN a + b - 65535 ELSE a + b

OnesSum(buf, start) ==
    LET n == Len(buf)
        s[i \in 1..(n + 2)] == IF i > n THEN start ELSE OnesAdd(Word(buf, i), s[i + 2])
    IN  s[1]

\* The field that was zero is the first one here; its place among the words does
\* not matter to their sum.
Stored(sum, buf) == <<sum \div 256, sum % 256>> \o SubSeq(buf, 3, Len(buf))

\* The receiver of a packet with these addresses and this content accepts it: the sum
\* over the header, or the pseudo header and the segment, with the checksum form_packet
\* stored, is minus zero.
ReceiverAccepts(src, dst, buf) ==
    /\ OnesSum(Stored(cksumIp(buf), buf), 0) = 65535
    /\ OnesSum(Stored(cksumTcp(src, dst, buf), buf),
               OnesSum(src, OnesSum(dst, 6 + Len(buf)))) = 65535
=============================================================================
