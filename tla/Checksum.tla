------------------------------ MODULE Checksum ------------------------------
(***************************************************************************)
(* calc_checksum (util.c), the checksum of IP, and how write_tcp,          *)
(* write_udp and write_icmp use it: over the pseudo header, then over the  *)
(* header with no checksum in it, then over the data.                      *)
(*                                                                         *)
(* The size of a byte is a parameter: 256 in the code.  A word is two      *)
(* bytes, as a little-endian machine reads them.                           *)
(***************************************************************************)
EXTENDS Naturals, Sequences, SequencesExt

CONSTANT ByteSize       \* the number of values of a byte

ASSUME ChecksumAssumption == ByteSize \in Nat /\ ByteSize > 1

Bytes == 0 .. ByteSize - 1

WordSize == ByteSize * ByteSize

\* The words of a text, the last of which may be half a word.
Words(bytes) ==
    [i \in 1 .. (Len(bytes) + 1) \div 2 |->
        bytes[2 * i - 1] + IF 2 * i <= Len(bytes) THEN ByteSize * bytes[2 * i] ELSE 0]

\* Mutant: what is carried is added once.
Carried_Once(sum) == ((sum % WordSize) + (sum \div WordSize)) % WordSize

\* What exceeds a word is added to it until nothing does.
Carried(sum) ==
    LET carry[s \in Nat] == IF s < WordSize THEN s ELSE carry[(s % WordSize) + (s \div WordSize)]
    IN  carry[sum]

Sum(start, words) == FoldLeft(LAMBDA s, word : s + word, start, words)

calc_checksum(start, bytes) == Carried(Sum(start, Words(bytes)))

Complement(word) == WordSize - 1 - word

\* The checksum of a packet made of three parts, the second of which is the
\* header with its checksum still 0.
check(pseudo, header, data) ==
    Complement(calc_checksum(calc_checksum(calc_checksum(0, pseudo), header), data))

-----------------------------------------------------------------------------
\* The packet as it is received, the checksum being the last word of the header.
Received(pseudo, header, data) ==
    LET sum == check(pseudo, header \o <<0, 0>>, data)
    IN  pseudo \o header \o <<sum % ByteSize, sum \div ByteSize>> \o data

\* What a receiver checks: the words of all of it have the sum "all ones", in
\* the arithmetic of ones' complement (RFC 1071).
Verifies(bytes) ==
    LET sum == Sum(0, Words(bytes))
    IN  sum > 0 /\ sum % (WordSize - 1) = 0
=============================================================================
