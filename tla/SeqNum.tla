------------------------------- MODULE SeqNum -------------------------------
(***************************************************************************)
(* 32-bit TCP sequence numbers as the engine computes with them.  util.c   *)
(* compares two of them with compare_u32, which every decision about old   *)
(* data, queue order and acknowledgements in tcp.c goes through.           *)
(*                                                                         *)
(* The width is a parameter: SeqSpace stands for 2^32.                       *)
(***************************************************************************)
EXTENDS Integers

CONSTANT SeqSpace

ASSUME SeqSpaceAssumption == /\ SeqSpace \in Nat
                           /\ SeqSpace >= 8
                           /\ SeqSpace % 2 = 0

Half == SeqSpace \div 2

SeqNums == 0 .. (SeqSpace - 1)

\* uint32_t addition and subtraction.
SeqAdd(s, n) == (s + n) % SeqSpace
Dist(from, to) == (to - from) % SeqSpace

-----------------------------------------------------------------------------
\* The conversion of a uint32_t to int, and the value an int expression has
\* once it is reduced to its width.
Signed(s) == IF s < Half THEN s ELSE s - SeqSpace

WrapInt(i) == IF i >= Half THEN i - SeqSpace
              ELSE IF i < -Half THEN i + SeqSpace ELSE i

(***************************************************************************)
(* compare_u32.  The differences i2 - i1 and i1 - i2 may overflow an int.  *)
(* In the first test every outcome a build can give the overflow, wrapped  *)
(* or folded, is a value other than 0x7FFFFFFF, so the test is true; the   *)
(* second test asks an int to exceed 0x7FFFFFFF and is false in every      *)
(* build.  Wrapping is therefore the only outcome to model.                *)
(***************************************************************************)
compare_u32(s1, s2) ==
    LET i1 == Signed(s1)
        i2 == Signed(s2)
    IN  IF s1 = s2 THEN 0
        ELSE IF \/ i1 < i2 /\ WrapInt(i2 - i1) < Half - 1
                \/ i1 > i2 /\ WrapInt(i1 - i2) > Half - 1
             THEN -1
             ELSE 1

-----------------------------------------------------------------------------
\* Serial number arithmetic as RFC 1982, section 3.2, defines it: s1 precedes
\* s2 when s2 is less than half the number space ahead of it.  Two numbers
\* exactly half the space apart are not ordered.
Precedes(s1, s2) == s1 # s2 /\ Dist(s1, s2) < Half

Rfc1982(s1, s2) == IF s1 = s2 THEN 0 ELSE IF Precedes(s1, s2) THEN -1 ELSE 1

\* The two numbers lie on the same side of the boundary between 2^31 - 1 and
\* 2^31, where the sign of the converted int changes.
SameSign(s1, s2) == (s1 < Half) = (s2 < Half)
=============================================================================
