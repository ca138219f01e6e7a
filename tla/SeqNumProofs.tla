---------------------------- MODULE SeqNumProofs ----------------------------
(***************************************************************************)
(* What compare_u32 computes, for every width: where it agrees with the    *)
(* serial number arithmetic it cites, and where it does not.               *)
(***************************************************************************)
EXTENDS SeqNum, TLAPS

LEMMA HalfValue == Half \in Nat /\ Half >= 4 /\ SeqSpace = 2 * Half
BY SeqSpaceAssumption DEF Half

\* The result of % is a sequence number.
LEMMA ModType == \A i \in Int : i % SeqSpace \in SeqNums
BY SeqSpaceAssumption DEF SeqNums

LEMMA ModSmall == \A i \in SeqNums : i % SeqSpace = i
BY SeqSpaceAssumption DEF SeqNums

LEMMA ModNegative == \A i \in Int : -SeqSpace <= i /\ i < 0 => i % SeqSpace = i + SeqSpace
BY SeqSpaceAssumption DEF SeqNums

\* The distance, without the remainder.
LEMMA DistValue ==
    ASSUME NEW s1 \in SeqNums, NEW s2 \in SeqNums
    PROVE  Dist(s1, s2) = IF s1 <= s2 THEN s2 - s1 ELSE s2 - s1 + SeqSpace
<1>1. s1 \in Nat /\ s2 \in Nat /\ s1 < SeqSpace /\ s2 < SeqSpace /\ SeqSpace \in Nat
  BY SeqSpaceAssumption DEF SeqNums
<1>2. CASE s1 <= s2
  <2>1. s2 - s1 \in SeqNums
    BY <1>1, <1>2 DEF SeqNums
  <2> QED BY <2>1, <1>2, ModSmall DEF Dist
<1>3. CASE ~(s1 <= s2)
  <2>1. s2 - s1 \in Int /\ -SeqSpace <= s2 - s1 /\ s2 - s1 < 0
    BY <1>1, <1>3
  <2> QED BY <2>1, <1>3, ModNegative DEF Dist
<1> QED BY <1>2, <1>3

\* compare_u32 answers 0 for equal numbers only, so a segment is "already
\* queued" only at its own sequence number.
THEOREM CompareEqual ==
    ASSUME NEW s1 \in SeqNums, NEW s2 \in SeqNums
    PROVE  compare_u32(s1, s2) \in {-1, 0, 1} /\ (compare_u32(s1, s2) = 0 <=> s1 = s2)
BY DEF compare_u32

\* For numbers less than half the space apart, RFC 1982 says the first precedes
\* the second.  compare_u32 says so too, except when the two lie on either side
\* of the boundary between 2^31 - 1 and 2^31, where it says the opposite.
THEOREM ComparePrecedes ==
    ASSUME NEW s1 \in SeqNums, NEW s2 \in SeqNums,
           s1 # s2, Dist(s1, s2) < Half - 1
    PROVE  /\ Rfc1982(s1, s2) = -1
           /\ compare_u32(s1, s2) = IF s1 < Half /\ s2 >= Half THEN 1 ELSE -1
<1>1. /\ s1 \in Nat /\ s2 \in Nat /\ s1 < SeqSpace /\ s2 < SeqSpace
      /\ SeqSpace \in Nat /\ Half \in Nat /\ SeqSpace = 2 * Half /\ Half >= 4
  BY SeqSpaceAssumption, HalfValue DEF SeqNums
<1>2. Dist(s1, s2) = IF s1 <= s2 THEN s2 - s1 ELSE s2 - s1 + SeqSpace
  BY DistValue
<1>3. Rfc1982(s1, s2) = -1
  BY <1>1, <1>2 DEF Rfc1982, Precedes
<1>4. compare_u32(s1, s2) = IF s1 < Half /\ s2 >= Half THEN 1 ELSE -1
  BY <1>1, <1>2 DEF compare_u32, Signed, WrapInt
<1> QED BY <1>3, <1>4

\* The same with the arguments exchanged: later numbers compare greater, except
\* across the boundary.
THEOREM CompareFollows ==
    ASSUME NEW s1 \in SeqNums, NEW s2 \in SeqNums,
           s1 # s2, Dist(s1, s2) < Half - 1
    PROVE  /\ Rfc1982(s2, s1) = 1
           /\ compare_u32(s2, s1) = IF s1 < Half /\ s2 >= Half THEN -1 ELSE 1
<1>1. /\ s1 \in Nat /\ s2 \in Nat /\ s1 < SeqSpace /\ s2 < SeqSpace
      /\ SeqSpace \in Nat /\ Half \in Nat /\ SeqSpace = 2 * Half /\ Half >= 4
  BY SeqSpaceAssumption, HalfValue DEF SeqNums
<1>2. /\ Dist(s1, s2) = IF s1 <= s2 THEN s2 - s1 ELSE s2 - s1 + SeqSpace
      /\ Dist(s2, s1) = IF s2 <= s1 THEN s1 - s2 ELSE s1 - s2 + SeqSpace
  BY DistValue
<1>3. Rfc1982(s2, s1) = 1
  BY <1>1, <1>2 DEF Rfc1982, Precedes
<1>4. compare_u32(s2, s1) = IF s1 < Half /\ s2 >= Half THEN -1 ELSE 1
  BY <1>1, <1>2 DEF compare_u32, Signed, WrapInt
<1> QED BY <1>3, <1>4

\* Away from the boundary compare_u32 is the comparison it cites: what every
\* property of a session that does not cross it rests on.
THEOREM CompareIsRfc1982 ==
    ASSUME NEW s1 \in SeqNums, NEW s2 \in SeqNums, SameSign(s1, s2),
           Dist(s1, s2) < Half - 1 \/ Dist(s2, s1) < Half - 1
    PROVE  compare_u32(s1, s2) = Rfc1982(s1, s2)
<1>1. CASE s1 = s2
  BY <1>1 DEF compare_u32, Rfc1982
<1>2. CASE s1 # s2 /\ Dist(s1, s2) < Half - 1
  <2>1. ~(s1 < Half /\ s2 >= Half)
    BY HalfValue DEF SameSign, SeqNums
  <2> QED BY <1>2, <2>1, ComparePrecedes
<1>3. CASE s1 # s2 /\ Dist(s2, s1) < Half - 1
  <2>1. ~(s2 < Half /\ s1 >= Half)
    BY HalfValue DEF SameSign, SeqNums
  <2> QED BY <1>3, <2>1, CompareFollows
<1> QED BY <1>1, <1>2, <1>3
=============================================================================
