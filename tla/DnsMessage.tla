----------------------------- MODULE DnsMessage -----------------------------
(***************************************************************************)
(* The parsing of dns.c: names (get_qname), the answers of a response, the *)
(* question of a query.  Data is a sequence of bytes; positions count from *)
(* 0, as in the code, and outside the data there is no byte.               *)
(***************************************************************************)
EXTENDS Naturals, Sequences, SequencesExt

HEADER_LEN == 12        \* sizeof(struct dns_header)
DNS_QNAME_MAX == 255

Dot == 46

Octet(data, pos) == data[pos + 1]

Word16(data, pos) == 256 * Octet(data, pos) + Octet(data, pos + 1)

Invalid == [off |-> 0, name |-> <<>>]

\* How far get_qname is: ptr, the length of the name in a byte, the name, the
\* offset to return and whether that was set by a pointer (c).
Progress == [ptr : Nat, noff : 0 .. 255, name : Seq(Nat), off : Nat, c : BOOLEAN]

\* Mutant: the bytes of a pointer are not counted.
Jump_InPlace(data, p) ==
    [p EXCEPT !.ptr = 256 * (Octet(data, p.ptr) % 64) + Octet(data, p.ptr + 1), !.c = TRUE]

\* A pointer: the offset returned is the one after the first.
Jump(data, p) ==
    [p EXCEPT !.ptr = 256 * (Octet(data, p.ptr) % 64) + Octet(data, p.ptr + 1),
              !.off = IF p.c THEN @ ELSE @ + 2, !.c = TRUE]

\* A label, and a dot.
Label(data, p, len) ==
    [p EXCEPT !.ptr = @ + len + 1, !.noff = (@ + len + 1) % 256,
              !.name = @ \o SubSeq(data, p.ptr + 2, p.ptr + 1 + len) \o <<Dot>>]

get_qname(data, start) ==
    LET from[p \in Progress] ==
            LET len == Octet(data, p.ptr)
            IN  IF len = 0
                THEN IF p.noff = 0 THEN Invalid
                     ELSE [off |-> IF p.c THEN p.off ELSE p.ptr + 1, name |-> SubSeq(p.name, 1, p.noff - 1)]
                ELSE IF len >= 64 THEN from[Jump(data, p)]
                ELSE IF p.ptr + 1 + len <= Len(data) /\ p.noff + len <= DNS_QNAME_MAX
                THEN from[Label(data, p, len)]
                ELSE Invalid
    IN  from[[ptr |-> start, noff |-> 0, name |-> <<>>, off |-> start, c |-> FALSE]]

\* The answers from off on, of which acount are left, up to the first that is
\* not valid.
Answers(data, start, acount) ==
    LET from[off \in Nat, left \in 0 .. acount] ==
            LET q == get_qname(data, off)
                rdlength == Word16(data, q.off + 8)
                next == q.off + 10 + rdlength
            IN  IF left = 0 \/ q = Invalid THEN <<>>
                ELSE IF q.off + 10 > Len(data) THEN <<>>
                ELSE IF next > Len(data) THEN <<>>
                ELSE <<[name |-> q.name, type |-> Word16(data, q.off), len |-> rdlength]>>
                     \o from[next, left - 1]
    IN  from[start, acount]

\* The answers of a response with a question: the others are not looked at.
parse_dns_response(data) ==
    IF Len(data) < HEADER_LEN + 1 \/ Octet(data, 2) \div 8 # 16 THEN <<>>
    ELSE IF Word16(data, 4) = 0 \/ Word16(data, 6) = 0 THEN <<>>
    ELSE LET q == get_qname(data, HEADER_LEN)
         IN  IF q = Invalid \/ q.off + 4 > Len(data) THEN <<>>
             ELSE Answers(data, q.off + 4, Word16(data, 6))

\* The question of a query, which must be all there is.
get_dns_query(data) ==
    IF Len(data) < HEADER_LEN + 1 \/ Octet(data, 2) \div 8 # 0 \/ Word16(data, 4) = 0 THEN Invalid
    ELSE LET q == get_qname(data, HEADER_LEN)
         IN  IF q = Invalid \/ q.off + 4 # Len(data) THEN Invalid ELSE q

-----------------------------------------------------------------------------
\* Messages, as RFC 1035 lays them out.

\* qr and opcode, then rcode; the counts of questions and of answers.
Header(qr, questions, answers) ==
    <<0, 1, 128 * qr, 0, 0, questions, 0, answers, 0, 0, 0, 0>>

Labels(name) ==
    FlattenSeq([i \in DOMAIN name |-> <<Len(name[i])>> \o name[i]]) \o <<0>>

Pointer(off) == <<192 + off \div 256, off % 256>>

Question(name) == Labels(name) \o <<0, 1, 0, 1>>

\* An answer names the question, or spells its name out.
Answer(a) ==
    (IF a.points THEN Pointer(HEADER_LEN) ELSE Labels(a.name))
    \o <<0, a.type, 0, 1, 0, 0, 0, 9, 0, a.len>> \o [i \in 1 .. a.len |-> 200]

Query(name) == Header(0, 1, 0) \o Question(name)

Response(name, answers) ==
    Header(1, 1, Len(answers)) \o Question(name)
    \o FlattenSeq([i \in DOMAIN answers |-> Answer(answers[i])])

Dotted(name) == FlattenSeq([i \in DOMAIN name |-> IF i = 1 THEN name[i] ELSE <<Dot>> \o name[i]])
=============================================================================
