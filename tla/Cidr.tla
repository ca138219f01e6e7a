-------------------------------- MODULE Cidr --------------------------------
(***************************************************************************)
(* IPUtil.java: a range of addresses as a list of blocks, each of which is *)
(* an address and the number of its leading bits that all its addresses    *)
(* share.  The width of an address is a parameter, 32 in the code.         *)
(***************************************************************************)
EXTENDS Integers, Sequences, FiniteSetsExt

CONSTANT Bits

ASSUME CidrAssumption == Bits \in Nat \ {0}

Addresses == 0 .. 2 ^ Bits - 1

\* addr & prefix2mask(bits)
Masked(addr, bits) == addr - (addr % (2 ^ (Bits - bits)))

\* Mutant: the mask is one bit longer.
Aligned_Longer(from) ==
    LET stays == {p \in 1 .. Bits : Masked(from, p) # from}
    IN  IF stays = {} THEN 0 ELSE Max(stays)

\* The loop over prefix: down from Bits while the next shorter mask keeps from.
Aligned(from) ==
    LET stays == {p \in 1 .. Bits : Masked(from, p - 1) # from}
    IN  IF stays = {} THEN 0 ELSE Max(stays)

\* floor(log(n) / log(2))
Log2(n) == CHOOSE k \in 0 .. Bits : 2 ^ k <= n /\ n < 2 ^ (k + 1)

Longer(p, q) == IF p < q THEN q ELSE p

\* The largest block that starts at from and ends at to at the latest.
Block(from, to) ==
    [address |-> from, prefix |-> Longer(Aligned(from), Bits - Log2(to - from + 1))]

toCIDR(start, end) ==
    LET blocks[from \in Nat] ==
            IF from > end THEN <<>>
            ELSE LET b == Block(from, end) IN <<b>> \o blocks[from + 2 ^ (Bits - b.prefix)]
    IN  blocks[start]

getStart(cidr) == Masked(cidr.address, cidr.prefix)

getEnd(cidr) == Masked(cidr.address, cidr.prefix) + 2 ^ (Bits - cidr.prefix) - 1

-----------------------------------------------------------------------------
\* Blocks that are next to each other and could be one.
Mergeable(b, c) ==
    /\ b.prefix = c.prefix /\ b.prefix > 0
    /\ Masked(b.address, b.prefix - 1) = Masked(c.address, b.prefix - 1)

\* A list of blocks that is from .. to, in order, without a gap, an overlap or
\* a block too many.
Covers(list, from, to) ==
    /\ list # <<>>
    /\ getStart(list[1]) = from /\ getEnd(list[Len(list)]) = to
    /\ \A i \in 1 .. Len(list) - 1 :
        getStart(list[i + 1]) = getEnd(list[i]) + 1 /\ ~Mergeable(list[i], list[i + 1])
=============================================================================
