------------------------------ MODULE IpPacket ------------------------------
(***************************************************************************)
(* handle_ip (ip.c): which handler a packet from tun is given to, and      *)
(* where that is told the header of its protocol begins.                   *)
(*                                                                         *)
(* A packet is a record.  chain is what its headers say comes next: the    *)
(* first of IPv6 may be extension headers, the last is the protocol.       *)
(***************************************************************************)
EXTENDS Naturals, Sequences

Ip4Len == 20    \* sizeof(struct iphdr)
Ip6Len == 40    \* sizeof(struct ip6_hdr)

MoreFragments == 32 * 256     \* IP_MF

Upper == {"TCP", "UDP", "ICMP", "ICMPV6"}

is_upper_layer(protocol) == protocol \in Upper

\* Mutant: a chain of extension headers is followed to its end.
is_lower_layer_All(protocol) ==
    protocol \in {"HOPOPTS", "DSTOPTS", "ROUTING", "FRAGMENT", "AH", "ESP", "MOBILITY"} \cup Upper

is_lower_layer(protocol) ==
    protocol \in {"HOPOPTS", "DSTOPTS", "ROUTING", "FRAGMENT", "AH", "ESP", "MOBILITY"}

\* sizeof the header that is asked for: of ICMP it is struct icmp, which has more
\* in it than the header of a message.
HeaderLen(protocol) ==
    CASE protocol = "TCP" -> 20
      [] protocol = "UDP" -> 8
      [] protocol \in {"ICMP", "ICMPV6"} -> 28

\* A field of two bytes, read without a conversion by a little-endian machine.
Swapped(short) == 256 * (short % 256) + (short \div 256)

Bit(n, b) == (n \div b) % 2 = 1

\* The protocol of an IPv6 packet and the offset of its header.  The loop over
\* the extension headers steps to the next as long as that is another one, by
\* 8 + ip6e_len bytes; here a header has 8 and its ip6e_len is 0.
Skipped(chain) ==
    LET from[i \in 1 .. Len(chain)] ==
            IF i < Len(chain) /\ is_lower_layer(chain[i + 1]) /\ ~is_upper_layer(chain[i])
            THEN from[i + 1]
            ELSE i
        last == from[1]
    IN  IF is_upper_layer(chain[1]) THEN [protocol |-> chain[1], off |-> 0]
        ELSE IF is_upper_layer(chain[last])
        THEN [protocol |-> chain[last], off |-> Ip6Len + 8 * (last - 1)]
        ELSE [protocol |-> chain[1], off |-> 0]

Dropped == [handler |-> "none", payload |-> 0]

\* What is left of the packet is looked at before a handler is called; a length
\* below zero is a large one.
Given(p, protocol, payload) ==
    IF \/ ~is_upper_layer(protocol)
       \/ payload <= p.length /\ p.length - payload < HeaderLen(protocol)
    THEN Dropped
    ELSE [handler |-> protocol, payload |-> payload]

handle_ip(p) ==
    IF p.version = 4
    THEN IF \/ p.length < Ip4Len
            \/ Bit(Swapped(p.frag), MoreFragments)
            \/ p.total # p.length
         THEN Dropped
         ELSE Given(p, p.chain[1], Ip4Len + 4 * (p.ihl - 5))
    ELSE IF p.length < Ip6Len THEN Dropped
    ELSE LET skipped == Skipped(p.chain)
         IN  Given(p, skipped.protocol, Ip6Len + skipped.off)

-----------------------------------------------------------------------------
\* The headers before the protocol's, each extension header being of 8 bytes.
HeadersLen(p) == IF p.version = 4 THEN 4 * p.ihl ELSE Ip6Len + 8 * (Len(p.chain) - 1)

Protocol(p) == p.chain[Len(p.chain)]

Fragment(p) == p.version = 4 /\ (Bit(p.frag, MoreFragments) \/ p.frag % MoreFragments # 0)

\* The shortest message of a protocol is its header.
Shortest(protocol) == IF protocol = "TCP" THEN 20 ELSE 8

\* A packet that can be handled: it is whole and holds a message.
Complete(p) ==
    /\ ~Fragment(p) /\ (p.version = 4 => p.total = p.length)
    /\ Protocol(p) \in Upper
    /\ p.length >= HeadersLen(p) + Shortest(Protocol(p))

\* A message of ICMP shorter than struct icmp: an echo of less than 20 bytes.
ShortIcmp(p) ==
    Protocol(p) \in {"ICMP", "ICMPV6"} /\ p.length < HeadersLen(p) + HeaderLen(Protocol(p))

\* What the kernel gives the tun device: the header of IPv4 is whole, and a
\* protocol with a handler ends the chain.
Packet(p) ==
    /\ p.length \in Nat /\ p.chain \in Seq(STRING) \ {<<>>}
    /\ \A i \in 1 .. Len(p.chain) - 1 : p.chain[i] \notin Upper
    /\ p.version = 4 => /\ Len(p.chain) = 1 /\ p.frag \in Nat /\ p.frag < 256 * 256
                       /\ p.ihl \in 5 .. 15 /\ 4 * p.ihl <= p.length
    /\ p.version # 4 => p.length >= Ip6Len

\* A handler gets the packets of its protocol, whole, and the place where its
\* header is; one without extension headers does not get lost, if it is not of
\* ICMP and short.
Fits(p, given) ==
    /\ given # Dropped /\ ~Fragment(p) =>
          given = [handler |-> Protocol(p), payload |-> HeadersLen(p)] /\ Complete(p)
    /\ Complete(p) /\ ~ShortIcmp(p) /\ Len(p.chain) = 1 => given # Dropped
=============================================================================
