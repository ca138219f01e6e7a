---------------------------- MODULE ParserProofs ----------------------------
(***************************************************************************)
(* handle_ip (ip.c) for every packet, of any length and with any chain of  *)
(* extension headers; calc_checksum (util.c) for every text;               *)
(* patch_http_url (http.c) for every request, with any target, headers and *)
(* body; parse_tls_header (tls.c) for every hello, with any extensions;    *)
(* handle_tcp (tcp.c) for every list of options of a SYN.                  *)
(***************************************************************************)
EXTENDS Parsers, WellFoundedInduction, TLAPS

LEMMA LeastExists ==
    ASSUME NEW T \in SUBSET Nat, T # {}
    PROVE  \E m \in T : \A n \in T : m <= n
<1>1. PICK m \in T : \A n \in T : ~ (<<n, m>> \in OpToRel(<, Nat))
  BY WFMin, NatLessThanWellFounded
<1>2. ASSUME NEW n \in T PROVE m <= n
  <2>1. ~ (n < m)
    BY <1>1, Zenon DEF OpToRel
  <2> QED BY <2>1
<1> QED BY <1>2

\* Induction up to a bound, on the numbers of a set.
LEMMA UpToBound ==
    ASSUME NEW n \in Nat, NEW S, 0 \in S,
           \A k \in 0 .. n - 1 : k \in S => k + 1 \in S
    PROVE  n \in S
<1> DEFINE T == {k \in 0 .. n : k \notin S}
<1>1. CASE T # {}
  <2>1. T \in SUBSET Nat
    OBVIOUS
  <2>2. PICK m \in T : \A k \in T : m <= k
    BY <1>1, <2>1, LeastExists
  <2> QED BY <2>2
<1> QED BY <1>1

\* The loop over the extension headers is defined for every chain: the function
\* of the headers from i on exists for i as it does for i + 1.
LEMMA SkipsExist ==
    ASSUME NEW chain \in Seq(STRING)
    PROVE  \E f : f = [i \in 1 .. Len(chain) |->
                          IF i < Len(chain) /\ is_lower_layer(chain[i + 1])
                                            /\ ~is_upper_layer(chain[i])
                          THEN f[i + 1] ELSE i]
<1> DEFINE n == Len(chain)
           Goes(i) == i < n /\ is_lower_layer(chain[i + 1]) /\ ~is_upper_layer(chain[i])
           IsLoop(f, k) == f = [i \in k .. n |-> IF Goes(i) THEN f[i + 1] ELSE i]
           From == {k \in Nat : \E f : IsLoop(f, n + 1 - k)}
<1>1. n \in Nat
  OBVIOUS
<1> HIDE DEF n, Goes
<1>2. 0 \in From
  <2>1. IsLoop([i \in n + 1 .. n |-> 0], n + 1)
    BY <1>1
  <2> QED BY <2>1, <1>1
<1>3. ASSUME NEW k \in Nat, k \in From, k < n
      PROVE  k + 1 \in From
  <2>1. PICK f : IsLoop(f, n + 1 - k)
    BY <1>3
  <2> DEFINE m == n - k
             g == [i \in m .. n |-> IF i > m THEN f[i] ELSE IF Goes(m) THEN f[m + 1] ELSE m]
  <2>2. m \in 1 .. n /\ n + 1 - k = m + 1 /\ n + 1 - (k + 1) = m
    BY <1>1, <1>3
  <2> HIDE DEF m
  <2>3. ASSUME NEW i \in m .. n
        PROVE  g[i] = IF Goes(i) THEN g[i + 1] ELSE i
    <3>1. CASE i > m
      <4>1. i \in m + 1 .. n /\ (Goes(i) => i + 1 \in m .. n /\ i + 1 > m)
        BY <1>1, <2>2, <3>1 DEF Goes
      <4> QED BY <2>1, <2>2, <3>1, <4>1
    <3>2. CASE i = m
      <4>1. Goes(m) => m + 1 \in m .. n /\ m + 1 > m
        BY <1>1, <2>2 DEF Goes
      <4> QED BY <1>1, <2>2, <3>2, <4>1
    <3> QED BY <1>1, <2>2, <3>1, <3>2
  <2>4. IsLoop(g, m)
    BY <2>3
  <2>5. IsLoop(g, n + 1 - (k + 1))
    BY <2>2, <2>4
  <2> HIDE DEF g, IsLoop
  <2>6. \E h : IsLoop(h, n + 1 - (k + 1))
    BY <2>5
  <2> QED BY <2>6
<1>4. n \in From
  <2> HIDE DEF From
  <2> QED BY <1>1, <1>2, <1>3, UpToBound
<1>5. \E f : IsLoop(f, 1)
  BY <1>1, <1>4
<1> QED BY <1>5 DEF n, Goes

\* The loop never comes to a protocol that has a handler: it steps to extension
\* headers only.
LEMMA SkippedProtocol ==
    ASSUME NEW chain \in Seq(STRING) \ {<<>>}
    PROVE  /\ is_upper_layer(chain[1]) => Skipped(chain) = [protocol |-> chain[1], off |-> 0]
           /\ ~is_upper_layer(chain[1]) => ~is_upper_layer(Skipped(chain).protocol)
<1> DEFINE n == Len(chain)
           Goes(i) == i < n /\ is_lower_layer(chain[i + 1]) /\ ~is_upper_layer(chain[i])
           from == CHOOSE f : f = [i \in 1 .. n |-> IF /\ i < n /\ is_lower_layer(chain[i + 1])
                                                      /\ ~is_upper_layer(chain[i])
                                                   THEN f[i + 1] ELSE i]
           last == from[1]
           Right(i) == from[i] = i \/ is_lower_layer(chain[from[i]])
           Passed == {k \in Nat : k < n => Right(n - k)}
<1>1. n \in Nat \ {0}
  OBVIOUS
<1>2. from = [i \in 1 .. n |-> IF Goes(i) THEN from[i + 1] ELSE i]
  <2>1. \E f : f = [i \in 1 .. n |-> IF /\ i < n /\ is_lower_layer(chain[i + 1])
                                         /\ ~is_upper_layer(chain[i])
                                      THEN f[i + 1] ELSE i]
    BY SkipsExist
  <2> QED BY <2>1, Zenon
<1>3. Skipped(chain) =
          IF is_upper_layer(chain[1]) THEN [protocol |-> chain[1], off |-> 0]
          ELSE IF is_upper_layer(chain[last])
          THEN [protocol |-> chain[last], off |-> Ip6Len + 8 * (last - 1)]
          ELSE [protocol |-> chain[1], off |-> 0]
  BY Zenon DEF Skipped
<1> HIDE DEF from
<1>4. ASSUME NEW i \in 1 .. n, i < n => Right(i + 1)
      PROVE  Right(i)
  <2>1. CASE Goes(i)
    <3>1. from[i] = from[i + 1] /\ i + 1 \in 1 .. n
      BY <1>1, <1>2, <2>1
    <3> QED BY <1>4, <2>1, <3>1
  <2>2. CASE ~Goes(i)
    BY <1>2, <2>2
  <2> QED BY <2>1, <2>2
<1> HIDE DEF n, Right
<1>5. 0 \in Passed
  <2>1. Right(n)
    BY <1>1, <1>4
  <2> QED BY <1>1, <2>1
<1>6. ASSUME NEW k \in 0 .. n - 1 - 1, k \in Passed
      PROVE  k + 1 \in Passed
  <2>1. n - (k + 1) \in 1 .. n /\ n - (k + 1) + 1 = n - k /\ k < n
    BY <1>1
  <2>2. Right(n - k)
    BY <1>6, <2>1
  <2>3. Right(n - (k + 1))
    BY <1>4, <2>1, <2>2
  <2> QED BY <2>1, <2>3
<1>7. Right(1)
  <2>1. n - 1 \in Nat
    BY <1>1
  <2> HIDE DEF Passed
  <2>2. n - 1 \in Passed
    BY <1>5, <1>6, <2>1, UpToBound
  <2> QED BY <1>1, <2>2 DEF Passed
<1>8. \A protocol : is_lower_layer(protocol) => ~is_upper_layer(protocol)
  BY DEF is_lower_layer, is_upper_layer, Upper
<1> QED BY <1>3, <1>7, <1>8 DEF Right

-----------------------------------------------------------------------------
\* What is left of a packet that holds its headers decides whether a handler is
\* given it.
LEMMA GivenWhole ==
    ASSUME NEW p, NEW protocol, NEW payload \in Nat, p.length \in Nat, payload <= p.length
    PROVE  Given(p, protocol, payload) =
               IF protocol \in Upper /\ p.length >= payload + HeaderLen(protocol)
               THEN [handler |-> protocol, payload |-> payload] ELSE Dropped
<1>1. protocol \in Upper => HeaderLen(protocol) \in Nat
  BY DEF Upper, HeaderLen
<1> QED BY <1>1 DEF Given, is_upper_layer

\* A packet of IPv4 that is no fragment is none in the order of its bytes in
\* memory, either: a flag there is a bit of an offset.
LEMMA NoFragment ==
    ASSUME NEW p, p.version = 4, p.frag \in Nat, p.frag < 256 * 256, ~Fragment(p)
    PROVE  ~Bit(Swapped(p.frag), MoreFragments)
<1> DEFINE f == p.frag
<1>1. f \in Nat /\ f < 256 * 256
  OBVIOUS
<1>2. ~Bit(f, MoreFragments) /\ f % MoreFragments = 0
  BY DEF Fragment
<1> HIDE DEF f
<1>3. f % 256 = 0
  BY <1>1, <1>2 DEF Bit, MoreFragments
<1>4. f \div 256 \in Nat /\ f \div 256 < 256
  BY <1>1
<1>5. Swapped(f) < 256 /\ Swapped(f) \in Nat
  BY <1>1, <1>3, <1>4 DEF Swapped
<1>6. Swapped(f) \div MoreFragments = 0
  BY <1>5 DEF MoreFragments
<1> QED BY <1>6 DEF Bit, f

\* A packet that holds the header that is asked for is whole, and a whole one
\* holds it if it is not of ICMP and short.
LEMMA WholeHolds ==
    ASSUME NEW p, p.length \in Nat, NEW h \in Nat, HeadersLen(p) = h, Protocol(p) \in Upper,
           ~Fragment(p), p.version = 4 => p.total = p.length
    PROVE  /\ p.length >= h + HeaderLen(Protocol(p)) => Complete(p)
           /\ Complete(p) /\ ~ShortIcmp(p) => p.length >= h + HeaderLen(Protocol(p))
<1> DEFINE c == Protocol(p)
<1>1. c \in {"TCP", "UDP", "ICMP", "ICMPV6"}
  BY DEF Upper
<1>2. /\ Complete(p) <=> p.length >= h + Shortest(c)
      /\ ShortIcmp(p) <=> c \in {"ICMP", "ICMPV6"} /\ p.length < h + HeaderLen(c)
  BY DEF Complete, ShortIcmp
<1> HIDE DEF c
<1>3. /\ Shortest(c) \in Nat /\ HeaderLen(c) \in Nat /\ HeaderLen(c) >= Shortest(c)
      /\ c \notin {"ICMP", "ICMPV6"} => HeaderLen(c) = Shortest(c)
  BY <1>1 DEF Shortest, HeaderLen
<1> QED BY <1>2, <1>3 DEF c

\* handle_ip gives a whole packet of a protocol that it knows to the handler of
\* that protocol, with the place of its header, and no other packet to any: for
\* every packet but a fragment, whatever its lengths and its chain of headers.
\* It loses none of TCP or UDP without extension headers, and none of ICMP that
\* is as long as struct icmp.
THEOREM HandlerFits ==
    ASSUME NEW p, Packet(p)
    PROVE  Fits(p, handle_ip(p))
<1> DEFINE c == p.chain
           n == Len(c)
<1>1. /\ p.length \in Nat /\ n \in Nat \ {0} /\ c \in Seq(STRING) \ {<<>>}
      /\ \A i \in 1 .. n - 1 : c[i] \notin Upper
  <2>1. c \in Seq(STRING) \ {<<>>}
    BY DEF Packet
  <2>2. n \in Nat \ {0}
    BY <2>1
  <2> QED BY <2>1, <2>2 DEF Packet
<1>2. \A payload : \A protocol \in Upper : [handler |-> protocol, payload |-> payload] # Dropped
  BY DEF Upper, Dropped
<1>3. CASE p.version = 4
  <2> DEFINE h == 4 * p.ihl
  <2>1. /\ n = 1 /\ p.frag \in Nat /\ p.frag < 256 * 256 /\ p.ihl \in 5 .. 15 /\ h <= p.length
    BY <1>3 DEF Packet
  <2>2. h \in Nat /\ Ip4Len + 4 * (p.ihl - 5) = h /\ ~(p.length < Ip4Len)
    <3>1. \A k \in 5 .. 15 : 4 * k \in Nat /\ 20 + 4 * (k - 5) = 4 * k /\ 4 * k >= 20
      OBVIOUS
    <3>2. h \in Nat /\ 20 + 4 * (p.ihl - 5) = h /\ h >= 20
      BY <2>1, <3>1
    <3> HIDE DEF h
    <3> QED BY <1>1, <2>1, <3>2 DEF Ip4Len
  <2>3. HeadersLen(p) = h /\ Protocol(p) = c[1]
    BY <1>3, <2>1 DEF HeadersLen, Protocol
  <2> HIDE DEF h, c
  <2>4. Given(p, c[1], h) = IF c[1] \in Upper /\ p.length >= h + HeaderLen(c[1])
                            THEN [handler |-> c[1], payload |-> h] ELSE Dropped
    BY <1>1, <2>1, <2>2, GivenWhole
  <2>5. handle_ip(p) = IF Bit(Swapped(p.frag), MoreFragments) \/ p.total # p.length
                       THEN Dropped ELSE Given(p, c[1], h)
    BY <1>3, <2>2 DEF handle_ip, c
  <2>6. CASE Fragment(p)
    BY <2>6 DEF Fits, Complete
  <2>7. CASE ~Fragment(p)
    <3>1. ~Bit(Swapped(p.frag), MoreFragments)
      BY <1>3, <2>1, <2>7, NoFragment
    <3>2. CASE c[1] \notin Upper \/ p.total # p.length
      <4>1. handle_ip(p) = Dropped /\ ~Complete(p)
        BY <1>3, <2>3, <2>4, <2>5, <3>1, <3>2 DEF Complete
      <4> QED BY <4>1 DEF Fits
    <3>3. CASE c[1] \in Upper /\ p.total = p.length
      <4>1. handle_ip(p) = IF p.length >= h + HeaderLen(c[1])
                           THEN [handler |-> c[1], payload |-> h] ELSE Dropped
        BY <2>4, <2>5, <3>1, <3>3
      <4>2. /\ p.length >= h + HeaderLen(c[1]) => Complete(p)
            /\ Complete(p) /\ ~ShortIcmp(p) => p.length >= h + HeaderLen(c[1])
        BY <1>1, <2>2, <2>3, <2>7, <3>3, WholeHolds
      <4> QED BY <1>2, <2>3, <3>3, <4>1, <4>2 DEF Fits
    <3> QED BY <3>2, <3>3
  <2> QED BY <2>6, <2>7
<1>4. CASE p.version # 4
  <2> DEFINE s == Skipped(c)
  <2>1. ~(p.length < Ip6Len) /\ Ip6Len \in Nat /\ Ip6Len <= p.length
    BY <1>1, <1>4 DEF Packet, Ip6Len
  <2>2. handle_ip(p) = Given(p, s.protocol, Ip6Len + s.off)
    BY <1>4, <2>1 DEF handle_ip
  <2>3. Protocol(p) = c[n] /\ HeadersLen(p) = Ip6Len + 8 * (n - 1)
    BY <1>4 DEF Protocol, HeadersLen
  <2>4. ~Fragment(p)
    BY <1>4 DEF Fragment
  <2> HIDE DEF c
  <2>5. CASE c[1] \in Upper
    <3>1. n = 1
      <4>1. 1 \notin 1 .. n - 1
        BY <1>1, <2>5, Zenon
      <4> HIDE DEF n
      <4> QED BY <1>1, <4>1
    <3>2. s = [protocol |-> c[1], off |-> 0]
      BY <1>1, <2>5, SkippedProtocol DEF is_upper_layer
    <3>3. HeadersLen(p) = Ip6Len /\ Ip6Len + s.off = Ip6Len /\ Protocol(p) = c[1]
      BY <2>1, <2>3, <3>1, <3>2
    <3>4. handle_ip(p) = IF p.length >= Ip6Len + HeaderLen(c[1])
                         THEN [handler |-> c[1], payload |-> Ip6Len] ELSE Dropped
      BY <1>1, <2>1, <2>2, <2>5, <3>2, <3>3, GivenWhole
    <3>5. /\ p.length >= Ip6Len + HeaderLen(c[1]) => Complete(p)
          /\ Complete(p) /\ ~ShortIcmp(p) => p.length >= Ip6Len + HeaderLen(c[1])
      BY <1>1, <1>4, <2>1, <2>4, <2>5, <3>3, WholeHolds
    <3> QED BY <1>2, <2>5, <3>3, <3>4, <3>5 DEF Fits
  <2>6. CASE c[1] \notin Upper
    <3>1. s.protocol \notin Upper
      BY <1>1, <2>6, SkippedProtocol DEF is_upper_layer
    <3>2. handle_ip(p) = Dropped
      BY <2>2, <3>1 DEF Given, is_upper_layer
    <3>3. n = 1 => ~Complete(p)
      BY <2>3, <2>6 DEF Complete
    <3> QED BY <3>2, <3>3 DEF Fits, c
  <2> QED BY <2>5, <2>6
<1> QED BY <1>3, <1>4

-----------------------------------------------------------------------------
(***************************************************************************)
(* The sum of words, as a fold, is what its steps make it.                 *)
(***************************************************************************)
IsFold(f, n, ws, start) ==
    f = [s \in SUBSET (1 .. n) |->
            IF s = {} THEN start ELSE f[s \ {Max(s)}] + ws[Max(s)]]

LEMMA FoldExists ==
    ASSUME NEW n \in Nat, NEW ws, NEW start
    PROVE  \E f : IsFold(f, n, ws, start)
<1> DEFINE To == {k \in Nat : \E f : IsFold(f, k, ws, start)}
<1>1. 0 \in To
  <2> DEFINE f == [s \in SUBSET (1 .. 0) |-> start]
  <2>1. \A s \in SUBSET (1 .. 0) : s = {}
    OBVIOUS
  <2>2. IsFold(f, 0, ws, start)
    BY <2>1, Zenon DEF IsFold
  <2> QED BY <2>2
<1>2. ASSUME NEW k \in Nat, k \in To
      PROVE  k + 1 \in To
  <2>1. PICK f : IsFold(f, k, ws, start)
    BY <1>2
  <2> DEFINE g == [s \in SUBSET (1 .. k + 1) |->
                      IF k + 1 \in s THEN f[s \ {k + 1}] + ws[k + 1] ELSE f[s]]
  <2>2. ASSUME NEW s \in SUBSET (1 .. k + 1)
        PROVE  g[s] = IF s = {} THEN start ELSE g[s \ {Max(s)}] + ws[Max(s)]
    <3>1. CASE k + 1 \in s
      <4>1. Max(s) = k + 1
        <5>1. \A y \in s : k + 1 >= y
          OBVIOUS
        <5>2. \A x \in s : (\A y \in s : x >= y) => x = k + 1
          BY <3>1
        <5> QED BY <3>1, <5>1, <5>2, Zenon DEF Max
      <4>2. s \ {k + 1} \in SUBSET (1 .. k + 1) /\ k + 1 \notin s \ {k + 1}
        OBVIOUS
      <4>3. g[s \ {k + 1}] = f[s \ {k + 1}] /\ g[s] = f[s \ {k + 1}] + ws[k + 1]
        BY <3>1, <4>2
      <4> HIDE DEF g
      <4> QED BY <3>1, <4>1, <4>3, Zenon
    <3>2. CASE k + 1 \notin s
      <4>1. s \in SUBSET (1 .. k)
        BY <3>2
      <4>2. \A x : s \ {x} \in SUBSET (1 .. k + 1) /\ k + 1 \notin s \ {x}
        BY <3>2
      <4>3. g[s] = f[s] /\ \A x : g[s \ {x}] = f[s \ {x}]
        BY <3>2, <4>2, Zenon
      <4> HIDE DEF g
      <4>4. f[s] = IF s = {} THEN start ELSE f[s \ {Max(s)}] + ws[Max(s)]
        BY <2>1, <4>1, Zenon DEF IsFold
      <4> QED BY <4>3, <4>4, Zenon
    <3> QED BY <3>1, <3>2
  <2>3. IsFold(g, k + 1, ws, start)
    BY <2>2, Zenon DEF IsFold
  <2> HIDE DEF g
  <2>4. \E h : IsFold(h, k + 1, ws, start)
    BY <2>3
  <2> QED BY <2>4
<1> HIDE DEF To
<1>3. n \in To
  BY <1>1, <1>2, UpToBound
<1> QED BY <1>3 DEF To

\* The sums of the first words, one by one.
Sums(f, start, n, ws) ==
    /\ f \in [0 .. n -> Nat] /\ f[0] = start
    /\ \A k \in 0 .. n - 1 : f[k + 1] = f[k] + ws[k + 1]

LEMMA SumSteps ==
    ASSUME NEW n \in Nat, NEW ws \in [1 .. n -> Nat], NEW start \in Nat
    PROVE  \E f : Sums(f, start, n, ws) /\ Sum(start, ws) = f[n]
<1> DEFINE g == CHOOSE f : f = [s \in SUBSET (DOMAIN ws) |->
                                  IF s = {} THEN start ELSE f[s \ {Max(s)}] + ws[Max(s)]]
<1>1. Sum(start, ws) = g[DOMAIN ws]
  BY Zenon DEF Sum, FoldLeft, MapThenFoldSet
<1>2. DOMAIN ws = 1 .. n
  OBVIOUS
<1>3. IsFold(g, n, ws, start)
  <2>1. \E f : IsFold(f, n, ws, start)
    BY FoldExists
  <2> QED BY <1>2, <2>1, Zenon DEF IsFold
<1> HIDE DEF g
<1> DEFINE f == [k \in 0 .. n |-> g[1 .. k]]
<1>4. f[0] = start /\ f[n] = g[1 .. n]
  <2>1. 1 .. 0 = {} /\ {} \in SUBSET (1 .. n) /\ 0 \in 0 .. n /\ n \in 0 .. n
    OBVIOUS
  <2>2. g[{}] = start
    BY <1>3, <2>1, Zenon DEF IsFold
  <2> QED BY <2>1, <2>2
<1>5. ASSUME NEW k \in 0 .. n - 1
      PROVE  f[k + 1] = f[k] + ws[k + 1]
  <2> DEFINE s == 1 .. k + 1
  <2>1. s \in SUBSET (1 .. n) /\ s # {} /\ s \ {k + 1} = 1 .. k
    <3>1. k + 1 \in s
      OBVIOUS
    <3>2. \A i : i \in s \ {k + 1} <=> i \in 1 .. k
      OBVIOUS
    <3>3. s \in SUBSET (1 .. n)
      OBVIOUS
    <3> HIDE DEF s
    <3> QED BY <3>1, <3>2, <3>3
  <2>2. Max(s) = k + 1
    <3>1. k + 1 \in s /\ \A y \in s : k + 1 >= y
      OBVIOUS
    <3>2. \A x \in s : (\A y \in s : x >= y) => x = k + 1
      OBVIOUS
    <3> HIDE DEF s
    <3> QED BY <3>1, <3>2, Zenon DEF Max
  <2>3. g[s] = g[1 .. k] + ws[k + 1]
    BY <1>3, <2>1, <2>2, Zenon DEF IsFold
  <2> QED BY <2>3
<1> HIDE DEF f
<1>6. ASSUME NEW k \in 0 .. n
      PROVE  f[k] \in Nat
  <2> DEFINE S == {j \in Nat : f[j] \in Nat}
  <2>1. 0 \in S
    BY <1>4
  <2>2. \A j \in 0 .. k - 1 : j \in S => j + 1 \in S
    BY <1>5
  <2> HIDE DEF S
  <2>3. k \in S
    BY <2>1, <2>2, UpToBound
  <2> QED BY <2>3 DEF S
<1>7. f \in [0 .. n -> Nat]
  BY <1>6 DEF f
<1> QED BY <1>1, <1>2, <1>4, <1>5, <1>7 DEF Sums

LEMMA SumStart ==
    ASSUME NEW n \in Nat, NEW ws \in [1 .. n -> Nat], NEW start \in Nat
    PROVE  Sum(start, ws) = start + Sum(0, ws) /\ Sum(0, ws) \in Nat
<1>1. PICK f : Sums(f, start, n, ws) /\ Sum(start, ws) = f[n]
  BY SumSteps
<1>2. PICK g : Sums(g, 0, n, ws) /\ Sum(0, ws) = g[n]
  BY SumSteps
<1> DEFINE S == {k \in 0 .. n : f[k] = start + g[k]}
<1>3. 0 \in S
  BY <1>1, <1>2 DEF Sums
<1>4. ASSUME NEW k \in 0 .. n - 1, k \in S PROVE k + 1 \in S
  <2>1. k \in 0 .. n /\ k + 1 \in 0 .. n /\ k + 1 \in 1 .. n
    OBVIOUS
  <2>2. f[k + 1] = f[k] + ws[k + 1] /\ g[k + 1] = g[k] + ws[k + 1]
    BY <1>1, <1>2 DEF Sums
  <2>3. g[k] \in Nat /\ ws[k + 1] \in Nat
    BY <1>2, <2>1 DEF Sums
  <2> QED BY <1>4, <2>1, <2>2, <2>3
<1> HIDE DEF S
<1>5. n \in S
  BY <1>3, <1>4, UpToBound
<1> QED BY <1>1, <1>2, <1>5 DEF S, Sums

\* The sum of words that are followed by others.
LEMMA SumOfBoth ==
    ASSUME NEW m \in Nat, NEW n \in Nat, NEW u \in [1 .. m -> Nat], NEW v \in [1 .. n -> Nat],
           NEW w \in [1 .. m + n -> Nat],
           \A i \in 1 .. m : w[i] = u[i], \A i \in 1 .. n : w[m + i] = v[i]
    PROVE  Sum(0, w) = Sum(0, u) + Sum(0, v)
<1>1. PICK f : Sums(f, 0, m, u) /\ Sum(0, u) = f[m]
  BY SumSteps
<1>2. PICK g : Sums(g, 0, n, v) /\ Sum(0, v) = g[n]
  BY SumSteps
<1>3. PICK h : Sums(h, 0, m + n, w) /\ Sum(0, w) = h[m + n]
  <2> DEFINE k == m + n
  <2>1. k \in Nat /\ 0 \in Nat /\ w \in [1 .. k -> Nat]
    OBVIOUS
  <2> HIDE DEF k
  <2>2. \E h : Sums(h, 0, k, w) /\ Sum(0, w) = h[k]
    BY <2>1, SumSteps
  <2> QED BY <2>2 DEF k
<1> DEFINE S == {k \in 0 .. m : h[k] = f[k]}
           T == {k \in 0 .. n : h[m + k] = f[m] + g[k]}
<1>4. m \in S
  <2>1. 0 \in S
    BY <1>1, <1>3 DEF Sums
  <2>2. ASSUME NEW k \in 0 .. m - 1, k \in S PROVE k + 1 \in S
    <3>1. k \in 0 .. m + n - 1 /\ k + 1 \in 1 .. m /\ k + 1 \in 0 .. m
      OBVIOUS
    <3> QED BY <1>1, <1>3, <2>2, <3>1 DEF Sums
  <2> HIDE DEF S
  <2> QED BY <2>1, <2>2, UpToBound
<1>5. n \in T
  <2>1. 0 \in T
    BY <1>1, <1>2, <1>4 DEF Sums
  <2>2. ASSUME NEW k \in 0 .. n - 1, k \in T PROVE k + 1 \in T
    <3>1. /\ m + k \in 0 .. m + n - 1 /\ k + 1 \in 1 .. n /\ k + 1 \in 0 .. n
          /\ k \in 0 .. n /\ m + k + 1 = m + (k + 1)
      OBVIOUS
    <3>2. h[m + (k + 1)] = h[m + k] + w[m + (k + 1)] /\ g[k + 1] = g[k] + v[k + 1]
      BY <1>2, <1>3, <3>1 DEF Sums
    <3>3. w[m + (k + 1)] = v[k + 1] /\ v[k + 1] \in Nat /\ g[k] \in Nat /\ f[m] \in Nat
      BY <1>1, <1>2, <3>1 DEF Sums
    <3> QED BY <2>2, <3>1, <3>2, <3>3
  <2> HIDE DEF T
  <2> QED BY <2>1, <2>2, UpToBound
<1> QED BY <1>1, <1>2, <1>3, <1>5

-----------------------------------------------------------------------------
(***************************************************************************)
(* Division by a number that is not known.                                 *)
(***************************************************************************)
LEMMA DivMod ==
    ASSUME NEW m \in Nat \ {0}, NEW x \in Nat
    PROVE  x \div m \in Nat /\ x % m \in 0 .. m - 1 /\ x = (x \div m) * m + (x % m)
OBVIOUS

LEMMA AtLeastOnce ==
    ASSUME NEW m \in Nat, NEW k \in Nat \ {0}
    PROVE  k * m >= m
<1>1. k - 1 \in Nat /\ (k - 1) * m \in Nat
  OBVIOUS
<1>2. k * m = (k - 1) * m + m
  OBVIOUS
<1> QED BY <1>1, <1>2

LEMMA Remainder ==
    ASSUME NEW m \in Nat \ {0}, NEW q \in Nat, NEW r \in 0 .. m - 1
    PROVE  (q * m + r) % m = r
<1> DEFINE x == q * m + r
           d == x \div m
<1>1. x \in Nat /\ q * m \in Nat
  OBVIOUS
<1>2. d \in Nat /\ x % m \in 0 .. m - 1 /\ x = d * m + (x % m)
  <2> HIDE DEF x
  <2> QED BY <1>1, DivMod
<1>3. x = q * m + r
  OBVIOUS
<1> HIDE DEF x, d
<1>4. ~(d > q)
  <2>1. SUFFICES ASSUME d > q PROVE FALSE
    OBVIOUS
  <2>2. d - q \in Nat \ {0} /\ (d - q) * m = d * m - q * m
    BY <1>2, <2>1
  <2>3. (d - q) * m >= m
    BY <2>2, AtLeastOnce
  <2>4. d * m \in Nat
    BY <1>2
  <2> HIDE DEF d
  <2> QED BY <1>1, <1>2, <1>3, <2>2, <2>3, <2>4
<1>5. ~(q > d)
  <2>1. SUFFICES ASSUME q > d PROVE FALSE
    OBVIOUS
  <2>2. q - d \in Nat \ {0} /\ (q - d) * m = q * m - d * m
    BY <1>2, <2>1
  <2>3. (q - d) * m >= m
    BY <2>2, AtLeastOnce
  <2>4. d * m \in Nat
    BY <1>2
  <2> QED BY <1>1, <1>2, <1>3, <2>2, <2>3, <2>4
<1>6. d = q
  BY <1>2, <1>4, <1>5
<1>7. x % m = r
  <2>1. d * m = q * m
    BY <1>6
  <2> QED BY <1>1, <1>2, <1>3, <2>1
<1> QED BY <1>7 DEF x

-----------------------------------------------------------------------------
(***************************************************************************)
(* Carrying takes from a sum a multiple of the largest word, and leaves a  *)
(* word.                                                                   *)
(***************************************************************************)
Largest == WordSize - 1

\* What exceeds a word is added to it.
Folded(s) == (s % WordSize) + (s \div WordSize)

LEMMA WordSizeType ==
    WordSize \in Nat /\ WordSize >= 4 /\ Largest \in Nat \ {0} /\ WordSize = Largest + 1
<1>1. ByteSize * ByteSize = (ByteSize - 2) * (ByteSize - 2) + 4 * (ByteSize - 2) + 4
  BY ChecksumAssumption
<1>2. ByteSize - 2 \in Nat /\ (ByteSize - 2) * (ByteSize - 2) \in Nat
  BY ChecksumAssumption
<1> QED BY <1>1, <1>2 DEF WordSize, Largest

LEMMA FoldedLess ==
    ASSUME NEW s \in Nat, s >= WordSize
    PROVE  /\ Folded(s) \in Nat /\ Folded(s) < s /\ Folded(s) >= 1
           /\ \E d \in Nat : s = d * Largest + Folded(s)
<1> DEFINE d == s \div WordSize
           r == s % WordSize
<1>1. d \in Nat /\ r \in 0 .. WordSize - 1 /\ s = d * WordSize + r
  <2>1. WordSize \in Nat \ {0}
    BY WordSizeType
  <2> QED BY <2>1, DivMod
<1>2. Folded(s) = r + d
  BY DEF Folded
<1> HIDE DEF d, r
<1>3. d # 0
  BY <1>1, WordSizeType
<1>4. d * WordSize = d * Largest + d
  BY <1>1, WordSizeType
<1>5. d * Largest \in Nat /\ d * Largest >= Largest
  BY <1>1, <1>3, WordSizeType, AtLeastOnce
<1>6. s = d * Largest + Folded(s)
  BY <1>1, <1>2, <1>4, <1>5
<1>7. Folded(s) \in Nat /\ Folded(s) >= 1
  BY <1>1, <1>2, <1>3
<1>8. Folded(s) < s
  BY <1>5, <1>6, <1>7, WordSizeType
<1> QED BY <1>1, <1>6, <1>7, <1>8

LEMMA CarryExists ==
    \E f : f = [s \in Nat |-> IF s < WordSize THEN s ELSE f[(s % WordSize) + (s \div WordSize)]]
<1> DEFINE f == [s \in Nat |-> IF s = 0 THEN 0 ELSE ((s - 1) % Largest) + 1]
<1>1. ASSUME NEW s \in Nat
      PROVE  f[s] = IF s < WordSize THEN s ELSE f[Folded(s)]
  <2>1. CASE s = 0
    BY <2>1, WordSizeType
  <2>2. CASE s # 0 /\ s < WordSize
    <3>1. s - 1 \in 0 .. Largest - 1 /\ 0 * Largest + (s - 1) = s - 1
      BY <2>2, WordSizeType
    <3>2. (0 * Largest + (s - 1)) % Largest = s - 1
      BY <3>1, WordSizeType, Remainder
    <3>3. f[s] = s
      BY <2>2, <3>1, <3>2
    <3> HIDE DEF f
    <3> QED BY <2>2, <3>3
  <2>3. CASE s >= WordSize
    <3>1. /\ Folded(s) \in Nat /\ Folded(s) >= 1
          /\ \E d \in Nat : s = d * Largest + Folded(s)
      BY <2>3, FoldedLess
    <3>2. PICK d \in Nat : s = d * Largest + Folded(s)
      BY <3>1
    <3> DEFINE e == Folded(s) - 1
               q == e \div Largest
               r == e % Largest
    <3>3. e \in Nat /\ Folded(s) = e + 1
      BY <3>1
    <3>4. q \in Nat /\ r \in 0 .. Largest - 1 /\ e = q * Largest + r
      <4> HIDE DEF e
      <4> QED BY <3>3, WordSizeType, DivMod
    <3> HIDE DEF e, q, r
    <3>5. d + q \in Nat /\ (d + q) * Largest = d * Largest + q * Largest
      BY <3>4, WordSizeType
    <3>6. s - 1 = (d + q) * Largest + r
      <4>1. d * Largest \in Nat /\ q * Largest \in Nat
        BY <3>4, WordSizeType
      <4> QED BY <3>2, <3>3, <3>4, <3>5, <4>1
    <3>7. (s - 1) % Largest = r
      BY <3>4, <3>5, <3>6, WordSizeType, Remainder
    <3>8. s # 0 /\ ~(s < WordSize) /\ Folded(s) # 0 /\ Folded(s) - 1 = e
      BY <2>3, <3>1, <3>3, WordSizeType
    <3>9. f[s] = r + 1 /\ f[Folded(s)] = r + 1
      BY <3>1, <3>7, <3>8 DEF r
    <3> HIDE DEF f
    <3> QED BY <3>8, <3>9
  <2> QED BY <2>1, <2>2, <2>3, WordSizeType
<1>2. f = [s \in Nat |-> IF s < WordSize THEN s ELSE f[(s % WordSize) + (s \div WordSize)]]
  BY <1>1, Zenon DEF Folded
<1> HIDE DEF f
<1> QED BY <1>2

LEMMA CarriedIs ==
    ASSUME NEW s \in Nat
    PROVE  /\ Carried(s) \in 0 .. Largest
           /\ \E q \in Nat : s = q * Largest + Carried(s)
<1> DEFINE carry == CHOOSE f : f = [x \in Nat |->
                       IF x < WordSize THEN x ELSE f[(x % WordSize) + (x \div WordSize)]]
           Right(x) == /\ carry[x] \in 0 .. Largest
                       /\ \E q \in Nat : x = q * Largest + carry[x]
           Wrong == {x \in Nat : ~Right(x)}
<1>1. Carried(s) = carry[s]
  BY Zenon DEF Carried
<1>2. \A x \in Nat : carry[x] = IF x < WordSize THEN x ELSE carry[Folded(x)]
  <2>1. carry = [x \in Nat |->
                    IF x < WordSize THEN x ELSE carry[(x % WordSize) + (x \div WordSize)]]
    BY CarryExists, Zenon
  <2> QED BY <2>1, Zenon DEF Folded
<1> HIDE DEF carry
<1>3. Wrong = {}
  <2>1. SUFFICES ASSUME Wrong # {} PROVE FALSE
    OBVIOUS
  <2>2. Wrong \in SUBSET Nat
    OBVIOUS
  <2>3. PICK m \in Wrong : \A x \in Wrong : m <= x
    BY <2>1, <2>2, LeastExists
  <2>4. m \in Nat /\ ~Right(m)
    BY <2>3
  <2>5. CASE m < WordSize
    <3>1. carry[m] = m /\ m \in 0 .. Largest /\ m = 0 * Largest + m
      BY <1>2, <2>4, <2>5, WordSizeType
    <3> QED BY <2>4, <3>1
  <2>6. CASE m >= WordSize
    <3>1. /\ Folded(m) \in Nat /\ Folded(m) < m
          /\ \E d \in Nat : m = d * Largest + Folded(m)
      BY <2>4, <2>6, FoldedLess
    <3>2. PICK d \in Nat : m = d * Largest + Folded(m)
      BY <3>1
    <3>3. Right(Folded(m))
      <4> HIDE DEF Right
      <4>1. Folded(m) \notin Wrong
        BY <2>3, <2>4, <3>1
      <4> QED BY <3>1, <4>1
    <3>4. carry[m] = carry[Folded(m)]
      BY <1>2, <2>4, <2>6, WordSizeType
    <3>5. PICK q \in Nat : Folded(m) = q * Largest + carry[Folded(m)]
      BY <3>3
    <3>6. /\ d + q \in Nat /\ (d + q) * Largest = d * Largest + q * Largest
          /\ d * Largest \in Nat /\ q * Largest \in Nat /\ carry[m] \in Nat
      BY <3>3, <3>4, WordSizeType
    <3>7. m = (d + q) * Largest + carry[m]
      BY <3>2, <3>4, <3>5, <3>6
    <3> QED BY <2>4, <3>3, <3>4, <3>6, <3>7
  <2> QED BY <2>4, <2>5, <2>6, WordSizeType
<1> QED BY <1>1, <1>3

-----------------------------------------------------------------------------
(***************************************************************************)
(* The words of a text.                                                    *)
(***************************************************************************)
Total(bytes) == Sum(0, Words(bytes))

LEMMA WordsType ==
    ASSUME NEW bytes \in Seq(Bytes)
    PROVE  Words(bytes) \in [1 .. (Len(bytes) + 1) \div 2 -> Nat]
<1> DEFINE n == Len(bytes)
           h == (n + 1) \div 2
           word(i) == bytes[2 * i - 1] + IF 2 * i <= n THEN ByteSize * bytes[2 * i] ELSE 0
<1>1. n \in Nat /\ \A j \in 1 .. n : bytes[j] \in Nat
  BY ChecksumAssumption DEF Bytes
<1> HIDE DEF n
<1>2. ASSUME NEW i \in 1 .. h
      PROVE  word(i) \in Nat
  <2>1. 2 * i - 1 \in 1 .. n
    BY <1>1
  <2>2. 2 * i <= n => 2 * i \in 1 .. n
    BY <1>1
  <2>3. 2 * i <= n => ByteSize * bytes[2 * i] \in Nat
    BY <1>1, <2>2, ChecksumAssumption
  <2> QED BY <1>1, <2>1, <2>3
<1>3. Words(bytes) = [i \in 1 .. h |-> word(i)]
  BY DEF Words, n
<1> HIDE DEF h, word
<1>4. Words(bytes) \in [1 .. h -> Nat]
  BY <1>2, <1>3
<1> QED BY <1>4 DEF h, n

LEMMA TotalType ==
    ASSUME NEW bytes \in Seq(Bytes)
    PROVE  Total(bytes) \in Nat
<1> DEFINE n == (Len(bytes) + 1) \div 2
<1>1. n \in Nat
  OBVIOUS
<1>2. Words(bytes) \in [1 .. n -> Nat]
  BY WordsType
<1> HIDE DEF n
<1> QED BY <1>1, <1>2, SumStart DEF Total

LEMMA ConcatType ==
    ASSUME NEW a \in Seq(Bytes), NEW b \in Seq(Bytes)
    PROVE  a \o b \in Seq(Bytes) /\ Len(a \o b) = Len(a) + Len(b)
OBVIOUS

\* A text of one word.
LEMMA TwoBytes ==
    ASSUME NEW x \in Bytes, NEW y \in Bytes
    PROVE  /\ <<x, y>> \in Seq(Bytes) /\ Len(<<x, y>>) = 2
           /\ Total(<<x, y>>) = x + ByteSize * y
<1> DEFINE b == <<x, y>>
<1>1. b \in Seq(Bytes) /\ Len(b) = 2 /\ b[1] = x /\ b[2] = y
  OBVIOUS
<1> HIDE DEF b
<1>2. (Len(b) + 1) \div 2 = 1 /\ 1 \in 1 .. 1 /\ 2 * 1 - 1 = 1 /\ 2 * 1 = 2 /\ 2 <= Len(b)
  BY <1>1
<1>3. Words(b) \in [1 .. 1 -> Nat]
  BY <1>1, <1>2, WordsType
<1>4. Words(b)[1] = x + ByteSize * y
  BY <1>1, <1>2 DEF Words
<1>5. PICK f : Sums(f, 0, 1, Words(b)) /\ Sum(0, Words(b)) = f[1]
  BY <1>3, SumSteps
<1>6. 0 \in 0 .. 1 - 1 /\ 0 + 1 = 1
  OBVIOUS
<1>7. f[0] = 0 /\ f[1] = f[0] + Words(b)[1]
  BY <1>5, <1>6 DEF Sums
<1>8. x + ByteSize * y \in Nat
  BY ChecksumAssumption DEF Bytes
<1> QED BY <1>1, <1>4, <1>5, <1>7, <1>8 DEF Total, b

\* A text of whole words is summed apart from what follows it.
LEMMA TotalOfBoth ==
    ASSUME NEW a \in Seq(Bytes), NEW b \in Seq(Bytes), Len(a) % 2 = 0
    PROVE  Total(a \o b) = Total(a) + Total(b)
<1> DEFINE k == Len(a)
           l == Len(b)
           ab == a \o b
           m == (k + 1) \div 2
           n == (l + 1) \div 2
<1>1. /\ k \in Nat /\ l \in Nat /\ k % 2 = 0 /\ ab \in Seq(Bytes) /\ Len(ab) = k + l
      /\ \A i \in 1 .. k : ab[i] = a[i]
      /\ \A i \in 1 .. l : ab[k + i] = b[i]
  OBVIOUS
<1>2. Words(a) \in [1 .. m -> Nat] /\ Words(b) \in [1 .. n -> Nat]
  BY WordsType
<1>3. Words(ab) \in [1 .. (Len(ab) + 1) \div 2 -> Nat]
  BY <1>1, WordsType
<1>4. \A i \in 1 .. m : Words(a)[i] = a[2 * i - 1] + IF 2 * i <= k THEN ByteSize * a[2 * i] ELSE 0
  BY DEF Words
<1>5. \A i \in 1 .. n : Words(b)[i] = b[2 * i - 1] + IF 2 * i <= l THEN ByteSize * b[2 * i] ELSE 0
  BY DEF Words
<1>6. \A i \in 1 .. (Len(ab) + 1) \div 2 :
          Words(ab)[i] = ab[2 * i - 1] + IF 2 * i <= Len(ab) THEN ByteSize * ab[2 * i] ELSE 0
  BY Zenon DEF Words
<1> HIDE DEF k, l, ab
<1>7. m \in Nat /\ n \in Nat /\ k = 2 * m /\ (Len(ab) + 1) \div 2 = m + n
  <2>1. PICK h \in Nat : k = 2 * h
    BY <1>1
  <2>2. m = h
    BY <2>1
  <2>3. n \in Nat
    BY <1>1
  <2>4. (k + l + 1) \div 2 = h + n
    BY <1>1, <2>1
  <2> QED BY <1>1, <2>1, <2>2, <2>3, <2>4
<1>8. ASSUME NEW i \in 1 .. m
      PROVE  Words(ab)[i] = Words(a)[i]
  <2>1. /\ i \in 1 .. (Len(ab) + 1) \div 2 /\ 2 * i - 1 \in 1 .. k /\ 2 * i \in 1 .. k
        /\ 2 * i <= k /\ 2 * i <= Len(ab)
    BY <1>1, <1>7
  <2>2. ab[2 * i - 1] = a[2 * i - 1] /\ ab[2 * i] = a[2 * i]
    BY <1>1, <2>1
  <2> QED BY <1>4, <1>6, <2>1, <2>2
<1>9. ASSUME NEW i \in 1 .. n
      PROVE  Words(ab)[m + i] = Words(b)[i]
  <2> DEFINE j == m + i
  <2>1. /\ j \in 1 .. (Len(ab) + 1) \div 2 /\ 2 * i - 1 \in 1 .. l
        /\ 2 * j - 1 = k + (2 * i - 1) /\ 2 * j = k + 2 * i
        /\ 2 * j <= Len(ab) <=> 2 * i <= l
        /\ 2 * i <= l => 2 * i \in 1 .. l
    BY <1>1, <1>7
  <2>2. ab[2 * j - 1] = b[2 * i - 1] /\ (2 * i <= l => ab[2 * j] = b[2 * i])
    BY <1>1, <2>1
  <2>3. Words(ab)[j] = ab[2 * j - 1] + IF 2 * j <= Len(ab) THEN ByteSize * ab[2 * j] ELSE 0
    BY <1>6, <2>1
  <2> HIDE DEF j
  <2>4. Words(ab)[j] = b[2 * i - 1] + IF 2 * i <= l THEN ByteSize * b[2 * i] ELSE 0
    <3>1. CASE 2 * i <= l
      BY <2>1, <2>2, <2>3, <3>1
    <3>2. CASE ~(2 * i <= l)
      BY <2>1, <2>2, <2>3, <3>2
    <3> QED BY <3>1, <3>2
  <2> QED BY <1>5, <2>4 DEF j
<1> HIDE DEF m, n
<1>10. Words(ab) \in [1 .. m + n -> Nat]
  BY <1>3, <1>7
<1>11. Sum(0, Words(ab)) = Sum(0, Words(a)) + Sum(0, Words(b))
  BY <1>2, <1>7, <1>8, <1>9, <1>10, SumOfBoth
<1> QED BY <1>11 DEF Total, ab

-----------------------------------------------------------------------------
\* What calc_checksum adds to its start is the sum of the words, but for a
\* multiple of the largest word.
LEMMA ChecksumIs ==
    ASSUME NEW start \in Nat, NEW bytes \in Seq(Bytes)
    PROVE  /\ calc_checksum(start, bytes) \in 0 .. Largest
           /\ \E q \in Nat : start + Total(bytes) = q * Largest + calc_checksum(start, bytes)
<1> DEFINE n == (Len(bytes) + 1) \div 2
           s == Sum(start, Words(bytes))
<1>1. n \in Nat
  OBVIOUS
<1>2. Words(bytes) \in [1 .. n -> Nat]
  BY WordsType
<1> HIDE DEF n
<1>3. s = start + Total(bytes) /\ s \in Nat
  <2> DEFINE w == Words(bytes)
  <2> HIDE DEF w
  <2>1. w \in [1 .. n -> Nat]
    BY <1>2 DEF w
  <2>2. Sum(start, w) = start + Sum(0, w) /\ Sum(0, w) \in Nat
    BY <1>1, <2>1, SumStart
  <2> DEFINE t == Sum(0, w)
  <2>3. start + t \in Nat
    BY <2>2
  <2> HIDE DEF t
  <2> QED BY <2>2, <2>3 DEF Total, w, t
<1>4. calc_checksum(start, bytes) = Carried(s)
  BY DEF calc_checksum
<1> HIDE DEF s
<1> QED BY <1>3, <1>4, CarriedIs

\* What write_tcp, write_udp and write_icmp send has a checksum that a receiver
\* finds right, though calc_checksum is called for each part apart and its sum is
\* carried after each: for every pseudo header and header of whole words, for
\* data of any length, odd ones included, and for a byte of any size.
THEOREM SentVerifies ==
    ASSUME NEW pseudo \in Seq(Bytes), NEW header \in Seq(Bytes), NEW data \in Seq(Bytes),
           Len(pseudo) % 2 = 0, Len(header) % 2 = 0
    PROVE  Verifies(Received(pseudo, header, data))
<1> DEFINE blank == header \o <<0, 0>>
           c1 == calc_checksum(0, pseudo)
           c2 == calc_checksum(c1, blank)
           c3 == calc_checksum(c2, data)
           sum == check(pseudo, blank, data)
           field == <<sum % ByteSize, sum \div ByteSize>>
           rest == field \o data
           all == pseudo \o header \o field \o data
<1>1. 0 \in Bytes /\ <<0, 0>> \in Seq(Bytes) /\ blank \in Seq(Bytes)
  BY ChecksumAssumption DEF Bytes
<1>2. c1 \in 0 .. Largest /\ \E q \in Nat : Total(pseudo) = q * Largest + c1
  BY ChecksumIs, TotalType
<1>3. c2 \in 0 .. Largest /\ \E q \in Nat : c1 + Total(blank) = q * Largest + c2
  <2> HIDE DEF blank, c1
  <2>1. c1 \in Nat
    BY <1>2, WordSizeType
  <2> QED BY <1>1, <2>1, ChecksumIs
<1>4. c3 \in 0 .. Largest /\ \E q \in Nat : c2 + Total(data) = q * Largest + c3
  <2> HIDE DEF c2
  <2>1. c2 \in Nat
    BY <1>3, WordSizeType
  <2> QED BY <2>1, ChecksumIs
<1>5. sum = Largest - c3
  BY WordSizeType DEF check, Complement, Largest
<1> HIDE DEF sum, c1, c2, c3
<1>6. Total(<<0, 0>>) = 0
  BY <1>1, TwoBytes, ChecksumAssumption
<1>7. field \in Seq(Bytes) /\ Len(field) = 2 /\ Total(field) = sum
  <2> DEFINE lo == sum % ByteSize
             hi == sum \div ByteSize
  <2>1. sum \in Nat /\ sum < WordSize
    BY <1>4, <1>5, WordSizeType
  <2>2. hi \in Nat /\ lo \in 0 .. ByteSize - 1 /\ sum = hi * ByteSize + lo
    <3>1. ByteSize \in Nat \ {0}
      BY ChecksumAssumption
    <3> QED BY <2>1, <3>1, DivMod
  <2> HIDE DEF lo, hi
  <2>3. hi < ByteSize
    <3>1. SUFFICES ASSUME hi >= ByteSize PROVE FALSE
      BY <2>2, ChecksumAssumption
    <3>2. hi - ByteSize \in Nat /\ (hi - ByteSize) * ByteSize \in Nat
      BY <2>2, <3>1, ChecksumAssumption
    <3>3. (hi - ByteSize) * ByteSize = hi * ByteSize - WordSize
      BY <2>2, ChecksumAssumption DEF WordSize
    <3>4. hi * ByteSize \in Nat
      BY <2>2, ChecksumAssumption
    <3> QED BY <2>1, <2>2, <3>2, <3>3, <3>4, WordSizeType
  <2>4. lo \in Bytes /\ hi \in Bytes
    BY <2>2, <2>3, ChecksumAssumption DEF Bytes
  <2>5. lo + ByteSize * hi = sum
    BY <2>2, ChecksumAssumption
  <2> QED BY <2>4, <2>5, TwoBytes DEF lo, hi
<1>8. Total(blank) = Total(header)
  <2>1. Total(blank) = Total(header) + Total(<<0, 0>>)
    BY <1>1, TotalOfBoth
  <2>2. Total(header) \in Nat
    BY TotalType
  <2> HIDE DEF blank
  <2> QED BY <1>6, <2>1, <2>2
<1> HIDE DEF field, blank
<1>9. Total(all) = Total(pseudo) + Total(header) + sum + Total(data)
  <2> DEFINE p == pseudo \o header
             r == p \o field
  <2>1. p \in Seq(Bytes) /\ Len(p) % 2 = 0 /\ Total(p) = Total(pseudo) + Total(header)
    <3>1. p \in Seq(Bytes) /\ Len(p) = Len(pseudo) + Len(header)
      OBVIOUS
    <3>2. Len(p) % 2 = 0
      BY <3>1
    <3> QED BY <3>1, <3>2, TotalOfBoth
  <2> HIDE DEF p
  <2>2. r \in Seq(Bytes) /\ Len(r) % 2 = 0 /\ Total(r) = Total(p) + Total(field)
    <3> DEFINE x == field
    <3>3. x \in Seq(Bytes) /\ p \in Seq(Bytes) /\ Len(x) = 2
      BY <1>7, <2>1
    <3> HIDE DEF x
    <3>4. p \o x \in Seq(Bytes) /\ Len(p \o x) = Len(p) + Len(x)
      BY <3>3, ConcatType
    <3>1. r \in Seq(Bytes) /\ Len(r) = Len(p) + 2
      BY <3>3, <3>4 DEF x
    <3>2. Len(r) % 2 = 0
      BY <2>1, <3>1
    <3> QED BY <1>7, <2>1, <3>1, <3>2, TotalOfBoth
  <2> HIDE DEF r
  <2>3. Total(r \o data) = Total(r) + Total(data)
    BY <2>2, TotalOfBoth
  <2>4. all = r \o data
    BY DEF r, p
  <2> HIDE DEF all
  <2> QED BY <1>7, <2>1, <2>2, <2>3, <2>4
<1>10. Received(pseudo, header, data) = all
  BY Zenon DEF Received, field, sum, blank
<1> HIDE DEF all
<1>11. \E q \in Nat : Total(all) = q * Largest + 0 /\ Total(all) > 0
  <2>1. PICK q1 \in Nat : Total(pseudo) = q1 * Largest + c1
    BY <1>2
  <2>2. PICK q2 \in Nat : c1 + Total(header) = q2 * Largest + c2
    BY <1>3, <1>8
  <2>3. PICK q3 \in Nat : c2 + Total(data) = q3 * Largest + c3
    BY <1>4
  <2> DEFINE q == q1 + q2 + q3 + 1
  <2>4. q \in Nat \ {0}
    OBVIOUS
  <2>5. q * Largest = q1 * Largest + q2 * Largest + q3 * Largest + Largest
    BY WordSizeType
  <2>6. q1 * Largest \in Nat /\ q2 * Largest \in Nat /\ q3 * Largest \in Nat
    BY WordSizeType
  <2>7. Total(pseudo) \in Nat /\ Total(header) \in Nat /\ Total(data) \in Nat
    BY TotalType
  <2> HIDE DEF q
  <2>8. Total(all) = q * Largest
    <3> DEFINE a1 == q1 * Largest
               a2 == q2 * Largest
               a3 == q3 * Largest
               a == q * Largest
               tp == Total(pseudo)
               th == Total(header)
               td == Total(data)
    <3>1. /\ a1 \in Nat /\ a2 \in Nat /\ a3 \in Nat
          /\ tp \in Nat /\ th \in Nat /\ td \in Nat
          /\ c1 \in Nat /\ c2 \in Nat /\ c3 \in Nat /\ Largest \in Nat
      BY <1>2, <1>3, <1>4, <2>6, <2>7, WordSizeType
    <3>2. a = a1 + a2 + a3 + Largest /\ tp = a1 + c1 /\ c1 + th = a2 + c2 /\ c2 + td = a3 + c3
      BY <2>1, <2>2, <2>3, <2>5
    <3>3. Total(all) = tp + th + (Largest - c3) + td
      BY <1>5, <1>9
    <3> HIDE DEF a1, a2, a3, a, tp, th, td
    <3>4. tp + th + (Largest - c3) + td = a
      BY <3>1, <3>2
    <3> QED BY <3>3, <3>4 DEF a
  <2>9. q * Largest >= Largest
    BY <2>4, WordSizeType, AtLeastOnce
  <2> QED BY <2>4, <2>8, <2>9, WordSizeType
<1>12. Total(all) > 0 /\ Total(all) % Largest = 0
  <2>1. PICK q \in Nat : Total(all) = q * Largest + 0 /\ Total(all) > 0
    BY <1>11
  <2>2. 0 \in 0 .. Largest - 1
    BY WordSizeType
  <2> QED BY <2>1, <2>2, WordSizeType, Remainder
<1> QED BY <1>10, <1>12, Zenon DEF Verifies, Total, Largest

-----------------------------------------------------------------------------
(***************************************************************************)
(* patch_http_url.  The text of a request is what comes before the line of *)
(* the host, that line, and the rest; the header that names the host is    *)
(* the first text that reads like it.                                      *)
(***************************************************************************)

LEMMA MinIs ==
    ASSUME NEW S \in SUBSET Int, NEW m \in S, \A n \in S : m <= n
    PROVE  Min(S) = m
<1>1. \A x \in S : (\A y \in S : x <= y) => x = m
  OBVIOUS
<1>2. Min(S) \in S /\ \A y \in S : Min(S) <= y
  BY DEF Min
<1> QED BY <1>1, <1>2

LEMMA JoinOf ==
    ASSUME NEW S, NEW s \in Seq(S), NEW t \in Seq(S)
    PROVE  /\ s \o t \in Seq(S) /\ Len(s \o t) = Len(s) + Len(t)
           /\ \A i \in 1 .. Len(s) + Len(t) :
                 (s \o t)[i] = IF i <= Len(s) THEN s[i] ELSE t[i - Len(s)]
OBVIOUS

\* f holds the first i pieces of ss joined, for every i up to n.
Joins(f, ss, n) == f = [i \in 1 .. n |-> IF i = 1 THEN ss[i] ELSE f[i - 1] \o ss[i]]

LEMMA JoinsNext ==
    ASSUME NEW ss, NEW n \in Nat, NEW f, Joins(f, ss, n)
    PROVE  \E g : Joins(g, ss, n + 1)
<1> DEFINE g == [i \in 1 .. n + 1 |-> IF i = 1 THEN ss[i] ELSE f[i - 1] \o ss[i]]
<1>1. \A i \in 1 .. n : f[i] = IF i = 1 THEN ss[i] ELSE f[i - 1] \o ss[i]
  BY Zenon DEF Joins
<1>2. \A i \in 1 .. n + 1 : g[i] = IF i = 1 THEN ss[i] ELSE f[i - 1] \o ss[i]
  BY Zenon
<1>3. \A i \in 1 .. n : i \in 1 .. n + 1
  OBVIOUS
<1>4. \A i \in 1 .. n : g[i] = f[i]
  <2> HIDE DEF g
  <2> QED BY <1>1, <1>2, <1>3, Zenon
<1> HIDE DEF g
<1>5. \A i \in 1 .. n + 1 : i # 1 => f[i - 1] = g[i - 1]
  BY <1>4
<1>6. g = [i \in 1 .. n + 1 |-> IF i = 1 THEN ss[i] ELSE g[i - 1] \o ss[i]]
  <2>1. [i \in 1 .. n + 1 |-> IF i = 1 THEN ss[i] ELSE f[i - 1] \o ss[i]]
        = [i \in 1 .. n + 1 |-> IF i = 1 THEN ss[i] ELSE g[i - 1] \o ss[i]]
    BY <1>5
  <2> QED BY <2>1 DEF g
<1> QED BY <1>6 DEF Joins

LEMMA JoinsExist ==
    ASSUME NEW ss, NEW n \in Nat
    PROVE  \E f : Joins(f, ss, n)
<1> DEFINE Made == {k \in Nat : \E f : Joins(f, ss, k)}
<1>1. 0 \in Made
  <2>1. Joins([i \in 1 .. 0 |-> 0], ss, 0)
    BY DEF Joins
  <2> QED BY <2>1
<1>2. ASSUME NEW k \in 0 .. n - 1, k \in Made PROVE k + 1 \in Made
  BY <1>2, JoinsNext
<1>3. n \in Made
  <2> HIDE DEF Made
  <2> QED BY <1>1, <1>2, UpToBound
<1> QED BY <1>3

\* e[i] is the first i pieces of ss joined.
Pieces(S, e, ss) ==
    /\ e[0] = <<>> /\ e[Len(ss)] = FlattenSeq(ss)
    /\ \A i \in 1 .. Len(ss) : e[i] = e[i - 1] \o ss[i]
    /\ \A i \in 0 .. Len(ss) : e[i] \in Seq(S)

LEMMA FlattenIs ==
    ASSUME NEW S, NEW ss \in Seq(Seq(S))
    PROVE  \E e : Pieces(S, e, ss)
<1> DEFINE n == Len(ss)
           f == CHOOSE f : f = [i \in 1 .. Len(ss) |-> IF i = 1 THEN ss[i] ELSE f[i - 1] \o ss[i]]
           e == [i \in 0 .. n |-> IF i = 0 THEN <<>> ELSE f[i]]
<1>1. n \in Nat /\ \A i \in 1 .. n : ss[i] \in Seq(S)
  OBVIOUS
<1>2. Joins(f, ss, n)
  <2>1. \E g : Joins(g, ss, Len(ss))
    BY <1>1, JoinsExist
  <2> QED BY <2>1, Zenon DEF Joins
<1>3. FlattenSeq(ss) = IF n = 0 THEN ss ELSE f[n]
  BY DEF FlattenSeq
<1> HIDE DEF f, n
<1>4. \A i \in 1 .. n : f[i] = IF i = 1 THEN ss[i] ELSE f[i - 1] \o ss[i]
  BY <1>2, Zenon DEF Joins
<1>5. \A i \in 1 .. n : i \in 0 .. n /\ i - 1 \in 0 .. n /\ i # 0 /\ (i - 1 = 0 <=> i = 1)
  BY <1>1
<1>6. e[0] = <<>> /\ \A i \in 1 .. n : e[i] = f[i]
  BY <1>1, <1>5
<1> HIDE DEF e
<1>7. ASSUME NEW i \in 1 .. n PROVE e[i] = e[i - 1] \o ss[i]
  <2>1. CASE i = 1
    <3>1. e[i] = ss[i] /\ e[i - 1] = <<>> /\ ss[i] \in Seq(S)
      BY <1>1, <1>4, <1>6, <2>1
    <3> QED BY <3>1
  <2>2. CASE i # 1
    <3>1. i - 1 \in 1 .. n
      BY <1>1, <2>2
    <3> QED BY <1>4, <1>6, <2>2, <3>1
  <2> QED BY <2>1, <2>2
<1>8. \A i \in 0 .. n : e[i] \in Seq(S)
  <2> SUFFICES ASSUME NEW m \in 0 .. n PROVE e[m] \in Seq(S)
    OBVIOUS
  <2> DEFINE Whole(k) == e[k] \in Seq(S)
             T == {k \in 0 .. n : Whole(k)}
  <2>1. Whole(0)
    BY <1>6
  <2>2. ASSUME NEW k \in 0 .. m - 1, Whole(k) PROVE Whole(k + 1) /\ k + 1 \in 0 .. n
    <3>1. k + 1 \in 1 .. n /\ (k + 1) - 1 = k /\ k + 1 \in 0 .. n
      BY <1>1
    <3>2. e[k + 1] = e[k] \o ss[k + 1] /\ ss[k + 1] \in Seq(S)
      BY <1>1, <1>7, <3>1
    <3>3. e[k + 1] \in Seq(S)
      BY <2>2, <3>2, JoinOf
    <3> QED BY <3>1, <3>3
  <2> HIDE DEF Whole
  <2>3. 0 \in T /\ m \in Nat
    BY <1>1, <2>1
  <2>4. ASSUME NEW k \in 0 .. m - 1, k \in T PROVE k + 1 \in T
    BY <2>2, <2>4
  <2>5. m \in T
    <3> HIDE DEF T
    <3> QED BY <2>3, <2>4, UpToBound
  <2>6. Whole(m)
    BY <2>5
  <2> QED BY <2>6 DEF Whole
<1>9. e[n] = FlattenSeq(ss)
  <2>1. CASE n = 0
    <3>1. ss = <<>>
      BY <2>1 DEF n
    <3> QED BY <1>3, <1>6, <2>1, <3>1
  <2>2. CASE n # 0
    BY <1>1, <1>3, <1>6, <2>2
  <2> QED BY <2>1, <2>2
<1> QED BY <1>6, <1>7, <1>8, <1>9 DEF Pieces, n

\* e[i] is the text of the first i headers.
Upto(e, headers) ==
    /\ e[0] = <<>>
    /\ \A i \in 1 .. Len(headers) : e[i] = e[i - 1] \o (headers[i] \o <<EndOfLine>>)
    /\ \A i \in 0 .. Len(headers) : e[i] \in Seq(Tokens)

LEMMA EndIsText == EndOfLine \in Tokens /\ EndOfLine \notin HostWords
BY TokensAssumption DEF EndOfLine, HostWords

LEMMA LineIsText ==
    ASSUME NEW h \in Seq(Tokens)
    PROVE  h \o <<EndOfLine>> \in Seq(Tokens)
<1>1. <<EndOfLine>> \in Seq(Tokens)
  BY EndIsText
<1> QED BY <1>1, JoinOf

LEMMA LinesAre ==
    ASSUME NEW headers \in Seq(Seq(Tokens))
    PROVE  \E e : Upto(e, headers) /\ e[Len(headers)] = Lines(headers)
<1> DEFINE n == Len(headers)
           ss == [i \in DOMAIN headers |-> headers[i] \o <<EndOfLine>>]
<1>1. n \in Nat /\ DOMAIN headers = 1 .. n /\ \A i \in 1 .. n : headers[i] \in Seq(Tokens)
  OBVIOUS
<1>2. ss \in Seq(Seq(Tokens)) /\ Len(ss) = n
  <2>1. \A i \in 1 .. n : headers[i] \o <<EndOfLine>> \in Seq(Tokens)
    BY <1>1, LineIsText
  <2> HIDE DEF n
  <2> QED BY <1>1, <2>1
<1>3. \A i \in 1 .. n : ss[i] = headers[i] \o <<EndOfLine>>
  BY <1>1
<1>4. Lines(headers) = FlattenSeq(ss)
  BY DEF Lines
<1> HIDE DEF ss, n
<1>5. PICK e : Pieces(Tokens, e, ss)
  BY <1>2, FlattenIs
<1>6. Upto(e, headers)
  BY <1>2, <1>3, <1>5 DEF Pieces, Upto, n
<1>7. e[n] = Lines(headers)
  BY <1>2, <1>4, <1>5 DEF Pieces
<1> QED BY <1>6, <1>7 DEF n

LEMMA Assoc ==
    \A s, t, u \in Seq(Tokens) : (s \o t) \o u = s \o (t \o u)
OBVIOUS

LEMMA JoinTexts ==
    \A s, t \in Seq(Tokens) :
        /\ s \o t \in Seq(Tokens) /\ Len(s \o t) = Len(s) + Len(t)
        /\ \A i \in 1 .. Len(s) + Len(t) :
              (s \o t)[i] = IF i <= Len(s) THEN s[i] ELSE t[i - Len(s)]
OBVIOUS

LEMMA NotInBoth ==
    ASSUME NEW S, NEW s \in Seq(S), NEW t \in Seq(S), NEW W, ~Has(s, W), ~Has(t, W)
    PROVE  ~Has(s \o t, W)
<1> SUFFICES ASSUME NEW i \in DOMAIN (s \o t), (s \o t)[i] \in W PROVE FALSE
  BY DEF Has
<1>1. /\ Len(s) \in Nat /\ DOMAIN s = 1 .. Len(s)
      /\ Len(t) \in Nat /\ DOMAIN t = 1 .. Len(t)
      /\ i \in 1 .. Len(s) + Len(t)
  OBVIOUS
<1>2. (s \o t)[i] = IF i <= Len(s) THEN s[i] ELSE t[i - Len(s)]
  BY <1>1, JoinOf
<1>3. CASE i <= Len(s)
  <2>1. i \in DOMAIN s
    BY <1>1, <1>3
  <2> QED BY <1>2, <1>3, <2>1 DEF Has
<1>4. CASE ~(i <= Len(s))
  <2>1. i - Len(s) \in DOMAIN t
    BY <1>1, <1>4
  <2> QED BY <1>2, <1>4, <2>1 DEF Has
<1> QED BY <1>3, <1>4

LEMMA NoHostUpto ==
    ASSUME NEW headers \in Seq(Seq(Tokens)), NEW e, Upto(e, headers),
           NEW k \in 0 .. Len(headers), \A i \in 1 .. k : ~Has(headers[i], HostWords)
    PROVE  ~Has(e[k], HostWords)
<1> DEFINE None(j) == ~Has(e[j], HostWords)
           T == {j \in 0 .. k : None(j)}
<1>1. k \in Nat /\ Len(headers) \in Nat /\ k <= Len(headers)
  OBVIOUS
<1>2. None(0)
  BY DEF Upto, Has
<1>3. ASSUME NEW j \in 0 .. k - 1, None(j) PROVE None(j + 1)
  <2>1. /\ j + 1 \in 1 .. k /\ j + 1 \in 1 .. Len(headers)
        /\ (j + 1) - 1 = j /\ j \in 0 .. Len(headers)
    BY <1>1
  <2>2. e[j + 1] = e[j] \o (headers[j + 1] \o <<EndOfLine>>) /\ e[j] \in Seq(Tokens)
    BY <2>1 DEF Upto
  <2>3. headers[j + 1] \in Seq(Tokens) /\ ~Has(headers[j + 1], HostWords)
    BY <2>1
  <2>4. <<EndOfLine>> \in Seq(Tokens) /\ ~Has(<<EndOfLine>>, HostWords)
    BY EndIsText DEF Has
  <2>5. /\ headers[j + 1] \o <<EndOfLine>> \in Seq(Tokens)
        /\ ~Has(headers[j + 1] \o <<EndOfLine>>, HostWords)
    BY <2>3, <2>4, NotInBoth, LineIsText
  <2>6. ~Has(e[j] \o (headers[j + 1] \o <<EndOfLine>>), HostWords)
    BY <1>3, <2>2, <2>5, NotInBoth
  <2> QED BY <2>2, <2>6
<1> HIDE DEF None
<1>4. 0 \in T
  BY <1>1, <1>2
<1>5. ASSUME NEW j \in 0 .. k - 1, j \in T PROVE j + 1 \in T
  BY <1>1, <1>3, <1>5
<1>6. k \in T
  <2> HIDE DEF T
  <2> QED BY <1>1, <1>4, <1>5, UpToBound
<1> QED BY <1>6 DEF None

LEMMA RestUpto ==
    ASSUME NEW headers \in Seq(Seq(Tokens)), NEW e, Upto(e, headers),
           NEW k \in 0 .. Len(headers)
    PROVE  \E t \in Seq(Tokens) : e[Len(headers)] = e[k] \o t
<1> DEFINE n == Len(headers)
           Goes(j) == \E t \in Seq(Tokens) : e[k + j] = e[k] \o t
           T == {j \in 0 .. n - k : Goes(j)}
<1>1. n \in Nat /\ k \in 0 .. n /\ n - k \in Nat
  OBVIOUS
<1>2. Goes(0)
  <2>1. e[k] \in Seq(Tokens) /\ k + 0 = k
    BY <1>1 DEF Upto
  <2>2. e[k + 0] = e[k] \o <<>> /\ <<>> \in Seq(Tokens)
    BY <2>1
  <2> QED BY <2>2
<1>3. ASSUME NEW j \in 0 .. n - k - 1, Goes(j) PROVE Goes(j + 1)
  <2>1. /\ k + (j + 1) \in 1 .. n /\ (k + (j + 1)) - 1 = k + j /\ k \in 0 .. n
    BY <1>1
  <2> DEFINE line == headers[k + (j + 1)] \o <<EndOfLine>>
  <2>2. e[k + (j + 1)] = e[k + j] \o line /\ e[k] \in Seq(Tokens)
    BY <2>1 DEF Upto
  <2>3. line \in Seq(Tokens)
    <3>1. headers[k + (j + 1)] \in Seq(Tokens)
      BY <2>1
    <3> QED BY <3>1, LineIsText
  <2> HIDE DEF line
  <2>4. PICK t \in Seq(Tokens) : e[k + j] = e[k] \o t
    BY <1>3
  <2>5. t \o line \in Seq(Tokens) /\ e[k + (j + 1)] = e[k] \o (t \o line)
    <3>1. (e[k] \o t) \o line = e[k] \o (t \o line)
      BY <2>2, <2>3, Assoc, Zenon
    <3>2. e[k + (j + 1)] = (e[k] \o t) \o line
      BY <2>2, <2>4, Zenon
    <3>3. t \o line \in Seq(Tokens)
      BY <2>3, JoinTexts, Zenon
    <3> QED BY <3>1, <3>2, <3>3, Zenon
  <2> QED BY <2>5
<1> HIDE DEF Goes, n
<1>4. 0 \in T
  BY <1>1, <1>2
<1>5. ASSUME NEW j \in 0 .. (n - k) - 1, j \in T PROVE j + 1 \in T
  BY <1>1, <1>3, <1>5
<1>6. n - k \in T
  <2> HIDE DEF T
  <2> QED BY <1>1, <1>4, <1>5, UpToBound
<1>7. Goes(n - k) /\ k + (n - k) = n
  BY <1>1, <1>6
<1> QED BY <1>7 DEF Goes, n

LEMMA NamesHost == \A word : Alike(word, "Host: ") <=> word \in HostWords
BY DEF Alike, HostWords

\* Where the name of a host is found, and what is taken for the host.
LEMMA HostFound ==
    ASSUME NEW p \in Seq(Tokens), NEW h \in Seq(Tokens), NEW t \in Seq(Tokens),
           ~Has(p, HostWords), h # <<>>, h[1] \in HostWords, ~Has(h, {EndOfLine}),
           NEW data, data = p \o (h \o (<<EndOfLine>> \o t))
    PROVE  find_data(data, "Host: ") = Len(p) + 1 /\ hostname(data) = Tail(h)
<1> DEFINE a == Len(p) + 1
           z == Len(p) + Len(h) + 1
           places == {i \in DOMAIN data : data[i] \in HostWords}
           ends == {i \in a + 1 .. Len(data) : data[i] = EndOfLine}
           line == <<EndOfLine>>
<1>1. /\ Len(p) \in Nat /\ DOMAIN p = 1 .. Len(p)
      /\ Len(h) \in Nat \ {0} /\ DOMAIN h = 1 .. Len(h)
      /\ Len(t) \in Nat
  OBVIOUS
<1>2. line \in Seq(Tokens) /\ Len(line) = 1 /\ line[1] = EndOfLine
  BY EndIsText
<1> HIDE DEF line
<1>3. /\ line \o t \in Seq(Tokens) /\ Len(line \o t) = 1 + Len(t)
      /\ (line \o t)[1] = EndOfLine
  <2>1. /\ line \o t \in Seq(Tokens) /\ Len(line \o t) = 1 + Len(t)
        /\ \A i \in 1 .. 1 + Len(t) :
              (line \o t)[i] = IF i <= 1 THEN line[i] ELSE t[i - 1]
    <3>1. /\ line \o t \in Seq(Tokens) /\ Len(line \o t) = Len(line) + Len(t)
          /\ \A i \in 1 .. Len(line) + Len(t) :
                (line \o t)[i] = IF i <= Len(line) THEN line[i] ELSE t[i - Len(line)]
      BY <1>2, JoinTexts, Zenon
    <3> QED BY <1>2, <3>1, Zenon
  <2>2. 1 \in 1 .. 1 + Len(t) /\ 1 <= 1
    BY <1>1
  <2> QED BY <1>2, <2>1, <2>2
<1> DEFINE u == line \o t
           g == h \o u
<1> HIDE DEF u
<1>4. /\ g \in Seq(Tokens) /\ Len(g) = Len(h) + 1 + Len(t)
      /\ \A i \in 1 .. Len(h) + 1 + Len(t) :
            g[i] = IF i <= Len(h) THEN h[i] ELSE u[i - Len(h)]
  <2>1. u \in Seq(Tokens) /\ Len(u) = 1 + Len(t)
    BY <1>3 DEF u
  <2>2. /\ g \in Seq(Tokens) /\ Len(g) = Len(h) + Len(u)
        /\ \A i \in 1 .. Len(h) + Len(u) :
              g[i] = IF i <= Len(h) THEN h[i] ELSE u[i - Len(h)]
    BY <2>1, JoinTexts
  <2>3. Len(h) + Len(u) = Len(h) + 1 + Len(t)
    BY <1>1, <2>1
  <2> HIDE DEF g
  <2> QED BY <2>2, <2>3
<1> HIDE DEF g
<1>5. /\ data \in Seq(Tokens) /\ Len(data) = Len(p) + Len(g)
      /\ \A i \in 1 .. Len(p) + Len(g) :
            data[i] = IF i <= Len(p) THEN p[i] ELSE g[i - Len(p)]
  <2>1. data = p \o g
    BY DEF g, u, line
  <2>2. /\ p \o g \in Seq(Tokens) /\ Len(p \o g) = Len(p) + Len(g)
        /\ \A i \in 1 .. Len(p) + Len(g) :
              (p \o g)[i] = IF i <= Len(p) THEN p[i] ELSE g[i - Len(p)]
    BY <1>4, JoinTexts, Zenon
  <2> QED BY <2>1, <2>2, Zenon
<1>6. /\ Len(data) \in Nat /\ DOMAIN data = 1 .. Len(data)
      /\ a \in 1 .. Len(data) /\ z \in a + 1 .. Len(data) /\ z > a
      /\ a \in Nat /\ z \in Nat
  BY <1>1, <1>4, <1>5
<1>7. \A i \in 1 .. Len(p) : data[i] = p[i]
  BY <1>1, <1>4, <1>5
<1>8. \A i \in 1 .. Len(h) : data[Len(p) + i] = h[i]
  <2> SUFFICES ASSUME NEW i \in 1 .. Len(h) PROVE data[Len(p) + i] = h[i]
    OBVIOUS
  <2>1. /\ Len(p) + i \in 1 .. Len(p) + Len(g) /\ ~(Len(p) + i <= Len(p))
        /\ (Len(p) + i) - Len(p) = i
        /\ i \in 1 .. Len(h) + 1 + Len(t) /\ i <= Len(h)
    BY <1>1, <1>4
  <2>2. data[Len(p) + i] = g[i] /\ g[i] = h[i]
    BY <1>4, <1>5, <2>1
  <2> QED BY <2>2
<1>9. data[z] = EndOfLine
  <2>1. /\ z \in 1 .. Len(p) + Len(g) /\ ~(z <= Len(p)) /\ z - Len(p) = Len(h) + 1
        /\ Len(h) + 1 \in 1 .. Len(h) + 1 + Len(t) /\ ~(Len(h) + 1 <= Len(h))
        /\ (Len(h) + 1) - Len(h) = 1
    BY <1>1, <1>4
  <2>2. data[z] = g[Len(h) + 1] /\ g[Len(h) + 1] = u[1]
    BY <1>4, <1>5, <2>1
  <2> QED BY <1>3, <2>2 DEF u
<1>10. find_data(data, "Host: ") = a
  <2>1. a \in places
    <3>1. data[a] = h[1]
      <4>1. 1 \in 1 .. Len(h)
        BY <1>1
      <4> QED BY <1>8, <4>1
    <3> QED BY <1>6, <3>1
  <2>2. ASSUME NEW i \in places PROVE a <= i
    <3> SUFFICES ASSUME ~(a <= i) PROVE FALSE
      OBVIOUS
    <3>1. i \in 1 .. Len(p) /\ data[i] \in HostWords
      BY <1>1, <1>6
    <3>2. i \in DOMAIN p /\ p[i] \in HostWords
      BY <1>1, <1>7, <3>1
    <3> QED BY <3>2 DEF Has
  <2>3. places \in SUBSET Int
    <3>1. \A i \in places : i \in 1 .. Len(data)
      BY <1>6
    <3> HIDE DEF places
    <3> QED BY <1>6, <3>1
  <2> HIDE DEF places, a
  <2>4. Min(places) = a /\ places # {}
    BY <2>1, <2>2, <2>3, MinIs
  <2>5. places = {i \in DOMAIN data : Alike(data[i], "Host: ")}
    BY NamesHost, Zenon DEF places
  <2> QED BY <2>4, <2>5, Zenon DEF find_data
<1>11. Min(ends \cup {Len(data) + 1}) = z
  <2>1. z \in ends
    BY <1>6, <1>9
  <2>2. ASSUME NEW i \in ends PROVE z <= i
    <3> SUFFICES ASSUME ~(z <= i) PROVE FALSE
      OBVIOUS
    <3>1. i - Len(p) \in 1 .. Len(h) /\ Len(p) + (i - Len(p)) = i /\ data[i] = EndOfLine
      BY <1>1, <1>6
    <3>2. h[i - Len(p)] = EndOfLine /\ i - Len(p) \in DOMAIN h
      BY <1>1, <1>8, <3>1
    <3> QED BY <3>2 DEF Has
  <2>3. ends \in SUBSET Int
    BY <1>6
  <2>4. z <= Len(data) + 1 /\ Len(data) + 1 \in Int
    BY <1>6
  <2> HIDE DEF ends, z
  <2> QED BY <2>1, <2>2, <2>3, <2>4, MinIs
<1>12. SubSeq(data, a + 1, z - 1) = Tail(h)
  <2> DEFINE s == SubSeq(data, a + 1, z - 1)
  <2>1. /\ s \in Seq(Tokens) /\ Len(s) = Len(h) - 1
        /\ \A i \in 1 .. Len(h) - 1 : s[i] = data[a + 1 + i - 1]
    BY <1>1, <1>5, <1>6
  <2>2. /\ Tail(h) \in Seq(Tokens) /\ Len(Tail(h)) = Len(h) - 1
        /\ \A i \in 1 .. Len(h) - 1 : Tail(h)[i] = h[i + 1]
    BY <1>1
  <2>3. ASSUME NEW i \in 1 .. Len(h) - 1 PROVE s[i] = Tail(h)[i]
    <3>1. i + 1 \in 1 .. Len(h) /\ a + 1 + i - 1 = Len(p) + (i + 1)
      BY <1>1
    <3>2. data[Len(p) + (i + 1)] = h[i + 1]
      BY <1>8, <3>1
    <3> HIDE DEF a, s
    <3> QED BY <2>1, <2>2, <3>1, <3>2
  <2> HIDE DEF s, a, z
  <2>4. s = Tail(h)
    BY <1>1, <2>1, <2>2, <2>3
  <2> QED BY <2>4 DEF s
<1>13. hostname(data) = SubSeq(data, a + 1, z - 1)
  <2> HIDE DEF a, z
  <2> QED BY <1>10, <1>11 DEF hostname, ends
<1> QED BY <1>10, <1>12, <1>13

LEMMA MethodsAre ==
    /\ DOMAIN Methods = 1 .. 7
    /\ \A i \in 1 .. 7 : /\ Methods[i] \in Tokens /\ Methods[i] # "Host: "
                         /\ Methods[i] \notin HostWords
<1> DEFINE Verbs == {"GET ", "POST ", "PUT ", "DELETE ", "HEAD ", "OPTIONS ", "PATCH "}
<1>1. DOMAIN Methods = 1 .. 7 /\ \A i \in 1 .. 7 : Methods[i] \in Verbs
  <2> DEFINE a == "GET "
             b == "POST "
             c == "PUT "
             d == "DELETE "
             e == "HEAD "
             f == "OPTIONS "
             g == "PATCH "
  <2>1. Methods = <<a, b, c, d, e, f, g>> /\ Verbs = {a, b, c, d, e, f, g}
    BY Zenon DEF Methods
  <2> HIDE DEF a, b, c, d, e, f, g, Verbs
  <2> QED BY <2>1
<1>2. \A w \in Verbs : w # "Host: " /\ w \notin HostWords
  BY Zenon DEF HostWords
<1>3. \A i \in DOMAIN Methods : Methods[i] \in Tokens
  BY TokensAssumption, Zenon
<1> QED BY <1>1, <1>2, <1>3, Zenon

LEMMA FirstWord ==
    ASSUME NEW data \in Seq(Tokens), data # <<>>
    PROVE  find_data(data, data[1]) = 1
<1> DEFINE places == {i \in DOMAIN data : Alike(data[i], data[1])}
<1>1. Len(data) \in Nat \ {0} /\ DOMAIN data = 1 .. Len(data)
  OBVIOUS
<1>2. Alike(data[1], data[1])
  BY Zenon DEF Alike
<1>3. 1 \in places /\ \A i \in places : 1 <= i /\ i \in Int
  BY <1>1, <1>2
<1>4. places \in SUBSET Int
  <2> HIDE DEF places
  <2> QED BY <1>3
<1>5. Min(places) = 1 /\ places # {}
  <2> HIDE DEF places
  <2> QED BY <1>3, <1>4, MinIs
<1> QED BY <1>5, Zenon DEF find_data

LEMMA NoWord ==
    ASSUME NEW data, NEW value, value # "Host: ", ~Has(data, {value})
    PROVE  find_data(data, value) = 0
<1>1. \A i \in DOMAIN data : ~Alike(data[i], value)
  BY Zenon DEF Alike, Has
<1>2. {i \in DOMAIN data : Alike(data[i], value)} = {}
  BY <1>1, Zenon
<1> QED BY <1>2, Zenon DEF find_data

\* The request's own method is the one that is found, where the request begins.
LEMMA MethodFound ==
    ASSUME NEW data \in Seq(Tokens), data # <<>>, NEW c \in 1 .. 7, data[1] = Methods[c],
           \A j \in 1 .. c - 1 : ~Has(data, {Methods[j]}),
           NEW found, found = {i \in DOMAIN Methods : find_data(data, Methods[i]) # 0}
    PROVE  found # {} /\ Min(found) = c /\ find_data(data, Methods[c]) = 1
<1>1. find_data(data, Methods[c]) = 1
  BY FirstWord
<1>2. DOMAIN Methods = 1 .. 7
  BY MethodsAre, Zenon
<1>3. c \in found
  BY <1>1, <1>2
<1>4. ASSUME NEW j \in found PROVE c <= j
  <2>1. j \in 1 .. 7 /\ find_data(data, Methods[j]) # 0
    BY <1>2
  <2>2. CASE j \in 1 .. c - 1
    <3>1. find_data(data, Methods[j]) = 0
      BY <2>1, <2>2, MethodsAre, NoWord, Zenon
    <3> QED BY <2>1, <3>1
  <2> QED BY <2>1, <2>2
<1>5. found \in SUBSET Int
  <2>1. \A j \in found : j \in 1 .. 7
    BY <1>2
  <2> QED BY <2>1
<1> QED BY <1>1, <1>3, <1>4, <1>5, MinIs

LEMMA Patched ==
    ASSUME NEW data \in Seq(Tokens), data # <<>>, NEW c \in 1 .. 7, data[1] = Methods[c],
           \A j \in 1 .. c - 1 : ~Has(data, {Methods[j]}), find_data(data, "Host: ") # 0
    PROVE  patch_http_url(data) =
               IF 1 < Len(data) /\ data[1 + 1] = "http:" THEN data
               ELSE SubSeq(data, 1, 1) \o Scheme \o hostname(data)
                    \o SubSeq(data, 1 + 1, Len(data))
<1> DEFINE found == {i \in DOMAIN Methods : find_data(data, Methods[i]) # 0}
           pos == find_data(data, Methods[Min(found)])
<1>1. found # {} /\ pos = 1
  <2>1. found # {} /\ Min(found) = c /\ find_data(data, Methods[c]) = 1
    <3> HIDE DEF found
    <3> QED BY MethodFound, Zenon DEF found
  <2> QED BY <2>1, Zenon
<1>2. patch_http_url(data) =
          IF pos < Len(data) /\ data[pos + 1] = "http:" THEN data
          ELSE SubSeq(data, 1, pos) \o Scheme \o hostname(data)
               \o SubSeq(data, pos + 1, Len(data))
  BY <1>1, Zenon DEF patch_http_url
<1> HIDE DEF pos
<1> QED BY <1>1, <1>2, Zenon

\* \o, by what it does to texts and no more.
Cat(s, t) == s \o t

AllTexts == Seq(Tokens)

LEMMA CatIn == \A s, t \in AllTexts : Cat(s, t) \in AllTexts
BY JoinTexts, Zenon DEF Cat, AllTexts

LEMMA CatAssoc == \A s, t, u \in AllTexts : Cat(Cat(s, t), u) = Cat(s, Cat(t, u))
BY Assoc, Zenon DEF Cat, AllTexts

\* A text regrouped around the line of its host.
Regroups(q, a, h, l, t, w) ==
    q \o (((a \o (h \o l)) \o t) \o w) = (q \o a) \o (h \o (l \o (t \o w)))

LEMMA Regrouped ==
    ASSUME NEW q \in Seq(Tokens), NEW a \in Seq(Tokens), NEW h \in Seq(Tokens),
           NEW l \in Seq(Tokens), NEW t \in Seq(Tokens), NEW w \in Seq(Tokens)
    PROVE  Regroups(q, a, h, l, t, w)
<1>1. /\ q \in AllTexts /\ a \in AllTexts /\ h \in AllTexts /\ l \in AllTexts
      /\ t \in AllTexts /\ w \in AllTexts
  BY DEF AllTexts
<1>2. Cat(q, Cat(Cat(Cat(a, Cat(h, l)), t), w)) = Cat(Cat(q, a), Cat(h, Cat(l, Cat(t, w))))
  <2> DEFINE b == Cat(h, l)
             c == Cat(a, b)
             d == Cat(t, w)
             e == Cat(l, d)
             f == Cat(h, e)
  <2>1. b \in AllTexts /\ d \in AllTexts
    BY <1>1, CatIn, Zenon
  <2> HIDE DEF b, d
  <2>2. c \in AllTexts /\ e \in AllTexts
    BY <1>1, <2>1, CatIn, Zenon
  <2> HIDE DEF c, e
  <2>3. f \in AllTexts
    BY <1>1, <2>2, CatIn, Zenon
  <2> HIDE DEF f
  <2>4. Cat(Cat(c, t), w) = Cat(c, d)
    BY <1>1, <2>2, CatAssoc DEF d
  <2>5. Cat(c, d) = Cat(a, Cat(b, d))
    BY <1>1, <2>1, CatAssoc DEF c
  <2>6. Cat(b, d) = f
    BY <1>1, <2>1, CatAssoc DEF b, e, f
  <2>7. Cat(Cat(q, a), f) = Cat(q, Cat(a, f))
    BY <1>1, <2>3, CatAssoc
  <2> QED BY <2>4, <2>5, <2>6, <2>7, Zenon DEF b, c, d, e, f
<1> QED BY <1>2, Zenon DEF Cat, Regroups

\* What comes after the target of a request.
After(r) == <<" HTTP/1.1", EndOfLine>> \o (Lines(r.headers) \o (<<EndOfLine>> \o r.body))

LEMMA EndingIsText ==
    /\ <<" HTTP/1.1", EndOfLine>> \in Seq(Tokens)
    /\ ~Has(<<" HTTP/1.1", EndOfLine>>, HostWords)
<1> DEFINE v == " HTTP/1.1"
<1>1. v \in Tokens /\ v \notin HostWords
  BY TokensAssumption, Zenon DEF HostWords
<1> HIDE DEF v
<1>2. <<v, EndOfLine>> \in Seq(Tokens) /\ ~Has(<<v, EndOfLine>>, HostWords)
  BY <1>1, EndIsText DEF Has
<1> QED BY <1>2, Zenon DEF v

LEMMA SchemeIsText == Scheme \in Seq(Tokens)
<1> DEFINE a == "http:"
           b == "//"
<1>1. Scheme = <<a, b>>
  BY Zenon DEF Scheme
<1> HIDE DEF a, b
<1>2. DOMAIN Scheme = 1 .. 2
  BY <1>1
<1>3. Scheme[1] \in Tokens /\ Scheme[2] \in Tokens
  <2>1. 1 \in DOMAIN Scheme /\ 2 \in DOMAIN Scheme
    BY <1>2
  <2> QED BY <2>1, TokensAssumption, Zenon
<1> QED BY <1>1, <1>3

LEMMA LineEnd == <<EndOfLine>> \in Seq(Tokens) /\ ~Has(<<EndOfLine>>, HostWords)
BY EndIsText DEF Has

LEMMA LinesIsText ==
    ASSUME NEW headers \in Seq(Seq(Tokens))
    PROVE  Lines(headers) \in Seq(Tokens)
<1>1. PICK e : Upto(e, headers) /\ e[Len(headers)] = Lines(headers)
  BY LinesAre
<1>2. Len(headers) \in 0 .. Len(headers)
  OBVIOUS
<1> QED BY <1>1, <1>2 DEF Upto

LEMMA MessageIs ==
    ASSUME NEW r, Message(r)
    PROVE  /\ r.target \in Seq(Tokens) /\ r.target # <<>> /\ r.headers \in Seq(Seq(Tokens))
           /\ r.body \in Seq(Tokens) /\ r.method \in Tokens
           /\ r = [method |-> r.method, target |-> r.target, headers |-> r.headers, body |-> r.body]
           /\ ~Has(r.target, HostWords)
           /\ \A i \in 1 .. Len(r.headers) : /\ r.headers[i] \in Seq(Tokens)
                                             /\ r.headers[i] # <<>>
                                             /\ ~Has(r.headers[i], {EndOfLine})
           /\ r.method \notin HostWords
<1> DEFINE Verbs == {Methods[i] : i \in DOMAIN Methods}
<1>1. \A w \in Verbs : w \in Tokens /\ w \notin HostWords
  BY MethodsAre, Zenon
<1> HIDE DEF Verbs
<1>2. r \in [method : Verbs, target : Seq(Tokens), headers : Seq(Seq(Tokens)), body : Seq(Tokens)]
  BY Zenon DEF Message, Verbs
<1>3. DOMAIN r.headers = 1 .. Len(r.headers)
      /\ \A i \in 1 .. Len(r.headers) : r.headers[i] \in Seq(Tokens)
  BY <1>2
<1>4. /\ r.target # <<>> /\ ~Has(r.target, HostWords)
      /\ \A i \in DOMAIN r.headers : r.headers[i] # <<>> /\ ~Has(r.headers[i], {EndOfLine})
  BY Zenon DEF Message
<1>5. r.method \in Verbs
  BY <1>2
<1>6. r = [method |-> r.method, target |-> r.target, headers |-> r.headers, body |-> r.body]
  BY <1>2
<1>7. r.target \in Seq(Tokens) /\ r.headers \in Seq(Seq(Tokens)) /\ r.body \in Seq(Tokens)
  BY <1>2
<1> QED BY <1>1, <1>3, <1>4, <1>5, <1>6, <1>7

Made(r, m, target, headers, body) ==
    r = [method |-> m, target |-> target, headers |-> headers, body |-> body]

LEMMA TextIs ==
    ASSUME NEW m \in Tokens, NEW target \in Seq(Tokens), NEW headers \in Seq(Seq(Tokens)),
           NEW body \in Seq(Tokens), NEW r,
           Made(r, m, target, headers, body)
    PROVE  Text(r) = <<m>> \o (target \o After(r)) /\ After(r) \in Seq(Tokens)
<1> DEFINE v == <<" HTTP/1.1", EndOfLine>>
           x == <<EndOfLine>>
           l == Lines(headers)
           h == <<m>>
<1>0. v \in Seq(Tokens) /\ x \in Seq(Tokens) /\ l \in Seq(Tokens)
  BY EndingIsText, LineEnd, LinesIsText, Zenon
<1>1. h \in Seq(Tokens)
  OBVIOUS
<1>2. Text(r) = ((((h \o target) \o v) \o l) \o x) \o body /\ After(r) = v \o (l \o (x \o body))
  BY Zenon DEF Text, After, Made
<1> HIDE DEF v, x, l, h
<1>3. h \in AllTexts /\ target \in AllTexts /\ v \in AllTexts /\ l \in AllTexts
      /\ x \in AllTexts /\ body \in AllTexts
  BY <1>0, <1>1 DEF AllTexts
<1>4. /\ Cat(Cat(Cat(Cat(Cat(h, target), v), l), x), body)
         = Cat(h, Cat(target, Cat(v, Cat(l, Cat(x, body)))))
      /\ Cat(v, Cat(l, Cat(x, body))) \in AllTexts
  <2> DEFINE a == Cat(h, target)
             b == Cat(a, v)
             c == Cat(b, l)
             d == Cat(x, body)
             e == Cat(l, d)
             f == Cat(v, e)
  <2>1. a \in AllTexts /\ d \in AllTexts
    BY <1>3, CatIn, Zenon
  <2> HIDE DEF a, d
  <2>2. b \in AllTexts /\ e \in AllTexts
    BY <1>3, <2>1, CatIn, Zenon
  <2> HIDE DEF b, e
  <2>3. c \in AllTexts /\ f \in AllTexts
    BY <1>3, <2>2, CatIn, Zenon
  <2> HIDE DEF c, f
  <2>4. Cat(Cat(c, x), body) = Cat(c, d)
    BY <1>3, <2>3, CatAssoc DEF d
  <2>5. Cat(c, d) = Cat(b, e)
    BY <1>3, <2>1, <2>2, CatAssoc DEF c, e
  <2>6. Cat(b, e) = Cat(a, f)
    BY <1>3, <2>1, <2>2, CatAssoc DEF b, f
  <2>7. Cat(a, f) = Cat(h, Cat(target, f))
    BY <1>3, <2>3, CatAssoc DEF a
  <2> QED BY <2>3, <2>4, <2>5, <2>6, <2>7, Zenon DEF a, b, c, d, e, f
<1>5. Text(r) = h \o (target \o After(r)) /\ After(r) \in Seq(Tokens)
  BY <1>2, <1>4, Zenon DEF Cat, AllTexts
<1> QED BY <1>5, Zenon DEF h

LEMMA MessageText ==
    ASSUME NEW r, Message(r)
    PROVE  Text(r) = <<r.method>> \o (r.target \o After(r)) /\ After(r) \in Seq(Tokens)
<1> DEFINE m == r.method
           target == r.target
           headers == r.headers
           body == r.body
<1>1. /\ m \in Tokens /\ target \in Seq(Tokens) /\ headers \in Seq(Seq(Tokens))
      /\ body \in Seq(Tokens)
      /\ Made(r, m, target, headers, body)
  BY MessageIs, Zenon DEF Made
<1> HIDE DEF m, target, headers, body
<1>2. Text(r) = <<m>> \o (target \o After(r)) /\ After(r) \in Seq(Tokens)
  BY <1>1, TextIs
<1> QED BY <1>2, Zenon DEF m, target

LEMMA WordIsText ==
    ASSUME NEW m \in Tokens, m \notin HostWords
    PROVE  <<m>> \in Seq(Tokens) /\ ~Has(<<m>>, HostWords)
BY DEF Has

LEMMA WordsAreNames == \A w \in HostWords : w \in HostNames
BY Zenon DEF HostWords, HostNames

\* No header before that of the host has the name of a host in it.
LEMMA NoHostBefore ==
    ASSUME NEW r, Message(r), Unambiguous(r), NEW k \in 0 .. Len(r.headers),
           \A i \in 1 .. k : i \notin Hosts(r)
    PROVE  \A i \in 1 .. k : ~Has(r.headers[i], HostWords)
<1>0. \A w \in HostWords : w \in HostNames
  BY WordsAreNames
<1> SUFFICES ASSUME NEW i \in 1 .. k, NEW j \in DOMAIN r.headers[i],
                    r.headers[i][j] \in HostWords
             PROVE  FALSE
  BY Zenon DEF Has
<1>1. i \in 1 .. Len(r.headers) /\ DOMAIN r.headers = 1 .. Len(r.headers)
  BY MessageIs
<1> DEFINE h == r.headers[i]
<1>2. h \in Seq(Tokens) /\ h # <<>>
  BY <1>1, MessageIs, Zenon
<1>3. j # 1
  BY <1>0, <1>1 DEF Hosts
<1>4. Has(Tail(h), HostWords)
  <2> HIDE DEF h
  <2>1. j \in DOMAIN h /\ h[j] \in HostWords
    BY DEF h
  <2>2. j - 1 \in DOMAIN Tail(h) /\ Tail(h)[j - 1] = h[j]
    BY <1>2, <1>3, <2>1
  <2> QED BY <2>1, <2>2 DEF Has
<1>5. \E n \in 1 .. i - 1 : r.headers[n][1] \in HostWords
  <2>1. \A n \in DOMAIN r.headers :
            Has(Tail(r.headers[n]), HostWords)
                => \E l \in 1 .. n - 1 : r.headers[l][1] \in HostWords
    BY Zenon DEF Unambiguous
  <2> QED BY <1>1, <1>4, <2>1, Zenon
<1>6. PICK n \in 1 .. i - 1 : r.headers[n][1] \in HostWords
  BY <1>5
<1>7. n \in 1 .. k /\ n \in DOMAIN r.headers
  BY <1>1
<1> QED BY <1>0, <1>6, <1>7 DEF Hosts

LEMMA FirstHost ==
    ASSUME NEW r, Message(r), Hosts(r) # {}
    PROVE  /\ Min(Hosts(r)) \in Hosts(r) /\ Min(Hosts(r)) \in 1 .. Len(r.headers)
           /\ \A i \in 1 .. Min(Hosts(r)) - 1 : i \notin Hosts(r)
<1>1. DOMAIN r.headers = 1 .. Len(r.headers) /\ Len(r.headers) \in Nat
  BY MessageIs
<1>2. \A i \in Hosts(r) : i \in 1 .. Len(r.headers)
  BY <1>1 DEF Hosts
<1>3. PICK m \in Hosts(r) : \A i \in Hosts(r) : m <= i
  <2>1. Hosts(r) \subseteq Nat
    BY <1>1, <1>2
  <2> QED BY <2>1, LeastExists
<1>4. Min(Hosts(r)) = m
  <2>1. Hosts(r) \in SUBSET Int
    BY <1>2
  <2> QED BY <1>3, <2>1, MinIs
<1> QED BY <1>1, <1>2, <1>3, <1>4

LEMMA NoHostAtAll ==
    ASSUME NEW r, Message(r), Unambiguous(r), Hosts(r) = {}
    PROVE  patch_http_url(Text(r)) = Text(r)
<1> DEFINE l == Lines(r.headers)
           v == <<" HTTP/1.1", EndOfLine>>
           x == <<EndOfLine>>
           data == Text(r)
<1>1. /\ r.target \in Seq(Tokens) /\ r.headers \in Seq(Seq(Tokens)) /\ r.body \in Seq(Tokens)
      /\ r.method \in Tokens /\ r.method \notin HostWords
      /\ ~Has(r.target, HostWords) /\ ~Has(r.body, HostWords)
  BY MessageIs, Zenon DEF Unambiguous
<1>2. l \in Seq(Tokens) /\ ~Has(l, HostWords)
  <2>1. PICK e : Upto(e, r.headers) /\ e[Len(r.headers)] = l
    BY <1>1, LinesAre
  <2> DEFINE n == Len(r.headers)
  <2>2. n \in 0 .. n
    BY <1>1
  <2>3. \A i \in 1 .. n : i \notin Hosts(r)
    OBVIOUS
  <2>4. \A i \in 1 .. n : ~Has(r.headers[i], HostWords)
    BY <2>2, <2>3, NoHostBefore
  <2>5. ~Has(e[n], HostWords)
    BY <1>1, <2>1, <2>2, <2>4, NoHostUpto
  <2> QED BY <1>1, <2>1, <2>5, LinesIsText, Zenon
<1>3. v \in Seq(Tokens) /\ x \in Seq(Tokens) /\ ~Has(v, HostWords) /\ ~Has(x, HostWords)
  BY EndingIsText, LineEnd, Zenon
<1>4. data = <<r.method>> \o (r.target \o (v \o (l \o (x \o r.body))))
  BY MessageText, Zenon DEF After
<1> HIDE DEF l, v, x, data
<1>5. x \o r.body \in Seq(Tokens) /\ ~Has(x \o r.body, HostWords)
  BY <1>1, <1>3, JoinTexts, NotInBoth
<1>6. l \o (x \o r.body) \in Seq(Tokens) /\ ~Has(l \o (x \o r.body), HostWords)
  BY <1>2, <1>5, JoinTexts, NotInBoth
<1>7. v \o (l \o (x \o r.body)) \in Seq(Tokens) /\ ~Has(v \o (l \o (x \o r.body)), HostWords)
  BY <1>3, <1>6, JoinTexts, NotInBoth
<1>8. /\ r.target \o (v \o (l \o (x \o r.body))) \in Seq(Tokens)
      /\ ~Has(r.target \o (v \o (l \o (x \o r.body))), HostWords)
  BY <1>1, <1>7, JoinTexts, NotInBoth
<1>9. ~Has(data, HostWords)
  <2>1. <<r.method>> \in Seq(Tokens) /\ ~Has(<<r.method>>, HostWords)
    BY <1>1, WordIsText
  <2> QED BY <1>4, <1>8, <2>1, NotInBoth
<1>10. find_data(data, "Host: ") = 0
  <2>1. \A i \in DOMAIN data : ~Alike(data[i], "Host: ")
    BY <1>9, NamesHost, Zenon DEF Has
  <2>2. {i \in DOMAIN data : Alike(data[i], "Host: ")} = {}
    BY <2>1, Zenon
  <2> QED BY <2>2, Zenon DEF find_data
<1>11. patch_http_url(data) = data
  BY <1>10, Zenon DEF patch_http_url
<1> QED BY <1>11 DEF data

\* A text is what comes before the line of its host, that line, and the rest.
LEMMA HostLine ==
    ASSUME NEW r, Message(r), Unambiguous(r), Hosts(r) # {}
    PROVE  \E p, t \in Seq(Tokens) :
               /\ ~Has(p, HostWords)
               /\ Text(r) = p \o (r.headers[Min(Hosts(r))] \o (<<EndOfLine>> \o t))
<1> DEFINE k == Min(Hosts(r))
           n == Len(r.headers)
           h == r.headers[k]
           v == <<" HTTP/1.1", EndOfLine>>
           x == <<EndOfLine>>
           m == <<r.method>>
           target == r.target
           body == r.body
           lines == Lines(r.headers)
<1>1. /\ target \in Seq(Tokens) /\ r.headers \in Seq(Seq(Tokens)) /\ body \in Seq(Tokens)
      /\ r.method \in Tokens /\ r.method \notin HostWords /\ ~Has(target, HostWords)
  BY MessageIs, Zenon
<1>2. k \in 1 .. n /\ \A i \in 1 .. k - 1 : i \notin Hosts(r)
  BY FirstHost
<1>3. h \in Seq(Tokens)
  BY <1>2, MessageIs, Zenon
<1>4. v \in Seq(Tokens) /\ x \in Seq(Tokens) /\ ~Has(v, HostWords)
  BY EndingIsText, LineEnd, Zenon
<1>5. m \in Seq(Tokens) /\ ~Has(m, HostWords)
  BY <1>1, WordIsText
<1>6. Text(r) = m \o (target \o (v \o (lines \o (x \o body))))
  BY MessageText, Zenon DEF After
<1>7. PICK e : Upto(e, r.headers) /\ e[n] = lines
  BY <1>1, LinesAre
<1>8. n \in Nat /\ k - 1 \in 0 .. n /\ k \in 0 .. n
  BY <1>1, <1>2
<1> DEFINE a == e[k - 1]
<1>9. a \in Seq(Tokens) /\ e[k] = a \o (h \o x)
  BY <1>2, <1>7, <1>8 DEF Upto
<1>10. ~Has(a, HostWords)
  <2>1. \A i \in 1 .. k - 1 : ~Has(r.headers[i], HostWords)
    BY <1>2, <1>8, NoHostBefore
  <2> QED BY <1>1, <1>7, <1>8, <2>1, NoHostUpto
<1>11. PICK t \in Seq(Tokens) : e[n] = e[k] \o t
  BY <1>1, <1>7, <1>8, RestUpto
<1> HIDE DEF v, x, m, target, body, lines, h, a
<1> DEFINE w == x \o body
           q == v \o a
           g == h \o (x \o (t \o w))
           p == m \o (target \o q)
<1>12. w \in Seq(Tokens)
  BY <1>1, <1>4, JoinTexts, Zenon
<1>13. v \o (((a \o (h \o x)) \o t) \o w) = q \o g
  <2> HIDE DEF w
  <2>1. Regroups(v, a, h, x, t, w)
    BY <1>3, <1>4, <1>9, <1>12, Regrouped
  <2> QED BY <2>1, Zenon DEF Regroups
<1>14. lines = (a \o (h \o x)) \o t
  BY <1>7, <1>9, <1>11, Zenon
<1>15. t \o w \in Seq(Tokens)
  BY <1>12, JoinTexts, Zenon
<1>16. x \o (t \o w) \in Seq(Tokens)
  BY <1>4, <1>15, JoinTexts, Zenon
<1>17. g \in Seq(Tokens)
  BY <1>3, <1>16, JoinTexts, Zenon
<1>18. q \in Seq(Tokens) /\ ~Has(q, HostWords)
  BY <1>4, <1>9, <1>10, JoinTexts, NotInBoth
<1>19. Text(r) = m \o (target \o (q \o g))
  BY <1>6, <1>13, <1>14, Zenon
<1> HIDE DEF q, g
<1>20. target \o q \in Seq(Tokens) /\ ~Has(target \o q, HostWords)
  BY <1>1, <1>18, JoinTexts, NotInBoth DEF target
<1>21. p \in Seq(Tokens) /\ ~Has(p, HostWords)
  BY <1>5, <1>20, JoinTexts, NotInBoth
<1>22. m \o (target \o (q \o g)) = p \o g
  <2>1. target \in Seq(Tokens)
    BY <1>1
  <2>2. (target \o q) \o g = target \o (q \o g)
    BY <1>17, <1>18, <2>1, Assoc
  <2>3. (m \o (target \o q)) \o g = m \o ((target \o q) \o g)
    BY <1>5, <1>17, <1>20, Assoc
  <2> QED BY <2>2, <2>3, Zenon
<1> HIDE DEF p
<1>23. Text(r) = p \o (h \o (x \o (t \o w))) /\ t \o w \in Seq(Tokens)
  BY <1>15, <1>19, <1>22, Zenon DEF g
<1> QED BY <1>21, <1>23, Zenon DEF h, x

LEMMA SameText ==
    ASSUME NEW s \in Seq(Tokens), NEW z \in Seq(Tokens), Len(s) = Len(z),
           \A i \in 1 .. Len(z) : s[i] = z[i]
    PROVE  s = z
OBVIOUS

\* A text that begins with a word: what follows it, and where.
Begins(data, m, target, u) == data = <<m>> \o (target \o u)

LEMMA AfterTheWord ==
    ASSUME NEW m \in Tokens, NEW target \in Seq(Tokens), target # <<>>, NEW u \in Seq(Tokens),
           NEW data, Begins(data, m, target, u)
    PROVE  /\ data \in Seq(Tokens) /\ data # <<>> /\ data[1] = m
           /\ 1 < Len(data) /\ data[1 + 1] = target[1]
           /\ SubSeq(data, 1, 1) = <<m>> /\ SubSeq(data, 1 + 1, Len(data)) = target \o u
<1> DEFINE z == target \o u
           w == <<m>>
<1>1. /\ Len(target) \in Nat \ {0} /\ Len(u) \in Nat
      /\ w \in Seq(Tokens) /\ Len(w) = 1 /\ w[1] = m
  OBVIOUS
<1>2. z \in Seq(Tokens) /\ Len(z) = Len(target) + Len(u) /\ z[1] = target[1]
  <2>1. 1 \in 1 .. Len(target) + Len(u) /\ 1 <= Len(target)
    BY <1>1
  <2> QED BY <2>1, JoinTexts
<1>3. data = w \o z
  BY Zenon DEF Begins
<1> HIDE DEF z, w
<1>4. /\ w \o z \in Seq(Tokens) /\ Len(w \o z) = Len(w) + Len(z)
      /\ \A i \in 1 .. Len(w) + Len(z) :
            (w \o z)[i] = IF i <= Len(w) THEN w[i] ELSE z[i - Len(w)]
  BY <1>1, <1>2, JoinTexts, Zenon
<1>5. /\ data \in Seq(Tokens) /\ Len(data) = 1 + Len(z)
      /\ \A i \in 1 .. 1 + Len(z) : data[i] = IF i <= 1 THEN w[i] ELSE z[i - 1]
  BY <1>1, <1>3, <1>4
<1>6. Len(z) \in Nat \ {0}
  BY <1>1, <1>2
<1>7. data[1] = m /\ data[1 + 1] = target[1]
  <2>1. 1 \in 1 .. 1 + Len(z) /\ 1 + 1 \in 1 .. 1 + Len(z) /\ 1 <= 1 /\ ~(1 + 1 <= 1)
        /\ (1 + 1) - 1 = 1
    BY <1>6
  <2>2. data[1] = w[1] /\ data[1 + 1] = z[1]
    BY <1>5, <2>1
  <2> QED BY <1>1, <1>2, <2>2
<1>8. SubSeq(data, 1, 1) = <<m>>
  <2> DEFINE s == SubSeq(data, 1, 1)
  <2>1. s \in Seq(Tokens) /\ Len(s) = 1 /\ s[1] = data[1]
    BY <1>5, <1>6
  <2> HIDE DEF s
  <2>2. s = <<m>>
    BY <1>7, <2>1
  <2> QED BY <2>2 DEF s
<1>9. SubSeq(data, 1 + 1, Len(data)) = z
  <2> DEFINE s == SubSeq(data, 1 + 1, Len(data))
  <2>1. /\ s \in Seq(Tokens) /\ Len(s) = Len(z)
        /\ \A i \in 1 .. Len(z) : s[i] = data[i + 1]
    BY <1>5, <1>6
  <2>2. \A i \in 1 .. Len(z) : data[i + 1] = z[i]
    <3> SUFFICES ASSUME NEW i \in 1 .. Len(z) PROVE data[i + 1] = z[i]
      OBVIOUS
    <3>1. i + 1 \in 1 .. 1 + Len(z) /\ ~(i + 1 <= 1) /\ (i + 1) - 1 = i
      BY <1>6
    <3> QED BY <1>5, <3>1
  <2> HIDE DEF s
  <2>3. \A i \in 1 .. Len(z) : s[i] = z[i]
    BY <2>1, <2>2, Zenon
  <2>4. s = z
    BY <1>2, <2>1, <2>3, SameText, Zenon
  <2> QED BY <2>4 DEF s
<1>10. data # <<>> /\ 1 < Len(data)
  BY <1>5, <1>6
<1> QED BY <1>5, <1>7, <1>8, <1>9, <1>10 DEF z

\* The text of a request with another target.
LEMMA LongerText ==
    ASSUME NEW r, Message(r), NEW longer \in Seq(Tokens)
    PROVE  Text([r EXCEPT !.target = longer]) = <<r.method>> \o (longer \o After(r))
<1> DEFINE m == r.method
           target == r.target
           headers == r.headers
           body == r.body
           s == [r EXCEPT !.target = longer]
<1>1. /\ m \in Tokens /\ target \in Seq(Tokens) /\ headers \in Seq(Seq(Tokens))
      /\ body \in Seq(Tokens)
      /\ r = [method |-> m, target |-> target, headers |-> headers, body |-> body]
  BY MessageIs, Zenon
<1> HIDE DEF m, target, headers, body
<1>2. Made(s, m, longer, headers, body)
  BY <1>1 DEF Made
<1>3. s.headers = r.headers /\ s.body = r.body
  BY <1>1
<1> HIDE DEF s
<1>4. Text(s) = <<m>> \o (longer \o After(s))
  BY <1>1, <1>2, TextIs
<1>5. After(s) = After(r)
  BY <1>3, Zenon DEF After
<1> QED BY <1>4, <1>5, Zenon DEF s, m

\* The absolute form, piece by piece.
LEMMA AbsoluteIs ==
    ASSUME NEW r, Message(r), NEW name \in Seq(Tokens)
    PROVE  Text([r EXCEPT !.target = Scheme \o name \o @])
           = ((<<r.method>> \o Scheme) \o name) \o (r.target \o After(r))
<1> DEFINE w == <<r.method>>
           target == r.target
           a == After(r)
           sn == Scheme \o name
           longer == sn \o target
<1>1. w \in Seq(Tokens) /\ target \in Seq(Tokens) /\ a \in Seq(Tokens) /\ Scheme \in Seq(Tokens)
  <2>1. r.method \in Tokens
    BY MessageIs, Zenon
  <2>2. w \in Seq(Tokens)
    BY <2>1
  <2> QED BY <2>2, MessageIs, MessageText, SchemeIsText, Zenon
<1>2. sn \in Seq(Tokens)
  BY <1>1, JoinTexts, Zenon
<1>3. longer \in Seq(Tokens)
  BY <1>1, <1>2, JoinTexts, Zenon
<1>4. Text([r EXCEPT !.target = longer]) = w \o (longer \o a)
  <2> HIDE DEF longer
  <2> QED BY <1>3, LongerText
<1> HIDE DEF w, target, a, sn
<1>5. /\ w \in AllTexts /\ Scheme \in AllTexts /\ name \in AllTexts
      /\ sn \in AllTexts /\ target \in AllTexts /\ a \in AllTexts
  BY <1>1, <1>2, Zenon DEF AllTexts
<1>6. Cat(Cat(w, Scheme), name) = Cat(w, Cat(Scheme, name))
  BY <1>5, CatAssoc
<1>7. Cat(Cat(sn, target), a) = Cat(sn, Cat(target, a))
  BY <1>5, CatAssoc
<1>8. Cat(Cat(w, sn), Cat(target, a)) = Cat(w, Cat(sn, Cat(target, a)))
  <2> DEFINE z == Cat(target, a)
  <2>1. z \in AllTexts
    BY <1>5, CatIn, Zenon
  <2> HIDE DEF z
  <2>2. Cat(Cat(w, sn), z) = Cat(w, Cat(sn, z))
    BY <1>5, <2>1, CatAssoc
  <2> QED BY <2>2, Zenon DEF z
<1>9. Text([r EXCEPT !.target = longer]) = ((w \o Scheme) \o name) \o (target \o a)
  BY <1>4, <1>6, <1>7, <1>8, Zenon DEF Cat, sn
<1> QED BY <1>9, Zenon DEF w, target, a, sn

\* patch_http_url makes of a request its absolute form and changes nothing else,
\* wherever among the headers its host stands; it leaves a request alone that has no
\* host or is absolute: for every request of HTTP in which the order of the
\* searches decides nothing, and whose host is spelled as they look for it.
THEOREM Rewritten ==
    ASSUME NEW r, Message(r), Unambiguous(r), Spelled(r)
    PROVE  patch_http_url(Text(r)) = Text(Absolute(r))
<1>1. CASE Hosts(r) = {}
  BY <1>1, NoHostAtAll, Zenon DEF Absolute
<1>2. CASE Hosts(r) # {}
  <2> DEFINE k == Min(Hosts(r))
             h == r.headers[k]
             m == r.method
             data == Text(r)
             c == CHOOSE i \in DOMAIN Methods : Methods[i] = m
             z == r.target \o After(r)
  <2>1. PICK p, t \in Seq(Tokens) :
            ~Has(p, HostWords) /\ data = p \o (h \o (<<EndOfLine>> \o t))
    BY <1>2, HostLine
  <2>2. /\ k \in 1 .. Len(r.headers) /\ h[1] \in HostWords
        /\ h \in Seq(Tokens) /\ h # <<>> /\ ~Has(h, {EndOfLine})
    <3>1. k \in Hosts(r) /\ k \in 1 .. Len(r.headers)
      BY <1>2, FirstHost
    <3>2. h[1] \in HostWords
      BY <3>1, Zenon DEF Spelled
    <3> QED BY <3>1, <3>2, MessageIs, Zenon
  <2>3. /\ m \in Tokens /\ r.target \in Seq(Tokens) /\ r.target # <<>>
        /\ After(r) \in Seq(Tokens) /\ data = <<m>> \o (r.target \o After(r))
    BY MessageIs, MessageText, Zenon
  <2>4. c \in 1 .. 7 /\ Methods[c] = m
    <3>1. r \in [method : {Methods[i] : i \in DOMAIN Methods}, target : Seq(Tokens),
                 headers : Seq(Seq(Tokens)), body : Seq(Tokens)]
      BY Zenon DEF Message
    <3> DEFINE Verbs == {Methods[i] : i \in DOMAIN Methods}
    <3>2. m \in Verbs
      <4> HIDE DEF Verbs
      <4>1. r \in [method : Verbs, target : Seq(Tokens), headers : Seq(Seq(Tokens)),
                   body : Seq(Tokens)]
        BY <3>1, Zenon DEF Verbs
      <4> QED BY <4>1
    <3>3. c \in DOMAIN Methods /\ Methods[c] = m
      BY <3>2, Zenon
    <3> QED BY <3>3, MethodsAre, Zenon
  <2> HIDE DEF h, k
  <2>5. find_data(data, "Host: ") = Len(p) + 1 /\ hostname(data) = Tail(h)
    BY <2>1, <2>2, HostFound, Zenon
  <2>6. find_data(data, "Host: ") # 0
    <3> DEFINE found == find_data(data, "Host: ")
    <3>1. found = Len(p) + 1
      BY <2>5, Zenon
    <3> HIDE DEF found
    <3>2. found # 0
      BY <3>1
    <3> QED BY <3>2, Zenon DEF found
  <2>7. \A j \in 1 .. c - 1 : ~Has(data, {Methods[j]})
    <3>1. ~Has(data, Before(m)) /\ Before(m) = {Methods[j] : j \in 1 .. c - 1}
      BY Zenon DEF Unambiguous, Before
    <3> HIDE DEF c, data
    <3> QED BY <3>1, Zenon DEF Has
  <2> HIDE DEF c, data, m
  <2>8. /\ data \in Seq(Tokens) /\ data # <<>> /\ data[1] = m
        /\ 1 < Len(data) /\ data[1 + 1] = r.target[1]
        /\ SubSeq(data, 1, 1) = <<m>> /\ SubSeq(data, 1 + 1, Len(data)) = z
    <3> DEFINE target == r.target
               u == After(r)
    <3>1. /\ m \in Tokens /\ target \in Seq(Tokens) /\ target # <<>>
          /\ u \in Seq(Tokens) /\ Begins(data, m, target, u)
      BY <2>3, Zenon DEF Begins
    <3> HIDE DEF target, u, z
    <3>2. /\ data \in Seq(Tokens) /\ data # <<>> /\ data[1] = m
          /\ 1 < Len(data) /\ data[1 + 1] = target[1]
          /\ SubSeq(data, 1, 1) = <<m>> /\ SubSeq(data, 1 + 1, Len(data)) = target \o u
      BY <3>1, AfterTheWord
    <3> QED BY <3>2, Zenon DEF target, u, z
  <2> HIDE DEF z
  <2>9. patch_http_url(data) =
            IF 1 < Len(data) /\ data[1 + 1] = "http:" THEN data
            ELSE SubSeq(data, 1, 1) \o Scheme \o hostname(data)
                 \o SubSeq(data, 1 + 1, Len(data))
    BY <2>4, <2>6, <2>7, <2>8, Patched, Zenon
  <2>10. CASE r.target[1] = "http:"
    <3>1. patch_http_url(data) = data
      BY <2>8, <2>9, <2>10, Zenon
    <3> QED BY <2>10, <3>1, Zenon DEF Absolute, data
  <2>11. CASE r.target[1] # "http:"
    <3>1. patch_http_url(data) = ((<<m>> \o Scheme) \o Tail(h)) \o z
      BY <2>5, <2>8, <2>9, <2>11, Zenon
    <3>2. Tail(h) \in Seq(Tokens)
      BY <2>2
    <3>3. Text(Absolute(r)) = ((<<r.method>> \o Scheme) \o Tail(h)) \o (r.target \o After(r))
      <4> DEFINE name == Tail(h)
      <4>1. Absolute(r) = [r EXCEPT !.target = Scheme \o name \o @]
        BY <1>2, <2>11, Zenon DEF Absolute, h, k
      <4> HIDE DEF name
      <4> QED BY <3>2, <4>1, AbsoluteIs, Zenon DEF name
    <3> QED BY <3>1, <3>3, Zenon DEF data, m, z
  <2> QED BY <2>10, <2>11
<1> QED BY <1>1, <1>2

-----------------------------------------------------------------------------
(***************************************************************************)
(* parse_tls_header.  A loop that steps over the entries of a list is a    *)
(* walk: f is what is found from each position on, v what is found where   *)
(* the walk stops, and next where it goes on elsewhere.                    *)
(***************************************************************************)

Walks(f, Stop, v, next) == f = [p \in Nat |-> IF p \in Stop THEN v[p] ELSE f[next[p]]]

LEMMA WalkExists ==
    ASSUME NEW n \in Nat, NEW Stop, NEW v, NEW next,
           \A p \in Nat : p \notin Stop => p < n /\ next[p] \in Nat /\ next[p] > p
    PROVE  \E f : Walks(f, Stop, v, next)
<1> DEFINE Above(k) == {p \in Nat : p >= k}
           IsWalk(f, k) == f = [p \in Above(k) |-> IF p \in Stop THEN v[p] ELSE f[next[p]]]
           T == {k \in Nat : \E f : IsWalk(f, n - k)}
<1>1. 0 \in T
  <2> DEFINE f == [p \in Above(n - 0) |-> v[p]]
  <2>1. \A p \in Above(n - 0) : p \in Stop
    OBVIOUS
  <2>2. f = [p \in Above(n - 0) |-> IF p \in Stop THEN v[p] ELSE f[next[p]]]
    <3> HIDE DEF Above
    <3> QED BY <2>1
  <2>3. IsWalk(f, n - 0)
    BY <2>2
  <2> HIDE DEF f, IsWalk
  <2>4. \E g : IsWalk(g, n - 0)
    BY <2>3
  <2> QED BY <2>4
<1>2. ASSUME NEW k \in 0 .. n - 1, k \in T PROVE k + 1 \in T
  <2>1. PICK f : IsWalk(f, n - k)
    BY <1>2
  <2> DEFINE m == n - (k + 1)
             g == [p \in Above(m) |-> IF p \in Stop THEN v[p] ELSE f[next[p]]]
  <2>2. m \in Nat /\ n - k = m + 1
    OBVIOUS
  <2> HIDE DEF m
  <2>3. \A p \in Above(m + 1) : p \in Above(m) /\ p \in Nat
    BY <2>2
  <2>4. \A p \in Above(m) : p \notin Stop => next[p] \in Above(m + 1)
    BY <2>2
  <2>5. \A p \in Above(m + 1) : f[p] = IF p \in Stop THEN v[p] ELSE f[next[p]]
    <3>1. f = [p \in Above(m + 1) |-> IF p \in Stop THEN v[p] ELSE f[next[p]]]
      BY <2>1, <2>2
    <3> HIDE DEF Above
    <3> QED BY <3>1
  <2> HIDE DEF Above
  <2>6. \A p \in Above(m) : g[p] = IF p \in Stop THEN v[p] ELSE f[next[p]]
    OBVIOUS
  <2> HIDE DEF g
  <2>7. \A p \in Above(m + 1) : g[p] = f[p]
    BY <2>3, <2>5, <2>6
  <2>8. \A p \in Above(m) : p \notin Stop => f[next[p]] = g[next[p]]
    BY <2>4, <2>7
  <2>9. g = [p \in Above(m) |-> IF p \in Stop THEN v[p] ELSE g[next[p]]]
    <3>1. [p \in Above(m) |-> IF p \in Stop THEN v[p] ELSE f[next[p]]]
          = [p \in Above(m) |-> IF p \in Stop THEN v[p] ELSE g[next[p]]]
      BY <2>8
    <3> QED BY <3>1 DEF g
  <2>10. IsWalk(g, n - (k + 1))
    BY <2>9 DEF m
  <2> HIDE DEF IsWalk
  <2>11. \E h : IsWalk(h, n - (k + 1))
    BY <2>10
  <2> QED BY <2>11
<1>3. n \in T
  <2> HIDE DEF T
  <2> QED BY <1>1, <1>2, UpToBound
<1>4. PICK f : IsWalk(f, n - n)
  BY <1>3
<1>5. Above(n - n) = Nat
  OBVIOUS
<1> HIDE DEF Above
<1> QED BY <1>4, <1>5, Zenon DEF Walks

\* A walk along given positions finds what is at the one where it stops.
LEMMA WalkAlong ==
    ASSUME NEW f, NEW Stop, NEW v, NEW next, Walks(f, Stop, v, next),
           NEW k \in Nat, NEW off, off[k] \in Nat /\ off[k] \in Stop,
           \A i \in 0 .. k - 1 : off[i] \in Nat /\ off[i] \notin Stop /\ next[off[i]] = off[i + 1]
    PROVE  f[off[0]] = v[off[k]]
<1> DEFINE Same(i) == f[off[0]] = f[off[i]]
           T == {i \in 0 .. k : Same(i)}
<1>1. \A p \in Nat : f[p] = IF p \in Stop THEN v[p] ELSE f[next[p]]
  <2>1. f = [p \in Nat |-> IF p \in Stop THEN v[p] ELSE f[next[p]]]
    BY Zenon DEF Walks
  <2> QED BY <2>1, Zenon
<1>2. ASSUME NEW i \in 0 .. k - 1, Same(i) PROVE Same(i + 1)
  <2>1. f[off[i]] = f[off[i + 1]]
    BY <1>1
  <2> QED BY <1>2, <2>1, Zenon
<1>3. Same(0)
  OBVIOUS
<1> HIDE DEF Same
<1>4. 0 \in T
  BY <1>3
<1>5. ASSUME NEW i \in 0 .. k - 1, i \in T PROVE i + 1 \in T
  BY <1>2, <1>5
<1>6. k \in T
  <2> HIDE DEF T
  <2> QED BY <1>4, <1>5, UpToBound
<1>7. f[off[0]] = f[off[k]]
  BY <1>6 DEF Same
<1> QED BY <1>1, <1>7, Zenon

\* What the walk does with entry i of a list of m, of which those in wanted are
\* sought and entry i ends at off[i].
Visited(off, Stop, v, next, wanted, found, m, i) ==
    /\ off[i - 1] \in Nat
    /\ i \in wanted => off[i - 1] \in Stop /\ v[off[i - 1]] = found[i]
    /\ off[i - 1] \notin Stop => next[off[i - 1]] = off[i]
    /\ i \notin wanted /\ off[i - 1] \in Stop => i = m /\ v[off[i - 1]] = NoName

Finds(f, off, wanted, found) ==
    f[off[0]] = IF wanted = {} THEN NoName ELSE found[Min(wanted)]

\* The walk finds the first that is sought, or nothing.
LEMMA FirstOnWalk ==
    ASSUME NEW f, NEW Stop, NEW v, NEW next, Walks(f, Stop, v, next),
           NEW m \in Nat, NEW off, off[m] \in Nat, off[m] \in Stop, v[off[m]] = NoName,
           NEW wanted \in SUBSET (1 .. m), NEW found,
           \A i \in 1 .. m : Visited(off, Stop, v, next, wanted, found, m, i)
    PROVE  Finds(f, off, wanted, found)
<1> DEFINE T == {k \in 0 .. m : off[k] \in Stop}
<1>1. \A i \in 1 .. m :
          /\ off[i - 1] \in Nat
          /\ i \in wanted => off[i - 1] \in Stop /\ v[off[i - 1]] = found[i]
          /\ off[i - 1] \notin Stop => next[off[i - 1]] = off[i]
          /\ i \notin wanted /\ off[i - 1] \in Stop => i = m /\ v[off[i - 1]] = NoName
  BY Zenon DEF Visited
<1>2. PICK k \in T : \A j \in T : k <= j
  <2>1. m \in T /\ T \in SUBSET Nat
    OBVIOUS
  <2> HIDE DEF T
  <2> QED BY <2>1, LeastExists
<1>3. /\ k \in 0 .. m /\ off[k] \in Stop
      /\ \A j \in 0 .. k - 1 : j \in 0 .. m /\ off[j] \notin Stop
  <2>1. k \in 0 .. m /\ off[k] \in Stop
    BY <1>2
  <2>2. \A j \in 0 .. k - 1 : j \in 0 .. m /\ j \notin T
    BY <1>2, <2>1
  <2> QED BY <2>1, <2>2
<1> HIDE DEF T
<1>4. \A j \in 0 .. k - 1 : j + 1 \in 1 .. m /\ (j + 1) - 1 = j
  BY <1>3
<1>5. \A j \in 0 .. k - 1 : /\ off[j] \in Nat /\ off[j] \notin Stop /\ next[off[j]] = off[j + 1]
                            /\ j + 1 \notin wanted
  <2> SUFFICES ASSUME NEW j \in 0 .. k - 1
               PROVE  /\ off[j] \in Nat /\ off[j] \notin Stop /\ next[off[j]] = off[j + 1]
                      /\ j + 1 \notin wanted
    BY Zenon
  <2> DEFINE i == j + 1
  <2>1. i \in 1 .. m /\ i - 1 = j /\ off[j] \notin Stop
    BY <1>3, <1>4, Zenon
  <2> HIDE DEF i
  <2>2. off[j] \in Nat /\ off[j] \notin Stop /\ next[off[j]] = off[i] /\ i \notin wanted
    BY <1>1, <2>1, Zenon
  <2> QED BY <2>2 DEF i
<1>6. \A j \in wanted : k < j
  <2> SUFFICES ASSUME NEW j \in wanted, ~(k < j) PROVE FALSE
    OBVIOUS
  <2>1. j - 1 \in 0 .. k - 1 /\ (j - 1) + 1 = j
    BY <1>3
  <2> QED BY <1>5, <2>1, Zenon
<1>7. f[off[0]] = v[off[k]]
  <2>1. k \in Nat /\ off[k] \in Nat
    <3>1. CASE k = m
      BY <3>1
    <3>2. CASE k # m
      <4>1. k + 1 \in 1 .. m /\ (k + 1) - 1 = k /\ k \in Nat
        BY <1>3, <3>2
      <4> QED BY <1>1, <4>1, Zenon
    <3> QED BY <3>1, <3>2
  <2>2. \A j \in 0 .. k - 1 : off[j] \in Nat /\ off[j] \notin Stop /\ next[off[j]] = off[j + 1]
    BY <1>5, Zenon
  <2> QED BY <1>3, <2>1, <2>2, WalkAlong
<1>8. CASE wanted = {}
  <2>1. v[off[k]] = NoName
    <3>1. CASE k = m
      BY <3>1
    <3>2. CASE k # m
      <4> DEFINE i == k + 1
      <4>1. i \in 1 .. m /\ i - 1 = k /\ i \notin wanted
        BY <1>3, <1>8, <3>2
      <4> HIDE DEF i
      <4> QED BY <1>1, <1>3, <4>1, Zenon
    <3> QED BY <3>1, <3>2
  <2> QED BY <1>7, <1>8, <2>1, Zenon DEF Finds
<1>9. CASE wanted # {}
  <2> DEFINE i == k + 1
  <2>1. i \in 1 .. m /\ i - 1 = k /\ \A j \in wanted : i <= j
    <3>1. \A j \in wanted : j \in 1 .. m /\ k < j
      BY <1>6
    <3>2. PICK j : j \in wanted
      BY <1>9
    <3>3. k \in 0 .. m /\ j \in 1 .. m /\ k < j
      BY <1>3, <3>1, <3>2
    <3>4. i \in 1 .. m /\ i - 1 = k
      BY <3>3
    <3>5. \A x \in wanted : i <= x
      BY <3>1, <3>3
    <3> QED BY <3>4, <3>5
  <2> HIDE DEF i
  <2>2. i \in wanted
    <3> SUFFICES ASSUME i \notin wanted PROVE FALSE
      OBVIOUS
    <3>1. i = m
      BY <1>1, <1>3, <2>1, Zenon
    <3>2. \A j \in wanted : j = i
      BY <2>1, <3>1
    <3> QED BY <1>9, <3>2
  <2>3. wanted \in SUBSET Int
    OBVIOUS
  <2>4. Min(wanted) = i
    BY <2>1, <2>2, <2>3, MinIs
  <2>5. v[off[k]] = found[i]
    BY <1>1, <2>1, <2>2, Zenon
  <2> QED BY <1>7, <1>9, <2>4, <2>5, Zenon DEF Finds
<1> QED BY <1>8, <1>9

LEMMA JoinBytes ==
    \A s, t \in Seq(Octets) :
        /\ s \o t \in Seq(Octets) /\ Len(s \o t) = Len(s) + Len(t)
        /\ \A i \in 1 .. Len(s) : (s \o t)[i] = s[i]
        /\ \A i \in 1 .. Len(t) : (s \o t)[Len(s) + i] = t[i]
<1> SUFFICES ASSUME NEW s \in Seq(Octets), NEW t \in Seq(Octets)
             PROVE  /\ s \o t \in Seq(Octets) /\ Len(s \o t) = Len(s) + Len(t)
                    /\ \A i \in 1 .. Len(s) : (s \o t)[i] = s[i]
                    /\ \A i \in 1 .. Len(t) : (s \o t)[Len(s) + i] = t[i]
  OBVIOUS
<1>1. s \o t \in Seq(Octets) /\ Len(s \o t) = Len(s) + Len(t)
  OBVIOUS
<1>2. \A i \in 1 .. Len(s) : (s \o t)[i] = s[i]
  OBVIOUS
<1>3. \A i \in 1 .. Len(t) : (s \o t)[Len(s) + i] = t[i]
  OBVIOUS
<1> QED BY <1>1, <1>2, <1>3

\* d is s and then t.
Joined(d, s, t) ==
    /\ d \in Seq(Octets) /\ Len(d) = Len(s) + Len(t)
    /\ \A i \in 1 .. Len(s) : d[i] = s[i]
    /\ \A i \in 1 .. Len(t) : d[Len(s) + i] = t[i]

LEMMA JoinedBytes == \A s, t \in Seq(Octets) : Joined(s \o t, s, t)
BY JoinBytes, Zenon DEF Joined

\* A piece stands in the whole behind those before it.
Placed(e, ss, i) ==
    /\ e[i] \in Seq(Octets) /\ e[i - 1] \in Seq(Octets)
    /\ Len(e[i]) = Len(e[i - 1]) + Len(ss[i]) /\ Len(e[i]) <= Len(e[Len(ss)])
    /\ \A j \in 1 .. Len(ss[i]) : e[Len(ss)][Len(e[i - 1]) + j] = ss[i][j]

LEMMA PieceAt ==
    ASSUME NEW e, NEW ss \in Seq(Seq(Octets)), Pieces(Octets, e, ss)
    PROVE  \A i \in 1 .. Len(ss) : Placed(e, ss, i)
<1> SUFFICES ASSUME NEW i \in 1 .. Len(ss) PROVE Placed(e, ss, i)
  BY Zenon
<1> DEFINE n == Len(ss)
           b == e[i - 1]
           s == ss[i]
           Keeps(k) == /\ Len(b) + Len(s) <= Len(e[i + k])
                       /\ \A j \in 1 .. Len(s) : e[i + k][Len(b) + j] = s[j]
           T == {k \in 0 .. n - i : Keeps(k)}
<1>1. n \in Nat /\ n - i \in Nat /\ i \in 0 .. n /\ i - 1 \in 0 .. n
  OBVIOUS
<1>2. /\ \A k \in 1 .. n : e[k] = e[k - 1] \o ss[k] /\ ss[k] \in Seq(Octets)
      /\ \A k \in 0 .. n : e[k] \in Seq(Octets)
  <2>1. \A k \in 1 .. n : ss[k] \in Seq(Octets)
    OBVIOUS
  <2> QED BY <2>1, Zenon DEF Pieces
<1> HIDE DEF n
<1>3. /\ b \in Seq(Octets) /\ s \in Seq(Octets) /\ e[i] = b \o s /\ Len(e[i]) = Len(b) + Len(s)
      /\ \A j \in 1 .. Len(s) : e[i][Len(b) + j] = s[j]
  <2>1. b \in Seq(Octets) /\ s \in Seq(Octets) /\ e[i] = b \o s
    BY <1>1, <1>2 DEF n
  <2> HIDE DEF b, s
  <2> QED BY <2>1, JoinBytes
<1> HIDE DEF b, s
<1>4. Keeps(0)
  <2>1. i + 0 = i
    OBVIOUS
  <2>2. Len(b) + Len(s) <= Len(e[i])
    BY <1>3
  <2> QED BY <1>3, <2>1, <2>2
<1>5. ASSUME NEW k \in 0 .. n - i - 1, Keeps(k) PROVE Keeps(k + 1)
  <2>1. i + (k + 1) \in 1 .. n /\ (i + (k + 1)) - 1 = i + k /\ i + k \in 0 .. n
    BY <1>1
  <2> DEFINE x == e[i + k]
             y == ss[i + (k + 1)]
             z == e[i + (k + 1)]
  <2>2. x \in Seq(Octets) /\ y \in Seq(Octets) /\ z = x \o y
    BY <1>2, <2>1
  <2>3. Len(b) + Len(s) <= Len(x) /\ \A j \in 1 .. Len(s) : x[Len(b) + j] = s[j]
    BY <1>5
  <2> HIDE DEF x, y, z
  <2>4. /\ Len(z) = Len(x) + Len(y) /\ Len(x) \in Nat /\ Len(y) \in Nat
        /\ \A j \in 1 .. Len(x) : z[j] = x[j]
    BY <2>2, JoinBytes
  <2>5. \A j \in 1 .. Len(s) : Len(b) + j \in 1 .. Len(x)
    BY <1>3, <2>3, <2>4
  <2>6. Len(b) + Len(s) <= Len(z) /\ \A j \in 1 .. Len(s) : z[Len(b) + j] = s[j]
    BY <1>3, <2>3, <2>4, <2>5
  <2> QED BY <2>6 DEF z
<1> HIDE DEF Keeps
<1>6. 0 \in T
  BY <1>1, <1>4
<1>7. ASSUME NEW k \in 0 .. (n - i) - 1, k \in T PROVE k + 1 \in T
  BY <1>1, <1>5, <1>7
<1>8. n - i \in T
  <2> HIDE DEF T
  <2> QED BY <1>1, <1>6, <1>7, UpToBound
<1>9. Keeps(n - i) /\ i + (n - i) = n
  BY <1>1, <1>8
<1>10. Len(b) + Len(s) <= Len(e[n]) /\ \A j \in 1 .. Len(s) : e[n][Len(b) + j] = s[j]
  BY <1>9 DEF Keeps
<1>11. e[i] \in Seq(Octets)
  BY <1>1, <1>2
<1> QED BY <1>3, <1>10, <1>11 DEF b, s, n, Placed

LEMMA TwoOctets ==
    ASSUME NEW n \in Nat, n <= Longest
    PROVE  n \div 256 \in Octets /\ n % 256 \in Octets /\ 256 * (n \div 256) + (n % 256) = n
<1>1. n \div 256 \in 0 .. 255
  BY DEF Longest
<1>2. n % 256 \in 0 .. 255
  OBVIOUS
<1>3. 256 * (n \div 256) + (n % 256) = n
  OBVIOUS
<1> QED BY <1>1, <1>2, <1>3 DEF Octets

\* A text behind its length.
LEMMA SizedIs ==
    ASSUME NEW t \in Seq(Octets), Len(t) <= Longest
    PROVE  /\ Sized(t) \in Seq(Octets) /\ Len(Sized(t)) = 2 + Len(t)
           /\ 256 * Sized(t)[1] + Sized(t)[2] = Len(t)
           /\ \A i \in 1 .. Len(t) : Sized(t)[2 + i] = t[i]
<1> DEFINE a == Len(t) \div 256
           b == Len(t) % 256
           w == <<a, b>>
<1>1. Len(t) \in Nat /\ a \in Octets /\ b \in Octets /\ 256 * a + b = Len(t)
  <2>1. Len(t) \in Nat
    OBVIOUS
  <2> QED BY <2>1, TwoOctets
<1> HIDE DEF a, b
<1>2. w \in Seq(Octets) /\ Len(w) = 2 /\ w[1] = a /\ w[2] = b
  BY <1>1
<1>3. Sized(t) = w \o t
  BY Zenon DEF Sized, a, b
<1> HIDE DEF w
<1>4. /\ w \o t \in Seq(Octets) /\ Len(w \o t) = Len(w) + Len(t)
      /\ \A i \in 1 .. Len(w) : (w \o t)[i] = w[i]
      /\ \A i \in 1 .. Len(t) : (w \o t)[Len(w) + i] = t[i]
  BY <1>2, JoinBytes, Zenon
<1>5. 1 \in 1 .. Len(w) /\ 2 \in 1 .. Len(w)
  BY <1>2
<1>6. (w \o t)[1] = a /\ (w \o t)[2] = b
  BY <1>2, <1>4, <1>5
<1> QED BY <1>1, <1>2, <1>3, <1>4, <1>6

LEMMA OctetsAreNat == \A x \in Octets : x \in Nat
BY DEF Octets

LEMMA ShortIs ==
    ASSUME NEW data \in Seq(Octets), NEW p \in Nat, p + 2 <= Len(data)
    PROVE  Short(data, p) \in Nat
<1>1. data[p + 1] \in Octets /\ data[p + 2] \in Octets /\ (p + 1) + 1 = p + 2
  OBVIOUS
<1>2. data[p + 1] \in Nat /\ data[p + 2] \in Nat
  BY <1>1, OctetsAreNat, Zenon
<1>3. Short(data, p) = 256 * data[p + 1] + data[p + 2]
  BY <1>1 DEF Short, Byte
<1> QED BY <1>2, <1>3

\* The loop over a list of names.
NameStop(data) ==
    {p \in Nat : \/ p + 3 >= Len(data) \/ p + 3 + Short(data, p + 1) > Len(data)
                 \/ Byte(data, p) = 0}

NameAt(data) ==
    [p \in Nat |-> IF p + 3 >= Len(data) \/ p + 3 + Short(data, p + 1) > Len(data) THEN NoName
                   ELSE SubSeq(data, p + 4, p + 3 + Copied(Short(data, p + 1)))]

NameNext(data) == [p \in Nat |-> p + 3 + Short(data, p + 1)]

LEMMA NamesWalk ==
    ASSUME NEW data \in Seq(Octets)
    PROVE  \E f : /\ Walks(f, NameStop(data), NameAt(data), NameNext(data))
                  /\ parse_server_name_extension(data) = f[2]
<1> DEFINE Steps(f) ==
               [pos \in Nat |->
                   IF pos + 3 >= Len(data) THEN NoName
                   ELSE IF pos + 3 + Short(data, pos + 1) > Len(data) THEN NoName
                   ELSE IF Byte(data, pos) = 0
                   THEN SubSeq(data, pos + 4, pos + 3 + Copied(Short(data, pos + 1)))
                   ELSE f[pos + 3 + Short(data, pos + 1)]]
           from == CHOOSE f : f = Steps(f)
           Stop == NameStop(data)
           v == NameAt(data)
           next == NameNext(data)
<1>1. parse_server_name_extension(data) = from[2]
  BY Zenon DEF parse_server_name_extension
<1>2. ASSUME NEW f PROVE Steps(f) = [p \in Nat |-> IF p \in Stop THEN v[p] ELSE f[next[p]]]
  <2> SUFFICES ASSUME NEW p \in Nat
               PROVE  (IF p + 3 >= Len(data) THEN NoName
                       ELSE IF p + 3 + Short(data, p + 1) > Len(data) THEN NoName
                       ELSE IF Byte(data, p) = 0
                       THEN SubSeq(data, p + 4, p + 3 + Copied(Short(data, p + 1)))
                       ELSE f[p + 3 + Short(data, p + 1)])
                      = IF p \in Stop THEN v[p] ELSE f[next[p]]
    BY Zenon
  <2>1. p \in Stop <=> \/ p + 3 >= Len(data) \/ p + 3 + Short(data, p + 1) > Len(data)
                       \/ Byte(data, p) = 0
    BY Zenon DEF NameStop
  <2>2. v[p] = IF p + 3 >= Len(data) \/ p + 3 + Short(data, p + 1) > Len(data) THEN NoName
               ELSE SubSeq(data, p + 4, p + 3 + Copied(Short(data, p + 1)))
    BY Zenon DEF NameAt
  <2>3. next[p] = p + 3 + Short(data, p + 1)
    BY Zenon DEF NameNext
  <2> HIDE DEF Stop, v, next
  <2> QED BY <2>1, <2>2, <2>3, Zenon
<1> HIDE DEF Steps
<1>3. \A p \in Nat : p \notin Stop => p < Len(data) /\ next[p] \in Nat /\ next[p] > p
  <2> SUFFICES ASSUME NEW p \in Nat, p \notin Stop
               PROVE  p < Len(data) /\ next[p] \in Nat /\ next[p] > p
    OBVIOUS
  <2>1. ~(p + 3 >= Len(data)) /\ next[p] = p + 3 + Short(data, p + 1)
    BY Zenon DEF NameStop, NameNext
  <2>2. Len(data) \in Nat
    OBVIOUS
  <2>3. p + 1 \in Nat /\ (p + 1) + 2 <= Len(data)
    BY <2>1, <2>2
  <2>4. Short(data, p + 1) \in Nat
    BY <2>3, ShortIs
  <2> HIDE DEF next
  <2> QED BY <2>1, <2>2, <2>4
<1> HIDE DEF Stop, v, next
<1>4. \E f : Walks(f, Stop, v, next)
  <2>1. Len(data) \in Nat
    OBVIOUS
  <2> QED BY <1>3, <2>1, WalkExists
<1>5. \E f : f = Steps(f)
  BY <1>2, <1>4, Zenon DEF Walks
<1>6. from = Steps(from)
  BY <1>5, Zenon
<1> HIDE DEF from
<1>7. Walks(from, Stop, v, next)
  BY <1>2, <1>6, Zenon DEF Walks
<1> QED BY <1>1, <1>7, Zenon DEF Stop, v, next

LEMMA SizedLen ==
    ASSUME NEW t \in Seq(Octets)
    PROVE  Len(Sized(t)) = 2 + Len(t)
<1> DEFINE a == Len(t) \div 256
           b == Len(t) % 256
<1>1. a \in Nat /\ b \in Nat
  OBVIOUS
<1>2. t \in Seq(Nat)
  BY OctetsAreNat
<1> HIDE DEF a, b
<1>3. Len(<<a, b>> \o t) = 2 + Len(t)
  BY <1>1, <1>2
<1> QED BY <1>3, Zenon DEF Sized, a, b

Named == [type : Octets, name : Seq(Octets)]

\* s is an entry of a list of names, octet by octet.
Coded(s, type, name) ==
    /\ s \in Seq(Octets) /\ Len(s) = 3 + Len(name)
    /\ s[1] = type /\ 256 * s[2] + s[3] = Len(name)
    /\ \A i \in 1 .. Len(name) : s[3 + i] = name[i]

LEMMA EntryCoded ==
    \A type \in Octets, name \in Seq(Octets) :
        Sizable(name) => Coded(<<type>> \o Sized(name), type, name)
<1> SUFFICES ASSUME NEW type \in Octets, NEW name \in Seq(Octets), Sizable(name)
             PROVE  Coded(<<type>> \o Sized(name), type, name)
  BY Zenon
<1> DEFINE w == <<type>>
           z == Sized(name)
           s == w \o z
<1>1. /\ z \in Seq(Octets) /\ Len(z) = 2 + Len(name) /\ Len(name) \in Nat
      /\ 256 * z[1] + z[2] = Len(name)
      /\ \A i \in 1 .. Len(name) : z[2 + i] = name[i]
  <2>1. Len(name) <= Longest
    BY Zenon DEF Sizable
  <2>2. Len(name) \in Nat
    OBVIOUS
  <2> QED BY <2>1, <2>2, SizedIs
<1>2. w \in Seq(Octets) /\ Len(w) = 1 /\ w[1] = type
  OBVIOUS
<1>3. s = w \o z
  BY Zenon
<1> HIDE DEF w, z, s
<1>4. /\ s \in Seq(Octets) /\ Len(s) = Len(w) + Len(z)
      /\ \A i \in 1 .. Len(w) : s[i] = w[i]
      /\ \A i \in 1 .. Len(z) : s[Len(w) + i] = z[i]
  <2>1. Joined(w \o z, w, z)
    BY <1>1, <1>2, JoinedBytes, Zenon
  <2> QED BY <1>3, <2>1, Zenon DEF Joined
<1>5. s[1] = type
  BY <1>2, <1>4
<1>6. \A i \in 1 .. 2 + Len(name) : s[1 + i] = z[i]
  BY <1>1, <1>2, <1>4
<1>7. s[2] = z[1] /\ s[3] = z[2]
  <2>1. 1 \in 1 .. 2 + Len(name) /\ 2 \in 1 .. 2 + Len(name) /\ 1 + 1 = 2 /\ 1 + 2 = 3
    BY <1>1
  <2> QED BY <1>6, <2>1
<1>8. \A i \in 1 .. Len(name) : s[3 + i] = name[i]
  <2> SUFFICES ASSUME NEW i \in 1 .. Len(name) PROVE s[3 + i] = name[i]
    OBVIOUS
  <2>1. 2 + i \in 1 .. 2 + Len(name) /\ 1 + (2 + i) = 3 + i
    BY <1>1
  <2> QED BY <1>1, <1>6, <2>1
<1>9. Coded(s, type, name)
  BY <1>1, <1>2, <1>4, <1>5, <1>7, <1>8 DEF Coded
<1> QED BY <1>9 DEF s, w, z

\* off[i] is where entry i of a list of names ends in data.
Listed(data, names, off) ==
    /\ data \in Seq(Octets)
    /\ off[0] = 2 /\ off[Len(names)] = Len(data)
    /\ \A i \in 1 .. Len(names) :
        /\ off[i - 1] \in Nat /\ off[i] = off[i - 1] + 3 + Len(names[i].name) /\ off[i] <= Len(data)
        /\ data[off[i - 1] + 1] = names[i].type
        /\ Short(data, off[i - 1] + 1) = Len(names[i].name)
        /\ \A j \in 1 .. Len(names[i].name) : data[off[i - 1] + 3 + j] = names[i].name[j]

LEMMA NamesLaid ==
    ASSUME NEW names \in Seq(Named), Listing(names)
    PROVE  \E off : Listed(Names(names), names, off)
<1> DEFINE m == Len(names)
           ss == [i \in DOMAIN names |-> <<names[i].type>> \o Sized(names[i].name)]
           data == Names(names)
<1>1. m \in Nat /\ DOMAIN names = 1 .. m
  OBVIOUS
<1>2. \A i \in 1 .. m : /\ names[i].type \in Octets /\ names[i].name \in Seq(Octets)
                        /\ Sizable(names[i].name)
  <2>1. \A i \in 1 .. m : names[i] \in Named
    OBVIOUS
  <2>2. \A i \in 1 .. m : Sizable(names[i].name)
    BY <1>1, Zenon DEF Listing
  <2>3. \A x \in Named : x.type \in Octets /\ x.name \in Seq(Octets)
    BY DEF Named
  <2> QED BY <2>1, <2>2, <2>3, Zenon
<1>3. \A i \in 1 .. m : /\ ss[i] \in Seq(Octets) /\ Len(ss[i]) = 3 + Len(names[i].name)
                        /\ ss[i][1] = names[i].type /\ 256 * ss[i][2] + ss[i][3] = Len(names[i].name)
                        /\ \A j \in 1 .. Len(names[i].name) : ss[i][3 + j] = names[i].name[j]
  <2> SUFFICES ASSUME NEW i \in 1 .. m
               PROVE  /\ ss[i] \in Seq(Octets) /\ Len(ss[i]) = 3 + Len(names[i].name)
                      /\ ss[i][1] = names[i].type /\ 256 * ss[i][2] + ss[i][3] = Len(names[i].name)
                      /\ \A j \in 1 .. Len(names[i].name) : ss[i][3 + j] = names[i].name[j]
    BY Zenon
  <2>1. ss[i] = <<names[i].type>> \o Sized(names[i].name)
    BY <1>1, Zenon
  <2> HIDE DEF ss, m
  <2>2. Coded(<<names[i].type>> \o Sized(names[i].name), names[i].type, names[i].name)
    BY <1>2, EntryCoded, Zenon
  <2>3. Coded(ss[i], names[i].type, names[i].name)
    BY <2>1, <2>2, Zenon
  <2> QED BY <2>3, Zenon DEF Coded
<1>4. data = Sized(FlattenSeq(ss))
  BY Zenon DEF Names
<1>5. ss \in Seq(Seq(Octets)) /\ Len(ss) = m
  <2>1. ss = [i \in 1 .. m |-> ss[i]]
    BY <1>1, Zenon
  <2>2. \A i \in 1 .. m : ss[i] \in Seq(Octets)
    BY <1>3
  <2> HIDE DEF ss, m
  <2> QED BY <1>1, <2>1, <2>2
<1> HIDE DEF ss, data, m
<1>6. PICK e : Pieces(Octets, e, ss)
  BY <1>5, FlattenIs
<1> DEFINE E == e[m]
           off == [i \in 0 .. m |-> 2 + Len(e[i])]
<1>7. E \in Seq(Octets) /\ E = FlattenSeq(ss) /\ e[0] = <<>> /\ 0 \in 0 .. m /\ m \in 0 .. m
  BY <1>1, <1>5, <1>6 DEF Pieces
<1>8. \A i \in 1 .. m : /\ e[i] \in Seq(Octets) /\ e[i - 1] \in Seq(Octets)
                        /\ Len(e[i]) = Len(e[i - 1]) + Len(ss[i]) /\ Len(e[i]) <= Len(E)
                        /\ \A j \in 1 .. Len(ss[i]) : E[Len(e[i - 1]) + j] = ss[i][j]
  <2>1. \A i \in 1 .. Len(ss) : Placed(e, ss, i)
    BY <1>5, <1>6, PieceAt
  <2> QED BY <1>5, <2>1, Zenon DEF Placed
<1> HIDE DEF E
<1>9. Len(E) <= Longest
  <2>1. Len(Sized(E)) <= Longest
    BY <1>4, <1>7, Zenon DEF Listing, Sizable, data
  <2>2. Len(E) \in Nat /\ Len(Sized(E)) = 2 + Len(E)
    BY <1>7, SizedLen
  <2> QED BY <2>1, <2>2 DEF Longest
<1>10. /\ data \in Seq(Octets) /\ Len(data) = 2 + Len(E) /\ Len(E) \in Nat
       /\ \A k \in 1 .. Len(E) : data[2 + k] = E[k]
  <2>1. Len(E) \in Nat
    BY <1>7
  <2> QED BY <1>4, <1>7, <1>9, <2>1, SizedIs
<1>11. off[0] = 2 /\ off[m] = Len(data)
  <2>1. Len(e[0]) = 0
    BY <1>7
  <2>2. off[0] = 2 + Len(e[0]) /\ off[m] = 2 + Len(e[m])
    BY <1>7, Zenon
  <2> QED BY <1>10, <2>1, <2>2 DEF E
<1>12. ASSUME NEW i \in 1 .. m
       PROVE  /\ off[i - 1] \in Nat /\ off[i] = off[i - 1] + 3 + Len(names[i].name)
              /\ off[i] <= Len(data)
              /\ data[off[i - 1] + 1] = names[i].type
              /\ Short(data, off[i - 1] + 1) = Len(names[i].name)
              /\ \A j \in 1 .. Len(names[i].name) : data[off[i - 1] + 3 + j] = names[i].name[j]
  <2> DEFINE b == Len(e[i - 1])
             n == Len(names[i].name)
             s == ss[i]
  <2>1. i \in 0 .. m /\ i - 1 \in 0 .. m
    BY <1>1
  <2>2. off[i - 1] = 2 + b /\ off[i] = 2 + Len(e[i])
    BY <2>1, Zenon
  <2> HIDE DEF off
  <2>3. b \in Nat /\ n \in Nat /\ Len(s) = 3 + n /\ Len(e[i]) = b + (3 + n) /\ Len(e[i]) <= Len(E)
    <3>1. names[i].name \in Seq(Octets) /\ e[i - 1] \in Seq(Octets)
      BY <1>2, <1>8
    <3>2. n \in Nat /\ b \in Nat
      BY <3>1
    <3> QED BY <1>3, <1>8, <3>2
  <2>4. \A j \in 1 .. 3 + n : data[2 + (b + j)] = s[j]
    <3> SUFFICES ASSUME NEW j \in 1 .. 3 + n PROVE data[2 + (b + j)] = s[j]
      OBVIOUS
    <3>1. E[b + j] = s[j]
      BY <1>8, <2>3
    <3>2. b + j \in 1 .. Len(E)
      <4>1. b \in Nat /\ n \in Nat /\ b + (3 + n) <= Len(E) /\ Len(E) \in Nat
        BY <1>10, <2>3
      <4> HIDE DEF b, n, s
      <4> QED BY <4>1
    <3> DEFINE k == b + j
    <3>3. data[2 + k] = E[k]
      BY <1>10, <3>2, Zenon
    <3> QED BY <3>1, <3>3, Zenon
  <2>5. /\ s[1] = names[i].type /\ 256 * s[2] + s[3] = n
        /\ \A j \in 1 .. n : s[3 + j] = names[i].name[j]
    BY <1>3
  <2> HIDE DEF b, n, s
  <2>6. /\ 1 \in 1 .. 3 + n /\ 2 \in 1 .. 3 + n /\ 3 \in 1 .. 3 + n
        /\ 2 + (b + 1) = (2 + b) + 1 /\ 2 + (b + 2) = ((2 + b) + 1) + 1
        /\ 2 + (b + 3) = (((2 + b) + 1) + 1) + 1
    BY <2>3
  <2>7. /\ data[(2 + b) + 1] = s[1] /\ data[((2 + b) + 1) + 1] = s[2]
        /\ data[(((2 + b) + 1) + 1) + 1] = s[3]
    BY <2>4, <2>6
  <2>8. Short(data, (2 + b) + 1) = n
    <3>1. Short(data, (2 + b) + 1) = 256 * data[((2 + b) + 1) + 1] + data[(((2 + b) + 1) + 1) + 1]
      BY Zenon DEF Short, Byte
    <3> QED BY <2>5, <2>7, <3>1
  <2>9. \A j \in 1 .. n : data[(2 + b) + 3 + j] = names[i].name[j]
    <3> SUFFICES ASSUME NEW j \in 1 .. n PROVE data[(2 + b) + 3 + j] = names[i].name[j]
      OBVIOUS
    <3>1. 3 + j \in 1 .. 3 + n /\ 2 + (b + (3 + j)) = (2 + b) + 3 + j
      BY <2>3
    <3> QED BY <2>4, <2>5, <3>1
  <2>10. off[i - 1] \in Nat /\ off[i] = off[i - 1] + 3 + n /\ off[i] <= Len(data)
    BY <1>10, <2>2, <2>3
  <2> QED BY <2>2, <2>5, <2>7, <2>8, <2>9, <2>10 DEF n
<1> HIDE DEF off
<1>13. Listed(data, names, off)
  BY <1>10, <1>11, <1>12, Zenon DEF Listed, m
<1> QED BY <1>13 DEF data

\* What is cut out is what stands there.
LEMMA CutIs ==
    ASSUME NEW data \in Seq(Octets), NEW t \in Seq(Octets), NEW a \in Nat,
           a + Len(t) <= Len(data), \A j \in 1 .. Len(t) : data[a + j] = t[j]
    PROVE  SubSeq(data, a + 1, a + Len(t)) = t
<1> DEFINE u == SubSeq(data, a + 1, a + Len(t))
<1>1. Len(t) \in Nat /\ Len(data) \in Nat
  OBVIOUS
<1>2. u \in Seq(Octets) /\ Len(u) = Len(t) /\ \A j \in 1 .. Len(t) : u[j] = data[a + j]
  <2>1. \A j \in 1 .. Len(t) : u[j] = data[(a + 1) + j - 1]
    BY <1>1
  <2>2. \A j \in 1 .. Len(t) : (a + 1) + j - 1 = a + j
    BY <1>1
  <2>3. u \in Seq(Octets) /\ Len(u) = Len(t)
    BY <1>1
  <2> HIDE DEF u
  <2> QED BY <2>1, <2>2, <2>3
<1> HIDE DEF u
<1>3. u = t
  BY <1>2
<1> QED BY <1>3 DEF u

OfHosts(names) == {i \in DOMAIN names : names[i].type = 0}

NameOf(names) == [i \in DOMAIN names |-> names[i].name]

\* What the loop does with an entry.
LEMMA NameStep ==
    ASSUME NEW names \in Seq(Named), NEW data, NEW off, Listed(data, names, off),
           \A i \in 1 .. Len(names) : names[i].type = 0 => Len(names[i].name) <= FQDN_MAX
    PROVE  \A i \in 1 .. Len(names) :
               Visited(off, NameStop(data), NameAt(data), NameNext(data),
                       OfHosts(names), NameOf(names), Len(names), i)
<1> SUFFICES ASSUME NEW i \in 1 .. Len(names)
             PROVE  Visited(off, NameStop(data), NameAt(data), NameNext(data),
                            OfHosts(names), NameOf(names), Len(names), i)
  BY Zenon
<1> DEFINE m == Len(names)
           p == off[i - 1]
           t == names[i].name
           type == names[i].type
           n == Len(t)
<1>1. m \in Nat /\ data \in Seq(Octets) /\ Len(data) \in Nat
  <2>1. data \in Seq(Octets)
    BY Zenon DEF Listed
  <2> QED BY <2>1
<1>2. /\ p \in Nat /\ off[i] = p + 3 + n /\ off[i] <= Len(data)
      /\ data[p + 1] = type /\ Short(data, p + 1) = n
      /\ \A j \in 1 .. n : data[p + 3 + j] = t[j]
  BY Zenon DEF Listed
<1>3. t \in Seq(Octets) /\ type \in Octets /\ n \in Nat
  <2>1. names[i] \in Named
    OBVIOUS
  <2>2. \A x \in Named : x.type \in Octets /\ x.name \in Seq(Octets)
    BY DEF Named
  <2>3. t \in Seq(Octets) /\ type \in Octets
    BY <2>1, <2>2, Zenon
  <2> HIDE DEF t, type
  <2> QED BY <2>3
<1>4. off[i] = Len(data) => i = m
  <2> SUFFICES ASSUME off[i] = Len(data), i # m PROVE FALSE
    OBVIOUS
  <2>1. i + 1 \in 1 .. m /\ (i + 1) - 1 = i
    OBVIOUS
  <2>2. /\ off[i + 1] = off[i] + 3 + Len(names[i + 1].name) /\ off[i + 1] <= Len(data)
    BY <2>1, Zenon DEF Listed
  <2>3. Len(names[i + 1].name) \in Nat
    <3>1. names[i + 1] \in Named
      BY <2>1
    <3>2. \A x \in Named : x.name \in Seq(Octets)
      BY DEF Named
    <3> QED BY <3>1, <3>2
  <2> DEFINE k == Len(names[i + 1].name)
             x == off[i + 1]
             z == Len(data)
  <2>4. x = z + 3 + k /\ x <= z /\ k \in Nat /\ z \in Nat
    BY <1>1, <2>2, <2>3, Zenon
  <2> HIDE DEF k, x, z
  <2> QED BY <2>4
<1> HIDE DEF p, t, type, n, m
<1>5. p \in NameStop(data) <=> p + 3 >= Len(data) \/ type = 0
  <2>1. p \in NameStop(data) <=> \/ p + 3 >= Len(data) \/ p + 3 + Short(data, p + 1) > Len(data)
                                 \/ data[p + 1] = 0
    BY <1>2, Zenon DEF NameStop, Byte
  <2>2. ~(p + 3 + n > Len(data))
    BY <1>1, <1>2, <1>3
  <2> QED BY <1>2, <2>1, <2>2, Zenon
<1>6. NameNext(data)[p] = off[i]
  BY <1>2, Zenon DEF NameNext
<1>7. type = 0 => Copied(n) = n
  <2> SUFFICES ASSUME type = 0 PROVE Copied(n) = n
    OBVIOUS
  <2>1. n <= FQDN_MAX
    BY Zenon DEF n, t, type
  <2> QED BY <1>3, <2>1 DEF Copied, FQDN_MAX
<1>8. (i \in OfHosts(names) <=> type = 0) /\ NameOf(names)[i] = t
  <2>1. DOMAIN names = 1 .. m
    BY DEF m
  <2>2. i \in DOMAIN names
    BY <2>1 DEF m
  <2> QED BY <2>2, Zenon DEF OfHosts, NameOf, t, type
<1>9. CASE p + 3 >= Len(data)
  <2>1. n = 0 /\ off[i] = Len(data)
    BY <1>1, <1>2, <1>3, <1>9
  <2>2. t = NoName
    <3>1. t \in Seq(Octets) /\ Len(t) = 0
      BY <1>3, <2>1 DEF n
    <3> QED BY <3>1 DEF NoName
  <2>3. NameAt(data)[p] = NoName
    BY <1>2, <1>9, Zenon DEF NameAt
  <2>4. off[i] \in Nat /\ i = m
    BY <1>1, <1>4, <2>1
  <2> QED BY <1>2, <1>5, <1>6, <1>8, <1>9, <2>2, <2>3, <2>4, Zenon DEF Visited, p, m
<1>10. CASE ~(p + 3 >= Len(data))
  <2>1. NameAt(data)[p] = SubSeq(data, p + 4, p + 3 + Copied(n))
    <3>1. ~(p + 3 + n > Len(data))
      BY <1>1, <1>2, <1>3
    <3> QED BY <1>2, <1>10, <3>1, Zenon DEF NameAt
  <2> DEFINE a == p + 3
  <2>2. a \in Nat /\ p + 4 = a + 1 /\ a + Len(t) <= Len(data)
    BY <1>2 DEF n
  <2>3. \A j \in 1 .. Len(t) : data[a + j] = t[j]
    BY <1>2 DEF n
  <2>4. SubSeq(data, a + 1, a + Len(t)) = t
    <3> HIDE DEF a
    <3> QED BY <1>1, <1>3, <2>2, <2>3, CutIs
  <2>5. type = 0 => NameAt(data)[p] = t
    BY <1>7, <2>1, <2>2, <2>4, Zenon DEF n
  <2>6. off[i] \in Nat
    BY <1>1, <1>2, <1>3
  <2> QED BY <1>2, <1>5, <1>6, <1>8, <1>10, <2>5, <2>6, Zenon DEF Visited, p, m
<1> QED BY <1>9, <1>10

\* The name that is found in a list of names is the first host name.
LEMMA NamesParsed ==
    ASSUME NEW names \in Seq(Named), Listing(names)
    PROVE  parse_server_name_extension(Names(names)) = HostName(names)
<1> DEFINE m == Len(names)
           data == Names(names)
           Stop == NameStop(data)
           v == NameAt(data)
           next == NameNext(data)
<1>1. PICK off : Listed(data, names, off)
  BY NamesLaid
<1> HIDE DEF data
<1>2. data \in Seq(Octets) /\ off[0] = 2 /\ off[m] = Len(data)
  BY <1>1, Zenon DEF Listed
<1>3. m \in Nat /\ Len(data) \in Nat
  BY <1>2
<1>4. PICK f : Walks(f, Stop, v, next) /\ parse_server_name_extension(data) = f[2]
  BY <1>2, NamesWalk, Zenon
<1>5. \A i \in 1 .. m : Visited(off, Stop, v, next, OfHosts(names), NameOf(names), m, i)
  <2>1. DOMAIN names = 1 .. m
    OBVIOUS
  <2>2. \A i \in 1 .. m : names[i].type = 0 => Len(names[i].name) <= FQDN_MAX
    BY <2>1, Zenon DEF Listing
  <2> QED BY <1>1, <2>2, NameStep
<1>6. off[m] \in Nat /\ off[m] \in Stop /\ v[off[m]] = NoName
  <2>1. off[m] + 3 >= Len(data) /\ off[m] \in Nat
    BY <1>2, <1>3
  <2> QED BY <2>1, Zenon DEF NameStop, NameAt
<1> HIDE DEF Stop, v, next
<1>7. OfHosts(names) \in SUBSET (1 .. m)
  BY DEF OfHosts
<1> HIDE DEF m
<1>8. f[off[0]] = IF OfHosts(names) = {} THEN NoName ELSE NameOf(names)[Min(OfHosts(names))]
  <2>1. Finds(f, off, OfHosts(names), NameOf(names))
    BY <1>3, <1>4, <1>5, <1>6, <1>7, FirstOnWalk
  <2> QED BY <2>1, Zenon DEF Finds
<1>9. CASE OfHosts(names) = {}
  BY <1>2, <1>4, <1>8, <1>9, Zenon DEF HostName, OfHosts, data
<1>10. CASE OfHosts(names) # {}
  <2>1. Min(OfHosts(names)) \in DOMAIN names
    <3>1. \E i \in OfHosts(names) : \A j \in OfHosts(names) : i <= j
      <4>1. OfHosts(names) \in SUBSET Nat
        BY <1>7
      <4> QED BY <1>10, <4>1, LeastExists
    <3>2. PICK i \in OfHosts(names) : \A j \in OfHosts(names) : i <= j
      BY <3>1
    <3>3. OfHosts(names) \in SUBSET Int
      BY <1>7
    <3>4. Min(OfHosts(names)) = i
      BY <3>2, <3>3, MinIs
    <3> QED BY <3>2, <3>4, Zenon DEF OfHosts
  <2>2. NameOf(names)[Min(OfHosts(names))] = names[Min(OfHosts(names))].name
    BY <2>1, Zenon DEF NameOf
  <2>3. HostName(names) = names[Min(OfHosts(names))].name
    BY <1>10, Zenon DEF HostName, OfHosts
  <2> QED BY <1>2, <1>4, <1>8, <1>10, <2>2, <2>3, Zenon DEF data
<1> QED BY <1>9, <1>10

\* An extension, octet by octet.
Content(e) == IF e.type = 0 THEN Names(e.names) ELSE Filler(e.len)

Plain == [type : Octets \ {0}, len : 0 .. Longest]

Lists == [type : {0}, names : Seq(Named)]

Laid(s, type, content) ==
    /\ s \in Seq(Octets) /\ Len(s) = 4 + Len(content)
    /\ 256 * s[1] + s[2] = type /\ 256 * s[3] + s[4] = Len(content)
    /\ \A i \in 1 .. Len(content) : s[4 + i] = content[i]

LEMMA LongestIs == Longest \in Nat
BY DEF Longest

LEMMA FillerIs == \A n \in Nat : Filler(n) \in Seq(Octets) /\ Len(Filler(n)) = n
<1>1. 7 \in Octets
  BY DEF Octets
<1> SUFFICES ASSUME NEW n \in Nat PROVE Filler(n) \in Seq(Octets) /\ Len(Filler(n)) = n
  OBVIOUS
<1> QED BY <1>1 DEF Filler

LEMMA ExtensionLaid ==
    \A type \in Octets, content \in Seq(Octets) :
        Len(content) <= Longest => Laid(<<0, type>> \o Sized(content), type, content)
<1> SUFFICES ASSUME NEW type \in Octets, NEW content \in Seq(Octets), Len(content) <= Longest
             PROVE  Laid(<<0, type>> \o Sized(content), type, content)
  BY Zenon
<1> DEFINE w == <<0, type>>
           z == Sized(content)
           s == w \o z
<1>1. /\ z \in Seq(Octets) /\ Len(z) = 2 + Len(content) /\ Len(content) \in Nat
      /\ 256 * z[1] + z[2] = Len(content)
      /\ \A i \in 1 .. Len(content) : z[2 + i] = content[i]
  <2>1. Len(content) \in Nat
    OBVIOUS
  <2> QED BY <2>1, SizedIs
<1>2. w \in Seq(Octets) /\ Len(w) = 2 /\ w[1] = 0 /\ w[2] = type /\ type \in Nat
  BY DEF Octets
<1>3. s = w \o z
  BY Zenon
<1> HIDE DEF w, z, s
<1>4. /\ s \in Seq(Octets) /\ Len(s) = Len(w) + Len(z)
      /\ \A i \in 1 .. Len(w) : s[i] = w[i]
      /\ \A i \in 1 .. Len(z) : s[Len(w) + i] = z[i]
  <2>1. Joined(w \o z, w, z)
    BY <1>1, <1>2, JoinedBytes, Zenon
  <2> QED BY <1>3, <2>1, Zenon DEF Joined
<1>5. 256 * s[1] + s[2] = type
  BY <1>2, <1>4
<1>6. \A i \in 1 .. 2 + Len(content) : s[2 + i] = z[i]
  BY <1>1, <1>2, <1>4
<1>7. s[3] = z[1] /\ s[4] = z[2]
  <2>1. 1 \in 1 .. 2 + Len(content) /\ 2 \in 1 .. 2 + Len(content) /\ 2 + 1 = 3 /\ 2 + 2 = 4
    BY <1>1
  <2> QED BY <1>6, <2>1
<1>8. \A i \in 1 .. Len(content) : s[4 + i] = content[i]
  <2> SUFFICES ASSUME NEW i \in 1 .. Len(content) PROVE s[4 + i] = content[i]
    OBVIOUS
  <2>1. 2 + i \in 1 .. 2 + Len(content) /\ 2 + (2 + i) = 4 + i
    BY <1>1
  <2> QED BY <1>1, <1>6, <2>1
<1>9. Laid(s, type, content)
  BY <1>1, <1>2, <1>4, <1>5, <1>7, <1>8 DEF Laid
<1> QED BY <1>9 DEF s, w, z

\* What is sent of an extension fits behind its length.
Fitting(e) ==
    /\ e.type \in Octets /\ Content(e) \in Seq(Octets) /\ Len(Content(e)) \in 0 .. Longest
    /\ Laid(Extension(e), e.type, Content(e))

LEMMA ExtensionFits ==
    \A e \in Plain \cup Lists : (e.type = 0 => Listing(e.names)) => Fitting(e)
<1> SUFFICES ASSUME NEW e \in Plain \cup Lists, e.type = 0 => Listing(e.names)
             PROVE  Fitting(e)
  BY Zenon
<1>1. CASE e \in Plain
  <2>1. e.type \in Octets /\ e.type # 0 /\ e.len \in Nat /\ e.len <= Longest
    <3>1. \A x \in Plain : x.type \in Octets /\ x.type # 0 /\ x.len \in 0 .. Longest
      BY Zenon DEF Plain
    <3>2. e.len \in 0 .. Longest
      BY <1>1, <3>1
    <3>3. e.len \in Nat /\ e.len <= Longest
      BY <3>2, LongestIs
    <3> QED BY <1>1, <3>1, <3>3, Zenon
  <2>2. Content(e) = Filler(e.len) /\ Extension(e) = <<0, e.type>> \o Sized(Content(e))
    BY <2>1, Zenon DEF Content, Extension
  <2>3. Content(e) \in Seq(Octets) /\ Len(Content(e)) = e.len
    BY <2>1, <2>2, FillerIs, Zenon
  <2>4. Len(Content(e)) \in 0 .. Longest /\ Len(Content(e)) <= Longest
    BY <2>1, <2>3, LongestIs
  <2>5. Laid(<<0, e.type>> \o Sized(Content(e)), e.type, Content(e))
    BY <2>1, <2>3, <2>4, ExtensionLaid, Zenon
  <2> QED BY <2>1, <2>2, <2>3, <2>4, <2>5, Zenon DEF Fitting
<1>2. CASE e \in Lists
  <2>1. e.type = 0 /\ Listing(e.names)
    <3>1. \A x \in Lists : x.type = 0
      BY Zenon DEF Lists
    <3> QED BY <1>2, <3>1, Zenon
  <2>2. Content(e) = Names(e.names) /\ Extension(e) = <<0, 0>> \o Sized(Content(e))
    BY <2>1, Zenon DEF Content, Extension
  <2>3. Content(e) \in Seq(Octets) /\ Len(Content(e)) <= Longest
    BY <2>1, <2>2, Zenon DEF Listing, Sizable
  <2>4. Len(Content(e)) \in 0 .. Longest
    <3> DEFINE c == Content(e)
    <3>1. c \in Seq(Octets) /\ Len(c) <= Longest
      BY <2>3
    <3> HIDE DEF c
    <3>2. Len(c) \in 0 .. Longest
      BY <3>1, LongestIs
    <3> QED BY <3>2 DEF c
  <2>5. 0 \in Octets
    BY DEF Octets
  <2>6. Laid(<<0, 0>> \o Sized(Content(e)), 0, Content(e))
    BY <2>3, <2>5, ExtensionLaid, Zenon
  <2> QED BY <2>1, <2>2, <2>3, <2>4, <2>5, <2>6, Zenon DEF Fitting
<1> QED BY <1>1, <1>2

\* off[i] is where extension i ends in data.
Extends(data, extensions, off) ==
    /\ data \in Seq(Octets)
    /\ off[0] = 0 /\ off[Len(extensions)] = Len(data)
    /\ \A i \in 1 .. Len(extensions) :
        /\ off[i - 1] \in Nat /\ off[i] = off[i - 1] + 4 + Len(Content(extensions[i]))
        /\ off[i] <= Len(data)
        /\ Short(data, off[i - 1]) = extensions[i].type
        /\ Short(data, off[i - 1] + 2) = Len(Content(extensions[i]))
        /\ \A j \in 1 .. Len(Content(extensions[i])) :
              data[off[i - 1] + 4 + j] = Content(extensions[i])[j]

AllOf(extensions) == FlattenSeq([i \in DOMAIN extensions |-> Extension(extensions[i])])

LEMMA ExtensionsLaid ==
    ASSUME NEW extensions \in Seq(Plain \cup Lists),
           \A i \in 1 .. Len(extensions) : Fitting(extensions[i])
    PROVE  \E off : Extends(AllOf(extensions), extensions, off)
<1> DEFINE m == Len(extensions)
           ss == [i \in DOMAIN extensions |-> Extension(extensions[i])]
           data == AllOf(extensions)
<1>1. m \in Nat /\ DOMAIN extensions = 1 .. m
  OBVIOUS
<1>2. \A i \in 1 .. m : /\ Laid(ss[i], extensions[i].type, Content(extensions[i]))
                        /\ Len(Content(extensions[i])) \in Nat
  <2> SUFFICES ASSUME NEW i \in 1 .. m
               PROVE  /\ Laid(ss[i], extensions[i].type, Content(extensions[i]))
                      /\ Len(Content(extensions[i])) \in Nat
    BY Zenon
  <2>1. ss[i] = Extension(extensions[i])
    BY <1>1, Zenon
  <2>2. /\ Content(extensions[i]) \in Seq(Octets)
        /\ Laid(Extension(extensions[i]), extensions[i].type, Content(extensions[i]))
    BY Zenon DEF Fitting
  <2> HIDE DEF ss
  <2>3. Len(Content(extensions[i])) \in Nat
    BY <2>2
  <2> QED BY <2>1, <2>2, <2>3, Zenon
<1>3. ss \in Seq(Seq(Octets)) /\ Len(ss) = m
  <2>1. ss = [i \in 1 .. m |-> ss[i]]
    BY <1>1, Zenon
  <2>2. \A i \in 1 .. m : ss[i] \in Seq(Octets)
    <3> HIDE DEF ss
    <3> QED BY <1>2, Zenon DEF Laid
  <2> HIDE DEF ss, m
  <2> QED BY <1>1, <2>1, <2>2
<1>4. data = FlattenSeq(ss)
  BY Zenon DEF AllOf
<1> HIDE DEF ss, data, m
<1>5. PICK e : Pieces(Octets, e, ss)
  BY <1>3, FlattenIs
<1> DEFINE off == [i \in 0 .. m |-> Len(e[i])]
<1>6. /\ data \in Seq(Octets) /\ data = e[m] /\ e[0] = <<>> /\ 0 \in 0 .. m /\ m \in 0 .. m
      /\ Len(data) \in Nat
  <2>1. data \in Seq(Octets) /\ data = e[m] /\ e[0] = <<>> /\ 0 \in 0 .. m /\ m \in 0 .. m
    BY <1>1, <1>3, <1>4, <1>5 DEF Pieces
  <2> QED BY <2>1
<1>7. \A i \in 1 .. m : /\ e[i] \in Seq(Octets) /\ e[i - 1] \in Seq(Octets)
                        /\ Len(e[i]) = Len(e[i - 1]) + Len(ss[i]) /\ Len(e[i]) <= Len(data)
                        /\ \A j \in 1 .. Len(ss[i]) : data[Len(e[i - 1]) + j] = ss[i][j]
  <2>1. \A i \in 1 .. Len(ss) : Placed(e, ss, i)
    BY <1>3, <1>5, PieceAt
  <2> QED BY <1>3, <1>6, <2>1, Zenon DEF Placed
<1>8. off[0] = 0 /\ off[m] = Len(data)
  <2>1. Len(e[0]) = 0
    BY <1>6
  <2>2. off[0] = Len(e[0]) /\ off[m] = Len(e[m])
    BY <1>6, Zenon
  <2> QED BY <1>6, <2>1, <2>2, Zenon
<1>9. ASSUME NEW i \in 1 .. m
      PROVE  /\ off[i - 1] \in Nat /\ off[i] = off[i - 1] + 4 + Len(Content(extensions[i]))
             /\ off[i] <= Len(data)
             /\ Short(data, off[i - 1]) = extensions[i].type
             /\ Short(data, off[i - 1] + 2) = Len(Content(extensions[i]))
             /\ \A j \in 1 .. Len(Content(extensions[i])) :
                   data[off[i - 1] + 4 + j] = Content(extensions[i])[j]
  <2> DEFINE b == Len(e[i - 1])
             c == Content(extensions[i])
             n == Len(c)
             s == ss[i]
  <2>1. i \in 0 .. m /\ i - 1 \in 0 .. m
    BY <1>1
  <2>2. off[i - 1] = b /\ off[i] = Len(e[i])
    BY <2>1, Zenon
  <2> HIDE DEF off
  <2>3. /\ Len(s) = 4 + n /\ n \in Nat
        /\ 256 * s[1] + s[2] = extensions[i].type /\ 256 * s[3] + s[4] = n
        /\ \A j \in 1 .. n : s[4 + j] = c[j]
    BY <1>2, Zenon DEF Laid
  <2>4. b \in Nat /\ Len(e[i]) = b + Len(s) /\ Len(e[i]) <= Len(data)
    <3>1. e[i - 1] \in Seq(Octets)
      BY <1>7
    <3>2. b \in Nat
      BY <3>1
    <3> QED BY <1>7, <3>2
  <2>5. \A j \in 1 .. 4 + n : data[b + j] = s[j]
    BY <1>7, <2>3, Zenon
  <2> HIDE DEF b, c, n, s
  <2>6. /\ 1 \in 1 .. 4 + n /\ 2 \in 1 .. 4 + n /\ 3 \in 1 .. 4 + n /\ 4 \in 1 .. 4 + n
        /\ b + 2 = (b + 1) + 1 /\ b + 3 = (b + 2) + 1 /\ b + 4 = ((b + 2) + 1) + 1
    BY <2>3, <2>4
  <2>7. /\ data[b + 1] = s[1] /\ data[(b + 1) + 1] = s[2]
        /\ data[(b + 2) + 1] = s[3] /\ data[((b + 2) + 1) + 1] = s[4]
    BY <2>5, <2>6
  <2>8. Short(data, b) = extensions[i].type /\ Short(data, b + 2) = n
    <3>1. /\ Short(data, b) = 256 * data[b + 1] + data[(b + 1) + 1]
          /\ Short(data, b + 2) = 256 * data[(b + 2) + 1] + data[((b + 2) + 1) + 1]
      BY Zenon DEF Short, Byte
    <3> QED BY <2>3, <2>7, <3>1, Zenon
  <2>9. \A j \in 1 .. n : data[b + 4 + j] = c[j]
    <3> SUFFICES ASSUME NEW j \in 1 .. n PROVE data[b + 4 + j] = c[j]
      OBVIOUS
    <3>1. 4 + j \in 1 .. 4 + n /\ b + (4 + j) = b + 4 + j
      BY <2>3, <2>4
    <3> QED BY <2>3, <2>5, <3>1
  <2>10. off[i - 1] \in Nat /\ off[i] = off[i - 1] + 4 + n /\ off[i] <= Len(data)
    BY <2>2, <2>3, <2>4
  <2> QED BY <2>2, <2>8, <2>9, <2>10, Zenon DEF n, c
<1> HIDE DEF off
<1>10. Extends(data, extensions, off)
  BY <1>6, <1>8, <1>9, Zenon DEF Extends, m
<1> QED BY <1>10 DEF data

\* The loop over the extensions.
ExtensionStop(data) == {p \in Nat : p + 4 > Len(data) \/ Short(data, p) = 0}

ExtensionAt(data) ==
    [p \in Nat |-> IF p + 4 > Len(data) \/ p + 4 + Short(data, p + 2) > Len(data) THEN NoName
                   ELSE parse_server_name_extension(
                            SubSeq(data, p + 5, p + 4 + Short(data, p + 2)))]

ExtensionNext(data) == [p \in Nat |-> p + 4 + Short(data, p + 2)]

LEMMA ExtensionsWalk ==
    ASSUME NEW data \in Seq(Octets)
    PROVE  \E f : /\ Walks(f, ExtensionStop(data), ExtensionAt(data), ExtensionNext(data))
                  /\ parse_extensions(data) = f[0]
<1> DEFINE Steps(f) ==
               [pos \in Nat |->
                   IF pos + 4 > Len(data) THEN NoName
                   ELSE IF Short(data, pos) # 0 THEN f[pos + 4 + Short(data, pos + 2)]
                   ELSE IF pos + 4 + Short(data, pos + 2) > Len(data) THEN NoName
                   ELSE parse_server_name_extension(
                            SubSeq(data, pos + 5, pos + 4 + Short(data, pos + 2)))]
           from == CHOOSE f : f = Steps(f)
           Stop == ExtensionStop(data)
           v == ExtensionAt(data)
           next == ExtensionNext(data)
<1>1. parse_extensions(data) = from[0]
  BY Zenon DEF parse_extensions
<1>2. ASSUME NEW f PROVE Steps(f) = [p \in Nat |-> IF p \in Stop THEN v[p] ELSE f[next[p]]]
  <2> SUFFICES ASSUME NEW p \in Nat
               PROVE  (IF p + 4 > Len(data) THEN NoName
                       ELSE IF Short(data, p) # 0 THEN f[p + 4 + Short(data, p + 2)]
                       ELSE IF p + 4 + Short(data, p + 2) > Len(data) THEN NoName
                       ELSE parse_server_name_extension(
                                SubSeq(data, p + 5, p + 4 + Short(data, p + 2))))
                      = IF p \in Stop THEN v[p] ELSE f[next[p]]
    BY Zenon
  <2>1. p \in Stop <=> p + 4 > Len(data) \/ Short(data, p) = 0
    BY Zenon DEF ExtensionStop
  <2>2. v[p] = IF p + 4 > Len(data) \/ p + 4 + Short(data, p + 2) > Len(data) THEN NoName
               ELSE parse_server_name_extension(
                        SubSeq(data, p + 5, p + 4 + Short(data, p + 2)))
    BY Zenon DEF ExtensionAt
  <2>3. next[p] = p + 4 + Short(data, p + 2)
    BY Zenon DEF ExtensionNext
  <2> HIDE DEF Stop, v, next
  <2> QED BY <2>1, <2>2, <2>3, Zenon
<1> HIDE DEF Steps
<1>3. \A p \in Nat : p \notin Stop => p < Len(data) /\ next[p] \in Nat /\ next[p] > p
  <2> SUFFICES ASSUME NEW p \in Nat, p \notin Stop
               PROVE  p < Len(data) /\ next[p] \in Nat /\ next[p] > p
    OBVIOUS
  <2>1. ~(p + 4 > Len(data)) /\ next[p] = p + 4 + Short(data, p + 2)
    BY Zenon DEF ExtensionStop, ExtensionNext
  <2>2. Len(data) \in Nat
    OBVIOUS
  <2>3. p + 2 \in Nat /\ (p + 2) + 2 <= Len(data)
    BY <2>1, <2>2
  <2>4. Short(data, p + 2) \in Nat
    BY <2>3, ShortIs
  <2> HIDE DEF next
  <2> QED BY <2>1, <2>2, <2>4
<1> HIDE DEF Stop, v, next
<1>4. \E f : Walks(f, Stop, v, next)
  <2>1. Len(data) \in Nat
    OBVIOUS
  <2> QED BY <1>3, <2>1, WalkExists
<1>5. \E f : f = Steps(f)
  BY <1>2, <1>4, Zenon DEF Walks
<1>6. from = Steps(from)
  BY <1>5, Zenon
<1> HIDE DEF from
<1>7. Walks(from, Stop, v, next)
  BY <1>2, <1>6, Zenon DEF Walks
<1> QED BY <1>1, <1>7, Zenon DEF Stop, v, next

NameLists(extensions) == {i \in DOMAIN extensions : extensions[i].type = 0}

FoundIn(extensions) == [i \in DOMAIN extensions |-> HostName(extensions[i].names)]

\* What the loop does with an extension.
LEMMA ExtensionStep ==
    ASSUME NEW extensions \in Seq(Plain \cup Lists),
           \A i \in 1 .. Len(extensions) : Fitting(extensions[i]),
           \A i \in 1 .. Len(extensions) :
               extensions[i].type = 0 => Listing(extensions[i].names),
           NEW data, NEW off, Extends(data, extensions, off)
    PROVE  \A i \in 1 .. Len(extensions) :
               Visited(off, ExtensionStop(data), ExtensionAt(data), ExtensionNext(data),
                       NameLists(extensions), FoundIn(extensions), Len(extensions), i)
<1> SUFFICES ASSUME NEW i \in 1 .. Len(extensions)
             PROVE  Visited(off, ExtensionStop(data), ExtensionAt(data), ExtensionNext(data),
                            NameLists(extensions), FoundIn(extensions), Len(extensions), i)
  BY Zenon
<1> DEFINE m == Len(extensions)
           p == off[i - 1]
           t == Content(extensions[i])
           type == extensions[i].type
           n == Len(t)
<1>1. m \in Nat /\ data \in Seq(Octets) /\ Len(data) \in Nat
  <2>1. data \in Seq(Octets)
    BY Zenon DEF Extends
  <2> QED BY <2>1
<1>2. /\ p \in Nat /\ off[i] = p + 4 + n /\ off[i] <= Len(data)
      /\ Short(data, p) = type /\ Short(data, p + 2) = n
      /\ \A j \in 1 .. n : data[p + 4 + j] = t[j]
  BY Zenon DEF Extends
<1>3. t \in Seq(Octets) /\ type \in Octets
  BY Zenon DEF Fitting
<1>4. n \in Nat
  <2> HIDE DEF t
  <2> QED BY <1>3
<1>5. /\ i \in NameLists(extensions) <=> type = 0
      /\ FoundIn(extensions)[i] = HostName(extensions[i].names)
  <2>1. DOMAIN extensions = 1 .. m
    OBVIOUS
  <2>2. i \in DOMAIN extensions
    BY <2>1
  <2> QED BY <2>2, Zenon DEF NameLists, FoundIn
<1>6. type = 0 => /\ extensions[i].names \in Seq(Named) /\ t = Names(extensions[i].names)
                  /\ Listing(extensions[i].names)
  <2>1. extensions[i] \in Plain \cup Lists
    OBVIOUS
  <2>2. \A x \in Plain \cup Lists : x.type = 0 => x.names \in Seq(Named)
    <3>1. \A x \in Plain : x.type # 0
      BY Zenon DEF Plain
    <3>2. \A x \in Lists : x.names \in Seq(Named)
      BY Zenon DEF Lists
    <3> QED BY <3>1, <3>2, Zenon
  <2> QED BY <2>1, <2>2, Zenon DEF Content
<1> HIDE DEF p, t, type, n, m
<1>7. ~(p + 4 > Len(data)) /\ ~(p + 4 + n > Len(data))
  BY <1>1, <1>2, <1>4
<1>8. p \in ExtensionStop(data) <=> type = 0
  BY <1>2, <1>7, Zenon DEF ExtensionStop
<1>9. ExtensionNext(data)[p] = off[i]
  BY <1>2, Zenon DEF ExtensionNext
<1>10. ExtensionAt(data)[p] = parse_server_name_extension(SubSeq(data, p + 5, p + 4 + n))
  BY <1>2, <1>7, Zenon DEF ExtensionAt
<1>11. SubSeq(data, p + 5, p + 4 + n) = t
  <2> DEFINE a == p + 4
  <2>1. a \in Nat /\ p + 5 = a + 1 /\ a + Len(t) <= Len(data)
    BY <1>2 DEF n
  <2>2. \A j \in 1 .. Len(t) : data[a + j] = t[j]
    BY <1>2 DEF n
  <2>3. SubSeq(data, a + 1, a + Len(t)) = t
    <3> HIDE DEF a
    <3> QED BY <1>1, <1>3, <2>1, <2>2, CutIs
  <2> QED BY <2>1, <2>3, Zenon DEF n
<1>12. type = 0 => ExtensionAt(data)[p] = HostName(extensions[i].names)
  BY <1>6, <1>10, <1>11, NamesParsed
<1> QED BY <1>2, <1>5, <1>8, <1>9, <1>12, Zenon DEF Visited, p, m

\* The name that is found in the extensions is that of the first list of names.
LEMMA ExtensionsParsed ==
    ASSUME NEW extensions \in Seq(Plain \cup Lists),
           \A i \in 1 .. Len(extensions) :
               extensions[i].type = 0 => Listing(extensions[i].names)
    PROVE  /\ AllOf(extensions) \in Seq(Octets)
           /\ parse_extensions(AllOf(extensions)) =
                  IF NameLists(extensions) = {} THEN NoName
                  ELSE HostName(extensions[Min(NameLists(extensions))].names)
<1> DEFINE m == Len(extensions)
           data == AllOf(extensions)
           Stop == ExtensionStop(data)
           v == ExtensionAt(data)
           next == ExtensionNext(data)
           wanted == NameLists(extensions)
<1>1. \A i \in 1 .. m : Fitting(extensions[i])
  <2> SUFFICES ASSUME NEW i \in 1 .. m PROVE Fitting(extensions[i])
    BY Zenon
  <2>1. extensions[i] \in Plain \cup Lists
    OBVIOUS
  <2> QED BY <2>1, ExtensionFits, Zenon
<1>2. PICK off : Extends(data, extensions, off)
  BY <1>1, ExtensionsLaid
<1> HIDE DEF data
<1>3. data \in Seq(Octets) /\ off[0] = 0 /\ off[m] = Len(data)
  BY <1>2, Zenon DEF Extends
<1>4. m \in Nat /\ Len(data) \in Nat
  BY <1>3
<1>5. PICK f : Walks(f, Stop, v, next) /\ parse_extensions(data) = f[0]
  BY <1>3, ExtensionsWalk, Zenon
<1>6. \A i \in 1 .. m : Visited(off, Stop, v, next, wanted, FoundIn(extensions), m, i)
  BY <1>1, <1>2, ExtensionStep
<1>7. off[m] \in Nat /\ off[m] \in Stop /\ v[off[m]] = NoName
  <2>1. off[m] + 4 > Len(data) /\ off[m] \in Nat
    BY <1>3, <1>4
  <2> QED BY <2>1, Zenon DEF ExtensionStop, ExtensionAt
<1> HIDE DEF Stop, v, next
<1>8. wanted \in SUBSET (1 .. m) /\ \A i \in wanted : i \in DOMAIN extensions
  BY DEF NameLists
<1> HIDE DEF m, wanted
<1>9. f[off[0]] = IF wanted = {} THEN NoName ELSE FoundIn(extensions)[Min(wanted)]
  <2>1. Finds(f, off, wanted, FoundIn(extensions))
    BY <1>4, <1>5, <1>6, <1>7, <1>8, FirstOnWalk
  <2> QED BY <2>1, Zenon DEF Finds
<1>10. wanted # {} => Min(wanted) \in DOMAIN extensions
  <2> SUFFICES ASSUME wanted # {} PROVE Min(wanted) \in DOMAIN extensions
    OBVIOUS
  <2>1. wanted \in SUBSET Nat /\ wanted \in SUBSET Int
    BY <1>8
  <2>2. PICK i \in wanted : \A j \in wanted : i <= j
    BY <2>1, LeastExists
  <2>3. Min(wanted) = i
    BY <2>1, <2>2, MinIs
  <2> QED BY <1>8, <2>2, <2>3, Zenon
<1>11. wanted # {} => FoundIn(extensions)[Min(wanted)] = HostName(extensions[Min(wanted)].names)
  BY <1>10, Zenon DEF FoundIn
<1>12. f[0] = IF wanted = {} THEN NoName ELSE HostName(extensions[Min(wanted)].names)
  BY <1>3, <1>9, <1>11, Zenon
<1> QED BY <1>3, <1>5, <1>12, Zenon DEF data, wanted

\* A hello up to its extensions, and the extensions.
Prelude(hello) ==
    Filler(FIXED_LEN - 1) \o <<hello.id>> \o Filler(hello.id)
    \o Sized(Filler(hello.ciphers)) \o <<hello.methods>> \o Filler(hello.methods)

Trailer(hello) == IF hello.bare THEN <<>> ELSE Sized(AllOf(hello.extensions))

\* b has a session id of i octets, c octets of ciphers and n of methods.
Counted(b, i, c, n) ==
    /\ b \in Seq(Octets) /\ Len(b) = 41 + i + c + n
    /\ b[38] = i /\ 256 * b[39 + i] + b[40 + i] = c /\ b[41 + i + c] = n

LEMMA PreludeIs ==
    ASSUME NEW hello, hello.id \in Octets, hello.methods \in Octets, hello.ciphers \in 0 .. Longest
    PROVE  Counted(Prelude(hello), hello.id, hello.ciphers, hello.methods)
<1> DEFINE i == hello.id
           c == hello.ciphers
           n == hello.methods
           w == Sized(Filler(c))
           b1 == Filler(37) \o <<i>>
           b2 == b1 \o Filler(i)
           b3 == b2 \o w
           b4 == b3 \o <<n>>
           b5 == b4 \o Filler(n)
<1>1. Prelude(hello) = b5
  <2>1. FIXED_LEN - 1 = 37
    BY DEF FIXED_LEN
  <2> QED BY <2>1, Zenon DEF Prelude
<1>2. i \in Octets /\ i \in Nat /\ n \in Octets /\ n \in Nat /\ c \in Nat /\ c <= Longest
  <2>1. \A x \in 0 .. Longest : x \in Nat /\ x <= Longest
    BY LongestIs
  <2> QED BY <2>1, OctetsAreNat, Zenon
<1> HIDE DEF i, c, n
<1>3. /\ Filler(37) \in Seq(Octets) /\ Len(Filler(37)) = 37
      /\ Filler(i) \in Seq(Octets) /\ Len(Filler(i)) = i
      /\ Filler(n) \in Seq(Octets) /\ Len(Filler(n)) = n
      /\ Filler(c) \in Seq(Octets) /\ Len(Filler(c)) = c
  <2>1. 37 \in Nat
    OBVIOUS
  <2> QED BY <1>2, <2>1, FillerIs, Zenon
<1>4. w \in Seq(Octets) /\ Len(w) = 2 + c /\ 256 * w[1] + w[2] = c
  <2>1. Len(Filler(c)) <= Longest
    BY <1>2, <1>3
  <2>2. /\ w \in Seq(Octets) /\ Len(w) = 2 + Len(Filler(c))
        /\ 256 * w[1] + w[2] = Len(Filler(c))
    BY <1>3, <2>1, SizedIs
  <2> HIDE DEF w
  <2> QED BY <1>3, <2>2
<1>5. /\ <<i>> \in Seq(Octets) /\ Len(<<i>>) = 1 /\ <<i>>[1] = i
      /\ <<n>> \in Seq(Octets) /\ Len(<<n>>) = 1 /\ <<n>>[1] = n
  BY <1>2
<1> HIDE DEF w
<1>6. b1 \in Seq(Octets) /\ Len(b1) = 38 /\ b1[38] = i
  <2>1. Joined(b1, Filler(37), <<i>>)
    BY <1>3, <1>5, JoinedBytes, Zenon
  <2> HIDE DEF b1
  <2>2. b1 \in Seq(Octets) /\ Len(b1) = Len(Filler(37)) + Len(<<i>>)
        /\ \A j \in 1 .. Len(<<i>>) : b1[Len(Filler(37)) + j] = <<i>>[j]
    BY <2>1, Zenon DEF Joined
  <2>3. \A j \in 1 .. 1 : b1[37 + j] = <<i>>[j]
    BY <1>3, <1>5, <2>2, Zenon
  <2>4. 1 \in 1 .. 1 /\ 37 + 1 = 38
    OBVIOUS
  <2>5. b1[38] = i
    BY <1>5, <2>3, <2>4, Zenon
  <2>6. Len(b1) = 38
    <3>1. Len(b1) = 37 + 1
      BY <1>3, <1>5, <2>2, Zenon
    <3> QED BY <3>1
  <2> QED BY <2>2, <2>5, <2>6
<1> HIDE DEF b1
<1>7. b2 \in Seq(Octets) /\ Len(b2) = 38 + i /\ b2[38] = i
  <2>1. Joined(b2, b1, Filler(i))
    BY <1>3, <1>6, JoinedBytes, Zenon
  <2> HIDE DEF b2
  <2>2. 38 \in 1 .. Len(b1)
    BY <1>6
  <2>3. b2 \in Seq(Octets) /\ Len(b2) = 38 + i /\ b2[38] = b1[38]
    BY <1>3, <1>6, <2>1, <2>2, Zenon DEF Joined
  <2> QED BY <1>6, <2>3
<1> HIDE DEF b2
<1>8. b3 \in Seq(Octets) /\ Len(b3) = 40 + i + c /\ b3[38] = i /\ 256 * b3[39 + i] + b3[40 + i] = c
  <2>1. Joined(b3, b2, w)
    BY <1>4, <1>7, JoinedBytes, Zenon
  <2> HIDE DEF b3
  <2>2. 38 \in 1 .. Len(b2) /\ 1 \in 1 .. Len(w) /\ 2 \in 1 .. Len(w)
    BY <1>2, <1>4, <1>7
  <2>3. /\ b3 \in Seq(Octets) /\ Len(b3) = (38 + i) + (2 + c) /\ b3[38] = b2[38]
        /\ b3[(38 + i) + 1] = w[1] /\ b3[(38 + i) + 2] = w[2]
    BY <1>4, <1>7, <2>1, <2>2, Zenon DEF Joined
  <2>4. /\ (38 + i) + (2 + c) = 40 + i + c
        /\ (38 + i) + 1 = 39 + i /\ (38 + i) + 2 = 40 + i
    BY <1>2
  <2>5. b3 \in Seq(Octets) /\ Len(b3) = 40 + i + c /\ b3[38] = i
    BY <1>7, <2>3, <2>4, Zenon
  <2>6. b3[39 + i] = w[1] /\ b3[40 + i] = w[2]
    BY <2>3, <2>4, Zenon
  <2>7. 256 * b3[39 + i] + b3[40 + i] = c
    BY <1>4, <2>6, Zenon
  <2> QED BY <2>5, <2>7, Zenon
<1> HIDE DEF b3
<1>9. /\ b4 \in Seq(Octets) /\ Len(b4) = 41 + i + c /\ b4[38] = i
      /\ 256 * b4[39 + i] + b4[40 + i] = c /\ b4[41 + i + c] = n
  <2>1. Joined(b4, b3, <<n>>)
    BY <1>5, <1>8, JoinedBytes, Zenon
  <2> HIDE DEF b4
  <2>2. /\ 38 \in 1 .. Len(b3) /\ 39 + i \in 1 .. Len(b3) /\ 40 + i \in 1 .. Len(b3)
        /\ 1 \in 1 .. 1 /\ (40 + i + c) + 1 = 41 + i + c
    BY <1>2, <1>8
  <2>3. /\ b4 \in Seq(Octets) /\ Len(b4) = Len(b3) + 1
        /\ \A j \in 1 .. Len(b3) : b4[j] = b3[j]
        /\ \A j \in 1 .. 1 : b4[Len(b3) + j] = <<n>>[j]
    BY <1>5, <2>1, Zenon DEF Joined
  <2>4. b4[38] = b3[38] /\ b4[39 + i] = b3[39 + i] /\ b4[40 + i] = b3[40 + i]
    BY <2>2, <2>3, Zenon
  <2>5. Len(b4) = 41 + i + c /\ b4[41 + i + c] = n
    <3>1. Len(b3) + 1 = 41 + i + c
      BY <1>8, <2>2, Zenon
    <3>2. b4[Len(b3) + 1] = <<n>>[1]
      BY <2>2, <2>3, Zenon
    <3> QED BY <1>5, <2>3, <3>1, <3>2, Zenon
  <2> QED BY <1>8, <2>3, <2>4, <2>5, Zenon
<1> HIDE DEF b4
<1>10. Counted(b5, i, c, n)
  <2>1. Joined(b5, b4, Filler(n))
    <3>1. b4 \in Seq(Octets) /\ Filler(n) \in Seq(Octets)
      BY <1>3, <1>9, Zenon
    <3> QED BY <3>1, JoinedBytes, Zenon
  <2> HIDE DEF b5
  <2>2. /\ 38 \in 1 .. Len(b4) /\ 39 + i \in 1 .. Len(b4) /\ 40 + i \in 1 .. Len(b4)
        /\ 41 + i + c \in 1 .. Len(b4)
    BY <1>2, <1>9
  <2>3. /\ b5 \in Seq(Octets) /\ Len(b5) = Len(b4) + n
        /\ \A j \in 1 .. Len(b4) : b5[j] = b4[j]
    BY <1>3, <2>1, Zenon DEF Joined
  <2>4. /\ b5[38] = b4[38] /\ b5[39 + i] = b4[39 + i] /\ b5[40 + i] = b4[40 + i]
        /\ b5[41 + i + c] = b4[41 + i + c]
    BY <2>2, <2>3, Zenon
  <2>5. Len(b5) = 41 + i + c + n
    BY <1>9, <2>3, Zenon
  <2> QED BY <1>9, <2>3, <2>4, <2>5, Zenon DEF Counted
<1> HIDE DEF b5
<1> QED BY <1>1, <1>10, Zenon DEF i, c, n

\* r is a record of a hello that is made of b and x.
Recorded(r, minor, b, x) ==
    /\ r \in Seq(Octets) /\ Len(r) = 6 + Len(b) + Len(x)
    /\ r[1] = HANDSHAKE /\ r[2] = 3 /\ r[3] = minor /\ r[6] = CLIENT_HELLO
    /\ 256 * r[4] + r[5] = 1 + Len(b) + Len(x)
    /\ \A j \in 1 .. Len(b) : r[6 + j] = b[j]
    /\ \A j \in 1 .. Len(x) : r[6 + Len(b) + j] = x[j]

LEMMA RecordIs ==
    ASSUME NEW b \in Seq(Octets), NEW x \in Seq(Octets), NEW minor \in Octets,
           1 + Len(b) + Len(x) <= Longest
    PROVE  Recorded(<<HANDSHAKE, 3, minor>> \o Sized(<<CLIENT_HELLO>> \o (b \o x)), minor, b, x)
<1> DEFINE u == b \o x
           o == <<CLIENT_HELLO>>
           q == o \o u
           w == <<HANDSHAKE, 3, minor>>
           z == Sized(q)
           r == w \o z
           k == Len(b)
           l == Len(x)
<1>1. k \in Nat /\ l \in Nat
  OBVIOUS
<1>2. /\ u \in Seq(Octets) /\ Len(u) = k + l
      /\ \A j \in 1 .. k : u[j] = b[j]
      /\ \A j \in 1 .. l : u[k + j] = x[j]
  <2>1. Joined(u, b, x)
    BY JoinedBytes, Zenon
  <2> QED BY <2>1, Zenon DEF Joined
<1>3. o \in Seq(Octets) /\ Len(o) = 1 /\ o[1] = CLIENT_HELLO
  BY DEF CLIENT_HELLO, Octets
<1>4. w \in Seq(Octets) /\ Len(w) = 3 /\ w[1] = HANDSHAKE /\ w[2] = 3 /\ w[3] = minor
  BY DEF HANDSHAKE, Octets
<1> HIDE DEF u, o, w, k, l
<1>5. q \in Seq(Octets) /\ Len(q) = 1 + k + l /\ q[1] = CLIENT_HELLO
      /\ \A j \in 1 .. k + l : q[1 + j] = u[j]
  <2>1. Joined(q, o, u)
    BY <1>2, <1>3, JoinedBytes, Zenon
  <2> HIDE DEF q
  <2>2. /\ q \in Seq(Octets) /\ Len(q) = 1 + (k + l)
        /\ \A j \in 1 .. 1 : q[j] = o[j]
        /\ \A j \in 1 .. k + l : q[1 + j] = u[j]
    BY <1>2, <1>3, <2>1, Zenon DEF Joined
  <2>3. 1 + (k + l) = 1 + k + l /\ 1 \in 1 .. 1
    BY <1>1
  <2> QED BY <1>3, <2>2, <2>3, Zenon
<1> HIDE DEF q
<1>6. /\ z \in Seq(Octets) /\ Len(z) = 2 + (1 + k + l)
      /\ 256 * z[1] + z[2] = 1 + k + l
      /\ \A j \in 1 .. 1 + k + l : z[2 + j] = q[j]
  <2>1. Len(q) <= Longest
    BY <1>5 DEF k, l
  <2>2. /\ Sized(q) \in Seq(Octets) /\ Len(Sized(q)) = 2 + Len(q)
        /\ 256 * Sized(q)[1] + Sized(q)[2] = Len(q)
        /\ \A j \in 1 .. Len(q) : Sized(q)[2 + j] = q[j]
    BY <1>5, <2>1, SizedIs
  <2> QED BY <1>5, <2>2, Zenon
<1> HIDE DEF z
<1>7. /\ r \in Seq(Octets) /\ Len(r) = 3 + (2 + (1 + k + l))
      /\ \A j \in 1 .. 3 : r[j] = w[j]
      /\ \A j \in 1 .. 2 + (1 + k + l) : r[3 + j] = z[j]
  <2>1. Joined(r, w, z)
    BY <1>4, <1>6, JoinedBytes, Zenon
  <2> QED BY <1>4, <1>6, <2>1, Zenon DEF Joined
<1> HIDE DEF r
<1>8. r[1] = HANDSHAKE /\ r[2] = 3 /\ r[3] = minor
  <2>1. 1 \in 1 .. 3 /\ 2 \in 1 .. 3 /\ 3 \in 1 .. 3
    OBVIOUS
  <2> QED BY <1>4, <1>7, <2>1, Zenon
<1>9. r[4] = z[1] /\ r[5] = z[2]
  <2>1. 1 \in 1 .. 2 + (1 + k + l) /\ 2 \in 1 .. 2 + (1 + k + l) /\ 3 + 1 = 4 /\ 3 + 2 = 5
    BY <1>1
  <2> QED BY <1>7, <2>1, Zenon
<1>10. \A j \in 1 .. 1 + k + l : r[5 + j] = q[j]
  <2> SUFFICES ASSUME NEW j \in 1 .. 1 + k + l PROVE r[5 + j] = q[j]
    BY Zenon
  <2>1. 2 + j \in 1 .. 2 + (1 + k + l) /\ 3 + (2 + j) = 5 + j
    BY <1>1
  <2> QED BY <1>6, <1>7, <2>1, Zenon
<1>11. r[6] = CLIENT_HELLO
  <2>1. 1 \in 1 .. 1 + k + l /\ 5 + 1 = 6
    BY <1>1
  <2> QED BY <1>5, <1>10, <2>1, Zenon
<1>12. \A j \in 1 .. k + l : r[6 + j] = u[j]
  <2> SUFFICES ASSUME NEW j \in 1 .. k + l PROVE r[6 + j] = u[j]
    BY Zenon
  <2>1. 1 + j \in 1 .. 1 + k + l /\ 5 + (1 + j) = 6 + j
    BY <1>1
  <2> QED BY <1>5, <1>10, <2>1, Zenon
<1>13. \A j \in 1 .. k : r[6 + j] = b[j]
  <2> SUFFICES ASSUME NEW j \in 1 .. k PROVE r[6 + j] = b[j]
    BY Zenon
  <2>1. j \in 1 .. k + l
    BY <1>1
  <2> QED BY <1>2, <1>12, <2>1, Zenon
<1>14. \A j \in 1 .. l : r[6 + k + j] = x[j]
  <2> SUFFICES ASSUME NEW j \in 1 .. l PROVE r[6 + k + j] = x[j]
    BY Zenon
  <2>1. k + j \in 1 .. k + l /\ 6 + (k + j) = 6 + k + j
    BY <1>1
  <2> QED BY <1>2, <1>12, <2>1, Zenon
<1>15. Len(r) = 6 + k + l
  BY <1>1, <1>7
<1>16. 256 * r[4] + r[5] = 1 + k + l
  BY <1>6, <1>9, Zenon
<1>17. Recorded(r, minor, b, x)
  BY <1>7, <1>8, <1>11, <1>13, <1>14, <1>15, <1>16, Zenon DEF Recorded, k, l
<1> QED BY <1>17 DEF r, w, z, q, o, u

\* The extensions that ClientHello allows are what the parsers are proved for.
LEMMA HelloType ==
    ASSUME NEW hello, ClientHello(hello)
    PROVE  /\ hello.minor \in Octets /\ hello.id \in Octets /\ hello.methods \in Octets
           /\ hello.ciphers \in 0 .. Longest /\ hello.ciphers \in Nat
           /\ hello.extensions \in Seq(Plain \cup Lists)
           /\ \A i \in 1 .. Len(hello.extensions) :
                  hello.extensions[i].type = 0 => Listing(hello.extensions[i].names)
           /\ Body(hello) = Prelude(hello) \o Trailer(hello)
           /\ Sizable(<<CLIENT_HELLO>> \o Body(hello))
<1>1. hello.extensions \in Seq(Plain \cup Lists)
  BY Zenon DEF ClientHello, Plain, Lists, Named
<1>2. DOMAIN hello.extensions = 1 .. Len(hello.extensions)
  BY <1>1
<1>3. \A i \in 1 .. Len(hello.extensions) :
          hello.extensions[i].type = 0 => Listing(hello.extensions[i].names)
  BY <1>2, Zenon DEF ClientHello
<1>4. Body(hello) = Prelude(hello) \o Trailer(hello)
  BY Zenon DEF Body, Prelude, Trailer, AllOf
<1>5. /\ hello.minor \in Octets /\ hello.id \in Octets /\ hello.methods \in Octets
      /\ hello.ciphers \in 0 .. Longest /\ Sizable(<<CLIENT_HELLO>> \o Body(hello))
  BY Zenon DEF ClientHello
<1>6. hello.ciphers \in Nat
  BY <1>5, LongestIs
<1> QED BY <1>1, <1>3, <1>4, <1>5, <1>6, Zenon

\* The length of what is joined, of numbers.
LEMMA LenOfBoth ==
    \A s, t \in Seq(Nat) : s \o t \in Seq(Nat) /\ Len(s \o t) = Len(s) + Len(t)
OBVIOUS

LEMMA OctetsFit == Seq(Octets) \subseteq Seq(Nat)
<1> SUFFICES ASSUME NEW s \in Seq(Octets) PROVE s \in Seq(Nat)
  OBVIOUS
<1> QED BY OctetsAreNat

\* A record that ClientHello allows has room for its extensions.
LEMMA TrailerFits ==
    ASSUME NEW hello, ClientHello(hello)
    PROVE  /\ Trailer(hello) \in Seq(Octets)
           /\ 1 + Len(Prelude(hello)) + Len(Trailer(hello)) <= Longest
           /\ ~hello.bare => /\ AllOf(hello.extensions) \in Seq(Octets)
                             /\ Len(AllOf(hello.extensions)) <= Longest
<1> DEFINE b == Prelude(hello)
           x == Trailer(hello)
           A == AllOf(hello.extensions)
           o == <<CLIENT_HELLO>>
<1>1. b \in Seq(Octets) /\ Len(b) \in Nat
  <2>1. b \in Seq(Octets)
    BY HelloType, PreludeIs, Zenon DEF Counted
  <2> HIDE DEF b
  <2> QED BY <2>1
<1>2. A \in Seq(Octets)
  BY HelloType, ExtensionsParsed
<1>3. ~hello.bare => x = Sized(A)
  BY Zenon DEF Trailer
<1>4. hello.bare => x = <<>>
  BY Zenon DEF Trailer
<1>5. o \in Seq(Nat) /\ Len(o) = 1
  BY DEF CLIENT_HELLO
<1>6. Sizable(o \o (b \o x))
  BY HelloType, Zenon
<1> HIDE DEF b, x, A, o
<1>7. x \in Seq(Nat) /\ Len(x) \in Nat
  <2>1. CASE hello.bare
    BY <1>4, <2>1
  <2>2. CASE ~hello.bare
    <3> DEFINE c == Len(A) \div 256
               d == Len(A) % 256
    <3>1. <<c, d>> \in Seq(Nat)
      <4>1. c \in Nat /\ d \in Nat
        BY <1>2
      <4> HIDE DEF c, d
      <4> QED BY <4>1
    <3>2. x = <<c, d>> \o A
      BY <1>3, <2>2, Zenon DEF Sized
    <3> HIDE DEF c, d
    <3>3. A \in Seq(Nat)
      BY <1>2, OctetsFit, Zenon
    <3>4. x \in Seq(Nat)
      BY <3>1, <3>2, <3>3, LenOfBoth, Zenon
    <3> QED BY <3>4
  <2> QED BY <2>1, <2>2
<1>8. 1 + Len(b) + Len(x) <= Longest
  <2>1. b \in Seq(Nat)
    BY <1>1, OctetsFit, Zenon
  <2>2. b \o x \in Seq(Nat) /\ Len(b \o x) = Len(b) + Len(x)
    BY <1>7, <2>1, LenOfBoth, Zenon
  <2>3. Len(o \o (b \o x)) = Len(o) + Len(b \o x)
    BY <1>5, <2>2, LenOfBoth, Zenon
  <2>4. Len(o \o (b \o x)) <= Longest
    BY <1>6, Zenon DEF Sizable
  <2>5. Len(o \o (b \o x)) = 1 + (Len(b) + Len(x))
    BY <1>5, <2>2, <2>3, Zenon
  <2> HIDE DEF o
  <2> QED BY <1>1, <1>7, <2>4, <2>5
<1>9. ~hello.bare => Len(A) <= Longest
  <2> SUFFICES ASSUME ~hello.bare PROVE Len(A) <= Longest
    OBVIOUS
  <2>1. Len(x) = 2 + Len(A) /\ Len(A) \in Nat
    BY <1>2, <1>3, SizedLen
  <2> QED BY <1>1, <1>8, <2>1, LongestIs
<1>10. x \in Seq(Octets)
  <2>1. CASE hello.bare
    BY <1>4, <2>1
  <2>2. CASE ~hello.bare
    BY <1>2, <1>3, <1>9, <2>2, SizedIs
  <2> QED BY <2>1, <2>2
<1> QED BY <1>2, <1>8, <1>9, <1>10, Zenon DEF b, x, A

LEMMA RecordOf ==
    ASSUME NEW hello, ClientHello(hello)
    PROVE  Recorded(Record(hello), hello.minor, Prelude(hello), Trailer(hello))
<1>1. Prelude(hello) \in Seq(Octets)
  BY HelloType, PreludeIs, Zenon DEF Counted
<1>2. Recorded(<<HANDSHAKE, 3, hello.minor>>
                   \o Sized(<<CLIENT_HELLO>> \o (Prelude(hello) \o Trailer(hello))),
               hello.minor, Prelude(hello), Trailer(hello))
  BY <1>1, HelloType, TrailerFits, RecordIs
<1>3. Record(hello) = <<HANDSHAKE, 3, hello.minor>>
                          \o Sized(<<CLIENT_HELLO>> \o (Prelude(hello) \o Trailer(hello)))
  BY HelloType, Zenon DEF Record
<1> QED BY <1>2, <1>3, Zenon

\* A whole hello gives the name it asks for.
LEMMA HelloParsed ==
    ASSUME NEW hello, ClientHello(hello)
    PROVE  Hello(Record(hello)) = ServerName(hello)
<1> DEFINE r == Record(hello)
           b == Prelude(hello)
           x == Trailer(hello)
           i == hello.id
           c == hello.ciphers
           n == hello.methods
           l == Len(x)
           A == AllOf(hello.extensions)
<1>1. /\ b \in Seq(Octets) /\ Len(b) = 41 + i + c + n
      /\ b[38] = i /\ 256 * b[39 + i] + b[40 + i] = c /\ b[41 + i + c] = n
  BY HelloType, PreludeIs, Zenon DEF Counted
<1>2. i \in Nat /\ c \in Nat /\ n \in Nat
  BY HelloType, OctetsAreNat, Zenon
<1>3. x \in Seq(Octets) /\ l \in Nat
  <2>1. x \in Seq(Octets)
    BY TrailerFits
  <2> HIDE DEF x
  <2> QED BY <2>1
<1>4. /\ r \in Seq(Octets) /\ Len(r) = 6 + Len(b) + l
      /\ \A j \in 1 .. Len(b) : r[6 + j] = b[j]
      /\ \A j \in 1 .. l : r[6 + Len(b) + j] = x[j]
  BY RecordOf, Zenon DEF Recorded
<1>5. hello.bare => x = <<>>
  BY Zenon DEF Trailer
<1>6. ~hello.bare => x = Sized(A) /\ A \in Seq(Octets) /\ Len(A) <= Longest
  BY TrailerFits, Zenon DEF Trailer
<1>7. parse_extensions(A) = IF NameLists(hello.extensions) = {} THEN NoName
                            ELSE HostName(hello.extensions[Min(NameLists(hello.extensions))].names)
  BY HelloType, ExtensionsParsed
<1> HIDE DEF r, b, x, i, c, n, l, A
<1> DEFINE k == 41 + i + c + n
           pos == 6 + k
<1>8. /\ 38 \in 1 .. k /\ 39 + i \in 1 .. k /\ 40 + i \in 1 .. k /\ 41 + i + c \in 1 .. k
      /\ k \in Nat /\ pos \in Nat
  BY <1>2
<1>9. Len(b) = k
  BY <1>1
<1>10. /\ r[6 + 38] = i /\ r[6 + (39 + i)] = b[39 + i] /\ r[6 + (40 + i)] = b[40 + i]
       /\ r[6 + (41 + i + c)] = n
  <2> HIDE DEF k
  <2>1. \A j \in 1 .. k : r[6 + j] = b[j]
    BY <1>4, <1>9, Zenon
  <2>2. r[6 + 38] = b[38] /\ r[6 + (39 + i)] = b[39 + i] /\ r[6 + (40 + i)] = b[40 + i]
        /\ r[6 + (41 + i + c)] = b[41 + i + c]
    BY <1>8, <2>1, Zenon
  <2> QED BY <1>1, <2>2, Zenon
<1>11. Byte(r, 43) = i
  <2>1. 43 + 1 = 6 + 38
    OBVIOUS
  <2> QED BY <1>10, <2>1, Zenon DEF Byte
<1>12. Short(r, 44 + i) = c
  <2>1. (44 + i) + 1 = 6 + (39 + i) /\ ((44 + i) + 1) + 1 = 6 + (40 + i)
    BY <1>2
  <2> QED BY <1>1, <1>10, <2>1, Zenon DEF Byte, Short
<1>13. Byte(r, 46 + i + c) = n
  <2>1. (46 + i + c) + 1 = 6 + (41 + i + c)
    BY <1>2
  <2> QED BY <1>10, <2>1, Zenon DEF Byte
<1>14. Len(r) = pos + l
  BY <1>4, <1>9
<1>15. Hello(r) = Extensions(r, pos)
  <2> DEFINE id == TLS_HEADER_LEN + FIXED_LEN
             ciphers == id + 1 + Byte(r, id)
             methods == ciphers + 2 + Short(r, ciphers)
  <2>1. Hello(r) = IF id + 1 > Len(r) THEN NoName
                   ELSE IF ciphers + 2 > Len(r) THEN NoName
                   ELSE IF methods + 1 > Len(r) THEN NoName
                   ELSE Extensions(r, methods + 1 + Byte(r, methods))
    BY Zenon DEF Hello
  <2>2. id = 43
    BY DEF TLS_HEADER_LEN, FIXED_LEN
  <2> HIDE DEF id
  <2>3. ciphers = 44 + i
    <3>1. ciphers = 43 + 1 + i
      BY <1>11, <2>2, Zenon
    <3> QED BY <1>2, <3>1
  <2> HIDE DEF ciphers
  <2>4. methods = 46 + i + c
    <3>1. methods = (44 + i) + 2 + c
      BY <1>12, <2>3, Zenon
    <3> QED BY <1>2, <3>1
  <2> HIDE DEF methods
  <2>5. methods + 1 + Byte(r, methods) = pos
    <3>1. methods + 1 + Byte(r, methods) = (46 + i + c) + 1 + n
      BY <1>13, <2>4, Zenon
    <3> QED BY <1>2, <3>1
  <2>6. ~(id + 1 > Len(r)) /\ ~(ciphers + 2 > Len(r)) /\ ~(methods + 1 > Len(r))
    BY <1>2, <1>3, <1>14, <2>2, <2>3, <2>4
  <2> QED BY <2>1, <2>5, <2>6, Zenon
<1>16. CASE hello.bare
  <2>1. l = 0
    BY <1>5, <1>16 DEF l
  <2>2. pos + 2 > Len(r)
    BY <1>8, <1>14, <2>1
  <2>3. Extensions(r, pos) = NoName
    BY <2>2, Zenon DEF Extensions
  <2> QED BY <1>15, <1>16, <2>3, Zenon DEF ServerName, r
<1>17. CASE ~hello.bare
  <2> DEFINE a == pos + 2
  <2>1. /\ l = 2 + Len(A) /\ Len(A) \in Nat
        /\ 256 * x[1] + x[2] = Len(A) /\ \A j \in 1 .. Len(A) : x[2 + j] = A[j]
    BY <1>6, <1>17, SizedIs DEF l
  <2>2. \A j \in 1 .. l : r[pos + j] = x[j]
    BY <1>4, <1>9, Zenon
  <2> HIDE DEF pos
  <2>3. r[pos + 1] = x[1] /\ r[pos + 2] = x[2]
    <3>1. 1 \in 1 .. l /\ 2 \in 1 .. l
      BY <2>1
    <3> QED BY <2>2, <3>1, Zenon
  <2>4. Short(r, pos) = Len(A)
    <3>1. (pos + 1) + 1 = pos + 2
      BY <1>8
    <3> QED BY <2>1, <2>3, <3>1, Zenon DEF Short, Byte
  <2>5. a \in Nat /\ a + Len(A) = Len(r) /\ a + Len(A) <= Len(r) /\ pos + 3 = a + 1
    BY <1>8, <1>14, <2>1
  <2>6. \A j \in 1 .. Len(A) : r[a + j] = A[j]
    <3> SUFFICES ASSUME NEW j \in 1 .. Len(A) PROVE r[a + j] = A[j]
      BY Zenon
    <3>1. 2 + j \in 1 .. l /\ pos + (2 + j) = a + j
      BY <1>8, <2>1
    <3> QED BY <2>1, <2>2, <3>1, Zenon
  <2>7. ~(pos = Len(r)) /\ ~(pos + 2 > Len(r)) /\ ~(pos + 2 + Len(A) > Len(r))
    BY <1>8, <2>1, <2>5
  <2>8. SubSeq(r, a + 1, a + Len(A)) = A
    <3> HIDE DEF a
    <3> QED BY <1>4, <1>6, <1>17, <2>5, <2>6, CutIs
  <2>9. Extensions(r, pos) = parse_extensions(SubSeq(r, pos + 3, pos + 2 + Len(A)))
    BY <2>4, <2>7, Zenon DEF Extensions
  <2>10. Extensions(r, pos) = parse_extensions(A)
    BY <2>5, <2>8, <2>9, Zenon
  <2>11. ServerName(hello) = IF NameLists(hello.extensions) = {} THEN NoName
                             ELSE HostName(hello.extensions[Min(NameLists(hello.extensions))].names)
    BY <1>17, Zenon DEF ServerName, NameLists
  <2> QED BY <1>7, <1>15, <2>10, <2>11, Zenon DEF r
<1> QED BY <1>16, <1>17

\* parse_tls_header finds the first host name of a hello that came whole,
\* wherever among the extensions and the names it stands and whatever comes
\* after it; in a hello that did not, it finds nothing.
THEOREM NameFound ==
    ASSUME NEW hello, ClientHello(hello)
    PROVE  parse_tls_header(Sent(hello)) = IF hello.more < 0 THEN NoName ELSE ServerName(hello)
<1> DEFINE r == Record(hello)
           d == Sent(hello)
           k == hello.more
           m == Len(r)
<1>1. k \in Int /\ hello.minor \in Octets
  BY Zenon DEF ClientHello
<1>2. /\ r \in Seq(Octets) /\ m \in Nat /\ m >= 6
      /\ r[1] = HANDSHAKE /\ r[2] = 3 /\ r[3] = hello.minor /\ r[6] = CLIENT_HELLO
      /\ 256 * r[4] + r[5] + 5 = m
  <2> DEFINE b == Len(Prelude(hello))
             x == Len(Trailer(hello))
  <2>1. /\ r \in Seq(Octets) /\ m = 6 + b + x
        /\ r[1] = HANDSHAKE /\ r[2] = 3 /\ r[3] = hello.minor /\ r[6] = CLIENT_HELLO
        /\ 256 * r[4] + r[5] = 1 + b + x
    BY RecordOf, Zenon DEF Recorded
  <2>2. b \in Nat /\ x \in Nat
    <3>1. Prelude(hello) \in Seq(Octets) /\ Trailer(hello) \in Seq(Octets)
      BY HelloType, PreludeIs, TrailerFits, Zenon DEF Counted
    <3> QED BY <3>1
  <2> HIDE DEF b, x, r
  <2>3. m \in Nat /\ m >= 6 /\ 1 + b + x + 5 = m
    BY <2>1, <2>2
  <2> QED BY <2>1, <2>3, Zenon
<1>3. d = IF k < 0 THEN SubSeq(r, 1, m + k) ELSE r \o Filler(k)
  BY Zenon DEF Sent
<1>4. Hello(r) = ServerName(hello)
  BY HelloParsed
<1> HIDE DEF r, d, m
<1>5. CASE k < 0
  <2>1. d = SubSeq(r, 1, m + k)
    BY <1>3, <1>5, Zenon
  <2>2. CASE m + k < 5
    <3>1. Len(d) < 5
      BY <1>1, <1>2, <2>1, <2>2
    <3>2. parse_tls_header(d) = NoName
      <4>1. Len(d) < TLS_HEADER_LEN
        BY <3>1 DEF TLS_HEADER_LEN
      <4> QED BY <4>1, Zenon DEF parse_tls_header
    <3> QED BY <1>5, <3>2, Zenon DEF d
  <2>3. CASE ~(m + k < 5)
    <3>1. Len(d) = m + k /\ \A j \in 1 .. m + k : d[j] = r[j]
      BY <1>1, <1>2, <1>5, <2>1, <2>3
    <3>2. 4 \in 1 .. m + k /\ 5 \in 1 .. m + k /\ m + k < m
      BY <1>1, <1>2, <1>5, <2>3
    <3>3. d[4] = r[4] /\ d[5] = r[5]
      BY <3>1, <3>2, Zenon
    <3>4. Short(d, 3) + TLS_HEADER_LEN = m
      <4>1. 3 + 1 = 4 /\ 4 + 1 = 5 /\ TLS_HEADER_LEN = 5
        BY DEF TLS_HEADER_LEN
      <4>2. Short(d, 3) = 256 * r[4] + r[5]
        BY <3>3, <4>1, Zenon DEF Short, Byte
      <4> QED BY <1>2, <4>1, <4>2, Zenon
    <3>5. Len(d) < Short(d, 3) + TLS_HEADER_LEN
      BY <3>1, <3>2, <3>4, Zenon
    <3>6. parse_tls_header(d) = NoName
      BY <3>5, Zenon DEF parse_tls_header
    <3> QED BY <1>5, <3>6, Zenon DEF d
  <2> QED BY <2>2, <2>3
<1>6. CASE ~(k < 0)
  <2>1. Joined(d, r, Filler(k)) /\ Len(Filler(k)) \in Nat
    <3>1. k \in Nat
      BY <1>1, <1>6
    <3>2. Filler(k) \in Seq(Octets) /\ Len(Filler(k)) = k
      BY <3>1, FillerIs, Zenon
    <3>3. Joined(r \o Filler(k), r, Filler(k))
      BY <1>2, <3>2, JoinedBytes, Zenon
    <3> QED BY <1>3, <1>6, <3>1, <3>2, <3>3, Zenon
  <2>2. /\ d \in Seq(Octets) /\ Len(d) = m + Len(Filler(k))
        /\ \A j \in 1 .. m : d[j] = r[j]
    BY <2>1, Zenon DEF Joined, m
  <2>3. 1 \in 1 .. m /\ 2 \in 1 .. m /\ 3 \in 1 .. m /\ 4 \in 1 .. m /\ 5 \in 1 .. m /\ 6 \in 1 .. m
    BY <1>2
  <2>4. /\ d[1] = HANDSHAKE /\ d[2] = 3 /\ d[4] = r[4] /\ d[5] = r[5] /\ d[6] = CLIENT_HELLO
    BY <1>2, <2>2, <2>3, Zenon
  <2>5. /\ 0 + 1 = 1 /\ 1 + 1 = 2 /\ 3 + 1 = 4 /\ 4 + 1 = 5
        /\ TLS_HEADER_LEN + 1 = 6 /\ TLS_HEADER_LEN = 5
    BY DEF TLS_HEADER_LEN
  <2>6. Byte(d, 0) = HANDSHAKE /\ Byte(d, 1) = 3 /\ Byte(d, TLS_HEADER_LEN) = CLIENT_HELLO
    BY <2>4, <2>5, Zenon DEF Byte
  <2>7. Short(d, 3) + TLS_HEADER_LEN = m
    <3>1. Short(d, 3) = 256 * r[4] + r[5]
      BY <2>4, <2>5, Zenon DEF Short, Byte
    <3> QED BY <1>2, <2>5, <3>1, Zenon
  <2>8. SubSeq(d, 1, m) = r
    <3>1. 0 \in Nat /\ 0 + m = m /\ 0 + m <= Len(d) /\ 0 + 1 = 1
      BY <1>2, <2>1, <2>2
    <3>2. \A j \in 1 .. m : 0 + j = j
      BY <1>2
    <3>3. \A j \in 1 .. m : d[0 + j] = r[j]
      BY <2>2, <3>2
    <3>4. SubSeq(d, 0 + 1, 0 + m) = r
      BY <1>2, <2>2, <3>1, <3>3, CutIs DEF m
    <3> QED BY <3>1, <3>4, Zenon
  <2>9. ~(Len(d) < TLS_HEADER_LEN) /\ ~(Len(d) < m) /\ ~(TLS_HEADER_LEN + 1 > m)
    BY <1>2, <2>1, <2>2, <2>5
  <2>10. ~(HANDSHAKE >= 128) /\ ~(3 < 3)
    BY DEF HANDSHAKE
  <2>11. parse_tls_header(d) = Hello(SubSeq(d, 1, m))
    BY <2>6, <2>7, <2>9, <2>10, Zenon DEF parse_tls_header
  <2> QED BY <1>4, <1>6, <2>8, <2>11, Zenon DEF d, r
<1> QED BY <1>5, <1>6

-----------------------------------------------------------------------------
(***************************************************************************)
(* decode.                                                                 *)
(***************************************************************************)

LEMMA MaxIs ==
    ASSUME NEW S \in SUBSET Int, NEW m \in S, \A n \in S : n <= m
    PROVE  Max(S) = m
<1>1. \A x \in S : (\A y \in S : x >= y) => x = m
  OBVIOUS
<1>2. Max(S) \in S /\ \A y \in S : Max(S) >= y
  BY DEF Max
<1> QED BY <1>1, <1>2

\* s is an option, octet by octet.
Spelt(s, o) ==
    /\ s \in Seq(Octets) /\ Len(s) >= 1
    /\ o.kind = "end" <=> s[1] = 0
    /\ o.kind = "padding" <=> s[1] = 1
    /\ o.kind = "padding" => Len(s) = 1
    /\ s[1] \notin {0, 1} => s[2] = Len(s) /\ Len(s) >= 2
    /\ o.kind = "mss" <=> s[1] = 2
    /\ o.kind = "mss" => s[2] = 4 /\ Len(s) = 4 /\ 256 * s[3] + s[4] = o.value
    /\ o.kind = "scale" <=> s[1] = 3
    /\ o.kind = "scale" => s[2] = 3 /\ Len(s) = 3 /\ s[3] = o.value

LEMMA OptionSpelt ==
    \A o \in Offer : (o.kind = "other" => Len(o.bytes) <= 253) => Spelt(Encoded(o), o)
<1> SUFFICES ASSUME NEW o \in Offer, o.kind = "other" => Len(o.bytes) <= 253
             PROVE  Spelt(Encoded(o), o)
  BY Zenon
<1> DEFINE s == Encoded(o)
<1>1. /\ o.kind \in {"end", "padding", "mss", "scale", "other"}
      /\ o.kind = "mss" => o.value \in 0 .. LargestSize
      /\ o.kind = "scale" => o.value \in 0 .. 255
      /\ o.kind = "other" => o.code \in 4 .. 255 /\ o.bytes \in Seq(0 .. 255)
  BY DEF Offer
<1>2. CASE o.kind = "end"
  <2>1. s = <<0>>
    BY <1>2 DEF Encoded
  <2> HIDE DEF s
  <2>2. Spelt(s, o)
    BY <1>2, <2>1 DEF Spelt, Octets
  <2> QED BY <2>2 DEF s
<1>3. CASE o.kind = "padding"
  <2>1. s = <<1>>
    BY <1>3 DEF Encoded
  <2> HIDE DEF s
  <2>2. Spelt(s, o)
    BY <1>3, <2>1 DEF Spelt, Octets
  <2> QED BY <2>2 DEF s
<1>4. CASE o.kind = "mss"
  <2> DEFINE a == o.value \div 256
             b == o.value % 256
  <2>1. s = <<2, 4, a, b>>
    BY <1>4 DEF Encoded
  <2>2. a \in Octets /\ b \in Octets /\ 256 * a + b = o.value
    <3>1. LargestSize = Longest
      BY DEF LargestSize, Longest
    <3>2. o.value \in Nat /\ o.value <= Longest
      BY <1>1, <1>4, <3>1, LongestIs
    <3> QED BY <3>2, TwoOctets
  <2> HIDE DEF s, a, b
  <2>3. 2 \in Octets /\ 4 \in Octets
    BY DEF Octets
  <2>4. s \in Seq(Octets) /\ Len(s) = 4 /\ s[1] = 2 /\ s[2] = 4 /\ s[3] = a /\ s[4] = b
    BY <2>1, <2>2, <2>3
  <2>5. Spelt(s, o)
    BY <1>4, <2>2, <2>4 DEF Spelt
  <2> QED BY <2>5 DEF s
<1>5. CASE o.kind = "scale"
  <2>1. s = <<3, 3, o.value>>
    BY <1>5 DEF Encoded
  <2>2. o.value \in Octets /\ 3 \in Octets
    BY <1>1, <1>5 DEF Octets
  <2> HIDE DEF s
  <2>3. s \in Seq(Octets) /\ Len(s) = 3 /\ s[1] = 3 /\ s[2] = 3 /\ s[3] = o.value
    BY <2>1, <2>2
  <2>4. Spelt(s, o)
    BY <1>5, <2>3 DEF Spelt
  <2> QED BY <2>4 DEF s
<1>6. CASE o.kind = "other"
  <2> DEFINE t == o.bytes
             w == <<o.code, 2 + Len(t)>>
  <2>1. s = w \o t
    BY <1>6 DEF Encoded
  <2>2. t \in Seq(Octets) /\ Len(t) \in Nat /\ Len(t) <= 253
    BY <1>1, <1>6 DEF Octets
  <2>3. o.code \in Octets /\ o.code \notin {0, 1, 2, 3} /\ 2 + Len(t) \in Octets
    <3>1. o.code \in 4 .. 255
      BY <1>1, <1>6, Zenon
    <3>2. o.code \in Octets /\ o.code \notin {0, 1, 2, 3}
      <4>1. \A x \in 4 .. 255 : x \in Octets /\ x \notin {0, 1, 2, 3}
        BY DEF Octets
      <4> QED BY <3>1, <4>1, Zenon
    <3> DEFINE n == Len(t)
    <3>3. n \in Nat /\ n <= 253
      BY <2>2, Zenon
    <3> HIDE DEF n, t
    <3>4. 2 + n \in Octets
      BY <3>3 DEF Octets
    <3> QED BY <3>2, <3>4, Zenon DEF n
  <2>4. w \in Seq(Octets) /\ Len(w) = 2 /\ w[1] = o.code /\ w[2] = 2 + Len(t)
    BY <2>3
  <2> HIDE DEF s, t, w
  <2>5. Joined(s, w, t)
    BY <2>1, <2>2, <2>4, JoinedBytes, Zenon
  <2>6. s \in Seq(Octets) /\ Len(s) = 2 + Len(t) /\ s[1] = w[1] /\ s[2] = w[2]
    <3>1. 1 \in 1 .. Len(w) /\ 2 \in 1 .. Len(w)
      BY <2>4
    <3>2. Len(s) = Len(w) + Len(t)
      BY <2>5, Zenon DEF Joined
    <3> QED BY <2>4, <2>5, <3>1, <3>2, Zenon DEF Joined
  <2>7. s[1] = o.code /\ s[2] = Len(s) /\ Len(s) >= 1 /\ Len(s) >= 2
    BY <2>2, <2>4, <2>6
  <2>8. Spelt(s, o)
    BY <1>6, <2>3, <2>6, <2>7 DEF Spelt
  <2> QED BY <2>8 DEF s
<1> QED BY <1>1, <1>2, <1>3, <1>4, <1>5, <1>6

\* What an option adds to what was found.
Adds(o, found) ==
    IF o.kind = "mss" THEN [found EXCEPT !.mss = o.value]
    ELSE IF o.kind = "scale" THEN [found EXCEPT !.ws = o.value]
    ELSE found

\* A round of the loop takes an option.
LEMMA OptionTaken ==
    ASSUME NEW options \in Seq(Octets), NEW o, NEW s, Spelt(s, o), o.kind # "end",
           NEW b \in Nat, b + Len(s) <= Len(options), NEW found,
           \A j \in 1 .. Len(s) : options[b + j] = s[j]
    PROVE  Round(options, [pos |-> b + 1, found |-> found])
           = [pos |-> b + Len(s) + 1, found |-> Adds(o, found)]
<1> DEFINE at == [pos |-> b + 1, found |-> found]
           n == Len(s)
           k1 == s[1]
           k2 == s[2]
<1>1. /\ s \in Seq(Octets) /\ n >= 1 /\ k1 # 0
      /\ o.kind = "padding" <=> k1 = 1
      /\ k1 = 1 => n = 1
      /\ k1 \notin {0, 1} => k2 = n /\ n >= 2
      /\ o.kind = "mss" <=> k1 = 2
      /\ k1 = 2 => k2 = 4 /\ n = 4 /\ 256 * s[3] + s[4] = o.value
      /\ o.kind = "scale" <=> k1 = 3
      /\ k1 = 3 => k2 = 3 /\ n = 3 /\ s[3] = o.value
  BY DEF Spelt
<1>2. n \in Nat /\ Len(options) \in Nat /\ b + n <= Len(options)
  <2>1. n \in Nat
    BY <1>1
  <2> QED BY <2>1
<1>3. \A j \in 1 .. n : options[b + j] = s[j]
  OBVIOUS
<1>4. k1 \in Nat
  <2>1. 1 \in 1 .. Len(s)
    BY <1>1, <1>2
  <2>2. k1 \in Octets
    BY <1>1, <2>1
  <2> QED BY <2>2, OctetsAreNat, Zenon
<1> HIDE DEF n, k1, k2
<1>5. options[b + 1] = k1
  <2>1. 1 \in 1 .. n
    BY <1>1, <1>2
  <2> QED BY <1>3, <2>1, Zenon DEF k1
<1>6. k1 # 1 => options[b + 1 + 1] = k2 /\ k2 = n
  <2> SUFFICES ASSUME k1 # 1 PROVE options[b + 1 + 1] = k2 /\ k2 = n
    OBVIOUS
  <2>1. k2 = n /\ n >= 2
    BY <1>1
  <2>2. 2 \in 1 .. n /\ b + 2 = b + 1 + 1
    BY <1>1, <1>2, <2>1
  <2>3. options[b + 2] = k2
    BY <1>3, <2>2, Zenon DEF k2
  <2> QED BY <2>1, <2>2, <2>3, Zenon
<1>7. k1 = 2 => 256 * options[b + 1 + 2] + options[b + 1 + 3] = o.value
  <2> SUFFICES ASSUME k1 = 2 PROVE 256 * options[b + 1 + 2] + options[b + 1 + 3] = o.value
    OBVIOUS
  <2>1. n = 4 /\ 256 * s[3] + s[4] = o.value
    BY <1>1
  <2>2. 3 \in 1 .. n /\ 4 \in 1 .. n /\ b + 3 = b + 1 + 2 /\ b + 4 = b + 1 + 3
    BY <2>1
  <2>3. options[b + 3] = s[3] /\ options[b + 4] = s[4]
    BY <1>3, <2>2, Zenon
  <2> QED BY <2>1, <2>2, <2>3, Zenon
<1>8. k1 = 3 => options[b + 1 + 2] = o.value
  <2> SUFFICES ASSUME k1 = 3 PROVE options[b + 1 + 2] = o.value
    OBVIOUS
  <2>1. n = 3 /\ s[3] = o.value
    BY <1>1
  <2>2. 3 \in 1 .. n /\ b + 3 = b + 1 + 2
    BY <2>1
  <2>3. options[b + 3] = s[3]
    BY <1>3, <2>2, Zenon
  <2> QED BY <2>1, <2>2, <2>3, Zenon
<1> DEFINE p == b + 1
<1>9. Step(options, p) = n
  <2>1. CASE k1 = 1
    BY <1>1, <1>5, <2>1, Zenon DEF Step
  <2>2. CASE k1 # 1
    BY <1>5, <1>6, <2>2, Zenon DEF Step
  <2> QED BY <2>1, <2>2
<1>10. Option(options, p, found) = Adds(o, found)
  <2>1. CASE k1 = 2
    <3>1. Option(options, p, found) = [found EXCEPT !.mss = 256 * options[p + 2] + options[p + 3]]
      <4>1. options[p] = 2 /\ options[p + 1] = 4
        BY <1>1, <1>5, <1>6, <2>1
      <4> QED BY <4>1, Zenon DEF Option
    <3> QED BY <1>1, <1>7, <2>1, <3>1, Zenon DEF Adds
  <2>2. CASE k1 = 3
    <3>1. Option(options, p, found) = [found EXCEPT !.ws = options[p + 2]]
      <4>1. options[p] = 3 /\ options[p + 1] = 3 /\ options[p] # 2
        BY <1>1, <1>5, <1>6, <2>2
      <4> QED BY <4>1, Zenon DEF Option
    <3>2. k1 # 2
      BY <2>2
    <3> QED BY <1>1, <1>8, <2>2, <3>1, <3>2, Zenon DEF Adds
  <2>3. CASE k1 # 2 /\ k1 # 3
    BY <1>1, <1>5, <2>3, Zenon DEF Adds, Option
  <2> QED BY <2>1, <2>2, <2>3
<1>11. at.pos = p /\ at.found = found
  OBVIOUS
<1>12. ~(p > Len(options)) /\ options[p] # 0 /\ p + n = b + n + 1
  BY <1>1, <1>2, <1>5
<1> HIDE DEF at, p
<1>13. Round(options, at) = [pos |-> b + n + 1, found |-> Adds(o, found)]
  BY <1>9, <1>10, <1>11, <1>12, Zenon DEF Round
<1> QED BY <1>13 DEF at, p, n

\* What the first i options of a list say, none of which ends it.
SaidBy(list, i, kind, default) ==
    LET last == {j \in 1 .. i : list[j].kind = kind}
    IN  IF last = {} THEN default ELSE list[Max(last)].value

LEMMA SaidNext ==
    ASSUME NEW list, NEW i \in Nat, NEW kind, NEW default
    PROVE  SaidBy(list, i + 1, kind, default)
           = IF list[i + 1].kind = kind THEN list[i + 1].value ELSE SaidBy(list, i, kind, default)
<1> DEFINE n == i + 1
           last == {j \in 1 .. i : list[j].kind = kind}
           next == {j \in 1 .. n : list[j].kind = kind}
<1>1. n \in Nat /\ n \in 1 .. n /\ \A j \in 1 .. n : j <= n /\ (j \in 1 .. i \/ j = n)
  OBVIOUS
<1>2. SaidBy(list, n, kind, default) = IF next = {} THEN default ELSE list[Max(next)].value
  BY Zenon DEF SaidBy
<1>3. SaidBy(list, i, kind, default) = IF last = {} THEN default ELSE list[Max(last)].value
  BY Zenon DEF SaidBy
<1>4. CASE list[n].kind = kind
  <2>1. n \in next /\ next \in SUBSET Int /\ \A j \in next : j <= n
    BY <1>1, <1>4
  <2> HIDE DEF next, n
  <2>2. Max(next) = n
    BY <2>1, MaxIs
  <2>3. SaidBy(list, n, kind, default) = list[n].value
    BY <1>2, <2>1, <2>2, Zenon
  <2> QED BY <1>4, <2>3, Zenon DEF n
<1>5. CASE list[n].kind # kind
  <2>1. \A j : j \in next <=> j \in last
    <3>1. \A j \in 1 .. i : j \in 1 .. n
      OBVIOUS
    <3> HIDE DEF n
    <3> QED BY <1>1, <1>5, <3>1, Zenon
  <2>2. next = last
    <3> HIDE DEF next, last
    <3> QED BY <2>1
  <2> HIDE DEF next, last, n
  <2> QED BY <1>2, <1>3, <1>5, <2>2, Zenon DEF n
<1> QED BY <1>4, <1>5

\* The options before the first "end" say what the list says.
LEMMA SaidIs ==
    ASSUME NEW list \in Seq(Offer), NEW k \in 0 .. Len(list), NEW kind, kind # "end", NEW default,
           \A j \in 1 .. k : list[j].kind # "end",
           k < Len(list) => list[k + 1].kind = "end"
    PROVE  Said(list, kind, default) = SaidBy(list, k, kind, default)
<1> DEFINE m == Len(list)
           ends == {i \in DOMAIN list : list[i].kind = "end"}
           last == {i \in DOMAIN list : list[i].kind = kind /\ \A e \in ends : i < e}
           said == {j \in 1 .. k : list[j].kind = kind}
<1>1. m \in Nat /\ DOMAIN list = 1 .. m /\ k \in Nat /\ k <= m
  OBVIOUS
<1>2. Said(list, kind, default) = IF last = {} THEN default ELSE list[Max(last)].value
  BY Zenon DEF Said
<1>3. SaidBy(list, k, kind, default) = IF said = {} THEN default ELSE list[Max(said)].value
  BY Zenon DEF SaidBy
<1>4. \A e \in ends : e \in 1 .. m /\ e > k
  <2> SUFFICES ASSUME NEW e \in ends PROVE e \in 1 .. m /\ e > k
    OBVIOUS
  <2>1. e \in 1 .. m /\ list[e].kind = "end"
    BY <1>1
  <2>2. ~(e \in 1 .. k)
    BY <2>1
  <2> QED BY <1>1, <2>1, <2>2
<1>5. k < m => k + 1 \in ends
  BY <1>1
<1>6. \A j \in 1 .. k : j \in DOMAIN list /\ \A e \in ends : j < e
  BY <1>1, <1>4
<1>7. ASSUME NEW j \in last PROVE j \in 1 .. k
  <2>1. j \in 1 .. m /\ \A e \in ends : j < e
    BY <1>1
  <2>2. CASE k < m
    <3>1. j < k + 1
      BY <1>5, <2>1, <2>2, Zenon
    <3> QED BY <1>1, <2>1, <3>1
  <2>3. CASE ~(k < m)
    BY <1>1, <2>1, <2>3
  <2> QED BY <2>2, <2>3
<1>8. \A j : j \in last <=> j \in said
  BY <1>6, <1>7, Zenon
<1>9. last = said
  <2> HIDE DEF last, said
  <2> QED BY <1>8
<1> HIDE DEF last, said
<1> QED BY <1>2, <1>3, <1>9, Zenon

Started == [pos |-> 1, found |-> Defaults]

Rounds(f, options, n) ==
    f = [k \in 0 .. n |-> IF k = 0 THEN Started ELSE Round(options, f[k - 1])]

LEMMA RoundsExist ==
    ASSUME NEW options, NEW n \in Nat
    PROVE  \E f : Rounds(f, options, n)
<1> DEFINE T == {k \in Nat : \E f : Rounds(f, options, k)}
<1>1. 0 \in T
  <2> DEFINE f == [k \in 0 .. 0 |-> Started]
  <2>1. \A k \in 0 .. 0 : k = 0
    OBVIOUS
  <2>2. f = [k \in 0 .. 0 |-> IF k = 0 THEN Started ELSE Round(options, f[k - 1])]
    BY <2>1, Zenon
  <2> HIDE DEF f
  <2>3. Rounds(f, options, 0)
    BY <2>2, Zenon DEF Rounds
  <2> QED BY <2>3
<1>2. ASSUME NEW k \in 0 .. n - 1, k \in T PROVE k + 1 \in T
  <2>1. PICK f : Rounds(f, options, k)
    BY <1>2
  <2> DEFINE g == [i \in 0 .. k + 1 |-> IF i = 0 THEN Started ELSE Round(options, f[i - 1])]
  <2>2. \A i \in 0 .. k : f[i] = IF i = 0 THEN Started ELSE Round(options, f[i - 1])
    BY <2>1, Zenon DEF Rounds
  <2>3. \A i \in 0 .. k + 1 : g[i] = IF i = 0 THEN Started ELSE Round(options, f[i - 1])
    BY Zenon
  <2>4. \A i \in 0 .. k : i \in 0 .. k + 1
    OBVIOUS
  <2>5. \A i \in 0 .. k + 1 : i # 0 => i - 1 \in 0 .. k
    OBVIOUS
  <2> HIDE DEF g
  <2>6. \A i \in 0 .. k : g[i] = f[i]
    BY <2>2, <2>3, <2>4, Zenon
  <2>7. \A i \in 0 .. k + 1 : i # 0 => f[i - 1] = g[i - 1]
    BY <2>5, <2>6, Zenon
  <2>8. g = [i \in 0 .. k + 1 |-> IF i = 0 THEN Started ELSE Round(options, g[i - 1])]
    <3>1. [i \in 0 .. k + 1 |-> IF i = 0 THEN Started ELSE Round(options, f[i - 1])]
          = [i \in 0 .. k + 1 |-> IF i = 0 THEN Started ELSE Round(options, g[i - 1])]
      BY <2>7, Zenon
    <3> QED BY <3>1, Zenon DEF g
  <2>9. Rounds(g, options, k + 1)
    BY <2>8, Zenon DEF Rounds
  <2>10. k + 1 \in Nat
    OBVIOUS
  <2> QED BY <2>9, <2>10
<1>3. n \in T
  <2> HIDE DEF T
  <2> QED BY <1>1, <1>2, UpToBound
<1> QED BY <1>3

\* at[i] is where i rounds lead to, and one more than k leads nowhere else.
Along(at, options, k) ==
    /\ at[0] = Started
    /\ \A i \in 0 .. k - 1 : Round(options, at[i]) = at[i + 1]
    /\ Round(options, at[k]) = at[k]

\* Rounds that are known up to one that changes nothing end with that one.
LEMMA RoundsAlong ==
    ASSUME NEW options, NEW n \in Nat, NEW f, Rounds(f, options, n), NEW k \in 0 .. n, NEW at,
           Along(at, options, k)
    PROVE  f[n] = at[k]
<1> DEFINE Is(j) == f[j] = IF j <= k THEN at[j] ELSE at[k]
           T == {j \in 0 .. n : Is(j)}
<1>1. \A j \in 0 .. n : f[j] = IF j = 0 THEN Started ELSE Round(options, f[j - 1])
  BY Zenon DEF Rounds
<1>2. Is(0)
  <2>1. 0 \in 0 .. n /\ 0 <= k
    OBVIOUS
  <2>2. at[0] = Started
    BY Zenon DEF Along
  <2> QED BY <1>1, <2>1, <2>2, Zenon
<1>3. ASSUME NEW j \in 0 .. n - 1, Is(j) PROVE Is(j + 1)
  <2> DEFINE i == j + 1
  <2>1. i \in 0 .. n /\ i # 0 /\ i - 1 = j
    OBVIOUS
  <2> HIDE DEF i
  <2>2. f[i] = Round(options, f[j])
    BY <1>1, <2>1, Zenon
  <2>3. CASE i <= k
    <3>1. j <= k /\ j \in 0 .. k - 1
      BY <2>1, <2>3
    <3>2. f[j] = at[j]
      BY <1>3, <3>1, Zenon
    <3>3. Round(options, at[j]) = at[i]
      BY <3>1, Zenon DEF i, Along
    <3> QED BY <2>2, <2>3, <3>2, <3>3, Zenon DEF i
  <2>4. CASE ~(i <= k)
    <3>1. f[j] = at[k]
      <4>1. CASE j <= k
        <5>1. j = k
          BY <2>1, <2>4, <4>1
        <5> QED BY <1>3, <4>1, <5>1, Zenon
      <4>2. CASE ~(j <= k)
        BY <1>3, <4>2, Zenon
      <4> QED BY <4>1, <4>2
    <3>2. Round(options, at[k]) = at[k]
      BY Zenon DEF Along
    <3> QED BY <2>2, <2>4, <3>1, <3>2, Zenon DEF i
  <2> QED BY <2>3, <2>4
<1> HIDE DEF Is
<1>4. 0 \in T
  BY <1>2
<1>5. ASSUME NEW j \in 0 .. n - 1, j \in T PROVE j + 1 \in T
  BY <1>3, <1>5
<1>6. n \in T
  <2> HIDE DEF T
  <2> QED BY <1>4, <1>5, UpToBound
<1>7. Is(n)
  BY <1>6
<1>8. CASE n <= k
  <2>1. n = k
    BY <1>8
  <2> QED BY <1>7, <1>8, <2>1, Zenon DEF Is
<1>9. CASE ~(n <= k)
  BY <1>7, <1>9, Zenon DEF Is
<1> QED BY <1>8, <1>9

Zeros(z) == z \in Seq(Octets) /\ \A i \in 1 .. Len(z) : z[i] = 0

LEMMA PadIs ==
    \A n \in Nat : Zeros([i \in 1 .. (4 - (n % 4)) % 4 |-> 0])
<1> SUFFICES ASSUME NEW n \in Nat PROVE Zeros([i \in 1 .. (4 - (n % 4)) % 4 |-> 0])
  BY Zenon
<1> DEFINE p == (4 - (n % 4)) % 4
           z == [i \in 1 .. p |-> 0]
<1>1. p \in Nat
  OBVIOUS
<1>2. 0 \in Octets
  BY DEF Octets
<1> HIDE DEF p
<1>3. z \in Seq(Octets) /\ Len(z) = p
  BY <1>1, <1>2
<1>4. \A i \in 1 .. p : z[i] = 0
  OBVIOUS
<1> HIDE DEF z
<1>5. Zeros(z)
  BY <1>3, <1>4, Zenon DEF Zeros
<1> QED BY <1>5 DEF z, p

\* off[i] is where option i of a list ends in data, and only zeros follow them.
Offered(data, list, ss, off) ==
    /\ data \in Seq(Octets) /\ off[0] = 0
    /\ \A i \in 1 .. Len(list) :
        /\ Spelt(ss[i], list[i])
        /\ off[i - 1] \in Nat /\ off[i] = off[i - 1] + Len(ss[i]) /\ off[i] <= Len(data)
        /\ \A j \in 1 .. Len(ss[i]) : data[off[i - 1] + j] = ss[i][j]
    /\ off[Len(list)] \in Nat
    /\ \A j \in off[Len(list)] + 1 .. Len(data) : data[j] = 0

LEMMA OptionsLaid ==
    ASSUME NEW list, Offers(list)
    PROVE  \E ss, off : Offered(Options(list), list, ss, off)
<1> DEFINE m == Len(list)
           ss == [i \in DOMAIN list |-> Encoded(list[i])]
           bytes == FlattenSeq(ss)
           z == [i \in 1 .. (4 - (Len(bytes) % 4)) % 4 |-> 0]
           data == Options(list)
<1>1. list \in Seq(Offer) /\ m \in Nat /\ DOMAIN list = 1 .. m
  BY DEF Offers
<1>2. \A i \in 1 .. m : Spelt(ss[i], list[i])
  <2> SUFFICES ASSUME NEW i \in 1 .. m PROVE Spelt(ss[i], list[i])
    BY Zenon
  <2>1. list[i] \in Offer
    BY <1>1
  <2>2. list[i].kind = "other" => Len(list[i].bytes) <= 253
    BY <1>1, Zenon DEF Offers
  <2>3. ss[i] = Encoded(list[i])
    BY <1>1, Zenon
  <2> HIDE DEF ss
  <2> QED BY <2>1, <2>2, <2>3, OptionSpelt, Zenon
<1>3. data = bytes \o z
  BY Zenon DEF Options
<1>4. ss \in Seq(Seq(Octets)) /\ Len(ss) = m
  <2>1. ss = [i \in 1 .. m |-> ss[i]]
    BY <1>1, Zenon
  <2>2. \A i \in 1 .. m : ss[i] \in Seq(Octets)
    BY <1>2, Zenon DEF Spelt
  <2> HIDE DEF ss, m
  <2> QED BY <1>1, <2>1, <2>2
<1> HIDE DEF ss, m
<1>5. PICK e : Pieces(Octets, e, ss)
  BY <1>4, FlattenIs
<1>6. bytes \in Seq(Octets) /\ bytes = e[m] /\ e[0] = <<>> /\ Len(bytes) \in Nat
  <2>1. m \in 0 .. Len(ss)
    BY <1>1, <1>4
  <2>2. e[m] \in Seq(Octets) /\ bytes = e[m] /\ e[0] = <<>>
    BY <1>4, <1>5, <2>1, Zenon DEF Pieces
  <2> QED BY <2>2
<1>7. Zeros(z)
  BY <1>6, PadIs, Zenon
<1> HIDE DEF bytes, z, data
<1>8. Joined(data, bytes, z)
  BY <1>3, <1>6, <1>7, JoinedBytes, Zenon DEF Zeros
<1> DEFINE off == [i \in 0 .. m |-> Len(e[i])]
<1>9. \A i \in 0 .. m : off[i] = Len(e[i])
  BY Zenon
<1>10. 0 \in 0 .. m /\ m \in 0 .. m /\ \A i \in 1 .. m : i \in 0 .. m /\ i - 1 \in 0 .. m
  BY <1>1
<1> HIDE DEF off
<1>11. off[0] = 0 /\ off[m] = Len(bytes)
  <2>1. Len(e[0]) = 0
    BY <1>6
  <2> QED BY <1>6, <1>9, <1>10, <2>1, Zenon
<1>12. /\ data \in Seq(Octets) /\ Len(data) = Len(bytes) + Len(z) /\ Len(z) \in Nat
       /\ \A j \in 1 .. Len(bytes) : data[j] = bytes[j]
       /\ \A j \in 1 .. Len(z) : data[Len(bytes) + j] = 0
  <2>1. z \in Seq(Octets)
    BY <1>7 DEF Zeros
  <2> QED BY <1>7, <1>8, <2>1 DEF Joined, Zeros
<1>13. ASSUME NEW i \in 1 .. m
       PROVE  /\ off[i - 1] \in Nat /\ off[i] = off[i - 1] + Len(ss[i]) /\ off[i] <= Len(data)
              /\ \A j \in 1 .. Len(ss[i]) : data[off[i - 1] + j] = ss[i][j]
  <2> DEFINE b == Len(e[i - 1])
             n == Len(ss[i])
             s == ss[i]
             l == Len(bytes)
  <2>1. /\ e[i - 1] \in Seq(Octets) /\ Len(e[i]) = b + n /\ Len(e[i]) <= l
        /\ \A j \in 1 .. n : bytes[b + j] = s[j]
    <3>1. Placed(e, ss, i)
      BY <1>4, <1>5, PieceAt
    <3> QED BY <1>4, <1>6, <3>1, Zenon DEF Placed
  <2>2. b \in Nat /\ n \in Nat /\ l \in Nat
    <3>1. ss[i] \in Seq(Octets)
      BY <1>4
    <3> QED BY <1>6, <2>1, <3>1
  <2>3. off[i - 1] = b /\ off[i] = b + n
    BY <1>9, <1>10, <2>1, Zenon
  <2> HIDE DEF b, n, s
  <2>4. b + n <= l /\ l <= Len(data)
    BY <1>12, <2>1, <2>2, <2>3
  <2>5. \A j \in 1 .. n : data[b + j] = s[j]
    <3> SUFFICES ASSUME NEW j \in 1 .. n PROVE data[b + j] = s[j]
      OBVIOUS
    <3>1. b + j \in 1 .. l
      BY <2>2, <2>4
    <3> QED BY <1>12, <2>1, <3>1, Zenon
  <2>6. b + n <= Len(data)
    BY <1>12, <2>2, <2>4
  <2> QED BY <2>2, <2>3, <2>5, <2>6, Zenon DEF n, s
<1>14. \A j \in off[m] + 1 .. Len(data) : data[j] = 0
  <2> SUFFICES ASSUME NEW j \in off[m] + 1 .. Len(data) PROVE data[j] = 0
    OBVIOUS
  <2> DEFINE l == Len(bytes)
             k == j - l
  <2>1. k \in 1 .. Len(z) /\ l + k = j
    BY <1>6, <1>11, <1>12
  <2>2. data[l + k] = 0
    BY <1>12, <2>1, Zenon
  <2> QED BY <2>1, <2>2, Zenon
<1>15. off[m] \in Nat
  BY <1>6, <1>11
<1>16. Offered(data, list, ss, off)
  BY <1>2, <1>11, <1>12, <1>13, <1>14, <1>15, Zenon DEF Offered, m
<1> QED BY <1>16 DEF data

\* A segment size and a scale are found to the end of the options or to an
\* option "end", whatever else is among them.
LEMMA OptionsParsed ==
    ASSUME NEW list, Offers(list)
    PROVE  decode(Options(list))
           = [mss |-> Said(list, "mss", DefaultMss), ws |-> Said(list, "scale", 0)]
<1> DEFINE m == Len(list)
           d == Options(list)
           n == Len(d)
           Over(i) == i < m => list[i + 1].kind = "end"
           found(i) == [mss |-> SaidBy(list, i, "mss", DefaultMss),
                        ws |-> SaidBy(list, i, "scale", 0)]
<1>1. PICK ss, off : Offered(d, list, ss, off)
  BY OptionsLaid
<1>2. list \in Seq(Offer) /\ m \in Nat
  BY DEF Offers
<1>3. d \in Seq(Octets) /\ n \in Nat
  <2>1. d \in Seq(Octets)
    BY <1>1, Zenon DEF Offered
  <2> QED BY <2>1
<1> HIDE DEF d, n
<1>4. \A i \in 1 .. m : /\ Spelt(ss[i], list[i]) /\ ss[i] \in Seq(Octets) /\ Len(ss[i]) >= 1
                        /\ Len(ss[i]) \in Nat
                        /\ off[i - 1] \in Nat /\ off[i] = off[i - 1] + Len(ss[i]) /\ off[i] <= n
                        /\ \A j \in 1 .. Len(ss[i]) : d[off[i - 1] + j] = ss[i][j]
  <2> SUFFICES ASSUME NEW i \in 1 .. m
               PROVE  /\ Spelt(ss[i], list[i]) /\ ss[i] \in Seq(Octets) /\ Len(ss[i]) >= 1
                      /\ Len(ss[i]) \in Nat
                      /\ off[i - 1] \in Nat /\ off[i] = off[i - 1] + Len(ss[i]) /\ off[i] <= n
                      /\ \A j \in 1 .. Len(ss[i]) : d[off[i - 1] + j] = ss[i][j]
    BY Zenon
  <2>1. Spelt(ss[i], list[i])
    BY <1>1, Zenon DEF Offered
  <2>2. ss[i] \in Seq(Octets) /\ Len(ss[i]) >= 1
    BY <2>1, Zenon DEF Spelt
  <2>3. Len(ss[i]) \in Nat
    BY <2>2
  <2> QED BY <1>1, <2>1, <2>2, <2>3, Zenon DEF Offered, n
<1>5. off[0] = 0 /\ off[m] \in Nat /\ \A j \in off[m] + 1 .. n : d[j] = 0
  BY <1>1, Zenon DEF Offered, n
<1>6. PICK k \in 0 .. m : Over(k) /\ \A i \in 0 .. k - 1 : ~Over(i)
  <2> DEFINE T == {i \in 0 .. m : Over(i)}
  <2>1. T \in SUBSET Nat /\ m \in T
    BY <1>2
  <2>2. \A x \in T : x \in 0 .. m /\ Over(x)
    BY Zenon
  <2>3. \A x \in 0 .. m : Over(x) => x \in T
    BY Zenon
  <2> HIDE DEF T
  <2>4. PICK k \in T : \A i \in T : k <= i
    BY <2>1, LeastExists
  <2>5. k \in 0 .. m /\ Over(k)
    BY <2>2, <2>4, Zenon
  <2> HIDE DEF Over
  <2>6. ASSUME NEW i \in 0 .. k - 1 PROVE ~Over(i)
    <3>1. i \in 0 .. m /\ ~(k <= i)
      BY <1>2, <2>5
    <3> QED BY <2>3, <2>4, <3>1, Zenon
  <2> QED BY <2>5, <2>6, Zenon
<1>7. /\ k \in Nat /\ k <= m
      /\ \A j \in 1 .. k : j \in 1 .. m /\ list[j].kind # "end"
      /\ k < m => list[k + 1].kind = "end"
  <2>1. k \in Nat /\ k <= m
    BY <1>2
  <2>2. ASSUME NEW j \in 1 .. k PROVE j \in 1 .. m /\ list[j].kind # "end"
    <3> DEFINE i == j - 1
    <3>1. i \in 0 .. k - 1 /\ i + 1 = j /\ j \in 1 .. m
      BY <1>2, <2>1
    <3> HIDE DEF i
    <3>2. ~Over(i)
      BY <1>6, <3>1, Zenon
    <3> QED BY <3>1, <3>2, Zenon
  <2> QED BY <1>6, <2>1, <2>2, Zenon
<1> HIDE DEF Over, m
<1>8. \A i \in 0 .. m : off[i] \in Nat /\ off[i] <= n
  <2>1. m = 0 => off[m] = 0
    BY <1>5, Zenon
  <2> SUFFICES ASSUME NEW i \in 0 .. m PROVE off[i] \in Nat /\ off[i] <= n
    OBVIOUS
  <2>2. CASE i = 0
    BY <1>3, <1>5, <2>2
  <2>3. CASE i # 0
    <3>1. i \in 1 .. m
      BY <1>2, <2>3
    <3>2. /\ off[i - 1] \in Nat /\ off[i] = off[i - 1] + Len(ss[i]) /\ off[i] <= n
          /\ Len(ss[i]) \in Nat
      BY <1>4, <3>1, Zenon
    <3> QED BY <3>2
  <2> QED BY <2>2, <2>3
<1>9. k <= n
  <2> DEFINE T == {i \in 0 .. k : i <= off[i]}
  <2>1. 0 \in T
    BY <1>5, <1>7
  <2>2. ASSUME NEW i \in 0 .. k - 1, i \in T PROVE i + 1 \in T
    <3> DEFINE j == i + 1
    <3>1. j \in 1 .. m /\ j - 1 = i /\ j \in 0 .. k /\ i <= off[i]
      BY <1>2, <1>7, <2>2
    <3>2. off[i] \in Nat /\ off[j] = off[i] + Len(ss[j]) /\ Len(ss[j]) \in Nat /\ Len(ss[j]) >= 1
      BY <1>4, <3>1, Zenon
    <3>3. j <= off[j]
      BY <3>1, <3>2
    <3> QED BY <3>1, <3>3
  <2>3. k \in T
    <3> HIDE DEF T
    <3> QED BY <1>7, <2>1, <2>2, UpToBound
  <2>4. k <= off[k] /\ off[k] \in Nat /\ off[k] <= n
    BY <1>7, <1>8, <2>3
  <2> QED BY <1>3, <1>7, <2>4
<1> DEFINE at == [i \in 0 .. k |-> [pos |-> off[i] + 1, found |-> found(i)]]
<1>10. \A i \in 0 .. k : at[i] = [pos |-> off[i] + 1, found |-> found(i)]
  BY Zenon
<1>11. 0 \in 0 .. k /\ k \in 0 .. k /\ \A i \in 0 .. k - 1 : i \in 0 .. k /\ i + 1 \in 0 .. k
  BY <1>7
<1> HIDE DEF at
<1>12. at[0] = Started
  <2>1. \A kind : {j \in 1 .. 0 : list[j].kind = kind} = {}
    OBVIOUS
  <2>2. found(0) = Defaults
    BY <2>1, Zenon DEF SaidBy, Defaults
  <2>3. off[0] + 1 = 1
    BY <1>5
  <2> QED BY <1>10, <1>11, <2>2, <2>3, Zenon DEF Started
<1>13. ASSUME NEW i \in 0 .. k - 1 PROVE Round(d, at[i]) = at[i + 1]
  <2> DEFINE j == i + 1
             s == ss[j]
             b == off[i]
  <2>1. j \in 1 .. k /\ j \in 1 .. m /\ j - 1 = i /\ i \in Nat
    BY <1>2, <1>7
  <2>2. /\ Spelt(s, list[j]) /\ b \in Nat /\ off[j] = b + Len(s) /\ off[j] <= n
        /\ \A l \in 1 .. Len(s) : d[b + l] = s[l]
    BY <1>4, <2>1, Zenon
  <2>3. list[j].kind # "end"
    BY <1>7, <2>1, Zenon
  <2> HIDE DEF s, b
  <2>4. b + Len(s) <= Len(d)
    BY <2>2, Zenon DEF n
  <2>5. Round(d, [pos |-> b + 1, found |-> found(i)])
        = [pos |-> b + Len(s) + 1, found |-> Adds(list[j], found(i))]
    <3> DEFINE o == list[j]
               x == found(i)
    <3>1. Spelt(s, o) /\ o.kind # "end" /\ b \in Nat /\ \A l \in 1 .. Len(s) : d[b + l] = s[l]
      BY <2>2, <2>3, Zenon
    <3> HIDE DEF j, found, o, x
    <3>2. Round(d, [pos |-> b + 1, found |-> x]) = [pos |-> b + Len(s) + 1, found |-> Adds(o, x)]
      BY <1>3, <2>4, <3>1, OptionTaken
    <3> QED BY <3>2 DEF o, x
  <2>6. Adds(list[j], found(i)) = found(j)
    <3> DEFINE x == SaidBy(list, i, "mss", DefaultMss)
               y == SaidBy(list, i, "scale", 0)
               u == SaidBy(list, j, "mss", DefaultMss)
               w == SaidBy(list, j, "scale", 0)
    <3>1. u = IF list[j].kind = "mss" THEN list[j].value ELSE x
      BY <2>1, SaidNext
    <3>2. w = IF list[j].kind = "scale" THEN list[j].value ELSE y
      BY <2>1, SaidNext
    <3> HIDE DEF x, y, u, w, j
    <3>3. Adds(list[j], [mss |-> x, ws |-> y]) = [mss |-> u, ws |-> w]
      BY <3>1, <3>2 DEF Adds
    <3> QED BY <3>3 DEF x, y, u, w
  <2>7. at[i] = [pos |-> b + 1, found |-> found(i)] /\ at[j] = [pos |-> off[j] + 1, found |-> found(j)]
    BY <1>10, <1>11, Zenon DEF b
  <2> HIDE DEF found
  <2> QED BY <2>2, <2>5, <2>6, <2>7, Zenon
<1> DEFINE p == off[k] + 1
           here == at[k]
<1>14. here.pos = p /\ here.found = found(k)
  <2>1. here = [pos |-> p, found |-> found(k)]
    BY <1>10, <1>11, Zenon
  <2> HIDE DEF here, p, found
  <2> QED BY <2>1
<1>15. p > n \/ d[p] = 0
  <2>1. CASE k = m
    <3>1. off[k] = off[m] /\ off[m] \in Nat
      BY <1>5, <2>1
    <3>2. p > n \/ p \in off[m] + 1 .. n
      BY <1>3, <3>1
    <3> QED BY <1>5, <3>2, Zenon
  <2>2. CASE k # m
    <3> DEFINE j == k + 1
    <3>1. j \in 1 .. m /\ j - 1 = k /\ k < m
      BY <1>2, <1>7, <2>2
    <3>2. list[j].kind = "end"
      BY <1>7, <3>1, Zenon
    <3>3. Spelt(ss[j], list[j]) /\ Len(ss[j]) \in Nat /\ Len(ss[j]) >= 1
      BY <1>4, <3>1, Zenon
    <3>4. 1 \in 1 .. Len(ss[j])
      BY <3>3
    <3>5. d[p] = ss[j][1]
      <4>1. \A l \in 1 .. Len(ss[j]) : d[off[j - 1] + l] = ss[j][l]
        BY <1>4, <3>1, Zenon
      <4> QED BY <3>1, <3>4, <4>1, Zenon
    <3>6. ss[j][1] = 0
      BY <3>2, <3>3, Zenon DEF Spelt
    <3> QED BY <3>5, <3>6, Zenon
  <2> QED BY <2>1, <2>2
<1> HIDE DEF p, found, here
<1>16. Round(d, here) = here
  <2>1. here.pos > Len(d) \/ d[here.pos] = 0
    BY <1>14, <1>15, Zenon DEF n
  <2> QED BY <2>1, Zenon DEF Round
<1> DEFINE f == CHOOSE f : Rounds(f, d, n)
<1>17. Rounds(f, d, n)
  <2>1. \E g : Rounds(g, d, n)
    BY <1>3, RoundsExist
  <2> QED BY <2>1, Zenon
<1>18. decode(d) = f[n].found
  BY Zenon DEF decode, Rounds, Started, n
<1> HIDE DEF f
<1>19. f[n] = here
  <2>1. k \in 0 .. n
    BY <1>3, <1>7, <1>9
  <2>2. \A i \in 0 .. k - 1 : Round(d, at[i]) = at[i + 1]
    BY <1>13, Zenon
  <2>3. Round(d, at[k]) = at[k]
    BY <1>16, Zenon DEF here
  <2>4. Along(at, d, k)
    BY <1>12, <2>2, <2>3, Zenon DEF Along
  <2>5. f[n] = at[k]
    BY <1>3, <1>17, <2>1, <2>4, RoundsAlong
  <2> QED BY <2>5, Zenon DEF here
<1>20. /\ Said(list, "mss", DefaultMss) = SaidBy(list, k, "mss", DefaultMss)
       /\ Said(list, "scale", 0) = SaidBy(list, k, "scale", 0)
  <2>1. "mss" # "end" /\ "scale" # "end"
    OBVIOUS
  <2>2. list \in Seq(Offer) /\ k \in 0 .. Len(list)
    BY <1>2, <1>6 DEF m
  <2>3. \A j \in 1 .. k : list[j].kind # "end"
    BY <1>7, Zenon
  <2>4. k < Len(list) => list[k + 1].kind = "end"
    BY <1>7, Zenon DEF m
  <2> QED BY <2>1, <2>2, <2>3, <2>4, SaidIs, Zenon
<1> QED BY <1>14, <1>18, <1>19, <1>20, Zenon DEF d, found

-----------------------------------------------------------------------------
\* What is being parsed is one of the inputs, and what was is as it was given.
Chosen == parser \in DOMAIN Inputs /\ input \in Inputs[parser]

Computed ==
    /\ Done("handle_ip") => output = handle_ip(input)
    /\ Done("check") => output = Received(input.pseudo, input.header, input.data)
    /\ Done("patch_http_url") => output = patch_http_url(Text(input))
    /\ Done("parse_tls_header") => output = parse_tls_header(Sent(input))
    /\ Done("decode") => output = decode(Options(input))

LEMMA ParsesInputs == Spec => [](Chosen /\ Computed)
<1>1. Init => Chosen /\ Computed
  BY DEF Init, Chosen, Computed, Done
<1>2. Chosen /\ Computed /\ [Next]_vars => (Chosen /\ Computed)'
  <2> SUFFICES ASSUME Chosen, Computed, [Next]_vars PROVE (Chosen /\ Computed)'
    OBVIOUS
  <2>1. parser' = parser /\ input' = input
    BY DEF Next, Parses, vars
  <2>2. Chosen'
    BY <2>1, Zenon DEF Chosen, Inputs
  <2>3. Computed'
    <3>1. CASE UNCHANGED vars
      BY <3>1, Zenon DEF Computed, Done, vars
    <3>2. CASE Parses("handle_ip") /\ output' = handle_ip(input)
      BY <2>1, <3>2 DEF Computed, Done, Parses
    <3>3. CASE Parses("check") /\ output' = Received(input.pseudo, input.header, input.data)
      BY <2>1, <3>3 DEF Computed, Done, Parses
    <3>4. CASE Parses("patch_http_url") /\ output' = patch_http_url(Text(input))
      BY <2>1, <3>4 DEF Computed, Done, Parses
    <3>5. CASE Parses("parse_tls_header") /\ output' = parse_tls_header(Sent(input))
      BY <2>1, <3>5 DEF Computed, Done, Parses
    <3>6. CASE Parses("decode") /\ output' = decode(Options(input))
      BY <2>1, <3>6 DEF Computed, Done, Parses
    <3>7. CASE /\ Next
               /\ parser \notin {"handle_ip", "check", "patch_http_url", "parse_tls_header", "decode"}
      BY <2>1, <3>7, Zenon DEF Computed, Done
    <3> QED BY <3>1, <3>2, <3>3, <3>4, <3>5, <3>6, <3>7 DEF Next, Parses
  <2> QED BY <2>2, <2>3
<1> QED BY <1>1, <1>2, PTL DEF Spec

\* handle_ip fits, whatever packets the kernel hands tun.
THEOREM EveryHandlerFits == Spec => []HandlerFitsPacket
<1>1. Chosen /\ Computed => HandlerFitsPacket
  <2> SUFFICES ASSUME Chosen, Computed, Done("handle_ip") PROVE Fits(input, output)
    BY DEF HandlerFitsPacket
  <2>1. input \in IpPackets /\ output = handle_ip(input)
    BY DEF Chosen, Computed, Done, Inputs
  <2> QED BY <2>1, IpPacketsAssumption, HandlerFits
<1> QED BY <1>1, ParsesInputs, PTL

\* The checksum of whatever is sent is right for its receiver.
THEOREM EveryChecksumVerifies == Spec => []ChecksumVerifies
<1>1. Chosen /\ Computed => ChecksumVerifies
  <2> SUFFICES ASSUME Chosen, Computed, Done("check") PROVE Verifies(output)
    BY DEF ChecksumVerifies
  <2>1. input \in Texts /\ output = Received(input.pseudo, input.header, input.data)
    BY DEF Chosen, Computed, Done, Inputs
  <2> QED BY <2>1, TextsAssumption, SentVerifies
<1> QED BY <1>1, ParsesInputs, PTL

\* The proxy gets every request in absolute form and otherwise as it was,
\* wherever among the headers its host stands, if the order in which
\* patch_http_url searches for words decides nothing.
THEOREM EveryRequestRewritten == Spec => []RequestRewritten
<1>1. Chosen /\ Computed => RequestRewritten
  <2> SUFFICES ASSUME Chosen, Computed, Done("patch_http_url"), Unambiguous(input),
                      Spelled(input)
               PROVE  output = Text(Absolute(input))
    BY DEF RequestRewritten
  <2>1. input \in Requests /\ output = patch_http_url(Text(input))
    BY DEF Chosen, Computed, Done, Inputs
  <2>2. Message(input)
    BY <2>1, RequestsAssumption
  <2> QED BY <2>1, <2>2, Rewritten, Zenon
<1> QED BY <1>1, ParsesInputs, PTL

\* The CONNECT names the first host of every hello that came whole, and no host
\* is named before a hello has: what follows it, the order of its extensions
\* and the kinds of the names before it change nothing.
THEOREM EveryServerNameFound == Spec => []ServerNameFound
<1>1. Chosen /\ Computed => ServerNameFound
  <2> SUFFICES ASSUME Chosen, Computed, Done("parse_tls_header")
               PROVE  output = IF input.more < 0 THEN NoName ELSE ServerName(input)
    BY DEF ServerNameFound
  <2>1. input \in Hellos /\ output = parse_tls_header(Sent(input))
    BY DEF Chosen, Computed, Done, Inputs
  <2>2. ClientHello(input)
    BY <2>1, HellosAssumption
  <2> QED BY <2>1, <2>2, NameFound, Zenon
<1> QED BY <1>1, ParsesInputs, PTL

\* A session gets the size and the scale that the SYN of an app asks for: the
\* last of each before the options end, whatever stands between them, the bytes
\* of an unknown option that look like a size or a scale included.
THEOREM EveryOptionsUnderstood == Spec => []OptionsUnderstood
<1>1. Chosen /\ Computed => OptionsUnderstood
  <2> SUFFICES ASSUME Chosen, Computed, Done("decode")
               PROVE  output = [mss |-> Said(input, "mss", DefaultMss), ws |-> Said(input, "scale", 0)]
    BY DEF OptionsUnderstood
  <2>1. input \in OptionLists /\ output = decode(Options(input))
    BY DEF Chosen, Computed, Done, Inputs
  <2>2. Offers(input)
    BY <2>1, OptionListsAssumption
  <2> QED BY <2>1, <2>2, OptionsParsed, Zenon
<1> QED BY <1>1, ParsesInputs, PTL
=============================================================================
