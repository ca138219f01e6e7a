--------------------------- MODULE TcpStreamProofs ---------------------------
(***************************************************************************)
(* The byte stream of a session: what reaches upstream, on every port, and *)
(* on the ports that have no tunnel what is confirmed to the app, what     *)
(* waits in the queue, and what the app is given.  The invariants tie the  *)
(* queue and the numbers of a session to the history of the bytes upstream *)
(* took, and to what the app has sent and advertised.                      *)
(***************************************************************************)
EXTENDS TcpSessionProofs, SeqNumProofs

(***************************************************************************)
(* A sequence number is spoken of by its distance from the first of its    *)
(* side.  The theorems are about connections whose bytes, with the SYN and *)
(* the FIN, fit the number space: the history does not wrap.               *)
(***************************************************************************)

LEMMA DistRange ==
    ASSUME NEW from \in SeqNums, NEW to \in SeqNums
    PROVE  Dist(from, to) \in Nat /\ Dist(from, to) < SeqSpace
BY DistType, SeqSpaceAssumption DEF SeqNums

\* Adding to a number adds to its distance, as long as that does not wrap.
LEMMA DistAdd ==
    ASSUME NEW from \in SeqNums, NEW to \in SeqNums, NEW n \in Nat,
           Dist(from, to) + n < SeqSpace
    PROVE  SeqAdd(to, n) \in SeqNums /\ Dist(from, SeqAdd(to, n)) = Dist(from, to) + n
<1>1. /\ from \in Nat /\ to \in Nat /\ from < SeqSpace /\ to < SeqSpace /\ SeqSpace \in Nat
      /\ Dist(from, to) = IF from <= to THEN to - from ELSE to - from + SeqSpace
  BY SeqSpaceAssumption, DistValue DEF SeqNums
<1>2. to + n < 2 * SeqSpace
  BY <1>1
<1>3. SeqAdd(to, n) = IF to + n < SeqSpace THEN to + n ELSE to + n - SeqSpace
  <2>1. CASE to + n < SeqSpace
    <3>1. to + n \in SeqNums
      BY <1>1, <2>1 DEF SeqNums
    <3> QED BY <2>1, <3>1, ModSmall DEF SeqAdd
  <2>2. CASE ~(to + n < SeqSpace)
    <3>1. to + n - SeqSpace \in SeqNums
      BY <1>1, <1>2, <2>2 DEF SeqNums
    <3>2. (to + n - SeqSpace) % SeqSpace = (to + n) % SeqSpace
      BY <1>1, SeqSpaceAssumption
    <3> QED BY <2>2, <3>1, <3>2, ModSmall DEF SeqAdd
  <2> QED BY <2>1, <2>2
<1>4. SeqAdd(to, n) \in SeqNums
  BY SeqAddType
<1>5. Dist(from, SeqAdd(to, n)) =
          IF from <= SeqAdd(to, n) THEN SeqAdd(to, n) - from ELSE SeqAdd(to, n) - from + SeqSpace
  BY <1>4, DistValue
<1> QED BY <1>1, <1>2, <1>3, <1>4, <1>5

LEMMA DistSelf == ASSUME NEW s \in SeqNums PROVE Dist(s, s) = 0
BY DistValue DEF SeqNums

LEMMA DistOfAdd ==
    ASSUME NEW from \in SeqNums, NEW n \in Nat, n < SeqSpace
    PROVE  SeqAdd(from, n) \in SeqNums /\ Dist(from, SeqAdd(from, n)) = n
BY DistSelf, DistAdd

LEMMA DistInjective ==
    ASSUME NEW from \in SeqNums, NEW s \in SeqNums, NEW t \in SeqNums,
           Dist(from, s) = Dist(from, t)
    PROVE  s = t
BY DistValue, SeqSpaceAssumption DEF SeqNums

-----------------------------------------------------------------------------
(***************************************************************************)
(* What a run of the forward loop hands to send, piece after piece.        *)
(***************************************************************************)

\* f holds the first i pieces of ss joined, for every i up to n.
Joins(f, ss, n) == f = [i \in 1 .. n |-> IF i = 1 THEN ss[i] ELSE f[i - 1] \o ss[i]]

LEMMA JoinsNext ==
    ASSUME NEW ss, NEW n \in Nat, NEW f, Joins(f, ss, n)
    PROVE  \E g : Joins(g, ss, n + 1)
<1> DEFINE g == [i \in 1 .. n + 1 |-> IF i = 1 THEN ss[i] ELSE f[i - 1] \o ss[i]]
<1>1. \A i \in 1 .. n : f[i] = IF i = 1 THEN ss[i] ELSE f[i - 1] \o ss[i]
  BY Zenon DEF Joins
<1>2. \A i \in 1 .. n + 1 : g[i] = IF i = 1 THEN ss[i] ELSE f[i - 1] \o ss[i]
  BY Zenon
<1>3. \A i \in 1 .. n : i \in 1 .. n + 1
  OBVIOUS
<1>4. \A i \in 1 .. n : g[i] = f[i]
  <2> HIDE DEF g
  <2> QED BY <1>1, <1>2, <1>3, Zenon
<1> HIDE DEF g
<1>5. \A i \in 1 .. n + 1 : i # 1 => f[i - 1] = g[i - 1]
  BY <1>4
<1>6. g = [i \in 1 .. n + 1 |-> IF i = 1 THEN ss[i] ELSE g[i - 1] \o ss[i]]
  <2>1. [i \in 1 .. n + 1 |-> IF i = 1 THEN ss[i] ELSE f[i - 1] \o ss[i]]
        = [i \in 1 .. n + 1 |-> IF i = 1 THEN ss[i] ELSE g[i - 1] \o ss[i]]
    BY <1>5
  <2> QED BY <2>1 DEF g
<1> QED BY <1>6 DEF Joins

LEMMA JoinsExist == \A ss : \A n \in Nat : \E f : Joins(f, ss, n)
<1> SUFFICES ASSUME NEW ss PROVE \A n \in Nat : \E f : Joins(f, ss, n)
  OBVIOUS
<1> DEFINE bad == {n \in Nat : ~\E f : Joins(f, ss, n)}
<1> SUFFICES ASSUME bad # {} PROVE FALSE
  OBVIOUS
<1>1. PICK n \in bad : \A m \in bad : n <= m
  BY LeastExists
<1>2. n # 0
  <2>1. Joins([i \in 1 .. 0 |-> 0], ss, 0)
    BY DEF Joins
  <2> QED BY <2>1
<1>3. n - 1 \in Nat /\ n - 1 \notin bad /\ (n - 1) + 1 = n
  BY <1>1, <1>2
<1>4. PICK f : Joins(f, ss, n - 1)
  BY <1>3, Zenon
<1>5. \E g : Joins(g, ss, n)
  BY <1>3, <1>4, JoinsNext
<1> QED BY <1>1, <1>5

\* FlattenSeq joins its pieces one by one.
LEMMA FlattenJoins ==
    ASSUME NEW ss, Len(ss) \in Nat \ {0}
    PROVE  \E f : /\ FlattenSeq(ss) = f[Len(ss)]
                  /\ f[1] = ss[1]
                  /\ \A i \in 2 .. Len(ss) : f[i] = f[i - 1] \o ss[i]
<1> DEFINE f == CHOOSE f : f = [i \in 1 .. Len(ss) |-> IF i = 1 THEN ss[i] ELSE f[i - 1] \o ss[i]]
<1>1. Joins(f, ss, Len(ss))
  BY JoinsExist DEF Joins
<1>2. FlattenSeq(ss) = f[Len(ss)]
  BY DEF FlattenSeq
<1> HIDE DEF f
<1>3. \A i \in 1 .. Len(ss) : f[i] = IF i = 1 THEN ss[i] ELSE f[i - 1] \o ss[i]
  BY <1>1, Zenon DEF Joins
<1>4. 1 \in 1 .. Len(ss) /\ \A i \in 2 .. Len(ss) : i \in 1 .. Len(ss) /\ i # 1
  OBVIOUS
<1>5. f[1] = ss[1] /\ \A i \in 2 .. Len(ss) : f[i] = f[i - 1] \o ss[i]
  BY <1>3, <1>4, Zenon
<1> QED BY <1>2, <1>5

LEMMA ConcatIs ==
    ASSUME NEW S, NEW s \in Seq(S), NEW t \in Seq(S)
    PROVE  /\ s \o t \in Seq(S) /\ Len(s \o t) = Len(s) + Len(t)
           /\ \A i \in 1 .. Len(s) + Len(t) :
                 (s \o t)[i] = IF i <= Len(s) THEN s[i] ELSE t[i - Len(s)]
OBVIOUS

\* Numbers in increasing order, from lo up to but not including hi.
Ascends(s, lo, hi) ==
    /\ s \in Seq(Nat)
    /\ \A i \in DOMAIN s : lo <= s[i] /\ s[i] < hi
    /\ \A i, j \in DOMAIN s : i < j => s[i] < s[j]

LEMMA AscendsJoin ==
    ASSUME NEW lo \in Nat, NEW mid \in Nat, NEW hi \in Nat, lo <= mid, mid <= hi,
           NEW s, NEW t, Ascends(s, lo, mid), Ascends(t, mid, hi)
    PROVE  Ascends(s \o t, lo, hi)
<1>1. s \in Seq(Nat) /\ t \in Seq(Nat)
  BY DEF Ascends
<1>2. /\ s \o t \in Seq(Nat) /\ Len(s \o t) = Len(s) + Len(t)
      /\ \A i \in 1 .. Len(s) + Len(t) :
            (s \o t)[i] = IF i <= Len(s) THEN s[i] ELSE t[i - Len(s)]
  BY <1>1
<1>3. \A i \in DOMAIN (s \o t) :
          \/ i \in DOMAIN s /\ (s \o t)[i] = s[i]
          \/ i > Len(s) /\ i - Len(s) \in DOMAIN t /\ (s \o t)[i] = t[i - Len(s)]
  BY <1>1, <1>2
<1>4. \A i \in DOMAIN (s \o t) : lo <= (s \o t)[i] /\ (s \o t)[i] < hi
  BY <1>1, <1>3 DEF Ascends
<1>5. ASSUME NEW i \in DOMAIN (s \o t), NEW j \in DOMAIN (s \o t), i < j
      PROVE  (s \o t)[i] < (s \o t)[j]
  <2>1. DOMAIN (s \o t) = 1 .. Len(s) + Len(t) /\ Len(s) \in Nat /\ Len(t) \in Nat
    BY <1>1, <1>2
  <2>2. CASE j <= Len(s)
    <3>1. i \in DOMAIN s /\ j \in DOMAIN s /\ (s \o t)[i] = s[i] /\ (s \o t)[j] = s[j]
      BY <1>1, <1>2, <1>5, <2>1, <2>2
    <3> QED BY <1>5, <3>1 DEF Ascends
  <2>3. CASE i > Len(s)
    <3>1. /\ i - Len(s) \in DOMAIN t /\ j - Len(s) \in DOMAIN t
          /\ (s \o t)[i] = t[i - Len(s)] /\ (s \o t)[j] = t[j - Len(s)]
          /\ i - Len(s) < j - Len(s)
      <4>1. /\ i \in Nat /\ j \in Nat /\ j > Len(s)
            /\ i - Len(s) < j - Len(s)
        BY <1>5, <2>1, <2>3
      <4>2. ~(i <= Len(s)) /\ ~(j <= Len(s))
        BY <2>1, <2>3, <4>1
      <4>3. (s \o t)[i] = t[i - Len(s)] /\ (s \o t)[j] = t[j - Len(s)]
        BY <1>3, <2>1, <2>3, <4>1
      <4>4. DOMAIN t = 1 .. Len(t)
        BY <1>1
      <4> QED BY <2>1, <2>3, <4>1, <4>3, <4>4
    <3> QED BY <3>1 DEF Ascends
  <2>4. CASE i <= Len(s) /\ j > Len(s)
    <3>1. /\ i \in DOMAIN s /\ j - Len(s) \in DOMAIN t
          /\ (s \o t)[i] = s[i] /\ (s \o t)[j] = t[j - Len(s)]
      BY <1>1, <1>2, <1>5, <2>1, <2>4
    <3>2. s[i] \in Nat /\ t[j - Len(s)] \in Nat /\ s[i] < mid /\ mid <= t[j - Len(s)]
      BY <1>1, <3>1, ElementOfSeq DEF Ascends
    <3> QED BY <3>1, <3>2
  <2> QED BY <1>5, <2>1, <2>2, <2>3, <2>4
<1> QED BY <1>2, <1>4, <1>5 DEF Ascends

LEMMA FlattenAscends ==
    ASSUME NEW n \in Nat \ {0}, NEW ss, Len(ss) = n, NEW lo \in [1 .. n + 1 -> Nat],
           \A i \in 1 .. n : lo[i] <= lo[i + 1] /\ Ascends(ss[i], lo[i], lo[i + 1])
    PROVE  Ascends(FlattenSeq(ss), lo[1], lo[n + 1])
<1>1. PICK f : /\ FlattenSeq(ss) = f[n] /\ f[1] = ss[1]
               /\ \A i \in 2 .. n : f[i] = f[i - 1] \o ss[i]
  BY FlattenJoins
<1> DEFINE Good(i) == lo[1] <= lo[i + 1] /\ Ascends(f[i], lo[1], lo[i + 1])
           bad == {i \in 1 .. n : ~Good(i)}
<1>2. \A i \in 1 .. n + 1 : lo[i] \in Nat
  OBVIOUS
<1>3. bad = {}
  <2> SUFFICES ASSUME bad # {} PROVE FALSE
    OBVIOUS
  <2>1. bad \in SUBSET Nat
    OBVIOUS
  <2>2. PICK i \in bad : \A j \in bad : i <= j
    BY <2>1, LeastExists
  <2>3. i # 1
    <3>1. Good(1)
      BY <1>1
    <3> QED BY <3>1, <2>2
  <2>4. i \in 2 .. n /\ i - 1 \in 1 .. n /\ i - 1 \notin bad /\ (i - 1) + 1 = i
    <3>1. i \in 1 .. n
      OBVIOUS
    <3> HIDE DEF bad
    <3> QED BY <2>2, <2>3, <3>1
  <2>5. lo[1] <= lo[i] /\ Ascends(f[i - 1], lo[1], lo[i])
    BY <2>4
  <2>6. lo[i] <= lo[i + 1] /\ Ascends(ss[i], lo[i], lo[i + 1]) /\ lo[i + 1] \in Nat /\ lo[i] \in Nat
    BY <1>2, <2>4
  <2>7. Ascends(f[i - 1] \o ss[i], lo[1], lo[i + 1])
    BY <1>2, <2>5, <2>6, AscendsJoin
  <2>8. Good(i)
    <3>1. f[i] = f[i - 1] \o ss[i]
      BY <1>1, <2>4
    <3>2. lo[1] <= lo[i + 1] /\ lo[1] \in Nat
      BY <1>2, <2>5, <2>6
    <3> QED BY <2>7, <3>1, <3>2
  <2> QED BY <2>2, <2>8
<1>4. n \in 1 .. n
  OBVIOUS
<1> QED BY <1>1, <1>3, <1>4

LEMMA BytesAscend ==
    ASSUME NEW first \in Nat, NEW last \in Int, NEW hi \in Nat, last < hi
    PROVE  Ascends(Bytes(first, last), first, hi)
<1> DEFINE m == last - first + 1
<1>1. Bytes(first, last) = [i \in 1 .. m |-> first + i - 1]
  BY DEF Bytes
<1>2. \A i \in 1 .. m : first + i - 1 \in Nat /\ first <= first + i - 1 /\ first + i - 1 < hi
  OBVIOUS
<1>3. Bytes(first, last) \in Seq(Nat) /\ DOMAIN Bytes(first, last) = 1 .. m
  <2>1. CASE m \in Nat
    BY <1>1, <1>2, <2>1
  <2>2. CASE m \notin Nat
    <3>1. 1 .. m = 1 .. 0
      BY <2>2
    <3> QED BY <1>1, <1>2, <3>1
  <2> QED BY <2>1, <2>2
<1> QED BY <1>1, <1>2, <1>3 DEF Ascends

LEMMA BytesJoin ==
    ASSUME NEW lo \in Nat, NEW mid \in Nat, NEW hi \in Nat, lo <= mid, mid <= hi
    PROVE  Bytes(lo, mid - 1) \o Bytes(mid, hi - 1) = Bytes(lo, hi - 1)
<1> DEFINE s == Bytes(lo, mid - 1)
           t == Bytes(mid, hi - 1)
           u == Bytes(lo, hi - 1)
<1>1. /\ s \in Seq(Nat) /\ Len(s) = mid - lo /\ \A i \in 1 .. mid - lo : s[i] = lo + i - 1
      /\ t \in Seq(Nat) /\ Len(t) = hi - mid /\ \A i \in 1 .. hi - mid : t[i] = mid + i - 1
      /\ u \in Seq(Nat) /\ Len(u) = hi - lo /\ \A i \in 1 .. hi - lo : u[i] = lo + i - 1
  BY DEF Bytes
<1> HIDE DEF s, t, u
<1>2. /\ s \o t \in Seq(Nat) /\ Len(s \o t) = Len(s) + Len(t)
      /\ \A i \in 1 .. Len(s) + Len(t) :
            (s \o t)[i] = IF i <= Len(s) THEN s[i] ELSE t[i - Len(s)]
  <2>1. s \in Seq(Nat) /\ t \in Seq(Nat)
    BY <1>1
  <2> QED BY <2>1, ConcatIs
<1>3. ASSUME NEW i \in 1 .. hi - lo PROVE (s \o t)[i] = u[i]
  <2>1. i \in 1 .. Len(s) + Len(t)
    BY <1>1
  <2>2. CASE i <= mid - lo
    <3>1. i \in 1 .. mid - lo /\ (s \o t)[i] = s[i]
      BY <1>1, <1>2, <2>1, <2>2
    <3> QED BY <1>1, <3>1
  <2>3. CASE ~(i <= mid - lo)
    <3>1. i - (mid - lo) \in 1 .. hi - mid
      BY <2>3
    <3>2. (s \o t)[i] = t[i - (mid - lo)]
      <4>1. Len(s) = mid - lo
        BY <1>1
      <4> QED BY <1>2, <2>1, <2>3, <4>1
    <3>3. t[i - (mid - lo)] = mid + (i - (mid - lo)) - 1 /\ u[i] = lo + i - 1
      BY <1>1, <3>1
    <3> QED BY <3>2, <3>3
  <2> QED BY <2>2, <2>3
<1>4. s \o t = u
  <2>1. s \o t \in Seq(Nat) /\ u \in Seq(Nat) /\ Len(s \o t) = Len(u)
    BY <1>1, <1>2
  <2>2. \A i \in 1 .. Len(s \o t) : (s \o t)[i] = u[i]
    BY <1>1, <1>3, <2>1
  <2> QED BY <2>1, <2>2, SeqEqual
<1> QED BY <1>4 DEF s, t, u

LEMMA FlattenBytes ==
    ASSUME NEW n \in Nat \ {0}, NEW ss, Len(ss) = n, NEW lo \in [1 .. n + 1 -> Nat],
           \A i \in 1 .. n : lo[i] <= lo[i + 1] /\ ss[i] = Bytes(lo[i], lo[i + 1] - 1)
    PROVE  lo[1] <= lo[n + 1] /\ FlattenSeq(ss) = Bytes(lo[1], lo[n + 1] - 1)
<1>1. PICK f : /\ FlattenSeq(ss) = f[n] /\ f[1] = ss[1]
               /\ \A i \in 2 .. n : f[i] = f[i - 1] \o ss[i]
  BY FlattenJoins
<1> DEFINE Good(i) == lo[1] <= lo[i + 1] /\ f[i] = Bytes(lo[1], lo[i + 1] - 1)
           bad == {i \in 1 .. n : ~Good(i)}
<1>2. \A i \in 1 .. n + 1 : lo[i] \in Nat
  OBVIOUS
<1>3. bad = {}
  <2> SUFFICES ASSUME bad # {} PROVE FALSE
    OBVIOUS
  <2>1. bad \in SUBSET Nat
    OBVIOUS
  <2>2. PICK i \in bad : \A j \in bad : i <= j
    BY <2>1, LeastExists
  <2>3. i # 1
    <3>1. lo[1] <= lo[1 + 1] /\ ss[1] = Bytes(lo[1], lo[1 + 1] - 1)
      <4>1. 1 \in 1 .. n
        OBVIOUS
      <4> QED BY <4>1, Zenon
    <3>2. f[1] = Bytes(lo[1], lo[1 + 1] - 1)
      BY <1>1, <3>1, Zenon
    <3>3. Good(1)
      BY <3>1, <3>2, Zenon
    <3> QED BY <2>2, <3>3, Zenon
  <2>4. i \in 2 .. n /\ i - 1 \in 1 .. n /\ i - 1 \notin bad /\ (i - 1) + 1 = i
    <3>1. i \in 1 .. n
      OBVIOUS
    <3> HIDE DEF bad
    <3> QED BY <2>2, <2>3, <3>1
  <2>5. lo[1] <= lo[i] /\ f[i - 1] = Bytes(lo[1], lo[i] - 1)
    BY <2>4
  <2>6. /\ lo[i] <= lo[i + 1] /\ ss[i] = Bytes(lo[i], lo[i + 1] - 1)
        /\ lo[i + 1] \in Nat /\ lo[i] \in Nat /\ lo[1] \in Nat
    BY <1>2, <2>4
  <2>7. f[i] = Bytes(lo[1], lo[i] - 1) \o Bytes(lo[i], lo[i + 1] - 1)
    BY <1>1, <2>4, <2>5, <2>6
  <2>8. f[i] = Bytes(lo[1], lo[i + 1] - 1)
    BY <2>5, <2>6, <2>7, BytesJoin
  <2>9. Good(i)
    BY <2>5, <2>6, <2>8
  <2> QED BY <2>2, <2>9
<1>4. n \in 1 .. n
  OBVIOUS
<1> QED BY <1>1, <1>3, <1>4

-----------------------------------------------------------------------------
(***************************************************************************)
(* The moves of a session, as far as the queue, the numbers and the state  *)
(* are concerned.                                                          *)
(***************************************************************************)

Over == {"CLOSING", "CLOSE"}

SameLink(s, t) == t.port = s.port /\ t.connect = s.connect

\* Nothing is received, forwarded or given to the app; the session may end,
\* and a connection that was not answered yet is then confirmed by the reset.
Quiet(s, t) ==
    /\ SameLink(s, t)
    /\ t.forward = s.forward /\ t.local_seq = s.local_seq
    /\ s.state = "CLOSE" => t.state = "CLOSE"
    /\ \/ /\ t.state = s.state /\ t.socket = s.socket /\ t.remote_seq = s.remote_seq
          /\ t.acked = s.acked /\ t.send_window = s.send_window
       \/ t.state \in Over /\ t.remote_seq = s.remote_seq
       \/ s.state = "LISTEN" /\ t.state = "CLOSING" /\ t.remote_seq = SeqAdd(s.remote_seq, 1)

\* The connection stands, the SYN is answered.
Answers(s, t) ==
    /\ SameLink(s, t)
    /\ t.forward = s.forward /\ t.socket = s.socket
    /\ s.state = "LISTEN" /\ t.state = "SYN_RECV"
    /\ t.remote_seq = SeqAdd(s.remote_seq, 1) /\ t.local_seq = SeqAdd(s.local_seq, 1)

\* The queue after a packet.
Queued(s, p) == IF p.len > 0 THEN queue_tcp(s, p).forward ELSE s.forward

\* A packet ends the session.
Rejects(s, t, p) ==
    /\ t.state \in Over /\ (s.state = "CLOSE" => t.state = "CLOSE")
    /\ \/ t.forward = s.forward
       \/ /\ s.socket /\ s.state \notin Over \cup {"CLOSE_WAIT"}
          /\ t.forward = Queued(s, p)
    /\ \/ t.remote_seq = s.remote_seq
       \/ /\ s.state = "LISTEN" /\ t.state = "CLOSING"
          /\ t.remote_seq = SeqAdd(s.remote_seq, 1)

\* The session takes a packet in.
Accepts(s, t, p) ==
    /\ s.state \notin Over
    /\ p.len > 0 => s.socket /\ s.state # "CLOSE_WAIT"
    /\ t.forward = Queued(s, p)
    /\ t.send_window = p.win
    /\ \/ /\ t.state = s.state /\ t.remote_seq = s.remote_seq
          /\ t.acked \in {s.acked} \cup (IF p.ack THEN {p.ackseq} ELSE {})
       \/ /\ s.state = "SYN_RECV" /\ t.state = "ESTABLISHED" /\ t.remote_seq = s.remote_seq
          /\ p.ack /\ p.ackseq = s.local_seq /\ t.acked = p.ackseq
       \/ /\ p.fin /\ s.state = "ESTABLISHED" /\ t.forward # <<>>
          /\ t.state = "CLOSE_WAIT" /\ t.remote_seq = s.remote_seq /\ t.acked = s.acked
       \/ /\ p.fin /\ t.forward = <<>> /\ t.remote_seq = SeqAdd(s.remote_seq, 1)
          /\ \/ s.state = "ESTABLISHED" /\ t.state = "CLOSE_WAIT" /\ t.acked = s.acked
             \/ s.state = "ESTABLISHED" /\ t.state = "CLOSING"
             \/ s.state = "FIN_WAIT1" /\ t.state \in Over

Receives(s, t, p) ==
    /\ SameLink(s, t)
    /\ t.socket = s.socket /\ t.local_seq = s.local_seq
    /\ Rejects(s, t, p) \/ Accepts(s, t, p)

LEMMA WriteRstQuiet ==
    ASSUME NEW s \in Session
    PROVE  Quiet(s, write_rst(s)) /\ write_rst(s).socket = s.socket
BY DEF write_rst, Session, TcpStates, Quiet, SameLink, Over

LEMMA ClosingQuiet ==
    ASSUME NEW s \in Session, s.state # "CLOSE"
    PROVE  Quiet(s, Closing(s)) /\ Closing(s).socket = s.socket
BY DEF Closing, Session, TcpStates, Quiet, SameLink, Over

\* Fin of a session whose queue holds the packet's data.
LEMMA FinMoves ==
    ASSUME NEW s \in Session, Fin(s), s.state = "FIN_WAIT1" => s.forward = <<>>
    PROVE  /\ sess'.port = s.port /\ sess'.connect = s.connect /\ sess'.socket = s.socket
           /\ sess'.local_seq = s.local_seq /\ sess'.forward = s.forward
           /\ sess'.send_window = s.send_window /\ sess'.acked = s.acked
           /\ \/ sess' = s
              \/ /\ s.state = "ESTABLISHED" /\ s.forward # <<>>
                 /\ sess'.state = "CLOSE_WAIT" /\ sess'.remote_seq = s.remote_seq
              \/ /\ s.forward = <<>> /\ sess'.remote_seq = SeqAdd(s.remote_seq, 1)
                 /\ \/ s.state = "ESTABLISHED" /\ sess'.state \in {"CLOSE_WAIT", "CLOSING"}
                    \/ s.state = "FIN_WAIT1" /\ sess'.state \in Over
<1> DEFINE c == [s EXCEPT !.remote_seq = SeqAdd(@, 1)]
           w == [c EXCEPT !.state = "CLOSE_WAIT"]
           d == [c EXCEPT !.state = "CLOSE"]
           h == [s EXCEPT !.state = "CLOSE_WAIT"]
<1>1. \/ s.state = "ESTABLISHED" /\ s.forward = <<>> /\ sess' \in {w, Closing(c)}
      \/ s.state = "ESTABLISHED" /\ s.forward # <<>> /\ sess' = h
      \/ s.state = "FIN_WAIT1" /\ sess' \in {d, Closing(c)}
      \/ sess' = s
  BY DEF Fin
<1>2. /\ c.port = s.port /\ c.connect = s.connect /\ c.socket = s.socket
      /\ c.local_seq = s.local_seq /\ c.forward = s.forward
      /\ c.send_window = s.send_window /\ c.acked = s.acked
      /\ c.remote_seq = SeqAdd(s.remote_seq, 1) /\ c.state = s.state
  BY DEF Session
<1>3. ASSUME NEW t \in {w, d, Closing(c)}
      PROVE  /\ t.port = c.port /\ t.connect = c.connect /\ t.socket = c.socket
             /\ t.local_seq = c.local_seq /\ t.forward = c.forward
             /\ t.send_window = c.send_window /\ t.acked = c.acked
             /\ t.remote_seq = c.remote_seq
  BY <1>3 DEF Session, Closing
<1>4. w.state = "CLOSE_WAIT" /\ d.state = "CLOSE" /\ Closing(c).state = "CLOSING"
  BY DEF Session, Closing
<1>5. /\ h.port = s.port /\ h.connect = s.connect /\ h.socket = s.socket
      /\ h.local_seq = s.local_seq /\ h.forward = s.forward
      /\ h.send_window = s.send_window /\ h.acked = s.acked
      /\ h.remote_seq = s.remote_seq /\ h.state = "CLOSE_WAIT"
  BY DEF Session
<1> HIDE DEF c, w, d, h
<1> QED BY <1>1, <1>2, <1>3, <1>4, <1>5 DEF Over

LEMMA AckMoves ==
    ASSUME NEW s \in Session, NEW p \in Packets
    PROVE  LET t == Ack(s, p)
           IN  /\ t.port = s.port /\ t.connect = s.connect /\ t.socket = s.socket
               /\ t.local_seq = s.local_seq /\ t.forward = s.forward
               /\ t.send_window = s.send_window /\ t.acked = p.ackseq
               /\ t.remote_seq = s.remote_seq
               /\ t.state = CASE s.state = "SYN_RECV" -> "ESTABLISHED"
                              [] s.state = "LAST_ACK" -> "CLOSING"
                              [] OTHER -> s.state
BY DEF Ack, Session

LEMMA OtherAckMoves ==
    ASSUME NEW s \in Session, NEW p \in Packets
    PROVE  LET t == OtherAck(s, p)
           IN  \/ t = s
               \/ t = write_rst(s)
               \/ /\ t.port = s.port /\ t.connect = s.connect /\ t.socket = s.socket
                  /\ t.local_seq = s.local_seq /\ t.forward = s.forward
                  /\ t.send_window = s.send_window /\ t.acked = p.ackseq
                  /\ t.remote_seq = s.remote_seq /\ t.state = s.state
BY DEF OtherAck, Session

LEMMA QueueFields ==
    ASSUME NEW s \in Session, NEW p
    PROVE  LET t == queue_tcp(s, p)
           IN  /\ t.local_seq = s.local_seq /\ t.remote_seq = s.remote_seq
               /\ t.acked = s.acked /\ t.send_window = s.send_window
<1> DEFINE At(f) == [s EXCEPT !.forward = f]
<1>1. \E f : queue_tcp(s, p) = s \/ queue_tcp(s, p) = At(f)
  BY DEF queue_tcp
<1>2. ASSUME NEW f
      PROVE  /\ At(f).local_seq = s.local_seq /\ At(f).remote_seq = s.remote_seq
             /\ At(f).acked = s.acked /\ At(f).send_window = s.send_window
  BY DEF Session
<1> HIDE DEF At
<1> QED BY <1>1, <1>2

\* queue_tcp reads nothing but the queue and remote_seq.
LEMMA QueueReads ==
    ASSUME NEW s \in Session, NEW t \in Session, NEW p,
           t.forward = s.forward, t.remote_seq = s.remote_seq
    PROVE  queue_tcp(t, p).forward = queue_tcp(s, p).forward
<1>1. ASSUME NEW u \in Session, NEW f PROVE [u EXCEPT !.forward = f].forward = f
  BY DEF Session
<1> DEFINE q == s.forward
           at == Position(q, p.seq)
           new == Inserted(q, at, [seq |-> p.seq, len |-> p.len, sent |-> 0, off |-> p.off])
           old == [q EXCEPT ![at] = [@ EXCEPT !.off = p.off]]
           f == IF at = Len(q) + 1 \/ q[at].seq # p.seq THEN new ELSE old
<1>2. ASSUME NEW u \in Session, u.forward = q, u.remote_seq = s.remote_seq
      PROVE  queue_tcp(u, p) = IF compare_u32(p.seq, s.remote_seq) < 0 THEN u
                               ELSE [u EXCEPT !.forward = f]
  BY <1>2 DEF queue_tcp
<1> HIDE DEF f
<1>3. ASSUME NEW u \in Session, u.forward = q, u.remote_seq = s.remote_seq
      PROVE  queue_tcp(u, p).forward = IF compare_u32(p.seq, s.remote_seq) < 0 THEN q ELSE f
  BY <1>1, <1>2, <1>3
<1> QED BY <1>3

LEMMA KnownSessionMoves ==
    ASSUME IInv, NEW p \in Packets, KnownSession(p)
    PROVE  Receives(sess, sess', p)
<1>1. sess # NoSession /\ sess \in Session
  BY SessionOf DEF KnownSession, IInv
<1>2. /\ sess.state \in {"LISTEN", "SYN_RECV", "ESTABLISHED", "CLOSE_WAIT"} => sess.socket
      /\ sess.state \in {"FIN_WAIT1", "LAST_ACK", "CLOSE"} => ~sess.socket
      /\ sess.state = "FIN_WAIT1" => sess.forward = <<>>
  BY <1>1 DEF IInv, Control, SocketMatchesState, NothingStranded
<1>3. CASE Closed(p)
  <2>1. sess' = write_rst(sess) /\ sess.state \in Over
    BY <1>3 DEF Closed, Over
  <2> QED BY <1>1, <2>1, WriteRstQuiet DEF Quiet, Receives, Rejects, Over
<1>4. CASE Open(p)
  <2> DEFINE s == [sess EXCEPT !.age = 0, !.send_window = p.win]
             refused == p.len > 0 /\ (~s.socket \/ s.state = "CLOSE_WAIT")
             q == IF p.len > 0 THEN queue_tcp(s, p) ELSE s
  <2>1. /\ s \in Session /\ s.port = sess.port /\ s.connect = sess.connect
        /\ s.socket = sess.socket /\ s.forward = sess.forward /\ s.state = sess.state
        /\ s.remote_seq = sess.remote_seq /\ s.local_seq = sess.local_seq
        /\ s.acked = sess.acked /\ s.send_window = p.win
    BY <1>1 DEF Session, Packets
  <2>2. sess.state \notin Over
    BY <1>4 DEF Open, Over
  <2>3. /\ refused /\ sess' = write_rst(s)
        \/ /\ ~refused
           /\ \/ sess' = Closing(q)
              \/ sess' = q
              \/ p.fin /\ Fin(q)
              \/ p.ack /\ p.ackseq = q.local_seq /\ sess' = Ack(q, p)
              \/ p.ack /\ sess' = OtherAck(q, p)
    BY <1>4 DEF Open, s, q
  <2> HIDE DEF s
  <2>4. CASE refused /\ sess' = write_rst(s)
    <3>1. Quiet(s, sess') /\ sess'.socket = s.socket /\ sess'.state = "CLOSING"
      BY <2>1, <2>2, <2>4, WriteRstQuiet, WriteRst DEF Over
    <3> QED BY <2>1, <2>2, <3>1 DEF Quiet, Receives, Rejects, SameLink, Over
  <2>5. CASE ~refused
    <3>1. /\ q \in Session /\ q.port = sess.port /\ q.connect = sess.connect
          /\ q.socket = sess.socket /\ q.forward = Queued(sess, p) /\ q.state = sess.state
          /\ q.remote_seq = sess.remote_seq /\ q.local_seq = sess.local_seq
          /\ q.acked = sess.acked /\ q.send_window = p.win
      <4>1. CASE p.len > 0
        <5>1. queue_tcp(s, p).forward = queue_tcp(sess, p).forward
          BY <1>1, <2>1, QueueReads
        <5> QED BY <2>1, <4>1, <5>1, QueueTcp, QueueFields DEF Queued, Kept, Placed
      <4>2. CASE ~(p.len > 0)
        BY <2>1, <4>2 DEF Queued
      <4> QED BY <4>1, <4>2
    <3>2. /\ p.len > 0 => sess.socket /\ sess.state # "CLOSE_WAIT"
          /\ q.forward # sess.forward => sess.socket /\ sess.state # "CLOSE_WAIT"
      BY <2>1, <2>5, <3>1 DEF Queued
    <3>3. q.state = "FIN_WAIT1" => q.forward = <<>>
      BY <1>2, <3>1, <3>2
    <3> HIDE DEF q
    <3>4. ASSUME Quiet(q, sess'), sess'.socket = q.socket, sess'.state \in Over
          PROVE  Receives(sess, sess', p)
      BY <2>2, <3>1, <3>2, <3>4 DEF Quiet, Receives, Rejects, SameLink, Over
    <3>5. CASE sess' = Closing(q)
      <4>1. q.state # "CLOSE" /\ sess'.state = "CLOSING"
        BY <2>2, <3>1, <3>5, ClosingType DEF Over
      <4> QED BY <3>1, <3>4, <3>5, <4>1, ClosingQuiet DEF Over
    <3>6. CASE sess' = q
      BY <2>2, <3>1, <3>2, <3>6 DEF Receives, Accepts, SameLink
    <3>7. CASE p.fin /\ Fin(q)
      <4>1. CASE sess' = q
        BY <3>6, <4>1
      <4>2. CASE sess' # q
        BY <2>2, <3>1, <3>2, <3>3, <3>7, <4>2, FinMoves DEF Receives, Accepts, SameLink, Over
      <4> QED BY <4>1, <4>2
    <3>8. CASE p.ack /\ p.ackseq = q.local_seq /\ sess' = Ack(q, p)
      <4>1. /\ sess'.port = q.port /\ sess'.connect = q.connect /\ sess'.socket = q.socket
            /\ sess'.local_seq = q.local_seq /\ sess'.forward = q.forward
            /\ sess'.send_window = q.send_window /\ sess'.acked = p.ackseq
            /\ sess'.remote_seq = q.remote_seq
            /\ sess'.state = CASE q.state = "SYN_RECV" -> "ESTABLISHED"
                           [] q.state = "LAST_ACK" -> "CLOSING"
                           [] OTHER -> q.state
        BY <3>1, <3>8, AckMoves
      <4>2. CASE q.state = "LAST_ACK"
        BY <1>2, <2>2, <3>1, <3>2, <4>1, <4>2 DEF Receives, Rejects, SameLink, Over
      <4>3. CASE q.state = "SYN_RECV"
        BY <2>2, <3>1, <3>2, <3>8, <4>1, <4>3 DEF Receives, Accepts, SameLink
      <4>4. CASE q.state \notin {"LAST_ACK", "SYN_RECV"}
        BY <2>2, <3>1, <3>2, <3>8, <4>1, <4>4 DEF Receives, Accepts, SameLink
      <4> QED BY <4>2, <4>3, <4>4
    <3>9. CASE p.ack /\ sess' = OtherAck(q, p)
      <4>1. CASE sess' = write_rst(q)
        <5>1. Quiet(q, sess') /\ sess'.socket = q.socket /\ sess'.state = "CLOSING"
          BY <2>2, <3>1, <4>1, WriteRstQuiet, WriteRst DEF Over
        <5> QED BY <3>4, <5>1 DEF Over
      <4>2. CASE sess' # write_rst(q) /\ sess' # q
        BY <2>2, <3>1, <3>2, <3>9, <4>2, OtherAckMoves DEF Receives, Accepts, SameLink
      <4> QED BY <3>6, <4>1, <4>2
    <3> QED BY <2>3, <2>5, <3>5, <3>6, <3>7, <3>8, <3>9
  <2> QED BY <2>3, <2>4, <2>5
<1> QED BY <1>3, <1>4 DEF KnownSession

-----------------------------------------------------------------------------
\* The engine's own moves.

\* Nothing is confirmed either.
Still(s, t) ==
    /\ SameLink(s, t)
    /\ t.forward = s.forward /\ t.local_seq = s.local_seq /\ t.remote_seq = s.remote_seq
    /\ s.state = "CLOSE" => t.state = "CLOSE"
    /\ \/ /\ t.state = s.state /\ t.socket = s.socket
          /\ t.acked = s.acked /\ t.send_window = s.send_window
       \/ t.state \in Over

LEMMA StillIsQuiet == \A s, t : Still(s, t) => Quiet(s, t)
BY DEF Still, Quiet

LEMMA StillTwice ==
    ASSUME NEW s, NEW t, NEW u, Still(s, t), Still(t, u)
    PROVE  Still(s, u)
BY DEF Still, SameLink, Over

LEMMA MonitorStill ==
    ASSUME NEW s \in Session, NEW k, NEW alive, NEW modified, s.state # "CLOSE"
    PROVE  Still(s, monitor_tcp_session(s, k, alive, modified))
<1> DEFINE wanted == Wanted(s, k)
           polled == IF /\ s.state \in {"ESTABLISHED", "CLOSE_WAIT"}
                        /\ get_send_window(s) = 0
                     THEN Written(s, alive) ELSE s
           armed == [polled EXCEPT !.events = wanted,
                                   !.asked = IF modified THEN wanted ELSE @,
                                   !.state = IF modified THEN @ ELSE "CLOSING"]
<1>1. polled = s \/ polled = Closing(s)
  BY DEF Written
<1>2. monitor_tcp_session(s, k, alive, modified) \in {polled, armed}
  BY DEF monitor_tcp_session, polled, wanted
<1> HIDE DEF polled, wanted
<1>3. polled \in Session /\ Still(s, polled) /\ polled.state # "CLOSE"
  <2>1. CASE polled = s
    BY <2>1 DEF Still, SameLink
  <2>2. CASE polled = Closing(s)
    <3>1. Closing(s) \in Session
      BY ClosingType
    <3>2. Still(s, Closing(s)) /\ Closing(s).state # "CLOSE"
      BY DEF Still, SameLink, Over, Closing, Session
    <3> QED BY <2>2, <3>1, <3>2
  <2> QED BY <1>1, <2>1, <2>2
<1>4. Still(polled, armed)
  BY <1>3 DEF Still, SameLink, Over, Session
<1> HIDE DEF armed
<1> QED BY <1>2, <1>3, <1>4, StillTwice

LEMMA CheckStill ==
    ASSUME NEW s \in Session, NEW n
    PROVE  LET t == check_tcp_session(s, n)
           IN  /\ Still(s, t)
               /\ t.state = "CLOSE" /\ s.state # "CLOSE" => ~Lingered(t)
<1> DEFINE expired == /\ s.state \notin {"CLOSING", "CLOSE"}
                      /\ s.age > get_tcp_timeout(s.state, n)
           t == IF ~expired THEN s
                ELSE IF s.state = "LISTEN" THEN Closing(s) ELSE write_rst(s)
           closed == [t EXCEPT !.state = "CLOSE", !.socket = FALSE, !.age = 0]
<1>1. \/ t = s
      \/ s.state \notin Over /\ t = Closing(s)
      \/ s.state \notin Over \cup {"LISTEN"} /\ t = write_rst(s)
  BY DEF Over
<1>2. check_tcp_session(s, n) = IF t.state = "CLOSING" THEN closed ELSE t
  BY DEF check_tcp_session
<1> HIDE DEF t
<1>3. t \in Session /\ Still(s, t) /\ (t = s \/ t.state = "CLOSING")
  <2>1. CASE t = s
    BY <2>1 DEF Still, SameLink
  <2>2. CASE s.state \notin Over /\ t = Closing(s)
    BY <2>2, ClosingType DEF Still, SameLink, Over, Closing, Session
  <2>3. CASE s.state \notin Over \cup {"LISTEN"} /\ t = write_rst(s)
    BY <2>3, WriteRst DEF Still, SameLink, Over, write_rst, Session
  <2> QED BY <1>1, <2>1, <2>2, <2>3
<1>4. Still(t, closed) /\ closed.state = "CLOSE" /\ closed.age = 0
  BY <1>3 DEF Still, SameLink, Over, Session
<1>5. ~Lingered(closed)
  BY <1>4, TcpAssumption DEF Lingered
<1> HIDE DEF closed
<1> QED BY <1>2, <1>3, <1>4, <1>5, StillTwice

\* A turn of the loop: only a session that has lingered in CLOSE is freed.
LEMMA LoopMoves ==
    ASSUME IInv, sess # NoSession, NEW due \in BOOLEAN, Loop(due)
    PROVE  /\ UNCHANGED <<ev, app, upstream>> /\ ev = {}
           /\ \/ sess' = NoSession /\ sess.state = "CLOSE" /\ sock' \in {sock, NoSocket}
              \/ /\ sess' \in Session /\ Still(sess, sess')
                 /\ sock' = IF sess'.socket THEN sock ELSE NoSocket
<1>1. sess \in Session /\ sock \in Sockets /\ UNCHANGED <<ev, app, upstream>> /\ ev = {}
  BY SessionOf DEF IInv, TypeOK, Loop
<1>2. PICK alive \in TunResults, n \in SessionCounts,
           modified \in IF "epoll" \in Faults THEN BOOLEAN ELSE {TRUE} :
          LET s == IF sess.socket
                   THEN monitor_tcp_session(sess, sock, alive, modified)
                   ELSE sess
              t == IF due THEN check_tcp_session(s, n) ELSE s
          IN  /\ sess' = IF due /\ Lingered(t) THEN NoSession ELSE t
              /\ sock' = IF t.socket THEN sock ELSE NoSocket
  BY DEF Loop
<1> DEFINE s == IF sess.socket
                THEN monitor_tcp_session(sess, sock, alive, modified)
                ELSE sess
           t == IF due THEN check_tcp_session(s, n) ELSE s
<1>3. s \in Session /\ Still(sess, s) /\ s.state \in {sess.state, "CLOSING"}
  <2>1. CASE sess.socket
    <3>1. sess.state # "CLOSE"
      BY <2>1 DEF IInv, Control, SocketMatchesState
    <3>2. alive \in BOOLEAN /\ modified \in BOOLEAN
      BY DEF TunResults
    <3> QED BY <1>1, <2>1, <3>1, <3>2, Monitor, MonitorStill
  <2>2. CASE ~sess.socket
    BY <1>1, <2>2 DEF Still, SameLink
  <2> QED BY <2>1, <2>2
<1> HIDE DEF s
<1>4. /\ t \in Session /\ Still(s, t)
      /\ due /\ Lingered(t) => s.state = "CLOSE"
  <2>1. CASE due
    <3>1. t = check_tcp_session(s, n)
      BY <2>1
    <3> HIDE DEF t
    <3> QED BY <1>3, <3>1, CheckTcpSession, CheckStill DEF Lingered
  <2>2. CASE ~due
    BY <1>3, <2>2 DEF Still, SameLink
  <2> QED BY <2>1, <2>2
<1>5. /\ sess' = IF due /\ Lingered(t) THEN NoSession ELSE t
      /\ sock' = IF t.socket THEN sock ELSE NoSocket
  BY <1>2 DEF s
<1> HIDE DEF t
<1>6. Still(sess, t)
  BY <1>3, <1>4, StillTwice
<1> QED BY <1>1, <1>3, <1>4, <1>5, <1>6

LEMMA SocketErrorMoves ==
    ASSUME IInv, SocketError, ev # {}
    PROVE  /\ Quiet(sess, sess') /\ sess'.socket = sess.socket
           /\ sock' = [sock EXCEPT !.conn = IF @ = "failed" THEN "dead" ELSE @]
           /\ UNCHANGED upstream
<1>1. sess \in Session
  BY EventSession
<1> DEFINE s == write_rst(sess)
<1>2. s \in Session /\ Quiet(sess, s) /\ s.socket = sess.socket
  BY <1>1, WriteRst, WriteRstQuiet
<1> HIDE DEF s
<1>3. sess' = [s EXCEPT !.age = 0]
  BY DEF SocketError, s
<1>4. Quiet(sess, sess') /\ sess'.socket = sess.socket
  BY <1>2, <1>3 DEF Quiet, SameLink, Session
<1> QED BY <1>4 DEF SocketError

LEMMA ConnectedMoves ==
    ASSUME IInv, Connected, ev # {}
    PROVE  /\ (Quiet(sess, sess') /\ sess'.socket = sess.socket) \/ Answers(sess, sess')
           /\ UNCHANGED <<sock, upstream>>
<1>1. sess \in Session /\ sess.state = "LISTEN"
  BY EventSession DEF Connected
<1> DEFINE s == [sess EXCEPT !.remote_seq = SeqAdd(@, 1)]
           t == [s EXCEPT !.age = 0, !.local_seq = SeqAdd(@, 1), !.state = "SYN_RECV"]
<1>2. UNCHANGED <<sock, upstream>> /\ sess' \in {t, Closing(s)}
  BY DEF Connected
<1>3. /\ s.port = sess.port /\ s.connect = sess.connect /\ s.socket = sess.socket
      /\ s.forward = sess.forward /\ s.local_seq = sess.local_seq
      /\ s.remote_seq = SeqAdd(sess.remote_seq, 1) /\ s.state = "LISTEN"
  BY <1>1 DEF Session
<1>4. Answers(sess, t)
  BY <1>1 DEF Answers, SameLink, Session
<1>5. Quiet(sess, Closing(s)) /\ Closing(s).socket = sess.socket
  BY <1>1 DEF Closing, Quiet, SameLink, Session, Over
<1> HIDE DEF t
<1> QED BY <1>2, <1>4, <1>5

LEMMA TickMoves ==
    ASSUME IInv, Tick
    PROVE  sess # NoSession /\ Still(sess, sess') /\ UNCHANGED <<sock, phase, ev, app, upstream>>
<1>1. sess # NoSession /\ sess \in Session
  BY SessionOf DEF Tick, IInv
<1> QED BY <1>1 DEF Tick, Still, SameLink, Session

-----------------------------------------------------------------------------
\* check_tcp_socket on a session past LISTEN.

\* The receive window is set, what was forwarded is confirmed.
Confirms(s, t, fwd) ==
    /\ SameLink(s, t)
    /\ t.forward = s.forward /\ t.local_seq = s.local_seq /\ t.socket = s.socket
    /\ t.acked = s.acked /\ t.send_window = s.send_window
    /\ t.state \in {s.state, "CLOSING"}
    /\ t.remote_seq = IF fwd /\ s.forward = <<>> /\ s.state = "CLOSE_WAIT"
                      THEN SeqAdd(s.remote_seq, 1) ELSE s.remote_seq

LEMMA AckForwardedMoves ==
    ASSUME NEW s \in Session, NEW k, NEW fwd \in BOOLEAN, NEW ok
    PROVE  Confirms(s, AckForwarded(s, k, fwd, ok), fwd)
<1> DEFINE window == get_receive_window(s, k)
           t == [s EXCEPT !.recv_window = window]
           confirm == fwd /\ t.forward = <<>> /\ t.state = "CLOSE_WAIT"
           u == [t EXCEPT !.remote_seq = IF confirm THEN SeqAdd(@, 1) ELSE @]
           fresh == [u EXCEPT !.age = 0]
<1>1. \/ ~fwd /\ AckForwarded(s, k, fwd, ok) = t
      \/ AckForwarded(s, k, fwd, ok) \in {fresh, Closing(u)}
  BY DEF AckForwarded, window, t, confirm, u, fresh
<1> HIDE DEF window
<1>2. /\ Confirms(s, t, FALSE) /\ t.forward = s.forward /\ t.state = s.state
  BY DEF Confirms, SameLink, Session
<1>3. Confirms(s, fresh, fwd)
  BY DEF Confirms, SameLink, Session
<1>4. Confirms(s, Closing(u), fwd)
  BY DEF Confirms, SameLink, Session, Closing
<1>5. ~fwd => Confirms(s, t, fwd)
  BY <1>2 DEF Confirms
<1> HIDE DEF t, u, fresh
<1> QED BY <1>1, <1>3, <1>4, <1>5

\* The socket is read, or found to have failed or ended.
Reads(s, t, k, l) ==
    /\ SameLink(s, t)
    /\ t.forward = s.forward /\ t.remote_seq = s.remote_seq
    /\ t.acked = s.acked /\ t.send_window = s.send_window
    /\ \/ /\ t.state = s.state /\ t.socket = s.socket /\ t.local_seq = s.local_seq
          /\ l = k
       \/ /\ s.state \in {"ESTABLISHED", "CLOSE_WAIT"} /\ t.state = s.state
          /\ t.socket = s.socket /\ k.conn = "connected"
          /\ \E n \in Nat : /\ n <= k.avail /\ n <= get_send_window(s)
                            /\ t.local_seq = SeqAdd(s.local_seq, n)
                            /\ l = [k EXCEPT !.avail = @ - n]
       \/ /\ s.state \in {"ESTABLISHED", "CLOSE_WAIT"} /\ t.state = "CLOSING"
          /\ t.local_seq = s.local_seq
          /\ \/ /\ t.socket = s.socket
                /\ \E n \in Nat : n <= k.avail /\ l = [k EXCEPT !.avail = @ - n]
             \/ ~t.socket /\ l = NoSocket
       \/ /\ \/ s.state = "ESTABLISHED" /\ t.state = "FIN_WAIT1"
             \/ s.state = "CLOSE_WAIT" /\ t.state = "LAST_ACK"
          /\ k.conn = "connected" /\ s.forward = <<>>
          /\ t.local_seq = SeqAdd(s.local_seq, 1) /\ ~t.socket /\ l = NoSocket

LEMMA ReadMoves ==
    ASSUME NEW s \in Session, NEW k \in Sockets, NEW ok
    PROVE  Reads(s, Read(s, k, ok)[1], k, Read(s, k, ok)[2])
<1> DEFINE window == get_send_window(s)
           bytes == Smaller(k.avail, Smaller(window, Mss))
           t == [s EXCEPT !.age = 0]
           shut == [t EXCEPT !.socket = FALSE]
           more == [t EXCEPT !.local_seq = SeqAdd(@, bytes)]
           less == [k EXCEPT !.avail = @ - bytes]
           fin == [shut EXCEPT !.local_seq = SeqAdd(@, 1),
                               !.state = IF @ = "ESTABLISHED" THEN "FIN_WAIT1"
                                         ELSE "LAST_ACK"]
           live == s.state \in {"ESTABLISHED", "CLOSE_WAIT"}
<1>1. bytes \in Nat /\ bytes <= k.avail /\ bytes <= window
  BY SendWindowType, TcpAssumption DEF Sockets, Smaller
<1>2. \/ Read(s, k, ok) = <<s, k>>
      \/ Read(s, k, ok) \in {<<write_rst(t), k>>, <<t, k>>} /\ live
      \/ Read(s, k, ok) = <<more, less>> /\ live /\ k.conn = "connected"
      \/ Read(s, k, ok) = <<Closing(t), less>> /\ live
      \/ /\ Read(s, k, ok) \in {<<write_rst(shut), NoSocket>>, <<Closing(shut), NoSocket>>}
         /\ live
      \/ /\ Read(s, k, ok) = <<fin, NoSocket>> /\ live /\ s.forward = <<>>
         /\ k.conn = "connected"
  BY DEF Read, window, bytes, t, shut, more, less, fin
<1> HIDE DEF bytes
<1>3. /\ SameLink(s, t) /\ t.forward = s.forward /\ t.remote_seq = s.remote_seq
      /\ t.acked = s.acked /\ t.send_window = s.send_window
      /\ t.state = s.state /\ t.socket = s.socket /\ t.local_seq = s.local_seq /\ t \in Session
  BY DEF SameLink, Session
<1>4. /\ SameLink(s, shut) /\ shut.forward = s.forward /\ shut.remote_seq = s.remote_seq
      /\ shut.acked = s.acked /\ shut.send_window = s.send_window
      /\ shut.state = s.state /\ ~shut.socket /\ shut.local_seq = s.local_seq
      /\ shut \in Session
  BY DEF SameLink, Session
<1>5. /\ SameLink(s, more) /\ more.forward = s.forward /\ more.remote_seq = s.remote_seq
      /\ more.acked = s.acked /\ more.send_window = s.send_window
      /\ more.state = s.state /\ more.socket = s.socket
      /\ more.local_seq = SeqAdd(s.local_seq, bytes)
  BY DEF SameLink, Session
<1>6. /\ SameLink(s, fin) /\ fin.forward = s.forward /\ fin.remote_seq = s.remote_seq
      /\ fin.acked = s.acked /\ fin.send_window = s.send_window /\ ~fin.socket
      /\ fin.state = IF s.state = "ESTABLISHED" THEN "FIN_WAIT1" ELSE "LAST_ACK"
      /\ fin.local_seq = SeqAdd(s.local_seq, 1)
  BY DEF SameLink, Session
<1>7. ASSUME NEW u \in Session, live, SameLink(s, u), u.forward = s.forward,
             u.remote_seq = s.remote_seq, u.acked = s.acked, u.send_window = s.send_window,
             u.state = s.state, u.local_seq = s.local_seq,
             NEW v \in {write_rst(u), Closing(u)}
      PROVE  /\ SameLink(s, v) /\ v.forward = s.forward /\ v.remote_seq = s.remote_seq
             /\ v.acked = s.acked /\ v.send_window = s.send_window
             /\ v.state = "CLOSING" /\ v.socket = u.socket /\ v.local_seq = s.local_seq
  BY <1>7 DEF SameLink, Session, write_rst, Closing
<1>8. \E n \in Nat : n <= k.avail /\ k = [k EXCEPT !.avail = @ - n]
  <2>1. k = [k EXCEPT !.avail = @ - 0]
    BY DEF Sockets
  <2>2. 0 \in Nat /\ 0 <= k.avail
    BY DEF Sockets
  <2> QED BY <2>1, <2>2
<1>9. \E n \in Nat : n <= k.avail /\ less = [k EXCEPT !.avail = @ - n]
  BY <1>1
<1> HIDE DEF window, t, shut, more, less, fin
<1>10. Reads(s, s, k, k) /\ Reads(s, t, k, k)
  BY <1>3 DEF Reads, SameLink
<1>11. live => Reads(s, write_rst(t), k, k)
  BY <1>3, <1>7, <1>8 DEF Reads
<1>12. live => Reads(s, Closing(t), k, less)
  BY <1>3, <1>7, <1>9 DEF Reads
<1>13. live => Reads(s, write_rst(shut), k, NoSocket) /\ Reads(s, Closing(shut), k, NoSocket)
  BY <1>4, <1>7 DEF Reads
<1>14. live /\ k.conn = "connected" => Reads(s, more, k, less)
  BY <1>1, <1>5 DEF Reads, less, window
<1>15. live /\ s.forward = <<>> /\ k.conn = "connected" => Reads(s, fin, k, NoSocket)
  BY <1>6 DEF Reads
<1> QED BY <1>2, <1>10, <1>11, <1>12, <1>13, <1>14, <1>15

\* What the segments of a run give upstream.
TakenOf(r) == FlattenSeq([i \in DOMAIN r |-> Taken(sess.port, sess.forward[i], r[i])])

\* A run of check_tcp_socket past LISTEN, in its three parts.
LEMMA TransferMoves ==
    ASSUME IInv, Transfer, ev # {}
    PROVE  \E r \in ForwardRuns : \E s \in Session, k \in Sockets :
               /\ Confirms(Forwarded(sess, r), s, r # <<>>)
               /\ k.conn = sock.conn /\ k.made = sock.made /\ k.avail = sock.avail
               /\ Reads(s, sess', k, sock')
               /\ upstream' = upstream \o TakenOf(r)
<1>1. sess # NoSession /\ sess \in Session /\ sock \in Sockets
  BY EventSession
<1>2. PICK r \in ForwardRuns, acked \in TunResults, written \in TunResults :
          LET k == [sock EXCEPT !.unsent = @ + Total(r, MaxSegment + UrlPrefix)]
              s == AckForwarded(Forwarded(sess, r), k, r # <<>>, acked)
          IN  /\ sess' = Read(s, k, written)[1]
              /\ sock' = Read(s, k, written)[2]
              /\ upstream' = upstream \o TakenOf(r)
  BY DEF Transfer, TakenOf
<1> DEFINE n == Total(r, MaxSegment + UrlPrefix)
           k == [sock EXCEPT !.unsent = @ + n]
           f == Forwarded(sess, r)
           s == AckForwarded(f, k, r # <<>>, acked)
<1>3. acked \in BOOLEAN /\ (r # <<>>) \in BOOLEAN
  BY DEF TunResults
<1>4. PICK m \in 0 .. Len(sess.forward) : r \in [1 .. m -> Int]
  BY <1>1, RunType
<1>5. n \in Nat
  <2>1. IsFiniteSet(DOMAIN r)
    <3>1. m \in Int /\ DOMAIN r = 1 .. m
      BY <1>4
    <3> QED BY <3>1, FS_Interval
  <2>2. MaxSegment + UrlPrefix \in Nat
    BY TcpAssumption
  <2> QED BY <2>1, <2>2, TotalType
<1> HIDE DEF n
<1>6. /\ k \in Sockets /\ k.conn = sock.conn
      /\ k.made = sock.made /\ k.avail = sock.avail
  <2>1. sock.unsent + n \in Nat
    BY <1>1, <1>5 DEF Sockets
  <2> QED BY <1>1, <2>1 DEF Sockets
<1>7. f \in Session
  BY <1>1, <1>4, ForwardedType
<1>8. sess' = Read(s, k, written)[1] /\ sock' = Read(s, k, written)[2]
  BY <1>2 DEF n
<1> HIDE DEF k, f
<1>9. s \in Session /\ Confirms(f, s, r # <<>>)
  BY <1>3, <1>6, <1>7, AckForwardedType, AckForwardedMoves
<1> HIDE DEF s
<1>10. Reads(s, sess', k, sock')
  BY <1>6, <1>8, <1>9, ReadMoves
<1> QED BY <1>2, <1>6, <1>9, <1>10 DEF f

-----------------------------------------------------------------------------
(***************************************************************************)
(* The steps of a connection.                                              *)
(***************************************************************************)

\* The connections the theorems below are about: a SYN carries no data, and the
\* app's bytes with its SYN and its FIN fit the number space.
OneApp ==
    /\ SynData \subseteq {0}
    /\ \A g \in Segments : g[1] + g[2] + 2 < SeqSpace

\* Those without a tunnel.
OneStream == OneApp /\ "https" \notin Ports

Fresh == {"idle", "syn"}

\* The app goes forward.
AppGrows ==
    /\ app'.port = app.port
    /\ app'.nxt >= app.nxt /\ app'.ack >= app.ack /\ app'.edge >= app.edge
    /\ app.fin => app'.fin /\ app'.nxt = app.nxt
    /\ app'.nxt = app.nxt \/ \E g \in Segments : app'.nxt = g[1] + g[2] - 1
    /\ app'.phase \in Fresh =>
          app.phase \in Fresh /\ app'.nxt = app.nxt /\ app'.fin = app.fin
    /\ app'.phase = "idle" => app.phase = "idle"

\* The app sends p: its SYN, or a packet that acknowledges and may carry data.
SaysSyn(p) ==
    /\ p.syn /\ ~p.ack /\ ~p.fin /\ p.len = 0 /\ p.seq = RemoteStart
    /\ app.phase \in Fresh /\ app'.phase = "syn"
    /\ app'.nxt = app.nxt /\ app'.fin = app.fin /\ app'.ack = app.ack /\ app'.edge = app.edge

SaysMore(p) ==
    /\ ~p.syn /\ p.ack
    /\ app.phase \in {"syn", "open"} /\ app'.phase \in {"open", "gone"}
    /\ p.ackseq = SeqAdd(LocalStart, app'.ack) /\ app'.edge = app'.ack + p.win
    /\ app'.ack \in Nat \ {0} /\ app'.ack <= IF sess = NoSession THEN app.ack ELSE LocalOff(sess)
    /\ p.fin => app'.fin
    /\ p.len = 0 => /\ app'.nxt = app.nxt
                    /\ \E n \in {app.nxt + 1, app.nxt + 2} : p.seq = SeqAdd(RemoteStart, n)
    /\ p.len > 0 => /\ <<p.off, p.len>> \in Segments
                    /\ p.seq = SeqAdd(RemoteStart, p.off)
                    /\ p.off <= app.nxt + 1
                    /\ app'.nxt = IF p.off + p.len - 1 > app.nxt THEN p.off + p.len - 1
                                  ELSE app.nxt

Says(p) == p \in Packets /\ (SaysSyn(p) \/ SaysMore(p))

LEMMA AppSendsMoves ==
    ASSUME IInv, NEW flags, "syn" \notin flags, "ack" \in flags,
           NEW seq \in Nat, NEW len \in Nat, NEW off \in Nat,
           AppSends(flags, seq, len, off),
           len = 0 => seq \in {app.nxt + 1, app.nxt + 2},
           len > 0 => /\ <<off, len>> \in Segments /\ seq = off /\ off <= app.nxt + 1
                      /\ app.fin => off + len - 1 <= app.nxt
    PROVE  AppGrows /\ \E p : Says(p) /\ handle_tcp(p)
<1>1. PICK a \in 1 .. (IF sess = NoSession THEN app.ack ELSE LocalOff(sess)), w \in Windows :
          /\ a >= app.ack /\ a + w >= app.edge
          /\ handle_tcp(Packet(flags, seq, len, off, a, w))
          /\ app' = [app EXCEPT !.phase = IF "rst" \in flags THEN "gone" ELSE "open",
                                !.nxt = IF len > 0 /\ off + len - 1 > @
                                        THEN off + len - 1 ELSE @,
                                !.fin = @ \/ "fin" \in flags,
                                !.ack = a, !.edge = a + w]
  BY Zenon DEF AppSends
<1> DEFINE p == Packet(flags, seq, len, off, a, w)
<1>2. app \in Apps /\ app.ack \in Nat /\ app.nxt \in Nat
  BY DEF IInv, TypeOK, Apps
<1>3. sess # NoSession => LocalOff(sess) \in Nat
  <2>1. sess # NoSession => sess.local_seq \in SeqNums
    BY SessionOf DEF IInv, Session
  <2> QED BY <2>1, DistType, SeqNumsInt, TcpAssumption DEF LocalOff
<1>4. /\ a \in Nat /\ w \in Nat /\ a >= 1
      /\ a <= IF sess = NoSession THEN app.ack ELSE LocalOff(sess)
  BY <1>1, <1>2, <1>3, TcpAssumption
<1>5. p \in Packets
  BY <1>4, PacketType DEF IInv
<1>6. /\ ~p.syn /\ p.ack /\ (p.fin => "fin" \in flags) /\ p.len = len
      /\ p.off = off /\ p.seq = SeqAdd(RemoteStart, seq)
      /\ p.ackseq = SeqAdd(LocalStart, a) /\ p.win = w
  BY DEF Packet
<1>7. /\ app'.phase \in {"open", "gone"} /\ app'.ack = a /\ app'.edge = a + w
      /\ (app'.fin <=> (app.fin \/ "fin" \in flags)) /\ app'.port = app.port
      /\ app'.nxt = IF len > 0 /\ off + len - 1 > app.nxt THEN off + len - 1 ELSE app.nxt
  BY <1>1, <1>2 DEF Apps
<1>8. app.phase \in {"syn", "open"}
  BY DEF AppSends
<1> HIDE DEF p
<1>9. AppGrows
  <2>1. app'.nxt = app.nxt \/ \E g \in Segments : app'.nxt = g[1] + g[2] - 1
    BY <1>7
  <2>2. app'.nxt >= app.nxt /\ (app.fin => app'.nxt = app.nxt)
    BY <1>2, <1>7
  <2>3. app.edge \in Nat /\ a + w >= app.edge /\ a >= app.ack
    BY <1>1, <1>2 DEF Apps
  <2> QED BY <1>7, <2>1, <2>2, <2>3 DEF AppGrows, Fresh
<1>10. SaysMore(p)
  <2>1. /\ len = 0 => /\ app'.nxt = app.nxt
                       /\ \E n \in {app.nxt + 1, app.nxt + 2} : p.seq = SeqAdd(RemoteStart, n)
        /\ len > 0 => app'.nxt = IF off + len - 1 > app.nxt THEN off + len - 1 ELSE app.nxt
    BY <1>6, <1>7
  <2> QED BY <1>4, <1>6, <1>7, <1>8, <2>1 DEF SaysMore
<1> QED BY <1>1, <1>5, <1>9, <1>10 DEF Says, p

LEMMA AppSynMoves ==
    ASSUME IInv, OneApp, AppSyn
    PROVE  AppGrows /\ \E p : Says(p) /\ handle_tcp(p)
<1>1. PICK n \in SynData, w \in Windows :
          /\ handle_tcp(Packet({"syn"}, 0, n, 1, 0, w))
          /\ app' = [app EXCEPT !.phase = "syn", !.nxt = IF n > @ THEN n ELSE @]
  BY Zenon DEF AppSyn
<1>2. n = 0 /\ w \in Nat /\ app \in Apps
  BY TcpAssumption DEF OneApp, IInv, TypeOK
<1> DEFINE p == Packet({"syn"}, 0, n, 1, 0, w)
<1>3. p \in Packets
  BY <1>2, PacketType DEF IInv
<1>4. /\ p.syn /\ ~p.ack /\ ~p.fin /\ p.len = 0
      /\ p.seq = SeqAdd(RemoteStart, 0)
  BY <1>2 DEF Packet
<1>5. SeqAdd(RemoteStart, 0) = RemoteStart
  BY ModSmall, TcpAssumption DEF SeqAdd, SeqNums
<1>6. /\ app'.phase = "syn" /\ app'.nxt = app.nxt /\ app'.fin = app.fin
      /\ app'.ack = app.ack /\ app'.edge = app.edge /\ app'.port = app.port
      /\ app.nxt \in Nat /\ app.ack \in Nat /\ app.edge \in Nat
  BY <1>1, <1>2 DEF Apps
<1>7. app.phase \in Fresh
  BY DEF AppSyn, Fresh
<1> HIDE DEF p
<1>8. AppGrows
  BY <1>6, <1>7 DEF AppGrows, Fresh
<1>9. SaysSyn(p)
  BY <1>4, <1>5, <1>6, <1>7 DEF SaysSyn
<1> QED BY <1>1, <1>3, <1>8, <1>9 DEF Says, p

\* Anything but a packet: nothing reaches the engine.
Unheard ==
    /\ UNCHANGED <<sess, sock, phase, ev, upstream>>
    /\ app'.phase \in {app.phase, "gone"}
    /\ \/ "loss" \in Faults /\ app.phase = "open"
       \/ app'.nxt = app.nxt /\ (app'.fin <=> app.fin)

LEMMA AppStepMoves ==
    ASSUME IInv, OneApp, AppStep
    PROVE  AppGrows /\ (Unheard \/ \E p : Says(p) /\ handle_tcp(p))
<1>1. app \in Apps /\ app.nxt \in Nat /\ app.ack \in Nat /\ app.edge \in Nat
  BY DEF IInv, TypeOK, Apps
<1>2. CASE AppSyn
  BY <1>2, AppSynMoves
<1>3. CASE AppData
  <2>1. PICK g \in Segments, flags \in {{"ack"}, {"ack", "fin"}} :
            /\ g[1] <= app.nxt + 1
            /\ app.fin => g[1] + g[2] - 1 <= app.nxt
            /\ AppSends(flags, g[1], g[2], g[1])
    BY <1>3 DEF AppData
  <2>2. g[1] \in Nat /\ g[2] \in Nat /\ <<g[1], g[2]>> \in Segments
    BY TcpAssumption
  <2>3. "syn" \notin flags /\ "ack" \in flags /\ g[2] # 0
    BY TcpAssumption
  <2> QED BY <2>1, <2>2, <2>3, AppSendsMoves
<1>4. CASE AppFin \/ AppAck \/ AppReset
  <2>1. app.nxt + 1 \in Nat /\ app.nxt + 1 + (IF app.fin THEN 1 ELSE 0) \in Nat
    BY <1>1
  <2>2. PICK flags \in {{"ack", "fin"}, {"ack"}, {"ack", "rst"}},
             seq \in {app.nxt + 1, app.nxt + 1 + (IF app.fin THEN 1 ELSE 0)} :
            AppSends(flags, seq, 0, app.nxt + 1)
    BY <1>4, Zenon DEF AppFin, AppAck, AppReset
  <2>3. /\ "syn" \notin flags /\ "ack" \in flags /\ seq \in Nat /\ 0 \in Nat
        /\ app.nxt + 1 \in Nat /\ seq \in {app.nxt + 1, app.nxt + 2}
    BY <1>1, <2>1
  <2>4. ~(0 > 0)
    OBVIOUS
  <2> QED BY <2>1, <2>2, <2>3, <2>4, AppSendsMoves, Zenon
<1>5. CASE AppLoses
  <2>1. \/ \E g \in Segments : /\ g[1] + g[2] - 1 > app.nxt
                               /\ app' = [app EXCEPT !.nxt = g[1] + g[2] - 1]
        \/ app' = [app EXCEPT !.fin = TRUE]
    BY <1>5 DEF AppLoses
  <2>2. app.phase = "open" /\ ~app.fin
    BY <1>5 DEF AppLoses
  <2>3. AppGrows /\ app'.phase = app.phase
    <3>1. CASE app' = [app EXCEPT !.fin = TRUE]
      BY <1>1, <2>2, <3>1 DEF AppGrows, Apps, Fresh
    <3>2. CASE \E g \in Segments : /\ g[1] + g[2] - 1 > app.nxt
                                   /\ app' = [app EXCEPT !.nxt = g[1] + g[2] - 1]
      <4>1. PICK g \in Segments : /\ g[1] + g[2] - 1 > app.nxt
                                  /\ app' = [app EXCEPT !.nxt = g[1] + g[2] - 1]
        BY <3>2
      <4>2. g[1] + g[2] - 1 \in Nat
        BY TcpAssumption
      <4>3. /\ app'.nxt = g[1] + g[2] - 1 /\ app'.phase = app.phase /\ app'.ack = app.ack
            /\ app'.edge = app.edge /\ app'.fin = app.fin /\ app'.port = app.port
        BY <1>1, <4>1 DEF Apps
      <4> QED BY <1>1, <2>2, <4>1, <4>2, <4>3 DEF AppGrows, Fresh
    <3> QED BY <2>1, <3>1, <3>2
  <2> QED BY <1>5, <2>3 DEF AppLoses, Unheard
<1>6. CASE AppSilent
  BY <1>1, <1>6 DEF AppSilent, Unheard, AppGrows, Apps, Fresh
<1> QED BY <1>2, <1>3, <1>4, <1>5, <1>6 DEF AppStep

Untunnelled == sess # NoSession => sess.port # "https" /\ sess.connect # "sent"

LEMMA UntunnelledOf ==
    ASSUME IInv, OneStream, sess # NoSession => sess.connect # "sent"
    PROVE  Untunnelled
BY SessionOf DEF IInv, OneStream, Session, Untunnelled

\* A SYN makes the session.
Opens(p) ==
    /\ sess = NoSession /\ p.syn
    /\ sess' \in Session /\ sess'.state = "LISTEN" /\ sess'.connect # "sent" /\ sess'.socket
    /\ sess'.remote_seq = p.seq /\ sess'.local_seq = LocalStart
    /\ p.len = 0 => sess'.forward = <<>>
    /\ sock' = [NoSocket EXCEPT !.conn = "connecting"]

\* What handle_tcp makes of a packet.
Heard(p) ==
    \/ Opens(p)
    \/ sess = NoSession /\ UNCHANGED <<sess, sock>>
    \/ /\ sess # NoSession /\ sess' \in Session /\ Receives(sess, sess', p) /\ UNCHANGED sock
       /\ sess.port # "https" \/ sess.connect = "established"

LEMMA NewSessionMoves ==
    ASSUME IInv, NEW p \in Packets, NewSession(p), UNCHANGED <<phase, ev>>
    PROVE  Heard(p)
<1> DEFINE s == [state |-> "LISTEN", port |-> p.port, socket |-> TRUE,
                 connect |-> IF p.port = "http" THEN "established" ELSE "not_sent",
                 remote_seq |-> p.seq, local_seq |-> LocalStart, acked |-> 0,
                 send_window |-> p.win, recv_window |-> 0,
                 forward |-> IF p.len = 0 THEN <<>>
                             ELSE <<[seq |-> p.seq, len |-> p.len,
                                     sent |-> 0, off |-> p.off]>>,
                 age |-> 0, events |-> {"OUT", "ERR"},
                 asked |-> {"OUT", "ERR"}]
           k == [NoSocket EXCEPT !.conn = "connecting"]
           window == get_receive_window(s, k)
<1>1. /\ sess = NoSession /\ p.syn
      /\ \/ sess' = [s EXCEPT !.recv_window = window] /\ sock' = k
         \/ UNCHANGED <<sess, sock>>
  BY DEF NewSession
<1>2. CASE UNCHANGED <<sess, sock>>
  BY <1>1, <1>2 DEF Heard
<1>3. CASE sess' = [s EXCEPT !.recv_window = window] /\ sock' = k
  <2> HIDE DEF window
  <2>1. /\ sess'.state = "LISTEN" /\ sess'.connect # "sent" /\ sess'.socket
        /\ sess'.remote_seq = p.seq /\ sess'.local_seq = LocalStart
        /\ p.len = 0 => sess'.forward = <<>>
    BY <1>3
  <2>2. sess' \in Session
    <3>1. sess' \in Session \cup {NoSession}
      BY NewSessionInv
    <3> QED BY <2>1, <3>1 DEF NoSession
  <2> QED BY <1>1, <1>3, <2>1, <2>2 DEF Heard, Opens
<1> QED BY <1>1, <1>2, <1>3

\* What Tunnelling makes of a packet: the session, which has sent the CONNECT,
\* sends it or ends, queues it.
Tunnels(s, t, p) ==
    /\ s.port = "https" /\ s.connect # "established"
    /\ \E u \in Session :
          /\ t = queue_tcp(u, p)
          /\ u.port = s.port /\ u.forward = s.forward /\ u.local_seq = s.local_seq
          /\ \/ s.connect = "sent" /\ u = s
             \/ /\ s.connect = "not_sent" /\ u.connect = "sent"
                /\ u.state = "LISTEN" /\ u.remote_seq = s.remote_seq
             \/ s.connect = "not_sent" /\ u.state \in Over /\ Quiet(s, u)

LEMMA TunnellingMoves ==
    ASSUME IInv, NEW p \in Packets, Tunnelling(p), UNCHANGED <<phase, ev>>
    PROVE  sess # NoSession /\ sess' \in Session /\ Tunnels(sess, sess', p)
<1>1. sess # NoSession /\ sess \in Session /\ sess.port = "https" /\ sess.connect # "established"
  BY SessionOf DEF Tunnelling, IInv
<1> DEFINE t == [sess EXCEPT !.connect = "sent", !.state = "LISTEN"]
<1>2. \/ sess.connect = "not_sent" /\ sess' = queue_tcp(t, p)
      \/ sess.connect = "not_sent" /\ sess' = queue_tcp(write_rst(sess), p)
      \/ sess.connect = "sent" /\ sess' = queue_tcp(sess, p)
  BY DEF Tunnelling
<1>3. /\ t \in Session /\ t.port = sess.port /\ t.forward = sess.forward
      /\ t.local_seq = sess.local_seq /\ t.remote_seq = sess.remote_seq
      /\ t.connect = "sent" /\ t.state = "LISTEN"
  BY <1>1 DEF Session, TcpStates
<1>4. /\ write_rst(sess) \in Session /\ write_rst(sess).state \in Over
      /\ Quiet(sess, write_rst(sess))
  BY <1>1, WriteRst, WriteRstQuiet DEF Over
<1> HIDE DEF t
<1>5. \E u \in Session : sess' = queue_tcp(u, p)
  BY <1>1, <1>2, <1>3, <1>4
<1>6. sess' \in Session
  BY <1>5, QueueTcp
<1>7. Tunnels(sess, sess', p)
  <2>1. CASE sess.connect = "not_sent" /\ sess' = queue_tcp(t, p)
    BY <1>1, <1>3, <2>1 DEF Tunnels
  <2>2. CASE sess.connect = "not_sent" /\ sess' = queue_tcp(write_rst(sess), p)
    <3>1. /\ write_rst(sess).port = sess.port /\ write_rst(sess).forward = sess.forward
          /\ write_rst(sess).local_seq = sess.local_seq
      BY <1>4 DEF Quiet, SameLink
    <3> QED BY <1>1, <1>4, <2>2, <3>1 DEF Tunnels
  <2>3. CASE sess.connect = "sent" /\ sess' = queue_tcp(sess, p)
    BY <1>1, <2>3 DEF Tunnels
  <2> QED BY <1>2, <2>1, <2>2, <2>3
<1> QED BY <1>1, <1>6, <1>7

LEMMA HeardPacket ==
    ASSUME IInv, NEW p \in Packets, handle_tcp(p)
    PROVE  /\ \/ Heard(p)
              \/ sess # NoSession /\ sess' \in Session /\ Tunnels(sess, sess', p)
           /\ UNCHANGED <<phase, ev, upstream>>
<1>1. CASE Tunnelling(p)
  BY <1>1, TunnellingMoves DEF handle_tcp
<1>2. CASE NewSession(p)
  BY <1>2, NewSessionMoves DEF handle_tcp
<1>3. CASE UnknownSession(p)
  BY <1>3 DEF UnknownSession, Heard, handle_tcp
<1>4. CASE KnownSession(p)
  <2>1. sess' \in Session /\ Receives(sess, sess', p)
    BY <1>4, KnownSessionSafe, KnownSessionMoves
  <2> QED BY <1>4, <2>1 DEF KnownSession, Heard, handle_tcp
<1> QED BY <1>1, <1>2, <1>3, <1>4 DEF handle_tcp

\* The steps, by what they do to the session, its queue and its numbers.
Rested ==
    /\ sess # NoSession /\ sess' \in Session /\ Quiet(sess, sess')
    /\ UNCHANGED <<app, upstream>>
    /\ \/ sock' = sock
       \/ sock' = NoSocket /\ ~sess'.socket /\ Still(sess, sess')
       \/ sock.conn = "failed" /\ sock' = [sock EXCEPT !.conn = "dead"]

Freed ==
    /\ sess # NoSession /\ sess.state = "CLOSE" /\ sess' = NoSession
    /\ UNCHANGED <<app, upstream>> /\ sock' \in {sock, NoSocket}

Answered ==
    /\ sess # NoSession /\ sess' \in Session /\ Answers(sess, sess')
    /\ UNCHANGED <<sock, app, upstream>>

Transferred ==
    /\ ev # {} /\ sess # NoSession /\ sess.state # "LISTEN" /\ sess' \in Session
    /\ UNCHANGED app
    /\ \E r \in ForwardRuns : \E s \in Session, k \in Sockets :
           /\ Confirms(Forwarded(sess, r), s, r # <<>>)
           /\ k.conn = sock.conn /\ k.made = sock.made /\ k.avail = sock.avail
           /\ Reads(s, sess', k, sock')
           /\ upstream' = upstream \o TakenOf(r)

Received == \E p : Says(p) /\ AppGrows /\ Heard(p) /\ UNCHANGED upstream

Tunnelled ==
    /\ sess # NoSession /\ sess' \in Session /\ UNCHANGED upstream
    /\ \E p : Says(p) /\ AppGrows /\ Tunnels(sess, sess', p)

\* The proxy accepts the CONNECT.
Admits(s, t) ==
    /\ s.state = "LISTEN" /\ s.connect = "sent"
    /\ t.state = "SYN_RECV" /\ t.connect = "established"
    /\ t.port = s.port /\ t.forward = s.forward
    /\ t.remote_seq = s.remote_seq /\ t.local_seq = s.local_seq

Admitted ==
    /\ sess # NoSession /\ sess' \in Session /\ Admits(sess, sess')
    /\ UNCHANGED <<app, upstream>>

\* The socket, on its own.
SockMoves ==
    /\ \/ sock'.avail = sock.avail /\ sock'.made = sock.made
       \/ /\ sock'.avail = sock.avail + 1 /\ sock'.made = sock.made + 1
          /\ sock.made < MaxDown
    /\ \/ sock'.conn = sock.conn
       \/ sock.conn = "connecting" /\ sock'.conn = "connected"
       \/ sock.conn \in {"connecting", "connected"} /\ sock'.conn = "failed"

Elsewhere ==
    /\ UNCHANGED <<sess, upstream>> /\ SockMoves
    /\ AppGrows /\ app'.phase \in {app.phase, "gone"}
    /\ \/ "loss" \in Faults /\ app.phase = "open"
       \/ app'.nxt = app.nxt /\ (app'.fin <=> app.fin)

LEMMA ProxyReplyMoves ==
    ASSUME IInv, ProxyReply, ev # {}
    PROVE  /\ \/ Quiet(sess, sess') /\ sess'.socket = sess.socket /\ UNCHANGED sock
              \/ Admits(sess, sess')
           /\ UNCHANGED upstream
<1>1. sess \in Session /\ sess.state = "LISTEN"
  BY EventSession DEF ProxyReply
<1> DEFINE t == [sess EXCEPT !.connect = "established", !.state = "SYN_RECV"]
<1>2. /\ UNCHANGED upstream
      /\ \/ UNCHANGED sock /\ (sess' = sess \/ sess' = write_rst(sess))
         \/ sess.connect = "sent" /\ sess' = t
  BY DEF ProxyReply
<1>3. Quiet(sess, sess)
  BY DEF Quiet, SameLink
<1>4. sess.connect = "sent" => Admits(sess, t)
  BY <1>1 DEF Admits, Session
<1> QED BY <1>1, <1>2, <1>3, <1>4, WriteRstQuiet

LEMMA NetworkMoves ==
    ASSUME IInv, Network \/ Drain
    PROVE  SockMoves /\ UNCHANGED <<sess, phase, ev, app, upstream>>
<1>1. sock \in Sockets
  BY DEF IInv, TypeOK
<1>2. \/ sock.conn = "connecting" /\ sock' = [sock EXCEPT !.conn = "connected"]
      \/ /\ sock.conn \in {"connecting", "connected"}
         /\ sock' = [sock EXCEPT !.conn = "failed"]
      \/ sock.made < MaxDown /\ sock' = [sock EXCEPT !.made = @ + 1, !.avail = @ + 1]
      \/ sock' = [sock EXCEPT !.eof = TRUE]
      \/ sock' = [sock EXCEPT !.proxy = "accepted"]
      \/ sock' = [sock EXCEPT !.proxy = "declined"]
      \/ sock' = [sock EXCEPT !.unsent = 0]
  <2>1. CASE Network
    <3>1. SockStep
      BY <2>1 DEF Network
    <3> QED BY <3>1, Zenon DEF SockStep
  <2>2. CASE Drain
    BY <2>2, Zenon DEF Drain
  <2> QED BY <2>1, <2>2
<1>3. SockMoves
  BY <1>1, <1>2 DEF SockMoves, Sockets
<1> QED BY <1>3 DEF Network, Drain

LEMMA AppStays == ASSUME IInv, UNCHANGED app PROVE AppGrows /\ app'.phase \in {app.phase, "gone"}
<1>1. app.nxt \in Nat /\ app.ack \in Nat /\ app.edge \in Nat
  BY DEF IInv, TypeOK, Apps
<1> QED BY <1>1 DEF AppGrows

LEMMA CheckTcpSocketMoves ==
    ASSUME IInv, check_tcp_socket
    PROVE  Rested \/ Answered \/ Admitted \/ Transferred
<1>1. /\ ev # {} /\ UNCHANGED app /\ sess # NoSession /\ sess \in Session
      /\ sess' \in Session \cup {NoSession}
  BY CheckTcpSocketInv, EventSession DEF check_tcp_socket, IInv, TypeOK
<1>2. ASSUME sess'.state \in TcpStates PROVE sess' \in Session
  BY <1>1, <1>2 DEF NoSession, TcpStates
<1>3. ASSUME Quiet(sess, sess') \/ Answers(sess, sess') \/ Admits(sess, sess')
      PROVE  sess' \in Session
  <2>1. sess'.state \in TcpStates
    BY <1>1, <1>3 DEF Quiet, Answers, Admits, Over, Session, TcpStates
  <2> QED BY <1>2, <2>1
<1>4. CASE SocketError
  <2>1. sock \in Sockets
    BY DEF IInv, TypeOK
  <2>2. sock' = sock \/ (sock.conn = "failed" /\ sock' = [sock EXCEPT !.conn = "dead"])
    BY <1>1, <1>4, <2>1, SocketErrorMoves DEF Sockets
  <2> QED BY <1>1, <1>3, <1>4, <2>2, SocketErrorMoves DEF Rested
<1>5. CASE ProxyReply
  BY <1>1, <1>3, <1>5, ProxyReplyMoves DEF Rested, Admitted
<1>6. CASE Connected
  BY <1>1, <1>3, <1>6, ConnectedMoves DEF Rested, Answered
<1>7. CASE Transfer
  <2>1. sess' \in Session
    BY <1>1, <1>7, TransferStep, ReadType, NoSessionIsNone
  <2> QED BY <1>1, <1>7, <2>1, TransferMoves DEF Transferred, Transfer
<1> QED BY <1>4, <1>5, <1>6, <1>7 DEF check_tcp_socket

LEMMA EveryStep ==
    ASSUME IInv, OneApp, [Next]_vars
    PROVE  \/ Rested \/ Freed \/ Answered \/ Transferred \/ Received \/ Elsewhere
           \/ Tunnelled \/ Admitted
<1>1. ASSUME UNCHANGED <<sess, app, upstream>>, SockMoves PROVE Elsewhere
  BY <1>1, AppStays DEF Elsewhere
<1>2. CASE EpollWait
  BY <1>1, <1>2 DEF EpollWait, SockMoves
<1>3. CASE check_tcp_socket
  BY <1>3, CheckTcpSocketMoves
<1>4. CASE \E due \in BOOLEAN : Loop(due)
  <2>1. PICK due \in BOOLEAN : Loop(due)
    BY <1>4
  <2>2. CASE sess = NoSession
    BY <1>1, <2>1, <2>2 DEF Loop, SockMoves
  <2>3. CASE sess # NoSession
    <3>1. CASE sess' \in Session
      BY <2>1, <2>3, <3>1, LoopMoves, StillIsQuiet, NoSessionIsNone DEF Rested
    <3>2. CASE sess' \notin Session
      BY <2>1, <2>3, <3>2, LoopMoves DEF Freed
    <3> QED BY <3>1, <3>2
  <2> QED BY <2>2, <2>3
<1>5. CASE AppStep
  <2>1. AppGrows /\ (Unheard \/ \E p : Says(p) /\ handle_tcp(p))
    BY <1>5, AppStepMoves
  <2>2. CASE Unheard
    BY <2>1, <2>2 DEF Unheard, Elsewhere, SockMoves
  <2>3. CASE \E p : Says(p) /\ handle_tcp(p)
    BY <2>1, <2>3, HeardPacket DEF Received, Tunnelled, Says
  <2> QED BY <2>1, <2>2, <2>3
<1>6. CASE Network \/ Drain
  BY <1>1, <1>6, NetworkMoves
<1>7. CASE Tick
  <2>1. sess' \in Session
    <3>1. IInv' /\ Still(sess, sess') /\ sess # NoSession
      BY <1>7, TickInv, TickMoves
    <3>2. sess'.state \in TcpStates
      BY <3>1, SessionOf DEF IInv, Still, Over, Session, TcpStates
    <3> QED BY <3>1, <3>2 DEF IInv, TypeOK, NoSession, TcpStates
  <2> QED BY <1>7, <2>1, TickMoves, StillIsQuiet DEF Rested
<1>8. CASE UNCHANGED vars
  BY <1>1, <1>8 DEF vars, SockMoves
<1> QED BY <1>2, <1>3, <1>4, <1>5, <1>6, <1>7, <1>8 DEF Next, Engine

LEMMA PlainStep ==
    ASSUME IInv, OneStream, Untunnelled, [Next]_vars
    PROVE  Rested \/ Freed \/ Answered \/ Transferred \/ Received \/ Elsewhere
<1>1. ~Tunnelled
  BY DEF Tunnelled, Tunnels, Untunnelled
<1>2. ~Admitted
  BY DEF Admitted, Admits, Untunnelled
<1> QED BY <1>1, <1>2, EveryStep DEF OneStream

-----------------------------------------------------------------------------
(***************************************************************************)
(* Order: every byte upstream took is below remote_seq, every queued       *)
(* segment holds bytes the app has sent, at its own sequence number, and   *)
(* remote_seq is at most one past them, two when the FIN is confirmed.     *)
(* The queue of a tunnel also holds the packets without data it was given  *)
(* before the proxy accepted the CONNECT.                                  *)
(***************************************************************************)

End(g) == g.off + g.len

\* A queued segment of an app that has sent n bytes.
Stored(g, n) ==
    /\ Dist(RemoteStart, g.seq) = g.off
    /\ g.off >= 1 /\ g.len >= 1 /\ g.sent <= g.len
    /\ End(g) <= n + 1

\* A queued packet without data: a SYN, an acknowledgement, a FIN or a RST.
Blank(g, n) ==
    g.len = 0 /\ g.sent = 0 /\ Dist(RemoteStart, g.seq) <= n + 2

Held(g, n) == Stored(g, n) \/ Blank(g, n)

Carries(s, n) ==
    \A i \in DOMAIN s.forward :
        /\ Held(s.forward[i], n)
        /\ s.port # "https" => Stored(s.forward[i], n)

\* The FIN counts in remote_seq.
FinConfirmed(s) ==
    app.fin /\ s.forward = <<>> /\ s.state \in {"CLOSE_WAIT", "LAST_ACK"} \cup Over

\* How far remote_seq may be past the app's bytes.  An event of before the CONNECT
\* counts the SYN of a session that has since run through its queue.
Past(s) ==
    IF s.port # "https" \/ s.connect = "established"
    THEN IF FinConfirmed(s) THEN 2 ELSE 1
    ELSE IF s.connect = "sent" /\ s.state # "LISTEN" THEN 2 ELSE 1

OrderOfApp ==
    /\ app.nxt = 0 \/ \E g \in Segments : app.nxt = g[1] + g[2] - 1
    /\ upstream \in Seq(Nat) /\ UpstreamInOrder
    /\ app.phase \in Fresh => app.nxt = 0 /\ ~app.fin /\ upstream = <<>>
    /\ app.phase = "idle" => sess = NoSession

FlowOfSession ==
    sess # NoSession =>
        /\ sess.connect = "sent" => sess.port = "https"
        /\ sess.state = "LISTEN" /\ sess.connect # "sent" =>
              /\ RemoteOff(sess) = 0 /\ LocalOff(sess) = 0 /\ sess.forward = <<>>
              /\ app.phase # "open" /\ app.nxt = 0 /\ ~app.fin
        /\ sess.state = "CLOSE_WAIT" => app.fin
        /\ Carries(sess, app.nxt)
        /\ \A i \in DOMAIN upstream : upstream[i] < RemoteOff(sess)
        /\ RemoteOff(sess) <= app.nxt + Past(sess)

Flow == OrderOfApp /\ FlowOfSession

\* The same where there is no tunnel.
OrderOfSession ==
    sess # NoSession =>
        /\ sess.connect # "sent"
        /\ sess.state = "LISTEN" =>
              /\ RemoteOff(sess) = 0 /\ LocalOff(sess) = 0 /\ sess.forward = <<>>
              /\ app.phase # "open" /\ app.nxt = 0 /\ ~app.fin
        /\ sess.state = "CLOSE_WAIT" => app.fin
        /\ \A i \in DOMAIN sess.forward : Stored(sess.forward[i], app.nxt)
        /\ \A i \in DOMAIN upstream : upstream[i] < RemoteOff(sess)
        /\ RemoteOff(sess) <= app.nxt + (IF FinConfirmed(sess) THEN 2 ELSE 1)

Order == OrderOfApp /\ OrderOfSession

LEMMA FlowIsOrder ==
    ASSUME IInv, OneStream
    PROVE  Flow <=> Order
<1> SUFFICES ASSUME sess # NoSession PROVE FlowOfSession <=> OrderOfSession
  BY DEF Flow, Order, FlowOfSession, OrderOfSession
<1>1. sess.port # "https"
  BY SessionOf DEF IInv, OneStream, Session
<1>2. Past(sess) = IF FinConfirmed(sess) THEN 2 ELSE 1
  BY <1>1 DEF Past
<1>3. Carries(sess, app.nxt) <=> \A i \in DOMAIN sess.forward : Stored(sess.forward[i], app.nxt)
  BY <1>1 DEF Carries, Held
<1> QED BY <1>1, <1>2, <1>3 DEF FlowOfSession, OrderOfSession

LEMMA FlowIsOrderNext ==
    ASSUME IInv', OneStream, Flow'
    PROVE  Order'
<1> SUFFICES ASSUME (sess # NoSession)' PROVE OrderOfSession'
  BY DEF Flow, Order, OrderOfSession
<1>1. (sess.port # "https")'
  BY DEF IInv, TypeOK, OneStream, Session
<1>2. Past(sess)' = (IF FinConfirmed(sess) THEN 2 ELSE 1)'
  BY <1>1 DEF Past
<1>3. Carries(sess, app.nxt)' => (\A i \in DOMAIN sess.forward : Stored(sess.forward[i], app.nxt))'
  BY <1>1 DEF Carries
<1> QED BY <1>1, <1>2, <1>3 DEF Flow, FlowOfSession, OrderOfSession

LEMMA AppFits ==
    ASSUME IInv, OneApp, OrderOfApp
    PROVE  /\ app.nxt \in Nat /\ app.nxt + 3 < SeqSpace
           /\ app.fin \in BOOLEAN
BY TcpAssumption, SeqSpaceAssumption DEF IInv, TypeOK, Apps, OneApp, OrderOfApp

LEMMA SentFits ==
    ASSUME IInv, OneStream, Order
    PROVE  /\ app.nxt \in Nat /\ app.nxt + 3 < SeqSpace
           /\ app.fin \in BOOLEAN
BY AppFits DEF OneStream, Order

LEMMA PastIs == \A s : Past(s) \in {1, 2}
BY DEF Past

LEMMA OffsetTypes ==
    ASSUME NEW s \in Session
    PROVE  /\ RemoteOff(s) \in Nat /\ RemoteOff(s) < SeqSpace
           /\ LocalOff(s) \in Nat /\ LocalOff(s) < SeqSpace
<1>1. s.remote_seq \in SeqNums /\ s.local_seq \in SeqNums
  BY DEF Session
<1> QED BY <1>1, DistRange, TcpAssumption DEF RemoteOff, LocalOff

LEMMA RemoteOneMore ==
    ASSUME NEW s \in Session, NEW t, t.remote_seq = SeqAdd(s.remote_seq, 1),
           RemoteOff(s) + 1 < SeqSpace
    PROVE  RemoteOff(t) = RemoteOff(s) + 1
<1>1. s.remote_seq \in SeqNums
  BY DEF Session
<1> QED BY <1>1, DistAdd, TcpAssumption DEF RemoteOff

LEMMA LocalMore ==
    ASSUME NEW s \in Session, NEW n \in Nat, NEW t, t.local_seq = SeqAdd(s.local_seq, n),
           LocalOff(s) + n < SeqSpace
    PROVE  LocalOff(t) = LocalOff(s) + n
<1>1. s.local_seq \in SeqNums
  BY DEF Session
<1> QED BY <1>1, DistAdd, TcpAssumption DEF LocalOff

LEMMA InitFlow == Init => Flow
<1> SUFFICES ASSUME Init PROVE Flow
  OBVIOUS
<1>1. PICK port \in Ports :
          app = [port |-> port, phase |-> "idle", nxt |-> 0, fin |-> FALSE,
                 ack |-> 0, edge |-> 0]
  BY DEF Init
<1>2. app.phase = "idle" /\ app.nxt = 0 /\ ~app.fin
  BY <1>1
<1> QED BY <1>2 DEF Init, Flow, OrderOfApp, FlowOfSession, UpstreamInOrder

LEMMA InitOrder == OneStream => (Init => Order)
BY InitInv, InitFlow, FlowIsOrder

\* What a step of the engine that leaves the app and upstream keeps of the app's part.
LEMMA AppPartStays ==
    ASSUME IInv, Flow, sess # NoSession, UNCHANGED <<app, upstream>>
    PROVE  OrderOfApp'
BY DEF Flow, OrderOfApp, UpstreamInOrder

LEMMA FlowTypes ==
    ASSUME IInv, OneApp, Flow, sess # NoSession
    PROVE  /\ sess \in Session /\ app.nxt \in Nat /\ app.nxt + 3 < SeqSpace
           /\ RemoteOff(sess) \in Nat /\ RemoteOff(sess) <= app.nxt + 2
           /\ \A i \in DOMAIN upstream : upstream[i] \in Nat /\ upstream[i] < RemoteOff(sess)
<1>1. sess \in Session /\ app.nxt \in Nat /\ app.nxt + 3 < SeqSpace
  BY SessionOf, AppFits DEF IInv, Flow
<1>2. RemoteOff(sess) \in Nat
  BY <1>1, OffsetTypes
<1>3. Past(sess) \in {1, 2} /\ RemoteOff(sess) <= app.nxt + Past(sess)
  BY PastIs DEF Flow, FlowOfSession
<1>4. upstream \in Seq(Nat) /\ \A i \in DOMAIN upstream : upstream[i] < RemoteOff(sess)
  BY DEF Flow, OrderOfApp, FlowOfSession
<1>5. \A i \in DOMAIN upstream : upstream[i] \in Nat
  BY <1>4
<1> QED BY <1>1, <1>2, <1>3, <1>4, <1>5

LEMMA RestedFlow ==
    ASSUME IInv, OneApp, Flow, Rested
    PROVE  Flow'
<1>1. sess # NoSession /\ sess \in Session /\ sess' \in Session /\ Quiet(sess, sess')
  BY SessionOf DEF Rested, IInv
<1>2. UNCHANGED <<app, upstream>> /\ app.nxt \in Nat
  BY AppFits DEF Rested, Flow
<1>3. /\ sess'.forward = sess.forward /\ sess'.connect = sess.connect
      /\ sess'.port = sess.port /\ sess'.local_seq = sess.local_seq
  BY <1>1 DEF Quiet, SameLink
<1>4. LocalOff(sess') = LocalOff(sess)
  BY <1>3 DEF LocalOff
<1>5. Carries(sess', app'.nxt)
  BY <1>1, <1>2, <1>3 DEF Flow, FlowOfSession, Carries
<1>6. CASE sess'.remote_seq = sess.remote_seq /\ (sess'.state = sess.state \/ sess'.state \in Over)
  <2>1. RemoteOff(sess') = RemoteOff(sess)
    BY <1>6 DEF RemoteOff
  <2>2. Past(sess) <= Past(sess)' /\ Past(sess) \in Nat /\ Past(sess)' \in Nat
    BY <1>2, <1>3, <1>6 DEF Past, FinConfirmed, Over
  <2>3. RemoteOff(sess') <= app.nxt + Past(sess)'
    BY <1>1, <1>2, <2>1, <2>2, OffsetTypes DEF Flow, FlowOfSession
  <2>4. FlowOfSession'
    BY <1>1, <1>2, <1>3, <1>4, <1>5, <1>6, <2>1, <2>3 DEF Flow, FlowOfSession, Over
  <2> QED BY <1>1, <1>2, <2>4, AppPartStays DEF Flow
<1>7. CASE /\ sess.state = "LISTEN" /\ sess'.state = "CLOSING"
           /\ sess'.remote_seq = SeqAdd(sess.remote_seq, 1)
  <2>1. RemoteOff(sess) + 1 < SeqSpace /\ RemoteOff(sess) \in Nat
    BY <1>1, FlowTypes, SeqSpaceAssumption
  <2>2. RemoteOff(sess') = RemoteOff(sess) + 1
    BY <1>1, <1>7, <2>1, RemoteOneMore
  <2>3. RemoteOff(sess') <= app'.nxt + Past(sess)'
    <3>1. CASE sess.connect = "sent"
      <4>1. sess.port = "https" /\ Past(sess) = 1 /\ Past(sess)' = 2
        BY <1>1, <1>3, <1>7, <3>1 DEF Flow, FlowOfSession, Past
      <4> QED BY <1>1, <1>2, <2>1, <2>2, <4>1 DEF Flow, FlowOfSession
    <3>2. CASE sess.connect # "sent"
      <4>1. RemoteOff(sess) = 0
        BY <1>1, <1>7, <3>2 DEF Flow, FlowOfSession
      <4>2. Past(sess)' \in {1, 2}
        BY DEF Past
      <4> QED BY <1>2, <2>2, <4>1, <4>2
    <3> QED BY <3>1, <3>2
  <2>4. \A i \in DOMAIN upstream' : upstream'[i] < RemoteOff(sess')
    BY <1>1, <1>2, <2>1, <2>2, FlowTypes
  <2>5. FlowOfSession'
    BY <1>1, <1>2, <1>3, <1>5, <1>7, <2>3, <2>4 DEF Flow, FlowOfSession
  <2> QED BY <1>1, <1>2, <2>5, AppPartStays DEF Flow
<1> QED BY <1>1, <1>6, <1>7 DEF Quiet

LEMMA AnsweredFlow ==
    ASSUME IInv, OneApp, Flow, Answered
    PROVE  Flow'
<1>1. sess # NoSession /\ sess \in Session /\ sess' \in Session /\ Answers(sess, sess')
  BY SessionOf DEF Answered, IInv
<1>2. UNCHANGED <<app, upstream>> /\ app.nxt \in Nat
  BY AppFits DEF Answered, Flow
<1>3. /\ sess'.forward = sess.forward /\ sess'.connect = sess.connect /\ sess'.port = sess.port
      /\ sess.state = "LISTEN" /\ sess'.state = "SYN_RECV"
      /\ sess'.remote_seq = SeqAdd(sess.remote_seq, 1)
  BY <1>1 DEF Answers, SameLink
<1>4. RemoteOff(sess) + 1 < SeqSpace /\ RemoteOff(sess) \in Nat
  BY <1>1, FlowTypes, SeqSpaceAssumption
<1>5. RemoteOff(sess') = RemoteOff(sess) + 1
  BY <1>1, <1>3, <1>4, RemoteOneMore
<1>6. RemoteOff(sess') <= app'.nxt + Past(sess)'
  <2>1. CASE sess.connect = "sent"
    <3>1. sess.port = "https" /\ Past(sess) = 1 /\ Past(sess)' = 2
      BY <1>1, <1>3, <2>1 DEF Flow, FlowOfSession, Past
    <3> QED BY <1>1, <1>2, <1>4, <1>5, <3>1 DEF Flow, FlowOfSession
  <2>2. CASE sess.connect # "sent"
    <3>1. RemoteOff(sess) = 0 /\ Past(sess)' \in {1, 2}
      BY <1>1, <1>3, <2>2 DEF Flow, FlowOfSession, Past
    <3> QED BY <1>2, <1>5, <3>1
  <2> QED BY <2>1, <2>2
<1>7. \A i \in DOMAIN upstream' : upstream'[i] < RemoteOff(sess')
  BY <1>1, <1>2, <1>4, <1>5, FlowTypes
<1>8. Carries(sess', app'.nxt)
  BY <1>1, <1>2, <1>3 DEF Flow, FlowOfSession, Carries
<1>9. FlowOfSession'
  BY <1>1, <1>2, <1>3, <1>6, <1>7, <1>8 DEF Flow, FlowOfSession
<1> QED BY <1>1, <1>2, <1>9, AppPartStays DEF Flow

LEMMA AdmittedFlow ==
    ASSUME IInv, OneApp, Flow, Admitted
    PROVE  Flow'
<1>1. sess # NoSession /\ sess \in Session /\ Admits(sess, sess')
  BY SessionOf DEF Admitted, IInv
<1>2. UNCHANGED <<app, upstream>> /\ app.nxt \in Nat
  BY AppFits DEF Admitted, Flow
<1>3. /\ sess.state = "LISTEN" /\ sess.connect = "sent" /\ sess.port = "https"
      /\ sess'.state = "SYN_RECV" /\ sess'.connect = "established" /\ sess'.port = sess.port
      /\ sess'.forward = sess.forward /\ RemoteOff(sess') = RemoteOff(sess)
  BY <1>1 DEF Admits, RemoteOff, Flow, FlowOfSession
<1>4. Past(sess) = 1 /\ Past(sess)' \in {1, 2}
  BY <1>3 DEF Past
<1>5. RemoteOff(sess') <= app'.nxt + Past(sess)'
  BY <1>1, <1>2, <1>3, <1>4, OffsetTypes DEF Flow, FlowOfSession
<1>6. Carries(sess', app'.nxt)
  BY <1>1, <1>2, <1>3 DEF Flow, FlowOfSession, Carries
<1>7. FlowOfSession'
  BY <1>1, <1>2, <1>3, <1>5, <1>6 DEF Flow, FlowOfSession
<1> QED BY <1>1, <1>2, <1>7, AppPartStays DEF Flow

LEMMA FreedFlow ==
    ASSUME IInv, OneApp, Flow, Freed
    PROVE  Flow'
BY AppPartStays DEF Freed, Flow, FlowOfSession

\* The app's own steps, and what the session makes of it: bytes are only added.
LEMMA GrownApp ==
    ASSUME IInv, OneApp, Flow, AppGrows, UNCHANGED upstream,
           app'.phase = "idle" => sess' = NoSession
    PROVE  OrderOfApp'
<1>1. app'.nxt = 0 \/ \E g \in Segments : app'.nxt = g[1] + g[2] - 1
  BY DEF AppGrows, Flow, OrderOfApp
<1>2. app'.phase \in Fresh => app'.nxt = 0 /\ ~app'.fin /\ upstream' = <<>>
  BY DEF AppGrows, Flow, OrderOfApp
<1> QED BY <1>1, <1>2 DEF Flow, OrderOfApp, UpstreamInOrder

LEMMA GrownTypes ==
    ASSUME IInv, OneApp, Flow, AppGrows
    PROVE  app.nxt \in Nat /\ app'.nxt \in Nat /\ app.nxt <= app'.nxt /\ app'.nxt + 3 < SeqSpace
<1>1. app.nxt \in Nat /\ app.nxt + 3 < SeqSpace
  BY AppFits DEF Flow
<1>2. app'.nxt = app.nxt \/ \E g \in Segments : app'.nxt = g[1] + g[2] - 1
  BY DEF AppGrows
<1>3. \A g \in Segments : g[1] + g[2] - 1 \in Nat /\ g[1] + g[2] - 1 + 3 < SeqSpace
  BY TcpAssumption, SeqSpaceAssumption DEF OneApp
<1> QED BY <1>1, <1>2, <1>3 DEF AppGrows

LEMMA StoredMore ==
    ASSUME NEW g \in Segment, NEW m \in Nat, NEW n \in Nat, m <= n, Stored(g, m)
    PROVE  Stored(g, n)
BY DEF Stored, End, Segment

LEMMA QueueElement ==
    ASSUME NEW s \in Session, NEW i \in DOMAIN s.forward
    PROVE  s.forward[i] \in Segment
<1>1. s.forward \in Seq(Segment)
  BY DEF Session
<1> QED BY <1>1

LEMMA CarriesMore ==
    ASSUME NEW s \in Session, NEW m \in Nat, NEW n \in Nat, m <= n, Carries(s, m)
    PROVE  Carries(s, n)
<1> SUFFICES ASSUME NEW i \in DOMAIN s.forward
             PROVE  /\ Held(s.forward[i], n)
                    /\ s.port # "https" => Stored(s.forward[i], n)
  BY DEF Carries
<1>1. s.forward[i] \in Segment
  BY QueueElement
<1>2. Stored(s.forward[i], m) => Stored(s.forward[i], n)
  BY <1>1, StoredMore
<1>3. Blank(s.forward[i], m) => Blank(s.forward[i], n)
  <2>1. Dist(RemoteStart, s.forward[i].seq) \in Nat
    BY <1>1, DistRange, TcpAssumption DEF Segment
  <2> QED BY <2>1 DEF Blank
<1> QED BY <1>2, <1>3 DEF Carries, Held

LEMMA ElsewhereFlow ==
    ASSUME IInv, OneApp, Flow, Elsewhere
    PROVE  Flow'
<1>1. UNCHANGED <<sess, upstream>> /\ AppGrows
  BY DEF Elsewhere
<1>2. OrderOfApp'
  BY <1>1, GrownApp DEF Elsewhere, AppGrows, Flow, OrderOfApp
<1>3. FlowOfSession'
  <2> SUFFICES ASSUME sess # NoSession PROVE FlowOfSession'
    BY <1>1 DEF FlowOfSession
  <2>1. sess \in Session
    BY SessionOf DEF IInv
  <2>2. app.nxt \in Nat /\ app'.nxt \in Nat /\ app.nxt <= app'.nxt
    BY <1>1, GrownTypes
  <2>3. RemoteOff(sess)' = RemoteOff(sess) /\ LocalOff(sess)' = LocalOff(sess)
    BY <1>1 DEF RemoteOff, LocalOff
  <2>4. Carries(sess', app'.nxt)
    BY <1>1, <2>1, <2>2, CarriesMore DEF Flow, FlowOfSession
  <2>5. Past(sess) <= Past(sess)' /\ Past(sess) \in Nat /\ Past(sess)' \in Nat
    BY <1>1 DEF Past, FinConfirmed, AppGrows
  <2>6. RemoteOff(sess)' <= app'.nxt + Past(sess)'
    BY <2>1, <2>2, <2>3, <2>5, OffsetTypes DEF Flow, FlowOfSession
  <2>7. /\ sess.state = "LISTEN" /\ sess.connect # "sent" =>
              app'.phase # "open" /\ app'.nxt = 0 /\ ~app'.fin
        /\ sess.state = "CLOSE_WAIT" => app'.fin
    BY <1>1 DEF Elsewhere, AppGrows, Flow, FlowOfSession
  <2> QED BY <1>1, <2>3, <2>4, <2>6, <2>7 DEF Flow, FlowOfSession
<1> QED BY <1>2, <1>3 DEF Flow

-----------------------------------------------------------------------------
\* The queue after a packet.

\* The queue f is q with g put in at place at.
PutIn(f, q, at, g) ==
    /\ f \in Seq(Segment) /\ Len(f) = Len(q) + 1
    /\ \A i \in 1 .. Len(q) + 1 :
          f[i] = IF i < at THEN q[i] ELSE IF i = at THEN g ELSE q[i - 1]

LEMMA InsertedAt ==
    ASSUME NEW q \in Seq(Segment), NEW at \in 1 .. (Len(q) + 1), NEW g \in Segment
    PROVE  PutIn(Inserted(q, at, g), q, at, g)
<1> DEFINE a == SubSeq(q, 1, at - 1)
           b == SubSeq(q, at, Len(q))
           ag == a \o <<g>>
<1>1. Len(q) \in Nat /\ at \in Nat
  OBVIOUS
<1>2. /\ a \in Seq(Segment) /\ Len(a) = at - 1 /\ \A i \in 1 .. at - 1 : a[i] = q[i]
      /\ b \in Seq(Segment) /\ Len(b) = Len(q) - at + 1
      /\ \A i \in 1 .. Len(q) - at + 1 : b[i] = q[at + i - 1]
  BY <1>1
<1> HIDE DEF a, b
<1>3. <<g>> \in Seq(Segment) /\ Len(<<g>>) = 1 /\ <<g>>[1] = g
  OBVIOUS
<1>4. /\ ag \in Seq(Segment) /\ Len(ag) = at
      /\ \A i \in 1 .. at : ag[i] = IF i < at THEN q[i] ELSE g
  <2>1. a \in Seq(Segment) /\ Len(a) = at - 1
    BY <1>2
  <2>2. /\ ag \in Seq(Segment) /\ Len(ag) = at
        /\ \A i \in 1 .. at : ag[i] = IF i <= at - 1 THEN a[i] ELSE <<g>>[i - (at - 1)]
    BY <1>1, <1>3, <2>1
  <2>3. ASSUME NEW i \in 1 .. at PROVE ag[i] = IF i < at THEN q[i] ELSE g
    <3>1. CASE i < at
      <4>1. i \in 1 .. at - 1 /\ i <= at - 1
        BY <1>1, <3>1
      <4> QED BY <1>2, <2>2, <3>1, <4>1
    <3>2. CASE ~(i < at)
      <4>1. i = at /\ ~(i <= at - 1) /\ i - (at - 1) = 1
        BY <1>1, <3>2
      <4> QED BY <1>3, <2>2, <3>2, <4>1
    <3> QED BY <3>1, <3>2
  <2> QED BY <2>2, <2>3
<1> HIDE DEF ag
<1>5. /\ ag \o b \in Seq(Segment) /\ Len(ag \o b) = Len(q) + 1
      /\ \A i \in 1 .. Len(q) + 1 : (ag \o b)[i] = IF i <= at THEN ag[i] ELSE b[i - at]
  <2>1. ag \in Seq(Segment) /\ b \in Seq(Segment) /\ Len(ag) = at /\ Len(b) = Len(q) - at + 1
    BY <1>2, <1>4
  <2> QED BY <1>1, <2>1
<1>6. ASSUME NEW i \in 1 .. Len(q) + 1
      PROVE  (ag \o b)[i] = IF i < at THEN q[i] ELSE IF i = at THEN g ELSE q[i - 1]
  <2>1. CASE i <= at
    <3>1. i \in 1 .. at
      BY <1>1, <2>1
    <3> QED BY <1>4, <1>5, <2>1, <3>1
  <2>2. CASE ~(i <= at)
    <3>1. i - at \in 1 .. Len(q) - at + 1 /\ at + (i - at) - 1 = i - 1 /\ ~(i < at) /\ i # at
      BY <1>1, <2>2
    <3>2. (ag \o b)[i] = b[i - at]
      BY <1>5, <2>2
    <3>3. b[i - at] = q[at + (i - at) - 1]
      BY <1>2, <3>1
    <3> QED BY <3>1, <3>2, <3>3
  <2> QED BY <2>1, <2>2
<1>7. Inserted(q, at, g) = ag \o b
  BY DEF Inserted, ag, a, b
<1>8. PutIn(ag \o b, q, at, g)
  BY <1>5, <1>6 DEF PutIn
<1> QED BY <1>7, <1>8

\* The three outcomes of queue_tcp.
LEMMA QueueTcpIs ==
    ASSUME NEW s \in Session, NEW p \in Packets
    PROVE  LET q == s.forward
               at == Position(q, p.seq)
               new == [seq |-> p.seq, len |-> p.len, sent |-> 0, off |-> p.off]
               f == queue_tcp(s, p).forward
           IN  IF compare_u32(p.seq, s.remote_seq) < 0 THEN f = q
               ELSE IF at = Len(q) + 1 \/ q[at].seq # p.seq THEN f = Inserted(q, at, new)
               ELSE f = [q EXCEPT ![at] = [@ EXCEPT !.off = p.off]]
<1>1. ASSUME NEW f PROVE [s EXCEPT !.forward = f].forward = f
  BY DEF Session
<1> QED BY <1>1 DEF queue_tcp

\* The data of a packet of the app.
DataOf(p) ==
    /\ p \in Packets /\ p.len >= 1 /\ p.off >= 1 /\ p.off < SeqSpace
    /\ p.seq = SeqAdd(RemoteStart, p.off)

LEMMA NewStored ==
    ASSUME NEW p, DataOf(p), NEW n \in Nat, p.off + p.len <= n + 1
    PROVE  LET new == [seq |-> p.seq, len |-> p.len, sent |-> 0, off |-> p.off]
           IN  new \in Segment /\ Stored(new, n)
<1>1. p.off \in Nat /\ p.len \in Nat /\ p.seq \in SeqNums
  BY DEF DataOf, Packets
<1>2. Dist(RemoteStart, p.seq) = p.off
  BY <1>1, DistOfAdd, TcpAssumption DEF DataOf
<1> QED BY <1>1, <1>2 DEF DataOf, Segment, Stored, End

\* A segment that is "replaced" is the one that is there already.
LEMMA ReplacedSame ==
    ASSUME NEW g \in Segment, NEW n, Stored(g, n), NEW p, DataOf(p), g.seq = p.seq
    PROVE  [g EXCEPT !.off = p.off] = g
<1>1. p.off \in Nat
  BY DEF DataOf, Packets
<1>2. Dist(RemoteStart, p.seq) = p.off
  BY <1>1, DistOfAdd, TcpAssumption DEF DataOf
<1>3. g.off = p.off
  BY <1>2 DEF Stored
<1> QED BY <1>3 DEF Segment

\* The queue after a packet of data: as it was, or with the segment inserted.
LEMMA QueueOutcome ==
    ASSUME NEW s \in Session, NEW n, NEW p, DataOf(p),
           \A i \in DOMAIN s.forward : Stored(s.forward[i], n)
    PROVE  LET q == s.forward
               at == Position(q, p.seq)
               new == [seq |-> p.seq, len |-> p.len, sent |-> 0, off |-> p.off]
               f == queue_tcp(s, p).forward
           IN  \/ f = q /\ compare_u32(p.seq, s.remote_seq) < 0
               \/ f = q /\ \E i \in DOMAIN q : q[i].seq = p.seq
               \/ /\ ~(compare_u32(p.seq, s.remote_seq) < 0)
                  /\ f = Inserted(q, at, new)
                  /\ at = Len(q) + 1 \/ q[at].seq # p.seq
<1> DEFINE q == s.forward
           at == Position(q, p.seq)
           new == [seq |-> p.seq, len |-> p.len, sent |-> 0, off |-> p.off]
           f == queue_tcp(s, p).forward
<1>1. p \in Packets /\ p.seq \in SeqNums /\ q \in Seq(Segment)
  BY DEF DataOf, Packets, Session
<1>2. at \in 1 .. (Len(q) + 1) /\ Len(q) \in Nat
  BY <1>1, PositionType
<1>3. IF compare_u32(p.seq, s.remote_seq) < 0 THEN f = q
      ELSE IF at = Len(q) + 1 \/ q[at].seq # p.seq THEN f = Inserted(q, at, new)
      ELSE f = [q EXCEPT ![at] = [@ EXCEPT !.off = p.off]]
  BY <1>1, QueueTcpIs
<1>4. ASSUME at # Len(q) + 1, q[at].seq = p.seq
      PROVE  /\ at \in DOMAIN q
             /\ [q EXCEPT ![at] = [@ EXCEPT !.off = p.off]] = q
  <2>1. at \in DOMAIN q
    BY <1>1, <1>2, <1>4
  <2>2. [q[at] EXCEPT !.off = p.off] = q[at]
    BY <1>1, <1>4, <2>1, ReplacedSame
  <2>3. [q EXCEPT ![at] = [@ EXCEPT !.off = p.off]] = q
    <3>1. [q EXCEPT ![at] = [@ EXCEPT !.off = p.off]] = [q EXCEPT ![at] = q[at]]
      BY <2>2
    <3>2. [q EXCEPT ![at] = q[at]] = q
      BY <1>1, <2>1
    <3> QED BY <3>1, <3>2
  <2> QED BY <2>1, <2>3
<1> HIDE DEF q, at, new, f
<1>5. \/ f = q /\ compare_u32(p.seq, s.remote_seq) < 0
      \/ f = q /\ \E i \in DOMAIN q : q[i].seq = p.seq
      \/ /\ ~(compare_u32(p.seq, s.remote_seq) < 0)
         /\ f = Inserted(q, at, new)
         /\ at = Len(q) + 1 \/ q[at].seq # p.seq
  BY <1>3, <1>4
<1> QED BY <1>5 DEF q, at, new, f

\* A packet of an app that has sent n bytes: data among them, or none, at the place
\* of the SYN or past them.
Sent(p, n) ==
    \/ DataOf(p) /\ p.off + p.len <= n + 1
    \/ /\ p \in Packets /\ p.len = 0
       /\ \E k \in {0, n + 1, n + 2} : p.seq = SeqAdd(RemoteStart, k)

\* What is queued without data has no segment's number.
LEMMA BlankApart ==
    ASSUME NEW n \in Nat, n + 3 < SeqSpace, NEW p \in Packets, p.len = 0, Sent(p, n)
    PROVE  /\ Dist(RemoteStart, p.seq) <= n + 2
           /\ \A g \in Segment : Stored(g, n) => g.seq # p.seq
<1>1. PICK k \in {0, n + 1, n + 2} : p.seq = SeqAdd(RemoteStart, k)
  BY DEF Sent, DataOf
<1>2. k \in Nat /\ k < SeqSpace /\ k <= n + 2 /\ (k >= 1 => k >= n + 1)
  BY SeqSpaceAssumption
<1>3. Dist(RemoteStart, p.seq) = k
  BY <1>1, <1>2, DistOfAdd, TcpAssumption
<1>4. ASSUME NEW g \in Segment, Stored(g, n) PROVE g.seq # p.seq
  <2>1. g.off \in Nat /\ g.len \in Nat /\ g.off >= 1 /\ g.off <= n /\ Dist(RemoteStart, g.seq) = g.off
    BY <1>4 DEF Stored, End, Segment
  <2> QED BY <1>2, <1>3, <2>1
<1> QED BY <1>2, <1>3, <1>4

LEMMA QueueTcpCarries ==
    ASSUME NEW s \in Session, NEW n \in Nat, n + 3 < SeqSpace, NEW p, Sent(p, n),
           p.len > 0 \/ s.port = "https", Carries(s, n)
    PROVE  Carries(queue_tcp(s, p), n)
<1> DEFINE q == s.forward
           at == Position(q, p.seq)
           new == [seq |-> p.seq, len |-> p.len, sent |-> 0, off |-> p.off]
           changed == [q[at] EXCEPT !.off = p.off]
           f == queue_tcp(s, p).forward
           Good(g) == Held(g, n) /\ (s.port # "https" => Stored(g, n))
<1>1. /\ p \in Packets /\ p.seq \in SeqNums /\ p.len \in Nat /\ p.off \in Nat
      /\ q \in Seq(Segment)
  BY DEF Sent, DataOf, Packets, Session
<1>2. at \in 1 .. (Len(q) + 1) /\ Len(q) \in Nat /\ DOMAIN q = 1 .. Len(q)
  BY <1>1, PositionType
<1>3. \A i \in DOMAIN q : q[i] \in Segment /\ Good(q[i])
  BY <1>1 DEF Carries
<1>4. p.len > 0 => DataOf(p) /\ p.off + p.len <= n + 1
  BY <1>1 DEF Sent
<1>5. new \in Segment /\ Good(new)
  <2>1. CASE p.len > 0
    BY <1>4, <2>1, NewStored DEF Held
  <2>2. CASE p.len = 0
    BY <1>1, <2>2, BlankApart DEF Held, Blank, Segment
  <2> QED BY <1>1, <2>1, <2>2
<1>6. ASSUME at # Len(q) + 1, q[at].seq = p.seq
      PROVE  at \in DOMAIN q /\ Good(changed)
  <2>1. at \in DOMAIN q /\ q[at] \in Segment /\ Good(q[at])
    BY <1>2, <1>3, <1>6
  <2> DEFINE g == q[at]
  <2> HIDE DEF q
  <2>2. CASE Stored(g, n)
    <3>1. DataOf(p)
      BY <1>1, <1>4, <1>6, <2>1, <2>2, BlankApart
    <3>2. changed = g
      BY <1>6, <2>1, <2>2, <3>1, ReplacedSame
    <3> QED BY <2>1, <3>2
  <2>3. CASE Blank(g, n) /\ ~Stored(g, n)
    <3>1. Blank(changed, n)
      BY <2>1, <2>3 DEF Blank, Segment
    <3>2. s.port = "https"
      BY <2>1, <2>3
    <3> QED BY <2>1, <3>1, <3>2 DEF Held
  <2> QED BY <2>1, <2>2, <2>3 DEF Held
<1>7. \/ f = q
      \/ f = Inserted(q, at, new)
      \/ at \in DOMAIN q /\ Good(changed) /\ f = [q EXCEPT ![at] = changed]
  BY <1>1, <1>6, QueueTcpIs
<1>8. queue_tcp(s, p).port = s.port
  BY <1>1, QueueTcp DEF Kept, Placed
<1> HIDE DEF q, at, new, changed, f, Good
<1>9. \A i \in DOMAIN f : Good(f[i])
  <2>1. CASE f = q
    BY <1>3, <2>1
  <2>2. CASE f = Inserted(q, at, new)
    <3>1. PutIn(f, q, at, new)
      BY <1>1, <1>2, <1>5, <2>2, InsertedAt, Zenon
    <3>2. DOMAIN f = 1 .. Len(q) + 1
      BY <3>1 DEF PutIn
    <3>3. ASSUME NEW i \in 1 .. Len(q) + 1 PROVE Good(f[i])
      <4>1. f[i] = IF i < at THEN q[i] ELSE IF i = at THEN new ELSE q[i - 1]
        BY <3>1, Zenon DEF PutIn
      <4>2. (i < at => i \in DOMAIN q) /\ (i > at => i - 1 \in DOMAIN q)
        BY <1>2
      <4>3. i \in Int /\ at \in Int
        BY <1>2
      <4> QED BY <1>3, <1>5, <4>1, <4>2, <4>3
    <3> QED BY <3>2, <3>3
  <2>3. CASE at \in DOMAIN q /\ Good(changed) /\ f = [q EXCEPT ![at] = changed]
    <3>1. DOMAIN f = DOMAIN q /\ \A i \in DOMAIN q : f[i] = IF i = at THEN changed ELSE q[i]
      BY <2>3
    <3> QED BY <1>3, <2>3, <3>1
  <2> QED BY <1>7, <2>1, <2>2, <2>3
<1> QED BY <1>8, <1>9 DEF Carries, Good, f

-----------------------------------------------------------------------------
\* A packet keeps the order.

LEMMA SaysData ==
    ASSUME IInv, OneApp, NEW p, Says(p), p.len > 0
    PROVE  /\ DataOf(p) /\ <<p.off, p.len>> \in Segments
           /\ p.off + p.len <= app'.nxt + 1
<1>1. SaysMore(p) /\ p \in Packets /\ p.off \in Nat /\ p.len \in Nat
  BY DEF Says, SaysSyn, Packets
<1>2. <<p.off, p.len>> \in Segments /\ p.seq = SeqAdd(RemoteStart, p.off)
  BY <1>1 DEF SaysMore
<1>3. p.off >= 1 /\ p.len >= 1 /\ p.off + p.len + 2 < SeqSpace
  BY <1>1, <1>2, TcpAssumption DEF OneApp
<1>4. p.off + p.len <= app'.nxt + 1
  <2>1. app.nxt \in Nat
    BY DEF IInv, TypeOK, Apps
  <2> QED BY <1>1, <2>1 DEF SaysMore
<1>5. p.off < SeqSpace
  BY <1>1, <1>3, SeqSpaceAssumption
<1> QED BY <1>1, <1>2, <1>3, <1>4, <1>5 DEF DataOf

LEMMA SaysSent ==
    ASSUME IInv, OneApp, NEW p, Says(p)
    PROVE  Sent(p, app'.nxt)
<1>1. p \in Packets /\ p.len \in Nat
  BY DEF Says, Packets
<1>2. CASE p.len > 0
  BY <1>2, SaysData DEF Sent
<1>3. CASE p.len = 0
  <2>1. SeqAdd(RemoteStart, 0) = RemoteStart
    BY ModSmall, TcpAssumption DEF SeqAdd, SeqNums
  <2>2. \E k \in {0, app'.nxt + 1, app'.nxt + 2} : p.seq = SeqAdd(RemoteStart, k)
    <3>1. CASE SaysSyn(p)
      BY <2>1, <3>1 DEF SaysSyn
    <3>2. CASE SaysMore(p)
      BY <1>3, <3>2 DEF SaysMore
    <3> QED BY <3>1, <3>2 DEF Says
  <2> QED BY <1>1, <1>3, <2>2 DEF Sent
<1> QED BY <1>1, <1>2, <1>3

LEMMA ListenSyn ==
    ASSUME IInv, sess # NoSession, LocalOff(sess) = 0, NEW p, Says(p)
    PROVE  SaysSyn(p)
<1> SUFFICES ASSUME SaysMore(p) PROVE FALSE
  BY DEF Says
<1> QED BY DEF SaysMore

\* Once its FIN is confirmed, a session queues nothing.
LEMMA FinStaysConfirmed ==
    ASSUME IInv, sess # NoSession, FinConfirmed(sess), AppGrows, NEW p, p \in Packets,
           Receives(sess, sess', p)
    PROVE  FinConfirmed(sess)'
<1>1. sess.state = "LAST_ACK" => ~sess.socket
  BY DEF IInv, Control, SocketMatchesState
<1>2. CASE Rejects(sess, sess', p)
  <2>1. sess'.forward = sess.forward
    BY <1>1, <1>2 DEF Rejects, FinConfirmed, Over
  <2> QED BY <1>2, <2>1 DEF Rejects, FinConfirmed, AppGrows
<1>3. CASE Accepts(sess, sess', p)
  <2>1. sess.state \in {"CLOSE_WAIT", "LAST_ACK"}
    BY <1>3 DEF Accepts, FinConfirmed, Over
  <2>2. sess'.forward = sess.forward
    BY <1>1, <1>3, <2>1 DEF Accepts, Queued, Packets
  <2>3. sess'.state = sess.state
    BY <1>3, <2>1 DEF Accepts
  <2> QED BY <2>1, <2>2, <2>3 DEF FinConfirmed, AppGrows
<1> QED BY <1>2, <1>3 DEF Receives

LEMMA ReceivesFlow ==
    ASSUME IInv, OneApp, Flow, sess # NoSession, sess' \in Session,
           sess.port # "https" \/ sess.connect = "established",
           NEW p, Says(p), AppGrows, Receives(sess, sess', p), UNCHANGED upstream
    PROVE  FlowOfSession'
<1>1. sess \in Session /\ p \in Packets
  BY SessionOf DEF IInv, Says
<1>2. app.nxt \in Nat /\ app'.nxt \in Nat /\ app.nxt <= app'.nxt /\ app'.nxt + 3 < SeqSpace
  BY GrownTypes
<1>3. /\ sess'.port = sess.port /\ sess'.connect = sess.connect
      /\ sess'.local_seq = sess.local_seq /\ sess.connect # "sent"
  BY DEF Receives, SameLink, Flow, FlowOfSession
<1>4. /\ Past(sess) = IF FinConfirmed(sess) THEN 2 ELSE 1
      /\ Past(sess)' = IF FinConfirmed(sess)' THEN 2 ELSE 1
  BY <1>3 DEF Past
<1>5. Carries(sess', app'.nxt)
  <2>1. Carries(sess, app'.nxt)
    BY <1>1, <1>2, CarriesMore DEF Flow, FlowOfSession
  <2>2. sess'.forward = sess.forward \/ sess'.forward = Queued(sess, p)
    BY DEF Receives, Rejects, Accepts
  <2>3. p.len > 0 => Carries(queue_tcp(sess, p), app'.nxt) /\ queue_tcp(sess, p).port = sess.port
    BY <1>1, <1>2, <2>1, SaysSent, QueueTcpCarries, QueueTcp DEF Kept, Placed
  <2> QED BY <1>3, <2>1, <2>2, <2>3 DEF Carries, Queued
<1>6. /\ LocalOff(sess') = LocalOff(sess) /\ RemoteOff(sess) \in Nat
      /\ RemoteOff(sess) <= app.nxt + 2
      /\ \A i \in DOMAIN upstream : upstream[i] < RemoteOff(sess) /\ upstream[i] \in Nat
  BY <1>3, FlowTypes DEF LocalOff
<1>7. sess.state = "LISTEN" => SaysSyn(p)
  BY <1>3, ListenSyn DEF Flow, FlowOfSession
<1>8. CASE /\ sess'.remote_seq = sess.remote_seq
           /\ sess'.state # "LISTEN" \/ (sess.state = "LISTEN" /\ sess'.forward = sess.forward)
           /\ sess'.state = "CLOSE_WAIT" => app'.fin
  <2>1. RemoteOff(sess') = RemoteOff(sess)
    BY <1>8 DEF RemoteOff
  <2>2. RemoteOff(sess') <= app'.nxt + Past(sess)'
    <3>1. RemoteOff(sess) <= app.nxt + Past(sess)
      BY DEF Flow, FlowOfSession
    <3>2. FinConfirmed(sess) => FinConfirmed(sess)'
      BY <1>1, FinStaysConfirmed
    <3> QED BY <1>2, <1>4, <1>6, <2>1, <3>1, <3>2
  <2>3. sess'.state = "LISTEN" =>
            /\ RemoteOff(sess') = 0 /\ LocalOff(sess') = 0 /\ sess'.forward = <<>>
            /\ app'.phase # "open" /\ app'.nxt = 0 /\ ~app'.fin
    <3> SUFFICES ASSUME sess'.state = "LISTEN"
                 PROVE  /\ RemoteOff(sess') = 0 /\ LocalOff(sess') = 0 /\ sess'.forward = <<>>
                        /\ app'.phase # "open" /\ app'.nxt = 0 /\ ~app'.fin
      OBVIOUS
    <3>1. sess.state = "LISTEN" /\ sess'.forward = sess.forward
      BY <1>8
    <3>2. SaysSyn(p)
      BY <1>7, <3>1
    <3>3. RemoteOff(sess) = 0 /\ LocalOff(sess) = 0 /\ sess.forward = <<>> /\ app.nxt = 0 /\ ~app.fin
      BY <1>3, <3>1 DEF Flow, FlowOfSession
    <3> QED BY <1>6, <2>1, <3>1, <3>2, <3>3 DEF SaysSyn
  <2> QED BY <1>3, <1>5, <1>6, <1>8, <2>1, <2>2, <2>3 DEF FlowOfSession
<1>9. CASE /\ sess'.remote_seq = SeqAdd(sess.remote_seq, 1)
           /\ sess.state = "LISTEN" /\ sess'.state = "CLOSING"
  <2>1. RemoteOff(sess) = 0
    BY <1>3, <1>9 DEF Flow, FlowOfSession
  <2>2. RemoteOff(sess') = 1
    BY <1>1, <1>9, <2>1, RemoteOneMore, SeqSpaceAssumption
  <2> QED BY <1>2, <1>3, <1>4, <1>5, <1>6, <1>9, <2>1, <2>2 DEF FlowOfSession
<1>10. CASE /\ sess'.remote_seq = SeqAdd(sess.remote_seq, 1)
            /\ p.fin /\ sess'.forward = <<>>
            /\ sess.state \in {"ESTABLISHED", "FIN_WAIT1"}
            /\ sess'.state \in {"CLOSE_WAIT"} \cup Over
  <2>1. RemoteOff(sess) <= app.nxt + 1
    BY <1>4, <1>10 DEF Flow, FlowOfSession, FinConfirmed, Over
  <2>2. RemoteOff(sess') = RemoteOff(sess) + 1
    BY <1>1, <1>2, <1>6, <1>10, <2>1, RemoteOneMore, SeqSpaceAssumption
  <2>3. app'.fin
    BY <1>10 DEF Says, SaysSyn, SaysMore
  <2>4. FinConfirmed(sess)'
    BY <1>10, <2>3 DEF FinConfirmed
  <2>5. RemoteOff(sess') <= app'.nxt + 2 /\ \A i \in DOMAIN upstream : upstream[i] < RemoteOff(sess')
    BY <1>2, <1>6, <2>1, <2>2
  <2> QED BY <1>3, <1>4, <1>5, <1>10, <2>3, <2>4, <2>5 DEF FlowOfSession, Over
<1>11. CASE Rejects(sess, sess', p)
  BY <1>8, <1>9, <1>11 DEF Rejects, Over
<1>12. CASE Accepts(sess, sess', p)
  <2>1. CASE sess'.state = sess.state /\ sess'.remote_seq = sess.remote_seq
    <3>1. sess.state = "LISTEN" => sess'.forward = sess.forward
      <4>1. sess.state = "LISTEN" => p.len = 0
        BY <1>7 DEF SaysSyn
      <4> QED BY <1>12, <4>1 DEF Accepts, Queued
    <3>2. sess.state = "CLOSE_WAIT" => app'.fin
      BY DEF Flow, FlowOfSession, AppGrows
    <3> QED BY <1>8, <2>1, <3>1, <3>2
  <2>2. CASE p.fin /\ sess'.state = "CLOSE_WAIT" /\ sess'.remote_seq = sess.remote_seq
    <3>1. app'.fin
      BY <2>2 DEF Says, SaysSyn, SaysMore
    <3> QED BY <1>8, <2>2, <3>1
  <2> QED BY <1>8, <1>10, <1>12, <2>1, <2>2 DEF Accepts, Over
<1> QED BY <1>11, <1>12 DEF Receives

LEMMA ReceivedFlow ==
    ASSUME IInv, OneApp, Flow, Received
    PROVE  Flow'
<1>1. PICK p : Says(p) /\ AppGrows /\ Heard(p) /\ UNCHANGED upstream
  BY DEF Received
<1>2. app'.phase # "idle"
  BY <1>1 DEF Says, SaysSyn, SaysMore
<1>3. OrderOfApp'
  BY <1>1, <1>2, GrownApp
<1>4. CASE Opens(p)
  <2>1. SaysSyn(p)
    BY <1>1, <1>4 DEF Says, SaysMore, Opens
  <2>2. /\ sess'.forward = <<>> /\ sess'.remote_seq = RemoteStart /\ sess'.local_seq = LocalStart
        /\ sess'.state = "LISTEN" /\ sess'.connect # "sent"
    BY <1>4, <2>1 DEF Opens, SaysSyn
  <2>3. RemoteOff(sess') = 0 /\ LocalOff(sess') = 0
    BY <2>2, DistSelf, TcpAssumption DEF RemoteOff, LocalOff
  <2>4. app'.nxt = 0 /\ ~app'.fin /\ app'.phase = "syn" /\ upstream' = <<>>
    BY <1>1, <2>1 DEF SaysSyn, Flow, OrderOfApp
  <2>5. Carries(sess', 0) /\ Past(sess)' \in {1, 2}
    BY <2>2 DEF Carries, Past
  <2>6. FlowOfSession'
    BY <2>2, <2>3, <2>4, <2>5 DEF FlowOfSession
  <2> QED BY <1>3, <2>6 DEF Flow
<1>5. CASE sess = NoSession /\ UNCHANGED <<sess, sock>>
  BY <1>3, <1>5 DEF Flow, FlowOfSession
<1>6. CASE /\ sess # NoSession /\ sess' \in Session /\ Receives(sess, sess', p) /\ UNCHANGED sock
           /\ sess.port # "https" \/ sess.connect = "established"
  BY <1>1, <1>3, <1>6, ReceivesFlow DEF Flow
<1> QED BY <1>1, <1>4, <1>5, <1>6 DEF Heard

\* What is queued before the proxy has accepted the CONNECT.
LEMMA TunnelledFlow ==
    ASSUME IInv, OneApp, Flow, Tunnelled
    PROVE  Flow'
<1>1. PICK p : Says(p) /\ AppGrows /\ Tunnels(sess, sess', p)
  BY DEF Tunnelled
<1>2. /\ sess # NoSession /\ sess' \in Session /\ UNCHANGED upstream /\ p \in Packets
      /\ app'.phase # "idle"
  BY <1>1 DEF Tunnelled, Says, SaysSyn, SaysMore
<1>3. OrderOfApp'
  BY <1>1, <1>2, GrownApp
<1>4. /\ sess \in Session /\ app.nxt \in Nat /\ app.nxt + 3 < SeqSpace
      /\ RemoteOff(sess) \in Nat /\ RemoteOff(sess) <= app.nxt + 2
      /\ \A i \in DOMAIN upstream : upstream[i] \in Nat /\ upstream[i] < RemoteOff(sess)
  BY <1>2, FlowTypes
<1>5. app'.nxt \in Nat /\ app.nxt <= app'.nxt /\ app'.nxt + 3 < SeqSpace
  BY <1>1, GrownTypes
<1>6. PICK u \in Session :
          /\ sess' = queue_tcp(u, p)
          /\ u.port = "https" /\ u.forward = sess.forward
          /\ \/ sess.connect = "sent" /\ u = sess
             \/ /\ sess.connect = "not_sent" /\ u.connect = "sent"
                /\ u.state = "LISTEN" /\ u.remote_seq = sess.remote_seq
             \/ sess.connect = "not_sent" /\ u.state \in Over /\ Quiet(sess, u)
  BY <1>1 DEF Tunnels
<1>7. sess.port = "https" /\ sess.connect # "established" /\ sess.state # "CLOSE_WAIT"
  BY <1>1, <1>2 DEF Tunnels, IInv, Control, TunnelStates
<1>8. /\ sess'.port = "https" /\ sess'.connect = u.connect /\ sess'.state = u.state
      /\ sess'.remote_seq = u.remote_seq
  BY <1>2, <1>6, QueueTcp, QueueFields DEF Kept, Placed
<1>9. Carries(sess', app'.nxt)
  <2>1. Carries(sess, app'.nxt)
    BY <1>2, <1>4, <1>5, CarriesMore DEF Flow, FlowOfSession
  <2>2. Carries(u, app'.nxt)
    BY <1>6, <1>7, <2>1 DEF Carries
  <2> QED BY <1>1, <1>5, <1>6, <2>2, SaysSent, QueueTcpCarries
<1>10. RemoteOff(sess) <= app.nxt + Past(sess)
  BY <1>2 DEF Flow, FlowOfSession
<1>11. /\ RemoteOff(sess) <= RemoteOff(sess') /\ RemoteOff(sess') \in Nat
       /\ RemoteOff(sess') <= app'.nxt + Past(sess)'
       /\ sess'.state # "CLOSE_WAIT" /\ (sess'.state = "LISTEN" => sess'.connect = "sent")
  <2>1. CASE sess.connect = "sent" /\ u = sess
    <3>1. RemoteOff(sess') = RemoteOff(sess) /\ Past(sess)' = Past(sess) /\ Past(sess) \in {1, 2}
      BY <1>7, <1>8, <2>1 DEF RemoteOff, Past
    <3> QED BY <1>4, <1>5, <1>7, <1>8, <1>10, <2>1, <3>1
  <2>2. CASE /\ sess.connect = "not_sent" /\ u.connect = "sent"
             /\ u.state = "LISTEN" /\ u.remote_seq = sess.remote_seq
    <3>1. RemoteOff(sess') = RemoteOff(sess) /\ Past(sess)' = 1 /\ Past(sess) = 1
      BY <1>7, <1>8, <2>2 DEF RemoteOff, Past
    <3> QED BY <1>4, <1>5, <1>8, <1>10, <2>2, <3>1
  <2>3. CASE sess.connect = "not_sent" /\ u.state \in Over /\ Quiet(sess, u)
    <3>1. Past(sess)' = 1 /\ Past(sess) = 1
      BY <1>6, <1>7, <1>8, <2>3 DEF Past, Quiet, SameLink
    <3>2. CASE u.remote_seq = sess.remote_seq
      BY <1>4, <1>5, <1>8, <1>10, <2>3, <3>1, <3>2 DEF RemoteOff, Over
    <3>3. CASE sess.state = "LISTEN" /\ u.remote_seq = SeqAdd(sess.remote_seq, 1)
      <4>1. RemoteOff(sess) = 0
        BY <1>2, <2>3, <3>3 DEF Flow, FlowOfSession
      <4>2. RemoteOff(sess') = 1
        BY <1>4, <1>8, <3>3, <4>1, RemoteOneMore, SeqSpaceAssumption
      <4> QED BY <1>5, <1>8, <2>3, <3>1, <4>1, <4>2 DEF Over
    <3> QED BY <2>3, <3>2, <3>3 DEF Quiet, Over
  <2> QED BY <1>6, <2>1, <2>2, <2>3
<1>12. \A i \in DOMAIN upstream' : upstream'[i] < RemoteOff(sess')
  BY <1>2, <1>4, <1>11
<1>13. FlowOfSession'
  BY <1>8, <1>9, <1>11, <1>12 DEF FlowOfSession
<1> QED BY <1>3, <1>13 DEF Flow

-----------------------------------------------------------------------------
(***************************************************************************)
(* The forward loop.  The segments of a run follow one another without a   *)
(* gap, from remote_seq on.                                                *)
(***************************************************************************)

LEMMA SendsBound ==
    ASSUME NEW g \in Segment, NEW n \in Sends(g)
    PROVE  n \in Int /\ n <= Left(g) + (IF Patched(sess.port, g) THEN UrlPrefix ELSE 0)
BY SegmentType, TcpAssumption DEF Sends

\* What is sent of a segment starts with its first byte and is no more than counted.
LEMMA TakenAscends ==
    ASSUME NEW g \in Segment, NEW m, Stored(g, m), NEW n \in Sends(g)
    PROVE  /\ Counted(g, n) \in Nat /\ Counted(g, n) <= Left(g)
           /\ Ascends(Taken(sess.port, g, n), FirstByte(g), FirstByte(g) + Counted(g, n))
<1>1. g.off \in Nat /\ g.sent \in Nat /\ g.len \in Nat /\ g.sent <= g.len
  BY DEF Segment, Stored
<1>2. Left(g) \in Nat /\ FirstByte(g) \in Nat
  BY <1>1 DEF Left, FirstByte
<1>3. n \in Int /\ n <= Left(g) + (IF Patched(sess.port, g) THEN UrlPrefix ELSE 0)
  BY SendsBound
<1>4. Counted(g, n) \in Nat /\ Counted(g, n) <= Left(g)
  BY <1>2, <1>3 DEF Counted
<1> DEFINE before == Request - FirstByte(g)
           own == IF ~Patched(sess.port, g) \/ n <= before THEN n
                  ELSE IF n <= before + UrlPrefix THEN before
                  ELSE n - UrlPrefix
<1>5. Patched(sess.port, g) => before \in Nat /\ before <= Left(g)
  BY <1>2, TcpAssumption DEF Patched, LastByte
<1>6. own \in Int /\ own <= Counted(g, n)
  BY <1>2, <1>3, <1>5, TcpAssumption DEF Counted
<1>7. Taken(sess.port, g, n) = Bytes(FirstByte(g), FirstByte(g) + own - 1)
  BY DEF Taken
<1> HIDE DEF own
<1>8. /\ FirstByte(g) + own - 1 \in Int /\ FirstByte(g) + Counted(g, n) \in Nat
      /\ FirstByte(g) + own - 1 < FirstByte(g) + Counted(g, n)
  BY <1>2, <1>4, <1>6
<1> QED BY <1>2, <1>4, <1>7, <1>8, BytesAscend

LEMMA NextSeqOff ==
    ASSUME NEW g \in Segment, NEW n \in Nat, n + 3 < SeqSpace, Stored(g, n)
    PROVE  /\ FirstByte(g) \in Nat /\ Left(g) = g.len - g.sent
           /\ FirstByte(g) + Left(g) = End(g) /\ End(g) <= n + 1
           /\ NextSeq(g) \in SeqNums /\ Dist(RemoteStart, NextSeq(g)) = FirstByte(g)
           /\ Dist(RemoteStart, SeqAdd(g.seq, g.len)) = End(g)
<1>1. /\ g.off \in Nat /\ g.sent \in Nat /\ g.len \in Nat /\ g.seq \in SeqNums
      /\ g.sent <= g.len /\ Dist(RemoteStart, g.seq) = g.off /\ g.off + g.len <= n + 1
  BY DEF Segment, Stored, End
<1>2. Left(g) = g.len - g.sent
  BY <1>1 DEF Left
<1>3. g.off + g.sent < SeqSpace /\ g.off + g.len < SeqSpace
  BY <1>1, SeqSpaceAssumption
<1>4. NextSeq(g) \in SeqNums /\ Dist(RemoteStart, NextSeq(g)) = g.off + g.sent
  BY <1>1, <1>3, DistAdd, TcpAssumption DEF NextSeq
<1>5. Dist(RemoteStart, SeqAdd(g.seq, g.len)) = g.off + g.len
  BY <1>1, <1>3, DistAdd, TcpAssumption
<1> QED BY <1>1, <1>2, <1>4, <1>5 DEF FirstByte, End

\* Where what is left of a segment starts.
Place(g) == Dist(RemoteStart, NextSeq(g))

LEMMA HeldPlace ==
    ASSUME NEW g \in Segment, NEW n \in Nat, n + 3 < SeqSpace, Held(g, n)
    PROVE  /\ Place(g) \in Nat /\ Left(g) \in Nat /\ NextSeq(g) \in SeqNums
           /\ Place(g) + Left(g) < SeqSpace
           /\ Dist(RemoteStart, SeqAdd(g.seq, g.len)) = Place(g) + Left(g)
           /\ Left(g) = 0 \/ (n > 0 /\ Place(g) + Left(g) <= n + 1)
<1>1. CASE Stored(g, n)
  <2>1. /\ FirstByte(g) \in Nat /\ FirstByte(g) + Left(g) = End(g) /\ End(g) <= n + 1
        /\ NextSeq(g) \in SeqNums /\ Place(g) = FirstByte(g)
        /\ Dist(RemoteStart, SeqAdd(g.seq, g.len)) = End(g)
    BY <1>1, NextSeqOff DEF Place
  <2>2. End(g) \in Nat /\ End(g) >= 2 /\ Left(g) \in Nat
    BY <1>1, SegmentType DEF Stored, End, Segment
  <2> QED BY <2>1, <2>2, SeqSpaceAssumption
<1>2. CASE Blank(g, n)
  <2>1. /\ g.len = 0 /\ g.sent = 0 /\ g.seq \in SeqNums
        /\ Dist(RemoteStart, g.seq) <= n + 2 /\ Dist(RemoteStart, g.seq) \in Nat
    BY <1>2, DistRange, TcpAssumption DEF Blank, Segment
  <2>2. /\ SeqAdd(g.seq, 0) \in SeqNums
        /\ Dist(RemoteStart, SeqAdd(g.seq, 0)) = Dist(RemoteStart, g.seq)
        /\ Dist(RemoteStart, g.seq) < SeqSpace
    BY <2>1, DistAdd, SeqSpaceAssumption, TcpAssumption
  <2>3. Left(g) = 0 /\ NextSeq(g) = SeqAdd(g.seq, 0)
    BY <2>1 DEF Left, NextSeq
  <2> QED BY <2>1, <2>2, <2>3 DEF Place
<1> QED BY <1>1, <1>2 DEF Held

\* What is sent starts with the first byte that is left and is no more than counted.
LEMMA HeldTaken ==
    ASSUME NEW g \in Segment, NEW n \in Nat, n + 3 < SeqSpace, Held(g, n),
           sess.port # "https" => Stored(g, n), NEW e \in Sends(g)
    PROVE  /\ Counted(g, e) \in Nat /\ Counted(g, e) <= Left(g)
           /\ Ascends(Taken(sess.port, g, e), Place(g), Place(g) + Counted(g, e))
<1>1. CASE Stored(g, n)
  <2>1. Place(g) = FirstByte(g)
    BY <1>1, NextSeqOff DEF Place
  <2> QED BY <1>1, <2>1, TakenAscends
<1>2. CASE ~Stored(g, n)
  <2>1. Left(g) = 0 /\ ~Patched(sess.port, g)
    BY <1>2 DEF Held, Blank, Left, Patched
  <2>2. e \in Int /\ e <= 0
    BY <2>1, SendsBound
  <2>3. Counted(g, e) = 0
    BY <2>1, <2>2 DEF Counted
  <2>4. /\ Taken(sess.port, g, e) \in Seq(Nat)
        /\ DOMAIN Taken(sess.port, g, e) = {}
    <3> DEFINE hi == FirstByte(g) + e - 1
    <3>1. Taken(sess.port, g, e) = Bytes(FirstByte(g), hi)
      BY <2>1 DEF Taken
    <3>2. FirstByte(g) \in Nat
      BY DEF FirstByte, Segment
    <3>3. hi \in Int /\ hi < FirstByte(g)
      BY <2>2, <3>2
    <3>4. 1 .. (hi - FirstByte(g) + 1) = {}
      BY <3>2, <3>3
    <3> HIDE DEF hi
    <3>5. DOMAIN Bytes(FirstByte(g), hi) = {}
      BY <3>4 DEF Bytes
    <3>6. Bytes(FirstByte(g), hi) \in Seq(Nat)
      BY <3>2, <3>3, BytesAscend DEF Ascends
    <3> QED BY <3>1, <3>5, <3>6
  <2>5. Counted(g, e) \in Nat /\ Counted(g, e) <= Left(g)
    BY <2>1, <2>3
  <2>6. Ascends(Taken(sess.port, g, e), Place(g), Place(g) + Counted(g, e))
    BY <2>4, Zenon DEF Ascends
  <2> QED BY <2>5, <2>6
<1> QED BY <1>1, <1>2

LEMMA RunSegments ==
    ASSUME sess \in Session, NEW n \in Nat, n + 3 < SeqSpace, Carries(sess, n),
           NEW r \in ForwardRuns, r # <<>>
    PROVE  LET q == sess.forward
               m == Len(r)
           IN  /\ m \in 1 .. Len(q) /\ DOMAIN r = 1 .. m /\ "OUT" \in ev
               /\ \A i \in 1 .. m : /\ i \in DOMAIN q /\ q[i] \in Segment
                                    /\ r[i] \in Sends(q[i])
               /\ Place(q[1]) = RemoteOff(sess)
               /\ \A i \in 2 .. m :
                     /\ i - 1 \in 1 .. m
                     /\ Counted(q[i - 1], r[i - 1]) = Left(q[i - 1])
                     /\ Place(q[i]) = Place(q[i - 1]) + Left(q[i - 1])
<1> DEFINE q == sess.forward
           results == UNION {Sends(q[i]) : i \in DOMAIN q}
<1>1. q \in Seq(Segment) /\ Len(q) \in Nat
  BY DEF Session
<1>2. /\ "OUT" \in ev
      /\ r \in UNION {[1 .. k -> results] : k \in 0 .. Len(q)}
      /\ \A i \in DOMAIN r : r[i] \in Sends(q[i]) /\ Sendable(i)
      /\ \A i \in 1 .. (Len(r) - 1) : Counted(q[i], r[i]) = Left(q[i])
  BY DEF ForwardRuns
<1>3. PICK m \in 0 .. Len(q) : r \in [1 .. m -> results]
  BY <1>2
<1>4. m \in Nat /\ Len(r) = m /\ DOMAIN r = 1 .. m /\ m # 0
  BY <1>1, <1>3
<1>5. \A i \in 1 .. m : i \in DOMAIN q /\ q[i] \in Segment /\ Held(q[i], n)
  BY <1>1, <1>4 DEF Carries
<1>6. Place(q[1]) = RemoteOff(sess)
  <2>1. 1 \in 1 .. m
    BY <1>4
  <2>2. NextSeq(q[1]) = sess.remote_seq
    BY <1>2, <1>4, <2>1 DEF Sendable
  <2> QED BY <2>2 DEF RemoteOff, Place
<1>7. ASSUME NEW i \in 2 .. m
      PROVE  /\ i - 1 \in 1 .. m
             /\ Counted(q[i - 1], r[i - 1]) = Left(q[i - 1])
             /\ Place(q[i]) = Place(q[i - 1]) + Left(q[i - 1])
  <2>1. i \in 1 .. m /\ i - 1 \in 1 .. m /\ i # 1 /\ i - 1 \in 1 .. (Len(r) - 1)
    BY <1>4
  <2>2. NextSeq(q[i]) = SeqAdd(q[i - 1].seq, q[i - 1].len)
    BY <1>2, <1>4, <2>1 DEF Sendable
  <2>3. Place(q[i]) = Place(q[i - 1]) + Left(q[i - 1])
    BY <1>5, <2>1, <2>2, HeldPlace DEF Place
  <2> QED BY <1>2, <2>1, <2>3
<1> HIDE DEF q
<1>8. /\ Len(r) \in 1 .. Len(q) /\ DOMAIN r = 1 .. Len(r) /\ "OUT" \in ev
      /\ \A i \in 1 .. Len(r) : /\ i \in DOMAIN q /\ q[i] \in Segment
                                /\ r[i] \in Sends(q[i])
      /\ Place(q[1]) = RemoteOff(sess)
      /\ \A i \in 2 .. Len(r) :
            /\ i - 1 \in 1 .. Len(r)
            /\ Counted(q[i - 1], r[i - 1]) = Left(q[i - 1])
            /\ Place(q[i]) = Place(q[i - 1]) + Left(q[i - 1])
  <2>1. m \in 1 .. Len(q)
    BY <1>1, <1>4
  <2>2. \A i \in 1 .. m : i \in DOMAIN q /\ q[i] \in Segment /\ r[i] \in Sends(q[i])
    BY <1>2, <1>4, <1>5
  <2>3. "OUT" \in ev
    BY <1>2
  <2> QED BY <1>4, <1>6, <1>7, <2>1, <2>2, <2>3, Zenon
<1> QED BY <1>8 DEF q

LEMMA ForwardedFields ==
    ASSUME NEW s \in Session, NEW r
    PROVE  LET f == Forwarded(s, r)
           IN  /\ SameLink(s, f) /\ f.state = s.state /\ f.socket = s.socket
               /\ f.local_seq = s.local_seq /\ f.acked = s.acked
               /\ f.send_window = s.send_window
<1> DEFINE q == s.forward
           m == Len(r)
           sent == Counted(q[m], r[m])
           rest == SubSeq(q, m + 1, Len(q))
           seq == SeqAdd(NextSeq(q[m]), sent)
           left == IF sent = Left(q[m]) THEN rest
                   ELSE <<[q[m] EXCEPT !.sent = @ + sent]>> \o rest
<1>1. Forwarded(s, r) = IF m = 0 THEN s ELSE [s EXCEPT !.remote_seq = seq, !.forward = left]
  BY DEF Forwarded
<1> HIDE DEF seq, left
<1> QED BY <1>1 DEF SameLink, Session

\* The queue after a run that ends in the m-th segment, of which sent bytes were
\* counted: the segments it did not reach, before them what is left of that one.
Cut(g, sent) == [g EXCEPT !.sent = @ + sent]

Leaves(q, f, m, sent) ==
    LET d == IF sent = Left(q[m]) THEN m ELSE m - 1
    IN  /\ f.remote_seq = SeqAdd(NextSeq(q[m]), sent)
        /\ f.forward \in Seq(Segment) /\ Len(f.forward) = Len(q) - d
        /\ \A i \in 1 .. Len(q) - d :
              f.forward[i] = IF i = 1 /\ sent # Left(q[m]) THEN Cut(q[m], sent) ELSE q[d + i]

LEMMA CutSegment ==
    ASSUME NEW g \in Segment, NEW n \in Nat
    PROVE  /\ Cut(g, n) \in Segment /\ Cut(g, n).seq = g.seq /\ Cut(g, n).len = g.len
           /\ Cut(g, n).off = g.off /\ Cut(g, n).sent = g.sent + n
BY DEF Segment, Cut

LEMMA ForwardedQueue ==
    ASSUME NEW s \in Session, NEW r, NEW m \in 1 .. Len(s.forward), Len(r) = m,
           Counted(s.forward[m], r[m]) \in Nat
    PROVE  Leaves(s.forward, Forwarded(s, r), m, Counted(s.forward[m], r[m]))
<1> DEFINE q == s.forward
           f == Forwarded(s, r)
           sent == Counted(q[m], r[m])
           rest == SubSeq(q, m + 1, Len(q))
           d == IF sent = Left(q[m]) THEN m ELSE m - 1
           cut == Cut(q[m], sent)
           seq == SeqAdd(NextSeq(q[m]), sent)
           left == IF sent = Left(q[m]) THEN rest ELSE <<cut>> \o rest
<1>1. q \in Seq(Segment) /\ Len(q) \in Nat /\ m \in Nat /\ m # 0 /\ m <= Len(q) /\ q[m] \in Segment
  <2>1. q \in Seq(Segment)
    BY DEF Session
  <2> QED BY <2>1
<1>2. f = [s EXCEPT !.remote_seq = seq, !.forward = left]
  BY <1>1 DEF Forwarded, Cut
<1>3. f.remote_seq = seq /\ f.forward = left
  <2> HIDE DEF seq, left, f
  <2> QED BY <1>2 DEF Session
<1>4. cut \in Segment
  <2>1. sent \in Nat
    OBVIOUS
  <2> HIDE DEF sent, q
  <2>2. q[m] \in Segment
    BY <1>1
  <2> QED BY <2>1, <2>2, CutSegment
<1>5. /\ rest \in Seq(Segment) /\ Len(rest) = Len(q) - m
      /\ \A i \in 1 .. Len(q) - m : rest[i] = q[m + i]
  <2> HIDE DEF q
  <2> QED BY <1>1
<1> HIDE DEF rest, cut, sent, seq, f, q
<1>6. CASE sent = Left(q[m])
  <2>1. left = rest /\ d = m
    BY <1>6
  <2>2. /\ f.forward \in Seq(Segment) /\ Len(f.forward) = Len(q) - d
        /\ \A i \in 1 .. Len(q) - d :
              f.forward[i] = IF i = 1 /\ sent # Left(q[m]) THEN cut ELSE q[d + i]
    BY <1>3, <1>5, <1>6, <2>1
  <2> QED BY <1>3, <2>2 DEF q, f, sent, cut, seq, Leaves
<1>7. CASE sent # Left(q[m])
  <2>1. left = <<cut>> \o rest /\ d = m - 1
    BY <1>7
  <2>2. <<cut>> \in Seq(Segment) /\ Len(<<cut>>) = 1 /\ <<cut>>[1] = cut
    BY <1>4
  <2>3. rest \in Seq(Segment) /\ Len(rest) = Len(q) - m
    BY <1>5
  <2>4. /\ left \in Seq(Segment) /\ Len(left) = Len(q) - m + 1
        /\ \A i \in 1 .. Len(q) - m + 1 :
              left[i] = IF i <= 1 THEN <<cut>>[i] ELSE rest[i - 1]
    <3> HIDE DEF left
    <3>1. /\ left \in Seq(Segment) /\ Len(left) = Len(<<cut>>) + Len(rest)
          /\ \A i \in 1 .. Len(<<cut>>) + Len(rest) :
                left[i] = IF i <= Len(<<cut>>) THEN <<cut>>[i] ELSE rest[i - Len(<<cut>>)]
      BY <2>1, <2>2, <2>3, ConcatIs, Zenon
    <3>2. Len(<<cut>>) + Len(rest) = Len(q) - m + 1
      BY <1>1, <2>2, <2>3
    <3> QED BY <2>2, <3>1, <3>2, Zenon
  <2> HIDE DEF left
  <2>5. ASSUME NEW i \in 1 .. Len(q) - d
        PROVE  left[i] = IF i = 1 /\ sent # Left(q[m]) THEN cut ELSE q[d + i]
    <3>1. i \in 1 .. Len(q) - m + 1
      BY <1>1, <2>1
    <3>2. CASE i = 1
      BY <1>7, <2>2, <2>4, <3>1, <3>2
    <3>3. CASE i # 1
      <4>1. i - 1 \in 1 .. Len(q) - m /\ m + (i - 1) = (m - 1) + i /\ ~(i <= 1)
        BY <1>1, <3>1, <3>3
      <4>2. left[i] = rest[i - 1] /\ rest[i - 1] = q[m + (i - 1)]
        BY <1>5, <2>4, <3>1, <4>1
      <4> QED BY <2>1, <3>3, <4>1, <4>2
    <3> QED BY <3>2, <3>3
  <2>6. Len(left) = Len(q) - d
    BY <1>1, <2>1, <2>4
  <2> QED BY <1>3, <2>4, <2>5, <2>6 DEF q, f, sent, cut, seq, Leaves
<1> QED BY <1>6, <1>7

\* Where a run ends: after what was counted of its last segment.
RunEnd(q, r) == Place(q[Len(r)]) + Counted(q[Len(r)], r[Len(r)])

LEMMA RunForwarded ==
    ASSUME sess \in Session, NEW n \in Nat, n + 3 < SeqSpace, Carries(sess, n),
           NEW r \in ForwardRuns, r # <<>>
    PROVE  LET f == Forwarded(sess, r)
           IN  /\ RemoteOff(f) = RunEnd(sess.forward, r) /\ RemoteOff(f) \in Nat
               /\ sess.port # "https" => RemoteOff(f) <= n + 1
               /\ f.remote_seq \in SeqNums
               /\ Carries(f, n)
<1> DEFINE q == sess.forward
           m == Len(r)
           f == Forwarded(sess, r)
           sent == Counted(q[m], r[m])
           d == IF sent = Left(q[m]) THEN m ELSE m - 1
           cut == Cut(q[m], sent)
           Good(g) == Held(g, n) /\ (sess.port # "https" => Stored(g, n))
<1>1. q \in Seq(Segment) /\ Len(q) \in Nat
  BY DEF Session
<1>2. m \in 1 .. Len(q) /\ r[m] \in Sends(q[m]) /\ m \in Nat
  <2>1. m \in 1 .. Len(q) /\ \A i \in 1 .. m : r[i] \in Sends(q[i])
    BY RunSegments
  <2> QED BY <1>1, <2>1
<1>3. q[m] \in Segment /\ \A i \in DOMAIN q : Good(q[i])
  BY <1>1, <1>2 DEF Carries
<1>4. /\ Held(q[m], n) /\ (sess.port # "https" => Stored(q[m], n))
      /\ sent \in Nat /\ sent <= Left(q[m])
  <2>1. Held(q[m], n) /\ (sess.port # "https" => Stored(q[m], n))
    BY <1>1, <1>2, <1>3
  <2> QED BY <1>2, <1>3, <2>1, HeldTaken
<1>5. /\ Place(q[m]) \in Nat /\ Left(q[m]) \in Nat /\ NextSeq(q[m]) \in SeqNums
      /\ Place(q[m]) + Left(q[m]) < SeqSpace
      /\ Left(q[m]) = 0 \/ (n > 0 /\ Place(q[m]) + Left(q[m]) <= n + 1)
  BY <1>3, <1>4, HeldPlace
<1>6. /\ f.remote_seq = SeqAdd(NextSeq(q[m]), sent)
      /\ cut \in Segment /\ cut.seq = q[m].seq /\ cut.len = q[m].len
      /\ cut.off = q[m].off /\ cut.sent = q[m].sent + sent
      /\ f.forward \in Seq(Segment) /\ Len(f.forward) = Len(q) - d
      /\ \A i \in 1 .. Len(q) - d :
            f.forward[i] = IF i = 1 /\ sent # Left(q[m]) THEN cut ELSE q[d + i]
  <2>1. Leaves(sess.forward, f, m, sent)
    <3>1. /\ m \in 1 .. Len(sess.forward) /\ Len(r) = m
          /\ Counted(sess.forward[m], r[m]) \in Nat
      BY <1>2, <1>4
    <3> HIDE DEF m
    <3> QED BY <3>1, ForwardedQueue
  <2>2. Leaves(q, f, m, sent)
    BY <2>1
  <2> HIDE DEF q, f, sent, m
  <2> QED BY <1>3, <1>4, <2>2, CutSegment DEF Leaves
<1>7. f.port = sess.port
  BY ForwardedFields DEF SameLink
<1> HIDE DEF f, cut, sent, Good
<1>8. Place(q[m]) + sent < SeqSpace
  BY <1>4, <1>5, SeqSpaceAssumption
<1>9. /\ f.remote_seq \in SeqNums /\ RemoteOff(f) = Place(q[m]) + sent /\ RemoteOff(f) \in Nat
  BY <1>4, <1>5, <1>6, <1>8, DistAdd, TcpAssumption DEF RemoteOff, Place
<1>10. sess.port # "https" => RemoteOff(f) <= n + 1
  <2> SUFFICES ASSUME sess.port # "https" PROVE RemoteOff(f) <= n + 1
    OBVIOUS
  <2>1. FirstByte(q[m]) + Left(q[m]) <= n + 1 /\ Place(q[m]) = FirstByte(q[m])
    BY <1>3, <1>4, NextSeqOff DEF Place
  <2> QED BY <1>4, <1>5, <1>9, <2>1
<1>11. sent # Left(q[m]) => Good(cut)
  <2>1. /\ q[m].sent \in Nat /\ q[m].len \in Nat
    BY <1>3 DEF Segment
  <2>2. CASE Stored(q[m], n)
    <3>1. Left(q[m]) = q[m].len - q[m].sent
      BY <2>2, <1>3, NextSeqOff
    <3>2. Stored(cut, n)
      BY <1>4, <1>6, <2>1, <2>2, <3>1 DEF Stored, End
    <3> QED BY <3>2 DEF Good, Held
  <2>3. CASE ~Stored(q[m], n)
    <3>1. Left(q[m]) = 0
      BY <1>4, <2>3 DEF Held, Blank, Left
    <3> QED BY <1>4, <1>5, <3>1
  <2> QED BY <2>2, <2>3
<1>12. ASSUME NEW i \in DOMAIN f.forward PROVE Good(f.forward[i])
  <2>1. i \in 1 .. Len(q) - d
    <3>1. Len(f.forward) = Len(q) - d /\ f.forward \in Seq(Segment)
      BY <1>6
    <3> HIDE DEF d
    <3> QED BY <3>1
  <2>4. d \in Nat
    BY <1>2
  <2>2. CASE i = 1 /\ sent # Left(q[m])
    BY <1>6, <1>11, <2>1, <2>2
  <2>3. CASE ~(i = 1 /\ sent # Left(q[m]))
    <3>1. d + i \in DOMAIN q
      <4>1. d + i \in 1 .. Len(q)
        <5> HIDE DEF d, q
        <5> QED BY <1>1, <2>1, <2>4
      <4> QED BY <1>1, <4>1
    <3>2. f.forward[i] = q[d + i]
      BY <1>6, <2>1, <2>3
    <3> QED BY <1>3, <3>1, <3>2
  <2> QED BY <2>2, <2>3
<1>13. Carries(f, n)
  BY <1>7, <1>12 DEF Carries, Good
<1> QED BY <1>9, <1>10, <1>13 DEF f, sent, RunEnd

\* Where the sends of a run start, and where the last one ends.
RunStarts(q, r) ==
    [i \in 1 .. Len(r) + 1 |-> IF i <= Len(r) THEN Place(q[i]) ELSE RunEnd(q, r)]

LEMMA RunFollows ==
    ASSUME sess \in Session, NEW n \in Nat, n + 3 < SeqSpace, Carries(sess, n),
           NEW r \in ForwardRuns, r # <<>>,
           NEW m, m = Len(r), NEW lo, lo = RunStarts(sess.forward, r)
    PROVE  /\ m \in Nat \ {0} /\ DOMAIN r = 1 .. m /\ lo \in [1 .. m + 1 -> Nat]
           /\ lo[1] = RemoteOff(sess) /\ lo[m + 1] = RunEnd(sess.forward, r)
           /\ \A i \in 1 .. m :
                 /\ sess.forward[i] \in Segment /\ Held(sess.forward[i], n)
                 /\ sess.port # "https" => Stored(sess.forward[i], n)
                 /\ r[i] \in Sends(sess.forward[i])
                 /\ lo[i] = Place(sess.forward[i])
                 /\ lo[i + 1] = lo[i] + Counted(sess.forward[i], r[i])
                 /\ lo[i] <= lo[i + 1]
<1> DEFINE q == sess.forward
<1>1. /\ m \in 1 .. Len(q) /\ DOMAIN r = 1 .. m
      /\ \A i \in 1 .. m : i \in DOMAIN q /\ q[i] \in Segment /\ r[i] \in Sends(q[i])
      /\ Place(q[1]) = RemoteOff(sess)
      /\ \A i \in 2 .. m : /\ i - 1 \in 1 .. m
                           /\ Counted(q[i - 1], r[i - 1]) = Left(q[i - 1])
                           /\ Place(q[i]) = Place(q[i - 1]) + Left(q[i - 1])
  BY RunSegments
<1>2. m \in Nat \ {0}
  <2>1. Len(q) \in Nat
    BY DEF Session
  <2> HIDE DEF q
  <2> QED BY <1>1, <2>1
<1>3. \A i \in 1 .. m + 1 : lo[i] = IF i <= m THEN Place(q[i]) ELSE RunEnd(q, r)
  BY DEF RunStarts
<1>4. \A i \in DOMAIN q : Held(q[i], n) /\ (sess.port # "https" => Stored(q[i], n))
  BY DEF Carries
<1> HIDE DEF q
<1>5. ASSUME NEW i \in 1 .. m
      PROVE  /\ q[i] \in Segment /\ Held(q[i], n) /\ (sess.port # "https" => Stored(q[i], n))
             /\ r[i] \in Sends(q[i])
             /\ Place(q[i]) \in Nat /\ Counted(q[i], r[i]) \in Nat
  BY <1>1, <1>4, HeldTaken, HeldPlace
<1>6. RunEnd(q, r) = Place(q[m]) + Counted(q[m], r[m])
  BY DEF RunEnd
<1>7. ASSUME NEW i \in 1 .. m
      PROVE  /\ lo[i] = Place(q[i]) /\ lo[i] \in Nat
             /\ lo[i + 1] = lo[i] + Counted(q[i], r[i]) /\ lo[i] <= lo[i + 1]
  <2>1. i \in 1 .. m + 1 /\ i + 1 \in 1 .. m + 1 /\ i <= m
    BY <1>2
  <2>2. lo[i] = Place(q[i]) /\ lo[i] \in Nat
    BY <1>3, <1>5, <2>1
  <2>5. lo[i] <= lo[i] + Counted(q[i], r[i])
    <3>1. Counted(q[i], r[i]) \in Nat
      BY <1>5
    <3> QED BY <2>2, <3>1
  <2>3. CASE i = m
    <3>1. lo[i + 1] = RunEnd(q, r)
      BY <1>2, <1>3, <2>1, <2>3
    <3>2. RunEnd(q, r) = Place(q[i]) + Counted(q[i], r[i])
      BY <1>6, <2>3, Zenon
    <3>4. lo[i + 1] = lo[i] + Counted(q[i], r[i])
      BY <2>2, <3>1, <3>2, Zenon
    <3> QED BY <2>2, <2>5, <3>4, Zenon
  <2>4. CASE i # m
    <3>1. i + 1 \in 2 .. m /\ (i + 1) - 1 = i /\ i + 1 <= m
      BY <1>2, <2>4
    <3>2. lo[i + 1] = Place(q[i + 1])
      BY <1>3, <2>1, <3>1
    <3>3. Place(q[i + 1]) = Place(q[i]) + Left(q[i]) /\ Counted(q[i], r[i]) = Left(q[i])
      BY <1>1, <3>1
    <3>4. lo[i + 1] = lo[i] + Counted(q[i], r[i])
      BY <2>2, <3>2, <3>3, Zenon
    <3> QED BY <2>2, <2>5, <3>4, Zenon
  <2> QED BY <2>3, <2>4
<1>8. lo[m + 1] = RunEnd(q, r) /\ lo[m + 1] \in Nat
  <2>1. m + 1 \in 1 .. m + 1 /\ ~(m + 1 <= m) /\ m \in 1 .. m
    BY <1>2
  <2>2. lo[m + 1] = lo[m] + Counted(q[m], r[m]) /\ lo[m] \in Nat /\ Counted(q[m], r[m]) \in Nat
    BY <1>5, <1>7, <2>1, Zenon
  <2>3. lo[m + 1] = RunEnd(q, r)
    BY <1>3, <2>1, Zenon
  <2>4. lo[m + 1] \in Nat
    BY <2>2
  <2> QED BY <2>3, <2>4
<1>9. lo \in [1 .. m + 1 -> Nat]
  <2>1. \A i \in 1 .. m + 1 : lo[i] \in Nat
    <3>1. \A i \in 1 .. m + 1 : i \in 1 .. m \/ i = m + 1
      BY <1>2
    <3> QED BY <1>7, <1>8, <3>1
  <2>2. lo = [i \in 1 .. m + 1 |-> lo[i]]
    BY DEF RunStarts
  <2> QED BY <2>1, <2>2
<1>10. 1 \in 1 .. m
  BY <1>2
<1> QED BY <1>1, <1>2, <1>5, <1>7, <1>8, <1>9, <1>10 DEF q

\* A run that gets nowhere sends packets without data; any other ends among the
\* app's bytes, or just past them.
LEMMA RunBounds ==
    ASSUME sess \in Session, NEW n \in Nat, n + 3 < SeqSpace, Carries(sess, n),
           NEW r \in ForwardRuns, r # <<>>
    PROVE  LET end == RunEnd(sess.forward, r)
           IN  /\ RemoteOff(sess) <= end
               /\ end = RemoteOff(sess) \/ (n > 0 /\ end <= n + 1)
<1> DEFINE m == Len(r)
           lo == RunStarts(sess.forward, r)
           Good(k) == lo[1] <= k /\ (k = lo[1] \/ (n > 0 /\ k <= n + 1))
           bad == {i \in 1 .. m : ~Good(lo[i + 1])}
<1>1. /\ m \in Nat \ {0} /\ DOMAIN r = 1 .. m /\ lo \in [1 .. m + 1 -> Nat]
      /\ lo[1] = RemoteOff(sess) /\ lo[m + 1] = RunEnd(sess.forward, r)
      /\ \A i \in 1 .. m :
            /\ sess.forward[i] \in Segment /\ Held(sess.forward[i], n)
            /\ sess.port # "https" => Stored(sess.forward[i], n)
            /\ r[i] \in Sends(sess.forward[i])
            /\ lo[i] = Place(sess.forward[i])
            /\ lo[i + 1] = lo[i] + Counted(sess.forward[i], r[i])
            /\ lo[i] <= lo[i + 1]
  BY RunFollows
<1> HIDE DEF m, lo
<1>2. ASSUME NEW i \in 1 .. m, Good(lo[i])
      PROVE  Good(lo[i + 1])
  <2> DEFINE g == sess.forward[i]
             e == r[i]
  <2>1. /\ g \in Segment /\ Held(g, n) /\ (sess.port # "https" => Stored(g, n))
        /\ e \in Sends(g) /\ lo[i] = Place(g) /\ lo[i + 1] = lo[i] + Counted(g, e)
    BY <1>1
  <2>2. lo[1] \in Nat /\ lo[i] \in Nat
    BY <1>1
  <2> HIDE DEF g, e
  <2>3. Counted(g, e) \in Nat /\ Counted(g, e) <= Left(g)
    BY <2>1, HeldTaken
  <2>4. Left(g) \in Nat /\ (Left(g) = 0 \/ (n > 0 /\ Place(g) + Left(g) <= n + 1))
    BY <2>1, HeldPlace
  <2> QED BY <1>2, <2>1, <2>2, <2>3, <2>4
<1>3. bad = {}
  <2> SUFFICES ASSUME bad # {} PROVE FALSE
    OBVIOUS
  <2>1. bad \in SUBSET Nat
    BY <1>1
  <2>2. PICK i \in bad : \A j \in bad : i <= j
    BY <2>1, LeastExists
  <2>3. i \in 1 .. m /\ ~Good(lo[i + 1])
    OBVIOUS
  <2> HIDE DEF Good
  <2>4. i # 1
    <3>1. lo[1] \in Nat
      BY <1>1
    <3>2. Good(lo[1])
      BY <3>1 DEF Good
    <3> QED BY <1>2, <2>3, <3>2
  <2>5. i - 1 \in 1 .. m /\ (i - 1) + 1 = i /\ ~(i <= i - 1)
    BY <1>1, <2>3, <2>4
  <2>6. i - 1 \notin bad
    <3> HIDE DEF bad
    <3> QED BY <2>2, <2>5
  <2>7. Good(lo[i])
    BY <2>5, <2>6
  <2> QED BY <1>2, <2>3, <2>7
<1>4. m \in 1 .. m
  BY <1>1
<1>5. Good(lo[m + 1])
  BY <1>3, <1>4
<1> QED BY <1>1, <1>5

\* What a run gives upstream ascends from remote_seq to its new value.
LEMMA RunTaken ==
    ASSUME sess \in Session, NEW n \in Nat, n + 3 < SeqSpace, Carries(sess, n),
           NEW r \in ForwardRuns, r # <<>>
    PROVE  Ascends(TakenOf(r), RemoteOff(sess), RunEnd(sess.forward, r))
<1> DEFINE m == Len(r)
           lo == RunStarts(sess.forward, r)
           ss == [i \in DOMAIN r |-> Taken(sess.port, sess.forward[i], r[i])]
<1>1. /\ m \in Nat \ {0} /\ DOMAIN r = 1 .. m /\ lo \in [1 .. m + 1 -> Nat]
      /\ lo[1] = RemoteOff(sess) /\ lo[m + 1] = RunEnd(sess.forward, r)
      /\ \A i \in 1 .. m :
            /\ sess.forward[i] \in Segment /\ Held(sess.forward[i], n)
            /\ sess.port # "https" => Stored(sess.forward[i], n)
            /\ r[i] \in Sends(sess.forward[i])
            /\ lo[i] = Place(sess.forward[i])
            /\ lo[i + 1] = lo[i] + Counted(sess.forward[i], r[i])
            /\ lo[i] <= lo[i + 1]
  BY RunFollows
<1> HIDE DEF m, lo
<1>2. Len(ss) = m /\ \A i \in 1 .. m : ss[i] = Taken(sess.port, sess.forward[i], r[i])
  BY <1>1
<1> HIDE DEF ss
<1>3. ASSUME NEW i \in 1 .. m
      PROVE  lo[i] <= lo[i + 1] /\ Ascends(ss[i], lo[i], lo[i + 1])
  <2> DEFINE g == sess.forward[i]
             e == r[i]
  <2>1. /\ g \in Segment /\ Held(g, n) /\ (sess.port # "https" => Stored(g, n))
        /\ e \in Sends(g) /\ lo[i] = Place(g)
        /\ lo[i + 1] = lo[i] + Counted(g, e) /\ lo[i] <= lo[i + 1]
        /\ ss[i] = Taken(sess.port, g, e)
    BY <1>1, <1>2
  <2> HIDE DEF g, e
  <2>2. Ascends(Taken(sess.port, g, e), Place(g), Place(g) + Counted(g, e))
    BY <2>1, HeldTaken
  <2> QED BY <2>1, <2>2
<1>4. Ascends(FlattenSeq(ss), lo[1], lo[m + 1])
  BY <1>1, <1>2, <1>3, FlattenAscends
<1> QED BY <1>1, <1>4 DEF TakenOf, ss

-----------------------------------------------------------------------------
\* What a run does to the queue, to remote_seq and to upstream, whether it sends
\* anything or not.
RunKeeps(r, f, n) ==
    /\ SameLink(sess, f) /\ f.state = sess.state /\ f.socket = sess.socket
    /\ f.local_seq = sess.local_seq /\ f.acked = sess.acked
    /\ f.send_window = sess.send_window
    /\ f.remote_seq \in SeqNums /\ RemoteOff(f) \in Nat
    /\ r = <<>> => f = sess /\ TakenOf(r) = <<>>
    /\ r # <<>> => sess.forward # <<>> /\ (sess.port # "https" => RemoteOff(f) <= n + 1)
    /\ RemoteOff(sess) <= RemoteOff(f)
    /\ RemoteOff(f) = RemoteOff(sess) \/ (n > 0 /\ RemoteOff(f) <= n + 1)
    /\ Ascends(TakenOf(r), RemoteOff(sess), RemoteOff(f))
    /\ Carries(f, n)

LEMMA NothingTaken == TakenOf(<<>>) = <<>>
<1> DEFINE ss == [i \in DOMAIN <<>> |-> Taken(sess.port, sess.forward[i], <<>>[i])]
<1>1. ss = <<>>
  <2>1. DOMAIN <<>> = {}
    OBVIOUS
  <2> QED BY <2>1
<1>2. Len(ss) = 0
  BY <1>1
<1> HIDE DEF ss
<1>3. FlattenSeq(ss) = <<>>
  BY <1>2 DEF FlattenSeq
<1> QED BY <1>3 DEF TakenOf, ss

LEMMA RunOutcome ==
    ASSUME sess \in Session, NEW n \in Nat, n + 3 < SeqSpace, Carries(sess, n),
           NEW r \in ForwardRuns
    PROVE  RunKeeps(r, Forwarded(sess, r), n)
<1> DEFINE f == Forwarded(sess, r)
<1>1. /\ SameLink(sess, f) /\ f.state = sess.state /\ f.socket = sess.socket
      /\ f.local_seq = sess.local_seq /\ f.acked = sess.acked
      /\ f.send_window = sess.send_window
  BY ForwardedFields
<1>2. CASE r = <<>>
  <2>1. f = sess
    BY <1>2 DEF Forwarded
  <2>2. RemoteOff(sess) \in Nat /\ sess.remote_seq \in SeqNums
    BY OffsetTypes DEF Session
  <2>3. TakenOf(r) = <<>>
    BY <1>2, NothingTaken
  <2>4. Ascends(TakenOf(r), RemoteOff(sess), RemoteOff(sess))
    BY <2>3 DEF Ascends
  <2> HIDE DEF f
  <2>5. RunKeeps(r, f, n)
    BY <1>1, <1>2, <2>1, <2>2, <2>3, <2>4 DEF RunKeeps
  <2> QED BY <2>5 DEF f
<1>3. CASE r # <<>>
  <2>1. /\ RemoteOff(f) = RunEnd(sess.forward, r) /\ RemoteOff(f) \in Nat
        /\ (sess.port # "https" => RemoteOff(f) <= n + 1) /\ f.remote_seq \in SeqNums
        /\ Carries(f, n)
    BY <1>3, RunForwarded
  <2>2. /\ RemoteOff(sess) <= RunEnd(sess.forward, r)
        /\ \/ RunEnd(sess.forward, r) = RemoteOff(sess)
           \/ n > 0 /\ RunEnd(sess.forward, r) <= n + 1
        /\ Ascends(TakenOf(r), RemoteOff(sess), RunEnd(sess.forward, r))
    BY <1>3, RunTaken, RunBounds
  <2>3. sess.forward # <<>>
    <3>1. Len(r) \in 1 .. Len(sess.forward)
      BY <1>3, RunSegments
    <3> QED BY <3>1
  <2> HIDE DEF f
  <2>4. RunKeeps(r, f, n)
    BY <1>1, <1>3, <2>1, <2>2, <2>3 DEF RunKeeps
  <2> QED BY <2>4 DEF f
<1> QED BY <1>2, <1>3

\* A turn of check_tcp_socket past LISTEN, by its outcome: f is the session after
\* the forward loop.
Turns(r, f, s, k) ==
    /\ r \in ForwardRuns /\ s \in Session /\ k \in Sockets
    /\ RunKeeps(r, f, app.nxt) /\ f = Forwarded(sess, r)
    /\ Confirms(f, s, r # <<>>)
    /\ k.conn = sock.conn /\ k.made = sock.made /\ k.avail = sock.avail
    /\ Reads(s, sess', k, sock')
    /\ upstream' = upstream \o TakenOf(r)

LEMMA TransferredTurns ==
    ASSUME IInv, OneApp, Flow, Transferred
    PROVE  \E r, f, s, k : Turns(r, f, s, k)
<1>1. PICK r \in ForwardRuns : \E s \in Session, k \in Sockets :
          /\ Confirms(Forwarded(sess, r), s, r # <<>>)
          /\ k.conn = sock.conn /\ k.made = sock.made /\ k.avail = sock.avail
          /\ Reads(s, sess', k, sock')
          /\ upstream' = upstream \o TakenOf(r)
  BY DEF Transferred
<1>2. /\ sess \in Session /\ app.nxt \in Nat /\ app.nxt + 3 < SeqSpace
      /\ Carries(sess, app.nxt)
  BY FlowTypes DEF Transferred, Flow, FlowOfSession
<1>3. RunKeeps(r, Forwarded(sess, r), app.nxt)
  BY <1>2, RunOutcome
<1> QED BY <1>1, <1>3 DEF Turns

\* The state after such a turn, and where remote_seq is.
LEMMA TurnMoves ==
    ASSUME NEW r, NEW f, NEW s, NEW k, Turns(r, f, s, k)
    PROVE  /\ SameLink(sess, sess') /\ sess'.forward = f.forward
           /\ \/ sess'.state \in {sess.state, "CLOSING"}
              \/ /\ f.forward = <<>> /\ sock.conn = "connected" /\ ~sess'.socket
                 /\ \/ sess.state = "ESTABLISHED" /\ sess'.state = "FIN_WAIT1"
                    \/ sess.state = "CLOSE_WAIT" /\ sess'.state = "LAST_ACK"
           /\ sess'.remote_seq = IF r # <<>> /\ f.forward = <<>> /\ sess.state = "CLOSE_WAIT"
                                 THEN SeqAdd(f.remote_seq, 1) ELSE f.remote_seq
<1>1. SameLink(sess, f) /\ SameLink(f, s) /\ SameLink(s, sess') /\ f.state = sess.state
  BY DEF Turns, RunKeeps, Confirms, Reads
<1>2. /\ s.forward = f.forward /\ s.state \in {f.state, "CLOSING"}
      /\ s.remote_seq = IF r # <<>> /\ f.forward = <<>> /\ f.state = "CLOSE_WAIT"
                        THEN SeqAdd(f.remote_seq, 1) ELSE f.remote_seq
  BY DEF Turns, Confirms
<1>3. /\ sess'.forward = s.forward /\ sess'.remote_seq = s.remote_seq
      /\ \/ sess'.state \in {s.state, "CLOSING"}
         \/ /\ s.forward = <<>> /\ sock.conn = "connected" /\ ~sess'.socket
            /\ \/ s.state = "ESTABLISHED" /\ sess'.state = "FIN_WAIT1"
               \/ s.state = "CLOSE_WAIT" /\ sess'.state = "LAST_ACK"
  BY DEF Turns, Reads
<1> QED BY <1>1, <1>2, <1>3 DEF SameLink

\* remote_seq moves on with the run, and by one more for a FIN that waited.
LEMMA TurnRemote ==
    ASSUME NEW r, NEW f, NEW s, NEW k, Turns(r, f, s, k),
           app.nxt \in Nat, app.nxt + 3 < SeqSpace,
           RemoteOff(sess) \in Nat, RemoteOff(sess) <= app.nxt + 2
    PROVE  \/ RemoteOff(sess') = RemoteOff(f)
           \/ /\ RemoteOff(sess') = RemoteOff(f) + 1
              /\ r # <<>> /\ f.forward = <<>> /\ sess.state = "CLOSE_WAIT"
<1>1. sess'.remote_seq = IF r # <<>> /\ f.forward = <<>> /\ sess.state = "CLOSE_WAIT"
                         THEN SeqAdd(f.remote_seq, 1) ELSE f.remote_seq
  BY TurnMoves
<1>2. RunKeeps(r, f, app.nxt) /\ RemoteOff(f) \in Nat
  BY DEF Turns, RunKeeps
<1>3. CASE r # <<>> /\ f.forward = <<>> /\ sess.state = "CLOSE_WAIT"
  <2>1. f.remote_seq \in SeqNums /\ RemoteOff(f) <= app.nxt + 2
    BY <1>2 DEF RunKeeps
  <2>3. RemoteOff(f) + 1 < SeqSpace
    BY <1>2, <2>1, SeqSpaceAssumption
  <2>2. Dist(RemoteStart, SeqAdd(f.remote_seq, 1)) = Dist(RemoteStart, f.remote_seq) + 1
    BY <2>1, <2>3, DistAdd, TcpAssumption DEF RemoteOff
  <2> QED BY <1>1, <1>3, <2>2 DEF RemoteOff
<1>4. CASE ~(r # <<>> /\ f.forward = <<>> /\ sess.state = "CLOSE_WAIT")
  BY <1>1, <1>4 DEF RemoteOff
<1> QED BY <1>3, <1>4

LEMMA AscendsNothing ==
    ASSUME NEW s, NEW k \in Nat, Ascends(s, k, k)
    PROVE  s = <<>>
<1>1. s \in Seq(Nat) /\ \A i \in DOMAIN s : k <= s[i] /\ s[i] < k
  BY DEF Ascends
<1>2. Len(s) \in Nat /\ DOMAIN s = 1 .. Len(s) /\ \A i \in DOMAIN s : s[i] \in Nat
  BY <1>1
<1>3. DOMAIN s = {}
  BY <1>1, <1>2
<1>4. Len(s) = 0
  BY <1>2, <1>3
<1> QED BY <1>1, <1>4

LEMMA TransferredFlow ==
    ASSUME IInv, OneApp, Flow, Transferred
    PROVE  Flow'
<1>1. PICK r, f, s, k : Turns(r, f, s, k)
  BY TransferredTurns
<1>2. /\ sess # NoSession /\ sess.state # "LISTEN" /\ sess \in Session /\ sess' \in Session
      /\ UNCHANGED app /\ app.nxt \in Nat /\ app.nxt + 3 < SeqSpace
      /\ RemoteOff(sess) \in Nat /\ RemoteOff(sess) <= app.nxt + 2
  BY FlowTypes DEF Transferred
<1>3. RunKeeps(r, f, app.nxt) /\ upstream' = upstream \o TakenOf(r)
  BY <1>1 DEF Turns
<1>4. /\ SameLink(sess, sess') /\ sess'.forward = f.forward
      /\ \/ sess'.state \in {sess.state, "CLOSING"}
         \/ sess.state = "ESTABLISHED" /\ sess'.state = "FIN_WAIT1"
         \/ sess.state = "CLOSE_WAIT" /\ sess'.state = "LAST_ACK"
  BY <1>1, TurnMoves
<1>5. RemoteOff(f) \in Nat /\ RemoteOff(sess) <= RemoteOff(f) /\ SameLink(sess, f)
  BY <1>3 DEF RunKeeps
<1>6. \/ RemoteOff(sess') = RemoteOff(f)
      \/ /\ RemoteOff(sess') = RemoteOff(f) + 1
         /\ r # <<>> /\ f.forward = <<>> /\ sess.state = "CLOSE_WAIT"
  BY <1>1, <1>2, TurnRemote
<1>7. Ascends(upstream, 0, RemoteOff(sess))
  <2>1. upstream \in Seq(Nat)
    BY DEF Flow, OrderOfApp
  <2>2. \A i \in DOMAIN upstream : 0 <= upstream[i]
    BY <2>1
  <2> QED BY <1>2, <2>1, <2>2 DEF Flow, OrderOfApp, FlowOfSession, UpstreamInOrder, Ascends
<1>8. Ascends(upstream', 0, RemoteOff(f))
  BY <1>2, <1>3, <1>5, <1>7, AscendsJoin DEF RunKeeps
<1>9. /\ upstream' \in Seq(Nat) /\ UpstreamInOrder'
      /\ \A i \in DOMAIN upstream' : upstream'[i] < RemoteOff(sess')
  <2>1. upstream' \in Seq(Nat) /\ UpstreamInOrder'
    BY <1>8 DEF Ascends, UpstreamInOrder
  <2>2. \A i \in DOMAIN upstream' : upstream'[i] < RemoteOff(f) /\ upstream'[i] \in Nat
    BY <1>8, <2>1 DEF Ascends
  <2> QED BY <1>5, <1>6, <2>1, <2>2
<1>10. OrderOfApp'
  <2>1. app.nxt = 0 => TakenOf(r) = <<>>
    <3> SUFFICES ASSUME app.nxt = 0 PROVE TakenOf(r) = <<>>
      OBVIOUS
    <3>1. RemoteOff(f) = RemoteOff(sess) /\ Ascends(TakenOf(r), RemoteOff(sess), RemoteOff(f))
      BY <1>3 DEF RunKeeps
    <3> QED BY <1>2, <3>1, AscendsNothing
  <2>2. app'.phase \in Fresh => app'.nxt = 0 /\ ~app'.fin /\ upstream' = <<>>
    <3>1. <<>> \o <<>> = <<>>
      OBVIOUS
    <3> QED BY <1>2, <1>3, <2>1, <3>1 DEF Flow, OrderOfApp
  <2>3. app'.phase # "idle"
    BY <1>2 DEF Flow, OrderOfApp
  <2>4. app'.nxt = 0 \/ \E g \in Segments : app'.nxt = g[1] + g[2] - 1
    BY <1>2 DEF Flow, OrderOfApp
  <2>5. app'.phase = "idle" => sess' = NoSession
    BY <2>3
  <2>6. upstream' \in Seq(Nat) /\ UpstreamInOrder'
    BY <1>9
  <2> QED BY <2>2, <2>4, <2>5, <2>6 DEF OrderOfApp
<1>11. RemoteOff(sess') <= app'.nxt + Past(sess)'
  <2>1. Past(sess) \in {1, 2} /\ Past(sess)' \in {1, 2} /\ app'.nxt = app.nxt
    <3>1. Past(sess)' \in {1, 2}
      BY DEF Past
    <3> QED BY <1>2, <3>1, PastIs
  <2>2. RemoteOff(sess) <= app.nxt + Past(sess)
    BY <1>2 DEF Flow, FlowOfSession
  <2>3. CASE RemoteOff(sess') = RemoteOff(f) /\ RemoteOff(f) <= app.nxt + 1
    BY <1>2, <1>5, <2>1, <2>3
  <2>4. CASE RemoteOff(sess') = RemoteOff(f) /\ RemoteOff(f) = RemoteOff(sess)
    <3>1. FinConfirmed(sess) => FinConfirmed(sess)'
      <4> SUFFICES ASSUME FinConfirmed(sess) PROVE FinConfirmed(sess)'
        OBVIOUS
      <4>1. sess'.forward = <<>>
        BY <1>3, <1>4 DEF FinConfirmed, RunKeeps
      <4> QED BY <1>2, <1>4, <4>1 DEF FinConfirmed, Over
    <3>2. Past(sess) = 2 => Past(sess)' = 2
      <4>1. sess'.port = sess.port /\ sess'.connect = sess.connect /\ sess'.state # "LISTEN"
        BY <1>2, <1>4 DEF SameLink
      <4> QED BY <1>2, <3>1, <4>1 DEF Past
    <3> QED BY <1>2, <2>1, <2>2, <2>4, <3>2
  <2>5. CASE /\ RemoteOff(sess') = RemoteOff(f) + 1
             /\ r # <<>> /\ f.forward = <<>> /\ sess.state = "CLOSE_WAIT"
    <3>1. app.fin
      BY <1>2, <2>5 DEF Flow, FlowOfSession
    <3>2. sess.port # "https" \/ sess.connect = "established"
      BY <1>2, <2>5 DEF IInv, Control, TunnelStates
    <3>3. FinConfirmed(sess)'
      BY <1>2, <1>4, <2>5, <3>1 DEF FinConfirmed, Over
    <3>4. Past(sess)' = 2
      <4>1. sess'.port = sess.port /\ sess'.connect = sess.connect
        BY <1>4 DEF SameLink
      <4> QED BY <3>2, <3>3, <4>1 DEF Past
    <3>5. Past(sess) = 1
      <4>1. sess.forward # <<>>
        BY <1>3, <2>5 DEF RunKeeps
      <4> QED BY <3>2, <4>1 DEF Past, FinConfirmed
    <3>6. RemoteOff(f) <= app.nxt + 1
      BY <1>2, <1>3, <2>2, <3>5 DEF RunKeeps
    <3> QED BY <1>2, <1>5, <2>1, <2>5, <3>4, <3>6
  <2>6. RemoteOff(f) <= app.nxt + 1 \/ RemoteOff(f) = RemoteOff(sess)
    BY <1>3 DEF RunKeeps
  <2> QED BY <1>6, <2>3, <2>4, <2>5, <2>6
<1>12. FlowOfSession'
  <2>1. /\ sess'.state # "LISTEN"
        /\ sess'.connect = "sent" => sess'.port = "https"
    BY <1>2, <1>4 DEF Flow, FlowOfSession, SameLink
  <2>2. sess'.state = "CLOSE_WAIT" => app'.fin
    BY <1>2, <1>4 DEF Flow, FlowOfSession
  <2>3. Carries(sess, app.nxt)'
    <3>1. Carries(f, app.nxt) /\ f.port = sess'.port /\ f.forward = sess'.forward
      BY <1>3, <1>4, <1>5 DEF RunKeeps, SameLink
    <3> QED BY <1>2, <3>1 DEF Carries
  <2> QED BY <1>9, <1>11, <2>1, <2>2, <2>3 DEF FlowOfSession
<1> QED BY <1>10, <1>12 DEF Flow

LEMMA NextFlow ==
    ASSUME IInv, OneApp, Flow, [Next]_vars
    PROVE  Flow'
BY EveryStep, RestedFlow, FreedFlow, AnsweredFlow, TransferredFlow, ReceivedFlow,
   ElsewhereFlow, TunnelledFlow, AdmittedFlow

LEMMA NextOrder ==
    ASSUME IInv, OneStream, Order, [Next]_vars
    PROVE  Order'
<1>1. OneApp /\ Flow /\ IInv'
  BY FlowIsOrder, NextInv DEF OneStream
<1> QED BY <1>1, NextFlow, FlowIsOrderNext

\* The forward loop and queue_tcp give upstream the app's bytes in their order and
\* none twice, whatever the app sends again or out of order, however much of a
\* segment a send takes, and when a send fails.  So it is on every port: what is
\* queued for a tunnel before the proxy accepts the CONNECT, packets without data
\* among it, gets there once and in order as well.
THEOREM BytesInOrder == OneApp => (Spec => []UpstreamInOrder)
<1> SUFFICES ASSUME OneApp PROVE Spec => []UpstreamInOrder
  OBVIOUS
<1>1. Init => IInv /\ Flow
  BY InitInv, InitFlow
<1>2. IInv /\ Flow /\ [Next]_vars => (IInv /\ Flow)'
  BY NextInv, NextFlow
<1>3. IInv /\ Flow => UpstreamInOrder
  BY DEF Flow, OrderOfApp
<1> QED BY <1>1, <1>2, <1>3, PTL DEF Spec

\* remote_seq, which check_tcp_socket, handle_tcp and write_rst all move, never
\* passes what the app has sent: its SYN, its bytes and its FIN, once each.
THEOREM AcksOnlySent == OneStream => (Spec => []NeverAcksUnsent)
<1> SUFFICES ASSUME OneStream PROVE Spec => []NeverAcksUnsent
  OBVIOUS
<1>1. Init => IInv /\ Order
  BY InitInv, InitOrder
<1>2. IInv /\ Order /\ [Next]_vars => (IInv /\ Order)'
  BY NextInv, NextOrder
<1>3. IInv /\ Order => NeverAcksUnsent
  <2> SUFFICES ASSUME IInv, Order, sess # NoSession
               PROVE  RemoteOff(sess) <= app.nxt + (IF app.fin THEN 2 ELSE 1)
    BY DEF NeverAcksUnsent
  <2>1. /\ RemoteOff(sess) <= app.nxt + (IF FinConfirmed(sess) THEN 2 ELSE 1)
        /\ FinConfirmed(sess) => app.fin
    BY DEF Order, OrderOfSession, FinConfirmed
  <2>2. RemoteOff(sess) \in Nat /\ app.nxt \in Nat
    BY SessionOf, OffsetTypes, SentFits DEF IInv
  <2> QED BY <2>1, <2>2
<1> QED BY <1>1, <1>2, <1>3, PTL DEF Spec

-----------------------------------------------------------------------------
(***************************************************************************)
(* The send window.  get_send_window compares sequence numbers with        *)
(* compare_u32, which is right about numbers that do not cross 2^31: the   *)
(* theorem is about the connections whose own numbers stay on one side.    *)
(***************************************************************************)

\* The n numbers after start do not come to 2^31 from below.
OneSide(start, n) ==
    /\ n < Half - 1
    /\ start + n < Half \/ (start >= Half /\ start + n < SeqSpace + Half)

LEMMA DistBetween ==
    ASSUME NEW from \in SeqNums, NEW s \in SeqNums, NEW t \in SeqNums,
           Dist(from, s) <= Dist(from, t)
    PROVE  Dist(s, t) = Dist(from, t) - Dist(from, s)
<1>1. /\ from \in Nat /\ s \in Nat /\ t \in Nat /\ SeqSpace \in Nat
      /\ from < SeqSpace /\ s < SeqSpace /\ t < SeqSpace
  BY SeqSpaceAssumption DEF SeqNums
<1>2. /\ Dist(from, s) = IF from <= s THEN s - from ELSE s - from + SeqSpace
      /\ Dist(from, t) = IF from <= t THEN t - from ELSE t - from + SeqSpace
      /\ Dist(s, t) = IF s <= t THEN t - s ELSE t - s + SeqSpace
  BY DistValue
<1> QED BY <1>1, <1>2

LEMMA SideCompare ==
    ASSUME NEW from \in SeqNums, NEW n \in Nat, OneSide(from, n),
           NEW s \in SeqNums, NEW t \in SeqNums,
           Dist(from, s) < Dist(from, t), Dist(from, t) <= n
    PROVE  compare_u32(s, t) = -1 /\ compare_u32(t, s) = 1
<1>1. /\ from \in Nat /\ s \in Nat /\ t \in Nat /\ SeqSpace \in Nat /\ Half \in Nat
      /\ from < SeqSpace /\ s < SeqSpace /\ t < SeqSpace /\ SeqSpace = 2 * Half
  BY SeqSpaceAssumption, HalfValue DEF SeqNums
<1>2. /\ Dist(from, s) = IF from <= s THEN s - from ELSE s - from + SeqSpace
      /\ Dist(from, t) = IF from <= t THEN t - from ELSE t - from + SeqSpace
  BY DistValue
<1>3. Dist(s, t) = Dist(from, t) - Dist(from, s)
  BY <1>1, <1>2, DistBetween
<1>4. Dist(s, t) < Half - 1 /\ s # t
  BY <1>1, <1>2, <1>3 DEF OneSide
<1>5. ~(s < Half /\ t >= Half)
  BY <1>1, <1>2 DEF OneSide
<1> QED BY <1>4, <1>5, ComparePrecedes, CompareFollows

AckedOff(s) == Dist(LocalStart, s.acked)

\* What get_send_window leaves open ends where the advertised window does.
LEMMA WindowEnds ==
    ASSUME NEW t \in Session, OneSide(LocalStart, MaxDown + 2),
           AckedOff(t) <= LocalOff(t), LocalOff(t) <= MaxDown + 2,
           NEW n \in Nat, n <= get_send_window(t)
    PROVE  n = 0 \/ LocalOff(t) + n <= AckedOff(t) + t.send_window
<1>1. t.acked \in SeqNums /\ t.local_seq \in SeqNums /\ t.send_window \in Nat
  BY DEF Session
<1>2. LocalStart \in SeqNums /\ MaxDown + 2 \in Nat
  BY TcpAssumption
<1>3. /\ AckedOff(t) \in Nat /\ LocalOff(t) \in Nat
      /\ Dist(t.acked, t.local_seq) = LocalOff(t) - AckedOff(t)
  BY <1>1, <1>2, DistRange, DistBetween DEF AckedOff, LocalOff
<1>4. compare_u32(t.acked, t.local_seq) <= 0
  <2>1. CASE AckedOff(t) = LocalOff(t)
    <3>1. t.acked = t.local_seq
      BY <1>1, <1>2, <2>1, DistInjective DEF AckedOff, LocalOff
    <3> QED BY <3>1 DEF compare_u32
  <2>2. CASE AckedOff(t) < LocalOff(t)
    <3>1. compare_u32(t.acked, t.local_seq) = -1
      BY <1>1, <1>2, <2>2, SideCompare DEF AckedOff, LocalOff
    <3> QED BY <3>1
  <2> QED BY <1>3, <2>1, <2>2
<1>5. get_send_window(t) = IF LocalOff(t) - AckedOff(t) < t.send_window
                           THEN t.send_window - (LocalOff(t) - AckedOff(t)) ELSE 0
  BY <1>3, <1>4 DEF get_send_window
<1> QED BY <1>1, <1>3, <1>5

\* What the session has been told of the app's window, and what it has used.
Advertised ==
    /\ app.phase \notin Fresh
    /\ AckedOff(sess) <= app.ack /\ AckedOff(sess) <= LocalOff(sess)
    /\ AckedOff(sess) + sess.send_window <= app.edge
    /\ LocalOff(sess) <= app.edge

Window ==
    /\ sock.avail <= sock.made /\ sock.made <= MaxDown
    /\ sess # NoSession =>
          /\ LocalOff(sess) <= MaxDown + 2
          /\ sess.socket => LocalOff(sess) <= 1 + sock.made - sock.avail
          /\ sess.state \in {"ESTABLISHED", "CLOSE_WAIT"} => Advertised

LEMMA InitWindow == Init => Window
BY TcpAssumption DEF Init, NoSocket, Window

LEMMA WindowTypes ==
    ASSUME IInv
    PROVE  /\ sock.avail \in Nat /\ sock.made \in Nat /\ MaxDown \in Nat
           /\ app.ack \in Nat /\ app.edge \in Nat
           /\ sess # NoSession => LocalOff(sess) \in Nat /\ sess \in Session
BY SessionOf, OffsetTypes, TcpAssumption DEF IInv, TypeOK, Sockets, Apps

\* The session's end of the window stays, the socket's may move on its own.
LEMMA WindowStays ==
    ASSUME IInv, Window, sess # NoSession, sess' # NoSession,
           sess'.local_seq = sess.local_seq,
           sess'.socket => sess.socket /\ sock'.made = sock.made /\ sock'.avail = sock.avail,
           sock'.avail <= sock'.made, sock'.made <= MaxDown,
           \/ sess'.state \notin {"ESTABLISHED", "CLOSE_WAIT"}
           \/ Advertised'
    PROVE  Window'
<1>1. LocalOff(sess') = LocalOff(sess)
  BY DEF LocalOff
<1> QED BY <1>1 DEF Window

LEMMA RestedWindow ==
    ASSUME IInv, IInv', Window, Rested
    PROVE  Window'
<1>1. /\ sess # NoSession /\ sess' # NoSession /\ Quiet(sess, sess') /\ UNCHANGED app
      /\ sess.socket \in BOOLEAN /\ sock \in Sockets
  BY SessionOf, NoSessionIsNone DEF Rested, IInv, TypeOK, Session
<1>2. sess'.local_seq = sess.local_seq
  BY <1>1 DEF Quiet
<1>3. \/ sock'.made = sock.made /\ sock'.avail = sock.avail
      \/ sock' = NoSocket /\ ~sess'.socket
  BY <1>1 DEF Rested, Sockets
<1>4. sock'.avail <= sock'.made /\ sock'.made <= MaxDown
  BY <1>3, WindowTypes DEF Window, NoSocket
<1>5. sess'.socket => sess.socket
  BY <1>1 DEF Quiet, IInv, Control, SocketMatchesState, Rested, NoSocket
<1>6. \/ sess'.state \notin {"ESTABLISHED", "CLOSE_WAIT"}
      \/ Advertised'
  <2>1. CASE /\ sess'.state = sess.state /\ sess'.acked = sess.acked
             /\ sess'.send_window = sess.send_window
    BY <1>1, <1>2, <2>1 DEF Window, Advertised, AckedOff, LocalOff
  <2>2. CASE sess'.state \in Over
    BY <2>2 DEF Over
  <2> QED BY <1>1, <2>1, <2>2 DEF Quiet, Over
<1> QED BY <1>1, <1>2, <1>3, <1>4, <1>5, <1>6, WindowStays

LEMMA AnsweredWindow ==
    ASSUME IInv, IInv', OneStream, Order, Window, Answered
    PROVE  Window'
<1>1. /\ sess # NoSession /\ sess \in Session /\ Answers(sess, sess') /\ UNCHANGED <<sock, app>>
  BY SessionOf DEF Answered, IInv
<1>2. /\ sess'.local_seq = SeqAdd(sess.local_seq, 1) /\ sess'.state = "SYN_RECV"
      /\ LocalOff(sess) = 0
  BY <1>1 DEF Answers, Order, OrderOfSession
<1>3. LocalOff(sess') = 1
  BY <1>1, <1>2, LocalMore, SeqSpaceAssumption
<1> QED BY <1>1, <1>2, <1>3, WindowTypes DEF Window

LEMMA FreedWindow ==
    ASSUME IInv, Window, Freed
    PROVE  Window'
BY WindowTypes DEF Freed, Window, NoSocket

LEMMA ElsewhereWindow ==
    ASSUME IInv, IInv', Window, Elsewhere
    PROVE  Window'
<1>1. UNCHANGED sess /\ SockMoves /\ AppGrows
  BY DEF Elsewhere
<1>2. /\ sock'.avail <= sock'.made /\ sock'.made <= MaxDown
      /\ sock'.made - sock'.avail = sock.made - sock.avail
  BY <1>1, WindowTypes DEF SockMoves, Window
<1>3. LocalOff(sess)' = LocalOff(sess) /\ AckedOff(sess)' = AckedOff(sess)
  BY <1>1 DEF LocalOff, AckedOff
<1> SUFFICES ASSUME sess # NoSession PROVE Window'
  BY <1>1, <1>2 DEF Window
<1>4. sess.acked \in SeqNums /\ sess.send_window \in Nat /\ LocalOff(sess) \in Nat
  BY WindowTypes DEF Session
<1>5. AckedOff(sess) \in Nat
  BY <1>4, DistRange, TcpAssumption DEF AckedOff
<1>6. app.ack <= app'.ack /\ app.edge <= app'.edge /\ (app'.phase \in Fresh => app.phase \in Fresh)
  BY <1>1 DEF AppGrows
<1>7. Advertised => Advertised'
  <2>1. app'.ack \in Int /\ app'.edge \in Int
    BY DEF IInv, TypeOK, Apps
  <2> QED BY <1>1, <1>3, <1>4, <1>5, <1>6, <2>1, WindowTypes DEF Advertised
<1>8. sess.socket => LocalOff(sess) <= 1 + sock'.made - sock'.avail
  <2>1. sock'.made \in Int /\ sock'.avail \in Int
    BY <1>1, WindowTypes DEF SockMoves
  <2> QED BY <1>2, <1>4, <2>1, WindowTypes DEF Window
<1> QED BY <1>1, <1>2, <1>3, <1>7, <1>8 DEF Window

\* A packet that acknowledges tells the session where the app's window is.
LEMMA AckedIs ==
    ASSUME IInv, sess # NoSession, NEW p, SaysMore(p)
    PROVE  /\ Dist(LocalStart, p.ackseq) = app'.ack /\ app'.ack <= LocalOff(sess)
           /\ app'.phase \notin Fresh /\ app'.edge = app'.ack + p.win
<1>1. /\ app'.ack \in Nat /\ app'.ack <= LocalOff(sess) /\ p.ackseq = SeqAdd(LocalStart, app'.ack)
      /\ app'.phase \in {"open", "gone"} /\ app'.edge = app'.ack + p.win
  BY DEF SaysMore
<1>2. LocalOff(sess) \in Nat /\ LocalOff(sess) < SeqSpace
  BY SessionOf, OffsetTypes DEF IInv
<1>3. app'.ack < SeqSpace
  BY <1>1, <1>2, SeqSpaceAssumption
<1> QED BY <1>1, <1>3, DistOfAdd, TcpAssumption DEF Fresh

LEMMA AcceptsWindow ==
    ASSUME IInv, Window, sess # NoSession, NEW p, Says(p), AppGrows,
           sess'.local_seq = sess.local_seq, Accepts(sess, sess', p),
           sess'.state \in {"ESTABLISHED", "CLOSE_WAIT"}
    PROVE  Advertised'
<1>1. LocalOff(sess') = LocalOff(sess)
  BY DEF LocalOff
<1>2. SaysMore(p)
  <2>1. CASE SaysSyn(p)
    <3>1. app.phase \in Fresh /\ ~p.ack /\ ~p.fin
      BY <2>1 DEF SaysSyn
    <3>2. sess.state \notin {"ESTABLISHED", "CLOSE_WAIT"}
      BY <3>1 DEF Window, Advertised
    <3> QED BY <3>1, <3>2 DEF Accepts, Over
  <2> QED BY <2>1 DEF Says
<1>3. /\ Dist(LocalStart, p.ackseq) = app'.ack /\ app'.ack <= LocalOff(sess)
      /\ app'.phase \notin Fresh /\ app'.edge = app'.ack + p.win
  BY <1>2, AckedIs
<1>4. /\ sess.acked \in SeqNums /\ LocalOff(sess) \in Nat /\ p.win \in Nat
      /\ app'.ack \in Nat /\ app.ack \in Nat /\ app.edge \in Nat
  BY <1>2, WindowTypes DEF Session, Says, Packets, SaysMore
<1>5. AckedOff(sess) \in Nat
  BY <1>4, DistRange, TcpAssumption DEF AckedOff
<1>6. sess'.send_window = p.win /\ app.ack <= app'.ack /\ app.edge <= app'.edge
  BY DEF Accepts, AppGrows
<1>7. CASE sess.state \in {"ESTABLISHED", "CLOSE_WAIT"}
  <2>1. Advertised
    BY <1>7 DEF Window
  <2>2. sess'.acked = sess.acked \/ sess'.acked = p.ackseq
    BY <1>7 DEF Accepts, Over
  <2>3. AckedOff(sess') = AckedOff(sess) \/ AckedOff(sess') = app'.ack
    BY <1>3, <2>2 DEF AckedOff
  <2> QED BY <1>1, <1>3, <1>4, <1>5, <1>6, <2>1, <2>3 DEF Advertised
<1>8. CASE sess.state \notin {"ESTABLISHED", "CLOSE_WAIT"}
  <2>1. p.ackseq = sess.local_seq /\ sess'.acked = p.ackseq
    BY <1>8 DEF Accepts, Over
  <2>2. AckedOff(sess') = app'.ack /\ LocalOff(sess) = app'.ack
    BY <1>3, <2>1 DEF AckedOff, LocalOff
  <2> QED BY <1>1, <1>3, <1>4, <1>6, <2>2 DEF Advertised
<1> QED BY <1>7, <1>8

LEMMA ReceivedWindow ==
    ASSUME IInv, OneStream, Order, Window, Received
    PROVE  Window'
<1>1. PICK p : Says(p) /\ AppGrows /\ Heard(p)
  BY DEF Received
<1>2. CASE Opens(p)
  <2>1. SaysSyn(p)
    BY <1>1, <1>2 DEF Says, SaysMore, Opens
  <2>2. sess'.local_seq = LocalStart /\ sess'.state = "LISTEN"
    BY <1>2 DEF Opens
  <2>3. LocalOff(sess') = 0
    BY <2>2, DistSelf, TcpAssumption DEF LocalOff
  <2>4. sock'.made = 0 /\ sock'.avail = 0
    BY <1>2 DEF Opens, NoSocket
  <2> QED BY <2>2, <2>3, <2>4, WindowTypes DEF Window
<1>3. CASE sess = NoSession /\ UNCHANGED <<sess, sock>>
  BY <1>3 DEF Window
<1>4. CASE sess # NoSession /\ sess' \in Session /\ Receives(sess, sess', p) /\ UNCHANGED sock
  <2>1. /\ sess'.local_seq = sess.local_seq /\ sess'.socket = sess.socket
        /\ Rejects(sess, sess', p) \/ Accepts(sess, sess', p)
    BY <1>4 DEF Receives
  <2>2. \/ sess'.state \notin {"ESTABLISHED", "CLOSE_WAIT"}
        \/ Advertised'
    BY <1>1, <1>4, <2>1, AcceptsWindow DEF Rejects, Over
  <2>3. sess' # NoSession /\ sock'.avail <= sock'.made /\ sock'.made <= MaxDown
    BY <1>4, NoSessionIsNone DEF Window
  <2> QED BY <1>4, <2>1, <2>2, <2>3, WindowStays
<1> QED BY <1>1, <1>2, <1>3, <1>4 DEF Heard

\* Reading gives the app no more than get_send_window allows.
LEMMA TransferredWindow ==
    ASSUME IInv, OneStream, OneSide(LocalStart, MaxDown + 2), Order, Window, Transferred
    PROVE  Window'
<1>1. PICK r, f, s, k : Turns(r, f, s, k)
  BY FlowIsOrder, TransferredTurns DEF OneStream
<1>2. /\ sess # NoSession /\ sess \in Session /\ sess' \in Session /\ sess' # NoSession
      /\ UNCHANGED app
  BY SessionOf, NoSessionIsNone DEF Transferred, IInv
<1>3. /\ s \in Session /\ k \in Sockets /\ k.made = sock.made /\ k.avail = sock.avail
      /\ k.conn = sock.conn /\ Reads(s, sess', k, sock')
  BY <1>1 DEF Turns
<1>4. /\ s.local_seq = sess.local_seq /\ s.socket = sess.socket /\ s.acked = sess.acked
      /\ s.send_window = sess.send_window /\ s.state \in {sess.state, "CLOSING"}
  BY <1>1 DEF Turns, RunKeeps, Confirms
<1>5. /\ LocalOff(s) = LocalOff(sess) /\ AckedOff(s) = AckedOff(sess)
      /\ sess'.acked = sess.acked /\ sess'.send_window = sess.send_window
  BY <1>3, <1>4 DEF LocalOff, AckedOff, Reads
<1>6. sess.state \in {"ESTABLISHED", "CLOSE_WAIT"} => sess.socket /\ Advertised
  BY <1>2 DEF IInv, Control, SocketMatchesState, Window
<1>7. CASE /\ sess'.local_seq = sess.local_seq /\ (sess'.socket => s.socket)
           /\ sess'.state \in {s.state, "CLOSING"}
           /\ \/ sock'.made = k.made /\ sock'.avail = k.avail
              \/ /\ sess'.state = "CLOSING" /\ sess'.socket
                 /\ \E n \in Nat : /\ n <= k.avail /\ sock'.made = k.made
                                   /\ sock'.avail = k.avail - n
              \/ ~sess'.socket /\ sock' = NoSocket
  <2>1. LocalOff(sess') = LocalOff(sess) /\ AckedOff(sess') = AckedOff(sess)
    BY <1>5, <1>7 DEF LocalOff, AckedOff
  <2>2. sock'.avail <= sock'.made /\ sock'.made <= MaxDown
    BY <1>3, <1>7, WindowTypes DEF Window, NoSocket
  <2>3. sess'.state \in {"ESTABLISHED", "CLOSE_WAIT"} => Advertised'
    BY <1>2, <1>4, <1>5, <1>7, <2>1 DEF Advertised, Window
  <2>4. sess'.socket => LocalOff(sess') <= 1 + sock'.made - sock'.avail
    BY <1>2, <1>3, <1>4, <1>7, <2>1, WindowTypes DEF Window
  <2> QED BY <1>2, <2>1, <2>2, <2>3, <2>4 DEF Window
<1>8. CASE /\ s.state \in {"ESTABLISHED", "CLOSE_WAIT"} /\ sess'.state = s.state
           /\ sess'.socket = s.socket
           /\ \E n \in Nat : /\ n <= k.avail /\ n <= get_send_window(s)
                             /\ sess'.local_seq = SeqAdd(s.local_seq, n)
                             /\ sock' = [k EXCEPT !.avail = @ - n]
  <2>1. PICK n \in Nat : /\ n <= k.avail /\ n <= get_send_window(s)
                         /\ sess'.local_seq = SeqAdd(s.local_seq, n)
                         /\ sock' = [k EXCEPT !.avail = @ - n]
    BY <1>8
  <2>2. sock'.made = sock.made /\ sock'.avail = sock.avail - n
    BY <1>3, <2>1 DEF Sockets
  <2>3. sess.state = s.state /\ sess.socket /\ Advertised
    BY <1>4, <1>6, <1>8
  <2>4. /\ LocalOff(sess) <= 1 + sock.made - sock.avail /\ sock.made <= MaxDown
        /\ LocalOff(sess) \in Nat /\ AckedOff(sess) <= LocalOff(sess)
    BY <1>2, <2>3, WindowTypes DEF Window, Advertised
  <2>5. LocalOff(sess) + n <= MaxDown + 1
    BY <1>3, <2>1, <2>4, WindowTypes
  <2>6. LocalOff(sess) + n < SeqSpace
    BY <2>4, <2>5, WindowTypes, HalfValue, SeqSpaceAssumption DEF OneSide
  <2>7. LocalOff(sess') = LocalOff(sess) + n
    BY <1>3, <1>5, <2>1, <2>6, LocalMore
  <2>8. n = 0 \/ LocalOff(s) + n <= AckedOff(s) + s.send_window
    <3>1. AckedOff(s) <= LocalOff(s) /\ LocalOff(s) <= MaxDown + 2
      BY <1>2, <1>5, <2>4 DEF Window
    <3> QED BY <1>3, <2>1, <3>1, WindowEnds
  <2>9. AckedOff(sess') = AckedOff(sess) /\ AckedOff(sess) \in Nat /\ sess.send_window \in Nat
    <3>1. sess.acked \in SeqNums /\ sess.send_window \in Nat
      BY <1>2 DEF Session
    <3> QED BY <1>5, <3>1, DistRange, TcpAssumption DEF AckedOff
  <2>10. Advertised'
    BY <1>2, <1>4, <1>5, <2>3, <2>4, <2>7, <2>8, <2>9, WindowTypes DEF Advertised
  <2>11. sock'.avail <= sock'.made /\ sock'.made <= MaxDown
    BY <1>3, <2>1, <2>2, WindowTypes DEF Window
  <2>12. LocalOff(sess') <= MaxDown + 2 /\ LocalOff(sess') <= 1 + sock'.made - sock'.avail
    <3>1. n \in Nat /\ sock.made \in Nat /\ sock.avail \in Nat /\ MaxDown \in Nat
      BY <2>1, WindowTypes
    <3> QED BY <2>2, <2>4, <2>5, <2>7, <3>1
  <2> QED BY <2>10, <2>11, <2>12 DEF Window
<1>9. CASE /\ s.state \in {"ESTABLISHED", "CLOSE_WAIT"}
           /\ sess'.state \in {"FIN_WAIT1", "LAST_ACK"}
           /\ sess'.local_seq = SeqAdd(s.local_seq, 1) /\ ~sess'.socket /\ sock' = NoSocket
  <2>1. sess.socket
    BY <1>4, <1>6, <1>9
  <2>2. /\ LocalOff(sess) <= 1 + sock.made - sock.avail /\ sock.made <= MaxDown
        /\ LocalOff(sess) \in Nat
    BY <1>2, <2>1, WindowTypes DEF Window
  <2>3. LocalOff(sess) + 1 <= MaxDown + 2
    BY <2>2, WindowTypes
  <2>4. LocalOff(sess) + 1 < SeqSpace
    BY <2>2, <2>3, WindowTypes, HalfValue, SeqSpaceAssumption DEF OneSide
  <2>5. LocalOff(sess') = LocalOff(sess) + 1
    BY <1>3, <1>5, <1>9, <2>4, LocalMore
  <2> QED BY <1>9, <2>3, <2>5, WindowTypes DEF Window, NoSocket
<1>10. \A n \in Nat : sock' = [k EXCEPT !.avail = @ - n] =>
           sock'.made = k.made /\ sock'.avail = k.avail - n
  BY <1>3 DEF Sockets
<1>11. CASE /\ sess'.state = s.state /\ sess'.socket = s.socket
            /\ sess'.local_seq = s.local_seq /\ sock' = k
  BY <1>4, <1>7, <1>11
<1>12. CASE /\ s.state \in {"ESTABLISHED", "CLOSE_WAIT"} /\ sess'.state = "CLOSING"
            /\ sess'.local_seq = s.local_seq
            /\ \/ /\ sess'.socket = s.socket
                  /\ \E n \in Nat : n <= k.avail /\ sock' = [k EXCEPT !.avail = @ - n]
               \/ ~sess'.socket /\ sock' = NoSocket
  <2>1. s.socket /\ sess'.local_seq = sess.local_seq
    BY <1>4, <1>6, <1>12
  <2>2. \/ ~sess'.socket /\ sock' = NoSocket
        \/ /\ sess'.socket
           /\ \E n \in Nat : n <= k.avail /\ sock'.made = k.made /\ sock'.avail = k.avail - n
    BY <1>10, <1>12, <2>1
  <2> QED BY <1>7, <1>12, <2>1, <2>2
<1>13. Reads(s, sess', k, sock')
  BY <1>3
<1> QED BY <1>8, <1>9, <1>11, <1>12, <1>13 DEF Reads

LEMMA NextWindow ==
    ASSUME IInv, IInv', OneStream, OneSide(LocalStart, MaxDown + 2), Order, Window, [Next]_vars
    PROVE  Window'
<1>1. Untunnelled
  BY UntunnelledOf DEF Order, OrderOfSession
<1>2. CASE Rested
  BY <1>2, RestedWindow
<1>3. CASE Freed
  BY <1>3, FreedWindow
<1>4. CASE Answered
  BY <1>4, AnsweredWindow
<1>5. CASE Transferred
  BY <1>5, TransferredWindow
<1>6. CASE Received
  BY <1>6, ReceivedWindow
<1>7. CASE Elsewhere
  BY <1>7, ElsewhereWindow
<1> QED BY <1>1, <1>2, <1>3, <1>4, <1>5, <1>6, <1>7, PlainStep

\* The engine keeps nothing it has sent to the app, so it never sends past the
\* window the app advertised (get_send_window, the read in check_tcp_socket),
\* through acknowledgements in any order, repeated packets and a FIN; so it is on
\* ports without a tunnel, when the engine's numbers stay on one side of 2^31.
THEOREM StaysWithinWindow ==
    OneStream /\ OneSide(LocalStart, MaxDown + 2) => (Spec => []WithinWindow)
<1> SUFFICES ASSUME OneStream, OneSide(LocalStart, MaxDown + 2)
             PROVE  Spec => []WithinWindow
  OBVIOUS
<1>1. Init => IInv /\ Order /\ Window
  BY InitInv, InitOrder, InitWindow
<1>2. IInv /\ Order /\ Window /\ [Next]_vars => (IInv /\ Order /\ Window)'
  BY NextInv, NextOrder, NextWindow
<1>3. IInv /\ Order /\ Window => WithinWindow
  BY DEF Window, Advertised, WithinWindow
<1> QED BY <1>1, <1>2, <1>3, PTL DEF Spec

-----------------------------------------------------------------------------
(***************************************************************************)
(* The queue.  queue_tcp looks for a segment's place by its number alone:  *)
(* the theorem is about an app that sends the same segments again, and     *)
(* none that overlap in part, with its numbers on one side of 2^31.        *)
(***************************************************************************)

SegmentsApart ==
    \A g, h \in Segments : /\ g[1] < h[1] => g[1] + g[2] <= h[1]
                           /\ g[1] = h[1] => g[2] = h[2]

SegmentsOneSide == \A g \in Segments : OneSide(RemoteStart, g[1] + g[2] + 1)

\* The segments of a queue do not overlap, are ones the app sends, the head is not
\* behind byte n, and together they hold every byte from n up to the last.
Apart(q) == \A i, j \in DOMAIN q : i < j => End(q[i]) <= q[j].off
OfApp(q) == \A i \in DOMAIN q : <<q[i].off, q[i].len>> \in Segments
NotBehind(q, n) == q # <<>> => n <= FirstByte(q[1])
Covers(q, n, last) ==
    \A b \in 1 .. last : n <= b => \E i \in DOMAIN q : q[i].off <= b /\ b < End(q[i])

Queue ==
    sess # NoSession =>
        /\ Apart(sess.forward) /\ OfApp(sess.forward)
        /\ NotBehind(sess.forward, RemoteOff(sess))
        /\ "loss" \notin Faults /\ sess.state \notin Over =>
              Covers(sess.forward, RemoteOff(sess), app.nxt)

LEMMA InitQueue == Init => Queue
BY DEF Init, Queue

LEMMA PositionIs ==
    ASSUME NEW q \in Seq(Segment), NEW seq \in SeqNums
    PROVE  LET at == Position(q, seq)
           IN  /\ \A i \in DOMAIN q : i < at => compare_u32(q[i].seq, seq) < 0
               /\ at # Len(q) + 1 => compare_u32(q[at].seq, seq) >= 0
<1> DEFINE stops == {i \in DOMAIN q : compare_u32(q[i].seq, seq) >= 0}
           at == Position(q, seq)
<1>1. stops \subseteq 1 .. Len(q) /\ Len(q) \in Nat /\ DOMAIN q = 1 .. Len(q)
  OBVIOUS
<1>2. \A i \in DOMAIN q : compare_u32(q[i].seq, seq) \in Int
  <2>1. \A i \in DOMAIN q : q[i].seq \in SeqNums
    <3>1. \A i \in DOMAIN q : q[i] \in Segment
      OBVIOUS
    <3> QED BY <3>1 DEF Segment
  <2> QED BY <2>1, CompareEqual
<1>3. \A i \in DOMAIN q : i \notin stops => compare_u32(q[i].seq, seq) < 0
  BY <1>2
<1>4. \A i \in stops : compare_u32(q[i].seq, seq) >= 0
  OBVIOUS
<1>5. at = IF stops = {} THEN Len(q) + 1
           ELSE CHOOSE i \in stops : \A j \in stops : i <= j
  BY DEF Position
<1> HIDE DEF stops, at
<1>6. CASE stops = {}
  BY <1>3, <1>5, <1>6 DEF at
<1>7. CASE stops # {}
  <2>1. PICK least \in stops : \A j \in stops : least <= j
    BY <1>1, <1>7, LeastExists
  <2>2. at \in stops /\ \A j \in stops : at <= j
    BY <1>5, <1>7, <2>1, Zenon
  <2>3. at \in Nat
    BY <1>1, <2>2
  <2>4. \A i \in DOMAIN q : i < at => i \notin stops
    BY <1>1, <2>2, <2>3
  <2> QED BY <1>3, <1>4, <2>2, <2>4 DEF at
<1> QED BY <1>6, <1>7

\* compare_u32 against the number of byte n.
LEMMA CompareOffsets ==
    ASSUME NEW m \in Nat, OneSide(RemoteStart, m), NEW s \in SeqNums, NEW t \in SeqNums,
           Dist(RemoteStart, s) <= m, Dist(RemoteStart, t) <= m
    PROVE  /\ compare_u32(s, t) < 0 <=> Dist(RemoteStart, s) < Dist(RemoteStart, t)
           /\ compare_u32(s, t) >= 0 <=> Dist(RemoteStart, t) <= Dist(RemoteStart, s)
<1>1. RemoteStart \in SeqNums /\ Dist(RemoteStart, s) \in Nat /\ Dist(RemoteStart, t) \in Nat
  BY DistRange, TcpAssumption
<1>2. CASE Dist(RemoteStart, s) < Dist(RemoteStart, t)
  <2>1. compare_u32(s, t) = -1
    BY <1>1, <1>2, SideCompare
  <2> QED BY <1>1, <1>2, <2>1
<1>3. CASE Dist(RemoteStart, t) < Dist(RemoteStart, s)
  <2>1. compare_u32(s, t) = 1
    BY <1>1, <1>3, SideCompare
  <2> QED BY <1>1, <1>3, <2>1
<1>4. CASE Dist(RemoteStart, t) = Dist(RemoteStart, s)
  <2>1. s = t
    BY <1>1, <1>4, DistInjective
  <2>2. compare_u32(s, t) = 0
    BY <2>1 DEF compare_u32
  <2> QED BY <1>1, <1>4, <2>2
<1> QED BY <1>1, <1>2, <1>3, <1>4

Holds(f, off, len) == \E j \in DOMAIN f : f[j].off = off /\ f[j].len = len

\* The queue f holds what q does, and g besides, at place at.
HoldsBesides(f, q, g, at) ==
    /\ \A i \in DOMAIN f : f[i] = g \/ \E j \in DOMAIN q : f[i] = q[j]
    /\ \A i \in DOMAIN q : Holds(f, q[i].off, q[i].len)
    /\ Holds(f, g.off, g.len)
    /\ f # <<>> /\ f[1] = IF at = 1 THEN g ELSE q[1]

\* A segment inserted where the scan of the queue stops keeps it apart.
LEMMA InsertedApart ==
    ASSUME NEW q \in Seq(Segment), NEW g \in Segment, NEW at \in 1 .. (Len(q) + 1), Apart(q),
           \A i \in DOMAIN q : i < at => End(q[i]) <= g.off,
           \A i \in DOMAIN q : i >= at => End(g) <= q[i].off,
           NEW f, f = Inserted(q, at, g)
    PROVE  Apart(f) /\ HoldsBesides(f, q, g, at)
<1>1. Len(q) \in Nat /\ at \in Nat /\ DOMAIN q = 1 .. Len(q)
  OBVIOUS
<1>2. /\ f \in Seq(Segment) /\ Len(f) = Len(q) + 1 /\ DOMAIN f = 1 .. Len(q) + 1
      /\ \A i \in 1 .. Len(q) + 1 :
            f[i] = IF i < at THEN q[i] ELSE IF i = at THEN g ELSE q[i - 1]
  <2>1. /\ f \in Seq(Segment) /\ Len(f) = Len(q) + 1
        /\ \A i \in 1 .. Len(q) + 1 :
              f[i] = IF i < at THEN q[i] ELSE IF i = at THEN g ELSE q[i - 1]
    <3>1. PutIn(f, q, at, g)
      BY InsertedAt, Zenon
    <3> QED BY <3>1, Zenon DEF PutIn
  <2> QED BY <2>1
<1>3. ASSUME NEW i \in 1 .. Len(q) + 1
      PROVE  \/ i < at /\ i \in DOMAIN q /\ f[i] = q[i]
             \/ i = at /\ f[i] = g
             \/ i > at /\ i - 1 \in DOMAIN q /\ i - 1 >= at /\ f[i] = q[i - 1]
  BY <1>1, <1>2
<1>4. ASSUME NEW i \in 1 .. Len(q) + 1, NEW j \in 1 .. Len(q) + 1, i < j
      PROVE  End(f[i]) <= f[j].off
  <2>1. CASE i < at /\ j < at
    <3>1. i \in DOMAIN q /\ j \in DOMAIN q /\ f[i] = q[i] /\ f[j] = q[j]
      BY <1>1, <1>3, <2>1
    <3> QED BY <1>4, <3>1 DEF Apart
  <2>2. CASE i < at /\ j = at
    BY <1>1, <1>3, <2>2
  <2>3. CASE i < at /\ j > at
    <3>1. i \in DOMAIN q /\ j - 1 \in DOMAIN q /\ i < j - 1 /\ f[i] = q[i] /\ f[j] = q[j - 1]
      BY <1>1, <1>3, <2>3
    <3> QED BY <3>1 DEF Apart
  <2>4. CASE i = at
    <3>1. j - 1 \in DOMAIN q /\ j - 1 >= at /\ f[j] = q[j - 1] /\ f[i] = g
      BY <1>1, <1>3, <1>4, <2>4
    <3> QED BY <3>1
  <2>5. CASE i > at
    <3>1. /\ i - 1 \in DOMAIN q /\ j - 1 \in DOMAIN q /\ i - 1 < j - 1
          /\ f[i] = q[i - 1] /\ f[j] = q[j - 1]
      BY <1>1, <1>3, <1>4, <2>5
    <3> QED BY <3>1 DEF Apart
  <2> QED BY <1>1, <1>4, <2>1, <2>2, <2>3, <2>4, <2>5
<1>5. Apart(f)
  BY <1>2, <1>4 DEF Apart
<1>6. \A i \in DOMAIN f : f[i] = g \/ \E j \in DOMAIN q : f[i] = q[j]
  BY <1>2, <1>3
<1>7. ASSUME NEW i \in DOMAIN q PROVE Holds(f, q[i].off, q[i].len)
  <2>1. CASE i < at
    <3>1. i \in DOMAIN f /\ f[i] = q[i]
      BY <1>1, <1>2, <2>1
    <3> QED BY <3>1 DEF Holds
  <2>2. CASE ~(i < at)
    <3>1. i + 1 \in DOMAIN f /\ ~(i + 1 < at) /\ i + 1 # at /\ (i + 1) - 1 = i
      BY <1>1, <1>2, <2>2
    <3>2. f[i + 1] = q[i]
      BY <1>2, <3>1
    <3> QED BY <3>1, <3>2 DEF Holds
  <2> QED BY <2>1, <2>2
<1>8. Holds(f, g.off, g.len)
  <2>1. at \in DOMAIN f /\ f[at] = g
    BY <1>1, <1>2
  <2> QED BY <2>1 DEF Holds
<1>9. f # <<>> /\ f[1] = IF at = 1 THEN g ELSE q[1]
  <2>1. 1 \in 1 .. Len(q) + 1 /\ (at # 1 => 1 < at)
    BY <1>1
  <2>2. f[1] = IF at = 1 THEN g ELSE q[1]
    BY <1>1, <1>2, <2>1
  <2>3. f # <<>>
    BY <1>2, <2>1
  <2> QED BY <2>2, <2>3
<1> QED BY <1>5, <1>6, <1>7, <1>8, <1>9 DEF HoldsBesides

\* The queue after a packet of data.
LEMMA QueueTcpQueue ==
    ASSUME NEW s \in Session, NEW n \in Nat, NEW p, DataOf(p), <<p.off, p.len>> \in Segments,
           p.off + p.len <= n + 1, SegmentsApart,
           \A i \in DOMAIN s.forward : Stored(s.forward[i], n),
           NEW m \in Nat, OneSide(RemoteStart, m), n <= m, RemoteOff(s) <= m,
           Apart(s.forward), OfApp(s.forward), NotBehind(s.forward, RemoteOff(s))
    PROVE  LET f == queue_tcp(s, p).forward
           IN  /\ Apart(f) /\ OfApp(f) /\ NotBehind(f, RemoteOff(s))
               /\ \A i \in DOMAIN s.forward : Holds(f, s.forward[i].off, s.forward[i].len)
               /\ RemoteOff(s) <= p.off => Holds(f, p.off, p.len)
<1> DEFINE q == s.forward
           at == Position(q, p.seq)
           new == [seq |-> p.seq, len |-> p.len, sent |-> 0, off |-> p.off]
           f == queue_tcp(s, p).forward
<1>1. /\ p \in Packets /\ p.seq \in SeqNums /\ q \in Seq(Segment) /\ s.remote_seq \in SeqNums
      /\ p.off \in Nat /\ p.len \in Nat /\ p.len >= 1 /\ p.off >= 1
  BY DEF DataOf, Packets, Session
<1>2. at \in 1 .. (Len(q) + 1) /\ Len(q) \in Nat /\ DOMAIN q = 1 .. Len(q)
  BY <1>1, PositionType
<1>3. Dist(RemoteStart, p.seq) = p.off /\ p.off <= m
  BY <1>1, DistOfAdd, TcpAssumption DEF DataOf
<1>4. new \in Segment /\ Stored(new, n) /\ new.off = p.off /\ new.len = p.len /\ new.sent = 0
  BY NewStored
<1>5. RemoteOff(s) \in Nat /\ Dist(RemoteStart, s.remote_seq) = RemoteOff(s)
  BY OffsetTypes DEF RemoteOff
<1>6. ASSUME NEW i \in DOMAIN q
      PROVE  /\ q[i] \in Segment /\ q[i].seq \in SeqNums /\ Dist(RemoteStart, q[i].seq) = q[i].off
             /\ q[i].off \in Nat /\ q[i].len \in Nat /\ q[i].off <= m
             /\ <<q[i].off, q[i].len>> \in Segments /\ End(q[i]) = q[i].off + q[i].len
             /\ q[i].len >= 1
  <2>1. q[i] \in Segment /\ Stored(q[i], n)
    BY <1>1
  <2>2. q[i].off \in Nat /\ q[i].len \in Nat /\ q[i].seq \in SeqNums
    BY <2>1 DEF Segment
  <2> QED BY <2>1, <2>2 DEF Stored, End, OfApp
<1>7. \/ f = q /\ compare_u32(p.seq, s.remote_seq) < 0
      \/ f = q /\ \E i \in DOMAIN q : q[i].seq = p.seq
      \/ /\ ~(compare_u32(p.seq, s.remote_seq) < 0)
         /\ f = Inserted(q, at, new)
         /\ at = Len(q) + 1 \/ q[at].seq # p.seq
  BY QueueOutcome
<1>8. /\ \A i \in DOMAIN q : i < at => compare_u32(q[i].seq, p.seq) < 0
      /\ at # Len(q) + 1 => compare_u32(q[at].seq, p.seq) >= 0
  BY <1>1, PositionIs
<1>9. compare_u32(p.seq, s.remote_seq) < 0 <=> p.off < RemoteOff(s)
  BY <1>1, <1>3, <1>5, CompareOffsets
<1>10. Apart(q) /\ OfApp(q) /\ NotBehind(q, RemoteOff(s))
  OBVIOUS
<1>11. \A i \in DOMAIN q : Holds(q, q[i].off, q[i].len)
  BY DEF Holds
<1> HIDE DEF q, at, new, f
<1>12. CASE f = q /\ compare_u32(p.seq, s.remote_seq) < 0
  <2>1. ~(RemoteOff(s) <= p.off)
    BY <1>1, <1>5, <1>9, <1>12
  <2> QED BY <1>10, <1>11, <1>12, <2>1 DEF q, f
<1>13. CASE f = q /\ \E i \in DOMAIN q : q[i].seq = p.seq
  <2>1. PICK i \in DOMAIN q : q[i].seq = p.seq
    BY <1>13
  <2>2. q[i].off = p.off /\ <<q[i].off, q[i].len>> \in Segments
    BY <1>3, <1>6, <2>1
  <2>3. q[i].len = p.len
    BY <2>2 DEF SegmentsApart
  <2>4. Holds(q, p.off, p.len)
    BY <1>11, <2>2, <2>3
  <2> QED BY <1>10, <1>11, <1>13, <2>4 DEF q, f
<1>14. CASE /\ ~(compare_u32(p.seq, s.remote_seq) < 0)
            /\ f = Inserted(q, at, new)
            /\ at = Len(q) + 1 \/ q[at].seq # p.seq
  <2>1. ASSUME NEW i \in DOMAIN q, i < at PROVE End(q[i]) <= new.off
    <3>1. q[i].off < p.off
      <4>1. q[i].seq \in SeqNums /\ Dist(RemoteStart, q[i].seq) = q[i].off /\ q[i].off <= m
        BY <1>6
      <4>2. compare_u32(q[i].seq, p.seq) < 0
        BY <1>8, <2>1
      <4> QED BY <1>1, <1>3, <4>1, <4>2, CompareOffsets
    <3>2. <<q[i].off, q[i].len>> \in Segments
      BY <1>6
    <3>3. q[i].off + q[i].len <= p.off
      BY <3>1, <3>2 DEF SegmentsApart
    <3> QED BY <1>4, <1>6, <3>3
  <2>2. ASSUME NEW i \in DOMAIN q, i >= at PROVE End(new) <= q[i].off
    <3>1. at \in DOMAIN q /\ at # Len(q) + 1
      BY <1>2, <2>2
    <3>2. p.off <= q[at].off
      <4>1. q[at].seq \in SeqNums /\ Dist(RemoteStart, q[at].seq) = q[at].off /\ q[at].off <= m
        BY <1>6, <3>1
      <4>2. compare_u32(q[at].seq, p.seq) >= 0
        BY <1>8, <3>1
      <4> QED BY <1>1, <1>3, <4>1, <4>2, CompareOffsets
    <3>3. p.off # q[at].off
      <4>1. q[at].seq # p.seq /\ q[at].seq \in SeqNums /\ Dist(RemoteStart, q[at].seq) = q[at].off
        BY <1>6, <1>14, <3>1
      <4> QED BY <1>1, <1>3, <4>1, DistInjective, TcpAssumption
    <3>4. p.off < q[at].off /\ q[at].off \in Nat
      <4>1. q[at].off \in Nat
        BY <1>6, <3>1
      <4> QED BY <1>1, <3>2, <3>3, <4>1
    <3>5. p.off + p.len <= q[at].off
      <4>1. <<q[at].off, q[at].len>> \in Segments
        BY <1>6, <3>1
      <4> QED BY <3>4, <4>1 DEF SegmentsApart
    <3>6. q[at].off <= q[i].off
      <4>1. CASE i = at
        <5>1. q[i].off \in Nat /\ q[at].off = q[i].off
          BY <1>6, <4>1
        <5> QED BY <5>1
      <4>2. CASE i # at
        <5>1. at < i
          BY <1>2, <2>2, <4>2
        <5>2. End(q[at]) <= q[i].off
          BY <1>10, <3>1, <5>1 DEF Apart
        <5>3. /\ End(q[at]) = q[at].off + q[at].len /\ q[at].off \in Nat /\ q[at].len \in Nat
              /\ q[i].off \in Nat
          BY <1>6, <3>1
        <5> QED BY <5>2, <5>3
      <4> QED BY <4>1, <4>2
    <3>7. q[i].off \in Nat
      BY <1>6
    <3>8. End(new) = p.off + p.len
      BY <1>4 DEF End
    <3> QED BY <1>1, <3>4, <3>5, <3>6, <3>7, <3>8
  <2>3. Apart(f) /\ HoldsBesides(f, q, new, at)
    <3>1. /\ q \in Seq(Segment) /\ new \in Segment /\ at \in 1 .. (Len(q) + 1)
          /\ Apart(q) /\ f = Inserted(q, at, new)
      BY <1>1, <1>2, <1>4, <1>10, <1>14
    <3>2. \A i \in DOMAIN q : i < at => End(q[i]) <= new.off
      BY <2>1
    <3>3. \A i \in DOMAIN q : i >= at => End(new) <= q[i].off
      BY <2>2
    <3> QED BY <3>1, <3>2, <3>3, InsertedApart
  <2>4. OfApp(f)
    <3>1. \A j \in DOMAIN q : <<q[j].off, q[j].len>> \in Segments
      BY <1>6
    <3>2. <<new.off, new.len>> \in Segments
      BY <1>4
    <3>3. ASSUME NEW i \in DOMAIN f PROVE <<f[i].off, f[i].len>> \in Segments
      <4>1. f[i] = new \/ \E j \in DOMAIN q : f[i] = q[j]
        BY <2>3 DEF HoldsBesides
      <4> QED BY <3>1, <3>2, <4>1
    <3> QED BY <3>3 DEF OfApp
  <2>5. NotBehind(f, RemoteOff(s))
    <3>1. CASE at = 1
      <4>1. f[1] = new /\ FirstByte(new) = p.off + 0
        BY <1>4, <2>3, <3>1 DEF FirstByte, HoldsBesides
      <4>2. RemoteOff(s) <= p.off
        BY <1>1, <1>5, <1>9, <1>14
      <4> QED BY <1>1, <4>1, <4>2 DEF NotBehind
    <3>2. CASE at # 1
      <4>1. f[1] = q[1] /\ q # <<>>
        BY <1>2, <2>3, <3>2 DEF HoldsBesides
      <4> QED BY <1>10, <4>1 DEF NotBehind
    <3> QED BY <3>1, <3>2
  <2> QED BY <1>4, <2>3, <2>4, <2>5 DEF q, f, HoldsBesides
<1> QED BY <1>7, <1>12, <1>13, <1>14

-----------------------------------------------------------------------------
LEMMA CoversHeld ==
    ASSUME NEW q \in Seq(Segment), NEW f, NEW n \in Nat, NEW n1 \in Nat, NEW last,
           Covers(q, n, last), n <= n1,
           \A i \in DOMAIN q : Holds(f, q[i].off, q[i].len)
    PROVE  Covers(f, n1, last)
<1> SUFFICES ASSUME NEW b \in 1 .. last, n1 <= b
             PROVE  \E i \in DOMAIN f : f[i].off <= b /\ b < End(f[i])
  BY DEF Covers
<1>1. PICK i \in DOMAIN q : q[i].off <= b /\ b < End(q[i])
  BY DEF Covers
<1>2. PICK j \in DOMAIN f : f[j].off = q[i].off /\ f[j].len = q[i].len
  BY DEF Holds
<1> QED BY <1>1, <1>2 DEF End

LEMMA HoldsItself == \A q : \A i \in DOMAIN q : Holds(q, q[i].off, q[i].len)
BY DEF Holds

LEMMA RestedQueue ==
    ASSUME IInv, OneStream, Order, Queue, Rested
    PROVE  Queue'
<1>1. sess # NoSession /\ sess' # NoSession /\ Quiet(sess, sess') /\ UNCHANGED app
  BY NoSessionIsNone DEF Rested
<1>2. sess'.forward = sess.forward
  BY <1>1 DEF Quiet
<1>3. CASE sess'.remote_seq = sess.remote_seq /\ (sess'.state = sess.state \/ sess'.state \in Over)
  <2>1. RemoteOff(sess') = RemoteOff(sess)
    BY <1>3 DEF RemoteOff
  <2> QED BY <1>1, <1>2, <1>3, <2>1 DEF Queue, Over
<1>4. CASE sess.state = "LISTEN" /\ sess'.state = "CLOSING"
  <2>1. sess.forward = <<>>
    BY <1>1, <1>4 DEF Order, OrderOfSession
  <2> QED BY <1>1, <1>2, <1>4, <2>1 DEF Queue, Over, NotBehind, Apart, OfApp
<1> QED BY <1>1, <1>3, <1>4 DEF Quiet

LEMMA AnsweredQueue ==
    ASSUME IInv, OneStream, Order, Queue, Answered
    PROVE  Queue'
<1>1. /\ sess # NoSession /\ Answers(sess, sess') /\ UNCHANGED app
  BY DEF Answered
<1>2. sess'.forward = <<>> /\ app'.nxt = 0
  BY <1>1 DEF Answers, Order, OrderOfSession
<1> QED BY <1>2 DEF Queue, NotBehind, Apart, OfApp, Covers

LEMMA FreedQueue == ASSUME Freed PROVE Queue'
BY DEF Freed, Queue

LEMMA ElsewhereQueue ==
    ASSUME IInv, Queue, Elsewhere
    PROVE  Queue'
<1>1. UNCHANGED sess /\ ("loss" \notin Faults => app'.nxt = app.nxt)
  BY DEF Elsewhere
<1>2. RemoteOff(sess)' = RemoteOff(sess)
  BY <1>1 DEF RemoteOff
<1> QED BY <1>1, <1>2 DEF Queue

\* remote_seq moves past a SYN or a FIN only when nothing is queued.
LEMMA ReceivesRemote ==
    ASSUME IInv, OneStream, Order, sess # NoSession,
           NEW p, Says(p), Receives(sess, sess', p)
    PROVE  /\ RemoteOff(sess) \in Nat
           /\ \/ RemoteOff(sess') = RemoteOff(sess)
              \/ RemoteOff(sess') = RemoteOff(sess) + 1 /\ sess'.forward = <<>>
<1>1. sess \in Session /\ RemoteOff(sess) \in Nat /\ RemoteOff(sess) < SeqSpace
  BY SessionOf, OffsetTypes DEF IInv
<1>2. RemoteOff(sess) + 1 < SeqSpace
  <2>1. app.nxt \in Nat /\ app.nxt + 3 < SeqSpace
    BY SentFits
  <2>2. RemoteOff(sess) <= app.nxt + 2
    BY <1>1, <2>1 DEF Order, OrderOfSession
  <2> QED BY <1>1, <2>1, <2>2, SeqSpaceAssumption
<1>3. CASE sess'.remote_seq = sess.remote_seq
  BY <1>1, <1>3 DEF RemoteOff
<1>4. CASE sess'.remote_seq = SeqAdd(sess.remote_seq, 1) /\ sess'.forward = <<>>
  <2>1. RemoteOff(sess') = RemoteOff(sess) + 1
    BY <1>1, <1>2, <1>4, RemoteOneMore
  <2> QED BY <1>1, <1>4, <2>1
<1>5. ASSUME sess.state = "LISTEN" PROVE sess'.forward = <<>>
  <2>1. ~(p.len > 0) /\ sess.forward = <<>>
    BY <1>5, ListenSyn DEF SaysSyn, Order, OrderOfSession
  <2> QED BY <2>1 DEF Receives, Rejects, Accepts, Queued
<1> QED BY <1>3, <1>4, <1>5 DEF Receives, Rejects, Accepts

\* New bytes are a segment of their own, right after those the app has sent.
LEMMA NewBytes ==
    ASSUME IInv, OneStream, SegmentsApart, Order, AppGrows,
           NEW p, Says(p), p.len > 0, app'.nxt # app.nxt
    PROVE  p.off = app.nxt + 1 /\ app'.nxt = p.off + p.len - 1 /\ ~app.fin
<1>1. SaysMore(p) /\ <<p.off, p.len>> \in Segments /\ p.off <= app.nxt + 1
  BY DEF Says, SaysSyn, SaysMore
<1>2. app'.nxt = p.off + p.len - 1 /\ app'.nxt > app.nxt
  BY <1>1 DEF SaysMore
<1>3. p.off \in Nat \ {0} /\ p.len \in Nat \ {0} /\ app.nxt \in Nat
  BY <1>1, TcpAssumption, SentFits
<1>4. ~(p.off <= app.nxt)
  <2> SUFFICES ASSUME p.off <= app.nxt PROVE FALSE
    OBVIOUS
  <2>1. PICK g \in Segments : app.nxt = g[1] + g[2] - 1
    BY <1>3 DEF Order, OrderOfApp
  <2>2. g[1] \in Nat \ {0} /\ g[2] \in Nat \ {0}
    BY TcpAssumption
  <2>3. /\ p.off < g[1] => p.off + p.len <= g[1]
        /\ g[1] < p.off => g[1] + g[2] <= p.off
        /\ p.off = g[1] => p.len = g[2]
    BY <1>1 DEF SegmentsApart
  <2> QED BY <1>2, <1>3, <2>1, <2>2, <2>3
<1>5. ~app.fin
  BY <1>2, <1>3 DEF AppGrows
<1> QED BY <1>1, <1>2, <1>3, <1>4, <1>5

\* The queue after a packet, against remote_seq before it.
LEMMA QueuedQueue ==
    ASSUME IInv, OneStream, SegmentsApart, SegmentsOneSide, Order, Queue, sess # NoSession,
           AppGrows, NEW p, Says(p), app'.nxt \in Nat
    PROVE  LET f == Queued(sess, p)
           IN  /\ Apart(f) /\ OfApp(f) /\ NotBehind(f, RemoteOff(sess))
               /\ "loss" \notin Faults /\ sess.state \notin Over =>
                     Covers(f, RemoteOff(sess), app'.nxt)
<1> DEFINE q == sess.forward
           f == queue_tcp(sess, p).forward
<1>1. /\ sess \in Session /\ q \in Seq(Segment)
      /\ app.nxt \in Nat /\ app.nxt + 3 < SeqSpace /\ app.nxt <= app'.nxt
  BY SessionOf, SentFits DEF IInv, Session, AppGrows
<1>2. /\ Apart(q) /\ OfApp(q) /\ NotBehind(q, RemoteOff(sess))
      /\ "loss" \notin Faults /\ sess.state \notin Over => Covers(q, RemoteOff(sess), app.nxt)
  BY DEF Queue
<1>3. CASE ~(p.len > 0)
  <2>1. p.len \in Nat
    BY DEF Says, Packets
  <2>2. p.len = 0
    BY <1>3, <2>1
  <2>3. app'.nxt = app.nxt
    BY <2>2 DEF Says, SaysSyn, SaysMore
  <2>4. Queued(sess, p) = q
    BY <1>3 DEF Queued
  <2> QED BY <1>2, <2>3, <2>4
<1>4. CASE p.len > 0
  <2>1. /\ DataOf(p) /\ <<p.off, p.len>> \in Segments
        /\ p.off + p.len <= app'.nxt + 1 /\ Queued(sess, p) = f
    BY <1>4, SaysData DEF Queued, OneStream
  <2>2. p.off \in Nat \ {0} /\ p.len \in Nat \ {0}
    BY <2>1, TcpAssumption
  <2>3. PICK g \in Segments : app'.nxt = g[1] + g[2] - 1
    <3>1. app'.nxt # 0
      BY <2>1, <2>2
    <3>2. app'.nxt = app.nxt \/ \E g \in Segments : app'.nxt = g[1] + g[2] - 1
      BY DEF AppGrows
    <3> QED BY <3>1, <3>2 DEF Order, OrderOfApp
  <2> DEFINE m == g[1] + g[2] + 1
  <2>4. /\ m \in Nat /\ OneSide(RemoteStart, m) /\ m = app'.nxt + 2 /\ app'.nxt <= m
    <3>1. g[1] \in Nat /\ g[2] \in Nat
      BY TcpAssumption
    <3> QED BY <2>3, <3>1 DEF SegmentsOneSide
  <2>5. RemoteOff(sess) \in Nat /\ RemoteOff(sess) <= app.nxt + (IF FinConfirmed(sess) THEN 2 ELSE 1)
    BY <1>1, OffsetTypes DEF Order, OrderOfSession
  <2>6. RemoteOff(sess) <= m
    BY <1>1, <2>4, <2>5
  <2>7. \A i \in DOMAIN q : Stored(q[i], app'.nxt)
    BY <1>1, QueueElement, StoredMore DEF Order, OrderOfSession
  <2> HIDE DEF m
  <2>8. /\ Apart(f) /\ OfApp(f) /\ NotBehind(f, RemoteOff(sess))
        /\ \A i \in DOMAIN q : Holds(f, q[i].off, q[i].len)
        /\ RemoteOff(sess) <= p.off => Holds(f, p.off, p.len)
    BY <1>1, <1>2, <2>1, <2>4, <2>6, <2>7, QueueTcpQueue
  <2> HIDE DEF f, q
  <2>9. ASSUME "loss" \notin Faults, sess.state \notin Over
        PROVE  Covers(f, RemoteOff(sess), app'.nxt)
    <3>1. Covers(f, RemoteOff(sess), app.nxt)
      BY <1>1, <1>2, <2>5, <2>8, <2>9, CoversHeld
    <3>2. CASE app'.nxt = app.nxt
      BY <3>1, <3>2
    <3>3. CASE app'.nxt # app.nxt
      <4>1. p.off = app.nxt + 1 /\ app'.nxt = p.off + p.len - 1 /\ ~app.fin
        BY <1>4, <3>3, NewBytes
      <4>2. RemoteOff(sess) <= p.off
        BY <1>1, <2>5, <4>1 DEF FinConfirmed
      <4>3. PICK j \in DOMAIN f : f[j].off = p.off /\ f[j].len = p.len
        BY <2>8, <4>2 DEF Holds
      <4>4. f[j].off = p.off /\ End(f[j]) = p.off + p.len
        BY <4>3 DEF End
      <4>5. ASSUME NEW b \in 1 .. app'.nxt, RemoteOff(sess) <= b
            PROVE  \E i \in DOMAIN f : f[i].off <= b /\ b < End(f[i])
        <5>1. CASE b <= app.nxt
          <6>1. b \in 1 .. app.nxt
            BY <1>1, <5>1
          <6> QED BY <3>1, <4>5, <6>1 DEF Covers
        <5>2. CASE ~(b <= app.nxt)
          <6>1. p.off <= b /\ b < p.off + p.len
            <7>1. app.nxt \in Nat /\ p.off \in Nat /\ p.len \in Nat
              BY <1>1, <2>2
            <7> QED BY <4>1, <5>2, <7>1
          <6> QED BY <4>4, <6>1
        <5> QED BY <5>1, <5>2
      <4> QED BY <4>5 DEF Covers
    <3> QED BY <3>2, <3>3
  <2> QED BY <2>1, <2>8, <2>9 DEF f
<1> QED BY <1>3, <1>4

\* remote_seq moved by one past a SYN or a FIN, when nothing is queued.
LEMMA QueueAtOneMore ==
    ASSUME NEW q \in Seq(Segment), NEW n \in Nat, NEW n1, NEW last,
           n1 = n \/ (n1 = n + 1 /\ q = <<>>)
    PROVE  /\ NotBehind(q, n) => NotBehind(q, n1)
           /\ Covers(q, n, last) => Covers(q, n1, last)
<1>1. n1 \in Nat /\ n <= n1
  OBVIOUS
<1>2. NotBehind(q, n) => NotBehind(q, n1)
  BY DEF NotBehind
<1>3. Covers(q, n, last) => Covers(q, n1, last)
  <2>1. \A i \in DOMAIN q : Holds(q, q[i].off, q[i].len)
    BY HoldsItself
  <2> QED BY <1>1, <2>1, CoversHeld
<1> QED BY <1>2, <1>3

LEMMA ReceivedQueue ==
    ASSUME IInv, OneStream, SegmentsApart, SegmentsOneSide, Order, Queue, Received
    PROVE  Queue'
<1>1. PICK p : Says(p) /\ AppGrows /\ Heard(p)
  BY DEF Received
<1>2. app'.nxt \in Nat
  <2>1. app.nxt \in Nat
    BY SentFits
  <2>2. app'.nxt = app.nxt \/ \E g \in Segments : app'.nxt = g[1] + g[2] - 1
    BY <1>1 DEF AppGrows
  <2> QED BY <2>1, <2>2, TcpAssumption
<1>3. CASE Opens(p)
  <2>1. SaysSyn(p)
    BY <1>1, <1>3 DEF Says, SaysMore, Opens
  <2>2. sess'.forward = <<>> /\ app'.nxt = 0
    <3>1. app.nxt = 0
      BY <2>1 DEF SaysSyn, Order, OrderOfApp
    <3> QED BY <1>3, <2>1, <3>1 DEF Opens, SaysSyn
  <2> QED BY <2>2 DEF Queue, Apart, OfApp, NotBehind, Covers
<1>4. CASE sess = NoSession /\ UNCHANGED <<sess, sock>>
  BY <1>4 DEF Queue
<1>5. CASE sess # NoSession /\ sess' \in Session /\ Receives(sess, sess', p) /\ UNCHANGED sock
  <2>1. sess \in Session /\ sess'.forward \in Seq(Segment)
    BY <1>5, SessionOf DEF IInv, Session
  <2>2. /\ RemoteOff(sess) \in Nat
        /\ \/ RemoteOff(sess') = RemoteOff(sess)
           \/ RemoteOff(sess') = RemoteOff(sess) + 1 /\ sess'.forward = <<>>
    BY <1>1, <1>5, ReceivesRemote
  <2> DEFINE f == Queued(sess, p)
  <2>3. /\ Apart(f) /\ OfApp(f) /\ NotBehind(f, RemoteOff(sess))
        /\ "loss" \notin Faults /\ sess.state \notin Over =>
              Covers(f, RemoteOff(sess), app'.nxt)
    BY <1>1, <1>2, <1>5, QueuedQueue
  <2>4. /\ Apart(sess.forward) /\ OfApp(sess.forward)
        /\ NotBehind(sess.forward, RemoteOff(sess))
    BY <1>5 DEF Queue
  <2>5. /\ sess'.forward \in {sess.forward, f}
        /\ sess'.state \notin Over => sess'.forward = f /\ sess.state \notin Over
    BY <1>5 DEF Receives, Rejects, Accepts
  <2> HIDE DEF f
  <2>6. Apart(sess'.forward) /\ OfApp(sess'.forward) /\ NotBehind(sess'.forward, RemoteOff(sess))
    BY <2>3, <2>4, <2>5
  <2>7. "loss" \notin Faults /\ sess'.state \notin Over =>
            Covers(sess'.forward, RemoteOff(sess), app'.nxt)
    BY <2>3, <2>5
  <2>8. /\ NotBehind(sess'.forward, RemoteOff(sess'))
        /\ "loss" \notin Faults /\ sess'.state \notin Over =>
               Covers(sess'.forward, RemoteOff(sess'), app'.nxt)
    BY <2>1, <2>2, <2>6, <2>7, QueueAtOneMore
  <2> QED BY <2>6, <2>8 DEF Queue
<1> QED BY <1>1, <1>3, <1>4, <1>5 DEF Heard

\* A run leaves the queue f of q: its segments but the first d, which end before
\* byte n.
Drops(q, f, d, n) ==
    /\ d \in 0 .. Len(q) /\ f \in Seq(Segment) /\ Len(f) = Len(q) - d
    /\ \A i \in 1 .. Len(q) - d :
          d + i \in DOMAIN q /\ f[i].off = q[d + i].off /\ f[i].len = q[d + i].len
    /\ \A i \in 1 .. d : End(q[i]) <= n
    /\ NotBehind(f, n)

LEMMA RunDrops ==
    ASSUME sess \in Session, NEW n \in Nat, n + 3 < SeqSpace,
           \A i \in DOMAIN sess.forward : Stored(sess.forward[i], n),
           NEW q, q = sess.forward, Apart(q),
           NEW r \in ForwardRuns, r # <<>>
    PROVE  \E d : Drops(q, Forwarded(sess, r).forward, d, RunEnd(q, r))
<1> DEFINE m == Len(r)
           f == Forwarded(sess, r)
           sent == Counted(q[m], r[m])
           d == IF sent = Left(q[m]) THEN m ELSE m - 1
           cut == Cut(q[m], sent)
<1>1. q \in Seq(Segment) /\ Len(q) \in Nat
  BY DEF Session
<1>2. m \in 1 .. Len(q) /\ r[m] \in Sends(q[m]) /\ m \in Nat
  <2>1. m \in 1 .. Len(q) /\ \A i \in 1 .. m : r[i] \in Sends(q[i])
    BY RunSegments DEF Carries, Held
  <2> QED BY <1>1, <2>1
<1>3. /\ q[m] \in Segment /\ Stored(q[m], n) /\ \A i \in DOMAIN q : q[i] \in Segment
  BY <1>1, <1>2
<1>4. sent \in Nat /\ sent <= Left(q[m])
  BY <1>2, <1>3, TakenAscends
<1>5. FirstByte(q[m]) \in Nat /\ Left(q[m]) \in Nat /\ FirstByte(q[m]) + Left(q[m]) = End(q[m])
      /\ Place(q[m]) = FirstByte(q[m])
  BY <1>3, NextSeqOff, SegmentType DEF Place
<1>6. Leaves(q, f, m, sent)
  <2>1. /\ m \in 1 .. Len(sess.forward) /\ Len(r) = m
        /\ Counted(sess.forward[m], r[m]) \in Nat
    BY <1>2, <1>4
  <2> HIDE DEF m
  <2> QED BY <2>1, ForwardedQueue
<1> DEFINE e == FirstByte(q[m]) + sent
<1>7. RunEnd(q, r) = e
  BY <1>5 DEF RunEnd
<1>8. e \in Nat /\ (sent = Left(q[m]) => e = End(q[m]))
  BY <1>4, <1>5
<1>9. cut \in Segment /\ cut.off = q[m].off /\ cut.len = q[m].len /\ FirstByte(cut) = e
  <2>1. cut \in Segment /\ cut.off = q[m].off /\ cut.len = q[m].len /\ cut.sent = q[m].sent + sent
    BY <1>3, <1>4, CutSegment
  <2>2. q[m].off \in Nat /\ q[m].sent \in Nat
    BY <1>3 DEF Segment
  <2> HIDE DEF cut, sent
  <2> QED BY <1>4, <2>1, <2>2 DEF FirstByte
<1>10. ASSUME NEW i \in DOMAIN q
       PROVE  /\ q[i].off \in Nat /\ q[i].sent \in Nat /\ FirstByte(q[i]) = q[i].off + q[i].sent
              /\ End(q[i]) \in Nat
  BY <1>3, <1>10 DEF Segment, FirstByte, End
<1>11. d \in 0 .. Len(q) /\ d <= m
  BY <1>1, <1>2
<1>12. /\ f.forward \in Seq(Segment) /\ Len(f.forward) = Len(q) - d
       /\ \A i \in 1 .. Len(q) - d :
             f.forward[i] = IF i = 1 /\ sent # Left(q[m]) THEN cut ELSE q[d + i]
  BY <1>6 DEF Leaves
<1>13. m \in DOMAIN q /\ (sent # Left(q[m]) => d + 1 = m) /\ (sent = Left(q[m]) => d = m)
  BY <1>1, <1>2
<1>14. ASSUME NEW i \in 1 .. d PROVE End(q[i]) <= e
  <2>1. i \in DOMAIN q /\ i <= m
    BY <1>1, <1>2, <1>11, <1>14
  <2>2. CASE i = m
    <3>1. sent = Left(q[m])
      BY <1>2, <1>13, <1>14, <2>2
    <3> QED BY <1>8, <1>10, <2>1, <2>2, <3>1
  <2>3. CASE i # m
    <3>1. End(q[i]) <= q[m].off
      BY <1>2, <1>13, <2>1, <2>3 DEF Apart
    <3>2. q[m].off <= e
      <4> HIDE DEF sent
      <4> QED BY <1>4, <1>10, <1>13
    <3> HIDE DEF e
    <3> QED BY <1>8, <1>10, <1>13, <2>1, <3>1, <3>2
  <2> QED BY <2>2, <2>3
<1> HIDE DEF f, cut, e, sent
<1>15. ASSUME NEW i \in 1 .. Len(q) - d
       PROVE  /\ d + i \in DOMAIN q /\ f.forward[i].off = q[d + i].off
              /\ f.forward[i].len = q[d + i].len
  <2>1. d + i \in DOMAIN q
    <3> HIDE DEF d
    <3> QED BY <1>1, <1>11, <1>15
  <2>2. CASE i = 1 /\ sent # Left(q[m])
    <3>1. f.forward[i] = cut /\ q[d + i] = q[m]
      BY <1>12, <1>13, <1>15, <2>2
    <3> QED BY <1>9, <2>1, <3>1
  <2>3. CASE ~(i = 1 /\ sent # Left(q[m]))
    <3>1. f.forward[i] = q[d + i]
      BY <1>12, <1>15, <2>3
    <3> QED BY <2>1, <3>1
  <2> QED BY <2>2, <2>3
<1>16. NotBehind(f.forward, e)
  <2> SUFFICES ASSUME f.forward # <<>> PROVE e <= FirstByte(f.forward[1])
    BY DEF NotBehind
  <2>1. 1 \in 1 .. Len(q) - d
    <3>1. Len(f.forward) \in Nat \ {0}
      <4>1. f.forward \in Seq(Segment)
        BY <1>12
      <4> QED BY <4>1
    <3> HIDE DEF d
    <3> QED BY <1>12, <3>1
  <2>2. CASE sent # Left(q[m])
    <3>1. f.forward[1] = cut
      BY <1>12, <2>1, <2>2
    <3> QED BY <1>8, <1>9, <3>1
  <2>3. CASE sent = Left(q[m])
    <3>1. f.forward[1] = q[m + 1] /\ m + 1 \in DOMAIN q
      BY <1>12, <1>13, <1>15, <2>1, <2>3
    <3>2. End(q[m]) <= q[m + 1].off
      BY <1>2, <1>13, <3>1 DEF Apart
    <3> QED BY <1>8, <1>10, <1>13, <2>3, <3>1, <3>2
  <2> QED BY <2>2, <2>3
<1>17. Drops(q, f.forward, d, e)
  <2> HIDE DEF d
  <2> QED BY <1>11, <1>12, <1>14, <1>15, <1>16 DEF Drops
<1> HIDE DEF d
<1> QED BY <1>7, <1>17 DEF f

LEMMA DropsKeeps ==
    ASSUME NEW q \in Seq(Segment), NEW f, NEW d, NEW n \in Nat, NEW e \in Nat, n <= e,
           Drops(q, f, d, e), Apart(q), OfApp(q), NEW last
    PROVE  /\ Apart(f) /\ OfApp(f) /\ NotBehind(f, e)
           /\ Covers(q, n, last) => Covers(f, e, last)
<1>1. d \in 0 .. Len(q) /\ f \in Seq(Segment) /\ Len(f) = Len(q) - d /\ Len(q) \in Nat
  BY DEF Drops
<1>2. DOMAIN f = 1 .. Len(q) - d
  BY <1>1
<1>3. ASSUME NEW i \in DOMAIN f
      PROVE  /\ i \in Nat /\ d + i \in DOMAIN q
             /\ f[i].off = q[d + i].off /\ End(f[i]) = End(q[d + i])
             /\ f[i].len = q[d + i].len
  BY <1>2, <1>3 DEF Drops, End
<1>4. Apart(f)
  <2> SUFFICES ASSUME NEW i \in DOMAIN f, NEW j \in DOMAIN f, i < j
               PROVE  End(f[i]) <= f[j].off
    BY DEF Apart
  <2>1. d + i < d + j
    BY <1>1, <1>3
  <2>2. End(q[d + i]) <= q[d + j].off
    BY <1>3, <2>1 DEF Apart
  <2> QED BY <1>3, <2>2
<1>5. OfApp(f)
  BY <1>3 DEF OfApp
<1>6. ASSUME Covers(q, n, last) PROVE Covers(f, e, last)
  <2> SUFFICES ASSUME NEW b \in 1 .. last, e <= b
               PROVE  \E i \in DOMAIN f : f[i].off <= b /\ b < End(f[i])
    BY DEF Covers
  <2>1. PICK j \in DOMAIN q : q[j].off <= b /\ b < End(q[j])
    BY <1>6 DEF Covers
  <2>2. ~(j <= d)
    <3> SUFFICES ASSUME j <= d PROVE FALSE
      OBVIOUS
    <3>1. j \in 1 .. d
      BY <1>1
    <3>2. End(q[j]) <= e
      BY <3>1 DEF Drops
    <3>3. End(q[j]) \in Nat
      <4>1. q[j] \in Segment
        OBVIOUS
      <4> QED BY <4>1 DEF Segment, End
    <3> QED BY <2>1, <3>2, <3>3
  <2>3. j - d \in DOMAIN f /\ d + (j - d) = j
    BY <1>1, <1>2, <2>2
  <2> QED BY <1>3, <2>1, <2>3
<1> QED BY <1>4, <1>5, <1>6 DEF Drops

\* The queue after a run, against remote_seq before a FIN is confirmed.
LEMMA TurnQueue ==
    ASSUME IInv, OneStream, Order, Queue, sess # NoSession,
           NEW r, NEW f, NEW s, NEW k, Turns(r, f, s, k)
    PROVE  /\ Apart(f.forward) /\ OfApp(f.forward) /\ NotBehind(f.forward, RemoteOff(f))
           /\ "loss" \notin Faults /\ sess.state \notin Over =>
                 Covers(f.forward, RemoteOff(f), app.nxt)
<1>1. sess \in Session /\ app.nxt \in Nat /\ app.nxt + 3 < SeqSpace
  BY SessionOf, SentFits DEF IInv
<1>2. RunKeeps(r, f, app.nxt) /\ r \in ForwardRuns /\ f = Forwarded(sess, r)
  BY DEF Turns
<1>3. RemoteOff(sess) \in Nat /\ RemoteOff(f) \in Nat /\ RemoteOff(sess) <= RemoteOff(f)
  BY <1>1, <1>2, OffsetTypes DEF RunKeeps
<1>4. /\ Apart(sess.forward) /\ OfApp(sess.forward)
      /\ NotBehind(sess.forward, RemoteOff(sess))
      /\ "loss" \notin Faults /\ sess.state \notin Over =>
            Covers(sess.forward, RemoteOff(sess), app.nxt)
  BY DEF Queue
<1>5. CASE r = <<>>
  BY <1>2, <1>4, <1>5 DEF RunKeeps
<1>6. CASE r # <<>>
  <2>1. \A i \in DOMAIN sess.forward : Stored(sess.forward[i], app.nxt)
    BY DEF Order, OrderOfSession
  <2>2. RemoteOff(Forwarded(sess, r)) = RunEnd(sess.forward, r)
    BY <1>1, <1>2, <1>6, <2>1, RunForwarded DEF Carries, Held
  <2>3. \E d : Drops(sess.forward, Forwarded(sess, r).forward, d, RunEnd(sess.forward, r))
    BY <1>1, <1>2, <1>4, <1>6, <2>1, RunDrops
  <2>4. PICK d : Drops(sess.forward, f.forward, d, RemoteOff(f))
    BY <1>2, <2>2, <2>3
  <2>5. sess.forward \in Seq(Segment)
    BY <1>1 DEF Session
  <2> QED BY <1>3, <1>4, <2>4, <2>5, DropsKeeps
<1> QED BY <1>5, <1>6

LEMMA TransferredQueue ==
    ASSUME IInv, OneStream, Order, Queue, Transferred
    PROVE  Queue'
<1>1. PICK r, f, s, k : Turns(r, f, s, k)
  BY FlowIsOrder, TransferredTurns DEF OneStream
<1>2. /\ sess # NoSession /\ sess' \in Session
      /\ UNCHANGED app /\ app.nxt \in Nat /\ app.nxt + 3 < SeqSpace
      /\ RemoteOff(sess) \in Nat /\ RemoteOff(sess) <= app.nxt + 2
  BY FlowTypes, FlowIsOrder DEF Transferred, OneStream
<1>3. /\ sess'.forward = f.forward
      /\ \/ sess'.state \in {sess.state, "CLOSING"}
         \/ sess.state = "ESTABLISHED" /\ sess'.state = "FIN_WAIT1"
         \/ sess.state = "CLOSE_WAIT" /\ sess'.state = "LAST_ACK"
  BY <1>1, TurnMoves
<1>4. sess'.state \notin Over => sess.state \notin Over
  BY <1>3 DEF Over
<1>5. /\ Apart(f.forward) /\ OfApp(f.forward) /\ NotBehind(f.forward, RemoteOff(f))
      /\ "loss" \notin Faults /\ sess.state \notin Over =>
            Covers(f.forward, RemoteOff(f), app.nxt)
  BY <1>1, <1>2, TurnQueue
<1>6. RemoteOff(sess') = RemoteOff(f) \/ (RemoteOff(sess') = RemoteOff(f) + 1 /\ f.forward = <<>>)
  BY <1>1, <1>2, TurnRemote
<1>7. f.forward \in Seq(Segment) /\ RemoteOff(f) \in Nat
  BY <1>1, <1>2, <1>3 DEF Session, Turns, RunKeeps
<1>8. /\ NotBehind(f.forward, RemoteOff(sess'))
      /\ "loss" \notin Faults /\ sess.state \notin Over =>
            Covers(f.forward, RemoteOff(sess'), app.nxt)
  BY <1>5, <1>6, <1>7, QueueAtOneMore
<1> QED BY <1>2, <1>3, <1>4, <1>5, <1>8 DEF Queue

LEMMA NextQueue ==
    ASSUME IInv, OneStream, SegmentsApart, SegmentsOneSide, Order, Queue, [Next]_vars
    PROVE  Queue'
<1>1. Untunnelled
  BY UntunnelledOf DEF Order, OrderOfSession
<1>2. CASE Rested
  BY <1>2, RestedQueue
<1>3. CASE Freed
  BY <1>3, FreedQueue
<1>4. CASE Answered
  BY <1>4, AnsweredQueue
<1>5. CASE Transferred
  BY <1>5, TransferredQueue
<1>6. CASE Received
  BY <1>6, ReceivedQueue
<1>7. CASE Elsewhere
  BY <1>7, ElsewhereQueue
<1> QED BY <1>1, <1>2, <1>3, <1>4, <1>5, <1>6, <1>7, PlainStep

\* The forward queue of a session stays sorted and without overlap, and its head
\* is never behind remote_seq, whatever order tun delivers the segments in and
\* whichever of them come again: the forward loop, which only ever looks at the
\* head, is never stuck behind a segment that is already confirmed.
THEOREM QueueStaysInOrder ==
    OneStream /\ SegmentsApart /\ SegmentsOneSide => (Spec => []QueueInOrder)
<1> SUFFICES ASSUME OneStream, SegmentsApart, SegmentsOneSide
             PROVE  Spec => []QueueInOrder
  OBVIOUS
<1>1. Init => IInv /\ Order /\ Queue
  BY InitInv, InitOrder, InitQueue
<1>2. IInv /\ Order /\ Queue /\ [Next]_vars => (IInv /\ Order /\ Queue)'
  BY NextInv, NextOrder, NextQueue
<1>3. IInv /\ Order /\ Queue => QueueInOrder
  <2> SUFFICES ASSUME IInv, Order, Queue, sess # NoSession
               PROVE  QueueInOrder
    BY DEF QueueInOrder
  <2> DEFINE q == sess.forward
             At(g) == Dist(RemoteStart, NextSeq(g))
  <2>1. /\ sess \in Session /\ q \in Seq(Segment)
        /\ app.nxt \in Nat /\ app.nxt + 3 < SeqSpace
        /\ \A i \in DOMAIN q : Stored(q[i], app.nxt)
        /\ Apart(q) /\ NotBehind(q, RemoteOff(sess))
    BY SessionOf, SentFits DEF IInv, Session, Order, OrderOfSession, Queue
  <2>2. ASSUME NEW i \in DOMAIN q
        PROVE  /\ At(q[i]) = FirstByte(q[i]) /\ At(q[i]) + Left(q[i]) = End(q[i])
               /\ End(q[i]) \in Nat /\ q[i].off \in Nat /\ FirstByte(q[i]) \in Nat
               /\ q[i].off <= FirstByte(q[i])
    <3>1. q[i] \in Segment /\ Stored(q[i], app.nxt)
      BY <2>1
    <3>2. At(q[i]) = FirstByte(q[i]) /\ FirstByte(q[i]) + Left(q[i]) = End(q[i])
      BY <2>1, <3>1, NextSeqOff
    <3>3. /\ End(q[i]) \in Nat /\ q[i].off \in Nat /\ FirstByte(q[i]) \in Nat
          /\ q[i].off <= FirstByte(q[i])
      <4> HIDE DEF q, At
      <4> QED BY <3>1 DEF Segment, FirstByte, End
    <3> HIDE DEF q, At
    <3> QED BY <3>2, <3>3
  <2>3. ASSUME NEW i \in DOMAIN q, NEW j \in DOMAIN q, i < j
        PROVE  At(q[i]) + Left(q[i]) <= At(q[j])
    <3>1. End(q[i]) <= q[j].off
      BY <2>1, <2>3 DEF Apart
    <3> HIDE DEF q, At
    <3> QED BY <2>2, <3>1
  <2>4. q # <<>> => At(Head(q)) >= RemoteOff(sess)
    <3> SUFFICES ASSUME q # <<>> PROVE At(Head(q)) >= RemoteOff(sess)
      OBVIOUS
    <3>1. 1 \in DOMAIN q /\ Head(q) = q[1]
      BY <2>1
    <3>2. RemoteOff(sess) <= FirstByte(q[1])
      BY <2>1 DEF NotBehind
    <3>3. RemoteOff(sess) \in Nat
      BY <2>1, OffsetTypes
    <3> HIDE DEF q, At
    <3> QED BY <2>2, <3>1, <3>2, <3>3
  <2> QED BY <2>3, <2>4 DEF QueueInOrder
<1> QED BY <1>1, <1>2, <1>3, PTL DEF Spec

=============================================================================
