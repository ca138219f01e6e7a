-------------------------- MODULE TcpSessionProofs --------------------------
(***************************************************************************)
(* Proofs about TcpSession: its types, the agreement of a session's socket *)
(* with its state, and what follows from it, for every port, every initial *)
(* sequence number, every set of segments and windows, every timeout and   *)
(* every combination of failures.                                          *)
(***************************************************************************)
EXTENDS TcpSession, FiniteSetTheorems, SequenceTheorems, WellFoundedInduction, TLAPS

-----------------------------------------------------------------------------
\* The helpers: what each returns, and which fields of the session it leaves.

LEMMA SeqNumsInt == SeqNums \subseteq Nat
BY SeqSpaceAssumption DEF SeqNums

LEMMA SeqAddType == \A s \in SeqNums, n \in Nat : SeqAdd(s, n) \in SeqNums
BY SeqSpaceAssumption DEF SeqAdd, SeqNums

LEMMA DistType == \A s, t \in SeqNums : Dist(s, t) \in SeqNums
BY SeqSpaceAssumption DEF Dist, SeqNums

LEMMA CompareType == \A s, t : compare_u32(s, t) \in {-1, 0, 1}
BY DEF compare_u32

LEMMA TotalType ==
    ASSUME NEW f, IsFiniteSet(DOMAIN f), NEW n \in Nat
    PROVE  Total(f, n) \in Nat
<1> DEFINE S == (DOMAIN f) \X (1 .. n)
           T == {x \in S : x[2] <= f[x[1]]}
<1>1. IsFiniteSet(1 .. n)
  BY FS_Interval
<1>2. IsFiniteSet(S)
  BY <1>1, FS_Product
<1>3. IsFiniteSet(T)
  BY <1>2, FS_Subset
<1> QED BY <1>3, FS_CardinalityType DEF Total

LEMMA LeastExists ==
    ASSUME NEW T \in SUBSET Nat, T # {}
    PROVE  \E m \in T : \A n \in T : m <= n
<1>1. PICK m \in T : \A n \in T : ~ (<<n, m>> \in OpToRel(<, Nat))
  BY WFMin, NatLessThanWellFounded
<1>2. ASSUME NEW n \in T PROVE m <= n
  <2>1. ~ (n < m)
    BY <1>1, Zenon DEF OpToRel
  <2> QED BY <2>1
<1> QED BY <1>2

-----------------------------------------------------------------------------
\* What a step of the session leaves as it is.

Placed(s, t) ==
    /\ t.port = s.port
    /\ t.socket = s.socket
    /\ t.connect = s.connect

Kept(s, t) ==
    /\ Placed(s, t)
    /\ t.events = s.events
    /\ t.asked = s.asked

LEMMA WriteRst ==
    ASSUME NEW s \in Session
    PROVE  /\ write_rst(s) \in Session
           /\ Kept(s, write_rst(s))
           /\ write_rst(s).forward = s.forward
           /\ write_rst(s).state = IF s.state = "CLOSE" THEN "CLOSE" ELSE "CLOSING"
<1>1. s.remote_seq \in SeqNums
  BY DEF Session
<1>2. SeqAdd(s.remote_seq, 1) \in SeqNums
  BY <1>1, SeqAddType
<1> QED BY <1>2 DEF write_rst, Session, TcpStates, Kept, Placed

LEMMA ClosingType ==
    ASSUME NEW s \in Session
    PROVE  /\ Closing(s) \in Session
           /\ Kept(s, Closing(s))
           /\ Closing(s).forward = s.forward
           /\ Closing(s).state = "CLOSING"
BY DEF Closing, Session, TcpStates, Kept, Placed

LEMMA WrittenType ==
    ASSUME NEW s \in Session, NEW ok \in BOOLEAN
    PROVE  /\ Written(s, ok) \in Session
           /\ Kept(s, Written(s, ok))
           /\ Written(s, ok).forward = s.forward
           /\ Written(s, ok).state \in {s.state, "CLOSING"}
BY ClosingType DEF Written, Kept, Placed

LEMMA SendWindowType ==
    ASSUME NEW s \in Session
    PROVE  get_send_window(s) \in Nat
<1>1. Dist(s.acked, s.local_seq) \in Nat /\ s.acked \in Nat /\ s.send_window \in Nat
  <2>1. s.acked \in SeqNums /\ s.local_seq \in SeqNums /\ s.send_window \in Nat
    BY DEF Session
  <2> QED BY <2>1, DistType, SeqNumsInt
<1> QED BY <1>1 DEF get_send_window

LEMMA ReceiveBufferType ==
    ASSUME NEW s \in Session, NEW k \in Sockets
    PROVE  get_receive_buffer(s, k) \in Nat
BY TcpAssumption DEF get_receive_buffer, Sockets

LEMMA ReceiveWindowType ==
    ASSUME NEW s \in Session, NEW k \in Sockets
    PROVE  get_receive_window(s, k) \in Nat
<1> DEFINE f == [i \in DOMAIN s.forward |-> Left(s.forward[i])]
           max == WindowField * ScaleUnit
           window == Smaller(get_receive_buffer(s, k), max)
<1>1. IsFiniteSet(DOMAIN f)
  <2>1. DOMAIN f = 1 .. Len(s.forward) /\ Len(s.forward) \in Nat
    BY DEF Session
  <2> QED BY <2>1, FS_Interval
<1>2. Total(f, MaxSegment) \in Nat
  BY <1>1, TotalType, TcpAssumption
<1>3. max \in Nat
  BY TcpAssumption
<1>4. window \in Nat
  BY <1>3, ReceiveBufferType DEF Smaller
<1> HIDE DEF f, window, max
<1> QED BY <1>2, <1>4 DEF get_receive_window, f, window, max

LEMMA SegmentType ==
    ASSUME NEW g \in Segment
    PROVE  Left(g) \in Nat /\ NextSeq(g) \in SeqNums
BY SeqAddType DEF Segment, Left, NextSeq

\* A packet read from tun.
Packets ==
    [port : Ports, syn : BOOLEAN, ack : BOOLEAN, fin : BOOLEAN, rst : BOOLEAN,
     seq : SeqNums, len : Nat, off : Nat, ackseq : SeqNums, win : Nat]

LEMMA PositionType ==
    ASSUME NEW q \in Seq(Segment), NEW seq \in SeqNums
    PROVE  Position(q, seq) \in 1 .. (Len(q) + 1)
<1> DEFINE stops == {i \in DOMAIN q : compare_u32(q[i].seq, seq) >= 0}
<1>1. stops \subseteq 1 .. Len(q) /\ Len(q) \in Nat
  OBVIOUS
<1> HIDE DEF stops
<1>2. CASE stops = {}
  <2>1. Position(q, seq) = Len(q) + 1
    BY <1>2 DEF Position, stops
  <2>2. Len(q) + 1 \in 1 .. (Len(q) + 1)
    BY <1>1
  <2> QED BY <2>1, <2>2
<1>3. CASE stops # {}
  <2>1. PICK i \in stops : \A j \in stops : i <= j
    BY <1>1, <1>3, LeastExists
  <2>2. Position(q, seq) = CHOOSE k \in stops : \A j \in stops : k <= j
    BY <1>3 DEF Position, stops
  <2>3. Position(q, seq) \in stops
    BY <2>1, <2>2
  <2>4. 1 .. Len(q) \subseteq 1 .. (Len(q) + 1)
    BY <1>1
  <2> QED BY <2>3, <2>4, <1>1, Zenon
<1> QED BY <1>2, <1>3

LEMMA InsertedType ==
    ASSUME NEW q \in Seq(Segment), NEW at \in 1 .. (Len(q) + 1), NEW g \in Segment
    PROVE  Inserted(q, at, g) \in Seq(Segment)
<1>1. /\ SubSeq(q, 1, at - 1) \in Seq(Segment)
      /\ SubSeq(q, at, Len(q)) \in Seq(Segment)
      /\ <<g>> \in Seq(Segment)
  OBVIOUS
<1> QED BY <1>1 DEF Inserted

\* A session whose queue is replaced.
LEMMA ForwardType ==
    ASSUME NEW s \in Session, NEW f \in Seq(Segment)
    PROVE  /\ [s EXCEPT !.forward = f] \in Session
           /\ Kept(s, [s EXCEPT !.forward = f])
           /\ [s EXCEPT !.forward = f].state = s.state
BY DEF Session, Kept, Placed

LEMMA QueueTcp ==
    ASSUME NEW s \in Session, NEW p \in Packets
    PROVE  /\ queue_tcp(s, p) \in Session
           /\ Kept(s, queue_tcp(s, p))
           /\ queue_tcp(s, p).state = s.state
<1> DEFINE q == s.forward
           at == Position(q, p.seq)
           new == [seq |-> p.seq, len |-> p.len, sent |-> 0, off |-> p.off]
           changed == [q[at] EXCEPT !.off = p.off]
<1>1. q \in Seq(Segment) /\ Len(q) \in Nat
  BY DEF Session
<1>2. p.seq \in SeqNums /\ p.off \in Nat /\ new \in Segment
  BY DEF Packets, Segment
<1>3. at \in 1 .. (Len(q) + 1)
  BY <1>1, <1>2, PositionType
<1> HIDE DEF at, new, q
<1>4. Inserted(q, at, new) \in Seq(Segment)
  BY <1>1, <1>2, <1>3, InsertedType
<1>5. ASSUME at # Len(q) + 1
      PROVE  [q EXCEPT ![at] = changed] \in Seq(Segment)
  <2>1. at \in 1 .. Len(q)
    BY <1>1, <1>3, <1>5
  <2>2. q[at] \in Segment
    BY <1>1, <2>1, ElementOfSeq
  <2>3. changed \in Segment
    BY <2>2, <1>2 DEF Segment
  <2> QED BY <1>1, <2>1, <2>3, ExceptSeq
<1>6. CASE queue_tcp(s, p) = s
  BY <1>6 DEF Kept, Placed
<1>7. CASE queue_tcp(s, p) = [s EXCEPT !.forward = Inserted(q, at, new)]
  BY <1>4, <1>7, ForwardType
<1>8. CASE at # Len(q) + 1 /\ queue_tcp(s, p) = [s EXCEPT !.forward = [q EXCEPT ![at] = changed]]
  BY <1>5, <1>8, ForwardType
<1> QED BY <1>6, <1>7, <1>8 DEF queue_tcp, q, at, new

LEMMA WantedType ==
    ASSUME NEW s \in Session, NEW k \in Sockets
    PROVE  Wanted(s, k) \in SUBSET Events
BY DEF Wanted, Events

LEMMA Monitor ==
    ASSUME NEW s \in Session, NEW k \in Sockets,
           NEW alive \in BOOLEAN, NEW modified \in BOOLEAN
    PROVE  LET t == monitor_tcp_session(s, k, alive, modified)
           IN  /\ t \in Session
               /\ Placed(s, t)
               /\ t.forward = s.forward
               /\ t.state \in {s.state, "CLOSING"}
<1> DEFINE wanted == Wanted(s, k)
           polled == IF /\ s.state \in {"ESTABLISHED", "CLOSE_WAIT"}
                        /\ get_send_window(s) = 0
                     THEN Written(s, alive) ELSE s
           armed == [polled EXCEPT !.events = wanted,
                                   !.asked = IF modified THEN wanted ELSE @,
                                   !.state = IF modified THEN @ ELSE "CLOSING"]
<1>1. /\ polled \in Session /\ Placed(s, polled) /\ polled.forward = s.forward
      /\ polled.state \in {s.state, "CLOSING"}
  BY WrittenType DEF Kept, Placed
<1>2. wanted \in SUBSET Events
  BY WantedType
<1> HIDE DEF polled, wanted
<1>3. /\ armed \in Session /\ Placed(polled, armed) /\ armed.forward = polled.forward
      /\ armed.state \in {polled.state, "CLOSING"}
  BY <1>1, <1>2 DEF Session, TcpStates, Placed
<1>4. monitor_tcp_session(s, k, alive, modified) \in {polled, armed}
  BY DEF monitor_tcp_session, polled, wanted
<1> HIDE DEF armed
<1> QED BY <1>1, <1>3, <1>4 DEF Placed

LEMMA CheckTcpSession ==
    ASSUME NEW s \in Session, NEW n
    PROVE  LET t == check_tcp_session(s, n)
           IN  /\ t \in Session
               /\ t.port = s.port /\ t.connect = s.connect
               /\ t.events = s.events /\ t.asked = s.asked
               /\ \/ t = s /\ s.state # "CLOSING"
                  \/ t.state = "CLOSE" /\ ~t.socket /\ s.state # "CLOSE"
<1> DEFINE expired == /\ s.state \notin {"CLOSING", "CLOSE"}
                      /\ s.age > get_tcp_timeout(s.state, n)
           t == IF ~expired THEN s
                ELSE IF s.state = "LISTEN" THEN Closing(s) ELSE write_rst(s)
           closed == [t EXCEPT !.state = "CLOSE", !.socket = FALSE, !.age = 0]
<1>1. /\ t \in Session /\ Kept(s, t)
      /\ t = s \/ (t.state = "CLOSING" /\ s.state # "CLOSE")
  BY ClosingType, WriteRst DEF Kept, Placed
<1>2. check_tcp_session(s, n) = IF t.state = "CLOSING" THEN closed ELSE t
  BY DEF check_tcp_session
<1> HIDE DEF t
<1>3. /\ closed \in Session /\ closed.state = "CLOSE" /\ ~closed.socket
      /\ closed.port = t.port /\ closed.connect = t.connect
      /\ closed.events = t.events /\ closed.asked = t.asked
  BY <1>1 DEF Session, TcpStates
<1> HIDE DEF closed
<1> QED BY <1>1, <1>2, <1>3 DEF Kept, Placed

-----------------------------------------------------------------------------
\* The socket's event.

LEMMA SendsType ==
    ASSUME NEW g \in Segment
    PROVE  Sends(g) \subseteq Int
BY SegmentType, TcpAssumption DEF Sends

LEMMA CountedType ==
    ASSUME NEW g \in Segment, NEW sent \in Int
    PROVE  Counted(g, sent) \in Nat
BY SegmentType DEF Counted

\* The results of a run are integers, one for each of the first segments.
LEMMA RunType ==
    ASSUME sess \in Session, NEW r \in ForwardRuns
    PROVE  \E m \in 0 .. Len(sess.forward) : r \in [1 .. m -> Int]
<1> DEFINE q == sess.forward
           results == UNION {Sends(q[i]) : i \in DOMAIN q}
<1>1. q \in Seq(Segment) /\ Len(q) \in Nat
  BY DEF Session
<1>2. results \subseteq Int
  <2>1. \A i \in DOMAIN q : Sends(q[i]) \subseteq Int
    BY <1>1, SendsType
  <2> QED BY <2>1
<1>3. CASE r = <<>>
  BY <1>1, <1>3
<1>4. CASE \E m \in 0 .. Len(q) : r \in [1 .. m -> results]
  BY <1>2, <1>4
<1> QED BY <1>3, <1>4 DEF ForwardRuns

LEMMA ForwardedType ==
    ASSUME NEW s \in Session, NEW m \in 0 .. Len(s.forward), NEW r \in [1 .. m -> Int]
    PROVE  /\ Forwarded(s, r) \in Session
           /\ Kept(s, Forwarded(s, r))
           /\ Forwarded(s, r).state = s.state
<1> DEFINE q == s.forward
           sent == Counted(q[m], r[m])
           rest == SubSeq(q, m + 1, Len(q))
           cut == [q[m] EXCEPT !.sent = @ + sent]
           left == IF sent = Left(q[m]) THEN rest ELSE <<cut>> \o rest
           seq == SeqAdd(NextSeq(q[m]), sent)
<1>1. q \in Seq(Segment) /\ Len(q) \in Nat /\ m \in Nat
  BY DEF Session
<1>2. Len(r) = m
  BY <1>1
<1>3. CASE m = 0
  BY <1>2, <1>3 DEF Forwarded, Kept, Placed
<1>4. CASE m # 0
  <2>1. q[m] \in Segment /\ r[m] \in Int
    BY <1>1, <1>4
  <2>2. sent \in Nat
    BY <2>1, CountedType
  <2>3. rest \in Seq(Segment)
    BY <1>1
  <2> HIDE DEF sent, rest, q
  <2>4. cut \in Segment
    BY <2>1, <2>2 DEF Segment
  <2> HIDE DEF cut
  <2>5. left \in Seq(Segment)
    <3>1. <<cut>> \in Seq(Segment)
      BY <2>4
    <3> QED BY <3>1, <2>3
  <2>6. seq \in SeqNums
    BY <2>1, <2>2, SegmentType, SeqAddType
  <2>7. Forwarded(s, r) = [s EXCEPT !.remote_seq = seq, !.forward = left]
    BY <1>2, <1>4 DEF Forwarded, q, rest, sent, cut
  <2> HIDE DEF left, seq
  <2> QED BY <2>5, <2>6, <2>7 DEF Session, Kept, Placed
<1> QED BY <1>3, <1>4

LEMMA AckForwardedType ==
    ASSUME NEW s \in Session, NEW k \in Sockets, NEW fwd \in BOOLEAN, NEW ok \in BOOLEAN
    PROVE  LET t == AckForwarded(s, k, fwd, ok)
           IN  /\ t \in Session
               /\ Kept(s, t)
               /\ t.forward = s.forward
               /\ t.state \in {s.state, "CLOSING"}
<1> DEFINE window == get_receive_window(s, k)
           t == [s EXCEPT !.recv_window = window]
           confirm == fwd /\ t.forward = <<>> /\ t.state = "CLOSE_WAIT"
           seq == IF confirm THEN SeqAdd(t.remote_seq, 1) ELSE t.remote_seq
           u == [t EXCEPT !.remote_seq = seq]
           fresh == [u EXCEPT !.age = 0]
<1>1. window \in Nat
  BY ReceiveWindowType
<1> HIDE DEF window
<1>2. t \in Session /\ Kept(s, t) /\ t.forward = s.forward /\ t.state = s.state
  BY <1>1 DEF Session, Kept, Placed
<1> HIDE DEF t
<1>3. seq \in SeqNums
  <2>1. t.remote_seq \in SeqNums
    BY <1>2 DEF Session
  <2> QED BY <2>1, SeqAddType
<1> HIDE DEF seq
<1>4. u \in Session /\ Kept(t, u) /\ u.forward = t.forward /\ u.state = t.state
  BY <1>2, <1>3 DEF Session, Kept, Placed
<1> HIDE DEF u
<1>5. fresh \in Session /\ Kept(u, fresh) /\ fresh.forward = u.forward /\ fresh.state = u.state
  BY <1>4 DEF Session, Kept, Placed
<1> HIDE DEF fresh
<1>6. AckForwarded(s, k, fwd, ok) \in {t, fresh, Closing(u)}
  BY DEF AckForwarded, window, t, seq, u, fresh
<1> QED BY <1>2, <1>4, <1>5, <1>6, ClosingType DEF Kept, Placed

\* What Read does to the socket: nothing, or it is closed, by a session that
\* has nothing left to forward unless it is being reset.
LEMMA ReadType ==
    ASSUME NEW s \in Session, NEW k \in Sockets, NEW ok \in BOOLEAN
    PROVE  LET t == Read(s, k, ok)[1]
               l == Read(s, k, ok)[2]
           IN  /\ t \in Session /\ l \in Sockets
               /\ t.port = s.port /\ t.connect = s.connect /\ t.forward = s.forward
               /\ t.events = s.events /\ t.asked = s.asked
               /\ \/ t.socket = s.socket /\ l.conn = k.conn
                  \/ ~t.socket /\ l.conn = "none"
               /\ \/ t.state = s.state /\ t.socket = s.socket
                  \/ t.state = "CLOSING" /\ s.state # "CLOSE"
                  \/ /\ t.state \in {"FIN_WAIT1", "LAST_ACK"} /\ ~t.socket
                     /\ s.state \in {"ESTABLISHED", "CLOSE_WAIT"} /\ s.forward = <<>>
<1> DEFINE window == get_send_window(s)
           bytes == Smaller(k.avail, Smaller(window, Mss))
           t == [s EXCEPT !.age = 0]
           shut == [t EXCEPT !.socket = FALSE]
           more == [t EXCEPT !.local_seq = SeqAdd(@, bytes)]
           less == [k EXCEPT !.avail = @ - bytes]
           fin == [shut EXCEPT !.local_seq = SeqAdd(@, 1),
                               !.state = IF @ = "ESTABLISHED" THEN "FIN_WAIT1"
                                         ELSE "LAST_ACK"]
           live == s.state \in {"ESTABLISHED", "CLOSE_WAIT"}
<1>1. bytes \in Nat /\ k.avail \in Nat /\ bytes <= k.avail
  BY SendWindowType, TcpAssumption DEF Sockets, Smaller
<1> HIDE DEF bytes, window
<1>2. /\ t \in Session /\ Kept(s, t) /\ t.forward = s.forward /\ t.state = s.state
  BY DEF Session, Kept, Placed
<1> HIDE DEF t
<1>3. /\ shut \in Session /\ shut.port = s.port /\ shut.connect = s.connect
      /\ shut.events = s.events /\ shut.asked = s.asked
      /\ shut.forward = s.forward /\ shut.state = s.state /\ ~shut.socket
  BY <1>2 DEF Session, Kept, Placed
<1> HIDE DEF shut
<1>4. /\ more \in Session /\ Kept(s, more) /\ more.forward = s.forward /\ more.state = s.state
  <2>1. SeqAdd(t.local_seq, bytes) \in SeqNums
    <3>1. t.local_seq \in SeqNums
      BY <1>2 DEF Session
    <3> QED BY <3>1, <1>1, SeqAddType
  <2> QED BY <1>2, <2>1 DEF Session, Kept, Placed
<1>5. less \in Sockets /\ less.conn = k.conn
  BY <1>1 DEF Sockets
<1>6. /\ fin \in Session /\ fin.port = s.port /\ fin.connect = s.connect
      /\ fin.events = s.events /\ fin.asked = s.asked
      /\ fin.forward = s.forward /\ fin.state \in {"FIN_WAIT1", "LAST_ACK"} /\ ~fin.socket
  <2>1. SeqAdd(shut.local_seq, 1) \in SeqNums
    <3>1. shut.local_seq \in SeqNums
      BY <1>3 DEF Session
    <3> QED BY <3>1, SeqAddType
  <2> QED BY <1>3, <2>1 DEF Session, TcpStates
<1>7. NoSocket \in Sockets /\ NoSocket.conn = "none"
  BY DEF NoSocket, Sockets
<1> HIDE DEF more, less, fin
<1>8. CASE Read(s, k, ok) = <<s, k>>
  BY <1>8
<1>9. CASE Read(s, k, ok) \in {<<write_rst(t), k>>, <<t, k>>} /\ live
  BY <1>2, <1>9, WriteRst DEF Kept, Placed
<1>10. CASE Read(s, k, ok) \in {<<more, less>>, <<Closing(t), less>>} /\ live
  BY <1>2, <1>4, <1>5, <1>10, ClosingType DEF Kept, Placed
<1>11. CASE /\ Read(s, k, ok) \in {<<write_rst(shut), NoSocket>>, <<Closing(shut), NoSocket>>}
            /\ live
  BY <1>3, <1>7, <1>11, WriteRst, ClosingType DEF Kept, Placed
<1>12. CASE Read(s, k, ok) = <<fin, NoSocket>> /\ live /\ s.forward = <<>>
  BY <1>6, <1>7, <1>12
<1>13. \/ Read(s, k, ok) = <<s, k>>
       \/ Read(s, k, ok) \in {<<write_rst(t), k>>, <<t, k>>} /\ live
       \/ Read(s, k, ok) \in {<<more, less>>, <<Closing(t), less>>} /\ live
       \/ /\ Read(s, k, ok) \in {<<write_rst(shut), NoSocket>>, <<Closing(shut), NoSocket>>}
          /\ live
       \/ Read(s, k, ok) = <<fin, NoSocket>> /\ live /\ s.forward = <<>>
  BY DEF Read, window, bytes, t, shut, more, less, fin
<1> QED BY <1>8, <1>9, <1>10, <1>11, <1>12, <1>13

-----------------------------------------------------------------------------
(***************************************************************************)
(* The inductive invariant.  SocketMatchesState alone is not inductive: a  *)
(* LISTEN session that handles an event stays with an open socket only if  *)
(* events belong to open sockets, and a session of port 443 whose packets  *)
(* are queued without a look at its state must not be in a state that has  *)
(* sent a FIN.                                                             *)
(***************************************************************************)

EventsOfOpenSocket ==
    ev # {} => phase = "batch" /\ sess # NoSession /\ sess.socket

TunnelStates ==
    sess # NoSession /\ sess.port = "https" /\ sess.connect # "established" =>
        sess.state \notin {"ESTABLISHED", "CLOSE_WAIT", "FIN_WAIT1", "LAST_ACK"}

Control == SocketMatchesState /\ EventsOfOpenSocket /\ TunnelStates /\ NothingStranded

IInv == TypeOK /\ Control

LEMMA NoSessionIsNone == \A s \in Session : s # NoSession /\ s.state # "NONE"
BY DEF Session, NoSession, TcpStates

LEMMA SessionOf ==
    ASSUME TypeOK, sess # NoSession
    PROVE  sess \in Session
BY DEF TypeOK

LEMMA InitInv == Init => IInv
<1> SUFFICES ASSUME Init PROVE IInv
  OBVIOUS
<1>1. TypeOK
  <2>1. sess \in {NoSession} /\ phase \in {"wait", "batch"} /\ ev \in SUBSET Events
    BY DEF Init
  <2>2. sock \in Sockets
    BY DEF Init, NoSocket, Sockets
  <2>3. PICK port \in Ports :
            app = [port |-> port, phase |-> "idle", nxt |-> 0, fin |-> FALSE,
                   ack |-> 0, edge |-> 0]
    BY DEF Init
  <2>4. app \in Apps
    BY <2>3 DEF Apps
  <2> QED BY <2>1, <2>2, <2>4 DEF TypeOK
<1>2. Control
  BY DEF Init, Control, SocketMatchesState, EventsOfOpenSocket, TunnelStates,
         NothingStranded, NoSession, NoSocket
<1> QED BY <1>1, <1>2 DEF IInv

\* The moves of a session that keeps its socket which cannot harm the control
\* invariant.
Safe(s, t) ==
    /\ t.port = s.port
    /\ t.socket = s.socket
    /\ t.events = s.events
    /\ t.asked = s.asked
    /\ t.connect # "established" => s.connect # "established"
    /\ \/ t.state = s.state /\ (t.forward = s.forward \/ s.socket)
       \/ t.state = "CLOSING"
       \/ t.state \in {"LISTEN", "SYN_RECV"} /\ s.socket
       \/ /\ t.state \in {"ESTABLISHED", "CLOSE_WAIT"} /\ s.socket
          /\ t.port # "https" \/ t.connect = "established"
       \/ t.state = "CLOSE" /\ ~s.socket

LEMMA SafeMove ==
    ASSUME IInv, sess # NoSession, sess' \in Session, Safe(sess, sess'),
           sock'.conn = sock.conn, phase' = phase, ev' = ev \/ ev' = {}
    PROVE  Control'
<1> USE NoSessionIsNone
<1>1. sess' # NoSession
  OBVIOUS
<1>2. SocketMatchesState'
  BY <1>1 DEF IInv, Control, SocketMatchesState, Safe
<1>3. EventsOfOpenSocket'
  BY <1>1 DEF IInv, Control, EventsOfOpenSocket, Safe
<1>4. TunnelStates'
  BY <1>1 DEF IInv, Control, TunnelStates, Safe
<1>5. NothingStranded'
  BY <1>1 DEF IInv, Control, NothingStranded, SocketMatchesState, Safe
<1> QED BY <1>2, <1>3, <1>4, <1>5 DEF Control

LEMMA PacketType ==
    ASSUME TypeOK, NEW flags, NEW seq \in Nat, NEW len \in Nat, NEW off \in Nat,
           NEW ackseq \in Nat, NEW win \in Nat
    PROVE  Packet(flags, seq, len, off, ackseq, win) \in Packets
<1>1. SeqAdd(RemoteStart, seq) \in SeqNums /\ SeqAdd(LocalStart, ackseq) \in SeqNums
  BY SeqAddType, TcpAssumption
<1>2. app.port \in Ports
  BY DEF TypeOK, Apps
<1> QED BY <1>1, <1>2 DEF Packet, Packets

-----------------------------------------------------------------------------
\* handle_tcp, whatever the packet.

LEMMA NewSessionInv ==
    ASSUME IInv, NEW p \in Packets, NewSession(p), UNCHANGED <<phase, ev>>
    PROVE  sess' \in Session \cup {NoSession} /\ sock' \in Sockets /\ Control'
<1> DEFINE s == [state |-> "LISTEN", port |-> p.port, socket |-> TRUE,
                 connect |-> IF p.port = "http" THEN "established" ELSE "not_sent",
                 remote_seq |-> p.seq, local_seq |-> LocalStart, acked |-> 0,
                 send_window |-> p.win, recv_window |-> 0,
                 forward |-> IF p.len = 0 THEN <<>>
                             ELSE <<[seq |-> p.seq, len |-> p.len,
                                     sent |-> 0, off |-> p.off]>>,
                 age |-> 0, events |-> {"OUT", "ERR"},
                 asked |-> {"OUT", "ERR"}]
           k == [NoSocket EXCEPT !.conn = "connecting"]
           window == get_receive_window(s, k)
           t == [s EXCEPT !.recv_window = window]
<1>1. CASE sess' = t /\ sock' = k
  <2>1. k \in Sockets /\ k.conn = "connecting"
    BY DEF NoSocket, Sockets
  <2>2. s \in Session
    <3>1. s.forward \in Seq(Segment)
      <4>1. [seq |-> p.seq, len |-> p.len, sent |-> 0, off |-> p.off] \in Segment
        BY DEF Packets, Segment
      <4> QED BY <4>1
    <3>2. p.port \in Ports /\ p.seq \in SeqNums /\ p.win \in Nat
      BY DEF Packets
    <3>3. LocalStart \in SeqNums /\ 0 \in SeqNums
      BY TcpAssumption, SeqSpaceAssumption DEF SeqNums
    <3> QED BY <3>1, <3>2, <3>3 DEF Session, TcpStates, Events
  <2>3. window \in Nat
    BY <2>1, <2>2, ReceiveWindowType
  <2>4. s.state = "LISTEN" /\ s.socket
    OBVIOUS
  <2> HIDE DEF s, window, k
  <2>5. t \in Session /\ t.state = "LISTEN" /\ t.socket
    BY <2>2, <2>3, <2>4 DEF Session
  <2> HIDE DEF t
  <2>6. Control'
    BY <1>1, <2>1, <2>5, NoSessionIsNone
       DEF NewSession, IInv, Control, SocketMatchesState, EventsOfOpenSocket, TunnelStates,
           NothingStranded
  <2> QED BY <1>1, <2>1, <2>5, <2>6
<1>2. CASE UNCHANGED <<sess, sock>>
  BY <1>2 DEF IInv, TypeOK, Control, SocketMatchesState, EventsOfOpenSocket, TunnelStates,
              NothingStranded
<1> QED BY <1>1, <1>2 DEF NewSession

LEMMA TunnellingInv ==
    ASSUME IInv, NEW p \in Packets, Tunnelling(p), UNCHANGED <<phase, ev>>
    PROVE  sess' \in Session \cup {NoSession} /\ sock' \in Sockets /\ Control'
<1>1. sess # NoSession /\ sess \in Session /\ sock \in Sockets
  BY SessionOf DEF Tunnelling, IInv, TypeOK
<1>2. /\ sess.port = "https" /\ sess.connect # "established"
      /\ sess.state \in {"FIN_WAIT1", "LAST_ACK", "CLOSE"} => ~sess.socket
      /\ sess.state \notin {"FIN_WAIT1", "LAST_ACK"}
      /\ sess.socket = (sock.conn # "none")
  BY <1>1 DEF Tunnelling, IInv, Control, TunnelStates, SocketMatchesState
<1>3. CASE /\ sock.conn = "connected"
           /\ sess' = queue_tcp([sess EXCEPT !.connect = "sent", !.state = "LISTEN"], p)
           /\ sock' = [sock EXCEPT !.proxy = "asked"]
  <2> DEFINE s == [sess EXCEPT !.connect = "sent", !.state = "LISTEN"]
  <2>1. /\ s \in Session /\ s.port = sess.port /\ s.socket = sess.socket
        /\ s.state = "LISTEN" /\ s.connect = "sent"
        /\ s.events = sess.events /\ s.asked = sess.asked
    BY <1>1 DEF Session, TcpStates
  <2> HIDE DEF s
  <2>2. sess' \in Session /\ Kept(s, sess') /\ sess'.state = s.state
    BY <1>3, <2>1, QueueTcp DEF s
  <2>3. sock' \in Sockets /\ sock'.conn = sock.conn
    BY <1>1, <1>3 DEF Sockets
  <2>4. Safe(sess, sess')
    BY <1>2, <1>3, <2>1, <2>2 DEF Safe, Kept, Placed
  <2> QED BY <1>1, <2>2, <2>3, <2>4, SafeMove
<1>4. CASE sess' = queue_tcp(write_rst(sess), p) /\ UNCHANGED sock
  <2> DEFINE s == write_rst(sess)
  <2>1. /\ s \in Session /\ Kept(sess, s)
        /\ s.state = IF sess.state = "CLOSE" THEN "CLOSE" ELSE "CLOSING"
    BY <1>1, WriteRst
  <2> HIDE DEF s
  <2>2. sess' \in Session /\ Kept(s, sess') /\ sess'.state = s.state
    BY <1>4, <2>1, QueueTcp DEF s
  <2>3. Safe(sess, sess')
    BY <1>2, <2>1, <2>2 DEF Safe, Kept, Placed
  <2> QED BY <1>1, <1>4, <2>2, <2>3, SafeMove
<1>5. CASE sess' = queue_tcp(sess, p) /\ UNCHANGED sock
  <2>1. sess' \in Session /\ Kept(sess, sess') /\ sess'.state = sess.state
    BY <1>1, <1>5, QueueTcp
  <2>2. CASE sess.state = "CLOSE" \/ sess.socket
    <3>1. Safe(sess, sess')
      BY <1>2, <2>1, <2>2 DEF Safe, Kept, Placed
    <3> QED BY <1>1, <1>5, <2>1, <3>1, SafeMove
  <2>3. CASE sess.state = "CLOSING"
    <3>1. Safe(sess, sess')
      BY <1>2, <2>1, <2>3 DEF Safe, Kept, Placed
    <3> QED BY <1>1, <1>5, <2>1, <3>1, SafeMove
  <2>4. sess.state \in {"CLOSE", "CLOSING"} \/ sess.socket
    BY <1>1 DEF IInv, Control, SocketMatchesState, TunnelStates, Tunnelling, Session, TcpStates
  <2> QED BY <2>2, <2>3, <2>4
<1> QED BY <1>3, <1>4, <1>5 DEF Tunnelling

\* An open session served as a TCP end point: Open, after the packet's data is
\* queued.
LEMMA FinSafe ==
    ASSUME NEW s \in Session, Fin(s),
           s.state = "ESTABLISHED" => s.socket,
           s.state = "FIN_WAIT1" => ~s.socket,
           s.port # "https" \/ s.connect = "established"
    PROVE  sess' \in Session /\ Safe(s, sess')
<1> DEFINE c == [s EXCEPT !.remote_seq = SeqAdd(@, 1)]
           w == [c EXCEPT !.state = "CLOSE_WAIT"]
           d == [c EXCEPT !.state = "CLOSE"]
           h == [s EXCEPT !.state = "CLOSE_WAIT"]
<1>1. s.remote_seq \in SeqNums
  BY DEF Session
<1>2. SeqAdd(s.remote_seq, 1) \in SeqNums
  BY <1>1, SeqAddType
<1>3. c \in Session /\ Kept(s, c) /\ c.forward = s.forward /\ c.state = s.state
  BY <1>2 DEF Session, Kept, Placed
<1> HIDE DEF c
<1>4. /\ w \in Session /\ Kept(s, w) /\ w.state = "CLOSE_WAIT"
      /\ d \in Session /\ Kept(s, d) /\ d.state = "CLOSE"
  BY <1>3 DEF Session, TcpStates, Kept, Placed
<1>5. h \in Session /\ Kept(s, h) /\ h.state = "CLOSE_WAIT"
  BY DEF Session, TcpStates, Kept, Placed
<1> HIDE DEF w, d, h
<1>6. CASE s.state = "ESTABLISHED" /\ sess' \in {w, h, Closing(c)}
  BY <1>3, <1>4, <1>5, <1>6, ClosingType DEF Safe, Kept, Placed
<1>7. CASE s.state = "FIN_WAIT1" /\ sess' \in {d, Closing(c)}
  BY <1>3, <1>4, <1>7, ClosingType DEF Safe, Kept, Placed
<1>8. CASE sess' = s
  BY <1>8 DEF Safe
<1> QED BY <1>6, <1>7, <1>8 DEF Fin, c, w, d, h

LEMMA AckSafe ==
    ASSUME NEW s \in Session, NEW p \in Packets,
           s.state = "SYN_RECV" => s.socket,
           s.port # "https" \/ s.connect = "established"
    PROVE  Ack(s, p) \in Session /\ Safe(s, Ack(s, p))
<1> DEFINE state == CASE s.state = "SYN_RECV" -> "ESTABLISHED"
                      [] s.state = "LAST_ACK" -> "CLOSING"
                      [] OTHER -> s.state
           t == [s EXCEPT !.acked = p.ackseq, !.state = state]
<1>1. /\ state \in TcpStates
      /\ \/ s.state = "SYN_RECV" /\ state = "ESTABLISHED"
         \/ s.state = "LAST_ACK" /\ state = "CLOSING"
         \/ state = s.state
  BY DEF Session, TcpStates
<1> HIDE DEF state
<1>2. t \in Session /\ Kept(s, t) /\ t.forward = s.forward /\ t.state = state
  BY <1>1 DEF Session, Packets, Kept, Placed
<1>3. Ack(s, p) = t
  BY DEF Ack, state
<1> HIDE DEF t
<1> QED BY <1>1, <1>2, <1>3 DEF Safe, Kept, Placed

LEMMA OtherAckSafe ==
    ASSUME NEW s \in Session, NEW p \in Packets,
           s.state = "CLOSE" => ~s.socket
    PROVE  OtherAck(s, p) \in Session /\ Safe(s, OtherAck(s, p))
<1> DEFINE t == [s EXCEPT !.acked = p.ackseq]
<1>1. t \in Session /\ Kept(s, t) /\ t.forward = s.forward /\ t.state = s.state
  BY DEF Session, Packets, Kept, Placed
<1>2. OtherAck(s, p) \in {s, t, write_rst(s)}
  BY DEF OtherAck, t
<1> HIDE DEF t
<1> QED BY <1>1, <1>2, WriteRst DEF Safe, Kept, Placed

LEMMA KnownSessionSafe ==
    ASSUME IInv, NEW p \in Packets, KnownSession(p)
    PROVE  sess' \in Session /\ Safe(sess, sess')
<1>1. sess # NoSession /\ sess \in Session /\ sock \in Sockets /\ UNCHANGED sock
  BY SessionOf DEF KnownSession, IInv, TypeOK
<1>2. /\ sess.state \in {"LISTEN", "SYN_RECV", "ESTABLISHED", "CLOSE_WAIT"} => sess.socket
      /\ sess.state \in {"FIN_WAIT1", "LAST_ACK", "CLOSE"} => ~sess.socket
      /\ sess.port # "https" \/ sess.connect = "established"
  BY <1>1 DEF KnownSession, IInv, Control, SocketMatchesState
<1>3. CASE Closed(p)
  BY <1>1, <1>2, <1>3, WriteRst DEF Closed, Safe, Kept, Placed
<1>4. CASE Open(p)
  <2> DEFINE s == [sess EXCEPT !.age = 0, !.send_window = p.win]
             refused == p.len > 0 /\ (~s.socket \/ s.state = "CLOSE_WAIT")
             q == IF p.len > 0 THEN queue_tcp(s, p) ELSE s
  <2>1. s \in Session /\ Kept(sess, s) /\ s.forward = sess.forward /\ s.state = sess.state
    BY <1>1 DEF Session, Packets, Kept, Placed
  <2> HIDE DEF s
  <2>2. CASE refused
    <3>1. sess' = write_rst(s)
      BY <1>4, <2>2 DEF Open, s
    <3> QED BY <1>2, <2>1, <3>1, WriteRst DEF Safe, Kept, Placed
  <2>3. CASE ~refused
    <3>1. /\ q \in Session /\ Kept(s, q) /\ q.state = s.state
          /\ q.forward = s.forward \/ s.socket
      BY <2>1, <2>3, QueueTcp DEF Kept, Placed, Packets
    <3> HIDE DEF q
    <3>2. \/ p.rst /\ sess' = Closing(q)
          \/ sess' = q
          \/ Fin(q)
          \/ sess' = Ack(q, p)
          \/ sess' = OtherAck(q, p)
      BY <1>4, <2>3 DEF Open, s, q
    <3>3. sess' \in Session /\ Safe(q, sess')
      <4>1. /\ q.state \in {"SYN_RECV", "ESTABLISHED"} => q.socket
            /\ q.state \in {"FIN_WAIT1", "CLOSE"} => ~q.socket
            /\ q.port # "https" \/ q.connect = "established"
        BY <1>2, <2>1, <3>1 DEF Kept, Placed
      <4>2. CASE sess' = Closing(q)
        BY <3>1, <4>2, ClosingType DEF Safe, Kept, Placed
      <4>3. CASE sess' = q
        BY <3>1, <4>3 DEF Safe
      <4>4. CASE Fin(q)
        BY <3>1, <4>1, <4>4, FinSafe
      <4>5. CASE sess' = Ack(q, p)
        BY <3>1, <4>1, <4>5, AckSafe
      <4>6. CASE sess' = OtherAck(q, p)
        BY <3>1, <4>1, <4>6, OtherAckSafe
      <4> QED BY <3>2, <4>2, <4>3, <4>4, <4>5, <4>6
    <3> QED BY <2>1, <3>1, <3>3 DEF Safe, Kept, Placed
  <2> QED BY <2>2, <2>3
<1> QED BY <1>3, <1>4 DEF KnownSession

LEMMA KnownSessionInv ==
    ASSUME IInv, NEW p \in Packets, KnownSession(p), UNCHANGED <<phase, ev>>
    PROVE  sess' \in Session \cup {NoSession} /\ sock' \in Sockets /\ Control'
<1>1. sess # NoSession /\ UNCHANGED sock /\ sock \in Sockets
  BY DEF KnownSession, IInv, TypeOK
<1> QED BY <1>1, KnownSessionSafe, SafeMove

LEMMA HandleTcpInv ==
    ASSUME IInv, NEW p \in Packets, handle_tcp(p), app' \in Apps
    PROVE  IInv'
<1>1. sess' \in Session \cup {NoSession} /\ sock' \in Sockets /\ Control'
  <2>1. CASE NewSession(p)
    BY <2>1, NewSessionInv DEF handle_tcp
  <2>2. CASE UnknownSession(p)
    BY <2>2 DEF UnknownSession, handle_tcp, IInv, TypeOK, Control, SocketMatchesState,
                EventsOfOpenSocket, TunnelStates, NothingStranded
  <2>3. CASE Tunnelling(p)
    BY <2>3, TunnellingInv DEF handle_tcp
  <2>4. CASE KnownSession(p)
    BY <2>4, KnownSessionInv DEF handle_tcp
  <2> QED BY <2>1, <2>2, <2>3, <2>4 DEF handle_tcp
<1>2. phase' = phase /\ ev' = ev
  BY DEF handle_tcp
<1> QED BY <1>1, <1>2 DEF IInv, TypeOK

-----------------------------------------------------------------------------
\* The app.

LEMMA AppSendsInv ==
    ASSUME IInv, NEW flags, NEW seq \in Nat, NEW len \in Nat, NEW off \in Nat,
           AppSends(flags, seq, len, off)
    PROVE  IInv'
<1>1. PICK a \in 1 .. (IF sess = NoSession THEN app.ack ELSE LocalOff(sess)), w \in Windows :
          /\ handle_tcp(Packet(flags, seq, len, off, a, w))
          /\ app' = [app EXCEPT !.phase = IF "rst" \in flags THEN "gone" ELSE "open",
                                !.nxt = IF len > 0 /\ off + len - 1 > @
                                        THEN off + len - 1 ELSE @,
                                !.fin = @ \/ "fin" \in flags,
                                !.ack = a, !.edge = a + w]
  BY DEF AppSends
<1>2. a \in Nat /\ w \in Nat
  <2>1. app.ack \in Nat
    BY DEF IInv, TypeOK, Apps
  <2>2. sess # NoSession => LocalOff(sess) \in Nat
    <3>1. sess # NoSession => sess.local_seq \in SeqNums
      BY SessionOf DEF IInv, Session
    <3> QED BY <3>1, DistType, SeqNumsInt, TcpAssumption DEF LocalOff
  <2> QED BY <2>1, <2>2, TcpAssumption
<1>3. Packet(flags, seq, len, off, a, w) \in Packets
  BY <1>2, PacketType DEF IInv
<1>4. app' \in Apps
  <2>1. app \in Apps
    BY DEF IInv, TypeOK
  <2> DEFINE nxt == IF len > 0 /\ off + len - 1 > app.nxt THEN off + len - 1 ELSE app.nxt
             fin == app.fin \/ "fin" \in flags
             stage == IF "rst" \in flags THEN "gone" ELSE "open"
  <2>2. nxt \in Nat /\ stage \in {"gone", "open"}
    BY <2>1 DEF Apps
  <2>3. fin \in BOOLEAN
    OBVIOUS
  <2>4. app' = [app EXCEPT !.phase = stage, !.nxt = nxt, !.fin = fin,
                           !.ack = a, !.edge = a + w]
    BY <1>1
  <2>5. a + w \in Nat
    BY <1>2
  <2> HIDE DEF nxt, fin, stage
  <2> QED BY <1>2, <2>1, <2>2, <2>3, <2>4, <2>5 DEF Apps
<1> QED BY <1>1, <1>3, <1>4, HandleTcpInv

LEMMA AppStepInv ==
    ASSUME IInv, AppStep
    PROVE  IInv'
<1>1. app \in Apps
  BY DEF IInv, TypeOK
<1>2. CASE AppSyn
  <2>1. PICK n \in SynData, w \in Windows :
            /\ handle_tcp(Packet({"syn"}, 0, n, 1, 0, w))
            /\ app' = [app EXCEPT !.phase = "syn", !.nxt = IF n > @ THEN n ELSE @]
    BY <1>2 DEF AppSyn
  <2>2. n \in Nat /\ w \in Nat
    BY TcpAssumption
  <2>3. Packet({"syn"}, 0, n, 1, 0, w) \in Packets
    BY <2>2, PacketType DEF IInv
  <2>4. app' \in Apps
    BY <1>1, <2>1, <2>2 DEF Apps
  <2> QED BY <2>1, <2>3, <2>4, HandleTcpInv
<1>3. CASE AppData
  <2>1. PICK g \in Segments, flags \in {{"ack"}, {"ack", "fin"}} :
            AppSends(flags, g[1], g[2], g[1])
    BY <1>3 DEF AppData
  <2>2. g[1] \in Nat /\ g[2] \in Nat
    BY TcpAssumption
  <2> QED BY <2>1, <2>2, AppSendsInv
<1>4. CASE AppFin \/ AppAck \/ AppReset
  <2> DEFINE next == app.nxt + 1
             after == app.nxt + 1 + (IF app.fin THEN 1 ELSE 0)
  <2>1. next \in Nat /\ after \in Nat
    BY <1>1 DEF Apps
  <2>2. \E flags : AppSends(flags, next, 0, next) \/ AppSends(flags, after, 0, next)
    BY <1>4 DEF AppFin, AppAck, AppReset
  <2> HIDE DEF next, after
  <2> QED BY <2>1, <2>2, AppSendsInv
<1>5. CASE AppLoses
  <2>1. app' \in Apps
    <3>1. \/ \E n \in Nat : app' = [app EXCEPT !.nxt = n]
          \/ app' = [app EXCEPT !.fin = TRUE]
      <4>1. \A g \in Segments : g[1] + g[2] - 1 \in Nat
        BY TcpAssumption
      <4> QED BY <1>5, <4>1 DEF AppLoses
    <3> QED BY <1>1, <3>1 DEF Apps
  <2> QED BY <1>5, <2>1 DEF AppLoses, IInv, TypeOK, Control, SocketMatchesState,
                            EventsOfOpenSocket, TunnelStates, NothingStranded
<1>6. CASE AppSilent
  <2>1. app' \in Apps
    BY <1>1, <1>6 DEF AppSilent, Apps
  <2> QED BY <1>6, <2>1 DEF AppSilent, IInv, TypeOK, Control, SocketMatchesState,
                            EventsOfOpenSocket, TunnelStates, NothingStranded
<1> QED BY <1>2, <1>3, <1>4, <1>5, <1>6 DEF AppStep

-----------------------------------------------------------------------------
\* The network and the clock.

LEMMA NetworkInv ==
    ASSUME IInv, Network \/ Drain
    PROVE  IInv'
<1>1. sock \in Sockets
  BY DEF IInv, TypeOK
<1>2. sock' \in Sockets /\ (sock'.conn = "none" <=> sock.conn = "none")
  <2>1. CASE sock.conn = "connecting" /\ sock' = [sock EXCEPT !.conn = "connected"]
    BY <1>1, <2>1 DEF Sockets
  <2>2. CASE /\ sock.conn \in {"connecting", "connected"}
             /\ sock' = [sock EXCEPT !.conn = "failed"]
    BY <1>1, <2>2 DEF Sockets
  <2>3. CASE sock' = [sock EXCEPT !.made = @ + 1, !.avail = @ + 1]
    <3>1. sock.made + 1 \in Nat /\ sock.avail + 1 \in Nat
      BY <1>1 DEF Sockets
    <3>2. sock' = [sock EXCEPT !.made = sock.made + 1, !.avail = sock.avail + 1]
      BY <2>3
    <3> QED BY <1>1, <3>1, <3>2, Zenon DEF Sockets
  <2>4. CASE sock' = [sock EXCEPT !.eof = TRUE]
    BY <1>1, <2>4 DEF Sockets
  <2>5. CASE \/ sock' = [sock EXCEPT !.proxy = "accepted"]
             \/ sock' = [sock EXCEPT !.proxy = "declined"]
    BY <1>1, <2>5 DEF Sockets
  <2>6. CASE sock' = [sock EXCEPT !.unsent = 0]
    BY <1>1, <2>6 DEF Sockets
  <2>7. CASE Network
    <3>1. \/ sock.conn = "connecting" /\ sock' = [sock EXCEPT !.conn = "connected"]
          \/ /\ sock.conn \in {"connecting", "connected"}
             /\ sock' = [sock EXCEPT !.conn = "failed"]
          \/ sock' = [sock EXCEPT !.made = @ + 1, !.avail = @ + 1]
          \/ sock' = [sock EXCEPT !.eof = TRUE]
          \/ sock' = [sock EXCEPT !.proxy = "accepted"]
          \/ sock' = [sock EXCEPT !.proxy = "declined"]
      <4>1. SockStep
        BY <2>7 DEF Network
      <4> QED BY <4>1, Zenon DEF SockStep
    <3> QED BY <2>1, <2>2, <2>3, <2>4, <2>5, <3>1, Zenon
  <2>8. CASE Drain
    BY <2>6, <2>8, Zenon DEF Drain
  <2> QED BY <2>7, <2>8
<1>3. UNCHANGED <<sess, phase, ev, app>>
  BY DEF Network, Drain
<1> QED BY <1>2, <1>3 DEF IInv, TypeOK, Control, SocketMatchesState, EventsOfOpenSocket,
                          TunnelStates, NothingStranded

LEMMA TickInv ==
    ASSUME IInv, Tick
    PROVE  IInv'
<1>1. sess # NoSession /\ sess \in Session
  BY SessionOf DEF Tick, IInv
<1>2. /\ sess' \in Session /\ Kept(sess, sess')
      /\ sess'.forward = sess.forward /\ sess'.state = sess.state
  BY <1>1 DEF Tick, Session, Kept, Placed
<1>3. UNCHANGED <<sock, phase, ev, app>>
  BY DEF Tick
<1>4. Safe(sess, sess')
  BY <1>2 DEF Safe, Kept, Placed
<1>5. Control'
  BY <1>1, <1>2, <1>3, <1>4, SafeMove
<1> QED BY <1>2, <1>3, <1>5 DEF IInv, TypeOK

-----------------------------------------------------------------------------
\* The engine.

\* What is known of a session whose socket has an event.
LEMMA EventSession ==
    ASSUME IInv, ev # {}
    PROVE  /\ sess # NoSession /\ sess \in Session /\ sock \in Sockets
           /\ sess.socket /\ sock.conn # "none"
           /\ sess.state \notin {"FIN_WAIT1", "LAST_ACK", "CLOSE"}
BY SessionOf DEF IInv, TypeOK, Control, EventsOfOpenSocket, SocketMatchesState

LEMMA SocketErrorInv ==
    ASSUME IInv, SocketError, ev # {}, ev' = {}, UNCHANGED <<phase, app>>
    PROVE  IInv'
<1>1. /\ sess # NoSession /\ sess \in Session /\ sock \in Sockets
      /\ sess.state # "CLOSE"
  BY EventSession
<1> DEFINE s == write_rst(sess)
           t == [s EXCEPT !.age = 0]
<1>2. s \in Session /\ Kept(sess, s) /\ s.state = "CLOSING"
  BY <1>1, WriteRst
<1> HIDE DEF s
<1>3. t \in Session /\ Kept(s, t) /\ t.state = "CLOSING"
  BY <1>2 DEF Session, Kept, Placed
<1>4. sess' = t
  BY DEF SocketError, s
<1> HIDE DEF t
<1>5. Safe(sess, sess')
  BY <1>2, <1>3, <1>4 DEF Safe, Kept, Placed
<1>6. sock' \in Sockets /\ (sock'.conn = "none" <=> sock.conn = "none")
  BY <1>1 DEF SocketError, Sockets
<1>7. Control'
  BY <1>1, <1>3, <1>4, <1>5, <1>6, NoSessionIsNone
     DEF IInv, Control, SocketMatchesState, EventsOfOpenSocket, TunnelStates, NothingStranded,
         Safe
<1> QED BY <1>3, <1>4, <1>6, <1>7 DEF IInv, TypeOK

LEMMA ProxyReplyInv ==
    ASSUME IInv, ProxyReply, ev # {}, ev' = {}, UNCHANGED <<phase, app>>
    PROVE  IInv'
<1>1. /\ sess # NoSession /\ sess \in Session /\ sock \in Sockets
      /\ sess.socket /\ sess.state = "LISTEN"
  BY EventSession DEF ProxyReply
<1>2. CASE sess' = write_rst(sess) /\ UNCHANGED sock
  <2>1. sess' \in Session /\ Safe(sess, sess')
    BY <1>1, <1>2, WriteRst DEF Safe, Kept, Placed
  <2> QED BY <1>1, <1>2, <2>1, SafeMove DEF IInv, TypeOK
<1>3. CASE UNCHANGED <<sess, sock>>
  <2>1. Safe(sess, sess')
    BY <1>3 DEF Safe
  <2> QED BY <1>1, <1>3, <2>1, SafeMove DEF IInv, TypeOK
<1>4. CASE /\ sess' = [sess EXCEPT !.connect = "established", !.state = "SYN_RECV"]
           /\ sock' = [sock EXCEPT !.proxy = "done", !.avail = 0]
  <2>1. sess' \in Session /\ Safe(sess, sess')
    BY <1>1, <1>4 DEF Session, TcpStates, Safe
  <2>2. sock' \in Sockets /\ sock'.conn = sock.conn
    BY <1>1, <1>4 DEF Sockets
  <2> QED BY <1>1, <2>1, <2>2, SafeMove DEF IInv, TypeOK
<1> QED BY <1>2, <1>3, <1>4 DEF ProxyReply

LEMMA ConnectedInv ==
    ASSUME IInv, Connected, ev # {}, ev' = {}, UNCHANGED <<phase, app>>
    PROVE  IInv'
<1>1. /\ sess # NoSession /\ sess \in Session /\ sock \in Sockets
      /\ sess.socket /\ sess.state = "LISTEN" /\ UNCHANGED sock
  BY EventSession DEF Connected
<1> DEFINE s == [sess EXCEPT !.remote_seq = SeqAdd(@, 1)]
           t == [s EXCEPT !.age = 0, !.local_seq = SeqAdd(@, 1), !.state = "SYN_RECV"]
<1>2. SeqAdd(sess.remote_seq, 1) \in SeqNums
  <2>1. sess.remote_seq \in SeqNums
    BY <1>1 DEF Session
  <2> QED BY <2>1, SeqAddType
<1>3. s \in Session /\ Kept(sess, s) /\ s.forward = sess.forward /\ s.state = sess.state
  BY <1>1, <1>2 DEF Session, Kept, Placed
<1> HIDE DEF s
<1>4. SeqAdd(s.local_seq, 1) \in SeqNums
  <2>1. s.local_seq \in SeqNums
    BY <1>3 DEF Session
  <2> QED BY <2>1, SeqAddType
<1>5. t \in Session /\ Kept(s, t) /\ t.state = "SYN_RECV"
  BY <1>3, <1>4 DEF Session, TcpStates, Kept, Placed
<1>6. sess' \in {t, Closing(s)}
  BY DEF Connected, s
<1> HIDE DEF t
<1>7. sess' \in Session /\ Safe(sess, sess')
  <2>1. CASE sess' = t
    BY <1>1, <1>3, <1>5, <2>1 DEF Safe, Kept, Placed
  <2>2. CASE sess' = Closing(s)
    <3>1. Closing(s) \in Session
      BY <1>3, ClosingType
    <3> QED BY <1>1, <1>3, <2>2, <3>1, ClosingType DEF Safe, Kept, Placed
  <2> QED BY <1>6, <2>1, <2>2
<1> QED BY <1>1, <1>7, SafeMove DEF IInv, TypeOK

\* A run of Transfer in parts: the session it starts the reading with.
LEMMA TransferStep ==
    ASSUME IInv, Transfer, ev # {}
    PROVE  \E s \in Session, k \in Sockets, ok \in BOOLEAN :
               /\ Kept(sess, s) /\ s.state \in {sess.state, "CLOSING"}
               /\ k.conn = sock.conn
               /\ sess' = Read(s, k, ok)[1] /\ sock' = Read(s, k, ok)[2]
<1>1. sess # NoSession /\ sess \in Session /\ sock \in Sockets
  BY EventSession
<1>2. PICK r \in ForwardRuns, acked \in TunResults, written \in TunResults :
          LET k == [sock EXCEPT !.unsent = @ + Total(r, MaxSegment + UrlPrefix)]
              s == AckForwarded(Forwarded(sess, r), k, r # <<>>, acked)
          IN  /\ sess' = Read(s, k, written)[1]
              /\ sock' = Read(s, k, written)[2]
  BY DEF Transfer
<1> DEFINE k == [sock EXCEPT !.unsent = @ + Total(r, MaxSegment + UrlPrefix)]
           f == Forwarded(sess, r)
           s == AckForwarded(f, k, r # <<>>, acked)
<1>3. acked \in BOOLEAN /\ written \in BOOLEAN
  BY DEF TunResults
<1>4. PICK m \in 0 .. Len(sess.forward) : r \in [1 .. m -> Int]
  BY <1>1, RunType
<1>5. k \in Sockets /\ k.conn = sock.conn
  <2>1. IsFiniteSet(DOMAIN r)
    <3>1. m \in Int /\ DOMAIN r = 1 .. m
      BY <1>4
    <3> QED BY <3>1, FS_Interval
  <2>2. MaxSegment + UrlPrefix \in Nat
    BY TcpAssumption
  <2> DEFINE n == Total(r, MaxSegment + UrlPrefix)
  <2>3. n \in Nat
    BY <2>1, <2>2, TotalType
  <2> HIDE DEF n
  <2>4. sock.unsent + n \in Nat
    BY <1>1, <2>3 DEF Sockets
  <2> QED BY <1>1, <2>4 DEF Sockets, n
<1>6. f \in Session /\ Kept(sess, f) /\ f.state = sess.state
  BY <1>1, <1>4, ForwardedType
<1> HIDE DEF k, f
<1>7. s \in Session /\ Kept(f, s) /\ s.state \in {f.state, "CLOSING"}
  <2>1. (r # <<>>) \in BOOLEAN
    OBVIOUS
  <2> QED BY <1>3, <1>5, <1>6, <2>1, AckForwardedType
<1>8. sess' = Read(s, k, written)[1] /\ sock' = Read(s, k, written)[2]
  BY <1>2 DEF k, f
<1> HIDE DEF s
<1>9. Kept(sess, s) /\ s.state \in {sess.state, "CLOSING"}
  BY <1>6, <1>7 DEF Kept, Placed
<1> QED BY <1>3, <1>5, <1>7, <1>8, <1>9

LEMMA TransferInv ==
    ASSUME IInv, Transfer, ev # {}, ev' = {}, UNCHANGED <<phase, app>>
    PROVE  IInv'
<1>1. /\ sess # NoSession /\ sess \in Session /\ sock \in Sockets
      /\ sess.socket /\ sock.conn # "none"
      /\ sess.state \notin {"FIN_WAIT1", "LAST_ACK", "CLOSE"}
      /\ sess.state \in {"ESTABLISHED", "CLOSE_WAIT"} =>
            sess.port # "https" \/ sess.connect = "established"
  <2>1. sess # NoSession
    BY EventSession
  <2> QED BY <2>1, EventSession DEF IInv, Control, TunnelStates
<1>2. PICK s \in Session, k \in Sockets, ok \in BOOLEAN :
          /\ Kept(sess, s) /\ s.state \in {sess.state, "CLOSING"}
          /\ k.conn = sock.conn
          /\ sess' = Read(s, k, ok)[1] /\ sock' = Read(s, k, ok)[2]
  BY TransferStep
<1>3. /\ sess' \in Session /\ sock' \in Sockets
      /\ sess'.port = s.port /\ sess'.connect = s.connect /\ sess'.forward = s.forward
      /\ \/ sess'.socket = s.socket /\ sock'.conn = k.conn
         \/ ~sess'.socket /\ sock'.conn = "none"
      /\ \/ sess'.state = s.state /\ sess'.socket = s.socket
         \/ sess'.state = "CLOSING" /\ s.state # "CLOSE"
         \/ /\ sess'.state \in {"FIN_WAIT1", "LAST_ACK"} /\ ~sess'.socket
            /\ s.state \in {"ESTABLISHED", "CLOSE_WAIT"} /\ s.forward = <<>>
  BY <1>2, ReadType
<1>4. sess' # NoSession
  BY <1>3, NoSessionIsNone
<1>5. SocketMatchesState'
  <2>1. s.socket /\ k.conn # "none" /\ s.state \notin {"FIN_WAIT1", "LAST_ACK", "CLOSE"}
    BY <1>1, <1>2 DEF Kept, Placed
  <2>2. sess'.socket <=> sock'.conn # "none"
    BY <1>3, <2>1
  <2>3. /\ sess'.state \in {"LISTEN", "SYN_RECV", "ESTABLISHED", "CLOSE_WAIT"} => sess'.socket
        /\ sess'.state \in {"FIN_WAIT1", "LAST_ACK", "CLOSE"} => ~sess'.socket
    BY <1>3, <2>1
  <2>4. sess'.socket \in BOOLEAN
    BY <1>3 DEF Session
  <2> QED BY <1>4, <2>2, <2>3, <2>4 DEF SocketMatchesState
<1>6. EventsOfOpenSocket'
  BY DEF EventsOfOpenSocket
<1>7. TunnelStates'
  BY <1>1, <1>2, <1>3 DEF TunnelStates, Kept, Placed
<1>8. NothingStranded'
  BY <1>1, <1>2, <1>3 DEF NothingStranded
<1> QED BY <1>3, <1>5, <1>6, <1>7, <1>8 DEF IInv, TypeOK, Control

LEMMA CheckTcpSocketInv ==
    ASSUME IInv, check_tcp_socket
    PROVE  IInv'
BY SocketErrorInv, ProxyReplyInv, ConnectedInv, TransferInv DEF check_tcp_socket

LEMMA ReadyType ==
    ASSUME sock \in Sockets
    PROVE  /\ Ready \subseteq Events
           /\ Ready # {} => sock.conn # "none"
BY DEF Ready, Events, Sockets

LEMMA EpollWaitInv ==
    ASSUME IInv, EpollWait
    PROVE  IInv'
<1>1. Ready \subseteq Events /\ (Ready # {} => sock.conn # "none")
  BY ReadyType DEF IInv, TypeOK
<1>2. ev' \in SUBSET Events
  BY <1>1 DEF EpollWait
<1>3. ev' # {} => sess # NoSession /\ Ready # {}
  BY DEF EpollWait
<1>4. EventsOfOpenSocket'
  BY <1>1, <1>3 DEF EpollWait, IInv, Control, SocketMatchesState, EventsOfOpenSocket
<1> QED BY <1>2, <1>4 DEF EpollWait, IInv, TypeOK, Control, SocketMatchesState, TunnelStates,
                          NothingStranded

LEMMA LoopInv ==
    ASSUME IInv, NEW due \in BOOLEAN, Loop(due)
    PROVE  IInv'
<1>1. CASE sess = NoSession
  BY <1>1 DEF Loop, IInv, TypeOK, Control, SocketMatchesState, EventsOfOpenSocket,
              TunnelStates, NothingStranded
<1>2. CASE sess # NoSession
  <2>1. sess \in Session /\ sock \in Sockets /\ UNCHANGED <<ev, app>> /\ ev = {} /\ phase' = "wait"
    BY <1>2, SessionOf DEF IInv, TypeOK, Loop
  <2>2. PICK alive \in TunResults, n \in SessionCounts,
             modified \in IF "epoll" \in Faults THEN BOOLEAN ELSE {TRUE} :
            LET s == IF sess.socket
                     THEN monitor_tcp_session(sess, sock, alive, modified)
                     ELSE sess
                t == IF due THEN check_tcp_session(s, n) ELSE s
            IN  /\ sess' = IF due /\ Lingered(t) THEN NoSession ELSE t
                /\ sock' = IF t.socket THEN sock ELSE NoSocket
    BY <1>2 DEF Loop
  <2> DEFINE s == IF sess.socket
                  THEN monitor_tcp_session(sess, sock, alive, modified)
                  ELSE sess
             t == IF due THEN check_tcp_session(s, n) ELSE s
  <2>3. alive \in BOOLEAN /\ modified \in BOOLEAN
    BY DEF TunResults
  <2>4. /\ s \in Session /\ Placed(sess, s) /\ s.forward = sess.forward
        /\ \/ s.state = sess.state
           \/ s.state = "CLOSING" /\ sess.socket
    BY <2>1, <2>3, Monitor DEF Placed
  <2> HIDE DEF s
  <2>5. /\ t \in Session /\ t.port = s.port /\ t.connect = s.connect
        /\ \/ t = s
           \/ t.state = "CLOSE" /\ ~t.socket
    BY <2>4, CheckTcpSession
  <2>6. /\ sess' = IF due /\ Lingered(t) THEN NoSession ELSE t
        /\ sock' = IF t.socket THEN sock ELSE NoSocket
    BY <2>2 DEF s
  <2> HIDE DEF t
  <2>7. NoSocket \in Sockets /\ NoSocket.conn = "none"
    BY DEF NoSocket, Sockets
  <2>8. Lingered(t) => ~t.socket
    BY <1>2, <2>1, <2>4, <2>5
       DEF Lingered, IInv, Control, SocketMatchesState, Placed
  <2>9. Control'
    <3>1. CASE sess' = NoSession
      BY <2>1, <2>5, <2>6, <2>7, <2>8, <3>1, NoSessionIsNone
         DEF Control, SocketMatchesState, EventsOfOpenSocket, TunnelStates, NothingStranded
    <3>2. CASE sess' = t
      <4>1. sess' # NoSession /\ ev' = {}
        BY <2>1, <2>5, <3>2, NoSessionIsNone
      <4>2. SocketMatchesState'
        <5>1. /\ sess.socket <=> sock.conn # "none"
              /\ sess.state \in {"LISTEN", "SYN_RECV", "ESTABLISHED", "CLOSE_WAIT"} => sess.socket
              /\ sess.state \in {"FIN_WAIT1", "LAST_ACK", "CLOSE"} => ~sess.socket
          BY <1>2 DEF IInv, Control, SocketMatchesState
        <5>2. t.socket <=> sock'.conn # "none"
          BY <2>4, <2>5, <2>6, <2>7, <5>1 DEF Placed
        <5>3. /\ t.state \in {"LISTEN", "SYN_RECV", "ESTABLISHED", "CLOSE_WAIT"} => t.socket
              /\ t.state \in {"FIN_WAIT1", "LAST_ACK", "CLOSE"} => ~t.socket
          BY <2>4, <2>5, <5>1 DEF Placed
        <5>4. t.socket \in BOOLEAN
          BY <2>5 DEF Session
        <5> QED BY <3>2, <4>1, <5>2, <5>3, <5>4 DEF SocketMatchesState
      <4>3. TunnelStates' /\ NothingStranded'
        BY <1>2, <2>4, <2>5, <3>2, <4>1
           DEF IInv, Control, TunnelStates, NothingStranded, Placed
      <4> QED BY <4>1, <4>2, <4>3 DEF Control, EventsOfOpenSocket
    <3> QED BY <2>6, <3>1, <3>2
  <2> QED BY <2>1, <2>5, <2>6, <2>7, <2>9 DEF IInv, TypeOK
<1> QED BY <1>1, <1>2

-----------------------------------------------------------------------------
LEMMA NextInv == IInv /\ [Next]_vars => IInv'
<1> SUFFICES ASSUME IInv, [Next]_vars PROVE IInv'
  OBVIOUS
<1>1. CASE Engine
  BY <1>1, EpollWaitInv, CheckTcpSocketInv, LoopInv DEF Engine
<1>2. CASE AppStep
  BY <1>2, AppStepInv
<1>3. CASE Network \/ Drain
  BY <1>3, NetworkInv
<1>4. CASE Tick
  BY <1>4, TickInv
<1>5. CASE UNCHANGED vars
  BY <1>5 DEF vars, IInv, TypeOK, Control, SocketMatchesState, EventsOfOpenSocket, TunnelStates,
              NothingStranded
<1> QED BY <1>1, <1>2, <1>3, <1>4, <1>5 DEF Next

LEMMA Invariant == Spec => []IInv
BY InitInv, NextInv, PTL DEF Spec

\* The variables of the engine stay in their types, for every input.
THEOREM TypesHold == Spec => []TypeOK
<1>1. IInv => TypeOK
  BY DEF IInv
<1> QED BY <1>1, Invariant, PTL

\* The descriptor of a session agrees with its state: no session is freed with
\* its socket open (check_tcp_session, handle_events), none in LISTEN to
\* CLOSE_WAIT lacks one, none that has sent its FIN keeps it.
THEOREM SocketsMatch == Spec => []SocketMatchesState
<1>1. IInv => SocketMatchesState
  BY DEF IInv, Control
<1> QED BY <1>1, Invariant, PTL

\* The engine sends its FIN only when the queue towards upstream is empty, and
\* it stays empty (check_tcp_socket, "There was still data to send").
THEOREM QueueEmptyAfterFin == Spec => []NothingStranded
<1>1. IInv => NothingStranded
  BY DEF IInv, Control
<1> QED BY <1>1, Invariant, PTL

-----------------------------------------------------------------------------
\* What ends a session is final, off port 443: Tunnelling, which does not look
\* at the state, is the only action that takes a session out of CLOSING.

Ended(s) == s = NoSession \/ s.state \in {"CLOSING", "CLOSE"}

LEMMA EndedStays ==
    ASSUME IInv, Next, sess # NoSession, sess.port # "https",
           sess.state \in {"CLOSING", "CLOSE"}
    PROVE  Ended(sess')
<1>1. /\ sess \in Session /\ sock \in Sockets
      /\ sess.state = "CLOSE" => ~sess.socket
  BY SessionOf DEF IInv, TypeOK, Session, Control, SocketMatchesState
<1>2. write_rst(sess).state \in {"CLOSING", "CLOSE"}
  BY <1>1, WriteRst
<1>3. CASE UNCHANGED sess
  BY <1>3 DEF Ended
<1>4. CASE EpollWait \/ Network \/ Drain \/ AppLoses \/ AppSilent
  BY <1>3, <1>4 DEF EpollWait, Network, Drain, AppLoses, AppSilent
<1>5. CASE Tick
  <2>1. sess' = [sess EXCEPT !.age = @ + 1]
    BY <1>5 DEF Tick
  <2>2. sess'.state = sess.state
    BY <1>1, <2>1 DEF Session
  <2> QED BY <2>2 DEF Ended
<1>6. ASSUME NEW due \in BOOLEAN, Loop(due)
      PROVE  Ended(sess')
  <2>1. PICK alive \in TunResults, n \in SessionCounts,
             modified \in IF "epoll" \in Faults THEN BOOLEAN ELSE {TRUE} :
            LET s == IF sess.socket
                     THEN monitor_tcp_session(sess, sock, alive, modified)
                     ELSE sess
                t == IF due THEN check_tcp_session(s, n) ELSE s
            IN  sess' = IF due /\ Lingered(t) THEN NoSession ELSE t
    BY <1>6 DEF Loop
  <2> DEFINE s == IF sess.socket
                  THEN monitor_tcp_session(sess, sock, alive, modified)
                  ELSE sess
             t == IF due THEN check_tcp_session(s, n) ELSE s
  <2>2. alive \in BOOLEAN /\ modified \in BOOLEAN
    BY DEF TunResults
  <2>3. s \in Session /\ s.state \in {"CLOSING", "CLOSE"}
    BY <1>1, <2>2, Monitor
  <2> HIDE DEF s
  <2>4. t.state \in {"CLOSING", "CLOSE"}
    BY <2>3, CheckTcpSession
  <2>5. sess' = IF due /\ Lingered(t) THEN NoSession ELSE t
    BY <2>1 DEF s
  <2> HIDE DEF t
  <2> QED BY <2>4, <2>5 DEF Ended
<1>7. CASE check_tcp_socket
  <2>1. ev # {} /\ sess.state = "CLOSING"
    BY <1>7, EventSession DEF check_tcp_socket
  <2>2. CASE SocketError
    <3>1. write_rst(sess) \in Session
      BY <1>1, WriteRst
    <3>2. sess'.state = write_rst(sess).state
      BY <2>2, <3>1 DEF SocketError, Session
    <3> QED BY <1>2, <3>2 DEF Ended
  <2>3. CASE Transfer
    <3>1. PICK s \in Session, k \in Sockets, ok \in BOOLEAN :
              /\ s.state = "CLOSING"
              /\ sess' = Read(s, k, ok)[1]
      BY <2>1, <2>3, TransferStep
    <3>2. sess'.state = "CLOSING"
      BY <3>1, ReadType
    <3> QED BY <3>2 DEF Ended
  <2> QED BY <1>7, <2>1, <2>2, <2>3 DEF check_tcp_socket, ProxyReply, Connected
<1>8. ASSUME NEW p, handle_tcp(p)
      PROVE  Ended(sess')
  <2>1. KnownSession(p) /\ Closed(p)
    BY <1>8 DEF handle_tcp, NewSession, UnknownSession, Tunnelling, KnownSession, Open
  <2> QED BY <1>2, <2>1 DEF Closed, Ended
<1>9. CASE AppSyn \/ AppData \/ AppFin \/ AppAck \/ AppReset
  <2>1. \E p : handle_tcp(p)
    BY <1>9 DEF AppSyn, AppData, AppFin, AppAck, AppReset, AppSends
  <2> QED BY <1>8, <2>1
<1> QED BY <1>4, <1>5, <1>6, <1>7, <1>9 DEF Next, Engine, AppStep

\* Without port 443 a session that is being closed never comes back (handle_tcp
\* answers it with a RST, the event loop only moves it on to CLOSE).
THEOREM ClosingFinalOffTunnel == "https" \notin Ports => (Spec => ClosingIsFinal)
<1> SUFFICES ASSUME "https" \notin Ports PROVE Spec => ClosingIsFinal
  OBVIOUS
<1>1. ASSUME IInv, [Next]_vars
      PROVE  [sess # NoSession /\ sess.state \in {"CLOSING", "CLOSE"} =>
                 sess' = NoSession \/ sess'.state \in {"CLOSING", "CLOSE"}]_vars
  <2>1. sess # NoSession => sess.port # "https"
    BY <1>1, SessionOf DEF IInv, Session
  <2> QED BY <1>1, <2>1, EndedStays DEF Ended
<1> QED BY <1>1, Invariant, PTL DEF Spec, ClosingIsFinal

-----------------------------------------------------------------------------
(***************************************************************************)
(* What the kernel watches for.  The events a session has asked for and    *)
(* those the kernel knows part only in monitor_tcp_session, when epoll_ctl *)
(* fails, and then the session is being closed.                            *)
(***************************************************************************)

Watched ==
    sess # NoSession =>
        \/ sess.asked = sess.events
        \/ /\ "epoll" \in Faults
           /\ sess.port = "https" \/ sess.state \in {"CLOSING", "CLOSE"}

MonitorHears(s, t, modified) ==
    \/ t.events = s.events /\ t.asked = s.asked
    \/ modified /\ t.asked = t.events
    \/ ~modified /\ t.state = "CLOSING"

LEMMA MonitorAsks ==
    ASSUME NEW s \in Session, NEW k, NEW alive, NEW modified \in BOOLEAN
    PROVE  MonitorHears(s, monitor_tcp_session(s, k, alive, modified), modified)
<1> DEFINE polled == IF /\ s.state \in {"ESTABLISHED", "CLOSE_WAIT"}
                        /\ get_send_window(s) = 0
                     THEN Written(s, alive) ELSE s
           wanted == Wanted(s, k)
           armed == [polled EXCEPT !.events = wanted,
                                   !.asked = IF modified THEN wanted ELSE @,
                                   !.state = IF modified THEN @ ELSE "CLOSING"]
<1>1. polled.events = s.events /\ polled.asked = s.asked /\ polled \in {s, Closing(s)}
  BY DEF Written, Closing, Session
<1>2. Closing(s) \in Session
  BY ClosingType
<1> HIDE DEF polled, wanted
<1>3. /\ modified => armed.asked = armed.events
      /\ ~modified => armed.state = "CLOSING"
  BY <1>1, <1>2 DEF Session
<1>4. monitor_tcp_session(s, k, alive, modified) \in {polled, armed}
  BY DEF monitor_tcp_session, polled, wanted
<1> HIDE DEF armed
<1> QED BY <1>1, <1>3, <1>4 DEF MonitorHears

\* The steps of the app are packets, or leave the session alone.
LEMMA AppPackets ==
    ASSUME IInv, AppStep, ~UNCHANGED sess
    PROVE  \E p \in Packets : handle_tcp(p)
<1>1. app \in Apps
  BY DEF IInv, TypeOK
<1>2. ASSUME NEW flags, NEW seq \in Nat, NEW len \in Nat, NEW off \in Nat,
             AppSends(flags, seq, len, off)
      PROVE  \E p \in Packets : handle_tcp(p)
  <2>1. PICK a \in 1 .. (IF sess = NoSession THEN app.ack ELSE LocalOff(sess)), w \in Windows :
            handle_tcp(Packet(flags, seq, len, off, a, w))
    BY <1>2 DEF AppSends
  <2>2. a \in Nat /\ w \in Nat
    <3>1. sess # NoSession => LocalOff(sess) \in Nat
      <4>1. sess # NoSession => sess.local_seq \in SeqNums
        BY SessionOf DEF IInv, Session
      <4> QED BY <4>1, DistType, SeqNumsInt, TcpAssumption DEF LocalOff
    <3>2. app.ack \in Nat
      BY <1>1 DEF Apps
    <3> QED BY <3>1, <3>2, TcpAssumption
  <2>3. Packet(flags, seq, len, off, a, w) \in Packets
    BY <2>2, PacketType DEF IInv
  <2> QED BY <2>1, <2>3
<1>3. CASE AppSyn
  <2>1. PICK n \in SynData, w \in Windows : handle_tcp(Packet({"syn"}, 0, n, 1, 0, w))
    BY <1>3 DEF AppSyn
  <2>2. Packet({"syn"}, 0, n, 1, 0, w) \in Packets
    BY TcpAssumption, PacketType DEF IInv
  <2> QED BY <2>1, <2>2
<1>4. CASE AppData
  <2>1. PICK g \in Segments, flags \in {{"ack"}, {"ack", "fin"}} :
            AppSends(flags, g[1], g[2], g[1])
    BY <1>4 DEF AppData
  <2>2. g[1] \in Nat /\ g[2] \in Nat
    BY TcpAssumption
  <2> QED BY <1>2, <2>1, <2>2
<1>5. CASE AppFin \/ AppAck \/ AppReset
  <2> DEFINE next == app.nxt + 1
             after == app.nxt + 1 + (IF app.fin THEN 1 ELSE 0)
  <2>1. next \in Nat /\ after \in Nat
    BY <1>1 DEF Apps
  <2>2. \E flags : AppSends(flags, next, 0, next) \/ AppSends(flags, after, 0, next)
    BY <1>5 DEF AppFin, AppAck, AppReset
  <2> HIDE DEF next, after
  <2> QED BY <1>2, <2>1, <2>2
<1>6. CASE AppLoses \/ AppSilent
  BY <1>6 DEF AppLoses, AppSilent
<1> QED BY <1>3, <1>4, <1>5, <1>6 DEF AppStep

\* A packet leaves both as they are; the session a SYN makes has told the
\* kernel what it asks for.
LEMMA PacketAsks ==
    ASSUME IInv, NEW p \in Packets, handle_tcp(p)
    PROVE  /\ sess # NoSession =>
                /\ sess' # NoSession /\ sess'.port = sess.port
                /\ sess'.events = sess.events /\ sess'.asked = sess.asked
           /\ sess = NoSession /\ sess' # NoSession => sess'.asked = sess'.events
<1>1. CASE NewSession(p)
  BY <1>1 DEF NewSession
<1>2. CASE UnknownSession(p)
  BY <1>2 DEF UnknownSession
<1>3. CASE Tunnelling(p)
  <2> DEFINE t == [sess EXCEPT !.connect = "sent", !.state = "LISTEN"]
  <2>1. sess # NoSession /\ sess \in Session
    BY <1>3, SessionOf DEF Tunnelling, IInv
  <2>2. \E s \in {t, write_rst(sess), sess} : sess' = queue_tcp(s, p)
    BY <1>3 DEF Tunnelling
  <2>3. /\ t \in Session /\ t.port = sess.port
        /\ t.events = sess.events /\ t.asked = sess.asked
    BY <2>1 DEF Session, TcpStates
  <2> HIDE DEF t
  <2>4. \A s \in {t, write_rst(sess), sess} :
           s \in Session /\ s.port = sess.port /\ s.events = sess.events /\ s.asked = sess.asked
    BY <2>1, <2>3, WriteRst DEF Kept, Placed
  <2>5. PICK s \in {t, write_rst(sess), sess} : sess' = queue_tcp(s, p)
    BY <2>2
  <2> QED BY <2>1, <2>5, <2>4, QueueTcp, NoSessionIsNone DEF Kept, Placed
<1>4. CASE KnownSession(p)
  BY <1>4, KnownSessionSafe, NoSessionIsNone DEF KnownSession, Safe
<1> QED BY <1>1, <1>2, <1>3, <1>4 DEF handle_tcp

\* An event of the socket leaves them as they are too.
LEMMA EventAsks ==
    ASSUME IInv, check_tcp_socket
    PROVE  /\ sess # NoSession /\ sess' # NoSession /\ sess'.port = sess.port
           /\ sess'.events = sess.events /\ sess'.asked = sess.asked
<1>1. ev # {} /\ sess # NoSession /\ sess \in Session
  BY EventSession DEF check_tcp_socket
<1>2. write_rst(sess) \in Session /\ Kept(sess, write_rst(sess))
  BY <1>1, WriteRst
<1>3. CASE SocketError
  <2>1. [write_rst(sess) EXCEPT !.age = 0] \in Session
    BY <1>2 DEF Session
  <2> QED BY <1>1, <1>2, <1>3, <2>1, NoSessionIsNone DEF SocketError, Session, Kept, Placed
<1>4. CASE ProxyReply
  <2> DEFINE t == [sess EXCEPT !.connect = "established", !.state = "SYN_RECV"]
  <2>1. sess' \in {write_rst(sess), sess, t}
    BY <1>4 DEF ProxyReply
  <2>2. /\ t \in Session /\ t.port = sess.port
        /\ t.events = sess.events /\ t.asked = sess.asked
    BY <1>1 DEF Session, TcpStates
  <2> HIDE DEF t
  <2> QED BY <1>1, <1>2, <2>1, <2>2, NoSessionIsNone DEF Kept, Placed
<1>5. CASE Connected
  <2> DEFINE s == [sess EXCEPT !.remote_seq = SeqAdd(@, 1)]
             t == [s EXCEPT !.age = 0, !.local_seq = SeqAdd(@, 1), !.state = "SYN_RECV"]
             c == Closing(s)
  <2>1. sess' \in {t, c}
    BY <1>5 DEF Connected
  <2>2. \A u \in {t, c} : /\ u.state # "NONE" /\ u.port = sess.port
                          /\ u.events = sess.events /\ u.asked = sess.asked
    BY <1>1 DEF Session, Closing
  <2> HIDE DEF t, c
  <2>3. NoSession.state = "NONE"
    BY DEF NoSession
  <2> QED BY <1>1, <2>1, <2>2, <2>3
<1>6. CASE Transfer
  <2>1. PICK s \in Session, k \in Sockets, ok \in BOOLEAN :
            /\ Kept(sess, s)
            /\ sess' = Read(s, k, ok)[1]
    BY <1>1, <1>6, TransferStep
  <2> QED BY <1>1, <2>1, ReadType, NoSessionIsNone DEF Kept, Placed
<1> QED BY <1>3, <1>4, <1>5, <1>6 DEF check_tcp_socket

LEMMA LoopWatched ==
    ASSUME IInv, Watched, NEW due \in BOOLEAN, Loop(due), sess # NoSession,
           sess.port # "https" /\ sess.state \in {"CLOSING", "CLOSE"} => Ended(sess')
    PROVE  Watched'
<1>1. sess \in Session /\ sock \in Sockets
  BY SessionOf DEF IInv, TypeOK
<1>2. PICK alive \in TunResults, n \in SessionCounts,
           modified \in IF "epoll" \in Faults THEN BOOLEAN ELSE {TRUE} :
          LET s == IF sess.socket
                   THEN monitor_tcp_session(sess, sock, alive, modified)
                   ELSE sess
              t == IF due THEN check_tcp_session(s, n) ELSE s
          IN  sess' = IF due /\ Lingered(t) THEN NoSession ELSE t
  BY DEF Loop
<1> DEFINE s == IF sess.socket
                THEN monitor_tcp_session(sess, sock, alive, modified)
                ELSE sess
           t == IF due THEN check_tcp_session(s, n) ELSE s
<1>3. alive \in BOOLEAN /\ modified \in BOOLEAN /\ (~modified => "epoll" \in Faults)
  BY DEF TunResults
<1>4. s \in Session /\ s.port = sess.port /\ MonitorHears(sess, s, modified)
  <2>1. CASE sess.socket
    BY <1>1, <1>3, <2>1, Monitor, MonitorAsks DEF Placed
  <2>2. CASE ~sess.socket
    BY <1>1, <2>2 DEF MonitorHears
  <2> QED BY <2>1, <2>2
<1> HIDE DEF s
<1>5. /\ t.port = s.port /\ t.events = s.events /\ t.asked = s.asked
      /\ s.state = "CLOSING" => t.state \in {"CLOSING", "CLOSE"}
  BY <1>4, CheckTcpSession
<1>6. sess' \in {NoSession, t}
  BY <1>2 DEF s
<1> HIDE DEF t
<1> QED BY <1>3, <1>4, <1>5, <1>6 DEF Watched, MonitorHears, Ended

LEMMA NextWatched == IInv /\ Watched /\ [Next]_vars => Watched'
<1> SUFFICES ASSUME IInv, Watched, [Next]_vars PROVE Watched'
  OBVIOUS
<1>1. CASE UNCHANGED sess
  BY <1>1 DEF Watched
<1>2. CASE Next /\ ~UNCHANGED sess
  <2>1. sess # NoSession /\ sess.port # "https" /\ sess.state \in {"CLOSING", "CLOSE"}
           => Ended(sess')
    BY <1>2, EndedStays
  <2>2. CASE /\ sess # NoSession /\ sess' # NoSession /\ sess'.port = sess.port
             /\ sess'.events = sess.events /\ sess'.asked = sess.asked
    BY <2>1, <2>2 DEF Watched, Ended
  <2>3. CASE AppStep
    <3>1. PICK p \in Packets : handle_tcp(p)
      BY <1>2, <2>3, AppPackets
    <3>2. CASE sess = NoSession
      BY <3>1, <3>2, PacketAsks DEF Watched
    <3> QED BY <2>2, <3>1, <3>2, PacketAsks
  <2>4. CASE check_tcp_socket
    BY <2>2, <2>4, EventAsks
  <2>5. ASSUME NEW due \in BOOLEAN, Loop(due) PROVE Watched'
    <3>1. sess # NoSession
      BY <1>2, <2>5 DEF Loop
    <3> QED BY <2>1, <2>5, <3>1, LoopWatched
  <2>6. CASE Tick
    <3>1. sess # NoSession /\ sess \in Session
      BY <2>6, SessionOf DEF Tick, IInv
    <3>2. sess' \in Session /\ Kept(sess, sess')
      BY <2>6, <3>1 DEF Tick, Session, Kept, Placed
    <3> QED BY <2>2, <3>1, <3>2, NoSessionIsNone DEF Kept, Placed
  <2>7. ~(EpollWait \/ Network \/ Drain)
    BY <1>2 DEF EpollWait, Network, Drain
  <2> QED BY <1>2, <2>3, <2>4, <2>5, <2>6, <2>7 DEF Next, Engine
<1> QED BY <1>1, <1>2 DEF vars

LEMMA WatchedHolds == Spec => []Watched
<1>1. Init => Watched
  BY DEF Init, Watched
<1> QED BY <1>1, InitInv, NextInv, NextWatched, PTL DEF Spec

\* A session that stands never waits for an event the kernel does not watch for:
\* monitor_tcp_session closes one whose EPOLL_CTL_MOD failed, and off port 443
\* nothing brings it back.
THEOREM EventsAreKnown == Spec => []EventsKnown
<1>1. Watched => EventsKnown
  BY DEF Watched, EventsKnown
<1> QED BY <1>1, WatchedHolds, PTL

-----------------------------------------------------------------------------
(***************************************************************************)
(* Port 443 before the proxy has accepted.  The forward loop looks neither *)
(* at the port nor at connect_sent: that it sends nothing rests on what    *)
(* monitor_tcp_session asks epoll for.  Either nothing of the app has come *)
(* yet and its SYN is not answered, or the socket is not asked, and has    *)
(* not been found, to be writable.  The kernel watches for what is asked   *)
(* only as long as epoll_ctl does not fail.                                *)
(***************************************************************************)

Unaccepted == sess # NoSession /\ sess.port = "https" /\ sess.connect # "established"

Unanswered(s) == s.forward = <<>> /\ s.local_seq = LocalStart

\* The kernel knows what is asked.
EpollWorks == "epoll" \notin Faults

\* The app sends its SYN once, and without data.
SynOnce == "resend" \notin Faults /\ SynData \subseteq {0}

Untaken ==
    /\ SynOnce
    /\ app.phase = "idle" => sess = NoSession /\ upstream = <<>>
    /\ Unaccepted =>
          /\ upstream = <<>>
          /\ sess.state = "LISTEN" /\ sess.connect = "not_sent" => Unanswered(sess)
          /\ Unanswered(sess) \/ (/\ "OUT" \notin ev
                                  /\ phase = "wait" /\ sess.socket => "OUT" \notin sess.events)

LEMMA InitUntaken == Init /\ SynOnce => Untaken
BY DEF Init, Untaken, Unaccepted

\* Until its SYN is answered the app has nothing to acknowledge.
LEMMA AnsweredFirst ==
    ASSUME IInv, sess # NoSession, NEW a \in 1 .. LocalOff(sess)
    PROVE  ~Unanswered(sess)
<1> SUFFICES ASSUME Unanswered(sess) PROVE FALSE
  OBVIOUS
<1>1. LocalOff(sess) = 0
  BY SeqSpaceAssumption, TcpAssumption DEF Unanswered, LocalOff, Dist, SeqNums
<1> QED BY <1>1

LEMMA PacketUntaken ==
    ASSUME IInv, Untaken, NEW p \in Packets, handle_tcp(p), phase = "batch",
           sess # NoSession => ~Unanswered(sess),
           p.syn => p.len = 0 /\ upstream = <<>>,
           app'.phase # "idle"
    PROVE  Untaken'
<1>1. phase' = "batch" /\ ev' = ev /\ upstream' = upstream
  BY DEF handle_tcp
<1> SUFFICES ASSUME Unaccepted'
             PROVE  /\ upstream = <<>>
                    /\ sess'.state = "LISTEN" /\ sess'.connect = "not_sent" => Unanswered(sess')
                    /\ Unanswered(sess') \/ "OUT" \notin ev
  BY <1>1 DEF Untaken
<1>2. CASE NewSession(p)
  <2>1. CASE UNCHANGED sess
    BY <1>2, <2>1 DEF NewSession, Unaccepted
  <2>2. CASE sess' # sess
    <3>1. sess'.forward = <<>> /\ sess'.local_seq = LocalStart
      BY <1>2, <2>2 DEF NewSession
    <3> QED BY <1>2, <3>1 DEF NewSession, Unanswered
  <2> QED BY <2>1, <2>2
<1>3. CASE UnknownSession(p)
  BY <1>3 DEF UnknownSession, Unaccepted
<1>4. CASE Tunnelling(p)
  <2>1. Unaccepted /\ sess \in Session
    BY <1>4, SessionOf DEF Tunnelling, Unaccepted, IInv
  <2>2. /\ upstream = <<>> /\ "OUT" \notin ev
        /\ ~(sess.state = "LISTEN" /\ sess.connect = "not_sent")
    BY <2>1 DEF Untaken, Unaccepted
  <2>3. ~(sess'.state = "LISTEN" /\ sess'.connect = "not_sent")
    <3> DEFINE s == [sess EXCEPT !.connect = "sent", !.state = "LISTEN"]
    <3>1. s \in Session /\ s.connect = "sent"
      BY <2>1 DEF Session, TcpStates
    <3> HIDE DEF s
    <3>2. CASE sess' = queue_tcp(s, p)
      BY <3>1, <3>2, QueueTcp DEF Kept, Placed
    <3>3. CASE sess' = queue_tcp(write_rst(sess), p)
      BY <2>1, <3>3, QueueTcp, WriteRst
    <3>4. CASE sess' = queue_tcp(sess, p)
      BY <2>1, <2>2, <3>4, QueueTcp DEF Kept, Placed
    <3> QED BY <1>4, <3>2, <3>3, <3>4 DEF Tunnelling, s
  <2> QED BY <2>2, <2>3
<1>5. CASE KnownSession(p)
  BY <1>5, KnownSessionSafe DEF KnownSession, Unaccepted, Safe
<1> QED BY <1>2, <1>3, <1>4, <1>5 DEF handle_tcp

LEMMA AppSendsUntaken ==
    ASSUME IInv, Untaken, NEW flags, "syn" \notin flags,
           NEW seq \in Nat, NEW len \in Nat, NEW off \in Nat,
           AppSends(flags, seq, len, off)
    PROVE  Untaken'
<1>1. PICK a \in 1 .. (IF sess = NoSession THEN app.ack ELSE LocalOff(sess)), w \in Windows :
          /\ handle_tcp(Packet(flags, seq, len, off, a, w))
          /\ app' = [app EXCEPT !.phase = IF "rst" \in flags THEN "gone" ELSE "open",
                                !.nxt = IF len > 0 /\ off + len - 1 > @
                                        THEN off + len - 1 ELSE @,
                                !.fin = @ \/ "fin" \in flags,
                                !.ack = a, !.edge = a + w]
  BY DEF AppSends
<1> DEFINE p == Packet(flags, seq, len, off, a, w)
<1>2. p \in Packets
  <2>1. app.ack \in Nat
    BY DEF IInv, TypeOK, Apps
  <2>2. sess # NoSession => LocalOff(sess) \in Nat
    <3>1. sess # NoSession => sess.local_seq \in SeqNums
      BY SessionOf DEF IInv, Session
    <3> QED BY <3>1, DistType, SeqNumsInt, TcpAssumption DEF LocalOff
  <2>3. a \in Nat /\ w \in Nat
    BY <2>1, <2>2, TcpAssumption
  <2> QED BY <2>3, PacketType DEF IInv
<1>3. ~p.syn
  BY DEF Packet
<1>4. phase = "batch"
  BY DEF AppSends, InBatch
<1>5. sess # NoSession => ~Unanswered(sess)
  BY <1>1, AnsweredFirst
<1>6. app'.phase # "idle"
  BY <1>1 DEF IInv, TypeOK, Apps
<1> HIDE DEF p
<1>7. handle_tcp(p)
  BY <1>1 DEF p
<1> QED BY <1>2, <1>3, <1>4, <1>5, <1>6, <1>7, PacketUntaken

LEMMA AppStepUntaken ==
    ASSUME IInv, Untaken, AppStep
    PROVE  Untaken'
<1>1. app \in Apps
  BY DEF IInv, TypeOK
<1>2. CASE AppSyn
  <2>1. PICK n \in SynData, w \in Windows :
            /\ handle_tcp(Packet({"syn"}, 0, n, 1, 0, w))
            /\ app' = [app EXCEPT !.phase = "syn", !.nxt = IF n > @ THEN n ELSE @]
    BY <1>2 DEF AppSyn
  <2>2. n = 0 /\ w \in Nat /\ phase = "batch" /\ app.phase = "idle"
    BY <1>2, TcpAssumption DEF AppSyn, InBatch, Untaken, SynOnce
  <2> DEFINE p == Packet({"syn"}, 0, n, 1, 0, w)
  <2>3. p \in Packets /\ p.len = 0
    BY <2>2, PacketType DEF IInv, Packet
  <2>4. app'.phase # "idle" /\ sess = NoSession /\ upstream = <<>>
    BY <1>1, <2>1, <2>2 DEF Apps, Untaken
  <2>5. handle_tcp(p)
    BY <2>1
  <2> HIDE DEF p
  <2> QED BY <2>2, <2>3, <2>4, <2>5, PacketUntaken
<1>3. CASE AppData
  <2>1. PICK g \in Segments, flags \in {{"ack"}, {"ack", "fin"}} :
            AppSends(flags, g[1], g[2], g[1])
    BY <1>3 DEF AppData
  <2>2. g[1] \in Nat /\ g[2] \in Nat /\ "syn" \notin flags
    BY TcpAssumption
  <2> QED BY <2>1, <2>2, AppSendsUntaken
<1>4. CASE AppFin \/ AppAck \/ AppReset
  <2> DEFINE next == app.nxt + 1
             after == app.nxt + 1 + (IF app.fin THEN 1 ELSE 0)
  <2>1. next \in Nat /\ after \in Nat
    BY <1>1 DEF Apps
  <2>2. \E flags \in {{"ack"}, {"ack", "fin"}, {"ack", "rst"}} :
            AppSends(flags, next, 0, next) \/ AppSends(flags, after, 0, next)
    BY <1>4 DEF AppFin, AppAck, AppReset
  <2>3. \A flags \in {{"ack"}, {"ack", "fin"}, {"ack", "rst"}} : "syn" \notin flags
    OBVIOUS
  <2> HIDE DEF next, after
  <2> QED BY <2>1, <2>2, <2>3, AppSendsUntaken
<1>5. CASE AppLoses \/ AppSilent
  <2>1. UNCHANGED <<sess, sock, phase, ev, upstream>>
    BY <1>5 DEF AppLoses, AppSilent
  <2>2. app'.phase = "idle" => app.phase = "idle"
    BY <1>1, <1>5 DEF AppLoses, AppSilent, Apps
  <2> QED BY <2>1, <2>2 DEF Untaken, Unaccepted
<1> QED BY <1>2, <1>3, <1>4, <1>5 DEF AppStep

LEMMA OutsideUntaken ==
    ASSUME IInv, Untaken, Network \/ Drain \/ Tick \/ UNCHANGED vars
    PROVE  Untaken'
<1>1. UNCHANGED <<phase, ev, app, upstream>>
  BY DEF Network, Drain, Tick, vars
<1>2. CASE UNCHANGED sess
  BY <1>1, <1>2 DEF Untaken, Unaccepted, Unanswered
<1>3. CASE Tick
  <2>1. sess # NoSession /\ sess \in Session
    BY <1>3, SessionOf DEF Tick, IInv
  <2>2. /\ Kept(sess, sess') /\ sess'.state = sess.state /\ sess'.forward = sess.forward
        /\ sess'.local_seq = sess.local_seq /\ sess'.events = sess.events
    BY <1>3, <2>1 DEF Tick, Session, Kept, Placed
  <2> QED BY <1>1, <2>1, <2>2 DEF Untaken, Unaccepted, Unanswered, Kept, Placed
<1> QED BY <1>2, <1>3 DEF Network, Drain, vars

LEMMA EpollWaitUntaken ==
    ASSUME IInv, Untaken, Watched, EpollWorks, EpollWait
    PROVE  Untaken'
<1>1. UNCHANGED <<sess, app, upstream>> /\ phase = "wait" /\ phase' = "batch"
  BY DEF EpollWait
<1>2. Ready # {} => sock.conn # "none"
  BY ReadyType DEF IInv, TypeOK
<1>3. "OUT" \in ev' => sess # NoSession /\ sess.socket /\ "OUT" \in sess.events
  BY <1>2 DEF EpollWait, IInv, Control, SocketMatchesState, Watched, EpollWorks
<1> QED BY <1>1, <1>3 DEF Untaken, Unaccepted, Unanswered

\* Without an OUT, and with an empty queue, the forward loop sends nothing.
LEMMA NothingSent ==
    ASSUME Transfer, sess.forward = <<>> \/ "OUT" \notin ev
    PROVE  \E taken : upstream' = upstream \o taken /\ taken = <<>>
<1>1. PICK r \in ForwardRuns :
          upstream' = upstream \o FlattenSeq([i \in DOMAIN r |->
                          Taken(sess.port, sess.forward[i], r[i])])
  BY DEF Transfer
<1>2. r = <<>>
  <2>1. CASE "OUT" \notin ev
    BY <1>1, <2>1 DEF ForwardRuns
  <2>2. CASE "OUT" \in ev
    <3>1. Len(sess.forward) = 0
      BY <2>2
    <3>2. PICK m \in 0 .. 0 : \E results : r \in [1 .. m -> results]
      BY <1>1, <2>2, <3>1 DEF ForwardRuns
    <3>3. DOMAIN r = {}
      BY <3>2
    <3> QED BY <3>2, <3>3
  <2> QED BY <2>1, <2>2
<1> DEFINE taken == [i \in DOMAIN r |-> Taken(sess.port, sess.forward[i], r[i])]
<1>3. taken = <<>>
  BY <1>2
<1>4. FlattenSeq(<<>>) = <<>>
  BY DEF FlattenSeq
<1> QED BY <1>1, <1>3, <1>4

LEMMA CheckTcpSocketUntaken ==
    ASSUME IInv, Untaken, check_tcp_socket
    PROVE  Untaken'
<1>1. ev # {} /\ ev' = {} /\ UNCHANGED <<phase, app>> /\ phase = "batch"
  BY DEF check_tcp_socket
<1>2. sess # NoSession /\ sess \in Session
  BY <1>1, EventSession
<1>3. app.phase # "idle"
  BY <1>2 DEF Untaken
<1> SUFFICES ASSUME Unaccepted'
             PROVE  /\ upstream' = <<>>
                    /\ sess'.state = "LISTEN" /\ sess'.connect = "not_sent" => Unanswered(sess')
  BY <1>1, <1>3 DEF Untaken
<1>4. CASE SocketError
  <2>1. Kept(sess, write_rst(sess)) /\ write_rst(sess) \in Session
        /\ write_rst(sess).state # "LISTEN"
    BY <1>2, WriteRst
  <2>2. Unaccepted /\ sess'.state # "LISTEN" /\ upstream' = upstream
    BY <1>2, <1>4, <2>1 DEF SocketError, Kept, Placed, Session, Unaccepted
  <2> QED BY <2>2 DEF Untaken
<1>5. CASE ProxyReply
  <2>1. Kept(sess, write_rst(sess)) /\ write_rst(sess).state # "LISTEN"
    BY <1>2, WriteRst
  <2>2. sess' # [sess EXCEPT !.connect = "established", !.state = "SYN_RECV"]
    BY <1>2 DEF Session, Unaccepted
  <2>3. sess' = write_rst(sess) \/ UNCHANGED sess
    BY <1>5, <2>2 DEF ProxyReply
  <2>4. Unaccepted /\ upstream' = upstream
    BY <1>2, <1>5, <2>1, <2>3 DEF ProxyReply, Kept, Placed, Unaccepted
  <2> QED BY <2>1, <2>3, <2>4 DEF Untaken, Unanswered
<1>6. CASE Connected
  <2>1. Unaccepted /\ sess'.state # "LISTEN" /\ upstream' = upstream
    BY <1>2, <1>6 DEF Connected, Closing, Session, Unaccepted
  <2> QED BY <2>1 DEF Untaken
<1>7. CASE Transfer
  <2>1. PICK s \in Session, k \in Sockets, ok \in BOOLEAN :
            /\ Kept(sess, s) /\ s.state \in {sess.state, "CLOSING"}
            /\ sess' = Read(s, k, ok)[1]
    BY <1>1, <1>7, TransferStep
  <2>2. /\ sess'.port = s.port /\ sess'.connect = s.connect
        /\ sess'.state \in {s.state, "CLOSING", "FIN_WAIT1", "LAST_ACK"}
    BY <2>1, ReadType
  <2>3. Unaccepted /\ sess'.state # "LISTEN"
    BY <1>2, <1>7, <2>1, <2>2 DEF Transfer, Kept, Placed, Unaccepted
  <2>4. upstream = <<>> /\ (sess.forward = <<>> \/ "OUT" \notin ev)
    BY <2>3 DEF Untaken, Unanswered
  <2>5. upstream' = <<>>
    BY <1>7, <2>4, NothingSent
  <2> QED BY <2>3, <2>5
<1> QED BY <1>4, <1>5, <1>6, <1>7 DEF check_tcp_socket

\* What monitor_tcp_session leaves alone, and what it asks epoll for.
LEMMA MonitorArms ==
    ASSUME NEW s \in Session, NEW k, NEW alive, NEW modified
    PROVE  LET t == monitor_tcp_session(s, k, alive, modified)
           IN  t.local_seq = s.local_seq /\ t.events = Wanted(s, k)
<1> DEFINE polled == IF /\ s.state \in {"ESTABLISHED", "CLOSE_WAIT"}
                        /\ get_send_window(s) = 0
                     THEN Written(s, alive) ELSE s
           wanted == Wanted(s, k)
           armed == [polled EXCEPT !.events = wanted,
                                   !.asked = IF modified THEN wanted ELSE @,
                                   !.state = IF modified THEN @ ELSE "CLOSING"]
<1>1. /\ polled.local_seq = s.local_seq /\ polled.events = s.events
      /\ polled \in {s, Closing(s)}
  BY DEF Written, Closing, Session
<1>2. Closing(s) \in Session
  BY ClosingType
<1> HIDE DEF polled, wanted
<1>3. armed.local_seq = polled.local_seq /\ armed.events = wanted
  BY <1>1, <1>2 DEF Session
<1>4. monitor_tcp_session(s, k, alive, modified) = IF wanted = s.events THEN polled ELSE armed
  BY DEF monitor_tcp_session, polled, wanted
<1> HIDE DEF armed
<1> QED BY <1>1, <1>3, <1>4 DEF wanted

LEMMA LoopUntaken ==
    ASSUME IInv, Untaken, NEW due \in BOOLEAN, Loop(due)
    PROVE  Untaken'
<1>1. UNCHANGED <<ev, app, upstream>> /\ ev = {} /\ phase' = "wait"
  BY DEF Loop
<1>2. CASE sess = NoSession
  BY <1>1, <1>2 DEF Loop, Untaken, Unaccepted
<1>3. CASE sess # NoSession
  <2>1. sess \in Session /\ sock \in Sockets
    BY <1>3, SessionOf DEF IInv, TypeOK
  <2>2. PICK alive \in TunResults, n \in SessionCounts,
             modified \in IF "epoll" \in Faults THEN BOOLEAN ELSE {TRUE} :
            LET s == IF sess.socket
                     THEN monitor_tcp_session(sess, sock, alive, modified)
                     ELSE sess
                t == IF due THEN check_tcp_session(s, n) ELSE s
            IN  sess' = IF due /\ Lingered(t) THEN NoSession ELSE t
    BY <1>3 DEF Loop
  <2> DEFINE s == IF sess.socket
                  THEN monitor_tcp_session(sess, sock, alive, modified)
                  ELSE sess
             t == IF due THEN check_tcp_session(s, n) ELSE s
  <2>3. alive \in BOOLEAN /\ modified \in BOOLEAN
    BY DEF TunResults
  <2>4. /\ s \in Session /\ Placed(sess, s) /\ s.forward = sess.forward
        /\ s.state \in {sess.state, "CLOSING"} /\ s.local_seq = sess.local_seq
        /\ sess.socket => s.events = Wanted(sess, sock)
    BY <2>1, <2>3, Monitor, MonitorArms DEF Placed
  <2> HIDE DEF s
  <2>5. /\ t.port = s.port /\ t.connect = s.connect
        /\ \/ t = s
           \/ t.state = "CLOSE" /\ ~t.socket
    BY <2>4, CheckTcpSession
  <2>6. sess' \in {NoSession, t}
    BY <2>2 DEF s
  <2> HIDE DEF t
  <2>7. SUFFICES ASSUME Unaccepted', sess' = t
                 PROVE  /\ upstream = <<>>
                        /\ t.state = "LISTEN" /\ t.connect = "not_sent" => Unanswered(t)
                        /\ Unanswered(t) \/ (t.socket => "OUT" \notin t.events)
    BY <1>1, <1>3, <2>6 DEF Untaken, Unaccepted
  <2>8. Unaccepted
    BY <1>3, <2>4, <2>5, <2>7 DEF Unaccepted, Placed
  <2>9. CASE t.state = "CLOSE" /\ ~t.socket
    BY <2>8, <2>9 DEF Untaken
  <2>10. CASE t = s
    <3>1. Unanswered(sess) => Unanswered(s)
      BY <2>4 DEF Unanswered
    <3>2. ASSUME sess.socket, "OUT" \in s.events
          PROVE  sess.state = "LISTEN" /\ sess.connect = "not_sent"
      <4>1. sess.state \notin {"ESTABLISHED", "CLOSE_WAIT"}
        BY <2>8 DEF Unaccepted, IInv, Control, TunnelStates
      <4>2. "OUT" \in Wanted(sess, sock)
        BY <2>4, <3>2
      <4>3. sess.state = "LISTEN" /\ ~(sess.connect = "sent" /\ sess.port = "https")
        BY <4>1, <4>2 DEF Wanted
      <4> QED BY <2>1, <2>8, <4>3 DEF Session, Unaccepted
    <3> QED BY <2>4, <2>8, <2>10, <3>1, <3>2 DEF Untaken, Placed
  <2> QED BY <2>5, <2>9, <2>10
<1> QED BY <1>2, <1>3

LEMMA NextUntaken == IInv /\ Untaken /\ Watched /\ EpollWorks /\ [Next]_vars => Untaken'
<1> SUFFICES ASSUME IInv, Untaken, Watched, EpollWorks, [Next]_vars PROVE Untaken'
  OBVIOUS
<1>1. CASE Engine
  BY <1>1, EpollWaitUntaken, CheckTcpSocketUntaken, LoopUntaken DEF Engine
<1>2. CASE AppStep
  BY <1>2, AppStepUntaken
<1>3. CASE Network \/ Drain \/ Tick \/ UNCHANGED vars
  BY <1>3, OutsideUntaken
<1> QED BY <1>1, <1>2, <1>3 DEF Next

\* For an app that sends its SYN once and without data, and as long as epoll_ctl
\* does not fail: on port 443 nothing the app sends reaches the proxy, and no
\* state in which it could is reached, before the proxy has accepted the CONNECT,
\* whatever is in the batch when the CONNECT is sent.
THEOREM NothingBeforeTunnel ==
    ASSUME EpollWorks
    PROVE  SynOnce /\ Spec => []TunnelFirst
<1>1. Init /\ SynOnce => IInv /\ Untaken
  BY InitInv, InitUntaken
<1>2. IInv /\ Watched /\ Untaken /\ [Next]_vars => (IInv /\ Untaken)'
  BY NextInv, NextUntaken
<1>3. IInv /\ Untaken => TunnelFirst
  BY DEF IInv, Control, TunnelStates, Untaken, Unaccepted, TunnelFirst
<1> QED BY <1>1, <1>2, <1>3, WatchedHolds, PTL DEF Spec

=============================================================================
