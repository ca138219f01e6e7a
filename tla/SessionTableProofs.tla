-------------------------- MODULE SessionTableProofs --------------------------
(***************************************************************************)
(* Proofs about SessionTable: the list of sessions, its sockets and the    *)
(* events of a batch belong together, a flow has one session, and an idle  *)
(* one is closed in time; for any number of addresses, flows, sessions and *)
(* datagrams, and any timeouts.                                            *)
(***************************************************************************)
EXTENDS SessionTable, FiniteSetTheorems, SequenceTheorems, WellFoundedInduction, TLAPS

-----------------------------------------------------------------------------
\* The invariant.

\* A session has a socket until it is closed.
SocketUntilClosed ==
    \A i \in DOMAIN sessions : sessions[i].socket = (sessions[i].state # "CLOSED")

WatchedIsOpen == \A i \in Ids : sock[i].watched # "no" => sock[i].open

\* The epoll of the engine was asked to take the socket of a session that takes
\* packets.
Registered == phase # "off" => \A i \in Active : sock[i].watched # "no"

\* It has taken every one.
NoneRefused == \A i \in Ids : sock[i].watched # "failed"

\* Outside of a batch there are no events.
NoOldEvents == phase # "batch" => DOMAIN batch = {}

\* Right after a check every session is within its timeout.
CheckedInTime ==
    phase # "off" /\ checked => \A i \in Active : sessions[i].age <= Timeout(sessions[i].flow)

\* The sleep ends before the first session is overdue.
SleepsInTime ==
    phase = "wait" =>
        IF recheck THEN wait = 0
        ELSE \A i \in Active : sessions[i].age + wait <= Timeout(sessions[i].flow) + 1

\* What waits at the socket of a ping is replies to its requests, and for its
\* event there is one.
Replies ==
    /\ \A i \in DOMAIN sessions :
          sessions[i].flow \in Pings => sessions[i].id \in EchoIds /\ sock[i].inbox \in Seq(EchoIds)
    /\ \A e \in DOMAIN batch \ {"tun"} :
          sessions[e].flow \in Pings /\ ~batch[e] => sock[e].inbox # <<>>

Belong == EventsHaveSessions /\ SocketsAccounted /\ SocketUntilClosed /\ WatchedIsOpen /\ NoOldEvents

InTime == CheckedInTime /\ SleepsInTime /\ IdleClosedInTime

IInv == TypeOK /\ Belong /\ Replies /\ OneSessionPerFlow /\ Registered /\ InTime

-----------------------------------------------------------------------------
\* Arithmetic.

LEMMA TimeoutType == \A f : Timeout(f) \in Nat /\ Timeout(f) + 1 < MaxAge
  BY TableAssumption DEF Timeout

LEMMA Shrinks == ASSUME NEW t \in Nat, NEW q \in Nat
                 PROVE  t * (100 - q) \in Int /\ t * (100 - q) <= 100 * t
<1>1. t * q \in Nat
  OBVIOUS
<1>2. t * (100 - q) = 100 * t - t * q
  OBVIOUS
<1>q. QED
  BY <1>1, <1>2

\* Load never makes a timeout longer.
LEMMA ScaledType == ASSUME NEW f, NEW n \in Nat
                    PROVE  Scaled(f, n) \in Int /\ Scaled(f, n) <= Timeout(f)
<1> DEFINE q == (n * 100) \div MaxSessions
           p == Timeout(f) * (100 - q)
<1>1. n * 100 \in Nat /\ MaxSessions \in Nat /\ MaxSessions > 0
  BY TableAssumption
<1>2. q \in Nat
  BY <1>1
<1>3. Timeout(f) \in Nat
  BY TimeoutType
<1> HIDE DEF q
<1>4. p \in Int /\ p <= 100 * Timeout(f)
  BY <1>2, <1>3, Shrinks
<1>5. Scaled(f, n) = IF p >= 0 THEN p \div 100 ELSE -((-p) \div 100)
  BY DEF Scaled, q
<1> HIDE DEF p
<1>q. QED
  BY <1>3, <1>4, <1>5

LEMMA LeastOf == ASSUME NEW S \in SUBSET Nat, S # {}
                 PROVE  Least(S) \in S /\ \A n \in S : Least(S) <= n
<1>1. PICK m \in S : \A n \in S : ~(<<n, m>> \in OpToRel(<, Nat))
  BY NatLessThanWellFounded, WFMin, Zenon
<1>2. \A x \in Nat \X Nat : x[1] < x[2] => x \in OpToRel(<, Nat)
  BY DEF OpToRel
<1>3. ASSUME NEW n \in S PROVE m <= n
  <2>1. <<n, m>> \in Nat \X Nat /\ <<n, m>>[1] = n /\ <<n, m>>[2] = m
    OBVIOUS
  <2>2. ~(n < m)
    BY <1>1, <1>2, <2>1
  <2>q. QED
    BY <2>2
<1>q. QED
  BY <1>3 DEF Least

\* The loop sleeps no longer than the first session that is not overdue allows.
LEMMA SleepType ==
  ASSUME NEW n \in Nat, NEW left \in SUBSET DOMAIN sessions, TypeOK
  PROVE  /\ Sleep(n, left) \in Nat
         /\ \A i \in left : sessions[i].age <= Scaled(sessions[i].flow, n) =>
                sessions[i].age + Sleep(n, left) <= Timeout(sessions[i].flow) + 1
<1> DEFINE T == {Scaled(sessions[i].flow, n) - sessions[i].age + 1 : i \in left}
           S == {EpollTimeout} \cup {t \in T : t > 0}
<1>1. \A i \in left : sessions[i].age \in Nat
  BY TableAssumption DEF TypeOK, Session
<1>2. T \subseteq Int
  BY <1>1, ScaledType
<1>3. S \in SUBSET Nat /\ S # {}
  BY <1>2, TableAssumption
<1>4. Sleep(n, left) = Least(S)
  BY DEF Sleep
<1>5. Least(S) \in Nat /\ \A t \in S : Least(S) <= t
  BY <1>3, LeastOf
<1>6. ASSUME NEW i \in left, sessions[i].age <= Scaled(sessions[i].flow, n)
      PROVE  sessions[i].age + Sleep(n, left) <= Timeout(sessions[i].flow) + 1
  <2> DEFINE t == Scaled(sessions[i].flow, n) - sessions[i].age + 1
  <2>1. t \in T /\ t \in Int /\ t > 0
    BY <1>1, <1>6, ScaledType
  <2>2. Least(S) <= t
    BY <2>1, <1>5
  <2>q. QED
    BY <2>2, <1>1, <1>4, <1>5, ScaledType, TimeoutType
<1>q. QED
  BY <1>4, <1>5, <1>6

-----------------------------------------------------------------------------
\* The packets of the app and the events of sockets: a step of one session.

\* Session i is opened, for a flow that has none that stands in its way, or goes
\* on; its socket is open, its time is now, and nothing else changes.
Handles(i) ==
    /\ i \in Ids
    /\ DOMAIN sessions' = DOMAIN sessions \cup {i}
    /\ \A j \in DOMAIN sessions \ {i} : sessions'[j] = sessions[j]
    /\ sessions'[i] \in Session
    /\ sessions'[i].socket /\ sessions'[i].state # "CLOSED" /\ sessions'[i].age = 0
    /\ sock' \in [Ids -> Socket]
    /\ \A j \in Ids \ {i} : sock'[j] = sock[j]
    /\ sock'[i].open
    /\ sessions'[i].flow \in Pings => sessions'[i].id \in EchoIds /\ sock'[i].inbox \in Seq(EchoIds)
    /\ \/ i \notin DOMAIN batch' \/ sessions'[i].flow \notin Pings
       \/ i \notin DOMAIN batch \/ sock'[i].inbox = sock[i].inbox
    /\ \/ /\ i \in DOMAIN sessions
          /\ sessions'[i].flow = sessions[i].flow /\ sock'[i].watched = sock[i].watched
          /\ sessions'[i].state = "ACTIVE" => sessions[i].state = "ACTIVE"
       \/ /\ i \notin DOMAIN sessions /\ sock'[i].watched # "no"
          /\ \A j \in DOMAIN sessions :
                sessions[j].flow = sessions'[i].flow =>
                    sessions[j].flow \notin UdpFlows /\ sessions[j].state # "ACTIVE"

\* Of the batch at most what was handled is gone.
Handling ==
    /\ phase = "batch" /\ UNCHANGED <<phase, count, checked, recheck, wait>>
    /\ DOMAIN batch' \subseteq DOMAIN batch /\ \A e \in DOMAIN batch' : batch'[e] = batch[e]
    /\ echo' \in {<<>>} \cup (EchoIds \X EchoIds)

LEMMA HandlesInv ==
  ASSUME IInv, NEW i, Handles(i), Handling
  PROVE  IInv'
<1> USE DEF Handles
<1>1. TypeOK'
  BY DEF IInv, TypeOK, Handling
<1>2. EventsHaveSessions'
  BY DEF IInv, Belong, EventsHaveSessions, Handling
<1>3. SocketsAccounted'
  BY DEF IInv, Belong, SocketsAccounted
<1>4. SocketUntilClosed'
  BY DEF IInv, Belong, SocketUntilClosed
<1>5. WatchedIsOpen'
  BY DEF IInv, Belong, WatchedIsOpen
<1>6. NoOldEvents'
  BY DEF NoOldEvents, Handling
<1>7. OneSessionPerFlow'
  BY DEF IInv, OneSessionPerFlow, Active
<1>8. Registered'
  <2>1. \A j \in Active : sock[j].watched # "no"
    BY DEF IInv, Registered, Handling
  <2>2. \A j \in Active' : j = i \/ j \in Active
    BY DEF Active
  <2>3. \A j \in Active' : j \in Ids
    BY DEF IInv, TypeOK, Active
  <2>4. i \in DOMAIN sessions /\ i \in Active' => i \in Active
    BY DEF Active
  <2>q. QED
    BY <2>1, <2>2, <2>3, <2>4 DEF Registered
<1>9. InTime'
  <2>1. \A j \in Active' : j = i \/ (j \in Active /\ sessions'[j] = sessions[j])
    BY DEF Active
  <2>q. QED
    BY <2>1, TimeoutType DEF IInv, InTime, CheckedInTime, SleepsInTime, IdleClosedInTime, Handling
<1>10. Replies'
  <2>1. ASSUME NEW j \in DOMAIN sessions', sessions'[j].flow \in Pings
        PROVE  sessions'[j].id \in EchoIds /\ sock'[j].inbox \in Seq(EchoIds)
    BY <2>1 DEF IInv, Replies, TypeOK
  <2>2. ASSUME NEW e \in DOMAIN batch' \ {"tun"}, sessions'[e].flow \in Pings, ~batch'[e]
        PROVE  sock'[e].inbox # <<>>
    <3>1. /\ e \in DOMAIN batch \ {"tun"} /\ batch'[e] = batch[e]
          /\ e \in DOMAIN sessions /\ e \in Ids
      BY DEF Handling, IInv, Belong, EventsHaveSessions, TypeOK
    <3>2. sessions'[e].flow = sessions[e].flow
      BY <3>1
    <3>3. sock[e].inbox # <<>>
      BY <2>2, <3>1, <3>2 DEF IInv, Replies
    <3>q. QED
      BY <2>2, <3>1, <3>3
  <2>q. QED
    BY <2>1, <2>2 DEF Replies
<1>q. QED
  BY <1>1, <1>2, <1>3, <1>4, <1>5, <1>6, <1>7, <1>8, <1>9, <1>10 DEF IInv, Belong

\* A packet was sent over a session.
LEMMA SentType ==
  ASSUME NEW s \in Session, s.state = "ACTIVE", NEW t \in SentOutcomes(s)
  PROVE  /\ t \in Session /\ t.flow = s.flow /\ t.socket = s.socket /\ t.id = s.id
         /\ t.state # "CLOSED" /\ t.age = 0
<1>1. 0 \in 0 .. MaxAge
  BY TableAssumption
<1>2. CASE t = [s EXCEPT !.age = 0]
  BY <1>1, <1>2 DEF Session
<1>3. CASE t = [s EXCEPT !.age = 0, !.state = "FINISHING"]
  BY <1>1, <1>3 DEF Session
<1>q. QED
  BY <1>2, <1>3 DEF SentOutcomes

LEMMA NewType ==
  ASSUME NEW f \in Flows, NEW e \in EchoIds \cup {0}
  PROVE  /\ New(f, e) \in Session /\ New(f, e).flow = f /\ New(f, e).socket /\ New(f, e).id = e
         /\ New(f, e).state = "ACTIVE"
<1>1. 0 \in 0 .. MaxAge
  BY TableAssumption
<1>q. QED
  BY <1>1 DEF New, Session

LEMMA NewSocketType ==
  ASSUME NEW k \in NewSockets, NEW A \in SUBSET EchoIds
  PROVE  LET n == [k EXCEPT !.asked = A]
         IN  n \in Socket /\ n.open /\ n.watched # "no" /\ n.inbox = <<>>
<1>1. NoSocket \in Socket
  BY DEF NoSocket, Socket
<1>2. PICK w \in {"yes", "failed"} : k = [NoSocket EXCEPT !.open = TRUE, !.watched = w]
  BY DEF NewSockets
<1>3. k \in Socket /\ k.open /\ k.watched # "no" /\ k.inbox = <<>>
  BY <1>1, <1>2 DEF Socket, NoSocket
<1>q. QED
  BY <1>3 DEF Socket

\* A new session.
LEMMA OpensHandles ==
  ASSUME IInv, NEW f \in Flows, NEW e \in EchoIds \cup {0}, Opens(f, e),
         f \in Pings => e \in EchoIds,
         \A j \in DOMAIN sessions :
            sessions[j].flow = f => f \notin UdpFlows /\ sessions[j].state # "ACTIVE"
  PROVE  \E i : Handles(i)
<1>1. PICK i \in Ids \ DOMAIN sessions, k \in NewSockets, s \in SentOutcomes(New(f, e)) :
        /\ sessions' = With(sessions, i, s)
        /\ sock' = [sock EXCEPT ![i] = [k EXCEPT !.asked = IF e = 0 THEN {} ELSE {e}]]
  BY DEF Opens
<1>2. s \in Session /\ s.flow = f /\ s.socket /\ s.state # "CLOSED" /\ s.age = 0 /\ s.id = e
  <2>1. /\ New(f, e) \in Session /\ New(f, e).flow = f /\ New(f, e).socket /\ New(f, e).id = e
        /\ New(f, e).state = "ACTIVE"
    BY NewType
  <2>q. QED
    BY <2>1, SentType
<1> DEFINE A == IF e = 0 THEN {} ELSE {e}
           new == [k EXCEPT !.asked = A]
<1>5. new \in Socket /\ new.open /\ new.watched # "no" /\ new.inbox = <<>>
  <2>1. A \in SUBSET EchoIds
    OBVIOUS
  <2> HIDE DEF A
  <2>q. QED
    BY <2>1, NewSocketType
<1> HIDE DEF new
<1>6. sock \in [Ids -> Socket] /\ sock' = [sock EXCEPT ![i] = new]
  BY <1>1 DEF IInv, TypeOK, new
<1>7. /\ DOMAIN sessions' = DOMAIN sessions \cup {i} /\ sessions'[i] = s
      /\ \A j \in DOMAIN sessions \ {i} : sessions'[j] = sessions[j]
  BY <1>1 DEF With
<1>8. sock'[i] = new /\ sock' \in [Ids -> Socket] /\ \A j \in Ids \ {i} : sock'[j] = sock[j]
  BY <1>5, <1>6
<1>9. \A j \in DOMAIN sessions :
        sessions[j].flow = sessions'[i].flow =>
            sessions[j].flow \notin UdpFlows /\ sessions[j].state # "ACTIVE"
  BY <1>2, <1>7
<1>10. sock'[i].inbox \in Seq(EchoIds)
  BY <1>5, <1>8, EmptySeq
<1>11. i \notin DOMAIN batch
  <2>1. i # "tun"
    BY TableAssumption
  <2>q. QED
    BY <2>1 DEF IInv, Belong, EventsHaveSessions
<1>q. QED
  BY <1>2, <1>5, <1>7, <1>8, <1>9, <1>10, <1>11 DEF Handles

\* A session that is active goes on.
LEMMA SendsHandles ==
  ASSUME IInv, NEW i \in Active, NEW e \in EchoIds \cup {0}, Sends(i, e)
  PROVE  Handles(i)
<1>1. PICK s \in SentOutcomes(sessions[i]) :
        /\ sessions' = With(sessions, i, s)
        /\ sock' = [sock EXCEPT ![i].asked = @ \cup (IF e = 0 THEN {} ELSE {e})]
  BY DEF Sends
<1>2. i \in DOMAIN sessions /\ sessions[i].state = "ACTIVE" /\ sessions[i] \in Session
  BY DEF Active, IInv, TypeOK
<1>3. sessions[i].socket /\ i \in Ids /\ sock[i].open
  BY <1>2 DEF IInv, Belong, SocketUntilClosed, SocketsAccounted, TypeOK
<1>4. /\ s \in Session /\ s.flow = sessions[i].flow /\ s.socket = sessions[i].socket /\ s.id = sessions[i].id
      /\ s.state # "CLOSED" /\ s.age = 0
  BY <1>2, SentType
<1> DEFINE x == [sock[i] EXCEPT !.asked = @ \cup (IF e = 0 THEN {} ELSE {e})]
<1>5. sock \in [Ids -> Socket] /\ sock[i] \in Socket
  BY <1>3 DEF IInv, TypeOK
<1>6. x \in Socket /\ x.open = sock[i].open /\ x.watched = sock[i].watched /\ x.inbox = sock[i].inbox
  BY <1>5 DEF Socket
<1>7. sock' = [sock EXCEPT ![i] = x]
  BY <1>1
<1> HIDE DEF x
<1>8. /\ DOMAIN sessions' = DOMAIN sessions \cup {i} /\ sessions'[i] = s
      /\ \A j \in DOMAIN sessions \ {i} : sessions'[j] = sessions[j]
  BY <1>1 DEF With
<1>9. sessions[i].flow \in Pings => sessions[i].id \in EchoIds /\ sock[i].inbox \in Seq(EchoIds)
  BY <1>2 DEF IInv, Replies
<1>q. QED
  BY <1>2, <1>3, <1>4, <1>5, <1>6, <1>7, <1>8, <1>9 DEF Handles

LEMMA PacketInv ==
  ASSUME IInv, NEW f \in Flows, PacketOf(f), UNCHANGED <<phase, batch, loop, echo>>
  PROVE  Handling
  BY DEF IInv, TypeOK, PacketOf, Handling, loop

LEMMA UdpPacketInv ==
  ASSUME IInv, NEW f \in UdpFlows, handle_udp(f)
  PROVE  IInv'
<1>1. f \in Flows /\ 0 \in EchoIds \cup {0}
  BY DEF Flows
<1>2. Handling
  BY <1>1, PacketInv DEF handle_udp
<1>3. CASE UdpSessions(f) = {}
  <2>1. \A j \in DOMAIN sessions : sessions[j].flow # f
    BY <1>3 DEF UdpSessions
  <2>q. QED
    BY <1>1, <1>2, <1>3, <2>1, OpensHandles, HandlesInv, TableAssumption DEF handle_udp
<1>4. CASE UdpSessions(f) # {}
  <2>1. PICK i \in Active : Sends(i, 0)
    BY <1>4 DEF handle_udp
  <2>q. QED
    BY <1>1, <1>2, <2>1, SendsHandles, HandlesInv
<1>q. QED
  BY <1>3, <1>4

LEMMA PingInv ==
  ASSUME IInv, NEW f \in Pings, NEW e \in EchoIds, handle_icmp(f, e)
  PROVE  IInv'
<1> DEFINE own == {i \in Active : sessions[i].flow = f}
<1>1. f \in Flows /\ f \notin UdpFlows /\ e \in EchoIds \cup {0}
  BY TableAssumption DEF Flows
<1>2. Handling
  BY <1>1, PacketInv DEF handle_icmp
<1>3. CASE own = {}
  <2>1. \A j \in DOMAIN sessions : sessions[j].flow = f => sessions[j].state # "ACTIVE"
    BY <1>3 DEF Active
  <2>q. QED
    BY <1>1, <1>2, <1>3, <2>1, OpensHandles, HandlesInv DEF handle_icmp
<1>4. CASE own # {}
  <2>1. PICK i \in Active : Sends(i, e)
    BY <1>4 DEF handle_icmp
  <2>q. QED
    BY <1>1, <1>2, <2>1, SendsHandles, HandlesInv
<1>q. QED
  BY <1>3, <1>4

\* An event of a socket.
LEMMA EventOf ==
  ASSUME IInv, NEW i \in DOMAIN batch \ {"tun"}
  PROVE  /\ i \in DOMAIN sessions /\ i \in Ids /\ sessions[i] \in Session /\ sock[i] \in Socket
         /\ sessions[i].socket /\ sessions[i].state # "CLOSED" /\ sock[i].open
  BY DEF IInv, TypeOK, Belong, EventsHaveSessions, SocketUntilClosed, SocketsAccounted

\* The handler of an event sets the session's time and perhaps its state, and
\* leaves its socket open.
LEMMA EventHandles ==
  ASSUME IInv, NEW i \in DOMAIN batch \ {"tun"}, NEW st \in {"FINISHING", sessions[i].state},
         sessions' = [sessions EXCEPT ![i] = [sessions[i] EXCEPT !.state = st, !.age = 0]],
         NEW x \in Socket, x.open, x.watched = sock[i].watched, sock' = [sock EXCEPT ![i] = x],
         sessions[i].flow \in Pings => x.inbox \in Seq(EchoIds) /\ i \notin DOMAIN batch'
  PROVE  Handles(i)
<1>1. 0 \in 0 .. MaxAge
  BY TableAssumption
<1> DEFINE s == [sessions[i] EXCEPT !.state = st, !.age = 0]
<1>2. /\ s \in Session /\ s.flow = sessions[i].flow /\ s.socket = sessions[i].socket
      /\ s.id = sessions[i].id /\ s.state = st /\ s.age = 0
  <2>1. sessions[i] \in Session
    BY EventOf
  <2>2. st \in {"ACTIVE", "FINISHING", "CLOSED"}
    BY <2>1 DEF Session
  <2>q. QED
    BY <1>1, <2>1, <2>2 DEF Session
<1> HIDE DEF s
<1>3. /\ DOMAIN sessions' = DOMAIN sessions /\ sessions'[i] = s
      /\ \A j \in DOMAIN sessions \ {i} : sessions'[j] = sessions[j]
  BY EventOf DEF s
<1>4. /\ sock' \in [Ids -> Socket] /\ sock'[i] = x
      /\ \A j \in Ids \ {i} : sock'[j] = sock[j]
  BY EventOf DEF IInv, TypeOK
<1>5. st # "CLOSED" /\ (st = "ACTIVE" => sessions[i].state = "ACTIVE")
  BY EventOf
<1>6. s.socket /\ i \in DOMAIN sessions /\ i \in Ids
  BY <1>2, EventOf
<1>7. sessions[i].flow \in Pings => sessions[i].id \in EchoIds
  BY <1>6 DEF IInv, Replies
<1>8. /\ i \in Ids /\ DOMAIN sessions' = DOMAIN sessions \cup {i}
      /\ sessions'[i] \in Session /\ sessions'[i].socket
      /\ sessions'[i].state # "CLOSED" /\ sessions'[i].age = 0
  BY <1>2, <1>3, <1>5, <1>6
<1>9. sock'[i].open /\ sock'[i].watched = sock[i].watched
  BY <1>4
<1>10. sessions'[i].flow \in Pings =>
           /\ sessions'[i].id \in EchoIds /\ sock'[i].inbox \in Seq(EchoIds)
           /\ i \notin DOMAIN batch'
  BY <1>2, <1>3, <1>4, <1>7
<1>11. /\ sessions'[i].flow = sessions[i].flow
       /\ sessions'[i].state = "ACTIVE" => sessions[i].state = "ACTIVE"
  BY <1>2, <1>3, <1>5
<1>q. QED
  BY <1>3, <1>4, <1>6, <1>8, <1>9, <1>10, <1>11, Zenon DEF Handles

LEMMA DatagramInv ==
  ASSUME IInv, NEW i \in Ids, check_udp_socket(i)
  PROVE  IInv'
<1>1. i \in DOMAIN batch \ {"tun"} /\ sock[i].inbox # <<>> /\ sock[i].inbox \in Seq(Nat)
  BY EventOf DEF check_udp_socket, Socket
<1>2. PICK st \in UdpReceived(sessions[i]) :
        sessions' = [sessions EXCEPT ![i].state = st, ![i].age = 0]
  BY DEF check_udp_socket
<1>3. st \in {"FINISHING", sessions[i].state}
  BY <1>2 DEF UdpReceived
<1>4. sessions' = [sessions EXCEPT ![i] = [sessions[i] EXCEPT !.state = st, !.age = 0]]
  BY <1>1, <1>2, EventOf
<1> DEFINE x == [sock[i] EXCEPT !.inbox = Tail(@)]
<1>5. x \in Socket /\ x.open /\ x.watched = sock[i].watched
  <2>1. Tail(sock[i].inbox) \in Seq(Nat)
    BY <1>1, HeadTailProperties
  <2>2. sock[i] \in Socket /\ sock[i].open
    BY <1>1, EventOf
  <2>q. QED
    BY <2>1, <2>2 DEF Socket
<1>6. sock' = [sock EXCEPT ![i] = x]
  BY DEF check_udp_socket
<1>7. sessions[i].flow \notin Pings
  BY TableAssumption DEF check_udp_socket
<1> HIDE DEF x
<1>8. Handles(i)
  BY <1>1, <1>3, <1>4, <1>5, <1>6, <1>7, EventHandles
<1>9. Handling
  BY DEF check_udp_socket, Handling, loop, IInv, TypeOK
<1>q. QED
  BY <1>8, <1>9, HandlesInv

\* The reply of the session is taken from its inbox, and there is one.
LEMMA ReplyOf ==
  ASSUME IInv, NEW i \in DOMAIN batch \ {"tun"}, sessions[i].flow \in Pings, ~batch[i]
  PROVE  /\ Head(sock[i].inbox) \in EchoIds /\ sessions[i].id \in EchoIds
         /\ Tail(sock[i].inbox) \in Seq(EchoIds) /\ Tail(sock[i].inbox) \in Seq(Nat)
<1>1. sock[i].inbox \in Seq(EchoIds) /\ sock[i].inbox # <<>> /\ sessions[i].id \in EchoIds
  BY EventOf DEF IInv, Replies
<1>2. sock[i].inbox \in Seq(Nat)
  BY EventOf DEF Socket
<1>q. QED
  BY <1>1, <1>2, HeadTailProperties

LEMMA ReplyInv ==
  ASSUME IInv, NEW i \in Ids, check_icmp_socket(i)
  PROVE  IInv'
<1>1. /\ i \in DOMAIN batch \ {"tun"} /\ sessions[i].flow \in Pings /\ phase = "batch"
      /\ batch' = Without(batch, {i}) /\ UNCHANGED <<phase, count, checked, recheck, wait>>
  BY DEF check_icmp_socket, loop
<1>2. DOMAIN batch' = DOMAIN batch \ {i} /\ \A e \in DOMAIN batch' : batch'[e] = batch[e]
  BY <1>1 DEF Without
<1>3. sessions[i] = [sessions[i] EXCEPT !.state = @] /\ sock[i] \in Socket /\ sock[i].open
  BY <1>1, EventOf DEF Session
<1>4. sock[i].inbox \in Seq(EchoIds)
  BY <1>1, EventOf DEF IInv, Replies
<1>5. CASE batch[i]
  <2> DEFINE x == [sock[i] EXCEPT !.err = FALSE]
  <2>1. x \in Socket /\ x.open /\ x.watched = sock[i].watched /\ x.inbox = sock[i].inbox
    BY <1>3 DEF Socket
  <2>2. sock' = [sock EXCEPT ![i] = x] /\ UNCHANGED echo
    BY <1>5 DEF check_icmp_socket
  <2>3. sessions' = [sessions EXCEPT ![i] = [sessions[i] EXCEPT !.state = "FINISHING", !.age = 0]]
    BY <1>5 DEF check_icmp_socket
  <2> HIDE DEF x
  <2>4. Handles(i)
    BY <1>1, <1>2, <1>4, <2>1, <2>2, <2>3, EventHandles
  <2>5. Handling
    BY <1>1, <1>2, <2>2 DEF Handling, IInv, TypeOK
  <2>q. QED
    BY <2>4, <2>5, HandlesInv
<1>6. CASE ~batch[i]
  <2> DEFINE x == [sock[i] EXCEPT !.inbox = Tail(@)]
  <2>1. x \in Socket /\ x.open /\ x.watched = sock[i].watched /\ x.inbox \in Seq(EchoIds)
    <3>1. Tail(sock[i].inbox) \in Seq(Nat) /\ Tail(sock[i].inbox) \in Seq(EchoIds)
      BY <1>1, <1>6, ReplyOf
    <3>q. QED
      BY <1>3, <3>1 DEF Socket
  <2>2. sock' = [sock EXCEPT ![i] = x]
    BY <1>6 DEF check_icmp_socket
  <2>3. PICK st \in {"FINISHING", sessions[i].state} :
          sessions' = [sessions EXCEPT ![i] = [sessions[i] EXCEPT !.state = st, !.age = 0]]
    <3>1. CASE sessions' = [sessions EXCEPT ![i].age = 0]
      <4>1. [sessions[i] EXCEPT !.age = 0] = [sessions[i] EXCEPT !.state = sessions[i].state, !.age = 0]
        BY <1>1, EventOf DEF Session
      <4>q. QED
        BY <3>1, <4>1
    <3>2. CASE sessions' = [sessions EXCEPT ![i].state = "FINISHING", ![i].age = 0]
      BY <3>2
    <3>q. QED
      BY <1>6, <3>1, <3>2 DEF check_icmp_socket
  <2>4. echo' \in {<<>>} \cup (EchoIds \X EchoIds)
    <3>1. CASE echo' = <<Head(sock[i].inbox), sessions[i].id>>
      BY <1>1, <1>6, <3>1, ReplyOf
    <3>2. CASE echo' = echo
      BY <3>2 DEF IInv, TypeOK
    <3>q. QED
      BY <1>6, <3>1, <3>2 DEF check_icmp_socket
  <2> HIDE DEF x
  <2>5. Handles(i)
    BY <1>1, <1>2, <2>1, <2>2, <2>3, EventHandles
  <2>6. Handling
    BY <1>1, <1>2, <2>4 DEF Handling
  <2>q. QED
    BY <2>5, <2>6, HandlesInv
<1>q. QED
  BY <1>5, <1>6

\* An event is taken out of the batch, with nothing done.
LEMMA TakenInv ==
  ASSUME IInv, NEW e, batch' = Without(batch, {e}), phase = "batch",
         UNCHANGED <<sessions, sock, phase, loop, echo>>
  PROVE  IInv'
<1>1. DOMAIN batch' \subseteq DOMAIN batch /\ \A d \in DOMAIN batch' : batch'[d] = batch[d]
  BY DEF Without
<1>2. UNCHANGED <<sessions, sock, phase, count, checked, recheck, wait, echo>>
  BY DEF loop
<1>3. TypeOK'
  BY <1>1, <1>2 DEF IInv, TypeOK
<1>4. Belong'
  <2>1. EventsHaveSessions'
    BY <1>1, <1>2 DEF IInv, Belong, EventsHaveSessions
  <2>2. SocketsAccounted' /\ SocketUntilClosed' /\ WatchedIsOpen'
    BY <1>2 DEF IInv, Belong, SocketsAccounted, SocketUntilClosed, WatchedIsOpen
  <2>3. NoOldEvents'
    BY <1>2 DEF NoOldEvents
  <2>q. QED
    BY <2>1, <2>2, <2>3 DEF Belong
<1>5. Active' = Active
  BY <1>2 DEF Active
<1>6. Replies'
  BY <1>1, <1>2 DEF IInv, Replies
<1>7. OneSessionPerFlow' /\ Registered' /\ InTime'
  BY <1>2, <1>5 DEF IInv, OneSessionPerFlow, Registered, InTime, CheckedInTime, SleepsInTime,
                    IdleClosedInTime
<1>q. QED
  BY <1>3, <1>4, <1>6, <1>7 DEF IInv

-----------------------------------------------------------------------------
\* The loop.

LEMMA InitInv == Init => IInv
<1> SUFFICES ASSUME Init PROVE IInv
  OBVIOUS
<1>1. DOMAIN sessions = {} /\ DOMAIN batch = {}
  BY DEF Init, Empty
<1>2. NoSocket \in Socket
  BY DEF NoSocket, Socket
<1>3. sock \in [Ids -> Socket] /\ \A i \in Ids : sock[i].open = FALSE /\ sock[i].watched = "no"
  BY <1>2 DEF Init, NoSocket
<1>4. TypeOK
  BY <1>1, <1>3 DEF Init, TypeOK
<1>5. Belong
  BY <1>1, <1>3 DEF Belong, EventsHaveSessions, SocketsAccounted, SocketUntilClosed, WatchedIsOpen,
                    NoOldEvents
<1>6. Replies /\ OneSessionPerFlow /\ Registered /\ InTime
  BY <1>1 DEF Replies, OneSessionPerFlow, Registered, InTime, CheckedInTime, SleepsInTime,
              IdleClosedInTime, Init
<1>q. QED
  BY <1>4, <1>5, <1>6 DEF IInv

\* The number of sessions that are active.
LEMMA CountType == TypeOK => Cardinality(Active) \in Nat
<1> SUFFICES ASSUME TypeOK PROVE Cardinality(Active) \in Nat
  OBVIOUS
<1>1. Active \in SUBSET Ids /\ IsFiniteSet(Ids)
  BY TableAssumption DEF TypeOK, Active
<1>q. QED
  BY <1>1, FS_Subset, FS_CardinalityType

LEMMA LoopUncheckedInv ==
  ASSUME IInv, Loop, checked
  PROVE  IInv'
<1>1. /\ phase = "loop" /\ phase' = "wait" /\ recheck' /\ checked' /\ wait' = 0
      /\ UNCHANGED <<sessions, sock, batch, echo>>
  BY DEF Loop, IInv, TypeOK
<1>2. count' \in Nat
  BY CountType DEF Loop, IInv
<1>3. TypeOK'
  BY <1>1, <1>2 DEF IInv, TypeOK
<1>4. Belong'
  BY <1>1 DEF IInv, Belong, EventsHaveSessions, SocketsAccounted, SocketUntilClosed,
              WatchedIsOpen, NoOldEvents
<1>5. Active' = Active
  BY <1>1 DEF Active
<1>6. Replies' /\ OneSessionPerFlow' /\ Registered' /\ InTime'
  BY <1>1, <1>5 DEF IInv, Replies, OneSessionPerFlow, Registered, InTime, CheckedInTime, SleepsInTime,
                    IdleClosedInTime
<1>q. QED
  BY <1>3, <1>4, <1>6 DEF IInv

LEMMA LoopCheckedInv ==
  ASSUME IInv, Loop, ~checked
  PROVE  IInv'
<1> DEFINE closed == {i \in DOMAIN sessions : Closes(sessions[i], count')}
           freed == {i \in DOMAIN sessions : Frees(sessions[i], count')}
<1>1. /\ phase = "loop" /\ phase' = "wait" /\ recheck' = FALSE /\ checked' = TRUE
      /\ UNCHANGED <<batch, echo>>
  BY DEF Loop, IInv, TypeOK
<1>2. count' \in Nat
  BY CountType DEF Loop, IInv
<1>3. sessions' = [i \in DOMAIN sessions \ freed |->
                      IF i \in closed THEN Closed(sessions[i]) ELSE sessions[i]]
  BY DEF Loop
<1>4. sock' = [i \in Ids |-> IF i \in closed THEN NoSocket ELSE sock[i]]
  BY DEF Loop
<1>5. wait' = Sleep(count', Active \ closed)
  BY DEF Loop
<1>6. \A i \in DOMAIN sessions : sessions[i] \in Session /\ i \in Ids
  BY DEF IInv, TypeOK
\* What is left of a session, and which are gone.
<1>7. \A i \in DOMAIN sessions' : i \in DOMAIN sessions /\ i \notin freed
  BY <1>3
<1>8. \A i \in DOMAIN sessions' \ closed : sessions'[i] = sessions[i]
  BY <1>3
<1>9. ASSUME NEW i \in DOMAIN sessions', i \in closed
      PROVE  /\ sessions'[i] \in Session /\ sessions'[i].flow = sessions[i].flow
             /\ sessions'[i].id = sessions[i].id
             /\ sessions'[i].state = "CLOSED" /\ sessions'[i].socket = FALSE
  <2>1. 0 \in 0 .. MaxAge
    BY TableAssumption
  <2>2. sessions[i] \in Session /\ sessions'[i] = Closed(sessions[i])
    BY <1>3, <1>6, <1>7, <1>9
  <2>q. QED
    BY <2>1, <2>2 DEF Closed, Session
<1>10. \A i \in freed \ closed : sessions[i].state = "CLOSED"
  BY DEF Frees
<1>11. \A i \in Active \ closed : sessions[i].age <= Scaled(sessions[i].flow, count')
  <2>1. ASSUME NEW i \in Active, ~Closes(sessions[i], count')
        PROVE  sessions[i].age <= Scaled(sessions[i].flow, count')
    BY <1>2, <1>6, <2>1, ScaledType, TableAssumption DEF Closes, Active, Session
  <2>q. QED
    BY <2>1 DEF Active
<1>12. NoSocket \in Socket /\ ~NoSocket.open /\ NoSocket.watched = "no" /\ NoSocket.inbox = <<>>
  BY DEF NoSocket, Socket
<1>13. Active' \subseteq Active \ closed
  BY <1>7, <1>8, <1>9 DEF Active
<1>14. \A i \in Active' : sessions'[i] = sessions[i]
  BY <1>8, <1>13 DEF Active
<1>15. /\ wait' \in Nat
       /\ \A i \in Active \ closed :
            sessions[i].age + wait' <= Timeout(sessions[i].flow) + 1
  <2>1. Active \ closed \in SUBSET DOMAIN sessions /\ TypeOK
    BY DEF Active, IInv
  <2> HIDE DEF closed
  <2>q. QED
    BY <1>2, <1>5, <1>11, <2>1, SleepType
<1> HIDE DEF closed, freed
<1>16. TypeOK'
  <2>1. sock' \in [Ids -> Socket]
    BY <1>4, <1>12 DEF IInv, TypeOK
  <2>2. DOMAIN sessions' \subseteq Ids /\ \A i \in DOMAIN sessions' : sessions'[i] \in Session
    BY <1>6, <1>7, <1>8, <1>9
  <2>q. QED
    BY <1>1, <1>2, <1>15, <2>1, <2>2 DEF IInv, TypeOK
<1>17. Belong'
  <2>1. DOMAIN batch' = {}
    BY <1>1 DEF IInv, Belong, NoOldEvents
  <2>2. SocketUntilClosed'
    <3>1. \A i \in DOMAIN sessions' : i \in DOMAIN sessions
      BY <1>7
    <3>2. \A i \in DOMAIN sessions' \ closed :
            sessions'[i].socket = (sessions'[i].state # "CLOSED")
      BY <1>8, <3>1 DEF IInv, Belong, SocketUntilClosed
    <3>q. QED
      BY <1>9, <3>2 DEF SocketUntilClosed
  <2>3. SocketsAccounted'
    <3>1. ASSUME NEW i \in Ids, i \in closed
          PROVE  ~sock'[i].open /\ (i \in DOMAIN sessions' => ~sessions'[i].socket)
      BY <1>4, <1>9, <1>12, <3>1
    <3>2. ASSUME NEW i \in Ids, i \notin closed, i \in DOMAIN sessions'
          PROVE  sock'[i].open = sessions'[i].socket
      <4>1. sock'[i] = sock[i] /\ sessions'[i] = sessions[i] /\ i \in DOMAIN sessions
        BY <1>4, <1>7, <1>8, <3>2
      <4>2. sock[i].open = sessions[i].socket
        <5>1. sessions[i].socket \in BOOLEAN
          BY <1>6, <4>1 DEF Session
        <5>2. sock[i].open = (i \in DOMAIN sessions /\ sessions[i].socket)
          BY DEF IInv, Belong, SocketsAccounted
        <5>q. QED
          BY <4>1, <5>1, <5>2
      <4>q. QED
        BY <4>1, <4>2
    <3>3. ASSUME NEW i \in Ids, i \notin closed, i \notin DOMAIN sessions'
          PROVE  ~sock'[i].open
      <4>1. sock'[i] = sock[i] /\ (i \in DOMAIN sessions => sessions[i].state = "CLOSED")
        BY <1>3, <1>4, <1>10, <3>3
      <4>q. QED
        BY <4>1 DEF IInv, Belong, SocketsAccounted, SocketUntilClosed
    <3>4. \A i \in Ids : sock'[i].open \in BOOLEAN
      BY <1>16 DEF TypeOK, Socket
    <3>q. QED
      BY <1>16, <3>1, <3>2, <3>3, <3>4 DEF SocketsAccounted, TypeOK, Session
  <2>4. WatchedIsOpen'
    BY <1>4, <1>12 DEF IInv, Belong, WatchedIsOpen
  <2>q. QED
    BY <2>1, <2>2, <2>3, <2>4 DEF Belong, EventsHaveSessions, NoOldEvents
<1>18. OneSessionPerFlow'
  <2>1. \A i \in DOMAIN sessions' : i \in DOMAIN sessions /\ sessions'[i].flow = sessions[i].flow
    BY <1>7, <1>8, <1>9
  <2>q. QED
    BY <1>13, <2>1 DEF IInv, OneSessionPerFlow
<1>19. Registered'
  <2>1. \A i \in Active : sock[i].watched # "no"
    BY <1>1 DEF IInv, Registered
  <2>2. \A i \in Active' : sock'[i] = sock[i] /\ i \in Active
    BY <1>4, <1>6, <1>13 DEF Active
  <2>q. QED
    BY <2>1, <2>2 DEF Registered
<1>20. InTime'
  <2>1. \A i \in Active' : sessions[i].age \in Nat /\ sessions[i].age <= Timeout(sessions[i].flow)
    BY <1>2, <1>6, <1>11, <1>13, ScaledType, TimeoutType, TableAssumption DEF Active, Session
  <2>2. \A i \in Active' : sessions[i].age + wait' <= Timeout(sessions[i].flow) + 1
    BY <1>13, <1>15
  <2>q. QED
    BY <1>1, <1>14, <2>1, <2>2, TimeoutType DEF InTime, CheckedInTime, SleepsInTime, IdleClosedInTime
<1>21. Replies'
  <2>1. DOMAIN batch' = {}
    BY <1>1 DEF IInv, Belong, NoOldEvents
  <2>2. ASSUME NEW i \in DOMAIN sessions', sessions'[i].flow \in Pings
        PROVE  sessions'[i].id \in EchoIds /\ sock'[i].inbox \in Seq(EchoIds)
    <3>1. /\ i \in DOMAIN sessions /\ i \in Ids
          /\ sessions'[i].flow = sessions[i].flow /\ sessions'[i].id = sessions[i].id
      BY <1>6, <1>7, <1>8, <1>9
    <3>2. sessions[i].id \in EchoIds /\ sock[i].inbox \in Seq(EchoIds)
      BY <2>2, <3>1 DEF IInv, Replies
    <3>3. sock'[i].inbox \in {<<>>, sock[i].inbox}
      BY <1>4, <1>12, <3>1
    <3>q. QED
      BY <3>1, <3>2, <3>3, EmptySeq
  <2>q. QED
    BY <2>1, <2>2 DEF Replies
<1>q. QED
  BY <1>16, <1>17, <1>18, <1>19, <1>20, <1>21 DEF IInv

LEMMA WaitInv ==
  ASSUME IInv, EpollWait
  PROVE  IInv'
<1>1. /\ phase = "wait" /\ phase' \in {"batch", "loop"} /\ recheck' = FALSE /\ wait' = 0
      /\ count' \in Nat /\ UNCHANGED <<sessions, sock, checked, echo>>
  <2>1. phase = "wait" /\ recheck' = FALSE /\ wait' = 0 /\ UNCHANGED <<sessions, sock, checked, echo>>
    BY DEF EpollWait
  <2>2. \/ phase' = "batch" /\ count' = count
        \/ phase' = "loop" /\ count' = 0
    BY DEF EpollWait
  <2>q. QED
    BY <2>1, <2>2 DEF IInv, TypeOK
<1>2. \A e \in DOMAIN batch' \ {"tun"} :
        /\ e \in Ids /\ sock[e].watched = "yes" /\ batch'[e] = sock[e].err
        /\ sock[e].inbox # <<>> \/ sock[e].err
  <2>1. CASE batch' = batch
    BY <1>1, <2>1 DEF IInv, Belong, NoOldEvents
  <2>2. ASSUME NEW tun \in SUBSET {"tun"},
               batch' = [e \in Ready \cup tun |-> IF e \in tun THEN FALSE ELSE sock[e].err]
        PROVE  \A e \in DOMAIN batch' \ {"tun"} :
                 /\ e \in Ids /\ sock[e].watched = "yes" /\ batch'[e] = sock[e].err
                 /\ sock[e].inbox # <<>> \/ sock[e].err
    BY <2>2 DEF Ready
  <2>q. QED
    BY <2>1, <2>2 DEF EpollWait
<1>3. \A e \in DOMAIN batch' : e = "tun" => batch'[e] = FALSE
  <2>1. CASE batch' = batch
    BY <1>1, <2>1 DEF IInv, Belong, NoOldEvents
  <2>2. ASSUME NEW tun \in SUBSET {"tun"},
               batch' = [e \in Ready \cup tun |-> IF e \in tun THEN FALSE ELSE sock[e].err]
        PROVE  \A e \in DOMAIN batch' : e = "tun" => batch'[e] = FALSE
    BY <2>2, TableAssumption DEF Ready
  <2>q. QED
    BY <2>1, <2>2 DEF EpollWait
<1>4. \A e \in DOMAIN batch' : e \in Ids \cup {"tun"} /\ batch'[e] \in BOOLEAN
  BY <1>2, <1>3 DEF IInv, TypeOK, Socket
<1>5. TypeOK'
  BY <1>1, <1>4 DEF IInv, TypeOK
<1>6. Belong'
  <2>1. EventsHaveSessions'
    BY <1>1, <1>2 DEF IInv, Belong, WatchedIsOpen, SocketsAccounted, EventsHaveSessions
  <2>2. SocketsAccounted' /\ SocketUntilClosed' /\ WatchedIsOpen'
    BY <1>1 DEF IInv, Belong, SocketsAccounted, SocketUntilClosed, WatchedIsOpen
  <2>3. NoOldEvents'
    <3>1. phase' = "loop" => batch' = batch
      BY DEF EpollWait
    <3>q. QED
      BY <1>1, <3>1 DEF IInv, Belong, NoOldEvents
  <2>q. QED
    BY <2>1, <2>2, <2>3 DEF Belong
<1>7. Replies'
  BY <1>1, <1>2 DEF IInv, Replies
<1>8. Active' = Active
  BY <1>1 DEF Active
<1>9. OneSessionPerFlow' /\ Registered' /\ InTime'
  BY <1>1, <1>8 DEF IInv, OneSessionPerFlow, Registered, InTime, CheckedInTime, SleepsInTime,
                    IdleClosedInTime
<1>q. QED
  BY <1>5, <1>6, <1>7, <1>9 DEF IInv

LEMMA BatchDoneInv ==
  ASSUME IInv, BatchDone
  PROVE  IInv'
<1>1. /\ phase = "batch" /\ phase' = "loop" /\ DOMAIN batch = {} /\ count' = 0 /\ echo' = <<>>
      /\ UNCHANGED <<sessions, sock, batch, checked, recheck, wait>>
  BY DEF BatchDone, Empty
<1>2. TypeOK'
  BY <1>1 DEF IInv, TypeOK
<1>3. Belong'
  BY <1>1 DEF IInv, Belong, EventsHaveSessions, SocketsAccounted, SocketUntilClosed,
              WatchedIsOpen, NoOldEvents
<1>4. Active' = Active
  BY <1>1 DEF Active
<1>5. Replies' /\ OneSessionPerFlow' /\ Registered' /\ InTime'
  BY <1>1, <1>4 DEF IInv, Replies, OneSessionPerFlow, Registered, InTime, CheckedInTime,
                    SleepsInTime, IdleClosedInTime
<1>q. QED
  BY <1>2, <1>3, <1>5 DEF IInv

\* An engine begins with a list of which no session is active.
LEMMA BeginInv ==
  ASSUME IInv, Begin
  PROVE  IInv'
<1>1. /\ phase = "off" /\ phase' = "loop" /\ DOMAIN batch = {}
      /\ UNCHANGED <<sock, batch, count, checked, recheck, wait, echo>>
  BY DEF Begin, loop, IInv, Belong, NoOldEvents
<1>2. /\ DOMAIN sessions' = DOMAIN sessions
      /\ \A i \in DOMAIN sessions :
            sessions'[i] = IF i \in Active THEN [sessions[i] EXCEPT !.state = "FINISHING"] ELSE sessions[i]
  BY DEF Begin, check_allowed
<1>3. \A i \in DOMAIN sessions :
        /\ sessions'[i] \in Session /\ sessions'[i].flow = sessions[i].flow
        /\ sessions'[i].id = sessions[i].id /\ sessions'[i].socket = sessions[i].socket
        /\ sessions'[i].state # "ACTIVE"
        /\ sessions'[i].state = "CLOSED" <=> sessions[i].state = "CLOSED"
  <2>1. ASSUME NEW i \in DOMAIN sessions, i \in Active
        PROVE  /\ [sessions[i] EXCEPT !.state = "FINISHING"] \in Session
               /\ sessions[i].state = "ACTIVE"
    BY <2>1 DEF IInv, TypeOK, Session, Active
  <2>2. \A i \in DOMAIN sessions :
          sessions[i] \in Session /\ (i \notin Active => sessions[i].state # "ACTIVE")
    BY DEF IInv, TypeOK, Active
  <2>q. QED
    BY <1>2, <2>1, <2>2 DEF Session
<1>4. TypeOK'
  BY <1>1, <1>2, <1>3 DEF IInv, TypeOK
<1>5. Belong'
  <2>1. EventsHaveSessions' /\ NoOldEvents' /\ WatchedIsOpen'
    BY <1>1 DEF IInv, Belong, EventsHaveSessions, NoOldEvents, WatchedIsOpen
  <2>2. SocketsAccounted'
    BY <1>1, <1>2, <1>3 DEF IInv, Belong, SocketsAccounted
  <2>3. SocketUntilClosed'
    BY <1>2, <1>3 DEF IInv, Belong, SocketUntilClosed
  <2>q. QED
    BY <2>1, <2>2, <2>3 DEF Belong
<1>6. Active' = {}
  BY <1>2, <1>3 DEF Active
<1>7. Replies'
  BY <1>1, <1>2, <1>3 DEF IInv, Replies
<1>8. OneSessionPerFlow'
  BY <1>2, <1>3, <1>6 DEF IInv, OneSessionPerFlow
<1>9. Registered' /\ InTime'
  BY <1>1, <1>6 DEF Registered, InTime, CheckedInTime, SleepsInTime, IdleClosedInTime
<1>q. QED
  BY <1>4, <1>5, <1>7, <1>8, <1>9 DEF IInv

LEMMA EndInv ==
  ASSUME IInv, End
  PROVE  IInv'
<1>1. /\ phase' = "off" /\ DOMAIN batch' = {} /\ count' = 0 /\ wait' = 0
      /\ checked' = FALSE /\ recheck' = FALSE /\ echo' = <<>> /\ UNCHANGED sessions
  BY DEF End, Empty
<1>2. /\ sock' \in [Ids -> Socket]
      /\ \A i \in Ids : /\ sock'[i].open = sock[i].open /\ sock'[i].inbox = sock[i].inbox
                        /\ sock'[i].watched = "no"
  <2>1. sock' = [i \in Ids |-> [sock[i] EXCEPT !.watched = "no"]]
    BY DEF End
  <2>2. ASSUME NEW x \in Socket
        PROVE  LET y == [x EXCEPT !.watched = "no"]
               IN  y \in Socket /\ y.open = x.open /\ y.inbox = x.inbox /\ y.watched = "no"
    BY DEF Socket
  <2>3. \A i \in Ids : sock[i] \in Socket
    BY DEF IInv, TypeOK
  <2>q. QED
    BY <2>1, <2>2, <2>3
<1>3. TypeOK'
  BY <1>1, <1>2 DEF IInv, TypeOK
<1>4. Belong'
  BY <1>1, <1>2 DEF IInv, Belong, EventsHaveSessions, SocketsAccounted, SocketUntilClosed,
                    WatchedIsOpen, NoOldEvents
<1>5. Replies'
  BY <1>1, <1>2 DEF IInv, TypeOK, Replies
<1>6. Active' = Active
  BY <1>1 DEF Active
<1>7. OneSessionPerFlow' /\ Registered' /\ InTime'
  BY <1>1, <1>6 DEF IInv, OneSessionPerFlow, Registered, InTime, CheckedInTime, SleepsInTime,
                    IdleClosedInTime
<1>q. QED
  BY <1>3, <1>4, <1>5, <1>7 DEF IInv

LEMMA ClearInv ==
  ASSUME IInv, clear
  PROVE  IInv'
<1>1. /\ phase = "off" /\ DOMAIN sessions' = {} /\ DOMAIN batch = {}
      /\ UNCHANGED <<phase, batch, count, checked, recheck, wait, echo>>
  BY DEF clear, Empty, loop, IInv, Belong, NoOldEvents
<1>2. NoSocket \in Socket /\ NoSocket.open = FALSE /\ NoSocket.watched = "no"
  BY DEF NoSocket, Socket
<1>3. sock' = [i \in Ids |-> IF i \in DOMAIN sessions THEN NoSocket ELSE sock[i]]
  BY DEF clear
<1>4. sock' \in [Ids -> Socket]
  BY <1>2, <1>3 DEF IInv, TypeOK
<1>5. TypeOK'
  BY <1>1, <1>4 DEF IInv, TypeOK
<1>6. \A i \in Ids : sock'[i].open = FALSE /\ sock'[i].watched = "no"
  <2>1. ASSUME NEW i \in Ids, i \notin DOMAIN sessions
        PROVE  sock[i].open = FALSE /\ sock[i].watched = "no"
    BY <2>1 DEF IInv, Belong, SocketsAccounted, WatchedIsOpen
  <2>q. QED
    BY <1>2, <1>3, <2>1
<1>7. Belong'
  BY <1>1, <1>6 DEF IInv, Belong, EventsHaveSessions, SocketsAccounted, SocketUntilClosed,
                    WatchedIsOpen, NoOldEvents
<1>8. Active' = {}
  BY <1>1 DEF Active
<1>9. Replies' /\ OneSessionPerFlow' /\ Registered' /\ InTime'
  BY <1>1, <1>8 DEF Replies, OneSessionPerFlow, Registered, InTime, CheckedInTime, SleepsInTime,
                    IdleClosedInTime
<1>q. QED
  BY <1>5, <1>7, <1>9 DEF IInv

-----------------------------------------------------------------------------
\* The network and the clock.

\* One socket gets an error or, in its inbox, what it asked for.
LEMMA ArrivesInv ==
  ASSUME IInv, NEW i \in Ids, Arrives(i)
  PROVE  IInv'
<1>1. /\ i \in DOMAIN sessions /\ sessions[i] \in Session /\ sock[i] \in Socket
      /\ UNCHANGED <<sessions, phase, batch, count, checked, recheck, wait, echo>>
  BY DEF Arrives, loop, IInv, TypeOK
<1>2. PICK x \in Socket :
        /\ sock' = [sock EXCEPT ![i] = x] /\ x.open = sock[i].open /\ x.watched = sock[i].watched
        /\ sock[i].inbox # <<>> => x.inbox # <<>>
        /\ sock[i].inbox \in Seq(EchoIds) /\ sessions[i].flow \in Pings => x.inbox \in Seq(EchoIds)
  <2>1. ASSUME NEW n \in IF sessions[i].flow \in UdpFlows THEN {0} ELSE sock[i].asked,
               sock' = [sock EXCEPT ![i].inbox = Append(@, n), ![i].asked = @ \ {n}]
        PROVE  \E x \in Socket :
                 /\ sock' = [sock EXCEPT ![i] = x]
                 /\ x.open = sock[i].open /\ x.watched = sock[i].watched
                 /\ sock[i].inbox # <<>> => x.inbox # <<>>
                 /\ sock[i].inbox \in Seq(EchoIds) /\ sessions[i].flow \in Pings => x.inbox \in Seq(EchoIds)
    <3> DEFINE x == [sock[i] EXCEPT !.inbox = Append(@, n), !.asked = @ \ {n}]
    <3>1. n \in Nat /\ (sessions[i].flow \in Pings => n \in EchoIds)
      BY <1>1, TableAssumption DEF Socket
    <3>2. sock[i].inbox \in Seq(Nat)
      BY <1>1 DEF Socket
    <3>3. Append(sock[i].inbox, n) \in Seq(Nat) /\ Append(sock[i].inbox, n) # <<>>
      BY <3>1, <3>2, AppendProperties
    <3>4. sock[i].inbox \in Seq(EchoIds) /\ sessions[i].flow \in Pings =>
              Append(sock[i].inbox, n) \in Seq(EchoIds)
      BY <3>1, AppendProperties
    <3>5. /\ x \in Socket /\ x.open = sock[i].open /\ x.watched = sock[i].watched
          /\ x.inbox = Append(sock[i].inbox, n)
      BY <1>1, <3>3 DEF Socket
    <3>6. sock' = [sock EXCEPT ![i] = x]
      BY <2>1
    <3> HIDE DEF x
    <3>q. QED
      BY <3>3, <3>4, <3>5, <3>6
  <2>2. ASSUME sock' = [sock EXCEPT ![i].err = TRUE]
        PROVE  \E x \in Socket :
                 /\ sock' = [sock EXCEPT ![i] = x]
                 /\ x.open = sock[i].open /\ x.watched = sock[i].watched
                 /\ sock[i].inbox # <<>> => x.inbox # <<>>
                 /\ sock[i].inbox \in Seq(EchoIds) /\ sessions[i].flow \in Pings => x.inbox \in Seq(EchoIds)
    <3> DEFINE x == [sock[i] EXCEPT !.err = TRUE]
    <3>1. /\ x \in Socket /\ x.open = sock[i].open /\ x.watched = sock[i].watched
          /\ x.inbox = sock[i].inbox
      BY <1>1 DEF Socket
    <3>2. sock' = [sock EXCEPT ![i] = x]
      BY <2>2
    <3> HIDE DEF x
    <3>q. QED
      BY <3>1, <3>2
  <2>q. QED
    BY <2>1, <2>2 DEF Arrives
<1>3. /\ sock' \in [Ids -> Socket] /\ sock'[i] = x
      /\ \A j \in Ids \ {i} : sock'[j] = sock[j]
  BY <1>2 DEF IInv, TypeOK
<1>4. TypeOK'
  BY <1>1, <1>3 DEF IInv, TypeOK
<1>5. \A j \in Ids : sock'[j].open = sock[j].open /\ sock'[j].watched = sock[j].watched
  BY <1>2, <1>3
<1>6. Belong'
  BY <1>1, <1>5 DEF IInv, Belong, EventsHaveSessions, SocketsAccounted, SocketUntilClosed,
                    WatchedIsOpen, NoOldEvents
<1>7. Replies'
  <2>1. \A j \in DOMAIN sessions : j \in Ids
    BY DEF IInv, TypeOK
  <2>2. \A j \in DOMAIN batch \ {"tun"} : j \in Ids
    BY DEF IInv, TypeOK
  <2>q. QED
    BY <1>1, <1>2, <1>3, <2>1, <2>2 DEF IInv, Replies
<1>8. Active' = Active
  BY <1>1 DEF Active
<1>9. Active \subseteq Ids
  BY DEF IInv, TypeOK, Active
<1>10. OneSessionPerFlow' /\ Registered' /\ InTime'
  BY <1>1, <1>5, <1>8, <1>9 DEF IInv, OneSessionPerFlow, Registered, InTime, CheckedInTime,
                                SleepsInTime, IdleClosedInTime
<1>q. QED
  BY <1>4, <1>6, <1>7, <1>10 DEF IInv

LEMMA TenthInv ==
  ASSUME IInv, Tenth
  PROVE  IInv'
<1>1. /\ checked' = FALSE /\ UNCHANGED <<sessions, sock, phase, batch, count, recheck, wait, echo>>
  BY DEF Tenth
<1>2. TypeOK'
  BY <1>1 DEF IInv, TypeOK
<1>3. Belong' /\ Replies'
  BY <1>1 DEF IInv, Belong, EventsHaveSessions, SocketsAccounted, SocketUntilClosed,
              WatchedIsOpen, NoOldEvents, Replies
<1>4. Active' = Active
  BY <1>1 DEF Active
<1>5. OneSessionPerFlow' /\ Registered' /\ InTime'
  BY <1>1, <1>4 DEF IInv, OneSessionPerFlow, Registered, InTime, CheckedInTime, SleepsInTime,
                    IdleClosedInTime
<1>q. QED
  BY <1>2, <1>3, <1>5 DEF IInv

\* A second passes: in a sleep that is not over, or between engines.
LEMMA TickInv ==
  ASSUME IInv, Tick
  PROVE  IInv'
<1>1. /\ checked' = FALSE /\ wait' = IF wait > 0 THEN wait - 1 ELSE 0
      /\ UNCHANGED <<sock, phase, batch, count, recheck, echo>>
  BY DEF Tick
<1>2. /\ DOMAIN sessions' = DOMAIN sessions
      /\ \A i \in DOMAIN sessions :
            sessions'[i] = [sessions[i] EXCEPT !.age = IF @ < MaxAge THEN @ + 1 ELSE @]
  BY DEF Tick
<1>3. \A i \in DOMAIN sessions :
        /\ sessions'[i] \in Session /\ sessions'[i].flow = sessions[i].flow
        /\ sessions'[i].id = sessions[i].id /\ sessions'[i].socket = sessions[i].socket
        /\ sessions'[i].state = sessions[i].state
        /\ sessions[i].age \in Nat /\ sessions'[i].age \in Nat
        /\ sessions'[i].age <= sessions[i].age + 1
  <2>1. ASSUME NEW s \in Session
        PROVE  LET t == [s EXCEPT !.age = IF @ < MaxAge THEN @ + 1 ELSE @]
               IN  /\ t \in Session /\ t.flow = s.flow /\ t.id = s.id /\ t.socket = s.socket
                   /\ t.state = s.state /\ s.age \in Nat /\ t.age \in Nat /\ t.age <= s.age + 1
    BY TableAssumption DEF Session
  <2>2. \A i \in DOMAIN sessions : sessions[i] \in Session
    BY DEF IInv, TypeOK
  <2>q. QED
    BY <1>2, <2>1, <2>2
<1>4. TypeOK'
  <2>1. wait' \in Nat
    BY <1>1 DEF IInv, TypeOK
  <2>2. DOMAIN sessions' \subseteq Ids /\ \A i \in DOMAIN sessions' : sessions'[i] \in Session
    BY <1>2, <1>3 DEF IInv, TypeOK
  <2>q. QED
    BY <1>1, <2>1, <2>2 DEF IInv, TypeOK
<1>5. Belong'
  BY <1>1, <1>2, <1>3 DEF IInv, Belong, EventsHaveSessions, SocketsAccounted, SocketUntilClosed,
                          WatchedIsOpen, NoOldEvents
<1>6. Replies'
  <2>1. \A e \in DOMAIN batch \ {"tun"} : e \in DOMAIN sessions
    BY DEF IInv, Belong, EventsHaveSessions
  <2>q. QED
    BY <1>1, <1>2, <1>3, <2>1 DEF IInv, Replies
<1>7. Active' = Active
  BY <1>2, <1>3 DEF Active
<1>8. OneSessionPerFlow'
  BY <1>2, <1>3, <1>7 DEF IInv, OneSessionPerFlow
<1>9. Registered'
  BY <1>1, <1>7 DEF IInv, Registered
<1>10. CASE phase = "off"
  BY <1>1, <1>4, <1>5, <1>6, <1>8, <1>9, <1>10 DEF IInv, InTime, CheckedInTime, SleepsInTime, IdleClosedInTime
<1>11. CASE phase = "wait" /\ recheck
  <2>1. checked /\ wait = 0
    BY <1>11 DEF Tick, Expired, IInv, InTime, SleepsInTime
  <2>2. \A i \in Active : sessions[i].age <= Timeout(sessions[i].flow)
    BY <1>11, <2>1 DEF IInv, InTime, CheckedInTime
  <2>3. \A i \in Active' : sessions'[i].age <= Timeout(sessions'[i].flow) + 1
    BY <1>3, <1>7, <2>2, TimeoutType DEF Active
  <2>4. InTime'
    BY <1>1, <1>11, <2>1, <2>3 DEF InTime, CheckedInTime, SleepsInTime, IdleClosedInTime
  <2>q. QED
    BY <1>4, <1>5, <1>6, <1>8, <1>9, <2>4 DEF IInv
<1>12. CASE phase = "wait" /\ ~recheck
  <2>1. wait \in Nat /\ wait > 0
    BY <1>12 DEF Tick, Expired, IInv, TypeOK
  <2>2. wait' = wait - 1
    BY <1>1, <2>1
  <2>3. \A i \in Active : sessions[i].age + wait <= Timeout(sessions[i].flow) + 1
    BY <1>12 DEF IInv, InTime, SleepsInTime
  <2>4. \A i \in Active' : /\ sessions'[i].age + wait' <= Timeout(sessions'[i].flow) + 1
                           /\ sessions'[i].age <= Timeout(sessions'[i].flow) + 1
    BY <1>3, <1>7, <2>1, <2>2, <2>3, TimeoutType DEF Active
  <2>5. InTime'
    BY <1>1, <1>12, <2>4 DEF InTime, CheckedInTime, SleepsInTime, IdleClosedInTime
  <2>q. QED
    BY <1>4, <1>5, <1>6, <1>8, <1>9, <2>5 DEF IInv
<1>q. QED
  BY <1>10, <1>11, <1>12 DEF Tick

-----------------------------------------------------------------------------
\* The specification.

LEMMA SocketsInv ==
  ASSUME IInv, NEW i \in Ids, check_udp_socket(i) \/ UdpDone(i) \/ check_icmp_socket(i) \/ Arrives(i)
  PROVE  IInv'
  BY DatagramInv, ReplyInv, ArrivesInv, TakenInv DEF UdpDone

LEMMA NextInv == IInv /\ [Next]_vars => IInv'
<1> SUFFICES ASSUME IInv, [Next]_vars PROVE IInv'
  OBVIOUS
<1>1. CASE Begin \/ End \/ clear
  BY <1>1, BeginInv, EndInv, ClearInv
<1>2. CASE Loop
  BY <1>2, LoopCheckedInv, LoopUncheckedInv
<1>3. CASE EpollWait \/ BatchDone
  BY <1>3, WaitInv, BatchDoneInv
<1>4. ASSUME NEW f \in UdpFlows, handle_udp(f) PROVE IInv'
  BY <1>4, UdpPacketInv
<1>5. ASSUME NEW f \in Pings, NEW e \in EchoIds, handle_icmp(f, e) PROVE IInv'
  BY <1>5, PingInv
<1>6. CASE TunEmpty
  BY <1>6, TakenInv DEF TunEmpty
<1>7. ASSUME NEW i \in Ids, check_udp_socket(i) \/ UdpDone(i) \/ check_icmp_socket(i) \/ Arrives(i)
      PROVE  IInv'
  BY <1>7, SocketsInv
<1>8. CASE Tenth \/ Tick
  BY <1>8, TenthInv, TickInv
<1>9. CASE UNCHANGED vars
  <2>1. UNCHANGED <<sessions, sock, phase, batch, count, checked, recheck, wait, echo>>
    BY <1>9 DEF vars, loop
  <2>2. Active' = Active
    BY <2>1 DEF Active
  <2>3. TypeOK' /\ Belong' /\ Replies'
    BY <2>1 DEF IInv, TypeOK, Belong, EventsHaveSessions, SocketsAccounted, SocketUntilClosed,
                WatchedIsOpen, NoOldEvents, Replies
  <2>4. OneSessionPerFlow' /\ Registered' /\ InTime'
    BY <2>1, <2>2 DEF IInv, OneSessionPerFlow, Registered, InTime, CheckedInTime, SleepsInTime,
                      IdleClosedInTime
  <2>q. QED
    BY <2>3, <2>4 DEF IInv
<1>q. QED
  BY <1>1, <1>2, <1>3, <1>4, <1>5, <1>6, <1>7, <1>8, <1>9 DEF Next

LEMMA TableInv == Spec => []IInv
  BY InitInv, NextInv, PTL DEF Spec

\* Every variable keeps its type; no time to sleep is negative, whatever the
\* load, and an echo reply is only given identifiers of requests.
THEOREM TypesHold == Spec => []TypeOK
<1>1. IInv => TypeOK
  BY DEF IInv
<1>q. QED
  BY <1>1, TableInv, PTL

\* No event that is handled points to a session that is gone.
THEOREM EventsPointToSessions == Spec => []EventsHaveSessions
<1>1. IInv => EventsHaveSessions
  BY DEF IInv, Belong
<1>q. QED
  BY <1>1, TableInv, PTL

\* No socket is lost, and none is closed under a session that uses it.
THEOREM NoSocketLost == Spec => []SocketsAccounted
<1>1. IInv => SocketsAccounted
  BY DEF IInv, Belong
<1>q. QED
  BY <1>1, TableInv, PTL

\* The packets of a flow have one session to go to.
THEOREM FlowHasOneSession == Spec => []OneSessionPerFlow
<1>1. IInv => OneSessionPerFlow
  BY DEF IInv
<1>q. QED
  BY <1>1, TableInv, PTL

\* An epoll that takes every socket has refused none: only NewSockets marks one
\* as refused, and no step does it to a socket that is there.
LEMMA NoneRefusedInv ==
  ASSUME "add" \notin Faults, TypeOK, NoneRefused, [Next]_vars
  PROVE  NoneRefused'
<1>1. sock \in [Ids -> Socket] /\ NoSocket \in Socket /\ NoSocket.watched = "no"
  BY DEF TypeOK, NoSocket, Socket
<1>2. CASE UNCHANGED sock
  BY <1>2 DEF NoneRefused
<1>3. CASE Loop \/ End \/ clear
  <2>1. CASE End
    BY <1>1, <2>1 DEF End, Socket, NoneRefused
  <2>2. CASE clear
    BY <1>1, <2>2 DEF clear, NoneRefused
  <2>3. CASE Loop /\ checked
    BY <2>3, <1>2 DEF Loop
  <2>4. CASE Loop /\ ~checked
    <3>1. PICK S : sock' = [i \in Ids |-> IF i \in S THEN NoSocket ELSE sock[i]]
      BY <2>4 DEF Loop
    <3>q. QED
      BY <1>1, <3>1 DEF NoneRefused
  <2>q. QED
    BY <1>3, <2>1, <2>2, <2>3, <2>4
<1>4. ASSUME NEW f, NEW e, Opens(f, e) PROVE NoneRefused'
  <2>1. PICK i \in Ids \ DOMAIN sessions, k \in NewSockets :
            sock' = [sock EXCEPT ![i] = [k EXCEPT !.asked = IF e = 0 THEN {} ELSE {e}]]
    BY <1>4 DEF Opens
  <2>2. k = [NoSocket EXCEPT !.open = TRUE, !.watched = "yes"]
    BY DEF NewSockets
  <2>3. [k EXCEPT !.asked = IF e = 0 THEN {} ELSE {e}].watched = "yes"
    BY <2>2 DEF NoSocket
  <2>q. QED
    BY <1>1, <2>1, <2>3 DEF NoneRefused
<1>5. ASSUME NEW i, NEW e, Sends(i, e) PROVE NoneRefused'
  BY <1>1, <1>5 DEF Sends, NoneRefused, Socket
<1>6. ASSUME NEW i \in Ids, check_udp_socket(i) \/ check_icmp_socket(i) \/ Arrives(i)
      PROVE  NoneRefused'
  <2>1. sock[i] \in Socket
    BY <1>1
  <2>2. CASE check_udp_socket(i)
    BY <1>1, <2>1, <2>2 DEF check_udp_socket, NoneRefused, Socket
  <2>3. CASE check_icmp_socket(i)
    <3>1. PICK q, r : \/ sock' = [sock EXCEPT ![i].inbox = q]
                      \/ sock' = [sock EXCEPT ![i].err = r]
      BY <2>3 DEF check_icmp_socket
    <3>2. CASE sock' = [sock EXCEPT ![i].inbox = q]
      BY <1>1, <2>1, <3>2 DEF NoneRefused, Socket
    <3>3. CASE sock' = [sock EXCEPT ![i].err = r]
      BY <1>1, <2>1, <3>3 DEF NoneRefused, Socket
    <3>q. QED
      BY <3>1, <3>2, <3>3
  <2>4. CASE Arrives(i)
    <3>1. PICK q, A, r : \/ sock' = [sock EXCEPT ![i].inbox = q, ![i].asked = A]
                         \/ sock' = [sock EXCEPT ![i].err = r]
      BY <2>4 DEF Arrives
    <3>2. CASE sock' = [sock EXCEPT ![i].inbox = q, ![i].asked = A]
      BY <1>1, <2>1, <3>2 DEF NoneRefused, Socket
    <3>3. CASE sock' = [sock EXCEPT ![i].err = r]
      BY <1>1, <2>1, <3>3 DEF NoneRefused, Socket
    <3>q. QED
      BY <3>1, <3>2, <3>3
  <2>q. QED
    BY <1>6, <2>2, <2>3, <2>4
<1>7. ASSUME NEW f, handle_udp(f) PROVE NoneRefused'
  BY <1>4, <1>5, <1>7 DEF handle_udp
<1>8. ASSUME NEW f, NEW e, handle_icmp(f, e) PROVE NoneRefused'
  BY <1>4, <1>5, <1>8 DEF handle_icmp
<1>9. Begin \/ EpollWait \/ BatchDone \/ TunEmpty \/ Tenth \/ Tick
        \/ (\E i \in Ids : UdpDone(i)) \/ UNCHANGED vars
      => UNCHANGED sock
  BY DEF Begin, EpollWait, BatchDone, TunEmpty, Tenth, Tick, UdpDone, vars
<1>q. QED
  BY <1>2, <1>3, <1>6, <1>7, <1>8, <1>9 DEF Next

\* A session that takes packets is one whose replies the engine waits for, as
\* long as epoll takes every socket it is given.
THEOREM TakersAreWatched ==
  ASSUME "add" \notin Faults
  PROVE  Spec => []ActiveIsWatched
<1>1. Init => NoneRefused
  BY DEF Init, NoneRefused, NoSocket
<1>2. TypeOK /\ NoneRefused /\ [Next]_vars => NoneRefused'
  BY NoneRefusedInv
<1>3. IInv /\ NoneRefused => ActiveIsWatched
  <2> SUFFICES ASSUME IInv, NoneRefused, phase # "off", NEW i \in Active
               PROVE  sock[i].watched = "yes"
    BY DEF ActiveIsWatched
  <2>1. i \in Ids /\ sock[i] \in Socket
    BY DEF IInv, TypeOK, Active
  <2>2. sock[i].watched # "no" /\ sock[i].watched # "failed"
    BY <2>1 DEF IInv, Registered, NoneRefused
  <2>q. QED
    BY <2>1, <2>2 DEF Socket
<1>q. QED
  BY <1>1, <1>2, <1>3, TypesHold, TableInv, PTL DEF Spec

\* An idle session is closed at most a second after its timeout, for every
\* timeout, every limit on sessions and every sleep of the loop.
THEOREM IdleIsClosed == Spec => []IdleClosedInTime
<1>1. IInv => IdleClosedInTime
  BY DEF IInv, InTime
<1>q. QED
  BY <1>1, TableInv, PTL

\* A check ends no session for being idle ("UDP idle", udp.c:33) whose time was
\* set in the same second, however far the load has shortened its timeout: up to
\* the limit on sessions.  Past it the timeout is negative, and the code does.
FreshIsKept ==
    [][phase = "loop" /\ phase' = "wait" /\ count' <= MaxSessions =>
          \A i \in Active : sessions[i].age = 0 => i \in Active']_vars

\* Up to the limit on sessions load leaves a timeout of 0 at least.
LEMMA ScaledUpToLimit ==
  ASSUME NEW f, NEW n \in Nat, n <= MaxSessions
  PROVE  Scaled(f, n) \in Nat
<1> DEFINE q == (n * 100) \div MaxSessions
<1>1. MaxSessions \in Nat /\ MaxSessions > 0 /\ Timeout(f) \in Nat
  BY TableAssumption, TimeoutType
<1>2. q \in Nat /\ MaxSessions * q <= n * 100
  BY <1>1
<1>3. Scaled(f, n) = IF Timeout(f) * (100 - q) >= 0 THEN (Timeout(f) * (100 - q)) \div 100
                     ELSE -((-(Timeout(f) * (100 - q))) \div 100)
  BY DEF Scaled
<1> HIDE DEF q
<1>4. q <= 100
  <2>1. SUFFICES ASSUME q >= 101 PROVE FALSE
    BY <1>2
  <2>2. MaxSessions * 101 <= MaxSessions * q
    BY <1>1, <1>2, <2>1
  <2>q. QED
    BY <1>1, <1>2, <2>2
<1>5. Timeout(f) * (100 - q) \in Nat
  <2>1. 100 - q \in Nat
    BY <1>2, <1>4
  <2>q. QED
    BY <1>1, <2>1
<1>q. QED
  BY <1>3, <1>5

\* Up to the limit on sessions no check ends one that was used in this second.
THEOREM FreshStaysActive == Spec => FreshIsKept
<1>1. ASSUME TypeOK, [Next]_vars, phase = "loop", phase' = "wait", count' <= MaxSessions,
             NEW i \in Active, sessions[i].age = 0
      PROVE  i \in Active'
  <2>1. Loop
    BY <1>1 DEF Next, vars, Begin, End, clear, EpollWait, BatchDone, TunEmpty, Tenth, Tick, UdpDone,
                check_udp_socket, check_icmp_socket, Arrives, handle_udp, handle_icmp
  <2>2. CASE checked
    BY <1>1, <2>1, <2>2 DEF Loop, Active
  <2>3. CASE ~checked
    <3>1. count' \in Nat /\ count' = Cardinality(Active)
      BY <1>1, <2>1, CountType DEF Loop
    <3>2. Scaled(sessions[i].flow, count') \in Nat
      BY <1>1, <3>1, ScaledUpToLimit
    <3>3. sessions[i].state = "ACTIVE" /\ i \in DOMAIN sessions
      BY DEF Active
    <3>4. ~Closes(sessions[i], count')
      BY <1>1, <3>2, <3>3 DEF Closes
    <3>5. ~Frees(sessions[i], count')
      BY <3>3, <3>4 DEF Frees
    <3>6. i \in DOMAIN sessions' /\ sessions'[i] = sessions[i]
      BY <2>1, <2>3, <3>3, <3>4, <3>5 DEF Loop
    <3>q. QED
      BY <3>3, <3>6 DEF Active
  <2>q. QED
    BY <2>2, <2>3
<1>2. TypeOK /\ [Next]_vars =>
        [phase = "loop" /\ phase' = "wait" /\ count' <= MaxSessions =>
            \A i \in Active : sessions[i].age = 0 => i \in Active']_vars
  BY <1>1
<1>q. QED
  BY <1>2, TypesHold, PTL DEF Spec, FreshIsKept
=============================================================================
