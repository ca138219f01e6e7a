--------------------------- MODULE TcpRelayProofs ---------------------------
(***************************************************************************)
(* What upstream has been given accounts for what is confirmed to the app, *)
(* and a session keeps the promise of Relay, on the ports without a        *)
(* tunnel.  "upstream" holds the bytes 1 to Len(upstream) of the app, and  *)
(* remote_seq is one past them: the SYN counts one, and so does the FIN.   *)
(***************************************************************************)
EXTENDS TcpRelay, TcpStreamProofs

\* The sends the theorems are about: none fails for want of buffer space, which the
\* forward loop takes for a whole send, and none takes a part of the text that stands
\* for a request on port 80.
SendsTell ==
    /\ "again" \notin Faults
    /\ "http" \in Ports => "partial" \notin Faults

-----------------------------------------------------------------------------
(***************************************************************************)
(* What a run hands over: all that is counted while the connection stands, *)
(* nothing once it has failed.                                             *)
(***************************************************************************)

LEMMA TakenWhole ==
    ASSUME SendsTell, sess \in Session, sock.conn = "connected",
           NEW g \in Segment, NEW m, Stored(g, m), NEW n \in Sends(g)
    PROVE  Taken(sess.port, g, n) = Bytes(FirstByte(g), FirstByte(g) + Counted(g, n) - 1)
<1>1. g.off \in Nat /\ g.sent \in Nat /\ g.len \in Nat /\ g.sent <= g.len
  BY DEF Segment, Stored
<1>2. Left(g) \in Nat /\ FirstByte(g) \in Nat
  BY <1>1 DEF Left, FirstByte
<1> DEFINE before == Request - FirstByte(g)
           own == IF ~Patched(sess.port, g) \/ n <= before THEN n
                  ELSE IF n <= before + UrlPrefix THEN before
                  ELSE n - UrlPrefix
<1>3. Taken(sess.port, g, n) = Bytes(FirstByte(g), FirstByte(g) + own - 1)
  BY DEF Taken
<1>4. own = Counted(g, n)
  <2>1. CASE Patched(sess.port, g)
    <3>1. "partial" \notin Faults /\ "again" \notin Faults
      BY <2>1 DEF Patched, SendsTell, Session
    <3>2. n = Left(g) + UrlPrefix
      BY <2>1, <3>1 DEF Sends
    <3>3. before \in Nat /\ before < Left(g)
      BY <1>2, <2>1, TcpAssumption DEF Patched, LastByte
    <3>4. own = Left(g)
      BY <1>2, <2>1, <3>2, <3>3, TcpAssumption
    <3>5. Counted(g, n) = Left(g)
      BY <1>2, <3>2, TcpAssumption DEF Counted
    <3> QED BY <3>4, <3>5
  <2>2. CASE ~Patched(sess.port, g)
    <3>1. n \in 0 .. Left(g)
      BY <1>2, <2>2 DEF Sends, SendsTell
    <3>2. Counted(g, n) = n
      BY <1>2, <3>1 DEF Counted
    <3> QED BY <2>2, <3>2
  <2> QED BY <2>1, <2>2
<1> HIDE DEF own
<1> QED BY <1>3, <1>4

LEMMA TakenNone ==
    ASSUME sock.conn # "connected", NEW g \in Segment, NEW n \in Sends(g)
    PROVE  Ascends(Taken(sess.port, g, n), 0, 0)
<1>1. n = -1 /\ FirstByte(g) \in Nat
  BY DEF Sends, FirstByte, Segment
<1>2. Patched(sess.port, g) => n <= Request - FirstByte(g)
  BY <1>1, TcpAssumption DEF Patched
<1>3. Taken(sess.port, g, n) = Bytes(FirstByte(g), FirstByte(g) + n - 1)
  BY <1>2 DEF Taken
<1> DEFINE m == (FirstByte(g) + n - 1) - FirstByte(g) + 1
<1>4. Bytes(FirstByte(g), FirstByte(g) + n - 1) = [i \in 1 .. m |-> FirstByte(g) + i - 1]
  BY DEF Bytes
<1>5. 1 .. m = {} /\ 1 .. 0 = {}
  BY <1>1
<1>6. [i \in {} |-> FirstByte(g) + i - 1] \in Seq(Nat)
  <2>1. 1 .. 0 = {}
    OBVIOUS
  <2>2. [i \in 1 .. 0 |-> FirstByte(g) + i - 1] \in Seq(Nat)
    BY <1>1
  <2> QED BY <2>1, <2>2
<1> HIDE DEF m
<1>7. Taken(sess.port, g, n) \in Seq(Nat) /\ DOMAIN Taken(sess.port, g, n) = {}
  BY <1>3, <1>4, <1>5, <1>6
<1> QED BY <1>7 DEF Ascends

\* The pieces of a run, one for each of its sends.
LEMMA RunPieces ==
    ASSUME NEW r, NEW m \in Nat, DOMAIN r = 1 .. m,
           NEW ss, ss = [i \in DOMAIN r |-> Taken(sess.port, sess.forward[i], r[i])]
    PROVE  /\ TakenOf(r) = FlattenSeq(ss) /\ Len(ss) = m
           /\ \A i \in 1 .. m : ss[i] = Taken(sess.port, sess.forward[i], r[i])
BY DEF TakenOf

LEMMA RunTakesAll ==
    ASSUME SendsTell, sess \in Session, sock.conn = "connected",
           NEW n \in Nat, n + 3 < SeqSpace,
           \A i \in DOMAIN sess.forward : Stored(sess.forward[i], n),
           NEW r \in ForwardRuns, r # <<>>
    PROVE  TakenOf(r) = Bytes(RemoteOff(sess), RunEnd(sess.forward, r) - 1)
<1> DEFINE m == Len(r)
           lo == RunStarts(sess.forward, r)
           ss == [i \in DOMAIN r |-> Taken(sess.port, sess.forward[i], r[i])]
<1>1. /\ m \in Nat \ {0} /\ DOMAIN r = 1 .. m /\ lo \in [1 .. m + 1 -> Nat]
      /\ lo[1] = RemoteOff(sess) /\ lo[m + 1] = RunEnd(sess.forward, r)
      /\ \A i \in 1 .. m :
            /\ sess.forward[i] \in Segment /\ Stored(sess.forward[i], n)
            /\ r[i] \in Sends(sess.forward[i])
            /\ lo[i] = FirstByte(sess.forward[i])
            /\ lo[i + 1] = lo[i] + Counted(sess.forward[i], r[i])
            /\ lo[i] <= lo[i + 1]
  <2>1. /\ m \in Nat \ {0} /\ DOMAIN r = 1 .. m /\ lo \in [1 .. m + 1 -> Nat]
        /\ lo[1] = RemoteOff(sess) /\ lo[m + 1] = RunEnd(sess.forward, r)
        /\ \A i \in 1 .. m :
              /\ sess.forward[i] \in Segment
              /\ r[i] \in Sends(sess.forward[i])
              /\ lo[i] = Place(sess.forward[i])
              /\ lo[i + 1] = lo[i] + Counted(sess.forward[i], r[i])
              /\ lo[i] <= lo[i + 1]
    <3>1. Carries(sess, n)
      BY DEF Carries, Held
    <3>2. /\ m \in Nat \ {0} /\ DOMAIN r = 1 .. m /\ lo \in [1 .. m + 1 -> Nat]
          /\ lo[1] = RemoteOff(sess) /\ lo[m + 1] = RunEnd(sess.forward, r)
          /\ \A i \in 1 .. m :
                /\ sess.forward[i] \in Segment /\ Held(sess.forward[i], n)
                /\ sess.port # "https" => Stored(sess.forward[i], n)
                /\ r[i] \in Sends(sess.forward[i])
                /\ lo[i] = Place(sess.forward[i])
                /\ lo[i + 1] = lo[i] + Counted(sess.forward[i], r[i])
                /\ lo[i] <= lo[i + 1]
      BY <3>1, RunFollows
    <3> HIDE DEF m, lo
    <3> QED BY <3>2
  <2>2. \A i \in 1 .. m : i \in DOMAIN sess.forward
    BY RunSegments DEF Carries, Held
  <2> HIDE DEF m, lo
  <2>3. ASSUME NEW i \in 1 .. m
        PROVE  Stored(sess.forward[i], n) /\ Place(sess.forward[i]) = FirstByte(sess.forward[i])
    BY <2>1, <2>2, NextSeqOff DEF Place
  <2> QED BY <2>1, <2>3
<1> HIDE DEF m, lo
<1>2. /\ TakenOf(r) = FlattenSeq(ss) /\ Len(ss) = m
      /\ \A i \in 1 .. m : ss[i] = Taken(sess.port, sess.forward[i], r[i])
  BY <1>1, RunPieces
<1> HIDE DEF ss
<1>3. ASSUME NEW i \in 1 .. m
      PROVE  lo[i] <= lo[i + 1] /\ ss[i] = Bytes(lo[i], lo[i + 1] - 1)
  <2> DEFINE g == sess.forward[i]
             e == r[i]
  <2>1. /\ g \in Segment /\ Stored(g, n) /\ e \in Sends(g) /\ lo[i] = FirstByte(g)
        /\ lo[i + 1] = lo[i] + Counted(g, e) /\ lo[i] <= lo[i + 1]
        /\ ss[i] = Taken(sess.port, g, e)
    BY <1>1, <1>2
  <2> HIDE DEF g, e
  <2>2. Taken(sess.port, g, e) = Bytes(FirstByte(g), FirstByte(g) + Counted(g, e) - 1)
    BY <2>1, TakenWhole
  <2>3. /\ FirstByte(g) + Counted(g, e) = lo[i + 1] /\ FirstByte(g) = lo[i]
        /\ FirstByte(g) \in Nat /\ Counted(g, e) \in Nat
    BY <1>1, <2>1, TakenAscends DEF FirstByte, Segment
  <2>4. FirstByte(g) + Counted(g, e) - 1 = lo[i + 1] - 1
    BY <2>3
  <2>5. ss[i] = Bytes(lo[i], lo[i + 1] - 1)
    BY <2>1, <2>2, <2>3, <2>4, Zenon
  <2> QED BY <2>1, <2>5
<1>4. FlattenSeq(ss) = Bytes(lo[1], lo[m + 1] - 1)
  BY <1>1, <1>2, <1>3, FlattenBytes
<1> QED BY <1>1, <1>2, <1>4

LEMMA RunTakesNothing ==
    ASSUME sess \in Session, sock.conn # "connected",
           NEW n \in Nat, n + 3 < SeqSpace,
           \A i \in DOMAIN sess.forward : Stored(sess.forward[i], n),
           NEW r \in ForwardRuns, r # <<>>
    PROVE  TakenOf(r) = <<>>
<1> DEFINE m == Len(r)
           lo == RunStarts(sess.forward, r)
           ss == [i \in DOMAIN r |-> Taken(sess.port, sess.forward[i], r[i])]
           zero == [i \in 1 .. m + 1 |-> 0]
<1>1. /\ m \in Nat \ {0} /\ DOMAIN r = 1 .. m
      /\ \A i \in 1 .. m : /\ sess.forward[i] \in Segment /\ Stored(sess.forward[i], n)
                           /\ r[i] \in Sends(sess.forward[i])
  <2>1. /\ m \in Nat \ {0} /\ DOMAIN r = 1 .. m
        /\ \A i \in 1 .. m : sess.forward[i] \in Segment /\ r[i] \in Sends(sess.forward[i])
    BY RunFollows DEF Carries, Held
  <2>2. \A i \in 1 .. m : i \in DOMAIN sess.forward
    BY RunSegments DEF Carries, Held
  <2> HIDE DEF m
  <2> QED BY <2>1, <2>2
<1> HIDE DEF m
<1>2. /\ TakenOf(r) = FlattenSeq(ss) /\ Len(ss) = m
      /\ \A i \in 1 .. m : ss[i] = Taken(sess.port, sess.forward[i], r[i])
  BY <1>1, RunPieces
<1> HIDE DEF ss
<1>3. zero \in [1 .. m + 1 -> Nat] /\ zero[1] = 0 /\ zero[m + 1] = 0
  BY <1>1
<1>4. ASSUME NEW i \in 1 .. m
      PROVE  zero[i] <= zero[i + 1] /\ Ascends(ss[i], zero[i], zero[i + 1])
  <2>1. zero[i] = 0 /\ zero[i + 1] = 0
    BY <1>1
  <2>2. Ascends(ss[i], 0, 0)
    BY <1>1, <1>2, TakenNone
  <2> HIDE DEF zero
  <2> QED BY <2>1, <2>2
<1> HIDE DEF zero
<1>5. Ascends(FlattenSeq(ss), zero[1], zero[m + 1])
  BY <1>1, <1>2, <1>3, <1>4, FlattenAscends
<1>6. TakenOf(r) \in Seq(Nat) /\ \A i \in DOMAIN TakenOf(r) : TakenOf(r)[i] < 0
  BY <1>2, <1>3, <1>5 DEF Ascends
<1>7. \A i \in DOMAIN TakenOf(r) : TakenOf(r)[i] \in Nat
  BY <1>6
<1>8. DOMAIN TakenOf(r) = {}
  BY <1>6, <1>7
<1> QED BY <1>6, <1>8

-----------------------------------------------------------------------------
(***************************************************************************)
(* Exact: remote_seq against the number of bytes that upstream took, while *)
(* the connection to it stands.                                            *)
(***************************************************************************)

\* No event is reported of a connection that is still being made.
Awaited == ev # {} => sock.conn # "connecting"

History == upstream = Bytes(1, Len(upstream)) /\ Len(upstream) <= app.nxt

\* The connection to upstream has not failed; it has ended when the engine has sent
\* its FIN.
Standing ==
    sock.conn \in {"connecting", "connected"} \/ sess.state \in {"FIN_WAIT1", "LAST_ACK"}

\* The SYN, the bytes upstream took, and the FIN, which follows all of them.
AtBytes ==
    \/ RemoteOff(sess) = 1 + Len(upstream)
    \/ /\ RemoteOff(sess) = 0 /\ upstream = <<>> /\ sess.forward = <<>>
       /\ sess.state \in {"LISTEN"} \cup Over
    \/ /\ RemoteOff(sess) = 2 + Len(upstream) /\ FinConfirmed(sess)
       /\ "loss" \notin Faults => Len(upstream) = app.nxt

Exact ==
    /\ Awaited /\ History
    /\ sess # NoSession /\ Standing => AtBytes

LEMMA BytesAre ==
    ASSUME NEW lo \in Nat, NEW hi \in Nat, lo <= hi
    PROVE  /\ Bytes(lo, hi - 1) \in Seq(Nat) /\ Len(Bytes(lo, hi - 1)) = hi - lo
           /\ \A i \in 1 .. hi - lo : Bytes(lo, hi - 1)[i] = lo + i - 1
BY DEF Bytes

LEMMA NoBytes == ASSUME NEW n \in Nat PROVE Bytes(n, n - 1) = <<>>
<1>1. Bytes(n, n - 1) \in Seq(Nat) /\ Len(Bytes(n, n - 1)) = n - n
  BY BytesAre
<1> QED BY <1>1

LEMMA NothingBelow ==
    ASSUME NEW s \in Seq(Nat), \A i \in DOMAIN s : s[i] < 0
    PROVE  s = <<>> /\ Len(s) = 0
<1>1. \A i \in DOMAIN s : s[i] \in Nat
  OBVIOUS
<1>2. DOMAIN s = {}
  BY <1>1
<1> QED BY <1>2

LEMMA InitExact == Init => Exact
<1> SUFFICES ASSUME Init PROVE Exact
  OBVIOUS
<1>1. PICK port \in Ports :
          app = [port |-> port, phase |-> "idle", nxt |-> 0, fin |-> FALSE,
                 ack |-> 0, edge |-> 0]
  BY DEF Init
<1>2. app.nxt = 0 /\ upstream = <<>> /\ Len(upstream) = 0 /\ ev = {} /\ sess = NoSession
  BY <1>1 DEF Init
<1>3. Bytes(1, 0) = <<>>
  <2>1. Bytes(1, 1 - 1) \in Seq(Nat) /\ Len(Bytes(1, 1 - 1)) = 1 - 1
    BY BytesAre
  <2> QED BY <2>1
<1> QED BY <1>2, <1>3 DEF Exact, Awaited, History

LEMMA NextAwaited ==
    ASSUME IInv, Awaited, [Next]_vars
    PROVE  Awaited'
<1>1. ev # {} => sess # NoSession
  BY DEF IInv, Control, EventsOfOpenSocket
<1>2. CASE EpollWait
  BY <1>2 DEF EpollWait, Ready, Awaited
<1>3. CASE check_tcp_socket
  BY <1>3 DEF check_tcp_socket, Awaited
<1>4. CASE \E due \in BOOLEAN : Loop(due)
  BY <1>4 DEF Loop, Awaited
<1>5. CASE AppStep
  <2>1. ASSUME NEW p, handle_tcp(p) PROVE Awaited'
    <3>1. UNCHANGED ev
      BY <2>1 DEF handle_tcp
    <3>2. CASE ev = {}
      BY <3>1, <3>2 DEF Awaited
    <3>3. CASE ev # {}
      <4>1. sock'.conn = sock.conn
        <5>1. Tunnelling(p) \/ KnownSession(p)
          BY <1>1, <2>1, <3>3 DEF handle_tcp, NewSession, UnknownSession
        <5>2. sock \in Sockets
          BY DEF IInv, TypeOK
        <5> QED BY <5>1, <5>2 DEF Tunnelling, KnownSession, Sockets
      <4> QED BY <3>1, <4>1 DEF Awaited
    <3> QED BY <3>2, <3>3
  <2>2. CASE AppLoses \/ AppSilent
    BY <2>2 DEF AppLoses, AppSilent, Awaited
  <2> QED BY <1>5, <2>1, <2>2 DEF AppStep, AppSyn, AppData, AppFin, AppAck, AppReset, AppSends
<1>6. CASE Network \/ Drain
  <2>1. sock \in Sockets /\ ev' = ev
    BY <1>6 DEF IInv, TypeOK, Network, Drain
  <2>2. SockMoves
    BY <1>6, NetworkMoves
  <2> QED BY <2>1, <2>2 DEF SockMoves, Awaited
<1>7. CASE Tick
  BY <1>7 DEF Tick, Awaited
<1>8. CASE UNCHANGED vars
  BY <1>8 DEF vars, Awaited
<1> QED BY <1>2, <1>3, <1>4, <1>5, <1>6, <1>7, <1>8 DEF Next, Engine

LEMMA RestedAt ==
    ASSUME IInv, OneStream, Order, Rested, AtBytes
    PROVE  AtBytes'
<1>1. sess # NoSession /\ Quiet(sess, sess') /\ UNCHANGED <<app, upstream>> /\ sess \in Session
  BY SessionOf DEF Rested, IInv
<1>2. sess'.forward = sess.forward
  BY <1>1 DEF Quiet
<1>3. CASE sess'.remote_seq = sess.remote_seq /\ (sess'.state = sess.state \/ sess'.state \in Over)
  <2>1. RemoteOff(sess') = RemoteOff(sess)
    BY <1>3 DEF RemoteOff
  <2>2. FinConfirmed(sess) => FinConfirmed(sess)'
    BY <1>1, <1>2, <1>3 DEF FinConfirmed
  <2> QED BY <1>1, <1>2, <1>3, <2>1, <2>2 DEF AtBytes
<1>4. CASE /\ sess.state = "LISTEN" /\ sess'.state = "CLOSING"
           /\ sess'.remote_seq = SeqAdd(sess.remote_seq, 1)
  <2>1. RemoteOff(sess) = 0 /\ \A i \in DOMAIN upstream : upstream[i] < 0
    BY <1>1, <1>4 DEF Order, OrderOfSession
  <2>2. RemoteOff(sess') = 1
    BY <1>1, <1>4, <2>1, RemoteOneMore, SeqSpaceAssumption
  <2>3. Len(upstream) = 0
    <3>1. upstream \in Seq(Nat)
      BY DEF Order, OrderOfApp
    <3> QED BY <2>1, <3>1, NothingBelow
  <2> QED BY <1>1, <2>2, <2>3 DEF AtBytes
<1> QED BY <1>1, <1>3, <1>4 DEF Quiet

LEMMA AnsweredAt ==
    ASSUME IInv, OneStream, Order, Answered
    PROVE  AtBytes'
<1>1. sess # NoSession /\ Answers(sess, sess') /\ UNCHANGED <<app, upstream>> /\ sess \in Session
  BY SessionOf DEF Answered, IInv
<1>2. RemoteOff(sess) = 0 /\ \A i \in DOMAIN upstream : upstream[i] < 0
  BY <1>1 DEF Order, OrderOfSession, Answers
<1>3. RemoteOff(sess') = 1
  BY <1>1, <1>2, RemoteOneMore, SeqSpaceAssumption DEF Answers
<1>4. Len(upstream) = 0
  <2>1. upstream \in Seq(Nat)
    BY DEF Order, OrderOfApp
  <2> QED BY <1>2, <2>1, NothingBelow
<1> QED BY <1>1, <1>3, <1>4 DEF AtBytes

LEMMA ElsewhereAt ==
    ASSUME IInv, Elsewhere, AtBytes
    PROVE  AtBytes'
<1>1. UNCHANGED <<sess, upstream>> /\ AppGrows
  BY DEF Elsewhere
<1>2. RemoteOff(sess)' = RemoteOff(sess) /\ (FinConfirmed(sess) => FinConfirmed(sess)' /\ app'.nxt = app.nxt)
  BY <1>1 DEF RemoteOff, FinConfirmed, AppGrows
<1> QED BY <1>1, <1>2 DEF AtBytes

\* An empty queue that covers every byte from n on: the app has sent none of them.
LEMMA NothingLeft ==
    ASSUME NEW n \in Nat \ {0}, NEW last \in Nat, Covers(<<>>, n, last)
    PROVE  last < n
<1> SUFFICES ASSUME n <= last PROVE FALSE
  OBVIOUS
<1>1. n \in 1 .. last
  OBVIOUS
<1>2. \E i \in DOMAIN <<>> : <<>>[i].off <= n /\ n < End(<<>>[i])
  BY <1>1 DEF Covers
<1> QED BY <1>2

LEMMA ReceivesAt ==
    ASSUME IInv, OneStream, SegmentsApart, SegmentsOneSide, Order, Queue, History, AtBytes,
           sess # NoSession, sess' \in Session, NEW p, Says(p), AppGrows,
           Receives(sess, sess', p), UNCHANGED upstream
    PROVE  AtBytes'
<1>1. /\ sess \in Session /\ p \in Packets /\ Len(upstream) \in Nat
      /\ app.nxt \in Nat /\ app.nxt + 3 < SeqSpace /\ app.nxt <= app'.nxt
      /\ Len(upstream) <= app.nxt
  BY SessionOf, SentFits DEF IInv, Says, AppGrows, History, Order, OrderOfApp
<1>2. app'.nxt \in Nat
  <2>1. app'.nxt = app.nxt \/ \E g \in Segments : app'.nxt = g[1] + g[2] - 1
    BY DEF AppGrows
  <2> QED BY <1>1, <2>1, TcpAssumption
<1>3. ASSUME sess.state = "LISTEN" PROVE SaysSyn(p) /\ Queued(sess, p) = sess.forward
  <2>1. SaysSyn(p)
    BY <1>3, ListenSyn DEF Order, OrderOfSession
  <2> QED BY <2>1 DEF SaysSyn, Queued
<1>4. CASE sess'.remote_seq = sess.remote_seq
  <2>1. RemoteOff(sess') = RemoteOff(sess)
    BY <1>4 DEF RemoteOff
  <2>2. CASE RemoteOff(sess) = 1 + Len(upstream)
    BY <2>1, <2>2 DEF AtBytes
  <2>3. CASE /\ RemoteOff(sess) = 0 /\ upstream = <<>> /\ sess.forward = <<>>
             /\ sess.state \in {"LISTEN"} \cup Over
    <3>1. sess'.forward = <<>> /\ sess'.state \in {"LISTEN"} \cup Over
      <4>1. CASE sess.state = "LISTEN"
        BY <1>3, <2>3, <4>1 DEF Receives, Rejects, Accepts
      <4>2. CASE sess.state \in Over
        BY <2>3, <4>2 DEF Receives, Rejects, Accepts
      <4> QED BY <2>3, <4>1, <4>2
    <3> QED BY <2>1, <2>3, <3>1 DEF AtBytes
  <2>4. CASE /\ RemoteOff(sess) = 2 + Len(upstream) /\ FinConfirmed(sess)
             /\ "loss" \notin Faults => Len(upstream) = app.nxt
    <3>1. FinConfirmed(sess)'
      BY <1>1, <2>4, FinStaysConfirmed
    <3>2. app'.nxt = app.nxt
      BY <2>4 DEF FinConfirmed, AppGrows
    <3> QED BY <2>1, <2>4, <3>1, <3>2 DEF AtBytes
  <2> QED BY <2>2, <2>3, <2>4 DEF AtBytes
<1>5. CASE /\ sess.state = "LISTEN" /\ sess'.state = "CLOSING"
           /\ sess'.remote_seq = SeqAdd(sess.remote_seq, 1)
  <2>1. RemoteOff(sess) = 0
    BY <1>5 DEF Order, OrderOfSession
  <2>2. Len(upstream) = 0
    BY <1>1, <2>1 DEF AtBytes
  <2>3. RemoteOff(sess') = 1
    BY <1>1, <1>5, <2>1, RemoteOneMore, SeqSpaceAssumption
  <2> QED BY <2>2, <2>3 DEF AtBytes
<1>6. CASE /\ sess'.remote_seq = SeqAdd(sess.remote_seq, 1)
           /\ p.fin /\ sess'.forward = <<>> /\ sess'.forward = Queued(sess, p)
           /\ sess.state \in {"ESTABLISHED", "FIN_WAIT1"}
           /\ sess'.state \in {"CLOSE_WAIT"} \cup Over
  <2>1. RemoteOff(sess) = 1 + Len(upstream)
    BY <1>6 DEF AtBytes, FinConfirmed, Over
  <2>2. RemoteOff(sess') = 2 + Len(upstream)
    <3>1. RemoteOff(sess) + 1 < SeqSpace
      BY <1>1, <2>1, SeqSpaceAssumption
    <3>2. RemoteOff(sess') = RemoteOff(sess) + 1
      BY <1>1, <1>6, <3>1, RemoteOneMore
    <3> QED BY <1>1, <2>1, <3>2
  <2>3. FinConfirmed(sess)'
    <3>1. app'.fin
      BY <1>6 DEF Says, SaysSyn, SaysMore
    <3> QED BY <1>6, <3>1 DEF FinConfirmed
  <2>4. ASSUME "loss" \notin Faults PROVE Len(upstream) = app'.nxt
    <3>1. sess.state \notin Over
      BY <1>6 DEF Over
    <3>2. Covers(<<>>, 1 + Len(upstream), app'.nxt)
      BY <1>2, <1>6, <2>1, <2>4, <3>1, QueuedQueue
    <3>3. app'.nxt < 1 + Len(upstream)
      BY <1>1, <1>2, <3>2, NothingLeft
    <3> QED BY <1>1, <1>2, <3>3
  <2> QED BY <2>2, <2>3, <2>4 DEF AtBytes
<1> QED BY <1>4, <1>5, <1>6 DEF Receives, Rejects, Accepts, Over

\* What a turn gives upstream: the bytes that follow those it has, up to the last
\* one below remote_seq.
Extends == \E e \in Len(upstream) .. app.nxt :
               upstream' = upstream \o Bytes(Len(upstream) + 1, e) /\ Len(upstream') = e

LEMMA ExtendsHistory ==
    ASSUME History, NEW e \in Nat, Len(upstream) + 1 <= e, e <= app.nxt + 1,
           app.nxt \in Nat, Len(upstream) \in Nat,
           upstream' = upstream \o Bytes(Len(upstream) + 1, e - 1), UNCHANGED app
    PROVE  Extends /\ History' /\ Len(upstream') = e - 1
<1> DEFINE t == Len(upstream)
<1>1. Bytes(1, (t + 1) - 1) \o Bytes(t + 1, e - 1) = Bytes(1, e - 1)
  <2> HIDE DEF t
  <2>1. t \in Nat /\ 1 <= t + 1 /\ t + 1 <= e /\ t + 1 \in Nat
    BY DEF t
  <2> QED BY <2>1, BytesJoin
<1>2. Bytes(1, (t + 1) - 1) = upstream
  <2>1. (t + 1) - 1 = t
    OBVIOUS
  <2>2. upstream = Bytes(1, t)
    BY DEF History
  <2> QED BY <2>1, <2>2, Zenon
<1>3. upstream' = Bytes(1, e - 1)
  BY <1>1, <1>2
<1>4. Len(upstream') = e - 1
  <2>1. Len(Bytes(1, e - 1)) = e - 1
    BY BytesAre
  <2> QED BY <1>3, <2>1
<1>5. e - 1 \in t .. app.nxt
  OBVIOUS
<1>6. Extends
  <2> USE DEF Extends
  <2> WITNESS e - 1 \in Len(upstream) .. app.nxt
  <2> QED BY <1>4
<1>7. History'
  <2>1. upstream' = Bytes(1, Len(upstream'))
    BY <1>3, <1>4
  <2>2. Len(upstream') <= app'.nxt
    BY <1>4, <1>5
  <2> QED BY <2>1, <2>2 DEF History
<1> QED BY <1>4, <1>6, <1>7

\* A turn that sends nothing, or finds the connection failed, gives upstream nothing.
LEMMA TurnIdle ==
    ASSUME IInv, OneStream, SendsTell, Order, History, Transferred,
           NEW r, NEW f, NEW s, NEW k, Turns(r, f, s, k),
           r = <<>> \/ sock.conn # "connected"
    PROVE  /\ upstream' = upstream /\ Extends /\ History'
           /\ r = <<>> => /\ RemoteOff(sess') = RemoteOff(sess)
                          /\ sess'.forward = sess.forward
<1>1. /\ sess # NoSession /\ sess \in Session /\ UNCHANGED app
      /\ app.nxt \in Nat /\ app.nxt + 3 < SeqSpace
      /\ upstream \in Seq(Nat) /\ Len(upstream) \in Nat
      /\ RunKeeps(r, f, app.nxt) /\ r \in ForwardRuns
      /\ \A i \in DOMAIN sess.forward : Stored(sess.forward[i], app.nxt)
  BY SessionOf, SentFits DEF IInv, Transferred, Order, OrderOfApp, OrderOfSession, Turns
<1>2. TakenOf(r) = <<>>
  <2>1. CASE r = <<>>
    BY <1>1, <2>1 DEF RunKeeps
  <2>2. CASE r # <<>>
    BY <1>1, <2>2, RunTakesNothing
  <2> QED BY <2>1, <2>2
<1>3. upstream' = upstream
  <2>1. upstream' = upstream \o <<>>
    BY <1>2 DEF Turns
  <2> QED BY <1>1, <2>1
<1>4. Extends /\ History'
  <2> DEFINE e == Len(upstream) + 1
  <2>1. e \in Nat /\ Len(upstream) + 1 <= e /\ e <= app.nxt + 1
    BY <1>1 DEF History
  <2>2. Bytes(e, e - 1) = <<>>
    <3> HIDE DEF e
    <3> QED BY <2>1, NoBytes
  <2>3. upstream' = upstream \o Bytes(Len(upstream) + 1, e - 1)
    BY <1>2, <2>2 DEF Turns
  <2> HIDE DEF e
  <2> QED BY <1>1, <2>1, <2>3, ExtendsHistory
<1>5. ASSUME r = <<>>
      PROVE  RemoteOff(sess') = RemoteOff(sess) /\ sess'.forward = sess.forward
  <2>1. f = sess
    BY <1>1, <1>5 DEF RunKeeps
  <2>2. sess'.forward = f.forward /\ sess'.remote_seq = f.remote_seq
    BY <1>5, TurnMoves
  <2> QED BY <2>1, <2>2 DEF RemoteOff
<1> QED BY <1>3, <1>4, <1>5

\* A turn that sends on a connection that stands.
LEMMA TurnSends ==
    ASSUME IInv, OneStream, SendsTell, Order, Queue, History, AtBytes, Transferred,
           NEW r, NEW f, NEW s, NEW k, Turns(r, f, s, k),
           r # <<>>, sock.conn = "connected"
    PROVE  Extends /\ History' /\ AtBytes'
<1>1. /\ sess # NoSession /\ sess \in Session /\ UNCHANGED app
      /\ app.nxt \in Nat /\ app.nxt + 3 < SeqSpace /\ Len(upstream) \in Nat
      /\ RunKeeps(r, f, app.nxt) /\ r \in ForwardRuns /\ f = Forwarded(sess, r)
      /\ \A i \in DOMAIN sess.forward : Stored(sess.forward[i], app.nxt)
  BY SessionOf, SentFits DEF IInv, Transferred, Order, OrderOfApp, OrderOfSession, Turns
<1>2. sess.forward # <<>> /\ RemoteOff(f) \in Nat /\ RemoteOff(f) <= app.nxt + 1
      /\ RemoteOff(sess) <= RemoteOff(f)
  BY <1>1 DEF RunKeeps, OneStream, Session
<1>3. RemoteOff(sess) = 1 + Len(upstream)
  BY <1>2 DEF AtBytes, FinConfirmed
<1> DEFINE e == RemoteOff(f)
<1>4. RunEnd(sess.forward, r) = e
  <2>1. RemoteOff(Forwarded(sess, r)) = RunEnd(sess.forward, r)
    BY <1>1, RunForwarded DEF Carries, Held
  <2> QED BY <1>1, <2>1
<1>5. TakenOf(r) = Bytes(Len(upstream) + 1, e - 1)
  <2>1. TakenOf(r) = Bytes(RemoteOff(sess), RunEnd(sess.forward, r) - 1)
    BY <1>1, RunTakesAll
  <2>2. RemoteOff(sess) = Len(upstream) + 1
    BY <1>1, <1>3
  <2> QED BY <1>4, <2>1, <2>2
<1>6. upstream' = upstream \o Bytes(Len(upstream) + 1, e - 1)
  BY <1>5 DEF Turns
<1>7. Extends /\ History' /\ Len(upstream') = e - 1
  <2>1. e \in Nat /\ Len(upstream) + 1 <= e /\ e <= app.nxt + 1
    BY <1>1, <1>2, <1>3
  <2> HIDE DEF e
  <2> QED BY <1>1, <1>6, <2>1, ExtendsHistory
<1>8. AtBytes'
  <2>1. CASE RemoteOff(sess') = RemoteOff(f)
    <3>1. RemoteOff(sess') = 1 + Len(upstream')
      BY <1>2, <1>7, <2>1
    <3> QED BY <3>1 DEF AtBytes
  <2>2. CASE /\ RemoteOff(sess') = RemoteOff(f) + 1
             /\ f.forward = <<>> /\ sess.state = "CLOSE_WAIT"
    <3>1. RemoteOff(sess') = 2 + Len(upstream')
      BY <1>2, <1>7, <2>2
    <3>2. FinConfirmed(sess)'
      <4>1. app.fin
        BY <1>1, <2>2 DEF Order, OrderOfSession
      <4>2. sess'.forward = <<>> /\ sess'.state \in {"CLOSE_WAIT", "CLOSING", "LAST_ACK"}
        BY <2>2, TurnMoves
      <4> QED BY <1>1, <4>1, <4>2 DEF FinConfirmed, Over
    <3>3. ASSUME "loss" \notin Faults PROVE Len(upstream') = app'.nxt
      <4>1. Covers(<<>>, e, app.nxt)
        BY <1>1, <2>2, <3>3, TurnQueue DEF Over
      <4>2. e \in Nat \ {0}
        BY <1>1, <1>2, <1>3
      <4>3. app.nxt < e
        <5> HIDE DEF e
        <5> QED BY <1>1, <4>1, <4>2, NothingLeft
      <4> QED BY <1>1, <1>2, <1>7, <4>3
    <3> QED BY <3>1, <3>2, <3>3 DEF AtBytes
  <2>3. RemoteOff(sess) \in Nat /\ RemoteOff(sess) <= app.nxt + 2
    BY <1>1, FlowTypes, FlowIsOrder DEF OneStream
  <2> QED BY <1>1, <2>1, <2>2, <2>3, TurnRemote
<1> QED BY <1>7, <1>8

LEMMA TransferredAt ==
    ASSUME IInv, OneStream, SendsTell, Order, Queue, Exact, Transferred
    PROVE  /\ Extends /\ History' /\ (Standing => AtBytes')
           /\ Standing \/ upstream' = upstream
<1>1. PICK r, f, s, k : Turns(r, f, s, k)
  BY FlowIsOrder, TransferredTurns DEF OneStream
<1>2. /\ sess # NoSession /\ sess.state \notin {"LISTEN", "FIN_WAIT1", "LAST_ACK", "CLOSE"}
      /\ sock.conn # "connecting" /\ UNCHANGED app
      /\ History /\ (Standing => AtBytes)
  BY EventSession DEF Transferred, Exact, Awaited
<1>3. Standing <=> sock.conn = "connected"
  BY <1>2 DEF Standing
<1>4. CASE r # <<>> /\ sock.conn = "connected"
  BY <1>1, <1>2, <1>3, <1>4, TurnSends
<1>5. CASE r = <<>> \/ sock.conn # "connected"
  <2>1. /\ upstream' = upstream /\ Extends /\ History'
        /\ r = <<>> => RemoteOff(sess') = RemoteOff(sess) /\ sess'.forward = sess.forward
    BY <1>1, <1>2, <1>5, TurnIdle
  <2>2. ASSUME Standing PROVE AtBytes'
    <3>1. /\ AtBytes /\ r = <<>>
          /\ RemoteOff(sess') = RemoteOff(sess) /\ sess'.forward = sess.forward
      BY <1>2, <1>3, <1>5, <2>1, <2>2
    <3>2. \/ sess'.state \in {sess.state, "CLOSING"}
          \/ sess.state = "ESTABLISHED" /\ sess'.state = "FIN_WAIT1"
          \/ sess.state = "CLOSE_WAIT" /\ sess'.state = "LAST_ACK"
      BY <1>1, TurnMoves
    <3>3. FinConfirmed(sess) => FinConfirmed(sess)'
      BY <1>2, <3>1, <3>2 DEF FinConfirmed, Over
    <3>4. sess.state \in Over => sess'.state \in Over
      BY <3>2 DEF Over
    <3> QED BY <1>2, <2>1, <3>1, <3>3, <3>4 DEF AtBytes
  <2> QED BY <2>1, <2>2
<1> QED BY <1>3, <1>4, <1>5

LEMMA OpensAt ==
    ASSUME IInv, OneStream, Order, NEW p, Says(p), Opens(p), UNCHANGED upstream
    PROVE  /\ AtBytes' /\ upstream = <<>> /\ app'.nxt = app.nxt
           /\ RemoteOff(sess') = 0 /\ LocalOff(sess') = 0
<1>1. SaysSyn(p)
  BY DEF Says, SaysMore, Opens
<1>2. /\ sess'.forward = <<>> /\ sess'.remote_seq = RemoteStart /\ sess'.local_seq = LocalStart
      /\ sess'.state = "LISTEN"
  BY <1>1 DEF Opens, SaysSyn
<1>3. RemoteOff(sess') = 0 /\ LocalOff(sess') = 0
  BY <1>2, DistSelf, TcpAssumption DEF RemoteOff, LocalOff
<1>4. upstream = <<>> /\ app'.nxt = app.nxt
  BY <1>1 DEF SaysSyn, Order, OrderOfApp
<1> QED BY <1>2, <1>3, <1>4 DEF AtBytes

\* While the connection stands, each step keeps remote_seq where it belongs.
LEMMA NextAt ==
    ASSUME IInv, OneStream, SegmentsApart, SegmentsOneSide, SendsTell, Order, Queue, Exact,
           [Next]_vars, sess # NoSession, sess' # NoSession, Standing
    PROVE  AtBytes'
<1>1. Untunnelled
  BY UntunnelledOf DEF Order, OrderOfSession
<1>2. AtBytes /\ History
  BY DEF Exact
<1>3. CASE Rested
  BY <1>2, <1>3, RestedAt
<1>4. CASE Freed
  BY <1>4 DEF Freed
<1>5. CASE Answered
  BY <1>5, AnsweredAt
<1>6. CASE Transferred
  BY <1>6, TransferredAt
<1>7. CASE Received
  <2>1. PICK p : Says(p) /\ AppGrows /\ Heard(p) /\ UNCHANGED upstream
    BY <1>7 DEF Received
  <2>2. sess' \in Session /\ Receives(sess, sess', p)
    BY <2>1 DEF Heard, Opens
  <2> QED BY <1>2, <2>1, <2>2, ReceivesAt
<1>8. CASE Elsewhere
  BY <1>2, <1>8, ElsewhereAt
<1> QED BY <1>1, <1>3, <1>4, <1>5, <1>6, <1>7, <1>8, PlainStep

\* A connection does not come back to stand.
LEMMA StoodBefore ==
    ASSUME IInv, OneStream, Order, [Next]_vars, sess # NoSession, sess' # NoSession,
           Standing'
    PROVE  Standing
<1>1. Untunnelled /\ sock \in Sockets
  BY UntunnelledOf DEF Order, OrderOfSession, IInv, TypeOK
<1>2. CASE Rested
  <2>1. sock'.conn \in {sock.conn, "none", "dead"}
    BY <1>1, <1>2 DEF Rested, NoSocket, Sockets
  <2>2. sess'.state = sess.state \/ sess'.state \in Over
    BY <1>2 DEF Rested, Quiet, Over
  <2> QED BY <2>1, <2>2 DEF Standing, Over
<1>3. CASE Freed
  BY <1>3 DEF Freed
<1>4. CASE Answered
  BY <1>4 DEF Answered, Answers, Standing
<1>5. CASE Transferred
  <2>1. PICK r, f, s, k : Turns(r, f, s, k)
    BY <1>5, FlowIsOrder, TransferredTurns DEF OneStream
  <2>2. \/ sess'.state \in {sess.state, "CLOSING"}
        \/ sock.conn = "connected"
    BY <2>1, TurnMoves
  <2>3. sock'.conn \in {sock.conn, "none"}
    <3>1. k \in Sockets /\ k.conn = sock.conn /\ Reads(s, sess', k, sock')
      BY <2>1 DEF Turns
    <3>2. \/ sock' \in {k, NoSocket}
          \/ \E n \in Nat : sock' = [k EXCEPT !.avail = @ - n]
      BY <3>1 DEF Reads
    <3>3. ASSUME NEW n \in Nat, sock' = [k EXCEPT !.avail = @ - n] PROVE sock'.conn = k.conn
      BY <3>1, <3>3 DEF Sockets
    <3> QED BY <3>1, <3>2, <3>3 DEF NoSocket
  <2> QED BY <2>2, <2>3 DEF Standing
<1>6. CASE Received
  <2>1. PICK p : Says(p) /\ Heard(p)
    BY <1>6 DEF Received
  <2>2. Receives(sess, sess', p) /\ UNCHANGED sock
    BY <2>1 DEF Heard, Opens
  <2>3. sess'.state \in {"FIN_WAIT1", "LAST_ACK"} => sess'.state = sess.state
    BY <2>2 DEF Receives, Rejects, Accepts, Over
  <2> QED BY <2>2, <2>3 DEF Standing
<1>7. CASE Elsewhere
  BY <1>7 DEF Elsewhere, SockMoves, Standing
<1> QED BY <1>1, <1>2, <1>3, <1>4, <1>5, <1>6, <1>7, PlainStep

LEMMA NextHistory ==
    ASSUME IInv, OneStream, SendsTell, Order, Queue, Exact, [Next]_vars
    PROVE  History'
<1>1. /\ Untunnelled /\ History /\ app.nxt \in Nat /\ Len(upstream) \in Nat
      /\ Len(upstream) <= app.nxt
  BY UntunnelledOf, SentFits DEF Order, OrderOfSession, OrderOfApp, Exact, History
<1>2. ASSUME UNCHANGED <<app, upstream>> PROVE History'
  BY <1>1, <1>2 DEF History
<1>3. ASSUME AppGrows, UNCHANGED upstream PROVE History'
  <2>1. app'.nxt \in Nat
    <3>1. app'.nxt = app.nxt \/ \E g \in Segments : app'.nxt = g[1] + g[2] - 1
      BY <1>3 DEF AppGrows
    <3> QED BY <1>1, <3>1, TcpAssumption
  <2> QED BY <1>1, <1>3, <2>1 DEF AppGrows, History
<1>4. CASE Transferred
  BY <1>4, TransferredAt
<1> QED BY <1>1, <1>2, <1>3, <1>4, PlainStep
        DEF Rested, Freed, Answered, Received, Elsewhere

LEMMA NextExact ==
    ASSUME IInv, OneStream, SegmentsApart, SegmentsOneSide, SendsTell, Order, Queue, Exact,
           [Next]_vars
    PROVE  Exact'
<1>1. Awaited' /\ History'
  BY NextAwaited, NextHistory DEF Exact
<1>2. ASSUME sess' # NoSession, Standing' PROVE AtBytes'
  <2>1. CASE sess = NoSession
    <3>1. Untunnelled
      BY <2>1 DEF Untunnelled
    <3>2. Received \/ Elsewhere
      BY <2>1, <3>1, PlainStep DEF Rested, Freed, Answered, Transferred
    <3>3. Received
      BY <1>2, <2>1, <3>2 DEF Elsewhere
    <3>4. PICK p : Says(p) /\ Heard(p) /\ UNCHANGED upstream
      BY <3>3 DEF Received
    <3>5. Opens(p)
      BY <1>2, <2>1, <3>4 DEF Heard
    <3> QED BY <3>4, <3>5, OpensAt
  <2>2. CASE sess # NoSession
    <3>1. Standing
      BY <1>2, <2>2, StoodBefore
    <3> QED BY <1>2, <2>2, <3>1, NextAt
  <2> QED BY <2>1, <2>2
<1> QED BY <1>1, <1>2 DEF Exact

\* The streams the theorems below are about.
PlainStreams == OneStream /\ SegmentsApart /\ SegmentsOneSide /\ SendsTell

Streams == IInv /\ Order /\ Queue /\ Exact

LEMMA InitStreams == PlainStreams /\ Init => Streams
BY InitInv, InitOrder, InitQueue, InitExact DEF Streams, PlainStreams

LEMMA NextStreams == PlainStreams /\ Streams /\ [Next]_vars => Streams'
BY NextInv, NextOrder, NextQueue, NextExact DEF Streams, PlainStreams

\* remote_seq is "confirmed bytes received": while a session and its connection to
\* upstream stand, check_tcp_socket has moved it only past what send took, and
\* handle_tcp past a FIN only when nothing before it is missing upstream.
THEOREM ConfirmsOnlyTaken == PlainStreams => (Spec => []AckedReachesUpstream)
<1> SUFFICES ASSUME PlainStreams PROVE Spec => []AckedReachesUpstream
  OBVIOUS
<1>1. Init => Streams
  BY InitStreams
<1>2. Streams /\ [Next]_vars => Streams'
  BY NextStreams
<1>3. Streams => AckedReachesUpstream
  <2> SUFFICES ASSUME Streams, sess # NoSession, sess.state \notin {"CLOSING", "CLOSE"},
                      sock.conn = "connected", ~(app.fin /\ "loss" \in Faults),
                      NEW b \in 1 .. app.nxt, b < RemoteOff(sess)
               PROVE  \E i \in DOMAIN upstream : upstream[i] = b
    BY DEF AckedReachesUpstream
  <2>1. /\ AtBytes /\ History /\ upstream \in Seq(Nat) /\ app.nxt \in Nat
    BY SentFits DEF Streams, Exact, Standing, Order, OrderOfApp, IInv, TypeOK, Apps
  <2>2. Len(upstream) \in Nat /\ DOMAIN upstream = 1 .. Len(upstream)
    BY <2>1
  <2>3. b \in 1 .. Len(upstream)
    BY <2>1, <2>2 DEF AtBytes, FinConfirmed
  <2>4. upstream[b] = b
    <3> DEFINE t == Len(upstream)
    <3>1. upstream = Bytes(1, t)
      BY <2>1 DEF History
    <3>2. Bytes(1, t) = [i \in 1 .. (t - 1 + 1) |-> 1 + i - 1]
      BY DEF Bytes
    <3>3. b \in 1 .. (t - 1 + 1)
      BY <2>2, <2>3
    <3>4. upstream[b] = 1 + b - 1
      BY <3>1, <3>2, <3>3
    <3> QED BY <3>4
  <2> QED BY <2>2, <2>3, <2>4
<1> QED BY <1>1, <1>2, <1>3, PTL DEF Spec

-----------------------------------------------------------------------------
(***************************************************************************)
(* The promise, step by step: every step of a session is one of Relay.     *)
(***************************************************************************)

LEMMA InitPromise == Init => Promise!Init
<1> SUFFICES ASSUME Init PROVE Promise!Init
  OBVIOUS
<1>1. PICK port \in Ports :
          app = [port |-> port, phase |-> "idle", nxt |-> 0, fin |-> FALSE,
                 ack |-> 0, edge |-> 0]
  BY DEF Init
<1>2. app.nxt = 0 /\ app.fin = FALSE /\ app.edge = 0
  BY <1>1
<1>3. sess = NoSession /\ sock.conn = "none" /\ upstream = <<>>
  BY DEF Init, NoSocket
<1> QED BY <1>2, <1>3 DEF Promise!Init, Stage, Sound

LEMMA EnvironmentMoves == AppGrows => Promise!Environment
BY DEF AppGrows, Promise!Environment

LEMMA LastTaken ==
    ASSUME NEW s, NEW t \in Nat, s = Bytes(1, t)
    PROVE  Promise!Last(s) = t
<1>1. s = [i \in 1 .. t |-> i]
  BY DEF Bytes
<1>2. s \in Seq(Nat) /\ Len(s) = t /\ \A i \in 1 .. t : s[i] = i
  BY <1>1
<1>3. s = <<>> <=> t = 0
  BY <1>2
<1> QED BY <1>2, <1>3 DEF Promise!Last

\* Upstream goes on where it was.
LEMMA TakeMoves ==
    ASSUME History, Extends, Len(upstream) \in Nat, app.nxt \in Nat, app'.nxt \in Nat,
           app.nxt <= app'.nxt
    PROVE  Promise!Take
<1> DEFINE t == Len(upstream)
<1>1. PICK e \in t .. app.nxt : upstream' = upstream \o Bytes(t + 1, e)
  BY DEF Extends
<1>2. Promise!Last(upstream) = t
  BY LastTaken DEF History
<1>3. Bytes(t + 1, e) = Promise!Bytes(t, e)
  <2>1. Bytes(t + 1, e) = [i \in 1 .. (e - (t + 1) + 1) |-> t + 1 + i - 1]
    BY DEF Bytes
  <2>2. Promise!Bytes(t, e) = [i \in 1 .. (e - t) |-> t + i]
    BY DEF Promise!Bytes
  <2> HIDE DEF t
  <2>3. t \in Nat /\ e \in Nat
    BY DEF t
  <2>4. e - (t + 1) + 1 = e - t /\ \A i \in 1 .. (e - t) : t + 1 + i - 1 = t + i
    BY <2>3
  <2> QED BY <2>1, <2>2, <2>4
<1>4. t \in t .. app'.nxt /\ e \in 0 .. app'.nxt
  BY <1>1
<1>5. upstream' = upstream \o Promise!Bytes(t, e)
  BY <1>1, <1>3
<1> HIDE DEF t
<1> QED BY <1>2, <1>4, <1>5 DEF Promise!Take

LEMMA NothingExtends ==
    ASSUME History, UNCHANGED upstream, upstream \in Seq(Nat), app.nxt \in Nat
    PROVE  Extends
<1> DEFINE t == Len(upstream)
<1>1. t \in Nat /\ t \in t .. app.nxt
  BY DEF History
<1>2. Bytes(t + 1, t) = <<>>
  <2> HIDE DEF t
  <2>1. (t + 1) - 1 = t /\ t + 1 \in Nat
    BY <1>1
  <2>2. Bytes(t + 1, (t + 1) - 1) = <<>>
    BY <2>1, NoBytes
  <2> QED BY <2>1, <2>2
<1>3. upstream' = upstream \o Bytes(t + 1, t)
  BY <1>2
<1> QED BY <1>1, <1>3 DEF Extends

\* The stages, and when the connection stands.
LEMMA StageIs ==
    /\ sess = NoSession => Stage = "none"
    /\ sess # NoSession =>
          /\ sess.state = "CLOSE" => Stage = "over"
          /\ sess.state = "CLOSING" => Stage = "ending"
          /\ sess.state \notin Over /\ sess.socket => Stage = "both"
          /\ sess.state \notin Over /\ ~sess.socket => Stage = "half"
BY DEF Stage, Over

LEMMA SoundStands ==
    ASSUME IInv, Sound, sess # NoSession, sess.state \notin Over
    PROVE  Standing
<1>1. sess \in Session /\ sock \in Sockets
  BY SessionOf DEF IInv, TypeOK
<1>2. CASE sess.socket
  BY <1>1, <1>2 DEF IInv, Control, SocketMatchesState, Sound, Standing, Sockets
<1>3. CASE ~sess.socket
  BY <1>1, <1>3 DEF IInv, Control, SocketMatchesState, Standing, Session, TcpStates, Over
<1> QED BY <1>2, <1>3

LEMMA ConfirmMoves ==
    ASSUME History', Len(upstream') \in Nat, sess # NoSession, sess' # NoSession,
           RemoteOff(sess) <= RemoteOff(sess'),
           Sound /\ Sound' => AtBytes'
    PROVE  Promise!Confirm
<1>1. Promise!Last(upstream') = Len(upstream')
  <2>1. upstream' = Bytes(1, Len(upstream'))
    BY DEF History
  <2> QED BY <2>1, LastTaken
<1>2. ASSUME Sound, Sound'
      PROVE  RemoteOff(sess') \in Promise!Confirmable(Len(upstream'), app'.nxt, app'.fin)
  <2>1. AtBytes'
    BY <1>2
  <2>2. CASE RemoteOff(sess') = 1 + Len(upstream')
    BY <2>2 DEF Promise!Confirmable
  <2>3. CASE RemoteOff(sess') = 0 /\ upstream' = <<>>
    BY <2>3 DEF Promise!Confirmable
  <2>4. CASE /\ RemoteOff(sess') = 2 + Len(upstream') /\ FinConfirmed(sess)'
             /\ "loss" \notin Faults => Len(upstream') = app'.nxt
    BY <1>2, <2>4 DEF Promise!Confirmable, FinConfirmed, Sound
  <2> QED BY <2>1, <2>2, <2>3, <2>4 DEF AtBytes
<1> QED BY <1>1, <1>2 DEF Promise!Confirm

\* What the app is given: no more than its window takes, and the end.
Passes ==
    /\ LocalOff(sess) <= LocalOff(sess')
    /\ \/ LocalOff(sess') <= 1 \/ LocalOff(sess') <= app'.edge
       \/ LocalOff(sess') = LocalOff(sess)
       \/ Stage' = "half" /\ LocalOff(sess') = LocalOff(sess) + 1

\* A step of a session that goes on is one of the promise, whatever its stage.
LEMMA StageMoves ==
    ASSUME PlainStreams, Streams, [Next]_vars, sess # NoSession, sess' # NoSession,
           AppGrows, Extends, History', RemoteOff(sess) <= RemoteOff(sess'), Passes,
           sess.state \in Over \/ ~sess.socket => LocalOff(sess') = LocalOff(sess),
           sess.state = "CLOSE" => /\ sess'.state = "CLOSE" /\ UNCHANGED upstream
                                   /\ RemoteOff(sess') = RemoteOff(sess),
           sess.state = "CLOSING" => sess'.state \in Over,
           sess.state \notin Over /\ ~sess.socket =>
               UNCHANGED upstream /\ (sess'.state \in Over \/ ~sess'.socket)
    PROVE  Promise!Next
<1>1. /\ IInv /\ Order /\ Queue /\ Exact /\ OneStream /\ SegmentsApart /\ SegmentsOneSide
      /\ SendsTell /\ History
  BY DEF Streams, PlainStreams, Exact
<1>2. sess \in Session /\ sess.socket \in BOOLEAN /\ sess.state \in TcpStates
  BY <1>1, SessionOf DEF IInv, Session
<1>3. /\ app.nxt \in Nat /\ app'.nxt \in Nat /\ app.nxt <= app'.nxt
      /\ Len(upstream) \in Nat /\ Len(upstream') \in Nat
  <2>1. app.nxt \in Nat /\ app.nxt <= app'.nxt
    BY <1>1, SentFits DEF AppGrows
  <2>2. app'.nxt = app.nxt \/ \E g \in Segments : app'.nxt = g[1] + g[2] - 1
    BY DEF AppGrows
  <2>3. app'.nxt \in Nat
    BY <2>1, <2>2, TcpAssumption
  <2>4. upstream \in Seq(Nat)
    BY <1>1 DEF Order, OrderOfApp
  <2>5. Len(upstream) \in Nat
    BY <2>4
  <2>6. PICK e \in Len(upstream) .. app.nxt : Len(upstream') = e
    BY DEF Extends
  <2>7. Len(upstream') \in Nat
    BY <2>1, <2>5, <2>6
  <2> QED BY <2>1, <2>3, <2>5, <2>7
<1>4. Promise!Environment
  BY EnvironmentMoves
<1>5. Promise!Take
  BY <1>1, <1>3, TakeMoves
<1>6. Promise!Pass
  BY DEF Passes, Promise!Pass
<1>7. sess.state \notin Over => Promise!Confirm
  <2> SUFFICES ASSUME sess.state \notin Over PROVE Promise!Confirm
    OBVIOUS
  <2>1. Sound /\ Sound' => AtBytes'
    <3> SUFFICES ASSUME Sound PROVE AtBytes'
      OBVIOUS
    <3>1. Standing
      BY <1>1, SoundStands
    <3> QED BY <1>1, <3>1, NextAt
  <2> QED BY <1>3, <2>1, ConfirmMoves
<1>8. /\ sess'.state \in Over => Stage' \in {"ending", "over"}
      /\ sess'.state \notin Over => Stage' = IF sess'.socket THEN "both" ELSE "half"
      /\ sess'.state = "CLOSE" => Stage' = "over"
  BY DEF Stage, Over
<1>9. CASE sess.state = "CLOSE"
  <2>1. Stage = "over" /\ Stage' = "over"
    BY <1>8, <1>9, StageIs
  <2>2. Promise!Over
    BY <1>9, <2>1 DEF Promise!Over, Over
  <2> QED BY <1>4, <2>2 DEF Promise!Next
<1>10. CASE sess.state = "CLOSING"
  <2>1. Stage = "ending" /\ Stage' \in {"ending", "over"}
    BY <1>8, <1>10, StageIs
  <2>2. Promise!Ending
    BY <1>5, <1>10, <2>1 DEF Promise!Ending, Over
  <2> QED BY <1>4, <2>2 DEF Promise!Next
<1>11. CASE sess.state \notin Over /\ sess.socket
  <2>1. Stage = "both" /\ Stage' \in {"both", "half", "ending", "over"}
    BY <1>8, <1>11, StageIs
  <2>2. Promise!Both
    BY <1>5, <1>6, <1>7, <1>11, <2>1 DEF Promise!Both
  <2> QED BY <1>4, <2>2 DEF Promise!Next
<1>12. CASE sess.state \notin Over /\ ~sess.socket
  <2>1. Stage = "half" /\ Stage' \in {"half", "ending", "over"}
    BY <1>8, <1>12, StageIs
  <2>2. Promise!Half
    BY <1>7, <1>12, <2>1 DEF Promise!Half
  <2> QED BY <1>4, <2>2 DEF Promise!Next
<1> QED BY <1>2, <1>9, <1>10, <1>11, <1>12 DEF Over

\* A step that neither gives upstream nor the app anything.
LEMMA QuietMoves ==
    ASSUME PlainStreams, Streams, [Next]_vars, sess # NoSession, sess' # NoSession,
           AppGrows, UNCHANGED upstream, sess'.local_seq = sess.local_seq,
           RemoteOff(sess) <= RemoteOff(sess'),
           sess'.state \in Over \/ (sess'.socket = sess.socket /\ sess.state \notin Over),
           sess.state = "CLOSE" => sess'.state = "CLOSE" /\ RemoteOff(sess') = RemoteOff(sess)
    PROVE  Promise!Next
<1>1. IInv /\ Order /\ History /\ OneStream /\ Streams'
  BY NextStreams DEF Streams, PlainStreams, Exact
<1>2. LocalOff(sess') = LocalOff(sess) /\ LocalOff(sess) \in Nat
  BY <1>1, SessionOf, OffsetTypes DEF IInv, LocalOff
<1>3. Passes
  BY <1>2 DEF Passes
<1>4. Extends
  <2>1. upstream \in Seq(Nat) /\ app.nxt \in Nat
    BY <1>1, SentFits DEF Order, OrderOfApp
  <2> QED BY <1>1, <2>1, NothingExtends
<1>5. History'
  BY <1>1 DEF Streams, Exact
<1> QED BY <1>2, <1>3, <1>4, <1>5, StageMoves DEF Over

LEMMA RestedMoves ==
    ASSUME PlainStreams, Streams, [Next]_vars, Rested
    PROVE  Promise!Next
<1>1. /\ sess # NoSession /\ sess \in Session /\ sess' # NoSession /\ Quiet(sess, sess')
      /\ UNCHANGED <<app, upstream>> /\ IInv /\ Order
  BY SessionOf, NoSessionIsNone DEF Rested, Streams, IInv
<1>2. AppGrows
  BY <1>1, AppStays
<1>3. sess'.local_seq = sess.local_seq
  BY <1>1 DEF Quiet
<1>4. RemoteOff(sess) \in Nat
  BY <1>1, OffsetTypes
<1>5. CASE sess'.remote_seq = sess.remote_seq
  <2>1. RemoteOff(sess') = RemoteOff(sess)
    BY <1>5 DEF RemoteOff
  <2>2. sess'.state \in Over \/ (sess'.socket = sess.socket /\ sess.state \notin Over)
    BY <1>1, <1>5 DEF Quiet, Over
  <2>3. sess.state = "CLOSE" => sess'.state = "CLOSE"
    BY <1>1 DEF Quiet
  <2> QED BY <1>1, <1>2, <1>3, <1>4, <2>1, <2>2, <2>3, QuietMoves
<1>6. CASE /\ sess.state = "LISTEN" /\ sess'.state = "CLOSING"
           /\ sess'.remote_seq = SeqAdd(sess.remote_seq, 1)
  <2>1. RemoteOff(sess) = 0
    BY <1>1, <1>6 DEF Order, OrderOfSession
  <2>2. RemoteOff(sess') = 1
    BY <1>1, <1>6, <2>1, RemoteOneMore, SeqSpaceAssumption
  <2> QED BY <1>1, <1>2, <1>3, <1>6, <2>1, <2>2, QuietMoves DEF Over
<1> QED BY <1>1, <1>5, <1>6 DEF Quiet

LEMMA FreedMoves ==
    ASSUME Streams, Freed
    PROVE  Promise!Next
<1>1. /\ sess # NoSession /\ sess.state = "CLOSE" /\ sess' = NoSession
      /\ UNCHANGED <<app, upstream>> /\ IInv
  BY DEF Freed, Streams
<1>2. Promise!Environment
  BY <1>1, AppStays, EnvironmentMoves
<1>3. Stage = "over" /\ Stage' = "none"
  BY <1>1 DEF Stage
<1>4. Promise!Over
  BY <1>1, <1>3 DEF Promise!Over
<1> QED BY <1>2, <1>4 DEF Promise!Next

LEMMA AnsweredMoves ==
    ASSUME PlainStreams, Streams, [Next]_vars, Answered
    PROVE  Promise!Next
<1>1. /\ sess # NoSession /\ sess \in Session /\ sess' # NoSession /\ Answers(sess, sess')
      /\ UNCHANGED <<app, upstream>> /\ IInv /\ Order /\ History
  BY SessionOf, NoSessionIsNone DEF Answered, Streams, IInv, Exact
<1>2. AppGrows
  BY <1>1, AppStays
<1>3. RemoteOff(sess) = 0 /\ LocalOff(sess) = 0
  BY <1>1 DEF Answers, Order, OrderOfSession
<1>4. RemoteOff(sess') = 1 /\ LocalOff(sess') = 1
  BY <1>1, <1>3, RemoteOneMore, LocalMore, SeqSpaceAssumption DEF Answers
<1>5. Passes
  BY <1>3, <1>4 DEF Passes
<1>6. Extends /\ History'
  <2>1. upstream \in Seq(Nat) /\ app.nxt \in Nat
    BY <1>1, SentFits DEF Order, OrderOfApp, PlainStreams
  <2>2. Streams'
    BY NextStreams
  <2> QED BY <1>1, <2>1, <2>2, NothingExtends DEF Streams, Exact
<1>7. sess.state = "LISTEN" /\ sess.socket
  BY <1>1 DEF Answers, IInv, Control, SocketMatchesState
<1> QED BY <1>1, <1>2, <1>3, <1>4, <1>5, <1>6, <1>7, StageMoves DEF Over

\* A packet opens a session, is of none, or is taken in or refused.
LEMMA ReceivedMoves ==
    ASSUME PlainStreams, Streams, [Next]_vars, Received
    PROVE  Promise!Next
<1>1. PICK p : Says(p) /\ AppGrows /\ Heard(p) /\ UNCHANGED upstream
  BY DEF Received
<1>2. IInv /\ Order /\ OneStream /\ Promise!Environment
  BY <1>1, EnvironmentMoves DEF Streams, PlainStreams
<1>3. CASE Opens(p)
  <2>1. /\ sess = NoSession /\ sess' # NoSession /\ sess'.state = "LISTEN" /\ sess'.socket
        /\ RemoteOff(sess') = 0 /\ LocalOff(sess') = 0 /\ upstream = <<>>
    BY <1>1, <1>2, <1>3, OpensAt, NoSessionIsNone DEF Opens
  <2>2. Stage = "none" /\ Stage' = "both"
    BY <2>1 DEF Stage
  <2>3. Promise!Begin
    BY <1>1, <2>1, <2>2 DEF Promise!Begin
  <2> QED BY <1>2, <2>3 DEF Promise!Next
<1>4. CASE sess = NoSession /\ UNCHANGED <<sess, sock>>
  <2>1. Stage = "none" /\ Stage' = "none"
    BY <1>4 DEF Stage
  <2>2. Promise!None
    BY <1>1, <1>4, <2>1 DEF Promise!None
  <2> QED BY <1>2, <2>2 DEF Promise!Next
<1>5. CASE sess # NoSession /\ sess' \in Session /\ Receives(sess, sess', p) /\ UNCHANGED sock
  <2>1. sess' # NoSession /\ sess'.local_seq = sess.local_seq /\ sess'.socket = sess.socket
    BY <1>5, NoSessionIsNone DEF Receives
  <2>2. RemoteOff(sess) <= RemoteOff(sess')
    BY <1>1, <1>2, <1>5, ReceivesRemote
  <2>3. sess'.state \in Over \/ sess.state \notin Over
    BY <1>5 DEF Receives, Rejects, Accepts
  <2>4. sess.state = "CLOSE" => sess'.state = "CLOSE" /\ RemoteOff(sess') = RemoteOff(sess)
    BY <1>5 DEF Receives, Rejects, Accepts, Over, RemoteOff
  <2> QED BY <1>1, <1>5, <2>1, <2>2, <2>3, <2>4, QuietMoves
<1> QED BY <1>1, <1>3, <1>4, <1>5 DEF Heard

LEMMA ElsewhereMoves ==
    ASSUME PlainStreams, Streams, [Next]_vars, Elsewhere
    PROVE  Promise!Next
<1>1. UNCHANGED <<sess, upstream>> /\ AppGrows /\ Promise!Environment
  BY EnvironmentMoves DEF Elsewhere
<1>2. CASE sess = NoSession
  <2>1. Stage = "none" /\ Stage' = "none"
    BY <1>1, <1>2 DEF Stage
  <2>2. Promise!None
    BY <1>1, <1>2, <2>1 DEF Promise!None
  <2> QED BY <1>1, <2>2 DEF Promise!Next
<1>3. CASE sess # NoSession
  <2>1. RemoteOff(sess') = RemoteOff(sess) /\ RemoteOff(sess) \in Nat
    BY <1>1, <1>3, SessionOf, OffsetTypes DEF Streams, IInv
  <2> QED BY <1>1, <1>3, <2>1, QuietMoves
<1> QED BY <1>2, <1>3

\* A turn reads up to the window, or meets the end of upstream; of a session that is
\* being closed it reads nothing.
LEMMA TurnPasses ==
    ASSUME IInv, OneStream, OneSide(LocalStart, MaxDown + 2), Order, Window, Window',
           Transferred, NEW r, NEW f, NEW s, NEW k, Turns(r, f, s, k)
    PROVE  Passes /\ (sess.state \in Over => LocalOff(sess') = LocalOff(sess))
<1>1. /\ sess # NoSession /\ sess \in Session /\ sess' \in Session /\ sess' # NoSession
      /\ LocalOff(sess) \in Nat
  BY SessionOf, NoSessionIsNone, OffsetTypes DEF Transferred, IInv
<1>2. /\ s \in Session /\ k \in Sockets /\ k.made = sock.made /\ k.avail = sock.avail
      /\ Reads(s, sess', k, sock')
  BY DEF Turns
<1>3. s.local_seq = sess.local_seq /\ s.state \in {sess.state, "CLOSING"}
  BY DEF Turns, RunKeeps, Confirms
<1>4. LocalOff(s) = LocalOff(sess)
  BY <1>3 DEF LocalOff
<1>5. s.state \in {"ESTABLISHED", "CLOSE_WAIT"} =>
          /\ sess.state = s.state
          /\ LocalOff(sess) <= 1 + sock.made - sock.avail /\ sock.made <= MaxDown
  <2> SUFFICES ASSUME s.state \in {"ESTABLISHED", "CLOSE_WAIT"}
               PROVE  /\ sess.state = s.state
                      /\ LocalOff(sess) <= 1 + sock.made - sock.avail /\ sock.made <= MaxDown
    OBVIOUS
  <2>1. sess.state = s.state
    BY <1>3
  <2>2. sess.socket
    BY <1>1, <2>1 DEF IInv, Control, SocketMatchesState
  <2> QED BY <1>1, <2>1, <2>2 DEF Window
<1>6. ASSUME s.state \in {"ESTABLISHED", "CLOSE_WAIT"}, NEW n \in Nat,
             n <= k.avail \/ n = 1,
             sess'.local_seq = SeqAdd(s.local_seq, n)
      PROVE  LocalOff(sess') = LocalOff(sess) + n
  <2>1. LocalOff(sess) + n <= MaxDown + 2
    BY <1>1, <1>2, <1>5, <1>6, WindowTypes
  <2>2. LocalOff(s) + n < SeqSpace
    BY <1>1, <1>4, <2>1, WindowTypes, HalfValue, SeqSpaceAssumption DEF OneSide
  <2>3. s \in Session /\ sess'.local_seq = SeqAdd(s.local_seq, n)
    BY <1>2, <1>6
  <2>4. LocalOff(sess') = LocalOff(s) + n
    BY <2>2, <2>3, LocalMore
  <2> QED BY <1>4, <2>4
<1>7. CASE sess'.local_seq = s.local_seq
  <2>1. LocalOff(sess') = LocalOff(sess)
    BY <1>3, <1>7 DEF LocalOff
  <2> QED BY <1>1, <2>1 DEF Passes
<1>8. CASE /\ s.state \in {"ESTABLISHED", "CLOSE_WAIT"} /\ sess'.state = s.state
           /\ \E n \in Nat : n <= k.avail /\ sess'.local_seq = SeqAdd(s.local_seq, n)
  <2>1. PICK n \in Nat : n <= k.avail /\ sess'.local_seq = SeqAdd(s.local_seq, n)
    BY <1>8
  <2>2. LocalOff(sess') = LocalOff(sess) + n
    BY <1>6, <1>8, <2>1
  <2>3. LocalOff(sess') <= app'.edge
    BY <1>1, <1>8 DEF Window, Advertised
  <2> QED BY <1>1, <1>5, <1>8, <2>1, <2>2, <2>3 DEF Passes, Over
<1>9. CASE /\ s.state \in {"ESTABLISHED", "CLOSE_WAIT"}
           /\ sess'.state \in {"FIN_WAIT1", "LAST_ACK"}
           /\ sess'.local_seq = SeqAdd(s.local_seq, 1) /\ ~sess'.socket
  <2>1. LocalOff(sess') = LocalOff(sess) + 1
    BY <1>6, <1>9
  <2>2. Stage' = "half"
    BY <1>1, <1>9 DEF Stage
  <2> QED BY <1>1, <1>5, <1>9, <2>1, <2>2 DEF Passes, Over
<1> QED BY <1>2, <1>7, <1>8, <1>9 DEF Reads

LEMMA TransferredMoves ==
    ASSUME PlainStreams, OneSide(LocalStart, MaxDown + 2), Streams, Window, Window',
           [Next]_vars, Transferred
    PROVE  Promise!Next
<1>1. /\ IInv /\ Order /\ Queue /\ Exact /\ OneStream /\ SendsTell
      /\ sess # NoSession /\ sess \in Session /\ sess' # NoSession /\ UNCHANGED app
  BY SessionOf, NoSessionIsNone DEF Streams, PlainStreams, Transferred, IInv
<1>2. PICK r, f, s, k : Turns(r, f, s, k)
  BY <1>1, FlowIsOrder, TransferredTurns DEF OneStream
<1>3. sess.socket /\ sess.state # "CLOSE"
  BY <1>1, EventSession DEF Transferred
<1>4. AppGrows
  BY <1>1, AppStays
<1>5. Extends /\ History'
  BY <1>1, TransferredAt
<1>6. RemoteOff(sess) <= RemoteOff(sess')
  <2>1. RemoteOff(sess) \in Nat /\ RemoteOff(f) \in Nat /\ RemoteOff(sess) <= RemoteOff(f)
    BY <1>1, <1>2, OffsetTypes DEF Turns, RunKeeps
  <2>2. RemoteOff(sess') = RemoteOff(f) \/ RemoteOff(sess') = RemoteOff(f) + 1
    <3>1. /\ app.nxt \in Nat /\ app.nxt + 3 < SeqSpace
          /\ RemoteOff(sess) \in Nat /\ RemoteOff(sess) <= app.nxt + 2
      BY <1>1, FlowTypes, FlowIsOrder DEF OneStream
    <3> QED BY <1>2, <3>1, TurnRemote
  <2> QED BY <2>1, <2>2
<1>7. Passes /\ (sess.state \in Over => LocalOff(sess') = LocalOff(sess))
  BY <1>1, <1>2, TurnPasses
<1>8. sess.state = "CLOSING" => sess'.state \in Over
  BY <1>2, TurnMoves DEF Over
<1> QED BY <1>1, <1>3, <1>4, <1>5, <1>6, <1>7, <1>8, StageMoves

LEMMA NextPromise ==
    ASSUME PlainStreams, OneSide(LocalStart, MaxDown + 2), Streams, Window, Window',
           [Next]_vars
    PROVE  Promise!Next
<1>1. IInv /\ Untunnelled /\ OneStream
  BY UntunnelledOf DEF Streams, PlainStreams, Order, OrderOfSession
<1>2. CASE Rested
  BY <1>2, RestedMoves
<1>3. CASE Freed
  BY <1>3, FreedMoves
<1>4. CASE Answered
  BY <1>4, AnsweredMoves
<1>5. CASE Transferred
  BY <1>5, TransferredMoves
<1>6. CASE Received
  BY <1>6, ReceivedMoves
<1>7. CASE Elsewhere
  BY <1>7, ElsewhereMoves
<1> QED BY <1>1, <1>2, <1>3, <1>4, <1>5, <1>6, <1>7, PlainStep

\* A session keeps the promise of Relay: whatever the order of packets, events,
\* timeouts and failures, upstream is given the app's bytes in order and none is
\* missing while the connection is sound, none is confirmed before upstream has it,
\* and the app is given nothing beyond its window or after the end.
THEOREM SessionKeepsPromise ==
    PlainStreams /\ OneSide(LocalStart, MaxDown + 2) => (Spec => KeepsPromise)
<1> SUFFICES ASSUME PlainStreams, OneSide(LocalStart, MaxDown + 2)
             PROVE  Spec => KeepsPromise
  OBVIOUS
<1>1. Init => Streams /\ Window /\ Promise!Init
  BY InitStreams, InitWindow, InitPromise
<1>2. Streams /\ Window /\ [Next]_vars => (Streams /\ Window)'
  <2> SUFFICES ASSUME Streams, Window, [Next]_vars PROVE (Streams /\ Window)'
    OBVIOUS
  <2>1. Streams'
    BY NextStreams
  <2>2. Window'
    BY <2>1, NextWindow DEF Streams, PlainStreams
  <2> QED BY <2>1, <2>2
<1>3. Streams /\ Window /\ Window' /\ [Next]_vars => [Promise!Next]_Promise!vars
  BY NextPromise
<1> QED BY <1>1, <1>2, <1>3, PTL DEF Spec, KeepsPromise, Promise!Spec

=============================================================================
