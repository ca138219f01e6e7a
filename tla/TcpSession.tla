----------------------------- MODULE TcpSession -----------------------------
(***************************************************************************)
(* One TCP session of the engine (tcp.c): the user-space TCP end point the *)
(* engine plays towards the app on the tun device, spliced to a socket     *)
(* towards the proxy (ports 80 and 443) or the destination (other ports).  *)
(*                                                                         *)
(* The engine is one thread.  It runs monitor_tcp_session and, when more   *)
(* than EPOLL_MIN_CHECK ms have passed, check_tcp_session; waits in        *)
(* epoll_wait; then handles the batch it was given: packets read from tun  *)
(* and at most one event of the session's socket, in any order, the event  *)
(* being the one epoll_wait saw.  The app, the network and the clock move  *)
(* at any time.                                                            *)
(***************************************************************************)
EXTENDS SeqNum, FiniteSets, Sequences, SequencesExt

CONSTANTS
    Ports,          \* destination ports: "http" (80), "https" (443), "other"
    RemoteStart,    \* the app's initial sequence number
    LocalStart,     \* the engine's initial sequence number, rand()
    Segments,       \* data segments of the app: <<first byte, length>>
    SynData,        \* lengths of the data a SYN carries
    MaxSegment,     \* the longest data of a packet
    Windows,        \* windows the app advertises
    MaxDown,        \* bound: bytes upstream produces
    Mss,            \* segment size of the path
    BufferHalf,     \* half the socket's send buffer
    ScaleUnit,      \* 2 ^ recv_scale
    WindowField,    \* the largest value of the TCP window field, 0xFFFF
    Request,        \* byte of an HTTP request that follows its method
    UrlPrefix,      \* bytes patch_http_url inserts there
    InitTimeout, IdleTimeout, CloseTimeout, KeepTimeout,
    MaxSessions,
    SessionCounts,  \* numbers of open sessions the loop may have counted
    Faults          \* failures the environment is allowed, see Failures

Failures ==
    {"tun",         \* a write to the tun device fails
     "epoll",       \* epoll_ctl(EPOLL_CTL_MOD) fails
     "open",        \* open_tcp_socket fails
     "again",       \* send fails for want of buffer space
     "partial",     \* send takes a part of the data
     "reset",       \* the connection to upstream is refused or reset
     "refuse",      \* the proxy declines the CONNECT
     "resend",      \* the app sends its SYN again before it is answered
     "loss"}        \* tun drops a packet of the app

ASSUME TcpAssumption ==
    /\ Ports \subseteq {"http", "https", "other"}
    /\ RemoteStart \in SeqNums /\ LocalStart \in SeqNums
    /\ Segments \subseteq (Nat \ {0}) \X (Nat \ {0})
    /\ MaxSegment \in Nat /\ \A g \in Segments : g[2] <= MaxSegment
    /\ SynData \subseteq 0 .. MaxSegment /\ Windows \subseteq Nat
    /\ MaxDown \in Nat /\ Mss \in Nat \ {0}
    /\ BufferHalf \in Nat /\ ScaleUnit \in Nat \ {0} /\ WindowField \in Nat
    /\ Request \in Nat /\ UrlPrefix \in Nat
    /\ InitTimeout \in Nat /\ IdleTimeout \in Nat
    /\ CloseTimeout \in Nat /\ KeepTimeout \in Nat
    /\ MaxSessions \in Nat \ {0} /\ SessionCounts \subseteq 0 .. MaxSessions
    /\ Faults \subseteq Failures

VARIABLES
    sess,       \* struct ng_session, or NoSession
    sock,       \* the kernel's end of the session's socket
    phase,      \* "wait": before epoll_wait; "batch": handling its events
    ev,         \* events of the socket in the batch, not handled yet
    app,        \* the app's TCP
    upstream    \* history: the bytes of the app that the kernel took, in order

vars == <<sess, sock, phase, ev, app, upstream>>

TcpStates == {"LISTEN", "SYN_RECV", "ESTABLISHED", "CLOSE_WAIT", "FIN_WAIT1",
              "LAST_ACK", "CLOSING", "CLOSE"}

Events == {"IN", "OUT", "ERR", "HUP"}

\* struct segment.  off names the first byte the data buffer holds.
Segment == [seq : SeqNums, len : Nat, sent : Nat, off : Nat]

\* struct tcp_session and the socket and events of its ng_session.  age is the
\* time since tcp.time was last set.  asked is not in it: the events for which
\* the kernel watches the socket, which are those of ev.events unless epoll_ctl
\* has failed.
Session ==
    [state : TcpStates, port : Ports, socket : BOOLEAN,
     connect : {"not_sent", "sent", "established"},
     remote_seq : SeqNums, local_seq : SeqNums, acked : SeqNums,
     send_window : Nat, recv_window : Nat,
     forward : Seq(Segment), age : Nat, events : SUBSET Events, asked : SUBSET Events]

NoSession == [state |-> "NONE"]

Sockets ==
    [conn : {"none", "connecting", "connected", "failed", "dead"},
     unsent : Nat,      \* bytes in the send buffer
     made : Nat,        \* bytes upstream has produced
     avail : Nat,       \* bytes ready to be read
     eof : BOOLEAN,
     proxy : {"idle", "asked", "accepted", "declined", "done"}]

NoSocket == [conn |-> "none", unsent |-> 0, made |-> 0, avail |-> 0,
             eof |-> FALSE, proxy |-> "idle"]

\* nxt: data bytes sent; ack: the highest acknowledgement sent and edge: the
\* highest window edge advertised, both counted from LocalStart.
Apps == [port : Ports, phase : {"idle", "syn", "open", "gone"}, nxt : Nat, fin : BOOLEAN,
         ack : Nat, edge : Nat]

TypeOK ==
    /\ sess \in Session \cup {NoSession}
    /\ sock \in Sockets
    /\ phase \in {"wait", "batch"}
    /\ ev \in SUBSET Events
    /\ app \in Apps

Init ==
    /\ sess = NoSession
    /\ sock = NoSocket
    /\ phase = "wait"
    /\ ev = {}
    /\ app \in {[port |-> port, phase |-> "idle", nxt |-> 0, fin |-> FALSE,
                  ack |-> 0, edge |-> 0] : port \in Ports}
    /\ upstream = <<>>

-----------------------------------------------------------------------------
\* Helpers

\* The sum of the positive values of f, none of which exceeds bound.
Total(f, bound) ==
    Cardinality({x \in (DOMAIN f) \X (1 .. bound) : x[2] <= f[x[1]]})

NextSeq(g) == SeqAdd(g.seq, g.sent)
Left(g) == IF g.len > g.sent THEN g.len - g.sent ELSE 0

RemoteOff(s) == Dist(RemoteStart, s.remote_seq)
LocalOff(s) == Dist(LocalStart, s.local_seq)

Smaller(m, n) == IF m <= n THEN m ELSE n

\* Whether a write to tun may succeed, whether it may fail.
TunResults == IF "tun" \in Faults THEN BOOLEAN ELSE {TRUE}

Closing(s) == [s EXCEPT !.state = "CLOSING"]

\* The result of write_syn_ack, write_ack, write_data or write_fin_ack.
Written(s, ok) == IF ok THEN s ELSE Closing(s)

write_rst(s) ==
    [s EXCEPT !.remote_seq = IF s.state = "LISTEN" THEN SeqAdd(@, 1) ELSE @,
              !.state = IF @ = "CLOSE" THEN @ ELSE "CLOSING"]

\* Mutant: what is in flight is not counted.
get_send_window_Whole(s) == s.send_window

get_send_window(s) ==
    LET behind == IF compare_u32(s.acked, s.local_seq) <= 0
                  THEN Dist(s.acked, s.local_seq) ELSE s.acked
    IN  IF behind < s.send_window THEN s.send_window - behind ELSE 0

get_receive_buffer(s, k) ==
    IF s.socket /\ k.unsent < BufferHalf THEN BufferHalf - k.unsent ELSE 0

get_receive_window(s, k) ==
    LET toforward == Total([i \in DOMAIN s.forward |-> Left(s.forward[i])], MaxSegment)
        buffer == get_receive_buffer(s, k)
        max == WindowField * ScaleUnit
        window == Smaller(buffer, max)
        rest == IF toforward < window THEN window - toforward ELSE 0
    IN  IF rest < ScaleUnit THEN 0 ELSE rest

\* Mutant: a segment that was forwarded is queued again.
queue_tcp_Again(s, p) ==
    LET new == [seq |-> p.seq, len |-> p.len, sent |-> 0, off |-> p.off]
        After(g) == compare_u32(g.seq, p.seq) > 0
        Before(g) == compare_u32(g.seq, p.seq) < 0
    IN  IF \E i \in DOMAIN s.forward : s.forward[i].seq = p.seq THEN s
        ELSE [s EXCEPT !.forward = SelectSeq(@, Before) \o <<new>> \o SelectSeq(@, After)]

\* Where the scan of the queue stops: at the first segment that does not
\* precede the new one.
Position(q, seq) ==
    LET stops == {i \in DOMAIN q : compare_u32(q[i].seq, seq) >= 0}
    IN  IF stops = {} THEN Len(q) + 1
        ELSE CHOOSE i \in stops : \A j \in stops : i <= j

Inserted(q, at, g) == SubSeq(q, 1, at - 1) \o <<g>> \o SubSeq(q, at, Len(q))

queue_tcp(s, p) ==
    LET q == s.forward
        at == Position(q, p.seq)
        new == [seq |-> p.seq, len |-> p.len, sent |-> 0, off |-> p.off]
    IN  IF compare_u32(p.seq, s.remote_seq) < 0 THEN s
        ELSE IF at = Len(q) + 1 \/ q[at].seq # p.seq
             THEN [s EXCEPT !.forward = Inserted(q, at, new)]
             \* The data of a shorter segment is replaced, its length is not.
             ELSE [s EXCEPT !.forward = [q EXCEPT ![at] = [@ EXCEPT !.off = p.off]]]

-----------------------------------------------------------------------------
\* handle_tcp: a packet of the app, read from tun

\* A SYN of an unknown session.
NewSession(p) ==
    /\ sess = NoSession /\ p.syn
    /\ \/ LET s == [state |-> "LISTEN", port |-> p.port, socket |-> TRUE,
                    connect |-> IF p.port = "http" THEN "established" ELSE "not_sent",
                    remote_seq |-> p.seq, local_seq |-> LocalStart, acked |-> 0,
                    send_window |-> p.win, recv_window |-> 0,
                    forward |-> IF p.len = 0 THEN <<>>
                                ELSE <<[seq |-> p.seq, len |-> p.len,
                                        sent |-> 0, off |-> p.off]>>,
                    age |-> 0, events |-> {"OUT", "ERR"}, asked |-> {"OUT", "ERR"}]
              k == [NoSocket EXCEPT !.conn = "connecting"]
          IN  /\ sess' = [s EXCEPT !.recv_window = get_receive_window(s, k)]
              /\ sock' = k
       \/ "open" \in Faults /\ UNCHANGED <<sess, sock>>

\* Any other packet of an unknown session is answered by a RST that belongs to
\* no session.
UnknownSession(p) ==
    sess = NoSession /\ ~p.syn /\ UNCHANGED <<sess, sock>>

\* Port 443 until the proxy has accepted the CONNECT: the first packet after
\* the one that made the session sends the CONNECT, and every packet, whatever
\* its flags, is only queued.
Tunnelling(p) ==
    /\ sess # NoSession /\ sess.port = "https" /\ sess.connect # "established"
    /\ \/ /\ sess.connect = "not_sent" /\ sock.conn = "connected"
          /\ sess' = queue_tcp([sess EXCEPT !.connect = "sent", !.state = "LISTEN"], p)
          /\ sock' = [sock EXCEPT !.proxy = "asked"]
       \/ /\ sess.connect = "not_sent"
          /\ sock.conn # "connected" \/ "again" \in Faults
          /\ sess' = queue_tcp(write_rst(sess), p)
          /\ UNCHANGED sock
       \/ /\ sess.connect = "sent"
          /\ sess' = queue_tcp(sess, p)
          /\ UNCHANGED sock

\* FIN, in a packet that acknowledges everything sent to the app.
Fin(s) ==
    \E ok \in TunResults :
        LET confirmed == [s EXCEPT !.remote_seq = SeqAdd(@, 1)]
        IN  sess' = CASE s.state = "ESTABLISHED" /\ s.forward = <<>> ->
                             IF ok THEN [confirmed EXCEPT !.state = "CLOSE_WAIT"]
                                   ELSE Closing(confirmed)
                      [] s.state = "ESTABLISHED" /\ s.forward # <<>> ->
                             [s EXCEPT !.state = "CLOSE_WAIT"]
                      [] s.state = "FIN_WAIT1" ->
                             IF ok THEN [confirmed EXCEPT !.state = "CLOSE"]
                                   ELSE Closing(confirmed)
                      [] OTHER -> s

\* An acknowledgement of everything sent to the app.
Ack(s, p) ==
    [s EXCEPT !.acked = p.ackseq,
              !.state = CASE @ = "SYN_RECV" -> "ESTABLISHED"
                          [] @ = "LAST_ACK" -> "CLOSING"
                          [] OTHER -> @]

\* An acknowledgement of something else: a keep alive, an old one, or one that
\* is taken to come from the future.
OtherAck(s, p) ==
    IF SeqAdd(p.ackseq, 1) = s.local_seq THEN s
    ELSE IF compare_u32(p.ackseq, s.local_seq) < 0
         THEN IF compare_u32(p.ackseq, s.acked) <= 0 THEN s
              ELSE [s EXCEPT !.acked = p.ackseq]
         ELSE write_rst(s)

Closed(p) ==
    /\ sess.state \in {"CLOSING", "CLOSE"}
    /\ sess' = write_rst(sess)

Open(p) ==
    LET s == [sess EXCEPT !.age = 0, !.send_window = p.win]
        refused == p.len > 0 /\ (~s.socket \/ s.state = "CLOSE_WAIT")
        q == IF p.len > 0 THEN queue_tcp(s, p) ELSE s
    IN  /\ sess.state \notin {"CLOSING", "CLOSE"}
        /\ \/ refused /\ sess' = write_rst(s)
           \/ ~refused /\ p.rst /\ sess' = Closing(q)
           \/ /\ ~refused /\ ~p.rst
              /\ \/ /\ ~p.ack \/ p.ackseq = q.local_seq
                    /\ \/ p.syn /\ sess' = q
                       \/ ~p.syn /\ p.fin /\ Fin(q)
                       \/ ~p.syn /\ ~p.fin /\ p.ack /\ sess' = Ack(q, p)
                 \/ /\ p.ack /\ p.ackseq # q.local_seq
                    /\ sess' = OtherAck(q, p)

\* Mutant: port 443 is served before the proxy has accepted.
KnownSession_Early(p) ==
    /\ sess # NoSession
    /\ Closed(p) \/ Open(p)
    /\ UNCHANGED sock

KnownSession(p) ==
    /\ sess # NoSession
    /\ sess.port # "https" \/ sess.connect = "established"
    /\ Closed(p) \/ Open(p)
    /\ UNCHANGED sock

handle_tcp(p) ==
    /\ NewSession(p) \/ UnknownSession(p) \/ Tunnelling(p) \/ KnownSession(p)
    /\ UNCHANGED <<phase, ev, upstream>>

-----------------------------------------------------------------------------
\* The event loop around the session: monitor_tcp_session, check_tcp_session
\* and epoll_wait

get_tcp_timeout(state, sessions) ==
    LET timeout == CASE state \in {"LISTEN", "SYN_RECV"} -> InitTimeout
                     [] state = "ESTABLISHED" -> IdleTimeout
                     [] OTHER -> CloseTimeout
        scale == 100 - (sessions * 100) \div MaxSessions
    IN  (timeout * scale) \div 100

\* Mutant: what was sent of the head is forgotten.
Wanted_Whole(s, k) ==
    {"ERR"} \cup
    CASE s.state = "LISTEN" ->
             IF s.connect = "sent" /\ s.port = "https" THEN {"IN"} ELSE {"OUT"}
      [] s.state \in {"ESTABLISHED", "CLOSE_WAIT"} ->
             (IF get_send_window(s) > 0 THEN {"IN"} ELSE {})
             \cup
             (IF s.forward # <<>> /\ Head(s.forward).seq = s.remote_seq THEN {"OUT"} ELSE {})
      [] OTHER -> {}

\* The events monitor_tcp_session asks epoll for.
Wanted(s, k) ==
    {"ERR"} \cup
    CASE s.state = "LISTEN" ->
             IF s.connect = "sent" /\ s.port = "https" THEN {"IN"} ELSE {"OUT"}
      [] s.state \in {"ESTABLISHED", "CLOSE_WAIT"} ->
             (IF get_send_window(s) > 0 THEN {"IN"} ELSE {})
             \cup
             (IF /\ s.forward # <<>>
                 /\ NextSeq(Head(s.forward)) = s.remote_seq
                 /\ Left(Head(s.forward)) < get_receive_buffer(s, k)
              THEN {"OUT"} ELSE {})
      [] OTHER -> {}

\* Mutant: a failure of epoll_ctl is only logged.
monitor_tcp_session_Logs(s, k, alive, modified) ==
    LET wanted == Wanted(s, k)
        polled == IF /\ s.state \in {"ESTABLISHED", "CLOSE_WAIT"}
                     /\ get_send_window(s) = 0
                  THEN Written(s, alive) ELSE s
    IN  IF wanted = s.events THEN polled
        ELSE [polled EXCEPT !.events = wanted, !.asked = IF modified THEN wanted ELSE @]

\* With no send window a keep alive is sent, unless one was sent within
\* EPOLL_MIN_CHECK ms.  modified: whether epoll_ctl succeeds.
monitor_tcp_session(s, k, alive, modified) ==
    LET wanted == Wanted(s, k)
        polled == IF /\ s.state \in {"ESTABLISHED", "CLOSE_WAIT"}
                     /\ get_send_window(s) = 0
                  THEN Written(s, alive) ELSE s
    IN  IF wanted = s.events THEN polled
        ELSE [polled EXCEPT !.events = wanted,
                            !.asked = IF modified THEN wanted ELSE @,
                            !.state = IF modified THEN @ ELSE "CLOSING"]

\* Mutant: the socket is left open.
check_tcp_session_Open(s, sessions) ==
    IF s.state = "CLOSING" THEN [s EXCEPT !.state = "CLOSE", !.age = 0] ELSE s

\* Mutant: only established sessions time out.
check_tcp_session_Idle(s, sessions) ==
    LET t == IF s.state = "ESTABLISHED" /\ s.age > get_tcp_timeout(s.state, sessions)
             THEN write_rst(s) ELSE s
    IN  IF t.state = "CLOSING"
        THEN [t EXCEPT !.state = "CLOSE", !.socket = FALSE, !.age = 0]
        ELSE t

check_tcp_session(s, sessions) ==
    LET expired == /\ s.state \notin {"CLOSING", "CLOSE"}
                   /\ s.age > get_tcp_timeout(s.state, sessions)
        t == IF ~expired THEN s
             ELSE IF s.state = "LISTEN" THEN Closing(s) ELSE write_rst(s)
    IN  IF t.state = "CLOSING"
        THEN [t EXCEPT !.state = "CLOSE", !.socket = FALSE, !.age = 0]
        ELSE t

\* CLOSE for longer than TCP_KEEP_TIMEOUT: handle_events frees the session.
Lingered(s) == s.state = "CLOSE" /\ s.age > KeepTimeout

\* The top of the loop, after a batch is done.  The sessions are checked when
\* due: when EPOLL_MIN_CHECK ms have passed since they last were.
Loop(due) ==
    /\ phase = "batch" /\ ev = {}
    /\ phase' = "wait"
    /\ IF sess = NoSession THEN UNCHANGED <<sess, sock>>
       ELSE \E alive \in TunResults, n \in SessionCounts,
               modified \in IF "epoll" \in Faults THEN BOOLEAN ELSE {TRUE} :
                LET s == IF sess.socket
                         THEN monitor_tcp_session(sess, sock, alive, modified)
                         ELSE sess
                    t == IF due THEN check_tcp_session(s, n) ELSE s
                IN  /\ sess' = IF due /\ Lingered(t) THEN NoSession ELSE t
                    /\ sock' = IF t.socket THEN sock ELSE NoSocket
    /\ UNCHANGED <<ev, app, upstream>>

\* Events the kernel has for the socket.  Once the error of a failed
\* connection has been fetched with SO_ERROR, HUP is left.
Ready ==
    CASE sock.conn = "failed" -> {"IN", "OUT", "ERR", "HUP"}
      [] sock.conn = "dead" -> {"IN", "OUT", "HUP"}
      [] sock.conn = "connected" ->
             (IF sock.avail > 0 \/ sock.eof \/ sock.proxy \in {"accepted", "declined"}
              THEN {"IN"} ELSE {})
             \cup (IF sock.unsent < 2 * BufferHalf THEN {"OUT"} ELSE {})
      [] OTHER -> {}

\* epoll_wait returns: for an event of the socket, for tun, or on its timeout.
EpollWait ==
    /\ phase = "wait"
    /\ phase' = "batch"
    /\ ev' = IF sess = NoSession THEN {} ELSE Ready \cap (sess.asked \cup {"ERR", "HUP"})
    /\ UNCHANGED <<sess, sock, app, upstream>>

-----------------------------------------------------------------------------
\* check_tcp_socket: the socket's event in the batch

\* ERR is handled first, whatever else was reported.
SocketError ==
    /\ "ERR" \in ev
    /\ sess' = [write_rst(sess) EXCEPT !.age = 0]
    /\ sock' = [sock EXCEPT !.conn = IF @ = "failed" THEN "dead" ELSE @]
    /\ UNCHANGED upstream

\* The answer of the proxy to the CONNECT; whatever follows it is dropped.
ProxyReply ==
    /\ "ERR" \notin ev /\ sess.state = "LISTEN" /\ "IN" \in ev
    /\ IF sock.conn = "failed" THEN sess' = write_rst(sess) /\ UNCHANGED sock
       ELSE IF sess.connect # "sent" THEN UNCHANGED <<sess, sock>>
       ELSE IF sock.proxy = "accepted"
            THEN /\ sess' = [sess EXCEPT !.connect = "established", !.state = "SYN_RECV"]
                 /\ sock' = [sock EXCEPT !.proxy = "done", !.avail = 0]
            ELSE sess' = write_rst(sess) /\ UNCHANGED sock
    /\ UNCHANGED upstream

\* Writable while LISTEN: connected.
Connected ==
    /\ "ERR" \notin ev /\ sess.state = "LISTEN" /\ "IN" \notin ev
    /\ \E ok \in TunResults :
           LET s == [sess EXCEPT !.remote_seq = SeqAdd(@, 1)]
           IN  sess' = IF ok THEN [s EXCEPT !.age = 0, !.local_seq = SeqAdd(@, 1),
                                            !.state = "SYN_RECV"]
                       ELSE Closing(s)
    /\ UNCHANGED <<sock, upstream>>

Bytes(first, last) == [i \in 1 .. (last - first + 1) |-> first + i - 1]

FirstByte(g) == g.off + g.sent
LastByte(g) == FirstByte(g) + Left(g) - 1

\* On port 80 patch_http_url puts the scheme and the host in front of the path of
\* a request.
Patched(port, g) == port = "http" /\ Request \in FirstByte(g) .. LastByte(g)

\* The app's bytes among the first n that send took of a segment.
Taken(port, g, n) ==
    LET before == Request - FirstByte(g)
        own == IF ~Patched(port, g) \/ n <= before THEN n
               ELSE IF n <= before + UrlPrefix THEN before
               ELSE n - UrlPrefix
    IN  Bytes(FirstByte(g), FirstByte(g) + own - 1)

\* What send may return for a segment, -1 being an error.
Sends(g) ==
    LET n == Left(g) + (IF Patched(sess.port, g) THEN UrlPrefix ELSE 0)
    IN  IF sock.conn # "connected" THEN {-1}
        ELSE {n} \cup (IF "partial" \in Faults THEN 1 .. (n - 1) ELSE {})
                 \cup (IF "again" \in Faults THEN {-1} ELSE {})

\* Mutant: the result of send is taken as it is.
Counted_Raw(g, sent) == sent

\* The bytes of the segment counted as sent.  sent is signed and len is not: in
\* "if (sent > len) sent = len" an error compares as the largest value there is,
\* so the branch for errors that follows is never taken.
Counted(g, sent) == IF sent < 0 \/ sent > Left(g) THEN Left(g) ELSE sent

\* The condition of the forward loop, on its i-th turn.
Sendable(i) ==
    LET q == sess.forward
        start == IF i = 1 THEN sess.remote_seq ELSE SeqAdd(q[i - 1].seq, q[i - 1].len)
    IN  /\ NextSeq(q[i]) = start
        /\ Dist(sess.remote_seq, start) + Left(q[i]) < get_receive_buffer(sess, sock)

\* The runs of the forward loop: the results of its sends.  It goes on while
\* segments are sent whole and ends at the first that cannot be sent.
ForwardRuns ==
    LET q == sess.forward
        results == UNION {Sends(q[i]) : i \in DOMAIN q}
        Whole(r, i) == Counted(q[i], r[i]) = Left(q[i])
    IN  IF "OUT" \notin ev THEN {<<>>}
        ELSE {r \in UNION {[1 .. m -> results] : m \in 0 .. Len(q)} :
                /\ \A i \in DOMAIN r : r[i] \in Sends(q[i]) /\ Sendable(i)
                /\ \A i \in 1 .. (Len(r) - 1) : Whole(r, i)
                /\ \/ Len(r) = Len(q)
                   \/ ~Sendable(Len(r) + 1)
                   \/ r # <<>> /\ ~Whole(r, Len(r))}

\* Mutant: the segments leave the queue, remote_seq stays.
Forwarded_Unconfirmed(s, r) ==
    [s EXCEPT !.forward = SubSeq(@, Len(r) + 1, Len(@))]

\* Mutant: a part counts as the whole.
Forwarded_Whole(s, r) ==
    IF r = <<>> THEN s
    ELSE [s EXCEPT !.remote_seq = SeqAdd(s.forward[Len(r)].seq, s.forward[Len(r)].len),
                   !.forward = SubSeq(@, Len(r) + 1, Len(@))]

\* remote_seq and the queue after a run of the loop.
Forwarded(s, r) ==
    LET q == s.forward
        m == Len(r)
        sent == Counted(q[m], r[m])
        rest == SubSeq(q, m + 1, Len(q))
    IN  IF m = 0 THEN s
        ELSE [s EXCEPT
                !.remote_seq = SeqAdd(NextSeq(q[m]), sent),
                !.forward = IF sent = Left(q[m]) THEN rest
                            ELSE <<[q[m] EXCEPT !.sent = @ + sent]>> \o rest]

\* Mutant: a FIN is confirmed that was not received.
AckForwarded_Fin(s, k, fwd, ok) ==
    LET t == [s EXCEPT !.recv_window = get_receive_window(s, k)]
        u == [t EXCEPT !.remote_seq = IF fwd /\ t.forward = <<>> THEN SeqAdd(@, 1) ELSE @]
    IN  IF fwd \/ (s.recv_window = 0 /\ t.recv_window > 0)
        THEN IF ok THEN [u EXCEPT !.age = 0] ELSE Closing(u)
        ELSE t

\* The receive window, and the ACK for forwarded data, for the FIN that was
\* waiting behind it, or for a window that opens.
AckForwarded(s, k, fwd, ok) ==
    LET t == [s EXCEPT !.recv_window = get_receive_window(s, k)]
        confirm == fwd /\ t.forward = <<>> /\ t.state = "CLOSE_WAIT"
        u == [t EXCEPT !.remote_seq = IF confirm THEN SeqAdd(@, 1) ELSE @]
    IN  IF fwd \/ (s.recv_window = 0 /\ t.recv_window > 0)
        THEN IF ok THEN [u EXCEPT !.age = 0] ELSE Closing(u)
        ELSE t

\* Mutant: the socket's end is handled whatever the state and the queue are.
Read_Blind(s, k, ok) ==
    IF "IN" \in ev /\ k.eof /\ k.avail = 0
    THEN <<[s EXCEPT !.socket = FALSE, !.local_seq = SeqAdd(@, 1),
                     !.state = IF @ = "ESTABLISHED" THEN "FIN_WAIT1" ELSE "LAST_ACK"],
           NoSocket>>
    ELSE <<s, k>>

\* Reading the socket: its error, its data, or its end.
Read(s, k, ok) ==
    LET window == get_send_window(s)
        bytes == Smaller(k.avail, Smaller(window, Mss))
        t == [s EXCEPT !.age = 0]
        shut == [t EXCEPT !.socket = FALSE]
    IN  IF ~(s.state \in {"ESTABLISHED", "CLOSE_WAIT"} /\ "IN" \in ev /\ window > 0)
        THEN <<s, k>>
        ELSE IF k.conn # "connected" THEN <<write_rst(t), k>>
        ELSE IF k.avail > 0
             THEN <<IF ok THEN [t EXCEPT !.local_seq = SeqAdd(@, bytes)] ELSE Closing(t),
                    [k EXCEPT !.avail = @ - bytes]>>
        ELSE IF k.eof
             THEN <<IF s.forward # <<>> THEN write_rst(shut)
                    ELSE IF ~ok THEN Closing(shut)
                    ELSE [shut EXCEPT !.local_seq = SeqAdd(@, 1),
                                      !.state = IF @ = "ESTABLISHED" THEN "FIN_WAIT1"
                                                ELSE "LAST_ACK"],
                    NoSocket>>
        ELSE <<t, k>>

\* A session past LISTEN: forward, acknowledge, read.
Transfer ==
    /\ "ERR" \notin ev /\ sess.state # "LISTEN"
    /\ \E r \in ForwardRuns : \E acked \in TunResults, written \in TunResults :
           LET taken == FlattenSeq([i \in DOMAIN r |-> Taken(sess.port, sess.forward[i], r[i])])
               k == [sock EXCEPT !.unsent = @ + Total(r, MaxSegment + UrlPrefix)]
               s == AckForwarded(Forwarded(sess, r), k, r # <<>>, acked)
               done == Read(s, k, written)
           IN  /\ sess' = done[1]
               /\ sock' = done[2]
               /\ upstream' = upstream \o taken

check_tcp_socket ==
    /\ phase = "batch" /\ ev # {}
    /\ SocketError \/ ProxyReply \/ Connected \/ Transfer
    /\ ev' = {}
    /\ UNCHANGED <<phase, app>>

-----------------------------------------------------------------------------
\* The app's TCP, outside this repository: it sends its segments in order,
\* sends any of them again, and acknowledges a prefix of what it was sent; its
\* acknowledgements and the edge of its window never move back.

InBatch == phase = "batch"

Packet(flags, seq, len, off, ackseq, win) ==
    [port |-> app.port, syn |-> "syn" \in flags, ack |-> "ack" \in flags, fin |-> "fin" \in flags,
     rst |-> "rst" \in flags, seq |-> SeqAdd(RemoteStart, seq), len |-> len,
     off |-> off, ackseq |-> SeqAdd(LocalStart, ackseq), win |-> win]

\* The app sends a packet that acknowledges a and advertises window w, and the
\* engine handles it.
AppSends(flags, seq, len, off) ==
    /\ InBatch /\ app.phase \in {"syn", "open"}
    /\ \E a \in 1 .. (IF sess = NoSession THEN app.ack ELSE LocalOff(sess)), w \in Windows :
           /\ a >= app.ack /\ a + w >= app.edge
           /\ handle_tcp(Packet(flags, seq, len, off, a, w))
           /\ app' = [app EXCEPT !.phase = IF "rst" \in flags THEN "gone" ELSE "open",
                                 !.nxt = IF len > 0 /\ off + len - 1 > @
                                         THEN off + len - 1 ELSE @,
                                 !.fin = @ \/ "fin" \in flags,
                                 !.ack = a, !.edge = a + w]

\* A SYN, sent again while it is not answered.
AppSyn ==
    /\ InBatch
    /\ app.phase \in IF "resend" \in Faults THEN {"idle", "syn"} ELSE {"idle"}
    /\ \E n \in SynData, w \in Windows :
           /\ handle_tcp(Packet({"syn"}, 0, n, 1, 0, w))
           /\ app' = [app EXCEPT !.phase = "syn",
                                 !.nxt = IF n > @ THEN n ELSE @]

\* The last data segment may carry the FIN.
AppData ==
    \E g \in Segments, flags \in {{"ack"}, {"ack", "fin"}} :
        LET last == g[1] + g[2] - 1
        IN  /\ g[1] <= app.nxt + 1
            /\ app.fin => last <= app.nxt
            /\ "fin" \in flags => last >= app.nxt
            /\ AppSends(flags, g[1], g[2], g[1])

AppFin == AppSends({"ack", "fin"}, app.nxt + 1, 0, app.nxt + 1)

AppAck == AppSends({"ack"}, app.nxt + 1 + (IF app.fin THEN 1 ELSE 0), 0, app.nxt + 1)

AppReset == AppSends({"ack", "rst"}, app.nxt + 1, 0, app.nxt + 1)

\* A segment or the FIN that tun drops.
AppLoses ==
    /\ "loss" \in Faults /\ app.phase = "open" /\ ~app.fin
    /\ \/ \E g \in Segments :
              /\ g[1] <= app.nxt + 1 /\ g[1] + g[2] - 1 > app.nxt
              /\ app' = [app EXCEPT !.nxt = g[1] + g[2] - 1]
       \/ app' = [app EXCEPT !.fin = TRUE]
    /\ UNCHANGED <<sess, sock, phase, ev, upstream>>

\* The app falls silent: it was killed, or has nothing more to say.
AppSilent ==
    /\ app.phase # "gone"
    /\ app' = [app EXCEPT !.phase = "gone"]
    /\ UNCHANGED <<sess, sock, phase, ev, upstream>>

\* The network and the proxy or the destination, outside this repository.
SockStep ==
    \/ sock.conn = "connecting" /\ sock' = [sock EXCEPT !.conn = "connected"]
    \/ /\ "reset" \in Faults /\ sock.conn \in {"connecting", "connected"}
       /\ sock' = [sock EXCEPT !.conn = "failed"]
    \/ /\ sock.conn = "connected" /\ ~sock.eof /\ sock.made < MaxDown
       /\ app.port = "https" => sock.proxy = "done"
       /\ sock' = [sock EXCEPT !.made = @ + 1, !.avail = @ + 1]
    \/ /\ sock.conn = "connected" /\ ~sock.eof
       /\ sock' = [sock EXCEPT !.eof = TRUE]
    \/ /\ sock.proxy = "asked" /\ sock.conn = "connected" /\ ~sock.eof
       /\ \/ sock' = [sock EXCEPT !.proxy = "accepted"]
          \/ "refuse" \in Faults /\ sock' = [sock EXCEPT !.proxy = "declined"]

\* Upstream takes what is in the send buffer.
Drain ==
    /\ sock.conn = "connected" /\ sock.unsent > 0
    /\ sock' = [sock EXCEPT !.unsent = 0]
    /\ UNCHANGED <<sess, phase, ev, app, upstream>>

Network == SockStep /\ UNCHANGED <<sess, phase, ev, app, upstream>>

\* Bound: past every timeout the age of a session makes no difference.
AgeBound ==
    1 + (CHOOSE t \in {InitTimeout, IdleTimeout, CloseTimeout, KeepTimeout} :
            \A u \in {InitTimeout, IdleTimeout, CloseTimeout, KeepTimeout} : u <= t)

Tick ==
    /\ sess # NoSession /\ sess.age < AgeBound
    /\ sess' = [sess EXCEPT !.age = @ + 1]
    /\ UNCHANGED <<sock, phase, ev, app, upstream>>

-----------------------------------------------------------------------------
Engine == EpollWait \/ check_tcp_socket \/ (\E due \in BOOLEAN : Loop(due))

AppStep ==
    AppSyn \/ AppData \/ AppFin \/ AppAck \/ AppReset \/ AppLoses \/ AppSilent

Next == Engine \/ AppStep \/ Network \/ Drain \/ Tick

Spec == Init /\ [][Next]_vars

\* The engine's thread keeps running: a batch ends, epoll_wait returns (it has a
\* timeout), and EPOLL_MIN_CHECK passes again and again, so the sessions are
\* checked again and again, though not on every turn.  Upstream reads.
Fairness ==
    /\ WF_vars(EpollWait) /\ WF_vars(check_tcp_socket)
    /\ WF_vars(\E due \in BOOLEAN : Loop(due)) /\ SF_vars(Loop(TRUE))
    /\ WF_vars(Drain)

FairSpec == Spec /\ Fairness

\* The clock runs too.
TimedSpec == FairSpec /\ WF_vars(Tick)

-----------------------------------------------------------------------------
\* Properties

Live == {"SYN_RECV", "ESTABLISHED", "CLOSE_WAIT", "FIN_WAIT1", "LAST_ACK"}

\* The descriptor a session holds agrees with its state, over timeouts, resets
\* and closes in any order: it is open while the engine may still use it, closed
\* once the engine has sent its FIN or ended the session, and a session is never
\* freed with its socket open (check_tcp_session, the eof branch of
\* check_tcp_socket, the del branch of handle_events).
SocketMatchesState ==
    /\ sess = NoSession => sock.conn = "none"
    /\ sess # NoSession =>
          /\ sess.socket = (sock.conn # "none")
          /\ sess.state \in {"LISTEN", "SYN_RECV", "ESTABLISHED", "CLOSE_WAIT"} => sess.socket
          /\ sess.state \in {"FIN_WAIT1", "LAST_ACK", "CLOSE"} => ~sess.socket

\* On port 443 no byte of the app goes to the proxy, and no byte of the proxy to
\* the app, before the proxy has accepted the CONNECT: connect_sent guards the
\* state machine, not the forward loop, and a batch may carry an event from
\* before the CONNECT.  It rests on what the kernel watches for: after an
\* EPOLL_CTL_MOD that fails, a packet that is queued before the session is
\* closed is forwarded ("Always forward data").
TunnelFirst ==
    sess # NoSession /\ sess.port = "https" /\ sess.connect # "established" =>
        /\ sess.state \notin {"ESTABLISHED", "CLOSE_WAIT", "FIN_WAIT1", "LAST_ACK"}
        /\ upstream = <<>>

\* The app's bytes reach upstream in order and once each, whatever the app sends
\* again, however much of a segment a send takes, and when a send fails:
\* queue_tcp and the forward loop never resend and never go back.
UpstreamInOrder ==
    \A i, j \in DOMAIN upstream : i < j => upstream[i] < upstream[j]

\* remote_seq is "confirmed bytes received" (tun2http.h): while the session and
\* its connection to upstream stand, a byte the engine has acknowledged to the
\* app is one the kernel took from it for upstream.  A FIN is confirmed without a
\* look at its number, so it is excepted where tun may have dropped data before.
AckedReachesUpstream ==
    /\ sess # NoSession /\ sess.state \notin {"CLOSING", "CLOSE"}
    /\ sock.conn = "connected"
    /\ ~(app.fin /\ "loss" \in Faults)
    => \A b \in 1 .. app.nxt : b < RemoteOff(sess) => \E i \in DOMAIN upstream : upstream[i] = b

\* The engine never acknowledges what the app has not sent: the SYN and the FIN
\* count once each in remote_seq, although check_tcp_socket, handle_tcp and
\* write_rst each add them.
NeverAcksUnsent ==
    sess # NoSession => RemoteOff(sess) <= app.nxt + (IF app.fin THEN 2 ELSE 1)

\* The engine never sends the app data past the window the app advertised: it
\* keeps no data it could send again, so what the app drops is lost
\* (get_send_window, "Send window can be changed in the mean time").
WithinWindow ==
    sess # NoSession /\ sess.state \in {"ESTABLISHED", "CLOSE_WAIT"} =>
        LocalOff(sess) <= app.edge

\* The forward queue is sorted, without overlap, and its head is never behind
\* remote_seq: the forward loop and monitor_tcp_session only ever look at the
\* head, so one that is behind would stop the session for good.
QueueInOrder ==
    sess # NoSession =>
        LET q == sess.forward
            At(g) == Dist(RemoteStart, NextSeq(g))
        IN  /\ \A i, j \in DOMAIN q : i < j => At(q[i]) + Left(q[i]) <= At(q[j])
            /\ q # <<>> /\ sess.state \in Live => At(Head(q)) >= RemoteOff(sess)

\* When the engine has sent its FIN nothing the app sent is left in the queue,
\* where no socket is left to take it ("There was still data to send").
NothingStranded ==
    sess # NoSession /\ sess.state \in {"FIN_WAIT1", "LAST_ACK"} => sess.forward = <<>>

\* A session that is being closed never comes back: neither a packet of the app
\* nor an event that was already in the batch revives it.
ClosingIsFinal ==
    [][sess # NoSession /\ sess.state \in {"CLOSING", "CLOSE"} =>
          sess' = NoSession \/ sess'.state \in {"CLOSING", "CLOSE"}]_vars

\* A session that stands never waits for an event that the kernel does not watch
\* for: monitor_tcp_session compares with what it asked for last and would not
\* ask again ("epoll mod tcp error", tcp.c:136).  Port 443 is excepted, where a
\* session that is being closed may come back.
EventsKnown ==
    sess # NoSession /\ sess.socket /\ sess.port # "https"
        /\ sess.state \notin {"CLOSING", "CLOSE"}
    => sess.asked = sess.events

\* A session whose app has fallen silent is freed in the end, whatever upstream
\* does: its timeouts are not pushed back for ever.
SilentSessionFreed == app.phase = "gone" ~> sess = NoSession

\* Data the engine may forward is forwarded, or the session ends: the events
\* asked of epoll, the level of the send buffer and the position of the head
\* never wait for one another.  How soon is not said: epoll_wait may return at
\* any time here, and the shorter timeout of a recheck is not modelled.
HeadForwarded ==
    \A b \in 1 .. 3 :
        /\ sess # NoSession /\ sess.state \in {"ESTABLISHED", "CLOSE_WAIT"}
        /\ sess.forward # <<>> /\ RemoteOff(sess) = b
        /\ NextSeq(Head(sess.forward)) = sess.remote_seq
        ~>
        \/ sess = NoSession
        \/ sess.state \notin {"ESTABLISHED", "CLOSE_WAIT"}
        \/ RemoteOff(sess) > b

\* A SYN that is repeated while the socket is still being opened leaves the
\* session as it is ("repeated SYN ... The socket is probably not opened yet").
RepeatedSynIgnored ==
    [][AppSyn /\ sess # NoSession /\ sock.conn = "connecting" => sess'.state = sess.state]_vars

=============================================================================
