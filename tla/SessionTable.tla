---------------------------- MODULE SessionTable ----------------------------
(***************************************************************************)
(* The list of sessions ng_session under the loop of handle_events         *)
(* (session.c): its UDP sessions (udp.c) and ICMP sessions (icmp.c), the   *)
(* limit on their number (ip.c), the timeouts that shrink as the list      *)
(* grows, and the times the loop lets itself sleep in epoll_wait.  The TCP *)
(* sessions of the list are in TcpSession.                                 *)
(*                                                                         *)
(* A turn of the loop counts the sessions, checks them unless it has done  *)
(* so less than EPOLL_MIN_CHECK ago, sleeps, and handles a batch of        *)
(* events, in any order, with the count of the beginning.  Time passes     *)
(* while it sleeps.                                                        *)
(***************************************************************************)
EXTENDS Integers, FiniteSets, Sequences

CONSTANTS
    Ids,            \* addresses of a struct ng_session
    UdpFlows,       \* addresses and ports of UDP packets, DHCP excepted
    DnsFlows,       \* those to port 53
    Pings,          \* addresses of echo requests
    EchoIds,        \* identifiers of echo requests
    MaxSessions,
    UdpTimeout, DnsTimeout, IcmpTimeout, KeepTimeout, EpollTimeout,
    MaxAge,         \* bound: an older session is taken to be this old
    MaxInbox,       \* bound: datagrams that wait in a socket
    Faults          \* failures the environment is allowed, see Failures

Failures ==
    {"add",     \* epoll_ctl(EPOLL_CTL_ADD) fails
     "err"}     \* a socket has a pending error

Flows == UdpFlows \cup Pings

ASSUME TableAssumption ==
    /\ DnsFlows \subseteq UdpFlows /\ UdpFlows \cap Pings = {}
    /\ EchoIds \subseteq Nat \ {0}
    /\ MaxSessions \in Nat \ {0} /\ MaxInbox \in Nat
    /\ UdpTimeout \in Nat /\ DnsTimeout \in Nat /\ IcmpTimeout \in Nat
    /\ KeepTimeout \in Nat /\ EpollTimeout \in Nat \ {0}
    /\ MaxAge \in Nat
    /\ \A t \in {UdpTimeout, DnsTimeout, IcmpTimeout, KeepTimeout} : MaxAge > t + 1
    /\ IsFiniteSet(Ids) /\ "tun" \notin Ids
    /\ Faults \subseteq Failures

VARIABLES
    sessions,   \* ng_session: the session at each address in use
    sock,       \* the kernel's end of its socket
    phase,      \* what handle_events is at; "off": no engine runs
    batch,      \* events not handled yet, and whether each has EPOLLERR
    count,      \* sessions, as this turn of the loop has counted them, or 0
    checked,    \* the last check is at most EPOLL_MIN_CHECK ago
    recheck,    \* in epoll_wait: for EPOLL_MIN_CHECK only
    wait,       \* in epoll_wait: seconds until it returns without an event
    echo        \* history: the last echo reply of the batch, <<identifier asked, given>>

loop == <<count, checked, recheck, wait>>
vars == <<sessions, sock, phase, batch, loop, echo>>

\* udp_session and icmp_session.  FINISHING is the stop of an ICMP session; id
\* is its identifier, 0 for UDP.  age is the time since time was last set.
Session ==
    [flow : Flows, state : {"ACTIVE", "FINISHING", "CLOSED"}, socket : BOOLEAN,
     age : 0 .. MaxAge, id : EchoIds \cup {0}]

\* inbox: what waits to be received: datagrams, all alike, or echo replies, by
\* their identifier.  asked: the identifiers still to be answered.  watched:
\* registered with the epoll of the engine.
Socket ==
    [open : BOOLEAN, watched : {"no", "yes", "failed"}, err : BOOLEAN,
     inbox : Seq(Nat), asked : SUBSET EchoIds]

NoSocket ==
    [open |-> FALSE, watched |-> "no", err |-> FALSE, inbox |-> <<>>, asked |-> {}]

TypeOK ==
    /\ DOMAIN sessions \subseteq Ids
    /\ \A i \in DOMAIN sessions : sessions[i] \in Session
    /\ sock \in [Ids -> Socket]
    /\ phase \in {"off", "loop", "wait", "batch"}
    /\ DOMAIN batch \subseteq Ids \cup {"tun"}
    /\ \A e \in DOMAIN batch : batch[e] \in BOOLEAN
    /\ count \in Nat /\ wait \in Nat
    /\ checked \in BOOLEAN /\ recheck \in BOOLEAN
    /\ echo \in {<<>>} \cup (EchoIds \X EchoIds)

Empty == [e \in {} |-> FALSE]

Init ==
    /\ sessions = Empty /\ sock = [i \in Ids |-> NoSocket]
    /\ phase = "off" /\ batch = Empty
    /\ count = 0 /\ checked = FALSE /\ recheck = FALSE /\ wait = 0
    /\ echo = <<>>

-----------------------------------------------------------------------------
\* Helpers

Active == {i \in DOMAIN sessions : sessions[i].state = "ACTIVE"}

\* f with i mapped to x, and f without i.
With(f, i, x) == [j \in DOMAIN f \cup {i} |-> IF j = i THEN x ELSE f[j]]
Without(f, S) == [j \in DOMAIN f \ S |-> f[j]]

Least(S) == CHOOSE m \in S : \A n \in S : m <= n

Timeout(flow) == IF flow \in Pings THEN IcmpTimeout
                 ELSE IF flow \in DnsFlows THEN DnsTimeout ELSE UdpTimeout

\* get_udp_timeout and get_icmp_timeout: timeout * scale / 100, truncated
\* towards 0.  Beyond the limit on sessions it is negative.
Scaled(flow, n) ==
    LET p == Timeout(flow) * (100 - (n * 100) \div MaxSessions)
    IN  IF p >= 0 THEN p \div 100 ELSE -((-p) \div 100)

-----------------------------------------------------------------------------
\* The checks of a session, when the loop has counted n.

Closes(s, n) ==
    \/ s.state = "FINISHING"
    \/ s.state = "ACTIVE" /\ s.age > Scaled(s.flow, n)

\* check_icmp_session frees what it closes; check_udp_session keeps a closed
\* session for UDP_KEEP_TIMEOUT.
Frees(s, n) ==
    \/ s.flow \in Pings /\ Closes(s, n)
    \/ s.state = "CLOSED" /\ s.age > KeepTimeout

Closed(s) == [s EXCEPT !.state = "CLOSED", !.socket = FALSE, !.age = 0]

\* Mutant: sessions of ICMP are not considered.
Sleep_Udp(n, left) ==
    Least({EpollTimeout} \cup {Scaled(sessions[i].flow, n) - sessions[i].age + 1 :
                                  i \in {j \in left : sessions[j].flow \notin Pings}})

\* The time to sleep: until the first of the sessions that are left is due.
Sleep(n, left) ==
    Least({EpollTimeout} \cup
          {t \in {Scaled(sessions[i].flow, n) - sessions[i].age + 1 : i \in left} : t > 0})

\* One turn of the loop up to epoll_wait.
Loop ==
    /\ phase = "loop"
    /\ phase' = "wait"
    /\ count' = Cardinality(Active)
    /\ recheck' = checked
    /\ checked' = TRUE
    /\ IF checked
       THEN wait' = 0 /\ UNCHANGED <<sessions, sock>>
       ELSE LET closed == {i \in DOMAIN sessions : Closes(sessions[i], count')}
                freed == {i \in DOMAIN sessions : Frees(sessions[i], count')}
            IN  /\ sessions' = [i \in DOMAIN sessions \ freed |->
                                   IF i \in closed THEN Closed(sessions[i]) ELSE sessions[i]]
                /\ sock' = [i \in Ids |-> IF i \in closed THEN NoSocket ELSE sock[i]]
                /\ wait' = Sleep(count', Active \ closed)
    /\ UNCHANGED <<batch, echo>>

Ready == {i \in Ids : sock[i].watched = "yes" /\ (sock[i].inbox # <<>> \/ sock[i].err)}

\* epoll_wait has waited long enough.
Expired == IF recheck THEN ~checked ELSE wait = 0

\* epoll_wait returns events, nothing, or is interrupted.
EpollWait ==
    /\ phase = "wait"
    /\ \/ \E tun \in SUBSET {"tun"} :
              /\ Ready \cup tun # {}
              /\ batch' = [e \in Ready \cup tun |-> IF e \in tun THEN FALSE ELSE sock[e].err]
              /\ phase' = "batch" /\ UNCHANGED count
       \/ phase' = "loop" /\ count' = 0 /\ UNCHANGED batch
    /\ recheck' = FALSE /\ wait' = 0
    /\ UNCHANGED <<sessions, sock, checked, echo>>

\* All events of the batch are handled.
BatchDone ==
    /\ phase = "batch" /\ batch = Empty
    /\ phase' = "loop" /\ count' = 0 /\ echo' = <<>>
    /\ UNCHANGED <<sessions, sock, batch, checked, recheck, wait>>

\* Mutant: the sessions of UDP are left as they are.
check_allowed_Icmp ==
    [i \in DOMAIN sessions |->
        IF i \in Active /\ sessions[i].flow \in Pings
        THEN [sessions[i] EXCEPT !.state = "FINISHING"] ELSE sessions[i]]

\* The sessions an engine that failed has left are ended by the next one, whose
\* epoll does not know their sockets.
check_allowed ==
    [i \in DOMAIN sessions |->
        IF i \in Active THEN [sessions[i] EXCEPT !.state = "FINISHING"] ELSE sessions[i]]

\* handle_events begins.
Begin ==
    /\ phase = "off"
    /\ phase' = "loop"
    /\ sessions' = check_allowed
    /\ UNCHANGED <<sock, batch, loop, echo>>

\* It ends, in the middle of a batch: there is a byte in the pipe, or epoll or
\* tun fail.  Its epoll is closed.
End ==
    /\ phase \in {"wait", "batch"}
    /\ phase' = "off" /\ batch' = Empty
    /\ count' = 0 /\ checked' = FALSE /\ recheck' = FALSE /\ wait' = 0
    /\ sock' = [i \in Ids |-> [sock[i] EXCEPT !.watched = "no"]]
    /\ echo' = <<>>
    /\ UNCHANGED sessions

\* Mutant: the sockets are left open.
clear_Open ==
    /\ phase = "off" /\ sessions # Empty
    /\ sessions' = Empty
    /\ UNCHANGED <<sock, phase, batch, loop, echo>>

\* clear, when the service has joined an engine, or is destroyed.
clear ==
    /\ phase = "off" /\ sessions # Empty
    /\ sessions' = Empty
    /\ sock' = [i \in Ids |-> IF i \in DOMAIN sessions THEN NoSocket ELSE sock[i]]
    /\ UNCHANGED <<phase, batch, loop, echo>>

-----------------------------------------------------------------------------
\* Packets of the app

\* has_udp_session, which knows a DNS packet always, for jni_start is called
\* with fwd53 = false.
has_udp_session(f) ==
    f \in DnsFlows \/ \E i \in DOMAIN sessions : sessions[i].flow = f

\* The limit of handle_ip.
Admitted(f) == count < MaxSessions \/ (f \in UdpFlows /\ has_udp_session(f))

\* What sendto leaves of a session: it succeeds, or fails for now or for good.
SentOutcomes(s) ==
    {[s EXCEPT !.age = 0], [s EXCEPT !.age = 0, !.state = "FINISHING"]}

\* Mutant: the identifier is stored after it was modified.
New_Modified(f, e) ==
    [flow |-> f, state |-> "ACTIVE", socket |-> TRUE, age |-> 0, id |-> IF e = 0 THEN 0 ELSE -e - 1]

New(f, e) == [flow |-> f, state |-> "ACTIVE", socket |-> TRUE, age |-> 0, id |-> e]

\* Its socket, added to epoll or not.
NewSockets ==
    {[NoSocket EXCEPT !.open = TRUE, !.watched = w] :
        w \in {"yes"} \cup (IF "add" \in Faults THEN {"failed"} ELSE {})}

\* A session of flow f is opened, for a packet that is then sent; e is the
\* identifier of an echo request.
Opens(f, e) ==
    \E i \in Ids \ DOMAIN sessions, k \in NewSockets :
        \E s \in SentOutcomes(New(f, e)) :
            /\ sessions' = With(sessions, i, s)
            /\ sock' = [sock EXCEPT ![i] = [k EXCEPT !.asked = IF e = 0 THEN {} ELSE {e}]]

\* Mutant: a session whose sendto fails is freed at once.
Sends_Free(i, e) ==
    \/ /\ sessions' = With(sessions, i, [sessions[i] EXCEPT !.age = 0])
       /\ sock' = [sock EXCEPT ![i].asked = @ \cup (IF e = 0 THEN {} ELSE {e})]
    \/ /\ sessions' = Without(sessions, {i})
       /\ sock' = [sock EXCEPT ![i] = NoSocket]

\* A packet is sent over session i.
Sends(i, e) ==
    \E s \in SentOutcomes(sessions[i]) :
        /\ sessions' = With(sessions, i, s)
        /\ sock' = [sock EXCEPT ![i].asked = @ \cup (IF e = 0 THEN {} ELSE {e})]

\* Mutant: a session that is finished is not looked for.
UdpSessions_Active(f) == {i \in Active : sessions[i].flow = f}

UdpSessions(f) == {i \in DOMAIN sessions : sessions[i].flow = f}

PacketOf(f) == phase = "batch" /\ "tun" \in DOMAIN batch /\ Admitted(f)

\* handle_udp.  A packet of a session that is not active is ignored, and so is
\* one whose socket cannot be opened.
handle_udp(f) ==
    /\ PacketOf(f)
    /\ IF UdpSessions(f) = {} THEN Opens(f, 0)
       ELSE \E i \in UdpSessions(f) \cap Active : Sends(i, 0)
    /\ UNCHANGED <<phase, batch, loop, echo>>

\* handle_icmp.  A session serves every request between two addresses, and
\* keeps the identifier of the first.
handle_icmp(f, e) ==
    /\ PacketOf(f)
    /\ LET own == {i \in Active : sessions[i].flow = f}
       IN  IF own = {} THEN Opens(f, e) ELSE \E i \in own : Sends(i, e)
    /\ UNCHANGED <<phase, batch, loop, echo>>

\* check_tun reads until tun is empty.
TunEmpty ==
    /\ phase = "batch" /\ "tun" \in DOMAIN batch
    /\ batch' = Without(batch, {"tun"})
    /\ UNCHANGED <<sessions, sock, phase, loop, echo>>

-----------------------------------------------------------------------------
\* Datagrams from the network

\* The states a session of UDP is left in by a datagram.  One without data is
\* taken for an eof, recv or the write to tun may fail, and one answer is all a
\* DNS session waits for.
UdpReceived(s) == {"FINISHING"} \cup IF s.flow \in DnsFlows THEN {} ELSE {s.state}

\* check_udp_socket, called while the socket is readable.
check_udp_socket(i) ==
    /\ phase = "batch" /\ i \in DOMAIN batch \ {"tun"} /\ ~batch[i]
    /\ sessions[i].flow \in UdpFlows /\ sock[i].inbox # <<>>
    /\ \E st \in UdpReceived(sessions[i]) :
           sessions' = [sessions EXCEPT ![i].state = st, ![i].age = 0]
    /\ sock' = [sock EXCEPT ![i].inbox = Tail(@)]
    /\ UNCHANGED <<phase, batch, loop, echo>>

\* The loop over a UDP socket ends when nothing is left to read, and does not
\* begin if there is an error, which stays.
UdpDone(i) ==
    /\ phase = "batch" /\ i \in DOMAIN batch \ {"tun"} /\ sessions[i].flow \in UdpFlows
    /\ batch[i] \/ sock[i].inbox = <<>>
    /\ batch' = Without(batch, {i})
    /\ UNCHANGED <<sessions, sock, phase, loop, echo>>

\* check_icmp_socket receives once, and gives the reply the identifier of the
\* session.
check_icmp_socket(i) ==
    /\ phase = "batch" /\ i \in DOMAIN batch \ {"tun"} /\ sessions[i].flow \in Pings
    /\ batch' = Without(batch, {i})
    /\ IF batch[i]
       THEN /\ sessions' = [sessions EXCEPT ![i].state = "FINISHING", ![i].age = 0]
            /\ sock' = [sock EXCEPT ![i].err = FALSE]
            /\ UNCHANGED echo
       ELSE /\ sock' = [sock EXCEPT ![i].inbox = Tail(@)]
            /\ \/ /\ sessions' = [sessions EXCEPT ![i].age = 0]
                  /\ echo' = <<Head(sock[i].inbox), sessions[i].id>>
               \/ /\ sessions' = [sessions EXCEPT ![i].state = "FINISHING", ![i].age = 0]
                  /\ UNCHANGED echo
    /\ UNCHANGED <<phase, loop>>

-----------------------------------------------------------------------------
\* The network and the clock

\* A datagram arrives, or an error does.
Arrives(i) ==
    /\ sock[i].open /\ i \in DOMAIN sessions
    /\ \/ /\ Len(sock[i].inbox) < MaxInbox
          /\ \E n \in IF sessions[i].flow \in UdpFlows THEN {0} ELSE sock[i].asked :
                 sock' = [sock EXCEPT ![i].inbox = Append(@, n), ![i].asked = @ \ {n}]
       \/ "err" \in Faults /\ ~sock[i].err /\ sock' = [sock EXCEPT ![i].err = TRUE]
    /\ UNCHANGED <<sessions, phase, batch, loop, echo>>

\* More than EPOLL_MIN_CHECK passes.
Tenth ==
    /\ phase = "wait" /\ checked
    /\ checked' = FALSE
    /\ UNCHANGED <<sessions, sock, phase, batch, count, recheck, wait, echo>>

\* A second passes.  epoll_wait does not sleep longer than it was asked to.
Tick ==
    /\ phase = "off" \/ (phase = "wait" /\ ~Expired)
    /\ sessions' = [i \in DOMAIN sessions |->
                       [sessions[i] EXCEPT !.age = IF @ < MaxAge THEN @ + 1 ELSE @]]
    /\ checked' = FALSE
    /\ wait' = IF wait > 0 THEN wait - 1 ELSE 0
    /\ UNCHANGED <<sock, phase, batch, count, recheck, echo>>

Next ==
    \/ Begin \/ Loop \/ EpollWait \/ BatchDone \/ End \/ clear
    \/ \E f \in UdpFlows : handle_udp(f)
    \/ \E f \in Pings, e \in EchoIds : handle_icmp(f, e)
    \/ TunEmpty
    \/ \E i \in Ids : check_udp_socket(i) \/ UdpDone(i) \/ check_icmp_socket(i) \/ Arrives(i)
    \/ Tenth \/ Tick

Spec == Init /\ [][Next]_vars

-----------------------------------------------------------------------------
\* Properties

\* An event of a batch points to a session that is still in the list and whose
\* socket is open: events are handled in any order after others of the batch
\* have ended sessions, and nothing keeps a session alive but that only the
\* check of the next turn closes and frees.
EventsHaveSessions ==
    \A e \in DOMAIN batch \ {"tun"} : e \in DOMAIN sessions /\ sessions[e].socket

\* The open sockets are those of the sessions: none is left open by a session
\* that is freed, none is closed under a session that would use it, over
\* timeouts, failures, engines that end in the middle of a batch, and clear.
SocketsAccounted ==
    \A i \in Ids :
        sock[i].open = (i \in DOMAIN sessions /\ sessions[i].socket)

\* The packets of a flow have one session to go to: of UDP there is never a
\* second one while the first lingers, of ICMP no second one that is not
\* stopped.
OneSessionPerFlow ==
    \A i, j \in DOMAIN sessions :
        /\ sessions[i].flow = sessions[j].flow
        /\ sessions[i].flow \in UdpFlows \/ {i, j} \subseteq Active
        => i = j

\* A session that takes packets is one whose replies the engine waits for
\* ("Monitor events", udp.c:287), also after an engine has failed and another
\* has taken over its list.  So it is as long as epoll takes every socket: where
\* it refuses one, that is logged and the session takes packets all the same.
ActiveIsWatched ==
    phase # "off" => \A i \in Active : sock[i].watched = "yes"

\* A session that nobody uses is closed a second after its timeout at the
\* latest, although the loop sleeps as long as it can and skips checks: its
\* sleep is that of the session due first, whatever the load was when it was
\* computed.
IdleClosedInTime ==
    phase # "off" => \A i \in Active : sessions[i].age <= Timeout(sessions[i].flow) + 1

\* An echo reply reaches the app with the identifier of the request it answers
\* ("restore original ID", icmp.c:105).
EchoIdRestored == echo # <<>> => echo[1] = echo[2]

=============================================================================
