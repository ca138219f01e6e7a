# tun2http: specifications and proofs

tun2http is an Android app that takes the device's IP traffic from a tun device
and passes the TCP of ports 80 and 443 to an HTTP proxy. This directory holds
TLA+ specifications of its engine, of the service around it and of the app around
that, the TLC configurations that check them on small instances, and TLAPS proofs
of the invariants that matter most.

File names below are those of `src/android_app/app/src/main/cpp` (C) and
`src/android_app/app/src/main/java/com/tun2http/app` (Java).

    tlc -workers 2 -config MCTcpPlain.cfg MCTcpSession.tla
    tlapm TcpSessionProofs.tla

`PROJECT.json` says which lines of the source each definition stands for, and
which properties cover which hazard of the code.

## 1. The system

### Parts

| part | source | state it keeps | operations |
|---|---|---|---|
| Settings screen | `MainActivity.java` | the text of the field, the buttons, the bound service | onCreate, onResume, onPause, startVpn, onActivityResult, stopVpn, updateStatus |
| Preferences | all Java classes | proxy host and port, "the VPN runs" | commit (at once), apply (in memory, later on disk) |
| Receiver | `receiver/BootReceiver.java` | none | onReceive |
| Service | `service/Tun2HttpVpnService.java` | `vpn` (a descriptor or null), `lastBuilder` | onCreate, onStartCommand, start, stop, onRevoke, onDestroy |
| JNI | `tun2http.c` | `thread_id`, `pipefds`, `lock`, `jvm` | jni_init, jni_start, jni_stop, jni_done |
| Event loop | `session.c` | `ng_session` (the list), counts, `last_check`, `recheck` | handle_events, clear, check_allowed |
| IP | `ip.c` | none | check_tun, handle_ip, get_uid |
| TCP sessions | `tcp.c` | `struct tcp_session` and its queue of `struct segment` | handle_tcp, queue_tcp, check_tcp_session, monitor_tcp_session, check_tcp_socket, write_* |
| UDP sessions | `udp.c` | `struct udp_session` | handle_udp, check_udp_session, check_udp_socket |
| ICMP sessions | `icmp.c` | `struct icmp_session` | handle_icmp, check_icmp_session, check_icmp_socket |
| Sequence numbers, checksums | `util.c` | none | compare_u32, calc_checksum |
| HTTP, TLS, DNS, DHCP | `http.c`, `tls.c`, `dns.c`, `dhcp.c` | none | parse or rewrite one buffer |
| Utilities | `utils/IPUtil.java`, `utils/Util.java` | none | CIDR arithmetic, properties of the system |

### How they interact

The screen stores the proxy's address and sends the service a command, start or
stop, through Android; the receiver does so when the device has booted, if the
preference says that the VPN ran. The service establishes a VPN, which gives it a
tun descriptor, and calls `jni_start`, which creates a thread that runs
`handle_events`. The thread is the only one that works on sessions: each turn of
its loop counts them, checks each for its timeout and for the events to ask epoll
for, sleeps in `epoll_wait`, and handles what it was given. That is, in any order:
the byte that asks it to stop, packets read from tun (`check_tun`, `handle_ip`,
then one of `handle_tcp`, `handle_udp`, `handle_icmp`), and events of sockets, each
of which carries a pointer to its session. To stop, the service writes a byte to
the pipe, joins the thread and frees the list of sessions. `onRevoke` is called on
a binder thread, everything else of the app on the main thread. They share `vpn`,
`thread_id`, the pipe and the list without a lock.

A TCP session is a TCP end point written by hand. It answers the app over tun
and passes its bytes to a socket. On port 80 it rewrites the request line; on
port 443 it first asks the proxy to CONNECT and takes the app's handshake up
only when the proxy has accepted.

### What is hard

- Events of one batch are handled in any order, after others of the same batch
  have changed or ended the session they belong to.
- A TCP session is driven by the app, the socket, and timers, which come in any
  order; sends fail, or take a part; writes to tun fail; packets are repeated or
  lost; sequence numbers wrap.
- The engine never retransmits. What it gets wrong about a byte stays wrong.
- Timeouts shrink as the list grows, the loop sleeps for the time it has
  computed before, and skips checks it did less than 100 ms ago.
- The engine's thread ends by itself on an error and tells nobody. Its sessions
  stay in the list, and the next engine has another epoll descriptor.
- The join in `jni_stop` is made on the main thread.
- Android kills the process at any point, makes the service anew with or without
  a command, and writes preferences later. The screen sets its buttons before the
  service has seen the command.
- Texts that come from outside (requests, hellos, DNS answers, headers) are
  searched and stepped through with offsets computed by hand.

`PROJECT.json` lists these at their lines under `hazards`, with the properties
that cover each, or the reason why none does.

### What makes each part correct

- *Sequence numbers*: compare_u32 orders as RFC 1982 does, which it cites.
- *TCP session*: bytes reach upstream in order and once; what is acknowledged
  was taken; nothing is acknowledged that was not sent; nothing is sent past the
  app's window; the queue's head never falls behind; the descriptor matches the
  state; what the loop believes it asked epoll for is what epoll watches for;
  nothing passes a tunnel before the proxy has accepted; an ended session
  stays ended, a silent one is freed, and queued data does not get stuck. All of
  this as seen from outside: the session is a relay (`Relay`).
- *Session list*: an event's session is in the list and open; no descriptor is
  lost; a flow has one session; an idle one is closed in time. A session that takes
  packets is watched, as long as epoll takes its socket; where epoll refuses it, it
  is not. A session in use is not closed as idle, up to the limit on sessions; past
  it, it may be. Echo replies should keep their identifier, and do not (finding 4).
- *Lifecycle*: one engine at a time; it has its descriptor and its sessions to
  itself; a stop returns and leaves nothing behind; a service that says it runs
  has an engine.
- *App*: the last command wins; the preference the receiver reads is true of the
  service; a start that was asked for is served; the screen comes to show what is.
- *Parsers*: what is found in a buffer is what the protocol says is in it.

## 2. Modules

    Relay <........ TcpRelay <-- MCTcpSession
                      |   ^-- TcpRelayProofs (extends TcpStreamProofs, too)
    SeqNum <---- TcpSession
      ^              ^-- TcpSessionProofs <-- TcpStreamProofs (extends SeqNumProofs, too)
      ^-- SeqNumProofs
    SessionTable <-- MCSessionTable
      ^-- SessionTableProofs
    Lifecycle <---- App
      ^               ^---- AppProofs (extends LifecycleProofs, too)
      ^-- LifecycleProofs
    HttpRequest, TlsHello, DnsMessage, IpPacket, TcpOptions, Checksum, Cidr <-- Parsers <-- MCParsers
    Parsers <-- ParserProofs

`<--` is EXTENDS, `<....` INSTANCE with a refinement mapping. `App` composes the
service of `Lifecycle` with the screen, the receiver and Android: its actions
conjoin those of `Lifecycle`. The other modules meet at interfaces that are stated
in one and used in another: `Lifecycle` has the list as "empty or not" and assumes
that an engine that gets the stop byte reads it; `SessionTable` has an engine
begin and end at any time, and is the event loop over UDP and ICMP; `TcpSession`
is the event loop over one TCP session. Sessions do not read each other's state,
only their number, which `TcpSession` takes as an input (`SessionCounts`).

### SeqNum

`Signed` is the conversion of a `uint32_t` to `int`, `WrapInt` the overflow of an
`int`, `compare_u32` the function. The overflow is undefined in C. The module's
comment gives the reason why every outcome leads to the same answer.
`Rfc1982` is the comparison the code cites. `SeqSpace` stands for 2^32.

### TcpSession

| variable | code |
|---|---|
| `sess` | `struct ng_session` and its `struct tcp_session`: state, connect_sent, remote_seq, local_seq, acked, windows, the forward queue, time (as `age`), the events it means to be asked of epoll (`events`) and those the kernel has been given (`asked`) |
| `sock` | the kernel's end of the socket: connection, send buffer, what can be read, eof, and what the proxy is at |
| `phase`, `ev` | where the loop is, and the event of the batch that is not handled yet |
| `app` | the app's TCP, by how far it has sent, acknowledged and opened its window |
| `upstream` | history: the bytes the kernel has taken, as positions of the app's stream |

| action | code |
|---|---|
| `Loop(due)` | the top of the loop: `monitor_tcp_session`, and, if `due`, `check_tcp_session` and the freeing of the session |
| `EpollWait` | `epoll_wait`: the events of the socket now, of those the kernel was given; it may return without one at any time |
| `check_tcp_socket` | its branches `SocketError`, `ProxyReply`, `Connected`, `Transfer` (forward, acknowledge, read: one call of the function is one step) |
| `AppSyn`, `AppData`, `AppFin`, `AppAck`, `AppReset` | the app sends a packet and `handle_tcp` handles it: `NewSession`, `UnknownSession`, `Tunnelling` (port 443 before the proxy has accepted), `KnownSession` |
| `AppLoses`, `AppSilent`, `Network`, `Drain`, `Tick` | the environment |

A byte of the app is its position in the stream. `upstream` is the history of the
app's own bytes; of those `patch_http_url` inserts it says nothing (`Taken`: which
of its own a send of n bytes of the patched text takes). The forward loop is one
step over the results its sends have (`ForwardRuns`), the quirk that -1 compares as
the largest value included (`Counted`). `write_tcp` and the functions over it are
their effect on the session (`Written`, `write_rst`). The result of the CONNECT's
`send` and of the reply is a choice.

The environment is the app's own TCP, so it is a legal peer: it sends segments
of its stream in order, sends any again, never acknowledges what was not sent to it,
and never takes back a window. Whether it, tun, epoll or the network may fail
in a given way is chosen per run by `Faults`.

### Relay, TcpRelay

`Relay` says what the two ends of a connection may rely on, without a queue, a
socket, a tunnel or a state of TCP. Its variables are the stage of the connection,
what the app has sent and allowed (`sent`, `fin`, `edge`), what upstream has
(`taken`), what the app was told has arrived (`confirmed`) and what it was given
(`passed`). While the connection is `sound`, bytes are taken without a gap, and a
byte, or the end, is confirmed only when all before it was taken; the reset that
ends a connection is exempt, for it counts what it answers. Nothing is given to
the app past its window.

`TcpRelay` maps a session to it. `Stage` reads the state and the descriptor; `taken`
is the history `upstream`; `confirmed` and `passed` are remote_seq and local_seq as
distances from the first numbers. `Sound` says that the socket has not failed and
that no FIN may have overtaken data (see "What the properties exclude").
`KeepsPromise` is the specification of `Relay` under this mapping, as a property of
the session's runs.

### SessionTable

| variable | code |
|---|---|
| `sessions` | `ng_session`, by the address of each `struct ng_session` |
| `sock` | the kernel's end of each socket: open, known to the epoll of this engine, pending error, datagrams that wait |
| `phase`, `batch` | where `handle_events` is, and the events not handled yet |
| `count` | `isessions + usessions + tsessions` of this turn |
| `checked`, `recheck`, `wait` | `last_check` within EPOLL_MIN_CHECK, the flag, the timeout of `epoll_wait` |
| `echo` | history: the last echo reply of the batch |

`Begin` is the start of `handle_events` with `check_allowed`, `Loop` a turn up to
`epoll_wait` with every session checked, `EpollWait`, `handle_udp`, `handle_icmp`,
`check_udp_socket`, `check_icmp_socket`, `TunEmpty`, `UdpDone`, `BatchDone` the
handling of a batch, `End` an error or the stop byte at any point of it, `clear` the
freeing of the list. Addresses are reused once they are free, as those of `malloc`
are. A turn of the loop and of a handler takes no time: a second is long against it,
and time passes only in `epoll_wait` (`Tick`, `Tenth`) or between engines.

### Lifecycle

| variable | code |
|---|---|
| `created`, `vpn`, `starts` | the service, its field `vpn`, and the number of the last descriptor |
| `open` | the tun descriptors that are open |
| `thread_id`, `thread` | the global, and what each thread is at |
| `pipe`, `sessions` | bytes in the pipe; whether `ng_session` is empty |
| `actor` | what the main and the binder thread are at within a callback |
| `failed` | history: a thread was not started or ended by itself, and no new process has begun since |
| `overlap` | history: a callback and onRevoke were under way together in this process |

A callback is cut into the steps between which another thread can come: the
check of `vpn`, `jni_start`; `jni_stop` with its write, join and clear; the close
of the descriptor; `vpn = null`; `jni_done`. `vpn` is read anew where the code
reads it anew, and is null then if the other thread was faster: the exception
ends the process or is swallowed, as the code has it. `start` takes whether the
user's consent stands, `jni_start` whether a proxy is configured; `Lifecycle` alone
leaves both open, `App` gives them what its state says.

### App

| variable | code |
|---|---|
| `prefs`, `disk` | the preferences in memory and on disk: whether there is a host, its port (0 for none), "the VPN runs" |
| `intents` | the commands Android has for the service, the first of which is being executed or next; `null` is the intent of a service that was made anew without a command |
| `started` | Android keeps the service and makes it anew if its process dies (START_STICKY) |
| `prepared` | the user's consent (`VpnService.prepare`) |
| `screen` | `MainActivity`: closed, asking for consent or resumed; its field; the buttons that can be pressed |
| `asked` | history: the last command still to be obeyed, or obeyed |

| action | code |
|---|---|
| `Create`, `Destroy` | onCreate and onDestroy of the service, when Android calls them |
| `NothingToDo`, `Start`, `StartNative`, `Stop`, `StopStep` | onStartCommand with the steps of `Lifecycle`, the preference set by startNative and stopNative, and the end of the command |
| `Revoke` | another VPN takes over, or the consent is withdrawn; onRevoke if there is a VPN |
| `Open`, `Leave`, `Type`, `startVpn`, `Answer`, `stopVpn`, `updateStatus` | onCreate and onResume, onPause, the user's typing, the buttons, the dialog and onActivityResult, the handler that looks at the service |
| `Kill`, `Boot`, `Flush` | the process dies; the device boots and `onReceive` runs; changes of apply reach the disk |

A port the screen does not show is 80; a text without a port is `Portless`, one
that is not an address `Blank`. `Loaded` and `Accepted` are the way of the address
to the field and back.

### The parsers

Each module translates its function over sequences, lays out the inputs the protocol
allows with definitions of its own, and says what such an input means. `Parsers`
gives each one of its inputs, sets of which are its constants, and states the
agreement; `MCParsers` gives the constants small sets.

| module | code | against |
|---|---|---|
| `HttpRequest` | `patch_http_url`, `find_data`, the host | the request with its target in absolute form; a text is a sequence of tokens |
| `TlsHello` | `parse_tls_header` and its two helpers | the first host name of a hello of RFC 5246 and 6066 |
| `DnsMessage` | `get_qname`, `parse_dns_response`, `get_dns_query` | the names and answers of a message of RFC 1035 |
| `IpPacket` | `handle_ip` | the protocol of a packet and the length of its headers |
| `TcpOptions` | the loop over options in `handle_tcp` | the last size and scale of a list of options |
| `Checksum` | `calc_checksum`, and its three uses in a row | the check a receiver makes (RFC 1071) |
| `Cidr` | `IPUtil` | a list of blocks that is a range, and minimal |

On these inputs none reads a byte outside its data: TLC would stop at one.

## 3. Runs

| run | configuration | question | distinct states |
|---|---|---|---|
| `tcp_plain` | MCTcpPlain | a session of a direct or HTTP port, in any order of packets, events, timeouts, closes and failures: types, descriptor, order of bytes, acknowledgements, windows, queue, events asked for, end | 3,480,000 |
| `tcp_https` | MCTcpHttps | port 443, with a proxy that declines and sends that fail: nothing passes before the proxy accepts, and bytes stay in order | 749,000 |
| `tcp_silent` | MCTcpSilent | the session of an app that fell silent is freed; direct and through the tunnel, with data both ways, the session is a relay | 174,000 |
| `tcp_forward` | MCTcpForward | with sends that take a part, queued data goes on in the end, and the session is a relay | 16,900 |
| `app` | MCApp | from the taps of the user to the engine, all failures, on the main thread: a running service is served, a stop returns, a start is served, the screen answers | 64,800 |
| `app_revoke` | MCAppRevoke | with onRevoke on a binder thread: never two engines; without an overlap of callbacks: sole use, a complete stop, the last command, the preference | 1,310,000 |
| `table` | MCSessionTable | the list: pointers, descriptors, one session per flow, replies waited for, closed in time | 1,310,000 |
| `parsers` | MCParsers | each parser against its protocol | 119,000 |
| `tcp_send_fails` | MCTcpSendFails | violation: a failed send is acknowledged | |
| `tcp_syn_again` | MCTcpSynAgain | violation: a repeated SYN on 443 ends the session | |
| `tcp_empty_ack` | MCTcpEmptyAck | violation: on 443 the first data takes the place, and the length, of an empty ACK | |
| `table_echo` | MCSessionEcho | violation: an echo reply with another request's identifier | |

### Bounds, and why they are enough

- *Stream*: three bytes of data in a segment of two and one of one, on port 443
  two single ones. tun drops some, so that they repeat, come out of order, and
  leave gaps in the queue, and sends split them. The app's numbers
  start at 13 and the engine's at 60 of 64, so the engine's cross 0. Neither
  crosses half of `SeqSpace`, where compare_u32 is wrong: the theorems of
  `SeqNumProofs` say where that is at every width, and `CompareIsRfc1982` that
  elsewhere it is right. With 64 numbers no distance in these runs comes near half.
- *Buffers*: a send buffer whose half is 3 or 4 bytes fills up and closes the
  receive window; upstream has two bytes, windows of 1 and 2 bytes are less than
  that, or not, and change (on port 443 the window is 1). `ScaleUnit` is 1: a
  larger one only rounds the window down.
- *Timeouts*: 0 in most runs of `TcpSession`, where the age is 0 or more than 0, and
  the clock moves at any time, so that a check finds a session due or not as
  it comes. `tcp_forward` has timeouts of 1 and 2 and a list that is nearly empty or
  full (`SessionCounts`), so that load shortens them.
- *The list*: three addresses and `MaxSessions` 2, so that the limit is reached and,
  through DNS, exceeded, where timeouts become negative; three kinds of flow (UDP,
  DNS, ping) with different timeouts, shorter and longer than the sleep; addresses
  are reused. Symmetry permutes addresses only, and no property of the run
  is temporal. `MaxAge` is past every timeout
  plus 1, the largest age a property tells apart.
- *App*: two or three starts (`MaxStarts`). A state refers to the thread that is
  there and the one before it, so two starts show each order and the third that
  nothing accumulates. Two commands (`MaxIntents`) are one in execution and one
  that waits. One address with a port (`Typed`); the user can leave it as it is or
  have none.
- *Parsers*: requests of up to two headers with the words that could be mistaken;
  hellos of up to two extensions with lists of up to two names, whole, cut or
  followed by more; responses of up to two answers, named by pointer or spelled
  out; IPv6 chains of up to three headers; option lists of up to three options. A
  loop that goes wrong does so between two elements, so two of each are enough. A
  byte of `Checksum` has 4 values, so that words of every kind of sum and carry
  occur; an address of `Cidr` has 4 bits, and every range is tried.

### Fairness

`FairSpec` of `TcpSession` says that the engine's thread keeps running: a batch
ends, `epoll_wait` returns (it has a timeout on every call), and the sessions are
checked again and again, though not on every turn (`SF` of `Loop(TRUE)`: 100 ms pass
again and again; the clock of the code is the reason). It says also that upstream
reads what is in the socket (`Drain`), without which no forwarding could be
promised. `tcp_silent` adds that the clock runs (`TimedSpec`). Nothing is assumed of
the app, of the network's answers or of the proxy.

`AppFairSpec` of `App` says that the main thread goes on with the command it has
and with each step of a stop, that an engine's thread begins, reads the pipe that
is not empty, and ends, and that the screen's handler comes round each second.
The pipe is watched at level, so `epoll_wait` reports it on every call. That the
thread comes to read it also needs the loop over tun to pause: it reads while
packets are waiting, and a device that never pauses would hold the loop
(session.c:226). Nothing is assumed of the user, of `serve`, of failures, or of
when the disk is written. `StartServed` is about a process that is killed only
finitely often (`<>[]created`).

### Findings

Four disagreements between the code and what it says of itself, one run each:

1. *A failed send is acknowledged* (tcp.c:325). `if (sent > len)` compares
   signed with unsigned, so -1 becomes `len`; the branches for errors below it
   are dead, the segment leaves the queue and is acknowledged to the app. TLC
   needs a handshake, one segment and EAGAIN.
2. *A repeated SYN on port 443* (tcp.c:737) is taken for the packet that sends the
   CONNECT, over a socket that is not connected, and ends the session.
3. *The first data on port 443 is not forwarded* (tcp.c:957). The ACK that
   completes the handshake is queued with length 0; data with the same number
   replaces its bytes and not its length, so the segment is sent as an empty one.
   The app has to send it again. If it closes first, its FIN is confirmed, and
   with it bytes that upstream never had. No call fails in the counterexample.
4. *The identifier of an echo reply* (icmp.c:106) is that of the first request
   between the two addresses.

compare_u32 (util.c:33) is the reverse of RFC 1982 across 2^31, too; the theorems
`ComparePrecedes` and `CompareFollows` say exactly where.

### What the properties exclude, and why

Some properties hold of a part of the system only. The runs say so by their
ports and `Faults`. Outside them TLC shows the following.

- `AckedReachesUpstream` and `Sound` of `KeepsPromise` except an app that has sent
  its FIN, where tun drops data: a FIN is confirmed without a look at its number,
  so a gap before it counts as received (tcp.c:818). `Sound` excepts such an app
  on port 443, which is finding 3. On port 80 neither is checked with "partial":
  the part that was sent of a rewritten request is counted in bytes of the original.
- `KeepsPromise` is not checked with "again", which is finding 1.
- `TunnelFirst` is for an epoll_ctl that succeeds. When EPOLL_CTL_MOD fails
  (tcp.c:134) the session is only set to CLOSING: its socket stays open, and watched
  for what was asked before, up to the next check. On port 443 a packet of the app
  is then queued (tcp.c:718) and an EPOLLOUT that is pending sends it to the proxy
  before a CONNECT. Off 443 "epoll" is among the faults of `tcp_plain`, and there
  `EventsKnown` says that a session that is not ended has asked the kernel for
  exactly what the loop has noted. On 443 a session that was being closed may come
  back (below), and the check is without this fault.
- A failing EPOLL_CTL_ADD of a TCP session (tcp.c:688, logged only) and the drop of
  urgent data (tcp.c:583) are not modelled. A session whose socket was refused
  behaves as one whose socket never reports anything, or whose next epoll_ctl fails,
  and a dropped packet as one tun lost; both are among the behaviours that are
  there. Nothing is claimed to happen in the end of the first but that it is freed.
- `HeadForwarded` says that what is queued goes on, not how soon. `epoll_wait` may
  return at any time, so the times the code gives it, EPOLL_MIN_CHECK of `recheck`
  among them (tcp.c:128, session.c:111, 181), are not modelled: a `recheck` that is
  forgotten delays the forwarding to the end of a longer sleep, and would not show.
- `Relay` lets a connection that is ending be opened again if upstream has nothing
  of it: on port 443 a session that is CLOSING is set to LISTEN when its connection
  is ready (tcp.c:742). `ClosingIsFinal` and `NeverAcksUnsent` are therefore for
  the other ports; on 443 `write_rst` counts a SYN a second time (tcp.c:1079).
- `QueueInOrder` fails on port 443 and with data in a SYN: packets before the
  handshake are queued at numbers the session passes without sending them, and the
  head stays behind (tcp.c:658, 718). `SynData` is {0} for this reason.
- `TunOpenInLoop`, `ClearAlone`, `StopIsComplete`, `ServedWhenRunning` and
  `LastCommandWins` say nothing of a process in which onRevoke has run beside another
  callback (`overlap`): a start and a revocation interleave, and then they fail.
  `OneEngine` and `RunningIsRemembered` hold all the same. In such a process two
  threads may join the same engine, which POSIX leaves undefined; the model lets the
  second return once the engine has ended.
- `ServedWhenRunning` exempts a process in which an engine has failed: the service
  is not told, and nothing starts another. So no property here speaks of the service
  whose engine has died (session.c:261); that it stays without one is what the code
  does. `ServedWhenRunning` is checked for addresses with a port: one without is
  stored as port 0 and the service that is started has no engine; and port 80, which
  the screen does not show, becomes one without (MainActivity.java:155, 170).
- After a null intent the service does nothing, though the preference says it
  runs; `StartServed` and `LastCommandWins` count only commands.
- `ActiveIsWatched` is for an epoll that takes every socket: "add" is not among
  the `Faults` of `table`, and the theorem says so. Where epoll refuses a socket
  (udp.c:291, icmp.c:210) that is only logged, and the property fails: the session is
  listed, ACTIVE, and sends what the app sends, and the replies stay in the socket
  until it times out. The other properties of the list are proved with this fault too.
- `IdleClosedInTime` is about closing too late only. That a check does not close a
  session used in this second is `FreshStaysActive`, which is proved and not among the
  runs, for turns that count no more sessions than the limit. Past it,
  where DNS packets lead, the scaled timeout is negative (udp.c:10, icmp.c:10) and a
  session used in this very second is closed as idle.
- That an error ends its UDP session is not stated, for it does not: the loop calls
  `check_udp_socket` only without EPOLLERR (session.c:247), so its branch for an error
  (udp.c:69) is dead, and epoll reports the same event at once, turn after turn, until
  a send fails or the session times out.
- The limit on sessions is not stated: packets to port 53 pass it (udp.c:138) and a
  batch is admitted against the number counted before it (session.c:227).
- `RequestRewritten` is about requests in which no method looked for earlier
  stands anywhere else (`Unambiguous`): the search knows no lines (http.c:142). And it
  is about requests that spell the name of the host as the code looks for it
  (`Spelled`). HTTP lets the case of a header's name and the blank behind it vary
  (`HostNames`); `find_data` compares the first letter as it stands (http.c:99), and
  its word ends in a blank, so `host: x` and `Host:x` are not found (`HostWords`) and
  a request with such a header alone is passed on as it is. The
  length of a host is left out: the code copies 511 bytes of it (http.c:127).
- `NamesRead` has no name that is a label and then a pointer: the offset returned
  for it counts from the start of the name, and the answers after it are lost.
- `HandlerFitsPacket` exempts fragments, of which first ones pass (the flag is
  tested without converting the order of its bytes, ip.c:113), whole ICMP messages
  of 8 to 27 bytes (`ShortIcmp`), and does not ask that a packet with extension
  headers is handled. An echo has a header of 8 bytes, and the code compares its
  length with sizeof(struct icmp), 28 (ip.c:182), so it drops a ping with less than
  20 bytes of data. And it steps over none of the extension headers in use, against
  the comment at ip.c:142: the loop asks whether the header that follows is one of a
  lower layer (ip.c:148), which the last never is, so it ends one header early. TLC
  shows each where the exemption is dropped. Extension headers have 8 bytes here: a
  longer one only moves where a loop ends that drops the packet.
- `ChecksumVerifies` is about the sum only. A UDP checksum that comes out as 0 is
  sent as 0 over IPv6 (udp.c:506), and the size option of a SYN the engine writes
  is in the order of the machine (tcp.c:1182).

## 4. Proofs

TLAPS proves these for every value of the constants that the named assumptions
allow. TLC evaluates the assumptions on every run.

*`SeqNumProofs`* (assumption: `SeqSpace` even, at least 8). What `%` does over one
turn of the space is stated as lemmas (`ModSmall`, `ModNegative`, `DistValue`).
`CompareEqual`; `ComparePrecedes` and `CompareFollows`: for numbers closer than
half the space less one, the answer is that of the RFC, unless the pair crosses
the boundary, and then the opposite; `CompareIsRfc1982`: on one side of it they
agree.

*`TcpSessionProofs`* (assumption: `TcpAssumption`, types of the constants). The
invariant is `IInv == TypeOK /\ Control`, and `Control` is `SocketMatchesState`,
`NothingStranded` and what they need to be inductive: an event is pending only for a
session whose socket is open (`EventsOfOpenSocket`), so that a handler never finds a
freed session, and a session of port 443 is not past the handshake before the proxy
has accepted (`TunnelStates`), so that setting it to LISTEN for the CONNECT
(tcp.c:742) never leaves a state without a socket. There is a lemma per helper (what
it returns and which fields it leaves alone), one per action, and `NextInv` joins
them. From it follow `TypesHold`, `SocketsMatch` and `QueueEmptyAfterFin`, for every
set of ports, 443 included. `EventsAreKnown` is `EventsKnown` under every fault, a
failing epoll_ctl included, by the invariant `Watched`: what the kernel has been
given is what the loop has noted, but where epoll_ctl may fail in a session that is
ending, or is of port 443. `ClosingFinalOffTunnel` is an action property, for every
set of ports without 443: each action from an ended state leads to an ended state or
to none. `NothingBeforeTunnel` adds `Untaken` to the invariant. The forward loop
looks neither at the port nor at `connect_sent`, so what keeps the app's bytes from
a proxy that has not accepted is the order of things: until the app has its SYN
answered nothing of it is queued, and a session whose SYN is answered is not asked
for EPOLLOUT by `monitor_tcp_session`, nor is one pending in the batch in which the
CONNECT is sent. That needs an app that sends its SYN once and without data
(`SynOnce`), and an epoll_ctl that does not fail (`EpollWorks`).

*`TcpStreamProofs`* (assumptions: those of `SeqNum` and `TcpSession`) is about the
bytes of a session. A sequence number is spoken of by its distance from the first of
its side (`DistAdd`, `DistOfAdd`), and the forward loop by the run of its sends: what
is taken of the queue (`RunTaken`), what is left of it (`RunDrops`), where remote_seq
stands then (`RunOutcome`). `EveryStep` says what a step of any kind can be, and
`PlainStep` that the last two belong to the tunnel:

| kind | what changes | steps of the code |
|---|---|---|
| `Rested` | the state, the age, the events asked for | the loop, an error of the socket, a connection made |
| `Freed` | the session goes | the loop |
| `Answered` | the SYN of the app is counted | the connection is ready, write_syn_ack |
| `Received` | a packet of the app | handle_tcp |
| `Transferred` | the queue, both numbers, upstream | check_tcp_socket |
| `Elsewhere` | the app, the socket | none |
| `Tunnelled` | the first packet sends the CONNECT, which sets the state to LISTEN; every one is queued, with data or without | handle_tcp, before the proxy has accepted |
| `Admitted` | the tunnel stands, the state is SYN_RECV | check_tcp_socket reads that the proxy accepts |

Each of the invariants is preserved by each kind:

- `Flow`: upstream's bytes ascend and are below remote_seq; a queued segment is
  numbered as its first byte and holds bytes the app has sent; remote_seq is at most
  one past them, two with the FIN. So it is on every port, and what is particular to
  the tunnel is in two of its parts. `Held` lets the queue of a tunnel hold packets
  without data as well (a SYN, an acknowledgement), which the forward loop passes
  with nothing given and remote_seq where it was (`HeldTaken`); when they are gone,
  what follows is numbered as before, which is why a run that moves remote_seq ends
  among the app's bytes (`RunBounds`). `Past` lets remote_seq count the SYN a second
  time, which an event of before the CONNECT can make it do. Hence `BytesInOrder`,
  for every port.
- `Order`: what `Flow` comes to without a tunnel (`FlowIsOrder`). Hence `AcksOnlySent`.
- `Window`: what was read from the socket is no more than it produced; the
  acknowledgement and window the session goes by are ones the app did send.
  Hence `StaysWithinWindow`.
- `Queue`: the segments are apart, sorted, ones of the app, and not behind
  remote_seq; if tun drops nothing they hold every byte from there up to the last
  one sent. The last is needed for the FIN: it is confirmed only with an empty
  queue. Hence `QueueStaysInOrder`.

*`TcpRelayProofs`* adds `Exact`: while the connection to upstream stands, upstream
has the bytes 1 to n and remote_seq is n + 1, or 0 before the SYN is counted, or n +
2 with the FIN. It rests on `Awaited`, that no event is reported of a connection
being made, so that no send counts that could not have taken anything. Hence
`ConfirmsOnlyTaken`; and with all four invariants `SessionKeepsPromise`, the
refinement of `Relay`. `InitPromise` maps the initial states. `NextPromise` maps the
steps kind by kind to `None`, `Begin`, `Both`, `Half`, `Ending`, `Over` or a
stutter: `StageMoves` joins what every kind has to show (the bytes extend what is
taken, the confirmed number is `Confirmable`, what is passed stays within the
window: `TurnPasses`).

The hypotheses name the connections these theorems are about:

- `OneApp`: no data in a SYN, and a stream that, with its SYN and FIN, fits the number
  space. A SYN's data is queued one byte too early, and a stream that comes round would
  make one number stand for two bytes.
- `OneStream`: in addition no port with a tunnel. On port 443 some of the properties
  fail (finding 3, and "What the properties exclude").
- `OneSide(LocalStart, MaxDown + 2)` and `SegmentsOneSide`: the engine's, or the app's,
  numbers do not come to 2^31 from below, where compare_u32 is the reverse
  (`ComparePrecedes`). They may cross 0. A connection whose app's numbers do come to it
  breaks `QueueInOrder`. Where the engine's own do, get_send_window takes `acked` itself
  for what is in flight and closes the window: TLC finds no violation of `WithinWindow`
  there, and the theorem says nothing of it.
- `SegmentsApart`: what the app sends again it sends in the same segments. queue_tcp
  looks for a segment's number only, so two that overlap in part are both queued.
- `SendsTell`: no send fails for want of buffer space (finding 1), and on port 80 none
  takes a part of a rewritten request, which the code counts in bytes of the original.
  Every other fault is allowed, losses on the tun device included.

`BytesInOrder` needs the first only, and `AcksOnlySent` the second. The constants of
`MCTcpHttps` satisfy the first, those of `MCTcpPlain` all of them; those of
`MCTcpForward` have sends that take a part, on another port than 80.

*`LifecycleProofs`* (assumption: `LifecycleAssumption`), for any actors and any number
of starts. `NeverTwoEngines` rests on `ThreadIdNamesIt`: a thread that is in
`begin`, `loop` or `done` is the one `thread_id` names. Hence `jni_start`, which
creates a thread only if the one named is not alive, creates no second one, and a
thread that ends resets its own name only. `DescriptorOpenInLoop`,
`SessionsClearedAlone` and `StopLeavesNothing` rest on `Alone`, which holds as long
as no two callbacks have overlapped: an engine that runs is the one of the
service's `vpn`, whose descriptor is open; a stop waits for that one; and from the
join to the end of the stop, and until `jni_start`, there is none. `EngineServes`, for
a caller that has seen to a proxy, rests on `Serving`: a byte in the pipe, and an
engine that is about to end, are only there while a stop waits for them, so the next
start finds neither.

*`AppProofs`* (assumption: `AppAssumption`). `AppImplementsService` is `AppSpec =>
Spec`: every step of the app is a step of the service or leaves its variables alone.
It needs one invariant, that the consent is TRUE or FALSE, so that what `App` gives
`start` and `jni_start` is among what `Lifecycle` allows. With it the first four
theorems above hold of the app: `AppNeverTwoEngines`, `AppDescriptorOpenInLoop`,
`AppSessionsClearedAlone`, `AppStopLeavesNothing`. Two more are for typed addresses
that have a port, and not port 80, which the screen does not show (`PortsTyped`), by
the invariant `RInv`: `Addressed`, that such an address is on the disk before a
start is queued and whenever the preference says that the service runs; `Commanded`,
that the main thread works at the first command of the queue; and `Remembers`, that
the preference agrees with `vpn` but between a start and its `startNative`, and from
`stopNative` to the end of a stop. `AppRemembersRunning` is `RunningIsRemembered`,
with onRevoke anywhere; `AppEngineServes` follows from `EngineServes`, as every
start then finds a proxy. The last two are for any typed address, by the invariant
`OInv`: the types, and `Obeys`, which is `Commanded`, that what was asked last is
the last command that waits (`LastAsked`), that a stop is under way for a command to
stop (`StopFirst`), and that the service is as asked, and no callback under way,
when no command waits (`Obeyed`). A command leaves the queue with the last step of
its callback (`FinishObeys`); that the other thread is idle then is `Alone` of
`Lifecycle`, in a process without an overlap. `AppTypesHold`, `AppObeysLastCommand`
(which is `LastCommandWins`).

*`SessionTableProofs`* (assumption: `TableAssumption`, in which the set of addresses
is finite), for any number of flows, sessions and datagrams and any timeouts. All
the properties that the run `table` checks are proved. `FreshStaysActive` adds
that no check ends a session used in the same second: up to the limit load leaves a
timeout of 0 at least (`ScaledUpToLimit`). `TakersAreWatched` is `ActiveIsWatched` for an epoll that takes
every socket (`"add"` is not among `Faults`): in a loop this engine's epoll was
asked to take the socket of every session that takes packets (`Registered`), and has
refused none (`NoneRefused`). The others are for any faults, that one included. All
rest on one inductive invariant, whose main parts are two. `Belong` ties batch, list
and sockets: an event of a batch is for a session in the list whose socket is open,
there are no events outside a batch, a session has its socket until it is closed,
and what is watched is open. It is needed because a session may end in the middle of
the batch that has its event. `Handles` says once what a handler may do to the one
session it is for, and `HandlesInv` that this preserves the invariant; packet, ping,
datagram and reply are then shown to be `Handles` steps or to do nothing. `InTime`
ties the sleep to the ages: right after the checks every session is within its
timeout, and the sleep ends before the first one is overdue. `ScaledType` is the
arithmetic: a load of the list never lengthens a timeout, so the sleep, which is
computed from the timeouts at the load of the checks, is not too long.

*`ParserProofs`* (assumptions: `ChecksumAssumption`, a byte has more than one value;
`TokensAssumption`, the words the code looks for are tokens; `IpPacketsAssumption`,
`TextsAssumption`, `RequestsAssumption`, `HellosAssumption` and
`OptionListsAssumption`, below) proves five properties of `Parsers` for any sets of
inputs: `EveryHandlerFits`, `EveryChecksumVerifies`, `EveryRequestRewritten`,
`EveryServerNameFound` and `EveryOptionsUnderstood`.

`HandlerFits` is for every `Packet`, which asks that the header of IPv4 is whole and
that only the last protocol of the chain may have a handler: the kernel hands tun no
other. A packet that is whole by its protocol, with 8 bytes of ICMP, comes to its
handler unless it has extension headers or is an ICMP message shorter than the 28
the code wants; every other is dropped, fragments apart. The loop over the extension
headers is defined for every chain (`SkipsExist`, by induction from its end) and never
comes to a protocol with a handler (`SkippedProtocol`), which is why such packets are
all dropped.

`SentVerifies` is for a pseudo header and a header of whole words and data of any
length. Its lemmas: the sum is what its steps make it (`SumSteps`) and that of a
text is that of its parts if the first has whole words (`TotalOfBoth`); what exceeds
a word, once carried, leaves a number that differs by a multiple of the largest word
(`FoldedLess`), so the loop ends with one that differs by a multiple, too
(`CarriedIs`, by the least number for which it would not).

`Rewritten` is for every `Message` whose host is `Spelled` as the code looks for it.
A `Message` asks what HTTP does: a target that is not empty and has no blank, so no
header's name in it, and headers that have a name and are one line. The text of the
headers, a fold, is what its steps make it (`LinesAre`), so the text of a request is
one without the name of a host, the line of its first host, and the rest
(`HostLine`; that no earlier header has such a name in it is `NoHostBefore`). The
name is then found at the first place after the one part and the host is what is
left of the other (`HostFound`); the methods before the request's own are not found,
so its own is, at the first place (`MethodFound`), and what is put behind it makes
the text of the absolute form (`AbsoluteIs`).

`NameFound` is for every `ClientHello`, which asks that what has a length fits in
its field, and that the name of a host is one of DNS: at most the 255 octets the
code copies, none of them zero. Both loops of the code are walks over a list of
entries: a walk is defined from every position (`WalkExists`), and one along the
ends of the entries finds the first that is sought, or nothing (`FirstOnWalk`). The
lists, folds again, are laid out entry by entry (`NamesLaid`, `ExtensionsLaid`), so
the walks find the first host name (`NamesParsed`) in the first list of names
(`ExtensionsParsed`). `PreludeIs` and `RecordIs` say which octet of a record stands
where, so what precedes the extensions is skipped (`HelloParsed`).

`OptionsParsed` is for every list of options that `Offers` allows: a size and a scale in
their fields, "end", padding, and others with any bytes, whose length says how long they
are. An option that gives its length as 0 is not among them; on it the loop of the code
would not move. A round of the loop takes one option and adds what it says
(`OptionTaken`), which is what one more option of the list says (`SaidNext`). The rounds
go along the ends of the options up to the first "end", the zeros that fill the last
word, or the last octet, and from there on change nothing (`RoundsAlong`); each option
has an octet at least, so as many rounds as there are octets are enough.

Only model-checked:

- liveness (`SilentSessionFreed`, `HeadForwarded`, `StopReturns`, `StartServed`,
  `ScreenAnswers`), which the prover does not do under fairness;
- the refinement `KeepsPromise` on port 443, where a session is set back to LISTEN and
  the first data takes the place of an empty segment, so that the bytes upstream has
  are in order (`BytesInOrder`) and need not be all that is confirmed (finding 3);
  `TunnelFirst` for an app that repeats its SYN;
- the other parsers. `get_qname` is defined by recursion along pointers that may go
  backwards, where that the recursion ends depends on the whole text (`NamesRead`).
  `toCIDR` needs powers of two, which the provers do not know (`RangeCovered`).

## 5. What is not modelled

- Packet building beyond checksums: no state.
- `dhcp.c`: a fixed answer built from one packet, marked untested in the source. It
  overwrites the source address of its session (dhcp.c:42).
- `get_uid`, whose result is logged only; logging; the byte counters; `lock`, which
  only the engine's thread takes.
- `get_header` and `next_header` (http.c), `block_udp` (udp.c): nothing calls them.
- Retransmission: the code has none; a packet tun drops towards the app is lost,
  and `local_seq` stands.
- The addresses, routes and allowed apps of the VPN builder; `nativeExit`, which is
  for a preference nobody reads; layout and messages of the screen.
- `Util.java`, which reads properties of the system, and the build.

## 6. Plan

Order of work, the most important behaviour first.

Done: `SeqNum` and its proofs; `TcpSession`, its runs, and the proofs of its control
invariant and of its byte stream; `Relay` as a property of the session's runs, and the
refinement proved; `Lifecycle`, its runs and proofs; `SessionTable`, its runs and
proofs; `App` with the service's restart by Android and at boot, and its proofs; the
parsers, and proofs about five of them.

Left:

`KeepsPromise` on port 443, for an app that has not sent its FIN: `Exact` and
`Queue` beside `Flow`, with the packets without data in the queue.
