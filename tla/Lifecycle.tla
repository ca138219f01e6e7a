------------------------------ MODULE Lifecycle ------------------------------
(***************************************************************************)
(* The life of the engine's thread: the service (Tun2HttpVpnService) that  *)
(* starts and stops it, the JNI calls in between (tun2http.c), the thread  *)
(* itself (handle_events in session.c), and what they share: the field     *)
(* vpn, the tun descriptor, thread_id, the pipe that carries the request   *)
(* to stop, and the list of sessions.                                      *)
(*                                                                         *)
(* The main thread runs the service's callbacks one after the other.  A    *)
(* binder thread runs onRevoke, at any time and beside the main thread.    *)
(* Nothing they share is guarded by a lock.                                *)
(***************************************************************************)
EXTENDS Integers, FiniteSets

CONSTANTS
    MaxStarts,  \* bound: how often a VPN is established
    Actors,     \* the threads of the service: "main", and "binder" if revoked
    Faults      \* failures the environment is allowed, see Failures

Failures ==
    {"engine",      \* an error of epoll or of tun ends the loop of the thread
     "attach",      \* AttachCurrentThread fails
     "create",      \* pthread_create fails
     "deny",        \* the user may not have consented to a VPN of this app
     "noproxy",     \* there may be no proxy in the preferences
     "kill"}        \* Android kills the process

ASSUME LifecycleAssumption ==
    /\ MaxStarts \in Nat \ {0}
    /\ "main" \in Actors /\ Actors \subseteq {"main", "binder"}
    /\ Faults \subseteq Failures

\* A start is known by its number: the n-th tun descriptor, and the thread, if
\* one is created, that serves it.
Starts == 1 .. MaxStarts

VARIABLES
    created,    \* the service exists: between onCreate and onDestroy
    vpn,        \* the service's vpn, 0 being null
    starts,     \* how many descriptors were established
    open,       \* the descriptors that are open
    thread_id,  \* the thread started last, 0 once it has ended
    thread,     \* what the thread of each start is doing
    pipe,       \* bytes in the pipe
    sessions,   \* whether ng_session is not empty
    actor,      \* what each thread of the service is doing
    failed,     \* history: a thread could not be started, or ended by itself
    overlap     \* history: a callback and onRevoke were under way together

history == <<failed, overlap>>
shared == <<open, thread_id, thread, pipe, sessions, history>>
vars == <<created, vpn, starts, shared, actor>>

ThreadSteps == {"none", "begin", "loop", "done", "exit"}

ActorSteps == {"idle", "jni_start", "jni_stop", "write", "join", "clear",
               "stopVPN", "null", "revoked", "jni_done"}

\* joins: the thread jni_stop waits for.  destroy: called by onDestroy.
ActorStates == [step : ActorSteps, joins : 0 .. MaxStarts, destroy : BOOLEAN]

Idle == [step |-> "idle", joins |-> 0, destroy |-> FALSE]

TypeOK ==
    /\ created \in BOOLEAN
    /\ vpn \in 0 .. MaxStarts
    /\ starts \in 0 .. MaxStarts
    /\ open \in SUBSET Starts
    /\ thread_id \in 0 .. MaxStarts
    /\ thread \in [Starts -> ThreadSteps]
    /\ pipe \in Nat
    /\ sessions \in BOOLEAN
    /\ actor \in [Actors -> ActorStates]
    /\ failed \in BOOLEAN /\ overlap \in BOOLEAN

NoThreads == [n \in Starts |-> "none"]

AllIdle == [a \in Actors |-> Idle]

Init ==
    /\ created = FALSE /\ vpn = 0 /\ starts = 0 /\ open = {}
    /\ thread_id = 0 /\ thread = NoThreads
    /\ pipe = 0 /\ sessions = FALSE /\ actor = AllIdle
    /\ failed = FALSE /\ overlap = FALSE

\* pthread_kill(n, 0) = 0
Alive(n) == n # 0 /\ thread[n] \in {"begin", "loop", "done"}

At(a, step) == actor[a].step = step

Goes(a, step) == actor' = [actor EXCEPT ![a].step = step]

Returns(a) == actor' = [actor EXCEPT ![a] = Idle]

-----------------------------------------------------------------------------
\* The process dies, of an exception or because Android kills it: everything
\* but the number of starts is as at the beginning.
ProcessDies ==
    /\ created' = FALSE /\ vpn' = 0 /\ open' = {}
    /\ thread_id' = 0 /\ thread' = NoThreads
    /\ pipe' = 0 /\ sessions' = FALSE /\ actor' = AllIdle
    /\ failed' = FALSE /\ overlap' = FALSE
    /\ UNCHANGED starts

Killed == "kill" \in Faults /\ ProcessDies

-----------------------------------------------------------------------------
\* onCreate: jni_init empties the list of sessions and makes the pipe.
onCreate ==
    /\ ~created /\ At("main", "idle")
    /\ created' = TRUE /\ vpn' = 0 /\ sessions' = FALSE /\ pipe' = 0
    /\ UNCHANGED <<starts, open, thread_id, thread, actor, history>>

\* Whether a callback begins while another thread of the service is in one.
Overlaps(a) == overlap' = (overlap \/ \E b \in Actors \ {a} : ~At(b, "idle"))

\* ACTION_START: start up to the call of startNative.  Without the consent of
\* the user no descriptor is established, which is an exception.
start(granted) ==
    /\ created /\ At("main", "idle") /\ vpn = 0
    /\ \/ ~granted /\ ProcessDies
       \/ /\ granted /\ starts < MaxStarts
          /\ starts' = starts + 1 /\ vpn' = starts + 1
          /\ open' = open \cup {starts + 1}
          /\ Goes("main", "jni_start") /\ Overlaps("main")
          /\ UNCHANGED <<created, thread_id, thread, pipe, sessions, failed>>

\* onStartCommand with nothing to do.
ignored ==
    /\ created /\ At("main", "idle")
    /\ Overlaps("main")
    /\ UNCHANGED <<created, vpn, starts, open, thread_id, thread, pipe, sessions, failed, actor>>

\* Mutant: a thread is created whether or not one is running.
jni_start_Always(proxy) ==
    /\ At("main", "jni_start") /\ vpn # 0
    /\ Returns("main")
    /\ thread_id' = vpn /\ thread' = [thread EXCEPT ![vpn] = "begin"]
    /\ UNCHANGED <<created, vpn, starts, open, pipe, sessions, history>>

\* startNative: without a proxy nothing is started; a thread that is running is
\* left as it is.  vpn is read again, and may have become null.
jni_start(proxy) ==
    /\ At("main", "jni_start")
    /\ \/ vpn = 0 /\ ProcessDies
       \/ /\ vpn # 0
          /\ Returns("main")
          /\ \/ /\ ~proxy \/ Alive(thread_id)
                /\ UNCHANGED <<thread_id, thread, failed>>
             \/ /\ proxy /\ "create" \in Faults
                /\ failed' = TRUE
                /\ UNCHANGED <<thread_id, thread>>
             \/ /\ proxy /\ ~Alive(thread_id)
                /\ thread_id' = vpn /\ thread' = [thread EXCEPT ![vpn] = "begin"]
                /\ UNCHANGED failed
          /\ UNCHANGED <<created, vpn, starts, open, pipe, sessions, overlap>>

\* ACTION_STOP, onRevoke and onDestroy: stop, up to the call of jni_stop.
stop ==
    /\ created /\ At("main", "idle") /\ vpn # 0
    /\ Goes("main", "jni_stop") /\ Overlaps("main")
    /\ UNCHANGED <<created, vpn, starts, open, thread_id, thread, pipe, sessions, failed>>

onRevoke ==
    /\ created /\ "binder" \in Actors /\ At("binder", "idle")
    /\ Goes("binder", IF vpn = 0 THEN "revoked" ELSE "jni_stop") /\ Overlaps("binder")
    /\ UNCHANGED <<created, vpn, starts, open, thread_id, thread, pipe, sessions, failed>>

onDestroy ==
    /\ created /\ At("main", "idle")
    /\ actor' = [actor EXCEPT !["main"].step = IF vpn = 0 THEN "jni_done" ELSE "jni_stop",
                              !["main"].destroy = TRUE]
    /\ Overlaps("main")
    /\ UNCHANGED <<created, vpn, starts, open, thread_id, thread, pipe, sessions, failed>>

\* jni_stop: a thread that has ended by itself is neither joined nor are its
\* sessions cleared.
jni_stop(a) ==
    /\ At(a, "jni_stop")
    /\ IF Alive(thread_id)
       THEN actor' = [actor EXCEPT ![a].step = "write", ![a].joins = thread_id]
       ELSE Goes(a, "stopVPN")
    /\ UNCHANGED <<created, vpn, starts, shared>>

\* Mutant: the thread is asked to stop, and not waited for.
write_NoJoin(a) ==
    /\ At(a, "write")
    /\ pipe' = pipe + 1
    /\ Goes(a, "clear")
    /\ UNCHANGED <<created, vpn, starts, open, thread_id, thread, sessions, history>>

\* Mutant: the thread is waited for, and not asked to stop.
write_Silent(a) ==
    /\ At(a, "write")
    /\ Goes(a, "join")
    /\ UNCHANGED <<created, vpn, starts, shared>>

\* A pipe that jni_done has closed takes no byte, and then nothing is joined.
write(a) ==
    /\ At(a, "write")
    /\ IF created THEN pipe' = pipe + 1 /\ Goes(a, "join")
                  ELSE pipe' = pipe /\ Goes(a, "clear")
    /\ UNCHANGED <<created, vpn, starts, open, thread_id, thread, sessions, history>>

\* Mutant: the join does not wait.
pthread_join_Try(a) ==
    /\ At(a, "join")
    /\ Goes(a, "clear")
    /\ UNCHANGED <<created, vpn, starts, shared>>

pthread_join(a) ==
    /\ At(a, "join") /\ thread[actor[a].joins] = "exit"
    /\ Goes(a, "clear")
    /\ UNCHANGED <<created, vpn, starts, shared>>

\* clear does not take the lock.
clear(a) ==
    /\ At(a, "clear")
    /\ sessions' = FALSE
    /\ Goes(a, "stopVPN")
    /\ UNCHANGED <<created, vpn, starts, open, thread_id, thread, pipe, history>>

\* stopVPN is given the field vpn, read again: null is an exception, which ends
\* the process, or is swallowed by onDestroy and by the binder.
stopVPN(a) ==
    /\ At(a, "stopVPN")
    /\ \/ /\ vpn # 0
          /\ open' = open \ {vpn}
          /\ Goes(a, "null")
          /\ UNCHANGED <<created, vpn, starts, thread_id, thread, pipe, sessions, history>>
       \/ /\ vpn = 0
          /\ \/ a = "main" /\ ~actor[a].destroy /\ ProcessDies
             \/ /\ a = "binder" \/ actor[a].destroy
                /\ IF a = "binder" THEN Returns(a) ELSE Goes(a, "jni_done")
                /\ UNCHANGED <<created, vpn, starts, shared>>

\* Mutant: the closed descriptor is kept.
null_Kept(a) ==
    /\ At(a, "null")
    /\ IF a = "binder" THEN Goes(a, "revoked")
       ELSE IF actor[a].destroy THEN Goes(a, "jni_done")
       ELSE Returns(a)
    /\ UNCHANGED <<created, vpn, starts, shared>>

null(a) ==
    /\ At(a, "null")
    /\ vpn' = 0
    /\ IF a = "binder" THEN Goes(a, "revoked")
       ELSE IF actor[a].destroy THEN Goes(a, "jni_done")
       ELSE Returns(a)
    /\ UNCHANGED <<created, starts, shared>>

\* onRevoke sets vpn to null once more.
revoked ==
    /\ "binder" \in Actors /\ At("binder", "revoked")
    /\ vpn' = 0
    /\ Returns("binder")
    /\ UNCHANGED <<created, starts, shared>>

\* jni_done clears the sessions and closes the pipe.
jni_done ==
    /\ At("main", "jni_done")
    /\ created' = FALSE /\ sessions' = FALSE /\ pipe' = 0
    /\ Returns("main")
    /\ UNCHANGED <<vpn, starts, open, thread_id, thread, history>>

-----------------------------------------------------------------------------
\* handle_events, the thread of start n.

Becomes(n, step) == thread' = [thread EXCEPT ![n] = step]

service == <<created, vpn, starts, open, actor>>

\* A thread that cannot attach to Java returns at once and leaves thread_id.
begin(n) ==
    /\ thread[n] = "begin"
    /\ \/ Becomes(n, "loop") /\ UNCHANGED failed
       \/ "attach" \in Faults /\ Becomes(n, "exit") /\ failed' = TRUE
    /\ UNCHANGED <<service, thread_id, pipe, sessions, overlap>>

\* Packets and events make sessions.
serve(n) ==
    /\ thread[n] = "loop"
    /\ sessions' = TRUE
    /\ UNCHANGED <<service, thread_id, thread, pipe, history>>

\* Mutant: the byte is left in the pipe.
read_stop_Peek(n) ==
    /\ thread[n] = "loop" /\ pipe > 0
    /\ Becomes(n, "done")
    /\ UNCHANGED <<service, thread_id, pipe, sessions, history>>

\* Mutant: any event is taken for the request to stop.
read_stop_Any(n) ==
    /\ thread[n] = "loop"
    /\ pipe' = pipe - 1
    /\ Becomes(n, "done")
    /\ UNCHANGED <<service, thread_id, sessions, history>>

read_stop(n) ==
    /\ thread[n] = "loop" /\ pipe > 0
    /\ pipe' = pipe - 1
    /\ Becomes(n, "done")
    /\ UNCHANGED <<service, thread_id, sessions, history>>

\* An error of epoll or tun: the thread ends, and nobody is told.
fails(n) ==
    /\ "engine" \in Faults /\ thread[n] = "loop"
    /\ Becomes(n, "done")
    /\ failed' = TRUE
    /\ UNCHANGED <<service, thread_id, pipe, sessions, overlap>>

ends(n) ==
    /\ thread[n] = "done"
    /\ Becomes(n, "exit")
    /\ thread_id' = 0
    /\ UNCHANGED <<service, pipe, sessions, history>>

-----------------------------------------------------------------------------
\* Whether the user's consent stands, and whether a proxy is configured.
Grants == IF "deny" \in Faults THEN BOOLEAN ELSE {TRUE}
Proxies == IF "noproxy" \in Faults THEN BOOLEAN ELSE {TRUE}

Main ==
    \/ onCreate \/ ignored \/ stop \/ onDestroy \/ jni_done
    \/ \E granted \in Grants : start(granted)
    \/ \E proxy \in Proxies : jni_start(proxy)

Stopping(a) ==
    jni_stop(a) \/ write(a) \/ pthread_join(a) \/ clear(a) \/ stopVPN(a) \/ null(a)

Engine(n) == begin(n) \/ serve(n) \/ read_stop(n) \/ fails(n) \/ ends(n)

Next ==
    \/ Main \/ onRevoke \/ revoked \/ Killed
    \/ \E a \in Actors : Stopping(a)
    \/ \E n \in Starts : Engine(n)

Spec == Init /\ [][Next]_vars

-----------------------------------------------------------------------------
\* Properties

Running(n) == thread[n] \in {"begin", "loop"}

\* There is never more than one thread in handle_events: ng_session, the pipe
\* and tun have one user, although thread_id is written by the thread that ends
\* and by the one that starts the next.
OneEngine == \A m, n \in Starts : Running(m) /\ Running(n) => m = n

\* Unless onRevoke has run beside another callback since the process began:

\* The engine never works on a tun descriptor that was closed and may belong to
\* something else by now: stopVPN comes after the join, on every way to it.
TunOpenInLoop == ~overlap => \A n \in Starts : Running(n) => n \in open

\* clear frees the sessions only when no engine is using them: it takes no lock
\* and relies on the join.
ClearAlone ==
    ~overlap => \A a \in Actors : actor[a].step \in {"clear", "jni_done"} =>
                    \A n \in Starts : ~Running(n)

\* When the service says that it is not running, no engine runs.
StopIsComplete ==
    ~overlap /\ vpn = 0 /\ (\A a \in Actors : At(a, "idle")) => \A n \in Starts : ~Running(n)

\* When the service says that it is running, an engine serves its descriptor,
\* unless one has failed since the process began.  It rests on a stop leaving
\* neither a thread nor a byte in the pipe behind, and on whoever asks for a
\* start having seen to a proxy.
ServedWhenRunning ==
    ~overlap /\ ~failed /\ vpn # 0 /\ (\A a \in Actors : At(a, "idle")) => Running(vpn)

\* A stop returns: the join ends, whatever the engine is doing when it is asked.
StopReturns == At("main", "join") ~> At("main", "idle")

=============================================================================
