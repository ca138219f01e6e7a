--------------------------- MODULE LifecycleProofs ---------------------------
(***************************************************************************)
(* What is proved of Lifecycle for every number of starts, every set of    *)
(* failures, and with onRevoke on its own thread: there is one engine, and *)
(* as long as onRevoke has run beside no other callback it has its         *)
(* descriptor and its sessions to itself.                                  *)
(***************************************************************************)
EXTENDS Lifecycle, TLAPS

-----------------------------------------------------------------------------
\* Types

LEMMA StartsFacts == \A n \in Starts : n \in 0 .. MaxStarts /\ n # 0
  BY LifecycleAssumption DEF Starts

LEMMA IdleTyped == AllIdle \in [Actors -> ActorStates] /\ Idle \in ActorStates
<1>1. Idle \in ActorStates
  BY LifecycleAssumption DEF Idle, ActorStates, ActorSteps
<1>q. QED
  BY <1>1 DEF AllIdle

LEMMA NoThreadsTyped == NoThreads \in [Starts -> ThreadSteps]
  BY DEF NoThreads, ThreadSteps

LEMMA ZeroTyped == 0 \in 0 .. MaxStarts /\ 0 \in Nat
  BY LifecycleAssumption

LEMMA InitTyped == Init => TypeOK
<1> SUFFICES ASSUME Init PROVE TypeOK
  OBVIOUS
<1>1. /\ created \in BOOLEAN /\ sessions \in BOOLEAN /\ failed \in BOOLEAN /\ overlap \in BOOLEAN
      /\ open \in SUBSET Starts
  BY DEF Init
<1>2. vpn = 0 /\ starts = 0 /\ thread_id = 0 /\ pipe = 0
  BY DEF Init
<1>3. thread = NoThreads /\ actor = AllIdle
  BY DEF Init
<1>q. QED
  BY <1>1, <1>2, <1>3, ZeroTyped, IdleTyped, NoThreadsTyped DEF TypeOK

\* A step of an actor keeps the shape of actor.
LEMMA GoesTyped ==
  ASSUME TypeOK, NEW a \in Actors, NEW step \in ActorSteps, Goes(a, step)
  PROVE  actor' \in [Actors -> ActorStates]
  BY DEF TypeOK, Goes, ActorStates

LEMMA ReturnsTyped ==
  ASSUME TypeOK, NEW a \in Actors, Returns(a)
  PROVE  actor' \in [Actors -> ActorStates]
  BY IdleTyped DEF TypeOK, Returns

LEMMA ProcessDiesTyped == TypeOK /\ ProcessDies => TypeOK'
<1> SUFFICES ASSUME TypeOK, ProcessDies PROVE TypeOK'
  OBVIOUS
<1>1. /\ created' \in BOOLEAN /\ sessions' \in BOOLEAN /\ failed' \in BOOLEAN
      /\ overlap' \in BOOLEAN /\ open' \in SUBSET Starts
  BY DEF ProcessDies
<1>2. vpn' = 0 /\ starts' = starts /\ thread_id' = 0 /\ pipe' = 0
  BY DEF ProcessDies
<1>3. thread' = NoThreads /\ actor' = AllIdle
  BY DEF ProcessDies
<1>q. QED
  BY <1>1, <1>2, <1>3, ZeroTyped, IdleTyped, NoThreadsTyped DEF TypeOK

\* A thread of a start moves on.
LEMMA BecomesTyped ==
  ASSUME TypeOK, NEW n \in Starts, NEW step \in ThreadSteps, Becomes(n, step)
  PROVE  thread' \in [Starts -> ThreadSteps]
  BY DEF TypeOK, Becomes

LEMMA OverlapsTyped ==
  ASSUME TypeOK, NEW a, Overlaps(a)
  PROVE  overlap' \in BOOLEAN
  BY DEF Overlaps, TypeOK

\* The type invariant is kept by the callbacks of the service.
LEMMA MainTyped == TypeOK /\ Main => TypeOK'
<1> SUFFICES ASSUME TypeOK, Main PROVE TypeOK'
  OBVIOUS
<1> USE LifecycleAssumption
<1>m. "main" \in Actors
  OBVIOUS
<1>1. CASE onCreate
  <2>1. created' \in BOOLEAN /\ sessions' \in BOOLEAN
    BY <1>1 DEF onCreate
  <2>2. vpn' = 0 /\ pipe' = 0 /\ UNCHANGED <<starts, open, thread_id, thread, actor, failed, overlap>>
    BY <1>1 DEF onCreate, history
  <2>q. QED
    BY <2>1, <2>2, ZeroTyped DEF TypeOK
<1>2. ASSUME NEW granted, start(granted) PROVE TypeOK'
  <2>1. CASE ProcessDies
    BY <2>1, ProcessDiesTyped
  <2>2. CASE ~ProcessDies
    <3>1. actor' \in [Actors -> ActorStates]
      BY <1>2, <2>2, <1>m, GoesTyped DEF start, ActorSteps
    <3>a. starts < MaxStarts
      BY ONLY <1>2, <2>2, Zenon DEF start
    <3>b. starts \in Nat /\ MaxStarts \in Nat
      BY DEF TypeOK
    <3>2. starts + 1 \in Starts
      BY <3>a, <3>b DEF Starts
    <3>q. QED
      BY <1>2, <2>2, <3>1, <3>2, StartsFacts, OverlapsTyped DEF start, TypeOK
  <2>q. QED
    BY <2>1, <2>2
<1>3. ASSUME NEW proxy, jni_start(proxy) PROVE TypeOK'
  <2>1. CASE vpn = 0 /\ ProcessDies
    BY <2>1, ProcessDiesTyped
  <2>2. CASE vpn # 0 /\ Returns("main")
    <3>1. actor' \in [Actors -> ActorStates]
      BY <2>2, <1>m, ReturnsTyped
    <3>2. vpn \in Starts
      BY <2>2 DEF TypeOK, Starts
    <3>3. thread_id' \in 0 .. MaxStarts /\ thread' \in [Starts -> ThreadSteps] /\ failed' \in BOOLEAN
      BY <1>3, <2>2, <3>2 DEF jni_start, TypeOK, ThreadSteps
    <3>q. QED
      BY <1>3, <2>2, <3>1, <3>3 DEF jni_start, TypeOK
  <2>q. QED
    BY <1>3, <2>1, <2>2 DEF jni_start
<1>4. CASE stop
  <2>1. actor' \in [Actors -> ActorStates]
    BY <1>4, <1>m, GoesTyped DEF stop, ActorSteps
  <2>q. QED
    BY <1>4, <2>1, OverlapsTyped DEF stop, TypeOK
<1>5. CASE onDestroy
  <2>1. actor["main"] \in ActorStates
    BY <1>m DEF TypeOK
  <2> DEFINE step == IF vpn = 0 THEN "jni_done" ELSE "jni_stop"
  <2>2. [actor["main"] EXCEPT !.step = step, !.destroy = TRUE] \in ActorStates
    BY <2>1 DEF ActorStates, ActorSteps
  <2>3. actor' \in [Actors -> ActorStates]
    BY <1>5, <2>2 DEF onDestroy, TypeOK
  <2>q. QED
    BY <1>5, <2>3, OverlapsTyped DEF onDestroy, TypeOK
<1>6. CASE jni_done
  <2>1. actor' \in [Actors -> ActorStates]
    BY <1>6, <1>m, ReturnsTyped DEF jni_done
  <2>q. QED
    BY <1>6, <2>1 DEF jni_done, history, TypeOK
<1>7. CASE ignored
  BY <1>7, <1>m, OverlapsTyped DEF ignored, TypeOK
<1>q. QED
  BY <1>1, <1>2, <1>3, <1>4, <1>5, <1>6, <1>7 DEF Main

LEMMA RevokeTyped == TypeOK /\ (onRevoke \/ revoked) => TypeOK'
<1> SUFFICES ASSUME TypeOK, onRevoke \/ revoked PROVE TypeOK'
  OBVIOUS
<1>1. CASE onRevoke
  <2>1. actor' \in [Actors -> ActorStates]
    BY <1>1, GoesTyped DEF onRevoke, ActorSteps
  <2>q. QED
    BY <1>1, <2>1, OverlapsTyped DEF onRevoke, TypeOK
<1>2. CASE revoked
  <2>1. actor' \in [Actors -> ActorStates]
    BY <1>2, ReturnsTyped DEF revoked
  <2>q. QED
    BY <1>2, <2>1, LifecycleAssumption DEF revoked, shared, history, TypeOK
<1>q. QED
  BY <1>1, <1>2

LEMMA StoppingTyped ==
  ASSUME TypeOK, NEW a \in Actors, Stopping(a)
  PROVE  TypeOK'
<1> USE LifecycleAssumption
<1>1. CASE jni_stop(a)
  <2>1. actor' \in [Actors -> ActorStates]
    <3>1. CASE Alive(thread_id)
      BY <1>1, <3>1 DEF jni_stop, TypeOK, ActorStates, ActorSteps
    <3>2. CASE ~Alive(thread_id)
      BY <1>1, <3>2, GoesTyped DEF jni_stop, ActorSteps
    <3>q. QED
      BY <3>1, <3>2
  <2>q. QED
    BY <1>1, <2>1 DEF jni_stop, shared, history, TypeOK
<1>2. CASE write(a)
  <2>1. actor' \in [Actors -> ActorStates]
    BY <1>2, GoesTyped DEF write, ActorSteps
  <2>q. QED
    BY <1>2, <2>1 DEF write, history, TypeOK
<1>3. CASE pthread_join(a)
  <2>1. actor' \in [Actors -> ActorStates]
    BY <1>3, GoesTyped DEF pthread_join, ActorSteps
  <2>q. QED
    BY <1>3, <2>1 DEF pthread_join, shared, history, TypeOK
<1>4. CASE clear(a)
  <2>1. actor' \in [Actors -> ActorStates]
    BY <1>4, GoesTyped DEF clear, ActorSteps
  <2>q. QED
    BY <1>4, <2>1 DEF clear, history, TypeOK
<1>5. CASE stopVPN(a)
  <2>1. CASE ProcessDies
    BY <2>1, ProcessDiesTyped
  <2>2. CASE ~ProcessDies
    <3>1. actor' \in [Actors -> ActorStates]
      BY <1>5, <2>2, GoesTyped, ReturnsTyped DEF stopVPN, ActorSteps
    <3>q. QED
      BY <1>5, <2>2, <3>1 DEF stopVPN, shared, history, TypeOK
  <2>q. QED
    BY <2>1, <2>2
<1>6. CASE null(a)
  <2>1. actor' \in [Actors -> ActorStates]
    BY <1>6, GoesTyped, ReturnsTyped DEF null, ActorSteps
  <2>q. QED
    BY <1>6, <2>1 DEF null, shared, history, TypeOK
<1>q. QED
  BY <1>1, <1>2, <1>3, <1>4, <1>5, <1>6 DEF Stopping

LEMMA EngineTyped ==
  ASSUME TypeOK, NEW n \in Starts, Engine(n)
  PROVE  TypeOK'
<1> USE DEF service, history, ThreadSteps
<1>1. CASE begin(n)
  BY <1>1, BecomesTyped DEF begin, TypeOK
<1>2. CASE serve(n)
  BY <1>2 DEF serve, TypeOK
<1>3. CASE read_stop(n)
  BY <1>3, BecomesTyped DEF read_stop, TypeOK
<1>4. CASE fails(n)
  BY <1>4, BecomesTyped DEF fails, TypeOK
<1>5. CASE ends(n)
  BY <1>5, BecomesTyped, LifecycleAssumption DEF ends, TypeOK
<1>q. QED
  BY <1>1, <1>2, <1>3, <1>4, <1>5 DEF Engine

LEMMA NextTyped == TypeOK /\ [Next]_vars => TypeOK'
<1> SUFFICES ASSUME TypeOK, [Next]_vars PROVE TypeOK'
  OBVIOUS
<1>1. CASE Killed
  BY <1>1, ProcessDiesTyped DEF Killed
<1>2. CASE UNCHANGED vars
  BY <1>2 DEF vars, shared, history, TypeOK
<1>q. QED
  BY <1>1, <1>2, MainTyped, RevokeTyped, StoppingTyped, EngineTyped DEF Next

\* Every variable keeps its type; in particular no thread reads a byte that is
\* not in the pipe.
THEOREM TypesHold == Spec => []TypeOK
  BY InitTyped, NextTyped, PTL DEF Spec

-----------------------------------------------------------------------------
\* One engine

\* thread_id names the thread that lives: the two are written together when a
\* thread is created, and thread_id is given up by the thread that ends.
ThreadIdNamesIt ==
    \A n \in Starts : thread[n] \in {"begin", "loop", "done"} => thread_id = n

LEMMA InitNames == Init => ThreadIdNamesIt
  BY DEF Init, NoThreads, ThreadIdNamesIt

LEMMA ProcessDiesNames == ProcessDies => ThreadIdNamesIt'
  BY DEF ProcessDies, NoThreads, ThreadIdNamesIt

\* A thread is created only after the one before it has ended.
LEMMA StartNames ==
  ASSUME TypeOK, ThreadIdNamesIt, NEW proxy, jni_start(proxy)
  PROVE  ThreadIdNamesIt'
<1>1. CASE ProcessDies
  BY <1>1, ProcessDiesNames
<1>2. CASE UNCHANGED <<thread_id, thread>>
  BY <1>2 DEF ThreadIdNamesIt
<1>3. CASE /\ vpn # 0 /\ ~Alive(thread_id)
           /\ thread_id' = vpn /\ thread' = [thread EXCEPT ![vpn] = "begin"]
  <2>1. \A n \in Starts : thread[n] \notin {"begin", "loop", "done"}
    BY <1>3, StartsFacts DEF ThreadIdNamesIt, Alive
  <2>2. \A n \in Starts : n # vpn => thread'[n] = thread[n]
    BY <1>3 DEF TypeOK
  <2>q. QED
    BY <1>3, <2>1, <2>2 DEF ThreadIdNamesIt
<1>q. QED
  BY <1>1, <1>2, <1>3 DEF jni_start

LEMMA EngineNames ==
  ASSUME TypeOK, ThreadIdNamesIt, NEW n \in Starts, Engine(n)
  PROVE  ThreadIdNamesIt'
<1> USE DEF service, ThreadIdNamesIt, TypeOK
<1>1. CASE begin(n)
  BY <1>1 DEF begin, Becomes
<1>2. CASE serve(n)
  BY <1>2 DEF serve
<1>3. CASE read_stop(n)
  BY <1>3 DEF read_stop, Becomes
<1>4. CASE fails(n)
  BY <1>4 DEF fails, Becomes
<1>5. CASE ends(n)
  BY <1>5 DEF ends, Becomes
<1>q. QED
  BY <1>1, <1>2, <1>3, <1>4, <1>5 DEF Engine

LEMMA StoppingNames ==
  ASSUME TypeOK, ThreadIdNamesIt, NEW a \in Actors, Stopping(a)
  PROVE  ThreadIdNamesIt'
<1>1. CASE ProcessDies
  BY <1>1, ProcessDiesNames
<1>2. CASE ~ProcessDies
  <2>1. UNCHANGED <<thread_id, thread>>
    BY <1>2 DEF Stopping, jni_stop, write, pthread_join, clear, stopVPN, null, shared
  <2>q. QED
    BY <2>1 DEF ThreadIdNamesIt
<1>q. QED
  BY <1>1, <1>2

LEMMA NextNames == TypeOK /\ ThreadIdNamesIt /\ [Next]_vars => ThreadIdNamesIt'
<1> SUFFICES ASSUME TypeOK, ThreadIdNamesIt, [Next]_vars PROVE ThreadIdNamesIt'
  OBVIOUS
<1>1. CASE \E proxy \in Proxies : jni_start(proxy)
  BY <1>1, StartNames
<1>2. CASE \/ onCreate \/ ignored \/ stop \/ onDestroy \/ jni_done \/ onRevoke \/ revoked
           \/ \E granted \in Grants : start(granted)
  <2>1. UNCHANGED <<thread_id, thread>> \/ ProcessDies
    BY <1>2 DEF onCreate, ignored, start, stop, onDestroy, jni_done, onRevoke, revoked, shared
  <2>q. QED
    BY <2>1, ProcessDiesNames DEF ThreadIdNamesIt
<1>3. CASE Killed
  BY <1>3, ProcessDiesNames DEF Killed
<1>4. CASE \E a \in Actors : Stopping(a)
  BY <1>4, StoppingNames
<1>5. CASE \E n \in Starts : Engine(n)
  BY <1>5, EngineNames
<1>6. CASE UNCHANGED vars
  BY <1>6 DEF vars, shared, ThreadIdNamesIt
<1>q. QED
  BY <1>1, <1>2, <1>3, <1>4, <1>5, <1>6 DEF Next, Main

\* Whatever callbacks onRevoke overtakes, and whatever fails, no two threads are
\* in handle_events.
THEOREM NeverTwoEngines == Spec => []OneEngine
<1>1. ThreadIdNamesIt => OneEngine
  BY DEF ThreadIdNamesIt, OneEngine, Running
<1>q. QED
  BY <1>1, InitTyped, InitNames, NextTyped, NextNames, PTL DEF Spec

-----------------------------------------------------------------------------
\* The engine and the threads of the service

NoEngine == \A n \in Starts : ~Running(n)

\* What a thread of the service knows of the engine at each of its steps, if no
\* other one is in a callback: jni_stop waits for the engine that runs, and from
\* the join to the end of a stop, and until startNative, there is none.
Knows(a) ==
    /\ ~At(a, "idle") => created
    /\ actor[a].step \in {"write", "join"} =>
          \A n \in Starts : Running(n) => actor[a].joins = n
    /\ actor[a].step \in {"jni_start", "clear", "stopVPN", "null", "revoked", "jni_done"} =>
          NoEngine
    /\ At(a, "jni_start") => vpn \in open

\* An engine that runs serves the vpn of the service, whose descriptor is open.
ServesVpn == \A n \in Starts : Running(n) => vpn = n /\ n \in open

Alone ==
    /\ \A a, b \in Actors : a = b \/ At(a, "idle") \/ At(b, "idle")
    /\ ServesVpn
    /\ ~created => NoEngine
    /\ \A a \in Actors : Knows(a)

LEMMA InitAlone == Init => Alone
  BY DEF Init, NoThreads, AllIdle, Idle, Alone, Knows, ServesVpn, Running, At, NoEngine

LEMMA ProcessDiesAlone == ProcessDies => Alone'
  BY DEF ProcessDies, NoThreads, AllIdle, Idle, Alone, Knows, ServesVpn, Running, At, NoEngine

\* The step a thread is at after it has gone there, or has returned.
LEMMA GoneTo ==
  ASSUME TypeOK, NEW a \in Actors, NEW step, Goes(a, step)
  PROVE  /\ actor'[a].step = step /\ actor'[a].joins = actor[a].joins
         /\ \A b \in Actors \ {a} : actor'[b] = actor[b]
  BY DEF TypeOK, Goes, ActorStates

LEMMA Returned ==
  ASSUME TypeOK, NEW a \in Actors, Returns(a)
  PROVE  /\ actor'[a].step = "idle"
         /\ \A b \in Actors \ {a} : actor'[b] = actor[b]
  BY DEF TypeOK, Returns, Idle

OthersIdle(a) == \A b \in Actors \ {a} : At(b, "idle")

LEMMA BusyAlone ==
  ASSUME Alone, NEW a \in Actors, ~At(a, "idle")
  PROVE  OthersIdle(a) /\ Knows(a) /\ created
  BY DEF Alone, OthersIdle, Knows

\* A callback that begins without overlapping another.
LEMMA BegunAlone ==
  ASSUME TypeOK, NEW a \in Actors, Overlaps(a), ~overlap'
  PROVE  OthersIdle(a)
  BY DEF Overlaps, OthersIdle

\* A step of one thread while the others are idle.
LEMMA AloneStep ==
  ASSUME NEW a \in Actors, OthersIdle(a),
         \A b \in Actors \ {a} : actor'[b] = actor[b],
         Knows(a)', ServesVpn', ~created' => NoEngine'
  PROVE  Alone'
<1>1. \A b \in Actors \ {a} : actor'[b].step = "idle"
  BY DEF OthersIdle, At
<1>2. \A b \in Actors \ {a} : Knows(b)'
  BY <1>1 DEF Knows, At
<1>q. QED
  BY <1>1, <1>2 DEF Alone, At

\* The callbacks of the service, one by one.
LEMMA MainAlone ==
  ASSUME TypeOK, Alone, Main, ~overlap'
  PROVE  Alone'
<1>m. "main" \in Actors
  BY LifecycleAssumption
<1>0. vpn = 0 => NoEngine
  BY StartsFacts DEF Alone, ServesVpn, NoEngine
<1>1. CASE onCreate
  <2>1. NoEngine /\ \A a \in Actors : At(a, "idle")
    BY <1>1 DEF onCreate, Alone, Knows
  <2>2. created' /\ UNCHANGED <<thread, actor>>
    BY <1>1 DEF onCreate
  <2>q. QED
    BY <2>1, <2>2 DEF Alone, Knows, ServesVpn, At, NoEngine, Running
<1>2. ASSUME NEW granted \in Grants, start(granted) PROVE Alone'
  <2>1. CASE ProcessDies
    BY <2>1, ProcessDiesAlone
  <2>2. CASE ~ProcessDies
    <3>1. OthersIdle("main") /\ Goes("main", "jni_start")
      BY <1>2, <1>m, <2>2, BegunAlone DEF start
    <3>2. vpn' \in open' /\ UNCHANGED thread /\ created' /\ NoEngine
      BY <1>2, <2>2, <1>0 DEF start
    <3>q. QED
      BY <3>1, <3>2, <1>m, GoneTo, AloneStep DEF Knows, At, ServesVpn, NoEngine, Running
  <2>q. QED
    BY <2>1, <2>2
<1>3. ASSUME NEW proxy \in Proxies, jni_start(proxy) PROVE Alone'
  <2>1. CASE ProcessDies
    BY <2>1, ProcessDiesAlone
  <2>2. CASE ~ProcessDies
    <3>1. /\ OthersIdle("main") /\ created /\ NoEngine /\ vpn \in open
      BY <1>3, <1>m, BusyAlone DEF jni_start, Knows, At
    <3>2. /\ Returns("main") /\ UNCHANGED <<created, vpn, open>>
          /\ thread' = thread \/ thread' = [thread EXCEPT ![vpn] = "begin"]
      BY <1>3, <2>2 DEF jni_start
    <3>3. \A n \in Starts : Running(n)' => n = vpn
      BY <3>1, <3>2 DEF TypeOK, NoEngine, Running
    <3>q. QED
      BY <3>1, <3>2, <3>3, <1>m, Returned, AloneStep DEF Knows, At, ServesVpn
  <2>q. QED
    BY <2>1, <2>2
<1>4. CASE stop
  <2>1. OthersIdle("main") /\ Goes("main", "jni_stop")
    BY <1>4, <1>m, BegunAlone DEF stop
  <2>2. created /\ UNCHANGED <<created, vpn, open, thread>>
    BY <1>4 DEF stop
  <2>q. QED
    BY <2>1, <2>2, <1>m, GoneTo, AloneStep DEF Alone, Knows, At, ServesVpn, NoEngine, Running
<1>5. CASE onDestroy
  <2>1. OthersIdle("main")
    BY <1>5, <1>m, BegunAlone DEF onDestroy
  <2>2. created /\ UNCHANGED <<created, vpn, open, thread>>
    BY <1>5 DEF onDestroy
  <2>3. /\ actor'["main"].step = IF vpn = 0 THEN "jni_done" ELSE "jni_stop"
        /\ \A b \in Actors \ {"main"} : actor'[b] = actor[b]
    BY <1>5, <1>m DEF onDestroy, TypeOK, ActorStates
  <2>q. QED
    BY <2>1, <2>2, <2>3, <1>0, <1>m, AloneStep DEF Alone, Knows, At, ServesVpn, NoEngine, Running
<1>6. CASE jni_done
  <2>1. OthersIdle("main") /\ NoEngine /\ Returns("main")
    BY <1>6, <1>m, BusyAlone DEF jni_done, Knows, At
  <2>2. UNCHANGED thread
    BY <1>6 DEF jni_done
  <2>q. QED
    BY <2>1, <2>2, <1>m, Returned, AloneStep DEF Knows, At, ServesVpn, NoEngine, Running
<1>7. CASE ignored
  BY <1>7 DEF ignored, Alone, Knows, At, ServesVpn, NoEngine, Running
<1>q. QED
  BY <1>1, <1>2, <1>3, <1>4, <1>5, <1>6, <1>7 DEF Main

LEMMA RevokeAlone ==
  ASSUME TypeOK, Alone, onRevoke \/ revoked, ~overlap'
  PROVE  Alone'
<1>1. CASE onRevoke
  <2>1. "binder" \in Actors /\ OthersIdle("binder")
    BY <1>1, BegunAlone DEF onRevoke
  <2>2. created /\ UNCHANGED <<created, vpn, open, thread>>
    BY <1>1 DEF onRevoke
  <2>3. /\ actor'["binder"].step = IF vpn = 0 THEN "revoked" ELSE "jni_stop"
        /\ \A b \in Actors \ {"binder"} : actor'[b] = actor[b]
    BY <1>1, <2>1, GoneTo DEF onRevoke
  <2>4. vpn = 0 => NoEngine
    BY StartsFacts DEF Alone, ServesVpn, NoEngine
  <2>q. QED
    BY <2>1, <2>2, <2>3, <2>4, AloneStep DEF Alone, Knows, At, ServesVpn, NoEngine, Running
<1>2. CASE revoked
  <2>1. "binder" \in Actors /\ OthersIdle("binder") /\ NoEngine /\ created
    BY <1>2, BusyAlone DEF revoked, Knows, At
  <2>2. UNCHANGED <<created, thread>> /\ Returns("binder")
    BY <1>2 DEF revoked, shared
  <2>q. QED
    BY <2>1, <2>2, Returned, AloneStep DEF Knows, At, ServesVpn, NoEngine, Running
<1>q. QED
  BY <1>1, <1>2

\* The steps of a stop, which lead from the engine that runs to none.
LEMMA StoppingAlone ==
  ASSUME TypeOK, ThreadIdNamesIt, Alone, NEW a \in Actors, Stopping(a)
  PROVE  Alone'
<1>0. OthersIdle(a) /\ Knows(a) /\ created
  BY BusyAlone DEF Stopping, jni_stop, write, pthread_join, clear, stopVPN, null, At
<1> USE DEF Alone, Knows, At, ServesVpn, NoEngine, Running
<1>1. CASE jni_stop(a)
  <2>0. UNCHANGED <<created, vpn, open, thread>>
    BY <1>1 DEF jni_stop, shared
  <2>1. CASE Alive(thread_id)
    <3>1. /\ actor'[a].step = "write" /\ actor'[a].joins = thread_id
          /\ \A b \in Actors \ {a} : actor'[b] = actor[b]
      BY <1>1, <2>1 DEF jni_stop, TypeOK, ActorStates
    <3>2. \A n \in Starts : Running(n) => n = thread_id
      BY DEF ThreadIdNamesIt
    <3>q. QED
      BY <1>0, <2>0, <3>1, <3>2, AloneStep
  <2>2. CASE ~Alive(thread_id)
    <3>1. Goes(a, "stopVPN")
      BY <1>1, <2>2 DEF jni_stop
    <3>2. NoEngine
      BY <2>2, StartsFacts DEF ThreadIdNamesIt, Alive
    <3>q. QED
      BY <1>0, <2>0, <3>1, <3>2, GoneTo, AloneStep
  <2>q. QED
    BY <2>1, <2>2
<1>2. CASE write(a)
  <2>1. Goes(a, "join") /\ UNCHANGED <<created, vpn, open, thread>>
    BY <1>0, <1>2 DEF write
  <2>2. \A n \in Starts : Running(n) => actor[a].joins = n
    BY <1>0, <1>2 DEF write
  <2>q. QED
    BY <1>0, <2>1, <2>2, GoneTo, AloneStep
<1>3. CASE pthread_join(a)
  <2>1. Goes(a, "clear") /\ UNCHANGED <<created, vpn, open, thread>>
    BY <1>3 DEF pthread_join, shared
  <2>2. NoEngine
    BY <1>0, <1>3 DEF pthread_join
  <2>q. QED
    BY <1>0, <2>1, <2>2, GoneTo, AloneStep
<1>4. CASE clear(a)
  <2>1. Goes(a, "stopVPN") /\ UNCHANGED <<created, vpn, open, thread>> /\ NoEngine
    BY <1>0, <1>4 DEF clear
  <2>q. QED
    BY <1>0, <2>1, GoneTo, AloneStep
<1>5. CASE stopVPN(a)
  <2>1. CASE ProcessDies
    BY <2>1, ProcessDiesAlone
  <2>2. CASE ~ProcessDies
    <3>1. NoEngine /\ UNCHANGED <<created, thread>>
      BY <1>0, <1>5, <2>2 DEF stopVPN, shared
    <3>2. /\ actor'[a].step \in {"null", "idle", "jni_done"}
          /\ \A b \in Actors \ {a} : actor'[b] = actor[b]
      BY <1>5, <2>2, GoneTo, Returned DEF stopVPN
    <3>q. QED
      BY <1>0, <3>1, <3>2, AloneStep
  <2>q. QED
    BY <2>1, <2>2
<1>6. CASE null(a)
  <2>1. NoEngine /\ UNCHANGED <<created, thread>>
    BY <1>0, <1>6 DEF null, shared
  <2>2. /\ actor'[a].step \in {"revoked", "idle", "jni_done"}
        /\ \A b \in Actors \ {a} : actor'[b] = actor[b]
    BY <1>6, GoneTo, Returned DEF null
  <2>q. QED
    BY <1>0, <2>1, <2>2, AloneStep
<1>q. QED
  BY <1>1, <1>2, <1>3, <1>4, <1>5, <1>6 DEF Stopping

\* The engine starts nothing.
LEMMA EngineAlone ==
  ASSUME TypeOK, Alone, NEW n \in Starts, Engine(n)
  PROVE  Alone'
<1>1. UNCHANGED service
  BY DEF Engine, begin, serve, read_stop, fails, ends
<1>2. \A m \in Starts : Running(m)' => Running(m)
  BY DEF Engine, begin, serve, read_stop, fails, ends, Becomes, Running, TypeOK
<1>q. QED
  BY <1>1, <1>2 DEF service, Alone, Knows, ServesVpn, At, NoEngine

\* Only the death of the process makes an overlap forgotten.
LEMMA OverlapStays == TypeOK /\ overlap /\ [Next]_vars => overlap' \/ ProcessDies
<1> SUFFICES ASSUME TypeOK, overlap, [Next]_vars, ~ProcessDies PROVE overlap'
  OBVIOUS
<1> USE DEF shared, history
<1>1. CASE Main
  BY <1>1 DEF Main, onCreate, ignored, start, jni_start, stop, onDestroy, jni_done, Overlaps
<1>2. CASE onRevoke \/ revoked
  BY <1>2 DEF onRevoke, revoked, Overlaps
<1>3. CASE \E a \in Actors : Stopping(a)
  BY <1>3 DEF Stopping, jni_stop, write, pthread_join, clear, stopVPN, null
<1>4. CASE \E n \in Starts : Engine(n)
  BY <1>4 DEF Engine, begin, serve, read_stop, fails, ends
<1>q. QED
  BY <1>1, <1>2, <1>3, <1>4 DEF Next, Killed, vars

LEMMA NextAlone ==
  TypeOK /\ ThreadIdNamesIt /\ (~overlap => Alone) /\ [Next]_vars => (~overlap => Alone)'
<1> SUFFICES ASSUME TypeOK, ThreadIdNamesIt, ~overlap => Alone, [Next]_vars, ~overlap'
             PROVE  Alone'
  OBVIOUS
<1>1. CASE ProcessDies
  BY <1>1, ProcessDiesAlone
<1>2. CASE ~ProcessDies
  <2>1. Alone
    BY <1>2, OverlapStays
  <2>2. CASE UNCHANGED vars
    BY <2>1, <2>2 DEF vars, shared, Alone, Knows, ServesVpn, At, Running, NoEngine
  <2>q. QED
    BY <1>2, <2>1, <2>2, MainAlone, RevokeAlone, StoppingAlone, EngineAlone DEF Next, Killed
<1>q. QED
  BY <1>1, <1>2

LEMMA AloneHolds == Spec => [](TypeOK /\ (~overlap => Alone))
<1>1. Init => TypeOK /\ ThreadIdNamesIt /\ (~overlap => Alone)
  BY InitTyped, InitNames, InitAlone
<1>2. TypeOK /\ ThreadIdNamesIt /\ (~overlap => Alone) /\ [Next]_vars
      => (TypeOK /\ ThreadIdNamesIt /\ (~overlap => Alone))'
  BY NextTyped, NextNames, NextAlone
<1>q. QED
  BY <1>1, <1>2, PTL DEF Spec

\* As long as onRevoke has run beside no other callback, the engine never works
\* on a descriptor that stopVPN has closed, whatever fails on the way.
THEOREM DescriptorOpenInLoop == Spec => []TunOpenInLoop
<1>1. (~overlap => Alone) => TunOpenInLoop
  BY DEF Alone, ServesVpn, TunOpenInLoop
<1>q. QED
  BY <1>1, AloneHolds, PTL

\* Nor are the sessions freed under it: clear and jni_done, which take no lock,
\* run when there is no engine.
THEOREM SessionsClearedAlone == Spec => []ClearAlone
<1>1. (~overlap => Alone) => ClearAlone
  BY DEF Alone, Knows, NoEngine, ClearAlone
<1>q. QED
  BY <1>1, AloneHolds, PTL

\* When the stop has returned, no engine is left behind.
THEOREM StopLeavesNothing == Spec => []StopIsComplete
<1>1. (~overlap => Alone) => StopIsComplete
  BY StartsFacts DEF Alone, ServesVpn, StopIsComplete
<1>q. QED
  BY <1>1, AloneHolds, PTL

-----------------------------------------------------------------------------
\* The engine that is there

\* Next, if startNative is only called with a proxy in the preferences.
ProxyNext ==
    \/ onCreate \/ ignored \/ stop \/ onDestroy \/ jni_done \/ onRevoke \/ revoked \/ ProcessDies
    \/ \E granted \in BOOLEAN : start(granted)
    \/ jni_start(TRUE)
    \/ \E a \in Actors : Stopping(a)
    \/ \E n \in Starts : Engine(n)

NoneJoins == \A a \in Actors : ~At(a, "join")

\* The byte that asks an engine to stop, and an engine that is on its way out, are
\* only there while a stop waits for that engine: what the next start finds is
\* an empty pipe and no thread.
Waits(a) ==
    /\ At(a, "write") => actor[a].joins \in Starts /\ Running(actor[a].joins)
    /\ At(a, "join") =>
          /\ actor[a].joins \in Starts
          /\ \/ Running(actor[a].joins) /\ pipe = 1
             \/ thread[actor[a].joins] \in {"done", "exit"} /\ pipe = 0
          /\ \A n \in Starts : thread[n] = "done" => n = actor[a].joins
    /\ At(a, "jni_done") => vpn = 0

Serving ==
    /\ NoneJoins => pipe = 0 /\ \A n \in Starts : thread[n] # "done"
    /\ \A a \in Actors : Waits(a)
    /\ vpn # 0 /\ (\A a \in Actors : actor[a].step \in {"idle", "jni_stop", "write"}) => Running(vpn)

LEMMA InitServing == Init => Serving
  BY DEF Init, NoThreads, AllIdle, Idle, Serving, Waits, At

LEMMA ProcessDiesServing == ProcessDies => Serving'
  BY DEF ProcessDies, NoThreads, AllIdle, Idle, Serving, Waits, At

\* Only the death of the process makes a failure forgotten.
LEMMA FailedStays == TypeOK /\ failed /\ [Next]_vars => failed' \/ ProcessDies
<1> SUFFICES ASSUME TypeOK, failed, [Next]_vars, ~ProcessDies PROVE failed'
  OBVIOUS
<1> USE DEF shared, history
<1>1. CASE Main
  BY <1>1 DEF Main, onCreate, ignored, start, jni_start, stop, onDestroy, jni_done
<1>2. CASE onRevoke \/ revoked
  BY <1>2 DEF onRevoke, revoked
<1>3. CASE \E a \in Actors : Stopping(a)
  BY <1>3 DEF Stopping, jni_stop, write, pthread_join, clear, stopVPN, null
<1>4. CASE \E n \in Starts : Engine(n)
  BY <1>4 DEF Engine, begin, serve, read_stop, fails, ends
<1>q. QED
  BY <1>1, <1>2, <1>3, <1>4 DEF Next, Killed, vars

\* A step of one thread that neither comes to the engine nor waits for it.
LEMMA QuietServing ==
  ASSUME Serving, NEW a \in Actors, OthersIdle(a),
         \A b \in Actors \ {a} : actor'[b] = actor[b],
         UNCHANGED <<pipe, thread>>,
         ~At(a, "join"), actor'[a].step \notin {"join", "write"},
         vpn' # 0 /\ actor'[a].step \in {"idle", "jni_stop"} =>
             vpn' = vpn /\ actor[a].step \in {"idle", "jni_stop", "write"},
         actor'[a].step = "jni_done" => vpn' = 0
  PROVE  Serving'
<1>1. \A b \in Actors \ {a} : actor[b].step = "idle" /\ actor'[b].step = "idle"
  BY DEF OthersIdle, At
<1>2. NoneJoins
  BY <1>1 DEF NoneJoins, At
<1>3. pipe' = 0 /\ \A n \in Starts : thread'[n] # "done"
  BY <1>2 DEF Serving
<1>4. \A b \in Actors : Waits(b)'
  BY <1>1 DEF Waits, At
<1>5. ASSUME vpn' # 0, \A b \in Actors : actor'[b].step \in {"idle", "jni_stop", "write"}
      PROVE  Running(vpn)'
  <2>1. vpn' = vpn /\ \A b \in Actors : actor[b].step \in {"idle", "jni_stop", "write"}
    BY <1>1, <1>5
  <2>q. QED
    BY <1>5, <2>1 DEF Serving, Running
<1>q. QED
  BY <1>3, <1>4, <1>5 DEF Serving

\* The callbacks of the service, up to their first call of the native code.
LEMMA CallbackServing ==
  ASSUME TypeOK, Alone, Serving, ~overlap', ~ProcessDies,
         \/ onCreate \/ ignored \/ stop \/ onDestroy \/ jni_done \/ onRevoke \/ revoked
         \/ \E granted \in BOOLEAN : start(granted)
  PROVE  Serving'
<1>m. "main" \in Actors
  BY LifecycleAssumption
<1>1. CASE onCreate
  <2>1. \A a \in Actors : At(a, "idle")
    BY <1>1 DEF onCreate, Alone, Knows
  <2>2. pipe = 0
    BY <2>1 DEF Serving, NoneJoins, At
  <2>3. pipe' = pipe /\ vpn' = 0 /\ UNCHANGED <<thread, actor>>
    BY <1>1, <2>2 DEF onCreate
  <2>q. QED
    BY <1>m, <2>1, <2>3, QuietServing DEF OthersIdle, At
<1>2. CASE ignored
  <2>1. OthersIdle("main") /\ At("main", "idle") /\ UNCHANGED <<pipe, thread, actor, vpn>>
    BY <1>2, <1>m, BegunAlone DEF ignored
  <2>q. QED
    BY <1>m, <2>1, QuietServing DEF At
<1>3. CASE stop
  <2>1. /\ OthersIdle("main") /\ At("main", "idle") /\ Goes("main", "jni_stop")
        /\ UNCHANGED <<pipe, thread, vpn>>
    BY <1>3, <1>m, BegunAlone DEF stop
  <2>q. QED
    BY <1>m, <2>1, GoneTo, QuietServing DEF At
<1>4. CASE onDestroy
  <2>1. OthersIdle("main") /\ At("main", "idle") /\ UNCHANGED <<pipe, thread, vpn>>
    BY <1>4, <1>m, BegunAlone DEF onDestroy
  <2>2. /\ actor'["main"].step = IF vpn = 0 THEN "jni_done" ELSE "jni_stop"
        /\ \A b \in Actors \ {"main"} : actor'[b] = actor[b]
    BY <1>4, <1>m DEF onDestroy, TypeOK, ActorStates
  <2>q. QED
    BY <1>m, <2>1, <2>2, QuietServing DEF At
<1>5. CASE jni_done
  <2>1. OthersIdle("main") /\ At("main", "jni_done") /\ Returns("main")
    BY <1>5, <1>m, BusyAlone DEF jni_done, At
  <2>2. pipe = 0 /\ vpn = 0
    BY <1>m, <2>1 DEF Serving, NoneJoins, Waits, OthersIdle, At
  <2>3. UNCHANGED <<pipe, thread, vpn>>
    BY <1>5, <2>2 DEF jni_done
  <2>q. QED
    BY <1>m, <2>1, <2>2, <2>3, Returned, QuietServing DEF At
<1>6. CASE onRevoke
  <2>1. /\ "binder" \in Actors /\ OthersIdle("binder") /\ At("binder", "idle")
        /\ UNCHANGED <<pipe, thread, vpn>>
    BY <1>6, BegunAlone DEF onRevoke
  <2>2. /\ actor'["binder"].step = IF vpn = 0 THEN "revoked" ELSE "jni_stop"
        /\ \A b \in Actors \ {"binder"} : actor'[b] = actor[b]
    BY <1>6, <2>1, GoneTo DEF onRevoke
  <2>q. QED
    BY <2>1, <2>2, QuietServing DEF At
<1>7. CASE revoked
  <2>1. /\ "binder" \in Actors /\ OthersIdle("binder") /\ At("binder", "revoked")
        /\ Returns("binder") /\ vpn' = 0 /\ UNCHANGED <<pipe, thread>>
    BY <1>7, BusyAlone DEF revoked, At, shared
  <2>q. QED
    BY <2>1, Returned, QuietServing DEF At
<1>8. ASSUME NEW granted \in BOOLEAN, start(granted) PROVE Serving'
  <2>1. /\ OthersIdle("main") /\ At("main", "idle") /\ Goes("main", "jni_start")
        /\ UNCHANGED <<pipe, thread>>
    BY <1>8, <1>m, BegunAlone DEF start
  <2>q. QED
    BY <1>m, <2>1, GoneTo, QuietServing DEF At
<1>q. QED
  BY <1>1, <1>2, <1>3, <1>4, <1>5, <1>6, <1>7, <1>8

\* startNative makes the engine, unless that fails: no other one is left.
LEMMA StartServing ==
  ASSUME TypeOK, Alone, Serving, ~failed', ~ProcessDies, jni_start(TRUE)
  PROVE  Serving'
<1>m. "main" \in Actors
  BY LifecycleAssumption
<1>1. /\ OthersIdle("main") /\ At("main", "jni_start") /\ NoEngine
      /\ vpn # 0 /\ Returns("main") /\ UNCHANGED <<vpn, pipe>>
  BY <1>m, BusyAlone DEF jni_start, Knows, At
<1>2. /\ actor'["main"].step = "idle"
      /\ \A b \in Actors \ {"main"} : actor[b].step = "idle" /\ actor'[b].step = "idle"
  BY <1>m, <1>1, Returned DEF OthersIdle, At
<1>3. pipe = 0 /\ \A n \in Starts : thread[n] # "done"
  BY <1>1, <1>2 DEF Serving, NoneJoins, At
<1>4. ~Alive(thread_id)
  BY <1>1, <1>3 DEF Alive, NoEngine, Running, TypeOK, Starts
<1>5. vpn \in Starts
  BY <1>1 DEF TypeOK, Starts
<1>6. thread' = [thread EXCEPT ![vpn] = "begin"]
  BY <1>1, <1>4 DEF jni_start
<1>7. thread'[vpn] = "begin" /\ \A n \in Starts : thread'[n] # "done"
  BY <1>3, <1>5, <1>6 DEF TypeOK
<1>q. QED
  BY <1>1, <1>2, <1>3, <1>7 DEF Serving, Waits, At, Running

\* The steps of a stop.
LEMMA StoppingServing ==
  ASSUME TypeOK, ThreadIdNamesIt, Alone, Serving, ~ProcessDies,
         NEW a \in Actors, Stopping(a)
  PROVE  Serving'
<1>0. OthersIdle(a) /\ Knows(a) /\ created
  BY BusyAlone DEF Stopping, jni_stop, write, pthread_join, clear, stopVPN, null, At
<1>1. ~At(a, "join") => pipe = 0 /\ \A n \in Starts : thread[n] # "done"
  BY <1>0 DEF Serving, NoneJoins, OthersIdle, At
<1>2. CASE jni_stop(a)
  <2>1. ~At(a, "join") /\ UNCHANGED <<pipe, thread, vpn>> /\ actor[a].step = "jni_stop"
    BY <1>2 DEF jni_stop, shared, At
  <2>2. CASE Alive(thread_id)
    <3>1. /\ actor'[a].step = "write" /\ actor'[a].joins = thread_id
          /\ \A b \in Actors \ {a} : actor'[b] = actor[b]
      BY <1>2, <2>2 DEF jni_stop, TypeOK, ActorStates
    <3>2. thread_id \in Starts /\ Running(thread_id)
      BY <1>1, <2>1, <2>2 DEF Alive, Running, TypeOK, Starts
    <3>3. \A b \in Actors : Waits(b)'
      BY <1>0, <2>1, <3>1, <3>2 DEF Waits, OthersIdle, At, Running
    <3>4. ASSUME vpn' # 0,
                 \A b \in Actors : actor'[b].step \in {"idle", "jni_stop", "write"}
          PROVE  Running(vpn)'
      <4>1. \A b \in Actors : actor[b].step \in {"idle", "jni_stop", "write"}
        BY <2>1, <3>1, <3>4
      <4>q. QED
        BY <2>1, <3>4, <4>1 DEF Serving, Running
    <3>q. QED
      BY <1>1, <2>1, <3>3, <3>4 DEF Serving
  <2>3. CASE ~Alive(thread_id)
    <3>1. Goes(a, "stopVPN")
      BY <1>2, <2>3 DEF jni_stop
    <3>q. QED
      BY <1>0, <2>1, <3>1, GoneTo, QuietServing
  <2>q. QED
    BY <2>2, <2>3
<1>3. CASE write(a)
  <2>1. Goes(a, "join") /\ At(a, "write") /\ pipe' = pipe + 1 /\ UNCHANGED <<thread, vpn>>
    BY <1>0, <1>3 DEF write
  <2>2. actor[a].joins \in Starts /\ Running(actor[a].joins) /\ pipe' = 1
    BY <1>1, <2>1 DEF Serving, Waits, At
  <2>3. /\ actor'[a].step = "join" /\ actor'[a].joins = actor[a].joins
        /\ \A b \in Actors \ {a} : actor'[b] = actor[b] /\ actor'[b].step = "idle"
    BY <1>0, <2>1, GoneTo DEF OthersIdle, At
  <2>4. \A n \in Starts : thread'[n] # "done"
    BY <1>1, <2>1 DEF At
  <2>5. \A b \in Actors : Waits(b)'
    BY <2>1, <2>2, <2>3, <2>4 DEF Waits, At, Running
  <2>q. QED
    BY <2>3, <2>5 DEF Serving, NoneJoins, At
<1>4. CASE pthread_join(a)
  <2>1. /\ Goes(a, "clear") /\ At(a, "join") /\ thread[actor[a].joins] = "exit"
        /\ UNCHANGED <<pipe, thread, vpn>>
    BY <1>4 DEF pthread_join, shared
  <2>2. pipe = 0 /\ \A n \in Starts : thread[n] # "done"
    BY <2>1 DEF Serving, Waits, Running
  <2>3. /\ actor'[a].step = "clear"
        /\ \A b \in Actors \ {a} : actor'[b].step = "idle"
    BY <1>0, <2>1, GoneTo DEF OthersIdle, At
  <2>q. QED
    BY <2>1, <2>2, <2>3 DEF Serving, Waits, At
<1>5. CASE clear(a)
  <2>1. Goes(a, "stopVPN") /\ ~At(a, "join") /\ UNCHANGED <<pipe, thread, vpn>>
    BY <1>5 DEF clear, At
  <2>q. QED
    BY <1>0, <2>1, GoneTo, QuietServing
<1>6. CASE stopVPN(a)
  <2>1. ~At(a, "join") /\ UNCHANGED <<pipe, thread, vpn>>
    BY <1>6 DEF stopVPN, At, shared, ProcessDies
  <2>2. /\ actor'[a].step = "null" \/ (actor'[a].step \in {"idle", "jni_done"} /\ vpn = 0)
        /\ \A b \in Actors \ {a} : actor'[b] = actor[b]
    BY <1>6, GoneTo, Returned DEF stopVPN
  <2>q. QED
    BY <1>0, <2>1, <2>2, QuietServing
<1>7. CASE null(a)
  <2>1. ~At(a, "join") /\ UNCHANGED <<pipe, thread>> /\ vpn' = 0
    BY <1>7 DEF null, At, shared
  <2>2. /\ actor'[a].step \in {"revoked", "idle", "jni_done"}
        /\ \A b \in Actors \ {a} : actor'[b] = actor[b]
    BY <1>7, GoneTo, Returned DEF null
  <2>q. QED
    BY <1>0, <2>1, <2>2, QuietServing
<1>q. QED
  BY <1>2, <1>3, <1>4, <1>5, <1>6, <1>7 DEF Stopping

\* The engine, which takes the byte that is meant for it.
LEMMA EngineServing ==
  ASSUME TypeOK, Alone, Serving, ~failed', NEW n \in Starts, Engine(n)
  PROVE  Serving'
<1>0. UNCHANGED <<vpn, actor>>
  BY DEF Engine, begin, serve, read_stop, fails, ends, service
<1>1. CASE begin(n)
  <2>1. pipe' = pipe /\ thread[n] = "begin" /\ thread' = [thread EXCEPT ![n] = "loop"]
    BY <1>1 DEF begin, Becomes
  <2>2. \A m \in Starts : /\ Running(m) => Running(m)'
                          /\ ~Running(m) => thread'[m] = thread[m]
                          /\ thread'[m] = "done" <=> thread[m] = "done"
    BY <2>1 DEF TypeOK, Running
  <2>3. \A a \in Actors : Waits(a)'
    BY <1>0, <2>1, <2>2 DEF Serving, Waits, At, Running
  <2>q. QED
    BY <1>0, <2>1, <2>2, <2>3 DEF Serving, NoneJoins, At, TypeOK, Starts
<1>2. CASE serve(n)
  BY <1>0, <1>2 DEF serve, Serving, NoneJoins, Waits, At, Running
<1>3. CASE read_stop(n)
  <2>1. pipe > 0 /\ pipe' = pipe - 1 /\ thread[n] = "loop" /\ thread' = [thread EXCEPT ![n] = "done"]
    BY <1>3 DEF read_stop, Becomes
  <2>2. PICK a \in Actors : At(a, "join")
    BY <2>1 DEF Serving, NoneJoins
  <2>3. actor[a].joins = n
    BY <2>1, <2>2 DEF Alone, Knows, Running, At
  <2>4. pipe = 1
    BY <2>1, <2>2 DEF Serving, Waits
  <2>5. thread'[n] = "done" /\ \A m \in Starts \ {n} : thread'[m] # "done"
    BY <2>1, <2>2, <2>3 DEF Serving, Waits, TypeOK
  <2>6. OthersIdle(a)
    BY <2>2, BusyAlone DEF At
  <2>7. \A b \in Actors : Waits(b)'
    BY <1>0, <2>1, <2>2, <2>3, <2>4, <2>5, <2>6 DEF Waits, At, OthersIdle
  <2>q. QED
    BY <1>0, <2>2, <2>7 DEF Serving, NoneJoins, At
<1>4. CASE fails(n)
  BY <1>4 DEF fails
<1>5. CASE ends(n)
  <2>1. pipe' = pipe /\ thread[n] = "done" /\ thread' = [thread EXCEPT ![n] = "exit"]
    BY <1>5 DEF ends, Becomes
  <2>2. PICK a \in Actors : At(a, "join")
    BY <2>1 DEF Serving, NoneJoins
  <2>3. actor[a].joins = n /\ pipe = 0
    BY <2>1, <2>2 DEF Serving, Waits, Running
  <2>4. thread'[n] = "exit" /\ \A m \in Starts : thread'[m] # "done"
    BY <2>1, <2>2, <2>3 DEF Serving, Waits, TypeOK
  <2>5. OthersIdle(a)
    BY <2>2, BusyAlone DEF At
  <2>6. \A b \in Actors : Waits(b)'
    BY <1>0, <2>1, <2>2, <2>3, <2>4, <2>5 DEF Waits, At, OthersIdle
  <2>q. QED
    BY <1>0, <2>2, <2>6 DEF Serving, NoneJoins, At
<1>q. QED
  BY <1>1, <1>2, <1>3, <1>4, <1>5 DEF Engine

ServesInv == ~overlap /\ ~failed => Serving

LEMMA NextServing ==
  TypeOK /\ ThreadIdNamesIt /\ (~overlap => Alone) /\ ServesInv /\ [Next]_vars
  /\ (ProxyNext \/ UNCHANGED vars) => ServesInv'
<1> SUFFICES ASSUME TypeOK, ThreadIdNamesIt, ~overlap => Alone, ServesInv, [Next]_vars,
                    ProxyNext \/ UNCHANGED vars, ~overlap', ~failed'
             PROVE  Serving'
  BY DEF ServesInv
<1>1. CASE ProcessDies
  BY <1>1, ProcessDiesServing
<1>2. CASE ~ProcessDies
  <2>1. Alone /\ Serving
    BY <1>2, OverlapStays, FailedStays DEF ServesInv
  <2>2. CASE UNCHANGED vars
    BY <2>1, <2>2 DEF vars, shared, Serving, NoneJoins, Waits, At, Running
  <2>q. QED
    BY <1>2, <2>1, <2>2, CallbackServing, StartServing, StoppingServing, EngineServing
       DEF ProxyNext
<1>q. QED
  BY <1>1, <1>2

\* If whoever asks for a start has seen to a proxy, an engine runs whenever the
\* service says so and is between two callbacks: a stop leaves neither a byte
\* nor a thread that the next start would take for its own.
THEOREM EngineServes == Spec /\ "noproxy" \notin Faults => []ServedWhenRunning
<1> DEFINE I == /\ TypeOK /\ ThreadIdNamesIt /\ (~overlap => Alone) /\ ServesInv
                /\ "noproxy" \notin Faults
<1>1. Init /\ "noproxy" \notin Faults => I
  BY InitTyped, InitNames, InitAlone, InitServing DEF ServesInv
<1>2. I /\ [Next]_vars => I'
  <2>1. I /\ Next => ProxyNext
    BY DEF Next, Main, Proxies, Grants, Killed, ProxyNext
  <2>q. QED
    BY <2>1, NextTyped, NextNames, NextAlone, NextServing
<1>3. I => ServedWhenRunning
  BY DEF ServesInv, Serving, ServedWhenRunning, At
<1>q. QED
  BY <1>1, <1>2, <1>3, PTL DEF Spec
=============================================================================
