------------------------------ MODULE AppProofs ------------------------------
(***************************************************************************)
(* The app as a whole lets its service do nothing that Lifecycle does not  *)
(* allow: every step of AppSpec is a step of Lifecycle or leaves its       *)
(* variables alone.  So what LifecycleProofs proves of the service alone,  *)
(* under any sequence of calls, holds of the service in the app.           *)
(* What the preferences remember of it is proved of the app itself.        *)
(***************************************************************************)
EXTENDS App, LifecycleProofs

ConsentTyped == prepared \in BOOLEAN

\* A step whose part of the app is Dies or Finish, or nothing, keeps the consent.
LEMMA ConsentKept ==
  ASSUME \/ UNCHANGED appVars \/ Dies \/ Finish
  PROVE  prepared' = prepared
  BY DEF appVars, Dies, Finish

LEMMA ServiceConsent == Service \/ Ends => prepared' = prepared
<1>1. ASSUME Create \/ NothingToDo \/ Stop \/ Ends PROVE prepared' = prepared
  BY <1>1, ConsentKept DEF Create, NothingToDo, Stop, Ends
<1>2. ASSUME Start \/ StartNative PROVE prepared' = prepared
  BY <1>2, ConsentKept DEF Start, StartNative
<1>3. ASSUME NEW a \in Actors, StopStep(a) PROVE prepared' = prepared
  BY <1>3, ConsentKept DEF StopStep
<1>q. QED
  BY <1>1, <1>2, <1>3 DEF Service

LEMMA UserConsent == ConsentTyped /\ User => ConsentTyped'
<1> SUFFICES ASSUME ConsentTyped, User PROVE prepared' \in BOOLEAN
  BY DEF ConsentTyped
<1>1. CASE Open \/ Leave \/ Type
  BY <1>1 DEF Open, Leave, Type, screenOnly, ConsentTyped
<1>2. CASE startVpn \/ stopVpn
  BY <1>2 DEF startVpn, stopVpn, ConsentTyped
<1>3. CASE Answer
  BY <1>3 DEF Answer, ConsentTyped
<1>q. QED
  BY <1>1, <1>2, <1>3 DEF User

LEMMA NextConsent == ConsentTyped /\ [AppNext]_allVars => ConsentTyped'
<1> SUFFICES ASSUME ConsentTyped, [AppNext]_allVars PROVE prepared' \in BOOLEAN
  BY DEF ConsentTyped
<1>1. CASE Kill \/ Boot \/ Flush \/ Destroy \/ Revoke
  BY <1>1, ConsentKept DEF Kill, Boot, Flush, Destroy, Revoke, ConsentTyped
<1>2. CASE Service \/ Ends
  BY <1>2, ServiceConsent DEF ConsentTyped
<1>3. CASE User
  BY <1>3, UserConsent DEF ConsentTyped
<1>4. CASE updateStatus
  BY <1>4 DEF updateStatus, screenOnly, ConsentTyped
<1>5. CASE \E n \in Starts : Serves(n) \/ Works(n)
  BY <1>5, ConsentKept DEF Serves, Works, ConsentTyped
<1>6. CASE UNCHANGED allVars
  BY <1>6 DEF allVars, appVars, ConsentTyped
<1>q. QED
  BY <1>1, <1>2, <1>3, <1>4, <1>5, <1>6 DEF AppNext

\* A step of the app is a step of its service, or none of its service's.
LEMMA AppStep == ConsentTyped /\ [AppNext]_allVars => [Next]_vars
<1> SUFFICES ASSUME ConsentTyped, [AppNext]_allVars PROVE [Next]_vars
  OBVIOUS
<1>1. CASE Kill \/ Boot
  BY <1>1 DEF Kill, Boot, Killed, Next
<1>2. CASE Flush \/ updateStatus
  BY <1>2 DEF Flush, updateStatus, screenOnly
<1>3. CASE Destroy
  BY <1>3 DEF Destroy, Next, Main
<1>4. CASE Revoke
  BY <1>4 DEF Revoke, Next
<1>5. CASE Service
  <2>1. CASE Create \/ NothingToDo \/ Stop
    BY <2>1 DEF Create, NothingToDo, Stop, Next, Main
  <2>2. CASE Start
    <3>1. start(prepared) /\ prepared \in Grants
      BY <2>2, AppAssumption DEF Start, Grants, ConsentTyped
    <3>q. QED
      BY <3>1 DEF Next, Main
  <2>3. CASE StartNative
    <3>1. jni_start(Configured) /\ Configured \in Proxies
      BY <2>3, AppAssumption DEF StartNative, Proxies, Configured
    <3>q. QED
      BY <3>1 DEF Next, Main
  <2>4. ASSUME NEW a \in Actors, StopStep(a) PROVE Next
    BY <2>4 DEF StopStep, Next
  <2>q. QED
    BY <1>5, <2>1, <2>2, <2>3, <2>4 DEF Service
<1>6. CASE Ends
  BY <1>6 DEF Ends, Next, Main
<1>7. CASE User
  BY <1>7 DEF User, Open, Leave, Type, startVpn, Answer, stopVpn, screenOnly
<1>8. ASSUME NEW n \in Starts, Serves(n) \/ Works(n) PROVE Next
  BY <1>8 DEF Serves, Works, Engine, Next
<1>9. CASE UNCHANGED allVars
  BY <1>9 DEF allVars
<1>q. QED
  BY <1>1, <1>2, <1>3, <1>4, <1>5, <1>6, <1>7, <1>8, <1>9 DEF AppNext

\* The app drives its service as Lifecycle says: whatever the user, the receiver
\* and Android do, startNative and stopNative are only reached in the states in
\* which the service calls them.
THEOREM AppImplementsService == AppSpec => Spec
<1>1. AppInit => Init /\ ConsentTyped
  BY DEF AppInit, ConsentTyped
<1>q. QED
  BY <1>1, NextConsent, AppStep, PTL DEF AppSpec, Spec

\* In the app, too, no two threads are in handle_events at once.
THEOREM AppNeverTwoEngines == AppSpec => []OneEngine
  BY AppImplementsService, NeverTwoEngines, PTL

\* In the app, too, an engine's descriptor is open while it works on it.
THEOREM AppDescriptorOpenInLoop == AppSpec => []TunOpenInLoop
  BY AppImplementsService, DescriptorOpenInLoop, PTL

\* In the app, too, sessions are freed when no engine is using them.
THEOREM AppSessionsClearedAlone == AppSpec => []ClearAlone
  BY AppImplementsService, SessionsClearedAlone, PTL

\* In the app, too, a stopped service has left no engine behind.
THEOREM AppStopLeavesNothing == AppSpec => []StopIsComplete
  BY AppImplementsService, StopLeavesNothing, PTL

-----------------------------------------------------------------------------
\* Types of the part of the app that the service does not have.

Commands == {"start", "stop", "null"}

AppTyped ==
    /\ prefs \in Preferences /\ disk \in Preferences
    /\ intents \in Seq(Commands)
    /\ started \in BOOLEAN /\ prepared \in BOOLEAN
    /\ screen \in Screens
    /\ asked \in {"none", "start", "stop"}

\* Portless and Blank are texts of the field.
LEMMA TextsTyped ==
  /\ Portless \in Nat /\ Typed \subseteq Nat \cup {Blank} /\ Blank \in Nat \cup {Blank}
  /\ Closed \in Screens
  BY AppAssumption DEF Portless, Closed, Screens

LEMMA SendTyped ==
  ASSUME AppTyped, NEW c \in {"start", "stop"}, Send(c)
  PROVE  intents' \in Seq(Commands) /\ started' \in BOOLEAN /\ asked' \in {"none", "start", "stop"}
<1>1. c \in Commands /\ intents \in Seq(Commands) /\ intents' = Append(intents, c)
  BY DEF AppTyped, Commands, Send
<1>2. intents' \in Seq(Commands)
  BY <1>1
<1>q. QED
  BY <1>2 DEF Send

LEMMA AcceptedTyped ==
  ASSUME AppTyped, Accepted
  PROVE  /\ prefs' \in Preferences /\ disk' \in Preferences
         /\ intents' \in Seq(Commands)
         /\ started' \in BOOLEAN /\ asked' \in {"none", "start", "stop"}
<1>1. CASE screen.text = Blank
  BY <1>1 DEF Accepted, Refused, AppTyped
<1>2. CASE screen.text # Blank
  <2>1. screen.text \in Nat
    BY <1>2 DEF AppTyped, Screens
  <2>2. prefs' = [prefs EXCEPT !.host = TRUE, !.port = screen.text] /\ disk' = prefs' /\ Send("start")
    BY <1>2 DEF Accepted
  <2>3. prefs' \in Preferences
    BY <2>1, <2>2 DEF AppTyped, Preferences
  <2>q. QED
    BY <2>2, <2>3, SendTyped
<1>q. QED
  BY <1>1, <1>2

LEMMA UserTyped == AppTyped /\ User => AppTyped'
<1> SUFFICES ASSUME AppTyped, User PROVE AppTyped'
  OBVIOUS
<1>1. CASE Open
  <2>1. Loaded \in Nat \cup {Blank}
    BY TextsTyped DEF Loaded, AppTyped, Preferences
  <2>2. screen' \in Screens
    BY <1>1, <2>1 DEF Open, Screens
  <2>q. QED
    BY <1>1, <2>2 DEF Open, screenOnly, AppTyped
<1>2. CASE Leave
  BY <1>2, TextsTyped DEF Leave, screenOnly, AppTyped
<1>3. CASE Type
  <2>1. screen' \in Screens
    BY <1>3, TextsTyped DEF Type, AppTyped, Screens
  <2>q. QED
    BY <1>3, <2>1 DEF Type, screenOnly, AppTyped
<1>4. CASE startVpn
  <2>1. screen' \in Screens
    BY <1>4 DEF startVpn, AppTyped, Screens
  <2>2. Accepted \/ Refused
    BY <1>4 DEF startVpn
  <2>3. prepared' = prepared
    BY <1>4 DEF startVpn
  <2>q. QED
    BY <2>1, <2>2, <2>3, AcceptedTyped DEF Refused, AppTyped
<1>5. CASE Answer
  <2>1. screen' \in Screens
    BY <1>5 DEF Answer, AppTyped, Screens
  <2>2. Accepted \/ Refused
    BY <1>5 DEF Answer
  <2>3. prepared' \in BOOLEAN
    BY <1>5 DEF Answer, AppTyped
  <2>q. QED
    BY <2>1, <2>2, <2>3, AcceptedTyped DEF Refused, AppTyped
<1>6. CASE stopVpn
  <2>1. screen' \in Screens
    BY <1>6 DEF stopVpn, AppTyped, Screens
  <2>2. Send("stop") /\ UNCHANGED <<prefs, disk, prepared>>
    BY <1>6 DEF stopVpn
  <2>q. QED
    BY <2>1, <2>2, SendTyped DEF AppTyped
<1>q. QED
  BY <1>1, <1>2, <1>3, <1>4, <1>5, <1>6 DEF User

LEMMA DiesTyped == AppTyped /\ Dies => AppTyped'
<1> SUFFICES ASSUME AppTyped, Dies PROVE AppTyped'
  OBVIOUS
<1>1. <<"null">> \in Seq(Commands)
  BY DEF Commands
<1>2. intents' \in Seq(Commands)
  BY <1>1 DEF Dies, AppTyped
<1>3. prefs' = disk /\ screen' = Closed /\ UNCHANGED <<disk, started, prepared>>
  BY DEF Dies
<1>4. asked' \in {"none", "start", "stop"}
  BY DEF Dies, AppTyped
<1>q. QED
  BY <1>2, <1>3, <1>4, TextsTyped DEF AppTyped

LEMMA FinishTyped ==
  ASSUME AppTyped, intents # <<>>
  PROVE  Tail(intents) \in Seq(Commands)
  BY DEF AppTyped

-----------------------------------------------------------------------------
\* The invariant behind RunningIsRemembered.

PortsTyped == Typed \cap {Portless, HttpPort} = {}

\* Whoever asks for a start has seen to an address, with a port, that the disk
\* has, too; and so has whoever finds that the service ran.
Addressed ==
    /\ PortsTyped
    /\ \A p \in {prefs, disk} : p.host => p.port \notin {Portless, HttpPort}
    /\ screen.text \notin {Portless, HttpPort}
    /\ disk.host => prefs.host
    /\ prefs.running => prefs.host
    /\ disk.running => disk.host
    /\ \A i \in 1 .. Len(intents) : intents[i] = "start" => disk.host

\* The main thread works at the first command, or destroys the service.
Commanded ==
    /\ At("main", "jni_start") => intents # <<>> /\ intents[1] = "start"
    /\ ~At("main", "idle") /\ ~actor["main"].destroy => intents # <<>>
    /\ ~At("main", "idle") => created

\* Between a start and startNative, and from stopNative to the end of a stop, the
\* preference need not agree with vpn.
Remembers ==
    vpn # 0 /\ (\A a \in Actors : actor[a].step \notin {"jni_start", "stopVPN", "null"})
    => prefs.running

RInv == TypeOK /\ AppTyped /\ Addressed /\ Commanded /\ Remembers

LEMMA InitRemembers == AppInit /\ PortsTyped => RInv
<1> SUFFICES ASSUME AppInit, PortsTyped PROVE RInv
  OBVIOUS
<1>1. TypeOK
  BY InitTyped DEF AppInit
<1>2. actor = AllIdle /\ vpn = 0 /\ actor["main"].step = "idle"
  BY LifecycleAssumption DEF AppInit, Init, AllIdle, Idle
<1>3. prefs = [host |-> FALSE, port |-> 0, running |-> FALSE] /\ disk = prefs /\ screen = Closed
  BY DEF AppInit
<1>4. AppTyped
  <2>1. intents = <<>> /\ started = FALSE /\ prepared = FALSE /\ asked = "none"
    BY DEF AppInit
  <2>2. prefs \in Preferences /\ disk \in Preferences
    BY <1>3 DEF Preferences
  <2>3. intents \in Seq(Commands) /\ screen \in Screens
    BY <1>3, <2>1, TextsTyped
  <2>q. QED
    BY <2>1, <2>2, <2>3 DEF AppTyped
<1>5. Addressed
  <2>1. Blank \notin {Portless, HttpPort}
    BY DEF Blank, Portless, HttpPort
  <2>q. QED
    BY <1>3, <2>1 DEF Addressed, Closed, AppInit
<1>q. QED
  BY <1>1, <1>2, <1>4, <1>5 DEF RInv, Commanded, Remembers, At

\* A process that has died has nothing to remember.
LEMMA DeadRemembers == ProcessDies => Commanded' /\ Remembers'
<1> SUFFICES ASSUME ProcessDies PROVE Commanded' /\ Remembers'
  OBVIOUS
<1>1. actor' = AllIdle /\ vpn' = 0
  BY DEF ProcessDies
<1>2. actor'["main"].step = "idle"
  BY <1>1, LifecycleAssumption DEF AllIdle, Idle
<1>q. QED
  BY <1>1, <1>2 DEF Commanded, Remembers, At

LEMMA DiesAddressed == RInv /\ Dies => Addressed'
<1> SUFFICES ASSUME RInv, Dies PROVE Addressed'
  OBVIOUS
<1>1. prefs' = disk /\ disk' = disk /\ screen' = Closed
  BY DEF Dies
<1>2. \A i \in 1 .. Len(intents') : intents'[i] = "start" => disk.host
  <2>1. intents' = <<"null">> \/ intents' = intents
    BY DEF Dies
  <2>2. <<"null">>[1] # "start" /\ Len(<<"null">>) = 1
    OBVIOUS
  <2>q. QED
    BY <2>1, <2>2 DEF RInv, Addressed
<1>3. Closed.text \notin {Portless, HttpPort}
  BY DEF Closed, Blank, Portless, HttpPort
<1>q. QED
  BY <1>1, <1>2, <1>3 DEF RInv, Addressed, PortsTyped

LEMMA BootStep == RInv /\ Boot => RInv'
<1> SUFFICES ASSUME RInv, Boot PROVE RInv'
  OBVIOUS
<1>1. /\ ProcessDies /\ prefs' = disk /\ disk' = disk /\ screen' = Closed
      /\ prepared' = prepared /\ onReceive
  BY DEF Boot
<1>2. CASE disk.running /\ prepared
  <2>1. intents' = <<"start">> /\ started' = TRUE /\ asked' = "start"
    BY <1>1, <1>2 DEF onReceive
  <2>2. intents' \in Seq(Commands)
    BY <2>1 DEF Commands
  <2>3. AppTyped'
    BY <1>1, <2>1, <2>2, TextsTyped DEF RInv, AppTyped
  <2>4. Addressed'
    BY <1>1, <1>2 DEF RInv, Addressed, PortsTyped, Closed, Blank, Portless, HttpPort
  <2>q. QED
    BY <1>1, <2>3, <2>4, DeadRemembers, ProcessDiesTyped DEF RInv
<1>3. CASE ~(disk.running /\ prepared)
  <2>1. intents' = <<>> /\ started' = FALSE /\ asked' = "none"
    BY <1>1, <1>3 DEF onReceive
  <2>2. AppTyped'
    <3>1. intents' \in Seq(Commands)
      BY <2>1
    <3>q. QED
      BY <1>1, <2>1, <3>1, TextsTyped DEF RInv, AppTyped
  <2>3. Addressed'
    BY <1>1, <2>1 DEF RInv, Addressed, PortsTyped, Closed, Blank, Portless, HttpPort
  <2>q. QED
    BY <1>1, <2>2, <2>3, DeadRemembers, ProcessDiesTyped DEF RInv
<1>q. QED
  BY <1>2, <1>3

-----------------------------------------------------------------------------
\* The user, the screen and the disk: the service does nothing.

LEMMA QuietRemembers ==
  ASSUME RInv, UNCHANGED vars, prefs'.running = prefs.running,
         intents' = intents \/ \E c \in Commands : intents' = Append(intents, c)
  PROVE  TypeOK' /\ Commanded' /\ Remembers'
<1>1. UNCHANGED <<created, vpn, actor>>
  BY DEF vars
<1>2. intents # <<>> => intents' # <<>> /\ intents'[1] = intents[1]
  BY DEF RInv, AppTyped
<1>3. Commanded'
  BY <1>1, <1>2 DEF RInv, Commanded, At
<1>4. Remembers'
  BY <1>1 DEF RInv, Remembers
<1>q. QED
  BY <1>3, <1>4, NextTyped DEF RInv

LEMMA AcceptedAddressed ==
  ASSUME RInv, Accepted \/ Refused
  PROVE  /\ \A p \in {prefs', disk'} : p.host => p.port \notin {Portless, HttpPort}
         /\ (disk'.host => prefs'.host) /\ (prefs'.running => prefs'.host)
         /\ (disk'.running => disk'.host)
         /\ \A i \in 1 .. Len(intents') : intents'[i] = "start" => disk'.host
         /\ prefs'.running = prefs.running
         /\ intents' = intents \/ \E c \in Commands : intents' = Append(intents, c)
<1>1. CASE UNCHANGED <<prefs, disk, intents>>
  BY <1>1 DEF RInv, Addressed
<1>2. CASE screen.text # Blank /\ Accepted
  <2>1. prefs' = [prefs EXCEPT !.host = TRUE, !.port = screen.text] /\ disk' = prefs'
    BY <1>2 DEF Accepted
  <2>2. intents' = Append(intents, "start")
    BY <1>2 DEF Accepted, Send
  <2>3. prefs'.host /\ prefs'.port = screen.text /\ prefs'.running = prefs.running
    BY <2>1 DEF RInv, AppTyped, Preferences
  <2>4. screen.text \notin {Portless, HttpPort}
    BY DEF RInv, Addressed
  <2>q. QED
    BY <2>1, <2>2, <2>3, <2>4 DEF Commands
<1>q. QED
  BY <1>1, <1>2 DEF Accepted, Refused

LEMMA UserRemembers == RInv /\ (User \/ updateStatus \/ Flush) => RInv'
<1> SUFFICES ASSUME RInv, User \/ updateStatus \/ Flush PROVE RInv'
  OBVIOUS
<1>1. CASE Open \/ Leave \/ Type \/ updateStatus
  <2>1. UNCHANGED <<vars, disk, prefs, intents, started, prepared, asked>>
    BY <1>1 DEF Open, Leave, Type, updateStatus, screenOnly
  <2>2. screen'.text \notin {Portless, HttpPort}
    <3>1. Loaded \notin {Portless, HttpPort}
      BY DEF Loaded, RInv, Addressed, Blank, Portless, HttpPort
    <3>2. CASE Open
      BY <3>1, <3>2 DEF Open
    <3>3. CASE Leave
      BY <3>3 DEF Leave, Closed, Blank, Portless, HttpPort
    <3>4. CASE Type
      BY <3>4 DEF Type, RInv, Addressed, PortsTyped, AppTyped, Screens
    <3>5. CASE updateStatus
      BY <3>5 DEF updateStatus, RInv, Addressed, AppTyped, Screens
    <3>q. QED
      BY <1>1, <3>2, <3>3, <3>4, <3>5
  <2>3. AppTyped'
    <3>1. CASE updateStatus
      <4>1. screen' \in Screens
        BY <3>1 DEF updateStatus, RInv, AppTyped, Screens
      <4>q. QED
        BY <2>1, <4>1 DEF RInv, AppTyped
    <3>q. QED
      BY <1>1, <3>1, UserTyped DEF User, RInv
  <2>4. Addressed'
    BY <2>1, <2>2 DEF RInv, Addressed, PortsTyped
  <2>q. QED
    BY <2>1, <2>3, <2>4, QuietRemembers DEF RInv
<1>2. CASE startVpn \/ Answer
  <2>1. UNCHANGED vars /\ (Accepted \/ Refused)
    BY <1>2 DEF startVpn, Answer
  <2>2. screen'.text = screen.text
    BY <1>2 DEF startVpn, Answer, RInv, AppTyped, Screens
  <2>3. Addressed'
    BY <2>1, <2>2, AcceptedAddressed DEF RInv, Addressed, PortsTyped
  <2>q. QED
    BY <1>2, <2>1, <2>3, AcceptedAddressed, QuietRemembers, UserTyped DEF User, RInv
<1>3. CASE stopVpn
  <2>1. UNCHANGED <<vars, prefs, disk>> /\ intents' = Append(intents, "stop")
    BY <1>3 DEF stopVpn, Send
  <2>2. screen'.text = screen.text
    BY <1>3 DEF stopVpn, RInv, AppTyped, Screens
  <2>3. \A i \in 1 .. Len(intents') : intents'[i] = "start" => disk.host
    BY <2>1 DEF RInv, Addressed, AppTyped
  <2>4. Addressed'
    BY <2>1, <2>2, <2>3 DEF RInv, Addressed, PortsTyped
  <2>q. QED
    BY <1>3, <2>1, <2>4, QuietRemembers, UserTyped DEF User, RInv, Commands
<1>4. CASE Flush
  <2>1. UNCHANGED <<vars, prefs, intents, started, prepared, screen, asked>> /\ disk' = prefs
    BY <1>4 DEF Flush
  <2>2. AppTyped'
    BY <2>1 DEF RInv, AppTyped
  <2>3. Addressed'
    BY <2>1 DEF RInv, Addressed, PortsTyped
  <2>q. QED
    BY <2>1, <2>2, <2>3, QuietRemembers DEF RInv
<1>q. QED
  BY <1>1, <1>2, <1>3, <1>4 DEF User

-----------------------------------------------------------------------------
\* The service and the engine.

LEMMA SameApp ==
  ASSUME RInv, UNCHANGED <<prefs, disk, intents, started, prepared, screen>>,
         asked' \in {"none", asked}
  PROVE  AppTyped' /\ Addressed'
  BY DEF RInv, AppTyped, Addressed, PortsTyped

\* A command is finished, and the preference may have been set or taken back.
LEMMA FinishedApp ==
  ASSUME RInv, UNCHANGED <<disk, started, prepared, screen, asked>>,
         intents' = intents \/ (intents # <<>> /\ intents' = Tail(intents)),
         NEW b \in BOOLEAN, b => prefs.host, prefs' = [prefs EXCEPT !.running = b]
  PROVE  AppTyped' /\ Addressed' /\ prefs'.running = b
<1>1. intents' \in Seq(Commands)
  BY FinishTyped DEF RInv, AppTyped
<1>2. prefs' \in Preferences /\ prefs'.running = b /\ prefs'.host = prefs.host /\ prefs'.port = prefs.port
  BY DEF RInv, AppTyped, Preferences
<1>3. \A i \in 1 .. Len(intents') : intents'[i] = "start" => disk.host
  <2>1. CASE intents' = intents
    BY <2>1 DEF RInv, Addressed
  <2>2. CASE intents # <<>> /\ intents' = Tail(intents)
    <3>1. intents \in Seq(Commands)
      BY DEF RInv, AppTyped
    <3>2. \A i \in 1 .. Len(intents') : i + 1 \in 1 .. Len(intents) /\ intents'[i] = intents[i + 1]
      BY <2>2, <3>1
    <3>q. QED
      BY <3>2 DEF RInv, Addressed
  <2>q. QED
    BY <2>1, <2>2
<1>4. AppTyped'
  BY <1>1, <1>2 DEF RInv, AppTyped
<1>5. Addressed'
  BY <1>2, <1>3 DEF RInv, Addressed, PortsTyped
<1>q. QED
  BY <1>2, <1>4, <1>5

\* A step after which the process has died.
LEMMA DiesRemembers ==
  ASSUME RInv, ProcessDies, Dies
  PROVE  RInv'
  BY DiesTyped, DiesAddressed, DeadRemembers, ProcessDiesTyped DEF RInv

\* What a thread does in a stop, unless the process dies.
LEMMA StopActor ==
  ASSUME TypeOK, NEW a \in Actors, Stopping(a), ~ProcessDies
  PROVE  /\ created' = created /\ \A b \in Actors \ {a} : actor'[b] = actor[b]
         /\ actor[a].step \notin {"idle", "jni_start"} /\ actor'[a].step # "jni_start"
         /\ actor'[a].step = "idle" \/ actor'[a].destroy = actor[a].destroy
         /\ vpn' \in {vpn, 0}
         /\ actor[a].step \in {"stopVPN", "null"} /\ actor'[a].step # "null" => vpn' = 0
         /\ actor'[a].step = "idle" /\ a = "main" => At(a, "null") /\ ~actor[a].destroy
<1> USE DEF At
<1>1. /\ \A s : Goes(a, s) =>
            /\ actor'[a].step = s /\ actor'[a].destroy = actor[a].destroy
            /\ \A b \in Actors \ {a} : actor'[b] = actor[b]
      /\ Returns(a) => actor'[a].step = "idle" /\ \A b \in Actors \ {a} : actor'[b] = actor[b]
  BY DEF TypeOK, Goes, Returns, Idle, ActorStates
<1>2. CASE jni_stop(a)
  <2>1. CASE Alive(thread_id)
    <3>1. /\ actor'[a].step = "write" /\ actor'[a].destroy = actor[a].destroy
          /\ \A b \in Actors \ {a} : actor'[b] = actor[b]
      BY <1>2, <2>1 DEF jni_stop, TypeOK, ActorStates
    <3>q. QED
      BY <1>2, <3>1 DEF jni_stop
  <2>q. QED
    BY <1>1, <1>2, <2>1 DEF jni_stop
<1>3. CASE write(a)
  BY <1>1, <1>3 DEF write
<1>4. CASE pthread_join(a) \/ clear(a)
  BY <1>1, <1>4 DEF pthread_join, clear
<1>5. CASE stopVPN(a)
  <2>1. CASE vpn # 0
    BY <1>1, <1>5, <2>1 DEF stopVPN
  <2>2. CASE vpn = 0
    BY <1>1, <1>5, <2>2 DEF stopVPN
  <2>q. QED
    BY <2>1, <2>2
<1>6. CASE null(a)
  BY <1>1, <1>6 DEF null
<1>q. QED
  BY <1>2, <1>3, <1>4, <1>5, <1>6 DEF Stopping

LEMMA StopStepRemembers ==
  ASSUME RInv, NEW a \in Actors, StopStep(a), TypeOK'
  PROVE  RInv'
<1>0. TypeOK /\ Stopping(a)
  BY DEF RInv, StopStep
<1>1. CASE a = "main" /\ ~created' /\ At(a, "stopVPN")
  <2>1. created /\ Dies
    BY <1>1 DEF RInv, Commanded, At, StopStep
  <2>2. ProcessDies
    BY <1>0, <1>1, <2>1, StopActor
  <2>q. QED
    BY <2>1, <2>2, DiesRemembers
<1>2. CASE ~(a = "main" /\ ~created' /\ At(a, "stopVPN"))
  <2>1. /\ prefs' = IF actor'[a].step = "stopVPN" THEN [prefs EXCEPT !.running = FALSE] ELSE prefs
        /\ intents' = IF a = "main" /\ At(a, "null") /\ ~actor[a].destroy
                      THEN Tail(intents) ELSE intents
        /\ UNCHANGED <<disk, started, prepared, screen, asked>>
    BY <1>2 DEF StopStep
  <2>2. intents' = intents \/ (intents # <<>> /\ intents' = Tail(intents))
    <3>1. a = "main" /\ At(a, "null") /\ ~actor[a].destroy => intents # <<>>
      BY DEF RInv, Commanded, At
    <3>q. QED
      BY <2>1, <3>1
  <2>3. PICK b \in BOOLEAN : /\ prefs' = [prefs EXCEPT !.running = b] /\ (b => prefs.host)
                             /\ actor'[a].step # "stopVPN" => b = prefs.running
    <3>1. prefs.running \in BOOLEAN /\ (prefs.running => prefs.host)
          /\ prefs = [prefs EXCEPT !.running = prefs.running]
      BY DEF RInv, AppTyped, Addressed, Preferences
    <3>2. CASE actor'[a].step = "stopVPN"
      BY <2>1, <3>2
    <3>3. CASE actor'[a].step # "stopVPN"
      BY <2>1, <3>1, <3>3
    <3>q. QED
      BY <3>2, <3>3
  <2>4. AppTyped' /\ Addressed' /\ prefs'.running = b
    BY <2>1, <2>2, <2>3, FinishedApp
  <2>5. CASE ProcessDies
    BY <2>4, <2>5, DeadRemembers DEF RInv
  <2>6. CASE ~ProcessDies
    <3>1. Commanded'
      <4>1. CASE a = "main"
        <5>1. created' = created /\ created
          BY <1>0, <2>6, <4>1, StopActor DEF RInv, Commanded, At
        <5>2. actor'["main"].step # "jni_start"
          BY <1>0, <2>6, <4>1, StopActor
        <5>3. ASSUME ~At("main", "idle")', ~actor'["main"].destroy PROVE intents' # <<>>
          <6>1. ~actor["main"].destroy /\ ~At("main", "idle")
            BY <1>0, <2>6, <4>1, <5>3, StopActor DEF At
          <6>2. ~At(a, "null")
            BY <1>0, <2>6, <4>1, <5>3, <6>1 DEF Stopping, jni_stop, write, pthread_join, clear,
               stopVPN, null, At, Returns, Idle, TypeOK
          <6>q. QED
            BY <2>1, <6>1, <6>2 DEF RInv, Commanded
        <5>q. QED
          BY <5>1, <5>2, <5>3 DEF Commanded, At
      <4>2. CASE a # "main"
        <5>1. created' = created /\ actor'["main"] = actor["main"] /\ intents' = intents
          BY <1>0, <2>1, <2>6, <4>2, StopActor, LifecycleAssumption
        <5>q. QED
          BY <5>1 DEF RInv, Commanded, At
      <4>q. QED
        BY <4>1, <4>2
    <3>2. Remembers'
      <4> SUFFICES ASSUME vpn' # 0,
                          \A c \in Actors : actor'[c].step \notin {"jni_start", "stopVPN", "null"}
                   PROVE  prefs'.running
        BY DEF Remembers
      <4>1. vpn' = vpn /\ actor[a].step \notin {"jni_start", "stopVPN", "null"}
        BY <1>0, <2>6, StopActor
      <4>2. \A c \in Actors : actor[c].step \notin {"jni_start", "stopVPN", "null"}
        BY <1>0, <2>6, <4>1, StopActor
      <4>q. QED
        BY <2>3, <2>4, <4>1, <4>2 DEF RInv, Remembers
    <3>q. QED
      BY <2>4, <3>1, <3>2 DEF RInv
  <2>q. QED
    BY <2>5, <2>6
<1>q. QED
  BY <1>1, <1>2

LEMMA AskedWithProxy ==
  ASSUME RInv, At("main", "jni_start")
  PROVE  created /\ intents # <<>> /\ Configured = TRUE
<1>1. created /\ intents # <<>> /\ intents[1] = "start"
  BY DEF RInv, Commanded, At
<1>2. disk.host
  BY <1>1 DEF RInv, Addressed, AppTyped
<1>q. QED
  BY <1>1, <1>2 DEF RInv, Addressed, Configured, Portless

LEMMA StartsRemember == RInv /\ (Start \/ StartNative) /\ TypeOK' => RInv'
<1> SUFFICES ASSUME RInv, Start \/ StartNative, TypeOK' PROVE RInv'
  OBVIOUS
<1>m. TypeOK /\ "main" \in Actors
  BY LifecycleAssumption DEF RInv
<1>1. CASE Start
  <2>1. Delivered("start") /\ start(prepared)
    BY <1>1 DEF Start
  <2>2. intents # <<>> /\ intents[1] = "start" /\ created
    BY <2>1 DEF Delivered, RInv, AppTyped
  <2>3. CASE ProcessDies
    <3>1. ~created'
      BY <2>3 DEF ProcessDies
    <3>q. QED
      BY <1>1, <2>3, <3>1, DiesRemembers DEF Start
  <2>4. CASE ~ProcessDies
    <3>1. Goes("main", "jni_start") /\ created' = created
      BY <2>1, <2>4 DEF start
    <3>2. actor'["main"].step = "jni_start"
      BY <1>m, <3>1, GoneTo
    <3>3. UNCHANGED appVars
      BY <1>1, <2>2, <3>1 DEF Start
    <3>4. Commanded' /\ Remembers'
      BY <1>m, <2>2, <3>1, <3>2, <3>3 DEF Commanded, Remembers, At, appVars
    <3>q. QED
      BY <3>3, <3>4, SameApp DEF appVars, RInv
  <2>q. QED
    BY <2>3, <2>4
<1>2. CASE StartNative
  <2>1. jni_start(Configured) /\ At("main", "jni_start")
    BY <1>2 DEF StartNative, jni_start
  <2>2. created /\ intents # <<>>
    BY <2>1, AskedWithProxy
  <2>3. Configured
    BY <2>1, AskedWithProxy
  <2>4. CASE ProcessDies
    <3>1. ~created'
      BY <2>4 DEF ProcessDies
    <3>q. QED
      BY <1>2, <2>4, <3>1, DiesRemembers DEF StartNative
  <2>5. CASE ~ProcessDies
    <3>1. Returns("main") /\ created' = created
      BY <2>1, <2>5 DEF jni_start
    <3>2. Finish /\ prefs' = [prefs EXCEPT !.running = @ \/ Configured]
      BY <1>2, <2>2, <3>1 DEF StartNative
    <3>3. prefs' = [prefs EXCEPT !.running = TRUE] /\ prefs.host
      BY <2>3, <3>2, Zenon DEF Configured
    <3>4. AppTyped' /\ Addressed' /\ prefs'.running = TRUE
      BY <2>2, <3>2, <3>3, FinishedApp DEF Finish
    <3>5. actor'["main"].step = "idle"
      BY <1>m, <3>1, Returned
    <3>q. QED
      BY <3>4, <3>5 DEF RInv, Commanded, Remembers, At
  <2>q. QED
    BY <2>4, <2>5
<1>q. QED
  BY <1>1, <1>2

\* The steps that leave the preference alone.
LEMMA ServiceRemembers ==
  RInv /\ TypeOK' /\ (Create \/ Destroy \/ Revoke \/ NothingToDo \/ Stop \/ Ends) => RInv'
<1> SUFFICES ASSUME RInv, TypeOK', Create \/ Destroy \/ Revoke \/ NothingToDo \/ Stop \/ Ends
             PROVE  RInv'
  OBVIOUS
<1>m. TypeOK /\ "main" \in Actors
  BY LifecycleAssumption DEF RInv
<1>1. CASE Create
  <2>1. vpn' = 0 /\ created' = TRUE /\ actor' = actor /\ UNCHANGED appVars
    BY <1>1 DEF Create, onCreate
  <2>q. QED
    BY <2>1, SameApp DEF appVars, RInv, Commanded, Remembers, At
<1>2. CASE Destroy
  <2>1. /\ onDestroy /\ asked' = "none" /\ started' = FALSE
        /\ UNCHANGED <<prefs, disk, intents, prepared, screen>>
    BY <1>2 DEF Destroy
  <2>2. /\ actor'["main"].step \in {"jni_done", "jni_stop"} /\ actor'["main"].destroy
        /\ \A b \in Actors \ {"main"} : actor'[b] = actor[b]
    BY <1>m, <2>1 DEF onDestroy, TypeOK, ActorStates
  <2>3. vpn' = vpn /\ created' = created /\ created /\ actor["main"].step = "idle"
    BY <2>1 DEF onDestroy, At
  <2>4. AppTyped' /\ Addressed'
    BY <2>1 DEF RInv, AppTyped, Addressed, PortsTyped
  <2>5. Commanded' /\ Remembers'
    BY <1>m, <2>1, <2>2, <2>3 DEF RInv, Commanded, Remembers, At
  <2>q. QED
    BY <2>4, <2>5 DEF RInv
<1>3. CASE Revoke
  <2>1. /\ prepared' = FALSE /\ UNCHANGED <<prefs, disk, intents, started, screen>>
        /\ asked' \in {"none", asked}
    BY <1>3 DEF Revoke
  <2>2. /\ UNCHANGED <<created, vpn>> /\ actor'["main"] = actor["main"]
        /\ \A a \in Actors : \/ actor'[a] = actor[a]
                             \/ actor[a].step = "idle"
    <3>1. CASE UNCHANGED vars
      BY <3>1 DEF vars
    <3>2. CASE onRevoke
      BY <1>m, <3>2, GoneTo DEF onRevoke, At
    <3>q. QED
      BY <1>3, <3>1, <3>2 DEF Revoke
  <2>3. AppTyped' /\ Addressed'
    BY <2>1 DEF RInv, AppTyped, Addressed, PortsTyped
  <2>4. Commanded' /\ Remembers'
    BY <2>1, <2>2 DEF RInv, Commanded, Remembers, At
  <2>q. QED
    BY <2>3, <2>4 DEF RInv
<1>4. CASE NothingToDo
  <2>1. /\ intents # <<>> /\ UNCHANGED <<created, vpn, actor, prefs>> /\ Finish
        /\ actor["main"].step = "idle"
    BY <1>4 DEF NothingToDo, ignored, Delivered, At
  <2>2. prefs' = [prefs EXCEPT !.running = prefs.running] /\ prefs.running \in BOOLEAN
        /\ (prefs.running => prefs.host)
    BY <2>1 DEF RInv, AppTyped, Preferences, Addressed
  <2>3. AppTyped' /\ Addressed'
    BY <2>1, <2>2, FinishedApp DEF Finish
  <2>q. QED
    BY <2>1, <2>3 DEF RInv, Commanded, Remembers, At
<1>5. CASE Stop
  <2>1. /\ stop /\ Goes("main", "jni_stop") /\ UNCHANGED <<appVars, created, vpn>>
        /\ intents # <<>> /\ created /\ actor["main"].step = "idle"
    BY <1>5 DEF Stop, stop, Delivered, At
  <2>2. actor'["main"].step = "jni_stop" /\ \A b \in Actors \ {"main"} : actor'[b] = actor[b]
    BY <1>m, <2>1, GoneTo
  <2>q. QED
    BY <1>m, <2>1, <2>2, SameApp DEF appVars, RInv, Commanded, Remembers, At
<1>6. CASE Ends
  <2>1. UNCHANGED appVars
    BY <1>6 DEF Ends
  <2>2. CASE jni_done
    <3>1. /\ actor'["main"].step = "idle" /\ actor["main"].step = "jni_done" /\ vpn' = vpn
          /\ \A b \in Actors \ {"main"} : actor'[b] = actor[b]
      BY <1>m, <2>2, Returned DEF jni_done, At
    <3>q. QED
      BY <1>m, <2>1, <3>1, SameApp DEF appVars, RInv, Commanded, Remembers, At
  <2>3. CASE revoked
    <3>1. vpn' = 0 /\ created' = created /\ actor'["main"] = actor["main"]
      BY <1>m, <2>3, Returned DEF revoked, shared
    <3>q. QED
      BY <2>1, <3>1, SameApp DEF appVars, RInv, Commanded, Remembers, At
  <2>q. QED
    BY <1>6, <2>2, <2>3 DEF Ends
<1>q. QED
  BY <1>1, <1>2, <1>3, <1>4, <1>5, <1>6

LEMMA NextRemembers == RInv /\ [AppNext]_allVars => RInv'
<1> SUFFICES ASSUME RInv, [AppNext]_allVars PROVE RInv'
  OBVIOUS
<1>1. TypeOK'
  BY AppStep, NextTyped DEF RInv, AppTyped, ConsentTyped
<1>2. CASE Kill
  BY <1>2, DiesRemembers DEF Kill, Killed
<1>3. CASE Boot
  BY <1>3, BootStep
<1>4. CASE User \/ updateStatus \/ Flush
  BY <1>4, UserRemembers
<1>5. CASE Destroy \/ Revoke \/ Ends
  BY <1>1, <1>5, ServiceRemembers
<1>6. CASE Service
  BY <1>1, <1>6, ServiceRemembers, StartsRemember, StopStepRemembers DEF Service
<1>7. ASSUME NEW n \in Starts, Serves(n) \/ Works(n) PROVE RInv'
  <2>1. UNCHANGED <<created, vpn, actor>> /\ UNCHANGED appVars
    BY <1>7 DEF Serves, Works, begin, read_stop, ends, serve, fails, service
  <2>q. QED
    BY <1>1, <2>1, SameApp DEF appVars, RInv, Commanded, Remembers, At
<1>8. CASE UNCHANGED allVars
  BY <1>1, <1>8, SameApp DEF allVars, vars, appVars, RInv, Commanded, Remembers, At
<1>q. QED
  BY <1>2, <1>3, <1>4, <1>5, <1>6, <1>7, <1>8 DEF AppNext

\* If every address that is typed has a port, and one the screen shows again, then
\* the preference that the receiver goes by at boot is true of the service
\* whenever its threads are between two callbacks: after every start and stop,
\* whatever dies meanwhile, and with onRevoke beside another callback, too.
THEOREM AppRemembersRunning == PortsTyped /\ AppSpec => []RunningIsRemembered
<1>1. RInv => RunningIsRemembered
  BY DEF RInv, Remembers, RunningIsRemembered, AtRest, At
<1>q. QED
  BY <1>1, InitRemembers, NextRemembers, PTL DEF AppSpec

\* The service is only asked to start with a proxy in the preferences.
LEMMA AppSeesToProxy == RInv /\ [AppNext]_allVars => ProxyNext \/ UNCHANGED vars
<1> SUFFICES ASSUME RInv, [AppNext]_allVars PROVE ProxyNext \/ UNCHANGED vars
  OBVIOUS
<1>1. CASE Kill \/ Boot \/ Destroy \/ Revoke \/ Ends
  BY <1>1 DEF Kill, Boot, Destroy, Revoke, Ends, Killed, ProxyNext
<1>2. CASE Flush \/ User \/ updateStatus
  BY <1>2 DEF Flush, updateStatus, User, Open, Leave, Type, startVpn, Answer, stopVpn, screenOnly
<1>3. CASE Create \/ NothingToDo \/ Stop
  BY <1>3 DEF Create, NothingToDo, Stop, ProxyNext
<1>4. CASE Start
  <2>1. start(prepared) /\ prepared \in BOOLEAN
    BY <1>4 DEF Start, RInv, AppTyped
  <2>q. QED
    BY <2>1 DEF ProxyNext
<1>5. CASE StartNative
  <2>1. jni_start(Configured) /\ At("main", "jni_start")
    BY <1>5 DEF StartNative, jni_start
  <2>2. Configured = TRUE
    BY <2>1, AskedWithProxy
  <2>q. QED
    BY <2>1, <2>2 DEF ProxyNext
<1>6. ASSUME NEW a \in Actors, StopStep(a) PROVE ProxyNext
  BY <1>6 DEF StopStep, ProxyNext
<1>7. ASSUME NEW n \in Starts, Serves(n) \/ Works(n) PROVE ProxyNext
  BY <1>7 DEF Serves, Works, Engine, ProxyNext
<1>8. CASE UNCHANGED allVars
  BY <1>8 DEF allVars
<1>q. QED
  BY <1>1, <1>2, <1>3, <1>4, <1>5, <1>6, <1>7, <1>8 DEF AppNext, Service

\* In the app an engine runs whenever the service says that it does, if none has
\* failed: the screen and the receiver see to an address before they start it,
\* and a stop leaves nothing that the next start would take for its own.
THEOREM AppEngineServes == PortsTyped /\ AppSpec => []ServedWhenRunning
<1> DEFINE I == RInv /\ ThreadIdNamesIt /\ (~overlap => Alone) /\ ServesInv
<1>1. PortsTyped /\ AppInit => I
  BY InitRemembers, InitNames, InitAlone, InitServing DEF AppInit, ServesInv
<1>2. I /\ [AppNext]_allVars => I'
  <2> SUFFICES ASSUME I, [AppNext]_allVars PROVE I'
    OBVIOUS
  <2>1. RInv' /\ [Next]_vars /\ (ProxyNext \/ UNCHANGED vars)
    BY NextRemembers, AppSeesToProxy, AppStep DEF RInv, AppTyped, ConsentTyped
  <2>q. QED
    BY <2>1, NextNames, NextAlone, NextServing DEF RInv
<1>3. I => ServedWhenRunning
  BY DEF ServesInv, Serving, ServedWhenRunning, At
<1>q. QED
  BY <1>1, <1>2, <1>3, PTL DEF AppSpec

-----------------------------------------------------------------------------
(***************************************************************************)
(* The types of the app, and the invariant behind LastCommandWins.  What   *)
(* is asked last is the last of the commands that wait; the service stops  *)
(* for a stop; and when no command waits the service is what was asked.    *)
(***************************************************************************)

LastAsked == intents # <<>> /\ asked # "none" => intents[Len(intents)] = asked

StopFirst ==
    ~At("main", "idle") /\ ~At("main", "jni_start") /\ ~actor["main"].destroy =>
        intents # <<>> /\ intents[1] = "stop"

Obeyed ==
    ~overlap /\ intents = <<>> /\ asked # "none" =>
        AtRest /\ created /\ (vpn # 0) = (asked = "start")

Obeys == Commanded /\ LastAsked /\ StopFirst /\ Obeyed

OInv == TypeOK /\ AppTyped /\ Obeys

LEMMA InitObeys == AppInit => OInv
<1> SUFFICES ASSUME AppInit PROVE OInv
  OBVIOUS
<1>1. TypeOK
  BY InitTyped DEF AppInit
<1>2. actor["main"].step = "idle"
  BY LifecycleAssumption DEF AppInit, Init, AllIdle, Idle
<1>3. intents = <<>> /\ asked = "none" /\ started = FALSE /\ prepared = FALSE /\ screen = Closed
  BY DEF AppInit
<1>4. prefs \in Preferences /\ disk \in Preferences
  BY DEF AppInit, Preferences
<1>5. AppTyped
  <2>1. intents \in Seq(Commands)
    BY <1>3
  <2>q. QED
    BY <1>3, <1>4, <2>1, TextsTyped DEF AppTyped
<1>q. QED
  BY <1>1, <1>2, <1>3, <1>5 DEF OInv, Obeys, Commanded, LastAsked, StopFirst, Obeyed, At

\* The service does nothing, and at most one command is added.
LEMMA QuietObeys ==
  ASSUME OInv, UNCHANGED <<created, vpn, actor, overlap>>,
         \/ UNCHANGED <<intents, asked>>
         \/ \E c \in {"start", "stop"} : intents' = Append(intents, c) /\ asked' = c
  PROVE  Obeys'
<1>1. AtRest' = AtRest
  BY DEF AtRest, At
<1>2. CASE UNCHANGED <<intents, asked>>
  BY <1>1, <1>2 DEF OInv, Obeys, Commanded, LastAsked, StopFirst, Obeyed, At
<1>3. ASSUME NEW c \in {"start", "stop"}, intents' = Append(intents, c), asked' = c
      PROVE  Obeys'
  <2>1. intents \in Seq(Commands)
    BY DEF OInv, AppTyped
  <2>2. intents' # <<>> /\ intents'[Len(intents')] = c
    BY <1>3, <2>1
  <2>3. intents # <<>> => intents'[1] = intents[1]
    BY <1>3, <2>1
  <2>4. LastAsked' /\ Obeyed'
    BY <1>3, <2>2 DEF LastAsked, Obeyed
  <2>q. QED
    BY <2>2, <2>3, <2>4 DEF OInv, Obeys, Commanded, StopFirst, At
<1>q. QED
  BY <1>2, <1>3

\* Nothing is asked of a process that has died but what waited already, or what the
\* receiver asks.
LEMMA DeadObeys ==
  ASSUME OInv, ProcessDies, Dies \/ onReceive
  PROVE  Obeys'
<1>1. actor'["main"].step = "idle"
  BY LifecycleAssumption DEF ProcessDies, AllIdle, Idle
<1>2. Commanded' /\ StopFirst'
  BY <1>1 DEF Commanded, StopFirst, At
<1>3. CASE Dies
  BY <1>2, <1>3 DEF Dies, OInv, Obeys, LastAsked, Obeyed
<1>4. CASE onReceive
  <2>1. \/ intents' = <<"start">> /\ asked' = "start"
        \/ intents' = <<>> /\ asked' = "none"
    BY <1>4 DEF onReceive
  <2>2. LastAsked' /\ Obeyed'
    <3>1. CASE intents' = <<"start">> /\ asked' = "start"
      <4>1. Len(intents') = 1 /\ intents'[1] = "start" /\ intents' # <<>>
        BY <3>1
      <4>q. QED
        BY <3>1, <4>1 DEF LastAsked, Obeyed
    <3>2. CASE intents' = <<>> /\ asked' = "none"
      BY <3>2 DEF LastAsked, Obeyed
    <3>q. QED
      BY <2>1, <3>1, <3>2
  <2>q. QED
    BY <1>2, <2>2 DEF Obeys
<1>q. QED
  BY <1>3, <1>4

LEMMA TailKeepsLast ==
  ASSUME NEW s \in Seq(Commands), s # <<>>, Len(s) # 1
  PROVE  Tail(s) # <<>> /\ Tail(s)[Len(Tail(s))] = s[Len(s)]
<1>1. Len(s) \in Nat /\ Len(s) # 0 /\ Len(Tail(s)) = Len(s) - 1
  OBVIOUS
<1>2. Len(s) - 1 \in 1 .. Len(s) - 1
  BY <1>1
<1>3. \A i \in 1 .. Len(s) - 1 : Tail(s)[i] = s[i + 1]
  OBVIOUS
<1>4. Tail(s)[Len(s) - 1] = s[(Len(s) - 1) + 1]
  BY <1>2, <1>3
<1>5. (Len(s) - 1) + 1 = Len(s) /\ Len(Tail(s)) # 0
  BY <1>1
<1>6. Tail(s) # <<>>
  <2>1. Len(<<>>) = 0
    OBVIOUS
  <2>q. QED
    BY <1>5, <2>1, Zenon
<1>q. QED
  BY <1>1, <1>4, <1>5, <1>6

\* The first command is finished, and obeyed.
LEMMA FinishObeys ==
  ASSUME OInv, intents # <<>>, intents' = Tail(intents), asked' = asked,
         At("main", "idle")',
         ~overlap' /\ asked = intents[1] /\ asked # "none" =>
             AtRest' /\ created' /\ (vpn' # 0) = (asked = "start")
  PROVE  Obeys'
<1>1. intents \in Seq(Commands)
  BY DEF OInv, AppTyped
<1>2. Commanded' /\ StopFirst'
  BY DEF Commanded, StopFirst, At
<1>3. CASE Len(intents) = 1
  <2>1. intents' = <<>>
    BY <1>1, <1>3
  <2>2. asked # "none" => asked = intents[1]
    BY <1>3 DEF OInv, Obeys, LastAsked
  <2>3. LastAsked' /\ Obeyed'
    BY <2>1, <2>2 DEF LastAsked, Obeyed
  <2>q. QED
    BY <1>2, <2>3 DEF Obeys
<1>4. CASE Len(intents) # 1
  <2>1. intents' # <<>> /\ intents'[Len(intents')] = intents[Len(intents)]
    BY <1>1, <1>4, TailKeepsLast
  <2>2. LastAsked' /\ Obeyed'
    BY <2>1 DEF OInv, Obeys, LastAsked, Obeyed
  <2>q. QED
    BY <1>2, <2>2 DEF Obeys
<1>q. QED
  BY <1>3, <1>4

\* The commands wait, or there are none that count.
LEMMA BusyObeys ==
  ASSUME OInv, intents' = intents, asked' \in {asked, "none"},
         intents # <<>> \/ asked' = "none" \/ overlap', Commanded', StopFirst'
  PROVE  Obeys'
  BY DEF OInv, Obeys, LastAsked, Obeyed

\* Types of the steps of the service.
LEMMA CommandFinishes ==
  ASSUME AppTyped, intents # <<>>, UNCHANGED <<disk, started, prepared, screen, asked>>,
         intents' \in {intents, Tail(intents)},
         prefs' = prefs \/ \E b \in BOOLEAN : prefs' = [prefs EXCEPT !.running = b]
  PROVE  AppTyped'
<1>1. intents' \in Seq(Commands)
  BY FinishTyped DEF AppTyped
<1>2. prefs' \in Preferences
  BY DEF AppTyped, Preferences
<1>q. QED
  BY <1>1, <1>2 DEF AppTyped

\* The service does what it is told.
LEMMA CommandsObeyed ==
  ASSUME OInv, TypeOK', ~overlap => Alone, Start \/ StartNative \/ Stop \/ NothingToDo
  PROVE  AppTyped' /\ Obeys'
<1>m. TypeOK /\ AppTyped /\ "main" \in Actors
  BY LifecycleAssumption DEF OInv
<1>d. ASSUME NEW c, Delivered(c)
      PROVE  intents # <<>> /\ intents[1] = c /\ created /\ actor["main"].step = "idle"
  BY <1>m, <1>d DEF Delivered, At, AppTyped
<1>o. ASSUME Overlaps("main"), ~overlap', ~overlap
      PROVE  \A a \in Actors \ {"main"} : At(a, "idle")
  BY <1>o DEF Overlaps
<1>1. CASE Start
  <2>1. Delivered("start") /\ start(prepared)
    BY <1>1 DEF Start
  <2>2. intents # <<>> /\ intents[1] = "start" /\ created
    BY <1>d, <2>1
  <2>3. CASE ProcessDies
    <3>1. Dies
      BY <1>1, <2>3 DEF Start, ProcessDies
    <3>q. QED
      BY <1>m, <2>3, <3>1, DiesTyped, DeadObeys
  <2>4. CASE ~ProcessDies
    <3>1. Goes("main", "jni_start") /\ created' = created
      BY <2>1, <2>4 DEF start
    <3>2. actor'["main"].step = "jni_start"
      BY <1>m, <3>1, GoneTo
    <3>3. UNCHANGED appVars
      BY <1>1, <2>2, <3>1 DEF Start
    <3>4. Commanded' /\ StopFirst'
      BY <2>2, <3>1, <3>2, <3>3 DEF Commanded, StopFirst, At, appVars
    <3>5. AppTyped'
      BY <1>m, <3>3 DEF appVars, AppTyped
    <3>q. QED
      BY <2>2, <3>3, <3>4, <3>5, BusyObeys DEF appVars
  <2>q. QED
    BY <2>3, <2>4
<1>2. CASE StartNative
  <2>1. jni_start(Configured) /\ At("main", "jni_start")
    BY <1>2 DEF StartNative, jni_start
  <2>2. created /\ intents # <<>> /\ intents[1] = "start"
    BY <2>1 DEF OInv, Obeys, Commanded, At
  <2>3. CASE ProcessDies
    <3>1. Dies
      BY <1>2, <2>3 DEF StartNative, ProcessDies
    <3>q. QED
      BY <1>m, <2>3, <3>1, DiesTyped, DeadObeys
  <2>4. CASE ~ProcessDies
    <3>1. /\ Returns("main") /\ created' = created /\ vpn' = vpn /\ vpn # 0
          /\ overlap' = overlap
      BY <2>1, <2>4 DEF jni_start
    <3>2. Finish /\ prefs' = [prefs EXCEPT !.running = @ \/ Configured]
      BY <1>2, <2>2, <3>1 DEF StartNative
    <3>3. actor'["main"].step = "idle" /\ \A b \in Actors \ {"main"} : actor'[b] = actor[b]
      BY <1>m, <3>1, Returned
    <3>4. ~overlap => AtRest'
      <4>1. ~overlap => \A b \in Actors \ {"main"} : At(b, "idle")
        BY <1>m, <2>1, BusyAlone DEF At, OthersIdle
      <4>q. QED
        BY <3>3, <4>1 DEF AtRest, At
    <3>5. Obeys'
      BY <2>2, <3>1, <3>2, <3>3, <3>4, FinishObeys DEF Finish, At
    <3>6. AppTyped'
      <4>1. prefs.running \in BOOLEAN /\ Configured \in BOOLEAN
        BY <1>m DEF AppTyped, Preferences, Configured
      <4>2. (prefs.running \/ Configured) \in BOOLEAN
        OBVIOUS
      <4>3. \E b \in BOOLEAN : prefs' = [prefs EXCEPT !.running = b]
        BY <3>2, <4>2, Zenon
      <4>q. QED
        BY <1>m, <2>2, <3>2, <4>3, CommandFinishes DEF Finish
    <3>q. QED
      BY <3>5, <3>6
  <2>q. QED
    BY <2>3, <2>4
<1>3. CASE Stop
  <2>1. /\ Delivered("stop") /\ Goes("main", "jni_stop") /\ UNCHANGED <<appVars, created>>
    BY <1>3 DEF Stop, stop
  <2>2. actor'["main"].step = "jni_stop"
    BY <1>m, <2>1, GoneTo
  <2>3. intents # <<>> /\ intents[1] = "stop" /\ created
    BY <1>d, <2>1
  <2>4. Commanded' /\ StopFirst' /\ AppTyped'
    BY <1>m, <2>1, <2>2, <2>3 DEF Commanded, StopFirst, At, appVars, AppTyped
  <2>q. QED
    BY <2>1, <2>3, <2>4, BusyObeys DEF appVars
<1>4. CASE NothingToDo
  <2>1. /\ ignored /\ Finish /\ UNCHANGED prefs
        /\ \/ Delivered("start") /\ vpn # 0
           \/ Delivered("stop") /\ vpn = 0
           \/ Delivered("null")
    BY <1>4 DEF NothingToDo
  <2>2. /\ UNCHANGED <<created, vpn, actor>> /\ created /\ actor["main"].step = "idle"
        /\ Overlaps("main")
    BY <2>1 DEF ignored, At
  <2>3. /\ intents # <<>>
        /\ \/ intents[1] = "start" /\ vpn # 0
           \/ intents[1] = "stop" /\ vpn = 0
           \/ intents[1] = "null"
    BY <1>d, <2>1
  <2>4. ~overlap' => AtRest'
    <3>1. ~overlap' => \A b \in Actors \ {"main"} : At(b, "idle")
      BY <2>2 DEF Overlaps
    <3>q. QED
      BY <2>2, <3>1 DEF AtRest, At
  <2>5. asked \in {"none", "start", "stop"}
    BY <1>m DEF AppTyped
  <2>6. Obeys'
    BY <2>1, <2>2, <2>3, <2>4, <2>5, FinishObeys DEF Finish, At
  <2>7. AppTyped'
    BY <1>m, <2>1, <2>3, CommandFinishes DEF Finish
  <2>q. QED
    BY <2>6, <2>7
<1>q. QED
  BY <1>1, <1>2, <1>3, <1>4

\* A step of a stop: the command it serves waits until its last step.
LEMMA StopStepObeys ==
  ASSUME OInv, TypeOK', ~overlap => Alone, NEW a \in Actors, StopStep(a)
  PROVE  AppTyped' /\ Obeys'
<1>m. TypeOK /\ AppTyped /\ Stopping(a) /\ "main" \in Actors
  BY LifecycleAssumption DEF OInv, StopStep
<1>b. ~AtRest /\ actor[a].step \notin {"idle", "jni_start"}
  <2>1. actor[a].step \notin {"idle", "jni_start"}
    BY <1>m DEF Stopping, jni_stop, write, pthread_join, clear, stopVPN, null, At
  <2>q. QED
    BY <2>1 DEF AtRest, At
<1>w. intents # <<>> \/ asked = "none" \/ overlap
  BY <1>b DEF OInv, Obeys, Obeyed
<1>1. CASE a = "main" /\ ~created' /\ At(a, "stopVPN")
  <2>1. created /\ Dies
    BY <1>1 DEF OInv, Obeys, Commanded, At, StopStep
  <2>2. ProcessDies
    BY <1>m, <1>1, <2>1, StopActor
  <2>q. QED
    BY <1>m, <2>1, <2>2, DiesTyped, DeadObeys
<1>2. CASE ~(a = "main" /\ ~created' /\ At(a, "stopVPN"))
  <2>1. /\ prefs' = IF actor'[a].step = "stopVPN" THEN [prefs EXCEPT !.running = FALSE] ELSE prefs
        /\ intents' = IF a = "main" /\ At(a, "null") /\ ~actor[a].destroy
                      THEN Tail(intents) ELSE intents
        /\ UNCHANGED <<disk, started, prepared, screen, asked>>
    BY <1>2 DEF StopStep
  <2>2. AppTyped'
    <3>1. intents' \in Seq(Commands)
      <4>1. a = "main" /\ At(a, "null") /\ ~actor[a].destroy => intents # <<>>
        BY DEF OInv, Obeys, Commanded, At
      <4>q. QED
        BY <1>m, <2>1, <4>1, FinishTyped DEF AppTyped
    <3>2. prefs' \in Preferences
      BY <1>m, <2>1 DEF AppTyped, Preferences
    <3>q. QED
      BY <1>m, <2>1, <3>1, <3>2 DEF AppTyped
  <2>3. CASE a # "main"
    <3>1. intents' = intents /\ asked' = asked
      BY <2>1, <2>3
    <3>2. overlap' = overlap
      BY <1>m, <2>3 DEF Stopping, jni_stop, write, pthread_join, clear, stopVPN, null, shared, history
    <3>3. Commanded' /\ StopFirst'
      <4>1. CASE ProcessDies
        <5>1. actor'["main"].step = "idle"
          BY <1>m, <4>1 DEF ProcessDies, AllIdle, Idle
        <5>q. QED
          BY <5>1 DEF Commanded, StopFirst, At
      <4>2. CASE ~ProcessDies
        <5>1. created' = created /\ actor'["main"] = actor["main"]
          BY <1>m, <2>3, <4>2, StopActor
        <5>q. QED
          BY <3>1, <5>1 DEF OInv, Obeys, Commanded, StopFirst, At
      <4>q. QED
        BY <4>1, <4>2
    <3>q. QED
      BY <1>w, <2>2, <3>1, <3>2, <3>3, BusyObeys
  <2>4. CASE a = "main"
    <3>1. created
      BY <1>b, <2>4 DEF OInv, Obeys, Commanded, At
    <3>2. ~ProcessDies /\ overlap' = overlap
      <4>1. ~ProcessDies
        BY <1>m, <1>2, <2>4, <3>1 DEF ProcessDies, Stopping, jni_stop, write, pthread_join, clear,
           stopVPN, null
      <4>q. QED
        BY <1>m, <4>1 DEF Stopping, jni_stop, write, pthread_join, clear, stopVPN, null, shared,
           history
    <3>3. actor["main"].destroy \/ (intents # <<>> /\ intents[1] = "stop")
      BY <1>b, <2>4 DEF OInv, Obeys, StopFirst, At
    <3>4. CASE At(a, "null") /\ ~actor[a].destroy
      <4>1. null(a)
        BY <1>m, <3>4 DEF Stopping, jni_stop, write, pthread_join, clear, stopVPN, null, At
      <4>2. vpn' = 0 /\ Returns("main") /\ created' = created
        BY <2>4, <3>4, <4>1 DEF null
      <4>3. actor'["main"].step = "idle" /\ \A b \in Actors \ {"main"} : actor'[b] = actor[b]
        BY <1>m, <4>2, Returned
      <4>4. ~overlap => AtRest'
        <5>1. ~overlap => \A b \in Actors \ {"main"} : At(b, "idle")
          BY <1>b, <1>m, <2>4, BusyAlone DEF At, OthersIdle
        <5>q. QED
          BY <4>3, <5>1 DEF AtRest, At
      <4>5. intents # <<>> /\ intents[1] = "stop" /\ intents' = Tail(intents)
        BY <2>1, <2>4, <3>3, <3>4
      <4>6. Obeys'
        BY <2>1, <3>1, <3>2, <4>2, <4>3, <4>4, <4>5, FinishObeys DEF At
      <4>q. QED
        BY <2>2, <4>6
    <3>5. CASE ~(At(a, "null") /\ ~actor[a].destroy)
      <4>1. intents' = intents /\ asked' = asked
        BY <2>1, <3>5
      <4>2. /\ created' = created /\ actor'["main"].step \notin {"idle", "jni_start"}
            /\ actor'["main"].destroy = actor["main"].destroy
        BY <1>m, <2>4, <3>2, <3>5, StopActor
      <4>3. Commanded' /\ StopFirst'
        BY <3>1, <3>3, <4>1, <4>2 DEF Commanded, StopFirst, At
      <4>q. QED
        BY <1>w, <2>2, <3>2, <4>1, <4>3, BusyObeys
    <3>q. QED
      BY <3>4, <3>5
  <2>q. QED
    BY <2>3, <2>4
<1>q. QED
  BY <1>1, <1>2

\* Nothing that was asked is to be obeyed any more.
LEMMA NoneObeys ==
  ASSUME OInv, intents' = intents, asked' = "none", Commanded', StopFirst'
  PROVE  Obeys'
  BY BusyObeys

\* The steps of the service that serve no command.
LEMMA OthersObey ==
  ASSUME OInv, Create \/ Destroy \/ Revoke \/ Ends
  PROVE  AppTyped' /\ Obeys'
<1>m. TypeOK /\ AppTyped /\ "main" \in Actors
  BY LifecycleAssumption DEF OInv
<1>1. CASE Create
  <2>1. /\ ~created /\ created' = TRUE /\ UNCHANGED <<actor, overlap>>
        /\ actor["main"].step = "idle"
        /\ UNCHANGED <<prefs, disk, intents, started, prepared, screen, asked>>
    BY <1>1 DEF Create, onCreate, history, At, appVars
  <2>2. AppTyped'
    BY <1>m, <2>1 DEF AppTyped
  <2>3. intents # <<>> \/ asked' = "none" \/ overlap'
    BY <2>1 DEF OInv, Obeys, Obeyed
  <2>4. Commanded' /\ StopFirst'
    BY <2>1 DEF Commanded, StopFirst, At
  <2>q. QED
    BY <2>1, <2>2, <2>3, <2>4, BusyObeys
<1>2. CASE Destroy
  <2>1. /\ onDestroy /\ asked' = "none" /\ started' = FALSE
        /\ UNCHANGED <<prefs, disk, intents, prepared, screen>>
    BY <1>2 DEF Destroy
  <2>2. /\ actor'["main"].step \in {"jni_done", "jni_stop"} /\ actor'["main"].destroy
        /\ created' = created /\ created
    BY <1>m, <2>1 DEF onDestroy, TypeOK, ActorStates
  <2>3. AppTyped'
    BY <1>m, <2>1 DEF AppTyped
  <2>4. Commanded' /\ StopFirst'
    BY <2>2 DEF Commanded, StopFirst, At
  <2>q. QED
    BY <2>1, <2>3, <2>4, NoneObeys
<1>3. CASE Revoke
  <2>1. /\ prepared' = FALSE /\ UNCHANGED <<prefs, disk, intents, started, screen>>
        /\ asked' \in {"none", asked}
    BY <1>3 DEF Revoke
  <2>2. AppTyped'
    BY <1>m, <2>1 DEF AppTyped
  <2>3. CASE UNCHANGED <<vars, asked>>
    BY <2>1, <2>2, <2>3, QuietObeys DEF vars, shared, history
  <2>4. CASE onRevoke /\ asked' = "none"
    <3>1. created' = created /\ actor'["main"] = actor["main"]
      BY <1>m, <2>4, GoneTo DEF onRevoke
    <3>2. Commanded' /\ StopFirst'
      BY <2>1, <3>1 DEF OInv, Obeys, Commanded, StopFirst, At
    <3>q. QED
      BY <2>1, <2>2, <2>4, <3>2, NoneObeys
  <2>q. QED
    BY <1>3, <2>3, <2>4 DEF Revoke
<1>4. CASE Ends
  <2>1. UNCHANGED <<prefs, disk, intents, started, prepared, screen, asked>>
    BY <1>4 DEF Ends, appVars
  <2>2. AppTyped'
    BY <1>m, <2>1 DEF AppTyped
  <2>3. ~AtRest /\ overlap' = overlap
    BY <1>4, <1>m DEF Ends, jni_done, revoked, AtRest, At, shared, history
  <2>4. intents # <<>> \/ asked = "none" \/ overlap
    BY <2>3 DEF OInv, Obeys, Obeyed
  <2>5. CASE jni_done
    <3>1. actor'["main"].step = "idle"
      BY <1>m, <2>5, Returned DEF jni_done
    <3>2. Commanded' /\ StopFirst'
      BY <3>1 DEF Commanded, StopFirst, At
    <3>q. QED
      BY <2>1, <2>2, <2>3, <2>4, <3>2, BusyObeys
  <2>6. CASE revoked
    <3>1. created' = created /\ actor'["main"] = actor["main"]
      BY <1>m, <2>6, Returned DEF revoked
    <3>2. Commanded' /\ StopFirst'
      BY <2>1, <3>1 DEF OInv, Obeys, Commanded, StopFirst, At
    <3>q. QED
      BY <2>1, <2>2, <2>3, <2>4, <3>2, BusyObeys
  <2>q. QED
    BY <1>4, <2>5, <2>6 DEF Ends
<1>q. QED
  BY <1>1, <1>2, <1>3, <1>4

\* The user adds a command at most; and the disk and the screen none.
LEMMA UserObeys ==
  ASSUME OInv, User \/ updateStatus \/ Flush
  PROVE  AppTyped' /\ Obeys'
<1>1. UNCHANGED <<created, vpn, actor, overlap>>
  BY DEF User, Open, Leave, Type, startVpn, Answer, stopVpn, screenOnly, updateStatus, Flush,
     vars, shared, history
<1>2. \/ UNCHANGED <<intents, asked>>
      \/ \E c \in {"start", "stop"} : intents' = Append(intents, c) /\ asked' = c
  <2>1. CASE Open \/ Leave \/ Type \/ updateStatus \/ Flush
    BY <2>1 DEF Open, Leave, Type, updateStatus, Flush, screenOnly
  <2>2. CASE startVpn \/ Answer
    BY <2>2 DEF startVpn, Answer, Accepted, Refused, Send
  <2>3. CASE stopVpn
    BY <2>3 DEF stopVpn, Send
  <2>q. QED
    BY <2>1, <2>2, <2>3 DEF User
<1>3. AppTyped'
  <2>1. CASE User
    BY <2>1, UserTyped DEF OInv
  <2>2. CASE updateStatus
    <3>1. screen' \in Screens
      BY <2>2 DEF updateStatus, OInv, AppTyped, Screens
    <3>q. QED
      BY <2>2, <3>1 DEF updateStatus, screenOnly, OInv, AppTyped
  <2>3. CASE Flush
    BY <2>3 DEF Flush, OInv, AppTyped
  <2>q. QED
    BY <2>1, <2>2, <2>3
<1>q. QED
  BY <1>1, <1>2, <1>3, QuietObeys

\* The process dies, or the device boots.
LEMMA LossObeys ==
  ASSUME OInv, Kill \/ Boot
  PROVE  AppTyped' /\ Obeys'
<1>1. CASE Kill
  BY <1>1, DiesTyped, DeadObeys DEF Kill, Killed, OInv
<1>2. CASE Boot
  <2>1. ProcessDies /\ onReceive /\ prefs' = disk /\ screen' = Closed /\ UNCHANGED <<disk, prepared>>
    BY <1>2 DEF Boot
  <2>2. intents' \in Seq(Commands) /\ started' \in BOOLEAN /\ asked' \in {"none", "start", "stop"}
    <3>1. <<"start">> \in Seq(Commands) /\ <<>> \in Seq(Commands)
      BY DEF Commands
    <3>q. QED
      BY <2>1, <3>1 DEF onReceive
  <2>3. AppTyped'
    BY <2>1, <2>2, TextsTyped DEF OInv, AppTyped
  <2>q. QED
    BY <2>1, <2>3, DeadObeys
<1>q. QED
  BY <1>1, <1>2

LEMMA NextObeys == OInv /\ (~overlap => Alone) /\ [AppNext]_allVars => OInv'
<1> SUFFICES ASSUME OInv, ~overlap => Alone, [AppNext]_allVars PROVE OInv'
  OBVIOUS
<1>1. TypeOK'
  BY AppStep, NextTyped DEF OInv, AppTyped, ConsentTyped
<1>2. AppTyped' /\ Obeys'
  <2>1. CASE Kill \/ Boot
    BY <2>1, LossObeys
  <2>2. CASE User \/ updateStatus \/ Flush
    BY <2>2, UserObeys
  <2>3. CASE Create \/ Destroy \/ Revoke \/ Ends
    BY <2>3, OthersObey
  <2>4. CASE NothingToDo \/ Start \/ Stop \/ StartNative
    BY <1>1, <2>4, CommandsObeyed
  <2>5. CASE \E a \in Actors : StopStep(a)
    BY <1>1, <2>5, StopStepObeys
  <2>6. ASSUME NEW n \in Starts, Serves(n) \/ Works(n) PROVE AppTyped' /\ Obeys'
    <3>1. UNCHANGED <<created, vpn, actor, overlap>> /\ UNCHANGED appVars
      BY <2>6 DEF Serves, Works, begin, read_stop, ends, serve, fails, service, history
    <3>q. QED
      BY <3>1, QuietObeys DEF appVars, OInv, AppTyped
  <2>7. CASE UNCHANGED allVars
    BY <2>7, QuietObeys DEF allVars, vars, shared, history, appVars, OInv, AppTyped
  <2>q. QED
    BY <2>1, <2>2, <2>3, <2>4, <2>5, <2>6, <2>7 DEF AppNext, Service
<1>q. QED
  BY <1>1, <1>2 DEF OInv

LEMMA AlwaysObeys == AppSpec => []OInv
<1>1. AppSpec => [](~overlap => Alone)
  BY AppImplementsService, AloneHolds, PTL
<1>q. QED
  BY <1>1, InitObeys, NextObeys, PTL DEF AppSpec

\* Whatever the user, Android and the receiver do, and whatever the process loses
\* when it dies, the state of the app is one its code expects: a command is one
\* of those onStartCommand knows, and a port that is stored is a number.
THEOREM AppTypesHold == AppSpec => []AppTypeOK
<1>1. OInv => AppTypeOK
  BY DEF OInv, AppTyped, AppTypeOK, Commands
<1>q. QED
  BY <1>1, AlwaysObeys, PTL

\* When no callback is under way and no command waits, the service is as the last
\* command that is still to be obeyed has it: it runs after a start and does not
\* after a stop, however the taps, the callbacks, the death of the process and
\* the boot of the device came one after the other.
THEOREM AppObeysLastCommand == AppSpec => []LastCommandWins
<1>1. OInv => LastCommandWins
  BY DEF OInv, Obeys, Obeyed, LastCommandWins
<1>q. QED
  BY <1>1, AlwaysObeys, PTL

=============================================================================
