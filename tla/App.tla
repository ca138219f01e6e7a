--------------------------------- MODULE App ---------------------------------
(***************************************************************************)
(* The app around the service of Lifecycle: the settings screen            *)
(* (MainActivity), the receiver that starts the service when the device    *)
(* has booted (BootReceiver), the preferences they share with the service, *)
(* and the commands Android carries from them to its main thread.          *)
(*                                                                         *)
(* Commands are delivered in order, one at a time.  Preferences are        *)
(* changed in memory at once and reach the disk later.  A process that     *)
(* dies loses what is in memory; Android makes a started service anew and  *)
(* delivers again what it had not finished, or else no command at all.     *)
(***************************************************************************)
EXTENDS Lifecycle, Sequences

CONSTANTS
    Typed,          \* what the user types: the port of an address, or see below
    MaxIntents      \* bound: commands the service has not finished

\* Other texts of the field: an address without a port, or no address at all.
Portless == 0
Blank == -1

\* The port the screen does not show.
HttpPort == 80

ASSUME AppAssumption ==
    /\ Typed \subseteq Nat \cup {Blank} /\ MaxIntents \in Nat \ {0}
    \* Consent and proxy are the user's, as below.
    /\ {"deny", "noproxy"} \subseteq Faults

VARIABLES
    prefs,      \* the preferences, in memory
    disk,       \* the preferences, on disk
    intents,    \* commands to the service, the first being executed or next
    started,    \* Android keeps the service, and makes it anew if it dies
    prepared,   \* the user consents to a VPN of this app, and to no other
    screen,     \* MainActivity
    asked       \* history: the last command still to be obeyed, or obeyed

appVars == <<prefs, disk, intents, started, prepared, screen, asked>>
allVars == <<vars, appVars>>

Preferences == [host : BOOLEAN, port : Nat, running : BOOLEAN]

\* at: "asking" is the dialog for the user's consent.
Screens == [at : {"closed", "asking", "resumed"}, text : Nat \cup {Blank},
            buttons : SUBSET {"start", "stop"}]

Closed == [at |-> "closed", text |-> Blank, buttons |-> {}]

AppTypeOK ==
    /\ TypeOK
    /\ prefs \in Preferences /\ disk \in Preferences
    /\ intents \in Seq({"start", "stop", "null"})
    /\ started \in BOOLEAN /\ prepared \in BOOLEAN
    /\ screen \in Screens
    /\ asked \in {"none", "start", "stop"}

AppInit ==
    /\ Init
    /\ prefs = [host |-> FALSE, port |-> 0, running |-> FALSE] /\ disk = prefs
    /\ intents = <<>> /\ started = FALSE /\ prepared = FALSE
    /\ screen = Closed /\ asked = "none"

-----------------------------------------------------------------------------
\* Android

\* The process has died, with what it had in memory.
Dies ==
    /\ prefs' = disk
    /\ intents' = IF intents = <<>> /\ started THEN <<"null">> ELSE intents
    /\ asked' = IF intents = <<>> THEN "none" ELSE asked
    /\ screen' = Closed
    /\ UNCHANGED <<disk, started, prepared>>

Kill == Killed /\ Dies

\* context.startService with the action c.
Send(c) ==
    /\ Len(intents) < MaxIntents
    /\ intents' = Append(intents, c) /\ started' = TRUE /\ asked' = c

\* Mutant: the receiver does not look at the preference.
onReceive_Always ==
    IF prepared
    THEN intents' = <<"start">> /\ started' = TRUE /\ asked' = "start"
    ELSE intents' = <<>> /\ started' = FALSE /\ asked' = "none"

\* BootReceiver: the service is started if it ran, and may be.
onReceive ==
    IF disk.running /\ prepared
    THEN intents' = <<"start">> /\ started' = TRUE /\ asked' = "start"
    ELSE intents' = <<>> /\ started' = FALSE /\ asked' = "none"

\* The device boots.
Boot ==
    /\ "kill" \in Faults /\ ProcessDies
    /\ prefs' = disk /\ screen' = Closed /\ onReceive
    /\ UNCHANGED <<disk, prepared>>

\* The preferences that were changed with apply are written.
Flush == disk' = prefs /\ UNCHANGED <<vars, prefs, intents, started, prepared, screen, asked>>

Create ==
    /\ intents # <<>> \/ screen.at = "resumed"
    /\ onCreate
    /\ UNCHANGED appVars

\* Nothing is asked of the service any more, and nobody is bound to it.
Destroy ==
    /\ intents = <<>> /\ screen.at # "resumed"
    /\ onDestroy
    /\ started' = FALSE /\ asked' = "none"
    /\ UNCHANGED <<prefs, disk, intents, prepared, screen>>

\* Another VPN takes over, or the user withdraws the consent.
Revoke ==
    /\ prepared /\ prepared' = FALSE
    /\ IF created /\ vpn # 0 THEN onRevoke /\ asked' = "none"
                             ELSE UNCHANGED <<vars, asked>>
    /\ UNCHANGED <<prefs, disk, intents, started, screen>>

-----------------------------------------------------------------------------
\* The service, with its preferences

Finish == intents' = Tail(intents) /\ UNCHANGED <<disk, started, prepared, screen, asked>>

Delivered(c) == created /\ At("main", "idle") /\ intents # <<>> /\ Head(intents) = c

\* onStartCommand: a start or a stop that finds nothing to do, or no command.
NothingToDo ==
    /\ \/ Delivered("start") /\ vpn # 0
       \/ Delivered("stop") /\ vpn = 0
       \/ Delivered("null")
    /\ ignored
    /\ Finish /\ UNCHANGED prefs

Start ==
    /\ Delivered("start") /\ start(prepared)
    /\ IF created' THEN UNCHANGED appVars ELSE Dies

Stop == Delivered("stop") /\ stop /\ UNCHANGED appVars

Configured == prefs.host /\ prefs.port # 0

\* Mutant: the preference is not set.
StartNative_Forgets ==
    /\ jni_start(Configured)
    /\ IF created' THEN Finish /\ UNCHANGED prefs ELSE Dies

\* Mutant: the engine is taken to run if the preference says so.
StartNative_Trusts ==
    /\ jni_start(Configured /\ ~prefs.running)
    /\ IF created'
       THEN Finish /\ prefs' = [prefs EXCEPT !.running = @ \/ Configured]
       ELSE Dies

StartNative ==
    /\ jni_start(Configured)
    /\ IF created'
       THEN Finish /\ prefs' = [prefs EXCEPT !.running = @ \/ Configured]
       ELSE Dies

\* A step of a stop.  stopNative notes that the engine does not run once jni_stop
\* has returned; the command is finished with the last step.
StopStep(a) ==
    /\ Stopping(a)
    /\ IF a = "main" /\ ~created' /\ At(a, "stopVPN") THEN Dies
       ELSE /\ prefs' = IF actor'[a].step = "stopVPN" THEN [prefs EXCEPT !.running = FALSE]
                        ELSE prefs
            /\ intents' = IF a = "main" /\ At(a, "null") /\ ~actor[a].destroy
                          THEN Tail(intents) ELSE intents
            /\ UNCHANGED <<disk, started, prepared, screen, asked>>

\* The ends of onDestroy and onRevoke, and the engine.
Ends == (jni_done \/ revoked) /\ UNCHANGED appVars

Serves(n) == (begin(n) \/ read_stop(n) \/ ends(n)) /\ UNCHANGED appVars

Works(n) == (serve(n) \/ fails(n)) /\ UNCHANGED appVars

-----------------------------------------------------------------------------
\* The settings screen

screenOnly == <<vars, disk, prefs, intents, started, prepared, asked>>

\* loadHostPort
Loaded == IF ~prefs.host THEN Blank ELSE IF prefs.port = HttpPort THEN Portless ELSE prefs.port

\* onCreate and onResume, which binds to the service.
Open ==
    /\ screen.at = "closed"
    /\ screen' = [at |-> "resumed", text |-> Loaded, buttons |-> {}]
    /\ UNCHANGED screenOnly

\* onPause unbinds.
Leave == screen.at # "closed" /\ screen' = Closed /\ UNCHANGED screenOnly

Type ==
    /\ screen.at = "resumed"
    /\ \E t \in Typed : screen' = [screen EXCEPT !.text = t]
    /\ UNCHANGED screenOnly

\* Mutant: the status is looked at when the screen is resumed only.
updateStatus_Once ==
    /\ screen.at = "resumed" /\ created /\ screen.buttons = {}
    /\ screen' = [screen EXCEPT !.buttons = IF vpn # 0 THEN {"stop"} ELSE {"start"}]
    /\ UNCHANGED screenOnly

\* updateStatus, every second once the service is bound.
updateStatus ==
    /\ screen.at = "resumed" /\ created
    /\ screen' = [screen EXCEPT !.buttons = IF vpn # 0 THEN {"stop"} ELSE {"start"}]
    /\ UNCHANGED screenOnly

Refused == UNCHANGED <<prefs, disk, intents, started, asked>>

\* onActivityResult, the user having consented: parseAndSaveHostPort commits the
\* address, with all that is in memory, and the service is started.
Accepted ==
    IF screen.text = Blank THEN Refused
    ELSE /\ prefs' = [prefs EXCEPT !.host = TRUE, !.port = screen.text] /\ disk' = prefs'
         /\ Send("start")

startVpn ==
    /\ screen.at = "resumed" /\ "start" \in screen.buttons
    /\ IF prepared
       THEN /\ Accepted
            /\ screen' = [screen EXCEPT !.buttons = IF screen.text = Blank THEN @ ELSE {"stop"}]
       ELSE Refused /\ screen' = [screen EXCEPT !.at = "asking"]
    /\ UNCHANGED <<vars, prepared>>

\* The user's answer, after which the screen is resumed.
Answer ==
    /\ screen.at = "asking"
    /\ \/ prepared' = TRUE /\ Accepted
       \/ UNCHANGED prepared /\ Refused
    /\ screen' = [screen EXCEPT !.at = "resumed", !.buttons = {}]
    /\ UNCHANGED vars

stopVpn ==
    /\ screen.at = "resumed" /\ "stop" \in screen.buttons
    /\ Send("stop")
    /\ screen' = [screen EXCEPT !.buttons = {"start"}]
    /\ UNCHANGED <<vars, prefs, disk, prepared>>

-----------------------------------------------------------------------------
Service ==
    \/ Create \/ NothingToDo \/ Start \/ Stop \/ StartNative
    \/ \E a \in Actors : StopStep(a)

User == Open \/ Leave \/ Type \/ startVpn \/ Answer \/ stopVpn

AppNext ==
    \/ Kill \/ Boot \/ Flush \/ Destroy \/ Revoke
    \/ Service \/ Ends \/ User \/ updateStatus
    \/ \E n \in Starts : Serves(n) \/ Works(n)

AppSpec == AppInit /\ [][AppNext]_allVars

\* The main thread goes on with what it has, the engine's thread runs, and the
\* handler of the screen comes round.
AppFairSpec ==
    /\ AppSpec
    /\ WF_allVars(Create \/ NothingToDo \/ Start \/ Stop \/ StartNative)
    /\ \A a \in Actors : WF_allVars(StopStep(a))
    /\ WF_allVars(Ends) /\ \A n \in Starts : WF_allVars(Serves(n))
    /\ WF_allVars(updateStatus)

-----------------------------------------------------------------------------
\* Properties

AtRest == \A a \in Actors : At(a, "idle")

\* The last command wins, however fast the user taps, whatever is executed when
\* he does, and if the process dies before it is: the buttons are set before the
\* service has seen the command.
LastCommandWins ==
    ~overlap /\ AtRest /\ intents = <<>> /\ asked # "none" => (vpn # 0) = (asked = "start")

\* The preference the receiver goes by says that the engine runs when the service
\* does, even if onRevoke has run beside another callback.
RunningIsRemembered ==
    AtRest /\ vpn # 0 => prefs.running

\* A start that is asked for, on the screen or when the device boots, is served,
\* unless it is revoked, or an engine fails, and however often the process died
\* meanwhile.
StartServed ==
    <>[]created => (asked = "start" ~> \/ asked # "start" \/ ~prepared \/ failed \/ overlap
                                       \/ vpn # 0 /\ Running(vpn)
                                       \/ starts = MaxStarts)

\* The screen comes to show what the service does, however its buttons were set.
ScreenAnswers ==
    screen.at = "resumed" ~> \/ screen.at # "resumed"
                             \/ screen.buttons = IF vpn # 0 THEN {"stop"} ELSE {"start"}

=============================================================================
