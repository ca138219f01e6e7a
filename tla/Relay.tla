-------------------------------- MODULE Relay --------------------------------
(***************************************************************************)
(* What the engine promises of one TCP connection, whatever happens inside *)
(* it: towards upstream, the app's bytes in order and each once; while     *)
(* the connection is sound none is missing there, and no byte, nor the     *)
(* end, is confirmed before upstream has it and all before it, unless with *)
(* the reset that ends the connection; towards the app, nothing beyond the *)
(* window it advertised, and nothing after the end.                        *)
(***************************************************************************)
EXTENDS Naturals, Sequences

VARIABLES
    stage,      \* "none"; "both": both directions are open; "half": upstream
                \* is closed; "ending": reset, or all said; "over": it lingers
    sent,       \* bytes the app has sent
    fin,        \* the app has sent its end
    edge,       \* the edge of the app's window
    sound,      \* upstream has not failed, and no end may have overtaken data
    taken,      \* the bytes of the app that upstream has, in order
    confirmed,  \* what the app is told has arrived: the start of its
                \* connection, bytes, and the end count one each
    passed      \* what the app was given, counted likewise

env == <<sent, fin, edge, sound>>
vars == <<stage, env, taken, confirmed, passed>>

Init ==
    /\ stage = "none" /\ sent = 0 /\ fin = FALSE /\ edge = 0 /\ sound = TRUE
    /\ taken = <<>> /\ confirmed = 0 /\ passed = 0

\* The app sends in order, and never takes back a window.
Environment ==
    /\ sent' >= sent /\ edge' >= edge
    /\ fin => fin' /\ sent' = sent

\* The last byte taken.
Last(bytes) == IF bytes = <<>> THEN 0 ELSE bytes[Len(bytes)]

\* What may be confirmed when upstream has n of the m bytes of the app: the start
\* at once, the bytes it has, and the end when it has them all.
Confirmable(n, m, end) ==
    {1 + n} \cup (IF n = 0 THEN {0} ELSE {}) \cup (IF end /\ n = m THEN {2 + n} ELSE {})

Confirm ==
    /\ confirmed' >= confirmed
    /\ sound /\ sound' /\ stage' # "ending" => confirmed' \in Confirmable(Last(taken'), sent', fin')

Bytes(from, to) == [i \in 1 .. to - from |-> from + i]

\* A byte may be passed over only when the connection is no longer sound.
Take ==
    \E from \in Last(taken) .. sent', to \in 0 .. sent' :
        /\ taken' = taken \o Bytes(from, to)
        /\ sound => from = Last(taken)

\* The start, bytes up to the edge, and the end, with which upstream is closed.
Pass ==
    /\ passed' >= passed
    /\ \/ passed' <= 1 \/ passed' <= edge' \/ passed' = passed
       \/ stage' = "half" /\ passed' = passed + 1

Begin ==
    /\ stage = "none" /\ stage' = "both"
    /\ taken = <<>> /\ UNCHANGED <<taken, confirmed, passed>>

None == stage = "none" /\ UNCHANGED <<stage, taken, confirmed, passed>>

Both ==
    /\ stage = "both" /\ stage' \in {"both", "half", "ending", "over"}
    /\ Take /\ Confirm /\ Pass

Half ==
    /\ stage = "half" /\ stage' \in {"half", "ending", "over"}
    /\ Confirm /\ UNCHANGED <<taken, passed>>

\* What is queued may still go out, nothing more goes to the app.  A connection
\* of which upstream has nothing may be opened again.
Ending ==
    /\ stage = "ending" /\ stage' \in {"ending", "over"} \cup (IF taken' = <<>> THEN {"both"} ELSE {})
    /\ Take /\ confirmed' >= confirmed /\ UNCHANGED passed

Over ==
    /\ stage = "over" /\ UNCHANGED taken
    /\ \/ stage' = "over" /\ UNCHANGED <<confirmed, passed>>
       \/ stage' = "none" /\ confirmed' = 0 /\ passed' = 0

Next == Environment /\ (None \/ Begin \/ Both \/ Half \/ Ending \/ Over)

Spec == Init /\ [][Next]_vars
=============================================================================
