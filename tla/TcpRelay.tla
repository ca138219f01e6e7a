------------------------------ MODULE TcpRelay ------------------------------
(***************************************************************************)
(* A session of TcpSession keeps the promise of Relay.                     *)
(***************************************************************************)
EXTENDS TcpSession

Stage ==
    IF sess = NoSession THEN "none"
    ELSE IF sess.state = "CLOSE" THEN "over"
    ELSE IF sess.state = "CLOSING" THEN "ending"
    ELSE IF sess.socket THEN "both" ELSE "half"

\* A FIN is confirmed without a look at its number, so data before it may be
\* missing: dropped by tun or, on port 443, by queue_tcp, where the segment
\* takes the place of an empty one.
Sound ==
    /\ sock.conn \notin {"failed", "dead"}
    /\ app.fin => "loss" \notin Faults /\ app.port # "https"

Promise ==
    INSTANCE Relay WITH
        stage <- Stage, sent <- app.nxt, fin <- app.fin, edge <- app.edge,
        sound <- Sound, taken <- upstream,
        confirmed <- IF sess = NoSession THEN 0 ELSE RemoteOff(sess),
        passed <- IF sess = NoSession THEN 0 ELSE LocalOff(sess)

\* Every step of a session, whatever its state, keeps the promise.
KeepsPromise == Promise!Spec
=============================================================================
