---------------------------- MODULE MCTcpSession ----------------------------
(* Instances of TcpSession small enough for TLC. *)
EXTENDS TcpRelay

\* Segment shapes a cfg chooses from.
OneByte == {<<1, 1>>}
TwoSingles == {<<1, 1>>, <<2, 1>>}
SinglesAndPair == {<<1, 2>>, <<3, 1>>}
=============================================================================
