--------------------------- MODULE MCSessionTable ---------------------------
(* Instances of SessionTable small enough for TLC. *)
EXTENDS SessionTable, TLC

CONSTANTS s1, s2, s3

\* The addresses are interchangeable.
Addresses == Permutations(Ids)
=============================================================================
