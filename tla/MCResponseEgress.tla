-------------------------- MODULE MCResponseEgress --------------------------
(* Instances of ResponseEgress for TLC. *)
EXTENDS ResponseEgress, TLC

CONSTANTS c1, s1, s2

\* Two responses on one connection.
BothOnOne == s1 :> c1 @@ s2 :> c1
=============================================================================
