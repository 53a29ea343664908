--------------------------- MODULE MCSendPipeline ---------------------------
(* Finite instances of SendPipeline for TLC: calls on one key. *)
EXTENDS SendPipeline, TLC

CONSTANTS k1, r1, r2

OneKey == [r \in Requests |-> k1]

\* A client repeats a call with the same body, or uses the key for another mail.
SameBody == [r \in Requests |-> "mail"]
OtherBody == [r \in Requests |-> IF r = r1 THEN "mail" ELSE "other mail"]

WorkerSymmetry == Permutations(Workers)
=============================================================================
