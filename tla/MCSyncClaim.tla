---------------------------- MODULE MCSyncClaim ----------------------------
(* Finite instances of SyncClaim for TLC. *)
EXTENDS SyncClaim, TLC

CONSTANTS r1, p1, p2

OneProc == [r \in Runs |-> p1]
TwoProcs == [r \in Runs |-> IF r = r1 THEN p1 ELSE p2]

\* Sound where no constant names a run.
RunSymmetry == Permutations(Runs)
=============================================================================
