---------------------------- MODULE MCSyncEvents ----------------------------
(* Finite instances of SyncEvents for TLC. *)
EXTENDS SyncEvents, TLC

\* Sound for the runs that check no liveness: no constant names a stream.
StreamSymmetry == Permutations(Streams)
=============================================================================
