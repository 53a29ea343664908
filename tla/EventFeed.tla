------------------------------ MODULE EventFeed ------------------------------
(***************************************************************************)
(* What the sync events promise to a tab, without streams, signals, pages  *)
(* or connections: a feed of numbered events that the tab reads once each, *)
(* in the order of their ids, without passing over one. The only way to    *)
(* miss a stored event is that it was stored below an id already known.    *)
(***************************************************************************)
EXTENDS Naturals

CONSTANT Events  \* ids

VARIABLES
  stored,  \* events in the table
  known,   \* events that have been in the table
  late,    \* events stored below a known id
  cursor,  \* the last event read; 0: none
  seen     \* events read

vars == <<stored, known, late, cursor, seen>>

Init == stored = {} /\ known = {} /\ late = {} /\ cursor = 0 /\ seen = {}

Store(e) ==
  /\ e \notin known
  /\ stored' = stored \cup {e} /\ known' = known \cup {e}
  /\ late' = IF \E f \in known : f > e THEN late \cup {e} ELSE late
  /\ UNCHANGED <<cursor, seen>>

Delete(D) ==
  /\ stored' = stored \ D
  /\ UNCHANGED <<known, late, cursor, seen>>

\* The next event for the tab: new to it, and nothing before it is left out.
Deliver(e) ==
  /\ e \in known /\ e > cursor
  /\ \A f \in stored : f > cursor /\ f < e => f \in late \cup seen
  /\ cursor' = e /\ seen' = seen \cup {e}
  /\ UNCHANGED <<stored, known, late>>

Next ==
  \/ \E e \in Events : Store(e) \/ Deliver(e)
  \/ \E D \in SUBSET stored : Delete(D)

Spec == Init /\ [][Next]_vars
=============================================================================
