---------------------------- MODULE MailboxLock -----------------------------
(***************************************************************************)
(* What the claim on a mailbox promises to the runs that synchronise it,   *)
(* without rows, jobs, timers or processes: a lock with a sign at its door *)
(* and a bell. One run is inside and the sign is up; a run that the bell   *)
(* rang for does not get past its last look. What breaks this is named:    *)
(* the lock is broken by the bell itself, by whoever writes over the sign, *)
(* or by the clock, and is whole again when the last run has left.         *)
(***************************************************************************)
CONSTANTS
  Runs,   \* who may be inside
  Looks   \* whether a run looks for the bell before its last part

VARIABLES
  holders, \* runs inside
  past,    \* those past their last look
  rung,    \* those the bell last rang for
  broken,  \* what has happened to the lock since somebody was inside
  sign     \* the sign is up: others are turned away

vars == <<holders, past, rung, broken, sign>>

Init == holders = {} /\ past = {} /\ rung = {} /\ broken = {} /\ sign = FALSE

Breaks(why) == broken' = IF holders = {} THEN broken ELSE broken \cup {why}

\* A run gets in when the sign is down. That somebody is inside does not happen,
\* unless more than such a claim has broken the lock.
Acquire(r) ==
  /\ r \notin holders /\ ~sign
  /\ holders = {} \/ broken \ {"claim"} # {}
  /\ holders' = holders \cup {r} /\ sign' = TRUE /\ Breaks("claim")
  /\ UNCHANGED <<past, rung>>

\* A run inside says that it is still there.
Renew == holders # {} /\ sign' = TRUE /\ UNCHANGED <<holders, past, rung, broken>>

\* The last look. A bell nobody wrote over is heard.
Pass(r) ==
  /\ r \in holders \ past
  /\ Looks /\ r \in rung => broken \cap {"claim", "overwritten"} # {}
  /\ past' = past \cup {r}
  /\ UNCHANGED <<holders, rung, broken, sign>>

\* The run starts over.
Again(r) == r \in past /\ past' = past \ {r} /\ UNCHANGED <<holders, rung, broken, sign>>

\* Runs leave: one of them, or those that died together. The sign is left as it is,
\* or as the last renewal leaves it.
Release(gone) ==
  /\ gone # {} /\ gone \subseteq holders
  /\ holders' = holders \ gone /\ past' = past \ gone /\ rung' = rung \ gone
  /\ broken' = IF holders \subseteq gone THEN {} ELSE broken
  /\ sign' \in {sign, TRUE}

\* The sign comes down: somebody writes over it, or nobody renewed it.
Lower(why) == sign' = FALSE /\ Breaks(why) /\ UNCHANGED <<holders, past, rung>>

\* The bell rings for all who are inside. It hangs where the sign hung.
Ring == rung' = holders /\ sign' = FALSE /\ Breaks("cancel") /\ UNCHANGED <<holders, past>>

Next ==
  \/ \E r \in Runs : Acquire(r) \/ Pass(r) \/ Again(r)
  \/ \E gone \in SUBSET Runs : Release(gone)
  \/ Lower("overwritten") \/ Lower("outlived")
  \/ Renew \/ Ring

Spec == Init /\ [][Next]_vars
=============================================================================
