----------------------------- MODULE OnceMailer ------------------------------
(***************************************************************************)
(* What the outgoing-mail pipeline promises to who calls it, without jobs, *)
(* workers, leases or retries: a record to each key, that is opened before *)
(* any mail goes out, closed as 'succeeded' only when the mail is out and  *)
(* as 'failed' only when it is not, and that calls are answered from. What *)
(* breaks the promise for a key is named: the key is hurt.                 *)
(***************************************************************************)
EXTENDS Naturals

CONSTANTS
  Keys,   \* idempotency keys
  Calls,  \* calls
  KeyOf   \* the key of a call

VARIABLES
  record,  \* what is kept of a key: "none", "open", "succeeded", "failed"
  copies,  \* copies of its mail that are out
  hurt,    \* whether a send of it outlived its lease, or its outcome was lost
  told,    \* what a call was answered, or "none"
  closed   \* the connector is gone, and all records with it

vars == <<record, copies, hurt, told, closed>>

Init ==
  /\ record = [k \in Keys |-> "none"] /\ copies = [k \in Keys |-> 0]
  /\ hurt = [k \in Keys |-> FALSE] /\ told = [c \in Calls |-> "none"] /\ closed = FALSE

Keeps(k, what) == record' = [record EXCEPT ![k] = what]
Hurts(k) == hurt' \in {hurt, [hurt EXCEPT ![k] = TRUE]}

\* A key is taken, before any mail of it is out.
Open(k) ==
  /\ ~closed /\ record[k] = "none" /\ copies[k] = 0 /\ Keeps(k, "open")
  /\ UNCHANGED <<copies, hurt, told, closed>>

\* A failed mail is tried again: it is not out.
Retry(k) ==
  /\ record[k] = "failed" /\ (hurt[k] \/ copies[k] = 0) /\ Keeps(k, "open")
  /\ UNCHANGED <<copies, hurt, told, closed>>

\* The mail goes out, once, while its record is open, or its connector was just deleted.
Send(k) ==
  /\ hurt[k] \/ (copies[k] = 0 /\ (record[k] = "open" \/ closed))
  /\ copies' = [copies EXCEPT ![k] = @ + 1] /\ Hurts(k)
  /\ UNCHANGED <<record, told, closed>>

Succeed(k) ==
  /\ copies[k] > 0 /\ record[k] # "none" /\ (hurt[k] \/ record[k] = "open")
  /\ Keeps(k, "succeeded") /\ Hurts(k)
  /\ UNCHANGED <<copies, told, closed>>

Fail(k) ==
  /\ record[k] # "none" /\ (hurt[k] \/ (record[k] = "open" /\ copies[k] = 0))
  /\ Keeps(k, "failed")
  /\ UNCHANGED <<copies, hurt, told, closed>>

Harm(k) == hurt' = [hurt EXCEPT ![k] = TRUE] /\ UNCHANGED <<record, copies, told, closed>>

\* A call is answered once, and told of an outcome what the record says.
Answer(c, what) ==
  /\ told[c] = "none" /\ told' = [told EXCEPT ![c] = what]
  /\ \/ what \in {"queued", "rejected", "error"}
     \/ what = "in_flight" /\ record[KeyOf[c]] = "open"
     \/ what \in {"succeeded", "failed"} /\ record[KeyOf[c]] = what
  /\ UNCHANGED <<record, copies, hurt, closed>>

Close ==
  /\ ~closed /\ closed' = TRUE /\ record' = [k \in Keys |-> "none"]
  /\ UNCHANGED <<copies, hurt, told>>

Answers == {"queued", "rejected", "error", "in_flight", "succeeded", "failed"}

Next ==
  \/ \E k \in Keys : Open(k) \/ Retry(k) \/ Send(k) \/ Succeed(k) \/ Fail(k) \/ Harm(k)
  \/ \E c \in Calls, what \in Answers : Answer(c, what)
  \/ Close

Spec == Init /\ [][Next]_vars
=============================================================================
