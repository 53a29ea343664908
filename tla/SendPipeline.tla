---------------------------- MODULE SendPipeline ----------------------------
(***************************************************************************)
(* The outgoing-mail pipeline: POST /messages/send records the request in  *)
(* the send_idempotency table and enqueues a Graphile job, worker runs of  *)
(* that job take a 30 second lease on the row, hand the message to SMTP or *)
(* the Gmail API, and write the outcome back.                              *)
(*                                                                         *)
(* Sources: routes/messages-mutation-routes.ts (POST /messages/send),      *)
(* services/sendIdempotency.ts, services/queue.ts (enqueueSend),           *)
(* worker/taskHandlers.ts (sendEmailTask), worker/run.ts                   *)
(* (unlockStaleWorkerLocks) and services/smtp.ts (sendThroughConnector).   *)
(* The job table itself is Graphile's: external, modelled from its use.    *)
(***************************************************************************)
EXTENDS Naturals, FiniteSets

CONSTANTS
  Keys,             \* idempotency keys of one user
  Requests,         \* POST /messages/send calls
  KeyOf,            \* the idempotency key a call carries
  HashOf,           \* makeSendRequestHash of a call's body
  Workers,          \* Graphile workers, over all worker processes ever booted
  None,             \* no request, no worker, no hash
  MaxJobAttempts,   \* maxAttempts of a send job (3 in the code)
  MaxSmtpAttempts,  \* maxAttempts inside sendThroughConnector (4 in the code)
  MaxCrashes,       \* bound: workers that may die
  Faults            \* the environment faults the run lets happen

Hashes == {HashOf[r] : r \in Requests}
FaultKinds == {"crash", "db", "lostReply", "sentCopy", "lease", "expiry", "delete"}

ASSUME SendAssumption ==
  /\ KeyOf \in [Requests -> Keys]
  /\ DOMAIN HashOf = Requests
  /\ None \notin Requests \cup Workers
  /\ None \notin Hashes
  /\ MaxJobAttempts \in Nat \ {0}
  /\ MaxSmtpAttempts \in Nat \ {0}
  /\ MaxCrashes \in Nat
  /\ Faults \subseteq FaultKinds

VARIABLES
  status,      \* send_idempotency.status of the row of a key; "none": no row
  hash,        \* send_idempotency.request_hash
  age,         \* updated_at and expires_at against NOW(), as the claim reads them
  identity,    \* the sending identity (and its outgoing connector) still exists
  jobReq,      \* the call whose payload the queued job of a key carries
  jobAttempts, \* attempts of that job
  jobLock,     \* the worker that locked that job
  lockOld,     \* that lock is more than five minutes old
  rpc,         \* where a call is in the route handler
  reply,       \* what a call was answered
  wpc,         \* where a worker is in sendEmailTask
  wreq,        \* the call whose job it runs
  wtry,        \* attempts of the send loop of sendThroughConnector
  werr,        \* the error it is handling, by isRetriableSendError
  delivered,   \* copies of mail of a key a server accepted
  sentHash,    \* the request hashes of those copies
  excuse       \* history: faults that hit a key and can cost it exactly-once

rowVars   == <<status, hash, age, identity>>
jobVars   == <<jobReq, jobAttempts, jobLock, lockOld>>
routeVars == <<rpc, reply>>
workVars  == <<wpc, wreq, wtry, werr>>
mailVars  == <<delivered, sentHash>>
vars == <<rowVars, jobVars, routeVars, workVars, mailVars, excuse>>

Statuses == {"none", "pending", "processing", "succeeded", "failed"}
Ages     == {"fresh", "stale", "expired"}
RoutePcs == {"start", "insert", "refind", "enqueue", "done"}
Replies  == {"none", "queued", "succeeded", "in_flight", "failed", "rejected", "error"}
WorkPcs  == {"off", "idle", "claim", "load", "send", "finalizeSuccess",
             "finalizeFailure", "complete", "fail", "dead"}
Errors   == {"none", "retriable", "permanent"}

\* The program points at which a run holds the lease it acquired.
Leased == {"load", "send", "finalizeSuccess", "finalizeFailure"}
Holds(w, k) == wpc[w] \in Leased /\ KeyOf[wreq[w]] = k

TypeOK ==
  /\ status \in [Keys -> Statuses]
  /\ hash \in [Keys -> Hashes \cup {None}]
  /\ age \in [Keys -> Ages]
  /\ identity \in BOOLEAN
  /\ jobReq \in [Keys -> Requests \cup {None}]
  /\ jobAttempts \in [Keys -> 0..MaxJobAttempts]
  /\ jobLock \in [Keys -> Workers \cup {None}]
  /\ lockOld \in [Keys -> BOOLEAN]
  /\ rpc \in [Requests -> RoutePcs]
  /\ reply \in [Requests -> Replies]
  /\ wpc \in [Workers -> WorkPcs]
  /\ wreq \in [Workers -> Requests \cup {None}]
  /\ wtry \in [Workers -> 0..MaxSmtpAttempts]
  /\ werr \in [Workers -> Errors]
  /\ delivered \in [Keys -> Nat]
  /\ sentHash \in [Keys -> SUBSET Hashes]
  /\ excuse \in [Keys -> SUBSET FaultKinds]
  /\ \A w \in Workers : wreq[w] = None <=> wpc[w] \in {"off", "idle", "dead"}
  /\ \A k \in Keys : jobReq[k] \in Requests => KeyOf[jobReq[k]] = k

Init ==
  /\ status = [k \in Keys |-> "none"]
  /\ hash = [k \in Keys |-> None]
  /\ age = [k \in Keys |-> "fresh"]
  /\ identity = TRUE
  /\ jobReq = [k \in Keys |-> None]
  /\ jobAttempts = [k \in Keys |-> 0]
  /\ jobLock = [k \in Keys |-> None]
  /\ lockOld = [k \in Keys |-> FALSE]
  /\ rpc = [r \in Requests |-> "start"]
  /\ reply = [r \in Requests |-> "none"]
  /\ wpc = [w \in Workers |-> "off"]
  /\ wreq = [w \in Workers |-> None]
  /\ wtry = [w \in Workers |-> 0]
  /\ werr = [w \in Workers |-> "none"]
  /\ delivered = [k \in Keys |-> 0]
  /\ sentHash = [k \in Keys |-> {}]
  /\ excuse = [k \in Keys |-> {}]

-----------------------------------------------------------------------------
(* The route handler: one step per database round trip. *)

Answer(r, what) ==
  /\ rpc' = [rpc EXCEPT ![r] = "done"]
  /\ reply' = [reply EXCEPT ![r] = what]

\* The switch on idempotency.status: only a pending row is enqueued.
AnswerByStatus(r) ==
  LET s == status[KeyOf[r]] IN
  \/ s = "pending" /\ rpc' = [rpc EXCEPT ![r] = "enqueue"] /\ UNCHANGED reply
  \/ s = "succeeded" /\ Answer(r, "succeeded")
  \/ s = "processing" /\ Answer(r, "in_flight")
  \/ s = "failed" /\ Answer(r, "failed")

\* getIdentity, then the first findSendIdempotency with its hash check.
RouteFind(r) ==
  /\ rpc[r] = "start"
  /\ \/ ~identity /\ Answer(r, "rejected")
     \/ /\ identity /\ status[KeyOf[r]] = "none"
        /\ rpc' = [rpc EXCEPT ![r] = "insert"] /\ UNCHANGED reply
     \/ /\ identity /\ status[KeyOf[r]] # "none" /\ hash[KeyOf[r]] # HashOf[r]
        /\ Answer(r, "rejected")
     \/ /\ identity /\ status[KeyOf[r]] # "none" /\ hash[KeyOf[r]] = HashOf[r]
        /\ AnswerByStatus(r)
  /\ UNCHANGED <<rowVars, jobVars, workVars, mailVars, excuse>>

\* INSERT ... ON CONFLICT DO NOTHING; the foreign key rejects a lost identity.
RouteInsert(r) ==
  LET k == KeyOf[r] IN
  /\ rpc[r] = "insert"
  /\ \/ /\ identity /\ status[k] = "none"
        /\ status' = [status EXCEPT ![k] = "pending"]
        /\ hash' = [hash EXCEPT ![k] = HashOf[r]]
        /\ age' = [age EXCEPT ![k] = "fresh"]
        /\ rpc' = [rpc EXCEPT ![r] = "enqueue"]
        /\ UNCHANGED <<identity, reply>>
     \/ /\ status[k] # "none"
        /\ rpc' = [rpc EXCEPT ![r] = "refind"]
        /\ UNCHANGED <<rowVars, reply>>
     \/ ~identity /\ status[k] = "none" /\ Answer(r, "error") /\ UNCHANGED rowVars
  /\ UNCHANGED <<jobVars, workVars, mailVars, excuse>>

\* The second findSendIdempotency, after a lost insert: no hash check.
RouteRefind(r) ==
  /\ rpc[r] = "refind"
  /\ \/ status[KeyOf[r]] = "none" /\ Answer(r, "error")
     \/ status[KeyOf[r]] # "none" /\ AnswerByStatus(r)
  /\ UNCHANGED <<rowVars, jobVars, workVars, mailVars, excuse>>

\* enqueueSend: addJob with jobKeyMode 'unsafe_dedupe' keeps an existing job,
\* locked, waiting or out of attempts.
RouteEnqueue(r) ==
  LET k == KeyOf[r] IN
  /\ rpc[r] = "enqueue"
  /\ Answer(r, "queued")
  /\ IF jobReq[k] = None
       THEN /\ jobReq' = [jobReq EXCEPT ![k] = r]
            /\ jobAttempts' = [jobAttempts EXCEPT ![k] = 0]
            /\ jobLock' = [jobLock EXCEPT ![k] = None]
            /\ lockOld' = [lockOld EXCEPT ![k] = FALSE]
       ELSE UNCHANGED jobVars
  /\ UNCHANGED <<rowVars, workVars, mailVars, excuse>>

\* A database error or an API process crash between two round trips.
RouteAbort(r) ==
  /\ "db" \in Faults
  /\ rpc[r] \in {"insert", "refind", "enqueue"}
  /\ Answer(r, "error")
  /\ UNCHANGED <<rowVars, jobVars, workVars, mailVars, excuse>>

-----------------------------------------------------------------------------
(* Graphile Worker, as worker/run.ts and services/queue.ts use it. *)

\* A lock becomes minutes old. Its holder, if it lives, is past the claim query
\* and not yet at the end of its job, and the 30 second lease that query took has
\* lapsed.
LockAges(k) ==
  /\ jobLock[k] # None /\ ~lockOld[k]
  /\ wpc[jobLock[k]] \in Leased \cup {"dead"}
  /\ status[k] = "processing" => age[k] # "fresh"
  /\ lockOld' = [lockOld EXCEPT ![k] = TRUE]
  /\ UNCHANGED <<rowVars, jobReq, jobAttempts, jobLock, routeVars, workVars, mailVars, excuse>>

\* main(): unlockStaleWorkerLocks frees every job of the workers whose lock is
\* more than five minutes old, then run() starts polling.
Boot(w) ==
  /\ wpc[w] = "off"
  /\ wpc' = [wpc EXCEPT ![w] = "idle"]
  /\ \E old \in SUBSET {k \in Keys : jobLock[k] # None /\ lockOld[k]} :
       jobLock' = [k \in Keys |-> IF k \in old THEN None ELSE jobLock[k]]
  /\ UNCHANGED <<rowVars, jobReq, jobAttempts, lockOld, routeVars, wreq, wtry, werr, mailVars, excuse>>

\* Graphile itself frees a lock after four hours.
ResetLock(k) ==
  /\ jobLock[k] # None /\ lockOld[k]
  /\ jobLock' = [jobLock EXCEPT ![k] = None]
  /\ UNCHANGED <<rowVars, jobReq, jobAttempts, lockOld, routeVars, workVars, mailVars, excuse>>

Available(k) ==
  jobReq[k] # None /\ jobLock[k] = None /\ jobAttempts[k] < MaxJobAttempts

GetJob(w, k) ==
  /\ wpc[w] = "idle"
  /\ Available(k)
  /\ jobLock' = [jobLock EXCEPT ![k] = w]
  /\ lockOld' = [lockOld EXCEPT ![k] = FALSE]
  /\ jobAttempts' = [jobAttempts EXCEPT ![k] = @ + 1]
  /\ wpc' = [wpc EXCEPT ![w] = "claim"]
  /\ wreq' = [wreq EXCEPT ![w] = jobReq[k]]
  /\ UNCHANGED <<rowVars, jobReq, routeVars, wtry, werr, mailVars, excuse>>

\* The worker is free again, or gone: nothing of the run outlives it.
Leave(w, pc) ==
  /\ wpc' = [wpc EXCEPT ![w] = pc]
  /\ wreq' = [wreq EXCEPT ![w] = None]
  /\ wtry' = [wtry EXCEPT ![w] = 0]
  /\ werr' = [werr EXCEPT ![w] = "none"]

\* A job that returned is deleted by its id, whoever holds its lock by now.
CompleteJob(w) ==
  LET k == KeyOf[wreq[w]] IN
  /\ wpc[w] = "complete"
  /\ Leave(w, "idle")
  /\ IF jobReq[k] = wreq[w]
       THEN /\ jobReq' = [jobReq EXCEPT ![k] = None]
            /\ jobLock' = [jobLock EXCEPT ![k] = None]
       ELSE UNCHANGED <<jobReq, jobLock>>
  /\ UNCHANGED <<rowVars, jobAttempts, lockOld, routeVars, mailVars, excuse>>

\* A job that threw is unlocked for a retry, only by the worker that holds it.
FailJob(w) ==
  LET k == KeyOf[wreq[w]] IN
  /\ wpc[w] = "fail"
  /\ Leave(w, "idle")
  /\ IF jobReq[k] = wreq[w] /\ jobLock[k] = w
       THEN jobLock' = [jobLock EXCEPT ![k] = None]
       ELSE UNCHANGED jobLock
  /\ UNCHANGED <<rowVars, jobReq, jobAttempts, lockOld, routeVars, mailVars, excuse>>

-----------------------------------------------------------------------------
(* sendEmailTask. *)

\* Mutant: the status is not looked at, so a late job sends a second time.
ClaimableAgain(k) == status[k] # "none" /\ age[k] # "expired"

\* Mutant: no takeover of a lease whose holder is gone.
ClaimableOnce(k) == status[k] \in {"pending", "failed"} /\ age[k] # "expired"

\* The WHERE clause of acquireSendClaim.
Claimable(k) ==
  /\ \/ status[k] \in {"pending", "failed"}
     \/ status[k] = "processing" /\ age[k] = "stale"
  /\ age[k] # "expired"

\* Mutant: the SET clause without updated_at, so that a lease may be born stale.
TakeLeaseStale(k) == status' = [status EXCEPT ![k] = "processing"] /\ UNCHANGED age

\* The SET clause of acquireSendClaim.
TakeLease(k) ==
  /\ status' = [status EXCEPT ![k] = "processing"]
  /\ age' = [age EXCEPT ![k] = "fresh"]

\* acquireSendClaim; a run that does not get the lease returns 'in_flight' or
\* the stored result, so its job completes.
Claim(w) ==
  LET k == KeyOf[wreq[w]] IN
  /\ wpc[w] = "claim"
  /\ \/ /\ Claimable(k)
        /\ TakeLease(k)
        /\ wpc' = [wpc EXCEPT ![w] = "load"]
     \/ /\ ~Claimable(k) /\ status[k] # "none"
        /\ wpc' = [wpc EXCEPT ![w] = "complete"]
        /\ UNCHANGED <<status, age>>
     \/ /\ status[k] = "none"
        /\ wpc' = [wpc EXCEPT ![w] = "fail"]
        /\ UNCHANGED <<status, age>>
  /\ UNCHANGED <<hash, identity, jobVars, routeVars, wreq, wtry, werr, mailVars, excuse>>

\* The claim query throws: the task throws, the job is retried.
ClaimError(w) ==
  /\ "db" \in Faults
  /\ wpc[w] = "claim"
  /\ wpc' = [wpc EXCEPT ![w] = "fail"]
  /\ UNCHANGED <<rowVars, jobVars, routeVars, wreq, wtry, werr, mailVars, excuse>>

\* sendThroughConnector reads the identity and its connector before it sends.
Load(w) ==
  /\ wpc[w] = "load"
  /\ IF identity
       THEN /\ wpc' = [wpc EXCEPT ![w] = "send"]
            /\ wtry' = [wtry EXCEPT ![w] = 1]
            /\ UNCHANGED werr
       ELSE /\ wpc' = [wpc EXCEPT ![w] = "finalizeFailure"]
            /\ werr' = [werr EXCEPT ![w] = "permanent"]
            /\ UNCHANGED wtry
  /\ UNCHANGED <<rowVars, jobVars, routeVars, wreq, mailVars, excuse>>

Deliver(w) ==
  LET k == KeyOf[wreq[w]] IN
  /\ delivered' = [delivered EXCEPT ![k] = @ + 1]
  /\ sentHash' = [sentHash EXCEPT ![k] = @ \cup {HashOf[wreq[w]]}]

Blame(k, fault) == excuse' = [excuse EXCEPT ![k] = @ \cup {fault}]

\* The handler of the task: whatever sendThroughConnector or
\* finalizeSendSuccess threw goes to finalizeSendFailure first.
Caught(w) ==
  /\ wpc' = [wpc EXCEPT ![w] = "finalizeFailure"]
  /\ \E e \in {"retriable", "permanent"} : werr' = [werr EXCEPT ![w] = e]

\* Mutant: the loop ends without the throw that follows its last attempt.
SmtpErrorFallsThrough(w) ==
  \/ /\ wtry[w] < MaxSmtpAttempts
     /\ wtry' = [wtry EXCEPT ![w] = @ + 1]
     /\ UNCHANGED <<wpc, werr>>
  \/ /\ wpc' = [wpc EXCEPT ![w] = "finalizeSuccess"]
     /\ UNCHANGED <<wtry, werr>>

\* The catch block of the send loop: isRecoverableSmtpError errors are tried
\* again up to maxAttempts, the last one and all others are thrown.
SmtpError(w) ==
  \/ /\ wtry[w] < MaxSmtpAttempts
     /\ wtry' = [wtry EXCEPT ![w] = @ + 1]
     /\ UNCHANGED <<wpc, werr>>
  \/ Caught(w) /\ UNCHANGED wtry

SendAccepted(w) ==
  /\ wpc[w] = "send"
  /\ Deliver(w)
  /\ wpc' = [wpc EXCEPT ![w] = "finalizeSuccess"]
  /\ UNCHANGED <<rowVars, jobVars, routeVars, wreq, wtry, werr, excuse>>

SendRejected(w) ==
  /\ wpc[w] = "send"
  /\ SmtpError(w)
  /\ UNCHANGED <<rowVars, jobVars, routeVars, wreq, mailVars, excuse>>

\* The server took the message and the connection died before its answer.
SendReplyLost(w) ==
  /\ "lostReply" \in Faults
  /\ wpc[w] = "send"
  /\ Deliver(w)
  /\ SmtpError(w)
  /\ Blame(KeyOf[wreq[w]], "lostReply")
  /\ UNCHANGED <<rowVars, jobVars, routeVars, wreq>>

\* The message is out, then finding the sent-copy connector throws.
SentCopyError(w) ==
  /\ "sentCopy" \in Faults
  /\ wpc[w] = "send"
  /\ Deliver(w)
  /\ Caught(w)
  /\ Blame(KeyOf[wreq[w]], "sentCopy")
  /\ UNCHANGED <<rowVars, jobVars, routeVars, wreq, wtry>>

\* finalizeSendSuccess: WHERE user_id and idempotency_key, nothing else.
FinalizeSendSuccess(w) ==
  LET k == KeyOf[wreq[w]] IN
  /\ wpc[w] = "finalizeSuccess"
  /\ wpc' = [wpc EXCEPT ![w] = "complete"]
  /\ IF status[k] = "none"
       THEN UNCHANGED <<status, age>>
       ELSE /\ status' = [status EXCEPT ![k] = "succeeded"]
            /\ age' = [age EXCEPT ![k] = "fresh"]
  /\ UNCHANGED <<hash, identity, jobVars, routeVars, wreq, wtry, werr, mailVars, excuse>>

\* The query throws, before or after its UPDATE committed; the same try block
\* as the send catches it.
FinalizeSuccessError(w) ==
  LET k == KeyOf[wreq[w]] IN
  /\ "db" \in Faults
  /\ wpc[w] = "finalizeSuccess"
  /\ Caught(w)
  /\ Blame(k, "db")
  /\ \/ UNCHANGED <<status, age>>
     \/ /\ status[k] # "none"
        /\ status' = [status EXCEPT ![k] = "succeeded"]
        /\ age' = [age EXCEPT ![k] = "fresh"]
  /\ UNCHANGED <<hash, identity, jobVars, routeVars, wreq, wtry, mailVars>>

\* finalizeSendFailure, then rethrow only what isRetriableSendError accepts.
FinalizeSendFailure(w) ==
  LET k == KeyOf[wreq[w]] IN
  /\ wpc[w] = "finalizeFailure"
  /\ wpc' = [wpc EXCEPT ![w] = IF werr[w] = "retriable" THEN "fail" ELSE "complete"]
  /\ IF status[k] = "none"
       THEN UNCHANGED <<status, age>>
       ELSE /\ status' = [status EXCEPT ![k] = "failed"]
            /\ age' = [age EXCEPT ![k] = "fresh"]
  /\ UNCHANGED <<hash, identity, jobVars, routeVars, wreq, wtry, werr, mailVars, excuse>>

\* The query of the catch block throws: the task throws with the row as it was.
FinalizeFailureError(w) ==
  /\ "db" \in Faults
  /\ wpc[w] = "finalizeFailure"
  /\ wpc' = [wpc EXCEPT ![w] = "fail"]
  /\ Blame(KeyOf[wreq[w]], "db")
  /\ UNCHANGED <<rowVars, jobVars, routeVars, wreq, wtry, werr, mailVars>>

-----------------------------------------------------------------------------
(* The environment. *)

\* The worker process dies; its job lock and its row stay as they are.
Crash(w) ==
  /\ "crash" \in Faults
  /\ wpc[w] \notin {"off", "dead"}
  /\ Cardinality({v \in Workers : wpc[v] = "dead"}) < MaxCrashes
  /\ Leave(w, "dead")
  /\ IF wpc[w] = "finalizeSuccess" THEN Blame(KeyOf[wreq[w]], "crash")
                                    ELSE UNCHANGED excuse
  /\ UNCHANGED <<rowVars, jobVars, routeVars, mailVars>>

\* STALE_PROCESSING_INTERVAL_SECONDS pass without an update of the row. If a run
\* still holds the lease it has outlived it: a send may take minutes.
LeaseLapses(k) ==
  /\ status[k] # "none" /\ age[k] = "fresh"
  /\ age' = [age EXCEPT ![k] = "stale"]
  /\ IF \E w \in Workers : Holds(w, k)
       THEN "lease" \in Faults /\ Blame(k, "lease")
       ELSE UNCHANGED excuse
  /\ UNCHANGED <<status, hash, identity, jobVars, routeVars, workVars, mailVars>>

\* SEND_IDEMPOTENCY_TTL_HOURS pass; no code of the program deletes the row.
RowExpires(k) ==
  /\ "expiry" \in Faults
  /\ status[k] # "none" /\ age[k] # "expired"
  /\ age' = [age EXCEPT ![k] = "expired"]
  /\ Blame(k, "expiry")
  /\ UNCHANGED <<status, hash, identity, jobVars, routeVars, workVars, mailVars>>

\* deleteOutgoingConnector: rows, identities and connector in one transaction;
\* the send jobs stay.
DeleteOutgoingConnector ==
  /\ "delete" \in Faults
  /\ identity
  /\ identity' = FALSE
  /\ status' = [k \in Keys |-> "none"]
  /\ hash' = [k \in Keys |-> None]
  /\ age' = [k \in Keys |-> "fresh"]
  /\ UNCHANGED <<jobVars, routeVars, workVars, mailVars, excuse>>

-----------------------------------------------------------------------------
Route(r) ==
  RouteFind(r) \/ RouteInsert(r) \/ RouteRefind(r) \/ RouteEnqueue(r)

\* The steps a live worker keeps taking.
Run(w) ==
  \/ Boot(w) \/ CompleteJob(w) \/ FailJob(w) \/ Claim(w) \/ Load(w)
  \/ SendAccepted(w) \/ SendRejected(w)
  \/ FinalizeSendSuccess(w) \/ FinalizeSendFailure(w)
  \/ \E k \in Keys : GetJob(w, k)

Fault(w) ==
  \/ ClaimError(w) \/ SendReplyLost(w) \/ SentCopyError(w)
  \/ FinalizeSuccessError(w) \/ FinalizeFailureError(w) \/ Crash(w)

Next ==
  \/ \E r \in Requests : Route(r) \/ RouteAbort(r)
  \/ \E w \in Workers : Run(w) \/ Fault(w)
  \/ \E k \in Keys : LockAges(k) \/ ResetLock(k) \/ LeaseLapses(k) \/ RowExpires(k)
  \/ DeleteOutgoingConnector

Spec == Init /\ [][Next]_vars

\* A live worker does not stop (Graphile polls every second, every query and
\* every send has a timeout) and time passes.
FairSpec ==
  /\ Spec
  /\ \A w \in Workers : WF_vars(Run(w))
  /\ \A k \in Keys :
       WF_vars(LockAges(k)) /\ WF_vars(ResetLock(k)) /\ WF_vars(LeaseLapses(k))

-----------------------------------------------------------------------------
(* Properties. *)

\* The faults after which a second copy is possible.
Duplicating == {"lostReply", "sentCopy", "db", "crash", "lease"}
Clean(k) == excuse[k] \cap Duplicating = {}

\* However calls, job retries, crashes and restarts interleave, the mail of a key
\* goes out at most once, unless a send outlived its lease or its outcome was
\* lost between the mail server and the row (sendEmailTask, acquireSendClaim).
AtMostOnce == \A k \in Keys : Clean(k) => delivered[k] <= 1

\* acquireSendClaim gives the lease to one run at a time, unless the run that
\* holds it outlived it.
OneHolder ==
  \A k \in Keys : Clean(k) =>
    \A v, w \in Workers : Holds(v, k) /\ Holds(w, k) => v = w

\* A row that says 'succeeded', and a call answered 'succeeded', is right: a
\* server took the mail (finalizeSendSuccess, POST /messages/send).
SuccessIsTrue ==
  /\ \A k \in Keys : status[k] = "succeeded" => delivered[k] > 0
  /\ \A r \in Requests : reply[r] = "succeeded" => delivered[KeyOf[r]] > 0

\* Neither finalizer is fenced by the lease, yet no late run, retry or call turns
\* a recorded success into something else unless a send outlived its lease or
\* lost its outcome.
SucceededIsFinal ==
  [][\A k \in Keys : status[k] = "succeeded" /\ Clean(k) =>
        status'[k] \in {"succeeded", "none"}]_vars

\* A row that says 'processing' with nobody at work on it and its job gone: every
\* later call is answered 'in_flight', for ever.
Orphaned(k) ==
  /\ status[k] = "processing"
  /\ jobReq[k] = None
  /\ \A w \in Workers : ~Holds(w, k)

\* A crash does not orphan a row, since the lease is shorter than the lock of the
\* job that will take it over. It takes a failed finalizer (the retry comes within
\* the lease and ends the job as 'in_flight'), a send that outlived its lease or a
\* row past its 24 hours.
NoOrphan ==
  \A k \in Keys : excuse[k] \cap {"db", "lease", "expiry"} = {} => ~Orphaned(k)

\* The job is dead: its last attempt is used up and its lock is free.
GaveUp(k) ==
  jobReq[k] # None /\ jobAttempts[k] = MaxJobAttempts /\ jobLock[k] = None

\* A call answered 'queued' comes to an outcome that stays: the job's retries and
\* the takeover of a crashed run's lease see to it, while attempts last.
QueuedSettles ==
  \A r \in Requests :
    reply[r] = "queued" ~>
      \/ [](status[KeyOf[r]] \in {"succeeded", "failed", "none"})
      \/ GaveUp(KeyOf[r])

\* sendIdempotency.ts:127, 'Idempotency key already used with a different send
\* request': what goes out under a key is the request its row stands for.
SentIsTheRequest ==
  \A k \in Keys : status[k] # "none" => sentHash[k] \subseteq {hash[k]}

-----------------------------------------------------------------------------
(* What the pipeline promises. *)

\* What a caller sees of a key: whether its row is there and has come to an outcome, and
\* whether a duplicating fault hit it.
Records == [k \in Keys |-> IF status[k] \in {"pending", "processing"} THEN "open" ELSE status[k]]
Hurt == [k \in Keys |-> ~Clean(k)]

Mailer == INSTANCE OnceMailer WITH Calls <- Requests, record <- Records, copies <- delivered,
                                   hurt <- Hurt, told <- reply, closed <- ~identity

\* The pipeline implements the mailer: through all its runs, leases, retries and answers
\* the mail of a key goes out once and its row and the answers say so, 'failed' only if
\* it is not out, unless the key was hurt (POST /messages/send, sendEmailTask).
ImplementsMailer == Mailer!Spec
=============================================================================
