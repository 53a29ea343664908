------------------------------ MODULE SyncClaim ------------------------------
(***************************************************************************)
(* Who synchronises a mailbox. Every caller of syncIncomingConnector (a    *)
(* Graphile job, an HTTP route, a watch loop, a retry timer) runs the same *)
(* steps against one row of sync_states: a look for a requested            *)
(* cancellation, a compare-and-set claim, a body that heartbeats, and a    *)
(* terminal write of the status that is not fenced by the claim. Routes    *)
(* and the reaper write the same column. Rows of different mailboxes do    *)
(* not meet, so one row is modelled.                                       *)
(*                                                                         *)
(* Sources: services/imap/imapService.monolith.ts (setSyncState, claim,    *)
(* runMailboxSync, runGmailMailboxSync, syncMailbox, syncIncomingConnector,*)
(* reaper, cancellation, retry timers), services/queue.ts,                 *)
(* routes/syncManagementRoutes.ts, worker/run.ts and worker/taskHandlers.ts*)
(***************************************************************************)
EXTENDS Naturals

CONSTANTS
  Runs,         \* concurrent executions of syncIncomingConnector
  Procs,        \* API and worker processes
  ProcOf,       \* the process a run executes in
  Calls,        \* routes that enqueue a sync of the mailbox
  None,         \* no run
  Gmail,        \* the connector syncs through the Gmail API
  MaxAttempts,  \* maxAttempts of a sync job (5 in the code)
  MaxCancels,   \* bound: POST /sync/:connectorId/cancel
  MaxCrashes,   \* bound: process deaths
  Faults        \* the environment faults the run lets happen

ASSUME SyncAssumption ==
  /\ ProcOf \in [Runs -> Procs]
  /\ None \notin Runs
  /\ Gmail \in BOOLEAN
  /\ MaxAttempts \in Nat \ {0}
  /\ MaxCancels \in Nat
  /\ MaxCrashes \in Nat
  /\ Faults \subseteq {"db", "slow", "deaf", "inactive", "limit"}

VARIABLES
  status,       \* sync_states.status; "absent": no row
  started,      \* sync_started_at: "null", or younger or older than syncClaimStaleMs
  beat,         \* updated_at: "fresh", "stale" (heartbeatStaleMs), "dead" (reaperStaleMs)
  bootstrapped, \* sync_settings.gmailApiBootstrapped
  mail,         \* the connector has messages
  job,          \* the keyed sync job: "none", "ready", "running", "failed" for good
  jobAttempts,  \* its attempts
  jobRun,       \* the run that executes it; None: its lock has no holder
  pc,           \* where a run is
  cooldown,     \* gmailRateLimitCooldownUntil of a process is ahead
  retry,        \* scheduledMailboxSyncRetries of a process has a timer
  cpc,          \* where an enqueueing route is
  cancels,      \* cancel requests made
  crashes,      \* processes that died
  target,       \* history: runs at work when the last cancel was requested
  excuse,       \* history: what happened to the claim of the runs now at work
  strayed       \* history: what a 'queued' waits for was gone, refused or lost to a failed write

rowVars  == <<status, started, beat>>
bootVars == <<bootstrapped, mail>>
jobVars  == <<job, jobAttempts, jobRun>>
procVars == <<cooldown, retry>>
envVars  == <<cpc, cancels, crashes>>
histVars == <<target, excuse, strayed>>
vars == <<rowVars, bootVars, jobVars, pc, procVars, envVars, histVars>>

Statuses == {"absent", "idle", "queued", "syncing", "cancel_requested",
             "cancelled", "completed", "error"}
RunPcs   == {"off", "start", "count", "wipe", "mark", "ensure", "park", "check", "claim",
             "work", "finish", "completed", "cancelled", "limited", "failed"}
CallPcs  == {"idle", "add", "look", "write"}
Reasons  == {"cancel", "claim", "overwritten", "outlived"}

\* The body of runMailboxSync: between the claim and the end of the try block.
AtWork == {r \in Runs : pc[r] \in {"work", "finish"}}
Others(r) == AtWork \ {r}

TypeOK ==
  /\ status \in Statuses
  /\ started \in {"null", "fresh", "old"}
  /\ beat \in {"fresh", "stale", "dead"}
  /\ bootstrapped \in BOOLEAN /\ mail \in BOOLEAN
  /\ job \in {"none", "ready", "running", "failed"}
  /\ jobAttempts \in 0..MaxAttempts
  /\ job = "ready" => jobAttempts < MaxAttempts
  /\ jobRun \in Runs \cup {None}
  /\ pc \in [Runs -> RunPcs]
  /\ cooldown \in [Procs -> BOOLEAN] /\ retry \in [Procs -> BOOLEAN]
  /\ cpc \in [Calls -> CallPcs]
  /\ cancels \in 0..MaxCancels /\ crashes \in 0..MaxCrashes
  /\ target \subseteq AtWork
  /\ excuse \subseteq Reasons
  /\ strayed \in BOOLEAN
  /\ jobRun # None => job = "running" /\ pc[jobRun] # "off"
  /\ AtWork = {} => excuse = {}

Init ==
  /\ status = "absent" /\ started = "null" /\ beat = "fresh"
  /\ bootstrapped = ~Gmail /\ mail = ~Gmail   \* without Gmail nobody counts messages
  /\ job = "none" /\ jobAttempts = 0 /\ jobRun = None
  /\ pc = [r \in Runs |-> "off"]
  /\ cooldown = [p \in Procs |-> FALSE]
  /\ retry = [p \in Procs |-> FALSE]
  /\ cpc = [c \in Calls |-> "idle"]
  /\ cancels = 0 /\ crashes = 0
  /\ target = {} /\ excuse = {} /\ strayed = FALSE

-----------------------------------------------------------------------------
(* The row. *)

\* setSyncState with a status: an UPDATE, so nothing when the row is missing.
SetSyncState(s) ==
  IF status = "absent" THEN UNCHANGED <<status, beat>>
                       ELSE status' = s /\ beat' = "fresh"

\* setSyncState without a status: progress, watermarks, heartbeat.
Touch == beat' = IF status = "absent" THEN beat ELSE "fresh"

\* ensureIncomingConnectorState: INSERT ... ON CONFLICT DO NOTHING.
EnsureRow ==
  IF status = "absent" THEN status' = "idle" /\ started' = "null" /\ beat' = "fresh"
                       ELSE UNCHANGED rowVars

\* Something but r that will still look at the mailbox: a job, a timer, a run.
Follows(r) ==
  \/ job = "ready" \/ (job = "running" /\ jobRun # r)
  \/ \E p \in Procs : retry[p]
  \/ \E s \in Runs \ {r} : pc[s] # "off"

\* History: what happens to the claim while runs are at work.
Displace(others, why) ==
  excuse' = IF others = {} THEN excuse ELSE excuse \cup {why}

-----------------------------------------------------------------------------
(* Where runs come from. *)

Begin(r) == pc[r] = "off" /\ pc' = [pc EXCEPT ![r] = "start"]

\* A route, a watch loop or a push notification calls syncIncomingConnector.
StartCall(r) ==
  /\ Begin(r)
  /\ UNCHANGED <<rowVars, bootVars, jobVars, procVars, envVars, histVars>>

\* The timer of scheduleMailboxSyncRetry, set no earlier than the cooldown ends.
StartRetry(r) ==
  LET p == ProcOf[r] IN
  /\ retry[p] /\ ~cooldown[p]
  /\ Begin(r)
  /\ retry' = [retry EXCEPT ![p] = FALSE]
  /\ UNCHANGED <<rowVars, bootVars, jobVars, cooldown, envVars, histVars>>

\* Graphile runs syncIncomingConnectorTask.
StartJob(r) ==
  /\ job = "ready"
  /\ Begin(r)
  /\ job' = "running" /\ jobRun' = r /\ jobAttempts' = jobAttempts + 1
  /\ UNCHANGED <<rowVars, bootVars, procVars, envVars, histVars>>

\* The run returns; the job it executes, if it still has its key, is deleted.
Return(r) ==
  /\ pc' = [pc EXCEPT ![r] = "off"]
  /\ IF jobRun = r THEN job' = "none" /\ jobRun' = None ELSE UNCHANGED <<job, jobRun>>
  /\ UNCHANGED jobAttempts

\* The run throws; its job is retried while attempts last.
Throw(r) ==
  /\ pc' = [pc EXCEPT ![r] = "off"]
  /\ IF jobRun = r
       THEN /\ job' = IF jobAttempts < MaxAttempts THEN "ready" ELSE "failed"
            /\ jobRun' = None
       ELSE UNCHANGED <<job, jobRun>>
  /\ UNCHANGED jobAttempts

-----------------------------------------------------------------------------
(* syncIncomingConnector, before the claim. *)

Goto(r, from, to) == pc[r] = from /\ pc' = [pc EXCEPT ![r] = to]

\* getIncomingConnectorByIdForUser. A connector that is gone or not active ends the
\* run; the job handler swallows that error.
ReadConnector(r) ==
  /\ \/ /\ Goto(r, "start", IF bootstrapped THEN "ensure" ELSE "count")
        /\ UNCHANGED <<jobVars, strayed>>
     \/ "inactive" \in Faults /\ pc[r] = "start" /\ Return(r) /\ strayed' = TRUE
  /\ UNCHANGED <<rowVars, bootVars, procVars, envVars, target, excuse>>

CountMessages(r) ==
  /\ Goto(r, "count", IF mail THEN "mark" ELSE "wipe")
  /\ UNCHANGED <<rowVars, bootVars, jobVars, procVars, envVars, histVars>>

\* The two DELETEs of the first sync through the Gmail API.
Wipe(r) ==
  /\ Goto(r, "wipe", "mark")
  /\ mail' = FALSE
  /\ status' = "absent" /\ started' = "null" /\ beat' = "fresh"
  /\ Displace(AtWork, "overwritten")
  /\ UNCHANGED <<bootstrapped, jobVars, procVars, envVars, target, strayed>>

MarkBootstrapped(r) ==
  /\ Goto(r, "mark", "ensure")
  /\ bootstrapped' = TRUE
  /\ UNCHANGED <<rowVars, mail, jobVars, procVars, envVars, histVars>>

\* ensureIncomingConnectorState, then the look at this process's cooldown map.
EnsureState(r) ==
  /\ Goto(r, "ensure", IF cooldown[ProcOf[r]] THEN "park" ELSE "check")
  /\ EnsureRow
  /\ UNCHANGED <<bootVars, jobVars, procVars, envVars, histVars>>

\* In its cooldown the process only says 'queued' and leaves the rest to its timer.
Park(r) ==
  /\ pc[r] = "park"
  /\ SetSyncState("queued")
  /\ started' = IF status = "absent" THEN started ELSE "fresh"
  /\ Displace(AtWork, "overwritten")
  /\ strayed' = (strayed \/ ~Follows(r))
  /\ Return(r)
  /\ UNCHANGED <<bootVars, procVars, envVars, target>>

\* ensureNotCancelled(true), before the claim.
CheckBeforeClaim(r) ==
  /\ Goto(r, "check", IF status = "cancel_requested" THEN "cancelled" ELSE "claim")
  /\ UNCHANGED <<rowVars, bootVars, jobVars, procVars, envVars, histVars>>

\* Any query up to the claim throws inside syncMailbox.
QueryFails(r) ==
  /\ "db" \in Faults
  /\ pc[r] \in {"check", "claim"}
  /\ pc' = [pc EXCEPT ![r] = "failed"]
  /\ UNCHANGED <<rowVars, bootVars, jobVars, procVars, envVars, histVars>>

\* Mutant: a claim with no look at who holds it.
ClaimableAnyway == status # "absent"

\* The WHERE clause of tryClaimMailboxSync.
Claimable ==
  \/ status \notin {"absent", "syncing"}
  \/ status = "syncing" /\ (started # "fresh" \/ beat # "fresh")

\* tryClaimMailboxSync; without the claim syncMailbox swallows the
\* already-running error and returns.
Claim(r) ==
  /\ pc[r] = "claim"
  /\ \/ /\ Claimable
        /\ pc' = [pc EXCEPT ![r] = "work"]
        /\ status' = "syncing" /\ started' = "fresh" /\ beat' = "fresh"
        /\ Displace(AtWork, "claim")
        /\ UNCHANGED jobVars
     \/ ~Claimable /\ Return(r) /\ UNCHANGED <<rowVars, excuse>>
  /\ UNCHANGED <<bootVars, procVars, envVars, target, strayed>>

-----------------------------------------------------------------------------
(* runMailboxSync and runGmailMailboxSync, under the claim. *)

\* The run leaves its body; a mailbox nobody is at work on starts afresh.
Leave(r, to) ==
  /\ pc' = [pc EXCEPT ![r] = to]
  /\ target' = target \ {r}
  /\ excuse' = IF Others(r) = {} THEN {} ELSE excuse

\* heartbeatTimer and writeProgress: both write the row whoever claims it.
Heartbeat(r) ==
  /\ r \in AtWork
  /\ Touch
  /\ UNCHANGED <<status, started, bootVars, jobVars, pc, procVars, envVars, histVars>>

StoreMail(r) ==
  /\ r \in AtWork /\ ~mail
  /\ mail' = TRUE
  /\ UNCHANGED <<rowVars, bootstrapped, jobVars, pc, procVars, envVars, histVars>>

\* ensureNotCancelled inside the body: forced at four places, and every 25 messages.
NoticeCancel(r) ==
  /\ r \in AtWork /\ status = "cancel_requested"
  /\ Leave(r, "cancelled")
  /\ UNCHANGED <<rowVars, bootVars, jobVars, procVars, envVars, strayed>>

\* Mutant: the check before the reconciliation is not forced.
PastLastCheckUnforced(r) == pc[r] = "work"

\* The last check, before the reconciliation. runGmailMailboxSync forces none.
PastLastCheck(r) == pc[r] = "work" /\ (Gmail \/ status # "cancel_requested")

LastCheck(r) ==
  /\ PastLastCheck(r)
  /\ pc' = [pc EXCEPT ![r] = "finish"]
  /\ UNCHANGED <<rowVars, bootVars, jobVars, procVars, envVars, histVars>>

\* runImapOperation: a recoverable error starts the body again on a new connection.
RunAgain(r) ==
  /\ ~Gmail /\ pc[r] = "finish"
  /\ pc' = [pc EXCEPT ![r] = "work"]
  /\ UNCHANGED <<rowVars, bootVars, jobVars, procVars, envVars, histVars>>

\* The final watermark write; back in syncMailbox the cooldown is dropped.
Finish(r) ==
  /\ pc[r] = "finish"
  /\ Leave(r, "completed")
  /\ Touch
  /\ cooldown' = [cooldown EXCEPT ![ProcOf[r]] = FALSE]
  /\ UNCHANGED <<status, started, bootVars, jobVars, retry, envVars, strayed>>

\* The mail server, its timeout or the database ends the body with an error.
WorkFails(r) ==
  /\ r \in AtWork
  /\ Leave(r, "failed")
  /\ UNCHANGED <<rowVars, bootVars, jobVars, procVars, envVars, strayed>>

\* An error that names 429, RESOURCE_EXHAUSTED or a rate limit.
RateLimited(r) ==
  /\ "limit" \in Faults
  /\ r \in AtWork
  /\ Leave(r, "limited")
  /\ cooldown' = [cooldown EXCEPT ![ProcOf[r]] = TRUE]
  /\ UNCHANGED <<rowVars, bootVars, jobVars, retry, envVars, strayed>>

-----------------------------------------------------------------------------
(* syncMailbox, after the body: WHERE connector and mailbox, nothing else. *)

WriteCompleted(r) ==
  /\ pc[r] = "completed"
  /\ SetSyncState("completed")
  /\ Displace(AtWork, "overwritten")
  /\ Return(r)
  /\ UNCHANGED <<started, bootVars, procVars, envVars, target, strayed>>

WriteCancelled(r) ==
  /\ pc[r] = "cancelled"
  /\ SetSyncState("cancelled")
  /\ Displace(AtWork, "overwritten")
  /\ Return(r)
  /\ UNCHANGED <<started, bootVars, procVars, envVars, target, strayed>>

\* Mutant: the timer is never set.
ScheduleNothing(p) == UNCHANGED retry

\* scheduleMailboxSyncRetry keeps one timer for a mailbox in a process.
Schedule(p) == retry' = [retry EXCEPT ![p] = TRUE]

\* A rate limit ends the run as 'queued', with a timer in this process's memory.
WriteLimited(r) ==
  /\ pc[r] = "limited"
  /\ SetSyncState("queued")
  /\ started' = IF status = "absent" THEN started ELSE "fresh"
  /\ Displace(AtWork, "overwritten")
  /\ Schedule(ProcOf[r])
  /\ Return(r)
  /\ UNCHANGED <<bootVars, cooldown, envVars, target, strayed>>

WriteFailed(r) ==
  /\ pc[r] = "failed"
  /\ SetSyncState("error")
  /\ Displace(AtWork, "overwritten")
  /\ Schedule(ProcOf[r])
  /\ Throw(r)
  /\ UNCHANGED <<started, bootVars, cooldown, envVars, target, strayed>>

\* A terminal write throws: the one of 'completed' is inside the try block.
WriteFails(r) ==
  /\ "db" \in Faults
  /\ \/ /\ pc[r] = "completed"
        /\ pc' = [pc EXCEPT ![r] = "failed"]
        /\ UNCHANGED <<jobVars, strayed>>
     \/ pc[r] \in {"cancelled", "limited", "failed"} /\ Throw(r) /\ strayed' = TRUE
  /\ UNCHANGED <<rowVars, bootVars, procVars, envVars, target, excuse>>

-----------------------------------------------------------------------------
(* Routes, the reaper, the job table and time. *)

\* hasActiveSyncClaim of services/queue.ts.
HasActiveSyncClaim == status = "syncing" /\ started = "fresh" /\ beat = "fresh"

\* POST /sync/:connectorId and its siblings make sure there is a row.
PostSync(c) ==
  /\ cpc[c] = "idle"
  /\ cpc' = [cpc EXCEPT ![c] = "add"]
  /\ EnsureRow
  /\ UNCHANGED <<bootVars, jobVars, pc, procVars, cancels, crashes, histVars>>

\* enqueueSyncWithOptions: a dead job is deleted, then addJob 'preserve_run_at'
\* renews a waiting job and takes the key from a running one. Unforced it stops at an
\* active claim; it stops when no worker is alive. A caller that was let in writes
\* 'queued', looks first (force), or writes nothing (the SENT sync after a send).
AddJob(c) ==
  /\ cpc[c] = "add"
  /\ \/ /\ \E force \in BOOLEAN :
             /\ force \/ ~HasActiveSyncClaim
             /\ \E next \in {"idle", "write"} \cup (IF force THEN {"look"} ELSE {}) :
                  cpc' = [cpc EXCEPT ![c] = next]
        /\ job' = "ready" /\ jobAttempts' = 0 /\ jobRun' = None
     \/ /\ cpc' = [cpc EXCEPT ![c] = "idle"]
        /\ job' = IF job = "failed" THEN "none" ELSE job
        /\ UNCHANGED <<jobAttempts, jobRun>>
  /\ UNCHANGED <<rowVars, bootVars, pc, procVars, cancels, crashes, histVars>>

\* A forced POST does not overwrite 'syncing', as far as it can see.
LookBeforeWrite(c) ==
  /\ cpc[c] = "look"
  /\ cpc' = [cpc EXCEPT ![c] = IF status = "syncing" THEN "idle" ELSE "write"]
  /\ UNCHANGED <<rowVars, bootVars, jobVars, pc, procVars, cancels, crashes, histVars>>

\* The write that follows addJob, whatever has happened to the job since.
WriteQueued(c) ==
  /\ cpc[c] = "write"
  /\ cpc' = [cpc EXCEPT ![c] = "idle"]
  /\ SetSyncState("queued")
  /\ Displace(AtWork, "overwritten")
  /\ strayed' = (strayed \/ ~Follows(None))
  /\ UNCHANGED <<started, bootVars, jobVars, pc, procVars, cancels, crashes, target>>

\* requestSyncCancellation, whatever the status.
RequestSyncCancellation ==
  /\ cancels < MaxCancels
  /\ cancels' = cancels + 1
  /\ status' = "cancel_requested" /\ beat' = "fresh"
  /\ started' = IF status = "absent" THEN "null" ELSE started
  /\ target' = AtWork
  /\ Displace(AtWork, "cancel")
  /\ UNCHANGED <<bootVars, jobVars, pc, procVars, cpc, crashes, strayed>>

\* Mutant: the reaper looks for 'syncing' only.
ReapableSyncing == status = "syncing" /\ beat = "dead"

Reapable == status \in {"syncing", "cancel_requested"} /\ beat = "dead"

\* reapStaleSyncStates, in the maintenance loop of a process, with its retry timer.
Reap(p) ==
  /\ Reapable
  /\ status' = "error" /\ beat' = "fresh"
  /\ Displace(AtWork, "overwritten")
  /\ Schedule(p)
  /\ UNCHANGED <<started, bootVars, jobVars, pc, cooldown, envVars, target, strayed>>

\* force_unlock_workers at boot, or Graphile's own four hours.
UnlockJob ==
  /\ job = "running" /\ jobRun = None
  /\ job' = IF jobAttempts < MaxAttempts THEN "ready" ELSE "failed"
  /\ UNCHANGED <<rowVars, bootVars, jobAttempts, jobRun, pc, procVars, envVars, histVars>>

CooldownEnds(p) ==
  /\ cooldown[p]
  /\ cooldown' = [cooldown EXCEPT ![p] = FALSE]
  /\ UNCHANGED <<rowVars, bootVars, jobVars, pc, retry, envVars, histVars>>

\* A process dies and is started again, with empty maps and no runs.
Crash(p) ==
  LET dead == {r \in Runs : ProcOf[r] = p} IN
  /\ crashes < MaxCrashes
  /\ crashes' = crashes + 1
  /\ pc' = [r \in Runs |-> IF r \in dead THEN "off" ELSE pc[r]]
  /\ cooldown' = [cooldown EXCEPT ![p] = FALSE]
  /\ retry' = [retry EXCEPT ![p] = FALSE]
  /\ jobRun' = IF jobRun \in dead THEN None ELSE jobRun
  /\ target' = target \ dead
  /\ excuse' = IF AtWork \subseteq dead THEN {} ELSE excuse
  /\ UNCHANGED <<rowVars, bootVars, job, jobAttempts, cpc, cancels, strayed>>

\* updated_at ages. A run at work writes every 15 seconds, unless its process
\* cannot ("deaf": an event loop or a database that stands still).
BeatAges ==
  /\ beat # "dead" /\ status # "absent"
  /\ AtWork # {} => "deaf" \in Faults
  /\ beat' = IF beat = "fresh" THEN "stale" ELSE "dead"
  /\ Displace(AtWork, "outlived")
  /\ UNCHANGED <<status, started, bootVars, jobVars, pc, procVars, envVars, target, strayed>>

\* syncClaimStaleMs pass: 3 minutes by default, and a sync may take longer ("slow").
StartAges ==
  /\ started = "fresh"
  /\ AtWork # {} => "slow" \in Faults
  /\ started' = "old"
  /\ Displace(AtWork, "outlived")
  /\ UNCHANGED <<status, beat, bootVars, jobVars, pc, procVars, envVars, target, strayed>>

-----------------------------------------------------------------------------
(* The steps a live process keeps taking. *)
Step(r) ==
  \/ ReadConnector(r) \/ CountMessages(r) \/ Wipe(r) \/ MarkBootstrapped(r)
  \/ EnsureState(r) \/ Park(r) \/ CheckBeforeClaim(r) \/ Claim(r)
  \/ NoticeCancel(r) \/ LastCheck(r) \/ Finish(r) \/ WorkFails(r) \/ RateLimited(r)
  \/ WriteCompleted(r) \/ WriteCancelled(r) \/ WriteLimited(r) \/ WriteFailed(r)

Enqueue(c) == PostSync(c) \/ AddJob(c) \/ LookBeforeWrite(c) \/ WriteQueued(c)

Next ==
  \/ \E r \in Runs :
       \/ StartCall(r) \/ StartRetry(r) \/ StartJob(r)
       \/ Step(r) \/ Heartbeat(r) \/ StoreMail(r) \/ RunAgain(r)
       \/ QueryFails(r) \/ WriteFails(r)
  \/ \E c \in Calls : Enqueue(c)
  \/ \E p \in Procs : Reap(p) \/ CooldownEnds(p) \/ Crash(p)
  \/ RequestSyncCancellation \/ UnlockJob \/ BeatAges \/ StartAges

Spec == Init /\ [][Next]_vars

\* Live processes run, timers fire (a timer needs no slot in the code), the
\* maintenance loop ticks every 30 seconds, and time passes.
FairSpec ==
  /\ Spec
  /\ \A r \in Runs : WF_vars(Step(r))
  /\ \A p \in Procs :
       /\ SF_vars(\E r \in Runs : ProcOf[r] = p /\ StartRetry(r))
       /\ WF_vars(Reap(p)) /\ WF_vars(CooldownEnds(p))
  /\ WF_vars(BeatAges)

-----------------------------------------------------------------------------
(* Properties. *)

\* tryClaimMailboxSync lets one run at a time work on a mailbox, whoever calls it,
\* unless the run outlived syncClaimStaleMs or went silent, or somebody else wrote
\* the status under it: a cancel, a route's 'queued', another run's last word.
OneRunner ==
  excuse \subseteq {"claim"} => \A r, s \in AtWork : r = s

\* A run at work when a cancel is requested does not get past its last check, unless
\* the request was overwritten first: by a second run's claim, which
\* 'cancel_requested' does not stop, or by one of the unfenced writes. An IMAP sync
\* only: runGmailMailboxSync has no such check.
CancelSeen ==
  [][\A r \in target :
       ~Gmail /\ pc[r] = "work" /\ pc'[r] = "finish" =>
         excuse \cap {"claim", "overwritten"} # {}]_vars

\* A mailbox that says 'queued' has a job, a timer or a run that will look at it,
\* unless a route or a parked run wrote that too late, a terminal write failed, the
\* connector went inactive or a process died with the timer: no reaper looks at
\* 'queued'.
QueuedHasWork ==
  status = "queued" /\ ~strayed /\ crashes = 0 => Follows(None)

\* No mailbox stays 'syncing' or 'cancel_requested': runs end with a status, and the
\* reaper ends those whose run, or whose cancel, has nobody to act on it. And a failed
\* sync is tried again without anybody asking, while processes live.
RowSettles ==
  /\ status \in {"syncing", "cancel_requested"} ~> status \notin {"syncing", "cancel_requested"}
  /\ status = "error" ~> (status # "error" \/ crashes > 0)

-----------------------------------------------------------------------------
(* What the claim amounts to for the runs. *)
Lock == INSTANCE MailboxLock WITH
  Looks <- ~Gmail, holders <- AtWork, past <- {r \in Runs : pc[r] = "finish"},
  rung <- target, broken <- excuse, sign <- HasActiveSyncClaim

\* The row is a lock: a run starts to work when no other is at work, unless the row was
\* overwritten or outlived; while it works nobody else is let in, and the claim others
\* look at comes down only by what "excuse" names; a cancel is heard by the runs at work;
\* a run that leaves, or dies, takes nothing from the others (tryClaimMailboxSync,
\* syncMailbox, requestSyncCancellation, reapStaleSyncStates).
ImplementsLock == Lock!Spec
=============================================================================
