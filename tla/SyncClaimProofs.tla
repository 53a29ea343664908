--------------------------- MODULE SyncClaimProofs ---------------------------
(***************************************************************************)
(* Proofs about SyncClaim: the type invariant, that the claim is a lock    *)
(* until something named in "excuse" breaks it, that a cancel is seen,     *)
(* that a queued mailbox has somebody to look at it, and that the row      *)
(* implements MailboxLock.                                                 *)
(***************************************************************************)
EXTENDS SyncClaim, TLAPS

\* The steps of runs, routes and the maintenance loop keep every variable's type,
\* and what the history variables stand for.
LEMMA TypeStep == TypeOK /\ [Next]_vars => TypeOK'
<1> SUFFICES ASSUME TypeOK, [Next]_vars PROVE TypeOK'
  OBVIOUS
<1> USE SyncAssumption DEF TypeOK, Statuses, RunPcs, CallPcs, Reasons, rowVars, bootVars, jobVars, procVars, envVars, histVars
<1>1. ASSUME NEW r \in Runs, StartCall(r) PROVE TypeOK'
  BY <1>1 DEF StartCall, Begin, AtWork
<1>2. ASSUME NEW r \in Runs, StartRetry(r) PROVE TypeOK'
  BY <1>2 DEF StartRetry, Begin, AtWork
<1>3. ASSUME NEW r \in Runs, StartJob(r) PROVE TypeOK'
  BY <1>3 DEF StartJob, Begin, AtWork
<1>4. ASSUME NEW r \in Runs, ReadConnector(r) PROVE TypeOK'
  <2>1. AtWork' = AtWork
    BY <1>4 DEF ReadConnector, Return, Goto, AtWork
  <2>2. target' \subseteq AtWork' /\ (AtWork' = {} => excuse' = {})
    BY <1>4, <2>1 DEF ReadConnector, Return, Goto
  <2>3. jobRun' # None => job' = "running" /\ pc'[jobRun'] # "off"
    BY <1>4 DEF ReadConnector, Return, Goto
  <2>4. pc' \in [Runs -> RunPcs] /\ strayed' \in BOOLEAN
    BY <1>4 DEF ReadConnector, Return, Goto
  <2>5. QED
    BY <1>4, <2>2, <2>3, <2>4 DEF ReadConnector, Return, Goto
<1>5. ASSUME NEW r \in Runs, CountMessages(r) PROVE TypeOK'
  BY <1>5 DEF CountMessages, Goto, AtWork
<1>6. ASSUME NEW r \in Runs, Wipe(r) PROVE TypeOK'
  BY <1>6 DEF Wipe, Displace, Goto, AtWork
<1>7. ASSUME NEW r \in Runs, MarkBootstrapped(r) PROVE TypeOK'
  BY <1>7 DEF MarkBootstrapped, Goto, AtWork
<1>8. ASSUME NEW r \in Runs, EnsureState(r) PROVE TypeOK'
  BY <1>8 DEF EnsureState, EnsureRow, Goto, AtWork
<1>9. ASSUME NEW r \in Runs, Park(r) PROVE TypeOK'
  BY <1>9 DEF Park, SetSyncState, Follows, Displace, Return, AtWork
<1>10. ASSUME NEW r \in Runs, CheckBeforeClaim(r) PROVE TypeOK'
  BY <1>10 DEF CheckBeforeClaim, Goto, AtWork
<1>11. ASSUME NEW r \in Runs, Claim(r) PROVE TypeOK'
  <2>1. AtWork' = AtWork \cup {s \in {r} : pc'[s] = "work"}
    BY <1>11 DEF Claim, Displace, Return, Claimable, AtWork
  <2>2. target' \subseteq AtWork' /\ (AtWork' = {} => excuse' = {})
    BY <1>11, <2>1 DEF Claim, Displace, Return, Claimable
  <2>3. jobRun' # None => job' = "running" /\ pc'[jobRun'] # "off"
    BY <1>11 DEF Claim, Displace, Return, Claimable
  <2>4. pc' \in [Runs -> RunPcs] /\ strayed' \in BOOLEAN
    BY <1>11 DEF Claim, Displace, Return, Claimable
  <2>5. QED
    BY <1>11, <2>2, <2>3, <2>4, ZenonT(60) DEF Claim, Displace, Return, Claimable
<1>12. ASSUME NEW r \in Runs, NoticeCancel(r) PROVE TypeOK'
  BY <1>12, ZenonT(60) DEF NoticeCancel, Leave, Others, AtWork
<1>13. ASSUME NEW r \in Runs, LastCheck(r) PROVE TypeOK'
  BY <1>13 DEF LastCheck, PastLastCheck, AtWork
<1>37. ASSUME NEW r \in Runs, RunAgain(r) PROVE TypeOK'
  BY <1>37 DEF RunAgain, AtWork
<1>14. ASSUME NEW r \in Runs, Finish(r) PROVE TypeOK'
  <2>1. AtWork' = AtWork \ {r}
    BY <1>14 DEF Finish, Leave, Others, AtWork
  <2>2. target' \subseteq AtWork' /\ (AtWork' = {} => excuse' = {})
    BY <1>14, <2>1 DEF Finish, Touch, Leave, Others
  <2>3. jobRun' # None => job' = "running" /\ pc'[jobRun'] # "off"
    BY <1>14 DEF Finish, Touch, Leave, Others
  <2>4. pc' \in [Runs -> RunPcs] /\ strayed' \in BOOLEAN
    BY <1>14 DEF Finish, Touch, Leave, Others
  <2>5. cooldown' \in [Procs -> BOOLEAN]
    BY <1>14, Zenon DEF Finish
  <2>6. beat' \in {"fresh", "stale", "dead"} /\ excuse' \subseteq Reasons
    BY <1>14 DEF Finish, Touch, Leave, Others
  <2>7. QED
    BY <1>14, <2>2, <2>3, <2>4, <2>5, <2>6 DEF Finish
<1>15. ASSUME NEW r \in Runs, WorkFails(r) PROVE TypeOK'
  <2>1. AtWork' = AtWork \ {r}
    BY <1>15 DEF WorkFails, Leave, Others, AtWork
  <2>2. target' \subseteq AtWork' /\ (AtWork' = {} => excuse' = {})
    BY <1>15, <2>1 DEF WorkFails, Leave, Others
  <2>3. jobRun' # None => job' = "running" /\ pc'[jobRun'] # "off"
    BY <1>15 DEF WorkFails, Leave, Others
  <2>4. pc' \in [Runs -> RunPcs] /\ strayed' \in BOOLEAN
    BY <1>15 DEF WorkFails, Leave, Others
  <2>5. excuse' \subseteq Reasons
    BY <1>15 DEF WorkFails, Leave
  <2>6. QED
    BY <1>15, <2>2, <2>3, <2>4, <2>5 DEF WorkFails, Leave
<1>16. ASSUME NEW r \in Runs, RateLimited(r) PROVE TypeOK'
  <2>1. AtWork' = AtWork \ {r}
    BY <1>16 DEF RateLimited, Leave, Others, AtWork
  <2>2. target' \subseteq AtWork' /\ (AtWork' = {} => excuse' = {})
    BY <1>16, <2>1 DEF RateLimited, Leave, Others
  <2>3. jobRun' # None => job' = "running" /\ pc'[jobRun'] # "off"
    BY <1>16 DEF RateLimited, Leave, Others
  <2>4. pc' \in [Runs -> RunPcs] /\ strayed' \in BOOLEAN
    BY <1>16 DEF RateLimited, Leave, Others
  <2>5. excuse' \subseteq Reasons
    BY <1>16 DEF RateLimited, Leave
  <2>6. QED
    BY <1>16, <2>2, <2>3, <2>4, <2>5 DEF RateLimited, Leave
<1>17. ASSUME NEW r \in Runs, WriteCompleted(r) PROVE TypeOK'
  BY <1>17 DEF WriteCompleted, SetSyncState, Displace, Return, AtWork
<1>18. ASSUME NEW r \in Runs, WriteCancelled(r) PROVE TypeOK'
  BY <1>18 DEF WriteCancelled, SetSyncState, Displace, Return, AtWork
<1>19. ASSUME NEW r \in Runs, WriteLimited(r) PROVE TypeOK'
  BY <1>19 DEF WriteLimited, SetSyncState, Displace, Return, Schedule, AtWork
<1>20. ASSUME NEW r \in Runs, WriteFailed(r) PROVE TypeOK'
  BY <1>20 DEF WriteFailed, SetSyncState, Displace, Throw, Schedule, AtWork
<1>21. ASSUME NEW r \in Runs, Heartbeat(r) PROVE TypeOK'
  BY <1>21 DEF Heartbeat, Touch, AtWork
<1>22. ASSUME NEW r \in Runs, StoreMail(r) PROVE TypeOK'
  BY <1>22 DEF StoreMail, AtWork
<1>23. ASSUME NEW r \in Runs, QueryFails(r) PROVE TypeOK'
  BY <1>23 DEF QueryFails, AtWork
<1>24. ASSUME NEW r \in Runs, WriteFails(r) PROVE TypeOK'
  <2>1. AtWork' = AtWork
    BY <1>24 DEF WriteFails, Throw, AtWork
  <2>2. target' \subseteq AtWork' /\ (AtWork' = {} => excuse' = {})
    BY <1>24, <2>1 DEF WriteFails, Throw
  <2>3. jobRun' # None => job' = "running" /\ pc'[jobRun'] # "off"
    BY <1>24 DEF WriteFails, Throw
  <2>4. pc' \in [Runs -> RunPcs] /\ strayed' \in BOOLEAN
    BY <1>24 DEF WriteFails, Throw
  <2>5. QED
    BY <1>24, <2>2, <2>3, <2>4 DEF WriteFails, Throw
<1>25. ASSUME NEW c \in Calls, PostSync(c) PROVE TypeOK'
  BY <1>25 DEF PostSync, EnsureRow, AtWork
<1>26. ASSUME NEW c \in Calls, AddJob(c) PROVE TypeOK'
  BY <1>26 DEF AddJob, HasActiveSyncClaim, AtWork
<1>27. ASSUME NEW c \in Calls, LookBeforeWrite(c) PROVE TypeOK'
  BY <1>27 DEF LookBeforeWrite, AtWork
<1>28. ASSUME NEW c \in Calls, WriteQueued(c) PROVE TypeOK'
  BY <1>28 DEF WriteQueued, SetSyncState, Follows, Displace, AtWork
<1>29. ASSUME NEW p \in Procs, Reap(p) PROVE TypeOK'
  BY <1>29 DEF Reap, Displace, Schedule, Reapable, AtWork
<1>30. ASSUME NEW p \in Procs, CooldownEnds(p) PROVE TypeOK'
  BY <1>30 DEF CooldownEnds, AtWork
<1>31. ASSUME NEW p \in Procs, Crash(p) PROVE TypeOK'
  <2>1. AtWork' = AtWork \ {r \in Runs : ProcOf[r] = p}
    BY <1>31 DEF Crash, AtWork
  <2>2. target' \subseteq AtWork' /\ (AtWork' = {} => excuse' = {})
    BY <1>31, <2>1 DEF Crash
  <2>3. jobRun' # None => job' = "running" /\ pc'[jobRun'] # "off"
    BY <1>31 DEF Crash
  <2>4. pc' \in [Runs -> RunPcs] /\ strayed' \in BOOLEAN
    BY <1>31 DEF Crash
  <2>5. excuse' \subseteq Reasons
    BY <1>31 DEF Crash
  <2>6. QED
    BY <1>31, <2>2, <2>3, <2>4, <2>5 DEF Crash
<1>32. ASSUME RequestSyncCancellation PROVE TypeOK'
  BY <1>32 DEF RequestSyncCancellation, Displace, AtWork
<1>33. ASSUME UnlockJob PROVE TypeOK'
  BY <1>33 DEF UnlockJob, AtWork
<1>34. ASSUME BeatAges PROVE TypeOK'
  BY <1>34 DEF BeatAges, Displace, AtWork
<1>35. ASSUME StartAges PROVE TypeOK'
  BY <1>35 DEF StartAges, Displace, AtWork
<1>36. ASSUME UNCHANGED vars PROVE TypeOK'
  BY <1>36 DEF vars, rowVars, bootVars, jobVars, procVars, envVars, histVars, AtWork
<1>38. QED
  BY <1>1, <1>2, <1>3, <1>4, <1>5, <1>6, <1>7, <1>8, <1>9, <1>10, <1>11, <1>12, <1>13, <1>14,
     <1>15, <1>16, <1>17, <1>18, <1>19, <1>20, <1>21, <1>22, <1>23, <1>24, <1>25, <1>26, <1>27,
     <1>28, <1>29, <1>30, <1>31, <1>32, <1>33, <1>34, <1>35, <1>36, <1>37 DEF Next, Step,
     Enqueue

\* The state of the row, the job, the runs and the timers keeps its type
\* (sync_states, Graphile's job, syncIncomingConnector, the maps of a process).
THEOREM TypeCorrect == Spec => []TypeOK
<1>1. Init => TypeOK
  <2> SUFFICES ASSUME Init PROVE TypeOK
    OBVIOUS
  <2>1. bootstrapped \in BOOLEAN /\ mail \in BOOLEAN /\ strayed \in BOOLEAN
    BY SyncAssumption, Zenon DEF Init
  <2>2. AtWork = {}
    BY DEF Init, AtWork
  <2>3. jobAttempts \in 0..MaxAttempts /\ cancels \in 0..MaxCancels /\ crashes \in 0..MaxCrashes
    BY SyncAssumption DEF Init
  <2>4. QED
    BY <2>1, <2>2, <2>3 DEF Init, TypeOK, Statuses, RunPcs, CallPcs, Reasons
<1>2. QED
  BY <1>1, TypeStep, PTL DEF Spec

\* What the claim means while nothing has happened to it: the row says so, and one
\* run is at work. A second run's claim cannot be the first thing to happen.
ClaimInv ==
  excuse \subseteq {"claim"} /\ AtWork # {} =>
    /\ status = "syncing" /\ started = "fresh" /\ beat = "fresh"
    /\ \A r, s \in AtWork : r = s

\* Every step keeps what the claim means.
LEMMA ClaimStep == TypeOK /\ TypeOK' /\ ClaimInv /\ [Next]_vars => ClaimInv'
<1> SUFFICES ASSUME TypeOK, TypeOK', ClaimInv, [Next]_vars PROVE ClaimInv'
  OBVIOUS
<1> USE SyncAssumption DEF TypeOK, ClaimInv, Reasons, rowVars, bootVars, jobVars, procVars, envVars, histVars
<1>1. ASSUME NEW r \in Runs, StartCall(r) PROVE ClaimInv'
  <2>1. AtWork' = AtWork
    BY <1>1 DEF StartCall, Begin, AtWork
  <2>2. QED
    BY <1>1, <2>1 DEF StartCall, Begin
<1>2. ASSUME NEW r \in Runs, StartRetry(r) PROVE ClaimInv'
  <2>1. AtWork' = AtWork
    BY <1>2 DEF StartRetry, Begin, AtWork
  <2>2. QED
    BY <1>2, <2>1 DEF StartRetry, Begin
<1>3. ASSUME NEW r \in Runs, StartJob(r) PROVE ClaimInv'
  <2>1. AtWork' = AtWork
    BY <1>3 DEF StartJob, Begin, AtWork
  <2>2. QED
    BY <1>3, <2>1 DEF StartJob, Begin
<1>4. ASSUME NEW r \in Runs, ReadConnector(r) PROVE ClaimInv'
  <2>1. AtWork' = AtWork
    BY <1>4 DEF ReadConnector, Return, Goto, AtWork
  <2>2. QED
    BY <1>4, <2>1 DEF ReadConnector, Return, Goto
<1>5. ASSUME NEW r \in Runs, CountMessages(r) PROVE ClaimInv'
  <2>1. AtWork' = AtWork
    BY <1>5 DEF CountMessages, Goto, AtWork
  <2>2. QED
    BY <1>5, <2>1 DEF CountMessages, Goto
<1>6. ASSUME NEW r \in Runs, Wipe(r) PROVE ClaimInv'
  <2>1. AtWork' = AtWork
    BY <1>6 DEF Wipe, Goto, AtWork
  <2>2. QED
    BY <1>6, <2>1 DEF Wipe, Displace, Goto
<1>7. ASSUME NEW r \in Runs, MarkBootstrapped(r) PROVE ClaimInv'
  <2>1. AtWork' = AtWork
    BY <1>7 DEF MarkBootstrapped, Goto, AtWork
  <2>2. QED
    BY <1>7, <2>1 DEF MarkBootstrapped, Goto
<1>8. ASSUME NEW r \in Runs, EnsureState(r) PROVE ClaimInv'
  <2>1. AtWork' = AtWork
    BY <1>8 DEF EnsureState, Goto, AtWork
  <2>2. QED
    BY <1>8, <2>1 DEF EnsureState, EnsureRow, Goto
<1>9. ASSUME NEW r \in Runs, Park(r) PROVE ClaimInv'
  <2>1. AtWork' = AtWork
    BY <1>9 DEF Park, Return, AtWork
  <2>2. QED
    BY <1>9, <2>1 DEF Park, SetSyncState, Displace, Return
<1>10. ASSUME NEW r \in Runs, CheckBeforeClaim(r) PROVE ClaimInv'
  <2>1. AtWork' = AtWork
    BY <1>10 DEF CheckBeforeClaim, Goto, AtWork
  <2>2. QED
    BY <1>10, <2>1 DEF CheckBeforeClaim, Goto
<1>11. ASSUME NEW r \in Runs, Claim(r) PROVE ClaimInv'
  <2>1. AtWork' = AtWork \cup {s \in {r} : pc'[s] = "work"}
    BY <1>11 DEF Claim, Return, Claimable, AtWork
  <2>2. QED
    BY <1>11, <2>1 DEF Claim, Displace, Return, Claimable
<1>12. ASSUME NEW r \in Runs, NoticeCancel(r) PROVE ClaimInv'
  <2>1. AtWork' = AtWork \ {r}
    BY <1>12 DEF NoticeCancel, Leave, Others, AtWork
  <2>2. QED
    BY <1>12, <2>1 DEF NoticeCancel, Leave, Others
<1>13. ASSUME NEW r \in Runs, LastCheck(r) PROVE ClaimInv'
  <2>1. AtWork' = AtWork
    BY <1>13 DEF LastCheck, PastLastCheck, AtWork
  <2>2. QED
    BY <1>13, <2>1 DEF LastCheck, PastLastCheck
<1>37. ASSUME NEW r \in Runs, RunAgain(r) PROVE ClaimInv'
  <2>1. AtWork' = AtWork
    BY <1>37 DEF RunAgain, AtWork
  <2>2. QED
    BY <1>37, <2>1 DEF RunAgain
<1>14. ASSUME NEW r \in Runs, Finish(r) PROVE ClaimInv'
  <2>1. AtWork' = AtWork \ {r}
    BY <1>14 DEF Finish, Leave, Others, AtWork
  <2>2. QED
    BY <1>14, <2>1 DEF Finish, Touch, Leave, Others
<1>15. ASSUME NEW r \in Runs, WorkFails(r) PROVE ClaimInv'
  <2>1. AtWork' = AtWork \ {r}
    BY <1>15 DEF WorkFails, Leave, Others, AtWork
  <2>2. QED
    BY <1>15, <2>1 DEF WorkFails, Leave, Others
<1>16. ASSUME NEW r \in Runs, RateLimited(r) PROVE ClaimInv'
  <2>1. AtWork' = AtWork \ {r}
    BY <1>16 DEF RateLimited, Leave, Others, AtWork
  <2>2. QED
    BY <1>16, <2>1 DEF RateLimited, Leave, Others
<1>17. ASSUME NEW r \in Runs, WriteCompleted(r) PROVE ClaimInv'
  <2>1. AtWork' = AtWork
    BY <1>17 DEF WriteCompleted, Return, AtWork
  <2>2. QED
    BY <1>17, <2>1 DEF WriteCompleted, SetSyncState, Displace, Return
<1>18. ASSUME NEW r \in Runs, WriteCancelled(r) PROVE ClaimInv'
  <2>1. AtWork' = AtWork
    BY <1>18 DEF WriteCancelled, Return, AtWork
  <2>2. QED
    BY <1>18, <2>1 DEF WriteCancelled, SetSyncState, Displace, Return
<1>19. ASSUME NEW r \in Runs, WriteLimited(r) PROVE ClaimInv'
  <2>1. AtWork' = AtWork
    BY <1>19 DEF WriteLimited, Return, AtWork
  <2>2. QED
    BY <1>19, <2>1 DEF WriteLimited, SetSyncState, Displace, Return, Schedule
<1>20. ASSUME NEW r \in Runs, WriteFailed(r) PROVE ClaimInv'
  <2>1. AtWork' = AtWork
    BY <1>20 DEF WriteFailed, Throw, AtWork
  <2>2. QED
    BY <1>20, <2>1 DEF WriteFailed, SetSyncState, Displace, Throw, Schedule
<1>21. ASSUME NEW r \in Runs, Heartbeat(r) PROVE ClaimInv'
  <2>1. AtWork' = AtWork
    BY <1>21 DEF Heartbeat, AtWork
  <2>2. QED
    BY <1>21, <2>1 DEF Heartbeat, Touch
<1>22. ASSUME NEW r \in Runs, StoreMail(r) PROVE ClaimInv'
  <2>1. AtWork' = AtWork
    BY <1>22 DEF StoreMail, AtWork
  <2>2. QED
    BY <1>22, <2>1 DEF StoreMail
<1>23. ASSUME NEW r \in Runs, QueryFails(r) PROVE ClaimInv'
  <2>1. AtWork' = AtWork
    BY <1>23 DEF QueryFails, AtWork
  <2>2. QED
    BY <1>23, <2>1 DEF QueryFails
<1>24. ASSUME NEW r \in Runs, WriteFails(r) PROVE ClaimInv'
  <2>1. AtWork' = AtWork
    BY <1>24 DEF WriteFails, Throw, AtWork
  <2>2. QED
    BY <1>24, <2>1 DEF WriteFails, Throw
<1>25. ASSUME NEW c \in Calls, PostSync(c) PROVE ClaimInv'
  <2>1. AtWork' = AtWork
    BY <1>25 DEF PostSync, AtWork
  <2>2. QED
    BY <1>25, <2>1 DEF PostSync, EnsureRow
<1>26. ASSUME NEW c \in Calls, AddJob(c) PROVE ClaimInv'
  <2>1. AtWork' = AtWork
    BY <1>26 DEF AddJob, AtWork
  <2>2. QED
    BY <1>26, <2>1 DEF AddJob
<1>27. ASSUME NEW c \in Calls, LookBeforeWrite(c) PROVE ClaimInv'
  <2>1. AtWork' = AtWork
    BY <1>27 DEF LookBeforeWrite, AtWork
  <2>2. QED
    BY <1>27, <2>1 DEF LookBeforeWrite
<1>28. ASSUME NEW c \in Calls, WriteQueued(c) PROVE ClaimInv'
  <2>1. AtWork' = AtWork
    BY <1>28 DEF WriteQueued, AtWork
  <2>2. QED
    BY <1>28, <2>1 DEF WriteQueued, SetSyncState, Displace
<1>29. ASSUME NEW p \in Procs, Reap(p) PROVE ClaimInv'
  <2>1. AtWork' = AtWork
    BY <1>29 DEF Reap, AtWork
  <2>2. QED
    BY <1>29, <2>1 DEF Reap, Displace, Schedule, Reapable
<1>30. ASSUME NEW p \in Procs, CooldownEnds(p) PROVE ClaimInv'
  <2>1. AtWork' = AtWork
    BY <1>30 DEF CooldownEnds, AtWork
  <2>2. QED
    BY <1>30, <2>1 DEF CooldownEnds
<1>31. ASSUME NEW p \in Procs, Crash(p) PROVE ClaimInv'
  <2>1. AtWork' = AtWork \ {r \in Runs : ProcOf[r] = p}
    BY <1>31 DEF Crash, AtWork
  <2>2. QED
    BY <1>31, <2>1 DEF Crash
<1>32. ASSUME RequestSyncCancellation PROVE ClaimInv'
  <2>1. AtWork' = AtWork
    BY <1>32 DEF RequestSyncCancellation, AtWork
  <2>2. QED
    BY <1>32, <2>1 DEF RequestSyncCancellation, Displace
<1>33. ASSUME UnlockJob PROVE ClaimInv'
  <2>1. AtWork' = AtWork
    BY <1>33 DEF UnlockJob, AtWork
  <2>2. QED
    BY <1>33, <2>1 DEF UnlockJob
<1>34. ASSUME BeatAges PROVE ClaimInv'
  <2>1. AtWork' = AtWork
    BY <1>34 DEF BeatAges, AtWork
  <2>2. QED
    BY <1>34, <2>1 DEF BeatAges, Displace
<1>35. ASSUME StartAges PROVE ClaimInv'
  <2>1. AtWork' = AtWork
    BY <1>35 DEF StartAges, AtWork
  <2>2. QED
    BY <1>35, <2>1 DEF StartAges, Displace
<1>36. ASSUME UNCHANGED vars PROVE ClaimInv'
  BY <1>36 DEF vars, AtWork
<1>38. QED
  BY <1>1, <1>2, <1>3, <1>4, <1>5, <1>6, <1>7, <1>8, <1>9, <1>10, <1>11, <1>12, <1>13, <1>14,
     <1>15, <1>16, <1>17, <1>18, <1>19, <1>20, <1>21, <1>22, <1>23, <1>24, <1>25, <1>26, <1>27,
     <1>28, <1>29, <1>30, <1>31, <1>32, <1>33, <1>34, <1>35, <1>36, <1>37 DEF Next, Step,
     Enqueue

\* tryClaimMailboxSync is a lock on the mailbox for any number of runs, processes
\* and routes, until a cancel, an unfenced write or the clock breaks it.
THEOREM OneRunAtATime == Spec => []OneRunner
<1>1. Init => ClaimInv
  BY DEF Init, ClaimInv, AtWork
<1>2. ClaimInv => OneRunner
  BY DEF ClaimInv, OneRunner
<1>3. QED
  BY <1>1, <1>2, ClaimStep, TypeCorrect, PTL DEF Spec

\* A cancel that nothing overwrote is still in the row while the runs it was meant
\* for are at work.
CancelInv ==
  target # {} /\ excuse \cap {"claim", "overwritten"} = {} => status = "cancel_requested"

\* Every step keeps a standing cancel in the row.
LEMMA CancelStep == TypeOK /\ TypeOK' /\ CancelInv /\ [Next]_vars => CancelInv'
<1> SUFFICES ASSUME TypeOK, TypeOK', CancelInv, [Next]_vars PROVE CancelInv'
  OBVIOUS
<1> USE SyncAssumption DEF TypeOK, CancelInv, Reasons, rowVars, bootVars, jobVars, procVars, envVars, histVars
<1>1. ASSUME NEW r \in Runs, StartCall(r) PROVE CancelInv'
  <2>1. AtWork' = AtWork
    BY <1>1 DEF StartCall, Begin, AtWork
  <2>2. QED
    BY <1>1, <2>1 DEF StartCall, Begin
<1>2. ASSUME NEW r \in Runs, StartRetry(r) PROVE CancelInv'
  <2>1. AtWork' = AtWork
    BY <1>2 DEF StartRetry, Begin, AtWork
  <2>2. QED
    BY <1>2, <2>1 DEF StartRetry, Begin
<1>3. ASSUME NEW r \in Runs, StartJob(r) PROVE CancelInv'
  <2>1. AtWork' = AtWork
    BY <1>3 DEF StartJob, Begin, AtWork
  <2>2. QED
    BY <1>3, <2>1 DEF StartJob, Begin
<1>4. ASSUME NEW r \in Runs, ReadConnector(r) PROVE CancelInv'
  <2>1. AtWork' = AtWork
    BY <1>4 DEF ReadConnector, Return, Goto, AtWork
  <2>2. QED
    BY <1>4, <2>1 DEF ReadConnector, Return, Goto
<1>5. ASSUME NEW r \in Runs, CountMessages(r) PROVE CancelInv'
  <2>1. AtWork' = AtWork
    BY <1>5 DEF CountMessages, Goto, AtWork
  <2>2. QED
    BY <1>5, <2>1 DEF CountMessages, Goto
<1>6. ASSUME NEW r \in Runs, Wipe(r) PROVE CancelInv'
  <2>1. AtWork' = AtWork
    BY <1>6 DEF Wipe, Goto, AtWork
  <2>2. QED
    BY <1>6, <2>1 DEF Wipe, Displace, Goto
<1>7. ASSUME NEW r \in Runs, MarkBootstrapped(r) PROVE CancelInv'
  <2>1. AtWork' = AtWork
    BY <1>7 DEF MarkBootstrapped, Goto, AtWork
  <2>2. QED
    BY <1>7, <2>1 DEF MarkBootstrapped, Goto
<1>8. ASSUME NEW r \in Runs, EnsureState(r) PROVE CancelInv'
  <2>1. AtWork' = AtWork
    BY <1>8 DEF EnsureState, Goto, AtWork
  <2>2. QED
    BY <1>8, <2>1 DEF EnsureState, EnsureRow, Goto
<1>9. ASSUME NEW r \in Runs, Park(r) PROVE CancelInv'
  <2>1. AtWork' = AtWork
    BY <1>9 DEF Park, Return, AtWork
  <2>2. QED
    BY <1>9, <2>1 DEF Park, SetSyncState, Displace, Return
<1>10. ASSUME NEW r \in Runs, CheckBeforeClaim(r) PROVE CancelInv'
  <2>1. AtWork' = AtWork
    BY <1>10 DEF CheckBeforeClaim, Goto, AtWork
  <2>2. QED
    BY <1>10, <2>1 DEF CheckBeforeClaim, Goto
<1>11. ASSUME NEW r \in Runs, Claim(r) PROVE CancelInv'
  <2>1. AtWork' = AtWork \cup {s \in {r} : pc'[s] = "work"}
    BY <1>11 DEF Claim, Return, Claimable, AtWork
  <2>2. QED
    BY <1>11, <2>1 DEF Claim, Displace, Return, Claimable
<1>12. ASSUME NEW r \in Runs, NoticeCancel(r) PROVE CancelInv'
  <2>1. AtWork' = AtWork \ {r}
    BY <1>12 DEF NoticeCancel, Leave, Others, AtWork
  <2>2. QED
    BY <1>12, <2>1 DEF NoticeCancel, Leave, Others
<1>13. ASSUME NEW r \in Runs, LastCheck(r) PROVE CancelInv'
  <2>1. AtWork' = AtWork
    BY <1>13 DEF LastCheck, PastLastCheck, AtWork
  <2>2. QED
    BY <1>13, <2>1 DEF LastCheck, PastLastCheck
<1>37. ASSUME NEW r \in Runs, RunAgain(r) PROVE CancelInv'
  <2>1. AtWork' = AtWork
    BY <1>37 DEF RunAgain, AtWork
  <2>2. QED
    BY <1>37, <2>1 DEF RunAgain
<1>14. ASSUME NEW r \in Runs, Finish(r) PROVE CancelInv'
  <2>1. AtWork' = AtWork \ {r}
    BY <1>14 DEF Finish, Leave, Others, AtWork
  <2>2. QED
    BY <1>14, <2>1 DEF Finish, Touch, Leave, Others
<1>15. ASSUME NEW r \in Runs, WorkFails(r) PROVE CancelInv'
  <2>1. AtWork' = AtWork \ {r}
    BY <1>15 DEF WorkFails, Leave, Others, AtWork
  <2>2. QED
    BY <1>15, <2>1 DEF WorkFails, Leave, Others
<1>16. ASSUME NEW r \in Runs, RateLimited(r) PROVE CancelInv'
  <2>1. AtWork' = AtWork \ {r}
    BY <1>16 DEF RateLimited, Leave, Others, AtWork
  <2>2. QED
    BY <1>16, <2>1 DEF RateLimited, Leave, Others
<1>17. ASSUME NEW r \in Runs, WriteCompleted(r) PROVE CancelInv'
  <2>1. AtWork' = AtWork
    BY <1>17 DEF WriteCompleted, Return, AtWork
  <2>2. QED
    BY <1>17, <2>1 DEF WriteCompleted, SetSyncState, Displace, Return
<1>18. ASSUME NEW r \in Runs, WriteCancelled(r) PROVE CancelInv'
  <2>1. AtWork' = AtWork
    BY <1>18 DEF WriteCancelled, Return, AtWork
  <2>2. QED
    BY <1>18, <2>1 DEF WriteCancelled, SetSyncState, Displace, Return
<1>19. ASSUME NEW r \in Runs, WriteLimited(r) PROVE CancelInv'
  <2>1. AtWork' = AtWork
    BY <1>19 DEF WriteLimited, Return, AtWork
  <2>2. QED
    BY <1>19, <2>1 DEF WriteLimited, SetSyncState, Displace, Return, Schedule
<1>20. ASSUME NEW r \in Runs, WriteFailed(r) PROVE CancelInv'
  <2>1. AtWork' = AtWork
    BY <1>20 DEF WriteFailed, Throw, AtWork
  <2>2. QED
    BY <1>20, <2>1 DEF WriteFailed, SetSyncState, Displace, Throw, Schedule
<1>21. ASSUME NEW r \in Runs, Heartbeat(r) PROVE CancelInv'
  <2>1. AtWork' = AtWork
    BY <1>21 DEF Heartbeat, AtWork
  <2>2. QED
    BY <1>21, <2>1 DEF Heartbeat, Touch
<1>22. ASSUME NEW r \in Runs, StoreMail(r) PROVE CancelInv'
  <2>1. AtWork' = AtWork
    BY <1>22 DEF StoreMail, AtWork
  <2>2. QED
    BY <1>22, <2>1 DEF StoreMail
<1>23. ASSUME NEW r \in Runs, QueryFails(r) PROVE CancelInv'
  <2>1. AtWork' = AtWork
    BY <1>23 DEF QueryFails, AtWork
  <2>2. QED
    BY <1>23, <2>1 DEF QueryFails
<1>24. ASSUME NEW r \in Runs, WriteFails(r) PROVE CancelInv'
  <2>1. AtWork' = AtWork
    BY <1>24 DEF WriteFails, Throw, AtWork
  <2>2. QED
    BY <1>24, <2>1 DEF WriteFails, Throw
<1>25. ASSUME NEW c \in Calls, PostSync(c) PROVE CancelInv'
  <2>1. AtWork' = AtWork
    BY <1>25 DEF PostSync, AtWork
  <2>2. QED
    BY <1>25, <2>1 DEF PostSync, EnsureRow
<1>26. ASSUME NEW c \in Calls, AddJob(c) PROVE CancelInv'
  <2>1. AtWork' = AtWork
    BY <1>26 DEF AddJob, AtWork
  <2>2. QED
    BY <1>26, <2>1 DEF AddJob
<1>27. ASSUME NEW c \in Calls, LookBeforeWrite(c) PROVE CancelInv'
  <2>1. AtWork' = AtWork
    BY <1>27 DEF LookBeforeWrite, AtWork
  <2>2. QED
    BY <1>27, <2>1 DEF LookBeforeWrite
<1>28. ASSUME NEW c \in Calls, WriteQueued(c) PROVE CancelInv'
  <2>1. AtWork' = AtWork
    BY <1>28 DEF WriteQueued, AtWork
  <2>2. QED
    BY <1>28, <2>1 DEF WriteQueued, SetSyncState, Displace
<1>29. ASSUME NEW p \in Procs, Reap(p) PROVE CancelInv'
  <2>1. AtWork' = AtWork
    BY <1>29 DEF Reap, AtWork
  <2>2. QED
    BY <1>29, <2>1 DEF Reap, Displace, Schedule, Reapable
<1>30. ASSUME NEW p \in Procs, CooldownEnds(p) PROVE CancelInv'
  <2>1. AtWork' = AtWork
    BY <1>30 DEF CooldownEnds, AtWork
  <2>2. QED
    BY <1>30, <2>1 DEF CooldownEnds
<1>31. ASSUME NEW p \in Procs, Crash(p) PROVE CancelInv'
  <2>1. AtWork' = AtWork \ {r \in Runs : ProcOf[r] = p}
    BY <1>31 DEF Crash, AtWork
  <2>2. QED
    BY <1>31, <2>1 DEF Crash
<1>32. ASSUME RequestSyncCancellation PROVE CancelInv'
  <2>1. AtWork' = AtWork
    BY <1>32 DEF RequestSyncCancellation, AtWork
  <2>2. QED
    BY <1>32, <2>1 DEF RequestSyncCancellation, Displace
<1>33. ASSUME UnlockJob PROVE CancelInv'
  <2>1. AtWork' = AtWork
    BY <1>33 DEF UnlockJob, AtWork
  <2>2. QED
    BY <1>33, <2>1 DEF UnlockJob
<1>34. ASSUME BeatAges PROVE CancelInv'
  <2>1. AtWork' = AtWork
    BY <1>34 DEF BeatAges, AtWork
  <2>2. QED
    BY <1>34, <2>1 DEF BeatAges, Displace
<1>35. ASSUME StartAges PROVE CancelInv'
  <2>1. AtWork' = AtWork
    BY <1>35 DEF StartAges, AtWork
  <2>2. QED
    BY <1>35, <2>1 DEF StartAges, Displace
<1>36. ASSUME UNCHANGED vars PROVE CancelInv'
  BY <1>36 DEF vars, AtWork
<1>38. QED
  BY <1>1, <1>2, <1>3, <1>4, <1>5, <1>6, <1>7, <1>8, <1>9, <1>10, <1>11, <1>12, <1>13, <1>14,
     <1>15, <1>16, <1>17, <1>18, <1>19, <1>20, <1>21, <1>22, <1>23, <1>24, <1>25, <1>26, <1>27,
     <1>28, <1>29, <1>30, <1>31, <1>32, <1>33, <1>34, <1>35, <1>36, <1>37 DEF Next, Step,
     Enqueue

\* requestSyncCancellation is noticed by the last forced check of every IMAP run it
\* was meant for, unless a claim or an unfenced write removed it from the row.
THEOREM CancelIsSeen == Spec => CancelSeen
<1>1. Init => CancelInv
  BY DEF Init, CancelInv
<1>2. TypeOK /\ CancelInv /\ [Next]_vars =>
        [\A r \in target :
           ~Gmail /\ pc[r] = "work" /\ pc'[r] = "finish" =>
             excuse \cap {"claim", "overwritten"} # {}]_vars
  <2>1. SUFFICES ASSUME TypeOK, CancelInv, Next, NEW r \in target,
                        ~Gmail, pc[r] = "work", pc'[r] = "finish"
                 PROVE  excuse \cap {"claim", "overwritten"} # {}
    OBVIOUS
  <2>2. r \in Runs /\ r \in AtWork /\ pc \in [Runs -> RunPcs]
    BY <2>1 DEF TypeOK, AtWork
  <2>3. CASE \E s \in Runs : LastCheck(s)
    <3>1. PICK s \in Runs : LastCheck(s)
      BY <2>3
    <3>2. s = r
      BY <2>1, <2>2, <3>1 DEF LastCheck
    <3>3. status # "cancel_requested"
      BY <2>1, <3>1, <3>2 DEF LastCheck, PastLastCheck
    <3>4. QED
      BY <2>1, <3>3 DEF CancelInv
  <2>4. ASSUME NEW s \in Runs,
               StartCall(s) \/ StartRetry(s) \/ StartJob(s)
                 \/ Heartbeat(s) \/ StoreMail(s) \/ RunAgain(s)
                 \/ QueryFails(s) \/ WriteFails(s)
        PROVE  FALSE
    <3>1. pc' = pc \/ \E x \in {"start", "work", "failed", "off"} : pc' = [pc EXCEPT ![s] = x]
      BY <2>4 DEF StartCall, StartRetry, StartJob, Begin, Heartbeat, StoreMail, RunAgain, QueryFails,
                  WriteFails, Throw
    <3>2. QED
      BY <2>1, <2>2, <3>1
  <2>5. ASSUME NEW s \in Runs, Step(s), ~LastCheck(s)
        PROVE  FALSE
    <3>1. pc' = pc \/ \E x \in RunPcs \ {"finish"} : pc' = [pc EXCEPT ![s] = x]
      <4>1. CASE ReadConnector(s)
        BY <4>1 DEF ReadConnector, Goto, Return, RunPcs
      <4>2. CASE CountMessages(s) \/ Wipe(s) \/ MarkBootstrapped(s) \/ EnsureState(s)
        BY <4>2 DEF CountMessages, Wipe, MarkBootstrapped, EnsureState, Goto, RunPcs
      <4>3. CASE Park(s) \/ CheckBeforeClaim(s) \/ Claim(s)
        BY <4>3 DEF Park, CheckBeforeClaim, Claim, Goto, Return, RunPcs
      <4>4. CASE NoticeCancel(s) \/ Finish(s) \/ WorkFails(s) \/ RateLimited(s)
        BY <4>4 DEF NoticeCancel, Finish, WorkFails, RateLimited, Leave, RunPcs
      <4>5. CASE WriteCompleted(s) \/ WriteCancelled(s) \/ WriteLimited(s) \/ WriteFailed(s)
        BY <4>5 DEF WriteCompleted, WriteCancelled, WriteLimited, WriteFailed, Return, Throw, RunPcs
      <4>6. QED
        BY <2>5, <4>1, <4>2, <4>3, <4>4, <4>5 DEF Step
    <3>2. QED
      BY <2>1, <2>2, <3>1
  <2>6. ASSUME NEW c \in Calls, Enqueue(c) PROVE FALSE
    BY <2>1, <2>6 DEF Enqueue, PostSync, AddJob, LookBeforeWrite, WriteQueued
  <2>7. ASSUME NEW p \in Procs, Reap(p) \/ CooldownEnds(p) \/ Crash(p) PROVE FALSE
    <3>1. pc'[r] \in {pc[r], "off"}
      BY <2>2, <2>7 DEF Reap, CooldownEnds, Crash
    <3>2. QED
      BY <2>1, <3>1
  <2>8. ASSUME RequestSyncCancellation \/ UnlockJob \/ BeatAges \/ StartAges PROVE FALSE
    BY <2>1, <2>8 DEF RequestSyncCancellation, UnlockJob, BeatAges, StartAges
  <2>9. QED
    BY <2>1, <2>3, <2>4, <2>5, <2>6, <2>7, <2>8 DEF Next
<1>3. QED
  BY <1>1, <1>2, CancelStep, TypeCorrect, PTL DEF Spec, CancelSeen
-----------------------------------------------------------------------------
(* A queued mailbox has somebody to look at it. *)

\* A job that is running is run by somebody, as long as no process has died.
QueueInv ==
  /\ QueuedHasWork
  /\ crashes = 0 /\ job = "running" => jobRun # None

\* What looks at the mailbox besides r, in the terms of QueuedHasWork.
LEMMA OthersFollow ==
  ASSUME TypeOK, NEW r \in Runs, Follows(r)
  PROVE  \/ job = "ready" \/ (job = "running" /\ jobRun # r)
         \/ (\E p \in Procs : retry[p]) \/ (\E s \in Runs : s # r /\ pc[s] # "off")
BY DEF Follows

\* A run that returns takes away its job and itself, nothing else.
LEMMA ReturnLeaves ==
  ASSUME TypeOK, QueueInv, NEW r \in Runs, Return(r), UNCHANGED <<procVars, crashes>>,
         status' = "queued" /\ ~strayed' => Follows(r)
  PROVE  QueueInv'
<1>1. crashes' = 0 /\ job' = "running" => jobRun' # None
  BY DEF QueueInv, Return
<1>2. ASSUME status' = "queued", ~strayed', crashes' = 0 PROVE Follows(None)'
  <2>1. CASE job = "ready" \/ (job = "running" /\ jobRun # r)
    <3>1. crashes = 0
      BY <1>2
    <3>2. jobRun # r /\ (job = "running" => jobRun # None)
      BY <2>1, <3>1, SyncAssumption DEF TypeOK, QueueInv
    <3>3. job' = job /\ jobRun' = jobRun
      BY <3>2 DEF Return
    <3>4. QED
      BY <2>1, <3>2, <3>3 DEF Follows
  <2>2. CASE \E p \in Procs : retry[p]
    BY <2>2 DEF procVars, Follows
  <2>3. CASE \E s \in Runs : s # r /\ pc[s] # "off"
    BY <2>3, SyncAssumption DEF Return, Follows, TypeOK
  <2>4. QED
    BY <1>2, <2>1, <2>2, <2>3, OthersFollow
<1>3. QED
  BY <1>1, <1>2 DEF QueueInv, QueuedHasWork

\* A step that takes away nothing that looks, and says nothing.
LEMMA StillFollowed ==
  ASSUME TypeOK, QueueInv, UNCHANGED <<job, jobRun, crashes>>,
         \A p \in Procs : retry[p] => retry'[p],
         \A s \in Runs : pc[s] # "off" => pc'[s] # "off",
         status' = "queued" /\ ~strayed' => (status = "queued" /\ ~strayed) \/ Follows(None)
  PROVE  QueueInv'
BY DEF QueueInv, QueuedHasWork, Follows

LEMMA QueueStep == TypeOK /\ TypeOK' /\ QueueInv /\ [Next]_vars => QueueInv'
<1> SUFFICES ASSUME TypeOK, TypeOK', QueueInv, [Next]_vars PROVE QueueInv'
  OBVIOUS
<1> USE SyncAssumption
\* Runs begin.
<1>1. ASSUME NEW r \in Runs, StartCall(r) \/ StartRetry(r) \/ StartJob(r) PROVE QueueInv'
  <2>1. pc'[r] = "start" /\ crashes' = crashes
    BY <1>1 DEF StartCall, StartRetry, StartJob, Begin, envVars, TypeOK
  <2>2. Follows(None)'
    BY <2>1 DEF Follows
  <2>3. job' = "running" => jobRun' # None \/ (job' = job /\ jobRun' = jobRun)
    BY <1>1 DEF StartCall, StartRetry, StartJob, jobVars
  <2>4. QED
    BY <2>1, <2>2, <2>3 DEF QueueInv, QueuedHasWork
\* Runs go on.
<1>2. ASSUME NEW r \in Runs,
             \/ CountMessages(r) \/ MarkBootstrapped(r) \/ CheckBeforeClaim(r) \/ QueryFails(r)
             \/ Heartbeat(r) \/ StoreMail(r) \/ NoticeCancel(r) \/ LastCheck(r) \/ RunAgain(r)
             \/ Finish(r) \/ WorkFails(r) \/ RateLimited(r) \/ Wipe(r) \/ EnsureState(r)
      PROVE  QueueInv'
  <2>1. UNCHANGED jobVars /\ retry' = retry /\ crashes' = crashes /\ strayed' = strayed
    BY <1>2 DEF CountMessages, MarkBootstrapped, CheckBeforeClaim, QueryFails, Heartbeat, StoreMail, NoticeCancel,
         LastCheck, RunAgain, Finish, WorkFails, RateLimited, Wipe, EnsureState, procVars, envVars, histVars
  <2>2. status' = "queued" => status = "queued"
    BY <1>2 DEF CountMessages, MarkBootstrapped, CheckBeforeClaim, QueryFails, Heartbeat, StoreMail, NoticeCancel,
         LastCheck, RunAgain, Finish, WorkFails, RateLimited, Wipe, EnsureState, EnsureRow, rowVars
  <2>3. pc' = pc \/ \E to \in RunPcs \ {"off"} : pc' = [pc EXCEPT ![r] = to]
    BY <1>2 DEF CountMessages, MarkBootstrapped, CheckBeforeClaim, QueryFails, Heartbeat, StoreMail, NoticeCancel,
         LastCheck, RunAgain, Finish, WorkFails, RateLimited, Wipe, EnsureState, Goto, Leave, PastLastCheck, RunPcs
  <2>4. \A s \in Runs : pc[s] # "off" => pc'[s] # "off"
    BY <2>3 DEF TypeOK
  <2>5. QED
    BY <2>1, <2>2, <2>4, StillFollowed DEF jobVars
<1>3. ASSUME NEW r \in Runs, ReadConnector(r) PROVE QueueInv'
  <2>1. CASE strayed'
    <3>1. crashes' = 0 /\ job' = "running" => jobRun' # None
      BY <1>3 DEF ReadConnector, Return, QueueInv, jobVars, envVars
    <3>2. QED
      BY <2>1, <3>1 DEF QueueInv, QueuedHasWork
  <2>2. CASE ~strayed'
    <3>1. UNCHANGED <<jobVars, strayed, rowVars, procVars, envVars>>
          /\ pc' = [pc EXCEPT ![r] = IF bootstrapped THEN "ensure" ELSE "count"]
      BY <1>3, <2>2 DEF ReadConnector, Goto
    <3>2. \A s \in Runs : pc[s] # "off" => pc'[s] # "off"
      BY <3>1 DEF TypeOK
    <3>3. QED
      BY <3>1, <3>2, StillFollowed DEF jobVars, rowVars, procVars, envVars
  <2>3. QED
    BY <2>1, <2>2
\* Runs end.
<1>4. ASSUME NEW r \in Runs, Park(r) PROVE QueueInv'
  <2>1. Return(r) /\ UNCHANGED <<procVars, crashes>> /\ (~strayed' => Follows(r))
    BY <1>4 DEF Park, envVars
  <2>2. QED
    BY <2>1, ReturnLeaves
<1>5. ASSUME NEW r \in Runs, Claim(r) PROVE QueueInv'
  <2>1. CASE pc' = [pc EXCEPT ![r] = "work"] /\ status' = "syncing" /\ UNCHANGED jobVars
    <3>1. crashes' = crashes
      BY <1>5 DEF Claim, envVars
    <3>2. QED
      BY <2>1, <3>1 DEF QueueInv, QueuedHasWork, jobVars
  <2>2. CASE ~Claimable /\ Return(r) /\ UNCHANGED rowVars
    <3>1. status' # "queued"
      BY <2>2 DEF Claimable, rowVars
    <3>2. UNCHANGED <<procVars, crashes>>
      BY <1>5 DEF Claim, envVars
    <3>3. QED
      BY <2>2, <3>1, <3>2, ReturnLeaves
  <2>3. QED
    BY <1>5, <2>1, <2>2 DEF Claim
<1>6. ASSUME NEW r \in Runs, WriteCompleted(r) \/ WriteCancelled(r) PROVE QueueInv'
  <2>1. status' # "queued"
    BY <1>6 DEF WriteCompleted, WriteCancelled, SetSyncState
  <2>2. Return(r) /\ UNCHANGED <<procVars, crashes>>
    BY <1>6 DEF WriteCompleted, WriteCancelled, envVars
  <2>3. QED
    BY <2>1, <2>2, ReturnLeaves
<1>7. ASSUME NEW r \in Runs, WriteLimited(r) PROVE QueueInv'
  <2>1. retry'[ProcOf[r]] /\ ProcOf[r] \in Procs /\ crashes' = crashes
    BY <1>7 DEF WriteLimited, Schedule, envVars, TypeOK
  <2>2. job' = "running" => job = "running" /\ jobRun' = jobRun
    BY <1>7 DEF WriteLimited, Return
  <2>3. Follows(None)'
    BY <2>1 DEF Follows
  <2>4. QED
    BY <2>1, <2>2, <2>3 DEF QueueInv, QueuedHasWork
<1>8. ASSUME NEW r \in Runs, WriteFailed(r) \/ WriteFails(r) PROVE QueueInv'
  <2>1. crashes' = crashes /\ (job' = "running" => job = "running" /\ jobRun' = jobRun)
    BY <1>8 DEF WriteFailed, WriteFails, Throw, jobVars, envVars
  <2>2. CASE status' # "queued" \/ strayed'
    BY <2>1, <2>2 DEF QueueInv, QueuedHasWork
  <2>3. CASE status' = "queued" /\ ~strayed'
    <3>1. pc'[r] = "failed"
      BY <1>8, <2>3 DEF WriteFailed, WriteFails, SetSyncState, TypeOK
    <3>2. QED
      BY <2>1, <3>1 DEF QueueInv, QueuedHasWork, Follows
  <2>4. QED
    BY <2>2, <2>3
\* Routes, the reaper, the job table and time.
<1>9. ASSUME NEW c \in Calls, PostSync(c) \/ LookBeforeWrite(c) \/ WriteQueued(c) PROVE QueueInv'
  <2>1. UNCHANGED <<jobVars, pc, procVars, crashes>>
    BY <1>9 DEF PostSync, LookBeforeWrite, WriteQueued
  <2>2. status' = "queued" /\ ~strayed' => (status = "queued" /\ ~strayed) \/ Follows(None)
    BY <1>9 DEF PostSync, LookBeforeWrite, WriteQueued, EnsureRow, rowVars, histVars
  <2>3. QED
    BY <2>1, <2>2, StillFollowed DEF jobVars, procVars
<1>10. ASSUME NEW c \in Calls, AddJob(c) PROVE QueueInv'
  <2>1. UNCHANGED <<status, strayed, pc, retry, crashes>>
    BY <1>10 DEF AddJob, rowVars, procVars, histVars
  <2>2. CASE job' = "ready"
    BY <2>1, <2>2 DEF QueueInv, QueuedHasWork, Follows
  <2>3. CASE job' = (IF job = "failed" THEN "none" ELSE job) /\ jobRun' = jobRun
    BY <2>1, <2>3 DEF QueueInv, QueuedHasWork, Follows
  <2>4. QED
    BY <1>10, <2>2, <2>3 DEF AddJob
<1>11. ASSUME NEW p \in Procs, Reap(p) PROVE QueueInv'
  BY <1>11 DEF Reap, QueueInv, QueuedHasWork, jobVars, envVars
<1>12. ASSUME NEW p \in Procs, CooldownEnds(p) PROVE QueueInv'
  BY <1>12 DEF CooldownEnds, QueueInv, QueuedHasWork, Follows, rowVars, jobVars, envVars, histVars
<1>13. ASSUME NEW p \in Procs, Crash(p) PROVE QueueInv'
  <2>1. crashes' # 0
    BY <1>13 DEF Crash, TypeOK
  <2>2. QED
    BY <2>1 DEF QueueInv, QueuedHasWork
<1>14. CASE RequestSyncCancellation
  BY <1>14 DEF RequestSyncCancellation, QueueInv, QueuedHasWork, jobVars
<1>15. CASE UnlockJob
  <2>1. crashes # 0 /\ crashes' = crashes
    BY <1>15 DEF UnlockJob, QueueInv, envVars
  <2>2. QED
    BY <2>1 DEF QueueInv, QueuedHasWork
<1>16. CASE BeatAges \/ StartAges \/ UNCHANGED vars
  <2>1. UNCHANGED <<status, strayed, jobVars, pc, procVars, envVars>>
    BY <1>16 DEF BeatAges, StartAges, vars, rowVars, histVars
  <2>2. QED
    BY <2>1, StillFollowed DEF jobVars, procVars, envVars
<1>17. QED
  BY <1>1, <1>2, <1>3, <1>4, <1>5, <1>6, <1>7, <1>8, <1>9, <1>10, <1>11, <1>12, <1>13, <1>14, <1>15, <1>16
  DEF Next, Step, Enqueue

\* A mailbox that says 'queued' has a job, a timer or a run that will look at it, for any
\* number of runs, routes and processes, unless "strayed" says why not or a process died.
THEOREM QueuedIsFollowed == Spec => []QueuedHasWork
<1>1. Init => QueueInv
  BY DEF Init, QueueInv, QueuedHasWork
<1>2. Spec => [](TypeOK /\ QueueInv)
  BY <1>1, QueueStep, TypeCorrect, PTL DEF Spec
<1>3. QED
  BY <1>2, PTL DEF QueueInv

-----------------------------------------------------------------------------
(* The row is a lock. *)

\* A step of the runs, routes and processes is a step of the lock, or none.
Held == [Lock!Next]_(Lock!vars)

\* The runs past their last look.
Past == {r \in Runs : pc[r] = "finish"}

\* A step that leaves the lock alone.
LEMMA Quiet ==
  ASSUME UNCHANGED <<AtWork, Past, target, excuse, HasActiveSyncClaim>>
  PROVE  Held
BY DEF Held, Lock!vars, Past

\* A run that is not in its body, before or after, moves.
LEMMA Outside ==
  ASSUME NEW r \in Runs, NEW to, pc \in [Runs -> RunPcs],
         pc[r] \notin {"work", "finish"}, to \notin {"work", "finish"},
         pc' = [pc EXCEPT ![r] = to]
  PROVE  AtWork' = AtWork /\ Past' = Past
BY DEF AtWork, Past

\* What writes over an active claim, or lets it age, lowers the sign.
LEMMA Lowered ==
  ASSUME NEW why \in {"overwritten", "outlived"},
         AtWork' = AtWork, Past' = Past, target' = target, ~HasActiveSyncClaim', Displace(AtWork, why)
  PROVE  Held
<1>1. HasActiveSyncClaim' = FALSE
  OBVIOUS
<1>2. Lock!Lower(why)
  BY <1>1 DEF Lock!Lower, Lock!Breaks, Displace, Past
<1>3. QED
  BY <1>2 DEF Held, Lock!Next

\* A run that leaves its body leaves the lock, with the row as it was or renewed.
LEMMA Released ==
  ASSUME TypeOK, NEW r \in AtWork, NEW to \in RunPcs \ {"work", "finish"}, Leave(r, to),
         HasActiveSyncClaim' \in {HasActiveSyncClaim, TRUE}
  PROVE  Held
<1>1. r \in Runs /\ pc \in [Runs -> RunPcs]
  BY DEF TypeOK, AtWork
<1>2. AtWork' = AtWork \ {r} /\ Past' = Past \ {r}
  BY <1>1 DEF Leave, AtWork, Past
<1>3. excuse' = IF AtWork \subseteq {r} THEN {} ELSE excuse
  BY DEF Leave, Others
<1>4. Lock!Release({r})
  BY <1>2, <1>3 DEF Lock!Release, Leave, Past
<1>5. QED
  BY <1>1, <1>4 DEF Held, Lock!Next

\* A renewed row says again that the claim is active, if it still says 'syncing'.
LEMMA Renewed ==
  ASSUME Touch, UNCHANGED <<status, started>>
  PROVE  HasActiveSyncClaim' \in {HasActiveSyncClaim, TRUE}
BY DEF Touch, HasActiveSyncClaim

\* The steps before the claim, and a claim that is refused.
LEMMA BeforeClaim ==
  ASSUME TypeOK, NEW r \in Runs,
         \/ StartCall(r) \/ StartRetry(r) \/ StartJob(r) \/ ReadConnector(r) \/ CountMessages(r)
         \/ MarkBootstrapped(r) \/ EnsureState(r) \/ CheckBeforeClaim(r) \/ QueryFails(r)
         \/ WriteFails(r)
  PROVE  Held
<1>1. PICK to \in RunPcs \ {"work", "finish"} :
        pc[r] \notin {"work", "finish"} /\ pc' = [pc EXCEPT ![r] = to]
  <2>1. CASE StartCall(r) \/ StartRetry(r) \/ StartJob(r)
    BY <2>1 DEF StartCall, StartRetry, StartJob, Begin, RunPcs
  <2>2. CASE ReadConnector(r)
    BY <2>2 DEF ReadConnector, Return, Goto, RunPcs
  <2>3. CASE CountMessages(r) \/ MarkBootstrapped(r)
    BY <2>3 DEF CountMessages, MarkBootstrapped, Goto, RunPcs
  <2>4. CASE EnsureState(r) \/ CheckBeforeClaim(r)
    BY <2>4 DEF EnsureState, CheckBeforeClaim, Goto, RunPcs
  <2>5. CASE QueryFails(r) \/ WriteFails(r)
    BY <2>5 DEF QueryFails, WriteFails, Throw, RunPcs
  <2>6. QED
    BY <2>1, <2>2, <2>3, <2>4, <2>5
<1>2. AtWork' = AtWork /\ Past' = Past
  BY <1>1, Outside DEF TypeOK
<1>3. target' = target /\ excuse' = excuse
  BY DEF StartCall, StartRetry, StartJob, ReadConnector, CountMessages, MarkBootstrapped, EnsureState,
         CheckBeforeClaim, QueryFails, WriteFails, histVars
<1>4. HasActiveSyncClaim' = HasActiveSyncClaim
  <2>1. CASE EnsureState(r)
    BY <2>1 DEF EnsureState, EnsureRow, rowVars, HasActiveSyncClaim
  <2>2. CASE ~EnsureState(r)
    BY <2>2 DEF StartCall, StartRetry, StartJob, ReadConnector, CountMessages, MarkBootstrapped,
                CheckBeforeClaim, QueryFails, WriteFails, rowVars, HasActiveSyncClaim
  <2>3. QED
    BY <2>1, <2>2
<1>5. QED
  BY <1>2, <1>3, <1>4, Quiet

\* The unfenced writes of runs that are not at work, and the wipe.
LEMMA WrittenOver ==
  ASSUME TypeOK, NEW r \in Runs,
         \/ Wipe(r) \/ Park(r) \/ WriteCompleted(r) \/ WriteCancelled(r) \/ WriteLimited(r)
         \/ WriteFailed(r)
  PROVE  Held
<1>1. PICK to \in RunPcs \ {"work", "finish"} :
        pc[r] \notin {"work", "finish"} /\ pc' = [pc EXCEPT ![r] = to]
  BY DEF Wipe, Park, WriteCompleted, WriteCancelled, WriteLimited, WriteFailed, Goto, Return, Throw, RunPcs
<1>2. AtWork' = AtWork /\ Past' = Past
  BY <1>1, Outside DEF TypeOK
<1>3. ~HasActiveSyncClaim'
  BY DEF Wipe, Park, WriteCompleted, WriteCancelled, WriteLimited, WriteFailed, SetSyncState,
         HasActiveSyncClaim
<1>4. target' = target /\ Displace(AtWork, "overwritten")
  BY DEF Wipe, Park, WriteCompleted, WriteCancelled, WriteLimited, WriteFailed
<1>5. QED
  BY <1>2, <1>3, <1>4, Lowered

\* A claim takes the lock, or is turned away.
LEMMA ClaimAcquires ==
  ASSUME TypeOK, ClaimInv, NEW r \in Runs, Claim(r)
  PROVE  Held
<1>1. pc[r] = "claim" /\ pc \in [Runs -> RunPcs] /\ target' = target
  BY DEF Claim, TypeOK
<1>2. CASE Claimable /\ pc' = [pc EXCEPT ![r] = "work"] /\ Displace(AtWork, "claim")
           /\ status' = "syncing" /\ started' = "fresh" /\ beat' = "fresh"
  <2>1. AtWork' = AtWork \cup {r} /\ Past' = Past /\ r \notin AtWork
    BY <1>1, <1>2 DEF AtWork, Past
  <2>2. HasActiveSyncClaim = FALSE /\ HasActiveSyncClaim' = TRUE
    BY <1>2 DEF Claimable, HasActiveSyncClaim
  <2>3. AtWork = {} \/ excuse \ {"claim"} # {}
    BY <2>2 DEF ClaimInv, HasActiveSyncClaim
  <2>4. Lock!Acquire(r)
    BY <1>1, <1>2, <2>1, <2>2, <2>3 DEF Lock!Acquire, Lock!Breaks, Displace, Past
  <2>5. QED
    BY <2>4 DEF Held, Lock!Next
<1>3. CASE Return(r) /\ UNCHANGED <<rowVars, excuse>>
  <2>1. AtWork' = AtWork /\ Past' = Past
    BY <1>1, <1>3, Outside DEF Return
  <2>2. HasActiveSyncClaim' = HasActiveSyncClaim
    BY <1>3 DEF rowVars, HasActiveSyncClaim
  <2>3. QED
    BY <1>1, <1>3, <2>1, <2>2, Quiet
<1>4. QED
  BY <1>2, <1>3 DEF Claim

\* The steps of a run inside its body.
LEMMA BodySteps ==
  ASSUME TypeOK, CancelInv, NEW r \in Runs,
         \/ Heartbeat(r) \/ StoreMail(r) \/ NoticeCancel(r) \/ LastCheck(r) \/ RunAgain(r)
         \/ Finish(r) \/ WorkFails(r) \/ RateLimited(r)
  PROVE  Held
<1>1. pc \in [Runs -> RunPcs]
  BY DEF TypeOK
<1>2. CASE Heartbeat(r)
  <2>1. AtWork' = AtWork /\ Past' = Past /\ AtWork # {} /\ target' = target /\ excuse' = excuse
    BY <1>2 DEF Heartbeat, histVars, AtWork, Past
  <2>2. HasActiveSyncClaim' \in {HasActiveSyncClaim, TRUE}
    BY <1>2, Renewed DEF Heartbeat
  <2>3. CASE HasActiveSyncClaim' = HasActiveSyncClaim
    BY <2>1, <2>3, Quiet
  <2>4. CASE HasActiveSyncClaim' = TRUE
    <3>1. Lock!Renew
      BY <2>1, <2>4 DEF Lock!Renew, Past
    <3>2. QED
      BY <3>1 DEF Held, Lock!Next
  <2>5. QED
    BY <2>2, <2>3, <2>4
<1>3. CASE StoreMail(r)
  BY <1>3, Quiet DEF StoreMail, rowVars, histVars, AtWork, Past, HasActiveSyncClaim
<1>4. CASE NoticeCancel(r) \/ WorkFails(r) \/ RateLimited(r)
  <2>1. r \in AtWork /\ \E to \in RunPcs \ {"work", "finish"} : Leave(r, to)
    BY <1>4 DEF NoticeCancel, WorkFails, RateLimited, RunPcs
  <2>2. HasActiveSyncClaim' = HasActiveSyncClaim
    BY <1>4 DEF NoticeCancel, WorkFails, RateLimited, rowVars, HasActiveSyncClaim
  <2>3. QED
    BY <2>1, <2>2, Released
<1>5. CASE Finish(r)
  <2>1. r \in AtWork /\ Leave(r, "completed")
    BY <1>5 DEF Finish, AtWork
  <2>2. HasActiveSyncClaim' \in {HasActiveSyncClaim, TRUE}
    BY <1>5, Renewed DEF Finish
  <2>3. QED
    BY <2>1, <2>2, Released DEF RunPcs
<1>6. CASE LastCheck(r)
  <2>1. AtWork' = AtWork /\ Past' = Past \cup {r} /\ r \in AtWork \ Past
    BY <1>1, <1>6 DEF LastCheck, PastLastCheck, AtWork, Past
  <2>2. ~Gmail /\ r \in target => excuse \cap {"claim", "overwritten"} # {}
    BY <1>6 DEF LastCheck, PastLastCheck, CancelInv
  <2>3. target' = target /\ excuse' = excuse /\ HasActiveSyncClaim' = HasActiveSyncClaim
    BY <1>6 DEF LastCheck, rowVars, histVars, HasActiveSyncClaim
  <2>4. Lock!Pass(r)
    BY <2>1, <2>2, <2>3 DEF Lock!Pass, Past
  <2>5. QED
    BY <2>4 DEF Held, Lock!Next
<1>7. CASE RunAgain(r)
  <2>1. AtWork' = AtWork /\ Past' = Past \ {r} /\ r \in Past
    BY <1>1, <1>7 DEF RunAgain, AtWork, Past
  <2>2. target' = target /\ excuse' = excuse /\ HasActiveSyncClaim' = HasActiveSyncClaim
    BY <1>7 DEF RunAgain, rowVars, histVars, HasActiveSyncClaim
  <2>3. Lock!Again(r)
    BY <2>1, <2>2 DEF Lock!Again, Past
  <2>4. QED
    BY <2>3 DEF Held, Lock!Next
<1>8. QED
  BY <1>2, <1>3, <1>4, <1>5, <1>6, <1>7

\* Routes, the reaper, the job table and time.
LEMMA OthersSteps ==
  ASSUME TypeOK,
         \/ \E c \in Calls : Enqueue(c)
         \/ \E p \in Procs : Reap(p) \/ CooldownEnds(p)
         \/ RequestSyncCancellation \/ UnlockJob \/ BeatAges \/ StartAges \/ UNCHANGED vars
  PROVE  Held
<1>1. pc' = pc /\ AtWork' = AtWork /\ Past' = Past
  <2>1. pc' = pc
    BY DEF Enqueue, PostSync, AddJob, LookBeforeWrite, WriteQueued, Reap, CooldownEnds,
           RequestSyncCancellation, UnlockJob, BeatAges, StartAges, vars
  <2>2. QED
    BY <2>1 DEF AtWork, Past
<1>2. ASSUME NEW c \in Calls, PostSync(c) \/ AddJob(c) \/ LookBeforeWrite(c) PROVE Held
  <2>1. HasActiveSyncClaim' = HasActiveSyncClaim
    <3>1. CASE PostSync(c)
      BY <3>1 DEF PostSync, EnsureRow, rowVars, HasActiveSyncClaim
    <3>2. CASE AddJob(c) \/ LookBeforeWrite(c)
      BY <3>2 DEF AddJob, LookBeforeWrite, rowVars, HasActiveSyncClaim
    <3>3. QED
      BY <1>2, <3>1, <3>2
  <2>2. target' = target /\ excuse' = excuse
    BY <1>2 DEF PostSync, AddJob, LookBeforeWrite, histVars
  <2>3. QED
    BY <1>1, <2>1, <2>2, Quiet
<1>3. ASSUME NEW c \in Calls, WriteQueued(c) PROVE Held
  <2>1. ~HasActiveSyncClaim' /\ target' = target /\ Displace(AtWork, "overwritten")
    BY <1>3 DEF WriteQueued, SetSyncState, HasActiveSyncClaim
  <2>2. QED
    BY <1>1, <2>1, Lowered
<1>4. ASSUME NEW p \in Procs, Reap(p) PROVE Held
  <2>1. ~HasActiveSyncClaim' /\ target' = target /\ Displace(AtWork, "overwritten")
    BY <1>4 DEF Reap, HasActiveSyncClaim
  <2>2. QED
    BY <1>1, <2>1, Lowered
<1>5. ASSUME (\E p \in Procs : CooldownEnds(p)) \/ UnlockJob \/ UNCHANGED vars PROVE Held
  <2>1. UNCHANGED <<rowVars, histVars>>
    BY <1>5 DEF CooldownEnds, UnlockJob, vars
  <2>2. QED
    BY <1>1, <2>1, Quiet DEF rowVars, histVars, HasActiveSyncClaim
<1>6. CASE RequestSyncCancellation
  <2>1. HasActiveSyncClaim' = FALSE
    BY <1>6 DEF RequestSyncCancellation, HasActiveSyncClaim
  <2>2. Lock!Ring
    BY <1>1, <1>6, <2>1 DEF RequestSyncCancellation, Displace, Lock!Ring, Lock!Breaks, Past
  <2>3. QED
    BY <2>2 DEF Held, Lock!Next
<1>7. CASE BeatAges \/ StartAges
  <2>1. ~HasActiveSyncClaim' /\ target' = target /\ Displace(AtWork, "outlived")
    BY <1>7 DEF BeatAges, StartAges, HasActiveSyncClaim
  <2>2. QED
    BY <1>1, <2>1, Lowered
<1>8. QED
  BY <1>2, <1>3, <1>4, <1>5, <1>6, <1>7 DEF Enqueue

\* A process that dies takes its own runs out, and no others.
LEMMA CrashReleases ==
  ASSUME TypeOK, NEW p \in Procs, Crash(p)
  PROVE  Held
<1>1. PICK gone \in SUBSET Runs : gone = {r \in AtWork : ProcOf[r] = p}
  BY DEF AtWork
<1>2. AtWork' = AtWork \ gone /\ Past' = Past \ gone
  BY <1>1 DEF Crash, AtWork, Past, TypeOK
<1>3. target' = target \ gone
  BY <1>1 DEF Crash, TypeOK, AtWork
<1>4. excuse' = IF AtWork \subseteq gone THEN {} ELSE excuse
  BY <1>1 DEF Crash, AtWork
<1>5. HasActiveSyncClaim' = HasActiveSyncClaim
  BY DEF Crash, rowVars, HasActiveSyncClaim
<1>6. CASE gone = {}
  BY <1>2, <1>3, <1>4, <1>5, <1>6, Quiet DEF TypeOK
<1>7. CASE gone # {}
  <2>1. Lock!Release(gone)
    BY <1>1, <1>2, <1>3, <1>4, <1>5, <1>7 DEF Lock!Release, Past
  <2>2. QED
    BY <2>1 DEF Held, Lock!Next
<1>8. QED
  BY <1>6, <1>7

\* Every step of the runs is a step of the lock, or none.
LEMMA LockStep == TypeOK /\ ClaimInv /\ CancelInv /\ [Next]_vars => Held
<1>1. SUFFICES ASSUME TypeOK, ClaimInv, CancelInv, [Next]_vars PROVE Held
  OBVIOUS
<1>2. ASSUME NEW r \in Runs, Step(r) PROVE Held
  BY <1>1, <1>2, BeforeClaim, WrittenOver, ClaimAcquires, BodySteps DEF Step
<1>3. ASSUME NEW r \in Runs,
             \/ StartCall(r) \/ StartRetry(r) \/ StartJob(r) \/ Heartbeat(r) \/ StoreMail(r)
             \/ RunAgain(r) \/ QueryFails(r) \/ WriteFails(r)
      PROVE  Held
  BY <1>1, <1>3, BeforeClaim, BodySteps
<1>4. ASSUME NEW p \in Procs, Crash(p) PROVE Held
  BY <1>1, <1>4, CrashReleases
<1>5. QED
  BY <1>1, <1>2, <1>3, <1>4, OthersSteps DEF Next

\* The row of sync_states is a lock with named breakages, for any number of runs,
\* processes and routes (tryClaimMailboxSync, syncMailbox, requestSyncCancellation,
\* reapStaleSyncStates).
THEOREM LockImplemented == Spec => ImplementsLock
<1>1. Init => Lock!Init
  BY DEF Init, Lock!Init, AtWork, HasActiveSyncClaim
<1>2. Init => ClaimInv /\ CancelInv
  BY DEF Init, ClaimInv, CancelInv, AtWork
<1>3. Spec => [](TypeOK /\ ClaimInv /\ CancelInv)
  BY <1>2, ClaimStep, CancelStep, TypeCorrect, PTL DEF Spec
<1>4. QED
  BY <1>1, <1>3, LockStep, PTL DEF Spec, ImplementsLock, Lock!Spec, Held
=============================================================================
