------------------------- MODULE SendPipelineProofs -------------------------
(***************************************************************************)
(* Proofs about SendPipeline, for every set of keys, calls and workers and *)
(* every bound: the type invariant, and, from the inductive invariant      *)
(* SendInv, at-most-once delivery, the single lease holder, that success   *)
(* is only ever recorded and answered after a delivery, that a recorded    *)
(* success is final, (from OrphanInv) that crashes orphan no row, and that *)
(* the pipeline implements the mailer of OnceMailer.                       *)
(***************************************************************************)
EXTENDS SendPipeline, TLAPS

\* A send job carries its call's key, so the type invariant is inductive. It
\* covers every variable of the route, the job table and sendEmailTask.
THEOREM TypeCorrect == Spec => []TypeOK
<1>1. Init => TypeOK
  BY SendAssumption DEF Init, TypeOK, Statuses, Ages, RoutePcs, Replies, WorkPcs,
       Errors, FaultKinds
<1>2. TypeOK /\ [Next]_vars => TypeOK'
  <2> SUFFICES ASSUME TypeOK, [Next]_vars PROVE TypeOK'
    OBVIOUS
  <2> USE SendAssumption DEF TypeOK, Statuses, Ages, RoutePcs, Replies, WorkPcs,
        Errors, FaultKinds, Hashes, rowVars, jobVars, routeVars, workVars, mailVars
  <2>1. ASSUME NEW r \in Requests, RouteFind(r) PROVE TypeOK'
    <3>1. rpc' \in [Requests -> RoutePcs]
      BY <2>1, SMTT(60) DEF RouteFind, AnswerByStatus, Answer
    <3>2. reply' \in [Requests -> Replies]
      BY <2>1, SMTT(60) DEF RouteFind, AnswerByStatus, Answer
    <3>3. UNCHANGED <<rowVars, jobVars, workVars, mailVars, excuse>>
      BY <2>1 DEF RouteFind
    <3> QED
      BY <3>1, <3>2, <3>3
  <2>2. ASSUME NEW r \in Requests, RouteInsert(r) PROVE TypeOK'
    BY <2>2, SMTT(60) DEF RouteInsert, Answer
  <2>3. ASSUME NEW r \in Requests, RouteRefind(r) PROVE TypeOK'
    <3>1. rpc' \in [Requests -> RoutePcs]
      BY <2>3, SMTT(60) DEF RouteRefind, AnswerByStatus, Answer
    <3>2. reply' \in [Requests -> Replies]
      BY <2>3, SMTT(60) DEF RouteRefind, AnswerByStatus, Answer
    <3>3. UNCHANGED <<rowVars, jobVars, workVars, mailVars, excuse>>
      BY <2>3 DEF RouteRefind
    <3> QED
      BY <3>1, <3>2, <3>3
  <2>4. ASSUME NEW r \in Requests, RouteEnqueue(r) PROVE TypeOK'
    <3>1. CASE jobReq[KeyOf[r]] = None
      <4> KeyOf[r] \in Keys
        OBVIOUS
      <4>1. /\ jobReq' = [jobReq EXCEPT ![KeyOf[r]] = r]
            /\ jobAttempts' = [jobAttempts EXCEPT ![KeyOf[r]] = 0]
            /\ jobLock' = [jobLock EXCEPT ![KeyOf[r]] = None]
            /\ lockOld' = [lockOld EXCEPT ![KeyOf[r]] = FALSE]
        BY <2>4, <3>1 DEF RouteEnqueue
      <4>2. \A k \in Keys : jobReq'[k] \in Requests => KeyOf[jobReq'[k]] = k
        BY <4>1
      <4>3. /\ rpc' \in [Requests -> RoutePcs]
            /\ reply' \in [Requests -> Replies]
            /\ UNCHANGED <<rowVars, workVars, mailVars, excuse>>
        BY <2>4 DEF RouteEnqueue, Answer
      <4> QED
        BY <4>1, <4>2, <4>3
    <3>2. CASE jobReq[KeyOf[r]] # None
      BY <2>4, <3>2 DEF RouteEnqueue, Answer
    <3> QED
      BY <3>1, <3>2
  <2>5. ASSUME NEW r \in Requests, RouteAbort(r) PROVE TypeOK'
    BY <2>5 DEF RouteAbort, Answer
  <2>6. ASSUME NEW w \in Workers, Boot(w) PROVE TypeOK'
    BY <2>6 DEF Boot
  <2>7. ASSUME NEW w \in Workers, CompleteJob(w) PROVE TypeOK'
    <3>1. PICK k : k = KeyOf[wreq[w]]
      OBVIOUS
    <3>2. /\ \/ jobReq' = [jobReq EXCEPT ![k] = None] /\ jobLock' = [jobLock EXCEPT ![k] = None]
             \/ UNCHANGED <<jobReq, jobLock>>
          /\ UNCHANGED <<rowVars, jobAttempts, lockOld, routeVars, mailVars, excuse>>
          /\ Leave(w, "idle")
      BY <2>7, <3>1 DEF CompleteJob
    <3>3. jobReq' \in [Keys -> Requests \cup {None}]
      BY <3>2
    <3>4. jobLock' \in [Keys -> Workers \cup {None}]
      BY <3>2
    <3>5. \A c \in Keys : jobReq'[c] \in Requests => KeyOf[jobReq'[c]] = c
      BY <3>2
    <3>6. /\ wpc' \in [Workers -> WorkPcs] /\ wreq' \in [Workers -> Requests \cup {None}]
          /\ \A v \in Workers : wreq'[v] = None <=> wpc'[v] \in {"off", "idle", "dead"}
      BY <3>2 DEF Leave
    <3>7. /\ wtry' \in [Workers -> 0..MaxSmtpAttempts] /\ werr' \in [Workers -> Errors]
      BY <3>2 DEF Leave
    <3> QED
      BY <3>2, <3>3, <3>4, <3>5, <3>6, <3>7
  <2>8. ASSUME NEW w \in Workers, FailJob(w) PROVE TypeOK'
    BY <2>8 DEF FailJob, Leave
  <2>9. ASSUME NEW w \in Workers, Claim(w) PROVE TypeOK'
    <3>1. PICK k : k = KeyOf[wreq[w]]
      OBVIOUS
    <3>2. /\ \/ status' = [status EXCEPT ![k] = "processing"] /\ age' = [age EXCEPT ![k] = "fresh"]
             \/ UNCHANGED <<status, age>>
          /\ \E to \in {"load", "complete", "fail"} : wpc' = [wpc EXCEPT ![w] = to]
          /\ UNCHANGED <<hash, identity, jobVars, routeVars, wreq, wtry, werr, mailVars, excuse>>
          /\ wpc[w] = "claim"
      BY <2>9, <3>1 DEF Claim, TakeLease
    <3>3. status' \in [Keys -> Statuses] /\ age' \in [Keys -> Ages]
      <4>1. status' \in [Keys -> Statuses]
        BY <3>2
      <4>2. age' \in [Keys -> Ages]
        BY <3>2
      <4> QED
        BY <4>1, <4>2
    <3>4. wpc' \in [Workers -> WorkPcs]
      BY <3>2
    <3>5. \A v \in Workers : wreq'[v] = None <=> wpc'[v] \in {"off", "idle", "dead"}
      BY <3>2
    <3> QED
      BY <3>2, <3>3, <3>4, <3>5
  <2>10. ASSUME NEW w \in Workers, Load(w) PROVE TypeOK'
    <3>1. wpc' \in [Workers -> WorkPcs] /\ wtry' \in [Workers -> 0..MaxSmtpAttempts]
      BY <2>10 DEF Load
    <3>2. werr' \in [Workers -> Errors]
      BY <2>10 DEF Load
    <3>3. \A v \in Workers : wreq'[v] = None <=> wpc'[v] \in {"off", "idle", "dead"}
      BY <2>10 DEF Load
    <3>4. UNCHANGED <<rowVars, jobVars, routeVars, wreq, mailVars, excuse>>
      BY <2>10 DEF Load
    <3> QED
      BY <3>1, <3>2, <3>3, <3>4
  <2>11. ASSUME NEW w \in Workers, SendAccepted(w) PROVE TypeOK'
    BY <2>11 DEF SendAccepted, Deliver
  <2>12. ASSUME NEW w \in Workers, SendRejected(w) PROVE TypeOK'
    BY <2>12 DEF SendRejected, SmtpError, Caught
  <2>13. ASSUME NEW w \in Workers, FinalizeSendSuccess(w) PROVE TypeOK'
    BY <2>13 DEF FinalizeSendSuccess
  <2>14. ASSUME NEW w \in Workers, FinalizeSendFailure(w) PROVE TypeOK'
    <3>1. PICK k : k = KeyOf[wreq[w]]
      OBVIOUS
    <3>2. /\ \/ status' = [status EXCEPT ![k] = "failed"] /\ age' = [age EXCEPT ![k] = "fresh"]
             \/ UNCHANGED <<status, age>>
          /\ \E to \in {"fail", "complete"} : wpc' = [wpc EXCEPT ![w] = to]
          /\ UNCHANGED <<hash, identity, jobVars, routeVars, wreq, wtry, werr, mailVars, excuse>>
      BY <2>14, <3>1 DEF FinalizeSendFailure
    <3>3. status' \in [Keys -> Statuses] /\ age' \in [Keys -> Ages]
      <4>1. status' \in [Keys -> Statuses]
        BY <3>2
      <4>2. age' \in [Keys -> Ages]
        BY <3>2
      <4> QED
        BY <4>1, <4>2
    <3>4. /\ wpc' \in [Workers -> WorkPcs]
          /\ \A v \in Workers : wreq'[v] = None <=> wpc'[v] \in {"off", "idle", "dead"}
      BY <2>14, <3>2 DEF FinalizeSendFailure
    <3> QED
      BY <3>2, <3>3, <3>4
  <2>15. ASSUME NEW w \in Workers, NEW k \in Keys, GetJob(w, k) PROVE TypeOK'
    BY <2>15 DEF GetJob, Available
  <2>16. ASSUME NEW w \in Workers, ClaimError(w) PROVE TypeOK'
    BY <2>16 DEF ClaimError
  <2>17. ASSUME NEW w \in Workers, SendReplyLost(w) PROVE TypeOK'
    <3>1. /\ delivered' \in [Keys -> Nat]
          /\ sentHash' \in [Keys -> SUBSET Hashes]
          /\ excuse' \in [Keys -> SUBSET FaultKinds]
      BY <2>17 DEF SendReplyLost, Deliver, Blame
    <3>2. /\ wpc' \in [Workers -> WorkPcs]
          /\ wtry' \in [Workers -> 0..MaxSmtpAttempts]
          /\ werr' \in [Workers -> Errors]
      <4>1. SmtpError(w)
        BY <2>17 DEF SendReplyLost
      <4>2. CASE wtry[w] < MaxSmtpAttempts /\ wtry' = [wtry EXCEPT ![w] = @ + 1] /\ UNCHANGED <<wpc, werr>>
        BY <4>2
      <4>3. CASE Caught(w) /\ UNCHANGED wtry
        BY <4>3 DEF Caught
      <4> QED
        BY <4>1, <4>2, <4>3 DEF SmtpError
    <3>3. \A v \in Workers : wreq'[v] = None <=> wpc'[v] \in {"off", "idle", "dead"}
      BY <2>17 DEF SendReplyLost, SmtpError, Caught
    <3>4. UNCHANGED <<rowVars, jobVars, routeVars, wreq>>
      BY <2>17 DEF SendReplyLost
    <3> QED
      BY <3>1, <3>2, <3>3, <3>4
  <2>18. ASSUME NEW w \in Workers, SentCopyError(w) PROVE TypeOK'
    <3>1. delivered' \in [Keys -> Nat] /\ sentHash' \in [Keys -> SUBSET Hashes]
      BY <2>18 DEF SentCopyError, Deliver
    <3>2. excuse' \in [Keys -> SUBSET FaultKinds]
      BY <2>18 DEF SentCopyError, Blame
    <3>3. wpc' \in [Workers -> WorkPcs] /\ werr' \in [Workers -> Errors]
      BY <2>18 DEF SentCopyError, Caught
    <3>4. \A v \in Workers : wreq'[v] = None <=> wpc'[v] \in {"off", "idle", "dead"}
      BY <2>18 DEF SentCopyError, Caught
    <3>5. UNCHANGED <<rowVars, jobVars, routeVars, wreq, wtry>>
      BY <2>18 DEF SentCopyError
    <3> QED
      BY <3>1, <3>2, <3>3, <3>4, <3>5
  <2>19. ASSUME NEW w \in Workers, FinalizeSuccessError(w) PROVE TypeOK'
    <3>1. status' \in [Keys -> Statuses] /\ age' \in [Keys -> Ages]
      <4>1. PICK k : k = KeyOf[wreq[w]]
        OBVIOUS
      <4>2. \/ status' = [status EXCEPT ![k] = "succeeded"] /\ age' = [age EXCEPT ![k] = "fresh"]
            \/ UNCHANGED <<status, age>>
        BY <2>19, <4>1 DEF FinalizeSuccessError
      <4> QED
        BY <4>2
    <3>2. excuse' \in [Keys -> SUBSET FaultKinds]
      BY <2>19 DEF FinalizeSuccessError, Blame
    <3>3. wpc' \in [Workers -> WorkPcs] /\ werr' \in [Workers -> Errors]
      BY <2>19 DEF FinalizeSuccessError, Caught
    <3>4. \A v \in Workers : wreq'[v] = None <=> wpc'[v] \in {"off", "idle", "dead"}
      BY <2>19 DEF FinalizeSuccessError, Caught
    <3>5. UNCHANGED <<hash, identity, jobVars, routeVars, wreq, wtry, mailVars>>
      BY <2>19 DEF FinalizeSuccessError
    <3> QED
      BY <3>1, <3>2, <3>3, <3>4, <3>5
  <2>20. ASSUME NEW w \in Workers, FinalizeFailureError(w) PROVE TypeOK'
    BY <2>20 DEF FinalizeFailureError, Blame
  <2>21. ASSUME NEW w \in Workers, Crash(w) PROVE TypeOK'
    BY <2>21 DEF Crash, Leave, Blame
  <2>22. ASSUME NEW k \in Keys, LockAges(k) PROVE TypeOK'
    BY <2>22 DEF LockAges
  <2>23. ASSUME NEW k \in Keys, ResetLock(k) PROVE TypeOK'
    BY <2>23 DEF ResetLock
  <2>24. ASSUME NEW k \in Keys, LeaseLapses(k) PROVE TypeOK'
    BY <2>24 DEF LeaseLapses, Blame
  <2>25. ASSUME NEW k \in Keys, RowExpires(k) PROVE TypeOK'
    BY <2>25 DEF RowExpires, Blame
  <2>26. ASSUME DeleteOutgoingConnector PROVE TypeOK'
    BY <2>26 DEF DeleteOutgoingConnector
  <2>27. ASSUME UNCHANGED vars PROVE TypeOK'
    BY <2>27 DEF vars
  <2> QED
    BY <2>1, <2>2, <2>3, <2>4, <2>5, <2>6, <2>7, <2>8, <2>9, <2>10, <2>11, <2>12,
       <2>13, <2>14, <2>15, <2>16, <2>17, <2>18, <2>19, <2>20, <2>21, <2>22, <2>23,
       <2>24, <2>25, <2>26, <2>27 DEF Next, Route, Run, Fault
<1> QED
  BY <1>1, <1>2, PTL DEF Spec
-----------------------------------------------------------------------------
(* The inductive invariant. *)

\* Per key: while no duplicating fault hit it, the lease has one holder and the
\* row shows it, and a copy that is out is one the row records or its holder is
\* about to record.
KeyInv(k) ==
  /\ \A v, w \in Workers : Holds(v, k) /\ Holds(w, k) => v = w
  /\ \A w \in Workers : Holds(w, k) =>
       /\ status[k] \in {"processing", "none"}
       /\ status[k] = "processing" => age[k] # "stale"
       /\ wpc[w] # "finalizeSuccess" => delivered[k] = 0
  /\ delivered[k] <= 1
  /\ delivered[k] > 0 =>
       \/ status[k] \in {"succeeded", "none"}
       \/ \E w \in Workers : Holds(w, k) /\ wpc[w] = "finalizeSuccess"

\* Rows go only with the identity, so a key without a row has nothing under way.
RowInv ==
  /\ ~identity => \A k \in Keys : status[k] = "none"
  /\ identity => \A k \in Keys : status[k] = "none" =>
       delivered[k] = 0 /\ \A w \in Workers : ~Holds(w, k)

SendInv == RowInv /\ \A k \in Keys : Clean(k) => KeyInv(k)

\* A step that leaves the rows and the mail alone and adds no holder.
LEMMA Frame ==
  ASSUME SendInv,
         UNCHANGED <<status, age, identity, delivered, excuse>>,
         \A v \in Workers, k \in Keys : Holds(v, k)' => Holds(v, k),
         \A v \in Workers, k \in Keys :
           (Holds(v, k) /\ wpc[v] = "finalizeSuccess")
             <=> (Holds(v, k) /\ wpc[v] = "finalizeSuccess")'
  PROVE  SendInv'
<1>1. RowInv'
  BY DEF SendInv, RowInv
<1>2. ASSUME NEW k \in Keys, Clean(k)' PROVE KeyInv(k)'
  <2>1. KeyInv(k)
    BY <1>2 DEF SendInv, Clean
  <2> QED
    BY <2>1 DEF KeyInv
<1> QED
  BY <1>1, <1>2 DEF SendInv

\* A step of the holder w of the lease on key c that costs c its clean record.
LEMMA FrameBlame ==
  ASSUME SendInv, NEW w \in Workers, NEW c \in Keys, Holds(w, c), ~Clean(c)',
         UNCHANGED identity,
         status[c] = "none" <=> status'[c] = "none",
         \A k \in Keys : k # c =>
           /\ status'[k] = status[k] /\ age'[k] = age[k]
           /\ delivered'[k] = delivered[k] /\ excuse'[k] = excuse[k],
         \A v \in Workers : v # w => \A k \in Keys : Holds(v, k)' <=> Holds(v, k),
         \A v \in Workers : v # w => wpc'[v] = wpc[v],
         \A k \in Keys : Holds(w, k)' => k = c,
         \A k \in Keys : Holds(w, k) => k = c
  PROVE  SendInv'
<1>1. RowInv'
  BY DEF SendInv, RowInv
<1>2. ASSUME NEW k \in Keys, Clean(k)' PROVE KeyInv(k)'
  <2>1. k # c
    BY <1>2
  <2>2. KeyInv(k)
    BY <1>2, <2>1 DEF SendInv, Clean
  <2> QED
    BY <2>1, <2>2 DEF KeyInv
<1> QED
  BY <1>1, <1>2 DEF SendInv

\* A run at work is at work for a key.
LEMMA KeyOfRun ==
  ASSUME TypeOK, NEW w \in Workers, wpc[w] \notin {"off", "idle", "dead"}
  PROVE  wreq[w] \in Requests /\ KeyOf[wreq[w]] \in Keys
<1>1. wreq[w] \in Requests \cup {None} /\ wreq[w] # None
  BY DEF TypeOK
<1>2. QED
  BY <1>1, SendAssumption

\* Every step of every actor keeps SendInv: a clean key has one lease holder at most,
\* and a copy that is out is on its way to, or in, a row that says so.
LEMMA SendStep == TypeOK /\ TypeOK' /\ SendInv /\ [Next]_vars => SendInv'
<1> SUFFICES ASSUME TypeOK, TypeOK', SendInv, [Next]_vars PROVE SendInv'
  OBVIOUS
<1>0. ASSUME NEW w \in Workers, wpc[w] \in {"send", "finalizeSuccess"} PROVE KeyOf[wreq[w]] \in Keys
  BY <1>0, KeyOfRun
<1> USE SendAssumption DEF TypeOK, SendInv, RowInv, KeyInv, Clean, Duplicating, Holds, Leased,
      rowVars, jobVars, routeVars, workVars, mailVars
<1>1. ASSUME NEW r \in Requests, RouteFind(r) PROVE SendInv'
  BY <1>1 DEF RouteFind, AnswerByStatus, Answer
<1>2. ASSUME NEW r \in Requests, RouteInsert(r) PROVE SendInv'
  BY <1>2 DEF RouteInsert, Answer
<1>3. ASSUME NEW r \in Requests, RouteRefind(r) PROVE SendInv'
  BY <1>3 DEF RouteRefind, AnswerByStatus, Answer
<1>4. ASSUME NEW r \in Requests, RouteEnqueue(r) PROVE SendInv'
  BY <1>4 DEF RouteEnqueue, Answer
<1>5. ASSUME NEW r \in Requests, RouteAbort(r) PROVE SendInv'
  BY <1>5 DEF RouteAbort, Answer
<1>6. ASSUME NEW w \in Workers, Boot(w) PROVE SendInv'
  BY <1>6 DEF Boot
<1>7. ASSUME NEW w \in Workers, CompleteJob(w) PROVE SendInv'
  <2>1. UNCHANGED <<status, age, identity, delivered, excuse>>
    BY <1>7 DEF CompleteJob
  <2>2. \A v \in Workers, j \in Keys :
          /\ Holds(v, j)' => Holds(v, j)
          /\ (Holds(v, j) /\ wpc[v] = "finalizeSuccess")
               <=> (Holds(v, j) /\ wpc[v] = "finalizeSuccess")'
    BY <1>7 DEF CompleteJob, Leave
  <2> HIDE DEF TypeOK, SendInv, RowInv, KeyInv, Clean, Holds, Leased
  <2> QED
    BY <2>1, <2>2, Frame
<1>8. ASSUME NEW w \in Workers, FailJob(w) PROVE SendInv'
  <2>1. UNCHANGED <<status, age, identity, delivered, excuse>>
    BY <1>8 DEF FailJob
  <2>2. \A v \in Workers, j \in Keys :
          /\ Holds(v, j)' => Holds(v, j)
          /\ (Holds(v, j) /\ wpc[v] = "finalizeSuccess")
               <=> (Holds(v, j) /\ wpc[v] = "finalizeSuccess")'
    BY <1>8 DEF FailJob, Leave
  <2> HIDE DEF TypeOK, SendInv, RowInv, KeyInv, Clean, Holds, Leased
  <2> QED
    BY <2>1, <2>2, Frame
<1>9. ASSUME NEW w \in Workers, Claim(w) PROVE SendInv'
  BY <1>9, SMTT(60) DEF Claim, TakeLease, Claimable
<1>10. ASSUME NEW w \in Workers, Load(w) PROVE SendInv'
  BY <1>10 DEF Load
<1>11. ASSUME NEW w \in Workers, SendAccepted(w) PROVE SendInv'
  BY <1>11 DEF SendAccepted, Deliver
<1>12. ASSUME NEW w \in Workers, SendRejected(w) PROVE SendInv'
  <2>1. UNCHANGED <<status, age, identity, delivered, excuse>>
    BY <1>12 DEF SendRejected
  <2>2. \A v \in Workers, j \in Keys :
          /\ Holds(v, j)' => Holds(v, j)
          /\ (Holds(v, j) /\ wpc[v] = "finalizeSuccess")
               <=> (Holds(v, j) /\ wpc[v] = "finalizeSuccess")'
    BY <1>12 DEF SendRejected, SmtpError, Caught
  <2> HIDE DEF TypeOK, SendInv, RowInv, KeyInv, Clean, Holds, Leased
  <2> QED
    BY <2>1, <2>2, Frame
<1>13. ASSUME NEW w \in Workers, FinalizeSendSuccess(w) PROVE SendInv'
  BY <1>13 DEF FinalizeSendSuccess
<1>14. ASSUME NEW w \in Workers, FinalizeSendFailure(w) PROVE SendInv'
  BY <1>14 DEF FinalizeSendFailure
<1>15. ASSUME NEW w \in Workers, NEW k \in Keys, GetJob(w, k) PROVE SendInv'
  <2>1. UNCHANGED <<status, age, identity, delivered, excuse>>
    BY <1>15 DEF GetJob
  <2>2. \A v \in Workers, j \in Keys :
          /\ Holds(v, j)' => Holds(v, j)
          /\ (Holds(v, j) /\ wpc[v] = "finalizeSuccess")
               <=> (Holds(v, j) /\ wpc[v] = "finalizeSuccess")'
    BY <1>15 DEF GetJob
  <2> HIDE DEF TypeOK, SendInv, RowInv, KeyInv, Clean, Holds, Leased
  <2> QED
    BY <2>1, <2>2, Frame
<1>16. ASSUME NEW w \in Workers, ClaimError(w) PROVE SendInv'
  BY <1>16 DEF ClaimError
<1>17. ASSUME NEW w \in Workers, SendReplyLost(w) PROVE SendInv'
  <2>0. KeyOf[wreq[w]] \in Keys
    <3> HIDE DEF TypeOK, SendInv, RowInv, KeyInv, Clean, Holds, Leased
    <3> QED
      BY <1>0, <1>17 DEF SendReplyLost
  <2> PICK c \in Keys : c = KeyOf[wreq[w]]
    BY <2>0
  <2>1. Holds(w, c)
    BY <1>17 DEF SendReplyLost
  <2>2. ~Clean(c)'
    <3>1. "lostReply" \in excuse'[c]
      BY <1>17 DEF SendReplyLost, Blame
    <3> QED
      BY <3>1
  <2>3. /\ UNCHANGED identity
        /\ status[c] = "none" <=> status'[c] = "none"
        /\ \A k \in Keys : k # c =>
             /\ status'[k] = status[k] /\ age'[k] = age[k]
             /\ delivered'[k] = delivered[k] /\ excuse'[k] = excuse[k]
    BY <1>17, <2>1 DEF SendReplyLost, Blame, Deliver
  <2>4. UNCHANGED wreq /\ \A v \in Workers : v # w => wpc'[v] = wpc[v]
    BY <1>17 DEF SendReplyLost, SmtpError, Caught
  <2>5. /\ \A v \in Workers : v # w => \A k \in Keys : Holds(v, k)' <=> Holds(v, k)
        /\ \A k \in Keys : Holds(w, k)' => k = c
        /\ \A k \in Keys : Holds(w, k) => k = c
    BY <2>4
  <2> HIDE DEF TypeOK, SendInv, RowInv, KeyInv, Clean, Holds, Leased
  <2> QED
    BY <2>1, <2>2, <2>3, <2>4, <2>5, FrameBlame
<1>18. ASSUME NEW w \in Workers, SentCopyError(w) PROVE SendInv'
  <2>0. KeyOf[wreq[w]] \in Keys
    <3> HIDE DEF TypeOK, SendInv, RowInv, KeyInv, Clean, Holds, Leased
    <3> QED
      BY <1>0, <1>18 DEF SentCopyError
  <2> PICK c \in Keys : c = KeyOf[wreq[w]]
    BY <2>0
  <2>1. Holds(w, c)
    BY <1>18 DEF SentCopyError
  <2>2. ~Clean(c)'
    <3>1. "sentCopy" \in excuse'[c]
      BY <1>18 DEF SentCopyError, Blame
    <3> QED
      BY <3>1
  <2>3. /\ UNCHANGED identity
        /\ status[c] = "none" <=> status'[c] = "none"
        /\ \A k \in Keys : k # c =>
             /\ status'[k] = status[k] /\ age'[k] = age[k]
             /\ delivered'[k] = delivered[k] /\ excuse'[k] = excuse[k]
    BY <1>18, <2>1 DEF SentCopyError, Blame, Deliver
  <2>4. UNCHANGED wreq /\ \A v \in Workers : v # w => wpc'[v] = wpc[v]
    BY <1>18 DEF SentCopyError, Caught
  <2>5. /\ \A v \in Workers : v # w => \A k \in Keys : Holds(v, k)' <=> Holds(v, k)
        /\ \A k \in Keys : Holds(w, k)' => k = c
        /\ \A k \in Keys : Holds(w, k) => k = c
    BY <2>4
  <2> HIDE DEF TypeOK, SendInv, RowInv, KeyInv, Clean, Holds, Leased
  <2> QED
    BY <2>1, <2>2, <2>3, <2>4, <2>5, FrameBlame
<1>19. ASSUME NEW w \in Workers, FinalizeSuccessError(w) PROVE SendInv'
  <2>0. KeyOf[wreq[w]] \in Keys
    <3> HIDE DEF TypeOK, SendInv, RowInv, KeyInv, Clean, Holds, Leased
    <3> QED
      BY <1>0, <1>19 DEF FinalizeSuccessError
  <2> PICK c \in Keys : c = KeyOf[wreq[w]]
    BY <2>0
  <2>1. Holds(w, c)
    BY <1>19 DEF FinalizeSuccessError
  <2>2. ~Clean(c)'
    <3>1. "db" \in excuse'[c]
      BY <1>19 DEF FinalizeSuccessError, Blame
    <3> QED
      BY <3>1
  <2>3. /\ UNCHANGED identity
        /\ status[c] = "none" <=> status'[c] = "none"
        /\ \A k \in Keys : k # c =>
             /\ status'[k] = status[k] /\ age'[k] = age[k]
             /\ delivered'[k] = delivered[k] /\ excuse'[k] = excuse[k]
    BY <1>19, <2>1 DEF FinalizeSuccessError, Blame
  <2>4. UNCHANGED wreq /\ \A v \in Workers : v # w => wpc'[v] = wpc[v]
    BY <1>19 DEF FinalizeSuccessError, Caught
  <2>5. /\ \A v \in Workers : v # w => \A k \in Keys : Holds(v, k)' <=> Holds(v, k)
        /\ \A k \in Keys : Holds(w, k)' => k = c
        /\ \A k \in Keys : Holds(w, k) => k = c
    BY <2>4
  <2> HIDE DEF TypeOK, SendInv, RowInv, KeyInv, Clean, Holds, Leased
  <2> QED
    BY <2>1, <2>2, <2>3, <2>4, <2>5, FrameBlame
<1>20. ASSUME NEW w \in Workers, FinalizeFailureError(w) PROVE SendInv'
  BY <1>20 DEF FinalizeFailureError, Blame
<1>21. ASSUME NEW w \in Workers, Crash(w) PROVE SendInv'
  <2>1. CASE wpc[w] = "finalizeSuccess"
    <3>0. KeyOf[wreq[w]] \in Keys
      <4> HIDE DEF TypeOK, SendInv, RowInv, KeyInv, Clean, Holds, Leased
      <4> QED
        BY <1>0, <2>1
    <3> PICK c \in Keys : c = KeyOf[wreq[w]]
      BY <3>0
    <3>1. Holds(w, c)
      BY <2>1
    <3>2. ~Clean(c)'
      <4>1. "crash" \in excuse'[c]
        BY <1>21, <2>1 DEF Crash, Blame
      <4> QED
        BY <4>1
    <3>3. /\ UNCHANGED <<identity, status, age, delivered>>
          /\ \A k \in Keys : k # c => excuse'[k] = excuse[k]
      BY <1>21, <2>1 DEF Crash, Blame
    <3>4. \A v \in Workers : v # w => wpc'[v] = wpc[v] /\ wreq'[v] = wreq[v]
      BY <1>21 DEF Crash, Leave
    <3>5. wpc'[w] = "dead"
      BY <1>21 DEF Crash, Leave
    <3>6. /\ \A v \in Workers : v # w => \A k \in Keys : Holds(v, k)' <=> Holds(v, k)
          /\ \A k \in Keys : Holds(w, k)' => k = c
          /\ \A k \in Keys : Holds(w, k) => k = c
      BY <3>4, <3>5
    <3> HIDE DEF TypeOK, SendInv, RowInv, KeyInv, Clean, Holds, Leased
    <3> QED
      BY <3>1, <3>2, <3>3, <3>4, <3>6, FrameBlame
  <2>2. CASE wpc[w] # "finalizeSuccess"
    <3>1. UNCHANGED <<status, age, identity, delivered, excuse>>
      BY <1>21, <2>2 DEF Crash
    <3>2. \A v \in Workers, j \in Keys :
            /\ Holds(v, j)' => Holds(v, j)
            /\ (Holds(v, j) /\ wpc[v] = "finalizeSuccess")
                 <=> (Holds(v, j) /\ wpc[v] = "finalizeSuccess")'
      BY <1>21, <2>2 DEF Crash, Leave
    <3> HIDE DEF TypeOK, SendInv, RowInv, KeyInv, Clean, Holds, Leased
    <3> QED
      BY <3>1, <3>2, Frame
  <2> QED
    BY <2>1, <2>2
<1>22. ASSUME NEW k \in Keys, LockAges(k) PROVE SendInv'
  BY <1>22 DEF LockAges
<1>23. ASSUME NEW k \in Keys, ResetLock(k) PROVE SendInv'
  BY <1>23 DEF ResetLock
<1>24. ASSUME NEW k \in Keys, LeaseLapses(k) PROVE SendInv'
  <2>1. CASE \E w \in Workers : Holds(w, k)
    <3>1. PICK w \in Workers : Holds(w, k)
      BY <2>1
    <3>2. ~Clean(k)'
      <4>1. "lease" \in excuse'[k]
        BY <1>24, <2>1 DEF LeaseLapses, Blame
      <4> QED
        BY <4>1
    <3>3. /\ UNCHANGED <<identity, status, delivered, wpc, wreq>>
          /\ \A j \in Keys : j # k => age'[j] = age[j] /\ excuse'[j] = excuse[j]
      BY <1>24, <2>1 DEF LeaseLapses, Blame
    <3>4. /\ \A v \in Workers : v # w => \A j \in Keys : Holds(v, j)' <=> Holds(v, j)
          /\ \A j \in Keys : Holds(w, j)' => j = k
          /\ \A j \in Keys : Holds(w, j) => j = k
      BY <3>1, <3>3
    <3> HIDE DEF TypeOK, SendInv, RowInv, KeyInv, Clean, Holds, Leased
    <3> QED
      BY <3>1, <3>2, <3>3, <3>4, FrameBlame
  <2>2. CASE ~\E w \in Workers : Holds(w, k)
    BY <1>24, <2>2 DEF LeaseLapses
  <2> QED
    BY <2>1, <2>2
<1>25. ASSUME NEW k \in Keys, RowExpires(k) PROVE SendInv'
  BY <1>25 DEF RowExpires, Blame
<1>26. ASSUME DeleteOutgoingConnector PROVE SendInv'
  BY <1>26 DEF DeleteOutgoingConnector
<1>27. ASSUME UNCHANGED vars PROVE SendInv'
  BY <1>27 DEF vars
<1> QED
  BY <1>1, <1>2, <1>3, <1>4, <1>5, <1>6, <1>7, <1>8, <1>9, <1>10, <1>11, <1>12, <1>13, <1>14,
     <1>15, <1>16, <1>17, <1>18, <1>19, <1>20, <1>21, <1>22, <1>23, <1>24, <1>25, <1>26, <1>27
     DEF Next, Route, Run, Fault

\* SendInv holds in every reachable state.
LEMMA SendInvariant == Spec => []SendInv
<1>1. Init => SendInv
  BY SendAssumption DEF Init, SendInv, RowInv, KeyInv, Holds, Leased
<1> QED
  BY <1>1, SendStep, TypeCorrect, PTL DEF Spec

\* Whatever the number of calls, runs, crashes and retries, two copies of one mail
\* take a send that outlived its lease or whose outcome did not reach its row.
THEOREM SendsAtMostOnce == Spec => []AtMostOnce
<1>1. SendInv => AtMostOnce
  BY DEF SendInv, KeyInv, AtMostOnce
<1> QED
  BY <1>1, SendInvariant, PTL

\* acquireSendClaim is a mutual exclusion lock for as long as no holder outlives it.
THEOREM LeaseHasOneHolder == Spec => []OneHolder
<1>1. SendInv => OneHolder
  BY DEF SendInv, KeyInv, OneHolder
<1> QED
  BY <1>1, SendInvariant, PTL

\* The row of a sent mail keeps saying so: no unfenced finalizer overwrites it
\* unless a send outlived its lease or lost its outcome.
THEOREM RecordedSuccessStays == Spec => SucceededIsFinal
<1>1. TypeOK /\ SendInv /\ [Next]_vars =>
        [\A k \in Keys : status[k] = "succeeded" /\ Clean(k) =>
           status'[k] \in {"succeeded", "none"}]_vars
  <2> SUFFICES ASSUME TypeOK, SendInv, Next, NEW k \in Keys,
                      status[k] = "succeeded", Clean(k)
               PROVE  status'[k] \in {"succeeded", "none"}
    BY Zenon
  <2>1. \A w \in Workers : ~Holds(w, k)
    BY DEF SendInv, KeyInv
  <2>2. KeyOf \in [Requests -> Keys] /\ None \notin Requests
    BY SendAssumption
  <2> USE DEF TypeOK
  <2>3. ASSUME NEW r \in Requests, RouteInsert(r) PROVE status'[k] = "succeeded"
    BY <2>2, <2>3 DEF RouteInsert, rowVars
  <2>4. ASSUME NEW w \in Workers, Claim(w) PROVE status'[k] = "succeeded"
    BY <2>2, <2>4 DEF Claim, Claimable, TakeLease
  <2>5. ASSUME NEW w \in Workers, FinalizeSendFailure(w) PROVE status'[k] = "succeeded"
    BY <2>1, <2>2, <2>5 DEF FinalizeSendFailure, Holds, Leased
  <2>6. ASSUME NEW w \in Workers, FinalizeSendSuccess(w) PROVE status'[k] = "succeeded"
    BY <2>2, <2>6 DEF FinalizeSendSuccess
  <2>7. ASSUME NEW w \in Workers, FinalizeSuccessError(w) PROVE status'[k] = "succeeded"
    BY <2>2, <2>7 DEF FinalizeSuccessError
  <2>8. ASSUME DeleteOutgoingConnector PROVE status'[k] = "none"
    BY <2>8 DEF DeleteOutgoingConnector
  <2>9. ASSUME NEW r \in Requests,
               RouteFind(r) \/ RouteRefind(r) \/ RouteEnqueue(r) \/ RouteAbort(r)
        PROVE  status'[k] = "succeeded"
    BY <2>9 DEF RouteFind, RouteRefind, RouteEnqueue, RouteAbort, rowVars
  <2>10. ASSUME NEW w \in Workers,
                \/ Boot(w) \/ CompleteJob(w) \/ FailJob(w) \/ Load(w)
                \/ SendAccepted(w) \/ SendRejected(w) \/ ClaimError(w)
                \/ SendReplyLost(w) \/ SentCopyError(w) \/ FinalizeFailureError(w)
                \/ Crash(w) \/ \E j \in Keys : GetJob(w, j)
         PROVE  status'[k] = "succeeded"
    BY <2>10 DEF Boot, CompleteJob, FailJob, Load, SendAccepted, SendRejected, ClaimError,
         SendReplyLost, SentCopyError, FinalizeFailureError, Crash, GetJob, rowVars
  <2>11. ASSUME NEW j \in Keys,
                LockAges(j) \/ ResetLock(j) \/ LeaseLapses(j) \/ RowExpires(j)
         PROVE  status'[k] = "succeeded"
    BY <2>11 DEF LockAges, ResetLock, LeaseLapses, RowExpires, rowVars
  <2> QED
    BY <2>3, <2>4, <2>5, <2>6, <2>7, <2>8, <2>9, <2>10, <2>11
       DEF Next, Route, Run, Fault
<1> QED
  BY <1>1, SendInvariant, TypeCorrect, PTL DEF Spec, SucceededIsFinal

-----------------------------------------------------------------------------
\* What SuccessIsTrue needs: finalizeSendSuccess runs only after a delivery.
SuccessInv ==
  /\ SuccessIsTrue
  /\ \A w \in Workers : wpc[w] = "finalizeSuccess" => delivered[KeyOf[wreq[w]]] > 0

\* Every step keeps SuccessInv: only a run whose send was accepted finalizes success.
LEMMA SuccessStep == TypeOK /\ TypeOK' /\ SuccessInv /\ [Next]_vars => SuccessInv'
<1> SUFFICES ASSUME TypeOK, TypeOK', SuccessInv, [Next]_vars PROVE SuccessInv'
  OBVIOUS
<1> USE SendAssumption DEF TypeOK, SuccessInv, SuccessIsTrue,
      rowVars, jobVars, routeVars, workVars, mailVars
<1>1. ASSUME NEW r \in Requests, RouteFind(r) PROVE SuccessInv'
  BY <1>1 DEF RouteFind, AnswerByStatus, Answer
<1>2. ASSUME NEW r \in Requests, RouteInsert(r) PROVE SuccessInv'
  BY <1>2 DEF RouteInsert, Answer
<1>3. ASSUME NEW r \in Requests, RouteRefind(r) PROVE SuccessInv'
  BY <1>3 DEF RouteRefind, AnswerByStatus, Answer
<1>4. ASSUME NEW r \in Requests, RouteEnqueue(r) PROVE SuccessInv'
  BY <1>4 DEF RouteEnqueue, Answer
<1>5. ASSUME NEW r \in Requests, RouteAbort(r) PROVE SuccessInv'
  BY <1>5 DEF RouteAbort, Answer
<1>6. ASSUME NEW w \in Workers, Boot(w) PROVE SuccessInv'
  BY <1>6 DEF Boot
<1>7. ASSUME NEW w \in Workers, CompleteJob(w) PROVE SuccessInv'
  BY <1>7 DEF CompleteJob, Leave
<1>8. ASSUME NEW w \in Workers, FailJob(w) PROVE SuccessInv'
  BY <1>8 DEF FailJob, Leave
<1>9. ASSUME NEW w \in Workers, Claim(w) PROVE SuccessInv'
  BY <1>9 DEF Claim, TakeLease, Claimable
<1>10. ASSUME NEW w \in Workers, Load(w) PROVE SuccessInv'
  BY <1>10 DEF Load
<1>11. ASSUME NEW w \in Workers, SendAccepted(w) PROVE SuccessInv'
  BY <1>11 DEF SendAccepted, Deliver
<1>12. ASSUME NEW w \in Workers, SendRejected(w) PROVE SuccessInv'
  BY <1>12 DEF SendRejected, SmtpError, Caught
<1>13. ASSUME NEW w \in Workers, FinalizeSendSuccess(w) PROVE SuccessInv'
  BY <1>13 DEF FinalizeSendSuccess
<1>14. ASSUME NEW w \in Workers, FinalizeSendFailure(w) PROVE SuccessInv'
  BY <1>14 DEF FinalizeSendFailure
<1>15. ASSUME NEW w \in Workers, NEW k \in Keys, GetJob(w, k) PROVE SuccessInv'
  BY <1>15 DEF GetJob, Available
<1>16. ASSUME NEW w \in Workers, ClaimError(w) PROVE SuccessInv'
  BY <1>16 DEF ClaimError
<1>17. ASSUME NEW w \in Workers, SendReplyLost(w) PROVE SuccessInv'
  BY <1>17 DEF SendReplyLost, Deliver, SmtpError, Caught
<1>18. ASSUME NEW w \in Workers, SentCopyError(w) PROVE SuccessInv'
  BY <1>18 DEF SentCopyError, Deliver, Caught
<1>19. ASSUME NEW w \in Workers, FinalizeSuccessError(w) PROVE SuccessInv'
  BY <1>19 DEF FinalizeSuccessError, Caught
<1>20. ASSUME NEW w \in Workers, FinalizeFailureError(w) PROVE SuccessInv'
  BY <1>20 DEF FinalizeFailureError
<1>21. ASSUME NEW w \in Workers, Crash(w) PROVE SuccessInv'
  BY <1>21 DEF Crash, Leave
<1>22. ASSUME NEW k \in Keys, LockAges(k) PROVE SuccessInv'
  BY <1>22 DEF LockAges
<1>23. ASSUME NEW k \in Keys, ResetLock(k) PROVE SuccessInv'
  BY <1>23 DEF ResetLock
<1>24. ASSUME NEW k \in Keys, LeaseLapses(k) PROVE SuccessInv'
  BY <1>24 DEF LeaseLapses
<1>25. ASSUME NEW k \in Keys, RowExpires(k) PROVE SuccessInv'
  BY <1>25 DEF RowExpires
<1>26. ASSUME DeleteOutgoingConnector PROVE SuccessInv'
  BY <1>26 DEF DeleteOutgoingConnector
<1>27. ASSUME UNCHANGED vars PROVE SuccessInv'
  BY <1>27 DEF vars
<1> QED
  BY <1>1, <1>2, <1>3, <1>4, <1>5, <1>6, <1>7, <1>8, <1>9, <1>10, <1>11, <1>12,
     <1>13, <1>14, <1>15, <1>16, <1>17, <1>18, <1>19, <1>20, <1>21, <1>22,
     <1>23, <1>24, <1>25, <1>26, <1>27
     DEF Next, Route, Run, Fault

\* No row and no answer claims a success before a server took the mail.
THEOREM SuccessIsNeverInvented == Spec => []SuccessIsTrue
<1>1. Init => SuccessInv
  BY SendAssumption DEF Init, SuccessInv, SuccessIsTrue
<1>2. SuccessInv => SuccessIsTrue
  BY DEF SuccessInv
<1> QED
  BY <1>1, <1>2, SuccessStep, TypeCorrect, PTL DEF Spec
-----------------------------------------------------------------------------
(* Crashes orphan no row: the lease on a row is shorter than the lock on its job, *)
(* so whoever is 'processing' with nobody at work has a job left that will take   *)
(* it over.                                                                       *)

Sound(k) == identity /\ excuse[k] \cap {"db", "lease", "expiry"} = {}
Runs(w, k) == wreq[w] # None /\ KeyOf[wreq[w]] = k

\* The run of a job is the one that holds the job's lock.
Locked(k) ==
  \A w \in Workers : Runs(w, k) => jobReq[k] = wreq[w] /\ jobLock[k] = w /\ ~lockOld[k]

\* A run with the lease has it fresh, and what a run leaves is final.
Leases(k) ==
  /\ age[k] # "expired"
  /\ \A w \in Workers : Holds(w, k) => status[k] = "processing" /\ age[k] = "fresh"
  /\ \A w \in Workers : Runs(w, k) /\ wpc[w] = "complete" => status[k] \in {"succeeded", "failed"}

\* A row that was left 'processing' has a job, locked by the dead while the lease is fresh.
Awaits(k) ==
  status[k] = "processing" /\ (\A w \in Workers : ~Holds(w, k)) =>
    /\ jobReq[k] # None
    /\ age[k] = "fresh" => jobLock[k] \in Workers /\ wpc[jobLock[k]] = "dead" /\ ~lockOld[k]

\* A key whose row no fault has cut loose; without an identity there are no rows.
JobInv(k) == Locked(k) /\ Leases(k) /\ Awaits(k)
Kept(k) == Sound(k) => JobInv(k)
OrphanInv ==
  /\ \A k \in Keys : Kept(k)
  /\ ~identity => \A k \in Keys : status[k] = "none"
-----------------------------------------------------------------------------
\* The steps of one key and one worker leave the others as they were.
SameKey(k) ==
  /\ status'[k] = status[k] /\ age'[k] = age[k] /\ excuse'[k] = excuse[k]
  /\ jobReq'[k] = jobReq[k] /\ jobLock'[k] = jobLock[k] /\ lockOld'[k] = lockOld[k]
SameRun(v) == wpc'[v] = wpc[v] /\ wreq'[v] = wreq[v]
Elsewhere(v, k) ==
  /\ wpc[v] # "dead"
  /\ wreq[v] # None => KeyOf[wreq[v]] # k
  /\ wreq'[v] # None => KeyOf[wreq'[v]] # k

\* A run that holds a lease runs a job of that key.
LEMMA HoldersRun ==
  ASSUME TypeOK
  PROVE  \A v \in Workers, k \in Keys : Holds(v, k) => Runs(v, k)
BY DEF TypeOK, Holds, Leased, Runs

LEMMA HoldersRunNext ==
  ASSUME TypeOK'
  PROVE  \A v \in Workers, k \in Keys : Holds(v, k)' => Runs(v, k)'
BY DEF TypeOK, Holds, Leased, Runs

\* A key that nothing happens to keeps JobInv.
LEMMA Untouched ==
  ASSUME TypeOK, TypeOK', NEW k \in Keys, SameKey(k), JobInv(k),
         \A v \in Workers : SameRun(v) \/ Elsewhere(v, k)
  PROVE  JobInv(k)'
<1>1. \A v \in Workers : Runs(v, k)' => SameRun(v) /\ Runs(v, k)
  BY DEF Runs, SameRun, Elsewhere
<1>2. \A v \in Workers : Holds(v, k)' => Holds(v, k) /\ SameRun(v)
  BY <1>1, HoldersRunNext DEF Holds, SameRun
<1>3. \A v \in Workers : Holds(v, k) => Holds(v, k)'
  <2>1. TAKE v \in Workers
  <2>2. HAVE Holds(v, k)
  <2>3. Runs(v, k)
    BY <2>2, HoldersRun
  <2>4. SameRun(v)
    BY <2>3 DEF Runs, Elsewhere
  <2>5. QED
    BY <2>2, <2>4 DEF Holds, SameRun
<1>4. Locked(k)'
  BY <1>1 DEF JobInv, Locked, SameKey, SameRun
<1>5. Leases(k)'
  BY <1>1, <1>2 DEF JobInv, Leases, SameKey, SameRun
<1>6. Awaits(k)'
  <2>1. SUFFICES ASSUME status'[k] = "processing", \A w \in Workers : ~Holds(w, k)'
                 PROVE  /\ jobReq'[k] # None
                        /\ age'[k] = "fresh" => jobLock'[k] \in Workers /\ wpc'[jobLock'[k]] = "dead" /\ ~lockOld'[k]
    BY DEF Awaits
  <2>2. \A w \in Workers : ~Holds(w, k)
    BY <2>1, <1>3
  <2>3. /\ jobReq[k] # None
        /\ age[k] = "fresh" => jobLock[k] \in Workers /\ wpc[jobLock[k]] = "dead" /\ ~lockOld[k]
    BY <2>1, <2>2 DEF JobInv, Awaits, SameKey
  <2>4. \A v \in Workers : wpc[v] = "dead" => wpc'[v] = "dead"
    BY DEF SameRun, Elsewhere
  <2>5. QED
    BY <2>3, <2>4 DEF SameKey
<1>7. QED
  BY <1>4, <1>5, <1>6 DEF JobInv

\* A step that concerns one key.
LEMMA OneKey ==
  ASSUME TypeOK, TypeOK', OrphanInv, NEW c \in Keys, identity' = identity,
         \A k \in Keys : k # c => SameKey(k) /\ \A v \in Workers : SameRun(v) \/ Elsewhere(v, k),
         ~identity => status'[c] = "none",
         Kept(c)'
  PROVE  OrphanInv'
<1>1. ASSUME NEW k \in Keys, k # c PROVE Kept(k)'
  <2>1. SUFFICES ASSUME Sound(k)' PROVE JobInv(k)'
    BY DEF Kept
  <2>2. SameKey(k) /\ \A v \in Workers : SameRun(v) \/ Elsewhere(v, k)
    BY <1>1
  <2>3. Sound(k)
    BY <2>1, <2>2 DEF Sound, SameKey
  <2>4. JobInv(k)
    BY <2>3 DEF OrphanInv, Kept
  <2>5. QED
    BY <2>2, <2>4, Untouched
<1>2. ASSUME ~identity', NEW k \in Keys PROVE status'[k] = "none"
  BY <1>2 DEF OrphanInv, SameKey
<1>3. QED
  BY <1>1, <1>2 DEF OrphanInv
-----------------------------------------------------------------------------
\* A step that leaves rows, jobs and workers alone.
LEMMA AllSame ==
  ASSUME TypeOK, TypeOK', OrphanInv, UNCHANGED <<rowVars, jobVars, wpc, wreq, excuse>>
  PROVE  OrphanInv'
<1>1. /\ identity' = identity /\ status' = status
      /\ \A k \in Keys : SameKey(k)
      /\ \A v \in Workers : SameRun(v)
  BY DEF rowVars, jobVars, SameKey, SameRun
<1>2. ASSUME NEW k \in Keys PROVE Kept(k)'
  <2>1. SUFFICES ASSUME Sound(k)' PROVE JobInv(k)'
    BY DEF Kept
  <2>2. Sound(k)
    BY <1>1, <2>1 DEF Sound, SameKey
  <2>3. QED
    BY <1>1, <2>2, Untouched DEF OrphanInv, Kept
<1>3. QED
  BY <1>1, <1>2 DEF OrphanInv

\* A step of one worker, at work for one key.
LEMMA OneRun ==
  ASSUME TypeOK, TypeOK', OrphanInv, NEW w \in Workers, NEW c \in Keys,
         wpc[w] # "dead", wreq[w] # None => KeyOf[wreq[w]] = c, wreq'[w] # None => KeyOf[wreq'[w]] = c,
         \A v \in Workers : v # w => SameRun(v),
         \A k \in Keys : k # c => SameKey(k),
         identity' = identity, ~identity => status'[c] = "none",
         Kept(c)'
  PROVE  OrphanInv'
<1>1. ASSUME NEW k \in Keys, k # c, NEW v \in Workers PROVE SameRun(v) \/ Elsewhere(v, k)
  <2>1. CASE v = w
    BY <1>1, <2>1 DEF Elsewhere
  <2>2. CASE v # w
    BY <2>2
  <2>3. QED
    BY <2>1, <2>2
<1>2. QED
  BY <1>1, OneKey

\* A worker that is busy runs a job.
LEMMA Busy ==
  ASSUME TypeOK, NEW w \in Workers, wpc[w] \notin {"off", "idle", "dead"}
  PROVE  wreq[w] \in Requests /\ KeyOf[wreq[w]] \in Keys /\ Runs(w, KeyOf[wreq[w]])
BY SendAssumption DEF TypeOK, Runs

\* Faults are not forgotten, and an identity does not come back.
LEMMA SoundBefore ==
  ASSUME OrphanInv, NEW k \in Keys, Sound(k)', identity' => identity, excuse[k] \subseteq excuse'[k]
  PROVE  Sound(k) /\ JobInv(k)
<1>1. Sound(k)
  BY DEF Sound
<1>2. QED
  BY <1>1 DEF OrphanInv, Kept

\* A run that goes on: it keeps its job, and what it does to its row suits it.
LEMMA RunGoesOn ==
  ASSUME TypeOK, TypeOK', OrphanInv, NEW w \in Workers, NEW c \in Keys, Runs(w, c), wpc[w] # "dead",
         wreq' = wreq, \A v \in Workers : v # w => wpc'[v] = wpc[v],
         UNCHANGED <<identity, jobVars>>, excuse[c] \subseteq excuse'[c],
         \A k \in Keys : k # c => SameKey(k), ~identity => status'[c] = "none",
         Sound(c)' /\ JobInv(c) =>
           /\ age'[c] # "expired"
           /\ wpc'[w] \in Leased => status'[c] = "processing" /\ age'[c] = "fresh"
           /\ wpc'[w] = "complete" => status'[c] \in {"succeeded", "failed"}
           /\ status'[c] = "processing" /\ wpc'[w] \notin Leased => age'[c] # "fresh"
  PROVE  OrphanInv'
<1>1. Kept(c)'
  <2>1. SUFFICES ASSUME Sound(c)' PROVE JobInv(c)'
    BY DEF Kept
  <2>2. JobInv(c)
    BY <2>1, SoundBefore
  <2>3. jobReq' = jobReq /\ jobLock' = jobLock /\ lockOld' = lockOld
    BY DEF jobVars
  <2>4. \A v \in Workers : Runs(v, c)' => Runs(v, c)
    BY DEF Runs
  <2>5. jobReq[c] = wreq[w] /\ jobReq[c] # None /\ \A v \in Workers : Runs(v, c) => v = w
    BY <2>2 DEF JobInv, Locked, Runs
  <2>6. Locked(c)'
    BY <2>2, <2>3, <2>4 DEF JobInv, Locked
  <2>7. \A v \in Workers : Holds(v, c)' => v = w
    BY <2>4, <2>5, HoldersRunNext
  <2>8. Leases(c)'
    BY <2>1, <2>2, <2>4, <2>5, <2>7 DEF Leases, Holds
  <2>9. Holds(w, c)' <=> wpc'[w] \in Leased
    BY DEF Runs, Holds
  <2>10. Awaits(c)'
    BY <2>1, <2>2, <2>3, <2>5, <2>9 DEF Awaits
  <2>11. QED
    BY <2>6, <2>8, <2>10 DEF JobInv
<1>2. (wreq[w] # None => KeyOf[wreq[w]] = c) /\ (wreq'[w] # None => KeyOf[wreq'[w]] = c)
  BY DEF Runs
<1>3. \A v \in Workers : v # w => SameRun(v)
  BY DEF SameRun
<1>4. QED
  BY <1>1, <1>2, <1>3, OneRun

\* A run that ends: its row is final, waits for a retry, or keeps the lock of the dead.
LEMMA RunEnds ==
  ASSUME TypeOK, TypeOK', OrphanInv, NEW w \in Workers, NEW c \in Keys, Runs(w, c), wpc[w] # "dead",
         wreq'[w] = None, \A v \in Workers : v # w => SameRun(v),
         UNCHANGED rowVars, excuse[c] \subseteq excuse'[c],
         \A k \in Keys : k # c => SameKey(k),
         Sound(c)' /\ JobInv(c) =>
           \/ status[c] \in {"succeeded", "failed"}
           \/ /\ jobReq'[c] = jobReq[c]
              /\ \/ status[c] = "processing" => age[c] # "fresh"
                 \/ wpc'[w] = "dead" /\ jobLock'[c] = w /\ ~lockOld'[c]
  PROVE  OrphanInv'
<1>1. status' = status /\ age' = age /\ identity' = identity
  BY DEF rowVars
<1>2. Kept(c)'
  <2>1. SUFFICES ASSUME Sound(c)' PROVE JobInv(c)'
    BY DEF Kept
  <2>2. JobInv(c)
    BY <1>1, <2>1, SoundBefore
  <2>3. jobReq[c] # None /\ \A v \in Workers : Runs(v, c) => v = w
    BY <2>2 DEF JobInv, Locked, Runs
  <2>4. \A v \in Workers : ~Runs(v, c)'
    BY <2>3 DEF Runs, SameRun
  <2>5. \A v \in Workers : ~Holds(v, c)'
    BY <2>4, HoldersRunNext
  <2>6. Locked(c)' /\ Leases(c)'
    BY <1>1, <2>2, <2>4, <2>5 DEF JobInv, Locked, Leases
  <2>7. Awaits(c)'
    BY <1>1, <2>1, <2>2, <2>3 DEF Awaits
  <2>8. QED
    BY <2>6, <2>7 DEF JobInv
<1>3. (wreq[w] # None => KeyOf[wreq[w]] = c) /\ (~identity => status'[c] = "none")
  BY <1>1 DEF Runs, OrphanInv
<1>4. QED
  BY <1>1, <1>2, <1>3, OneRun
-----------------------------------------------------------------------------
\* What JobInv says of the run of a job that does not hold the lease: nobody does, and
\* the row does not say it is fresh at work.
LEMMA OnlyRun ==
  ASSUME TypeOK, NEW w \in Workers, NEW k \in Keys, Runs(w, k), JobInv(k), wpc[w] \notin Leased, wpc[w] # "dead"
  PROVE  status[k] = "processing" => age[k] # "fresh"
<1>1. jobLock[k] = w /\ \A v \in Workers : Runs(v, k) => v = w
  BY DEF JobInv, Locked
<1>2. \A v \in Workers : ~Holds(v, k)
  BY <1>1, HoldersRun DEF Holds
<1>3. QED
  BY <1>1, <1>2 DEF JobInv, Awaits

LEMMA ClaimKeeps ==
  ASSUME TypeOK, TypeOK', OrphanInv, NEW w \in Workers, Claim(w)
  PROVE  OrphanInv'
<1> DEFINE c == KeyOf[wreq[w]]
<1>1. c \in Keys /\ Runs(w, c) /\ wpc[w] = "claim"
  BY Busy DEF Claim
<1>2. /\ wreq' = wreq /\ UNCHANGED <<identity, jobVars>> /\ excuse' = excuse
      /\ \A v \in Workers : v # w => wpc'[v] = wpc[v]
  BY DEF Claim, TypeOK
<1>3. \/ Claimable(c) /\ status'[c] = "processing" /\ age'[c] = "fresh" /\ wpc'[w] = "load"
      \/ ~Claimable(c) /\ status[c] # "none" /\ status'[c] = status[c] /\ age'[c] = age[c] /\ wpc'[w] = "complete"
      \/ status[c] = "none" /\ status'[c] = status[c] /\ age'[c] = age[c] /\ wpc'[w] = "fail"
  BY <1>1 DEF Claim, TakeLease, TypeOK
<1>4. \A k \in Keys : k # c => SameKey(k)
  BY DEF Claim, TakeLease, SameKey, jobVars, TypeOK
<1>5. ~identity => status'[c] = "none"
  BY <1>1, <1>3 DEF OrphanInv, Claimable
<1> HIDE DEF c
<1>6. ASSUME JobInv(c)
      PROVE  /\ age'[c] # "expired"
             /\ wpc'[w] \in Leased => status'[c] = "processing" /\ age'[c] = "fresh"
             /\ wpc'[w] = "complete" => status'[c] \in {"succeeded", "failed"}
             /\ status'[c] = "processing" /\ wpc'[w] \notin Leased => age'[c] # "fresh"
  <2>1. age[c] # "expired"
    BY <1>6 DEF JobInv, Leases
  <2>2. status[c] = "processing" => age[c] # "fresh"
    BY <1>1, <1>6, OnlyRun DEF Leased
  <2>3. status[c] \in Statuses /\ age[c] \in Ages
    BY <1>1 DEF TypeOK
  <2>4. QED
    BY <1>3, <2>1, <2>2, <2>3 DEF Claimable, Leased, Statuses, Ages
<1>7. QED
  BY <1>1, <1>2, <1>4, <1>5, <1>6, RunGoesOn

\* A step on the way, or a failure of a query whose handler goes on, with the row left as
\* it is: the run keeps its lease, or had none.
LEMMA OnTheWay ==
  ASSUME TypeOK, TypeOK', OrphanInv, NEW w \in Workers, wpc[w] \notin {"off", "idle", "dead"},
         UNCHANGED <<rowVars, jobVars, wreq>>, \A v \in Workers : v # w => wpc'[v] = wpc[v],
         excuse' = excuse \/ \E f \in FaultKinds : Blame(KeyOf[wreq[w]], f),
         \/ wpc[w] \in Leased /\ wpc'[w] \in Leased
         \/ wpc[w] \notin Leased /\ wpc'[w] = "fail"
         \/ "db" \in excuse'[KeyOf[wreq[w]]]
  PROVE  OrphanInv'
<1>1. PICK c \in Keys : c = KeyOf[wreq[w]] /\ Runs(w, c)
  BY Busy
<1>2. status' = status /\ age' = age /\ identity' = identity /\ (~identity => status'[c] = "none")
  BY <1>1 DEF rowVars, OrphanInv
<1>3. excuse[c] \subseteq excuse'[c] /\ \A k \in Keys : k # c => excuse'[k] = excuse[k]
  BY <1>1 DEF Blame, TypeOK
<1>4. \A k \in Keys : k # c => SameKey(k)
  BY <1>2, <1>3 DEF SameKey, jobVars
<1>5. \/ wpc[w] \in Leased /\ wpc'[w] \in Leased
      \/ wpc[w] \notin Leased /\ wpc'[w] = "fail"
      \/ "db" \in excuse'[c]
  BY <1>1
<1>6. ASSUME Sound(c)', JobInv(c)
      PROVE  /\ age'[c] # "expired"
             /\ wpc'[w] \in Leased => status'[c] = "processing" /\ age'[c] = "fresh"
             /\ wpc'[w] = "complete" => status'[c] \in {"succeeded", "failed"}
             /\ status'[c] = "processing" /\ wpc'[w] \notin Leased => age'[c] # "fresh"
  <2>1. age[c] # "expired"
    BY <1>6 DEF JobInv, Leases
  <2>2. wpc[w] \notin Leased /\ status[c] = "processing" => age[c] # "fresh"
    BY <1>1, <1>6, OnlyRun
  <2>3. wpc[w] \in Leased => status[c] = "processing" /\ age[c] = "fresh"
    BY <1>1, <1>6 DEF JobInv, Leases, Holds, Runs
  <2>4. wpc'[w] # "complete" /\ (wpc'[w] = "fail" => wpc'[w] \notin Leased)
    BY <1>5, <1>6 DEF Leased, Sound
  <2>5. QED
    BY <1>2, <1>5, <1>6, <2>1, <2>2, <2>3, <2>4 DEF Leased, Sound
<1>7. wreq' = wreq /\ UNCHANGED <<identity, jobVars>>
  BY <1>2
<1>8. QED
  BY <1>1, <1>2, <1>3, <1>4, <1>6, <1>7, RunGoesOn

\* A finalizer records its outcome.
LEMMA FinalizerKeeps ==
  ASSUME TypeOK, TypeOK', OrphanInv, NEW w \in Workers, FinalizeSendSuccess(w) \/ FinalizeSendFailure(w)
  PROVE  OrphanInv'
<1> DEFINE c == KeyOf[wreq[w]]
<1>1. c \in Keys /\ Runs(w, c) /\ wpc[w] \in Leased
  BY Busy DEF FinalizeSendSuccess, FinalizeSendFailure, Leased
<1>2. /\ wreq' = wreq /\ UNCHANGED <<identity, jobVars>> /\ excuse' = excuse /\ wpc'[w] \in {"complete", "fail"}
      /\ \A v \in Workers : v # w => wpc'[v] = wpc[v]
  BY DEF FinalizeSendSuccess, FinalizeSendFailure, TypeOK
<1>3. \/ status[c] = "none" /\ status'[c] = "none"
      \/ status[c] # "none" /\ status'[c] \in {"succeeded", "failed"} /\ age'[c] = "fresh"
  BY <1>1 DEF FinalizeSendSuccess, FinalizeSendFailure, TypeOK
<1>4. \A k \in Keys : k # c => SameKey(k)
  BY DEF FinalizeSendSuccess, FinalizeSendFailure, SameKey, jobVars, TypeOK
<1>5. ~identity => status'[c] = "none"
  BY <1>1, <1>3 DEF OrphanInv
<1> HIDE DEF c
<1>6. ASSUME JobInv(c)
      PROVE  /\ age'[c] # "expired"
             /\ wpc'[w] \in Leased => status'[c] = "processing" /\ age'[c] = "fresh"
             /\ wpc'[w] = "complete" => status'[c] \in {"succeeded", "failed"}
             /\ status'[c] = "processing" /\ wpc'[w] \notin Leased => age'[c] # "fresh"
  <2>1. status[c] = "processing"
    BY <1>1, <1>6 DEF JobInv, Leases, Holds, Runs
  <2>2. QED
    BY <1>2, <1>3, <2>1 DEF Leased
<1>7. QED
  BY <1>1, <1>2, <1>4, <1>5, <1>6, RunGoesOn DEF Leased

\* The outcome is recorded, or not, before the query throws: that is a fault.
LEMMA SuccessErrorKeeps ==
  ASSUME TypeOK, TypeOK', OrphanInv, NEW w \in Workers, FinalizeSuccessError(w)
  PROVE  OrphanInv'
<1>1. PICK c \in Keys : c = KeyOf[wreq[w]] /\ Runs(w, c) /\ wpc[w] # "dead"
  BY Busy DEF FinalizeSuccessError
<1>2. wreq' = wreq /\ UNCHANGED <<identity, jobVars>> /\ \A v \in Workers : v # w => wpc'[v] = wpc[v]
  BY DEF FinalizeSuccessError, Caught, TypeOK
<1>3. excuse'[c] = excuse[c] \cup {"db"}
  BY <1>1 DEF FinalizeSuccessError, Blame, TypeOK
<1>4. ~Sound(c)'
  BY <1>3 DEF Sound
<1>5. \A k \in Keys : k # c => SameKey(k)
  BY <1>1 DEF FinalizeSuccessError, Blame, SameKey, jobVars, TypeOK
<1>6. ~identity => status'[c] = "none"
  BY <1>1 DEF OrphanInv, FinalizeSuccessError, TypeOK
<1>7. QED
  BY <1>1, <1>2, <1>3, <1>4, <1>5, <1>6, RunGoesOn

\* The three ways a run ends: its job is deleted, unlocked, or left with the dead.
LEMMA CompleteKeeps ==
  ASSUME TypeOK, TypeOK', OrphanInv, NEW w \in Workers, CompleteJob(w)
  PROVE  OrphanInv'
<1> DEFINE c == KeyOf[wreq[w]]
<1>1. c \in Keys /\ Runs(w, c) /\ wpc[w] = "complete"
  BY Busy DEF CompleteJob
<1>2. wreq'[w] = None /\ \A v \in Workers : v # w => SameRun(v)
  BY DEF CompleteJob, Leave, SameRun, TypeOK
<1>3. UNCHANGED rowVars /\ excuse' = excuse
  BY DEF CompleteJob
<1>4. \A k \in Keys : k # c => SameKey(k)
  BY <1>3 DEF CompleteJob, SameKey, rowVars, TypeOK
<1>5. JobInv(c) => status[c] \in {"succeeded", "failed"}
  BY <1>1 DEF JobInv, Leases
<1> HIDE DEF c
<1>6. QED
  BY <1>1, <1>2, <1>3, <1>4, <1>5, RunEnds

LEMMA FailKeeps ==
  ASSUME TypeOK, TypeOK', OrphanInv, NEW w \in Workers, FailJob(w)
  PROVE  OrphanInv'
<1> DEFINE c == KeyOf[wreq[w]]
<1>1. c \in Keys /\ Runs(w, c) /\ wpc[w] = "fail"
  BY Busy DEF FailJob
<1>2. wreq'[w] = None /\ \A v \in Workers : v # w => SameRun(v)
  BY DEF FailJob, Leave, SameRun, TypeOK
<1>3. UNCHANGED rowVars /\ excuse' = excuse /\ jobReq' = jobReq
  BY DEF FailJob
<1>4. \A k \in Keys : k # c => SameKey(k)
  BY <1>3 DEF FailJob, SameKey, rowVars, TypeOK
<1> HIDE DEF c
<1>5. JobInv(c) => (status[c] = "processing" => age[c] # "fresh")
  BY <1>1, OnlyRun DEF Leased
<1>6. QED
  BY <1>1, <1>2, <1>3, <1>4, <1>5, RunEnds

LEMMA CrashKeeps ==
  ASSUME TypeOK, TypeOK', OrphanInv, NEW w \in Workers, Crash(w)
  PROVE  OrphanInv'
<1> DEFINE c == KeyOf[wreq[w]]
<1>1. /\ wpc[w] # "dead" /\ wpc'[w] = "dead" /\ wreq'[w] = None
      /\ \A v \in Workers : v # w => SameRun(v)
  BY DEF Crash, Leave, SameRun, TypeOK
<1>2. UNCHANGED <<rowVars, jobVars>>
  BY DEF Crash
<1>3. CASE wreq[w] = None
  <2>1. wpc[w] \in {"off", "idle"} /\ wreq' = wreq /\ excuse' = excuse
    BY <1>3 DEF Crash, Leave, TypeOK
  <2>2. \A k \in Keys : SameKey(k)
    BY <1>2, <2>1 DEF SameKey, rowVars, jobVars
  <2>3. \A k \in Keys, v \in Workers : SameRun(v) \/ Elsewhere(v, k)
    BY <1>1, <1>3 DEF Elsewhere
  <2>4. ASSUME NEW k \in Keys PROVE Kept(k)'
    <3>1. SUFFICES ASSUME Sound(k)' PROVE JobInv(k)'
      BY DEF Kept
    <3>2. JobInv(k)
      BY <1>2, <2>1, <3>1, SoundBefore DEF rowVars
    <3>3. QED
      BY <2>2, <2>3, <3>2, Untouched
  <2>5. QED
    BY <1>2, <2>4 DEF OrphanInv, rowVars
<1>4. CASE wreq[w] # None
  <2>1. c \in Keys /\ Runs(w, c)
    BY <1>4, SendAssumption DEF TypeOK, Runs
  <2>2. excuse[c] \subseteq excuse'[c] /\ \A k \in Keys : k # c => excuse'[k] = excuse[k]
    BY <2>1 DEF Crash, Blame, TypeOK
  <2>3. \A k \in Keys : k # c => SameKey(k)
    BY <1>2, <2>2 DEF SameKey, rowVars, jobVars
  <2> HIDE DEF c
  <2>4. UNCHANGED rowVars /\ jobReq' = jobReq /\ jobLock' = jobLock /\ lockOld' = lockOld
    BY <1>2 DEF jobVars
  <2>5. JobInv(c) => jobLock'[c] = w /\ ~lockOld'[c]
    BY <2>1, <2>4 DEF JobInv, Locked
  <2>6. QED
    BY <1>1, <2>1, <2>2, <2>3, <2>4, <2>5, RunEnds
<1>5. QED
  BY <1>3, <1>4
-----------------------------------------------------------------------------
\* A run is given a job that nobody had.
LEMMA GetJobKeeps ==
  ASSUME TypeOK, TypeOK', OrphanInv, NEW w \in Workers, NEW k \in Keys, GetJob(w, k)
  PROVE  OrphanInv'
<1>1. /\ wpc[w] = "idle" /\ wpc'[w] = "claim" /\ wreq[w] = None
      /\ jobReq[k] # None /\ KeyOf[jobReq[k]] = k /\ wreq'[w] = jobReq[k]
      /\ jobLock[k] = None /\ jobLock'[k] = w /\ ~lockOld'[k] /\ jobReq' = jobReq
  BY DEF GetJob, Available, TypeOK
<1>2. status' = status /\ age' = age /\ identity' = identity /\ excuse' = excuse
  BY DEF GetJob, rowVars
<1>3. \A v \in Workers : v # w => SameRun(v)
  BY DEF GetJob, SameRun, TypeOK
<1>4. \A i \in Keys : i # k => SameKey(i)
  BY <1>2 DEF GetJob, SameKey, TypeOK
<1>5. Kept(k)'
  <2>1. SUFFICES ASSUME Sound(k)' PROVE JobInv(k)'
    BY DEF Kept
  <2>2. JobInv(k)
    BY <1>2, <2>1, SoundBefore
  <2>3. \A v \in Workers : ~Runs(v, k)
    BY <1>1, <2>2, SendAssumption DEF JobInv, Locked
  <2>4. \A v \in Workers : Runs(v, k)' => v = w
    BY <1>3, <2>3 DEF Runs, SameRun
  <2>5. (\A v \in Workers : ~Holds(v, k)) /\ \A v \in Workers : ~Holds(v, k)'
    BY <1>1, <2>3, <2>4, HoldersRun, HoldersRunNext DEF Holds, Leased
  <2>6. Locked(k)'
    BY <1>1, <2>4 DEF Locked
  <2>7. Leases(k)'
    BY <1>1, <1>2, <2>2, <2>4, <2>5 DEF JobInv, Leases
  <2>8. Awaits(k)'
    BY <1>1, <1>2, <2>2, <2>5, SendAssumption DEF JobInv, Awaits
  <2>9. QED
    BY <2>6, <2>7, <2>8 DEF JobInv
<1>6. ~identity => status'[k] = "none"
  BY <1>2 DEF OrphanInv
<1>7. QED
  BY <1>1, <1>2, <1>3, <1>4, <1>5, <1>6, OneRun

\* A step that leaves the workers as they are: a call, a lock or a clock.
LEMMA NoRun ==
  ASSUME TypeOK, TypeOK', OrphanInv, NEW c \in Keys, identity' = identity, wpc' = wpc, wreq' = wreq,
         \A k \in Keys : k # c => SameKey(k), excuse[c] \subseteq excuse'[c],
         ~identity => status'[c] = "none",
         Sound(c)' /\ JobInv(c) =>
           /\ (\E v \in Workers : Runs(v, c)) => UNCHANGED <<jobReq[c], jobLock[c], lockOld[c]>>
           /\ age'[c] # "expired"
           /\ (status[c] \in {"succeeded", "failed"} => status'[c] = status[c])
           /\ (\E v \in Workers : Holds(v, c)) => UNCHANGED <<status[c], age[c]>>
           /\ status'[c] = "processing" =>
                /\ status[c] = "processing" /\ jobReq'[c] = jobReq[c]
                /\ age'[c] = "fresh" => age[c] = "fresh" /\ UNCHANGED <<jobLock[c], lockOld[c]>>
  PROVE  OrphanInv'
<1>1. Kept(c)'
  <2>1. SUFFICES ASSUME Sound(c)' PROVE JobInv(c)'
    BY DEF Kept
  <2>2. JobInv(c)
    BY <2>1, SoundBefore
  <2>3. \A v \in Workers : (Runs(v, c)' <=> Runs(v, c)) /\ (Holds(v, c)' <=> Holds(v, c))
    BY DEF Runs, Holds
  <2>4. Locked(c)'
    BY <2>1, <2>2, <2>3 DEF JobInv, Locked
  <2>5. Leases(c)'
    BY <2>1, <2>2, <2>3 DEF JobInv, Leases
  <2>6. Awaits(c)'
    BY <2>1, <2>2, <2>3 DEF JobInv, Awaits
  <2>7. QED
    BY <2>4, <2>5, <2>6 DEF JobInv
<1>2. \A v \in Workers : SameRun(v)
  BY DEF SameRun
<1>3. QED
  BY <1>1, <1>2, OneKey

\* A worker that boots frees old locks; the lock of a run is not old, nor the lock of the
\* dead while their lease is fresh.
LEMMA BootKeeps ==
  ASSUME TypeOK, TypeOK', OrphanInv, NEW w \in Workers, Boot(w)
  PROVE  OrphanInv'
<1>1. /\ wpc[w] = "off" /\ wpc'[w] = "idle" /\ \A v \in Workers : v # w => wpc'[v] = wpc[v]
      /\ wreq' = wreq /\ status' = status /\ age' = age /\ identity' = identity /\ excuse' = excuse
      /\ jobReq' = jobReq /\ lockOld' = lockOld
  BY DEF Boot, rowVars, TypeOK
<1>2. \A k \in Keys : ~lockOld[k] => jobLock'[k] = jobLock[k]
  BY DEF Boot
<1>3. \A v \in Workers, k \in Keys : (Runs(v, k)' <=> Runs(v, k)) /\ (Holds(v, k)' <=> Holds(v, k))
  BY <1>1 DEF Runs, Holds, Leased
<1>4. ASSUME NEW k \in Keys PROVE Kept(k)'
  <2>1. SUFFICES ASSUME Sound(k)' PROVE JobInv(k)'
    BY DEF Kept
  <2>2. JobInv(k)
    BY <1>1, <2>1, SoundBefore
  <2>3. Locked(k)'
    BY <1>1, <1>2, <1>3, <2>2 DEF JobInv, Locked
  <2>4. Leases(k)'
    BY <1>1, <1>3, <2>2 DEF JobInv, Leases
  <2>5. Awaits(k)'
    BY <1>1, <1>2, <1>3, <2>2 DEF JobInv, Awaits
  <2>6. QED
    BY <2>3, <2>4, <2>5 DEF JobInv
<1>5. QED
  BY <1>1, <1>4 DEF OrphanInv

\* A call makes a row that nobody works for.
LEMMA InsertKeeps ==
  ASSUME TypeOK, TypeOK', OrphanInv, NEW r \in Requests, RouteInsert(r)
  PROVE  OrphanInv'
<1>1. KeyOf[r] \in Keys
  BY SendAssumption
<1>2. wpc' = wpc /\ wreq' = wreq /\ identity' = identity /\ excuse' = excuse
      /\ jobReq' = jobReq /\ jobLock' = jobLock /\ lockOld' = lockOld
  BY DEF RouteInsert, jobVars, workVars, rowVars
<1>3. CASE status' = status /\ age' = age
  <2>1. UNCHANGED <<wpc, wreq, excuse, jobVars>>
    BY DEF RouteInsert, workVars
  <2>2. UNCHANGED rowVars
    BY <1>3 DEF RouteInsert, rowVars, TypeOK
  <2>3. QED
    BY <2>1, <2>2, AllSame
<1>4. CASE /\ identity /\ status[KeyOf[r]] = "none"
           /\ status' = [status EXCEPT ![KeyOf[r]] = "pending"] /\ age' = [age EXCEPT ![KeyOf[r]] = "fresh"]
  <2> DEFINE c == KeyOf[r]
  <2>1. identity /\ status[c] = "none" /\ status'[c] = "pending" /\ age'[c] = "fresh"
    BY <1>1, <1>4 DEF TypeOK
  <2>2. \A k \in Keys : k # c => SameKey(k)
    BY <1>2, <1>4 DEF SameKey, TypeOK
  <2>3. JobInv(c) => \A v \in Workers : ~Holds(v, c)
    BY <2>1 DEF JobInv, Leases
  <2> HIDE DEF c
  <2>4. c \in Keys
    BY <1>1 DEF c
  <2>5. QED
    BY <1>2, <2>1, <2>2, <2>3, <2>4, NoRun
<1>5. QED
  BY <1>3, <1>4 DEF RouteInsert, rowVars

\* A job is enqueued where none is: no run has its lock.
LEMMA EnqueueKeeps ==
  ASSUME TypeOK, TypeOK', OrphanInv, NEW r \in Requests, RouteEnqueue(r)
  PROVE  OrphanInv'
<1>1. KeyOf[r] \in Keys
  BY SendAssumption
<1>2. /\ wpc' = wpc /\ wreq' = wreq /\ identity' = identity /\ excuse' = excuse
      /\ status' = status /\ age' = age
  BY DEF RouteEnqueue, rowVars, workVars
<1>3. CASE jobReq[KeyOf[r]] # None
  <2>1. UNCHANGED <<rowVars, jobVars, wpc, wreq, excuse>>
    BY <1>3 DEF RouteEnqueue, workVars
  <2>2. QED
    BY <2>1, AllSame
<1>4. CASE jobReq[KeyOf[r]] = None
  <2> DEFINE c == KeyOf[r]
  <2>1. \A k \in Keys : k # c => SameKey(k)
    BY <1>2, <1>4 DEF RouteEnqueue, SameKey, TypeOK
  <2>2. ASSUME JobInv(c) PROVE (\A v \in Workers : ~Runs(v, c) /\ ~Holds(v, c)) /\ status[c] # "processing" /\ age[c] # "expired"
    <3>1. \A v \in Workers : ~Runs(v, c)
      BY <1>4, <2>2 DEF JobInv, Locked, Runs
    <3>2. \A v \in Workers : ~Holds(v, c)
      BY <1>1, <3>1, HoldersRun
    <3>3. QED
      BY <1>4, <2>2, <3>1, <3>2 DEF JobInv, Leases, Awaits
  <2> HIDE DEF c
  <2>3. c \in Keys /\ (~identity => status[c] = "none")
    BY <1>1 DEF c, OrphanInv
  <2>4. QED
    BY <1>2, <2>1, <2>2, <2>3, NoRun
<1>5. QED
  BY <1>3, <1>4

\* Locks age and are freed where no run is at work with a fresh lease.
LEMMA LockKeeps ==
  ASSUME TypeOK, TypeOK', OrphanInv, NEW k \in Keys, LockAges(k) \/ ResetLock(k)
  PROVE  OrphanInv'
<1>1. /\ wpc' = wpc /\ wreq' = wreq /\ identity' = identity /\ excuse' = excuse
      /\ status' = status /\ age' = age /\ jobReq' = jobReq
  BY DEF LockAges, ResetLock, rowVars, workVars
<1>2. \A i \in Keys : i # k => SameKey(i)
  BY <1>1 DEF LockAges, ResetLock, SameKey, TypeOK
<1>3. ASSUME JobInv(k), NEW v \in Workers, Runs(v, k) PROVE FALSE
  <2>1. jobLock[k] = v /\ ~lockOld[k]
    BY <1>3 DEF JobInv, Locked
  <2>2. wpc[v] \in Leased \cup {"dead"} /\ (status[k] = "processing" => age[k] # "fresh")
    BY <2>1 DEF LockAges, ResetLock
  <2>3. Holds(v, k)
    BY <1>3, <2>2 DEF Runs, Holds, TypeOK
  <2>4. QED
    BY <1>3, <2>2, <2>3 DEF JobInv, Leases
<1>4. ASSUME JobInv(k) PROVE status[k] = "processing" => age[k] # "fresh"
  <2>1. \A v \in Workers : ~Holds(v, k)
    BY <1>3, <1>4, HoldersRun
  <2>2. QED
    BY <1>4, <2>1 DEF JobInv, Awaits, LockAges, ResetLock
<1>5. JobInv(k) => age[k] # "expired"
  BY DEF JobInv, Leases
<1>6. ~identity => status[k] = "none"
  BY DEF OrphanInv
<1>7. QED
  BY <1>1, <1>2, <1>3, <1>4, <1>5, <1>6, NoRun

\* A lease lapses without a fault only where no run holds it; a row expires by a fault.
LEMMA ClockKeeps ==
  ASSUME TypeOK, TypeOK', OrphanInv, NEW k \in Keys, LeaseLapses(k) \/ RowExpires(k)
  PROVE  OrphanInv'
<1>1. /\ wpc' = wpc /\ wreq' = wreq /\ identity' = identity /\ status' = status
      /\ jobReq' = jobReq /\ jobLock' = jobLock /\ lockOld' = lockOld
  BY DEF LeaseLapses, RowExpires, jobVars, workVars
<1>2. \A i \in Keys : i # k => SameKey(i)
  BY <1>1 DEF LeaseLapses, RowExpires, Blame, SameKey, TypeOK
<1>3. excuse[k] \subseteq excuse'[k]
  BY DEF LeaseLapses, RowExpires, Blame, TypeOK
<1>4. \/ age'[k] = "stale" /\ \A v \in Workers : ~Holds(v, k)
      \/ "lease" \in excuse'[k]
      \/ "expiry" \in excuse'[k]
  <2>1. CASE LeaseLapses(k)
    BY <2>1 DEF LeaseLapses, Blame, TypeOK
  <2>2. CASE RowExpires(k)
    BY <2>2 DEF RowExpires, Blame, TypeOK
  <2>3. QED
    BY <2>1, <2>2
<1>5. ~identity => status[k] = "none"
  BY DEF OrphanInv
<1>6. QED
  BY <1>1, <1>2, <1>3, <1>4, <1>5, NoRun DEF Sound
-----------------------------------------------------------------------------
\* Every step keeps OrphanInv.
LEMMA OrphanStep == TypeOK /\ TypeOK' /\ OrphanInv /\ [Next]_vars => OrphanInv'
<1> SUFFICES ASSUME TypeOK, TypeOK', OrphanInv, [Next]_vars PROVE OrphanInv'
  OBVIOUS
<1>1. ASSUME NEW r \in Requests, RouteFind(r) \/ RouteRefind(r) \/ RouteAbort(r) PROVE OrphanInv'
  <2>1. UNCHANGED <<rowVars, jobVars, wpc, wreq, excuse>>
    BY <1>1 DEF RouteFind, RouteRefind, RouteAbort, workVars
  <2>2. QED
    BY <2>1, AllSame
<1>2. ASSUME NEW w \in Workers, Load(w) \/ ClaimError(w) PROVE OrphanInv'
  <2>1. \/ wpc[w] = "load" /\ wpc'[w] \in {"send", "finalizeFailure"}
        \/ wpc[w] = "claim" /\ wpc'[w] = "fail"
    BY <1>2 DEF Load, ClaimError, TypeOK
  <2>2. \A v \in Workers : v # w => wpc'[v] = wpc[v]
    BY <1>2 DEF Load, ClaimError, TypeOK
  <2>3. UNCHANGED <<rowVars, jobVars, wreq>> /\ excuse' = excuse
    BY <1>2 DEF Load, ClaimError
  <2>4. QED
    BY <2>1, <2>2, <2>3, OnTheWay DEF Leased
<1>3. ASSUME NEW w \in Workers, SendAccepted(w) \/ SendRejected(w) \/ SendReplyLost(w) \/ SentCopyError(w)
      PROVE  OrphanInv'
  <2>1. /\ wpc[w] = "send" /\ wpc'[w] \in Leased
        /\ \A v \in Workers : v # w => wpc'[v] = wpc[v]
    BY <1>3 DEF SendAccepted, SendRejected, SendReplyLost, SentCopyError, SmtpError, Caught, Leased, TypeOK
  <2>2. UNCHANGED <<rowVars, jobVars, wreq>>
    BY <1>3 DEF SendAccepted, SendRejected, SendReplyLost, SentCopyError
  <2>3. excuse' = excuse \/ \E f \in FaultKinds : Blame(KeyOf[wreq[w]], f)
    BY <1>3 DEF SendAccepted, SendRejected, SendReplyLost, SentCopyError, FaultKinds
  <2>4. QED
    BY <2>1, <2>2, <2>3, OnTheWay DEF Leased
<1>4. ASSUME NEW w \in Workers, FinalizeFailureError(w) PROVE OrphanInv'
  <2>1. wpc[w] = "finalizeFailure" /\ \A v \in Workers : v # w => wpc'[v] = wpc[v]
    BY <1>4 DEF FinalizeFailureError, TypeOK
  <2>2. UNCHANGED <<rowVars, jobVars, wreq>> /\ Blame(KeyOf[wreq[w]], "db")
    BY <1>4 DEF FinalizeFailureError
  <2>3. "db" \in excuse'[KeyOf[wreq[w]]]
    BY <2>1, <2>2, Busy DEF Blame, TypeOK
  <2>4. QED
    BY <2>1, <2>2, <2>3, OnTheWay DEF FaultKinds
<1>5. ASSUME DeleteOutgoingConnector PROVE OrphanInv'
  BY <1>5 DEF DeleteOutgoingConnector, OrphanInv, Kept, Sound
<1>6. ASSUME UNCHANGED vars PROVE OrphanInv'
  BY <1>6, AllSame DEF vars, workVars
<1>7. QED
  BY <1>1, <1>2, <1>3, <1>4, <1>5, <1>6, InsertKeeps, EnqueueKeeps, BootKeeps, GetJobKeeps, CompleteKeeps, FailKeeps,
     ClaimKeeps, FinalizerKeeps, SuccessErrorKeeps, CrashKeeps, LockKeeps, ClockKeeps
  DEF Next, Route, Run, Fault

\* A row stays 'processing' with nobody at work and no job only after a failed finalizer, a
\* send that outlived its lease, or its 24 hours: not after any crashes.
THEOREM CrashesOrphanNothing == Spec => []NoOrphan
<1>1. Init => OrphanInv
  BY SendAssumption DEF Init, OrphanInv, Kept, Sound, JobInv, Locked, Leases, Awaits, Runs, Holds, Leased
<1>2. Spec => [](TypeOK /\ OrphanInv)
  BY <1>1, OrphanStep, TypeCorrect, PTL DEF Spec
<1>3. OrphanInv => NoOrphan
  <2>1. ASSUME OrphanInv, NEW k \in Keys, excuse[k] \cap {"db", "lease", "expiry"} = {}, Orphaned(k) PROVE FALSE
    BY <2>1 DEF OrphanInv, Kept, Sound, JobInv, Awaits, Orphaned
  <2>2. QED
    BY <2>1 DEF NoOrphan
<1>4. QED
  BY <1>2, <1>3, PTL

-----------------------------------------------------------------------------
(* The pipeline implements the mailer: one step of the mailer, or none, to a step of  *)
(* the pipeline.                                                                      *)

\* A call that is not done has not been answered.
ReplyInv == \A r \in Requests : rpc[r] # "done" => reply[r] = "none"

LEMMA ReplyStep == TypeOK /\ ReplyInv /\ [Next]_vars => ReplyInv'
<1>1. SUFFICES ASSUME TypeOK, ReplyInv, [Next]_vars PROVE ReplyInv'
  OBVIOUS
<1>2. rpc \in [Requests -> RoutePcs] /\ reply \in [Requests -> Replies]
  BY <1>1 DEF TypeOK
<1>3. ASSUME UNCHANGED routeVars PROVE ReplyInv'
  BY <1>1, <1>3 DEF routeVars, ReplyInv
<1>4. ASSUME NEW r \in Requests, RouteFind(r) PROVE ReplyInv'
  BY <1>1, <1>2, <1>4 DEF RouteFind, AnswerByStatus, Answer, ReplyInv
<1>5. ASSUME NEW r \in Requests, RouteInsert(r) PROVE ReplyInv'
  BY <1>1, <1>2, <1>5 DEF RouteInsert, Answer, ReplyInv
<1>6. ASSUME NEW r \in Requests, RouteRefind(r) PROVE ReplyInv'
  BY <1>1, <1>2, <1>6 DEF RouteRefind, AnswerByStatus, Answer, ReplyInv
<1>7. ASSUME NEW r \in Requests, RouteEnqueue(r) \/ RouteAbort(r) PROVE ReplyInv'
  BY <1>1, <1>2, <1>7 DEF RouteEnqueue, RouteAbort, Answer, ReplyInv
<1>8. ASSUME NEW w \in Workers, Run(w) PROVE UNCHANGED routeVars
  BY <1>8 DEF Run, Boot, CompleteJob, FailJob, Claim, Load, SendAccepted, SendRejected,
     FinalizeSendSuccess, FinalizeSendFailure, GetJob
<1>9. ASSUME NEW w \in Workers, Fault(w) PROVE UNCHANGED routeVars
  BY <1>9 DEF Fault, ClaimError, SendReplyLost, SentCopyError, FinalizeSuccessError,
     FinalizeFailureError, Crash
<1>10. ASSUME NEW k \in Keys, LockAges(k) \/ ResetLock(k) \/ LeaseLapses(k) \/ RowExpires(k)
       PROVE  UNCHANGED routeVars
  BY <1>10 DEF LockAges, ResetLock, LeaseLapses, RowExpires
<1>11. DeleteOutgoingConnector \/ UNCHANGED vars => UNCHANGED routeVars
  BY DEF DeleteOutgoingConnector, vars
<1>12. QED
  BY <1>1, <1>3, <1>4, <1>5, <1>6, <1>7, <1>8, <1>9, <1>10, <1>11 DEF Next, Route

\* What a step does to the records and to the hurt keys.
LEMMA RecordsStay == UNCHANGED status => UNCHANGED Records
  BY DEF Records

LEMMA RecordsMove ==
  ASSUME TypeOK, NEW k \in Keys, NEW s, status' = [status EXCEPT ![k] = s]
  PROVE  Records' = [Records EXCEPT ![k] = IF s \in {"pending", "processing"} THEN "open" ELSE s]
<1>1. status \in [Keys -> Statuses]
  BY DEF TypeOK
<1>2. \A j \in Keys : status'[j] = IF j = k THEN s ELSE status[j]
  BY <1>1
<1>3. \A j \in Keys : Records'[j] = IF j = k THEN IF s \in {"pending", "processing"} THEN "open" ELSE s
                                            ELSE Records[j]
  BY <1>2 DEF Records
<1>4. QED
  BY <1>3 DEF Records

LEMMA HurtStays == UNCHANGED excuse => UNCHANGED Hurt
  BY DEF Hurt, Clean

LEMMA HurtComes ==
  ASSUME TypeOK, NEW k \in Keys, NEW fault, Blame(k, fault)
  PROVE  /\ fault \in Duplicating => Hurt' = [Hurt EXCEPT ![k] = TRUE]
         /\ fault \notin Duplicating => Hurt' = Hurt
<1>1. excuse \in [Keys -> SUBSET FaultKinds]
  BY DEF TypeOK
<1>2. \A j \in Keys : excuse'[j] = IF j = k THEN excuse[k] \cup {fault} ELSE excuse[j]
  BY <1>1 DEF Blame
<1>3. ASSUME fault \in Duplicating PROVE \A j \in Keys : Clean(j)' <=> j # k /\ Clean(j)
  BY <1>2, <1>3 DEF Clean
<1>4. ASSUME fault \notin Duplicating PROVE \A j \in Keys : Clean(j)' <=> Clean(j)
  BY <1>2, <1>4 DEF Clean
<1>5. ASSUME fault \in Duplicating PROVE Hurt' = [Hurt EXCEPT ![k] = TRUE]
  <2>1. \A j \in Keys : Hurt'[j] = IF j = k THEN TRUE ELSE Hurt[j]
    BY <1>3, <1>5 DEF Hurt
  <2>2. QED
    BY <2>1 DEF Hurt
<1>6. ASSUME fault \notin Duplicating PROVE Hurt' = Hurt
  BY <1>4, <1>6 DEF Hurt
<1>7. QED
  BY <1>5, <1>6

\* What the record of a key says of its row.
LEMMA RecordIs ==
  ASSUME TypeOK, NEW k \in Keys
  PROVE  /\ Records[k] = "open" <=> status[k] \in {"pending", "processing"}
         /\ \A s \in {"none", "succeeded", "failed"} : Records[k] = s <=> status[k] = s
<1>1. status[k] \in Statuses
  BY DEF TypeOK
<1>2. QED
  BY <1>1 DEF Records, Statuses

\* A run that holds the lease of a key that is not hurt finds its record open, or the
\* connector deleted, and no mail out unless its own is.
LEMMA HolderKnows ==
  ASSUME TypeOK, SendInv, NEW w \in Workers, wpc[w] \in Leased,
         NEW k, k = KeyOf[wreq[w]]
  PROVE  /\ k \in Keys
         /\ ~Hurt[k] => Records[k] = "open" \/ (Records[k] = "none" /\ ~identity)
         /\ ~Hurt[k] /\ wpc[w] # "finalizeSuccess" => delivered[k] = 0
<1>1. k \in Keys
  BY KeyOfRun DEF Leased
<1>2. Holds(w, k)
  BY DEF Holds
<1>3. Hurt[k] = ~Clean(k)
  BY <1>1 DEF Hurt
<1>4. Clean(k) => KeyInv(k)
  BY <1>1 DEF SendInv
<1>5. Clean(k) => status[k] \in {"processing", "none"} /\ (wpc[w] # "finalizeSuccess" => delivered[k] = 0)
  BY <1>2, <1>4 DEF KeyInv
<1>6. status[k] = "none" => ~identity
  BY <1>1, <1>2 DEF SendInv, RowInv
<1>7. QED
  BY <1>1, <1>3, <1>5, <1>6, RecordIs

\* A record that says the mail failed is right, of a key that is not hurt.
LEMMA FailedIsTrue ==
  ASSUME TypeOK, SendInv, NEW k \in Keys, status[k] = "failed" PROVE Hurt[k] \/ delivered[k] = 0
<1>1. Hurt[k] = ~Clean(k)
  BY DEF Hurt
<1>2. SUFFICES ASSUME Clean(k) PROVE delivered[k] = 0
  BY <1>1
<1>3. KeyInv(k)
  BY <1>2 DEF SendInv
<1>4. \A w \in Workers : ~Holds(w, k)
  BY <1>3 DEF KeyInv
<1>5. ~(delivered[k] > 0) /\ delivered[k] \in Nat
  BY <1>3, <1>4 DEF KeyInv, TypeOK
<1>6. QED
  BY <1>5

-----------------------------------------------------------------------------
Told == [Mailer!Next]_Mailer!vars

LEMMA NothingTold ==
  ASSUME UNCHANGED <<status, identity, delivered, excuse, reply>> PROVE Told
<1>1. UNCHANGED <<Records, Hurt>>
  BY RecordsStay, HurtStays
<1>2. QED
  BY <1>1 DEF Told, Mailer!vars

\* An answer that the record allows.
LEMMA AnswerTold ==
  ASSUME TypeOK, ReplyInv, NEW r \in Requests, rpc[r] # "done", NEW what, Answer(r, what),
         UNCHANGED <<status, identity, delivered, excuse>>,
         \/ what \in {"queued", "rejected", "error"}
         \/ what = "in_flight" /\ status[KeyOf[r]] = "processing"
         \/ what \in {"succeeded", "failed"} /\ status[KeyOf[r]] = what
  PROVE  Told
<1>1. UNCHANGED <<Records, Hurt>>
  BY RecordsStay, HurtStays
<1>2. KeyOf[r] \in Keys
  BY SendAssumption
<1>3. reply[r] = "none" /\ reply' = [reply EXCEPT ![r] = what]
  BY DEF ReplyInv, Answer
<1>4. \/ what \in {"queued", "rejected", "error"}
      \/ what = "in_flight" /\ Records[KeyOf[r]] = "open"
      \/ what \in {"succeeded", "failed"} /\ Records[KeyOf[r]] = what
  BY <1>2, RecordIs
<1>5. Mailer!Answer(r, what)
  BY <1>1, <1>3, <1>4 DEF Mailer!Answer
<1>6. what \in Mailer!Answers
  BY <1>4 DEF Mailer!Answers
<1>7. QED
  BY <1>5, <1>6 DEF Told, Mailer!Next

LEMMA RoutesTell ==
  ASSUME TypeOK, SendInv, ReplyInv, NEW r \in Requests, Route(r) \/ RouteAbort(r) PROVE Told
<1>1. KeyOf[r] \in Keys
  BY SendAssumption
<1>2. ASSUME rpc[r] # "done", AnswerByStatus(r), UNCHANGED <<rowVars, jobVars, workVars, mailVars, excuse>> PROVE Told
  <2>1. UNCHANGED <<status, identity, delivered, excuse>>
    BY <1>2 DEF rowVars, mailVars
  <2>2. CASE UNCHANGED reply
    BY <2>1, <2>2, NothingTold
  <2>3. CASE \E what \in {"succeeded", "failed"} : status[KeyOf[r]] = what /\ Answer(r, what)
    BY <1>2, <2>1, <2>3, AnswerTold
  <2>4. CASE status[KeyOf[r]] = "processing" /\ Answer(r, "in_flight")
    BY <1>2, <2>1, <2>4, AnswerTold
  <2>5. QED
    BY <1>2, <2>2, <2>3, <2>4 DEF AnswerByStatus
<1>3. ASSUME rpc[r] # "done", NEW what \in {"queued", "rejected", "error"}, Answer(r, what),
             UNCHANGED <<rowVars, mailVars, excuse>>
      PROVE  Told
  BY <1>3, AnswerTold DEF rowVars, mailVars
<1>4. CASE RouteFind(r)
  <2>1. rpc[r] # "done" /\ UNCHANGED <<rowVars, jobVars, workVars, mailVars, excuse>>
    BY <1>4 DEF RouteFind
  <2>2. Answer(r, "rejected") \/ AnswerByStatus(r) \/ UNCHANGED reply
    BY <1>4 DEF RouteFind
  <2>3. UNCHANGED reply => Told
    BY <2>1, NothingTold DEF rowVars, mailVars
  <2>4. QED
    BY <1>2, <1>3, <2>1, <2>2, <2>3
<1>5. CASE RouteInsert(r)
  <2>1. rpc[r] # "done" /\ UNCHANGED <<jobVars, workVars, mailVars, excuse>>
    BY <1>5 DEF RouteInsert
  <2>2. CASE UNCHANGED <<rowVars, reply>>
    BY <2>1, <2>2, NothingTold DEF rowVars, mailVars
  <2>3. CASE Answer(r, "error") /\ UNCHANGED rowVars
    BY <1>3, <2>1, <2>3
  <2>4. CASE /\ identity /\ status[KeyOf[r]] = "none"
             /\ status' = [status EXCEPT ![KeyOf[r]] = "pending"]
             /\ UNCHANGED <<identity, reply>>
    <3>1. PICK k \in Keys : k = KeyOf[r]
      BY <1>1
    <3>2. delivered[k] = 0
      BY <2>4, <3>1 DEF SendInv, RowInv
    <3>3. Records' = [Records EXCEPT ![k] = "open"] /\ Records[k] = "none"
      BY <2>4, <3>1, RecordsMove, RecordIs
    <3>4. UNCHANGED <<delivered, Hurt, reply, identity>>
      BY <2>1, <2>4, HurtStays DEF mailVars
    <3>5. Mailer!Open(k)
      BY <2>4, <3>2, <3>3, <3>4 DEF Mailer!Open, Mailer!Keeps
    <3>6. QED
      BY <3>5 DEF Told, Mailer!Next
  <2>5. QED
    BY <1>5, <2>2, <2>3, <2>4 DEF RouteInsert
<1>6. CASE RouteRefind(r)
  <2>1. rpc[r] # "done" /\ UNCHANGED <<rowVars, jobVars, workVars, mailVars, excuse>>
    BY <1>6 DEF RouteRefind
  <2>2. Answer(r, "error") \/ AnswerByStatus(r)
    BY <1>6 DEF RouteRefind
  <2>3. QED
    BY <1>2, <1>3, <2>1, <2>2
<1>7. CASE RouteEnqueue(r)
  BY <1>3, <1>7 DEF RouteEnqueue
<1>8. CASE RouteAbort(r)
  BY <1>3, <1>8 DEF RouteAbort
<1>9. QED
  BY <1>4, <1>5, <1>6, <1>7, <1>8 DEF Route

\* A claim opens the record of a key whose mail is not out, or takes over one that is open.
LEMMA ClaimTells ==
  ASSUME TypeOK, SendInv, NEW w \in Workers, Claim(w) PROVE Told
<1>1. PICK k \in Keys : k = KeyOf[wreq[w]]
  BY KeyOfRun DEF Claim
<1>2. UNCHANGED <<identity, delivered, excuse, reply, Hurt>>
  BY HurtStays DEF Claim, mailVars, routeVars
<1>3. CASE UNCHANGED status
  BY <1>2, <1>3, NothingTold
<1>4. CASE Claimable(k) /\ TakeLease(k)
  <2>1. Records' = [Records EXCEPT ![k] = "open"]
    BY <1>4, RecordsMove DEF TakeLease
  <2>2. CASE status[k] = "failed"
    <3>1. Records[k] = "failed" /\ (Hurt[k] \/ delivered[k] = 0)
      BY <2>2, RecordIs, FailedIsTrue
    <3>2. Mailer!Retry(k)
      BY <1>2, <2>1, <3>1 DEF Mailer!Retry, Mailer!Keeps
    <3>3. QED
      BY <3>2 DEF Told, Mailer!Next
  <2>3. CASE status[k] # "failed"
    <3>1. Records[k] = "open"
      BY <1>4, <2>3, RecordIs DEF Claimable
    <3>2. Records' = Records
      BY <2>1, <3>1 DEF Records
    <3>3. QED
      BY <1>2, <3>2 DEF Told, Mailer!vars
  <2>4. QED
    BY <2>2, <2>3
<1>5. QED
  BY <1>1, <1>3, <1>4 DEF Claim

\* What a run hands over goes out of a key that is hurt, or whose record is open and whose
\* mail is not out.
LEMMA DeliverTells ==
  ASSUME TypeOK, SendInv, NEW w \in Workers, wpc[w] = "send", Deliver(w),
         UNCHANGED <<rowVars, routeVars>>,
         UNCHANGED excuse \/ \E fault \in {"lostReply", "sentCopy"} : Blame(KeyOf[wreq[w]], fault)
  PROVE  Told
<1>1. PICK k \in Keys : k = KeyOf[wreq[w]]
  BY KeyOfRun
<1>2. ~Hurt[k] => (Records[k] = "open" \/ ~identity) /\ delivered[k] = 0
  BY <1>1, HolderKnows DEF Leased
<1>3. delivered' = [delivered EXCEPT ![k] = @ + 1]
  BY <1>1 DEF Deliver
<1>4. UNCHANGED <<Records, reply, identity>>
  BY RecordsStay DEF rowVars, routeVars
<1>5. Hurt' \in {Hurt, [Hurt EXCEPT ![k] = TRUE]}
  BY <1>1, HurtStays, HurtComes
<1>6. Mailer!Send(k)
  BY <1>2, <1>3, <1>4, <1>5 DEF Mailer!Send, Mailer!Hurts
<1>7. QED
  BY <1>6 DEF Told, Mailer!Next

\* A success is recorded of a mail that is out.
LEMMA SuccessTells ==
  ASSUME TypeOK, SendInv, SuccessInv, NEW w \in Workers, wpc[w] = "finalizeSuccess",
         NEW k, k = KeyOf[wreq[w]],
         UNCHANGED <<identity, routeVars, mailVars>>, UNCHANGED excuse \/ Blame(k, "db"),
         UNCHANGED status \/ (status[k] # "none" /\ status' = [status EXCEPT ![k] = "succeeded"])
  PROVE  Told
<1>1. k \in Keys /\ (~Hurt[k] => Records[k] = "open" \/ Records[k] = "none")
  BY HolderKnows DEF Leased
<1>2. delivered[k] > 0
  BY DEF SuccessInv
<1>3. UNCHANGED <<identity, reply, delivered>>
  BY DEF routeVars, mailVars
<1>4. Hurt' \in {Hurt, [Hurt EXCEPT ![k] = TRUE]}
  BY <1>1, HurtStays, HurtComes DEF Duplicating
<1>5. CASE UNCHANGED status
  <2>1. UNCHANGED Records
    BY <1>5, RecordsStay
  <2>2. CASE Hurt' = Hurt
    BY <1>3, <2>1, <2>2 DEF Told, Mailer!vars
  <2>3. CASE Hurt' = [Hurt EXCEPT ![k] = TRUE]
    <3>1. Mailer!Harm(k)
      BY <1>3, <2>1, <2>3 DEF Mailer!Harm
    <3>2. QED
      BY <1>1, <3>1 DEF Told, Mailer!Next
  <2>4. QED
    BY <1>4, <2>2, <2>3
<1>6. CASE status[k] # "none" /\ status' = [status EXCEPT ![k] = "succeeded"]
  <2>1. Records' = [Records EXCEPT ![k] = "succeeded"] /\ Records[k] # "none"
    BY <1>1, <1>6, RecordsMove, RecordIs
  <2>2. Mailer!Succeed(k)
    BY <1>1, <1>2, <1>3, <1>4, <2>1 DEF Mailer!Succeed, Mailer!Keeps, Mailer!Hurts
  <2>3. QED
    BY <1>1, <2>2 DEF Told, Mailer!Next
<1>7. QED
  BY <1>5, <1>6

\* A failure is recorded of a mail that is not out.
LEMMA FailureTells ==
  ASSUME TypeOK, SendInv, NEW w \in Workers, FinalizeSendFailure(w) PROVE Told
<1>1. PICK k \in Keys : k = KeyOf[wreq[w]]
  BY KeyOfRun DEF FinalizeSendFailure
<1>2. ~Hurt[k] => (Records[k] = "open" \/ Records[k] = "none") /\ delivered[k] = 0
  BY <1>1, HolderKnows DEF FinalizeSendFailure, Leased
<1>3. UNCHANGED <<identity, delivered, excuse, reply, Hurt>>
  BY HurtStays DEF FinalizeSendFailure, mailVars, routeVars
<1>4. CASE UNCHANGED status
  BY <1>3, <1>4, NothingTold
<1>5. CASE status[k] # "none" /\ status' = [status EXCEPT ![k] = "failed"]
  <2>1. Records' = [Records EXCEPT ![k] = "failed"] /\ Records[k] # "none"
    BY <1>5, RecordsMove, RecordIs
  <2>2. Mailer!Fail(k)
    BY <1>2, <1>3, <2>1 DEF Mailer!Fail, Mailer!Keeps
  <2>3. QED
    BY <2>2 DEF Told, Mailer!Next
<1>6. QED
  BY <1>1, <1>4, <1>5 DEF FinalizeSendFailure

\* A fault that only hurts a key, or not even that.
LEMMA HarmTells ==
  ASSUME TypeOK, NEW k \in Keys, NEW fault, UNCHANGED excuse \/ Blame(k, fault),
         UNCHANGED <<status, identity, delivered, reply>>
  PROVE  Told
<1>1. UNCHANGED Records
  BY RecordsStay
<1>2. CASE Hurt' = Hurt
  BY <1>1, <1>2 DEF Told, Mailer!vars
<1>3. CASE Hurt' = [Hurt EXCEPT ![k] = TRUE]
  <2>1. Mailer!Harm(k)
    BY <1>1, <1>3 DEF Mailer!Harm
  <2>2. QED
    BY <2>1 DEF Told, Mailer!Next
<1>4. QED
  BY <1>2, <1>3, HurtStays, HurtComes

LEMMA DeleteTells == ASSUME TypeOK, DeleteOutgoingConnector PROVE Told
<1>1. status' = [k \in Keys |-> "none"]
  BY DEF DeleteOutgoingConnector
<1>2. \A k \in Keys : Records'[k] = "none"
  BY <1>1 DEF Records
<1>3. Records' = [k \in Keys |-> "none"]
  BY <1>2 DEF Records
<1>4. identity = TRUE /\ identity' = FALSE /\ UNCHANGED <<delivered, reply, Hurt>>
  BY HurtStays DEF DeleteOutgoingConnector, mailVars, routeVars, TypeOK
<1>5. Mailer!Close
  BY <1>3, <1>4 DEF Mailer!Close
<1>6. QED
  BY <1>5 DEF Told, Mailer!Next

LEMMA MailerStep == TypeOK /\ SendInv /\ SuccessInv /\ ReplyInv /\ [Next]_vars => Told
<1>1. SUFFICES ASSUME TypeOK, SendInv, SuccessInv, ReplyInv, [Next]_vars PROVE Told
  OBVIOUS
<1>2. ASSUME NEW r \in Requests, Route(r) \/ RouteAbort(r) PROVE Told
  BY <1>1, <1>2, RoutesTell
<1>3. ASSUME UNCHANGED <<status, identity, delivered, excuse, reply>> PROVE Told
  BY <1>3, NothingTold
<1>4. ASSUME NEW w \in Workers, Run(w) PROVE Told
  <2>1. CASE Claim(w)
    BY <1>1, <2>1, ClaimTells
  <2>2. CASE SendAccepted(w)
    <3>1. wpc[w] = "send" /\ Deliver(w) /\ UNCHANGED <<rowVars, routeVars>> /\ UNCHANGED excuse
      BY <2>2 DEF SendAccepted
    <3>2. QED
      BY <1>1, <3>1, DeliverTells
  <2>3. CASE FinalizeSendSuccess(w)
    <3>1. /\ wpc[w] = "finalizeSuccess" /\ UNCHANGED <<identity, routeVars, mailVars>> /\ UNCHANGED excuse
          /\ \/ UNCHANGED status
             \/ /\ status[KeyOf[wreq[w]]] # "none"
                /\ status' = [status EXCEPT ![KeyOf[wreq[w]]] = "succeeded"]
      BY <2>3 DEF FinalizeSendSuccess
    <3>2. QED
      BY <1>1, <3>1, SuccessTells
  <2>4. CASE FinalizeSendFailure(w)
    BY <1>1, <2>4, FailureTells
  <2>5. CASE \/ Boot(w) \/ CompleteJob(w) \/ FailJob(w) \/ Load(w) \/ SendRejected(w)
             \/ \E k \in Keys : GetJob(w, k)
    BY <1>3, <2>5 DEF Boot, CompleteJob, FailJob, Load, SendRejected, GetJob, rowVars, mailVars, routeVars
  <2>6. QED
    BY <1>4, <2>1, <2>2, <2>3, <2>4, <2>5 DEF Run
<1>5. ASSUME NEW w \in Workers, Fault(w) PROVE Told
  <2>1. CASE ClaimError(w)
    BY <1>3, <2>1 DEF ClaimError, rowVars, mailVars, routeVars
  <2>2. CASE SendReplyLost(w)
    <3>1. wpc[w] = "send" /\ Deliver(w) /\ UNCHANGED <<rowVars, routeVars>> /\ Blame(KeyOf[wreq[w]], "lostReply")
      BY <2>2 DEF SendReplyLost
    <3>2. QED
      BY <1>1, <3>1, DeliverTells
  <2>3. CASE SentCopyError(w)
    <3>1. wpc[w] = "send" /\ Deliver(w) /\ UNCHANGED <<rowVars, routeVars>> /\ Blame(KeyOf[wreq[w]], "sentCopy")
      BY <2>3 DEF SentCopyError
    <3>2. QED
      BY <1>1, <3>1, DeliverTells
  <2>4. CASE FinalizeSuccessError(w)
    <3>1. /\ wpc[w] = "finalizeSuccess" /\ UNCHANGED <<identity, routeVars, mailVars>>
          /\ Blame(KeyOf[wreq[w]], "db")
          /\ \/ UNCHANGED status
             \/ /\ status[KeyOf[wreq[w]]] # "none"
                /\ status' = [status EXCEPT ![KeyOf[wreq[w]]] = "succeeded"]
      BY <2>4 DEF FinalizeSuccessError
    <3>2. QED
      BY <1>1, <3>1, SuccessTells
  <2>5. CASE FinalizeFailureError(w)
    <3>1. KeyOf[wreq[w]] \in Keys
      BY <1>1, <2>5, KeyOfRun DEF FinalizeFailureError
    <3>2. Blame(KeyOf[wreq[w]], "db") /\ UNCHANGED <<status, identity, delivered, reply>>
      BY <2>5 DEF FinalizeFailureError, rowVars, mailVars, routeVars
    <3>3. QED
      BY <1>1, <3>1, <3>2, HarmTells
  <2>6. CASE Crash(w)
    <3>1. UNCHANGED <<status, identity, delivered, reply>>
      BY <2>6 DEF Crash, rowVars, mailVars, routeVars
    <3>2. CASE wpc[w] = "finalizeSuccess"
      <4>1. KeyOf[wreq[w]] \in Keys /\ Blame(KeyOf[wreq[w]], "crash")
        BY <1>1, <2>6, <3>2, KeyOfRun DEF Crash
      <4>2. QED
        BY <1>1, <3>1, <4>1, HarmTells
    <3>3. CASE wpc[w] # "finalizeSuccess"
      BY <1>3, <2>6, <3>1, <3>3 DEF Crash
    <3>4. QED
      BY <3>2, <3>3
  <2>7. QED
    BY <1>5, <2>1, <2>2, <2>3, <2>4, <2>5, <2>6 DEF Fault
<1>6. ASSUME NEW k \in Keys, LockAges(k) \/ ResetLock(k) PROVE Told
  BY <1>3, <1>6 DEF LockAges, ResetLock, rowVars, mailVars, routeVars
<1>7. ASSUME NEW k \in Keys, LeaseLapses(k) \/ RowExpires(k) PROVE Told
  <2>1. UNCHANGED <<status, identity, delivered, reply>>
    BY <1>7 DEF LeaseLapses, RowExpires, mailVars, routeVars
  <2>2. UNCHANGED excuse \/ \E fault \in {"lease", "expiry"} : Blame(k, fault)
    BY <1>7 DEF LeaseLapses, RowExpires
  <2>3. QED
    BY <1>1, <2>1, <2>2, HarmTells
<1>8. DeleteOutgoingConnector => Told
  BY <1>1, DeleteTells
<1>9. UNCHANGED vars => Told
  BY <1>3 DEF vars, rowVars, mailVars, routeVars
<1>10. QED
  BY <1>1, <1>2, <1>4, <1>5, <1>6, <1>7, <1>8, <1>9 DEF Next

\* However calls, runs, retries, takeovers, crashes and deletions interleave, a caller sees
\* a mailer that sends once: a mail goes out under an open record, a success is recorded
\* of a mail that is out and a failure of one that is not, and answers say what the record
\* does, of every key that no send outlived its lease for and no outcome was lost of.
THEOREM MailerImplemented == Spec => ImplementsMailer
<1>1. Init => SendInv
  BY SendAssumption DEF Init, SendInv, RowInv, KeyInv, Holds, Leased
<1>2. Init => SuccessInv
  BY SendAssumption DEF Init, SuccessInv, SuccessIsTrue
<1>3. Init => ReplyInv
  BY DEF Init, ReplyInv
<1>4. Init => Mailer!Init
  BY ZenonT(60) DEF Init, Mailer!Init, Records, Hurt, Clean
<1>5. Spec => []ReplyInv
  BY <1>3, ReplyStep, TypeCorrect, PTL DEF Spec
<1>6. Spec => []SuccessInv
  BY <1>2, SuccessStep, TypeCorrect, PTL DEF Spec
<1>7. QED
  BY <1>4, <1>5, <1>6, SendInvariant, TypeCorrect, MailerStep, PTL DEF Spec, ImplementsMailer, Mailer!Spec, Told
=============================================================================
