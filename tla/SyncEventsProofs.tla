-------------------------- MODULE SyncEventsProofs --------------------------
(***************************************************************************)
(* Theorems of SyncEvents, for every number of events, streams, faults and *)
(* reloads. The cursor of the tab (Resumes) needs to know what is under    *)
(* way towards it: Fetched says what a page holds between the query and    *)
(* the write, Carried what the connection holds between the write and the  *)
(* read.                                                                   *)
(***************************************************************************)
EXTENDS SyncEvents, FiniteSetTheorems, TLAPS

-----------------------------------------------------------------------------
(* Types. *)

(* Giving back some of the slots leaves a number of slots. *)
LEMMA ReleaseType ==
  ASSUME slots \in 0 .. MaxStreams, NEW S, S \subseteq Streams
  PROVE  Release(Cardinality({s \in S : closed[s]})) \in 0 .. MaxStreams
<1>1. IsFiniteSet({s \in S : closed[s]})
  BY EventsAssumption, FS_Subset
<1>2. Cardinality({s \in S : closed[s]}) \in Nat
  BY <1>1, FS_CardinalityType
<1> QED
  BY <1>2, EventsAssumption DEF Release

(* Streams that return to the head of their loop are at a place of it. *)
LEMMA LoopType ==
  ASSUME TypeOK, NEW S, S \subseteq Streams, Loop(S)
  PROVE  pc' \in [Streams -> Places] /\ slots' \in 0 .. MaxStreams
<1>1. pc' \in [Streams -> Places]
  BY DEF TypeOK, Loop, Places
<1>2. slots' \in 0 .. MaxStreams
  BY ReleaseType DEF TypeOK, Loop
<1> QED
  BY <1>1, <1>2

(* A signal leaves the kept signal an event id and the streams in place. *)
LEMMA DispatchType ==
  ASSUME TypeOK, NEW e \in Ids, Dispatch(e)
  PROVE  /\ latest' \in 0 .. MaxEvents /\ told' \in 0 .. MaxEvents
         /\ pc' \in [Streams -> Places] /\ slots' \in 0 .. MaxStreams
<1>1. pc' \in [Streams -> Places] /\ slots' \in 0 .. MaxStreams
  BY LoopType DEF Dispatch
<1>2. latest' \in 0 .. MaxEvents /\ told' \in 0 .. MaxEvents
  BY EventsAssumption DEF Dispatch, TypeOK, Ids
<1> QED
  BY <1>1, <1>2

(* Every step keeps the variables in their types. *)
LEMMA TypeStep == TypeOK /\ [Next]_vars => TypeOK'
<1> SUFFICES ASSUME TypeOK, [Next]_vars PROVE TypeOK'
  OBVIOUS
<1> USE EventsAssumption
<1>1. ASSUME NEW api \in BOOLEAN, Insert(api) PROVE TypeOK'
  <2>1. last + 1 \in Ids
    BY <1>1 DEF Insert, TypeOK, Ids
  <2>2. row' \in [Ids -> RowStates] /\ last' \in 0 .. MaxEvents /\ own' \subseteq Ids
    BY <1>1, <2>1 DEF Insert, TypeOK, RowStates, Ids
  <2> QED
    BY <1>1, <2>2 DEF Insert, TypeOK, signalVars, listenerVars, streamVars, tabVars, Ids
<1>2. ASSUME NEW e \in Ids, Commit(e) PROVE TypeOK'
  <2>1. row' \in [Ids -> RowStates] /\ late' \subseteq Ids
    BY <1>2 DEF Commit, TypeOK, RowStates
  <2>2. notes' \in Seq(Ids)
    BY <1>2 DEF Commit, TypeOK
  <2> QED
    BY <1>2, <2>1, <2>2
    DEF Commit, TypeOK, signalVars, listenerVars, streamVars, tabVars, Ids
<1>3. ASSUME NEW e \in Ids, Abort(e) PROVE TypeOK'
  BY <1>3 DEF Abort, TypeOK, RowStates, signalVars, listenerVars, streamVars, tabVars, Ids
<1>4. ASSUME NEW e \in Ids, Return(e) PROVE TypeOK'
  BY <1>4, DispatchType DEF Return, TypeOK, dbVars, listenerVars, tabVars, Ids
<1>5. ASSUME NEW e \in Ids, Prune(e) PROVE TypeOK'
  <2>1. row' \in [Ids -> RowStates] /\ faults' \in 0 .. MaxFaults
    BY <1>5 DEF Prune, TypeOK, RowStates, Fault
  <2> QED
    BY <1>5, <2>1 DEF Prune, TypeOK, signalVars, listenerVars, streamVars, tabVars, Ids
<1>6. ASSUME NEW e \in Ids, Read(e) PROVE TypeOK'
  BY <1>6
  DEF Read, TypeOK, Ids, dbVars, signalVars, listenerVars, streamVars
<1>7. ASSUME Hear PROVE TypeOK'
  <2>1. Head(notes) \in Ids /\ notes' \in Seq(Ids)
    BY <1>7 DEF Hear, TypeOK
  <2> QED
    BY <1>7, <2>1, DispatchType DEF Hear, TypeOK, dbVars, listenerVars, tabVars, Ids
<1>8. ASSUME AttachOk PROVE TypeOK'
  <2>1. pc' \in [Streams -> Places]
    BY <1>8 DEF AttachOk, TypeOK, Places
  <2>2. slots' \in 0 .. MaxStreams
    <3> DEFINE back == {s \in {t \in Streams : pc[t] = "ensure"} : latest > since[s]}
    <3>1. slots' = Release(Cardinality({s \in back : closed[s]}))
      BY <1>8 DEF AttachOk
    <3>2. back \subseteq Streams
      OBVIOUS
    <3> HIDE DEF back
    <3> QED
      BY <3>1, <3>2, ReleaseType DEF TypeOK
  <2> QED
    BY <1>8, <2>1, <2>2 DEF AttachOk, TypeOK, dbVars, signalVars, tabVars, Ids
<1>9. ASSUME AttachFails PROVE TypeOK'
  <2>1. pc' \in [Streams -> Places]
    BY <1>9 DEF AttachFails, TypeOK, Places
  <2>2. timer' \in BOOLEAN /\ byTimer' \in BOOLEAN /\ once' \in BOOLEAN
    BY <1>9, Zenon DEF AttachFails, TypeOK
  <2>3. faults' \in 0 .. MaxFaults /\ listener' = "none"
    BY <1>9 DEF AttachFails, TypeOK, Fault
  <2>4. UNCHANGED <<dbVars, own, notes, signalVars, slots, closed, since, page, tabVars>>
    BY <1>9 DEF AttachFails
  <2> QED
    BY <2>1, <2>2, <2>3, <2>4 DEF TypeOK, dbVars, signalVars, tabVars, Ids
<1>10. ASSUME Dropped PROVE TypeOK'
  BY <1>10
  DEF Dropped, TypeOK, Fault, dbVars, signalVars, streamVars, tabVars, Ids
<1>11. ASSUME TimerFires PROVE TypeOK'
  <2>1. byTimer' \in BOOLEAN /\ listener' \in {"none", "connecting", "on"}
    BY <1>11 DEF TimerFires, TypeOK
  <2> QED
    BY <1>11, <2>1 DEF TimerFires, TypeOK, dbVars, signalVars, streamVars, tabVars, Ids
<1>12. ASSUME NEW s \in Streams, Fetch(s) PROVE TypeOK'
  <2>1. Listed(s) \subseteq Ids
    BY DEF Listed, Newer
  <2>2. pc' \in [Streams -> Places] /\ page' \in [Streams -> SUBSET Ids]
    BY <1>12, <2>1 DEF Fetch, TypeOK, Places
  <2> QED
    BY <1>12, <2>2 DEF Fetch, TypeOK, dbVars, signalVars, listenerVars, tabVars, Ids
<1>13. ASSUME NEW s \in Streams, FetchFails(s) PROVE TypeOK'
  <2>1. pc' \in [Streams -> Places]
    BY <1>13 DEF FetchFails, TypeOK, Places
  <2>2. faults' \in 0 .. MaxFaults
    BY <1>13, EventsAssumption DEF FetchFails, TypeOK, Fault
  <2>3. UNCHANGED <<dbVars, own, notes, signalVars, listenerVars, slots, closed, since, page, tabVars>>
    BY <1>13 DEF FetchFails
  <2> QED
    BY <2>1, <2>2, <2>3 DEF TypeOK, dbVars, signalVars, listenerVars, tabVars
<1>14. ASSUME NEW s \in Streams, Write(s) PROVE TypeOK'
  <2>1. pc' \in [Streams -> Places] /\ slots' \in 0 .. MaxStreams
    BY <1>14, LoopType DEF Write
  <2>2. since' \in [Streams -> 0 .. MaxEvents] /\ page' \in [Streams -> SUBSET Ids]
    BY <1>14 DEF Write, TypeOK, Ids
  <2>3. wire' \subseteq Ids
    BY <1>14 DEF Write, TypeOK
  <2> QED
    BY <1>14, <2>1, <2>2, <2>3
    DEF Write, TypeOK, dbVars, signalVars, listenerVars, Ids
<1>15. ASSUME NEW s \in Streams, WaitForSignal(s) PROVE TypeOK'
  <2>1. pc' \in [Streams -> Places] /\ slots' \in 0 .. MaxStreams
    <3>1. CASE Loop({s})
      BY <3>1, LoopType
    <3>2. CASE UNCHANGED slots /\ (pc' = [pc EXCEPT ![s] = "wait"]
                                    \/ pc' = [pc EXCEPT ![s] = "ensure"])
      BY <3>2 DEF TypeOK, Places
    <3> QED
      BY <1>15, <3>1, <3>2 DEF WaitForSignal
  <2>2. listener' \in {"none", "connecting", "on"}
    BY <1>15 DEF WaitForSignal, TypeOK
  <2> QED
    BY <1>15, <2>1, <2>2 DEF WaitForSignal, TypeOK, dbVars, signalVars, tabVars, Ids
<1>16. ASSUME NEW s \in Streams, Expires(s) PROVE TypeOK'
  <2>1. pc' \in [Streams -> Places] /\ slots' \in 0 .. MaxStreams
    BY <1>16, LoopType DEF Expires
  <2> QED
    BY <1>16, <2>1 DEF Expires, TypeOK, dbVars, signalVars, listenerVars, tabVars, Ids
<1>17. ASSUME NEW s \in Streams, Hangup(s) PROVE TypeOK'
  <2>1. closed' \in [Streams -> BOOLEAN]
    BY <1>17, Zenon DEF Hangup, TypeOK
  <2> QED
    BY <1>17, <2>1
    DEF Hangup, TypeOK, dbVars, signalVars, listenerVars, streamVars, tabVars, Ids
<1>18. ASSUME NEW s \in Streams, Connect(s) PROVE TypeOK'
  <2>1. closed' \in [Streams -> BOOLEAN]
    BY <1>18, Zenon DEF Connect, TypeOK
  <2>2. pc' \in [Streams -> Places] /\ since' \in [Streams -> 0 .. MaxEvents]
    BY <1>18 DEF Connect, TypeOK, Places
  <2>3. slots' \in 0 .. MaxStreams
    BY <1>18 DEF Connect, TypeOK
  <2> QED
    BY <1>18, <2>1, <2>2, <2>3
    DEF Connect, TypeOK, dbVars, signalVars, listenerVars, Ids
<1>19. ASSUME Refused PROVE TypeOK'
  BY <1>19
  DEF Refused, TypeOK, dbVars, signalVars, listenerVars, streamVars, Ids
<1>20. ASSUME Reload PROVE TypeOK'
  BY <1>20
  DEF Reload, TypeOK, dbVars, signalVars, listenerVars, streamVars, Ids
<1>21. ASSUME Lost PROVE TypeOK'
  BY <1>21
  DEF Lost, TypeOK, Fault, dbVars, signalVars, listenerVars, streamVars, Ids
<1>22. ASSUME Crash PROVE TypeOK'
  <2>1. /\ pc' \in [Streams -> Places] /\ since' \in [Streams -> 0 .. MaxEvents]
        /\ page' \in [Streams -> SUBSET Ids]
    BY <1>22 DEF Crash, Places
  <2>2. closed' \in [Streams -> BOOLEAN]
    BY <1>22 DEF Crash
  <2>3. bridge' \in {"running", "stopped"} /\ faults' \in 0 .. MaxFaults
    BY <1>22 DEF Crash, TypeOK, Fault
  <2>4. /\ own' = {} /\ notes' = <<>> /\ listener' = "none" /\ latest' = 0 /\ told' = 0
        /\ slots' = 0 /\ conn' = None /\ wire' = {}
        /\ UNCHANGED <<last, row, late, cursor, seen, reloads>>
    BY <1>22 DEF Crash, dbVars
  <2>5. timer' \in BOOLEAN /\ byTimer' \in BOOLEAN /\ once' \in BOOLEAN
    BY <1>22 DEF Crash
  <2>6. notes' \in Seq(Ids)
    BY <2>4
  <2> QED
    BY <2>1, <2>2, <2>3, <2>4, <2>5, <2>6 DEF TypeOK, Ids
<1>23. ASSUME UNCHANGED vars PROVE TypeOK'
  BY <1>23
  DEF vars, TypeOK, dbVars, signalVars, listenerVars, streamVars, tabVars, Ids
<1> QED
  BY <1>1, <1>2, <1>3, <1>4, <1>5, <1>6, <1>7, <1>8, <1>9, <1>10, <1>11, <1>12, <1>13,
     <1>14, <1>15, <1>16, <1>17, <1>18, <1>19, <1>20, <1>21, <1>22, <1>23
  DEF Next

(* Initially too.                                                          *)
LEMMA InitType ==
  ASSUME Init
  PROVE  TypeOK
<1>1. /\ pc \in [Streams -> Places] /\ since \in [Streams -> 0 .. MaxEvents]
      /\ page \in [Streams -> SUBSET Ids] /\ row \in [Ids -> RowStates]
  BY EventsAssumption DEF Init, Places, RowStates
<1>2. closed \in [Streams -> BOOLEAN]
  BY DEF Init
<1>3. timer \in BOOLEAN /\ byTimer \in BOOLEAN /\ once \in BOOLEAN
  BY DEF Init
<1>4. notes \in Seq(Ids)
  BY DEF Init
<1>5. /\ last = 0 /\ late = {} /\ own = {} /\ listener = "none" /\ latest = 0 /\ told = 0
      /\ slots = 0 /\ bridge = "running" /\ conn = None /\ wire = {} /\ cursor = 0
      /\ seen = {} /\ reloads = 0 /\ faults = 0
  BY DEF Init
<1> QED
  BY <1>1, <1>2, <1>3, <1>4, <1>5, EventsAssumption DEF TypeOK

(* The variables have their types in every state, for any number of events,*)
(* streams and faults: cursors and signals are event ids and a released    *)
(* slot is never counted below zero.                                       *)
THEOREM TypeCorrect == Spec => []TypeOK
<1> QED
  BY InitType, TypeStep, PTL DEF Spec

-----------------------------------------------------------------------------
(* The listener and the wait. *)

(* A process that has listened once is listening, or has an attempt ahead  *)
(* of it that will be repeated if it fails.                                *)
THEOREM ListenerComesBack == Spec => []ListenerReturns
<1>1. Init => ListenerReturns
  BY DEF Init, ListenerReturns
<1>2. TypeOK /\ ListenerReturns /\ [Next]_vars => ListenerReturns'
  <2> SUFFICES ASSUME TypeOK, ListenerReturns, [Next]_vars PROVE ListenerReturns'
    OBVIOUS
  <2>1. CASE UNCHANGED listenerVars
    BY <2>1 DEF ListenerReturns, listenerVars
  <2>2. CASE AttachOk
    BY <2>2 DEF ListenerReturns, AttachOk
  <2>3. CASE AttachFails
    BY <2>3, Zenon DEF ListenerReturns, AttachFails
  <2>4. CASE Dropped
    BY <2>4, Zenon DEF ListenerReturns, Dropped
  <2>5. CASE TimerFires
    BY <2>5 DEF ListenerReturns, TimerFires, TypeOK
  <2>6. ASSUME NEW s \in Streams, WaitForSignal(s) PROVE ListenerReturns'
    BY <2>6 DEF ListenerReturns, WaitForSignal
  <2>7. CASE Crash
    BY <2>7 DEF ListenerReturns, Crash
  <2> QED
    BY <2>1, <2>2, <2>3, <2>4, <2>5, <2>6, <2>7
    DEF Next, vars, Insert, Commit, Abort, Return, Prune, Read, Hear, Fetch, FetchFails,
        Write, Expires, Hangup, Connect, Refused, Reload, Lost
<1> QED
  BY <1>1, <1>2, TypeCorrect, PTL DEF Spec

(* Going back to the head of the loop puts no stream to sleep. *)
LEMMA LoopWakes ==
  ASSUME TypeOK, NEW S, Loop(S), NEW s \in Streams, pc'[s] = "wait"
  PROVE  pc[s] = "wait" /\ s \notin S
BY DEF Loop, TypeOK

(* No stream sleeps past the signal its process keeps. *)
LEMMA AwakeStep == TypeOK /\ AwakeWhenTold /\ [Next]_vars => AwakeWhenTold'
<1> SUFFICES ASSUME TypeOK, AwakeWhenTold, [Next]_vars,
                    NEW t \in Streams, pc'[t] = "wait"
             PROVE  latest' <= since'[t]
  BY DEF AwakeWhenTold
<1> USE DEF AwakeWhenTold
<1>1. ASSUME NEW e \in Ids, Dispatch(e), UNCHANGED since PROVE latest' <= since'[t]
  <2>1. pc[t] = "wait" /\ t \notin {s \in Streams : pc[s] = "wait" /\ since[s] < e}
    BY <1>1, LoopWakes DEF Dispatch
  <2>2. latest' = e /\ since'[t] = since[t]
    BY <1>1 DEF Dispatch
  <2>3. since[t] \in Int /\ e \in Int
    BY EventsAssumption DEF TypeOK, Ids
  <2> QED
    BY <2>1, <2>2, <2>3
<1>2. CASE AttachOk
  BY <1>2 DEF AttachOk, signalVars, TypeOK
<1>3. CASE AttachFails
  BY <1>3 DEF AttachFails, signalVars, TypeOK
<1>4. ASSUME NEW s \in Streams, Fetch(s) \/ FetchFails(s) PROVE latest' <= since'[t]
  BY <1>4 DEF Fetch, FetchFails, signalVars, TypeOK
<1>5. ASSUME NEW s \in Streams, Write(s) PROVE latest' <= since'[t]
  <2>1. pc[t] = "wait" /\ t # s
    BY <1>5, LoopWakes DEF Write
  <2>2. since'[t] = since[t]
    BY <1>5, <2>1 DEF Write, TypeOK
  <2> QED
    BY <1>5, <2>1, <2>2 DEF Write, signalVars
<1>6. ASSUME NEW s \in Streams, WaitForSignal(s) PROVE latest' <= since'[t]
  <2>1. CASE Loop({s})
    BY <1>6, <2>1, LoopWakes DEF WaitForSignal, signalVars
  <2>2. CASE latest <= since[s] /\ pc' = [pc EXCEPT ![s] = "wait"]
    BY <1>6, <2>2 DEF WaitForSignal, signalVars, TypeOK
  <2>3. CASE pc' = [pc EXCEPT ![s] = "ensure"]
    BY <1>6, <2>3 DEF WaitForSignal, signalVars, TypeOK
  <2> QED
    BY <1>6, <2>1, <2>2, <2>3 DEF WaitForSignal
<1>7. ASSUME NEW s \in Streams, Expires(s) PROVE latest' <= since'[t]
  BY <1>7, LoopWakes DEF Expires, signalVars
<1>8. ASSUME NEW s \in Streams, Connect(s) PROVE latest' <= since'[t]
  BY <1>8 DEF Connect, signalVars, TypeOK
<1>9. CASE Crash
  BY <1>9 DEF Crash
<1>10. CASE UNCHANGED <<latest, pc, since>>
  BY <1>10
<1>11. ASSUME NEW e \in Ids, Return(e) PROVE latest' <= since'[t]
  BY <1>1, <1>11 DEF Return
<1>12. CASE Hear
  <2>1. Head(notes) \in Ids
    BY <1>12 DEF Hear, TypeOK
  <2> QED
    BY <1>1, <1>12, <2>1 DEF Hear
<1> QED
  BY <1>2, <1>3, <1>4, <1>5, <1>6, <1>7, <1>8, <1>9, <1>10, <1>11, <1>12, Zenon
  DEF Next, vars, Insert, Commit, Abort, Prune, Read, Dropped, TimerFires, Hangup,
      Refused, Reload, Lost, signalVars, streamVars

(* A stream that sleeps has a cursor at or past the signal its process     *)
(* keeps: nothing that comes between the empty query and the wait is lost. *)
THEOREM AwakeAlways == Spec => []AwakeWhenTold
<1>1. Init => AwakeWhenTold
  BY DEF Init, AwakeWhenTold
<1> QED
  BY <1>1, AwakeStep, TypeCorrect, PTL DEF Spec

-----------------------------------------------------------------------------
(* The cursor of the tab. *)

\* A page is what its query could see: every stored row between the stream's
\* cursor and the last row of the page, except the ones that committed late.
Fetched ==
  \A s \in Streams : pc[s] = "page" =>
    /\ page[s] \subseteq Visible
    /\ \A e \in page[s] : e > since[s]
    /\ \A e \in Ids, m \in page[s] :
         row[e] = "in" /\ since[s] < e /\ e <= m => e \in page[s] \cup late

CursorSeen == cursor = 0 \/ cursor \in Visible

\* What the stream has passed is read, late, or on the wire.
Carried ==
  conn # None =>
    /\ cursor <= since[conn]
    /\ since[conn] = 0 \/ since[conn] \in Visible
    /\ wire \subseteq Visible
    /\ \A e \in wire : cursor < e /\ e <= since[conn]
    /\ \A e \in Ids : row[e] = "in" /\ e <= since[conn] => e \in seen \cup late \cup wire

\* Ids past the last one given out are free.
IdsFresh == \A e \in Ids : e > last => row[e] = "none"

CursorInv == TypeOK /\ IdsFresh /\ Fetched /\ CursorSeen /\ Carried /\ Resumes

(* A query returns a prefix of the rows past the cursor: with a row it     *)
(* returns every row before it.                                            *)
LEMMA ListedIsPrefix ==
  ASSUME NEW s \in Streams, NEW m \in Listed(s), NEW e \in Newer(s), e <= m
  PROVE  e \in Listed(s)
<1> DEFINE UpTo(x) == {f \in Newer(s) : f <= x}
<1>1. IsFiniteSet(Ids) /\ Newer(s) \subseteq Ids
  BY EventsAssumption, FS_Interval DEF Ids, Newer
<1>2. m \in Ids /\ e \in Ids /\ m \in Newer(s)
  BY <1>1 DEF Listed
<1>3. IsFiniteSet(UpTo(m)) /\ IsFiniteSet(UpTo(e))
  BY <1>1, FS_Subset
<1>4. UpTo(e) \subseteq UpTo(m)
  BY <1>1, <1>2, EventsAssumption DEF Ids
<1>5. Cardinality(UpTo(e)) <= Cardinality(UpTo(m))
  BY <1>3, <1>4, FS_Subset
<1>6. Cardinality(UpTo(e)) \in Nat /\ Cardinality(UpTo(m)) \in Nat
  BY <1>3, FS_CardinalityType
<1>7. Cardinality(UpTo(m)) <= Limit
  BY DEF Listed
<1> HIDE DEF UpTo
<1>8. Cardinality(UpTo(e)) <= Limit
  BY <1>5, <1>6, <1>7, EventsAssumption
<1> QED
  BY <1>8 DEF Listed, UpTo

(* What matters of a step that leaves rows, cursors, pages and the tab     *)
(* alone is that it brings no stream to its page.                          *)
LEMMA CursorStays ==
  ASSUME CursorInv, UNCHANGED <<dbVars, since, page, tabVars>>,
         \A s \in Streams : pc'[s] = "page" => pc[s] = "page"
  PROVE  Fetched' /\ CursorSeen' /\ Carried' /\ Resumes'
<1>1. UNCHANGED <<row, late, since, page, conn, wire, cursor, seen>>
  BY DEF dbVars, tabVars
<1>2. Visible' = Visible
  BY <1>1 DEF Visible
<1>3. Fetched'
  BY <1>1, <1>2 DEF CursorInv, Fetched
<1>4. CursorSeen' /\ Carried' /\ Resumes'
  BY <1>1, <1>2 DEF CursorInv, CursorSeen, Carried, Resumes
<1> QED
  BY <1>3, <1>4

(* Streams that go back to the head of their loop are not at their page.   *)
LEMMA LoopLeavesPage ==
  ASSUME TypeOK, NEW S, Loop(S), NEW s \in Streams, pc'[s] = "page"
  PROVE  pc[s] = "page" /\ s \notin S
BY DEF Loop, TypeOK

(* Rows that become visible or are deleted leave the tab's account right   *)
(* when a row that becomes visible below a visible one counts as late.     *)
LEMMA RowsMove ==
  ASSUME CursorInv, UNCHANGED <<pc, since, page, tabVars>>,
         Visible \subseteq Visible', late \subseteq late',
         \A e \in Ids : row'[e] = "in" =>
           row[e] = "in" \/ e \in late' \/ \A f \in Visible : f < e
  PROVE  Fetched' /\ CursorSeen' /\ Carried' /\ Resumes'
<1>1. UNCHANGED <<conn, wire, cursor, seen>>
  BY DEF tabVars
<1>2. /\ cursor \in Int /\ since \in [Streams -> 0 .. MaxEvents]
      /\ Ids \subseteq Int /\ Visible \subseteq Ids /\ conn \in Streams \cup {None}
      /\ \A e \in Ids : e > 0
  BY EventsAssumption DEF CursorInv, TypeOK, Ids, Visible
<1>3. Fetched'
  <2> SUFFICES ASSUME NEW s \in Streams, pc[s] = "page"
               PROVE  /\ page[s] \subseteq Visible'
                      /\ \A e \in page[s] : e > since[s]
                      /\ \A e \in Ids, m \in page[s] :
                           row'[e] = "in" /\ since[s] < e /\ e <= m
                             => e \in page[s] \cup late'
    BY DEF Fetched
  <2>1. page[s] \subseteq Visible /\ \A e \in page[s] : e > since[s]
    BY DEF CursorInv, Fetched
  <2>2. ASSUME NEW e \in Ids, NEW m \in page[s], row'[e] = "in", since[s] < e, e <= m
        PROVE  e \in page[s] \cup late'
    <3>1. CASE row[e] = "in"
      BY <2>2, <3>1 DEF CursorInv, Fetched
    <3>2. CASE \A f \in Visible : f < e
      <4>1. m < e /\ m \in Int /\ e \in Int
        BY <1>2, <2>1, <3>2
      <4> QED
        BY <2>2, <4>1
    <3> QED
      BY <2>2, <3>1, <3>2
  <2> QED
    BY <2>1, <2>2
<1>4. CursorSeen'
  BY <1>1 DEF CursorInv, CursorSeen
<1>5. Resumes'
  <2> SUFFICES ASSUME NEW e \in Ids, row'[e] = "in", e <= cursor
               PROVE  e \in seen \cup late'
    BY <1>1 DEF Resumes
  <2>1. cursor = 0 \/ cursor \in Visible
    BY DEF CursorInv, CursorSeen
  <2>2. row[e] = "in" \/ e \in late'
    BY <1>2, <2>1
  <2> QED
    BY <2>2 DEF CursorInv, Resumes
<1>6. Carried'
  <2> SUFFICES ASSUME conn # None,
                      NEW e \in Ids, row'[e] = "in", e <= since[conn]
               PROVE  e \in seen \cup late' \cup wire
    BY <1>1 DEF CursorInv, Carried
  <2>1. since[conn] = 0 \/ since[conn] \in Visible
    BY DEF CursorInv, Carried
  <2>2. since[conn] \in Int /\ e \in Int /\ e > 0
    BY <1>2
  <2>3. row[e] = "in" \/ e \in late'
    BY <2>1, <2>2
  <2> QED
    BY <2>3 DEF CursorInv, Carried
<1> QED
  BY <1>3, <1>4, <1>5, <1>6

(* Only an insert gives out an id, and it gives out the next one.          *)
LEMMA FreshStep == TypeOK /\ IdsFresh /\ [Next]_vars => IdsFresh'
<1> SUFFICES ASSUME TypeOK, IdsFresh, [Next]_vars PROVE IdsFresh'
  OBVIOUS
<1>1. ASSUME NEW api \in BOOLEAN, Insert(api) PROVE IdsFresh'
  <2>1. last \in Int /\ Ids \subseteq Int
    BY EventsAssumption DEF TypeOK, Ids
  <2> QED
    BY <1>1, <2>1 DEF Insert, IdsFresh, TypeOK
<1>2. ASSUME NEW e \in Ids, Commit(e) \/ Abort(e) \/ Prune(e) PROVE IdsFresh'
  <2>1. last' = last /\ \A d \in Ids : row[d] = "none" => row'[d] = "none"
    BY <1>2 DEF Commit, Abort, Prune, TypeOK
  <2> QED
    BY <2>1 DEF IdsFresh
<1>3. CASE UNCHANGED <<last, row>>
  BY <1>3 DEF IdsFresh
<1> QED
  BY <1>1, <1>2, <1>3
  DEF Next, vars, dbVars, Return, Hear, AttachOk, AttachFails, Dropped, TimerFires,
      Fetch, FetchFails, Write, WaitForSignal, Expires, Hangup, Connect, Refused,
      Reload, Lost, Crash, Read

(* Every step keeps the account of what the tab has passed.                *)
LEMMA CursorStep == CursorInv /\ [Next]_vars => CursorInv'
<1> SUFFICES ASSUME CursorInv, [Next]_vars
             PROVE  Fetched' /\ CursorSeen' /\ Carried' /\ Resumes'
  BY TypeStep, FreshStep DEF CursorInv
<1> DEFINE Goal == Fetched' /\ CursorSeen' /\ Carried' /\ Resumes'
<1>0. TypeOK
  BY DEF CursorInv
<1>1. ASSUME UNCHANGED <<dbVars, since, page, tabVars>>,
             \A s \in Streams : pc'[s] = "page" => pc[s] = "page"
      PROVE  Goal
  BY <1>1, CursorStays
<1>2. ASSUME NEW api \in BOOLEAN, Insert(api) PROVE Goal
  <2>0. last + 1 \in Ids /\ last + 1 > last
    BY <1>0, <1>2, EventsAssumption DEF Insert, TypeOK, Ids
  <2>1. last + 1 \in Ids /\ row[last + 1] = "none"
    BY <2>0 DEF CursorInv, IdsFresh
  <2>2. \A e \in Ids : row'[e] = "in" => row[e] = "in"
    BY <1>0, <1>2 DEF Insert, TypeOK
  <2>3. Visible \subseteq Visible'
    BY <1>0, <1>2, <2>1 DEF Insert, TypeOK, Visible
  <2> QED
    BY <1>2, <2>2, <2>3, RowsMove DEF Insert, streamVars
<1>3. ASSUME NEW e \in Ids, Commit(e) PROVE Goal
  <2>1. Visible \subseteq Visible'
    BY <1>0, <1>3 DEF Commit, TypeOK, Visible
  <2>2. e \notin Visible /\ e \in Int /\ Visible \subseteq Int
    BY <1>3, EventsAssumption DEF Commit, Visible, Ids
  <2>3. e \in late' \/ \A f \in Visible : f < e
    BY <1>3, <2>2 DEF Commit
  <2>4. \A d \in Ids : row'[d] = "in" => row[d] = "in" \/ d = e
    BY <1>0, <1>3 DEF Commit, TypeOK
  <2>5. late \subseteq late' /\ UNCHANGED <<pc, since, page, tabVars>>
    BY <1>3 DEF Commit, streamVars
  <2> QED
    BY <2>1, <2>3, <2>4, <2>5, RowsMove
<1>4. ASSUME NEW e \in Ids, Abort(e) PROVE Goal
  <2>1. Visible \subseteq Visible' /\ \A d \in Ids : row'[d] = "in" => row[d] = "in"
    BY <1>0, <1>4 DEF Abort, TypeOK, Visible
  <2> QED
    BY <1>4, <2>1, RowsMove DEF Abort, streamVars
<1>5. ASSUME NEW e \in Ids, Prune(e) PROVE Goal
  <2>1. Visible \subseteq Visible' /\ \A d \in Ids : row'[d] = "in" => row[d] = "in"
    BY <1>0, <1>5 DEF Prune, TypeOK, Visible
  <2> QED
    BY <1>5, <2>1, RowsMove DEF Prune, streamVars
<1>6. ASSUME NEW e \in Ids, Return(e) PROVE Goal
  BY <1>0, <1>1, <1>6, LoopLeavesPage DEF Return, Dispatch
<1>7. ASSUME Hear PROVE Goal
  BY <1>0, <1>1, <1>7, LoopLeavesPage DEF Hear, Dispatch
<1>8. ASSUME AttachOk PROVE Goal
  <2>1. \A s \in Streams : pc'[s] = "page" => pc[s] = "page"
    BY <1>0, <1>8 DEF AttachOk, TypeOK
  <2> QED
    BY <1>1, <1>8, <2>1 DEF AttachOk
<1>9. ASSUME AttachFails PROVE Goal
  <2>1. \A s \in Streams : pc'[s] = "page" => pc[s] = "page"
    BY <1>0, <1>9 DEF AttachFails, TypeOK
  <2> QED
    BY <1>1, <1>9, <2>1 DEF AttachFails
<1>10. ASSUME Dropped \/ TimerFires \/ (\E s \in Streams : Hangup(s)) PROVE Goal
  BY <1>1, <1>10 DEF Dropped, TimerFires, Hangup, streamVars
<1>11. ASSUME NEW s \in Streams, FetchFails(s) \/ Expires(s) \/ WaitForSignal(s) PROVE Goal
  <2>1. ASSUME NEW t \in Streams, pc'[t] = "page" PROVE pc[t] = "page"
    <3>1. CASE Loop({s})
      BY <1>0, <2>1, <3>1, LoopLeavesPage
    <3>2. CASE \E place \in {"pause", "wait", "ensure"} : pc' = [pc EXCEPT ![s] = place]
      BY <1>0, <2>1, <3>2 DEF TypeOK
    <3> QED
      BY <1>11, <3>1, <3>2 DEF FetchFails, Expires, WaitForSignal
  <2> QED
    BY <1>1, <1>11, <2>1 DEF FetchFails, Expires, WaitForSignal
<1>12. ASSUME NEW s \in Streams, Fetch(s) PROVE Goal
  <2>1. UNCHANGED <<row, late, since, conn, wire, cursor, seen>> /\ Visible' = Visible
    BY <1>12 DEF Fetch, dbVars, tabVars, Visible
  <2>2. CursorSeen' /\ Carried' /\ Resumes'
    BY <2>1 DEF CursorInv, CursorSeen, Carried, Resumes
  <2>3. ASSUME NEW t \in Streams, pc'[t] = "page"
        PROVE  /\ page'[t] \subseteq Visible
               /\ \A e \in page'[t] : e > since[t]
               /\ \A e \in Ids, m \in page'[t] :
                    row[e] = "in" /\ since[t] < e /\ e <= m => e \in page'[t] \cup late
    <3>1. CASE t = s
      <4>1. page'[s] = Listed(s)
        BY <1>0, <1>12 DEF Fetch, TypeOK
      <4>2. Listed(s) \subseteq Visible /\ \A e \in Listed(s) : e > since[s]
        BY DEF Listed, Newer, Visible
      <4>3. \A e \in Ids : row[e] = "in" /\ since[s] < e => e \in Newer(s)
        BY <1>0, EventsAssumption DEF Newer, TypeOK, Ids
      <4>4. \A m \in Listed(s), e \in Newer(s) : e <= m => e \in Listed(s)
        BY ListedIsPrefix
      <4> QED
        BY <3>1, <4>1, <4>2, <4>3, <4>4
    <3>2. CASE t # s
      <4>1. pc[t] = "page" /\ page'[t] = page[t]
        BY <1>0, <1>12, <2>3, <3>2 DEF Fetch, TypeOK
      <4> QED
        BY <4>1 DEF CursorInv, Fetched
    <3> QED
      BY <3>1, <3>2
  <2>4. Fetched'
    BY <2>1, <2>3 DEF Fetched
  <2> QED
    BY <2>2, <2>4
<1>13. ASSUME NEW s \in Streams, Write(s) PROVE Goal
  <2>1. UNCHANGED <<row, late, conn, cursor, seen>> /\ Visible' = Visible
    BY <1>13 DEF Write, dbVars, Visible
  <2>2. ASSUME NEW t \in Streams, pc'[t] = "page"
        PROVE  pc[t] = "page" /\ page'[t] = page[t] /\ since'[t] = since[t]
    <3>1. pc[t] = "page" /\ t # s
      BY <1>0, <1>13, <2>2, LoopLeavesPage DEF Write
    <3> QED
      BY <1>0, <1>13, <3>1 DEF Write, TypeOK
  <2>3. Fetched'
    BY <2>1, <2>2 DEF CursorInv, Fetched
  <2>4. CursorSeen' /\ Resumes'
    BY <2>1 DEF CursorInv, CursorSeen, Resumes
  <2>5. CASE conn = s
    <3>1. PICK m \in page[s] : (\A f \in page[s] : f <= m) /\ since' = [since EXCEPT ![s] = m]
      BY <1>13 DEF Write
    <3>2. page[s] \subseteq Visible /\ m > since[s] /\ Visible \subseteq Ids /\ Ids \subseteq Int
      BY <1>13, EventsAssumption DEF Write, CursorInv, Fetched, Visible, Ids
    <3>3. since'[s] = m /\ wire' = wire \cup page[s]
      BY <1>0, <1>13, <2>5, <3>1 DEF Write, TypeOK
    <3>4. s # None /\ since[s] \in Int /\ cursor \in Int /\ m \in Int
      BY <1>0, <3>2, EventsAssumption DEF TypeOK
    <3>5. /\ cursor <= since[s] /\ wire \subseteq Visible
          /\ \A e \in wire : cursor < e /\ e <= since[s]
          /\ \A e \in Ids : row[e] = "in" /\ e <= since[s] => e \in seen \cup late \cup wire
      BY <2>5, <3>4 DEF CursorInv, Carried
    <3>6. \A e \in Ids : row[e] = "in" /\ since[s] < e /\ e <= m => e \in page[s] \cup late
      BY <1>13 DEF Write, CursorInv, Fetched
    <3>7. cursor <= m
      BY <3>2, <3>4, <3>5
    <3>8. wire' \subseteq Visible /\ \A e \in wire' : cursor < e /\ e <= m
      <4>1. ASSUME NEW e \in wire PROVE cursor < e /\ e <= m
        <5>1. e \in Int /\ cursor < e /\ e <= since[s]
          BY <3>2, <3>5
        <5> QED
          BY <3>2, <3>4, <5>1
      <4>2. ASSUME NEW e \in page[s] PROVE cursor < e /\ e <= m
        <5>1. e \in Int /\ since[s] < e
          BY <1>13, <3>2 DEF Write, CursorInv, Fetched
        <5> QED
          BY <3>1, <3>4, <3>5, <5>1
      <4> QED
        BY <3>2, <3>3, <3>5, <4>1, <4>2
    <3>9. \A e \in Ids : row[e] = "in" /\ e <= m => e \in seen \cup late \cup wire'
      <4> SUFFICES ASSUME NEW e \in Ids, row[e] = "in", e <= m
                   PROVE  e \in seen \cup late \cup wire'
        OBVIOUS
      <4>1. e <= since[s] \/ since[s] < e
        BY <3>2, <3>4
      <4> QED
        BY <3>3, <3>5, <3>6, <4>1
    <3> QED
      BY <2>1, <2>3, <2>4, <2>5, <3>1, <3>2, <3>3, <3>7, <3>8, <3>9 DEF Carried
  <2>6. CASE conn # s
    <3>1. wire' = wire /\ (conn # None => since'[conn] = since[conn])
      BY <1>0, <1>13, <2>6 DEF Write, TypeOK
    <3>2. Carried'
      BY <2>1, <3>1 DEF CursorInv, Carried
    <3> QED
      BY <2>3, <2>4, <3>2
  <2> QED
    BY <2>5, <2>6
<1>14. ASSUME NEW s \in Streams, Connect(s) PROVE Goal
  <2>1. UNCHANGED <<row, late, cursor, seen, page>> /\ Visible' = Visible
    BY <1>14 DEF Connect, dbVars, Visible
  <2>2. ASSUME NEW t \in Streams, pc'[t] = "page"
        PROVE  pc[t] = "page" /\ since'[t] = since[t]
    BY <1>0, <1>14, <2>2 DEF Connect, TypeOK
  <2>3. Fetched'
    BY <2>1, <2>2 DEF CursorInv, Fetched
  <2>4. conn' = s /\ wire' = {} /\ since'[s] = cursor /\ cursor \in Int
    BY <1>0, <1>14, EventsAssumption DEF Connect, TypeOK
  <2>5. Carried'
    BY <2>1, <2>4 DEF CursorInv, Carried, CursorSeen, Resumes
  <2>6. CursorSeen' /\ Resumes'
    BY <2>1 DEF CursorInv, CursorSeen, Resumes
  <2> QED
    BY <2>3, <2>5, <2>6
<1>15. ASSUME NEW e \in Ids, Read(e) PROVE Goal
  <2>1. /\ UNCHANGED <<row, late, since, page, pc, conn>> /\ Visible' = Visible
        /\ wire' = wire \ {e} /\ seen' = seen \cup {e} /\ e \in wire
        /\ cursor' = IF e > cursor THEN e ELSE cursor
        /\ \A f \in wire : e <= f
        /\ conn # None
    BY <1>15 DEF Read, dbVars, streamVars, Visible
  <2>2. /\ cursor <= since[conn] /\ e <= since[conn] /\ e \in Visible
        /\ since[conn] = 0 \/ since[conn] \in Visible
        /\ wire \subseteq Visible /\ \A f \in wire : f <= since[conn]
        /\ \A f \in Ids : row[f] = "in" /\ f <= since[conn] => f \in seen \cup late \cup wire
    BY <2>1 DEF CursorInv, Carried
  <2>3. cursor \in Int /\ since[conn] \in Int /\ Ids \subseteq Int
    BY <1>0, <2>1, EventsAssumption DEF TypeOK, Ids
  <2>4. Fetched'
    BY <2>1 DEF CursorInv, Fetched
  <2>5. CursorSeen'
    BY <2>1, <2>2 DEF CursorInv, CursorSeen
  <2>6. Carried'
    <3>1. cursor' <= since[conn]
      BY <2>1, <2>2, <2>3
    <3>2. ASSUME NEW f \in wire' PROVE cursor' < f /\ f <= since[conn]
      <4>1. f \in Int /\ e \in Int /\ f # e /\ e <= f /\ cursor < e /\ f <= since[conn]
        BY <2>1, <2>2, <2>3, <3>2 DEF CursorInv, Carried, Visible
      <4> QED
        BY <2>1, <2>3, <4>1
    <3> QED
      BY <2>1, <2>2, <3>1, <3>2 DEF Carried
  <2>7. Resumes'
    <3> SUFFICES ASSUME NEW f \in Ids, row[f] = "in", f <= cursor'
                 PROVE  f \in seen' \cup late
      BY <2>1 DEF Resumes
    <3>1. CASE f <= cursor
      BY <2>1, <3>1 DEF CursorInv, Resumes
    <3>2. CASE f <= e
      <4>1. f \in seen \cup late \cup wire
        BY <2>2, <2>3, <3>2
      <4>2. f \in wire => f = e
        BY <2>1, <2>3, <3>2
      <4> QED
        BY <2>1, <4>1, <4>2
    <3> QED
      BY <2>1, <3>1, <3>2
  <2> QED
    BY <2>4, <2>5, <2>6, <2>7
<1>16. ASSUME Refused \/ Reload \/ Lost PROVE Goal
  <2>1. UNCHANGED <<row, late, since, page, pc, cursor, seen>> /\ Visible' = Visible
    BY <1>16 DEF Refused, Reload, Lost, dbVars, streamVars, Visible
  <2>2. Fetched' /\ CursorSeen' /\ Resumes'
    BY <2>1 DEF CursorInv, Fetched, CursorSeen, Resumes
  <2>3. Carried'
    BY <1>16, <2>1 DEF CursorInv, Carried, Refused, Reload, Lost
  <2> QED
    BY <2>2, <2>3
<1>17. ASSUME Crash PROVE Goal
  <2>1. UNCHANGED <<row, late, cursor, seen>> /\ Visible' = Visible
    BY <1>17 DEF Crash, dbVars, Visible
  <2>2. CursorSeen' /\ Resumes'
    BY <2>1 DEF CursorInv, CursorSeen, Resumes
  <2>3. Carried' /\ Fetched'
    BY <1>17 DEF Crash, Carried, Fetched
  <2> QED
    BY <2>2, <2>3
<1>18. ASSUME UNCHANGED vars PROVE Goal
  BY <1>1, <1>18 DEF vars, streamVars
<1> HIDE DEF Goal
<1>19. Goal
  <2>1. ASSUME NEW e \in Ids, Commit(e) \/ Abort(e) \/ Return(e) \/ Prune(e) \/ Read(e)
        PROVE  Goal
    BY <2>1, <1>3, <1>4, <1>5, <1>6, <1>15
  <2>2. ASSUME NEW s \in Streams,
               \/ Fetch(s) \/ FetchFails(s) \/ Write(s) \/ WaitForSignal(s)
               \/ Expires(s) \/ Hangup(s) \/ Connect(s)
        PROVE  Goal
    BY <2>2, <1>10, <1>11, <1>12, <1>13, <1>14
  <2>3. CASE Hear \/ AttachOk \/ AttachFails \/ Dropped \/ TimerFires
    BY <2>3, <1>7, <1>8, <1>9, <1>10
  <2>4. CASE Refused \/ Reload \/ Lost \/ Crash
    BY <2>4, <1>16, <1>17
  <2> QED
    BY <2>1, <2>2, <2>3, <2>4, <1>2, <1>18 DEF Next
<1> QED
  BY <1>19 DEF Goal

(* Initially nothing is stored and nothing is passed.                      *)
LEMMA InitCursor ==
  ASSUME Init
  PROVE  CursorInv
<1>1. TypeOK
  BY InitType
<1>2. IdsFresh /\ Fetched /\ CursorSeen /\ Carried /\ Resumes
  BY DEF Init, IdsFresh, Fetched, CursorSeen, Carried, Resumes
<1> QED
  BY <1>1, <1>2 DEF CursorInv

(* The tab's cursor never passes a stored event it has not read, unless    *)
(* that event committed after a higher id was visible: whatever drops,     *)
(* reloads, crashes and prunings come, and however many streams are open.  *)
THEOREM CursorResumes == Spec => []Resumes
<1>1. Init => CursorInv
  BY InitCursor
<1>2. CursorInv => Resumes
  BY DEF CursorInv
<1> QED
  BY <1>1, <1>2, CursorStep, PTL DEF Spec

-----------------------------------------------------------------------------
(* The abstract feed. *)

(* A step of the system is a step of the feed, or none of its business.    *)
LEMMA FeedStep == CursorInv /\ [Next]_vars => [Feed!Next]_(Feed!vars)
<1> SUFFICES ASSUME CursorInv, [Next]_vars PROVE Feed!Next \/ UNCHANGED Feed!vars
  BY DEF Feed!vars
<1>0. TypeOK
  BY DEF CursorInv
<1>1. ASSUME UNCHANGED <<row, late, cursor, seen>> PROVE UNCHANGED Feed!vars
  BY <1>1 DEF Feed!vars, Stored, Visible
<1>2. ASSUME NEW e \in Ids, Commit(e) PROVE Feed!Next
  <2>1. Stored' = Stored \cup {e} /\ Visible' = Visible \cup {e} /\ e \notin Visible
    BY <1>0, <1>2 DEF Commit, TypeOK, Stored, Visible
  <2>2. UNCHANGED <<cursor, seen>>
    BY <1>2 DEF Commit, tabVars
  <2>3. Feed!Store(e)
    BY <1>2, <2>1, <2>2 DEF Feed!Store, Commit
  <2> QED
    BY <2>3 DEF Feed!Next
<1>3. ASSUME NEW k \in Ids, Prune(k) PROVE Feed!Next
  <2> DEFINE D == {e \in Stored : e <= k}
  <2>1. Stored' = Stored \ D /\ Visible' = Visible
    BY <1>0, <1>3 DEF Prune, TypeOK, Stored, Visible
  <2>2. UNCHANGED <<late, cursor, seen>> /\ D \in SUBSET Stored
    BY <1>3 DEF Prune, tabVars
  <2>3. Feed!Delete(D)
    BY <2>1, <2>2 DEF Feed!Delete
  <2> HIDE DEF D
  <2> QED
    BY <2>2, <2>3 DEF Feed!Next
<1>4. ASSUME NEW e \in Ids, Read(e) PROVE Feed!Next
  <2>1. /\ conn # None /\ e \in wire /\ \A f \in wire : e <= f
        /\ seen' = seen \cup {e} /\ cursor' = IF e > cursor THEN e ELSE cursor
        /\ Stored' = Stored /\ Visible' = Visible /\ late' = late
    BY <1>4 DEF Read, dbVars, Stored, Visible
  <2>2. /\ e \in Visible /\ cursor < e /\ e <= since[conn]
        /\ \A f \in Ids : row[f] = "in" /\ f <= since[conn] => f \in seen \cup late \cup wire
    BY <2>1 DEF CursorInv, Carried
  <2>3. cursor \in Int /\ since[conn] \in Int /\ Ids \subseteq Int
    BY <1>0, <2>1, EventsAssumption DEF TypeOK, Ids
  <2>4. cursor' = e /\ e > cursor
    BY <2>1, <2>2, <2>3
  <2>5. ASSUME NEW f \in Stored, f < e PROVE f \in late \cup seen
    <3>1. f \in Ids /\ row[f] = "in" /\ f <= since[conn] /\ f \notin wire
      BY <2>1, <2>2, <2>3, <2>5 DEF Stored
    <3> QED
      BY <2>2, <3>1
  <2>6. Feed!Deliver(e)
    BY <2>1, <2>2, <2>4, <2>5 DEF Feed!Deliver
  <2> QED
    BY <2>6 DEF Feed!Next
<1>5. ASSUME NEW e \in Ids, Abort(e) PROVE UNCHANGED Feed!vars
  <2>1. Stored' = Stored /\ Visible' = Visible
    BY <1>0, <1>5 DEF Abort, TypeOK, Stored, Visible
  <2> QED
    BY <1>5, <2>1 DEF Abort, Feed!vars, tabVars
<1>6. ASSUME NEW api \in BOOLEAN, Insert(api) PROVE UNCHANGED Feed!vars
  <2>1. last + 1 \in Ids /\ row[last + 1] = "none"
    <3>1. last + 1 \in Ids /\ last + 1 > last
      BY <1>0, <1>6, EventsAssumption DEF Insert, TypeOK, Ids
    <3> QED
      BY <3>1 DEF CursorInv, IdsFresh
  <2>2. Stored' = Stored /\ Visible' = Visible
    BY <1>0, <1>6, <2>1 DEF Insert, TypeOK, Stored, Visible
  <2> QED
    BY <1>6, <2>2 DEF Insert, Feed!vars, tabVars
<1>7. ASSUME NEW e \in Ids, Return(e) PROVE UNCHANGED Feed!vars
  BY <1>1, <1>7 DEF Return, dbVars, tabVars
<1>8. ASSUME Hear \/ AttachOk \/ AttachFails \/ Dropped \/ TimerFires
      PROVE  UNCHANGED Feed!vars
  BY <1>1, <1>8 DEF Hear, AttachOk, AttachFails, Dropped, TimerFires, dbVars, tabVars
<1>9. ASSUME NEW s \in Streams,
             \/ Fetch(s) \/ FetchFails(s) \/ Write(s) \/ WaitForSignal(s)
             \/ Expires(s) \/ Hangup(s) \/ Connect(s)
      PROVE  UNCHANGED Feed!vars
  BY <1>1, <1>9
  DEF Fetch, FetchFails, Write, WaitForSignal, Expires, Hangup, Connect, dbVars, tabVars
<1>10. ASSUME Refused \/ Reload \/ Lost \/ Crash PROVE UNCHANGED Feed!vars
  BY <1>1, <1>10 DEF Refused, Reload, Lost, Crash, dbVars
<1>11. ASSUME UNCHANGED vars PROVE UNCHANGED Feed!vars
  BY <1>1, <1>11 DEF vars, dbVars, tabVars
<1>12. ASSUME NEW e \in Ids, Commit(e) \/ Abort(e) \/ Return(e) \/ Prune(e) \/ Read(e)
       PROVE  Feed!Next \/ UNCHANGED Feed!vars
  BY <1>2, <1>3, <1>4, <1>5, <1>7, <1>12
<1> QED
  BY <1>6, <1>8, <1>9, <1>10, <1>11, <1>12 DEF Next

(* The event path implements the feed: every behaviour of the signals,     *)
(* streams and tab is, seen through the table and the tab's cursor, a      *)
(* behaviour in which each event is read at most once and in order.        *)
THEOREM FeedImplemented == Spec => ImplementsFeed
<1>1. Init => CursorInv
  BY InitCursor
<1>2. Init => Feed!Init
  BY DEF Init, Feed!Init, Stored, Visible
<1> QED
  BY <1>1, <1>2, CursorStep, FeedStep, PTL DEF Spec, ImplementsFeed, Feed!Spec

-----------------------------------------------------------------------------
(* The slots. *)

(* As many slots come back as streams end.                                 *)
LEMMA SlotsReleased ==
  ASSUME SlotsMatchStreams, NEW C, C \subseteq Open,
         slots' = Release(Cardinality(C)), Open' = Open \ C
  PROVE  SlotsMatchStreams'
<1>1. IsFiniteSet(Open) /\ IsFiniteSet(C)
  BY EventsAssumption, FS_Subset DEF Open
<1>2. Open \cap C = C
  OBVIOUS
<1>3. Cardinality(Open \ C) = Cardinality(Open) - Cardinality(C)
  BY <1>1, <1>2, FS_Difference
<1>4. Cardinality(C) <= Cardinality(Open)
  BY <1>1, FS_Subset
<1>5. Cardinality(C) \in Nat /\ Cardinality(Open) \in Nat
  BY <1>1, FS_CardinalityType
<1>6. slots' = Cardinality(Open) - Cardinality(C)
  BY <1>4, <1>5 DEF Release, SlotsMatchStreams
<1> QED
  BY <1>3, <1>6 DEF SlotsMatchStreams

(* Streams that return to the head of their loop keep the count.           *)
LEMMA LoopCounts ==
  ASSUME TypeOK, SlotsMatchStreams, NEW S, S \subseteq Open, Loop(S)
  PROVE  SlotsMatchStreams'
<1> DEFINE C == {s \in S : closed[s]}
<1>1. slots' = Release(Cardinality(C)) /\ C \subseteq Open
  BY DEF Loop
<1>2. Open' = Open \ C
  BY DEF Loop, Open, TypeOK
<1> HIDE DEF C
<1> QED
  BY <1>1, <1>2, SlotsReleased

(* Every step keeps the count of the open streams.                         *)
LEMMA SlotsStep == TypeOK /\ SlotsMatchStreams /\ [Next]_vars => SlotsMatchStreams'
<1> SUFFICES ASSUME TypeOK, SlotsMatchStreams, [Next]_vars PROVE SlotsMatchStreams'
  OBVIOUS
<1>1. ASSUME Open' = Open, UNCHANGED slots PROVE SlotsMatchStreams'
  BY <1>1 DEF SlotsMatchStreams
<1>2. ASSUME NEW e, Dispatch(e) PROVE SlotsMatchStreams'
  <2>1. {s \in Streams : pc[s] = "wait" /\ since[s] < e} \subseteq Open
    BY DEF Open
  <2> QED
    BY <1>2, <2>1, LoopCounts DEF Dispatch
<1>3. ASSUME NEW e \in Ids, Return(e) PROVE SlotsMatchStreams'
  BY <1>2, <1>3 DEF Return
<1>4. ASSUME Hear PROVE SlotsMatchStreams'
  BY <1>2, <1>4 DEF Hear
<1>5. ASSUME AttachOk PROVE SlotsMatchStreams'
  <2> DEFINE here == {s \in Streams : pc[s] = "ensure"}
             back == {s \in here : latest > since[s]}
             C == {s \in back : closed[s]}
  <2>1. slots' = Release(Cardinality(C))
    BY <1>5 DEF AttachOk
  <2>2. C \subseteq Open
    BY DEF Open
  <2>3. Open' = Open \ C
    BY <1>5 DEF AttachOk, Open, TypeOK
  <2> HIDE DEF C
  <2> QED
    BY <2>1, <2>2, <2>3, SlotsReleased
<1>6. ASSUME AttachFails PROVE SlotsMatchStreams'
  <2>1. Open' = Open /\ UNCHANGED slots
    BY <1>6 DEF AttachFails, Open, TypeOK
  <2> QED
    BY <1>1, <2>1
<1>7. ASSUME NEW s \in Streams, Fetch(s) \/ FetchFails(s) PROVE SlotsMatchStreams'
  <2>1. Open' = Open /\ UNCHANGED slots
    BY <1>7 DEF Fetch, FetchFails, Open, TypeOK
  <2> QED
    BY <1>1, <2>1
<1>8. ASSUME NEW s \in Streams, Write(s) \/ Expires(s) \/ WaitForSignal(s)
      PROVE  SlotsMatchStreams'
  <2>1. {s} \subseteq Open
    BY <1>8 DEF Write, Expires, WaitForSignal, Open
  <2>2. CASE Loop({s})
    BY <2>1, <2>2, LoopCounts
  <2>3. ASSUME NEW place \in {"wait", "ensure"}, pc' = [pc EXCEPT ![s] = place],
               UNCHANGED slots
        PROVE  SlotsMatchStreams'
    <3>1. Open' = Open
      BY <2>1, <2>3 DEF Open, TypeOK
    <3> QED
      BY <1>1, <2>3, <3>1
  <2> QED
    BY <1>8, <2>2, <2>3 DEF Write, Expires, WaitForSignal
<1>9. ASSUME NEW s \in Streams, Connect(s) PROVE SlotsMatchStreams'
  <2>1. Open' = Open \cup {s} /\ s \notin Open /\ slots' = slots + 1
    BY <1>9 DEF Connect, Open, TypeOK
  <2>2. IsFiniteSet(Open)
    BY EventsAssumption, FS_Subset DEF Open
  <2>3. Cardinality(Open \cup {s}) = Cardinality(Open) + 1
    BY <2>1, <2>2, FS_AddElement
  <2> QED
    BY <2>1, <2>3 DEF SlotsMatchStreams
<1>10. ASSUME Crash PROVE SlotsMatchStreams'
  <2>1. Open' = {} /\ slots' = 0
    BY <1>10 DEF Crash, Open
  <2> QED
    BY <2>1, FS_EmptySet DEF SlotsMatchStreams
<1>11. ASSUME UNCHANGED <<pc, slots>> PROVE SlotsMatchStreams'
  BY <1>1, <1>11 DEF Open
<1> QED
  BY <1>3, <1>4, <1>5, <1>6, <1>7, <1>8, <1>9, <1>10, <1>11
  DEF Next, vars, Insert, Commit, Abort, Prune, Read, Dropped, TimerFires, Hangup,
      Refused, Reload, Lost, streamVars

(* The counter that refuses a fourth stream is the number of handlers that *)
(* run, so it is neither left behind by a stream that ended nor lowered    *)
(* twice, for any number of streams and slots.                             *)
THEOREM SlotsAreStreams == Spec => []SlotsMatchStreams
<1>1. ASSUME Init PROVE SlotsMatchStreams
  <2>1. Open = {} /\ slots = 0
    BY <1>1 DEF Init, Open
  <2> QED
    BY <2>1, FS_EmptySet DEF SlotsMatchStreams
<1> QED
  BY <1>1, SlotsStep, TypeCorrect, PTL DEF Spec
=============================================================================
