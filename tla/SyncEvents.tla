------------------------------ MODULE SyncEvents ------------------------------
(***************************************************************************)
(* How a sync event reaches a browser tab. emitSyncEvent inserts a row and *)
(* notifies a Postgres channel; the API process listens on that channel on *)
(* one dedicated connection, keeps the last signal of a user, and wakes    *)
(* the event streams that wait for it; a stream reads the rows past its    *)
(* cursor and writes them to the tab, which saves the cursor of every      *)
(* frame it reads. Signals and rows of two users do not meet, so one user  *)
(* is modelled, with one tab, one API process and the worker beside it.    *)
(* Ids taken by other users' events show as Abort: ids no reader sees.     *)
(*                                                                         *)
(* Sources: services/imapEvents.ts, routes/syncEventsRoutes.ts,            *)
(* routes/helpers.ts (stream slots), client SyncEventBridge.tsx            *)
(***************************************************************************)
EXTENDS Integers, FiniteSets, Sequences

CONSTANTS
  MaxEvents,   \* bound: ids the sequence of sync_events gives out
  Streams,     \* runs of the GET /api/events/stream handler
  MaxStreams,  \* MAX_ACTIVE_EVENT_STREAMS_PER_USER (3 in the code)
  Limit,       \* rows a stream asks for at a time (250 in the code)
  None,        \* no stream
  MaxReloads,  \* bound: page loads and clean ends of a connection
  MaxFaults,   \* bound: faults in a behaviour
  Faults       \* the environment faults the run lets happen

ASSUME EventsAssumption ==
  /\ MaxEvents \in Nat /\ MaxStreams \in Nat /\ Limit \in Nat
  /\ MaxReloads \in Nat /\ MaxFaults \in Nat
  /\ IsFiniteSet(Streams)
  /\ None \notin Streams
  /\ Faults \subseteq {"drop", "query", "net", "crash", "prune"}

VARIABLES
  last,      \* the last id given out
  row,       \* each id's row: "none", "open" (not committed), "void", "in", "gone"
  own,       \* events whose emitSyncEvent still runs in the API process
  notes,     \* notifications under way to the listener, in commit order
  listener,  \* "none", "connecting" (listenerBootstrapPromise), "on" (listenerClient)
  timer,     \* listenerReconnectTimer is set
  byTimer,   \* the timer's callback waits for the connection too
  latest,    \* latestSignalByUser; 0: none
  pc,        \* where a stream is
  closed,    \* its request was closed
  since,     \* its cursor
  page,      \* the rows its query returned
  slots,     \* activeEventStreamsByUser
  bridge,    \* "running"; "stopped": the tab's consumeStream has returned
  conn,      \* the stream the tab reads
  wire,      \* frames written to the tab and not read yet
  cursor,    \* the tab's cursor, the same in memory and in its storage
  seen,      \* events the tab has read
  reloads,   \* page loads and clean ends
  faults,    \* faults that happened
  told,      \* history: the highest event signalled to the process
  once,      \* history: the process has listened
  late       \* history: committed after a higher id was visible

dbVars       == <<last, row, late>>
signalVars   == <<latest, told>>
listenerVars == <<listener, timer, byTimer, once>>
streamVars   == <<pc, slots>>
tabVars      == <<bridge, conn, wire, cursor, seen, reloads>>
vars == <<dbVars, own, notes, signalVars, listenerVars, streamVars, closed,
          since, page, tabVars, faults>>

Ids == 1 .. MaxEvents
RowStates == {"none", "open", "void", "in", "gone"}
Places == {"off", "list", "page", "ensure", "wait", "pause"}

\* Rows some query has been able to see.
Visible == {e \in Ids : row[e] \in {"in", "gone"}}

Open == {s \in Streams : pc[s] # "off"}

Init ==
  /\ last = 0 /\ row = [e \in Ids |-> "none"] /\ late = {}
  /\ own = {} /\ notes = <<>>
  /\ listener = "none" /\ timer = FALSE /\ byTimer = FALSE /\ once = FALSE
  /\ latest = 0 /\ told = 0
  /\ pc = [s \in Streams |-> "off"] /\ closed = [s \in Streams |-> FALSE]
  /\ since = [s \in Streams |-> 0] /\ page = [s \in Streams |-> {}]
  /\ slots = 0
  /\ bridge = "running" /\ conn = None /\ wire = {} /\ cursor = 0 /\ seen = {}
  /\ reloads = 0 /\ faults = 0

Fault(kind) ==
  /\ kind \in Faults
  /\ faults < MaxFaults
  /\ faults' = faults + 1

-----------------------------------------------------------------------------
(* The streams that come back to the head of their loop: one whose request *)
(* was closed ends and gives its slot back, the others query again.        *)

Release(n) == IF slots <= n THEN 0 ELSE slots - n

\* A stream that looks at closed only when its query finds nothing.
LoopBlind(S) ==
  /\ pc' = [s \in Streams |-> IF s \notin S THEN pc[s] ELSE "list"]
  /\ slots' = slots

Loop(S) ==
  /\ pc' = [s \in Streams |->
              IF s \notin S THEN pc[s] ELSE IF closed[s] THEN "off" ELSE "list"]
  /\ slots' = Release(Cardinality({s \in S : closed[s]}))

\* The signal of event e: kept as the last one, whatever was kept before, and
\* given to every waiter whose cursor is older.
Dispatch(e) ==
  /\ latest' = e
  /\ told' = IF e > told THEN e ELSE told
  /\ Loop({s \in Streams : pc[s] = "wait" /\ since[s] < e})

-----------------------------------------------------------------------------
(* emitSyncEvent, in the API process or in the worker. *)

Insert(api) ==
  /\ last < MaxEvents
  /\ last' = last + 1
  /\ row' = [row EXCEPT ![last + 1] = "open"]
  /\ own' = IF api THEN own \cup {last + 1} ELSE own
  /\ UNCHANGED <<late, notes, signalVars, listenerVars, streamVars, closed, since,
                 page, tabVars, faults>>

\* The statement commits: the row is visible and the listeners are notified.
Commit(e) ==
  /\ row[e] = "open"
  /\ row' = [row EXCEPT ![e] = "in"]
  /\ late' = IF \E f \in Visible : f > e THEN late \cup {e} ELSE late
  /\ notes' = IF listener = "on" THEN Append(notes, e) ELSE notes
  /\ UNCHANGED <<last, own, signalVars, listenerVars, streamVars, closed, since, page,
                 tabVars, faults>>

\* The insert fails, or its row is another user's.
Abort(e) ==
  /\ row[e] = "open"
  /\ row' = [row EXCEPT ![e] = "void"]
  /\ own' = own \ {e}
  /\ UNCHANGED <<last, late, notes, signalVars, listenerVars, streamVars, closed,
                 since, page, tabVars, faults>>

\* The API process gets the result of its own insert.
Return(e) ==
  /\ e \in own /\ e \in Visible
  /\ own' = own \ {e}
  /\ Dispatch(e)
  /\ UNCHANGED <<dbVars, notes, listenerVars, closed, since, page, tabVars, faults>>

\* pruneSyncEvents deletes the oldest rows.
Prune(k) ==
  /\ row[k] = "in"
  /\ Fault("prune")
  /\ row' = [e \in Ids |-> IF e <= k /\ row[e] = "in" THEN "gone" ELSE row[e]]
  /\ UNCHANGED <<last, late, own, notes, signalVars, listenerVars, streamVars, closed,
                 since, page, tabVars>>

-----------------------------------------------------------------------------
(* The listener. *)

Hear ==
  /\ listener = "on" /\ notes # <<>>
  /\ notes' = Tail(notes)
  /\ Dispatch(Head(notes))
  /\ UNCHANGED <<dbVars, own, listenerVars, closed, since, page, tabVars, faults>>

\* LISTEN succeeds: the streams that awaited it look at the last signal and
\* wait, or go back to their query when it is newer than their cursor.
AttachOk ==
  /\ listener = "connecting"
  /\ listener' = "on" /\ once' = TRUE /\ byTimer' = FALSE
  /\ LET here == {s \in Streams : pc[s] = "ensure"}
         back == {s \in here : latest > since[s]}
     IN /\ pc' = [s \in Streams |->
                    IF s \notin here THEN pc[s]
                    ELSE IF s \notin back THEN "wait"
                    ELSE IF closed[s] THEN "off" ELSE "list"]
        /\ slots' = Release(Cardinality({s \in back : closed[s]}))
  /\ UNCHANGED <<dbVars, own, notes, signalVars, timer, closed, since, page, tabVars,
                 faults>>

\* It fails: the streams that awaited it pause; the reconnect timer is set
\* again only if its callback awaited it too.
AttachFails ==
  /\ listener = "connecting"
  /\ Fault("drop")
  /\ listener' = "none" /\ byTimer' = FALSE
  /\ timer' = (timer \/ byTimer)
  /\ pc' = [s \in Streams |-> IF pc[s] = "ensure" THEN "pause" ELSE pc[s]]
  /\ UNCHANGED <<dbVars, own, notes, signalVars, once, slots, closed, since, page,
                 tabVars>>

\* The listener's connection drops with the notifications under way on it.
Dropped ==
  /\ listener = "on"
  /\ Fault("drop")
  /\ listener' = "none" /\ timer' = TRUE
  /\ notes' = <<>>
  /\ UNCHANGED <<dbVars, own, signalVars, byTimer, once, streamVars, closed, since,
                 page, tabVars>>

TimerFires ==
  /\ timer
  /\ timer' = FALSE
  /\ listener' = IF listener = "none" THEN "connecting" ELSE listener
  /\ byTimer' = (listener # "on")
  /\ UNCHANGED <<dbVars, own, notes, signalVars, once, streamVars, closed, since, page,
                 tabVars, faults>>

-----------------------------------------------------------------------------
(* The loop of a stream. *)

Newer(s) == {e \in Ids : row[e] = "in" /\ e > since[s]}

\* listSyncEvents: the first rows past the cursor.
Listed(s) == {e \in Newer(s) : Cardinality({f \in Newer(s) : f <= e}) <= Limit}

\* The database answers the query.
Fetch(s) ==
  /\ pc[s] = "list"
  /\ pc' = [pc EXCEPT ![s] = "page"]
  /\ page' = [page EXCEPT ![s] = Listed(s)]
  /\ UNCHANGED <<dbVars, own, notes, signalVars, listenerVars, slots, closed, since,
                 tabVars, faults>>

FetchFails(s) ==
  /\ pc[s] = "list"
  /\ Fault("query")
  /\ pc' = [pc EXCEPT ![s] = "pause"]
  /\ UNCHANGED <<dbVars, own, notes, signalVars, listenerVars, slots, closed, since,
                 page, tabVars>>

\* The stream writes the rows in their order and moves its cursor. The ids on
\* the wire only grow, so the tab reads the least one first.
Write(s) ==
  /\ pc[s] = "page" /\ page[s] # {}
  /\ \E m \in page[s] :
       /\ \A f \in page[s] : f <= m
       /\ since' = [since EXCEPT ![s] = m]
  /\ wire' = IF conn = s THEN wire \cup page[s] ELSE wire
  /\ page' = [page EXCEPT ![s] = {}]
  /\ Loop({s})
  /\ UNCHANGED <<dbVars, own, notes, signalVars, listenerVars, closed, bridge, conn,
                 cursor, seen, reloads, faults>>

\* A wait that does not look at the last signal first.
WaitWithoutLook(s) ==
  /\ pc[s] = "page" /\ page[s] = {}
  /\ \/ /\ listener = "on"
        /\ pc' = [pc EXCEPT ![s] = "wait"]
        /\ UNCHANGED <<listener, slots>>
     \/ /\ listener # "on"
        /\ listener' = "connecting"
        /\ pc' = [pc EXCEPT ![s] = "ensure"]
        /\ UNCHANGED slots
  /\ UNCHANGED <<dbVars, own, notes, signalVars, timer, byTimer, once, closed, since,
                 page, tabVars, faults>>

\* It found nothing: waitForSyncEventSignal makes sure of the listener, and
\* looks at the last signal before it waits.
WaitForSignal(s) ==
  /\ pc[s] = "page" /\ page[s] = {}
  /\ \/ /\ listener = "on" /\ latest > since[s]
        /\ Loop({s})
        /\ UNCHANGED listener
     \/ /\ listener = "on" /\ latest <= since[s]
        /\ pc' = [pc EXCEPT ![s] = "wait"]
        /\ UNCHANGED <<listener, slots>>
     \/ /\ listener # "on"
        /\ listener' = "connecting"
        /\ pc' = [pc EXCEPT ![s] = "ensure"]
        /\ UNCHANGED slots
  /\ UNCHANGED <<dbVars, own, notes, signalVars, timer, byTimer, once, closed, since,
                 page, tabVars, faults>>

\* A wait without a timeout.
PauseOnlyExpires(s) ==
  /\ pc[s] = "pause"
  /\ Loop({s})
  /\ UNCHANGED <<dbVars, own, notes, signalVars, listenerVars, closed, since, page,
                 tabVars, faults>>

\* The wait of 25 s ends without a signal, or a pause ends.
Expires(s) ==
  /\ pc[s] \in {"wait", "pause"}
  /\ Loop({s})
  /\ UNCHANGED <<dbVars, own, notes, signalVars, listenerVars, closed, since, page,
                 tabVars, faults>>

\* The server learns that the tab has left.
Hangup(s) ==
  /\ pc[s] # "off" /\ conn # s /\ ~closed[s]
  /\ closed' = [closed EXCEPT ![s] = TRUE]
  /\ UNCHANGED <<dbVars, own, notes, signalVars, listenerVars, streamVars, since, page,
                 tabVars, faults>>

-----------------------------------------------------------------------------
(* The tab's SyncEventBridge. *)

\* A stream opened without the cursor of the request.
ConnectFromStart(s) ==
  /\ bridge = "running" /\ conn = None
  /\ slots < MaxStreams /\ pc[s] = "off"
  /\ slots' = slots + 1
  /\ pc' = [pc EXCEPT ![s] = "list"]
  /\ closed' = [closed EXCEPT ![s] = FALSE]
  /\ since' = [since EXCEPT ![s] = 0]
  /\ conn' = s /\ wire' = {}
  /\ UNCHANGED <<dbVars, own, notes, signalVars, listenerVars, page, bridge, cursor,
                 seen, reloads, faults>>

\* Its request gets a slot and opens a stream at its cursor.
Connect(s) ==
  /\ bridge = "running" /\ conn = None
  /\ slots < MaxStreams /\ pc[s] = "off"
  /\ slots' = slots + 1
  /\ pc' = [pc EXCEPT ![s] = "list"]
  /\ closed' = [closed EXCEPT ![s] = FALSE]
  /\ since' = [since EXCEPT ![s] = cursor]
  /\ conn' = s /\ wire' = {}
  /\ UNCHANGED <<dbVars, own, notes, signalVars, listenerVars, page, bridge, cursor,
                 seen, reloads, faults>>

\* Answer 429: consumeStream throws and returns for good.
Refused ==
  /\ bridge = "running" /\ conn = None
  /\ slots >= MaxStreams
  /\ bridge' = "stopped"
  /\ UNCHANGED <<dbVars, own, notes, signalVars, listenerVars, streamVars, closed,
                 since, page, conn, wire, cursor, seen, reloads, faults>>

\* A cursor saved before the frames are read.
ReadAhead(e) ==
  /\ conn # None
  /\ e \in wire /\ \A f \in wire : e <= f
  /\ wire' = wire \ {e}
  /\ cursor' = since[conn]
  /\ seen' = seen \cup {e}
  /\ UNCHANGED <<dbVars, own, notes, signalVars, listenerVars, streamVars, closed,
                 since, page, bridge, conn, reloads, faults>>

Read(e) ==
  /\ conn # None
  /\ e \in wire /\ \A f \in wire : e <= f
  /\ wire' = wire \ {e}
  /\ cursor' = IF e > cursor THEN e ELSE cursor
  /\ seen' = seen \cup {e}
  /\ UNCHANGED <<dbVars, own, notes, signalVars, listenerVars, streamVars, closed,
                 since, page, bridge, conn, reloads, faults>>

\* The connection ends without an error (a proxy), or the page is loaded anew.
Reload ==
  /\ reloads < MaxReloads
  /\ reloads' = reloads + 1
  /\ bridge' = "running" /\ conn' = None /\ wire' = {}
  /\ UNCHANGED <<dbVars, own, notes, signalVars, listenerVars, streamVars, closed,
                 since, page, cursor, seen, faults>>

\* The request or its connection fails: consumeStream returns for good.
Lost ==
  /\ bridge = "running"
  /\ Fault("net")
  /\ bridge' = "stopped" /\ conn' = None /\ wire' = {}
  /\ UNCHANGED <<dbVars, own, notes, signalVars, listenerVars, streamVars, closed,
                 since, page, cursor, seen, reloads>>

\* The API process dies and starts again; a tab it served sees an error.
Crash ==
  /\ Fault("crash")
  /\ own' = {} /\ notes' = <<>>
  /\ listener' = "none" /\ timer' = FALSE /\ byTimer' = FALSE /\ once' = FALSE
  /\ latest' = 0 /\ told' = 0
  /\ pc' = [s \in Streams |-> "off"]
  /\ closed' = [s \in Streams |-> FALSE]
  /\ since' = [s \in Streams |-> 0]
  /\ page' = [s \in Streams |-> {}]
  /\ slots' = 0
  /\ bridge' = IF conn # None THEN "stopped" ELSE bridge
  /\ conn' = None /\ wire' = {}
  /\ UNCHANGED <<dbVars, cursor, seen, reloads>>

-----------------------------------------------------------------------------

Next ==
  \/ \E api \in BOOLEAN : Insert(api)
  \/ \E e \in Ids : Commit(e) \/ Abort(e) \/ Return(e) \/ Prune(e) \/ Read(e)
  \/ Hear \/ AttachOk \/ AttachFails \/ Dropped \/ TimerFires
  \/ \E s \in Streams : \/ Fetch(s) \/ FetchFails(s) \/ Write(s) \/ WaitForSignal(s)
                        \/ Expires(s) \/ Hangup(s) \/ Connect(s)
  \/ Refused \/ Reload \/ Lost \/ Crash

Spec == Init /\ [][Next]_vars

(* The process goes on running its callbacks and timers, connections are   *)
(* answered, and a closed socket is noticed. Nothing obliges the           *)
(* environment to emit, reload or fail.                                    *)
Fairness ==
  /\ WF_vars(AttachOk) /\ WF_vars(Hear) /\ WF_vars(TimerFires)
  /\ \A e \in Ids : WF_vars(Return(e)) /\ WF_vars(Read(e))
  /\ \A s \in Streams : /\ WF_vars(Fetch(s)) /\ WF_vars(Write(s))
                        /\ WF_vars(WaitForSignal(s)) /\ WF_vars(Expires(s))
                        /\ WF_vars(Hangup(s))
  /\ WF_vars(\E s \in Streams : Connect(s))

FairSpec == Spec /\ Fairness
-----------------------------------------------------------------------------

TypeOK ==
  /\ last \in 0 .. MaxEvents
  /\ row \in [Ids -> RowStates]
  /\ own \subseteq Ids /\ late \subseteq Ids /\ seen \subseteq Ids /\ wire \subseteq Ids
  /\ notes \in Seq(Ids)
  /\ listener \in {"none", "connecting", "on"}
  /\ timer \in BOOLEAN /\ byTimer \in BOOLEAN /\ once \in BOOLEAN
  /\ latest \in 0 .. MaxEvents /\ told \in 0 .. MaxEvents
  /\ pc \in [Streams -> Places]
  /\ closed \in [Streams -> BOOLEAN]
  /\ since \in [Streams -> 0 .. MaxEvents]
  /\ page \in [Streams -> SUBSET Ids]
  /\ slots \in 0 .. MaxStreams
  /\ bridge \in {"running", "stopped"}
  /\ conn \in Streams \cup {None}
  /\ cursor \in 0 .. MaxEvents
  /\ reloads \in 0 .. MaxReloads
  /\ faults \in 0 .. MaxFaults

(* The tab's saved cursor never passes a stored event it has not read,     *)
(* through drops, reloads, crashes and reconnects; the exception is an     *)
(* event that committed after one with a higher id could be read, which a  *)
(* cursor over a sequence (imapEvents.ts:188) cannot come back to.         *)
Resumes == \A e \in Ids : row[e] = "in" /\ e <= cursor => e \in seen \cup late

(* A stream does not sleep while the signal its process keeps is newer     *)
(* than its cursor, whatever came between its empty query, the opening of  *)
(* the listener and its subscription (imapEvents.ts:213-253).              *)
AwakeWhenTold == \A s \in Streams : pc[s] = "wait" => latest <= since[s]

(* Nor while its process has been told, by any signal, of an event newer   *)
(* than its cursor: the last signal is the newest.                         *)
NewestSignalKept == \A s \in Streams : pc[s] = "wait" => told <= since[s]

(* A process that has listened once listens, or is about to try again,     *)
(* whoever started the attempt that failed (imapEvents.ts:75-133).         *)
ListenerReturns ==
  once => listener = "on" \/ timer \/ (listener = "connecting" /\ byTimer)

(* The counter of a user's streams is the number of handlers that run, so  *)
(* a slot is neither lost nor given back twice (routes/helpers.ts:321-337).*)
SlotsMatchStreams == slots = Cardinality(Open)

(* An event stored while a tab reads a stream reaches the tab, signal or   *)
(* no signal, unless it committed late, is pruned or the tab goes away.    *)
Delivered ==
  \A e \in Ids, s \in Streams :
    (row[e] = "in" /\ e \notin late /\ conn = s) ~>
      (e \in seen \/ row[e] = "gone" \/ conn # s)

(* A stream whose tab has left ends and frees its slot.                    *)
StreamEnds == \A s \in Streams : closed[s] /\ pc[s] # "off" ~> pc[s] = "off"

-----------------------------------------------------------------------------
(* The abstract feed. *)

Stored == {e \in Ids : row[e] = "in"}

Feed == INSTANCE EventFeed WITH Events <- Ids, stored <- Stored, known <- Visible

(* Behind the signals, pages, drops and reloads there is a feed: each      *)
(* event is read once, in the order of ids, and none is passed over that   *)
(* had not been stored late (SyncEventBridge.tsx:231-235, imapEvents.ts:   *)
(* 178-194).                                                               *)
ImplementsFeed == Feed!Spec
=============================================================================
