------------------------------ MODULE IdleWatch ------------------------------
(***************************************************************************)
(* The idle watches of one mailbox of one connector. A watch is a loop that *)
(* syncs the mailbox again and again (Gmail) or waits in IMAP IDLE and      *)
(* syncs on every change. Each process keeps its watches in a map of its    *)
(* own: the API starts and stops them for requests and resumes them when it *)
(* boots; the worker's maintenance tick starts one when the renewal of a    *)
(* Gmail push watch fails, stops it when a renewal succeeds, and restarts   *)
(* the ones its watchdog finds stale. A loop that throws takes its process  *)
(* down: nothing handles the rejection.                                     *)
(*                                                                          *)
(* Sources: services/imap/imapService.monolith.ts (startIncomingConnector-  *)
(* IdleWatch ... resumeConfiguredIdleWatches), worker/run.ts,               *)
(* services/gmailPush.ts, routes/syncManagementRoutes.ts,                   *)
(* routes/connectors-cleanup.ts.                                            *)
(***************************************************************************)
EXTENDS Naturals, Sequences

CONSTANTS
  Calls,      \* requests to the API, each made once
  WatchIds,   \* watches alive at a time, 1..n
  MaxErrs,    \* MAX_CONSECUTIVE_ERRORS (20 in the code)
  Setups      \* one to a behaviour: [gmail : BOOLEAN, mishaps : Nat (failures), asks : a
              \* set of what the requests may be, "watch", "unwatch", "delete"]

ASSUME IdleAssumption ==
  /\ {"resume", "tick"} \cap Calls = {}
  /\ WatchIds \subseteq Nat \ {0} /\ MaxErrs \in Nat
  /\ \A s \in Setups : s.gmail \in BOOLEAN /\ s.mishaps \in Nat /\ s.asks \subseteq {"watch", "unwatch", "delete"}

Procs == {"api", "worker"}
Callers == Calls \cup {"resume", "tick"}
At(c) == IF c = "tick" THEN "worker" ELSE "api"

VARIABLES
  setup,     \* the setting
  conn,      \* the connector's row
  watch,     \* the IdleWatch objects
  entry,     \* activeIdleWatchers of each process; 0: no entry
  call,      \* requests, the resume at boot and the maintenance tick
  mishaps,   \* failures so far
  lost       \* history: watches that another one replaced in the map, or that a stop
             \* that waited for an earlier watch took out of it

idleVars == <<setup, conn, watch, entry, call, mishaps, lost>>

NoWatch == [at |-> "api", phase |-> "none", stop |-> FALSE, hears |-> FALSE, errs |-> 0, online |-> TRUE]
NoCall == [todo |-> <<>>, pc |-> "next", w |-> 0, seen |-> [status |-> "gone", push |-> FALSE]]

Loops == {"turn", "sync", "pause", "idle", "backoff"}
Running(w) == watch[w].phase \in Loops

RowStates == {"active", "deleting", "gone"}
WatchType == [at : Procs, phase : Loops \cup {"none", "new", "dead", "ended"}, stop : BOOLEAN,
              hears : BOOLEAN, errs : Nat, online : BOOLEAN]
CallType == [todo : Seq({"start", "stop", "want", "unwant", "retire", "drop", "patrol", "renew"}),
             pc : {"next", "look", "open", "emit", "close", "wait", "done"}, w : WatchIds \cup {0},
             seen : [status : RowStates, push : BOOLEAN]]

IdleTypeOK ==
  /\ setup \in Setups
  /\ conn \in [status : RowStates, push : BOOLEAN, wanted : BOOLEAN]
  /\ watch \in [WatchIds -> WatchType]
  /\ entry \in [Procs -> WatchIds \cup {0}]
  /\ call \in [Callers -> CallType]
  /\ mishaps \in Nat /\ lost \subseteq WatchIds

IdleInit ==
  /\ setup \in Setups
  /\ conn = [status |-> "active", push |-> FALSE, wanted |-> TRUE]
  /\ watch = [w \in WatchIds |-> NoWatch]
  /\ entry = [p \in Procs |-> 0]
  /\ call = [c \in Callers |-> IF c = "resume" THEN [NoCall EXCEPT !.todo = <<"start">>] ELSE NoCall]
  /\ mishaps = 0 /\ lost = {}

\* What may fail at any time; an event for a connector that is gone always does (foreign key).
Mishap == mishaps < setup.mishaps /\ mishaps' = mishaps + 1
Smooth == UNCHANGED mishaps
EmitOk == conn.status # "gone" /\ Smooth
EmitFails == (conn.status = "gone" /\ Smooth) \/ (conn.status # "gone" /\ Mishap)

Doing(c, op, pc) == call[c].todo # <<>> /\ Head(call[c].todo) = op /\ call[c].pc = pc
Moves(c, pc) == call' = [call EXCEPT ![c].pc = pc]
Becomes(c, todo) == call' = [call EXCEPT ![c] = [NoCall EXCEPT !.todo = todo]]
\* The operation ends: it returned, or threw what the caller catches.
Leaves(c) ==
  LET rest == Tail(call[c].todo)
  IN  call' = [call EXCEPT ![c] = IF c \in Calls /\ rest = <<>> THEN [NoCall EXCEPT !.pc = "done"]
                                                              ELSE [NoCall EXCEPT !.todo = rest]]

-----------------------------------------------------------------------------
(* startIncomingConnectorIdleWatch. *)

StartReads(c) ==
  /\ Doing(c, "start", "next")
  /\ call' = [call EXCEPT ![c].pc = "look", ![c].seen = [status |-> conn.status, push |-> conn.push]]
  /\ UNCHANGED <<setup, conn, watch, entry, mishaps, lost>>

Unused(w) ==
  /\ watch[w].phase \in {"none", "ended"} /\ \A p \in Procs : entry[p] # w
  /\ \A c \in Callers : call[c].w # w

\* The watch goes into the map; whatever was there before is out of reach.
Enters(c) ==
  /\ \E w \in WatchIds :
       /\ Unused(w) /\ \A v \in WatchIds : Unused(v) => w <= v
       /\ watch' = [watch EXCEPT ![w] = [NoWatch EXCEPT !.at = At(c), !.phase = "new"]]
       /\ entry' = [entry EXCEPT ![At(c)] = w]
       /\ lost' = (lost \ {w}) \cup ({entry[At(c)]} \ {0})
       /\ call' = [call EXCEPT ![c].pc = "emit", ![c].w = w]
  /\ UNCHANGED <<setup, conn>>

\* From the row it read: not active, watched already, or Gmail pushes for it. Over IMAP
\* the connection is opened before the watch is in the map.
StartLooks(c) ==
  /\ Doing(c, "start", "look") /\ Smooth
  /\ IF call[c].seen.status # "active" \/ entry[At(c)] # 0 \/ (setup.gmail /\ call[c].seen.push)
       THEN Leaves(c) /\ UNCHANGED <<setup, conn, watch, entry, lost>>
       ELSE IF setup.gmail THEN Enters(c)
       ELSE Moves(c, "open") /\ UNCHANGED <<setup, conn, watch, entry, lost>>

StartOpens(c) ==
  /\ Doing(c, "start", "open")
  /\ \/ Smooth /\ Enters(c)
     \/ Mishap /\ Leaves(c) /\ UNCHANGED <<setup, conn, watch, entry, lost>>

\* The event is stored; only then can the watch hear a stop and does its loop begin. When
\* the event fails the watch stays in the map without a loop.
StartEmits(c) ==
  /\ Doing(c, "start", "emit")
  /\ \/ EmitOk /\ watch' = [watch EXCEPT ![call[c].w].hears = TRUE,
                                         ![call[c].w].phase = IF setup.gmail THEN "turn" ELSE "sync"]
     \/ EmitFails /\ watch' = [watch EXCEPT ![call[c].w].phase = "dead"]
  /\ Leaves(c)
  /\ UNCHANGED <<setup, conn, entry, lost>>

-----------------------------------------------------------------------------
(* stopIncomingConnectorIdleWatch. *)

StopReads(c) ==
  /\ Doing(c, "stop", "next")
  /\ IF conn.status = "gone" THEN Leaves(c) ELSE Moves(c, "close")
  /\ UNCHANGED <<setup, conn, watch, entry, mishaps, lost>>

\* A watch that does not hear yet is closed by a function that does nothing.
StopCloses(c) ==
  LET w == entry[At(c)]
  IN  /\ Doing(c, "stop", "close")
      /\ IF w = 0 THEN Leaves(c) /\ UNCHANGED watch
         ELSE /\ call' = [call EXCEPT ![c].pc = "wait", ![c].w = w]
              /\ watch' = IF watch[w].hears THEN [watch EXCEPT ![w].stop = TRUE] ELSE watch
      /\ UNCHANGED <<setup, conn, entry, mishaps, lost>>

\* It looks every 25 ms whether the loop has ended, and then clears the key once more.
StopReturns(c) ==
  /\ Doing(c, "stop", "wait") /\ watch[call[c].w].phase = "ended"
  /\ entry' = [entry EXCEPT ![At(c)] = 0]
  /\ lost' = lost \cup ({entry[At(c)]} \ {0})
  /\ Leaves(c)
  /\ UNCHANGED <<setup, conn, watch, mishaps>>

-----------------------------------------------------------------------------
(* The loop. *)

\* Mutant: the loop clears its key whoever has it.
EndsAny(w) ==
  /\ watch' = [watch EXCEPT ![w].phase = "ended"]
  /\ entry' = [entry EXCEPT ![watch[w].at] = 0]
  /\ UNCHANGED call

Ends(w) ==
  /\ watch' = [watch EXCEPT ![w].phase = "ended"]
  /\ entry' = IF entry[watch[w].at] = w THEN [entry EXCEPT ![watch[w].at] = 0] ELSE entry
  /\ UNCHANGED call

\* A process ends and starts again: the API resumes what is configured.
Dies(p) ==
  /\ watch' = [w \in WatchIds |-> IF watch[w].at = p THEN NoWatch ELSE watch[w]]
  /\ entry' = [entry EXCEPT ![p] = 0]
  /\ call' = [c \in Callers |->
       IF At(c) # p THEN call[c]
       ELSE CASE c = "resume" -> [NoCall EXCEPT !.todo = IF conn.wanted /\ conn.status = "active" THEN <<"start">> ELSE <<>>]
              [] c \in Calls /\ call[c] # NoCall -> [NoCall EXCEPT !.pc = "done"]
              [] OTHER -> NoCall]

\* The rejection of the loop, or of the sync its timer began, is nobody's.
Throws(w, next) == Dies(watch[w].at)

\* An error is counted and an event stored, which may fail in its turn.
Counted(next) == [next EXCEPT !.errs = IF @ < MaxErrs THEN @ + 1 ELSE @]
Counts(w, next) == watch' = [watch EXCEPT ![w] = Counted(next)] /\ UNCHANGED <<entry, call>>
Notes(w, next) == (EmitOk /\ Counts(w, next)) \/ (EmitFails /\ Throws(w, Counted(next)))
\* The error is a failure of the database or of the server, and that of the event the same.
Faults(w, next) == Mishap /\ (Counts(w, next) \/ Throws(w, Counted(next)))

Same == UNCHANGED <<setup, conn, lost>>
Turns(w, next) == Smooth /\ watch' = [watch EXCEPT ![w] = next] /\ UNCHANGED <<entry, call>>

\* Mutant: the loop looks at the stop flag only when it is about to give up.
HeedsLate(w) == watch[w].stop /\ watch[w].errs >= MaxErrs
Heeds(w) == watch[w].stop

\* The head of the loop; with too many errors in a row it stores an event and ends.
Turn(w) ==
  /\ watch[w].phase = "turn" /\ Same
  /\ CASE Heeds(w) -> Smooth /\ Ends(w)
       [] ~Heeds(w) /\ watch[w].errs >= MaxErrs ->
            \/ EmitOk /\ Ends(w)
            \/ EmitFails /\ IF setup.gmail THEN Dies(watch[w].at) ELSE Ends(w)
       [] OTHER -> Turns(w, [watch[w] EXCEPT !.phase = IF setup.gmail THEN "sync" ELSE "idle"])

\* A sync ends; it throws when the connector is not active.
Synced(w) == [watch[w] EXCEPT !.phase = IF setup.gmail /\ ~watch[w].stop THEN "pause" ELSE "turn"]

SyncEnds(w) ==
  /\ watch[w].phase = "sync" /\ Same
  /\ IF conn.status = "active" THEN Turns(w, [Synced(w) EXCEPT !.errs = 0]) ELSE Notes(w, Synced(w))

SyncFails(w) == watch[w].phase = "sync" /\ conn.status = "active" /\ Same /\ Faults(w, Synced(w))

PauseEnds(w) == watch[w].phase = "pause" /\ Same /\ Turns(w, [watch[w] EXCEPT !.phase = "turn"])

\* IDLE returns, with or without a change.
IdleReturns(w) ==
  /\ watch[w].phase = "idle" /\ watch[w].online /\ ~watch[w].stop /\ Same
  /\ \E phase \in {"sync", "turn"} : Turns(w, [watch[w] EXCEPT !.phase = phase, !.errs = 0])

\* A stop logs the client out, and IDLE with it.
IdleStops(w) == watch[w].phase = "idle" /\ watch[w].stop /\ Same /\ Smooth /\ Ends(w)

\* The connection is lost, or was never there since the last attempt.
IdleBreaks(w) ==
  LET next == [watch[w] EXCEPT !.phase = "backoff", !.online = FALSE]
  IN  /\ watch[w].phase = "idle" /\ ~watch[w].stop /\ Same
      /\ IF watch[w].online THEN Faults(w, next) ELSE Notes(w, next)

Reopens(w) ==
  /\ watch[w].phase = "backoff" /\ Same
  /\ \/ Turns(w, [watch[w] EXCEPT !.phase = "turn", !.errs = 0, !.online = TRUE])
     \/ Faults(w, [watch[w] EXCEPT !.phase = "turn"])

\* The timer's sync, beside the loop. It matters when it throws.
TimerSyncs(w) ==
  /\ ~setup.gmail /\ Running(w) /\ ~watch[w].stop /\ conn.status # "active" /\ Same
  /\ Notes(w, watch[w])

LoopStep(w) ==
  Turn(w) \/ SyncEnds(w) \/ PauseEnds(w) \/ IdleStops(w) \/ Reopens(w) \/ (~watch[w].online /\ IdleBreaks(w))

-----------------------------------------------------------------------------
(* Who calls. *)

Programs == [watch |-> <<"want", "start">>, unwatch |-> <<"stop", "unwant">>, delete |-> <<"retire", "stop", "drop">>]

\* A request. Watching is refused when the connector is not active.
Request(c) ==
  /\ c \in Calls /\ call[c] = NoCall
  /\ \E ask \in setup.asks :
       /\ conn.status = "active" \/ (conn.status = "deleting" /\ ask # "watch")
       /\ Becomes(c, Programs[ask])
  /\ UNCHANGED <<setup, conn, watch, entry, mishaps, lost>>

\* The statements of the routes on the connector's row.
RowWrite(c) ==
  /\ \/ Doing(c, "want", "next") /\ conn' = [conn EXCEPT !.wanted = TRUE]
     \/ Doing(c, "unwant", "next") /\ conn' = [conn EXCEPT !.wanted = FALSE]
     \/ Doing(c, "retire", "next") /\ conn' = [conn EXCEPT !.status = IF @ = "gone" THEN @ ELSE "deleting"]
     \/ Doing(c, "drop", "next") /\ conn' = [conn EXCEPT !.status = "gone"]
  /\ Leaves(c)
  /\ UNCHANGED <<setup, watch, entry, mishaps, lost>>

\* One tick at a time (running): the watchdog, and then the renewal of the push watch.
TickBegins ==
  /\ setup.gmail /\ call["tick"] = NoCall
  /\ Becomes("tick", <<"patrol", "renew">>)
  /\ UNCHANGED <<setup, conn, watch, entry, mishaps, lost>>

\* No activity for long: a sync that takes its time, or no loop at all.
Stale(w) == w # 0 /\ ~watch[w].stop /\ watch[w].phase \in {"sync", "dead"}

Patrol ==
  /\ Doing("tick", "patrol", "next")
  /\ \/ Stale(entry["worker"]) /\ Becomes("tick", <<"stop", "start", "renew">>)
     \/ ~(Stale(entry["worker"]) /\ watch[entry["worker"]].phase = "dead") /\ Becomes("tick", <<"renew">>)
  /\ UNCHANGED <<setup, conn, watch, entry, mishaps, lost>>

\* Due or not; Gmail is asked, and a watch of this process started instead when it fails.
Renew ==
  /\ Doing("tick", "renew", "next")
  /\ \/ Smooth /\ Becomes("tick", <<>>) /\ UNCHANGED conn
     \/ /\ Smooth /\ conn.status = "active" /\ Becomes("tick", <<"stop">>)
        /\ conn' = [conn EXCEPT !.push = TRUE]
     \/ /\ Mishap /\ conn.status = "active" /\ Becomes("tick", <<"start">>)
        /\ conn' = [conn EXCEPT !.push = FALSE]
  /\ UNCHANGED <<setup, watch, entry, lost>>

TickStep == TickBegins \/ Patrol \/ Renew

Restart(p) == Mishap /\ Dies(p) /\ Same

CallStep(c) ==
  \/ StartReads(c) \/ StartLooks(c) \/ StartOpens(c) \/ StartEmits(c)
  \/ StopReads(c) \/ StopCloses(c) \/ StopReturns(c) \/ RowWrite(c)

IdleNext ==
  \/ \E c \in Calls : Request(c)
  \/ \E c \in Callers : CallStep(c)
  \/ TickStep
  \/ \E w \in WatchIds :
       LoopStep(w) \/ SyncFails(w) \/ IdleReturns(w) \/ IdleBreaks(w) \/ TimerSyncs(w)
  \/ \E p \in Procs : Restart(p)

IdleSpec == IdleInit /\ [][IdleNext]_idleVars

-----------------------------------------------------------------------------
\* A loop that runs can be stopped: it is in its process's map, unless an overlapping
\* start replaced it there or a stop that waited for the watch before took it out.
LoopsReachable == \A w \in WatchIds : Running(w) => entry[watch[w].at] = w \/ w \in lost

\* A stop whose watch heard it returns, whatever the loop was doing, so that neither a
\* request nor the maintenance tick hangs on it; and nothing goes on watching a connector
\* that was deleted, in whichever process, even the loops no stop can reach.
StopsReturn ==
  /\ \A c \in Callers :
       (call[c].pc = "wait" /\ \E w \in WatchIds : call[c].w = w /\ watch[w].stop) ~> call[c].pc # "wait"
  /\ conn.status = "gone" ~> [](\A w \in WatchIds : ~Running(w))
=============================================================================
