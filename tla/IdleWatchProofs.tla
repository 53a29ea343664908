--------------------------- MODULE IdleWatchProofs ---------------------------
(***************************************************************************)
(* Proofs about IdleWatch: the types, and that a loop that runs is in the  *)
(* map of its process, unless it was replaced or taken out there.          *)
(***************************************************************************)
EXTENDS IdleWatch, TLAPS

\* A watch that is new is in the map before its loop begins, and the start that will begin
\* it is the only one that has it.
ReachInv ==
  /\ \A w \in WatchIds : watch[w].phase \in Loops \cup {"new"} => entry[watch[w].at] = w \/ w \in lost
  /\ \A c \in Callers : call[c].pc = "emit" =>
       call[c].w \in WatchIds /\ watch[call[c].w].phase = "new" /\ watch[call[c].w].at = At(c)
  /\ \A c, d \in Callers : call[c].pc = "emit" /\ call[d].pc = "emit" /\ call[c].w = call[d].w => c = d
Inv == IdleTypeOK /\ ReachInv

Ops == Seq({"start", "stop", "want", "unwant", "retire", "drop", "patrol", "renew"})

Steady == setup' \in Setups /\ conn' \in [status : RowStates, push : BOOLEAN, wanted : BOOLEAN] /\ mishaps' \in Nat
-----------------------------------------------------------------------------
\* A caller goes on, with the watches as they are.
LEMMA CallerMoves ==
  ASSUME Inv, Steady, UNCHANGED <<watch, entry, lost>>, NEW c \in Callers, NEW n \in CallType, n.pc # "emit",
         call' = [call EXCEPT ![c] = n]
  PROVE  Inv'
<1>1. call' \in [Callers -> CallType] /\ \A d \in Callers : call'[d] = IF d = c THEN n ELSE call[d]
  BY DEF Inv, IdleTypeOK
<1>2. IdleTypeOK'
  BY <1>1 DEF Inv, IdleTypeOK, Steady
<1>3. ReachInv'
  BY <1>1 DEF Inv, ReachInv
<1>4. QED
  BY <1>2, <1>3 DEF Inv

\* What an operation leaves behind is a caller like any other.
LEMMA LeavesWell ==
  ASSUME IdleTypeOK, NEW c \in Callers, call[c].todo # <<>>, Leaves(c)
  PROVE  \E n \in CallType : n.pc # "emit" /\ call' = [call EXCEPT ![c] = n]
<1> DEFINE rest == Tail(call[c].todo)
           n == IF c \in Calls /\ rest = <<>> THEN [NoCall EXCEPT !.pc = "done"] ELSE [NoCall EXCEPT !.todo = rest]
<1>1. rest \in Ops
  BY DEF IdleTypeOK, CallType, Ops
<1>2. n \in CallType /\ n.pc # "emit"
  BY <1>1 DEF CallType, NoCall, RowStates, Ops
<1>3. call' = [call EXCEPT ![c] = n]
  BY DEF Leaves
<1> HIDE DEF n
<1>4. QED
  BY <1>2, <1>3

LEMMA BecomesWell ==
  ASSUME NEW c \in Callers,
         NEW todo \in Ops,
         Becomes(c, todo)
  PROVE  \E n \in CallType : n.pc # "emit" /\ call' = [call EXCEPT ![c] = n]
<1>1. [NoCall EXCEPT !.todo = todo] \in CallType /\ [NoCall EXCEPT !.todo = todo].pc # "emit"
  BY DEF CallType, NoCall, RowStates, Ops
<1>2. QED
  BY <1>1 DEF Becomes

LEMMA Goes ==
  ASSUME IdleTypeOK, NEW c \in Callers, NEW pc \in {"look", "open", "close"}, Moves(c, pc)
  PROVE  \E n \in CallType : n.pc # "emit" /\ call' = [call EXCEPT ![c] = n]
<1>1. [call[c] EXCEPT !.pc = pc] \in CallType /\ [call[c] EXCEPT !.pc = pc].pc # "emit"
  <2>1. call[c] \in CallType
    BY DEF IdleTypeOK
  <2>2. QED
    BY <2>1 DEF CallType
<1>2. QED
  BY <1>1 DEF Moves

\* A loop goes on.
LEMMA LoopMoves ==
  ASSUME Inv, Steady, UNCHANGED <<entry, call, lost>>, NEW w \in WatchIds, NEW n \in WatchType,
         watch' = [watch EXCEPT ![w] = n], n.at = watch[w].at,
         n.phase = watch[w].phase \/ (Running(w) /\ n.phase \in Loops)
  PROVE  Inv'
<1>1. watch' \in [WatchIds -> WatchType] /\ \A v \in WatchIds : watch'[v] = IF v = w THEN n ELSE watch[v]
  BY DEF Inv, IdleTypeOK
<1>2. IdleTypeOK'
  BY <1>1 DEF Inv, IdleTypeOK, Steady
<1>3. \A v \in WatchIds : watch'[v].at = watch[v].at /\ (watch'[v].phase \in Loops \cup {"new"} => watch[v].phase \in Loops \cup {"new"})
  BY <1>1 DEF Running
<1>4. \A v \in WatchIds : watch[v].phase = "new" => watch'[v].phase = "new"
  BY <1>1 DEF Running, Loops
<1>5. ReachInv'
  <2>1. ASSUME NEW v \in WatchIds, watch'[v].phase \in Loops \cup {"new"} PROVE entry'[watch'[v].at] = v \/ v \in lost'
    BY <1>3, <2>1 DEF Inv, ReachInv
  <2>2. ASSUME NEW c \in Callers, call'[c].pc = "emit"
        PROVE  call'[c].w \in WatchIds /\ watch'[call'[c].w].phase = "new" /\ watch'[call'[c].w].at = At(c)
    BY <1>3, <1>4, <2>2 DEF Inv, ReachInv
  <2>3. QED
    BY <2>1, <2>2 DEF Inv, ReachInv
<1>6. QED
  BY <1>2, <1>5 DEF Inv

\* A loop ends, and clears its own key.
LEMMA LoopEnds ==
  ASSUME Inv, Steady, UNCHANGED lost, NEW w \in WatchIds, Running(w), Ends(w)
  PROVE  Inv'
<1>1. \A v \in WatchIds : watch'[v] = IF v = w THEN [watch[w] EXCEPT !.phase = "ended"] ELSE watch[v]
  BY DEF Ends, Inv, IdleTypeOK
<1>2. [watch[w] EXCEPT !.phase = "ended"] \in WatchType /\ watch[w].at \in Procs
  BY DEF Inv, IdleTypeOK, WatchType
<1>3. watch' \in [WatchIds -> WatchType] /\ entry' \in [Procs -> WatchIds \cup {0}] /\ call' = call
  BY <1>2 DEF Ends, Inv, IdleTypeOK
<1>4. IdleTypeOK'
  BY <1>3 DEF Inv, IdleTypeOK, Steady
<1>5. \A p \in Procs, v \in WatchIds : v # w /\ entry[p] = v => entry'[p] = v
  BY <1>2 DEF Ends, Inv, IdleTypeOK
<1>6. ASSUME NEW v \in WatchIds, watch'[v].phase \in Loops \cup {"new"} PROVE entry'[watch'[v].at] = v \/ v \in lost'
  <2>1. v # w
    BY <1>1, <1>2, <1>6 DEF Loops, WatchType
  <2>2. watch'[v] = watch[v] /\ watch[v].at \in Procs
    BY <1>1, <2>1 DEF Inv, IdleTypeOK, WatchType
  <2>3. QED
    BY <1>5, <1>6, <2>1, <2>2 DEF Inv, ReachInv
<1>7. ASSUME NEW c \in Callers, call'[c].pc = "emit"
      PROVE  call'[c].w \in WatchIds /\ watch'[call'[c].w].phase = "new" /\ watch'[call'[c].w].at = At(c)
  BY <1>1, <1>3, <1>7 DEF Inv, ReachInv, Running, Loops
<1>8. QED
  BY <1>3, <1>4, <1>6, <1>7 DEF Inv, ReachInv

\* A process dies with its watches, its map and its callers.
LEMMA Death ==
  ASSUME Inv, Steady, UNCHANGED lost, NEW p \in Procs, Dies(p)
  PROVE  Inv'
<1>1. NoCall \in CallType /\ NoWatch \in WatchType
  BY DEF NoCall, NoWatch, CallType, WatchType, RowStates, Procs
<1>2. \A v \in WatchIds : watch'[v] = IF watch[v].at = p THEN NoWatch ELSE watch[v]
  BY DEF Dies
<1>3. watch' \in [WatchIds -> WatchType] /\ entry' \in [Procs -> WatchIds \cup {0}]
  BY <1>1 DEF Dies, Inv, IdleTypeOK
<1>4. ASSUME NEW c \in Callers
      PROVE  call'[c] \in CallType /\ (At(c) # p => call'[c] = call[c]) /\ (At(c) = p => call'[c].pc # "emit")
  <2>1. CASE At(c) # p
    BY <2>1 DEF Dies, Inv, IdleTypeOK
  <2>2. CASE At(c) = p
    <3>1. <<"start">> \in Ops /\ <<>> \in Ops
      BY DEF Ops
    <3>2. \A t \in Ops : [NoCall EXCEPT !.todo = t] \in CallType /\ [NoCall EXCEPT !.todo = t].pc # "emit"
      BY DEF NoCall, CallType, RowStates, Ops
    <3>3. [NoCall EXCEPT !.pc = "done"] \in CallType /\ [NoCall EXCEPT !.pc = "done"].pc # "emit"
      BY <3>1 DEF NoCall, CallType, RowStates, Ops
    <3>4. \/ call'[c] = [NoCall EXCEPT !.todo = <<"start">>] \/ call'[c] = [NoCall EXCEPT !.todo = <<>>]
          \/ call'[c] = [NoCall EXCEPT !.pc = "done"] \/ call'[c] = NoCall
      BY <2>2, IdleAssumption DEF Dies
    <3>5. QED
      BY <1>1, <2>2, <3>1, <3>2, <3>3, <3>4 DEF NoCall
  <2>3. QED
    BY <2>1, <2>2
<1>5. call' \in [Callers -> CallType]
  BY <1>4 DEF Dies
<1>6. IdleTypeOK'
  BY <1>3, <1>5 DEF Inv, IdleTypeOK, Steady
<1>7. ASSUME NEW v \in WatchIds, watch'[v].phase \in Loops \cup {"new"} PROVE entry'[watch'[v].at] = v \/ v \in lost'
  <2>1. watch[v].at # p /\ watch'[v] = watch[v] /\ watch[v].at \in Procs
    BY <1>2, <1>7 DEF NoWatch, Loops, Inv, IdleTypeOK, WatchType
  <2>2. entry'[watch[v].at] = entry[watch[v].at]
    BY <2>1 DEF Dies, Inv, IdleTypeOK
  <2>3. QED
    BY <1>7, <2>1, <2>2 DEF Inv, ReachInv
<1>8. ASSUME NEW c \in Callers, call'[c].pc = "emit"
      PROVE  call'[c] = call[c] /\ call[c].w \in WatchIds /\ watch'[call[c].w].phase = "new" /\ watch'[call[c].w].at = At(c)
  <2>1. At(c) # p /\ call'[c] = call[c]
    BY <1>4, <1>8
  <2>2. QED
    BY <1>2, <1>8, <2>1 DEF Inv, ReachInv
<1>9. ReachInv'
  BY <1>7, <1>8 DEF Inv, ReachInv
<1>10. QED
  BY <1>6, <1>9 DEF Inv

\* A watch goes into the map; the one it replaces is lost.
LEMMA Entered ==
  ASSUME Inv, Steady, NEW c \in Callers, Enters(c)
  PROVE  Inv'
<1>1. PICK w \in WatchIds :
        /\ Unused(w)
        /\ watch' = [watch EXCEPT ![w] = [NoWatch EXCEPT !.at = At(c), !.phase = "new"]]
        /\ entry' = [entry EXCEPT ![At(c)] = w]
        /\ lost' = (lost \ {w}) \cup ({entry[At(c)]} \ {0})
        /\ call' = [call EXCEPT ![c].pc = "emit", ![c].w = w]
  BY DEF Enters
<1>2. At(c) \in Procs /\ entry[At(c)] \in WatchIds \cup {0}
  BY DEF At, Procs, Inv, IdleTypeOK
<1> DEFINE new == [NoWatch EXCEPT !.at = At(c), !.phase = "new"]
           n == [call[c] EXCEPT !.pc = "emit", !.w = w]
<1>3. new \in WatchType /\ new.at = At(c) /\ new.phase = "new"
  BY <1>2 DEF WatchType, NoWatch
<1>4. n \in CallType /\ n.pc = "emit" /\ n.w = w
  BY DEF Inv, IdleTypeOK, CallType
<1>5. call' = [call EXCEPT ![c] = n]
  BY <1>1 DEF Inv, IdleTypeOK, CallType
<1> HIDE DEF new, n
<1>6. watch' = [watch EXCEPT ![w] = new]
  BY <1>1 DEF new
<1>7. /\ watch' \in [WatchIds -> WatchType] /\ \A v \in WatchIds : watch'[v] = IF v = w THEN new ELSE watch[v]
      /\ call' \in [Callers -> CallType] /\ \A d \in Callers : call'[d] = IF d = c THEN n ELSE call[d]
      /\ entry' \in [Procs -> WatchIds \cup {0}] /\ entry'[At(c)] = w /\ \A p \in Procs \ {At(c)} : entry'[p] = entry[p]
  <2>1. watch' \in [WatchIds -> WatchType] /\ \A v \in WatchIds : watch'[v] = IF v = w THEN new ELSE watch[v]
    BY <1>3, <1>6 DEF Inv, IdleTypeOK
  <2>2. call' \in [Callers -> CallType] /\ \A d \in Callers : call'[d] = IF d = c THEN n ELSE call[d]
    BY <1>4, <1>5 DEF Inv, IdleTypeOK
  <2>3. entry' \in [Procs -> WatchIds \cup {0}] /\ entry'[At(c)] = w /\ \A p \in Procs \ {At(c)} : entry'[p] = entry[p]
    BY <1>1, <1>2 DEF Inv, IdleTypeOK
  <2>4. QED
    BY <2>1, <2>2, <2>3
<1>8. lost' \subseteq WatchIds
  BY <1>1, <1>2 DEF Inv, IdleTypeOK
<1>9. IdleTypeOK'
  BY <1>7, <1>8 DEF Inv, IdleTypeOK, Steady
<1>10. ASSUME NEW v \in WatchIds, watch'[v].phase \in Loops \cup {"new"} PROVE entry'[watch'[v].at] = v \/ v \in lost'
  <2>1. CASE v = w
    BY <1>3, <1>7, <2>1
  <2>2. CASE v # w
    <3>1. watch'[v] = watch[v] /\ watch[v].at \in Procs /\ (entry[watch[v].at] = v \/ v \in lost)
      BY <1>7, <1>10, <2>2 DEF Inv, IdleTypeOK, ReachInv, WatchType
    <3>2. v # 0
      BY IdleAssumption
    <3>3. QED
      BY <1>1, <1>7, <2>2, <3>1, <3>2
  <2>3. QED
    BY <2>1, <2>2
<1>11. \A d \in Callers : call[d].w # w
  BY <1>1 DEF Unused
<1>12. ASSUME NEW d \in Callers, call'[d].pc = "emit"
       PROVE  call'[d].w \in WatchIds /\ watch'[call'[d].w].phase = "new" /\ watch'[call'[d].w].at = At(d)
  <2>1. CASE d = c
    BY <1>3, <1>4, <1>7, <2>1
  <2>2. CASE d # c
    BY <1>7, <1>11, <1>12, <2>2 DEF Inv, ReachInv
  <2>3. QED
    BY <2>1, <2>2
<1>13. ASSUME NEW d \in Callers, NEW e \in Callers, call'[d].pc = "emit", call'[e].pc = "emit", call'[d].w = call'[e].w
       PROVE  d = e
  BY <1>4, <1>7, <1>11, <1>13 DEF Inv, ReachInv
<1>14. QED
  BY <1>9, <1>10, <1>12, <1>13 DEF Inv, ReachInv

\* The event of a start: its loop begins, or never will.
LEMMA Emitted ==
  ASSUME Inv, Steady, NEW c \in Callers, StartEmits(c)
  PROVE  Inv'
<1> DEFINE w == call[c].w
<1>1. w \in WatchIds /\ watch[w].phase = "new" /\ watch[w].at = At(c) /\ call[c].pc = "emit"
  BY DEF StartEmits, Doing, Inv, ReachInv
<1>2. PICK n \in CallType : n.pc # "emit" /\ call' = [call EXCEPT ![c] = n]
  BY LeavesWell DEF StartEmits, Doing, Inv
<1>3. entry' = entry /\ lost' = lost
  BY DEF StartEmits
<1>4. PICK x \in WatchType : x.at = watch[w].at /\ watch' = [watch EXCEPT ![w] = x]
  <2>1. watch[w] \in WatchType /\ watch \in [WatchIds -> WatchType]
    BY <1>1 DEF Inv, IdleTypeOK
  <2>2. CASE EmitOk
    <3> DEFINE x == [watch[w] EXCEPT !.hears = TRUE, !.phase = IF setup.gmail THEN "turn" ELSE "sync"]
    <3>1. x \in WatchType /\ x.at = watch[w].at
      BY <2>1 DEF WatchType, Loops
    <3>2. CASE watch' = [watch EXCEPT ![w].hears = TRUE, ![w].phase = IF setup.gmail THEN "turn" ELSE "sync"]
      <4>1. watch' = [watch EXCEPT ![w] = x]
        BY <1>1, <2>1, <3>2 DEF WatchType
      <4>2. QED
        BY <3>1, <4>1
    <3>3. CASE watch' = [watch EXCEPT ![w].phase = "dead"]
      <4>1. [watch[w] EXCEPT !.phase = "dead"] \in WatchType /\ [watch[w] EXCEPT !.phase = "dead"].at = watch[w].at
        BY <2>1 DEF WatchType
      <4>2. QED
        BY <3>3, <4>1
    <3>4. QED
      BY <3>2, <3>3 DEF StartEmits
  <2>3. CASE EmitFails
    <3>1. [watch[w] EXCEPT !.phase = "dead"] \in WatchType /\ [watch[w] EXCEPT !.phase = "dead"].at = watch[w].at
      BY <2>1 DEF WatchType
    <3>2. CASE watch' = [watch EXCEPT ![w].phase = "dead"]
      BY <3>1, <3>2
    <3>3. CASE watch' # [watch EXCEPT ![w].phase = "dead"]
      BY <2>3, <3>3 DEF StartEmits, EmitOk, EmitFails, Mishap, Smooth, Inv, IdleTypeOK
    <3>4. QED
      BY <3>2, <3>3
  <2>4. QED
    BY <2>2, <2>3 DEF StartEmits
<1> HIDE DEF w
<1>5. /\ watch' \in [WatchIds -> WatchType] /\ \A v \in WatchIds : watch'[v] = IF v = w THEN x ELSE watch[v]
      /\ call' \in [Callers -> CallType] /\ \A d \in Callers : call'[d] = IF d = c THEN n ELSE call[d]
  BY <1>1, <1>2, <1>4 DEF Inv, IdleTypeOK
<1>6. IdleTypeOK'
  BY <1>3, <1>5 DEF Inv, IdleTypeOK, Steady
<1>7. ASSUME NEW v \in WatchIds, watch'[v].phase \in Loops \cup {"new"} PROVE entry'[watch'[v].at] = v \/ v \in lost'
  BY <1>1, <1>3, <1>4, <1>5, <1>7 DEF Inv, ReachInv
<1>8. ASSUME NEW d \in Callers, call'[d].pc = "emit"
      PROVE  d # c /\ call'[d] = call[d] /\ call[d].w \in WatchIds /\ watch'[call[d].w].phase = "new" /\ watch'[call[d].w].at = At(d)
  <2>1. d # c /\ call'[d] = call[d]
    BY <1>2, <1>5, <1>8
  <2>2. call[d].w # w
    BY <1>1, <1>8, <2>1 DEF Inv, ReachInv, w
  <2>3. QED
    BY <1>5, <1>8, <2>1, <2>2 DEF Inv, ReachInv
<1>9. ReachInv'
  BY <1>7, <1>8 DEF Inv, ReachInv
<1>10. QED
  BY <1>6, <1>9 DEF Inv

\* A stop asks its watch to end, and when it has ended clears the key once more.
LEMMA StopAsked ==
  ASSUME Inv, Steady, NEW c \in Callers, StopCloses(c)
  PROVE  Inv'
<1> DEFINE w == entry[At(c)]
<1>1. call[c].todo # <<>> /\ entry' = entry /\ lost' = lost
  BY DEF StopCloses, Doing
<1>2. CASE w = 0
  <2>1. Leaves(c) /\ watch' = watch
    BY <1>2 DEF StopCloses
  <2>2. PICK n \in CallType : n.pc # "emit" /\ call' = [call EXCEPT ![c] = n]
    BY <1>1, <2>1, LeavesWell DEF Inv
  <2>3. QED
    BY <1>1, <2>1, <2>2, CallerMoves
<1>3. CASE w # 0
  <2>1. w \in WatchIds /\ watch[w] \in WatchType /\ call[c] \in CallType
    BY <1>3 DEF At, Procs, Inv, IdleTypeOK
  <2>2. /\ call' = [call EXCEPT ![c].pc = "wait", ![c].w = w]
        /\ watch' = IF watch[w].hears THEN [watch EXCEPT ![w].stop = TRUE] ELSE watch
    BY <1>3 DEF StopCloses
  <2> DEFINE n == [call[c] EXCEPT !.pc = "wait", !.w = w]
             x == [watch[w] EXCEPT !.stop = TRUE]
  <2>3. n \in CallType /\ n.pc # "emit" /\ call' = [call EXCEPT ![c] = n]
    BY <2>1, <2>2 DEF CallType, Inv, IdleTypeOK
  <2>4. x \in WatchType /\ x.at = watch[w].at /\ x.phase = watch[w].phase
    BY <2>1 DEF WatchType
  <2>5. watch' = [watch EXCEPT ![w] = x] \/ watch' = watch
    BY <2>2
  <2> HIDE DEF w, n, x
  <2>6. /\ watch' \in [WatchIds -> WatchType]
        /\ \A v \in WatchIds : watch'[v].at = watch[v].at /\ watch'[v].phase = watch[v].phase
    BY <2>1, <2>4, <2>5 DEF Inv, IdleTypeOK
  <2>7. call' \in [Callers -> CallType] /\ \A d \in Callers : call'[d] = IF d = c THEN n ELSE call[d]
    BY <2>3 DEF Inv, IdleTypeOK
  <2>8. IdleTypeOK'
    BY <1>1, <2>6, <2>7 DEF Inv, IdleTypeOK, Steady
  <2>9. ReachInv'
    BY <1>1, <2>3, <2>6, <2>7 DEF Inv, ReachInv
  <2>10. QED
    BY <2>8, <2>9 DEF Inv
<1>4. QED
  BY <1>2, <1>3

LEMMA StopDone ==
  ASSUME Inv, Steady, NEW c \in Callers, StopReturns(c)
  PROVE  Inv'
<1>1. PICK n \in CallType : n.pc # "emit" /\ call' = [call EXCEPT ![c] = n]
  BY LeavesWell DEF StopReturns, Doing, Inv
<1>2. watch' = watch /\ entry' = [entry EXCEPT ![At(c)] = 0] /\ lost' = lost \cup ({entry[At(c)]} \ {0})
  BY DEF StopReturns
<1>3. At(c) \in Procs /\ entry[At(c)] \in WatchIds \cup {0}
  BY DEF At, Procs, Inv, IdleTypeOK
<1>4. call' \in [Callers -> CallType] /\ \A d \in Callers : call'[d] = IF d = c THEN n ELSE call[d]
  BY <1>1 DEF Inv, IdleTypeOK
<1>5. /\ entry' \in [Procs -> WatchIds \cup {0}] /\ lost' \subseteq WatchIds
      /\ \A p \in Procs : entry'[p] = entry[p] \/ p = At(c)
  BY <1>2, <1>3 DEF Inv, IdleTypeOK
<1>6. IdleTypeOK'
  BY <1>2, <1>4, <1>5 DEF Inv, IdleTypeOK, Steady
<1>7. ASSUME NEW v \in WatchIds, watch'[v].phase \in Loops \cup {"new"} PROVE entry'[watch'[v].at] = v \/ v \in lost'
  <2>1. watch[v].at \in Procs /\ (entry[watch[v].at] = v \/ v \in lost) /\ v # 0
    BY <1>2, <1>7, IdleAssumption DEF Inv, IdleTypeOK, ReachInv, WatchType
  <2>2. QED
    BY <1>2, <1>5, <2>1
<1>8. ReachInv'
  BY <1>1, <1>2, <1>4, <1>7 DEF Inv, ReachInv
<1>9. QED
  BY <1>6, <1>8 DEF Inv
-----------------------------------------------------------------------------
\* Whatever fails or goes well, the settings and the row keep their types.
LEMMA SteadyThen ==
  ASSUME Inv, UNCHANGED <<setup, conn>>, Smooth \/ Mishap
  PROVE  Steady
BY DEF Inv, IdleTypeOK, Steady, Smooth, Mishap

LEMMA EmitSteady ==
  ASSUME Inv, UNCHANGED <<setup, conn>>, EmitOk \/ EmitFails
  PROVE  Steady
BY SteadyThen DEF EmitOk, EmitFails

\* The loop takes a turn, counts an error, or takes its process down.
LEMMA LoopOn ==
  ASSUME Inv, Same, NEW w \in WatchIds, Running(w), NEW n \in WatchType, n.at = watch[w].at, n.phase \in Loops,
         Turns(w, n) \/ Notes(w, n) \/ Faults(w, n)
  PROVE  Inv'
<1>1. Counted(n) \in WatchType /\ Counted(n).at = n.at /\ Counted(n).phase = n.phase
  BY IdleAssumption DEF Counted, WatchType
<1>2. watch[w].at \in Procs
  BY DEF Inv, IdleTypeOK, WatchType
<1>3. UNCHANGED <<setup, conn>> /\ lost' = lost
  BY DEF Same
<1>4. CASE Turns(w, n)
  <2>1. Steady
    BY <1>3, <1>4, SteadyThen DEF Turns
  <2>2. QED
    BY <1>3, <1>4, <2>1, LoopMoves DEF Turns
<1>5. ASSUME Steady, Counts(w, n) PROVE Inv'
  <2>1. watch' = [watch EXCEPT ![w] = Counted(n)] /\ UNCHANGED <<entry, call, lost>>
    BY <1>3, <1>5 DEF Counts
  <2>2. QED
    BY <1>1, <1>5, <2>1, LoopMoves
<1>6. ASSUME Steady, Throws(w, Counted(n)) PROVE Inv'
  BY <1>2, <1>3, <1>6, Death DEF Throws
<1>7. CASE Notes(w, n)
  <2>1. Steady
    BY <1>3, <1>7, EmitSteady DEF Notes
  <2>2. QED
    BY <1>5, <1>6, <1>7, <2>1 DEF Notes
<1>8. CASE Faults(w, n)
  <2>1. Steady
    BY <1>3, <1>8, SteadyThen DEF Faults
  <2>2. QED
    BY <1>5, <1>6, <1>8, <2>1 DEF Faults
<1>9. QED
  BY <1>4, <1>7, <1>8

LEMMA LoopKeeps ==
  ASSUME Inv, NEW w \in WatchIds,
         LoopStep(w) \/ SyncFails(w) \/ IdleReturns(w) \/ IdleBreaks(w) \/ TimerSyncs(w)
  PROVE  Inv'
<1>1. watch[w] \in WatchType /\ watch[w].at \in Procs /\ setup.gmail \in BOOLEAN
  BY IdleAssumption DEF Inv, IdleTypeOK, WatchType
<1>2. \A ph \in Loops : [watch[w] EXCEPT !.phase = ph] \in WatchType /\ [watch[w] EXCEPT !.phase = ph].at = watch[w].at
  BY <1>1 DEF WatchType
<1>3. CASE Turn(w)
  <2>1. Running(w) /\ Same /\ UNCHANGED <<setup, conn>> /\ lost' = lost
    BY <1>3 DEF Turn, Running, Loops, Same
  <2>2. CASE Ends(w) /\ (Smooth \/ EmitOk \/ EmitFails)
    BY <2>1, <2>2, SteadyThen, EmitSteady, LoopEnds
  <2>3. CASE Dies(watch[w].at) /\ EmitFails
    BY <1>1, <2>1, <2>3, EmitSteady, Death
  <2>4. CASE Turns(w, [watch[w] EXCEPT !.phase = IF setup.gmail THEN "sync" ELSE "idle"])
    <3>1. (IF setup.gmail THEN "sync" ELSE "idle") \in Loops
      BY DEF Loops
    <3>2. QED
      BY <1>1, <1>2, <2>1, <2>4, <3>1, LoopOn DEF WatchType
  <2>5. QED
    BY <1>3, <2>2, <2>3, <2>4 DEF Turn
<1>4. CASE SyncEnds(w) \/ SyncFails(w)
  <2>1. Running(w) /\ Same
    BY <1>4 DEF SyncEnds, SyncFails, Running, Loops
  <2>2. Synced(w) \in WatchType /\ Synced(w).at = watch[w].at /\ Synced(w).phase \in Loops
    BY <1>1 DEF Synced, WatchType, Loops
  <2>3. LET n == [Synced(w) EXCEPT !.errs = 0] IN n \in WatchType /\ n.at = watch[w].at /\ n.phase \in Loops
    BY <2>2 DEF WatchType
  <2>4. CASE Turns(w, [Synced(w) EXCEPT !.errs = 0])
    BY <2>1, <2>3, <2>4, LoopOn
  <2>5. CASE Notes(w, Synced(w)) \/ Faults(w, Synced(w))
    BY <2>1, <2>2, <2>5, LoopOn
  <2>6. QED
    BY <1>4, <2>4, <2>5 DEF SyncEnds, SyncFails
<1>5. CASE PauseEnds(w)
  <2>1. Running(w) /\ Same /\ Turns(w, [watch[w] EXCEPT !.phase = "turn"])
    BY <1>5 DEF PauseEnds, Running, Loops
  <2>2. "turn" \in Loops
    BY DEF Loops
  <2>3. LET n == [watch[w] EXCEPT !.phase = "turn"] IN n \in WatchType /\ n.at = watch[w].at /\ n.phase \in Loops
    BY <1>1, <1>2, <2>2 DEF WatchType
  <2>4. QED
    BY <2>1, <2>3, LoopOn
<1>6. CASE IdleReturns(w)
  <2>1. Running(w) /\ Same
    BY <1>6 DEF IdleReturns, Running, Loops
  <2>2. PICK ph \in {"sync", "turn"} : Turns(w, [watch[w] EXCEPT !.phase = ph, !.errs = 0])
    BY <1>6 DEF IdleReturns
  <2>3. LET n == [watch[w] EXCEPT !.phase = ph, !.errs = 0] IN n \in WatchType /\ n.at = watch[w].at /\ n.phase \in Loops
    BY <1>1 DEF WatchType, Loops
  <2>4. QED
    BY <2>1, <2>2, <2>3, LoopOn
<1>7. CASE IdleStops(w)
  <2>1. Running(w) /\ Ends(w) /\ Smooth /\ UNCHANGED <<setup, conn>> /\ lost' = lost
    BY <1>7 DEF IdleStops, Running, Loops, Same
  <2>2. QED
    BY <2>1, SteadyThen, LoopEnds
<1>8. CASE IdleBreaks(w)
  <2>1. Running(w) /\ Same
    BY <1>8 DEF IdleBreaks, Running, Loops
  <2>2. LET n == [watch[w] EXCEPT !.phase = "backoff", !.online = FALSE]
        IN  n \in WatchType /\ n.at = watch[w].at /\ n.phase \in Loops /\ (Faults(w, n) \/ Notes(w, n))
    BY <1>1, <1>8 DEF IdleBreaks, WatchType, Loops
  <2>3. QED
    BY <2>1, <2>2, LoopOn
<1>9. CASE Reopens(w)
  <2>1. Running(w) /\ Same
    BY <1>9 DEF Reopens, Running, Loops
  <2>2. LET n == [watch[w] EXCEPT !.phase = "turn", !.errs = 0, !.online = TRUE]
        IN  n \in WatchType /\ n.at = watch[w].at /\ n.phase \in Loops
    BY <1>1 DEF WatchType, Loops
  <2>3. CASE Turns(w, [watch[w] EXCEPT !.phase = "turn", !.errs = 0, !.online = TRUE])
    BY <2>1, <2>2, <2>3, LoopOn
  <2>4. CASE Faults(w, [watch[w] EXCEPT !.phase = "turn"])
    <3>1. "turn" \in Loops /\ [watch[w] EXCEPT !.phase = "turn"].phase = "turn"
      BY <1>1 DEF Loops, WatchType
    <3>2. QED
      BY <1>2, <2>1, <2>4, <3>1, LoopOn
  <2>5. QED
    BY <1>9, <2>3, <2>4 DEF Reopens
<1>10. CASE TimerSyncs(w)
  <2>1. Running(w) /\ Same /\ Notes(w, watch[w])
    BY <1>10 DEF TimerSyncs
  <2>2. QED
    BY <1>1, <2>1, LoopOn DEF Running
<1>11. QED
  BY <1>3, <1>4, <1>5, <1>6, <1>7, <1>8, <1>9, <1>10 DEF LoopStep
-----------------------------------------------------------------------------
LEMMA CallKeeps ==
  ASSUME Inv, NEW c \in Callers, CallStep(c)
  PROVE  Inv'
<1>1. call[c] \in CallType /\ conn \in [status : RowStates, push : BOOLEAN, wanted : BOOLEAN] /\ IdleTypeOK
  BY DEF Inv, IdleTypeOK
<1>2. CASE StartReads(c)
  <2> DEFINE n == [call[c] EXCEPT !.pc = "look", !.seen = [status |-> conn.status, push |-> conn.push]]
  <2>1. n \in CallType /\ n.pc # "emit"
    BY <1>1 DEF CallType
  <2>2. call' = [call EXCEPT ![c] = n]
    BY <1>1, <1>2 DEF StartReads, CallType, IdleTypeOK
  <2>3. UNCHANGED <<watch, entry, lost>> /\ Steady
    BY <1>1, <1>2 DEF StartReads, Steady, IdleTypeOK
  <2>4. QED
    BY <2>1, <2>2, <2>3, CallerMoves
<1>3. CASE StartLooks(c)
  <2>1. Steady /\ call[c].todo # <<>>
    BY <1>3, SteadyThen DEF StartLooks, Doing, Enters
  <2>2. CASE Enters(c)
    BY <2>1, <2>2, Entered
  <2>3. CASE (Leaves(c) \/ Moves(c, "open")) /\ UNCHANGED <<watch, entry, lost>>
    BY <1>1, <2>1, <2>3, LeavesWell, Goes, CallerMoves
  <2>4. QED
    BY <1>3, <2>2, <2>3 DEF StartLooks
<1>4. CASE StartOpens(c)
  <2>1. Steady /\ call[c].todo # <<>>
    BY <1>4, SteadyThen DEF StartOpens, Doing, Enters
  <2>2. CASE Enters(c)
    BY <2>1, <2>2, Entered
  <2>3. CASE Leaves(c) /\ UNCHANGED <<watch, entry, lost>>
    BY <1>1, <2>1, <2>3, LeavesWell, CallerMoves
  <2>4. QED
    BY <1>4, <2>2, <2>3 DEF StartOpens
<1>5. CASE StartEmits(c)
  <2>1. Steady
    BY <1>5, EmitSteady DEF StartEmits
  <2>2. QED
    BY <1>5, <2>1, Emitted
<1>6. CASE StopReads(c)
  <2>1. Steady /\ call[c].todo # <<>> /\ UNCHANGED <<watch, entry, lost>>
    BY <1>1, <1>6 DEF StopReads, Doing, Steady, IdleTypeOK
  <2>2. Leaves(c) \/ Moves(c, "close")
    BY <1>6 DEF StopReads
  <2>3. QED
    BY <1>1, <2>1, <2>2, LeavesWell, Goes, CallerMoves
<1>7. CASE StopCloses(c)
  <2>1. Steady
    BY <1>1, <1>7 DEF StopCloses, Steady, IdleTypeOK
  <2>2. QED
    BY <1>7, <2>1, StopAsked
<1>8. CASE StopReturns(c)
  <2>1. Steady
    BY <1>1, <1>8 DEF StopReturns, Steady, IdleTypeOK
  <2>2. QED
    BY <1>8, <2>1, StopDone
<1>9. CASE RowWrite(c)
  <2>1. Leaves(c) /\ call[c].todo # <<>> /\ UNCHANGED <<setup, watch, entry, mishaps, lost>>
    BY <1>9 DEF RowWrite, Doing
  <2>2. conn' \in [status : RowStates, push : BOOLEAN, wanted : BOOLEAN]
    BY <1>1, <1>9 DEF RowWrite, RowStates
  <2>3. Steady
    BY <1>1, <2>1, <2>2 DEF Steady, IdleTypeOK
  <2>4. QED
    BY <1>1, <2>1, <2>3, LeavesWell, CallerMoves
<1>10. QED
  BY <1>2, <1>3, <1>4, <1>5, <1>6, <1>7, <1>8, <1>9 DEF CallStep

\* A request, and the maintenance tick with its watchdog and its renewal.
LEMMA TickKeeps ==
  ASSUME Inv, (\E c \in Calls : Request(c)) \/ TickStep
  PROVE  Inv'
<1>1. conn \in [status : RowStates, push : BOOLEAN, wanted : BOOLEAN] /\ IdleTypeOK /\ "tick" \in Callers /\ Calls \subseteq Callers
  BY DEF Inv, IdleTypeOK, Callers
<1>2. UNCHANGED <<watch, entry, lost>>
  BY DEF TickStep, TickBegins, Patrol, Renew, Request
<1>3. Steady
  <2>1. setup' = setup /\ (mishaps' = mishaps \/ mishaps' = mishaps + 1)
    BY DEF TickStep, TickBegins, Patrol, Renew, Request, Smooth, Mishap
  <2>2. conn' \in [status : RowStates, push : BOOLEAN, wanted : BOOLEAN]
    BY <1>1 DEF TickStep, TickBegins, Patrol, Renew, Request
  <2>3. QED
    BY <1>1, <2>1, <2>2 DEF Steady, IdleTypeOK
<1>4. ASSUME NEW c \in Callers, NEW todo \in Ops, Becomes(c, todo) PROVE Inv'
  BY <1>2, <1>3, <1>4, BecomesWell, CallerMoves
<1>5. ASSUME NEW c \in Calls, Request(c) PROVE Inv'
  <2>1. PICK ask \in {"watch", "unwatch", "delete"} : Becomes(c, Programs[ask])
    BY <1>1, <1>5, IdleAssumption DEF Request, IdleTypeOK
  <2>2. Programs[ask] \in Ops
    <3>1. <<"want", "start">> \in Ops /\ <<"stop", "unwant">> \in Ops /\ <<"retire", "stop", "drop">> \in Ops
      BY DEF Ops
    <3>2. CASE ask = "watch"
      BY <3>1, <3>2 DEF Programs
    <3>3. CASE ask = "unwatch"
      BY <3>1, <3>3 DEF Programs
    <3>4. CASE ask = "delete"
      BY <3>1, <3>4 DEF Programs
    <3>5. QED
      BY <3>2, <3>3, <3>4
  <2>3. QED
    BY <1>1, <1>4, <2>1, <2>2
<1>6. CASE TickStep
  <2>1. \/ Becomes("tick", <<"patrol", "renew">>) \/ Becomes("tick", <<"stop", "start", "renew">>)
        \/ Becomes("tick", <<"renew">>) \/ Becomes("tick", <<>>) \/ Becomes("tick", <<"stop">>) \/ Becomes("tick", <<"start">>)
    BY <1>6 DEF TickStep, TickBegins, Patrol, Renew
  <2>2. /\ <<"patrol", "renew">> \in Ops /\ <<"stop", "start", "renew">> \in Ops /\ <<"renew">> \in Ops
        /\ <<>> \in Ops /\ <<"stop">> \in Ops /\ <<"start">> \in Ops
    BY DEF Ops
  <2>3. QED
    BY <1>1, <1>4, <2>1, <2>2
<1>7. QED
  BY <1>5, <1>6

LEMMA IdleKeeps == Inv /\ [IdleNext]_idleVars => Inv'
<1> SUFFICES ASSUME Inv, [IdleNext]_idleVars PROVE Inv'
  OBVIOUS
<1>1. ASSUME NEW p \in Procs, Restart(p) PROVE Inv'
  <2>1. Steady /\ lost' = lost /\ Dies(p)
    BY <1>1, SteadyThen DEF Restart, Same
  <2>2. QED
    BY <2>1, Death
<1>2. CASE UNCHANGED idleVars
  BY <1>2 DEF idleVars, Inv, IdleTypeOK, ReachInv
<1>3. QED
  BY <1>1, <1>2, CallKeeps, TickKeeps, LoopKeeps DEF IdleNext

LEMMA IdleStarts == IdleInit => Inv
<1> SUFFICES ASSUME IdleInit PROVE Inv
  OBVIOUS
<1>1. NoCall \in CallType /\ [NoCall EXCEPT !.todo = <<"start">>] \in CallType /\ NoWatch \in WatchType
  <2>1. <<"start">> \in Ops /\ <<>> \in Ops
    BY DEF Ops
  <2>2. \A t \in Ops : [NoCall EXCEPT !.todo = t] \in CallType
    BY DEF NoCall, CallType, RowStates, Ops
  <2>3. NoCall \in CallType
    BY <2>1 DEF NoCall, CallType, RowStates, Ops
  <2>4. NoWatch \in WatchType
    BY DEF NoWatch, WatchType, Procs, RowStates
  <2>5. QED
    BY <2>1, <2>2, <2>3, <2>4
<1>2. /\ \A c \in Callers : call[c] \in CallType /\ call[c].pc # "emit"
      /\ \A w \in WatchIds : watch[w] = NoWatch
  BY <1>1 DEF IdleInit, NoCall
<1>3. IdleTypeOK
  BY <1>1, <1>2 DEF IdleInit, IdleTypeOK, RowStates
<1>4. ReachInv
  BY <1>2 DEF ReachInv, NoWatch, Loops
<1>5. QED
  BY <1>3, <1>4 DEF Inv

LEMMA IdleAlways == IdleSpec => []Inv
BY IdleStarts, IdleKeeps, PTL DEF IdleSpec

\* Watches, the maps of the processes and their callers keep their types.
THEOREM TypeCorrect == IdleSpec => []IdleTypeOK
BY IdleAlways, PTL DEF Inv

\* A loop that runs is in the map of its process, or another start or a late stop took it
\* out there, however requests, the tick, deaths and failures interleave.
THEOREM LoopsStayReachable == IdleSpec => []LoopsReachable
<1>1. Inv => LoopsReachable
  BY DEF Inv, ReachInv, LoopsReachable, Running
<1>2. QED
  BY <1>1, IdleAlways, PTL
=============================================================================
