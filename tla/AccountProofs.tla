---------------------------- MODULE AccountProofs ----------------------------
(***************************************************************************)
(* Proofs about the parts of the account (MCAccount): GmailSync, that the  *)
(* history id kept for an account covers what its rows say (from           *)
(* GmailInv), Attachments, that a message whose parses end well has a row  *)
(* and a blob of every attachment (from FilesInv), ServerCaches, that what *)
(* was cleared does not come back (from CacheInv), Threading, that answers *)
(* and copies lie together as RepliesJoin says (from ThreadInv), and       *)
(* GmailAccount, the types, that an address gets one connector, that a row *)
(* keeps a grant that is good, and that settings that say Gmail pushes     *)
(* tell the truth (from TypeInv, OneInv, GrantInv and PushInv).            *)
(***************************************************************************)
EXTENDS GmailSync, Attachments, ServerCaches, Threading, GmailAccount, FiniteSetTheorems,
        WellFoundedInduction, TLAPS

(* GmailSync. *)

GmailPhases == {"off", "wipe", "forget", "mark", "read", "claim", "look", "history", "list", "drop", "next", "row", "content",
                "store", "end"}
MailType == [here : BOOLEAN, seen : Nat, raw : BOOLEAN, body : BOOLEAN]
SyncType == [pc : GmailPhases, here : BOOLEAN, id : Nat, due : BOOLEAN, first : BOOLEAN, last : Nat,
             all : SUBSET Letters, whole : BOOLEAN, todo : SUBSET Letters, drop : SUBSET Letters, m : {0} \cup Letters,
             in : BOOLEAN, seen : Nat]
StateType == [here : BOOLEAN, by : Syncs \cup {Nobody}, id : Nat, due : BOOLEAN]

GmailTypes ==
  /\ label \in [Letters -> {"in", "out", "gone"}] /\ history \in Nat
  /\ stamp \in [Letters -> Nat \ {0}] /\ \A m \in Letters : stamp[m] <= history
  /\ mail \in [Letters -> MailType] /\ torn \in BOOLEAN
  /\ state \in StateType /\ state.id <= history /\ (~state.here => state.id = 0)
  /\ sync \in [Syncs -> SyncType] /\ \A s \in Syncs : sync[s].id <= history /\ sync[s].last <= history

\* A row says what Gmail says.
Right(m) == (mail[m].here <=> label[m] = "in") /\ (mail[m].here => mail[m].seen = stamp[m])
Covered(k) == \A m \in Letters : stamp[m] <= k => Right(m)
\* A change that neither a kept id covers nor the one that the run r will keep.
Beyond(r, m) == stamp[m] > r.last /\ stamp[m] > state.id /\ \A t \in Syncs : stamp[m] > sync[t].id

OneWorks == \A s \in Syncs : Working(s) => state.by = s
Covers == Covered(state.id) /\ \A s \in Syncs : Covered(sync[s].id)
\* What a run has still to do with a message.
Pending(r, m) ==
  \/ r.pc # "store" /\ m \in r.todo
  \/ r.pc = "row" /\ m = r.m /\ r.seen = stamp[m]
  \/ r.pc # "store" /\ r.whole /\ m \notin r.all /\ label[m] # "in"
RunFits(r) ==
  /\ r.whole => r.pc \in {"drop", "next", "row", "content", "store", "end"}
  /\ r.pc = "row" => r.m \in Letters /\ ((r.seen = stamp[r.m] /\ (r.in <=> label[r.m] = "in")) \/ Beyond(r, r.m))
  /\ r.pc = "drop" => \A m \in r.drop : label[m] = "gone"
  /\ r.pc \in {"drop", "next", "row", "content"} /\ r.whole => \A m \in Letters \ r.all : label[m] # "in" \/ Beyond(r, m)
  /\ r.pc \in {"drop", "next", "row", "content", "store"} =>
       \A m \in Letters : stamp[m] <= r.last => Right(m) \/ Pending(r, m)
GmailInv == GmailTypes /\ (~torn => OneWorks /\ Covers /\ \A s \in Syncs : RunFits(sync[s]))
-----------------------------------------------------------------------------
LEMMA RestingFits == Resting \in SyncType /\ Resting.pc = "off" /\ Resting.id = 0 /\ Resting.last = 0 /\ ~Resting.whole
BY DEF Resting, SyncType, GmailPhases

\* Rows are about the same messages as before.
RowsStay == \A m \in Letters : mail'[m].here = mail[m].here /\ (mail[m].here => mail'[m].seen = mail[m].seen)

LEMMA RightStays == ASSUME RowsStay, UNCHANGED <<label, stamp>>, NEW m \in Letters PROVE Right(m)' <=> Right(m)
BY DEF RowsStay, Right

\* A run moves on by itself.
LEMMA RunMoves ==
  ASSUME GmailInv, NEW s \in Syncs, NEW n \in SyncType, sync' = [sync EXCEPT ![s] = n],
         n.id \in {0, state.id, sync[s].id}, n.last <= history, ~torn' => RunFits(n) /\ OneWorks',
         mail' \in [Letters -> MailType], RowsStay, state' \in StateType, state'.id = state.id, state.here => state'.here,
         torn' \in BOOLEAN, torn => torn', UNCHANGED googleVars
  PROVE  GmailInv'
<1>1. GmailTypes
  BY DEF GmailInv
<1>2. /\ sync' \in [Syncs -> SyncType] /\ sync'[s] = n /\ \A t \in Syncs : t # s => sync'[t] = sync[t]
      /\ UNCHANGED <<label, stamp, history>>
  BY <1>1 DEF GmailTypes, googleVars
<1>3. \A t \in Syncs : sync'[t].id \in {0, state.id, sync[t].id}
  BY <1>2
<1>4. GmailTypes'
  <2>1. \A t \in Syncs : sync'[t].id <= history' /\ sync'[t].last <= history'
    BY <1>1, <1>2, <1>3 DEF GmailTypes, StateType, SyncType
  <2>2. ~state'.here => state'.id = 0
    BY <1>1 DEF GmailTypes
  <2>3. QED
    BY <1>1, <1>2, <2>1, <2>2 DEF GmailTypes
<1>5. \A m \in Letters : Right(m)' <=> Right(m)
  BY <1>2, RightStays
<1>6. ASSUME ~torn' PROVE OneWorks' /\ Covers' /\ \A t \in Syncs : RunFits(sync[t])'
  <2>1. ~torn /\ Covers /\ OneWorks' /\ RunFits(n) /\ \A t \in Syncs : RunFits(sync[t])
    BY <1>6 DEF GmailInv
  <2>2. Covers'
    <3>1. \A m \in Letters : ~(stamp[m] <= 0)
      BY <1>1 DEF GmailTypes
    <3>2. QED
      BY <1>2, <1>3, <1>5, <2>1, <3>1 DEF Covers, Covered
  <2>3. ASSUME NEW r, NEW m \in Letters, Beyond(r, m) PROVE Beyond(r, m)'
    <3>1. stamp'[m] > 0
      BY <1>1, <1>2 DEF GmailTypes
    <3>2. QED
      BY <1>2, <1>3, <2>3, <3>1 DEF Beyond
  <2>4. ASSUME NEW r \in SyncType, RunFits(r) PROVE RunFits(r)'
    <3>1. r.all \subseteq Letters /\ \A m \in Letters : Pending(r, m)' <=> Pending(r, m)
      BY <1>2 DEF SyncType, Pending
    <3>2. QED
      BY <1>2, <1>5, <2>3, <2>4, <3>1 DEF RunFits
  <2>5. ASSUME NEW t \in Syncs PROVE RunFits(sync[t])'
    <3>1. PICK r \in SyncType : r = sync'[t] /\ RunFits(r)
      BY <1>1, <1>2, <2>1 DEF GmailTypes
    <3>2. RunFits(r)'
      BY <2>4, <3>1
    <3>3. QED
      BY <3>1, <3>2 DEF RunFits, Pending, Beyond
  <2>6. QED
    BY <2>1, <2>2, <2>5
<1>7. QED
  BY <1>4, <1>6 DEF GmailInv

\* A run that goes to another phase is the same otherwise.
Same(n, r) ==
  /\ n \in SyncType /\ n.id = r.id /\ n.last = r.last /\ n.all = r.all /\ n.todo = r.todo /\ n.drop = r.drop /\ n.m = r.m
  /\ n.in = r.in /\ n.seen = r.seen /\ (n.whole <=> r.whole)
LEMMA Goes ==
  ASSUME GmailInv, NEW s \in Syncs, NEW pc \in GmailPhases, sync' = [sync EXCEPT ![s].pc = pc]
  PROVE  \E n \in SyncType : sync' = [sync EXCEPT ![s] = n] /\ n.pc = pc /\ Same(n, sync[s])
<1> DEFINE n == [sync[s] EXCEPT !.pc = pc]
<1>1. sync[s] \in SyncType /\ sync' = [sync EXCEPT ![s] = n]
  BY DEF GmailInv, GmailTypes, SyncType
<1>2. n \in SyncType /\ n.pc = pc
  BY <1>1 DEF SyncType
<1>3. Same(n, sync[s])
  BY <1>1, <1>2 DEF SyncType, Same
<1>4. QED
  BY <1>1, <1>2, <1>3

\* A run that is not at the messages has nothing to fit.
Early == {"off", "wipe", "forget", "mark", "read", "claim", "look", "history", "list"}
LEMMA EarlyFits == ASSUME NEW r, r.pc \in Early \cup {"end"}, r.pc \in Early => ~r.whole PROVE RunFits(r)
BY DEF RunFits, Early

\* Who does not come to work leaves the one that works alone.
LEMMA WorksStill ==
  ASSUME GmailTypes, OneWorks, NEW s \in Syncs, NEW n \in SyncType, sync' = [sync EXCEPT ![s] = n],
         Working(s) \/ n.pc \in {"off", "wipe", "forget", "mark", "read", "claim"}, state'.by = state.by
  PROVE  OneWorks'
<1>1. sync'[s] = n /\ \A t \in Syncs : t # s => sync'[t] = sync[t]
  BY DEF GmailTypes
<1>2. QED
  BY <1>1 DEF OneWorks, Working

\* A run that works changes rows.
LEMMA MailMoves ==
  ASSUME GmailInv, NEW s \in Syncs, NEW n \in SyncType, sync' = [sync EXCEPT ![s] = n],
         n.id = sync[s].id, n.last = sync[s].last, Working(s), mail' \in [Letters -> MailType],
         ~torn => \A m \in Letters : \/ Right(m)' \/ Beyond(sync[s], m)
                                     \/ mail'[m].here = mail[m].here /\ mail'[m].seen = mail[m].seen,
         ~torn => RunFits(n)', UNCHANGED <<googleVars, state, torn>>
  PROVE  GmailInv'
<1>1. GmailTypes
  BY DEF GmailInv
<1>2. /\ sync' \in [Syncs -> SyncType] /\ sync'[s] = n /\ \A t \in Syncs : t # s => sync'[t] = sync[t]
      /\ UNCHANGED <<label, stamp, history>>
  BY <1>1 DEF GmailTypes, googleVars
<1>3. GmailTypes'
  BY <1>1, <1>2 DEF GmailTypes
<1>4. ASSUME ~torn PROVE OneWorks' /\ Covers' /\ \A t \in Syncs : RunFits(sync[t])'
  <2>1. Covers /\ OneWorks /\ RunFits(n)' /\ \A t \in Syncs : RunFits(sync[t])
    BY <1>4 DEF GmailInv
  <2>2. OneWorks'
    BY <1>1, <2>1, WorksStill
  <2>3. ASSUME NEW m \in Letters, Right(m), ~Beyond(sync[s], m) PROVE Right(m)'
    <3>1. Right(m)' \/ (mail'[m].here = mail[m].here /\ mail'[m].seen = mail[m].seen)
      BY <1>4, <2>3
    <3>2. QED
      BY <1>2, <2>3, <3>1 DEF Right
  <2>4. Covers'
    <3>1. \A k \in {state.id} \cup {sync[t].id : t \in Syncs} : \A m \in Letters : stamp[m] <= k => ~Beyond(sync[s], m)
      <4>1. \A m \in Letters : stamp[m] \in Nat
        BY <1>1 DEF GmailTypes
      <4>2. state.id \in Nat /\ \A t \in Syncs : sync[t].id \in Nat
        BY <1>1 DEF GmailTypes, StateType, SyncType
      <4>3. QED
        BY <4>1, <4>2 DEF Beyond
    <3>2. \A t \in Syncs : sync'[t].id = sync[t].id
      BY <1>2
    <3>3. QED
      BY <1>2, <2>1, <2>3, <3>1, <3>2 DEF Covers, Covered
  <2>5. ASSUME NEW t \in Syncs PROVE RunFits(sync[t])'
    <3>1. CASE t = s
      BY <1>2, <2>1, <3>1 DEF RunFits, Pending, Beyond
    <3>2. CASE t # s
      <4>1. sync'[t].pc \in {"off", "wipe", "forget", "mark", "read", "claim"} /\ ~sync'[t].whole
        BY <1>2, <2>1, <3>2 DEF OneWorks, Working, RunFits
      <4>2. QED
        BY <4>1 DEF RunFits
    <3>3. QED
      BY <3>1, <3>2
  <2>6. QED
    BY <2>2, <2>4, <2>5
<1>5. QED
  BY <1>3, <1>4 DEF GmailInv

LEMMA GmailStarts == GmailInit => GmailInv
<1> SUFFICES ASSUME GmailInit PROVE GmailInv
  OBVIOUS
<1>1. GmailTypes
  <2>1. NoMail \in MailType /\ NoState \in StateType /\ NoState.id = 0
    BY DEF NoMail, MailType, NoState, StateType
  <2>2. label \in [Letters -> {"in", "out", "gone"}]
    BY DEF GmailInit
  <2>3. /\ sync \in [Syncs -> SyncType] /\ \A s \in Syncs : sync[s].id <= history /\ sync[s].last <= history
        /\ state \in StateType /\ state.id <= history /\ state.id = 0
    BY <2>1, RestingFits DEF GmailInit
  <2>4. stamp \in [Letters -> Nat \ {0}] /\ (\A m \in Letters : stamp[m] <= history) /\ history \in Nat
    BY DEF GmailInit
  <2>5. mail \in [Letters -> MailType] /\ torn \in BOOLEAN
    BY <2>1 DEF GmailInit
  <2>6. QED
    BY <2>2, <2>3, <2>4, <2>5 DEF GmailTypes
<1>2. OneWorks /\ \A s \in Syncs : RunFits(sync[s])
  BY RestingFits, EarlyFits DEF GmailInit, OneWorks, Working, Early
<1>3. Covers
  BY RestingFits DEF GmailInit, Covers, Covered, NoState
<1>4. QED
  BY <1>1, <1>2, <1>3 DEF GmailInv

\* What every step of a run starts from.
LEMMA Before ==
  ASSUME GmailInv
  PROVE  /\ state \in StateType /\ torn \in BOOLEAN /\ mail \in [Letters -> MailType]
         /\ sync \in [Syncs -> SyncType] /\ \A s \in Syncs : sync[s] \in SyncType
         /\ ~torn => OneWorks /\ Covers /\ \A s \in Syncs : RunFits(sync[s])
         /\ GmailTypes
BY DEF GmailInv, GmailTypes

\* Steps that come before the messages, or give a run up, and do not touch the state's claim.
LEMMA EarlyKeeps ==
  ASSUME GmailInv, NEW s \in Syncs, NEW n \in SyncType, sync' = [sync EXCEPT ![s] = n],
         n.pc \in {"off", "wipe", "forget", "mark", "read", "claim"} \/ (Working(s) /\ n.pc \in Early), ~torn => ~n.whole,
         n.id \in {0, state.id, sync[s].id}, n.last <= history,
         state' \in StateType, state'.id = state.id, state'.by = state.by, state.here => state'.here,
         UNCHANGED <<googleVars, torn>>, mail' \in [Letters -> MailType], RowsStay
  PROVE  GmailInv'
<1>1. n.pc \in Early
  BY DEF Early
<1>2. ~torn' => OneWorks'
  BY Before, WorksStill
<1>3. ~torn => RunFits(n)
  BY <1>1, EarlyFits
<1>4. torn' \in BOOLEAN /\ (torn => torn')
  BY Before
<1>5. QED
  BY <1>2, <1>3, <1>4, RunMoves

LEMMA RestsKeeps ==
  ASSUME GmailInv, NEW s \in Syncs, Rests(s), state' \in StateType, state'.id = state.id, state.here => state'.here,
         ~torn => OneWorks' \/ state'.by = state.by, UNCHANGED <<googleVars, mail, torn>>
  PROVE  GmailInv'
<1>1. sync' = [sync EXCEPT ![s] = Resting] /\ Resting \in SyncType /\ Resting.id = 0 /\ Resting.last <= history
  BY RestingFits, Before DEF Rests, GmailTypes
<1>2. RunFits(Resting)
  BY RestingFits, EarlyFits DEF Early
<1>3. ~torn' => OneWorks'
  <2>1. CASE state'.by = state.by
    BY <1>1, <2>1, RestingFits, Before, WorksStill
  <2>2. QED
    BY <2>1
<1>4. mail' \in [Letters -> MailType] /\ RowsStay /\ torn' \in BOOLEAN /\ (torn => torn') /\ UNCHANGED googleVars
  BY Before DEF RowsStay
<1>5. QED
  BY <1>1, <1>2, <1>3, <1>4, RunMoves

LEMMA ArriveKeeps == ASSUME GmailInv, NEW s \in Syncs, NEW here \in BOOLEAN, Arrive(s, here) PROVE GmailInv'
<1> DEFINE pc == IF booted THEN "read" ELSE IF Kept = {} THEN "wipe" ELSE "mark"
           n == [Resting EXCEPT !.here = here, !.pc = pc]
<1>1. sync' = [sync EXCEPT ![s] = n] /\ UNCHANGED <<googleVars, state, torn, mail>>
  BY Before DEF Arrive
<1>2. pc \in {"read", "wipe", "mark"}
  OBVIOUS
<1> HIDE DEF pc
<1>3. n \in SyncType /\ n.pc = pc /\ n.id = 0 /\ n.last = 0 /\ ~n.whole
  BY <1>2, RestingFits DEF SyncType, GmailPhases
<1> HIDE DEF n
<1>4. n.last <= history /\ mail' \in [Letters -> MailType] /\ RowsStay
  BY <1>1, <1>3, Before DEF GmailTypes, RowsStay
<1>5. QED
  BY <1>1, <1>2, <1>3, <1>4, Before, EarlyKeeps

LEMMA WipeKeeps == ASSUME GmailInv, NEW s \in Syncs, Wipe(s) PROVE GmailInv'
<1> DEFINE n == [sync[s] EXCEPT !.pc = "forget"]
<1>1. /\ sync' = [sync EXCEPT ![s] = n] /\ UNCHANGED <<googleVars, state>> /\ mail' = [m \in Letters |-> NoMail]
      /\ torn' = (torn \/ Kept # {}) /\ sync[s].pc = "wipe"
  BY Before DEF Wipe, Goto, Is, SyncType
<1>2. n \in SyncType /\ n.pc = "forget" /\ n.id = sync[s].id /\ n.last = sync[s].last /\ n.whole = sync[s].whole
  BY Before DEF SyncType, GmailPhases
<1> HIDE DEF n
<1>3. mail' \in [Letters -> MailType] /\ NoMail.here = FALSE
  BY <1>1 DEF NoMail, MailType
<1>4. torn' \in BOOLEAN /\ (torn => torn') /\ n.last <= history
  BY <1>1, <1>2, Before DEF GmailTypes
<1>5. CASE torn'
  <2>1. GmailTypes'
    <3>1. /\ sync' \in [Syncs -> SyncType] /\ \A t \in Syncs : sync'[t].id = sync[t].id /\ sync'[t].last = sync[t].last
          /\ UNCHANGED <<label, stamp, history>>
      BY <1>1, <1>2, Before DEF googleVars
    <3>2. QED
      BY <1>1, <1>3, <1>4, <3>1, Before DEF GmailTypes
  <2>2. QED
    BY <1>5, <2>1 DEF GmailInv
<1>6. CASE ~torn'
  <2>1. ~torn /\ Kept = {}
    BY <1>1, <1>6
  <2>2. RowsStay
    BY <1>1, <1>3, <2>1, Before DEF RowsStay, Kept, MailType
  <2>3. ~torn => ~n.whole
    BY <1>1, <1>2, Before DEF RunFits
  <2>4. QED
    BY <1>1, <1>2, <1>3, <1>4, <1>6, <2>1, <2>2, <2>3, EarlyKeeps, Before
<1>7. QED
  BY <1>5, <1>6

LEMMA ForgetKeeps == ASSUME GmailInv, NEW s \in Syncs, Forget(s) PROVE GmailInv'
<1> DEFINE n == [sync[s] EXCEPT !.pc = "mark"]
<1>1. /\ sync' = [sync EXCEPT ![s] = n] /\ UNCHANGED <<googleVars, mail>> /\ state' = NoState
      /\ torn' = (torn \/ \E t \in Syncs : Working(t)) /\ sync[s].pc = "forget"
  BY Before DEF Forget, Goto, Is, SyncType
<1>2. n \in SyncType /\ n.pc = "mark" /\ n.id = sync[s].id /\ n.last = sync[s].last /\ n.whole = sync[s].whole
  BY Before DEF SyncType, GmailPhases
<1> HIDE DEF n
<1>3. NoState \in StateType /\ NoState.id = 0
  BY DEF NoState, StateType
<1>4. /\ sync' \in [Syncs -> SyncType] /\ \A t \in Syncs : sync'[t].id = sync[t].id /\ sync'[t].last = sync[t].last
      /\ sync'[s] = n /\ (\A t \in Syncs : t # s => sync'[t] = sync[t]) /\ UNCHANGED <<label, stamp, history>>
  BY <1>1, <1>2, Before DEF googleVars
<1>5. GmailTypes'
  BY <1>1, <1>3, <1>4, Before DEF GmailTypes
<1>6. ASSUME ~torn' PROVE OneWorks' /\ Covers' /\ \A t \in Syncs : RunFits(sync[t])'
  <2>1. ~torn /\ Covers /\ (\A t \in Syncs : ~Working(t)) /\ \A t \in Syncs : RunFits(sync[t])
    BY <1>1, <1>6, Before
  <2>2. \A t \in Syncs : sync'[t].pc \in {"off", "wipe", "forget", "mark", "read", "claim"} /\ ~sync'[t].whole
    BY <1>1, <1>2, <1>4, <2>1 DEF Working, RunFits
  <2>3. OneWorks' /\ \A t \in Syncs : RunFits(sync[t])'
    BY <2>2 DEF OneWorks, Working, RunFits
  <2>4. \A m \in Letters : (Right(m)' <=> Right(m)) /\ ~(stamp[m] <= 0)
    BY <1>1, <1>4, Before DEF Right, GmailTypes
  <2>5. Covers'
    BY <1>1, <1>3, <1>4, <2>1, <2>4 DEF Covers, Covered
  <2>6. QED
    BY <2>3, <2>5
<1>7. QED
  BY <1>5, <1>6 DEF GmailInv

\* The steps between the first sync's and the claim.
LEMMA MarkKeeps == ASSUME GmailInv, NEW s \in Syncs, Mark(s) PROVE GmailInv'
<1>1. UNCHANGED <<googleVars, mail, state, torn>> /\ sync[s].pc = "mark" /\ mail' \in [Letters -> MailType] /\ RowsStay
  BY Before DEF Mark, Is, RowsStay
<1>2. CASE sync[s].here
  <2>1. sync' = [sync EXCEPT ![s].pc = "read"] /\ "read" \in GmailPhases
    BY <1>2 DEF Mark, Goto, GmailPhases
  <2>2. PICK n \in SyncType : sync' = [sync EXCEPT ![s] = n] /\ n.pc = "read" /\ Same(n, sync[s])
    BY <2>1, Goes
  <2>3. (~torn => ~n.whole) /\ n.id = sync[s].id /\ n.last <= history
    BY <1>1, <2>2, Before DEF RunFits, Same, GmailTypes
  <2>4. QED
    BY <1>1, <2>2, <2>3, Before, EarlyKeeps
<1>3. CASE ~sync[s].here
  <2>1. Rests(s)
    BY <1>3 DEF Mark
  <2>2. QED
    BY <1>1, <2>1, Before, RestsKeeps
<1>4. QED
  BY <1>2, <1>3

LEMMA ReadStateKeeps == ASSUME GmailInv, NEW s \in Syncs, ReadState(s) PROVE GmailInv'
<1> DEFINE n == [sync[s] EXCEPT !.pc = "claim", !.id = state.id, !.due = state.due]
<1>1. /\ UNCHANGED <<googleVars, mail, torn>> /\ sync[s].pc = "read" /\ mail' \in [Letters -> MailType] /\ RowsStay
      /\ state' = [state EXCEPT !.here = TRUE]
  BY Before DEF ReadState, Is, RowsStay
<1>2. sync' = [sync EXCEPT ![s] = n]
  BY Before DEF ReadState, SyncType
<1>3. n \in SyncType /\ n.pc = "claim" /\ n.id = state.id /\ n.last = sync[s].last /\ n.whole = sync[s].whole
  <2>1. n \in SyncType
    <3>1. sync[s] \in SyncType /\ state.id \in Nat /\ state.due \in BOOLEAN
      BY Before DEF StateType
    <3>2. "claim" \in GmailPhases
      BY DEF GmailPhases
    <3>3. QED
      BY <3>1, <3>2 DEF SyncType
  <2>2. n.pc = "claim" /\ n.id = state.id /\ n.last = sync[s].last /\ n.whole = sync[s].whole
    BY Before DEF SyncType
  <2>3. QED
    BY <2>1, <2>2
<1> HIDE DEF n
<1>4. state' \in StateType /\ state'.id = state.id /\ state'.by = state.by /\ state'.here
  BY <1>1, Before DEF StateType
<1>5. (~torn => ~n.whole) /\ n.last <= history
  BY <1>1, <1>3, Before DEF RunFits, GmailTypes
<1>6. QED
  BY <1>1, <1>2, <1>3, <1>4, <1>5, Before, EarlyKeeps

LEMMA ClaimKeeps == ASSUME GmailInv, NEW s \in Syncs, ClaimMailbox(s) PROVE GmailInv'
<1>1. /\ UNCHANGED <<googleVars, mail, torn>> /\ sync[s].pc = "claim" /\ mail' \in [Letters -> MailType] /\ RowsStay
  BY Before DEF ClaimMailbox, Is, RowsStay
<1> DEFINE free == state.here /\ (state.by = Nobody \/ Is(state.by, "off"))
<1>2. CASE free
  <2>1. sync' = [sync EXCEPT ![s].pc = "look"] /\ "look" \in GmailPhases /\ state' = [state EXCEPT !.by = s]
    BY <1>2 DEF ClaimMailbox, Goto, GmailPhases
  <2>2. PICK n \in SyncType : sync' = [sync EXCEPT ![s] = n] /\ n.pc = "look" /\ Same(n, sync[s])
    BY <2>1, Goes
  <2>3. state' \in StateType /\ state'.by = s /\ state'.id = state.id /\ state'.here = state.here
    BY <2>1, Before DEF StateType
  <2>4. ~torn' => OneWorks'
    <3> SUFFICES ASSUME ~torn PROVE OneWorks'
      BY <1>1
    <3>1. \A t \in Syncs : ~Working(t)
      BY <1>2, GmailAssumption, Before DEF OneWorks, Working, Is, Nobody
    <3>2. \A t \in Syncs : t # s => sync'[t] = sync[t]
      BY <2>2, Before
    <3>3. QED
      BY <2>3, <3>1, <3>2 DEF OneWorks, Working
  <2>5. ~torn' => RunFits(n)
    BY <1>1, <2>2, Before, EarlyFits DEF Same, Early, RunFits
  <2>6. n.id = sync[s].id /\ n.last <= history /\ torn' \in BOOLEAN /\ (torn => torn') /\ (state.here => state'.here)
    BY <1>1, <2>2, <2>3, Before DEF Same, GmailTypes
  <2>7. QED
    BY <1>1, <2>2, <2>3, <2>4, <2>5, <2>6, RunMoves
<1>3. CASE ~free
  <2>1. Rests(s) /\ state' = state
    BY <1>3 DEF ClaimMailbox
  <2>2. QED
    BY <1>1, <2>1, Before, RestsKeeps
<1>4. QED
  BY <1>2, <1>3

LEMMA LookAroundKeeps == ASSUME GmailInv, NEW s \in Syncs, LookAround(s) PROVE GmailInv'
<1> DEFINE pc == IF sync[s].id = 0 THEN "list" ELSE "history"
           first == sync[s].id = 0 /\ Kept = {}
<1>1. PICK hint \in 1 .. history : sync' = [sync EXCEPT ![s].pc = pc, ![s].first = first, ![s].last = hint]
  BY DEF LookAround
<1> DEFINE n == [sync[s] EXCEPT !.pc = pc, !.first = first, !.last = hint]
<1>2. /\ UNCHANGED <<googleVars, mail, torn, state>> /\ sync[s].pc = "look" /\ mail' \in [Letters -> MailType] /\ RowsStay
      /\ sync' = [sync EXCEPT ![s] = n]
  BY <1>1, Before DEF LookAround, Is, RowsStay, SyncType
<1>3. pc \in {"list", "history"} /\ first \in BOOLEAN /\ hint \in Nat /\ hint <= history
  BY Before DEF GmailTypes
<1> HIDE DEF pc, first
<1>4. n \in SyncType /\ n.pc = pc /\ n.last = hint /\ n.id = sync[s].id /\ n.whole = sync[s].whole
  <2>1. n \in SyncType
    <3>1. sync[s] \in SyncType
      BY Before
    <3>2. pc \in GmailPhases
      BY <1>3 DEF GmailPhases
    <3>3. QED
      BY <1>3, <3>1, <3>2 DEF SyncType
  <2>2. n.pc = pc /\ n.last = hint /\ n.id = sync[s].id /\ n.whole = sync[s].whole
    BY <1>3, Before DEF SyncType
  <2>3. QED
    BY <2>1, <2>2
<1> HIDE DEF n
<1>5. n.pc \in Early /\ Working(s) /\ (~torn => ~n.whole)
  BY <1>2, <1>3, <1>4, Before DEF Early, Working, RunFits
<1>6. QED
  BY <1>2, <1>3, <1>4, <1>5, Before, EarlyKeeps

\* A run at work goes on at the messages.
LEMMA WorkMoves ==
  ASSUME GmailInv, NEW s \in Syncs, NEW n \in SyncType, sync' = [sync EXCEPT ![s] = n], Working(s),
         n.id = sync[s].id, n.last <= history, ~torn => RunFits(n), UNCHANGED <<googleVars, state, torn>>,
         mail' \in [Letters -> MailType], RowsStay
  PROVE  GmailInv'
<1>1. torn' \in BOOLEAN /\ (torn => torn') /\ (~torn' => OneWorks') /\ state' \in StateType
  BY Before, WorksStill
<1>2. QED
  BY <1>1, RunMoves

LEMMA ReadHistoryKeeps == ASSUME GmailInv, NEW s \in Syncs, ReadHistory(s) PROVE GmailInv'
<1> DEFINE new == {m \in Letters : stamp[m] > sync[s].id}
           gone == {m \in new : label[m] = "gone"}
           pc == IF sync[s].due THEN "list" ELSE "drop"
           n == [sync[s] EXCEPT !.pc = pc, !.last = history, !.todo = new, !.drop = gone]
<1>1. /\ UNCHANGED <<googleVars, mail, torn, state>> /\ sync[s].pc = "history" /\ mail' \in [Letters -> MailType] /\ RowsStay
      /\ Working(s)
  BY Before DEF ReadHistory, Is, RowsStay, Working
<1>2. CASE sync[s].id < horizon
  <2>1. sync' = [sync EXCEPT ![s].pc = "list"] /\ "list" \in GmailPhases
    BY <1>2 DEF ReadHistory, Goto, GmailPhases
  <2>2. PICK k \in SyncType : sync' = [sync EXCEPT ![s] = k] /\ k.pc = "list" /\ Same(k, sync[s])
    BY <2>1, Goes
  <2>3. (~torn => ~k.whole) /\ k.id = sync[s].id /\ k.last <= history /\ k.pc \in Early
    BY <1>1, <2>2, Before DEF RunFits, Same, GmailTypes, Early
  <2>4. QED
    BY <1>1, <2>2, <2>3, Before, EarlyKeeps
<1>3. CASE ~(sync[s].id < horizon)
  <2>1. sync' = [sync EXCEPT ![s] = n]
    BY <1>3, Before DEF ReadHistory, SyncType
  <2>2. pc \in {"list", "drop"} /\ new \subseteq Letters /\ gone \subseteq Letters /\ history \in Nat
    BY Before DEF GmailTypes
  <2>3. \A m \in Letters : m \in new <=> stamp[m] > sync[s].id
    OBVIOUS
  <2>4. \A m \in gone : label[m] = "gone"
    OBVIOUS
  <2> HIDE DEF pc, new, gone
  <2>5. /\ n \in SyncType /\ n.pc = pc /\ n.id = sync[s].id /\ n.last = history /\ n.todo = new /\ n.drop = gone
        /\ n.whole = sync[s].whole
    <3>1. n \in SyncType
      <4>1. sync[s] \in SyncType
        BY Before
      <4>2. pc \in GmailPhases
        BY <2>2 DEF GmailPhases
      <4>3. new \in SUBSET Letters /\ gone \in SUBSET Letters
        BY <2>2
      <4>4. QED
        BY <2>2, <4>1, <4>2, <4>3 DEF SyncType
    <3>2. /\ n.pc = pc /\ n.id = sync[s].id /\ n.last = history /\ n.todo = new /\ n.drop = gone
            /\ n.whole = sync[s].whole
      BY <2>2, Before DEF SyncType
    <3>3. QED
      BY <3>1, <3>2
  <2> HIDE DEF n
  <2>6. ~torn => RunFits(n)
    <3> SUFFICES ASSUME ~torn PROVE RunFits(n)
      OBVIOUS
    <3>1. ~n.whole
      BY <1>1, <2>5, Before DEF RunFits
    <3>2. \A m \in Letters : Right(m) \/ m \in n.todo
      <4>1. Covered(sync[s].id) /\ sync[s].id \in Nat /\ \A m \in Letters : stamp[m] \in Nat
        BY Before DEF Covers, SyncType, GmailTypes
      <4>2. QED
        BY <2>3, <2>5, <4>1 DEF Covered
    <3>3. \A m \in n.drop : label[m] = "gone"
      BY <2>4, <2>5
    <3>4. n.pc \in {"list", "drop"}
      BY <2>2, <2>5
    <3>5. \A m \in Letters : stamp[m] <= n.last => Right(m) \/ Pending(n, m)
      BY <3>2, <3>4 DEF Pending
    <3>6. QED
      BY <3>1, <3>3, <3>4, <3>5 DEF RunFits
  <2>7. n.last <= history
    BY <2>2, <2>5
  <2>8. QED
    BY <1>1, <2>1, <2>5, <2>6, <2>7, WorkMoves
<1>4. QED
  BY <1>2, <1>3

LEMMA ListAllKeeps == ASSUME GmailInv, NEW s \in Syncs, ListAll(s) PROVE GmailInv'
<1> DEFINE all == {m \in Letters : label[m] = "in"}
           n == [sync[s] EXCEPT !.pc = "drop", !.all = all, !.todo = all, !.drop = {}, !.whole = TRUE]
<1>1. /\ UNCHANGED <<googleVars, mail, torn, state>> /\ sync[s].pc = "list" /\ mail' \in [Letters -> MailType] /\ RowsStay
      /\ Working(s) /\ sync' = [sync EXCEPT ![s] = n]
  BY Before DEF ListAll, Is, RowsStay, Working, SyncType
<1>2. all \subseteq Letters /\ \A m \in Letters : m \in all <=> label[m] = "in"
  OBVIOUS
<1> HIDE DEF all
<1>3. /\ n \in SyncType /\ n.pc = "drop" /\ n.id = sync[s].id /\ n.last = sync[s].last /\ n.todo = all /\ n.all = all
      /\ n.drop = {} /\ n.whole = TRUE
  <2>1. n \in SyncType
    <3>1. sync[s] \in SyncType
      BY Before
    <3>2. all \in SUBSET Letters /\ {} \in SUBSET Letters /\ "drop" \in GmailPhases /\ TRUE \in BOOLEAN
      BY <1>2 DEF GmailPhases
    <3>3. QED
      BY <3>1, <3>2 DEF SyncType
  <2>2. /\ n.pc = "drop" /\ n.id = sync[s].id /\ n.last = sync[s].last /\ n.todo = all /\ n.all = all
          /\ n.drop = {} /\ n.whole = TRUE
    BY <1>2, Before DEF SyncType
  <2>3. QED
    BY <2>1, <2>2
<1> HIDE DEF n
<1>4. RunFits(n)
  BY <1>2, <1>3 DEF RunFits, Pending
<1>5. n.last <= history
  BY <1>3, Before DEF GmailTypes
<1>6. QED
  BY <1>1, <1>3, <1>4, <1>5, WorkMoves

\* What does not depend on the rows fits as before.
LEMMA FitsOn ==
  ASSUME NEW r \in SyncType, NEW n \in SyncType, Same(n, r), RunFits(r),
         r.pc \in {"drop", "next", "row", "content"}, n.pc \in {"next", "content"}
  PROVE  /\ n.whole => n.pc \in {"drop", "next", "row", "content", "store", "end"}
         /\ n.whole => \A m \in Letters \ n.all : label[m] # "in" \/ Beyond(n, m)
BY DEF RunFits, Same, Beyond

LEMMA DropDeletedKeeps == ASSUME GmailInv, NEW s \in Syncs, DropDeleted(s) PROVE GmailInv'
<1>1. /\ UNCHANGED <<googleVars, state, torn>> /\ sync[s].pc = "drop" /\ Working(s) /\ sync' = [sync EXCEPT ![s].pc = "next"]
      /\ mail' = [m \in Letters |-> IF m \in sync[s].drop THEN NoMail ELSE mail[m]] /\ "next" \in GmailPhases
  BY DEF DropDeleted, Without, Goto, Is, Working, GmailPhases
<1>2. PICK n \in SyncType : sync' = [sync EXCEPT ![s] = n] /\ n.pc = "next" /\ Same(n, sync[s])
  BY <1>1, Goes
<1>3. NoMail \in MailType /\ ~NoMail.here
  BY DEF NoMail, MailType
<1>4. mail' \in [Letters -> MailType] /\ UNCHANGED <<label, stamp>>
  BY <1>1, <1>3, Before DEF googleVars
<1>5. CASE torn
  BY <1>1, <1>2, <1>4, <1>5, MailMoves DEF Same
<1>6. CASE ~torn
  <2>1. RunFits(sync[s]) /\ sync[s] \in SyncType
    BY <1>6, Before
  <2>2. \A m \in Letters : Right(m)' \/ (m \notin sync[s].drop /\ mail'[m] = mail[m])
    <3>1. \A m \in sync[s].drop : label[m] # "in"
      BY <1>1, <2>1 DEF RunFits
    <3>2. QED
      BY <1>1, <1>3, <1>4, <3>1 DEF Right
  <2>3. \A m \in Letters : Right(m) => Right(m)'
    BY <1>4, <2>2 DEF Right
  <2>4. RunFits(n)'
    <3>1. \A m \in Letters : stamp[m] <= n.last => Right(m)' \/ Pending(n, m)'
      BY <1>1, <1>2, <1>4, <2>1, <2>3 DEF RunFits, Pending, Same
    <3>2. n.whole => \A m \in Letters \ n.all : label[m] # "in" \/ Beyond(n, m)
      BY <1>1, <1>2, <2>1, FitsOn
    <3>3. \A m \in Letters : Beyond(n, m) => Beyond(n, m)'
      BY <1>1, <1>2, <1>4, Before DEF Beyond, Same
    <3>4. QED
      BY <1>2, <1>4, <3>1, <3>2, <3>3 DEF RunFits
  <2>5. QED
    BY <1>1, <1>2, <1>4, <2>2, <2>4, MailMoves DEF Same
<1>7. QED
  BY <1>5, <1>6

LEMMA FetchMetadataKeeps == ASSUME GmailInv, NEW s \in Syncs, FetchMetadata(s) PROVE GmailInv'
<1>1. PICK m \in sync[s].todo : sync' = [sync EXCEPT ![s].pc = "row", ![s].todo = @ \ {m}, ![s].m = m,
                                    ![s].in = (label[m] = "in"), ![s].seen = stamp[m]]
  BY DEF FetchMetadata
<1> DEFINE left == sync[s].todo \ {m}
           in == (label[m] = "in")
           n == [sync[s] EXCEPT !.pc = "row", !.todo = left, !.m = m, !.in = in, !.seen = stamp[m]]
<1>2. /\ UNCHANGED <<googleVars, mail, torn, state>> /\ sync[s].pc = "next" /\ mail' \in [Letters -> MailType] /\ RowsStay
      /\ Working(s) /\ sync' = [sync EXCEPT ![s] = n]
  BY <1>1, Before DEF FetchMetadata, Is, RowsStay, Working, SyncType
<1>3. left \subseteq Letters /\ in \in BOOLEAN /\ m \in Letters /\ stamp[m] \in Nat
  BY Before DEF SyncType, GmailTypes
<1>4. (in <=> label[m] = "in") /\ \A k \in Letters : k \in sync[s].todo <=> k \in left \/ k = m
  BY Before DEF SyncType
<1> HIDE DEF left, in
<1>5. /\ n \in SyncType /\ n.pc = "row" /\ n.id = sync[s].id /\ n.last = sync[s].last /\ n.todo = left
      /\ n.all = sync[s].all /\ n.m = m /\ n.in = in /\ n.seen = stamp[m] /\ (n.whole <=> sync[s].whole)
  <2>1. "row" \in GmailPhases /\ sync[s] \in SyncType
    BY Before DEF GmailPhases
  <2>2. n \in SyncType
    BY <1>3, <2>1 DEF SyncType
  <2>3. QED
    BY <2>1, <2>2 DEF SyncType
<1> HIDE DEF n
<1>6. ~torn => RunFits(n)
  <2> SUFFICES ASSUME ~torn PROVE RunFits(n)
    OBVIOUS
  <2>1. RunFits(sync[s])
    BY Before
  <2>2. n.pc = "row" => n.m \in Letters /\ n.seen = stamp[n.m] /\ (n.in <=> label[n.m] = "in")
    BY <1>3, <1>4, <1>5
  <2>3. n.whole => \A k \in Letters \ n.all : label[k] # "in" \/ Beyond(n, k)
    BY <1>2, <1>5, <2>1 DEF RunFits, Beyond
  <2>4. \A k \in Letters : stamp[k] <= n.last => Right(k) \/ Pending(n, k)
    BY <1>2, <1>4, <1>5, <2>1 DEF RunFits, Pending
  <2>5. QED
    BY <1>5, <2>2, <2>3, <2>4 DEF RunFits
<1>7. n.last <= history
  BY <1>5, Before DEF GmailTypes
<1>8. QED
  BY <1>2, <1>5, <1>6, <1>7, WorkMoves

LEMMA PutRowKeeps == ASSUME GmailInv, NEW s \in Syncs, PutRow(s) PROVE GmailInv'
<1>0. PICK m : m = sync[s].m
  OBVIOUS
<1> DEFINE pc == IF sync[s].in /\ Hydrates(s) /\ ~(mail[m].body /\ mail[m].raw) THEN "content" ELSE "next"
           raw == mail[m].raw \/ (~mail[m].here /\ Hydrates(s))
           row == IF ~sync[s].in THEN NoMail ELSE [mail[m] EXCEPT !.here = TRUE, !.seen = sync[s].seen, !.raw = raw]
<1>1. /\ UNCHANGED <<googleVars, state, torn>> /\ sync[s].pc = "row" /\ Working(s) /\ sync' = [sync EXCEPT ![s].pc = pc]
      /\ pc \in GmailPhases /\ pc \in {"next", "content"}
  BY <1>0 DEF PutRow, Goto, Is, Working, GmailPhases
<1>2. PICK n \in SyncType : sync' = [sync EXCEPT ![s] = n] /\ n.pc = pc /\ Same(n, sync[s])
  BY <1>1, Goes
<1>3. UNCHANGED <<label, stamp>> /\ mail \in [Letters -> MailType]
  BY <1>1, Before DEF googleVars
<1>4. CASE m \notin Letters
  <2>1. mail' = mail /\ torn
    BY <1>0, <1>1, <1>3, <1>4, Before DEF PutRow, RunFits
  <2>2. QED
    BY <1>1, <1>2, <1>3, <2>1, MailMoves DEF Same
<1>5. CASE m \in Letters
  <2>1. mail' = [mail EXCEPT ![m] = row]
    BY <1>0, <1>3, <1>5 DEF PutRow, MailType
  <2>2. row \in MailType /\ (row.here <=> sync[s].in) /\ (row.here => row.seen = sync[s].seen)
    <3>1. raw \in BOOLEAN /\ sync[s].seen \in Nat /\ sync[s].in \in BOOLEAN /\ mail[m] \in MailType
      BY <1>3, <1>5, Before DEF SyncType
    <3> HIDE DEF raw
    <3>2. CASE sync[s].in
      BY <3>1, <3>2 DEF MailType
    <3>3. CASE ~sync[s].in
      BY <3>1, <3>3 DEF NoMail, MailType
    <3>4. QED
      BY <3>1, <3>2, <3>3
  <2> HIDE DEF row, pc
  <2>3. mail' \in [Letters -> MailType] /\ mail'[m] = row /\ \A k \in Letters : k # m => mail'[k] = mail[k]
    BY <1>3, <1>5, <2>1, <2>2
  <2>4. CASE torn
    BY <1>1, <1>2, <2>3, <2>4, MailMoves DEF Same
  <2>5. CASE ~torn
    <3>1. RunFits(sync[s]) /\ sync[s] \in SyncType
      BY <2>5, Before
    <3>2. Right(m)' \/ Beyond(sync[s], m)
      BY <1>0, <1>1, <1>3, <2>2, <2>3, <3>1 DEF RunFits, Right
    <3>3. \A k \in Letters : k # m /\ Right(k) => Right(k)'
      BY <1>3, <2>3 DEF Right
    <3>4. \A k \in Letters : stamp[k] <= n.last => Right(k)' \/ Pending(n, k)'
      <4>1. ASSUME NEW k \in Letters, k # m, stamp[k] <= n.last PROVE Right(k)' \/ Pending(n, k)'
        BY <1>0, <1>1, <1>2, <1>3, <3>1, <3>3, <4>1 DEF RunFits, Pending, Same
      <4>2. stamp[m] <= n.last => Right(m)'
        <5>1. stamp[m] \in Nat /\ sync[s].last \in Nat /\ n.last = sync[s].last
          BY <1>2, <1>5, Before DEF GmailTypes, SyncType, Same
        <5>2. QED
          BY <3>2, <5>1 DEF Beyond
      <4>3. QED
        BY <4>1, <4>2
    <3>5. n.whole => \A k \in Letters \ n.all : label[k] # "in" \/ Beyond(n, k)
      BY <1>1, <1>2, <3>1, FitsOn
    <3>6. \A k \in Letters : Beyond(n, k) => Beyond(n, k)'
      BY <1>1, <1>2, <1>3, Before DEF Beyond, Same
    <3>7. RunFits(n)'
      BY <1>1, <1>2, <1>3, <3>4, <3>5, <3>6 DEF RunFits
    <3>8. QED
      <4>1. \A k \in Letters :
              \/ Right(k)' \/ Beyond(sync[s], k)
              \/ mail'[k].here = mail[k].here /\ mail'[k].seen = mail[k].seen
        <5>1. \A k \in Letters : k # m => mail'[k].here = mail[k].here /\ mail'[k].seen = mail[k].seen
          BY <2>3
        <5>2. QED
          BY <3>2, <5>1 DEF Right, Beyond
      <4>2. QED
        BY <1>1, <1>2, <2>3, <3>7, <4>1, MailMoves DEF Same
  <2>6. QED
    BY <2>4, <2>5
<1>6. QED
  BY <1>4, <1>5

\* Contents are filled in; what a row says of its message is as before.
LEMMA FilledStays ==
  ASSUME GmailInv, NEW m, NEW parsed \in BOOLEAN, Filled(m, parsed)
  PROVE  mail' \in [Letters -> MailType] /\ RowsStay
<1>1. mail \in [Letters -> MailType]
  BY Before
<1>2. CASE m \in Letters
  <2> DEFINE body == mail[m].body \/ (parsed /\ m \notin account.blank)
             row == IF ~mail[m].here THEN mail[m] ELSE [mail[m] EXCEPT !.raw = TRUE, !.body = body]
  <2>1. mail' = [mail EXCEPT ![m] = row]
    BY <1>1, <1>2 DEF Filled
  <2>2. mail[m] \in MailType /\ body \in BOOLEAN
    BY <1>1, <1>2 DEF MailType
  <2> HIDE DEF body
  <2>3. row \in MailType /\ row.here = mail[m].here /\ row.seen = mail[m].seen
    BY <2>2 DEF MailType
  <2>4. QED
    BY <1>1, <1>2, <2>1, <2>3 DEF RowsStay
<1>3. CASE m \notin Letters
  BY <1>1, <1>3 DEF Filled, RowsStay
<1>4. QED
  BY <1>2, <1>3

LEMMA FillInKeeps == ASSUME GmailInv, NEW s \in Syncs, FillIn(s) PROVE GmailInv'
<1>1. /\ UNCHANGED <<googleVars, state, torn>> /\ sync[s].pc = "content" /\ Working(s) /\ sync' = [sync EXCEPT ![s].pc = "next"]
      /\ "next" \in GmailPhases /\ mail' \in [Letters -> MailType] /\ RowsStay
  BY FilledStays DEF FillIn, Goto, Is, Working, GmailPhases
<1>2. PICK n \in SyncType : sync' = [sync EXCEPT ![s] = n] /\ n.pc = "next" /\ Same(n, sync[s])
  BY <1>1, Goes
<1>3. ~torn => RunFits(n)
  <2> SUFFICES ASSUME ~torn PROVE RunFits(n)
    OBVIOUS
  <2>1. RunFits(sync[s]) /\ sync[s] \in SyncType
    BY Before
  <2>2. n.whole => \A k \in Letters \ n.all : label[k] # "in" \/ Beyond(n, k)
    BY <1>1, <1>2, <2>1, FitsOn
  <2>3. \A k \in Letters : stamp[k] <= n.last => Right(k) \/ Pending(n, k)
    BY <1>1, <1>2, <2>1 DEF RunFits, Pending, Same
  <2>4. QED
    BY <1>2, <2>2, <2>3 DEF RunFits
<1>4. n.id = sync[s].id /\ n.last <= history
  BY <1>2, Before DEF Same, GmailTypes
<1>5. QED
  BY <1>1, <1>2, <1>3, <1>4, WorkMoves

LEMMA ReconcileKeeps == ASSUME GmailInv, NEW s \in Syncs, Reconcile(s) PROVE GmailInv'
<1>1. /\ UNCHANGED <<googleVars, state, torn>> /\ sync[s].pc = "next" /\ Working(s) /\ sync' = [sync EXCEPT ![s].pc = "store"]
      /\ sync[s].todo = {} /\ "store" \in GmailPhases
      /\ mail' = IF sync[s].whole THEN [m \in Letters |-> IF m \in Letters \ sync[s].all THEN NoMail ELSE mail[m]] ELSE mail
  BY DEF Reconcile, Without, Goto, Is, Working, GmailPhases
<1>2. PICK n \in SyncType : sync' = [sync EXCEPT ![s] = n] /\ n.pc = "store" /\ Same(n, sync[s])
  BY <1>1, Goes
<1>3. NoMail \in MailType /\ ~NoMail.here
  BY DEF NoMail, MailType
<1>4. mail' \in [Letters -> MailType] /\ UNCHANGED <<label, stamp>> /\ mail \in [Letters -> MailType]
  BY <1>1, <1>3, Before DEF googleVars
<1>5. CASE torn
  BY <1>1, <1>2, <1>4, <1>5, MailMoves DEF Same
<1>6. CASE ~torn
  <2>1. RunFits(sync[s]) /\ sync[s] \in SyncType
    BY <1>6, Before
  <2>2. \A m \in Letters : IF sync[s].whole /\ m \notin sync[s].all THEN mail'[m] = NoMail ELSE mail'[m] = mail[m]
    BY <1>1, <1>4
  <2>3. ASSUME NEW m \in Letters PROVE Right(m)' \/ Beyond(sync[s], m) \/ mail'[m] = mail[m]
    BY <1>1, <1>3, <1>4, <2>1, <2>2 DEF RunFits, Right
  <2>4. ASSUME NEW m \in Letters, stamp[m] <= n.last PROVE Right(m)'
    <3>1. stamp[m] \in Nat /\ sync[s].last \in Nat /\ n.last = sync[s].last
      BY <1>2, Before DEF GmailTypes, SyncType, Same
    <3>2. ~Beyond(sync[s], m)
      BY <2>4, <3>1 DEF Beyond
    <3>3. Right(m) \/ (sync[s].whole /\ m \notin sync[s].all)
      BY <1>1, <2>1, <2>4, <3>1 DEF RunFits, Pending
    <3>4. CASE sync[s].whole /\ m \notin sync[s].all
      BY <1>1, <1>3, <1>4, <2>1, <2>2, <3>2, <3>4 DEF RunFits, Right
    <3>5. CASE ~(sync[s].whole /\ m \notin sync[s].all)
      BY <1>4, <2>2, <3>3, <3>5 DEF Right
    <3>6. QED
      BY <3>4, <3>5
  <2>5. RunFits(n)'
    BY <1>2, <1>4, <2>4 DEF RunFits
  <2>6. QED
    BY <1>1, <1>2, <1>4, <2>3, <2>5, MailMoves DEF Same
<1>7. QED
  BY <1>5, <1>6

LEMMA StoreIdKeeps == ASSUME GmailInv, NEW s \in Syncs, StoreId(s) PROVE GmailInv'
<1> DEFINE due == state.due /\ ~sync[s].whole
<1>1. /\ UNCHANGED <<googleVars, mail, torn>> /\ sync[s].pc = "store" /\ Working(s) /\ sync' = [sync EXCEPT ![s].pc = "end"]
      /\ "end" \in GmailPhases /\ state' = IF state.here THEN [state EXCEPT !.id = sync[s].last, !.due = due] ELSE state
  BY Before DEF StoreId, LastSeen, Goto, Is, Working, GmailPhases, StateType
<1>2. PICK n \in SyncType : sync' = [sync EXCEPT ![s] = n] /\ n.pc = "end" /\ Same(n, sync[s])
  BY <1>1, Goes
<1>3. /\ state' \in StateType /\ state'.by = state.by /\ state'.here = state.here
      /\ state'.id = (IF state.here THEN sync[s].last ELSE state.id)
  <2>1. due \in BOOLEAN /\ sync[s].last \in Nat
    BY Before DEF SyncType, StateType
  <2> HIDE DEF due
  <2>2. QED
    BY <1>1, <2>1, Before DEF StateType
<1>4. /\ sync' \in [Syncs -> SyncType] /\ (\A t \in Syncs : sync'[t].id = sync[t].id /\ sync'[t].last = sync[t].last)
      /\ sync'[s] = n /\ (\A t \in Syncs : t # s => sync'[t] = sync[t]) /\ UNCHANGED <<label, stamp, history>>
  BY <1>1, <1>2, Before DEF googleVars, Same
<1>5. GmailTypes'
  BY <1>1, <1>3, <1>4, Before DEF GmailTypes
<1>6. ASSUME ~torn' PROVE OneWorks' /\ Covers' /\ \A t \in Syncs : RunFits(sync[t])'
  <2>1. ~torn /\ Covers /\ OneWorks /\ \A t \in Syncs : RunFits(sync[t])
    BY <1>1, <1>6, Before
  <2>2. OneWorks'
    BY <1>1, <1>2, <1>3, <2>1, Before, WorksStill
  <2>3. \A m \in Letters : Right(m)' <=> Right(m)
    BY <1>1, <1>4 DEF Right
  <2>4. Covers'
    <3>1. \A m \in Letters : stamp[m] <= sync[s].last => Right(m)
      BY <1>1, <1>2, <2>1 DEF RunFits, Pending
    <3>2. QED
      BY <1>3, <1>4, <2>1, <2>3, <3>1 DEF Covers, Covered
  <2>5. ASSUME NEW t \in Syncs PROVE RunFits(sync[t])'
    <3>1. CASE t = s
      BY <1>2, <1>4, <3>1 DEF RunFits
    <3>2. CASE t # s
      <4>1. sync'[t].pc \in {"off", "wipe", "forget", "mark", "read", "claim"} /\ ~sync'[t].whole
        BY <1>1, <1>4, <2>1, <3>2 DEF OneWorks, Working, RunFits
      <4>2. QED
        BY <4>1 DEF RunFits
    <3>3. QED
      BY <3>1, <3>2
  <2>6. QED
    BY <2>2, <2>4, <2>5
<1>7. QED
  BY <1>5, <1>6 DEF GmailInv

\* A run that ends or fails gives its claim back, by the name of the mailbox.
LEMMA EndKeeps == ASSUME GmailInv, NEW s \in Syncs, EndSync(s) \/ FailSync(s) PROVE GmailInv'
<1>1. /\ Rests(s) /\ UNCHANGED <<googleVars, mail, torn>>
      /\ state' = [state EXCEPT !.by = Nobody] \/ (state' = state /\ ~Working(s))
  BY DEF EndSync, FailSync
<1>2. CASE state' = state
  BY <1>1, <1>2, Before, RestsKeeps
<1>3. CASE state' = [state EXCEPT !.by = Nobody] /\ (state' # state => Working(s))
  <2>1. state' \in StateType /\ state'.id = state.id /\ state'.here = state.here
    BY <1>3, Before DEF StateType
  <2>2. CASE Working(s)
    <3>1. ~torn => OneWorks'
      <4>1. sync' = [sync EXCEPT ![s] = Resting] /\ sync \in [Syncs -> SyncType]
        BY <1>1, Before DEF Rests
      <4>2. sync'[s].pc = "off" /\ \A t \in Syncs : t # s => sync'[t] = sync[t]
        BY <4>1, RestingFits
      <4>3. ~torn => \A t \in Syncs : Working(t) => t = s
        BY <2>2, Before DEF OneWorks
      <4>4. QED
        BY <4>2, <4>3 DEF OneWorks, Working
    <3>2. QED
      BY <1>1, <2>1, <3>1, RestsKeeps
  <2>3. QED
    BY <1>2, <1>3, <2>2
<1>4. QED
  <2>1. state' # state => Working(s)
    BY DEF EndSync, FailSync, Is, Working
  <2>2. QED
    BY <1>1, <1>2, <1>3, <2>1

\* The job, and time, say nothing new of the rows.
LEMMA OthersKeep ==
  ASSUME GmailInv, UNCHANGED <<label, stamp, history, torn, sync>>, state' \in StateType, state'.by = state.by,
         state'.id = state.id, state'.here = state.here, mail' \in [Letters -> MailType], RowsStay
  PROVE  GmailInv'
<1>1. GmailTypes'
  BY Before DEF GmailTypes
<1>2. \A m \in Letters : Right(m)' <=> Right(m)
  BY RightStays
<1>3. ASSUME ~torn PROVE OneWorks' /\ Covers' /\ \A t \in Syncs : RunFits(sync[t])'
  <2>1. Covers /\ OneWorks /\ (\A t \in Syncs : RunFits(sync[t])) /\ \A t \in Syncs : sync[t] \in SyncType
    BY <1>3, Before
  <2>2. OneWorks' /\ Covers'
    BY <1>2, <2>1 DEF OneWorks, Working, Covers, Covered
  <2>3. ASSUME NEW t \in Syncs PROVE RunFits(sync[t])'
    <3>1. \A m \in Letters : (Beyond(sync[t], m)' <=> Beyond(sync[t], m)) /\ (Pending(sync[t], m)' <=> Pending(sync[t], m))
      BY DEF Beyond, Pending
    <3>2. sync'[t] = sync[t] /\ UNCHANGED <<label, stamp>> /\ RunFits(sync[t]) /\ sync[t].all \subseteq Letters
      BY <2>1 DEF SyncType
    <3>3. QED
      BY <1>2, <3>1, <3>2 DEF RunFits
  <2>4. QED
    BY <2>2, <2>3
<1>4. QED
  BY <1>1, <1>3 DEF GmailInv

LEMMA ChangeKeeps == ASSUME GmailInv, NEW m \in Letters, ChangeAtGmail(m) PROVE GmailInv'
<1>1. PICK to \in {"in", "out", "gone"} : label' = [label EXCEPT ![m] = to]
  BY DEF ChangeAtGmail
<1>2. /\ UNCHANGED <<mail, state, torn, sync>> /\ label[m] # "gone" /\ history' = history + 1
      /\ stamp' = [stamp EXCEPT ![m] = history + 1]
  BY DEF ChangeAtGmail
<1>3. /\ label' \in [Letters -> {"in", "out", "gone"}] /\ label'[m] = to
      /\ stamp'[m] = history + 1 /\ history \in Nat
      /\ \A k \in Letters : k # m => label'[k] = label[k] /\ stamp'[k] = stamp[k]
  BY <1>1, <1>2, Before DEF GmailTypes
<1>4. GmailTypes'
  <2>1. history + 1 \in Nat \ {0} /\ \A k \in Nat : k <= history => k <= history + 1
    BY <1>3
  <2>2. stamp' \in [Letters -> Nat \ {0}] /\ \A k \in Letters : stamp'[k] <= history'
    BY <1>2, <1>3, <2>1, Before DEF GmailTypes
  <2>3. state.id \in Nat /\ \A s \in Syncs : sync[s].id \in Nat /\ sync[s].last \in Nat
    BY Before DEF SyncType, StateType
  <2>4. QED
    BY <1>2, <1>3, <2>1, <2>2, <2>3, Before DEF GmailTypes
<1>5. ASSUME ~torn PROVE OneWorks' /\ Covers' /\ \A t \in Syncs : RunFits(sync[t])'
  <2>1. Covers /\ OneWorks /\ (\A t \in Syncs : RunFits(sync[t])) /\ \A t \in Syncs : sync[t] \in SyncType
    BY <1>5, Before
  <2>2. /\ state.id \in Nat /\ state.id <= history
        /\ \A s \in Syncs : sync[s].id \in Nat /\ sync[s].last \in Nat /\ sync[s].id <= history /\ sync[s].last <= history
    BY Before DEF SyncType, StateType, GmailTypes
  <2>3. \A s \in Syncs : Beyond(sync[s], m)'
    BY <1>2, <1>3, <2>2 DEF Beyond
  <2>4. \A k \in Letters : k # m => (Right(k)' <=> Right(k))
    BY <1>2, <1>3 DEF Right
  <2>5. \A k \in Nat : k <= history => ~(stamp'[m] <= k)
    BY <1>3
  <2>6. OneWorks' /\ Covers'
    BY <1>2, <1>3, <2>1, <2>2, <2>4, <2>5 DEF OneWorks, Working, Covers, Covered
  <2>7. ASSUME NEW t \in Syncs PROVE RunFits(sync[t])'
    <3>0. PICK r \in SyncType : r = sync[t]
      BY <2>1
    <3>1. \A k \in Letters : k # m => (Beyond(r, k)' <=> Beyond(r, k)) /\ (Pending(r, k)' <=> Pending(r, k))
      BY <1>2, <1>3 DEF Beyond, Pending
    <3>2. sync'[t] = r /\ RunFits(r) /\ r.all \subseteq Letters /\ r.drop \subseteq Letters
      BY <1>2, <2>1, <3>0 DEF SyncType
    <3>3. ~(stamp'[m] <= r.last) /\ Beyond(r, m)'
      BY <1>2, <2>2, <2>3, <2>5, <3>0 DEF Beyond
    <3>4. ASSUME NEW k \in Letters PROVE (Beyond(r, k) \/ k = m) => Beyond(r, k)'
      <4>1. CASE k = m
        BY <3>3, <4>1 DEF Beyond
      <4>2. CASE k # m
        BY <3>1, <4>2
      <4>3. QED
        BY <4>1, <4>2
    <3>5. r.pc = "row" => r.m \in Letters /\ ((r.seen = stamp'[r.m] /\ (r.in <=> label'[r.m] = "in")) \/ Beyond(r, r.m)')
      <4>1. PICK k : k = r.m
        OBVIOUS
      <4>2. r.pc = "row" => k \in Letters /\ ((r.seen = stamp'[k] /\ (r.in <=> label'[k] = "in")) \/ Beyond(r, k)')
        BY <1>3, <3>2, <3>4, <4>1 DEF RunFits
      <4>3. QED
        BY <4>1, <4>2 DEF Beyond
    <3>6. r.pc = "drop" => \A k \in r.drop : label'[k] = "gone"
      BY <1>2, <1>3, <3>2 DEF RunFits
    <3>7. r.pc \in {"drop", "next", "row", "content"} /\ r.whole => \A k \in Letters \ r.all : label'[k] # "in" \/ Beyond(r, k)'
      BY <1>3, <3>2, <3>4 DEF RunFits
    <3>8. r.pc \in {"drop", "next", "row", "content", "store"} =>
            \A k \in Letters : stamp'[k] <= r.last => Right(k)' \/ Pending(r, k)'
      BY <1>3, <2>4, <3>1, <3>2, <3>3 DEF RunFits
    <3>9. r.whole => r.pc \in {"drop", "next", "row", "content", "store", "end"}
      BY <3>2 DEF RunFits
    <3>10. RunFits(r)'
      BY <3>5, <3>6, <3>7, <3>8, <3>9 DEF RunFits
    <3>11. QED
      BY <3>2, <3>10 DEF RunFits, Pending, Beyond
  <2>8. QED
    BY <2>6, <2>7
<1>6. QED
  BY <1>2, <1>4, <1>5 DEF GmailInv

LEMMA GmailKeeps == GmailInv /\ [GmailNext]_gmailVars => GmailInv'
<1> SUFFICES ASSUME GmailInv, [GmailNext]_gmailVars PROVE GmailInv'
  OBVIOUS
<1>1. CASE FillBegins \/ FillEnds \/ FillFails \/ ForgetHistory \/ DayPasses \/ UNCHANGED gmailVars
  <2>1. UNCHANGED <<label, stamp, history, torn, sync, mail>> /\ (state' = state \/ state' = [state EXCEPT !.due = TRUE])
    BY <1>1 DEF FillBegins, FillEnds, FillFails, ForgetHistory, DayPasses, gmailVars, googleVars
  <2>2. state' \in StateType /\ state'.by = state.by /\ state'.id = state.id /\ state'.here = state.here
    BY <2>1, Before DEF StateType
  <2>3. mail' \in [Letters -> MailType] /\ RowsStay
    BY <2>1, Before DEF RowsStay
  <2>4. QED
    BY <2>1, <2>2, <2>3, OthersKeep
<1>2. CASE FillRow
  <2>1. UNCHANGED <<label, stamp, history, torn, sync, state>> /\ (mail' = mail \/ \E m \in fill.todo : Filled(m, TRUE))
    BY <1>2 DEF FillRow, googleVars
  <2>2. mail' \in [Letters -> MailType] /\ RowsStay
    BY <2>1, FilledStays, Before DEF RowsStay
  <2>3. QED
    BY <2>1, <2>2, OthersKeep, Before
<1>3. CASE \E m \in Letters : ChangeAtGmail(m)
  BY <1>3, ChangeKeeps
<1>4. ASSUME NEW s \in Syncs, (\E here \in BOOLEAN : Arrive(s, here)) \/ SyncStep(s) \/ FailSync(s) PROVE GmailInv'
  BY <1>4, ArriveKeeps, WipeKeeps, ForgetKeeps, MarkKeeps, ReadStateKeeps, ClaimKeeps, LookAroundKeeps, ReadHistoryKeeps,
     ListAllKeeps, DropDeletedKeeps, FetchMetadataKeeps, PutRowKeeps, FillInKeeps, ReconcileKeeps, StoreIdKeeps, EndKeeps
     DEF SyncStep
<1>5. QED
  BY <1>1, <1>2, <1>3, <1>4 DEF GmailNext, FillStep

\* Nothing at Gmail up to the kept history id is missing from the rows or told wrongly by them,
\* for any number of runs, messages, changes and failures.
THEOREM IdAlwaysCovers == GmailSpec => []IdCovers
<1>1. GmailInv => IdCovers
  BY DEF GmailInv, Covers, Covered, Right, IdCovers
<1>2. GmailSpec => []GmailInv
  BY GmailStarts, GmailKeeps, PTL DEF GmailSpec
<1>3. QED
  BY <1>1, <1>2, PTL
-----------------------------------------------------------------------------
(* Attachments. *)

Statuses == {"none", "pending", "verdict", "error", "disabled", "missing"}
FileType == [here : BOOLEAN, part : Nat, status : Statuses]
ParseType == [pc : {"off", "delete", "unblob", "part", "insert", "enqueue", "done", "failed"}, old : SUBSET Files,
              part : Nat \ {0}, a : {0} \cup Files]

FilesTypes ==
  /\ ward \in Wards /\ home \in {"here", "moved", "gone", "strayed"} /\ numbered \in Nat
  /\ file \in [Files -> FileType]
  /\ parse \in [Parsers -> ParseType]
  /\ clear \in [pc : {"off", "delete", "unblob", "done"}, keys : SUBSET (Files \cup {Raw})]
\* The reconcile takes the blobs away of a message that has gone, or was moved under it.
ClearFits ==
  /\ home = "moved" => clear.pc = "off"
  /\ home = "here" => clear.pc \in {"off", "delete"}
  /\ ward.gmail => home \in {"here", "gone"}
\* A row that a parse is about to make has its blob, and is no other's: no row yet, nor among
\* those a parse has read and will take the blobs of.
Inserting(p) == parse[p].pc = "insert"
InsertsOwn ==
  /\ \A a \in Stored : a <= numbered /\ file[a].part \in Parts
  /\ \A p \in Parsers : Inserting(p) =>
       /\ parse[p].a \in Files /\ parse[p].a <= numbered /\ ~file[parse[p].a].here
       /\ parse[p].part <= Count
       /\ home \in {"here", "moved"} => parse[p].a \in blobs
       /\ \A q \in Parsers : q # p /\ Inserting(q) => parse[q].a # parse[p].a
  /\ \A q \in Parsers : parse[q].pc \in {"delete", "unblob"} =>
       /\ \A a \in parse[q].old : a <= numbered
       /\ \A p \in Parsers : Inserting(p) => parse[p].a \notin parse[q].old
  /\ \A q \in Parsers : parse[q].pc = "unblob" => parse[q].old \cap Stored = {}
\* What a parse has made rows of since the rows were deleted.
Past(p) == parse[p].pc \notin {"off", "delete", "failed"}
Made(p) == {n \in Parts : n < parse[p].part \/ (n = parse[p].part /\ parse[p].pc = "enqueue")}
PartsThere == {file[a].part : a \in Stored}
OneIsWhole ==
  home # "gone" /\ (\A p \in Parsers : parse[p].pc # "failed") /\ (\E p \in Parsers : Past(p))
    => \E p \in Parsers : Past(p) /\ Made(p) \subseteq PartsThere
PartsCount ==
  \A p \in Parsers : /\ parse[p].pc \in {"off", "delete", "unblob"} => parse[p].part = 1
                     /\ parse[p].pc = "done" => parse[p].part > Count
                     /\ parse[p].pc = "enqueue" => parse[p].part <= Count
FilesInv == FilesTypes /\ ClearFits /\ InsertsOwn /\ BlobsKept /\ OneIsWhole /\ PartsCount
-----------------------------------------------------------------------------
\* Only the statuses of rows change, and what is no parse.
LEMMA StatusMoves ==
  ASSUME FilesInv, NEW a, NEW status \in Statuses, file' = file \/ Sets(a, status),
         UNCHANGED <<ward, home, blobs, numbered, parse, clear>>
  PROVE  FilesInv'
<1>1. FilesTypes /\ ClearFits /\ InsertsOwn /\ BlobsKept /\ OneIsWhole /\ PartsCount
  BY DEF FilesInv
<1>2. /\ file' \in [Files -> FileType]
      /\ \A b \in Files : file'[b].here = file[b].here /\ file'[b].part = file[b].part
  <2>1. file \in [Files -> FileType]
    BY <1>1 DEF FilesTypes
  <2>2. CASE Sets(a, status)
    <3> DEFINE s == IF file[a].here THEN status ELSE file[a].status
    <3>1. CASE a \in Files
      <4>1. file' = [file EXCEPT ![a] = [file[a] EXCEPT !.status = s]]
        BY <2>1, <2>2, <3>1 DEF Sets, FileType
      <4>2. s \in Statuses
        BY <2>1, <3>1 DEF FileType
      <4> HIDE DEF s
      <4>3. QED
        BY <2>1, <3>1, <4>1, <4>2 DEF FileType
    <3>2. CASE a \notin Files
      BY <2>1, <2>2, <3>2 DEF Sets
    <3>3. QED
      BY <3>1, <3>2
  <2>3. QED
    BY <2>1, <2>2
<1>3. Stored' = Stored /\ PartsThere' = PartsThere
  BY <1>2 DEF Stored, PartsThere
<1>4. FilesTypes' /\ ClearFits' /\ PartsCount' /\ BlobsKept'
  BY <1>1, <1>2, <1>3 DEF FilesTypes, ClearFits, PartsCount, BlobsKept
<1>5. InsertsOwn'
  <2>1. \A p \in Parsers : Inserting(p) => parse[p].a \in Files
    BY <1>1 DEF InsertsOwn
  <2>2. \A b \in Stored : b \in Files
    BY DEF Stored
  <2>3. QED
    BY <1>1, <1>2, <1>3, <2>1, <2>2 DEF InsertsOwn, Inserting
<1>6. OneIsWhole'
  BY <1>1, <1>3 DEF OneIsWhole, Past, Made
<1>7. QED
  BY <1>4, <1>5, <1>6 DEF FilesInv

\* A parse goes on, and not to an insert; rows and blobs stay.
LEMMA ParseMoves ==
  ASSUME FilesInv, NEW p \in Parsers, NEW n \in ParseType, parse' = [parse EXCEPT ![p] = n],
         n.pc \notin {"off", "insert", "unblob"},
         n.pc = "delete" => /\ \A a \in n.old : a <= numbered
                            /\ \A q \in Parsers : q # p /\ Inserting(q) => parse[q].a \notin n.old,
         n.pc = "delete" => n.part = 1, n.pc = "done" => n.part > Count, n.pc = "enqueue" => n.part <= Count,
         UNCHANGED <<ward, home, file, blobs, numbered, clear>>, OneIsWhole'
  PROVE  FilesInv'
<1>1. FilesTypes /\ ClearFits /\ InsertsOwn /\ BlobsKept /\ PartsCount
  BY DEF FilesInv
<1>2. parse' \in [Parsers -> ParseType] /\ parse'[p] = n /\ \A q \in Parsers : q # p => parse'[q] = parse[q]
  BY <1>1 DEF FilesTypes
<1>3. Stored' = Stored
  BY DEF Stored
<1>4. FilesTypes' /\ ClearFits' /\ BlobsKept'
  BY <1>1, <1>2, <1>3 DEF FilesTypes, ClearFits, BlobsKept
<1>5. PartsCount'
  BY <1>1, <1>2 DEF PartsCount
<1>6. \A q \in Parsers : Inserting(q)' <=> Inserting(q) /\ q # p
  BY <1>2 DEF Inserting
<1>7. InsertsOwn'
  BY <1>1, <1>2, <1>3, <1>6 DEF InsertsOwn
<1>8. QED
  BY <1>4, <1>5, <1>7 DEF FilesInv

\* What is whole stays so, when no row goes and no parse that is whole moves on too far.
LEMMA WholeStays ==
  ASSUME FilesInv, NEW p \in Parsers, NEW n \in ParseType, parse' = [parse EXCEPT ![p] = n],
         UNCHANGED home, PartsThere \subseteq PartsThere',
         parse[p].pc # "failed", n.pc # "off", IF Past(p) THEN n.pc # "delete" ELSE n.pc \in {"delete", "failed"},
         Past(p) /\ n.pc # "failed" => \A k \in Parts : k < n.part \/ (k = n.part /\ n.pc = "enqueue") => k \in Made(p) \cup PartsThere'
  PROVE  OneIsWhole'
<1>1. parse' \in [Parsers -> ParseType] /\ parse'[p] = n /\ \A q \in Parsers : q # p => parse'[q] = parse[q]
  BY DEF FilesInv, FilesTypes
<1>2. \A q \in Parsers : q # p => (Past(q)' <=> Past(q)) /\ Made(q)' = Made(q)
  BY <1>1 DEF Past, Made
<1> SUFFICES ASSUME home # "gone", \A q \in Parsers : parse'[q].pc # "failed", NEW r \in Parsers, Past(r)'
             PROVE  \E q \in Parsers : Past(q)' /\ Made(q)' \subseteq PartsThere'
  BY DEF OneIsWhole
<1>3. n.pc # "failed" /\ \A q \in Parsers : parse[q].pc # "failed"
  BY <1>1
<1>4. Past(p) <=> n.pc \notin {"delete", "off"}
  BY <1>3
<1>5. \E q \in Parsers : Past(q)
  BY <1>1, <1>2, <1>4 DEF Past
<1>6. PICK q \in Parsers : Past(q) /\ Made(q) \subseteq PartsThere
  BY <1>3, <1>5 DEF FilesInv, OneIsWhole
<1>7. CASE q = p
  <2>1. Made(p)' \subseteq PartsThere'
    BY <1>1, <1>3, <1>6, <1>7 DEF Made
  <2>2. Past(p)'
    BY <1>1, <1>3, <1>4, <1>6, <1>7 DEF Past
  <2>3. QED
    BY <2>1, <2>2
<1>8. CASE q # p
  BY <1>2, <1>6, <1>8
<1>9. QED
  BY <1>7, <1>8

LEMMA FilesStart == FilesInit => FilesInv
<1> SUFFICES ASSUME FilesInit PROVE FilesInv
  OBVIOUS
<1>1. FilesTypes
  <2>1. NoFile \in FileType /\ [pc |-> "off", old |-> {}, part |-> 1, a |-> 0] \in ParseType
    BY DEF NoFile, FileType, Statuses, ParseType
  <2>2. QED
    BY <2>1 DEF FilesInit, FilesTypes
<1>2. Stored = {} /\ \A p \in Parsers : parse[p].pc = "off"
  BY DEF FilesInit, Stored, NoFile
<1>3. ClearFits /\ InsertsOwn /\ BlobsKept /\ OneIsWhole /\ PartsCount
  BY <1>2 DEF FilesInit, ClearFits, InsertsOwn, BlobsKept, OneIsWhole, PartsCount, Inserting, Past
<1>4. QED
  BY <1>1, <1>3 DEF FilesInv

LEMMA ParseBeginsKeeps == ASSUME FilesInv, NEW p \in Parsers, ParseBegins(p) PROVE FilesInv'
<1> DEFINE n == [parse[p] EXCEPT !.old = Stored, !.pc = IF Stored = {} THEN "part" ELSE "delete"]
<1>1. parse[p] \in ParseType /\ parse[p].pc = "off" /\ Stored \subseteq Files
  BY DEF FilesInv, FilesTypes, ParseBegins, Stored
<1>2. parse' = [parse EXCEPT ![p] = n] /\ UNCHANGED <<ward, home, file, blobs, numbered, clear>>
  BY DEF ParseBegins
<1>3. n \in ParseType /\ n.old = Stored /\ n.part = parse[p].part /\ n.pc = IF Stored = {} THEN "part" ELSE "delete"
  BY <1>1 DEF ParseType
<1> HIDE DEF n
<1>4. PartsThere' = PartsThere
  BY <1>2 DEF PartsThere, Stored
<1>5. \A a \in Stored : a <= numbered
  BY DEF FilesInv, InsertsOwn
<1>6. \A q \in Parsers : Inserting(q) => parse[q].a \notin Stored
  BY DEF FilesInv, InsertsOwn, Stored
<1>7. OneIsWhole'
  <2>1. CASE Stored = {}
    <3>1. Past(p)' /\ Made(p)' = {}
      BY <1>1, <1>2, <1>3, <2>1, FilesAssumption DEF FilesInv, FilesTypes, PartsCount, Past, Made, ParseType, Count
    <3>2. QED
      BY <3>1 DEF OneIsWhole
  <2>2. CASE Stored # {}
    BY <1>1, <1>2, <1>3, <1>4, <2>2, WholeStays DEF Past
  <2>3. QED
    BY <2>1, <2>2
<1>8. QED
  BY <1>1, <1>2, <1>3, <1>5, <1>6, <1>7, ParseMoves DEF FilesInv, PartsCount

LEMMA DeleteRowsKeeps == ASSUME FilesInv, NEW p \in Parsers, DeleteRows(p) PROVE FilesInv'
<1> DEFINE n == [parse[p] EXCEPT !.pc = "unblob"]
<1>1. FilesTypes /\ ClearFits /\ InsertsOwn /\ BlobsKept /\ OneIsWhole /\ PartsCount
  BY DEF FilesInv
<1>2. parse[p] \in ParseType /\ parse[p].pc = "delete" /\ parse[p].part = 1
  BY <1>1 DEF FilesTypes, PartsCount, DeleteRows
<1>3. parse' = [parse EXCEPT ![p] = n] /\ file' = [a \in Files |-> NoFile] /\ UNCHANGED <<ward, home, blobs, numbered, clear>>
  BY <1>1, <1>2 DEF DeleteRows, Parses, FilesTypes, ParseType
<1>4. n \in ParseType /\ n.old = parse[p].old /\ n.part = 1 /\ n.pc = "unblob"
  BY <1>2 DEF ParseType
<1> HIDE DEF n
<1>5. /\ parse' \in [Parsers -> ParseType] /\ parse'[p] = n /\ \A q \in Parsers : q # p => parse'[q] = parse[q]
      /\ file' \in [Files -> FileType] /\ Stored' = {}
  <2>1. NoFile \in FileType /\ ~NoFile.here
    BY DEF NoFile, FileType, Statuses
  <2>2. QED
    BY <1>1, <1>3, <1>4, <2>1 DEF FilesTypes, Stored
<1>6. FilesTypes' /\ ClearFits' /\ PartsCount' /\ BlobsKept'
  BY <1>1, <1>3, <1>4, <1>5 DEF FilesTypes, ClearFits, PartsCount, BlobsKept
<1>7. \A q \in Parsers : Inserting(q)' <=> Inserting(q)
  BY <1>2, <1>4, <1>5 DEF Inserting
<1>8. InsertsOwn'
  <2>1. \A q \in Parsers : Inserting(q) => q # p
    BY <1>2 DEF Inserting
  <2>2. \A a \in Files : ~file'[a].here
    BY <1>5 DEF Stored
  <2>3. \A q \in Parsers : parse'[q].old = parse[q].old /\ (parse'[q].pc \in {"delete", "unblob"} <=> parse[q].pc \in {"delete", "unblob"})
    BY <1>2, <1>4, <1>5
  <2>4. QED
    BY <1>1, <1>3, <1>5, <1>7, <2>1, <2>2, <2>3 DEF InsertsOwn
<1>9. OneIsWhole'
  <2>1. Past(p)' /\ Made(p)' = {}
    BY <1>4, <1>5, FilesAssumption DEF Past, Made, Count
  <2>2. QED
    BY <2>1 DEF OneIsWhole
<1>10. QED
  BY <1>6, <1>8, <1>9 DEF FilesInv

LEMMA DeleteBlobsKeeps == ASSUME FilesInv, NEW p \in Parsers, DeleteBlobs(p) PROVE FilesInv'
<1> DEFINE n == [parse[p] EXCEPT !.pc = "part"]
<1>1. FilesTypes /\ ClearFits /\ InsertsOwn /\ BlobsKept /\ OneIsWhole /\ PartsCount
  BY DEF FilesInv
<1>2. parse[p] \in ParseType /\ parse[p].pc = "unblob" /\ parse[p].part = 1 /\ parse[p].old \subseteq Files
  BY <1>1 DEF FilesTypes, PartsCount, DeleteBlobs, ParseType
<1>3. parse' = [parse EXCEPT ![p] = n] /\ UNCHANGED <<ward, home, file, numbered, clear>>
      /\ blobs \ parse[p].old \subseteq blobs'
  BY <1>1, <1>2 DEF DeleteBlobs, OldBlobs, Parses, FilesTypes, ParseType
<1>4. n \in ParseType /\ n.part = 1 /\ n.pc = "part"
  BY <1>2 DEF ParseType
<1> HIDE DEF n
<1>5. /\ parse' \in [Parsers -> ParseType] /\ parse'[p] = n /\ \A q \in Parsers : q # p => parse'[q] = parse[q]
      /\ Stored' = Stored /\ PartsThere' = PartsThere
  BY <1>1, <1>3, <1>4 DEF FilesTypes, Stored, PartsThere
<1>6. FilesTypes' /\ ClearFits' /\ PartsCount'
  BY <1>1, <1>3, <1>4, <1>5 DEF FilesTypes, ClearFits, PartsCount
<1>7. BlobsKept'
  <2>1. Raw \notin Files
    BY FilesAssumption DEF Raw
  <2>2. parse[p].old \cap Stored = {}
    BY <1>1, <1>2 DEF InsertsOwn
  <2>3. QED
    BY <1>1, <1>2, <1>3, <1>5, <2>1, <2>2 DEF BlobsKept
<1>8. \A q \in Parsers : (Inserting(q)' <=> Inserting(q)) /\ (Inserting(q) => q # p)
  BY <1>2, <1>4, <1>5 DEF Inserting
<1>9. InsertsOwn'
  <2>1. \A q \in Parsers : Inserting(q) => parse[q].a \notin parse[p].old
    BY <1>1, <1>2 DEF InsertsOwn
  <2>2. \A q \in Parsers : Inserting(q) /\ home \in {"here", "moved"} => parse[q].a \in blobs'
    BY <1>1, <1>3, <2>1 DEF InsertsOwn
  <2>3. \A q \in Parsers : parse'[q].pc \in {"delete", "unblob"} => q # p
    BY <1>4, <1>5
  <2>4. QED
    BY <1>1, <1>3, <1>5, <1>8, <2>2, <2>3 DEF InsertsOwn
<1>10. OneIsWhole'
  <2>1. Past(p) /\ \A k \in Parts : ~(k < 1)
    BY <1>2, FilesAssumption DEF Past
  <2>2. QED
    BY <1>2, <1>3, <1>4, <1>5, <2>1, WholeStays
<1>11. QED
  BY <1>6, <1>7, <1>9, <1>10 DEF FilesInv

LEMMA PutBlobKeeps == ASSUME FilesInv, NEW p \in Parsers, PutBlob(p) PROVE FilesInv'
<1> DEFINE new == numbered + 1
           n == [parse[p] EXCEPT !.pc = "insert", !.a = new]
<1>1. FilesTypes /\ ClearFits /\ InsertsOwn /\ BlobsKept /\ OneIsWhole /\ PartsCount
  BY DEF FilesInv
<1>2. parse[p] \in ParseType /\ parse[p].pc = "part" /\ parse[p].part <= Count /\ new \in Files /\ numbered \in Nat
  BY <1>1 DEF FilesTypes, PutBlob
<1>3. parse' = [parse EXCEPT ![p] = n] /\ UNCHANGED <<ward, home, file, clear>>
      /\ numbered' = new /\ blobs' = blobs \cup {new}
  BY <1>1, <1>2 DEF PutBlob, FilesTypes, ParseType
<1>4. n \in ParseType /\ n.part = parse[p].part /\ n.pc = "insert" /\ n.a = new
  BY <1>2 DEF ParseType
<1> HIDE DEF n
<1>5. /\ parse' \in [Parsers -> ParseType] /\ parse'[p] = n /\ \A q \in Parsers : q # p => parse'[q] = parse[q]
      /\ Stored' = Stored /\ PartsThere' = PartsThere /\ Stored \subseteq Files
  BY <1>1, <1>3, <1>4 DEF FilesTypes, Stored, PartsThere
<1>6. FilesTypes' /\ ClearFits' /\ PartsCount' /\ BlobsKept'
  BY <1>1, <1>2, <1>3, <1>4, <1>5 DEF FilesTypes, ClearFits, PartsCount, BlobsKept
<1>7. \A q \in Parsers : Inserting(q)' <=> Inserting(q) \/ q = p
  BY <1>4, <1>5 DEF Inserting
<1>8. \A a \in Files : a <= numbered => a <= new /\ a # new
  <2>1. numbered \in Nat /\ new = numbered + 1
    BY <1>1, <1>2 DEF FilesTypes
  <2>2. \A a \in Files : a \in Nat
    BY FilesAssumption
  <2>3. QED
    BY <2>1, <2>2
<1>9. InsertsOwn'
  <2>1. ~file[new].here
    BY <1>1, <1>2, <1>8 DEF InsertsOwn, Stored
  <2>2. \A q \in Parsers : Inserting(q) => parse[q].a # new
    BY <1>1, <1>8 DEF InsertsOwn
  <2>3. \A q \in Parsers : parse[q].pc \in {"delete", "unblob"} => new \notin parse[q].old /\ \A a \in parse[q].old : a <= new
    BY <1>1, <1>8 DEF InsertsOwn, FilesTypes, ParseType
  <2>4. \A q \in Parsers : parse'[q].pc \in {"delete", "unblob"} => q # p
    BY <1>4, <1>5
  <2>5. new <= new
    BY <1>2
  <2> HIDE DEF new
  <2>6. (\A a \in Stored : a <= numbered /\ file[a].part \in Parts)'
    BY <1>1, <1>3, <1>5, <1>8 DEF InsertsOwn
  <2>7. ASSUME NEW q \in Parsers, Inserting(q)'
        PROVE  /\ parse'[q].a \in Files /\ parse'[q].a <= numbered' /\ ~file'[parse'[q].a].here
               /\ parse'[q].part <= Count
               /\ home' \in {"here", "moved"} => parse'[q].a \in blobs'
               /\ \A r \in Parsers : r # q /\ Inserting(r)' => parse'[r].a # parse'[q].a
    <3>1. CASE q = p
      BY <1>2, <1>3, <1>4, <1>5, <1>7, <2>1, <2>2, <2>5, <3>1
    <3>2. CASE q # p
      BY <1>1, <1>3, <1>4, <1>5, <1>7, <1>8, <2>2, <2>7, <3>2 DEF InsertsOwn
    <3>3. QED
      BY <3>1, <3>2
  <2>8. ASSUME NEW q \in Parsers, parse'[q].pc \in {"delete", "unblob"}
        PROVE  /\ \A a \in parse'[q].old : a <= numbered'
               /\ \A r \in Parsers : Inserting(r)' => parse'[r].a \notin parse'[q].old
               /\ parse'[q].pc = "unblob" => parse'[q].old \cap Stored = {}
    <3>1. q # p /\ parse'[q] = parse[q]
      BY <1>5, <2>4, <2>8
    <3>2. QED
      BY <1>1, <1>3, <1>4, <1>5, <1>7, <2>3, <2>8, <3>1 DEF InsertsOwn
  <2>9. QED
    BY <1>5, <2>6, <2>7, <2>8 DEF InsertsOwn
<1>10. OneIsWhole'
  <2>1. Past(p)
    BY <1>2 DEF Past
  <2>2. \A k \in Parts : k < n.part \/ (k = n.part /\ n.pc = "enqueue") => k \in Made(p)
    BY <1>4 DEF Made
  <2>3. QED
    BY <1>2, <1>3, <1>4, <1>5, <2>1, <2>2, WholeStays
<1>11. QED
  BY <1>6, <1>9, <1>10 DEF FilesInv

LEMMA InsertRowKeeps == ASSUME FilesInv, NEW p \in Parsers, InsertRow(p) PROVE FilesInv'
<1>1. FilesTypes /\ ClearFits /\ InsertsOwn /\ BlobsKept /\ OneIsWhole /\ PartsCount
  BY DEF FilesInv
<1> DEFINE a == parse[p].a
           k == parse[p].part
<1>2. /\ parse[p] \in ParseType /\ parse[p].pc = "insert" /\ a \in Files /\ a <= numbered /\ ~file[a].here /\ k <= Count
      /\ home \in {"here", "moved"} => a \in blobs
  BY <1>1 DEF FilesTypes, InsertRow, InsertsOwn, Inserting
<1>3. UNCHANGED <<ward, home, blobs, numbered, clear>> /\ PartsThere \subseteq PartsThere \cup {k}
  BY DEF InsertRow
<1>4. CASE home = "gone"
  <2> DEFINE n == [parse[p] EXCEPT !.pc = "failed"]
  <2>1. parse' = [parse EXCEPT ![p] = n] /\ file' = file /\ n \in ParseType /\ n.pc = "failed"
    BY <1>1, <1>2, <1>4 DEF InsertRow, Parses, FilesTypes, ParseType
  <2> HIDE DEF n
  <2>2. OneIsWhole'
    BY <1>3, <1>4 DEF OneIsWhole
  <2>3. QED
    BY <1>3, <2>1, <2>2, ParseMoves
<1>5. CASE home # "gone"
  <2>1. PICK status \in {"pending", "verdict", "error", "disabled"} :
          /\ file' = [file EXCEPT ![a] = [here |-> TRUE, part |-> k, status |-> status]]
          /\ IF status = "pending" THEN Parses(p, "enqueue")
             ELSE parse' = [parse EXCEPT ![p].pc = "part", ![p].part = @ + 1]
    <3>1. ward.scan \in {"queued", "inline", "skip"}
      BY <1>1, FilesAssumption DEF FilesTypes
    <3>2. CASE ward.scan = "queued"
      BY <1>5, <3>2 DEF InsertRow
    <3>3. CASE ward.scan = "inline"
      BY <1>5, <3>3 DEF InsertRow
    <3>4. CASE ward.scan = "skip"
      BY <1>5, <3>4 DEF InsertRow
    <3>5. QED
      BY <3>1, <3>2, <3>3, <3>4
  <2> DEFINE row == [here |-> TRUE, part |-> k, status |-> status]
  <2>2. row \in FileType /\ row.here /\ row.part = k /\ k \in Parts
    BY <1>2, FilesAssumption DEF FileType, Statuses, ParseType, Count
  <2>3. \E n \in ParseType : /\ parse' = [parse EXCEPT ![p] = n] /\ n.old = parse[p].old
                             /\ (n.pc = "enqueue" /\ n.part = k) \/ (n.pc = "part" /\ n.part = k + 1)
    <3>1. CASE status = "pending"
      <4> DEFINE n == [parse[p] EXCEPT !.pc = "enqueue"]
      <4>1. parse' = [parse EXCEPT ![p] = n]
        BY <1>1, <1>2, <2>1, <3>1 DEF Parses, FilesTypes, ParseType
      <4>2. n \in ParseType /\ n.pc = "enqueue" /\ n.part = k /\ n.old = parse[p].old
        BY <1>2 DEF ParseType
      <4>3. QED
        BY <4>1, <4>2
    <3>2. CASE status # "pending"
      <4> DEFINE n == [parse[p] EXCEPT !.pc = "part", !.part = k + 1]
      <4>1. parse' = [parse EXCEPT ![p] = n]
        BY <1>1, <1>2, <2>1, <3>2 DEF FilesTypes, ParseType
      <4>2. k + 1 \in Nat \ {0}
        BY <1>2 DEF ParseType
      <4>3. n \in ParseType /\ n.pc = "part" /\ n.part = k + 1 /\ n.old = parse[p].old
        BY <1>2, <4>2 DEF ParseType
      <4>4. QED
        BY <4>1, <4>3
    <3>3. QED
      BY <3>1, <3>2
  <2>4. PICK n \in ParseType : /\ parse' = [parse EXCEPT ![p] = n] /\ n.old = parse[p].old
                               /\ (n.pc = "enqueue" /\ n.part = k) \/ (n.pc = "part" /\ n.part = k + 1)
    BY <2>3
  <2> HIDE DEF row, a
  <2>5. /\ parse' \in [Parsers -> ParseType] /\ parse'[p] = n /\ \A q \in Parsers : q # p => parse'[q] = parse[q]
        /\ file' \in [Files -> FileType] /\ file'[a] = row /\ \A b \in Files : b # a => file'[b] = file[b]
        /\ Stored' = Stored \cup {a} /\ Stored \subseteq Files
    <3>1. file' = [file EXCEPT ![a] = row]
      BY <2>1 DEF row
    <3>2. /\ file' \in [Files -> FileType] /\ file'[a] = row /\ \A b \in Files : b # a => file'[b] = file[b]
      BY <1>1, <1>2, <2>2, <3>1 DEF FilesTypes, a
    <3>3. Stored' = Stored \cup {a} /\ Stored \subseteq Files
      BY <1>2, <2>2, <3>2 DEF Stored, a
    <3>4. /\ parse' \in [Parsers -> ParseType] /\ parse'[p] = n /\ \A q \in Parsers : q # p => parse'[q] = parse[q]
      BY <1>1, <2>4 DEF FilesTypes
    <3>5. QED
      BY <3>2, <3>3, <3>4
  <2>6. PartsThere' = PartsThere \cup {k}
    <3>1. \A b \in Stored : file'[b].part = file[b].part
      BY <1>2, <2>5 DEF Stored
    <3>2. QED
      BY <2>2, <2>5, <3>1 DEF PartsThere
  <2>7. FilesTypes' /\ ClearFits' /\ BlobsKept'
    BY <1>1, <1>2, <1>3, <2>5 DEF FilesTypes, ClearFits, BlobsKept
  <2>8. PartsCount'
    BY <1>1, <1>2, <2>4, <2>5 DEF PartsCount
  <2>9. \A q \in Parsers : Inserting(q)' <=> Inserting(q) /\ q # p
    BY <2>4, <2>5 DEF Inserting
  <2>10. InsertsOwn'
    <3>1. \A q \in Parsers : Inserting(q) /\ q # p => parse[q].a # a /\ parse[q].a \in Files
      BY <1>1, <1>2 DEF InsertsOwn, Inserting, a
    <3>2. \A q \in Parsers : parse[q].pc = "unblob" => a \notin parse[q].old
      BY <1>1, <1>2 DEF InsertsOwn, Inserting, a
    <3>3. (\A b \in Stored : b <= numbered /\ file[b].part \in Parts)'
      BY <1>1, <1>2, <1>3, <2>2, <2>5 DEF InsertsOwn
    <3>4. ASSUME NEW q \in Parsers, Inserting(q)'
          PROVE  /\ parse'[q].a \in Files /\ parse'[q].a <= numbered' /\ ~file'[parse'[q].a].here
                 /\ parse'[q].part <= Count
                 /\ home' \in {"here", "moved"} => parse'[q].a \in blobs'
                 /\ \A r \in Parsers : r # q /\ Inserting(r)' => parse'[r].a # parse'[q].a
      BY <1>1, <1>3, <2>5, <2>9, <3>1, <3>4 DEF InsertsOwn
    <3>5. ASSUME NEW q \in Parsers, parse'[q].pc \in {"delete", "unblob"}
          PROVE  /\ \A b \in parse'[q].old : b <= numbered'
                 /\ \A r \in Parsers : Inserting(r)' => parse'[r].a \notin parse'[q].old
                 /\ parse'[q].pc = "unblob" => parse'[q].old \cap Stored' = {}
      <4>1. q # p /\ parse'[q] = parse[q]
        BY <2>4, <2>5, <3>5
      <4>2. QED
        BY <1>1, <1>3, <2>5, <2>9, <3>2, <3>5, <4>1 DEF InsertsOwn
    <3>6. QED
      BY <3>3, <3>4, <3>5 DEF InsertsOwn
  <2>11. OneIsWhole'
    <3>1. Past(p) /\ k \in Nat
      BY <1>2 DEF Past, ParseType
    <3>2. \A j \in Parts : j < n.part \/ (j = n.part /\ n.pc = "enqueue") => j \in Made(p) \cup PartsThere'
      BY <2>4, <2>6, <3>1, FilesAssumption DEF Made
    <3>3. QED
      <4>1. home' = home /\ PartsThere \subseteq PartsThere' /\ n.pc \notin {"off", "delete", "failed"} /\ parse[p].pc # "failed"
        BY <1>2, <1>3, <2>4, <2>6
      <4>2. QED
        BY <2>4, <3>1, <3>2, <4>1, WholeStays
  <2>12. QED
    BY <2>7, <2>8, <2>10, <2>11 DEF FilesInv
<1>6. QED
  BY <1>4, <1>5

LEMMA EnqueueScanKeeps == ASSUME FilesInv, NEW p \in Parsers, EnqueueScan(p) PROVE FilesInv'
<1> DEFINE n == [parse[p] EXCEPT !.pc = "part", !.part = parse[p].part + 1]
<1>1. parse[p] \in ParseType /\ parse[p].pc = "enqueue"
  BY DEF FilesInv, FilesTypes, EnqueueScan
<1>2. parse' = [parse EXCEPT ![p] = n] /\ UNCHANGED <<ward, home, file, blobs, numbered, clear>>
  BY <1>1 DEF FilesInv, FilesTypes, EnqueueScan, ParseType
<1>3. n \in ParseType /\ n.pc = "part" /\ n.part = parse[p].part + 1
  <2>1. parse[p].part + 1 \in Nat \ {0}
    BY <1>1 DEF ParseType
  <2>2. QED
    BY <1>1, <2>1 DEF ParseType
<1> HIDE DEF n
<1>4. PartsThere' = PartsThere /\ Past(p)
  BY <1>1, <1>2 DEF PartsThere, Stored, Past
<1>5. \A k \in Parts : k < n.part => k \in Made(p)
  BY <1>1, <1>3, FilesAssumption DEF Made, ParseType
<1>6. OneIsWhole'
  BY <1>1, <1>2, <1>3, <1>4, <1>5, WholeStays
<1>7. QED
  BY <1>2, <1>3, <1>6, ParseMoves

LEMMA ParseStops == ASSUME FilesInv, NEW p \in Parsers, ParseEnds(p) \/ ParseFails(p) PROVE FilesInv'
<1> DEFINE pc == IF ParseEnds(p) THEN "done" ELSE "failed"
           n == [parse[p] EXCEPT !.pc = pc]
<1>1. /\ parse[p] \in ParseType /\ parse[p].pc \notin {"off", "done", "failed"}
      /\ ParseEnds(p) => parse[p].pc = "part" /\ parse[p].part > Count
  BY DEF FilesInv, FilesTypes, ParseEnds, ParseFails
<1>2. parse' = [parse EXCEPT ![p] = n] /\ UNCHANGED <<ward, home, file, blobs, numbered, clear>>
  BY <1>1 DEF FilesInv, FilesTypes, ParseEnds, ParseFails, Parses, ParseType
<1>3. pc \in {"done", "failed"} /\ (pc = "done" => parse[p].pc = "part" /\ parse[p].part > Count)
  BY <1>1
<1> HIDE DEF pc
<1>4. n \in ParseType /\ n.pc = pc /\ n.part = parse[p].part
  BY <1>1, <1>3 DEF ParseType
<1> HIDE DEF n
<1>5. PartsThere' = PartsThere /\ (pc = "done" => Past(p))
  BY <1>2, <1>3 DEF PartsThere, Stored, Past
<1>6. \A k \in Parts : k < n.part => k \in Made(p)
  BY <1>4 DEF Made
<1>7. OneIsWhole'
  BY <1>1, <1>2, <1>3, <1>4, <1>5, <1>6, WholeStays
<1>8. QED
  BY <1>2, <1>3, <1>4, <1>7, ParseMoves

\* The reconcile and the move.
LEMMA ClearKeeps ==
  ASSUME FilesInv, ClearReads \/ ClearDeletes \/ ClearBlobs \/ MoveRow
  PROVE  FilesInv'
<1>1. FilesTypes /\ ClearFits /\ InsertsOwn /\ BlobsKept /\ OneIsWhole /\ PartsCount
  BY DEF FilesInv
<1>2. \A p \in Parsers : (Inserting(p)' <=> Inserting(p)) /\ (Past(p)' <=> Past(p)) /\ Made(p)' = Made(p)
  BY DEF ClearReads, ClearDeletes, ClearBlobs, MoveRow, Inserting, Past, Made
<1>3. PartsCount' /\ UNCHANGED <<ward, numbered, parse>>
  BY <1>1 DEF ClearReads, ClearDeletes, ClearBlobs, MoveRow, PartsCount
<1>4. CASE file' = file
  <2>1. Stored' = Stored /\ PartsThere' = PartsThere /\ Stored \subseteq Files
    BY <1>4 DEF Stored, PartsThere
  <2>2. FilesTypes' /\ ClearFits'
    <3>1. CASE ClearReads
      BY <1>1, <1>3, <1>4, <2>1, <3>1 DEF ClearReads, FilesTypes, ClearFits
    <3>2. CASE ClearDeletes
      <4>1. clear'.pc = "unblob" /\ clear' \in [pc : {"off", "delete", "unblob", "done"}, keys : SUBSET (Files \cup {Raw})]
        BY <1>1, <3>2 DEF ClearDeletes, FilesTypes
      <4>2. QED
        BY <1>1, <1>3, <1>4, <3>2, <4>1 DEF ClearDeletes, FilesTypes, ClearFits
    <3>3. CASE ClearBlobs
      BY <1>1, <1>3, <1>4, <3>3 DEF ClearBlobs, FilesTypes, ClearFits
    <3>4. CASE MoveRow
      BY <1>1, <1>3, <1>4, <3>4 DEF MoveRow, FilesTypes, ClearFits
    <3>5. QED
      BY <3>1, <3>2, <3>3, <3>4
  <2>3. /\ home' \in {"here", "moved"} => home \in {"here", "moved"} /\ blobs' = blobs
        /\ home' # "gone" => home # "gone"
    BY <1>1 DEF ClearReads, ClearDeletes, ClearBlobs, MoveRow, ClearFits
  <2>4. BlobsKept' /\ InsertsOwn'
    BY <1>1, <1>2, <1>3, <1>4, <2>1, <2>3 DEF BlobsKept, InsertsOwn
  <2>5. OneIsWhole'
    BY <1>1, <1>2, <1>3, <2>1, <2>3 DEF OneIsWhole
  <2>6. QED
    BY <1>3, <2>2, <2>4, <2>5 DEF FilesInv
<1>5. CASE file' # file
  <2>1. file' = [a \in Files |-> NoFile] /\ home = "here" /\ home' = "gone" /\ clear'.pc = "unblob" /\ blobs' = blobs
        /\ clear' \in [pc : {"off", "delete", "unblob", "done"}, keys : SUBSET (Files \cup {Raw})]
    BY <1>1, <1>5 DEF ClearReads, ClearDeletes, ClearBlobs, MoveRow, FilesTypes
  <2>2. file' \in [Files -> FileType] /\ Stored' = {} /\ \A a \in Files : ~file'[a].here
    <3>1. NoFile \in FileType /\ ~NoFile.here
      BY DEF NoFile, FileType, Statuses
    <3>2. QED
      BY <2>1, <3>1 DEF Stored
  <2>3. FilesTypes' /\ ClearFits' /\ BlobsKept' /\ OneIsWhole'
    BY <1>1, <1>3, <2>1, <2>2 DEF FilesTypes, ClearFits, BlobsKept, OneIsWhole
  <2>4. InsertsOwn'
    BY <1>1, <1>2, <1>3, <2>1, <2>2 DEF InsertsOwn
  <2>5. QED
    BY <1>3, <2>3, <2>4 DEF FilesInv
<1>6. QED
  BY <1>4, <1>5

LEMMA FilesKeep == FilesInv /\ [FilesNext]_fileVars => FilesInv'
<1> SUFFICES ASSUME FilesInv, [FilesNext]_fileVars PROVE FilesInv'
  OBVIOUS
<1>1. ASSUME NEW a \in Files, ScanStep(a) \/ ScanThrows(a) PROVE FilesInv'
  <2>1. \/ file' = file \/ Sets(a, "pending") \/ Sets(a, "verdict") \/ Sets(a, "error") \/ Sets(a, "missing")
    BY <1>1 DEF ScanStep, ScanBegins, ScanReads, ScanResets, ScanFetches, ScanWrites, ScanOver, ScanThrows, Scanless
  <2>2. UNCHANGED <<ward, home, blobs, numbered, parse, clear>>
    BY <1>1 DEF ScanStep, ScanBegins, ScanReads, ScanResets, ScanFetches, ScanWrites, ScanOver, ScanThrows
  <2>3. {"pending", "verdict", "error", "missing"} \subseteq Statuses
    BY DEF Statuses
  <2>4. QED
    BY <2>1, <2>2, <2>3, StatusMoves
<1>2. ASSUME NEW q \in Askers, AskReads(q) \/ AskSets(q) \/ AskEnqueues(q) \/ AskFails(q) PROVE FilesInv'
  <2>1. file' = file \/ Sets(ask[q].a, "pending") \/ Sets(ask[q].a, "disabled")
    BY <1>2 DEF AskReads, AskSets, AskEnqueues, AskFails
  <2>2. UNCHANGED <<ward, home, blobs, numbered, parse, clear>>
    BY <1>2 DEF AskReads, AskSets, AskEnqueues, AskFails
  <2>3. {"pending", "disabled"} \subseteq Statuses
    BY DEF Statuses
  <2>4. QED
    BY <2>1, <2>2, <2>3, StatusMoves
<1>3. CASE UNCHANGED fileVars
  <2>1. UNCHANGED <<ward, home, file, blobs, numbered, parse, clear>> /\ "none" \in Statuses
    BY <1>3 DEF fileVars, Statuses
  <2>2. QED
    BY <2>1, StatusMoves
<1>4. QED
  BY <1>1, <1>2, <1>3, ParseBeginsKeeps, DeleteRowsKeeps, DeleteBlobsKeeps, PutBlobKeeps, InsertRowKeeps,
     EnqueueScanKeeps, ParseStops, ClearKeeps DEF FilesNext

\* A message that is there has its raw message and the blob of every row, and when parses that
\* crossed have all ended well every part has a row: for any number of parses, scans and requests.
THEOREM AttachmentsStay == FilesSpec => []AttachmentsKept
<1>1. FilesInv => AttachmentsKept
  <2> SUFFICES ASSUME FilesInv PROVE AttachmentsKept
    OBVIOUS
  <2>1. ASSUME home # "gone", NEW p \in Parsers, parse[p].pc = "done", \A q \in Parsers : parse[q].pc \in {"off", "done"}
        PROVE  PartsThere = Parts
    <3>1. \A q \in Parsers : parse[q].pc # "failed"
      BY <2>1
    <3>2. PICK q \in Parsers : Past(q) /\ Made(q) \subseteq PartsThere
      BY <2>1, <3>1 DEF FilesInv, OneIsWhole, Past
    <3>3. parse[q].pc = "done" /\ parse[q].part > Count /\ parse[q].part \in Nat
      BY <2>1, <3>2 DEF Past, FilesInv, PartsCount, FilesTypes, ParseType
    <3>4. Parts \subseteq Made(q)
      BY <3>3, FilesAssumption DEF Made, Count
    <3>5. PartsThere \subseteq Parts
      BY DEF FilesInv, InsertsOwn, PartsThere
    <3>6. QED
      BY <3>2, <3>4, <3>5
  <2>2. QED
    BY <2>1 DEF AttachmentsKept, PartsKept, PartsThere, FilesInv
<1>2. FilesSpec => []FilesInv
  BY FilesStart, FilesKeep, PTL DEF FilesSpec
<1>3. QED
  BY <1>1, <1>2, PTL

-----------------------------------------------------------------------------
(* ServerCaches. *)

Lookups == {"filters", "suggestions"}
Entry(e) == e = [key |-> e.key, value |-> e.value, age |-> e.age, place |-> e.place]
Owns(e) == e.key[1] \in People
\* An entry of one of the search caches is no older than the last clear of its user's.
EntryFits(e) == Entry(e) /\ Owns(e) /\ e.value \in Nat /\ e.value >= told[e.key[1]]
\* Neither is what a lookup is about to put in, and it puts it in under its user.
LookupFits(a) ==
  /\ a = [op |-> a.op, user |-> a.user, key |-> a.key, at |-> a.at, got |-> a.got]
  /\ a.op \in Lookups \cup {"act"} => a.user \in People
  /\ a.op \in Lookups =>
       /\ a.key[1] = a.user /\ (a.op = "filters" => a.key = <<a.user>>)
       /\ a.at = "keep" => a.got \in Nat /\ a.got >= told[a.user]
CacheTypes ==
  /\ facts \in [People -> Nat] /\ told \in [People -> Nat]
  /\ kept = [filters |-> kept.filters, suggestions |-> kept.suggestions, kinds |-> kept.kinds]
  /\ asking = [t \in Threads |-> asking[t]]
CacheInv ==
  /\ CacheTypes
  /\ \A u \in People : told[u] <= facts[u]
  /\ \A e \in kept.filters : EntryFits(e) /\ e.key = <<e.key[1]>>
  /\ \A e \in kept.suggestions : EntryFits(e)
  /\ \A t \in Threads : LookupFits(asking[t])
-----------------------------------------------------------------------------
\* Closing up changes places only.
LEMMA RankedKeeps ==
  ASSUME NEW E, \A e \in E : Entry(e)
  PROVE  \A e \in Ranked(E) : Entry(e) /\ \E f \in E : e.key = f.key /\ e.value = f.value
<1> SUFFICES ASSUME NEW e \in Ranked(E) PROVE Entry(e) /\ \E f \in E : e.key = f.key /\ e.value = f.value
  OBVIOUS
<1>1. PICK f \in E : e = [f EXCEPT !.place = Cardinality({g \in E : g.place <= f.place})]
  BY DEF Ranked
<1>2. PICK n : n = Cardinality({g \in E : g.place <= f.place})
  OBVIOUS
<1>3. f = [key |-> f.key, value |-> f.value, age |-> f.age, place |-> f.place]
  BY DEF Entry
<1>4. e = [f EXCEPT !.place = n]
  BY <1>1, <1>2
<1>5. e = [key |-> f.key, value |-> f.value, age |-> f.age, place |-> n]
  BY <1>3, <1>4
<1>6. QED
  BY <1>5 DEF Entry

\* A cache an entry is put in holds this one and others that it held.
LEMMA PutKeeps ==
  ASSUME NEW cache, NEW key, NEW value, NEW most, \A e \in cache : Entry(e)
  PROVE  \A e \in PutIn(cache, key, value, most) :
           /\ Entry(e)
           /\ \/ e.key = key /\ e.value = value
              \/ \E f \in cache : e.key = f.key /\ e.value = f.value
<1> DEFINE others == Besides(cache, key)
           one == [key |-> key, value |-> value, age |-> 0, place |-> Cardinality(others) + 1]
           new == others \cup {one}
           Meant(e) == Entry(e) /\ ((e.key = key /\ e.value = value) \/ \E f \in cache : e.key = f.key /\ e.value = f.value)
<1>1. \A e \in others : Meant(e)
  BY RankedKeeps, \A e \in {e \in cache : e.key # key} : Entry(e) DEF Besides
<1>2. Meant(one)
  BY DEF Entry
<1> HIDE DEF others, one
<1>3. \A e \in new : Meant(e)
  BY <1>1, <1>2
<1>4. \A e \in {e \in new : e.place # 1} : Entry(e)
  BY <1>3
<1>5. \A e \in Ranked({e \in new : e.place # 1}) : Meant(e)
  <2>1. TAKE e \in Ranked({e \in new : e.place # 1})
  <2>2. PICK f \in {g \in new : g.place # 1} : e.key = f.key /\ e.value = f.value
    BY <1>4, RankedKeeps
  <2>3. Entry(e)
    BY <1>4, RankedKeeps
  <2>4. Meant(f)
    BY <1>3
  <2>5. QED
    BY <2>2, <2>3, <2>4
<1>6. PutIn(cache, key, value, most) = IF Cardinality(new) > most THEN Ranked({e \in new : e.place # 1}) ELSE new
  BY DEF PutIn, others, one
<1>7. QED
  BY <1>3, <1>5, <1>6

\* A request moves on, and neither the search caches nor the clears change.
LEMMA RequestMoves ==
  ASSUME CacheInv, NEW t \in Threads, NEW a, asking' = [asking EXCEPT ![t] = a], LookupFits(a),
         UNCHANGED <<facts, told>>, \E kinds : kept' = [kept EXCEPT !.kinds = kinds]
  PROVE  CacheInv'
<1>1. CacheTypes'
  BY DEF CacheInv, CacheTypes
<1>2. kept'.filters = kept.filters /\ kept'.suggestions = kept.suggestions
  BY DEF CacheInv, CacheTypes
<1>3. ASSUME NEW s \in Threads PROVE LookupFits(asking'[s])
  BY DEF CacheInv, CacheTypes
<1>4. QED
  BY <1>1, <1>2, <1>3 DEF CacheInv, EntryFits, LookupFits

LEMMA NobodyAsks == LookupFits(NoAsking) /\ NoAsking.op \notin Lookups \cup {"act"}
BY DEF NoAsking, Asking, LookupFits, Lookups

\* A request that is no lookup.
LEMMA NoLookup ==
  ASSUME NEW a, NEW op, NEW u, NEW key, NEW at, NEW got, op \notin Lookups, op = "act" => u \in People,
         a = [op |-> op, user |-> u, key |-> key, at |-> at, got |-> got]
  PROVE  LookupFits(a)
BY DEF LookupFits, Lookups

LEMMA CachesStart == CacheInit => CacheInv
BY NobodyAsks DEF CacheInit, CacheInv, CacheTypes

LEMMA CachesStay == CacheInv /\ UNCHANGED cacheVars => CacheInv'
BY DEF CacheInv, CacheTypes, EntryFits, LookupFits, Entry, Owns, cacheVars

LEMMA FactsGrow ==
  ASSUME CacheInv, NEW u \in People, Happens(u), UNCHANGED <<kept, asking, told>>
  PROVE  CacheInv'
<1>1. facts' \in [People -> Nat] /\ \A v \in People : facts'[v] >= facts[v]
  BY DEF CacheInv, CacheTypes, Happens
<1>2. CacheTypes' /\ \A v \in People : told'[v] <= facts'[v]
  BY <1>1 DEF CacheInv, CacheTypes
<1>3. QED
  BY <1>2 DEF CacheInv, EntryFits, LookupFits, Entry, Owns

\* A request begins.
LEMMA RequestBegins ==
  ASSUME CacheInv, NEW t \in Threads, CacheStarts(t)
  PROVE  CacheInv'
<1> DEFINE Begun(op, u, key, at) == [op |-> op, user |-> u, key |-> key, at |-> at, got |-> "none"]
<1>1. ASSUME NEW op, NEW u, NEW key, NEW at, Serves(t, op, u, key, at)
      PROVE  asking' = [asking EXCEPT ![t] = Begun(op, u, key, at)]
  BY <1>1 DEF Serves, Asking
<1>2. \E kinds : kept = [kept EXCEPT !.kinds = kinds]
  BY DEF CacheInv, CacheTypes
<1>3. ASSUME NEW u \in People, Searches(t, u, "filters", <<u>>) PROVE CacheInv'
  <2>1. asking' = [asking EXCEPT ![t] = Begun("filters", u, <<u>>, "query")] /\ UNCHANGED <<facts, told, kept>>
    BY <1>1, <1>3 DEF Searches
  <2>2. LookupFits(Begun("filters", u, <<u>>, "query"))
    BY DEF LookupFits, Lookups
  <2>3. QED
    BY <1>2, <2>1, <2>2, RequestMoves
<1>4. ASSUME NEW u \in People, NEW q, Searches(t, u, "suggestions", <<u, q>>) PROVE CacheInv'
  <2>1. asking' = [asking EXCEPT ![t] = Begun("suggestions", u, <<u, q>>, "query")] /\ UNCHANGED <<facts, told, kept>>
    BY <1>1, <1>4 DEF Searches
  <2>2. LookupFits(Begun("suggestions", u, <<u, q>>, "query"))
    BY DEF LookupFits, Lookups
  <2>3. QED
    BY <1>2, <2>1, <2>2, RequestMoves
<1>5. ASSUME NEW u \in People, Acts(t, u) PROVE CacheInv'
  <2>1. asking' = [asking EXCEPT ![t] = Begun("act", u, <<u>>, "write")] /\ UNCHANGED <<facts, told, kept>>
    BY <1>1, <1>5 DEF Acts
  <2>2. LookupFits(Begun("act", u, <<u>>, "write"))
    BY DEF LookupFits, Lookups
  <2>3. QED
    BY <1>2, <2>1, <2>2, RequestMoves
<1>6. ASSUME NEW u \in People, NEW b \in Connectors, Patches(t, u, b) \/ Removes(t, u, b) PROVE CacheInv'
  <2>1. PICK op \in {"patch", "remove"} : \E at : Serves(t, op, u, <<u, b>>, at)
    BY <1>6 DEF Patches, Removes
  <2>2. PICK at : asking' = [asking EXCEPT ![t] = Begun(op, u, <<u, b>>, at)]
    BY <1>1, <2>1
  <2>3. LookupFits(Begun(op, u, <<u, b>>, at))
    BY DEF LookupFits, Lookups
  <2>4. UNCHANGED <<facts, told, kept>>
    BY <1>6 DEF Patches, Removes
  <2>5. QED
    BY <1>2, <2>2, <2>3, <2>4, RequestMoves
<1>7. ASSUME NEW u \in People, NEW b \in Connectors, NEW op \in {"open", "list"}, Hits(t, op, u, b) PROVE CacheInv'
  BY <1>7 DEF Hits, CacheInv, CacheTypes, EntryFits, LookupFits, Entry, Owns
<1>8. ASSUME NEW u \in People, NEW b \in Connectors, NEW op \in {"open", "list"}, Misses(t, op, u, b) PROVE CacheInv'
  <2>1. asking' = [asking EXCEPT ![t] = Begun(op, u, <<u, b>>, "query")] /\ UNCHANGED <<facts, told>>
    BY <1>1, <1>8 DEF Misses
  <2>2. LookupFits(Begun(op, u, <<u, b>>, "query"))
    BY DEF LookupFits, Lookups
  <2>3. \E kinds : kept' = [kept EXCEPT !.kinds = kinds]
    BY <1>8 DEF Misses, ClearsKind
  <2>4. QED
    BY <2>1, <2>2, <2>3, RequestMoves
<1>9. ASSUME NEW b \in Connectors, NEW kind \in Kinds, Creates(t, b, kind) PROVE CacheInv'
  <2> DEFINE u == OwnerOf[b]
             a == [op |-> "create", user |-> u, key |-> <<u, b>>, at |-> "keep", got |-> kind]
  <2>1. asking' = [asking EXCEPT ![t] = a] /\ UNCHANGED <<facts, told, kept>>
    BY <1>9 DEF Creates, Asking
  <2>2. LookupFits(a)
    BY DEF LookupFits, Lookups
  <2>3. QED
    BY <1>2, <2>1, <2>2, RequestMoves
<1>10. QED
  BY <1>3, <1>4, <1>5, <1>6, <1>7, <1>8, <1>9 DEF CacheStarts

\* A lookup puts in what it has counted.
LEMMA LookupKeeps ==
  ASSUME CacheInv, NEW t \in Threads, Keeps(t)
  PROVE  CacheInv'
<1> DEFINE a == asking[t]
<1>1. /\ a.op \in Lookups /\ a.at = "keep" /\ LookupFits(a)
      /\ kept' = [kept EXCEPT ![a.op] = PutIn(kept[a.op], a.key, a.got, CacheMax[a.op])]
      /\ asking' = [asking EXCEPT ![t] = NoAsking] /\ UNCHANGED <<facts, told>>
  BY DEF Keeps, Answers, CacheInv, Lookups
<1>2. a.user \in People /\ a.key[1] = a.user /\ a.got \in Nat /\ a.got >= told[a.user] /\ (a.op = "filters" => a.key = <<a.key[1]>>)
  BY <1>1 DEF LookupFits
<1> HIDE DEF a
<1>3. \A e \in kept[a.op] : EntryFits(e) /\ Entry(e)
  BY <1>1 DEF CacheInv, Lookups, EntryFits
<1> DEFINE cache == PutIn(kept[a.op], a.key, a.got, CacheMax[a.op])
<1>4. ASSUME NEW e \in cache PROVE EntryFits(e) /\ (a.op = "filters" => e.key = <<e.key[1]>>)
  <2>1. Entry(e) /\ ((e.key = a.key /\ e.value = a.got) \/ \E f \in kept[a.op] : e.key = f.key /\ e.value = f.value)
    BY <1>3, PutKeeps
  <2>2. CASE e.key = a.key /\ e.value = a.got
    BY <1>2, <2>1, <2>2 DEF EntryFits, Owns
  <2>3. ASSUME NEW f \in kept[a.op], e.key = f.key /\ e.value = f.value PROVE EntryFits(e) /\ (a.op = "filters" => e.key = <<e.key[1]>>)
    <3>1. EntryFits(f) /\ (a.op = "filters" => f.key = <<f.key[1]>>)
      BY <1>3 DEF CacheInv
    <3>2. QED
      BY <2>1, <2>3, <3>1 DEF EntryFits, Owns
  <2>4. QED
    BY <2>1, <2>2, <2>3
<1> HIDE DEF cache
<1>5. CacheTypes'
  BY <1>1 DEF CacheInv, CacheTypes, Lookups
<1>6. ASSUME NEW name \in Lookups PROVE kept'[name] = IF name = a.op THEN cache ELSE kept[name]
  BY <1>1 DEF cache, CacheInv, CacheTypes, Lookups
<1>7. \A s \in Threads : asking'[s] = IF s = t THEN NoAsking ELSE asking[s]
  BY <1>1 DEF CacheInv, CacheTypes
<1>8. \A s \in Threads : LookupFits(asking[s])'
  BY <1>1, <1>7, NobodyAsks DEF CacheInv, LookupFits
<1>9. \A e \in kept'.filters : EntryFits(e) /\ e.key = <<e.key[1]>>
  BY <1>4, <1>6 DEF CacheInv, Lookups
<1>10. \A e \in kept'.suggestions : EntryFits(e)
  BY <1>4, <1>6 DEF CacheInv, Lookups
<1>11. QED
  BY <1>1, <1>5, <1>8, <1>9, <1>10 DEF CacheInv, EntryFits

\* The user's entries go, and unless one of the user's lookups is under way none comes back.
LEMMA ClearStays ==
  ASSUME CacheInv, NEW t \in Threads, Clears(t)
  PROVE  CacheInv'
<1> DEFINE u == asking[t].user
<1>1. /\ WaitsAt(t, "act", "write") /\ kept' = Cleared(u) /\ asking' = [asking EXCEPT ![t] = NoAsking]
      /\ told' = IF Searching(u) THEN told ELSE [told EXCEPT ![u] = facts[u]]
      /\ UNCHANGED facts
  BY DEF Clears, Answers
<1>2. u \in People
  BY <1>1 DEF WaitsAt, CacheInv, LookupFits
<1> HIDE DEF u
<1>3. /\ kept'.filters = Besides(kept.filters, <<u>>) /\ kept'.suggestions = Ranked({e \in kept.suggestions : e.key[1] # u})
      /\ kept' = [filters |-> kept'.filters, suggestions |-> kept'.suggestions, kinds |-> kept'.kinds]
  BY <1>1 DEF Cleared, CacheInv, CacheTypes
<1>4. told' \in [People -> Nat] /\ \A v \in People : told'[v] <= facts[v] /\ (v # u \/ Searching(u) => told'[v] = told[v])
  BY <1>1, <1>2 DEF CacheInv, CacheTypes
<1>5. CacheTypes'
  BY <1>1, <1>3, <1>4 DEF CacheInv, CacheTypes
<1>6. ASSUME NEW e \in kept'.filters PROVE EntryFits(e)' /\ e.key = <<e.key[1]>>
  <2>1. \A f \in {g \in kept.filters : g.key # <<u>>} : Entry(f)
    BY DEF CacheInv, EntryFits
  <2>2. Entry(e) /\ \E f \in {g \in kept.filters : g.key # <<u>>} : e.key = f.key /\ e.value = f.value
    BY <1>3, <2>1, RankedKeeps DEF Besides
  <2>3. PICK f \in kept.filters : f.key # <<u>> /\ e.key = f.key /\ e.value = f.value
    BY <2>2
  <2>4. EntryFits(f) /\ f.key = <<f.key[1]>> /\ f.key[1] # u
    BY <2>3 DEF CacheInv
  <2>5. QED
    BY <1>4, <2>2, <2>3, <2>4 DEF EntryFits, Owns, Entry
<1>7. ASSUME NEW e \in kept'.suggestions PROVE EntryFits(e)'
  <2>1. \A f \in {g \in kept.suggestions : g.key[1] # u} : Entry(f)
    BY DEF CacheInv, EntryFits
  <2>2. Entry(e) /\ \E f \in {g \in kept.suggestions : g.key[1] # u} : e.key = f.key /\ e.value = f.value
    BY <1>3, <2>1, RankedKeeps
  <2>3. PICK f \in kept.suggestions : f.key[1] # u /\ e.key = f.key /\ e.value = f.value
    BY <2>2
  <2>4. EntryFits(f)
    BY DEF CacheInv
  <2>5. QED
    BY <1>4, <2>2, <2>3, <2>4 DEF EntryFits, Owns, Entry
<1>8. ASSUME NEW s \in Threads PROVE LookupFits(asking[s])'
  <2>1. asking'[s] = IF s = t THEN NoAsking ELSE asking[s]
    BY <1>1 DEF CacheInv, CacheTypes
  <2>2. CASE s = t
    BY <2>1, <2>2, NobodyAsks DEF LookupFits
  <2>3. CASE s # t
    <3>1. LookupFits(asking[s])
      BY DEF CacheInv
    <3>2. asking[s].op \in Lookups => asking[s].user # u \/ Searching(u)
      BY DEF Searching, Lookups
    <3>3. QED
      BY <1>4, <2>1, <2>3, <3>1, <3>2 DEF LookupFits
  <2>4. QED
    BY <2>2, <2>3
<1>9. QED
  BY <1>1, <1>4, <1>5, <1>6, <1>7, <1>8 DEF CacheInv

\* A request goes on.
LEMMA RequestGoesOn ==
  ASSUME CacheInv, NEW t \in Threads, CacheStep(t)
  PROVE  CacheInv'
<1> DEFINE a == asking[t]
           Moved(at, got) == [op |-> a.op, user |-> a.user, key |-> a.key, at |-> at, got |-> got]
<1>1. LookupFits(a) /\ a = Moved(a.at, a.got)
  BY DEF CacheInv, LookupFits
<1>2. /\ \A pc : Proceeds(t, pc) => asking' = [asking EXCEPT ![t] = Moved(pc, a.got)]
      /\ \A pc, value : Reads(t, pc, value) => asking' = [asking EXCEPT ![t] = Moved(pc, value)]
      /\ Answers(t) => asking' = [asking EXCEPT ![t] = NoAsking]
  <2>1. t \in DOMAIN asking
    BY DEF CacheInv, CacheTypes
  <2>2. ASSUME NEW pc, Proceeds(t, pc) PROVE asking' = [asking EXCEPT ![t] = Moved(pc, a.got)]
    <3>1. [asking[t] EXCEPT !.at = pc] = Moved(pc, a.got)
      BY <1>1
    <3>2. QED
      BY <2>1, <2>2, <3>1 DEF Proceeds
  <2>3. ASSUME NEW pc, NEW value, Reads(t, pc, value) PROVE asking' = [asking EXCEPT ![t] = Moved(pc, value)]
    <3>1. PICK r : r = asking[t] /\ r = [op |-> r.op, user |-> r.user, key |-> r.key, at |-> r.at, got |-> r.got]
      BY <1>1
    <3>2. PICK q : q = [r EXCEPT !.at = pc]
      OBVIOUS
    <3>3. q = [op |-> r.op, user |-> r.user, key |-> r.key, at |-> pc, got |-> r.got]
      BY <3>1, <3>2
    <3>4. [q EXCEPT !.got = value] = [op |-> r.op, user |-> r.user, key |-> r.key, at |-> pc, got |-> value]
      BY <3>3
    <3>5. [r EXCEPT !.at = pc, !.got = value] = [q EXCEPT !.got = value]
      BY <3>2
    <3>6. QED
      BY <2>1, <2>3, <3>1, <3>4, <3>5 DEF Reads
  <2>4. QED
    BY <2>2, <2>3 DEF Answers
<1>3. \E kinds : kept = [kept EXCEPT !.kinds = kinds]
  BY DEF CacheInv, CacheTypes
<1>4. ASSUME UNCHANGED <<facts, told>>, \E kinds : kept' = [kept EXCEPT !.kinds = kinds], Answers(t) PROVE CacheInv'
  BY <1>2, <1>4, NobodyAsks, RequestMoves
<1>5. ASSUME UNCHANGED <<facts, told>>, \E kinds : kept' = [kept EXCEPT !.kinds = kinds], a.op \notin Lookups \cup {"act"},
             (\E pc : Proceeds(t, pc)) \/ \E pc, value : Reads(t, pc, value)
      PROVE CacheInv'
  <2>1. PICK at, got : asking' = [asking EXCEPT ![t] = Moved(at, got)]
    BY <1>2, <1>5
  <2>2. LookupFits(Moved(at, got))
    BY <1>5 DEF LookupFits
  <2>3. QED
    BY <1>5, <2>1, <2>2, RequestMoves
<1>6. ASSUME Tallies(t) PROVE CacheInv'
  <2>1. /\ a.op \in Lookups /\ asking' = [asking EXCEPT ![t] = Moved("keep", facts[a.user])] /\ UNCHANGED <<facts, kept, told>>
    BY <1>2, <1>6 DEF Tallies, Lookups
  <2>2. LookupFits(Moved("keep", facts[a.user]))
    <3>1. a.user \in People /\ facts[a.user] \in Nat /\ facts[a.user] >= told[a.user]
      BY <1>1, <2>1 DEF LookupFits, CacheInv, CacheTypes
    <3>2. QED
      BY <1>1, <2>1, <3>1 DEF LookupFits
  <2>3. QED
    BY <1>3, <2>1, <2>2, RequestMoves
<1>7. ASSUME Fails(t) PROVE CacheInv'
  BY <1>3, <1>4, <1>7 DEF Fails
<1>8. ASSUME Finds(t) PROVE CacheInv'
  <2>1. a.op \in {"open", "list"} /\ UNCHANGED <<facts, told, kept>> /\ (Answers(t) \/ \E value : Reads(t, "keep", value))
    BY <1>8 DEF Finds
  <2>2. QED
    BY <1>3, <1>4, <1>5, <2>1 DEF Lookups
<1>9. ASSUME Remembers(t) \/ ConnectorKept(t) \/ Forgets(t) PROVE CacheInv'
  <2>1. Answers(t) /\ UNCHANGED <<facts, told>> /\ \E key, kind : SetsKind(key, kind) \/ ClearsKind(key)
    BY <1>9 DEF Remembers, ConnectorKept, Forgets
  <2>2. QED
    BY <1>4, <2>1 DEF SetsKind, ClearsKind
<1>10. ASSUME NEW kind \in Kinds, PatchWrites(t, kind) PROVE CacheInv'
  <2>1. a.op = "patch" /\ UNCHANGED <<facts, told, kept>> /\ Proceeds(t, "query")
    BY <1>10 DEF PatchWrites, WaitsAt
  <2>2. QED
    BY <1>3, <1>5, <2>1 DEF Lookups
<1>11. ASSUME PatchReads(t) PROVE CacheInv'
  <2>1. a.op = "patch" /\ UNCHANGED <<facts, told, kept>> /\ \E value : Reads(t, "keep", value)
    BY <1>11 DEF PatchReads, WaitsAt
  <2>2. QED
    BY <1>3, <1>5, <2>1 DEF Lookups
<1>12. QED
  BY <1>6, <1>7, <1>8, <1>9, <1>10, <1>11, LookupKeeps, ClearStays DEF CacheStep

LEMMA CachesStep == CacheInv /\ [CacheNext]_cacheVars => CacheInv'
<1> SUFFICES ASSUME CacheInv, [CacheNext]_cacheVars PROVE CacheInv'
  OBVIOUS
<1>1. ASSUME NEW t \in Threads, Writes(t) PROVE CacheInv'
  <2>1. asking[t].user \in People /\ Happens(asking[t].user) /\ UNCHANGED <<kept, asking, told>>
    BY <1>1 DEF Writes, WaitsAt, CacheInv, LookupFits
  <2>2. PICK u \in People : Happens(u)
    BY <2>1
  <2>3. QED
    BY <2>1, <2>2, FactsGrow
<1>2. ASSUME NEW u \in People, SyncFinds(u) PROVE CacheInv'
  BY <1>2, FactsGrow DEF SyncFinds
<1>3. ASSUME CacheTick PROVE CacheInv'
  <2>1. kept'.filters = kept.filters /\ kept'.suggestions = kept.suggestions /\ UNCHANGED <<facts, asking, told>>
    BY <1>3 DEF CacheTick, CacheInv, CacheTypes
  <2>2. CacheTypes'
    BY <1>3, <2>1 DEF CacheTick, CacheInv, CacheTypes
  <2>3. QED
    BY <2>1, <2>2 DEF CacheInv, EntryFits, LookupFits, Entry, Owns
<1>4. QED
  BY <1>1, <1>2, <1>3, CachesStay, RequestBegins, RequestGoesOn DEF CacheNext

\* What a user changed stays shown after the caches were cleared for it, unless a lookup
\* was under way (helpers.ts, clearSearchCachesForUser).
THEOREM ClearsStick == CacheSpec => []ClearSticks
<1>1. CacheInv => ClearSticks
  BY DEF CacheInv, ClearSticks, EntryFits, LookupFits, Lookups
<1>2. QED
  BY <1>1, CachesStart, CachesStep, PTL DEF CacheSpec

-----------------------------------------------------------------------------
(* Threading. *)

\* A row and the rows it answers or is a copy of: what was known of them is known still.
Joins(r, t) ==
  /\ Parents(r) # {} /\ Parents(r) \subseteq since[r] /\ Copies(r) = {} => \E q \in Parents(r) : thread[q] = t
  /\ Copies(r) # {} /\ Copies(r) \subseteq since[r] => \E q \in Copies(r) : thread[q] = t
NoCopyKnown(r) == Copies(r) = {} \/ ~(Copies(r) \subseteq since[r])
NoParentKnown(r) == Parents(r) = {} \/ ~(Parents(r) \subseteq since[r]) \/ Copies(r) # {}
Together(r) == \A q \in Copies(r) \cap since[r] : S(q).subject = S(r).subject => thread[q] = thread[r]

ThreadPcs == {"none", "put", "norm", "copies", "reply", "refs", "subject", "self", "others"}
\* What a row's work has found out, statement by statement.
RowJoins(r) ==
  /\ calc[r].pc \notin {"none", "put"} => r \in stored
  /\ calc[r].pc = "reply" => NoCopyKnown(r)
  /\ calc[r].pc \in {"refs", "subject"} => NoCopyKnown(r) /\ NoParentKnown(r)
  /\ calc[r].pc \in {"self", "others"} => Joins(r, calc[r].found)
  /\ calc[r].pc = "others" => thread[r] = calc[r].found \/ since[r] = {}
  /\ calc[r].pc = "none" /\ r \in stored => Joins(r, thread[r]) /\ Together(r)
Knows(r) == since[r] \subseteq stored \ {r} /\ \A q \in since[r] : thread[q] # 0
ThreadTypes ==
  /\ stored \subseteq Sheets /\ thread = [r \in Sheets |-> thread[r]] /\ since = [r \in Sheets |-> since[r]]
  /\ calc = [r \in Sheets |-> [pc |-> calc[r].pc, found |-> calc[r].found]] /\ \A r \in Sheets : calc[r].pc \in ThreadPcs
ThreadInv == ThreadTypes /\ \A r \in Sheets : Knows(r) /\ RowJoins(r)
-----------------------------------------------------------------------------
LEMMA HasLeast == ASSUME NEW T, T \subseteq Nat, T # {} PROVE \E x \in T : \A y \in T : x <= y
<1>1. PICK R : R = OpToRel(<, Nat)
  OBVIOUS
<1>2. IsWellFoundedOn(R, Nat)
  BY <1>1, NatLessThanWellFounded
<1>3. PICK x \in T : \A y \in T : <<y, x>> \notin R
  BY <1>2, WFMin
<1>4. \A y \in Nat : y < x => <<y, x>> \in R
  BY <1>1 DEF OpToRel
<1>5. \A y \in T : x \in Nat /\ y \in Nat /\ ~(y < x)
  BY <1>3, <1>4
<1>6. \A y \in T : x <= y
  BY <1>5
<1>7. QED
  BY <1>6

LEMMA LeastIsIn == ASSUME NEW R, R \subseteq Sheets, R # {} PROVE Least(R) \in R /\ \A q \in R : Least(R) <= q
<1>1. \E r \in R : \A q \in R : r <= q
  BY HasLeast, ThreadAssumption
<1>2. QED
  BY <1>1 DEF Least

\* What a step leaves of what is known of a row.
HoldsOn(r) ==
  /\ shelf' = shelf /\ stored \subseteq stored' /\ since'[r] \subseteq since[r]
  /\ \A q \in since'[r] : thread'[q] = thread[q]

LEMMA KnownStays ==
  ASSUME NEW r \in Sheets, Knows(r), HoldsOn(r), stored' \subseteq Sheets
  PROVE  /\ Knows(r)'
         /\ NoCopyKnown(r) => NoCopyKnown(r)'
         /\ NoParentKnown(r) => NoParentKnown(r)'
         /\ \A t : Joins(r, t) => Joins(r, t)'
         /\ Together(r) /\ thread'[r] = thread[r] => Together(r)'
<1>1. \A q : S(q)' = S(q)
  BY DEF S, HoldsOn
<1>2. Copies(r) \subseteq Copies(r)' /\ Copies(r)' \cap stored \subseteq Copies(r) /\ Copies(r) \subseteq stored
  BY <1>1 DEF Copies, HoldsOn
<1>3. Parents(r) \subseteq Parents(r)' /\ Parents(r)' \cap stored \subseteq Parents(r) /\ Parents(r) \subseteq stored
  BY <1>1 DEF Parents, HoldsOn
<1>4. since'[r] \subseteq stored
  BY DEF Knows, HoldsOn
<1>5. Knows(r)'
  BY DEF Knows, HoldsOn
<1>6. NoCopyKnown(r) => NoCopyKnown(r)'
  BY <1>2, <1>4 DEF NoCopyKnown, HoldsOn
<1>7. NoParentKnown(r) => NoParentKnown(r)'
  BY <1>2, <1>3, <1>4 DEF NoParentKnown, HoldsOn
<1>8. ASSUME NEW t, Joins(r, t) PROVE Joins(r, t)'
  BY <1>2, <1>3, <1>4, <1>8 DEF Joins, HoldsOn
<1>9. ASSUME Together(r), thread'[r] = thread[r] PROVE Together(r)'
  BY <1>1, <1>2, <1>4, <1>9 DEF Together, HoldsOn
<1>10. QED
  BY <1>5, <1>6, <1>7, <1>8, <1>9

\* A row of which nothing is known joins whatever thread it has.
LEMMA UnknownJoins ==
  ASSUME NEW r, since[r] = {}
  PROVE  (\A t : Joins(r, t)) /\ Together(r) /\ NoCopyKnown(r) /\ NoParentKnown(r) /\ Knows(r)
BY DEF Joins, Together, NoCopyKnown, NoParentKnown, Knows

\* A row whose work stands still in this step.
LEMMA RowStays ==
  ASSUME NEW r \in Sheets, Knows(r), RowJoins(r), HoldsOn(r), stored' \subseteq Sheets, calc'[r] = calc[r],
         calc[r].pc \in ThreadPcs, calc[r].pc = "none" /\ r \in stored' => r \in stored,
         since'[r] = {} \/ thread'[r] = thread[r]
  PROVE  Knows(r)' /\ RowJoins(r)'
<1>1. Knows(r)' /\ (calc[r].pc \notin {"none", "put"} => r \in stored')
  BY KnownStays DEF RowJoins, HoldsOn
<1>2. CASE since'[r] = {}
  <2>1. (\A t : Joins(r, t)') /\ Together(r)' /\ NoCopyKnown(r)' /\ NoParentKnown(r)'
    BY <1>2 DEF Joins, Together, NoCopyKnown, NoParentKnown
  <2>2. QED
    BY <1>1, <1>2, <2>1 DEF RowJoins, Joins
<1>3. CASE thread'[r] = thread[r]
  <2>1. /\ NoCopyKnown(r) => NoCopyKnown(r)'
        /\ NoParentKnown(r) => NoParentKnown(r)'
        /\ Joins(r, calc[r].found) => Joins(r, calc[r].found)'
        /\ Joins(r, thread[r]) => Joins(r, thread[r])'
        /\ Together(r) => Together(r)'
        /\ since[r] = {} => since'[r] = {}
    <3>1. PICK t, u : t = calc[r].found /\ u = thread[r]
      OBVIOUS
    <3>2. (Joins(r, t) => Joins(r, t)') /\ (Joins(r, u) => Joins(r, u)')
      BY KnownStays
    <3>3. QED
      BY <1>3, <3>1, <3>2, KnownStays DEF Joins, HoldsOn
  <2>2. QED
    BY <1>1, <1>3, <2>1 DEF RowJoins
<1>4. QED
  BY <1>2, <1>3

\* A step of one row's work; the others stand still.
LEMMA OneThreads ==
  ASSUME ThreadInv, NEW r \in Sheets, NEW w, calc' = [calc EXCEPT ![r] = w], w = [pc |-> w.pc, found |-> w.found], w.pc \in ThreadPcs,
         stored' \subseteq Sheets, stored' \subseteq stored \cup {r},
         thread' = [q \in Sheets |-> thread'[q]], since' = [q \in Sheets |-> since'[q]],
         \A q \in Sheets : q # r => HoldsOn(q) /\ (since'[q] = {} \/ thread'[q] = thread[q]),
         Knows(r)', RowJoins(r)'
  PROVE  ThreadInv'
<1>1. calc'[r] = w /\ \A q \in Sheets : q # r => calc'[q] = calc[q]
  BY DEF ThreadInv, ThreadTypes
<1>2. ThreadTypes'
  <2>1. \A q \in Sheets : calc'[q] = [pc |-> calc'[q].pc, found |-> calc'[q].found] /\ calc'[q].pc \in ThreadPcs
    BY <1>1 DEF ThreadInv, ThreadTypes
  <2>2. calc' = [q \in Sheets |-> calc'[q]]
    BY DEF ThreadInv, ThreadTypes
  <2>3. calc' = [q \in Sheets |-> [pc |-> calc'[q].pc, found |-> calc'[q].found]]
    BY <2>1, <2>2
  <2>4. QED
    BY <2>1, <2>3 DEF ThreadTypes
<1>3. ASSUME NEW q \in Sheets, q # r PROVE Knows(q)' /\ RowJoins(q)'
  <2>1. Knows(q) /\ RowJoins(q) /\ calc[q].pc \in ThreadPcs /\ calc'[q] = calc[q]
    BY <1>1, <1>3 DEF ThreadInv, ThreadTypes
  <2>2. QED
    BY <1>3, <2>1, RowStays
<1>4. QED
  BY <1>2, <1>3 DEF ThreadInv

LEMMA StepsToIs ==
  ASSUME ThreadInv, NEW r \in Sheets, NEW pc, NEW t, StepsTo(r, pc, t)
  PROVE  calc'[r].pc = pc /\ calc'[r].found = t /\ calc' = [calc EXCEPT ![r] = [pc |-> pc, found |-> t]]
BY DEF StepsTo, ThreadInv, ThreadTypes

\* The work of a row moves on, and no row changes.
LEMMA ThreadingMoves ==
  ASSUME ThreadInv, NEW r \in Sheets, NEW pc \in ThreadPcs, NEW t, StepsTo(r, pc, t), UNCHANGED <<shelf, stored, thread, since>>,
         pc \notin {"none", "put"} => r \in stored,
         pc = "reply" => NoCopyKnown(r),
         pc \in {"refs", "subject"} => NoCopyKnown(r) /\ NoParentKnown(r),
         pc = "self" => Joins(r, t),
         pc \notin {"others", "none"}
  PROVE  ThreadInv'
<1> DEFINE w == [pc |-> pc, found |-> t]
<1>1. calc' = [calc EXCEPT ![r] = w] /\ calc'[r].pc = pc /\ calc'[r].found = t
  BY StepsToIs
<1>2. \A q \in Sheets : HoldsOn(q) /\ thread'[q] = thread[q]
  BY DEF HoldsOn
<1>3. Knows(r)'
  BY <1>2 DEF ThreadInv, Knows
<1>4. RowJoins(r)'
  <2>1. /\ NoCopyKnown(r) => NoCopyKnown(r)'
        /\ NoParentKnown(r) => NoParentKnown(r)'
        /\ Joins(r, t) => Joins(r, t)'
    BY <1>2, KnownStays DEF ThreadInv, ThreadTypes
  <2>2. Joins(r, t)' => Joins(r, calc[r].found)'
    BY <1>1 DEF Joins
  <2>3. QED
    BY <1>1, <2>1, <2>2 DEF RowJoins
<1>5. stored' \subseteq Sheets /\ stored' \subseteq stored \cup {r} /\ thread' = [q \in Sheets |-> thread'[q]] /\ since' = [q \in Sheets |-> since'[q]]
  BY DEF ThreadInv, ThreadTypes
<1>6. w = [pc |-> w.pc, found |-> w.found] /\ w.pc \in ThreadPcs
  OBVIOUS
<1> HIDE DEF w
<1>7. QED
  BY <1>1, <1>2, <1>3, <1>4, <1>5, <1>6, OneThreads

LEMMA ThreadStarts == ThreadInit => ThreadInv
<1> SUFFICES ASSUME ThreadInit PROVE ThreadInv
  OBVIOUS
<1>1. \A r \in Sheets : calc[r].pc = "none" /\ calc[r].found = 0 /\ since[r] = {} /\ r \notin stored
  BY DEF ThreadInit, NoCalc
<1>2. ThreadTypes
  <2>1. calc = [r \in Sheets |-> [pc |-> calc[r].pc, found |-> calc[r].found]]
    BY <1>1 DEF ThreadInit, NoCalc
  <2>2. QED
    BY <1>1, <2>1 DEF ThreadTypes, ThreadInit, ThreadPcs
<1>3. \A r \in Sheets : Knows(r) /\ RowJoins(r)
  BY <1>1 DEF Knows, RowJoins
<1>4. QED
  BY <1>2, <1>3 DEF ThreadInv

LEMMA ThreadStands == ThreadInv /\ UNCHANGED threadVars => ThreadInv'
<1> SUFFICES ASSUME ThreadInv, UNCHANGED threadVars PROVE ThreadInv'
  OBVIOUS
<1>1. ThreadTypes'
  BY DEF ThreadInv, ThreadTypes, threadVars
<1>2. ASSUME NEW r \in Sheets PROVE Knows(r)' /\ RowJoins(r)'
  <2>1. Knows(r) /\ RowJoins(r) /\ calc[r].pc \in ThreadPcs /\ stored \subseteq Sheets
    BY DEF ThreadInv, ThreadTypes
  <2>2. HoldsOn(r) /\ stored' = stored /\ calc'[r] = calc[r] /\ thread'[r] = thread[r]
    BY DEF HoldsOn, threadVars
  <2>3. QED
    BY <2>1, <2>2, RowStays
<1>3. QED
  BY <1>1, <1>2 DEF ThreadInv
-----------------------------------------------------------------------------
\* The statements that find.
LEMMA FindingKeeps ==
  ASSUME ThreadInv, NEW r \in Sheets,
         Arrives(r) \/ Rethreads(r) \/ FindsCopy(r) \/ FindsAnswered(r) \/ FindsReference(r) \/ FindsSubject(r)
  PROVE  ThreadInv'
<1>1. UNCHANGED <<shelf, stored, thread, since>>
  BY DEF Arrives, Rethreads, FindsCopy, FindsAnswered, FindsReference, FindsSubject
<1>2. RowJoins(r) /\ Knows(r) /\ stored \subseteq Sheets
  BY DEF ThreadInv, ThreadTypes
<1>3. Copies(r) \subseteq Sheets /\ Parents(r) \subseteq Sheets
  BY <1>2 DEF Copies, Parents
<1>4. CASE Arrives(r)
  <2>1. PICK t : StepsTo(r, "put", t)
    BY <1>4 DEF Arrives
  <2>2. QED
    BY <1>1, <2>1, ThreadingMoves DEF ThreadPcs
<1>5. CASE Rethreads(r)
  <2>1. StepsTo(r, "norm", 0) /\ r \in stored
    BY <1>5 DEF Rethreads
  <2>2. QED
    BY <1>1, <2>1, ThreadingMoves DEF ThreadPcs
<1>6. CASE FindsCopy(r)
  <2> DEFINE copies == Threaded(Copies(r))
  <2>1. r \in stored
    BY <1>2, <1>6 DEF FindsCopy, Stands, RowJoins
  <2>2. CASE copies # {}
    <3>1. PICK t : t = thread[Least(copies)]
      OBVIOUS
    <3>2. Least(copies) \in Copies(r) /\ StepsTo(r, "self", t)
      BY <1>3, <1>6, <2>2, <3>1, LeastIsIn DEF FindsCopy, Threaded
    <3>3. Joins(r, t)
      BY <3>1, <3>2 DEF Joins
    <3>4. QED
      BY <1>1, <2>1, <3>2, <3>3, ThreadingMoves DEF ThreadPcs
  <2>3. CASE copies = {}
    <3>1. StepsTo(r, "reply", 0)
      BY <1>6, <2>3 DEF FindsCopy
    <3>2. NoCopyKnown(r)
      BY <1>2, <2>3 DEF NoCopyKnown, Knows, Threaded
    <3>3. QED
      BY <1>1, <2>1, <3>1, <3>2, ThreadingMoves DEF ThreadPcs
  <2>4. QED
    BY <2>2, <2>3
<1>7. CASE FindsAnswered(r)
  <2>1. r \in stored /\ NoCopyKnown(r)
    BY <1>2, <1>7 DEF FindsAnswered, Stands, RowJoins
  <2>2. Parents(r) # {} => Least(Parents(r)) \in Parents(r)
    BY <1>3, LeastIsIn
  <2>3. CASE Parents(r) # {} /\ thread[Least(Parents(r))] # 0
    <3>1. PICK t : t = thread[Least(Parents(r))]
      OBVIOUS
    <3>2. StepsTo(r, "self", t)
      BY <1>7, <2>3, <3>1 DEF FindsAnswered
    <3>3. Joins(r, t)
      BY <2>1, <2>2, <2>3, <3>1 DEF Joins, NoCopyKnown
    <3>4. QED
      BY <1>1, <2>1, <3>2, <3>3, ThreadingMoves DEF ThreadPcs
  <2>4. CASE ~(Parents(r) # {} /\ thread[Least(Parents(r))] # 0)
    <3>1. StepsTo(r, "refs", 0)
      BY <1>7, <2>4 DEF FindsAnswered
    <3>2. NoParentKnown(r)
      BY <1>2, <2>2, <2>4 DEF NoParentKnown, Knows
    <3>3. QED
      BY <1>1, <2>1, <3>1, <3>2, ThreadingMoves DEF ThreadPcs
  <2>5. QED
    BY <2>3, <2>4
<1>8. CASE FindsReference(r) \/ FindsSubject(r)
  <2>1. r \in stored /\ NoCopyKnown(r) /\ NoParentKnown(r)
    BY <1>2, <1>8 DEF FindsReference, FindsSubject, Stands, RowJoins
  <2>2. \A t : Joins(r, t)
    BY <2>1 DEF Joins, NoCopyKnown, NoParentKnown
  <2>3. PICK t : StepsTo(r, "self", t) \/ StepsTo(r, "subject", t)
    BY <1>8 DEF FindsReference, FindsSubject
  <2>4. QED
    BY <1>1, <2>1, <2>2, <2>3, ThreadingMoves DEF ThreadPcs
<1>9. QED
  BY <1>4, <1>5, <1>6, <1>7, <1>8

\* The message is put in, or its threading fails: nothing is known of it any more.
LEMMA PutsKeep ==
  ASSUME ThreadInv, NEW r \in Sheets, Puts(r) \/ ThreadFails(r)
  PROVE  ThreadInv'
<1>1. PICK pc \in {"norm", "none"} : StepsTo(r, pc, 0)
  BY DEF Puts, ThreadFails
<1>2. /\ shelf' = shelf /\ stored \subseteq stored' /\ stored' \subseteq stored \cup {r} /\ stored' \subseteq Sheets
      /\ since' = [q \in Sheets |-> IF q \in {r} THEN {} ELSE since[q] \ {r}]
      /\ pc = "norm" => r \in stored'
  BY <1>1 DEF Puts, ThreadFails, Changed, ThreadInv, ThreadTypes, StepsTo
<1>3. thread' = [q \in Sheets |-> thread'[q]] /\ \A q \in Sheets : q # r => thread'[q] = thread[q]
  BY DEF Puts, ThreadFails, ThreadInv, ThreadTypes
<1>4. \A q \in Sheets : q # r => HoldsOn(q) /\ thread'[q] = thread[q]
  <2>1. \A q \in Sheets : since[q] \subseteq Sheets
    BY DEF ThreadInv, ThreadTypes, Knows
  <2>2. QED
    BY <1>2, <1>3, <2>1 DEF HoldsOn
<1>5. since'[r] = {}
  BY <1>2
<1>6. (\A t : Joins(r, t)') /\ Together(r)' /\ NoCopyKnown(r)' /\ NoParentKnown(r)' /\ Knows(r)'
  BY <1>5 DEF Joins, Together, NoCopyKnown, NoParentKnown, Knows
<1>7. calc'[r].pc = pc
  BY <1>1, StepsToIs
<1>8. RowJoins(r)'
  BY <1>2, <1>6, <1>7 DEF RowJoins, Joins
<1> DEFINE w == [pc |-> pc, found |-> 0]
<1>9. calc' = [calc EXCEPT ![r] = w] /\ w = [pc |-> w.pc, found |-> w.found] /\ w.pc \in ThreadPcs
  BY <1>1, StepsToIs DEF ThreadPcs
<1> HIDE DEF w
<1>10. QED
  BY <1>2, <1>3, <1>4, <1>6, <1>8, <1>9, OneThreads

LEMMA NormalizesKeeps ==
  ASSUME ThreadInv, NEW r \in Sheets, Normalizes(r)
  PROVE  ThreadInv'
<1>1. /\ StepsTo(r, "copies", 0) /\ r \in stored /\ UNCHANGED <<shelf, stored, thread>>
      /\ since'[r] \subseteq Threaded(stored \ {r}) /\ \A q \in Sheets : q # r => since'[q] = since[q]
      /\ since' = [q \in Sheets |-> since'[q]]
  BY DEF Normalizes, Stands, ThreadInv, ThreadTypes, RowJoins
<1>2. \A q \in Sheets : q # r => HoldsOn(q) /\ thread'[q] = thread[q]
  BY <1>1 DEF HoldsOn
<1>3. Knows(r)'
  BY <1>1 DEF Knows, Threaded
<1>4. calc'[r].pc = "copies"
  BY <1>1, StepsToIs
<1>5. RowJoins(r)'
  BY <1>1, <1>4 DEF RowJoins
<1> DEFINE w == [pc |-> "copies", found |-> 0]
<1>6. calc' = [calc EXCEPT ![r] = w] /\ w = [pc |-> w.pc, found |-> w.found] /\ w.pc \in ThreadPcs
  BY <1>1, StepsToIs DEF ThreadPcs
<1>7. stored' \subseteq Sheets /\ stored' \subseteq stored \cup {r} /\ thread' = [q \in Sheets |-> thread'[q]]
  BY <1>1 DEF ThreadInv, ThreadTypes
<1> HIDE DEF w
<1>8. QED
  BY <1>1, <1>2, <1>3, <1>5, <1>6, <1>7, OneThreads

LEMMA WritesSelfKeeps ==
  ASSUME ThreadInv, NEW r \in Sheets, WritesSelf(r)
  PROVE  ThreadInv'
<1>1. PICK t : t = calc[r].found
  OBVIOUS
<1>2. /\ StepsTo(r, "others", t) /\ thread' = [thread EXCEPT ![r] = t] /\ calc[r].pc = "self"
      /\ since' = [q \in Sheets |-> since[q] \ {r}] /\ UNCHANGED <<shelf, stored>>
  BY <1>1 DEF WritesSelf, Stands
<1>3. r \in stored /\ Joins(r, t) /\ Knows(r) /\ stored' \subseteq Sheets
  BY <1>1, <1>2 DEF ThreadInv, ThreadTypes, RowJoins
<1>4. thread'[r] = t /\ thread' = [q \in Sheets |-> thread'[q]] /\ \A q \in Sheets : q # r => thread'[q] = thread[q]
  BY <1>2 DEF ThreadInv, ThreadTypes
<1>5. \A q \in Sheets : HoldsOn(q)
  <2>1. \A q \in Sheets : since[q] \subseteq Sheets
    BY DEF ThreadInv, ThreadTypes, Knows
  <2>2. QED
    BY <1>2, <1>4, <2>1 DEF HoldsOn
<1>6. Knows(r)' /\ Joins(r, t)'
  BY <1>3, <1>5, KnownStays
<1>7. calc'[r].pc = "others" /\ calc'[r].found = t
  BY <1>2, StepsToIs
<1>8. RowJoins(r)'
  <2>1. Joins(r, calc[r].found)'
    BY <1>6, <1>7 DEF Joins
  <2>2. QED
    BY <1>2, <1>3, <1>4, <1>7, <2>1 DEF RowJoins
<1> DEFINE w == [pc |-> "others", found |-> t]
<1>9. calc' = [calc EXCEPT ![r] = w] /\ w = [pc |-> w.pc, found |-> w.found] /\ w.pc \in ThreadPcs
  BY <1>2, StepsToIs DEF ThreadPcs
<1> HIDE DEF w
<1>10. QED
  BY <1>2, <1>3, <1>4, <1>5, <1>6, <1>8, <1>9, OneThreads

LEMMA WritesCopiesKeeps ==
  ASSUME ThreadInv, NEW r \in Sheets, WritesCopies(r)
  PROVE  ThreadInv'
<1>1. PICK t : t = calc[r].found
  OBVIOUS
<1> DEFINE copies == {q \in Copies(r) : q \notin norm \/ S(q).subject = S(r).subject}
           moved == {q \in copies : thread[q] # t}
<1>2. /\ StepsTo(r, "none", 0) /\ calc[r].pc = "others" /\ UNCHANGED <<shelf, stored>>
      /\ thread' = [q \in Sheets |-> IF q \in copies THEN t ELSE thread[q]]
      /\ since' = [q \in Sheets |-> IF q \in moved THEN {} ELSE since[q] \ moved]
  BY <1>1 DEF WritesCopies, Stands, Changed
<1>3. r \in stored /\ Joins(r, t) /\ Knows(r) /\ (thread[r] = t \/ since[r] = {}) /\ stored' \subseteq Sheets
  BY <1>1, <1>2 DEF ThreadInv, ThreadTypes, RowJoins
<1>4. r \notin copies /\ \A q \in Copies(r) : S(q).subject = S(r).subject => q \in copies
  BY DEF Copies
<1> HIDE DEF copies
<1>5. \A q \in Sheets : thread'[q] = thread[q] \/ q \in moved
  BY <1>2
<1>6. \A q \in Sheets : HoldsOn(q) /\ (since'[q] = {} \/ thread'[q] = thread[q])
  <2>1. \A q \in Sheets : since[q] \subseteq Sheets
    BY DEF ThreadInv, ThreadTypes, Knows
  <2>2. QED
    BY <1>2, <1>5, <2>1 DEF HoldsOn
<1>7. thread'[r] = thread[r] /\ since'[r] = since[r] \ moved
  BY <1>2, <1>4
<1>8. Knows(r)' /\ Joins(r, t)'
  BY <1>3, <1>6, KnownStays
<1>9. calc'[r].pc = "none"
  BY <1>2, StepsToIs
<1> DEFINE w == [pc |-> "none", found |-> 0]
<1>a. /\ calc' = [calc EXCEPT ![r] = w] /\ w = [pc |-> w.pc, found |-> w.found] /\ w.pc \in ThreadPcs
      /\ thread' = [q \in Sheets |-> thread'[q]] /\ since' = [q \in Sheets |-> since'[q]]
  BY <1>2, StepsToIs DEF ThreadPcs
<1> HIDE DEF w, moved
<1>10. CASE since[r] = {}
  <2>1. since'[r] = {}
    BY <1>7, <1>10
  <2>2. Joins(r, thread[r])' /\ Together(r)'
    BY <2>1 DEF Joins, Together
  <2>3. RowJoins(r)'
    BY <1>9, <2>2 DEF RowJoins
  <2>4. QED
    BY <1>2, <1>3, <1>6, <1>8, <1>a, <2>3, OneThreads
<1>11. CASE thread[r] = t
  <2>1. Joins(r, thread[r])'
    BY <1>7, <1>8, <1>11 DEF Joins
  <2>2. Together(r)'
    <3>1. ASSUME NEW q \in Copies(r)' \cap since'[r], S(q)'.subject = S(r)'.subject PROVE thread'[q] = thread'[r]
      <4>1. q \in Copies(r) /\ S(q).subject = S(r).subject /\ q \in Sheets
        BY <1>2, <1>3, <3>1 DEF Copies, S
      <4>2. q \in copies
        BY <1>4, <4>1
      <4>3. QED
        BY <1>2, <1>7, <1>11, <4>1, <4>2
    <3>2. QED
      BY <3>1 DEF Together
  <2>3. RowJoins(r)'
    BY <1>9, <2>1, <2>2 DEF RowJoins
  <2>4. QED
    BY <1>2, <1>3, <1>6, <1>8, <1>a, <2>3, OneThreads
<1>12. QED
  BY <1>3, <1>10, <1>11

\* The listed copy of a message in a thread.
LEMMA ListedThere ==
  ASSUME ThreadInv, NEW q \in stored
  PROVE  \E p \in Listed(thread[q]) : S(p).id = S(q).id
<1> DEFINE R == {p \in stored : S(p).box = S(q).box /\ S(p).id = S(q).id /\ thread[p] = thread[q]}
<1>1. R \subseteq Nat /\ q \in R
  BY ThreadAssumption DEF ThreadInv, ThreadTypes
<1>2. PICK p \in R : \A o \in R : p <= o
  <2> HIDE DEF R
  <2>1. QED
    BY <1>1, HasLeast
<1>3. \A o \in Copies(p) : thread[o] = thread[q] => o \in R /\ o # p
  BY DEF Copies
<1>4. \A o \in R : o \in Nat /\ p \in Nat
  BY <1>1
<1>5. \A o \in Copies(p) : thread[o] = thread[q] => p < o
  BY <1>2, <1>3, <1>4
<1>6. p \in Listed(thread[q])
  BY <1>2, <1>5 DEF Listed
<1>7. QED
  BY <1>2, <1>6

\* Answers lie with what they answer and copies with each other, as RepliesJoin says
\* (threading.ts, computeThreadForMessage and assignThreadIdForLogicalMessage).
THEOREM RepliesAlwaysJoin == ThreadSpec => []RepliesJoin
<1>1. ThreadInv /\ [ThreadNext]_threadVars => ThreadInv'
  BY ThreadStands, FindingKeeps, PutsKeep, NormalizesKeeps, WritesSelfKeeps, WritesCopiesKeeps DEF ThreadNext
<1>2. ThreadInv => RepliesJoin
  <2> SUFFICES ASSUME ThreadInv, NEW r \in stored, Stands(r, "none")
               PROVE  /\ LET parents == {q \in stored : S(r).re # 0 /\ S(q).id = S(r).re}
                         IN  parents # {} /\ parents \subseteq since[r] /\ Copies(r) = {} =>
                           \E q \in Listed(thread[r]) : S(q).id = S(r).re
                      /\ Copies(r) # {} /\ Copies(r) \subseteq since[r] => \E q \in Copies(r) : thread[q] = thread[r]
                      /\ \A q \in Copies(r) \cap since[r] : S(q).subject = S(r).subject => thread[q] = thread[r]
    BY DEF RepliesJoin
  <2>1. Joins(r, thread[r]) /\ Together(r)
    BY DEF ThreadInv, ThreadTypes, RowJoins, Stands
  <2>2. ASSUME Parents(r) # {}, Parents(r) \subseteq since[r], Copies(r) = {}
        PROVE  \E q \in Listed(thread[r]) : S(q).id = S(r).re
    <3>1. PICK q \in Parents(r) : thread[q] = thread[r]
      BY <2>1, <2>2 DEF Joins
    <3>2. q \in stored /\ S(q).id = S(r).re
      BY DEF Parents
    <3>3. QED
      BY <3>1, <3>2, ListedThere
  <2>3. QED
    BY <2>1, <2>2 DEF Parents, Joins, Together
<1>3. QED
  BY <1>1, <1>2, ThreadStarts, PTL DEF ThreadSpec

-----------------------------------------------------------------------------
(* GmailAccount. *)


Calling == {"enable", "disable", "renew", "use", "connect"}
Connecting == {"consent", "read", "exchange", "create", "auth", "settings"}
Rowless == {"free", "over", "consent", "read", "exchange", "create", "next"}

\* What a handler is at each of its awaits: who it is, what it has read.
Role(j, w, n) ==
  /\ w.pc \in {"call", "save", "erase"} => w.kind \in Calling
  /\ w.pc \in Connecting => w.kind = "connect"
  /\ w.kind = "connect" => j # Renewal
  /\ w.pc = "create" => w.k = 0
  /\ w.k = 0 => w.pc \in Rowless
  /\ w.left # {} => w.kind \in {"notify", "renew"} /\ w.seen \in [RowKeys -> RowType(n)]
Roles == \A j \in Workers : Role(j, job[j], granted)

TypeInv == AcctTypeOK /\ Roles

\* One connector: while no two drafts were on their way, a draft is the only one and
\* there is no row.
OneInv ==
  ~doubled =>
    /\ \A k, l \in Rows : k = l
    /\ \A i, j \in Workers : Awaiting(i) => Rows = {} /\ (Awaiting(j) => i = j)

\* Good grants: a callback that has exchanged its code holds a grant that is good if the
\* one it read still is.
Exchanged == \A j \in Workers : job[j].pc = "auth" => (job[j].snap.grant \in live => job[j].grant \in live)
GrantInv == GrantKept /\ Exchanged
-----------------------------------------------------------------------------
\* One more grant takes nothing out of the types.
LEMMA Widens ==
  ASSUME NEW n \in Nat
  PROVE  0..n \subseteq 0..(n + 1) /\ RowType(n) \subseteq RowType(n + 1) /\ JobType(n) \subseteq JobType(n + 1)
<1>1. 0..n \subseteq 0..(n + 1)
  OBVIOUS
<1>2. RowType(n) \subseteq RowType(n + 1)
  BY <1>1 DEF RowType
<1>3. [RowKeys -> RowType(n)] \subseteq [RowKeys -> RowType(n + 1)]
  BY <1>2
<1>4. QED
  BY <1>1, <1>2, <1>3 DEF JobType

\* A step of one handler to a record that has its type and its role.
LEMMA Moves ==
  ASSUME TypeInv, NEW j \in Workers, NEW w \in JobType(granted), Role(j, w, granted),
         job' = [job EXCEPT ![j] = w], granted' = granted
  PROVE  job' \in [Workers -> JobType(granted')] /\ Roles'
<1>1. job' \in [Workers -> JobType(granted')]
  BY DEF TypeInv, AcctTypeOK
<1>2. ASSUME NEW i \in Workers PROVE Role(i, job'[i], granted')
  <2>1. job'[i] = IF i = j THEN w ELSE job[i]
    BY DEF TypeInv, AcctTypeOK
  <2>2. Role(i, job[i], granted)
    BY DEF TypeInv, Roles
  <2>3. QED
    BY <2>1, <2>2
<1>3. QED
  BY <1>1, <1>2 DEF Roles

\* The same for a step that only goes to another await.
LEMMA GoesTo ==
  ASSUME TypeInv, NEW j \in Workers, NEW pc \in JobPcs, To(j, pc), granted' = granted,
         pc \in {"call", "save", "erase"} => job[j].kind \in Calling,
         pc \in Connecting => job[j].kind = "connect",
         pc = "create" => job[j].k = 0,
         job[j].k = 0 => pc \in Rowless
  PROVE  job' \in [Workers -> JobType(granted')] /\ Roles'
<1> DEFINE w == [job[j] EXCEPT !.pc = pc]
<1>1. job[j] \in JobType(granted)
  BY DEF TypeInv, AcctTypeOK
<1>2. w \in JobType(granted)
  BY <1>1 DEF JobType
<1>3. job' = [job EXCEPT ![j] = w]
  BY DEF To
<1>4. Role(j, w, granted)
  <2>1. Role(j, job[j], granted)
    BY DEF TypeInv, Roles
  <2>2. w.pc = pc /\ w.kind = job[j].kind /\ w.k = job[j].k /\ w.left = job[j].left /\ w.seen = job[j].seen
    BY <1>1 DEF JobType
  <2>3. QED
    BY <2>1, <2>2 DEF Role
<1> HIDE DEF w
<1>5. QED
  BY <1>2, <1>3, <1>4, Moves

\* A handler that quits is free, or over.
LEMMA QuitsWell ==
  ASSUME TypeInv, NEW j \in Workers, Quits(j), granted' = granted
  PROVE  job' \in [Workers -> JobType(granted')] /\ Roles'
<1>1. NoConnector \in RowType(granted) /\ 0 \in 0..granted
  BY DEF NoConnector, RowType, TypeInv, AcctTypeOK
<1>2. Free \in JobType(granted) /\ [Free EXCEPT !.pc = "over"] \in JobType(granted)
  BY <1>1 DEF Free, JobType, JobPcs
<1>3. Role(j, Free, granted) /\ Role(j, [Free EXCEPT !.pc = "over"], granted)
  BY DEF Role, Free, Connecting, Calling, Rowless
<1>4. PICK w \in {Free, [Free EXCEPT !.pc = "over"]} : job' = [job EXCEPT ![j] = w]
  BY DEF Quits
<1>5. w \in JobType(granted) /\ Role(j, w, granted)
  BY <1>2, <1>3
<1>6. QED
  BY <1>4, <1>5, Moves
\* A sweep goes to the next of the rows it read, or ends.
LEMMA NextRowWell ==
  ASSUME TypeInv, NEW j \in Workers, NextRow(j), granted' = granted
  PROVE  job' \in [Workers -> JobType(granted')] /\ Roles'
<1>1. CASE job[j].left = {}
  BY <1>1, QuitsWell DEF NextRow
<1>2. CASE job[j].left # {}
  <2>1. job[j] \in JobType(granted) /\ Role(j, job[j], granted)
    BY DEF TypeInv, AcctTypeOK, Roles
  <2>2. PICK k \in job[j].left :
          job' = [job EXCEPT ![j].pc = First(job[j].kind), ![j].k = k, ![j].snap = job[j].seen[k],
                             ![j].left = @ \ {k}]
    BY <1>2 DEF NextRow
  <2> DEFINE w == [job[j] EXCEPT !.pc = First(job[j].kind), !.k = k, !.snap = job[j].seen[k],
                          !.left = job[j].left \ {k}]
  <2>3. /\ k \in RowKeys /\ k # 0 /\ job[j].left \ {k} \subseteq RowKeys
        /\ job[j].kind \in {"notify", "renew"} /\ job[j].seen \in [RowKeys -> RowType(granted)]
    BY <1>2, <2>1, <2>2, AcctAssumption DEF JobType, Role
  <2>4. First(job[j].kind) \in {"same", "call"} /\ (First(job[j].kind) = "call" => job[j].kind = "renew")
    BY <2>3 DEF First
  <2>5. w \in JobType(granted)
    BY <2>1, <2>3, <2>4 DEF JobType, JobPcs
  <2>6. Role(j, w, granted)
    <3>1. /\ w.kind = job[j].kind /\ w.pc = First(job[j].kind) /\ w.k = k /\ w.seen = job[j].seen
      BY <2>1 DEF JobType
    <3>2. QED
      BY <2>3, <2>4, <3>1 DEF Role, Calling, Connecting
  <2>7. job' = [job EXCEPT ![j] = w]
    BY <2>2
  <2> HIDE DEF w
  <2>8. QED
    BY <2>5, <2>6, <2>7, Moves
<1>3. QED
  BY <1>1, <1>2
\* The two columns keep their types.
LEMMA PutAuthTyped ==
  ASSUME TypeInv, NEW j \in Workers, NEW grant \in 0..granted, NEW access \in {"good", "old", "none"},
         PutAuth(j, grant, access), job[j].k # 0, granted' = granted
  PROVE  acct' \in [RowKeys -> RowType(granted')] /\ raced' \subseteq RowKeys
<1>1. job[j].k \in RowKeys
  BY DEF TypeInv, AcctTypeOK, JobType
<1>2. acct' \in [RowKeys -> RowType(granted')]
  BY <1>1 DEF PutAuth, TypeInv, AcctTypeOK, RowType
<1>3. QED
  BY <1>1, <1>2 DEF PutAuth, Late, TypeInv, AcctTypeOK

LEMMA PutSettingsTyped ==
  ASSUME TypeInv, NEW j \in Workers, NEW push \in {"unset", "off", "on", "error"}, NEW due \in BOOLEAN,
         PutSettings(j, push, due), job[j].k # 0, granted' = granted
  PROVE  acct' \in [RowKeys -> RowType(granted')] /\ astray' \subseteq RowKeys
<1>1. job[j].k \in RowKeys
  BY DEF TypeInv, AcctTypeOK, JobType
<1>2. acct' \in [RowKeys -> RowType(granted')]
  BY <1>1 DEF PutSettings, TypeInv, AcctTypeOK, RowType
<1>3. QED
  BY <1>1, <1>2 DEF PutSettings, TypeInv, AcctTypeOK

\* The initial states, and every step, keep the types and the roles.
LEMMA TypeInit == AcctInit => TypeInv
<1> SUFFICES ASSUME AcctInit PROVE TypeInv
  OBVIOUS
<1>1. plan \in Plans /\ plan.rows \in 0..1 /\ plan.push \in {"unset", "off"} /\ granted = plan.rows
  BY AcctAssumption DEF AcctInit
<1>2. granted \in Nat /\ live \subseteq 1..granted /\ 0 \in 0..granted
  BY <1>1 DEF AcctInit
<1>3. NoConnector \in RowType(granted)
  BY <1>2 DEF NoConnector, RowType
<1>4. ASSUME NEW k \in RowKeys PROVE acct[k] \in RowType(granted)
  <2>1. CASE k <= plan.rows
    <3>1. 1 \in 0..granted
      BY <1>1, <2>1, AcctAssumption
    <3>2. acct[k] = [NoConnector EXCEPT !.here = TRUE, !.push = plan.push, !.grant = 1, !.access = "good"]
      BY <2>1 DEF AcctInit
    <3>3. QED
      BY <1>1, <1>3, <3>1, <3>2 DEF RowType
  <2>2. CASE ~(k <= plan.rows)
    BY <1>3, <2>2 DEF AcctInit
  <2>3. QED
    BY <2>1, <2>2
<1>5. acct \in [RowKeys -> RowType(granted)]
  BY <1>4 DEF AcctInit
<1>6. saved \in [RowKeys -> 0..granted]
  BY <1>4 DEF AcctInit, RowType
<1>7. \A j \in Workers : job[j] = Free
  BY DEF AcctInit
<1>8. Free \in JobType(granted)
  BY <1>2, <1>3 DEF Free, JobType, JobPcs
<1>9. job \in [Workers -> JobType(granted)]
  BY <1>8 DEF AcctInit
<1>10. Roles
  BY <1>7 DEF Roles, Role, Free, Connecting, Calling, Rowless
<1>11. QED
  BY <1>1, <1>2, <1>5, <1>6, <1>9, <1>10 DEF TypeInv, AcctTypeOK, AcctInit

\* A step that leaves rows and grants alone: what is left to see is the handler.
LEMMA OnlyHandlers ==
  ASSUME TypeInv, UNCHANGED <<plan, acct, granted, live, saved, raced>>, hiccups' \in Nat,
         pushing' \in BOOLEAN, doubled' \in BOOLEAN, astray' \subseteq RowKeys,
         job' \in [Workers -> JobType(granted')] /\ Roles'
  PROVE  TypeInv'
BY DEF TypeInv, AcctTypeOK

LEMMA Counted == ASSUME TypeInv, Hiccup \/ Fine PROVE hiccups' \in Nat
BY DEF TypeInv, AcctTypeOK, Hiccup, Fine
LEMMA TypeStep == TypeInv /\ [AcctNext]_acctVars => TypeInv'
<1> SUFFICES ASSUME TypeInv, [AcctNext]_acctVars PROVE TypeInv'
  OBVIOUS
<1>0. /\ \A j \in Workers : job[j] \in JobType(granted) /\ Role(j, job[j], granted)
      /\ granted \in Nat /\ Jobs \subseteq Workers
  BY DEF TypeInv, AcctTypeOK, Roles, Workers
<1>1. ASSUME NEW j \in Jobs, Authorize(j) PROVE TypeInv'
  <2>1. PICK k \in RowKeys \cup {0} :
          job' = [job EXCEPT ![j] = [Free EXCEPT !.kind = "connect", !.pc = "consent", !.k = k]]
    BY <1>1 DEF Authorize, Known, Rows
  <2> DEFINE w == [Free EXCEPT !.kind = "connect", !.pc = "consent", !.k = k]
  <2>2. NoConnector \in RowType(granted) /\ 0 \in 0..granted
    BY <1>0 DEF NoConnector, RowType
  <2>3. w \in JobType(granted)
    BY <2>2 DEF Free, JobType, JobPcs, JobKinds
  <2>4. Role(j, w, granted)
    BY AcctAssumption DEF Role, Free, Connecting, Calling, Rowless
  <2>5. job' = [job EXCEPT ![j] = w] /\ granted' = granted
    BY <1>1, <2>1 DEF Authorize
  <2> HIDE DEF w
  <2>6. job' \in [Workers -> JobType(granted')] /\ Roles'
    BY <1>0, <2>3, <2>4, <2>5, Moves
  <2>7. doubled' \in BOOLEAN
    BY <1>1 DEF Authorize, TypeInv, AcctTypeOK
  <2>8. QED
    BY <1>1, <2>6, <2>7, Counted, OnlyHandlers DEF Authorize, TypeInv, AcctTypeOK
<1>2. ASSUME NEW j \in Jobs, Consent(j) PROVE TypeInv'
  <2>1. 0..granted \subseteq 0..granted' /\ RowType(granted) \subseteq RowType(granted')
        /\ JobType(granted) \subseteq JobType(granted') /\ granted' = granted + 1 /\ granted' \in Nat
    BY <1>0, <1>2, Widens DEF Consent
  <2>2. live' \subseteq 1..granted'
    BY <1>2, <2>1 DEF Consent, TypeInv, AcctTypeOK
  <2>3. job' \in [Workers -> JobType(granted')]
    <3>1. job \in [Workers -> JobType(granted')]
      BY <2>1 DEF TypeInv, AcctTypeOK
    <3>2. granted + 1 \in 0..granted'
      BY <2>1
    <3>3. job' = [job EXCEPT ![j].pc = "read", ![j].grant = granted + 1]
      BY <1>2 DEF Consent
    <3> HIDE DEF TypeInv
    <3>4. job[j] \in JobType(granted') /\ j \in Workers
      BY <1>0, <3>1
    <3>5. [job[j] EXCEPT !.pc = "read", !.grant = granted + 1] \in JobType(granted')
      BY <3>2, <3>4 DEF JobType, JobPcs
    <3>6. QED
      BY <3>1, <3>3, <3>4, <3>5
  <2>4. Roles'
    <3>1. ASSUME NEW i \in Workers PROVE Role(i, job'[i], granted')
      <4>1. job[i] \in JobType(granted) /\ Role(i, job[i], granted)
        BY <1>0
      <4>2. /\ job'[i].kind = job[i].kind /\ job'[i].k = job[i].k /\ job'[i].left = job[i].left
            /\ job'[i].seen = job[i].seen /\ job'[i].pc = IF i = j THEN "read" ELSE job[i].pc
        BY <1>2, <4>1 DEF Consent, JobType, TypeInv, AcctTypeOK
      <4>3. job[j].pc = "consent" /\ job[i].kind \in JobKinds \cup {"none", "renew"}
        BY <1>2, <4>1 DEF Consent, JobType
      <4>4. [RowKeys -> RowType(granted)] \subseteq [RowKeys -> RowType(granted')]
        BY <2>1
      <4>5. job[j].kind = "connect"
        BY <1>0, <4>3 DEF Role, Connecting
      <4>6. CASE i = j
        BY <4>1, <4>2, <4>4, <4>5, <4>6 DEF Role, Connecting, Calling, Rowless
      <4>7. CASE i # j
        BY <4>1, <4>2, <4>4, <4>7 DEF Role, Connecting, Calling, Rowless
      <4>8. QED
        BY <4>6, <4>7
    <3>2. QED
      BY <3>1 DEF Roles
  <2>5. acct' \in [RowKeys -> RowType(granted')] /\ saved' \in [RowKeys -> 0..granted']
    BY <1>2, <2>1 DEF Consent, TypeInv, AcctTypeOK
  <2>6. QED
    BY <1>2, <2>1, <2>2, <2>3, <2>4, <2>5 DEF Consent, Fine, TypeInv, AcctTypeOK
<1>3. ASSUME NEW j \in Jobs, Expire(j) PROVE TypeInv'
  BY <1>0, <1>3, QuitsWell, Counted, OnlyHandlers DEF Expire, Rest, TypeInv, AcctTypeOK
<1>4. ASSUME NEW j \in Workers, NEW kind \in JobKinds \ {"connect"}, Begins(j, kind) PROVE TypeInv'
  <2>1. PICK k \in Rows :
          job' = [job EXCEPT ![j] = [Free EXCEPT !.kind = kind, !.pc = First(kind), !.k = k, !.snap = acct[k]]]
    BY <1>4 DEF Begins
  <2> DEFINE w == [Free EXCEPT !.kind = kind, !.pc = First(kind), !.k = k, !.snap = acct[k]]
  <2>2. k \in RowKeys /\ k # 0 /\ acct[k] \in RowType(granted) /\ 0 \in 0..granted
    BY <1>0, AcctAssumption DEF Rows, TypeInv, AcctTypeOK
  <2>3. First(kind) \in {"same", "call"} /\ (First(kind) = "call" => kind # "notify")
    BY DEF First
  <2>4. w \in JobType(granted)
    BY <2>2, <2>3 DEF Free, JobType, JobPcs
  <2>5. Role(j, w, granted)
    BY <2>2, <2>3 DEF Role, Free, Connecting, Calling, JobKinds
  <2>6. job' = [job EXCEPT ![j] = w] /\ granted' = granted
    BY <1>4, <2>1 DEF Begins, Rest
  <2> HIDE DEF w
  <2>7. job' \in [Workers -> JobType(granted')] /\ Roles'
    BY <2>4, <2>5, <2>6, Moves
  <2>8. QED
    BY <1>4, <2>7, Counted, OnlyHandlers DEF Begins, Rest, TypeInv, AcctTypeOK
<1>5. ASSUME NEW j \in Workers, NEW kind \in {"notify", "renew"}, NEW keys \in SUBSET RowKeys, Sweeps(j, kind, keys)
      PROVE TypeInv'
  <2> DEFINE w == [Free EXCEPT !.kind = kind, !.pc = "next", !.left = keys, !.seen = acct]
  <2>1. NoConnector \in RowType(granted) /\ 0 \in 0..granted /\ acct \in [RowKeys -> RowType(granted)]
    BY <1>0 DEF NoConnector, RowType, TypeInv, AcctTypeOK
  <2>2. w \in JobType(granted)
    BY <2>1 DEF Free, JobType, JobPcs, JobKinds
  <2>3. Role(j, w, granted)
    BY <2>1 DEF Role, Free, Connecting, Calling, Rowless
  <2>4. job' = [job EXCEPT ![j] = w] /\ granted' = granted
    BY <1>5 DEF Sweeps, Rest
  <2> HIDE DEF w
  <2>5. job' \in [Workers -> JobType(granted')] /\ Roles'
    BY <2>2, <2>3, <2>4, Moves
  <2>6. QED
    BY <1>5, <2>5, Counted, OnlyHandlers DEF Sweeps, Rest, TypeInv, AcctTypeOK
<1>6. ASSUME NEW j \in Jobs, Ask(j) PROVE TypeInv'
  <2>1. {k \in Rows : acct[k].push # "off"} \in SUBSET RowKeys
    BY DEF Rows
  <2>2. QED
    BY <1>0, <1>4, <1>5, <1>6, <2>1 DEF Ask, JobKinds
<1>7. ASSUME RenewDue PROVE TypeInv'
  <2>1. {k \in Rows : ShouldRenew(acct[k])} \in SUBSET RowKeys /\ Renewal \in Workers
    BY DEF Rows, Workers
  <2>2. QED
    BY <1>5, <1>7, <2>1 DEF RenewDue
<1>8. ASSUME NEW j \in Workers, CallAnswered(j) PROVE TypeInv'
  <2>1. job[j].kind \in Calling /\ job[j].k # 0
    BY <1>0, <1>8 DEF CallAnswered, Role, Rowless
  <2>2. Answered[job[j].kind] \in {"on", "off", "quit"}
    BY <2>1 DEF Answered, Calling
  <2>3. job' \in [Workers -> JobType(granted')] /\ Roles'
    BY <1>8, <2>1, <2>2, GoesTo DEF CallAnswered, Rest, JobPcs, Calling, Connecting, Rowless
  <2>4. pushing' \in BOOLEAN
    BY <1>8, <2>1 DEF CallAnswered, Told, Calling, TypeInv, AcctTypeOK
  <2>5. QED
    BY <1>8, <2>3, <2>4, Counted, OnlyHandlers DEF CallAnswered, Rest, TypeInv, AcctTypeOK
<1>9. ASSUME NEW j \in Workers, CallFails(j) PROVE TypeInv'
  <2>1. job[j].kind \in Calling /\ job[j].k # 0
    BY <1>0, <1>9 DEF CallFails, Role, Rowless
  <2>2. Refused[job[j].kind] \in {"error", "off", "quit"}
    BY <2>1 DEF Refused, Calling
  <2>3. job' \in [Workers -> JobType(granted')] /\ Roles'
    BY <1>9, <2>1, <2>2, GoesTo DEF CallFails, Rest, JobPcs, Calling, Connecting, Rowless
  <2>4. QED
    BY <1>9, <2>3, Counted, OnlyHandlers DEF CallFails, Rest, TypeInv, AcctTypeOK
<1>10. ASSUME NEW j \in Workers, Refreshes(j) PROVE TypeInv'
  <2>1. job[j].kind \in Calling /\ job[j].k # 0
    BY <1>0, <1>10 DEF Refreshes, Role, Rowless
  <2>2. Refused[job[j].kind] \in {"error", "off", "quit"}
    BY <2>1 DEF Refused, Calling
  <2>3. PICK pc \in {"error", "off", "quit", "save", "erase"} : To(j, pc)
    BY <1>10, <2>2 DEF Refreshes
  <2>4. job' \in [Workers -> JobType(granted')] /\ Roles'
    BY <1>10, <2>1, <2>3, GoesTo DEF Refreshes, Rest, JobPcs, Calling, Connecting, Rowless
  <2>5. QED
    BY <1>10, <2>4, Counted, OnlyHandlers DEF Refreshes, Rest, TypeInv, AcctTypeOK
<1>11. ASSUME NEW j \in Workers, SavesTokens(j) PROVE TypeInv'
  <2> DEFINE w == [job[j] EXCEPT !.pc = "call", !.snap = [job[j].snap EXCEPT !.access = "good"]]
  <2>1. job[j].kind \in Calling /\ job[j].k # 0 /\ job[j].snap.grant \in 0..granted /\ granted' = granted
    BY <1>0, <1>11 DEF SavesTokens, Rest, Role, Rowless, JobType, RowType
  <2>2. w \in JobType(granted)
    <3>1. job[j].snap \in RowType(granted)
      BY <1>0 DEF JobType
    <3>2. [job[j].snap EXCEPT !.access = "good"] \in RowType(granted)
      BY <3>1 DEF RowType
    <3>3. job[j] \in JobType(granted)
      BY <1>0
    <3>4. "call" \in JobPcs
      BY DEF JobPcs
    <3>5. QED
      BY <3>2, <3>3, <3>4 DEF JobType
  <2>3. Role(j, w, granted)
    <3>1. w.pc = "call" /\ w.kind = job[j].kind /\ w.k = job[j].k /\ w.left = job[j].left /\ w.seen = job[j].seen
      BY <1>0 DEF JobType
    <3>2. QED
      BY <1>0, <2>1, <3>1 DEF Role, Connecting
  <2>4. job' = [job EXCEPT ![j] = w]
    BY <1>11 DEF SavesTokens
  <2> HIDE DEF w
  <2>5. job' \in [Workers -> JobType(granted')] /\ Roles'
    BY <2>1, <2>2, <2>3, <2>4, Moves
  <2>6. acct' \in [RowKeys -> RowType(granted')] /\ raced' \subseteq RowKeys
    BY <1>11, <2>1, PutAuthTyped DEF SavesTokens
  <2>7. QED
    BY <1>11, <2>5, <2>6, Counted DEF SavesTokens, Rest, TypeInv, AcctTypeOK
<1>12. ASSUME NEW j \in Workers, ErasesTokens(j) PROVE TypeInv'
  <2>1. job[j].kind \in Calling /\ job[j].k # 0 /\ job[j].snap.grant \in 0..granted /\ granted' = granted
    BY <1>0, <1>12 DEF ErasesTokens, Rest, Role, Rowless, JobType, RowType
  <2>2. Refused[job[j].kind] \in {"error", "off", "quit"}
    BY <2>1 DEF Refused, Calling
  <2>3. job' \in [Workers -> JobType(granted')] /\ Roles'
    BY <1>12, <2>1, <2>2, GoesTo DEF ErasesTokens, Rest, JobPcs, Calling, Connecting, Rowless
  <2>4. acct' \in [RowKeys -> RowType(granted')] /\ raced' \subseteq RowKeys
    BY <1>12, <2>1, PutAuthTyped DEF ErasesTokens
  <2>5. QED
    BY <1>12, <2>3, <2>4, Counted DEF ErasesTokens, Rest, TypeInv, AcctTypeOK
<1>13. ASSUME NEW j \in Workers, ConsumeState(j) PROVE TypeInv'
  <2>1. PICK snap \in RowType(granted) : job' = [job EXCEPT ![j].pc = "exchange", ![j].snap = snap]
    <3>1. NoConnector \in RowType(granted)
      BY <1>0 DEF NoConnector, RowType
    <3>2. job[j].k # 0 => acct[job[j].k] \in RowType(granted)
      BY <1>0 DEF JobType, TypeInv, AcctTypeOK
    <3>3. QED
      BY <1>13, <3>1, <3>2 DEF ConsumeState
  <2> DEFINE w == [job[j] EXCEPT !.pc = "exchange", !.snap = snap]
  <2>2. w \in JobType(granted)
    <3>1. "exchange" \in JobPcs
      BY DEF JobPcs
    <3>2. QED
      BY <1>0, <3>1 DEF JobType
  <2>3. Role(j, w, granted)
    <3>1. w.pc = "exchange" /\ w.kind = job[j].kind /\ w.k = job[j].k /\ w.left = job[j].left /\ w.seen = job[j].seen
      BY <1>0 DEF JobType
    <3>2. QED
      BY <1>0, <1>13, <3>1 DEF ConsumeState, Role, Calling, Connecting, Rowless
  <2>4. job' = [job EXCEPT ![j] = w] /\ granted' = granted
    BY <1>13, <2>1 DEF ConsumeState, Rest
  <2> HIDE DEF w
  <2>5. job' \in [Workers -> JobType(granted')] /\ Roles'
    BY <2>2, <2>3, <2>4, Moves
  <2>6. QED
    BY <1>13, <2>5, Counted, OnlyHandlers DEF ConsumeState, Rest, TypeInv, AcctTypeOK
<1>14. ASSUME NEW j \in Workers, Exchange(j) PROVE TypeInv'
  <2>1. job[j].kind = "connect"
    BY <1>0, <1>14 DEF Exchange, Role, Connecting
  <2>2. job' \in [Workers -> JobType(granted')] /\ Roles'
    <3>1. CASE Quits(j)
      BY <1>14, <3>1, QuitsWell DEF Exchange, Rest
    <3>2. CASE job[j].k = 0 /\ To(j, "create")
      BY <1>14, <2>1, <3>2, GoesTo DEF Exchange, Rest, JobPcs, Rowless
    <3>3. CASE job[j].k # 0 /\ To(j, "auth")
      BY <1>14, <2>1, <3>3, GoesTo DEF Exchange, Rest, JobPcs
    <3>4. QED
      BY <1>14, <3>1, <3>2, <3>3 DEF Exchange
  <2>3. hiccups' \in Nat
    BY <1>14, Counted DEF Exchange
  <2>4. QED
    BY <1>14, <2>2, <2>3, OnlyHandlers DEF Exchange, Rest, TypeInv, AcctTypeOK
<1>15. ASSUME NEW j \in Workers, Create(j) PROVE TypeInv'
  <2>1. /\ job[j].kind = "connect" /\ job[j].grant \in 0..granted /\ granted' = granted
        /\ NoConnector \in RowType(granted)
    BY <1>0, <1>15 DEF Create, Role, Connecting, JobType, RowType, NoConnector
  <2> DEFINE row == [NoConnector EXCEPT !.here = TRUE, !.grant = job[j].grant, !.access = "good"]
  <2>2. PICK k \in RowKeys : /\ acct' = [acct EXCEPT ![k] = row]
                            /\ job' = [job EXCEPT ![j].pc = "auth", ![j].k = k, ![j].snap = row]
    <3>1. PICK k \in RowKeys : /\ acct' = [acct EXCEPT ![k] = row]
                              /\ job' = [job EXCEPT ![j].pc = "auth", ![j].k = k, ![j].snap = acct'[k]]
      BY <1>15 DEF Create
    <3>2. acct'[k] = row
      BY <3>1 DEF TypeInv, AcctTypeOK
    <3>3. QED
      BY <3>1, <3>2
  <2>3. acct' \in [RowKeys -> RowType(granted')] /\ row \in RowType(granted)
    <3>1. row \in RowType(granted)
      BY <2>1 DEF RowType
    <3>2. QED
      BY <2>1, <2>2, <3>1 DEF TypeInv, AcctTypeOK
  <2> HIDE DEF row
  <2> DEFINE w == [job[j] EXCEPT !.pc = "auth", !.k = k, !.snap = row]
  <2>4. w \in JobType(granted)
    BY <1>0, <2>3 DEF JobType, JobPcs
  <2>5. Role(j, w, granted)
    <3>1. w.pc = "auth" /\ w.kind = job[j].kind /\ w.k = k /\ w.left = job[j].left /\ w.seen = job[j].seen
      BY <1>0 DEF JobType
    <3>2. QED
      BY <1>0, <2>1, <3>1, AcctAssumption DEF Role
  <2>6. job' = [job EXCEPT ![j] = w]
    BY <2>2
  <2> HIDE DEF w
  <2>7. job' \in [Workers -> JobType(granted')] /\ Roles'
    BY <2>1, <2>4, <2>5, <2>6, Moves
  <2>8. saved' \in [RowKeys -> 0..granted']
    BY <1>15, <2>1 DEF Create, TypeInv, AcctTypeOK
  <2>9. QED
    BY <1>15, <2>3, <2>7, <2>8, Counted DEF Create, TypeInv, AcctTypeOK
<1>16. ASSUME NEW j \in Workers, SaveGrant(j) PROVE TypeInv'
  <2>1. /\ job[j].kind = "connect" /\ job[j].k # 0 /\ job[j].k \in RowKeys /\ granted' = granted
        /\ NewGrant(j) \in 0..granted /\ job[j].grant \in 0..granted
    BY <1>0, <1>16 DEF SaveGrant, Role, Connecting, Rowless, JobType, NewGrant
  <2>2. job' \in [Workers -> JobType(granted')] /\ Roles'
    BY <1>16, <2>1, GoesTo DEF SaveGrant, JobPcs
  <2>3. acct' \in [RowKeys -> RowType(granted')] /\ raced' \subseteq RowKeys
    BY <1>16, <2>1, PutAuthTyped DEF SaveGrant
  <2>4. saved' \in [RowKeys -> 0..granted']
    BY <1>16, <2>1 DEF SaveGrant, TypeInv, AcctTypeOK
  <2>5. QED
    BY <1>16, <2>2, <2>3, <2>4, Counted DEF SaveGrant, TypeInv, AcctTypeOK
<1>17. ASSUME NEW j \in Workers, SaveSettings(j) PROVE TypeInv'
  <2>1. /\ job[j].kind = "connect" /\ job[j].k # 0 /\ granted' = granted /\ job[j].grant \in 0..granted
        /\ job[j].snap \in RowType(granted)
    BY <1>0, <1>17 DEF SaveSettings, Rest, Role, Connecting, Rowless, JobType
  <2>2. job' \in [Workers -> JobType(granted')] /\ Roles'
    <3>1. CASE Quits(j)
      BY <2>1, <3>1, QuitsWell
    <3>2. CASE job' = [job EXCEPT ![j].pc = "call", ![j].snap.grant = NewGrant(j), ![j].snap.access = "good"]
      <4> DEFINE w == [job[j] EXCEPT !.pc = "call",
                                     !.snap = [job[j].snap EXCEPT !.grant = NewGrant(j), !.access = "good"]]
      <4>1. [job[j].snap EXCEPT !.grant = NewGrant(j), !.access = "good"] \in RowType(granted)
        BY <2>1 DEF RowType, NewGrant
      <4>2. w \in JobType(granted)
        <5>1. "call" \in JobPcs
          BY DEF JobPcs
        <5>2. QED
          BY <1>0, <4>1, <5>1 DEF JobType
      <4>3. Role(j, w, granted)
        <5>1. w.pc = "call" /\ w.kind = job[j].kind /\ w.k = job[j].k /\ w.left = job[j].left /\ w.seen = job[j].seen
          BY <1>0 DEF JobType
        <5>2. QED
          BY <1>0, <2>1, <5>1 DEF Role, Connecting, Calling
      <4>4. job' = [job EXCEPT ![j] = w]
        BY <3>2
      <4> HIDE DEF w
      <4>5. QED
        BY <2>1, <4>2, <4>3, <4>4, Moves
    <3>3. QED
      BY <1>17, <3>1, <3>2 DEF SaveSettings
  <2>3. acct' \in [RowKeys -> RowType(granted')] /\ astray' \subseteq RowKeys
    <3>1. job[j].snap.push \in {"unset", "off", "on", "error"} /\ job[j].snap.due \in BOOLEAN
      BY <2>1 DEF RowType
    <3>2. QED
      BY <1>17, <2>1, <3>1, PutSettingsTyped DEF SaveSettings
  <2>4. QED
    BY <1>17, <2>2, <2>3, Counted DEF SaveSettings, Rest, TypeInv, AcctTypeOK
<1>18. ASSUME NEW j \in Workers, SweepNext(j) PROVE TypeInv'
  BY <1>18, NextRowWell, Counted, OnlyHandlers DEF SweepNext, Rest, TypeInv, AcctTypeOK
<1>19. ASSUME NEW j \in Workers, Concludes(j) PROVE TypeInv'
  <2>1. job[j].k # 0 /\ granted' = granted /\ job[j].snap \in RowType(granted)
    BY <1>0, <1>19 DEF Concludes, Rest, Role, Rowless, JobType
  <2>2. acct' \in [RowKeys -> RowType(granted')] /\ astray' \subseteq RowKeys
    <3>1. PICK push, due : push \in {"unset", "off", "on", "error"} /\ due \in BOOLEAN /\ PutSettings(j, push, due)
      BY <1>19, <2>1 DEF Concludes, RowType
    <3>2. QED
      BY <2>1, <3>1, PutSettingsTyped
  <2>3. job' \in [Workers -> JobType(granted')] /\ Roles'
    BY <1>19, <2>1, NextRowWell DEF Concludes
  <2>4. QED
    BY <1>19, <2>2, <2>3, Counted DEF Concludes, Rest, TypeInv, AcctTypeOK
<1>20. ASSUME NEW j \in Workers, ConcludeFails(j) PROVE TypeInv'
  <2>1. job[j].k # 0 /\ granted' = granted /\ job[j].k \in RowKeys
    BY <1>0, <1>20 DEF ConcludeFails, Rest, Role, Rowless, JobType
  <2>2. job' \in [Workers -> JobType(granted')] /\ Roles'
    <3>1. CASE Quits(j)
      BY <2>1, <3>1, QuitsWell
    <3>2. CASE NextRow(j)
      BY <2>1, <3>2, NextRowWell
    <3>3. CASE To(j, "error")
      BY <2>1, <3>3, GoesTo DEF JobPcs, Calling, Connecting
    <3>4. QED
      BY <1>20, <3>1, <3>2, <3>3 DEF ConcludeFails
  <2>3. astray' \subseteq RowKeys
    BY <1>20, <2>1 DEF ConcludeFails, TypeInv, AcctTypeOK
  <2>4. QED
    BY <1>20, <2>2, <2>3, Counted, OnlyHandlers DEF ConcludeFails, Rest, TypeInv, AcctTypeOK
<1>21. ASSUME NEW j \in Workers, Done(j) PROVE TypeInv'
  BY <1>0, <1>21, QuitsWell, Counted, OnlyHandlers DEF Done, Rest, TypeInv, AcctTypeOK
<1>22. ASSUME NEW k \in RowKeys, Ages(k) PROVE TypeInv'
  <2>1. acct' = [acct EXCEPT ![k].due = TRUE] /\ UNCHANGED <<plan, pushing, granted, live, job, hiccups, astray, raced, saved, doubled>>
    BY <1>22 DEF Ages
  <2>2. acct' \in [RowKeys -> RowType(granted)]
    BY <1>0, <2>1 DEF RowType, TypeInv, AcctTypeOK
  <2>3. QED
    BY <1>0, <2>1, <2>2 DEF TypeInv, AcctTypeOK, Roles
<1>23. ASSUME NEW k \in RowKeys, TokenExpires(k) PROVE TypeInv'
  BY <1>23 DEF TokenExpires, TypeInv, AcctTypeOK, Roles, RowType
<1>24. ASSUME Lapse PROVE TypeInv'
  BY <1>24 DEF Lapse, TypeInv, AcctTypeOK, Roles
<1>25. ASSUME Revoke PROVE TypeInv'
  BY <1>24, <1>25, Counted DEF Revoke, TypeInv, AcctTypeOK, Roles
<1>26. ASSUME UNCHANGED acctVars PROVE TypeInv'
  BY <1>26 DEF acctVars, TypeInv, AcctTypeOK, Roles
<1>27. QED
  BY <1>1, <1>2, <1>3, <1>6, <1>7, <1>8, <1>9, <1>10, <1>11, <1>12, <1>13, <1>14, <1>15, <1>16, <1>17, <1>18,
     <1>19, <1>20, <1>21, <1>22, <1>23, <1>24, <1>25, <1>26 DEF AcctNext, GoesOn

\* Rows, readings and handlers hold only grants the user has given.
THEOREM TypeCorrect == AcctSpec => []AcctTypeOK
<1>1. AcctSpec => []TypeInv
  BY TypeInit, TypeStep, PTL DEF AcctSpec
<1>2. TypeInv => AcctTypeOK
  BY DEF TypeInv
<1>3. QED
  BY <1>1, <1>2, PTL
-----------------------------------------------------------------------------
\* A handler that quits, sweeps on or goes elsewhere does not begin to await a consent.
LEMMA NoNewDraft ==
  ASSUME TypeInv, NEW j \in Workers, NEW pc \in JobPcs,
         \/ Quits(j) \/ NextRow(j)
         \/ To(j, pc) /\ (pc \in {"consent", "read", "exchange", "create"} => Awaiting(j))
  PROVE  \A i \in Workers : Awaiting(i)' => Awaiting(i)
<1> SUFFICES ASSUME NEW i \in Workers, Awaiting(i)' PROVE Awaiting(i)
  OBVIOUS
<1>0. job \in [Workers -> JobType(granted)] /\ job[i] \in JobType(granted) /\ job[j] \in JobType(granted)
  BY DEF TypeInv, AcctTypeOK
<1>1. CASE Quits(j)
  <2>1. PICK w \in {Free, [Free EXCEPT !.pc = "over"]} : job' = [job EXCEPT ![j] = w]
    BY <1>1 DEF Quits
  <2>2. w.pc \in {"free", "over"}
    BY DEF Free
  <2>3. QED
    BY <1>0, <2>1, <2>2 DEF Awaiting
<1>2. CASE NextRow(j) /\ ~Quits(j)
  <2>1. PICK k \in job[j].left :
          job' = [job EXCEPT ![j].pc = First(job[j].kind), ![j].k = k, ![j].snap = job[j].seen[k],
                             ![j].left = @ \ {k}]
    BY <1>2 DEF NextRow
  <2>2. i # j => job'[i] = job[i]
    BY <1>0, <2>1
  <2>3. job'[j].pc \in {"same", "call"}
    BY <1>0, <2>1 DEF First, JobType
  <2>4. QED
    BY <2>2, <2>3 DEF Awaiting
<1>3. CASE To(j, pc) /\ (pc \in {"consent", "read", "exchange", "create"} => Awaiting(j))
  <2>1. job'[i].kind = job[i].kind /\ job'[i].k = job[i].k /\ job'[i].pc = IF i = j THEN pc ELSE job[i].pc
    BY <1>0, <1>3 DEF To, JobType
  <2>2. QED
    BY <1>3, <2>1 DEF Awaiting
<1>4. QED
  BY <1>1, <1>2, <1>3

\* The two columns are written into rows that are there.
LEMMA SameRows ==
  ASSUME TypeInv, NEW j \in Workers, NEW a, NEW b, PutAuth(j, a, b) \/ PutSettings(j, a, b) \/ acct' = acct
  PROVE  Rows' = Rows
<1>1. ASSUME NEW k \in RowKeys PROVE acct'[k].here = acct[k].here
  BY DEF TypeInv, AcctTypeOK, RowType, PutAuth, PutSettings
<1>2. QED
  BY <1>1 DEF Rows

\* A step that makes no row and begins no draft keeps the invariant.
LEMMA OneFrame ==
  ASSUME OneInv, doubled' = doubled, Rows' = Rows, \A i \in Workers : Awaiting(i)' => Awaiting(i)
  PROVE  OneInv'
BY DEF OneInv

LEMMA OneInit == AcctInit => OneInv
<1> SUFFICES ASSUME AcctInit PROVE OneInv
  OBVIOUS
<1>1. \A i \in Workers : ~Awaiting(i)
  BY DEF AcctInit, Awaiting, Free
<1>2. ASSUME NEW k \in Rows PROVE k = 1
  <2>1. k \in RowKeys /\ acct[k].here
    BY DEF Rows
  <2>2. k <= plan.rows
    BY <2>1 DEF AcctInit, NoConnector
  <2>3. QED
    BY <2>1, <2>2, AcctAssumption DEF AcctInit
<1>3. QED
  BY <1>1, <1>2 DEF OneInv
LEMMA OneStep == TypeInv /\ OneInv /\ [AcctNext]_acctVars => OneInv'
<1> SUFFICES ASSUME TypeInv, OneInv, [AcctNext]_acctVars PROVE OneInv'
  OBVIOUS
<1>0. /\ job \in [Workers -> JobType(granted)] /\ Jobs \subseteq Workers
      /\ \A j \in Workers : job[j] \in JobType(granted) /\ Role(j, job[j], granted)
  BY DEF TypeInv, AcctTypeOK, Roles, Workers
<1>1. ASSUME NEW j \in Jobs, Authorize(j) PROVE OneInv'
  <2> SUFFICES ASSUME ~doubled' PROVE OneInv'
    BY DEF OneInv
  <2>1. PICK k \in IF Known = {} THEN {0} ELSE Known :
          /\ job' = [job EXCEPT ![j] = [Free EXCEPT !.kind = "connect", !.pc = "consent", !.k = k]]
          /\ doubled' = (doubled \/ (k = 0 /\ \E i \in Jobs : Awaiting(i)))
    BY <1>1 DEF Authorize
  <2>2. ~doubled /\ Rows' = Rows
    <3>1. ~doubled
      BY <2>1, Zenon
    <3>2. Rows' = Rows
      BY <1>1 DEF Authorize, Rows
    <3>3. QED
      BY <3>1, <3>2
  <2>3. \A i \in Workers : i # j => job'[i] = job[i]
    BY <1>0, <2>1
  <2>4. ASSUME NEW i \in Workers, Awaiting(i) PROVE i \in Jobs
    BY <1>0, <2>4 DEF Awaiting, Role, Workers
  <2>5. CASE Known # {}
    <3>1. job'[j].k # 0
      BY <1>0, <2>1, <2>5, AcctAssumption DEF Known, Rows, Free
    <3>2. \A i \in Workers : Awaiting(i)' => Awaiting(i)
      BY <2>3, <3>1 DEF Awaiting
    <3>3. QED
      BY <2>2, <3>2 DEF OneInv
  <2>6. CASE Known = {}
    <3>1. k = 0
      BY <2>1, <2>6
    <3>2. \A i \in Workers : ~Awaiting(i)
      BY <2>1, <2>4, <3>1
    <3>3. \A i \in Workers : Awaiting(i)' => i = j
      BY <2>3, <3>2 DEF Awaiting
    <3>4. QED
      BY <2>2, <2>6, <3>3 DEF OneInv, Known
  <2>7. QED
    BY <2>5, <2>6
<1>2. ASSUME NEW j \in Jobs, Consent(j) PROVE OneInv'
  <2>1. Awaiting(j) \/ job[j].k # 0
    BY <1>0, <1>2 DEF Consent, Awaiting, Role, Connecting
  <2>2. \A i \in Workers : job'[i].kind = job[i].kind /\ job'[i].k = job[i].k /\ (i # j => job'[i].pc = job[i].pc)
    BY <1>0, <1>2 DEF Consent, JobType
  <2>3. \A i \in Workers : Awaiting(i)' => Awaiting(i)
    BY <2>1, <2>2 DEF Awaiting
  <2>4. Rows' = Rows /\ doubled' = doubled
    BY <1>2 DEF Consent, Rows
  <2>5. QED
    BY <2>3, <2>4, OneFrame
<1>3. ASSUME NEW j \in Jobs, Expire(j) PROVE OneInv'
  BY <1>0, <1>3, NoNewDraft, SameRows, OneFrame DEF Expire, Rest, JobPcs
<1>4. ASSUME NEW j \in Workers, NEW kind \in JobKinds \cup {"renew"}, kind # "connect",
             Begins(j, kind) \/ \E keys : Sweeps(j, kind, keys)
      PROVE OneInv'
  <2>1. Rows' = Rows /\ doubled' = doubled
    BY <1>4, SameRows DEF Begins, Sweeps, Rest
  <2>2. PICK w : job' = [job EXCEPT ![j] = w] /\ w.kind = kind
    <3>1. CASE Begins(j, kind)
      <4>1. PICK k \in Rows :
              job' = [job EXCEPT ![j] = [Free EXCEPT !.kind = kind, !.pc = First(kind), !.k = k, !.snap = acct[k]]]
        BY <3>1 DEF Begins
      <4>2. [Free EXCEPT !.kind = kind, !.pc = First(kind), !.k = k, !.snap = acct[k]].kind = kind
        BY DEF Free
      <4>3. QED
        BY <4>1, <4>2
    <3>2. CASE \E keys : Sweeps(j, kind, keys)
      <4>1. PICK keys : job' = [job EXCEPT ![j] = [Free EXCEPT !.kind = kind, !.pc = "next", !.left = keys, !.seen = acct]]
        BY <3>2 DEF Sweeps
      <4>2. [Free EXCEPT !.kind = kind, !.pc = "next", !.left = keys, !.seen = acct].kind = kind
        BY DEF Free
      <4>3. QED
        BY <4>1, <4>2
    <3>3. QED
      BY <1>4, <3>1, <3>2
  <2>3. \A i \in Workers : Awaiting(i)' => Awaiting(i)
    BY <1>0, <1>4, <2>2 DEF Awaiting
  <2>4. QED
    BY <2>1, <2>3, OneFrame
<1>5. ASSUME NEW j \in Jobs, Ask(j) PROVE OneInv'
  BY <1>0, <1>4, <1>5 DEF Ask, JobKinds
<1>6. ASSUME RenewDue PROVE OneInv'
  BY <1>4, <1>6 DEF RenewDue, Workers
<1>7. ASSUME NEW j \in Workers, CallAnswered(j) \/ CallFails(j) \/ Refreshes(j) \/ ErasesTokens(j) PROVE OneInv'
  <2>1. job[j].kind \in Calling
    BY <1>0, <1>7 DEF CallAnswered, CallFails, Refreshes, ErasesTokens, Role
  <2>2. PICK pc \in {"on", "off", "quit", "error", "save", "erase"} : To(j, pc)
    BY <1>7, <2>1 DEF CallAnswered, CallFails, Refreshes, ErasesTokens, Answered, Refused, Calling
  <2>3. \A i \in Workers : Awaiting(i)' => Awaiting(i)
    BY <2>2, NoNewDraft DEF JobPcs
  <2>4. Rows' = Rows /\ doubled' = doubled
    BY <1>7, SameRows DEF CallAnswered, CallFails, Refreshes, ErasesTokens, Rest
  <2>5. QED
    BY <2>3, <2>4, OneFrame
<1>8. ASSUME NEW j \in Workers, SavesTokens(j) PROVE OneInv'
  <2>1. Rows' = Rows /\ doubled' = doubled
    BY <1>8, SameRows DEF SavesTokens, Rest
  <2>2. \A i \in Workers : IF i = j THEN job'[i].pc = "call" ELSE job'[i] = job[i]
    BY <1>0, <1>8 DEF SavesTokens, JobType
  <2>3. \A i \in Workers : Awaiting(i)' => Awaiting(i)
    BY <2>2 DEF Awaiting
  <2>4. QED
    BY <2>1, <2>3, OneFrame
<1>9. ASSUME NEW j \in Workers, ConsumeState(j) PROVE OneInv'
  <2>1. Rows' = Rows /\ doubled' = doubled
    BY <1>9, SameRows DEF ConsumeState, Rest
  <2>2. \A i \in Workers : job'[i].kind = job[i].kind /\ job'[i].k = job[i].k /\ (i # j => job'[i].pc = job[i].pc)
    BY <1>0, <1>9 DEF ConsumeState, JobType
  <2>3. \A i \in Workers : Awaiting(i)' => Awaiting(i)
    BY <1>9, <2>2 DEF ConsumeState, Awaiting
  <2>4. QED
    BY <2>1, <2>3, OneFrame
<1>10. ASSUME NEW j \in Workers, Exchange(j) PROVE OneInv'
  <2>1. job[j].kind = "connect"
    BY <1>0, <1>10 DEF Exchange, Role, Connecting
  <2>2. Quits(j) \/ (job[j].k = 0 /\ To(j, "create")) \/ To(j, "auth")
    BY <1>10 DEF Exchange
  <2>3. job[j].k = 0 => Awaiting(j)
    BY <1>10, <2>1 DEF Exchange, Awaiting
  <2>4. \A i \in Workers : Awaiting(i)' => Awaiting(i)
    BY <2>2, <2>3, NoNewDraft DEF JobPcs
  <2>5. Rows' = Rows /\ doubled' = doubled
    BY <1>10, SameRows DEF Exchange, Rest
  <2>6. QED
    BY <2>4, <2>5, OneFrame
<1>11. ASSUME NEW j \in Workers, Create(j) PROVE OneInv'
  <2> SUFFICES ASSUME ~doubled' PROVE OneInv'
    BY DEF OneInv
  <2>1. PICK k \in RowKeys :
          /\ acct' = [acct EXCEPT ![k] = [NoConnector EXCEPT !.here = TRUE, !.grant = job[j].grant, !.access = "good"]]
          /\ job' = [job EXCEPT ![j].pc = "auth", ![j].k = k, ![j].snap = acct'[k]]
    BY <1>11 DEF Create
  <2>2. Awaiting(j) /\ ~doubled
    BY <1>0, <1>11 DEF Create, Awaiting, Role, Connecting
  <2>3. Rows = {} /\ \A i \in Workers : Awaiting(i) => i = j
    BY <2>2 DEF OneInv
  <2>4. \A l \in Rows' : l = k
    BY <2>1, <2>3 DEF Rows, TypeInv, AcctTypeOK
  <2>5. \A i \in Workers : IF i = j THEN job'[i].pc = "auth" ELSE job'[i] = job[i]
    BY <1>0, <2>1 DEF JobType
  <2>6. \A i \in Workers : ~Awaiting(i)'
    BY <2>3, <2>5 DEF Awaiting
  <2>7. QED
    BY <2>4, <2>6 DEF OneInv
<1>12. ASSUME NEW j \in Workers, SaveGrant(j) PROVE OneInv'
  BY <1>12, NoNewDraft, SameRows, OneFrame DEF SaveGrant, JobPcs
<1>13. ASSUME NEW j \in Workers, SaveSettings(j) PROVE OneInv'
  <2>1. Rows' = Rows /\ doubled' = doubled
    BY <1>13, SameRows DEF SaveSettings, Rest
  <2>2. \A i \in Workers : Awaiting(i)' => Awaiting(i)
    <3>1. CASE Quits(j)
      BY <3>1, NoNewDraft DEF JobPcs
    <3>2. CASE job' = [job EXCEPT ![j].pc = "call", ![j].snap.grant = NewGrant(j), ![j].snap.access = "good"]
      <4>1. \A i \in Workers : IF i = j THEN job'[i].pc = "call" ELSE job'[i] = job[i]
        BY <1>0, <3>2 DEF JobType
      <4>2. QED
        BY <4>1 DEF Awaiting
    <3>3. QED
      BY <1>13, <3>1, <3>2 DEF SaveSettings
  <2>3. QED
    BY <2>1, <2>2, OneFrame
<1>14. ASSUME NEW j \in Workers, SweepNext(j) \/ Concludes(j) \/ ConcludeFails(j) \/ Done(j) PROVE OneInv'
  <2>1. Rows' = Rows /\ doubled' = doubled
    BY <1>14, SameRows DEF SweepNext, Concludes, ConcludeFails, Done, Rest
  <2>2. Quits(j) \/ NextRow(j) \/ To(j, "error")
    BY <1>14 DEF SweepNext, Concludes, ConcludeFails, Done
  <2>3. QED
    BY <2>1, <2>2, NoNewDraft, OneFrame DEF JobPcs
<1>15. ASSUME NEW k \in RowKeys, Ages(k) \/ TokenExpires(k) PROVE OneInv'
  <2>1. \A l \in RowKeys : acct'[l].here = acct[l].here
    BY <1>15 DEF Ages, TokenExpires, TypeInv, AcctTypeOK, RowType
  <2>2. QED
    BY <1>15, <2>1, OneFrame DEF Ages, TokenExpires, Rows, Awaiting
<1>16. ASSUME Lapse \/ Revoke \/ UNCHANGED acctVars PROVE OneInv'
  BY <1>16, OneFrame DEF Lapse, Revoke, acctVars, Rows, Awaiting
<1>17. QED
  BY <1>1, <1>2, <1>3, <1>5, <1>6, <1>7, <1>8, <1>9, <1>10, <1>11, <1>12, <1>13, <1>14, <1>15, <1>16
  DEF AcctNext, GoesOn

\* However authorizations and callbacks cross, an address gets one connector, unless two
\* drafts of it were on their way at once.
THEOREM ConnectsOnce == AcctSpec => []OneConnector
<1>1. AcctSpec => [](TypeInv /\ OneInv)
  BY TypeInit, TypeStep, OneInit, OneStep, PTL DEF AcctSpec
<1>2. OneInv => OneConnector
  <2> SUFFICES ASSUME OneInv, ~doubled PROVE Cardinality(Rows) <= 1
    BY DEF OneConnector
  <2>1. CASE Rows = {}
    BY <2>1, FS_EmptySet
  <2>2. CASE Rows # {}
    <3>1. PICK k : k \in Rows
      BY <2>2
    <3>2. Rows = {k}
      BY <3>1 DEF OneInv
    <3>3. QED
      BY <3>2, FS_Singleton
  <2>3. QED
    BY <2>1, <2>2
<1>3. QED
  BY <1>1, <1>2, PTL
-----------------------------------------------------------------------------
\* A handler that is about to write the grant of its callback, as it was before.
Carries(i) == job[i].pc = "auth" /\ job'[i].grant = job[i].grant /\ job'[i].snap.grant = job[i].snap.grant

LEMMA NoNewGrant ==
  ASSUME TypeInv, NEW j \in Workers, NEW pc \in JobPcs \ {"auth"}, Quits(j) \/ NextRow(j) \/ To(j, pc)
  PROVE  \A i \in Workers : job'[i].pc = "auth" => Carries(i)
<1> SUFFICES ASSUME NEW i \in Workers, job'[i].pc = "auth" PROVE Carries(i)
  OBVIOUS
<1>0. job \in [Workers -> JobType(granted)] /\ job[i] \in JobType(granted) /\ job[j] \in JobType(granted)
  BY DEF TypeInv, AcctTypeOK
<1>1. CASE i # j
  <2>1. job'[i] = job[i]
    <3>1. CASE Quits(j)
      BY <1>0, <1>1, <3>1 DEF Quits
    <3>2. CASE NextRow(j) /\ ~Quits(j)
      BY <1>0, <1>1, <3>2 DEF NextRow
    <3>3. CASE To(j, pc)
      BY <1>0, <1>1, <3>3 DEF To
    <3>4. QED
      BY <3>1, <3>2, <3>3
  <2>2. QED
    BY <2>1 DEF Carries
<1>2. CASE i = j
  <2>1. job'[j].pc # "auth"
    <3>1. CASE Quits(j)
      <4>1. PICK w \in {Free, [Free EXCEPT !.pc = "over"]} : job' = [job EXCEPT ![j] = w]
        BY <3>1 DEF Quits
      <4>2. w.pc \in {"free", "over"}
        BY DEF Free
      <4>3. QED
        BY <1>0, <4>1, <4>2
    <3>2. CASE NextRow(j) /\ ~Quits(j)
      <4>1. PICK k \in job[j].left :
              job' = [job EXCEPT ![j].pc = First(job[j].kind), ![j].k = k, ![j].snap = job[j].seen[k],
                                 ![j].left = @ \ {k}]
        BY <3>2 DEF NextRow
      <4>2. QED
        BY <1>0, <4>1 DEF First, JobType
    <3>3. CASE To(j, pc)
      BY <1>0, <3>3 DEF To, JobType
    <3>4. QED
      BY <3>1, <3>2, <3>3
  <2>2. QED
    BY <1>2, <2>1
<1>3. QED
  BY <1>1, <1>2

\* A step that leaves the grants, or writes them over what it did not read.
LEMMA GrantFrame ==
  ASSUME GrantInv, live' = live, saved' = saved, Rows' = Rows, raced \subseteq raced',
         \A k \in Rows \ raced' : acct'[k].grant = acct[k].grant,
         \A i \in Workers : job'[i].pc = "auth" => Carries(i)
  PROVE  GrantInv'
<1>1. GrantKept'
  BY DEF GrantInv, GrantKept
<1>2. Exchanged'
  BY DEF GrantInv, Exchanged, Carries
<1>3. QED
  BY <1>1, <1>2 DEF GrantInv

\* A handler that writes back the grant it read changes nothing, or the row is raced.
LEMMA PutBack ==
  ASSUME TypeInv, NEW j \in Workers, job[j].k # 0, NEW access,
         PutAuth(j, job[j].snap.grant, access)
  PROVE  raced \subseteq raced' /\ \A k \in Rows \ raced' : acct'[k].grant = acct[k].grant
<1>1. job[j].k \in RowKeys /\ acct \in [RowKeys -> RowType(granted)]
  BY DEF TypeInv, AcctTypeOK, JobType
<1>2. raced' = IF acct[job[j].k].grant # job[j].snap.grant THEN raced \cup {job[j].k} ELSE raced
  BY DEF PutAuth, Late
<1>3. \A k \in RowKeys : acct'[k].grant = IF k = job[j].k THEN job[j].snap.grant ELSE acct[k].grant
  BY <1>1 DEF PutAuth, RowType
<1>4. QED
  BY <1>2, <1>3 DEF Rows

LEMMA PutSettingsKeeps ==
  ASSUME TypeInv, NEW j \in Workers, NEW push, NEW due, PutSettings(j, push, due)
  PROVE  \A k \in Rows : acct'[k].grant = acct[k].grant
BY DEF TypeInv, AcctTypeOK, RowType, PutSettings, Rows

LEMMA GrantInit == AcctInit => GrantInv
<1> SUFFICES ASSUME AcctInit PROVE GrantInv
  OBVIOUS
<1>1. GrantKept
  BY DEF AcctInit, GrantKept, Rows
<1>2. Exchanged
  BY DEF AcctInit, Exchanged, Free
<1>3. QED
  BY <1>1, <1>2 DEF GrantInv

LEMMA GrantStep == TypeInv /\ GrantInv /\ [AcctNext]_acctVars => GrantInv'
<1> SUFFICES ASSUME TypeInv, GrantInv, [AcctNext]_acctVars PROVE GrantInv'
  OBVIOUS
<1>0. /\ job \in [Workers -> JobType(granted)] /\ Jobs \subseteq Workers /\ granted \in Nat
      /\ \A j \in Workers : job[j] \in JobType(granted) /\ Role(j, job[j], granted)
      /\ acct \in [RowKeys -> RowType(granted)] /\ saved \in [RowKeys -> 0..granted] /\ live \subseteq 1..granted
  BY DEF TypeInv, AcctTypeOK, Roles, Workers
<1>1. ASSUME NEW j \in Workers, NEW w, job' = [job EXCEPT ![j] = w], w.pc # "auth",
             UNCHANGED <<acct, live, saved, raced>>
      PROVE GrantInv'
  <2>1. \A i \in Workers : job'[i].pc = "auth" => Carries(i)
    BY <1>0, <1>1 DEF Carries
  <2>2. Rows' = Rows
    BY <1>1 DEF Rows
  <2>3. QED
    BY <1>1, <2>1, <2>2, GrantFrame
<1>2. ASSUME NEW j \in Jobs, Authorize(j) PROVE GrantInv'
  <2>1. PICK k : job' = [job EXCEPT ![j] = [Free EXCEPT !.kind = "connect", !.pc = "consent", !.k = k]]
    BY <1>2 DEF Authorize
  <2>2. [Free EXCEPT !.kind = "connect", !.pc = "consent", !.k = k].pc = "consent"
    BY DEF Free
  <2>3. QED
    BY <1>0, <1>1, <1>2, <2>1, <2>2 DEF Authorize
<1>3. ASSUME NEW j \in Jobs, Consent(j) PROVE GrantInv'
  <2>1. /\ live' = live \cup {granted + 1} /\ UNCHANGED <<acct, saved, raced>>
        /\ job' = [job EXCEPT ![j].pc = "read", ![j].grant = granted + 1]
    BY <1>3 DEF Consent
  <2>2. GrantKept'
    <3>1. \A k \in RowKeys : saved[k] # granted + 1
      BY <1>0
    <3>2. QED
      BY <2>1, <3>1 DEF GrantInv, GrantKept, Rows
  <2>3. ASSUME NEW i \in Workers, job'[i].pc = "auth", job'[i].snap.grant \in live' PROVE job'[i].grant \in live'
    <3>1. i # j /\ job'[i] = job[i]
      BY <1>0, <2>1, <2>3 DEF JobType
    <3>2. job[i].snap.grant \in 0..granted
      BY <1>0 DEF JobType, RowType
    <3>3. job[i].snap.grant \in live
      BY <1>0, <2>1, <2>3, <3>1, <3>2
    <3>4. QED
      BY <2>1, <2>3, <3>1, <3>3 DEF GrantInv, Exchanged
  <2>4. QED
    BY <2>2, <2>3 DEF GrantInv, Exchanged
<1>4. ASSUME NEW j \in Workers, NEW kind, Begins(j, kind) \/ \E keys : Sweeps(j, kind, keys) PROVE GrantInv'
  <2>1. PICK w : job' = [job EXCEPT ![j] = w] /\ w.pc # "auth"
    <3>1. CASE Begins(j, kind)
      <4>1. PICK k \in Rows :
              job' = [job EXCEPT ![j] = [Free EXCEPT !.kind = kind, !.pc = First(kind), !.k = k, !.snap = acct[k]]]
        BY <3>1 DEF Begins
      <4>2. [Free EXCEPT !.kind = kind, !.pc = First(kind), !.k = k, !.snap = acct[k]].pc # "auth"
        BY DEF Free, First
      <4>3. QED
        BY <4>1, <4>2
    <3>2. CASE \E keys : Sweeps(j, kind, keys)
      <4>1. PICK keys : job' = [job EXCEPT ![j] = [Free EXCEPT !.kind = kind, !.pc = "next", !.left = keys, !.seen = acct]]
        BY <3>2 DEF Sweeps
      <4>2. [Free EXCEPT !.kind = kind, !.pc = "next", !.left = keys, !.seen = acct].pc # "auth"
        BY DEF Free
      <4>3. QED
        BY <4>1, <4>2
    <3>3. QED
      BY <1>4, <3>1, <3>2
  <2>2. QED
    BY <1>1, <1>4, <2>1 DEF Begins, Sweeps, Rest
<1>5. ASSUME NEW j \in Jobs, Ask(j) PROVE GrantInv'
  BY <1>0, <1>4, <1>5 DEF Ask
<1>6. ASSUME RenewDue PROVE GrantInv'
  BY <1>4, <1>6 DEF RenewDue, Workers
<1>7. ASSUME NEW j \in Workers, NEW pc \in JobPcs \ {"auth"}, Quits(j) \/ NextRow(j) \/ To(j, pc),
             UNCHANGED <<acct, live, saved, raced>>
      PROVE GrantInv'
  <2>1. Rows' = Rows
    BY <1>7 DEF Rows
  <2>2. QED
    BY <1>7, <2>1, NoNewGrant, GrantFrame
<1>8. ASSUME NEW j \in Jobs, Expire(j) PROVE GrantInv'
  BY <1>0, <1>7, <1>8 DEF Expire, Rest, JobPcs
<1>9. ASSUME NEW j \in Workers, CallAnswered(j) \/ CallFails(j) \/ Refreshes(j) PROVE GrantInv'
  <2>1. job[j].kind \in Calling
    BY <1>0, <1>9 DEF CallAnswered, CallFails, Refreshes, Role
  <2>2. PICK pc \in {"on", "off", "quit", "error", "save", "erase"} : To(j, pc)
    BY <1>9, <2>1 DEF CallAnswered, CallFails, Refreshes, Answered, Refused, Calling
  <2>3. QED
    BY <1>7, <1>9, <2>2 DEF CallAnswered, CallFails, Refreshes, Rest, JobPcs
<1>10. ASSUME NEW j \in Workers, SavesTokens(j) \/ ErasesTokens(j) PROVE GrantInv'
  <2>1. job[j].kind \in Calling /\ job[j].k # 0
    BY <1>0, <1>10 DEF SavesTokens, ErasesTokens, Role, Rowless
  <2>2. PICK access : PutAuth(j, job[j].snap.grant, access)
    BY <1>10 DEF SavesTokens, ErasesTokens
  <2>3. \A i \in Workers : job'[i].pc = "auth" => Carries(i)
    <3>1. CASE SavesTokens(j)
      <4>1. \A i \in Workers : IF i = j THEN job'[i].pc = "call" ELSE job'[i] = job[i]
        BY <1>0, <3>1 DEF SavesTokens, JobType
      <4>2. QED
        BY <4>1 DEF Carries
    <3>2. CASE ErasesTokens(j)
      <4>1. Refused[job[j].kind] \in JobPcs \ {"auth"} /\ To(j, Refused[job[j].kind])
        BY <2>1, <3>2 DEF ErasesTokens, Refused, Calling, JobPcs
      <4>2. QED
        BY <4>1, NoNewGrant
    <3>3. QED
      BY <1>10, <3>1, <3>2
  <2>4. Rows' = Rows
    BY <2>2, SameRows
  <2>5. QED
    BY <1>10, <2>1, <2>2, <2>3, <2>4, PutBack, GrantFrame DEF SavesTokens, ErasesTokens, Rest
<1>11. ASSUME NEW j \in Workers, ConsumeState(j) PROVE GrantInv'
  <2>1. \A i \in Workers : IF i = j THEN job'[i].pc = "exchange" ELSE job'[i] = job[i]
    BY <1>0, <1>11 DEF ConsumeState, JobType
  <2>2. \A i \in Workers : job'[i].pc = "auth" => Carries(i)
    BY <2>1 DEF Carries
  <2>3. QED
    BY <1>11, <2>2, GrantFrame DEF ConsumeState, Rest, Rows
<1>12. ASSUME NEW j \in Workers, Exchange(j) PROVE GrantInv'
  <2>1. CASE Quits(j) \/ To(j, "create")
    BY <1>7, <1>12, <2>1 DEF Exchange, Rest, JobPcs
  <2>2. CASE job[j].grant \in live /\ To(j, "auth")
    <3>1. \A i \in Workers : IF i = j THEN job'[i].grant = job[i].grant ELSE job'[i] = job[i]
      BY <1>0, <2>2 DEF To, JobType
    <3>2. Exchanged'
      BY <1>12, <2>2, <3>1 DEF Exchange, Rest, GrantInv, Exchanged
    <3>3. GrantKept'
      BY <1>12 DEF Exchange, Rest, GrantInv, GrantKept, Rows
    <3>4. QED
      BY <3>2, <3>3 DEF GrantInv
  <2>3. QED
    BY <1>12, <2>1, <2>2 DEF Exchange
<1>13. ASSUME NEW j \in Workers, Create(j) PROVE GrantInv'
  <2> DEFINE row == [NoConnector EXCEPT !.here = TRUE, !.grant = job[j].grant, !.access = "good"]
  <2>1. PICK k \in RowKeys \ Rows : /\ acct' = [acct EXCEPT ![k] = row]
                                    /\ job' = [job EXCEPT ![j].pc = "auth", ![j].k = k, ![j].snap = row]
                                    /\ saved' = [saved EXCEPT ![k] = job[j].grant]
    <3>1. PICK k \in RowKeys \ Rows : /\ acct' = [acct EXCEPT ![k] = row]
                                      /\ job' = [job EXCEPT ![j].pc = "auth", ![j].k = k, ![j].snap = acct'[k]]
                                      /\ saved' = [saved EXCEPT ![k] = job[j].grant]
      BY <1>13 DEF Create
    <3>2. acct'[k] = row
      BY <1>0, <3>1
    <3>3. QED
      BY <3>1, <3>2
  <2>2. row.grant = job[j].grant /\ row.here
    BY DEF NoConnector
  <2> HIDE DEF row
  <2>3. UNCHANGED <<live, raced>>
    BY <1>13 DEF Create
  <2>4. GrantKept'
    BY <1>0, <2>1, <2>2, <2>3 DEF GrantInv, GrantKept, Rows
  <2>5. \A i \in Workers : IF i = j THEN job'[i].grant = job[j].grant /\ job'[i].snap = row ELSE job'[i] = job[i]
    BY <1>0, <2>1 DEF JobType
  <2>6. Exchanged'
    BY <2>2, <2>3, <2>5 DEF GrantInv, Exchanged
  <2>7. QED
    BY <2>4, <2>6 DEF GrantInv
<1>14. ASSUME NEW j \in Workers, SaveGrant(j) PROVE GrantInv'
  <2> DEFINE k == job[j].k
  <2>1. job[j].pc = "auth" /\ k \in RowKeys /\ job[j].grant \in Nat
    BY <1>0, <1>14, SMTT(60) DEF SaveGrant, Role, Rowless, JobType
  <2>2. /\ \A l \in RowKeys : acct'[l].grant = IF l = k THEN job[j].grant ELSE acct[l].grant
        /\ raced' = IF acct[k].grant # job[j].snap.grant THEN raced \cup {k} ELSE raced
    BY <1>0, <1>14, <2>1 DEF SaveGrant, NewGrant, PutAuth, Late, RowType
  <2>3. \A l \in RowKeys : saved'[l] = IF l = k /\ saved[l] < job[j].grant THEN job[j].grant ELSE saved[l]
    BY <1>0, <1>14, <2>1 DEF SaveGrant
  <2>4. live' = live /\ Rows' = Rows
    BY <1>14, SameRows DEF SaveGrant
  <2>5. ASSUME NEW l \in Rows \ raced', saved'[l] \in live PROVE acct'[l].grant \in live
    <3>1. l \in RowKeys /\ l \notin raced
      BY <2>2, <2>5 DEF Rows
    <3>2. CASE l # k
      BY <2>2, <2>3, <2>5, <3>1, <3>2 DEF GrantInv, GrantKept
    <3>3. CASE l = k
      <4>1. acct[k].grant = job[j].snap.grant
        BY <2>2, <2>5, <3>3
      <4>2. saved[k] \in live => job[j].grant \in live
        BY <2>1, <2>5, <3>1, <3>3, <4>1 DEF GrantInv, GrantKept, Exchanged
      <4>3. QED
        BY <2>2, <2>3, <2>5, <3>1, <3>3, <4>2
    <3>4. QED
      BY <3>2, <3>3
  <2>6. GrantKept'
    BY <2>4, <2>5 DEF GrantKept
  <2>7. \A i \in Workers : job'[i].pc = "auth" => Carries(i)
    BY <1>14, NoNewGrant DEF SaveGrant, JobPcs
  <2>8. Exchanged'
    BY <2>4, <2>7 DEF GrantInv, Exchanged, Carries
  <2>9. QED
    BY <2>6, <2>8 DEF GrantInv
<1>15. ASSUME NEW j \in Workers, SaveSettings(j) PROVE GrantInv'
  <2>1. \A i \in Workers : job'[i].pc = "auth" => Carries(i)
    <3>1. CASE Quits(j)
      BY <3>1, NoNewGrant DEF JobPcs
    <3>2. CASE job' = [job EXCEPT ![j].pc = "call", ![j].snap.grant = NewGrant(j), ![j].snap.access = "good"]
      <4>1. \A i \in Workers : IF i = j THEN job'[i].pc = "call" ELSE job'[i] = job[i]
        BY <1>0, <3>2 DEF JobType
      <4>2. QED
        BY <4>1 DEF Carries
    <3>3. QED
      BY <1>15, <3>1, <3>2 DEF SaveSettings
  <2>2. PutSettings(j, job[j].snap.push, job[j].snap.due)
    BY <1>15 DEF SaveSettings
  <2>3. Rows' = Rows /\ \A k \in Rows : acct'[k].grant = acct[k].grant
    BY <2>2, SameRows, PutSettingsKeeps
  <2>4. QED
    BY <1>15, <2>1, <2>3, GrantFrame DEF SaveSettings, Rest
<1>16. ASSUME NEW j \in Workers, Concludes(j) PROVE GrantInv'
  <2>1. PICK push, due : PutSettings(j, push, due)
    BY <1>16 DEF Concludes
  <2>2. Rows' = Rows /\ \A k \in Rows : acct'[k].grant = acct[k].grant
    BY <2>1, SameRows, PutSettingsKeeps
  <2>3. \A i \in Workers : job'[i].pc = "auth" => Carries(i)
    BY <1>16, NoNewGrant DEF Concludes, JobPcs
  <2>4. QED
    BY <1>16, <2>2, <2>3, GrantFrame DEF Concludes, Rest
<1>17. ASSUME NEW j \in Workers, SweepNext(j) \/ ConcludeFails(j) \/ Done(j) PROVE GrantInv'
  <2>1. Quits(j) \/ NextRow(j) \/ To(j, "error")
    BY <1>17 DEF SweepNext, ConcludeFails, Done
  <2>2. QED
    BY <1>7, <1>17, <2>1 DEF SweepNext, ConcludeFails, Done, Rest, JobPcs
<1>18. ASSUME NEW k \in RowKeys, Ages(k) \/ TokenExpires(k) PROVE GrantInv'
  <2>1. \A l \in RowKeys : acct'[l].here = acct[l].here /\ acct'[l].grant = acct[l].grant
    BY <1>0, <1>18 DEF Ages, TokenExpires, RowType
  <2>2. Rows' = Rows /\ \A l \in Rows : acct'[l].grant = acct[l].grant
    BY <2>1 DEF Rows
  <2>3. \A i \in Workers : job'[i].pc = "auth" => Carries(i)
    BY <1>18 DEF Ages, TokenExpires, Carries
  <2>4. QED
    BY <1>18, <2>2, <2>3, GrantFrame DEF Ages, TokenExpires
<1>19. ASSUME Revoke PROVE GrantInv'
  BY <1>19 DEF Revoke, GrantInv, GrantKept, Exchanged, Rows
<1>20. ASSUME Lapse \/ UNCHANGED acctVars PROVE GrantInv'
  BY <1>20 DEF Lapse, acctVars, GrantInv, GrantKept, Exchanged, Rows
<1>21. QED
  BY <1>2, <1>3, <1>5, <1>6, <1>8, <1>9, <1>10, <1>11, <1>12, <1>13, <1>14, <1>15, <1>16, <1>17, <1>18, <1>19, <1>20
  DEF AcctNext, GoesOn

\* However handlers write auth_config back over each other, a row keeps a good grant while
\* the one a callback wrote is good, but for handlers that read the row before it did.
THEOREM GrantStays == AcctSpec => []GrantKept
<1>1. AcctSpec => [](TypeInv /\ GrantInv)
  BY TypeInit, TypeStep, GrantInit, GrantStep, PTL DEF AcctSpec
<1>2. GrantInv => GrantKept
  BY DEF GrantInv
<1>3. QED
  BY <1>1, <1>2, PTL
-----------------------------------------------------------------------------
\* What Gmail was told: a handler works on a row that is there, and only one that asked
\* Gmail to push is about to write so.
Fits(w) ==
  /\ (w.k # 0 => w.k \in Rows) /\ w.left \subseteq Rows
  /\ w.pc = "on" => w.kind \in {"enable", "renew", "connect"}
  /\ w.pc = "off" => w.kind = "disable"
Said(k) == acct[k].push = "on" /\ ~acct[k].due
\* While nobody is about to write that Gmail does not push, it pushes if the row says so or
\* somebody is about to write so.
ToldSo(k) ==
  Rows = {k} /\ (\A j \in Workers : job[j].pc # "off") /\ (Said(k) \/ \E j \in Workers : job[j].pc = "on") => pushing
PushInv == (\A j \in Workers : Fits(job[j])) /\ \A k \in RowKeys \ astray : ToldSo(k)

LEMMA OneMoves ==
  ASSUME TypeInv, NEW j \in Workers, NEW w, job' = [job EXCEPT ![j] = w]
  PROVE  \A i \in Workers : job'[i] = IF i = j THEN w ELSE job[i]
BY DEF TypeInv, AcctTypeOK

\* A step of a handler that is about to tell or to write nothing, or what others have told.
LEMMA PushFrame ==
  ASSUME TypeInv, PushInv, NEW j \in Workers, NEW w, job' = [job EXCEPT ![j] = w], Fits(w), w.pc # "on", job[j].pc # "off",
         Rows' = Rows, pushing' = pushing, astray \subseteq astray', \A k \in Rows \ astray' : Said(k)' => Said(k)
  PROVE  PushInv'
<1>1. \A i \in Workers : job'[i] = IF i = j THEN w ELSE job[i]
  BY OneMoves
<1>2. ASSUME NEW i \in Workers PROVE Fits(job[i])'
  BY <1>1 DEF PushInv, Fits
<1>3. ASSUME NEW k \in RowKeys \ astray' PROVE ToldSo(k)'
  <2>1. ToldSo(k)
    BY DEF PushInv
  <2>2. (\A i \in Workers : job'[i].pc # "off") => \A i \in Workers : job[i].pc # "off"
    BY <1>1
  <2>3. (\E i \in Workers : job'[i].pc = "on") => \E i \in Workers : job[i].pc = "on"
    BY <1>1
  <2>4. QED
    BY <2>1, <2>2, <2>3 DEF ToldSo
<1>4. QED
  BY <1>2, <1>3 DEF PushInv

LEMMA GoesWell ==
  ASSUME TypeInv, PushInv, NEW j \in Workers, NEW pc \in JobPcs \ {"on"}, pc = "off" => job[j].kind = "disable",
         Quits(j) \/ NextRow(j) \/ To(j, pc)
  PROVE  \E w : job' = [job EXCEPT ![j] = w] /\ Fits(w) /\ w.pc # "on"
<1>0. job[j] \in JobType(granted) /\ Fits(job[j])
  BY DEF TypeInv, AcctTypeOK, PushInv
<1>1. CASE Quits(j)
  <2>1. PICK w \in {Free, [Free EXCEPT !.pc = "over"]} : job' = [job EXCEPT ![j] = w]
    BY <1>1 DEF Quits
  <2>2. w.pc \in {"free", "over"} /\ w.k = 0 /\ w.left = {}
    BY DEF Free
  <2>3. QED
    BY <2>1, <2>2 DEF Fits
<1>2. CASE NextRow(j) /\ ~Quits(j)
  <2>1. PICK k \in job[j].left :
          job' = [job EXCEPT ![j].pc = First(job[j].kind), ![j].k = k, ![j].snap = job[j].seen[k],
                             ![j].left = @ \ {k}]
    BY <1>2 DEF NextRow
  <2> DEFINE w == [job[j] EXCEPT !.pc = First(job[j].kind), !.k = k, !.snap = job[j].seen[k],
                                 !.left = job[j].left \ {k}]
  <2>2. job' = [job EXCEPT ![j] = w]
    BY <2>1
  <2>3. w.k = k /\ w.left = job[j].left \ {k} /\ w.pc \in {"same", "call"}
    BY <1>0 DEF JobType, First
  <2> HIDE DEF w
  <2>4. QED
    BY <1>0, <2>2, <2>3 DEF Fits
<1>3. CASE To(j, pc)
  <2> DEFINE w == [job[j] EXCEPT !.pc = pc]
  <2>1. job' = [job EXCEPT ![j] = w]
    BY <1>3 DEF To
  <2>2. w.k = job[j].k /\ w.left = job[j].left /\ w.pc = pc /\ w.kind = job[j].kind
    BY <1>0 DEF JobType
  <2> HIDE DEF w
  <2>3. QED
    BY <1>0, <2>1, <2>2 DEF Fits
<1>4. QED
  BY <1>1, <1>2, <1>3

\* The two columns: the tokens say nothing of the push, and settings that are written as
\* they were read change nothing, or the row is astray.
LEMMA PutAuthSays ==
  ASSUME TypeInv, NEW j \in Workers, NEW a, NEW b, PutAuth(j, a, b) PROVE \A k \in Rows : Said(k)' <=> Said(k)
BY DEF TypeInv, AcctTypeOK, RowType, PutAuth, Rows, Said

LEMMA PutSettingsSays ==
  ASSUME TypeInv, NEW j \in Workers, job[j].k # 0, NEW push, NEW due, PutSettings(j, push, due)
  PROVE  /\ astray \subseteq astray' /\ (Overtakes(j) => job[j].k \in astray')
         /\ \A k \in Rows : IF k = job[j].k THEN Said(k)' <=> push = "on" /\ ~due ELSE Said(k)' <=> Said(k)
         /\ push = job[j].snap.push /\ due = job[j].snap.due => \A k \in Rows \ astray' : Said(k)' <=> Said(k)
<1>1. job[j].k \in RowKeys /\ acct \in [RowKeys -> RowType(granted)] /\ Rows \subseteq RowKeys
  BY DEF TypeInv, AcctTypeOK, JobType, Rows
<1>2. astray' = IF Overtakes(j) \/ <<acct[job[j].k].push, acct[job[j].k].due>> # <<job[j].snap.push, job[j].snap.due>>
                  THEN astray \cup {job[j].k} ELSE astray
  BY DEF PutSettings
<1>3. \A k \in RowKeys : /\ k = job[j].k => acct'[k].push = push /\ acct'[k].due = due
                         /\ k # job[j].k => acct'[k] = acct[k]
  BY <1>1 DEF PutSettings, RowType
<1>4. \A k \in Rows : IF k = job[j].k THEN Said(k)' <=> push = "on" /\ ~due ELSE Said(k)' <=> Said(k)
  BY <1>1, <1>3 DEF Said
<1>5. ASSUME push = job[j].snap.push, due = job[j].snap.due, NEW k \in Rows \ astray' PROVE Said(k)' <=> Said(k)
  <2>1. k = job[j].k => acct[k].push = push /\ acct[k].due = due
    BY <1>2, <1>5
  <2>2. QED
    BY <1>4, <2>1 DEF Said
<1>6. QED
  BY <1>2, <1>4, <1>5

LEMMA PushStarts == AcctInit => PushInv
<1> SUFFICES ASSUME AcctInit PROVE PushInv
  OBVIOUS
<1>1. \A j \in Workers : job[j] = Free
  BY DEF AcctInit
<1>2. \A j \in Workers : Fits(job[j])
  BY <1>1 DEF Fits, Free
<1>3. ASSUME NEW k \in RowKeys PROVE acct[k].push \in {"unset", "off"}
  BY <1>3, AcctAssumption DEF AcctInit, NoConnector
<1>4. ASSUME NEW k \in RowKeys PROVE ToldSo(k)
  BY <1>1, <1>3 DEF ToldSo, Said, Free
<1>5. QED
  BY <1>2, <1>4 DEF PushInv

LEMMA PushStep == TypeInv /\ PushInv /\ [AcctNext]_acctVars => PushInv'
<1> SUFFICES ASSUME TypeInv, PushInv, [AcctNext]_acctVars PROVE PushInv'
  OBVIOUS
<1>0. /\ job \in [Workers -> JobType(granted)] /\ Jobs \subseteq Workers /\ acct \in [RowKeys -> RowType(granted)]
      /\ \A j \in Workers : job[j] \in JobType(granted) /\ Role(j, job[j], granted) /\ Fits(job[j])
      /\ Rows \subseteq RowKeys /\ pushing \in BOOLEAN
  BY DEF TypeInv, AcctTypeOK, Roles, Workers, PushInv, Rows
\* Steps that leave the rows and Gmail, or write what says nothing of the push.
<1>1. ASSUME NEW j \in Workers, NEW w, job' = [job EXCEPT ![j] = w], Fits(w), w.pc # "on", job[j].pc # "off",
             UNCHANGED <<pushing, acct, astray>>
      PROVE  PushInv'
  <2>1. Rows' = Rows /\ \A k : Said(k)' <=> Said(k)
    BY <1>1 DEF Rows, Said
  <2>2. QED
    BY <1>1, <2>1, PushFrame
<1>2. ASSUME NEW j \in Workers, NEW pc \in JobPcs \ {"on"}, pc = "off" => job[j].kind = "disable",
             Quits(j) \/ NextRow(j) \/ To(j, pc), job[j].pc # "off", UNCHANGED <<pushing, acct, astray>>
      PROVE  PushInv'
  BY <1>1, <1>2, GoesWell
<1>3. ASSUME NEW j \in Jobs, Authorize(j) PROVE PushInv'
  <2>1. PICK k \in IF Known = {} THEN {0} ELSE Known :
          job' = [job EXCEPT ![j] = [Free EXCEPT !.kind = "connect", !.pc = "consent", !.k = k]]
    BY <1>3 DEF Authorize
  <2> DEFINE w == [Free EXCEPT !.kind = "connect", !.pc = "consent", !.k = k]
  <2>2. w.pc = "consent" /\ w.k = k /\ w.left = {} /\ (k # 0 => k \in Rows)
    BY <2>1 DEF Free, Known
  <2>3. job' = [job EXCEPT ![j] = w] /\ job[j].pc = "free" /\ UNCHANGED <<pushing, acct, astray>>
    BY <1>3, <2>1 DEF Authorize
  <2> HIDE DEF w
  <2>4. Fits(w)
    BY <2>2 DEF Fits
  <2>5. QED
    BY <1>0, <1>1, <2>2, <2>3, <2>4
<1>4. ASSUME NEW j \in Jobs, Consent(j) PROVE PushInv'
  <2> DEFINE w == [job[j] EXCEPT !.pc = "read", !.grant = granted + 1]
  <2>1. job' = [job EXCEPT ![j] = w] /\ job[j].pc = "consent" /\ UNCHANGED <<pushing, acct, astray>>
    BY <1>4 DEF Consent
  <2>2. w.pc = "read" /\ w.k = job[j].k /\ w.left = job[j].left
    BY <1>0 DEF JobType
  <2> HIDE DEF w
  <2>3. Fits(w)
    BY <1>0, <2>2 DEF Fits
  <2>4. QED
    BY <1>0, <1>1, <2>1, <2>2, <2>3
<1>5. ASSUME NEW j \in Workers, NEW kind, Begins(j, kind) \/ \E keys \in SUBSET Rows : Sweeps(j, kind, keys) PROVE PushInv'
  <2>1. PICK w : job' = [job EXCEPT ![j] = w] /\ Fits(w) /\ w.pc # "on"
    <3>1. CASE Begins(j, kind)
      <4>1. PICK k \in Rows :
              job' = [job EXCEPT ![j] = [Free EXCEPT !.kind = kind, !.pc = First(kind), !.k = k, !.snap = acct[k]]]
        BY <3>1 DEF Begins
      <4> DEFINE w == [Free EXCEPT !.kind = kind, !.pc = First(kind), !.k = k, !.snap = acct[k]]
      <4>2. w.k = k /\ w.left = {} /\ w.pc \in {"same", "call"}
        BY DEF Free, First
      <4> HIDE DEF w
      <4>3. Fits(w)
        BY <4>2 DEF Fits
      <4>4. QED
        BY <4>1, <4>2, <4>3 DEF w
    <3>2. CASE \E keys \in SUBSET Rows : Sweeps(j, kind, keys)
      <4>1. PICK keys \in SUBSET Rows :
              job' = [job EXCEPT ![j] = [Free EXCEPT !.kind = kind, !.pc = "next", !.left = keys, !.seen = acct]]
        BY <3>2 DEF Sweeps
      <4> DEFINE w == [Free EXCEPT !.kind = kind, !.pc = "next", !.left = keys, !.seen = acct]
      <4>2. w.k = 0 /\ w.left = keys /\ w.pc = "next"
        BY DEF Free
      <4> HIDE DEF w
      <4>3. Fits(w)
        BY <4>2 DEF Fits
      <4>4. QED
        BY <4>1, <4>2, <4>3 DEF w
    <3>3. QED
      BY <1>5, <3>1, <3>2
  <2>2. job[j].pc = "free" /\ UNCHANGED <<pushing, acct, astray>>
    BY <1>5 DEF Begins, Sweeps, Rest
  <2>3. QED
    BY <1>1, <2>1, <2>2
<1>6. ASSUME NEW j \in Jobs, Ask(j) PROVE PushInv'
  <2>1. {k \in Rows : acct[k].push # "off"} \in SUBSET Rows
    OBVIOUS
  <2>2. QED
    BY <1>0, <1>5, <1>6, <2>1 DEF Ask
<1>7. ASSUME RenewDue PROVE PushInv'
  <2>1. {k \in Rows : ShouldRenew(acct[k])} \in SUBSET Rows
    OBVIOUS
  <2>2. QED
    BY <1>5, <1>7, <2>1 DEF RenewDue, Workers
<1>8. ASSUME NEW j \in Workers, CallAnswered(j) PROVE PushInv'
  <2>1. job[j].pc = "call" /\ job[j].kind \in Calling /\ UNCHANGED <<acct, astray>> /\ To(j, Answered[job[j].kind])
    BY <1>0, <1>8 DEF CallAnswered, Role
  <2> DEFINE w == [job[j] EXCEPT !.pc = Answered[job[j].kind]]
  <2>2. job' = [job EXCEPT ![j] = w]
    BY <2>1 DEF To
  <2>3. w.k = job[j].k /\ w.left = job[j].left /\ w.kind = job[j].kind /\ w.pc = Answered[job[j].kind]
    BY <1>0 DEF JobType
  <2> HIDE DEF w
  <2>4. /\ job[j].kind \in {"enable", "renew", "connect"} => w.pc = "on" /\ pushing'
        /\ job[j].kind = "disable" => w.pc = "off"
        /\ job[j].kind = "use" => w.pc = "quit" /\ pushing' = pushing
    <3>1. Told(j)
      BY <1>8 DEF CallAnswered
    <3>2. ASSUME job[j].kind \in {"enable", "renew", "connect"} PROVE w.pc = "on" /\ pushing'
      <4>1. w.pc = "on"
        BY <2>3, <3>2 DEF Answered
      <4>2. pushing' = TRUE
        BY <3>1, <3>2 DEF Told
      <4>3. QED
        BY <4>1, <4>2
    <3>3. ASSUME job[j].kind = "disable" PROVE w.pc = "off"
      BY <2>3, <3>3 DEF Answered
    <3>4. ASSUME job[j].kind = "use" PROVE w.pc = "quit" /\ pushing' = pushing
      <4>1. w.pc = "quit"
        BY <2>3, <3>4 DEF Answered
      <4>2. pushing' = pushing
        BY <3>1, <3>4 DEF Told
      <4>3. QED
        BY <4>1, <4>2
    <3>5. QED
      BY <3>2, <3>3, <3>4
  <2>5. Fits(w)
    BY <1>0, <2>1, <2>3, <2>4 DEF Fits, Calling
  <2>6. Rows' = Rows /\ \A i \in Workers : job'[i] = IF i = j THEN w ELSE job[i]
    BY <2>1, <2>2, OneMoves DEF Rows
  <2>7. \A i \in Workers : Fits(job[i])'
    BY <1>0, <2>5, <2>6 DEF Fits
  <2>8. CASE job[j].kind \in {"enable", "renew", "connect"}
    BY <2>4, <2>7, <2>8 DEF PushInv, ToldSo
  <2>9. CASE job[j].kind = "disable"
    BY <2>4, <2>6, <2>7, <2>9 DEF PushInv, ToldSo
  <2>10. CASE job[j].kind = "use"
    BY <1>1, <2>1, <2>2, <2>4, <2>5, <2>10
  <2>11. QED
    BY <2>1, <2>8, <2>9, <2>10 DEF Calling
<1>9. ASSUME NEW j \in Workers, CallFails(j) \/ Refreshes(j) PROVE PushInv'
  <2>1. job[j].pc = "call" /\ job[j].kind \in Calling /\ UNCHANGED <<pushing, acct, astray>>
    BY <1>0, <1>9 DEF CallFails, Refreshes, Role, Rest
  <2>2. Refused[job[j].kind] \in JobPcs \ {"on"} /\ (Refused[job[j].kind] = "off" => job[j].kind = "disable")
    BY <2>1 DEF Refused, Calling, JobPcs
  <2>3. PICK pc \in {Refused[job[j].kind], "save", "erase"} : To(j, pc)
    BY <1>9 DEF CallFails, Refreshes
  <2>4. QED
    BY <1>2, <2>1, <2>2, <2>3 DEF JobPcs
<1>10. ASSUME NEW j \in Workers, SavesTokens(j) PROVE PushInv'
  <2>1. /\ job[j].pc = "save" /\ PutAuth(j, job[j].snap.grant, "good") /\ UNCHANGED <<pushing, astray>>
        /\ job' = [job EXCEPT ![j].pc = "call", ![j].snap.access = "good"]
    BY <1>10 DEF SavesTokens
  <2> DEFINE w == [job[j] EXCEPT !.pc = "call", !.snap = [@ EXCEPT !.access = "good"]]
  <2>2. job' = [job EXCEPT ![j] = w]
    BY <1>0, <2>1
  <2>3. w.k = job[j].k /\ w.left = job[j].left /\ w.pc = "call"
    BY <1>0 DEF JobType
  <2> HIDE DEF w
  <2>4. Fits(w) /\ Rows' = Rows /\ \A k \in Rows : Said(k)' <=> Said(k)
    BY <1>0, <2>1, <2>3, SameRows, PutAuthSays DEF Fits
  <2>5. QED
    BY <2>1, <2>2, <2>3, <2>4, PushFrame
<1>11. ASSUME NEW j \in Workers, ErasesTokens(j) PROVE PushInv'
  <2>1. /\ job[j].pc = "erase" /\ PutAuth(j, job[j].snap.grant, "none") /\ UNCHANGED <<pushing, astray>>
        /\ To(j, Refused[job[j].kind]) /\ job[j].kind \in Calling
    BY <1>0, <1>11 DEF ErasesTokens, Role
  <2>2. Refused[job[j].kind] \in JobPcs \ {"on"} /\ (Refused[job[j].kind] = "off" => job[j].kind = "disable")
    BY <2>1 DEF Refused, Calling, JobPcs
  <2>3. PICK w : job' = [job EXCEPT ![j] = w] /\ Fits(w) /\ w.pc # "on"
    BY <2>1, <2>2, GoesWell
  <2>4. Rows' = Rows /\ \A k \in Rows : Said(k)' <=> Said(k)
    BY <2>1, SameRows, PutAuthSays
  <2>5. QED
    BY <2>1, <2>3, <2>4, PushFrame
<1>12. ASSUME NEW j \in Workers, Expire(j) \/ Exchange(j) \/ SweepNext(j) \/ Done(j) PROVE PushInv'
  <2>1. job[j].pc # "off" /\ UNCHANGED <<pushing, acct, astray>>
    BY <1>12 DEF Expire, Exchange, SweepNext, Done, Rest
  <2>2. Quits(j) \/ NextRow(j) \/ To(j, "create") \/ To(j, "auth")
    BY <1>12 DEF Expire, Exchange, SweepNext, Done
  <2>3. QED
    BY <1>2, <2>1, <2>2 DEF JobPcs
<1>13. ASSUME NEW j \in Workers, ConsumeState(j) PROVE PushInv'
  <2> DEFINE snap == IF job[j].k = 0 THEN NoConnector ELSE acct[job[j].k]
             w == [job[j] EXCEPT !.pc = "exchange", !.snap = snap]
  <2>1. job' = [job EXCEPT ![j] = w] /\ job[j].pc = "read" /\ UNCHANGED <<pushing, acct, astray>>
    BY <1>13 DEF ConsumeState, Rest
  <2> HIDE DEF snap
  <2>2. w.pc = "exchange" /\ w.k = job[j].k /\ w.left = job[j].left
    BY <1>0 DEF JobType
  <2> HIDE DEF w
  <2>3. Fits(w)
    BY <1>0, <2>2 DEF Fits
  <2>4. QED
    BY <1>1, <2>1, <2>2, <2>3
<1>14. ASSUME NEW j \in Workers, Create(j) PROVE PushInv'
  <2>1. PICK k \in RowKeys \ Rows :
          /\ acct' = [acct EXCEPT ![k] = [NoConnector EXCEPT !.here = TRUE, !.grant = job[j].grant, !.access = "good"]]
          /\ job' = [job EXCEPT ![j].pc = "auth", ![j].k = k, ![j].snap = acct'[k]]
    BY <1>14 DEF Create
  <2>a. PICK row : row = acct'[k]
    OBVIOUS
  <2> DEFINE w == [job[j] EXCEPT !.pc = "auth", !.k = k, !.snap = row]
  <2>2. job' = [job EXCEPT ![j] = w]
    <3>1. job' = [job EXCEPT ![j].pc = "auth", ![j].k = k, ![j].snap = row]
      BY <2>1, <2>a
    <3>2. j \in DOMAIN job
      BY <1>0
    <3>3. QED
      BY <3>1, <3>2
  <2>3. w.k = k /\ w.left = job[j].left /\ w.pc = "auth"
    BY <1>0 DEF JobType
  <2> HIDE DEF w
  <2>4. acct'[k].here /\ acct'[k].push = "unset" /\ \A l \in RowKeys : l # k => acct'[l] = acct[l]
    BY <1>0, <2>1 DEF NoConnector
  <2>5. Rows' = Rows \cup {k}
    BY <2>4 DEF Rows
  <2>6. \A i \in Workers : job'[i] = IF i = j THEN w ELSE job[i]
    BY <2>2, OneMoves
  <2>7. \A i \in Workers : Fits(job[i])'
    BY <1>0, <2>3, <2>5, <2>6 DEF Fits
  <2>8. ASSUME NEW l \in RowKeys, Rows' = {l} PROVE ToldSo(l)'
    <3>1. l = k /\ Rows = {}
      BY <2>5, <2>8
    <3>2. \A i \in Workers : job[i].k = 0
      BY <1>0, <3>1 DEF Fits
    <3>3. \A i \in Workers : job'[i].pc # "on"
      BY <1>0, <2>3, <2>6, <3>2 DEF Role, Rowless
    <3>4. QED
      BY <2>4, <3>1, <3>3 DEF ToldSo, Said
  <2>9. QED
    BY <2>7, <2>8 DEF PushInv, ToldSo
<1>15. ASSUME NEW j \in Workers, SaveGrant(j) PROVE PushInv'
  <2>1. job[j].pc = "auth" /\ PutAuth(j, NewGrant(j), "good") /\ To(j, "settings") /\ UNCHANGED <<pushing, astray>>
    BY <1>15 DEF SaveGrant
  <2>2. PICK w : job' = [job EXCEPT ![j] = w] /\ Fits(w) /\ w.pc # "on"
    BY <2>1, GoesWell DEF JobPcs
  <2>3. Rows' = Rows /\ \A k \in Rows : Said(k)' <=> Said(k)
    BY <2>1, SameRows, PutAuthSays
  <2>4. QED
    BY <2>1, <2>2, <2>3, PushFrame
<1>16. ASSUME NEW j \in Workers, SaveSettings(j) PROVE PushInv'
  <2>1. job[j].pc = "settings" /\ PutSettings(j, job[j].snap.push, job[j].snap.due) /\ pushing' = pushing /\ job[j].k # 0
    BY <1>0, <1>16 DEF SaveSettings, Role, Rowless
  <2>2. PICK w : job' = [job EXCEPT ![j] = w] /\ Fits(w) /\ w.pc # "on"
    <3>1. CASE Quits(j)
      BY <3>1, GoesWell DEF JobPcs
    <3>2. CASE job' = [job EXCEPT ![j].pc = "call", ![j].snap.grant = NewGrant(j), ![j].snap.access = "good"]
      <4> DEFINE snap == [job[j].snap EXCEPT !.grant = NewGrant(j), !.access = "good"]
                 w == [job[j] EXCEPT !.pc = "call", !.snap = snap]
      <4>1. job' = [job EXCEPT ![j] = w]
        BY <1>0, <3>2
      <4> HIDE DEF snap
      <4>2. w.k = job[j].k /\ w.left = job[j].left /\ w.pc = "call"
        BY <1>0 DEF JobType
      <4> HIDE DEF w
      <4>3. Fits(w)
        BY <1>0, <4>2 DEF Fits
      <4>4. QED
        BY <4>1, <4>2, <4>3
    <3>3. QED
      BY <1>16, <3>1, <3>2 DEF SaveSettings
  <2>3. Rows' = Rows /\ astray \subseteq astray' /\ \A k \in Rows \ astray' : Said(k)' <=> Said(k)
    BY <2>1, SameRows, PutSettingsSays
  <2>4. QED
    BY <2>1, <2>2, <2>3, PushFrame
<1>17. ASSUME NEW j \in Workers, Concludes(j) PROVE PushInv'
  <2> DEFINE pc == job[j].pc
             push == IF pc = "same" THEN job[j].snap.push ELSE pc
             due == pc # "on" /\ job[j].snap.due
  <2>1. pc \in {"on", "off", "error", "same"} /\ PutSettings(j, push, due) /\ NextRow(j) /\ pushing' = pushing /\ job[j].k # 0
    BY <1>0, <1>17 DEF Concludes, Role, Rowless
  <2>2. PICK w : job' = [job EXCEPT ![j] = w] /\ Fits(w) /\ w.pc # "on"
    <3>1. "free" \in JobPcs \ {"on"}
      BY DEF JobPcs
    <3>2. QED
      BY <2>1, <3>1, GoesWell
  <2>3. /\ Rows' = Rows /\ astray \subseteq astray' /\ (Overtakes(j) => job[j].k \in astray')
        /\ \A k \in Rows : IF k = job[j].k THEN Said(k)' <=> push = "on" /\ ~due ELSE Said(k)' <=> Said(k)
        /\ push = job[j].snap.push /\ due = job[j].snap.due => \A k \in Rows \ astray' : Said(k)' <=> Said(k)
    <3> HIDE DEF push, due
    <3>1. QED
      BY <2>1, SameRows, PutSettingsSays
  <2>4. \A i \in Workers : job'[i] = IF i = j THEN w ELSE job[i]
    BY <2>2, OneMoves
  <2>5. \A i \in Workers : Fits(job[i])'
    BY <1>0, <2>2, <2>3, <2>4 DEF Fits
  <2>6. CASE pc \in {"error", "same"}
    <3>1. \A k \in Rows \ astray' : Said(k)' => Said(k)
      <4>1. CASE pc = "error"
        BY <2>3, <4>1
      <4>2. CASE pc = "same"
        <5>1. job[j].snap \in RowType(granted)
          BY <1>0 DEF JobType
        <5>2. job[j].snap.due \in BOOLEAN
          BY <5>1 DEF RowType
        <5>3. due = job[j].snap.due
          BY <4>2, <5>2
        <5>4. QED
          BY <2>3, <4>2, <5>3
      <4>3. QED
        BY <2>6, <4>1, <4>2
    <3>2. QED
      BY <2>1, <2>2, <2>3, <2>6, <3>1, PushFrame
  <2>7. ASSUME pc \in {"on", "off"}, NEW k \in RowKeys \ astray', Rows' = {k}, \A i \in Workers : job'[i].pc # "off",
               Said(k)' \/ \E i \in Workers : job'[i].pc = "on"
        PROVE  pushing
    <3>1. Rows = {k} /\ ToldSo(k) /\ \A i \in Workers : job[i].k # 0 => job[i].k = k
      BY <1>0, <2>3, <2>7 DEF PushInv, Fits
    <3>2. CASE pc = "on"
      <4>1. \A i \in Workers : job[i].pc # "off"
        BY <2>4, <2>7, <3>2
      <4>2. QED
        BY <3>1, <3>2, <4>1 DEF ToldSo
    <3>3. CASE pc = "off"
      <4>1. job[j].k = k /\ ~Overtakes(j) /\ ~Said(k)'
        BY <2>1, <2>3, <2>7, <3>1, <3>3
      <4>2. PICK i \in Workers : job[i].pc = "on"
        BY <2>2, <2>4, <2>7, <4>1
      <4>3. job[i].k = k
        BY <1>0, <3>1, <4>2 DEF Role, Rowless
      <4>4. QED
        BY <3>3, <4>1, <4>2, <4>3 DEF Overtakes
    <3>4. QED
      BY <2>7, <3>2, <3>3
  <2>8. CASE pc \in {"on", "off"}
    BY <2>1, <2>5, <2>7, <2>8 DEF PushInv, ToldSo
  <2>9. QED
    BY <2>1, <2>6, <2>8
<1>18. ASSUME NEW j \in Workers, ConcludeFails(j) PROVE PushInv'
  <2>1. /\ job[j].pc \in {"on", "off", "error", "same"} /\ UNCHANGED <<acct, pushing>> /\ job[j].k # 0
        /\ Quits(j) \/ NextRow(j) \/ To(j, "error")
        /\ astray' = IF job[j].pc = "same" THEN astray ELSE astray \cup {job[j].k}
    BY <1>0, <1>18 DEF ConcludeFails, Role, Rowless, Rest
  <2>2. PICK w : job' = [job EXCEPT ![j] = w] /\ Fits(w) /\ w.pc # "on"
    BY <2>1, GoesWell DEF JobPcs
  <2>3. CASE job[j].pc = "same"
    BY <1>1, <2>1, <2>2, <2>3
  <2>4. CASE job[j].pc # "same"
    <3>1. Rows' = Rows /\ \A i \in Workers : job'[i] = IF i = j THEN w ELSE job[i]
      BY <2>1, <2>2, OneMoves DEF Rows
    <3>2. \A i \in Workers : Fits(job[i])'
      BY <1>0, <2>2, <3>1 DEF Fits
    <3>3. ASSUME NEW k \in RowKeys \ astray', Rows' = {k} PROVE FALSE
      BY <1>0, <2>1, <2>4, <3>1, <3>3 DEF Fits
    <3>4. QED
      BY <3>2, <3>3 DEF PushInv, ToldSo
  <2>5. QED
    BY <2>3, <2>4
\* Time, the user, and Gmail.
<1>19. ASSUME UNCHANGED job, Rows' = Rows, \A k \in Rows : Said(k)' => Said(k), astray' = astray,
              pushing' = pushing \/ (pushing' = FALSE /\ (\A k \in Rows : ~Said(k)) /\ \A j \in Workers : job[j].pc # "on")
       PROVE  PushInv'
  <2>1. \A j \in Workers : Fits(job[j])'
    BY <1>0, <1>19 DEF Fits
  <2>2. ASSUME NEW k \in RowKeys \ astray PROVE ToldSo(k)'
    BY <1>19 DEF PushInv, ToldSo
  <2>3. QED
    BY <1>19, <2>1, <2>2 DEF PushInv
<1>20. ASSUME NEW l \in RowKeys, Ages(l) \/ TokenExpires(l) PROVE PushInv'
  <2>1. \A k \in RowKeys : acct'[k].here = acct[k].here /\ (Said(k)' => Said(k))
    BY <1>0, <1>20 DEF Ages, TokenExpires, RowType, Said
  <2>2. Rows' = Rows
    BY <2>1 DEF Rows
  <2>3. QED
    BY <1>0, <1>19, <1>20, <2>1, <2>2 DEF Ages, TokenExpires
<1>21. ASSUME Lapse PROVE PushInv'
  <2>1. \A j \in Workers : job[j].pc # "on"
    BY <1>0, <1>21 DEF Lapse, Telling, Fits
  <2>2. (\A k \in Rows : ~Said(k)) /\ Rows' = Rows /\ \A k \in Rows : Said(k)' <=> Said(k)
    BY <1>21 DEF Lapse, Said, Rows
  <2>3. UNCHANGED <<job, astray>> /\ pushing' = FALSE
    BY <1>21 DEF Lapse
  <2>4. QED
    BY <1>19, <2>1, <2>2, <2>3
<1>22. ASSUME Revoke \/ UNCHANGED acctVars PROVE PushInv'
  <2>1. UNCHANGED <<job, acct, pushing, astray>>
    BY <1>22 DEF Revoke, acctVars
  <2>2. Rows' = Rows /\ \A k \in Rows : Said(k)' <=> Said(k)
    BY <2>1 DEF Rows, Said
  <2>3. QED
    BY <1>19, <2>1, <2>2
<1>23. QED
  BY <1>0, <1>3, <1>4, <1>6, <1>7, <1>8, <1>9, <1>10, <1>11, <1>12, <1>13, <1>14, <1>15, <1>16, <1>17, <1>18, <1>20, <1>21, <1>22
  DEF AcctNext, GoesOn

\* Settings that say Gmail pushes tell the truth once nobody is between Gmail and the row,
\* but for a row written from an older reading or in another order than Gmail was told.
THEOREM PushStaysAsSaid == AcctSpec => []PushAsSaid
<1>1. AcctSpec => [](TypeInv /\ PushInv)
  BY TypeInit, TypeStep, PushStarts, PushStep, PTL DEF AcctSpec
<1>2. TypeInv /\ PushInv => PushAsSaid
  <2> SUFFICES ASSUME TypeInv, PushInv,
                      NEW k \in RowKeys, Said(k), ~Telling, k \notin astray, Rows = {k}
               PROVE  pushing
    BY DEF PushAsSaid, Said
  <2>1. ToldSo(k) /\ \A j \in Workers : Fits(job[j])
    BY DEF PushInv
  <2>2. \A j \in Workers : job[j].pc # "off"
    BY <2>1 DEF Telling, Fits
  <2>3. QED
    BY <2>1, <2>2 DEF ToldSo
<1>3. QED
  BY <1>1, <1>2, PTL
=============================================================================
