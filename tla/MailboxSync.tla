------------------------------ MODULE MailboxSync ------------------------------
(***************************************************************************)
(* What one synchronisation of an IMAP mailbox does to its messages: the   *)
(* body of runMailboxSync. It reads the watermarks, claims the mailbox,    *)
(* opens it, and then goes over it in passes (changed since the kept       *)
(* modseq, or new uids and the tail; a reconcile; a refresh of the tail),  *)
(* each a list of metadata followed by the sources of the messages that    *)
(* have none. The watermarks live in the closure of the run, so they       *)
(* outlive a reconnect, and are written to sync_states while it goes on.   *)
(* Who may claim is SyncClaim; here a second body works only when a claim  *)
(* was taken over.                                                         *)
(*                                                                         *)
(* Sources: services/imap/imapService.monolith.ts (runMailboxSync and its  *)
(* helpers, reconcileMailbox*, createNewMessage, runImapOperation).        *)
(***************************************************************************)
EXTENDS Naturals, FiniteSets

CONSTANTS
  Runs,        \* concurrent executions of runMailboxSync
  MaxUid,      \* bound: uids the server gives out
  MaxMod,      \* bound: changes made on the server
  MaxTries,    \* attempts of runImapOperation (4 in the code)
  MaxFaults,   \* bound: failures of any kind
  Window,      \* env.sync.flagSyncWindow
  Recent,      \* env.sync.recentReconcileUidWindow
  Settings     \* the servers and faults a run looks at; a behaviour has one of them

\* Of a setting: whether the server keeps mod-sequences, the bounds it uses, how
\* many runs may be at work and the faults that may happen.
Kinds == {"link", "db", "bare", "crash", "overlap", "era"}

ASSUME MailboxAssumption ==
  /\ MaxUid \in Nat /\ MaxMod \in Nat /\ MaxFaults \in Nat
  /\ MaxTries \in Nat \ {0} /\ Window \in Nat \ {0} /\ Recent \in Nat \ {0}
  /\ Settings \subseteq [condstore : BOOLEAN, uids : 0..MaxUid, mods : 0..MaxMod,
                         tries : 1..MaxTries, bodies : Nat, maxFaults : 0..MaxFaults,
                         faults : SUBSET Kinds]

Uids == 1..MaxUid

VARIABLES
  set,      \* the setting
  present,  \* server: uids in the mailbox
  next,     \* server: UIDNEXT
  flag,     \* server: the \Flagged flag of a uid
  modOf,    \* server: the mod-sequence of a uid's last change
  mod,      \* server: HIGHESTMODSEQ
  era,      \* server: UIDVALIDITY
  rows,     \* messages: uids of the folder's rows
  rowFlag,  \* messages.is_starred
  rowEra,   \* the UIDVALIDITY under which a row's body was fetched
  bare,     \* rows without a body or a raw blob
  db,       \* sync_states: watermarks, modseq (0: null), uidvalidity (0: null), full reconcile due
  run,      \* the closures of the runs
  faults,   \* failures so far
  owed      \* history: uids a failed pass, an old or early watermark, another body's
            \* deletes or an unnoticed renumbering left without a row or a fresh flag

server  == <<present, next, flag, modOf, mod, era>>
mailVars == <<rows, rowFlag, rowEra, bare>>
vars == <<set, server, mailVars, db, run, faults, owed>>

Off == [pc |-> "off", seen |-> 0, high |-> 0, mod |-> 0, era |-> 0, due |-> FALSE,
        oMod |-> 0, oEra |-> 0, todo |-> {}, pass |-> "range", remote |-> {},
        had |-> {}, met |-> {}, chg |-> FALSE, full |-> FALSE, tries |-> 0, lost |-> FALSE]

Init ==
  /\ set \in Settings
  /\ present = {} /\ next = 1 /\ mod = 1 /\ era = 1
  /\ flag = [u \in Uids |-> FALSE] /\ modOf = [u \in Uids |-> 0]
  /\ rows = {} /\ bare = {}
  /\ rowFlag = [u \in Uids |-> FALSE] /\ rowEra = [u \in Uids |-> 0]
  /\ db = [seen |-> 0, high |-> 0, mod |-> 0, era |-> 0, due |-> TRUE]
  /\ run = [r \in Runs |-> Off]
  /\ faults = 0 /\ owed = {}

Larger(a, b) == IF a > b THEN a ELSE b
Highest(S) == IF S = {} THEN 0 ELSE CHOOSE u \in S : \A v \in S : v <= u
MinusWindow(n, w) == IF n + 1 > w THEN n + 1 - w ELSE 1

Claimed == {r \in Runs : run[r].pc \notin {"off", "claim"}}

-----------------------------------------------------------------------------
(* The server, and the users of other clients. *)

\* Without CONDSTORE changes leave no trace.
Bump == mod' = IF set.condstore THEN mod + 1 ELSE mod

Arrive ==
  /\ next <= set.uids /\ (set.condstore => mod < set.mods)
  /\ present' = present \cup {next} /\ next' = next + 1
  /\ Bump /\ modOf' = [modOf EXCEPT ![next] = mod']
  /\ flag' = [flag EXCEPT ![next] = FALSE]
  /\ UNCHANGED <<era, mailVars, db, run, faults, owed>>

Expunge(u) ==
  /\ u \in present
  /\ present' = present \ {u}
  /\ flag' = [flag EXCEPT ![u] = FALSE] /\ modOf' = [modOf EXCEPT ![u] = 0]
  /\ UNCHANGED <<next, mod, era, mailVars, db, run, faults, owed>>

Mark(u) ==
  /\ u \in present /\ mod < set.mods
  /\ Bump /\ modOf' = [modOf EXCEPT ![u] = mod']
  /\ flag' = [flag EXCEPT ![u] = ~@]
  /\ UNCHANGED <<present, next, era, mailVars, db, run, faults, owed>>

\* Nothing to compare the UIDVALIDITY with: of the mailbox, or of a run at work.
Unaware == db.era = 0 \/ \E r \in Runs : run[r].pc # "off" /\ run[r].era = 0

\* The mailbox is made anew: its messages get uids from 1 on and sessions end. A run
\* that has no stored UIDVALIDITY to compare with will not notice.
Renumber ==
  /\ "era" \in set.faults /\ era = 1 /\ faults < set.maxFaults
  /\ era' = 2 /\ faults' = faults + 1
  /\ LET n == Cardinality(present)
     IN  present' = 1..n /\ next' = n + 1
  /\ mod' = 1
  /\ modOf' = [u \in Uids |-> IF u \in present' THEN 1 ELSE 0]
  /\ flag' = [u \in Uids |-> FALSE]
  /\ run' = [r \in Runs |-> [run[r] EXCEPT !.lost = @ \/ run[r].pc \notin {"off", "claim", "open"}]]
  /\ owed' = owed \cup {u \in Uids :
       Unaware /\ \E w \in rows \cup {db.seen} \cup {run[r].seen : r \in Runs} : u <= w}
  /\ UNCHANGED <<mailVars, db>>

-----------------------------------------------------------------------------
(* The start of a run, and its failures. *)

\* getMailboxState: the watermarks are read before the claim.
ReadState(r) ==
  /\ run[r].pc = "off" /\ Cardinality({q \in Runs : run[q].pc # "off"}) < set.bodies
  /\ run' = [run EXCEPT ![r] = [Off EXCEPT
       !.pc = "claim", !.seen = db.seen, !.high = Larger(db.seen, db.high),
       !.mod = db.mod, !.era = db.era, !.due = db.due]]
  /\ UNCHANGED <<server, mailVars, db, faults, owed>>

\* tryClaimMailboxSync writes last_seen_uid as it was read, highest_uid never lower.
\* History: a watermark read under an older UIDVALIDITY than the stored one.
TakeClaim(r) ==
  /\ run[r].pc = "claim"
  /\ Claimed = {} \/ "overlap" \in set.faults
  /\ run' = [run EXCEPT ![r].pc = "open"]
  /\ db' = [db EXCEPT !.seen = run[r].seen, !.high = Larger(@, run[r].high)]
  /\ owed' = owed \cup {u \in Uids :
       run[r].era \notin {0, era} /\ db.era = era /\ u <= run[r].seen}
  /\ UNCHANGED <<server, mailVars, faults>>

ClaimRefused(r) ==
  /\ run[r].pc = "claim" /\ Claimed # {}
  /\ run' = [run EXCEPT ![r] = Off]
  /\ UNCHANGED <<server, mailVars, db, faults, owed>>

\* History: what is owed when a run without a modseq stops: what it counts as seen
\* and is not stored.
Owes(r, seen, known) ==
  IF run[r].mod # 0 THEN {} ELSE {u \in present \ (rows \cup known) : u <= seen}

\* The connection or an operation failed: runImapOperation begins the operation
\* again, with what the closure has, or the run is over.
Again(r, seen, known) ==
  /\ \/ /\ run[r].tries + 1 < set.tries
        /\ run' = [run EXCEPT ![r] = [run[r] EXCEPT
             !.pc = "open", !.seen = seen, !.high = Larger(run[r].high, seen),
             !.had = run[r].had \cup known, !.todo = {}, !.tries = run[r].tries + 1,
             !.lost = FALSE]]
     \/ run' = [run EXCEPT ![r] = Off]
  /\ owed' = owed \cup Owes(r, seen, known)

\* The process dies, the timeout of the operation passes, or the sync is cancelled.
Stop(r) ==
  /\ "crash" \in set.faults /\ faults < set.maxFaults
  /\ run[r].pc # "off"
  /\ run' = [run EXCEPT ![r] = Off] /\ faults' = faults + 1
  /\ owed' = owed \cup Owes(r, run[r].seen, {})
  /\ UNCHANGED <<server, mailVars, db>>

\* Mutant: a reset that keeps the rows.
KeepRows == UNCHANGED mailVars

\* shouldResetMailboxForUidValidity: compared with what was stored when the run began.
Resets(r) == run[r].era # 0 /\ run[r].era # era
Forget(c) == [c EXCEPT !.seen = 0, !.high = 0, !.mod = 0, !.due = TRUE, !.had = {}]
DeleteRows ==
  /\ rows' = {} /\ bare' = {}
  /\ rowFlag' = [u \in Uids |-> FALSE] /\ rowEra' = [u \in Uids |-> 0]

\* The mailbox is opened. A reset forgets highestUid too, which was just raised.
\* History: the rows another body stored since, which the reset deletes.
Open(r) ==
  LET opened == [run[r] EXCEPT !.oMod = IF set.condstore THEN mod ELSE 0, !.oEra = era,
                               !.high = Larger(@, next - 1), !.chg = FALSE, !.todo = {}, !.met = {}]
      c == IF Resets(r) THEN Forget(opened) ELSE opened
  IN  /\ run[r].pc = "open"
      /\ run' = [run EXCEPT ![r] = [c EXCEPT !.pc = IF c.mod # 0 THEN "changed" ELSE "range"]]
      /\ IF Resets(r) THEN DeleteRows ELSE UNCHANGED mailVars
      /\ owed' = owed \cup {u \in rows \cap present : Resets(r) /\ rowEra[u] = era}
      /\ UNCHANGED <<server, db, faults>>

-----------------------------------------------------------------------------
(* The passes. A fetch answers in the order of uids; a pass goes over a prefix *)
(* of its list and, unless that is all of it, fails at the next uid.           *)

\* The answer to a search for n:*, which holds the last uid even when it is below n.
From(n) == {u \in present : u >= n} \cup (IF present = {} THEN {} ELSE {Highest(present)})
TailOf(S, n) == {u \in S : Cardinality({v \in S : v > u}) < n}
Prefixes(S) == {P \in SUBSET S : \A u \in P, v \in S : v < u => v \in P}
NextOf(S, P) == IF S = P THEN {} ELSE {CHOOSE u \in S \ P : \A v \in S \ P : u <= v}

\* advanceUidWatermark comes before the message is looked at.
Seen(r, S) == Larger(run[r].seen, Highest(S))

\* writeProgress of the watermarks as they are once uid u of the list P was done: at
\* most once a second, so it may be left out.
Written(r, P, u) ==
  LET seen == Seen(r, {v \in P : v <= u})
  IN  [db EXCEPT !.seen = seen, !.high = Larger(run[r].high, seen)]
Progress(r, P, W) == db' \in {db} \cup {Written(r, P, u) : u \in W}

\* How a pass may fail: the connection, or a query of the database.
Fails(kind) ==
  IF kind = "link" THEN "link" \in set.faults /\ faults < set.maxFaults /\ faults' = faults + 1
                   ELSE "db" \in set.faults /\ faults < set.maxFaults /\ faults' = faults + 1

\* processMetadataOnlyMessage of each uid of P: flags of the rows it knows, and
\* which uids need their source.
Known(r, P) == P \cap (run[r].had \cup rows)
Wanted(r, P) == (P \ Known(r, P)) \cup (P \cap bare)
Changed(r, P) == {u \in P \cap rows : rowFlag[u] # flag[u] \/ rowEra[u] # run[r].oEra}
Metadata(r, P) == rowFlag' = [u \in Uids |-> IF u \in P \cap rows THEN flag[u] ELSE rowFlag[u]]

\* Mutant: a change with the next mod-sequence is left out.
ChangedLate(n) == {u \in present : modOf[u] > n + 1}

ChangedSince(n) == {u \in present : modOf[u] > n}

\* The list a metadata pass goes over. The refresh uses the last search's answer.
Listed(r) ==
  CASE run[r].pc = "changed" -> ChangedSince(run[r].mod)
    [] run[r].pc = "tail"    -> From(MinusWindow(Larger(run[r].high, run[r].seen), Window))
    [] run[r].pc = "refresh" -> TailOf(run[r].remote, Window) \cap present

\* History: new uids below the window, when more came than it holds since the last search.
PassedOver(r, S) ==
  IF run[r].pc = "changed" THEN {}
  ELSE {u \in present \ (rows \cup S) : u > run[r].seen /\ u <= Seen(r, S)}

MetadataPass(r) ==
  LET S == Listed(r)
  IN  /\ run[r].pc \in {"changed", "tail", "refresh"} /\ ~run[r].lost
      /\ Metadata(r, S)
      /\ run' = [run EXCEPT ![r] = [run[r] EXCEPT
           !.pc = "source", !.pass = run[r].pc, !.todo = Wanted(r, S),
           !.had = run[r].had \cup Known(r, S), !.met = run[r].met \cup Known(r, S),
           !.seen = Seen(r, S), !.high = Larger(run[r].high, Seen(r, S)),
           !.remote = IF run[r].pc = "tail" /\ S # {} THEN S ELSE run[r].remote]]
      /\ Progress(r, S, Changed(r, S))
      /\ owed' = owed \cup PassedOver(r, S)
      /\ UNCHANGED <<server, rows, rowEra, bare, faults>>

\* Every error of the changed-since pass is caught; on a lost connection the next
\* command fails too, after a failed query the run goes on with the range.
Swallow(r, seen, known, left) ==
  /\ run' = [run EXCEPT ![r] = [run[r] EXCEPT
       !.pc = "range", !.chg = TRUE, !.todo = {}, !.seen = seen,
       !.high = Larger(run[r].high, seen), !.had = run[r].had \cup known]]
  /\ owed' = owed \cup left

MetadataFails(r, kind) ==
  LET S == Listed(r)
  IN  /\ run[r].pc \in {"changed", "tail", "refresh"} /\ ~run[r].lost
      /\ \E P \in Prefixes(S) \ {S} :
           LET seen == Seen(r, IF kind = "db" THEN P \cup NextOf(S, P) ELSE P)
           IN  /\ Metadata(r, P)
               /\ IF run[r].pc = "changed" /\ kind = "db"
                    THEN Swallow(r, seen, Known(r, P), (S \ P) \cup Wanted(r, P))
                    ELSE Again(r, seen, Known(r, P))
               /\ Progress(r, P, Changed(r, P))
      /\ Fails(kind)
      /\ UNCHANGED <<server, rows, rowEra, bare>>

\* Messages above lastSeenUid, whose sources are fetched at once.
NewRange(r) ==
  /\ run[r].pc = "range" /\ ~run[r].lost
  /\ run' = [run EXCEPT ![r] = [run[r] EXCEPT
       !.pc = "source", !.pass = "range", !.todo = From(run[r].seen + 1),
       !.remote = IF present = {} THEN run[r].remote ELSE From(run[r].seen + 1)]]
  /\ UNCHANGED <<server, mailVars, db, faults, owed>>

\* createNewMessage, or an update of the row that is there; its body is replaced
\* when it has none, and in every pass but the range. One the run knew, and another
\* body deleted, is updated in vain.
Created(r, P) == P \ (rows \cup run[r].had)
Store(r, P) ==
  LET new == Created(r, P)
      fill == new \cup (P \cap rows \cap (IF run[r].pass = "range" THEN bare ELSE rows))
  IN  /\ rows' = rows \cup new
      /\ bare' \in {bare \ P} \cup (IF "bare" \in set.faults THEN {(bare \ P) \cup new} ELSE {})
      /\ rowFlag' = [u \in Uids |-> IF u \in P \cap rows' THEN flag[u] ELSE rowFlag[u]]
      /\ rowEra' = [u \in Uids |-> IF u \in fill THEN run[r].oEra ELSE rowEra[u]]

AfterSource == [changed |-> "reconcile", range |-> "tail", tail |-> "reconcile", refresh |-> "save"]

SourcePass(r) ==
  LET S == run[r].todo \cap present
  IN  /\ run[r].pc = "source" /\ (~run[r].lost \/ run[r].todo = {})
      /\ Store(r, S)
      /\ run' = [run EXCEPT ![r] = [run[r] EXCEPT
           !.pc = AfterSource[run[r].pass], !.todo = {}, !.had = run[r].had \cup S,
           !.met = run[r].met \cup S, !.seen = Seen(r, S),
           !.high = Larger(run[r].high, Seen(r, S)),
           !.due = run[r].due /\ ~(run[r].pass = "refresh" /\ run[r].full)]]
      /\ db' = IF run[r].todo = {} THEN db ELSE Written(r, S, MaxUid)
      /\ owed' = owed \ {u \in S \cap rows' : rowEra'[u] = era}
      /\ UNCHANGED <<server, faults>>

SourceFails(r, kind) ==
  LET S == run[r].todo \cap present
  IN  /\ run[r].pc = "source" /\ ~run[r].lost
      /\ \E P \in Prefixes(S) \ {S} :
           LET seen == Seen(r, IF kind = "db" THEN P \cup NextOf(S, P) ELSE P)
           IN  /\ Store(r, P)
               /\ IF run[r].pass = "changed" /\ kind = "db"
                    THEN Swallow(r, seen, P, S \ P)
                    ELSE Again(r, seen, P)
               /\ Progress(r, P, P)
      /\ Fails(kind)
      /\ UNCHANGED server

\* The sessions of an old UIDVALIDITY end at their next command.
SessionEnds(r) ==
  /\ run[r].lost /\ run[r].pc \notin {"off", "sweep", "save"}
  /\ Again(r, run[r].seen, {})
  /\ UNCHANGED <<server, mailVars, db, faults>>

-----------------------------------------------------------------------------
(* Reconciling and the end. *)

\* Mutant: the full scan is never due.
ScanNever(r) == FALSE

ScanDue(r) == run[r].due

\* The search: all uids once a day, the recent ones otherwise; an empty answer to
\* the latter, or a failed full scan, skips the sweep.
Reconcile(r) ==
  LET start == MinusWindow(Larger(run[r].high, run[r].seen), Recent)
      found == IF ScanDue(r) THEN present ELSE From(start)
      skip == (~ScanDue(r) /\ found = {})
  IN  /\ run[r].pc = "reconcile" /\ ~run[r].lost
      /\ run' = [run EXCEPT ![r] = [run[r] EXCEPT
           !.pc = IF skip THEN "save" ELSE "sweep",
           !.remote = IF skip THEN run[r].remote ELSE found, !.full = ScanDue(r)]]
      /\ UNCHANGED <<server, mailVars, db, faults, owed>>

FullScanFails(r) ==
  /\ run[r].pc = "reconcile" /\ run[r].due /\ Fails("link")
  /\ run' = [run EXCEPT ![r] = [run[r] EXCEPT !.pc = "save", !.full = FALSE]]
  /\ UNCHANGED <<server, mailVars, db, owed>>

\* Rows the search did not name are deleted, those another body stored since included.
Sweep(r) ==
  LET start == MinusWindow(Larger(run[r].high, run[r].seen), Recent)
      stale == {u \in rows \ run[r].remote : run[r].full \/ u >= start}
  IN  /\ run[r].pc = "sweep"
      /\ rows' = rows \ stale /\ bare' = bare \ stale
      /\ run' = [run EXCEPT ![r].pc = "refresh"]
      /\ rowFlag' = [u \in Uids |-> u \notin stale /\ rowFlag[u]]
      /\ rowEra' = [u \in Uids |-> IF u \in stale THEN 0 ELSE rowEra[u]]
      /\ owed' = owed \cup (stale \cap present)
      /\ UNCHANGED <<server, db, faults>>

\* Mutant: the mod-sequence stored is the one at the end, not the one at the opening.
SavedModNow(r) == IF run[r].oMod # 0 THEN mod ELSE run[r].mod

\* A failed changed-since pass loses the modseq only when the server has none now.
SavedMod(r) ==
  IF run[r].oMod # 0 THEN run[r].oMod ELSE IF run[r].chg THEN 0 ELSE run[r].mod

\* The last setSyncState: the watermark goes to the last uid of the last search.
\* History: the uids this goes over that the run did not, and the rows whose flags a
\* run without a modseq did not look at.
Save(r) ==
  LET last == IF run[r].remote = {} THEN Larger(run[r].high, run[r].seen) ELSE Highest(run[r].remote)
      seen == Larger(run[r].seen, last)
  IN  /\ run[r].pc = "save"
      /\ db' = [seen |-> seen, high |-> Larger(run[r].high, seen), era |-> run[r].oEra,
                mod |-> SavedMod(r), due |-> run[r].due \/ (db.due /\ ~run[r].full)]
      /\ run' = [run EXCEPT ![r] = Off]
      /\ owed' = owed \cup {u \in Uids \ rows :
                            u > run[r].seen /\ u <= seen /\ (u \in present \/ u >= next)}
                     \cup (IF run[r].mod = 0 THEN rows \ run[r].met ELSE {})
      /\ UNCHANGED <<server, mailVars, faults>>

\* fullReconcileIntervalMs passes.
DayPasses ==
  /\ ~db.due /\ db' = [db EXCEPT !.due = TRUE]
  /\ UNCHANGED <<server, mailVars, run, faults, owed>>

-----------------------------------------------------------------------------
Work(r) ==
  \/ ReadState(r) \/ TakeClaim(r) \/ ClaimRefused(r) \/ Open(r)
  \/ MetadataPass(r) \/ NewRange(r) \/ SourcePass(r) \/ SessionEnds(r)
  \/ Reconcile(r) \/ Sweep(r) \/ Save(r)

Trouble(r) ==
  \/ Stop(r) \/ FullScanFails(r)
  \/ \E kind \in {"link", "db"} : MetadataFails(r, kind) \/ SourceFails(r, kind)

Users == Arrive \/ Renumber \/ \E u \in Uids : Expunge(u) \/ Mark(u)

Next ==
  /\ Users \/ DayPasses \/ \E r \in Runs : Work(r) \/ Trouble(r)
  /\ UNCHANGED set

Spec == Init /\ [][Next]_vars

\* Workers take up sync jobs, calls return, and days pass.
Fairness ==
  /\ WF_vars(DayPasses /\ UNCHANGED set)
  /\ \A r \in Runs : WF_vars(Work(r) /\ UNCHANGED set)
LiveSpec == Spec /\ Fairness

-----------------------------------------------------------------------------
\* The next run throws the rows away and begins anew.
WillReset == db.era # 0 /\ db.era # era

\* No message is forgotten: one at or below the watermark that has no row is one
\* the next changed-since pass will bring, or one that something named went over.
NoGap ==
  WillReset \/ \A u \in present \ rows :
    u <= db.seen => (db.mod # 0 /\ modOf[u] > db.mod) \/ u \in owed

\* With mod-sequences a row shows the flag the server has, or the next
\* changed-since pass brings the change, or something named went over it.
NoStaleFlag ==
  WillReset \/ db.mod = 0 \/ \A u \in present \cap rows :
    rowFlag[u] # flag[u] => modOf[u] > db.mod \/ u \in owed

\* No row shows the body of another message under its uid: bodies fetched under an
\* older UIDVALIDITY are gone once the new one is stored.
OneEra == \A u \in rows : rowEra[u] # era => db.era # era \/ u \in owed

\* When the mailbox is left alone its rows become the server's uids: what was
\* expunged goes, what is there comes, unless a failed pass went over it.
Converges == <>[](rows \subseteq present /\ present \ rows \subseteq owed)
=============================================================================
