------------------------------ MODULE GmailSync ------------------------------
(***************************************************************************)
(* What a synchronisation over the Gmail API does to the rows of a mailbox *)
(* and to the history id it keeps: the first sync of a connector, which    *)
(* clears what an IMAP sync left; the run itself (history since the kept   *)
(* id, or the whole list, then the messages one by one, the reconcile and  *)
(* the id); and the job that fetches the contents a first run left out.    *)
(* Who may claim a mailbox is SyncClaim: here a claim is refused while the *)
(* run that has it goes on, and a row of sync_states that was cleared is   *)
(* made again without its claim.                                           *)
(*                                                                         *)
(* Sources: services/imap/imapService.monolith.ts (syncIncomingConnector,  *)
(* runGmailMailboxSync and its helpers, hydrateGmailMailboxContentBatch),  *)
(* services/queue.ts, worker/taskHandlers.ts.                              *)
(***************************************************************************)
EXTENDS Naturals, FiniteSets

CONSTANTS
  Syncs,      \* executions of syncIncomingConnector
  Letters,    \* messages of the account, 1..n, a later one newer
  MaxHistory, \* bound: changes made at Gmail
  Batch,      \* env.sync.gmailBackgroundHydrateBatchSize
  Accounts    \* settings, one to a behaviour: [syncs : Nat (runs at once), changes : Nat,
              \* slips : Nat (failures; fewer than the 5 attempts of a job), sparse : BOOLEAN
              \* (gmailBootstrapMetadataOnly), blank : SUBSET Letters (messages without a text
              \* body), days : BOOLEAN (the daily full scan comes), fresh : BOOLEAN (not bootstrapped)]

\* What stands for no run is none.
ASSUME GmailAssumption == "nobody" \notin Syncs

VARIABLES
  account,  \* the setting
  label,    \* Gmail: whether a message is "in" the mailbox, "out" of it, or "gone"
  stamp,    \* Gmail: the history id of a message's last change
  history,  \* Gmail: the last history id
  horizon,  \* Gmail: history before this id is forgotten
  mail,     \* messages: the rows of the mailbox
  booted,   \* sync_settings.gmailApiBootstrapped
  state,    \* sync_states: its row, the claim, modseq (0: null), the full scan due
  sync,     \* the runs
  fill,     \* the job hydrateGmailMailboxContent
  slips,    \* failures so far
  torn      \* history: a first sync cleared what another had stored, or its claim

googleVars == <<account, label, stamp, history, horizon>>
gmailVars == <<googleVars, mail, booted, state, sync, fill, slips, torn>>

Nobody == "nobody"
NoMail == [here |-> FALSE, seen |-> 0, raw |-> FALSE, body |-> FALSE]
NoState == [here |-> FALSE, by |-> Nobody, id |-> 0, due |-> TRUE]
Resting == [pc |-> "off", here |-> TRUE, id |-> 0, due |-> TRUE, first |-> FALSE, last |-> 0,
            all |-> {}, whole |-> FALSE, todo |-> {}, drop |-> {}, m |-> 0, in |-> FALSE, seen |-> 0]

\* The first message is in the mailbox; the others are, or are not yet.
GmailInit ==
  /\ account \in Accounts
  /\ label \in {f \in [Letters -> {"in", "out"}] : f[1] = "in"}
  /\ stamp = [m \in Letters |-> 1] /\ history = 1 /\ horizon = 0
  /\ mail = [m \in Letters |-> NoMail] /\ booted = ~account.fresh /\ state = NoState
  /\ sync = [s \in Syncs |-> Resting]
  /\ fill = [waiting |-> FALSE, at |-> "none", todo |-> {}]
  /\ slips = 0 /\ torn = FALSE

Kept == {m \in Letters : mail[m].here}
Is(s, pc) == sync[s].pc = pc
Goto(s, pc) == sync' = [sync EXCEPT ![s].pc = pc]
Rests(s) == sync' = [sync EXCEPT ![s] = Resting]
Working(s) == sync[s].pc \notin {"off", "wipe", "forget", "mark", "read", "claim"}
Slip == slips < account.slips /\ slips' = slips + 1

-----------------------------------------------------------------------------
(* syncIncomingConnector. *)

\* The connector is read and its messages are counted: a first sync clears what is
\* there. It may be the sync of another mailbox, which has no more to do here.
Arrive(s, here) ==
  /\ Is(s, "off") /\ Cardinality({t \in Syncs : ~Is(t, "off")}) < account.syncs
  /\ here \/ ~booted
  /\ sync' = [sync EXCEPT ![s] = [Resting EXCEPT !.here = here,
       !.pc = IF booted THEN "read" ELSE IF Kept = {} THEN "wipe" ELSE "mark"]]
  /\ UNCHANGED <<googleVars, mail, booted, state, fill, slips, torn>>

Wipe(s) ==
  /\ Is(s, "wipe") /\ Goto(s, "forget")
  /\ mail' = [m \in Letters |-> NoMail]
  /\ torn' = (torn \/ Kept # {})
  /\ UNCHANGED <<googleVars, booted, state, fill, slips>>

Forget(s) ==
  /\ Is(s, "forget") /\ Goto(s, "mark")
  /\ state' = NoState
  /\ torn' = (torn \/ \E t \in Syncs : Working(t))
  /\ UNCHANGED <<googleVars, mail, booted, fill, slips>>

Mark(s) ==
  /\ Is(s, "mark") /\ booted' = TRUE
  /\ IF sync[s].here THEN Goto(s, "read") ELSE Rests(s)
  /\ UNCHANGED <<googleVars, mail, state, fill, slips, torn>>

\* ensureIncomingConnectorState, and getMailboxState: before the claim.
ReadState(s) ==
  /\ Is(s, "read")
  /\ state' = [state EXCEPT !.here = TRUE]
  /\ sync' = [sync EXCEPT ![s].pc = "claim", ![s].id = state.id, ![s].due = state.due]
  /\ UNCHANGED <<googleVars, mail, booted, fill, slips, torn>>

\* The claim of a run that is over, or has died and does not beat any more, is free.
ClaimMailbox(s) ==
  /\ Is(s, "claim")
  /\ IF state.here /\ (state.by = Nobody \/ Is(state.by, "off"))
       THEN state' = [state EXCEPT !.by = s] /\ Goto(s, "look")
       ELSE UNCHANGED state /\ Rests(s)
  /\ UNCHANGED <<googleVars, mail, booted, fill, slips, torn>>

-----------------------------------------------------------------------------
(* runGmailMailboxSync. *)

\* Mutant: the id to keep is the newest when the run ends.
LastOfAll(s) == history
\* The id to keep: of the history that was read, of the notification, or the profile's.
LastSeen(s) == sync[s].last

\* The first run of a mailbox counts no rows; the id to keep comes first.
LookAround(s) ==
  /\ Is(s, "look")
  /\ \E hint \in 1..history :
       sync' = [sync EXCEPT ![s].pc = IF sync[s].id = 0 THEN "list" ELSE "history",
                            ![s].first = sync[s].id = 0 /\ Kept = {}, ![s].last = hint]
  /\ UNCHANGED <<googleVars, mail, booted, state, fill, slips, torn>>

\* What changed since the kept id, if Gmail still knows.
ReadHistory(s) ==
  /\ Is(s, "history")
  /\ LET new == {m \in Letters : stamp[m] > sync[s].id}
     IN  IF sync[s].id < horizon THEN Goto(s, "list")
         ELSE sync' = [sync EXCEPT ![s].pc = IF sync[s].due THEN "list" ELSE "drop", ![s].last = history,
                         ![s].todo = new, ![s].drop = {m \in new : label[m] = "gone"}]
  /\ UNCHANGED <<googleVars, mail, booted, state, fill, slips, torn>>

ListAll(s) ==
  /\ Is(s, "list")
  /\ LET all == {m \in Letters : label[m] = "in"}
     IN  sync' = [sync EXCEPT ![s].pc = "drop", ![s].all = all, ![s].todo = all, ![s].drop = {}, ![s].whole = TRUE]
  /\ UNCHANGED <<googleVars, mail, booted, state, fill, slips, torn>>

Without(S) == [m \in Letters |-> IF m \in S THEN NoMail ELSE mail[m]]

DropDeleted(s) ==
  /\ Is(s, "drop") /\ Goto(s, "next")
  /\ mail' = Without(sync[s].drop)
  /\ UNCHANGED <<googleVars, booted, state, fill, slips, torn>>

\* The metadata of a message. Several are fetched at once; each is about its own row.
FetchMetadata(s) ==
  /\ Is(s, "next")
  /\ \E m \in sync[s].todo :
       sync' = [sync EXCEPT ![s].pc = "row", ![s].todo = @ \ {m}, ![s].m = m,
                            ![s].in = (label[m] = "in"), ![s].seen = stamp[m]]
  /\ UNCHANGED <<googleVars, mail, booted, state, fill, slips, torn>>

\* Whether a run fetches contents: all do but the first, which may leave them to the job.
Hydrates(s) == ~(sync[s].first /\ account.sparse)

\* The row of a message that is in the mailbox is made or written over, and that of
\* another goes; the raw message is stored before a row is made.
PutRow(s) ==
  LET m == sync[s].m
      old == mail[m]
  IN  /\ Is(s, "row")
      /\ mail' = [mail EXCEPT ![m] = IF ~sync[s].in THEN NoMail
                     ELSE [old EXCEPT !.here = TRUE, !.seen = sync[s].seen, !.raw = @ \/ (~old.here /\ Hydrates(s))]]
      /\ Goto(s, IF sync[s].in /\ Hydrates(s) /\ ~(old.body /\ old.raw) THEN "content" ELSE "next")
      /\ UNCHANGED <<googleVars, booted, state, fill, slips, torn>>

\* The raw message is stored and parsed. Without a text part there is still no body.
Filled(m, parsed) ==
  LET body == mail[m].body \/ (parsed /\ m \notin account.blank)
  IN  mail' = [mail EXCEPT ![m] = IF ~@.here THEN @ ELSE [@ EXCEPT !.raw = TRUE, !.body = body]]

\* A parse that fails is logged, and the run goes on.
FillIn(s) ==
  /\ Is(s, "content") /\ Goto(s, "next")
  /\ \/ Filled(sync[s].m, TRUE) /\ UNCHANGED slips
     \/ Filled(sync[s].m, FALSE) /\ Slip
  /\ UNCHANGED <<googleVars, booted, state, fill, torn>>

\* Rows the whole list does not have go.
Reconcile(s) ==
  /\ Is(s, "next") /\ sync[s].todo = {}
  /\ mail' = IF sync[s].whole THEN Without(Letters \ sync[s].all) ELSE mail
  /\ Goto(s, "store")
  /\ UNCHANGED <<googleVars, booted, state, fill, slips, torn>>

StoreId(s) ==
  /\ Is(s, "store") /\ Goto(s, "end")
  /\ state' = IF state.here THEN [state EXCEPT !.id = LastSeen(s), !.due = @ /\ ~sync[s].whole] ELSE state
  /\ UNCHANGED <<googleVars, mail, booted, fill, slips, torn>>

\* The first run leaves the contents to the job (a failure to ask for it is logged); the
\* status is written by the mailbox's name alone.
EndSync(s) ==
  /\ Is(s, "end") /\ Rests(s)
  /\ \/ fill' = [fill EXCEPT !.waiting = @ \/ ~Hydrates(s)] /\ UNCHANGED slips
     \/ ~Hydrates(s) /\ Slip /\ UNCHANGED fill
  /\ state' = [state EXCEPT !.by = Nobody]
  /\ UNCHANGED <<googleVars, mail, booted, torn>>

\* A call, a statement or the process fails, or the run is cancelled.
FailSync(s) ==
  /\ ~Is(s, "off") /\ Slip /\ Rests(s)
  /\ state' = IF Working(s) THEN [state EXCEPT !.by = Nobody] ELSE state
  /\ UNCHANGED <<googleVars, mail, booted, fill, torn>>

-----------------------------------------------------------------------------
(* hydrateGmailMailboxContentTask. *)

Missing == {m \in Kept : ~(mail[m].raw /\ mail[m].body)}

\* A batch is the newest of the rows that miss something.
FillBegins ==
  /\ fill.waiting /\ fill.at = "none"
  /\ fill' = [waiting |-> FALSE, at |-> "rows",
              todo |-> {m \in Missing : Cardinality({n \in Missing : n > m}) < Batch}]
  /\ UNCHANGED <<googleVars, mail, booted, state, sync, slips, torn>>

\* A row that fails is counted and left as it is.
FillRow ==
  /\ \E m \in fill.todo :
       /\ fill' = [fill EXCEPT !.todo = @ \ {m}]
       /\ \/ Filled(m, TRUE) /\ UNCHANGED slips
          \/ UNCHANGED mail /\ Slip
  /\ UNCHANGED <<googleVars, booted, state, sync, torn>>

\* Mutant: it does when more than another batch is left.
AgainIfMore == Cardinality(Missing) > Batch

\* Whether the job asks for itself again, under the key it runs under: the key goes to
\* the new job ('preserve_run_at'). Messages without a text are missing for ever.
AsksAgain == Missing # {}

FillEnds ==
  /\ fill.at = "rows" /\ fill.todo = {}
  /\ fill' = [waiting |-> fill.waiting \/ AsksAgain, at |-> "none", todo |-> {}]
  /\ UNCHANGED <<googleVars, mail, booted, state, sync, slips, torn>>

\* The job fails and is tried again.
FillFails ==
  /\ fill.at = "rows" /\ Slip
  /\ fill' = [waiting |-> TRUE, at |-> "none", todo |-> {}]
  /\ UNCHANGED <<googleVars, mail, booted, state, sync, torn>>

-----------------------------------------------------------------------------
(* Gmail and time. *)

\* A message comes, goes, is deleted for good, or its flags change.
ChangeAtGmail(m) ==
  /\ history < MaxHistory /\ history <= account.changes /\ label[m] # "gone"
  /\ history' = history + 1 /\ stamp' = [stamp EXCEPT ![m] = history + 1]
  /\ \E to \in {"in", "out", "gone"} : label' = [label EXCEPT ![m] = to]
  /\ UNCHANGED <<account, horizon, mail, booted, state, sync, fill, slips, torn>>

ForgetHistory ==
  /\ horizon < history /\ account.changes > 0 /\ horizon' = history
  /\ UNCHANGED <<account, label, stamp, history, mail, booted, state, sync, fill, slips, torn>>

DayPasses ==
  /\ account.days /\ state.here /\ ~state.due /\ state' = [state EXCEPT !.due = TRUE]
  /\ UNCHANGED <<googleVars, mail, booted, sync, fill, slips, torn>>

-----------------------------------------------------------------------------
SyncStep(s) ==
  \/ Wipe(s) \/ Forget(s) \/ Mark(s) \/ ReadState(s) \/ ClaimMailbox(s) \/ LookAround(s)
  \/ ReadHistory(s) \/ ListAll(s) \/ DropDeleted(s) \/ FetchMetadata(s) \/ PutRow(s)
  \/ FillIn(s) \/ Reconcile(s) \/ StoreId(s) \/ EndSync(s)
FillStep == FillBegins \/ FillRow \/ FillEnds

GmailNext ==
  \/ \E s \in Syncs : (\E here \in BOOLEAN : Arrive(s, here)) \/ SyncStep(s) \/ FailSync(s)
  \/ FillStep \/ FillFails
  \/ (\E m \in Letters : ChangeAtGmail(m)) \/ ForgetHistory \/ DayPasses

GmailSpec == GmailInit /\ [][GmailNext]_gmailVars

-----------------------------------------------------------------------------
\* Whatever failed or changed meanwhile, a message Gmail has not changed since the kept
\* history id has a row if it is in the mailbox, with what it says of itself, and none
\* if it is not: nothing is asked for again below that id. First syncs are the exception:
\* one that counted no rows clears those another has stored meanwhile, and its claim.
IdCovers ==
  state.here /\ state.id > 0 /\ ~torn =>
    \A m \in Letters : stamp[m] <= state.id =>
      /\ mail[m].here <=> label[m] = "in"
      /\ mail[m].here => mail[m].seen = stamp[m]

\* While syncs come again and again and Gmail is quiet the rows become what Gmail says,
\* contents included: by the job that was left to it, when no whole batch of newer
\* messages is without a text, or by the full scans, when the job was lost.
MailComes ==
  []<>(\E s \in Syncs : ~Is(s, "off")) => \A m \in Letters : <>[](IF label[m] = "in"
    THEN mail[m].here /\ mail[m].seen = stamp[m] /\ mail[m].raw /\ (mail[m].body \/ m \in account.blank)
    ELSE ~mail[m].here)
=============================================================================
