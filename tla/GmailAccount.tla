----------------------------- MODULE GmailAccount -----------------------------
(***************************************************************************)
(* The rows of incoming_connectors of one Gmail address, and what Google    *)
(* holds for it: the grants the user gave and the watch that makes Gmail    *)
(* push. Every handler reads a row, asks Google, and writes auth_config or   *)
(* sync_settings back as a whole: from what it read and what Google          *)
(* answered, over what others wrote meanwhile.                               *)
(*                                                                          *)
(* Sources: services/googleOAuth.ts, services/gmailApi.ts,                  *)
(* services/gmailPush.ts, routes/connectors-oauth-authorize.ts,             *)
(* routes/connectors-oauth-callback.ts, routes/syncPushRoutes.ts.           *)
(***************************************************************************)
EXTENDS Naturals, FiniteSets

CONSTANTS
  Jobs,        \* handlers besides the renewal; each runs once
  RowKeys,     \* connectors, 1..n
  Grants,      \* times the user may consent, 1..n
  Plans        \* one to a behaviour: [rows : 0..1 (connectors at the start), push : their
               \* push watch ("unset" or "off"), hiccups : Nat (failures), expire : BOOLEAN (access tokens do), jobs : a set of what the
               \* jobs may be, JobKinds]

JobKinds == {"connect", "enable", "disable", "notify", "use"}
Renewal == "renewal"
Workers == Jobs \cup {Renewal}

ASSUME AcctAssumption ==
  /\ Renewal \notin Jobs
  /\ RowKeys \subseteq Nat \ {0}
  /\ \A p \in Plans : p.rows \in 0..1 /\ p.push \in {"unset", "off"} /\ p.hiccups \in Nat

VARIABLES
  plan,      \* the setting
  acct,      \* incoming_connectors: gmailPush (its status, "off" when it is not enabled,
             \* and whether its expiration is near, past or missing) and auth_config (the
             \* grant of its refresh token, its access token)
  pushing,   \* Gmail pushes for the address
  granted,   \* grants the user gave so far
  live,      \* those that are not revoked
  job,       \* the handlers
  hiccups,   \* failures so far
  saved,     \* history: the newest grant a callback wrote into a row
  astray,    \* history: rows whose sync_settings were written from an older reading, or in
             \* another order than Gmail was told, or not written after it was
  raced,     \* history: rows whose auth_config was written from an older reading
  doubled    \* history: a draft was authorized while another was on its way

acctVars == <<plan, acct, pushing, granted, live, job, hiccups, saved, astray, raced, doubled>>

NoConnector == [here |-> FALSE, push |-> "unset", due |-> TRUE, grant |-> 0, access |-> "none"]
Free == [kind |-> "none", pc |-> "free", k |-> 0, snap |-> NoConnector, grant |-> 0, left |-> {}, seen |-> <<>>]

AcctInit ==
  /\ plan \in Plans
  /\ acct = [k \in RowKeys |-> IF k <= plan.rows THEN [NoConnector EXCEPT !.here = TRUE, !.push = plan.push,
                                                                          !.grant = 1, !.access = "good"]
                                                 ELSE NoConnector]
  /\ pushing = FALSE /\ granted = plan.rows /\ live = 1..plan.rows
  /\ job = [j \in Workers |-> Free]
  /\ hiccups = 0 /\ saved = [k \in RowKeys |-> acct[k].grant]
  /\ astray = {} /\ raced = {} /\ doubled = FALSE

Rows == {k \in RowKeys : acct[k].here}
Hiccup == hiccups < plan.hiccups /\ hiccups' = hiccups + 1
Fine == UNCHANGED hiccups
To(j, pc) == job' = [job EXCEPT ![j].pc = pc]
\* The handler answers, or throws. The renewal comes again.
Quits(j) == job' = [job EXCEPT ![j] = IF j = Renewal THEN Free ELSE [Free EXCEPT !.pc = "over"]]

First(kind) == IF kind = "notify" THEN "same" ELSE "call"
\* The next of the rows it read, if there is one.
NextRow(j) ==
  IF job[j].left = {} THEN Quits(j)
  ELSE \E k \in job[j].left :
         /\ \A i \in job[j].left : k <= i
         /\ job' = [job EXCEPT ![j].pc = First(job[j].kind), ![j].k = k, ![j].snap = job[j].seen[k],
                               ![j].left = @ \ {k}]

\* The two columns, each written as a whole.
Late(j, S) == IF acct[job[j].k].grant # job[j].snap.grant THEN S \cup {job[j].k} ELSE S
PutAuth(j, grant, access) ==
  /\ acct' = [acct EXCEPT ![job[j].k].grant = grant, ![job[j].k].access = access]
  /\ raced' = Late(j, raced)
\* One whom Gmail heard before this one has yet to write that Gmail pushes.
Overtakes(j) == job[j].pc = "off" /\ ~pushing /\ \E i \in Workers : job[i].pc = "on" /\ job[i].k = job[j].k
PutSettings(j, push, due) ==
  LET k == job[j].k
  IN  /\ acct' = [acct EXCEPT ![k].push = push, ![k].due = due]
      /\ astray' = IF Overtakes(j) \/ <<acct[k].push, acct[k].due>> # <<job[j].snap.push, job[j].snap.due>>
                     THEN astray \cup {k} ELSE astray

-----------------------------------------------------------------------------
(* A call of the Gmail API (gmailApiRequest, ensureValidGoogleAccessToken). *)

\* Where the handler goes when Gmail answered, and when it did not.
Answered == [enable |-> "on", disable |-> "off", renew |-> "on", use |-> "quit", connect |-> "on"]
\* Mutant: a renewal that failed is noted as one that succeeded.
RefusedHushed == [enable |-> "quit", disable |-> "off", renew |-> "on", use |-> "quit", connect |-> "quit"]
Refused == [enable |-> "quit", disable |-> "off", renew |-> "error", use |-> "quit", connect |-> "quit"]

\* What the call does at Google.
Told(j) == pushing' = CASE job[j].kind \in {"enable", "renew", "connect"} -> TRUE
                        [] job[j].kind = "disable" -> FALSE
                        [] job[j].kind = "use" -> pushing

Valid(j) == job[j].snap.access = "good" /\ job[j].snap.grant \in live

Rest == UNCHANGED <<plan, granted, live, doubled, saved>>

CallAnswered(j) ==
  /\ job[j].pc = "call" /\ Valid(j) /\ Fine /\ Told(j)
  /\ To(j, Answered[job[j].kind])
  /\ Rest /\ UNCHANGED <<acct, astray, raced>>

CallFails(j) ==
  /\ job[j].pc = "call" /\ Hiccup
  /\ To(j, Refused[job[j].kind])
  /\ Rest /\ UNCHANGED <<acct, pushing, astray, raced>>

\* An expired, refused or missing access token: the refresh token of the row it read.
Refreshes(j) ==
  /\ job[j].pc = "call" /\ ~Valid(j) /\ Fine
  /\ To(j, IF job[j].snap.grant = 0 THEN Refused[job[j].kind]
           ELSE IF job[j].snap.grant \in live THEN "save" ELSE "erase")
  /\ Rest /\ UNCHANGED <<acct, pushing, astray, raced>>

\* The new tokens are written, and the call is made with them.
SavesTokens(j) ==
  /\ job[j].pc = "save" /\ Fine
  /\ PutAuth(j, job[j].snap.grant, "good")
  /\ job' = [job EXCEPT ![j].pc = "call", ![j].snap.access = "good"]
  /\ Rest /\ UNCHANGED <<pushing, astray>>

\* invalid_grant: the access token is erased, and the user has to reconnect.
ErasesTokens(j) ==
  /\ job[j].pc = "erase" /\ Fine
  /\ PutAuth(j, job[j].snap.grant, "none")
  /\ To(j, Refused[job[j].kind])
  /\ Rest /\ UNCHANGED <<pushing, astray>>

-----------------------------------------------------------------------------
(* Connecting: authorize, the consent at Google, the callback. *)

\* Mutant: the address is not looked up.
KnownNot == {}

\* The address is looked up among the connectors there are.
Known == Rows

Awaiting(j) == job[j].kind = "connect" /\ job[j].k = 0 /\ job[j].pc \in {"consent", "read", "exchange", "create"}

\* The state row of oauth_states: of a connector that is there, or of a draft.
Authorize(j) ==
  /\ job[j].pc = "free" /\ "connect" \in plan.jobs /\ Fine
  /\ \E k \in IF Known = {} THEN {0} ELSE Known :
       /\ job' = [job EXCEPT ![j] = [Free EXCEPT !.kind = "connect", !.pc = "consent", !.k = k]]
       /\ doubled' = (doubled \/ (k = 0 /\ \E i \in Jobs : Awaiting(i)))
  /\ UNCHANGED <<plan, acct, pushing, granted, live, saved, astray, raced>>

\* The user consents: a grant more.
Consent(j) ==
  /\ job[j].pc = "consent" /\ Fine
  /\ granted < Cardinality(Grants) /\ granted' = granted + 1
  /\ live' = live \cup {granted + 1}
  /\ job' = [job EXCEPT ![j].pc = "read", ![j].grant = granted + 1]
  /\ UNCHANGED <<plan, acct, pushing, saved, astray, raced, doubled>>

\* Or does not, or comes after the ten minutes of the state.
Expire(j) ==
  /\ job[j].pc \in {"consent", "read"} /\ Fine /\ Quits(j)
  /\ Rest /\ UNCHANGED <<acct, pushing, astray, raced>>

\* The state is taken, and the connector read.
ConsumeState(j) ==
  /\ job[j].kind = "connect" /\ job[j].pc = "read" /\ Fine
  /\ job' = [job EXCEPT ![j].pc = "exchange", ![j].snap = IF job[j].k = 0 THEN NoConnector ELSE acct[job[j].k]]
  /\ Rest /\ UNCHANGED <<acct, pushing, astray, raced>>

Exchange(j) ==
  /\ job[j].pc = "exchange"
  /\ \/ Fine /\ job[j].grant \in live /\ To(j, IF job[j].k = 0 THEN "create" ELSE "auth")
     \/ (IF job[j].grant \in live THEN Hiccup ELSE Fine) /\ Quits(j)
  /\ Rest /\ UNCHANGED <<acct, pushing, astray, raced>>

Create(j) ==
  /\ job[j].pc = "create" /\ Fine
  /\ \E k \in RowKeys \ Rows :
       /\ \A i \in RowKeys \ Rows : k <= i
       /\ acct' = [acct EXCEPT ![k] = [NoConnector EXCEPT !.here = TRUE, !.grant = job[j].grant, !.access = "good"]]
       /\ job' = [job EXCEPT ![j].pc = "auth", ![j].k = k, ![j].snap = acct'[k]]
       /\ saved' = [saved EXCEPT ![k] = job[j].grant]
  /\ UNCHANGED <<plan, granted, live, doubled, pushing, astray, raced>>

\* Mutant: a refresh token the row had is preferred to the one Google sent.
OldGrant(j) == IF job[j].snap.grant # 0 THEN job[j].snap.grant ELSE job[j].grant

NewGrant(j) == job[j].grant

SaveGrant(j) ==
  /\ job[j].pc = "auth" /\ Fine
  /\ PutAuth(j, NewGrant(j), "good")
  /\ saved' = [saved EXCEPT ![job[j].k] = IF @ < job[j].grant THEN job[j].grant ELSE @]
  /\ To(j, "settings")
  /\ UNCHANGED <<plan, granted, live, doubled, pushing, astray>>

\* The settings go back as read, with the watched mailboxes in order.
SaveSettings(j) ==
  /\ job[j].pc = "settings" /\ Fine
  /\ PutSettings(j, job[j].snap.push, job[j].snap.due)
  /\ IF job[j].snap.push = "off" THEN Quits(j)
     ELSE job' = [job EXCEPT ![j].pc = "call", ![j].snap.grant = NewGrant(j), ![j].snap.access = "good"]
  /\ Rest /\ UNCHANGED <<pushing, raced>>

-----------------------------------------------------------------------------
(* The routes of the push watch, the notification, the renewal, other uses. *)

\* One row, or all the rows of the address there are.
Begins(j, kind) ==
  /\ job[j].pc = "free" /\ Fine
  /\ \E k \in Rows : job' = [job EXCEPT ![j] = [Free EXCEPT !.kind = kind, !.pc = First(kind), !.k = k, !.snap = acct[k]]]
  /\ Rest /\ UNCHANGED <<acct, pushing, astray, raced>>

Sweeps(j, kind, keys) ==
  /\ job[j].pc = "free" /\ Fine /\ keys # {}
  /\ job' = [job EXCEPT ![j] = [Free EXCEPT !.kind = kind, !.pc = "next", !.left = keys, !.seen = acct]]
  /\ Rest /\ UNCHANGED <<acct, pushing, astray, raced>>

\* Mutant: a connector in error is not renewed.
DueUnlessError(row) == row.push \notin {"off", "error"} /\ row.due

\* shouldRenewConnector: not turned off, and the expiration near or not known.
ShouldRenew(row) == row.push # "off" /\ row.due

Ask(j) ==
  \/ "enable" \in plan.jobs /\ Begins(j, "enable")
  \/ "disable" \in plan.jobs /\ Begins(j, "disable")
  \/ "use" \in plan.jobs /\ Begins(j, "use")
  \/ "notify" \in plan.jobs /\ pushing /\ Sweeps(j, "notify", {k \in Rows : acct[k].push # "off"})

RenewDue == Sweeps(Renewal, "renew", {k \in Rows : ShouldRenew(acct[k])})

SweepNext(j) ==
  /\ job[j].pc = "next" /\ Fine /\ NextRow(j)
  /\ Rest /\ UNCHANGED <<acct, pushing, astray, raced>>

\* What Gmail answered, or that it did not, goes into the settings.
Concludes(j) ==
  LET pc == job[j].pc
  IN  /\ pc \in {"on", "off", "error", "same"} /\ Fine
      /\ PutSettings(j, IF pc = "same" THEN job[j].snap.push ELSE pc, pc # "on" /\ job[j].snap.due)
      /\ NextRow(j)
      /\ Rest /\ UNCHANGED <<pushing, raced>>

\* The statement fails: the renewal notes an error then, the others have told Gmail alone.
ConcludeFails(j) ==
  /\ job[j].pc \in {"on", "off", "error", "same"} /\ Hiccup
  /\ IF job[j].kind = "renew" THEN (IF job[j].pc = "on" THEN To(j, "error") ELSE NextRow(j)) ELSE Quits(j)
  /\ astray' = IF job[j].pc = "same" THEN astray ELSE astray \cup {job[j].k}
  /\ Rest /\ UNCHANGED <<acct, pushing, raced>>

Done(j) == job[j].pc = "quit" /\ Fine /\ Quits(j) /\ Rest /\ UNCHANGED <<acct, pushing, astray, raced>>

-----------------------------------------------------------------------------
(* Time, and the user at Google. *)

\* A handler is between Gmail and the row.
Telling == \E j \in Workers : job[j].kind \in {"enable", "disable", "renew", "connect"}

\* The expiration comes near, and the watch of Gmail ends some time after, later than any
\* handler that is at work; the access token expires.
Ages(k) ==
  /\ acct[k].push = "on" /\ ~acct[k].due
  /\ acct' = [acct EXCEPT ![k].due = TRUE]
  /\ UNCHANGED <<plan, pushing, granted, live, job, hiccups, astray, raced, saved, doubled>>

Lapse ==
  /\ pushing /\ (\A k \in Rows : acct[k].due \/ acct[k].push # "on") /\ ~Telling
  /\ pushing' = FALSE
  /\ UNCHANGED <<plan, acct, granted, live, job, hiccups, saved, astray, raced, doubled>>

TokenExpires(k) ==
  /\ plan.expire /\ acct[k].access = "good" /\ acct[k].here
  /\ acct' = [acct EXCEPT ![k].access = "old"]
  /\ UNCHANGED <<plan, pushing, granted, live, job, hiccups, saved, astray, raced, doubled>>

Revoke ==
  /\ live # {} /\ Hiccup /\ live' = {}
  /\ UNCHANGED <<plan, acct, pushing, granted, job, saved, astray, raced, doubled>>

-----------------------------------------------------------------------------
GoesOn(j) ==
  \/ CallAnswered(j) \/ Refreshes(j) \/ SavesTokens(j) \/ ErasesTokens(j)
  \/ ConsumeState(j) \/ Exchange(j) \/ Create(j) \/ SaveGrant(j) \/ SaveSettings(j)
  \/ SweepNext(j) \/ Concludes(j) \/ Done(j)

AcctNext ==
  \/ \E j \in Jobs : Authorize(j) \/ Consent(j) \/ Expire(j) \/ Ask(j)
  \/ \E j \in Workers : GoesOn(j) \/ CallFails(j) \/ ConcludeFails(j)
  \/ RenewDue
  \/ \E k \in RowKeys : Ages(k) \/ TokenExpires(k)
  \/ Lapse \/ Revoke

AcctSpec == AcctInit /\ [][AcctNext]_acctVars

-----------------------------------------------------------------------------
\* The rows of incoming_connectors and the handlers, when n grants were given.
RowType(n) == [here : BOOLEAN, push : {"unset", "off", "on", "error"}, due : BOOLEAN,
               grant : 0..n, access : {"good", "old", "none"}]
JobPcs == {"free", "over", "consent", "read", "exchange", "create", "auth", "settings",
           "next", "same", "call", "save", "erase", "on", "off", "error", "quit"}
JobType(n) == [kind : JobKinds \cup {"none", "renew"}, pc : JobPcs, k : RowKeys \cup {0}, snap : RowType(n),
               grant : 0..n, left : SUBSET RowKeys, seen : [RowKeys -> RowType(n)] \cup {<<>>}]

\* No row, reading or handler holds a grant the user has not given (the types of all that
\* the handlers keep between their awaits).
AcctTypeOK ==
  /\ plan \in Plans
  /\ granted \in Nat /\ live \subseteq 1..granted
  /\ acct \in [RowKeys -> RowType(granted)] /\ saved \in [RowKeys -> 0..granted]
  /\ job \in [Workers -> JobType(granted)]
  /\ pushing \in BOOLEAN /\ doubled \in BOOLEAN /\ hiccups \in Nat
  /\ astray \subseteq RowKeys /\ raced \subseteq RowKeys

\* Settings that say Gmail pushes, with time to go, tell the truth once no handler is
\* between Gmail and the row: unless the row was written from an older reading or in
\* another order than Gmail was told, a write failed, or the address has two connectors.
PushAsSaid ==
  \A k \in RowKeys : acct[k].push = "on" /\ ~acct[k].due /\ ~Telling /\ k \notin astray /\ Rows = {k} => pushing

\* While a callback's grant is good its row keeps a good grant, but for handlers that
\* read the row before the callback wrote it.
GrantKept == \A k \in Rows \ raced : saved[k] \in live => acct[k].grant \in live

\* One address, one connector, unless two drafts of it were on their way at once.
OneConnector == Cardinality(Rows) <= 1 \/ doubled

\* Whatever crossed or failed, the renewal makes Gmail push again for a connector that
\* is not turned off and has a grant that is good.
PushHeals == []<>(pushing \/ \A k \in Rows : acct[k].push = "off" \/ acct[k].grant \notin live)
=============================================================================
