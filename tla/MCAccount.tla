------------------------------ MODULE MCAccount ------------------------------
(***************************************************************************)
(* Seven components that share no state in the models, in one run for the    *)
(* safety and one for the liveness properties: in a behaviour one of them  *)
(* moves, the others stay in one initial state.                            *)
(***************************************************************************)
EXTENDS MessageActions, IdleWatch, GmailAccount, GmailSync, Attachments, Threading, ServerCaches, TLC

VARIABLE part

Moving == {"act", "idle", "acct", "gmail", "files", "threads", "caches"}
accountVars == <<part, actVars, idleVars, acctVars, gmailVars, fileVars, threadVars, cacheVars>>

\* The components that do not move are in one of their initial states.
From(mine, settings) == IF part = mine THEN settings ELSE {CHOOSE s \in settings : TRUE}
AccountInit ==
  /\ part \in Moving /\ world \in From("act", Worlds) /\ setup \in From("idle", Setups)
  /\ plan \in From("acct", {p \in Plans : part = "acct" \/ p.rows = 0})
  /\ account \in From("gmail", Accounts) /\ ward \in From("files", Wards) /\ shelf \in From("threads", Shelves)
  /\ ActInit /\ (part # "act" => \A m \in Mails : srv[m].at = "INBOX")
  /\ IdleInit /\ AcctInit
  /\ GmailInit /\ (part # "gmail" => \A m \in Letters : label[m] = "in")
  /\ FilesInit /\ ThreadInit /\ CacheInit /\ (part # "caches" => \A b \in Connectors : rowOf[b] = "imap")

AccountNext ==
  \/ part = "act" /\ ActNext /\ UNCHANGED <<part, idleVars, acctVars, gmailVars, fileVars, threadVars, cacheVars>>
  \/ part = "idle" /\ IdleNext /\ UNCHANGED <<part, actVars, acctVars, gmailVars, fileVars, threadVars, cacheVars>>
  \/ part = "acct" /\ AcctNext /\ UNCHANGED <<part, actVars, idleVars, gmailVars, fileVars, threadVars, cacheVars>>
  \/ part = "gmail" /\ GmailNext /\ UNCHANGED <<part, actVars, idleVars, acctVars, fileVars, threadVars, cacheVars>>
  \/ part = "files" /\ FilesNext /\ UNCHANGED <<part, actVars, idleVars, acctVars, gmailVars, threadVars, cacheVars>>
  \/ part = "threads" /\ ThreadNext /\ UNCHANGED <<part, actVars, idleVars, acctVars, gmailVars, fileVars, cacheVars>>
  \/ part = "caches" /\ CacheNext /\ UNCHANGED <<part, actVars, idleVars, acctVars, gmailVars, fileVars, threadVars>>

AccountSpec == AccountInit /\ [][AccountNext]_accountVars

\* Statements and servers answer or fail; the mailbox is synced again and again.
ActFair ==
  /\ WF_actVars(part = "act" /\ Fetch) /\ WF_actVars(part = "act" /\ Apply)
  /\ \A r \in Reqs : WF_actVars(part = "act" /\ Serve(r))
\* Statements answer, syncs end, timers fire and connections are made or refused.
IdleFair ==
  /\ \A c \in Callers : WF_idleVars(part = "idle" /\ CallStep(c))
  /\ WF_idleVars(part = "idle" /\ TickStep)
  /\ \A w \in WatchIds : WF_idleVars(part = "idle" /\ LoopStep(w))
  /\ WF_idleVars(part = "idle" /\ \E w \in WatchIds : TimerSyncs(w))
\* Handlers run on, the maintenance tick renews, and time passes.
AcctFair ==
  /\ \A j \in Workers : WF_acctVars(part = "acct" /\ GoesOn(j))
  /\ WF_acctVars(part = "acct" /\ RenewDue)
  /\ WF_acctVars(part = "acct" /\ \E k \in RowKeys : Ages(k))
\* Syncs come again and end, the worker runs the jobs it is given, and days pass.
GmailFair ==
  /\ \A s \in Syncs : WF_gmailVars(part = "gmail" /\ SyncStep(s))
  /\ WF_gmailVars(part = "gmail" /\ \E s \in Syncs : Arrive(s, TRUE))
  /\ WF_gmailVars(part = "gmail" /\ FillStep) /\ WF_gmailVars(part = "gmail" /\ DayPasses)
FilesFair == \A a \in Files : WF_fileVars(part = "files" /\ ScanStep(a))
\* Statements answer, and time passes.
CacheFair ==
  /\ \A t \in Threads : WF_cacheVars(part = "caches" /\ CacheStep(t))
  /\ WF_cacheVars(part = "caches" /\ CacheTick)
AccountLive == AccountSpec /\ ActFair /\ IdleFair /\ AcctFair /\ GmailFair /\ FilesFair /\ CacheFair
-----------------------------------------------------------------------------
\* MessageActions
Asks(ops, want, whole) == [ops |-> ops, want |-> want, thread |-> whole]
Single == {Asks({"read"}, TRUE, FALSE), Asks({"star"}, TRUE, FALSE), Asks({"star"}, FALSE, FALSE),
           Asks({"move"}, TRUE, FALSE), Asks({"delete"}, TRUE, FALSE)}
Several == {Asks({"read", "star", "delete"}, TRUE, TRUE), Asks({"move"}, TRUE, TRUE),
            Asks({"star", "move", "delete"}, TRUE, FALSE)}
World(n, fails, asks) == {[gmail |-> g, reqs |-> n, downs |-> fails, asks |-> asks] : g \in BOOLEAN}
Rivals(g) == {Asks({o}, v, FALSE) : o \in IF g THEN {"read", "move", "delete"} ELSE {"star", "move"},
                                    v \in IF g THEN {TRUE} ELSE BOOLEAN} \ {Asks({"move"}, FALSE, FALSE)}
AllWorlds == World(1, 1, Single \cup Several)
  \cup UNION {{w \in World(2, 0, Rivals(g)) : w.gmail = g} : g \in BOOLEAN}
LiveWorlds == World(1, 1, Single \cup {Asks({"star", "delete"}, TRUE, TRUE)})

\* IdleWatch
Setup(n, asks) == {[gmail |-> g, mishaps |-> n, asks |-> asks] : g \in BOOLEAN}
AllSetups == Setup(1, {"watch", "unwatch"}) \cup Setup(0, {"watch", "unwatch", "delete"})
LiveSetups == Setup(1, {"watch", "unwatch", "delete"})

\* GmailAccount
Plan(rows, push, n, expire, jobs) ==
  [rows |-> rows, push |-> push, hiccups |-> n, expire |-> expire, jobs |-> jobs]
AllPlans == {Plan(1, "unset", 1, FALSE, {"enable", "disable", "notify"}), Plan(1, "off", 2, TRUE, {"connect", "use"}),
             Plan(1, "unset", 0, FALSE, {"connect", "disable"}), Plan(1, "off", 1, FALSE, {"enable", "disable"}),
             Plan(0, "unset", 0, FALSE, {"connect", "enable"})}
LivePlans == {Plan(1, "unset", 2, FALSE, {"enable", "disable", "notify"}), Plan(1, "unset", 2, TRUE, {"connect"}),
              Plan(0, "unset", 1, FALSE, {"connect"})}

\* GmailSync
Account(syncs, changes, n, blank, days, fresh) ==
  [syncs |-> syncs, changes |-> changes, slips |-> n, sparse |-> TRUE, blank |-> blank, days |-> days, fresh |-> fresh]
AllAccounts == {Account(1, 2, 0, {}, FALSE, FALSE), Account(1, 1, 0, {}, TRUE, FALSE),
                Account(1, 1, 1, {1}, FALSE, FALSE), Account(2, 0, 0, {}, FALSE, TRUE),
                [Account(1, 1, 1, {}, FALSE, TRUE) EXCEPT !.sparse = FALSE]}
LiveAccounts == {Account(1, 1, 0, {1}, FALSE, FALSE), Account(1, 0, 1, {1}, TRUE, FALSE)}

\* Attachments
Ward(policy, leaves, parses, asks, n) ==
  {[scan |-> policy, gmail |-> g, leaves |-> leaves, parses |-> parses, asks |-> asks, snags |-> n] : g \in BOOLEAN}
AllWards == Ward("skip", TRUE, 2, 0, 1) \cup Ward("inline", TRUE, 2, 0, 1) \cup Ward("inline", FALSE, 2, 1, 1)
  \cup Ward("skip", FALSE, 2, 1, 1) \cup {w \in Ward("queued", FALSE, 2, 0, 0) : w.gmail}
  \cup Ward("queued", FALSE, 1, 2, 1) \cup Ward("queued", FALSE, 1, 1, 2)
LiveWards == Ward("queued", TRUE, 1, 1, 2)

\* Threading: an IMAP account where two copies and an answer in another connector come at
\* once; answers with references and subjects; a Gmail conversation whose root is stored or
\* hydrated again; subjects and people alone; copies of which one has another subject.
Sheet(box, id, re, refs, subject, reply, who, talk) ==
  [box |-> box, id |-> id, re |-> re, refs |-> refs, subject |-> subject, reply |-> reply,
   dull |-> FALSE, who |-> who, talk |-> talk]
Shelf(sheets, again, losses, most) == [sheet |-> sheets, again |-> again, slips |-> losses, atOnce |-> most]
Imap(box, id, re) == Sheet(box, id, re, << >>, id, FALSE, {}, 0)
Gmail(id, re) == Sheet("a", id, re, << >>, 1, re # 0, {}, 1)
AllShelves ==
  {Shelf(<<Imap("a", 1, 0), Imap("a", 1, 0), Imap("b", 2, 1)>>, 0, 1, 2),
   Shelf(<<Imap("a", 1, 0), Sheet("b", 2, 1, <<1>>, 1, TRUE, {1}, 0),
           Sheet("a", 3, 4, <<1, 2>>, 1, TRUE, {1}, 0)>>, 0, 1, 2),
   Shelf(<<Gmail(1, 0), Gmail(2, 1), Gmail(1, 0)>>, 1, 0, 2),
   Shelf(<<Gmail(1, 0), Gmail(2, 1), Gmail(3, 2)>>, 2, 0, 1),
   Shelf(<<Imap("a", 1, 0), Imap("a", 1, 0), Imap("a", 1, 0)>>, 0, 1, 3),
   Shelf(<<Imap("a", 1, 0), Imap("a", 1, 0), [Imap("a", 1, 0) EXCEPT !.subject = 2]>>, 0, 0, 2),
   Shelf(<<Sheet("a", 1, 0, << >>, 1, FALSE, {1}, 0), Sheet("a", 2, 0, << >>, 1, TRUE, {2}, 0),
           Sheet("a", 3, 0, << >>, 1, TRUE, {1, 2}, 0)>>, 0, 0, 2)}
OneShelf == {Shelf(<<Imap("a", 1, 0)>>, 0, 0, 1)}

\* ServerCaches
Room == [filters |-> 1, suggestions |-> 1, kinds |-> 1]
FirstOwns == [b \in Connectors |-> CHOOSE u \in People : TRUE]

\* The actors of all the components are the same model values.
AccountSymmetry == Permutations(Reqs)
=============================================================================
