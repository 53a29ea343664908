---------------------------- MODULE MessageActions ----------------------------
(***************************************************************************)
(* PATCH /api/messages/:messageId: what a user asks of one message or of a *)
(* thread (read, star, move, delete, in that order) is done on the row and *)
(* on the mail server, one after the other. The address of the message is  *)
(* read when the request comes; a row's flags are read before they are     *)
(* changed, and written back whole when the server refuses. Other requests *)
(* and the mailbox sync work on the same rows meanwhile.                   *)
(*                                                                         *)
(* Sources: services/imap/imapService.monolith.ts (setMessageReadState ... *)
(* applyThreadMessageActions), services/labels.ts,                         *)
(* routes/messages-mutation-routes.ts.                                     *)
(***************************************************************************)
EXTENDS Naturals, FiniteSets

CONSTANTS
  Reqs,        \* requests; each is made once
  Mails,       \* messages on the server, 1..n
  MaxRows,     \* bound: rows of messages ever made
  MaxMailUid,  \* bound: uids of a folder
  Worlds       \* settings, one to a behaviour: [gmail : BOOLEAN, reqs : Nat (requests
               \* made), downs : Nat (failures), asks : a set of what a request may ask,
               \* [ops : SUBSET Ops, want : BOOLEAN, thread : BOOLEAN]]

\* There is a first message, room for a row of each, and requests ask what the route takes.
ASSUME ActAssumption ==
  /\ IsFiniteSet(Mails) /\ Mails = 1 .. Cardinality(Mails) /\ 1 \in Mails
  /\ MaxRows \in Nat /\ Cardinality(Mails) <= MaxRows /\ MaxMailUid \in Nat
  /\ \A w \in Worlds : /\ w.gmail \in BOOLEAN
                       /\ w.asks \subseteq [ops : SUBSET {"read", "star", "move", "delete"},
                                           want : BOOLEAN, thread : BOOLEAN]

Ops == {"read", "star", "move", "delete"}
Boxes == {"INBOX", "TRASH"}
RowIds == 1..MaxRows

VARIABLES
  world,    \* the setting
  srv,      \* the server's messages: folder ("gone": expunged), uid, flags
  uidNext,  \* the server's next uid of a folder
  row,      \* messages and message_labels
  made,     \* rows made so far
  req,      \* the requests
  view,     \* what a running sync has fetched: a value of srv, or {}
  downs,    \* failures so far
  moved,    \* history: rows whose folder a request changed but whose uid is the old one
  owed      \* history: rows that may differ from the server until the next sync

actVars == <<world, srv, uidNext, row, made, req, view, downs, moved, owed>>

NoRow == [here |-> FALSE, of |-> 0, at |-> "INBOX", uid |-> 0, is |-> {}, flags |-> {}, labels |-> {}]
gmail == world.gmail

Idle == [pc |-> "idle", todo |-> {}, ops |-> {}, on |-> {}, snap |-> [i \in RowIds |-> <<"INBOX", 0>>],
         op |-> "read", i |-> 1, of |-> 0, want |-> FALSE, to |-> "INBOX", prev |-> [is |-> {}, flags |-> {}],
         got |-> {}, at |-> "INBOX", star |-> FALSE, rm |-> {}, add |-> {}, then |-> "next", lost |-> FALSE]

\* The system labels of a folder and a star ('all' is never removed).
LabelsOf(at, star) == (IF star THEN {"starred"} ELSE {}) \cup (IF at = "TRASH" THEN {"trash"} ELSE {})

RowOf(m, s) == [here |-> TRUE, of |-> m, at |-> s.at, uid |-> s.uid, is |-> s.flags,
                flags |-> s.flags, labels |-> LabelsOf(s.at, "star" \in s.flags)]

\* One message in the inbox, the others there too or in the trash, which need not be synced.
ActInit ==
  /\ world \in Worlds
  /\ srv \in {f \in [Mails -> [at : Boxes, uid : 1..MaxMailUid, flags : {{}}]] :
       /\ f[1].at = "INBOX"
       /\ \A m \in Mails : f[m].uid = Cardinality({n \in Mails : n <= m /\ f[n].at = f[m].at})}
  /\ uidNext = [b \in Boxes |-> 1 + Cardinality({m \in Mails : srv[m].at = b})]
  /\ \E synced \in {S \in SUBSET Mails : \A m \in Mails : srv[m].at = "INBOX" => m \in S} :
       row = [i \in RowIds |-> IF i \in synced THEN RowOf(i, srv[i]) ELSE NoRow]
  /\ made = Cardinality(Mails)
  /\ req = [r \in Reqs |-> Idle]
  /\ view = {} /\ downs = 0 /\ moved = {} /\ owed = {}

OnRow(r) == row[req[r].i]
Open(r) == req[r].pc \notin {"idle", "done"}
Busy(i) == \E r \in Reqs : Open(r) /\ i \in req[r].on
Goes(r, pc) == req' = [req EXCEPT ![r].pc = pc]
Write(i, new) == row' = [row EXCEPT ![i] = IF @.here THEN new ELSE @]

\* The request fails with what it has done so far.
Raise(r) == Goes(r, "done")

-----------------------------------------------------------------------------
(* The route. *)

\* The message and its address are read once; a thread is all the rows there are.
Start(r) ==
  /\ req[r].pc = "idle" /\ Cardinality({q \in Reqs : req[q].pc # "idle"}) < world.reqs
  /\ \E ask \in world.asks, i \in RowIds :
       LET on == IF ask.thread THEN {j \in RowIds : row[j].here} ELSE {i}
       IN  /\ row[i].here
           /\ (ask.thread => \A j \in on : i <= j)
           /\ req' = [req EXCEPT ![r] = [Idle EXCEPT
                !.pc = "next", !.todo = ask.ops \X on, !.ops = ask.ops, !.on = on, !.want = ask.want,
                !.snap = [j \in RowIds |-> <<row[j].at, row[j].uid>>],
                !.to = IF row[i].at = "INBOX" THEN "TRASH" ELSE "INBOX"]]
           /\ owed' = owed \cup {j \in on : Busy(j)}
  /\ UNCHANGED <<world, srv, uidNext, row, made, view, downs, moved>>

Rank == [read |-> 1, star |-> 2, move |-> 3, delete |-> 4]
Before(s, t) == Rank[s[1]] < Rank[t[1]] \/ (s[1] = t[1] /\ s[2] <= t[2])

\* The next operation on the next message: it reads the row, which must be there.
Begin(r) ==
  /\ req[r].pc = "next" /\ req[r].todo # {}
  /\ \E t \in req[r].todo :
       /\ \A u \in req[r].todo : Before(t, u)
       /\ req' = [req EXCEPT ![r] = [@ EXCEPT
            !.pc = IF ~row[t[2]].here THEN "done" ELSE IF t[1] \in {"read", "star"} THEN "mark" ELSE "remote",
            !.todo = req[r].todo \ {t}, !.op = t[1], !.i = t[2], !.of = row[t[2]].of, !.lost = FALSE,
            !.prev = [is |-> row[t[2]].is, flags |-> row[t[2]].flags]]]
  /\ UNCHANGED <<world, srv, uidNext, row, made, view, downs, moved, owed>>

Reply(r) ==
  /\ req[r].pc = "next" /\ req[r].todo = {} /\ Goes(r, "done")
  /\ UNCHANGED <<world, srv, uidNext, row, made, view, downs, moved, owed>>

-----------------------------------------------------------------------------
(* The row, before the server is asked. *)

Flagged(S, r) == IF req[r].want THEN S \cup {IF req[r].op = "read" THEN "seen" ELSE "star"}
                               ELSE S \ {IF req[r].op = "read" THEN "seen" ELSE "star"}

\* The optimistic UPDATE: one column, and the flags as they were read.
Optimistic(r) ==
  /\ req[r].pc = "mark"
  /\ Write(req[r].i, [OnRow(r) EXCEPT !.is = Flagged(@, r), !.flags = Flagged(req[r].prev.flags, r)])
  /\ IF req[r].op = "read" THEN Goes(r, "remote")
     ELSE req' = [req EXCEPT ![r] = [@ EXCEPT !.pc = "look", !.at = req[r].snap[req[r].i][1],
                                             !.star = req[r].want, !.then = "remote"]]
  /\ UNCHANGED <<world, srv, uidNext, made, view, downs, moved, owed>>

\* syncSystemLabelsForMessage reads the labels, and then takes off and puts on.
Look(r) ==
  /\ req[r].pc = "look"
  /\ LET c == req[r]
         keys == LabelsOf(c.at, c.star)
     IN  req' = [req EXCEPT ![r] = [c EXCEPT
           !.pc = "put", !.rm = OnRow(r).labels \ keys, !.add = keys \ OnRow(r).labels]]
  /\ UNCHANGED <<world, srv, uidNext, row, made, view, downs, moved, owed>>

Put(r) ==
  /\ req[r].pc = "put"
  /\ Write(req[r].i, [OnRow(r) EXCEPT !.labels = (@ \ req[r].rm) \cup req[r].add])
  /\ IF OnRow(r).here \/ req[r].add = {}
       THEN req' = [req EXCEPT ![r] = [@ EXCEPT !.pc = req[r].then, !.rm = {}, !.add = {}]]
       ELSE Raise(r)
  /\ UNCHANGED <<world, srv, uidNext, made, view, downs, moved, owed>>

\* The label sync of a star comes before the try block: its failure undoes nothing.
LabelsFail(r) ==
  /\ req[r].pc = "put" /\ req[r].then = "remote" /\ downs < world.downs
  /\ downs' = downs + 1 /\ Raise(r) /\ owed' = owed \cup {req[r].i}
  /\ UNCHANGED <<world, srv, uidNext, row, made, view, moved>>

-----------------------------------------------------------------------------
(* The server. *)

\* Mutant: the uid is looked up in whatever mailbox is open.
HitAnywhere(r) == {m \in Mails : srv[m].at # "gone" /\ srv[m].uid = req[r].snap[req[r].i][2]}

\* The message a request is about: by its id, or by the folder and uid the row had.
Hit(r) ==
  IF gmail THEN {req[r].of}
           ELSE {m \in Mails : <<srv[m].at, srv[m].uid>> = req[r].snap[req[r].i]}

\* The message v[m] is the one row i is for: it has its id, or is where the row says.
Matches(i, m, v) == IF gmail THEN row[i].of = m ELSE <<row[i].at, row[i].uid>> = <<v[m].at, v[m].uid>>

Effect(r) ==
  LET c == req[r]
      New(s) == CASE c.op \in {"read", "star"} -> [s EXCEPT !.flags = Flagged(@, r)]
                  [] c.op = "move" -> [s EXCEPT !.at = c.to, !.uid = IF gmail THEN @ ELSE uidNext[c.to]]
                  [] c.op = "delete" -> [s EXCEPT !.at = IF gmail THEN "TRASH" ELSE "gone"]
  IN  /\ c.op = "move" /\ ~gmail /\ Hit(r) # {} => uidNext[c.to] <= MaxMailUid
      /\ srv' = [m \in Mails |-> IF m \in Hit(r) THEN New(srv[m]) ELSE srv[m]]
      /\ uidNext' = IF c.op = "move" /\ ~gmail /\ Hit(r) # {} THEN [uidNext EXCEPT ![c.to] = @ + 1] ELSE uidNext
      /\ owed' = owed \cup {j \in RowIds \ {c.i} : row[j].here /\ \E m \in Hit(r) : Matches(j, m, srv)}
                      \cup (IF c.i \in moved /\ ~gmail THEN {c.i} ELSE {})

\* It answers. Gmail answers with the labels the message has now.
Answer(r) ==
  /\ req[r].pc = "remote" /\ Effect(r)
  /\ LET now == UNION {srv'[m].flags : m \in Hit(r)}
         c == req[r]
     IN  req' = [req EXCEPT ![r] = [c EXCEPT
           !.pc = CASE c.op \in {"read", "star"} -> IF gmail THEN "settle" ELSE "next"
                    [] c.op = "move" -> "settle"
                    [] c.op = "delete" -> "erase",
           !.got = IF gmail THEN now ELSE {}]]
  /\ UNCHANGED <<world, row, made, view, downs, moved>>

\* It does as told and the answer is lost: the operation is tried again.
AnswerLost(r) ==
  /\ req[r].pc = "remote" /\ downs < world.downs /\ downs' = downs + 1 /\ Effect(r)
  /\ req' = [req EXCEPT ![r].lost = TRUE]
  /\ UNCHANGED <<world, row, made, view, moved>>

\* The attempts are used up.
GiveUp(r) ==
  /\ req[r].pc = "remote" /\ (downs < world.downs \/ req[r].lost)
  /\ downs' = IF req[r].lost THEN downs ELSE downs + 1
  /\ IF req[r].op \in {"read", "star"} THEN Goes(r, "undo") ELSE Raise(r)
  /\ owed' = IF req[r].lost THEN owed \cup {req[r].i} ELSE owed
  /\ UNCHANGED <<world, srv, uidNext, row, made, view, moved>>

-----------------------------------------------------------------------------
(* The row, after the server was asked. *)

\* Mutant: only the column that was changed goes back.
UndoneFlag(r) == [OnRow(r) EXCEPT !.is = req[r].prev.is]

\* A refusal puts back what was read before: every flag of it.
Undone(r) == [OnRow(r) EXCEPT !.is = req[r].prev.is, !.flags = req[r].prev.flags]

Undo(r) ==
  /\ req[r].pc = "undo"
  /\ Write(req[r].i, Undone(r))
  /\ IF req[r].op = "read" THEN Raise(r)
     ELSE req' = [req EXCEPT ![r] = [@ EXCEPT !.pc = "look", !.at = req[r].snap[req[r].i][1],
                                             !.star = "star" \in req[r].prev.is, !.then = "done"]]
  /\ UNCHANGED <<world, srv, uidNext, made, view, downs, moved, owed>>

\* The row becomes what Gmail answered; a move writes the folder, and over IMAP no
\* more than that: an address another row has is refused, with the message moved.
Settle(r) ==
  LET c == req[r]
      taken == \E j \in RowIds \ {c.i} : row[j].here /\ <<row[j].at, row[j].uid>> = <<c.to, OnRow(r).uid>>
      new == IF gmail THEN [OnRow(r) EXCEPT !.at = IF c.op = "move" THEN c.to ELSE @, !.is = c.got, !.flags = c.got]
                      ELSE [OnRow(r) EXCEPT !.at = c.to]
  IN  /\ c.pc = "settle"
      /\ IF ~gmail /\ taken THEN Raise(r) /\ UNCHANGED <<row, moved>>
         ELSE /\ Write(c.i, new)
              /\ moved' = IF gmail THEN moved ELSE moved \cup {c.i}
              /\ IF c.op = "read" THEN Goes(r, "next")
                 ELSE req' = [req EXCEPT ![r] = [c EXCEPT
                        !.pc = "look", !.then = "next", !.at = IF c.op = "move" THEN c.to ELSE c.snap[c.i][1],
                        !.star = "star" \in IF gmail THEN c.got ELSE OnRow(r).is]]
      /\ owed' = IF gmail THEN owed ELSE owed \cup {c.i}
      /\ UNCHANGED <<world, srv, uidNext, made, view, downs>>

Erase(r) ==
  /\ req[r].pc = "erase"
  /\ row' = [row EXCEPT ![req[r].i] = NoRow]
  /\ owed' = owed \ {req[r].i}
  /\ Goes(r, "next")
  /\ UNCHANGED <<world, srv, uidNext, made, view, downs, moved>>

-----------------------------------------------------------------------------
(* The mailbox sync, as the rows see it. *)

Fetch ==
  /\ view = {} /\ view' = {srv}
  /\ UNCHANGED <<world, srv, uidNext, row, made, req, downs, moved, owed>>

\* Mutant: a row at an address the server does not know stays.
UnfoundStays(i) == row[i]

Unfound(i) == NoRow

\* Rows it finds take the server's flags (and labels, when something changed), rows
\* it does not find go, and messages without a row get one.
Apply ==
  \E v \in view :
    LET found(i) == {m \in Mails : v[m].at # "gone" /\ row[i].here /\ Matches(i, m, v)}
        new == {m \in Mails : v[m].at # "gone" /\ ~\E i \in RowIds : m \in found(i)}
        place(m) == made + Cardinality({n \in new : n <= m})
        Fresh(i) == LET s == v[CHOOSE m \in found(i) : TRUE]
                        at == IF gmail THEN s.at ELSE row[i].at
                    IN  IF row[i].is = s.flags /\ row[i].flags = s.flags /\ row[i].at = at THEN row[i]
                        ELSE [row[i] EXCEPT !.at = at, !.is = s.flags, !.flags = s.flags,
                                            !.labels = LabelsOf(at, "star" \in s.flags)]
    IN  /\ made + Cardinality(new) <= MaxRows
        /\ row' = [i \in RowIds |->
             IF \E m \in new : place(m) = i THEN LET m == CHOOSE n \in new : place(n) = i IN RowOf(m, v[m])
             ELSE IF found(i) # {} THEN Fresh(i) ELSE Unfound(i)]
        /\ made' = made + Cardinality(new)
        /\ owed' = {i \in RowIds : row'[i].here /\ (v # srv \/ Busy(i) \/ row'[i].labels #
                                                      LabelsOf(row'[i].at, "star" \in row'[i].is))}
        /\ view' = {}
        /\ UNCHANGED <<world, srv, uidNext, req, downs, moved>>

-----------------------------------------------------------------------------
Serve(r) ==
  \/ Begin(r) \/ Reply(r) \/ Optimistic(r) \/ Look(r) \/ Put(r) \/ Answer(r)
  \/ Undo(r) \/ Settle(r) \/ Erase(r)

ActNext ==
  \/ Fetch \/ Apply
  \/ \E r \in Reqs : Start(r) \/ Serve(r) \/ LabelsFail(r) \/ AnswerLost(r) \/ GiveUp(r)

ActSpec == ActInit /\ [][ActNext]_actVars

-----------------------------------------------------------------------------
\* Once no request is at work on it, a row says of its message what the server says,
\* but for what is owed: an answer that was lost, labels that failed, an IMAP move,
\* two requests or a sync on the row at once, a request that hit another message.
Agrees(i) ==
  \A m \in Mails : (srv[m].at # "gone" /\ Matches(i, m, srv)) =>
    /\ row[i].is = srv[m].flags /\ row[i].flags = srv[m].flags
    /\ gmail => row[i].at = srv[m].at
    /\ row[i].labels = LabelsOf(row[i].at, "star" \in row[i].is)

RowsAgree == \A i \in RowIds : row[i].here /\ ~Busy(i) /\ i \notin owed => Agrees(i)

\* A request changes, moves and expunges no message but those it is for, as long as
\* their rows were not moved under their old uid.
HitsItsOwn ==
  [][\A m \in Mails : srv'[m] # srv[m] =>
       \E r \in Reqs : req[r].pc = "remote" /\ (req[r].of = m \/ req[r].i \in moved)]_actVars

\* Whatever requests, failures and late answers left behind, the sync puts right:
\* every message has a row at its address and every row the server's flags.
RowsHeal ==
  <>[](/\ \A i \in RowIds : row[i].here => \E m \in Mails : srv[m].at # "gone" /\ Matches(i, m, srv)
                                                    /\ row[i].is = srv[m].flags
       /\ \A m \in Mails : srv[m].at # "gone" => \E i \in RowIds : row[i].here /\ Matches(i, m, srv))
=============================================================================
