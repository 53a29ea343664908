------------------------------ MODULE Threading ------------------------------
(***************************************************************************)
(* Which thread a stored message belongs to: of another copy of it, of the *)
(* message it answers, of one it refers to, of one with its subject and    *)
(* somebody in common, or a new one; found by one statement after the      *)
(* other, and written to the message and to its copies by two more, while  *)
(* other messages are stored and threaded. A Gmail message is threaded     *)
(* again whenever it changes there, after it has been given the thread of  *)
(* its Gmail conversation. listThreadMessages shows what came of it.       *)
(*                                                                         *)
(* Sources: services/threading.ts, threadingUtils.ts, services/imap/       *)
(* imapService.monolith.ts (createNewMessage, upsertGmailMessage,          *)
(* hydrateGmailMailboxContentBatch).                                       *)
(***************************************************************************)
EXTENDS Naturals, Sequences, FiniteSets

CONSTANTS
  Sheets,  \* rows of messages, 1..n, the order of received_at; the number is also the
           \* precedence of its folder (INBOX, SENT, ...) among copies
  Shelves  \* settings, one to a behaviour: [sheet : [Sheets -> [box (connector), id, re : Nat
           \* (Message-ID, In-Reply-To), refs : Seq(Nat), subject : Nat, reply : BOOLEAN (it starts
           \* with "Re:"), dull : BOOLEAN (a generic subject), who : set (From, To), talk : Nat (Gmail
           \* conversation; 0: an IMAP connector)]], again : Nat (times a message is stored or
           \* hydrated again), slips : Nat, atOnce : Nat (messages worked on at once)]

ASSUME ThreadAssumption == Sheets \subseteq Nat

VARIABLES
  shelf,   \* the setting
  stored,  \* the rows there are
  thread,  \* thread_id; 0: null
  norm,    \* rows whose normalized_subject is set
  calc,    \* where each row's work is, and the thread it has found
  given,   \* thread ids that were made
  done,    \* what of the bounds is spent
  since    \* history: for each row, the rows that had their thread before its own was
           \* looked for, and have had the same since

threadVars == <<shelf, stored, thread, norm, calc, given, done, since>>

S(r) == shelf.sheet[r]
NoCalc == [pc |-> "none", found |-> 0]
AtWork == {r \in Sheets : calc[r].pc # "none"}
Least(R) == CHOOSE r \in R : \A q \in R : r <= q
Greatest(R) == CHOOSE r \in R : \A q \in R : q <= r
Copies(r) == {q \in stored \ {r} : S(q).box = S(r).box /\ S(q).id = S(r).id}
Threaded(R) == {q \in R : thread[q] # 0}

ThreadInit ==
  /\ shelf \in Shelves
  /\ stored = {} /\ thread = [r \in Sheets |-> 0] /\ norm = {}
  /\ calc = [r \in Sheets |-> NoCalc] /\ given = 0 /\ done = [again |-> 0, slips |-> 0]
  /\ since = [r \in Sheets |-> {}]

Stands(r, pc) == calc[r].pc = pc
StepsTo(r, pc, t) == calc' = [calc EXCEPT ![r] = [pc |-> pc, found |-> t]]
New == given + 1
\* Rows whose thread is written: what was known before and after them is not known any more.
Changed(R) == since' = [q \in Sheets |-> IF q \in R THEN {} ELSE since[q] \ R]

-----------------------------------------------------------------------------
(* A message is stored. *)

\* createNewMessage has no thread; upsertGmailMessage looks for the conversation's newest.
Arrives(r) ==
  /\ Stands(r, "none") /\ Cardinality(AtWork) < shelf.atOnce
  /\ IF r \in stored THEN S(r).talk # 0 /\ done.again < shelf.again /\ done' = [done EXCEPT !.again = @ + 1]
     ELSE UNCHANGED done
  /\ LET talk == Threaded({q \in stored : S(q).box = S(r).box /\ S(q).talk = S(r).talk})
     IN  IF S(r).talk = 0 THEN StepsTo(r, "put", 0) /\ UNCHANGED given
         ELSE IF talk # {} THEN StepsTo(r, "put", thread[Greatest(talk)]) /\ UNCHANGED given
         ELSE StepsTo(r, "put", New) /\ given' = New
  /\ UNCHANGED <<shelf, stored, thread, norm, since>>

Puts(r) ==
  /\ Stands(r, "put") /\ StepsTo(r, "norm", 0)
  /\ stored' = stored \cup {r}
  /\ thread' = [thread EXCEPT ![r] = IF calc[r].found # 0 THEN calc[r].found ELSE @]
  /\ Changed({r})
  /\ UNCHANGED <<shelf, norm, given, done>>

\* hydrateGmailMailboxContentBatch: the contents have come, and the row is threaded again.
Rethreads(r) ==
  /\ r \in stored /\ Stands(r, "none") /\ S(r).talk # 0 /\ Cardinality(AtWork) < shelf.atOnce
  /\ done.again < shelf.again /\ done' = [done EXCEPT !.again = @ + 1]
  /\ StepsTo(r, "norm", 0)
  /\ UNCHANGED <<shelf, stored, thread, norm, given, since>>

-----------------------------------------------------------------------------
(* computeThreadForMessage. *)

Normalizes(r) ==
  /\ Stands(r, "norm") /\ StepsTo(r, "copies", 0)
  /\ norm' = norm \cup {r}
  /\ since' = [since EXCEPT ![r] = {q \in Threaded(stored \ {r}) : Stands(q, "none")}]
  /\ UNCHANGED <<shelf, stored, thread, given, done>>

\* findThreadIdForLogicalMessage.
FindsCopy(r) ==
  /\ Stands(r, "copies")
  /\ LET copies == Threaded(Copies(r))
     IN  IF copies # {} THEN StepsTo(r, "self", thread[Least(copies)]) ELSE StepsTo(r, "reply", 0)
  /\ UNCHANGED <<shelf, stored, thread, norm, given, done, since>>

\* Mutant: only the message's own connector is looked at.
ParentsHere(r) == {q \in stored : S(r).re # 0 /\ S(q).id = S(r).re /\ S(q).box = S(r).box}
\* The copies of the answered message, in any connector of the user.
Parents(r) == {q \in stored : S(r).re # 0 /\ S(q).id = S(r).re}

\* The oldest copy counts, with a thread or without.
FindsAnswered(r) ==
  /\ Stands(r, "reply")
  /\ IF Parents(r) # {} /\ thread[Least(Parents(r))] # 0 THEN StepsTo(r, "self", thread[Least(Parents(r))])
     ELSE StepsTo(r, "refs", 0)
  /\ UNCHANGED <<shelf, stored, thread, norm, given, done, since>>

\* The last reference that is stored and has a thread.
FindsReference(r) ==
  LET refs == S(r).refs
      at(i) == Threaded({q \in stored : S(q).id = refs[i]})
      here == {i \in DOMAIN refs : at(i) # {}}
  IN  /\ Stands(r, "refs")
      /\ IF here # {} THEN StepsTo(r, "self", thread[Least(at(Greatest(here)))]) ELSE StepsTo(r, "subject", 0)
      /\ UNCHANGED <<shelf, stored, thread, norm, given, done, since>>

\* isSubjectTooGeneric; else the newest with the subject whose people are not all others.
FindsSubject(r) ==
  LET dull == S(r).dull \/ (S(r).re = 0 /\ S(r).refs = << >> /\ ~S(r).reply)
      alike == {q \in Threaded(stored \ {r}) : S(q).box = S(r).box /\ q \in norm /\ S(q).subject = S(r).subject
                  /\ (S(q).who \cap S(r).who # {} \/ S(q).who = {} \/ S(r).who = {})}
  IN  /\ Stands(r, "subject")
      /\ IF ~dull /\ alike # {} THEN StepsTo(r, "self", thread[Greatest(alike)]) /\ UNCHANGED given
         ELSE StepsTo(r, "self", New) /\ given' = New
      /\ UNCHANGED <<shelf, stored, thread, norm, done, since>>

\* assignThreadIdForLogicalMessage: the message, and then its copies.
WritesSelf(r) ==
  /\ Stands(r, "self") /\ StepsTo(r, "others", calc[r].found)
  /\ thread' = [thread EXCEPT ![r] = calc[r].found]
  /\ since' = [q \in Sheets |-> since[q] \ {r}]
  /\ UNCHANGED <<shelf, stored, norm, given, done>>

WritesCopies(r) ==
  LET copies == {q \in Copies(r) : q \notin norm \/ S(q).subject = S(r).subject}
      moved == {q \in copies : thread[q] # calc[r].found}
  IN  /\ Stands(r, "others") /\ StepsTo(r, "none", 0)
      /\ thread' = [q \in Sheets |-> IF q \in copies THEN calc[r].found ELSE thread[q]]
      /\ Changed(moved)
      /\ UNCHANGED <<shelf, stored, norm, given, done>>

\* A statement fails: the sync or the job goes on with the next message, or ends.
ThreadFails(r) ==
  /\ calc[r].pc \notin {"none", "put"} /\ done.slips < shelf.slips
  /\ done' = [done EXCEPT !.slips = @ + 1]
  /\ StepsTo(r, "none", 0) /\ Changed({r})
  /\ UNCHANGED <<shelf, stored, thread, norm, given>>

ThreadNext ==
  \E r \in Sheets :
    \/ Arrives(r) \/ Puts(r) \/ Rethreads(r) \/ Normalizes(r) \/ FindsCopy(r) \/ FindsAnswered(r)
    \/ FindsReference(r) \/ FindsSubject(r) \/ WritesSelf(r) \/ WritesCopies(r) \/ ThreadFails(r)

ThreadSpec == ThreadInit /\ [][ThreadNext]_threadVars
-----------------------------------------------------------------------------
\* listThreadMessages: of the copies in one connector the one whose folder comes first.
Listed(t) == {r \in stored : thread[r] = t /\ \A q \in Copies(r) : thread[q] = t => r < q}

(* A message that is the only copy of itself and was threaded when all that *)
(* it answers had threads lies with one copy of it: whoever opens the       *)
(* thread finds it listed there, in whichever account it was stored. And a  *)
(* message threaded when all its copies had threads lies with one of them,  *)
(* and with every copy that had one and has its subject: copies with        *)
(* another subject may lie apart (threading.ts:124-313, 315-395).           *)
RepliesJoin ==
  \A r \in stored : Stands(r, "none") =>
    /\ LET parents == {q \in stored : S(r).re # 0 /\ S(q).id = S(r).re}
       IN  parents # {} /\ parents \subseteq since[r] /\ Copies(r) = {} =>
         \E q \in Listed(thread[r]) : S(q).id = S(r).re
    /\ Copies(r) # {} /\ Copies(r) \subseteq since[r] => \E q \in Copies(r) : thread[q] = thread[r]
    /\ \A q \in Copies(r) \cap since[r] : S(q).subject = S(r).subject => thread[q] = thread[r]
=============================================================================
