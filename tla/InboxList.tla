------------------------------ MODULE InboxList ------------------------------
(***************************************************************************)
(* The list of messages a tab shows, and what the user does to them before *)
(* the server has answered: the cached queries, the fetches, and the three *)
(* kinds of mutation (one message, the selected ones, the opened one read) *)
(* that patch every cached list at once, take the patch back when they     *)
(* fail, and ask for the shown list again when they do not.                *)
(*                                                                         *)
(* Sources: client/src/views/InboxView.tsx, App.tsx. External, as the code *)
(* uses it: TanStack Query (a mutation's callbacks and mutationFn are the  *)
(* latest render's, also for a second attempt; those given to mutate() run *)
(* only for the latest call) and the API, whose own races are in           *)
(* MessageActions. Changes other clients make are left out.                *)
(***************************************************************************)
EXTENDS Naturals, FiniteSets

CONSTANTS
  Letters,  \* messages of the connector
  Acts,     \* places for mutations that run at once
  Desks     \* settings, one to a behaviour: [acts, slips, turns : Nat (bounds: mutations the user
            \* begins, failed attempts, changes of the folder or of the selection), open : BOOLEAN
            \* (a thread may be opened), kinds : SUBSET {"star", "delete", "bulk"}]

VARIABLES
  desk,    \* the setting
  kept,    \* server: the messages that are there, with their flags
  lists,   \* the query cache: for each folder the rows of its list
  loads,   \* the fetch of the shown list: none, asked, or the rows it brings
  shown,   \* the folder that is shown
  picked,  \* selectedMessageIds
  opened,  \* the opened thread's message, or 0
  marking, \* markReadInFlightRef
  act,     \* the mutations
  tally,   \* what of the bounds is spent
  doubt,   \* history: lists that may be wrong until they are fetched again
  overtaken \* history: messages whose callback was lost to a later mark-read

deskVars == <<desk, kept, lists, loads, shown, picked, opened, marking, act, tally, doubt, overtaken>>

Folders == {"inbox", "starred"}
Flags(read, star) == [read |-> read, star |-> star]
Row(m, f) == [m |-> m, read |-> f.read, star |-> f.star]
NoLoad == [at |-> "none", rows |-> {}, calm |-> FALSE]
\* A list is asked for; nothing else is under way when it is "calm".
Asking(others) == [at |-> "asked", rows |-> {}, calm |-> others = {}]
NoAct == [pc |-> "none", kind |-> "star", ids |-> {}, set |-> Flags(FALSE, FALSE), snap |-> [k \in Folders |-> {}],
          tries |-> 0, held |-> FALSE, met |-> FALSE, done |-> FALSE]

\* What the API lists in a folder.
ServerRows(k) == {Row(m, kept[m].flags) : m \in {n \in Letters : kept[n].here /\ (k = "starred" => kept[n].flags.star)}}
Running == {a \in Acts : act[a].pc # "none"}
Spends(what) == tally[what] < desk[what] /\ tally' = [tally EXCEPT ![what] = @ + 1]
Quiet == Running = {} /\ loads.at = "none"

DeskInit ==
  /\ desk \in Desks
  /\ kept = [m \in Letters |-> [here |-> TRUE, flags |-> Flags(FALSE, FALSE)]]
  /\ lists = [k \in Folders |-> ServerRows(k)] /\ loads = NoLoad
  /\ shown = "inbox" /\ picked = {} /\ opened = 0 /\ marking = {}
  /\ act = [a \in Acts |-> NoAct]
  /\ tally = [acts |-> 0, slips |-> 0, turns |-> 0] /\ doubt = {} /\ overtaken = {}

-----------------------------------------------------------------------------
(* Fetches of the shown list. *)

\* refetchInterval, or the list is older than staleTime when it is shown.
FetchList ==
  /\ loads.at = "none" /\ loads' = Asking(Running)
  /\ UNCHANGED <<desk, kept, lists, shown, picked, opened, marking, act, tally, doubt, overtaken>>

ListAnswers ==
  /\ loads.at = "asked" /\ loads' = [loads EXCEPT !.at = "brought", !.rows = ServerRows(shown)]
  /\ UNCHANGED <<desk, kept, lists, shown, picked, opened, marking, act, tally, doubt, overtaken>>

ListComes ==
  /\ loads.at = "brought" /\ loads' = NoLoad
  /\ lists' = [lists EXCEPT ![shown] = loads.rows]
  /\ doubt' = IF loads.calm THEN doubt \ {shown} ELSE doubt
  /\ UNCHANGED <<desk, kept, shown, picked, opened, marking, act, tally, overtaken>>

\* invalidateQueries on the list that is shown: a fetch under way is started anew.
Invalidates(a) == loads' = Asking(Running \ {a})

-----------------------------------------------------------------------------
(* A mutation. *)

\* mutate(): cancelQueries gives up the fetch; the snapshots come when that has settled.
Begins(a, kind, ids, set, held) ==
  /\ act[a].pc = "none" /\ a = CHOOSE b \in Acts : act[b].pc = "none"
  /\ act' = [b \in Acts |->
       IF b = a THEN [NoAct EXCEPT !.pc = "cancel", !.kind = kind, !.ids = ids, !.set = set, !.held = held,
                                   !.met = ~Quiet]
       ELSE IF act[b].pc = "none" THEN act[b]
       ELSE [act[b] EXCEPT !.met = TRUE, !.held = @ /\ ~(kind = "mark" /\ act[b].kind = "mark")]]
  /\ loads' = NoLoad

\* updateMessageMutation, on a message of the list.
UserActs(a, kind, m) ==
  /\ kind \in desk.kinds \ {"bulk"} /\ Spends("acts")
  /\ \E r \in lists[shown] :
       /\ r.m = m
       /\ Begins(a, kind, {m}, Flags(FALSE, ~r.star), FALSE)
  /\ UNCHANGED <<desk, kept, lists, shown, picked, opened, marking, doubt, overtaken>>

\* bulkActionMutation: mark the selected ones read.
UserActsOnPicked(a) ==
  /\ "bulk" \in desk.kinds /\ picked # {} /\ Spends("acts")
  /\ Begins(a, "bulk", picked, Flags(TRUE, FALSE), FALSE)
  /\ UNCHANGED <<desk, kept, lists, shown, picked, opened, marking, doubt, overtaken>>

\* The effect of an opened thread: markAsReadMutation, once at a time for a message.
MarksOpened(a) ==
  /\ opened \notin marking /\ \E r \in lists[shown] : r.m = opened /\ ~r.read
  /\ Begins(a, "mark", {opened}, Flags(TRUE, FALSE), TRUE)
  /\ marking' = marking \cup {opened}
  /\ overtaken' = overtaken \cup UNION {act[b].ids : b \in {c \in Running : act[c].held}}
  /\ UNCHANGED <<desk, kept, lists, shown, picked, opened, tally, doubt>>

\* applyOptimisticPatch, in one list.
Patched(k, rows, A) ==
  IF A.kind = "delete" THEN {r \in rows : r.m \notin A.ids}
  ELSE {IF r.m \notin A.ids THEN r
        ELSE [r EXCEPT !.read = IF A.kind = "star" THEN @ ELSE A.set.read,
                        !.star = IF A.kind = "star" THEN A.set.star ELSE @] :
          r \in {s \in rows : ~(k = "starred" /\ A.kind = "star" /\ ~A.set.star /\ s.m \in A.ids)}}

\* The rest of onMutate.
Patches(a) ==
  /\ act[a].pc = "cancel"
  /\ act' = [act EXCEPT ![a].pc = "send", ![a].snap = lists]
  /\ lists' = [k \in Folders |-> Patched(k, lists[k], act[a])]
  /\ UNCHANGED <<desk, kept, loads, shown, picked, opened, marking, tally, doubt, overtaken>>

\* mutationFn: a bulk action names what is selected now, not what it has patched.
Targets(a) == IF act[a].kind = "bulk" THEN picked ELSE act[a].ids
Hits(a, ids) ==
  kept' = [m \in Letters |->
    IF m \notin ids THEN kept[m]
    ELSE IF act[a].kind = "delete" THEN [kept[m] EXCEPT !.here = FALSE]
    ELSE [kept[m] EXCEPT !.flags = [read |-> IF act[a].kind = "star" THEN @.read ELSE TRUE,
                                    star |-> IF act[a].kind = "star" THEN act[a].set.star ELSE @.star]]]
Sends(a) ==
  /\ act[a].pc = "send" /\ Hits(a, Targets(a))
  /\ act' = [act EXCEPT ![a].pc = "sent", ![a].done = TRUE]
  /\ doubt' = IF Targets(a) = act[a].ids THEN doubt ELSE Folders
  /\ UNCHANGED <<desk, lists, loads, shown, picked, opened, marking, tally, overtaken>>

\* An attempt fails, before or after the server has done it; there are two.
AttemptFails(a) ==
  /\ act[a].pc \in {"send", "sent"} /\ Spends("slips")
  /\ act' = [act EXCEPT ![a].pc = IF act[a].tries = 0 THEN "send" ELSE "failed", ![a].tries = 1]
  /\ UNCHANGED <<desk, kept, lists, loads, shown, picked, opened, marking, doubt, overtaken>>

\* Mutant: the message is taken out of the ref on success only.
UnmarksRead(a) ==
  marking' = IF act[a].held /\ act[a].pc = "sent" THEN marking \ act[a].ids ELSE marking
\* The callback given to mutate() runs for the latest call only.
Unmarks(a) == marking' = IF act[a].held THEN marking \ act[a].ids ELSE marking
Ends(a) == act' = [act EXCEPT ![a] = NoAct]

\* Mutant: the list is not asked for again.
SucceedsQuietly(a) ==
  /\ act[a].pc = "sent" /\ Ends(a) /\ Unmarks(a) /\ UNCHANGED loads
  /\ picked' = IF act[a].kind = "bulk" THEN {} ELSE picked
  /\ UNCHANGED <<desk, kept, lists, shown, opened, tally, doubt, overtaken>>
\* onSuccess, onSettled.
Succeeds(a) ==
  /\ act[a].pc = "sent" /\ Ends(a) /\ Unmarks(a) /\ Invalidates(a)
  /\ picked' = IF act[a].kind = "bulk" THEN {} ELSE picked
  /\ UNCHANGED <<desk, kept, lists, shown, opened, tally, doubt, overtaken>>

\* onError: every list is what it was; only the update of one message asks for it again.
Fails(a) ==
  /\ act[a].pc = "failed" /\ Ends(a) /\ Unmarks(a)
  /\ lists' = act[a].snap
  /\ IF act[a].kind \in {"star", "delete"} THEN Invalidates(a) ELSE UNCHANGED loads
  /\ doubt' = IF act[a].met \/ act[a].done THEN Folders ELSE doubt
  /\ UNCHANGED <<desk, kept, shown, picked, opened, tally, overtaken>>

-----------------------------------------------------------------------------
(* The rest of what the user does. *)

\* Another folder: its list is fetched when it is old; what was selected is not any more,
\* and the fetch of the list that was shown is given up.
Turns ==
  /\ Spends("turns")
  /\ shown' = CHOOSE k \in Folders : k # shown
  /\ picked' = {} /\ opened' = 0
  /\ loads' \in {NoLoad, Asking(Running)}
  /\ doubt' = IF Quiet THEN doubt ELSE Folders
  /\ UNCHANGED <<desk, kept, lists, marking, act, overtaken>>

Picks(m) ==
  /\ "bulk" \in desk.kinds /\ Spends("turns") /\ \E r \in lists[shown] : r.m = m
  /\ picked' = IF m \in picked THEN picked \ {m} ELSE picked \cup {m}
  /\ UNCHANGED <<desk, kept, lists, loads, shown, opened, marking, act, doubt, overtaken>>

Opens(m) ==
  /\ desk.open /\ opened # m /\ Spends("turns") /\ \E r \in lists[shown] : r.m = m
  /\ opened' = m
  /\ UNCHANGED <<desk, kept, lists, loads, shown, picked, marking, act, doubt, overtaken>>

ActStep(a) == Patches(a) \/ Sends(a) \/ AttemptFails(a) \/ Succeeds(a) \/ Fails(a)
LoadStep == ListAnswers \/ ListComes
DeskNext ==
  \/ FetchList \/ LoadStep \/ Turns
  \/ \E m \in Letters : Picks(m) \/ Opens(m)
  \/ \E a \in Acts : ActStep(a) \/ MarksOpened(a) \/ UserActsOnPicked(a)
                     \/ \E m \in Letters, kind \in {"star", "delete"} : UserActs(a, kind, m)
-----------------------------------------------------------------------------
(* When nothing is under way the list that is shown tells what the server  *)
(* has: whatever fetch came in between, its answer does not outlive the    *)
(* mutation. What may be wrong until the next fetch are lists left while   *)
(* something was under way, and lists that a failed mutation has put back  *)
(* over another one's patch, or whose failure was none (InboxView.tsx:     *)
(* 310-341, 423-494).                                                      *)
ListTells ==
  Quiet /\ shown \notin doubt =>
    \A r \in lists[shown] : kept[r.m].here /\ r = Row(r.m, kept[r.m].flags)

(* A message whose thread stays open is marked read at the server, however *)
(* often that fails, unless its callback was lost to the thread opened     *)
(* after it (InboxView.tsx:484-500).                                       *)
OpenedGetsRead ==
  \A m \in Letters : opened = m ~> (kept[m].flags.read \/ ~kept[m].here \/ opened # m \/ m \in overtaken)
=============================================================================
