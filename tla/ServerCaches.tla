----------------------------- MODULE ServerCaches -----------------------------
(***************************************************************************)
(* What one API process keeps in memory between requests: the quick        *)
(* filters and the search suggestions of each user, whether a connector is *)
(* Gmail-like, and the mailbox each user last reported as open, which gives *)
(* its syncs a high priority. All but the last are put in by the request    *)
(* that missed them, after the statements it waited for, and taken out or   *)
(* replaced by the requests that change what they say.                      *)
(*                                                                          *)
(* The two search caches are kept until they are cleared or evicted: their  *)
(* entries carry an expiry (8 s, 15 s) that getQuickFiltersCache and         *)
(* getSearchSuggestionsCache never look at, so the model leaves it out.      *)
(*                                                                           *)
(* Sources: routes/helpers.ts, services/syncPriority.ts, routes/messages-    *)
(* search-routes.ts, messages-mutation-routes.ts, messages-detail-routes.ts, *)
(* connectors-identity.ts, connectors-core.ts, connectors-mutate.ts,         *)
(* connectors-cleanup.ts, syncManagementRoutes.ts.                           *)
(***************************************************************************)
EXTENDS Naturals, Sequences, FiniteSets

CONSTANTS
  Threads,     \* requests the process serves at a time
  People,      \* users
  Typed,       \* texts suggestions are asked for
  Connectors,       \* incoming connectors
  OwnerOf,     \* [Connectors -> People]
  MaxFacts,    \* changes of what the search routes count, for each user
  MaxTurns,    \* times a connector becomes Gmail-like or stops to be
  CacheMax,    \* [filters, suggestions, kinds |-> entries]: SEARCH_..._CACHE_MAX, ACTIVE_..._MAX
  KindLife,    \* ACTIVE_MAILBOX_CONNECTOR_CACHE_TTL_MS, in ticks
  OpenLife     \* ACTIVE_MAILBOX_TTL_MS, in ticks

VARIABLES
  facts,       \* for each user: how many changes labels, stars, attachments and senders had
  rowOf,       \* the connectors' rows: "unborn", "imap", "gmail" (Gmail-like), "gone"
  turns,       \* kind changes so far
  kept,        \* the three caches: sets of [key, value, age, place], the oldest entry in place 1
  open,        \* activeMailboxByUser: [box, as (the kind its name was normalised for), age]
  asking,      \* the requests under way
  told         \* history, for each user: the facts when the caches were last cleared with
               \* none of the user's lookups under way

cacheVars == <<facts, rowOf, turns, kept, open, asking, told>>

Kinds == {"imap", "gmail"}
NotOpen == [box |-> "none", as |-> "none", age |-> 0]
Asking(op, u, key, at, got) == [op |-> op, user |-> u, key |-> key, at |-> at, got |-> got]
NoAsking == Asking("none", "none", <<>>, "idle", "none")

CacheInit ==
  /\ facts = [u \in People |-> 0] /\ told = facts
  /\ rowOf \in [Connectors -> Kinds \cup {"unborn"}] /\ turns = 0
  /\ kept = [filters |-> {}, suggestions |-> {}, kinds |-> {}]
  /\ open = [u \in People |-> NotOpen]
  /\ asking = [t \in Threads |-> NoAsking]

-----------------------------------------------------------------------------
(* The maps: a key that is set again becomes the newest, and one entry too *)
(* many drops the oldest.                                                   *)

\* Entries that lost some of theirs close up.
Ranked(entries) == {[e EXCEPT !.place = Cardinality({f \in entries : f.place <= e.place})] : e \in entries}
Besides(cache, key) == Ranked({e \in cache : e.key # key})
Under(cache, key) == {e \in cache : e.key = key}
PutIn(cache, key, value, most) ==
  LET others == Besides(cache, key)
      new == others \cup {[key |-> key, value |-> value, age |-> 0, place |-> Cardinality(others) + 1]}
  IN  IF Cardinality(new) > most THEN Ranked({e \in new : e.place # 1}) ELSE new

\* Mutant: the entry is returned whatever its age, as the search caches do.
LiveForEver(key) == Under(kept.kinds, key)
\* getActiveMailboxConnectorCache: an entry that is too old is dropped; a hit does not renew.
Live(key) == {e \in Under(kept.kinds, key) : e.age < KindLife}

Serves(t, op, u, key, at) ==
  /\ asking[t] = NoAsking
  /\ asking' = [asking EXCEPT ![t] = Asking(op, u, key, at, "none")]
WaitsAt(t, op, pc) == asking[t].op = op /\ asking[t].at = pc
Proceeds(t, pc) == asking' = [asking EXCEPT ![t].at = pc]
Reads(t, pc, value) == asking' = [asking EXCEPT ![t].at = pc, ![t].got = value]
Answers(t) == asking' = [asking EXCEPT ![t] = NoAsking]

\* setActiveMailboxConnectorCache and clearActiveMailboxConnectorCache.
SetsKind(key, kind) == kept' = [kept EXCEPT !.kinds = PutIn(kept.kinds, key, kind, CacheMax.kinds)]
ClearsKind(key) == kept' = [kept EXCEPT !.kinds = Besides(kept.kinds, key)]

-----------------------------------------------------------------------------
(* GET /api/search/quick-filters and /api/search/suggestions: an answer is *)
(* as old as the oldest of the statements it is put together from.          *)

\* A hit answers at once and changes nothing.
Searches(t, u, name, key) ==
  /\ Under(kept[name], key) = {}
  /\ Serves(t, name, u, key, "query")
  /\ UNCHANGED <<facts, rowOf, turns, kept, open, told>>
Tallies(t) ==
  /\ asking[t].op \in {"filters", "suggestions"} /\ asking[t].at = "query"
  /\ Reads(t, "keep", facts[asking[t].user])
  /\ UNCHANGED <<facts, rowOf, turns, kept, open, told>>
Keeps(t) ==
  LET a == asking[t] IN
  /\ a.op \in {"filters", "suggestions"} /\ a.at = "keep"
  /\ kept' = [kept EXCEPT ![a.op] = PutIn(kept[a.op], a.key, a.got, CacheMax[a.op])]
  /\ Answers(t)
  /\ UNCHANGED <<facts, rowOf, turns, open, told>>

-----------------------------------------------------------------------------
(* The requests that change what those routes count: an action on messages *)
(* (one statement after the other, any of which may fail), the same on many *)
(* messages (it catches what fails for one of them, not its own selects),   *)
(* and the label routes. The worker's syncs change it too, and tell nobody. *)

Happens(u) == facts[u] < MaxFacts /\ facts' = [facts EXCEPT ![u] = @ + 1]
Acts(t, u) ==
  /\ Serves(t, "act", u, <<u>>, "write")
  /\ UNCHANGED <<facts, rowOf, turns, kept, open, told>>
Writes(t) ==
  /\ WaitsAt(t, "act", "write") /\ Happens(asking[t].user)
  /\ UNCHANGED <<rowOf, turns, kept, open, asking, told>>
\* A statement throws: the route is left before it clears the caches, with the earlier ones done.
Fails(t) ==
  /\ WaitsAt(t, "act", "write") /\ Answers(t)
  /\ UNCHANGED <<facts, rowOf, turns, kept, open, told>>
SyncFinds(u) == Happens(u) /\ UNCHANGED <<rowOf, turns, kept, open, asking, told>>

\* Mutant: the suggestions are deleted under the user's id, not under all keys that begin with it.
ClearedByKey(u) == [kept EXCEPT !.filters = Besides(kept.filters, <<u>>), !.suggestions = Besides(kept.suggestions, <<u>>)]
\* clearSearchCachesForUser: the user's quick filters, and the suggestions under any text.
Cleared(u) ==
  [kept EXCEPT !.filters = Besides(kept.filters, <<u>>),
               !.suggestions = Ranked({e \in kept.suggestions : e.key[1] # u})]
Searching(u) == \E s \in Threads : asking[s].op \in {"filters", "suggestions"} /\ asking[s].user = u
Clears(t) ==
  LET u == asking[t].user IN
  /\ WaitsAt(t, "act", "write")
  /\ kept' = Cleared(u)
  /\ told' = IF Searching(u) THEN told ELSE [told EXCEPT ![u] = facts[u]]
  /\ Answers(t)
  /\ UNCHANGED <<facts, rowOf, turns, open>>

-----------------------------------------------------------------------------
(* The kind of a connector: read through the cache by the list and search  *)
(* routes and by POST /api/sync/active-mailbox ("open"), which also marks   *)
(* the mailbox active under the name that kind gives it.                    *)

Owned(u, b) == OwnerOf[b] = u /\ rowOf[b] \in Kinds
Marks(u, b, kind) == open' = [open EXCEPT ![u] = [box |-> b, as |-> kind, age |-> 0]]
MayMark(op, u, b, kind) == IF op = "open" THEN Marks(u, b, kind) ELSE UNCHANGED open
Hits(t, op, u, b) ==
  /\ asking[t] = NoAsking
  /\ \E e \in Live(<<u, b>>) : MayMark(op, u, b, e.value)
  /\ UNCHANGED <<facts, rowOf, turns, kept, asking, told>>
Misses(t, op, u, b) ==
  /\ Live(<<u, b>>) = {} /\ ClearsKind(<<u, b>>)
  /\ Serves(t, op, u, <<u, b>>, "query")
  /\ UNCHANGED <<facts, rowOf, turns, open, told>>
\* getIncomingConnector; without a row the answer is 404 or no folder names of its own.
Finds(t) ==
  LET b == asking[t].key[2] IN
  /\ asking[t].op \in {"open", "list"} /\ asking[t].at = "query"
  /\ IF Owned(asking[t].user, b) THEN Reads(t, "keep", rowOf[b]) ELSE Answers(t)
  /\ UNCHANGED <<facts, rowOf, turns, kept, open, told>>
Remembers(t) ==
  LET a == asking[t] IN
  /\ a.op \in {"open", "list"} /\ a.at = "keep"
  /\ SetsKind(a.key, a.got) /\ MayMark(a.op, a.user, a.key[2], a.got)
  /\ Answers(t)
  /\ UNCHANGED <<facts, rowOf, turns, told>>

-----------------------------------------------------------------------------
(* The connector routes: create, patch (write, read again, set), delete.   *)

Creates(t, b, kind) ==
  LET u == OwnerOf[b] IN
  /\ rowOf[b] = "unborn" /\ rowOf' = [rowOf EXCEPT ![b] = kind]
  /\ asking[t] = NoAsking
  /\ asking' = [asking EXCEPT ![t] = Asking("create", u, <<u, b>>, "keep", kind)]
  /\ UNCHANGED <<facts, turns, kept, open, told>>
Patches(t, u, b) ==
  /\ Owned(u, b) /\ Serves(t, "patch", u, <<u, b>>, "write")
  /\ UNCHANGED <<facts, rowOf, turns, kept, open, told>>
PatchWrites(t, kind) ==
  LET b == asking[t].key[2] IN
  /\ WaitsAt(t, "patch", "write")
  /\ \/ rowOf[b] = kind /\ UNCHANGED <<rowOf, turns>>
     \/ rowOf[b] = "gone" /\ UNCHANGED <<rowOf, turns>>
     \/ /\ rowOf[b] \in Kinds \ {kind} /\ turns < MaxTurns
        /\ rowOf' = [rowOf EXCEPT ![b] = kind] /\ turns' = turns + 1
  /\ Proceeds(t, "query")
  /\ UNCHANGED <<facts, kept, open, told>>
PatchReads(t) ==
  LET b == asking[t].key[2] IN
  /\ WaitsAt(t, "patch", "query") /\ Reads(t, "keep", rowOf[b])
  /\ UNCHANGED <<facts, rowOf, turns, kept, open, told>>
ConnectorKept(t) ==
  LET a == asking[t] IN
  /\ a.op \in {"patch", "create"} /\ a.at = "keep"
  /\ IF a.got \in Kinds THEN SetsKind(a.key, a.got) ELSE ClearsKind(a.key)
  /\ Answers(t)
  /\ UNCHANGED <<facts, rowOf, turns, open, told>>

\* The row is deleted when the request has told its syncs and watches to stop.
Removes(t, u, b) ==
  /\ rowOf[b] # "unborn" /\ Serves(t, "remove", u, <<u, b>>, "forget")
  /\ rowOf' = IF OwnerOf[b] = u THEN [rowOf EXCEPT ![b] = "gone"] ELSE rowOf
  /\ UNCHANGED <<facts, turns, kept, open, told>>
Forgets(t) ==
  /\ WaitsAt(t, "remove", "forget") /\ ClearsKind(asking[t].key) /\ Answers(t)
  /\ UNCHANGED <<facts, rowOf, turns, open, told>>

\* resolveSyncQueuePriority, for a mailbox whose name goes by the kind of its connector.
Priority(u, b, kind) ==
  IF open[u].box = b /\ open[u].as = kind /\ open[u].age <= OpenLife THEN "high" ELSE "normal"

-----------------------------------------------------------------------------
\* Date.now() moves on: every entry that can expire grows older.
Older(age, life) == IF age > life THEN age ELSE age + 1
CacheTick ==
  /\ kept' = [kept EXCEPT !.kinds = {[e EXCEPT !.age = IF e.age < KindLife THEN e.age + 1 ELSE e.age] : e \in kept.kinds}]
  /\ open' = [u \in People |-> IF open[u] = NotOpen THEN NotOpen
                               ELSE [open[u] EXCEPT !.age = Older(@, OpenLife)]]
  /\ UNCHANGED <<facts, rowOf, turns, asking, told>>

CacheStarts(t) ==
  \/ \E u \in People : \/ Searches(t, u, "filters", <<u>>)
                       \/ \E q \in Typed : Searches(t, u, "suggestions", <<u, q>>)
                       \/ Acts(t, u)
  \/ \E u \in People, b \in Connectors :
       \/ Patches(t, u, b) \/ Removes(t, u, b)
       \/ \E op \in {"open", "list"} : rowOf[b] # "unborn" /\ (Hits(t, op, u, b) \/ Misses(t, op, u, b))
  \/ \E b \in Connectors, kind \in Kinds : Creates(t, b, kind)
CacheStep(t) ==
  \/ Tallies(t) \/ Keeps(t) \/ Fails(t) \/ Clears(t) \/ Finds(t) \/ Remembers(t)
  \/ (\E kind \in Kinds : PatchWrites(t, kind)) \/ PatchReads(t) \/ ConnectorKept(t) \/ Forgets(t)
CacheNext ==
  \/ \E t \in Threads : CacheStarts(t) \/ CacheStep(t) \/ Writes(t)
  \/ \E u \in People : SyncFinds(u)
  \/ CacheTick

CacheSpec == CacheInit /\ [][CacheNext]_cacheVars
-----------------------------------------------------------------------------
(* Properties. *)

\* What a user changed stays shown: once the caches were cleared with none of the user's
\* lookups under way, no cache, and no lookup that is about to fill one, holds an answer
\* from before the clear. (A lookup under way at the clear does put the old answer back.)
ClearSticks ==
  /\ \A name \in {"filters", "suggestions"} : \A e \in kept[name] : e.value >= told[e.key[1]]
  /\ \A t \in Threads : asking[t].op \in {"filters", "suggestions"} /\ asking[t].at = "keep"
       => asking[t].got >= told[asking[t].user]

\* When connectors are no longer changed, what the process says of them comes round to
\* their rows, however late the answers that were put in over it: the kind it serves is
\* the row's, no deleted connector is served, and the mailboxes of a deleted connector, or
\* under the names the other kind gives them, have no high priority.
KindsComeRound ==
  <>[](/\ \A u \in People, b \in Connectors : \A e \in Live(<<u, b>>) : e.value = rowOf[b]
       /\ \A u \in People, b \in Connectors, kind \in Kinds : Priority(u, b, kind) = "high" => rowOf[b] = kind)
=============================================================================
