----------------------------- MODULE ThreadOrder -----------------------------
(***************************************************************************)
(* How the messages of a thread are laid out: each one under the message   *)
(* it answers, as far as that is among them, the answers of one message    *)
(* and the messages that answer none in the order they came. Headers come  *)
(* from outside: they may name a message twice, none, or go in a circle.   *)
(*                                                                         *)
(* Source: client/src/services/threading.ts.                               *)
(***************************************************************************)
EXTENDS Naturals, Sequences, FiniteSets

CONSTANTS
  Notes,   \* messages, 1..n, in the order of the array
  Bundles  \* threads, one to a behaviour: [Notes -> [id, re : Nat (Message-ID and In-Reply-To,
           \* 0: none), refs : Seq(Nat), at : Nat (receivedAt)]]

ASSUME OrderAssumption ==
  /\ Notes \subseteq Nat \ {0} /\ IsFiniteSet(Notes)
  /\ Bundles \subseteq [Notes -> [id : Nat, re : Nat, refs : Seq(Nat), at : Nat]]

VARIABLES
  bundle,  \* the thread
  phase,   \* "link", "cut", "lay", "laid"
  link,    \* parentById, as the headers have it
  parent,  \* parentById, without circles
  rest,    \* notes to cut, in chronological order, or [note, depth] to lay out
  layout   \* ordered: sequence of [note, parent, depth]

orderVars == <<bundle, phase, link, parent, rest, layout>>

\* chronologicalComparator.
Before(m, n) == bundle[m].at < bundle[n].at \/ (bundle[m].at = bundle[n].at /\ m < n)
\* Array.sort by it.
Sorted(S) ==
  CHOOSE s \in [1 .. Cardinality(S) -> S] : \A i, j \in DOMAIN s : i < j => Before(s[i], s[j])
Newest(S) == CHOOSE n \in S : \A m \in S \ {n} : Before(m, n)

OrderInit ==
  /\ bundle \in Bundles /\ phase = "link" /\ rest = << >> /\ layout = << >>
  /\ link = [n \in Notes |-> 0] /\ parent = [n \in Notes |-> 0]

\* messageIdToRowIds.
Bearers(id) == IF id = 0 THEN {} ELSE {n \in Notes : bundle[n].id = id}

\* pickBestParentId: the newest of those with this Message-ID that are not newer than the
\* note, or the newest of all.
BestParent(n, id) ==
  LET all == Bearers(id) \ {n}
      old == {m \in all : bundle[m].at <= bundle[n].at}
  IN  IF all = {} THEN 0 ELSE Newest(IF old # {} THEN old ELSE all)

\* extractMessageIdTokens: each once, where it is named first.
Mentions(n) ==
  LET refs == bundle[n].refs
  IN  {i \in DOMAIN refs : refs[i] # 0 /\ \A j \in DOMAIN refs : j < i => refs[j] # refs[i]}
\* normalizeMessageIdToken.
Answered(n) == bundle[n].re

\* The last reference that is here, or what the note is said to answer.
ParentOf(n) ==
  LET refs == bundle[n].refs
      here == {i \in Mentions(n) : BestParent(n, refs[i]) # 0}
  IN  IF here # {} THEN BestParent(n, refs[CHOOSE i \in here : \A j \in here : j <= i])
      ELSE BestParent(n, Answered(n))

Links ==
  /\ phase = "link" /\ phase' = "cut"
  /\ link' = [n \in Notes |-> ParentOf(n)] /\ parent' = link'
  /\ rest' = Sorted(Notes)
  /\ UNCHANGED <<bundle, layout>>

\* Mutant: only a pair that answer each other.
PairOnly(up, n) == up[n] # 0 /\ up[up[n]] = n
\* createsCycle: the way up from a note never ends, for it stays among some notes.
Circles(up, n) == \E S \in SUBSET Notes : n \in S /\ \A m \in S : up[m] \in S

Children(n) == {m \in Notes : parent[m] = n}
Laying(S, depth) == LET s == Sorted(S) IN [i \in DOMAIN s |-> [note |-> s[i], depth |-> depth]]

Cuts ==
  /\ phase = "cut" /\ rest # << >>
  /\ parent' = IF Circles(parent, Head(rest)) THEN [parent EXCEPT ![Head(rest)] = 0] ELSE parent
  /\ rest' = Tail(rest)
  /\ UNCHANGED <<bundle, phase, link, layout>>

Roots ==
  /\ phase = "cut" /\ rest = << >> /\ phase' = "lay"
  /\ rest' = Laying(Children(0), 0)
  /\ UNCHANGED <<bundle, link, parent, layout>>

\* visit: a note, then what answers it; at the end whatever has not been visited.
Laid == {layout[i].note : i \in DOMAIN layout}
Lays ==
  /\ phase = "lay" /\ Laid # Notes
  /\ LET next == IF rest # << >> THEN Head(rest)
                 ELSE [note |-> Head(Sorted(Notes \ Laid)), depth |-> 0]
         more == IF rest # << >> THEN Tail(rest) ELSE << >>
     IN  IF next.note \in Laid THEN rest' = more /\ UNCHANGED layout
         ELSE /\ layout' = Append(layout, [note |-> next.note, parent |-> parent[next.note], depth |-> next.depth])
              /\ rest' = Laying(Children(next.note), next.depth + 1) \o more
  /\ UNCHANGED <<bundle, phase, link, parent>>

Finishes ==
  /\ phase = "lay" /\ Laid = Notes /\ phase' = "laid" /\ rest' = << >>
  /\ UNCHANGED <<bundle, link, parent, layout>>

OrderNext == Links \/ Cuts \/ Roots \/ Lays \/ Finishes
-----------------------------------------------------------------------------
Place(n) == CHOOSE i \in DOMAIN layout : layout[i].note = n

(* Whatever the headers say, every message is laid out once, under what it *)
(* answers and after it, the answers of one message in the order they      *)
(* came; and a message is put on its own only when it answers none that is *)
(* here, or the way up from it never ends (threading.ts:129-235).          *)
ReadsInOrder ==
  phase = "laid" =>
    /\ Len(layout) = Cardinality(Notes)
    /\ \A n \in Notes :
         LET p == parent[n] IN
         /\ p = 0 => layout[Place(n)].depth = 0 /\ (link[n] = 0 \/ Circles(link, n))
         /\ p # 0 => p = link[n] /\ Place(p) < Place(n) /\ layout[Place(n)].depth = layout[Place(p)].depth + 1
         /\ \A m \in Notes : parent[m] = p /\ Before(m, n) => Place(m) < Place(n)
=============================================================================
