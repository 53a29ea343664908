----------------------------- MODULE InboxRoute -----------------------------
(***************************************************************************)
(* Which mailbox, folder, search, page and thread the inbox shows: what    *)
(* the URL says, checked against the profiles the user has, with what was  *)
(* shown last (kept in localStorage) for a URL that says nothing. Two      *)
(* components read the URL, keep the state and replace the URL by the one  *)
(* they understood, and they do not know the same: the list of messages    *)
(* believes an address that only sends because the URL names it, the       *)
(* profile switcher asks its list of them, which comes late.               *)
(*                                                                         *)
(* Sources: client/src/services/inboxStateMachine.ts, views/InboxView.tsx, *)
(* components/ProfileSwitcher.tsx, Sidebar.tsx, LegacyFolderRedirect.tsx.  *)
(* Trimming and letter case are left out.                                  *)
(***************************************************************************)
EXTENDS Naturals, Sequences

CONSTANTS
  Boxes,    \* incoming connectors
  Senders,  \* addresses that only send
  Owner,    \* [Threads -> Boxes \cup Senders]: whose a thread is
  Routes    \* settings, one to a behaviour: [url, boxes : Seq(Boxes), senders : Seq(Senders)
            \* (what the user has), turns : Nat]

\* The URLs of the settings are such as buildInboxSearchParams writes: a thread stands in the
\* mailbox it is of.
RouteFolders == {"", "INBOX", "SENT", "OUTBOX"} \cup {r.url.folder : r \in Routes}
RouteUrls == [who : Boxes \cup Senders \cup {""}, folder : RouteFolders, q : Nat, page : Nat, thread : {0} \cup DOMAIN Owner]
ASSUME RouteAssumption ==
  /\ Boxes \cap Senders = {} /\ "" \notin Boxes \cup Senders
  /\ Owner \in [DOMAIN Owner -> Boxes \cup Senders] /\ 0 \notin DOMAIN Owner
  /\ \A r \in Routes :
       /\ r.boxes \in Seq(Boxes) /\ r.senders \in Seq(Senders)
       /\ r.url \in RouteUrls /\ (r.url.thread # 0 => Owner[r.url.thread] = r.url.who)

VARIABLES
  route,    \* the setting
  url,      \* the search parameters: [who, folder, q, page, thread], "" or 0 where there is none
  boxes,    \* the connectors; << >> while they are loaded
  senders,  \* the profile switcher's addresses; << >> while they are loaded
  recent,   \* SIMPLEMAIL_INBOX_VIEW_STATE_V1, or NoRoute
  turns,    \* what of the bound is spent
  strayed   \* history: the URL named somebody the user does not have (any more)

routeVars == <<route, url, boxes, senders, recent, turns, strayed>>

Threads == DOMAIN Owner
NoRoute == [who |-> "", folder |-> "", q |-> 0, page |-> 0, thread |-> 0]
Has(s, w) == \E i \in DOMAIN s : s[i] = w

\* isProfileAvailable, for a component that knows these senders: everybody is available while
\* nobody is known.
Available(w, known) ==
  \/ w \in Boxes /\ (boxes = << >> \/ Has(boxes, w))
  \/ w \in Senders /\ (known = << >> \/ Has(known, w))

\* normalizeFolderForProfile.
Folder(w, f) == IF w \in Senders THEN IF f = "SENT" THEN "SENT" ELSE "OUTBOX" ELSE IF f = "" THEN "INBOX" ELSE f

\* pickFallbackProfile.
Fallback(known) ==
  IF Available(recent.who, known) THEN recent.who
  ELSE IF boxes # << >> THEN boxes[1] ELSE IF known # << >> THEN known[1] ELSE ""

\* sanitizePage.
PageOf(n) == IF n = 0 THEN 1 ELSE n

\* parseProfileFromSearch, hasInboxStateParams.
Asked == url.who
Bare == url = NoRoute
\* canUsePreferredState.
Preferred(known) == IF Bare /\ Available(recent.who, known) THEN recent ELSE NoRoute

\* Mutant: what was shown last goes before the mailbox that the URL names.
RecentFirst(known) ==
  LET old == IF Available(recent.who, known) THEN recent ELSE NoRoute
      who == IF old # NoRoute THEN old.who ELSE IF Available(Asked, known) THEN Asked ELSE Fallback(known)
  IN  IF who = "" THEN NoRoute
      ELSE [who |-> who, folder |-> Folder(who, IF url.folder # "" THEN url.folder ELSE old.folder),
            q |-> url.q, page |-> PageOf(url.page), thread |-> url.thread]
\* resolveInboxViewState: the state to show, or NoRoute; it is also the URL it stands for
\* (buildInboxSearchParams).
Resolved(known) ==
  LET who == IF Available(Asked, known) THEN Asked ELSE Fallback(known)
      old == Preferred(known)
  IN  IF who = "" THEN NoRoute
      ELSE [who |-> who, folder |-> Folder(who, IF url.folder # "" THEN url.folder ELSE old.folder),
            q |-> IF url.q # 0 THEN url.q ELSE old.q,
            page |-> PageOf(IF url.page # 0 THEN url.page ELSE old.page),
            thread |-> IF url.thread # 0 THEN url.thread ELSE old.thread]

\* What the list of messages knows of the senders, and what it shows.
Named == IF Asked \in Senders THEN <<Asked>> ELSE << >>
Shown == Resolved(Named)

RouteInit ==
  /\ route \in Routes
  /\ url = route.url /\ boxes = << >> /\ senders = << >> /\ recent = NoRoute /\ turns = 0
  /\ strayed = FALSE

Gone(u, bs, ss) ==
  \/ u.who \in Boxes /\ bs # << >> /\ ~Has(bs, u.who)
  \/ u.who \in Senders /\ ss # << >> /\ ~Has(ss, u.who)
Strays(u, bs, ss) == strayed' = (strayed \/ Gone(u, bs, ss))

\* Bound.
TurnTaken == turns < route.turns /\ turns' = turns + 1

\* The query of the connectors answers, for the first time or again.
BoxesCome ==
  /\ boxes' \in (IF route.boxes = << >> THEN {} ELSE {route.boxes, <<route.boxes[1]>>}) \ {boxes}
  /\ TurnTaken
  /\ Strays(url, boxes', senders)
  /\ UNCHANGED <<route, url, senders, recent>>

\* The identities and outgoing connectors have come.
SendersCome ==
  /\ senders = << >> /\ senders' = route.senders /\ senders' # << >>
  /\ Strays(url, boxes, senders')
  /\ UNCHANGED <<route, url, boxes, recent, turns>>

\* The effect that replaces the URL.
Replaces(known) ==
  /\ Resolved(known) # NoRoute /\ Resolved(known) # url
  /\ url' = Resolved(known) /\ Strays(url', boxes, senders)
  /\ UNCHANGED <<route, boxes, senders, recent, turns>>

\* The effect that keeps the state.
Persists(known) ==
  /\ Resolved(known) # NoRoute /\ recent # Resolved(known) /\ recent' = Resolved(known)
  /\ UNCHANGED <<route, url, boxes, senders, turns, strayed>>

\* Mutant: the thread stays open when another mailbox is chosen.
SelectKeepsThread(s, w) == [s EXCEPT !.who = w, !.folder = Folder(w, ""), !.page = 1]
\* reduceInboxState.
SelectProfile(s, w) == [s EXCEPT !.who = w, !.folder = Folder(w, ""), !.page = 1, !.thread = 0]
Reduced(s) ==
  {[s EXCEPT !.folder = Folder(s.who, f), !.page = 1, !.thread = 0] : f \in {"INBOX", "SENT"}}
  \cup {[s EXCEPT !.q = n, !.page = 1, !.thread = 0] : n \in 0 .. 1}
  \cup {[s EXCEPT !.page = n, !.thread = 0] : n \in 1 .. 2}
  \cup {[s EXCEPT !.thread = t] : t \in {u \in Threads : Owner[u] = s.who} \cup {0}}

\* dispatchRouteEvent of the list; dispatchToInbox of the sidebar.
Dispatches(known) ==
  /\ Resolved(known) # NoRoute /\ TurnTaken
  /\ url' \in Reduced(Resolved(known)) \ {url}
  /\ Strays(url', boxes, senders)
  /\ UNCHANGED <<route, boxes, senders, recent>>

\* selectProfile: kept first, then shown.
SwitchesProfile(w) ==
  /\ Has(boxes, w) \/ Has(senders, w)
  /\ TurnTaken
  /\ url' = SelectProfile(IF Resolved(senders) = NoRoute THEN [NoRoute EXCEPT !.page = 1] ELSE Resolved(senders), w)
  /\ recent' = url'
  /\ UNCHANGED <<route, boxes, senders, strayed>>

\* LegacyFolderRedirect, which believes the kept state; then the inbox is opened.
OpensFolder(f) ==
  /\ TurnTaken
  /\ url' = IF recent = NoRoute THEN NoRoute
            ELSE [NoRoute EXCEPT !.who = recent.who, !.folder = Folder(recent.who, f), !.page = 1]
  /\ boxes' = << >> /\ senders' = << >>
  /\ UNCHANGED <<route, recent, strayed>>

\* External: the inbox is opened anew, by the address the user knows or a bare one.
Returns ==
  /\ TurnTaken
  /\ url' \in {NoRoute, route.url} /\ boxes' = << >> /\ senders' = << >>
  /\ UNCHANGED <<route, recent, strayed>>

Effects(known) == Replaces(known) \/ Persists(known)
RouteNext ==
  \/ BoxesCome \/ SendersCome \/ Returns \/ OpensFolder("SENT")
  \/ \E w \in Boxes \cup Senders : SwitchesProfile(w)
  \/ \E known \in {Named, senders} : Effects(known) \/ Dispatches(known)
-----------------------------------------------------------------------------
(* What is shown is one mailbox's: a thread is never shown in the mailbox  *)
(* of another, whatever URLs, kept states and lists of profiles come in    *)
(* whatever order, unless the URL named a profile that is gone: the next   *)
(* mailbox then inherits its folder, page and thread                       *)
(* (inboxStateMachine.ts:268-335).                                         *)
ShownIsIts == ~strayed /\ Shown.thread # 0 => Owner[Shown.thread] = Shown.who

(* The two components that replace the URL come to terms: when the user    *)
(* and the queries are still, the URL is replaced no more, and both of     *)
(* them show what it says (InboxView.tsx:88-96, ProfileSwitcher.tsx:119).  *)
UrlSettles == <>[](Shown \in {NoRoute, url} /\ Resolved(senders) \in {NoRoute, url})
=============================================================================
