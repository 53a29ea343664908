------------------------------ MODULE TabProofs ------------------------------
(***************************************************************************)
(* Proofs about one browser tab: that a sign-in outlives the refreshes and *)
(* the reloads (ClientLogin), that the list a folder shows tells what the  *)
(* server has once nothing is under way (InboxList), that an opened thread *)
(* is shown in the mailbox it is of (InboxRoute), and that its messages    *)
(* are laid out in the order they are read in (ThreadOrder). The four      *)
(* share no state; each has its inductive invariant and one lemma to an    *)
(* action.                                                                 *)
(***************************************************************************)
EXTENDS ClientLogin, InboxList, InboxRoute, ThreadOrder, FiniteSetTheorems, WellFoundedInduction,
        TLAPS

-----------------------------------------------------------------------------
(* The sign-in. *)

LoginSpec == LoginInit /\ [][LoginNext]_loginVars

Urls == [at : {"inbox", "login", "provider"}, code : Nat]
Held == [age : {"none", "fresh", "soon", "expired"}, key : Nat]
Flight == [at : {"none", "directory", "sent", "granted", "refused", "lost"}, key : Nat]
Counts == [asks : Nat, keys : Nat, days : Nat, slips : Nat, trips : Nat]

LoginTypes ==
  /\ view \in {"boot", "exchange", "failed", "app", "login", "leaving"}
  /\ place \in Urls /\ asked \in Nat
  /\ held \in Held
  /\ usable \in BOOLEAN /\ alarm \in BOOLEAN /\ probing \in BOOLEAN
  /\ directory \in {"none", "waiting", "ok", "failed"}
  /\ flight \in [1 .. 2 -> Flight]
  /\ click \in {"none", "signin", "logout"} /\ grant \in Nat
  /\ count \in Counts
  /\ excuse \in BOOLEAN /\ farewell \in {"no", "yes", "late"} /\ signed \in BOOLEAN

\* One refresh at a time, and none that the provider has yet to take stands beside a newer token.
OneFlight == flight[2] = NoFlight
Clicked ==
  /\ click = "signin" => farewell # "yes"
  /\ click = "logout" => excuse
  /\ view \in {"boot", "exchange"} => click = "none"
SignedOut == farewell = "yes" => held = NoHold /\ flight[1].at = "none" /\ asked = 0 /\ view # "exchange"
SignedIn ==
  signed /\ ~excuse =>
    /\ grant # 0 /\ held.key # 0 /\ flight[1].at # "refused"
    /\ flight[1].at \in {"directory", "sent"} => flight[1].key = grant
    /\ IF flight[1].at = "granted" /\ tab.rotates THEN flight[1].key = grant
       ELSE held.key = grant /\ (flight[1].at = "granted" => flight[1].key = 0)
LoginInv == LoginTypes /\ OneFlight /\ Clicked /\ SignedOut /\ SignedIn
-----------------------------------------------------------------------------
LEMMA LoginStarts == LoginInit => LoginInv
<1> SUFFICES ASSUME LoginInit PROVE LoginInv
  OBVIOUS
<1>1. LoginTypes
  BY DEF LoginInit, LoginTypes, Urls, Held, Flight, Counts, NoFlight, NoHold, Url
<1>2. OneFlight /\ Clicked /\ SignedOut /\ SignedIn
  BY DEF LoginInit, OneFlight, Clicked, SignedOut, SignedIn, NoFlight
<1>3. QED
  BY <1>1, <1>2 DEF LoginInv

LEMMA CountFits ==
  ASSUME count \in Counts, NEW what \in {"days", "slips", "trips"}, Spend(what)
  PROVE  count' \in Counts
BY DEF Spend, Counts

LEMMA PageLoads ==
  ASSUME LoginInv, NEW to \in Urls, NEW n \in Nat, Loads(to, n),
         UNCHANGED farewell
  PROVE  LoginInv'
<1> DEFINE due == Restored.key # 0 /\ Restored.age # "fresh"
<1>1. Restored \in Held
      /\ (Restored = held \/ (Restored = NoHold /\ held.key = 0))
  BY DEF LoginInv, LoginTypes, Urls, Held, Flight, Counts, Restored, NoHold
<1>2. /\ flight' \in [1 .. 2 -> Flight]
      /\ flight'[2] = NoFlight
      /\ flight'[1] = IF due THEN [at |-> "directory", key |-> Restored.key] ELSE NoFlight
  <2>1. NoFlight \in Flight /\ [at |-> "directory", key |-> Restored.key] \in Flight
    BY <1>1 DEF NoFlight, Flight, Held
  <2>2. flight' = [f \in 1 .. 2 |-> IF due /\ f = 1 THEN [at |-> "directory", key |-> Restored.key] ELSE NoFlight]
    BY DEF Loads
  <2> HIDE DEF due
  <2>3. QED
    BY <2>1, <2>2
<1>3. /\ count' \in Counts /\ grant' \in Nat
      /\ grant' = grant \/ \E f \in 1 .. 2 : flight[f].at = "sent"
  <2>1. CASE grant' = grant /\ count' = [count EXCEPT !.trips = @ + n]
    BY <2>1 DEF LoginInv, LoginTypes, Urls, Held, Flight, Counts
  <2>2. CASE /\ \E f \in 1 .. 2 : flight[f] = [at |-> "sent", key |-> grant]
             /\ grant' = count.keys + 1 /\ count' = [count EXCEPT !.trips = @ + n, !.keys = @ + 1]
    <3>1. count.keys \in Nat /\ count.trips \in Nat
      BY DEF LoginInv, LoginTypes, Urls, Held, Flight, Counts
    <3>2. count' \in Counts
      <4>1. [count EXCEPT !.trips = @ + n] \in Counts
        BY <3>1 DEF LoginInv, LoginTypes, Counts
      <4>2. \A c \in Counts : [c EXCEPT !.keys = @ + 1] \in Counts
        BY DEF Counts
      <4>3. count' = [[count EXCEPT !.trips = @ + n] EXCEPT !.keys = @ + 1]
        BY <2>2
      <4>4. QED
        BY <4>1, <4>2, <4>3
    <3>3. QED
      BY <2>2, <3>1, <3>2
  <2>3. QED
    BY <2>1, <2>2 DEF Loads
<1>4. excuse' = (excuse \/ flight[1].at \in {"sent", "granted"} \/ flight[2].at \in {"sent", "granted"})
  <2>1. \A f : f \in 1 .. 2 <=> f = 1 \/ f = 2
    OBVIOUS
  <2>2. QED
    BY <2>1 DEF Loads
<1>5. LoginTypes'
  BY <1>1, <1>2, <1>3, <1>4 DEF LoginInv, LoginTypes, Urls, Held, Flight, Counts, Loads
<1>6. OneFlight' /\ Clicked'
  BY <1>2, <1>4 DEF LoginInv, OneFlight, Clicked, Loads
<1>7. SignedOut'
  BY <1>1, <1>2 DEF LoginInv, SignedOut, Loads, NoHold, NoFlight
<1>8. SignedIn'
  <2> SUFFICES ASSUME signed, ~excuse' PROVE SignedIn'
    BY DEF Loads, SignedIn
  <2>1. /\ ~excuse /\ flight[1].at \notin {"sent", "granted"} /\ flight[2].at # "sent"
    BY <1>4
  <2>2. /\ grant' = grant /\ grant # 0 /\ held.key = grant /\ Restored = held
    <3>1. \A f \in 1 .. 2 : f = 1 \/ f = 2
      OBVIOUS
    <3>2. QED
      BY <1>1, <1>3, <2>1, <3>1 DEF LoginInv, SignedIn
  <2>3. QED
    BY <1>2, <2>2 DEF SignedIn, Loads, NoFlight
<1>9. QED
  BY <1>5, <1>6, <1>7, <1>8 DEF LoginInv

LEMMA LoginKeeps == LoginInv /\ [LoginNext]_loginVars => LoginInv'
<1> SUFFICES ASSUME LoginInv, [LoginNext]_loginVars PROVE LoginInv'
  OBVIOUS
<1>0. LoginTypes /\ OneFlight /\ Clicked /\ SignedOut /\ SignedIn
  BY DEF LoginInv
<1>1. CASE Boot
  BY <1>0, <1>1 DEF Boot, Looked, Url, Flying, LoginInv, LoginTypes, Urls, Held, Flight, Counts, OneFlight, Clicked, SignedOut, SignedIn
<1>2. CASE Exchange
  BY <1>0, <1>2 DEF Exchange, Saves, Url, Flying, NoFlight, LoginInv, LoginTypes, Urls, Held, Flight, Counts, OneFlight, Clicked, SignedOut, SignedIn
<1>3. CASE ExchangeFails
  BY <1>0, <1>3 DEF ExchangeFails, Spend, LoginInv, LoginTypes, Urls, Held, Flight, Counts, OneFlight, Clicked, SignedOut, SignedIn
<1>4. CASE Unload
  BY <1>0, <1>4, PageLoads DEF Unload, LoginInv, LoginTypes, Urls, Held, Flight, Counts, OneFlight, Clicked, SignedOut, SignedIn
<1>5. CASE AlarmRings
  <2>1. LoginTypes'
    <3>1. [at |-> "directory", key |-> held.key] \in Flight
      BY <1>0 DEF LoginTypes, Held, Flight
    <3>2. flight' \in [1 .. 2 -> Flight] /\ directory' \in {"none", "waiting", "ok", "failed"}
      BY <1>0, <1>5, <3>1 DEF AlarmRings, Refreshes, Looked, LoginTypes, Urls, Held, Flight, Counts
    <3>3. QED
      BY <1>0, <1>5, <3>2 DEF AlarmRings, LoginTypes
  <2>2. OneFlight' /\ Clicked'
    BY <1>0, <1>5 DEF AlarmRings, Refreshes, Looked, Flying, NoFlight, NoHold, OneFlight, Clicked, LoginTypes, Urls, Held, Flight, Counts
  <2>3. SignedOut'
    BY <1>0, <1>5 DEF AlarmRings, Refreshes, Looked, Flying, NoFlight, NoHold, SignedOut, LoginTypes, Urls, Held, Flight, Counts
  <2>4. SignedIn'
    BY <1>0, <1>5 DEF AlarmRings, Refreshes, Looked, Flying, NoFlight, NoHold, SignedIn, LoginTypes, Urls, Held, Flight, Counts
  <2>5. QED
    BY <2>1, <2>2, <2>3, <2>4 DEF LoginInv
<1>6. CASE DirectoryAnswers
  BY <1>0, <1>6 DEF DirectoryAnswers, Spend, LoginInv, LoginTypes, Urls, Held, Flight, Counts, OneFlight, Clicked, SignedOut, SignedIn
<1>7. ASSUME NEW f \in 1 .. 2, RefreshSends(f) PROVE LoginInv'
  BY <1>0, <1>7 DEF RefreshSends, NoFlight, LoginInv, LoginTypes, Urls, Held, Flight, Counts, OneFlight, Clicked, SignedOut, SignedIn
<1>8. ASSUME NEW f \in 1 .. 2, ProviderAnswers(f) PROVE LoginInv'
  BY <1>0, <1>8 DEF ProviderAnswers, NoFlight, LoginInv, LoginTypes, Urls, Held, Flight, Counts, OneFlight, Clicked, SignedOut, SignedIn
<1>9. ASSUME NEW f \in 1 .. 2, RefreshLost(f) PROVE LoginInv'
  BY <1>0, <1>9 DEF RefreshLost, Spend, NoFlight, LoginInv, LoginTypes, Urls, Held, Flight, Counts, OneFlight, Clicked, SignedOut, SignedIn
<1>10. ASSUME NEW f \in 1 .. 2, RefreshEnds(f) PROVE LoginInv'
  <2>1. LoginTypes'
    <3>1. NoFlight \in Flight /\ flight' = [flight EXCEPT ![f] = NoFlight]
      BY <1>0, <1>10 DEF RefreshEnds, Flight, NoFlight, LoginTypes, Urls, Held, Flight, Counts
    <3>2. flight' \in [1 .. 2 -> Flight]
      BY <1>0, <3>1 DEF LoginTypes
    <3>3. held' \in Held /\ usable' \in BOOLEAN /\ alarm' \in BOOLEAN
      <4>1. \A key \in Nat : Saves(key) => held' \in Held /\ usable' \in BOOLEAN /\ alarm' \in BOOLEAN
        BY DEF Saves, Held
      <4>2. flight[f].key \in Nat /\ held.key \in Nat
        BY <1>0, <1>10 DEF LoginTypes, Held, Flight
      <4>3. NoHold \in Held
        BY DEF NoHold, Held
      <4>4. QED
        BY <1>10, <4>1, <4>2, <4>3 DEF RefreshEnds, Clears
    <3>4. QED
      BY <1>0, <1>10, <3>2, <3>3 DEF RefreshEnds, LoginTypes, Urls, Held, Flight, Counts
  <2>2. OneFlight' /\ Clicked'
    BY <1>0, <1>10 DEF RefreshEnds, Saves, Clears, NoFlight, NoHold, OneFlight, Clicked, LoginTypes, Urls, Held, Flight, Counts
  <2>a. f = 1 /\ flight'[1] = NoFlight
    BY <1>0, <1>10 DEF RefreshEnds, LoginTypes, OneFlight, NoFlight
  <2>3. SignedOut'
    BY <1>0, <1>10, <2>a DEF RefreshEnds, SignedOut, NoFlight
  <2>4. SignedIn'
    <3> SUFFICES ASSUME signed, ~excuse PROVE SignedIn'
      BY <1>10 DEF RefreshEnds, SignedIn
    <3>1. flight[1].at = "granted" /\ held'.key = IF flight[1].key # 0 THEN flight[1].key ELSE held.key
      BY <1>0, <1>10, <2>a DEF RefreshEnds, SignedIn, Saves
    <3>2. held'.key = grant /\ grant # 0 /\ grant' = grant
      BY <1>0, <1>10, <3>1 DEF RefreshEnds, SignedIn
    <3>3. QED
      BY <2>a, <3>2 DEF SignedIn, NoFlight
  <2>5. QED
    BY <2>1, <2>2, <2>3, <2>4 DEF LoginInv
<1>11. ASSUME NEW f \in 1 .. 2, RefreshFails(f) PROVE LoginInv'
  BY <1>0, <1>11 DEF RefreshFails, Schedules, NoFlight, LoginInv, LoginTypes, Urls, Held, Flight, Counts, OneFlight, Clicked, SignedOut, SignedIn
<1>12. CASE GuardChecks
  <2>1. LoginTypes'
    <3>0. \A at \in {"inbox", "login"} : Url(at, 0) \in Urls
      BY DEF Url, Urls
    <3>1. count' \in Counts
      BY <1>0, <1>12, CountFits DEF GuardChecks, Admitted, Rejected, LoginTypes, Urls, Held, Flight, Counts
    <3>2. QED
      BY <1>0, <1>12, <3>1, <3>0 DEF GuardChecks, Admitted, Rejected, LoginTypes
  <2>2. OneFlight' /\ Clicked'
    BY <1>0, <1>12 DEF GuardChecks, Admitted, Rejected, Spend, Url, OneFlight, Clicked, LoginTypes, Urls, Held, Flight, Counts
  <2>3. SignedOut'
    BY <1>0, <1>12 DEF GuardChecks, Admitted, Rejected, Spend, Url, SignedOut, LoginTypes, Urls, Held, Flight, Counts
  <2>4. SignedIn'
    BY <1>0, <1>12 DEF GuardChecks, Admitted, Rejected, Spend, Url, SignedIn, LoginTypes, Urls, Held, Flight, Counts
  <2>5. QED
    BY <2>1, <2>2, <2>3, <2>4 DEF LoginInv
<1>13. CASE LoginChecks
  <2>1. LoginTypes'
    <3>0. \A at \in {"inbox", "login"} : Url(at, 0) \in Urls
      BY DEF Url, Urls
    <3>1. count' \in Counts
      BY <1>0, <1>13, CountFits DEF LoginChecks, Admitted, Rejected, LoginTypes, Urls, Held, Flight, Counts
    <3>2. QED
      BY <1>0, <1>13, <3>1, <3>0 DEF LoginChecks, Admitted, Rejected, LoginTypes
  <2>2. OneFlight' /\ Clicked'
    BY <1>0, <1>13 DEF LoginChecks, Admitted, Rejected, Spend, Url, OneFlight, Clicked, LoginTypes, Urls, Held, Flight, Counts
  <2>3. SignedOut'
    BY <1>0, <1>13 DEF LoginChecks, Admitted, Rejected, Spend, Url, SignedOut, LoginTypes, Urls, Held, Flight, Counts
  <2>4. SignedIn'
    BY <1>0, <1>13 DEF LoginChecks, Admitted, Rejected, Spend, Url, SignedIn, LoginTypes, Urls, Held, Flight, Counts
  <2>5. QED
    BY <2>1, <2>2, <2>3, <2>4 DEF LoginInv
<1>14. CASE SignInGoes
  BY <1>0, <1>14 DEF SignInGoes, Url, LoginInv, LoginTypes, Urls, Held, Flight, Counts, OneFlight, Clicked, SignedOut, SignedIn
<1>15. CASE ComesBack
  <2>1. Url("login", count.asks) \in Urls
        /\ Url("login", 0) \in Urls
    BY <1>0 DEF Url, Urls, LoginTypes, Counts
  <2>2. QED
    BY <1>0, <1>15, <2>1, PageLoads DEF ComesBack, LoginTypes, Urls, Held, Flight, Counts
<1>16. CASE LogoutGoes
  BY <1>0, <1>16 DEF LogoutGoes, Url, LoginInv, LoginTypes, Urls, Held, Flight, Counts, OneFlight, Clicked, SignedOut, SignedIn
<1>17. CASE Unauthorized
  <2>1. LoginTypes'
    <3>1. \A at \in {"inbox", "login"} : Url(at, 0) \in Urls
      BY DEF Url, Urls
    <3>2. QED
      BY <1>0, <1>17, <3>1 DEF Unauthorized, LoginTypes
  <2>2. OneFlight' /\ Clicked'
    BY <1>0, <1>17 DEF Unauthorized, Url, OneFlight, Clicked, LoginTypes, Urls, Held, Flight, Counts
  <2>3. SignedOut'
    BY <1>0, <1>17 DEF Unauthorized, Url, SignedOut, LoginTypes, Urls, Held, Flight, Counts
  <2>4. SignedIn'
    BY <1>0, <1>17 DEF Unauthorized, Url, SignedIn, LoginTypes, Urls, Held, Flight, Counts
  <2>5. QED
    BY <2>1, <2>2, <2>3, <2>4 DEF LoginInv
<1>18. CASE SignIn
  BY <1>0, <1>18 DEF SignIn, Spend, Looked, LoginInv, LoginTypes, Urls, Held, Flight, Counts, OneFlight, Clicked, SignedOut, SignedIn
<1>19. CASE Logout
  <2>1. LoginTypes'
    BY <1>0, <1>19 DEF Logout, Clears, Looked, Flying, NoFlight, NoHold, LoginTypes, Urls, Held, Flight, Counts
  <2>2. OneFlight' /\ Clicked'
    BY <1>0, <1>19 DEF Logout, Clears, Looked, Flying, NoFlight, NoHold, OneFlight, Clicked, LoginTypes, Urls, Held, Flight, Counts
  <2>3. SignedOut'
    BY <1>0, <1>19 DEF Logout, Clears, Looked, Flying, NoFlight, NoHold, SignedOut, LoginTypes, Urls, Held, Flight, Counts
  <2>4. SignedIn'
    BY <1>0, <1>19 DEF Logout, Clears, Looked, Flying, NoFlight, NoHold, SignedIn, LoginTypes, Urls, Held, Flight, Counts
  <2>5. QED
    BY <2>1, <2>2, <2>3, <2>4 DEF LoginInv
<1>20. CASE Moves
  <2>1. \A to \in {place, Url("inbox", 0)} \cup {Url("login", n) : n \in 1 .. count.asks} :
          to \in Urls
    BY <1>0 DEF Url, Urls, LoginTypes, Counts
  <2>2. QED
    BY <1>0, <1>20, <2>1, PageLoads DEF Moves, LoginTypes, Urls, Held, Flight, Counts
<1>21. CASE Ages
  BY <1>0, <1>21 DEF Ages, Spend, NoHold, LoginInv, LoginTypes, Urls, Held, Flight, Counts, OneFlight, Clicked, SignedOut, SignedIn
<1>22. CASE Forgets
  BY <1>0, <1>22 DEF Forgets, Spend, pageVars, LoginInv, LoginTypes, Urls, Held, Flight, Counts, OneFlight, Clicked, SignedOut, SignedIn
<1>23. CASE UNCHANGED loginVars
  BY <1>0, <1>23 DEF loginVars, pageVars, LoginInv, LoginTypes, Urls, Held, Flight, Counts, OneFlight, Clicked, SignedOut, SignedIn
<1>24. QED
  BY <1>1, <1>2, <1>3, <1>4, <1>5, <1>6, <1>7, <1>8, <1>9, <1>10, <1>11, <1>12, <1>13, <1>14, <1>15, <1>16,
     <1>17, <1>18, <1>19, <1>20, <1>21, <1>22, <1>23 DEF LoginNext, PageStep

LEMMA LoginAlways == LoginSpec => []LoginInv
BY LoginStarts, LoginKeeps, PTL DEF LoginSpec

\* The tab is signed in as the user left it, with the exceptions the property names, for every order of
\* reloads, timers, answers and clicks and any number of them.
THEOREM SessionFollows == LoginSpec => []SessionFollowsUser
<1>1. LoginInv => SessionFollowsUser
  BY DEF LoginInv, SignedOut, SignedIn, SessionFollowsUser
<1>2. QED
  BY <1>1, LoginAlways, PTL

-----------------------------------------------------------------------------
(* The list that is shown. *)

DeskSpec == DeskInit /\ [][DeskNext]_deskVars

Marks == [read : BOOLEAN, star : BOOLEAN]
Rows == [m : Letters, read : BOOLEAN, star : BOOLEAN]
Lists == {l \in [Folders -> SUBSET Rows] : \A r \in l["starred"] : r.star}
ActType == [pc : {"none", "cancel", "send", "sent", "failed"}, kind : {"star", "delete", "bulk", "mark"},
            ids : SUBSET Letters, set : Marks, snap : Lists, tries : {0, 1}, held : BOOLEAN, met : BOOLEAN,
            done : BOOLEAN]

ListTypes ==
  /\ kept \in [Letters -> [here : BOOLEAN, flags : Marks]]
  /\ lists \in Lists /\ shown \in Folders /\ picked \subseteq Letters /\ doubt \subseteq Folders
  /\ loads \in [at : {"none", "asked", "brought"}, rows : SUBSET Rows, calm : BOOLEAN]
  /\ act \in [Acts -> ActType]

\* Rows say what the server says of their messages.
Tells(rows) == \A r \in rows : kept[r.m].here /\ r = Row(r.m, kept[r.m].flags)

\* A fetch asked for when nothing ran has seen no mutation, and the starred list has starred rows.
Fetches ==
  /\ shown = "starred" => \A r \in loads.rows : r.star
  /\ loads.at # "none" /\ loads.calm => Running = {}
\* The shown list, and what is fetched for it.
ShownTells ==
  /\ Quiet /\ shown \notin doubt => Tells(lists[shown])
  /\ Running = {} /\ loads.at = "brought" /\ (loads.calm \/ shown \notin doubt) => Tells(loads.rows)
\* An act that met no other runs alone.
Acting(A) ==
  /\ A.kind \in {"mark", "bulk"} => A.set.read
  /\ A.pc = "sent" => A.done
  /\ A.pc = "cancel" => ~A.done
ActsRight ==
  /\ \A a \in Running : Acting(act[a]) /\ (~act[a].met => Running = {a})
  /\ shown = "starred" /\ "inbox" \notin doubt => \A a \in Running : act[a].kind = "star" => ~act[a].set.star
\* An act alone at work has changed nothing at the server until it is sent: what it would put back tells.
AloneTells ==
  \A a \in Running : ~act[a].met /\ ~act[a].done =>
    /\ loads.at = "brought" => Tells(loads.rows)
    /\ \A k \in Folders \ doubt : Tells(IF act[a].pc = "cancel" THEN lists[k] ELSE act[a].snap[k])
\* The list that is not shown says what the server says or will say.
Patching(a, m) == act[a].pc \in {"send", "sent", "failed"} /\ m \in act[a].ids
Fits(r) ==
  /\ kept[r.m].here
  /\ \A a \in Acts : Patching(a, r.m) =>
       /\ act[a].kind # "delete"
       /\ act[a].kind = "star" => r.star = act[a].set.star /\ (act[a].done => kept[r.m].flags.star = r.star)
       /\ act[a].kind # "star" => r.read /\ (act[a].done => kept[r.m].flags.read)
  /\ r.star = kept[r.m].flags.star \/ \E a \in Acts : Patching(a, r.m) /\ act[a].kind = "star"
  /\ r.read = kept[r.m].flags.read \/ \E a \in Acts : Patching(a, r.m) /\ act[a].kind # "star"
HiddenFits == \A k \in Folders \ doubt : k # shown => \A r \in lists[k] : Fits(r)

ListInv == ListTypes /\ Fetches /\ ShownTells /\ ActsRight /\ AloneTells /\ HiddenFits
-----------------------------------------------------------------------------
LEMMA RowFits == \A m \in Letters, f \in Marks : Row(m, f) \in Rows /\ Row(m, f).m = m /\ Row(m, f).read = f.read /\ Row(m, f).star = f.star
BY DEF Row, Rows, Marks

\* A row that tells, column by column.
LEMMA TellsBy ==
  ASSUME ListTypes, NEW r \in Rows
  PROVE  r = Row(r.m, kept[r.m].flags) <=> r.read = kept[r.m].flags.read /\ r.star = kept[r.m].flags.star
BY DEF Row, Rows, ListTypes

\* What the server lists is the server's.
LEMMA ServerTells ==
  ASSUME ListTypes, NEW k \in Folders
  PROVE  ServerRows(k) \subseteq Rows /\ Tells(ServerRows(k)) /\ (k = "starred" => \A r \in ServerRows(k) : r.star)
<1>1. ASSUME NEW r \in ServerRows(k)
      PROVE  r \in Rows /\ kept[r.m].here /\ r = Row(r.m, kept[r.m].flags) /\ (k = "starred" => r.star)
  <2>1. PICK m \in Letters : r = Row(m, kept[m].flags) /\ kept[m].here /\ (k = "starred" => kept[m].flags.star)
    BY <1>1 DEF ServerRows
  <2>2. kept[m].flags \in Marks
    BY DEF ListTypes
  <2>3. QED
    BY <2>1, <2>2, RowFits
<1>2. QED
  BY <1>1 DEF Tells

\* When nothing runs, a hidden list that fits tells.
LEMMA FitsTells ==
  ASSUME ListTypes, Running = {}, NEW r \in Rows
  PROVE  Fits(r) <=> kept[r.m].here /\ r = Row(r.m, kept[r.m].flags)
<1>1. \A a \in Acts : \A m : ~Patching(a, m)
  BY DEF Running, Patching
<1>2. QED
  BY <1>1, TellsBy DEF Fits

\* The record of no act.
LEMMA NoActFits == NoAct \in ActType /\ NoAct.pc = "none"
<1>1. [k \in Folders |-> {}] \in Lists
  BY DEF Lists, Folders
<1>2. QED
  BY <1>1 DEF NoAct, ActType, Flags, Marks

\* Whether a row fits depends on the server and on the patches that are out.
LEMMA FitsStill ==
  ASSUME NEW r, Fits(r), kept' = kept,
         \A b \in Acts : /\ Patching(b, r.m)' <=> Patching(b, r.m)
                         /\ Patching(b, r.m) => /\ act'[b].kind = act[b].kind /\ act'[b].set = act[b].set
                                                /\ act'[b].done = act[b].done
  PROVE  Fits(r)'
BY DEF Fits

LEMMA DeskStarts == DeskInit => ListInv
<1> SUFFICES ASSUME DeskInit PROVE ListInv
  OBVIOUS
<1>1. kept \in [Letters -> [here : BOOLEAN, flags : Marks]]
  BY DEF DeskInit, Flags, Marks
<1>2. lists \in Lists
  <2>1. \A k \in Folders : ServerRows(k) \in SUBSET Rows /\ (k = "starred" => \A r \in ServerRows(k) : r.star)
    <3>1. \A k \in Folders : \A r \in ServerRows(k) : \E m \in Letters : r = Row(m, kept[m].flags)
                                                         /\ (k = "starred" => kept[m].flags.star)
      BY DEF ServerRows
    <3>2. \A m \in Letters : kept[m].flags \in Marks
      BY <1>1
    <3>3. QED
      BY <3>1, <3>2, RowFits
  <2>2. QED
    BY <2>1 DEF DeskInit, Lists, Folders
<1>3. act \in [Acts -> ActType] /\ Running = {} /\ \A a \in Acts : act[a].pc = "none"
  BY NoActFits DEF DeskInit, Running
<1>4. ListTypes
  BY <1>1, <1>2, <1>3 DEF ListTypes, DeskInit, NoLoad, Folders
<1>5. \A k \in Folders : Tells(lists[k])
  BY <1>4, ServerTells DEF DeskInit
<1>6. ShownTells
  BY <1>4, <1>5 DEF ShownTells, ListTypes, DeskInit, NoLoad
<1>7. HiddenFits
  BY <1>3, <1>4, <1>5, FitsTells DEF HiddenFits, ListTypes, Lists, Tells
<1>8. QED
  BY <1>3, <1>4, <1>6, <1>7 DEF ListInv, Fetches, ActsRight, AloneTells, DeskInit, NoLoad

-----------------------------------------------------------------------------
\* A fetch begins or brings something.
LEMMA LoadsMove ==
  ASSUME ListInv, UNCHANGED <<kept, lists, shown, picked, doubt, act>>,
         NEW n \in [at : {"none", "asked", "brought"}, rows : SUBSET Rows, calm : BOOLEAN], loads' = n,
         n.at # "none", n.calm => Running = {}, shown = "starred" => \A r \in n.rows : r.star,
         n.at = "brought" => Tells(n.rows)
  PROVE  ListInv'
<1>1. ListTypes'
  BY DEF ListInv, ListTypes
<1>2. Running' = Running /\ (\A s : Tells(s)' <=> Tells(s)) /\ Quiet' = FALSE
  BY DEF Running, Tells, Quiet
<1>3. Fetches' /\ ShownTells' /\ ActsRight'
  BY <1>2 DEF ListInv, Fetches, ShownTells, ActsRight
<1>4. AloneTells'
  BY <1>2 DEF ListInv, AloneTells
<1>5. HiddenFits'
  BY DEF ListInv, HiddenFits, Fits, Patching
<1>6. QED
  BY <1>1, <1>3, <1>4, <1>5 DEF ListInv

LEMMA AskingFits ==
  ASSUME NEW R
  PROVE  /\ Asking(R) \in [at : {"none", "asked", "brought"}, rows : SUBSET Rows, calm : BOOLEAN]
         /\ Asking(R).at = "asked" /\ Asking(R).rows = {} /\ Asking(R).calm = (R = {})
BY DEF Asking

LEMMA NoLoadFits ==
  /\ NoLoad \in [at : {"none", "asked", "brought"}, rows : SUBSET Rows, calm : BOOLEAN]
  /\ NoLoad.at = "none" /\ NoLoad.rows = {}
BY DEF NoLoad

LEMMA FetchListKeeps == ASSUME ListInv, FetchList PROVE ListInv'
BY LoadsMove, AskingFits DEF FetchList

LEMMA ListAnswersKeeps == ASSUME ListInv, ListAnswers PROVE ListInv'
<1> DEFINE n == [loads EXCEPT !.at = "brought", !.rows = ServerRows(shown)]
<1>1. ListTypes /\ Fetches /\ shown \in Folders
  BY DEF ListInv, ListTypes
<1>2. ServerRows(shown) \subseteq Rows /\ Tells(ServerRows(shown))
      /\ (shown = "starred" => \A r \in ServerRows(shown) : r.star)
  BY <1>1, ServerTells
<1>3. /\ n \in [at : {"none", "asked", "brought"}, rows : SUBSET Rows, calm : BOOLEAN]
      /\ n.at = "brought" /\ n.rows = ServerRows(shown) /\ n.calm = loads.calm
  BY <1>1, <1>2 DEF ListTypes
<1>4. n.calm => Running = {}
  BY <1>1, <1>3 DEF ListAnswers, Fetches
<1>5. loads' = n /\ UNCHANGED <<kept, lists, shown, picked, doubt, act>>
  BY DEF ListAnswers
<1> HIDE DEF n
<1>6. QED
  BY <1>2, <1>3, <1>4, <1>5, LoadsMove

LEMMA ListComesKeeps == ASSUME ListInv, ListComes PROVE ListInv'
<1>1. ListTypes /\ Fetches /\ ShownTells /\ ActsRight /\ AloneTells /\ HiddenFits /\ shown \in Folders
  BY DEF ListInv, ListTypes
<1>2. /\ lists' \in Lists /\ lists'[shown] = loads.rows /\ \A k \in Folders : k # shown => lists'[k] = lists[k]
      /\ UNCHANGED <<kept, shown, picked, act>> /\ loads' = NoLoad /\ doubt' \subseteq doubt
      /\ (doubt' = doubt \/ (loads.calm /\ doubt' = doubt \ {shown}))
  <2>1. lists' = [lists EXCEPT ![shown] = loads.rows] /\ loads.rows \in SUBSET Rows
        /\ lists \in [Folders -> SUBSET Rows] /\ "starred" \in Folders
    BY <1>1 DEF ListComes, ListTypes, Lists, Folders
  <2>2. lists' \in [Folders -> SUBSET Rows] /\ lists'[shown] = loads.rows
        /\ \A k \in Folders : k # shown => lists'[k] = lists[k]
    BY <1>1, <2>1
  <2>3. \A r \in lists'["starred"] : r.star
    BY <1>1, <2>1, <2>2 DEF Fetches, ListTypes, Lists
  <2>4. QED
    BY <2>2, <2>3 DEF ListComes, Lists
<1>3. ListTypes'
  BY <1>1, <1>2, NoLoadFits DEF ListTypes
<1>4. Running' = Running /\ (\A s : Tells(s)' <=> Tells(s)) /\ (loads.calm => Running = {})
  BY <1>1, <1>2 DEF Running, Tells, Fetches, ListComes
<1>5. Fetches' /\ ActsRight'
  BY <1>1, <1>2, <1>4, NoLoadFits DEF Fetches, ActsRight, Folders
<1>6. ShownTells'
  BY <1>1, <1>2, <1>4, NoLoadFits DEF ShownTells, Quiet, ListComes
<1>7. AloneTells'
  <2> SUFFICES ASSUME NEW a \in Running, ~act[a].met, ~act[a].done, NEW k \in Folders, k \notin doubt
               PROVE  Tells(IF act[a].pc = "cancel" THEN lists'[k] ELSE act[a].snap[k])
    BY <1>2, <1>4, NoLoadFits DEF AloneTells
  <2>1. QED
    BY <1>1, <1>2 DEF AloneTells, ListComes
<1>8. HiddenFits'
  BY <1>1, <1>2 DEF HiddenFits, Fits, Patching
<1>9. QED
  BY <1>3, <1>5, <1>6, <1>7, <1>8 DEF ListInv

-----------------------------------------------------------------------------
LEMMA BeginsKeeps ==
  ASSUME ListInv, NEW a \in Acts, NEW kind \in {"star", "delete", "bulk", "mark"}, NEW ids \in SUBSET Letters,
         NEW set \in Marks, NEW holds \in BOOLEAN, kind \in {"mark", "bulk"} => set.read,
         shown = "starred" /\ kind = "star" => ~set.star, Begins(a, kind, ids, set, holds),
         UNCHANGED <<kept, lists, shown, picked, doubt>>
  PROVE  ListInv'
<1>1. ListTypes /\ Fetches /\ ShownTells /\ ActsRight /\ AloneTells /\ HiddenFits
  BY DEF ListInv
<1> DEFINE new == [NoAct EXCEPT !.pc = "cancel", !.kind = kind, !.ids = ids, !.set = set, !.held = holds, !.met = ~Quiet]
<1>2. /\ new \in ActType /\ new.pc = "cancel" /\ new.kind = kind /\ new.set = set /\ new.met = ~Quiet /\ ~new.done
  BY NoActFits DEF ActType, NoAct
<1>3. /\ act' \in [Acts -> ActType] /\ act'[a] = new /\ act[a].pc = "none"
      /\ \A b \in Acts : b # a => /\ act'[b].pc = act[b].pc /\ act'[b].kind = act[b].kind /\ act'[b].set = act[b].set
                                  /\ act'[b].done = act[b].done /\ act'[b].ids = act[b].ids
                                  /\ (act[b].pc # "none" => act'[b].met)
  <2>1. \A b \in Acts : act[b] \in ActType
    BY <1>1 DEF ListTypes
  <2>2. /\ act[a].pc = "none" /\ act' = [b \in Acts |-> IF b = a THEN new ELSE IF act[b].pc = "none" THEN act[b]
          ELSE [act[b] EXCEPT !.met = TRUE, !.held = @ /\ ~(kind = "mark" /\ act[b].kind = "mark")]]
    BY DEF Begins
  <2> HIDE DEF new
  <2>3. \A A \in ActType, h \in BOOLEAN : \A B : B = [A EXCEPT !.met = TRUE, !.held = h] =>
          B \in ActType /\ B.pc = A.pc /\ B.kind = A.kind /\ B.set = A.set /\ B.done = A.done /\ B.ids = A.ids /\ B.met
    BY ZenonT(60) DEF ActType
  <2>4. \A b \in Acts : (act[b].held /\ ~(kind = "mark" /\ act[b].kind = "mark")) \in BOOLEAN
    OBVIOUS
  <2>5. \A b \in Acts : [act[b] EXCEPT !.met = TRUE, !.held = @ /\ ~(kind = "mark" /\ act[b].kind = "mark")]
          = [act[b] EXCEPT !.met = TRUE, !.held = (act[b].held /\ ~(kind = "mark" /\ act[b].kind = "mark"))]
    BY <2>1 DEF ActType
  <2>6. ASSUME NEW b \in Acts, b # a
        PROVE  /\ act'[b] \in ActType /\ act'[b].pc = act[b].pc /\ act'[b].kind = act[b].kind
               /\ act'[b].set = act[b].set /\ act'[b].done = act[b].done /\ act'[b].ids = act[b].ids
               /\ (act[b].pc # "none" => act'[b].met)
    <3> DEFINE h == act[b].held /\ ~(kind = "mark" /\ act[b].kind = "mark")
    <3>1. CASE act[b].pc = "none"
      BY <2>1, <2>2, <2>6, <3>1
    <3>2. CASE act[b].pc # "none"
      <4>1. act'[b] = [act[b] EXCEPT !.met = TRUE, !.held = h]
        BY <2>2, <2>5, <2>6, <3>2
      <4>2. h \in BOOLEAN /\ act[b] \in ActType
        BY <2>1, <2>4
      <4> HIDE DEF h
      <4>3. \A B : B = [act[b] EXCEPT !.met = TRUE, !.held = h] =>
              B \in ActType /\ B.pc = act[b].pc /\ B.kind = act[b].kind /\ B.set = act[b].set
              /\ B.done = act[b].done /\ B.ids = act[b].ids /\ B.met
        BY <2>3, <4>2
      <4>4. /\ act'[b] \in ActType /\ act'[b].pc = act[b].pc /\ act'[b].kind = act[b].kind
            /\ act'[b].set = act[b].set /\ act'[b].done = act[b].done /\ act'[b].ids = act[b].ids
            /\ act'[b].met
        BY <4>1, <4>3
      <4>5. QED
        BY <4>4
    <3>3. QED
      BY <3>1, <3>2
  <2>7. act' \in [Acts -> ActType] /\ act'[a] = new
    <3>1. \A b \in Acts : act'[b] \in ActType
      BY <1>2, <2>2, <2>6
    <3>2. QED
      BY <2>2, <3>1
  <2>8. QED
    BY <2>2, <2>6, <2>7
<1> HIDE DEF new
<1>4. loads' = NoLoad /\ Running' = Running \cup {a} /\ a \notin Running
  <2>1. \A b \in Acts : act'[b].pc # "none" <=> b = a \/ act[b].pc # "none"
    BY <1>2, <1>3
  <2>2. QED
    <3>1. loads' = NoLoad
      BY DEF Begins
    <3>2. \A b \in Acts : b \in Running <=> act[b].pc # "none"
      BY DEF Running
    <3>3. \A b \in Acts : b \in Running' <=> act'[b].pc # "none"
      BY DEF Running
    <3>4. Running \subseteq Acts /\ Running' \subseteq Acts
      BY DEF Running
    <3>5. QED
      BY <1>3, <2>1, <3>1, <3>2, <3>3, <3>4
<1>5. ListTypes'
  BY <1>1, <1>3, <1>4, NoLoadFits DEF ListTypes
<1>6. \A s : Tells(s)' <=> Tells(s)
  BY DEF Tells
<1>7. Fetches' /\ ShownTells'
  BY <1>4, NoLoadFits DEF Fetches, ShownTells, Quiet
<1>8. ActsRight'
  <2>1. \A b \in Running' : Acting(act'[b])
    BY <1>1, <1>2, <1>3, <1>4 DEF ActsRight, Acting, Running
  <2>2. \A b \in Running' : ~act'[b].met => Running' = {b}
    BY <1>2, <1>3, <1>4 DEF Running, Quiet
  <2>3. shown' = "starred" /\ "inbox" \notin doubt' => \A b \in Running' : act'[b].kind = "star" => ~act'[b].set.star
    BY <1>1, <1>2, <1>3, <1>4 DEF ActsRight, Running
  <2>4. QED
    BY <2>1, <2>2, <2>3 DEF ActsRight, Acting
<1>9. AloneTells'
  <2> SUFFICES ASSUME NEW b \in Running', ~act'[b].met, NEW k \in Folders, k \notin doubt
               PROVE  b = a /\ Tells(lists[k])
    BY <1>2, <1>3, <1>4, <1>6, NoLoadFits DEF AloneTells
  <2>1. b = a /\ Quiet
    BY <1>2, <1>3, <1>4 DEF Running
  <2>2. CASE k = shown
    BY <1>1, <2>1, <2>2 DEF ShownTells
  <2>3. CASE k # shown
    <3>1. Running = {} /\ \A r \in lists[k] : r \in Rows /\ Fits(r)
      BY <1>1, <2>1, <2>3 DEF Quiet, HiddenFits, ListTypes, Lists
    <3>2. QED
      BY <1>1, <2>1, <3>1, FitsTells DEF Tells
  <2>4. QED
    BY <2>1, <2>2, <2>3
<1>10. HiddenFits'
  <2>1. \A b \in Acts : \A m : Patching(b, m)' <=> Patching(b, m)
    BY <1>2, <1>3 DEF Patching
  <2>2. \A b \in Acts : \A m : Patching(b, m) => b # a
    BY <1>3 DEF Patching
  <2>3. \A r : Fits(r) => Fits(r)'
    BY <1>3, <2>1, <2>2, FitsStill
  <2>4. QED
    BY <1>1, <2>3 DEF HiddenFits
<1>11. QED
  BY <1>5, <1>7, <1>8, <1>9, <1>10 DEF ListInv

-----------------------------------------------------------------------------
\* An act goes on, with the others and the fetch as they are.
LEMMA ActMoves ==
  ASSUME ListInv, NEW a \in Acts, NEW n \in ActType, act' = [act EXCEPT ![a] = n]
  PROVE  /\ act' \in [Acts -> ActType] /\ act'[a] = n /\ act[a] \in ActType
         /\ \A b \in Acts : b # a => act'[b] = act[b]
         /\ Running' = IF n.pc = "none" THEN Running \ {a} ELSE Running \cup {a}
<1>1. /\ act' \in [Acts -> ActType] /\ act'[a] = n /\ act[a] \in ActType
      /\ \A b \in Acts : b # a => act'[b] = act[b]
  BY DEF ListInv, ListTypes
<1>2. \A b \in Acts : act'[b].pc # "none" <=> (IF b = a THEN n.pc # "none" ELSE act[b].pc # "none")
  BY <1>1
<1>3. QED
  BY <1>1, <1>2 DEF Running

\* A patched row is one of the list's, changed or not.
LEMMA PatchedRow ==
  ASSUME NEW k \in Folders, NEW rows \in SUBSET Rows, NEW A \in ActType, NEW q \in Patched(k, rows, A)
  PROVE  /\ q \in Rows
         /\ \E r \in rows :
              /\ q.m = r.m
              /\ \/ r.m \notin A.ids /\ q = r
                 \/ /\ r.m \in A.ids /\ A.kind # "delete"
                    /\ q.read = (IF A.kind = "star" THEN r.read ELSE A.set.read)
                    /\ q.star = (IF A.kind = "star" THEN A.set.star ELSE r.star)
                    /\ (k = "starred" /\ A.kind = "star" => A.set.star)
<1>1. CASE A.kind = "delete"
  BY <1>1 DEF Patched
<1>2. CASE A.kind # "delete"
  <2>1. PICK r \in rows : /\ ~(k = "starred" /\ A.kind = "star" /\ ~A.set.star /\ r.m \in A.ids)
                          /\ q = IF r.m \notin A.ids THEN r
                                 ELSE [r EXCEPT !.read = IF A.kind = "star" THEN @ ELSE A.set.read,
                                                !.star = IF A.kind = "star" THEN A.set.star ELSE @]
    BY <1>2 DEF Patched
  <2>2. r \in Rows /\ A.set.read \in BOOLEAN /\ A.set.star \in BOOLEAN
    BY DEF ActType, Marks
  <2>3. CASE r.m \notin A.ids
    BY <2>1, <2>2, <2>3
  <2>4. CASE r.m \in A.ids
    <3>1. q = [r EXCEPT !.read = IF A.kind = "star" THEN r.read ELSE A.set.read,
                        !.star = IF A.kind = "star" THEN A.set.star ELSE r.star]
      BY <2>1, <2>2, <2>4 DEF Rows
    <3>2. \A x, y \in BOOLEAN : LET p == [r EXCEPT !.read = x, !.star = y] IN
            p \in Rows /\ p.m = r.m /\ p.read = x /\ p.star = y
      BY <2>2 DEF Rows
    <3>3. r.read \in BOOLEAN /\ r.star \in BOOLEAN
      BY <2>2 DEF Rows
    <3>4. (IF A.kind = "star" THEN r.read ELSE A.set.read) \in BOOLEAN
          /\ (IF A.kind = "star" THEN A.set.star ELSE r.star) \in BOOLEAN
      BY <2>2, <3>3
    <3> DEFINE x == IF A.kind = "star" THEN r.read ELSE A.set.read
               y == IF A.kind = "star" THEN A.set.star ELSE r.star
    <3>5. q \in Rows /\ q.m = r.m /\ q.read = x /\ q.star = y
      <4>1. q = [r EXCEPT !.read = x, !.star = y] /\ x \in BOOLEAN /\ y \in BOOLEAN
        BY <3>1, <3>4
      <4> HIDE DEF x, y
      <4>2. QED
        BY <3>2, <4>1
    <3>6. QED
      BY <1>2, <2>1, <2>4, <3>5
  <2>5. QED
    BY <2>3, <2>4
<1>3. QED
  BY <1>1, <1>2

LEMMA PatchesKeeps ==
  ASSUME ListInv, NEW a \in Acts, Patches(a)
  PROVE  ListInv'
<1>1. ListTypes /\ Fetches /\ ShownTells /\ ActsRight /\ AloneTells /\ HiddenFits
  BY DEF ListInv
<1> DEFINE n == [act[a] EXCEPT !.pc = "send", !.snap = lists]
<1>2. /\ n \in ActType /\ n.pc = "send" /\ n.snap = lists /\ n.kind = act[a].kind /\ n.set = act[a].set
      /\ n.done = act[a].done /\ n.ids = act[a].ids /\ n.met = act[a].met
  <2>1. act[a] \in ActType /\ lists \in [Folders -> SUBSET Rows]
    BY <1>1 DEF ListTypes, Lists
  <2>2. n.pc = "send" /\ n.snap = lists
    BY <2>1 DEF ActType
  <2>3. n.kind = act[a].kind /\ n.set = act[a].set /\ n.done = act[a].done /\ n.ids = act[a].ids /\ n.met = act[a].met
    BY <2>1 DEF ActType
  <2>4. n \in ActType
    <3>1. lists \in Lists
      BY <1>1 DEF ListTypes
    <3>2. QED
      BY <2>1, <3>1 DEF ActType
  <2>5. QED
    BY <2>2, <2>3, <2>4
<1>3. act' = [act EXCEPT ![a] = n]
  <2>1. act[a] \in ActType /\ act \in [Acts -> ActType]
    BY <1>1 DEF ListTypes
  <2>2. QED
    BY <2>1 DEF Patches, ActType
<1>4. UNCHANGED <<kept, loads, shown, picked, doubt>> /\ act[a].pc = "cancel"
      /\ lists' = [k \in Folders |-> Patched(k, lists[k], act[a])]
  BY DEF Patches
<1> HIDE DEF n
<1>5. /\ act' \in [Acts -> ActType] /\ act'[a] = n /\ act[a] \in ActType /\ \A b \in Acts : b # a => act'[b] = act[b]
      /\ Running' = Running /\ a \in Running
  BY <1>2, <1>3, <1>4, ActMoves DEF Running
<1>6. \A k \in Folders : lists[k] \in SUBSET Rows
  BY <1>1 DEF ListTypes, Lists
<1>7. lists' \in Lists
  <2>1. \A k \in Folders : lists'[k] \in SUBSET Rows
    BY <1>4, <1>5, <1>6, PatchedRow
  <2>2. ASSUME NEW q \in lists'["starred"] PROVE q.star
    <3>1. "starred" \in Folders /\ q \in Patched("starred", lists["starred"], act[a])
      BY <1>4, <2>2 DEF Folders
    <3>2. \A r \in lists["starred"] : r.star
      BY <1>1 DEF ListTypes, Lists
    <3>3. QED
      BY <1>5, <1>6, <3>1, <3>2, PatchedRow
  <2>3. QED
    BY <1>4, <2>1, <2>2 DEF Lists
<1>8. ListTypes'
  BY <1>1, <1>4, <1>5, <1>7 DEF ListTypes
<1>9. (\A s : Tells(s)' <=> Tells(s)) /\ Running # {}
  BY <1>4, <1>5 DEF Tells
<1>10. Fetches' /\ ShownTells'
  BY <1>1, <1>4, <1>5, <1>9 DEF Fetches, ShownTells, Quiet
<1>11. ActsRight'
  <2>1. \A b \in Acts : /\ act'[b].met = act[b].met /\ act'[b].kind = act[b].kind /\ act'[b].set = act[b].set
                        /\ act'[b].done = act[b].done /\ (act'[b].pc = act[b].pc \/ act'[b].pc = "send")
    BY <1>2, <1>5
  <2>2. \A b \in Running : Acting(act'[b])
    BY <1>1, <2>1 DEF ActsRight, Acting, Running
  <2>3. QED
    BY <1>1, <1>4, <1>5, <2>1, <2>2 DEF ActsRight, Running
<1>12. AloneTells'
  <2> SUFFICES ASSUME NEW b \in Running, ~act'[b].met, ~act'[b].done
               PROVE  /\ loads.at = "brought" => Tells(loads.rows)
                      /\ \A k \in Folders \ doubt : Tells(IF act'[b].pc = "cancel" THEN lists'[k] ELSE act'[b].snap[k])
    BY <1>4, <1>5, <1>9 DEF AloneTells
  <2>1. ~act[b].met /\ ~act[b].done
    BY <1>2, <1>5 DEF Running
  <2>2. b = a
    BY <1>1, <1>5, <2>1 DEF ActsRight
  <2>3. QED
    BY <1>1, <1>2, <1>4, <1>5, <2>1, <2>2 DEF AloneTells
<1>13. HiddenFits'
  <2> SUFFICES ASSUME NEW k \in Folders, k \notin doubt, k # shown, NEW q \in Patched(k, lists[k], act[a])
               PROVE  Fits(q)'
    BY <1>4 DEF HiddenFits
  <2>1. PICK r \in lists[k] :
          /\ q.m = r.m
          /\ \/ r.m \notin act[a].ids /\ q = r
             \/ /\ r.m \in act[a].ids /\ act[a].kind # "delete"
                /\ q.read = (IF act[a].kind = "star" THEN r.read ELSE act[a].set.read)
                /\ q.star = (IF act[a].kind = "star" THEN act[a].set.star ELSE r.star)
                /\ (k = "starred" /\ act[a].kind = "star" => act[a].set.star)
    BY <1>5, <1>6, PatchedRow
  <2>2. Fits(r) /\ (k = "starred" => r.star)
    BY <1>1 DEF HiddenFits, ListTypes, Lists
  <2>3. \A b \in Acts : \A m : Patching(b, m)' <=> Patching(b, m) \/ (b = a /\ m \in act[a].ids)
    BY <1>2, <1>4, <1>5 DEF Patching
  <2>4. \A b \in Acts : \A m : Patching(b, m) => b # a
    BY <1>4 DEF Patching
  <2>5. CASE r.m \notin act[a].ids /\ q = r
    <3>1. \A b \in Acts : Patching(b, r.m)' <=> Patching(b, r.m)
      BY <2>3, <2>5
    <3>2. QED
      BY <1>4, <1>5, <2>2, <2>4, <2>5, <3>1, FitsStill
  <2>6. CASE r.m \in act[a].ids /\ act[a].kind # "delete"
    <3>1. ~act[a].done /\ (act[a].kind \in {"mark", "bulk"} => act[a].set.read)
      BY <1>1, <1>4, <1>5 DEF ActsRight, Acting
    <3>2. act[a].kind = "star" => \A b \in Acts : Patching(b, r.m) /\ act[b].kind = "star" => r.star = act[a].set.star
      <4> SUFFICES ASSUME act[a].kind = "star", NEW b \in Acts, Patching(b, r.m), act[b].kind = "star"
                   PROVE  r.star = act[a].set.star
        OBVIOUS
      <4>1. CASE k = "starred"
        BY <2>1, <2>2, <2>6, <4>1, <1>5, <1>6 DEF ActType, Marks, Rows
      <4>2. CASE k # "starred"
        <5>1. k = "inbox" /\ shown = "starred" /\ b \in Running
          BY <1>1, <4>2 DEF Folders, ListTypes, Patching, Running
        <5>2. ~act[a].set.star /\ ~act[b].set.star
          BY <1>1, <1>5, <5>1 DEF ActsRight
        <5>3. r.star = act[b].set.star
          BY <2>2 DEF Fits
        <5>4. act[b].set.star \in BOOLEAN /\ act[a].set.star \in BOOLEAN
          BY <1>1 DEF ListTypes, ActType, Marks
        <5>5. QED
          BY <5>2, <5>3, <5>4
      <4>3. QED
        BY <4>1, <4>2
    <3>3. CASE act[a].kind = "star"
      <4>1. q.read = r.read /\ q.star = act[a].set.star /\ q.m = r.m
        BY <2>1, <2>6, <3>3
      <4>2. kept' = kept /\ kept[q.m].here
        BY <1>4, <2>2, <4>1 DEF Fits
      <4>3. ASSUME NEW b \in Acts, Patching(b, q.m)'
            PROVE  /\ act'[b].kind # "delete"
                   /\ act'[b].kind = "star" => q.star = act'[b].set.star /\ (act'[b].done => kept[q.m].flags.star = q.star)
                   /\ act'[b].kind # "star" => q.read /\ (act'[b].done => kept[q.m].flags.read)
        <5>1. CASE b = a
          BY <1>2, <1>5, <3>1, <3>3, <4>1, <5>1
        <5>2. CASE b # a
          BY <1>5, <2>2, <2>3, <3>2, <3>3, <4>1, <4>3, <5>2 DEF Fits
        <5>3. QED
          BY <5>1, <5>2
      <4>4. \E b \in Acts : Patching(b, q.m)' /\ act'[b].kind = "star"
        BY <1>2, <1>5, <2>3, <2>6, <3>3, <4>1
      <4>5. q.read = kept[q.m].flags.read \/ \E b \in Acts : Patching(b, q.m)' /\ act'[b].kind # "star"
        BY <1>5, <2>2, <2>3, <2>4, <4>1 DEF Fits
      <4>6. QED
        BY <4>2, <4>3, <4>4, <4>5 DEF Fits
    <3>4. CASE act[a].kind # "star"
      <4>1. q.star = r.star /\ q.read = act[a].set.read /\ q.m = r.m /\ act[a].set.read = TRUE
        BY <1>5, <2>1, <2>6, <3>1, <3>4 DEF ActType, Marks
      <4>2. kept' = kept /\ kept[q.m].here
        BY <1>4, <2>2, <4>1 DEF Fits
      <4>3. ASSUME NEW b \in Acts, Patching(b, q.m)'
            PROVE  /\ act'[b].kind # "delete"
                   /\ act'[b].kind = "star" => q.star = act'[b].set.star /\ (act'[b].done => kept[q.m].flags.star = q.star)
                   /\ act'[b].kind # "star" => q.read /\ (act'[b].done => kept[q.m].flags.read)
        <5>1. CASE b = a
          BY <1>2, <1>5, <2>6, <3>1, <3>4, <4>1, <5>1
        <5>2. CASE b # a
          BY <1>5, <2>2, <2>3, <4>1, <4>3, <5>2 DEF Fits
        <5>3. QED
          BY <5>1, <5>2
      <4>4. \E b \in Acts : Patching(b, q.m)' /\ act'[b].kind # "star"
        BY <1>2, <1>5, <2>3, <2>6, <3>4, <4>1
      <4>5. q.star = kept[q.m].flags.star \/ \E b \in Acts : Patching(b, q.m)' /\ act'[b].kind = "star"
        BY <1>5, <2>2, <2>3, <2>4, <4>1 DEF Fits
      <4>6. QED
        BY <4>2, <4>3, <4>4, <4>5 DEF Fits
    <3>5. QED
      BY <3>3, <3>4
  <2>7. QED
    BY <2>1, <2>5, <2>6
<1>14. QED
  BY <1>8, <1>10, <1>11, <1>12, <1>13 DEF ListInv

\* An act moves on and keeps what it is about; the server and the lists stay.
LEMMA ActGoesOn ==
  ASSUME ListInv, NEW a \in Running, act[a].pc # "cancel", NEW n \in ActType, act' = [act EXCEPT ![a] = n],
         n.pc \in {"send", "sent", "failed"}, n.kind = act[a].kind, n.set = act[a].set, n.ids = act[a].ids,
         n.snap = act[a].snap, n.met = act[a].met, n.done = act[a].done, Acting(n),
         UNCHANGED <<kept, lists, loads, shown, picked, doubt>>
  PROVE  ListInv'
<1>1. ListTypes /\ Fetches /\ ShownTells /\ ActsRight /\ AloneTells /\ HiddenFits /\ a \in Acts
  BY DEF ListInv, Running
<1>2. /\ act' \in [Acts -> ActType] /\ act'[a] = n /\ \A b \in Acts : b # a => act'[b] = act[b]
      /\ Running' = Running /\ act[a].pc \in {"send", "sent", "failed"}
  <2>1. n.pc # "none" /\ act[a] \in ActType /\ act[a].pc # "none" /\ act \in [Acts -> ActType]
    BY <1>1 DEF ListTypes, Running
  <2>2. act[a].pc \in {"send", "sent", "failed"}
    BY <2>1 DEF ActType
  <2>3. Running \cup {a} = Running
    OBVIOUS
  <2>4. QED
    BY <1>1, <2>1, <2>2, <2>3, ActMoves
<1>3. \A s : Tells(s)' <=> Tells(s)
  BY DEF Tells
<1>4. ListTypes' /\ Fetches' /\ ShownTells'
  BY <1>1, <1>2, <1>3 DEF ListTypes, Fetches, ShownTells, Quiet
<1>5. \A b \in Acts : /\ act'[b].met = act[b].met /\ act'[b].kind = act[b].kind /\ act'[b].set = act[b].set
                      /\ act'[b].done = act[b].done /\ act'[b].ids = act[b].ids /\ act'[b].snap = act[b].snap
                      /\ (act'[b].pc = "cancel" <=> act[b].pc = "cancel")
                      /\ (act'[b].pc \in {"send", "sent", "failed"} <=> act[b].pc \in {"send", "sent", "failed"})
  BY <1>2
<1>6. ActsRight'
  <2>1. \A b \in Running : Acting(act'[b])
    BY <1>1, <1>2 DEF ActsRight, Running
  <2>2. QED
    BY <1>1, <1>2, <1>5, <2>1 DEF ActsRight, Running
<1>7. AloneTells'
  BY <1>1, <1>2, <1>3, <1>5 DEF AloneTells, Running
<1>8. HiddenFits'
  <2>1. \A r : Fits(r) => Fits(r)'
    BY <1>1, <1>5, FitsStill DEF Patching
  <2>2. QED
    BY <1>1, <2>1 DEF HiddenFits
<1>9. QED
  BY <1>4, <1>6, <1>7, <1>8 DEF ListInv

LEMMA AttemptFailsKeeps == ASSUME ListInv, NEW a \in Acts, AttemptFails(a) PROVE ListInv'
<1> DEFINE pc == IF act[a].tries = 0 THEN "send" ELSE "failed"
           n == [act[a] EXCEPT !.pc = pc, !.tries = 1]
<1>1. act \in [Acts -> ActType] /\ act[a] \in ActType /\ act[a].pc \in {"send", "sent"} /\ a \in Running
  BY DEF ListInv, ListTypes, AttemptFails, Running
<1>2. pc \in {"send", "failed"}
  OBVIOUS
<1>3. act' = [act EXCEPT ![a] = n]
  BY <1>1 DEF AttemptFails, ActType
<1> HIDE DEF pc
<1>4. /\ n \in ActType /\ n.pc \in {"send", "failed"} /\ n.kind = act[a].kind /\ n.set = act[a].set
      /\ n.ids = act[a].ids /\ n.snap = act[a].snap /\ n.met = act[a].met /\ n.done = act[a].done
  BY <1>1, <1>2 DEF ActType
<1>5. Acting(n)
  BY <1>1, <1>4 DEF ListInv, ActsRight, Acting
<1>6. UNCHANGED <<kept, lists, loads, shown, picked, doubt>>
  BY DEF AttemptFails
<1> HIDE DEF n
<1>7. QED
  BY <1>1, <1>3, <1>4, <1>5, <1>6, ActGoesOn

LEMMA SendsKeeps == ASSUME ListInv, NEW a \in Acts, Sends(a) PROVE ListInv'
<1>1. ListTypes /\ Fetches /\ ShownTells /\ ActsRight /\ AloneTells /\ HiddenFits
  BY DEF ListInv
<1> DEFINE n == [act[a] EXCEPT !.pc = "sent", !.done = TRUE]
<1>2. act \in [Acts -> ActType] /\ act[a] \in ActType /\ act[a].pc = "send" /\ a \in Running
  BY DEF ListInv, ListTypes, Sends, Running
<1>3. act' = [act EXCEPT ![a] = n] /\ UNCHANGED <<lists, loads, shown, picked>>
  BY <1>2 DEF Sends, ActType
<1>4. /\ n \in ActType /\ n.pc = "sent" /\ n.kind = act[a].kind /\ n.set = act[a].set
      /\ n.ids = act[a].ids /\ n.snap = act[a].snap /\ n.met = act[a].met /\ n.done
  BY <1>2 DEF ActType
<1> HIDE DEF n
<1>5. /\ act' \in [Acts -> ActType] /\ act'[a] = n /\ (\A b \in Acts : b # a => act'[b] = act[b]) /\ Running' = Running
  <2>1. Running \cup {a} = Running /\ n.pc # "none"
    BY <1>2, <1>4
  <2>2. QED
    BY <1>2, <1>3, <1>4, <2>1, ActMoves
<1>6. /\ kept' \in [Letters -> [here : BOOLEAN, flags : Marks]]
      /\ \A m \in Letters : m \notin Targets(a) => kept'[m] = kept[m]
      /\ \A m \in Letters : m \in Targets(a) /\ act[a].kind # "delete" =>
           /\ kept'[m].here = kept[m].here
           /\ act[a].kind = "star" => kept'[m].flags = [read |-> kept[m].flags.read, star |-> act[a].set.star]
           /\ act[a].kind # "star" => kept'[m].flags = [read |-> TRUE, star |-> kept[m].flags.star]
  <2>1. \A m \in Letters : kept[m] \in [here : BOOLEAN, flags : Marks]
    BY <1>1 DEF ListTypes
  <2> DEFINE read(m) == IF act[a].kind = "star" THEN kept[m].flags.read ELSE TRUE
             star(m) == IF act[a].kind = "star" THEN act[a].set.star ELSE kept[m].flags.star
  <2>2. ASSUME NEW m \in Letters
        PROVE  kept'[m] = IF m \notin Targets(a) THEN kept[m]
                          ELSE IF act[a].kind = "delete" THEN [kept[m] EXCEPT !.here = FALSE]
                          ELSE [kept[m] EXCEPT !.flags = [read |-> read(m), star |-> star(m)]]
    BY <2>1 DEF Sends, Hits
  <2>3. \A m \in Letters : [read |-> read(m), star |-> star(m)] \in Marks
    BY <1>2, <2>1 DEF Marks, ActType
  <2>4. \A m \in Letters : kept'[m] \in [here : BOOLEAN, flags : Marks]
    BY <2>1, <2>2, <2>3
  <2>5. kept' = [m \in Letters |-> kept'[m]]
    BY DEF Sends, Hits
  <2>6. QED
    BY <2>1, <2>2, <2>4, <2>5
<1>7. ListTypes'
  BY <1>1, <1>3, <1>5, <1>6 DEF ListTypes, Sends
<1>8. Fetches' /\ ShownTells'
  BY <1>1, <1>2, <1>3, <1>5 DEF Fetches, ShownTells, Quiet
<1>9. ActsRight'
  <2>1. \A b \in Acts : act'[b].met = act[b].met /\ act'[b].kind = act[b].kind /\ act'[b].set = act[b].set
    BY <1>4, <1>5
  <2>2. \A b \in Running : Acting(act'[b])
    BY <1>1, <1>2, <1>4, <1>5 DEF ActsRight, Acting, Running
  <2>3. "inbox" \notin doubt' => "inbox" \notin doubt
    BY <1>1 DEF Sends, Folders
  <2>4. QED
    BY <1>1, <1>3, <1>5, <2>1, <2>2, <2>3 DEF ActsRight, Running
<1>10. AloneTells'
  <2>1. \A b \in Running : ~(~act'[b].met /\ ~act'[b].done)
    BY <1>1, <1>2, <1>4, <1>5 DEF ActsRight, Running
  <2>2. QED
    BY <1>5, <2>1 DEF AloneTells
<1>11. HiddenFits'
  <2> SUFFICES ASSUME NEW k \in Folders, k \notin doubt', k # shown, NEW r \in lists[k]
               PROVE  Fits(r)'
    BY <1>3 DEF HiddenFits
  <2>1. Targets(a) = act[a].ids /\ doubt' = doubt
    BY DEF Sends
  <2>2. Fits(r) /\ r.m \in Letters
    BY <1>1, <2>1 DEF HiddenFits, ListTypes, Lists, Rows
  <2>3. \A b \in Acts : \A m : Patching(b, m)' <=> Patching(b, m)
    BY <1>2, <1>4, <1>5 DEF Patching
  <2>4. CASE r.m \notin act[a].ids
    <3>1. kept'[r.m] = kept[r.m]
      BY <1>6, <2>1, <2>2, <2>4
    <3>2. ~Patching(a, r.m)
      BY <2>4 DEF Patching
    <3>3. QED
      BY <1>5, <2>2, <2>3, <3>1, <3>2 DEF Fits
  <2>5. CASE r.m \in act[a].ids
    <3>1. Patching(a, r.m) /\ act[a].kind # "delete" /\ kept'[r.m].here
      BY <1>2, <1>6, <2>1, <2>2, <2>5 DEF Fits, Patching
    <3>2. CASE act[a].kind = "star"
      <4>0. r.star = act[a].set.star
        BY <2>2, <3>1, <3>2 DEF Fits
      <4>9. kept'[r.m].flags = [read |-> kept[r.m].flags.read, star |-> act[a].set.star]
        BY <1>6, <2>1, <2>2, <2>5, <3>1, <3>2
      <4>1. r.star = act[a].set.star /\ kept'[r.m].flags.star = r.star /\ kept'[r.m].flags.read = kept[r.m].flags.read
        BY <4>0, <4>9
      <4>2. \A b \in Acts : /\ act'[b].kind = act[b].kind /\ act'[b].set = act[b].set
                            /\ (act'[b].kind # "star" => act'[b].done = act[b].done)
        BY <1>4, <1>5, <3>2
      <4>3. QED
        BY <2>2, <2>3, <3>1, <4>1, <4>2 DEF Fits
    <3>3. CASE act[a].kind # "star"
      <4>0. r.read
        BY <2>2, <3>1, <3>3 DEF Fits
      <4>9. kept'[r.m].flags = [read |-> TRUE, star |-> kept[r.m].flags.star]
        BY <1>6, <2>1, <2>2, <2>5, <3>1, <3>3
      <4>1. r.read /\ kept'[r.m].flags.read = TRUE /\ kept'[r.m].flags.star = kept[r.m].flags.star
        BY <4>0, <4>9
      <4>2. \A b \in Acts : /\ act'[b].kind = act[b].kind /\ act'[b].set = act[b].set
                            /\ (act'[b].kind = "star" => act'[b].done = act[b].done)
        BY <1>4, <1>5, <3>3
      <4>3. r.read = TRUE
        BY <1>1, <4>1 DEF ListTypes, Lists, Rows
      <4>4. r.read = kept'[r.m].flags.read
        BY <4>1, <4>3
      <4>5. r.star = kept'[r.m].flags.star \/ \E b \in Acts : Patching(b, r.m)' /\ act'[b].kind = "star"
        BY <2>2, <2>3, <4>1, <4>2 DEF Fits
      <4>6. ASSUME NEW b \in Acts, Patching(b, r.m)'
            PROVE  /\ act'[b].kind # "delete"
                   /\ act'[b].kind = "star" => r.star = act'[b].set.star /\ (act'[b].done => kept'[r.m].flags.star = r.star)
                   /\ act'[b].kind # "star" => r.read /\ (act'[b].done => kept'[r.m].flags.read)
        BY <2>2, <2>3, <4>1, <4>2, <4>3, <4>6 DEF Fits
      <4>7. QED
        BY <3>1, <4>4, <4>5, <4>6 DEF Fits
    <3>4. QED
      BY <3>2, <3>3
  <2>6. QED
    BY <2>4, <2>5
<1>12. QED
  BY <1>7, <1>8, <1>9, <1>10, <1>11 DEF ListInv

LEMMA SucceedsKeeps == ASSUME ListInv, NEW a \in Acts, Succeeds(a) PROVE ListInv'
<1>1. ListTypes /\ Fetches /\ ShownTells /\ ActsRight /\ AloneTells /\ HiddenFits
  BY DEF ListInv
<1>2. act' = [act EXCEPT ![a] = NoAct] /\ act[a].pc = "sent" /\ UNCHANGED <<kept, lists, shown, doubt>>
      /\ loads' = Asking(Running \ {a}) /\ picked' \subseteq picked
  BY DEF Succeeds, Ends, Invalidates
<1>3. /\ act' \in [Acts -> ActType] /\ act'[a] = NoAct /\ \A b \in Acts : b # a => act'[b] = act[b]
      /\ Running' = Running \ {a} /\ a \in Running /\ act[a].done
  <2>1. a \in Running /\ act[a].done
    BY <1>1, <1>2 DEF Running, ActsRight, Acting
  <2>2. QED
    BY <1>2, <2>1, NoActFits, ActMoves
<1>4. ListTypes'
  BY <1>1, <1>2, <1>3, AskingFits DEF ListTypes
<1>5. Fetches' /\ ShownTells'
  BY <1>1, <1>2, <1>3, AskingFits DEF Fetches, ShownTells, Quiet
<1>6. ActsRight'
  BY <1>1, <1>2, <1>3 DEF ActsRight, Acting
<1>7. AloneTells'
  <2>1. \A b \in Running' : act'[b].met
    <3> SUFFICES ASSUME NEW b \in Running', ~act'[b].met PROVE FALSE
      OBVIOUS
    <3>1. b \in Running /\ b # a /\ b \in Acts
      BY <1>3 DEF Running
    <3>2. act[b] = act'[b]
      BY <1>3, <3>1
    <3>3. QED
      BY <1>1, <1>3, <3>1, <3>2 DEF ActsRight
  <2>2. QED
    BY <2>1 DEF AloneTells
<1>8. HiddenFits'
  <2> SUFFICES ASSUME NEW k \in Folders, k \notin doubt, k # shown, NEW r \in lists[k]
               PROVE  Fits(r)'
    BY <1>2 DEF HiddenFits
  <2>1. Fits(r)
    BY <1>1 DEF HiddenFits
  <2>2. \A b \in Acts : Patching(b, r.m)' <=> Patching(b, r.m) /\ b # a
    BY <1>3, NoActFits DEF Patching
  <2>3. r \in Rows /\ kept[r.m].flags \in Marks
    BY <1>1 DEF ListTypes, Lists, Rows
  <2>4. r.star = kept[r.m].flags.star \/ \E b \in Acts : Patching(b, r.m) /\ b # a /\ act[b].kind = "star"
    BY <1>3, <2>1 DEF Fits
  <2>5. r.read = kept[r.m].flags.read \/ \E b \in Acts : Patching(b, r.m) /\ b # a /\ act[b].kind # "star"
    BY <1>3, <2>1, <2>3 DEF Fits, Rows, Marks
  <2>6. \A b \in Acts : Patching(b, r.m)' =>
         /\ act'[b].kind # "delete"
         /\ act'[b].kind = "star" => r.star = act'[b].set.star /\ (act'[b].done => kept[r.m].flags.star = r.star)
         /\ act'[b].kind # "star" => r.read /\ (act'[b].done => kept[r.m].flags.read)
    BY <1>3, <2>1, <2>2 DEF Fits
  <2>7. kept[r.m].here /\ kept' = kept
    BY <1>2, <2>1 DEF Fits
  <2>8. QED
    BY <1>3, <2>2, <2>4, <2>5, <2>6, <2>7 DEF Fits
<1>9. QED
  BY <1>4, <1>5, <1>6, <1>7, <1>8 DEF ListInv

LEMMA FailsKeeps == ASSUME ListInv, NEW a \in Acts, Fails(a) PROVE ListInv'
<1>1. ListTypes /\ Fetches /\ ShownTells /\ ActsRight /\ AloneTells /\ HiddenFits
  BY DEF ListInv
<1>2. act' = [act EXCEPT ![a] = NoAct] /\ act[a].pc = "failed" /\ UNCHANGED <<kept, shown, picked>>
      /\ lists' = act[a].snap
      /\ (loads' = loads \/ loads' = Asking(Running \ {a}))
      /\ doubt' = IF act[a].met \/ act[a].done THEN Folders ELSE doubt
  BY DEF Fails, Ends, Invalidates
<1>3. /\ act' \in [Acts -> ActType] /\ act'[a] = NoAct /\ (\A b \in Acts : b # a => act'[b] = act[b])
      /\ Running' = Running \ {a} /\ a \in Running
  <2>1. a \in Running
    BY <1>2 DEF Running
  <2>2. QED
    BY <1>2, <2>1, NoActFits, ActMoves
<1>4. ListTypes'
  BY <1>1, <1>2, <1>3, AskingFits DEF ListTypes, ActType
<1>5. Fetches'
  BY <1>1, <1>2, <1>3, AskingFits DEF Fetches
<1>6. ActsRight'
  BY <1>1, <1>2, <1>3 DEF ActsRight, Acting, Folders
<1>7. AloneTells'
  <2>1. \A b \in Running' : act'[b].met
    <3> SUFFICES ASSUME NEW b \in Running', ~act'[b].met PROVE FALSE
      OBVIOUS
    <3>1. b \in Running /\ b # a /\ b \in Acts
      BY <1>3 DEF Running
    <3>2. act[b] = act'[b]
      BY <1>3, <3>1
    <3>3. QED
      BY <1>1, <1>3, <3>1, <3>2 DEF ActsRight
  <2>2. QED
    BY <2>1 DEF AloneTells
<1>8. CASE act[a].met \/ act[a].done
  <2>1. ~loads.calm \/ loads.at = "none"
    BY <1>1, <1>3 DEF Fetches
  <2>2. doubt' = Folders /\ shown \in doubt'
    BY <1>1, <1>2, <1>8 DEF ListTypes
  <2>3. ShownTells' /\ HiddenFits'
    BY <1>2, <2>1, <2>2, AskingFits DEF ShownTells, HiddenFits, Quiet
  <2>4. QED
    BY <1>4, <1>5, <1>6, <1>7, <2>3 DEF ListInv
<1>9. CASE ~act[a].met /\ ~act[a].done
  <2>1. Running' = {} /\ doubt' = doubt
    BY <1>1, <1>2, <1>3, <1>9 DEF ActsRight
  <2>2. (loads.at = "brought" => Tells(loads.rows)) /\ \A k \in Folders \ doubt : Tells(lists'[k])
    BY <1>1, <1>2, <1>3, <1>9 DEF AloneTells
  <2>3. \A s : Tells(s)' <=> Tells(s)
    BY <1>2 DEF Tells
  <2>4. ShownTells'
    BY <1>1, <1>2, <2>1, <2>2, <2>3, AskingFits DEF ShownTells, ListTypes
  <2>5. HiddenFits'
    <3> SUFFICES ASSUME NEW k \in Folders, k \notin doubt, NEW r \in lists'[k] PROVE Fits(r)'
      BY <2>1 DEF HiddenFits
    <3>1. r \in Rows /\ kept'[r.m].here /\ r = Row(r.m, kept'[r.m].flags)
      BY <1>2, <1>4, <2>2 DEF ListTypes, Lists, Tells
    <3>2. r.read = kept'[r.m].flags.read /\ r.star = kept'[r.m].flags.star
      BY <1>1, <1>2, <3>1, TellsBy
    <3>3. \A b \in Acts : \A m : ~Patching(b, m)'
      BY <2>1 DEF Running, Patching
    <3>4. QED
      BY <3>1, <3>2, <3>3 DEF Fits
  <2>6. QED
    BY <1>4, <1>5, <1>6, <1>7, <2>4, <2>5 DEF ListInv
<1>10. QED
  BY <1>8, <1>9

LEMMA TurnsKeeps == ASSUME ListInv, Turns PROVE ListInv'
<1>1. ListTypes /\ Fetches /\ ShownTells /\ ActsRight /\ AloneTells /\ HiddenFits
  BY DEF ListInv
<1>2. shown' \in Folders /\ shown' # shown
  <2>1. \E k \in Folders : k # shown
    BY DEF Folders
  <2>2. QED
    BY <2>1 DEF Turns
<1>3. /\ UNCHANGED <<kept, lists, act>> /\ picked' = {} /\ Running' = Running
      /\ loads' = NoLoad \/ loads' = Asking(Running)
      /\ doubt' = IF Quiet THEN doubt ELSE Folders
  BY DEF Turns, Running
<1>4. ListTypes'
  BY <1>1, <1>2, <1>3, AskingFits, NoLoadFits DEF ListTypes
<1>5. loads'.rows = {} /\ loads'.at # "brought" /\ (loads'.at # "none" /\ loads'.calm => Running = {})
  BY <1>3, AskingFits, NoLoadFits
<1>6. Fetches'
  BY <1>3, <1>5 DEF Fetches
<1>7. CASE Quiet
  <2>1. Running = {} /\ doubt' = doubt
    BY <1>3, <1>7 DEF Quiet
  <2>2. \A s : Tells(s)' <=> Tells(s)
    BY <1>3 DEF Tells
  <2>3. ActsRight' /\ AloneTells'
    BY <1>3, <2>1 DEF ActsRight, AloneTells
  <2>4. ShownTells'
    <3>1. shown' \notin doubt => Tells(lists[shown'])
      <4> SUFFICES ASSUME shown' \notin doubt, NEW r \in lists[shown']
                   PROVE  kept[r.m].here /\ r = Row(r.m, kept[r.m].flags)
        BY DEF Tells
      <4>1. Fits(r) /\ r \in Rows
        BY <1>1, <1>2 DEF HiddenFits, ListTypes, Lists
      <4>2. QED
        BY <1>1, <2>1, <4>1, FitsTells
    <3>2. QED
      BY <1>3, <1>5, <2>1, <2>2, <3>1 DEF ShownTells
  <2>5. HiddenFits'
    <3> SUFFICES ASSUME NEW k \in Folders, k \notin doubt, k # shown', NEW r \in lists[k] PROVE Fits(r)
      BY <1>3, <2>1 DEF HiddenFits, Fits, Patching
    <3>1. k = shown /\ r \in Rows
      BY <1>1, <1>2 DEF ListTypes, Lists, Folders
    <3>2. kept[r.m].here /\ r = Row(r.m, kept[r.m].flags)
      BY <1>1, <1>7, <3>1 DEF ShownTells, Tells
    <3>3. QED
      BY <1>1, <2>1, <3>1, <3>2, FitsTells
  <2>6. QED
    BY <1>4, <1>6, <2>3, <2>4, <2>5 DEF ListInv
<1>8. CASE ~Quiet
  <2>1. doubt' = Folders
    BY <1>3, <1>8
  <2>2. ShownTells' /\ HiddenFits'
    BY <1>2, <1>5, <2>1 DEF ShownTells, HiddenFits
  <2>3. ActsRight' /\ AloneTells'
    BY <1>1, <1>3, <1>5, <2>1 DEF ActsRight, AloneTells, Folders
  <2>4. QED
    BY <1>4, <1>6, <2>2, <2>3 DEF ListInv
<1>9. QED
  BY <1>7, <1>8

\* What is selected, opened or marked shows in no list.
LEMMA NoListMoves ==
  ASSUME ListInv, UNCHANGED <<kept, lists, loads, shown, act, doubt>>, picked' \subseteq Letters
  PROVE  ListInv'
<1>1. ListTypes' /\ Fetches' /\ ShownTells'
  BY DEF ListInv, ListTypes, Fetches, ShownTells, Quiet, Running, Tells
<1>2. ActsRight' /\ AloneTells' /\ HiddenFits'
  BY DEF ListInv, ActsRight, AloneTells, HiddenFits, Running, Tells, Fits, Patching
<1>3. QED
  BY <1>1, <1>2 DEF ListInv

LEMMA DeskKeeps == ListInv /\ [DeskNext]_deskVars => ListInv'
<1> SUFFICES ASSUME ListInv, [DeskNext]_deskVars PROVE ListInv'
  OBVIOUS
<1>1. ListTypes
  BY DEF ListInv
<1>2. \A r \in lists[shown] : r \in Rows /\ r.m \in Letters /\ r.star \in BOOLEAN /\ (shown = "starred" => r.star)
  BY <1>1 DEF ListTypes, Lists, Rows
<1>3. \A x, y \in BOOLEAN : Flags(x, y) \in Marks /\ Flags(x, y).read = x /\ Flags(x, y).star = y
  BY DEF Flags, Marks
<1>4. ASSUME NEW m \in Letters, Picks(m) \/ Opens(m) PROVE ListInv'
  <2>1. picked' \subseteq Letters
    BY <1>1, <1>4 DEF Picks, Opens, ListTypes
  <2>2. QED
    BY <1>4, <2>1, NoListMoves DEF Picks, Opens
<1>5. ASSUME NEW a \in Acts, MarksOpened(a) PROVE ListInv'
  <2>1. {opened} \in SUBSET Letters /\ Begins(a, "mark", {opened}, Flags(TRUE, FALSE), TRUE)
        /\ UNCHANGED <<kept, lists, shown, picked, doubt>>
    BY <1>2, <1>5 DEF MarksOpened
  <2>2. QED
    BY <1>3, <2>1, BeginsKeeps
<1>6. ASSUME NEW a \in Acts, UserActsOnPicked(a) PROVE ListInv'
  <2>1. picked \in SUBSET Letters /\ Begins(a, "bulk", picked, Flags(TRUE, FALSE), FALSE)
        /\ UNCHANGED <<kept, lists, shown, picked, doubt>>
    BY <1>1, <1>6 DEF UserActsOnPicked, ListTypes
  <2>2. QED
    BY <1>3, <2>1, BeginsKeeps
<1>7. ASSUME NEW a \in Acts, NEW m \in Letters, NEW kind \in {"star", "delete"}, UserActs(a, kind, m) PROVE ListInv'
  <2>1. PICK r \in lists[shown] : Begins(a, kind, {m}, Flags(FALSE, ~r.star), FALSE)
    BY <1>7 DEF UserActs
  <2>2. /\ Flags(FALSE, ~r.star) \in Marks /\ (shown = "starred" => ~Flags(FALSE, ~r.star).star)
        /\ UNCHANGED <<kept, lists, shown, picked, doubt>> /\ {m} \in SUBSET Letters
    BY <1>2, <1>3, <1>7 DEF UserActs
  <2>3. QED
    BY <2>1, <2>2, BeginsKeeps
<1>8. CASE UNCHANGED deskVars
  BY <1>1, <1>8, NoListMoves DEF deskVars, ListTypes
<1>9. QED
  BY <1>4, <1>5, <1>6, <1>7, <1>8, FetchListKeeps, ListAnswersKeeps, ListComesKeeps, TurnsKeeps, PatchesKeeps,
     SendsKeeps, AttemptFailsKeeps, SucceedsKeeps, FailsKeeps DEF DeskNext, LoadStep, ActStep

LEMMA DeskAlways == DeskSpec => []ListInv
BY DeskStarts, DeskKeeps, PTL DEF DeskSpec

\* With nothing under way, the shown list tells what the server has, for any number of mutations,
\* attempts and fetches between.
THEOREM ListsTell == DeskSpec => []ListTells
<1>1. ListInv => ListTells
  BY DEF ListInv, ShownTells, Tells, ListTells
<1>2. QED
  BY <1>1, DeskAlways, PTL

-----------------------------------------------------------------------------
(* The mailbox the URL stands for. *)

RouteSpec == RouteInit /\ [][RouteNext]_routeVars

RouteTypes ==
  /\ url \in RouteUrls /\ recent \in RouteUrls
  /\ boxes \in Seq(Boxes) /\ senders \in Seq(Senders) /\ strayed \in BOOLEAN
  /\ route \in Routes
InOwn(s) == s.thread # 0 => Owner[s.thread] = s.who
\* What is named is there, and the thread in the URL and the one that is kept stand in their own mailbox.
Kept == ~strayed => ~Gone(url, boxes, senders) /\ InOwn(url) /\ InOwn(recent)
RouteInv == RouteTypes /\ Kept
-----------------------------------------------------------------------------
LEMMA RouteFacts ==
  /\ \A w \in Boxes : w \notin Senders /\ w # ""
  /\ \A w \in Senders : w # ""
  /\ \A t \in DOMAIN Owner : t # 0 /\ Owner[t] \in Boxes \cup Senders
  /\ \A r \in Routes : r.boxes \in Seq(Boxes) /\ r.senders \in Seq(Senders) /\ r.url \in RouteUrls /\ InOwn(r.url)
BY RouteAssumption DEF InOwn

LEMMA NoRouteFits == NoRoute \in RouteUrls /\ InOwn(NoRoute) /\ NoRoute.who = "" /\ NoRoute.thread = 0
BY DEF NoRoute, RouteUrls, RouteFolders, InOwn

LEMMA FolderFits == \A w : \A f \in RouteFolders : Folder(w, f) \in RouteFolders
BY DEF Folder, RouteFolders

\* What is resolved is a state like those in the URL.
LEMMA ResolvedFits ==
  ASSUME RouteTypes, NEW known \in Seq(Senders)
  PROVE  Resolved(known) \in RouteUrls
<1> DEFINE who == IF Available(Asked, known) THEN Asked ELSE Fallback(known)
           old == Preferred(known)
<1>1. Fallback(known) \in Boxes \cup Senders \cup {""}
  <2>1. boxes # << >> => boxes[1] \in Boxes
    BY DEF RouteTypes
  <2>2. known # << >> => known[1] \in Senders
    OBVIOUS
  <2>3. recent.who \in Boxes \cup Senders \cup {""}
    BY DEF RouteTypes, RouteUrls
  <2>4. QED
    BY <2>1, <2>2, <2>3 DEF Fallback
<1>2. who \in Boxes \cup Senders \cup {""} /\ old \in RouteUrls
  BY <1>1, NoRouteFits DEF RouteTypes, RouteUrls, Asked, Preferred
<1>3. Resolved(known) = IF who = "" THEN NoRoute
        ELSE [who |-> who, folder |-> Folder(who, IF url.folder # "" THEN url.folder ELSE old.folder),
              q |-> IF url.q # 0 THEN url.q ELSE old.q,
              page |-> PageOf(IF url.page # 0 THEN url.page ELSE old.page),
              thread |-> IF url.thread # 0 THEN url.thread ELSE old.thread]
  BY DEF Resolved
<1> HIDE DEF who, old
<1>4. /\ \A f \in RouteFolders : Folder(who, f) \in RouteFolders
      /\ (IF url.folder # "" THEN url.folder ELSE old.folder) \in RouteFolders
      /\ (IF url.q # 0 THEN url.q ELSE old.q) \in Nat
      /\ PageOf(IF url.page # 0 THEN url.page ELSE old.page) \in Nat
      /\ (IF url.thread # 0 THEN url.thread ELSE old.thread) \in {0} \cup DOMAIN Owner
  BY <1>2, FolderFits DEF RouteTypes, RouteUrls, PageOf
<1>5. who # "" => Resolved(known) \in RouteUrls
  <2> DEFINE f == Folder(who, IF url.folder # "" THEN url.folder ELSE old.folder)
             q == IF url.q # 0 THEN url.q ELSE old.q
             n == PageOf(IF url.page # 0 THEN url.page ELSE old.page)
             t == IF url.thread # 0 THEN url.thread ELSE old.thread
  <2>1. f \in RouteFolders /\ q \in Nat /\ n \in Nat /\ t \in {0} \cup DOMAIN Owner
    BY <1>4
  <2>2. who # "" => Resolved(known) = [who |-> who, folder |-> f, q |-> q, page |-> n, thread |-> t]
    BY <1>3
  <2> HIDE DEF f, q, n, t
  <2>3. [who |-> who, folder |-> f, q |-> q, page |-> n, thread |-> t] \in RouteUrls
    BY <1>2, <2>1 DEF RouteUrls
  <2>4. QED
    BY <2>2, <2>3
<1>6. QED
  BY <1>2, <1>3, <1>4, <1>5, NoRouteFits

\* And so does its thread, as long as nobody is named who is gone.
LEMMA ResolvedInOwn ==
  ASSUME RouteInv, ~strayed, NEW known \in {Named, senders}
  PROVE  InOwn(Resolved(known))
<1>1. CASE url.who = ""
  <2>1. url.thread = 0 /\ ~Available(Asked, known)
    BY <1>1, RouteFacts DEF RouteInv, RouteTypes, RouteUrls, Kept, InOwn, Asked, Available
  <2>2. (Preferred(known) = recent /\ Fallback(known) = recent.who) \/ Preferred(known) = NoRoute
    BY DEF Preferred, Fallback
  <2>3. CASE Resolved(known) = NoRoute
    BY <2>3, NoRouteFits
  <2>4. CASE Resolved(known) # NoRoute
    <3>1. Resolved(known).who = Fallback(known) /\ Resolved(known).thread = Preferred(known).thread
      BY <2>1, <2>4 DEF Resolved
    <3>2. InOwn(recent) /\ InOwn(NoRoute)
      BY NoRouteFits DEF RouteInv, Kept
    <3>3. CASE Preferred(known) = recent /\ Fallback(known) = recent.who
      BY <3>1, <3>2, <3>3 DEF InOwn
    <3>4. CASE Preferred(known) = NoRoute
      BY <3>1, <3>4, NoRouteFits DEF InOwn
    <3>5. QED
      BY <2>2, <3>3, <3>4
  <2>5. QED
    BY <2>3, <2>4
<1>2. CASE url.who # ""
  <2>1. url.who \in Boxes \cup Senders
    BY <1>2 DEF RouteInv, RouteTypes, RouteUrls
  <2>2. Available(Asked, known)
    <3>1. CASE url.who \in Boxes
      BY <3>1 DEF RouteInv, Kept, Gone, Available, Asked
    <3>2. CASE url.who \in Senders /\ known = senders
      BY <3>2 DEF RouteInv, Kept, Gone, Available, Asked
    <3>3. CASE url.who \in Senders /\ known = Named
      BY <3>3 DEF Available, Asked, Named, Has
    <3>4. QED
      BY <2>1, <3>1, <3>2, <3>3
  <2>3. ~Bare
    BY <1>2, NoRouteFits DEF Bare
  <2>4. Preferred(known) = NoRoute
    BY <2>3 DEF Preferred
  <2>5. Resolved(known).who = url.who /\ Resolved(known).thread = url.thread
    BY <1>2, <2>2, <2>4, NoRouteFits DEF Resolved, Asked
  <2>6. QED
    BY <2>5 DEF RouteInv, Kept, InOwn
<1>3. QED
  BY <1>1, <1>2

LEMMA RouteStarts == RouteInit => RouteInv
<1> SUFFICES ASSUME RouteInit PROVE RouteInv
  OBVIOUS
<1>1. url \in RouteUrls /\ InOwn(url) /\ boxes = << >> /\ senders = << >>
  BY RouteFacts DEF RouteInit
<1>2. RouteTypes
  <2>1. << >> \in Seq(Boxes) /\ << >> \in Seq(Senders)
    OBVIOUS
  <2>2. QED
    BY <1>1, <2>1, NoRouteFits DEF RouteInit, RouteTypes
<1>3. Kept
  BY <1>1, NoRouteFits DEF RouteInit, Kept, Gone
<1>4. QED
  BY <1>2, <1>3 DEF RouteInv

\* The URL is replaced, and whom it names is looked up.
LEMMA UrlMoves ==
  ASSUME RouteInv, url' \in RouteUrls, ~strayed => InOwn(url'),
         Strays(url', boxes, senders) \/ (strayed' = strayed /\ ~Gone(url', boxes, senders)),
         UNCHANGED <<route, boxes, senders>>, recent' = recent \/ recent' = url'
  PROVE  RouteInv'
<1>1. RouteTypes'
  BY DEF RouteInv, RouteTypes, Strays
<1>2. Kept'
  BY DEF RouteInv, RouteTypes, Kept, Strays, Gone, Has, InOwn
<1>3. QED
  BY <1>1, <1>2 DEF RouteInv

\* The lists of profiles come.
LEMMA ProfilesCome ==
  ASSUME RouteInv, boxes' \in Seq(Boxes), senders' \in Seq(Senders), route' = route, recent' = recent, url' = url,
         strayed' \in BOOLEAN, ~strayed' => ~strayed /\ ~Gone(url, boxes, senders)'
  PROVE  RouteInv'
BY DEF RouteInv, RouteTypes, Kept

\* The inbox is opened anew.
LEMMA InboxOpens ==
  ASSUME RouteInv, boxes' = << >>, senders' = << >>, route' = route, recent' = recent, strayed' = strayed,
         url' \in RouteUrls, InOwn(url)'
  PROVE  RouteInv'
<1>1. << >> \in Seq(Boxes) /\ << >> \in Seq(Senders) /\ ~Gone(url, boxes, senders)'
  BY DEF Gone
<1>2. QED
  BY <1>1 DEF RouteInv, RouteTypes, Kept

LEMMA RouteKeeps == RouteInv /\ [RouteNext]_routeVars => RouteInv'
<1> SUFFICES ASSUME RouteInv, [RouteNext]_routeVars PROVE RouteInv'
  OBVIOUS
<1>0. RouteTypes /\ Kept
  BY DEF RouteInv
<1>1. CASE BoxesCome
  <2>1. route.boxes \in Seq(Boxes) /\ route.boxes # << >>
    BY <1>0, <1>1, RouteFacts DEF BoxesCome, RouteTypes
  <2>2. \A b \in Boxes : <<b>> \in Seq(Boxes)
    OBVIOUS
  <2>3. boxes' \in Seq(Boxes)
    <3>1. route.boxes[1] \in Boxes
      BY <2>1
    <3>2. boxes' = route.boxes \/ boxes' = <<route.boxes[1]>>
      BY <1>1, <2>1 DEF BoxesCome
    <3>3. QED
      BY <2>1, <2>2, <3>1, <3>2
  <2>4. strayed' \in BOOLEAN /\ (~strayed' => ~strayed /\ ~Gone(url, boxes, senders)')
    BY <1>1 DEF BoxesCome, Strays, Gone, RouteTypes
  <2>5. QED
    BY <1>0, <1>1, <2>3, <2>4, ProfilesCome DEF BoxesCome, RouteTypes
<1>2. CASE SendersCome
  <2>1. senders' \in Seq(Senders)
    BY <1>0, <1>2, RouteFacts DEF SendersCome, RouteTypes
  <2>2. strayed' \in BOOLEAN /\ (~strayed' => ~strayed /\ ~Gone(url, boxes, senders)')
    BY <1>2 DEF SendersCome, Strays, Gone, RouteTypes
  <2>3. QED
    BY <1>0, <1>2, <2>1, <2>2, ProfilesCome DEF SendersCome, RouteTypes
<1>3. CASE Returns
  <2>1. url' \in RouteUrls /\ InOwn(url)'
    BY <1>0, <1>3, NoRouteFits, RouteFacts DEF Returns, RouteTypes, InOwn
  <2>2. QED
    BY <1>3, <2>1, InboxOpens DEF Returns
<1>4. CASE OpensFolder("SENT")
  <2>1. url' \in RouteUrls /\ InOwn(url)'
    <3>1. /\ recent.who \in Boxes \cup Senders \cup {""} /\ Folder(recent.who, "SENT") \in RouteFolders
      BY <1>0, FolderFits DEF RouteTypes, RouteUrls, RouteFolders
    <3>2. [NoRoute EXCEPT !.who = recent.who, !.folder = Folder(recent.who, "SENT"), !.page = 1]
            \in {u \in RouteUrls : u.thread = 0}
      BY <3>1, NoRouteFits DEF RouteUrls
    <3>3. QED
      BY <1>4, <3>2, NoRouteFits DEF OpensFolder, InOwn
  <2>2. QED
    BY <1>0, <1>4, <2>1, InboxOpens DEF OpensFolder
<1>5. ASSUME NEW w \in Boxes \cup Senders, SwitchesProfile(w) PROVE RouteInv'
  <2> DEFINE s == IF Resolved(senders) = NoRoute THEN [NoRoute EXCEPT !.page = 1] ELSE Resolved(senders)
  <2>1. s \in RouteUrls
    BY <1>0, ResolvedFits DEF RouteTypes, RouteUrls, NoRoute
  <2>2. url' = SelectProfile(s, w)
    BY <1>5 DEF SwitchesProfile
  <2> HIDE DEF s
  <2>3. url' \in RouteUrls /\ url'.thread = 0 /\ url'.who = w
    <3>1. Folder(w, "") \in RouteFolders
      BY DEF Folder, RouteFolders
    <3>2. QED
      BY <2>1, <2>2, <3>1 DEF RouteUrls, SelectProfile
  <2>4. ~Gone(url', boxes, senders)
    <3>1. (Has(boxes, w) => w \in Boxes) /\ (Has(senders, w) => w \in Senders)
      BY <1>0 DEF Has, RouteTypes
    <3>2. QED
      BY <1>5, <2>3, <3>1, RouteFacts DEF SwitchesProfile, Gone
  <2>5. QED
    BY <1>5, <2>3, <2>4, UrlMoves DEF SwitchesProfile, InOwn
<1>6. ASSUME NEW known \in {Named, senders} PROVE Effects(known) \/ Dispatches(known) => RouteInv'
  <2>1. known \in Seq(Senders)
    <3>1. \A w \in Senders : <<w>> \in Seq(Senders)
      OBVIOUS
    <3>2. << >> \in Seq(Senders)
      OBVIOUS
    <3>3. QED
      BY <1>0, <3>1, <3>2 DEF Named, RouteTypes
  <2> DEFINE s == Resolved(known)
  <2>2. s \in RouteUrls /\ (~strayed => InOwn(s))
    BY <1>0, <2>1, ResolvedFits, ResolvedInOwn
  <2>3. CASE Replaces(known)
    BY <2>2, <2>3, UrlMoves DEF Replaces
  <2>4. CASE Persists(known)
    <3>1. recent' = s /\ UNCHANGED <<route, url, boxes, senders, strayed>>
      BY <2>4 DEF Persists
    <3> HIDE DEF s
    <3>2. RouteTypes' /\ Kept'
      BY <1>0, <2>2, <3>1 DEF RouteTypes, Kept, Gone, Has, InOwn
    <3>3. QED
      BY <3>2 DEF RouteInv
  <2>5. CASE Dispatches(known)
    <3>1. url' \in Reduced(s) /\ Strays(url', boxes, senders) /\ UNCHANGED <<route, boxes, senders, recent>>
      BY <2>5 DEF Dispatches
    <3> HIDE DEF s
    <3>2. url' \in RouteUrls /\ (~strayed => InOwn(url'))
      <4>1. \A f \in {"INBOX", "SENT"} : Folder(s.who, f) \in RouteFolders
        BY DEF Folder, RouteFolders
      <4>2. \A u \in RouteUrls : u.thread = 0 => InOwn(u)
        BY DEF InOwn
      <4>3. \A f \in RouteFolders :
              [s EXCEPT !.folder = f, !.page = 1, !.thread = 0] \in {u \in RouteUrls : u.thread = 0}
        BY <2>2 DEF RouteUrls
      <4>7. \A n \in Nat :
              /\ [s EXCEPT !.q = n, !.page = 1, !.thread = 0] \in {u \in RouteUrls : u.thread = 0}
              /\ [s EXCEPT !.page = n, !.thread = 0] \in {u \in RouteUrls : u.thread = 0}
        BY <2>2 DEF RouteUrls
      <4>4. \A t \in {u \in Threads : Owner[u] = s.who} \cup {0} :
              [s EXCEPT !.thread = t] \in RouteUrls /\ InOwn([s EXCEPT !.thread = t])
        BY <2>2, RouteFacts DEF RouteUrls, InOwn, Threads
      <4>5. url' \in {u \in RouteUrls : u.thread = 0} \/ url' \in {u \in RouteUrls : InOwn(u)}
        <5>1. 0 .. 1 \subseteq Nat /\ 1 .. 2 \subseteq Nat
          OBVIOUS
        <5>2. PICK u : u = url'
          OBVIOUS
        <5>3. \/ \E f \in {"INBOX", "SENT"} : u = [s EXCEPT !.folder = Folder(s.who, f), !.page = 1, !.thread = 0]
              \/ \E n \in 0 .. 1 : u = [s EXCEPT !.q = n, !.page = 1, !.thread = 0]
              \/ \E n \in 1 .. 2 : u = [s EXCEPT !.page = n, !.thread = 0]
              \/ \E t \in {v \in Threads : Owner[v] = s.who} \cup {0} : u = [s EXCEPT !.thread = t]
          BY <3>1, <5>2 DEF Reduced
        <5>4. u \in {v \in RouteUrls : v.thread = 0} \/ (u \in RouteUrls /\ InOwn(u))
          <6>1. CASE \E f \in {"INBOX", "SENT"} : u = [s EXCEPT !.folder = Folder(s.who, f), !.page = 1, !.thread = 0]
            BY <4>1, <4>3, <6>1
          <6>2. CASE \/ \E n \in 0 .. 1 : u = [s EXCEPT !.q = n, !.page = 1, !.thread = 0]
                     \/ \E n \in 1 .. 2 : u = [s EXCEPT !.page = n, !.thread = 0]
            <7>1. PICK n \in Nat : \/ u = [s EXCEPT !.q = n, !.page = 1, !.thread = 0]
                                   \/ u = [s EXCEPT !.page = n, !.thread = 0]
              BY <5>1, <6>2
            <7>2. QED
              BY <4>7, <7>1
          <6>3. CASE \E t \in {v \in Threads : Owner[v] = s.who} \cup {0} : u = [s EXCEPT !.thread = t]
            BY <4>4, <6>3
          <6>4. QED
            BY <5>3, <6>1, <6>2, <6>3
        <5>5. QED
          BY <5>2, <5>4
      <4>6. QED
        BY <4>2, <4>5
    <3>3. QED
      BY <3>1, <3>2, UrlMoves
  <2>6. QED
    BY <2>3, <2>4, <2>5 DEF Effects
<1>7. CASE UNCHANGED routeVars
  BY <1>7 DEF routeVars, RouteInv, RouteTypes, Kept, Gone, Has, InOwn
<1>8. QED
  BY <1>1, <1>2, <1>3, <1>4, <1>5, <1>6, <1>7 DEF RouteNext

LEMMA RouteAlways == RouteSpec => []RouteInv
BY RouteStarts, RouteKeeps, PTL DEF RouteSpec

\* An opened thread is shown in the mailbox it is of, whichever effect replaces the URL first and
\* however late the addresses come.
THEOREM ShowsItsOwn == RouteSpec => []ShownIsIts
<1>1. RouteInv => ShownIsIts
  BY ResolvedInOwn DEF ShownIsIts, Shown, InOwn
<1>2. QED
  BY <1>1, RouteAlways, PTL

-----------------------------------------------------------------------------
(* The order of a thread. *)

OrderSpec == OrderInit /\ [][OrderNext]_orderVars

Spots == [note : Notes, parent : Notes \cup {0}, depth : Nat]
Visits == [note : Notes, depth : Nat]
Ups == [Notes -> Notes \cup {0}]

\* Two that answer the same, in the order they came.
Siblings(m, n) == parent[m] = parent[n] /\ Before(m, n)

\* What the headers say of a parent, and what is left of that.
Cutting == \A n \in Notes : parent[n] = link[n] \/ (parent[n] = 0 /\ Circles(link, n))
Rooted == \A n \in Notes : ~Circles(parent, n)

\* A note on its way to the layout at some depth is under one that is there already.
Under(n, depth, k) ==
  \/ parent[n] = 0 /\ depth = 0
  \/ \E j \in DOMAIN layout :
       j < k /\ layout[j].note = parent[n] /\ depth = layout[j].depth + 1

\* What is laid out: each once, after and under its parent, no sibling passed over.
LayoutFits ==
  /\ \A i, j \in DOMAIN layout : layout[i].note = layout[j].note => i = j
  /\ \A i \in DOMAIN layout : Under(layout[i].note, layout[i].depth, i)
  /\ \A i, j \in DOMAIN layout : Siblings(layout[i].note, layout[j].note) => i < j
  /\ \A m, n \in Notes : n \in Laid /\ Siblings(m, n) => m \in Laid
\* What is left to lay out: every answer to what is there, and every first message.
RestFits ==
  /\ \A i, j \in DOMAIN rest : rest[i].note = rest[j].note => i = j
  /\ \A i \in DOMAIN rest : rest[i].note \notin Laid
  /\ \A i \in DOMAIN rest : Under(rest[i].note, rest[i].depth, Len(layout) + 1)
  /\ \A i, j \in DOMAIN rest : Siblings(rest[i].note, rest[j].note) => i < j
  /\ \A n \in Notes : n \notin Laid /\ (parent[n] = 0 \/ parent[n] \in Laid)
       => \E i \in DOMAIN rest : rest[i].note = n

LinkPhase == phase = "link" /\ layout = << >> /\ rest = << >>
CutPhase ==
  /\ phase = "cut" /\ layout = << >> /\ rest \in Seq(Notes) /\ Cutting
  /\ \A n \in Notes : Circles(parent, n) => \E i \in DOMAIN rest : rest[i] = n
LayPhase ==
  /\ phase = "lay" /\ rest \in Seq(Visits) /\ Cutting /\ Rooted /\ LayoutFits /\ RestFits
LaidPhase == phase = "laid" /\ Cutting /\ LayoutFits /\ Laid = Notes

OrderInv ==
  /\ bundle \in Bundles /\ link \in Ups /\ parent \in Ups /\ layout \in Seq(Spots)
  /\ LinkPhase \/ CutPhase \/ LayPhase \/ LaidPhase

-----------------------------------------------------------------------------
\* A set of numbers has a least one.
LEMMA LeastNumber ==
  ASSUME NEW T, T \subseteq Nat, T # {} PROVE \E x \in T : \A y \in T : x <= y
<1>1. PICK R : R = OpToRel(<, Nat)
  OBVIOUS
<1>2. IsWellFoundedOn(R, Nat)
  BY <1>1, NatLessThanWellFounded
<1>3. PICK x \in T : \A y \in T : <<y, x>> \notin R
  BY <1>2, WFMin
<1>4. \A y \in Nat : y < x => <<y, x>> \in R
  BY <1>1 DEF OpToRel
<1>5. \A y \in T : x \in Nat /\ y \in Nat /\ ~(y < x)
  BY <1>3, <1>4
<1>6. \A y \in T : x <= y
  BY <1>5
<1>7. QED
  BY <1>6

\* chronologicalComparator orders the notes.
LEMMA BeforeOrders ==
  ASSUME bundle \in Bundles
  PROVE  /\ \A m, n \in Notes : m = n \/ Before(m, n) \/ Before(n, m)
         /\ \A m, n \in Notes : Before(m, n) => m # n /\ ~Before(n, m)
         /\ \A l, m, n \in Notes : Before(l, m) /\ Before(m, n) => Before(l, n)
<1>1. \A n \in Notes : n \in Nat /\ bundle[n].at \in Nat
  BY OrderAssumption
<1>2. QED
  BY <1>1 DEF Before

\* One of some notes is the newest.
LEMMA NewestIs ==
  ASSUME bundle \in Bundles, NEW S, S \subseteq Notes, S # {}
  PROVE  Newest(S) \in S /\ \A m \in S \ {Newest(S)} : Before(m, Newest(S))
<1>1. PICK Top : Top = [X \in SUBSET Notes |-> \E n \in X : \A m \in X \ {n} : Before(m, n)]
  OBVIOUS
<1>2. SUFFICES Top[S]
  BY <1>1 DEF Newest
<1>3. PICK Bad : Bad = {k \in Nat : \E X \in SUBSET Notes : X # {} /\ Cardinality(X) = k /\ ~Top[X]}
  OBVIOUS
<1>4. SUFFICES ASSUME ~Top[S] PROVE FALSE
  OBVIOUS
<1>5. \A X \in SUBSET Notes : IsFiniteSet(X) /\ Cardinality(X) \in Nat
  BY OrderAssumption, FS_Subset, FS_CardinalityType
<1>6. Cardinality(S) \in Bad
  BY <1>3, <1>4, <1>5
<1>7. PICK k \in Bad : \A j \in Bad : k <= j
  BY <1>3, <1>6, LeastNumber
<1>8. PICK X \in SUBSET Notes : X # {} /\ Cardinality(X) = k /\ ~Top[X]
  BY <1>3, <1>7
<1>9. PICK x \in X : TRUE
  BY <1>8
<1>10. PICK Y : Y = X \ {x}
  OBVIOUS
<1>11. Y \in SUBSET Notes /\ Cardinality(Y) \in Nat /\ Cardinality(Y) < k
  BY <1>5, <1>8, <1>9, <1>10, FS_RemoveElement
<1>12. Cardinality(Y) \notin Bad
  BY <1>3, <1>7, <1>11
<1>13. CASE Y = {}
  BY <1>1, <1>8, <1>9, <1>10, <1>13
<1>14. CASE Y # {}
  <2>1. Top[Y]
    BY <1>3, <1>11, <1>12, <1>14
  <2>2. PICK y \in Y : \A m \in Y \ {y} : Before(m, y)
    BY <1>1, <1>11, <2>1
  <2>3. x \in Notes /\ y \in Notes /\ x # y
    BY <1>9, <1>10, <1>11, <2>2
  <2>4. CASE Before(x, y)
    BY <1>1, <1>8, <1>10, <2>2, <2>4
  <2>5. CASE Before(y, x)
    <3>1. \A m \in X \ {x} : Before(m, x)
      BY <1>10, <1>11, <2>2, <2>3, <2>5, BeforeOrders
    <3>2. QED
      BY <1>1, <1>8, <1>9, <3>1
  <2>6. QED
    BY <2>3, <2>4, <2>5, BeforeOrders
<1>15. QED
  BY <1>13, <1>14

\* Some notes can be sorted.
LEMMA SortsExist ==
  ASSUME bundle \in Bundles, NEW S, S \subseteq Notes
  PROVE  \E s \in [1 .. Cardinality(S) -> S] : \A i, j \in DOMAIN s : i < j => Before(s[i], s[j])
<1>1. PICK Sorts : Sorts = [X \in SUBSET Notes |->
        \E s \in [1 .. Cardinality(X) -> X] : \A i, j \in DOMAIN s : i < j => Before(s[i], s[j])]
  OBVIOUS
<1>2. PICK Bad : Bad = {k \in Nat : \E X \in SUBSET Notes : Cardinality(X) = k /\ ~Sorts[X]}
  OBVIOUS
<1>3. SUFFICES ASSUME ~Sorts[S] PROVE FALSE
  BY <1>1
<1>4. \A X \in SUBSET Notes : IsFiniteSet(X) /\ Cardinality(X) \in Nat
  BY OrderAssumption, FS_Subset, FS_CardinalityType
<1>5. Cardinality(S) \in Bad
  BY <1>2, <1>3, <1>4
<1>6. PICK k \in Bad : \A j \in Bad : k <= j
  BY <1>2, <1>5, LeastNumber
<1>7. PICK X \in SUBSET Notes : Cardinality(X) = k /\ ~Sorts[X]
  BY <1>2, <1>6
<1>8. CASE X = {}
  <2>1. Cardinality(X) = 0 /\ 1 .. 0 = {}
    BY <1>8, FS_EmptySet
  <2>2. PICK s : s = [i \in 1 .. 0 |-> 0]
    OBVIOUS
  <2>3. s \in [1 .. Cardinality(X) -> X] /\ \A i, j \in DOMAIN s : i < j => Before(s[i], s[j])
    BY <2>1, <2>2
  <2>4. QED
    BY <1>1, <1>7, <2>3
<1>9. CASE X # {}
  <2>1. PICK x \in X : \A m \in X \ {x} : Before(m, x)
    BY <1>9, NewestIs
  <2>2. PICK Y : Y = X \ {x}
    OBVIOUS
  <2>3. Y \in SUBSET Notes /\ Cardinality(Y) \in Nat /\ k \in Nat /\ k = Cardinality(Y) + 1
    BY <1>4, <1>7, <2>1, <2>2, FS_RemoveElement
  <2>4. Cardinality(Y) \notin Bad
    BY <1>6, <2>3
  <2>5. Sorts[Y]
    BY <1>2, <2>3, <2>4
  <2>6. PICK c : c = Cardinality(Y)
    OBVIOUS
  <2>7. PICK t \in [1 .. c -> Y] : \A i, j \in 1 .. c : i < j => Before(t[i], t[j])
    BY <1>1, <2>3, <2>5, <2>6
  <2>8. PICK s : s = [i \in 1 .. k |-> IF i = k THEN x ELSE t[i]]
    OBVIOUS
  <2>9. \A i \in 1 .. k : i # k => i \in 1 .. c
    BY <2>3, <2>6
  <2>10. s \in [1 .. k -> X]
    BY <2>1, <2>2, <2>7, <2>8, <2>9
  <2>11. ASSUME NEW i \in 1 .. k, NEW j \in 1 .. k, i < j PROVE Before(s[i], s[j])
    <3>1. i # k /\ i \in 1 .. c
      BY <2>3, <2>9, <2>11
    <3>2. i # k /\ i \in 1 .. c /\ s[i] = t[i] /\ t[i] \in X \ {x}
      BY <2>2, <2>7, <2>8, <3>1
    <3>3. CASE j = k
      BY <2>1, <2>8, <3>2, <3>3
    <3>4. CASE j # k
      BY <2>7, <2>8, <2>9, <2>11, <3>2, <3>4
    <3>5. QED
      BY <3>3, <3>4
  <2>12. QED
    BY <1>1, <1>7, <2>10, <2>11
<1>10. QED
  BY <1>8, <1>9

\* What sort makes of some notes: each of them once, in chronological order.
LEMMA SortedIs ==
  ASSUME bundle \in Bundles, NEW S, S \subseteq Notes
  PROVE  /\ Sorted(S) \in Seq(S)
         /\ \A i, j \in DOMAIN Sorted(S) : Before(Sorted(S)[i], Sorted(S)[j]) <=> i < j
         /\ \A i, j \in DOMAIN Sorted(S) : Sorted(S)[i] = Sorted(S)[j] => i = j
         /\ \A n \in S : \E i \in DOMAIN Sorted(S) : Sorted(S)[i] = n
<1>1. PICK c, s : c = Cardinality(S) /\ s = Sorted(S)
  OBVIOUS
<1>2. IsFiniteSet(S) /\ c \in Nat
  BY <1>1, OrderAssumption, FS_Subset, FS_CardinalityType
<1>3. s \in [1 .. c -> S] /\ \A i, j \in 1 .. c : i < j => Before(s[i], s[j])
  BY <1>1, SortsExist DEF Sorted
<1>4. \A i, j \in 1 .. c : s[i] = s[j] => i = j
  <2>1. SUFFICES ASSUME NEW i \in 1 .. c, NEW j \in 1 .. c, s[i] = s[j], i # j PROVE FALSE
    OBVIOUS
  <2>2. i < j \/ j < i
    BY <2>1
  <2>3. s[i] \in Notes /\ s[j] \in Notes
    BY <1>3
  <2>4. QED
    BY <1>3, <2>1, <2>2, <2>3, BeforeOrders
<1>5. \A i, j \in 1 .. c : Before(s[i], s[j]) <=> i < j
  <2>1. SUFFICES ASSUME NEW i \in 1 .. c, NEW j \in 1 .. c, Before(s[i], s[j]), ~(i < j) PROVE FALSE
    BY <1>3
  <2>2. i = j \/ j < i
    BY <2>1
  <2>3. s[i] \in Notes /\ s[j] \in Notes
    BY <1>3
  <2>4. QED
    BY <1>3, <2>1, <2>2, <2>3, BeforeOrders
<1>6. s \in Injection(1 .. c, S)
  BY <1>3, <1>4 DEF Injection, IsInjective
<1>7. Cardinality(1 .. c) = c
  BY <1>2, FS_Interval
<1>8. s \in Surjection(1 .. c, S)
  BY <1>1, <1>2, <1>6, <1>7, FS_Injection
<1>9. \A n \in S : \E i \in 1 .. c : s[i] = n
  BY <1>8 DEF Surjection
<1>10. DOMAIN s = 1 .. c /\ s \in Seq(S)
  BY <1>2, <1>3
<1>11. QED
  BY <1>1, <1>4, <1>5, <1>9, <1>10

\* The parent that the headers give a note is one of the notes, or none.
LEMMA ParentIs ==
  ASSUME bundle \in Bundles, NEW n \in Notes PROVE ParentOf(n) \in Notes \cup {0}
<1>1. ASSUME NEW id PROVE BestParent(n, id) \in Notes \cup {0}
  <2>1. PICK all : all = Bearers(id) \ {n}
    OBVIOUS
  <2>2. PICK old : old = {m \in all : bundle[m].at <= bundle[n].at}
    OBVIOUS
  <2>3. all \subseteq Notes /\ old \subseteq Notes
    BY <2>1, <2>2 DEF Bearers
  <2>4. old # {} => Newest(old) \in Notes
    BY <2>3, NewestIs
  <2>5. all # {} => Newest(all) \in Notes
    BY <2>3, NewestIs
  <2>6. BestParent(n, id) = IF all = {} THEN 0 ELSE Newest(IF old # {} THEN old ELSE all)
    BY <2>1, <2>2 DEF BestParent
  <2>7. QED
    BY <2>4, <2>5, <2>6
<1>2. QED
  BY <1>1 DEF ParentOf

-----------------------------------------------------------------------------
\* A circle that is left when circles have been cut was in the headers.
LEMMA CirclesWere ==
  ASSUME Cutting, NEW n \in Notes, Circles(parent, n) PROVE Circles(link, n)
<1>1. PICK S \in SUBSET Notes : n \in S /\ \A m \in S : parent[m] \in S
  BY DEF Circles
<1>2. 0 \notin S
  BY <1>1, OrderAssumption
<1>3. \A m \in S : link[m] \in S
  BY <1>1, <1>2 DEF Cutting
<1>4. QED
  BY <1>1, <1>3 DEF Circles

LEMMA OrderStarts == OrderInit => OrderInv
<1>1. SUFFICES ASSUME OrderInit PROVE OrderInv
  OBVIOUS
<1>2. bundle \in Bundles /\ link \in Ups /\ parent \in Ups /\ layout \in Seq(Spots)
  BY <1>1 DEF OrderInit, Ups
<1>3. LinkPhase
  BY <1>1 DEF OrderInit, LinkPhase
<1>4. QED
  BY <1>2, <1>3 DEF OrderInv

\* One lemma to an action.
LEMMA LinksKeeps == OrderInv /\ Links => OrderInv'
<1>1. SUFFICES ASSUME OrderInv, Links PROVE OrderInv'
  OBVIOUS
<1>2. phase = "link" /\ layout = << >> /\ bundle \in Bundles
  BY <1>1 DEF OrderInv, Links, LinkPhase, CutPhase, LayPhase, LaidPhase
<1>3. bundle' = bundle /\ layout' = << >> /\ phase' = "cut" /\ parent' = link'
  BY <1>1, <1>2 DEF Links
<1>4. \A n \in Notes : ParentOf(n) \in Notes \cup {0}
  BY <1>2, ParentIs
<1>5. link' \in Ups
  BY <1>1, <1>4 DEF Links, Ups
<1>6. rest' \in Seq(Notes) /\ \A n \in Notes : \E i \in DOMAIN rest' : rest'[i] = n
  <2>1. rest' = Sorted(Notes)
    BY <1>1 DEF Links
  <2>2. QED
    BY <1>2, <2>1, SortedIs
<1>7. Cutting'
  BY <1>3 DEF Cutting
<1>8. CutPhase'
  BY <1>3, <1>6, <1>7 DEF CutPhase
<1>9. layout' \in Seq(Spots)
  BY <1>3
<1>10. QED
  BY <1>2, <1>3, <1>5, <1>8, <1>9 DEF OrderInv

LEMMA CutsKeeps == OrderInv /\ Cuts => OrderInv'
<1>1. SUFFICES ASSUME OrderInv, Cuts PROVE OrderInv'
  OBVIOUS
<1>2. CutPhase /\ rest # << >>
  BY <1>1 DEF OrderInv, Cuts, LinkPhase, CutPhase, LayPhase, LaidPhase
<1>3. bundle \in Bundles /\ link \in Ups /\ parent \in Ups /\ layout \in Seq(Spots)
  BY <1>1 DEF OrderInv
<1>4. UNCHANGED <<bundle, phase, link, layout>> /\ rest' = Tail(rest)
  BY <1>1 DEF Cuts
<1>5. PICK h \in Notes : h = Head(rest) /\ h = rest[1]
  BY <1>2 DEF CutPhase
<1>6. parent' = IF Circles(parent, h) THEN [parent EXCEPT ![h] = 0] ELSE parent
  BY <1>1, <1>5 DEF Cuts
<1>7. parent' \in Ups
  BY <1>3, <1>6 DEF Ups
<1>8. \A m \in Notes : m # h => parent'[m] = parent[m]
  BY <1>3, <1>6 DEF Ups
<1>9. Circles(parent, h) => parent'[h] = 0
  BY <1>3, <1>6 DEF Ups
<1>10. ~Circles(parent, h) => parent' = parent
  BY <1>6
<1>11. Cutting'
  <2>1. SUFFICES ASSUME NEW n \in Notes PROVE parent'[n] = link[n] \/ (parent'[n] = 0 /\ Circles(link, n))
    BY <1>4 DEF Cutting
  <2>2. CASE n = h /\ Circles(parent, h)
    BY <1>2, <1>9, <2>2, CirclesWere DEF CutPhase
  <2>3. CASE ~(n = h /\ Circles(parent, h))
    BY <1>2, <1>8, <1>10, <2>3 DEF CutPhase, Cutting
  <2>4. QED
    BY <2>2, <2>3
<1>12. ASSUME NEW n \in Notes, Circles(parent', n) PROVE Circles(parent, n) /\ n # h
  <2>1. PICK S \in SUBSET Notes : n \in S /\ \A m \in S : parent'[m] \in S
    BY <1>12 DEF Circles
  <2>2. 0 \notin S
    BY <2>1, OrderAssumption
  <2>3. \A m \in S : parent[m] \in S
    BY <1>8, <1>9, <1>10, <2>1, <2>2
  <2>4. Circles(parent, n)
    BY <2>1, <2>3 DEF Circles
  <2>5. n # h
    BY <1>9, <2>1, <2>2, <2>4
  <2>6. QED
    BY <2>4, <2>5
<1>13. rest' \in Seq(Notes)
  BY <1>2, <1>4 DEF CutPhase
<1>14. ASSUME NEW n \in Notes, Circles(parent', n) PROVE \E i \in DOMAIN rest' : rest'[i] = n
  <2>1. Circles(parent, n) /\ n # h
    BY <1>12, <1>14
  <2>2. PICK i \in DOMAIN rest : rest[i] = n
    BY <1>2, <2>1 DEF CutPhase
  <2>3. rest \in Seq(Notes) /\ i \in 1 .. Len(rest) /\ i # 1
    BY <1>2, <1>5, <2>1, <2>2 DEF CutPhase
  <2>4. i - 1 \in DOMAIN rest' /\ rest'[i - 1] = n
    BY <1>2, <1>4, <2>2, <2>3
  <2>5. QED
    BY <2>4
<1>15. CutPhase'
  BY <1>2, <1>4, <1>11, <1>13, <1>14 DEF CutPhase
<1>16. QED
  BY <1>3, <1>4, <1>7, <1>15 DEF OrderInv

-----------------------------------------------------------------------------
\* What is laid out of the answers of a note, or of the first messages: each of them once,
\* in the order they came.
InOrder(r, S, depth) ==
  /\ r \in Seq(Visits)
  /\ \A i \in DOMAIN r : r[i].note \in S /\ r[i].depth = depth
  /\ \A i, j \in DOMAIN r : Before(r[i].note, r[j].note) <=> i < j
  /\ \A i, j \in DOMAIN r : r[i].note = r[j].note => i = j
  /\ \A n \in S : \E i \in DOMAIN r : r[i].note = n
LEMMA LayingIs ==
  ASSUME bundle \in Bundles, NEW S, S \subseteq Notes, NEW d \in Nat PROVE InOrder(Laying(S, d), S, d)
<1>1. PICK r : r = Laying(S, d)
  OBVIOUS
<1>2. PICK s : s = Sorted(S)
  OBVIOUS
<1>3. s \in Seq(S)
  BY <1>2, SortedIs
<1>4. r = [i \in DOMAIN s |-> [note |-> s[i], depth |-> d]]
  BY <1>1, <1>2 DEF Laying
<1>5. DOMAIN r = DOMAIN s /\ \A i \in DOMAIN s : r[i].note = s[i] /\ r[i].depth = d /\ s[i] \in S
  BY <1>3, <1>4
<1>6. r \in Seq(Visits)
  <2>1. r \in [1 .. Len(s) -> Visits]
    BY <1>3, <1>4 DEF Visits
  <2>2. QED
    BY <1>3, <2>1
<1>7. /\ \A i, j \in DOMAIN s : Before(s[i], s[j]) <=> i < j
      /\ \A i, j \in DOMAIN s : s[i] = s[j] => i = j
      /\ \A n \in S : \E i \in DOMAIN s : s[i] = n
  BY <1>2, SortedIs
<1>8. \A i, j \in DOMAIN r : Before(r[i].note, r[j].note) <=> i < j
  BY <1>5, <1>7
<1>9. \A i, j \in DOMAIN r : r[i].note = r[j].note => i = j
  BY <1>5, <1>7
<1>10. \A n \in S : \E i \in DOMAIN r : r[i].note = n
  BY <1>5, <1>7
<1>11. InOrder(r, S, d)
  BY <1>5, <1>6, <1>8, <1>9, <1>10 DEF InOrder
<1>12. QED
  BY <1>1, <1>11

LEMMA RootsKeeps == OrderInv /\ Roots => OrderInv'
<1>1. SUFFICES ASSUME OrderInv, Roots PROVE OrderInv'
  OBVIOUS
<1>2. CutPhase /\ rest = << >>
  BY <1>1 DEF OrderInv, Roots, LinkPhase, CutPhase, LayPhase, LaidPhase
<1>3. bundle \in Bundles /\ link \in Ups /\ parent \in Ups /\ layout = << >>
  BY <1>1, <1>2 DEF OrderInv, CutPhase
<1>4. UNCHANGED <<bundle, link, parent, layout>> /\ phase' = "lay" /\ rest' = Laying(Children(0), 0)
  BY <1>1 DEF Roots
<1>5. PICK S : S = Children(0)
  OBVIOUS
<1>6. S = {n \in Notes : parent[n] = 0}
  BY <1>5 DEF Children
<1>7. bundle \in Bundles /\ S \subseteq Notes /\ 0 \in Nat
  BY <1>3, <1>6
<1>8. PICK r : r = rest'
  OBVIOUS
<1>9. r = Laying(S, 0)
  BY <1>4, <1>5, <1>8
<1>10. InOrder(r, S, 0)
  BY <1>7, <1>9, LayingIs
<1>11. /\ r \in Seq(Visits)
       /\ \A i \in DOMAIN r : r[i].note \in S /\ r[i].depth = 0
       /\ \A i, j \in DOMAIN r : Before(r[i].note, r[j].note) <=> i < j
       /\ \A i, j \in DOMAIN r : r[i].note = r[j].note => i = j
       /\ \A n \in S : \E i \in DOMAIN r : r[i].note = n
  BY <1>10 DEF InOrder
<1>12. Rooted
  BY <1>2 DEF CutPhase, Rooted
<1>13. Laid = {} /\ Laid' = {} /\ layout' = << >>
  BY <1>3, <1>4 DEF Laid
<1>14. LayoutFits'
  BY <1>13 DEF LayoutFits
<1>15. RestFits'
  <2>1. \A m, n \in Notes : Siblings(m, n)' <=> Siblings(m, n)
    BY <1>4 DEF Siblings, Before
  <2>2. \A i, j \in DOMAIN r : Siblings(r[i].note, r[j].note) => i < j
    BY <1>11 DEF Siblings
  <2>3. \A i \in DOMAIN r : Under(r[i].note, r[i].depth, Len(layout) + 1)'
    BY <1>4, <1>6, <1>8, <1>11 DEF Under
  <2>4. \A n \in Notes : parent'[n] = 0 => \E i \in DOMAIN r : r[i].note = n
    BY <1>4, <1>6, <1>11
  <2>5. \A i, j \in DOMAIN r : Siblings(r[i].note, r[j].note)' => i < j
    <3>1. \A i \in DOMAIN r : r[i].note \in Notes
      BY <1>6, <1>11
    <3>2. QED
      BY <2>1, <2>2, <3>1
  <2>6. QED
    BY <1>8, <1>11, <1>13, <2>3, <2>4, <2>5 DEF RestFits
<1>16. Cutting' /\ Rooted' /\ rest' \in Seq(Visits)
  BY <1>2, <1>4, <1>8, <1>11, <1>12 DEF CutPhase, Cutting, Rooted
<1>17. LayPhase'
  BY <1>4, <1>14, <1>15, <1>16 DEF LayPhase
<1>18. QED
  BY <1>3, <1>4, <1>17 DEF OrderInv

\* When nothing is left to visit everything has been: what has not would be in a circle.
LEMMA NoneForgotten ==
  ASSUME parent \in Ups, Rooted, RestFits, Laid # Notes, Laid \subseteq Notes PROVE rest # << >>
<1>1. SUFFICES ASSUME rest = << >> PROVE FALSE
  OBVIOUS
<1>2. PICK S : S = Notes \ Laid
  OBVIOUS
<1>3. PICK n \in S : TRUE
  BY <1>2
<1>4. DOMAIN rest = {}
  BY <1>1
<1>5. \A m \in S : parent[m] # 0 /\ parent[m] \notin Laid
  BY <1>2, <1>4 DEF RestFits
<1>6. \A m \in S : parent[m] \in S
  BY <1>2, <1>5 DEF Ups
<1>7. Circles(parent, n)
  BY <1>2, <1>3, <1>6 DEF Circles
<1>8. QED
  BY <1>2, <1>3, <1>7 DEF Rooted

\* A visit: the note goes to the end of the layout, its answers before what was left.
LEMMA VisitIs ==
  ASSUME NEW L \in Seq(Spots), NEW v \in Spots, NEW M, M = Append(L, v),
         NEW kids \in Seq(Visits), NEW R \in Seq(Visits), R # << >>,
         NEW more, more = kids \o Tail(R)
  PROVE  /\ M \in Seq(Spots) /\ Len(M) = Len(L) + 1 /\ M[Len(L) + 1] = v
         /\ \A i \in 1 .. Len(L) : M[i] = L[i]
         /\ more \in Seq(Visits) /\ Len(more) = Len(kids) + Len(R) - 1
         /\ \A i \in 1 .. Len(kids) : more[i] = kids[i]
         /\ \A i \in 2 .. Len(R) : more[Len(kids) + i - 1] = R[i]
<1>1. Tail(R) \in Seq(Visits) /\ Len(Tail(R)) = Len(R) - 1 /\ \A i \in 2 .. Len(R) : Tail(R)[i - 1] = R[i]
  OBVIOUS
<1>2. M \in Seq(Spots) /\ Len(M) = Len(L) + 1 /\ M[Len(L) + 1] = v
  OBVIOUS
<1>3. \A i \in 1 .. Len(L) : M[i] = L[i]
  OBVIOUS
<1>4. more \in Seq(Visits) /\ Len(more) = Len(kids) + Len(R) - 1
  BY <1>1
<1>5. \A i \in 1 .. Len(kids) : more[i] = kids[i]
  BY <1>1
<1>6. \A i \in 2 .. Len(R) : more[Len(kids) + i - 1] = R[i]
  BY <1>1
<1>7. QED
  BY <1>2, <1>3, <1>4, <1>5, <1>6

LEMMA LaysKeeps == OrderInv /\ Lays => OrderInv'
<1>1. SUFFICES ASSUME OrderInv, Lays PROVE OrderInv'
  OBVIOUS
<1>2. LayPhase
  BY <1>1 DEF OrderInv, Lays, LinkPhase, CutPhase, LayPhase, LaidPhase
<1>3. bundle \in Bundles /\ link \in Ups /\ parent \in Ups /\ layout \in Seq(Spots) /\ rest \in Seq(Visits)
  BY <1>1, <1>2 DEF OrderInv, LayPhase
<1>4. Cutting /\ Rooted /\ LayoutFits /\ RestFits
  BY <1>2 DEF LayPhase
<1>5. UNCHANGED <<bundle, phase, link, parent>> /\ Laid # Notes
  BY <1>1 DEF Lays
<1>6. PICK k \in Nat : k = Len(layout) /\ DOMAIN layout = 1 .. k
  BY <1>3
<1>7. Laid \subseteq Notes /\ \A i \in 1 .. k : layout[i].note \in Notes
  <2>1. \A i \in 1 .. k : layout[i] \in Spots
    BY <1>3, <1>6
  <2>2. \A v \in Spots : v.note \in Notes
    BY DEF Spots
  <2>3. \A i \in 1 .. k : layout[i].note \in Notes
    BY <2>1, <2>2
  <2>4. QED
    BY <1>6, <2>3 DEF Laid
<1>8. rest # << >>
  BY <1>3, <1>4, <1>5, <1>7, NoneForgotten
<1>9. PICK x \in Notes, d \in Nat : x = rest[1].note /\ d = rest[1].depth
  <2>1. rest[1] \in Visits
    BY <1>3, <1>8
  <2>2. rest[1].note \in Notes /\ rest[1].depth \in Nat
    BY <2>1 DEF Visits
  <2>3. QED
    BY <2>2
<1>10. 1 \in DOMAIN rest /\ Head(rest) = rest[1]
  BY <1>3, <1>8
<1>11. x \notin Laid /\ Under(x, d, k + 1)
  BY <1>4, <1>6, <1>9, <1>10 DEF RestFits
<1>12. PICK v : v = [note |-> x, parent |-> parent[x], depth |-> d]
  OBVIOUS
<1>13. PICK S, kids : S = Children(x) /\ kids = Laying(S, d + 1)
  OBVIOUS
<1>14. layout' = Append(layout, v) /\ rest' = kids \o Tail(rest)
  BY <1>1, <1>8, <1>9, <1>10, <1>11, <1>12, <1>13 DEF Lays
<1>15. S = {n \in Notes : parent[n] = x}
  BY <1>13 DEF Children
<1>16. S \subseteq Notes /\ d + 1 \in Nat
  BY <1>9, <1>15
<1>17. InOrder(kids, S, d + 1)
  BY <1>3, <1>13, <1>16, LayingIs
<1>18. /\ kids \in Seq(Visits)
       /\ \A i \in DOMAIN kids : kids[i].note \in Notes /\ parent[kids[i].note] = x /\ kids[i].depth = d + 1
       /\ \A i, j \in DOMAIN kids : Before(kids[i].note, kids[j].note) <=> i < j
       /\ \A i, j \in DOMAIN kids : kids[i].note = kids[j].note => i = j
       /\ \A n \in Notes : parent[n] = x => \E i \in DOMAIN kids : kids[i].note = n
  BY <1>15, <1>17 DEF InOrder
<1>19. v \in Spots
  BY <1>3, <1>9, <1>12 DEF Spots, Ups
<1>20. PICK L, R : L = layout' /\ R = rest'
  OBVIOUS
<1>21. PICK a \in Nat, b \in Nat : a = Len(kids) /\ b = Len(rest)
  BY <1>3, <1>18
<1>22. /\ L \in Seq(Spots) /\ Len(L) = k + 1 /\ L[k + 1] = v
       /\ \A i \in 1 .. k : L[i] = layout[i]
       /\ R \in Seq(Visits) /\ Len(R) = a + b - 1
       /\ \A i \in 1 .. a : R[i] = kids[i]
       /\ \A i \in 2 .. b : R[a + i - 1] = rest[i]
  <2>1. L = Append(layout, v) /\ R = kids \o Tail(rest)
    BY <1>14, <1>20
  <2>2. QED
    BY <1>3, <1>6, <1>8, <1>18, <1>19, <1>21, <2>1, VisitIs
<1>23. b \in Nat \ {0} /\ DOMAIN rest = 1 .. b /\ DOMAIN kids = 1 .. a
  BY <1>3, <1>8, <1>18, <1>21
<1>24. DOMAIN L = 1 .. k + 1 /\ DOMAIN R = 1 .. a + b - 1
  BY <1>6, <1>21, <1>22, <1>23
\* Each that is left is an answer of the note, or was left before.
<1>25. \A i \in DOMAIN R : (i \in 1 .. a /\ R[i] = kids[i])
           \/ \E j \in 2 .. b : i = a + j - 1 /\ R[i] = rest[j]
  <2>1. SUFFICES ASSUME NEW i \in 1 .. a + b - 1, i \notin 1 .. a
        PROVE  \E j \in 2 .. b : i = a + j - 1 /\ R[i] = rest[j]
    BY <1>22, <1>24
  <2>2. i - a + 1 \in 2 .. b /\ i = a + (i - a + 1) - 1
    BY <1>21, <1>23, <2>1
  <2>3. QED
    BY <1>22, <2>2
<1>26. Laid' = Laid \cup {x}
  <2>1. Laid = {layout[i].note : i \in 1 .. k} /\ Laid' = {L[i].note : i \in 1 .. k + 1}
    BY <1>6, <1>20, <1>24 DEF Laid
  <2>2. \A i \in 1 .. k + 1 : i \in 1 .. k \/ i = k + 1
    BY <1>6
  <2>3. v.note = x /\ k + 1 \in 1 .. k + 1
    BY <1>6, <1>12
  <2>4. \A n \in Laid : n \in Laid'
    BY <1>22, <2>1
  <2>5. x \in Laid'
    BY <1>22, <2>1, <2>3
  <2>6. \A n \in Laid' : n \in Laid \cup {x}
    BY <1>22, <2>1, <2>2, <2>3
  <2>7. QED
    BY <2>4, <2>5, <2>6
<1>27. \A m, n \in Notes : Siblings(m, n)' <=> Siblings(m, n)
  BY <1>5 DEF Siblings, Before
<1>28. \A i \in 1 .. k : layout[i].note \in Notes /\ layout[i].note \in Laid /\ layout[i].note # x
  BY <1>3, <1>6, <1>7, <1>11 DEF Laid
<1>29. \A j \in 2 .. b : rest[j].note \in Notes /\ rest[j].note \notin Laid /\ rest[j].note # x
  <2>1. SUFFICES ASSUME NEW j \in 2 .. b
        PROVE  rest[j].note \in Notes /\ rest[j].note \notin Laid /\ rest[j].note # x
    OBVIOUS
  <2>2. j \in DOMAIN rest /\ 1 \in DOMAIN rest /\ j # 1
    BY <1>23, <2>1
  <2>3. rest[j] \in Visits
    BY <1>3, <2>2
  <2>4. rest[j].note \in Notes
    BY <2>3 DEF Visits
  <2>5. rest[j].note \notin Laid /\ rest[j].note # rest[1].note
    BY <1>4, <2>2 DEF RestFits
  <2>6. QED
    BY <1>9, <2>4, <2>5
\* What was left is under what was there, and not under the note.
<1>30. \A n, e, i : Under(n, e, i) => parent[n] = 0 \/ parent[n] \in Laid
  BY <1>6, <1>28 DEF Under
<1>31. \A j \in 2 .. b : Under(rest[j].note, rest[j].depth, k + 1)
  BY <1>4, <1>6, <1>23 DEF RestFits
<1>32. \A j \in 2 .. b : parent[rest[j].note] # x
  BY <1>9, <1>11, <1>30, <1>31, OrderAssumption
<1>33. parent[x] # x
  <2>1. SUFFICES ASSUME parent[x] = x PROVE FALSE
    OBVIOUS
  <2>2. {x} \in SUBSET Notes /\ x \in {x} /\ \A m \in {x} : parent[m] \in {x}
    BY <1>9, <2>1
  <2>3. Circles(parent, x)
    BY <2>2 DEF Circles
  <2>4. QED
    BY <1>4, <1>9, <2>3 DEF Rooted
<1>34. LayoutFits'
  <2>1. ASSUME NEW i \in 1 .. k + 1, NEW j \in 1 .. k + 1, L[i].note = L[j].note PROVE i = j
    <3>1. v.note = x
      BY <1>12
    <3>2. (i \in 1 .. k \/ i = k + 1) /\ (j \in 1 .. k \/ j = k + 1)
      BY <1>6
    <3>3. CASE i \in 1 .. k /\ j \in 1 .. k
      BY <1>4, <1>6, <1>22, <2>1, <3>3 DEF LayoutFits
    <3>4. CASE ~(i \in 1 .. k /\ j \in 1 .. k)
      BY <1>22, <1>28, <2>1, <3>1, <3>2, <3>4
    <3>5. QED
      BY <3>3, <3>4
  <2>2. ASSUME NEW i \in 1 .. k + 1 PROVE Under(L[i].note, L[i].depth, i)'
    <3>1. CASE i \in 1 .. k
      <4>1. Under(layout[i].note, layout[i].depth, i) /\ L[i] = layout[i] /\ i <= k /\ i \in Nat
        BY <1>4, <1>6, <1>22, <3>1 DEF LayoutFits
      <4>2. CASE parent[L[i].note] = 0 /\ L[i].depth = 0
        BY <1>5, <1>20, <4>2 DEF Under
      <4>3. CASE ~(parent[L[i].note] = 0 /\ L[i].depth = 0)
        <5>1. PICK j \in 1 .. k : j < i /\ layout[j].note = parent[L[i].note] /\ L[i].depth = layout[j].depth + 1
          BY <1>6, <4>1, <4>3 DEF Under
        <5>2. j \in 1 .. k + 1 /\ L[j] = layout[j]
          BY <1>6, <1>22, <5>1
        <5>3. QED
          BY <1>5, <1>20, <1>24, <5>1, <5>2 DEF Under
      <4>4. QED
        BY <4>2, <4>3
    <3>2. CASE i = k + 1
      <4>1. L[i].note = x /\ L[i].depth = d
        BY <1>12, <1>22, <3>2
      <4>2. CASE parent[x] = 0 /\ d = 0
        BY <1>5, <1>20, <4>1, <4>2 DEF Under
      <4>3. CASE ~(parent[x] = 0 /\ d = 0)
        <5>1. PICK j \in 1 .. k : j < k + 1 /\ layout[j].note = parent[x] /\ d = layout[j].depth + 1
          BY <1>6, <1>11, <4>3 DEF Under
        <5>2. j \in 1 .. k + 1 /\ L[j] = layout[j]
          BY <1>6, <1>22, <5>1
        <5>3. QED
          BY <1>5, <1>20, <1>24, <3>2, <4>1, <5>1, <5>2 DEF Under
      <4>4. QED
        BY <4>2, <4>3
    <3>3. QED
      BY <1>6, <3>1, <3>2
  <2>3. ASSUME NEW i \in 1 .. k + 1, NEW j \in 1 .. k + 1, Siblings(L[i].note, L[j].note) PROVE i < j
    <3>1. L[k + 1].note = x
      BY <1>12, <1>22
    <3>2. (i \in 1 .. k \/ i = k + 1) /\ (j \in 1 .. k \/ j = k + 1) /\ i \in Nat /\ j \in Nat
      BY <1>6
    <3>3. CASE i \in 1 .. k /\ j \in 1 .. k
      BY <1>4, <1>6, <1>22, <2>3, <3>3 DEF LayoutFits
    <3>4. CASE i = k + 1 /\ j \in 1 .. k
      <4>1. Siblings(x, layout[j].note) /\ layout[j].note \in Notes /\ layout[j].note \in Laid
        BY <1>22, <1>28, <2>3, <3>1, <3>4
      <4>2. x \in Laid
        BY <1>4, <1>9, <4>1 DEF LayoutFits
      <4>3. QED
        BY <1>11, <4>2
    <3>5. CASE i = k + 1 /\ j = k + 1
      <4>1. Before(x, x)
        BY <2>3, <3>1, <3>5 DEF Siblings
      <4>2. QED
        BY <1>3, <1>9, <4>1, BeforeOrders
    <3>6. QED
      BY <1>6, <3>2, <3>3, <3>4, <3>5
  <2>4. ASSUME NEW m \in Notes, NEW n \in Notes, n \in Laid \cup {x}, Siblings(m, n) PROVE m \in Laid \cup {x}
    <3>1. CASE n \in Laid
      BY <1>4, <2>4, <3>1 DEF LayoutFits
    <3>2. CASE n = x
      <4>1. parent[m] = 0 \/ parent[m] \in Laid
        BY <1>11, <1>30, <2>4, <3>2 DEF Siblings
      <4>2. SUFFICES ASSUME m \notin Laid PROVE FALSE
        OBVIOUS
      <4>3. PICK i \in 1 .. b : rest[i].note = m
        BY <1>4, <1>23, <4>1, <4>2 DEF RestFits
      <4>4. i < 1
        BY <1>4, <1>9, <1>10, <1>23, <2>4, <3>2, <4>3 DEF RestFits
      <4>5. QED
        BY <1>23, <4>4
    <3>3. QED
      BY <2>4, <3>1, <3>2
  <2>5. \A i, j \in 1 .. k + 1 : L[i].note \in Notes /\ L[j].note \in Notes
    <3>1. \A i \in 1 .. k + 1 : L[i] \in Spots
      BY <1>22, <1>24
    <3>2. \A w \in Spots : w.note \in Notes
      BY DEF Spots
    <3>3. QED
      BY <3>1, <3>2
  <2>6. \A i, j \in 1 .. k + 1 : Siblings(L[i].note, L[j].note)' => i < j
    BY <1>5, <1>20, <2>3 DEF Siblings, Before
  <2>7. \A m, n \in Notes : n \in Laid' /\ Siblings(m, n)' => m \in Laid'
    BY <1>26, <1>27, <2>4
  <2>8. QED
    BY <1>20, <1>24, <2>1, <2>2, <2>6, <2>7 DEF LayoutFits
<1>35. RestFits'
  <2>1. ASSUME NEW i \in DOMAIN R, NEW j \in DOMAIN R, R[i].note = R[j].note PROVE i = j
    <3>1. CASE i \in 1 .. a /\ j \in 1 .. a
      BY <1>18, <1>22, <1>23, <2>1, <3>1
    <3>2. CASE i \notin 1 .. a /\ j \notin 1 .. a
      <4>1. PICK p \in 2 .. b : i = a + p - 1 /\ R[i] = rest[p]
        BY <1>25, <3>2
      <4>2. PICK q \in 2 .. b : j = a + q - 1 /\ R[j] = rest[q]
        BY <1>25, <3>2
      <4>3. p \in 1 .. b /\ q \in 1 .. b /\ rest[p].note = rest[q].note
        BY <1>23, <2>1, <4>1, <4>2
      <4>4. p = q
        BY <1>4, <1>23, <4>3 DEF RestFits
      <4>5. QED
        BY <4>1, <4>2, <4>4
    <3>3. CASE i \in 1 .. a /\ j \notin 1 .. a
      <4>1. parent[R[i].note] = x
        BY <1>18, <1>22, <1>23, <3>3
      <4>2. parent[R[j].note] # x
        BY <1>25, <1>32, <3>3
      <4>3. QED
        BY <2>1, <4>1, <4>2
    <3>4. CASE i \notin 1 .. a /\ j \in 1 .. a
      <4>1. parent[R[j].note] = x
        BY <1>18, <1>22, <1>23, <3>4
      <4>2. parent[R[i].note] # x
        BY <1>25, <1>32, <3>4
      <4>3. QED
        BY <2>1, <4>1, <4>2
    <3>5. QED
      BY <3>1, <3>2, <3>3, <3>4
  <2>2. ASSUME NEW i \in DOMAIN R PROVE R[i].note \notin Laid'
    <3>1. CASE i \in 1 .. a
      <4>1. parent[R[i].note] = x /\ R[i].note \in Notes /\ R[i].note # x
        BY <1>18, <1>22, <1>23, <1>33, <3>1
      <4>2. R[i].note \notin Laid
        <5>1. SUFFICES ASSUME R[i].note \in Laid PROVE FALSE
          OBVIOUS
        <5>2. PICK j \in 1 .. k : layout[j].note = R[i].note
          BY <1>6, <5>1 DEF Laid
        <5>3. Under(layout[j].note, layout[j].depth, j)
          BY <1>4, <1>6, <5>2 DEF LayoutFits
        <5>4. x = 0 \/ x \in Laid
          BY <1>30, <4>1, <5>2, <5>3
        <5>5. QED
          BY <1>9, <1>11, <5>4, OrderAssumption
      <4>3. QED
        BY <1>26, <4>1, <4>2
    <3>2. CASE i \notin 1 .. a
      BY <1>25, <1>26, <1>29, <3>2
    <3>3. QED
      BY <3>1, <3>2
  <2>3. ASSUME NEW i \in DOMAIN R PROVE Under(R[i].note, R[i].depth, k + 2)'
    <3>1. CASE i \in 1 .. a
      <4>1. R[i].depth = d + 1 /\ parent[R[i].note] = x
        BY <1>18, <1>22, <1>23, <3>1
      <4>2. k + 1 \in 1 .. k + 1 /\ k + 1 < k + 2 /\ L[k + 1].note = x /\ L[k + 1].depth = d
        BY <1>6, <1>12, <1>22
      <4>3. QED
        BY <1>5, <1>20, <1>24, <4>1, <4>2 DEF Under
    <3>2. CASE i \notin 1 .. a
      <4>1. PICK p \in 2 .. b : R[i] = rest[p]
        BY <1>25, <3>2
      <4>2. Under(R[i].note, R[i].depth, k + 1)
        BY <1>31, <4>1
      <4>3. CASE parent[R[i].note] = 0 /\ R[i].depth = 0
        BY <1>5, <1>20, <4>3 DEF Under
      <4>4. CASE ~(parent[R[i].note] = 0 /\ R[i].depth = 0)
        <5>1. PICK j \in 1 .. k : layout[j].note = parent[R[i].note] /\ R[i].depth = layout[j].depth + 1
          BY <1>6, <4>2, <4>4 DEF Under
        <5>2. j \in 1 .. k + 1 /\ j < k + 2 /\ L[j] = layout[j]
          BY <1>6, <1>22, <5>1
        <5>3. QED
          BY <1>5, <1>20, <1>24, <5>1, <5>2 DEF Under
      <4>5. QED
        BY <4>3, <4>4
    <3>3. QED
      BY <3>1, <3>2
  <2>4. ASSUME NEW i \in DOMAIN R, NEW j \in DOMAIN R, Siblings(R[i].note, R[j].note) PROVE i < j
    <3>1. parent[R[i].note] = parent[R[j].note] /\ Before(R[i].note, R[j].note)
      BY <2>4 DEF Siblings
    <3>2. CASE i \in 1 .. a /\ j \in 1 .. a
      BY <1>18, <1>22, <1>23, <3>1, <3>2
    <3>3. CASE i \notin 1 .. a /\ j \notin 1 .. a
      <4>1. PICK p \in 2 .. b : i = a + p - 1 /\ R[i] = rest[p]
        BY <1>25, <3>3
      <4>2. PICK q \in 2 .. b : j = a + q - 1 /\ R[j] = rest[q]
        BY <1>25, <3>3
      <4>3. p \in 1 .. b /\ q \in 1 .. b /\ Siblings(rest[p].note, rest[q].note)
        BY <1>23, <2>4, <4>1, <4>2
      <4>4. p < q
        BY <1>4, <1>23, <4>3 DEF RestFits
      <4>5. QED
        BY <1>21, <4>1, <4>2, <4>4
    <3>4. CASE i \in 1 .. a /\ j \notin 1 .. a
      BY <1>18, <1>22, <1>23, <1>25, <1>32, <3>1, <3>4
    <3>5. CASE i \notin 1 .. a /\ j \in 1 .. a
      BY <1>18, <1>22, <1>23, <1>25, <1>32, <3>1, <3>5
    <3>6. QED
      BY <3>2, <3>3, <3>4, <3>5
  <2>5. ASSUME NEW n \in Notes, n \notin Laid \cup {x}, parent[n] = 0 \/ parent[n] \in Laid \cup {x}
        PROVE  \E i \in DOMAIN R : R[i].note = n
    <3>1. CASE parent[n] = x
      <4>1. PICK i \in 1 .. a : kids[i].note = n
        BY <1>18, <1>23, <3>1
      <4>2. i \in 1 .. a + b - 1 /\ R[i].note = n
        BY <1>21, <1>22, <1>23, <4>1
      <4>3. QED
        BY <1>24, <4>2
    <3>2. CASE parent[n] # x
      <4>1. PICK i \in 1 .. b : rest[i].note = n
        BY <1>4, <1>23, <2>5, <3>2 DEF RestFits
      <4>2. i \in 2 .. b
        BY <1>9, <1>23, <2>5, <4>1
      <4>3. a + i - 1 \in 1 .. a + b - 1 /\ R[a + i - 1].note = n
        <5>1. a + i - 1 \in 1 .. a + b - 1
          BY <1>21, <4>2
        <5>2. R[a + i - 1] = rest[i]
          BY <1>22, <4>2
        <5>3. QED
          BY <4>1, <5>1, <5>2
      <4>4. QED
        BY <1>24, <4>3
    <3>3. QED
      BY <3>1, <3>2
  <2>6. \A i, j \in DOMAIN R : Siblings(R[i].note, R[j].note)' => i < j
    BY <1>5, <1>20, <2>4 DEF Siblings, Before
  <2>7. Len(layout') + 1 = k + 2
    BY <1>6, <1>20, <1>22
  <2>8. \A n \in Notes : n \notin Laid' /\ (parent'[n] = 0 \/ parent'[n] \in Laid')
           => \E i \in DOMAIN R : R[i].note = n
    BY <1>5, <1>26, <2>5
  <2>9. QED
    BY <1>20, <2>1, <2>2, <2>3, <2>6, <2>7, <2>8 DEF RestFits
<1>36. Cutting' /\ Rooted' /\ rest' \in Seq(Visits) /\ layout' \in Seq(Spots)
  BY <1>4, <1>5, <1>20, <1>22 DEF Cutting, Rooted
<1>37. LayPhase'
  BY <1>2, <1>5, <1>34, <1>35, <1>36 DEF LayPhase
<1>38. QED
  BY <1>3, <1>5, <1>36, <1>37 DEF OrderInv

LEMMA FinishesKeeps == OrderInv /\ Finishes => OrderInv'
<1>1. SUFFICES ASSUME OrderInv, Finishes PROVE OrderInv'
  OBVIOUS
<1>2. LayPhase
  BY <1>1 DEF OrderInv, Finishes, LinkPhase, CutPhase, LayPhase, LaidPhase
<1>3. bundle \in Bundles /\ link \in Ups /\ parent \in Ups /\ layout \in Seq(Spots)
  BY <1>1 DEF OrderInv
<1>4. UNCHANGED <<bundle, link, parent, layout>> /\ phase' = "laid" /\ Laid = Notes
  BY <1>1 DEF Finishes
<1>5. Cutting' /\ LayoutFits' /\ Laid' = Notes
  BY <1>2, <1>4 DEF LayPhase, Cutting, LayoutFits, Under, Siblings, Before, Laid
<1>6. LaidPhase'
  BY <1>4, <1>5 DEF LaidPhase
<1>7. QED
  BY <1>3, <1>4, <1>6 DEF OrderInv

LEMMA OrderStays == OrderInv /\ UNCHANGED orderVars => OrderInv'
<1>1. SUFFICES ASSUME OrderInv, UNCHANGED orderVars PROVE OrderInv'
  OBVIOUS
<1>2. UNCHANGED <<bundle, phase, link, parent, rest, layout>>
  BY <1>1 DEF orderVars
<1>3. LinkPhase => LinkPhase'
  BY <1>2 DEF LinkPhase
<1>4. CutPhase => CutPhase'
  BY <1>2 DEF CutPhase, Cutting
<1>5. Laid' = Laid /\ (Cutting => Cutting') /\ (Rooted => Rooted')
  BY <1>2 DEF Laid, Cutting, Rooted
<1>6. LayoutFits => LayoutFits'
  BY <1>2, <1>5 DEF LayoutFits, Under, Siblings, Before
<1>7. RestFits => RestFits'
  BY <1>2, <1>5 DEF RestFits, Under, Siblings, Before
<1>8. (LayPhase => LayPhase') /\ (LaidPhase => LaidPhase')
  BY <1>2, <1>5, <1>6, <1>7 DEF LayPhase, LaidPhase
<1>9. QED
  BY <1>1, <1>2, <1>3, <1>4, <1>8 DEF OrderInv

LEMMA OrderAlways == OrderSpec => []OrderInv
<1>1. OrderInv /\ [OrderNext]_orderVars => OrderInv'
  BY LinksKeeps, CutsKeeps, RootsKeeps, LaysKeeps, FinishesKeeps, OrderStays DEF OrderNext
<1>2. QED
  BY <1>1, OrderStarts, PTL DEF OrderSpec

\* A layout that has every note once and fits has them in the order they are read in.
LEMMA OrderReads == OrderInv => ReadsInOrder
<1>1. SUFFICES ASSUME OrderInv, phase = "laid" PROVE ReadsInOrder
  BY DEF ReadsInOrder
<1>2. LaidPhase
  BY <1>1 DEF OrderInv, LinkPhase, CutPhase, LayPhase, LaidPhase
<1>3. link \in Ups /\ parent \in Ups /\ layout \in Seq(Spots) /\ Cutting /\ LayoutFits /\ Laid = Notes
  BY <1>1, <1>2 DEF OrderInv, LaidPhase
<1>4. PICK k \in Nat : k = Len(layout) /\ DOMAIN layout = 1 .. k
  BY <1>3
<1>5. \A i \in 1 .. k : layout[i].note \in Notes
  BY <1>3, <1>4 DEF Laid
<1>6. \A i, j \in 1 .. k : layout[i].note = layout[j].note => i = j
  BY <1>3, <1>4 DEF LayoutFits
<1>7. \A n \in Notes : \E i \in 1 .. k : layout[i].note = n
  BY <1>3, <1>4 DEF Laid
<1>8. Len(layout) = Cardinality(Notes)
  <2>1. PICK f : f = [i \in 1 .. k |-> layout[i].note]
    OBVIOUS
  <2>2. f \in Injection(1 .. k, Notes)
    BY <1>5, <1>6, <2>1 DEF Injection, IsInjective
  <2>3. f \in Surjection(1 .. k, Notes)
    BY <1>5, <1>7, <2>1 DEF Surjection
  <2>4. IsFiniteSet(1 .. k) /\ Cardinality(1 .. k) = k
    BY FS_Interval
  <2>5. Cardinality(Notes) = k
    BY <2>2, <2>3, <2>4, FS_Surjection
  <2>6. QED
    BY <1>4, <2>5
<1>9. \A n \in Notes : Place(n) \in 1 .. k /\ layout[Place(n)].note = n
  BY <1>4, <1>7 DEF Place
<1>10. \A i \in 1 .. k : Place(layout[i].note) = i
  BY <1>5, <1>6, <1>9
<1>11. ASSUME NEW n \in Notes, NEW p, p = parent[n]
       PROVE  /\ p = 0 => layout[Place(n)].depth = 0 /\ (link[n] = 0 \/ Circles(link, n))
              /\ p # 0 => p = link[n] /\ Place(p) < Place(n) /\ layout[Place(n)].depth = layout[Place(p)].depth + 1
              /\ \A m \in Notes : parent[m] = p /\ Before(m, n) => Place(m) < Place(n)
  <2>1. PICK i \in 1 .. k : i = Place(n) /\ layout[i].note = n
    BY <1>9
  <2>2. \/ p = 0 /\ layout[i].depth = 0
        \/ \E j \in 1 .. k : j < i /\ layout[j].note = p /\ layout[i].depth = layout[j].depth + 1
    BY <1>3, <1>4, <1>11, <2>1 DEF LayoutFits, Under
  <2>3. p = link[n] \/ (p = 0 /\ Circles(link, n))
    BY <1>3, <1>11 DEF Cutting
  <2>4. ASSUME p # 0
        PROVE  p = link[n] /\ Place(p) < Place(n) /\ layout[Place(n)].depth = layout[Place(p)].depth + 1
    <3>1. PICK j \in 1 .. k : j < i /\ layout[j].note = p /\ layout[i].depth = layout[j].depth + 1
      BY <2>2, <2>4
    <3>2. Place(p) = j
      BY <1>10, <3>1
    <3>3. QED
      BY <2>1, <2>3, <2>4, <3>1, <3>2
  <2>5. ASSUME NEW m \in Notes, parent[m] = p, Before(m, n) PROVE Place(m) < Place(n)
    <3>1. Siblings(layout[Place(m)].note, layout[Place(n)].note)
      BY <1>9, <1>11, <2>5 DEF Siblings
    <3>2. QED
      BY <1>3, <1>4, <1>9, <3>1 DEF LayoutFits
  <2>6. p = 0 => layout[Place(n)].depth = 0 /\ (link[n] = 0 \/ Circles(link, n))
    BY <1>5, <2>1, <2>2, <2>3, OrderAssumption
  <2>7. p # 0 => p = link[n] /\ Place(p) < Place(n) /\ layout[Place(n)].depth = layout[Place(p)].depth + 1
    BY <2>4
  <2>8. QED
    BY <2>5, <2>6, <2>7
<1>12. QED
  BY <1>8, <1>11 DEF ReadsInOrder

\* Whatever the headers of any number of messages say, each is laid out once, under and
\* after what it answers, brothers in the order they came (threading.ts:129-235).
THEOREM ThreadReads == OrderSpec => []ReadsInOrder
  BY OrderAlways, OrderReads, PTL
=============================================================================
