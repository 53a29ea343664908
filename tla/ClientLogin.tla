----------------------------- MODULE ClientLogin -----------------------------
(***************************************************************************)
(* One browser tab and its sign-in with the OIDC provider: the token kept  *)
(* in the tab's sessionStorage, the copy in memory that requests carry,    *)
(* the timer and the single refresh under way, the code that comes back in *)
(* the URL, the checks of the session that the guard and the login page    *)
(* make, a request that is refused, and the logout. A page load forgets    *)
(* everything but the storage.                                             *)
(*                                                                         *)
(* Sources: client/src/services/oidc.ts, services/api.ts, services/        *)
(* authRedirect.ts, views/LoginView.tsx, components/AppRoutes.tsx,         *)
(* main.tsx. The provider and the browser are external.                    *)
(***************************************************************************)
EXTENDS Naturals, FiniteSets

CONSTANT Tabs
  \* settings, one to a behaviour: [rotates : BOOLEAN (each refresh gives a new refresh token and
  \* voids the old one), offline : BOOLEAN (refresh tokens are given at all), leave : BOOLEAN
  \* (end_session_endpoint), days, slips, trips : Nat (bounds: steps of a token's age, failures,
  \* moves of the user outside the page)]

VARIABLES
  tab,      \* the setting
  view,     \* "boot", "exchange" (both in initOidcAuth), "failed", "app", "login", "leaving"
  place,    \* the URL: [at : "inbox", "login" or "provider", code : its code's request, 0 for none]
  held,     \* OIDC_STORAGE_KEY: [age, key (the refresh token; 0: none)]
  asked,    \* OIDC_STATE_KEY: the last request for a code; 0: none
  usable,   \* runtimeToken is set
  directory,\* discoveryPromise: "none", "waiting", "ok", "failed"
  flight,   \* refreshPromise, and a second place for a refresh that did not look at it
  alarm,    \* refreshTimer is set
  probing,  \* the guard or the login page waits for /api/session
  click,    \* a button's handler waits for the discovery: "none", "signin", "logout"
  grant,    \* provider: the refresh token it takes; 0: none
  codes,    \* provider: codes it gave out and has not taken back
  count,    \* requests for a code, refresh tokens, and what of the bounds is spent
  excuse,   \* history: since the sign-in something happened that costs the session
  farewell, \* history: signed out, and not asked to sign in since: "no", "yes", "late" (a
            \* refresh was under way)
  signed    \* history: a sign-in stored a refresh token

pageVars == <<view, place, held, asked, usable, directory, flight, alarm, probing, click>>
loginVars == <<tab, pageVars, grant, codes, count, excuse, farewell, signed>>

NoHold == [age |-> "none", key |-> 0]
NoFlight == [at |-> "none", key |-> 0]
Flying == {f \in 1 .. 2 : flight[f].at # "none"}
Url(at, code) == [at |-> at, code |-> code]
Spend(what) == count[what] < tab[what] /\ count' = [count EXCEPT ![what] = @ + 1]

\* A new tab, with nothing in its storage.
LoginInit ==
  /\ tab \in Tabs
  /\ view = "boot" /\ place = Url("inbox", 0) /\ held = NoHold /\ asked = 0 /\ usable = FALSE
  /\ directory = "none" /\ flight = [f \in 1 .. 2 |-> NoFlight] /\ alarm = FALSE
  /\ probing = FALSE /\ click = "none" /\ grant = 0 /\ codes = {}
  /\ count = [asks |-> 0, keys |-> 0, days |-> 0, slips |-> 0, trips |-> 0]
  /\ excuse = FALSE /\ farewell = "no" /\ signed = FALSE

-----------------------------------------------------------------------------
(* Page loads. *)

\* loadDiscoveryDocument: asked for once in a page, and a failure is kept as well.
Looked == IF directory = "none" THEN "waiting" ELSE directory

\* restoreToken: an expired token without a refresh token is of no use.
Restored == IF held.age = "expired" /\ held.key = 0 THEN NoHold ELSE held

\* A page is left, with what it waited for, and the next one starts: restoreToken, and
\* refreshTokenIfNeeded up to its first await.
Loads(url, trips) ==
  LET due == Restored.key # 0 /\ Restored.age # "fresh"
  IN  /\ view' = "boot" /\ place' = url
      /\ held' = Restored /\ usable' = (Restored # NoHold) /\ alarm' = (Restored.key # 0)
      /\ flight' = [f \in 1 .. 2 |-> IF due /\ f = 1 THEN [at |-> "directory", key |-> Restored.key] ELSE NoFlight]
      /\ directory' = IF due THEN "waiting" ELSE "none"
      /\ probing' = FALSE /\ click' = "none"
      /\ excuse' = (excuse \/ \E f \in 1 .. 2 : flight[f].at \in {"sent", "granted"})
      \* The provider may still get a refresh that was on its way.
      /\ \/ UNCHANGED grant /\ count' = [count EXCEPT !.trips = @ + trips]
         \/ /\ tab.rotates /\ grant # 0 /\ \E f \in 1 .. 2 : flight[f] = [at |-> "sent", key |-> grant]
            /\ grant' = count.keys + 1 /\ count' = [count EXCEPT !.trips = @ + trips, !.keys = @ + 1]
      /\ UNCHANGED <<tab, asked, signed>>

\* initOidcAuth goes on when the refresh it waits for has ended; then the page renders: the
\* guard lets in who has a token, and checks it, the login page checks one it finds.
Boot ==
  /\ view = "boot" /\ Flying = {}
  /\ IF place.code # 0
       THEN /\ IF asked = place.code THEN view' = "exchange" /\ directory' = Looked
               ELSE view' = "failed" /\ UNCHANGED directory
            /\ UNCHANGED <<place, probing>>
       ELSE /\ view' = IF place.at = "inbox" /\ usable THEN "app" ELSE "login"
            /\ place' = Url(IF usable THEN place.at ELSE "login", 0)
            /\ probing' = usable /\ UNCHANGED directory
  /\ UNCHANGED <<tab, held, asked, usable, flight, alarm, click, grant, codes, count, excuse, farewell, signed>>

\* saveToken.
Saves(key) ==
  /\ held' = [age |-> "fresh", key |-> key] /\ usable' = TRUE /\ alarm' = (key # 0)

\* exchangeCodeForToken: the provider takes a code once. The page then goes to nextPath.
Exchange ==
  /\ view = "exchange" /\ directory = "ok" /\ place.code \in codes
  /\ LET key == IF tab.offline THEN count.keys + 1 ELSE 0
     IN  /\ Saves(IF key # 0 THEN key ELSE held.key)
         /\ grant' = key /\ count' = [count EXCEPT !.keys = @ + 1] /\ signed' = (key # 0)
  /\ codes' = codes \ {place.code} /\ asked' = 0
  /\ view' = "leaving" /\ place' = Url("inbox", 0)
  /\ excuse' = (Flying # {})
  /\ UNCHANGED <<tab, directory, flight, probing, click, farewell>>

\* The provider refuses a code it has taken before, or something fails on the way there or back.
ExchangeFails ==
  /\ view = "exchange" /\ directory \in {"ok", "failed"} /\ view' = "failed"
  /\ \/ (directory = "failed" \/ place.code \notin codes) /\ UNCHANGED <<codes, count>>
     \/ directory = "ok" /\ place.code \in codes /\ Spend("slips") /\ codes' \in {codes, codes \ {place.code}}
  /\ UNCHANGED <<tab, place, held, asked, usable, directory, flight, alarm, probing, click, grant, excuse, farewell, signed>>

Unload ==
  /\ view = "leaving" /\ place.at # "provider"
  /\ Loads(place, 0) /\ UNCHANGED <<codes, farewell>>

-----------------------------------------------------------------------------
(* refreshTokenIfNeeded. *)

\* scheduleTokenRefresh.
Schedules == alarm' = (held.key # 0)

\* Mutant: a refresh does not look for one that is under way.
RefreshesAnyhow ==
  IF held.key = 0 \/ Flying = {1, 2} THEN UNCHANGED <<flight, directory>>
  ELSE /\ flight' = [flight EXCEPT ![CHOOSE f \in 1 .. 2 : f \notin Flying] = [at |-> "directory", key |-> held.key]]
       /\ directory' = Looked
\* One refresh at a time; whoever asks meanwhile gets the same promise.
Refreshes ==
  IF held.key = 0 \/ Flying # {} THEN UNCHANGED <<flight, directory>>
  ELSE /\ flight' = [flight EXCEPT ![1] = [at |-> "directory", key |-> held.key]]
       /\ directory' = Looked

\* The timer is set for a minute before the token expires, or for five seconds from now.
AlarmRings ==
  /\ alarm /\ held.age # "fresh" /\ ~(view = "boot" /\ Flying = {})
  /\ alarm' = FALSE /\ Refreshes
  /\ UNCHANGED <<tab, view, place, held, asked, usable, probing, click, grant, codes, count, excuse, farewell, signed>>

DirectoryAnswers ==
  /\ directory = "waiting"
  /\ \/ directory' = "ok" /\ UNCHANGED count
     \/ directory' = "failed" /\ Spend("slips")
  /\ UNCHANGED <<tab, view, place, held, asked, usable, flight, alarm, probing, click, grant, codes, excuse, farewell, signed>>

RefreshSends(f) ==
  /\ flight[f].at = "directory" /\ directory = "ok"
  /\ flight' = [flight EXCEPT ![f].at = "sent"]
  /\ UNCHANGED <<tab, view, place, held, asked, usable, directory, alarm, probing, click, grant, codes, count, excuse, farewell, signed>>

\* External: the provider takes the refresh token it gave last.
ProviderAnswers(f) ==
  /\ flight[f].at = "sent"
  /\ IF grant = 0 \/ flight[f].key # grant
       THEN flight' = [flight EXCEPT ![f].at = "refused"] /\ UNCHANGED <<grant, count>>
       ELSE LET key == IF tab.rotates THEN count.keys + 1 ELSE 0
            IN  /\ flight' = [flight EXCEPT ![f] = [at |-> "granted", key |-> key]]
                /\ grant' = IF key # 0 THEN key ELSE grant
                /\ count' = [count EXCEPT !.keys = IF key # 0 THEN key ELSE @]
  /\ UNCHANGED <<tab, view, place, held, asked, usable, directory, alarm, probing, click, codes, excuse, farewell, signed>>

\* The request or its answer is lost, or the provider is in trouble: 5xx, or no token.
RefreshLost(f) ==
  /\ flight[f].at \in {"sent", "granted"} /\ Spend("slips")
  /\ excuse' = (excuse \/ (flight[f].at = "granted" /\ tab.rotates))
  /\ flight' = [flight EXCEPT ![f].at = "lost"]
  /\ UNCHANGED <<tab, view, place, held, asked, usable, directory, alarm, probing, click, grant, codes, farewell, signed>>

\* clearStoredToken.
Clears == held' = NoHold /\ usable' = FALSE /\ alarm' = FALSE

\* A new token is stored, with the refresh token of the answer or the one that is stored.
RefreshEnds(f) ==
  /\ \/ /\ flight[f].at = "granted"
        /\ Saves(IF flight[f].key # 0 THEN flight[f].key ELSE held.key)
     \/ flight[f].at = "refused" /\ Clears
  /\ flight' = [flight EXCEPT ![f] = NoFlight]
  /\ UNCHANGED <<tab, view, place, asked, directory, probing, click, grant, codes, count, excuse, farewell, signed>>

\* Mutant: nobody tries again.
RefreshGivesUp(f) ==
  /\ flight[f].at = "lost" \/ (flight[f].at = "directory" /\ directory = "failed")
  /\ flight' = [flight EXCEPT ![f] = NoFlight] /\ UNCHANGED alarm
  /\ UNCHANGED <<tab, view, place, held, asked, usable, directory, probing, click, grant, codes, count, excuse, farewell, signed>>
RefreshFails(f) ==
  /\ flight[f].at = "lost" \/ (flight[f].at = "directory" /\ directory = "failed")
  /\ flight' = [flight EXCEPT ![f] = NoFlight] /\ Schedules
  /\ UNCHANGED <<tab, view, place, held, asked, usable, directory, probing, click, grant, codes, count, excuse, farewell, signed>>

-----------------------------------------------------------------------------
(* The session is checked, and requests are refused. *)

\* /api/session says yes to a token that has not expired; anything else, and a failure, is a no.
Admitted == held.age \in {"fresh", "soon"} /\ UNCHANGED <<usable, count>>
Rejected ==
  /\ IF held.age \in {"fresh", "soon"} THEN Spend("slips") ELSE UNCHANGED count
  /\ usable' = FALSE /\ probing' = FALSE /\ view' = "login" /\ place' = Url("login", 0)

\* AuthGuard: the app is shown, or the guard goes to the login page.
GuardChecks ==
  /\ view = "app" /\ probing
  /\ \/ Admitted /\ probing' = FALSE /\ UNCHANGED <<view, place>>
     \/ Rejected
  /\ UNCHANGED <<tab, held, asked, directory, flight, alarm, click, grant, codes, excuse, farewell, signed>>

\* verifyBackendSession: the login page goes on to the app, whose guard checks again.
LoginChecks ==
  /\ view = "login" /\ probing
  /\ \/ Admitted /\ view' = "app" /\ place' = Url("inbox", 0) /\ UNCHANGED probing
     \/ Rejected
  /\ UNCHANGED <<tab, held, asked, directory, flight, alarm, click, grant, codes, excuse, farewell, signed>>

\* request: 401. The token in memory is dropped, the stored one is not.
Unauthorized ==
  /\ view = "app" /\ (~usable \/ held.age = "expired")
  /\ usable' = FALSE /\ probing' = FALSE
  /\ view' = "leaving" /\ place' = Url("login", 0)
  /\ UNCHANGED <<tab, held, asked, directory, flight, alarm, click, grant, codes, count, excuse, farewell, signed>>

-----------------------------------------------------------------------------
(* The user. *)

\* startOidcLogin.
SignIn ==
  /\ view = "login" /\ ~probing /\ click = "none" /\ Spend("trips")
  /\ click' = "signin" /\ directory' = Looked /\ farewell' = "no"
  /\ UNCHANGED <<tab, view, place, held, asked, usable, flight, alarm, probing, grant, codes, excuse, signed>>

SignInGoes ==
  /\ click = "signin" /\ directory \in {"ok", "failed"} /\ click' = "none"
  /\ IF directory = "failed" THEN UNCHANGED <<asked, count, view, place>>
     ELSE /\ asked' = count.asks + 1 /\ count' = [count EXCEPT !.asks = @ + 1]
          /\ view' = "leaving" /\ place' = Url("provider", 0)
  /\ UNCHANGED <<tab, held, usable, directory, flight, alarm, probing, grant, codes, excuse, farewell, signed>>

\* External: the provider sends the browser back with a code, or the user comes back without.
ComesBack ==
  /\ view = "leaving" /\ place.at = "provider"
  /\ \/ codes' = codes \cup {count.asks} /\ Loads(Url("login", count.asks), 0)
     \/ UNCHANGED codes /\ Loads(Url("login", 0), 0)
  /\ UNCHANGED farewell

\* logoutOidc, up to its await.
Logout ==
  /\ view = "app" /\ click = "none" /\ Clears /\ asked' = 0
  /\ click' = "logout" /\ directory' = Looked
  /\ excuse' = TRUE /\ farewell' = IF Flying = {} THEN "yes" ELSE "late"
  /\ UNCHANGED <<tab, view, place, flight, probing, grant, codes, count, signed>>

\* Without an end_session_endpoint the page stays as it is.
LogoutGoes ==
  /\ click = "logout" /\ view = "app" /\ directory \in {"ok", "failed"} /\ click' = "none"
  /\ IF directory = "ok" /\ ~tab.leave THEN UNCHANGED <<view, place, grant>>
     ELSE /\ view' = "leaving" /\ place' = Url("login", 0)
          /\ grant' = IF directory = "ok" THEN 0 ELSE grant
  /\ UNCHANGED <<tab, held, asked, usable, directory, flight, alarm, probing, codes, count, excuse, farewell, signed>>

\* External: the page is loaded again, the inbox or an old URL of the provider is opened.
Moves ==
  /\ view # "leaving" /\ count.trips < tab.trips
  /\ \E url \in {place, Url("inbox", 0)} \cup {Url("login", n) : n \in 1 .. count.asks} : Loads(url, 1)
  /\ UNCHANGED <<codes, farewell>>

\* External: time passes, and the provider forgets a session.
Ages ==
  /\ held.age \in {"fresh", "soon"} /\ Spend("days")
  /\ held' = [held EXCEPT !.age = IF @ = "fresh" THEN "soon" ELSE "expired"]
  /\ UNCHANGED <<tab, view, place, asked, usable, directory, flight, alarm, probing, click, grant, codes, excuse, farewell, signed>>

\* External: the provider ends the session.
Forgets ==
  /\ grant # 0 /\ Spend("slips") /\ grant' = 0 /\ excuse' = TRUE
  /\ UNCHANGED <<tab, pageVars, codes, farewell, signed>>

PageStep ==
  \/ Boot \/ Exchange \/ ExchangeFails \/ Unload \/ AlarmRings \/ DirectoryAnswers
  \/ \E f \in 1 .. 2 : RefreshSends(f) \/ ProviderAnswers(f) \/ RefreshLost(f) \/ RefreshEnds(f) \/ RefreshFails(f)
  \/ GuardChecks \/ LoginChecks \/ SignInGoes \/ ComesBack \/ LogoutGoes

LoginNext == PageStep \/ Unauthorized \/ SignIn \/ Logout \/ Moves \/ Ages \/ Forgets
-----------------------------------------------------------------------------
(* The tab is signed in as the user left it (oidc.ts:163-235, 392-408).    *)
(* After a logout nothing is stored again until the user asks to sign in,  *)
(* not by a timer nor by an old URL with a code; a refresh under way at    *)
(* the logout is the exception. And a session is lost only by a logout, by *)
(* the provider, or when the answer that carried the new refresh token was *)
(* lost, be it because the page was left or because a sign-in came between.*)
SessionFollowsUser ==
  /\ farewell = "yes" => held = NoHold
  /\ signed /\ ~excuse => held.key # 0

(* A token that is about to expire in an open app is renewed, whatever     *)
(* failed before, unless the discovery failed in this page, which is never *)
(* tried again (oidc.ts:237-258), or the session ends.                     *)
StaysFresh ==
  (view = "app" /\ held.key # 0 /\ held.age # "fresh")
    ~> (held.age = "fresh" \/ held.key = 0 \/ directory = "failed" \/ view # "app")
=============================================================================
