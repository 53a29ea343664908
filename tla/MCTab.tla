------------------------------- MODULE MCTab -------------------------------
(***************************************************************************)
(* What reaches one browser tab and what the tab makes of it, in one run:  *)
(* the events that are sent to it, its sign-in, its lists of messages, the *)
(* mailbox its URL stands for, and the order of an opened thread. The      *)
(* models share no state: in a behaviour one of them moves, the others     *)
(* stay in one initial state.                                              *)
(***************************************************************************)
EXTENDS SyncEvents, ClientLogin, InboxList, InboxRoute, ThreadOrder

VARIABLE part

Moving == {"events", "login", "list", "route", "order"}
allVars == <<part, vars, loginVars, deskVars, routeVars, orderVars>>

\* The parts that do not move are in one of their initial states, the URL in a settled one.
From(mine, settings) == IF part = mine THEN settings ELSE {CHOOSE s \in settings : TRUE}
TabInit ==
  /\ part \in Moving /\ tab \in From("login", Tabs) /\ desk \in From("list", Desks)
  /\ route \in From("route", {r \in Routes : part = "route" \/ r.url = NoRoute}) /\ bundle \in From("order", Bundles)
  /\ Init /\ LoginInit /\ DeskInit /\ RouteInit /\ OrderInit

TabNext ==
  \/ part = "events" /\ Next /\ UNCHANGED <<part, loginVars, deskVars, routeVars, orderVars>>
  \/ part = "login" /\ LoginNext /\ UNCHANGED <<part, vars, deskVars, routeVars, orderVars>>
  \/ part = "list" /\ DeskNext /\ UNCHANGED <<part, vars, loginVars, routeVars, orderVars>>
  \/ part = "route" /\ RouteNext /\ UNCHANGED <<part, vars, loginVars, deskVars, orderVars>>
  \/ part = "order" /\ OrderNext /\ UNCHANGED <<part, vars, loginVars, deskVars, routeVars>>

\* Fairness of SyncEvents, in the behaviours where it moves.
EventsFair ==
  /\ WF_vars(part = "events" /\ AttachOk) /\ WF_vars(part = "events" /\ Hear)
  /\ WF_vars(part = "events" /\ TimerFires) /\ WF_vars(part = "events" /\ \E s \in Streams : Connect(s))
  /\ \A e \in Ids : WF_vars(part = "events" /\ Return(e)) /\ WF_vars(part = "events" /\ Read(e))
  /\ \A s \in Streams :
       /\ WF_vars(part = "events" /\ Fetch(s)) /\ WF_vars(part = "events" /\ Write(s))
       /\ WF_vars(part = "events" /\ WaitForSignal(s)) /\ WF_vars(part = "events" /\ Expires(s))
       /\ WF_vars(part = "events" /\ Hangup(s))
\* Timers fire, callbacks run, queries and the provider answer or fail; the effect of an
\* opened thread runs at each render, and lists are asked for again and again.
TabFair ==
  /\ EventsFair
  /\ WF_loginVars(part = "login" /\ PageStep)
  /\ WF_deskVars(part = "list" /\ LoadStep) /\ WF_deskVars(part = "list" /\ FetchList)
  /\ WF_deskVars(part = "list" /\ \E a \in Acts : MarksOpened(a))
  /\ \A a \in Acts : WF_deskVars(part = "list" /\ ActStep(a))
  /\ WF_routeVars(part = "route" /\ SendersCome)
  /\ WF_routeVars(part = "route" /\ Replaces(Named))
  /\ WF_routeVars(part = "route" /\ Replaces(senders))

TabSpec == TabInit /\ [][TabNext]_allVars /\ TabFair
-----------------------------------------------------------------------------
\* ClientLogin
Tab(rotates, offline, leave, days, slips, trips) ==
  [rotates |-> rotates, offline |-> offline, leave |-> leave, days |-> days, slips |-> slips, trips |-> trips]
AllTabs == {Tab(TRUE, TRUE, TRUE, 2, 1, 2), Tab(FALSE, TRUE, FALSE, 2, 1, 2),
            Tab(FALSE, FALSE, TRUE, 2, 0, 2), Tab(TRUE, TRUE, TRUE, 1, 1, 3)}

\* InboxList
Desk(acts, slips, turnings, open, kinds) ==
  [acts |-> acts, slips |-> slips, turns |-> turnings, open |-> open, kinds |-> kinds]
AllDesks == {Desk(2, 1, 1, FALSE, {"star"}), Desk(1, 2, 1, TRUE, {"delete"}),
             Desk(1, 2, 2, FALSE, {"bulk"}), Desk(0, 2, 2, TRUE, {})}

\* InboxRoute: b1 and b2 are connectors, o1 and o2 only send; the threads 1, 2 are b1's and
\* b2's. A mailbox or an address may be gone, and there may be no connector at all.
Address(who, folder, q, n, t) == [who |-> who, folder |-> folder, q |-> q, page |-> n, thread |-> t]
Addresses == {NoRoute, Address("b1", "", 0, 2, 1), Address("b2", "SENT", 1, 0, 2), Address("o1", "OUTBOX", 0, 1, 0)}
AllRoutes == {[url |-> u, boxes |-> b, senders |-> <<"o2">>, turns |-> 3] :
                u \in Addresses, b \in {<<"b2", "b1">>, <<"b2">>, << >>}}
OwnerOf == <<"b1", "b2">>

\* ThreadOrder: what a header may answer and refer to, a Message-ID that comes twice or not
\* at all, an answer that is older than what it answers.
Headers == {[re |-> r, refs |-> << >>] : r \in 0 .. 3}
  \cup {[re |-> 0, refs |-> <<1, 2, 1>>], [re |-> 1, refs |-> <<0, 3, 2>>]}
AllBundles ==
  {[n \in Notes |-> [id |-> ids[n], re |-> h[n].re, refs |-> h[n].refs, at |-> times[n]]] :
     ids \in {<<1, 2, 3>>, <<1, 1, 2>>, <<2, 0, 3>>}, h \in [Notes -> Headers],
     times \in {<<1, 2, 3>>, <<2, 1, 1>>, <<2, 1, 3>>}}
=============================================================================
