------------------------ MODULE MessageActionsProofs ------------------------
(***************************************************************************)
(* Proofs about MessageActions, for any number of requests, messages and   *)
(* syncs: that a request hits the message it is for (from HitInv: whom an  *)
(* address is of), and that a row nothing is owed to says what the server  *)
(* says once nobody is at work on it (from RowInv: how far the one request *)
(* that may be has come).                                                  *)
(***************************************************************************)
EXTENDS MessageActions, FiniteSetTheorems, TLAPS

Flags == {"seen", "star"}
SystemLabels == {"starred", "trash"}
ActPhases == {"idle", "next", "mark", "look", "put", "remote", "undo", "settle", "erase", "done"}
ReqType == [pc : ActPhases, todo : SUBSET (Ops \X RowIds), ops : SUBSET Ops, on : SUBSET RowIds,
            snap : [RowIds -> Boxes \X Nat], op : Ops, i : RowIds, of : Mails \cup {0}, want : BOOLEAN,
            to : Boxes, prev : [is : SUBSET Flags, flags : SUBSET Flags], got : SUBSET Flags, at : Boxes,
            star : BOOLEAN, rm : SUBSET SystemLabels, add : SUBSET SystemLabels,
            then : {"next", "remote", "done"}, lost : BOOLEAN]
RowType == [here : BOOLEAN, of : Mails \cup {0}, at : Boxes, uid : Nat, is : SUBSET Flags,
            flags : SUBSET Flags, labels : SUBSET SystemLabels]
SrvType == [at : Boxes \cup {"gone"}, uid : Nat, flags : SUBSET Flags]
ActTypes ==
  /\ world \in Worlds /\ made \in Nat /\ owed \subseteq RowIds /\ moved \subseteq RowIds
  /\ srv \in [Mails -> SrvType] /\ view \subseteq [Mails -> SrvType] /\ uidNext \in [Boxes -> Nat]
  /\ row \in [RowIds -> RowType] /\ req \in [Reqs -> ReqType]
-----------------------------------------------------------------------------
LEMMA LabelsFit == ASSUME NEW a \in Boxes, NEW b \in BOOLEAN PROVE LabelsOf(a, b) \in SUBSET SystemLabels
BY DEF LabelsOf, SystemLabels

LEMMA FirstRow == 1 \in RowIds /\ Mails \subseteq Nat /\ Mails \subseteq RowIds
<1>1. Cardinality(Mails) \in Nat
  BY ActAssumption, FS_CardinalityType
<1>2. QED
  BY <1>1, ActAssumption DEF RowIds

LEMMA IdleIsReq == Idle \in ReqType
<1>1. [i \in RowIds |-> <<"INBOX", 0>>] \in [RowIds -> Boxes \X Nat]
  BY DEF Boxes
<1>2. QED
  BY <1>1, FirstRow DEF Idle, ReqType, ActPhases, Ops, Boxes

LEMMA NoRowIsRow == NoRow \in RowType /\ ~NoRow.here
BY DEF NoRow, RowType, Boxes

LEMMA RowOfIsRow ==
  ASSUME NEW m \in Mails, NEW s \in SrvType, s.at # "gone"
  PROVE  /\ RowOf(m, s) \in RowType /\ RowOf(m, s).here /\ RowOf(m, s).of = m /\ RowOf(m, s).at = s.at
         /\ RowOf(m, s).uid = s.uid /\ RowOf(m, s).is = s.flags /\ RowOf(m, s).flags = s.flags
         /\ RowOf(m, s).labels = LabelsOf(s.at, "star" \in s.flags)
<1>1. s.at \in Boxes /\ s.uid \in Nat /\ s.flags \in SUBSET Flags
  BY DEF SrvType
<1>2. LabelsOf(s.at, "star" \in s.flags) \in SUBSET SystemLabels
  BY <1>1 DEF LabelsOf, SystemLabels
<1>3. QED
  BY <1>1, <1>2 DEF RowOf, RowType

\* What there is when nothing has been asked: addresses are told apart by their uids.
LEMMA ActStarts == ActInit => ActTypes
<1> SUFFICES ASSUME ActInit PROVE ActTypes
  OBVIOUS
<1>1. world \in Worlds /\ srv \in [Mails -> [at : Boxes, uid : 1..MaxMailUid, flags : {{}}]]
  BY DEF ActInit
<1>2. srv \in [Mails -> SrvType] /\ \A m \in Mails : srv[m].at \in Boxes
  <2>1. \A s \in [at : Boxes, uid : 1..MaxMailUid, flags : {{}}] : s \in SrvType /\ s.at \in Boxes
    BY DEF SrvType, Flags
  <2>2. QED
    BY <1>1, <2>1
<1>3. uidNext \in [Boxes -> Nat]
  <2>1. \A b \in Boxes : IsFiniteSet({m \in Mails : srv[m].at = b})
    BY ActAssumption, FS_Subset
  <2>2. \A b \in Boxes : 1 + Cardinality({m \in Mails : srv[m].at = b}) \in Nat
    BY <2>1, FS_CardinalityType
  <2>3. QED
    BY <2>2 DEF ActInit
<1>4. row \in [RowIds -> RowType]
  <2>1. PICK S \in SUBSET Mails : row = [i \in RowIds |-> IF i \in S THEN RowOf(i, srv[i]) ELSE NoRow]
    BY DEF ActInit
  <2>2. \A i \in S : RowOf(i, srv[i]) \in RowType
    <3> SUFFICES ASSUME NEW i \in S PROVE RowOf(i, srv[i]) \in RowType
      OBVIOUS
    <3>1. i \in Mails /\ srv[i] \in SrvType /\ srv[i].at # "gone"
      BY <1>2 DEF Boxes
    <3>2. QED
      BY <3>1, RowOfIsRow
  <2>3. QED
    BY <2>1, <2>2, NoRowIsRow
<1>5. req \in [Reqs -> ReqType]
  BY IdleIsReq DEF ActInit
<1>6. made \in Nat
  BY ActAssumption, FS_CardinalityType DEF ActInit
<1>7. QED
  BY <1>1, <1>2, <1>3, <1>4, <1>5, <1>6 DEF ActInit, ActTypes
-----------------------------------------------------------------------------
\* What a request keeps while it works on one row.
SameAsk(n, c) ==
  /\ n.on = c.on /\ n.snap = c.snap /\ n.want = c.want /\ n.to = c.to /\ n.op = c.op /\ n.i = c.i
  /\ n.of = c.of /\ n.prev = c.prev /\ n.todo = c.todo
LabelsNow(n, c) == n.at = c.at /\ n.star = c.star /\ n.rm = c.rm /\ n.add = c.add /\ n.then = c.then

LEMMA ReqFields ==
  ASSUME ActTypes, NEW r \in Reqs
  PROVE  /\ req[r] \in ReqType /\ req[r].i \in RowIds /\ row[req[r].i] \in RowType /\ OnRow(r) = row[req[r].i]
         /\ req[r].op \in Ops /\ req[r].pc \in ActPhases /\ req[r].on \subseteq RowIds /\ req[r].to \in Boxes
         /\ req[r].todo \subseteq Ops \X RowIds /\ req[r].lost \in BOOLEAN /\ req[r].at \in Boxes
         /\ req[r].star \in BOOLEAN /\ req[r].want \in BOOLEAN /\ req[r].then \in {"next", "remote", "done"}
         /\ req[r].prev.is \subseteq Flags /\ req[r].prev.flags \subseteq Flags /\ req[r].got \subseteq Flags
         /\ req[r].rm \subseteq SystemLabels /\ req[r].add \subseteq SystemLabels
         /\ \A i \in RowIds : req[r].snap[i] \in Boxes \X Nat /\ req[r].snap[i][1] \in Boxes
<1>1. req[r] \in ReqType
  BY DEF ActTypes
<1>2. QED
  BY <1>1 DEF ActTypes, ReqType, OnRow

LEMMA RowFields ==
  ASSUME ActTypes, NEW i \in RowIds
  PROVE  /\ row[i] \in RowType /\ row[i].here \in BOOLEAN /\ row[i].of \in Mails \cup {0} /\ row[i].at \in Boxes
         /\ row[i].uid \in Nat /\ row[i].is \subseteq Flags /\ row[i].flags \subseteq Flags
         /\ row[i].labels \subseteq SystemLabels
<1>1. row[i] \in RowType
  BY DEF ActTypes
<1>2. QED
  BY <1>1 DEF RowType

LEMMA FlagsFit ==
  ASSUME NEW r \in Reqs, NEW S \in SUBSET Flags PROVE Flagged(S, r) \in SUBSET Flags
BY DEF Flagged, Flags

LEMMA GoesOn ==
  ASSUME ActTypes, NEW r \in Reqs, NEW pc \in ActPhases, Goes(r, pc)
  PROVE  \E n \in ReqType : /\ req' = [req EXCEPT ![r] = n] /\ SameAsk(n, req[r]) /\ LabelsNow(n, req[r])
                            /\ n.pc = pc /\ n.lost = req[r].lost /\ n.got = req[r].got
<1> DEFINE n == [req[r] EXCEPT !.pc = pc]
<1>1. req[r] \in ReqType
  BY DEF ActTypes
<1>2. req' = [req EXCEPT ![r] = n]
  BY DEF Goes, ActTypes
<1>3. n \in ReqType /\ n.pc = pc /\ n.lost = req[r].lost /\ n.got = req[r].got
  BY <1>1 DEF ReqType
<1>4. SameAsk(n, req[r]) /\ LabelsNow(n, req[r])
  BY <1>1 DEF ReqType, SameAsk, LabelsNow
<1>5. QED
  BY <1>2, <1>3, <1>4

LEMMA Written ==
  ASSUME ActTypes, NEW i \in RowIds, NEW new \in RowType, Write(i, new)
  PROVE  /\ row' \in [RowIds -> RowType] /\ row'[i] = (IF row[i].here THEN new ELSE row[i])
         /\ \A j \in RowIds : j # i => row'[j] = row[j]
<1>1. row \in [RowIds -> RowType]
  BY DEF ActTypes
<1>2. QED
  BY <1>1 DEF Write

LEMMA StartDoes ==
  ASSUME ActTypes, NEW r \in Reqs, Start(r)
  PROVE  /\ req[r].pc = "idle"
         /\ \E n \in ReqType :
              /\ req' = [req EXCEPT ![r] = n] /\ n.pc = "next" /\ n.todo \subseteq Ops \X n.on
              /\ \A j \in n.on : row[j].here
              /\ \A j \in RowIds : n.snap[j] = <<row[j].at, row[j].uid>>
              /\ owed' = owed \cup {j \in n.on : Busy(j)}
<1>1. PICK ask \in world.asks, i \in RowIds :
         LET on == IF ask.thread THEN {j \in RowIds : row[j].here} ELSE {i}
         IN  /\ row[i].here
             /\ req' = [req EXCEPT ![r] = [Idle EXCEPT
                  !.pc = "next", !.todo = ask.ops \X on, !.ops = ask.ops, !.on = on, !.want = ask.want,
                  !.snap = [j \in RowIds |-> <<row[j].at, row[j].uid>>],
                  !.to = IF row[i].at = "INBOX" THEN "TRASH" ELSE "INBOX"]]
             /\ owed' = owed \cup {j \in on : Busy(j)}
  BY DEF Start
<1> DEFINE on == IF ask.thread THEN {j \in RowIds : row[j].here} ELSE {i}
           todo == ask.ops \X on
           snap == [j \in RowIds |-> <<row[j].at, row[j].uid>>]
           to == IF row[i].at = "INBOX" THEN "TRASH" ELSE "INBOX"
           n == [Idle EXCEPT !.pc = "next", !.todo = todo, !.ops = ask.ops, !.on = on, !.want = ask.want,
                             !.snap = snap, !.to = to]
<1>2. world \in Worlds
  BY DEF ActTypes
<1>3. ask.ops \subseteq Ops /\ ask.want \in BOOLEAN
  BY <1>2, ActAssumption DEF Ops
<1>4. on \subseteq RowIds /\ (\A j \in on : row[j].here) /\ to \in Boxes
  BY <1>1 DEF Boxes
<1>5. snap \in [RowIds -> Boxes \X Nat] /\ \A j \in RowIds : snap[j] = <<row[j].at, row[j].uid>>
  BY RowFields
<1>6. todo \subseteq Ops \X RowIds /\ todo \subseteq Ops \X on
  BY <1>3, <1>4
<1>7. req' = [req EXCEPT ![r] = n] /\ owed' = owed \cup {j \in on : Busy(j)}
  BY <1>1
<1> HIDE DEF on, todo, snap, to
<1>8. n \in ReqType /\ n.pc = "next" /\ n.todo = todo /\ n.on = on /\ n.snap = snap
  <2>1. "next" \in ActPhases
    BY DEF ActPhases
  <2>2. todo \in SUBSET (Ops \X RowIds) /\ ask.ops \in SUBSET Ops /\ on \in SUBSET RowIds
    BY <1>3, <1>4, <1>6
  <2>3. QED
    BY <1>3, <1>4, <1>5, <2>1, <2>2, IdleIsReq DEF ReqType
<1> HIDE DEF n
<1>9. (\A j \in n.on : row[j].here) /\ n.todo \subseteq Ops \X n.on
      /\ (\A j \in RowIds : n.snap[j] = <<row[j].at, row[j].uid>>) /\ owed' = owed \cup {j \in n.on : Busy(j)}
  BY <1>4, <1>5, <1>6, <1>7, <1>8
<1>10. QED
  BY <1>7, <1>8, <1>9 DEF Start

LEMMA BeginDoes ==
  ASSUME ActTypes, NEW r \in Reqs, Begin(r)
  PROVE  /\ req[r].pc = "next"
         /\ \E n \in ReqType, t \in req[r].todo :
              /\ req' = [req EXCEPT ![r] = n] /\ n.on = req[r].on /\ n.snap = req[r].snap
              /\ n.todo = req[r].todo \ {t} /\ n.op = t[1] /\ n.i = t[2] /\ n.of = row[t[2]].of /\ ~n.lost
              /\ n.prev.is = row[t[2]].is /\ n.prev.flags = row[t[2]].flags
              /\ n.pc = IF ~row[t[2]].here THEN "done" ELSE IF t[1] \in {"read", "star"} THEN "mark" ELSE "remote"
              /\ \A u \in req[r].todo : Before(t, u)
<1>1. PICK t \in req[r].todo :
         /\ \A u \in req[r].todo : Before(t, u)
         /\ req' = [req EXCEPT ![r] = [@ EXCEPT
              !.pc = IF ~row[t[2]].here THEN "done" ELSE IF t[1] \in {"read", "star"} THEN "mark" ELSE "remote",
              !.todo = req[r].todo \ {t}, !.op = t[1], !.i = t[2], !.of = row[t[2]].of, !.lost = FALSE,
              !.prev = [is |-> row[t[2]].is, flags |-> row[t[2]].flags]]]
  BY DEF Begin
<1> DEFINE pc == IF ~row[t[2]].here THEN "done" ELSE IF t[1] \in {"read", "star"} THEN "mark" ELSE "remote"
           prev == [is |-> row[t[2]].is, flags |-> row[t[2]].flags]
           todo == req[r].todo \ {t}
           of == row[t[2]].of
           n == [req[r] EXCEPT !.pc = pc, !.todo = todo, !.op = t[1], !.i = t[2], !.of = of, !.lost = FALSE,
                               !.prev = prev]
<1>2. req[r] \in ReqType /\ t \in Ops \X RowIds /\ t[1] \in Ops /\ t[2] \in RowIds
  BY ReqFields
<1>3. prev \in [is : SUBSET Flags, flags : SUBSET Flags] /\ of \in Mails \cup {0} /\ pc \in ActPhases
      /\ todo \subseteq Ops \X RowIds /\ prev.is = row[t[2]].is /\ prev.flags = row[t[2]].flags
  BY <1>2, RowFields, ReqFields DEF ActPhases
<1>4. req' = [req EXCEPT ![r] = n]
  BY <1>1 DEF ActTypes
<1> HIDE DEF pc, prev, todo, of
<1>5. n \in ReqType /\ n.on = req[r].on /\ n.snap = req[r].snap /\ n.todo = todo /\ n.op = t[1] /\ n.i = t[2]
      /\ n.of = of /\ ~n.lost /\ n.prev = prev /\ n.pc = pc
  BY <1>2, <1>3 DEF ReqType
<1> HIDE DEF n
<1>6. req[r].pc = "next"
  BY DEF Begin
<1>7. /\ n.todo = req[r].todo \ {t} /\ n.of = row[t[2]].of /\ n.prev.is = row[t[2]].is /\ n.prev.flags = row[t[2]].flags
      /\ n.pc = IF ~row[t[2]].here THEN "done" ELSE IF t[1] \in {"read", "star"} THEN "mark" ELSE "remote"
  BY <1>3, <1>5 DEF pc, todo, of
<1>8. QED
  BY <1>1, <1>4, <1>5, <1>6, <1>7

\* The row a request works on is written, and no other.
OnlyRow(i) == row' \in [RowIds -> RowType] /\ \A j \in RowIds : j # i => row'[j] = row[j]
SamePlace(new, old) == new.here = old.here /\ new.of = old.of /\ new.at = old.at /\ new.uid = old.uid

LEMMA OptimisticDoes ==
  ASSUME ActTypes, NEW r \in Reqs, Optimistic(r)
  PROVE  LET i == req[r].i IN
         /\ req[r].pc = "mark" /\ OnlyRow(i) /\ SamePlace(row'[i], row[i]) /\ row'[i].labels = row[i].labels
         /\ row[i].here => /\ row'[i].is = Flagged(row[i].is, r)
                           /\ row'[i].flags = Flagged(req[r].prev.flags, r)
         /\ \E n \in ReqType :
              /\ req' = [req EXCEPT ![r] = n] /\ SameAsk(n, req[r]) /\ n.lost = req[r].lost
              /\ IF req[r].op = "read" THEN n.pc = "remote"
                 ELSE n.pc = "look" /\ n.at = req[r].snap[i][1] /\ n.star = req[r].want /\ n.then = "remote"
<1>1. PICK i \in RowIds : i = req[r].i
  BY ReqFields
<1> DEFINE is == Flagged(row[i].is, r)
           flags == Flagged(req[r].prev.flags, r)
           new == [row[i] EXCEPT !.is = is, !.flags = flags]
<1>2. is \in SUBSET Flags /\ flags \in SUBSET Flags
  BY RowFields, ReqFields, FlagsFit
<1>3. Write(i, new) /\ req[r].pc = "mark"
  BY <1>1, RowFields DEF Optimistic, OnRow, RowType
<1> HIDE DEF is, flags
<1>4. new \in RowType /\ SamePlace(new, row[i]) /\ new.labels = row[i].labels /\ new.is = is /\ new.flags = flags
  BY <1>2, RowFields DEF RowType, SamePlace
<1> HIDE DEF new
<1>5. OnlyRow(i) /\ row'[i] = IF row[i].here THEN new ELSE row[i]
  BY <1>3, <1>4, Written DEF OnlyRow
<1>6. /\ SamePlace(row'[i], row[i]) /\ row'[i].labels = row[i].labels
      /\ row[i].here => row'[i].is = is /\ row'[i].flags = flags
  BY <1>4, <1>5 DEF SamePlace
<1>7. \E n \in ReqType :
              /\ req' = [req EXCEPT ![r] = n] /\ SameAsk(n, req[r]) /\ n.lost = req[r].lost
              /\ IF req[r].op = "read" THEN n.pc = "remote"
                 ELSE n.pc = "look" /\ n.at = req[r].snap[i][1] /\ n.star = req[r].want /\ n.then = "remote"
  <2>1. CASE req[r].op = "read"
    <3>1. Goes(r, "remote") /\ "remote" \in ActPhases
      BY <2>1 DEF Optimistic, ActPhases
    <3>2. QED
      BY <2>1, <3>1, GoesOn
  <2>2. CASE req[r].op # "read"
    <3> DEFINE at == req[r].snap[i][1]
               n == [req[r] EXCEPT !.pc = "look", !.at = at, !.star = req[r].want, !.then = "remote"]
    <3>1. req' = [req EXCEPT ![r] = n]
      BY <1>1, <2>2 DEF Optimistic, ActTypes
    <3>2. req[r] \in ReqType /\ at \in Boxes /\ req[r].want \in BOOLEAN
      BY ReqFields
    <3> HIDE DEF at
    <3>3. n \in ReqType /\ n.lost = req[r].lost /\ n.pc = "look" /\ n.at = at /\ n.star = req[r].want /\ n.then = "remote"
      <4>1. "look" \in ActPhases
        BY DEF ActPhases
      <4>2. QED
        BY <3>2, <4>1 DEF ReqType
    <3>4. SameAsk(n, req[r])
      BY <3>2 DEF SameAsk, ReqType
    <3> HIDE DEF n
    <3>5. QED
      BY <2>2, <3>1, <3>3, <3>4 DEF at
  <2>3. QED
    BY <2>1, <2>2
<1>8. QED
  BY <1>1, <1>3, <1>5, <1>6, <1>7 DEF is, flags

LEMMA LookDoes ==
  ASSUME ActTypes, NEW r \in Reqs, Look(r)
  PROVE  LET c == req[r]
             keys == LabelsOf(c.at, c.star)
         IN  /\ c.pc = "look"
             /\ \E n \in ReqType :
                  /\ req' = [req EXCEPT ![r] = n] /\ SameAsk(n, c) /\ n.lost = c.lost /\ n.then = c.then
                  /\ n.pc = "put" /\ n.rm = row[c.i].labels \ keys /\ n.add = keys \ row[c.i].labels
<1> DEFINE c == req[r]
           keys == LabelsOf(c.at, c.star)
           rm == row[c.i].labels \ keys
           add == keys \ row[c.i].labels
           n == [c EXCEPT !.pc = "put", !.rm = rm, !.add = add]
<1>1. c \in ReqType /\ keys \in SUBSET SystemLabels /\ row[c.i].labels \subseteq SystemLabels
  BY ReqFields, RowFields, LabelsFit
<1>2. rm \in SUBSET SystemLabels /\ add \in SUBSET SystemLabels
  BY <1>1
<1>3. req' = [req EXCEPT ![r] = n] /\ c.pc = "look"
  BY DEF Look, OnRow
<1> HIDE DEF keys, rm, add, c
<1>4. n \in ReqType /\ n.lost = c.lost /\ n.then = c.then /\ n.pc = "put" /\ n.rm = rm /\ n.add = add
  <2>1. "put" \in ActPhases
    BY DEF ActPhases
  <2>2. QED
    BY <1>1, <1>2, <2>1 DEF ReqType
<1>5. SameAsk(n, c)
  BY <1>1 DEF SameAsk, ReqType
<1> HIDE DEF n
<1>6. QED
  BY <1>3, <1>4, <1>5 DEF keys, rm, add, c

LEMMA PutDoes ==
  ASSUME ActTypes, NEW r \in Reqs, Put(r)
  PROVE  LET c == req[r] IN
         /\ c.pc = "put" /\ OnlyRow(c.i) /\ SamePlace(row'[c.i], row[c.i])
         /\ row[c.i].here => /\ row'[c.i].is = row[c.i].is /\ row'[c.i].flags = row[c.i].flags
                             /\ row'[c.i].labels = (row[c.i].labels \ c.rm) \cup c.add
         /\ \E n \in ReqType :
              /\ req' = [req EXCEPT ![r] = n] /\ SameAsk(n, c) /\ n.lost = c.lost
              /\ n.pc \in {c.then, "done"} /\ (row[c.i].here => n.pc = c.then)
<1>1. PICK i \in RowIds : i = req[r].i
  BY ReqFields
<1> DEFINE labels == (row[i].labels \ req[r].rm) \cup req[r].add
           new == [row[i] EXCEPT !.labels = labels]
<1>2. labels \in SUBSET SystemLabels
  BY RowFields, ReqFields
<1>3. Write(i, new) /\ req[r].pc = "put"
  BY <1>1, RowFields DEF Put, OnRow, RowType
<1> HIDE DEF labels
<1>4. new \in RowType /\ SamePlace(new, row[i]) /\ new.labels = labels /\ new.is = row[i].is /\ new.flags = row[i].flags
  BY <1>2, RowFields DEF RowType, SamePlace
<1> HIDE DEF new
<1>5. OnlyRow(i) /\ row'[i] = IF row[i].here THEN new ELSE row[i]
  BY <1>3, <1>4, Written DEF OnlyRow
<1>6. /\ SamePlace(row'[i], row[i])
      /\ row[i].here => row'[i].is = row[i].is /\ row'[i].flags = row[i].flags /\ row'[i].labels = labels
  BY <1>4, <1>5 DEF SamePlace
<1>7. \E n \in ReqType :
              /\ req' = [req EXCEPT ![r] = n] /\ SameAsk(n, req[r]) /\ n.lost = req[r].lost
              /\ n.pc \in {req[r].then, "done"} /\ (row[i].here => n.pc = req[r].then)
  <2>1. CASE row[i].here \/ req[r].add = {}
    <3> DEFINE n == [req[r] EXCEPT !.pc = req[r].then, !.rm = {}, !.add = {}]
    <3>1. req' = [req EXCEPT ![r] = n]
      BY <1>1, <2>1 DEF Put, ActTypes, OnRow
    <3>2. req[r] \in ReqType /\ req[r].then \in ActPhases
      BY ReqFields DEF ActPhases
    <3>3. n \in ReqType /\ n.lost = req[r].lost /\ n.pc = req[r].then
      BY <3>2 DEF ReqType
    <3>4. SameAsk(n, req[r])
      BY <3>2 DEF SameAsk, ReqType
    <3> HIDE DEF n
    <3>5. QED
      BY <3>1, <3>3, <3>4
  <2>2. CASE ~(row[i].here \/ req[r].add = {})
    <3>1. Goes(r, "done") /\ "done" \in ActPhases
      BY <1>1, <2>2 DEF Put, ActPhases, Raise, OnRow
    <3>2. QED
      BY <2>2, <3>1, GoesOn
  <2>3. QED
    BY <2>1, <2>2
<1>8. QED
  BY <1>1, <1>3, <1>5, <1>6, <1>7 DEF labels

LEMMA UndoDoes ==
  ASSUME ActTypes, NEW r \in Reqs, Undo(r)
  PROVE  LET i == req[r].i IN
         /\ req[r].pc = "undo" /\ OnlyRow(i) /\ SamePlace(row'[i], row[i]) /\ row'[i].labels = row[i].labels
         /\ row[i].here => row'[i].is = req[r].prev.is /\ row'[i].flags = req[r].prev.flags
         /\ \E n \in ReqType :
              /\ req' = [req EXCEPT ![r] = n] /\ SameAsk(n, req[r]) /\ n.lost = req[r].lost
              /\ IF req[r].op = "read" THEN n.pc = "done"
                 ELSE /\ n.pc = "look" /\ n.at = req[r].snap[i][1] /\ n.then = "done"
                      /\ n.star = ("star" \in req[r].prev.is)
<1>1. PICK i \in RowIds : i = req[r].i
  BY ReqFields
<1> DEFINE is == req[r].prev.is
           flags == req[r].prev.flags
           new == [row[i] EXCEPT !.is = is, !.flags = flags]
<1>2. is \in SUBSET Flags /\ flags \in SUBSET Flags
  BY ReqFields
<1>3. Write(i, new) /\ req[r].pc = "undo"
  BY <1>1 DEF Undo, OnRow, Undone
<1> HIDE DEF is, flags
<1>4. new \in RowType /\ SamePlace(new, row[i]) /\ new.labels = row[i].labels /\ new.is = is /\ new.flags = flags
  BY <1>2, RowFields DEF RowType, SamePlace
<1> HIDE DEF new
<1>5. OnlyRow(i) /\ row'[i] = IF row[i].here THEN new ELSE row[i]
  BY <1>3, <1>4, Written DEF OnlyRow
<1>6. /\ SamePlace(row'[i], row[i]) /\ row'[i].labels = row[i].labels
      /\ row[i].here => row'[i].is = is /\ row'[i].flags = flags
  BY <1>4, <1>5 DEF SamePlace
<1>7. \E n \in ReqType :
              /\ req' = [req EXCEPT ![r] = n] /\ SameAsk(n, req[r]) /\ n.lost = req[r].lost
              /\ IF req[r].op = "read" THEN n.pc = "done"
                 ELSE /\ n.pc = "look" /\ n.at = req[r].snap[i][1] /\ n.then = "done"
                      /\ n.star = ("star" \in is)
  <2>1. CASE req[r].op = "read"
    <3>1. Goes(r, "done") /\ "done" \in ActPhases
      BY <2>1 DEF Undo, Raise, ActPhases
    <3>2. QED
      BY <2>1, <3>1, GoesOn
  <2>2. CASE req[r].op # "read"
    <3> DEFINE at == req[r].snap[i][1]
               star == "star" \in is
               n == [req[r] EXCEPT !.pc = "look", !.at = at, !.star = star, !.then = "done"]
    <3>1. req' = [req EXCEPT ![r] = n]
      BY <1>1, <2>2 DEF Undo, ActTypes, is
    <3>2. req[r] \in ReqType /\ at \in Boxes /\ star \in BOOLEAN
      BY ReqFields
    <3> HIDE DEF at, star
    <3>3. n \in ReqType /\ n.lost = req[r].lost /\ n.pc = "look" /\ n.at = at /\ n.star = star /\ n.then = "done"
      <4>1. "look" \in ActPhases
        BY DEF ActPhases
      <4>2. QED
        BY <3>2, <4>1 DEF ReqType
    <3>4. SameAsk(n, req[r])
      BY <3>2 DEF SameAsk, ReqType
    <3> HIDE DEF n
    <3>5. QED
      BY <2>2, <3>1, <3>3, <3>4 DEF at, star
  <2>3. QED
    BY <2>1, <2>2
<1>8. QED
  BY <1>1, <1>3, <1>5, <1>6, <1>7 DEF is, flags

\* What the server does to a message of a request, and to its uids.
Told(r, new, old) ==
  LET c == req[r] IN
  /\ c.op \in {"read", "star"} => new.at = old.at /\ new.uid = old.uid /\ new.flags = Flagged(old.flags, r)
  /\ c.op = "move" => /\ new.at = c.to /\ new.flags = old.flags
                      /\ IF gmail THEN new.uid = old.uid ELSE new.uid = uidNext[c.to]
  /\ c.op = "delete" => /\ new.at = (IF gmail THEN "TRASH" ELSE "gone") /\ new.flags = old.flags /\ new.uid = old.uid

LEMMA EffectDoes ==
  ASSUME ActTypes, NEW r \in Reqs, Effect(r)
  PROVE  /\ srv' \in [Mails -> SrvType] /\ uidNext' \in [Boxes -> Nat]
         /\ \A b \in Boxes : uidNext[b] <= uidNext'[b]
         /\ req[r].op = "move" /\ ~gmail /\ Hit(r) # {} => uidNext[req[r].to] < uidNext'[req[r].to]
         /\ \A m \in Mails : IF m \in Hit(r) THEN Told(r, srv'[m], srv[m]) ELSE srv'[m] = srv[m]
         /\ \A j \in RowIds : /\ j \in owed => j \in owed'
                              /\ j = req[r].i /\ j \in moved /\ ~gmail => j \in owed'
                              /\ j # req[r].i /\ row[j].here /\ (\E m \in Hit(r) : Matches(j, m, srv)) => j \in owed'
         /\ owed' \subseteq RowIds
<1> DEFINE c == req[r]
           New(s) == CASE c.op \in {"read", "star"} -> [s EXCEPT !.flags = Flagged(@, r)]
                       [] c.op = "move" -> [s EXCEPT !.at = c.to, !.uid = IF gmail THEN @ ELSE uidNext[c.to]]
                       [] c.op = "delete" -> [s EXCEPT !.at = IF gmail THEN "TRASH" ELSE "gone"]
<1>1. srv' = [m \in Mails |-> IF m \in Hit(r) THEN New(srv[m]) ELSE srv[m]]
  BY DEF Effect
<1>2. c.op \in Ops /\ c.to \in Boxes /\ uidNext[c.to] \in Nat /\ c.i \in RowIds
  BY ReqFields DEF ActTypes
<1> HIDE DEF c
<1>3. ASSUME NEW s \in SrvType PROVE New(s) \in SrvType /\ Told(r, New(s), s)
  <2>1. s.flags \in SUBSET Flags /\ Flagged(s.flags, r) \in SUBSET Flags /\ s.uid \in Nat /\ s.at \in Boxes \cup {"gone"}
    BY FlagsFit DEF SrvType
  <2>2. CASE c.op \in {"read", "star"}
    <3>1. New(s) = [s EXCEPT !.flags = Flagged(s.flags, r)]
      BY <2>2
    <3>2. QED
      BY <2>1, <2>2, <3>1 DEF SrvType, Told, c
  <2>3. CASE c.op = "move"
    <3> DEFINE uid == IF gmail THEN s.uid ELSE uidNext[c.to]
    <3>1. New(s) = [s EXCEPT !.at = c.to, !.uid = uid]
      BY <2>3
    <3>2. uid \in Nat
      BY <1>2, <2>1
    <3>3. c.to \in Boxes \cup {"gone"}
      BY <1>2
    <3> HIDE DEF New
    <3>4. New(s) \in SrvType
      BY <3>1, <3>2, <3>3 DEF SrvType
    <3>5. New(s).at = c.to /\ New(s).uid = uid /\ New(s).flags = s.flags
      BY <3>1 DEF SrvType
    <3>6. QED
      BY <2>3, <3>4, <3>5 DEF Told, c
  <2>4. CASE c.op = "delete"
    <3> DEFINE at == IF gmail THEN "TRASH" ELSE "gone"
    <3>1. New(s) = [s EXCEPT !.at = at] /\ at \in Boxes \cup {"gone"}
      BY <2>4 DEF Boxes
    <3> HIDE DEF New
    <3>2. New(s) \in SrvType /\ New(s).at = at /\ New(s).uid = s.uid /\ New(s).flags = s.flags
      BY <3>1 DEF SrvType
    <3>3. QED
      BY <2>4, <3>2 DEF Told, c
  <2>5. QED
    BY <1>2, <2>2, <2>3, <2>4 DEF Ops
<1> HIDE DEF New
<1>4. srv \in [Mails -> SrvType]
  BY DEF ActTypes
<1>5. srv' \in [Mails -> SrvType] /\ \A m \in Mails : IF m \in Hit(r) THEN Told(r, srv'[m], srv[m]) ELSE srv'[m] = srv[m]
  BY <1>1, <1>3, <1>4
<1>6. /\ uidNext' \in [Boxes -> Nat] /\ \A b \in Boxes : uidNext[b] <= uidNext'[b]
      /\ c.op = "move" /\ ~gmail /\ Hit(r) # {} => uidNext[c.to] < uidNext'[c.to]
  <2>1. uidNext \in [Boxes -> Nat] /\ uidNext[c.to] + 1 \in Nat /\ uidNext[c.to] < uidNext[c.to] + 1
    BY <1>2 DEF ActTypes
  <2>2. uidNext' = IF c.op = "move" /\ ~gmail /\ Hit(r) # {} THEN [uidNext EXCEPT ![c.to] = @ + 1] ELSE uidNext
    BY DEF Effect, c
  <2>3. QED
    BY <1>2, <2>1, <2>2
<1>7. owed' = owed \cup {j \in RowIds \ {c.i} : row[j].here /\ \E m \in Hit(r) : Matches(j, m, srv)}
                    \cup (IF c.i \in moved /\ ~gmail THEN {c.i} ELSE {})
  BY DEF Effect, c
<1>8. owed \subseteq RowIds
  BY DEF ActTypes
<1>9. QED
  BY <1>2, <1>5, <1>6, <1>7, <1>8 DEF c

LEMMA AnswerDoes ==
  ASSUME ActTypes, NEW r \in Reqs, Answer(r), req[r].of \in Mails
  PROVE  /\ req[r].pc = "remote" /\ Effect(r)
         /\ \E n \in ReqType :
              /\ req' = [req EXCEPT ![r] = n] /\ SameAsk(n, req[r])
              /\ gmail => n.got = srv'[req[r].of].flags
              /\ n.pc = CASE req[r].op \in {"read", "star"} -> IF gmail THEN "settle" ELSE "next"
                          [] req[r].op = "move" -> "settle"
                          [] req[r].op = "delete" -> "erase"
<1> DEFINE c == req[r]
           pc == CASE c.op \in {"read", "star"} -> IF gmail THEN "settle" ELSE "next"
                    [] c.op = "move" -> "settle"
                    [] c.op = "delete" -> "erase"
           now == UNION {srv'[m].flags : m \in Hit(r)}
           got == IF gmail THEN now ELSE {}
           n == [c EXCEPT !.pc = pc, !.got = got]
<1>1. req' = [req EXCEPT ![r] = n] /\ c.pc = "remote" /\ Effect(r)
  BY DEF Answer
<1>2. c \in ReqType /\ c.op \in Ops
  BY ReqFields
<1>3. pc \in ActPhases
  BY <1>2 DEF ActPhases, Ops
<1>4. gmail => got = srv'[c.of].flags
  <2>1. gmail => Hit(r) = {c.of}
    BY DEF Hit
  <2>2. QED
    BY <2>1
<1>5. got \in SUBSET Flags
  <2>1. srv' \in [Mails -> SrvType]
    BY <1>1, EffectDoes
  <2>2. srv'[c.of] \in SrvType
    BY <2>1
  <2>3. srv'[c.of].flags \in SUBSET Flags
    BY <2>2 DEF SrvType
  <2>4. QED
    BY <1>4, <2>3
<1> HIDE DEF pc, got, c
<1>6. n \in ReqType /\ n.pc = pc /\ n.got = got
  BY <1>2, <1>3, <1>5 DEF ReqType
<1>7. SameAsk(n, c)
  BY <1>2 DEF SameAsk, ReqType
<1> HIDE DEF n
<1>8. QED
  BY <1>1, <1>4, <1>6, <1>7 DEF pc, c

LEMMA AnswerLostDoes ==
  ASSUME ActTypes, NEW r \in Reqs, AnswerLost(r)
  PROVE  /\ req[r].pc = "remote" /\ Effect(r)
         /\ \E n \in ReqType : req' = [req EXCEPT ![r] = n] /\ SameAsk(n, req[r]) /\ n.pc = "remote" /\ n.lost
<1> DEFINE n == [req[r] EXCEPT !.lost = TRUE]
<1>1. req' = [req EXCEPT ![r] = n] /\ req[r].pc = "remote" /\ Effect(r)
  BY DEF AnswerLost, ActTypes
<1>2. req[r] \in ReqType
  BY ReqFields
<1>3. n \in ReqType /\ n.pc = req[r].pc /\ n.lost
  BY <1>2 DEF ReqType
<1>4. SameAsk(n, req[r])
  BY <1>2 DEF SameAsk, ReqType
<1> HIDE DEF n
<1>5. QED
  BY <1>1, <1>3, <1>4

LEMMA GiveUpDoes ==
  ASSUME ActTypes, NEW r \in Reqs, GiveUp(r)
  PROVE  /\ req[r].pc = "remote" /\ owed' = IF req[r].lost THEN owed \cup {req[r].i} ELSE owed
         /\ \E n \in ReqType : /\ req' = [req EXCEPT ![r] = n] /\ SameAsk(n, req[r]) /\ n.lost = req[r].lost
                               /\ n.pc = IF req[r].op \in {"read", "star"} THEN "undo" ELSE "done"
<1>1. PICK pc \in ActPhases : Goes(r, pc) /\ pc = IF req[r].op \in {"read", "star"} THEN "undo" ELSE "done"
  BY DEF GiveUp, Raise, ActPhases
<1>2. QED
  BY <1>1, GoesOn DEF GiveUp

LEMMA SettleDoes ==
  ASSUME ActTypes, NEW r \in Reqs, Settle(r)
  PROVE  LET c == req[r]
             i == c.i
         IN  /\ c.pc = "settle" /\ OnlyRow(i) /\ row'[i].here = row[i].here
             /\ row[i].here => /\ row'[i].of = row[i].of /\ row'[i].uid = row[i].uid
                               /\ row'[i].labels = row[i].labels
                               /\ gmail => /\ row'[i].at = IF c.op = "move" THEN c.to ELSE row[i].at
                                           /\ row'[i].is = c.got /\ row'[i].flags = c.got
             /\ IF gmail THEN moved' = moved /\ owed' = owed
                ELSE /\ owed' = owed \cup {i} /\ moved' \in {moved, moved \cup {i}}
                     /\ i \notin moved' => row'[i] = row[i]
             /\ \E n \in ReqType :
                  /\ req' = [req EXCEPT ![r] = n] /\ SameAsk(n, c) /\ n.lost = c.lost /\ n.pc \in {"done", "next", "look"}
                  /\ n.pc = "look" => n.then = "next"
                  /\ gmail => IF c.op = "read" THEN n.pc = "next"
                              ELSE /\ n.pc = "look" /\ n.star = ("star" \in c.got)
                                   /\ n.at = IF c.op = "move" THEN c.to ELSE c.snap[i][1]
<1> DEFINE c == req[r]
<1>1. PICK i \in RowIds : i = c.i
  BY ReqFields
<1> DEFINE taken == \E j \in RowIds \ {i} : row[j].here /\ <<row[j].at, row[j].uid>> = <<c.to, row[i].uid>>
           at == IF c.op = "move" THEN c.to ELSE row[i].at
           got == c.got
           new == IF gmail THEN [row[i] EXCEPT !.at = at, !.is = got, !.flags = got] ELSE [row[i] EXCEPT !.at = c.to]
           box == IF c.op = "move" THEN c.to ELSE c.snap[i][1]
           star == "star" \in IF gmail THEN got ELSE row[i].is
           n == [c EXCEPT !.pc = "look", !.then = "next", !.at = box, !.star = star]
<1>2. c \in ReqType /\ c.pc = "settle" /\ c.to \in Boxes /\ at \in Boxes /\ got \in SUBSET Flags /\ box \in Boxes
      /\ star \in BOOLEAN /\ row[i] \in RowType
  <2>1. c \in ReqType /\ c.to \in Boxes /\ got \in SUBSET Flags /\ box \in Boxes
    BY ReqFields
  <2>2. row[i] \in RowType /\ at \in Boxes
    BY <2>1, RowFields
  <2>3. star \in BOOLEAN
    OBVIOUS
  <2>4. QED
    BY <2>1, <2>2, <2>3 DEF Settle
<1>3. new \in RowType /\ new.here = row[i].here /\ new.of = row[i].of /\ new.uid = row[i].uid /\ new.labels = row[i].labels
      /\ (gmail => new.at = at /\ new.is = got /\ new.flags = got)
  <2> HIDE DEF at, got, c
  <2>1. CASE gmail
    BY <1>2, <2>1 DEF RowType
  <2>2. CASE ~gmail
    BY <1>2, <2>2 DEF RowType
  <2>3. QED
    BY <2>1, <2>2
<1>4. /\ IF ~gmail /\ taken THEN Goes(r, "done") /\ UNCHANGED <<row, moved>>
         ELSE /\ Write(i, new)
              /\ moved' = IF gmail THEN moved ELSE moved \cup {i}
              /\ IF c.op = "read" THEN Goes(r, "next") ELSE req' = [req EXCEPT ![r] = n]
      /\ owed' = IF gmail THEN owed ELSE owed \cup {i}
  <2>1. gmail => [OnRow(r) EXCEPT !.at = IF c.op = "move" THEN c.to ELSE @, !.is = c.got, !.flags = c.got] = new
    BY <1>1, <1>2 DEF OnRow, RowType
  <2>2. ~gmail => [OnRow(r) EXCEPT !.at = c.to] = new
    BY <1>1 DEF OnRow
  <2> HIDE DEF new
  <2>3. (IF gmail THEN [OnRow(r) EXCEPT !.at = IF c.op = "move" THEN c.to ELSE @, !.is = c.got, !.flags = c.got]
                  ELSE [OnRow(r) EXCEPT !.at = c.to]) = new
    BY <2>1, <2>2
  <2>4. OnRow(r) = row[i]
    BY <1>1 DEF OnRow
  <2>5. QED
    BY <1>1, <2>3, <2>4 DEF Settle, Raise
<1> HIDE DEF new
<1>5. n \in ReqType /\ n.pc = "look" /\ n.then = "next" /\ n.at = box /\ n.star = star /\ n.lost = c.lost
  <2> HIDE DEF box, star, c
  <2>1. QED
    <3>1. "look" \in ActPhases
      BY DEF ActPhases
    <3>2. QED
      BY <1>2, <3>1 DEF ReqType
<1>6. SameAsk(n, c)
  <2> HIDE DEF box, star, c
  <2>1. QED
    BY <1>2 DEF SameAsk, ReqType
<1> HIDE DEF n
<1>7. "done" \in ActPhases /\ "next" \in ActPhases
  BY DEF ActPhases
<1>8. CASE ~gmail /\ taken
  <2>1. \E k \in ReqType : req' = [req EXCEPT ![r] = k] /\ SameAsk(k, c) /\ k.lost = c.lost /\ k.pc = "done"
    BY <1>4, <1>7, <1>8, GoesOn
  <2>2. OnlyRow(i) /\ row' = row
    BY <1>4, <1>8 DEF OnlyRow, ActTypes
  <2>3. QED
    BY <1>1, <1>2, <1>4, <1>8, <2>1, <2>2
<1>9. CASE ~(~gmail /\ taken)
  <2>1. OnlyRow(i) /\ row'[i] = IF row[i].here THEN new ELSE row[i]
    BY <1>3, <1>4, <1>9, Written DEF OnlyRow
  <2>2. moved' = IF gmail THEN moved ELSE moved \cup {i}
    BY <1>4, <1>9
  <2>3. \E k \in ReqType :
           /\ req' = [req EXCEPT ![r] = k] /\ SameAsk(k, c) /\ k.lost = c.lost /\ k.pc \in {"done", "next", "look"}
           /\ k.pc = "look" => k.then = "next"
           /\ gmail => IF c.op = "read" THEN k.pc = "next"
                       ELSE k.pc = "look" /\ k.star = ("star" \in got) /\ k.at = box
    <3>1. CASE c.op = "read"
      <4>1. \E k \in ReqType : req' = [req EXCEPT ![r] = k] /\ SameAsk(k, c) /\ k.lost = c.lost /\ k.pc = "next"
        BY <1>4, <1>7, <1>9, <3>1, GoesOn
      <4>2. QED
        BY <3>1, <4>1
    <3>2. CASE c.op # "read"
      <4>1. gmail => n.star = ("star" \in got)
        BY <1>5
      <4>2. req' = [req EXCEPT ![r] = n]
        BY <1>4, <1>9, <3>2
      <4>3. QED
        BY <1>5, <1>6, <3>2, <4>1, <4>2
    <3>3. QED
      BY <3>1, <3>2
  <2>4. row'[i].here = row[i].here
    BY <1>3, <2>1
  <2>5. row[i].here => /\ row'[i].of = row[i].of /\ row'[i].uid = row[i].uid /\ row'[i].labels = row[i].labels
                       /\ gmail => row'[i].at = at /\ row'[i].is = got /\ row'[i].flags = got
    BY <1>3, <2>1
  <2>6. QED
    BY <1>1, <1>2, <1>4, <2>1, <2>2, <2>3, <2>4, <2>5
<1>10. QED
  BY <1>8, <1>9

\* What a sync may make of row i: a new row of a message it saw, the row with what it saw
\* of a message that matches it, or no row.
Made(i, m, v) == made < i /\ i <= made' /\ v[m].at # "gone" /\ row'[i] = RowOf(m, v[m])
Found(i, m, v) ==
  /\ row[i].here /\ v[m].at # "gone" /\ Matches(i, m, v)
  /\ row'[i].here /\ row'[i].of = row[i].of /\ row'[i].uid = row[i].uid
  /\ row'[i].at = (IF gmail THEN v[m].at ELSE row[i].at)
  /\ row'[i].is = v[m].flags /\ row'[i].flags = v[m].flags

LEMMA ApplyDoes ==
  ASSUME ActTypes, Apply
  PROVE  /\ made' \in Nat /\ made <= made' /\ row' \in [RowIds -> RowType] /\ owed' \subseteq RowIds
         /\ \E v \in view :
              /\ \A i \in RowIds : (\E m \in Mails : Made(i, m, v) \/ Found(i, m, v)) \/ ~row'[i].here
              /\ \A i \in RowIds \ owed' : row'[i].here =>
                   v = srv /\ ~Busy(i) /\ row'[i].labels = LabelsOf(row'[i].at, "star" \in row'[i].is)
<1>1. PICK v \in view :
    LET found(i) == {m \in Mails : v[m].at # "gone" /\ row[i].here /\ Matches(i, m, v)}
        new == {m \in Mails : v[m].at # "gone" /\ ~\E i \in RowIds : m \in found(i)}
        place(m) == made + Cardinality({n \in new : n <= m})
        Fresh(i) == LET s == v[CHOOSE m \in found(i) : TRUE]
                        at == IF gmail THEN s.at ELSE row[i].at
                    IN  IF row[i].is = s.flags /\ row[i].flags = s.flags /\ row[i].at = at THEN row[i]
                        ELSE [row[i] EXCEPT !.at = at, !.is = s.flags, !.flags = s.flags,
                                            !.labels = LabelsOf(at, "star" \in s.flags)]
    IN  /\ made + Cardinality(new) <= MaxRows
        /\ row' = [i \in RowIds |->
             IF \E m \in new : place(m) = i THEN LET m == CHOOSE n \in new : place(n) = i IN RowOf(m, v[m])
             ELSE IF found(i) # {} THEN Fresh(i) ELSE Unfound(i)]
        /\ made' = made + Cardinality(new)
        /\ owed' = {i \in RowIds : row'[i].here /\ (v # srv \/ Busy(i) \/ row'[i].labels #
                                                      LabelsOf(row'[i].at, "star" \in row'[i].is))}
  BY DEF Apply
<1> DEFINE found(i) == {m \in Mails : v[m].at # "gone" /\ row[i].here /\ Matches(i, m, v)}
           new == {m \in Mails : v[m].at # "gone" /\ ~\E i \in RowIds : m \in found(i)}
           upto(m) == {n \in new : n <= m}
           place(m) == made + Cardinality(upto(m))
           Fresh(i) == LET s == v[CHOOSE m \in found(i) : TRUE]
                           at == IF gmail THEN s.at ELSE row[i].at
                       IN  IF row[i].is = s.flags /\ row[i].flags = s.flags /\ row[i].at = at THEN row[i]
                           ELSE [row[i] EXCEPT !.at = at, !.is = s.flags, !.flags = s.flags,
                                               !.labels = LabelsOf(at, "star" \in s.flags)]
<1>2. /\ made + Cardinality(new) <= MaxRows
      /\ row' = [i \in RowIds |->
             IF \E m \in new : place(m) = i THEN LET m == CHOOSE n \in new : place(n) = i IN RowOf(m, v[m])
             ELSE IF found(i) # {} THEN Fresh(i) ELSE Unfound(i)]
      /\ made' = made + Cardinality(new)
      /\ owed' = {i \in RowIds : row'[i].here /\ (v # srv \/ Busy(i) \/ row'[i].labels #
                                                      LabelsOf(row'[i].at, "star" \in row'[i].is))}
  BY <1>1
<1>3. v \in [Mails -> SrvType] /\ made \in Nat
  BY DEF ActTypes
<1>4. \A i : found(i) = {m \in Mails : v[m].at # "gone" /\ row[i].here /\ Matches(i, m, v)}
  OBVIOUS
<1>5. new \subseteq Mails /\ \A m \in new : v[m].at # "gone"
  OBVIOUS
<1>6. IsFiniteSet(new) /\ Cardinality(new) \in Nat
  BY <1>5, ActAssumption, FS_Subset, FS_CardinalityType
<1> HIDE DEF new
<1>7. ASSUME NEW m \in new PROVE place(m) \in Nat /\ made < place(m) /\ place(m) <= made + Cardinality(new)
  <2>1. upto(m) \subseteq new /\ m \in upto(m)
    <3>1. m \in Nat
      BY <1>5, FirstRow
    <3>2. QED
      BY <3>1
  <2>2. IsFiniteSet(upto(m)) /\ Cardinality(upto(m)) \in Nat /\ Cardinality(upto(m)) <= Cardinality(new)
    BY <1>6, <2>1, FS_Subset, FS_CardinalityType
  <2>3. Cardinality(upto(m)) # 0
    BY <2>1, <2>2, FS_EmptySet
  <2> HIDE DEF upto
  <2>4. QED
    BY <1>3, <1>6, <2>2, <2>3
<1> HIDE DEF place
<1>8. ASSUME NEW i \in RowIds, found(i) # {}
      PROVE  /\ Fresh(i) \in RowType
             /\ \E m \in Mails :
                  /\ row[i].here /\ v[m].at # "gone" /\ Matches(i, m, v)
                  /\ Fresh(i).here /\ Fresh(i).of = row[i].of /\ Fresh(i).uid = row[i].uid
                  /\ Fresh(i).at = (IF gmail THEN v[m].at ELSE row[i].at)
                  /\ Fresh(i).is = v[m].flags /\ Fresh(i).flags = v[m].flags
  <2>1. PICK m \in found(i) : m = CHOOSE k \in found(i) : TRUE
    BY <1>8
  <2>2. m \in Mails /\ v[m].at # "gone" /\ row[i].here /\ Matches(i, m, v)
    BY <2>1, <1>4
  <2> DEFINE s == v[m]
             at == IF gmail THEN s.at ELSE row[i].at
             labels == LabelsOf(at, "star" \in s.flags)
             new1 == [row[i] EXCEPT !.at = at, !.is = s.flags, !.flags = s.flags, !.labels = labels]
  <2>3. Fresh(i) = IF row[i].is = s.flags /\ row[i].flags = s.flags /\ row[i].at = at THEN row[i] ELSE new1
    BY <2>1
  <2>4. s \in SrvType /\ s.flags \in SUBSET Flags /\ s.at \in Boxes
    BY <1>3, <2>2 DEF SrvType
  <2>5. row[i] \in RowType /\ at \in Boxes
    BY <2>4, RowFields
  <2>6. labels \in SUBSET SystemLabels
    BY <2>5, LabelsFit DEF SystemLabels, LabelsOf
  <2> HIDE DEF s, at, labels, Fresh, found
  <2>7. new1 \in RowType /\ new1.here = row[i].here /\ new1.of = row[i].of /\ new1.uid = row[i].uid /\ new1.at = at
        /\ new1.is = s.flags /\ new1.flags = s.flags
    BY <2>4, <2>5, <2>6 DEF RowType
  <2> HIDE DEF new1
  <2>8. /\ Fresh(i) \in RowType /\ Fresh(i).here /\ Fresh(i).of = row[i].of /\ Fresh(i).uid = row[i].uid
        /\ Fresh(i).at = at /\ Fresh(i).is = s.flags /\ Fresh(i).flags = s.flags
    BY <2>2, <2>3, <2>5, <2>7
  <2>9. QED
    BY <2>2, <2>8 DEF at, s
<1> HIDE DEF Fresh, found
<1>9. ASSUME NEW i \in RowIds
      PROVE  row'[i] \in RowType /\ ((\E m \in Mails : Made(i, m, v) \/ Found(i, m, v)) \/ ~row'[i].here)
  <2>1. CASE \E m \in new : place(m) = i
    <3>1. PICK m \in new : m = (CHOOSE n \in new : place(n) = i) /\ place(m) = i
      BY <2>1
    <3>2. row'[i] = RowOf(m, v[m])
      BY <1>2, <2>1, <3>1
    <3>3. v[m] \in SrvType /\ v[m].at # "gone" /\ m \in Mails
      BY <1>3, <1>5
    <3>4. Made(i, m, v)
      BY <1>2, <1>7, <3>1, <3>2, <3>3 DEF Made
    <3>5. row'[i] \in RowType
      BY <3>2, <3>3, RowOfIsRow
    <3>6. QED
      BY <3>3, <3>4, <3>5
  <2>2. CASE ~(\E m \in new : place(m) = i) /\ found(i) # {}
    <3>1. row'[i] = Fresh(i)
      BY <1>2, <2>2
    <3>2. QED
      BY <1>8, <2>2, <3>1 DEF Found
  <2>3. CASE ~(\E m \in new : place(m) = i) /\ found(i) = {}
    <3>1. row'[i] = NoRow
      BY <1>2, <2>3 DEF Unfound
    <3>2. QED
      BY <3>1, NoRowIsRow
  <2>4. QED
    BY <2>1, <2>2, <2>3
<1>10. row' \in [RowIds -> RowType]
  <2> DEFINE new2(i) == IF \E m \in new : place(m) = i THEN LET m == CHOOSE n \in new : place(n) = i IN RowOf(m, v[m])
                        ELSE IF found(i) # {} THEN Fresh(i) ELSE Unfound(i)
  <2>1. row' = [i \in RowIds |-> new2(i)]
    BY <1>2
  <2> HIDE DEF new2
  <2>2. QED
    BY <1>9, <2>1
<1>11. made' \in Nat /\ made <= made' /\ owed' \subseteq RowIds
  BY <1>2, <1>3, <1>6
<1>12. \A i \in RowIds \ owed' : row'[i].here =>
                   v = srv /\ ~Busy(i) /\ row'[i].labels = LabelsOf(row'[i].at, "star" \in row'[i].is)
  BY <1>2
<1>13. QED
  BY <1>9, <1>10, <1>11, <1>12
-----------------------------------------------------------------------------
(* Whom an address is of. *)

Active(r) == req[r].pc \notin {"idle", "next", "done"}

\* The address was given to message m, or to none, and will not be given again.
Owns(at, uid, m) == uid < uidNext[at] /\ \A n \in Mails : srv[n].at = at /\ srv[n].uid = uid => n = m

MailStands ==
  /\ gmail => \A m \in Mails : srv[m].at # "gone"
  /\ ~gmail => \A v \in view \cup {srv} : \A m \in Mails : v[m].at # "gone" => Owns(v[m].at, v[m].uid, m)
RowStands(i) ==
  row[i].here => /\ i <= made /\ row[i].of \in Mails
                 /\ ~gmail /\ i \notin moved => Owns(row[i].at, row[i].uid, row[i].of)
AskFits(r) ==
  LET c == req[r] IN
  /\ (\A i \in c.on : i <= made) /\ \A t \in c.todo : t[2] \in c.on
  /\ ~gmail => \A i \in c.on \ moved : row[i].here => c.snap[i][1] = row[i].at /\ c.snap[i][2] = row[i].uid
  /\ Active(r) => /\ c.i \in c.on /\ c.of \in Mails /\ (row[c.i].here => c.of = row[c.i].of)
                  /\ ~gmail /\ c.i \notin moved => Owns(c.snap[c.i][1], c.snap[c.i][2], c.of)
HitInv == MailStands /\ (\A i \in RowIds : RowStands(i)) /\ \A r \in Reqs : AskFits(r)

RowKeeps(i) ==
  row'[i].here => /\ row[i].here /\ row'[i].of = row[i].of /\ row'[i].uid = row[i].uid
                  /\ i \notin moved' => i \notin moved /\ row'[i].at = row[i].at

LEMMA AskMoves ==
  ASSUME ActTypes, HitInv, NEW r \in Reqs, NEW n \in ReqType, req' = [req EXCEPT ![r] = n],
         n.on = req[r].on, n.snap = req[r].snap, n.todo \subseteq req[r].todo,
         UNCHANGED <<world, srv, uidNext, view, made>>, moved \subseteq moved', \A i \in RowIds : RowKeeps(i),
         n.pc \notin {"idle", "next", "done"} =>
           /\ n.i \in n.on /\ n.of \in Mails /\ (row'[n.i].here => n.of = row[n.i].of)
           /\ ~gmail /\ n.i \notin moved' => Owns(n.snap[n.i][1], n.snap[n.i][2], n.of)
  PROVE  HitInv'
<1>1. (gmail' <=> gmail) /\ \A at, uid, m : Owns(at, uid, m)' <=> Owns(at, uid, m)
  BY DEF Owns, gmail
<1>2. MailStands'
  BY <1>1 DEF HitInv, MailStands, Owns
<1>3. ASSUME NEW i \in RowIds PROVE RowStands(i)'
  <2>1. RowKeeps(i) /\ RowStands(i)
    BY DEF HitInv
  <2>2. QED
    BY <1>1, <2>1 DEF RowStands, RowKeeps, Owns
<1>4. ASSUME NEW q \in Reqs PROVE AskFits(q)'
  <2>1. AskFits(q) /\ req[q].on \subseteq RowIds /\ req[q].i \in RowIds
    BY ReqFields DEF HitInv
  <2>2. \A i \in req[q].on : RowKeeps(i)
    BY <2>1
  <2>3. CASE q # r
    <3>1. req'[q] = req[q]
      BY <2>3 DEF ActTypes
    <3>2. Active(q) => RowKeeps(req[q].i)
      BY <2>1
    <3>3. QED
      <4>1. Active(q)' <=> Active(q)
        BY <3>1 DEF Active
      <4>2. (\A i \in req'[q].on : i <= made') /\ \A t \in req'[q].todo : t[2] \in req'[q].on
        BY <2>1, <3>1 DEF AskFits
      <4>3. ~gmail' => \A i \in req'[q].on \ moved' : row'[i].here =>
              req'[q].snap[i][1] = row'[i].at /\ req'[q].snap[i][2] = row'[i].uid
        BY <1>1, <2>1, <2>2, <3>1 DEF AskFits, RowKeeps
      <4>4. Active(q)' => /\ req'[q].i \in req'[q].on /\ req'[q].of \in Mails
                          /\ (row'[req'[q].i].here => req'[q].of = row'[req'[q].i].of)
        BY <2>1, <3>1, <3>2, <4>1 DEF AskFits, RowKeeps
      <4>5. PICK a, u, o : a = req[q].snap[req[q].i][1] /\ u = req[q].snap[req[q].i][2] /\ o = req[q].of
        OBVIOUS
      <4>6. Active(q)' /\ ~gmail' /\ req'[q].i \notin moved' => Owns(a, u, o)
        BY <1>1, <2>1, <3>1, <4>1, <4>5 DEF AskFits
      <4>7. Active(q)' /\ ~gmail' /\ req'[q].i \notin moved' => Owns(a, u, o)'
        BY <1>1, <4>6
      <4>8. a = req'[q].snap[req'[q].i][1] /\ u = req'[q].snap[req'[q].i][2] /\ o = req'[q].of
        BY <3>1, <4>5
      <4>9. QED
        BY <4>2, <4>3, <4>4, <4>7, <4>8 DEF AskFits, Owns
  <2>4. CASE q = r
    <3>1. req'[r] = n
      BY DEF ActTypes
    <3>2. (\A i \in n.on : i <= made') /\ \A t \in n.todo : t[2] \in n.on
      BY <2>1, <2>4 DEF AskFits
    <3>3. ~gmail => \A i \in n.on \ moved' : row'[i].here => n.snap[i][1] = row'[i].at /\ n.snap[i][2] = row'[i].uid
      BY <2>1, <2>2, <2>4 DEF AskFits, RowKeeps
    <3>4. Active(r)' => n.pc \notin {"idle", "next", "done"}
      BY <3>1 DEF Active
    <3>5. Active(r)' /\ row'[n.i].here => n.of = row'[n.i].of
      BY <2>1, <2>2, <2>4, <3>4 DEF RowKeeps
    <3>6. QED
      BY <1>1, <2>4, <3>1, <3>2, <3>3, <3>4, <3>5 DEF AskFits, Owns
  <2>5. QED
    BY <2>3, <2>4
<1>5. QED
  BY <1>2, <1>3, <1>4 DEF HitInv

\* While a request is at work on a row it has what it needs to go on.
LEMMA WorkKeeps ==
  ASSUME ActTypes, HitInv, NEW r \in Reqs, Active(r), NEW n \in ReqType, req' = [req EXCEPT ![r] = n],
         SameAsk(n, req[r]), UNCHANGED <<world, srv, uidNext, view, made>>, moved \subseteq moved',
         \A i \in RowIds : RowKeeps(i)
  PROVE  HitInv'
<1>1. AskFits(r) /\ req[r].i \in RowIds
  BY ReqFields DEF HitInv
<1>2. n.i \in n.on /\ n.of \in Mails /\ (row[n.i].here => n.of = row[n.i].of) /\ RowKeeps(n.i)
  BY <1>1 DEF AskFits, SameAsk
<1>3. ~gmail /\ n.i \notin moved' => Owns(n.snap[n.i][1], n.snap[n.i][2], n.of)
  BY <1>1 DEF AskFits, SameAsk
<1>4. n.on = req[r].on /\ n.snap = req[r].snap /\ n.todo \subseteq req[r].todo
  BY DEF SameAsk
<1>5. row'[n.i].here => n.of = row[n.i].of
  BY <1>2 DEF RowKeeps
<1>6. QED
  BY <1>2, <1>3, <1>4, <1>5, AskMoves

LEMMA OwnsStays ==
  ASSUME ActTypes, NEW r \in Reqs, Effect(r), ~gmail, NEW at \in Boxes, NEW uid \in Nat, NEW m, Owns(at, uid, m)
  PROVE  Owns(at, uid, m)'
<1>1. uidNext[at] \in Nat /\ uidNext'[at] \in Nat /\ uidNext[at] <= uidNext'[at] /\ uid < uidNext'[at]
  BY EffectDoes DEF ActTypes, Owns
<1>2. ASSUME NEW n \in Mails, srv'[n].at = at, srv'[n].uid = uid PROVE n = m
  <2>1. srv[n].at = at /\ srv[n].uid = uid => n = m
    BY DEF Owns
  <2>2. CASE n \notin Hit(r)
    BY <1>2, <2>1, <2>2, EffectDoes
  <2>3. CASE n \in Hit(r)
    <3>1. Told(r, srv'[n], srv[n]) /\ req[r].op \in Ops
      BY <2>3, EffectDoes, ReqFields
    <3>2. at # "gone" /\ uid # uidNext[at]
      BY <1>1 DEF Owns, Boxes, ActTypes
    <3>3. QED
      BY <1>2, <2>1, <3>1, <3>2 DEF Told, Ops
  <2>4. QED
    BY <2>2, <2>3
<1>3. QED
  BY <1>1, <1>2 DEF Owns

LEMMA ServerMoves ==
  ASSUME ActTypes, HitInv, NEW r \in Reqs, Active(r), Effect(r), UNCHANGED <<world, row, made, view, moved>>,
         NEW k \in ReqType, req' = [req EXCEPT ![r] = k], SameAsk(k, req[r])
  PROVE  HitInv'
<1>0. gmail' <=> gmail
  BY DEF gmail
<1>1. srv \in [Mails -> SrvType] /\ srv' \in [Mails -> SrvType]
  BY EffectDoes DEF ActTypes
<1>2. ASSUME gmail, NEW m \in Mails PROVE srv'[m].at # "gone"
  <2>1. srv[m].at # "gone" /\ req[r].to # "gone" /\ req[r].op \in Ops
    BY <1>2, ReqFields DEF HitInv, MailStands, Boxes
  <2>2. IF m \in Hit(r) THEN Told(r, srv'[m], srv[m]) ELSE srv'[m] = srv[m]
    BY EffectDoes
  <2>3. QED
    BY <1>2, <2>1, <2>2 DEF Told, Ops
<1>3. ASSUME ~gmail, NEW m \in Mails, srv'[m].at # "gone" PROVE Owns(srv[m].at, srv[m].uid, m)'
  <2>1. IF m \in Hit(r) THEN Told(r, srv'[m], srv[m]) ELSE srv'[m] = srv[m]
    BY EffectDoes
  <2>2. srv[m] \in SrvType /\ req[r].op \in Ops /\ req[r].to \in Boxes /\ req[r].i \in RowIds
        /\ req[r].snap[req[r].i] \in Boxes \X Nat
    BY <1>1, ReqFields
  <2>3. CASE srv'[m].at = srv[m].at /\ srv'[m].uid = srv[m].uid
    <3>1. srv[m].at \in Boxes /\ srv[m].uid \in Nat /\ Owns(srv[m].at, srv[m].uid, m)
      BY <1>3, <2>2, <2>3 DEF HitInv, MailStands, SrvType
    <3>2. PICK a \in Boxes, u \in Nat : a = srv[m].at /\ u = srv[m].uid
      BY <3>1
    <3>3. Owns(a, u, m)'
      BY <1>3, <3>1, <3>2, OwnsStays
    <3>4. QED
      BY <2>3, <3>2, <3>3 DEF Owns
  <2>4. CASE ~(srv'[m].at = srv[m].at /\ srv'[m].uid = srv[m].uid)
    <3>1. m \in Hit(r) /\ req[r].op = "move" /\ srv'[m].at = req[r].to /\ srv'[m].uid = uidNext[req[r].to]
      BY <1>3, <2>1, <2>2, <2>4 DEF Told, Ops
    <3>2. uidNext[req[r].to] < uidNext'[req[r].to]
      BY <1>3, <3>1, EffectDoes
    <3>3. ASSUME NEW n \in Mails, srv'[n].at = req[r].to, srv'[n].uid = uidNext[req[r].to] PROVE n = m
      <4>1. CASE n \in Hit(r)
        <5>1. /\ <<srv[n].at, srv[n].uid>> = req[r].snap[req[r].i]
              /\ <<srv[m].at, srv[m].uid>> = req[r].snap[req[r].i]
          BY <1>3, <3>1, <4>1 DEF Hit
        <5>2. srv[n].at = srv[m].at /\ srv[n].uid = srv[m].uid /\ srv[m].at \in Boxes
          BY <2>2, <5>1
        <5>3. Owns(srv[m].at, srv[m].uid, m)
          BY <1>3, <5>2 DEF HitInv, MailStands, Boxes
        <5>4. QED
          BY <5>2, <5>3 DEF Owns
      <4>2. CASE n \notin Hit(r)
        <5>1. srv[n].at = req[r].to /\ srv[n].uid = uidNext[req[r].to]
          BY <3>3, <4>2, EffectDoes
        <5>2. srv[n].at # "gone"
          BY <2>2, <5>1 DEF Boxes
        <5>3. srv[n].uid < uidNext[srv[n].at]
          BY <1>3, <5>2 DEF HitInv, MailStands, Owns
        <5>4. uidNext[req[r].to] \in Nat
          BY <2>2 DEF ActTypes
        <5>5. QED
          BY <5>1, <5>3, <5>4
      <4>3. QED
        BY <4>1, <4>2
    <3>4. QED
      BY <3>1, <3>2, <3>3 DEF Owns
  <2>5. QED
    BY <2>3, <2>4
<1>4. ASSUME ~gmail, NEW v \in view, NEW m \in Mails, v[m].at # "gone" PROVE Owns(v[m].at, v[m].uid, m)'
  <2>1. v \in [Mails -> SrvType]
    BY DEF ActTypes
  <2>2. v[m] \in SrvType
    BY <2>1
  <2>3. v[m].at \in Boxes /\ v[m].uid \in Nat /\ Owns(v[m].at, v[m].uid, m)
    BY <1>4, <2>2 DEF SrvType, HitInv, MailStands
  <2>4. QED
    BY <1>4, <2>3, OwnsStays
<1>5. MailStands'
  BY <1>0, <1>2, <1>3, <1>4 DEF MailStands, Owns
<1>6. ASSUME NEW i \in RowIds PROVE RowStands(i)'
  <2>1. RowStands(i) /\ row'[i] = row[i] /\ row[i].at \in Boxes /\ row[i].uid \in Nat /\ row[i].of \in Mails \cup {0}
    BY RowFields DEF HitInv
  <2>2. PICK a \in Boxes, u \in Nat, o \in Mails \cup {0} : a = row[i].at /\ u = row[i].uid /\ o = row[i].of
    BY <2>1
  <2>3. ~gmail /\ Owns(a, u, o) => Owns(a, u, o)'
    BY OwnsStays
  <2>4. QED
    BY <1>0, <2>1, <2>2, <2>3 DEF RowStands, Owns
<1>7. ASSUME NEW q \in Reqs PROVE AskFits(q)'
  <2>1. SameAsk(req'[q], req[q]) /\ (Active(q)' => Active(q))
    BY DEF ActTypes, SameAsk, Active
  <2>2. AskFits(q) /\ req[q].i \in RowIds
    BY ReqFields DEF HitInv
  <2>3. PICK a \in Boxes, u \in Nat, o \in Mails \cup {0} : a = req[q].snap[req[q].i][1] /\ u = req[q].snap[req[q].i][2] /\ o = req[q].of
    <3>1. req[q].snap[req[q].i] \in Boxes \X Nat
      BY <2>2, ReqFields
    <3>2. req[q].of \in Mails \cup {0}
      BY ReqFields DEF ReqType
    <3>3. QED
      BY <3>1, <3>2
  <2>4. ~gmail /\ Owns(a, u, o) => Owns(a, u, o)'
    BY OwnsStays
  <2>5. (\A i \in req[q].on : i <= made) /\ \A t \in req[q].todo : t[2] \in req[q].on
    BY <2>2 DEF AskFits
  <2>6. Active(q)' => /\ req[q].i \in req[q].on /\ req[q].of \in Mails /\ (row[req[q].i].here => req[q].of = row[req[q].i].of)
                      /\ ~gmail /\ req[q].i \notin moved => Owns(a, u, o)'
    BY <2>1, <2>2, <2>3, <2>4 DEF AskFits
  <2>7. QED
    <3>1. /\ req'[q].on = req[q].on /\ req'[q].todo = req[q].todo /\ req'[q].snap = req[q].snap
          /\ req'[q].i = req[q].i /\ req'[q].of = req[q].of
      BY <2>1 DEF SameAsk
    <3>2. (\A i \in req'[q].on : i <= made') /\ \A t \in req'[q].todo : t[2] \in req'[q].on
      BY <1>0, <2>5, <3>1
    <3>3. ~gmail' => \A i \in req'[q].on \ moved' : row'[i].here =>
            req'[q].snap[i][1] = row'[i].at /\ req'[q].snap[i][2] = row'[i].uid
      BY <1>0, <2>2, <3>1 DEF AskFits
    <3>4. Active(q)' => /\ req'[q].i \in req'[q].on /\ req'[q].of \in Mails
                        /\ (row'[req'[q].i].here => req'[q].of = row'[req'[q].i].of)
      BY <1>0, <2>6, <3>1
    <3>5. a = req'[q].snap[req'[q].i][1] /\ u = req'[q].snap[req'[q].i][2] /\ o = req'[q].of
      BY <2>3, <3>1
    <3>6. Active(q)' /\ ~gmail' /\ req'[q].i \notin moved' => Owns(a, u, o)'
      BY <1>0, <2>6, <3>1
    <3>7. QED
      BY <3>2, <3>3, <3>4, <3>5, <3>6 DEF AskFits, Owns
<1>8. QED
  BY <1>5, <1>6, <1>7 DEF HitInv

LEMMA TypesMove ==
  ASSUME ActTypes, NEW r \in Reqs, NEW n \in ReqType, req' = [req EXCEPT ![r] = n], UNCHANGED <<world, made, view>>,
         srv' \in [Mails -> SrvType], uidNext' \in [Boxes -> Nat], row' \in [RowIds -> RowType],
         owed' \subseteq RowIds, moved' \subseteq RowIds
  PROVE  ActTypes'
BY DEF ActTypes

LEMMA StartFits == ASSUME ActInit PROVE HitInv
<1>1. ActTypes /\ srv \in [Mails -> [at : Boxes, uid : 1..MaxMailUid, flags : {{}}]]
  BY ActStarts DEF ActInit
<1>2. \A m \in Mails : srv[m].at \in Boxes
  BY <1>1
<1> DEFINE upto(m) == {n \in Mails : n <= m /\ srv[n].at = srv[m].at}
           inside(b) == {n \in Mails : srv[n].at = b}
<1>3. \A m \in Mails : srv[m].uid = Cardinality(upto(m))
  BY DEF ActInit
<1>4. \A b \in Boxes : uidNext[b] = 1 + Cardinality(inside(b))
  BY DEF ActInit
<1>5. \A m \in Mails : IsFiniteSet(upto(m)) /\ Cardinality(upto(m)) \in Nat
  BY ActAssumption, FS_Subset, FS_CardinalityType
<1>6. \A b \in Boxes : IsFiniteSet(inside(b)) /\ Cardinality(inside(b)) \in Nat
  BY ActAssumption, FS_Subset, FS_CardinalityType
<1>7. ASSUME NEW m \in Mails, NEW n \in Mails, m < n, srv[m].at = srv[n].at PROVE Cardinality(upto(m)) < Cardinality(upto(n))
  <2>1. upto(m) \subseteq upto(n)
    <3>1. ASSUME NEW k \in upto(m) PROVE k \in Mails /\ k <= n /\ srv[k].at = srv[n].at
      <4>1. k \in Nat /\ m \in Nat /\ n \in Nat /\ k <= m
        BY FirstRow
      <4>2. QED
        BY <1>7, <4>1
    <3>2. QED
      BY <3>1
  <2>2. n \in upto(n) /\ n \notin upto(m)
    BY <1>7, FirstRow
  <2>3. upto(m) # upto(n)
    BY <2>2
  <2> HIDE DEF upto
  <2>4. QED
    BY <1>5, <2>1, <2>3, FS_Subset
<1>8. ASSUME NEW m \in Mails PROVE Owns(srv[m].at, srv[m].uid, m)
  <2>1. upto(m) \subseteq inside(srv[m].at)
    OBVIOUS
  <2>2. Cardinality(upto(m)) <= Cardinality(inside(srv[m].at))
    <3> HIDE DEF upto, inside
    <3>1. QED
      BY <1>2, <1>6, <2>1, FS_Subset
  <2>3. ASSUME NEW n \in Mails, srv[n].at = srv[m].at, srv[n].uid = srv[m].uid PROVE n = m
    <3>1. ~(n < m) /\ ~(m < n)
      <4> HIDE DEF upto, inside
      <4>1. Cardinality(upto(m)) = Cardinality(upto(n))
        BY <1>3, <2>3
      <4>2. QED
        BY <1>5, <1>7, <2>3, <4>1
    <3>2. n \in Nat /\ m \in Nat
      BY FirstRow
    <3>3. QED
      BY <3>1, <3>2
  <2> HIDE DEF upto, inside
  <2>4. srv[m].uid < uidNext[srv[m].at]
    BY <1>2, <1>3, <1>4, <1>5, <1>6, <2>2
  <2>5. QED
    BY <2>3, <2>4 DEF Owns
<1> HIDE DEF upto, inside
<1>9. MailStands
  BY <1>2, <1>8 DEF MailStands, ActInit, Boxes
<1>10. ASSUME NEW i \in RowIds PROVE RowStands(i)
  <2>1. PICK S \in SUBSET Mails : row = [j \in RowIds |-> IF j \in S THEN RowOf(j, srv[j]) ELSE NoRow]
    BY DEF ActInit
  <2>2. CASE i \in S
    <3>1. srv[i] \in SrvType /\ srv[i].at # "gone" /\ i \in Mails
      BY <1>1, <1>2, <2>2 DEF ActTypes, Boxes
    <3>2. row[i] = RowOf(i, srv[i])
      BY <2>1, <2>2
    <3>3. row[i].of = i /\ row[i].at = srv[i].at /\ row[i].uid = srv[i].uid
      BY <3>1, <3>2, RowOfIsRow
    <3>4. i <= made
      BY <3>1, ActAssumption, FS_CardinalityType DEF ActInit
    <3>5. QED
      BY <1>8, <3>1, <3>3, <3>4 DEF RowStands
  <2>3. CASE i \notin S
    BY <2>1, <2>3, NoRowIsRow DEF RowStands
  <2>4. QED
    BY <2>2, <2>3
<1>11. ASSUME NEW r \in Reqs PROVE AskFits(r)
  BY DEF ActInit, AskFits, Idle, Active
<1>12. QED
  BY <1>9, <1>10, <1>11 DEF HitInv

LEMMA StartKeeps == ASSUME ActTypes, HitInv, NEW r \in Reqs, Start(r) PROVE ActTypes' /\ HitInv'
<1>1. PICK n \in ReqType :
              /\ req' = [req EXCEPT ![r] = n] /\ n.pc = "next" /\ n.todo \subseteq Ops \X n.on
              /\ \A j \in n.on : row[j].here
              /\ \A j \in RowIds : n.snap[j] = <<row[j].at, row[j].uid>>
              /\ owed' = owed \cup {j \in n.on : Busy(j)}
  BY StartDoes
<1>2. UNCHANGED <<world, srv, uidNext, row, made, view, downs, moved>> /\ n.on \subseteq RowIds
  BY <1>1 DEF Start, ReqType
<1>3. ActTypes'
  BY <1>1, <1>2 DEF ActTypes
<1>4. (gmail' <=> gmail) /\ \A at, uid, m : Owns(at, uid, m)' <=> Owns(at, uid, m)
  BY <1>2 DEF Owns, gmail
<1>5. MailStands' /\ \A i \in RowIds : RowStands(i)'
  BY <1>2, <1>4 DEF HitInv, MailStands, RowStands, Owns
<1>6. ASSUME NEW q \in Reqs PROVE AskFits(q)'
  <2>1. CASE q # r
    <3>1. req'[q] = req[q] /\ AskFits(q)
      BY <1>1, <2>1 DEF ActTypes, HitInv
    <3>2. QED
      BY <1>2, <1>4, <3>1 DEF AskFits, Active, Owns
  <2>2. CASE q = r
    <3>1. req'[r] = n
      BY <1>1 DEF ActTypes
    <3>2. \A i \in n.on : i <= made
      BY <1>1, <1>2 DEF HitInv, RowStands
    <3>3. \A t \in n.todo : t[2] \in n.on
      BY <1>1
    <3>4. \A i \in n.on : n.snap[i][1] = row[i].at /\ n.snap[i][2] = row[i].uid
      BY <1>1, <1>2
    <3>5. QED
      BY <1>1, <1>2, <2>2, <3>1, <3>2, <3>3, <3>4 DEF AskFits, Active
  <2>3. QED
    BY <2>1, <2>2
<1>7. QED
  BY <1>3, <1>5, <1>6 DEF HitInv

LEMMA RowsAsWere ==
  ASSUME UNCHANGED <<row, moved>>, ActTypes PROVE (\A i \in RowIds : RowKeeps(i)) /\ moved \subseteq moved'
BY DEF RowKeeps

LEMMA BeginKeeps == ASSUME ActTypes, HitInv, NEW r \in Reqs, Begin(r) PROVE ActTypes' /\ HitInv'
<1>1. PICK n \in ReqType, t \in req[r].todo :
              /\ req' = [req EXCEPT ![r] = n] /\ n.on = req[r].on /\ n.snap = req[r].snap
              /\ n.todo = req[r].todo \ {t} /\ n.op = t[1] /\ n.i = t[2] /\ n.of = row[t[2]].of
              /\ n.pc = IF ~row[t[2]].here THEN "done" ELSE IF t[1] \in {"read", "star"} THEN "mark" ELSE "remote"
  BY BeginDoes
<1>2. UNCHANGED <<world, srv, uidNext, row, made, view, downs, moved, owed>>
  BY DEF Begin
<1>3. ActTypes'
  BY <1>1, <1>2, TypesMove DEF ActTypes
<1>4. n.i \in n.on /\ n.i \in RowIds /\ AskFits(r)
  BY <1>1, ReqFields DEF HitInv, AskFits
<1>5. n.pc \notin {"idle", "next", "done"} =>
           /\ n.i \in n.on /\ n.of \in Mails /\ (row'[n.i].here => n.of = row[n.i].of)
           /\ ~gmail /\ n.i \notin moved' => Owns(n.snap[n.i][1], n.snap[n.i][2], n.of)
  <2>1. SUFFICES ASSUME row[n.i].here
                 PROVE  /\ n.of \in Mails
                        /\ ~gmail /\ n.i \notin moved => Owns(n.snap[n.i][1], n.snap[n.i][2], n.of)
    BY <1>1, <1>2, <1>4
  <2>2. RowStands(n.i)
    BY <1>4 DEF HitInv
  <2>3. ~gmail /\ n.i \notin moved => n.snap[n.i][1] = row[n.i].at /\ n.snap[n.i][2] = row[n.i].uid
    BY <1>1, <1>4, <2>1 DEF AskFits
  <2>4. QED
    BY <1>1, <2>1, <2>2, <2>3 DEF RowStands
<1>6. HitInv'
  BY <1>1, <1>2, <1>5, AskMoves, RowsAsWere
<1>7. QED
  BY <1>3, <1>6

LEMMA ReplyKeeps == ASSUME ActTypes, HitInv, NEW r \in Reqs, Reply(r) PROVE ActTypes' /\ HitInv'
<1>1. Goes(r, "done") /\ "done" \in ActPhases /\ UNCHANGED <<world, srv, uidNext, row, made, view, downs, moved, owed>>
  BY DEF Reply, ActPhases
<1>2. PICK n \in ReqType : req' = [req EXCEPT ![r] = n] /\ SameAsk(n, req[r]) /\ n.pc = "done"
  BY <1>1, GoesOn
<1>3. ActTypes'
  BY <1>1, <1>2, TypesMove DEF ActTypes
<1>4. n.on = req[r].on /\ n.snap = req[r].snap /\ n.todo \subseteq req[r].todo
  BY <1>2 DEF SameAsk
<1>5. HitInv'
  BY <1>1, <1>2, <1>4, AskMoves, RowsAsWere
<1>6. QED
  BY <1>3, <1>5

\* A row that is written where it is.
LEMMA WriteKeeps ==
  ASSUME ActTypes, HitInv, NEW r \in Reqs, Active(r), NEW n \in ReqType, req' = [req EXCEPT ![r] = n],
         SameAsk(n, req[r]), UNCHANGED <<world, srv, uidNext, view, made, moved>>, owed' \subseteq RowIds,
         OnlyRow(req[r].i), SamePlace(row'[req[r].i], row[req[r].i])
  PROVE  ActTypes' /\ HitInv'
<1>1. ActTypes'
  BY TypesMove DEF ActTypes, OnlyRow
<1>2. ASSUME NEW i \in RowIds PROVE RowKeeps(i)
  BY DEF OnlyRow, SamePlace, RowKeeps
<1>3. QED
  BY <1>1, <1>2, WorkKeeps

LEMMA OptimisticKeeps == ASSUME ActTypes, HitInv, NEW r \in Reqs, Optimistic(r) PROVE ActTypes' /\ HitInv'
<1>1. /\ req[r].pc = "mark" /\ OnlyRow(req[r].i) /\ SamePlace(row'[req[r].i], row[req[r].i])
      /\ \E n \in ReqType : req' = [req EXCEPT ![r] = n] /\ SameAsk(n, req[r])
  BY OptimisticDoes
<1>2. QED
  BY <1>1, WriteKeeps DEF Optimistic, Active, ActTypes

LEMMA LookKeeps == ASSUME ActTypes, HitInv, NEW r \in Reqs, Look(r) PROVE ActTypes' /\ HitInv'
<1>1. /\ req[r].pc = "look" /\ UNCHANGED <<world, srv, uidNext, row, made, view, downs, moved, owed>>
      /\ \E n \in ReqType : req' = [req EXCEPT ![r] = n] /\ SameAsk(n, req[r])
  BY LookDoes DEF Look
<1>2. OnlyRow(req[r].i) /\ SamePlace(row'[req[r].i], row[req[r].i])
  BY <1>1 DEF OnlyRow, SamePlace, ActTypes
<1>3. QED
  BY <1>1, <1>2, WriteKeeps DEF Active, ActTypes

LEMMA PutKeeps == ASSUME ActTypes, HitInv, NEW r \in Reqs, Put(r) PROVE ActTypes' /\ HitInv'
<1>1. /\ req[r].pc = "put" /\ OnlyRow(req[r].i) /\ SamePlace(row'[req[r].i], row[req[r].i])
      /\ \E n \in ReqType : req' = [req EXCEPT ![r] = n] /\ SameAsk(n, req[r])
  BY PutDoes
<1>2. QED
  BY <1>1, WriteKeeps DEF Put, Active, ActTypes

LEMMA UndoKeeps == ASSUME ActTypes, HitInv, NEW r \in Reqs, Undo(r) PROVE ActTypes' /\ HitInv'
<1>1. /\ req[r].pc = "undo" /\ OnlyRow(req[r].i) /\ SamePlace(row'[req[r].i], row[req[r].i])
      /\ \E n \in ReqType : req' = [req EXCEPT ![r] = n] /\ SameAsk(n, req[r])
  BY UndoDoes
<1>2. QED
  BY <1>1, WriteKeeps DEF Undo, Active, ActTypes

LEMMA LabelsFailKeeps == ASSUME ActTypes, HitInv, NEW r \in Reqs, LabelsFail(r) PROVE ActTypes' /\ HitInv'
<1>1. /\ req[r].pc = "put" /\ Goes(r, "done") /\ "done" \in ActPhases /\ owed' = owed \cup {req[r].i}
      /\ UNCHANGED <<world, srv, uidNext, row, made, view, moved>>
  BY DEF LabelsFail, Raise, ActPhases
<1>2. \E n \in ReqType : req' = [req EXCEPT ![r] = n] /\ SameAsk(n, req[r])
  BY <1>1, GoesOn
<1>3. OnlyRow(req[r].i) /\ SamePlace(row'[req[r].i], row[req[r].i]) /\ owed' \subseteq RowIds
  BY <1>1, ReqFields DEF OnlyRow, SamePlace, ActTypes
<1>4. QED
  BY <1>1, <1>2, <1>3, WriteKeeps DEF Active

LEMMA GiveUpKeeps == ASSUME ActTypes, HitInv, NEW r \in Reqs, GiveUp(r) PROVE ActTypes' /\ HitInv'
<1>1. /\ req[r].pc = "remote" /\ owed' \subseteq owed \cup {req[r].i}
      /\ \E n \in ReqType : req' = [req EXCEPT ![r] = n] /\ SameAsk(n, req[r])
  BY GiveUpDoes
<1>2. UNCHANGED <<world, srv, uidNext, row, made, view, moved>>
  BY DEF GiveUp
<1>3. OnlyRow(req[r].i) /\ SamePlace(row'[req[r].i], row[req[r].i]) /\ owed' \subseteq RowIds
  BY <1>1, <1>2, ReqFields DEF OnlyRow, SamePlace, ActTypes
<1>4. QED
  BY <1>1, <1>2, <1>3, WriteKeeps DEF Active

LEMMA AnswerKeeps == ASSUME ActTypes, HitInv, NEW r \in Reqs, Answer(r) PROVE ActTypes' /\ HitInv'
<1>1. req[r].pc = "remote" /\ UNCHANGED <<world, row, made, view, downs, moved>>
  BY DEF Answer
<1>2. req[r].of \in Mails
  BY <1>1 DEF HitInv, AskFits, Active
<1>3. Effect(r) /\ \E n \in ReqType : req' = [req EXCEPT ![r] = n] /\ SameAsk(n, req[r])
  BY <1>2, AnswerDoes
<1>4. ActTypes'
  BY <1>1, <1>3, EffectDoes, TypesMove DEF ActTypes
<1>5. HitInv'
  BY <1>1, <1>3, ServerMoves DEF Active
<1>6. QED
  BY <1>4, <1>5

LEMMA AnswerLostKeeps == ASSUME ActTypes, HitInv, NEW r \in Reqs, AnswerLost(r) PROVE ActTypes' /\ HitInv'
<1>1. req[r].pc = "remote" /\ UNCHANGED <<world, row, made, view, moved>>
  BY DEF AnswerLost
<1>2. Effect(r) /\ \E n \in ReqType : req' = [req EXCEPT ![r] = n] /\ SameAsk(n, req[r])
  BY AnswerLostDoes
<1>3. ActTypes'
  BY <1>1, <1>2, EffectDoes, TypesMove DEF ActTypes
<1>4. HitInv'
  BY <1>1, <1>2, ServerMoves DEF Active
<1>5. QED
  BY <1>3, <1>4

LEMMA SettleKeeps == ASSUME ActTypes, HitInv, NEW r \in Reqs, Settle(r) PROVE ActTypes' /\ HitInv'
<1>1. PICK i \in RowIds : i = req[r].i
  BY ReqFields
<1>2. /\ req[r].pc = "settle" /\ OnlyRow(i) /\ row'[i].here = row[i].here
      /\ row[i].here => row'[i].of = row[i].of /\ row'[i].uid = row[i].uid
      /\ gmail => moved' = moved /\ owed' = owed
      /\ ~gmail => owed' = owed \cup {i} /\ moved' \in {moved, moved \cup {i}} /\ (i \notin moved' => row'[i] = row[i])
      /\ \E n \in ReqType : req' = [req EXCEPT ![r] = n] /\ SameAsk(n, req[r])
  BY <1>1, SettleDoes
<1>3. UNCHANGED <<world, srv, uidNext, made, view>>
  BY DEF Settle
<1>4. ActTypes'
  BY <1>2, <1>3, TypesMove DEF ActTypes, OnlyRow
<1>5. CASE ~gmail
  <2>1. moved \subseteq moved' /\ \A j \in RowIds : RowKeeps(j)
    BY <1>2, <1>5 DEF RowKeeps, OnlyRow
  <2>2. QED
    BY <1>2, <1>3, <1>4, <2>1, WorkKeeps DEF Active
<1>6. CASE gmail
  <2>1. gmail'
    BY <1>3, <1>6 DEF gmail
  <2>2. MailStands'
    BY <1>3, <1>6, <2>1 DEF HitInv, MailStands
  <2>3. ASSUME NEW j \in RowIds PROVE row'[j].here = row[j].here /\ (row[j].here => row'[j].of = row[j].of)
    BY <1>2 DEF OnlyRow
  <2>4. \A j \in RowIds : RowStands(j)'
    BY <1>3, <2>1, <2>3 DEF HitInv, RowStands
  <2>5. ASSUME NEW q \in Reqs PROVE AskFits(q)'
    <3>1. AskFits(q) /\ SameAsk(req'[q], req[q]) /\ (Active(q)' => Active(q)) /\ req[q].i \in RowIds
      BY <1>2, ReqFields DEF HitInv, ActTypes, SameAsk, Active
    <3>2. QED
      BY <1>3, <2>1, <2>3, <3>1 DEF AskFits, SameAsk
  <2>6. QED
    BY <1>4, <2>2, <2>4, <2>5 DEF HitInv
<1>7. QED
  BY <1>5, <1>6

LEMMA EraseKeeps == ASSUME ActTypes, HitInv, NEW r \in Reqs, Erase(r) PROVE ActTypes' /\ HitInv'
<1>1. PICK i \in RowIds : i = req[r].i
  BY ReqFields
<1>2. /\ req[r].pc = "erase" /\ row' = [row EXCEPT ![i] = NoRow] /\ owed' = owed \ {i} /\ Goes(r, "next")
      /\ "next" \in ActPhases /\ UNCHANGED <<world, srv, uidNext, made, view, downs, moved>>
  BY <1>1 DEF Erase, ActPhases
<1>3. \E n \in ReqType : req' = [req EXCEPT ![r] = n] /\ SameAsk(n, req[r])
  BY <1>2, GoesOn
<1>4. row' \in [RowIds -> RowType] /\ \A j \in RowIds : RowKeeps(j)
  BY <1>2, NoRowIsRow DEF ActTypes, RowKeeps
<1>5. ActTypes'
  BY <1>2, <1>3, <1>4, TypesMove DEF ActTypes
<1>6. QED
  BY <1>2, <1>3, <1>4, <1>5, WorkKeeps DEF Active

LEMMA FetchKeeps == ASSUME ActTypes, HitInv, Fetch PROVE ActTypes' /\ HitInv'
<1>1. view' = {srv} /\ UNCHANGED <<world, srv, uidNext, row, made, req, downs, moved, owed>>
  BY DEF Fetch
<1>2. ActTypes'
  BY <1>1 DEF ActTypes
<1>3. (gmail' <=> gmail) /\ \A at, uid, m : Owns(at, uid, m)' <=> Owns(at, uid, m)
  BY <1>1 DEF Owns, gmail
<1>4. MailStands'
  BY <1>1, <1>3 DEF HitInv, MailStands, Owns
<1>5. (\A i \in RowIds : RowStands(i)') /\ \A r \in Reqs : AskFits(r)'
  <2>1. \A i \in RowIds : RowStands(i)'
    BY <1>1, <1>3 DEF HitInv, RowStands, Owns
  <2>2. ASSUME NEW r \in Reqs PROVE AskFits(r)'
    BY <1>1, <1>3 DEF HitInv, AskFits, Active, Owns
  <2>3. QED
    BY <2>1, <2>2
<1>6. QED
  BY <1>2, <1>4, <1>5 DEF HitInv

LEMMA ApplyKeeps == ASSUME ActTypes, HitInv, Apply PROVE ActTypes' /\ HitInv'
<1>1. UNCHANGED <<world, srv, uidNext, req, downs, moved>> /\ view' = {}
  BY DEF Apply
<1>2. PICK v \in view : \A i \in RowIds : (\E m \in Mails : Made(i, m, v) \/ Found(i, m, v)) \/ ~row'[i].here
  BY ApplyDoes
<1>3. made' \in Nat /\ made <= made' /\ row' \in [RowIds -> RowType] /\ owed' \subseteq RowIds
  BY ApplyDoes
<1>4. ActTypes'
  BY <1>1, <1>3 DEF ActTypes
<1>5. (gmail' <=> gmail) /\ \A at, uid, m : Owns(at, uid, m)' <=> Owns(at, uid, m)
  BY <1>1 DEF Owns, gmail
<1>6. MailStands'
  BY <1>1, <1>5 DEF HitInv, MailStands, Owns
<1>7. v \in [Mails -> SrvType] /\ made \in Nat
  BY DEF ActTypes
<1>8. ASSUME NEW i \in RowIds, row'[i].here
      PROVE  /\ RowStands(i)'
             /\ \/ made < i
                \/ /\ row[i].here /\ row'[i].of = row[i].of /\ row'[i].uid = row[i].uid
                   /\ ~gmail => row'[i].at = row[i].at
  <2>1. PICK m \in Mails : Made(i, m, v) \/ Found(i, m, v)
    BY <1>2, <1>8
  <2>2. CASE Made(i, m, v)
    <3>1. v[m] \in SrvType /\ v[m].at # "gone"
      BY <1>7, <2>2 DEF Made
    <3>2. row'[i].of = m /\ row'[i].at = v[m].at /\ row'[i].uid = v[m].uid /\ made < i /\ i <= made'
      BY <2>2, <3>1, RowOfIsRow DEF Made
    <3>3. ~gmail => Owns(v[m].at, v[m].uid, m)
      BY <3>1 DEF HitInv, MailStands
    <3>4. QED
      BY <1>1, <1>5, <3>2, <3>3 DEF RowStands, Owns
  <2>3. CASE Found(i, m, v)
    <3>1. RowStands(i) /\ i \in Nat
      BY DEF HitInv, RowIds
    <3>2. row[i].here /\ row'[i].of = row[i].of /\ row'[i].uid = row[i].uid /\ (~gmail => row'[i].at = row[i].at)
      BY <2>3 DEF Found
    <3>3. i <= made'
      BY <1>3, <1>7, <3>1, <3>2 DEF RowStands
    <3>4. QED
      BY <1>1, <1>5, <3>1, <3>2, <3>3 DEF RowStands, Owns
  <2>4. QED
    BY <2>1, <2>2, <2>3
<1>9. ASSUME NEW i \in RowIds PROVE RowStands(i)'
  BY <1>8 DEF RowStands
<1>10. ASSUME NEW q \in Reqs PROVE AskFits(q)'
  <2>1. AskFits(q) /\ req[q].on \subseteq RowIds /\ req[q].i \in RowIds
    BY ReqFields DEF HitInv
  <2>2. ASSUME NEW i \in req[q].on
        PROVE  /\ i <= made' /\ i \in RowIds
               /\ row'[i].here => /\ row[i].here /\ row'[i].of = row[i].of /\ row'[i].uid = row[i].uid
                                  /\ ~gmail => row'[i].at = row[i].at
    <3>1. i \in RowIds /\ i \in Nat /\ i <= made
      BY <2>1 DEF AskFits, RowIds
    <3>2. ~(made < i) /\ i <= made'
      BY <1>3, <1>7, <3>1
    <3>3. QED
      BY <1>8, <3>1, <3>2
  <2>3. QED
    BY <1>1, <1>5, <2>1, <2>2 DEF AskFits, Active, Owns
<1>11. QED
  BY <1>4, <1>6, <1>9, <1>10 DEF HitInv

LEMMA ActKeeps == ActTypes /\ HitInv /\ [ActNext]_actVars => ActTypes' /\ HitInv'
<1> SUFFICES ASSUME ActTypes, HitInv, [ActNext]_actVars PROVE ActTypes' /\ HitInv'
  OBVIOUS
<1>1. CASE UNCHANGED actVars
  <2>1. ActTypes'
    BY <1>1 DEF actVars, ActTypes
  <2>2. MailStands'
    BY <1>1 DEF actVars, HitInv, MailStands, Owns, gmail
  <2>3. \A i \in RowIds : RowStands(i)'
    BY <1>1 DEF actVars, HitInv, RowStands, Owns, gmail
  <2>4. ASSUME NEW r \in Reqs PROVE AskFits(r)'
    BY <1>1 DEF actVars, HitInv, AskFits, Active, Owns, gmail
  <2>5. QED
    BY <2>1, <2>2, <2>3, <2>4 DEF HitInv
<1>2. CASE Fetch \/ Apply
  BY <1>2, FetchKeeps, ApplyKeeps
<1>3. ASSUME NEW r \in Reqs, Start(r) \/ Serve(r) \/ LabelsFail(r) \/ AnswerLost(r) \/ GiveUp(r)
      PROVE  ActTypes' /\ HitInv'
  BY <1>3, StartKeeps, BeginKeeps, ReplyKeeps, OptimisticKeeps, LookKeeps, PutKeeps, AnswerKeeps, UndoKeeps,
     SettleKeeps, EraseKeeps, LabelsFailKeeps, AnswerLostKeeps, GiveUpKeeps DEF Serve
<1>4. QED
  BY <1>1, <1>2, <1>3 DEF ActNext

LEMMA EffectHits ==
  ASSUME ActTypes, HitInv, NEW r \in Reqs, req[r].pc = "remote", Effect(r), NEW m \in Mails, srv'[m] # srv[m]
  PROVE  req[r].of = m \/ req[r].i \in moved
<1>1. m \in Hit(r)
  BY EffectDoes
<1>2. CASE gmail
  BY <1>1, <1>2 DEF Hit
<1>3. CASE ~gmail
  <2>1. /\ <<srv[m].at, srv[m].uid>> = req[r].snap[req[r].i] /\ AskFits(r) /\ Active(r)
    BY <1>1, <1>3 DEF Hit, HitInv, Active
  <2>2. srv[m].at = req[r].snap[req[r].i][1] /\ srv[m].uid = req[r].snap[req[r].i][2]
    BY <2>1
  <2>3. QED
    BY <1>3, <2>1, <2>2 DEF AskFits, Owns
<1>4. QED
  BY <1>2, <1>3

(* What the server is told to do it does to the message the request is for, or *)
(* the request's row was moved while its uid stayed the old one                *)
(* (imapService.monolith.ts, setMessageReadState ... deleteMessage).           *)
THEOREM OnlyItsOwnIsHit == ActSpec => HitsItsOwn
<1>1. ActInit => ActTypes /\ HitInv
  BY ActStarts, StartFits
<1>2. ASSUME ActTypes, HitInv, [ActNext]_actVars
      PROVE  [\A m \in Mails : srv'[m] # srv[m] =>
                \E r \in Reqs : req[r].pc = "remote" /\ (req[r].of = m \/ req[r].i \in moved)]_actVars
  <2> SUFFICES ASSUME NEW m \in Mails, srv'[m] # srv[m]
               PROVE  \E r \in Reqs : req[r].pc = "remote" /\ (req[r].of = m \/ req[r].i \in moved)
    OBVIOUS
  <2>1. PICK r \in Reqs : Answer(r) \/ AnswerLost(r)
    BY <1>2, ZenonT(60) DEF ActNext, actVars, Serve, Fetch, Apply, Start, LabelsFail, GiveUp, Begin, Reply, Optimistic, Look, Put,
       Undo, Settle, Erase
  <2>2. req[r].pc = "remote" /\ Effect(r)
    BY <2>1 DEF Answer, AnswerLost
  <2>3. QED
    BY <1>2, <2>2, EffectHits
<1>3. QED
  BY <1>1, <1>2, ActKeeps, PTL DEF ActSpec, HitsItsOwn
-----------------------------------------------------------------------------
(* What a row that nothing is owed to says of the messages it matches. *)

Meets(i, m) == srv[m].at # "gone" /\ Matches(i, m, srv)
Level(i) == \A m \in Mails : Meets(i, m) => row[i].is = srv[m].flags /\ row[i].flags = srv[m].flags
Placed(i) == gmail => \A m \in Mails : Meets(i, m) => row[i].at = srv[m].at
Labelled(i) == row[i].labels = LabelsOf(row[i].at, "star" \in row[i].is)
Agreed(i) == Level(i) /\ Placed(i) /\ Labelled(i)

\* The optimistic UPDATE is made; the server was asked only if an answer was lost.
Marked(r, i) ==
  /\ row[i].is = Flagged(req[r].prev.is, r)
  /\ \A m \in Mails : Meets(i, m) =>
       /\ row[i].is = Flagged(srv[m].flags, r) /\ row[i].flags = Flagged(srv[m].flags, r)
       /\ ~req[r].lost => req[r].prev.is = srv[m].flags /\ req[r].prev.flags = srv[m].flags

\* How far the request r has come with its row i.
Halfway(r, i) ==
  LET c == req[r] IN
  /\ c.pc = "mark" => Agreed(i) /\ c.prev.is = row[i].is /\ c.prev.flags = row[i].flags
  /\ c.pc \in {"look", "put"} => Placed(i) /\ IF c.then = "remote" THEN Marked(r, i) ELSE Level(i)
  /\ c.pc = "look" => c.at = row[i].at /\ (c.star <=> "star" \in row[i].is)
  /\ c.pc = "put" => (row[i].labels \ c.rm) \cup c.add = LabelsOf(row[i].at, "star" \in row[i].is)
  /\ c.pc = "remote" => IF c.op \in {"read", "star"} THEN Placed(i) /\ Marked(r, i) /\ Labelled(i)
                        ELSE ~c.lost => Agreed(i)
  /\ c.pc = "undo" => ~c.lost /\ Placed(i) /\ Marked(r, i) /\ Labelled(i)
  /\ c.pc = "settle" /\ gmail =>
       /\ \A m \in Mails : Meets(i, m) => c.got = srv[m].flags /\ srv[m].at = IF c.op = "move" THEN c.to ELSE row[i].at
       /\ c.op = "read" => row[i].labels = LabelsOf(row[i].at, "star" \in c.got)

Works(r, i) == Active(r) /\ req[r].i = i
Starring(r) == (\E t \in req[r].todo : t[1] = "star") \/ (Active(r) /\ req[r].op = "star")
\* Operations come in the order of their rank, and each has its own steps.
Ordered(r) ==
  LET c == req[r] IN
  /\ Active(r) /\ c.op \in {"move", "delete"} => \A t \in c.todo : t[1] # "star"
  /\ c.pc = "mark" => c.op \in {"read", "star"} /\ ~c.lost
  /\ c.pc = "undo" => c.op \in {"read", "star"}
  /\ c.pc = "settle" => c.op # "delete"
  /\ c.pc \in {"look", "put"} /\ c.then = "remote" => c.op = "star" /\ ~c.lost
RowFits(i) ==
  /\ ~gmail => row[i].uid < uidNext[row[i].at]
  /\ \A r, q \in Reqs : Open(r) /\ Open(q) /\ i \in req[r].on /\ i \in req[q].on => r = q
  /\ (\A r \in Reqs : ~Works(r, i)) => Agreed(i)
  /\ \A r \in Reqs : Works(r, i) => Halfway(r, i)
  /\ \A r \in Reqs : Open(r) /\ i \in req[r].on /\ Starring(r) => req[r].snap[i][1] = row[i].at
RowInv == (\A r \in Reqs : Ordered(r)) /\ \A i \in RowIds \ owed : row[i].here => RowFits(i)
ActInv == ActTypes /\ HitInv /\ RowInv

\* A step that row i and its messages have no part in.
Still(i) ==
  /\ row'[i] = row[i] /\ (gmail' <=> gmail)
  /\ \A m \in Mails : (Meets(i, m)' <=> Meets(i, m)) /\ (Meets(i, m) => srv'[m] = srv[m])

LEMMA StillAgrees == ASSUME NEW i, Still(i) PROVE Agreed(i)' <=> Agreed(i)
<1>1. (Level(i)' <=> Level(i)) /\ (Placed(i)' <=> Placed(i)) /\ (Labelled(i)' <=> Labelled(i))
  BY DEF Still, Level, Placed, Labelled
<1>2. QED
  BY <1>1 DEF Agreed

LEMMA StillHalfway ==
  ASSUME NEW i, NEW q, Still(i), req'[q] = req[q], Halfway(q, i) PROVE Halfway(q, i)'
<1>1. (Level(i)' <=> Level(i)) /\ (Placed(i)' <=> Placed(i)) /\ (Labelled(i)' <=> Labelled(i)) /\ (Agreed(i)' <=> Agreed(i))
  BY StillAgrees DEF Still, Level, Placed, Labelled
<1>2. Marked(q, i) => Marked(q, i)'
  <2>1. row'[i] = row[i] /\ \A m \in Mails : (Meets(i, m)' <=> Meets(i, m)) /\ (Meets(i, m) => srv'[m] = srv[m])
    BY DEF Still
  <2>2. QED
    BY <2>1 DEF Marked, Flagged
<1>3. row'[i] = row[i] /\ (gmail' <=> gmail)
  BY DEF Still
<1>4. \A m \in Mails : (Meets(i, m)' <=> Meets(i, m)) /\ (Meets(i, m) => srv'[m] = srv[m])
  BY DEF Still
<1>5. req[q].pc = "settle" /\ gmail =>
       /\ \A m \in Mails : Meets(i, m)' => req[q].got = srv'[m].flags /\ srv'[m].at = IF req[q].op = "move" THEN req[q].to ELSE row[i].at
       /\ req[q].op = "read" => row[i].labels = LabelsOf(row[i].at, "star" \in req[q].got)
  BY <1>4 DEF Halfway
<1>6. QED
  BY <1>1, <1>2, <1>3, <1>5 DEF Halfway

\* What a step leaves of the order of the requests.
LEMMA OrderStays ==
  ASSUME ActTypes, \A q \in Reqs : Ordered(q), NEW r \in Reqs, NEW n, req' = [req EXCEPT ![r] = n], Ordered(r)'
  PROVE  \A q \in Reqs : Ordered(q)'
BY DEF ActTypes, Ordered, Active

LEMMA OtherFits ==
  ASSUME ActTypes, HitInv, NEW i \in RowIds, RowFits(i), Still(i), NEW r \in Reqs, NEW n,
         req' = [req EXCEPT ![r] = n], n.on = req[r].on, n.snap = req[r].snap, Open(r), Starring(r)' => Starring(r),
         ~Works(r, i), ~Works(r, i)', \A b \in Boxes : uidNext'[b] \in Nat /\ uidNext[b] <= uidNext'[b]
  PROVE  RowFits(i)'
<1>1. row'[i] = row[i] /\ (gmail' <=> gmail) /\ row[i].at \in Boxes /\ row[i].uid \in Nat /\ uidNext \in [Boxes -> Nat]
  BY RowFields DEF Still, ActTypes
<1>2. ~gmail' => row'[i].uid < uidNext'[row'[i].at]
  <2>1. SUFFICES ASSUME ~gmail PROVE row[i].uid < uidNext'[row[i].at]
    BY <1>1
  <2>2. row[i].uid < uidNext[row[i].at] /\ uidNext[row[i].at] \in Nat /\ uidNext'[row[i].at] \in Nat
        /\ uidNext[row[i].at] <= uidNext'[row[i].at]
    BY <1>1, <2>1 DEF RowFits
  <2>3. QED
    BY <1>1, <2>2
<1>3. ASSUME NEW q \in Reqs
      PROVE  /\ req'[q].on = req[q].on /\ req'[q].snap = req[q].snap /\ (Open(q)' => Open(q))
             /\ (Starring(q)' => Starring(q)) /\ (Works(q, i)' <=> Works(q, i)) /\ (Works(q, i) => req'[q] = req[q])
  <2>1. CASE q = r
    BY <2>1 DEF ActTypes
  <2>2. CASE q # r
    <3>1. req'[q] = req[q]
      BY <2>2 DEF ActTypes
    <3>2. QED
      BY <3>1 DEF Open, Starring, Works, Active
  <2>3. QED
    BY <2>1, <2>2
<1>4. \A p, q \in Reqs : Open(p)' /\ Open(q)' /\ i \in req'[p].on /\ i \in req'[q].on => p = q
  BY <1>3 DEF RowFits
<1>5. (\A q \in Reqs : ~Works(q, i)') => Agreed(i)'
  BY <1>3, StillAgrees DEF RowFits
<1>6. ASSUME NEW q \in Reqs, Works(q, i)' PROVE Halfway(q, i)'
  BY <1>3, <1>6, StillHalfway DEF RowFits
<1>7. \A q \in Reqs : Open(q)' /\ i \in req'[q].on /\ Starring(q)' => req'[q].snap[i][1] = row'[i].at
  BY <1>1, <1>3 DEF RowFits
<1>8. QED
  BY <1>2, <1>4, <1>5, <1>6, <1>7 DEF RowFits

LEMMA OwnFits ==
  ASSUME ActTypes, HitInv, NEW i \in RowIds, RowFits(i), NEW r \in Reqs, NEW n, req' = [req EXCEPT ![r] = n],
         n.on = req[r].on, n.snap = req[r].snap, Open(r), i \in req[r].on, gmail' <=> gmail,
         row'[i].uid = row[i].uid, ~gmail => row'[i].at = row[i].at,
         \A b \in Boxes : uidNext'[b] \in Nat /\ uidNext[b] <= uidNext'[b],
         Works(r, i)' => Halfway(r, i)', ~Works(r, i)' => Agreed(i)',
         Open(r)' /\ Starring(r)' => req[r].snap[i][1] = row'[i].at
  PROVE  RowFits(i)'
<1>1. row[i].at \in Boxes /\ row[i].uid \in Nat /\ uidNext \in [Boxes -> Nat]
  BY RowFields DEF ActTypes
<1>2. ~gmail' => row'[i].uid < uidNext'[row'[i].at]
  <2>1. SUFFICES ASSUME ~gmail PROVE row[i].uid < uidNext'[row[i].at]
    OBVIOUS
  <2>2. row[i].uid < uidNext[row[i].at] /\ uidNext[row[i].at] \in Nat /\ uidNext'[row[i].at] \in Nat
        /\ uidNext[row[i].at] <= uidNext'[row[i].at]
    BY <1>1, <2>1 DEF RowFits
  <2>3. QED
    BY <1>1, <2>2
<1>3. ASSUME NEW q \in Reqs, q # r PROVE /\ (Open(q)' => i \notin req'[q].on) /\ ~Works(q, i)'
  <2>1. req'[q] = req[q] /\ AskFits(q) /\ (Open(q) /\ i \in req[q].on => q = r)
    BY <1>3 DEF ActTypes, HitInv, RowFits
  <2>2. Works(q, i)' => Works(q, i) /\ Open(q) /\ i \in req[q].on
    BY <2>1 DEF Works, Active, Open, AskFits
  <2>3. QED
    BY <1>3, <2>1, <2>2 DEF Open
<1>4. req'[r].on = req[r].on /\ req'[r].snap = req[r].snap
  BY DEF ActTypes
<1>5. \A p, q \in Reqs : Open(p)' /\ Open(q)' /\ i \in req'[p].on /\ i \in req'[q].on => p = q
  BY <1>3
<1>6. (\A q \in Reqs : ~Works(q, i)') => Agreed(i)'
  OBVIOUS
<1>7. ASSUME NEW q \in Reqs, Works(q, i)' PROVE Halfway(q, i)'
  BY <1>3, <1>7
<1>8. \A q \in Reqs : Open(q)' /\ i \in req'[q].on /\ Starring(q)' => req'[q].snap[i][1] = row'[i].at
  BY <1>3, <1>4
<1>9. QED
  BY <1>2, <1>5, <1>6, <1>7, <1>8 DEF RowFits

\* How a request may leave the row it works on, when nothing is owed to it.
Leaves(r, i) ==
  /\ row[i].here /\ row'[i].uid = row[i].uid /\ (~gmail => row'[i].at = row[i].at)
  /\ Active(r)' => Halfway(r, i)'
  /\ ~Active(r)' => Agreed(i)'
  /\ Starring(r)' => req[r].snap[i][1] = row'[i].at

LEMMA OwnBefore ==
  ASSUME ActInv, NEW r \in Reqs, Active(r), req[r].i \notin owed, row[req[r].i].here
  PROVE  /\ RowFits(req[r].i) /\ Halfway(r, req[r].i) /\ req[r].i \in req[r].on /\ Open(r)
         /\ Starring(r) => req[r].snap[req[r].i][1] = row[req[r].i].at
<1>1. req[r].i \in RowIds /\ AskFits(r) /\ RowFits(req[r].i)
  BY ReqFields DEF ActInv, HitInv, RowInv
<1>2. Works(r, req[r].i) /\ Open(r) /\ req[r].i \in req[r].on
  BY <1>1 DEF Works, Open, Active, AskFits
<1>3. QED
  BY <1>1, <1>2 DEF RowFits

LEMMA StillHere == ASSUME NEW i, UNCHANGED <<world, srv>>, row'[i] = row[i] PROVE Still(i)
BY DEF Still, Meets, Matches, gmail

\* A step of a request at work on a row.
LEMMA WorkFits ==
  ASSUME ActInv, NEW r \in Reqs, Active(r), NEW i, i = req[r].i, NEW n \in ReqType, req' = [req EXCEPT ![r] = n], SameAsk(n, req[r]),
         UNCHANGED world, Ordered(r)', uidNext' \in [Boxes -> Nat], \A b \in Boxes : uidNext[b] <= uidNext'[b],
         \A j \in RowIds : j \notin owed' /\ row'[j].here => j \notin owed,
         \A j \in RowIds : j # i /\ j \notin owed' /\ row'[j].here => Still(j),
         i \notin owed' /\ row'[i].here => Leaves(r, i)
  PROVE  RowInv'
<1>0. ActTypes /\ HitInv /\ RowInv /\ AskFits(r) /\ req[r].i \in RowIds
  BY ReqFields DEF ActInv, HitInv
<1>1. \A q \in Reqs : Ordered(q)'
  BY <1>0, OrderStays DEF RowInv
<1>2. req'[r] = n /\ n.on = req[r].on /\ n.snap = req[r].snap /\ n.i = req[r].i /\ n.op = req[r].op /\ n.todo = req[r].todo
  BY <1>0 DEF ActTypes, SameAsk
<1>3. Open(r) /\ (Starring(r)' => Starring(r)) /\ req[r].i \in req[r].on
  BY <1>0, <1>2 DEF Open, Active, Starring, AskFits
<1>4. (gmail' <=> gmail) /\ \A b \in Boxes : uidNext'[b] \in Nat /\ uidNext[b] <= uidNext'[b]
  BY DEF gmail
<1>5. ASSUME NEW j \in RowIds, j # i, j \notin owed', row'[j].here PROVE RowFits(j)'
  <2>1. j \notin owed /\ Still(j)
    BY <1>5
  <2>2. row[j].here
    BY <1>5, <2>1 DEF Still
  <2>3. RowFits(j) /\ ~Works(r, j) /\ ~Works(r, j)'
    BY <1>0, <1>2, <1>5, <2>1, <2>2 DEF RowInv, Works
  <2>4. QED
    BY <1>0, <1>2, <1>3, <1>4, <2>1, <2>3, OtherFits
<1>6. ASSUME i \notin owed', row'[i].here PROVE RowFits(i)'
  <2>1. Leaves(r, i) /\ i \in RowIds /\ i \notin owed
    BY <1>0, <1>6
  <2>2. RowFits(i)
    BY <1>0, <2>1 DEF RowInv, Leaves
  <2>3. Works(r, i)' <=> Active(r)'
    BY <1>2 DEF Works
  <2>4. /\ row'[i].uid = row[i].uid /\ (~gmail => row'[i].at = row[i].at)
        /\ (Works(r, i)' => Halfway(r, i)') /\ (~Works(r, i)' => Agreed(i)')
        /\ (Open(r)' /\ Starring(r)' => req[r].snap[i][1] = row'[i].at)
    BY <2>1, <2>3 DEF Leaves
  <2>5. i \in req[r].on
    BY <1>3
  <2>6. QED
    BY <1>0, <1>2, <1>3, <1>4, <2>1, <2>2, <2>4, <2>5, OwnFits
<1>7. QED
  BY <1>1, <1>5, <1>6 DEF RowInv

\* A step that writes no row but the request's, where it is, and asks nothing of the server.
LEMMA LocalFits ==
  ASSUME ActInv, NEW r \in Reqs, Active(r), NEW i, i = req[r].i, NEW n \in ReqType, req' = [req EXCEPT ![r] = n], SameAsk(n, req[r]),
         UNCHANGED <<world, srv, uidNext>>, Ordered(r)', owed \subseteq owed', OnlyRow(i),
         SamePlace(row'[i], row[i]),
         /\ i \notin owed' /\ row[i].here /\ Halfway(r, i) /\ (Starring(r) => req[r].snap[i][1] = row[i].at)
         /\ \A m \in Mails : Meets(i, m)' <=> Meets(i, m)
         => (Active(r)' => Halfway(r, i)') /\ (~Active(r)' => Agreed(i)')
  PROVE  RowInv'
<1>1. ActTypes /\ uidNext \in [Boxes -> Nat]
  BY DEF ActInv, ActTypes
<1>2. \A j \in RowIds : j # i => Still(j)
  BY StillHere DEF OnlyRow
<1>3. \A b \in Boxes : uidNext[b] <= uidNext'[b]
  BY <1>1
<1>4. ASSUME i \notin owed', row'[i].here PROVE Leaves(r, i)
  <2>2. row[i].here /\ i \notin owed /\ row'[i].at = row[i].at /\ row'[i].uid = row[i].uid /\ row'[i].of = row[i].of
    BY <1>4 DEF SamePlace
  <2>3. Halfway(r, i) /\ (Starring(r) => req[r].snap[i][1] = row[i].at)
    BY <2>2, OwnBefore
  <2>4. \A m \in Mails : Meets(i, m)' <=> Meets(i, m)
    BY <2>2 DEF Meets, Matches, gmail
  <2>5. (Active(r)' => Halfway(r, i)') /\ (~Active(r)' => Agreed(i)')
    BY <1>4, <2>2, <2>3, <2>4
  <2>6. Starring(r)' => Starring(r)
    BY <1>1 DEF Starring, SameAsk, ActTypes
  <2>7. QED
    BY <2>2, <2>3, <2>5, <2>6 DEF Leaves
<1>5. QED
  BY <1>1, <1>2, <1>3, <1>4, WorkFits

\* Flags and folder are as before, on both sides, and the request asks for the same.
LEMMA FlagsAsWere ==
  ASSUME NEW i, NEW r, UNCHANGED <<world, srv>>, row'[i].at = row[i].at, row'[i].is = row[i].is,
         row'[i].flags = row[i].flags, \A m \in Mails : Meets(i, m)' <=> Meets(i, m)
  PROVE  /\ Placed(i)' <=> Placed(i)
         /\ Level(i)' <=> Level(i)
         /\ SameAsk(req'[r], req[r]) /\ req'[r].lost = req[r].lost => (Marked(r, i)' <=> Marked(r, i))
<1>1. Placed(i)' <=> Placed(i)
  BY DEF Placed, gmail
<1>2. Level(i)' <=> Level(i)
  BY DEF Level
<1>3. ASSUME SameAsk(req'[r], req[r]), req'[r].lost = req[r].lost PROVE Marked(r, i)' <=> Marked(r, i)
  <2>1. req'[r].op = req[r].op /\ req'[r].prev = req[r].prev /\ req'[r].want = req[r].want
    BY <1>3 DEF SameAsk
  <2>2. Flagged(req[r].prev.is, r)' = Flagged(req[r].prev.is, r)
        /\ \A m \in Mails : Flagged(srv[m].flags, r)' = Flagged(srv[m].flags, r)
    BY <2>1 DEF Flagged
  <2>3. QED
    BY <1>3, <2>1, <2>2 DEF Marked
<1>4. QED
  BY <1>1, <1>2, <1>3

LEMMA OptimisticFits == ASSUME ActInv, NEW r \in Reqs, Optimistic(r) PROVE RowInv'
<1>1. PICK i \in RowIds : i = req[r].i
  BY ReqFields DEF ActInv
<1>2. /\ req[r].pc = "mark" /\ OnlyRow(i) /\ SamePlace(row'[i], row[i]) /\ row'[i].labels = row[i].labels
      /\ row[i].here => row'[i].is = Flagged(row[i].is, r) /\ row'[i].flags = Flagged(req[r].prev.flags, r)
  BY <1>1, OptimisticDoes DEF ActInv
<1>3. PICK n \in ReqType :
              /\ req' = [req EXCEPT ![r] = n] /\ SameAsk(n, req[r]) /\ n.lost = req[r].lost
              /\ IF req[r].op = "read" THEN n.pc = "remote"
                 ELSE n.pc = "look" /\ n.at = req[r].snap[i][1] /\ n.star = req[r].want /\ n.then = "remote"
  BY <1>1, OptimisticDoes DEF ActInv
<1>4. UNCHANGED <<world, srv, uidNext, made, view, downs, moved, owed>>
  BY DEF Optimistic
<1>5. req'[r] = n /\ n.op = req[r].op /\ n.prev = req[r].prev /\ n.want = req[r].want /\ n.todo = req[r].todo
  BY <1>3 DEF ActInv, ActTypes, SameAsk
<1>6. Ordered(r) /\ Active(r) /\ req[r].op \in {"read", "star"} /\ ~req[r].lost
  BY <1>2 DEF ActInv, RowInv, Ordered, Active
<1>7. Ordered(r)' /\ Active(r)'
  BY <1>3, <1>5, <1>6 DEF Ordered, Active
<1>8. ASSUME row[i].here, Halfway(r, i), Starring(r) => req[r].snap[i][1] = row[i].at,
             \A m \in Mails : Meets(i, m)' <=> Meets(i, m)
      PROVE  Halfway(r, i)'
  <2>1. Agreed(i) /\ req[r].prev.is = row[i].is /\ req[r].prev.flags = row[i].flags
    BY <1>2, <1>8 DEF Halfway
  <2>2. \A S : Flagged(S, r)' = IF req[r].want THEN S' \cup {IF req[r].op = "read" THEN "seen" ELSE "star"}
                                            ELSE S' \ {IF req[r].op = "read" THEN "seen" ELSE "star"}
    BY <1>5 DEF Flagged
  <2>3. Marked(r, i)'
    BY <1>2, <1>4, <1>5, <1>6, <1>8, <2>1 DEF Marked, Agreed, Level, Flagged
  <2>4. Placed(i)'
    BY <1>2, <1>4, <1>8, <2>1 DEF Agreed, Placed, SamePlace, gmail
  <2>5. CASE req[r].op = "read"
    <3>1. Labelled(i)'
      BY <1>2, <1>8, <2>1, <2>5 DEF Agreed, Labelled, SamePlace, Flagged
    <3>2. QED
      BY <1>3, <1>5, <2>3, <2>4, <2>5, <3>1 DEF Halfway
  <2>6. CASE req[r].op # "read"
    <3>1. n.at = row'[i].at
      BY <1>2, <1>3, <1>6, <1>8, <2>6 DEF Starring, SamePlace
    <3>2. n.star <=> "star" \in row'[i].is
      BY <1>2, <1>3, <1>6, <1>8, <2>6 DEF Flagged
    <3>3. QED
      BY <1>3, <1>5, <2>3, <2>4, <2>6, <3>1, <3>2 DEF Halfway
  <2>7. QED
    BY <2>5, <2>6
<1>9. QED
  BY <1>1, <1>2, <1>3, <1>4, <1>6, <1>7, <1>8, LocalFits

LEMMA LookFits == ASSUME ActInv, NEW r \in Reqs, Look(r) PROVE RowInv'
<1>1. PICK i \in RowIds : i = req[r].i
  BY ReqFields DEF ActInv
<1> DEFINE keys == LabelsOf(req[r].at, req[r].star)
<1>2. PICK n \in ReqType :
                  /\ req' = [req EXCEPT ![r] = n] /\ SameAsk(n, req[r]) /\ n.lost = req[r].lost /\ n.then = req[r].then
                  /\ n.pc = "put" /\ n.rm = row[i].labels \ keys /\ n.add = keys \ row[i].labels
  BY <1>1, LookDoes DEF ActInv
<1>3. req[r].pc = "look" /\ UNCHANGED <<world, srv, uidNext, row, made, view, downs, moved, owed>>
  BY DEF Look
<1>4. req'[r] = n /\ n.op = req[r].op /\ n.prev = req[r].prev /\ n.want = req[r].want /\ n.todo = req[r].todo
  BY <1>2 DEF ActInv, ActTypes, SameAsk
<1>5. Ordered(r) /\ Active(r)
  BY <1>3 DEF ActInv, RowInv, Active
<1>6. Ordered(r)' /\ Active(r)'
  BY <1>2, <1>3, <1>4, <1>5 DEF Ordered, Active
<1>7. OnlyRow(i) /\ SamePlace(row'[i], row[i])
  BY <1>3 DEF OnlyRow, SamePlace, ActInv, ActTypes
<1>8. ASSUME row[i].here, Halfway(r, i), \A m \in Mails : Meets(i, m)' <=> Meets(i, m)
      PROVE  Halfway(r, i)'
  <2>1. Placed(i) /\ (IF req[r].then = "remote" THEN Marked(r, i) ELSE Level(i))
        /\ req[r].at = row[i].at /\ (req[r].star <=> "star" \in row[i].is)
    BY <1>3, <1>8 DEF Halfway
  <2>2. keys = LabelsOf(row[i].at, "star" \in row[i].is)
    BY <2>1 DEF LabelsOf
  <2>3. (row[i].labels \ n.rm) \cup n.add = keys
    BY <1>2
  <2>4. Placed(i)' /\ (Level(i) => Level(i)') /\ (Marked(r, i) => Marked(r, i)')
    BY <1>2, <1>3, <1>4, <1>8, <2>1, FlagsAsWere
  <2>5. QED
    BY <1>2, <1>3, <1>4, <2>1, <2>2, <2>3, <2>4 DEF Halfway
<1>9. QED
  BY <1>1, <1>2, <1>3, <1>5, <1>6, <1>7, <1>8, LocalFits

LEMMA PutFits == ASSUME ActInv, NEW r \in Reqs, Put(r) PROVE RowInv'
<1>1. PICK i \in RowIds : i = req[r].i
  BY ReqFields DEF ActInv
<1>2. /\ req[r].pc = "put" /\ OnlyRow(i) /\ SamePlace(row'[i], row[i])
      /\ row[i].here => /\ row'[i].is = row[i].is /\ row'[i].flags = row[i].flags
                        /\ row'[i].labels = (row[i].labels \ req[r].rm) \cup req[r].add
  BY <1>1, PutDoes DEF ActInv
<1>3. PICK n \in ReqType :
              /\ req' = [req EXCEPT ![r] = n] /\ SameAsk(n, req[r]) /\ n.lost = req[r].lost
              /\ n.pc \in {req[r].then, "done"} /\ (row[i].here => n.pc = req[r].then)
  BY <1>1, PutDoes DEF ActInv
<1>4. UNCHANGED <<world, srv, uidNext, made, view, downs, moved, owed>>
  BY DEF Put
<1>5. req'[r] = n /\ n.op = req[r].op /\ n.prev = req[r].prev /\ n.want = req[r].want /\ n.todo = req[r].todo
      /\ req[r].then \in {"next", "remote", "done"}
  BY <1>3, ReqFields DEF ActInv, ActTypes, SameAsk
<1>6. Ordered(r) /\ Active(r)
  BY <1>2 DEF ActInv, RowInv, Active
<1>7. Ordered(r)'
  BY <1>2, <1>3, <1>5, <1>6 DEF Ordered, Active
<1>8. ASSUME row[i].here, Halfway(r, i), \A m \in Mails : Meets(i, m)' <=> Meets(i, m)
      PROVE  (Active(r)' => Halfway(r, i)') /\ (~Active(r)' => Agreed(i)')
  <2>1. Placed(i) /\ (IF req[r].then = "remote" THEN Marked(r, i) ELSE Level(i))
        /\ (row[i].labels \ req[r].rm) \cup req[r].add = LabelsOf(row[i].at, "star" \in row[i].is)
    BY <1>2, <1>8 DEF Halfway
  <2>2. Placed(i)' /\ (Level(i) => Level(i)') /\ (Marked(r, i) => Marked(r, i)')
    BY <1>2, <1>3, <1>4, <1>5, <1>8, <2>1, FlagsAsWere DEF SamePlace
  <2>3. Labelled(i)'
    BY <1>2, <1>8, <2>1 DEF Labelled, SamePlace
  <2>4. CASE req[r].then = "remote"
    <3>1. n.pc = "remote" /\ n.op = "star"
      BY <1>2, <1>3, <1>5, <1>6, <1>8, <2>4 DEF Ordered
    <3>2. QED
      BY <1>5, <2>1, <2>2, <2>3, <2>4, <3>1 DEF Halfway, Active
  <2>5. CASE req[r].then # "remote"
    <3>1. n.pc \in {"next", "done"}
      BY <1>3, <1>5, <1>8, <2>5
    <3>2. QED
      BY <1>5, <2>1, <2>2, <2>3, <2>5, <3>1 DEF Agreed, Active
  <2>6. QED
    BY <2>4, <2>5
<1>9. QED
  BY <1>1, <1>2, <1>3, <1>4, <1>6, <1>7, <1>8, LocalFits

LEMMA UndoFits == ASSUME ActInv, NEW r \in Reqs, Undo(r) PROVE RowInv'
<1>1. PICK i \in RowIds : i = req[r].i
  BY ReqFields DEF ActInv
<1>2. /\ req[r].pc = "undo" /\ OnlyRow(i) /\ SamePlace(row'[i], row[i]) /\ row'[i].labels = row[i].labels
      /\ row[i].here => row'[i].is = req[r].prev.is /\ row'[i].flags = req[r].prev.flags
  BY <1>1, UndoDoes DEF ActInv
<1>3. PICK n \in ReqType :
              /\ req' = [req EXCEPT ![r] = n] /\ SameAsk(n, req[r]) /\ n.lost = req[r].lost
              /\ IF req[r].op = "read" THEN n.pc = "done"
                 ELSE /\ n.pc = "look" /\ n.at = req[r].snap[i][1] /\ n.then = "done"
                      /\ n.star = ("star" \in req[r].prev.is)
  BY <1>1, UndoDoes DEF ActInv
<1>4. UNCHANGED <<world, srv, uidNext, made, view, downs, moved, owed>>
  BY DEF Undo
<1>5. req'[r] = n /\ n.op = req[r].op /\ n.todo = req[r].todo
  BY <1>3 DEF ActInv, ActTypes, SameAsk
<1>6. Ordered(r) /\ Active(r) /\ req[r].op \in {"read", "star"}
  BY <1>2 DEF ActInv, RowInv, Ordered, Active
<1>7. Ordered(r)'
  BY <1>3, <1>5, <1>6 DEF Ordered, Active
<1>8. ASSUME row[i].here, Halfway(r, i), Starring(r) => req[r].snap[i][1] = row[i].at,
             \A m \in Mails : Meets(i, m)' <=> Meets(i, m)
      PROVE  (Active(r)' => Halfway(r, i)') /\ (~Active(r)' => Agreed(i)')
  <2>1. ~req[r].lost /\ Placed(i) /\ Marked(r, i) /\ Labelled(i)
    BY <1>2, <1>8 DEF Halfway
  <2>2. Level(i)'
    BY <1>2, <1>4, <1>8, <2>1 DEF Level, Marked
  <2>3. Placed(i)'
    BY <1>2, <1>4, <1>8, <2>1 DEF Placed, gmail, SamePlace
  <2>4. CASE req[r].op = "read"
    <3>1. "star" \in row'[i].is <=> "star" \in row[i].is
      BY <1>2, <1>8, <2>1, <2>4 DEF Marked, Flagged
    <3>2. Labelled(i)'
      BY <1>2, <2>1, <3>1 DEF Labelled, LabelsOf, SamePlace
    <3>3. QED
      BY <1>3, <1>5, <2>2, <2>3, <2>4, <3>2 DEF Agreed, Active
  <2>5. CASE req[r].op # "read"
    <3>1. n.at = row'[i].at
      BY <1>2, <1>3, <1>6, <1>8, <2>5 DEF Starring, SamePlace
    <3>2. QED
      BY <1>2, <1>3, <1>5, <1>8, <2>2, <2>3, <2>5, <3>1 DEF Halfway, Active
  <2>6. QED
    BY <2>4, <2>5
<1>9. QED
  BY <1>1, <1>2, <1>3, <1>4, <1>6, <1>7, <1>8, LocalFits

LEMMA LabelsFailFits == ASSUME ActInv, NEW r \in Reqs, LabelsFail(r) PROVE RowInv'
<1>1. PICK i \in RowIds : i = req[r].i
  BY ReqFields DEF ActInv
<1>2. /\ req[r].pc = "put" /\ Goes(r, "done") /\ "done" \in ActPhases /\ owed' = owed \cup {i}
      /\ UNCHANGED <<world, srv, uidNext, row, made, view, moved>>
  BY <1>1 DEF LabelsFail, Raise, ActPhases
<1>3. PICK n \in ReqType : req' = [req EXCEPT ![r] = n] /\ SameAsk(n, req[r]) /\ n.pc = "done"
  BY <1>2, GoesOn DEF ActInv
<1>4. Ordered(r)' /\ Active(r)
  BY <1>2, <1>3 DEF Ordered, Active, ActInv, ActTypes
<1>5. OnlyRow(i) /\ SamePlace(row'[i], row[i])
  BY <1>2 DEF OnlyRow, SamePlace, ActInv, ActTypes
<1>6. QED
  BY <1>1, <1>2, <1>3, <1>4, <1>5, LocalFits

LEMMA GiveUpFits == ASSUME ActInv, NEW r \in Reqs, GiveUp(r) PROVE RowInv'
<1>1. PICK i \in RowIds : i = req[r].i
  BY ReqFields DEF ActInv
<1>2. /\ req[r].pc = "remote" /\ owed' = (IF req[r].lost THEN owed \cup {i} ELSE owed)
      /\ UNCHANGED <<world, srv, uidNext, row, made, view, moved>>
  BY <1>1, GiveUpDoes DEF ActInv, GiveUp
<1>3. PICK n \in ReqType : /\ req' = [req EXCEPT ![r] = n] /\ SameAsk(n, req[r]) /\ n.lost = req[r].lost
                           /\ n.pc = IF req[r].op \in {"read", "star"} THEN "undo" ELSE "done"
  BY GiveUpDoes DEF ActInv
<1>4. req'[r] = n /\ n.op = req[r].op /\ n.todo = req[r].todo
  BY <1>3 DEF ActInv, ActTypes, SameAsk
<1>5. Ordered(r)' /\ Active(r)
  BY <1>2, <1>3, <1>4 DEF Ordered, Active, ActInv, RowInv
<1>6. OnlyRow(i) /\ SamePlace(row'[i], row[i])
  BY <1>2 DEF OnlyRow, SamePlace, ActInv, ActTypes
<1>7. ASSUME i \notin owed', Halfway(r, i), \A m \in Mails : Meets(i, m)' <=> Meets(i, m)
      PROVE  (Active(r)' => Halfway(r, i)') /\ (~Active(r)' => Agreed(i)')
  <2>1. ~req[r].lost
    BY <1>2, <1>7
  <2>2. IF req[r].op \in {"read", "star"} THEN Placed(i) /\ Marked(r, i) /\ Labelled(i) ELSE Agreed(i)
    BY <1>2, <1>7, <2>1 DEF Halfway
  <2>3. (Placed(i)' <=> Placed(i)) /\ (Level(i)' <=> Level(i)) /\ (Marked(r, i)' <=> Marked(r, i))
    BY <1>2, <1>3, <1>4, <1>7, FlagsAsWere
  <2>4. Labelled(i)' <=> Labelled(i)
    BY <1>2 DEF Labelled
  <2>5. CASE req[r].op \in {"read", "star"}
    BY <1>3, <1>4, <2>1, <2>2, <2>3, <2>4, <2>5 DEF Halfway, Active
  <2>6. CASE req[r].op \notin {"read", "star"}
    BY <1>3, <1>4, <2>2, <2>3, <2>4, <2>6 DEF Agreed, Active
  <2>7. QED
    BY <2>5, <2>6
<1>8. QED
  BY <1>1, <1>2, <1>3, <1>5, <1>6, <1>7, LocalFits

LEMMA SettleFits == ASSUME ActInv, NEW r \in Reqs, Settle(r) PROVE RowInv'
<1>1. PICK i \in RowIds : i = req[r].i
  BY ReqFields DEF ActInv
<1>2. /\ req[r].pc = "settle" /\ OnlyRow(i) /\ row'[i].here = row[i].here
      /\ row[i].here => /\ row'[i].of = row[i].of /\ row'[i].uid = row[i].uid /\ row'[i].labels = row[i].labels
                        /\ gmail => /\ row'[i].at = (IF req[r].op = "move" THEN req[r].to ELSE row[i].at)
                                    /\ row'[i].is = req[r].got /\ row'[i].flags = req[r].got
      /\ gmail => owed' = owed
      /\ ~gmail => owed' = owed \cup {i}
  BY <1>1, SettleDoes DEF ActInv
<1>3. PICK n \in ReqType :
                  /\ req' = [req EXCEPT ![r] = n] /\ SameAsk(n, req[r]) /\ n.lost = req[r].lost
                  /\ n.pc \in {"done", "next", "look"} /\ (n.pc = "look" => n.then = "next")
                  /\ gmail => IF req[r].op = "read" THEN n.pc = "next"
                              ELSE /\ n.pc = "look" /\ n.star = ("star" \in req[r].got)
                                   /\ n.at = IF req[r].op = "move" THEN req[r].to ELSE req[r].snap[i][1]
  BY <1>1, SettleDoes DEF ActInv
<1>4. UNCHANGED <<world, srv, uidNext, made, view, downs>> /\ (gmail' <=> gmail)
  BY DEF Settle, gmail
<1>5. req'[r] = n /\ n.op = req[r].op /\ n.todo = req[r].todo /\ n.to = req[r].to
  BY <1>3 DEF ActInv, ActTypes, SameAsk
<1>6. Ordered(r) /\ Active(r) /\ req[r].op # "delete" /\ req[r].op \in Ops
  BY <1>2, ReqFields DEF ActInv, RowInv, Ordered, Active
<1>7. Ordered(r)'
  BY <1>3, <1>5, <1>6 DEF Ordered, Active
<1>8. \A j \in RowIds : j # i => Still(j)
  BY <1>2, <1>4, StillHere DEF OnlyRow
<1>9. ASSUME i \notin owed', row'[i].here PROVE Leaves(r, i)
  <2>1. gmail /\ row[i].here /\ i \notin owed
    BY <1>2, <1>9
  <2>2. Halfway(r, i) /\ (Starring(r) => req[r].snap[i][1] = row[i].at)
    BY <1>1, <1>6, <2>1, OwnBefore
  <2>3. \A m \in Mails : Meets(i, m)' <=> Meets(i, m)
    BY <1>2, <1>4, <2>1 DEF Meets, Matches
  <2>4. /\ \A m \in Mails : Meets(i, m) => /\ req[r].got = srv[m].flags
                                           /\ srv[m].at = IF req[r].op = "move" THEN req[r].to ELSE row[i].at
        /\ req[r].op = "read" => row[i].labels = LabelsOf(row[i].at, "star" \in req[r].got)
    BY <1>2, <2>1, <2>2 DEF Halfway
  <2>5. Level(i)' /\ Placed(i)'
    BY <1>2, <1>4, <2>1, <2>3, <2>4 DEF Level, Placed
  <2>6. Starring(r)' => req[r].op = "star" \/ (req[r].op # "move" /\ \E t \in req[r].todo : t[1] = "star")
    BY <1>5, <1>6 DEF Starring, Ordered
  <2>7. Starring(r)' => req[r].snap[i][1] = row'[i].at
    BY <1>2, <1>6, <2>1, <2>2, <2>6 DEF Starring
  <2>8. CASE req[r].op = "read"
    <3>1. Labelled(i)'
      BY <1>2, <2>1, <2>4, <2>8 DEF Labelled
    <3>2. ~Active(r)'
      BY <1>3, <1>5, <2>1, <2>8 DEF Active
    <3>3. QED
      BY <1>2, <2>1, <2>5, <2>7, <3>1, <3>2 DEF Agreed, Leaves
  <2>9. CASE req[r].op # "read"
    <3>1. n.pc = "look" /\ n.then = "next" /\ (n.star <=> "star" \in row'[i].is)
      BY <1>2, <1>3, <2>1, <2>9
    <3>2. n.at = row'[i].at
      BY <1>2, <1>3, <1>6, <2>1, <2>2, <2>9 DEF Starring, Ops
    <3>3. Halfway(r, i)'
      BY <1>5, <2>5, <3>1, <3>2 DEF Halfway
    <3>4. Active(r)'
      BY <1>5, <3>1 DEF Active
    <3>5. QED
      BY <1>2, <2>1, <2>7, <3>3, <3>4 DEF Leaves
  <2>10. QED
    BY <2>8, <2>9
<1>10. uidNext' \in [Boxes -> Nat] /\ \A b \in Boxes : uidNext[b] <= uidNext'[b]
  BY <1>4 DEF ActInv, ActTypes
<1>11. \A j \in RowIds : j \notin owed' => j \notin owed
  BY <1>2
<1>12. QED
  BY <1>1, <1>3, <1>4, <1>6, <1>7, <1>8, <1>9, <1>10, <1>11, WorkFits

LEMMA EraseFits == ASSUME ActInv, NEW r \in Reqs, Erase(r) PROVE RowInv'
<1>1. PICK i \in RowIds : i = req[r].i
  BY ReqFields DEF ActInv
<1>2. /\ req[r].pc = "erase" /\ row' = [row EXCEPT ![i] = NoRow] /\ owed' = owed \ {i} /\ Goes(r, "next")
      /\ "next" \in ActPhases /\ UNCHANGED <<world, srv, uidNext, made, view, downs, moved>>
  BY <1>1 DEF Erase, ActPhases
<1>3. PICK n \in ReqType : req' = [req EXCEPT ![r] = n] /\ SameAsk(n, req[r]) /\ n.pc = "next"
  BY <1>2, GoesOn DEF ActInv
<1>4. Ordered(r)' /\ Active(r)
  BY <1>2, <1>3 DEF Ordered, Active, ActInv, ActTypes
<1>5. ~row'[i].here /\ \A j \in RowIds : j # i => row'[j] = row[j]
  BY <1>2, NoRowIsRow DEF ActInv, ActTypes
<1>6. \A j \in RowIds : j # i => Still(j)
  BY <1>2, <1>5, StillHere
<1>7. uidNext' \in [Boxes -> Nat] /\ \A b \in Boxes : uidNext[b] <= uidNext'[b]
  BY <1>2 DEF ActInv, ActTypes
<1>8. \A j \in RowIds : j \notin owed' /\ row'[j].here => j \notin owed
  BY <1>2, <1>5
<1>9. QED
  BY <1>1, <1>2, <1>3, <1>4, <1>5, <1>6, <1>7, <1>8, WorkFits

\* What the server does for a request is seen by its own row and by rows that are owed.
LEMMA EffectStill ==
  ASSUME ActInv, NEW r \in Reqs, Effect(r), UNCHANGED <<world, row>>,
         NEW j \in RowIds, j # req[r].i, j \notin owed', row[j].here
  PROVE  Still(j)
<1>1. ActTypes /\ j \notin owed /\ RowFits(j) /\ (gmail' <=> gmail)
  BY EffectDoes DEF ActInv, RowInv, gmail
<1>2. \A m \in Hit(r) : ~Matches(j, m, srv)
  BY <1>1, EffectDoes
<1>3. ASSUME NEW m \in Mails PROVE (Meets(j, m)' <=> Meets(j, m)) /\ (Meets(j, m) => srv'[m] = srv[m])
  <2>1. CASE m \notin Hit(r)
    <3>1. srv'[m] = srv[m]
      BY <1>1, <2>1, EffectDoes
    <3>2. QED
      BY <1>1, <3>1 DEF Meets, Matches
  <2>2. CASE m \in Hit(r)
    <3>1. ~Meets(j, m)
      BY <1>2, <2>2 DEF Meets
    <3>2. Told(r, srv'[m], srv[m]) /\ req[r].op \in Ops /\ req[r].to \in Boxes
      BY <1>1, <2>2, EffectDoes, ReqFields
    <3>3. ASSUME Meets(j, m)' PROVE FALSE
      <4>1. CASE gmail
        BY <1>1, <1>2, <2>2, <3>3, <4>1 DEF Meets, Matches
      <4>2. CASE ~gmail
        <5>1. row[j].at = srv'[m].at /\ row[j].uid = srv'[m].uid /\ srv'[m].at # "gone"
          BY <1>1, <3>3, <4>2 DEF Meets, Matches
        <5>2. ~(row[j].at = srv[m].at /\ row[j].uid = srv[m].uid)
          BY <1>2, <2>2, <4>2 DEF Matches
        <5>3. req[r].op = "move" /\ row[j].at = req[r].to /\ row[j].uid = uidNext[req[r].to]
          BY <3>2, <4>2, <5>1, <5>2 DEF Told, Ops
        <5>4. row[j].uid < uidNext[row[j].at] /\ uidNext[req[r].to] \in Nat
          BY <1>1, <3>2, <4>2 DEF RowFits, ActTypes
        <5>5. QED
          BY <5>3, <5>4
      <4>3. QED
        BY <4>1, <4>2
    <3>4. QED
      BY <3>1, <3>3
  <2>3. QED
    BY <2>1, <2>2
<1>4. QED
  BY <1>1, <1>3 DEF Still

\* The messages a request hits are those that its row matches, and each still does, or is gone from there.
LEMMA OwnIsHit ==
  ASSUME ActInv, NEW r \in Reqs, Active(r), Effect(r), UNCHANGED <<world, row>>, NEW i, i = req[r].i, i \notin owed', row[i].here
  PROVE  /\ \A m \in Mails : Matches(i, m, srv) <=> m \in Hit(r)
         /\ \A m \in Mails : Meets(i, m)' => m \in Hit(r) /\ Told(r, srv'[m], srv[m]) /\ srv[m].at # "gone"
<1>1. ActTypes /\ AskFits(r) /\ i \in RowIds /\ (gmail' <=> gmail) /\ req[r].snap[i] \in Boxes \X Nat
      /\ req[r].op \in Ops /\ req[r].to \in Boxes /\ i \notin owed /\ RowFits(i)
  BY ReqFields, EffectDoes DEF ActInv, HitInv, RowInv, gmail
<1>2. ~gmail => i \notin moved
  BY <1>1, EffectDoes
<1>3. ASSUME NEW m \in Mails PROVE Matches(i, m, srv) <=> m \in Hit(r)
  <2>1. CASE gmail
    BY <1>1, <2>1 DEF Matches, Hit, AskFits
  <2>2. CASE ~gmail
    <3>1. req[r].snap[i][1] = row[i].at /\ req[r].snap[i][2] = row[i].uid
      BY <1>1, <1>2, <2>2 DEF AskFits
    <3>2. QED
      BY <1>1, <2>2, <3>1 DEF Matches, Hit
  <2>3. QED
    BY <2>1, <2>2
<1>4. ASSUME NEW m \in Mails, Meets(i, m)' PROVE m \in Hit(r) /\ Told(r, srv'[m], srv[m]) /\ srv[m].at # "gone"
  <2>1. IF m \in Hit(r) THEN Told(r, srv'[m], srv[m]) ELSE srv'[m] = srv[m]
    BY <1>1, EffectDoes
  <2>2. CASE gmail
    <3>1. Matches(i, m, srv)
      BY <1>1, <1>4, <2>2 DEF Meets, Matches
    <3>2. srv[m].at # "gone"
      BY <2>2 DEF ActInv, HitInv, MailStands
    <3>3. QED
      BY <1>3, <2>1, <3>1, <3>2
  <2>3. CASE ~gmail
    <3>1. row[i].at = srv'[m].at /\ row[i].uid = srv'[m].uid /\ srv'[m].at # "gone"
      BY <1>1, <1>4, <2>3 DEF Meets, Matches
    <3>2. m \in Hit(r)
      <4>1. SUFFICES ASSUME m \notin Hit(r) PROVE Matches(i, m, srv)
        BY <1>3
      <4>2. srv'[m] = srv[m]
        BY <2>1, <4>1
      <4>3. QED
        BY <2>3, <3>1, <4>2 DEF Matches
    <3>3. row[i].at = srv[m].at
      BY <1>3, <2>3, <3>2 DEF Matches
    <3>4. row[i].at # "gone"
      BY <3>1
    <3>5. QED
      BY <2>1, <3>2, <3>3, <3>4
  <2>4. QED
    BY <2>2, <2>3
<1>5. QED
  BY <1>3, <1>4

\* To set a flag twice is to set it once.
LEMMA FlaggedTwice == ASSUME NEW r, NEW S PROVE Flagged(Flagged(S, r), r) = Flagged(S, r)
BY DEF Flagged

LEMMA AnswerFits == ASSUME ActInv, NEW r \in Reqs, Answer(r) PROVE RowInv'
<1>1. PICK i \in RowIds : i = req[r].i
  BY ReqFields DEF ActInv
<1>2. req[r].pc = "remote" /\ UNCHANGED <<world, row, made, view, downs, moved>> /\ (gmail' <=> gmail)
  BY DEF Answer, gmail
<1>3. Active(r) /\ AskFits(r) /\ Ordered(r) /\ req[r].of \in Mails /\ req[r].op \in Ops
  BY <1>2, ReqFields DEF ActInv, HitInv, RowInv, AskFits, Active
<1>4. Effect(r)
  BY <1>3, AnswerDoes DEF ActInv
<1>5. PICK n \in ReqType :
              /\ req' = [req EXCEPT ![r] = n] /\ SameAsk(n, req[r])
              /\ gmail => n.got = srv'[req[r].of].flags
              /\ n.pc = CASE req[r].op \in {"read", "star"} -> IF gmail THEN "settle" ELSE "next"
                          [] req[r].op = "move" -> "settle"
                          [] req[r].op = "delete" -> "erase"
  BY <1>3, AnswerDoes DEF ActInv
<1>6. req'[r] = n /\ n.op = req[r].op /\ n.todo = req[r].todo /\ n.to = req[r].to
  BY <1>5 DEF ActInv, ActTypes, SameAsk
<1>7. /\ req[r].op \in {"read", "star"} /\ gmail => n.pc = "settle"
      /\ req[r].op \in {"read", "star"} /\ ~gmail => n.pc = "next"
      /\ req[r].op = "move" => n.pc = "settle"
      /\ req[r].op = "delete" => n.pc = "erase"
  BY <1>5
<1>8. Ordered(r)'
  BY <1>3, <1>6, <1>7 DEF Ordered, Active, Ops
<1>9. uidNext' \in [Boxes -> Nat] /\ \A b \in Boxes : uidNext[b] <= uidNext'[b]
  BY <1>4, EffectDoes DEF ActInv
<1>10. \A j \in RowIds : j \notin owed' => j \notin owed
  BY <1>4, EffectDoes DEF ActInv
<1>11. \A j \in RowIds : j # i /\ j \notin owed' /\ row'[j].here => Still(j)
  BY <1>1, <1>2, <1>4, EffectStill
<1>12. ASSUME i \notin owed', row'[i].here PROVE Leaves(r, i)
  <2>1. row[i].here /\ i \notin owed
    BY <1>2, <1>10, <1>12
  <2>2. Halfway(r, i) /\ (Starring(r) => req[r].snap[i][1] = row[i].at)
    BY <1>1, <1>3, <2>1, OwnBefore
  <2>3. /\ \A m \in Mails : Matches(i, m, srv) <=> m \in Hit(r)
        /\ \A m \in Mails : Meets(i, m)' => m \in Hit(r) /\ Told(r, srv'[m], srv[m]) /\ srv[m].at # "gone"
    BY <1>1, <1>2, <1>3, <1>4, <1>12, <2>1, OwnIsHit
  <2>4. Starring(r)' => Starring(r)
    BY <1>3, <1>6 DEF Starring
  <2>5. gmail => \A m \in Mails : Meets(i, m)' => n.got = srv'[m].flags
    BY <1>5, <2>3 DEF Hit
  <2>6. CASE req[r].op \in {"read", "star"}
    <3>1. Placed(i) /\ Marked(r, i) /\ Labelled(i)
      BY <1>2, <2>2, <2>6 DEF Halfway
    <3>2. \A m \in Mails : Meets(i, m)' => Meets(i, m) /\ srv'[m].at = srv[m].at /\ srv'[m].flags = Flagged(srv[m].flags, r)
      BY <2>3, <2>6 DEF Meets, Told
    <3>3. Level(i)'
      BY <1>2, <3>1, <3>2 DEF Level, Marked
    <3>4. Placed(i)' /\ Labelled(i)'
      BY <1>2, <3>1, <3>2 DEF Placed, Labelled
    <3>5. CASE ~gmail
      <4>1. ~Active(r)'
        BY <1>6, <1>7, <2>6, <3>5 DEF Active
      <4>2. QED
        BY <1>2, <2>1, <2>2, <2>4, <3>3, <3>4, <4>1 DEF Leaves, Agreed
    <3>6. CASE gmail
      <4>1. \A m \in Mails : Meets(i, m)' => n.got = srv'[m].flags /\ srv'[m].at = row[i].at
        BY <2>5, <3>1, <3>2, <3>6 DEF Placed
      <4>2. n.got = row[i].is
        <5>1. PICK m \in Mails : m = req[r].of /\ row[i].of = m
          BY <1>1, <1>3, <2>1 DEF AskFits
        <5>2. srv'[m].at # "gone"
          BY <1>2, <1>3, <3>6, <5>1, AnswerKeeps DEF ActInv, HitInv, MailStands
        <5>3. Meets(i, m)'
          BY <1>2, <3>6, <5>1, <5>2 DEF Meets, Matches
        <5>4. row'[i].is = srv'[m].flags
          BY <3>3, <5>3 DEF Level
        <5>5. QED
          BY <1>2, <1>5, <3>6, <5>1, <5>4
      <4>3. Halfway(r, i)'
        BY <1>2, <1>6, <1>7, <2>6, <3>1, <3>6, <4>1, <4>2 DEF Halfway, Labelled
      <4>4. Active(r)'
        BY <1>6, <1>7, <2>6, <3>6 DEF Active
      <4>5. QED
        BY <1>2, <2>1, <2>2, <2>4, <4>3, <4>4 DEF Leaves
    <3>7. QED
      BY <3>5, <3>6
  <2>7. CASE req[r].op = "move"
    <3>1. \A m \in Mails : Meets(i, m)' => srv'[m].at = req[r].to
      BY <2>3, <2>7 DEF Told
    <3>2. Halfway(r, i)' /\ Active(r)'
      BY <1>2, <1>6, <1>7, <2>5, <2>7, <3>1 DEF Halfway, Active
    <3>3. QED
      BY <1>2, <2>1, <2>2, <2>4, <3>2 DEF Leaves
  <2>8. CASE req[r].op = "delete"
    <3>1. Halfway(r, i)' /\ Active(r)'
      BY <1>6, <1>7, <2>8 DEF Halfway, Active
    <3>2. QED
      BY <1>2, <2>1, <2>2, <2>4, <3>1 DEF Leaves
  <2>9. QED
    BY <1>3, <2>6, <2>7, <2>8 DEF Ops
<1>13. QED
  BY <1>1, <1>2, <1>3, <1>5, <1>8, <1>9, <1>10, <1>11, <1>12, WorkFits

LEMMA AnswerLostFits == ASSUME ActInv, NEW r \in Reqs, AnswerLost(r) PROVE RowInv'
<1>1. PICK i \in RowIds : i = req[r].i
  BY ReqFields DEF ActInv
<1>2. req[r].pc = "remote" /\ UNCHANGED <<world, row, made, view, moved>> /\ (gmail' <=> gmail) /\ Effect(r)
  BY DEF AnswerLost, gmail
<1>3. Active(r) /\ Ordered(r)
  BY <1>2 DEF ActInv, RowInv, Active
<1>4. PICK n \in ReqType : req' = [req EXCEPT ![r] = n] /\ SameAsk(n, req[r]) /\ n.pc = "remote" /\ n.lost
  BY AnswerLostDoes DEF ActInv
<1>5. req'[r] = n /\ n.op = req[r].op /\ n.todo = req[r].todo /\ n.prev = req[r].prev /\ n.want = req[r].want
  BY <1>4 DEF ActInv, ActTypes, SameAsk
<1>6. Ordered(r)'
  BY <1>3, <1>4, <1>5 DEF Ordered, Active
<1>7. uidNext' \in [Boxes -> Nat] /\ \A b \in Boxes : uidNext[b] <= uidNext'[b]
  BY <1>2, EffectDoes DEF ActInv
<1>8. \A j \in RowIds : j \notin owed' => j \notin owed
  BY <1>2, EffectDoes DEF ActInv
<1>9. \A j \in RowIds : j # i /\ j \notin owed' /\ row'[j].here => Still(j)
  BY <1>1, <1>2, EffectStill
<1>10. ASSUME i \notin owed', row'[i].here PROVE Leaves(r, i)
  <2>1. row[i].here /\ i \notin owed
    BY <1>2, <1>8, <1>10
  <2>2. Halfway(r, i) /\ (Starring(r) => req[r].snap[i][1] = row[i].at)
    BY <1>1, <1>3, <2>1, OwnBefore
  <2>3. \A m \in Mails : Meets(i, m)' => m \in Hit(r) /\ Told(r, srv'[m], srv[m]) /\ srv[m].at # "gone"
    BY <1>1, <1>2, <1>3, <1>10, <2>1, OwnIsHit
  <2>4. \A m \in Mails : Matches(i, m, srv) <=> m \in Hit(r)
    BY <1>1, <1>2, <1>3, <1>10, <2>1, OwnIsHit
  <2>5. (Starring(r)' => Starring(r)) /\ Active(r)'
    BY <1>3, <1>4, <1>5 DEF Starring, Active
  <2>6. Halfway(r, i)'
    <3>1. CASE req[r].op \in {"read", "star"}
      <4>1. Placed(i) /\ Marked(r, i) /\ Labelled(i)
        BY <1>2, <2>2, <3>1 DEF Halfway
      <4>2. \A m \in Mails : Meets(i, m)' => /\ Meets(i, m) /\ srv'[m].at = srv[m].at
                                             /\ srv'[m].flags = Flagged(srv[m].flags, r)
        BY <2>3, <2>4, <3>1 DEF Meets, Told
      <4>3. Placed(i)' /\ Labelled(i)'
        BY <1>2, <4>1, <4>2 DEF Placed, Labelled
      <4>4. Flagged(req[r].prev.is, r)' = Flagged(req[r].prev.is, r)
        BY <1>5 DEF Flagged
      <4>5. \A m \in Mails : Meets(i, m)' => Flagged(srv[m].flags, r)' = Flagged(srv[m].flags, r)
        <5>1. SUFFICES ASSUME NEW m \in Mails, Meets(i, m)'
                       PROVE  Flagged(srv[m].flags, r)' = Flagged(srv[m].flags, r)
          OBVIOUS
        <5>2. srv'[m].flags = Flagged(srv[m].flags, r)
          BY <4>2, <5>1
        <5>3. Flagged(srv[m].flags, r)' = Flagged(Flagged(srv[m].flags, r), r)
          BY <1>5, <5>2 DEF Flagged
        <5>4. QED
          BY <5>3, FlaggedTwice
      <4>6. Marked(r, i)'
        BY <1>2, <1>4, <1>5, <4>1, <4>2, <4>4, <4>5 DEF Marked
      <4>7. QED
        BY <1>4, <1>5, <3>1, <4>3, <4>6 DEF Halfway
    <3>2. CASE req[r].op \notin {"read", "star"}
      BY <1>4, <1>5, <3>2 DEF Halfway
    <3>3. QED
      BY <3>1, <3>2
  <2>7. QED
    BY <1>2, <2>1, <2>2, <2>5, <2>6 DEF Leaves
<1>11. QED
  BY <1>1, <1>2, <1>3, <1>4, <1>6, <1>7, <1>8, <1>9, <1>10, WorkFits

\* Nobody is at work on a row of a request that is between two operations.
LEMMA NobodyElse ==
  ASSUME ActInv, NEW r \in Reqs, req[r].pc = "next", NEW i \in RowIds, RowFits(i), i \in req[r].on PROVE Agreed(i)
<1>1. ASSUME NEW q \in Reqs, Works(q, i) PROVE FALSE
  <2>1. Open(q) /\ i \in req[q].on /\ Open(r) /\ q # r
    BY <1>1 DEF Works, Active, Open, ActInv, HitInv, AskFits
  <2>2. QED
    BY <2>1 DEF RowFits
<1>2. QED
  BY <1>1 DEF RowFits

LEMMA BeginFits == ASSUME ActInv, NEW r \in Reqs, Begin(r) PROVE RowInv'
<1>1. UNCHANGED <<world, srv, uidNext, row, made, view, downs, moved, owed>> /\ (gmail' <=> gmail)
  BY DEF Begin, gmail
<1>2. ActTypes /\ HitInv /\ RowInv /\ req[r].pc = "next" /\ AskFits(r)
  BY BeginDoes DEF ActInv, HitInv
<1>3. PICK n \in ReqType, t \in req[r].todo :
              /\ req' = [req EXCEPT ![r] = n] /\ n.on = req[r].on /\ n.snap = req[r].snap
              /\ n.todo = req[r].todo \ {t} /\ n.op = t[1] /\ n.i = t[2] /\ n.of = row[t[2]].of /\ ~n.lost
              /\ n.prev.is = row[t[2]].is /\ n.prev.flags = row[t[2]].flags
              /\ n.pc = IF ~row[t[2]].here THEN "done" ELSE IF t[1] \in {"read", "star"} THEN "mark" ELSE "remote"
              /\ \A u \in req[r].todo : Before(t, u)
  BY <1>2, BeginDoes
<1>4. t \in Ops \X RowIds /\ t[1] \in Ops /\ t[2] \in RowIds /\ t[2] \in req[r].on /\ req[r].todo \subseteq Ops \X RowIds
  BY <1>2, ReqFields DEF AskFits
<1>5. req'[r] = n /\ Open(r) /\ ~Active(r)
  BY <1>2, <1>3 DEF ActTypes, Open, Active
<1>6. Starring(r)' => Starring(r)
  BY <1>3, <1>5 DEF Starring
<1>7. Ordered(r)'
  <2>1. ASSUME t[1] \in {"move", "delete"}, NEW u \in n.todo PROVE u[1] # "star"
    <3>1. Before(t, u)
      BY <1>3
    <3>2. QED
      BY <2>1, <3>1 DEF Before, Rank
  <2>2. n.pc \in {"done", "mark", "remote"} /\ (n.pc = "mark" => n.op \in {"read", "star"} /\ ~n.lost)
    BY <1>3
  <2>3. QED
    BY <1>3, <1>5, <2>1, <2>2 DEF Ordered
<1>8. \A q \in Reqs : Ordered(q)'
  BY <1>2, <1>3, <1>7, OrderStays DEF RowInv
<1>9. \A b \in Boxes : uidNext'[b] \in Nat /\ uidNext[b] <= uidNext'[b]
  BY <1>1, <1>2 DEF ActTypes
<1>10. ASSUME NEW j \in RowIds, j \notin owed, row[j].here PROVE RowFits(j)'
  <2>1. RowFits(j) /\ Still(j)
    BY <1>1, <1>2, <1>10, StillHere DEF RowInv
  <2>2. CASE j # t[2]
    <3>1. ~Works(r, j) /\ ~Works(r, j)'
      BY <1>3, <1>5, <2>2 DEF Works
    <3>2. QED
      BY <1>2, <1>3, <1>5, <1>6, <1>9, <2>1, <3>1, OtherFits
  <2>3. CASE j = t[2]
    <3>1. Agreed(j) /\ j \in req[r].on
      BY <1>2, <1>4, <2>1, <2>3, NobodyElse
    <3>2. Agreed(j)'
      BY <2>1, <3>1, StillAgrees
    <3>3. n.pc = IF t[1] \in {"read", "star"} THEN "mark" ELSE "remote"
      BY <1>3, <1>10, <2>3
    <3>4. Halfway(r, j)'
      BY <1>1, <1>3, <1>5, <2>3, <3>2, <3>3 DEF Halfway
    <3>5. Starring(r)' => req[r].snap[j][1] = row'[j].at
      BY <1>1, <1>5, <1>6, <2>1, <3>1 DEF RowFits
    <3>6. row'[j].uid = row[j].uid /\ row'[j].at = row[j].at
      BY <1>1
    <3>7. QED
      BY <1>1, <1>2, <1>3, <1>5, <1>9, <2>1, <3>1, <3>2, <3>4, <3>5, <3>6, OwnFits
  <2>4. QED
    BY <2>2, <2>3
<1>11. QED
  BY <1>1, <1>8, <1>10 DEF RowInv

LEMMA ReplyFits == ASSUME ActInv, NEW r \in Reqs, Reply(r) PROVE RowInv'
<1>1. UNCHANGED <<world, srv, uidNext, row, made, view, downs, moved, owed>>
  BY DEF Reply
<1>2. /\ ActTypes /\ HitInv /\ RowInv /\ req[r].pc = "next" /\ req[r].todo = {} /\ Goes(r, "done") /\ "done" \in ActPhases
  BY DEF ActInv, Reply, ActPhases
<1>3. PICK n \in ReqType : req' = [req EXCEPT ![r] = n] /\ SameAsk(n, req[r]) /\ n.pc = "done"
  BY <1>2, GoesOn
<1>4. req'[r] = n /\ Open(r) /\ ~Active(r) /\ n.on = req[r].on /\ n.snap = req[r].snap /\ n.todo = req[r].todo
  BY <1>2, <1>3 DEF ActTypes, Open, Active, SameAsk
<1>5. ~Active(r)' /\ (Starring(r)' => Starring(r)) /\ Ordered(r)'
  BY <1>3, <1>4 DEF Active, Starring, Ordered
<1>6. \A q \in Reqs : Ordered(q)'
  BY <1>2, <1>3, <1>5, OrderStays DEF RowInv
<1>7. \A b \in Boxes : uidNext'[b] \in Nat /\ uidNext[b] <= uidNext'[b]
  BY <1>1, <1>2 DEF ActTypes
<1>8. ASSUME NEW j \in RowIds, j \notin owed, row[j].here PROVE RowFits(j)'
  <2>1. RowFits(j) /\ Still(j) /\ ~Works(r, j) /\ ~Works(r, j)'
    BY <1>1, <1>2, <1>4, <1>5, <1>8, StillHere DEF RowInv, Works
  <2>2. QED
    BY <1>2, <1>3, <1>4, <1>5, <1>7, <2>1, OtherFits
<1>9. QED
  BY <1>1, <1>6, <1>8 DEF RowInv

LEMMA AskedFits == ASSUME ActInv, NEW r \in Reqs, Start(r) PROVE RowInv'
<1>1. UNCHANGED <<world, srv, uidNext, row, made, view, downs, moved>> /\ (gmail' <=> gmail)
  BY DEF Start, gmail
<1>2. ActTypes /\ HitInv /\ RowInv /\ req[r].pc = "idle"
  BY StartDoes DEF ActInv
<1>3. PICK n \in ReqType :
              /\ req' = [req EXCEPT ![r] = n] /\ n.pc = "next" /\ (\A j \in RowIds : n.snap[j] = <<row[j].at, row[j].uid>>)
              /\ owed' = owed \cup {j \in n.on : Busy(j)}
  BY <1>2, StartDoes
<1>4. req'[r] = n /\ ~Open(r) /\ ~Active(r) /\ \A q \in Reqs : q # r => req'[q] = req[q]
  BY <1>2, <1>3 DEF ActTypes, Open, Active
<1>5. ~Active(r)' /\ Ordered(r)'
  BY <1>3, <1>4 DEF Active, Ordered
<1>6. \A q \in Reqs : Ordered(q)'
  BY <1>2, <1>3, <1>5, OrderStays DEF RowInv
<1>7. ASSUME NEW j \in RowIds, j \notin owed', row[j].here PROVE RowFits(j)'
  <2>1. RowFits(j) /\ Still(j) /\ (j \in n.on => ~Busy(j))
    BY <1>1, <1>2, <1>3, <1>7, StillHere DEF RowInv
  <2>2. ASSUME NEW q \in Reqs PROVE (Works(q, j)' <=> Works(q, j)) /\ (Works(q, j) => req'[q] = req[q])
    BY <1>4, <1>5 DEF Works, Active
  <2>3. ASSUME NEW p \in Reqs, NEW q \in Reqs, Open(p)', Open(q)', j \in req'[p].on, j \in req'[q].on PROVE p = q
    <3>1. \A s \in Reqs : s # r /\ Open(s)' /\ j \in req'[s].on => Open(s) /\ j \in req[s].on
      BY <1>4 DEF Open
    <3>2. CASE p # r /\ q # r
      BY <2>1, <2>3, <3>1, <3>2 DEF RowFits
    <3>3. CASE p = r \/ q = r
      BY <1>4, <2>1, <2>3, <3>1, <3>3 DEF Busy
    <3>4. QED
      BY <3>2, <3>3
  <2>4. (\A q \in Reqs : ~Works(q, j)') => Agreed(j)'
    BY <2>1, <2>2, StillAgrees DEF RowFits
  <2>5. ASSUME NEW q \in Reqs, Works(q, j)' PROVE Halfway(q, j)'
    BY <2>1, <2>2, <2>5, StillHalfway DEF RowFits
  <2>6. ASSUME NEW q \in Reqs, Open(q)', j \in req'[q].on, Starring(q)' PROVE req'[q].snap[j][1] = row'[j].at
    <3>1. CASE q = r
      BY <1>1, <1>3, <1>4, <3>1
    <3>2. CASE q # r
      <4>1. req'[q] = req[q] /\ Open(q) /\ Starring(q)
        BY <1>4, <2>6, <3>2 DEF Open, Starring, Active
      <4>2. QED
        BY <1>1, <2>1, <2>6, <4>1 DEF RowFits
    <3>3. QED
      BY <3>1, <3>2
  <2>7. ~gmail' => row'[j].uid < uidNext'[row'[j].at]
    BY <1>1, <2>1 DEF RowFits
  <2>8. QED
    BY <2>3, <2>4, <2>5, <2>6, <2>7 DEF RowFits
<1>8. \A j \in RowIds : j \notin owed' => j \notin owed
  BY <1>3
<1>9. QED
  BY <1>1, <1>6, <1>7 DEF RowInv

\* Nothing RowInv speaks of changes.
LEMMA NothingNew == ASSUME ActInv, UNCHANGED <<world, srv, uidNext, row, req, owed>> PROVE RowInv'
<1>1. (gmail' <=> gmail) /\ \A i : Still(i)
  BY StillHere DEF gmail
<1>2. \A q \in Reqs : Ordered(q)'
  BY DEF ActInv, RowInv, Ordered, Active
<1>3. ASSUME NEW i \in RowIds, RowFits(i) PROVE RowFits(i)'
  <2>1. (Agreed(i)' <=> Agreed(i)) /\ \A q \in Reqs : (Works(q, i)' <=> Works(q, i)) /\ (Halfway(q, i) => Halfway(q, i)')
    BY <1>1, StillAgrees, StillHalfway DEF Works, Active
  <2>2. QED
    BY <1>1, <1>3, <2>1 DEF RowFits, Open, Starring, Active
<1>4. QED
  BY <1>2, <1>3 DEF ActInv, RowInv

LEMMA ApplyFits == ASSUME ActInv, Apply PROVE RowInv'
<1>1. UNCHANGED <<world, srv, uidNext, req, downs, moved>> /\ (gmail' <=> gmail)
  BY DEF Apply, gmail
<1>2. ActTypes /\ HitInv /\ RowInv
  BY DEF ActInv
<1>3. \A q \in Reqs : Ordered(q)'
  BY <1>1, <1>2 DEF RowInv, Ordered, Active
<1>4. ASSUME NEW i \in RowIds, i \notin owed', row'[i].here PROVE RowFits(i)'
  <2>1. ~Busy(i) /\ Labelled(i)' /\ \E m \in Mails : Made(i, m, srv) \/ Found(i, m, srv)
    BY <1>2, <1>4, ApplyDoes DEF Labelled
  <2>2. PICK m \in Mails : Made(i, m, srv) \/ Found(i, m, srv)
    BY <2>1
  <2>3. srv[m] \in SrvType /\ srv[m].at # "gone" /\ (~gmail => Owns(srv[m].at, srv[m].uid, m))
    BY <1>2, <2>2 DEF ActTypes, Made, Found, HitInv, MailStands
  <2>4. row'[i].is = srv[m].flags /\ row'[i].flags = srv[m].flags /\ (gmail => row'[i].of = m /\ row'[i].at = srv[m].at)
        /\ (~gmail => row'[i].at = srv[m].at /\ row'[i].uid = srv[m].uid)
    <3>1. CASE Made(i, m, srv)
      BY <2>3, <3>1, RowOfIsRow DEF Made
    <3>2. CASE Found(i, m, srv)
      <4>1. Matches(i, m, srv) /\ row'[i].of = row[i].of /\ row'[i].uid = row[i].uid
            /\ row'[i].at = (IF gmail THEN srv[m].at ELSE row[i].at)
            /\ row'[i].is = srv[m].flags /\ row'[i].flags = srv[m].flags
        BY <3>2 DEF Found
      <4>2. QED
        BY <4>1 DEF Matches
    <3>3. QED
      BY <2>2, <3>1, <3>2
  <2>5. ASSUME NEW k \in Mails, Meets(i, k)' PROVE k = m
    <3>1. srv[k].at # "gone" /\ (gmail => row'[i].of = k)
          /\ (~gmail => row'[i].at = srv[k].at /\ row'[i].uid = srv[k].uid)
      BY <1>1, <2>5 DEF Meets, Matches
    <3>2. QED
      BY <2>3, <2>4, <3>1 DEF Owns
  <2>6. Agreed(i)'
    BY <1>1, <2>1, <2>4, <2>5 DEF Agreed, Level, Placed
  <2>7. \A q \in Reqs : ~(Open(q)' /\ i \in req'[q].on)
    BY <1>1, <2>1 DEF Busy, Open
  <2>8. \A q \in Reqs : ~Works(q, i)'
    BY <1>1, <1>2, <2>7 DEF Works, Active, Open, HitInv, AskFits
  <2>9. ~gmail' => row'[i].uid < uidNext'[row'[i].at]
    BY <1>1, <2>3, <2>4 DEF Owns
  <2>10. QED
    BY <2>6, <2>7, <2>8, <2>9 DEF RowFits
<1>5. QED
  BY <1>3, <1>4 DEF RowInv

LEMMA FirstRowsFit == ASSUME ActInit PROVE RowInv
<1>1. ActTypes /\ HitInv
  BY ActStarts, StartFits
<1>2. \A r \in Reqs : req[r].pc = "idle"
  BY DEF ActInit, Idle
<1>3. (\A r \in Reqs : Ordered(r)) /\ \A r \in Reqs : ~Active(r) /\ ~Open(r)
  BY <1>2 DEF Ordered, Active, Open
<1>4. ASSUME NEW i \in RowIds, row[i].here PROVE RowFits(i)
  <2>1. PICK S \in SUBSET Mails : row = [j \in RowIds |-> IF j \in S THEN RowOf(j, srv[j]) ELSE NoRow]
    BY DEF ActInit
  <2>2. i \in S /\ i \in Mails /\ row[i] = RowOf(i, srv[i])
    BY <1>4, <2>1, NoRowIsRow
  <2>3. srv[i] \in SrvType /\ srv[i].at # "gone"
    BY <2>2 DEF ActInit, SrvType, Flags, Boxes
  <2>4. (~gmail => Owns(srv[i].at, srv[i].uid, i)) /\ row[i].of = i /\ row[i].at = srv[i].at /\ row[i].uid = srv[i].uid
        /\ row[i].is = srv[i].flags /\ row[i].flags = srv[i].flags
        /\ row[i].labels = LabelsOf(srv[i].at, "star" \in srv[i].flags)
    BY <1>1, <2>2, <2>3, RowOfIsRow DEF HitInv, MailStands
  <2>5. \A k \in Mails : Meets(i, k) => k = i
    BY <2>2, <2>4 DEF Meets, Matches, Owns
  <2>6. Agreed(i)
    BY <2>4, <2>5 DEF Agreed, Level, Placed, Labelled
  <2>7. ~gmail => row[i].uid < uidNext[row[i].at]
    BY <2>4 DEF Owns
  <2>8. QED
    BY <1>3, <2>6, <2>7 DEF RowFits, Works
<1>5. QED
  BY <1>3, <1>4 DEF RowInv

LEMMA ActFits == ActInv /\ [ActNext]_actVars => ActInv'
<1> SUFFICES ASSUME ActInv, [ActNext]_actVars PROVE ActInv'
  OBVIOUS
<1>1. ActTypes' /\ HitInv'
  BY ActKeeps DEF ActInv
<1>2. ASSUME UNCHANGED actVars \/ Fetch PROVE RowInv'
  BY <1>2, NothingNew DEF actVars, Fetch
<1>3. ASSUME Apply PROVE RowInv'
  BY <1>3, ApplyFits
<1>4. ASSUME NEW r \in Reqs, Start(r) \/ Serve(r) \/ LabelsFail(r) \/ AnswerLost(r) \/ GiveUp(r) PROVE RowInv'
  BY <1>4, AskedFits, BeginFits, ReplyFits, OptimisticFits, LookFits, PutFits, AnswerFits, UndoFits,
     SettleFits, EraseFits, LabelsFailFits, AnswerLostFits, GiveUpFits DEF Serve
<1>5. RowInv'
  BY <1>2, <1>3, <1>4 DEF ActNext
<1>6. QED
  BY <1>1, <1>5 DEF ActInv

(* A row that no request is at work on and to which nothing is owed says of its  *)
(* message what the server says: flags, folder and system labels (the UPDATEs of *)
(* imapService.monolith.ts around each call, and their undoing).                 *)
THEOREM RowsAlwaysAgree == ActSpec => []RowsAgree
<1>1. ActInit => ActInv
  BY ActStarts, StartFits, FirstRowsFit DEF ActInv
<1>2. ActInv => RowsAgree
  <2> SUFFICES ASSUME ActInv, NEW i \in RowIds, row[i].here, ~Busy(i), i \notin owed PROVE Agrees(i)
    BY DEF RowsAgree
  <2>1. RowFits(i) /\ \A q \in Reqs : AskFits(q)
    BY DEF ActInv, RowInv, HitInv
  <2>2. \A q \in Reqs : ~Works(q, i)
    BY <2>1 DEF Works, Active, Busy, Open, AskFits
  <2>3. Agreed(i)
    BY <2>1, <2>2 DEF RowFits
  <2>4. QED
    BY <2>3 DEF Agrees, Agreed, Level, Placed, Labelled, Meets
<1>3. QED
  BY <1>1, <1>2, ActFits, PTL DEF ActSpec
=============================================================================
