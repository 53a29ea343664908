-------------------------- MODULE MailboxSyncProofs --------------------------
(***************************************************************************)
(* Theorems of MailboxSync, for any runs, uids, mod-sequences, settings,   *)
(* retries and faults: no message is forgotten (NoGap), no flag stays      *)
(* stale (NoStaleFlag) and no body is another message's (OneEra). The      *)
(* three speak of what is stored, which a run writes from its closure long *)
(* after it read the server; MailboxInv adds what each closure still knows *)
(* (RunInv): what its watermark, its modseq and the one it opened with     *)
(* tell of the mailbox as it is now, and which uids are still to fetch.    *)
(***************************************************************************)
EXTENDS MailboxSync, FiniteSetTheorems, WellFoundedInduction, TLAPS

\* The passes of runMailboxSync and the places of a run.
Passes == {"changed", "range", "tail", "refresh"}
Points == {"off", "claim", "open", "source", "reconcile", "sweep", "save"} \cup Passes
\* The run has not opened the mailbox.
Outside == {"off", "claim", "open"}
\* What the closure of a run holds, and a row of sync_states.
Closures ==
  [pc : Points, seen : Nat, high : Nat, mod : Nat, era : 0..2, due : BOOLEAN,
   oMod : Nat, oEra : 0..2, todo : SUBSET Uids, pass : Passes, remote : SUBSET Uids,
   had : SUBSET Uids, met : SUBSET Uids, chg : BOOLEAN, full : BOOLEAN, tries : Nat,
   lost : BOOLEAN]
StateRows == [seen : Nat, high : Nat, mod : Nat, era : 0..2, due : BOOLEAN]

\* Types of the server, of the messages and of the whole.
ServerOK ==
  /\ present \subseteq Uids /\ next \in Nat \ {0} /\ \A u \in present : u < next
  /\ flag \in [Uids -> BOOLEAN] /\ modOf \in [Uids -> Nat]
  /\ mod \in Nat \ {0} /\ era \in {1, 2}
RowsOK ==
  /\ rows \subseteq Uids /\ rowFlag \in [Uids -> BOOLEAN] /\ rowEra \in [Uids -> 0..2]
  /\ bare \subseteq Uids /\ owed \subseteq Uids
TypeOK ==
  /\ set \in Settings /\ ServerOK /\ RowsOK
  /\ db \in StateRows /\ run \in [Runs -> Closures] /\ faults \in Nat

-----------------------------------------------------------------------------
(* Where a uid stands. *)

\* It has a row, is owed, or was given out and is gone.
Accounted(v) == v \in rows \/ v \in owed \/ (v < next /\ v \notin present)
\* It was given out, or has a row, or is owed.
Given(v) == v < next \/ v \in rows \/ v \in owed
\* It has a row, or changed after m.
Held(u, m) == u \in present => modOf[u] > m \/ u \in owed \/ u \in rows
\* Its row shows its flag, or it changed after m.
Shown(u, m) == u \in present /\ u \in rows => modOf[u] > m \/ u \in owed \/ rowFlag[u] = flag[u]

\* A run that works on the mailbox as it is now, or will without a reset; one that
\* fetches from it.
Fetching(r) == run[r].pc \notin Outside /\ run[r].oEra = era
Current(r) == run[r].pc # "off" /\ (run[r].era \in {0, era} \/ Fetching(r))
\* Somebody does not know that the mailbox is another, or has begun it anew.
Noticed == db.era \in {0, era} \/ \E r \in Runs : Current(r)
\* The first pass of the attempt is not over.
Early(r) == run[r].pc \in Outside \cup {"changed"} \/ (run[r].pc = "range" /\ ~run[r].chg)

-----------------------------------------------------------------------------
(* The invariant. *)

\* A modseq is stored where the server has them, and with a UIDVALIDITY only.
DbMods == (~set.condstore => db.mod = 0) /\ (set.condstore => (db.mod = 0 <=> db.era = 0))
\* No UIDVALIDITY is of the future; a row of this one has a uid given out.
DbEras == db.era <= era
RowEras == \A u \in rows : rowEra[u] <= era /\ (rowEra[u] = era => u < next)
\* Bodies are of one mailbox, and uids below a row are not passed over.
Clean == Noticed => \A u \in rows : rowEra[u] = era \/ u \in owed
Gapless == Noticed => \A u \in rows, v \in Uids : v <= u => Accounted(v)
\* From the stored modseq on everything that is missing or stale has changed, and
\* up to the stored watermark everything has been given out, or is there.
DbModTells ==
  db.era \in {0, era} /\ db.mod # 0 =>
    db.mod <= mod /\ \A u \in Uids : Held(u, db.mod) /\ Shown(u, db.mod)
DbSeenTells ==
  db.era \in {0, era} =>
    \A v \in Uids : v <= db.seen => Given(v) /\ (db.mod = 0 => Accounted(v))
RowsInv == RowEras /\ Clean /\ Gapless
DbInv == DbMods /\ DbEras /\ DbModTells /\ DbSeenTells

\* When a run has a modseq, and what the attempt has opened.
RunMods(r) ==
  /\ run[r].mod # 0 => set.condstore /\ run[r].era # 0 /\ db.mod # 0
  /\ run[r].era # 0 => db.era # 0
  /\ run[r].pc = "changed" => run[r].mod # 0
  /\ run[r].pc = "range" /\ ~run[r].chg => run[r].mod = 0 /\ run[r].met = {}
  /\ run[r].pc \notin Outside => (set.condstore <=> run[r].oMod # 0)
\* The UIDVALIDITY of a run and of its session.
RunEras(r) ==
  /\ run[r].era <= era
  /\ run[r].pc \notin Outside => run[r].oEra # 0 /\ run[r].oEra <= era
  /\ run[r].lost <=> run[r].pc \notin Outside /\ run[r].oEra # era
\* What is to fetch was searched in order: nothing below it is passed over.
RunTodo(r) ==
  /\ run[r].todo # {} => run[r].pc = "source"
  /\ Fetching(r) => \A u \in run[r].todo :
       u < next /\ \A v \in Uids : v < u => Accounted(v) \/ v \in run[r].todo
\* The rows a run knew are below its watermark, and there, owed or expunged.
RunHad(r) ==
  /\ \A u \in run[r].had : u <= run[r].seen
  /\ Current(r) => \A u \in run[r].had : Accounted(u)
\* The modseq of a run tells what the stored one does.
RunModTells(r) ==
  Current(r) /\ run[r].mod # 0 =>
    run[r].mod <= mod /\ \A u \in Uids : Held(u, run[r].mod) /\ Shown(u, run[r].mod)
\* Its watermark tells of uids given out and, after the first pass, of rows.
RunSeenTells(r) ==
  Current(r) => \A v \in Uids : v <= run[r].seen =>
    /\ Given(v)
    /\ run[r].mod = 0 \/ ~Early(r) => Accounted(v) \/ (Fetching(r) /\ v \in run[r].todo)
\* After the first pass the modseq of the opening tells of what was fetched; without
\* a stored modseq, of the flags of the rows the passes met.
RunPassTells(r) ==
  Fetching(r) =>
    /\ run[r].oMod <= mod
    /\ ~Early(r) => \A u \in Uids :
         /\ Held(u, run[r].oMod) \/ u \in run[r].todo
         /\ run[r].mod # 0 \/ u \in run[r].met => Shown(u, run[r].oMod)
RunInv(r) ==
  RunMods(r) /\ RunEras(r) /\ RunTodo(r) /\ RunHad(r) /\ RunModTells(r)
    /\ RunSeenTells(r) /\ RunPassTells(r)
\* The inductive invariant of MailboxSync.
MailboxInv == TypeOK /\ RowsInv /\ DbInv /\ \A r \in Runs : RunInv(r)

-----------------------------------------------------------------------------
(* Sets of uids. *)

\* Uids are numbers.
LEMMA UidsAreNat == Uids \subseteq Nat
BY MailboxAssumption DEF Uids

\* A set of numbers that is not empty has a least one.
LEMMA HasLeast == ASSUME NEW T, T \subseteq Nat, T # {} PROVE \E x \in T : \A y \in T : x <= y
<1>1. PICK R : R = OpToRel(<, Nat)
  OBVIOUS
<1>2. IsWellFoundedOn(R, Nat)
  BY <1>1, NatLessThanWellFounded
<1>3. PICK x \in T : \A y \in T : <<y, x>> \notin R
  BY <1>2, WFMin
<1>4. \A y \in Nat : y < x => <<y, x>> \in R
  BY <1>1 DEF OpToRel
<1>5. \A y \in T : x \in Nat /\ y \in Nat /\ ~(y < x)
  BY <1>3, <1>4
<1>6. \A y \in T : x <= y
  BY <1>5
<1>7. QED
  BY <1>6

\* The greatest uid of a set that has one.
LEMMA HighestIsIn ==
  ASSUME NEW S, S \subseteq Uids, S # {}
  PROVE  Highest(S) \in S /\ \A v \in S : v <= Highest(S)
<1>1. PICK B : B = {n \in Nat : \A v \in S : v <= n}
  OBVIOUS
<1>2. MaxUid \in B
  BY <1>1, MailboxAssumption DEF Uids
<1>3. B \subseteq Nat /\ B # {}
  BY <1>1, <1>2
<1>4. PICK n \in B : \A m \in B : n <= m
  BY <1>3, HasLeast
<1>5. n \in Nat /\ \A v \in S : v <= n
  BY <1>1
<1>6. n \in S
  <2>1. SUFFICES ASSUME n \notin S PROVE FALSE
    OBVIOUS
  <2>2. PICK s \in S : TRUE
    OBVIOUS
  <2>3. \A v \in S : v \in Nat /\ v >= 1 /\ v < n
    BY <1>5, <2>1, MailboxAssumption DEF Uids
  <2>4. n - 1 \in Nat /\ \A v \in S : v <= n - 1
    BY <1>5, <2>2, <2>3
  <2>5. n - 1 \in B
    BY <1>1, <2>4
  <2>6. QED
    BY <1>4, <1>5, <2>5
<1>7. QED
  BY <1>5, <1>6 DEF Highest

\* The highest uid of a set is a number, also of none.
LEMMA HighestIsNat == ASSUME NEW S, S \subseteq Uids PROVE Highest(S) \in Nat
<1>1. CASE S = {}
  BY <1>1 DEF Highest
<1>2. CASE S # {}
  BY <1>2, HighestIsIn, UidsAreNat
<1>3. QED
  BY <1>1, <1>2

\* How far the watermark goes.
LEMMA SeenIs ==
  ASSUME TypeOK, NEW r \in Runs, NEW S, S \subseteq Uids
  PROVE  /\ Seen(r, S) \in Nat /\ run[r].seen <= Seen(r, S)
         /\ \A u \in S : u <= Seen(r, S)
         /\ Seen(r, S) = run[r].seen \/ Seen(r, S) \in S
<1>1. run[r].seen \in Nat
  BY DEF TypeOK, Closures
<1>2. CASE S = {}
  BY <1>1, <1>2 DEF Seen, Larger, Highest
<1>3. CASE S # {}
  <2>1. Highest(S) \in S /\ Highest(S) \in Nat /\ \A u \in S : u \in Nat /\ u <= Highest(S)
    BY <1>3, HighestIsIn, UidsAreNat
  <2>2. QED
    BY <1>1, <2>1 DEF Seen, Larger
<1>4. QED
  BY <1>2, <1>3

\* What a write of the progress leaves in sync_states.
LEMMA WrittenIs ==
  ASSUME TypeOK, NEW r \in Runs, NEW P, P \subseteq Uids, NEW n \in Nat
  PROVE  LET w == Written(r, P, n)
         IN  /\ w \in StateRows /\ w.era = db.era /\ w.mod = db.mod
             /\ w.seen = run[r].seen \/ (w.seen \in P /\ w.seen <= n)
<1>1. PICK Q : Q = {v \in P : v <= n}
  OBVIOUS
<1>2. Q \subseteq Uids
  BY <1>1
<1>3. PICK s : s = Seen(r, Q)
  OBVIOUS
<1>4. s \in Nat /\ (s = run[r].seen \/ s \in Q)
  BY <1>2, <1>3, SeenIs
<1>5. PICK h : h = Larger(run[r].high, s)
  OBVIOUS
<1>6. h \in Nat
  BY <1>4, <1>5 DEF Larger, TypeOK, Closures
<1>7. PICK w : w = Written(r, P, n)
  OBVIOUS
<1>8. w = [db EXCEPT !.seen = s, !.high = h]
  BY <1>1, <1>3, <1>5, <1>7 DEF Written
<1>9. w \in StateRows /\ w.era = db.era /\ w.mod = db.mod /\ w.seen = s
  BY <1>4, <1>6, <1>8 DEF TypeOK, StateRows
<1>10. QED
  BY <1>1, <1>4, <1>7, <1>9

-----------------------------------------------------------------------------
(* What each step makes of the closure of its run. *)

\* The closure of no run.
LEMMA OffIs ==
  /\ Off \in Closures /\ Off.pc = "off" /\ Off.seen = 0 /\ Off.mod = 0 /\ Off.era = 0
  /\ Off.oMod = 0 /\ Off.oEra = 0 /\ Off.todo = {} /\ Off.had = {} /\ Off.met = {}
  /\ Off.chg = FALSE /\ Off.lost = FALSE
BY DEF Off, Closures, Points, Passes

\* The rest of the runs.
Apart(r) == \A q \in Runs \ {r} : run'[q] = run[q]

\* A step that replaces the closure of one run leaves the others.
LEMMA Puts ==
  ASSUME TypeOK, NEW r \in Runs, NEW x \in Closures, run' = [run EXCEPT ![r] = x]
  PROVE  run' \in [Runs -> Closures] /\ run'[r] = x /\ Apart(r)
BY DEF TypeOK, Apart

\* A step that moves a run to a place leaves the rest of its closure.
LEMMA PutsPc ==
  ASSUME NEW w \in Closures, NEW p \in Points, NEW x, x = [w EXCEPT !.pc = p]
  PROVE  /\ x \in Closures /\ x.pc = p
         /\ x.seen = w.seen /\ x.mod = w.mod /\ x.era = w.era /\ x.oMod = w.oMod
         /\ x.oEra = w.oEra /\ x.todo = w.todo /\ x.had = w.had /\ x.met = w.met
         /\ x.chg = w.chg /\ x.lost = w.lost
BY DEF Closures

\* A run begins with what sync_states holds.
LEMMA ReadStateIs ==
  ASSUME TypeOK, NEW r \in Runs, ReadState(r)
  PROVE  /\ run' \in [Runs -> Closures] /\ Apart(r)
         /\ run'[r].pc = "claim" /\ run'[r].seen = db.seen /\ run'[r].mod = db.mod
         /\ run'[r].era = db.era /\ run'[r].oMod = 0 /\ run'[r].oEra = 0
         /\ run'[r].todo = {} /\ run'[r].had = {} /\ run'[r].met = {}
         /\ run'[r].chg = FALSE /\ run'[r].lost = FALSE
<1>1. PICK w : w = Off OBVIOUS
<1>2. w \in Closures BY <1>1, OffIs
<1>3. PICK s, m, e, d, h, p : s = db.seen /\ m = db.mod /\ e = db.era /\ d = db.due
        /\ h = Larger(db.seen, db.high) /\ p = "claim"
  OBVIOUS
<1>4. s \in Nat /\ m \in Nat /\ e \in 0..2 /\ d \in BOOLEAN /\ h \in Nat /\ p \in Points
  BY <1>3 DEF TypeOK, StateRows, Larger, Points
<1>5. PICK x : x = [w EXCEPT !.pc = p, !.seen = s, !.high = h, !.mod = m, !.era = e, !.due = d]
  OBVIOUS
<1>6. /\ x \in Closures /\ x.pc = p /\ x.seen = s /\ x.mod = m /\ x.era = e
      /\ x.oMod = w.oMod /\ x.oEra = w.oEra /\ x.todo = w.todo /\ x.had = w.had
      /\ x.met = w.met /\ x.chg = w.chg /\ x.lost = w.lost
  BY <1>2, <1>4, <1>5 DEF Closures
<1>7. run' = [run EXCEPT ![r] = x]
  BY <1>1, <1>3, <1>5 DEF ReadState
<1>8. QED
  BY <1>1, <1>3, <1>6, <1>7, Puts, OffIs

\* The claim writes the watermark the run has read over the stored one.
LEMMA TakeClaimIs ==
  ASSUME TypeOK, NEW r \in Runs, TakeClaim(r)
  PROVE  /\ run' \in [Runs -> Closures] /\ Apart(r) /\ db' \in StateRows
         /\ db'.seen = run[r].seen /\ db'.mod = db.mod /\ db'.era = db.era
         /\ run'[r].pc = "open" /\ run'[r].seen = run[r].seen /\ run'[r].mod = run[r].mod
         /\ run'[r].era = run[r].era /\ run'[r].oMod = run[r].oMod
         /\ run'[r].oEra = run[r].oEra /\ run'[r].todo = run[r].todo
         /\ run'[r].had = run[r].had /\ run'[r].met = run[r].met
         /\ run'[r].chg = run[r].chg /\ run'[r].lost = run[r].lost
<1>1. PICK w, x, p : w = run[r] /\ p = "open" /\ x = [w EXCEPT !.pc = p] OBVIOUS
<1>2. w \in Closures /\ p \in Points BY <1>1 DEF TypeOK, Points
<1>3. run' = [run EXCEPT ![r] = x]
  BY <1>1 DEF TakeClaim
<1>4. PICK s, h : s = run[r].seen /\ h = Larger(db.high, run[r].high)
  OBVIOUS
<1>5. s \in Nat /\ h \in Nat
  BY <1>4 DEF TypeOK, Closures, StateRows, Larger
<1>6. db' = [db EXCEPT !.seen = s, !.high = h]
  BY <1>4 DEF TakeClaim
<1>7. db' \in StateRows /\ db'.seen = s /\ db'.mod = db.mod /\ db'.era = db.era
  BY <1>5, <1>6 DEF TypeOK, StateRows
<1>8. /\ x \in Closures /\ x.pc = p /\ x.seen = w.seen /\ x.mod = w.mod /\ x.era = w.era
      /\ x.oMod = w.oMod /\ x.oEra = w.oEra /\ x.todo = w.todo /\ x.had = w.had
      /\ x.met = w.met /\ x.chg = w.chg /\ x.lost = w.lost
  BY <1>1, <1>2, PutsPc
<1>9. run' \in [Runs -> Closures] /\ run'[r] = x /\ Apart(r)
  BY <1>3, <1>8, Puts
<1>10. QED
  BY <1>1, <1>4, <1>7, <1>8, <1>9

\* The opening takes the modseq and UIDVALIDITY of the server, and may reset.
LEMMA OpenIs ==
  ASSUME TypeOK, NEW r \in Runs, Open(r)
  PROVE  /\ run' \in [Runs -> Closures] /\ Apart(r)
         /\ run'[r].pc = (IF run'[r].mod # 0 THEN "changed" ELSE "range")
         /\ run'[r].seen = (IF Resets(r) THEN 0 ELSE run[r].seen)
         /\ run'[r].mod = (IF Resets(r) THEN 0 ELSE run[r].mod)
         /\ run'[r].had = (IF Resets(r) THEN {} ELSE run[r].had)
         /\ run'[r].era = run[r].era /\ run'[r].oMod = (IF set.condstore THEN mod ELSE 0)
         /\ run'[r].oEra = era /\ run'[r].todo = {} /\ run'[r].met = {}
         /\ run'[r].chg = FALSE /\ run'[r].lost = run[r].lost
<1>1. PICK w, m, h, e, no : w = run[r] /\ m = (IF set.condstore THEN mod ELSE 0)
         /\ h = Larger(run[r].high, next - 1) /\ e = era /\ no = FALSE
  OBVIOUS
<1>2. w \in Closures /\ m \in Nat /\ h \in Nat /\ e \in 0..2 /\ no \in BOOLEAN
  <2>1. w \in Closures /\ w.high \in Nat /\ next \in Nat /\ mod \in Nat /\ era \in {1, 2}
    BY <1>1 DEF TypeOK, ServerOK, Closures
  <2>2. h \in Nat
    BY <1>1, <2>1 DEF Larger
  <2>3. m \in Nat /\ e \in 0..2
    BY <1>1, <2>1
  <2>4. no \in BOOLEAN
    BY <1>1
  <2>5. QED
    BY <2>1, <2>2, <2>3, <2>4
<1>3. PICK o : o = [w EXCEPT !.oMod = m, !.oEra = e, !.high = h, !.chg = no, !.todo = {},
                             !.met = {}]
  OBVIOUS
<1>4. /\ o \in Closures /\ o.seen = w.seen /\ o.mod = w.mod /\ o.era = w.era /\ o.oMod = m
      /\ o.oEra = e /\ o.todo = {} /\ o.had = w.had /\ o.met = {} /\ o.chg = no /\ o.lost = w.lost
  BY <1>2, <1>3 DEF Closures
<1>5. PICK f, yes, z : yes = TRUE /\ z = 0
        /\ f = [o EXCEPT !.seen = z, !.high = z, !.mod = z, !.due = yes, !.had = {}]
  OBVIOUS
<1>6. /\ f \in Closures /\ f.seen = 0 /\ f.mod = 0 /\ f.era = o.era /\ f.oMod = o.oMod
      /\ f.oEra = o.oEra /\ f.todo = o.todo /\ f.had = {} /\ f.met = o.met /\ f.chg = o.chg
      /\ f.lost = o.lost
  <2>1. yes \in BOOLEAN /\ z \in Nat
    BY <1>5
  <2>2. QED
    BY <1>4, <1>5, <2>1 DEF Closures
<1>7. PICK c : c = (IF Resets(r) THEN f ELSE o)
  OBVIOUS
<1>8. PICK p : p = (IF c.mod # 0 THEN "changed" ELSE "range")
  OBVIOUS
<1>9. p \in Points /\ c \in Closures
  BY <1>4, <1>6, <1>7, <1>8 DEF Points, Passes
<1>10. PICK x : x = [c EXCEPT !.pc = p]
  OBVIOUS
<1>11. run' = [run EXCEPT ![r] = x]
  BY <1>1, <1>3, <1>5, <1>7, <1>8, <1>10 DEF Open, Forget
<1>12. run' \in [Runs -> Closures] /\ run'[r] = x /\ Apart(r)
  BY <1>9, <1>10, <1>11, PutsPc, Puts
<1>13. /\ x.pc = p /\ x.seen = c.seen /\ x.mod = c.mod /\ x.era = c.era /\ x.oMod = c.oMod
       /\ x.oEra = c.oEra /\ x.todo = c.todo /\ x.had = c.had /\ x.met = c.met
       /\ x.chg = c.chg /\ x.lost = c.lost
  BY <1>9, <1>10, PutsPc
<1>14. CASE Resets(r)
  BY <1>1, <1>4, <1>6, <1>7, <1>8, <1>12, <1>13, <1>14
<1>15. CASE ~Resets(r)
  BY <1>1, <1>4, <1>7, <1>8, <1>12, <1>13, <1>15
<1>16. QED
  BY <1>14, <1>15

\* An attempt that failed: the next one, or the end of the run.
LEMMA AgainIs ==
  ASSUME TypeOK, NEW r \in Runs, NEW s \in Nat, NEW k \in SUBSET Uids, Again(r, s, k)
  PROVE  /\ run' \in [Runs -> Closures] /\ Apart(r)
         /\ owed' = owed \cup Owes(r, s, k)
         /\ \/ run'[r] = Off
            \/ /\ run'[r].pc = "open" /\ run'[r].seen = s /\ run'[r].mod = run[r].mod
               /\ run'[r].era = run[r].era /\ run'[r].todo = {}
               /\ run'[r].had = run[r].had \cup k /\ run'[r].lost = FALSE
<1>1. PICK w : w = run[r]
  OBVIOUS
<1>2. w \in Closures
  BY <1>1 DEF TypeOK
<1>3. PICK p, h, k2, n, no : p = "open" /\ h = Larger(w.high, s) /\ k2 = w.had \cup k
        /\ n = w.tries + 1 /\ no = FALSE
  OBVIOUS
<1>4. p \in Points /\ h \in Nat /\ k2 \in SUBSET Uids /\ n \in Nat
  BY <1>2, <1>3 DEF Closures, Larger, Points
<1>5. no \in BOOLEAN
  BY <1>3
<1>6. PICK x : x = [w EXCEPT !.pc = p, !.seen = s, !.high = h, !.had = k2, !.todo = {},
                             !.tries = n, !.lost = no]
  OBVIOUS
<1>7. /\ x \in Closures /\ x.pc = p /\ x.seen = s /\ x.mod = w.mod /\ x.era = w.era
      /\ x.todo = {} /\ x.had = k2 /\ x.lost = no
  BY <1>2, <1>4, <1>5, <1>6 DEF Closures
<1>8. CASE run' = [run EXCEPT ![r] = Off]
  BY <1>8, Puts, OffIs DEF Again
<1>9. CASE run' = [run EXCEPT ![r] = x]
  <2>1. run' \in [Runs -> Closures] /\ run'[r] = x /\ Apart(r)
    BY <1>7, <1>9, Puts
  <2>2. QED
    BY <1>1, <1>3, <1>7, <2>1 DEF Again
<1>10. run' = [run EXCEPT ![r] = Off] \/ run' = [run EXCEPT ![r] = x]
  BY <1>1, <1>3, <1>6 DEF Again
<1>11. QED
  BY <1>8, <1>9, <1>10

\* A changed-since pass that failed and was swallowed goes on to the range.
LEMMA SwallowIs ==
  ASSUME TypeOK, NEW r \in Runs, NEW s \in Nat, NEW k \in SUBSET Uids, NEW left,
         Swallow(r, s, k, left)
  PROVE  /\ run' \in [Runs -> Closures] /\ Apart(r) /\ owed' = owed \cup left
         /\ run'[r].pc = "range" /\ run'[r].seen = s /\ run'[r].mod = run[r].mod
         /\ run'[r].era = run[r].era /\ run'[r].oMod = run[r].oMod
         /\ run'[r].oEra = run[r].oEra /\ run'[r].todo = {}
         /\ run'[r].had = run[r].had \cup k /\ run'[r].met = run[r].met
         /\ run'[r].chg = TRUE /\ run'[r].lost = run[r].lost
<1>1. PICK w : w = run[r]
  OBVIOUS
<1>2. w \in Closures
  BY <1>1 DEF TypeOK
<1>3. PICK p, h, k2, yes : p = "range" /\ h = Larger(w.high, s) /\ k2 = w.had \cup k
        /\ yes = TRUE
  OBVIOUS
<1>4. p \in Points /\ h \in Nat /\ k2 \in SUBSET Uids
  BY <1>2, <1>3 DEF Closures, Larger, Points, Passes
<1>5. yes \in BOOLEAN
  BY <1>3
<1>6. PICK x : x = [w EXCEPT !.pc = p, !.chg = yes, !.todo = {}, !.seen = s, !.high = h,
                             !.had = k2]
  OBVIOUS
<1>7. /\ x \in Closures /\ x.pc = p /\ x.seen = s /\ x.mod = w.mod /\ x.era = w.era
      /\ x.oMod = w.oMod /\ x.oEra = w.oEra /\ x.todo = {} /\ x.had = k2 /\ x.met = w.met
      /\ x.chg = yes /\ x.lost = w.lost
  BY <1>2, <1>4, <1>5, <1>6 DEF Closures
<1>8. run' = [run EXCEPT ![r] = x]
  BY <1>1, <1>3, <1>6 DEF Swallow
<1>9. run' \in [Runs -> Closures] /\ run'[r] = x /\ Apart(r)
  BY <1>7, <1>8, Puts
<1>10. QED
  BY <1>1, <1>3, <1>7, <1>9 DEF Swallow

\* A search finds what is there.
LEMMA FromIs == ASSUME TypeOK, NEW n PROVE From(n) \subseteq present
<1>1. present # {} => Highest(present) \in present
  BY HighestIsIn DEF TypeOK, ServerOK
<1>2. QED
  BY <1>1 DEF From

\* A metadata pass lists what is there.
LEMMA ListedIs ==
  ASSUME TypeOK, NEW r \in Runs, run[r].pc \in {"changed", "tail", "refresh"}
  PROVE  Listed(r) \subseteq present /\ Listed(r) \subseteq Uids
<1>1. CASE run[r].pc = "changed"
  BY <1>1 DEF Listed, ChangedSince, TypeOK, ServerOK
<1>2. CASE run[r].pc = "tail"
  <2>1. Listed(r) \subseteq present
    BY <1>2, FromIs DEF Listed
  <2>2. QED
    BY <2>1 DEF TypeOK, ServerOK
<1>3. CASE run[r].pc = "refresh"
  BY <1>3 DEF Listed, TypeOK, ServerOK
<1>4. QED
  BY <1>1, <1>2, <1>3

\* A metadata pass leaves what it lacks to be fetched.
LEMMA MetadataPassIs ==
  ASSUME TypeOK, NEW r \in Runs, MetadataPass(r)
  PROVE  /\ run' \in [Runs -> Closures] /\ Apart(r)
         /\ run'[r].pc = "source" /\ run'[r].seen = Seen(r, Listed(r))
         /\ run'[r].mod = run[r].mod /\ run'[r].era = run[r].era
         /\ run'[r].oMod = run[r].oMod /\ run'[r].oEra = run[r].oEra
         /\ run'[r].todo = Wanted(r, Listed(r))
         /\ run'[r].had = run[r].had \cup Known(r, Listed(r))
         /\ run'[r].met = run[r].met \cup Known(r, Listed(r))
         /\ run'[r].chg = run[r].chg /\ run'[r].lost = run[r].lost
<1>1. PICK w, S : w = run[r] /\ S = Listed(r)
  OBVIOUS
<1>2. w \in Closures /\ S \subseteq Uids
  BY <1>1, ListedIs DEF TypeOK, MetadataPass
<1>3. PICK p, b, t, k, m, s, h, e :
        /\ p = "source" /\ b = w.pc /\ t = Wanted(r, S) /\ k = w.had \cup Known(r, S)
        /\ m = w.met \cup Known(r, S) /\ s = Seen(r, S) /\ h = Larger(w.high, s)
        /\ e = (IF run[r].pc = "tail" /\ S # {} THEN S ELSE w.remote)
  OBVIOUS
<1>4. s \in Nat
  BY <1>2, <1>3, SeenIs
<1>5. /\ p \in Points /\ b \in Passes /\ t \in SUBSET Uids /\ k \in SUBSET Uids
      /\ m \in SUBSET Uids /\ h \in Nat /\ e \in SUBSET Uids
  <2>1. p \in Points
    BY <1>3 DEF Points
  <2>2. b \in Passes
    BY <1>1, <1>3 DEF Passes, MetadataPass
  <2>3. h \in Nat
    BY <1>2, <1>3, <1>4 DEF Larger, Closures
  <2>4. t \in SUBSET Uids /\ k \in SUBSET Uids /\ m \in SUBSET Uids /\ e \in SUBSET Uids
    BY <1>2, <1>3 DEF Wanted, Known, Closures
  <2>5. QED
    BY <2>1, <2>2, <2>3, <2>4
<1>6. PICK x : x = [w EXCEPT !.pc = p, !.pass = b, !.todo = t, !.had = k, !.met = m,
                             !.seen = s, !.high = h, !.remote = e]
  OBVIOUS
<1>7. /\ x \in Closures /\ x.pc = p /\ x.seen = s /\ x.mod = w.mod /\ x.era = w.era
      /\ x.oMod = w.oMod /\ x.oEra = w.oEra /\ x.todo = t /\ x.had = k /\ x.met = m
      /\ x.chg = w.chg /\ x.lost = w.lost
  BY <1>2, <1>4, <1>5, <1>6 DEF Closures
<1>8. run' = [run EXCEPT ![r] = x]
  BY <1>1, <1>3, <1>6 DEF MetadataPass
<1>9. run' \in [Runs -> Closures] /\ run'[r] = x /\ Apart(r)
  BY <1>7, <1>8, Puts
<1>10. QED
  BY <1>1, <1>3, <1>7, <1>9

\* The search of new uids leaves them to be fetched.
LEMMA NewRangeIs ==
  ASSUME TypeOK, NEW r \in Runs, NewRange(r)
  PROVE  /\ run' \in [Runs -> Closures] /\ Apart(r)
         /\ run'[r].pc = "source" /\ run'[r].seen = run[r].seen
         /\ run'[r].mod = run[r].mod /\ run'[r].era = run[r].era
         /\ run'[r].oMod = run[r].oMod /\ run'[r].oEra = run[r].oEra
         /\ run'[r].todo = From(run[r].seen + 1)
         /\ run'[r].had = run[r].had /\ run'[r].met = run[r].met
         /\ run'[r].chg = run[r].chg /\ run'[r].lost = run[r].lost
<1>1. PICK w, p, b, t, e : w = run[r] /\ p = "source" /\ b = "range" /\ t = From(run[r].seen + 1)
        /\ e = (IF present = {} THEN w.remote ELSE t)
  OBVIOUS
<1>2. w \in Closures /\ p \in Points /\ b \in Passes
  BY <1>1 DEF TypeOK, Points, Passes
<1>3. t \in SUBSET Uids
  BY <1>1, FromIs DEF TypeOK, ServerOK
<1>4. e \in SUBSET Uids
  BY <1>1, <1>2, <1>3 DEF Closures
<1>5. PICK x : x = [w EXCEPT !.pc = p, !.pass = b, !.todo = t, !.remote = e]
  OBVIOUS
<1>6. /\ x \in Closures /\ x.pc = p /\ x.seen = w.seen /\ x.mod = w.mod /\ x.era = w.era
      /\ x.oMod = w.oMod /\ x.oEra = w.oEra /\ x.todo = t /\ x.had = w.had /\ x.met = w.met
      /\ x.chg = w.chg /\ x.lost = w.lost
  BY <1>2, <1>3, <1>4, <1>5 DEF Closures
<1>7. run' = [run EXCEPT ![r] = x]
  BY <1>1, <1>5 DEF NewRange
<1>8. run' \in [Runs -> Closures] /\ run'[r] = x /\ Apart(r)
  BY <1>6, <1>7, Puts
<1>9. QED
  BY <1>1, <1>6, <1>8

\* The pass that follows the sources of a pass.
LEMMA AfterSourceIs ==
  ASSUME NEW b \in Passes PROVE AfterSource[b] \in {"reconcile", "tail", "save"}
BY DEF Passes, AfterSource

\* A source pass that ends well has nothing more to fetch.
LEMMA SourcePassIs ==
  ASSUME TypeOK, NEW r \in Runs, SourcePass(r), NEW S, S = run[r].todo \cap present
  PROVE  /\ run' \in [Runs -> Closures] /\ Apart(r)
         /\ run'[r].pc \in {"reconcile", "tail", "save"} /\ run'[r].seen = Seen(r, S)
         /\ run'[r].mod = run[r].mod /\ run'[r].era = run[r].era
         /\ run'[r].oMod = run[r].oMod /\ run'[r].oEra = run[r].oEra
         /\ run'[r].todo = {} /\ run'[r].had = run[r].had \cup S
         /\ run'[r].met = run[r].met \cup S
         /\ run'[r].chg = run[r].chg /\ run'[r].lost = run[r].lost
<1>1. PICK w : w = run[r]
  OBVIOUS
<1>2. w \in Closures /\ S \subseteq Uids
  BY <1>1 DEF TypeOK, ServerOK
<1>3. PICK p, k, m, s, h, d :
        /\ p = AfterSource[w.pass] /\ k = w.had \cup S
        /\ m = w.met \cup S /\ s = Seen(r, S) /\ h = Larger(w.high, s)
        /\ d = (w.due /\ ~(w.pass = "refresh" /\ w.full))
  OBVIOUS
<1>4. s \in Nat
  BY <1>2, <1>3, SeenIs
<1>5. p \in {"reconcile", "tail", "save"} /\ p \in Points
  BY <1>2, <1>3, AfterSourceIs DEF Closures, Points, Passes
<1>6. k \in SUBSET Uids /\ m \in SUBSET Uids /\ h \in Nat
  BY <1>2, <1>3, <1>4 DEF Larger, Closures
<1>7. d \in BOOLEAN
  BY <1>3
<1>8. PICK x : x = [w EXCEPT !.pc = p, !.todo = {}, !.had = k, !.met = m,
                             !.seen = s, !.high = h, !.due = d]
  OBVIOUS
<1>9. /\ x \in Closures /\ x.pc = p /\ x.seen = s /\ x.mod = w.mod /\ x.era = w.era
      /\ x.oMod = w.oMod /\ x.oEra = w.oEra /\ x.todo = {} /\ x.had = k /\ x.met = m
      /\ x.chg = w.chg /\ x.lost = w.lost
  BY <1>2, <1>4, <1>5, <1>6, <1>7, <1>8 DEF Closures
<1>10. run' = [run EXCEPT ![r] = x]
  BY <1>1, <1>3, <1>8 DEF SourcePass
<1>11. run' \in [Runs -> Closures] /\ run'[r] = x /\ Apart(r)
  BY <1>9, <1>10, Puts
<1>12. QED
  BY <1>1, <1>3, <1>5, <1>9, <1>11

\* The steps from the search to the end leave but the place and what was searched.
LEMMA LateIs ==
  ASSUME TypeOK, NEW r \in Runs, Reconcile(r) \/ FullScanFails(r) \/ Sweep(r)
  PROVE  /\ run' \in [Runs -> Closures] /\ Apart(r)
         /\ run[r].pc \in {"reconcile", "sweep"} /\ run'[r].pc \in {"sweep", "save", "refresh"}
         /\ run'[r].seen = run[r].seen
         /\ run'[r].mod = run[r].mod /\ run'[r].era = run[r].era
         /\ run'[r].oMod = run[r].oMod /\ run'[r].oEra = run[r].oEra
         /\ run'[r].todo = run[r].todo
         /\ run'[r].had = run[r].had /\ run'[r].met = run[r].met
         /\ run'[r].chg = run[r].chg /\ run'[r].lost = run[r].lost
<1>1. PICK w : w = run[r]
  OBVIOUS
<1>2. w \in Closures
  BY <1>1 DEF TypeOK
<1>3. CASE Sweep(r)
  <2>1. PICK p, x : p = "refresh" /\ x = [w EXCEPT !.pc = p]
    OBVIOUS
  <2>2. p \in Points
    BY <2>1 DEF Points, Passes
  <2>3. run' = [run EXCEPT ![r] = x]
    BY <1>1, <1>3, <2>1 DEF Sweep
  <2>4. /\ x \in Closures /\ x.pc = p
        /\ x.seen = w.seen /\ x.mod = w.mod /\ x.era = w.era /\ x.oMod = w.oMod
        /\ x.oEra = w.oEra /\ x.todo = w.todo /\ x.had = w.had /\ x.met = w.met
        /\ x.chg = w.chg /\ x.lost = w.lost
    BY <1>2, <2>1, <2>2, PutsPc
  <2>5. run' \in [Runs -> Closures] /\ run'[r] = x /\ Apart(r)
    BY <2>3, <2>4, Puts
  <2>6. run[r].pc = "sweep"
    BY <1>3 DEF Sweep
  <2>7. QED
    BY <1>1, <2>1, <2>4, <2>5, <2>6
<1>4. CASE Reconcile(r) \/ FullScanFails(r)
  <2>1. \E p \in {"sweep", "save"}, e \in SUBSET Uids, f \in BOOLEAN :
          run' = [run EXCEPT ![r] = [w EXCEPT !.pc = p, !.remote = e, !.full = f]]
    <3>1. CASE FullScanFails(r)
      <4>1. PICK e, p, f : e = w.remote /\ p = "save" /\ f = FALSE
        OBVIOUS
      <4>2. run' = [run EXCEPT ![r] = [w EXCEPT !.pc = p, !.full = f]]
        BY <1>1, <3>1, <4>1 DEF FullScanFails
      <4>3. [w EXCEPT !.pc = p, !.full = f] = [w EXCEPT !.pc = p, !.remote = e, !.full = f]
        BY <1>2, <4>1 DEF Closures
      <4>4. e \in SUBSET Uids /\ p \in {"sweep", "save"}
        BY <1>2, <4>1 DEF Closures
      <4>5. f \in BOOLEAN
        BY <4>1
      <4>6. QED
        BY <4>2, <4>3, <4>4, <4>5
    <3>2. CASE Reconcile(r)
      <4>1. PICK start : start = MinusWindow(Larger(run[r].high, run[r].seen), Recent)
        OBVIOUS
      <4>2. PICK found : found = IF ScanDue(r) THEN present ELSE From(start)
        OBVIOUS
      <4>3. PICK skip : skip = (~ScanDue(r) /\ found = {})
        OBVIOUS
      <4>4. PICK p, e, f : /\ p = (IF skip THEN "save" ELSE "sweep")
                           /\ e = (IF skip THEN w.remote ELSE found) /\ f = ScanDue(r)
        OBVIOUS
      <4>5. found \in SUBSET Uids
        BY <4>2, FromIs DEF TypeOK, ServerOK
      <4>6. p \in {"sweep", "save"} /\ e \in SUBSET Uids
        BY <1>2, <4>4, <4>5 DEF Closures
      <4>7. f \in BOOLEAN
        BY <1>1, <1>2, <4>4 DEF ScanDue, Closures
      <4>8. run' = [run EXCEPT ![r] = [w EXCEPT !.pc = p, !.remote = e, !.full = f]]
        BY <1>1, <3>2, <4>1, <4>2, <4>3, <4>4 DEF Reconcile
      <4>9. QED
        BY <4>6, <4>7, <4>8
    <3>3. QED
      BY <1>4, <3>1, <3>2
  <2>2. PICK p \in {"sweep", "save"}, e \in SUBSET Uids, f \in BOOLEAN :
          run' = [run EXCEPT ![r] = [w EXCEPT !.pc = p, !.remote = e, !.full = f]]
    BY <2>1
  <2>3. p \in Points
    BY DEF Points
  <2>4. PICK x : x = [w EXCEPT !.pc = p, !.remote = e, !.full = f]
    OBVIOUS
  <2>5. /\ x \in Closures /\ x.pc = p
        /\ x.seen = w.seen /\ x.mod = w.mod /\ x.era = w.era /\ x.oMod = w.oMod
        /\ x.oEra = w.oEra /\ x.todo = w.todo /\ x.had = w.had /\ x.met = w.met
        /\ x.chg = w.chg /\ x.lost = w.lost
    BY <1>2, <2>3, <2>4 DEF Closures
  <2>6. run' \in [Runs -> Closures] /\ run'[r] = x /\ Apart(r)
    BY <2>2, <2>4, <2>5, Puts
  <2>7. run[r].pc = "reconcile"
    BY <1>4 DEF Reconcile, FullScanFails
  <2>8. QED
    BY <1>1, <2>5, <2>6, <2>7
<1>5. QED
  BY <1>3, <1>4

-----------------------------------------------------------------------------
(* What stays true of the uids. *)

\* Of a step that leaves the numbering: what is accounted for, held or shown stays so.
Grows ==
  /\ set' = set /\ era' = era
  /\ mod' \in Nat /\ mod <= mod' /\ next' \in Nat /\ next <= next'
  /\ Noticed => \A v \in Uids : (Accounted(v) => Accounted(v)') /\ (Given(v) => Given(v)')
  /\ Noticed => \A u \in Uids, m \in Nat :
       m <= mod /\ (m # 0 => set.condstore) =>
         (Held(u, m) => Held(u, m)') /\ (Shown(u, m) => Shown(u, m)')

\* A run that knows the mailbox notices what it is.
LEMMA CurrentIsNoticed == ASSUME NEW r \in Runs, Current(r) PROVE Noticed
BY DEF Noticed

\* A run that fetches from the mailbox knows it.
LEMMA FetchingIsCurrent == ASSUME NEW r \in Runs, Fetching(r) PROVE Current(r)
BY DEF Current, Fetching, Outside

\* What was stored once is not null again.
DbGoesOn == (db.mod # 0 => db'.mod # 0) /\ (db.era # 0 => db'.era # 0)

\* What is known from a modseq, and of the rows a run knew, goes on being so.
LEMMA ModTellsOn ==
  ASSUME TypeOK, Grows, NEW r \in Runs, RunMods(r), RunModTells(r), Current(r),
         run'[r].mod = run[r].mod
  PROVE  RunModTells(r)'
<1>1. PICK m : m = run[r].mod
  OBVIOUS
<1>2. m = run[r].mod /\ m = run'[r].mod /\ m \in Nat
  BY <1>1 DEF TypeOK, Closures
<1>3. SUFFICES ASSUME m # 0
               PROVE  m <= mod' /\ \A u \in Uids : Held(u, m)' /\ Shown(u, m)'
  BY <1>2 DEF RunModTells, Held, Shown
<1>4. m <= mod /\ set.condstore /\ \A u \in Uids : Held(u, m) /\ Shown(u, m)
  BY <1>2, <1>3 DEF RunMods, RunModTells
<1>5. Noticed
  BY CurrentIsNoticed
<1>6. m <= mod'
  BY <1>2, <1>4 DEF Grows, TypeOK, ServerOK
<1>7. QED
  BY <1>2, <1>4, <1>5, <1>6 DEF Grows

\* The rows a run knows, and those it comes to know, stay accounted for.
LEMMA HadOn ==
  ASSUME TypeOK, Grows, NEW r \in Runs, RunHad(r), Current(r)' => Current(r),
         NEW k, run'[r].had = run[r].had \cup k, run'[r].seen \in Nat,
         run[r].seen <= run'[r].seen,
         \A u \in k : u <= run'[r].seen /\ (Current(r) => Accounted(u)')
  PROVE  RunHad(r)'
<1>1. \A u \in run[r].had : u \in Uids /\ u \in Nat /\ u <= run[r].seen
  BY UidsAreNat DEF TypeOK, Closures, RunHad
<1>2. run[r].seen \in Nat
  BY DEF TypeOK, Closures
<1>3. \A u \in run'[r].had : u <= run'[r].seen
  BY <1>1, <1>2
<1>4. Current(r) => \A u \in run[r].had : Accounted(u)'
  BY <1>1, CurrentIsNoticed DEF Grows, RunHad
<1>5. QED
  BY <1>3, <1>4 DEF RunHad

\* The rows a run knows stay so when it learns of none.
LEMMA HadSame ==
  ASSUME TypeOK, Grows, NEW r \in Runs, RunHad(r), Current(r)' => Current(r),
         run'[r].had = run[r].had, run'[r].seen = run[r].seen
  PROVE  RunHad(r)'
<1>1. PICK k : k = {}
  OBVIOUS
<1>2. run'[r].had = run[r].had \cup k /\ \A u \in k : FALSE
  BY <1>1
<1>3. run'[r].seen \in Nat /\ run[r].seen <= run'[r].seen
  BY DEF TypeOK, Closures
<1>4. QED
  BY <1>2, <1>3, HadOn

\* A run that takes no part in such a step keeps what is known of it.
LEMMA OtherRun ==
  ASSUME TypeOK, Grows, NEW q \in Runs, run'[q] = run[q], DbGoesOn, RunInv(q)
  PROVE  RunInv(q)'
<1>1. PICK w : w = run[q]
  OBVIOUS
<1>2. w \in Closures /\ w = run[q] /\ w = run'[q] /\ set' = set /\ era' = era
  BY <1>1 DEF TypeOK, Grows
<1>3. Fetching(q)' <=> Fetching(q)
  BY <1>2 DEF Fetching
<1>4. Current(q)' <=> Current(q)
  BY <1>2, <1>3 DEF Current
<1>5. Early(q)' <=> Early(q)
  BY <1>2 DEF Early
<1>6. Current(q) => Noticed
  BY CurrentIsNoticed
<1>7. Fetching(q) => Noticed
  BY <1>6, FetchingIsCurrent
<1>8. RunMods(q)'
  BY <1>2 DEF RunInv, RunMods, DbGoesOn
<1>9. RunEras(q)'
  BY <1>2 DEF RunInv, RunEras
<1>10. RunTodo(q)'
  <2>1. ASSUME Fetching(q)', NEW u \in w.todo
        PROVE  u < next' /\ \A v \in Uids : v < u => Accounted(v)' \/ v \in w.todo
    <3>1. u < next /\ \A v \in Uids : v < u => Accounted(v) \/ v \in w.todo
      BY <1>2, <1>3, <2>1 DEF RunInv, RunTodo
    <3>2. u < next'
      BY <1>2, <2>1, <3>1, UidsAreNat DEF Grows, Closures, TypeOK, ServerOK
    <3>3. QED
      BY <1>3, <1>7, <2>1, <3>1, <3>2 DEF Grows
  <2>2. QED
    BY <1>2, <2>1 DEF RunInv, RunTodo
<1>11. RunHad(q)'
  <2>1. \A u \in w.had : u \in Uids
    BY <1>2 DEF Closures
  <2>2. QED
    BY <1>2, <1>4, <1>6, <2>1 DEF RunInv, RunHad, Grows
<1>12. RunModTells(q)'
  BY <1>2, <1>4, ModTellsOn DEF RunInv, RunModTells
<1>13. RunSeenTells(q)'
  BY <1>2, <1>3, <1>4, <1>5, <1>6 DEF RunInv, RunSeenTells, Grows
<1>14. RunPassTells(q)'
  <2>1. SUFFICES ASSUME Fetching(q)
                 PROVE  /\ w.oMod <= mod'
                        /\ ~Early(q) => \A u \in Uids :
                             /\ Held(u, w.oMod)' \/ u \in w.todo
                             /\ w.mod # 0 \/ u \in w.met => Shown(u, w.oMod)'
    BY <1>2, <1>3, <1>5 DEF RunPassTells, Held, Shown
  <2>2. /\ w.oMod <= mod
        /\ ~Early(q) => \A u \in Uids :
             /\ Held(u, w.oMod) \/ u \in w.todo
             /\ w.mod # 0 \/ u \in w.met => Shown(u, w.oMod)
    BY <1>2, <2>1 DEF RunInv, RunPassTells
  <2>3. w.oMod \in Nat /\ (w.oMod # 0 => set.condstore)
    BY <1>2, <2>1 DEF Closures, RunInv, RunMods, Fetching
  <2>4. QED
    BY <1>7, <2>1, <2>2, <2>3 DEF Grows, TypeOK, ServerOK
<1>15. QED
  BY <1>8, <1>9, <1>10, <1>11, <1>12, <1>13, <1>14 DEF RunInv

\* A run that is over.
LEMMA OffRun ==
  ASSUME NEW r \in Runs, run'[r] = Off, ServerOK'
  PROVE  RunInv(r)'
<1>1. PICK w : w = run'[r]
  OBVIOUS
<1>2. /\ w = run'[r] /\ w.pc = "off" /\ w.mod = 0 /\ w.era = 0 /\ w.todo = {} /\ w.had = {}
      /\ w.lost = FALSE /\ era' \in {1, 2}
  BY <1>1, OffIs DEF ServerOK
<1>3. ~Fetching(r)' /\ ~Current(r)'
  BY <1>2 DEF Fetching, Current, Outside
<1>4. RunMods(r)' /\ RunEras(r)' /\ RunTodo(r)'
  BY <1>2, <1>3 DEF RunMods, RunEras, RunTodo, Outside
<1>5. RunHad(r)' /\ RunModTells(r)' /\ RunSeenTells(r)' /\ RunPassTells(r)'
  BY <1>2, <1>3 DEF RunHad, RunModTells, RunSeenTells, RunPassTells
<1>6. QED
  BY <1>4, <1>5 DEF RunInv

\* Rows that stay as they are, or go.
LEMMA RowsKept ==
  ASSUME TypeOK, Grows, RowsInv, Noticed' => Noticed, rows' \subseteq rows,
         \A u \in rows' : rowEra'[u] = rowEra[u], owed \subseteq owed'
  PROVE  RowsInv'
<1>1. RowEras'
  BY UidsAreNat DEF RowsInv, RowEras, Grows, TypeOK, ServerOK, RowsOK
<1>2. Clean'
  BY DEF RowsInv, Clean, Grows
<1>3. Gapless'
  BY DEF RowsInv, Gapless, Grows
<1>4. QED
  BY <1>1, <1>2, <1>3 DEF RowsInv

\* sync_states with another watermark, for which there is an account.
LEMMA DbKept ==
  ASSUME TypeOK, Grows, DbInv, db'.mod = db.mod, db'.era = db.era,
         db.era \in {0, era} => \A v \in Uids : v <= db'.seen =>
           Given(v)' /\ (db.mod = 0 => Accounted(v)')
  PROVE  DbInv'
<1>1. DbMods' /\ DbEras'
  BY DEF DbInv, DbMods, DbEras, Grows
<1>2. DbModTells'
  <2>1. PICK m : m = db.mod
    OBVIOUS
  <2>2. m \in Nat /\ m = db.mod /\ m = db'.mod /\ db'.era = db.era /\ era' = era
    BY <2>1 DEF TypeOK, StateRows, Grows
  <2>3. SUFFICES ASSUME db.era \in {0, era}, m # 0
                 PROVE  m <= mod' /\ \A u \in Uids : Held(u, m)' /\ Shown(u, m)'
    BY <2>2 DEF DbModTells, Held, Shown
  <2>4. m <= mod /\ set.condstore /\ \A u \in Uids : Held(u, m) /\ Shown(u, m)
    BY <2>2, <2>3 DEF DbInv, DbModTells, DbMods
  <2>5. Noticed
    BY <2>3 DEF Noticed
  <2>6. QED
    BY <2>2, <2>4, <2>5 DEF Grows, TypeOK, ServerOK
<1>3. DbSeenTells'
  BY DEF DbSeenTells, Grows
<1>4. QED
  BY <1>1, <1>2, <1>3 DEF DbInv

\* A sync_states row that keeps its watermarks.
LEMMA DbSame ==
  ASSUME TypeOK, Grows, DbInv, db'.mod = db.mod, db'.era = db.era, db'.seen = db.seen
  PROVE  DbInv'
<1>1. db.era \in {0, era} => \A v \in Uids : v <= db'.seen =>
        Given(v)' /\ (db.mod = 0 => Accounted(v)')
  BY DEF DbInv, DbSeenTells, Grows, Noticed
<1>2. QED
  BY <1>1, DbKept

\* Nobody new comes to know the mailbox.
LEMMA NoticedBefore ==
  ASSUME NEW r \in Runs, era' = era, Apart(r), db'.era = db.era, Current(r)' => Noticed
  PROVE  Noticed' => Noticed
<1>1. \A q \in Runs \ {r} : Current(q)' => Current(q)
  BY DEF Apart, Current, Fetching
<1>2. QED
  BY <1>1 DEF Noticed

\* A step that leaves the server and the messages.
LEMMA QuietGrows ==
  ASSUME TypeOK, set' = set, UNCHANGED server, rows' = rows, rowFlag' = rowFlag,
         owed \subseteq owed'
  PROVE  Grows
<1>1. /\ present' = present /\ next' = next /\ flag' = flag /\ modOf' = modOf /\ mod' = mod
      /\ era' = era /\ mod \in Nat /\ next \in Nat
  BY DEF server, TypeOK, ServerOK
<1>2. \A v \in Uids : (Accounted(v) => Accounted(v)') /\ (Given(v) => Given(v)')
  BY <1>1 DEF Accounted, Given
<1>3. \A u \in Uids, m \in Nat : (Held(u, m) => Held(u, m)') /\ (Shown(u, m) => Shown(u, m)')
  BY <1>1 DEF Held, Shown
<1>4. QED
  BY <1>1, <1>2, <1>3 DEF Grows

\* Flags that are read from the server.
LEMMA MetadataGrows ==
  ASSUME TypeOK, NEW r \in Runs, NEW P, set' = set, UNCHANGED server, rows' = rows,
         Metadata(r, P), owed \subseteq owed'
  PROVE  Grows /\ \A u \in P \cap rows : u \in Uids => rowFlag'[u] = flag[u]
<1>1. /\ present' = present /\ next' = next /\ flag' = flag /\ modOf' = modOf /\ mod' = mod
      /\ era' = era /\ mod \in Nat /\ next \in Nat
  BY DEF server, TypeOK, ServerOK
<1>2. \A u \in Uids : rowFlag'[u] = (IF u \in P \cap rows THEN flag[u] ELSE rowFlag[u])
  BY DEF Metadata
<1>3. \A v \in Uids : (Accounted(v) => Accounted(v)') /\ (Given(v) => Given(v)')
  BY <1>1 DEF Accounted, Given
<1>4. \A u \in Uids, m \in Nat : (Held(u, m) => Held(u, m)') /\ (Shown(u, m) => Shown(u, m)')
  BY <1>1, <1>2 DEF Held, Shown
<1>5. QED
  BY <1>1, <1>2, <1>3, <1>4 DEF Grows

\* What is stored: new rows and bodies, and what the step owes no more has one.
LEMMA StoreIs ==
  ASSUME TypeOK, NEW r \in Runs, NEW P, P \subseteq present, Store(r, P), set' = set,
         UNCHANGED server,
         \A u \in owed : u \in owed' \/ (u \in P /\ u \in rows' /\ rowEra'[u] = era)
  PROVE  /\ Grows
         /\ rows' \subseteq Uids /\ rowFlag' \in [Uids -> BOOLEAN]
         /\ rowEra' \in [Uids -> 0..2] /\ bare' \subseteq Uids
         /\ rows \subseteq rows' /\ \A u \in P : u \in rows' \/ u \in run[r].had
         /\ \A u \in P : u \in rows' => rowFlag'[u] = flag[u]
         /\ \A u \in rows' : (u \in rows /\ rowEra'[u] = rowEra[u])
                               \/ (u \in P /\ rowEra'[u] = run[r].oEra)
<1>1. /\ present' = present /\ next' = next /\ flag' = flag /\ modOf' = modOf /\ mod' = mod
      /\ era' = era /\ mod \in Nat /\ next \in Nat
  BY DEF server, TypeOK, ServerOK
<1>2. PICK n, o, f : /\ n = Created(r, P) /\ o = run[r].oEra
        /\ f = n \cup (P \cap rows \cap (IF run[r].pass = "range" THEN bare ELSE rows))
  OBVIOUS
<1>3. /\ n \subseteq P /\ f \subseteq P /\ (\A u \in P : u \in n \/ u \in rows \/ u \in run[r].had)
      /\ P \subseteq Uids /\ o \in 0..2
  BY <1>2 DEF Created, TypeOK, ServerOK, Closures
<1>4. /\ rows' = rows \cup n
      /\ bare' \in {bare \ P} \cup (IF "bare" \in set.faults THEN {(bare \ P) \cup n} ELSE {})
      /\ rowFlag' = [u \in Uids |-> IF u \in P \cap rows' THEN flag[u] ELSE rowFlag[u]]
      /\ rowEra' = [u \in Uids |-> IF u \in f THEN o ELSE rowEra[u]]
  BY <1>2 DEF Store
<1>5. rows' \subseteq Uids /\ rows \subseteq rows' /\ \A u \in P : u \in rows' \/ u \in run[r].had
  BY <1>3, <1>4 DEF TypeOK, RowsOK
<1>6. rowFlag' \in [Uids -> BOOLEAN]
  <2>1. \A u \in Uids : flag[u] \in BOOLEAN /\ rowFlag[u] \in BOOLEAN
    BY DEF TypeOK, RowsOK, ServerOK
  <2>2. QED
    BY <1>4, <2>1
<1>7. rowEra' \in [Uids -> 0..2]
  BY <1>3, <1>4 DEF TypeOK, RowsOK
<1>8. bare' \subseteq Uids
  BY <1>3, <1>4 DEF TypeOK, RowsOK
<1>9. \A u \in P : u \in rows' => rowFlag'[u] = flag[u]
  BY <1>3, <1>4
<1>10. \A u \in rows' : (u \in rows /\ rowEra'[u] = rowEra[u]) \/ (u \in P /\ rowEra'[u] = o)
  BY <1>2, <1>3, <1>4, <1>5
<1>11. \A v \in Uids : (Accounted(v) => Accounted(v)') /\ (Given(v) => Given(v)')
  BY <1>1, <1>5 DEF Accounted, Given
<1>12. \A u \in Uids, m \in Nat : (Held(u, m) => Held(u, m)') /\ (Shown(u, m) => Shown(u, m)')
  <2>1. ASSUME NEW u \in Uids, NEW m \in Nat, Held(u, m) PROVE Held(u, m)'
    BY <1>1, <1>5, <2>1 DEF Held
  <2>2. ASSUME NEW u \in Uids, NEW m \in Nat, Shown(u, m) PROVE Shown(u, m)'
    <3>1. CASE u \in P
      BY <1>1, <1>9, <3>1 DEF Shown
    <3>2. CASE u \notin P
      <4>1. rowFlag'[u] = rowFlag[u] /\ (u \in rows' => u \in rows)
        BY <1>3, <1>4, <3>2
      <4>2. QED
        BY <1>1, <2>2, <3>2, <4>1 DEF Shown
    <3>3. QED
      BY <3>1, <3>2
  <2>3. QED
    BY <2>1, <2>2
<1>13. Grows
  BY <1>1, <1>11, <1>12 DEF Grows
<1>14. QED
  BY <1>2, <1>5, <1>6, <1>7, <1>8, <1>9, <1>10, <1>13

\* What was stored of a list, in order, leaves no gap.
LEMMA StoreRows ==
  ASSUME TypeOK, NEW r \in Runs, NEW P, P \subseteq run[r].todo \cap present,
         P # {} => Fetching(r), RowsInv, RunEras(r), RunTodo(r), RunHad(r), Grows,
         Noticed' => Noticed, UNCHANGED server, rows \subseteq rows',
         \A u \in P : u \in rows' \/ u \in run[r].had,
         \A u \in owed : u \in owed' \/ (u \in P /\ u \in rows' /\ rowEra'[u] = era),
         \A u \in rows' : (u \in rows /\ rowEra'[u] = rowEra[u])
                            \/ (u \in P /\ rowEra'[u] = run[r].oEra),
         \A u \in P, v \in run[r].todo : v \in present /\ v < u => v \in P
  PROVE  RowsInv' /\ \A u \in P : Accounted(u)'
<1>1. /\ present' = present /\ next' = next /\ era' = era /\ next \in Nat
      /\ \A u \in P : u < next /\ u \in Uids
  BY DEF server, TypeOK, ServerOK
<1>2. \A u \in P : run[r].oEra = era /\ Noticed /\ Fetching(r)
  BY CurrentIsNoticed, FetchingIsCurrent DEF Fetching
<1>3. \A u \in P : Accounted(u)'
  <2>1. ASSUME NEW u \in P PROVE Accounted(u)'
    <3>1. CASE u \in rows'
      BY <3>1 DEF Accounted
    <3>2. CASE u \in run[r].had
      <4>1. Accounted(u)
        BY <1>2, <3>2, FetchingIsCurrent DEF RunHad
      <4>2. QED
        BY <1>1, <1>2, <4>1 DEF Grows
    <3>3. QED
      BY <3>1, <3>2
  <2>2. QED
    BY <2>1
<1>4. RowEras'
  BY <1>1, <1>2 DEF RowsInv, RowEras, TypeOK, ServerOK
<1>5. Clean'
  BY <1>1, <1>2 DEF RowsInv, Clean
<1>6. Gapless'
  <2>1. SUFFICES ASSUME Noticed, NEW u \in rows', NEW v \in Uids, v <= u PROVE Accounted(v)'
    BY DEF Gapless
  <2>2. CASE u \in rows
    BY <2>1, <2>2 DEF RowsInv, Gapless, Grows
  <2>3. CASE u \in P
    <3>1. CASE v = u
      BY <1>3, <2>3, <3>1
    <3>2. CASE v # u
      <4>1. u \in run[r].todo /\ v \in Nat /\ u \in Nat
        BY <1>1, <2>1, <2>3, UidsAreNat
      <4>2. v < u
        BY <2>1, <3>2, <4>1
      <4>3. Accounted(v) \/ v \in run[r].todo
        BY <1>2, <2>1, <2>3, <4>1, <4>2 DEF RunTodo
      <4>4. CASE Accounted(v)
        BY <2>1, <4>4 DEF Grows
      <4>5. CASE v \in run[r].todo /\ v \in present
        BY <1>3, <2>3, <4>2, <4>5
      <4>6. CASE v \in run[r].todo /\ v \notin present
        <5>1. v < next
          BY <1>2, <2>3, <4>6 DEF RunTodo
        <5>2. QED
          BY <1>1, <4>6, <5>1 DEF Accounted
      <4>7. QED
        BY <4>3, <4>4, <4>5, <4>6
    <3>3. QED
      BY <3>1, <3>2
  <2>4. QED
    BY <2>2, <2>3
<1>7. QED
  BY <1>3, <1>4, <1>5, <1>6 DEF RowsInv

\* Rows that are deleted were the server's only if they are owed.
LEMMA DeleteGrows ==
  ASSUME TypeOK, RowsInv, set' = set, UNCHANGED server, rows' \subseteq rows,
         \A u \in rows' : rowFlag'[u] = rowFlag[u], owed \subseteq owed',
         \A u \in rows \cap present : u \in rows' \/ u \in owed' \/ rowEra[u] # era
  PROVE  Grows
<1>1. /\ present' = present /\ next' = next /\ flag' = flag /\ modOf' = modOf /\ mod' = mod
      /\ era' = era /\ mod \in Nat /\ next \in Nat /\ \A u \in present : u < next
  BY DEF server, TypeOK, ServerOK
<1>2. Noticed => \A u \in rows : (rowEra[u] = era /\ u < next) \/ u \in owed
  BY DEF RowsInv, RowEras, Clean
<1>3. Noticed => \A u \in rows : u \in rows' \/ u \in owed' \/ (u < next /\ u \notin present)
  BY <1>2
<1>4. Noticed => \A v \in Uids : (Accounted(v) => Accounted(v)') /\ (Given(v) => Given(v)')
  BY <1>1, <1>3 DEF Accounted, Given
<1>5. Noticed => \A u \in Uids, m \in Nat :
        (Held(u, m) => Held(u, m)') /\ (Shown(u, m) => Shown(u, m)')
  <2>1. ASSUME Noticed, NEW u \in Uids, NEW m \in Nat, Held(u, m) PROVE Held(u, m)'
    BY <1>1, <1>3, <2>1 DEF Held
  <2>2. ASSUME NEW u \in Uids, NEW m \in Nat, Shown(u, m) PROVE Shown(u, m)'
    BY <1>1, <2>2 DEF Shown
  <2>3. QED
    BY <2>1, <2>2
<1>6. QED
  BY <1>1, <1>4, <1>5 DEF Grows

\* A run that begins again, with what it has seen and knows.
LEMMA AgainKeeps ==
  ASSUME TypeOK, NEW r \in Runs, RunInv(r), Grows, UNCHANGED server, DbGoesOn, ServerOK',
         NEW s \in Nat, NEW k \in SUBSET Uids, Again(r, s, k), run[r].pc # "off",
         run[r].seen <= s, s = run[r].seen \/ s \in present,
         \A u \in k : u <= s /\ (Noticed => Accounted(u)'), rows \subseteq rows'
  PROVE  RunInv(r)'
<1>1. CASE run'[r] = Off
  BY <1>1, OffRun
<1>2. CASE run'[r] # Off
  <2>1. PICK w, x : w = run[r] /\ x = run'[r]
    OBVIOUS
  <2>2. /\ w = run[r] /\ x = run'[r] /\ w \in Closures /\ x \in Closures
        /\ owed' = owed \cup Owes(r, s, k)
        /\ x.pc = "open" /\ x.seen = s /\ x.mod = w.mod /\ x.era = w.era /\ x.todo = {}
        /\ x.had = w.had \cup k /\ x.lost = FALSE
    BY <1>2, <2>1, AgainIs DEF TypeOK
  <2>3. /\ present' = present /\ next' = next /\ mod' = mod /\ era' = era /\ mod \in Nat
        /\ next \in Nat /\ \A u \in present : u < next /\ u \in Nat
    BY UidsAreNat DEF server, TypeOK, ServerOK
  <2>4. ~Fetching(r)' /\ Early(r)' /\ (Current(r)' => Current(r) /\ Noticed)
    <3>1. ~Fetching(r)' /\ Early(r)' /\ (Current(r)' => Current(r))
      BY <2>2, <2>3 DEF Fetching, Current, Outside, Early
    <3>2. QED
      BY <3>1, CurrentIsNoticed
  <2>5. RunMods(r)' /\ RunEras(r)' /\ RunTodo(r)'
    BY <2>2, <2>3, <2>4 DEF RunInv, RunMods, RunEras, RunTodo, DbGoesOn, Outside, Grows
  <2>6. RunHad(r)'
    BY <2>2, <2>4, HadOn, CurrentIsNoticed DEF RunInv
  <2>7. RunModTells(r)'
    BY <2>2, <2>4, ModTellsOn DEF RunInv, RunModTells
  <2>8. RunSeenTells(r)'
    <3>1. SUFFICES ASSUME Current(r)', NEW v \in Uids, v <= s
                   PROVE  Given(v)' /\ (w.mod = 0 => Accounted(v)')
      BY <2>2, <2>4 DEF RunSeenTells
    <3>2. v \in Nat /\ w.seen \in Nat
      BY <2>2, UidsAreNat DEF Closures
    <3>3. Given(v)'
      <4>1. CASE v <= w.seen
        <5>1. Given(v)
          BY <2>2, <2>4, <3>1, <4>1 DEF RunInv, RunSeenTells
        <5>2. QED
          BY <2>4, <3>1, <5>1 DEF Grows
      <4>2. CASE ~(v <= w.seen)
        <5>1. s \in present
          BY <2>2, <3>1, <4>2
        <5>2. QED
          BY <2>3, <3>1, <3>2, <5>1 DEF Given
      <4>3. QED
        BY <4>1, <4>2
    <3>4. ASSUME w.mod = 0 PROVE Accounted(v)'
      <4>1. CASE v \in present
        <5>1. v \in rows' \/ v \in k \/ v \in owed'
          BY <2>2, <3>1, <3>4, <4>1 DEF Owes
        <5>2. QED
          BY <2>4, <3>1, <5>1 DEF Accounted
      <4>2. CASE v \notin present
        BY <2>3, <3>3, <4>2 DEF Accounted, Given
      <4>3. QED
        BY <4>1, <4>2
    <3>5. QED
      BY <3>3, <3>4
  <2>9. RunPassTells(r)'
    BY <2>4 DEF RunPassTells
  <2>10. QED
    BY <2>5, <2>6, <2>7, <2>8, <2>9 DEF RunInv
<1>3. QED
  BY <1>1, <1>2

-----------------------------------------------------------------------------
(* Every step keeps the invariant. *)

\* A step of one run keeps it when it keeps the parts that are not of another run.
LEMMA Compose ==
  ASSUME MailboxInv, Grows, NEW r \in Runs, Apart(r), run' \in [Runs -> Closures],
         DbGoesOn, ServerOK', RowsOK', db' \in StateRows, faults' \in Nat,
         RowsInv', DbInv', RunInv(r)'
  PROVE  MailboxInv'
<1>1. TypeOK'
  BY DEF MailboxInv, TypeOK, Grows
<1>2. \A q \in Runs : RunInv(q)'
  <2>1. ASSUME NEW q \in Runs, q # r PROVE RunInv(q)'
    <3>1. run'[q] = run[q]
      BY <2>1 DEF Apart
    <3>2. QED
      BY <3>1, OtherRun DEF MailboxInv
  <2>2. QED
    BY <2>1
<1>3. QED
  BY <1>1, <1>2 DEF MailboxInv

\* The server keeps its types when it is left alone.
LEMMA ServerSame == ASSUME TypeOK, UNCHANGED server PROVE ServerOK'
BY DEF TypeOK, ServerOK, server

\* The messages keep theirs, whatever uids are owed.
LEMMA MailSame == ASSUME TypeOK, UNCHANGED mailVars, owed' \subseteq Uids PROVE RowsOK'
BY DEF TypeOK, RowsOK, mailVars

\* A run reads what is stored: what that tells, its closure tells.
LEMMA ReadStateKeeps ==
  ASSUME MailboxInv, NEW r \in Runs, ReadState(r), set' = set
  PROVE  MailboxInv'
<1>1. TypeOK /\ RowsInv /\ DbInv
  BY DEF MailboxInv
<1>2. /\ UNCHANGED server /\ UNCHANGED mailVars /\ db' = db /\ faults' = faults /\ owed' = owed
      /\ rows' = rows /\ rowFlag' = rowFlag /\ rowEra' = rowEra
  BY DEF ReadState, mailVars
<1>3. PICK x, d : x = run'[r] /\ d = db
  OBVIOUS
<1>4. /\ x = run'[r] /\ d = db /\ d = db' /\ run' \in [Runs -> Closures] /\ Apart(r)
      /\ x.pc = "claim" /\ x.seen = d.seen /\ x.mod = d.mod /\ x.era = d.era
      /\ x.todo = {} /\ x.had = {} /\ x.lost = FALSE /\ d \in StateRows
  BY <1>1, <1>2, <1>3, ReadStateIs DEF TypeOK
<1>5. Grows
  BY <1>1, <1>2, QuietGrows
<1>6. /\ ~Fetching(r)' /\ Early(r)' /\ era' = era
      /\ (Current(r)' <=> d.era \in {0, era})
  BY <1>4, <1>5 DEF Fetching, Outside, Early, Current, Grows
<1>7. Current(r)' => Noticed
  BY <1>4, <1>6 DEF Noticed
<1>8. Noticed' => Noticed
  BY <1>4, <1>6, <1>7, NoticedBefore
<1>9. RowsInv' /\ DbInv'
  BY <1>1, <1>2, <1>5, <1>8, RowsKept, DbSame
<1>10. RunMods(r)' /\ RunEras(r)' /\ RunTodo(r)' /\ RunHad(r)' /\ RunPassTells(r)'
  BY <1>1, <1>2, <1>4, <1>6
     DEF RunMods, RunEras, RunTodo, RunHad, RunPassTells, DbInv, DbMods, DbEras, Outside
<1>11. RunModTells(r)'
  BY <1>4, <1>6, <1>9 DEF RunModTells, DbInv, DbModTells, Held, Shown
<1>12. RunSeenTells(r)'
  BY <1>4, <1>6, <1>9 DEF RunSeenTells, DbInv, DbSeenTells
<1>13. ServerOK' /\ RowsOK' /\ db' \in StateRows /\ faults' \in Nat /\ DbGoesOn
  BY <1>1, <1>2, ServerSame, MailSame DEF TypeOK, RowsOK, DbGoesOn
<1>14. QED
  BY <1>4, <1>5, <1>9, <1>10, <1>11, <1>12, <1>13, Compose DEF RunInv

\* A watermark read before the claim is written back: it is lower than the stored one
\* or of an older mailbox, and then what it goes over is owed.
LEMMA TakeClaimKeeps ==
  ASSUME MailboxInv, NEW r \in Runs, TakeClaim(r), set' = set
  PROVE  MailboxInv'
<1>1. TypeOK /\ RowsInv /\ DbInv /\ RunInv(r)
  BY DEF MailboxInv
<1>2. PICK w, x, o : w = run[r] /\ x = run'[r] /\ o = {u \in Uids :
        run[r].era \notin {0, era} /\ db.era = era /\ u <= run[r].seen}
  OBVIOUS
<1>3. /\ UNCHANGED server /\ UNCHANGED mailVars /\ faults' = faults /\ owed' = owed \cup o
      /\ rows' = rows /\ rowFlag' = rowFlag /\ rowEra' = rowEra /\ w.pc = "claim"
  BY <1>2 DEF TakeClaim, mailVars
<1>4. /\ w = run[r] /\ x = run'[r] /\ run' \in [Runs -> Closures] /\ Apart(r)
      /\ w \in Closures /\ db' \in StateRows
      /\ db'.seen = w.seen /\ db'.mod = db.mod /\ db'.era = db.era
      /\ x.pc = "open" /\ x.seen = w.seen /\ x.mod = w.mod /\ x.era = w.era
      /\ x.todo = w.todo /\ x.had = w.had /\ x.lost = w.lost
  BY <1>1, <1>2, TakeClaimIs DEF TypeOK
<1>5. Grows
  BY <1>1, <1>3, QuietGrows
<1>6. /\ ~Fetching(r) /\ ~Fetching(r)' /\ Early(r) /\ Early(r)' /\ era' = era /\ mod' = mod
      /\ (Current(r)' <=> Current(r)) /\ (Current(r) <=> w.era \in {0, era}) /\ w.todo = {}
  BY <1>1, <1>3, <1>4, <1>5 DEF Fetching, Outside, Early, Current, Grows, server, RunInv, RunTodo
<1>7. Noticed' => Noticed
  BY <1>4, <1>6, CurrentIsNoticed, NoticedBefore
<1>8. RowsInv'
  BY <1>1, <1>3, <1>5, <1>7, RowsKept
<1>9. DbInv'
  <2>1. ASSUME db.era \in {0, era}, NEW v \in Uids, v <= w.seen
        PROVE  Given(v)' /\ (db.mod = 0 => Accounted(v)')
    <3>1. CASE w.era \in {0, era}
      <4>1. Current(r) /\ Noticed
        BY <1>6, <3>1, CurrentIsNoticed
      <4>2. Given(v) /\ (w.mod = 0 => Accounted(v))
        BY <1>1, <1>4, <1>6, <2>1, <4>1 DEF RunInv, RunSeenTells
      <4>3. db.mod = 0 => w.mod = 0
        BY <1>1, <1>4 DEF RunInv, RunMods
      <4>4. QED
        BY <1>5, <2>1, <4>1, <4>2, <4>3 DEF Grows
    <3>2. CASE w.era \notin {0, era}
      <4>1. db.era = era
        BY <1>1, <1>4, <2>1, <3>2 DEF RunInv, RunMods
      <4>2. v \in owed'
        BY <1>2, <1>3, <2>1, <3>2, <4>1
      <4>3. QED
        BY <4>2 DEF Given, Accounted
    <3>3. QED
      BY <3>1, <3>2
  <2>2. QED
    BY <1>1, <1>4, <1>5, <2>1, DbKept
<1>10. DbGoesOn
  BY <1>4 DEF DbGoesOn
<1>11. RunMods(r)' /\ RunEras(r)' /\ RunTodo(r)' /\ RunPassTells(r)'
  BY <1>1, <1>3, <1>4, <1>5, <1>6, <1>10
     DEF RunInv, RunMods, RunEras, RunTodo, RunPassTells, Outside, Grows, DbGoesOn
<1>12. RunHad(r)'
  BY <1>1, <1>4, <1>5, <1>6, HadSame DEF RunInv
<1>13. RunModTells(r)'
  BY <1>1, <1>4, <1>5, <1>6, ModTellsOn DEF RunInv, RunModTells
<1>14. RunSeenTells(r)'
  BY <1>1, <1>4, <1>5, <1>6, CurrentIsNoticed DEF RunInv, RunSeenTells, Grows
<1>15. ServerOK' /\ RowsOK' /\ faults' \in Nat
  <2>1. owed' \subseteq Uids
    BY <1>1, <1>2, <1>3 DEF TypeOK, RowsOK
  <2>2. QED
    BY <1>1, <1>3, <2>1, ServerSame, MailSame DEF TypeOK
<1>16. QED
  BY <1>4, <1>5, <1>8, <1>9, <1>10, <1>11, <1>12, <1>13, <1>14, <1>15, Compose DEF RunInv

\* The end of a run, planned or not.
LEMMA OffKeeps ==
  ASSUME MailboxInv, NEW r \in Runs, ClaimRefused(r) \/ Stop(r), set' = set
  PROVE  MailboxInv'
<1>1. TypeOK /\ RowsInv /\ DbInv
  BY DEF MailboxInv
<1>2. /\ UNCHANGED server /\ UNCHANGED mailVars /\ db' = db /\ faults' \in Nat
      /\ rows' = rows /\ rowFlag' = rowFlag /\ rowEra' = rowEra
      /\ run' = [run EXCEPT ![r] = Off]
  BY <1>1 DEF ClaimRefused, Stop, mailVars, TypeOK
<1>3. owed \subseteq owed' /\ owed' \subseteq Uids
  BY <1>1 DEF ClaimRefused, Stop, Owes, TypeOK, RowsOK, ServerOK
<1>4. run' \in [Runs -> Closures] /\ Apart(r) /\ run'[r] = Off
  BY <1>1, <1>2, Puts, OffIs
<1>5. Grows
  BY <1>1, <1>2, <1>3, QuietGrows
<1>6. ~Current(r)'
  BY <1>4, OffIs DEF Current, Fetching, Outside
<1>7. Noticed' => Noticed
  BY <1>2, <1>4, <1>5, <1>6, NoticedBefore DEF Grows
<1>8. RowsInv' /\ DbInv'
  BY <1>1, <1>2, <1>3, <1>5, <1>7, RowsKept, DbSame
<1>9. ServerOK' /\ RowsOK' /\ db' \in StateRows /\ DbGoesOn
  BY <1>1, <1>2, <1>3, ServerSame, MailSame DEF TypeOK, DbGoesOn
<1>10. QED
  BY <1>2, <1>4, <1>5, <1>8, <1>9, Compose, OffRun

\* The mailbox is opened, and what it had under an older UIDVALIDITY thrown away.
LEMMA OpenKeeps ==
  ASSUME MailboxInv, NEW r \in Runs, Open(r), set' = set
  PROVE  MailboxInv'
<1>1. TypeOK /\ RowsInv /\ DbInv /\ RunInv(r)
  BY DEF MailboxInv
<1>2. PICK w, x, o : /\ w = run[r] /\ x = run'[r]
                     /\ o = {u \in rows \cap present : Resets(r) /\ rowEra[u] = era}
  OBVIOUS
<1>3. /\ UNCHANGED server /\ db' = db /\ faults' = faults /\ owed' = owed \cup o
      /\ w.pc = "open" /\ owed' \subseteq Uids
  <2>1. owed' = owed \cup o
    BY <1>2 DEF Open
  <2>2. owed' \subseteq Uids
    BY <1>1, <1>2, <2>1 DEF TypeOK, RowsOK
  <2>3. QED
    BY <1>2, <2>1, <2>2 DEF Open
<1>4. /\ w = run[r] /\ x = run'[r] /\ run' \in [Runs -> Closures] /\ Apart(r)
      /\ w \in Closures /\ x \in Closures
      /\ x.pc = (IF x.mod # 0 THEN "changed" ELSE "range")
      /\ x.seen = (IF Resets(r) THEN 0 ELSE w.seen)
      /\ x.mod = (IF Resets(r) THEN 0 ELSE w.mod)
      /\ x.had = (IF Resets(r) THEN {} ELSE w.had)
      /\ x.era = w.era /\ x.oMod = (IF set.condstore THEN mod ELSE 0)
      /\ x.oEra = era /\ x.todo = {} /\ x.met = {}
      /\ x.chg = FALSE /\ x.lost = w.lost
  BY <1>1, <1>2, OpenIs DEF TypeOK
<1>5. /\ present' = present /\ next' = next /\ mod' = mod /\ era' = era /\ mod \in Nat /\ mod # 0
      /\ next \in Nat /\ era \in {1, 2} /\ set' = set
  BY <1>1, <1>3 DEF server, TypeOK, ServerOK
<1>6. Fetching(r)' /\ Early(r)' /\ Current(r)' /\ w.lost = FALSE /\ x.lost = FALSE
  <2>1. w.lost = FALSE
    BY <1>1, <1>2, <1>3, <1>4 DEF RunInv, RunEras, Outside, Closures
  <2>2. x.pc \in {"changed", "range"}
    BY <1>4
  <2>3. Fetching(r)' /\ Early(r)' /\ Current(r)'
    BY <1>4, <1>5, <2>2 DEF Fetching, Outside, Early, Current
  <2>4. QED
    BY <1>4, <2>1, <2>3
<1>7. RunMods(r)' /\ RunEras(r)' /\ RunTodo(r)'
  <2>1. RunMods(r)'
    BY <1>1, <1>3, <1>4, <1>5 DEF RunInv, RunMods, Outside
  <2>2. RunEras(r)'
    BY <1>1, <1>4, <1>5, <1>6 DEF RunInv, RunEras, Outside
  <2>3. RunTodo(r)'
    BY <1>4 DEF RunTodo
  <2>4. QED
    BY <2>1, <2>2, <2>3
<1>8. RunPassTells(r)'
  BY <1>4, <1>5, <1>6 DEF RunPassTells
<1>9. ServerOK' /\ db' \in StateRows /\ DbGoesOn /\ faults' \in Nat
  BY <1>1, <1>3, ServerSame DEF TypeOK, DbGoesOn
<1>10. CASE Resets(r)
  <2>1. /\ rows' = {} /\ bare' = {} /\ rowFlag' = [u \in Uids |-> FALSE]
        /\ rowEra' = [u \in Uids |-> 0]
    BY <1>10 DEF Open, DeleteRows
  <2>2. Grows
    BY <1>1, <1>2, <1>3, <1>10, <2>1, DeleteGrows
  <2>3. RowsInv'
    BY <2>1 DEF RowsInv, RowEras, Clean, Gapless
  <2>4. DbInv'
    BY <1>1, <1>3, <2>2, DbSame
  <2>5. RowsOK'
    BY <1>3, <2>1 DEF RowsOK
  <2>6. RunHad(r)' /\ RunModTells(r)'
    BY <1>4, <1>10 DEF RunHad, RunModTells
  <2>7. RunSeenTells(r)'
    BY <1>4, <1>10 DEF RunSeenTells, Uids
  <2>8. QED
    BY <1>4, <1>7, <1>8, <1>9, <2>2, <2>3, <2>4, <2>5, <2>6, <2>7, Compose DEF RunInv
<1>11. CASE ~Resets(r)
  <2>1. UNCHANGED mailVars /\ rows' = rows /\ rowFlag' = rowFlag /\ rowEra' = rowEra
    BY <1>11 DEF Open, mailVars
  <2>2. Grows
    BY <1>1, <1>3, <2>1, QuietGrows
  <2>3. w.era \in {0, era} /\ Current(r) /\ Noticed
    <3>1. w.era \in {0, era}
      BY <1>2, <1>11 DEF Resets
    <3>2. Current(r)
      BY <1>2, <1>3, <3>1 DEF Current
    <3>3. QED
      BY <3>1, <3>2, CurrentIsNoticed
  <2>4. RowsInv' /\ DbInv'
    BY <1>1, <1>3, <2>1, <2>2, <2>3, RowsKept, DbSame
  <2>5. RowsOK'
    BY <1>1, <1>3, <2>1, MailSame
  <2>6. RunHad(r)'
    BY <1>1, <1>4, <1>11, <2>2, <2>3, HadSame DEF RunInv
  <2>7. RunModTells(r)'
    BY <1>1, <1>4, <1>11, <2>2, <2>3, ModTellsOn DEF RunInv, RunModTells
  <2>8. RunSeenTells(r)'
    <3>1. ~Fetching(r)
      BY <1>2, <1>3 DEF Fetching, Outside
    <3>2. QED
      BY <1>1, <1>4, <1>6, <1>11, <2>2, <2>3, <3>1 DEF RunInv, RunSeenTells, Grows
  <2>9. QED
    BY <1>4, <1>7, <1>8, <1>9, <2>2, <2>4, <2>5, <2>6, <2>7, <2>8, Compose DEF RunInv
<1>12. QED
  BY <1>10, <1>11

\* Progress that was written is of uids that are accounted for.
LEMMA ProgressKeeps ==
  ASSUME TypeOK, Grows, DbInv, NEW r \in Runs, RunSeenTells(r), Current(r), UNCHANGED server,
         NEW P, P \subseteq present, NEW W, W \subseteq Uids, Progress(r, P, W),
         db.mod = 0 => \A v \in Uids : v <= run[r].seen => Accounted(v)',
         \A u \in W, v \in Uids : v <= u => Accounted(v)'
  PROVE  DbInv' /\ db' \in StateRows /\ DbGoesOn /\ db'.era = db.era
<1>1. CASE db' = db
  BY <1>1, DbSame DEF TypeOK, DbGoesOn
<1>2. ASSUME NEW u \in W, db' = Written(r, P, u)
      PROVE  DbInv' /\ db' \in StateRows /\ DbGoesOn /\ db'.era = db.era
  <2>1. P \subseteq Uids /\ u \in Nat
    BY UidsAreNat DEF TypeOK, ServerOK
  <2>2. /\ db' \in StateRows /\ db'.era = db.era /\ db'.mod = db.mod
        /\ db'.seen = run[r].seen \/ (db'.seen \in P /\ db'.seen <= u)
    BY <1>2, <2>1, WrittenIs
  <2>3. ASSUME NEW v \in Uids, v <= db'.seen PROVE Given(v)' /\ (db.mod = 0 => Accounted(v)')
    <3>1. v \in Nat /\ db'.seen \in Nat /\ next' = next /\ next \in Nat
      BY <2>2, UidsAreNat DEF StateRows, server, TypeOK, ServerOK
    <3>2. CASE db'.seen = run[r].seen
      BY <2>3, <3>2, CurrentIsNoticed DEF RunSeenTells, Grows
    <3>3. CASE db'.seen \in P /\ db'.seen <= u
      <4>1. v < next /\ v <= u
        BY <2>1, <2>3, <3>1, <3>3 DEF TypeOK, ServerOK
      <4>2. QED
        BY <3>1, <4>1 DEF Given
    <3>4. QED
      BY <2>2, <3>2, <3>3
  <2>4. QED
    BY <2>2, <2>3, DbKept DEF DbGoesOn
<1>3. QED
  BY <1>1, <1>2 DEF Progress

\* What the list of a metadata pass leaves out is owed, or is new and passed over.
LEMMA ListLeavesOut ==
  ASSUME TypeOK, NEW r \in Runs, RunInv(r), Current(r), Fetching(r),
         run[r].pc \in {"changed", "tail", "refresh"}, NEW v \in present, v \notin Listed(r)
  PROVE  /\ v \in rows \/ v \in owed \/ (run[r].pc # "changed" /\ v > run[r].seen)
         /\ run[r].pc = "changed" /\ v \in rows => v \in owed \/ rowFlag[v] = flag[v]
<1>1. v \in Uids /\ v \in Nat /\ run[r].seen \in Nat
  BY UidsAreNat DEF TypeOK, ServerOK, Closures
<1>2. CASE run[r].pc = "changed"
  <2>1. run[r].mod # 0 /\ run[r].mod \in Nat /\ modOf[v] \in Nat
    BY <1>1, <1>2 DEF RunInv, RunMods, TypeOK, ServerOK, Closures
  <2>2. ~(modOf[v] > run[r].mod)
    BY <1>2 DEF Listed, ChangedSince
  <2>3. Held(v, run[r].mod) /\ Shown(v, run[r].mod)
    BY <1>1, <2>1 DEF RunInv, RunModTells
  <2>4. QED
    BY <1>2, <2>2, <2>3 DEF Held, Shown
<1>3. CASE run[r].pc # "changed"
  <2>1. ~Early(r) /\ run[r].todo = {}
    BY <1>3 DEF Early, Outside, RunInv, RunTodo
  <2>2. v <= run[r].seen => Accounted(v)
    BY <1>1, <2>1 DEF RunInv, RunSeenTells
  <2>3. QED
    BY <1>1, <1>3, <2>2 DEF Accounted
<1>4. QED
  BY <1>2, <1>3

\* A run whose session stands fetches from the mailbox as it is.
LEMMA FetchesNow ==
  ASSUME TypeOK, NEW r \in Runs, RunInv(r), run[r].pc \notin Outside, ~run[r].lost
  PROVE  Fetching(r) /\ Current(r) /\ Noticed
<1>1. Fetching(r)
  BY DEF RunInv, RunEras, Fetching
<1>2. QED
  BY <1>1, FetchingIsCurrent, CurrentIsNoticed

\* Flags of rows stay flags.
LEMMA MetadataType ==
  ASSUME TypeOK, NEW r \in Runs, NEW P, Metadata(r, P)
  PROVE  rowFlag' \in [Uids -> BOOLEAN]
<1>1. \A u \in Uids : flag[u] \in BOOLEAN /\ rowFlag[u] \in BOOLEAN
  BY DEF TypeOK, RowsOK, ServerOK
<1>2. QED
  BY <1>1 DEF Metadata

\* What the watermark of a run tells goes on being so.
LEMMA SeenTellsOn ==
  ASSUME TypeOK, Grows, NEW r \in Runs, RunSeenTells(r), Current(r),
         NEW v \in Uids, v <= run[r].seen
  PROVE  /\ Given(v)'
         /\ run[r].mod = 0 \/ ~Early(r) => Accounted(v)' \/ v \in run[r].todo
<1>1. Noticed
  BY CurrentIsNoticed
<1>2. Given(v) /\ (run[r].mod = 0 \/ ~Early(r) => Accounted(v) \/ v \in run[r].todo)
  BY DEF RunSeenTells
<1>3. QED
  BY <1>1, <1>2 DEF Grows

\* What a metadata pass writes of its progress.
LEMMA MetadataProgress ==
  ASSUME TypeOK, RowsInv, DbInv, NEW r \in Runs, RunInv(r), Grows, UNCHANGED server,
         run[r].pc \in {"changed", "tail", "refresh"}, Current(r),
         NEW P, P \subseteq present, Progress(r, P, Changed(r, P))
  PROVE  DbInv' /\ db' \in StateRows /\ DbGoesOn /\ db'.era = db.era
<1>1. Noticed /\ RunSeenTells(r) /\ run[r].todo = {}
  BY CurrentIsNoticed DEF RunInv, RunTodo
<1>2. ASSUME db.mod = 0, NEW v \in Uids, v <= run[r].seen PROVE Accounted(v)'
  <2>1. run[r].mod = 0
    BY <1>2 DEF RunInv, RunMods
  <2>2. QED
    BY <1>1, <1>2, <2>1, SeenTellsOn
<1>3. Changed(r, P) \subseteq rows /\ Changed(r, P) \subseteq Uids
  BY DEF Changed, TypeOK, ServerOK
<1>4. \A u \in Changed(r, P), v \in Uids : v <= u => Accounted(v)'
  BY <1>1, <1>3 DEF RowsInv, Gapless, Grows
<1>5. QED
  BY <1>1, <1>2, <1>3, <1>4, ProgressKeeps

\* A metadata pass, new flags written and sources listed.
LEMMA MetadataPassKeeps ==
  ASSUME MailboxInv, NEW r \in Runs, MetadataPass(r), set' = set
  PROVE  MailboxInv'
<1>1. TypeOK /\ RowsInv /\ DbInv /\ RunInv(r)
  BY DEF MailboxInv
<1>2. PICK w, x, S : w = run[r] /\ x = run'[r] /\ S = Listed(r)
  OBVIOUS
<1>3. /\ w = run[r] /\ w.pc \in {"changed", "tail", "refresh"} /\ ~w.lost
      /\ UNCHANGED server /\ rows' = rows /\ rowEra' = rowEra /\ bare' = bare /\ faults' = faults
      /\ Metadata(r, S) /\ Progress(r, S, Changed(r, S)) /\ owed' = owed \cup PassedOver(r, S)
  BY <1>2 DEF MetadataPass
<1>4. Fetching(r) /\ Current(r) /\ Noticed
  BY <1>1, <1>3, FetchesNow DEF Outside
<1>5. S \subseteq present /\ S \subseteq Uids /\ present \subseteq Uids
  BY <1>1, <1>2, <1>3, ListedIs DEF TypeOK, ServerOK
<1>6. /\ x = run'[r] /\ run' \in [Runs -> Closures] /\ Apart(r) /\ w \in Closures /\ x \in Closures
      /\ x.pc = "source" /\ x.seen = Seen(r, S) /\ x.mod = w.mod /\ x.era = w.era
      /\ x.oMod = w.oMod /\ x.oEra = w.oEra /\ x.todo = Wanted(r, S)
      /\ x.had = w.had \cup Known(r, S) /\ x.met = w.met \cup Known(r, S)
      /\ x.chg = w.chg /\ x.lost = w.lost
  BY <1>1, <1>2, MetadataPassIs DEF TypeOK
<1>7. /\ x.seen \in Nat /\ w.seen \in Nat /\ w.seen <= x.seen /\ (\A u \in S : u <= x.seen)
      /\ (x.seen = w.seen \/ x.seen \in S)
  BY <1>1, <1>2, <1>5, <1>6, SeenIs DEF Closures
<1>8. /\ present' = present /\ next' = next /\ mod' = mod /\ era' = era /\ mod \in Nat
      /\ next \in Nat /\ set' = set /\ modOf' = modOf /\ flag' = flag
      /\ \A u \in present : u < next /\ u \in Nat
  BY <1>1, <1>3, <1>5, UidsAreNat DEF server, TypeOK, ServerOK
<1>9. Grows /\ \A u \in S \cap rows : rowFlag'[u] = flag[u]
  BY <1>1, <1>3, <1>5, MetadataGrows
<1>10. RowsInv'
  BY <1>1, <1>3, <1>4, <1>9, RowsKept
<1>11. RowsOK'
  <2>1. PassedOver(r, S) \subseteq Uids
    BY <1>5 DEF PassedOver
  <2>2. QED
    BY <1>1, <1>3, <2>1, MetadataType DEF TypeOK, RowsOK
<1>12. Early(r) => w.pc = "changed" /\ w.mod # 0
  BY <1>1, <1>3, <1>6 DEF Early, Outside, RunInv, RunMods
<1>13. w.todo = {}
  BY <1>1, <1>3 DEF RunInv, RunTodo
<1>14. DbInv' /\ db' \in StateRows /\ DbGoesOn
  BY <1>1, <1>3, <1>4, <1>5, <1>9, MetadataProgress
\* A uid of the mailbox without a row is to be fetched, is owed or is new.
<1>15. ASSUME NEW v \in present, v \notin rows, v \notin x.todo
       PROVE  v \in owed' \/ (w.pc # "changed" /\ v > x.seen)
  <2>1. CASE v \in S
    <3>1. v \in w.had
      BY <1>3, <1>6, <1>15, <2>1 DEF Wanted, Known
    <3>2. Accounted(v)
      BY <1>1, <1>3, <1>4, <3>1 DEF RunInv, RunHad
    <3>3. QED
      BY <1>3, <1>15, <3>2 DEF Accounted
  <2>2. CASE v \notin S
    <3>1. v \in owed \/ (w.pc # "changed" /\ v > w.seen)
      BY <1>1, <1>2, <1>3, <1>4, <1>15, <2>2, ListLeavesOut
    <3>2. CASE w.pc # "changed" /\ v > w.seen /\ ~(v > x.seen)
      <4>1. v \in PassedOver(r, S)
        BY <1>3, <1>6, <1>7, <1>8, <1>15, <2>2, <3>2 DEF PassedOver
      <4>2. QED
        BY <1>3, <4>1
    <3>3. QED
      BY <1>3, <3>1, <3>2
  <2>3. QED
    BY <2>1, <2>2
<1>16. Fetching(r)' /\ Current(r)' /\ ~Early(r)'
  <2>1. w.oEra = era
    BY <1>3, <1>4 DEF Fetching
  <2>2. x.pc \notin Outside /\ x.pc # "changed" /\ x.pc # "range" /\ x.oEra = era' /\ x = run'[r]
    BY <1>6, <1>8, <2>1 DEF Outside
  <2>3. ~Early(r)'
    BY <2>2 DEF Early
  <2>4. Fetching(r)'
    BY <2>2 DEF Fetching
  <2>5. Current(r)'
    BY <2>2, <2>4 DEF Current, Outside
  <2>6. QED
    BY <2>3, <2>4, <2>5
<1>17. RunMods(r)' /\ RunEras(r)'
  BY <1>1, <1>3, <1>6, <1>8, <1>14 DEF RunInv, RunMods, RunEras, DbGoesOn, Outside
<1>18. RunTodo(r)'
  <2>1. x.todo \subseteq S
    BY <1>6 DEF Wanted
  <2>2. ASSUME NEW u \in x.todo, NEW v \in Uids, v < u PROVE Accounted(v)' \/ v \in x.todo
    <3>1. u \in present /\ u < next /\ u <= x.seen /\ v \in Nat /\ u \in Nat
      BY <1>5, <1>7, <1>8, <2>1, UidsAreNat
    <3>2. CASE v \in present
      BY <1>3, <1>7, <1>15, <2>2, <3>1, <3>2 DEF Accounted
    <3>3. CASE v \notin present
      BY <1>8, <2>2, <3>1, <3>3 DEF Accounted
    <3>4. QED
      BY <3>2, <3>3
  <2>3. \A u \in x.todo : u < next'
    BY <1>5, <1>8, <2>1
  <2>4. QED
    BY <1>6, <2>2, <2>3 DEF RunTodo
<1>19. RunHad(r)'
  <2>1. \A u \in Known(r, S) : (u \in w.had \/ u \in rows) /\ u \in S /\ u \in Uids
    BY <1>3, <1>5 DEF Known
  <2>2. \A u \in w.had : u \in Uids /\ Accounted(u)
    BY <1>1, <1>3, <1>4, <1>6 DEF RunInv, RunHad, Closures
  <2>3. \A u \in Known(r, S) : u <= x.seen /\ Accounted(u)'
    BY <1>3, <1>4, <1>7, <1>9, <2>1, <2>2 DEF Grows, Accounted
  <2>4. QED
    BY <1>1, <1>3, <1>4, <1>6, <1>7, <1>9, <2>3, HadOn DEF RunInv
<1>20. RunModTells(r)'
  BY <1>1, <1>3, <1>4, <1>6, <1>9, ModTellsOn DEF RunInv
<1>21. RunSeenTells(r)'
  <2>1. ASSUME NEW v \in Uids, v <= x.seen PROVE Given(v)' /\ (Accounted(v)' \/ v \in x.todo)
    <3>1. v \in Nat
      BY UidsAreNat
    <3>2. Given(v)'
      <4>1. CASE v <= w.seen
        <5>1. Given(v)
          BY <1>1, <1>3, <1>4, <4>1 DEF RunInv, RunSeenTells
        <5>2. QED
          BY <1>4, <1>9, <5>1 DEF Grows
      <4>2. CASE ~(v <= w.seen)
        BY <1>5, <1>7, <1>8, <2>1, <3>1, <4>2 DEF Given
      <4>3. QED
        BY <4>1, <4>2
    <3>3. CASE v \in present
      BY <1>3, <1>7, <1>15, <2>1, <3>1, <3>2, <3>3 DEF Accounted
    <3>4. CASE v \notin present
      BY <1>8, <3>2, <3>4 DEF Accounted, Given
    <3>5. QED
      BY <3>2, <3>3, <3>4
  <2>2. QED
    BY <1>6, <1>16, <2>1 DEF RunSeenTells
<1>22. RunPassTells(r)'
  <2>1. w.oMod <= mod' /\ w.oMod <= mod /\ w.oMod \in Nat /\ (w.oMod # 0 => set.condstore)
    BY <1>1, <1>3, <1>4, <1>6, <1>8 DEF RunInv, RunMods, RunPassTells, Closures, Fetching
  <2>2. ASSUME NEW u \in Uids PROVE Held(u, w.oMod)' \/ u \in x.todo
    <3>1. CASE Early(r)
      BY <1>3, <1>8, <1>12, <1>15, <3>1 DEF Held
    <3>2. CASE ~Early(r)
      <4>1. Held(u, w.oMod)
        BY <1>1, <1>3, <1>4, <1>13, <3>2 DEF RunInv, RunPassTells
      <4>2. QED
        BY <1>4, <1>8, <1>9, <2>1, <4>1 DEF Grows
    <3>3. QED
      BY <3>1, <3>2
  <2>3. ASSUME NEW u \in Uids, w.mod # 0 \/ u \in x.met PROVE Shown(u, w.oMod)'
    <3>1. CASE u \in S
      BY <1>3, <1>8, <1>9, <3>1 DEF Shown
    <3>2. CASE u \notin S /\ u \in present /\ Early(r)
      <4>1. u \in rows => u \in owed \/ rowFlag[u] = flag[u]
        BY <1>1, <1>2, <1>3, <1>4, <1>12, <3>2, ListLeavesOut
      <4>2. rowFlag'[u] = rowFlag[u]
        BY <1>3, <3>2 DEF Metadata
      <4>3. QED
        BY <1>3, <1>8, <4>1, <4>2 DEF Shown
    <3>3. CASE u \notin S /\ ~Early(r)
      <4>1. w.mod # 0 \/ u \in w.met
        BY <1>6, <2>3, <3>3 DEF Known
      <4>2. Shown(u, w.oMod)
        BY <1>1, <1>3, <1>4, <3>3, <4>1 DEF RunInv, RunPassTells
      <4>3. QED
        BY <1>4, <1>8, <1>9, <2>1, <4>2 DEF Grows
    <3>4. QED
      BY <1>8, <3>1, <3>2, <3>3 DEF Shown
  <2>4. QED
    BY <1>6, <2>1, <2>2, <2>3 DEF RunPassTells, Held, Shown
<1>23. ServerOK' /\ faults' \in Nat
  BY <1>1, <1>3, ServerSame DEF TypeOK
<1>24. QED
  BY <1>6, <1>9, <1>10, <1>11, <1>14, <1>17, <1>18, <1>19, <1>20, <1>21, <1>22, <1>23, Compose
     DEF RunInv

\* A run that begins again comes to know no other mailbox.
LEMMA AgainNotices ==
  ASSUME TypeOK, NEW r \in Runs, NEW s \in Nat, NEW k \in SUBSET Uids, Again(r, s, k),
         run[r].pc # "off", era' = era, db'.era = db.era
  PROVE  Noticed' => Noticed
<1>1. Current(r)' => Current(r)
  <2>1. CASE run'[r] = Off
    BY <2>1, OffIs DEF Current, Fetching, Outside
  <2>2. CASE run'[r] # Off
    BY <2>2, AgainIs DEF Current, Fetching, Outside
  <2>3. QED
    BY <2>1, <2>2
<1>2. Apart(r)
  BY AgainIs
<1>3. QED
  BY <1>1, <1>2, CurrentIsNoticed, NoticedBefore

\* The connection ends between two calls, and the run begins again or gives up.
LEMMA SessionEndsKeeps ==
  ASSUME MailboxInv, NEW r \in Runs, SessionEnds(r), set' = set
  PROVE  MailboxInv'
<1>1. TypeOK /\ RowsInv /\ DbInv /\ RunInv(r)
  BY DEF MailboxInv
<1>2. /\ UNCHANGED server /\ UNCHANGED mailVars /\ db' = db /\ faults' = faults
      /\ rows' = rows /\ rowFlag' = rowFlag /\ rowEra' = rowEra /\ era' = era
      /\ run[r].pc # "off" /\ Again(r, run[r].seen, {})
  BY DEF SessionEnds, mailVars, server
<1>3. run[r].seen \in Nat /\ {} \in SUBSET Uids /\ run[r].seen <= run[r].seen
  BY <1>1 DEF TypeOK, Closures
<1>4. /\ run' \in [Runs -> Closures] /\ Apart(r)
      /\ owed' = owed \cup Owes(r, run[r].seen, {})
  BY <1>1, <1>2, <1>3, AgainIs
<1>5. owed \subseteq owed' /\ owed' \subseteq Uids
  BY <1>1, <1>4 DEF Owes, TypeOK, RowsOK, ServerOK
<1>6. Grows
  BY <1>1, <1>2, <1>5, QuietGrows
<1>7. Noticed' => Noticed
  BY <1>1, <1>2, <1>3, AgainNotices
<1>8. RowsInv' /\ DbInv'
  BY <1>1, <1>2, <1>5, <1>6, <1>7, RowsKept, DbSame
<1>9. ServerOK' /\ RowsOK' /\ db' \in StateRows /\ DbGoesOn /\ faults' \in Nat
  BY <1>1, <1>2, <1>5, ServerSame, MailSame DEF TypeOK, DbGoesOn
<1>10. RunInv(r)'
  BY <1>1, <1>2, <1>3, <1>6, <1>9, AgainKeeps
<1>11. QED
  BY <1>4, <1>6, <1>8, <1>9, <1>10, Compose

\* A step that no run takes and that leaves the messages.
LEMMA RestKeeps ==
  ASSUME MailboxInv, Grows, run' = run, UNCHANGED mailVars, owed' = owed, ServerOK',
         db' \in StateRows, faults' \in Nat,
         db'.mod = db.mod, db'.era = db.era, db'.seen = db.seen
  PROVE  MailboxInv'
<1>1. TypeOK /\ RowsInv /\ DbInv /\ rows' = rows /\ rowEra' = rowEra /\ DbGoesOn
  BY DEF MailboxInv, mailVars, DbGoesOn
<1>2. \A q \in Runs : RunInv(q)'
  BY <1>1, OtherRun DEF MailboxInv
<1>3. Noticed' => Noticed
  BY DEF Noticed, Current, Fetching, Grows
<1>4. RowsInv' /\ DbInv'
  BY <1>1, <1>3, RowsKept, DbSame
<1>5. TypeOK'
  <2>1. RowsOK' /\ run' \in [Runs -> Closures] /\ set' \in Settings
    BY <1>1, MailSame DEF TypeOK, RowsOK, Grows
  <2>2. QED
    BY <2>1 DEF TypeOK
<1>6. QED
  BY <1>2, <1>4, <1>5 DEF MailboxInv

\* The full scan falls due.
LEMMA DayPassesKeeps ==
  ASSUME MailboxInv, DayPasses, set' = set
  PROVE  MailboxInv'
<1>1. TypeOK
  BY DEF MailboxInv
<1>2. PICK yes : yes = TRUE
  OBVIOUS
<1>3. yes \in BOOLEAN /\ db' = [db EXCEPT !.due = yes]
  BY <1>2 DEF DayPasses
<1>4. db' \in StateRows /\ db'.mod = db.mod /\ db'.era = db.era /\ db'.seen = db.seen
  BY <1>1, <1>3 DEF TypeOK, StateRows
<1>5. /\ UNCHANGED server /\ UNCHANGED mailVars /\ run' = run /\ faults' = faults /\ owed' = owed
      /\ rows' = rows /\ rowFlag' = rowFlag
  BY DEF DayPasses, mailVars
<1>6. Grows
  BY <1>1, <1>5, QuietGrows
<1>7. ServerOK' /\ faults' \in Nat
  BY <1>1, <1>5, ServerSame DEF TypeOK
<1>8. QED
  BY <1>4, <1>5, <1>6, <1>7, RestKeeps

\* Without mod-sequences there is none to compare with.
LEMMA BumpIs ==
  ASSUME TypeOK, Bump
  PROVE  /\ mod' \in Nat \ {0} /\ mod <= mod'
         /\ \A m \in Nat : m <= mod /\ (m # 0 => set.condstore) => mod' > m
<1>1. mod \in Nat /\ mod # 0
  BY DEF TypeOK, ServerOK
<1>2. CASE set.condstore
  BY <1>1, <1>2 DEF Bump
<1>3. CASE ~set.condstore
  BY <1>1, <1>3 DEF Bump
<1>4. QED
  BY <1>2, <1>3

\* A message arrives: its uid is above every other.
LEMMA ArriveKeeps ==
  ASSUME MailboxInv, Arrive, set' = set
  PROVE  MailboxInv'
<1>1. TypeOK /\ ServerOK
  BY DEF MailboxInv, TypeOK
<1>2. /\ present' = present \cup {next} /\ next' = next + 1 /\ era' = era
      /\ modOf' = [modOf EXCEPT ![next] = mod'] /\ flag' = [flag EXCEPT ![next] = FALSE]
      /\ next <= set.uids /\ UNCHANGED mailVars
      /\ db' = db /\ run' = run /\ faults' = faults /\ owed' = owed
      /\ rows' = rows /\ rowFlag' = rowFlag /\ Bump
  BY DEF Arrive, mailVars
<1>3. next \in Uids /\ next \in Nat
  <2>1. set.uids \in 0..MaxUid
    BY <1>1, MailboxAssumption DEF TypeOK
  <2>2. QED
    BY <1>1, <1>2, <2>1, MailboxAssumption DEF ServerOK, Uids
<1>4. /\ mod' \in Nat \ {0} /\ mod <= mod'
      /\ \A m \in Nat : m <= mod /\ (m # 0 => set.condstore) => mod' > m
  BY <1>1, <1>2, BumpIs
<1>5. ServerOK'
  <2>1. present' \subseteq Uids /\ next' \in Nat \ {0} /\ \A u \in present' : u < next'
    BY <1>1, <1>2, <1>3, UidsAreNat DEF ServerOK
  <2>2. flag' \in [Uids -> BOOLEAN] /\ modOf' \in [Uids -> Nat]
    BY <1>1, <1>2, <1>3, <1>4 DEF ServerOK
  <2>3. QED
    BY <1>1, <1>2, <1>4, <2>1, <2>2 DEF ServerOK
<1>6. Grows
  <2>1. \A v \in Uids : v < next => v < next' /\ v # next
    BY <1>2, <1>3, UidsAreNat
  <2>2. \A v \in Uids : (Accounted(v) => Accounted(v)') /\ (Given(v) => Given(v)')
    BY <1>2, <2>1 DEF Accounted, Given
  <2>3. \A u \in Uids : u # next =>
          flag'[u] = flag[u] /\ modOf'[u] = modOf[u] /\ (u \in present' <=> u \in present)
    BY <1>1, <1>2 DEF ServerOK
  <2>4. modOf'[next] = mod'
    BY <1>1, <1>2, <1>3 DEF ServerOK
  <2>5. ASSUME NEW u \in Uids, NEW m \in Nat, m <= mod, m # 0 => set.condstore
        PROVE  (Held(u, m) => Held(u, m)') /\ (Shown(u, m) => Shown(u, m)')
    <3>1. CASE u = next
      BY <1>4, <2>4, <2>5, <3>1 DEF Held, Shown
    <3>2. CASE u # next
      BY <1>2, <2>3, <3>2 DEF Held, Shown
    <3>3. QED
      BY <3>1, <3>2
  <2>6. next' \in Nat /\ next <= next'
    BY <1>2, <1>3
  <2>7. QED
    BY <1>2, <1>4, <2>2, <2>5, <2>6 DEF Grows
<1>7. QED
  BY <1>1, <1>2, <1>5, <1>6, RestKeeps DEF TypeOK

\* A message is expunged: its uid was given out.
LEMMA ExpungeKeeps ==
  ASSUME MailboxInv, NEW u \in Uids, Expunge(u), set' = set
  PROVE  MailboxInv'
<1>1. TypeOK /\ ServerOK
  BY DEF MailboxInv, TypeOK
<1>2. /\ present' = present \ {u} /\ next' = next /\ era' = era /\ mod' = mod
      /\ modOf' = [modOf EXCEPT ![u] = 0] /\ flag' = [flag EXCEPT ![u] = FALSE]
      /\ UNCHANGED mailVars
      /\ db' = db /\ run' = run /\ faults' = faults /\ owed' = owed
      /\ rows' = rows /\ rowFlag' = rowFlag
  BY DEF Expunge, mailVars
<1>3. ServerOK'
  BY <1>1, <1>2 DEF ServerOK
<1>4. Grows
  <2>1. \A v \in Uids \ {u} : flag'[v] = flag[v] /\ modOf'[v] = modOf[v]
    BY <1>1, <1>2 DEF ServerOK
  <2>2. \A v \in Uids : (Accounted(v) => Accounted(v)') /\ (Given(v) => Given(v)')
    BY <1>2 DEF Accounted, Given
  <2>3. \A v \in Uids, m \in Nat : (Held(v, m) => Held(v, m)') /\ (Shown(v, m) => Shown(v, m)')
    BY <1>2, <2>1 DEF Held, Shown
  <2>4. mod' \in Nat /\ mod <= mod' /\ next' \in Nat /\ next <= next'
    BY <1>1, <1>2 DEF ServerOK
  <2>5. QED
    BY <1>2, <2>2, <2>3, <2>4 DEF Grows
<1>5. QED
  BY <1>1, <1>2, <1>3, <1>4, RestKeeps DEF TypeOK

\* A flag changes, and with mod-sequences after all that was read.
LEMMA MarkKeeps ==
  ASSUME MailboxInv, NEW u \in Uids, Mark(u), set' = set
  PROVE  MailboxInv'
<1>1. TypeOK /\ ServerOK
  BY DEF MailboxInv, TypeOK
<1>2. PICK b : b = ~flag[u]
  OBVIOUS
<1>3. /\ present' = present /\ next' = next /\ era' = era
      /\ modOf' = [modOf EXCEPT ![u] = mod'] /\ flag' = [flag EXCEPT ![u] = b]
      /\ UNCHANGED mailVars
      /\ db' = db /\ run' = run /\ faults' = faults /\ owed' = owed
      /\ rows' = rows /\ rowFlag' = rowFlag /\ Bump
  BY <1>2 DEF Mark, mailVars
<1>4. b \in BOOLEAN
  BY <1>2
<1>5. /\ mod' \in Nat \ {0} /\ mod <= mod'
      /\ \A m \in Nat : m <= mod /\ (m # 0 => set.condstore) => mod' > m
  BY <1>1, <1>3, BumpIs
<1>6. ServerOK'
  BY <1>1, <1>3, <1>4, <1>5 DEF ServerOK
<1>7. Grows
  <2>1. \A v \in Uids \ {u} : flag'[v] = flag[v] /\ modOf'[v] = modOf[v]
    BY <1>1, <1>3 DEF ServerOK
  <2>2. modOf'[u] = mod'
    BY <1>1, <1>3 DEF ServerOK
  <2>3. \A v \in Uids : (Accounted(v) => Accounted(v)') /\ (Given(v) => Given(v)')
    BY <1>3 DEF Accounted, Given
  <2>4. ASSUME NEW v \in Uids, NEW m \in Nat, m <= mod, m # 0 => set.condstore
        PROVE  (Held(v, m) => Held(v, m)') /\ (Shown(v, m) => Shown(v, m)')
    <3>1. CASE v = u
      BY <1>5, <2>2, <2>4, <3>1 DEF Held, Shown
    <3>2. CASE v # u
      BY <1>3, <2>1, <3>2 DEF Held, Shown
    <3>3. QED
      BY <3>1, <3>2
  <2>5. next' \in Nat /\ next <= next'
    BY <1>1, <1>3 DEF ServerOK
  <2>6. QED
    BY <1>3, <1>5, <2>3, <2>4, <2>5 DEF Grows
<1>8. QED
  BY <1>1, <1>3, <1>6, <1>7, RestKeeps DEF TypeOK

\* What the passes have done goes on being told.
LEMMA PassTellsOn ==
  ASSUME TypeOK, Grows, NEW r \in Runs, RunMods(r), RunPassTells(r), Fetching(r), ~Early(r),
         run'[r].mod = run[r].mod, run'[r].oMod = run[r].oMod,
         \A u \in run[r].todo : u \in run'[r].todo \/ Held(u, run[r].oMod)',
         \A u \in run'[r].met : u \in run[r].met \/ Shown(u, run[r].oMod)'
  PROVE  RunPassTells(r)'
<1>1. PICK m : m = run[r].oMod
  OBVIOUS
<1>2. m = run[r].oMod /\ m = run'[r].oMod /\ m \in Nat /\ Noticed
  BY <1>1, CurrentIsNoticed, FetchingIsCurrent DEF TypeOK, Closures
<1>3. m <= mod /\ (m # 0 => set.condstore)
  BY <1>2 DEF RunPassTells, RunMods, Fetching
<1>4. m <= mod'
  BY <1>2, <1>3 DEF Grows, TypeOK, ServerOK
<1>5. \A u \in Uids : Held(u, m)' \/ u \in run'[r].todo
  <2>1. ASSUME NEW u \in Uids PROVE Held(u, m)' \/ u \in run'[r].todo
    <3>1. Held(u, m) \/ u \in run[r].todo
      BY <1>2 DEF RunPassTells
    <3>2. CASE Held(u, m)
      BY <1>2, <1>3, <3>2 DEF Grows
    <3>3. CASE u \in run[r].todo
      BY <1>2, <3>3 DEF Held
    <3>4. QED
      BY <3>1, <3>2, <3>3
  <2>2. QED
    BY <2>1
<1>6. \A u \in Uids : run[r].mod # 0 \/ u \in run'[r].met => Shown(u, m)'
  <2>1. ASSUME NEW u \in Uids, run[r].mod # 0 \/ u \in run'[r].met PROVE Shown(u, m)'
    <3>1. CASE run[r].mod # 0 \/ u \in run[r].met
      <4>1. Shown(u, m)
        BY <1>2, <3>1 DEF RunPassTells
      <4>2. QED
        BY <1>2, <1>3, <4>1 DEF Grows
    <3>2. CASE ~(run[r].mod # 0 \/ u \in run[r].met)
      BY <1>2, <2>1, <3>2 DEF Shown
    <3>3. QED
      BY <3>1, <3>2
  <2>2. QED
    BY <2>1
<1>7. QED
  BY <1>2, <1>4, <1>5, <1>6 DEF RunPassTells, Held, Shown

\* Reconciling.
LEMMA LateKeeps ==
  ASSUME MailboxInv, NEW r \in Runs, Reconcile(r) \/ FullScanFails(r) \/ Sweep(r), set' = set
  PROVE  MailboxInv'
<1>1. TypeOK /\ RowsInv /\ DbInv /\ RunInv(r)
  BY DEF MailboxInv
<1>2. PICK w, x : w = run[r] /\ x = run'[r]
  OBVIOUS
<1>3. /\ w = run[r] /\ x = run'[r] /\ w \in Closures /\ x \in Closures
      /\ run' \in [Runs -> Closures] /\ Apart(r)
      /\ w.pc \in {"reconcile", "sweep"} /\ x.pc \in {"sweep", "save", "refresh"}
      /\ x.seen = w.seen /\ x.mod = w.mod /\ x.era = w.era /\ x.oMod = w.oMod
      /\ x.oEra = w.oEra /\ x.todo = w.todo /\ x.had = w.had /\ x.met = w.met
      /\ x.chg = w.chg /\ x.lost = w.lost
  BY <1>1, <1>2, LateIs DEF TypeOK
<1>4. UNCHANGED server /\ db' = db /\ faults' \in Nat
  BY <1>1 DEF Reconcile, FullScanFails, Sweep, Fails, TypeOK
<1>5. /\ owed \subseteq owed' /\ owed' \subseteq Uids /\ rows' \subseteq rows
      /\ \A u \in rows' : rowFlag'[u] = rowFlag[u] /\ rowEra'[u] = rowEra[u]
      /\ \A u \in rows \cap present : u \in rows' \/ u \in owed'
      /\ RowsOK'
  <2>1. CASE Reconcile(r) \/ FullScanFails(r)
    <3>1. UNCHANGED mailVars /\ owed' = owed /\ rows' = rows /\ rowFlag' = rowFlag /\ rowEra' = rowEra
      BY <2>1 DEF Reconcile, FullScanFails, mailVars
    <3>2. QED
      BY <1>1, <3>1, MailSame DEF TypeOK, RowsOK
  <2>2. CASE Sweep(r)
    <3>1. PICK start : start = MinusWindow(Larger(run[r].high, run[r].seen), Recent)
      OBVIOUS
    <3>2. PICK stale : stale = {u \in rows \ run[r].remote : run[r].full \/ u >= start}
      OBVIOUS
    <3>3. /\ rows' = rows \ stale /\ bare' = bare \ stale
          /\ rowFlag' = [u \in Uids |-> u \notin stale /\ rowFlag[u]]
          /\ rowEra' = [u \in Uids |-> IF u \in stale THEN 0 ELSE rowEra[u]]
          /\ owed' = owed \cup (stale \cap present)
      BY <2>2, <3>1, <3>2 DEF Sweep
    <3>4. /\ rows \subseteq Uids /\ rowFlag \in [Uids -> BOOLEAN] /\ rowEra \in [Uids -> 0..2]
          /\ bare \subseteq Uids /\ owed \subseteq Uids /\ present \subseteq Uids
      BY <1>1 DEF TypeOK, RowsOK, ServerOK
    <3>5. rowFlag' \in [Uids -> BOOLEAN]
      BY <3>3
    <3>6. rowEra' \in [Uids -> 0..2]
      BY <3>3, <3>4
    <3>7. rows' \subseteq rows /\ bare' \subseteq Uids /\ owed' \subseteq Uids /\ owed \subseteq owed'
      BY <3>3, <3>4
    <3>8. \A u \in rows' : (rowFlag'[u] <=> rowFlag[u]) /\ rowEra'[u] = rowEra[u]
      BY <3>3, <3>4
    <3>9. \A u \in rows' : rowFlag'[u] \in BOOLEAN /\ rowFlag[u] \in BOOLEAN
      BY <3>3, <3>4, <3>5
    <3>10. \A u \in rows' : rowFlag'[u] = rowFlag[u]
      BY <3>8, <3>9
    <3>11. \A u \in rows \cap present : u \in rows' \/ u \in owed'
      BY <3>3
    <3>12. RowsOK'
      BY <3>4, <3>5, <3>6, <3>7 DEF RowsOK
    <3>13. QED
      BY <3>7, <3>8, <3>10, <3>11, <3>12
  <2>3. QED
    BY <2>1, <2>2
<1>6. Grows
  BY <1>1, <1>4, <1>5, DeleteGrows
<1>7. era' = era /\ set' = set
  BY <1>6 DEF Grows
<1>8. /\ (Fetching(r)' <=> Fetching(r)) /\ (Current(r)' <=> Current(r))
      /\ ~Early(r) /\ ~Early(r)' /\ w.todo = {} /\ x.todo = {}
  <2>1. w.todo = {}
    BY <1>1, <1>3 DEF RunInv, RunTodo
  <2>2. Fetching(r)' <=> Fetching(r)
    BY <1>3, <1>7 DEF Fetching, Outside
  <2>3. Current(r)' <=> Current(r)
    BY <1>3, <1>7, <2>2 DEF Current
  <2>4. ~Early(r) /\ ~Early(r)'
    BY <1>3 DEF Early, Outside
  <2>5. QED
    BY <1>3, <2>1, <2>2, <2>3, <2>4
<1>9. Noticed' => Noticed
  BY <1>3, <1>4, <1>7, <1>8, CurrentIsNoticed, NoticedBefore
<1>10. RowsInv' /\ DbInv'
  BY <1>1, <1>4, <1>5, <1>6, <1>9, RowsKept, DbSame
<1>11. ServerOK' /\ db' \in StateRows /\ DbGoesOn
  BY <1>1, <1>4, ServerSame DEF TypeOK, DbGoesOn
<1>12. RunMods(r)' /\ RunEras(r)' /\ RunTodo(r)'
  BY <1>1, <1>3, <1>4, <1>7, <1>8 DEF RunInv, RunMods, RunEras, RunTodo, Outside
<1>13. RunHad(r)'
  BY <1>1, <1>3, <1>6, <1>8, HadSame DEF RunInv
<1>14. RunModTells(r)'
  BY <1>1, <1>3, <1>6, <1>8, ModTellsOn DEF RunInv, RunModTells
<1>15. RunSeenTells(r)'
  BY <1>1, <1>3, <1>6, <1>8, SeenTellsOn DEF RunInv, RunSeenTells
<1>16. RunPassTells(r)'
  BY <1>1, <1>3, <1>6, <1>8, PassTellsOn DEF RunInv, RunPassTells
<1>17. QED
  BY <1>3, <1>4, <1>5, <1>6, <1>10, <1>11, <1>12, <1>13, <1>14, <1>15, <1>16, Compose DEF RunInv

\* New messages are searched for: what is above the watermark is to be fetched.
LEMMA NewRangeKeeps ==
  ASSUME MailboxInv, NEW r \in Runs, NewRange(r), set' = set
  PROVE  MailboxInv'
<1>1. TypeOK /\ RowsInv /\ DbInv /\ RunInv(r)
  BY DEF MailboxInv
<1>2. PICK w, x, n : w = run[r] /\ x = run'[r] /\ n = run[r].seen + 1
  OBVIOUS
<1>3. /\ UNCHANGED server /\ UNCHANGED mailVars /\ db' = db /\ faults' = faults /\ owed' = owed
      /\ rows' = rows /\ rowFlag' = rowFlag /\ rowEra' = rowEra /\ w = run[r]
      /\ w.pc = "range" /\ ~w.lost
  BY <1>2 DEF NewRange, mailVars
<1>4. Fetching(r) /\ Current(r) /\ Noticed
  BY <1>1, <1>3, FetchesNow DEF Outside
<1>5. /\ x = run'[r] /\ w \in Closures /\ x \in Closures
      /\ run' \in [Runs -> Closures] /\ Apart(r)
      /\ x.pc = "source"
      /\ x.seen = w.seen /\ x.mod = w.mod /\ x.era = w.era /\ x.oMod = w.oMod
      /\ x.oEra = w.oEra /\ x.todo = From(n) /\ x.had = w.had /\ x.met = w.met
      /\ x.chg = w.chg /\ x.lost = w.lost
  BY <1>1, <1>2, NewRangeIs DEF TypeOK
<1>6. /\ present' = present /\ next' = next /\ mod' = mod /\ era' = era
      /\ next \in Nat /\ \A u \in present : u < next /\ u \in Nat /\ u \in Uids
  BY <1>1, <1>3, UidsAreNat DEF server, TypeOK, ServerOK
<1>7. Grows
  BY <1>1, <1>3, QuietGrows
<1>8. Fetching(r)' /\ Current(r)' /\ ~Early(r)'
  <2>1. w.oEra = era
    BY <1>3, <1>4 DEF Fetching
  <2>2. x.pc \notin Outside /\ x.pc # "changed" /\ x.pc # "range" /\ x.oEra = era' /\ x = run'[r]
    BY <1>5, <1>6, <2>1 DEF Outside
  <2>3. ~Early(r)' /\ Fetching(r)' /\ x.pc # "off"
    BY <2>2 DEF Early, Fetching, Outside
  <2>4. Current(r)'
    BY <2>2, <2>3 DEF Current
  <2>5. QED
    BY <2>3, <2>4
<1>9. RowsInv' /\ DbInv'
  BY <1>1, <1>3, <1>4, <1>7, RowsKept, DbSame
<1>10. ServerOK' /\ RowsOK' /\ db' \in StateRows /\ DbGoesOn /\ faults' \in Nat
  BY <1>1, <1>3, ServerSame, MailSame DEF TypeOK, RowsOK, DbGoesOn
<1>11. RunMods(r)' /\ RunEras(r)'
  BY <1>1, <1>3, <1>5, <1>6, <1>8 DEF RunInv, RunMods, RunEras, Outside
<1>12. /\ w.todo = {} /\ (Early(r) => w.mod = 0 /\ w.met = {})
       /\ \A v \in Uids : v <= w.seen => Given(v)' /\ Accounted(v)'
  <2>1. w.todo = {} /\ (Early(r) => w.mod = 0 /\ w.met = {})
    BY <1>1, <1>3 DEF RunInv, RunTodo, RunMods, Early, Outside
  <2>2. \A v \in Uids : v <= w.seen => Given(v)' /\ Accounted(v)'
    BY <1>1, <1>3, <1>4, <1>7, <2>1, SeenTellsOn DEF RunInv
  <2>3. QED
    BY <2>1, <2>2
<1>13. From(n) \subseteq present /\ w.seen \in Nat
       /\ \A v \in present : v > w.seen => v \in From(n)
  <2>1. w.seen \in Nat /\ n = w.seen + 1
    BY <1>2, <1>5 DEF Closures
  <2>2. \A v \in present : v > w.seen => v >= n
    BY <1>6, <2>1
  <2>3. QED
    BY <1>1, <2>1, <2>2, FromIs DEF From
<1>14. RunTodo(r)'
  <2>1. ASSUME NEW u \in From(n), NEW v \in Uids, v < u PROVE Accounted(v)' \/ v \in From(n)
    <3>1. v \in Nat /\ u \in Nat /\ u < next
      BY <1>6, <1>13, UidsAreNat
    <3>2. CASE v \notin present
      BY <1>6, <2>1, <3>1, <3>2 DEF Accounted
    <3>3. CASE v \in present
      BY <1>12, <1>13, <3>1, <3>3
    <3>4. QED
      BY <3>2, <3>3
  <2>2. \A u \in From(n) : u < next'
    BY <1>6, <1>13
  <2>3. QED
    BY <1>5, <2>1, <2>2 DEF RunTodo
<1>15. RunHad(r)'
  BY <1>1, <1>3, <1>4, <1>5, <1>7, HadSame DEF RunInv
<1>16. RunModTells(r)'
  BY <1>1, <1>3, <1>4, <1>5, <1>7, ModTellsOn DEF RunInv
<1>17. RunSeenTells(r)'
  BY <1>5, <1>12 DEF RunSeenTells
<1>18. RunPassTells(r)'
  <2>1. CASE ~Early(r)
    <3>1. \A u \in w.todo : u \in x.todo \/ Held(u, w.oMod)'
      BY <1>12
    <3>2. QED
      BY <1>1, <1>3, <1>4, <1>5, <1>7, <2>1, <3>1, PassTellsOn DEF RunInv
  <2>2. CASE Early(r)
    <3>1. w.oMod <= mod'
      BY <1>1, <1>3, <1>4, <1>6 DEF RunInv, RunPassTells
    <3>2. ASSUME NEW u \in Uids PROVE Held(u, w.oMod)' \/ u \in From(n)
      <4>1. CASE u \in present
        <5>1. u \in From(n) \/ Accounted(u)'
          BY <1>6, <1>12, <1>13, <4>1
        <5>2. QED
          BY <1>6, <4>1, <5>1 DEF Accounted, Held
      <4>2. CASE u \notin present
        BY <1>6, <4>2 DEF Held
      <4>3. QED
        BY <4>1, <4>2
    <3>3. x.mod = 0 /\ x.met = {}
      BY <1>5, <1>12, <2>2
    <3>4. QED
      BY <1>5, <3>1, <3>2, <3>3 DEF RunPassTells, Held
  <2>3. QED
    BY <2>1, <2>2
<1>19. QED
  BY <1>5, <1>7, <1>9, <1>10, <1>11, <1>14, <1>15, <1>16, <1>17, <1>18, Compose DEF RunInv

\* The sources of a list are stored.
LEMMA SourcePassKeeps ==
  ASSUME MailboxInv, NEW r \in Runs, SourcePass(r), set' = set
  PROVE  MailboxInv'
<1>1. TypeOK /\ RowsInv /\ DbInv /\ RunInv(r)
  BY DEF MailboxInv
<1>2. PICK w, x, S : w = run[r] /\ x = run'[r] /\ S = run[r].todo \cap present
  OBVIOUS
<1>3. /\ w = run[r] /\ S = w.todo \cap present
      /\ w.pc = "source" /\ (~w.lost \/ w.todo = {}) /\ Store(r, S)
      /\ db' = (IF w.todo = {} THEN db ELSE Written(r, S, MaxUid))
      /\ owed' = owed \ {u \in S \cap rows' : rowEra'[u] = era}
      /\ UNCHANGED server /\ faults' = faults
  BY <1>2 DEF SourcePass
<1>4. /\ x = run'[r] /\ w \in Closures /\ x \in Closures
      /\ run' \in [Runs -> Closures] /\ Apart(r)
      /\ x.pc \in {"reconcile", "tail", "save"} /\ x.seen = Seen(r, S)
      /\ x.mod = w.mod /\ x.era = w.era /\ x.oMod = w.oMod /\ x.oEra = w.oEra
      /\ x.todo = {} /\ x.had = w.had \cup S /\ x.met = w.met \cup S
      /\ x.chg = w.chg /\ x.lost = w.lost
  BY <1>1, <1>2, SourcePassIs DEF TypeOK
<1>5. /\ present' = present /\ next' = next /\ era' = era /\ flag' = flag /\ next \in Nat
      /\ S \subseteq present /\ S \subseteq Uids /\ w.todo \subseteq Uids
      /\ \A u \in present : u < next /\ u \in Nat
  BY <1>1, <1>3, <1>4, UidsAreNat DEF server, TypeOK, ServerOK, Closures
<1>6. w.todo # {} => Fetching(r) /\ Current(r) /\ Noticed
  BY <1>1, <1>3, FetchesNow DEF Outside
<1>7. S # {} => Fetching(r)
  BY <1>3, <1>6
<1>8. \A u \in owed : u \in owed' \/ (u \in S /\ u \in rows' /\ rowEra'[u] = era)
  BY <1>3
<1>9. /\ Grows
      /\ rows' \subseteq Uids /\ rowFlag' \in [Uids -> BOOLEAN]
      /\ rowEra' \in [Uids -> 0..2] /\ bare' \subseteq Uids
      /\ rows \subseteq rows' /\ (\A u \in S : u \in rows' \/ u \in run[r].had)
      /\ (\A u \in S : u \in rows' => rowFlag'[u] = flag[u])
      /\ \A u \in rows' : (u \in rows /\ rowEra'[u] = rowEra[u])
                            \/ (u \in S /\ rowEra'[u] = run[r].oEra)
  BY <1>1, <1>3, <1>5, <1>8, StoreIs
<1>10. /\ (Fetching(r)' <=> Fetching(r)) /\ (Current(r)' <=> Current(r))
       /\ ~Early(r) /\ ~Early(r)'
  <2>1. Fetching(r)' <=> Fetching(r)
    BY <1>3, <1>4, <1>5 DEF Fetching, Outside
  <2>2. Current(r)' <=> Current(r)
    BY <1>3, <1>4, <1>5, <2>1 DEF Current
  <2>3. ~Early(r) /\ ~Early(r)'
    BY <1>3, <1>4 DEF Early, Outside
  <2>4. QED
    BY <2>1, <2>2, <2>3
<1>11. db' \in StateRows /\ db'.mod = db.mod /\ db'.era = db.era
       /\ (w.todo = {} => db'.seen = db.seen)
       /\ (w.todo # {} => db'.seen = w.seen \/ db'.seen \in S)
  <2>1. CASE w.todo = {}
    <3>1. db' = db
      BY <1>3, <2>1
    <3>2. QED
      BY <1>1, <2>1, <3>1 DEF TypeOK
  <2>2. CASE w.todo # {}
    <3>1. MaxUid \in Nat /\ db' = Written(r, S, MaxUid)
      BY <1>3, <2>2, MailboxAssumption
    <3>2. QED
      BY <1>1, <1>3, <1>5, <2>2, <3>1, WrittenIs
  <2>3. QED
    BY <2>1, <2>2
<1>12. Noticed' => Noticed
  BY <1>4, <1>5, <1>10, <1>11, CurrentIsNoticed, NoticedBefore
<1>13. RowsInv' /\ \A u \in S : Accounted(u)'
  <2>1. \A u \in S, v \in w.todo : v \in present /\ v < u => v \in S
    BY <1>3
  <2>2. RunEras(r) /\ RunTodo(r) /\ RunHad(r) /\ S \subseteq run[r].todo \cap present
    BY <1>1, <1>3 DEF RunInv
  <2>3. QED
    BY <1>1, <1>3, <1>7, <1>8, <1>9, <1>12, <2>1, <2>2, StoreRows
\* All that was to be fetched is accounted for, and all below it.
<1>14. \A u \in w.todo : Accounted(u)'
  <2>1. ASSUME NEW u \in w.todo, u \notin present PROVE Accounted(u)'
    <3>1. u < next
      BY <1>1, <1>3, <1>6, <2>1 DEF RunInv, RunTodo
    <3>2. QED
      BY <1>5, <2>1, <3>1 DEF Accounted
  <2>2. QED
    BY <1>3, <1>13, <2>1
<1>15. \A u \in w.todo, v \in Uids : v <= u => Accounted(v)'
  <2>1. ASSUME NEW u \in w.todo, NEW v \in Uids, v <= u PROVE Accounted(v)'
    <3>1. u \in Nat /\ v \in Nat
      BY <1>5, UidsAreNat
    <3>2. CASE v = u
      BY <1>14, <3>2
    <3>3. CASE v # u
      <4>1. v < u
        BY <2>1, <3>1, <3>3
      <4>2. Accounted(v) \/ v \in w.todo
        BY <1>1, <1>3, <1>6, <4>1 DEF RunInv, RunTodo
      <4>3. QED
        BY <1>6, <1>9, <1>14, <4>2 DEF Grows
    <3>4. QED
      BY <3>2, <3>3
  <2>2. QED
    BY <2>1
<1>16. ASSUME Current(r), NEW v \in Uids, v <= w.seen PROVE Given(v)' /\ Accounted(v)'
  BY <1>1, <1>3, <1>9, <1>10, <1>14, <1>16, SeenTellsOn DEF RunInv
<1>17. DbInv' /\ DbGoesOn
  <2>1. CASE w.todo = {}
    BY <1>1, <1>9, <1>11, <2>1, DbSame DEF DbGoesOn
  <2>2. CASE w.todo # {}
    <3>1. ASSUME NEW v \in Uids, v <= db'.seen PROVE Given(v)' /\ Accounted(v)'
      <4>1. CASE db'.seen = w.seen
        BY <1>6, <1>16, <2>2, <3>1, <4>1
      <4>2. CASE db'.seen \in S
        <5>1. Accounted(v)'
          BY <1>3, <1>15, <3>1, <4>2
        <5>2. QED
          BY <5>1 DEF Accounted, Given
      <4>3. QED
        BY <1>11, <2>2, <4>1, <4>2
    <3>2. QED
      BY <1>1, <1>9, <1>11, <3>1, DbKept DEF DbGoesOn
  <2>3. QED
    BY <2>1, <2>2
<1>18. ServerOK' /\ RowsOK' /\ faults' \in Nat
  BY <1>1, <1>3, <1>9, ServerSame DEF TypeOK, RowsOK
<1>19. /\ x.seen \in Nat /\ w.seen \in Nat /\ w.seen <= x.seen /\ (\A u \in S : u <= x.seen)
       /\ (x.seen = w.seen \/ x.seen \in S)
  BY <1>1, <1>3, <1>4, <1>5, SeenIs DEF Closures
<1>20. RunMods(r)' /\ RunEras(r)' /\ RunTodo(r)'
  <2>1. set' = set
    OBVIOUS
  <2>2. QED
    BY <1>1, <1>3, <1>4, <1>5, <1>11, <2>1 DEF RunInv, RunMods, RunEras, RunTodo, Outside
<1>21. RunHad(r)'
  BY <1>1, <1>3, <1>4, <1>9, <1>10, <1>13, <1>19, HadOn DEF RunInv
<1>22. RunModTells(r)'
  BY <1>1, <1>3, <1>4, <1>9, <1>10, ModTellsOn DEF RunInv, RunModTells
<1>23. RunSeenTells(r)'
  <2>1. ASSUME Current(r), NEW v \in Uids, v <= x.seen PROVE Given(v)' /\ Accounted(v)'
    <3>1. CASE x.seen = w.seen
      BY <1>16, <2>1, <3>1
    <3>2. CASE x.seen \in S
      <4>1. Accounted(v)'
        BY <1>3, <1>15, <2>1, <3>2
      <4>2. QED
        BY <4>1 DEF Accounted, Given
    <3>3. QED
      BY <1>19, <3>1, <3>2
  <2>2. QED
    BY <1>4, <1>10, <2>1 DEF RunSeenTells
<1>24. RunPassTells(r)'
  <2>1. CASE Fetching(r)
    <3>1. \A u \in w.todo : Held(u, w.oMod)'
      BY <1>14 DEF Accounted, Held
    <3>2. \A u \in x.met : u \in w.met \/ Shown(u, w.oMod)'
      BY <1>4, <1>5, <1>9 DEF Shown
    <3>3. QED
      BY <1>1, <1>3, <1>4, <1>9, <1>10, <2>1, <3>1, <3>2, PassTellsOn DEF RunInv
  <2>2. CASE ~Fetching(r)
    BY <1>10, <2>2 DEF RunPassTells
  <2>3. QED
    BY <2>1, <2>2
<1>25. QED
  BY <1>4, <1>9, <1>11, <1>13, <1>17, <1>18, <1>20, <1>21, <1>22, <1>23, <1>24, Compose DEF RunInv

\* The uid a failed pass stopped at is one of its list.
LEMMA NextIs ==
  ASSUME TypeOK, NEW S, S \subseteq present, NEW P, P \subseteq S
  PROVE  NextOf(S, P) \subseteq S
<1>1. CASE S = P
  BY <1>1 DEF NextOf
<1>2. CASE S # P
  <2>1. S \ P \subseteq Nat /\ S \ P # {}
    BY <1>2, UidsAreNat DEF TypeOK, ServerOK
  <2>2. \E x \in S \ P : \A y \in S \ P : x <= y
    BY <2>1, HasLeast
  <2>3. QED
    BY <1>2, <2>2 DEF NextOf
<1>3. QED
  BY <1>1, <1>2

\* How far a pass has seen that failed after P, at the next uid or before it.
LEMMA FailedSeen ==
  ASSUME TypeOK, NEW r \in Runs, NEW S, S \subseteq present, NEW P, P \subseteq S,
         NEW Q, Q = P \/ Q = P \cup NextOf(S, P)
  PROVE  \E s \in Nat : /\ s = Seen(r, Q) /\ run[r].seen <= s
                        /\ (\A u \in P : u <= s) /\ (s = run[r].seen \/ s \in S)
<1>1. P \subseteq Q /\ Q \subseteq S /\ Q \subseteq Uids
  BY NextIs DEF TypeOK, ServerOK
<1>2. QED
  BY <1>1, SeenIs

\* A changed-since pass that fails on a query, and is swallowed.
LEMMA SwallowKeeps ==
  ASSUME TypeOK, NEW r \in Runs, RunInv(r), Grows, UNCHANGED server, DbGoesOn,
         NEW s \in Nat, NEW k \in SUBSET Uids, NEW left, Swallow(r, s, k, left),
         run[r].pc \notin Outside, ~run[r].lost, run[r].seen <= s,
         \A u \in k : u <= s /\ Accounted(u)',
         \A v \in Uids : v <= s => Accounted(v)', RunPassTells(r)'
  PROVE  RunInv(r)'
<1>1. PICK w, x : w = run[r] /\ x = run'[r]
  OBVIOUS
<1>2. /\ w = run[r] /\ x = run'[r] /\ w \in Closures
      /\ x.pc = "range" /\ x.seen = s /\ x.mod = w.mod /\ x.era = w.era
      /\ x.oMod = w.oMod /\ x.oEra = w.oEra /\ x.todo = {}
      /\ x.had = w.had \cup k /\ x.met = w.met /\ x.chg = TRUE /\ x.lost = w.lost
  BY <1>1, SwallowIs DEF TypeOK
<1>3. mod' = mod /\ era' = era /\ set' = set
  BY DEF server, Grows
<1>4. Fetching(r) /\ Current(r)
  BY FetchesNow
<1>5. ~Early(r)'
  BY <1>2 DEF Early, Outside
<1>6. RunMods(r)' /\ RunEras(r)' /\ RunTodo(r)'
  BY <1>2, <1>3 DEF RunInv, RunMods, RunEras, RunTodo, DbGoesOn, Outside
<1>7. RunHad(r)'
  BY <1>2, <1>4, HadOn DEF RunInv
<1>8. RunModTells(r)'
  BY <1>2, <1>4, ModTellsOn DEF RunInv
<1>9. RunSeenTells(r)'
  BY <1>2 DEF RunSeenTells, Accounted, Given
<1>10. QED
  BY <1>6, <1>7, <1>8, <1>9 DEF RunInv

\* A metadata pass fails after some of its list: tried again, given up or swallowed.
LEMMA MetadataFailsKeeps ==
  ASSUME MailboxInv, NEW r \in Runs, NEW kind, MetadataFails(r, kind), set' = set
  PROVE  MailboxInv'
<1>1. TypeOK /\ RowsInv /\ DbInv /\ RunInv(r)
  BY DEF MailboxInv
<1>2. PICK w, S : w = run[r] /\ S = Listed(r)
  OBVIOUS
<1>3. PICK P \in Prefixes(S) \ {S} :
        LET seen == Seen(r, IF kind = "db" THEN P \cup NextOf(S, P) ELSE P)
        IN  /\ Metadata(r, P)
            /\ IF run[r].pc = "changed" /\ kind = "db"
                 THEN Swallow(r, seen, Known(r, P), (S \ P) \cup Wanted(r, P))
                 ELSE Again(r, seen, Known(r, P))
            /\ Progress(r, P, Changed(r, P))
  BY <1>2 DEF MetadataFails
<1>4. /\ S \subseteq present /\ present \subseteq Uids /\ P \subseteq S /\ P \subseteq Uids
      /\ w \in Closures /\ w = run[r] /\ w.pc \in {"changed", "tail", "refresh"} /\ ~w.lost
  <2>1. w = run[r] /\ w.pc \in {"changed", "tail", "refresh"} /\ ~w.lost
    BY <1>2 DEF MetadataFails
  <2>2. S \subseteq present /\ present \subseteq Uids /\ w \in Closures
    BY <1>1, <1>2, <2>1, ListedIs DEF TypeOK, ServerOK
  <2>3. P \subseteq S
    BY <1>3 DEF Prefixes
  <2>4. QED
    BY <2>1, <2>2, <2>3
<1>5. PICK Q : Q = (IF kind = "db" THEN P \cup NextOf(S, P) ELSE P)
  OBVIOUS
<1>5a. PICK s \in Nat : /\ s = Seen(r, Q) /\ run[r].seen <= s
                        /\ (\A u \in P : u <= s) /\ (s = run[r].seen \/ s \in S)
  BY <1>1, <1>4, <1>5, FailedSeen
<1>6. PICK k \in SUBSET Uids : k = Known(r, P)
  BY <1>4 DEF Known
<1>7. PICK left \in SUBSET Uids : left = (S \ P) \cup Wanted(r, P)
  BY <1>4 DEF Wanted
<1>8. /\ Metadata(r, P) /\ Progress(r, P, Changed(r, P))
      /\ UNCHANGED server /\ rows' = rows /\ rowEra' = rowEra /\ bare' = bare /\ faults' \in Nat
      /\ (w.pc = "changed" /\ Swallow(r, s, k, left)) \/ Again(r, s, k)
  <2>1. faults' \in Nat
    BY <1>1 DEF MetadataFails, Fails, TypeOK
  <2>2. QED
    BY <1>2, <1>3, <1>5, <1>5a, <1>6, <1>7, <2>1 DEF MetadataFails
<1>8a. Fetching(r) /\ Current(r) /\ Noticed
  BY <1>1, <1>4, FetchesNow DEF Outside
<1>9. run' \in [Runs -> Closures] /\ Apart(r) /\ owed \subseteq owed' /\ owed' \subseteq Uids
  <2>1. owed \subseteq Uids
    BY <1>1 DEF TypeOK, RowsOK
  <2>2. CASE Again(r, s, k)
    <3>1. Owes(r, s, k) \subseteq Uids
      BY <1>4 DEF Owes
    <3>2. run' \in [Runs -> Closures] /\ Apart(r) /\ owed' = owed \cup Owes(r, s, k)
      BY <1>1, <2>2, AgainIs
    <3>3. QED
      BY <2>1, <3>1, <3>2
  <2>3. CASE Swallow(r, s, k, left)
    <3>1. run' \in [Runs -> Closures] /\ Apart(r) /\ owed' = owed \cup left
      BY <1>1, <2>3, SwallowIs
    <3>2. QED
      BY <2>1, <3>1
  <2>4. QED
    BY <1>8, <2>2, <2>3
<1>10. Grows /\ \A u \in P \cap rows : rowFlag'[u] = flag[u]
  BY <1>1, <1>4, <1>8, <1>9, MetadataGrows
<1>11. RowsInv'
  BY <1>1, <1>8, <1>8a, <1>9, <1>10, RowsKept
<1>12. ServerOK' /\ RowsOK'
  BY <1>1, <1>8, <1>9, ServerSame, MetadataType DEF TypeOK, RowsOK
<1>13. DbInv' /\ db' \in StateRows /\ DbGoesOn
  <2>1. P \subseteq present
    BY <1>4
  <2>2. QED
    BY <1>1, <1>4, <1>8, <1>8a, <1>10, <2>1, MetadataProgress
<1>14. \A u \in k : u <= s /\ Accounted(u)'
  <2>1. \A u \in k : (u \in w.had \/ u \in rows) /\ u \in P /\ u \in Uids
    BY <1>4, <1>6 DEF Known
  <2>2. \A u \in w.had : u \in Uids /\ Accounted(u)
    BY <1>1, <1>4, <1>8a DEF RunInv, RunHad, Closures
  <2>3. QED
    BY <1>5a, <1>8, <1>8a, <1>10, <2>1, <2>2 DEF Grows, Accounted
<1>15. RunInv(r)'
  <2>1. CASE Again(r, s, k)
    <3>1. (s = run[r].seen \/ s \in present) /\ run[r].pc # "off" /\ rows \subseteq rows'
      BY <1>4, <1>5a, <1>8
    <3>2. QED
      BY <1>1, <1>5a, <1>8, <1>10, <1>12, <1>13, <1>14, <2>1, <3>1, AgainKeeps
  <2>2. CASE w.pc = "changed" /\ Swallow(r, s, k, left)
    <3>1. owed' = owed \cup left
      BY <1>1, <2>2, SwallowIs, ZenonT(60)
    <3>2. /\ present' = present /\ next' = next /\ flag' = flag /\ next \in Nat
          /\ \A u \in present : u < next /\ u \in Nat
      BY <1>1, <1>4, <1>8, UidsAreNat DEF server, TypeOK, ServerOK
    <3>3. w.mod # 0
      BY <1>1, <1>4, <2>2 DEF RunInv, RunMods
    <3>4. ASSUME NEW v \in present PROVE v \in rows \/ v \in owed'
      <4>1. CASE v \in P
        <5>1. v \in left \/ v \in k
          BY <1>6, <1>7, <4>1 DEF Wanted
        <5>2. QED
          BY <1>8, <1>14, <3>1, <3>2, <5>1 DEF Accounted
      <4>2. CASE v \in S \ P
        BY <1>7, <3>1, <4>2
      <4>3. CASE v \notin S
        BY <1>1, <1>2, <1>4, <1>8a, <1>9, <2>2, <4>3, ListLeavesOut
      <4>4. QED
        BY <4>1, <4>2, <4>3
    <3>5. ASSUME NEW v \in Uids, v <= s PROVE Accounted(v)'
      <4>1. CASE v \in present
        BY <1>8, <3>4, <4>1 DEF Accounted
      <4>2. CASE v \notin present
        <5>1. v \in Nat /\ w.seen \in Nat
          BY <1>4, UidsAreNat DEF Closures
        <5>2. CASE v <= w.seen
          <6>1. Given(v)'
            BY <1>1, <1>4, <1>8a, <1>10, <5>2, SeenTellsOn DEF RunInv
          <6>2. QED
            BY <3>2, <4>2, <6>1 DEF Given, Accounted
        <5>3. CASE ~(v <= w.seen)
          <6>1. s \in present
            BY <1>4, <1>5a, <3>5, <5>3
          <6>2. v < next
            BY <3>2, <3>5, <5>1, <6>1
          <6>3. QED
            BY <3>2, <4>2, <6>2 DEF Accounted
        <5>4. QED
          BY <5>2, <5>3
      <4>3. QED
        BY <4>1, <4>2
    <3>6. \A u \in Uids : Held(u, w.oMod)'
      BY <1>8, <3>2, <3>4 DEF Held
    <3>7. ASSUME NEW u \in Uids PROVE Shown(u, w.oMod)'
      <4>1. CASE u \in P
        BY <1>8, <1>10, <3>2, <4>1 DEF Shown
      <4>2. CASE u \in S \ P
        BY <1>7, <3>1, <4>2 DEF Shown
      <4>3. CASE u \notin S /\ u \in present
        <5>1. u \in rows => u \in owed \/ rowFlag[u] = flag[u]
          BY <1>1, <1>2, <1>4, <1>8a, <2>2, <4>3, ListLeavesOut
        <5>2. rowFlag'[u] = rowFlag[u]
          BY <1>4, <1>8, <4>3 DEF Metadata
        <5>3. QED
          BY <1>8, <1>9, <3>2, <5>1, <5>2 DEF Shown
      <4>4. CASE u \notin present
        BY <3>2, <4>4 DEF Shown
      <4>5. QED
        BY <4>1, <4>2, <4>3, <4>4
    <3>8. run[r].pc \notin Outside /\ ~run[r].lost /\ run[r].seen <= s /\ Swallow(r, s, k, left)
      BY <1>4, <1>5a, <2>2 DEF Outside
    <3>9. RunPassTells(r)'
      <4>1. run'[r].oMod = w.oMod
        BY <1>1, <1>4, <2>2, SwallowIs
      <4>2. w.oMod <= mod'
        BY <1>1, <1>4, <1>8, <1>8a DEF RunInv, RunPassTells, server
      <4>3. QED
        BY <3>6, <3>7, <4>1, <4>2 DEF RunPassTells, Held, Shown
    <3>10. QED
      BY <1>1, <1>8, <1>10, <1>13, <1>14, <3>5, <3>8, <3>9, SwallowKeeps
  <2>3. QED
    BY <1>8, <2>1, <2>2
<1>16. QED
  BY <1>8, <1>9, <1>10, <1>11, <1>12, <1>13, <1>15, Compose

\* A source pass fails after some of its list, at a message whose uid it has counted.
LEMMA SourceFailsKeeps ==
  ASSUME MailboxInv, NEW r \in Runs, NEW kind, SourceFails(r, kind), set' = set
  PROVE  MailboxInv'
<1>1. TypeOK /\ RowsInv /\ DbInv /\ RunInv(r)
  BY DEF MailboxInv
<1>2. PICK w, S : w = run[r] /\ S = run[r].todo \cap present
  OBVIOUS
<1>3. PICK P \in Prefixes(S) \ {S} :
        LET seen == Seen(r, IF kind = "db" THEN P \cup NextOf(S, P) ELSE P)
        IN  /\ Store(r, P)
            /\ IF run[r].pass = "changed" /\ kind = "db"
                 THEN Swallow(r, seen, P, S \ P)
                 ELSE Again(r, seen, P)
            /\ Progress(r, P, P)
  BY <1>2 DEF SourceFails
<1>4. /\ S = w.todo \cap present /\ S \subseteq present /\ present \subseteq Uids
      /\ P \subseteq S /\ P \subseteq Uids /\ w.todo \subseteq Uids
      /\ w \in Closures /\ w = run[r] /\ w.pc = "source" /\ ~w.lost
      /\ \A u \in P, v \in S : v < u => v \in P
  <2>1. w = run[r] /\ w.pc = "source" /\ ~w.lost
    BY <1>2 DEF SourceFails
  <2>2. present \subseteq Uids /\ w \in Closures /\ w.todo \subseteq Uids
    BY <1>1, <1>2, <2>1 DEF TypeOK, ServerOK, Closures
  <2>3. P \subseteq S /\ \A u \in P, v \in S : v < u => v \in P
    BY <1>3 DEF Prefixes
  <2>4. QED
    BY <1>2, <2>1, <2>2, <2>3
<1>5. PICK Q : Q = (IF kind = "db" THEN P \cup NextOf(S, P) ELSE P)
  OBVIOUS
<1>6. PICK s \in Nat : /\ s = Seen(r, Q) /\ run[r].seen <= s
                       /\ (\A u \in P : u <= s) /\ (s = run[r].seen \/ s \in S)
  BY <1>1, <1>4, <1>5, FailedSeen
<1>7. PICK left \in SUBSET Uids : left = S \ P
  BY <1>4
<1>8. /\ Store(r, P) /\ Progress(r, P, P) /\ UNCHANGED server /\ faults' \in Nat
      /\ Swallow(r, s, P, left) \/ Again(r, s, P)
  <2>1. faults' \in Nat
    BY <1>1 DEF SourceFails, Fails, TypeOK
  <2>2. QED
    BY <1>3, <1>5, <1>6, <1>7, <2>1 DEF SourceFails
<1>9. Fetching(r) /\ Current(r) /\ Noticed /\ ~Early(r)
  <2>1. run[r].pc \notin Outside /\ ~Early(r)
    BY <1>4 DEF Outside, Early
  <2>2. QED
    BY <1>1, <1>4, <2>1, FetchesNow
<1>10. P \in SUBSET Uids /\ P \subseteq present
  BY <1>4
<1>11. run' \in [Runs -> Closures] /\ Apart(r) /\ owed \subseteq owed' /\ owed' \subseteq Uids
  <2>1. owed \subseteq Uids
    BY <1>1 DEF TypeOK, RowsOK
  <2>2. CASE Again(r, s, P)
    <3>1. Owes(r, s, P) \subseteq Uids
      BY <1>4 DEF Owes
    <3>2. run' \in [Runs -> Closures] /\ Apart(r) /\ owed' = owed \cup Owes(r, s, P)
      BY <1>1, <1>10, <2>2, AgainIs
    <3>3. QED
      BY <2>1, <3>1, <3>2
  <2>3. CASE Swallow(r, s, P, left)
    <3>1. run' \in [Runs -> Closures] /\ Apart(r) /\ owed' = owed \cup left
      BY <1>1, <1>10, <2>3, SwallowIs
    <3>2. QED
      BY <2>1, <3>1
  <2>4. QED
    BY <1>8, <2>2, <2>3
<1>12. \A u \in owed : u \in owed' \/ (u \in P /\ u \in rows' /\ rowEra'[u] = era)
  BY <1>11
<1>13. /\ Grows
       /\ rows' \subseteq Uids /\ rowFlag' \in [Uids -> BOOLEAN]
       /\ rowEra' \in [Uids -> 0..2] /\ bare' \subseteq Uids
       /\ rows \subseteq rows' /\ (\A u \in P : u \in rows' \/ u \in run[r].had)
       /\ (\A u \in P : u \in rows' => rowFlag'[u] = flag[u])
       /\ \A u \in rows' : (u \in rows /\ rowEra'[u] = rowEra[u])
                             \/ (u \in P /\ rowEra'[u] = run[r].oEra)
  BY <1>1, <1>8, <1>10, <1>12, StoreIs
<1>14. RowsInv' /\ \A u \in P : Accounted(u)'
  <2>1. \A u \in P, v \in run[r].todo : v \in present /\ v < u => v \in P
    BY <1>4
  <2>2. RunEras(r) /\ RunTodo(r) /\ RunHad(r) /\ P \subseteq run[r].todo \cap present
    BY <1>1, <1>4 DEF RunInv
  <2>3. QED
    BY <1>1, <1>8, <1>9, <1>12, <1>13, <2>1, <2>2, StoreRows
<1>15. /\ present' = present /\ next' = next /\ flag' = flag /\ era' = era /\ mod' = mod
       /\ next \in Nat /\ \A u \in present : u < next /\ u \in Nat
  BY <1>1, <1>4, <1>8, UidsAreNat DEF server, TypeOK, ServerOK
<1>16. \A u \in w.todo : u \in S \/ Accounted(u)'
  <2>1. \A u \in w.todo : u < next
    BY <1>1, <1>4, <1>9 DEF RunInv, RunTodo
  <2>2. QED
    BY <1>4, <1>15, <2>1 DEF Accounted
<1>17. \A u \in P, v \in Uids : v <= u => Accounted(v)'
  <2>1. ASSUME NEW u \in P, NEW v \in Uids, v <= u PROVE Accounted(v)'
    <3>1. u \in Nat /\ v \in Nat /\ u \in w.todo
      BY <1>4, UidsAreNat
    <3>2. CASE v = u
      BY <1>14, <3>2
    <3>3. CASE v # u
      <4>1. v < u
        BY <2>1, <3>1, <3>3
      <4>2. Accounted(v) \/ v \in w.todo
        BY <1>1, <1>4, <1>9, <3>1, <4>1 DEF RunInv, RunTodo
      <4>3. v \in S => Accounted(v)'
        BY <1>4, <1>14, <4>1
      <4>4. QED
        BY <1>9, <1>13, <1>16, <4>2, <4>3 DEF Grows
    <3>4. QED
      BY <3>2, <3>3
  <2>2. QED
    BY <2>1
\* What a run without a modseq counts as seen is accounted for, or owed now.
<1>18. w.mod = 0 => \A v \in Uids : v <= w.seen => Accounted(v)'
  <2>1. ASSUME w.mod = 0, NEW v \in Uids, v <= w.seen PROVE Accounted(v)'
    <3>1. Accounted(v)' \/ v \in w.todo
      BY <1>1, <1>4, <1>9, <1>13, <2>1, SeenTellsOn DEF RunInv
    <3>2. ASSUME v \in S PROVE Accounted(v)'
      <4>1. CASE v \in P
        BY <1>14, <4>1
      <4>2. CASE v \in rows
        BY <1>13, <4>2 DEF Accounted
      <4>3. CASE v \notin P /\ v \notin rows
        <5>1. v \in Nat /\ w.seen \in Nat /\ w.seen <= s
          BY <1>4, <1>6, UidsAreNat DEF Closures
        <5>2. v <= s /\ v \in present
          BY <1>4, <2>1, <3>2, <5>1
        <5>3. CASE Again(r, s, P)
          <6>1. owed' = owed \cup Owes(r, s, P)
            BY <1>1, <1>10, <5>3, AgainIs
          <6>2. v \in Owes(r, s, P)
            BY <1>4, <2>1, <4>3, <5>2 DEF Owes
          <6>3. QED
            BY <6>1, <6>2 DEF Accounted
        <5>4. CASE Swallow(r, s, P, left)
          <6>1. owed' = owed \cup left
            BY <1>1, <1>10, <5>4, SwallowIs
          <6>2. QED
            BY <1>7, <3>2, <4>3, <6>1 DEF Accounted
        <5>5. QED
          BY <1>8, <5>3, <5>4
      <4>4. QED
        BY <4>1, <4>2, <4>3
    <3>3. QED
      BY <1>16, <3>1, <3>2
  <2>2. QED
    BY <2>1
<1>19. DbInv' /\ db' \in StateRows /\ DbGoesOn
  <2>1. db.mod = 0 => w.mod = 0
    BY <1>1, <1>4 DEF RunInv, RunMods
  <2>2. db.mod = 0 => \A v \in Uids : v <= run[r].seen => Accounted(v)'
    BY <1>4, <1>18, <2>1
  <2>3. RunSeenTells(r)
    BY <1>1 DEF RunInv
  <2>4. QED
    BY <1>1, <1>8, <1>9, <1>10, <1>13, <1>17, <2>2, <2>3, ProgressKeeps
<1>20. ServerOK' /\ RowsOK'
  BY <1>1, <1>8, <1>11, <1>13, ServerSame DEF RowsOK
<1>21. RunInv(r)'
  <2>1. \A u \in P : u <= s /\ Accounted(u)'
    BY <1>6, <1>14
  <2>2. CASE Again(r, s, P)
    <3>1. (s = run[r].seen \/ s \in present) /\ run[r].pc # "off" /\ run[r].seen <= s
      BY <1>4, <1>6
    <3>2. QED
      BY <1>1, <1>8, <1>10, <1>13, <1>19, <1>20, <2>1, <2>2, <3>1, AgainKeeps
  <2>3. CASE Swallow(r, s, P, left)
    <3>1. /\ owed' = owed \cup left /\ run'[r].oMod = w.oMod
          /\ run'[r].met = w.met /\ run'[r].mod = w.mod
      BY <1>1, <1>4, <1>10, <2>3, SwallowIs, ZenonT(60)
    <3>2. \A u \in w.todo : Accounted(u)'
      BY <1>7, <1>14, <1>16, <3>1 DEF Accounted
    <3>3. ASSUME NEW v \in Uids, v <= s PROVE Accounted(v)'
      <4>1. v \in Nat /\ w.seen \in Nat
        BY <1>4, UidsAreNat DEF Closures
      <4>2. CASE v <= w.seen
        BY <1>1, <1>4, <1>9, <1>13, <3>2, <4>2, SeenTellsOn DEF RunInv
      <4>3. CASE s \in S
        <5>1. s \in w.todo
          BY <1>4, <4>3
        <5>2. CASE v = s
          BY <3>2, <5>1, <5>2
        <5>3. CASE v # s
          <6>1. v < s
            BY <3>3, <4>1, <5>3
          <6>2. Accounted(v) \/ v \in w.todo
            BY <1>1, <1>4, <1>9, <5>1, <6>1 DEF RunInv, RunTodo
          <6>3. QED
            BY <1>9, <1>13, <3>2, <6>2 DEF Grows
        <5>4. QED
          BY <5>2, <5>3
      <4>4. QED
        BY <1>4, <1>6, <3>3, <4>2, <4>3
    <3>4. RunPassTells(r)'
      <4>1. \A u \in run[r].todo : Held(u, run[r].oMod)'
        BY <1>4, <3>2 DEF Accounted, Held
      <4>2. RunMods(r) /\ RunPassTells(r) /\ run'[r].mod = run[r].mod /\ run'[r].oMod = run[r].oMod
            /\ \A u \in run'[r].met : u \in run[r].met
        BY <1>1, <1>4, <3>1 DEF RunInv
      <4>3. QED
        BY <1>1, <1>9, <1>13, <4>1, <4>2, PassTellsOn
    <3>5. run[r].pc \notin Outside /\ ~run[r].lost /\ run[r].seen <= s
      BY <1>4, <1>6 DEF Outside
    <3>6. QED
      BY <1>1, <1>8, <1>10, <1>13, <1>19, <2>1, <2>3, <3>3, <3>4, <3>5, SwallowKeeps
  <2>4. QED
    BY <1>8, <2>2, <2>3
<1>22. QED
  BY <1>8, <1>11, <1>13, <1>14, <1>19, <1>20, <1>21, Compose

\* The last write of a run: the modseq it opened with, and the watermark of the search.
LEMMA SaveKeeps ==
  ASSUME MailboxInv, NEW r \in Runs, Save(r), set' = set
  PROVE  MailboxInv'
<1>1. TypeOK /\ RowsInv /\ DbInv /\ RunInv(r)
  BY DEF MailboxInv
<1>2. PICK w : w = run[r]
  OBVIOUS
<1>3. /\ w = run[r] /\ w \in Closures /\ w.pc = "save"
      /\ UNCHANGED server /\ UNCHANGED mailVars /\ rows' = rows /\ rowEra' = rowEra
      /\ rowFlag' = rowFlag /\ faults' = faults
  BY <1>1, <1>2 DEF Save, mailVars, TypeOK
<1>4. PICK last : last = (IF w.remote = {} THEN Larger(w.high, w.seen) ELSE Highest(w.remote))
  OBVIOUS
<1>5. last \in Nat
  BY <1>3, <1>4, HighestIsNat DEF Larger, Closures
<1>6. PICK seen : seen = Larger(w.seen, last)
  OBVIOUS
<1>7. seen \in Nat
  BY <1>3, <1>5, <1>6 DEF Larger, Closures
<1>8. PICK high, due : high = Larger(w.high, seen) /\ due = (w.due \/ (db.due /\ ~w.full))
  OBVIOUS
<1>9. high \in Nat
  BY <1>3, <1>7, <1>8 DEF Larger, Closures
<1>10. due \in BOOLEAN
  BY <1>8
<1>11. SavedMod(r) = w.oMod /\ (set.condstore <=> w.oMod # 0)
  <2>1. (set.condstore <=> w.oMod # 0) /\ (w.mod # 0 => set.condstore)
    BY <1>1, <1>3 DEF RunInv, RunMods, Outside
  <2>2. QED
    BY <1>3, <2>1 DEF SavedMod
<1>12. PICK d : d = [seen |-> seen, high |-> high, era |-> w.oEra, mod |-> w.oMod, due |-> due]
  OBVIOUS
<1>13. /\ d \in StateRows /\ d.seen = seen /\ d.era = w.oEra /\ d.mod = w.oMod
  BY <1>3, <1>7, <1>9, <1>10, <1>12 DEF StateRows, Closures
<1>14. PICK over : over = {u \in Uids \ rows :
         u > w.seen /\ u <= seen /\ (u \in present \/ u >= next)}
  OBVIOUS
<1>15. PICK unmet : unmet = (IF w.mod = 0 THEN rows \ w.met ELSE {})
  OBVIOUS
<1>16. /\ db' = d /\ run' = [run EXCEPT ![r] = Off] /\ owed' = owed \cup over \cup unmet
  BY <1>3, <1>4, <1>6, <1>8, <1>11, <1>12, <1>14, <1>15 DEF Save
<1>17. owed \subseteq owed' /\ owed' \subseteq Uids
  BY <1>1, <1>14, <1>15, <1>16 DEF TypeOK, RowsOK
<1>18. run' \in [Runs -> Closures] /\ Apart(r) /\ run'[r] = Off
  BY <1>1, <1>16, Puts, OffIs
<1>19. Grows
  BY <1>1, <1>3, <1>17, QuietGrows
<1>20. /\ present' = present /\ next' = next /\ mod' = mod /\ era' = era /\ set' = set
       /\ next \in Nat /\ w.oEra # 0 /\ w.oEra <= era /\ era \in {1, 2}
  <2>1. w.oEra # 0 /\ w.oEra <= era
    BY <1>1, <1>3 DEF RunInv, RunEras, Outside
  <2>2. QED
    BY <1>1, <1>3, <2>1 DEF server, TypeOK, ServerOK
<1>21. w.oEra = era => Fetching(r) /\ Current(r) /\ Noticed
  <2>1. w.oEra = era => Fetching(r)
    BY <1>3 DEF Fetching, Outside
  <2>2. QED
    BY <2>1, FetchingIsCurrent, CurrentIsNoticed
<1>22. ~Early(r) /\ w.todo = {}
  BY <1>1, <1>3 DEF Early, Outside, RunInv, RunTodo
<1>23. Noticed' => Noticed
  <2>1. \A q \in Runs : Current(q)' => q # r /\ Current(q)
    BY <1>18, <1>20, OffIs DEF Apart, Current, Fetching, Outside
  <2>2. db'.era \in {0, era'} => Noticed
    BY <1>13, <1>16, <1>20, <1>21
  <2>3. QED
    BY <2>1, <2>2, CurrentIsNoticed DEF Noticed
<1>24. RowsInv'
  BY <1>1, <1>3, <1>17, <1>19, <1>23, RowsKept
<1>25. DbMods' /\ DbEras'
  BY <1>11, <1>13, <1>16, <1>20 DEF DbMods, DbEras
<1>26. DbModTells'
  <2>1. SUFFICES ASSUME w.oEra = era
                 PROVE  w.oMod <= mod' /\ \A u \in Uids : Held(u, w.oMod)' /\ Shown(u, w.oMod)'
    BY <1>13, <1>16, <1>20 DEF DbModTells, Held, Shown
  <2>2. w.oMod <= mod /\ w.oMod \in Nat /\ (w.oMod # 0 => set.condstore)
    BY <1>1, <1>3, <1>11, <1>21, <2>1 DEF RunInv, RunPassTells, Closures
  <2>3. ASSUME NEW u \in Uids PROVE Held(u, w.oMod)'
    <3>1. Held(u, w.oMod)
      BY <1>1, <1>3, <1>21, <1>22, <2>1 DEF RunInv, RunPassTells
    <3>2. QED
      BY <1>19, <1>21, <2>1, <2>2, <3>1 DEF Grows
  <2>4. ASSUME NEW u \in Uids PROVE Shown(u, w.oMod)'
    <3>1. CASE w.mod # 0 \/ u \in w.met
      <4>1. Shown(u, w.oMod)
        BY <1>1, <1>3, <1>21, <1>22, <2>1, <3>1 DEF RunInv, RunPassTells
      <4>2. QED
        BY <1>19, <1>21, <2>1, <2>2, <4>1 DEF Grows
    <3>2. CASE ~(w.mod # 0 \/ u \in w.met)
      BY <1>3, <1>15, <1>16, <3>2 DEF Shown
    <3>3. QED
      BY <3>1, <3>2
  <2>5. QED
    BY <1>20, <2>2, <2>3, <2>4
<1>27. DbSeenTells'
  <2>1. SUFFICES ASSUME w.oEra = era, NEW v \in Uids, v <= seen
                 PROVE  Given(v)' /\ Accounted(v)'
    BY <1>13, <1>16, <1>20 DEF DbSeenTells
  <2>2. v \in Nat /\ w.seen \in Nat
    BY <1>3, UidsAreNat DEF Closures
  <2>3. Accounted(v)'
    <3>1. CASE v <= w.seen
      BY <1>1, <1>3, <1>19, <1>21, <1>22, <2>1, <3>1, SeenTellsOn DEF RunInv
    <3>2. CASE v \in rows
      BY <1>3, <3>2 DEF Accounted
    <3>3. CASE ~(v <= w.seen) /\ v \notin rows
      <4>1. v > w.seen
        BY <2>2, <3>3
      <4>2. v \in over \/ (v \notin present /\ v < next)
        BY <1>14, <1>20, <2>1, <2>2, <3>3, <4>1
      <4>3. QED
        BY <1>16, <1>20, <4>2 DEF Accounted
    <3>4. QED
      BY <3>1, <3>2, <3>3
  <2>4. QED
    BY <2>3 DEF Accounted, Given
<1>28. ServerOK' /\ RowsOK' /\ db' \in StateRows /\ DbGoesOn /\ faults' \in Nat
  <2>1. DbGoesOn
    BY <1>1, <1>11, <1>13, <1>16, <1>20 DEF DbGoesOn, DbInv, DbMods
  <2>2. QED
    BY <1>1, <1>3, <1>13, <1>16, <1>17, <2>1, ServerSame, MailSame DEF TypeOK
<1>29. RunInv(r)'
  BY <1>18, <1>28, OffRun
<1>30. QED
  BY <1>18, <1>19, <1>24, <1>25, <1>26, <1>27, <1>28, <1>29, Compose DEF DbInv

\* The mailbox is made anew: those who do not notice leave what they have seen owed.
LEMMA RenumberKeeps ==
  ASSUME MailboxInv, Renumber, set' = set
  PROVE  MailboxInv'
<1>1. TypeOK /\ RowsInv /\ DbInv /\ \A q \in Runs : RunInv(q)
  BY DEF MailboxInv
<1>2. PICK n, marks, gone : /\ n = Cardinality(present)
                            /\ marks = rows \cup {db.seen} \cup {run[r].seen : r \in Runs}
                            /\ gone = {u \in Uids : Unaware /\ \E m \in marks : u <= m}
  OBVIOUS
<1>3. /\ era = 1 /\ era' = 2 /\ faults' = faults + 1 /\ present' = 1..n /\ next' = n + 1
      /\ mod' = 1 /\ modOf' = [u \in Uids |-> IF u \in present' THEN 1 ELSE 0]
      /\ flag' = [u \in Uids |-> FALSE] /\ owed' = owed \cup gone
      /\ UNCHANGED mailVars /\ rows' = rows /\ rowEra' = rowEra /\ db' = db
  BY <1>2 DEF Renumber, mailVars
<1>4. n \in Nat /\ n <= MaxUid
  <2>1. MaxUid \in Nat /\ 1 \in Int /\ MaxUid \in Int
    BY MailboxAssumption
  <2>2. IsFiniteSet(1..MaxUid) /\ Cardinality(1..MaxUid) = IF 1 > MaxUid THEN 0 ELSE MaxUid - 1 + 1
    BY <2>1, FS_Interval
  <2>3. present \subseteq 1..MaxUid
    BY <1>1 DEF TypeOK, ServerOK, Uids
  <2>4. IsFiniteSet(present) /\ Cardinality(present) <= Cardinality(1..MaxUid)
    BY <2>2, <2>3, FS_Subset
  <2>5. Cardinality(present) \in Nat
    BY <2>4, FS_CardinalityType
  <2>6. QED
    BY <1>2, <2>1, <2>2, <2>4, <2>5
<1>5. ServerOK'
  <2>1. present' \subseteq Uids /\ next' \in Nat \ {0} /\ \A u \in present' : u < next'
    BY <1>3, <1>4, MailboxAssumption DEF Uids
  <2>2. flag' \in [Uids -> BOOLEAN] /\ modOf' \in [Uids -> Nat]
    BY <1>3
  <2>3. QED
    BY <1>3, <2>1, <2>2 DEF ServerOK
<1>6. ASSUME NEW q \in Runs
      PROVE  /\ run'[q] \in Closures /\ run'[q].pc = run[q].pc /\ run'[q].seen = run[q].seen
             /\ run'[q].mod = run[q].mod /\ run'[q].era = run[q].era
             /\ run'[q].oMod = run[q].oMod /\ run'[q].oEra = run[q].oEra
             /\ run'[q].todo = run[q].todo /\ run'[q].had = run[q].had
             /\ run'[q].met = run[q].met /\ run'[q].chg = run[q].chg
             /\ (run'[q].lost <=> run[q].lost \/ run[q].pc \notin Outside)
  <2>1. PICK w, b : w = run[q] /\ b = (run[q].lost \/ run[q].pc \notin {"off", "claim", "open"})
    OBVIOUS
  <2>2. w \in Closures
    BY <1>1, <2>1 DEF TypeOK
  <2>3. b \in BOOLEAN
    BY <2>1
  <2>4. PICK x : x = [w EXCEPT !.lost = b]
    OBVIOUS
  <2>5. /\ x \in Closures /\ x.pc = w.pc /\ x.seen = w.seen /\ x.mod = w.mod /\ x.era = w.era
        /\ x.oMod = w.oMod /\ x.oEra = w.oEra /\ x.todo = w.todo /\ x.had = w.had
        /\ x.met = w.met /\ x.chg = w.chg /\ x.lost = b
    BY <2>2, <2>3, <2>4 DEF Closures
  <2>6. run'[q] = x
    BY <2>1, <2>4 DEF Renumber
  <2>7. QED
    BY <2>1, <2>5, <2>6 DEF Outside
<1>7. run' \in [Runs -> Closures]
  <2>1. run' = [q \in Runs |-> run'[q]]
    BY DEF Renumber
  <2>2. QED
    BY <1>6, <2>1
<1>8. TypeOK'
  BY <1>1, <1>2, <1>3, <1>5, <1>7 DEF TypeOK, RowsOK, mailVars
\* Nobody fetches from the new mailbox yet, and who takes it for the old one is unaware.
<1>9. ASSUME NEW q \in Runs
      PROVE  ~Fetching(q)' /\ (Current(q)' => Unaware /\ run[q].era = 0 /\ run[q].mod = 0)
  <2>1. run[q].era <= 1 /\ (run[q].pc \notin Outside => run[q].oEra <= 1) /\ run[q] \in Closures
    BY <1>1, <1>3 DEF RunInv, RunEras, TypeOK
  <2>2. ~Fetching(q)'
    BY <1>3, <1>6, <2>1 DEF Fetching
  <2>3. Current(q)' => run[q].pc # "off" /\ run[q].era = 0
    BY <1>3, <1>6, <2>1, <2>2 DEF Current
  <2>4. run[q].era = 0 => run[q].mod = 0
    BY <1>1 DEF RunInv, RunMods
  <2>5. QED
    BY <2>2, <2>3, <2>4 DEF Unaware
<1>10. db.era \in {0, era'} => db.era = 0 /\ db.mod = 0 /\ Unaware
  BY <1>1, <1>3 DEF DbInv, DbMods, DbEras, Unaware
<1>11. Noticed' => Unaware
  BY <1>3, <1>9, <1>10 DEF Noticed
<1>12. ASSUME Unaware, NEW m \in marks, NEW v \in Uids, v <= m PROVE Accounted(v)' /\ Given(v)'
  BY <1>2, <1>3, <1>12 DEF Accounted, Given
<1>13. /\ \A u \in rows : u \in marks /\ u \in Uids /\ u <= u
       /\ db.seen \in marks /\ \A q \in Runs : run[q].seen \in marks
  <2>1. rows \subseteq Uids
    BY <1>1 DEF TypeOK, RowsOK
  <2>2. \A u \in rows : u \in Uids /\ u <= u
    BY <2>1, UidsAreNat
  <2>3. /\ \A u \in rows : u \in marks
        /\ db.seen \in marks /\ \A q \in Runs : run[q].seen \in marks
    BY <1>2
  <2>4. QED
    BY <2>2, <2>3
<1>14. RowsInv'
  <2>1. RowEras'
    BY <1>1, <1>3, <1>13 DEF RowsInv, RowEras, TypeOK, RowsOK
  <2>2. Clean'
    BY <1>2, <1>3, <1>11, <1>13 DEF Clean
  <2>3. Gapless'
    BY <1>3, <1>11, <1>12, <1>13 DEF Gapless
  <2>4. QED
    BY <2>1, <2>2, <2>3 DEF RowsInv
<1>15. DbInv'
  <2>1. DbMods'
    BY <1>1, <1>3 DEF DbInv, DbMods
  <2>2. DbEras'
    BY <1>1, <1>3 DEF DbInv, DbEras, TypeOK, StateRows
  <2>3. DbModTells'
    BY <1>3, <1>10 DEF DbModTells
  <2>4. DbSeenTells'
    BY <1>3, <1>10, <1>12, <1>13 DEF DbSeenTells
  <2>5. QED
    BY <2>1, <2>2, <2>3, <2>4 DEF DbInv
<1>16. ASSUME NEW q \in Runs PROVE RunInv(q)'
  <2>1. PICK w, x : w = run[q] /\ x = run'[q]
    OBVIOUS
  <2>2. /\ w = run[q] /\ x = run'[q] /\ w \in Closures
        /\ x.pc = w.pc /\ x.seen = w.seen /\ x.mod = w.mod /\ x.era = w.era
        /\ x.oMod = w.oMod /\ x.oEra = w.oEra /\ x.todo = w.todo /\ x.had = w.had
        /\ x.met = w.met /\ x.chg = w.chg /\ (x.lost <=> w.lost \/ w.pc \notin Outside)
    BY <1>1, <1>6, <2>1 DEF TypeOK
  <2>3. ~Fetching(q)' /\ (Current(q)' => Unaware /\ w.mod = 0) /\ w.seen \in marks
    BY <1>9, <1>13, <2>2
  <2>4. RunMods(q)'
    BY <1>1, <1>3, <2>2 DEF RunInv, RunMods
  <2>5. RunEras(q)'
    <3>1. /\ w.era <= 1 /\ (w.pc \notin Outside => w.oEra # 0 /\ w.oEra <= 1)
          /\ (w.lost => w.pc \notin Outside) /\ w.era \in 0..2 /\ w.oEra \in 0..2
      BY <1>1, <1>3, <2>2 DEF RunInv, RunEras, Closures
    <3>2. QED
      BY <1>3, <2>2, <3>1 DEF RunEras
  <2>6. RunTodo(q)'
    BY <1>1, <2>2, <2>3 DEF RunInv, RunTodo
  <2>7. RunHad(q)'
    <3>1. \A u \in w.had : u <= w.seen /\ u \in Uids
      BY <1>1, <2>2 DEF RunInv, RunHad, Closures
    <3>2. QED
      BY <1>12, <2>2, <2>3, <3>1 DEF RunHad
  <2>8. RunModTells(q)'
    BY <2>2, <2>3 DEF RunModTells
  <2>9. RunSeenTells(q)'
    BY <1>12, <2>2, <2>3 DEF RunSeenTells
  <2>10. RunPassTells(q)'
    BY <2>3 DEF RunPassTells
  <2>11. QED
    BY <2>4, <2>5, <2>6, <2>7, <2>8, <2>9, <2>10 DEF RunInv
<1>17. QED
  BY <1>8, <1>14, <1>15, <1>16 DEF MailboxInv

\* An empty mailbox that nobody has synced.
LEMMA InitKeeps == Init => MailboxInv
<1>1. SUFFICES ASSUME Init PROVE MailboxInv
  OBVIOUS
<1>2. /\ set \in Settings /\ present = {} /\ next = 1 /\ mod = 1 /\ era = 1 /\ rows = {}
      /\ bare = {} /\ owed = {} /\ faults = 0
      /\ flag = [u \in Uids |-> FALSE] /\ modOf = [u \in Uids |-> 0]
      /\ rowFlag = [u \in Uids |-> FALSE] /\ rowEra = [u \in Uids |-> 0]
      /\ db = [seen |-> 0, high |-> 0, mod |-> 0, era |-> 0, due |-> TRUE]
      /\ run = [r \in Runs |-> Off]
  BY <1>1 DEF Init
<1>3. TypeOK
  <2>1. ServerOK
    BY <1>2 DEF ServerOK
  <2>2. RowsOK
    BY <1>2 DEF RowsOK
  <2>3. db \in StateRows
    BY <1>2 DEF StateRows
  <2>4. run \in [Runs -> Closures]
    BY <1>2, OffIs
  <2>5. QED
    BY <1>2, <2>1, <2>2, <2>3, <2>4 DEF TypeOK
<1>4. RowsInv
  BY <1>2 DEF RowsInv, RowEras, Clean, Gapless
<1>5. DbInv
  <2>1. \A v \in Uids : ~(v <= db.seen)
    BY <1>2 DEF Uids
  <2>2. QED
    BY <1>2, <2>1 DEF DbInv, DbMods, DbEras, DbModTells, DbSeenTells
<1>6. ASSUME NEW r \in Runs PROVE RunInv(r)
  <2>1. PICK w : w = run[r]
    OBVIOUS
  <2>2. /\ w = run[r] /\ w.pc = "off" /\ w.mod = 0 /\ w.era = 0 /\ w.todo = {} /\ w.had = {}
        /\ w.lost = FALSE
    BY <1>2, <2>1, OffIs
  <2>3. ~Fetching(r) /\ ~Current(r)
    BY <2>2 DEF Fetching, Current, Outside
  <2>4. RunMods(r) /\ RunEras(r) /\ RunTodo(r)
    BY <1>2, <2>2, <2>3 DEF RunMods, RunEras, RunTodo, Outside
  <2>5. RunHad(r) /\ RunModTells(r) /\ RunSeenTells(r) /\ RunPassTells(r)
    BY <2>2, <2>3 DEF RunHad, RunModTells, RunSeenTells, RunPassTells
  <2>6. QED
    BY <2>4, <2>5 DEF RunInv
<1>7. QED
  BY <1>3, <1>4, <1>5, <1>6 DEF MailboxInv

\* Every step keeps the invariant.
LEMMA NextKeeps == MailboxInv /\ [Next]_vars => MailboxInv'
<1>1. SUFFICES ASSUME MailboxInv, [Next]_vars PROVE MailboxInv'
  OBVIOUS
<1>2. CASE UNCHANGED vars
  <2>1. /\ set' = set /\ UNCHANGED server /\ UNCHANGED mailVars /\ db' = db /\ run' = run
        /\ faults' = faults /\ owed' = owed /\ rows' = rows /\ rowFlag' = rowFlag
    BY <1>2 DEF vars, mailVars, server
  <2>2. TypeOK /\ ServerOK' /\ db' \in StateRows /\ faults' \in Nat
    BY <1>1, <2>1, ServerSame DEF MailboxInv, TypeOK
  <2>3. Grows
    BY <2>1, <2>2, QuietGrows
  <2>4. QED
    BY <1>1, <2>1, <2>2, <2>3, RestKeeps
<1>3. CASE Users /\ set' = set
  BY <1>1, <1>3, ArriveKeeps, RenumberKeeps, ExpungeKeeps, MarkKeeps DEF Users
<1>4. CASE DayPasses /\ set' = set
  BY <1>1, <1>4, DayPassesKeeps
<1>5. ASSUME NEW r \in Runs, Work(r), set' = set PROVE MailboxInv'
  <2>1. CASE ReadState(r)
    BY <1>1, <1>5, <2>1, ReadStateKeeps
  <2>2. CASE TakeClaim(r)
    BY <1>1, <1>5, <2>2, TakeClaimKeeps
  <2>3. CASE ClaimRefused(r)
    BY <1>1, <1>5, <2>3, OffKeeps
  <2>4. CASE Open(r)
    BY <1>1, <1>5, <2>4, OpenKeeps
  <2>5. CASE MetadataPass(r)
    BY <1>1, <1>5, <2>5, MetadataPassKeeps
  <2>6. CASE NewRange(r)
    BY <1>1, <1>5, <2>6, NewRangeKeeps
  <2>7. CASE SourcePass(r)
    BY <1>1, <1>5, <2>7, SourcePassKeeps
  <2>8. CASE SessionEnds(r)
    BY <1>1, <1>5, <2>8, SessionEndsKeeps
  <2>9. CASE Reconcile(r) \/ Sweep(r)
    BY <1>1, <1>5, <2>9, LateKeeps
  <2>10. CASE Save(r)
    BY <1>1, <1>5, <2>10, SaveKeeps
  <2>11. QED
    BY <1>5, <2>1, <2>2, <2>3, <2>4, <2>5, <2>6, <2>7, <2>8, <2>9, <2>10 DEF Work
<1>6. ASSUME NEW r \in Runs, Trouble(r), set' = set PROVE MailboxInv'
  <2>1. CASE Stop(r)
    BY <1>1, <1>6, <2>1, OffKeeps
  <2>2. CASE FullScanFails(r)
    BY <1>1, <1>6, <2>2, LateKeeps
  <2>3. ASSUME NEW kind \in {"link", "db"}, MetadataFails(r, kind) PROVE MailboxInv'
    BY <1>1, <1>6, <2>3, MetadataFailsKeeps
  <2>4. ASSUME NEW kind \in {"link", "db"}, SourceFails(r, kind) PROVE MailboxInv'
    BY <1>1, <1>6, <2>4, SourceFailsKeeps
  <2>5. QED
    BY <1>6, <2>1, <2>2, <2>3, <2>4 DEF Trouble
<1>7. QED
  BY <1>1, <1>2, <1>3, <1>4, <1>5, <1>6 DEF Next

\* The inductive invariant holds: what runMailboxSync keeps in sync_states and in the
\* closures of its runs accounts for every message of the mailbox.
THEOREM MailboxInvariant == Spec => []MailboxInv
<1>1. QED
  BY InitKeeps, NextKeeps, PTL DEF Spec

\* No message is forgotten: one at or below the watermark of sync_states that has no
\* row will come with the next changed-since pass, or is owed by a named failure.
THEOREM NothingForgotten == Spec => []NoGap
<1>1. MailboxInv => NoGap
  <2>1. SUFFICES ASSUME MailboxInv, ~WillReset, NEW u \in present \ rows, u <= db.seen
                 PROVE  (db.mod # 0 /\ modOf[u] > db.mod) \/ u \in owed
    BY DEF NoGap
  <2>2. u \in Uids /\ db.era \in {0, era} /\ DbInv
    BY <2>1 DEF MailboxInv, TypeOK, ServerOK, WillReset
  <2>3. CASE db.mod # 0
    BY <2>1, <2>2, <2>3 DEF DbInv, DbModTells, Held
  <2>4. CASE db.mod = 0
    BY <2>1, <2>2, <2>4 DEF DbInv, DbSeenTells, Accounted
  <2>5. QED
    BY <2>3, <2>4
<1>2. QED
  BY <1>1, MailboxInvariant, PTL

\* With mod-sequences no flag stays stale: a row that differs from the server has
\* changed after the stored modseq, or is owed by a named failure.
THEOREM NoFlagStaysStale == Spec => []NoStaleFlag
<1>1. MailboxInv => NoStaleFlag
  <2>1. SUFFICES ASSUME MailboxInv, ~WillReset, db.mod # 0, NEW u \in present \cap rows,
                        rowFlag[u] # flag[u]
                 PROVE  modOf[u] > db.mod \/ u \in owed
    BY DEF NoStaleFlag
  <2>2. u \in Uids /\ db.era \in {0, era} /\ DbInv
    BY <2>1 DEF MailboxInv, TypeOK, ServerOK, WillReset
  <2>3. QED
    BY <2>1, <2>2 DEF DbInv, DbModTells, Shown
<1>2. QED
  BY <1>1, MailboxInvariant, PTL

\* No row shows the body of another message under its uid once the UIDVALIDITY is
\* stored: a renumbered mailbox is begun anew, or what it leaves is owed.
THEOREM BodiesOfOneEra == Spec => []OneEra
<1>1. MailboxInv => OneEra
  BY DEF MailboxInv, RowsInv, Clean, Noticed, OneEra
<1>2. QED
  BY <1>1, MailboxInvariant, PTL
=============================================================================
