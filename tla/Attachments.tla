----------------------------- MODULE Attachments -----------------------------
(***************************************************************************)
(* The attachments of one message: the parses that make their rows and     *)
(* blobs again (a sync and the hydration job may parse a message at once), *)
(* the jobs that scan them, the requests for another scan, and a message   *)
(* that leaves its folder: a reconcile that deletes it with its blobs, and *)
(* the move that takes its row to another folder meanwhile.                *)
(*                                                                         *)
(* Sources: services/messageParser.ts, worker/taskHandlers.ts,             *)
(* services/queue.ts, services/scanPolicy.ts,                              *)
(* routes/messages-scanpush-routes.ts, services/imap/imapService.monolith. *)
(***************************************************************************)
EXTENDS Naturals, FiniteSets

CONSTANTS
  Parsers,  \* executions of parseAndPersistMessage; each runs once
  Askers,   \* requests for a scan; each is made once
  Parts,    \* attachments of the message, 1..n
  Files,    \* rows of attachments, 1..n; a row and its blob have the same number
  Tries,    \* attempts of a scan job (2 in the code)
  Wards     \* settings, one to a behaviour: [scan : {"queued", "inline", "skip"}, gmail :
            \* BOOLEAN, leaves : BOOLEAN (the message leaves the folder), parses : Nat and
            \* asks : Nat (how many there are), snags : Nat (failures)]

\* Rows and parts are numbered, and a setting has one of the three ways to scan.
ASSUME FilesAssumption ==
  /\ Files \subseteq Nat \ {0} /\ Cardinality(Parts) \in Nat /\ Parts = 1 .. Cardinality(Parts)
  /\ \A w \in Wards : w.scan \in {"queued", "inline", "skip"}

VARIABLES
  ward,   \* the setting
  home,   \* the message: "here", "moved", "gone", or "strayed" (moved while a reconcile deleted it)
  file,   \* attachments: the part a row is of, its scan_status (clean and infected: "verdict")
  blobs,  \* the blob store: attachments, and the raw message
  numbered,\* rows numbered so far
  parse,  \* the parses
  scan,   \* the scan job of a row: its attempts, and where its task is
  ask,    \* the requests for a scan
  clear,  \* the reconcile
  snags   \* failures so far

fileVars == <<ward, home, file, blobs, numbered, parse, scan, ask, clear, snags>>

Raw == 0
NoFile == [here |-> FALSE, part |-> 0, status |-> "none"]
NoJob == [job |-> "none", tries |-> 0, at |-> "none"]
Count == Cardinality(Parts)

FilesInit ==
  /\ ward \in Wards
  /\ home = "here" /\ blobs = {Raw} /\ numbered = 0
  /\ file = [a \in Files |-> NoFile]
  /\ parse = [p \in Parsers |-> [pc |-> "off", old |-> {}, part |-> 1, a |-> 0]]
  /\ scan = [a \in Files |-> NoJob]
  /\ ask = [q \in Askers |-> [pc |-> "off", a |-> 0]]
  /\ clear = [pc |-> "off", keys |-> {}]
  /\ snags = 0

Stored == {a \in Files : file[a].here}
Snag == snags < ward.snags /\ snags' = snags + 1
Steady == UNCHANGED snags
Parses(p, pc) == parse' = [parse EXCEPT ![p].pc = pc]
\* An UPDATE of a row that may have gone.
Sets(a, status) == file' = [file EXCEPT ![a].status = IF file[a].here THEN status ELSE @]
\* addJob with 'unsafe_dedupe': a job that is there wins, one that runs or is dead too.
AddScan(a) == scan' = [scan EXCEPT ![a] = IF @.job = "none" THEN [NoJob EXCEPT !.job = "queued"] ELSE @]

-----------------------------------------------------------------------------
(* parseAndPersistMessage. *)

\* The body is written and the rows there are are read.
ParseBegins(p) ==
  /\ parse[p].pc = "off" /\ home # "gone" /\ Steady
  /\ Cardinality({o \in Parsers : parse[o].pc # "off"}) < ward.parses
  /\ parse' = [parse EXCEPT ![p] = [@ EXCEPT !.old = Stored, !.pc = IF Stored = {} THEN "part" ELSE "delete"]]
  /\ UNCHANGED <<ward, home, file, blobs, numbered, scan, ask, clear>>

\* All the rows of the message go, those made since it read them too.
DeleteRows(p) ==
  /\ parse[p].pc = "delete" /\ Steady /\ Parses(p, "unblob")
  /\ file' = [a \in Files |-> NoFile]
  /\ UNCHANGED <<ward, home, blobs, numbered, scan, ask, clear>>

\* Mutant: all that is stored under the message's prefix.
PrefixBlobs(p) == Files
\* The blobs of the rows it read.
OldBlobs(p) == parse[p].old

\* Their deletion may fail; nobody minds.
DeleteBlobs(p) ==
  /\ parse[p].pc = "unblob" /\ Parses(p, "part")
  /\ \/ blobs' = blobs \ OldBlobs(p) /\ Steady
     \/ Snag /\ UNCHANGED blobs
  /\ UNCHANGED <<ward, home, file, numbered, scan, ask, clear>>

PutBlob(p) ==
  /\ parse[p].pc = "part" /\ parse[p].part <= Count /\ Steady
  /\ numbered + 1 \in Files /\ numbered' = numbered + 1 /\ blobs' = blobs \cup {numbered + 1}
  /\ parse' = [parse EXCEPT ![p].pc = "insert", ![p].a = numbered + 1]
  /\ UNCHANGED <<ward, home, file, scan, ask, clear>>

\* Without a queue the scan comes first; its failure is a status. The row needs its message.
InsertRow(p) ==
  /\ parse[p].pc = "insert"
  /\ IF home = "gone" THEN Parses(p, "failed") /\ Steady /\ UNCHANGED file
     ELSE \E status \in CASE ward.scan = "queued" -> {"pending"}
                          [] ward.scan = "inline" -> {"verdict", "error"}
                          [] ward.scan = "skip" -> {"disabled"} :
            /\ IF status = "error" THEN Snag ELSE Steady
            /\ file' = [file EXCEPT ![parse[p].a] = [here |-> TRUE, part |-> parse[p].part, status |-> status]]
            /\ IF status = "pending" THEN Parses(p, "enqueue")
               ELSE parse' = [parse EXCEPT ![p].pc = "part", ![p].part = @ + 1]
  /\ UNCHANGED <<ward, home, blobs, numbered, scan, ask, clear>>

EnqueueScan(p) ==
  /\ parse[p].pc = "enqueue" /\ Steady
  /\ AddScan(parse[p].a)
  /\ parse' = [parse EXCEPT ![p].pc = "part", ![p].part = @ + 1]
  /\ UNCHANGED <<ward, home, file, blobs, numbered, ask, clear>>

ParseEnds(p) ==
  /\ parse[p].pc = "part" /\ parse[p].part > Count /\ Steady /\ Parses(p, "done")
  /\ UNCHANGED <<ward, home, file, blobs, numbered, scan, ask, clear>>

\* A statement, the blob store, the queue or the process fails.
ParseFails(p) ==
  /\ parse[p].pc \notin {"off", "done", "failed"} /\ Snag /\ Parses(p, "failed")
  /\ UNCHANGED <<ward, home, file, blobs, numbered, scan, ask, clear>>

-----------------------------------------------------------------------------
(* scanAttachmentTask, with the policy it was queued under. *)

TaskAt(a, at) == scan[a].job = "locked" /\ scan[a].at = at
TaskTo(a, at) == scan' = [scan EXCEPT ![a].at = at]

ScanBegins(a) ==
  /\ scan[a].job = "queued" /\ Steady
  /\ scan' = [scan EXCEPT ![a] = [job |-> "locked", tries |-> @.tries + 1, at |-> "read"]]
  /\ UNCHANGED <<ward, home, file, blobs, numbered, parse, ask, clear>>

\* A row that has gone or has a verdict needs no scan.
ScanReads(a) ==
  /\ TaskAt(a, "read") /\ Steady
  /\ TaskTo(a, IF ~file[a].here \/ file[a].status = "verdict" THEN "over"
               ELSE IF file[a].status = "pending" THEN "fetch" ELSE "reset")
  /\ UNCHANGED <<ward, home, file, blobs, numbered, parse, ask, clear>>

ScanResets(a) ==
  /\ TaskAt(a, "reset") /\ Steady /\ TaskTo(a, "fetch") /\ Sets(a, "pending")
  /\ UNCHANGED <<ward, home, blobs, numbered, parse, ask, clear>>

\* A blob store that fails is a blob that is missing.
ScanFetches(a) ==
  /\ TaskAt(a, "fetch")
  /\ \/ Steady /\ TaskTo(a, IF a \in blobs THEN "scan" ELSE "absent")
     \/ Snag /\ TaskTo(a, "absent")
  /\ UNCHANGED <<ward, home, file, blobs, numbered, parse, ask, clear>>

\* Mutant: the error is not written.
Unsaid(a) == file[a].status
\* What is written when the scanner fails.
Scanless(a) == "error"

\* The verdict, or the error, whatever the row says by now.
ScanWrites(a) ==
  /\ TaskTo(a, "over")
  /\ \/ TaskAt(a, "scan") /\ Steady /\ Sets(a, "verdict")
     \/ TaskAt(a, "scan") /\ Snag /\ Sets(a, Scanless(a))
     \/ TaskAt(a, "absent") /\ Steady /\ Sets(a, "missing")
  /\ UNCHANGED <<ward, home, blobs, numbered, parse, ask, clear>>

\* The worker deletes the job.
ScanOver(a) ==
  /\ TaskAt(a, "over") /\ Steady /\ scan' = [scan EXCEPT ![a] = NoJob]
  /\ UNCHANGED <<ward, home, file, blobs, numbered, parse, ask, clear>>

\* A statement or the worker fails: another attempt, if one is left.
ScanThrows(a) ==
  /\ scan[a].job = "locked" /\ Snag
  /\ scan' = [scan EXCEPT ![a] = [@ EXCEPT !.at = "none", !.job = IF scan[a].tries < Tries THEN "queued" ELSE "dead"]]
  /\ UNCHANGED <<ward, home, file, blobs, numbered, parse, ask, clear>>

-----------------------------------------------------------------------------
(* POST /api/attachments/scan. *)

\* What the route does with a status it has read. Under the inline policy the status it
\* writes is 'pending', and nobody scans.
AskGoes(status) ==
  CASE ward.scan = "queued" -> IF status = "verdict" THEN "done" ELSE IF status = "pending" THEN "enqueue" ELSE "reset"
    [] ward.scan = "inline" -> IF status = "pending" THEN "done" ELSE "set"
    [] ward.scan = "skip" -> IF status = "disabled" THEN "done" ELSE "set"

AskReads(q) ==
  /\ ask[q].pc = "off" /\ Cardinality({o \in Askers : ask[o].pc # "off"}) < ward.asks /\ Steady
  /\ \E a \in Stored : ask' = [ask EXCEPT ![q] = [pc |-> AskGoes(file[a].status), a |-> a]]
  /\ UNCHANGED <<ward, home, file, blobs, numbered, parse, scan, clear>>

AskSets(q) ==
  /\ ask[q].pc \in {"reset", "set"} /\ Steady
  /\ Sets(ask[q].a, IF ward.scan = "skip" THEN "disabled" ELSE "pending")
  /\ ask' = [ask EXCEPT ![q].pc = IF @ = "reset" THEN "enqueue" ELSE "done"]
  /\ UNCHANGED <<ward, home, blobs, numbered, parse, scan, clear>>

AskEnqueues(q) ==
  /\ ask[q].pc = "enqueue" /\ Steady
  /\ AddScan(ask[q].a)
  /\ ask' = [ask EXCEPT ![q].pc = "done"]
  /\ UNCHANGED <<ward, home, file, blobs, numbered, parse, clear>>

AskFails(q) ==
  /\ ask[q].pc \in {"reset", "set", "enqueue"} /\ Snag
  /\ ask' = [ask EXCEPT ![q].pc = "done"]
  /\ UNCHANGED <<ward, home, file, blobs, numbered, parse, scan, clear>>

-----------------------------------------------------------------------------
(* The message leaves the folder. *)

\* Over IMAP the keys are read, and then the message is deleted by its folder and uid.
ClearReads ==
  /\ ward.leaves /\ clear.pc = "off" /\ home = "here" /\ ~ward.gmail /\ Steady
  /\ clear' = [pc |-> "delete", keys |-> {Raw} \cup Stored]
  /\ UNCHANGED <<ward, home, file, blobs, numbered, parse, scan, ask>>

\* The rows of the attachments go with it. Over Gmail the DELETE returns the raw key, and
\* the rows that are asked for the others have gone.
ClearDeletes ==
  /\ Steady
  /\ \/ clear.pc = "delete" /\ clear' = [clear EXCEPT !.pc = "unblob"]
     \/ ward.leaves /\ clear.pc = "off" /\ ward.gmail /\ clear' = [pc |-> "unblob", keys |-> {Raw}]
  /\ home' = IF home = "here" THEN "gone" ELSE home
  /\ file' = IF home = "here" THEN [a \in Files |-> NoFile] ELSE file
  /\ UNCHANGED <<ward, blobs, numbered, parse, scan, ask>>

ClearBlobs ==
  /\ clear.pc = "unblob" /\ Steady
  /\ blobs' = blobs \ clear.keys /\ clear' = [clear EXCEPT !.pc = "done"]
  /\ UNCHANGED <<ward, home, file, numbered, parse, scan, ask>>

\* The move of a request reaches the row after the server.
MoveRow ==
  /\ ward.leaves /\ ~ward.gmail /\ home = "here" /\ Steady
  /\ home' = IF clear.pc = "delete" THEN "strayed" ELSE "moved"
  /\ UNCHANGED <<ward, file, blobs, numbered, parse, scan, ask, clear>>

-----------------------------------------------------------------------------
ScanStep(a) ==
  ScanBegins(a) \/ ScanReads(a) \/ ScanResets(a) \/ ScanFetches(a) \/ ScanWrites(a) \/ ScanOver(a)

FilesNext ==
  \/ \E p \in Parsers : \/ ParseBegins(p) \/ DeleteRows(p) \/ DeleteBlobs(p) \/ PutBlob(p)
                        \/ InsertRow(p) \/ EnqueueScan(p) \/ ParseEnds(p) \/ ParseFails(p)
  \/ \E a \in Files : ScanStep(a) \/ ScanThrows(a)
  \/ \E q \in Askers : AskReads(q) \/ AskSets(q) \/ AskEnqueues(q) \/ AskFails(q)
  \/ ClearReads \/ ClearDeletes \/ ClearBlobs \/ MoveRow

FilesSpec == FilesInit /\ [][FilesNext]_fileVars

-----------------------------------------------------------------------------
\* A message and its attachments have their blobs, whatever parses cross and fail, unless
\* the message was moved between a reconcile's reading and its deletes.
BlobsKept == home \in {"here", "moved"} => {Raw} \cup Stored \subseteq blobs

\* When parses crossed and all of them ended well no part is without a row.
PartsKept ==
  (home # "gone" /\ (\E p \in Parsers : parse[p].pc = "done") /\ \A p \in Parsers : parse[p].pc \in {"off", "done"})
    => {file[a].part : a \in Stored} = Parts

\* Parses that cross lose neither a blob that a row needs nor an attachment.
AttachmentsKept == BlobsKept /\ PartsKept

\* The job of a row that waits for a verdict has not had its last word.
Promised(a) == /\ file[a].here /\ file[a].status = "pending"
               /\ scan[a].job = "queued" \/ (scan[a].job = "locked" /\ scan[a].at # "over")

\* A row that waits, with a job that has still to do it, gets a verdict or an error,
\* unless the job's attempts are used up. (A request that comes between the last word of
\* a job and its deletion gets no job: the row then waits until it is asked for again.)
VerdictComes == \A a \in Files : Promised(a) ~> (~file[a].here \/ file[a].status # "pending" \/ scan[a].job = "dead")
=============================================================================
