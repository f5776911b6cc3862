----------------------------- MODULE CloudUpload -----------------------------
(***************************************************************************)
(* SteamCloud::upload_verified (src/core/src/steam/cloud.rs) uploading one *)
(* file of a slot: a batch is begun, the file begun in it, its blocks are  *)
(* put over HTTP, the file is committed, the batch completed, and Steam is *)
(* listed again to see the file there.  Every call may fail, and a commit  *)
(* whose answer is lost may have been carried out.  A batch Steam began    *)
(* without the answer coming back is out of the code's reach: "batch" is   *)
(* the one whose id it got, and what it has asked Steam about it.          *)
(*                                                                         *)
(* Steam may hold several files of the slot (two games' names, two path    *)
(* prefixes); list_isaac_saves shows one of them.  Steam itself is         *)
(* external: it commits what it is told was transferred.                   *)
(***************************************************************************)
EXTENDS Naturals, FiniteSets

CONSTANTS
  Names,        \* the names of one slot's files on Steam
  Priority,     \* remote_save_priority of a name
  Contents,     \* complete contents of a file
  Torn,         \* a file of which not every block arrived
  Blocks,       \* the blocks Steam asks for
  ClockRight,   \* is the device's clock ahead of every time stamp on Steam?
  None,
  Writes        \* bound: uploads begun, and files written by another computer

ASSUME CloudAssumption ==
  /\ Torn \notin Contents
  /\ None \notin Contents \cup [content : Contents, time : Nat]
  /\ None \notin [name : Names, content : Contents, replaced : BOOLEAN]
  /\ Priority \in [Names -> Nat]
  /\ ClockRight \in BOOLEAN
  /\ Writes \in Nat

VARIABLES
  steam,        \* name -> content and time stamp, or None
  pc,           \* where upload_verified stands
  name,         \* the file it uploads
  content,      \* and its content
  stamp,        \* and the time stamp it was announced with
  put,          \* blocks that have arrived
  transferred,  \* no block has failed
  ok,           \* the result of upload_in_batch
  batch,        \* the batch it was given: "none", "open", or completed as "ok" or "failed"
  result,       \* of the last upload: "none", "ok", "failed"
  now,          \* how many writes were begun: later than any time stamp
  committed,    \* history: Steam has committed this upload
  touched       \* history: another computer has written since it began

upload == << name, content, stamp, put, transferred, ok, batch >>
vars   == << steam, pc, upload, result, now, committed, touched >>

\* What Steam shows is never torn.
File == [content : Contents, time : Nat]

TypeOK ==
  /\ steam \in [Names -> File \cup {None}]
  /\ pc \in {"idle", "begin_batch", "begin_file", "blocks", "commit", "complete", "verify"}
  /\ name \in Names
  /\ content \in Contents
  /\ stamp \in Nat
  /\ put \in SUBSET Blocks
  /\ transferred \in BOOLEAN
  /\ ok \in BOOLEAN
  /\ batch \in {"none", "open", "ok", "failed"}
  /\ result \in {"none", "ok", "failed"}
  /\ now \in Nat
  /\ committed \in BOOLEAN
  /\ touched \in BOOLEAN

Init ==
  /\ steam \in [Names -> [content : Contents, time : {0}] \cup {None}]
  /\ pc = "idle"
  /\ name \in Names
  /\ content \in Contents
  /\ stamp = 0
  /\ put = {}
  /\ transferred = FALSE
  /\ ok = FALSE
  /\ batch = "none"
  /\ result = "none"
  /\ now = 1
  /\ committed = FALSE
  /\ touched = FALSE

-----------------------------------------------------------------------------
(* list_isaac_saves *)

Present == {n \in Names : steam[n] # None}

\* Bug: of two files with the same priority, the older one.
BetterOlder(m, n) ==
  \/ Priority[m] > Priority[n]
  \/ Priority[m] = Priority[n] /\ steam[m].time < steam[n].time

Better(m, n) ==
  \/ Priority[m] > Priority[n]
  \/ Priority[m] = Priority[n] /\ steam[m].time > steam[n].time

\* The file a listing shows for the slot is one of these: of equal ones, the
\* first in Steam's order.
Shown == {n \in Present : \A m \in Present : ~Better(m, n)}

-----------------------------------------------------------------------------
(* Another computer. *)

PeerWrites ==
  /\ now <= Writes
  /\ \E n \in Names, f \in [content : Contents, time : {now}] \cup {None} :
       steam' = [steam EXCEPT ![n] = f]
  /\ now' = now + 1
  /\ touched' = TRUE
  /\ UNCHANGED << pc, upload, result, committed >>

-----------------------------------------------------------------------------
(* upload_verified *)

\* The caller has just listed the slot: its file, or any name if it has none.
Begin ==
  /\ pc = "idle"
  /\ now <= Writes
  /\ name' \in IF Present = {} THEN Names ELSE Shown
  /\ content' \in Contents
  /\ pc' = "begin_batch"
  /\ stamp' = 0
  /\ put' = {}
  /\ transferred' = TRUE
  /\ ok' = FALSE
  /\ batch' = "none"
  /\ result' = "none"
  /\ now' = now + 1
  /\ committed' = FALSE
  /\ touched' = FALSE
  /\ UNCHANGED steam

Return(r) == pc' = "idle" /\ result' = r

BeginBatch ==
  /\ pc = "begin_batch"
  /\ \/ pc' = "begin_file" /\ batch' = "open" /\ UNCHANGED result
     \/ Return("failed") /\ UNCHANGED batch
  /\ UNCHANGED << steam, name, content, stamp, put, transferred, ok, now, committed, touched >>

Stamps == IF ClockRight THEN {now} ELSE 0..now

\* Bug: an error of the transfer is returned before the batch is completed.
BeginFileOrLeave ==
  /\ pc = "begin_file"
  /\ \/ pc' = "blocks" /\ stamp' \in Stamps /\ UNCHANGED result
     \/ Return("failed") /\ UNCHANGED stamp
  /\ UNCHANGED << steam, name, content, put, transferred, ok, batch, now, committed, touched >>

\* Refused, unanswered, or encryption is asked for: no transfer.
BeginFile ==
  /\ pc = "begin_file"
  /\ pc' \in {"blocks", "complete"}
  /\ stamp' \in Stamps
  /\ UNCHANGED << steam, name, content, put, transferred, ok, batch, result, now, committed, touched >>

\* Bug: a block that did not get through is passed over.
PutBlockUnchecked ==
  /\ pc = "blocks"
  /\ put # Blocks
  /\ \/ \E b \in Blocks \ put : put' = put \cup {b} /\ UNCHANGED << pc, transferred >>
     \/ pc' = "commit" /\ UNCHANGED << put, transferred >>
  /\ UNCHANGED << steam, name, content, stamp, ok, batch, result, now, committed, touched >>

\* A block arrives; or it does not, or not for certain, and the transfer is
\* given up; or Steam asks for what cannot be sent, and nothing is committed.
PutBlock ==
  /\ pc = "blocks"
  /\ put # Blocks
  /\ \/ \E b \in Blocks \ put : put' = put \cup {b} /\ UNCHANGED << pc, transferred >>
     \/ pc' = "commit" /\ transferred' = FALSE /\ UNCHANGED put
     \/ pc' = "complete" /\ UNCHANGED << put, transferred >>
  /\ UNCHANGED << steam, name, content, stamp, ok, batch, result, now, committed, touched >>

AllBlocksPut ==
  /\ pc = "blocks"
  /\ put = Blocks
  /\ pc' = "commit"
  /\ UNCHANGED << steam, upload, result, now, committed, touched >>

\* Steam commits, and shows what it was sent, or it does not; the answer may
\* be lost either way.
Commit ==
  /\ pc = "commit"
  /\ pc' = "complete"
  /\ \/ /\ transferred
        /\ steam' = [steam EXCEPT ![name] =
                       [content |-> IF put = Blocks THEN content ELSE Torn, time |-> stamp]]
        /\ committed' = TRUE
        /\ ok' \in BOOLEAN
     \/ UNCHANGED << steam, committed, ok >>
  /\ UNCHANGED << name, content, stamp, put, transferred, batch, result, now, touched >>

\* The batch is told how the transfer went, whatever happened.
Complete ==
  /\ pc = "complete"
  /\ batch' = IF ok THEN "ok" ELSE "failed"
  /\ \/ ok /\ pc' = "verify" /\ UNCHANGED result
     \/ Return("failed")
  /\ UNCHANGED << steam, name, content, stamp, put, transferred, ok, now, committed, touched >>

\* Bug: the upload is taken for verified when its name is listed.
VerifyNameOnly ==
  /\ pc = "verify"
  /\ \/ Return("failed")
     \/ name \in Shown /\ Return("ok")
  /\ UNCHANGED << steam, upload, now, committed, touched >>

\* The slot's listing shows the uploaded file, or another, or fails.
Verify ==
  /\ pc = "verify"
  /\ \/ Return("failed")
     \/ name \in Shown /\ steam[name].content = content /\ Return("ok")
  /\ UNCHANGED << steam, upload, now, committed, touched >>

-----------------------------------------------------------------------------
Next ==
  \/ PeerWrites
  \/ Begin \/ BeginBatch \/ BeginFile \/ PutBlock \/ AllBlocksPut
  \/ Commit \/ Complete \/ Verify

Spec == Init /\ [][Next]_vars

-----------------------------------------------------------------------------
(* Properties. *)

\* A batch is never left open by an upload that has returned, whichever step
\* failed, and it is told of a success only if Steam has committed the file.
BatchIsToldTheTruth ==
  /\ pc = "idle" => batch # "open"
  /\ batch = "ok" => committed

\* "uploads, re-enumerates Cloud" (README): unless another computer wrote in
\* between, an upload that went well is the file the listing shows, so that
\* the verification does not reject it for another file of the slot.
CommittedIsShown == pc = "verify" /\ ~touched => Shown = {name}

\* The upload replaces the file as a whole or not at all, at most once, and
\* succeeds only if Steam shows the new one: it implements UploadContract.
Contract == INSTANCE UploadContract WITH
  shown  <- [n \in Names |-> IF steam[n] = None THEN None ELSE steam[n].content],
  job    <- IF pc = "idle" THEN None
            ELSE [name |-> name, content |-> content, replaced |-> committed],
  result <- result

UploadIsAtomic == Contract!Spec
=============================================================================
