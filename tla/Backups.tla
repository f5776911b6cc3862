------------------------------ MODULE Backups ------------------------------
(***************************************************************************)
(* The backups of one slot (src/core/src/backups.rs) and what relies on    *)
(* them: a pull, which backs up the save, replaces it and rolls back on    *)
(* failure (Engine::pull_one), and a queued restore, which backs up the    *)
(* save and replaces it by an older backup (apply_pending_restore,         *)
(* BackupManager::restore_local).  The save file itself is written by      *)
(* AtomicWrite, step by step.                                              *)
(*                                                                         *)
(* A backup is two files, the data and then its manifest.  Each is written *)
(* by the same atomic write, here in one step that may leave the file and  *)
(* still fail.  The catalog is the manifests in the order of their time    *)
(* stamps, newest first: a new one comes first unless the clock was set    *)
(* back.                                                                   *)
(***************************************************************************)
EXTENDS AtomicWrite, Naturals, FiniteSets, SequencesExt

CONSTANTS
  Ids,          \* bound: the backups that exist at a time
  Sources,      \* values of BackupSource
  Retain,       \* RETAIN_PER_SLOT_AND_SOURCE
  ClockSteps,   \* may the device's clock be set back?
  None

VARIABLES
  data,         \* id -> content of the data file, or None
  catalog,      \* the manifests, newest first
  queued,       \* pending_local_restore: an id, or None
  op,           \* what is under way: a record, or None
  made          \* history: source -> backups made so far, counted up to Retain

backups == << data, catalog, queued, made >>
vars    == << write, backups, op >>

Record    == [id : Ids, source : Sources]
Operation ==
  [kind    : {"archive", "pull", "restore", "rollback"},
   pc      : {"data", "manifest", "retain", "unlist", "read", "replace"},
   source  : Sources,               \* of the backup being made
   saving  : Contents,              \* its content
   id      : Ids \cup {None},       \* its id
   victims : SUBSET Ids,            \* what retention still has to remove
   victim  : Ids \cup {None},       \* what it is removing
   from    : Ids \cup {None},       \* the backup to restore
   target  : Contents \cup {None},  \* the content to write, once it is read
   old     : Contents]              \* history: the save when the pull began

ASSUME BackupsAssumption ==
  /\ None \notin Ids \cup Contents \cup Operation
  /\ {"LocalBeforePull", "LocalBeforeRestore"} \subseteq Sources
  /\ Retain \in Nat \ {0}
  /\ ClockSteps \in BOOLEAN

TypeOK ==
  /\ AtomicTypeOK
  /\ data \in [Ids -> Contents \cup {None}]
  /\ catalog \in Seq(Record)
  /\ queued \in Ids \cup {None}
  /\ op \in Operation \cup {None}
  /\ made \in [Sources -> 0..Retain]

Listed == {catalog[i].id : i \in DOMAIN catalog}
Of(source) == {catalog[i].id : i \in {j \in DOMAIN catalog : catalog[j].source = source}}

\* BackupManager::verify: the data file is there, as it was written.
Intact == {id \in Ids : data[id] # None}
Kept   == {data[id] : id \in Listed \cap Intact}

Init ==
  /\ AtomicInit
  /\ data = [id \in Ids |-> None]
  /\ catalog = << >>
  /\ queued = None
  /\ op = None
  /\ made = [s \in Sources |-> 0]

-----------------------------------------------------------------------------
(* The world. *)

GameSave ==
  /\ op = None
  /\ \E c \in Contents \ {file} : file' = c /\ survivors' = {c}
  /\ outcome' = "none"
  /\ UNCHANGED << temp, wpc, bytes, before, backups, op >>

\* The app is killed, or the device goes down. Backups and manifests were
\* made durable when they were written.
Dies ==
  /\ Crash
  /\ op' = None
  /\ UNCHANGED backups

\* restore_backup verifies a listed backup and queues it.
Queue ==
  /\ op = None
  /\ \E id \in (Listed \cap Intact) \ {queued} : queued' = id
  /\ UNCHANGED << write, data, catalog, made, op >>

-----------------------------------------------------------------------------
(* backup_bytes *)

\* Operations start with the backup of `saving`.
Start(kind, source, saving, from, target) ==
  op' = [kind |-> kind, pc |-> "data", source |-> source, saving |-> saving,
         id |-> None, victims |-> {}, victim |-> None, from |-> from,
         target |-> target, old |-> file]

Fail == op' = None

\* A backup for its own sake, of the save or of bytes from Steam.
Archive ==
  /\ op = None
  /\ \E source \in Sources \ {"LocalBeforePull", "LocalBeforeRestore"}, c \in Contents :
       Start("archive", source, c, None, None)
  /\ UNCHANGED << write, backups >>

Pull ==
  /\ op = None
  /\ \E c \in Contents \ {file} : Start("pull", "LocalBeforePull", file, None, c)
  /\ UNCHANGED << write, backups >>

\* A Rep+ backup is read before the save is backed up, any other after it.
\* A queued backup that does not verify fails, and stays queued.
Restore ==
  /\ op = None
  /\ queued \in Listed \cap Intact
  /\ \E target \in {None, data[queued]} :
       Start("restore", "LocalBeforeRestore", file, queued, target)
  /\ UNCHANGED << write, backups >>

\* Bug: a backup is never listed.
BackupUnlisted ==
  /\ op # None /\ op.pc = "data"
  /\ \E id \in (Ids \ (Intact \cup Listed \cup {queued, op.from})) :
       /\ data' = [data EXCEPT ![id] = op.saving]
       /\ op' = [op EXCEPT !.pc = "retain", !.id = id]
  /\ UNCHANGED << write, catalog, queued, made >>

\* A fresh identifier; the data file is written, or not, or both it is and the
\* write reports an error.
BackupData ==
  /\ op # None /\ op.pc = "data"
  /\ \E id \in (Ids \ (Intact \cup Listed \cup {queued, op.from})) :
       \/ /\ data' = [data EXCEPT ![id] = op.saving]
          /\ \/ op' = [op EXCEPT !.pc = "manifest", !.id = id]
             \/ Fail
       \/ Fail /\ UNCHANGED data
  /\ UNCHANGED << write, catalog, queued, made >>

\* Where a manifest stamped now comes in the order of time.
Places == IF ClockSteps THEN 1..Len(catalog) + 1 ELSE {1}

\* Bug: off by one.
BeyondOneLess(cat, source) ==
  {cat[i].id : i \in {j \in DOMAIN cat :
     /\ cat[j].source = source
     /\ Cardinality({k \in 1..j : cat[k].source = source}) >= Retain}}

\* apply_retention: all but the newest Retain of the same source.
Beyond(cat, source) ==
  {cat[i].id : i \in {j \in DOMAIN cat :
     /\ cat[j].source = source
     /\ Cardinality({k \in 1..(j - 1) : cat[k].source = source}) >= Retain}}

BackupManifest ==
  /\ op # None /\ op.pc = "manifest"
  /\ \/ Fail /\ UNCHANGED << catalog, made >>
     \/ /\ \E place \in Places :
             catalog' = InsertAt(catalog, place, [id |-> op.id, source |-> op.source])
        /\ made' = [made EXCEPT ![op.source] = IF @ = Retain THEN @ ELSE @ + 1]
        /\ \/ op' = [op EXCEPT !.pc = "retain", !.victims = Beyond(catalog', op.source)]
           \/ Fail
  /\ UNCHANGED << write, data, queued >>

\* The data file goes first, then the manifest; a removal that fails is ignored.
RetainData ==
  /\ op # None /\ op.pc = "retain"
  /\ \E id \in op.victims :
       /\ op' = [op EXCEPT !.pc = "unlist", !.victim = id]
       /\ data' \in {data, [data EXCEPT ![id] = None]}
  /\ UNCHANGED << write, catalog, queued, made >>

RetainManifest ==
  /\ op # None /\ op.pc = "unlist"
  /\ op' = [op EXCEPT !.pc = "retain", !.victims = @ \ {op.victim}, !.victim = None]
  /\ \/ UNCHANGED catalog
     \/ \E i \in DOMAIN catalog :
          catalog[i].id = op.victim /\ catalog' = RemoveAt(catalog, i)
  /\ UNCHANGED << write, data, queued, made >>

\* The backup is made.
BackedUp ==
  /\ op # None /\ op.pc = "retain" /\ op.victims = {}
  /\ op' = IF op.kind = "archive" THEN None ELSE [op EXCEPT !.pc = "read"]
  /\ UNCHANGED << write, backups >>

-----------------------------------------------------------------------------
(* pull_one and restore_local: the replacement of the save. *)

\* Bug: the backup is read without looking whether it is there.
ReadUnverified ==
  /\ op # None /\ op.pc = "read"
  /\ Begin(IF op.target # None THEN op.target ELSE data[op.from])
  /\ op' = [op EXCEPT !.pc = "replace"]
  /\ UNCHANGED backups

\* Bug: a restore takes the backup it has just made.
ReadNewest ==
  /\ op # None /\ op.pc = "read"
  /\ LET c == IF op.target # None THEN op.target ELSE data[op.id]
     IN IF c = None THEN Fail /\ UNCHANGED write
        ELSE Begin(c) /\ op' = [op EXCEPT !.pc = "replace"]
  /\ UNCHANGED backups

\* What is to be written: in hand, or read from the backup now.
ReadTarget ==
  /\ op # None /\ op.pc = "read"
  /\ LET c == IF op.target # None THEN op.target ELSE data[op.from]
     IN IF c = None THEN Fail /\ UNCHANGED write
        ELSE Begin(c) /\ op' = [op EXCEPT !.pc = "replace"]
  /\ UNCHANGED backups

Write ==
  /\ op # None /\ op.pc = "replace"
  /\ WriteStep
  /\ UNCHANGED << backups, op >>

Written == op # None /\ op.pc = "replace" /\ wpc = "idle"

\* A pull whose write failed, or whose result could not be verified, is rolled
\* back: restore_local of its own backup, if that can still be read.
RollBack ==
  /\ Written
  /\ op.kind = "pull"
  /\ \/ /\ op.id \in Listed \cap Intact
        /\ op' = [op EXCEPT !.kind = "rollback", !.pc = "data", !.source = "LocalBeforeRestore",
                            !.saving = file, !.id = None, !.from = op.id, !.target = None]
     \/ Fail
  /\ UNCHANGED << write, backups >>

\* Bug: the queue is cleared whether or not the restore worked.
FinishAnyway ==
  /\ Written
  /\ op' = None
  /\ IF op.kind = "restore" THEN queued' = None ELSE UNCHANGED queued
  /\ UNCHANGED << write, data, catalog, made >>

\* Success; a restore leaves the queue, unless the state cannot be saved.
Finish ==
  /\ Written
  /\ outcome = "ok"
  /\ op' = None
  /\ IF op.kind = "restore" THEN queued' \in {None, queued} ELSE UNCHANGED queued
  /\ UNCHANGED << write, data, catalog, made >>

\* A restore or a rollback whose write failed or could not be verified.
GiveUp ==
  /\ Written
  /\ op.kind \in {"restore", "rollback"}
  /\ Fail
  /\ UNCHANGED << write, backups >>

-----------------------------------------------------------------------------
Next ==
  \/ GameSave \/ Dies \/ Queue
  \/ Archive \/ Pull \/ Restore
  \/ BackupData \/ BackupManifest \/ RetainData \/ RetainManifest \/ BackedUp
  \/ ReadTarget \/ Write \/ RollBack \/ Finish \/ GiveUp

Spec == Init /\ [][Next]_vars

-----------------------------------------------------------------------------
(* Properties. *)

\* "At least 12 backups per slot and source are retained" (README): at every
\* moment, crashes between two removals included, the newest Retain backups
\* of a source, or all of them if there are fewer, can be restored.
EnoughKept == \A s \in Sources : Cardinality(Of(s) \cap Intact) >= made[s]

\* "Downloads never overwrite a live save directly": what a rename replaces is
\* in a listed, intact backup.
ReplacedIsKept ==
  [][wpc = "rename" /\ wpc' = "sync_dir" => file \in Kept]_vars

\* "atomic save replacement failed; old save restored": a rollback that ends
\* well has put back the save the pull found.
RollbackRestores ==
  [][Finish /\ op.kind = "rollback" => file = op.old /\ survivors = {file}]_vars

\* A restore leaves the queue only when the save durably is the queued backup.
DequeuedIsRestored ==
  [][queued # None /\ queued' = None => data[queued] \in {None, file} /\ survivors = {file}]_vars

-----------------------------------------------------------------------------
(* What the repository says and the code does not do (violation run). *)

\* "The backup will be verified now, then restored before game initialization
\* on your next launch" (IsaacCloudUI.m): a restore that has verified its
\* backup still finds it when it comes to write it.
VerifiedIsRestored ==
  op # None /\ op.kind = "restore" /\ op.pc = "read" => data[op.from] # None
=============================================================================
