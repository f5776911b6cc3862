------------------------------ MODULE SlotSync ------------------------------
(***************************************************************************)
(* Three-way synchronization of the save slots (src/core/src/engine.rs,    *)
(* sync_engine.rs): the file on the iPhone, the file on Steam, and BASE,   *)
(* the version the state file records as common to both.                   *)
(*                                                                         *)
(* Four actors touch these: the game, which rewrites the local file; a     *)
(* peer (another computer), which rewrites the Steam file; the operation   *)
(* on the engine's lane, one action per stretch of code between two        *)
(* awaits; and the preflight thread, which applies a queued restore.  The  *)
(* app may be killed between any two steps.                                *)
(*                                                                         *)
(* The code does not coordinate with the first two, and only partly keeps  *)
(* the lane and the preflight thread apart.  A plan says what the world    *)
(* around the engine does in a behaviour: which slots are in use, what the *)
(* peer may leave on Steam, which operations the user asks for ("sync",    *)
(* "force", "restore"), how often each other event happens (a bound), and  *)
(* which actors are orderly:                                               *)
(*   "game"  does not save before ICSCorePreflight has returned            *)
(*   "host"  starts no operation before that either                        *)
(*   "peer"  does not touch Steam while an operation runs                  *)
(***************************************************************************)
EXTENDS Naturals, FiniteSets

CONSTANTS
  Slots,        \* the save slots
  Versions,     \* canonical contents of a save
  Corrupt,      \* content that canonicalize_save rejects
  None,         \* no version, no file, no queue entry, no operation
  Plans         \* the plans of the world, see above

Contents == Versions \cup {Corrupt}
Files    == [v : Contents, lz4 : BOOLEAN]      \* lz4: the framing native iOS writes

\* What the user is asked about a slot.
ChoiceKinds == {"missing", "first_sync", "conflict", "restart"}

ASSUME ConstantsAssumption ==
  /\ Slots # {}
  /\ Corrupt \notin Versions
  /\ None \notin Versions \cup {Corrupt} \cup Files \cup ChoiceKinds
  /\ None \notin [Slots -> Versions \cup {None}]
  /\ Plans \subseteq [slots   : (SUBSET Slots) \ {{}},
                     files   : SUBSET Files,
                     orderly : SUBSET {"game", "host", "peer"},
                     user    : SUBSET {"sync", "force", "restore"},
                     game    : Nat, peer : Nat, launch : Nat]

VARIABLES
  local,      \* slot -> content of the save file, or None
  remote,     \* slot -> file on Steam, or None
  vault,      \* slot -> contents with a backup
  disk,       \* the state file: BASE, queued pulls, queued restore
  snap,       \* Engine.preflight_saves: slot -> identity, or None
  allowed,    \* Engine.replacement_allowed
  choices,    \* StatusSnapshot.pending_choices: slot -> kind, or None
  op,         \* the operation on the lane, or None
  pf,         \* where the preflight thread stands
  pfMem,      \* the state apply_pending_restore has loaded
  plan,       \* the plan of this behaviour; its bounds count down
  approved,   \* history: slot -> the Steam file the user queued last, or None
  spent,      \* history: slots whose queued file has been applied
  late,       \* history: slots whose queued restore, in this launch, replaced the
              \* save and then failed
  touched,    \* history: what game ("phone") and peer ("steam") rewrote while the
              \* operation ran, as pairs of a side and a slot
  onPhone,    \* history: slot -> contents the save file has had
  onSteam     \* history: slot -> contents the Steam file has had

engine  == << disk, snap, allowed, choices, op, pf, pfMem >>
history == << approved, spent, late, touched, onPhone, onSteam >>
vars    == << local, remote, vault, engine, plan, history >>

State    == [base    : [Slots -> Versions \cup {None}],
             pulls   : [Slots -> Files \cup {None}],
             restore : [slot : Slots, v : Versions] \cup {None}]

SyncKinds   == {"prelaunch", "auto", "manual"}
ForceKinds  == {"keep_local", "keep_remote", "resolve_local"}
Pcs == {"enter", "list", "slot", "download", "decide", "pull", "pull_write", "push",
        "push_assert", "push_upload", "push_verify", "save",
        "force_list", "force_download", "force_save", "queue_save"}

Operation ==
  [kind     : SyncKinds \cup ForceKinds \cup {"restore"},
   pc       : Pcs,
   slot     : Slots \cup {None},                       \* the slot at hand
   todo     : SUBSET Slots,                    \* slots still to compare
   done     : SUBSET Slots,                    \* slots already compared
   mine     : [Slots -> Versions \cup {None}], \* local identities
   listed   : [Slots -> Files \cup {None}],    \* what the enumeration said
   bytes    : Files,                           \* what the download returned
   staged   : Versions \cup {None},                        \* the stable copy to upload
   mem      : State,                           \* the state loaded from disk
   waiting  : BOOLEAN,                         \* uploads_waiting > 0
   found    : [Slots -> ChoiceKinds \cup {None}]]

TypeOK ==
  /\ local \in [Slots -> Versions \cup {None}]
  /\ remote \in [Slots -> Files \cup {None}]
  /\ vault \in [Slots -> SUBSET Contents]
  /\ disk \in State
  /\ snap \in [Slots -> Versions \cup {None}] \cup {None}
  /\ allowed \in BOOLEAN
  /\ choices \in [Slots -> ChoiceKinds \cup {None}]
  /\ op \in Operation \cup {None}
  /\ pf \in {"captured", "opened", "restore", "restore_write", "restore_save", "spawn",
              "waiting", "done"}
  /\ pfMem \in State
  /\ \E p \in Plans : /\ plan \in [slots : {p.slots}, files : {p.files}, orderly : {p.orderly},
                                  user : {p.user}, game : 0 .. p.game, peer : 0 .. p.peer,
                                  launch : 0 .. p.launch]
  /\ approved \in [Slots -> Files \cup {None}]
  /\ spent \in SUBSET Slots
  /\ late \in SUBSET Slots
  /\ touched \in SUBSET ({"phone", "steam"} \X Slots)
  /\ onPhone \in [Slots -> SUBSET Versions]
  /\ onSteam \in [Slots -> SUBSET Contents]

ContentOf(f) == IF f = None THEN {} ELSE {f.v}

\* The two histories of contents follow the files.
SavedAs(s, v)    == onPhone' = [onPhone EXCEPT ![s] = @ \cup {v}] /\ UNCHANGED onSteam
UploadedAs(s, f) == onSteam' = [onSteam EXCEPT ![s] = @ \cup ContentOf(f)] /\ UNCHANGED onPhone

\* What earlier launches may have left: for a slot in use any two files, and
\* no BASE or one that both sides have had. Engine::new has captured the local
\* identities.
EmptyState == [base |-> [s \in Slots |-> None], pulls |-> [s \in Slots |-> None],
               restore |-> None]

\* What the game may save: the versions of the plan's files.
Played   == {f.v : f \in plan.files} \ {Corrupt}
InUse(f) == \A s \in Slots \ plan.slots : f[s] = None

Init ==
  /\ plan \in Plans
  /\ local \in [Slots -> Versions \cup {None}] /\ InUse(local)
  /\ \A s \in plan.slots : local[s] \in Played
  /\ remote \in [Slots -> plan.files \cup {None}] /\ InUse(remote)
  /\ vault = [s \in Slots |-> {}]
  /\ \E base \in [Slots -> Played \cup {None}] :
       InUse(base) /\ disk = [EmptyState EXCEPT !.base = base]
  /\ snap = local
  /\ allowed = FALSE
  /\ choices = [s \in Slots |-> None]
  /\ op = None
  /\ pf = "captured"
  /\ pfMem = EmptyState
  /\ approved = [s \in Slots |-> None]
  /\ spent = {}
  /\ late = {}
  /\ touched = {}
  /\ onPhone = [s \in Slots |-> {local[s], disk.base[s]} \ {None}]
  /\ onSteam = [s \in Slots |-> (ContentOf(remote[s]) \cup {disk.base[s]}) \ {None}]

-----------------------------------------------------------------------------
(* The world around the engine. *)

GameSave(s) ==
  /\ s \in plan.slots
  /\ "game" \in plan.orderly => pf = "done"
  /\ plan.game > 0
  /\ plan' = [plan EXCEPT !.game = @ - 1]
  /\ touched' = touched \cup {<<"phone", s>>}
  /\ \E v \in Played \ {local[s]} : local' = [local EXCEPT ![s] = v] /\ SavedAs(s, v)
  /\ UNCHANGED << remote, vault, engine, approved, spent, late >>

\* Another computer uploads, re-uploads an older save, or deletes the file.
PeerSave(s) ==
  /\ s \in plan.slots
  /\ "peer" \in plan.orderly => op = None
  /\ plan.peer > 0
  /\ plan' = [plan EXCEPT !.peer = @ - 1]
  /\ touched' = touched \cup {<<"steam", s>>}
  /\ \E f \in (plan.files \cup {None}) \ {remote[s]} :
       remote' = [remote EXCEPT ![s] = f] /\ UploadedAs(s, f)
  /\ UNCHANGED << local, vault, engine, approved, spent, late >>

\* The app is killed, or quits, and is launched again: what was not written
\* to disk is gone, and Engine::new captures the local identities.
Relaunch ==
  /\ plan.launch > 0
  /\ plan' = [plan EXCEPT !.launch = @ - 1]
  /\ snap' = local
  /\ allowed' = FALSE
  /\ choices' = [s \in Slots |-> None]
  /\ op' = None
  /\ pf' = "captured"
  /\ pfMem' = EmptyState
  /\ late' = {}
  /\ UNCHANGED << local, remote, vault, disk, approved, spent, touched, onPhone, onSteam >>

-----------------------------------------------------------------------------
(* The preflight thread: Engine::preflight and apply_pending_restore. *)

PreflightOpen ==
  /\ pf = "captured"
  /\ allowed' = TRUE
  /\ pf' = "opened"
  /\ UNCHANGED << local, remote, vault, disk, snap, choices, op, pfMem, plan, history >>

\* The state is loaded; without a queued restore there is nothing more to do.
RestoreLoad ==
  /\ pf = "opened"
  /\ IF disk.restore = None
     THEN pf' = "spawn" /\ UNCHANGED pfMem
     ELSE pf' = "restore" /\ pfMem' = disk
  /\ UNCHANGED << local, remote, vault, disk, snap, allowed, choices, op, plan, history >>

\* apply_pending_restore returns an error: logged, and the launch goes on.
SkipRestore == pf' = "spawn" /\ pfMem' = EmptyState

\* The queued backup is verified, and the save it will replace backed up; from
\* here to RestoreSave the guard keeps a pull away.
RestoreBackup ==
  /\ pf = "restore"
  /\ op # None => op.pc # "pull_write"
  /\ \/ /\ vault' = [vault EXCEPT ![pfMem.restore.slot] = @ \cup {local[pfMem.restore.slot]}]
        /\ pf' = "restore_write"
        /\ UNCHANGED pfMem
     \/ SkipRestore /\ UNCHANGED vault
  /\ UNCHANGED << local, remote, disk, snap, allowed, choices, op, plan, history >>

\* The backup replaces the save, and its identity goes into the snapshot the
\* prelaunch sync will compare. The replacement may fail; and what follows it
\* may (the sync of the directory, the second verification, reading the
\* identity): then the save is replaced, and snapshot and queue are as before.
RestoreWrite ==
  /\ pf = "restore_write"
  /\ LET s == pfMem.restore.slot
         v == pfMem.restore.v
     IN \/ /\ local' = [local EXCEPT ![s] = v]
           /\ SavedAs(s, v)
           /\ \/ /\ snap' = [IF snap = None THEN [t \in Slots |-> None] ELSE snap
                               EXCEPT ![s] = v]
                 /\ pf' = "restore_save"
                 /\ UNCHANGED << pfMem, late >>
              \/ SkipRestore /\ late' = late \cup {s} /\ UNCHANGED snap
        \/ SkipRestore /\ UNCHANGED << local, snap, late, onPhone, onSteam >>
  /\ UNCHANGED << remote, vault, disk, allowed, choices, op, plan, approved, spent, touched >>

\* The state loaded before the restore goes back to disk without the queue entry.
RestoreSave ==
  /\ pf = "restore_save"
  /\ \/ disk' = [pfMem EXCEPT !.restore = None]
     \/ UNCHANGED disk                                   \* the save fails, logged
  /\ pf' = "spawn"
  /\ pfMem' = EmptyState
  /\ UNCHANGED << local, remote, vault, snap, allowed, choices, op, plan,
                  history >>

\* Engine::preflight ends: the lane is free again or the deadline has passed,
\* and no pull is between its permission check and its write.
PreflightClose ==
  /\ pf = "waiting"
  /\ op # None => op.pc # "pull_write"
  /\ allowed' = FALSE
  /\ pf' = "done"
  /\ UNCHANGED << local, remote, vault, disk, snap, choices, op, pfMem, plan,
                  history >>

\* The lane is taken: preflight returns at once.
PreflightSkip ==
  /\ pf = "spawn"
  /\ op # None
  /\ allowed' = FALSE
  /\ pf' = "done"
  /\ UNCHANGED << local, remote, vault, disk, snap, choices, op, pfMem, plan,
                  history >>

-----------------------------------------------------------------------------
(* Starting an operation. *)

NoBytes == [v |-> Corrupt, lz4 |-> FALSE]      \* nothing downloaded yet

InOp(pc) == op # None /\ op.pc = pc
Goto(pc) == op' = [op EXCEPT !.pc = pc]

\* What the histories count as rewritten meanwhile starts anew, but for a file
\* that the preflight thread is about to replace.
Begin(kind, mem, pc, s) ==
  /\ op = None
  /\ op' = [kind |-> kind, pc |-> pc, slot |-> s,
            todo |-> {}, done |-> {},
            mine |-> [t \in Slots |-> None], listed |-> [t \in Slots |-> None],
            bytes |-> NoBytes, staged |-> None,
            mem |-> mem, waiting |-> FALSE, found |-> [t \in Slots |-> None]]
  /\ touched' = IF pf = "restore_write" THEN touched \cap {<<"phone", pfMem.restore.slot>>}
                 ELSE {}
  /\ UNCHANGED << local, remote, vault, disk, snap, allowed, pfMem, plan, approved, spent, late,
                  onPhone, onSteam >>

BeginSync(kind) == Begin(kind, EmptyState, "enter", None)

StartPrelaunch ==
  /\ pf = "spawn"
  /\ BeginSync("prelaunch")
  /\ pf' = "waiting"
  /\ UNCHANGED choices

\* Foreground, login and retry syncs ("auto"), and the user's Sync Now.
StartSync ==
  /\ "sync" \in plan.user
  /\ "host" \in plan.orderly => pf = "done"
  /\ \E kind \in {"auto", "manual"} : BeginSync(kind)
  /\ UNCHANGED << pf, choices >>

\* force, or resolve_choice, which wants a pending choice for the slot. The two
\* differ only in what follows keeping the local save.
StartForce(s) ==
  /\ "force" \in plan.user
  /\ "host" \in plan.orderly => pf = "done"
  /\ \E kind \in ForceKinds :
       /\ kind = "resolve_local" => choices[s] # None
       /\ Begin(kind, EmptyState, "force_list", s)
  /\ UNCHANGED << pf, choices >>

\* restore_backup verifies the backup and queues it in the state file.
QueueRestore(s) ==
  /\ "restore" \in plan.user
  /\ "host" \in plan.orderly => pf = "done"
  /\ \E v \in vault[s] \cap Versions :
       Begin("restore", [disk EXCEPT !.restore = [slot |-> s, v |-> v]], "queue_save", s)
  /\ UNCHANGED << pf, choices >>

QueueSave ==
  /\ InOp("queue_save")
  /\ disk' = op.mem
  /\ op' = None
  /\ UNCHANGED << local, remote, vault, snap, allowed, choices, pf, pfMem, plan, history >>

\* The task returns Err: the state in memory is dropped with it.
Fail == op' = None /\ UNCHANGED << disk, choices >>

\* Any network call and any file operation of the operation may fail.
OperationFails ==
  /\ op # None
  /\ Fail
  /\ UNCHANGED << local, remote, vault, snap, allowed, pf, pfMem, plan, history >>

-----------------------------------------------------------------------------
(* run_sync *)

\* Bug: a slot's choice replaces those of the slots before it.
NextSlotForgets(o, kind) ==
  [o EXCEPT !.pc = "slot", !.slot = None, !.bytes = NoBytes, !.staged = None,
            !.todo = @ \ {o.slot}, !.done = @ \cup {o.slot},
            !.found = [s \in Slots |-> IF s = o.slot THEN kind ELSE None]]

\* The slot is finished: with a choice for the user, or without one.
NextSlot(o, kind) ==
  [o EXCEPT !.pc = "slot", !.slot = None, !.bytes = NoBytes, !.staged = None,
            !.todo = @ \ {o.slot}, !.done = @ \cup {o.slot}, !.found[o.slot] = kind]

\* run_sync withdraws the pending choices before it talks to Steam.
SyncEnter ==
  /\ InOp("enter")
  /\ choices' = [s \in Slots |-> None]
  /\ Goto("list")
  /\ UNCHANGED << local, remote, vault, disk, snap, allowed, pf, pfMem, plan,
                  history >>

\* The enumeration arrived. Local identities: the construction-time snapshot,
\* consumed, for the prelaunch; otherwise the files as they are now. The state
\* file is loaded here, once. Without any save to compare the operation fails.
SyncBegin ==
  /\ InOp("list")
  /\ op.kind = "prelaunch" => snap # None
  /\ LET mine == IF op.kind = "prelaunch" THEN snap ELSE local
         todo == {s \in Slots : mine[s] # None /\ (remote[s] # None \/ op.kind = "manual")}
     IN \/ /\ todo # {}
           /\ op' = [op EXCEPT !.pc = "slot", !.todo = todo, !.mine = mine,
                               !.listed = remote, !.mem = disk]
           /\ UNCHANGED << disk, choices >>
        \/ todo = {} /\ Fail
  /\ snap' = IF op.kind = "prelaunch" THEN None ELSE snap
  /\ UNCHANGED << local, remote, vault, allowed, pf, pfMem, plan, history >>

\* Take up a slot. One that Steam does not have is backed up and left to the user.
SyncSlot ==
  /\ InOp("slot")
  /\ \E s \in op.todo :
       IF op.listed[s] = None
       THEN /\ op' = NextSlot([op EXCEPT !.slot = s], "missing")
            /\ vault' = [vault EXCEPT ![s] = @ \cup {local[s]}]
       ELSE /\ op' = [op EXCEPT !.slot = s, !.pc = "download"]
            /\ UNCHANGED vault
  /\ UNCHANGED << local, remote, disk, snap, allowed, choices, pf, pfMem, plan,
                  history >>

\* Bug: content is accepted without decoding it.
SyncDownloadUnchecked ==
  /\ InOp("download")
  /\ remote[op.slot] # None
  /\ op' = [op EXCEPT !.bytes = remote[op.slot], !.pc = "decide"]
  /\ UNCHANGED << local, remote, vault, disk, snap, allowed, choices, pf, pfMem, plan,
                  history >>

\* The download returns the file Steam has now, which may be newer than the
\* one enumerated: it is checked against the SHA-1 of its own response.
\* Content that does not decode is backed up, and fails the operation.
SyncDownload ==
  /\ InOp("download")
  /\ remote[op.slot] # None
  /\ IF remote[op.slot].v = Corrupt
     THEN /\ vault' = [vault EXCEPT ![op.slot] = @ \cup {Corrupt}]
          /\ Fail
     ELSE /\ op' = [op EXCEPT !.bytes = remote[op.slot], !.pc = "decide"]
          /\ UNCHANGED << vault, disk, choices >>
  /\ UNCHANGED << local, remote, snap, allowed, pf, pfMem, plan, history >>

\* sync_engine.rs
Decide(base, mine, theirs) ==
  IF base = None
  THEN IF mine = theirs THEN "converged" ELSE "first_sync"
  ELSE CASE mine = base /\ theirs = base -> "unchanged"
         [] mine # base /\ theirs = base -> "upload"
         [] mine = base /\ theirs # base -> "download"
         [] mine # base /\ theirs # base -> IF mine = theirs THEN "converged" ELSE "conflict"

Mine     == op.mine[op.slot]
Theirs   == op.bytes.v
Queued   == op.mem.pulls[op.slot]
Decision == Decide(op.mem.base[op.slot], Mine, Theirs)

\* Bug: the queue entry is taken for whatever file Steam has by now.
QueuedAtAll == Queued # None

\* The user queued exactly the file that was enumerated.
QueuedIsListed == Queued # None /\ Queued = op.listed[op.slot]

\* A queue entry for another file than the one enumerated is dropped.
Dequeued == [op EXCEPT !.mem.pulls[op.slot] = None]

\* pull_one starts at once, or the user is asked to relaunch.
PullOrAsk(o) ==
  op' = IF allowed THEN [o EXCEPT !.pc = "pull"] ELSE NextSlot(o, "restart")

\* Bug: automatic checks upload too.
PushAlways(o) == op' = [o EXCEPT !.pc = "push"]

\* Bug: BASE moves to the local save although its upload is only waiting.
PushOrRecord(o) ==
  op' = IF o.kind = "manual" THEN [o EXCEPT !.pc = "push"]
        ELSE [NextSlot(o, None) EXCEPT !.waiting = TRUE, !.mem.base[o.slot] = Mine]

\* push_one on Sync Now; every other trigger only reports the waiting upload.
PushOrWait(o) ==
  op' = IF o.kind = "manual" THEN [o EXCEPT !.pc = "push"]
        ELSE [NextSlot(o, None) EXCEPT !.waiting = TRUE]

SyncDecide ==
  /\ InOp("decide")
  /\ LET s == op.slot
         o == Dequeued
     IN \/ /\ QueuedIsListed
           /\ PullOrAsk(op)
           /\ UNCHANGED vault
        \/ /\ ~QueuedIsListed
           /\ \/ /\ Decision = "unchanged"
                 /\ IF op.bytes.lz4 THEN PushOrWait(o) ELSE op' = NextSlot(o, None)
                 /\ UNCHANGED vault
              \/ /\ Decision = "converged"
                 /\ LET based == [o EXCEPT !.mem.base[s] = Mine]
                    IN IF op.bytes.lz4
                       THEN PushOrWait(IF op.kind = "manual" THEN o ELSE based)
                       ELSE op' = NextSlot(based, None)
                 /\ UNCHANGED vault
              \/ Decision = "upload" /\ PushOrWait(o) /\ UNCHANGED vault
              \/ Decision = "download" /\ PullOrAsk(o) /\ UNCHANGED vault
              \/ /\ Decision \in {"first_sync", "conflict"}
                 /\ vault' = [vault EXCEPT ![s] = @ \cup {local[s], Theirs}]
                 /\ op' = NextSlot(o, Decision)
  /\ UNCHANGED << local, remote, disk, snap, allowed, choices, pf, pfMem, plan,
                  history >>

\* Every slot is done: the state is saved once, and the verdict published.
Verdict(o) ==
  LET kinds == {o.found[s] : s \in Slots} \ {None}
  IN IF kinds = {} /\ ~o.waiting THEN "idle"
     ELSE IF "conflict" \in kinds THEN "conflict"
     ELSE IF "restart" \in kinds THEN "restart_required"
     ELSE IF o.waiting THEN "upload_required"
     ELSE "first_sync"

SyncSave ==
  /\ InOp("slot")
  /\ op.todo = {}
  /\ disk' = op.mem
  /\ choices' = op.found
  /\ op' = None
  /\ UNCHANGED << local, remote, vault, snap, allowed, pf, pfMem, plan, history >>

-----------------------------------------------------------------------------
(* pull_one *)

\* Under the guard: the permission again, then a backup of the file as it is now.
PullBackup ==
  /\ InOp("pull")
  /\ pf \notin {"restore_write", "restore_save"}
  /\ allowed
  /\ vault' = [vault EXCEPT ![op.slot] = @ \cup {local[op.slot]}]
  /\ Goto("pull_write")
  /\ UNCHANGED << local, remote, disk, snap, allowed, choices, pf, pfMem, plan,
                  history >>

\* The atomic replacement, and BASE. A replacement that fails, or cannot be
\* verified, is rolled back (OperationFails); the rollback may fail too.
PullWrite ==
  /\ InOp("pull_write")
  /\ local' = [local EXCEPT ![op.slot] = Theirs]
  /\ SavedAs(op.slot, Theirs)
  /\ \/ /\ op' = NextSlot([Dequeued EXCEPT !.mem.base[op.slot] = Theirs], None)
        /\ spent' = IF QueuedIsListed THEN spent \cup {op.slot} ELSE spent
     \/ op' = None /\ UNCHANGED spent
  /\ UNCHANGED << remote, vault, disk, snap, allowed, choices, pf, pfMem, plan,
                  approved, late, touched >>

-----------------------------------------------------------------------------
(* push_one and push_new: they differ in what must not have changed on Steam *)
(* (the listed file, or its absence) and in what is backed up.              *)

\* prepare_upload: a copy of the local file that stayed the same for a while.
PushPrepare ==
  /\ InOp("push")
  /\ op' = [op EXCEPT !.staged = local[op.slot], !.pc = "push_assert"]
  /\ UNCHANGED << local, remote, vault, disk, snap, allowed, choices, pf, pfMem,
                  plan, history >>

\* assert_remote_unchanged, against the enumeration.
RemoteUnchanged == remote[op.slot] = op.listed[op.slot]

\* Bug: the upload goes ahead without a backup of the Steam file.
PushUnbacked ==
  /\ InOp("push_assert")
  /\ RemoteUnchanged
  /\ Goto("push_upload")
  /\ UNCHANGED << local, remote, vault, disk, snap, allowed, choices, pf, pfMem, plan,
                  history >>

\* The last look at Steam, then the backup.
PushAssert ==
  /\ InOp("push_assert")
  /\ RemoteUnchanged
  /\ vault' = [vault EXCEPT ![op.slot] =
                 @ \cup {IF op.listed[op.slot] = None THEN local[op.slot] ELSE Theirs}]
  /\ Goto("push_upload")
  /\ UNCHANGED << local, remote, disk, snap, allowed, choices, pf, pfMem, plan,
                  history >>

\* The upload is committed. The answer may be lost (OperationFails).
PushUpload ==
  /\ InOp("push_upload")
  /\ LET f == [v |-> op.staged, lz4 |-> FALSE]
     IN remote' = [remote EXCEPT ![op.slot] = f] /\ UploadedAs(op.slot, f)
  /\ Goto("push_verify")
  /\ UNCHANGED << local, vault, disk, snap, allowed, choices, pf, pfMem, plan, approved,
                  spent, late, touched >>

\* Steam lists the uploaded SHA-1 and the local file is still what was staged.
PushVerify ==
  /\ InOp("push_verify")
  /\ remote[op.slot] = [v |-> op.staged, lz4 |-> FALSE]
  /\ local[op.slot] = op.staged
  /\ LET o == [op EXCEPT !.mem.base[op.slot] = op.staged]
     IN op' = IF op.kind \in ForceKinds THEN [o EXCEPT !.pc = "force_save"]
              ELSE NextSlot(o, None)
  /\ UNCHANGED << local, remote, vault, disk, snap, allowed, choices, pf, pfMem,
                  plan, history >>

-----------------------------------------------------------------------------
(* force_slot *)

ForceBegin ==
  /\ InOp("force_list")
  /\ local[op.slot] # None
  /\ LET o == [op EXCEPT !.listed = remote, !.mem = disk]
     IN \/ /\ remote[op.slot] # None
           /\ op' = [o EXCEPT !.pc = "force_download"]
        \/ /\ remote[op.slot] = None
           /\ op.kind # "keep_remote"
           /\ op' = [o EXCEPT !.pc = "push"]
  /\ UNCHANGED << local, remote, vault, disk, snap, allowed, choices, pf, pfMem,
                  plan, history >>

\* Both sides are backed up; then the local save is pushed, or the file that
\* was enumerated is queued for the next launch.
ForceDownload ==
  /\ InOp("force_download")
  /\ remote[op.slot] # None
  /\ vault' = [vault EXCEPT ![op.slot] = @ \cup {local[op.slot], remote[op.slot].v}]
  /\ LET o == [op EXCEPT !.bytes = remote[op.slot]]
     IN op' = IF op.kind # "keep_remote" THEN [o EXCEPT !.pc = "push"]
              ELSE [o EXCEPT !.mem.pulls[op.slot] = op.listed[op.slot], !.pc = "force_save"]
  /\ UNCHANGED << local, remote, disk, snap, allowed, choices, pf, pfMem, plan,
                  history >>

\* The state is saved and the choice withdrawn; resolving for the iPhone goes
\* on with a run_sync("resolution").
ForceSave ==
  /\ InOp("force_save")
  /\ disk' = op.mem
  /\ choices' = [choices EXCEPT ![op.slot] = None]
  /\ op' = IF op.kind = "resolve_local"
           THEN [op EXCEPT !.kind = "auto", !.pc = "enter"]
           ELSE None
  /\ IF op.kind = "keep_remote"
     THEN /\ approved' = [approved EXCEPT ![op.slot] = op.listed[op.slot]]
          /\ spent' = spent \ {op.slot}
     ELSE UNCHANGED << approved, spent >>
  /\ UNCHANGED << local, remote, vault, snap, allowed, pf, pfMem, plan, late, touched,
                  onPhone, onSteam >>

-----------------------------------------------------------------------------
World     == (\E s \in Slots : GameSave(s) \/ PeerSave(s)) \/ Relaunch
Preflight == \/ PreflightOpen \/ RestoreLoad \/ RestoreBackup \/ RestoreWrite \/ RestoreSave
             \/ StartPrelaunch \/ PreflightSkip \/ PreflightClose
User      == StartSync \/ \E s \in Slots : StartForce(s) \/ QueueRestore(s)
LaneStep  == \/ OperationFails
             \/ SyncEnter \/ SyncBegin \/ SyncSlot \/ SyncDownload \/ SyncDecide \/ SyncSave
             \/ PullBackup \/ PullWrite
             \/ PushPrepare \/ PushAssert \/ PushUpload \/ PushVerify
             \/ QueueSave \/ ForceBegin \/ ForceDownload \/ ForceSave

Next == World \/ Preflight \/ User \/ LaneStep

Spec == Init /\ [][Next]_vars

-----------------------------------------------------------------------------
(* Properties. *)

\* BASE is a version that the iPhone and Steam have both had: "BASE is the
\* last version verified on both sides" (sync_engine.rs). No sequence of
\* failed uploads, races and kills records anything else.
BaseWasVerified ==
  \A s \in Slots : disk.base[s] # None => disk.base[s] \in onPhone[s] \cap onSteam[s]

\* Steam changes only through Sync Now or an explicit choice for the iPhone:
\* "Automatic launch and foreground checks never upload" (README).
UploadsAreAsked ==
  [][\A s \in Slots : remote'[s] # remote[s] /\ ~PeerSave(s)
        => op # None /\ op.kind \in {"manual", "keep_local", "resolve_local"}]_vars

\* A pull overwrites the version both sides had in common, or brings the very
\* Steam file the user chose: a divergence is never resolved silently, if the
\* game and the user wait for the preflight. Two exceptions. What is pulled for
\* a choice is what the download returns, another file if another computer
\* replaced the chosen one after the enumeration. And after a restore that
\* replaced the save and then failed, the prelaunch sync compares the identity
\* of the file that is gone (ConflictsAreAsked).
PullIsJustified ==
  InOp("pull_write") /\ {"game", "host"} \subseteq plan.orderly =>
    \/ local[op.slot] = op.mem.base[op.slot]
    \/ /\ op.listed[op.slot] = approved[op.slot]
       /\ op.bytes = approved[op.slot] \/ <<"steam", op.slot>> \in touched
    \/ op.kind = "prelaunch" /\ op.slot \in late

\* The slots whose identity the operation took from a snapshot that a restore
\* has falsified.
Falsified == IF op.kind = "prelaunch" THEN late ELSE {}

\* "Steam Cloud is synchronized": every slot compared is the same on the
\* iPhone, on Steam and in BASE, unless someone rewrote it meanwhile. The game
\* and the user wait for the preflight: the prelaunch sync compares identities
\* taken when the dylib was loaded, and a queued restore looks at no operation.
\* A slot whose restore replaced the save and then failed is excepted from the
\* prelaunch sync of that launch, and from no other.
IdleMeansSynced ==
  [][SyncSave /\ Verdict(op) = "idle" /\ {"game", "host"} \subseteq plan.orderly =>
       \A s \in {t \in op.done \ Falsified :
                  {<<"phone", t>>, <<"steam", t>>} \cap touched = {}} :
         /\ ContentOf(remote[s]) = {local[s]}
         /\ disk'.base[s] = local[s]]_vars

\* The engine never invents content and never destroys the only copy of one,
\* except of a file whose owner rewrote it while the operation was running:
\* it implements SaveVault, whatever the game, the user, another computer and
\* kills do.
Promise == INSTANCE SaveVault WITH
  phone <- [s \in Slots |-> {local[s]} \ {None}],
  steam <- [s \in Slots |-> ContentOf(remote[s])],
  known <- [s \in Slots |-> onPhone[s] \cup onSteam[s]],
  raced <- touched,
  left  <- plan.game + plan.peer

SavesAreKept == Promise!Spec

-----------------------------------------------------------------------------
(* What the repository says and the code does not do (violation runs). *)

\* "Both changed differently | Conflict; ask the user" (README): what a pull
\* that was not chosen overwrites is BASE, or what Steam has anyway.
ConflictsAreAsked ==
  InOp("pull_write") /\ ~QueuedIsListed /\ <<"phone", op.slot>> \notin touched
    => local[op.slot] \in {op.mem.base[op.slot], Theirs}

\* The Steam version the user chose "is hash-pinned and applied before game
\* initialization on your next launch" (IsaacCloudUI.m), and on no other: a
\* choice that has been carried out does not replace what was played since.
QueueAppliedOnce ==
  InOp("pull_write") /\ QueuedIsListed /\ op.slot \in spent => local[op.slot] = Theirs
=============================================================================
