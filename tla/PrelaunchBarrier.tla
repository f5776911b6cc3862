-------------------------- MODULE PrelaunchBarrier --------------------------
(***************************************************************************)
(* The prelaunch barrier of src/core/src/engine.rs: the thread that runs   *)
(* ICSCorePreflight while the game starts, the single operation lane       *)
(* (`operation_active`), and the two cells that decide whether a save file *)
(* may be replaced: the flag `replacement_allowed` and the mutex           *)
(* `replacement_guard`.                                                    *)
(*                                                                         *)
(* Data is reduced to where the bytes of a save came from.  What a sync    *)
(* compares, and what becomes of BASE, is in SlotSync.                     *)
(***************************************************************************)
EXTENDS FiniteSets

CONSTANTS Slots,               \* the save slots
          Absent               \* Engine.preflight_saves is None; no slot

ASSUME SlotsAssumption == Slots # {} /\ Absent \notin Slots

VARIABLES
  allowed,    \* Engine.replacement_allowed
  guard,      \* holder of Engine.replacement_guard: "free", "lane", "preflight"
  saves,      \* slot -> where the bytes of the save file came from
  queued,     \* slots with a queued restore (state.pending_local_restore): at most one
  snapshot,   \* Engine.preflight_saves: the identity held per slot, or Absent
  phase,      \* StatusSnapshot.phase
  closed,     \* StatusSnapshot.detail reports a CM close (is_transient_cm_close)
  opKind,     \* the operation that holds the lane, "none" when it is free
  opPc,       \* where that operation stands
  opTodo,     \* slots it still has to compare
  opSeen,     \* slot -> the local identity it compares
  opSlot,     \* the slot being replaced, or Absent
  pfPc,       \* where the preflight thread stands
  pfCall,     \* 1: the first Engine::preflight, 2: the retry after a CM close
  pfPath      \* how the last Engine::preflight returned

lane == << opKind, opPc, opTodo, opSeen, opSlot >>
pf   == << pfPc, pfCall, pfPath >>
vars == << allowed, guard, saves, queued, snapshot, phase, closed, lane, pf >>

\* "late": bytes of a restore that replaced the save and failed after that.
Origin   == {"captured", "restored", "late", "pulled"}
NoEntry  == "none"                        \* the snapshot has no entry for a slot
Identity == Origin \cup {NoEntry}

SyncKinds == {"prelaunch", "sync", "login"}  \* operations that reach run_sync
OpKinds   == SyncKinds \cup {"other"}
OpPcs     == {"idle", "session", "list", "compare", "gate", "check", "replace",
              "settle_ok", "settle_err", "release"}
PfPcs     == {"call", "restore", "restore_lock", "restore_write", "spawn", "poll",
              "lock", "clear", "skip", "ended", "returned"}
Sticky    == {"choice", "offline"}        \* phases spawn_operation leaves alone
Phases    == Sticky \cup {"idle", "busy", "error"}

LaneFree == opKind = "none"

TypeOK ==
  /\ allowed \in BOOLEAN
  /\ guard \in {"free", "lane", "preflight"}
  /\ saves \in [Slots -> Origin]
  /\ queued \in SUBSET Slots
  /\ snapshot \in [Slots -> Identity] \cup {Absent}
  /\ phase \in Phases
  /\ closed \in BOOLEAN
  /\ opKind \in OpKinds \cup {"none"}
  /\ opPc \in OpPcs
  /\ opTodo \in SUBSET Slots
  /\ opSeen \in [Slots -> Identity]
  /\ opSlot \in Slots \cup {Absent}
  /\ pfPc \in PfPcs
  /\ pfCall \in {1, 2}
  /\ pfPath \in {"none", "guarded", "unguarded"}

(***************************************************************************)
(* Engine::new has captured the identities of the saves; the Bootstrap     *)
(* constructor has dispatched ICSCorePreflight and nothing else has run.   *)
(***************************************************************************)
Init ==
  /\ allowed = FALSE
  /\ guard = "free"
  /\ saves = [s \in Slots |-> "captured"]
  /\ queued \in {{}} \cup {{s} : s \in Slots}
  /\ snapshot \in {[s \in Slots |-> "captured"], Absent}
  /\ phase = "idle"
  /\ closed = FALSE
  /\ opKind = "none"
  /\ opPc = "idle"
  /\ opTodo = {}
  /\ opSeen = [s \in Slots |-> NoEntry]
  /\ opSlot = Absent
  /\ pfPc = "call"
  /\ pfCall = 1
  /\ pfPath = "none"

-----------------------------------------------------------------------------
(* The operation lane: spawn_operation and the operations that run on it. *)

\* The compare_exchange that takes the lane, and the phase it announces.
TakeLane(kind) ==
  /\ LaneFree
  /\ opKind' = kind
  /\ opPc' = "session"
  /\ phase' = "busy"
  /\ closed' = FALSE
  /\ UNCHANGED << opTodo, opSeen, opSlot >>

\* Lifecycle, UI and transport-retry callers start an operation at any time.
StartOperation ==
  /\ \E kind \in OpKinds \ {"prelaunch"} : TakeLane(kind)
  /\ UNCHANGED << allowed, guard, saves, queued, snapshot, pf >>

\* The task returns Err: its own message, or that of a closed CM connection.
FailTo(pc) ==
  /\ opPc' = pc
  /\ closed' \in BOOLEAN
  /\ UNCHANGED << opKind, opTodo, opSeen, opSlot >>

\* ensure_session, or the login of a connect operation. An automatic sync
\* that cannot reach Steam reports "offline" and returns Ok.
Session ==
  /\ opPc = "session"
  /\ \/ /\ opKind \in SyncKinds
        /\ opPc' = "list"
        /\ UNCHANGED << phase, closed, opKind, opTodo, opSeen, opSlot >>
     \/ /\ opKind \in {"prelaunch", "sync"}
        /\ FailTo("settle_ok")
        /\ phase' = "offline"
     \/ /\ opKind \in {"login", "other"}
        /\ FailTo("settle_err")
        /\ UNCHANGED phase
     \/ /\ opKind = "other"
        /\ opPc' = "settle_ok"
        /\ UNCHANGED << phase, closed, opKind, opTodo, opSeen, opSlot >>
  /\ UNCHANGED << allowed, guard, saves, queued, snapshot, pf >>

\* run_sync enumerates Steam and fixes the local identities it will compare:
\* the construction-time snapshot for the prelaunch, which it consumes, and
\* the files as they are now for every other trigger.
List ==
  /\ opPc = "list"
  /\ phase' = "busy"
  /\ \/ FailTo("settle_err") /\ UNCHANGED snapshot          \* the listing fails
     \/ /\ opKind = "prelaunch" /\ snapshot = Absent        \* nothing was captured
        /\ FailTo("settle_err") /\ closed' = FALSE
        /\ UNCHANGED snapshot
     \/ /\ opKind = "prelaunch" => snapshot # Absent
        /\ opSeen' = IF opKind = "prelaunch" THEN snapshot ELSE saves
        /\ snapshot' = IF opKind = "prelaunch" THEN Absent ELSE snapshot
        /\ opTodo' \in SUBSET {s \in Slots : opSeen'[s] # NoEntry}
        /\ closed' = FALSE
        /\ opPc' = IF opTodo' = {} THEN "settle_err" ELSE "compare"
        /\ UNCHANGED << opKind, opSlot >>
  /\ UNCHANGED << allowed, guard, saves, queued, pf >>

\* One slot: download and decide. A slot Steam must win is replaced only
\* while replacements are allowed, and reported as a choice otherwise.
Compare ==
  /\ opPc = "compare"
  /\ opTodo # {}
  /\ \E s \in opTodo :
       \/ FailTo("settle_err")                               \* download or decode fails
       \/ /\ allowed
          /\ opPc' = "gate"
          /\ opSlot' = s
          /\ UNCHANGED << closed, opKind, opTodo, opSeen >>
       \/ /\ opTodo' = opTodo \ {s}                          \* nothing to replace now
          /\ UNCHANGED << opPc, closed, opKind, opSeen, opSlot >>
  /\ UNCHANGED << allowed, guard, saves, queued, snapshot, phase, pf >>

\* Every slot compared: the state is saved and the verdict published.
Conclude ==
  /\ opPc = "compare"
  /\ opTodo = {}
  /\ \/ FailTo("settle_err") /\ UNCHANGED phase              \* the state cannot be saved
     \/ /\ opPc' = "settle_ok"
        /\ phase' \in {"idle", "choice"}
        /\ closed' = FALSE
        /\ UNCHANGED << opKind, opTodo, opSeen, opSlot >>
  /\ UNCHANGED << allowed, guard, saves, queued, snapshot, pf >>

\* pull_one: lock the guard, read the permission under it, then replace.
PullLock ==
  /\ opPc = "gate"
  /\ guard = "free"
  /\ guard' = "lane"
  /\ opPc' = "check"
  /\ UNCHANGED << allowed, saves, queued, snapshot, phase, closed, opKind, opTodo,
                  opSeen, opSlot, pf >>

\* The replacement does not take place, and the operation fails.
Refuse ==
  /\ opPc' = "settle_err"
  /\ closed' = FALSE
  /\ opSlot' = Absent
  /\ UNCHANGED << opKind, opTodo, opSeen >>

PullCheck ==
  /\ opPc = "check"
  /\ \/ /\ allowed
        /\ opPc' = "replace"
        /\ UNCHANGED << guard, closed, opKind, opTodo, opSeen, opSlot >>
     \/ /\ ~allowed
        /\ Refuse
        /\ guard' = "free"
  /\ UNCHANGED << allowed, saves, queued, snapshot, phase, pf >>

\* The file is replaced; or the operation fails, with the old file put back
\* unless the rollback fails too.
PullReplace ==
  /\ opPc = "replace"
  /\ guard' = "free"
  /\ \/ /\ saves' = [saves EXCEPT ![opSlot] = "pulled"]
        /\ opTodo' = opTodo \ {opSlot}
        /\ opPc' = "compare"
        /\ opSlot' = Absent
        /\ UNCHANGED << closed, opKind, opSeen >>
     \/ Refuse /\ saves' \in {saves, [saves EXCEPT ![opSlot] = "pulled"]}
  /\ UNCHANGED << allowed, queued, snapshot, phase, pf >>

\* Bug: an operation that fails never gets to free the lane.
SettleSuccessOnly ==
  /\ opPc = "settle_ok"
  /\ phase' = IF phase \in Sticky THEN phase ELSE "idle"
  /\ opPc' = "release"
  /\ UNCHANGED << allowed, guard, saves, queued, snapshot, closed, opKind, opTodo,
                  opSeen, opSlot, pf >>

\* spawn_operation publishes the terminal phase, then frees the lane.
Settle ==
  /\ opPc \in {"settle_ok", "settle_err"}
  /\ phase' = IF opPc = "settle_err" THEN "error"
              ELSE IF phase \in Sticky THEN phase ELSE "idle"
  /\ opPc' = "release"
  /\ UNCHANGED << allowed, guard, saves, queued, snapshot, closed, opKind, opTodo,
                  opSeen, opSlot, pf >>

\* Bug: the lane is freed before the terminal phase is published.
ReleaseUnsettled ==
  /\ opPc \in {"settle_ok", "settle_err"}
  /\ opKind' = "none"
  /\ opPc' = "idle"
  /\ opTodo' = {}
  /\ opSeen' = [s \in Slots |-> NoEntry]
  /\ UNCHANGED << allowed, guard, saves, queued, snapshot, phase, closed, opSlot, pf >>

ReleaseLane ==
  /\ opPc = "release"
  /\ opKind' = "none"
  /\ opPc' = "idle"
  /\ opTodo' = {}
  /\ opSeen' = [s \in Slots |-> NoEntry]
  /\ UNCHANGED << allowed, guard, saves, queued, snapshot, phase, closed, opSlot, pf >>

-----------------------------------------------------------------------------
(* The preflight thread. *)

PfGoto(pc) == pfPc' = pc /\ UNCHANGED << pfCall, pfPath >>

PreflightCall ==
  /\ pfPc = "call"
  /\ allowed' = TRUE
  /\ pfPc' = "restore"
  /\ pfPath' = "none"
  /\ UNCHANGED << guard, saves, queued, snapshot, phase, closed, lane, pfCall >>

\* apply_pending_restore up to its lock: no restore is queued, or the queued
\* one no longer verifies (logged, and the launch goes on), or it does.
RestoreVerify ==
  /\ pfPc = "restore"
  /\ \/ PfGoto("spawn")
     \/ queued # {} /\ PfGoto("restore_lock")
  /\ UNCHANGED << allowed, guard, saves, queued, snapshot, phase, closed, lane >>

RestoreLock ==
  /\ pfPc = "restore_lock"
  /\ guard = "free"
  /\ guard' = "preflight"
  /\ PfGoto("restore_write")
  /\ UNCHANGED << allowed, saves, queued, snapshot, phase, closed, lane >>

\* Bug: the snapshot keeps the identity captured before the restore.
RestoreUnrecorded ==
  /\ pfPc = "restore_write"
  /\ guard' = "free"
  /\ PfGoto("spawn")
  /\ \/ \E s \in queued :
          /\ allowed
          /\ saves' = [saves EXCEPT ![s] = "restored"]
          /\ queued' \in {{}, queued}
     \/ UNCHANGED << saves, queued >>
  /\ UNCHANGED << allowed, snapshot, phase, closed, lane >>

\* Bug: the old save is removed first, and a failed write leaves none.
RestoreInPlace ==
  /\ pfPc = "restore_write"
  /\ guard' = "free"
  /\ PfGoto("spawn")
  /\ \E s \in queued : saves' = [saves EXCEPT ![s] = NoEntry]
  /\ UNCHANGED << allowed, queued, snapshot, phase, closed, lane >>

\* Write the backup over the save, then put its identity into the snapshot
\* the prelaunch sync will compare, then clear the queue in the state file.
\* What follows the rename may fail - the sync of the directory, the second
\* verification, reading the identity - and then the save is replaced, the
\* snapshot and the queue are as before, and the launch goes on.
RestoreWrite ==
  /\ pfPc = "restore_write"
  /\ guard' = "free"
  /\ PfGoto("spawn")
  /\ \/ \E s \in queued :
          /\ allowed
          /\ saves' = [saves EXCEPT ![s] = "restored"]
          /\ snapshot' = [IF snapshot = Absent THEN [t \in Slots |-> NoEntry] ELSE snapshot
                            EXCEPT ![s] = "restored"]
          /\ queued' \in {{}, queued}                        \* the last save may fail
     \/ \E s \in queued :
          /\ allowed
          /\ saves' = [saves EXCEPT ![s] = "late"]
          /\ UNCHANGED << snapshot, queued >>
     \/ UNCHANGED << saves, snapshot, queued >>              \* refused or not written
  /\ UNCHANGED << allowed, phase, closed, lane >>

\* automatic_sync("prelaunch"); preflight gives up at once when the lane is taken.
SpawnPrelaunch ==
  /\ pfPc = "spawn"
  /\ \/ TakeLane("prelaunch") /\ PfGoto("poll")
     \/ /\ ~LaneFree
        /\ PfGoto("skip")
        /\ UNCHANGED << phase, closed, lane >>
  /\ UNCHANGED << allowed, guard, saves, queued, snapshot >>

\* Bug: the early return leaves the permission behind.
SkipStillAllowed ==
  /\ pfPc = "skip"
  /\ pfPc' = "ended"
  /\ pfPath' = "unguarded"
  /\ UNCHANGED << allowed, guard, saves, queued, snapshot, phase, closed, lane, pfCall >>

SkipPreflight ==
  /\ pfPc = "skip"
  /\ allowed' = FALSE
  /\ pfPc' = "ended"
  /\ pfPath' = "unguarded"
  /\ UNCHANGED << guard, saves, queued, snapshot, phase, closed, lane, pfCall >>

\* Bug: no deadline.
PollUntilFree ==
  /\ pfPc = "poll"
  /\ LaneFree
  /\ PfGoto("lock")
  /\ UNCHANGED << allowed, guard, saves, queued, snapshot, phase, closed, lane >>

\* The polling loop ends when the lane is free or the deadline has passed;
\* the deadline may pass at any time.
PollEnds ==
  /\ pfPc = "poll"
  /\ PfGoto("lock")
  /\ UNCHANGED << allowed, guard, saves, queued, snapshot, phase, closed, lane >>

\* Bug: the permission is withdrawn without waiting for the guard.
BarrierUnlocked ==
  /\ pfPc = "lock"
  /\ PfGoto("clear")
  /\ UNCHANGED << allowed, guard, saves, queued, snapshot, phase, closed, lane >>

BarrierLock ==
  /\ pfPc = "lock"
  /\ guard = "free"
  /\ guard' = "preflight"
  /\ PfGoto("clear")
  /\ UNCHANGED << allowed, saves, queued, snapshot, phase, closed, lane >>

BarrierClear ==
  /\ pfPc = "clear"
  /\ allowed' = FALSE
  /\ guard' = "free"
  /\ pfPc' = "ended"
  /\ pfPath' = "guarded"
  /\ UNCHANGED << saves, queued, snapshot, phase, closed, lane, pfCall >>

TransientClose == phase \in {"error", "offline"} /\ closed

\* ICSCorePreflight retries once when the status reports a closed connection.
PreflightEnd ==
  /\ pfPc = "ended"
  /\ \/ /\ pfCall = 1 /\ TransientClose
        /\ pfPc' = "call"
        /\ pfCall' = 2
     \/ /\ ~(pfCall = 1 /\ TransientClose)
        /\ pfPc' = "returned"
        /\ UNCHANGED pfCall
  /\ UNCHANGED << allowed, guard, saves, queued, snapshot, phase, closed, lane, pfPath >>

-----------------------------------------------------------------------------
LaneStep ==
  \/ Session \/ List \/ Compare \/ Conclude
  \/ PullLock \/ PullCheck \/ PullReplace \/ Settle \/ ReleaseLane

PreflightStep ==
  \/ PreflightCall \/ RestoreVerify \/ RestoreLock \/ RestoreWrite
  \/ SpawnPrelaunch \/ SkipPreflight \/ PollEnds \/ BarrierLock \/ BarrierClear
  \/ PreflightEnd

Next == StartOperation \/ LaneStep \/ PreflightStep

Spec == Init /\ [][Next]_vars

\* The preflight thread and the task on the lane keep running: every network
\* wait ends (requests carry timeouts), the deadline passes, and a mutex that
\* is released again and again is eventually granted. Nobody has to start an
\* operation.
Fairness ==
  /\ WF_vars(PreflightStep)
  /\ SF_vars(RestoreLock) /\ SF_vars(BarrierLock) /\ SF_vars(PullLock)
  /\ WF_vars(LaneStep)

FairSpec == Spec /\ Fairness

-----------------------------------------------------------------------------
(* Properties. *)

Replacing == opPc = "replace"

\* Once the barrier has taken the guard and returned, no operation is between
\* its permission check and the replacement of a save file: the comment on the
\* lock in Engine::preflight.
BarrierHolds == pfPath = "guarded" => ~Replacing

\* The permission never outlives ICSCorePreflight, whichever way it returned:
\* an operation started after it can only ask for a relaunch.
ReturnedMeansClosed == pfPc = "returned" => ~allowed

\* The prelaunch sync never overwrites a save that the queued restore has just
\* written unless the identity it compared was that of the restored bytes:
\* apply_pending_restore replaces the snapshot entry of the slot.  A restore
\* that fails after it has replaced the save ("late") leaves the entry of the
\* bytes it replaced; what becomes of it is ConflictsAreAsked of SlotSync.
PrelaunchSeesRestore ==
  Replacing /\ opKind = "prelaunch" /\ saves[opSlot] = "restored"
    => opSeen[opSlot] = "restored"

\* The phase that the startup gate watches is not a busy one while the lane is
\* free: spawn_operation publishes the verdict before it frees the lane.
\* cancel_login, which writes "cancelling" from outside the lane, is not modelled.
FreeLaneIsSettled == LaneFree => phase # "busy"

\* ICSCorePreflight returns, whatever the network and the other callers do.
PreflightReturns == <>(pfPc = "returned")

\* No operation keeps the lane for ever, and none waits for ever on the guard.
LaneIsFreed == (opKind # "none") ~> (opKind = "none")

-----------------------------------------------------------------------------
(* What the repository says and the code does not do (violation runs). *)

\* "no save can be replaced after the prelaunch barrier returns"
NothingReplacedAfterReturn == pfPc = "returned" => ~Replacing
=============================================================================
