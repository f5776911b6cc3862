# Verification of IsaacSteamSynciOS

TLA+ models, TLC model-checking runs and TLAPS proofs for the save-synchronization
engine of IsaacSteamSynciOS: a dylib inside the iOS build of *The Binding of Isaac*
that keeps the game's save slots in step with Steam Cloud. The Rust core
(`src/core`) does the work, the Objective-C parts (`src/loaders`, `src/isaac`,
`src/ui`, `src/keychain`) call it.

Line numbers refer to the commit the project stands beside; `PROJECT.json` maps
each definition to the lines it models.

## 1. The system

### 1.1 Components

| component | state it keeps | operations | what makes it correct |
|---|---|---|---|
| **Engine** (`core/src/engine.rs`) | `operation_active`, `status` (phase, detail, choices), `session`, `credentials`, `replacement_allowed`, `replacement_guard`, `preflight_saves`, cancel flags | `preflight`, `automatic_sync`, `force`, `resolve_choice`, `restore_backup`, `connect_*`, `disconnect`, `set_foreground`, ... | at most one operation; saves are replaced only inside the prelaunch window; both versions are backed up before either is replaced; BASE is common; choices belong to the user |
| **Decision** (`sync_engine.rs`) | none | `decide(local, remote, base)` | three-way table |
| **State file** (`state.rs`, `model.rs`) | `SyncState`: per slot BASE and queued pulls, queued restore, account | `load`, `save` (atomic) | what is on disk was true of both sides |
| **Atomic files** (`atomic.rs`) | a temporary file | `write_bytes`, `replace_from_file` | old or new, durable when Ok |
| **Backups** (`backups.rs`) | data file and manifest per backup | `backup_bytes`, `list`, `verify`, `restore_local`, `apply_retention` | the newest 12 per slot and source can be restored |
| **Cloud client** (`steam/cloud.rs`) | none of its own | `enumerate`, `download_file`, `upload_verified` (begin batch, begin file, blocks, commit, complete) | an upload is visible whole or not at all; verified by SHA-1 |
| **CM session** (`steam/cm.rs`, vendored `steam-cm-protocol`) | connection, pending jobs, heartbeat | `logon`, `call`, QR and password authentication, presence | every call ends; a job's answer goes to its caller |
| **Achievements** (`achievements.rs`, `save_achievements.rs`) | cached unlocks | additive plan, store, read-back | unlocks are only added |
| **Save format** (`isaac_format.rs`) | none | `canonicalize_save`, Rep/Rep+ conversion, checksums, LZ4 | canonical form is unique; what does not decode is refused |
| **Local saves** (`local.rs`) | exclusion files | candidates per slot, stable snapshot, exclusion | the file the game reads is the one replaced |
| **Lifecycle** (`isaac/IsaacLifecycle.m`) | background task, poll timer | foreground/background notifications | the task is ended exactly once |
| **Game-state detector** (`isaac/IsaacGameState.mm`) | last observation, debounce | memory scan | a run is reported when it is on |
| **UI** (`ui/IsaacCloudUI.m`) | gate, panels | choices, restore, sync now, startup gate | the game waits for the preflight |
| **Touch overlay** (`touch/*`) | layout, gamepad | gestures to HID reports | independent of synchronization |
| **Bootstrap, FFI** (`loaders/Bootstrap.m`, `core/src/ffi.rs`) | engine singleton | `ICSCore*`, `ICSCorePreflight` with its one retry | preflight returns |
| **Logging**, **build scripts** | log file | - | - |

### 1.2 How they interact

Bootstrap's constructor creates the engine (which hashes the save files and keeps
the identities in `preflight_saves`) and runs `ICSCorePreflight` on a queue while the
game starts. `Engine::preflight` opens the replacement window
(`replacement_allowed`), applies a queued restore on its own thread, starts
`automatic_sync("prelaunch")` on the *lane* (a task behind the `operation_active`
compare-exchange), waits for it with a deadline, takes `replacement_guard`, closes
the window and returns. UI, lifecycle callbacks and the transport-retry thread
start operations on the same lane whenever they like; they are turned away when it
is taken. Operations load the state file, talk to Steam, make backups, replace
files and save the state once at the end. The game rewrites its saves without
telling anybody, and so do other computers with the files on Steam.

### 1.3 What is hard

* **Threads**: preflight thread, lane task, UI callers and `set_foreground` share
  flags, a mutex and the state *file*.
* **Two files nobody locks**: the game and the peer write between any two steps of the engine.
* **Crashes**: iOS kills the app at will; power may go at any system call.
* **Lost answers**: an upload may be committed and still be reported as failed.
* **Late save of the state**: a run over several slots changes files one by one and
  records all of it at the end.
* **Retention against restore**: making a safety backup changes the set that is restored from.

* **Shared cells of a sign-in**: the cancellation flag and the code channel belong to whoever wrote them
  last, and three kinds of threads write them.
* **A second format**: the phone plays Repentance saves, Steam may hold Repentance+ saves; what the one
  cannot hold has to survive in a sidecar file.
* **Several files per slot**: directories, DLC generations, exclusion lists that change at any moment.

Section "hazards" of `PROJECT.json` lists 40 such places with their lines and the
properties that cover them, or why none does.

## 2. The modules

| module | what it is | proofs |
|---|---|---|
| `PrelaunchBarrier` | preflight thread, lane, window and guard; data reduced to where a save's bytes came from | `PrelaunchBarrierProofs` |
| `SlotSync` | the synchronizer: local, Steam, BASE, vault, state file; all operations that reach them | `SlotSyncProofs` |
| `SaveVault` | the abstract promise `SlotSync` implements | `SlotSyncRefinement` |
| `AtomicWrite` | `atomic::write_bytes`, one action per system call | `BackupsProofs` |
| `Backups` | EXTENDS `AtomicWrite`: backup, retention, restore, rollback of one slot | `BackupsProofs` |
| `CloudUpload` | `upload_verified` call by call, and which of a slot's files the listing shows | `CloudUploadProofs` |
| `UploadContract` | the abstract promise `CloudUpload` implements | - |
| `SteamSession` | sign-in, cancellation, re-established sessions, disconnect; the account of the state file | `SteamSessionProofs` |
| `Achievements` | achievements and Repentance+ data between saves, sidecars, Steam Cloud and Steam | `AchievementsProofs` |
| `SaveDiscovery` | which files an operation works on: generations, directories, exclusion lists | `SaveDiscoveryProofs` |
| `MCSlotSync`, `MCBackups`, `MCCloudUpload`, `MCSteamSession`, `MCAchievements`, `MCSaveDiscovery` | instances for TLC | - |

### 2.1 PrelaunchBarrier

`allowed`, `guard`, `snapshot`, `phase`/`closed` are the cells of `Engine`; `opKind`,
`opPc`, `opTodo`, `opSeen`, `opSlot` are the task on the lane (`opKind = "none"` is
`operation_active == false`); `pfPc`, `pfCall`, `pfPath` are the preflight thread, its
retry, and how the last call returned. A save is represented by its origin (captured when the
dylib loaded, restored from a backup, restored by a restore that failed after that (`"late"`), pulled from Steam).

The actions follow the code between two points where another thread may see a
difference: `PullLock`, `PullCheck`, `PullReplace` are the three lines of `pull_one`
that matter; `BarrierLock`, `BarrierClear` the end of `preflight`; `SkipPreflight` its
early return; `Settle`, `ReleaseLane` the two last steps of `spawn_operation`.
`PollEnds` may happen at any time, because the deadline may pass at any time.
Operations that do not pull are one kind, `other`; their bodies are left out. So is `cancel_login`, which
publishes "cancelling" from outside the lane (`engine.rs:348`): `FreeLaneIsSettled` speaks of operations only.
`RestoreWrite` ends in three ways: the save and the snapshot are both as restored; neither is; or the save is replaced and then
something fails (the sync of the directory, the second verification, reading the identity), the error is logged, and the snapshot still has
the identity of the file that is gone. `PullReplace` may likewise fail with the pulled bytes in place, when the rollback fails too.

### 2.2 SlotSync

One action per stretch of code between two awaits. `op` is the record of the task's
local variables: the enumeration (`listed`), the identities it took at the start
(`mine`), the downloaded `bytes`, the staged copy, the state it loaded (`mem`), and the
choices found. Everything the code takes from an *earlier* look at the world is
read from `op` and everything it looks at *now* from `local`, `remote` or `disk`. `disk`
is written only by the actions that model `StateStore::save`. `OperationFails` lets
every await and file operation fail; `Relaunch` is a kill and a new launch at any step.

A Steam file is a version (or `Corrupt`) and a framing: the same canonical save
written by native iOS in LZ4 framing is a different file with the same identity, which is
how `run_sync` sees it.

Histories (`approved`, `spent`, `late`, `touched`, `onPhone`, `onSteam`) are written but never read by an
action; they exist for the properties.

`SaveVault` says the same with nothing about how: owners write; the synchronizer
backs up what files have held, and replaces a file only by such content and only
once what it replaces is in the vault. There is one exception, which the code cannot avoid: `raced`, a file that
its owner rewrote while the synchronizer was at work, may be replaced without a backup of that last
version. (`StartWork` may keep some of `raced`: an operation that begins while the preflight is between a restore's backup and its write leaves that slot's entry, see `Begin`.) `SavesAreKept` is the refinement, under the mapping in `Promise`. `vault` never shrinks in these two
modules; that it keeps enough is the subject of `Backups`.

The code does not coordinate with the game and the peer, and keeps lane and
preflight apart only in part. A `plan`, chosen at the start of a behaviour, says what the world around the
engine does in it: the slots in use, what the peer may leave on Steam, the operations the user asks for, how often
game, peer and kills strike, and which actors are `orderly`: `"game"` and
`"host"` do nothing before the preflight has returned (the startup gate), `"peer"` does not touch
Steam during an operation. One run checks all properties over four families of plans (section 3.2); the two properties that
need orderly actors (`PullIsJustified`, `IdleMeansSynced`) name them.

`late` has the slots whose restore, in this launch, replaced the save and then failed (`RestoreWrite`): the queue and the snapshot
are as before, so the prelaunch sync of the same launch compares a file that is gone. In that sync, and no other, a pull may overwrite
the restored save silently and a slot may count as synchronized that is not: `PullIsJustified` and `IdleMeansSynced` except it by
name, and the run `conflict_not_asked` shows it. `PullIsJustified` has a second exception: what is pulled for
a choice is what the *download* returns, another file than the one listed if another computer wrote in between (`cloud.rs:209`).
What is overwritten is in the vault in either case (`SavesAreKept`).

### 2.3 AtomicWrite

`file` is what the destination reads as; `survivors` is the set of contents a power
loss may leave it with. A rename makes the new content one of the survivors, a directory sync the
only one; renaming a file that was not synced adds `Torn`. `Fails` is a failing system
call at any point, `Killed` and `PowerLost` end the process.
`SyncDirectory` takes the rename to be on the disk when `libc::fsync` on the directory returns (`atomic.rs:53`). On iOS that
promises less than the `F_FULLFSYNC` behind `sync_all`: the device may hold the rename in its cache, so that `OkIsDurable` is as good as
that call. `NeverTorn` does not depend on it.

### 2.4 Backups

A backup is a data file, then a manifest (`BackupData`, `BackupManifest`); retention
removes data, then manifest, one backup at a time (`RetainData`, `RetainManifest`), and
any removal may silently fail. `catalog` is the order the manifests' time stamps
give; `ClockSteps` lets the device's clock be set back, so that a new one lands anywhere. The replacement
of the save is `AtomicWrite`, step by step. `Pull`, `Restore` and `Archive` start the
three users of a backup; a failed pull becomes a rollback (`RollBack`), which is a restore with its own backup.

### 2.5 CloudUpload

`pc` stands between the calls of `upload_verified` and `upload_in_batch`; `put`, `transferred`, `ok` are the
blocks that arrived, the flag of that name and the result of `upload_in_batch`; `batch` is what Steam has been asked about
the batch whose id came back. A block that fails leads to a commit with `transfer_succeeded` false, a
malformed request from Steam to no commit at all; both complete the batch. A commit may be carried out and
its answer lost. Steam is external: it commits what it is told was transferred, whole only if
every block arrived. A batch that Steam began without the answer coming back is not
counted: the code never learns its id.

Steam may hold several files of a slot. `Better` is the order of
`list_isaac_saves` (name first, then time stamp) and `Shown` the files a listing may pick. `stamp` is the
device's clock at `BeginFile`; `ClockRight` says that it is ahead of every time stamp on Steam.

`UploadContract` is what the callers rely on: an upload replaces its file as a whole, at most once, may fail
before or after that, and succeeds only when Steam has the new content. These are the outcomes
`SlotSync` gives an upload (`PushUpload`, `PushVerify`, `OperationFails`). It speaks of one file; that replacing it is
replacing *the slot's* file, which `SlotSync` also assumes, is the theorem `UploadsReplaceTheSlot`. The two modules are not
composed.

### 2.6 SteamSession

`cancel` and `guard` are the cells `auth_cancel` and `guard_sender`, `stopped` and `codes` the flags and channels they
point to, by the number of the sign-in attempt. `ui` is where the UI thread stands inside `connect_*` or
`cancel_login`, whose steps others may come between; `job` holds the operation on the lane and the tasks `set_foreground`
spawns, which run `ensure_session` alike. `holder` has the asynchronous mutex of the session, which is held from the first
call to Steam to the end of a synchronization. `state` is the state file as far as accounts go: its account, and the account
its BASE records came from. A sign-in ends in a session for *some* account, since the user may approve as anyone.

A number is used again when nothing refers to it, so behaviours are unbounded although attempts are few.
The histories `out` (the user has disconnected), `legacy` (an older app left a token) and `crossed` (another
sign-in emptied the cells under a call) serve the properties only.

### 2.7 Achievements

Four places hold achievements: saves on the phone (`phone`), saves on Steam Cloud (`cloud`), the sidecar files
(`sidecar`) and Steam (`steam`, with `older` for a server that lags behind). `Collect` to `Verify` is
`sync_from_local_saves`; Steam's stats are groups of achievements that are stored whole (`Group`, `Build`), which is why
"only add" is not obvious. `Compare` to `Commit` is the part of `run_sync`, and `ForceSlot` that of `force_slot`, that carries what only
Repentance+ has: a download is merged into the sidecar, a pull strips the save (`ToRep`), an upload to a Repentance+ file is
extended from sidecar and cache (`ToRepPlus`). All counters of a Repentance+ save are one.

Nobody looks at what becomes of the sidecar: a file that cannot be read counts as empty (`Stored`), an error of writing is dropped
(`Remember`). And `force_slot` asks the bytes as downloaded whether they are a Repentance+ save (`engine.rs:1218`), which
under LZ4 framing they do not tell (`Overlooked`). The operation's `forgot` is the history of either, its `backup` the file `push_one` backed
up last: `ExtrasAreKept` says that what the replaced file has is in the new one or in the sidecar, or, when something was forgotten, in that
backup. `raced` is set only by a write after the last look, so the look itself (`RemoteUnchanged`) is under test. A queued restore
of a Repentance+ backup, which also fills the sidecar, is not in this module.

### 2.8 SaveDiscovery

A file is a directory, a generation (the prefix of its name) and a slot; it is whole or truncated.
`Candidates` is the walk with its generation rule, `Unique` the neighbour check of `ensure_unique_slots`, `Discovery` and
`Captured` the retrying discoveries and the one of `Engine::new`, `Located` the destination of a restore. The six lists of
`get_excluded_slots` are three variables; `SetExcluded`, `WriteSupport`, `WriteDocuments` are the steps of
`set_slot_excluded`, each of which may fail. Operations read the lists where the code reads them, once or several times.

## 3. Model checking

### 3.1 Runs that pass

| run | instance | what it shows |
|---|---|---|
| `barrier` | 2 slots, both calls of preflight, operations of every kind at any time; fairness | guarded return means no replacement under way (`BarrierHolds`); the window never stays open (`ReturnedMeansClosed`); the prelaunch sync does not overwrite a restored save on the strength of an identity taken before it (`PrelaunchSeesRestore`); no "busy" phase over a free lane (`FreeLaneIsSettled`); preflight returns, the lane is freed |
| `sync` | the four families of plans of section 3.2, 3 versions | `SlotSync` implements `SaveVault`; BASE was on both sides; pulls are justified by BASE or by the user; only asked uploads; "synchronized" is only said when local, Steam and BASE agree |
| `session` | 2 accounts, 2 sign-in attempts alive at once, 1 presence task, any token left by an older app | no second session beside a synchronization (`CloudSessionIsAlone`); a sign-in that waits can be cancelled, and then does not wait on (`SignInCanBeCancelled`, `CancelEndsTheWait`); the session is the Keychain's (`SessionMatchesKeychain`); disconnecting is final (`DisconnectIsFinal`) |
| `achievements` | 1 slot, 4 achievements in 2 stats, one of them not in the schema, 3 outside events; sidecars that fail, Steam saves in LZ4 framing | no achievement is ever taken from Steam; success means unlocked; nothing is invented; what only Repentance+ has survives the way through the phone, in save, sidecar or (if the sidecar failed) backup |
| `discovery` | 2 slots, 2 directories, whole and truncated files of 2 generations, 2 changes by game, user or relaunch | an excluded slot is left alone by every operation, whenever it was excluded; an abandoned generation is never taken for the save; a restore reaches the live save |
| `backups` | 4 backup ids, 3 sources, Retain 2, 2 contents | no torn save, Ok is durable, early failures are harmless; enough backups at every moment; what is replaced is backed up; rollback puts the old save back; a restore is dequeued only when it is durable |
| `upload` | 3 names of one slot (two with the same priority), 2 contents, 2 blocks, 3 uploads or peer writes, clock right | `CloudUpload` implements `UploadContract`; Steam never has a torn file; a batch is completed whichever call fails, and as a success only if the file was committed; the verification finds the uploaded file unless another computer wrote meanwhile |

### 3.2 The bounds, and why they are enough

* **Plans of `sync`**: `AllOrderly`: one slot, every kind of Steam file (corrupt, LZ4), any operation, one save by the
  game. `TwoSlots`: the snapshot, the one state save and the verdict over several slots; two show each of these, and
  everything else is per slot. `PeerRaces`: another computer writes and the app is killed between any two steps.
  `LaneRaces`: the game and the user do not wait for the preflight. `TwoEvents` keeps two of the three outside events of `PeerRaces`.
* **Versions**: two tell equal from different; the three-way comparison needs three
  for a conflict in which all of local, Steam and BASE differ after a race.
* **Saves, peer writes, launches**: the hazards need one or two
  outside events in a particular place; initial states already hold any pair of files and any
  BASE, so each run starts from what any number of earlier events may have left.
* **Operations are not bounded**: the user may start any number.
* **Ids, Retain**: retention of the code is 12; 2 is the smallest number for which
  "newest" and "oldest kept" differ, and one more id than that times the sources
  under way lets a victim's id be used again. `made` is counted up to `Retain`.
* **Names, blocks, `Writes`** of `CloudUpload`: three names are a better one and two that only the time stamp tells
  apart; two blocks make a torn file; three writes are an upload, a peer's write and an upload after it.
* **Attempts, Tasks** of `SteamSession`: two attempts are one on the lane and one that is refused or crosses it; a third
  call waits for the UI thread. One task beside the lane is enough for each race found; tasks meet one another only in
  the mutex.
* **Achievements**: one stat shared by two achievements and one apart; `Attempts` 2 instead of 4 looks (one that is
  retried and a last one); three events are any three of an unlock, a play on either side and a relaunch. Proved for all values.
* **SaveDiscovery**: slot 1 has every combination of an old file, a newer one in either directory, and truncation below
  Repentance; slot 2 keeps a run over two slots going. Proved for all values.

What the assumptions of a run hide is known, and not claimed otherwise:

| without | fails | how |
|---|---|---|
| the exception `raced` of `SaveVault` | `SavesAreKept` | the peer writes after `assert_remote_unchanged` and before the commit (Steam's API has no conditional write); the game saves between the backup and the rename (the prelaunch window is there so that it does not) |
| `ClockSteps = FALSE` | `ReplacedIsKept` | the new backup sorts last and is retention's first victim |
| `"host"` orderly | `IdleMeansSynced` | a sync that the user starts while the preflight applies a queued restore ends "idle" although the restore replaced a slot it had compared (`apply_pending_restore` looks at no operation) |
| `ClockRight = TRUE` | `CommittedIsShown` | a file of the slot with the same priority and a later time stamp is listed instead; the upload is reported as failed although it was committed |
| `CrcChecked = TRUE` | `SteamOnlyGrows` | another computer unlocks in the same stat between the answer and the store: the store of the whole stat takes it back |
| the exception `forgot` of `ExtrasAreKept` | `ExtrasAreKept` | the result of writing the sidecar is dropped (`let _ =`, `engine.rs:967`, `1222`), or an LZ4 file is not looked into (`1218`); the Steam save is replaced all the same |
| the exception `late` | `PullIsJustified`, `IdleMeansSynced` | the run `conflict_not_asked`; and with Steam equal to the identity that is gone, the prelaunch sync reports "synchronized" over a save that differs |
| `legacy = None` | `SessionMatchesKeychain`, `DisconnectIsFinal` | an older app's token is read, a sign-in or disconnect goes by, then it is stored as the app's own (`keychain.rs:51`) |

A queued pull is compared with the *enumerated* hash; that the file then
downloaded is the enumerated one is not asserted by the code and by no run.

### 3.3 Runs that find a violation

Each checks one sentence of the repository that the code does not keep:

| run | sentence | what happens |
|---|---|---|
| `replaced_after_return` | "no save can be replaced after the prelaunch barrier returns" (`engine.rs:566`) | the lane is taken: the early return clears the flag without the guard, and a pull past its check goes on |
| `conflict_not_asked` | "Both changed differently \| Conflict; ask the user" (`README.md:56`) | a queued restore replaces the save and then fails (`engine.rs:623`, `atomic.rs:32`, `backups.rs:124`): the snapshot keeps BASE, Steam has changed, and the prelaunch sync pulls over the restored save, which is a third content (and is backed up) |
| `queue_applied_twice` | "applied before game initialization on your next launch" (`IsaacCloudUI.m:555`) | a kill, or a later slot's failure, before the state is saved: the queue entry is applied again at the launch after, over what was played since (which is backed up) |
| `restore_evicts_itself` | "verified now, then restored" (`IsaacCloudUI.m:444`) | the safety backup of the restore evicts the very backup being restored |
| `base_of_account` | "Steam account changed; synchronization BASE was cleared" (`engine.rs:819`) | a presence task signs in again as A while the user signs in as B; its save of the state file puts A's account and BASE back, and B's files are compared with A's BASE |

### 3.4 Deadlock

`PrelaunchBarrier`, `Backups`, `SteamSession` and `SaveDiscovery` are checked for deadlock. `SlotSync`, `CloudUpload` and
`Achievements` are not: with their bounds used up there may be nothing left to do.

### 3.5 Fairness

Only `PrelaunchBarrier` has liveness. The preflight thread and the lane task are weakly fair:
both are ordinary threads whose every wait ends (CM requests carry timeouts, the polling loop a
deadline). The three mutex acquisitions are strongly fair: the guard is
released and taken again by the other thread, and the system's mutex does not starve a waiter
for ever. Starting an operation, and everything the world does, is not fair. A sign-in may wait for its user for as
long as five minutes; that it ends once cancelled is stated as safety (`CancelEndsTheWait`).

## 4. Proofs

All for every value of the constants, under the named assumptions of the modules (`SlotsAssumption`,
`ConstantsAssumption`, `TornAssumption`, `BackupsAssumption`, `CloudAssumption`, `AchievementsAssumption`, `NoneAssumption`,
`SaveDiscoveryAssumption`, `DisksAssumption`). Those about `None` only say that it differs from every value it is
compared with; that of `SlotSync` also gives the type of a plan, whatever its bounds.

* **`PrelaunchBarrierProofs`**: `TypeCorrect`, `BarrierSafety` (`[]BarrierHolds`), `WindowCloses`
  (`[]ReturnedMeansClosed`), `RestoreIsSeen` (`[]PrelaunchSeesRestore`), `FreeMeansSettled`
  (`[]FreeLaneIsSettled`). `BarrierHolds` is not inductive: it must be known that whoever is past the
  permission check holds the guard, that the preflight thread holds it at "clear", and that the window is
  open only while the thread is between its call and its end (`IInv`). `PrelaunchSeesRestore` needs a second
  invariant (`JInv`): an operation with work to do shows a busy phase, so the retry, which wants "error" or
  "offline", starts only when the first prelaunch sync has nothing left to replace; hence no
  restore comes between the identities a prelaunch sync took and its replacements. It speaks of restores that were
  recorded; a late one is not (2.1).
  Of the two liveness properties the safety half is proved: `PreflightIsBounded` and `LaneIsBounded` (for finitely many
  slots) give each thread a measure, `PfLeft` and `LaneLeft`, that its own steps lower and nobody else's change;
  `WaitersAreNotAwaited` says that whoever waits for the guard waits for a thread that does not.
* **`SlotSyncProofs`**: `TypeCorrect`; `BaseVerified` (`[]BaseWasVerified`), `NoSilentUpload` (`UploadsAreAsked`),
  `PullJustified` (`[]PullIsJustified`), `IdleIsSynced` (`IdleMeansSynced`), for any number of slots, versions, saves, peer
  writes and kills. Four invariants, one on top of the other. `Typed` adds to the types the shape of an operation (`Shape`): at each program point, which of `slot`,
  `bytes` and `staged` are there, and that nothing is known of slots not in use. `Had` says that all the engine
  holds (the state in memory, on disk and on the preflight thread, the identities, the download) was a content of
  the file it was read from; BASE is written only from two that are equal, so it was on both sides, even when one of them
  has moved on. `Calm`, for plans in which game and user wait, says what the window is there for: until the prelaunch
  sync is on the lane the snapshot *is* the save files, but for the slots of `late`, whose restore replaced the save and then
  failed (`PullJustified` and `IdleIsSynced` name the same exception); while it runs the slots still to do are as it took them; after it nothing is
  replaced; and a queue entry is the user's last choice, except between `force_slot`'s change in memory and its save. `Quiet`
  is for the verdict over several slots, which comes long after the first was compared: what the tally says of a slot that is done
  (`Tallied`) stays true unless one of its files was rewritten since (`touched`); the slots still to do are as the sync took
  them; and the file downloaded is the one on Steam unless the peer came.
* **`SlotSyncRefinement`**: `SavesKept` (`SavesAreKept`), step by step, for *every* plan, orderly or not. Each action of the engine is one of
  `SaveVault`'s or a stutter. The invariant `Kept` carries what was checked some awaits ago: before a pull writes, the save
  is in the vault or the game has saved since (`touched`); before an upload, the same of the Steam file; as long as the peer
  stays away the file downloaded, or still to be, is the one enumerated; a staged copy and a queued restore are contents some file has had.
  `RestoreKept` is the same for the preflight: the save a queued restore is about to replace is in the vault or the game has
  rewritten it since, and no pull comes between.
* **`BackupsProofs`**, of `AtomicWrite`: `NoTornSave`, `SuccessIsDurable`, `FailureIsHarmless`. The invariant `IInv` says how far the
  temporary file has got at each program point, that the file read now is a survivor, and that the
  disk holds nothing new before the rename.
* **`BackupsProofs`**, of `Backups`: `BackupsTypeCorrect`, `SavesAreNeverTorn`, `RestoresAreDurable`
  (`DequeuedIsRestored`), `RollbacksPutBack` (`RollbackRestores`). Every step but the game's own save is a step of
  `AtomicWrite` or leaves its variables alone (`StepIsAtomic`), so `IInv` carries over. On
  top of it: only an operation that has come to its replacement writes; a restore's content is that of the queued
  backup and a rollback's that of the save the pull found, as long as those backups exist; no new backup takes their
  id. Nothing is needed of the catalog's order, so all four hold for any clock and any `Retain`.
* **`BackupsProofs`**, of retention: `EnoughIsKept` (`[]EnoughKept`) and, if the clock is not set back, `ReplacedSavesAreKept`
  (`ReplacedIsKept`). `EnoughKept` counts, and a count is not inductive: a removal takes one away. The invariant (`RetentionInv`)
  says *which* are kept: the newest `Retain` of each source (those with fewer than `Retain` newer ones, a rank by
  identifiers and not by positions) are intact; a manifest without its data ranks behind them, and so does
  whatever retention has in its hands; so what it removes was never counted, for any clock, since a backup that comes in anywhere only pushes
  others back. For `ReplacedIsKept`, `SafetyInv`: an operation under way has made a backup of the save it is about to replace, and as long as new backups
  rank first, that is the newest and no victim of its own retention.

* **`CloudUploadProofs`**: `CloudTypeCorrect`, `BatchesAreCompleted` (`[]BatchIsToldTheTruth`),
  `UploadImplementsContract` (the refinement, step by step) and `UploadsAreShown` (`[]CommittedIsShown` if
  `ClockRight`). The invariant `IInv` says at each program point what is known: a transfer that is still good at the commit has
  put every block, nothing is committed before, an upload under verification was, and the batch is open exactly from
  its begin to its completion. `UploadsAreShown` adds `SInv`: until the commit the uploaded name ranks with the best and
  its stamp is later than any on Steam; after it nothing else is as late.
  From the same invariant, `UploadsReplaceTheSlot`: what the slot's listing shows changes at one moment, from what it was to
  the new content (if `ClockRight`, and no other computer wrote since the upload began).

* **`AchievementsProofs`**: `TypeCorrect`; `SteamNeverLoses` (`SteamOnlyGrows`) and `SuccessMeansUnlocked`
  (`[]OkMeansUnlocked`), both if `CrcChecked`; `ExtrasAreNeverLost` (`ExtrasAreKept`);
  `NothingIsInvented` (`[]UnlocksAreEarned`); `StripUndoesExtend` about the conversions. For success, `PlanIsComplete`: between
  the answer and the last look whatever was asked for is in `names_to_add` or was unlocked before, and a lagging
  answer only ever shows less than Steam has. For the extras, `DownloadIsRemembered` (what was downloaded is in the sidecar,
  which keeps it, or something was forgotten) and `CommitReplacesIt` (the file that is replaced is the one downloaded and backed up,
  or another computer wrote after the last look). For invention, `AllIsWon` and `HandsAreWon`: the same of what the operation holds in its hands.
* **`SaveDiscoveryProofs`**: `TypeCorrect`, `ExcludedStaysLocal` (`[]ExcludedIsLeftAlone`), `NewestGenerationIsTaken`,
  `RestoresReachLiveSaves`. The invariant `BarredIsOut`: what was excluded when the operation began and has stayed so is
  excluded now, and neither listed nor worked on; so each of the four places that read the lists keeps it, whichever order they
  and the panel's two writes come in. `LiveRanksFirst` is the fact about `restore_path_rank`: every other file of the slot is of an
  abandoned generation and ranks behind.
* **`SteamSessionProofs`**: `TypeCorrect`, `SessionAlone` (`[]CloudSessionIsAlone`), `SignInsCanBeCancelled`,
  `CancelledWaitsEnd`, `SessionIsOfKeychain` (`[]SessionMatchesKeychain`), `DisconnectStays` (`[]DisconnectIsFinal`), for any number of
  accounts, attempts and tasks. `Typed` gives each job its shape (which points go with which kind, where it
  has an account) and the mutex its owner (`Owns`): the first theorem follows at once. `FlagsKept`: the flag of a waiting sign-in
  is in the cell, or with the UI thread that is to set it or put it back; a refused attempt's own flag is in the cell
  until then. `KeysMatch` (if there was no older token): what a job has loaded under the mutex is still the token, unless the lane is at a point
  from which it replaces or drops the session with the mutex free (`Unsettled`); when it does, nobody is past the lock, so no
  job can bring back the old account.

Left to TLC: only the two liveness properties, `PreflightReturns` and `LaneIsFreed`. Their bounds and the absence of circular waiting
are proved; that threads do take their steps (fairness, and with it `ENABLED`) is outside the prover.

## 5. Not modelled, and known limits

Not modelled at all: byte formats (sections, checksums, LZ4 framing inside `isaac_format.rs`), JSON and protobuf
marshalling, the cryptography of sign-ins, layout, logs, the touch overlay, the vendored transport with its table of
pending calls, the game-state detector and its debounce (no state the engine reads), and build scripts. Panics and memory exhaustion
are left out. The startup gate of the UI only shows the engine's phase; the background task of the lifecycle
adapter (`IsaacLifecycle.m:16`, ended from two queues over unsynchronized globals) is listed as a hazard without a model.

Left out of modelled components:

* Presence (`status.steam_playing`) and status texts: `cancel_login` writes "cancelling" over whatever the status is
  (`engine.rs:348`), and `steam_playing` may stay set after the connection closed.
* The cache of unlocks is that of one account; it is used for the next account signed in.
* `SteamSession`, `Achievements`, `SaveDiscovery`, `SlotSync` and `CloudUpload` stand side by side: what one gives
  another is a nondeterministic choice there. Only `SlotSync`/`SaveVault` and `CloudUpload`/`UploadContract` are tied by
  refinement; `UploadsReplaceTheSlot` says of `CloudUpload` what `SlotSync` takes for granted.

Limits of the code that came up while modelling, and that no sentence of the repository denies:

* `ensure_unique_slots` compares neighbours of a list sorted by path (`engine.rs:841`): with two slots in two
  directories each, two files of a slot are not neighbours and both are synchronized. "One file per slot" is not an
  invariant of `SaveDiscovery`.
* Including a slot has no effect while another of the six lists names it, or if the list in Documents cannot be
  written (`local.rs:66-90`).
* Sidecars of excluded slots still count for the achievements on Steam (`achievements.rs:478-485`).
* A backup under a Repentance+ name is restored by rank of name: with a `rep_` save and a Rebirth file in one directory it
  is refused as ambiguous.
* A sign-in started while another ends may lose its cancellation flag (history `crossed`); a refused password
  attempt closes the code channel of the sign-in that is running.
* A downloaded file may be newer than the enumerated one (`cloud.rs:209`), for a queued choice too.
* The retried preflight has no snapshot to compare when the first prelaunch sync got past the enumeration (`engine.rs:871`); the
  retried sync then fails and leaves everything as it is.

## 6. Plan

Written, in this order: `PrelaunchBarrier` (the lane everything runs on), `SlotSync` with `SaveVault`,
`AtomicWrite`, `Backups`, `CloudUpload`, then `SteamSession`, `Achievements`, `SaveDiscovery`. Next:

1. `SlotSync` and `CloudUpload` composed: the remote file of a slot as the listing picks it, the upload as its contract.
2. `BackgroundTask`; the connection's pending-job table.
3. Concurrent restore and pull on one catalog of backups.
