---------------------------- MODULE SteamSession ----------------------------
(***************************************************************************)
(* The Steam session (src/core/src/engine.rs, steam/cm.rs, keychain.rs):   *)
(* sign-in by QR code or password, its cancellation, the session that      *)
(* automatic and presence requests re-establish from the Keychain, and     *)
(* disconnecting.  The presence itself, whether Steam shows the game as    *)
(* played, is left out: setting it is a call that may fail.                *)
(*                                                                         *)
(* Three kinds of threads meet here.  The UI thread makes the calls:       *)
(* connect_*, cancel_login and submit_guard_code work on two shared cells, *)
(* auth_cancel and guard_sender.  The operation on the lane signs in,      *)
(* synchronizes or disconnects.  Tasks that set_foreground spawns run      *)
(* beside the lane.  The session cell is an asynchronous mutex that is     *)
(* held across awaits; `holder` is who has it.                             *)
(*                                                                         *)
(* A lane operation and a task are both a job, since both run              *)
(* ensure_session.  Sign-in attempts and tasks are numbered, and a number  *)
(* is used again when nothing refers to it any more.                       *)
(***************************************************************************)
EXTENDS Naturals

CONSTANTS
  Accounts,    \* Steam accounts
  Attempts,    \* bound: sign-in attempts alive at once
  Tasks,       \* bound: set_foreground tasks alive at once
  Legacy,      \* what the Keychain may have under the name of the older app
  None         \* no account, session, flag, sender or holder

Jobs      == {"lane"} \cup Tasks
Logins    == {"qr", "credentials"}
LaneKinds == Logins \cup {"sync", "achievements", "disconnect"}
Session   == [acct : Accounts, open : BOOLEAN]

ASSUME ConstantsAssumption ==
  /\ Legacy \subseteq Accounts \cup {None}
  /\ "lane" \notin Tasks
  /\ None \notin Accounts \cup Attempts \cup Jobs \cup LaneKinds \cup {"unlocks", "front"}
  /\ None \notin Session

VARIABLES
  keychain,   \* the refresh token, and the older app's: an account or None
  legacy,     \* history: the older app's token at the start
  session,    \* Engine.session
  holder,     \* the job that holds the session mutex, or None
  cancel,     \* Engine.auth_cancel: the attempt whose flag it is, or None
  guard,      \* Engine.guard_sender: the attempt whose channel it is, or None
  stopped,    \* the attempts whose cancellation flag is set
  codes,      \* the attempts with a Steam Guard code in their channel
  ui,         \* where the UI thread stands in connect_* or cancel_login
  job,        \* the lane's operation and the tasks
  authenticated, \* of StatusSnapshot
  state,      \* the state file: its account, and the account of its BASE
  out,        \* history: disconnected, and no sign-in has stored a token since
  crossed     \* history: attempts whose call was under way when another sign-in
              \* emptied the cells

cells == << cancel, guard, stopped, codes, crossed >>
vars  == << keychain, legacy, session, holder, cells, ui, job, authenticated, state, out >>

Pcs == {"off",
        "dial", "code", "poll", "logon", "clear", "check",                    \* sign-in
        "store", "bind", "bind_save", "present", "publish", "greet",          \* finish_login
        "lock", "load", "load_legacy", "migrate", "redial", "rebind",         \* ensure_session
        "rebind_save", "resume",
        "cloud_lock", "cloud",                                                \* run_sync
        "delete", "delete_legacy", "drop", "reset",                           \* disconnect
        "fail", "failed", "end"}
Account == Accounts \cup {None}
File    == [acct : Account, base : Account]
NoFile  == [acct |-> None, base |-> None]
NoJob   == [kind |-> None, pc |-> "off", n |-> None, acct |-> None, ok |-> FALSE, mem |-> NoFile]
NoUi    == [pc |-> "idle", kind |-> None, n |-> None, prev |-> None]

\* ok: the sign-in returned a session, for acct. mem: the state file as loaded.
Job == [kind : LaneKinds \cup {"unlocks", "front", None}, pc : Pcs, n : Attempts \cup {None},
        acct : Account, ok : BOOLEAN, mem : File]

TypeOK ==
  /\ keychain \in [own : Account, older : Account]
  /\ legacy \in Legacy
  /\ session \in Session \cup {None}
  /\ holder \in Jobs \cup {None}
  /\ cancel \in Attempts \cup {None}
  /\ guard \in Attempts \cup {None}
  /\ stopped \subseteq Attempts
  /\ codes \subseteq Attempts
  /\ crossed \subseteq Attempts
  /\ ui \in [pc : {"idle", "swapped", "refused", "taken", "stopped"},
             kind : Logins \cup {None}, n : Attempts \cup {None}, prev : Attempts \cup {None}]
  /\ job \in [Jobs -> Job]
  /\ authenticated \in BOOLEAN
  /\ state \in File
  /\ out \in BOOLEAN

\* A launch: an earlier one may have left a token and the state of its account.
Init ==
  /\ legacy \in Legacy
  /\ \E a \in Account : /\ keychain = [own |-> a, older |-> legacy]
                        /\ state = [acct |-> a, base |-> a]
  /\ session = None
  /\ holder = None
  /\ cancel = None /\ guard = None /\ stopped = {} /\ codes = {}
  /\ crossed = {}
  /\ ui = NoUi
  /\ job = [j \in Jobs |-> NoJob]
  /\ authenticated = FALSE
  /\ out = FALSE

lane == job["lane"]
At(j, pc)   == job[j].pc = pc

\* From these points on, what the job has worked with is of no more use.
Last == {"greet", "cloud_lock", "end", "fail", "failed"}

Goto(j, pc) ==
  job' = [job EXCEPT ![j] = IF pc \in Last THEN [NoJob EXCEPT !.kind = job[j].kind, !.n = job[j].n, !.pc = pc]
                            ELSE [@ EXCEPT !.pc = pc]]

-----------------------------------------------------------------------------
(* The UI thread *)

\* Numbers nothing refers to.
Fresh == Attempts \ {cancel, guard, lane.n, ui.n, ui.prev}

\* connect_qr and connect_credentials first put their flag, and their channel,
\* into the shared cells.
Connect(kind, n) ==
  /\ ui.pc = "idle"
  /\ n \in Fresh
  /\ ui' = [pc |-> "swapped", kind |-> kind, n |-> n, prev |-> cancel]
  /\ cancel' = n
  /\ guard' = IF kind = "credentials" THEN n ELSE guard
  /\ stopped' = stopped \ {n}
  /\ codes' = codes \ {n}
  /\ crossed' = crossed \ {n}
  /\ UNCHANGED << keychain, legacy, session, holder, job, authenticated, state, out >>

\* ... then try to take the lane (spawn_operation).
ConnectTry ==
  /\ ui.pc = "swapped"
  /\ IF lane.kind = None
     THEN /\ job' = [job EXCEPT !["lane"] =
                       [NoJob EXCEPT !.kind = ui.kind, !.pc = "dial", !.n = ui.n]]
          /\ ui' = NoUi
     ELSE ui' = [ui EXCEPT !.pc = "refused"] /\ UNCHANGED job
  /\ UNCHANGED << keychain, legacy, session, holder, cells, authenticated, state, out >>

\* Bug: a refused sign-in leaves no flag behind.
RefusedForgets ==
  /\ ui.pc = "refused"
  /\ cancel' = None
  /\ guard' = IF ui.kind = "credentials" THEN None ELSE guard
  /\ ui' = NoUi
  /\ UNCHANGED << keychain, legacy, session, holder, stopped, codes, job, authenticated,
                  state, out, crossed >>

\* ... and when it is taken, put the old flag back; the channel is gone.
Refused ==
  /\ ui.pc = "refused"
  /\ cancel' = ui.prev
  /\ guard' = IF ui.kind = "credentials" THEN None ELSE guard
  /\ ui' = NoUi
  /\ UNCHANGED << keychain, legacy, session, holder, stopped, codes, job, authenticated,
                  state, out, crossed >>

\* cancel_login takes the flag, sets it, drops the channel, and says so.
CancelTake ==
  /\ ui.pc = "idle"
  /\ cancel # None
  /\ ui' = [NoUi EXCEPT !.pc = "taken", !.n = cancel]
  /\ cancel' = None
  /\ UNCHANGED << keychain, legacy, session, holder, guard, stopped, codes, job, authenticated,
                  state, out, crossed >>

CancelStop ==
  /\ ui.pc = "taken"
  /\ stopped' = stopped \cup ({ui.n} \cap {lane.n})   \* no one looks at an older flag
  /\ ui' = [ui EXCEPT !.pc = "stopped"]
  /\ UNCHANGED << keychain, legacy, session, holder, cancel, guard, codes, job, authenticated,
                  state, out, crossed >>

\* Bug: the channel for the code is left open.
CancelKeepsChannel ==
  /\ ui.pc = "stopped"
  /\ ui' = NoUi
  /\ UNCHANGED << keychain, legacy, session, holder, cells, job, authenticated, state, out >>

CancelEnd ==
  /\ ui.pc = "stopped"
  /\ guard' = None
  /\ ui' = NoUi
  /\ UNCHANGED << keychain, legacy, session, holder, cancel, stopped, codes, job, authenticated,
                  state, out, crossed >>

SubmitGuardCode ==
  /\ ui.pc = "idle"
  /\ guard # None
  /\ codes' = codes \cup {guard}
  /\ UNCHANGED << keychain, legacy, session, holder, cancel, guard, stopped, ui, job,
                  authenticated, state, out, crossed >>

\* automatic_sync, sync_achievements and disconnect.
StartOperation(kind) ==
  /\ ui.pc = "idle"
  /\ lane.kind = None
  /\ job' = [job EXCEPT !["lane"] = [NoJob EXCEPT !.kind = kind,
                                        !.pc = IF kind = "disconnect" THEN "delete" ELSE "lock"]]
  /\ UNCHANGED << keychain, legacy, session, holder, cells, ui, authenticated, state, out >>

\* set_foreground(true), by the lifecycle observers, which run on the UI thread
\* too. (set_foreground(false) only takes the mutex to clear the presence.)
SetForeground(t) ==
  /\ ui.pc = "idle"
  /\ job[t].kind = None
  /\ job' = [job EXCEPT ![t] = [NoJob EXCEPT !.kind = "front", !.pc = "lock"]]
  /\ UNCHANGED << keychain, legacy, session, holder, cells, ui, authenticated, state, out >>

\* The connection closes.
Close ==
  /\ session # None /\ session.open
  /\ session' = [session EXCEPT !.open = FALSE]
  /\ UNCHANGED << keychain, legacy, holder, cells, ui, job, authenticated, state, out >>

-----------------------------------------------------------------------------
(* Signing in: connect_with_qr, connect_with_credentials, log_on. *)

SignsIn(pc) == lane.kind \in Logins /\ lane.pc = pc

\* A Steam CM answers and begins the authentication; Steam wants a code or an
\* approval (for a QR code always the latter); or the connection fails.
Dial ==
  /\ SignsIn("dial")
  /\ \/ lane.kind = "credentials" /\ Goto("lane", "code")
     \/ Goto("lane", "poll")
     \/ Goto("lane", "clear")
  /\ UNCHANGED << keychain, legacy, session, holder, cells, ui, authenticated, state, out >>

\* guard_codes.recv(): a code, or nothing once the sender is gone.
CodeReceived ==
  /\ SignsIn("code")
  /\ lane.n \in codes \/ guard # lane.n
  /\ codes' = codes \ {lane.n}
  /\ Goto("lane", IF lane.n \in codes THEN "poll" ELSE "clear")
  /\ UNCHANGED << keychain, legacy, session, holder, cancel, guard, stopped, ui, authenticated,
                  state, out, crossed >>

\* Five minutes pass, or a call to Steam fails.
SignInFails ==
  /\ lane.kind \in Logins /\ lane.pc \in {"code", "poll", "logon"}
  /\ Goto("lane", "clear")
  /\ UNCHANGED << keychain, legacy, session, holder, cells, ui, authenticated, state, out >>

\* The flag is looked at between two polls, and not again before the end.
PollCancelled ==
  /\ SignsIn("poll")
  /\ lane.n \in stopped
  /\ Goto("lane", "clear")
  /\ UNCHANGED << keychain, legacy, session, holder, cells, ui, authenticated, state, out >>

Approved(a) ==
  /\ SignsIn("poll")
  /\ lane.n \notin stopped
  /\ job' = [job EXCEPT !["lane"].pc = "logon", !["lane"].acct = a]
  /\ UNCHANGED << keychain, legacy, session, holder, cells, ui, authenticated, state, out >>

LogOn ==
  /\ SignsIn("logon")
  /\ job' = [job EXCEPT !["lane"].pc = "clear", !["lane"].ok = TRUE]
  /\ UNCHANGED << keychain, legacy, session, holder, cells, ui, authenticated, state, out >>

\* Back in connect_*: the cells are emptied, whosever they are by now.
Clear ==
  /\ SignsIn("clear")
  /\ cancel' = None
  /\ guard' = IF lane.kind = "credentials" THEN None ELSE guard
  /\ codes' = codes \ {lane.n}
  /\ crossed' = crossed \cup ({ui.n} \ {None, lane.n})
  /\ Goto("lane", "check")
  /\ UNCHANGED << keychain, legacy, session, holder, stopped, ui, authenticated,
                  state, out >>

\* Bug: only the cancellation is looked at, not what the sign-in returned.
CheckFlagOnly ==
  /\ SignsIn("check")
  /\ Goto("lane", IF lane.n \in stopped THEN "end" ELSE "store")
  /\ UNCHANGED << keychain, legacy, session, holder, cells, ui, authenticated, state, out >>

\* Cancelled: the operation ends well, and a session that was signed in is dropped.
Check ==
  /\ SignsIn("check")
  /\ Goto("lane", IF lane.n \in stopped THEN "end" ELSE IF lane.ok THEN "store" ELSE "fail")
  /\ UNCHANGED << keychain, legacy, session, holder, cells, ui, authenticated, state, out >>

\* Bug: the token is kept for the next launch only when everything else went well.
StoreLater ==
  /\ SignsIn("store")
  /\ Goto("lane", "bind")
  /\ UNCHANGED << keychain, legacy, session, holder, cells, ui, authenticated, state, out >>

StoreToken ==
  /\ SignsIn("store")
  /\ \/ /\ keychain' = [keychain EXCEPT !.own = lane.acct]
        /\ Goto("lane", "bind")
        /\ out' = FALSE
     \/ Goto("lane", "fail") /\ UNCHANGED << keychain, out >>
  /\ UNCHANGED << legacy, session, holder, cells, ui, authenticated, state >>

-----------------------------------------------------------------------------
(* bind_state_to_account: load, and save for the account. *)

\* What an account change leaves of the state: no BASE, no queued pull.
Bound(f, a) == [acct |-> a, base |-> IF f.acct \in {a, None} THEN f.base ELSE None]

Bind(j) ==
  /\ job[j].pc \in {"bind", "rebind"}
  /\ job' = [job EXCEPT ![j].mem = state,
                        ![j].pc = IF @ = "bind" THEN "bind_save" ELSE "rebind_save"]
  /\ UNCHANGED << keychain, legacy, session, holder, cells, ui, authenticated, state, out >>

BindSave(j) ==
  /\ job[j].pc \in {"bind_save", "rebind_save"}
  /\ state' = Bound(job[j].mem, job[j].acct)
  /\ job' = [job EXCEPT ![j].mem = NoFile,
                        ![j].pc = IF @ = "bind_save" THEN "present" ELSE "resume"]
  /\ UNCHANGED << keychain, legacy, session, holder, cells, ui, authenticated, out >>

-----------------------------------------------------------------------------
(* finish_login *)

\* apply_presence, on a connection no one else can see yet.
Present ==
  /\ SignsIn("present")
  /\ Goto("lane", "publish") \/ Goto("lane", "fail")
  /\ UNCHANGED << keychain, legacy, session, holder, cells, ui, authenticated, state, out >>

Publish ==
  /\ SignsIn("publish")
  /\ holder = None
  /\ session' = [acct |-> lane.acct, open |-> TRUE]
  /\ Goto("lane", "greet")
  /\ UNCHANGED << keychain, legacy, holder, cells, ui, authenticated, state, out >>

Greet ==
  /\ SignsIn("greet")
  /\ authenticated' = TRUE
  /\ Goto("lane", "cloud_lock")
  /\ UNCHANGED << keychain, legacy, session, holder, cells, ui, state, out >>

-----------------------------------------------------------------------------
(* ensure_session, by the lane or by a task. The mutex is held to the end. *)

Ensures(j) == job[j].kind \in {"sync", "achievements", "front"}

\* What a job does next when ensure_session has returned Ok.
Ensured(j) == IF j = "lane" THEN Goto(j, "cloud_lock") ELSE job' = [job EXCEPT ![j] = NoJob]

\* ... and Err: automatic_sync goes on offline, sync_achievements fails, a task
\* only logs.
EnsureFails(j) ==
  /\ holder' = None
  /\ CASE job[j].kind = "sync"         -> Goto(j, "end")
       [] job[j].kind = "achievements" -> Goto(j, "fail")
       [] job[j].kind = "front"        -> job' = [job EXCEPT ![j] = NoJob]

EnsureLock(j) ==
  /\ Ensures(j) /\ At(j, "lock")
  /\ holder = None
  /\ holder' = j
  /\ Goto(j, IF session # None /\ session.open THEN "resume" ELSE "load")
  /\ UNCHANGED << keychain, legacy, session, cells, ui, authenticated, state, out >>

\* Bug: the mutex is not held while the new connection is made.
LoadReleases(j) ==
  /\ At(j, "load")
  /\ holder' = None
  /\ job' = [job EXCEPT ![j].acct = keychain.own,
                        ![j].pc = IF keychain.own # None THEN "redial" ELSE "load_legacy"]
  /\ UNCHANGED << keychain, legacy, session, cells, ui, authenticated, state, out >>

\* load_refresh_token: the app's own token; else the older app's, which is
\* stored as the app's own.
Load(j) ==
  /\ At(j, "load")
  /\ job' = [job EXCEPT ![j].acct = keychain.own,
                        ![j].pc = IF keychain.own # None THEN "redial" ELSE "load_legacy"]
  /\ UNCHANGED << keychain, legacy, session, holder, cells, ui, authenticated, state, out >>

LoadLegacy(j) ==
  /\ At(j, "load_legacy")
  /\ IF keychain.older = None THEN EnsureFails(j)
     ELSE /\ job' = [job EXCEPT ![j].acct = keychain.older, ![j].pc = "migrate"]
          /\ UNCHANGED holder
  /\ UNCHANGED << keychain, legacy, session, cells, ui, authenticated, state, out >>

Migrate(j) ==
  /\ At(j, "migrate")
  /\ \/ /\ keychain' = [keychain EXCEPT !.own = job[j].acct]
        /\ Goto(j, "redial")
        /\ UNCHANGED holder
     \/ EnsureFails(j) /\ UNCHANGED keychain
  /\ UNCHANGED << legacy, session, cells, ui, authenticated, state, out >>

\* connect_with_refresh_token
Redial(j) ==
  /\ At(j, "redial")
  /\ \/ Goto(j, "rebind") /\ UNCHANGED holder
     \/ EnsureFails(j)
  /\ UNCHANGED << keychain, legacy, session, cells, ui, authenticated, state, out >>

\* apply_presence on the existing session (no account in the job) or on the new
\* one, which becomes the session.
Resume(j) ==
  /\ At(j, "resume")
  /\ \/ /\ IF job[j].acct = None THEN UNCHANGED << session, authenticated >>
           ELSE /\ session' = [acct |-> job[j].acct, open |-> TRUE]
                /\ authenticated' = TRUE
        /\ holder' = None
        /\ Ensured(j)
     \/ EnsureFails(j) /\ UNCHANGED << session, authenticated >>
  /\ UNCHANGED << keychain, legacy, cells, ui, state, out >>

-----------------------------------------------------------------------------
(* run_sync and run_achievement_sync: the mutex is held from the first call *)
(* to Steam to the end. *)

\* What an error is for the operation.
Fails == Goto("lane", IF lane.kind = "unlocks" THEN "end" ELSE "fail")

CloudLock ==
  /\ At("lane", "cloud_lock")
  /\ holder = None
  /\ IF session = None THEN Fails /\ UNCHANGED holder
     ELSE job' = [job EXCEPT !["lane"].pc = "cloud", !["lane"].mem = state] /\ holder' = "lane"
  /\ UNCHANGED << keychain, legacy, session, cells, ui, authenticated, state, out >>

\* run_sync saves the state it loaded, perhaps with new BASE records, which are of
\* the session's account. After it, a sync by hand does the achievements, whose
\* failure is not the operation's.
Cloud ==
  /\ At("lane", "cloud")
  /\ holder' = None
  /\ \/ /\ session.open
        /\ lane.kind \in {"achievements", "unlocks"}
        /\ Goto("lane", "end")
        /\ UNCHANGED state
     \/ /\ session.open
        /\ lane.kind \in Logins \cup {"sync"}
        /\ \E b \in {session.acct, lane.mem.base} : state' = [lane.mem EXCEPT !.base = b]
        /\ \/ Goto("lane", "end")
           \/ /\ lane.kind = "sync"
              /\ job' = [job EXCEPT !["lane"] = [NoJob EXCEPT !.kind = "unlocks", !.pc = "cloud_lock"]]
     \/ Fails /\ UNCHANGED state
  /\ UNCHANGED << keychain, legacy, session, cells, ui, authenticated, out >>

-----------------------------------------------------------------------------
(* disconnect, and the end of every operation *)

\* delete_refresh_token, twice; either may fail.
Delete ==
  /\ At("lane", "delete")
  /\ \/ keychain' = [keychain EXCEPT !.own = None] /\ Goto("lane", "delete_legacy")
     \/ Goto("lane", "fail") /\ UNCHANGED keychain
  /\ UNCHANGED << legacy, session, holder, cells, ui, authenticated, state, out >>

DeleteLegacy ==
  /\ At("lane", "delete_legacy")
  /\ \/ keychain' = [keychain EXCEPT !.older = None] /\ Goto("lane", "drop")
     \/ Goto("lane", "fail") /\ UNCHANGED keychain
  /\ UNCHANGED << legacy, session, holder, cells, ui, authenticated, state, out >>

\* Bug: the session is dropped without waiting for the mutex.
DropUnlocked ==
  /\ At("lane", "drop")
  /\ session' = None
  /\ Goto("lane", "reset")
  /\ UNCHANGED << keychain, legacy, holder, cells, ui, authenticated, state, out >>

Drop ==
  /\ At("lane", "drop")
  /\ holder = None
  /\ session' = None
  /\ Goto("lane", "reset")
  /\ UNCHANGED << keychain, legacy, holder, cells, ui, authenticated, state, out >>

Reset ==
  /\ At("lane", "reset")
  /\ authenticated' = FALSE
  /\ out' = TRUE
  /\ Goto("lane", "end")
  /\ UNCHANGED << keychain, legacy, session, holder, cells, ui, state >>

\* spawn_operation: an operation that returned Err drops the session,
Fail ==
  /\ At("lane", "fail")
  /\ holder = None
  /\ session' = None
  /\ Goto("lane", "failed")
  /\ UNCHANGED << keychain, legacy, holder, cells, ui, authenticated, state, out >>

\* The lane is free, and with the operation go its flag and its channel.
LaneFreed ==
  /\ job' = [job EXCEPT !["lane"] = NoJob]
  /\ stopped' = stopped \ {lane.n}
  /\ crossed' = crossed \ {lane.n}

\* ... and says so; then the lane is free.
Failed ==
  /\ At("lane", "failed")
  /\ authenticated' = FALSE
  /\ LaneFreed
  /\ UNCHANGED << keychain, legacy, session, holder, cancel, guard, codes, ui,
                  state, out >>

End ==
  /\ At("lane", "end")
  /\ LaneFreed
  /\ UNCHANGED << keychain, legacy, session, holder, cancel, guard, codes, ui, authenticated,
                  state, out >>

-----------------------------------------------------------------------------
UiStep ==
  \/ \E kind \in Logins, n \in Attempts : Connect(kind, n)
  \/ ConnectTry \/ Refused
  \/ CancelTake \/ CancelStop \/ CancelEnd
  \/ SubmitGuardCode
  \/ \E kind \in LaneKinds \ Logins : StartOperation(kind)
  \/ \E t \in Tasks : SetForeground(t)

SignIn ==
  \/ Dial \/ CodeReceived \/ SignInFails \/ PollCancelled \/ (\E a \in Accounts : Approved(a))
  \/ LogOn \/ Clear \/ Check \/ StoreToken \/ Present \/ Publish \/ Greet

Ensure(j) ==
  \/ EnsureLock(j) \/ Load(j) \/ LoadLegacy(j) \/ Migrate(j) \/ Redial(j)
  \/ Bind(j) \/ BindSave(j) \/ Resume(j)

LaneStep == CloudLock \/ Cloud \/ Delete \/ DeleteLegacy \/ Drop \/ Reset \/ Fail \/ Failed \/ End

Next ==
  \/ UiStep \/ SignIn \/ LaneStep \/ Close
  \/ \E j \in Jobs : Ensure(j)

Spec == Init /\ [][Next]_vars

-----------------------------------------------------------------------------
(* Properties. *)

\* No one signs in while an operation uses its session, and the session stays
\* the same: "prevents a second CM login from racing the Cloud session"
\* (engine.rs:444-446).
CloudSessionIsAlone ==
  lane.pc = "cloud" =>
    /\ session # None
    /\ \A t \in Tasks : job[t].pc \in {"off", "lock"}

\* A sign-in that has not heard from Steam yet.
Waiting == lane.kind \in Logins /\ lane.pc \in {"dial", "code", "poll", "logon"}

\* Whatever attempts are refused meanwhile, a sign-in that is waiting for the
\* user can be cancelled: its flag is in auth_cancel, or is set already. Not
\* so if it was started just when another sign-in ended, which emptied the cell.
SignInCanBeCancelled ==
  ui.pc = "idle" /\ Waiting /\ lane.n \notin crossed => cancel = lane.n \/ lane.n \in stopped

\* Once cancelled, a sign-in does not go on waiting for a code (for up to five
\* minutes): there is one, or its channel is gone. A poll looks at the flag.
CancelEndsTheWait ==
  ui.pc = "idle" /\ lane.pc = "code" /\ lane.n \in stopped => lane.n \in codes \/ guard # lane.n

\* Between operations the session is that of the token in the Keychain: the
\* next launch signs in to the account the user sees now. Not so if an older
\* app's token is stored as the app's own after a sign-in stored a newer one.
SessionMatchesKeychain ==
  legacy = None /\ lane.kind = None /\ holder = None /\ session # None =>
    session.acct = keychain.own

\* After disconnect there is no token and no session until the user signs in,
\* whatever presence requests were under way: "The refresh token will be
\* removed from Keychain" (IsaacCloudUI.m:411). An older app's token that is
\* being migrated at that moment escapes.
DisconnectIsFinal ==
  out /\ legacy = None /\ lane.kind = None => session = None /\ keychain.own = None

\* The BASE records are those of the account the state file names: "Steam account
\* changed; synchronization BASE was cleared" (engine.rs:819).
BaseIsOfItsAccount == state.base # None => state.base = state.acct
=============================================================================
