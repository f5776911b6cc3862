------------------------- MODULE SteamSessionProofs -------------------------
(***************************************************************************)
(* Proofs about SteamSession, for any accounts, any number of sign-ins and *)
(* presence tasks, and any token of an older app.                          *)
(***************************************************************************)
EXTENDS SteamSession, TLAPS

USE ConstantsAssumption

-----------------------------------------------------------------------------
(* The shape of a job: which program points go with which kind, and what is *)
(* known there of its attempt and its account.                              *)

\* The points at which ensure_session holds the session mutex
Held == {"load", "load_legacy", "migrate", "redial", "rebind", "rebind_save", "resume"}

\* The points of a sign-in
SignPcs == {"dial", "code", "poll", "logon", "clear", "check", "store", "bind", "bind_save",
            "present", "publish", "greet"}

LanePcs(kind) ==
  CASE kind \in Logins -> SignPcs \cup {"cloud_lock", "cloud", "fail", "failed", "end"}
    [] kind \in {"sync", "achievements"} ->
         Held \cup {"lock", "cloud_lock", "cloud", "fail", "failed", "end"}
    [] kind = "unlocks" -> {"cloud_lock", "cloud", "end"}
    [] kind = "disconnect" -> {"delete", "delete_legacy", "drop", "reset", "fail", "failed", "end"}
    [] OTHER -> {"off"}

KindShape(j, r) ==
  IF j = "lane"
  THEN /\ r.kind # "front" /\ r.pc \in LanePcs(r.kind)
       /\ r.kind \in Logins <=> r.n # None
  ELSE \/ r.kind = None /\ r.pc = "off"
       \/ r.kind = "front" /\ r.pc \in Held \cup {"lock"}

AccountShape(r) ==
  /\ r.pc \in {"logon", "store", "bind", "bind_save", "present", "publish",
               "migrate", "redial", "rebind", "rebind_save"} => r.acct \in Accounts
  /\ r.pc \in {"lock", "dial", "code", "poll"} => r.acct = None

\* Only a sign-in is ever signed in, and for an account.
SignedIn(r) == r.ok = TRUE => r.acct \in Accounts /\ r.kind \in Logins

Shape(j, r) == KindShape(j, r) /\ AccountShape(r) /\ SignedIn(r)

\* Whoever is past a lock has it.
Owns(j) == job[j].pc \in Held \cup {"cloud"} => holder = j

UiShape ==
  /\ ui.pc \in {"swapped", "refused"} => ui.kind \in Logins /\ ui.n \in Attempts
  /\ ui.pc = "taken" => ui.n \in Attempts

Typed ==
  /\ TypeOK
  /\ UiShape
  /\ \A j \in Jobs : Shape(j, job[j]) /\ Owns(j)
  /\ lane.pc = "cloud" => session # None

-----------------------------------------------------------------------------
(* A step changes at most one job. *)

Moved(r, pc) ==
  IF pc \in Last THEN [NoJob EXCEPT !.kind = r.kind, !.n = r.n, !.pc = pc]
                 ELSE [r EXCEPT !.pc = pc]

LEMMA GotoMoves ==
  ASSUME NEW j \in Jobs, job \in [Jobs -> Job], NEW pc \in Pcs, Goto(j, pc)
  PROVE  job' = [job EXCEPT ![j] = Moved(job[j], pc)]
BY DEF Goto, Moved

LEMMA NoJobType == NoJob \in Job /\ NoJob.acct = None /\ NoJob.ok = FALSE /\ NoJob.kind = None
                   /\ NoJob.pc = "off" /\ NoJob.n = None
BY DEF NoJob, Job, NoFile, File, Account, Pcs

LEMMA MovedType ==
  ASSUME NEW r \in Job, NEW pc \in Pcs
  PROVE  /\ Moved(r, pc) \in Job
         /\ Moved(r, pc).pc = pc /\ Moved(r, pc).kind = r.kind /\ Moved(r, pc).n = r.n
         /\ pc \in Last => Moved(r, pc).acct = None
         /\ pc \notin Last => Moved(r, pc).acct = r.acct
BY DEF Moved, Job, NoJob, NoFile, File, Account, Pcs

LEMMA MovedSignedIn ==
  ASSUME NEW r \in Job, NEW pc \in Pcs, SignedIn(r)
  PROVE  SignedIn(Moved(r, pc))
<1>1. CASE pc \in Last
  <2>1. Moved(r, pc).ok = FALSE
    BY <1>1 DEF Moved, NoJob
  <2> QED BY <2>1 DEF SignedIn
<1>2. CASE pc \notin Last
  <2>1. Moved(r, pc).acct = r.acct /\ Moved(r, pc).ok = r.ok /\ Moved(r, pc).kind = r.kind
    BY <1>2 DEF Moved, Job
  <2> QED BY <2>1 DEF SignedIn
<1> QED BY <1>1, <1>2

LEMMA OneJob ==
  ASSUME Typed, NEW j \in Jobs, NEW r \in Job, Shape(j, r), job' = [job EXCEPT ![j] = r],
         r.pc \in Held \cup {"cloud"} => holder' = j,
         \A i \in Jobs \ {j} : holder = i => holder' = i
  PROVE  /\ job' \in [Jobs -> Job]
         /\ \A i \in Jobs : (Shape(i, job[i]) /\ Owns(i))'
         /\ job'[j] = r
<1>1. job' \in [Jobs -> Job] /\ job'[j] = r /\ \A i \in Jobs \ {j} : job'[i] = job[i]
  BY DEF Typed, TypeOK
<1>2. ASSUME NEW i \in Jobs PROVE (Shape(i, job[i]) /\ Owns(i))'
  <2>1. CASE i = j
    BY <1>1, <2>1 DEF Shape, KindShape, AccountShape, SignedIn, Owns
  <2>2. CASE i # j
    BY <1>1, <2>2 DEF Typed, Shape, KindShape, AccountShape, SignedIn, Owns
  <2> QED BY <2>1, <2>2
<1> QED BY <1>1, <1>2

LEMMA GotoTyped ==
  ASSUME Typed, NEW j \in Jobs, NEW pc \in Pcs, Goto(j, pc), Shape(j, Moved(job[j], pc)),
         pc \in Held \cup {"cloud"} => holder' = j,
         \A i \in Jobs \ {j} : holder = i => holder' = i
  PROVE  /\ job' \in [Jobs -> Job]
         /\ \A i \in Jobs : (Shape(i, job[i]) /\ Owns(i))'
         /\ job'[j] = Moved(job[j], pc)
<1>1. job \in [Jobs -> Job] /\ job[j] \in Job
  BY DEF Typed, TypeOK
<1>2. Moved(job[j], pc) \in Job /\ Moved(job[j], pc).pc = pc
  BY <1>1, MovedType
<1>3. job' = [job EXCEPT ![j] = Moved(job[j], pc)]
  BY <1>1, GotoMoves
<1> QED BY <1>2, <1>3, OneJob

LEMMA SameJobs ==
  ASSUME Typed, UNCHANGED job, \A i \in Jobs : holder = i => holder' = i
  PROVE  /\ job' \in [Jobs -> Job]
         /\ \A i \in Jobs : (Shape(i, job[i]) /\ Owns(i))'
BY DEF Typed, TypeOK, Shape, KindShape, AccountShape, SignedIn, Owns

\* A job is dropped.
LEMMA NoJobTyped ==
  ASSUME Typed, NEW j \in Jobs, job' = [job EXCEPT ![j] = NoJob],
         \A i \in Jobs \ {j} : holder = i => holder' = i
  PROVE  /\ job' \in [Jobs -> Job]
         /\ \A i \in Jobs : (Shape(i, job[i]) /\ Owns(i))'
         /\ job'[j] = NoJob
<1>1. Shape(j, NoJob)
  BY NoJobType DEF Shape, KindShape, AccountShape, SignedIn, LanePcs, LaneKinds, Logins, Jobs
<1>2. NoJob.pc \notin Held \cup {"cloud"} /\ NoJob \in Job
  BY NoJobType DEF Held
<1> QED BY <1>1, <1>2, OneJob

LEMMA LaneIsAJob == "lane" \in Jobs /\ (Typed => lane \in Job /\ Shape("lane", lane) /\ Owns("lane"))
BY DEF Jobs, Typed, TypeOK, lane

LEMMA InitTyped == Init => Typed
<1> SUFFICES ASSUME Init PROVE Typed
  OBVIOUS
<1>1. NoFile \in File /\ NoUi.kind = None
  BY DEF NoFile, File, Account, NoUi
<1>2. TypeOK
  <2>1. PICK a \in Account : /\ keychain = [own |-> a, older |-> legacy]
                             /\ state = [acct |-> a, base |-> a]
    BY DEF Init
  <2>2. state \in File /\ keychain \in [own : Account, older : Account] /\ legacy \in Legacy
    BY <2>1 DEF Init, File, Account
  <2>3. authenticated \in BOOLEAN /\ out \in BOOLEAN
    BY DEF Init
  <2>4. ui \in [pc : {"idle", "swapped", "refused", "taken", "stopped"},
             kind : Logins \cup {None}, n : Attempts \cup {None}, prev : Attempts \cup {None}]
    BY DEF Init, NoUi
  <2>5. job \in [Jobs -> Job]
    BY NoJobType DEF Init
  <2> QED BY <2>2, <2>3, <2>4, <2>5 DEF Init, TypeOK
<1>3. \A j \in Jobs : Shape(j, job[j]) /\ Owns(j)
  <2> TAKE j \in Jobs
  <2>1. job[j] = NoJob
    BY DEF Init
  <2> QED BY <2>1, NoJobType DEF Shape, KindShape, AccountShape, SignedIn, LanePcs, LaneKinds, Logins, Owns, Held
<1>4. lane.pc # "cloud"
  BY NoJobType, LaneIsAJob DEF Init, lane
<1>5. UiShape
  BY DEF Init, NoUi, UiShape
<1> QED BY <1>2, <1>3, <1>4, <1>5 DEF Typed

LEMMA UiTyped ==
  ASSUME Typed, UiStep
  PROVE  Typed'
<1>0. lane \in Job /\ "lane" \in Jobs /\ lane = job["lane"]
  BY LaneIsAJob DEF lane
<1>1. /\ UNCHANGED << keychain, legacy, session, holder, authenticated, state, out >>
  BY DEF UiStep, Connect, ConnectTry, Refused, CancelTake, CancelStop, CancelEnd,
         SubmitGuardCode, StartOperation, SetForeground, cells
<1>2. /\ cancel' \in Attempts \cup {None} /\ guard' \in Attempts \cup {None}
      /\ stopped' \subseteq Attempts /\ codes' \subseteq Attempts /\ crossed' \subseteq Attempts
      /\ ui' \in [pc : {"idle", "swapped", "refused", "taken", "stopped"},
             kind : Logins \cup {None}, n : Attempts \cup {None}, prev : Attempts \cup {None}]
      /\ UiShape'
  <2>1. ASSUME NEW kind \in Logins, NEW n \in Attempts, Connect(kind, n) PROVE <1>2
    BY <2>1 DEF Connect, Typed, TypeOK, UiShape
  <2>2. CASE ConnectTry \/ Refused
    BY <2>2 DEF ConnectTry, Refused, cells, Typed, TypeOK, NoUi, UiShape
  <2>3. CASE CancelTake
    <3>1. ui' = [pc |-> "taken", kind |-> None, n |-> cancel, prev |-> None]
      BY <2>3 DEF CancelTake, NoUi
    <3>2. cancel \in Attempts /\ cancel' = None /\ UNCHANGED << guard, stopped, codes, crossed >>
      BY <2>3 DEF CancelTake, Typed, TypeOK
    <3> QED BY <3>1, <3>2 DEF Typed, TypeOK, UiShape
  <2>7. CASE CancelEnd
    BY <2>7 DEF CancelEnd, Typed, TypeOK, NoUi, UiShape
  <2>4. CASE CancelStop
    <3>1. stopped' \subseteq Attempts
      BY <2>4 DEF CancelStop, Typed, TypeOK, UiShape
    <3> QED BY <2>4, <3>1 DEF CancelStop, Typed, TypeOK, UiShape
  <2>5. CASE SubmitGuardCode
    BY <2>5 DEF SubmitGuardCode, Typed, TypeOK, UiShape
  <2>6. ASSUME UNCHANGED << ui, cells >> PROVE <1>2
    BY <2>6 DEF cells, Typed, TypeOK, UiShape
  <2> QED BY <2>1, <2>2, <2>3, <2>4, <2>5, <2>6, <2>7 DEF UiStep, StartOperation, SetForeground
<1>3. /\ job' \in [Jobs -> Job]
      /\ \A i \in Jobs : (Shape(i, job[i]) /\ Owns(i))'
      /\ job'["lane"].pc # "cloud" \/ lane' = lane
  <2>1. CASE UNCHANGED job
    BY <1>1, <2>1, SameJobs DEF lane
  <2>2. CASE ConnectTry /\ lane.kind = None
    <3> DEFINE r == [NoJob EXCEPT !.kind = ui.kind, !.pc = "dial", !.n = ui.n]
    <3>1. ui.kind \in Logins /\ ui.n \in Attempts
      BY <2>2 DEF ConnectTry, Typed, UiShape
    <3>2. /\ r \in Job /\ r.pc = "dial" /\ r.kind = ui.kind /\ r.n = ui.n /\ r.acct = None
          /\ r.ok = FALSE
      BY <3>1 DEF Job, Pcs, NoJob, LaneKinds, Logins, Account, NoFile, File
    <3>3. job' = [job EXCEPT !["lane"] = r]
      BY <2>2 DEF ConnectTry
    <3> HIDE DEF r
    <3>4. Shape("lane", r)
      BY <3>1, <3>2 DEF Shape, KindShape, AccountShape, SignedIn, LanePcs, LaneKinds, Logins, SignPcs
    <3> QED BY <1>0, <1>1, <3>2, <3>3, <3>4, OneJob DEF Held, lane
  <2>3. ASSUME NEW kind \in LaneKinds \ Logins, StartOperation(kind) PROVE <1>3
    <3> DEFINE r == [NoJob EXCEPT !.kind = kind,
                                  !.pc = IF kind = "disconnect" THEN "delete" ELSE "lock"]
    <3>1. /\ r \in Job /\ r.pc = (IF kind = "disconnect" THEN "delete" ELSE "lock")
          /\ r.kind = kind /\ r.n = None /\ r.acct = None /\ r.ok = FALSE
      BY DEF Job, Pcs, NoJob, LaneKinds, Logins, Account, NoFile, File
    <3>2. job' = [job EXCEPT !["lane"] = r]
      BY <2>3 DEF StartOperation
    <3> HIDE DEF r
    <3>3. Shape("lane", r)
      BY <3>1 DEF Shape, KindShape, AccountShape, SignedIn, LanePcs, LaneKinds, Logins
    <3> QED BY <1>0, <1>1, <3>1, <3>2, <3>3, OneJob DEF Held, lane
  <2>4. ASSUME NEW u \in Tasks, SetForeground(u) PROVE <1>3
    <3> DEFINE r == [NoJob EXCEPT !.kind = "front", !.pc = "lock"]
    <3>1. /\ r \in Job /\ r.pc = "lock" /\ r.kind = "front" /\ r.n = None /\ r.acct = None
          /\ r.ok = FALSE
      BY DEF Job, Pcs, NoJob, LaneKinds, Logins, Account, NoFile, File
    <3>2. job' = [job EXCEPT ![u] = r] /\ u \in Jobs /\ u # "lane"
      BY <2>4 DEF SetForeground, Jobs
    <3> HIDE DEF r
    <3>3. Shape(u, r)
      BY <3>1, <3>2 DEF Shape, KindShape, AccountShape, SignedIn
    <3>4. lane' = lane
      BY <3>2 DEF lane, Typed, TypeOK
    <3> QED BY <1>1, <3>1, <3>2, <3>3, <3>4, OneJob DEF Held
  <2> QED BY <2>1, <2>2, <2>3, <2>4 DEF UiStep, Connect, ConnectTry, Refused, CancelTake, CancelStop,
             CancelEnd, SubmitGuardCode
<1>4. lane'.pc = "cloud" => session' # None
  BY <1>1, <1>3 DEF Typed, lane
<1> QED BY <1>1, <1>2, <1>3, <1>4 DEF Typed, TypeOK

LEMMA SignInTyped ==
  ASSUME Typed, SignIn
  PROVE  Typed'
<1>0. lane \in Job /\ "lane" \in Jobs /\ lane = job["lane"] /\ lane.kind \in Logins
      /\ lane.pc \in SignPcs /\ lane.n \in Attempts /\ Shape("lane", lane)
  <2>1. lane.kind \in Logins /\ lane.pc \in SignPcs
    BY DEF SignIn, SignsIn, SignPcs, Dial, CodeReceived, SignInFails, PollCancelled, Approved, LogOn,
           Clear, Check, StoreToken, Present, Publish, Greet
  <2> QED BY <2>1, LaneIsAJob DEF lane, Shape, KindShape, Job
<1>1. /\ UNCHANGED << legacy, holder, ui, state >>
      /\ session' \in Session \cup {None} /\ keychain' \in [own : Account, older : Account]
  <2>1. CASE Publish
    <3>1. lane.acct \in Accounts
      BY <1>0, <2>1 DEF Publish, SignsIn, Shape, AccountShape
    <3>2. session' = [acct |-> lane.acct, open |-> TRUE]
      BY <2>1 DEF Publish
    <3>3. session' \in Session
      BY <3>1, <3>2 DEF Session
    <3> QED BY <2>1, <3>3 DEF Publish, Typed, TypeOK
  <2>2. CASE StoreToken
    <3>1. lane.acct \in Account
      BY <1>0 DEF Job
    <3> QED BY <2>2, <3>1 DEF StoreToken, Typed, TypeOK
  <2>3. CASE UNCHANGED << keychain, legacy, session, holder, ui, state >>
    BY <2>3 DEF Typed, TypeOK
  <2> QED BY <2>1, <2>2, <2>3 DEF SignIn, Dial, CodeReceived, SignInFails, PollCancelled, Approved,
         LogOn, Clear, Check, Present, Greet
<1>2. /\ cancel' \in Attempts \cup {None} /\ guard' \in Attempts \cup {None}
      /\ stopped' \subseteq Attempts /\ codes' \subseteq Attempts /\ crossed' \subseteq Attempts
  <2>1. CASE UNCHANGED cells
    BY <2>1 DEF cells, Typed, TypeOK
  <2>2. CASE CodeReceived
    BY <2>2 DEF CodeReceived, Typed, TypeOK
  <2>3. CASE Clear
    <3>1. ui.n \in Attempts \cup {None}
      BY DEF Typed, TypeOK
    <3> QED BY <2>3, <3>1 DEF Clear, Typed, TypeOK
  <2> QED BY <2>1, <2>2, <2>3 DEF SignIn, Dial, SignInFails, PollCancelled, Approved, LogOn,
         Check, StoreToken, Present, Publish, Greet
<1>3. authenticated' \in BOOLEAN /\ out' \in BOOLEAN
  <2>1. authenticated' = authenticated \/ authenticated' = TRUE
    BY DEF SignIn, Dial, CodeReceived, SignInFails, PollCancelled, Approved, LogOn,
           Clear, Check, StoreToken, Present, Publish, Greet
  <2>2. out' = out \/ out' = FALSE
    BY DEF SignIn, Dial, CodeReceived, SignInFails, PollCancelled, Approved, LogOn,
           Clear, Check, StoreToken, Present, Publish, Greet
  <2> QED BY <2>1, <2>2 DEF Typed, TypeOK
<1>4. /\ job' \in [Jobs -> Job]
      /\ \A i \in Jobs : (Shape(i, job[i]) /\ Owns(i))'
      /\ lane'.pc # "cloud"
  <2>1. ASSUME NEW pc \in {"code", "poll", "clear", "check", "store", "bind", "publish", "greet",
                          "cloud_lock", "fail", "end"},
               Goto("lane", pc), pc \in {"code", "poll"} => lane.acct = None,
               pc \in {"store", "bind", "publish"} => lane.acct \in Accounts
        PROVE  <1>4
    <3>1. pc \in Pcs
      BY DEF Pcs
    <3>2. Shape("lane", Moved(lane, pc))
      <4>0. /\ Moved(lane, pc).pc = pc /\ Moved(lane, pc).kind = lane.kind /\ Moved(lane, pc).n = lane.n
            /\ pc \notin Last => Moved(lane, pc).acct = lane.acct
        BY <1>0, <3>1, MovedType
      <4>1. KindShape("lane", Moved(lane, pc))
        BY <1>0, <2>1, <4>0 DEF KindShape, LanePcs, SignPcs, Logins
      <4>2. AccountShape(Moved(lane, pc))
        BY <2>1, <4>0 DEF Last, AccountShape
      <4>3. SignedIn(Moved(lane, pc))
        BY <1>0, <3>1, MovedSignedIn DEF Shape
      <4> QED BY <4>1, <4>2, <4>3 DEF Shape
    <3>3. pc \notin Held \cup {"cloud"}
      BY <2>1 DEF Held
    <3>4. /\ job' \in [Jobs -> Job]
          /\ \A i \in Jobs : (Shape(i, job[i]) /\ Owns(i))'
          /\ job'["lane"] = Moved(job["lane"], pc)
      BY <1>0, <1>1, <2>1, <3>1, <3>2, <3>3, GotoTyped
    <3>5. lane'.pc = pc
      <4>1. Moved(lane, pc).pc = pc /\ lane' = Moved(lane, pc)
        BY <1>0, <3>1, <3>4, MovedType DEF lane
      <4> QED BY <4>1
    <3> QED BY <3>3, <3>4, <3>5
  <2>2. CASE LogOn
    <3> DEFINE r == [lane EXCEPT !.pc = "clear", !.ok = TRUE]
    <3>1. /\ r \in Job /\ r.pc = "clear" /\ r.kind = lane.kind /\ r.n = lane.n
          /\ r.acct = lane.acct
      BY <1>0 DEF Job, Pcs
    <3>2. job' = [job EXCEPT !["lane"] = r]
      BY <1>0, <2>2 DEF LogOn
    <3>3. lane.acct \in Accounts
      BY <1>0, <2>2 DEF LogOn, SignsIn, Shape, AccountShape
    <3> HIDE DEF r
    <3>4. KindShape("lane", r)
      BY <1>0, <3>1 DEF KindShape, LanePcs, SignPcs, Logins
    <3>6. AccountShape(r) /\ SignedIn(r)
      BY <1>0, <3>1, <3>3 DEF AccountShape, SignedIn
    <3>7. Shape("lane", r)
      BY <3>4, <3>6 DEF Shape
    <3>5. "clear" \notin Held \cup {"cloud"}
      BY DEF Held
    <3> QED BY <1>0, <1>1, <3>1, <3>2, <3>5, <3>7, OneJob DEF lane
  <2>3. ASSUME NEW a \in Accounts, Approved(a) PROVE <1>4
    <3> DEFINE r == [lane EXCEPT !.pc = "logon", !.acct = a]
    <3>1. /\ r \in Job /\ r.pc = "logon" /\ r.kind = lane.kind /\ r.n = lane.n
          /\ r.acct = a
      BY <1>0 DEF Job, Pcs, Account
    <3>2. job' = [job EXCEPT !["lane"] = r]
      BY <1>0, <2>3 DEF Approved
    <3> HIDE DEF r
    <3>4. KindShape("lane", r)
      BY <1>0, <3>1 DEF KindShape, LanePcs, SignPcs, Logins
    <3>6. AccountShape(r) /\ SignedIn(r)
      BY <1>0, <3>1 DEF AccountShape, SignedIn
    <3>7. Shape("lane", r)
      BY <3>4, <3>6 DEF Shape
    <3>5. "logon" \notin Held \cup {"cloud"}
      BY DEF Held
    <3> QED BY <1>0, <1>1, <2>3, <3>1, <3>2, <3>5, <3>7, OneJob DEF lane
  <2>4. CASE StoreToken
    <3>1. lane.acct \in Accounts
      BY <1>0, <2>4 DEF StoreToken, SignsIn, Shape, AccountShape
    <3> QED BY <2>1, <2>4, <3>1 DEF StoreToken
  <2>5. CASE Check
    <3>1. lane.ok \in BOOLEAN /\ (lane.ok = TRUE => lane.acct \in Accounts)
      BY <1>0 DEF Job, Shape, SignedIn
    <3>2. CASE lane.n \in stopped
      BY <2>1, <2>5, <3>2 DEF Check
    <3>3. CASE lane.n \notin stopped /\ lane.ok = TRUE
      <4>1. Goto("lane", "store")
        BY <2>5, <3>3 DEF Check
      <4> QED BY <2>1, <3>1, <3>3, <4>1
    <3>4. CASE lane.n \notin stopped /\ lane.ok = FALSE
      <4>1. Goto("lane", "fail")
        BY <2>5, <3>4 DEF Check
      <4> QED BY <2>1, <4>1
    <3> QED BY <3>1, <3>2, <3>3, <3>4
  <2>6. CASE Dial
    <3>1. lane.acct = None
      BY <1>0, <2>6 DEF Dial, SignsIn, Shape, AccountShape
    <3> QED BY <2>1, <2>6, <3>1 DEF Dial
  <2>7. CASE CodeReceived
    <3>1. lane.acct = None
      BY <1>0, <2>7 DEF CodeReceived, SignsIn, Shape, AccountShape
    <3>2. Goto("lane", "poll") \/ Goto("lane", "clear")
      BY <2>7 DEF CodeReceived
    <3> QED BY <2>1, <3>1, <3>2
  <2>8. CASE SignInFails \/ PollCancelled \/ Clear
    BY <2>1, <2>8 DEF SignInFails, PollCancelled, Clear
  <2>9. CASE Present
    <3>1. lane.acct \in Accounts
      BY <1>0, <2>9 DEF Present, SignsIn, Shape, AccountShape
    <3> QED BY <2>1, <2>9, <3>1 DEF Present
  <2>10. CASE Publish \/ Greet
    BY <2>1, <2>10 DEF Publish, Greet
  <2> QED BY <2>2, <2>3, <2>4, <2>5, <2>6, <2>7, <2>8, <2>9, <2>10 DEF SignIn
<1> QED BY <1>1, <1>2, <1>3, <1>4 DEF Typed, TypeOK, UiShape

-----------------------------------------------------------------------------
(* ensure_session *)

\* What a step of ensure_session does to the jobs
JobsTyped ==
  /\ job' \in [Jobs -> Job]
  /\ \A i \in Jobs : (Shape(i, job[i]) /\ Owns(i))'
  /\ lane'.pc = "cloud" => lane.pc = "cloud"

LEMMA EnsureGoto ==
  ASSUME Typed, NEW j \in Jobs, job[j].kind \in {"sync", "achievements", "front"},
         NEW pc \in Held \cup {"cloud_lock", "end", "fail"}, Goto(j, pc),
         job[j].kind = "front" => pc \in Held,
         pc \in {"migrate", "redial", "rebind", "rebind_save"} => job[j].acct \in Accounts,
         pc \in Held => holder' = j,
         \A i \in Jobs \ {j} : holder = i => holder' = i
  PROVE  JobsTyped
<1>1. job[j] \in Job /\ pc \in Pcs /\ Shape(j, job[j]) /\ "lane" \in Jobs
  BY DEF Typed, TypeOK, Pcs, Held, Jobs
<1>2. /\ Moved(job[j], pc).pc = pc /\ Moved(job[j], pc).kind = job[j].kind
      /\ Moved(job[j], pc).n = job[j].n
      /\ pc \notin Last => Moved(job[j], pc).acct = job[j].acct
  BY <1>1, MovedType
<1>3. KindShape(j, Moved(job[j], pc))
  <2>1. CASE j = "lane"
    <3>1. job[j].kind \in {"sync", "achievements"} /\ job[j].n = None
      BY <1>1, <2>1 DEF Shape, KindShape, Logins
    <3> QED BY <1>2, <2>1, <3>1 DEF KindShape, LanePcs, Logins
  <2>2. CASE j # "lane"
    <3>1. job[j].kind = "front" /\ pc \in Held
      BY <1>1, <2>2 DEF Shape, KindShape, LaneKinds, Logins
    <3> QED BY <1>2, <2>2, <3>1 DEF KindShape
  <2> QED BY <2>1, <2>2
<1>4. AccountShape(Moved(job[j], pc))
  BY <1>2 DEF AccountShape, Held, Last
<1>5. SignedIn(Moved(job[j], pc))
  BY <1>1, MovedSignedIn DEF Shape
<1>6. Shape(j, Moved(job[j], pc)) /\ (pc \in Held \cup {"cloud"} => holder' = j)
  BY <1>3, <1>4, <1>5 DEF Shape, Held
<1>7. /\ job' \in [Jobs -> Job]
      /\ \A i \in Jobs : (Shape(i, job[i]) /\ Owns(i))'
      /\ job'[j] = Moved(job[j], pc)
  BY <1>1, <1>6, GotoTyped
<1>8. job' = [job EXCEPT ![j] = Moved(job[j], pc)]
  BY <1>1, GotoMoves DEF Typed, TypeOK
<1>9. lane'.pc = "cloud" => lane.pc = "cloud"
  <2>1. CASE j = "lane"
    <3>1. lane'.pc = pc
      BY <1>2, <1>7, <2>1 DEF lane
    <3> QED BY <3>1 DEF Held
  <2>2. CASE j # "lane"
    BY <1>1, <1>8, <2>2 DEF lane, Typed, TypeOK
  <2> QED BY <2>1, <2>2
<1> QED BY <1>7, <1>9 DEF JobsTyped

LEMMA EnsureNoJob ==
  ASSUME Typed, NEW j \in Jobs, job' = [job EXCEPT ![j] = NoJob],
         \A i \in Jobs \ {j} : holder = i => holder' = i
  PROVE  JobsTyped
<1>1. /\ job' \in [Jobs -> Job]
      /\ \A i \in Jobs : (Shape(i, job[i]) /\ Owns(i))'
      /\ job'[j] = NoJob
  BY NoJobTyped
<1>2. lane'.pc = "cloud" => lane.pc = "cloud"
  BY <1>1, NoJobType, LaneIsAJob DEF lane, Typed, TypeOK
<1> QED BY <1>1, <1>2 DEF JobsTyped

\* Who is at a point of ensure_session holds the mutex.
LEMMA Ensuring ==
  ASSUME Typed, NEW j \in Jobs, job[j].pc \in Held \cup {"lock"}
  PROVE  /\ job[j].kind \in {"sync", "achievements", "front"}
         /\ job[j].kind = "front" <=> j # "lane"
         /\ job[j].pc # "lock" => (holder = j /\ \A i \in Jobs \ {j} : holder # i)
         /\ job[j] \in Job /\ Shape(j, job[j])
<1>1. job[j] \in Job /\ Shape(j, job[j]) /\ Owns(j)
  BY DEF Typed, TypeOK
<1>2. job[j].kind \in LaneKinds \cup {"unlocks", "front", None}
  BY <1>1 DEF Job
<1>3. job[j].kind \in {"sync", "achievements", "front"} /\ (job[j].kind = "front" <=> j # "lane")
  BY <1>1, <1>2 DEF Shape, KindShape, LanePcs, Logins, LaneKinds, SignPcs, Held
<1> QED BY <1>1, <1>3 DEF Owns

LEMMA EnsureFailsTyped ==
  ASSUME Typed, NEW j \in Jobs, job[j].pc \in Held, EnsureFails(j)
  PROVE  JobsTyped /\ holder' = None
<1>1. /\ job[j].kind \in {"sync", "achievements", "front"} /\ holder' = None
      /\ \A i \in Jobs \ {j} : holder = i => holder' = i
  BY Ensuring DEF Held, EnsureFails
<1>2. CASE job[j].kind = "sync"
  <2>1. Goto(j, "end") /\ "end" \notin Held
    BY <1>2 DEF EnsureFails, Held
  <2> QED BY <1>1, <1>2, <2>1, EnsureGoto
<1>3. CASE job[j].kind = "achievements"
  <2>1. Goto(j, "fail") /\ "fail" \notin Held
    BY <1>3 DEF EnsureFails, Held
  <2> QED BY <1>1, <1>3, <2>1, EnsureGoto
<1>4. CASE job[j].kind = "front"
  <2>1. job' = [job EXCEPT ![j] = NoJob]
    BY <1>4 DEF EnsureFails
  <2> QED BY <1>1, <2>1, EnsureNoJob
<1> QED BY <1>1, <1>2, <1>3, <1>4

\* A step of ensure_session that changes what the job knows, under the mutex
LEMMA EnsureSets ==
  ASSUME Typed, NEW j \in Jobs, job[j].pc \in Held,
         NEW r \in Job, r.kind = job[j].kind, r.n = job[j].n, r.ok = job[j].ok, r.pc \in Held,
         r.pc \in {"migrate", "redial", "rebind", "rebind_save"} => r.acct \in Accounts,
         job' = [job EXCEPT ![j] = r], UNCHANGED holder
  PROVE  JobsTyped
<1>1. /\ job[j].kind \in {"sync", "achievements", "front"}
      /\ job[j].kind = "front" <=> j # "lane"
      /\ holder = j
      /\ Shape(j, job[j])
  BY Ensuring DEF Held
<1>2. KindShape(j, r)
  BY <1>1 DEF Shape, KindShape, LanePcs, Logins, Held
<1>3. AccountShape(r)
  BY DEF AccountShape, Held
<1>4. SignedIn(r)
  <2>1. job[j].kind \notin Logins
    BY <1>1 DEF Logins
  <2> QED BY <1>1, <2>1 DEF Shape, SignedIn
<1>5. /\ job' \in [Jobs -> Job]
      /\ \A i \in Jobs : (Shape(i, job[i]) /\ Owns(i))'
      /\ job'[j] = r
  BY <1>1, <1>2, <1>3, <1>4, OneJob DEF Shape
<1>6. lane'.pc = "cloud" => lane.pc = "cloud"
  <2>1. CASE j = "lane"
    BY <1>5, <2>1 DEF lane, Held
  <2>2. CASE j # "lane"
    BY <2>2, LaneIsAJob DEF lane, Typed, TypeOK
  <2> QED BY <2>1, <2>2
<1> QED BY <1>5, <1>6 DEF JobsTyped

\* bind_state_to_account, for a sign-in or for ensure_session
LEMMA BindsTyped ==
  ASSUME Typed, NEW j \in Jobs, job[j].pc \in {"bind", "bind_save", "rebind", "rebind_save"},
         NEW r \in Job, r.kind = job[j].kind, r.n = job[j].n, r.ok = job[j].ok,
         r.acct = job[j].acct,
         job[j].pc = "bind" => r.pc = "bind_save", job[j].pc = "bind_save" => r.pc = "present",
         job[j].pc = "rebind" => r.pc = "rebind_save", job[j].pc = "rebind_save" => r.pc = "resume",
         job' = [job EXCEPT ![j] = r], UNCHANGED holder
  PROVE  JobsTyped
<1>1. Shape(j, job[j]) /\ Owns(j) /\ job[j].acct \in Accounts
  BY DEF Typed, Shape, AccountShape
<1>2. CASE job[j].pc \in {"rebind", "rebind_save"}
  <2>1. job[j].pc \in Held /\ r.pc \in Held
    BY <1>2 DEF Held
  <2> QED BY <1>1, <2>1, EnsureSets
<1>3. CASE job[j].pc \in {"bind", "bind_save"}
  <2>1. j = "lane" /\ job[j].kind \in Logins
    BY <1>1, <1>3 DEF Shape, KindShape, LanePcs, Held
  <2>2. Shape(j, r)
    <3>1. KindShape(j, r)
      BY <1>1, <1>3, <2>1 DEF Shape, KindShape, LanePcs, SignPcs, Logins
    <3>2. AccountShape(r) /\ SignedIn(r)
      BY <1>1, <1>3 DEF Shape, AccountShape, SignedIn
    <3> QED BY <3>1, <3>2 DEF Shape
  <2>3. r.pc \notin Held \cup {"cloud"}
    BY <1>3 DEF Held
  <2>4. /\ job' \in [Jobs -> Job]
        /\ \A i \in Jobs : (Shape(i, job[i]) /\ Owns(i))'
        /\ job'[j] = r
    BY <2>2, <2>3, OneJob
  <2> QED BY <2>1, <2>3, <2>4 DEF JobsTyped, lane
<1> QED BY <1>2, <1>3

LEMMA EnsureTyped ==
  ASSUME Typed, NEW j \in Jobs, Ensure(j)
  PROVE  Typed'
<1>1. UNCHANGED << legacy, cells, ui, out >>
  BY DEF Ensure, EnsureLock, Load, LoadLegacy, Migrate, Redial, Bind, BindSave, Resume
<1>2. job[j] \in Job /\ Shape(j, job[j])
  BY DEF Typed, TypeOK
<1>3. ASSUME JobsTyped, holder' \in Jobs \cup {None}, authenticated' \in BOOLEAN,
             session' = session \/ session' \in Session, state' \in File,
             keychain' \in [own : Account, older : Account]
      PROVE  Typed'
  BY <1>1, <1>3 DEF JobsTyped, Typed, TypeOK, cells, UiShape
<1>4. keychain \in [own : Account, older : Account] /\ authenticated \in BOOLEAN /\ state \in File
      /\ holder \in Jobs \cup {None}
  BY DEF Typed, TypeOK
<1>5. CASE EnsureLock(j)
  <2>1. job[j].pc = "lock" /\ holder = None /\ holder' = j
        /\ UNCHANGED << keychain, session, authenticated, state >>
    BY <1>5 DEF EnsureLock, At
  <2>2. PICK pc \in {"resume", "load"} : Goto(j, pc)
    BY <1>5 DEF EnsureLock
  <2>3. JobsTyped
    <3>1. job[j].kind \in {"sync", "achievements", "front"}
      BY <2>1, Ensuring
    <3>2. pc \in Held /\ pc \notin {"migrate", "redial", "rebind", "rebind_save"}
      BY DEF Held
    <3>3. \A i \in Jobs : holder # i
      BY <2>1
    <3> QED BY <2>1, <2>2, <3>1, <3>2, <3>3, EnsureGoto
  <2> QED BY <1>3, <1>4, <2>1, <2>3
<1>6. CASE Load(j)
  <2>1. job[j].pc = "load" /\ UNCHANGED << keychain, session, holder, authenticated, state >>
    BY <1>6 DEF Load, At
  <2> DEFINE r == [job[j] EXCEPT !.acct = keychain.own,
                                 !.pc = IF keychain.own # None THEN "redial" ELSE "load_legacy"]
  <2>2. /\ r \in Job /\ r.kind = job[j].kind /\ r.n = job[j].n /\ r.acct = keychain.own
        /\ r.pc = IF keychain.own # None THEN "redial" ELSE "load_legacy"
    BY <1>2, <1>4 DEF Job, Pcs, Account
  <2>3. r.ok = job[j].ok
    BY <1>2 DEF Job
  <2>4. job' = [job EXCEPT ![j] = r]
    BY <1>6 DEF Load
  <2>5. keychain.own \in Accounts \/ keychain.own = None
    BY <1>4 DEF Account
  <2> HIDE DEF r
  <2>6. JobsTyped
    <3>1. /\ job[j].pc \in Held /\ r.pc \in Held
          /\ r.pc \in {"migrate", "redial", "rebind", "rebind_save"} => r.acct \in Accounts
      BY <2>1, <2>2, <2>5 DEF Held
    <3> QED BY <2>1, <2>2, <2>3, <2>4, <3>1, EnsureSets
  <2> QED BY <1>3, <1>4, <2>1, <2>6
<1>7. CASE LoadLegacy(j)
  <2>1. /\ job[j].pc = "load_legacy" /\ job[j].pc \in Held
        /\ UNCHANGED << keychain, session, authenticated, state >>
    BY <1>7 DEF LoadLegacy, At, Held
  <2>2. CASE EnsureFails(j)
    BY <1>3, <1>4, <2>1, <2>2, EnsureFailsTyped
  <2>3. CASE keychain.older # None
    <3> DEFINE r == [job[j] EXCEPT !.acct = keychain.older, !.pc = "migrate"]
    <3>1. /\ r \in Job /\ r.kind = job[j].kind /\ r.n = job[j].n /\ r.acct = keychain.older
          /\ r.pc = "migrate"
      BY <1>2, <1>4 DEF Job, Pcs, Account
    <3>2. r.ok = job[j].ok
      BY <1>2 DEF Job
    <3>3. job' = [job EXCEPT ![j] = r] /\ UNCHANGED holder
      BY <1>7, <2>3 DEF LoadLegacy
    <3>4. keychain.older \in Accounts /\ "migrate" \in Held
      BY <1>4, <2>3 DEF Account, Held
    <3> HIDE DEF r
    <3>5. JobsTyped
      BY <2>1, <3>1, <3>2, <3>3, <3>4, EnsureSets
    <3> QED BY <1>3, <1>4, <2>1, <3>3, <3>5
  <2> QED BY <1>7, <2>2, <2>3 DEF LoadLegacy
<1>8. CASE Migrate(j) \/ Redial(j)
  <2>1. /\ job[j].pc \in {"migrate", "redial"} /\ job[j].pc \in Held
        /\ UNCHANGED << session, authenticated, state >>
    BY <1>8 DEF Migrate, Redial, At, Held
  <2>2. job[j].acct \in Accounts
    BY <1>2, <2>1 DEF Shape, AccountShape
  <2>3. keychain' \in [own : Account, older : Account]
    BY <1>4, <1>8, <2>2 DEF Migrate, Redial, Account
  <2>4. CASE EnsureFails(j)
    BY <1>3, <1>4, <2>1, <2>3, <2>4, EnsureFailsTyped
  <2>5. CASE ~EnsureFails(j)
    <3>1. PICK pc \in {"redial", "rebind"} : Goto(j, pc)
      BY <1>8, <2>5 DEF Migrate, Redial
    <3>2. UNCHANGED holder /\ holder = j /\ pc \in Held
          /\ job[j].kind \in {"sync", "achievements", "front"}
      BY <1>8, <2>1, <2>5, Ensuring DEF Migrate, Redial, Held
    <3>3. JobsTyped
      BY <2>2, <3>1, <3>2, EnsureGoto
    <3> QED BY <1>3, <1>4, <2>1, <2>3, <3>2, <3>3
  <2> QED BY <2>4, <2>5
<1>9. CASE Bind(j)
  <2>1. /\ job[j].pc \in {"bind", "rebind"}
        /\ UNCHANGED << keychain, session, holder, authenticated, state >>
    BY <1>9 DEF Bind
  <2> DEFINE r == [job[j] EXCEPT !.mem = state,
                                 !.pc = IF @ = "bind" THEN "bind_save" ELSE "rebind_save"]
  <2>2. /\ r \in Job /\ r.kind = job[j].kind /\ r.n = job[j].n /\ r.acct = job[j].acct
        /\ r.pc = IF job[j].pc = "bind" THEN "bind_save" ELSE "rebind_save"
    BY <1>2, <1>4 DEF Job, Pcs
  <2>3. r.ok = job[j].ok
    BY <1>2 DEF Job
  <2>4. job' = [job EXCEPT ![j] = r]
    BY <1>9 DEF Bind
  <2> HIDE DEF r
  <2>5. JobsTyped
    BY <1>2, <2>1, <2>2, <2>3, <2>4, BindsTyped
  <2> QED BY <1>3, <1>4, <2>1, <2>5
<1>10. CASE BindSave(j)
  <2>1. /\ job[j].pc \in {"bind_save", "rebind_save"}
        /\ UNCHANGED << keychain, session, holder, authenticated >>
        /\ state' = Bound(job[j].mem, job[j].acct)
    BY <1>10 DEF BindSave
  <2> DEFINE r == [job[j] EXCEPT !.mem = NoFile,
                                 !.pc = IF @ = "bind_save" THEN "present" ELSE "resume"]
  <2>2. /\ r \in Job /\ r.kind = job[j].kind /\ r.n = job[j].n /\ r.acct = job[j].acct
        /\ r.pc = IF job[j].pc = "bind_save" THEN "present" ELSE "resume"
    <3>1. NoFile \in File
      BY DEF NoFile, File, Account
    <3> QED BY <1>2, <3>1 DEF Job, Pcs
  <2>3. r.ok = job[j].ok
    BY <1>2 DEF Job
  <2>4. job' = [job EXCEPT ![j] = r]
    BY <1>10 DEF BindSave
  <2> HIDE DEF r
  <2>5. JobsTyped
    BY <1>2, <2>1, <2>2, <2>3, <2>4, BindsTyped
  <2>6. state' \in File
    BY <1>2, <2>1 DEF Bound, Job, File, Account
  <2> QED BY <1>3, <1>4, <2>1, <2>5, <2>6
<1>11. CASE Resume(j)
  <2>1. job[j].pc = "resume" /\ job[j].pc \in Held /\ UNCHANGED << keychain, state >>
    BY <1>11 DEF Resume, At, Held
  <2>2. CASE EnsureFails(j) /\ UNCHANGED << session, authenticated >>
    BY <1>3, <1>4, <2>1, <2>2, EnsureFailsTyped
  <2>3. CASE Ensured(j) /\ holder' = None
    <3>1. \/ UNCHANGED << session, authenticated >>
          \/ /\ job[j].acct # None /\ session' = [acct |-> job[j].acct, open |-> TRUE]
             /\ authenticated' = TRUE
      BY <1>11, <2>2, <2>3 DEF Resume
    <3>2. session' = session \/ session' \in Session
      <4>1. job[j].acct # None => [acct |-> job[j].acct, open |-> TRUE] \in Session
        BY <1>2 DEF Job, Account, Session
      <4> QED BY <3>1, <4>1
    <3>3. authenticated' \in BOOLEAN
      BY <1>4, <3>1
    <3>4. /\ job[j].kind \in {"sync", "achievements", "front"} /\ (job[j].kind = "front" <=> j # "lane")
          /\ \A i \in Jobs \ {j} : holder # i
      BY <2>1, Ensuring DEF Held
    <3>5. JobsTyped
      <4>1. CASE j = "lane"
        <5>1. Goto(j, "cloud_lock") /\ "cloud_lock" \notin Held
          BY <2>3, <4>1 DEF Ensured, Held
        <5> QED BY <3>4, <4>1, <5>1, EnsureGoto
      <4>2. CASE j # "lane"
        BY <2>3, <3>4, <4>2, EnsureNoJob DEF Ensured
      <4> QED BY <4>1, <4>2
    <3> QED BY <1>3, <1>4, <2>1, <2>3, <3>2, <3>3, <3>5
  <2> QED BY <1>11, <2>2, <2>3 DEF Resume
<1> QED BY <1>5, <1>6, <1>7, <1>8, <1>9, <1>10, <1>11 DEF Ensure

-----------------------------------------------------------------------------
(* The operation on the lane *)

LEMMA LaneGoto ==
  ASSUME Typed, NEW pc \in {"delete_legacy", "drop", "reset", "end", "fail", "failed"},
         Goto("lane", pc), pc \in LanePcs(lane.kind),
         \A i \in Jobs \ {"lane"} : holder = i => holder' = i
  PROVE  JobsTyped
<1>1. lane \in Job /\ "lane" \in Jobs /\ lane = job["lane"] /\ Shape("lane", lane) /\ pc \in Pcs
  BY LaneIsAJob DEF lane, Pcs
<1>2. Moved(lane, pc).pc = pc /\ Moved(lane, pc).kind = lane.kind /\ Moved(lane, pc).n = lane.n
  BY <1>1, MovedType
<1>3. KindShape("lane", Moved(lane, pc))
  BY <1>1, <1>2 DEF Shape, KindShape
<1>4. AccountShape(Moved(lane, pc))
  BY <1>2 DEF AccountShape
<1>5. SignedIn(Moved(lane, pc))
  BY <1>1, MovedSignedIn DEF Shape
<1>6. pc \notin Held \cup {"cloud"}
  BY DEF Held
<1>7. /\ job' \in [Jobs -> Job]
      /\ \A i \in Jobs : (Shape(i, job[i]) /\ Owns(i))'
      /\ job'["lane"] = Moved(job["lane"], pc)
  BY <1>1, <1>3, <1>4, <1>5, <1>6, GotoTyped DEF Shape
<1>8. lane' = Moved(lane, pc)
  BY <1>1, <1>7 DEF lane
<1> QED BY <1>2, <1>6, <1>7, <1>8 DEF JobsTyped

LEMMA FailsTyped ==
  ASSUME Typed, lane.pc \in {"cloud_lock", "cloud"}, Fails,
         \A i \in Jobs \ {"lane"} : holder = i => holder' = i
  PROVE  JobsTyped
<1>1. Shape("lane", lane) /\ lane \in Job
  BY LaneIsAJob
<1>2. CASE lane.kind = "unlocks"
  <2>1. Goto("lane", "end") /\ "end" \in LanePcs(lane.kind)
    BY <1>2 DEF Fails, LanePcs, Logins
  <2> QED BY <2>1, LaneGoto
<1>3. CASE lane.kind # "unlocks"
  <2>1. "fail" \in LanePcs(lane.kind)
    BY <1>1, <1>3 DEF Shape, KindShape, LanePcs, Logins
  <2>2. Goto("lane", "fail")
    BY <1>3 DEF Fails
  <2> QED BY <2>1, <2>2, LaneGoto
<1> QED BY <1>2, <1>3

LEMMA LaneTyped ==
  ASSUME Typed, LaneStep
  PROVE  Typed'
<1>0. lane \in Job /\ "lane" \in Jobs /\ lane = job["lane"] /\ Shape("lane", lane) /\ Owns("lane")
  BY LaneIsAJob DEF lane
<1>1. UNCHANGED << legacy, cancel, guard, codes, ui >> /\ stopped' \subseteq stopped
      /\ crossed' \subseteq crossed
  BY DEF LaneStep, CloudLock, Cloud, Delete, DeleteLegacy, Drop, Reset, Fail, Failed, End,
         LaneFreed, cells
<1>2. /\ authenticated' = authenticated \/ authenticated' = FALSE
      /\ out' = out \/ out' = TRUE
  BY DEF LaneStep, CloudLock, Cloud, Delete, DeleteLegacy, Drop, Reset, Fail, Failed, End
<1>3. authenticated' \in BOOLEAN /\ out' \in BOOLEAN
  BY <1>2 DEF Typed, TypeOK
<1>4. keychain' \in [own : Account, older : Account]
  BY DEF LaneStep, CloudLock, Cloud, Delete, DeleteLegacy, Drop, Reset, Fail, Failed, End, Typed,
         TypeOK, Account
<1>5. session' = session \/ session' = None
  BY DEF LaneStep, CloudLock, Cloud, Delete, DeleteLegacy, Drop, Reset, Fail, Failed, End
<1>6. ASSUME job' \in [Jobs -> Job], \A i \in Jobs : (Shape(i, job[i]) /\ Owns(i))',
             lane'.pc = "cloud" => session' # None, holder' \in Jobs \cup {None}, state' \in File
      PROVE  Typed'
  BY <1>1, <1>3, <1>4, <1>5, <1>6 DEF Typed, TypeOK, UiShape
<1>7. state \in File /\ holder \in Jobs \cup {None}
  BY DEF Typed, TypeOK
<1>8. ASSUME JobsTyped, lane'.pc # "cloud", holder' \in {holder, None}, state' \in File PROVE Typed'
  BY <1>6, <1>7, <1>8 DEF JobsTyped
<1>9. CASE CloudLock
  <2>1. lane.pc = "cloud_lock" /\ holder = None /\ UNCHANGED << state, session >>
    BY <1>9 DEF CloudLock, At, lane
  <2>2. CASE session = None
    BY <1>8, <1>9, <2>1, <2>2, <1>7, FailsTyped DEF CloudLock, JobsTyped
  <2>3. CASE session # None
    <3> DEFINE r == [lane EXCEPT !.pc = "cloud", !.mem = state]
    <3>1. r \in Job /\ r.pc = "cloud" /\ r.kind = lane.kind /\ r.n = lane.n /\ r.acct = lane.acct
      BY <1>0, <1>7 DEF Job, Pcs
    <3>2. r.ok = lane.ok
      BY <1>0 DEF Job
    <3>3. job' = [job EXCEPT !["lane"] = r] /\ holder' = "lane"
      BY <1>0, <1>9, <2>3 DEF CloudLock
    <3> HIDE DEF r
    <3>4. KindShape("lane", r)
      BY <1>0, <2>1, <3>1 DEF Shape, KindShape, LanePcs, Logins
    <3>5. AccountShape(r) /\ SignedIn(r)
      BY <1>0, <3>1, <3>2 DEF Shape, AccountShape, SignedIn
    <3>6. \A i \in Jobs \ {"lane"} : holder # i
      BY <2>1
    <3>7. /\ job' \in [Jobs -> Job]
          /\ \A i \in Jobs : (Shape(i, job[i]) /\ Owns(i))'
      BY <1>0, <3>1, <3>3, <3>4, <3>5, <3>6, OneJob DEF Shape
    <3> QED BY <1>0, <1>6, <1>7, <2>1, <2>3, <3>3, <3>7
  <2> QED BY <2>2, <2>3
<1>10. CASE Cloud
  <2>1. lane.pc = "cloud" /\ holder = "lane" /\ holder' = None /\ session # None
        /\ UNCHANGED session
    BY <1>0, <1>10 DEF Cloud, At, Owns, lane, Typed
  <2>2. \A i \in Jobs \ {"lane"} : holder = i => holder' = i
    BY <2>1
  <2>3. state' \in File
    <3>1. ASSUME NEW b \in {session.acct, lane.mem.base}, state' = [lane.mem EXCEPT !.base = b]
          PROVE  state' \in File
      <4>1. session.acct \in Account
        BY <2>1 DEF Typed, TypeOK, Session, Account
      <4> QED BY <1>0, <3>1, <4>1 DEF Job, File
    <3> QED BY <1>7, <1>10, <3>1 DEF Cloud
  <2>4. JobsTyped
    <3>1. CASE Fails
      BY <2>1, <2>2, <3>1, FailsTyped
    <3>2. CASE Goto("lane", "end")
      <4>1. "end" \in LanePcs(lane.kind)
        BY <1>0, <2>1 DEF Shape, KindShape, LanePcs, Logins
      <4> QED BY <2>2, <3>2, <4>1, LaneGoto
    <3>3. CASE job' = [job EXCEPT !["lane"] = [NoJob EXCEPT !.kind = "unlocks", !.pc = "cloud_lock"]]
      <4> DEFINE r == [NoJob EXCEPT !.kind = "unlocks", !.pc = "cloud_lock"]
      <4>1. /\ r \in Job /\ r.pc = "cloud_lock" /\ r.kind = "unlocks" /\ r.n = None /\ r.acct = None
            /\ r.ok = FALSE
        BY DEF Job, Pcs, NoJob, LaneKinds, Logins, Account, NoFile, File
      <4>2. job' = [job EXCEPT !["lane"] = r]
        BY <3>3
      <4> HIDE DEF r
      <4>3. Shape("lane", r)
        BY <4>1 DEF Shape, KindShape, AccountShape, SignedIn, LanePcs, LaneKinds, Logins
      <4> QED BY <1>0, <2>2, <4>1, <4>2, <4>3, OneJob DEF JobsTyped, Held, lane
    <3> QED BY <1>10, <3>1, <3>2, <3>3 DEF Cloud
  <2> QED BY <1>6, <1>7, <2>1, <2>3, <2>4 DEF JobsTyped
<1>11. CASE Delete \/ DeleteLegacy \/ Drop \/ Reset
  <2>1. lane.pc \in {"delete", "delete_legacy", "drop", "reset"} /\ UNCHANGED << holder, state >>
    BY <1>0, <1>11 DEF Delete, DeleteLegacy, Drop, Reset, At
  <2>2. PICK pc \in {"delete_legacy", "drop", "reset", "fail", "end"} : Goto("lane", pc)
    BY <1>11 DEF Delete, DeleteLegacy, Drop, Reset
  <2>3. pc \in LanePcs(lane.kind)
    BY <1>0, <2>1 DEF Shape, KindShape, LanePcs, Logins, SignPcs, Held
  <2>4. JobsTyped
    BY <2>1, <2>2, <2>3, LaneGoto
  <2> QED BY <1>7, <1>8, <2>1, <2>4 DEF JobsTyped
<1>12. CASE Fail
  <2>1. lane.pc = "fail" /\ UNCHANGED << holder, state >> /\ Goto("lane", "failed")
    BY <1>0, <1>12 DEF Fail, At
  <2>3. "failed" \in LanePcs(lane.kind)
    BY <1>0, <2>1 DEF Shape, KindShape, LanePcs, Logins, SignPcs, Held
  <2>4. JobsTyped
    BY <2>1, <2>3, LaneGoto
  <2> QED BY <1>7, <1>8, <2>1, <2>4 DEF JobsTyped
<1>13. CASE Failed \/ End
  <2>1. UNCHANGED << holder, state >> /\ job' = [job EXCEPT !["lane"] = NoJob]
    BY <1>13 DEF Failed, End, LaneFreed
  <2>2. JobsTyped
    BY <1>0, <2>1, EnsureNoJob
  <2>3. lane'.pc # "cloud"
    BY <1>0, <2>1, NoJobType DEF lane, Typed, TypeOK
  <2> QED BY <1>7, <1>8, <2>1, <2>2, <2>3
<1> QED BY <1>9, <1>10, <1>11, <1>12, <1>13 DEF LaneStep

\* Types, the shape of every job at each of its points, and that whoever is past
\* the lock of the session has it.
THEOREM AlwaysTyped == Spec => []Typed
<1>1. Typed /\ [Next]_vars => Typed'
  <2> SUFFICES ASSUME Typed, [Next]_vars PROVE Typed'
    OBVIOUS
  <2>1. CASE Close
    <3>1. session' \in Session
      BY <2>1 DEF Close, Typed, TypeOK, Session
    <3>2. UNCHANGED << keychain, legacy, holder, cells, ui, job, authenticated, state, out >>
      BY <2>1 DEF Close
    <3> QED BY <3>1, <3>2 DEF Typed, TypeOK, UiShape, cells, Shape, KindShape, AccountShape, SignedIn,
            Owns, lane
  <2>2. CASE UNCHANGED vars
    BY <2>2 DEF vars, cells, Typed, TypeOK, UiShape, Shape, KindShape, AccountShape, SignedIn, Owns, lane
  <2> QED BY <2>1, <2>2, UiTyped, SignInTyped, LaneTyped, EnsureTyped DEF Next
<1> QED BY <1>1, InitTyped, PTL DEF Spec

\* Every variable keeps its type, whatever sign-ins, tasks and operations meet.
THEOREM TypeCorrect == Spec => []TypeOK
BY AlwaysTyped, PTL DEF Typed

\* While run_sync uses the session it has one, and no presence task is on its way
\* to another: the tasks wait for the mutex.
THEOREM SessionAlone == Spec => []CloudSessionIsAlone
<1>1. Typed => CloudSessionIsAlone
  <2> SUFFICES ASSUME Typed, lane.pc = "cloud"
               PROVE  session # None /\ \A t \in Tasks : job[t].pc \in {"off", "lock"}
    BY DEF CloudSessionIsAlone
  <2>1. holder = "lane" /\ session # None
    BY LaneIsAJob DEF Typed, Owns, lane
  <2>2. ASSUME NEW t \in Tasks PROVE job[t].pc \in {"off", "lock"}
    <3>1. t \in Jobs /\ t # "lane"
      BY DEF Jobs
    <3>2. job[t].pc \notin Held
      BY <2>1, <3>1 DEF Typed, Owns
    <3> QED BY <3>1, <3>2 DEF Typed, Shape, KindShape
  <2> QED BY <2>1, <2>2
<1> QED BY <1>1, AlwaysTyped, PTL

-----------------------------------------------------------------------------
(* What each kind of step does to the sign-in on the lane *)

WaitPcs == {"dial", "code", "poll", "logon"}

LEMMA LaneGoes ==
  ASSUME Typed, NEW pc \in Pcs, Goto("lane", pc)
  PROVE  lane'.pc = pc /\ lane'.kind = lane.kind /\ lane'.n = lane.n
<1>1. "lane" \in Jobs /\ lane \in Job /\ lane = job["lane"] /\ job \in [Jobs -> Job]
  BY LaneIsAJob DEF lane, Typed, TypeOK
<1>2. lane' = Moved(lane, pc)
  BY <1>1, GotoMoves DEF lane
<1> QED BY <1>1, <1>2, MovedType

LEMMA SignInEffect ==
  ASSUME Typed, SignIn
  PROVE  /\ lane'.kind = lane.kind /\ lane'.n = lane.n
         /\ lane'.pc \in WaitPcs => lane.pc \in WaitPcs
         /\ lane'.pc \in {"dial", "code"} => lane.pc = "dial"
<1>1. "lane" \in Jobs /\ lane \in Job /\ lane = job["lane"] /\ job \in [Jobs -> Job]
  BY LaneIsAJob DEF lane, Typed, TypeOK
<1>2. CASE Dial
  <2>1. PICK pc \in {"code", "poll", "clear"} : Goto("lane", pc)
    BY <1>2 DEF Dial
  <2> QED BY <1>2, <2>1, LaneGoes DEF Dial, SignsIn, WaitPcs, Pcs
<1>3. CASE CodeReceived
  <2>1. PICK pc \in {"poll", "clear"} : Goto("lane", pc)
    BY <1>3 DEF CodeReceived
  <2> QED BY <1>3, <2>1, LaneGoes DEF CodeReceived, SignsIn, WaitPcs, Pcs
<1>4. CASE SignInFails \/ PollCancelled \/ Clear \/ Check \/ StoreToken \/ Present \/ Publish \/ Greet
  <2>1. PICK pc \in {"clear", "check", "store", "bind", "publish", "greet", "cloud_lock", "fail", "end"} :
          Goto("lane", pc)
    BY <1>4 DEF SignInFails, PollCancelled, Clear, Check, StoreToken, Present, Publish, Greet
  <2> QED BY <2>1, LaneGoes DEF WaitPcs, Pcs
<1>5. ASSUME NEW a \in Accounts, Approved(a) PROVE lane'.pc = "logon" /\ lane'.kind = lane.kind
                                                   /\ lane'.n = lane.n /\ lane.pc = "poll"
  BY <1>1, <1>5 DEF Approved, SignsIn, lane, Job
<1>6. CASE LogOn
  <2>1. lane'.pc = "clear" /\ lane'.kind = lane.kind /\ lane'.n = lane.n
    BY <1>1, <1>6 DEF LogOn, lane, Job
  <2> QED BY <2>1 DEF WaitPcs
<1> QED BY <1>2, <1>3, <1>4, <1>5, <1>6 DEF SignIn, WaitPcs

LEMMA EnsureFailsEffect ==
  ASSUME Typed, NEW j \in Jobs, job[j].pc \in Held, EnsureFails(j)
  PROVE  \/ j = "lane" /\ (Goto(j, "end") \/ Goto(j, "fail"))
         \/ j # "lane" /\ job' = [job EXCEPT ![j] = NoJob]
<1>1. job[j].kind \in {"sync", "achievements", "front"} /\ (job[j].kind = "front" <=> j # "lane")
  BY Ensuring
<1>2. CASE job[j].kind = "sync"
  BY <1>1, <1>2 DEF EnsureFails
<1>3. CASE job[j].kind = "achievements"
  BY <1>1, <1>3 DEF EnsureFails
<1>4. CASE job[j].kind = "front"
  BY <1>1, <1>4 DEF EnsureFails
<1> QED BY <1>1, <1>2, <1>3, <1>4

\* A step of ensure_session moves the job, sets its account, or ends a task.
LEMMA EnsureMoves ==
  ASSUME Typed, NEW j \in Jobs, Ensure(j)
  PROVE  \/ \E pc \in Held \cup {"cloud_lock", "end", "fail"} : Goto(j, pc)
         \/ j # "lane" /\ job' = [job EXCEPT ![j] = NoJob]
         \/ Load(j) \/ Bind(j) \/ BindSave(j)
         \/ LoadLegacy(j) /\ job' = [job EXCEPT ![j].acct = keychain.older, ![j].pc = "migrate"]
<1>1. CASE EnsureFails(j) /\ job[j].pc \in Held
  BY <1>1, EnsureFailsEffect
<1>2. CASE EnsureLock(j)
  BY <1>2 DEF EnsureLock, Held
<1>3. CASE LoadLegacy(j)
  BY <1>1, <1>3 DEF LoadLegacy, At, Held
<1>4. CASE Migrate(j)
  BY <1>1, <1>4 DEF Migrate, At, Held
<1>5. CASE Redial(j)
  BY <1>1, <1>5 DEF Redial, At, Held
<1>6. CASE Resume(j)
  BY <1>1, <1>6 DEF Resume, Ensured, At, Held
<1> QED BY <1>2, <1>3, <1>4, <1>5, <1>6 DEF Ensure

LEMMA EnsureEffect ==
  ASSUME Typed, NEW j \in Jobs, Ensure(j)
  PROVE  lane' = lane \/ (lane'.kind = lane.kind /\ lane'.n = lane.n /\ lane'.pc \notin WaitPcs)
<1>1. "lane" \in Jobs /\ lane \in Job /\ lane = job["lane"] /\ job \in [Jobs -> Job]
  BY LaneIsAJob DEF lane, Typed, TypeOK
<1>2. CASE j # "lane"
  <2>1. \E r : job' = [job EXCEPT ![j] = r]
    BY <1>2, EnsureMoves DEF Load, Bind, BindSave, Goto
  <2> QED BY <1>1, <1>2, <2>1 DEF lane
<1>3. CASE j = "lane"
  <2>1. ASSUME NEW pc \in Held \cup {"cloud_lock", "end", "fail"}, Goto(j, pc)
        PROVE  lane'.kind = lane.kind /\ lane'.n = lane.n /\ lane'.pc \notin WaitPcs
    BY <1>3, <2>1, LaneGoes DEF WaitPcs, Pcs, Held
  <2>2. CASE Load(j)
    BY <1>1, <1>3, <2>2 DEF Load, lane, Job, WaitPcs
  <2>3. CASE Bind(j)
    BY <1>1, <1>3, <2>3 DEF Bind, lane, Job, WaitPcs
  <2>4. CASE BindSave(j)
    BY <1>1, <1>3, <2>4 DEF BindSave, lane, Job, WaitPcs
  <2>5. CASE job' = [job EXCEPT ![j].acct = keychain.older, ![j].pc = "migrate"]
    BY <1>1, <1>3, <2>5 DEF lane, Job, WaitPcs
  <2> QED BY <1>3, <2>1, <2>2, <2>3, <2>4, <2>5, EnsureMoves
<1> QED BY <1>2, <1>3

\* Of the cells, a step of the operation only changes those of the freed lane.
LEMMA LaneEffect ==
  ASSUME Typed, LaneStep
  PROVE  /\ UNCHANGED << ui, cancel, guard, codes >>
         /\ lane'.pc \notin WaitPcs
         /\ \/ lane'.n = lane.n /\ UNCHANGED << stopped, crossed >>
            \/ lane'.n = None /\ LaneFreed
            \/ lane'.n = None /\ lane.n = None /\ UNCHANGED << stopped, crossed >>
<1>1. "lane" \in Jobs /\ lane \in Job /\ lane = job["lane"] /\ job \in [Jobs -> Job]
      /\ Shape("lane", lane)
  BY LaneIsAJob DEF lane, Typed, TypeOK
<1>2. UNCHANGED << ui, cancel, guard, codes >>
  BY DEF LaneStep, CloudLock, Cloud, Delete, DeleteLegacy, Drop, Reset, Fail, Failed, End, cells
<1>3. ASSUME NEW pc \in {"delete_legacy", "drop", "reset", "end", "fail", "failed"}, Goto("lane", pc)
      PROVE  lane'.n = lane.n /\ lane'.pc \notin WaitPcs
  BY <1>3, LaneGoes DEF WaitPcs, Pcs
<1>4. CASE CloudLock
  <2>1. UNCHANGED << stopped, crossed >>
    BY <1>4 DEF CloudLock, cells
  <2>2. CASE Fails
    BY <1>2, <1>3, <2>1, <2>2 DEF Fails
  <2>3. CASE job' = [job EXCEPT !["lane"].pc = "cloud", !["lane"].mem = state]
    <3>1. lane'.n = lane.n /\ lane'.pc = "cloud"
      BY <1>1, <2>3 DEF lane, Job
    <3> QED BY <1>2, <2>1, <3>1 DEF WaitPcs
  <2> QED BY <1>4, <2>2, <2>3 DEF CloudLock
<1>5. CASE Cloud
  <2>1. UNCHANGED << stopped, crossed >>
    BY <1>5 DEF Cloud, cells
  <2>2. CASE Fails \/ Goto("lane", "end")
    BY <1>2, <1>3, <2>1, <2>2 DEF Fails
  <2>3. CASE lane.kind = "sync"
             /\ job' = [job EXCEPT !["lane"] = [NoJob EXCEPT !.kind = "unlocks", !.pc = "cloud_lock"]]
    <3>1. lane'.n = None /\ lane'.pc = "cloud_lock"
      BY <1>1, <2>3 DEF lane, NoJob
    <3>2. lane.n = None
      BY <1>1, <2>3 DEF Shape, KindShape, Logins
    <3> QED BY <1>2, <2>1, <3>1, <3>2 DEF WaitPcs
  <2> QED BY <1>5, <2>2, <2>3 DEF Cloud
<1>6. CASE Delete \/ DeleteLegacy \/ Drop \/ Reset \/ Fail
  <2>1. UNCHANGED << stopped, crossed >>
    BY <1>6 DEF Delete, DeleteLegacy, Drop, Reset, Fail, cells
  <2>2. PICK pc \in {"delete_legacy", "drop", "reset", "end", "fail", "failed"} : Goto("lane", pc)
    BY <1>6 DEF Delete, DeleteLegacy, Drop, Reset, Fail
  <2> QED BY <1>2, <1>3, <2>1, <2>2
<1>7. CASE Failed \/ End
  <2>1. LaneFreed
    BY <1>7 DEF Failed, End
  <2>2. lane'.n = None /\ lane'.pc = "off"
    BY <1>1, <2>1, NoJobType DEF LaneFreed, lane
  <2> QED BY <1>2, <2>1, <2>2 DEF WaitPcs
<1> QED BY <1>4, <1>5, <1>6, <1>7 DEF LaneStep

-----------------------------------------------------------------------------
(* A sign-in that waits can be cancelled: its flag is in the shared cell, or *)
(* with the UI thread, which is on its way to set it or to put it back.      *)

Crossing == ui.pc \in {"swapped", "refused"}

Reachable ==
  \/ ui.pc = "idle" /\ cancel = lane.n
  \/ Crossing /\ ui.prev = lane.n
  \/ ui.pc = "taken" /\ ui.n = lane.n

FlagsKept ==
  /\ stopped \subseteq {lane.n}
  /\ Crossing => ui.n # lane.n /\ (ui.n \in crossed \/ cancel = ui.n)
  /\ lane.pc \in WaitPcs => lane.n \in crossed \/ lane.n \in stopped \/ Reachable
  /\ lane.pc \in {"dial", "code"} /\ lane.n \in stopped =>
       ui.pc = "stopped" \/ guard # lane.n \/ lane.n \in codes

LEMMA FlagsUi ==
  ASSUME Typed, FlagsKept, UiStep
  PROVE  FlagsKept'
<1>1. "lane" \in Jobs /\ lane \in Job /\ lane = job["lane"] /\ job \in [Jobs -> Job]
      /\ Shape("lane", lane)
  BY LaneIsAJob DEF lane, Typed, TypeOK
<1>2. ASSUME NEW kind \in Logins, NEW n \in Attempts, Connect(kind, n) PROVE FlagsKept'
  <2>1. /\ ui.pc = "idle" /\ n # lane.n /\ n # cancel
        /\ ui' = [pc |-> "swapped", kind |-> kind, n |-> n, prev |-> cancel] /\ cancel' = n
        /\ guard' \in {n, guard}
        /\ stopped' = stopped \ {n} /\ codes' = codes \ {n} /\ crossed' = crossed \ {n}
        /\ lane' = lane
    BY <1>2 DEF Connect, Fresh, lane
  <2> QED BY <2>1 DEF FlagsKept, Crossing, Reachable
<1>3. CASE ConnectTry /\ lane.kind = None
  <2>1. /\ ui.pc = "swapped" /\ ui' = NoUi /\ UNCHANGED cells /\ ui.n \in Attempts
    BY <1>3 DEF ConnectTry, Typed, UiShape
  <2>2. lane'.n = ui.n /\ lane'.pc = "dial"
    <3>1. lane' = [NoJob EXCEPT !.kind = ui.kind, !.pc = "dial", !.n = ui.n]
      BY <1>1, <1>3 DEF ConnectTry, lane
    <3> QED BY <3>1 DEF NoJob
  <2>3. lane.n = None
    BY <1>1, <1>3 DEF Shape, KindShape, LaneKinds
  <2>4. stopped = {}
    BY <2>3 DEF FlagsKept, Typed, TypeOK
  <2> QED BY <2>1, <2>2, <2>3, <2>4 DEF FlagsKept, Crossing, Reachable, NoUi, cells
<1>4. CASE ConnectTry /\ lane.kind # None
  <2>1. ui.pc = "swapped" /\ ui' = [ui EXCEPT !.pc = "refused"] /\ UNCHANGED cells /\ lane' = lane
    BY <1>4 DEF ConnectTry, lane
  <2> QED BY <2>1 DEF FlagsKept, Crossing, Reachable, cells, Typed, TypeOK
<1>5. CASE Refused
  <2>1. /\ ui.pc = "refused" /\ ui' = NoUi /\ cancel' = ui.prev /\ guard' \in {None, guard}
        /\ UNCHANGED << stopped, codes, crossed >> /\ lane' = lane
    BY <1>5 DEF Refused, lane
  <2>2. lane.pc \in WaitPcs => lane.n # None
    BY <1>1 DEF Shape, KindShape, LanePcs, WaitPcs, Held
  <2> QED BY <2>1, <2>2 DEF FlagsKept, Crossing, Reachable, NoUi, WaitPcs
<1>6. CASE CancelTake
  <2>1. /\ ui.pc = "idle" /\ ui' = [NoUi EXCEPT !.pc = "taken", !.n = cancel]
        /\ UNCHANGED << guard, stopped, codes, crossed >> /\ lane' = lane
    BY <1>6 DEF CancelTake, lane
  <2> QED BY <2>1 DEF FlagsKept, Crossing, Reachable, NoUi
<1>7. CASE CancelStop
  <2>1. /\ ui.pc = "taken" /\ ui' = [ui EXCEPT !.pc = "stopped"]
        /\ stopped' = stopped \cup ({ui.n} \cap {lane.n})
        /\ UNCHANGED << guard, cancel, codes, crossed >> /\ lane' = lane
    BY <1>7 DEF CancelStop, lane
  <2>2. ui'.pc = "stopped"
    BY <2>1 DEF Typed, TypeOK
  <2> QED BY <2>1, <2>2 DEF FlagsKept, Crossing, Reachable
<1>8. CASE CancelEnd
  <2>1. /\ ui.pc = "stopped" /\ ui' = NoUi /\ guard' = None
        /\ UNCHANGED << cancel, stopped, codes, crossed >> /\ lane' = lane
    BY <1>8 DEF CancelEnd, lane
  <2>2. lane.pc \in WaitPcs => lane.n # None
    BY <1>1 DEF Shape, KindShape, LanePcs, WaitPcs, Held
  <2> QED BY <2>1, <2>2 DEF FlagsKept, Crossing, Reachable, NoUi, WaitPcs
<1>9. CASE SubmitGuardCode
  <2>1. UNCHANGED << ui, cancel, guard, stopped, crossed >> /\ codes \subseteq codes' /\ lane' = lane
    BY <1>9 DEF SubmitGuardCode, lane
  <2> QED BY <2>1 DEF FlagsKept, Crossing, Reachable
<1>10. ASSUME NEW kind \in LaneKinds \ Logins, StartOperation(kind) PROVE FlagsKept'
  <2>1. /\ ui.pc = "idle" /\ lane.kind = None /\ UNCHANGED << cells, ui >>
    BY <1>10 DEF StartOperation
  <2>2. lane'.n = None /\ lane'.pc \in {"delete", "lock"}
    BY <1>1, <1>10 DEF StartOperation, lane, NoJob
  <2>3. lane.n = None
    BY <1>1, <2>1 DEF Shape, KindShape, LaneKinds
  <2> QED BY <2>1, <2>2, <2>3 DEF FlagsKept, Crossing, Reachable, WaitPcs, cells
<1>11. ASSUME NEW t \in Tasks, SetForeground(t) PROVE FlagsKept'
  <2>1. UNCHANGED << cells, ui >> /\ lane' = lane
    BY <1>1, <1>11 DEF SetForeground, lane, Jobs
  <2> QED BY <2>1 DEF FlagsKept, Crossing, Reachable, cells
<1> QED BY <1>2, <1>3, <1>4, <1>5, <1>6, <1>7, <1>8, <1>9, <1>10, <1>11 DEF UiStep

LEMMA FlagsSignIn ==
  ASSUME Typed, FlagsKept, SignIn
  PROVE  FlagsKept'
<1>1. /\ lane'.n = lane.n /\ UNCHANGED << ui, stopped >>
      /\ lane'.pc \in WaitPcs => lane.pc \in WaitPcs
      /\ lane'.pc \in {"dial", "code"} => lane.pc = "dial"
  BY SignInEffect DEF SignIn, Dial, CodeReceived, SignInFails, PollCancelled, Approved, LogOn,
         Clear, Check, StoreToken, Present, Publish, Greet, cells
<1>2. CASE UNCHANGED cells
  BY <1>1, <1>2 DEF FlagsKept, Crossing, Reachable, cells
<1>3. CASE CodeReceived
  <2>1. UNCHANGED << cancel, guard, crossed >> /\ lane.pc = "code"
    BY <1>3 DEF CodeReceived, SignsIn
  <2> QED BY <1>1, <2>1 DEF FlagsKept, Crossing, Reachable
<1>4. CASE Clear
  <2>1. /\ crossed' = crossed \cup ({ui.n} \ {None, lane.n}) /\ lane'.pc = "check"
        /\ Crossing => ui.n \in Attempts
    BY <1>4, LaneGoes DEF Clear, Pcs, Crossing, Typed, UiShape
  <2> QED BY <1>1, <2>1 DEF FlagsKept, Crossing, WaitPcs
<1> QED BY <1>2, <1>3, <1>4 DEF SignIn, Dial, SignInFails, PollCancelled, Approved, LogOn,
         Check, StoreToken, Present, Publish, Greet

\* The flag of a sign-in that waits is where a cancellation finds it, and the
\* channel of a cancelled one is closed.
THEOREM AlwaysFlagsKept == Spec => [](Typed /\ FlagsKept)
<1>1. Init => FlagsKept
  BY LaneIsAJob, NoJobType DEF Init, FlagsKept, Crossing, Reachable, NoUi, lane, WaitPcs
<1>2. Typed /\ FlagsKept /\ [Next]_vars => FlagsKept'
  <2> SUFFICES ASSUME Typed, FlagsKept, [Next]_vars PROVE FlagsKept'
    OBVIOUS
  <2>1. CASE LaneStep
    <3>1. UNCHANGED << ui, cancel, guard, codes >> /\ lane'.pc \notin WaitPcs
          /\ lane'.n \in {lane.n, None}
      BY <2>1, LaneEffect
    <3>2. CASE UNCHANGED << stopped, crossed >> /\ (lane'.n = lane.n)
      BY <3>1, <3>2 DEF FlagsKept, Crossing, WaitPcs
    <3>3. CASE LaneFreed /\ lane'.n = None
      <4>1. Crossing => ui.n \in Attempts
        BY DEF Crossing, Typed, UiShape
      <4> QED BY <3>1, <3>3, <4>1 DEF LaneFreed, FlagsKept, Crossing, WaitPcs
    <3> QED BY <2>1, <3>2, <3>3, LaneEffect
  <2>2. ASSUME NEW j \in Jobs, Ensure(j) PROVE FlagsKept'
    <3>1. UNCHANGED << ui, cells >>
      BY <2>2 DEF Ensure, EnsureLock, Load, LoadLegacy, Migrate, Redial, Bind, BindSave, Resume
    <3> QED BY <2>2, <3>1, EnsureEffect DEF FlagsKept, Crossing, Reachable, WaitPcs, cells
  <2>3. CASE Close \/ UNCHANGED vars
    BY <2>3 DEF Close, vars, FlagsKept, Crossing, Reachable, cells, lane
  <2> QED BY <2>1, <2>2, <2>3, FlagsUi, FlagsSignIn DEF Next
<1> QED BY <1>1, <1>2, AlwaysTyped, PTL DEF Spec

\* Whatever sign-ins were refused or cancelled meanwhile, one that still waits can
\* be cancelled, unless another sign-in emptied the cells while it was starting.
THEOREM SignInsCanBeCancelled == Spec => []SignInCanBeCancelled
<1>1. FlagsKept => SignInCanBeCancelled
  BY DEF FlagsKept, SignInCanBeCancelled, Waiting, WaitPcs, Reachable, Crossing
<1> QED BY <1>1, AlwaysFlagsKept, PTL

\* cancel_login ends the wait for a Steam Guard code: the channel is closed with
\* the flag, and nobody gives a cancelled sign-in a new one.
THEOREM CancelledWaitsEnd == Spec => []CancelEndsTheWait
<1>1. FlagsKept => CancelEndsTheWait
  BY DEF FlagsKept, CancelEndsTheWait
<1> QED BY <1>1, AlwaysFlagsKept, PTL

-----------------------------------------------------------------------------
(* The session is the one of the token in the Keychain, if no older app has  *)
(* left a token.  What the lane is about to replace or to drop, with the     *)
(* mutex free, need not be.                                                  *)

Unsettled == {"bind", "bind_save", "present", "publish", "fail", "delete_legacy", "drop"}
Redialled == {"redial", "rebind", "rebind_save", "resume"}

\* A job at ensure_session has the account of the token, or none.
OfToken(r) == r.pc \in Redialled => r.acct \in {None, keychain.own}

LaneOfToken(r) ==
  /\ r.pc \in {"bind", "bind_save", "present", "publish"} => r.acct = keychain.own
  /\ r.pc \in {"delete_legacy", "drop", "reset"} => keychain.own = None

KeysMatch ==
  /\ keychain.older = None
  /\ \A j \in Jobs : job[j].pc # "migrate"
  /\ LaneOfToken(lane)
  /\ lane.pc \notin Unsettled =>
       /\ session # None => session.acct = keychain.own
       /\ \A j \in Jobs : OfToken(job[j])
  /\ out = TRUE => keychain.own = None

\* A step that only changes one job
LEMMA KeysJob ==
  ASSUME Typed, KeysMatch, NEW j \in Jobs, NEW r, job' = [job EXCEPT ![j] = r],
         UNCHANGED << keychain, session, out >>, r.pc # "migrate",
         lane.pc \notin Unsettled => OfToken(r),
         j = "lane" => LaneOfToken(r) /\ (r.pc \in Unsettled \/ lane.pc \notin Unsettled)
  PROVE  KeysMatch'
<1>1. job'[j] = r /\ \A i \in Jobs \ {j} : job'[i] = job[i]
  BY DEF Typed, TypeOK
<1>2. \A i \in Jobs : job'[i].pc # "migrate"
  BY <1>1 DEF KeysMatch
<1>3. LaneOfToken(lane)'
  BY <1>1, LaneIsAJob DEF KeysMatch, LaneOfToken, lane
<1>4. ASSUME lane'.pc \notin Unsettled
      PROVE  (session # None => session.acct = keychain.own) /\ \A i \in Jobs : OfToken(job[i])'
  <2>1. lane.pc \notin Unsettled
    BY <1>1, <1>4, LaneIsAJob DEF lane
  <2> QED BY <1>1, <2>1 DEF KeysMatch, OfToken
<1> QED BY <1>2, <1>3, <1>4 DEF KeysMatch

LEMMA KeysGoto ==
  ASSUME Typed, KeysMatch, NEW j \in Jobs, NEW pc \in Pcs, Goto(j, pc),
         UNCHANGED << keychain, session, out >>, pc # "migrate",
         pc \in Redialled /\ lane.pc \notin Unsettled => job[j].acct \in {None, keychain.own},
         j = "lane" => /\ pc \in {"bind", "bind_save", "present", "publish"} => lane.acct = keychain.own
                       /\ pc \in {"delete_legacy", "drop", "reset"} => keychain.own = None
                       /\ pc \in Unsettled \/ lane.pc \notin Unsettled
  PROVE  KeysMatch'
<1>1. job[j] \in Job
  BY DEF Typed, TypeOK
<1> DEFINE r == Moved(job[j], pc)
<1>2. job' = [job EXCEPT ![j] = r]
  BY GotoMoves DEF Typed, TypeOK
<1>3. r.pc = pc /\ (pc \notin Last => r.acct = job[j].acct)
  BY <1>1, MovedType
<1> HIDE DEF r
<1>4. lane.pc \notin Unsettled => OfToken(r)
  BY <1>3 DEF OfToken, Redialled, Last
<1>5. j = "lane" => LaneOfToken(r)
  BY <1>3 DEF LaneOfToken, Last, lane
<1> QED BY <1>2, <1>3, <1>4, <1>5, KeysJob

LEMMA KeysUi ==
  ASSUME Typed, KeysMatch, UiStep
  PROVE  KeysMatch'
<1>1. UNCHANGED << keychain, session, out >>
  BY DEF UiStep, Connect, ConnectTry, Refused, CancelTake, CancelStop, CancelEnd,
         SubmitGuardCode, StartOperation, SetForeground
<1>2. "lane" \in Jobs /\ lane = job["lane"] /\ (lane.kind = None => lane.pc = "off")
  BY LaneIsAJob DEF lane, Shape, KindShape, LanePcs, LaneKinds, Logins
<1>3. ASSUME NEW j \in Jobs, NEW r, job' = [job EXCEPT ![j] = r], r.pc \in {"dial", "delete", "lock"},
             j = "lane" => lane.kind = None
      PROVE  KeysMatch'
  BY <1>1, <1>2, <1>3, KeysJob DEF OfToken, LaneOfToken, Redialled, Unsettled
<1>4. CASE ConnectTry /\ lane.kind = None
  <2>1. [NoJob EXCEPT !.kind = ui.kind, !.pc = "dial", !.n = ui.n].pc = "dial"
    BY DEF NoJob
  <2> QED BY <1>2, <1>3, <1>4, <2>1 DEF ConnectTry
<1>5. ASSUME NEW kind \in LaneKinds \ Logins, StartOperation(kind) PROVE KeysMatch'
  <2>1. [NoJob EXCEPT !.kind = kind,
                      !.pc = IF kind = "disconnect" THEN "delete" ELSE "lock"].pc \in {"delete", "lock"}
    BY DEF NoJob
  <2> QED BY <1>2, <1>3, <1>5, <2>1 DEF StartOperation
<1>6. ASSUME NEW t \in Tasks, SetForeground(t) PROVE KeysMatch'
  <2>1. [NoJob EXCEPT !.kind = "front", !.pc = "lock"].pc = "lock"
    BY DEF NoJob
  <2>2. t \in Jobs /\ t # "lane"
    BY DEF Jobs
  <2> QED BY <1>3, <1>6, <2>1, <2>2 DEF SetForeground
<1>7. CASE UNCHANGED job
  BY <1>1, <1>7 DEF KeysMatch, OfToken, LaneOfToken, lane
<1> QED BY <1>4, <1>5, <1>6, <1>7 DEF UiStep, Connect, ConnectTry, Refused, CancelTake, CancelStop,
         CancelEnd, SubmitGuardCode

\* Nobody else is at a point that depends on the token while the mutex is free.
LEMMA NobodyRedials ==
  ASSUME Typed, holder = None, NEW j \in Jobs
  PROVE  job[j].pc \notin Redialled
BY DEF Typed, Owns, Held, Redialled

LEMMA KeysSignIn ==
  ASSUME Typed, KeysMatch, SignIn
  PROVE  KeysMatch'
<1>0. lane \in Job /\ "lane" \in Jobs /\ lane = job["lane"] /\ Shape("lane", lane)
      /\ job \in [Jobs -> Job]
  BY LaneIsAJob DEF lane, Typed, TypeOK
<1>1. ASSUME NEW pc \in {"code", "poll", "clear", "check", "store", "publish", "cloud_lock", "fail", "end"},
             Goto("lane", pc), UNCHANGED << keychain, session, out >>,
             lane.pc \notin Unsettled \/ pc \in {"publish", "fail"},
             pc = "publish" => lane.acct = keychain.own
      PROVE  KeysMatch'
  BY <1>0, <1>1, KeysGoto DEF Pcs, Redialled, Unsettled
<1>2. CASE Dial \/ CodeReceived \/ SignInFails \/ PollCancelled \/ Clear \/ Check \/ Greet
  <2>1. UNCHANGED << keychain, session, out >> /\ lane.pc \notin Unsettled
    BY <1>2 DEF Dial, CodeReceived, SignInFails, PollCancelled, Clear, Check, Greet, SignsIn, Unsettled
  <2>2. PICK pc \in {"code", "poll", "clear", "check", "store", "cloud_lock", "fail", "end"} : Goto("lane", pc)
    BY <1>2 DEF Dial, CodeReceived, SignInFails, PollCancelled, Clear, Check, Greet
  <2> QED BY <1>1, <2>1, <2>2
<1>3. ASSUME NEW a \in Accounts, Approved(a) PROVE KeysMatch'
  <2>1. UNCHANGED << keychain, session, out >> /\ lane.pc = "poll"
        /\ job' = [job EXCEPT !["lane"] = [lane EXCEPT !.pc = "logon", !.acct = a]]
    BY <1>0, <1>3 DEF Approved, SignsIn
  <2>2. [lane EXCEPT !.pc = "logon", !.acct = a].pc = "logon"
    BY <1>0 DEF Job
  <2> QED BY <1>0, <2>1, <2>2, KeysJob DEF OfToken, LaneOfToken, Redialled, Unsettled
<1>4. CASE LogOn
  <2>1. UNCHANGED << keychain, session, out >> /\ lane.pc = "logon"
        /\ job' = [job EXCEPT !["lane"] = [lane EXCEPT !.pc = "clear", !.ok = TRUE]]
    BY <1>0, <1>4 DEF LogOn, SignsIn
  <2>2. [lane EXCEPT !.pc = "clear", !.ok = TRUE].pc = "clear"
    BY <1>0 DEF Job
  <2> QED BY <1>0, <2>1, <2>2, KeysJob DEF OfToken, LaneOfToken, Redialled, Unsettled
<1>5. CASE StoreToken
  <2>1. CASE Goto("lane", "fail") /\ UNCHANGED << keychain, out >>
    <3>1. UNCHANGED session /\ lane.pc = "store"
      BY <1>5 DEF StoreToken, SignsIn
    <3> QED BY <1>1, <2>1, <3>1
  <2>2. CASE keychain' = [keychain EXCEPT !.own = lane.acct] /\ Goto("lane", "bind") /\ out' = FALSE
    <3>1. keychain'.own = lane.acct /\ keychain'.older = keychain.older
      BY <2>2 DEF Typed, TypeOK
    <3>2. job' = [job EXCEPT !["lane"] = Moved(lane, "bind")] /\ lane' = Moved(lane, "bind")
      BY <1>0, <2>2, GotoMoves DEF Pcs, lane
    <3>3. Moved(lane, "bind").pc = "bind" /\ Moved(lane, "bind").acct = lane.acct
      BY <1>0, MovedType DEF Pcs, Last
    <3>4. LaneOfToken(lane)' /\ lane'.pc \in Unsettled
      BY <3>1, <3>2, <3>3 DEF LaneOfToken, Unsettled
    <3>5. \A j \in Jobs : job'[j].pc # "migrate"
      BY <1>0, <3>2, <3>3 DEF KeysMatch
    <3> QED BY <2>2, <3>1, <3>4, <3>5 DEF KeysMatch
  <2> QED BY <1>5, <2>1, <2>2 DEF StoreToken
<1>6. CASE Present
  <2>1. UNCHANGED << keychain, session, out >> /\ lane.pc = "present"
    BY <1>6 DEF Present, SignsIn
  <2>2. lane.acct = keychain.own
    BY <2>1 DEF KeysMatch, LaneOfToken
  <2>3. Goto("lane", "publish") \/ Goto("lane", "fail")
    BY <1>6 DEF Present
  <2> QED BY <1>1, <2>1, <2>2, <2>3
<1>7. CASE Publish
  <2>1. /\ lane.pc = "publish" /\ holder = None /\ UNCHANGED << keychain, out >>
        /\ session' = [acct |-> lane.acct, open |-> TRUE] /\ Goto("lane", "greet")
    BY <1>7 DEF Publish, SignsIn
  <2>2. session'.acct = keychain.own
    BY <2>1 DEF KeysMatch, LaneOfToken
  <2>3. job' = [job EXCEPT !["lane"] = Moved(lane, "greet")] /\ lane' = Moved(lane, "greet")
    BY <1>0, <2>1, GotoMoves DEF Pcs, lane
  <2>4. Moved(lane, "greet").pc = "greet"
    BY <1>0, MovedType DEF Pcs
  <2>5. \A j \in Jobs : job'[j].pc # "migrate" /\ job'[j].pc \notin Redialled
    BY <1>0, <2>1, <2>3, <2>4, NobodyRedials DEF KeysMatch, Redialled
  <2>6. LaneOfToken(lane)'
    BY <2>3, <2>4 DEF LaneOfToken
  <2> QED BY <2>1, <2>2, <2>5, <2>6 DEF KeysMatch, OfToken
<1> QED BY <1>2, <1>3, <1>4, <1>5, <1>6, <1>7 DEF SignIn

LEMMA KeysEnsure ==
  ASSUME Typed, KeysMatch, NEW j \in Jobs, Ensure(j)
  PROVE  KeysMatch'
<1>0. job[j] \in Job /\ Shape(j, job[j]) /\ lane = job["lane"] /\ "lane" \in Jobs
      /\ job[j].pc # "migrate"
  BY LaneIsAJob DEF lane, Typed, TypeOK, KeysMatch
<1>1. UNCHANGED out
  BY DEF Ensure, EnsureLock, Load, LoadLegacy, Migrate, Redial, Bind, BindSave, Resume
<1>2. CASE EnsureFails(j) /\ job[j].pc \in Held /\ UNCHANGED << keychain, session >>
  <2>1. CASE j = "lane" /\ (Goto(j, "end") \/ Goto(j, "fail"))
    BY <1>0, <1>1, <1>2, <2>1, KeysGoto DEF Pcs, Redialled, Unsettled, Held
  <2>2. CASE j # "lane" /\ job' = [job EXCEPT ![j] = NoJob]
    BY <1>1, <1>2, <2>2, KeysJob, NoJobType DEF OfToken, Redialled
  <2> QED BY <1>2, <2>1, <2>2, EnsureFailsEffect
<1>3. CASE EnsureLock(j)
  <2>1. UNCHANGED << keychain, session >> /\ job[j].pc = "lock" /\ job[j].acct = None
    BY <1>0, <1>3 DEF EnsureLock, At, Shape, AccountShape
  <2>2. PICK pc \in {"resume", "load"} : Goto(j, pc)
    BY <1>3 DEF EnsureLock
  <2> QED BY <1>0, <1>1, <2>1, <2>2, KeysGoto DEF Pcs, Unsettled
<1>4. CASE Load(j)
  <2> DEFINE r == [job[j] EXCEPT !.acct = keychain.own,
                                 !.pc = IF keychain.own # None THEN "redial" ELSE "load_legacy"]
  <2>1. r.acct = keychain.own /\ r.pc \in {"redial", "load_legacy"}
    BY <1>0 DEF Job
  <2>2. job' = [job EXCEPT ![j] = r] /\ UNCHANGED << keychain, session >> /\ job[j].pc = "load"
    BY <1>4 DEF Load, At
  <2> HIDE DEF r
  <2> QED BY <1>0, <1>1, <2>1, <2>2, KeysJob DEF OfToken, LaneOfToken, Unsettled
<1>5. CASE LoadLegacy(j)
  <2>1. EnsureFails(j) /\ UNCHANGED << keychain, session >> /\ job[j].pc \in Held
    BY <1>5 DEF LoadLegacy, KeysMatch, At, Held
  <2> QED BY <1>2, <2>1
<1>6. CASE Redial(j)
  <2>1. job[j].pc = "redial" /\ job[j].pc \in Held /\ UNCHANGED << keychain, session >>
    BY <1>6 DEF Redial, At, Held
  <2>2. lane.pc \notin Unsettled => job[j].acct \in {None, keychain.own}
    BY <2>1 DEF KeysMatch, OfToken, Redialled
  <2>3. CASE Goto(j, "rebind")
    BY <1>0, <1>1, <2>1, <2>2, <2>3, KeysGoto DEF Pcs, Unsettled
  <2> QED BY <1>2, <1>6, <2>1, <2>3 DEF Redial
<1>7. ASSUME NEW r, job' = [job EXCEPT ![j] = r], UNCHANGED << keychain, session >>,
             r.acct = job[j].acct,
             \/ job[j].pc = "bind" /\ r.pc = "bind_save"
             \/ job[j].pc = "bind_save" /\ r.pc = "present"
             \/ job[j].pc = "rebind" /\ r.pc = "rebind_save"
             \/ job[j].pc = "rebind_save" /\ r.pc = "resume"
      PROVE  KeysMatch'
  <2>1. lane.pc \notin Unsettled => OfToken(r)
    <3>1. CASE job[j].pc \in {"rebind", "rebind_save"}
      BY <1>7, <3>1 DEF KeysMatch, OfToken, Redialled
    <3>2. CASE r.pc \in {"bind_save", "present"}
      BY <3>2 DEF OfToken, Redialled
    <3> QED BY <1>7, <3>1, <3>2
  <2>2. j = "lane" => LaneOfToken(r) /\ (r.pc \in Unsettled \/ lane.pc \notin Unsettled)
    BY <1>0, <1>7 DEF KeysMatch, LaneOfToken, Unsettled
  <2> QED BY <1>1, <1>7, <2>1, <2>2, KeysJob
<1>8. CASE Bind(j)
  <2> DEFINE r == [job[j] EXCEPT !.mem = state,
                                 !.pc = IF @ = "bind" THEN "bind_save" ELSE "rebind_save"]
  <2>1. /\ r.acct = job[j].acct
        /\ r.pc = IF job[j].pc = "bind" THEN "bind_save" ELSE "rebind_save"
    BY <1>0 DEF Job
  <2>2. /\ job' = [job EXCEPT ![j] = r] /\ UNCHANGED << keychain, session >>
        /\ job[j].pc \in {"bind", "rebind"}
    BY <1>8 DEF Bind
  <2> HIDE DEF r
  <2> QED BY <1>7, <2>1, <2>2
<1>9. CASE BindSave(j)
  <2> DEFINE r == [job[j] EXCEPT !.mem = NoFile,
                                 !.pc = IF @ = "bind_save" THEN "present" ELSE "resume"]
  <2>1. /\ r.acct = job[j].acct
        /\ r.pc = IF job[j].pc = "bind_save" THEN "present" ELSE "resume"
    BY <1>0 DEF Job
  <2>2. /\ job' = [job EXCEPT ![j] = r] /\ UNCHANGED << keychain, session >>
        /\ job[j].pc \in {"bind_save", "rebind_save"}
    BY <1>9 DEF BindSave
  <2> HIDE DEF r
  <2> QED BY <1>7, <2>1, <2>2
<1>10. CASE Resume(j)
  <2>1. job[j].pc = "resume" /\ job[j].pc \in Held /\ UNCHANGED keychain
    BY <1>10 DEF Resume, At, Held
  <2>2. CASE EnsureFails(j) /\ UNCHANGED session
    BY <1>2, <2>1, <2>2
  <2>3. CASE Ensured(j) /\ UNCHANGED session
    <3>1. CASE j = "lane"
      BY <1>0, <1>1, <2>1, <2>3, <3>1, KeysGoto DEF Ensured, Pcs, Redialled, Unsettled
    <3>2. CASE j # "lane"
      BY <1>1, <2>1, <2>3, <3>2, KeysJob, NoJobType DEF Ensured, OfToken, Redialled
    <3> QED BY <3>1, <3>2
  <2>4. CASE Ensured(j) /\ job[j].acct # None /\ session' = [acct |-> job[j].acct, open |-> TRUE]
    <3>1. lane.pc \notin Unsettled => session'.acct = keychain.own
      BY <2>1, <2>4 DEF KeysMatch, OfToken, Redialled
    <3> DEFINE r == IF j = "lane" THEN Moved(lane, "cloud_lock") ELSE NoJob
    <3>2. job' = [job EXCEPT ![j] = r]
      BY <1>0, <2>4, GotoMoves DEF Ensured, Pcs, Typed, TypeOK
    <3>3. r.pc = IF j = "lane" THEN "cloud_lock" ELSE "off"
      BY <1>0, MovedType, NoJobType, LaneIsAJob DEF Pcs
    <3> HIDE DEF r
    <3>4. job'[j] = r /\ \A i \in Jobs \ {j} : job'[i] = job[i]
      BY <3>2 DEF Typed, TypeOK
    <3>5. \A i \in Jobs : job'[i].pc # "migrate" /\ (OfToken(job[i]) => OfToken(job[i])')
      BY <2>1, <3>3, <3>4 DEF KeysMatch, OfToken, Redialled
    <3>6. LaneOfToken(lane)' /\ (lane'.pc \notin Unsettled => lane.pc \notin Unsettled)
      <4>1. CASE j = "lane"
        BY <1>0, <2>1, <3>3, <3>4, <4>1 DEF LaneOfToken, lane, Unsettled
      <4>2. CASE j # "lane"
        BY <1>0, <2>1, <3>4, <4>2 DEF KeysMatch, LaneOfToken, lane
      <4> QED BY <4>1, <4>2
    <3> QED BY <1>1, <2>1, <3>1, <3>5, <3>6 DEF KeysMatch
  <2> QED BY <1>10, <2>2, <2>3, <2>4 DEF Resume
<1> QED BY <1>0, <1>3, <1>4, <1>5, <1>6, <1>8, <1>9, <1>10 DEF Ensure, Migrate, At

LEMMA KeysLane ==
  ASSUME Typed, KeysMatch, LaneStep
  PROVE  KeysMatch'
<1>0. lane \in Job /\ "lane" \in Jobs /\ lane = job["lane"] /\ Shape("lane", lane)
      /\ job \in [Jobs -> Job]
  BY LaneIsAJob DEF lane, Typed, TypeOK
<1>1. ASSUME NEW pc \in {"end", "fail"}, Goto("lane", pc), UNCHANGED << keychain, session, out >>,
             lane.pc \notin Unsettled \/ pc = "fail"
      PROVE  KeysMatch'
  BY <1>0, <1>1, KeysGoto DEF Pcs, Redialled, Unsettled
<1>2. CASE CloudLock
  <2>1. lane.pc = "cloud_lock" /\ UNCHANGED << keychain, session, out >>
    BY <1>0, <1>2 DEF CloudLock, At
  <2>2. CASE Fails
    BY <1>1, <2>1, <2>2 DEF Fails, Unsettled
  <2>3. CASE job' = [job EXCEPT !["lane"].pc = "cloud", !["lane"].mem = state]
    <3>1. job' = [job EXCEPT !["lane"] = [lane EXCEPT !.pc = "cloud", !.mem = state]]
      BY <1>0, <2>3
    <3>2. [lane EXCEPT !.pc = "cloud", !.mem = state].pc = "cloud"
      BY <1>0 DEF Job
    <3> QED BY <1>0, <2>1, <3>1, <3>2, KeysJob DEF OfToken, LaneOfToken, Redialled, Unsettled
  <2> QED BY <1>2, <2>2, <2>3 DEF CloudLock
<1>3. CASE Cloud
  <2>1. lane.pc = "cloud" /\ UNCHANGED << keychain, session, out >>
    BY <1>0, <1>3 DEF Cloud, At
  <2>2. CASE Fails \/ Goto("lane", "end")
    BY <1>1, <2>1, <2>2 DEF Fails, Unsettled
  <2>3. CASE job' = [job EXCEPT !["lane"] = [NoJob EXCEPT !.kind = "unlocks", !.pc = "cloud_lock"]]
    <3>1. [NoJob EXCEPT !.kind = "unlocks", !.pc = "cloud_lock"].pc = "cloud_lock"
      BY DEF NoJob
    <3> QED BY <1>0, <2>1, <2>3, <3>1, KeysJob DEF OfToken, LaneOfToken, Redialled, Unsettled
  <2> QED BY <1>3, <2>2, <2>3 DEF Cloud
<1>4. ASSUME NEW pc \in {"delete_legacy", "drop", "reset", "failed", "end"}, Goto("lane", pc),
             keychain'.older = None,
             pc # "failed" => keychain'.own = None, out' = TRUE => keychain'.own = None,
             \/ pc \in Unsettled
             \/ session' = None /\ holder = None
             \/ lane.pc = "reset" /\ UNCHANGED << keychain, session >>
      PROVE  KeysMatch'
  <2>1. job' = [job EXCEPT !["lane"] = Moved(lane, pc)] /\ lane' = Moved(lane, pc)
    BY <1>0, <1>4, GotoMoves DEF Pcs, lane
  <2>2. Moved(lane, pc).pc = pc
    BY <1>0, MovedType DEF Pcs
  <2>3. \A j \in Jobs : /\ job'[j].pc # "migrate"
                        /\ holder = None => job'[j].pc \notin Redialled
                        /\ OfToken(job[j]) /\ UNCHANGED keychain => OfToken(job[j])'
    BY <1>0, <2>1, <2>2, NobodyRedials DEF KeysMatch, Redialled, OfToken
  <2>4. LaneOfToken(lane)' /\ lane'.pc = pc
    BY <1>4, <2>1, <2>2 DEF LaneOfToken
  <2> QED BY <1>4, <2>3, <2>4 DEF KeysMatch, OfToken, Unsettled
<1>5. CASE Delete
  <2>1. lane.pc = "delete" /\ UNCHANGED << session, out >>
    BY <1>0, <1>5 DEF Delete, At
  <2>2. CASE keychain' = [keychain EXCEPT !.own = None] /\ Goto("lane", "delete_legacy")
    <3>1. keychain'.own = None /\ keychain'.older = None
      BY <2>2 DEF KeysMatch, Typed, TypeOK
    <3> QED BY <1>4, <2>2, <3>1 DEF Unsettled
  <2> QED BY <1>1, <1>5, <2>1, <2>2 DEF Delete
<1>6. CASE DeleteLegacy
  <2>1. lane.pc = "delete_legacy" /\ UNCHANGED << session, out >> /\ keychain.own = None
    BY <1>0, <1>6 DEF DeleteLegacy, At, KeysMatch, LaneOfToken
  <2>2. CASE keychain' = [keychain EXCEPT !.older = None] /\ Goto("lane", "drop")
    <3>1. keychain'.own = None /\ keychain'.older = None
      BY <2>1, <2>2 DEF Typed, TypeOK
    <3> QED BY <1>4, <2>2, <3>1 DEF Unsettled
  <2> QED BY <1>1, <1>6, <2>1, <2>2 DEF DeleteLegacy
<1>7. CASE Drop
  BY <1>0, <1>4, <1>7 DEF Drop, At, KeysMatch, LaneOfToken
<1>8. CASE Reset
  BY <1>0, <1>4, <1>8 DEF Reset, At, KeysMatch, LaneOfToken
<1>9. CASE Fail
  BY <1>0, <1>4, <1>9 DEF Fail, At, KeysMatch, LaneOfToken
<1>10. CASE Failed \/ End
  <2>1. /\ UNCHANGED << keychain, session, out >> /\ job' = [job EXCEPT !["lane"] = NoJob]
        /\ lane.pc \in {"failed", "end"}
    BY <1>0, <1>10 DEF Failed, End, LaneFreed, At
  <2> QED BY <1>0, <2>1, KeysJob, NoJobType DEF OfToken, LaneOfToken, Redialled, Unsettled
<1> QED BY <1>2, <1>3, <1>5, <1>6, <1>7, <1>8, <1>9, <1>10 DEF LaneStep

\* The session, and whatever is to become it, is of the token in the Keychain.
THEOREM AlwaysKeysMatch == Spec => [](Typed /\ (legacy = None => KeysMatch))
<1>1. Init => (legacy = None => KeysMatch)
  BY NoJobType, LaneIsAJob DEF Init, KeysMatch, OfToken, LaneOfToken, Redialled, Unsettled, lane
<1>2. Typed /\ (legacy = None => KeysMatch) /\ [Next]_vars => (legacy = None => KeysMatch)'
  <2> SUFFICES ASSUME Typed, legacy = None => KeysMatch, [Next]_vars, legacy' = None PROVE KeysMatch'
    OBVIOUS
  <2>1. UNCHANGED legacy
    BY DEF Next, vars, UiStep, Connect, ConnectTry, Refused, CancelTake, CancelStop, CancelEnd,
         SubmitGuardCode, StartOperation, SetForeground, SignIn, Dial, CodeReceived, SignInFails,
         PollCancelled, Approved, LogOn, Clear, Check, StoreToken, Present, Publish, Greet,
         LaneStep, CloudLock, Cloud, Delete, DeleteLegacy, Drop, Reset, Fail, Failed, End, Close,
         Ensure, EnsureLock, Load, LoadLegacy, Migrate, Redial, Bind, BindSave, Resume
  <2>2. CASE Close
    <3>1. session # None /\ session' # None /\ session'.acct = session.acct
      BY <2>2 DEF Close, Typed, TypeOK, Session
    <3> QED BY <2>1, <2>2, <3>1 DEF Close, KeysMatch, OfToken, LaneOfToken, lane
  <2>3. CASE UNCHANGED vars
    BY <2>1, <2>3 DEF vars, KeysMatch, OfToken, LaneOfToken, lane
  <2> QED BY <2>1, <2>2, <2>3, KeysUi, KeysSignIn, KeysLane, KeysEnsure DEF Next
<1> QED BY <1>1, <1>2, AlwaysTyped, PTL DEF Spec

\* Between operations the session is that of the token the next launch will use,
\* whatever sign-ins, presence requests and disconnections crossed, unless an older
\* app had left a token of its own.
THEOREM SessionIsOfKeychain == Spec => []SessionMatchesKeychain
<1>1. Typed /\ (legacy = None => KeysMatch) => SessionMatchesKeychain
  <2> SUFFICES ASSUME Typed, KeysMatch, lane.kind = None, session # None
               PROVE  session.acct = keychain.own
    BY DEF SessionMatchesKeychain
  <2>1. lane.pc = "off"
    BY LaneIsAJob DEF Shape, KindShape, LanePcs, LaneKinds, Logins
  <2> QED BY <2>1 DEF KeysMatch, Unsettled
<1> QED BY <1>1, AlwaysKeysMatch, PTL

\* Once disconnect has ended well there is neither token nor session until the user
\* signs in again, even if a presence request was signing in at that moment.
THEOREM DisconnectStays == Spec => []DisconnectIsFinal
<1>1. Typed /\ (legacy = None => KeysMatch) => DisconnectIsFinal
  <2> SUFFICES ASSUME Typed, KeysMatch, lane.kind = None, out = TRUE
               PROVE  session = None /\ keychain.own = None
    BY DEF DisconnectIsFinal, Typed, TypeOK
  <2>1. lane.pc = "off"
    BY LaneIsAJob DEF Shape, KindShape, LanePcs, LaneKinds, Logins
  <2>2. keychain.own = None /\ (session # None => session.acct = None)
    BY <2>1 DEF KeysMatch, Unsettled
  <2> QED BY <2>2 DEF Typed, TypeOK, Session
<1> QED BY <1>1, AlwaysKeysMatch, PTL
=============================================================================
