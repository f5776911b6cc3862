----------------------- MODULE PrelaunchBarrierProofs -----------------------
(***************************************************************************)
(* The barrier of PrelaunchBarrier holds for every set of slots.           *)
(*                                                                         *)
(* BarrierHolds is not inductive.  It needs who holds the guard at each    *)
(* program point (GuardHolder), that the permission is exactly the stretch *)
(* of a running preflight (AllowedWindow), and that "guarded" is recorded  *)
(* only once that stretch is over (GuardedIsOver).                         *)
(*                                                                         *)
(* The last part is what of its liveness can be proved: both threads take  *)
(* a bounded number of steps, and neither waits for one that waits.        *)
(***************************************************************************)
EXTENDS PrelaunchBarrier, Integers, FiniteSetTheorems, TLAPS

\* The guard is held by exactly the thread that stands in its critical section.
GuardHolder ==
  /\ guard = "lane" <=> opPc \in {"check", "replace"}
  /\ guard = "preflight" <=> pfPc \in {"restore_write", "clear"}

\* replacement_allowed is set exactly while Engine::preflight runs.
AllowedWindow == allowed <=> pfPc \notin {"call", "ended", "returned"}

\* The guarded return is recorded only after the permission is withdrawn.
GuardedIsOver == pfPath = "guarded" => pfPc \in {"call", "ended", "returned"}

\* The lane is free exactly when no operation stands anywhere.
LaneIdle == LaneFree <=> opPc = "idle"

IInv ==
  /\ TypeOK
  /\ LaneIdle
  /\ GuardHolder
  /\ AllowedWindow
  /\ GuardedIsOver
  /\ BarrierHolds

-----------------------------------------------------------------------------
(* Type correctness. *)

\* Every reachable state is well typed, whatever the set of slots.
LEMMA TypeStep == TypeOK /\ [Next]_vars => TypeOK'
<1> SUFFICES ASSUME TypeOK, [Next]_vars PROVE TypeOK'
  OBVIOUS
<1> USE DEF TypeOK, Identity, Origin, OpKinds, SyncKinds, OpPcs, PfPcs, Phases, Sticky,
            lane, pf
<1>1. CASE StartOperation
  <2>1. closed' \in BOOLEAN
    BY <1>1, Zenon DEF StartOperation, TakeLane
  <2> QED BY <1>1, <2>1 DEF StartOperation, TakeLane
<1>2. CASE LaneStep
  <2>1. CASE Session     BY <2>1 DEF Session, FailTo
  <2>2. CASE List
    <3>1. /\ UNCHANGED << allowed, guard, saves, queued, pfPc, pfCall, pfPath, opKind, opSlot >>
          /\ phase' = "busy"
          /\ opPc' \in OpPcs
          /\ closed' \in BOOLEAN
      BY <2>2 DEF List, FailTo
    <3>2. /\ opSeen' \in [Slots -> Identity]
          /\ opTodo' \in SUBSET Slots
          /\ snapshot' \in [Slots -> Identity] \cup {Absent}
      <4>1. CASE UNCHANGED << opSeen, opTodo, snapshot >>
        BY <4>1
      <4>2. CASE /\ opKind = "prelaunch" => snapshot # Absent
                 /\ opSeen' = IF opKind = "prelaunch" THEN snapshot ELSE saves
                 /\ snapshot' = IF opKind = "prelaunch" THEN Absent ELSE snapshot
                 /\ opTodo' \in SUBSET {s \in Slots : opSeen'[s] # NoEntry}
        <5>1. opSeen' \in [Slots -> Identity]
          BY <4>2
        <5>2. snapshot' \in [Slots -> Identity] \cup {Absent}
          BY <4>2
        <5> QED BY <4>2, <5>1, <5>2
      <4> QED BY <2>2, <4>1, <4>2 DEF List, FailTo
    <3> QED BY <3>1, <3>2
  <2>3. CASE Compare     BY <2>3 DEF Compare, FailTo
  <2>4. CASE Conclude
    <3>1. CASE FailTo("settle_err") /\ UNCHANGED phase
      BY <2>4, <3>1 DEF Conclude, FailTo
    <3>2. CASE ~(FailTo("settle_err") /\ UNCHANGED phase)
      <4>1. /\ opPc' = "settle_ok"
            /\ phase' \in {"idle", "choice"}
            /\ closed' = FALSE
            /\ UNCHANGED << allowed, guard, saves, queued, snapshot, opKind, opTodo,
                            opSeen, opSlot, pfPc, pfCall, pfPath >>
        BY <2>4, <3>2 DEF Conclude
      <4>2. phase' \in Phases /\ closed' \in BOOLEAN
        BY <4>1, Zenon
      <4> QED BY <4>1, <4>2
    <3> QED BY <3>1, <3>2
  <2>5. CASE PullLock    BY <2>5 DEF PullLock
  <2>6. CASE PullCheck
    <3>1. closed' \in BOOLEAN
      <4>1. closed' = closed \/ closed' = FALSE
        BY <2>6, Zenon DEF PullCheck, Refuse
      <4> QED BY <4>1
    <3> QED BY <2>6, <3>1 DEF PullCheck, Refuse
  <2>7. CASE PullReplace
    <3>1. closed' \in BOOLEAN
      <4>1. closed' = closed \/ closed' = FALSE
        BY <2>7, Zenon DEF PullReplace, Refuse
      <4> QED BY <4>1
    <3>2. saves' \in [Slots -> Origin]
      <4>1. \/ saves' = saves
            \/ saves' = [saves EXCEPT ![opSlot] = "pulled"]
        BY <2>7 DEF PullReplace
      <4> QED BY <4>1
    <3> QED BY <2>7, <3>1, <3>2 DEF PullReplace, Refuse
  <2>8. CASE Settle      BY <2>8 DEF Settle
  <2>9. CASE ReleaseLane BY <2>9 DEF ReleaseLane
  <2> QED BY <1>2, <2>1, <2>2, <2>3, <2>4, <2>5, <2>6, <2>7, <2>8, <2>9 DEF LaneStep
<1>3. CASE PreflightStep
  <2>1. CASE PreflightCall  BY <2>1 DEF PreflightCall
  <2>2. CASE RestoreVerify  BY <2>2 DEF RestoreVerify, PfGoto
  <2>3. CASE RestoreLock    BY <2>3 DEF RestoreLock, PfGoto
  <2>4. CASE RestoreWrite
    <3>1. /\ UNCHANGED << allowed, phase, closed, opKind, opPc, opTodo, opSeen, opSlot,
                          pfCall, pfPath >>
          /\ guard' = "free"
          /\ pfPc' = "spawn"
          /\ queued' \in SUBSET Slots
      BY <2>4 DEF RestoreWrite, PfGoto
    <3>2. /\ saves' \in [Slots -> Origin]
          /\ snapshot' \in [Slots -> Identity] \cup {Absent}
      <4>1. CASE UNCHANGED << saves, snapshot >>
        BY <4>1
      <4>2. CASE UNCHANGED snapshot /\ \E s \in queued : saves' = [saves EXCEPT ![s] = "late"]
        BY <4>2
      <4>3. CASE \E s \in queued :
                   /\ saves' = [saves EXCEPT ![s] = "restored"]
                   /\ snapshot' = [IF snapshot = Absent THEN [t \in Slots |-> NoEntry]
                                   ELSE snapshot EXCEPT ![s] = "restored"]
        BY <4>3
      <4> QED BY <2>4, <4>1, <4>2, <4>3 DEF RestoreWrite
    <3> QED BY <3>1, <3>2
  <2>5. CASE SpawnPrelaunch
    <3>1. CASE TakeLane("prelaunch") /\ PfGoto("poll")
      BY <2>5, <3>1 DEF SpawnPrelaunch, TakeLane, PfGoto
    <3>2. CASE PfGoto("skip") /\ UNCHANGED << phase, closed, lane >>
      BY <2>5, <3>2 DEF SpawnPrelaunch, PfGoto
    <3> QED BY <2>5, <3>1, <3>2 DEF SpawnPrelaunch
  <2>6. CASE SkipPreflight
    <3>1. allowed' \in BOOLEAN
      BY <2>6, Zenon DEF SkipPreflight
    <3> QED BY <2>6, <3>1 DEF SkipPreflight
  <2>7. CASE PollEnds       BY <2>7 DEF PollEnds, PfGoto
  <2>8. CASE BarrierLock    BY <2>8 DEF BarrierLock, PfGoto
  <2>9. CASE BarrierClear
    <3>1. allowed' \in BOOLEAN
      BY <2>9, Zenon DEF BarrierClear
    <3> QED BY <2>9, <3>1 DEF BarrierClear
  <2>10. CASE PreflightEnd  BY <2>10 DEF PreflightEnd
  <2> QED BY <1>3, <2>1, <2>2, <2>3, <2>4, <2>5, <2>6, <2>7, <2>8, <2>9, <2>10
          DEF PreflightStep
<1>4. CASE UNCHANGED vars
  BY <1>4 DEF vars
<1> QED BY <1>1, <1>2, <1>3, <1>4 DEF Next

-----------------------------------------------------------------------------
(* The inductive invariant. *)

LEMMA InitIInv == Init => IInv
<1> SUFFICES ASSUME Init PROVE IInv
  OBVIOUS
<1>1. TypeOK
  BY DEF Init, TypeOK, Identity, Origin, OpPcs, PfPcs, Phases, Sticky
<1> QED
  BY <1>1 DEF Init, IInv, LaneIdle, LaneFree, GuardHolder, AllowedWindow, GuardedIsOver, BarrierHolds, Replacing

LEMMA StepIInv == IInv /\ [Next]_vars => IInv'
<1> SUFFICES ASSUME IInv, [Next]_vars PROVE IInv'
  OBVIOUS
<1>0. TypeOK'
  BY TypeStep DEF IInv
<1> USE DEF IInv, LaneIdle, LaneFree, GuardHolder, AllowedWindow, GuardedIsOver, BarrierHolds,
            Replacing, lane, pf
<1>1. CASE StartOperation
  BY <1>0, <1>1 DEF StartOperation, TakeLane, TypeOK, OpKinds, SyncKinds
<1>2. CASE LaneStep
  <2>1. CASE Session     BY <1>0, <2>1 DEF Session, FailTo
  <2>2. CASE List        BY <1>0, <2>2 DEF List, FailTo
  <2>3. CASE Compare     BY <1>0, <2>3 DEF Compare, FailTo
  <2>4. CASE Conclude    BY <1>0, <2>4 DEF Conclude, FailTo
  <2>5. CASE PullLock    BY <1>0, <2>5 DEF PullLock
  \* the only way into "replace": the permission, read under the guard, says
  \* that preflight still runs, so the last return recorded is not "guarded"
  <2>6. CASE PullCheck   BY <1>0, <2>6 DEF PullCheck, Refuse
  <2>7. CASE PullReplace BY <1>0, <2>7 DEF PullReplace, Refuse
  <2>8. CASE Settle      BY <1>0, <2>8 DEF Settle
  <2>9. CASE ReleaseLane BY <1>0, <2>9 DEF ReleaseLane
  <2> QED BY <1>2, <2>1, <2>2, <2>3, <2>4, <2>5, <2>6, <2>7, <2>8, <2>9 DEF LaneStep
<1>3. CASE PreflightStep
  <2>1. CASE PreflightCall  BY <1>0, <2>1 DEF PreflightCall
  <2>2. CASE RestoreVerify  BY <1>0, <2>2 DEF RestoreVerify, PfGoto
  <2>3. CASE RestoreLock    BY <1>0, <2>3 DEF RestoreLock, PfGoto
  <2>4. CASE RestoreWrite   BY <1>0, <2>4 DEF RestoreWrite, PfGoto
  <2>5. CASE SpawnPrelaunch BY <1>0, <2>5 DEF SpawnPrelaunch, TakeLane, PfGoto
  <2>6. CASE SkipPreflight  BY <1>0, <2>6 DEF SkipPreflight
  <2>7. CASE PollEnds       BY <1>0, <2>7 DEF PollEnds, PfGoto
  <2>8. CASE BarrierLock    BY <1>0, <2>8 DEF BarrierLock, PfGoto
  \* the guard is in this thread's hands, so the lane is not replacing
  <2>9. CASE BarrierClear   BY <1>0, <2>9 DEF BarrierClear
  <2>10. CASE PreflightEnd  BY <1>0, <2>10 DEF PreflightEnd
  <2> QED BY <1>3, <2>1, <2>2, <2>3, <2>4, <2>5, <2>6, <2>7, <2>8, <2>9, <2>10
          DEF PreflightStep
<1>4. CASE UNCHANGED vars
  BY <1>0, <1>4 DEF vars
<1> QED BY <1>1, <1>2, <1>3, <1>4 DEF Next

-----------------------------------------------------------------------------
(* Theorems. *)

\* Type correctness of PrelaunchBarrier.
THEOREM TypeCorrect == Spec => []TypeOK
<1>1. Init => TypeOK
  BY InitIInv DEF IInv
<1> QED BY <1>1, TypeStep, PTL DEF Spec

LEMMA Inductive == Spec => []IInv
BY InitIInv, StepIInv, PTL DEF Spec

\* No operation is replacing a save once the barrier took the guard and
\* returned: what the comment on the lock of Engine::preflight promises.
THEOREM BarrierSafety == Spec => []BarrierHolds
<1>1. IInv => BarrierHolds
  BY DEF IInv
<1> QED BY Inductive, <1>1, PTL

\* The permission is withdrawn whichever way ICSCorePreflight returns.
THEOREM WindowCloses == Spec => []ReturnedMeansClosed
<1>1. IInv => ReturnedMeansClosed
  BY DEF IInv, AllowedWindow, ReturnedMeansClosed
<1> QED BY Inductive, <1>1, PTL

-----------------------------------------------------------------------------
(***************************************************************************)
(* What the prelaunch sync compares.  A second invariant, relative to the  *)
(* first: an operation that has work to do shows a busy phase, so that the *)
(* retry, which wants "error" or "offline", begins only when the prelaunch *)
(* sync of the first call has nothing left to do, and a restore never      *)
(* comes between the snapshot a prelaunch sync took and its replacements.  *)
(***************************************************************************)
AtWork == opPc \in {"session", "list", "compare", "gate", "check", "replace"}

PhaseOfWork ==
  /\ AtWork => phase = "busy"
  /\ opPc \in {"idle", "release"} => phase # "busy"

\* From the call to the start of its own sync, preflight has none at work.
NoneAtWorkBefore ==
  pfPc \in {"call", "restore", "restore_lock", "restore_write", "spawn", "skip"}
    => ~(opKind = "prelaunch" /\ AtWork)

\* One slot at most has a restore queued, and no other has been restored.
OneRestore ==
  /\ \A s, t \in queued : s = t
  /\ queued # {} => \A t \in Slots : saves[t] = "restored" => t \in queued

SnapshotKnowsRestore ==
  snapshot # Absent => \A t \in Slots : saves[t] = "restored" => snapshot[t] = "restored"

SeenKnowsRestore ==
  opKind = "prelaunch" /\ opPc \in {"compare", "gate", "check", "replace"}
    => \A t \in Slots : saves[t] = "restored" => opSeen[t] = "restored"

\* The slot at hand is a slot.
SlotAtHand == opPc \in {"gate", "check", "replace"} => opSlot \in Slots

JInv ==
  /\ PhaseOfWork
  /\ NoneAtWorkBefore
  /\ OneRestore
  /\ SnapshotKnowsRestore
  /\ SeenKnowsRestore
  /\ SlotAtHand

LEMMA InitJInv == Init => JInv
BY DEF Init, JInv, PhaseOfWork, AtWork, NoneAtWorkBefore, OneRestore, SnapshotKnowsRestore,
       SeenKnowsRestore, SlotAtHand

LEMMA StepJInv == IInv /\ JInv /\ [Next]_vars => JInv'
<1> SUFFICES ASSUME IInv, JInv, [Next]_vars PROVE JInv'
  OBVIOUS
<1>t. TypeOK
  BY DEF IInv
<1>l. LaneFree <=> opPc = "idle"
  BY DEF IInv, LaneIdle
<1> USE <1>t, <1>l, SlotsAssumption
    DEF JInv, PhaseOfWork, AtWork, NoneAtWorkBefore, OneRestore, SnapshotKnowsRestore,
        SeenKnowsRestore, SlotAtHand, LaneFree, Sticky, lane, pf
<1>1. CASE StartOperation
  BY <1>1 DEF StartOperation, TakeLane, OpKinds, SyncKinds
<1>2. CASE LaneStep
  <2>1. CASE Session     BY <2>1 DEF Session, FailTo
  <2>2. CASE List
    <3>1. UNCHANGED << saves, queued, pfPc, opKind, opSlot >> /\ phase' = "busy" /\ opPc = "list"
      BY <2>2 DEF List, FailTo
    <3>2. CASE opPc' = "settle_err" /\ UNCHANGED snapshot
      BY <3>1, <3>2
    <3>3. CASE ~(opPc' = "settle_err" /\ UNCHANGED snapshot)
      <4>1. /\ opKind = "prelaunch" => snapshot # Absent
            /\ opSeen' = IF opKind = "prelaunch" THEN snapshot ELSE saves
            /\ snapshot' = IF opKind = "prelaunch" THEN Absent ELSE snapshot
            /\ opPc' \in {"settle_err", "compare"}
        BY <2>2, <3>3 DEF List, FailTo
      <4>2. SeenKnowsRestore' /\ SnapshotKnowsRestore'
        BY <3>1, <4>1
      <4> QED BY <3>1, <4>1, <4>2
    <3> QED BY <3>2, <3>3
  <2>3. CASE Compare
    <3>1. opTodo \subseteq Slots
      BY DEF TypeOK
    <3> QED BY <2>3, <3>1 DEF Compare, FailTo
  <2>4. CASE Conclude    BY <2>4 DEF Conclude, FailTo
  <2>5. CASE PullLock    BY <2>5 DEF PullLock
  <2>6. CASE PullCheck   BY <2>6 DEF PullCheck, Refuse
  <2>7. CASE PullReplace
    <3>1. \A t \in Slots : saves'[t] = "restored" => saves[t] = "restored"
      BY <2>7 DEF PullReplace, TypeOK
    <3> QED BY <2>7, <3>1 DEF PullReplace, Refuse
  <2>8. CASE Settle      BY <2>8 DEF Settle
  <2>9. CASE ReleaseLane BY <2>9 DEF ReleaseLane
  <2> QED BY <1>2, <2>1, <2>2, <2>3, <2>4, <2>5, <2>6, <2>7, <2>8, <2>9 DEF LaneStep
<1>3. CASE PreflightStep
  <2>1. CASE PreflightCall  BY <2>1 DEF PreflightCall
  <2>2. CASE RestoreVerify  BY <2>2 DEF RestoreVerify, PfGoto
  <2>3. CASE RestoreLock    BY <2>3 DEF RestoreLock, PfGoto
  \* the restored slot is the one whose entry is replaced; no prelaunch sync
  \* holds an older entry
  <2>4. CASE RestoreWrite
    <3>1. CASE UNCHANGED << saves, snapshot, queued >>
      BY <2>4, <3>1 DEF RestoreWrite, PfGoto
    <3>2. CASE /\ \E s \in queued : saves' = [saves EXCEPT ![s] = "late"]
               /\ UNCHANGED << snapshot, queued >>
      <4>1. \A t \in Slots : saves'[t] = "restored" => saves[t] = "restored"
        BY <3>2 DEF TypeOK
      <4> QED BY <2>4, <3>2, <4>1 DEF RestoreWrite, PfGoto
    <3>3. CASE ~ \/ UNCHANGED << saves, snapshot, queued >>
                 \/ /\ UNCHANGED << snapshot, queued >>
                    /\ \E s \in queued : saves' = [saves EXCEPT ![s] = "late"]
      <4>1. PICK s \in queued :
              /\ saves' = [saves EXCEPT ![s] = "restored"]
              /\ snapshot' = [IF snapshot = Absent THEN [t \in Slots |-> NoEntry] ELSE snapshot
                                EXCEPT ![s] = "restored"]
              /\ queued' \in {{}, queued}
        BY <2>4, <3>3 DEF RestoreWrite
      <4>2. s \in Slots
        BY DEF TypeOK
      <4>3. \A t \in Slots : saves'[t] = "restored" => t = s
        BY <4>1, <4>2 DEF TypeOK
      <4>4. snapshot'[s] = "restored"
        BY <4>1, <4>2 DEF TypeOK
      <4>5. SnapshotKnowsRestore' /\ OneRestore'
        BY <4>1, <4>3, <4>4
      <4>6. SeenKnowsRestore'
        BY <2>4 DEF RestoreWrite, PfGoto
      <4> QED BY <2>4, <4>5, <4>6 DEF RestoreWrite, PfGoto
    <3> QED BY <3>1, <3>2, <3>3
  <2>5. CASE SpawnPrelaunch BY <2>5 DEF SpawnPrelaunch, TakeLane, PfGoto
  <2>6. CASE SkipPreflight  BY <2>6 DEF SkipPreflight
  <2>7. CASE PollEnds       BY <2>7 DEF PollEnds, PfGoto
  <2>8. CASE BarrierLock    BY <2>8 DEF BarrierLock, PfGoto
  <2>9. CASE BarrierClear   BY <2>9 DEF BarrierClear
  \* the retry wants a phase that no operation at work shows
  <2>10. CASE PreflightEnd  BY <2>10 DEF PreflightEnd, TransientClose
  <2> QED BY <1>3, <2>1, <2>2, <2>3, <2>4, <2>5, <2>6, <2>7, <2>8, <2>9, <2>10
          DEF PreflightStep
<1>4. CASE UNCHANGED vars
  BY <1>4 DEF vars
<1> QED BY <1>1, <1>2, <1>3, <1>4 DEF Next

LEMMA BothInductive == Spec => [](IInv /\ JInv)
BY InitIInv, StepIInv, InitJInv, StepJInv, PTL DEF Spec

\* The prelaunch sync replaces a restored save only when it has compared the
\* restored bytes (apply_pending_restore's last write to preflight_saves).
THEOREM RestoreIsSeen == Spec => []PrelaunchSeesRestore
<1>1. IInv /\ JInv => PrelaunchSeesRestore
  BY DEF JInv, SeenKnowsRestore, SlotAtHand, PrelaunchSeesRestore, Replacing
<1> QED BY BothInductive, <1>1, PTL

\* spawn_operation publishes the verdict before it frees the lane.
THEOREM FreeMeansSettled == Spec => []FreeLaneIsSettled
<1>1. IInv /\ JInv => FreeLaneIsSettled
  BY DEF IInv, LaneIdle, JInv, PhaseOfWork, FreeLaneIsSettled
<1> QED BY BothInductive, <1>1, PTL

-----------------------------------------------------------------------------
(***************************************************************************)
(* The safety half of PreflightReturns and LaneIsFreed.  Every step of a   *)
(* thread brings it nearer to its end, by a measure no other thread can    *)
(* move; and a thread that waits for the guard waits for one that does     *)
(* not.  What is left to fairness is that threads take their steps.        *)
(***************************************************************************)

\* How far the preflight thread has to go in the call it is in.
PfAhead ==
  [pc \in PfPcs |->
     CASE pc = "call"          -> 9
       [] pc = "restore"       -> 8
       [] pc = "restore_lock"  -> 7
       [] pc = "restore_write" -> 6
       [] pc = "spawn"         -> 5
       [] pc = "poll"          -> 4
       [] pc = "lock"          -> 3
       [] pc \in {"clear", "skip"} -> 2
       [] pc = "ended"         -> 1
       [] pc = "returned"      -> 0]

\* A first call may be followed by a second one, of fewer than ten steps.
PfLeft == 10 * (2 - pfCall) + PfAhead[pfPc]

\* How far the task on the lane has to go: four steps for each slot that it
\* may still replace, which before the listing are all of them.
LaneLeft ==
  LET slots == Cardinality(IF opPc \in {"session", "list"} THEN Slots ELSE opTodo)
  IN  CASE opPc = "session" -> 4 * slots + 5
        [] opPc = "list"    -> 4 * slots + 4
        [] opPc = "compare" -> 4 * slots + 3
        [] opPc = "gate"    -> 4 * slots + 2
        [] opPc = "check"   -> 4 * slots + 1
        [] opPc = "replace" -> 4 * slots
        [] opPc \in {"settle_ok", "settle_err"} -> 2
        [] opPc = "release" -> 1
        [] opPc = "idle"    -> 0

\* The slot being replaced is one that is still to do.
SlotToDo == opPc \in {"gate", "check", "replace"} => opSlot \in opTodo

\* Who wants the guard; who has it and is about to give it up.
LaneWaits      == opPc = "gate"
PreflightWaits == pfPc \in {"restore_lock", "lock"}

NobodyWaitsOnAWaiter ==
  /\ LaneWaits /\ guard # "free" => guard = "preflight" /\ ~PreflightWaits
  /\ PreflightWaits /\ guard # "free" => guard = "lane" /\ ~LaneWaits

\* The guard is never wanted by its holder, nor by two threads that wait for
\* each other: pull_one, apply_pending_restore and the end of preflight hold
\* it over straight-line code.
THEOREM WaitersAreNotAwaited == Spec => []NobodyWaitsOnAWaiter
<1>1. IInv => NobodyWaitsOnAWaiter
  BY DEF IInv, TypeOK, GuardHolder, NobodyWaitsOnAWaiter, LaneWaits, PreflightWaits
<1> QED BY Inductive, <1>1, PTL

\* Each step of the preflight thread is one of a bounded number, the retry
\* included, and no step of another thread adds to them.
PreflightAdvances == IF PreflightStep THEN PfLeft' < PfLeft ELSE UNCHANGED PfLeft

LEMMA PreflightMoves == TypeOK /\ PreflightStep => PfLeft' < PfLeft
<1> SUFFICES ASSUME TypeOK, PreflightStep PROVE PfLeft' < PfLeft
  OBVIOUS
<1>1. PfAhead["call"] = 9 /\ PfAhead["restore"] = 8 /\ PfAhead["restore_lock"] = 7
      /\ PfAhead["restore_write"] = 6 /\ PfAhead["spawn"] = 5 /\ PfAhead["poll"] = 4
      /\ PfAhead["lock"] = 3 /\ PfAhead["clear"] = 2 /\ PfAhead["skip"] = 2
      /\ PfAhead["ended"] = 1 /\ PfAhead["returned"] = 0
  BY DEF PfAhead, PfPcs
<1>2. pfCall = 1 \/ pfCall = 2
  BY DEF TypeOK
<1> USE <1>1, <1>2 DEF PfLeft, PfGoto
<1>3. CASE PreflightCall  BY <1>3 DEF PreflightCall
<1>4. CASE RestoreVerify  BY <1>4 DEF RestoreVerify
<1>5. CASE RestoreLock    BY <1>5 DEF RestoreLock
<1>6. CASE RestoreWrite   BY <1>6 DEF RestoreWrite
<1>7. CASE SpawnPrelaunch BY <1>7 DEF SpawnPrelaunch
<1>8. CASE SkipPreflight  BY <1>8 DEF SkipPreflight
<1>9. CASE PollEnds       BY <1>9 DEF PollEnds
<1>10. CASE BarrierLock   BY <1>10 DEF BarrierLock
<1>11. CASE BarrierClear  BY <1>11 DEF BarrierClear
<1>12. CASE PreflightEnd  BY <1>12 DEF PreflightEnd
<1> QED BY <1>3, <1>4, <1>5, <1>6, <1>7, <1>8, <1>9, <1>10, <1>11, <1>12 DEF PreflightStep

THEOREM PreflightIsBounded == Spec => [][PreflightAdvances]_vars
<1>1. TypeOK /\ [Next]_vars => [PreflightAdvances]_vars
  <2> SUFFICES ASSUME TypeOK, Next, ~PreflightStep PROVE UNCHANGED PfLeft
    BY PreflightMoves DEF PreflightAdvances
  <2>1. UNCHANGED << pfPc, pfCall >>
    <3>1. CASE StartOperation
      BY <3>1 DEF StartOperation, pf
    <3>2. CASE LaneStep
      BY <3>2 DEF LaneStep, Session, List, Compare, Conclude, PullLock, PullCheck,
                  PullReplace, Settle, ReleaseLane, pf
    <3> QED BY <3>1, <3>2 DEF Next
  <2> QED BY <2>1 DEF PfLeft
<1> QED BY TypeCorrect, <1>1, PTL DEF Spec

LEMMA StepSlotToDo == IInv /\ SlotToDo /\ [Next]_vars => SlotToDo'
<1> SUFFICES ASSUME IInv, SlotToDo, [Next]_vars PROVE SlotToDo'
  OBVIOUS
<1> USE DEF SlotToDo, lane
<1>l. LaneFree <=> opPc = "idle"
  BY DEF IInv, LaneIdle
<1>1. CASE StartOperation
  BY <1>1 DEF StartOperation, TakeLane
<1>2. CASE LaneStep
  BY <1>2 DEF LaneStep, Session, List, Compare, Conclude, PullLock, PullCheck, PullReplace,
              Settle, ReleaseLane, FailTo, Refuse
<1>3. CASE SpawnPrelaunch
  BY <1>3 DEF SpawnPrelaunch, TakeLane
<1>4. CASE PreflightStep /\ ~SpawnPrelaunch
  BY <1>4 DEF PreflightStep, PreflightCall, RestoreVerify, RestoreLock, RestoreWrite,
              SkipPreflight, PollEnds, BarrierLock, BarrierClear, PreflightEnd
<1>5. CASE UNCHANGED vars
  BY <1>5 DEF vars
<1> QED BY <1>1, <1>2, <1>3, <1>4, <1>5 DEF Next

\* Each step of the task on the lane is one of a bounded number, and no step
\* of the preflight thread or of the callers adds to them.
LaneAdvances ==
  opKind # "none" => IF LaneStep THEN LaneLeft' < LaneLeft ELSE UNCHANGED LaneLeft

LEMMA LaneMoves ==
  ASSUME IsFiniteSet(Slots), TypeOK, SlotToDo, LaneStep
  PROVE  LaneLeft' < LaneLeft
<1> DEFINE all  == Cardinality(Slots)
           todo == Cardinality(opTodo)
<1>1. all \in Nat /\ todo \in Nat
  <2>1. IsFiniteSet(opTodo)
    BY FS_Subset DEF TypeOK
  <2> QED BY <2>1, FS_CardinalityType
<1> HIDE DEF all, todo
<1> USE <1>1 DEF LaneLeft, FailTo, Refuse
<1>2. CASE Session
  BY <1>2 DEF Session, all
<1>3. CASE List
  <2>1. CASE opPc' = "settle_err"
    BY <1>3, <2>1 DEF List, all
  <2>2. CASE opPc' # "settle_err"
    <3>1. opPc' = "compare" /\ opTodo' \in SUBSET Slots
      BY <1>3, <2>2 DEF List
    <3>2. Cardinality(opTodo') \in Nat /\ Cardinality(opTodo') <= all
      BY <3>1, FS_Subset, FS_CardinalityType DEF all
    <3> QED BY <1>3, <3>1, <3>2 DEF List, all
  <2> QED BY <2>1, <2>2
<1>4. ASSUME NEW s \in opTodo
      PROVE  todo >= 1 /\ Cardinality(opTodo \ {s}) = todo - 1
  <2>1. IsFiniteSet(opTodo)
    BY FS_Subset DEF TypeOK
  <2>2. todo # 0
    BY <2>1, FS_EmptySet DEF todo
  <2>3. Cardinality(opTodo \ {s}) = todo - 1
    BY <2>1, FS_RemoveElement DEF todo
  <2> QED BY <1>1, <2>2, <2>3
<1>5. CASE Compare
  <2>1. PICK s \in opTodo : \/ opPc' = "settle_err"
                            \/ opPc' = "gate" /\ UNCHANGED opTodo
                            \/ UNCHANGED opPc /\ opTodo' = opTodo \ {s}
    BY <1>5 DEF Compare
  <2> QED BY <1>4, <1>5, <2>1 DEF Compare, todo
<1>6. CASE Conclude
  BY <1>6 DEF Conclude, todo
<1>7. CASE PullLock
  BY <1>7 DEF PullLock, todo
<1>8. CASE PullCheck
  <2>1. opSlot \in opTodo /\ opPc = "check"
    BY <1>8 DEF PullCheck, SlotToDo
  <2>2. todo >= 1
    BY <2>1, <1>4
  <2>3. opPc' = "replace" \/ opPc' = "settle_err"
    BY <1>8 DEF PullCheck
  <2> QED BY <1>8, <2>1, <2>2, <2>3 DEF PullCheck, todo
<1>9. CASE PullReplace
  <2>1. opSlot \in opTodo /\ opPc = "replace"
    BY <1>9 DEF PullReplace, SlotToDo
  <2>2. todo >= 1 /\ Cardinality(opTodo \ {opSlot}) = todo - 1
    BY <2>1, <1>4
  <2>3. \/ opPc' = "compare" /\ opTodo' = opTodo \ {opSlot}
        \/ opPc' = "settle_err"
    BY <1>9 DEF PullReplace
  <2> QED BY <2>1, <2>2, <2>3 DEF todo
<1>10. CASE Settle
  BY <1>10 DEF Settle
<1>11. CASE ReleaseLane
  BY <1>11 DEF ReleaseLane
<1> QED BY <1>2, <1>3, <1>5, <1>6, <1>7, <1>8, <1>9, <1>10, <1>11 DEF LaneStep

THEOREM LaneIsBounded ==
  ASSUME IsFiniteSet(Slots)
  PROVE  Spec => [][LaneAdvances]_vars
<1>1. IInv /\ SlotToDo /\ [Next]_vars => [LaneAdvances]_vars
  <2> SUFFICES ASSUME IInv, SlotToDo, Next, opKind # "none", ~LaneStep
               PROVE  UNCHANGED LaneLeft
    BY LaneMoves DEF LaneAdvances, IInv
  <2>1. UNCHANGED << opPc, opTodo >>
    <3>1. CASE StartOperation
      BY <3>1 DEF StartOperation, TakeLane, LaneFree
    <3>2. CASE PreflightStep
      BY <3>2 DEF PreflightStep, PreflightCall, RestoreVerify, RestoreLock, RestoreWrite,
                  SpawnPrelaunch, SkipPreflight, PollEnds, BarrierLock, BarrierClear,
                  PreflightEnd, TakeLane, LaneFree, lane
    <3> QED BY <3>1, <3>2 DEF Next
  <2> QED BY <2>1 DEF LaneLeft
<1>2. Init => SlotToDo
  BY DEF Init, SlotToDo
<1> QED BY Inductive, StepSlotToDo, <1>1, <1>2, PTL DEF Spec
=============================================================================
