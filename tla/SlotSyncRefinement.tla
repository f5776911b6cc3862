------------------------- MODULE SlotSyncRefinement -------------------------
(***************************************************************************)
(* SlotSync implements SaveVault, for any slots, versions and plans: no    *)
(* content is invented, and a file is only replaced when what it holds has *)
(* a backup, or its owner has rewritten it meanwhile.                      *)
(***************************************************************************)
EXTENDS SlotSyncProofs

USE ConstantsAssumption

-----------------------------------------------------------------------------
(* What the promise rests on *)

Known(s) == onPhone[s] \cup onSteam[s]

RestoreKnown(st) == st.restore # None => st.restore.v \in Known(st.restore.slot)

\* The Steam file is the one enumerated, or another computer has touched it.
Fresh(o, s) == remote[s] = o.listed[s] \/ <<"steam", s>> \in touched

OpKept(o) ==
  /\ RestoreKnown(o.mem)
  /\ o.pc \in {"push_assert", "push_upload"} => o.staged \in onPhone[o.slot]
  /\ o.kind \in ForceKinds => o.todo = {}
  /\ o.pc \in {"enter", "list"} => o.kind \notin ForceKinds
  /\ \A s \in o.todo : Fresh(o, s) \/ (o.pc = "push_verify" /\ s = o.slot)
  /\ o.pc \in {"download", "force_download"} => Fresh(o, o.slot)
  /\ o.pc \in {"decide", "push", "push_assert"} /\ o.listed[o.slot] # None =>
       /\ o.bytes.v \in onSteam[o.slot]
       /\ o.bytes = o.listed[o.slot] \/ <<"steam", o.slot>> \in touched
  /\ o.pc = "pull_write" => local[o.slot] \in vault[o.slot] \/ <<"phone", o.slot>> \in touched
  /\ o.pc = "push_upload" =>
       ContentOf(remote[o.slot]) \subseteq vault[o.slot] \/ <<"steam", o.slot>> \in touched

Kept ==
  /\ \A s \in Slots : vault[s] \subseteq Known(s)
  /\ RestoreKnown(disk) /\ RestoreKnown(pfMem)
  /\ op # None => OpKept(op)

\* The save that a queued restore replaces is backed up, or the game rewrites it
\* meanwhile; no pull replaces it between the backup and the restore.
RestoreKept ==
  pf = "restore_write" =>
    /\ \/ local[pfMem.restore.slot] \in vault[pfMem.restore.slot]
       \/ <<"phone", pfMem.restore.slot>> \in touched
    /\ op # None => op.pc # "pull_write"

LEMMA KnownGrows ==
  ASSUME Typed, Next
  PROVE  /\ \A s \in Slots : Known(s) \subseteq Known(s)'
         /\ \A s \in Slots : onPhone[s] \subseteq onPhone'[s] /\ onSteam[s] \subseteq onSteam'[s]
BY HistoriesGrow DEF Grown, Known

\* Known, of a state as it was, in the histories as they are after the step
StaysKnown(st) ==
  st.restore # None =>
    st.restore.v \in onPhone'[st.restore.slot] \cup onSteam'[st.restore.slot]

LEMMA RestoreStays ==
  ASSUME Typed, Next, NEW st \in State, RestoreKnown(st)
  PROVE  StaysKnown(st)
<1> SUFFICES ASSUME st.restore # None
             PROVE  st.restore.v \in onPhone'[st.restore.slot] \cup onSteam'[st.restore.slot]
  BY DEF StaysKnown
<1>1. st.restore.slot \in Slots
  BY DEF State
<1> QED BY <1>1, KnownGrows DEF RestoreKnown, Known

LEMMA KeptWorld ==
  ASSUME Typed, Had, Kept, World
  PROVE  Kept'
<1>1. \A s \in Slots : Known(s) \subseteq Known(s)' /\ onPhone[s] \subseteq onPhone'[s]
                       /\ onSteam[s] \subseteq onSteam'[s]
  BY KnownGrows DEF Next
<1>2. disk \in State /\ pfMem \in State
  BY DEF Typed, TypeOK
<1>3. CASE Relaunch
  <2>1. UNCHANGED << disk, vault, onPhone, onSteam >> /\ op' = None /\ pfMem' = EmptyState
    BY <1>3 DEF Relaunch, history
  <2> QED BY <2>1, EmptyType DEF Kept, RestoreKnown, Known
<1>4. ASSUME UNCHANGED << vault, disk, pfMem, op >>, World, op # None => OpKept(op)' PROVE Kept'
  <2>1. RestoreKnown(disk)' /\ RestoreKnown(pfMem)'
    BY <1>2, <1>4, RestoreStays DEF Kept, RestoreKnown, StaysKnown, Known, Next
  <2>2. (\A s \in Slots : vault[s] \subseteq Known(s))'
    BY <1>1, <1>4 DEF Kept
  <2> QED BY <1>4, <2>1, <2>2 DEF Kept
<1>5. op # None => /\ op \in Operation /\ op.mem \in State /\ op.todo \subseteq Slots
                   /\ op.pc \in SlotPcs => op.slot \in Slots
                   /\ OpKept(op)
  BY TypesInUse DEF Kept
<1>6. ASSUME op # None, UNCHANGED op PROVE RestoreKnown(op.mem)'
  BY <1>5, <1>6, RestoreStays DEF OpKept, RestoreKnown, StaysKnown, Known, Next
<1>7. ASSUME NEW s \in Slots, GameSave(s) PROVE Kept'
  <2>1. /\ UNCHANGED << vault, disk, pfMem, op, remote >>
        /\ touched' = touched \cup {<<"phone", s>>}
        /\ \A t \in Slots \ {s} : local'[t] = local[t]
    BY <1>7 DEF GameSave, engine, Typed, TypeOK
  <2>2. ASSUME op # None PROVE OpKept(op)'
    <3>1. RestoreKnown(op.mem)'
      BY <1>6, <2>1, <2>2
    <3>2. op.pc \in {"push_assert", "push_upload"} => op.staged \in onPhone'[op.slot]
      BY <1>1, <1>5, <2>2 DEF OpKept, SlotPcs
    <3>3. /\ \A t \in op.todo : Fresh(op, t)' \/ (op.pc = "push_verify" /\ t = op.slot)
          /\ op.pc \in {"download", "force_download"} => Fresh(op, op.slot)'
      BY <1>5, <2>1, <2>2 DEF OpKept, Fresh
    <3>4. op.pc \in {"decide", "push", "push_assert"} /\ op.listed[op.slot] # None =>
            /\ op.bytes.v \in onSteam'[op.slot]
            /\ op.bytes = op.listed[op.slot] \/ <<"steam", op.slot>> \in touched'
      BY <1>1, <1>5, <2>1, <2>2 DEF OpKept, SlotPcs
    <3>5. op.pc = "pull_write" =>
            local'[op.slot] \in vault'[op.slot] \/ <<"phone", op.slot>> \in touched'
      BY <1>5, <2>1, <2>2 DEF OpKept, SlotPcs
    <3>6. op.pc = "push_upload" =>
            ContentOf(remote'[op.slot]) \subseteq vault'[op.slot] \/ <<"steam", op.slot>> \in touched'
      BY <1>5, <2>1, <2>2 DEF OpKept
    <3> QED BY <1>5, <2>1, <2>2, <3>1, <3>2, <3>3, <3>4, <3>5, <3>6 DEF OpKept, Fresh
  <2> QED BY <1>4, <1>7, <2>1, <2>2 DEF World
<1>8. ASSUME NEW s \in Slots, PeerSave(s) PROVE Kept'
  <2>1. /\ UNCHANGED << vault, disk, pfMem, op, local >>
        /\ touched' = touched \cup {<<"steam", s>>}
        /\ \A t \in Slots \ {s} : remote'[t] = remote[t]
    <3>1. PICK f : remote' = [remote EXCEPT ![s] = f]
      BY <1>8 DEF PeerSave
    <3> QED BY <1>8, <3>1 DEF PeerSave, engine, Typed, TypeOK
  <2>2. ASSUME op # None PROVE OpKept(op)'
    <3>1. RestoreKnown(op.mem)'
      BY <1>6, <2>1, <2>2
    <3>2. op.pc \in {"push_assert", "push_upload"} => op.staged \in onPhone'[op.slot]
      BY <1>1, <1>5, <2>2 DEF OpKept, SlotPcs
    <3>3. /\ \A t \in op.todo : Fresh(op, t)' \/ (op.pc = "push_verify" /\ t = op.slot)
          /\ op.pc \in {"download", "force_download"} => Fresh(op, op.slot)'
      BY <1>5, <2>1, <2>2 DEF OpKept, Fresh, SlotPcs
    <3>4. op.pc \in {"decide", "push", "push_assert"} /\ op.listed[op.slot] # None =>
            /\ op.bytes.v \in onSteam'[op.slot]
            /\ op.bytes = op.listed[op.slot] \/ <<"steam", op.slot>> \in touched'
      BY <1>1, <1>5, <2>1, <2>2 DEF OpKept, SlotPcs
    <3>5. op.pc = "pull_write" =>
            local'[op.slot] \in vault'[op.slot] \/ <<"phone", op.slot>> \in touched'
      BY <1>5, <2>1, <2>2 DEF OpKept
    <3>6. op.pc = "push_upload" =>
            ContentOf(remote'[op.slot]) \subseteq vault'[op.slot] \/ <<"steam", op.slot>> \in touched'
      BY <1>5, <2>1, <2>2 DEF OpKept, SlotPcs
    <3> QED BY <1>5, <2>1, <2>2, <3>1, <3>2, <3>3, <3>4, <3>5, <3>6 DEF OpKept, Fresh
  <2> QED BY <1>4, <1>8, <2>1, <2>2 DEF World
<1> QED BY <1>3, <1>7, <1>8 DEF World

LEMMA KeptBegin ==
  ASSUME Typed, Kept, NEW kind, NEW mem \in State, NEW pc, NEW s, Begin(kind, mem, pc, s),
         RestoreKnown(mem),
         \/ pc \in {"enter", "queue_save"} /\ kind \notin ForceKinds
         \/ pc = "force_list"
  PROVE  Kept'
<1>1. UNCHANGED << local, remote, vault, disk, pfMem, onPhone, onSteam >>
  BY DEF Begin
<1>2. op'.kind = kind /\ op'.pc = pc /\ op'.mem = mem /\ op'.todo = {}
  BY DEF Begin
<1>3. OpKept(op)'
  BY <1>1, <1>2 DEF OpKept, RestoreKnown, Known
<1> QED BY <1>1, <1>3 DEF Kept, RestoreKnown, Known

LEMMA KeptUser ==
  ASSUME Typed, Kept, User
  PROVE  Kept'
<1>0. RestoreKnown(EmptyState)
  BY EmptyType DEF RestoreKnown
<1>1. CASE StartSync
  <2>1. PICK kind \in {"auto", "manual"} : Begin(kind, EmptyState, "enter", None)
    BY <1>1 DEF StartSync, BeginSync
  <2>2. kind \notin ForceKinds
    BY DEF ForceKinds
  <2> QED BY <1>0, <2>1, <2>2, KeptBegin, EmptyType
<1>2. ASSUME NEW s \in Slots, StartForce(s) PROVE Kept'
  <2>1. PICK kind \in ForceKinds : Begin(kind, EmptyState, "force_list", s)
    BY <1>2 DEF StartForce
  <2> QED BY <1>0, <2>1, KeptBegin, EmptyType
<1>3. ASSUME NEW s \in Slots, QueueRestore(s) PROVE Kept'
  <2> DEFINE mem(v) == [disk EXCEPT !.restore = [slot |-> s, v |-> v]]
  <2>1. PICK v \in vault[s] \cap Versions : Begin("restore", mem(v), "queue_save", s)
    BY <1>3 DEF QueueRestore
  <2>2. mem(v) \in State /\ mem(v).restore = [slot |-> s, v |-> v]
    BY <2>1 DEF Typed, TypeOK, State
  <2>3. RestoreKnown(mem(v))
    BY <2>1, <2>2 DEF Kept, RestoreKnown
  <2>4. "restore" \notin ForceKinds
    BY DEF ForceKinds
  <2> HIDE DEF mem
  <2> QED BY <2>1, <2>2, <2>3, <2>4, KeptBegin
<1> QED BY <1>1, <1>2, <1>3 DEF User

LEMMA KeptPreflight ==
  ASSUME Typed, Had, Kept, RestoreKept, Preflight
  PROVE  Kept'
<1>1. CASE StartPrelaunch
  <2>1. Begin("prelaunch", EmptyState, "enter", None) /\ "prelaunch" \notin ForceKinds
    BY <1>1 DEF StartPrelaunch, BeginSync, ForceKinds
  <2>2. RestoreKnown(EmptyState)
    BY EmptyType DEF RestoreKnown
  <2> QED BY <2>1, <2>2, KeptBegin, EmptyType
<1>2. CASE RestoreBackup
  <2> DEFINE s == pfMem.restore.slot
  <2>1. s \in Slots /\ s \in plan.slots
    BY <1>2, TypesInUse DEF RestoreBackup, Typed, TypeOK, Shape, RestoreInUse
  <2>2. /\ UNCHANGED << local, remote, disk, op, touched, onPhone, onSteam >>
        /\ pfMem' \in {pfMem, EmptyState}
        /\ vault' = [vault EXCEPT ![s] = @ \cup {local[s]}] \/ UNCHANGED vault
        /\ op # None => op.pc # "pull_write"
    BY <1>2 DEF RestoreBackup, SkipRestore, history
  <2>3. local[s] \in Known(s)
    BY <2>1, TypesInUse DEF Had, FilesHad, SeenOnPhone, Known
  <2> HIDE DEF s
  <2>4. \A t \in Slots : vault[t] \subseteq vault'[t] /\ vault'[t] \subseteq Known(t)
    BY <2>1, <2>2, <2>3 DEF Kept, Typed, TypeOK
  <2>5. RestoreKnown(disk)' /\ RestoreKnown(pfMem)'
    BY <2>2, EmptyType DEF Kept, RestoreKnown, Known
  <2>6. ASSUME op # None PROVE OpKept(op)'
    <3>1. OpKept(op) /\ (op.pc \in SlotPcs => op.slot \in Slots)
      BY <2>6, TypesInUse DEF Kept
    <3>2. op.pc = "push_upload" =>
            ContentOf(remote[op.slot]) \subseteq vault'[op.slot]
            \/ <<"steam", op.slot>> \in touched
      BY <2>4, <3>1 DEF OpKept, SlotPcs
    <3>3. RestoreKnown(op.mem)'
      BY <2>2, <3>1 DEF OpKept, RestoreKnown, Known
    <3> QED BY <2>2, <2>6, <3>1, <3>2, <3>3 DEF OpKept, Fresh
  <2>7. (\A t \in Slots : vault[t] \subseteq Known(t))'
    BY <2>2, <2>4 DEF Known
  <2> QED BY <2>2, <2>5, <2>6, <2>7 DEF Kept
<1>5. CASE RestoreWrite
  <2> DEFINE s == pfMem.restore.slot
             v == pfMem.restore.v
  <2>1. s \in Slots /\ v \in Versions
    BY <1>5 DEF RestoreWrite, Typed, TypeOK, Shape, State
  <2>2. /\ UNCHANGED << remote, vault, disk, op, touched >> /\ pfMem' \in {pfMem, EmptyState}
        /\ op # None => op.pc # "pull_write"
    BY <1>5 DEF RestoreWrite, SkipRestore, RestoreKept
  <2>3. CASE UNCHANGED << local, onPhone, onSteam >>
    <3>1. RestoreKnown(disk)' /\ RestoreKnown(pfMem)'
      BY <2>2, <2>3, EmptyType DEF Kept, RestoreKnown, Known
    <3> QED BY <2>2, <2>3, <3>1 DEF Kept, OpKept, Fresh, RestoreKnown, Known
  <2>4. CASE local' = [local EXCEPT ![s] = v] /\ SavedAs(s, v)
    <3>1. \A t \in Slots : /\ Known(t) \subseteq Known(t)'
                           /\ onPhone[t] \subseteq onPhone'[t] /\ onSteam[t] \subseteq onSteam'[t]
      BY KnownGrows DEF Next
    <3> HIDE DEF s, v
    <3>3. (\A t \in Slots : vault[t] \subseteq Known(t))'
      BY <2>2, <3>1 DEF Kept
    <3>4. RestoreKnown(disk)' /\ RestoreKnown(pfMem)'
      BY <2>2, RestoreStays, EmptyType DEF Kept, RestoreKnown, StaysKnown, Known, Next, Typed, TypeOK
    <3>5. ASSUME op # None PROVE OpKept(op)'
      <4>1. op.mem \in State /\ (op.pc \in SlotPcs => op.slot \in Slots) /\ OpKept(op)
        BY <3>5, TypesInUse DEF Kept
      <4>2. RestoreKnown(op.mem)'
        BY <2>2, <4>1, RestoreStays DEF OpKept, RestoreKnown, StaysKnown, Known, Next
      <4>3. op.pc = "push_upload" =>
              ContentOf(remote[op.slot]) \subseteq vault'[op.slot]
              \/ <<"steam", op.slot>> \in touched
        BY <2>2, <4>1 DEF OpKept
      <4>4. /\ op.pc \in {"push_assert", "push_upload"} => op.staged \in onPhone'[op.slot]
            /\ op.pc \in {"decide", "push", "push_assert"} /\ op.listed[op.slot] # None =>
                 op.bytes.v \in onSteam'[op.slot]
        BY <3>1, <4>1 DEF OpKept, SlotPcs
      <4> QED BY <2>2, <3>5, <4>1, <4>2, <4>3, <4>4 DEF OpKept, Fresh
    <3> QED BY <2>2, <3>3, <3>4, <3>5 DEF Kept
  <2> QED BY <1>5, <2>3, <2>4 DEF RestoreWrite
<1>3. CASE RestoreSave
  <2>1. [pfMem EXCEPT !.restore = None].restore = None
    BY DEF Typed, TypeOK, State
  <2>2. /\ UNCHANGED << local, remote, vault, op, touched, onPhone, onSteam >>
        /\ pfMem' = EmptyState
        /\ disk' = [pfMem EXCEPT !.restore = None] \/ UNCHANGED disk
    BY <1>3 DEF RestoreSave, history
  <2>3. RestoreKnown(disk)' /\ RestoreKnown(pfMem)'
    BY <2>1, <2>2, EmptyType DEF Kept, RestoreKnown, Known
  <2> QED BY <2>2, <2>3 DEF Kept, OpKept, Fresh, RestoreKnown, Known
<1>4. CASE PreflightOpen \/ RestoreLoad \/ PreflightSkip \/ PreflightClose
  <2>1. /\ UNCHANGED << local, remote, vault, disk, op, touched, onPhone, onSteam >>
        /\ pfMem' \in {pfMem, disk}
    BY <1>4 DEF PreflightOpen, RestoreLoad, PreflightSkip, PreflightClose, history
  <2> QED BY <2>1 DEF Kept, OpKept, Fresh, RestoreKnown, Known
<1> QED BY <1>1, <1>2, <1>3, <1>4, <1>5 DEF Preflight

LEMMA KeptOp ==
  ASSUME Typed, Kept, LaneStep, UNCHANGED << disk, pfMem >>,
         \/ UNCHANGED vault
         \/ \E s \in Slots : \E C \in SUBSET Known(s) : vault' = [vault EXCEPT ![s] = @ \cup C],
         op' # None => OpKept(op)'
  PROVE  Kept'
<1>1. RestoreKnown(disk)' /\ RestoreKnown(pfMem)'
  BY RestoreStays DEF Kept, RestoreKnown, StaysKnown, Known, Next, Typed, TypeOK
<1>2. (\A s \in Slots : vault[s] \subseteq Known(s))'
  BY KnownGrows DEF Kept, Next, Typed, TypeOK
<1> QED BY <1>1, <1>2 DEF Kept

LEMMA SettledKept ==
  ASSUME op # None, OpKept(op), UNCHANGED << remote, touched >>, NEW st, Settled(op', op, st),
         StaysKnown(st)
  PROVE  OpKept(op)'
BY DEF OpKept, Settled, Fresh, RestoreKnown, StaysKnown, Known, ForceKinds

LEMMA KeptLane ==
  ASSUME Typed, Had, Kept, LaneStep
  PROVE  Kept'
<1>1. op # None /\ UNCHANGED << pfMem, touched >>
  BY DEF LaneStep, InOp, OperationFails, SyncEnter, SyncBegin, SyncSlot, SyncDownload,
         SyncDecide, SyncSave, PullBackup, PullWrite, PushPrepare, PushAssert, PushUpload,
         PushVerify, QueueSave, ForceBegin, ForceDownload, ForceSave, history
<1>2. /\ op \in Operation /\ op.mem \in State /\ OpShape(op) /\ OpHad(op) /\ OpAsked(op)
      /\ OpKept(op) /\ op.todo \subseteq Slots
      /\ op.pc \in SlotPcs => op.slot \in plan.slots /\ op.slot \in Slots
  BY <1>1, TypesInUse DEF Had, Kept
<1>3. \A s \in plan.slots : s \in Slots /\ {local[s]} \subseteq Known(s)
  BY TypesInUse DEF Had, FilesHad, SeenOnPhone, Known
<1>4. StaysKnown(op.mem)
  BY <1>2, RestoreStays DEF OpKept, Next
<1>5. ASSUME NEW st, st.restore = op.mem.restore PROVE StaysKnown(st)
  BY <1>4, <1>5 DEF StaysKnown
<1>6. CASE OperationFails \/ SyncSave \/ QueueSave
  <2>1. op' = None /\ disk' \in {disk, op.mem} /\ UNCHANGED << vault, onPhone, onSteam >>
    BY <1>6 DEF OperationFails, Fail, SyncSave, QueueSave, history
  <2> QED BY <1>1, <1>2, <2>1 DEF Kept, OpKept, RestoreKnown, Known
<1>7. CASE SyncEnter
  <2>1. /\ op'.pc = "list" /\ op'.todo = op.todo /\ op'.mem = op.mem /\ op'.kind = op.kind
        /\ op'.listed = op.listed
    BY <1>2, <1>7 DEF SyncEnter, Goto, Operation, Pcs
  <2>2. UNCHANGED << remote, vault, disk, pfMem, touched, onPhone, onSteam >> /\ op.pc = "enter"
    BY <1>7 DEF SyncEnter, InOp, history
  <2>3. OpKept(op)'
    BY <1>2, <2>1, <2>2 DEF OpKept, Fresh, RestoreKnown, Known
  <2> QED BY <2>2, <2>3, KeptOp
<1>8. CASE SyncBegin
  <2>1. UNCHANGED << remote, vault, disk, pfMem, touched, onPhone, onSteam >> /\ op.pc = "list"
    BY <1>8 DEF SyncBegin, Fail, InOp, history
  <2>2. ASSUME op' # None PROVE OpKept(op)'
    <3>1. op'.pc = "slot" /\ op'.listed = remote /\ op'.mem = disk /\ op'.kind = op.kind
      BY <1>8, <2>2, BeginEffect
    <3> QED BY <1>2, <2>1, <3>1 DEF OpKept, Fresh, Kept, RestoreKnown, Known
  <2> QED BY <2>1, <2>2, KeptOp
<1>9. CASE SyncSlot
  <2>1. UNCHANGED << remote, disk, pfMem, touched, onPhone, onSteam >> /\ op.pc = "slot"
    BY <1>9 DEF SyncSlot, InOp, history
  <2>2. PICK s \in op.todo :
           \/ /\ vault' = [vault EXCEPT ![s] = @ \cup {local[s]}]
              /\ op'.pc = "slot" /\ op'.todo = op.todo \ {s} /\ Rest(op') = Rest(op)
           \/ /\ UNCHANGED vault
              /\ op'.pc = "download" /\ op'.slot = s /\ op'.todo = op.todo
              /\ Rest(op') = Rest(op)
    BY <1>9, SlotEffect
  <2>3. s \in Slots /\ {local[s]} \in SUBSET Known(s)
    BY <1>1, <1>3, TypesInUse
  <2>4. OpKept(op)'
    BY <1>2, <2>1, <2>2 DEF OpKept, Fresh, Rest, RestoreKnown, Known, ForceKinds
  <2> QED BY <2>1, <2>2, <2>3, <2>4, KeptOp
<1>10. CASE SyncDownload
  <2>1. UNCHANGED << remote, disk, pfMem, touched, onPhone, onSteam >> /\ op.pc = "download"
        /\ remote[op.slot] # None
    BY <1>10 DEF SyncDownload, Fail, InOp, history
  <2>2. op.slot \in Slots /\ remote[op.slot].v \in onSteam[op.slot]
    BY <1>2, <2>1 DEF SlotPcs, Had, FilesHad
  <2>3. \/ UNCHANGED vault
        \/ \E s \in Slots : \E C \in SUBSET Known(s) : vault' = [vault EXCEPT ![s] = @ \cup C]
    <3>1. CASE remote[op.slot].v = Corrupt
      <4>1. {Corrupt} \in SUBSET Known(op.slot)
        BY <2>2, <3>1 DEF Known
      <4>2. vault' = [vault EXCEPT ![op.slot] = @ \cup {Corrupt}]
        BY <1>10, <3>1 DEF SyncDownload
      <4> QED BY <2>2, <4>1, <4>2
    <3>2. CASE remote[op.slot].v # Corrupt
      BY <1>10, <3>2 DEF SyncDownload
    <3> QED BY <3>1, <3>2
  <2>4. ASSUME op' # None PROVE OpKept(op)'
    <3>1. /\ op'.pc = "decide" /\ op'.slot = op.slot /\ op'.todo = op.todo
          /\ op'.bytes = remote[op.slot] /\ Rest(op') = Rest(op)
      BY <1>10, <2>4, DownloadEffect
    <3> QED BY <1>2, <2>1, <2>2, <3>1 DEF OpKept, Fresh, Rest, RestoreKnown, Known
  <2> QED BY <2>1, <2>3, <2>4, KeptOp
<1>11. CASE SyncDecide
  <2>1. UNCHANGED << remote, disk, pfMem, touched, onPhone, onSteam >>
    BY <1>11 DEF SyncDecide, history
  <2>2. /\ op.slot \in plan.slots /\ op.slot \in Slots /\ op.pc = "decide"
        /\ Mine \in Versions \cup {None}
    BY <1>2, <1>11 DEF SyncDecide, InOp, SlotPcs, Mine, Operation
  <2>3. MemUnqueued.restore = op.mem.restore /\ MemConverged.restore = op.mem.restore
    <3>1. MemUnqueued \in State /\ MemUnqueued.restore = op.mem.restore
      BY <1>2, <2>2, PullInIs DEF MemUnqueued
    <3> QED BY <2>2, <3>1, BaseInIs DEF MemConverged
  <2>4. {local[op.slot], Theirs} \in SUBSET Known(op.slot)
    BY <1>2, <1>3, <2>2 DEF OpHad, Theirs, Known
  <2>5. ASSUME NEW st, st.restore = op.mem.restore, NEW pc \in {"pull", "push"},
               Moved(op', op, pc, st)
        PROVE  OpKept(op)'
    <3>1. StaysKnown(st)
      BY <1>5, <2>5
    <3> QED BY <1>2, <2>1, <2>2, <2>5, <3>1 DEF Moved, OpKept, Fresh, RestoreKnown, StaysKnown, Known
  <2>6. ASSUME NEW st, st.restore = op.mem.restore, Settled(op', op, st)
        PROVE  OpKept(op)'
    <3>1. StaysKnown(st)
      BY <1>5, <2>6
    <3> QED BY <1>1, <1>2, <2>1, <2>6, <3>1, SettledKept
  <2>7. \/ Moved(op', op, "pull", op.mem) \/ Settled(op', op, op.mem)
        \/ Moved(op', op, "pull", MemUnqueued) \/ Moved(op', op, "push", MemUnqueued)
        \/ Settled(op', op, MemUnqueued) \/ Settled(op', op, MemConverged)
    BY <1>11, DecideEffect
  <2>8. OpKept(op)'
    BY <2>3, <2>5, <2>6, <2>7
  <2>9. \/ UNCHANGED vault
        \/ vault' = [vault EXCEPT ![op.slot] = @ \cup {local[op.slot], Theirs}]
    BY <1>11, DecideEffect
  <2> QED BY <2>1, <2>2, <2>4, <2>8, <2>9, KeptOp
<1>12. CASE PullBackup
  <2>1. /\ UNCHANGED << local, remote, disk, pfMem, touched, onPhone, onSteam >>
        /\ op.pc = "pull" /\ vault' = [vault EXCEPT ![op.slot] = @ \cup {local[op.slot]}]
    BY <1>12 DEF PullBackup, InOp, history
  <2>2. /\ op'.pc = "pull_write" /\ op'.slot = op.slot /\ op'.todo = op.todo
        /\ op'.mem = op.mem /\ op'.kind = op.kind /\ op'.listed = op.listed
    BY <1>2, <1>12 DEF PullBackup, Goto, Operation, Pcs
  <2>3. op.slot \in Slots /\ {local[op.slot]} \in SUBSET Known(op.slot)
    BY <1>2, <1>3, <2>1 DEF SlotPcs
  <2>4. local[op.slot] \in vault'[op.slot]
    BY <2>1, <2>3 DEF Typed, TypeOK
  <2>5. OpKept(op)'
    BY <1>2, <2>1, <2>2, <2>4 DEF OpKept, Fresh, RestoreKnown, Known, ForceKinds
  <2> QED BY <2>1, <2>3, <2>5, KeptOp
<1>13. CASE PullWrite
  <2> DEFINE st == BaseIn(MemUnqueued, op.slot, Theirs)
  <2>1. op.slot \in Slots /\ Theirs \in Versions /\ (op' # None => Settled(op', op, st))
    BY <1>13, WriteEffect
  <2>2. UNCHANGED << remote, vault, disk, pfMem, touched >>
    BY <1>13 DEF PullWrite
  <2>3. st.restore = op.mem.restore
    <3>1. MemUnqueued \in State /\ MemUnqueued.restore = op.mem.restore
      BY <1>2, <2>1, PullInIs DEF MemUnqueued
    <3> QED BY <2>1, <3>1, BaseInIs
  <2> HIDE DEF st
  <2>4. StaysKnown(st)
    BY <1>5, <2>3
  <2>5. op' # None => OpKept(op)'
    BY <1>1, <1>2, <2>1, <2>2, <2>4, SettledKept
  <2> QED BY <2>2, <2>5, KeptOp
<1>14. CASE PushPrepare
  <2>1. UNCHANGED << local, remote, vault, disk, pfMem, touched, onPhone, onSteam >>
        /\ op.pc = "push"
    BY <1>14 DEF PushPrepare, InOp, history
  <2>2. /\ op'.pc = "push_assert" /\ op'.slot = op.slot /\ op'.bytes = op.bytes
        /\ op'.staged = local[op.slot] /\ op'.todo = op.todo /\ Rest(op') = Rest(op)
    BY <1>14, PrepareEffect
  <2>3. local[op.slot] \in onPhone[op.slot]
    BY <1>2, <2>1, TypesInUse DEF SlotPcs, Had, FilesHad, SeenOnPhone
  <2>4. OpKept(op)'
    BY <1>2, <2>1, <2>2, <2>3 DEF OpKept, Fresh, Rest, RestoreKnown, Known
  <2> QED BY <2>1, <2>4, KeptOp
<1>15. CASE PushAssert
  <2> DEFINE c == IF op.listed[op.slot] = None THEN local[op.slot] ELSE Theirs
  <2>1. /\ UNCHANGED << local, remote, disk, pfMem, touched, onPhone, onSteam >>
        /\ op.pc = "push_assert" /\ remote[op.slot] = op.listed[op.slot]
        /\ vault' = [vault EXCEPT ![op.slot] = @ \cup {c}]
    BY <1>15 DEF PushAssert, RemoteUnchanged, InOp, history
  <2>2. /\ op'.pc = "push_upload" /\ op'.slot = op.slot /\ op'.todo = op.todo
        /\ op'.mem = op.mem /\ op'.kind = op.kind /\ op'.listed = op.listed
        /\ op'.staged = op.staged
    BY <1>2, <1>15 DEF PushAssert, Goto, Operation, Pcs
  <2>3. op.slot \in Slots /\ {c} \in SUBSET Known(op.slot)
    <3>1. op.slot \in plan.slots /\ op.slot \in Slots
      BY <1>2, <2>1 DEF SlotPcs
    <3>2. op.listed[op.slot] # None => Theirs \in onSteam[op.slot]
      BY <1>2, <2>1 DEF OpKept, Theirs
    <3> QED BY <1>3, <3>1, <3>2 DEF Known
  <2>4. ContentOf(remote[op.slot]) \subseteq vault'[op.slot] \/ <<"steam", op.slot>> \in touched
    <3>1. c \in vault'[op.slot]
      BY <2>1, <2>3 DEF Typed, TypeOK
    <3>2. CASE remote[op.slot] = None
      BY <3>2 DEF ContentOf
    <3>3. CASE remote[op.slot] # None
      <4>1. op.bytes = remote[op.slot] \/ <<"steam", op.slot>> \in touched
        BY <1>2, <2>1, <3>3 DEF OpKept
      <4>2. c = op.bytes.v
        BY <2>1, <3>3 DEF Theirs
      <4> QED BY <3>1, <3>3, <4>1, <4>2 DEF ContentOf
    <3> QED BY <3>2, <3>3
  <2> HIDE DEF c
  <2>5. OpKept(op)'
    BY <1>2, <2>1, <2>2, <2>4 DEF OpKept, Fresh, RestoreKnown, Known, ForceKinds
  <2> QED BY <2>1, <2>3, <2>5, KeptOp
<1>16. CASE PushUpload
  <2> DEFINE f == [v |-> op.staged, lz4 |-> FALSE]
  <2>1. UNCHANGED << local, vault, disk, pfMem, touched >> /\ op.pc = "push_upload"
        /\ remote' = [remote EXCEPT ![op.slot] = f]
    BY <1>16 DEF PushUpload, InOp
  <2>2. /\ op'.pc = "push_verify" /\ op'.slot = op.slot /\ op'.todo = op.todo
        /\ op'.mem = op.mem /\ op'.kind = op.kind /\ op'.listed = op.listed
    BY <1>2, <1>16 DEF PushUpload, Goto, Operation, Pcs
  <2>3. \A s \in Slots \ {op.slot} : remote'[s] = remote[s]
    BY <2>1 DEF Typed, TypeOK
  <2>4. RestoreKnown(op.mem)'
    BY <1>4, <2>2 DEF RestoreKnown, StaysKnown, Known
  <2>5. \A s \in op.todo : Fresh(op, s)' \/ s = op.slot
    BY <1>2, <2>1, <2>2, <2>3 DEF OpKept, Fresh
  <2>6. OpKept(op)'
    BY <1>2, <2>1, <2>2, <2>4, <2>5 DEF OpKept, Fresh
  <2> QED BY <2>1, <2>6, KeptOp
<1>17. CASE PushVerify
  <2> DEFINE st == BaseIn(op.mem, op.slot, op.staged)
  <2>1. UNCHANGED << remote, vault, disk, pfMem, touched, onPhone, onSteam >>
    BY <1>17 DEF PushVerify, history
  <2>2. op.slot \in Slots /\ op.staged \in Versions
    BY <1>17, VerifyEffect
  <2>3. st.restore = op.mem.restore
    <3>1. op.mem \in State /\ op.staged \in Versions \cup {None}
      BY <1>2, <2>2
    <3> QED BY <2>2, <3>1, BaseInIs
  <2>4. \/ op.kind \in ForceKinds /\ Moved(op', op, "force_save", st)
        \/ Settled(op', op, st)
    BY <1>17, VerifyEffect
  <2> HIDE DEF st
  <2>5. StaysKnown(st)
    BY <1>5, <2>3
  <2>6. OpKept(op)'
    <3>1. CASE op.kind \in ForceKinds /\ Moved(op', op, "force_save", st)
      BY <1>2, <2>1, <2>5, <3>1 DEF Moved, OpKept, Fresh, RestoreKnown, StaysKnown, Known
    <3>2. CASE Settled(op', op, st)
      BY <1>1, <1>2, <2>1, <2>5, <3>2, SettledKept
    <3> QED BY <2>4, <3>1, <3>2
  <2> QED BY <2>1, <2>6, KeptOp
<1>18. CASE ForceBegin
  <2>1. UNCHANGED << remote, vault, disk, pfMem, touched, onPhone, onSteam >>
        /\ op.pc = "force_list"
    BY <1>18 DEF ForceBegin, InOp, history
  <2>2. /\ op'.slot = op.slot /\ op'.kind = op.kind /\ op'.todo = op.todo
        /\ op'.listed = remote /\ op'.mem = disk
        /\ \/ op'.pc = "force_download"
           \/ remote[op.slot] = None /\ op'.pc = "push"
    <3>1. \/ remote[op.slot] # None /\ op' = [[op EXCEPT !.listed = remote, !.mem = disk]
                                               EXCEPT !.pc = "force_download"]
          \/ remote[op.slot] = None
      BY <1>18 DEF ForceBegin
    <3>2. remote[op.slot] # None => op'.pc = "force_download"
      BY <1>2, <3>1 DEF Operation
    <3> QED BY <1>18, <3>2, ForceBeginEffect
  <2>3. OpKept(op)'
    BY <1>2, <2>1, <2>2 DEF OpKept, Fresh, Kept, RestoreKnown, Known
  <2> QED BY <2>1, <2>3, KeptOp
<1>19. CASE ForceDownload
  <2>1. /\ UNCHANGED << remote, disk, pfMem, touched, onPhone, onSteam >>
        /\ op.pc = "force_download" /\ remote[op.slot] # None
        /\ vault' = [vault EXCEPT ![op.slot] = @ \cup {local[op.slot], remote[op.slot].v}]
    BY <1>19 DEF ForceDownload, InOp, history
  <2>2. /\ op.slot \in plan.slots /\ op.slot \in Slots
        /\ op'.slot = op.slot /\ op'.kind = op.kind /\ op'.todo = op.todo
        /\ op'.listed = op.listed /\ op'.bytes = remote[op.slot]
        /\ op'.pc \in {"push", "force_save"}
        /\ \/ op'.mem = op.mem
           \/ op'.mem = PullIn(op.mem, op.slot, op.listed[op.slot])
    BY <1>19, ForceDownloadEffect
  <2>3. remote[op.slot].v \in onSteam[op.slot]
    BY <2>1, <2>2 DEF Had, FilesHad
  <2>4. op'.mem.restore = op.mem.restore
    <3>1. op.listed[op.slot] \in Files \cup {None}
      BY <1>2, <2>2 DEF Operation
    <3>2. PullIn(op.mem, op.slot, op.listed[op.slot]).restore = op.mem.restore
      BY <1>2, <2>2, <3>1, PullInIs
    <3> QED BY <2>2, <3>2
  <2>5. RestoreKnown(op.mem)'
    BY <1>4, <2>4 DEF RestoreKnown, StaysKnown, Known
  <2>6. OpKept(op)'
    BY <1>2, <2>1, <2>2, <2>3, <2>5 DEF OpKept, Fresh
  <2>7. {local[op.slot], remote[op.slot].v} \in SUBSET Known(op.slot)
    BY <1>3, <2>2, <2>3 DEF Known
  <2> QED BY <2>1, <2>2, <2>6, <2>7, KeptOp
<1>20. CASE ForceSave
  <2>1. UNCHANGED << remote, vault, onPhone, onSteam >> /\ disk' = op.mem /\ op.pc = "force_save"
    BY <1>20 DEF ForceSave, InOp
  <2>2. op' # None => OpKept(op)'
    <3>1. op.kind \in ForceKinds /\ op.todo = {}
      BY <1>2, <2>1 DEF OpAsked, OpKept
    <3> QED BY <1>2, <1>20, <2>1, <3>1, ForceSaveEffect
         DEF OpKept, RestoreKnown, Known, ForceKinds
  <2> QED BY <1>1, <1>2, <2>1, <2>2 DEF Kept, OpKept, RestoreKnown, Known
<1> QED BY <1>6, <1>7, <1>8, <1>9, <1>10, <1>11, <1>12, <1>13, <1>14, <1>15, <1>16, <1>17,
           <1>18, <1>19, <1>20 DEF LaneStep

\* Only PullBackup takes an operation to its write.
LEMMA NoWrite ==
  ASSUME Typed, LaneStep, ~PullBackup, op' # None
  PROVE  op'.pc # "pull_write"
<1>1. op # None => op \in Operation
  BY TypesInUse
<1>2. CASE OperationFails \/ SyncSave \/ QueueSave
  BY <1>2 DEF OperationFails, Fail, SyncSave, QueueSave
<1>3. CASE SyncEnter \/ PushAssert \/ PushUpload
  BY <1>1, <1>3 DEF SyncEnter, PushAssert, PushUpload, InOp, Goto, Operation, Pcs
<1>4. CASE SyncBegin \/ SyncSlot \/ SyncDownload
  BY <1>4, BeginEffect, SlotEffect, DownloadEffect
<1>5. CASE SyncDecide
  BY <1>5, DecideEffect DEF Settled, Moved
<1>6. CASE PullWrite \/ PushVerify
  BY <1>6, WriteEffect, VerifyEffect DEF Settled, Moved
<1>7. CASE PushPrepare \/ ForceSave
  BY <1>7, PrepareEffect, ForceSaveEffect
<1>8. CASE ForceBegin \/ ForceDownload
  BY <1>8, ForceBeginEffect, ForceDownloadEffect
<1> QED BY <1>2, <1>3, <1>4, <1>5, <1>6, <1>7, <1>8 DEF LaneStep

\* No step on the lane takes a backup away.
LEMMA LaneBacksUp ==
  ASSUME Typed, LaneStep, NEW s \in Slots
  PROVE  vault[s] \subseteq vault'[s]
<1>1. vault \in [Slots -> SUBSET Contents]
  BY DEF Typed, TypeOK
<1>2. CASE SyncSlot
  <2>1. PICK t : vault' = [vault EXCEPT ![t] = @ \cup {local[t]}] \/ UNCHANGED vault
    BY <1>2 DEF SyncSlot
  <2> QED BY <1>1, <2>1
<1>3. CASE SyncDecide
  BY <1>1, <1>3, DecideEffect
<1>4. CASE SyncDownload \/ PullBackup \/ PushAssert \/ ForceDownload
  BY <1>1, <1>4 DEF SyncDownload, Fail, PullBackup, PushAssert, ForceDownload
<1>5. CASE ~(SyncSlot \/ SyncDecide \/ SyncDownload \/ PullBackup \/ PushAssert \/ ForceDownload)
  BY <1>5 DEF LaneStep, OperationFails, SyncEnter, SyncBegin, SyncSave, PullWrite, PushPrepare,
              PushUpload, PushVerify, QueueSave, ForceBegin, ForceSave
<1> QED BY <1>2, <1>3, <1>4, <1>5

LEMMA RestoreKeptNext ==
  ASSUME Typed, RestoreKept, Next
  PROVE  RestoreKept'
<1> SUFFICES ASSUME pf' = "restore_write" PROVE RestoreKept'
  BY DEF RestoreKept
<1>1. CASE World
  <2>1. ASSUME NEW s \in Slots, GameSave(s) PROVE RestoreKept'
    <3>1. /\ UNCHANGED << vault, op, pf, pfMem >> /\ touched' = touched \cup {<<"phone", s>>}
          /\ pfMem.restore.slot # s => local'[pfMem.restore.slot] = local[pfMem.restore.slot]
      <4>1. PICK v : local' = [local EXCEPT ![s] = v]
        BY <2>1 DEF GameSave
      <4>2. local \in [Slots -> Versions \cup {None}] /\ pfMem.restore.slot \in Slots
        <5>1. pf = "restore_write" /\ pfMem \in State
          BY <2>1 DEF GameSave, engine, Typed, TypeOK
        <5> QED BY <5>1 DEF Typed, TypeOK, Shape, State
      <4> QED BY <2>1, <4>1, <4>2 DEF GameSave, engine
    <3> QED BY <3>1 DEF RestoreKept
  <2>2. ASSUME NEW s \in Slots, PeerSave(s) PROVE RestoreKept'
    BY <2>2 DEF PeerSave, engine, RestoreKept
  <2>3. CASE Relaunch
    BY <2>3 DEF Relaunch
  <2> QED BY <1>1, <2>1, <2>2, <2>3 DEF World
<1>2. CASE Preflight
  <2>1. CASE RestoreBackup
    <3> DEFINE s == pfMem.restore.slot
    <3>1. pf = "restore" /\ s \in Slots
      BY <2>1 DEF RestoreBackup, Typed, TypeOK, Shape, State
    <3>2. /\ UNCHANGED << local, op, pfMem >> /\ (op # None => op.pc # "pull_write")
          /\ vault' = [vault EXCEPT ![s] = @ \cup {local[s]}]
      BY <2>1 DEF RestoreBackup, SkipRestore
    <3> QED BY <3>1, <3>2 DEF RestoreKept, Typed, TypeOK
  <2>2. CASE ~RestoreBackup
    BY <1>2, <2>2 DEF Preflight, PreflightOpen, RestoreLoad, RestoreWrite, SkipRestore, RestoreSave,
                 StartPrelaunch, PreflightSkip, PreflightClose
  <2> QED BY <2>1, <2>2
<1>3. CASE User
  <2>1. PICK kind, mem, s : \E pc \in {"enter", "queue_save", "force_list"} :
          Begin(kind, mem, pc, s) /\ UNCHANGED pf
    BY <1>3 DEF User, StartSync, BeginSync, StartForce, QueueRestore
  <2>2. /\ UNCHANGED << local, vault, pfMem >>
        /\ touched' = touched \cap {<<"phone", pfMem.restore.slot>>}
        /\ op'.pc # "pull_write"
    BY <2>1 DEF Begin
  <2> QED BY <2>1, <2>2 DEF RestoreKept
<1>4. CASE LaneStep
  <2>1. op # None /\ UNCHANGED << pf, pfMem, touched >>
    BY <1>4 DEF LaneStep, InOp, OperationFails, SyncEnter, SyncBegin, SyncSlot, SyncDownload,
         SyncDecide, SyncSave, PullBackup, PullWrite, PushPrepare, PushAssert, PushUpload,
         PushVerify, QueueSave, ForceBegin, ForceDownload, ForceSave, history
  <2>2. op.pc # "pull_write" /\ ~PullBackup
    BY <2>1 DEF RestoreKept, PullBackup
  <2>3. UNCHANGED local
    BY <1>4, <2>2 DEF LaneStep, InOp, OperationFails, SyncEnter, SyncBegin, SyncSlot, SyncDownload,
         SyncDecide, SyncSave, PullWrite, PushPrepare, PushAssert, PushUpload,
         PushVerify, QueueSave, ForceBegin, ForceDownload, ForceSave
  <2>4. pfMem.restore.slot \in Slots
    <3>1. pf = "restore_write" /\ pfMem \in State
      BY <2>1 DEF Typed, TypeOK
    <3> QED BY <3>1 DEF Typed, Shape, State
  <2>5. vault[pfMem.restore.slot] \subseteq vault'[pfMem.restore.slot]
    BY <1>4, <2>4, LaneBacksUp
  <2>6. op' # None => op'.pc # "pull_write"
    BY <1>4, <2>2, NoWrite
  <2> QED BY <2>1, <2>3, <2>5, <2>6 DEF RestoreKept
<1> QED BY <1>1, <1>2, <1>3, <1>4 DEF Next

\* What the engine is about to replace has been backed up, or its owner has
\* rewritten it meanwhile; the vault holds only what files have held.
THEOREM AlwaysKept == Spec => [](Typed /\ Had /\ Kept /\ RestoreKept)
<1>1. Init => Kept /\ RestoreKept
  <2> SUFFICES ASSUME Init PROVE Kept /\ RestoreKept
    OBVIOUS
  <2>1. disk.restore = None
    <3>1. PICK base \in [Slots -> Played \cup {None}] : disk = [EmptyState EXCEPT !.base = base]
      BY DEF Init
    <3> QED BY <3>1 DEF EmptyState
  <2> QED BY <2>1, EmptyType DEF Init, Kept, RestoreKnown, RestoreKept
<1>2. Typed /\ Had /\ Kept /\ RestoreKept /\ [Next]_vars => Kept' /\ RestoreKept'
  <2> SUFFICES ASSUME Typed, Had, Kept, RestoreKept, [Next]_vars PROVE Kept' /\ RestoreKept'
    OBVIOUS
  <2>1. CASE UNCHANGED vars
    BY <2>1 DEF vars, engine, history, Kept, OpKept, Fresh, RestoreKnown, Known, RestoreKept
  <2> QED BY <2>1, RestoreKeptNext, KeptWorld, KeptUser, KeptPreflight, KeptLane DEF Next
<1> QED BY <1>1, <1>2, AlwaysHad, PTL DEF Spec

-----------------------------------------------------------------------------
(* The refinement *)

\* SaveVault's view of the files
Phone == [s \in Slots |-> {local[s]} \ {None}]
Steam == [s \in Slots |-> ContentOf(remote[s])]
All   == [s \in Slots |-> onPhone[s] \cup onSteam[s]]
Left  == plan.game + plan.peer

LEMMA InitPromise ==
  ASSUME Init
  PROVE  Promise!Init
<1>1. Typed /\ PlanType
  BY InitTyped DEF Typed, TypeOK, PlanType
<1>2. \A s \in Slots : {local[s]} \ {None} \in Promise!File /\ ContentOf(remote[s]) \in Promise!File
  BY <1>1 DEF Typed, TypeOK, Promise!File, ContentOf, Files, Contents
<1>3. Left \in Nat
  BY <1>1, PlanFacts DEF Left
<1>4. \A s \in Slots : /\ onPhone[s] \cup onSteam[s] \in SUBSET Contents
                       /\ ({local[s]} \ {None}) \cup ContentOf(remote[s])
                            \subseteq onPhone[s] \cup onSteam[s]
  <2> SUFFICES ASSUME NEW s \in Slots
               PROVE  /\ onPhone[s] \cup onSteam[s] \in SUBSET Contents
                      /\ ({local[s]} \ {None}) \cup ContentOf(remote[s])
                           \subseteq onPhone[s] \cup onSteam[s]
    OBVIOUS
  <2>1. onPhone[s] \cup onSteam[s] \in SUBSET Contents
    BY <1>1 DEF Typed, TypeOK, Contents
  <2>2. {local[s]} \ {None} \subseteq onPhone[s]
    BY DEF Init
  <2>3. None \notin ContentOf(remote[s])
    BY <1>1 DEF Typed, TypeOK, ContentOf, Files, Contents
  <2>4. ContentOf(remote[s]) \subseteq onSteam[s]
    BY <2>3 DEF Init
  <2> QED BY <2>1, <2>2, <2>4
<1> QED BY <1>2, <1>3, <1>4 DEF Init, Promise!Init, Left

\* A step that leaves both files, the backups and the contents seen alone
LEMMA PromiseStutter ==
  ASSUME UNCHANGED << local, remote, vault, onPhone, onSteam, touched >>, Left' = Left
  PROVE  UNCHANGED Promise!vars
BY DEF Promise!vars, Left

LEMMA PromiseBackUp ==
  ASSUME Typed, UNCHANGED << local, remote, plan, onPhone, onSteam, touched >>,
         NEW s \in Slots, NEW C \in SUBSET Known(s), vault' = [vault EXCEPT ![s] = @ \cup C]
  PROVE  Promise!Next
<1>1. UNCHANGED << Phone, Steam, All, touched, Left >>
  BY DEF Phone, Steam, All, Left
<1>2. All[s] = Known(s)
  BY DEF All, Known
<1>3. Promise!BackUp(s)
  BY <1>1, <1>2 DEF Promise!BackUp, Phone, Steam, All, Left
<1> QED BY <1>3 DEF Promise!Next, Promise!Synchronizer

\* A content that one of the files has had replaces the file on the iPhone.
LEMMA PromisePhone ==
  ASSUME Typed, UNCHANGED << remote, plan, touched >>, NEW s \in Slots, NEW v \in Versions,
         v \in Known(s), SavedAs(s, v), local' = [local EXCEPT ![s] = v],
         \/ UNCHANGED vault /\ (local[s] \in vault[s] \/ <<"phone", s>> \in touched)
         \/ local[s] # None /\ vault' = [vault EXCEPT ![s] = @ \cup {local[s]}]
  PROVE  Promise!Next
<1>1. UNCHANGED << Steam, touched, Left >> /\ Known(s) = All[s]
  BY DEF Steam, Left, Known, All
<1>2. UNCHANGED All
  <2>1. \A t \in Slots : onPhone'[t] \cup onSteam'[t] = onPhone[t] \cup onSteam[t]
    BY DEF SavedAs, Typed, TypeOK, Known
  <2> QED BY <2>1 DEF All
<1>3. Phone' = [Phone EXCEPT ![s] = {v}]
  <2>1. \A t \in Slots : {local'[t]} \ {None} = IF t = s THEN {v} ELSE {local[t]} \ {None}
    BY DEF Typed, TypeOK
  <2> QED BY <2>1 DEF Phone
<1>4. Phone[s] = {local[s]} \ {None}
  BY DEF Phone
<1>5. /\ vault' \in {vault, [vault EXCEPT ![s] = @ \cup Phone[s]]}
      /\ Phone[s] \subseteq vault'[s] \/ <<"phone", s>> \in touched
  <2>1. CASE UNCHANGED vault /\ (local[s] \in vault[s] \/ <<"phone", s>> \in touched)
    BY <1>4, <2>1
  <2>2. CASE local[s] # None /\ vault' = [vault EXCEPT ![s] = @ \cup {local[s]}]
    <3>1. Phone[s] = {local[s]}
      BY <1>4, <2>2
    <3>2. vault'[s] = vault[s] \cup {local[s]}
      BY <2>2 DEF Typed, TypeOK
    <3> QED BY <2>2, <3>1, <3>2
  <2> QED BY <2>1, <2>2
<1>6. Promise!ReplacePhone(s)
  BY <1>1, <1>2, <1>3, <1>5 DEF Promise!ReplacePhone, Phone, Steam, All, Left
<1> QED BY <1>6 DEF Promise!Next, Promise!Synchronizer

LEMMA WorldPromise ==
  ASSUME Typed, World
  PROVE  [Promise!Next]_Promise!vars
<1>1. PlanType
  BY DEF Typed, TypeOK, PlanType
<1>2. ASSUME NEW s \in Slots, GameSave(s) PROVE Promise!Next
  <2>1. PICK v \in Played : local' = [local EXCEPT ![s] = v] /\ SavedAs(s, v)
    BY <1>2 DEF GameSave
  <2>2. v \in Versions /\ v \in Contents
    BY <1>1, PlanFacts DEF Contents
  <2>3. Left > 0 /\ Left' = Left - 1
    <3>1. plan.game \in Nat /\ plan.peer \in Nat /\ plan.game > 0
      BY <1>1, <1>2, PlanFacts DEF GameSave
    <3>2. plan'.game = plan.game - 1 /\ plan'.peer = plan.peer
      BY <1>1, <1>2 DEF GameSave, PlanType
    <3> QED BY <3>1, <3>2 DEF Left
  <2>4. /\ UNCHANGED << remote, vault >> /\ touched' = touched \cup {<<"phone", s>>}
    BY <1>2 DEF GameSave
  <2>5. Phone' = [Phone EXCEPT ![s] = {v}]
    <3>1. \A t \in Slots : {local'[t]} \ {None} = IF t = s THEN {v} ELSE {local[t]} \ {None}
      BY <2>1, <2>2 DEF Typed, TypeOK
    <3> QED BY <3>1 DEF Phone
  <2>6. All' = [All EXCEPT ![s] = @ \cup {v}]
    <3>1. \A t \in Slots : onPhone'[t] \cup onSteam'[t]
                             = IF t = s THEN onPhone[t] \cup onSteam[t] \cup {v}
                               ELSE onPhone[t] \cup onSteam[t]
      BY <2>1 DEF SavedAs, Typed, TypeOK
    <3> QED BY <3>1 DEF All
  <2>7. Promise!OwnerWrites("phone", s, {v})
    BY <2>3, <2>4, <2>5, <2>6 DEF Promise!OwnerWrites, Phone, Steam, All, Left
  <2>8. {v} \in Promise!File
    BY <2>2 DEF Promise!File
  <2> QED BY <2>7, <2>8 DEF Promise!Next, Promise!Owners
<1>3. ASSUME NEW s \in Slots, PeerSave(s) PROVE Promise!Next
  <2>1. PICK f \in plan.files \cup {None} : remote' = [remote EXCEPT ![s] = f] /\ UploadedAs(s, f)
    BY <1>3 DEF PeerSave
  <2>2. ContentOf(f) \in Promise!File
    BY <1>1, PlanFacts DEF ContentOf, Files, Promise!File
  <2>3. Left > 0 /\ Left' = Left - 1
    <3>1. plan.game \in Nat /\ plan.peer \in Nat /\ plan.peer > 0
      BY <1>1, <1>3, PlanFacts DEF PeerSave
    <3>2. plan'.peer = plan.peer - 1 /\ plan'.game = plan.game
      BY <1>1, <1>3 DEF PeerSave, PlanType
    <3> QED BY <3>1, <3>2 DEF Left
  <2>4. /\ UNCHANGED << local, vault >> /\ touched' = touched \cup {<<"steam", s>>}
    BY <1>3 DEF PeerSave
  <2>5. Steam' = [Steam EXCEPT ![s] = ContentOf(f)]
    BY <2>1 DEF Steam, Typed, TypeOK
  <2>6. All' = [All EXCEPT ![s] = @ \cup ContentOf(f)]
    <3>1. \A t \in Slots : onPhone'[t] \cup onSteam'[t]
                             = IF t = s THEN onPhone[t] \cup onSteam[t] \cup ContentOf(f)
                               ELSE onPhone[t] \cup onSteam[t]
      BY <2>1 DEF UploadedAs, Typed, TypeOK
    <3> QED BY <3>1 DEF All
  <2>7. Promise!OwnerWrites("steam", s, ContentOf(f))
    BY <2>3, <2>4, <2>5, <2>6 DEF Promise!OwnerWrites, Phone, Steam, All, Left
  <2> QED BY <2>2, <2>7 DEF Promise!Next, Promise!Owners
<1>4. ASSUME Relaunch PROVE UNCHANGED Promise!vars
  <2>1. plan'.game = plan.game /\ plan'.peer = plan.peer
    BY <1>1, <1>4 DEF Relaunch, PlanType
  <2> QED BY <1>4, <2>1, PromiseStutter DEF Relaunch, history, Left
<1> QED BY <1>2, <1>3, <1>4 DEF World

LEMMA BeginPromise ==
  ASSUME NEW kind, NEW mem, NEW pc, NEW s, Begin(kind, mem, pc, s)
  PROVE  Promise!Next
<1>1. touched' \in SUBSET touched /\ UNCHANGED << local, remote, vault, plan, onPhone, onSteam >>
  BY DEF Begin
<1>2. Promise!StartWork
  BY <1>1 DEF Promise!StartWork
<1> QED BY <1>2 DEF Promise!Next, Promise!Synchronizer

LEMMA UserPromise ==
  ASSUME User
  PROVE  Promise!Next
BY BeginPromise DEF User, StartSync, BeginSync, StartForce, QueueRestore

LEMMA PreflightPromise ==
  ASSUME Typed, Had, Kept, RestoreKept, Preflight
  PROVE  [Promise!Next]_Promise!vars
<1>1. CASE StartPrelaunch
  BY <1>1, BeginPromise DEF StartPrelaunch, BeginSync
<1>2. CASE RestoreBackup
  <2> DEFINE s == pfMem.restore.slot
  <2>1. s \in Slots /\ {local[s]} \in SUBSET Known(s)
    <3>1. s \in Slots /\ s \in plan.slots
      BY <1>2, TypesInUse DEF RestoreBackup, Typed, TypeOK, Shape, RestoreInUse
    <3> QED BY <3>1, TypesInUse DEF Had, FilesHad, SeenOnPhone, Known
  <2>2. /\ UNCHANGED << local, remote, plan, onPhone, onSteam, touched >>
        /\ vault' = [vault EXCEPT ![s] = @ \cup {local[s]}] \/ UNCHANGED vault
    BY <1>2 DEF RestoreBackup, history
  <2> HIDE DEF s
  <2> QED BY <2>1, <2>2, PromiseBackUp, PromiseStutter DEF Left
<1>4. CASE RestoreWrite
  <2> DEFINE s == pfMem.restore.slot
             v == pfMem.restore.v
  <2>1. s \in Slots /\ v \in Versions /\ v \in Known(s)
    BY <1>4 DEF RestoreWrite, Typed, TypeOK, Shape, State, Kept, RestoreKnown, RestoreInUse
  <2>2. UNCHANGED << remote, vault, plan, touched >>
    BY <1>4 DEF RestoreWrite
  <2>3. local[s] \in vault[s] \/ <<"phone", s>> \in touched
    BY <1>4 DEF RestoreWrite, RestoreKept
  <2>4. CASE UNCHANGED << local, onPhone, onSteam >>
    BY <2>2, <2>4, PromiseStutter DEF Left
  <2>5. CASE local' = [local EXCEPT ![s] = v] /\ SavedAs(s, v)
    <3> HIDE DEF s, v
    <3> QED BY <2>1, <2>2, <2>3, <2>5, PromisePhone
  <2> QED BY <1>4, <2>4, <2>5 DEF RestoreWrite
<1>3. CASE PreflightOpen \/ RestoreLoad \/ RestoreSave \/ PreflightSkip \/ PreflightClose
  <2>1. UNCHANGED << local, remote, vault, plan, onPhone, onSteam, touched >>
    BY <1>3 DEF PreflightOpen, RestoreLoad, RestoreSave, PreflightSkip, PreflightClose, history
  <2> QED BY <2>1, PromiseStutter DEF Left
<1> QED BY <1>1, <1>2, <1>3, <1>4 DEF Preflight

LEMMA LanePromise ==
  ASSUME Typed, Had, Kept, LaneStep
  PROVE  [Promise!Next]_Promise!vars
<1>1. op # None /\ UNCHANGED << plan, touched >>
  BY DEF LaneStep, InOp, OperationFails, SyncEnter, SyncBegin, SyncSlot, SyncDownload,
         SyncDecide, SyncSave, PullBackup, PullWrite, PushPrepare, PushAssert, PushUpload,
         PushVerify, QueueSave, ForceBegin, ForceDownload, ForceSave, history
<1>2. /\ op.todo \subseteq plan.slots /\ OpShape(op) /\ OpHad(op) /\ OpKept(op)
      /\ op.pc \in SlotPcs => op.slot \in plan.slots /\ op.slot \in Slots
  BY <1>1, TypesInUse DEF Had, Kept
<1>3. \A s \in plan.slots : s \in Slots /\ {local[s]} \subseteq Known(s)
  BY TypesInUse DEF Had, FilesHad, SeenOnPhone, Known
<1>4. ASSUME UNCHANGED << local, remote, vault, onPhone, onSteam >>
      PROVE  UNCHANGED Promise!vars
  BY <1>1, <1>4, PromiseStutter DEF Left
<1>5. ASSUME UNCHANGED << local, remote, onPhone, onSteam >>, NEW s \in Slots,
             NEW C \in SUBSET Known(s), vault' = [vault EXCEPT ![s] = @ \cup C]
      PROVE  Promise!Next
  BY <1>1, <1>5, PromiseBackUp
<1>6. CASE OperationFails \/ SyncEnter \/ SyncBegin \/ SyncSave \/ PushPrepare \/ PushVerify
           \/ QueueSave \/ ForceBegin \/ ForceSave
  <2>1. UNCHANGED << local, remote, vault, onPhone, onSteam >>
    BY <1>6 DEF OperationFails, SyncEnter, SyncBegin, SyncSave, PushPrepare, PushVerify,
                QueueSave, ForceBegin, ForceSave, history
  <2> QED BY <1>4, <2>1
<1>7. CASE SyncSlot
  <2>1. UNCHANGED << local, remote, onPhone, onSteam >>
    BY <1>7 DEF SyncSlot, history
  <2>2. PICK s \in op.todo : vault' = [vault EXCEPT ![s] = @ \cup {local[s]}] \/ UNCHANGED vault
    BY <1>7 DEF SyncSlot
  <2>3. s \in Slots /\ {local[s]} \in SUBSET Known(s)
    BY <1>2, <1>3
  <2>4. CASE UNCHANGED vault
    BY <1>4, <2>1, <2>4
  <2>5. CASE vault' = [vault EXCEPT ![s] = @ \cup {local[s]}]
    BY <1>5, <2>1, <2>3, <2>5
  <2> QED BY <2>2, <2>4, <2>5
<1>8. CASE SyncDownload
  <2>1. UNCHANGED << local, remote, onPhone, onSteam >> /\ op.pc = "download"
        /\ remote[op.slot] # None
    BY <1>8 DEF SyncDownload, InOp, history
  <2>2. op.slot \in Slots /\ remote[op.slot].v \in Known(op.slot)
    BY <1>2, <2>1 DEF SlotPcs, Had, FilesHad, Known
  <2>3. CASE remote[op.slot].v = Corrupt
    <3>1. {Corrupt} \in SUBSET Known(op.slot)
      BY <2>2, <2>3
    <3>2. vault' = [vault EXCEPT ![op.slot] = @ \cup {Corrupt}]
      BY <1>8, <2>3 DEF SyncDownload
    <3> QED BY <1>5, <2>1, <2>2, <3>1, <3>2
  <2>4. CASE remote[op.slot].v # Corrupt
    BY <1>4, <1>8, <2>1, <2>4 DEF SyncDownload
  <2> QED BY <2>3, <2>4
<1>9. CASE SyncDecide
  <2>1. UNCHANGED << local, remote, onPhone, onSteam >> /\ op.pc = "decide"
    BY <1>9 DEF SyncDecide, InOp, history
  <2>2. op.slot \in Slots /\ {local[op.slot], Theirs} \in SUBSET Known(op.slot)
    BY <1>2, <1>3, <2>1 DEF SlotPcs, OpHad, Theirs, Known
  <2>3. \/ UNCHANGED vault
        \/ vault' = [vault EXCEPT ![op.slot] = @ \cup {local[op.slot], Theirs}]
    BY <1>9, DecideEffect
  <2>4. CASE UNCHANGED vault
    BY <1>4, <2>1, <2>4
  <2>5. CASE vault' = [vault EXCEPT ![op.slot] = @ \cup {local[op.slot], Theirs}]
    BY <1>5, <2>1, <2>2, <2>5
  <2> QED BY <2>3, <2>4, <2>5
<1>10. CASE PullBackup
  <2>1. UNCHANGED << local, remote, onPhone, onSteam >> /\ op.pc = "pull"
        /\ vault' = [vault EXCEPT ![op.slot] = @ \cup {local[op.slot]}]
    BY <1>10 DEF PullBackup, InOp, history
  <2>2. op.slot \in Slots /\ {local[op.slot]} \in SUBSET Known(op.slot)
    BY <1>2, <1>3, <2>1 DEF SlotPcs
  <2> QED BY <1>5, <2>1, <2>2
<1>11. CASE PullWrite
  <2>1. op.slot \in Slots /\ Theirs \in Versions
    BY <1>11, WriteEffect
  <2>2. /\ UNCHANGED << remote, vault >> /\ local' = [local EXCEPT ![op.slot] = Theirs]
        /\ SavedAs(op.slot, Theirs) /\ op.pc = "pull_write"
    BY <1>11 DEF PullWrite, InOp
  <2>3. Theirs \in Known(op.slot)
    BY <1>2, <2>2 DEF OpHad, Theirs, Known
  <2>4. local[op.slot] \in vault[op.slot] \/ <<"phone", op.slot>> \in touched
    BY <1>2, <2>2 DEF OpKept
  <2> QED BY <1>1, <2>1, <2>2, <2>3, <2>4, PromisePhone
<1>12. CASE PushAssert
  <2> DEFINE c == IF op.listed[op.slot] = None THEN local[op.slot] ELSE Theirs
  <2>1. /\ UNCHANGED << local, remote, onPhone, onSteam >> /\ op.pc = "push_assert"
        /\ vault' = [vault EXCEPT ![op.slot] = @ \cup {c}]
    BY <1>12 DEF PushAssert, InOp, history
  <2>2. op.slot \in Slots /\ {c} \in SUBSET Known(op.slot)
    <3>1. op.slot \in plan.slots /\ op.slot \in Slots
      BY <1>2, <2>1 DEF SlotPcs
    <3>2. op.listed[op.slot] # None => Theirs \in onSteam[op.slot]
      BY <1>2, <2>1 DEF OpKept, Theirs
    <3> QED BY <1>3, <3>1, <3>2 DEF Known
  <2> HIDE DEF c
  <2> QED BY <1>5, <2>1, <2>2
<1>13. CASE PushUpload
  <2> DEFINE f == [v |-> op.staged, lz4 |-> FALSE]
  <2>1. /\ UNCHANGED << local, vault >> /\ op.pc = "push_upload"
        /\ remote' = [remote EXCEPT ![op.slot] = f] /\ UploadedAs(op.slot, f)
    BY <1>13 DEF PushUpload, InOp
  <2>2. op.slot \in Slots /\ op.staged \in Versions /\ op.staged \in onPhone[op.slot]
    BY <1>2, <2>1 DEF SlotPcs, OpShape, OpKept
  <2>3. ContentOf(f) = {op.staged}
    <3>1. f \in Files
      BY <2>2 DEF Files, Contents
    <3>2. f # None /\ f.v = op.staged
      BY <3>1
    <3> QED BY <3>2 DEF ContentOf
  <2> HIDE DEF f
  <2>4. Steam' = [Steam EXCEPT ![op.slot] = {op.staged}]
    BY <2>1, <2>3 DEF Steam, Typed, TypeOK
  <2>5. UNCHANGED All
    <3>1. \A t \in Slots : onPhone'[t] \cup onSteam'[t] = onPhone[t] \cup onSteam[t]
      BY <2>1, <2>2, <2>3 DEF UploadedAs, Typed, TypeOK
    <3> QED BY <3>1 DEF All
  <2>6. Steam[op.slot] \subseteq vault[op.slot] \/ <<"steam", op.slot>> \in touched
    BY <1>2, <2>1, <2>2 DEF OpKept, Steam
  <2>7. UNCHANGED << Phone, vault, Left, touched >> /\ op.staged \in All[op.slot]
    BY <1>1, <2>1, <2>2 DEF Phone, Left, All
  <2>8. Promise!ReplaceSteam(op.slot)
    BY <2>4, <2>5, <2>6, <2>7 DEF Promise!ReplaceSteam, Phone, Steam, All, Left
  <2> QED BY <2>2, <2>8 DEF Promise!Next, Promise!Synchronizer
<1>14. CASE ForceDownload
  <2>1. /\ UNCHANGED << local, remote, onPhone, onSteam >> /\ remote[op.slot] # None
        /\ vault' = [vault EXCEPT ![op.slot] = @ \cup {local[op.slot], remote[op.slot].v}]
    BY <1>14 DEF ForceDownload, history
  <2>2. op.slot \in plan.slots /\ op.slot \in Slots
    BY <1>14, ForceDownloadEffect
  <2>3. {local[op.slot], remote[op.slot].v} \in SUBSET Known(op.slot)
    BY <1>3, <2>1, <2>2 DEF Had, FilesHad, Known
  <2> QED BY <1>5, <2>1, <2>2, <2>3
<1> QED BY <1>6, <1>7, <1>8, <1>9, <1>10, <1>11, <1>12, <1>13, <1>14 DEF LaneStep

\* Whatever the game, the user, another computer, failures and kills do, the
\* synchronizer behaves as SaveVault says: no progress is lost or invented.
THEOREM SavesKept == Spec => SavesAreKept
<1>1. Typed /\ Had /\ Kept /\ RestoreKept /\ [Next]_vars => [Promise!Next]_Promise!vars
  <2> SUFFICES ASSUME Typed, Had, Kept, RestoreKept, [Next]_vars PROVE [Promise!Next]_Promise!vars
    OBVIOUS
  <2>1. CASE UNCHANGED vars
    BY <2>1, PromiseStutter DEF vars, history, Left
  <2> QED BY <2>1, WorldPromise, UserPromise, PreflightPromise, LanePromise DEF Next
<1>2. Init => Promise!Init
  BY InitPromise
<1> QED BY <1>1, <1>2, AlwaysKept, PTL DEF Spec, SavesAreKept, Promise!Spec
=============================================================================
