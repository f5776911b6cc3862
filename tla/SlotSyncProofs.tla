--------------------------- MODULE SlotSyncProofs ---------------------------
(***************************************************************************)
(* Proofs about SlotSync, for any slots, versions and plans.               *)
(***************************************************************************)
EXTENDS SlotSync, TLAPS

USE ConstantsAssumption

-----------------------------------------------------------------------------
(* The records of the state and of an operation *)

LEMMA BaseType ==
  ASSUME NEW st \in State, NEW s \in Slots, NEW v \in Versions \cup {None}
  PROVE  /\ [st EXCEPT !.base[s] = v] \in State
         /\ [st EXCEPT !.base[s] = v].base = [st.base EXCEPT ![s] = v]
         /\ [st EXCEPT !.base[s] = v].pulls = st.pulls
         /\ [st EXCEPT !.base[s] = v].restore = st.restore
BY DEF State

LEMMA PullsType ==
  ASSUME NEW st \in State, NEW s \in Slots, NEW f \in Files \cup {None}
  PROVE  /\ [st EXCEPT !.pulls[s] = f] \in State
         /\ [st EXCEPT !.pulls[s] = f].pulls = [st.pulls EXCEPT ![s] = f]
         /\ [st EXCEPT !.pulls[s] = f].base = st.base
         /\ [st EXCEPT !.pulls[s] = f].restore = st.restore
BY DEF State

LEMMA EmptyType == EmptyState \in State /\ EmptyState.restore = None
BY DEF EmptyState, State

LEMMA NoBytesType == NoBytes \in Files
BY DEF NoBytes, Files, Contents

\* What stays the same of an operation when its slot is finished
Rest(o) == << o.kind, o.mine, o.listed, o.mem >>

\* What it has made out so far: the slots compared, the choices, uploads waiting
Tally(o) == << o.done, o.found, o.waiting >>

LEMMA FoundType ==
  ASSUME NEW o \in Operation, o.slot \in Slots, NEW found \in [Slots -> ChoiceKinds \cup {None}]
  PROVE  [o EXCEPT !.pc = "slot", !.slot = None, !.bytes = NoBytes, !.staged = None,
                   !.todo = @ \ {o.slot}, !.done = @ \cup {o.slot}, !.found = found] \in Operation
<1>1. o.todo \ {o.slot} \in SUBSET Slots
  BY DEF Operation
<1>2. o.done \cup {o.slot} \in SUBSET Slots
  BY DEF Operation
<1> QED BY <1>1, <1>2, NoBytesType DEF Operation, Pcs

LEMMA NextSlotType ==
  ASSUME NEW o \in Operation, o.slot \in Slots, NEW kind \in ChoiceKinds \cup {None}
  PROVE  /\ NextSlot(o, kind) \in Operation
         /\ NextSlot(o, kind).pc = "slot"
         /\ NextSlot(o, kind).todo = o.todo \ {o.slot}
         /\ NextSlot(o, kind).done = o.done \cup {o.slot}
         /\ NextSlot(o, kind).found = [o.found EXCEPT ![o.slot] = kind]
         /\ NextSlot(o, kind).waiting = o.waiting
         /\ Rest(NextSlot(o, kind)) = Rest(o)
<1> DEFINE found == [o.found EXCEPT ![o.slot] = kind]
           new == [o EXCEPT !.pc = "slot", !.slot = None, !.bytes = NoBytes, !.staged = None,
                            !.todo = @ \ {o.slot}, !.done = @ \cup {o.slot}, !.found = found]
<1>1. found \in [Slots -> ChoiceKinds \cup {None}]
  BY DEF Operation
<1>2. new = NextSlot(o, kind)
  BY DEF NextSlot, Operation
<1> HIDE DEF found
<1>3. new \in Operation
  BY <1>1, FoundType
<1>4. /\ new.pc = "slot" /\ new.todo = o.todo \ {o.slot} /\ new.done = o.done \cup {o.slot}
      /\ new.found = found /\ new.waiting = o.waiting /\ Rest(new) = Rest(o)
  BY DEF Operation, Rest
<1> HIDE DEF new
<1> QED BY <1>2, <1>3, <1>4 DEF found

LEMMA GotoType ==
  ASSUME NEW o \in Operation, NEW pc \in Pcs
  PROVE  /\ [o EXCEPT !.pc = pc] \in Operation
         /\ [o EXCEPT !.pc = pc].pc = pc
         /\ [o EXCEPT !.pc = pc].slot = o.slot /\ [o EXCEPT !.pc = pc].todo = o.todo
         /\ [o EXCEPT !.pc = pc].bytes = o.bytes /\ [o EXCEPT !.pc = pc].staged = o.staged
         /\ Rest([o EXCEPT !.pc = pc]) = Rest(o) /\ Tally([o EXCEPT !.pc = pc]) = Tally(o)
BY DEF Operation, Rest, Tally

LEMMA MemType ==
  ASSUME NEW o \in Operation, NEW st \in State
  PROVE  /\ [o EXCEPT !.mem = st] \in Operation
         /\ [o EXCEPT !.mem = st].mem = st
         /\ [o EXCEPT !.mem = st].pc = o.pc /\ [o EXCEPT !.mem = st].slot = o.slot
         /\ [o EXCEPT !.mem = st].todo = o.todo /\ [o EXCEPT !.mem = st].mine = o.mine
         /\ [o EXCEPT !.mem = st].bytes = o.bytes /\ [o EXCEPT !.mem = st].staged = o.staged
         /\ [o EXCEPT !.mem = st].kind = o.kind /\ [o EXCEPT !.mem = st].listed = o.listed
         /\ Tally([o EXCEPT !.mem = st]) = Tally(o)
BY DEF Operation, Tally

LEMMA WaitType ==
  ASSUME NEW o \in Operation
  PROVE  /\ [o EXCEPT !.waiting = TRUE] \in Operation
         /\ [o EXCEPT !.waiting = TRUE].pc = o.pc /\ [o EXCEPT !.waiting = TRUE].slot = o.slot
         /\ [o EXCEPT !.waiting = TRUE].todo = o.todo /\ [o EXCEPT !.waiting = TRUE].done = o.done
         /\ [o EXCEPT !.waiting = TRUE].found = o.found /\ [o EXCEPT !.waiting = TRUE].waiting
         /\ Rest([o EXCEPT !.waiting = TRUE]) = Rest(o)
BY DEF Operation, Rest

-----------------------------------------------------------------------------
(* Types. A slot out of use never gets a file, a backup or a queue entry.  *)

SlotPcs == {"download", "decide", "pull", "pull_write", "push", "push_assert", "push_upload",
            "push_verify", "force_download", "force_save"}

RestoreInUse(st) == st.restore # None => st.restore.slot \in plan.slots

OpShape(o) ==
  /\ o.pc \in SlotPcs => o.slot \in plan.slots
  /\ o.pc = "force_list" => o.slot \in Slots
  /\ o.todo \subseteq plan.slots
  /\ o.pc \in {"push_assert", "push_upload", "push_verify"} => o.staged \in Versions
  /\ o.pc \in {"decide", "pull", "pull_write"} => o.bytes.v \in Versions
  /\ RestoreInUse(o.mem)

Shape ==
  /\ \A s \in Slots : local[s] # None <=> s \in plan.slots
  /\ \A s \in Slots : vault[s] # {} => s \in plan.slots
  /\ snap # None => \A s \in Slots : snap[s] # None => s \in plan.slots
  /\ RestoreInUse(disk) /\ RestoreInUse(pfMem)
  /\ pf \in {"restore", "restore_write"} => pfMem.restore # None
  /\ op # None => OpShape(op)

PlanType ==
  \E p \in Plans : plan \in [slots : {p.slots}, files : {p.files}, orderly : {p.orderly},
                             user : {p.user}, game : 0 .. p.game, peer : 0 .. p.peer,
                             launch : 0 .. p.launch]

Typed == TypeOK /\ Shape

LEMMA PlanFacts ==
  ASSUME PlanType
  PROVE  /\ plan.slots \subseteq Slots /\ plan.files \subseteq Files
         /\ Played \subseteq Versions
         /\ plan.game \in Nat /\ plan.peer \in Nat
<1>1. PICK p \in Plans : plan \in [slots : {p.slots}, files : {p.files}, orderly : {p.orderly},
                             user : {p.user}, game : 0 .. p.game, peer : 0 .. p.peer,
                             launch : 0 .. p.launch]
  BY DEF PlanType
<1>2. plan.slots = p.slots /\ plan.files = p.files /\ plan.game \in Nat /\ plan.peer \in Nat
  BY <1>1
<1>3. plan.slots \subseteq Slots /\ plan.files \subseteq Files
  BY <1>2 DEF Files, Contents
<1>4. Played \subseteq Versions
  BY <1>3 DEF Played, Files, Contents
<1> QED BY <1>2, <1>3, <1>4

LEMMA PlanCounts ==
  ASSUME PlanType,
         \/ plan.game > 0 /\ plan' = [plan EXCEPT !.game = @ - 1]
         \/ plan.peer > 0 /\ plan' = [plan EXCEPT !.peer = @ - 1]
         \/ plan.launch > 0 /\ plan' = [plan EXCEPT !.launch = @ - 1]
  PROVE  /\ PlanType'
         /\ plan'.slots = plan.slots /\ plan'.orderly = plan.orderly
<1>1. PICK p \in Plans : plan \in [slots : {p.slots}, files : {p.files}, orderly : {p.orderly},
                             user : {p.user}, game : 0 .. p.game, peer : 0 .. p.peer,
                             launch : 0 .. p.launch]
  BY DEF PlanType
<1>2. p.game \in Nat /\ p.peer \in Nat /\ p.launch \in Nat
  OBVIOUS
<1>3. /\ plan' \in [slots : {p.slots}, files : {p.files}, orderly : {p.orderly},
                    user : {p.user}, game : 0 .. p.game, peer : 0 .. p.peer,
                    launch : 0 .. p.launch]
      /\ plan'.slots = plan.slots /\ plan'.orderly = plan.orderly
  BY <1>1, <1>2
<1> QED BY <1>1, <1>3 DEF PlanType

LEMMA WorldTyped ==
  ASSUME Typed, World
  PROVE  Typed'
<1>1. ASSUME NEW s \in Slots, GameSave(s) PROVE Typed'
  <2>1. PlanType /\ s \in plan.slots
    BY <1>1 DEF Typed, TypeOK, PlanType, GameSave
  <2>2. PlanType' /\ plan'.slots = plan.slots
    BY <1>1, <2>1, PlanCounts DEF GameSave
  <2>3. PICK v \in Played : local' = [local EXCEPT ![s] = v] /\ SavedAs(s, v)
    BY <1>1 DEF GameSave
  <2>4. v \in Versions
    BY <2>1, PlanFacts
  <2>5. /\ local' \in [Slots -> Versions \cup {None}]
        /\ onPhone' \in [Slots -> SUBSET Versions] /\ onSteam' \in [Slots -> SUBSET Contents]
    BY <2>3, <2>4 DEF Typed, TypeOK, SavedAs
  <2>6. touched' \in SUBSET ({"phone", "steam"} \X Slots)
    BY <1>1 DEF GameSave, Typed, TypeOK
  <2>7. TypeOK'
    BY <1>1, <2>2, <2>5, <2>6 DEF GameSave, Typed, TypeOK, PlanType, engine
  <2>8. Shape'
    BY <1>1, <2>1, <2>2, <2>3, <2>4 DEF GameSave, Typed, TypeOK, Shape, OpShape, RestoreInUse, engine
  <2> QED BY <2>7, <2>8 DEF Typed
<1>2. ASSUME NEW s \in Slots, PeerSave(s) PROVE Typed'
  <2>1. PlanType /\ s \in plan.slots
    BY <1>2 DEF Typed, TypeOK, PlanType, PeerSave
  <2>2. PlanType' /\ plan'.slots = plan.slots
    BY <1>2, <2>1, PlanCounts DEF PeerSave
  <2>3. PICK f \in plan.files \cup {None} :
          remote' = [remote EXCEPT ![s] = f] /\ UploadedAs(s, f)
    BY <1>2 DEF PeerSave
  <2>4. f \in Files \cup {None} /\ ContentOf(f) \subseteq Contents
    BY <2>1, <2>3, PlanFacts DEF ContentOf, Files
  <2>5. /\ remote' \in [Slots -> Files \cup {None}]
        /\ onPhone' \in [Slots -> SUBSET Versions] /\ onSteam' \in [Slots -> SUBSET Contents]
    BY <2>3, <2>4 DEF Typed, TypeOK, UploadedAs
  <2>6. touched' \in SUBSET ({"phone", "steam"} \X Slots)
    BY <1>2 DEF PeerSave, Typed, TypeOK
  <2>7. TypeOK'
    BY <1>2, <2>2, <2>5, <2>6 DEF PeerSave, Typed, TypeOK, PlanType, engine
  <2>8. Shape'
    BY <1>2, <2>1, <2>2 DEF PeerSave, Typed, TypeOK, Shape, OpShape, RestoreInUse, engine
  <2> QED BY <2>7, <2>8 DEF Typed
<1>3. ASSUME Relaunch PROVE Typed'
  <2>1. PlanType' /\ plan'.slots = plan.slots
    BY <1>3, PlanCounts DEF Typed, TypeOK, PlanType, Relaunch
  <2>2. choices' \in [Slots -> ChoiceKinds \cup {None}] /\ allowed' \in BOOLEAN
    BY <1>3 DEF Relaunch
  <2>3. TypeOK'
    BY <1>3, <2>1, <2>2, EmptyType DEF Relaunch, Typed, TypeOK, PlanType, history
  <2>4. Shape'
    BY <1>3, <2>1, EmptyType DEF Relaunch, Typed, TypeOK, Shape, RestoreInUse, history
  <2> QED BY <2>3, <2>4 DEF Typed
<1> QED BY <1>1, <1>2, <1>3 DEF World

LEMMA PreflightTyped ==
  ASSUME Typed, Preflight
  PROVE  Typed'
<1>1. CASE PreflightOpen
  <2>1. allowed' \in BOOLEAN
    BY <1>1 DEF PreflightOpen
  <2>2. TypeOK'
    BY <1>1, <2>1 DEF PreflightOpen, Typed, TypeOK, history
  <2>3. Shape'
    BY <1>1 DEF PreflightOpen, Typed, Shape, OpShape, RestoreInUse, history
  <2> QED BY <2>2, <2>3 DEF Typed
<1>2. CASE RestoreLoad
  <2>1. TypeOK'
    BY <1>2 DEF RestoreLoad, Typed, TypeOK, history
  <2>2. Shape'
    BY <1>2 DEF RestoreLoad, Typed, Shape, OpShape, RestoreInUse, history
  <2> QED BY <2>1, <2>2 DEF Typed
<1>3. CASE RestoreBackup \/ RestoreWrite
  <2> DEFINE s == pfMem.restore.slot
             v == pfMem.restore.v
             old == IF snap = None THEN [t \in Slots |-> None] ELSE snap
  <2>1. s \in plan.slots /\ s \in Slots /\ v \in Versions /\ local[s] \in Versions
    <3>1. pfMem.restore # None /\ pfMem \in State /\ s \in plan.slots
      BY <1>3 DEF RestoreBackup, RestoreWrite, Typed, TypeOK, Shape, RestoreInUse
    <3>2. s \in Slots /\ v \in Versions
      BY <3>1 DEF State
    <3>3. local[s] # None
      BY <3>1, <3>2 DEF Typed, Shape
    <3> QED BY <3>1, <3>2, <3>3 DEF Typed, TypeOK
  <2>2. old \in [Slots -> Versions \cup {None}]
    BY DEF Typed, TypeOK
  <2>3. CASE RestoreBackup
    <3>1. vault' = [vault EXCEPT ![s] = @ \cup {local[s]}] \/ UNCHANGED vault
      BY <2>3 DEF RestoreBackup
    <3>2. /\ vault' \in [Slots -> SUBSET Contents]
          /\ \A t \in Slots : vault'[t] # {} => t \in plan.slots
      BY <2>1, <3>1 DEF Typed, TypeOK, Shape, Contents
    <3>3. pfMem' \in State /\ RestoreInUse(pfMem)' /\ (pf' = "restore_write" => UNCHANGED pfMem)
          /\ pf' \in {"restore_write", "spawn"}
      BY <2>3, EmptyType DEF RestoreBackup, SkipRestore, Typed, TypeOK, Shape, RestoreInUse
    <3> HIDE DEF s, v, old
    <3>4. TypeOK'
      BY <2>3, <3>2, <3>3 DEF RestoreBackup, Typed, TypeOK, history
    <3>5. Shape'
      BY <2>3, <3>2, <3>3 DEF RestoreBackup, Typed, Shape, OpShape, RestoreInUse, history
    <3> QED BY <3>4, <3>5 DEF Typed
  <2>4. CASE RestoreWrite
    <3>1. /\ snap' = [old EXCEPT ![s] = v] \/ UNCHANGED snap
          /\ \/ local' = [local EXCEPT ![s] = v] /\ SavedAs(s, v)
             \/ UNCHANGED << local, onPhone, onSteam >>
          /\ late' = late \cup {s} \/ UNCHANGED late
          /\ pf' \in {"restore_save", "spawn"}
          /\ pfMem' = EmptyState \/ UNCHANGED pfMem
      BY <2>4 DEF RestoreWrite, SkipRestore
    <3>2. /\ snap' \in [Slots -> Versions \cup {None}] \cup {None}
          /\ snap' # None => \A t \in Slots : snap'[t] # None => t \in plan.slots
      <4> HIDE DEF s, v
      <4>1. \A t \in Slots : old[t] # None => t \in plan.slots
        BY DEF Typed, Shape
      <4> HIDE DEF old
      <4>2. CASE snap' = [old EXCEPT ![s] = v]
        BY <2>1, <2>2, <4>1, <4>2
      <4>3. CASE UNCHANGED snap
        BY <4>3 DEF Typed, TypeOK, Shape
      <4> QED BY <3>1, <4>2, <4>3
    <3>3. /\ local' \in [Slots -> Versions \cup {None}]
          /\ \A t \in Slots : local'[t] # None <=> t \in plan.slots
      BY <2>1, <3>1 DEF Typed, TypeOK, Shape
    <3>4. /\ onPhone' \in [Slots -> SUBSET Versions] /\ onSteam' \in [Slots -> SUBSET Contents]
      BY <2>1, <3>1 DEF Typed, TypeOK, SavedAs
    <3>5. pfMem' \in State /\ RestoreInUse(pfMem)' /\ late' \in SUBSET Slots
      BY <2>1, <2>4, <3>1, EmptyType DEF RestoreWrite, Typed, TypeOK, Shape, RestoreInUse
    <3> HIDE DEF s, v, old
    <3>6. TypeOK'
      BY <2>4, <3>1, <3>2, <3>3, <3>4, <3>5 DEF RestoreWrite, Typed, TypeOK
    <3>7. Shape'
      BY <2>4, <3>1, <3>2, <3>3, <3>5 DEF RestoreWrite, Typed, Shape, OpShape, RestoreInUse
    <3> QED BY <3>6, <3>7 DEF Typed
  <2> QED BY <1>3, <2>3, <2>4
<1>4. CASE RestoreSave
  <2>1. pfMem \in State /\ disk \in State
    BY DEF Typed, TypeOK
  <2>2. [pfMem EXCEPT !.restore = None] \in State /\ [pfMem EXCEPT !.restore = None].restore = None
    BY <2>1 DEF State
  <2>3. disk' \in State /\ RestoreInUse(disk)'
    BY <1>4, <2>1, <2>2 DEF RestoreSave, Typed, Shape, RestoreInUse
  <2>4. TypeOK'
    BY <1>4, <2>3, EmptyType DEF RestoreSave, Typed, TypeOK, history
  <2>5. Shape'
    BY <1>4, <2>3, EmptyType DEF RestoreSave, Typed, Shape, OpShape, RestoreInUse, history
  <2> QED BY <2>4, <2>5 DEF Typed
<1>5. CASE StartPrelaunch
  <2>1. op' \in Operation /\ op'.pc = "enter" /\ op'.todo = {} /\ op'.mem = EmptyState
    BY <1>5, EmptyType, NoBytesType DEF StartPrelaunch, BeginSync, Begin, Operation, SyncKinds, Pcs
  <2>2. TypeOK'
    BY <1>5, <2>1 DEF StartPrelaunch, BeginSync, Begin, Typed, TypeOK
  <2>3. OpShape(op)'
    BY <2>1, EmptyType DEF OpShape, RestoreInUse, SlotPcs
  <2>4. Shape'
    BY <1>5, <2>3 DEF StartPrelaunch, BeginSync, Begin, Typed, Shape, RestoreInUse
  <2> QED BY <2>2, <2>4 DEF Typed
<1>6. CASE PreflightSkip \/ PreflightClose
  <2>1. allowed' \in BOOLEAN
    BY <1>6 DEF PreflightSkip, PreflightClose
  <2>2. TypeOK'
    BY <1>6, <2>1 DEF PreflightSkip, PreflightClose, Typed, TypeOK, history
  <2>3. Shape'
    BY <1>6 DEF PreflightSkip, PreflightClose, Typed, Shape, OpShape, RestoreInUse, history
  <2> QED BY <2>2, <2>3 DEF Typed
<1> QED BY <1>1, <1>2, <1>3, <1>4, <1>5, <1>6 DEF Preflight

LEMMA UserTyped ==
  ASSUME Typed, User
  PROVE  Typed'
<1>1. CASE StartSync
  <2>1. PICK kind \in {"auto", "manual"} : BeginSync(kind)
    BY <1>1 DEF StartSync
  <2>2. op' \in Operation /\ op'.pc = "enter" /\ op'.todo = {} /\ op'.mem = EmptyState
    BY <2>1, EmptyType, NoBytesType DEF BeginSync, Begin, Operation, SyncKinds, Pcs
  <2>3. TypeOK'
    BY <1>1, <2>1, <2>2 DEF StartSync, BeginSync, Begin, Typed, TypeOK
  <2>4. OpShape(op)'
    BY <2>2, EmptyType DEF OpShape, RestoreInUse, SlotPcs
  <2>5. Shape'
    BY <1>1, <2>1, <2>4 DEF StartSync, BeginSync, Begin, Typed, Shape, RestoreInUse
  <2> QED BY <2>3, <2>5 DEF Typed
<1>2. ASSUME NEW s \in Slots, StartForce(s) PROVE Typed'
  <2>1. PICK kind \in ForceKinds : Begin(kind, EmptyState, "force_list", s)
    BY <1>2 DEF StartForce
  <2>2. op' \in Operation /\ op'.pc = "force_list" /\ op'.slot = s /\ op'.todo = {}
        /\ op'.mem = EmptyState
    BY <2>1, EmptyType, NoBytesType DEF Begin, Operation, Pcs
  <2>3. TypeOK'
    BY <1>2, <2>1, <2>2 DEF StartForce, Begin, Typed, TypeOK
  <2>4. OpShape(op)'
    BY <2>2, EmptyType DEF OpShape, RestoreInUse, SlotPcs
  <2>5. Shape'
    BY <1>2, <2>1, <2>4 DEF StartForce, Begin, Typed, Shape, RestoreInUse
  <2> QED BY <2>3, <2>5 DEF Typed
<1>3. ASSUME NEW s \in Slots, QueueRestore(s) PROVE Typed'
  <2> DEFINE mem(v) == [disk EXCEPT !.restore = [slot |-> s, v |-> v]]
  <2>1. PICK v \in vault[s] \cap Versions : Begin("restore", mem(v), "queue_save", s)
    BY <1>3 DEF QueueRestore
  <2>2. s \in plan.slots
    BY <2>1 DEF Typed, Shape
  <2>3. mem(v) \in State /\ mem(v).restore = [slot |-> s, v |-> v]
    BY <2>1 DEF Typed, TypeOK, State
  <2> HIDE DEF mem
  <2>4. op' \in Operation /\ op'.pc = "queue_save" /\ op'.todo = {} /\ op'.mem = mem(v)
    BY <2>1, <2>3, NoBytesType DEF Begin, Operation, Pcs
  <2>5. TypeOK'
    BY <1>3, <2>1, <2>4 DEF QueueRestore, Begin, Typed, TypeOK
  <2>6. RestoreInUse(op.mem)'
    BY <1>3, <2>1, <2>2, <2>3, <2>4 DEF RestoreInUse, Begin
  <2>7. OpShape(op)'
    BY <2>4, <2>6 DEF OpShape, RestoreInUse, SlotPcs
  <2>8. Shape'
    BY <1>3, <2>1, <2>7 DEF QueueRestore, Begin, Typed, Shape, RestoreInUse
  <2> QED BY <2>5, <2>8 DEF Typed
<1> QED BY <1>1, <1>2, <1>3 DEF User

-----------------------------------------------------------------------------
(* What the steps on the lane make of the operation *)

\* BASE or a queue entry written: in a state, and in the state an operation has in memory
BaseIn(st, sl, v)  == [st EXCEPT !.base[sl] = v]
PullIn(st, sl, f)  == [st EXCEPT !.pulls[sl] = f]
SetBase(o, sl, v)  == [o EXCEPT !.mem.base[sl] = v]
SetPull(o, sl, f)  == [o EXCEPT !.mem.pulls[sl] = f]

LEMMA MemPaths ==
  ASSUME NEW o \in Operation, NEW s \in Slots, NEW v, NEW f
  PROVE  /\ [o EXCEPT !.mem.base[s] = v] = [o EXCEPT !.mem = [o.mem EXCEPT !.base[s] = v]]
         /\ [o EXCEPT !.mem.pulls[s] = f] = [o EXCEPT !.mem = [o.mem EXCEPT !.pulls[s] = f]]
BY DEF Operation

\* All that an operation keeps when only its state in memory changes
SameButMem(n, o) ==
  /\ n.kind = o.kind /\ n.pc = o.pc /\ n.slot = o.slot /\ n.todo = o.todo /\ n.mine = o.mine
  /\ n.listed = o.listed /\ n.bytes = o.bytes /\ n.staged = o.staged
  /\ Tally(n) = Tally(o)

LEMMA BasedType ==
  ASSUME NEW o \in Operation, NEW s \in Slots, NEW v \in Versions \cup {None}
  PROVE  /\ SetBase(o, s, v) \in Operation
         /\ SameButMem(SetBase(o, s, v), o)
         /\ SetBase(o, s, v).mem = BaseIn(o.mem, s, v)
<1> DEFINE st == [o.mem EXCEPT !.base[s] = v]
<1>1. st \in State
  BY BaseType DEF Operation
<1>2. SetBase(o, s, v) = [o EXCEPT !.mem = st]
  BY MemPaths DEF SetBase
<1>3. st = BaseIn(o.mem, s, v)
  BY DEF BaseIn
<1> HIDE DEF st
<1> QED BY <1>1, <1>2, <1>3, MemType DEF SameButMem

LEMMA UnqueuedType ==
  ASSUME NEW o \in Operation, NEW s \in Slots, NEW f \in Files \cup {None}
  PROVE  /\ SetPull(o, s, f) \in Operation
         /\ SameButMem(SetPull(o, s, f), o)
         /\ SetPull(o, s, f).mem = PullIn(o.mem, s, f)
<1> DEFINE st == [o.mem EXCEPT !.pulls[s] = f]
<1>1. st \in State
  BY PullsType DEF Operation
<1>2. SetPull(o, s, f) = [o EXCEPT !.mem = st]
  BY MemPaths DEF SetPull
<1>3. st = PullIn(o.mem, s, f)
  BY DEF PullIn
<1> HIDE DEF st
<1> QED BY <1>1, <1>2, <1>3, MemType DEF SameButMem

LEMMA BaseInIs ==
  ASSUME NEW st \in State, NEW s \in Slots, NEW v \in Versions \cup {None}
  PROVE  /\ BaseIn(st, s, v) \in State
         /\ BaseIn(st, s, v).pulls = st.pulls
         /\ BaseIn(st, s, v).restore = st.restore
BY BaseType DEF BaseIn

LEMMA BaseInAt ==
  ASSUME NEW st \in State, NEW s \in Slots, NEW v \in Versions \cup {None}, NEW t \in Slots
  PROVE  BaseIn(st, s, v).base[t] = IF t = s THEN v ELSE st.base[t]
<1>1. BaseIn(st, s, v).base = [st.base EXCEPT ![s] = v] /\ st.base \in [Slots -> Versions \cup {None}]
  BY BaseType DEF BaseIn, State
<1> QED BY <1>1

LEMMA PullInIs ==
  ASSUME NEW st \in State, NEW s \in Slots, NEW f \in Files \cup {None}
  PROVE  /\ PullIn(st, s, f) \in State
         /\ PullIn(st, s, f).base = st.base
         /\ PullIn(st, s, f).restore = st.restore
BY PullsType DEF PullIn

LEMMA PullInAt ==
  ASSUME NEW st \in State, NEW s \in Slots, NEW f \in Files \cup {None}, NEW t \in Slots
  PROVE  PullIn(st, s, f).pulls[t] = IF t = s THEN f ELSE st.pulls[t]
<1>1. PullIn(st, s, f).pulls = [st.pulls EXCEPT ![s] = f] /\ st.pulls \in [Slots -> Files \cup {None}]
  BY PullsType DEF PullIn, State
<1> QED BY <1>1

\* The operation `n` is `o` after a slot: with the state `st` in memory, and a
\* tally that tells more of this slot alone
Settled(n, o, st) ==
  /\ n \in Operation /\ n.pc = "slot" /\ n.todo = o.todo \ {o.slot}
  /\ n.kind = o.kind /\ n.mine = o.mine /\ n.listed = o.listed /\ n.mem = st
  /\ n.done = o.done \cup {o.slot}
  /\ \A s \in Slots \ {o.slot} : n.found[s] = o.found[s]
  /\ o.waiting => n.waiting

\* The user is told of the slot: by a choice, or that an upload waits
Told(n, s) == n.found[s] # None \/ n.waiting

\* The operation `n` is `o` at the step `pc`, with the state `st` in memory
Moved(n, o, pc, st) ==
  /\ n \in Operation /\ n.pc = pc /\ n.todo = o.todo /\ n.slot = o.slot
  /\ n.bytes = o.bytes /\ n.staged = o.staged
  /\ n.kind = o.kind /\ n.mine = o.mine /\ n.listed = o.listed /\ n.mem = st
  /\ Tally(n) = Tally(o)

LEMMA Settles ==
  ASSUME NEW o, NEW m \in Operation, NEW kind \in ChoiceKinds \cup {None},
         m.slot \in Slots, SameButMem(m, o)
  PROVE  /\ Settled(NextSlot(m, kind), o, m.mem)
         /\ kind # None => Told(NextSlot(m, kind), o.slot)
         /\ Settled([NextSlot(m, kind) EXCEPT !.waiting = TRUE], o, m.mem)
         /\ Told([NextSlot(m, kind) EXCEPT !.waiting = TRUE], o.slot)
<1>1. Settled(NextSlot(m, kind), o, m.mem) /\ NextSlot(m, kind).found[m.slot] = kind
  <2>1. m.found \in [Slots -> ChoiceKinds \cup {None}]
    BY DEF Operation
  <2>2. NextSlot(m, kind).found = [m.found EXCEPT ![m.slot] = kind]
    BY NextSlotType
  <2>3. NextSlot(m, kind).found[m.slot] = kind
    BY <2>1, <2>2
  <2>4. \A s \in Slots \ {m.slot} : NextSlot(m, kind).found[s] = m.found[s]
    BY <2>1, <2>2
  <2>5. Settled(NextSlot(m, kind), m, m.mem)
    BY <2>4, NextSlotType DEF Settled, Rest
  <2> QED BY <2>3, <2>5 DEF Settled, SameButMem, Tally
<1>2. /\ Settled([NextSlot(m, kind) EXCEPT !.waiting = TRUE], o, m.mem)
      /\ [NextSlot(m, kind) EXCEPT !.waiting = TRUE].waiting
  <2> DEFINE n == NextSlot(m, kind)
  <2>1. n \in Operation
    BY <1>1 DEF Settled
  <2> HIDE DEF n
  <2>2. [n EXCEPT !.waiting = TRUE] \in Operation
    BY <2>1, WaitType
  <2> QED BY <1>1, <2>1, <2>2, WaitType DEF Settled, Rest, n
<1> QED BY <1>1, <1>2 DEF Told, SameButMem

LEMMA Moves ==
  ASSUME NEW o, NEW m \in Operation, NEW pc \in Pcs, SameButMem(m, o)
  PROVE  Moved([m EXCEPT !.pc = pc], o, pc, m.mem)
BY GotoType DEF Moved, SameButMem, Rest

\* The state in memory without the queue entry of the slot at hand, and with
\* the local identity as its BASE too
MemUnqueued  == PullIn(op.mem, op.slot, None)
MemConverged == BaseIn(MemUnqueued, op.slot, Mine)

LEMMA DecideEffect ==
  ASSUME Typed, SyncDecide
  PROVE  \/ /\ UNCHANGED vault /\ QueuedIsListed /\ allowed
            /\ Moved(op', op, "pull", op.mem)
         \/ UNCHANGED vault /\ Settled(op', op, op.mem) /\ Told(op', op.slot)
         \/ /\ UNCHANGED vault /\ ~QueuedIsListed /\ Decision = "download" /\ allowed
            /\ Moved(op', op, "pull", MemUnqueued)
         \/ UNCHANGED vault /\ op.kind = "manual" /\ Moved(op', op, "push", MemUnqueued)
         \/ /\ UNCHANGED vault /\ Settled(op', op, MemUnqueued)
            /\ Told(op', op.slot) \/ (Mine = Theirs /\ Mine = op.mem.base[op.slot])
         \/ UNCHANGED vault /\ Mine = Theirs /\ Settled(op', op, MemConverged)
         \/ /\ vault' = [vault EXCEPT ![op.slot] = @ \cup {local[op.slot], Theirs}]
            /\ Settled(op', op, MemUnqueued) /\ Told(op', op.slot)
<1> DEFINE s == op.slot
           o == Dequeued
           b == [o EXCEPT !.mem.base[s] = Mine]
<1>1. op \in Operation /\ op.pc = "decide" /\ s \in plan.slots
  BY DEF Typed, TypeOK, Shape, OpShape, SyncDecide, InOp, SlotPcs
<1>2. s \in Slots /\ Mine \in Versions \cup {None}
  BY <1>1, PlanFacts DEF Typed, TypeOK, PlanType, Operation, Mine
<1>3. o \in Operation /\ SameButMem(o, op) /\ o.mem = MemUnqueued
  <2>1. o = SetPull(op, s, None)
    BY DEF Dequeued, SetPull
  <2> HIDE DEF o
  <2> QED BY <1>1, <1>2, <2>1, UnqueuedType DEF MemUnqueued
<1>4. b \in Operation /\ SameButMem(b, o) /\ b.mem = MemConverged
  <2>1. b = SetBase(o, s, Mine)
    BY DEF SetBase
  <2> HIDE DEF o, b
  <2> QED BY <1>2, <1>3, <2>1, BasedType DEF MemConverged
<1>5. SameButMem(b, op) /\ SameButMem(op, op)
  BY <1>3, <1>4 DEF SameButMem
<1> HIDE DEF o, b
<1>6. CASE QueuedIsListed /\ PullOrAsk(op) /\ UNCHANGED vault
  <2>1. CASE allowed
    BY <1>1, <1>5, <1>6, <2>1, Moves DEF PullOrAsk, Pcs
  <2>2. CASE ~allowed
    BY <1>1, <1>2, <1>5, <1>6, <2>2, Settles DEF PullOrAsk, ChoiceKinds
  <2> QED BY <2>1, <2>2
<1>7. ASSUME NEW m, \/ m = o
                    \/ m = b /\ Mine = Theirs /\ op.kind # "manual",
             PushOrWait(m), UNCHANGED vault
      PROVE  \/ UNCHANGED vault /\ op.kind = "manual" /\ Moved(op', op, "push", MemUnqueued)
             \/ UNCHANGED vault /\ Settled(op', op, MemUnqueued) /\ Told(op', op.slot)
             \/ UNCHANGED vault /\ Mine = Theirs /\ Settled(op', op, MemConverged)
  <2>1. m \in Operation /\ SameButMem(m, op) /\ m.slot = s /\ m.kind = op.kind
    BY <1>3, <1>4, <1>5, <1>7 DEF SameButMem
  <2>2. CASE op.kind = "manual"
    BY <1>3, <1>7, <2>1, <2>2, Moves DEF PushOrWait, Pcs
  <2>3. CASE op.kind # "manual"
    <3>1. op' = [NextSlot(m, None) EXCEPT !.waiting = TRUE]
      BY <1>7, <2>1, <2>3 DEF PushOrWait
    <3>2. Settled(op', op, m.mem) /\ Told(op', op.slot)
      BY <1>2, <2>1, <3>1, Settles
    <3> QED BY <1>3, <1>4, <1>7, <3>2
  <2> QED BY <2>2, <2>3
<1>8. CASE ~QueuedIsListed /\ Decision = "unchanged" /\ UNCHANGED vault
           /\ IF op.bytes.lz4 THEN PushOrWait(o) ELSE op' = NextSlot(o, None)
  <2>1. CASE PushOrWait(o)
    BY <1>7, <1>8, <2>1
  <2>2. CASE op' = NextSlot(o, None)
    <3>1. o.slot \in Slots
      BY <1>2, <1>3 DEF SameButMem
    <3>2. Settled(op', op, MemUnqueued)
      BY <1>3, <2>2, <3>1, Settles
    <3>3. Mine = Theirs /\ Mine = op.mem.base[s]
      BY <1>8 DEF Decision, Decide
    <3> QED BY <1>8, <3>2, <3>3
  <2> QED BY <1>8, <2>1, <2>2
<1>9. CASE ~QueuedIsListed /\ Decision = "converged" /\ UNCHANGED vault
           /\ IF op.bytes.lz4 THEN PushOrWait(IF op.kind = "manual" THEN o ELSE b)
              ELSE op' = NextSlot(b, None)
  <2>1. Mine = Theirs
    BY <1>9 DEF Decision, Decide
  <2>2. CASE op' = NextSlot(b, None)
    <3>1. b.slot \in Slots
      BY <1>2, <1>5 DEF SameButMem
    <3>2. Settled(op', op, MemConverged)
      BY <1>4, <1>5, <2>2, <3>1, Settles
    <3> QED BY <1>9, <2>1, <3>2
  <2>3. CASE PushOrWait(IF op.kind = "manual" THEN o ELSE b)
    <3>1. CASE op.kind = "manual"
      BY <1>7, <1>9, <2>3, <3>1
    <3>2. CASE op.kind # "manual"
      BY <1>7, <1>9, <2>1, <2>3, <3>2
    <3> QED BY <3>1, <3>2
  <2> QED BY <1>9, <2>2, <2>3
<1>10. CASE ~QueuedIsListed /\ Decision = "upload" /\ PushOrWait(o) /\ UNCHANGED vault
  BY <1>7, <1>10
<1>11. CASE ~QueuedIsListed /\ Decision = "download" /\ PullOrAsk(o) /\ UNCHANGED vault
  <2>1. CASE allowed
    BY <1>3, <1>11, <2>1, Moves DEF PullOrAsk, Pcs
  <2>2. CASE ~allowed
    <3>1. o.slot \in Slots
      BY <1>2, <1>3 DEF SameButMem
    <3>2. Settled(op', op, MemUnqueued) /\ Told(op', op.slot)
      BY <1>3, <1>11, <2>2, <3>1, Settles DEF PullOrAsk, ChoiceKinds
    <3> QED BY <1>11, <3>2
  <2> QED BY <2>1, <2>2
<1>12. CASE /\ ~QueuedIsListed /\ Decision \in {"first_sync", "conflict"}
            /\ vault' = [vault EXCEPT ![s] = @ \cup {local[s], Theirs}]
            /\ op' = NextSlot(o, Decision)
  <2>1. o.slot \in Slots /\ Decision \in ChoiceKinds
    BY <1>2, <1>3, <1>12 DEF SameButMem, ChoiceKinds
  <2>2. Settled(op', op, MemUnqueued) /\ Told(op', op.slot)
    BY <1>3, <1>12, <2>1, Settles
  <2> QED BY <1>12, <2>2
<1> QED
  <2> USE DEF o, b
  <2> QED BY <1>6, <1>8, <1>9, <1>10, <1>11, <1>12 DEF SyncDecide

LEMMA BeginEffect ==
  ASSUME Typed, SyncBegin, op' # None
  PROVE  LET mine == IF op.kind = "prelaunch" THEN snap ELSE local
         IN /\ op' \in Operation /\ op'.pc = "slot" /\ op'.mine = mine
            /\ op'.todo \subseteq {s \in Slots : mine[s] # None}
            /\ op'.listed = remote /\ op'.mem = disk
            /\ op'.kind = op.kind /\ op'.done = op.done
            /\ mine \in [Slots -> Versions \cup {None}]
<1> DEFINE mine == IF op.kind = "prelaunch" THEN snap ELSE local
           todo == {s \in Slots : mine[s] # None /\ (remote[s] # None \/ op.kind = "manual")}
<1>1. op \in Operation /\ disk \in State /\ remote \in [Slots -> Files \cup {None}]
  BY DEF SyncBegin, InOp, Typed, TypeOK
<1>2. mine \in [Slots -> Versions \cup {None}]
  BY DEF SyncBegin, Typed, TypeOK
<1>3. op' = [op EXCEPT !.pc = "slot", !.todo = todo, !.mine = mine,
                       !.listed = remote, !.mem = disk]
  BY DEF SyncBegin, Fail
<1>4. todo \in SUBSET Slots /\ todo \subseteq {s \in Slots : mine[s] # None}
  OBVIOUS
<1> HIDE DEF mine, todo
<1>5. /\ op' \in Operation /\ op'.pc = "slot" /\ op'.mine = mine
      /\ op'.todo = todo /\ op'.listed = remote /\ op'.mem = disk /\ op'.kind = op.kind
      /\ op'.done = op.done
  BY <1>1, <1>2, <1>3, <1>4 DEF Operation, Pcs
<1> QED BY <1>2, <1>4, <1>5 DEF mine

LEMMA SlotEffect ==
  ASSUME Typed, SyncSlot
  PROVE  \E s \in op.todo :
           \/ /\ vault' = [vault EXCEPT ![s] = @ \cup {local[s]}]
              /\ op' \in Operation /\ op'.pc = "slot" /\ op'.todo = op.todo \ {s}
              /\ op'.done = op.done \cup {s} /\ op'.found = [op.found EXCEPT ![s] = "missing"]
              /\ op'.waiting = op.waiting
              /\ Rest(op') = Rest(op)
           \/ /\ UNCHANGED vault
              /\ op' \in Operation /\ op'.pc = "download" /\ op'.slot = s /\ op'.todo = op.todo
              /\ op.listed[s] # None
              /\ Rest(op') = Rest(op) /\ Tally(op') = Tally(op)
<1>1. op \in Operation /\ op.todo \subseteq Slots
  BY DEF SyncSlot, InOp, Typed, TypeOK, Operation
<1>2. PICK s \in op.todo :
         IF op.listed[s] = None
         THEN /\ op' = NextSlot([op EXCEPT !.slot = s], "missing")
              /\ vault' = [vault EXCEPT ![s] = @ \cup {local[s]}]
         ELSE /\ op' = [op EXCEPT !.slot = s, !.pc = "download"]
              /\ UNCHANGED vault
  BY DEF SyncSlot
<1>3. CASE op.listed[s] = None
  <2> DEFINE o == [op EXCEPT !.slot = s]
  <2>1. /\ o \in Operation /\ o.slot = s /\ o.todo = op.todo /\ Rest(o) = Rest(op)
        /\ Tally(o) = Tally(op)
    BY <1>1 DEF Operation, Rest, Tally
  <2> HIDE DEF o
  <2>2. /\ NextSlot(o, "missing") \in Operation /\ NextSlot(o, "missing").pc = "slot"
        /\ NextSlot(o, "missing").todo = op.todo \ {s}
        /\ NextSlot(o, "missing").done = op.done \cup {s}
        /\ NextSlot(o, "missing").found = [op.found EXCEPT ![s] = "missing"]
        /\ NextSlot(o, "missing").waiting = op.waiting
        /\ Rest(NextSlot(o, "missing")) = Rest(op)
    BY <1>1, <2>1, NextSlotType DEF ChoiceKinds, Tally
  <2> QED BY <1>2, <1>3, <2>2 DEF o
<1>4. CASE op.listed[s] # None
  <2>1. op' = [op EXCEPT !.slot = s, !.pc = "download"] /\ UNCHANGED vault
    BY <1>2, <1>4
  <2>2. /\ op' \in Operation /\ op'.pc = "download" /\ op'.slot = s /\ op'.todo = op.todo
        /\ Rest(op') = Rest(op) /\ Tally(op') = Tally(op)
    BY <1>1, <2>1 DEF Operation, Rest, Tally, Pcs
  <2> QED BY <1>4, <2>1, <2>2
<1> QED BY <1>3, <1>4

LEMMA DownloadEffect ==
  ASSUME Typed, SyncDownload, op' # None
  PROVE  /\ op' \in Operation /\ op'.pc = "decide" /\ op'.slot = op.slot /\ op'.todo = op.todo
         /\ op'.bytes = remote[op.slot] /\ op'.bytes.v \in Versions
         /\ op'.bytes \in Files
         /\ Rest(op') = Rest(op) /\ Tally(op') = Tally(op) /\ UNCHANGED vault
<1>1. op \in Operation /\ op.slot \in Slots
  BY PlanFacts DEF SyncDownload, InOp, Typed, TypeOK, PlanType, Shape, OpShape, SlotPcs
<1>2. remote[op.slot] \in Files /\ remote[op.slot].v # Corrupt
  BY <1>1 DEF SyncDownload, Fail, Typed, TypeOK
<1>3. op' = [op EXCEPT !.bytes = remote[op.slot], !.pc = "decide"] /\ UNCHANGED vault
  BY <1>2 DEF SyncDownload
<1>4. remote[op.slot].v \in Versions
  BY <1>2 DEF Files, Contents
<1> QED BY <1>1, <1>2, <1>3, <1>4 DEF Operation, Rest, Tally, Pcs

LEMMA WriteEffect ==
  ASSUME Typed, PullWrite
  PROVE  /\ op.slot \in plan.slots /\ op.slot \in Slots /\ Theirs \in Versions
         /\ \/ op' = None /\ UNCHANGED spent
            \/ Settled(op', op, BaseIn(MemUnqueued, op.slot, Theirs))
<1> DEFINE s == op.slot
           b == [Dequeued EXCEPT !.mem.base[s] = Theirs]
<1>1. op \in Operation /\ s \in plan.slots /\ s \in Slots /\ Theirs \in Versions
  BY PlanFacts DEF PullWrite, InOp, Typed, TypeOK, PlanType, Shape, OpShape, SlotPcs, Theirs
<1>2. Dequeued \in Operation /\ SameButMem(Dequeued, op) /\ Dequeued.mem = MemUnqueued
  <2>1. Dequeued = SetPull(op, s, None)
    BY DEF Dequeued, SetPull
  <2> QED BY <1>1, <2>1, UnqueuedType DEF MemUnqueued
<1>3. b \in Operation /\ SameButMem(b, Dequeued) /\ b.mem = BaseIn(MemUnqueued, s, Theirs)
  <2>1. b = SetBase(Dequeued, s, Theirs)
    BY DEF SetBase
  <2> HIDE DEF b
  <2> QED BY <1>1, <1>2, <2>1, BasedType
<1>4. op' = NextSlot(b, None) \/ (op' = None /\ UNCHANGED spent)
  BY DEF PullWrite
<1> HIDE DEF b
<1>5. SameButMem(b, op) /\ b.slot \in Slots
  BY <1>1, <1>2, <1>3 DEF SameButMem
<1>6. Settled(NextSlot(b, None), op, b.mem)
  BY <1>3, <1>5, Settles
<1> QED BY <1>1, <1>3, <1>4, <1>6

LEMMA VerifyEffect ==
  ASSUME Typed, PushVerify
  PROVE  /\ op.slot \in plan.slots /\ op.slot \in Slots /\ op.staged \in Versions
         /\ \/ /\ op.kind \in ForceKinds
               /\ Moved(op', op, "force_save", BaseIn(op.mem, op.slot, op.staged))
            \/ /\ op.kind \notin ForceKinds
               /\ Settled(op', op, BaseIn(op.mem, op.slot, op.staged))
<1> DEFINE b == [op EXCEPT !.mem.base[op.slot] = op.staged]
<1>1. op \in Operation /\ op.slot \in plan.slots /\ op.slot \in Slots /\ op.staged \in Versions
  BY PlanFacts DEF PushVerify, InOp, Typed, TypeOK, PlanType, Shape, OpShape, SlotPcs
<1>2. b \in Operation /\ SameButMem(b, op) /\ b.mem = BaseIn(op.mem, op.slot, op.staged)
  <2>1. b = SetBase(op, op.slot, op.staged)
    BY DEF SetBase
  <2> HIDE DEF b
  <2> QED BY <1>1, <2>1, BasedType
<1>3. op' = IF op.kind \in ForceKinds THEN [b EXCEPT !.pc = "force_save"] ELSE NextSlot(b, None)
  BY DEF PushVerify
<1> HIDE DEF b
<1>4. b.slot \in Slots
  BY <1>1, <1>2 DEF SameButMem
<1>5. Settled(NextSlot(b, None), op, b.mem)
  BY <1>2, <1>4, Settles
<1>6. Moved([b EXCEPT !.pc = "force_save"], op, "force_save", b.mem)
  BY <1>2, Moves DEF Pcs
<1>7. CASE op.kind \in ForceKinds
  <2>1. op' = [b EXCEPT !.pc = "force_save"]
    BY <1>3, <1>7
  <2> QED BY <1>1, <1>2, <1>6, <1>7, <2>1
<1>8. CASE op.kind \notin ForceKinds
  <2>1. op' = NextSlot(b, None)
    BY <1>3, <1>8
  <2> QED BY <1>1, <1>2, <1>5, <1>8, <2>1
<1> QED BY <1>7, <1>8

LEMMA ForceBeginEffect ==
  ASSUME Typed, ForceBegin
  PROVE  /\ op.slot \in plan.slots /\ op.slot \in Slots
         /\ op' \in Operation /\ op'.slot = op.slot /\ op'.kind = op.kind /\ op'.todo = op.todo
         /\ op'.listed = remote /\ op'.mem = disk /\ op'.mine = op.mine /\ op'.done = op.done
         /\ \/ remote[op.slot] # None /\ op'.pc = "force_download"
            \/ op.kind # "keep_remote" /\ op'.pc = "push"
<1>1. op \in Operation /\ op.slot \in Slots /\ op.slot \in plan.slots
  BY DEF ForceBegin, InOp, Typed, TypeOK, Shape, OpShape
<1>2. disk \in State /\ remote \in [Slots -> Files \cup {None}]
  BY DEF Typed, TypeOK
<1> DEFINE o == [op EXCEPT !.listed = remote, !.mem = disk]
<1>3. /\ o \in Operation /\ o.slot = op.slot /\ o.kind = op.kind /\ o.todo = op.todo
      /\ o.listed = remote /\ o.mem = disk /\ o.mine = op.mine /\ o.done = op.done
  BY <1>1, <1>2 DEF Operation
<1>4. \/ remote[op.slot] # None /\ op' = [o EXCEPT !.pc = "force_download"]
      \/ op.kind # "keep_remote" /\ op' = [o EXCEPT !.pc = "push"]
  BY DEF ForceBegin
<1> HIDE DEF o
<1>5. CASE remote[op.slot] # None /\ op' = [o EXCEPT !.pc = "force_download"]
  BY <1>1, <1>3, <1>5 DEF Operation, Pcs
<1>6. CASE op.kind # "keep_remote" /\ op' = [o EXCEPT !.pc = "push"]
  BY <1>1, <1>3, <1>6 DEF Operation, Pcs
<1> QED BY <1>4, <1>5, <1>6

LEMMA ForceDownloadEffect ==
  ASSUME Typed, ForceDownload
  PROVE  /\ op.slot \in plan.slots /\ op.slot \in Slots /\ remote[op.slot] \in Files
         /\ op' \in Operation /\ op'.slot = op.slot /\ op'.kind = op.kind /\ op'.todo = op.todo
         /\ op'.listed = op.listed /\ op'.mine = op.mine /\ op'.bytes = remote[op.slot]
         /\ op'.done = op.done
         /\ \/ op.kind # "keep_remote" /\ op'.pc = "push" /\ op'.mem = op.mem
            \/ /\ op.kind = "keep_remote" /\ op'.pc = "force_save"
               /\ op'.mem = PullIn(op.mem, op.slot, op.listed[op.slot])
<1>1. /\ op \in Operation /\ op.slot \in Slots /\ op.slot \in plan.slots
      /\ remote[op.slot] \in Files
  BY PlanFacts DEF ForceDownload, InOp, Typed, TypeOK, PlanType, Shape, OpShape, SlotPcs
<1> DEFINE o == [op EXCEPT !.bytes = remote[op.slot]]
           q == [o EXCEPT !.mem.pulls[op.slot] = op.listed[op.slot]]
<1>2. /\ o \in Operation /\ o.slot = op.slot /\ o.kind = op.kind /\ o.todo = op.todo
      /\ o.listed = op.listed /\ o.mem = op.mem /\ o.mine = op.mine /\ o.bytes = remote[op.slot]
      /\ o.done = op.done
  BY <1>1 DEF Operation
<1>3. CASE op.kind # "keep_remote"
  <2>1. op' = [o EXCEPT !.pc = "push"]
    BY <1>3 DEF ForceDownload
  <2> HIDE DEF o
  <2> QED BY <1>1, <1>2, <1>3, <2>1 DEF Operation, Pcs
<1>4. CASE op.kind = "keep_remote"
  <2>1. op' = [q EXCEPT !.pc = "force_save"]
    <3>1. [o EXCEPT !.mem.pulls[op.slot] = op.listed[op.slot], !.pc = "force_save"]
            = [q EXCEPT !.pc = "force_save"]
      OBVIOUS
    <3> QED BY <1>4, <3>1 DEF ForceDownload
  <2>2. q = SetPull(o, op.slot, op.listed[op.slot])
    BY DEF SetPull
  <2>3. op.listed[op.slot] \in Files \cup {None}
    BY <1>1 DEF Operation
  <2> HIDE DEF o, q
  <2>4. /\ q \in Operation /\ SameButMem(q, o)
        /\ q.mem = PullIn(op.mem, op.slot, op.listed[op.slot])
    <3> DEFINE f == op.listed[op.slot]
    <3> HIDE DEF f
    <3>1. o \in Operation /\ op.slot \in Slots /\ f \in Files \cup {None} /\ o.mem = op.mem
      BY <1>1, <1>2, <2>3 DEF f
    <3>2. /\ SetPull(o, op.slot, f) \in Operation
          /\ SameButMem(SetPull(o, op.slot, f), o)
          /\ SetPull(o, op.slot, f).mem = PullIn(o.mem, op.slot, f)
      BY <3>1, UnqueuedType
    <3>3. q = SetPull(o, op.slot, f)
      BY <2>2 DEF f
    <3> QED BY <3>1, <3>2, <3>3 DEF f
  <2>5. q.slot = op.slot /\ q.kind = op.kind /\ q.todo = op.todo /\ q.listed = op.listed
        /\ q.mine = op.mine /\ q.bytes = remote[op.slot] /\ q.done = op.done
    BY <1>2, <2>4 DEF SameButMem, Tally
  <2>6. /\ op' \in Operation /\ op'.slot = q.slot /\ op'.kind = q.kind /\ op'.todo = q.todo
        /\ op'.listed = q.listed /\ op'.mine = q.mine /\ op'.bytes = q.bytes
        /\ op'.pc = "force_save" /\ op'.mem = q.mem /\ op'.done = q.done
    BY <2>1, <2>4 DEF Operation, Pcs
  <2> QED BY <1>1, <1>4, <2>4, <2>5, <2>6
<1> QED BY <1>3, <1>4

LEMMA PrepareEffect ==
  ASSUME Typed, PushPrepare
  PROVE  /\ op.slot \in plan.slots /\ op.slot \in Slots /\ op'.staged \in Versions
         /\ op' \in Operation /\ op'.slot = op.slot /\ op'.pc = "push_assert"
         /\ op'.staged = local[op.slot] /\ op'.bytes = op.bytes
         /\ op'.todo = op.todo /\ Rest(op') = Rest(op) /\ Tally(op') = Tally(op)
<1>1. /\ op \in Operation /\ op.slot \in Slots /\ op.slot \in plan.slots
      /\ local[op.slot] \in Versions
  BY PlanFacts DEF PushPrepare, InOp, Typed, TypeOK, PlanType, Shape, OpShape, SlotPcs
<1>2. op' = [op EXCEPT !.staged = local[op.slot], !.pc = "push_assert"]
  BY DEF PushPrepare
<1> QED BY <1>1, <1>2 DEF Operation, Rest, Tally, Pcs

LEMMA ForceSaveEffect ==
  ASSUME Typed, ForceSave, op' # None
  PROVE  /\ op' \in Operation /\ op'.pc = "enter" /\ op'.kind = "auto" /\ op'.mem = op.mem
         /\ op'.todo = op.todo /\ op'.mine = op.mine /\ op'.done = op.done
         /\ op.kind = "resolve_local"
<1>1. op \in Operation
  BY DEF ForceSave, InOp, Typed, TypeOK
<1>2. op' = [op EXCEPT !.kind = "auto", !.pc = "enter"] /\ op.kind = "resolve_local"
  BY DEF ForceSave
<1> QED BY <1>1, <1>2 DEF Operation, SyncKinds, Pcs

-----------------------------------------------------------------------------
(* Types, for the steps on the lane *)

LEMMA SettledShape ==
  ASSUME Typed, op # None, NEW st \in State, Settled(op', op, st),
         RestoreInUse(st), UNCHANGED plan
  PROVE  op' \in Operation /\ op'.mem = st /\ OpShape(op)'
<1>1. op.todo \subseteq plan.slots
  BY DEF Typed, Shape, OpShape
<1> QED BY <1>1 DEF Settled, OpShape, RestoreInUse, SlotPcs

LEMMA VaultGrows ==
  ASSUME Typed, NEW s \in plan.slots, NEW C, C \subseteq Contents,
         vault' = [vault EXCEPT ![s] = @ \cup C], UNCHANGED plan
  PROVE  vault' \in [Slots -> SUBSET Contents]
         /\ (\A t \in Slots : vault[t] # {} => t \in plan.slots)'
BY DEF Typed, TypeOK, Shape

LEMMA TypesInUse ==
  ASSUME Typed
  PROVE  /\ plan.slots \subseteq Slots
         /\ \A s \in plan.slots : local[s] \in Versions /\ {local[s]} \subseteq Contents
         /\ op # None => /\ op \in Operation /\ op.mem \in State /\ OpShape(op)
                         /\ op.todo \subseteq plan.slots
                         /\ op.pc \in SlotPcs => op.slot \in plan.slots /\ op.slot \in Slots
                         /\ op.bytes \in Files /\ op.bytes.v \in Contents
<1>1. plan.slots \subseteq Slots
  BY PlanFacts DEF Typed, TypeOK, PlanType
<1>2. \A s \in plan.slots : local[s] \in Versions /\ {local[s]} \subseteq Contents
  BY <1>1 DEF Typed, TypeOK, Shape, Contents
<1>3. ASSUME op # None
      PROVE  /\ op \in Operation /\ op.mem \in State /\ OpShape(op)
             /\ op.todo \subseteq plan.slots
             /\ op.pc \in SlotPcs => op.slot \in plan.slots /\ op.slot \in Slots
             /\ op.bytes \in Files
  <2>1. op \in Operation /\ OpShape(op)
    BY <1>3 DEF Typed, TypeOK, Shape
  <2> QED BY <1>1, <2>1 DEF OpShape, Operation
<1>4. op # None => op.bytes.v \in Contents
  BY <1>3 DEF Files
<1> QED BY <1>1, <1>2, <1>3, <1>4

LEMMA OpStep ==
  ASSUME Typed, UNCHANGED << local, remote, disk, snap, allowed, choices, pf, pfMem, plan, history >>,
         \/ UNCHANGED vault
         \/ \E s \in plan.slots, C \in SUBSET Contents : vault' = [vault EXCEPT ![s] = @ \cup C],
         op' \in Operation, OpShape(op)'
  PROVE  Typed'
<1>1. /\ vault' \in [Slots -> SUBSET Contents]
      /\ (\A t \in Slots : vault[t] # {} => t \in plan.slots)'
  <2>1. CASE UNCHANGED vault
    BY <2>1 DEF Typed, TypeOK, Shape
  <2>2. ASSUME NEW s \in plan.slots, NEW C \in SUBSET Contents,
               vault' = [vault EXCEPT ![s] = @ \cup C]
        PROVE  /\ vault' \in [Slots -> SUBSET Contents]
               /\ (\A t \in Slots : vault[t] # {} => t \in plan.slots)'
    BY <2>2, VaultGrows
  <2> QED BY <2>1, <2>2
<1>2. TypeOK'
  BY <1>1 DEF Typed, TypeOK, history
<1>3. Shape'
  BY <1>1 DEF Typed, Shape, RestoreInUse
<1> QED BY <1>2, <1>3 DEF Typed

LEMMA LaneOpTyped ==
  ASSUME Typed, SyncSlot \/ SyncDecide \/ PullBackup \/ PushPrepare \/ PushAssert \/ PushVerify
                \/ ForceBegin \/ ForceDownload
  PROVE  Typed'
<1>0. op # None /\ UNCHANGED << local, remote, disk, snap, allowed, choices, pf, pfMem, plan, history >>
  BY DEF SyncSlot, SyncDecide, PullBackup, PushPrepare, PushAssert, PushVerify, ForceBegin,
         ForceDownload, InOp
<1> DEFINE Grown == \/ UNCHANGED vault
                    \/ \E s \in plan.slots, C \in SUBSET Contents :
                         vault' = [vault EXCEPT ![s] = @ \cup C]
<1>1. op \in Operation /\ OpShape(op) /\ op.mem \in State /\ RestoreInUse(op.mem)
  BY <1>0, TypesInUse DEF OpShape
<1>2. CASE SyncSlot
  <2>1. PICK s \in op.todo :
           \/ /\ vault' = [vault EXCEPT ![s] = @ \cup {local[s]}]
              /\ op' \in Operation /\ op'.pc = "slot" /\ op'.todo = op.todo \ {s}
              /\ Rest(op') = Rest(op)
           \/ /\ UNCHANGED vault
              /\ op' \in Operation /\ op'.pc = "download" /\ op'.slot = s /\ op'.todo = op.todo
              /\ op.listed[s] # None
              /\ Rest(op') = Rest(op)
    BY <1>2, SlotEffect
  <2>2. s \in plan.slots /\ {local[s]} \in SUBSET Contents
    BY <1>0, TypesInUse
  <2>3. Grown
    BY <2>1, <2>2
  <2>4. op' \in Operation /\ OpShape(op)'
    BY <1>0, <1>1, <2>1, <2>2 DEF OpShape, RestoreInUse, SlotPcs, Rest
  <2> QED BY <1>0, <2>3, <2>4, OpStep
<1>3. CASE SyncDecide
  <2>1. op.slot \in plan.slots /\ op.slot \in Slots /\ op.pc = "decide" /\ Mine \in Versions \cup {None}
    BY <1>0, <1>1, <1>3, TypesInUse DEF SyncDecide, InOp, SlotPcs, Mine, Operation
  <2>2. Theirs \in Versions
    BY <1>1, <2>1 DEF OpShape, Theirs
  <2>3. /\ MemUnqueued \in State /\ RestoreInUse(MemUnqueued)
        /\ MemConverged \in State /\ RestoreInUse(MemConverged)
    <3>1. MemUnqueued \in State /\ MemUnqueued.restore = op.mem.restore
      BY <1>1, <2>1, PullInIs DEF MemUnqueued
    <3>2. MemConverged \in State /\ MemConverged.restore = op.mem.restore
      BY <2>1, <3>1, BaseInIs DEF MemConverged
    <3> QED BY <1>1, <3>1, <3>2 DEF RestoreInUse
  <2>4. Grown
    <3>1. {local[op.slot], Theirs} \in SUBSET Contents
      BY <2>1, <2>2, TypesInUse DEF Contents
    <3>2. \/ UNCHANGED vault
          \/ vault' = [vault EXCEPT ![op.slot] = @ \cup {local[op.slot], Theirs}]
      BY <1>3, DecideEffect
    <3> QED BY <2>1, <3>1, <3>2
  <2>5. op' \in Operation /\ OpShape(op)'
    <3>1. ASSUME NEW st \in State, RestoreInUse(st), NEW pc \in {"pull", "push"},
                 Moved(op', op, pc, st)
          PROVE  op' \in Operation /\ OpShape(op)'
      BY <1>0, <1>1, <2>1, <2>2, <3>1 DEF Moved, OpShape, RestoreInUse, SlotPcs, Theirs
    <3>2. ASSUME NEW st \in State, RestoreInUse(st), Settled(op', op, st)
          PROVE  op' \in Operation /\ OpShape(op)'
      BY <1>0, <3>2, SettledShape
    <3>3. \/ Moved(op', op, "pull", op.mem) \/ Settled(op', op, op.mem)
          \/ Moved(op', op, "pull", MemUnqueued) \/ Moved(op', op, "push", MemUnqueued)
          \/ Settled(op', op, MemUnqueued) \/ Settled(op', op, MemConverged)
      BY <1>3, DecideEffect
    <3> QED BY <1>1, <2>3, <3>1, <3>2, <3>3
  <2> QED BY <1>0, <2>4, <2>5, OpStep
<1>4. CASE PullBackup \/ PushAssert
  <2>1. op.slot \in plan.slots /\ op.slot \in Slots
    BY <1>0, <1>4, TypesInUse DEF PullBackup, PushAssert, InOp, SlotPcs
  <2>2. PICK pc \in {"pull_write", "push_upload"} :
           Goto(pc) /\ (pc = "pull_write" => op.pc = "pull")
                    /\ (pc = "push_upload" => op.pc = "push_assert")
    BY <1>4 DEF PullBackup, PushAssert, InOp
  <2>3. op' \in Operation /\ OpShape(op)'
    <3>1. /\ op' \in Operation /\ op'.pc = pc /\ op'.slot = op.slot /\ op'.todo = op.todo
          /\ op'.bytes = op.bytes /\ op'.staged = op.staged /\ op'.mem = op.mem
      BY <1>1, <2>2 DEF Goto, Operation, Pcs
    <3> QED BY <1>0, <1>1, <2>1, <2>2, <3>1 DEF OpShape, RestoreInUse, SlotPcs
  <2>4. Grown
    <3>1. CASE PullBackup
      <4>1. vault' = [vault EXCEPT ![op.slot] = @ \cup {local[op.slot]}]
        BY <3>1 DEF PullBackup
      <4> QED BY <2>1, <4>1, TypesInUse
    <3>2. CASE PushAssert
      <4> DEFINE c == IF op.listed[op.slot] = None THEN local[op.slot] ELSE Theirs
      <4>1. vault' = [vault EXCEPT ![op.slot] = @ \cup {c}]
        BY <3>2 DEF PushAssert
      <4>2. {c} \in SUBSET Contents
        BY <1>0, <2>1, TypesInUse DEF Theirs
      <4> QED BY <2>1, <4>1, <4>2
    <3> QED BY <1>4, <3>1, <3>2
  <2> QED BY <1>0, <2>3, <2>4, OpStep
<1>5. CASE PushPrepare
  <2>1. OpShape(op)' /\ op' \in Operation
    BY <1>0, <1>1, <1>5, PrepareEffect DEF OpShape, RestoreInUse, SlotPcs, Rest
  <2> QED BY <1>0, <1>5, <2>1, OpStep DEF PushPrepare
<1>6. CASE PushVerify
  <2> DEFINE st == BaseIn(op.mem, op.slot, op.staged)
  <2>1. op.slot \in plan.slots /\ op.slot \in Slots /\ op.staged \in Versions
    BY <1>6, VerifyEffect
  <2>2. st \in State /\ RestoreInUse(st)
    BY <1>1, <2>1, BaseInIs DEF RestoreInUse
  <2>3. Moved(op', op, "force_save", st) \/ Settled(op', op, st)
    BY <1>6, VerifyEffect
  <2> HIDE DEF st
  <2>4. op' \in Operation /\ OpShape(op)'
    <3>1. CASE Moved(op', op, "force_save", st)
      BY <1>0, <1>1, <2>1, <2>2, <3>1 DEF Moved, OpShape, RestoreInUse, SlotPcs
    <3>2. CASE Settled(op', op, st)
      BY <1>0, <2>2, <3>2, SettledShape
    <3> QED BY <2>3, <3>1, <3>2
  <2> QED BY <1>0, <1>6, <2>4, OpStep DEF PushVerify
<1>7. CASE ForceBegin
  <2>1. OpShape(op)' /\ op' \in Operation
    BY <1>0, <1>1, <1>7, ForceBeginEffect DEF OpShape, RestoreInUse, SlotPcs, Typed, Shape
  <2> QED BY <1>0, <1>7, <2>1, OpStep DEF ForceBegin
<1>8. CASE ForceDownload
  <2>1. op.slot \in plan.slots /\ op.slot \in Slots /\ remote[op.slot] \in Files
    BY <1>8, ForceDownloadEffect
  <2>2. op.listed[op.slot] \in Files \cup {None}
    BY <1>1, <2>1 DEF Operation
  <2>3. RestoreInUse(PullIn(op.mem, op.slot, op.listed[op.slot]))
    <3>1. PullIn(op.mem, op.slot, op.listed[op.slot]).restore = op.mem.restore
      <4>1. op.mem \in State /\ op.slot \in Slots
        BY <1>1, <2>1
      <4> QED BY <2>2, <4>1, PullInIs
    <3> QED BY <1>1, <3>1 DEF RestoreInUse
  <2>4. RestoreInUse(op'.mem)
    BY <1>1, <1>8, <2>3, ForceDownloadEffect
  <2>5. op' \in Operation /\ OpShape(op)'
    BY <1>0, <1>1, <1>8, <2>1, <2>4, ForceDownloadEffect DEF OpShape, RestoreInUse, SlotPcs
  <2>6. Grown
    <3>1. vault' = [vault EXCEPT ![op.slot] = @ \cup {local[op.slot], remote[op.slot].v}]
      BY <1>8 DEF ForceDownload
    <3>2. {local[op.slot], remote[op.slot].v} \in SUBSET Contents
      BY <2>1, TypesInUse DEF Files
    <3> QED BY <2>1, <3>1, <3>2
  <2> QED BY <1>0, <2>5, <2>6, OpStep
<1> QED BY <1>2, <1>3, <1>4, <1>5, <1>6, <1>7, <1>8

LEMMA LaneFileTyped ==
  ASSUME Typed, OperationFails \/ SyncEnter \/ SyncBegin \/ SyncDownload \/ SyncSave \/ PullWrite
                \/ PushUpload \/ QueueSave \/ ForceSave
  PROVE  Typed'
<1>0. op # None /\ UNCHANGED << allowed, pf, pfMem, plan, touched, late >>
  BY DEF OperationFails, SyncEnter, SyncBegin, SyncDownload, SyncSave, PullWrite, PushUpload,
         QueueSave, ForceSave, InOp, history
<1>1. /\ op \in Operation /\ OpShape(op) /\ op.mem \in State /\ RestoreInUse(op.mem)
      /\ op.found \in [Slots -> ChoiceKinds \cup {None}]
  BY <1>0, TypesInUse DEF OpShape, Operation
<1>2. CASE OperationFails
  <2>1. TypeOK'
    BY <1>2 DEF OperationFails, Fail, Typed, TypeOK, history
  <2>2. Shape'
    BY <1>2 DEF OperationFails, Fail, Typed, Shape, RestoreInUse, history
  <2> QED BY <2>1, <2>2 DEF Typed
<1>3. CASE SyncEnter
  <2>1. /\ op' \in Operation /\ op'.pc = "list" /\ op'.todo = op.todo /\ op'.mem = op.mem
        /\ UNCHANGED plan
    BY <1>1, <1>3 DEF SyncEnter, Goto, Operation, Pcs, history
  <2>2. OpShape(op)'
    BY <1>1, <2>1 DEF OpShape, RestoreInUse, SlotPcs
  <2>3. choices' \in [Slots -> ChoiceKinds \cup {None}]
    BY <1>3 DEF SyncEnter
  <2>4. TypeOK'
    BY <1>3, <2>1, <2>3 DEF SyncEnter, Typed, TypeOK, history
  <2>5. Shape'
    BY <1>3, <2>2 DEF SyncEnter, Typed, Shape, RestoreInUse, history
  <2> QED BY <2>4, <2>5 DEF Typed
<1>4. CASE SyncBegin
  <2>1. op' # None => op' \in Operation /\ OpShape(op)'
    <3> SUFFICES ASSUME op' # None PROVE op' \in Operation /\ OpShape(op)'
      OBVIOUS
    <3> DEFINE mine == IF op.kind = "prelaunch" THEN snap ELSE local
    <3>1. /\ op' \in Operation /\ op'.pc = "slot" /\ op'.mem = disk
          /\ op'.todo \subseteq {s \in Slots : mine[s] # None}
      BY <1>4, BeginEffect
    <3>2. \A s \in Slots : mine[s] # None => s \in plan.slots
      BY <1>4 DEF SyncBegin, Typed, Shape
    <3> HIDE DEF mine
    <3> QED BY <1>0, <3>1, <3>2 DEF OpShape, SlotPcs, Typed, Shape, RestoreInUse
  <2>2. snap' \in {snap, None} /\ UNCHANGED << local, vault, remote, disk, choices, history >>
    BY <1>4 DEF SyncBegin, Fail
  <2>3. TypeOK'
    BY <1>0, <2>1, <2>2 DEF Typed, TypeOK, history
  <2>4. Shape'
    BY <1>0, <2>1, <2>2 DEF Typed, Shape, RestoreInUse
  <2> QED BY <2>3, <2>4 DEF Typed
<1>5. CASE SyncDownload
  <2>1. op.slot \in plan.slots /\ op.slot \in Slots
    BY <1>0, <1>5, TypesInUse DEF SyncDownload, InOp, SlotPcs
  <2>2. \/ vault' = [vault EXCEPT ![op.slot] = @ \cup {Corrupt}]
        \/ UNCHANGED vault
    BY <1>5 DEF SyncDownload
  <2>3. /\ vault' \in [Slots -> SUBSET Contents]
        /\ (\A t \in Slots : vault[t] # {} => t \in plan.slots)'
    <3>1. CASE UNCHANGED vault
      BY <1>0, <3>1 DEF Typed, TypeOK, Shape
    <3>2. CASE vault' = [vault EXCEPT ![op.slot] = @ \cup {Corrupt}]
      BY <1>0, <2>1, <3>2, VaultGrows DEF Contents
    <3> QED BY <2>2, <3>1, <3>2
  <2>4. op' # None => op' \in Operation /\ OpShape(op)'
    BY <1>0, <1>1, <1>5, <2>1, DownloadEffect DEF OpShape, RestoreInUse, SlotPcs, Rest
  <2>5. UNCHANGED << local, remote, disk, choices, snap, history >>
    BY <1>5 DEF SyncDownload, Fail
  <2>6. TypeOK'
    BY <1>0, <2>3, <2>4, <2>5 DEF Typed, TypeOK, history
  <2>7. Shape'
    BY <1>0, <2>3, <2>4, <2>5 DEF Typed, Shape, RestoreInUse
  <2> QED BY <2>6, <2>7 DEF Typed
<1>6. CASE SyncSave \/ QueueSave
  <2>1. TypeOK'
    BY <1>1, <1>6 DEF SyncSave, QueueSave, Typed, TypeOK, history
  <2>2. Shape'
    BY <1>1, <1>6 DEF SyncSave, QueueSave, Typed, Shape, RestoreInUse, history
  <2> QED BY <2>1, <2>2 DEF Typed
<1>7. CASE PullWrite
  <2>1. /\ op.slot \in plan.slots /\ op.slot \in Slots /\ Theirs \in Versions
        /\ op' # None => Settled(op', op, BaseIn(MemUnqueued, op.slot, Theirs))
    BY <1>7, WriteEffect
  <2>2. /\ BaseIn(MemUnqueued, op.slot, Theirs) \in State
        /\ RestoreInUse(BaseIn(MemUnqueued, op.slot, Theirs))
    <3>1. MemUnqueued \in State /\ MemUnqueued.restore = op.mem.restore
      BY <1>1, <2>1, PullInIs DEF MemUnqueued
    <3>2. /\ BaseIn(MemUnqueued, op.slot, Theirs) \in State
          /\ BaseIn(MemUnqueued, op.slot, Theirs).restore = MemUnqueued.restore
      BY <2>1, <3>1, BaseInIs
    <3>3. RestoreInUse(op.mem)
      BY <1>1 DEF OpShape
    <3> QED BY <3>1, <3>2, <3>3 DEF RestoreInUse
  <2>3. op' # None => op' \in Operation /\ OpShape(op)'
    BY <1>0, <2>1, <2>2, SettledShape
  <2>4. local' = [local EXCEPT ![op.slot] = Theirs]
    BY <1>7 DEF PullWrite
  <2>5. /\ local' \in [Slots -> Versions \cup {None}]
        /\ (\A s \in Slots : local[s] # None <=> s \in plan.slots)'
    BY <1>0, <2>1, <2>4 DEF Typed, TypeOK, Shape
  <2>6. onPhone' \in [Slots -> SUBSET Versions] /\ onSteam' \in [Slots -> SUBSET Contents]
    BY <1>7, <2>1 DEF PullWrite, SavedAs, Typed, TypeOK
  <2>7. spent' \in SUBSET Slots
    BY <1>7, <2>1 DEF PullWrite, Typed, TypeOK
  <2>8. TypeOK'
    BY <1>7, <2>3, <2>5, <2>6, <2>7 DEF PullWrite, Typed, TypeOK
  <2>9. Shape'
    BY <1>7, <2>3, <2>5 DEF PullWrite, Typed, Shape, RestoreInUse
  <2> QED BY <2>8, <2>9 DEF Typed
<1>8. CASE PushUpload
  <2> DEFINE f == [v |-> op.staged, lz4 |-> FALSE]
  <2>1. op.slot \in plan.slots /\ op.slot \in Slots /\ op.staged \in Versions
    BY <1>0, <1>1, <1>8, TypesInUse DEF PushUpload, InOp, SlotPcs, OpShape
  <2>2. f \in Files /\ ContentOf(f) \subseteq Contents
    BY <2>1 DEF Files, Contents, ContentOf
  <2>3. remote' = [remote EXCEPT ![op.slot] = f] /\ UploadedAs(op.slot, f)
    BY <1>8 DEF PushUpload
  <2> HIDE DEF f
  <2>4. /\ remote' \in [Slots -> Files \cup {None}]
        /\ onPhone' \in [Slots -> SUBSET Versions] /\ onSteam' \in [Slots -> SUBSET Contents]
    BY <2>2, <2>3 DEF UploadedAs, Typed, TypeOK
  <2>5. /\ op' \in Operation /\ op'.pc = "push_verify" /\ op'.slot = op.slot /\ op'.todo = op.todo
        /\ op'.staged = op.staged /\ op'.mem = op.mem
    BY <1>1, <1>8 DEF PushUpload, Goto, Operation, Pcs
  <2>6. OpShape(op)'
    BY <1>0, <1>1, <2>1, <2>5 DEF OpShape, RestoreInUse, SlotPcs
  <2>7. TypeOK'
    BY <1>8, <2>4, <2>5 DEF PushUpload, Typed, TypeOK
  <2>8. Shape'
    BY <1>8, <2>6 DEF PushUpload, Typed, Shape, RestoreInUse
  <2> QED BY <2>7, <2>8 DEF Typed
<1>9. CASE ForceSave
  <2>1. op.slot \in plan.slots /\ op.slot \in Slots
    BY <1>0, <1>9, TypesInUse DEF ForceSave, InOp, SlotPcs
  <2>2. op' # None => op' \in Operation /\ OpShape(op)'
    BY <1>0, <1>1, <1>9, ForceSaveEffect DEF OpShape, RestoreInUse, SlotPcs
  <2>3. choices' \in [Slots -> ChoiceKinds \cup {None}] /\ disk' = op.mem
        /\ UNCHANGED << local, remote, vault, snap, onPhone, onSteam >>
    BY <1>9 DEF ForceSave, Typed, TypeOK
  <2>4. approved' \in [Slots -> Files \cup {None}] /\ spent' \in SUBSET Slots
    <3>1. op.listed[op.slot] \in Files \cup {None}
      BY <1>1, <2>1 DEF Operation
    <3> QED BY <1>9, <2>1, <3>1 DEF ForceSave, Typed, TypeOK
  <2>5. TypeOK'
    BY <1>0, <1>1, <2>2, <2>3, <2>4 DEF Typed, TypeOK
  <2>6. Shape'
    BY <1>0, <1>1, <2>2, <2>3 DEF Typed, Shape, RestoreInUse
  <2> QED BY <2>5, <2>6 DEF Typed
<1> QED BY <1>2, <1>3, <1>4, <1>5, <1>6, <1>7, <1>8, <1>9

LEMMA InitTyped == Init => Typed
<1> SUFFICES ASSUME Init PROVE Typed
  OBVIOUS
<1>1. PlanType
  <2>1. PICK p \in Plans : plan = p
    BY DEF Init
  <2>2. p \in [slots : {p.slots}, files : {p.files}, orderly : {p.orderly}, user : {p.user},
               game : 0 .. p.game, peer : 0 .. p.peer, launch : 0 .. p.launch]
    OBVIOUS
  <2> QED BY <2>1, <2>2 DEF PlanType
<1>2. PICK base \in [Slots -> Played \cup {None}] :
         InUse(base) /\ disk = [EmptyState EXCEPT !.base = base]
  BY DEF Init
<1>3. disk \in State /\ disk.restore = None /\ disk.base = base
  BY <1>1, <1>2, PlanFacts, EmptyType DEF State
<1>4. remote \in [Slots -> Files \cup {None}]
  BY <1>1, PlanFacts DEF Init
<1>5. onPhone \in [Slots -> SUBSET Versions]
  BY <1>1, <1>2, <1>3, PlanFacts DEF Init
<1>6. onSteam \in [Slots -> SUBSET Contents]
  BY <1>1, <1>2, <1>3, <1>4, PlanFacts DEF Init, ContentOf, Files, Contents
<1>7. allowed \in BOOLEAN /\ pf = "captured" /\ op = None
  BY DEF Init
<1>8. TypeOK
  BY <1>1, <1>3, <1>4, <1>5, <1>6, <1>7, EmptyType DEF Init, TypeOK, PlanType
<1>9. \A s \in Slots : local[s] # None <=> s \in plan.slots
  <2>1. \A s \in plan.slots : local[s] # None
    BY <1>1, PlanFacts DEF Init
  <2>2. \A s \in Slots \ plan.slots : local[s] = None
    BY DEF Init, InUse
  <2> QED BY <2>1, <2>2
<1>10. Shape
  BY <1>3, <1>7, <1>9, EmptyType DEF Init, Shape, RestoreInUse
<1> QED BY <1>8, <1>10 DEF Typed

\* Types, and the shape that goes with each program point, at every moment of
\* run_sync, force_slot and the queues for the next launch.
THEOREM AlwaysTyped == Spec => []Typed
<1>1. Typed /\ [Next]_vars => Typed'
  <2> SUFFICES ASSUME Typed, [Next]_vars PROVE Typed'
    OBVIOUS
  <2>1. CASE World
    BY <2>1, WorldTyped
  <2>2. CASE Preflight
    BY <2>2, PreflightTyped
  <2>3. CASE User
    BY <2>3, UserTyped
  <2>4. CASE LaneStep
    BY <2>4, LaneOpTyped, LaneFileTyped DEF LaneStep
  <2>5. CASE UNCHANGED vars
    BY <2>5 DEF vars, engine, history, Typed, TypeOK, Shape, OpShape, RestoreInUse
  <2> QED BY <2>1, <2>2, <2>3, <2>4, <2>5 DEF Next
<1> QED BY <1>1, InitTyped, PTL DEF Spec

\* Every variable keeps its type: no race, kill or failure leaves the operation
\* at a step without a slot, a staged copy or decoded bytes, and a file, backup
\* or queue entry only exists for a slot in use.
THEOREM TypeCorrect == Spec => []TypeOK
BY AlwaysTyped, PTL DEF Typed

-----------------------------------------------------------------------------
(* BASE was verified. Every version the engine holds was a content of the   *)
(* file it was read from; and what BASE is written from, of both.           *)

Common(st) == \A s \in Slots : st.base[s] # None => st.base[s] \in onPhone[s] \cap onSteam[s]

SeenOnPhone(f) == \A s \in Slots : f[s] # None => f[s] \in onPhone[s]

PushPcs == {"push", "push_assert", "push_upload", "push_verify"}

OpHad(o) ==
  /\ Common(o.mem)
  /\ SeenOnPhone(o.mine)
  /\ o.pc \in {"decide", "pull", "pull_write"} => o.bytes.v \in onSteam[o.slot]

\* Who asks for an upload
OpAsked(o) ==
  /\ o.pc \in {"force_list", "force_download", "force_save"} => o.kind \in ForceKinds
  /\ o.pc \in PushPcs => o.kind \in {"manual", "keep_local", "resolve_local"}

FilesHad ==
  /\ SeenOnPhone(local)
  /\ \A s \in Slots : remote[s] # None => remote[s].v \in onSteam[s]
  /\ snap # None => SeenOnPhone(snap)
  /\ Common(disk) /\ Common(pfMem)

Had == FilesHad /\ (op # None => OpHad(op) /\ OpAsked(op))

Grown == \A s \in Slots : onPhone[s] \subseteq onPhone'[s] /\ onSteam[s] \subseteq onSteam'[s]

LEMMA HistoriesGrow ==
  ASSUME Typed, Next
  PROVE  Grown
<1>1. ASSUME NEW s \in Slots, NEW v, SavedAs(s, v) PROVE Grown
  BY <1>1 DEF Typed, TypeOK, SavedAs, Grown
<1>2. ASSUME NEW s \in Slots, NEW f, UploadedAs(s, f) PROVE Grown
  BY <1>2 DEF Typed, TypeOK, UploadedAs, Grown
<1>3. ASSUME UNCHANGED << onPhone, onSteam >> PROVE Grown
  BY <1>3 DEF Grown
<1>4. CASE World
  <2>1. ASSUME NEW s \in Slots, GameSave(s) PROVE Grown
    BY <1>1, <2>1 DEF GameSave
  <2>2. ASSUME NEW s \in Slots, PeerSave(s) PROVE Grown
    BY <1>2, <2>2 DEF PeerSave
  <2>3. ASSUME Relaunch PROVE Grown
    BY <1>3, <2>3 DEF Relaunch, history
  <2> QED BY <1>4, <2>1, <2>2, <2>3 DEF World
<1>5. CASE Preflight
  <2>1. CASE RestoreWrite
    <3>1. pfMem.restore.slot \in Slots
      BY <2>1 DEF RestoreWrite, Typed, TypeOK, Shape, State
    <3>2. \/ SavedAs(pfMem.restore.slot, pfMem.restore.v)
          \/ UNCHANGED << onPhone, onSteam >>
      BY <2>1 DEF RestoreWrite
    <3> QED BY <1>1, <1>3, <3>1, <3>2
  <2>2. CASE ~RestoreWrite
    <3>1. UNCHANGED << onPhone, onSteam >>
      BY <1>5, <2>2 DEF Preflight, PreflightOpen, RestoreLoad, RestoreBackup, RestoreSave,
                        StartPrelaunch, BeginSync, Begin, PreflightSkip, PreflightClose, history
    <3> QED BY <1>3, <3>1
  <2> QED BY <2>1, <2>2
<1>6. CASE User
  <2>1. UNCHANGED << onPhone, onSteam >>
    BY <1>6 DEF User, StartSync, BeginSync, StartForce, QueueRestore, Begin
  <2> QED BY <1>3, <2>1
<1>7. CASE LaneStep
  <2>1. CASE PullWrite
    <3>1. op.slot \in Slots /\ SavedAs(op.slot, Theirs)
      BY <2>1, WriteEffect DEF PullWrite
    <3> QED BY <1>1, <3>1
  <2>2. CASE PushUpload
    <3>1. op.slot \in Slots
      BY <2>2, TypesInUse DEF PushUpload, InOp, SlotPcs
    <3> QED BY <1>2, <2>2, <3>1 DEF PushUpload
  <2>3. CASE ~PullWrite /\ ~PushUpload
    <3>1. UNCHANGED << onPhone, onSteam >>
      BY <1>7, <2>3 DEF LaneStep, OperationFails, SyncEnter, SyncBegin, SyncSlot, SyncDownload,
           SyncDecide, SyncSave, PullBackup, PushPrepare, PushAssert, PushVerify, QueueSave,
           ForceBegin, ForceDownload, ForceSave, history
    <3> QED BY <1>3, <3>1
  <2> QED BY <2>1, <2>2, <2>3
<1> QED BY <1>4, <1>5, <1>6, <1>7 DEF Next

\* What has been seen stays seen
LEMMA StaysSeen ==
  ASSUME Typed, Had, Grown
  PROVE  /\ SeenOnPhone(local) => \A s \in Slots : local[s] # None => local[s] \in onPhone'[s]
         /\ \A s \in Slots : remote[s] # None => remote[s].v \in onSteam'[s]
         /\ snap # None => \A s \in Slots : snap[s] # None => snap[s] \in onPhone'[s]
         /\ \A st \in {disk, pfMem} : \A s \in Slots :
              st.base[s] # None => st.base[s] \in onPhone'[s] \cap onSteam'[s]
         /\ op # None =>
              /\ \A s \in Slots :
                   op.mem.base[s] # None => op.mem.base[s] \in onPhone'[s] \cap onSteam'[s]
              /\ \A s \in Slots : op.mine[s] # None => op.mine[s] \in onPhone'[s]
              /\ op.pc \in {"decide", "pull", "pull_write"} => op.bytes.v \in onSteam'[op.slot]
<1>1. op # None /\ op.pc \in {"decide", "pull", "pull_write"} => op.slot \in Slots
  BY TypesInUse DEF SlotPcs
<1> QED BY <1>1 DEF Had, FilesHad, SeenOnPhone, Common, OpHad, Grown

LEMMA HadWorld ==
  ASSUME Typed, Had, World
  PROVE  Had'
<1>1. Grown
  BY HistoriesGrow DEF Next
<1>2. ASSUME NEW s \in Slots, GameSave(s) PROVE Had'
  <2>1. PICK v \in Played : local' = [local EXCEPT ![s] = v] /\ SavedAs(s, v)
    BY <1>2 DEF GameSave
  <2>2. SeenOnPhone(local)'
    BY <1>1, <2>1, StaysSeen DEF SavedAs, SeenOnPhone, Had, FilesHad, Typed, TypeOK
  <2>3. UNCHANGED << remote, snap, disk, pfMem, op >>
    BY <1>2 DEF GameSave, engine
  <2> QED BY <1>1, <2>2, <2>3, StaysSeen DEF Had, FilesHad, SeenOnPhone, Common, OpHad, OpAsked
<1>3. ASSUME NEW s \in Slots, PeerSave(s) PROVE Had'
  <2>1. PICK f \in plan.files \cup {None} : remote' = [remote EXCEPT ![s] = f] /\ UploadedAs(s, f)
    BY <1>3 DEF PeerSave
  <2>2. (\A t \in Slots : remote[t] # None => remote[t].v \in onSteam[t])'
    BY <1>1, <2>1, StaysSeen DEF UploadedAs, ContentOf, Typed, TypeOK
  <2>3. UNCHANGED << local, snap, disk, pfMem, op >>
    BY <1>3 DEF PeerSave, engine
  <2> QED BY <1>1, <2>2, <2>3, StaysSeen DEF Had, FilesHad, SeenOnPhone, Common, OpHad, OpAsked
<1>4. ASSUME Relaunch PROVE Had'
  <2>1. UNCHANGED << local, remote, disk, onPhone, onSteam >> /\ snap' = local /\ op' = None
        /\ pfMem' = EmptyState
    BY <1>4 DEF Relaunch, history
  <2>2. Common(pfMem)'
    BY <2>1 DEF Common, EmptyState
  <2> QED BY <2>1, <2>2 DEF Had, FilesHad, SeenOnPhone, Common
<1> QED BY <1>2, <1>3, <1>4 DEF World

LEMMA HadBegin ==
  ASSUME Typed, Had, NEW kind, NEW mem \in State, NEW pc, NEW s, Begin(kind, mem, pc, s),
         Common(mem),
         pc \in {"enter", "queue_save"} \/ (pc = "force_list" /\ kind \in ForceKinds)
  PROVE  Had'
<1>1. UNCHANGED << local, remote, snap, disk, pfMem, onPhone, onSteam >>
  BY DEF Begin
<1>2. op'.kind = kind /\ op'.pc = pc /\ op'.mem = mem /\ op'.mine = [t \in Slots |-> None]
  BY DEF Begin
<1>3. (OpHad(op) /\ OpAsked(op))'
  BY <1>1, <1>2 DEF OpHad, OpAsked, Common, SeenOnPhone, PushPcs
<1> QED BY <1>1, <1>3 DEF Had, FilesHad, SeenOnPhone, Common

LEMMA EmptyCommon == Common(EmptyState)
BY DEF Common, EmptyState

LEMMA HadUser ==
  ASSUME Typed, Had, User
  PROVE  Had'
<1>1. CASE StartSync
  <2>1. PICK kind \in {"auto", "manual"} : Begin(kind, EmptyState, "enter", None)
    BY <1>1 DEF StartSync, BeginSync
  <2> QED BY <2>1, HadBegin, EmptyCommon, EmptyType
<1>2. ASSUME NEW s \in Slots, StartForce(s) PROVE Had'
  <2>1. PICK kind \in ForceKinds : Begin(kind, EmptyState, "force_list", s)
    BY <1>2 DEF StartForce
  <2> QED BY <2>1, HadBegin, EmptyCommon, EmptyType
<1>3. ASSUME NEW s \in Slots, QueueRestore(s) PROVE Had'
  <2> DEFINE mem(v) == [disk EXCEPT !.restore = [slot |-> s, v |-> v]]
  <2>1. PICK v \in vault[s] \cap Versions : Begin("restore", mem(v), "queue_save", s)
    BY <1>3 DEF QueueRestore
  <2>2. mem(v) \in State /\ mem(v).base = disk.base
    BY <2>1 DEF Typed, TypeOK, State
  <2>3. Common(mem(v))
    BY <2>2 DEF Had, FilesHad, Common
  <2> HIDE DEF mem
  <2> QED BY <2>1, <2>2, <2>3, HadBegin
<1> QED BY <1>1, <1>2, <1>3 DEF User

LEMMA HadPreflight ==
  ASSUME Typed, Had, Preflight
  PROVE  Had'
<1>1. Grown
  BY HistoriesGrow DEF Next
<1>2. CASE StartPrelaunch
  <2>1. Begin("prelaunch", EmptyState, "enter", None)
    BY <1>2 DEF StartPrelaunch, BeginSync
  <2> QED BY <2>1, HadBegin, EmptyCommon, EmptyType
<1>3. CASE RestoreWrite
  <2> DEFINE s == pfMem.restore.slot
             v == pfMem.restore.v
             old == IF snap = None THEN [t \in Slots |-> None] ELSE snap
  <2>1. s \in Slots /\ v \in Versions
    BY <1>3 DEF RestoreWrite, Typed, TypeOK, Shape, State
  <2>2. UNCHANGED << remote, disk, op >> /\ Common(pfMem)'
    <3>1. pfMem' = EmptyState \/ UNCHANGED pfMem
      BY <1>3 DEF RestoreWrite, SkipRestore
    <3>2. Common(EmptyState)'
      BY DEF Common, EmptyState
    <3>3. UNCHANGED pfMem => Common(pfMem)'
      BY <1>1, StaysSeen DEF Common
    <3> QED BY <1>3, <3>1, <3>2, <3>3 DEF RestoreWrite, Common
  <2>3. CASE UNCHANGED << local, snap, onPhone, onSteam >>
    BY <2>2, <2>3 DEF Had, FilesHad, SeenOnPhone, Common, OpHad, OpAsked
  <2>4. CASE /\ local' = [local EXCEPT ![s] = v] /\ SavedAs(s, v)
             /\ snap' = [old EXCEPT ![s] = v] \/ UNCHANGED snap
    <3>1. old \in [Slots -> Versions \cup {None}]
      BY DEF Typed, TypeOK
    <3>2. \A t \in Slots : old[t] # None => old[t] \in onPhone'[t]
      BY <1>1, StaysSeen
    <3>3. v \in onPhone'[s]
      BY <2>1, <2>4 DEF SavedAs, Typed, TypeOK
    <3>4. snap' # None => SeenOnPhone(snap)'
      <4> HIDE DEF s, v
      <4>1. UNCHANGED snap => (snap' # None => SeenOnPhone(snap)')
        BY <1>1, StaysSeen DEF SeenOnPhone
      <4> HIDE DEF old
      <4>2. snap' = [old EXCEPT ![s] = v] => SeenOnPhone(snap)'
        BY <2>1, <3>1, <3>2, <3>3 DEF SeenOnPhone
      <4> QED BY <2>4, <4>1, <4>2
    <3> HIDE DEF s, v, old
    <3>5. SeenOnPhone(local)'
      BY <1>1, <2>1, <2>4, <3>3, StaysSeen DEF SeenOnPhone, Had, FilesHad, Typed, TypeOK
    <3> QED BY <1>1, <2>2, <3>4, <3>5, StaysSeen
             DEF Had, FilesHad, SeenOnPhone, Common, OpHad, OpAsked
  <2> QED BY <1>3, <2>3, <2>4 DEF RestoreWrite
<1>4. CASE RestoreSave
  <2>1. [pfMem EXCEPT !.restore = None].base = pfMem.base
    BY DEF Typed, TypeOK, State
  <2>2. Common(disk)'
    BY <1>4, <2>1 DEF RestoreSave, Had, FilesHad, Common, history
  <2>3. UNCHANGED << local, remote, snap, op, onPhone, onSteam >> /\ pfMem' = EmptyState
    BY <1>4 DEF RestoreSave, history
  <2>4. Common(pfMem)'
    BY <2>3 DEF Common, EmptyState
  <2> QED BY <2>2, <2>3, <2>4 DEF Had, FilesHad, SeenOnPhone, Common, OpHad, OpAsked
<1>5. CASE PreflightOpen \/ RestoreLoad \/ RestoreBackup \/ PreflightSkip \/ PreflightClose
  <2>1. /\ UNCHANGED << local, remote, snap, disk, op, onPhone, onSteam >>
        /\ pfMem' \in {pfMem, disk, EmptyState}
    BY <1>5 DEF PreflightOpen, RestoreLoad, RestoreBackup, SkipRestore, PreflightSkip,
                PreflightClose, history
  <2> QED BY <2>1, EmptyCommon DEF Had, FilesHad, SeenOnPhone, Common, OpHad, OpAsked
<1> QED BY <1>2, <1>3, <1>4, <1>5 DEF Preflight

\* A step on the lane that leaves the files and the state file alone
LEMMA HadOp ==
  ASSUME Typed, Had, UNCHANGED << local, remote, snap, disk, pfMem, onPhone, onSteam >>,
         op' # None => (OpHad(op) /\ OpAsked(op))'
  PROVE  Had'
BY DEF Had, FilesHad, SeenOnPhone, Common

LEMMA HadSettled ==
  ASSUME op # None, OpHad(op), UNCHANGED << onPhone, onSteam >>,
         NEW st, Common(st), Settled(op', op, st)
  PROVE  (OpHad(op) /\ OpAsked(op))'
BY DEF Settled, OpHad, OpAsked, Common, SeenOnPhone, PushPcs

LEMMA HadLane ==
  ASSUME Typed, Had, LaneStep
  PROVE  Had'
<1>1. Grown
  BY HistoriesGrow DEF Next
<1>2. /\ op # None /\ OpHad(op) /\ OpAsked(op) /\ op \in Operation /\ op.mem \in State
      /\ OpShape(op)
      /\ UNCHANGED pfMem
  <2>1. op # None /\ UNCHANGED pfMem
    BY DEF LaneStep, InOp, OperationFails, SyncEnter, SyncBegin, SyncSlot, SyncDownload,
         SyncDecide, SyncSave, PullBackup, PullWrite, PushPrepare, PushAssert, PushUpload,
         PushVerify, QueueSave, ForceBegin, ForceDownload, ForceSave
  <2> QED BY <2>1, TypesInUse DEF Had
<1>3. CASE OperationFails \/ SyncSave \/ QueueSave
  <2>1. /\ UNCHANGED << local, remote, snap, pfMem, onPhone, onSteam >> /\ op' = None
        /\ disk' \in {disk, op.mem}
    BY <1>3 DEF OperationFails, Fail, SyncSave, QueueSave, history
  <2> QED BY <1>2, <2>1 DEF Had, FilesHad, SeenOnPhone, Common, OpHad
<1>4. CASE SyncEnter \/ PullBackup \/ PushAssert
  <2>1. UNCHANGED << local, remote, snap, disk, pfMem, onPhone, onSteam >>
    BY <1>4 DEF SyncEnter, PullBackup, PushAssert, history
  <2>2. PICK pc \in {"list", "pull_write", "push_upload"} :
           Goto(pc) /\ (pc = "pull_write" => op.pc = "pull")
                    /\ (pc = "push_upload" => op.pc = "push_assert")
    BY <1>4 DEF SyncEnter, PullBackup, PushAssert, InOp
  <2>3. /\ op'.pc = pc /\ op'.slot = op.slot /\ op'.bytes = op.bytes /\ op'.mem = op.mem
        /\ op'.kind = op.kind /\ op'.mine = op.mine
    BY <1>2, <2>2 DEF Goto, Operation, Pcs
  <2>4. (OpHad(op) /\ OpAsked(op))'
    BY <1>2, <2>1, <2>2, <2>3 DEF OpHad, OpAsked, Common, SeenOnPhone, PushPcs
  <2> QED BY <2>1, <2>4, HadOp
<1>5. CASE SyncBegin
  <2>1. UNCHANGED << local, remote, disk, pfMem, onPhone, onSteam >> /\ snap' \in {snap, None}
    BY <1>5 DEF SyncBegin, Fail, history
  <2>2. op' # None => (OpHad(op) /\ OpAsked(op))'
    <3> SUFFICES ASSUME op' # None PROVE (OpHad(op) /\ OpAsked(op))'
      OBVIOUS
    <3> DEFINE mine == IF op.kind = "prelaunch" THEN snap ELSE local
    <3>1. op'.pc = "slot" /\ op'.mine = mine /\ op'.mem = disk
      BY <1>5, BeginEffect
    <3>2. SeenOnPhone(mine)
      BY <1>5 DEF SyncBegin, Had, FilesHad
    <3> HIDE DEF mine
    <3> QED BY <2>1, <3>1, <3>2
          DEF Had, FilesHad, OpHad, OpAsked, Common, SeenOnPhone, PushPcs
  <2> QED BY <2>1, <2>2 DEF Had, FilesHad, SeenOnPhone, Common
<1>6. CASE SyncSlot
  <2>1. UNCHANGED << local, remote, snap, disk, pfMem, onPhone, onSteam >>
    BY <1>6 DEF SyncSlot, history
  <2>2. op'.pc \in {"slot", "download"} /\ Rest(op') = Rest(op)
    BY <1>6, SlotEffect
  <2>3. (OpHad(op) /\ OpAsked(op))'
    BY <1>2, <2>1, <2>2 DEF OpHad, OpAsked, Common, SeenOnPhone, PushPcs, Rest
  <2> QED BY <2>1, <2>3, HadOp
<1>7. CASE SyncDownload
  <2>1. UNCHANGED << local, remote, snap, disk, pfMem, onPhone, onSteam >>
    BY <1>7 DEF SyncDownload, Fail, history
  <2>2. op.slot \in Slots /\ remote[op.slot] # None
    BY <1>7, TypesInUse DEF SyncDownload, InOp, SlotPcs
  <2>3. remote[op.slot].v \in onSteam[op.slot]
    BY <2>2 DEF Had, FilesHad
  <2>4. op' # None => (OpHad(op) /\ OpAsked(op))'
    BY <1>2, <1>7, <2>1, <2>3, DownloadEffect
       DEF OpHad, OpAsked, Common, SeenOnPhone, PushPcs, Rest
  <2> QED BY <2>1, <2>4, HadOp
<1>8. CASE SyncDecide
  <2>1. UNCHANGED << local, remote, snap, disk, pfMem, onPhone, onSteam >>
    BY <1>8 DEF SyncDecide, history
  <2>2. op.slot \in Slots /\ op.pc = "decide" /\ Mine \in Versions \cup {None}
    BY <1>2, <1>8, TypesInUse DEF SyncDecide, InOp, SlotPcs, Mine, Operation
  <2>3. Theirs \in Versions /\ Theirs \in onSteam[op.slot]
    BY <1>2, <2>2 DEF OpShape, OpHad, Theirs
  <2>4. MemUnqueued \in State /\ Common(MemUnqueued)
    <3>1. MemUnqueued \in State /\ MemUnqueued.base = op.mem.base
      BY <1>2, <2>2, PullInIs DEF MemUnqueued
    <3> QED BY <1>2, <3>1 DEF OpHad, Common
  <2>5. Mine = Theirs => Common(MemConverged)
    <3> SUFFICES ASSUME Mine = Theirs PROVE Common(MemConverged)
      OBVIOUS
    <3>1. Mine \in onPhone[op.slot] \cap onSteam[op.slot]
      BY <1>2, <2>2, <2>3 DEF OpHad, SeenOnPhone, Mine
    <3>2. \A t \in Slots : MemConverged.base[t] = IF t = op.slot THEN Mine ELSE MemUnqueued.base[t]
      BY <2>2, <2>4, BaseInAt DEF MemConverged
    <3> QED BY <2>4, <3>1, <3>2 DEF Common
  <2>6. (OpHad(op) /\ OpAsked(op))'
    <3>1. ASSUME NEW st, Common(st), NEW pc \in {"pull", "push"}, Moved(op', op, pc, st),
                 pc = "push" => op.kind = "manual"
          PROVE  (OpHad(op) /\ OpAsked(op))'
      BY <1>2, <2>1, <2>2, <3>1 DEF Moved, OpHad, OpAsked, Common, SeenOnPhone, PushPcs
    <3>2. ASSUME NEW st, Common(st), Settled(op', op, st)
          PROVE  (OpHad(op) /\ OpAsked(op))'
      BY <1>2, <2>1, <3>2, HadSettled
    <3>3. \/ Moved(op', op, "pull", op.mem) \/ Settled(op', op, op.mem)
          \/ Moved(op', op, "pull", MemUnqueued)
          \/ op.kind = "manual" /\ Moved(op', op, "push", MemUnqueued)
          \/ Settled(op', op, MemUnqueued) \/ (Mine = Theirs /\ Settled(op', op, MemConverged))
      BY <1>8, DecideEffect
    <3>4. Common(op.mem)
      BY <1>2 DEF OpHad
    <3> QED BY <2>4, <2>5, <3>1, <3>2, <3>3, <3>4
  <2> QED BY <2>1, <2>6, HadOp
<1>9. CASE PullWrite
  <2>1. /\ op.slot \in Slots /\ Theirs \in Versions
        /\ op' # None => Settled(op', op, BaseIn(MemUnqueued, op.slot, Theirs))
    BY <1>9, WriteEffect
  <2>2. /\ local' = [local EXCEPT ![op.slot] = Theirs] /\ SavedAs(op.slot, Theirs)
        /\ UNCHANGED << remote, snap, disk, pfMem >>
    BY <1>9 DEF PullWrite
  <2>3. Theirs \in onPhone'[op.slot] \cap onSteam'[op.slot]
    BY <1>2, <1>9, <2>1, <2>2 DEF SavedAs, OpHad, Typed, TypeOK, Theirs, PullWrite, InOp
  <2>4. SeenOnPhone(local)'
    BY <1>1, <2>1, <2>2, <2>3, StaysSeen DEF SeenOnPhone, Had, FilesHad, Typed, TypeOK
  <2>5. ASSUME op' # None PROVE (OpHad(op) /\ OpAsked(op))'
    <3> DEFINE st == BaseIn(MemUnqueued, op.slot, Theirs)
    <3>1. MemUnqueued \in State /\ MemUnqueued.base = op.mem.base
      BY <1>2, <2>1, PullInIs DEF MemUnqueued
    <3>2. \A t \in Slots : st.base[t] = IF t = op.slot THEN Theirs ELSE op.mem.base[t]
      BY <2>1, <3>1, BaseInAt
    <3>3. op'.mem = st /\ op'.pc = "slot" /\ op'.mine = op.mine
      BY <2>1, <2>5 DEF Settled
    <3> HIDE DEF st
    <3>4. Common(op.mem)'
      BY <1>1, <1>2, <2>3, <3>2, <3>3, StaysSeen DEF Common
    <3>5. SeenOnPhone(op.mine)'
      BY <1>1, <1>2, <3>3, StaysSeen DEF SeenOnPhone
    <3> QED BY <3>3, <3>4, <3>5 DEF OpHad, OpAsked, PushPcs
  <2> QED BY <1>1, <2>2, <2>4, <2>5, StaysSeen DEF Had, FilesHad, SeenOnPhone, Common
<1>10. CASE PushPrepare
  <2>1. UNCHANGED << local, remote, snap, disk, pfMem, onPhone, onSteam >>
    BY <1>10 DEF PushPrepare, history
  <2>2. op.pc = "push"
    BY <1>10 DEF PushPrepare, InOp
  <2>3. (OpHad(op) /\ OpAsked(op))'
    BY <1>2, <1>10, <2>1, <2>2, PrepareEffect DEF OpHad, OpAsked, Common, SeenOnPhone, PushPcs, Rest
  <2> QED BY <2>1, <2>3, HadOp
<1>11. CASE PushUpload
  <2> DEFINE f == [v |-> op.staged, lz4 |-> FALSE]
  <2>1. op.slot \in Slots /\ f # None
    <3>1. op.slot \in Slots /\ op.staged \in Versions
      BY <1>2, <1>11, TypesInUse DEF PushUpload, InOp, SlotPcs, OpShape
    <3>2. f \in Files
      BY <3>1 DEF Files, Contents
    <3> QED BY <3>1, <3>2
  <2>2. /\ remote' = [remote EXCEPT ![op.slot] = f] /\ UploadedAs(op.slot, f)
        /\ UNCHANGED << local, snap, disk, pfMem >>
    BY <1>11 DEF PushUpload
  <2>3. f.v = op.staged
    OBVIOUS
  <2> HIDE DEF f
  <2>4. (\A s \in Slots : remote[s] # None => remote[s].v \in onSteam[s])'
    BY <1>1, <2>1, <2>2, StaysSeen DEF UploadedAs, ContentOf, Typed, TypeOK
  <2>5. /\ op'.pc = "push_verify" /\ op'.kind = op.kind /\ op'.mem = op.mem /\ op'.mine = op.mine
    BY <1>2, <1>11 DEF PushUpload, Goto, Operation, Pcs
  <2>6. (OpHad(op) /\ OpAsked(op))'
    BY <1>1, <1>2, <1>11, <2>5, StaysSeen
       DEF PushUpload, InOp, OpHad, OpAsked, Common, SeenOnPhone, PushPcs
  <2> QED BY <1>1, <2>2, <2>4, <2>6, StaysSeen DEF Had, FilesHad, SeenOnPhone, Common
<1>12. CASE PushVerify
  <2> DEFINE st == BaseIn(op.mem, op.slot, op.staged)
  <2>1. UNCHANGED << local, remote, snap, disk, pfMem, onPhone, onSteam >>
    BY <1>12 DEF PushVerify, history
  <2>2. op.slot \in Slots /\ op.staged \in Versions
    BY <1>12, VerifyEffect
  <2>3. op.staged \in onPhone[op.slot] \cap onSteam[op.slot]
    <3>1. local[op.slot] = op.staged /\ remote[op.slot] = [v |-> op.staged, lz4 |-> FALSE]
      BY <1>12 DEF PushVerify
    <3>2. remote[op.slot] # None /\ remote[op.slot].v = op.staged
      <4>1. [v |-> op.staged, lz4 |-> FALSE] \in Files
        BY <2>2 DEF Files, Contents
      <4>2. op.slot \in plan.slots
        BY <1>12, VerifyEffect
      <4>3. None \notin Files
        OBVIOUS
      <4>4. remote[op.slot].v = op.staged
        BY <3>1
      <4> QED BY <3>1, <4>1, <4>3, <4>4
    <3> QED BY <2>2, <3>1, <3>2 DEF Had, FilesHad, SeenOnPhone
  <2>4. Common(st)
    <3>1. \A t \in Slots : st.base[t] = IF t = op.slot THEN op.staged ELSE op.mem.base[t]
      BY <1>2, <2>2, BaseInAt
    <3> HIDE DEF st
    <3> QED BY <1>2, <2>2, <2>3, <3>1 DEF Common, OpHad
  <2>5. \/ op.kind \in ForceKinds /\ Moved(op', op, "force_save", st)
        \/ Settled(op', op, st)
    BY <1>12, VerifyEffect
  <2> HIDE DEF st
  <2>6. CASE op.kind \in ForceKinds /\ Moved(op', op, "force_save", st)
    <3>1. (OpHad(op) /\ OpAsked(op))'
      BY <1>2, <2>1, <2>4, <2>6 DEF Moved, OpHad, OpAsked, Common, SeenOnPhone, PushPcs
    <3> QED BY <2>1, <3>1, HadOp
  <2>7. CASE Settled(op', op, st)
    <3>1. (OpHad(op) /\ OpAsked(op))'
      BY <1>2, <2>1, <2>4, <2>7, HadSettled
    <3> QED BY <2>1, <3>1, HadOp
  <2> QED BY <2>5, <2>6, <2>7
<1>13. CASE ForceBegin
  <2>1. UNCHANGED << local, remote, snap, disk, pfMem, onPhone, onSteam >>
    BY <1>13 DEF ForceBegin, history
  <2>2. op.kind \in ForceKinds
    BY <1>2, <1>13 DEF ForceBegin, InOp, OpAsked
  <2>3. (OpHad(op) /\ OpAsked(op))'
    BY <1>2, <1>13, <2>1, <2>2, ForceBeginEffect
       DEF OpHad, OpAsked, Common, SeenOnPhone, PushPcs, ForceKinds, Had, FilesHad
  <2> QED BY <2>1, <2>3, HadOp
<1>14. CASE ForceDownload
  <2>1. UNCHANGED << local, remote, snap, disk, pfMem, onPhone, onSteam >>
    BY <1>14 DEF ForceDownload, history
  <2>2. op.kind \in ForceKinds /\ op.slot \in Slots
    BY <1>2, <1>14, ForceDownloadEffect DEF ForceDownload, InOp, OpAsked
  <2>3. op.listed[op.slot] \in Files \cup {None}
    BY <1>2, <2>2 DEF Operation
  <2>4. PullIn(op.mem, op.slot, op.listed[op.slot]).base = op.mem.base
    BY <1>2, <2>2, <2>3, PullInIs
  <2>5. op'.mem.base = op.mem.base
    BY <1>14, <2>4, ForceDownloadEffect
  <2>6. (OpHad(op) /\ OpAsked(op))'
    BY <1>2, <1>14, <2>1, <2>2, <2>5, ForceDownloadEffect
       DEF OpHad, OpAsked, Common, SeenOnPhone, PushPcs, ForceKinds
  <2> QED BY <2>1, <2>6, HadOp
<1>15. CASE ForceSave
  <2>1. UNCHANGED << local, remote, snap, pfMem, onPhone, onSteam >> /\ disk' = op.mem
    BY <1>15 DEF ForceSave
  <2>2. op' # None => (OpHad(op) /\ OpAsked(op))'
    BY <1>2, <1>15, <2>1, ForceSaveEffect DEF OpHad, OpAsked, Common, SeenOnPhone, PushPcs
  <2> QED BY <1>2, <2>1, <2>2 DEF Had, FilesHad, SeenOnPhone, Common, OpHad
<1> QED BY <1>3, <1>4, <1>5, <1>6, <1>7, <1>8, <1>9, <1>10, <1>11, <1>12, <1>13, <1>14, <1>15
     DEF LaneStep

\* Whatever the engine holds in memory or on disk was once the content of the
\* file it was read from, and only an operation that may upload is on its way to.
THEOREM AlwaysHad == Spec => [](Typed /\ Had)
<1>1. Init => Had
  <2> SUFFICES ASSUME Init PROVE Had
    OBVIOUS
  <2>1. Typed
    BY InitTyped
  <2>2. PICK base \in [Slots -> Played \cup {None}] :
           InUse(base) /\ disk = [EmptyState EXCEPT !.base = base]
    BY DEF Init
  <2>3. Common(disk)
    BY <2>1, <2>2 DEF Init, Common, Typed, TypeOK, State
  <2>4. SeenOnPhone(local) /\ snap = local
    BY DEF Init, SeenOnPhone
  <2>5. \A s \in Slots : remote[s] # None => remote[s].v \in onSteam[s]
    <3> SUFFICES ASSUME NEW s \in Slots, remote[s] # None PROVE remote[s].v \in onSteam[s]
      OBVIOUS
    <3>1. remote[s] \in Files
      BY <2>1 DEF Typed, TypeOK
    <3>2. remote[s].v # None
      BY <3>1 DEF Files, Contents
    <3> QED BY <3>2 DEF Init, ContentOf
  <2>6. Common(pfMem) /\ op = None
    BY EmptyCommon DEF Init
  <2> QED BY <2>3, <2>4, <2>5, <2>6 DEF Had, FilesHad
<1>2. Typed /\ Had /\ [Next]_vars => Had'
  <2> SUFFICES ASSUME Typed, Had, [Next]_vars PROVE Had'
    OBVIOUS
  <2>1. CASE UNCHANGED vars
    BY <2>1 DEF vars, engine, history, Had, FilesHad, SeenOnPhone, Common, OpHad, OpAsked
  <2> QED BY <2>1, HadWorld, HadPreflight, HadUser, HadLane DEF Next
<1> QED BY <1>1, <1>2, AlwaysTyped, PTL DEF Spec

\* BASE is a version both sides have had, whatever fails, races or is killed.
THEOREM BaseVerified == Spec => []BaseWasVerified
<1>1. Had => BaseWasVerified
  BY DEF Had, FilesHad, Common, BaseWasVerified
<1> QED BY <1>1, AlwaysHad, PTL

\* Only Sync Now, or a choice for the iPhone, makes the engine write to Steam.
THEOREM NoSilentUpload == Spec => UploadsAreAsked
<1>1. Typed /\ Had /\ [Next]_vars =>
        [\A s \in Slots : remote'[s] # remote[s] /\ ~PeerSave(s)
           => op # None /\ op.kind \in {"manual", "keep_local", "resolve_local"}]_vars
  <2> SUFFICES ASSUME Typed, Had, Next, NEW s \in Slots, remote'[s] # remote[s], ~PeerSave(s)
               PROVE  op # None /\ op.kind \in {"manual", "keep_local", "resolve_local"}
    OBVIOUS
  <2>1. CASE PushUpload
    BY <2>1 DEF PushUpload, InOp, Had, OpAsked, PushPcs
  <2>2. ASSUME NEW t \in Slots, PeerSave(t) PROVE FALSE
    <3>1. t # s
      BY <2>2
    <3>2. PICK f : remote' = [remote EXCEPT ![t] = f]
      BY <2>2 DEF PeerSave
    <3>3. remote'[s] = remote[s]
      BY <3>1, <3>2 DEF Typed, TypeOK
    <3> QED BY <3>3
  <2>3. CASE ~PushUpload /\ ~(\E t \in Slots : PeerSave(t))
    <3>1. UNCHANGED remote
      BY <2>3 DEF Next, World, GameSave, Relaunch, Preflight, PreflightOpen, RestoreLoad,
           RestoreBackup, RestoreWrite, RestoreSave, StartPrelaunch, BeginSync, Begin, PreflightSkip,
           PreflightClose, User, StartSync, StartForce, QueueRestore, LaneStep, OperationFails,
           SyncEnter, SyncBegin, SyncSlot, SyncDownload, SyncDecide, SyncSave, PullBackup,
           PullWrite, PushPrepare, PushAssert, PushVerify, QueueSave, ForceBegin,
           ForceDownload, ForceSave
    <3> QED BY <3>1
  <2> QED BY <2>1, <2>2, <2>3
<1> QED BY <1>1, AlwaysHad, PTL DEF Spec, UploadsAreAsked

-----------------------------------------------------------------------------
(* A pull is justified when the game and the user wait for the preflight:   *)
(* what the prelaunch compares is then the file it replaces, and a queue    *)
(* entry is what the user chose last.                                       *)

Waits == {"game", "host"} \subseteq plan.orderly

Queue(st) == \A s \in Slots : st.pulls[s] # None => st.pulls[s] = approved[s]

\* The choice that is about to be saved is not yet the approved one.
OpQueue(o) ==
  \A s \in Slots : o.mem.pulls[s] # None =>
    IF o.pc = "force_save" /\ o.kind = "keep_remote" /\ s = o.slot
    THEN o.mem.pulls[s] = o.listed[s]
    ELSE o.mem.pulls[s] = approved[s]

\* The snapshot is true of the saves, but for a restore that failed late.
SnapTrue == snap # None /\ \A s \in Slots \ late : snap[s] = local[s]

\* Only another computer makes Steam differ from what was listed or downloaded.
BytesListed(o) == o.bytes = o.listed[o.slot] \/ <<"steam", o.slot>> \in touched

\* Why a slot is to be pulled
PullReason(o) ==
  \/ o.mine[o.slot] = o.mem.base[o.slot]
  \/ o.listed[o.slot] = approved[o.slot] /\ BytesListed(o)

OpWaiting(o) ==
  /\ o.kind = "prelaunch"
  /\ o.pc \in {"enter", "list"} => SnapTrue
  /\ \A s \in o.todo \ late : o.mine[s] = local[s]
  /\ \A s \in o.todo : remote[s] = o.listed[s] \/ <<"steam", s>> \in touched
  /\ o.pc \in {"download", "decide", "pull", "pull_write"} => o.slot \in o.todo
  /\ o.pc = "decide" => BytesListed(o)
  /\ o.pc \in {"pull", "pull_write"} => PullReason(o)

BeforeLane == {"captured", "opened", "restore", "restore_write", "restore_save", "spawn"}

OpCalm(o) ==
  /\ OpQueue(o)
  /\ pf = "waiting" => OpWaiting(o)
  /\ o.pc = "pull_write" => pf = "waiting"

Calm ==
  /\ pf \in BeforeLane => op = None /\ SnapTrue
  /\ pf = "done" => allowed = FALSE
  /\ Queue(disk)
  /\ pf \in {"restore", "restore_write", "restore_save"} => Queue(pfMem)
  /\ op # None => OpCalm(op)

LEMMA WorldCalm ==
  ASSUME Typed, Waits, Calm, World
  PROVE  Waits /\ Calm'
<1>1. ASSUME NEW s \in Slots, GameSave(s) PROVE Calm'
  <2>1. pf = "done" /\ UNCHANGED << disk, snap, allowed, op, pf, pfMem, approved >>
    BY <1>1 DEF GameSave, Waits, engine
  <2> QED BY <2>1 DEF Calm, OpCalm, OpQueue, Queue, BeforeLane
<1>2. ASSUME NEW s \in Slots, PeerSave(s) PROVE Calm'
  <2>1. /\ UNCHANGED << local, disk, snap, allowed, op, pf, pfMem, approved, late >>
        /\ touched' = touched \cup {<<"steam", s>>}
        /\ \A t \in Slots \ {s} : remote'[t] = remote[t]
    BY <1>2 DEF PeerSave, engine, Typed, TypeOK
  <2>2. op # None => op.todo \subseteq Slots
    BY DEF Typed, TypeOK, Operation
  <2>3. op # None /\ OpWaiting(op) => OpWaiting(op)'
    BY <2>1, <2>2 DEF OpWaiting, SnapTrue, PullReason, BytesListed
  <2>4. SnapTrue => SnapTrue'
    BY <2>1 DEF SnapTrue
  <2> QED BY <2>1, <2>3, <2>4 DEF Calm, OpCalm, OpQueue, Queue
<1>3. ASSUME Relaunch PROVE Calm'
  <2>1. snap' = local /\ op' = None /\ pf' = "captured" /\ UNCHANGED << local, disk, approved >>
    BY <1>3 DEF Relaunch, history
  <2>2. local \in [Slots -> Versions \cup {None}]
    BY DEF Typed, TypeOK
  <2>3. local # None
    BY <2>2
  <2> QED BY <2>1, <2>3 DEF Calm, Queue, SnapTrue
<1> QED BY <1>1, <1>2, <1>3 DEF World

LEMMA BeginCalm ==
  ASSUME Typed, Calm, NEW kind, NEW mem \in State, NEW pc, NEW s, Begin(kind, mem, pc, s),
         Queue(mem), pc \in {"enter", "queue_save", "force_list"},
         \/ pf' = "done" /\ pf = "done"
         \/ pf' = "waiting" /\ pf = "spawn" /\ kind = "prelaunch"
  PROVE  Calm'
<1>1. UNCHANGED << local, disk, snap, allowed, pfMem, approved, late >>
  BY DEF Begin
<1>2. op'.kind = kind /\ op'.pc = pc /\ op'.mem = mem /\ op'.todo = {}
  BY DEF Begin
<1>3. OpQueue(op)'
  BY <1>1, <1>2 DEF OpQueue, Queue
<1>4. pf' = "waiting" => OpWaiting(op)'
  BY <1>1, <1>2 DEF OpWaiting, SnapTrue, Calm, BeforeLane
<1>5. OpCalm(op)'
  BY <1>2, <1>3, <1>4 DEF OpCalm
<1> QED BY <1>1, <1>5 DEF Calm, Queue, BeforeLane

LEMMA EmptyQueue == Queue(EmptyState)
BY DEF Queue, EmptyState

LEMMA UserCalm ==
  ASSUME Typed, Waits, Calm, User
  PROVE  Calm'
<1>0. pf = "done" /\ pf' = "done"
  BY DEF User, StartSync, StartForce, QueueRestore, Waits
<1>1. CASE StartSync
  <2>1. PICK kind \in {"auto", "manual"} : Begin(kind, EmptyState, "enter", None)
    BY <1>1 DEF StartSync, BeginSync
  <2> QED BY <1>0, <2>1, BeginCalm, EmptyQueue, EmptyType
<1>2. ASSUME NEW s \in Slots, StartForce(s) PROVE Calm'
  <2>1. PICK kind \in ForceKinds : Begin(kind, EmptyState, "force_list", s)
    BY <1>2 DEF StartForce
  <2> QED BY <1>0, <2>1, BeginCalm, EmptyQueue, EmptyType
<1>3. ASSUME NEW s \in Slots, QueueRestore(s) PROVE Calm'
  <2> DEFINE mem(v) == [disk EXCEPT !.restore = [slot |-> s, v |-> v]]
  <2>1. PICK v \in vault[s] \cap Versions : Begin("restore", mem(v), "queue_save", s)
    BY <1>3 DEF QueueRestore
  <2>2. mem(v) \in State /\ mem(v).pulls = disk.pulls
    BY <2>1 DEF Typed, TypeOK, State
  <2>3. Queue(mem(v))
    BY <2>2 DEF Calm, Queue
  <2> HIDE DEF mem
  <2> QED BY <1>0, <2>1, <2>2, <2>3, BeginCalm
<1> QED BY <1>1, <1>2, <1>3 DEF User

LEMMA PreflightCalm ==
  ASSUME Typed, Waits, Calm, Preflight
  PROVE  Calm'
<1>1. CASE PreflightOpen
  <2>1. pf = "captured" /\ pf' = "opened" /\ UNCHANGED << local, disk, snap, op, approved, late >>
    BY <1>1 DEF PreflightOpen, history
  <2> QED BY <2>1 DEF Calm, Queue, BeforeLane, SnapTrue
<1>2. CASE RestoreLoad
  <2>1. /\ pf = "opened" /\ UNCHANGED << local, disk, snap, op, approved, late >>
        /\ pf' = "spawn" \/ (pf' = "restore" /\ pfMem' = disk)
    BY <1>2 DEF RestoreLoad, history
  <2> QED BY <2>1 DEF Calm, Queue, BeforeLane, SnapTrue
<1>3. CASE RestoreBackup
  <2>1. /\ pf = "restore" /\ UNCHANGED << local, disk, snap, op, approved, late >>
        /\ pf' = "spawn" \/ (pf' = "restore_write" /\ UNCHANGED pfMem)
    BY <1>3 DEF RestoreBackup, SkipRestore, history
  <2> QED BY <2>1 DEF Calm, Queue, BeforeLane, SnapTrue
\* The save and the snapshot change together, or the restore fails late.
<1>4. CASE RestoreWrite
  <2> DEFINE s == pfMem.restore.slot
             v == pfMem.restore.v
  <2>0. v \in Versions
    BY <1>4 DEF RestoreWrite, Typed, TypeOK, Shape, State
  <2>1. pf = "restore_write" /\ UNCHANGED << disk, op, approved >> /\ SnapTrue /\ op = None
    BY <1>4 DEF RestoreWrite, Calm, BeforeLane
  <2>2. /\ local \in [Slots -> Versions \cup {None}]
        /\ snap \in [Slots -> Versions \cup {None}] /\ snap # None
    BY <2>1 DEF Typed, TypeOK, SnapTrue
  <2>3. CASE /\ local' = [local EXCEPT ![s] = v] /\ pf' = "restore_save"
             /\ snap' = [IF snap = None THEN [t \in Slots |-> None] ELSE snap EXCEPT ![s] = v]
             /\ UNCHANGED << pfMem, late >>
    <3>1. snap' = [snap EXCEPT ![s] = v]
      BY <2>2, <2>3
    <3>3. \A t \in Slots \ late : snap'[t] = local'[t]
      BY <2>1, <2>2, <2>3, <3>1 DEF SnapTrue
    <3>4. snap' # None
      <4>1. snap' \in [Slots -> Versions \cup {None}]
        BY <2>0, <2>2, <3>1
      <4> QED BY <4>1
    <3> QED BY <2>1, <2>3, <3>3, <3>4 DEF Calm, Queue, BeforeLane, SnapTrue
  <2>4. CASE /\ local' = [local EXCEPT ![s] = v] /\ pf' = "spawn"
             /\ late' = late \cup {s} /\ UNCHANGED snap
    <3>1. \A t \in Slots \ late' : snap'[t] = local'[t]
      BY <2>1, <2>2, <2>4 DEF SnapTrue
    <3> QED BY <2>1, <2>2, <2>4, <3>1 DEF Calm, Queue, BeforeLane, SnapTrue
  <2>5. CASE pf' = "spawn" /\ UNCHANGED << local, snap, late >>
    BY <2>1, <2>5 DEF Calm, Queue, BeforeLane, SnapTrue
  <2> QED BY <1>4, <2>3, <2>4, <2>5 DEF RestoreWrite, SkipRestore
<1>8. CASE RestoreSave
  <2>1. [pfMem EXCEPT !.restore = None].pulls = pfMem.pulls
    BY DEF Typed, TypeOK, State
  <2>2. /\ pf = "restore_save" /\ pf' = "spawn" /\ UNCHANGED << local, snap, op, approved, late >>
        /\ disk' = [pfMem EXCEPT !.restore = None] \/ UNCHANGED disk
    BY <1>8 DEF RestoreSave, history
  <2>3. Queue(disk)'
    BY <2>1, <2>2 DEF Calm, Queue
  <2> QED BY <2>2, <2>3 DEF Calm, BeforeLane, SnapTrue
<1>5. CASE StartPrelaunch
  <2>1. /\ Begin("prelaunch", EmptyState, "enter", None)
        /\ pf = "spawn" /\ pf' = "waiting"
    BY <1>5 DEF StartPrelaunch, BeginSync
  <2> QED BY <2>1, BeginCalm, EmptyQueue, EmptyType
<1>6. CASE PreflightSkip
  BY <1>6 DEF PreflightSkip, Calm, BeforeLane
<1>7. CASE PreflightClose
  <2>1. /\ pf = "waiting" /\ pf' = "done" /\ UNCHANGED << local, disk, snap, op, approved >>
        /\ op # None => op.pc # "pull_write"
    BY <1>7 DEF PreflightClose, history
  <2>2. allowed' = FALSE
    BY <1>7 DEF PreflightClose
  <2> QED BY <2>1, <2>2 DEF Calm, OpCalm, OpQueue, Queue, BeforeLane
<1> QED BY <1>1, <1>2, <1>3, <1>4, <1>5, <1>6, <1>7, <1>8 DEF Preflight

LEMMA SettledCalm ==
  ASSUME op # None, OpShape(op), OpCalm(op), NEW st, Settled(op', op, st),
         \A s \in Slots : st.pulls[s] # None => st.pulls[s] = approved[s],
         \A s \in op.todo \ {op.slot} : local'[s] = local[s],
         UNCHANGED << pf, approved, remote, touched, late >>
  PROVE  OpCalm(op)'
<1>1. OpQueue(op)'
  BY DEF Settled, OpQueue
<1>2. pf' = "waiting" => OpWaiting(op)'
  BY DEF Settled, OpCalm, OpWaiting
<1> QED BY <1>1, <1>2 DEF OpCalm, Settled

LEMMA LaneCalm ==
  ASSUME Typed, Had, Waits, Calm, LaneStep
  PROVE  Calm'
<1>1. op # None /\ UNCHANGED << pf, pfMem, allowed, touched, late >>
  BY DEF LaneStep, InOp, OperationFails, SyncEnter, SyncBegin, SyncSlot, SyncDownload,
         SyncDecide, SyncSave, PullBackup, PullWrite, PushPrepare, PushAssert, PushUpload,
         PushVerify, QueueSave, ForceBegin, ForceDownload, ForceSave, history
<1>2. /\ op \in Operation /\ op.mem \in State /\ OpShape(op) /\ OpAsked(op) /\ OpCalm(op)
      /\ pf \in {"waiting", "done"}
  BY <1>1, TypesInUse DEF Had, Calm, BeforeLane, Typed, TypeOK
\* The rest follows from what becomes of the operation, the state file and the queue.
<1>3. ASSUME op' # None => OpCalm(op)', Queue(disk)' PROVE Calm'
  BY <1>1, <1>2, <1>3 DEF Calm, BeforeLane
<1>4. ASSUME UNCHANGED << disk, approved >> PROVE Queue(disk)'
  BY <1>4 DEF Calm, Queue
<1>5. pf = "waiting" => op.kind = "prelaunch" /\ OpWaiting(op)
  BY <1>2 DEF OpCalm, OpWaiting
<1>6. CASE OperationFails
  BY <1>3, <1>4, <1>6 DEF OperationFails, Fail, history
<1>7. CASE SyncSave \/ QueueSave
  <2>1. op' = None /\ disk' = op.mem /\ UNCHANGED approved /\ op.pc # "force_save"
    BY <1>7 DEF SyncSave, QueueSave, InOp, history
  <2> QED BY <1>2, <1>3, <2>1 DEF OpCalm, OpQueue, Queue
<1>8. CASE SyncEnter \/ PullBackup
  <2>1. UNCHANGED << local, remote, snap, disk, approved >>
    BY <1>8 DEF SyncEnter, PullBackup, history
  <2>2. PICK pc \in {"list", "pull_write"} :
           Goto(pc) /\ (pc = "pull_write" => op.pc = "pull" /\ allowed)
                    /\ (pc = "list" => op.pc = "enter")
    BY <1>8 DEF SyncEnter, PullBackup, InOp
  <2>3. /\ op'.pc = pc /\ op'.slot = op.slot /\ op'.todo = op.todo /\ op'.mem = op.mem
        /\ op'.kind = op.kind /\ op'.mine = op.mine /\ op'.listed = op.listed
        /\ op'.bytes = op.bytes
    BY <1>2, <2>2 DEF Goto, Operation, Pcs
  <2>4. pc = "pull_write" => pf = "waiting"
    BY <1>2, <2>2 DEF Calm
  <2>5. OpQueue(op)'
    BY <1>2, <2>1, <2>2, <2>3 DEF OpCalm, OpQueue
  <2>6. pf = "waiting" => OpWaiting(op)'
    BY <1>1, <1>5, <2>1, <2>2, <2>3 DEF OpWaiting, SnapTrue, PullReason, BytesListed
  <2>7. OpCalm(op)'
    BY <1>1, <2>3, <2>4, <2>5, <2>6 DEF OpCalm
  <2> QED BY <1>3, <1>4, <2>1, <2>7
<1>9. CASE SyncBegin
  <2>1. UNCHANGED << local, remote, disk, approved >> /\ op.pc = "list"
    BY <1>9 DEF SyncBegin, Fail, InOp, history
  <2>2. ASSUME op' # None PROVE OpCalm(op)'
    <3> DEFINE mine == IF op.kind = "prelaunch" THEN snap ELSE local
    <3>1. /\ op'.pc = "slot" /\ op'.mine = mine /\ op'.mem = disk /\ op'.kind = op.kind
          /\ op'.todo \subseteq Slots /\ op'.listed = remote
      BY <1>9, <2>2, BeginEffect
    <3>2. pf = "waiting" => \A s \in Slots \ late : mine[s] = local[s]
      BY <1>5, <2>1 DEF OpWaiting, SnapTrue
    <3> HIDE DEF mine
    <3>3. OpQueue(op)'
      BY <2>1, <3>1 DEF OpQueue, Calm, Queue
    <3>4. pf = "waiting" => OpWaiting(op)'
      BY <1>1, <1>5, <2>1, <3>1, <3>2 DEF OpWaiting
    <3> QED BY <1>1, <3>1, <3>3, <3>4 DEF OpCalm
  <2> QED BY <1>3, <1>4, <2>1, <2>2
<1>10. CASE SyncSlot
  <2>1. UNCHANGED << local, remote, disk, approved >> /\ op.pc = "slot"
    BY <1>10 DEF SyncSlot, InOp, history
  <2>2. PICK s \in op.todo :
           \/ op'.pc = "slot" /\ op'.todo = op.todo \ {s} /\ Rest(op') = Rest(op)
           \/ /\ op'.pc = "download" /\ op'.slot = s /\ op'.todo = op.todo
              /\ Rest(op') = Rest(op)
    BY <1>10, SlotEffect
  <2>3. OpQueue(op)'
    BY <1>2, <2>1, <2>2 DEF OpCalm, OpQueue, Rest
  <2>4. pf = "waiting" => OpWaiting(op)'
    BY <1>1, <1>5, <2>1, <2>2 DEF OpWaiting, Rest
  <2>5. OpCalm(op)'
    BY <1>1, <2>2, <2>3, <2>4 DEF OpCalm
  <2> QED BY <1>3, <1>4, <2>1, <2>5
<1>11. CASE SyncDownload
  <2>1. UNCHANGED << local, remote, disk, approved >> /\ op.pc = "download"
    BY <1>11 DEF SyncDownload, Fail, InOp, history
  <2>2. ASSUME op' # None PROVE OpCalm(op)'
    <3>1. /\ op'.pc = "decide" /\ op'.slot = op.slot /\ op'.todo = op.todo
          /\ op'.bytes = remote[op.slot] /\ Rest(op') = Rest(op)
      BY <1>11, <2>2, DownloadEffect
    <3>2. OpQueue(op)'
      BY <1>2, <2>1, <3>1 DEF OpCalm, OpQueue, Rest
    <3>3. pf = "waiting" => OpWaiting(op)'
      BY <1>1, <1>5, <2>1, <3>1 DEF OpWaiting, BytesListed, Rest
    <3> QED BY <1>1, <3>1, <3>2, <3>3 DEF OpCalm
  <2> QED BY <1>3, <1>4, <2>1, <2>2
<1>12. CASE SyncDecide
  <2>1. UNCHANGED << local, remote, disk, approved >>
    BY <1>12 DEF SyncDecide, history
  <2>2. op.slot \in Slots /\ op.pc = "decide" /\ Mine \in Versions \cup {None}
    BY <1>2, <1>12, TypesInUse DEF SyncDecide, InOp, SlotPcs, Mine, Operation
  <2>3. \A s \in Slots : op.mem.pulls[s] # None => op.mem.pulls[s] = approved[s]
    BY <1>2, <2>2 DEF OpCalm, OpQueue
  <2>4. /\ MemUnqueued \in State /\ MemUnqueued.base = op.mem.base
        /\ \A s \in Slots : MemUnqueued.pulls[s] # None => MemUnqueued.pulls[s] = approved[s]
    <3>1. MemUnqueued \in State /\ MemUnqueued.base = op.mem.base
      BY <1>2, <2>2, PullInIs DEF MemUnqueued
    <3>2. \A s \in Slots :
            MemUnqueued.pulls[s] = IF s = op.slot THEN None ELSE op.mem.pulls[s]
      BY <1>2, <2>2, PullInAt DEF MemUnqueued
    <3> QED BY <2>3, <3>1, <3>2
  <2>5. \A s \in Slots : MemConverged.pulls[s] # None => MemConverged.pulls[s] = approved[s]
    <3>1. MemConverged.pulls = MemUnqueued.pulls
      BY <2>2, <2>4, BaseInIs DEF MemConverged
    <3> QED BY <2>4, <3>1
  <2>6. ASSUME NEW st, Settled(op', op, st),
               \A s \in Slots : st.pulls[s] # None => st.pulls[s] = approved[s]
        PROVE  OpCalm(op)'
    BY <1>1, <1>2, <2>1, <2>6, SettledCalm, TypesInUse
  <2>7. ASSUME NEW st, NEW pc \in {"pull", "push"}, Moved(op', op, pc, st),
               \A s \in Slots : st.pulls[s] # None => st.pulls[s] = approved[s],
               pc = "pull" => Mine = st.base[op.slot] \/ op.listed[op.slot] = approved[op.slot]
        PROVE  OpCalm(op)'
    <3>1. OpQueue(op)'
      BY <2>1, <2>7 DEF Moved, OpQueue
    <3>2. pf = "waiting" => OpWaiting(op)'
      BY <1>1, <1>5, <2>1, <2>2, <2>7 DEF Moved, OpWaiting, PullReason, BytesListed, Mine
    <3> QED BY <1>1, <2>7, <3>1, <3>2 DEF Moved, OpCalm
  <2>8. QueuedIsListed => op.listed[op.slot] = approved[op.slot]
    BY <2>2, <2>3 DEF QueuedIsListed, Queued
  <2>9. Decision = "download" => Mine = MemUnqueued.base[op.slot]
    BY <2>4 DEF Decision, Decide
  <2>10. \/ QueuedIsListed /\ Moved(op', op, "pull", op.mem)
         \/ Settled(op', op, op.mem)
         \/ Decision = "download" /\ Moved(op', op, "pull", MemUnqueued)
         \/ Moved(op', op, "push", MemUnqueued)
         \/ Settled(op', op, MemUnqueued) \/ Settled(op', op, MemConverged)
    BY <1>12, DecideEffect
  <2>11. OpCalm(op)'
    BY <2>3, <2>4, <2>5, <2>6, <2>7, <2>8, <2>9, <2>10
  <2> QED BY <1>3, <1>4, <2>1, <2>11
<1>13. CASE PullWrite
  <2> DEFINE st == BaseIn(MemUnqueued, op.slot, Theirs)
  <2>1. op.slot \in Slots /\ Theirs \in Versions /\ (op' # None => Settled(op', op, st))
    BY <1>13, WriteEffect
  <2>2. op.pc = "pull_write" /\ local' = [local EXCEPT ![op.slot] = Theirs]
        /\ UNCHANGED << remote, disk, approved >>
    BY <1>13 DEF PullWrite, InOp
  <2>3. \A s \in Slots : st.pulls[s] # None => st.pulls[s] = approved[s]
    <3>1. MemUnqueued \in State
      BY <1>2, <2>1, PullInIs DEF MemUnqueued
    <3>2. st.pulls = MemUnqueued.pulls
      BY <2>1, <3>1, BaseInIs
    <3>3. \A s \in Slots :
            MemUnqueued.pulls[s] = IF s = op.slot THEN None ELSE op.mem.pulls[s]
      BY <1>2, <2>1, PullInAt DEF MemUnqueued
    <3>4. \A s \in Slots : op.mem.pulls[s] # None => op.mem.pulls[s] = approved[s]
      BY <1>2, <2>2 DEF OpCalm, OpQueue
    <3> HIDE DEF st
    <3> QED BY <3>2, <3>3, <3>4
  <2> HIDE DEF st
  <2>4. \A s \in op.todo \ {op.slot} : local'[s] = local[s]
    BY <1>2, <2>2 DEF Typed, TypeOK, Operation
  <2>5. op' # None => OpCalm(op)'
    BY <1>1, <1>2, <2>1, <2>2, <2>3, <2>4, SettledCalm
  <2> QED BY <1>3, <1>4, <2>2, <2>5
<1>14. CASE PushPrepare \/ PushAssert \/ PushUpload \/ PushVerify
  <2>1. pf # "waiting" /\ UNCHANGED << disk, approved >> /\ op.pc \in PushPcs
    BY <1>2, <1>5, <1>14 DEF PushPrepare, PushAssert, PushUpload, PushVerify, InOp, OpAsked, PushPcs,
                        history
  <2>2. /\ op'.pc \in {"push_assert", "push_upload", "push_verify", "force_save", "slot"}
        /\ op'.kind = op.kind
        /\ op'.mem.pulls = op.mem.pulls
    <3>1. CASE PushPrepare
      BY <3>1, PrepareEffect DEF Rest
    <3>2. CASE PushAssert \/ PushUpload
      BY <1>2, <3>2 DEF PushAssert, PushUpload, Goto, Operation, Pcs
    <3>3. CASE PushVerify
      <4> DEFINE st == BaseIn(op.mem, op.slot, op.staged)
      <4>1. st.pulls = op.mem.pulls
        <5>1. op.slot \in Slots /\ op.staged \in Versions
          BY <3>3, VerifyEffect
        <5> QED BY <1>2, <5>1, BaseInIs
      <4>2. Moved(op', op, "force_save", st) \/ Settled(op', op, st)
        BY <3>3, VerifyEffect
      <4> HIDE DEF st
      <4> QED BY <4>1, <4>2 DEF Moved, Settled
    <3> QED BY <1>14, <3>1, <3>2, <3>3
  <2>3. \A s \in Slots : op.mem.pulls[s] # None => op.mem.pulls[s] = approved[s]
    BY <1>2, <2>1 DEF OpCalm, OpQueue, PushPcs
  <2>4. op.kind # "keep_remote"
    BY <1>2, <2>1 DEF OpAsked
  <2>5. OpCalm(op)'
    BY <1>1, <2>1, <2>2, <2>3, <2>4 DEF OpCalm, OpQueue
  <2> QED BY <1>3, <1>4, <2>1, <2>5
<1>15. CASE ForceBegin
  <2>1. pf # "waiting" /\ UNCHANGED << disk, approved >>
    BY <1>2, <1>5, <1>15 DEF ForceBegin, InOp, OpAsked, ForceKinds, history
  <2>2. op'.pc \in {"force_download", "push"} /\ op'.mem = disk
    BY <1>15, ForceBeginEffect
  <2>3. OpCalm(op)'
    BY <1>1, <2>1, <2>2 DEF OpCalm, OpQueue, Calm, Queue
  <2> QED BY <1>3, <1>4, <2>1, <2>3
<1>16. CASE ForceDownload
  <2>1. pf # "waiting" /\ UNCHANGED << disk, approved >> /\ op.pc = "force_download"
    BY <1>2, <1>5, <1>16 DEF ForceDownload, InOp, OpAsked, ForceKinds, history
  <2>2. op.slot \in Slots /\ op'.slot = op.slot /\ op'.listed = op.listed /\ op'.kind = op.kind
    BY <1>16, ForceDownloadEffect
  <2>3. \A s \in Slots : op.mem.pulls[s] # None => op.mem.pulls[s] = approved[s]
    BY <1>2, <2>1 DEF OpCalm, OpQueue
  <2>4. CASE op'.pc = "push" /\ op'.mem = op.mem
    <3>1. OpCalm(op)'
      BY <1>1, <2>1, <2>3, <2>4 DEF OpCalm, OpQueue
    <3> QED BY <1>3, <1>4, <2>1, <3>1
  <2>5. CASE /\ op.kind = "keep_remote" /\ op'.pc = "force_save"
             /\ op'.mem = PullIn(op.mem, op.slot, op.listed[op.slot])
    <3>1. op.listed[op.slot] \in Files \cup {None}
      BY <1>2, <2>2 DEF Operation
    <3>2. \A s \in Slots : op'.mem.pulls[s] = IF s = op.slot THEN op.listed[op.slot]
                                              ELSE op.mem.pulls[s]
      BY <1>2, <2>2, <2>5, <3>1, PullInAt
    <3>3. OpQueue(op)'
      BY <2>1, <2>2, <2>3, <2>5, <3>2 DEF OpQueue
    <3>4. OpCalm(op)'
      BY <1>1, <2>1, <2>5, <3>3 DEF OpCalm
    <3> QED BY <1>3, <1>4, <2>1, <3>4
  <2> QED BY <1>16, <2>4, <2>5, ForceDownloadEffect
<1>17. CASE ForceSave
  <2>1. pf # "waiting" /\ disk' = op.mem /\ op.pc = "force_save" /\ op.slot \in Slots
    BY <1>2, <1>5, <1>17, TypesInUse DEF ForceSave, InOp, OpAsked, ForceKinds, SlotPcs
  <2>2. \A s \in Slots : op.mem.pulls[s] # None => op.mem.pulls[s] = approved'[s]
    <3>1. CASE op.kind = "keep_remote"
      <4>1. approved' = [approved EXCEPT ![op.slot] = op.listed[op.slot]]
        BY <1>17, <3>1 DEF ForceSave
      <4>2. \A s \in Slots : approved'[s] = IF s = op.slot THEN op.listed[op.slot]
                                            ELSE approved[s]
        BY <2>1, <4>1 DEF Typed, TypeOK
      <4>3. ASSUME NEW s \in Slots, op.mem.pulls[s] # None, s # op.slot
            PROVE  op.mem.pulls[s] = approved[s]
        BY <1>2, <4>3 DEF OpCalm, OpQueue
      <4>4. op.mem.pulls[op.slot] # None => op.mem.pulls[op.slot] = op.listed[op.slot]
        BY <1>2, <2>1, <3>1 DEF OpCalm, OpQueue
      <4> QED BY <4>2, <4>3, <4>4
    <3>2. CASE op.kind # "keep_remote"
      <4>1. UNCHANGED approved
        BY <1>17, <3>2 DEF ForceSave
      <4> QED BY <1>2, <3>2, <4>1 DEF OpCalm, OpQueue
    <3> QED BY <3>1, <3>2
  <2>3. Queue(disk)'
    BY <2>1, <2>2 DEF Queue
  <2>4. op' # None => OpCalm(op)'
    BY <1>1, <1>17, <2>1, <2>2, ForceSaveEffect DEF OpCalm, OpQueue
  <2> QED BY <1>3, <2>3, <2>4
<1> QED BY <1>6, <1>7, <1>8, <1>9, <1>10, <1>11, <1>12, <1>13, <1>14, <1>15, <1>16, <1>17
     DEF LaneStep

LEMMA InitCalm == Init => Calm
<1> SUFFICES ASSUME Init PROVE Calm
  OBVIOUS
<1>1. disk.pulls = EmptyState.pulls
  <2>1. PICK base \in [Slots -> Played \cup {None}] : disk = [EmptyState EXCEPT !.base = base]
    BY DEF Init
  <2> QED BY <2>1 DEF EmptyState
<1>2. Queue(disk)
  BY <1>1, EmptyQueue DEF Queue
<1>3. local # None
  <2>1. local \in [Slots -> Versions \cup {None}]
    BY DEF Init
  <2> QED BY <2>1
<1> QED BY <1>2, <1>3 DEF Init, Calm, SnapTrue

\* Who is orderly stays so.
LEMMA PlanKept ==
  ASSUME Typed, [Next]_vars
  PROVE  plan'.orderly = plan.orderly
<1>1. CASE World
  <2>1. PlanType
    BY DEF Typed, TypeOK, PlanType
  <2>2. \/ plan.game > 0 /\ plan' = [plan EXCEPT !.game = @ - 1]
        \/ plan.peer > 0 /\ plan' = [plan EXCEPT !.peer = @ - 1]
        \/ plan.launch > 0 /\ plan' = [plan EXCEPT !.launch = @ - 1]
    BY <1>1 DEF World, GameSave, PeerSave, Relaunch
  <2> QED BY <2>1, <2>2, PlanCounts
<1>2. CASE Preflight
  BY <1>2 DEF Preflight, PreflightOpen, RestoreLoad, RestoreBackup, RestoreWrite, RestoreSave,
       StartPrelaunch, BeginSync, Begin, PreflightSkip, PreflightClose
<1>3. CASE User
  BY <1>3 DEF User, StartSync, BeginSync, StartForce, QueueRestore, Begin
<1>4. CASE LaneStep
  BY <1>4 DEF LaneStep, OperationFails, SyncEnter, SyncBegin, SyncSlot, SyncDownload,
       SyncDecide, SyncSave, PullBackup, PullWrite, PushPrepare, PushAssert, PushUpload,
       PushVerify, QueueSave, ForceBegin, ForceDownload, ForceSave
<1>5. CASE UNCHANGED vars
  BY <1>5 DEF vars
<1> QED BY <1>1, <1>2, <1>3, <1>4, <1>5 DEF Next

LEMMA NextCalm ==
  ASSUME Typed, Had, Waits => Calm, [Next]_vars, Waits'
  PROVE  Waits /\ Calm'
<1>1. Waits /\ Calm
  BY PlanKept DEF Waits
<1>2. CASE UNCHANGED vars
  BY <1>1, <1>2 DEF vars, engine, history, Calm, OpCalm, OpQueue, OpWaiting, Queue, SnapTrue,
                    PullReason, BytesListed
<1> QED BY <1>1, <1>2, WorldCalm, UserCalm, PreflightCalm, LaneCalm DEF Next

\* A pull overwrites what both sides had in common, or brings the very Steam file
\* the user chose, if the game and the user wait for the preflight. Excepted are
\* a chosen file that another computer replaced before the download, and a slot
\* whose restore replaced the save and then failed.
THEOREM PullJustified == Spec => []PullIsJustified
<1> DEFINE Orderly == Waits => Calm
<1>1. Init => Orderly
  BY InitCalm
<1>2. Typed /\ Had /\ Orderly /\ [Next]_vars => Orderly'
  BY NextCalm
<1>3. Typed /\ Orderly => PullIsJustified
  <2> SUFFICES ASSUME Typed, Orderly, InOp("pull_write"), Waits
               PROVE  \/ local[op.slot] = op.mem.base[op.slot]
                      \/ /\ op.listed[op.slot] = approved[op.slot]
                         /\ op.bytes = approved[op.slot] \/ <<"steam", op.slot>> \in touched
                      \/ op.kind = "prelaunch" /\ op.slot \in late
    BY DEF PullIsJustified, Waits
  <2>1. op.pc = "pull_write" /\ OpWaiting(op)
    BY DEF InOp, Calm, OpCalm
  <2> QED BY <2>1 DEF OpWaiting, PullReason, BytesListed
<1> HIDE DEF Orderly
<1> QED BY <1>1, <1>2, <1>3, AlwaysHad, PTL DEF Spec

-----------------------------------------------------------------------------
(* The verdict "idle".  It is given for all slots at once, from a tally of  *)
(* what was seen slot by slot; in between, what the tally says of a slot    *)
(* stays true, unless somebody rewrote one of its files.                    *)

\* Nobody has rewritten the file of the slot since the operation began.
Still(side, s) == <<side, s>> \notin touched
Quiet(s)       == Still("phone", s) /\ Still("steam", s)

\* What "idle" says of a slot
Agrees(o, s) == ContentOf(remote[s]) = {local[s]} /\ o.mem.base[s] = local[s]

ComparePcs  == {"slot", "download", "decide", "pull", "pull_write"}
Compares(o) == o.kind \in SyncKinds /\ o.pc \notin {"enter", "list"}

\* The slots whose save the snapshot it compares is not true of
Off(o) == IF o.kind = "prelaunch" THEN late ELSE {}

OpTallied(o) ==
  /\ o.pc \in ComparePcs \cup {"enter", "list"} => o.kind \in SyncKinds
  /\ ~Compares(o) => o.done = {}
  /\ o.kind = "prelaunch" /\ o.pc \in {"enter", "list"} /\ snap # None =>
       \A s \in Slots \ late : Still("phone", s) => snap[s] = local[s]
  /\ Compares(o) =>
       /\ o.todo \cap o.done = {}
       /\ o.pc # "slot" => o.slot \in o.todo
       /\ \A s \in o.todo \ Off(o) : Still("phone", s) => o.mine[s] = local[s]
  /\ o.pc \in {"decide", "pull", "pull_write"} /\ Still("steam", o.slot) =>
       o.bytes = remote[o.slot]
  /\ \A s \in o.done \ Off(o) : Quiet(s) => Told(o, s) \/ Agrees(o, s)

Tallied == op # None => OpTallied(op)

LEMMA WorldTallied ==
  ASSUME Typed, Tallied, World
  PROVE  Tallied'
<1>1. ASSUME NEW s \in Slots, GameSave(s) PROVE Tallied'
  <2>1. /\ touched' = touched \cup {<<"phone", s>>} /\ UNCHANGED << remote, op, snap, late >>
        /\ \A t \in Slots \ {s} : local'[t] = local[t]
    BY <1>1 DEF GameSave, engine, Typed, TypeOK
  <2>2. op # None => op.todo \subseteq Slots /\ op.done \subseteq Slots
    BY DEF Typed, TypeOK, Operation
  <2> QED BY <2>1, <2>2 DEF Tallied, OpTallied, Compares, Still, Quiet, Told, Agrees, Off
<1>2. ASSUME NEW s \in Slots, PeerSave(s) PROVE Tallied'
  <2>1. /\ touched' = touched \cup {<<"steam", s>>} /\ UNCHANGED << local, op, snap, late >>
        /\ \A t \in Slots \ {s} : remote'[t] = remote[t]
    BY <1>2 DEF PeerSave, engine, Typed, TypeOK
  <2>2. op # None => /\ op.todo \subseteq Slots /\ op.done \subseteq Slots
                     /\ op.pc \in {"decide", "pull", "pull_write"} => op.slot \in Slots
    BY TypesInUse DEF Typed, TypeOK, Operation, SlotPcs
  <2> QED BY <2>1, <2>2 DEF Tallied, OpTallied, Compares, Still, Quiet, Told, Agrees, Off
<1>3. CASE Relaunch
  BY <1>3 DEF Relaunch, Tallied
<1> QED BY <1>1, <1>2, <1>3 DEF World

\* An operation that begins has nothing in its tally yet.
LEMMA BeginTallied ==
  ASSUME NEW kind, NEW mem, NEW pc, NEW s, Begin(kind, mem, pc, s),
         pc \in {"enter", "queue_save", "force_list"},
         kind \in SyncKinds <=> pc = "enter",
         kind = "prelaunch" => SnapTrue
  PROVE  Tallied'
<1>1. /\ op'.kind = kind /\ op'.pc = pc /\ op'.done = {}
      /\ UNCHANGED << local, snap, late >>
  BY DEF Begin
<1> QED BY <1>1 DEF Tallied, OpTallied, Compares, ComparePcs, SnapTrue

LEMMA UserTallied ==
  ASSUME User
  PROVE  Tallied'
<1>1. CASE StartSync
  BY <1>1, BeginTallied DEF StartSync, BeginSync, SyncKinds
<1>2. ASSUME NEW s \in Slots, StartForce(s) PROVE Tallied'
  BY <1>2, BeginTallied DEF StartForce, ForceKinds, SyncKinds
<1>3. ASSUME NEW s \in Slots, QueueRestore(s) PROVE Tallied'
  BY <1>3, BeginTallied DEF QueueRestore, SyncKinds
<1> QED BY <1>1, <1>2, <1>3 DEF User

LEMMA PreflightTallied ==
  ASSUME Calm, Tallied, Preflight
  PROVE  Tallied'
<1>1. CASE StartPrelaunch
  <2>1. SnapTrue
    BY <1>1 DEF StartPrelaunch, Calm, BeforeLane
  <2> QED BY <1>1, <2>1, BeginTallied DEF StartPrelaunch, BeginSync, SyncKinds
\* The restore replaces a save while no operation runs.
<1>2. CASE RestoreBackup \/ RestoreWrite
  <2>1. op = None /\ op' = None
    BY <1>2 DEF RestoreBackup, RestoreWrite, Calm, BeforeLane
  <2> QED BY <2>1 DEF Tallied
<1>3. CASE PreflightOpen \/ RestoreLoad \/ RestoreSave \/ PreflightSkip \/ PreflightClose
  <2>1. UNCHANGED << local, remote, snap, op, touched, late >>
    BY <1>3 DEF PreflightOpen, RestoreLoad, RestoreSave, PreflightSkip, PreflightClose, history
  <2> QED BY <2>1 DEF Tallied, OpTallied, Compares, Still, Quiet, Told, Agrees, Off
<1> QED BY <1>1, <1>2, <1>3 DEF Preflight

\* A slot is finished: told of, or in agreement, or not quiet.
LEMMA SettledTallied ==
  ASSUME Typed, op # None, OpTallied(op), Compares(op), op.slot \in op.todo,
         NEW st, Settled(op', op, st), UNCHANGED << touched, late >>,
         \A s \in Slots \ {op.slot} :
           st.base[s] = op.mem.base[s] /\ local'[s] = local[s] /\ remote'[s] = remote[s],
         Quiet(op.slot) /\ op.slot \notin Off(op) =>
           \/ Told(op', op.slot)
           \/ ContentOf(remote'[op.slot]) = {local'[op.slot]} /\ st.base[op.slot] = local'[op.slot]
  PROVE  OpTallied(op)'
<1>1. op.todo \subseteq Slots /\ op.done \subseteq Slots /\ op.todo \cap op.done = {}
  BY DEF Typed, TypeOK, Operation, OpTallied
<1>2. /\ op'.pc = "slot" /\ op'.kind = op.kind /\ op'.mine = op.mine /\ op'.mem = st
      /\ op'.todo = op.todo \ {op.slot} /\ op'.done = op.done \cup {op.slot}
      /\ \A s \in Slots \ {op.slot} : op'.found[s] = op.found[s]
      /\ op.waiting => op'.waiting
  BY DEF Settled
<1>0. Off(op)' = Off(op)
  BY <1>2 DEF Off
<1>3. \A s \in op'.todo \ Off(op)' : Still("phone", s)' => op'.mine[s] = local'[s]
  BY <1>0, <1>1, <1>2 DEF OpTallied, Still
<1>4. ASSUME NEW s \in op'.done \ Off(op)', Quiet(s)' PROVE Told(op, s)' \/ Agrees(op, s)'
  <2>1. Quiet(s)
    BY <1>4 DEF Quiet, Still
  <2>2. CASE s = op.slot
    BY <1>0, <1>2, <1>4, <2>1, <2>2 DEF Agrees, Told
  <2>3. CASE s # op.slot
    <3>1. s \in op.done \ Off(op) /\ s \in Slots \ {op.slot}
      BY <1>0, <1>1, <1>2, <1>4, <2>3
    <3>2. Told(op, s) \/ Agrees(op, s)
      BY <2>1, <3>1 DEF OpTallied
    <3> QED BY <1>2, <3>1, <3>2 DEF Agrees, Told
  <2> QED BY <2>2, <2>3
<1> QED BY <1>1, <1>2, <1>3, <1>4 DEF OpTallied, Compares, ComparePcs

\* A step inside a slot that leaves the save files and the tally alone
LEMMA MovedTallied ==
  ASSUME Typed, op # None, OpTallied(op),
         UNCHANGED << local, remote, snap, touched, late >>,
         op'.kind = op.kind, op'.slot = op.slot, op'.todo = op.todo, op'.mine = op.mine,
         Tally(op') = Tally(op),
         \A s \in op.done : op'.mem.base[s] = op.mem.base[s],
         op'.pc \in ComparePcs \cup {"enter", "list"} => op.kind \in SyncKinds,
         Compares(op') <=> Compares(op), op.pc # "slot",
         op'.pc \in {"enter", "list"} => op.pc \in {"enter", "list"},
         op'.pc \in {"decide", "pull", "pull_write"} /\ Still("steam", op.slot) =>
           op'.bytes = remote[op.slot]
  PROVE  OpTallied(op)'
<1>1. op'.done = op.done /\ op'.found = op.found /\ op'.waiting = op.waiting
  BY DEF Tally
<1>0. Off(op)' = Off(op)
  BY DEF Off
<1>2. \A s \in op'.done \ Off(op)' : Quiet(s)' => Told(op, s)' \/ Agrees(op, s)'
  BY <1>0, <1>1 DEF OpTallied, Quiet, Still, Told, Agrees
<1> QED BY <1>0, <1>1, <1>2 DEF OpTallied, Compares, Still

LEMMA LaneTallied ==
  ASSUME Typed, Had, Tallied, LaneStep
  PROVE  Tallied'
<1>1. op # None /\ UNCHANGED << touched, late >>
  BY DEF LaneStep, InOp, OperationFails, SyncEnter, SyncBegin, SyncSlot, SyncDownload,
         SyncDecide, SyncSave, PullBackup, PullWrite, PushPrepare, PushAssert, PushUpload,
         PushVerify, QueueSave, ForceBegin, ForceDownload, ForceSave, history
<1>2. /\ op \in Operation /\ op.mem \in State /\ OpAsked(op) /\ OpTallied(op)
      /\ op.todo \subseteq Slots /\ op.done \subseteq Slots
      /\ op.pc \in SlotPcs => op.slot \in Slots
  BY <1>1, TypesInUse DEF Had, Tallied, Operation
\* What holds of the slot that is compared
<1>3. op.pc \in ComparePcs => Compares(op)
  BY <1>2 DEF OpTallied, Compares, ComparePcs
<1>4. ASSUME op.pc \in {"decide", "pull_write"}
      PROVE  /\ op.slot \in op.todo /\ op.slot \in Slots /\ Compares(op)
             /\ Quiet(op.slot) => ContentOf(remote[op.slot]) = {Theirs}
             /\ Quiet(op.slot) /\ op.slot \notin Off(op) => Mine = local[op.slot]
  <2>1. op.bytes # None
    BY <1>1, TypesInUse
  <2>2. op.slot \in op.todo /\ op.slot \in Slots /\ Compares(op)
    BY <1>2, <1>3, <1>4 DEF OpTallied, ComparePcs, SlotPcs
  <2> QED BY <1>2, <1>4, <2>1, <2>2 DEF OpTallied, Quiet, Mine, Theirs, ContentOf
<1>5. CASE OperationFails \/ SyncSave \/ QueueSave
  BY <1>5 DEF OperationFails, Fail, SyncSave, QueueSave, Tallied
<1>6. CASE SyncEnter \/ PullBackup \/ PushAssert
  <2>1. UNCHANGED << local, remote, snap >>
    BY <1>6 DEF SyncEnter, PullBackup, PushAssert
  <2>2. PICK pc \in {"list", "pull_write", "push_upload"} :
           /\ Goto(pc)
           /\ pc = "list" => op.pc = "enter"
           /\ pc = "pull_write" => op.pc = "pull"
           /\ pc = "push_upload" => op.pc = "push_assert"
    BY <1>6 DEF SyncEnter, PullBackup, PushAssert, InOp
  <2>3. /\ op' \in Operation /\ op'.pc = pc /\ op'.slot = op.slot /\ op'.todo = op.todo
        /\ op'.bytes = op.bytes /\ Rest(op') = Rest(op) /\ Tally(op') = Tally(op)
    <3>1. op' = [op EXCEPT !.pc = pc] /\ pc \in Pcs
      BY <2>2 DEF Goto, Pcs
    <3> QED BY <1>2, <3>1, GotoType
  <2>4. op'.kind = op.kind /\ op'.mine = op.mine /\ op'.mem = op.mem
    BY <2>3 DEF Rest
  <2>5. OpTallied(op)'
    <3>1. pc = "pull_write" /\ Still("steam", op.slot) => op.bytes = remote[op.slot]
      BY <1>2, <2>2 DEF OpTallied
    <3>2. Compares(op') <=> Compares(op)
      BY <2>2, <2>3, <2>4 DEF Compares
    <3>3. op'.pc \in ComparePcs \cup {"enter", "list"} => op.kind \in SyncKinds
      BY <1>2, <2>2, <2>3 DEF ComparePcs, OpTallied
    <3> QED BY <1>1, <1>2, <2>1, <2>2, <2>3, <2>4, <3>1, <3>2, <3>3, MovedTallied
  <2> QED BY <2>5 DEF Tallied
<1>7. CASE SyncBegin
  <2> SUFFICES ASSUME op' # None PROVE OpTallied(op)'
    BY DEF Tallied
  <2> DEFINE mine == IF op.kind = "prelaunch" THEN snap ELSE local
  <2>1. /\ op'.pc = "slot" /\ op'.mine = mine /\ op'.kind = op.kind /\ op'.done = op.done
        /\ op'.todo \subseteq Slots
    BY <1>7, BeginEffect
  <2>2. /\ op.pc = "list" /\ UNCHANGED << local, remote >>
        /\ op.kind = "prelaunch" => snap # None
    BY <1>7 DEF SyncBegin, InOp
  <2>3. op.done = {}
    BY <1>2, <2>2 DEF OpTallied, Compares
  <2>4. \A s \in Slots \ Off(op) : Still("phone", s) => mine[s] = local[s]
    BY <1>2, <2>2 DEF OpTallied, Off
  <2>6. Off(op)' = Off(op)
    BY <1>1, <2>1 DEF Off
  <2>5. op.kind \in SyncKinds
    BY <1>2, <2>2 DEF OpTallied
  <2> HIDE DEF mine
  <2> QED BY <1>1, <2>1, <2>2, <2>3, <2>4, <2>5, <2>6 DEF OpTallied, Compares, Still
<1>8. CASE SyncSlot
  <2>1. UNCHANGED << local, remote, snap >> /\ op.pc = "slot"
    BY <1>8 DEF SyncSlot, InOp
  <2>2. Compares(op)
    BY <1>3, <2>1 DEF ComparePcs
  <2>3. PICK s \in op.todo :
           \/ /\ op'.pc = "slot" /\ op'.todo = op.todo \ {s} /\ Rest(op') = Rest(op)
              /\ op'.done = op.done \cup {s} /\ op'.found = [op.found EXCEPT ![s] = "missing"]
              /\ op'.waiting = op.waiting
           \/ /\ op'.pc = "download" /\ op'.slot = s /\ op'.todo = op.todo
              /\ Rest(op') = Rest(op) /\ Tally(op') = Tally(op)
    BY <1>8, SlotEffect
  <2>4. op'.kind = op.kind /\ op'.mine = op.mine /\ op'.mem = op.mem /\ Off(op)' = Off(op)
    BY <1>1, <2>3 DEF Rest, Off
  <2>5. CASE op'.pc = "slot"
    <3>1. op'.found = [op.found EXCEPT ![s] = "missing"] /\ op'.done = op.done \cup {s}
          /\ op'.todo = op.todo \ {s} /\ op'.waiting = op.waiting
      BY <2>3, <2>5
    <3>2. op.found \in [Slots -> ChoiceKinds \cup {None}]
      BY <1>2 DEF Operation
    <3>3. Told(op', s)
      BY <1>2, <3>1, <3>2 DEF Told, ChoiceKinds
    <3>4. \A t \in Slots \ {s} : Told(op, t) => Told(op', t)
      BY <3>1, <3>2 DEF Told
    <3>5. \A t \in op'.done \ Off(op)' : Quiet(t)' => Told(op, t)' \/ Agrees(op, t)'
      BY <1>1, <1>2, <2>1, <2>4, <3>1, <3>3, <3>4 DEF OpTallied, Quiet, Still, Agrees, Told
    <3>6. OpTallied(op)'
      BY <1>1, <1>2, <2>1, <2>2, <2>4, <2>5, <3>1, <3>5 DEF OpTallied, Compares, Still
    <3> QED BY <3>6 DEF Tallied
  <2>6. CASE op'.pc = "download"
    <3>1. op'.slot = s /\ op'.todo = op.todo /\ op'.done = op.done /\ op'.found = op.found
          /\ op'.waiting = op.waiting
      BY <2>3, <2>6 DEF Tally
    <3>2. \A t \in op'.done \ Off(op)' : Quiet(t)' => Told(op, t)' \/ Agrees(op, t)'
      BY <1>1, <1>2, <2>1, <2>4, <3>1 DEF OpTallied, Quiet, Still, Agrees, Told
    <3>3. OpTallied(op)'
      BY <1>1, <1>2, <2>1, <2>2, <2>4, <2>6, <3>1, <3>2 DEF OpTallied, Compares, Still
    <3> QED BY <3>3 DEF Tallied
  <2> QED BY <2>3, <2>5, <2>6
<1>9. CASE SyncDownload
  <2> SUFFICES ASSUME op' # None PROVE OpTallied(op)'
    BY DEF Tallied
  <2>1. UNCHANGED << local, remote, snap >> /\ op.pc = "download"
    BY <1>9 DEF SyncDownload, InOp
  <2>2. /\ op'.pc = "decide" /\ op'.slot = op.slot /\ op'.todo = op.todo
        /\ op'.bytes = remote[op.slot] /\ Rest(op') = Rest(op) /\ Tally(op') = Tally(op)
    BY <1>9, DownloadEffect
  <2>3. op'.kind = op.kind /\ op'.mine = op.mine /\ op'.mem = op.mem
    BY <2>2 DEF Rest
  <2>4. op.kind \in SyncKinds /\ (Compares(op') <=> Compares(op))
    BY <1>3, <2>1, <2>2, <2>3 DEF Compares, ComparePcs
  <2> QED BY <1>1, <1>2, <2>1, <2>2, <2>3, <2>4, MovedTallied
<1>10. CASE SyncDecide
  <2>1. UNCHANGED << local, remote, snap >> /\ op.pc = "decide"
    BY <1>10 DEF SyncDecide, InOp
  <2>2. /\ op.slot \in op.todo /\ op.slot \in Slots /\ Compares(op) /\ op.kind \in SyncKinds
        /\ Quiet(op.slot) => ContentOf(remote[op.slot]) = {Theirs}
        /\ Quiet(op.slot) /\ op.slot \notin Off(op) => Mine = local[op.slot]
    BY <1>4, <2>1 DEF Compares
  <2>3. Mine \in Versions \cup {None}
    BY <1>2, <2>2 DEF Mine, Operation
  <2>4. MemUnqueued \in State /\ MemUnqueued.base = op.mem.base
    BY <1>2, <2>2, PullInIs DEF MemUnqueued
  <2>5. \A s \in Slots : MemConverged.base[s] = IF s = op.slot THEN Mine ELSE op.mem.base[s]
    BY <2>2, <2>3, <2>4, BaseInAt DEF MemConverged
  <2>6. ASSUME NEW st, Settled(op', op, st),
               \A s \in Slots \ {op.slot} : st.base[s] = op.mem.base[s],
               Told(op', op.slot) \/ (Mine = Theirs /\ st.base[op.slot] = Mine)
        PROVE  OpTallied(op)'
    BY <1>1, <1>2, <2>1, <2>2, <2>6, SettledTallied
  <2>7. ASSUME NEW st, NEW pc \in {"pull", "push"}, Moved(op', op, pc, st), st.base = op.mem.base
        PROVE  OpTallied(op)'
    <3>1. Still("steam", op.slot) => op.bytes = remote[op.slot]
      BY <1>2, <2>1 DEF OpTallied
    <3>2. Compares(op') <=> Compares(op)
      BY <2>2, <2>7 DEF Moved, Compares
    <3> QED BY <1>1, <1>2, <2>1, <2>2, <2>7, <3>1, <3>2, MovedTallied DEF Moved, ComparePcs
  <2>8. OpTallied(op)'
    BY <1>10, <2>4, <2>5, <2>6, <2>7, <2>2, DecideEffect
  <2> QED BY <2>8 DEF Tallied
<1>11. CASE PullWrite
  <2> DEFINE st == BaseIn(MemUnqueued, op.slot, Theirs)
  <2> SUFFICES ASSUME op' # None PROVE OpTallied(op)'
    BY DEF Tallied
  <2>1. op.slot \in Slots /\ Theirs \in Versions /\ Settled(op', op, st)
    BY <1>11, WriteEffect
  <2>2. op.pc = "pull_write" /\ local' = [local EXCEPT ![op.slot] = Theirs] /\ UNCHANGED remote
    BY <1>11 DEF PullWrite, InOp
  <2>3. MemUnqueued \in State /\ MemUnqueued.base = op.mem.base
    BY <1>2, <2>1, PullInIs DEF MemUnqueued
  <2>4. \A s \in Slots : st.base[s] = IF s = op.slot THEN Theirs ELSE op.mem.base[s]
    BY <2>1, <2>3, BaseInAt
  <2> HIDE DEF st
  <2>5. \A s \in Slots : local'[s] = IF s = op.slot THEN Theirs ELSE local[s]
    BY <2>2 DEF Typed, TypeOK
  <2> QED BY <1>1, <1>2, <1>4, <2>1, <2>2, <2>4, <2>5, SettledTallied
<1>12. CASE PushPrepare
  <2>1. UNCHANGED << local, remote, snap >> /\ op.pc = "push"
    BY <1>12 DEF PushPrepare, InOp
  <2>2. /\ op'.pc = "push_assert" /\ op'.slot = op.slot /\ op'.todo = op.todo
        /\ Rest(op') = Rest(op) /\ Tally(op') = Tally(op)
    BY <1>12, PrepareEffect
  <2>3. op'.kind = op.kind /\ op'.mine = op.mine /\ op'.mem = op.mem
    BY <2>2 DEF Rest
  <2>4. (Compares(op') <=> Compares(op)) /\ op'.pc \notin ComparePcs
    BY <2>1, <2>2, <2>3 DEF Compares, ComparePcs
  <2>5. OpTallied(op)'
    BY <1>1, <1>2, <2>1, <2>2, <2>3, <2>4, MovedTallied
  <2> QED BY <2>5 DEF Tallied
\* What is uploaded is the file of a slot still to do.
<1>13. CASE PushUpload
  <2>1. op.pc = "push_upload" /\ op.slot \in Slots /\ UNCHANGED << local, snap >>
    BY <1>2, <1>13 DEF PushUpload, InOp, SlotPcs
  <2>2. /\ op' \in Operation /\ op'.pc = "push_verify" /\ op'.slot = op.slot
        /\ op'.todo = op.todo /\ Rest(op') = Rest(op) /\ Tally(op') = Tally(op)
    BY <1>2, <1>13, GotoType DEF PushUpload, Goto, Pcs
  <2>3. /\ op'.kind = op.kind /\ op'.mine = op.mine /\ op'.mem = op.mem
        /\ op'.done = op.done /\ op'.found = op.found /\ op'.waiting = op.waiting
    BY <2>2 DEF Rest, Tally
  <2>4. \A s \in Slots \ {op.slot} : remote'[s] = remote[s]
    BY <1>13 DEF PushUpload, Typed, TypeOK
  <2>5. op.slot \notin op.done
    BY <1>2, <2>1 DEF OpTallied, Compares
  <2>0. Off(op)' = Off(op)
    BY <1>1, <2>3 DEF Off
  <2>6. \A s \in op'.done \ Off(op)' : Quiet(s)' => Told(op, s)' \/ Agrees(op, s)'
    BY <1>1, <1>2, <2>0, <2>1, <2>3, <2>4, <2>5 DEF OpTallied, Quiet, Still, Agrees, Told
  <2>7. OpTallied(op)'
    BY <1>1, <1>2, <2>0, <2>1, <2>2, <2>3, <2>6 DEF OpTallied, Compares, ComparePcs, Still
  <2> QED BY <2>7 DEF Tallied
<1>14. CASE PushVerify
  <2> DEFINE st == BaseIn(op.mem, op.slot, op.staged)
  <2>1. /\ op.slot \in Slots /\ op.staged \in Versions
        /\ \/ op.kind \in ForceKinds /\ Moved(op', op, "force_save", st)
           \/ op.kind \notin ForceKinds /\ Settled(op', op, st)
    BY <1>14, VerifyEffect
  <2>2. /\ op.pc = "push_verify" /\ UNCHANGED << local, remote, snap >>
        /\ remote[op.slot] = [v |-> op.staged, lz4 |-> FALSE] /\ local[op.slot] = op.staged
    BY <1>14 DEF PushVerify, InOp
  <2>3. \A s \in Slots : st.base[s] = IF s = op.slot THEN op.staged ELSE op.mem.base[s]
    BY <1>2, <2>1, BaseInAt
  <2> HIDE DEF st
  <2>4. CASE op.kind \in ForceKinds /\ Moved(op', op, "force_save", st)
    <3>1. op.done = {}
      BY <1>2, <2>4 DEF OpTallied, Compares, ForceKinds, SyncKinds
    <3>2. op'.pc = "force_save" /\ op'.kind = op.kind /\ op'.done = {}
      BY <2>4, <3>1 DEF Moved, Tally
    <3> QED BY <2>4, <3>2 DEF Tallied, OpTallied, Compares, ComparePcs, ForceKinds, SyncKinds
  <2>5. CASE op.kind \notin ForceKinds /\ Settled(op', op, st)
    <3>1. Compares(op) /\ op.slot \in op.todo
      BY <1>2, <2>2, <2>5 DEF OpAsked, OpTallied, Compares, PushPcs, SyncKinds, ForceKinds
    <3>2. ContentOf(remote[op.slot]) = {op.staged}
      <4> DEFINE f == [v |-> op.staged, lz4 |-> FALSE]
      <4>1. f \in Files /\ f.v = op.staged
        BY <2>1 DEF Files, Contents
      <4> HIDE DEF f
      <4>2. f # None
        BY <4>1
      <4> QED BY <2>2, <4>1, <4>2 DEF ContentOf, f
    <3>3. OpTallied(op)'
      BY <1>1, <1>2, <2>1, <2>2, <2>3, <2>5, <3>1, <3>2, SettledTallied
    <3> QED BY <3>3 DEF Tallied
  <2> QED BY <2>1, <2>4, <2>5
\* force_slot tallies nothing.
<1>15. CASE ForceBegin \/ ForceDownload \/ ForceSave
  <2>1. op.kind \in ForceKinds /\ op.done = {}
    BY <1>2, <1>15 DEF ForceBegin, ForceDownload, ForceSave, InOp, OpAsked, OpTallied, Compares,
                       ForceKinds, SyncKinds
  <2>2. op' # None =>
          /\ op'.done = {}
          /\ \/ op'.kind = op.kind /\ op'.pc \in {"force_download", "push", "force_save"}
             \/ op'.kind = "auto" /\ op'.pc = "enter"
    BY <1>15, <2>1, ForceBeginEffect, ForceDownloadEffect, ForceSaveEffect
  <2> QED BY <2>1, <2>2 DEF Tallied, OpTallied, Compares, ComparePcs, ForceKinds, SyncKinds
<1> QED BY <1>5, <1>6, <1>7, <1>8, <1>9, <1>10, <1>11, <1>12, <1>13, <1>14, <1>15 DEF LaneStep

\* When a sync ends "idle", every slot it compared is the same on the iPhone, on
\* Steam and in BASE, unless one of the two files was rewritten while it ran, if
\* the game and the user wait for the preflight. A slot whose restore replaced the
\* save and then failed is excepted from that launch's prelaunch sync.
THEOREM IdleIsSynced == Spec => IdleMeansSynced
<1> DEFINE Orderly == Waits => Calm /\ Tallied
<1>1. Init => Orderly
  <2>1. Init => (Waits => Calm)
    BY InitCalm
  <2> QED BY <2>1 DEF Init, Tallied
<1>2. Typed /\ Had /\ Orderly /\ [Next]_vars => Orderly'
  <2> SUFFICES ASSUME Typed, Had, Orderly, [Next]_vars, Waits' PROVE Calm' /\ Tallied'
    OBVIOUS
  <2>1. Waits /\ Calm /\ Tallied /\ Calm'
    BY NextCalm
  <2>2. CASE UNCHANGED vars
    BY <2>1, <2>2 DEF vars, engine, history, Tallied, OpTallied, Compares, Still, Quiet, Told, Agrees, Off
  <2>3. CASE Next
    BY <2>1, <2>3, WorldTallied, UserTallied, PreflightTallied, LaneTallied DEF Next
  <2> QED BY <2>1, <2>2, <2>3
<1>3. Typed /\ Orderly /\ [Next]_vars
        => (SyncSave /\ Verdict(op) = "idle" /\ {"game", "host"} \subseteq plan.orderly =>
              \A s \in {t \in op.done \ Falsified : {<<"phone", t>>, <<"steam", t>>} \cap touched = {}} :
                /\ ContentOf(remote[s]) = {local[s]}
                /\ disk'.base[s] = local[s])
  <2> SUFFICES ASSUME Typed, Orderly, SyncSave, Verdict(op) = "idle",
                      {"game", "host"} \subseteq plan.orderly,
                      NEW s \in op.done \ Falsified, {<<"phone", s>>, <<"steam", s>>} \cap touched = {}
               PROVE  ContentOf(remote[s]) = {local[s]} /\ disk'.base[s] = local[s]
    OBVIOUS
  <2>1. op # None /\ disk' = op.mem /\ OpTallied(op) /\ s \in Slots
    BY DEF SyncSave, InOp, Waits, Tallied, Typed, TypeOK, Operation
  <2>2. ~op.waiting /\ op.found[s] = None
    <3> DEFINE kinds == {op.found[t] : t \in Slots} \ {None}
    <3>1. kinds = {} /\ ~op.waiting
      BY DEF Verdict
    <3> QED BY <2>1, <3>1
  <2>3. Quiet(s)
    BY DEF Quiet, Still
  <2>4. s \in op.done \ Off(op)
    BY DEF Off, Falsified
  <2> QED BY <2>1, <2>2, <2>3, <2>4 DEF OpTallied, Told, Agrees
<1> HIDE DEF Orderly
<1> QED BY <1>1, <1>2, <1>3, AlwaysHad, PTL DEF Spec, IdleMeansSynced
=============================================================================
