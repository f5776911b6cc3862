------------------------ MODULE SaveDiscoveryProofs ------------------------
(***************************************************************************)
(* Proofs about SaveDiscovery: excluded slots are left alone, an older     *)
(* generation is never taken for the save, and a restore reaches the live  *)
(* save; for any slots, directories, files and lists.                      *)
(***************************************************************************)
EXTENDS SaveDiscovery, TLAPS

-----------------------------------------------------------------------------
(* The discoveries *)

\* What discovery finds are files of slots that are not excluded, on the disk,
\* and not superseded.
LEMMA CandidatesAreCurrent ==
  ASSUME NEW slots, NEW p \in Candidates(slots)
  PROVE  /\ p \in Present /\ p \in Paths /\ p.slot \in slots
         /\ p.gen = 0 => \A q \in Present : q.slot = p.slot => ~(q.gen > 0)
<1>1. p \in Present /\ p \in Paths /\ p.slot \in slots /\ (p.slot \in RepentanceSlots(slots) => p.gen > 0)
  BY DEF Candidates, Present
<1>2. ASSUME p.gen = 0, NEW q \in Present, q.slot = p.slot, q.gen > 0 PROVE FALSE
  <2>1. p.slot \in RepentanceSlots(slots)
    BY <1>1, <1>2 DEF RepentanceSlots
  <2> QED BY <1>1, <1>2, <2>1
<1> QED BY <1>1, <1>2

LEMMA DiscoveryFinds ==
  ASSUME NEW slots, NEW found \in Discovery(slots)
  PROVE  found = Candidates(slots \ Excluded)
BY DEF Discovery

LEMMA CapturedIsCurrent ==
  ASSUME Captured # None
  PROVE  Captured \subseteq Candidates(Slots \ Excluded)
BY DEF Captured

LEMMA SomeAreCurrent ==
  ASSUME NEW slots, NEW files, files \subseteq Candidates(slots)
  PROVE  Superseded(files) = {}
<1> SUFFICES ASSUME NEW p \in files, p.gen = 0, NEW q \in Present, q.slot = p.slot, q.gen > 0
             PROVE  FALSE
  BY DEF Superseded
<1> QED BY CandidatesAreCurrent

-----------------------------------------------------------------------------
(* Types *)

LEMMA IdleType == Idle \in Op
BY SaveDiscoveryAssumption DEF Idle, Op, Kinds

LEMMA CapturedType == Captured \in (SUBSET Paths) \cup {None}
BY DEF Captured, Candidates, Present

LEMMA DiscoveryType ==
  ASSUME NEW slots, NEW found \in Discovery(slots)
  PROVE  found \in SUBSET Paths
BY DEF Discovery, Candidates, Present

LEMMA ExcludedType == TypeOK => Excluded \in SUBSET Slots
BY SaveDiscoveryAssumption DEF TypeOK, Excluded

\* TypeOK, of the operation alone
OpOK == /\ op \in Op
        /\ op.pc = "idle" => op = Idle
        /\ op.pc = "working" => op.found # {}

LEMMA OpStep == TypeOK /\ [Next]_vars => OpOK'
<1> SUFFICES ASSUME TypeOK, [Next]_vars PROVE OpOK'
  OBVIOUS
<1> USE DEF OpOK
<1>1. CASE op' = op
  BY <1>1 DEF TypeOK
<1>2. CASE op' = Idle
  BY <1>2, IdleType DEF Idle
<1>3. ASSUME NEW barred \in SUBSET Slots, op' = [op EXCEPT !.barred = op.barred \cap barred]
      PROVE  OpOK'
  <2>1. op' \in Op /\ op'.pc = op.pc /\ op'.found = op.found
    BY <1>3 DEF TypeOK, Op
  <2>2. op = Idle => op' = Idle
    BY <1>3 DEF Idle
  <2> QED BY <2>1, <2>2 DEF TypeOK
<1>4. CASE WriteSupport \/ WriteDocuments
  <2>1. setter.new \in SUBSET Slots /\ support \in SUBSET Slots /\ documents \in SUBSET Slots
        /\ other \in SUBSET Slots
    BY SaveDiscoveryAssumption DEF TypeOK
  <2> QED BY <1>1, <1>3, <1>4, <2>1 DEF WriteSupport, WriteDocuments
<1>5. ASSUME NEW kind \in {"prelaunch", "manual", "foreground"}, Begin(kind) PROVE OpOK'
  BY <1>5, ExcludedType, SaveDiscoveryAssumption DEF Begin, Idle, Op, Kinds
<1>6. CASE Enumerate
  <2>1. ASSUME NEW remote \in SUBSET Slots,
               op' = [op EXCEPT !.pc = "listed", !.remote = remote \ Excluded]
        PROVE  OpOK'
    BY <2>1 DEF TypeOK, Op
  <2> QED BY <1>2, <1>6, <2>1 DEF Enumerate, End
<1>7. ASSUME NEW found \in SUBSET Paths, found # {},
             op' = [op EXCEPT !.pc = "working", !.remote = {}, !.found = found]
      PROVE  OpOK'
  BY <1>7 DEF TypeOK, Op
<1>8. CASE Prelaunch
  <2>1. snapshot # None => {p \in snapshot : p.slot \in op.remote} \in SUBSET Paths
    BY DEF TypeOK
  <2> QED BY <1>2, <1>7, <1>8, <2>1 DEF Prelaunch, End
<1>9. CASE Discover
  BY <1>2, <1>7, <1>9, DiscoveryType DEF Discover, End
<1>10. ASSUME NEW slot \in Slots, ForceSlot(slot) PROVE OpOK'
  BY <1>10, ExcludedType, SaveDiscoveryAssumption DEF ForceSlot, Idle, Op, Kinds
<1>11. CASE ForceDiscover
  <2>1. ASSUME NEW found \in SUBSET Paths, found # {},
               op' = [op EXCEPT !.pc = "working", !.found = found]
        PROVE  OpOK'
    BY <2>1 DEF TypeOK, Op
  <2> QED BY <1>2, <1>11, <2>1, DiscoveryType DEF ForceDiscover, End
<1>12. ASSUME NEW slot \in Slots, NEW gen \in Gens, Restore(slot, gen) PROVE OpOK'
  <2>1. PICK p \in Paths : op' = [Idle EXCEPT !.kind = "restore", !.pc = "working", !.slot = slot,
                                             !.found = {p}, !.barred = Excluded]
    BY <1>12 DEF Restore, Located, Present
  <2> QED BY <2>1, ExcludedType, SaveDiscoveryAssumption DEF Idle, Op, Kinds
<1>13. CASE Work
  <2>1. ASSUME NEW p \in op.found, op.found # {p}, op' = [op EXCEPT !.found = @ \ {p}]
        PROVE  OpOK'
    BY <1>13, <2>1 DEF Work, TypeOK, Op
  <2> QED BY <1>2, <1>13, <2>1 DEF Work, End
<1> QED BY <1>1, <1>2, <1>4, <1>5, <1>6, <1>8, <1>9, <1>10, <1>11, <1>12, <1>13
        DEF Next, vars, lists, SetExcluded, GameWrites, Relaunch, LetIn, Restored, End

LEMMA WorldStep == TypeOK /\ [Next]_vars =>
  /\ disk' \in [Paths -> {Whole, Torn, Gone}]
  /\ support' \subseteq Slots /\ documents' \subseteq Slots /\ other' \in Others
  /\ setter' \in [pc : {"idle", "support", "documents"}, new : SUBSET Slots]
<1> SUFFICES ASSUME TypeOK, [Next]_vars
    PROVE /\ disk' \in [Paths -> {Whole, Torn, Gone}]
          /\ support' \subseteq Slots /\ documents' \subseteq Slots /\ other' \in Others
          /\ setter' \in [pc : {"idle", "support", "documents"}, new : SUBSET Slots]
  OBVIOUS
<1>1. disk' \in [Paths -> {Whole, Torn, Gone}]
  BY DEF TypeOK, Next, vars, lists, SetExcluded, WriteSupport, WriteDocuments, GameWrites, Relaunch,
         LetIn, Begin, Enumerate, Prelaunch, Discover, ForceSlot, ForceDiscover, Restore, Restored, Work
<1>2. support' \subseteq Slots /\ documents' \subseteq Slots /\ other' \in Others
  BY DEF TypeOK, Next, vars, lists, SetExcluded, WriteSupport, WriteDocuments, GameWrites, Relaunch,
         LetIn, Begin, Enumerate, Prelaunch, Discover, ForceSlot, ForceDiscover, Restore, Restored, Work
<1>3. ASSUME NEW slot \in Slots, NEW exclude \in BOOLEAN, SetExcluded(slot, exclude)
      PROVE  setter' \in [pc : {"idle", "support", "documents"}, new : SUBSET Slots]
  <2>1. Excluded \cup {slot} \in SUBSET Slots /\ Excluded \ {slot} \in SUBSET Slots
    BY ExcludedType
  <2>2. CASE exclude
    BY <1>3, <2>1, <2>2 DEF SetExcluded
  <2>3. CASE ~exclude
    BY <1>3, <2>1, <2>3 DEF SetExcluded
  <2> QED BY <2>2, <2>3
<1>4. setter' = setter \/ setter' = AtRest \/ setter' = [setter EXCEPT !.pc = "documents"]
      \/ \E slot \in Slots, exclude \in BOOLEAN : SetExcluded(slot, exclude)
  BY DEF Next, vars, lists, WriteSupport, WriteDocuments, GameWrites, Relaunch,
         LetIn, Begin, Enumerate, Prelaunch, Discover, ForceSlot, ForceDiscover, Restore, Restored, Work
<1>5. setter' \in [pc : {"idle", "support", "documents"}, new : SUBSET Slots]
  BY <1>3, <1>4 DEF TypeOK, AtRest
<1> QED BY <1>1, <1>2, <1>5

LEMMA RestStep == TypeOK /\ [Next]_vars =>
  snapshot' \in (SUBSET Paths) \cup {None} /\ playing' \in BOOLEAN /\ changes' \in 0 .. Changes
<1> SUFFICES ASSUME TypeOK, [Next]_vars
    PROVE snapshot' \in (SUBSET Paths) \cup {None} /\ playing' \in BOOLEAN /\ changes' \in 0 .. Changes
  OBVIOUS
<1>1. snapshot' \in {snapshot, None, Captured}
      \/ snapshot' = (IF snapshot = None THEN {} ELSE {p \in snapshot : p.slot # op.slot}) \cup op.found
  BY DEF Next, vars, lists, SetExcluded, WriteSupport, WriteDocuments, GameWrites, Relaunch,
         LetIn, Begin, Enumerate, Prelaunch, Discover, ForceSlot, ForceDiscover, Restore, Restored, Work
<1>2. snapshot' \in (SUBSET Paths) \cup {None}
  <2>1. op.found \in SUBSET Paths
    BY DEF TypeOK, Op
  <2>2. (IF snapshot = None THEN {} ELSE {p \in snapshot : p.slot # op.slot}) \in SUBSET Paths
    BY DEF TypeOK
  <2> QED BY <1>1, <2>1, <2>2, CapturedType DEF TypeOK
<1>3. playing' = playing \/ playing' = TRUE \/ playing' = FALSE
  BY DEF Next, vars, lists, SetExcluded, WriteSupport, WriteDocuments, GameWrites, Relaunch,
         LetIn, Begin, Enumerate, Prelaunch, Discover, ForceSlot, ForceDiscover, Restore, Restored, Work
<1>4. playing' \in BOOLEAN
  BY <1>3 DEF TypeOK
<1>5. changes' = changes \/ (changes < Changes /\ changes' = changes + 1)
  BY DEF Next, vars, lists, SetExcluded, WriteSupport, WriteDocuments, GameWrites, Relaunch, Change,
         LetIn, Begin, Enumerate, Prelaunch, Discover, ForceSlot, ForceDiscover, Restore, Restored, Work
<1>6. changes' \in 0 .. Changes
  BY <1>5, SaveDiscoveryAssumption DEF TypeOK
<1> QED BY <1>2, <1>4, <1>6

\* Every variable stays in its type; an operation that works on files has some.
THEOREM TypeCorrect == Spec => []TypeOK
<1>1. Init => TypeOK
  <2> SUFFICES ASSUME Init PROVE TypeOK
    OBVIOUS
  <2>1. op \in Op /\ op = Idle /\ op.pc = "idle"
    BY IdleType DEF Init, Idle
  <2>2. playing \in BOOLEAN
    BY DEF Init
  <2>3. setter \in [pc : {"idle", "support", "documents"}, new : SUBSET Slots]
    BY DEF Init, AtRest
  <2>4. changes \in 0 .. Changes /\ disk \in [Paths -> {Whole, Torn, Gone}]
    BY SaveDiscoveryAssumption, DisksAssumption DEF Init
  <2> QED BY <2>1, <2>2, <2>3, <2>4, CapturedType DEF Init, TypeOK
<1>2. TypeOK /\ [Next]_vars => TypeOK'
  BY OpStep, WorldStep, RestStep DEF TypeOK, OpOK
<1> QED BY <1>1, <1>2, PTL DEF Spec

-----------------------------------------------------------------------------
(* An older generation is never taken for the save. *)

LEMMA NewestStep ==
  TypeOK /\ [Next]_vars =>
    [/\ Relaunch /\ snapshot' # None => Superseded(snapshot') = {}
     /\ Discover \/ ForceDiscover => Superseded(op'.found) = {}]_vars
<1> SUFFICES ASSUME TypeOK
             PROVE  [/\ Relaunch /\ snapshot' # None => Superseded(snapshot') = {}
                     /\ Discover \/ ForceDiscover => Superseded(op'.found) = {}]_vars
  OBVIOUS
<1>1. ASSUME Relaunch, snapshot' # None PROVE Superseded(snapshot') = {}
  <2>1. snapshot' = Captured
    BY <1>1 DEF Relaunch
  <2> QED BY <1>1, <2>1, CapturedIsCurrent, SomeAreCurrent
<1>2. Superseded({}) = {}
  BY DEF Superseded
<1>3. ASSUME NEW slots, NEW found \in Discovery(slots), op'.found = found
      PROVE  Superseded(op'.found) = {}
  BY <1>3, DiscoveryFinds, SomeAreCurrent
<1>4. ASSUME Discover PROVE Superseded(op'.found) = {}
  <2>1. CASE op' = Idle
    BY <1>2, <2>1 DEF Idle
  <2>2. ASSUME NEW found \in Discovery(IF op.kind = "manual" THEN Slots ELSE op.remote),
               op' = [op EXCEPT !.pc = "working", !.remote = {}, !.found = found]
        PROVE  Superseded(op'.found) = {}
    <3>1. op'.found = found
      BY <2>2 DEF TypeOK, Op
    <3> QED BY <1>3, <2>2, <3>1
  <2> QED BY <1>4, <2>1, <2>2 DEF Discover, End
<1>5. ASSUME ForceDiscover PROVE Superseded(op'.found) = {}
  <2>1. CASE op' = Idle
    BY <1>2, <2>1 DEF Idle
  <2>2. ASSUME NEW found \in Discovery({op.slot}), op' = [op EXCEPT !.pc = "working", !.found = found]
        PROVE  Superseded(op'.found) = {}
    <3>1. op'.found = found
      BY <2>2 DEF TypeOK, Op
    <3> QED BY <1>3, <2>2, <3>1
  <2> QED BY <1>5, <2>1, <2>2 DEF ForceDiscover, End
<1> QED BY <1>1, <1>4, <1>5

\* Neither the snapshot that Engine::new takes nor what an operation discovers has
\* a file of an abandoned generation, whatever is truncated or left out.
THEOREM NewestGenerationIsTaken == Spec => NewestGenerationOnly
BY NewestStep, TypeCorrect, PTL DEF Spec, NewestGenerationOnly

-----------------------------------------------------------------------------
(* An excluded slot is left alone. *)

\* What is barred is excluded now, and neither listed nor worked on.
BarredIsOut ==
  /\ op.barred \subseteq Excluded
  /\ op.remote \cap op.barred = {}
  /\ ExcludedIsLeftAlone

LEMMA BarredStep == TypeOK /\ BarredIsOut /\ [Next]_vars => BarredIsOut'
<1> SUFFICES ASSUME TypeOK, BarredIsOut, [Next]_vars PROVE BarredIsOut'
  OBVIOUS
<1> USE DEF BarredIsOut, ExcludedIsLeftAlone
<1>1. CASE UNCHANGED << op, support, documents, other >>
  BY <1>1 DEF Excluded
<1>2. CASE op' = Idle
  BY <1>2 DEF Idle
<1>3. CASE WriteSupport \/ WriteDocuments
  <2>1. CASE op' = op /\ UNCHANGED << support, documents, other >>
    BY <1>1, <2>1
  <2>2. CASE op' = [op EXCEPT !.barred = @ \cap Excluded']
    <3>1. op'.barred = op.barred \cap Excluded' /\ op'.remote = op.remote /\ op'.found = op.found
      BY <2>2 DEF TypeOK, Op
    <3> QED BY <3>1
  <2> QED BY <1>3, <2>1, <2>2 DEF WriteSupport, WriteDocuments, Excluded
<1>4. ASSUME UNCHANGED << support, documents, other >>, op'.barred = Excluded,
             op'.remote = {}, \A p \in op'.found : p.slot \notin Excluded
      PROVE  BarredIsOut'
  BY <1>4 DEF Excluded
<1>5. ASSUME UNCHANGED << support, documents, other >>, op'.barred = op.barred,
             op'.remote \cap Excluded = {}, \A p \in op'.found : p.slot \notin op.barred
      PROVE  BarredIsOut'
  BY <1>5 DEF Excluded
<1>6. ASSUME NEW kind \in {"prelaunch", "manual", "foreground"}, Begin(kind) PROVE BarredIsOut'
  BY <1>4, <1>6 DEF Begin, Idle, lists
<1>7. CASE Enumerate
  <2>1. ASSUME NEW remote \in SUBSET Slots,
               op' = [op EXCEPT !.pc = "listed", !.remote = remote \ Excluded]
        PROVE  BarredIsOut'
    <3>1. op'.remote = remote \ Excluded /\ op'.barred = op.barred /\ op'.found = op.found
      BY <2>1 DEF TypeOK, Op
    <3> QED BY <1>5, <1>7, <3>1 DEF Enumerate, lists
  <2> QED BY <1>2, <1>7, <2>1 DEF Enumerate, End
<1>8. ASSUME NEW found, op' = [op EXCEPT !.pc = "working", !.remote = {}, !.found = found],
             UNCHANGED lists, \A p \in found : p.slot \notin op.barred
      PROVE  BarredIsOut'
  <2>1. op'.remote = {} /\ op'.barred = op.barred /\ op'.found = found
    BY <1>8 DEF TypeOK, Op
  <2> QED BY <1>5, <1>8, <2>1 DEF lists
<1>9. CASE Prelaunch
  <2>1. \A p \in {q \in snapshot : q.slot \in op.remote} : p.slot \notin op.barred
    OBVIOUS
  <2> QED BY <1>2, <1>8, <1>9, <2>1 DEF Prelaunch, End
<1>10. ASSUME NEW slots, NEW found \in Discovery(slots) PROVE \A p \in found : p.slot \notin Excluded
  <2>1. found = Candidates(slots \ Excluded)
    BY DiscoveryFinds
  <2>2. \A p \in Candidates(slots \ Excluded) : p.slot \in slots \ Excluded
    BY CandidatesAreCurrent
  <2> QED BY <2>1, <2>2
<1>11. CASE Discover
  <2>1. ASSUME NEW found \in Discovery(IF op.kind = "manual" THEN Slots ELSE op.remote),
               op' = [op EXCEPT !.pc = "working", !.remote = {}, !.found = found]
        PROVE  BarredIsOut'
    <3>1. \A p \in found : p.slot \notin op.barred
      BY <1>10, <2>1
    <3> QED BY <1>8, <1>11, <2>1, <3>1 DEF Discover
  <2> QED BY <1>2, <1>11, <2>1 DEF Discover, End
<1>12. ASSUME NEW slot \in Slots, ForceSlot(slot) PROVE BarredIsOut'
  BY <1>4, <1>12 DEF ForceSlot, Idle, lists
<1>13. CASE ForceDiscover
  <2>1. ASSUME NEW found \in Discovery({op.slot}), op' = [op EXCEPT !.pc = "working", !.found = found]
        PROVE  BarredIsOut'
    <3>1. op'.remote = op.remote /\ op'.barred = op.barred /\ op'.found = found
      BY <2>1 DEF TypeOK, Op
    <3>2. UNCHANGED lists
      BY <1>13 DEF ForceDiscover
    <3> QED BY <1>10, <2>1, <3>1, <3>2 DEF lists, Excluded
  <2> QED BY <1>2, <1>13, <2>1 DEF ForceDiscover, End
<1>14. ASSUME NEW slot \in Slots, NEW gen \in Gens, Restore(slot, gen) PROVE BarredIsOut'
  <2>1. PICK p \in Located(slot, gen) :
          op' = [Idle EXCEPT !.kind = "restore", !.pc = "working", !.slot = slot,
                             !.found = {p}, !.barred = Excluded]
    BY <1>14 DEF Restore
  <2>2. p.slot \notin Excluded
    BY DEF Located
  <2>3. op'.found = {p} /\ op'.barred = Excluded /\ op'.remote = {}
    BY <2>1 DEF Idle
  <2> QED BY <1>4, <1>14, <2>2, <2>3 DEF Restore, lists
<1>15. CASE Work
  <2>1. ASSUME NEW p \in op.found, op' = [op EXCEPT !.found = @ \ {p}]
        PROVE  BarredIsOut'
    <3>1. op'.remote = op.remote /\ op'.barred = op.barred /\ op'.found = op.found \ {p}
      BY <2>1 DEF TypeOK, Op
    <3> QED BY <1>15, <3>1 DEF Work, lists, Excluded
  <2> QED BY <1>2, <1>15, <2>1 DEF Work, End
<1> QED BY <1>1, <1>2, <1>3, <1>6, <1>7, <1>9, <1>11, <1>12, <1>13, <1>14, <1>15
        DEF Next, vars, lists, SetExcluded, GameWrites, Relaunch, LetIn, Restored, End

\* No operation touches the file of a slot that was excluded before it began and
\* has stayed so, however the lists are rewritten meanwhile (set_slot_excluded).
THEOREM ExcludedStaysLocal == Spec => []ExcludedIsLeftAlone
<1>1. Init => BarredIsOut
  BY DEF Init, Idle, BarredIsOut, ExcludedIsLeftAlone
<1>2. BarredIsOut => ExcludedIsLeftAlone
  BY DEF BarredIsOut
<1> QED BY <1>1, <1>2, BarredStep, TypeCorrect, PTL DEF Spec

-----------------------------------------------------------------------------
(* A restore reaches the live save. *)

\* The slot's only live save has a better rank than every other file of the slot.
LEMMA LiveRanksFirst ==
  ASSUME NEW s \in Slots, NEW gen \in Gens, NEW live, Candidates({s}) = {live}, live.gen = gen,
         NEW q \in Present, q.slot = s, q # live
  PROVE  Rank(live, gen) < Rank(q, gen)
<1>1. q \in Paths /\ q.gen \in Gens
  BY DEF Present, Paths
<1>2. s \in RepentanceSlots({s}) /\ q.gen = 0
  <2>1. q \notin Candidates({s})
    OBVIOUS
  <2> QED BY <1>1, <2>1 DEF Candidates, Present, Gens
<1>3. live.gen > 0
  BY <1>2 DEF Candidates
<1> QED BY <1>2, <1>3 DEF Rank, Gens

LEMMA RestoreStep ==
  [Next]_vars =>
    [\A s \in Slots, gen \in Gens :
       Restore(s, gen) =>
         \A live \in Candidates({s}) :
           Candidates({s}) = {live} /\ live.gen = gen => op'.found = {live}]_vars
<1> SUFFICES ASSUME NEW s \in Slots, NEW gen \in Gens, Restore(s, gen), NEW live \in Candidates({s}),
                    Candidates({s}) = {live}, live.gen = gen
             PROVE  op'.found = {live}
  OBVIOUS
<1>1. PICK p \in Located(s, gen) :
        op' = [Idle EXCEPT !.kind = "restore", !.pc = "working", !.slot = s,
                           !.found = {p}, !.barred = Excluded]
  BY DEF Restore
<1>2. op'.found = {p}
  BY <1>1 DEF Idle
<1>3. live \in Present /\ live.slot = s
  BY DEF Candidates, Present
<1>4. p \in Present /\ p.slot = s /\ Rank(p, gen) <= Rank(live, gen)
  BY <1>3 DEF Located
<1>5. p = live
  <2> SUFFICES ASSUME p # live PROVE FALSE
    OBVIOUS
  <2>1. Rank(live, gen) < Rank(p, gen)
    BY <1>4, LiveRanksFirst
  <2>2. Rank(live, gen) \in Nat /\ Rank(p, gen) \in Nat
    BY DEF Rank
  <2> QED BY <1>4, <2>1, <2>2
<1> QED BY <1>2, <1>5

\* A queued restore of a backup of the slot's only live save is applied to that
\* save (locate_save_path_for_restore), in whatever directory other files are.
THEOREM RestoresReachLiveSaves == Spec => RestoreReachesLiveSave
BY RestoreStep, PTL DEF Spec, RestoreReachesLiveSave
=============================================================================
