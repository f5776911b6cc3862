------------------------- MODULE AchievementsProofs -------------------------
(***************************************************************************)
(* Proofs about Achievements: what is unlocked on Steam stays unlocked, a  *)
(* synchronization that reports success has unlocked what it was to, no    *)
(* achievement is invented, and what a Repentance+ save has is kept.       *)
(***************************************************************************)
EXTENDS Achievements, TLAPS

-----------------------------------------------------------------------------
(* The formats *)

LEMMA NoSaveType == NoSave \in Save /\ NoExtra \in Extra
BY AchievementsAssumption DEF NoSave, NoExtra, Save, Extra, Count

LEMMA ExtractType ==
  ASSUME NEW save \in Save
  PROVE  Extract(save) \in Extra
BY NoSaveType DEF Extract, Save

LEMMA MergeType ==
  ASSUME NEW x \in Extra, NEW y \in Extra
  PROVE  Merge(x, y) \in Extra
BY AchievementsAssumption DEF Merge, Greater, Extra, Count

LEMMA ToRepType ==
  ASSUME NEW save \in Save
  PROVE  ToRep(save) \in SUBSET Base
BY DEF ToRep, Save

LEMMA ToRepPlusType ==
  ASSUME NEW base \in SUBSET Base, NEW extra \in Extra, NEW unlocked
  PROVE  ToRepPlus(base, extra, unlocked) \in Save
<1> DEFINE more == [extra EXCEPT !.ach = @ \cup (unlocked \cap Plus) \cup Given(base)]
<1>1. more \in Extra
  BY AchievementsAssumption DEF Extra, Given
<1>2. [plus |-> TRUE, named |-> TRUE, lz4 |-> FALSE, base |-> base, extra |-> more] \in Save
  <2> HIDE DEF more
  <2> QED BY <1>1 DEF Save
<1> QED BY <1>2 DEF ToRepPlus

\* A save that a pull strips after an upload has added to it is what it was: what
\* an upload adds belongs to Repentance+ alone.
THEOREM StripUndoesExtend ==
  ASSUME NEW base \in SUBSET Base, NEW extra \in Extra, NEW unlocked
  PROVE  /\ ToRep(ToRepPlus(base, extra, unlocked)) = base
         /\ Within(extra, Extract(ToRepPlus(base, extra, unlocked)))
<1> DEFINE more == [extra EXCEPT !.ach = @ \cup (unlocked \cap Plus) \cup Given(base)]
<1> DEFINE up == [plus |-> TRUE, named |-> TRUE, lz4 |-> FALSE, base |-> base, extra |-> more]
<1>1. up.base = base /\ up.plus /\ up.extra = more
  OBVIOUS
<1>2. extra.ach \subseteq more.ach /\ more.count = extra.count /\ extra.count \in Nat
  BY AchievementsAssumption DEF Extra, Count
<1>3. up = ToRepPlus(base, extra, unlocked)
  BY DEF ToRepPlus
<1> HIDE DEF up, more
<1> QED BY <1>1, <1>2, <1>3 DEF ToRep, Extract, Within

\* A merge has what both had.
LEMMA MergeKeeps ==
  ASSUME NEW x \in Extra, NEW y \in Extra
  PROVE  Within(x, Merge(x, y)) /\ Within(y, Merge(x, y))
BY AchievementsAssumption DEF Within, Merge, Greater, Extra, Count

LEMMA WithinTransitive ==
  ASSUME NEW x \in Extra, NEW y \in Extra, NEW z \in Extra, Within(x, y), Within(y, z)
  PROVE  Within(x, z)
BY AchievementsAssumption DEF Within, Extra, Count

-----------------------------------------------------------------------------
(* Types *)

LEMMA IdleType == Idle \in Op
BY AchievementsAssumption, NoSaveType DEF Idle, Op, Pcs

LEMMA LocalUnlocksType ==
  ASSUME TypeOK, NEW found \in SUBSET Slots, NEW readable \in SUBSET Slots
  PROVE  LocalUnlocks(found, readable) \in SUBSET Names
<1>1. UNION {phone[s] : s \in found} \subseteq Names
  BY DEF TypeOK, Names
<1>2. UNION {sidecar[s].ach : s \in readable} \subseteq Names
  BY DEF TypeOK, Extra, Names
<1>3. \A names : Given(names) \subseteq Names
  BY AchievementsAssumption DEF Given, Names
<1> QED BY <1>1, <1>2, <1>3 DEF LocalUnlocks

\* What another computer makes of a save.
LEMMA PlayedOnKeeps ==
  ASSUME NEW save \in Save, NEW a \in Names
  PROVE  /\ PlayedOn(save, a) \in Save
         /\ PlayedOn(save, a).plus
         /\ PlayedOn(save, a).base \subseteq save.base \cup {a}
         /\ PlayedOn(save, a).extra.ach \subseteq save.extra.ach \cup {a}
         /\ Within(save.extra, PlayedOn(save, a).extra)
<1> DEFINE more == IF a \in Base THEN [save EXCEPT !.base = @ \cup {a}]
                   ELSE [save EXCEPT !.extra.ach = @ \cup {a}]
           n    == IF save.extra.count < MaxCount THEN save.extra.count + 1 ELSE MaxCount
           new  == [more EXCEPT !.plus = TRUE, !.lz4 = FALSE, !.extra.count = n]
<1>1. save.extra \in Extra /\ save.extra.count \in Count
  BY DEF Save, Extra
<1>2. n \in Count /\ save.extra.count <= n /\ save.extra.count \in Nat /\ n \in Nat
  BY <1>1, AchievementsAssumption DEF Count
<1>3. /\ more \in Save
      /\ more.base \subseteq save.base \cup {a}
      /\ save.extra.ach \subseteq more.extra.ach
      /\ more.extra.ach \subseteq save.extra.ach \cup {a}
  <2>1. CASE a \in Base
    BY <2>1 DEF Save
  <2>2. CASE a \notin Base
    <3> DEFINE extra == [save.extra EXCEPT !.ach = @ \cup {a}]
    <3>1. extra \in Extra /\ extra.ach = save.extra.ach \cup {a}
      BY <1>1, <2>2 DEF Extra, Names
    <3>2. more = [save EXCEPT !.extra = extra]
      BY <2>2
    <3> HIDE DEF more, extra
    <3> QED BY <3>1, <3>2 DEF Save
  <2> QED BY <2>1, <2>2
<1> DEFINE extra == [more.extra EXCEPT !.count = n]
<1>4. new = [more EXCEPT !.plus = TRUE, !.lz4 = FALSE, !.extra = extra]
  OBVIOUS
<1> HIDE DEF more, n
<1>5. extra \in Extra /\ extra.ach = more.extra.ach /\ extra.count = n
  BY <1>2, <1>3 DEF Save, Extra
<1> HIDE DEF extra, new
<1>6. new \in Save /\ new.base = more.base /\ new.extra = extra
  BY <1>3, <1>4, <1>5 DEF Save
<1>7. new.plus
  BY <1>3, <1>4 DEF Save
<1>8. Within(save.extra, new.extra)
  BY <1>2, <1>3, <1>5, <1>6 DEF Within
<1>9. new = PlayedOn(save, a)
  BY DEF PlayedOn, new, more, n
<1> QED BY <1>3, <1>5, <1>6, <1>7, <1>8, <1>9

\* The save another computer begins with
Begun(s) == IF cloud[s] = None THEN [NoSave EXCEPT !.named = TRUE] ELSE cloud[s]

LEMMA PeerSave ==
  ASSUME TypeOK, NEW s \in Slots, NEW a \in Names, PeerPlays(s, a)
  PROVE  Begun(s) \in Save /\ cloud' = [cloud EXCEPT ![s] = PlayedOn(Begun(s), a)]
<1>1. [NoSave EXCEPT !.named = TRUE] \in Save
  BY NoSaveType DEF NoSave, Save
<1> QED BY <1>1 DEF TypeOK, PeerPlays, Begun

\* An operation on a save knows its slot.
\* A pull has a file.
AtSave == {"compare", "forced", "assert", "commit"}
SlotKnown == /\ op.pc \in AtSave => op.slot \in Slots
             /\ op.pc = "compare" => op.file # None

\* A save Steam Cloud has at the beginning
Found(plus, named, lz4, count) ==
  [plus |-> plus, named |-> named, lz4 |-> lz4, base |-> {},
   extra |-> [ach |-> {}, count |-> IF plus THEN count ELSE 0]]

LEMMA FoundType ==
  ASSUME NEW plus \in BOOLEAN, NEW named \in BOOLEAN, NEW lz4 \in BOOLEAN, NEW count \in Count
  PROVE  /\ Found(plus, named, lz4, count) \in Save
         /\ Found(plus, named, lz4, count).base = {}
         /\ Found(plus, named, lz4, count).extra.ach = {}
<1> DEFINE n     == IF plus THEN count ELSE 0
           extra == [ach |-> {}, count |-> n]
           found == [plus |-> plus, named |-> named, lz4 |-> lz4, base |-> {}, extra |-> extra]
<1>1. n \in Count
  BY AchievementsAssumption DEF Count
<1>2. Found(plus, named, lz4, count) = found
  BY DEF Found
<1> HIDE DEF n
<1>3. extra \in Extra /\ extra.ach = {}
  BY <1>1 DEF Extra
<1> HIDE DEF extra
<1>4. found \in Save /\ found.base = {} /\ found.extra = extra
  BY <1>3 DEF Save
<1> HIDE DEF found
<1> QED BY <1>2, <1>3, <1>4

LEMMA InitTyped == Init => TypeOK /\ SlotKnown
<1>1. Init => TypeOK
  <2> SUFFICES ASSUME Init PROVE TypeOK
    OBVIOUS
  <2>1. cloud \in [Slots -> Save \cup {None}]
    <3>1. PICK plus, named, lz4 \in BOOLEAN, count \in Count :
            cloud \in [Slots -> {None, Found(plus, named, lz4, count)}]
      BY DEF Init, Found
    <3> QED BY <3>1, FoundType
  <2>2. steam \subseteq Schema /\ older \subseteq Schema /\ earned \subseteq Names
    BY AchievementsAssumption DEF Init, Names
  <2>3. phone \in [Slots -> SUBSET Base] /\ sidecar \in [Slots -> Extra]
    BY NoSaveType DEF Init
  <2>4. events \in 0 .. Events /\ cache \subseteq Schema /\ op \in Op
    BY IdleType, AchievementsAssumption DEF Init
  <2>5. raced \in BOOLEAN
    BY DEF Init
  <2> QED BY <2>1, <2>2, <2>3, <2>4, <2>5 DEF TypeOK
<1>2. Init => SlotKnown
  BY DEF Init, Idle, SlotKnown, AtSave
<1> QED BY <1>1, <1>2

LEMMA RememberType ==
  ASSUME TypeOK, NEW s \in Slots, NEW stored \in Stored(s), NEW extra \in Extra,
         Remember(s, stored, extra)
  PROVE  sidecar' \in [Slots -> Extra]
BY MergeType, NoSaveType DEF Remember, Stored, TypeOK

\* What run_sync and force_slot do with a download.
LEMMA Look ==
  ASSUME TypeOK, NEW s \in Slots, Compare(s) \/ ForceSlot(s)
  PROVE  \E pc \in {"compare", "forced"}, forgot \in BOOLEAN :
           /\ op' = [op EXCEPT !.pc = pc, !.slot = s, !.file = cloud[s], !.forgot = forgot]
           /\ pc = "compare" => cloud[s] # None
           /\ \/ UNCHANGED sidecar /\ (cloud[s] # None => forgot)
              \/ cloud[s] # None /\ \E stored \in Stored(s) :
                   /\ Remember(s, stored, Extract(cloud[s]))
                   /\ forgot = Forgot(s, stored, Extract(cloud[s]))
<1>1. CASE Compare(s)
  BY <1>1 DEF Compare, Forgot
<1>2. CASE ForceSlot(s)
  BY <1>2 DEF ForceSlot, Overlooked, Forgot
<1> QED BY <1>1, <1>2

LEMMA LookTyped ==
  ASSUME TypeOK, NEW s \in Slots, Compare(s) \/ ForceSlot(s)
  PROVE  op' \in Op /\ sidecar' \in [Slots -> Extra]
<1>1. PICK pc \in {"compare", "forced"}, forgot \in BOOLEAN :
        /\ op' = [op EXCEPT !.pc = pc, !.slot = s, !.file = cloud[s], !.forgot = forgot]
        /\ \/ UNCHANGED sidecar
           \/ cloud[s] # None /\ \E stored \in Stored(s) : Remember(s, stored, Extract(cloud[s]))
  BY Look
<1>2. op' \in Op
  BY <1>1 DEF TypeOK, Op, Pcs
<1>3. CASE UNCHANGED sidecar
  BY <1>2, <1>3 DEF TypeOK
<1>4. ASSUME cloud[s] # None, NEW stored \in Stored(s), Remember(s, stored, Extract(cloud[s]))
      PROVE  sidecar' \in [Slots -> Extra]
  BY <1>4, RememberType, ExtractType DEF TypeOK
<1> QED BY <1>1, <1>2, <1>3, <1>4

\* What prepare_upload makes of a save that knows its slot.
LEMMA PrepareUp ==
  ASSUME TypeOK, SlotKnown, Prepare
  PROVE  \E up \in Save, stored \in Stored(op.slot), forgot \in BOOLEAN :
           /\ op' = [op EXCEPT !.pc = "assert", !.up = up, !.forgot = forgot]
           /\ Remember(op.slot, stored, Extract(up))
           /\ op.forgot => forgot
           /\ forgot \/ UNCHANGED sidecar
              \/ sidecar' = [sidecar EXCEPT ![op.slot] = Merge(@, Extract(up))]
           /\ \/ up = ToRepPlus(phone[op.slot], stored, cache)
              \/ up = [NoSave EXCEPT !.base = phone[op.slot]]
<1>1. op.slot \in Slots /\ phone[op.slot] \in SUBSET Base /\ Stored(op.slot) \subseteq Extra
      /\ op.forgot \in BOOLEAN
  BY NoSaveType DEF Prepare, SlotKnown, AtSave, TypeOK, Stored, Op
<1> DEFINE plain == [NoSave EXCEPT !.base = phone[op.slot]]
<1>2. plain \in Save
  BY <1>1, NoSaveType DEF NoSave, Save
<1>3. \A stored \in Stored(op.slot) : ToRepPlus(phone[op.slot], stored, cache) \in Save
  BY <1>1, ToRepPlusType
<1>4. PICK named \in BOOLEAN, stored \in Stored(op.slot) :
        LET up == IF named THEN ToRepPlus(phone[op.slot], stored, cache) ELSE plain
        IN /\ IF named THEN Remember(op.slot, stored, Extract(up)) ELSE UNCHANGED sidecar
           /\ op' = [op EXCEPT !.pc = "assert", !.up = up,
                               !.forgot = @ \/ (named /\ Forgot(op.slot, stored, Extract(up)))]
  BY DEF Prepare, TypeOK, Op, Save
<1> HIDE DEF plain
<1>5. CASE named
  <2> DEFINE up == ToRepPlus(phone[op.slot], stored, cache)
             forgot == op.forgot \/ Forgot(op.slot, stored, Extract(up))
  <2>1. op' = [op EXCEPT !.pc = "assert", !.up = up, !.forgot = forgot] /\ Remember(op.slot, stored, Extract(up))
    BY <1>4, <1>5
  <2>2. forgot \/ sidecar' = [sidecar EXCEPT ![op.slot] = Merge(@, Extract(up))]
    BY DEF Forgot
  <2>3. up \in Save /\ forgot \in BOOLEAN /\ (op.forgot => forgot)
    BY <1>1, <1>3 DEF Forgot
  <2> HIDE DEF forgot
  <2> QED BY <2>1, <2>2, <2>3
<1>6. CASE ~named
  <2>1. op' = [op EXCEPT !.pc = "assert", !.up = plain, !.forgot = op.forgot] /\ UNCHANGED sidecar
    BY <1>1, <1>4, <1>6
  <2>2. Remember(op.slot, stored, Extract(plain))
    BY <2>1 DEF Remember
  <2> QED BY <1>1, <1>2, <2>1, <2>2 DEF plain
<1> QED BY <1>5, <1>6

LEMMA StepTyped == TypeOK /\ SlotKnown /\ [Next]_vars => TypeOK'
<1> SUFFICES ASSUME TypeOK, SlotKnown, [Next]_vars PROVE TypeOK'
  OBVIOUS
<1> USE AchievementsAssumption
<1>1. ASSUME NEW s \in Slots, NEW a \in Base, Play(s, a) PROVE TypeOK'
  BY <1>1 DEF Play, Event, TypeOK, Names
<1>2. ASSUME NEW a \in Schema, PeerUnlocks(a) PROVE TypeOK'
  BY <1>2 DEF PeerUnlocks, Event, TypeOK, Names, world
<1>3. ASSUME NEW s \in Slots, NEW a \in Names, PeerPlays(s, a) PROVE TypeOK'
  <2>1. cloud' \in [Slots -> Save \cup {None}]
    BY <1>3, PeerSave, PlayedOnKeeps DEF TypeOK
  <2>2. events' \in 0 .. Events /\ earned' \subseteq Names /\ raced' \in BOOLEAN
    BY <1>3 DEF PeerPlays, Event, TypeOK
  <2>3. UNCHANGED << steam, older, phone, sidecar, cache, op >>
    BY <1>3 DEF PeerPlays
  <2> QED BY <2>1, <2>2, <2>3 DEF TypeOK
<1>4. CASE Relaunch
  <2>1. events' \in 0 .. Events /\ cache' \subseteq Schema /\ op' \in Op
    BY <1>4, IdleType DEF Relaunch, Event, TypeOK
  <2>3. raced' \in BOOLEAN
    BY <1>4 DEF Relaunch
  <2>2. UNCHANGED << steam, older, cloud, phone, sidecar, earned >>
    BY <1>4 DEF Relaunch, world
  <2> QED BY <2>1, <2>2, <2>3 DEF TypeOK
<1>5. CASE Collect
  <2>1. PICK found, readable \in SUBSET Slots :
          LET names == LocalUnlocks(found, readable)
          IN op' = [op EXCEPT !.local = names, !.pc = IF names = {} THEN "ok" ELSE "read"]
    BY <1>5 DEF Collect
  <2>2. op' \in Op
    BY <2>1, LocalUnlocksType DEF TypeOK, Op, Pcs
  <2> QED BY <1>5, <2>2 DEF Collect, TypeOK, world
<1>6. CASE Read
  <2>1. PICK current \in {steam, older} :
          LET missing == (op.local \cap Schema) \ current
          IN /\ cache' = current
             /\ op' = [op EXCEPT !.before = current, !.names = missing,
                                 !.pc = IF missing = {} THEN "ok" ELSE "refresh"]
    BY <1>6 DEF Read
  <2> DEFINE missing == (op.local \cap Schema) \ current
             pc == IF missing = {} THEN "ok" ELSE "refresh"
  <2>2. missing \in SUBSET Schema /\ pc \in Pcs /\ current \in SUBSET Schema
    BY DEF TypeOK, Pcs
  <2>3. op' = [op EXCEPT !.before = current, !.names = missing, !.pc = pc] /\ cache' = current
    BY <2>1
  <2> HIDE DEF missing, pc
  <2>4. op' \in Op /\ cache' \subseteq Schema
    BY <2>2, <2>3 DEF TypeOK, Op
  <2> QED BY <1>6, <2>4 DEF Read, TypeOK, world
<1>7. CASE Refresh
  <2>1. PICK current \in {steam, older} :
          op' = IF op.names \subseteq current \cup cache
                THEN [op EXCEPT !.seen = current, !.pc = "verify", !.tries = Attempts - 1]
                ELSE [op EXCEPT !.seen = current, !.pc = "store"]
    BY <1>7 DEF Refresh
  <2>2. op' \in Op
    <3>1. CASE op.names \subseteq current \cup cache
      <4>1. op' = [op EXCEPT !.seen = current, !.pc = "verify", !.tries = Attempts - 1]
        BY <2>1, <3>1
      <4>2. Attempts - 1 \in 0 .. Attempts /\ current \in SUBSET Schema /\ "verify" \in Pcs
        BY DEF TypeOK, Pcs
      <4> QED BY <4>1, <4>2 DEF TypeOK, Op
    <3>2. CASE ~(op.names \subseteq current \cup cache)
      BY <2>1, <3>2 DEF TypeOK, Op, Pcs
    <3> QED BY <3>1, <3>2
  <2> QED BY <1>7, <2>2 DEF Refresh, TypeOK, world
<1>8. CASE Store
  <2>1. Build.names \subseteq Schema
    BY DEF Build, TypeOK, Op
  <2>2. steam' \subseteq Schema /\ older' \subseteq Schema
    BY <1>8, <2>1 DEF Store, TypeOK
  <2>3. op' \in Op
    BY <1>8, IdleType DEF Store, TypeOK, Op, Pcs
  <2> QED BY <1>8, <2>2, <2>3 DEF Store, TypeOK, world
<1>9. CASE Verify
  <2>1. PICK verified \in {steam, older} :
          IF ~(op.names \subseteq verified) /\ op.tries + 1 < Attempts
          THEN op' = [op EXCEPT !.tries = @ + 1] /\ UNCHANGED cache
          ELSE IF op.before \subseteq verified
          THEN /\ cache' = verified
               /\ op' = IF op.names \subseteq verified THEN [op EXCEPT !.pc = "ok"] ELSE Idle
          ELSE op' = Idle /\ UNCHANGED cache
    BY <1>9 DEF Verify
  <2>2. op' \in Op /\ cache' \subseteq Schema
    BY <2>1, IdleType DEF TypeOK, Op, Pcs
  <2> QED BY <1>9, <2>2 DEF Verify, TypeOK, world
<1>10. CASE Fails
  BY <1>10, IdleType DEF Fails, TypeOK, world
<1>11. CASE Returned
  BY <1>11, IdleType DEF Returned, TypeOK, world
<1>13. ASSUME NEW s \in Slots, Compare(s) \/ ForceSlot(s) PROVE TypeOK'
  <2>1. sidecar' \in [Slots -> Extra] /\ op' \in Op
    BY <1>13, LookTyped
  <2> QED BY <1>13, <2>1 DEF Compare, ForceSlot, TypeOK
<1>14. CASE Pull
  <2>1. op.file \in Save /\ op.slot \in Slots
    BY <1>14 DEF Pull, TypeOK, Op, SlotKnown, AtSave
  <2>2. phone' \in [Slots -> SUBSET Base]
    BY <1>14, <2>1, ToRepType DEF Pull, TypeOK
  <2> QED BY <1>14, <2>2, IdleType DEF Pull, TypeOK
<1>15. CASE Prepare
  <2>1. PICK up \in Save, stored \in Stored(op.slot), forgot \in BOOLEAN :
          /\ op' = [op EXCEPT !.pc = "assert", !.up = up, !.forgot = forgot]
          /\ Remember(op.slot, stored, Extract(up))
    BY <1>15, PrepareUp
  <2>2. op.slot \in Slots
    BY <1>15 DEF Prepare, SlotKnown, AtSave
  <2>3. op' \in Op
    BY <2>1 DEF TypeOK, Op, Pcs
  <2>4. sidecar' \in [Slots -> Extra]
    BY <2>1, <2>2, RememberType, ExtractType
  <2> QED BY <1>15, <2>3, <2>4 DEF Prepare, TypeOK
<1>16. CASE Assert
  <2>1. op' \in Op
    BY <1>16 DEF Assert, TypeOK, Op, Pcs
  <2> QED BY <1>16, <2>1 DEF Assert, TypeOK, world
<1>17. CASE Commit
  <2>1. cloud' \in [Slots -> Save \cup {None}]
    BY <1>17 DEF Commit, TypeOK, Op
  <2> QED BY <1>17, <2>1, IdleType DEF Commit, TypeOK
<1>18. CASE UNCHANGED vars
  BY <1>18 DEF vars, world, TypeOK
<1> QED BY <1>1, <1>2, <1>3, <1>4, <1>5, <1>6, <1>7, <1>8, <1>9, <1>10, <1>11, <1>13,
           <1>14, <1>15, <1>16, <1>17, <1>18 DEF Next

\* What a step does to the operation.
LEMMA OpSteps ==
  [Next]_vars => \/ (\E s \in Slots : Compare(s) \/ ForceSlot(s)) \/ Collect \/ Read \/ Refresh \/ Store
                 \/ Verify \/ Prepare \/ Assert \/ UNCHANGED op \/ op' = Idle
BY DEF Next, vars, world, Play, PeerUnlocks, PeerPlays, Relaunch, Fails, Returned, Pull, Commit

LEMMA StepKnowsSlot == TypeOK /\ SlotKnown /\ [Next]_vars => SlotKnown'
<1> SUFFICES ASSUME TypeOK, SlotKnown, [Next]_vars PROVE SlotKnown'
  OBVIOUS
<1> USE DEF SlotKnown, AtSave
<1>1. CASE UNCHANGED op
  BY <1>1
<1>2. CASE op' = Idle
  BY <1>2 DEF Idle
<1>3. ASSUME NEW s \in Slots, Compare(s) \/ ForceSlot(s) PROVE SlotKnown'
  <2>1. PICK pc \in {"compare", "forced"}, forgot \in BOOLEAN :
          /\ op' = [op EXCEPT !.pc = pc, !.slot = s, !.file = cloud[s], !.forgot = forgot]
          /\ pc = "compare" => cloud[s] # None
    BY <1>3, Look
  <2> QED BY <2>1 DEF TypeOK, Op
<1>4. CASE Collect \/ Read \/ Refresh \/ Store \/ Verify
  BY <1>2, <1>4 DEF Collect, Read, Refresh, Store, Verify, TypeOK, Op
<1>5. CASE Prepare \/ Assert
  BY <1>5 DEF Prepare, Assert, TypeOK, Op
<1> QED BY <1>1, <1>2, <1>3, <1>4, <1>5, OpSteps

\* Every variable stays in its type, and an operation on a save (run_sync,
\* force_slot) always knows which slot it is about.
THEOREM TypeCorrect == Spec => [](TypeOK /\ SlotKnown)
BY InitTyped, StepTyped, StepKnowsSlot, PTL DEF Spec

-----------------------------------------------------------------------------
(* Steam never loses, and success means unlocked. Steam has to refuse a store *)
(* that is built on other stats than its own; else an unlock by another       *)
(* computer between the answer and the store is undone.                       *)

LEMMA StoreAdds ==
  CrcChecked /\ Store =>
    (steam \subseteq steam' /\ older' \subseteq steam') \/ UNCHANGED << steam, older >>
<1> SUFFICES ASSUME CrcChecked, Store, ~UNCHANGED << steam, older >>
             PROVE  steam \subseteq steam' /\ older' \subseteq steam'
  OBVIOUS
<1>1. op.seen = steam
  BY DEF Store
<1>2. steam \subseteq Build.names
  BY <1>1 DEF Build
<1>3. steam' = {a \in steam : Group(a) \notin Build.groups}
               \cup {a \in Build.names : Group(a) \in Build.groups}
  BY DEF Store
<1>4. older' = steam
  BY DEF Store
<1> QED BY <1>2, <1>3, <1>4

LEMMA SteamMoves == [Next]_vars => Store \/ UNCHANGED << steam, older >>
                                   \/ (steam \subseteq steam' /\ older' = steam)
BY DEF Next, vars, world, Play, PeerUnlocks, PeerPlays, Relaunch, Collect, Read, Refresh, Verify,
       Fails, Returned, Compare, ForceSlot, Pull, Prepare, Assert, Commit

\* No step, and above all no store of whole stats (store_missing_unlocks), takes
\* an achievement from Steam, if Steam checks the CRC that comes with the store.
THEOREM SteamNeverLoses == CrcChecked => (Spec => SteamOnlyGrows)
<1> SUFFICES ASSUME CrcChecked PROVE Spec => SteamOnlyGrows
  OBVIOUS
<1>1. [Next]_vars => [steam \subseteq steam']_vars
  BY StoreAdds, SteamMoves
<1> QED BY <1>1, PTL DEF Spec, SteamOnlyGrows

\* What is known of Steam while the operation runs: whatever was to be unlocked
\* and was not unlocked before is in names_to_add.
PlanIsComplete ==
  /\ older \subseteq steam
  /\ op.pc \in {"refresh", "store", "verify"} =>
       /\ op.before \subseteq steam
       /\ op.local \cap Schema \subseteq op.before \cup op.names
  /\ OkMeansUnlocked

LEMMA InitPlan == Init => PlanIsComplete
BY DEF Init, Idle, PlanIsComplete, OkMeansUnlocked

LEMMA StepPlan == CrcChecked /\ TypeOK /\ PlanIsComplete /\ [Next]_vars => PlanIsComplete'
<1> SUFFICES ASSUME CrcChecked, TypeOK, PlanIsComplete, [Next]_vars PROVE PlanIsComplete'
  OBVIOUS
<1>1. steam \subseteq steam' /\ older' \subseteq steam'
  BY StoreAdds, SteamMoves DEF PlanIsComplete
<1>2. CASE UNCHANGED op
  BY <1>1, <1>2 DEF PlanIsComplete, OkMeansUnlocked
<1>3. CASE op' = Idle
  BY <1>1, <1>3 DEF PlanIsComplete, OkMeansUnlocked, Idle
<1>4. CASE Collect
  <2>1. PICK names : op' = [op EXCEPT !.local = names, !.pc = IF names = {} THEN "ok" ELSE "read"]
    BY <1>4 DEF Collect
  <2>2. op'.pc \in {"ok", "read"} /\ (op'.pc = "ok" => op'.local = {})
    BY <2>1 DEF TypeOK, Op
  <2> QED BY <1>1, <2>2 DEF PlanIsComplete, OkMeansUnlocked
<1>5. CASE Read
  <2>1. PICK current \in {steam, older} :
          op' = [op EXCEPT !.before = current, !.names = (op.local \cap Schema) \ current,
                           !.pc = IF (op.local \cap Schema) \ current = {} THEN "ok" ELSE "refresh"]
    BY <1>5 DEF Read
  <2>2. op'.before = current /\ op'.local = op.local /\ op'.names = (op.local \cap Schema) \ current
    BY <2>1 DEF TypeOK, Op
  <2>3. op'.pc = "ok" => op.local \cap Schema \subseteq current
    BY <2>1 DEF TypeOK, Op
  <2>4. current \subseteq steam'
    BY <1>1 DEF PlanIsComplete
  <2> QED BY <1>1, <2>2, <2>3, <2>4 DEF PlanIsComplete, OkMeansUnlocked
<1>6. CASE Refresh
  <2>1. op'.pc \in {"verify", "store"}
    BY <1>6 DEF Refresh, TypeOK, Op
  <2>2. op'.before = op.before /\ op'.local = op.local /\ op'.names = op.names
    BY <1>6 DEF Refresh, TypeOK, Op
  <2>3. op.pc = "refresh"
    BY <1>6 DEF Refresh
  <2> QED BY <1>1, <2>1, <2>2, <2>3 DEF PlanIsComplete, OkMeansUnlocked
<1>7. ASSUME Store, op' = [op EXCEPT !.pc = "verify"] PROVE PlanIsComplete'
  <2>1. op'.pc = "verify" /\ op'.before = op.before /\ op'.local = op.local /\ op'.names = op.names
    BY <1>7 DEF TypeOK, Op
  <2>2. op.pc = "store"
    BY <1>7 DEF Store
  <2> QED BY <1>1, <2>1, <2>2 DEF PlanIsComplete, OkMeansUnlocked
<1>8. CASE Verify
  <2>1. PICK verified \in {steam, older} :
          \/ op' = [op EXCEPT !.tries = @ + 1]
          \/ op.names \subseteq verified /\ op' = [op EXCEPT !.pc = "ok"]
          \/ op' = Idle
    BY <1>8 DEF Verify
  <2>2. op.pc = "verify" /\ verified \subseteq steam'
    BY <1>1, <1>8 DEF Verify, PlanIsComplete
  <2>3. CASE op' = [op EXCEPT !.tries = @ + 1]
    <3>1. op'.pc = "verify" /\ op'.before = op.before /\ op'.local = op.local /\ op'.names = op.names
      BY <2>2, <2>3 DEF TypeOK, Op
    <3> QED BY <1>1, <2>2, <3>1 DEF PlanIsComplete, OkMeansUnlocked
  <2>4. CASE op.names \subseteq verified /\ op' = [op EXCEPT !.pc = "ok"]
    <3>1. op'.pc = "ok" /\ op'.local = op.local
      BY <2>4 DEF TypeOK, Op
    <3> QED BY <1>1, <2>2, <2>4, <3>1 DEF PlanIsComplete, OkMeansUnlocked
  <2> QED BY <1>3, <2>1, <2>3, <2>4
<1>9. ASSUME op'.pc \in AtSave PROVE PlanIsComplete'
  BY <1>1, <1>9 DEF PlanIsComplete, OkMeansUnlocked, AtSave
<1>10. (\E s \in Slots : Compare(s) \/ ForceSlot(s)) => op'.pc \in AtSave
  <2> SUFFICES ASSUME NEW s \in Slots, Compare(s) \/ ForceSlot(s) PROVE op'.pc \in AtSave
    OBVIOUS
  <2>1. PICK pc \in {"compare", "forced"}, forgot \in BOOLEAN :
          op' = [op EXCEPT !.pc = pc, !.slot = s, !.file = cloud[s], !.forgot = forgot]
    BY Look
  <2> QED BY <2>1 DEF TypeOK, Op, AtSave
<1>11. Prepare \/ Assert => op'.pc \in AtSave
  BY DEF Prepare, Assert, TypeOK, Op, AtSave
<1>12. Store => op' = [op EXCEPT !.pc = "verify"] \/ op' = Idle
  BY DEF Store
<1> QED BY <1>2, <1>3, <1>4, <1>5, <1>6, <1>7, <1>8, <1>9, <1>10, <1>11, <1>12, OpSteps

\* When sync_from_local_saves returns Ok, Steam has everything that the saves and
\* sidecars had when they were read, if Steam checks the CRC.
THEOREM SuccessMeansUnlocked == CrcChecked => (Spec => []OkMeansUnlocked)
<1> SUFFICES ASSUME CrcChecked PROVE Spec => []OkMeansUnlocked
  OBVIOUS
<1>1. TypeOK /\ PlanIsComplete /\ [Next]_vars => PlanIsComplete'
  BY StepPlan
<1>2. PlanIsComplete => OkMeansUnlocked
  BY DEF PlanIsComplete
<1> QED BY InitPlan, <1>1, <1>2, TypeCorrect, PTL DEF Spec

-----------------------------------------------------------------------------
(* What a Repentance+ save has is kept. The engine does not look at what       *)
(* becomes of the sidecar; what it has backed up is the other place to look.   *)

LEMMA ExtrasType ==
  ASSUME NEW save \in Save \cup {None}
  PROVE  Extras(save) \in Extra
BY ExtractType, NoSaveType DEF Extras

LEMMA NothingIsWithin ==
  ASSUME NEW x \in Extra
  PROVE  Within(NoExtra, x) /\ Within(x, x)
BY AchievementsAssumption DEF Within, NoExtra, Extra, Count

\* While the operation works on a save, the sidecar has what the save that was
\* downloaded has, unless the sidecar failed or nothing was looked for; and at
\* the commit that save is the one that was backed up, and the one on Steam Cloud
\* unless another computer wrote after the last look.
DownloadIsRemembered ==
  op.pc \in AtSave /\ op.file # None => op.forgot \/ Within(Extract(op.file), sidecar[op.slot])
CommitReplacesIt ==
  op.pc = "commit" => /\ op.backup = op.file
                      /\ ~raced => cloud[op.slot] = op.file

LEMMA StepRemembered ==
  TypeOK /\ SlotKnown /\ DownloadIsRemembered /\ [Next]_vars => DownloadIsRemembered'
<1> SUFFICES ASSUME TypeOK, SlotKnown, DownloadIsRemembered, [Next]_vars,
                    op'.pc \in AtSave, op'.file # None, ~op'.forgot
             PROVE  Within(Extract(op'.file), sidecar'[op'.slot])
  BY DEF DownloadIsRemembered
<1>1. op'.slot \in Slots /\ op' \in Op /\ sidecar' \in [Slots -> Extra]
  BY StepTyped, StepKnowsSlot DEF TypeOK, SlotKnown
<1>2. ASSUME NEW s \in Slots, Compare(s) \/ ForceSlot(s) PROVE Within(Extract(op'.file), sidecar'[op'.slot])
  <2>1. PICK pc \in {"compare", "forced"}, forgot \in BOOLEAN :
          /\ op' = [op EXCEPT !.pc = pc, !.slot = s, !.file = cloud[s], !.forgot = forgot]
          /\ \/ cloud[s] # None => forgot
             \/ \E stored \in Stored(s) : forgot = Forgot(s, stored, Extract(cloud[s]))
    BY <1>2, Look
  <2>2. op'.slot = s /\ op'.file = cloud[s] /\ ~forgot /\ cloud[s] \in Save
    BY <2>1 DEF TypeOK, Op
  <2>3. PICK stored \in Stored(s) : ~Forgot(s, stored, Extract(cloud[s]))
    BY <2>1, <2>2
  <2>4. sidecar' = [sidecar EXCEPT ![s] = Merge(sidecar[s], Extract(cloud[s]))]
    BY <2>3 DEF Forgot
  <2>5. sidecar'[s] = Merge(sidecar[s], Extract(cloud[s])) /\ sidecar[s] \in Extra
    BY <2>4 DEF TypeOK
  <2> QED BY <2>2, <2>5, ExtractType, MergeKeeps
<1>3. ASSUME op.pc \in AtSave, op'.slot = op.slot, op'.file = op.file, ~op.forgot,
             Within(sidecar[op.slot], sidecar'[op.slot])
      PROVE  Within(Extract(op'.file), sidecar'[op'.slot])
  <2>1. Within(Extract(op.file), sidecar[op.slot]) /\ op.file \in Save
    BY <1>3 DEF DownloadIsRemembered, TypeOK, Op
  <2>2. sidecar[op.slot] \in Extra /\ sidecar'[op.slot] \in Extra
    BY <1>1, <1>3 DEF TypeOK
  <2> QED BY <1>3, <2>1, <2>2, ExtractType, WithinTransitive
<1>4. CASE Prepare
  <2>1. PICK up \in Save, forgot \in BOOLEAN :
          /\ op' = [op EXCEPT !.pc = "assert", !.up = up, !.forgot = forgot]
          /\ op.forgot => forgot
          /\ forgot \/ UNCHANGED sidecar
             \/ sidecar' = [sidecar EXCEPT ![op.slot] = Merge(@, Extract(up))]
    BY <1>4, PrepareUp
  <2>2. op'.slot = op.slot /\ op'.file = op.file /\ ~forgot /\ ~op.forgot
    BY <2>1 DEF TypeOK, Op
  <2>3. op.pc \in AtSave /\ op.slot \in Slots /\ sidecar[op.slot] \in Extra
    BY <1>4 DEF Prepare, AtSave, SlotKnown, TypeOK
  <2>4. CASE UNCHANGED sidecar
    BY <1>3, <2>2, <2>3, <2>4, NothingIsWithin
  <2>5. CASE sidecar' = [sidecar EXCEPT ![op.slot] = Merge(@, Extract(up))]
    <3>1. sidecar'[op.slot] = Merge(sidecar[op.slot], Extract(up))
      BY <2>3, <2>5 DEF TypeOK
    <3>2. Within(sidecar[op.slot], sidecar'[op.slot])
      BY <2>3, <3>1, ExtractType, MergeKeeps
    <3> QED BY <1>3, <2>2, <2>3, <3>2
  <2> QED BY <2>1, <2>2, <2>4, <2>5
<1>5. CASE Assert \/ (UNCHANGED op /\ UNCHANGED sidecar)
  <2>1. op.pc \in AtSave /\ op'.slot = op.slot /\ op'.file = op.file /\ ~op.forgot /\ sidecar' = sidecar
    BY <1>5 DEF Assert, AtSave, TypeOK, Op, world
  <2>2. sidecar[op.slot] \in Extra
    BY <2>1 DEF SlotKnown, TypeOK
  <2> QED BY <1>3, <2>1, <2>2, NothingIsWithin
<1>6. op' # Idle
  BY DEF Idle, AtSave
<1>7. ~Collect /\ ~Read /\ ~Refresh /\ ~Store /\ ~Verify
  BY <1>6 DEF Collect, Read, Refresh, Store, Verify, TypeOK, Op, AtSave
<1> QED BY <1>2, <1>4, <1>5, <1>6, <1>7
        DEF Next, vars, world, Play, PeerUnlocks, PeerPlays, Relaunch, Fails, Returned, Pull, Commit

LEMMA StepReplaces ==
  TypeOK /\ SlotKnown /\ CommitReplacesIt /\ [Next]_vars => CommitReplacesIt'
<1> SUFFICES ASSUME TypeOK, SlotKnown, CommitReplacesIt, [Next]_vars, op'.pc = "commit"
             PROVE  op'.backup = op'.file /\ (~raced' => cloud'[op'.slot] = op'.file)
  BY DEF CommitReplacesIt
<1>1. op' # Idle
  BY DEF Idle
<1>2. CASE Assert
  BY <1>2 DEF Assert, RemoteUnchanged, TypeOK, Op, world
<1>3. ASSUME NEW s \in Slots, NEW a \in Names, PeerPlays(s, a)
      PROVE  op'.backup = op'.file /\ (~raced' => cloud'[op'.slot] = op'.file)
  <2>1. op' = op /\ op.pc = "commit" /\ op.backup = op.file
    BY <1>3 DEF PeerPlays, CommitReplacesIt
  <2>2. ASSUME ~raced' PROVE cloud'[op'.slot] = op'.file
    <3>1. ~raced /\ op.slot # s
      BY <1>3, <2>1, <2>2 DEF PeerPlays
    <3>2. cloud'[op.slot] = cloud[op.slot]
      BY <1>3, <2>1, <3>1 DEF PeerPlays, TypeOK, SlotKnown, AtSave
    <3> QED BY <2>1, <3>1, <3>2 DEF CommitReplacesIt
  <2> QED BY <2>1, <2>2
<1>4. CASE UNCHANGED << op, cloud, raced >>
  BY <1>4 DEF CommitReplacesIt
<1>5. ASSUME NEW s \in Slots, Compare(s) \/ ForceSlot(s) PROVE FALSE
  <2>1. PICK pc \in {"compare", "forced"}, forgot \in BOOLEAN :
          op' = [op EXCEPT !.pc = pc, !.slot = s, !.file = cloud[s], !.forgot = forgot]
    BY <1>5, Look
  <2> QED BY <2>1 DEF TypeOK, Op
<1>6. ~Collect /\ ~Read /\ ~Refresh /\ ~Store /\ ~Verify /\ ~Prepare
  BY <1>1 DEF Collect, Read, Refresh, Store, Verify, Prepare, TypeOK, Op
<1> QED BY <1>1, <1>2, <1>3, <1>4, <1>5, <1>6
        DEF Next, vars, world, Play, PeerUnlocks, Relaunch, Fails, Returned, Pull, Commit

\* Another computer's save has what its last one had.
LEMMA PeerKeeps ==
  ASSUME TypeOK, NEW s \in Slots, NEW a \in Names, PeerPlays(s, a)
  PROVE  Within(Extras(cloud[s]), Extras(cloud'[s]))
<1> DEFINE new == PlayedOn(Begun(s), a)
<1>1. Begun(s) \in Save /\ cloud'[s] = new
  BY PeerSave DEF TypeOK
<1>2. new \in Save /\ new.plus /\ Within(Begun(s).extra, new.extra) /\ new.extra \in Extra
  BY <1>1, PlayedOnKeeps DEF Save
<1>3. Extras(cloud'[s]) = new.extra
  BY <1>1, <1>2, NoneAssumption DEF Extras, Extract
<1>4. Extras(cloud[s]) = NoExtra \/ Extras(cloud[s]) = Begun(s).extra
  BY DEF Extras, Extract, Begun
<1> QED BY <1>2, <1>3, <1>4, NothingIsWithin

\* What ExtrasAreKept says of a slot
KeptAt(s) ==
  \/ Within(Extras(cloud[s]), Merge(Extras(cloud'[s]), sidecar'[s]))
  \/ op.forgot /\ op.slot = s /\ op.backup = cloud[s]

LEMMA ExtrasStep ==
  TypeOK /\ SlotKnown /\ DownloadIsRemembered /\ CommitReplacesIt /\ [Next]_vars =>
    [~raced => \A s \in Slots : KeptAt(s)]_vars
<1> SUFFICES ASSUME TypeOK, SlotKnown, DownloadIsRemembered, CommitReplacesIt,
                    [Next]_vars, ~raced, NEW s \in Slots
             PROVE  KeptAt(s)
  OBVIOUS
<1>1. /\ Extras(cloud[s]) \in Extra /\ Extras(cloud'[s]) \in Extra
      /\ sidecar[s] \in Extra /\ sidecar'[s] \in Extra
  BY StepTyped, ExtrasType DEF TypeOK
<1>2. Merge(Extras(cloud'[s]), sidecar'[s]) \in Extra
  BY <1>1, MergeType
<1>3. CASE Within(Extras(cloud[s]), Extras(cloud'[s]))
  BY <1>1, <1>2, <1>3, MergeKeeps, WithinTransitive DEF KeptAt
<1>4. CASE Within(Extras(cloud[s]), sidecar'[s])
  BY <1>1, <1>2, <1>4, MergeKeeps, WithinTransitive DEF KeptAt
<1>5. ASSUME cloud'[s] = cloud[s]
      PROVE  Within(Extras(cloud[s]), Extras(cloud'[s]))
  BY <1>1, <1>5, NothingIsWithin
<1>6. ASSUME NEW t \in Slots, NEW a \in Names, PeerPlays(t, a)
      PROVE  Within(Extras(cloud[s]), Extras(cloud'[s]))
  <2>1. CASE t = s
    BY <1>6, <2>1, PeerKeeps
  <2>2. CASE t # s
    BY <1>5, <1>6, <2>2 DEF PeerPlays, TypeOK
  <2> QED BY <2>1, <2>2
<1>7. ASSUME Commit, op.slot = s
      PROVE  KeptAt(s)
  <2>1. cloud[s] = op.file /\ op.backup = op.file /\ sidecar' = sidecar
    BY <1>7 DEF Commit, CommitReplacesIt
  <2>2. CASE op.file = None
    BY <1>1, <1>4, <2>1, <2>2, NothingIsWithin DEF Extras
  <2>3. CASE op.forgot
    BY <1>7, <2>1, <2>3 DEF KeptAt
  <2>4. CASE op.file # None /\ ~op.forgot
    <3>1. Within(Extract(op.file), sidecar[op.slot])
      BY <1>7, <2>4 DEF Commit, DownloadIsRemembered, AtSave
    <3> QED BY <1>4, <1>7, <2>1, <2>4, <3>1 DEF Extras
  <2> QED BY <2>2, <2>3, <2>4
<1>8. ASSUME Commit, op.slot # s
      PROVE  cloud'[s] = cloud[s]
  BY <1>8 DEF Commit, TypeOK
<1>9. Commit \/ (\E t \in Slots, a \in Names : PeerPlays(t, a)) \/ cloud' = cloud
  BY DEF Next, vars, world, Play, PeerUnlocks, Relaunch, Collect, Read, Refresh, Store, Verify,
         Fails, Returned, Compare, ForceSlot, Pull, Prepare, Assert
<1> QED BY <1>3, <1>5, <1>6, <1>7, <1>8, <1>9

\* The part of a save that only Repentance+ has survives every upload over it
\* (prepare_upload, push_one): it is in the new save or in the sidecar; or, when
\* the sidecar failed or force_slot overlooked it, the file replaced is in a
\* backup. Excepted is a save that another computer wrote after the last look.
THEOREM ExtrasAreNeverLost == Spec => ExtrasAreKept
<1>1. Init => DownloadIsRemembered /\ CommitReplacesIt
  BY DEF Init, Idle, DownloadIsRemembered, CommitReplacesIt, AtSave
<1>2. TypeOK /\ SlotKnown /\ DownloadIsRemembered /\ [Next]_vars => DownloadIsRemembered'
  BY StepRemembered
<1>3. TypeOK /\ SlotKnown /\ DownloadIsRemembered /\ CommitReplacesIt /\ [Next]_vars =>
        [~raced => \A s \in Slots :
           \/ Within(Extras(cloud[s]), Merge(Extras(cloud'[s]), sidecar'[s]))
           \/ op.forgot /\ op.slot = s /\ op.backup = cloud[s]]_vars
  BY ExtrasStep DEF KeptAt
<1> QED BY <1>1, <1>2, <1>3, StepReplaces, TypeCorrect, PTL DEF Spec, ExtrasAreKept

-----------------------------------------------------------------------------
(* No achievement is invented. *)

\* What someone has unlocked by playing, or has been given for Mom.
Won == earned \cup Given(earned)

WonSave(save) == save.base \subseteq Won /\ save.extra.ach \subseteq Won

\* UnlocksAreEarned, and the same of what the operation has in its hands.
AllIsWon ==
  /\ steam \subseteq Won /\ older \subseteq Won /\ cache \subseteq Won
  /\ \A s \in Slots : phone[s] \subseteq Won /\ sidecar[s].ach \subseteq Won
  /\ \A s \in Slots : cloud[s] # None => WonSave(cloud[s])
HandsAreWon ==
  /\ op.local \subseteq Won /\ op.before \subseteq Won /\ op.names \subseteq Won /\ op.seen \subseteq Won
  /\ op.file # None => WonSave(op.file)
  /\ WonSave(op.up)

\* "Read Up!" is not Mom: nothing is given for what is given.
LEMMA GivenIsWon ==
  ASSUME NEW names, names \subseteq Won
  PROVE  Given(names) \subseteq Won
BY AchievementsAssumption DEF Won, Given

LEMMA WonGrows == [Next]_vars => Won \subseteq Won'
<1>1. earned \subseteq earned' => Won \subseteq Won'
  BY DEF Won, Given
<1>2. [Next]_vars => earned \subseteq earned'
  BY DEF Next, vars, world, Play, PeerUnlocks, PeerPlays, Relaunch, Collect, Read, Refresh, Store,
         Verify, Fails, Returned, Compare, ForceSlot, Pull, Prepare, Assert, Commit
<1> QED BY <1>1, <1>2

LEMMA NoSaveWon == WonSave(NoSave) /\ NoExtra.ach \subseteq Won
BY DEF WonSave, NoSave, NoExtra

LEMMA InitWon == Init => AllIsWon /\ HandsAreWon
<1> SUFFICES ASSUME Init PROVE AllIsWon /\ HandsAreWon
  OBVIOUS
<1>1. \A s \in Slots : cloud[s] # None => WonSave(cloud[s])
  <2>1. PICK plus, named, lz4 \in BOOLEAN, count \in Count :
          cloud \in [Slots -> {None, Found(plus, named, lz4, count)}]
    BY DEF Init, Found
  <2> QED BY <2>1, FoundType DEF WonSave
<1>2. op.local = {} /\ op.before = {} /\ op.names = {} /\ op.seen = {} /\ op.file = None /\ op.up = NoSave
  BY DEF Init, Idle
<1>3. HandsAreWon
  BY <1>2, NoSaveWon DEF HandsAreWon
<1>4. AllIsWon
  BY <1>1 DEF Init, AllIsWon, Won, NoExtra
<1> QED BY <1>3, <1>4

LEMMA StepHandsWon == TypeOK /\ SlotKnown /\ AllIsWon /\ HandsAreWon /\ [Next]_vars => HandsAreWon'
<1> SUFFICES ASSUME TypeOK, SlotKnown, AllIsWon, HandsAreWon, [Next]_vars PROVE HandsAreWon'
  OBVIOUS
<1>1. Won \subseteq Won'
  BY WonGrows
<1>2. CASE UNCHANGED op
  BY <1>1, <1>2 DEF HandsAreWon, WonSave
<1>3. CASE op' = Idle
  <2>1. op'.local = {} /\ op'.before = {} /\ op'.names = {} /\ op'.seen = {}
        /\ op'.file = None /\ op'.up = NoSave
    BY <1>3 DEF Idle
  <2> QED BY <2>1 DEF HandsAreWon, WonSave, NoSave, NoExtra
<1>4. CASE Collect
  <2>1. PICK found, readable \in SUBSET Slots :
          LET names == LocalUnlocks(found, readable)
          IN op' = [op EXCEPT !.local = names, !.pc = IF names = {} THEN "ok" ELSE "read"]
    BY <1>4 DEF Collect
  <2>2. UNION {phone[s] : s \in found} \subseteq Won /\ UNION {sidecar[s].ach : s \in readable} \subseteq Won
    BY DEF AllIsWon
  <2>3. LocalUnlocks(found, readable) \subseteq Won
    BY <2>2, GivenIsWon DEF LocalUnlocks
  <2>4. op'.local = LocalUnlocks(found, readable)
        /\ op'.before = op.before /\ op'.names = op.names /\ op'.seen = op.seen
        /\ op'.file = op.file /\ op'.up = op.up
    BY <2>1 DEF TypeOK, Op
  <2> QED BY <1>1, <2>3, <2>4 DEF HandsAreWon, WonSave
<1>5. CASE Read \/ Refresh \/ Store \/ Verify
  <2>1. \/ op' = Idle
        \/ /\ op'.local = op.local /\ op'.file = op.file /\ op'.up = op.up
           /\ op'.before \subseteq op.before \cup steam \cup older
           /\ op'.names \subseteq op.names \cup op.local
           /\ op'.seen \subseteq op.seen \cup steam \cup older
    <3>1. CASE Read
      BY <3>1 DEF Read, TypeOK, Op
    <3>2. CASE Refresh
      BY <3>2 DEF Refresh, TypeOK, Op
    <3>3. CASE Store
      BY <3>3 DEF Store, TypeOK, Op
    <3>4. CASE Verify
      BY <3>4 DEF Verify, TypeOK, Op
    <3> QED BY <1>5, <3>1, <3>2, <3>3, <3>4
  <2> QED BY <1>1, <1>3, <2>1 DEF HandsAreWon, AllIsWon, WonSave
<1>6. ASSUME NEW s \in Slots, Compare(s) \/ ForceSlot(s) PROVE HandsAreWon'
  <2>1. PICK pc \in {"compare", "forced"}, forgot \in BOOLEAN :
          op' = [op EXCEPT !.pc = pc, !.slot = s, !.file = cloud[s], !.forgot = forgot]
    BY <1>6, Look
  <2>2. op'.local = op.local /\ op'.before = op.before /\ op'.names = op.names /\ op'.seen = op.seen
        /\ op'.up = op.up /\ op'.file = cloud[s]
    BY <2>1 DEF TypeOK, Op
  <2> QED BY <1>1, <2>2 DEF HandsAreWon, AllIsWon, WonSave
<1>7. CASE Prepare
  <2>1. op.slot \in Slots /\ phone[op.slot] \in SUBSET Base /\ phone[op.slot] \subseteq Won
    BY <1>7 DEF Prepare, SlotKnown, AtSave, TypeOK, AllIsWon
  <2>2. PICK up \in Save, stored \in Stored(op.slot), forgot \in BOOLEAN :
          /\ op' = [op EXCEPT !.pc = "assert", !.up = up, !.forgot = forgot]
          /\ \/ up = ToRepPlus(phone[op.slot], stored, cache)
             \/ up = [NoSave EXCEPT !.base = phone[op.slot]]
    BY <1>7, PrepareUp
  <2>3. stored \in Extra /\ stored.ach \subseteq Won
    BY <2>1, NoSaveType, NoSaveWon DEF Stored, TypeOK, AllIsWon
  <2>4. ASSUME up = ToRepPlus(phone[op.slot], stored, cache) PROVE WonSave(up)
    <3> DEFINE more == [stored EXCEPT !.ach = @ \cup (cache \cap Plus) \cup Given(phone[op.slot])]
    <3>1. more.ach = stored.ach \cup (cache \cap Plus) \cup Given(phone[op.slot])
      BY <2>3 DEF Extra
    <3>2. up = [plus |-> TRUE, named |-> TRUE, lz4 |-> FALSE, base |-> phone[op.slot], extra |-> more]
      BY <2>4 DEF ToRepPlus
    <3> HIDE DEF more
    <3>3. up.base = phone[op.slot] /\ up.extra = more
      BY <3>2
    <3> QED BY <2>1, <2>3, <3>1, <3>3, GivenIsWon DEF WonSave, AllIsWon
  <2>5. ASSUME up = [NoSave EXCEPT !.base = phone[op.slot]] PROVE WonSave(up)
    <3>1. up.base = phone[op.slot] /\ up.extra.ach = {}
      BY <2>5 DEF NoSave, NoExtra
    <3> QED BY <2>1, <3>1 DEF WonSave
  <2>6. op'.local = op.local /\ op'.before = op.before /\ op'.names = op.names /\ op'.seen = op.seen
        /\ op'.file = op.file /\ op'.up = up
    BY <2>2 DEF TypeOK, Op
  <2> QED BY <1>1, <2>2, <2>4, <2>5, <2>6 DEF HandsAreWon, WonSave
<1>8. CASE Assert
  <2>1. op'.local = op.local /\ op'.before = op.before /\ op'.names = op.names /\ op'.seen = op.seen
        /\ op'.file = op.file /\ op'.up = op.up
    BY <1>8 DEF Assert, TypeOK, Op
  <2> QED BY <1>1, <2>1 DEF HandsAreWon, WonSave
<1> QED BY <1>2, <1>3, <1>4, <1>5, <1>6, <1>7, <1>8, OpSteps

LEMMA PeerSaveWon ==
  ASSUME TypeOK, AllIsWon, [Next]_vars, NEW s \in Slots, NEW a \in Names, PeerPlays(s, a)
  PROVE  WonSave(cloud[s])'
<1> DEFINE new == PlayedOn(Begun(s), a)
<1>1. Begun(s) \in Save /\ cloud'[s] = new
  BY PeerSave DEF TypeOK
<1>2. WonSave(Begun(s))
  BY DEF AllIsWon, WonSave, Begun, NoSave, NoExtra
<1>3. new.base \subseteq Begun(s).base \cup {a} /\ new.extra.ach \subseteq Begun(s).extra.ach \cup {a}
  BY <1>1, PlayedOnKeeps
<1>4. a \in Won' /\ Won \subseteq Won'
  BY WonGrows DEF PeerPlays, Won
<1> HIDE DEF new
<1> QED BY <1>1, <1>2, <1>3, <1>4 DEF WonSave

LEMMA RememberWon ==
  ASSUME TypeOK, AllIsWon, NEW t \in Slots, NEW stored \in Stored(t),
         NEW extra \in Extra, extra.ach \subseteq Won, Remember(t, stored, extra),
         NEW s \in Slots
  PROVE  sidecar'[s].ach \subseteq Won
<1>1. Merge(stored, extra).ach = stored.ach \cup extra.ach /\ stored.ach \subseteq Won
  BY NoSaveWon DEF Merge, Stored, AllIsWon
<1>2. sidecar' = [sidecar EXCEPT ![t] = Merge(stored, extra)] \/ sidecar' = sidecar
  BY DEF Remember
<1>3. sidecar'[s] = sidecar[s] \/ (s = t /\ sidecar'[s] = Merge(stored, extra))
  BY <1>2 DEF TypeOK
<1> QED BY <1>1, <1>3 DEF AllIsWon

LEMMA ExtractWon ==
  ASSUME NEW save \in Save, WonSave(save)
  PROVE  Extract(save).ach \subseteq Won
BY NoSaveWon DEF WonSave, Extract

LEMMA StepAllWon == TypeOK /\ SlotKnown /\ AllIsWon /\ HandsAreWon /\ [Next]_vars => AllIsWon'
<1> SUFFICES ASSUME TypeOK, SlotKnown, AllIsWon, HandsAreWon, [Next]_vars PROVE AllIsWon'
  OBVIOUS
<1>1. Won \subseteq Won'
  BY WonGrows
<1>2. steam' \subseteq Won' /\ older' \subseteq Won'
  <2>1. CASE Store
    <3>1. Build.names \subseteq Won
      BY DEF Build, AllIsWon, HandsAreWon
    <3> QED BY <1>1, <2>1, <3>1 DEF Store, AllIsWon
  <2>2. ASSUME NEW a \in Schema, PeerUnlocks(a) PROVE steam' \subseteq Won' /\ older' \subseteq Won'
    BY <1>1, <2>2 DEF PeerUnlocks, AllIsWon, Won
  <2>3. CASE UNCHANGED << steam, older >>
    BY <1>1, <2>3 DEF AllIsWon
  <2> QED BY <2>1, <2>2, <2>3
          DEF Next, vars, world, Play, PeerPlays, Relaunch, Collect, Read, Refresh, Verify,
              Fails, Returned, Compare, ForceSlot, Pull, Prepare, Assert, Commit
<1>3. cache' \subseteq Won'
  <2>1. cache' \subseteq steam \cup older \cup cache
    BY DEF Next, vars, world, Play, PeerUnlocks, PeerPlays, Relaunch, Collect, Read, Refresh, Store,
           Verify, Fails, Returned, Compare, ForceSlot, Pull, Prepare, Assert, Commit
  <2> QED BY <1>1, <2>1 DEF AllIsWon
<1>4. ASSUME NEW s \in Slots PROVE phone'[s] \subseteq Won'
  <2>1. ASSUME NEW t \in Slots, NEW a \in Base, Play(t, a) PROVE phone'[s] \subseteq Won'
    BY <1>1, <2>1 DEF Play, TypeOK, AllIsWon, Won
  <2>2. CASE Pull
    <3>1. op.file.base \subseteq Won
      BY <2>2 DEF Pull, HandsAreWon, WonSave, SlotKnown
    <3> QED BY <1>1, <2>2, <3>1 DEF Pull, ToRep, TypeOK, AllIsWon
  <2>3. CASE phone' = phone
    BY <1>1, <2>3 DEF AllIsWon
  <2> QED BY <2>1, <2>2, <2>3
          DEF Next, vars, world, PeerUnlocks, PeerPlays, Relaunch, Collect, Read, Refresh, Store, Verify,
              Fails, Returned, Compare, ForceSlot, Prepare, Assert, Commit
<1>5. ASSUME NEW s \in Slots PROVE sidecar'[s].ach \subseteq Won'
  <2>1. ASSUME NEW t \in Slots, Compare(t) \/ ForceSlot(t), sidecar' # sidecar PROVE sidecar'[s].ach \subseteq Won
    <3>1. PICK stored \in Stored(t) : cloud[t] # None /\ Remember(t, stored, Extract(cloud[t]))
      BY <2>1, Look
    <3>2. cloud[t] \in Save /\ WonSave(cloud[t])
      BY <3>1 DEF TypeOK, AllIsWon
    <3> QED BY <3>1, <3>2, ExtractWon, ExtractType, RememberWon
  <2>2. ASSUME Prepare PROVE sidecar'[s].ach \subseteq Won'
    <3>1. PICK up \in Save, stored \in Stored(op.slot), forgot \in BOOLEAN :
            /\ op' = [op EXCEPT !.pc = "assert", !.up = up, !.forgot = forgot]
            /\ Remember(op.slot, stored, Extract(up))
      BY <2>2, PrepareUp
    <3>2. op'.up = up
      BY <3>1 DEF TypeOK, Op
    <3>3. WonSave(up)'
      BY <3>2, StepHandsWon DEF HandsAreWon
    <3>4. earned' = earned
      BY <2>2 DEF Prepare
    <3>5. WonSave(up)
      BY <3>3, <3>4 DEF WonSave, Won
    <3>6. op.slot \in Slots
      BY <2>2 DEF Prepare, SlotKnown, AtSave
    <3> QED BY <1>1, <3>1, <3>5, <3>6, ExtractWon, ExtractType, RememberWon
  <2>3. CASE sidecar' = sidecar
    BY <1>1, <2>3 DEF AllIsWon
  <2> QED BY <1>1, <2>1, <2>2, <2>3
          DEF Next, vars, world, Play, PeerUnlocks, PeerPlays, Relaunch, Collect, Read, Refresh, Store,
              Verify, Fails, Returned, Pull, Assert, Commit
<1>6. ASSUME NEW s \in Slots, cloud'[s] # None PROVE WonSave(cloud[s])'
  <2>1. ASSUME NEW t \in Slots, NEW a \in Names, PeerPlays(t, a), t = s PROVE WonSave(cloud[s])'
    BY <2>1, PeerSaveWon
  <2>2. CASE cloud'[s] = cloud[s]
    BY <1>1, <1>6, <2>2 DEF AllIsWon, WonSave
  <2>3. ASSUME NEW t \in Slots, NEW a \in Names, PeerPlays(t, a), t # s PROVE cloud'[s] = cloud[s]
    BY <2>3 DEF PeerPlays, TypeOK
  <2>4. CASE Commit
    <3>1. cloud'[s] = op.up \/ cloud'[s] = cloud[s]
      BY <2>4 DEF Commit, TypeOK
    <3> QED BY <1>1, <2>2, <3>1 DEF HandsAreWon, WonSave
  <2> QED BY <2>1, <2>2, <2>3, <2>4
          DEF Next, vars, world, Play, PeerUnlocks, Relaunch, Collect, Read, Refresh, Store, Verify,
              Fails, Returned, Compare, ForceSlot, Pull, Prepare, Assert
<1> QED BY <1>2, <1>3, <1>4, <1>5, <1>6 DEF AllIsWon

\* Saves, sidecars, the cache and Steam hold only what someone unlocked by playing
\* or was given for Mom (convert_rep_to_rep_plus_with_extra, collect_local_unlocks).
THEOREM NothingIsInvented == Spec => []UnlocksAreEarned
<1>1. AllIsWon => UnlocksAreEarned
  <2> SUFFICES ASSUME AllIsWon PROVE UnlocksAreEarned
    OBVIOUS
  <2> DEFINE saves == {cloud[s] : s \in Slots} \ {None}
  <2>1. UNION {phone[s] : s \in Slots} \subseteq Won /\ UNION {sidecar[s].ach : s \in Slots} \subseteq Won
    BY DEF AllIsWon
  <2>2. UNION {save.base \cup save.extra.ach : save \in saves} \subseteq Won
    BY DEF AllIsWon, WonSave
  <2> DEFINE inPhones == UNION {phone[s] : s \in Slots}
             inSidecars == UNION {sidecar[s].ach : s \in Slots}
             inCloud == UNION {save.base \cup save.extra.ach : save \in saves}
  <2>3. SUFFICES steam \cup cache \cup inPhones \cup inSidecars \cup inCloud \subseteq Won
    BY Zenon DEF UnlocksAreEarned, Won
  <2>4. inPhones \subseteq Won /\ inSidecars \subseteq Won /\ inCloud \subseteq Won
    BY <2>1, <2>2
  <2> HIDE DEF inPhones, inSidecars, inCloud
  <2> QED BY <2>4 DEF AllIsWon
<1> QED BY <1>1, InitWon, StepAllWon, StepHandsWon, TypeCorrect, PTL DEF Spec
=============================================================================
