---------------------------- MODULE BackupsProofs ----------------------------
(***************************************************************************)
(* What atomic::write_bytes promises, and what holds of the live save      *)
(* while backups are made, retained, restored and rolled back, for every   *)
(* set of backups and of contents, every Retain and every behaviour of the *)
(* clock.                                                                  *)
(*                                                                         *)
(* To the invariant of AtomicWrite (IInv) that of Backups adds who writes  *)
(* (WriterIsReplacing) and what (WorkInv): a queued restore writes the     *)
(* content of the queued backup, a rollback the save the pull had found.   *)
(* Retention may remove the backup meanwhile, but no new backup takes its  *)
(* identifier.                                                             *)
(*                                                                         *)
(* Retention itself is proved from RetentionInv: among the intact backups  *)
(* of a source the newest Retain stay, "newest" being the catalog's order, *)
(* expressed by identifiers so that no position in a sequence is needed.   *)
(* What was there when a save was replaced (SafetyInv) needs a clock that  *)
(* is never set back.                                                      *)
(***************************************************************************)
EXTENDS Backups, SequenceTheorems, FiniteSetTheorems, TLAPS

-----------------------------------------------------------------------------
(* atomic::write_bytes alone, for every set of contents and with a kill or a *)
(* power loss between any two of its system calls.  None of its properties   *)
(* is inductive.  The invariant that is says, at each program point, how far *)
(* the temporary file has got, that the file read now is one of the          *)
(* survivors, and that until the rename the disk holds nothing but what was  *)
(* there before.                                                             *)

\* The program points before the rename.
Preparing == wpc \in {"create", "fill", "sync", "rename"}

\* A rename only ever sees a file that was filled and then synced.
SyncedBeforeRename == wpc = "rename" => temp = "synced"

\* What is read now is one of the contents a power loss may leave.
FileSurvives == file \in survivors

\* Up to the rename the destination is untouched.
Untouched == Preparing => file = before

\* There is no verdict on a call that is under way.
Undecided == wpc # "idle" => outcome = "none"

IInv ==
  /\ AtomicTypeOK
  /\ SyncedBeforeRename
  /\ FileSurvives
  /\ Untouched
  /\ Undecided
  /\ wpc = "sync_dir" => file = bytes
  /\ NeverTorn
  /\ OkIsDurable
  /\ EarlyFailureKeepsFile
  /\ OldOrNew

-----------------------------------------------------------------------------
LEMMA AtomicTypeStep == AtomicTypeOK /\ [AtomicNext]_write => AtomicTypeOK'
<1> SUFFICES ASSUME AtomicTypeOK, [AtomicNext]_write PROVE AtomicTypeOK'
  OBVIOUS
<1> USE DEF AtomicTypeOK
<1>1. ASSUME NEW c \in Contents, Begin(c) PROVE AtomicTypeOK'
  BY <1>1 DEF Begin
<1>2. CASE WriteStep
  <2>1. CASE Fails         BY <2>1 DEF Fails
  <2>2. CASE Create        BY <2>2 DEF Create
  <2>3. CASE Fill          BY <2>3 DEF Fill
  <2>4. CASE Sync          BY <2>4 DEF Sync
  <2>5. CASE Rename        BY <2>5 DEF Rename
  <2>6. CASE SyncDirectory BY <2>6 DEF SyncDirectory
  <2> QED BY <1>2, <2>1, <2>2, <2>3, <2>4, <2>5, <2>6 DEF WriteStep
<1>3. CASE Crash
  BY <1>3 DEF Crash, Killed, PowerLost
<1>4. CASE UNCHANGED write
  BY <1>4 DEF write
<1> QED BY <1>1, <1>2, <1>3, <1>4 DEF AtomicNext

LEMMA AtomicInitIInv == AtomicInit => IInv
BY TornAssumption
   DEF AtomicInit, IInv, AtomicTypeOK, SyncedBeforeRename, FileSurvives, Untouched, Preparing, Undecided,
       NeverTorn, OkIsDurable, EarlyFailureKeepsFile, OldOrNew

LEMMA AtomicStepIInv == IInv /\ [AtomicNext]_write => IInv'
<1> SUFFICES ASSUME IInv, [AtomicNext]_write PROVE IInv'
  OBVIOUS
<1>0. AtomicTypeOK'
  BY AtomicTypeStep DEF IInv
<1> USE TornAssumption
    DEF IInv, AtomicTypeOK, SyncedBeforeRename, FileSurvives, Untouched, Preparing, Undecided,
        NeverTorn, OkIsDurable, EarlyFailureKeepsFile, OldOrNew
<1>1. ASSUME NEW c \in Contents, Begin(c) PROVE IInv'
  BY <1>0, <1>1 DEF Begin
<1>2. CASE WriteStep
  <2>1. CASE Fails         BY <1>0, <2>1 DEF Fails
  <2>2. CASE Create        BY <1>0, <2>2 DEF Create
  <2>3. CASE Fill          BY <1>0, <2>3 DEF Fill
  <2>4. CASE Sync          BY <1>0, <2>4 DEF Sync
  \* the temporary file is synced, so no torn file joins the survivors
  <2>5. CASE Rename        BY <1>0, <2>5 DEF Rename
  <2>6. CASE SyncDirectory BY <1>0, <2>6 DEF SyncDirectory
  <2> QED BY <1>2, <2>1, <2>2, <2>3, <2>4, <2>5, <2>6 DEF WriteStep
<1>3. CASE Crash
  <2>1. CASE Killed        BY <1>0, <2>1 DEF Killed
  <2>2. CASE PowerLost     BY <1>0, <2>2 DEF PowerLost
  <2> QED BY <1>3, <2>1, <2>2 DEF Crash
<1>4. CASE UNCHANGED write
  BY <1>0, <1>4 DEF write
<1> QED BY <1>1, <1>2, <1>3, <1>4 DEF AtomicNext

LEMMA AtomicInductive == AtomicSpec => []IInv
BY AtomicInitIInv, AtomicStepIInv, PTL DEF AtomicSpec

-----------------------------------------------------------------------------
(* Theorems. *)

\* Type correctness of AtomicWrite.
THEOREM AtomicTypeCorrect == AtomicSpec => []AtomicTypeOK
<1>1. IInv => AtomicTypeOK
  BY DEF IInv
<1> QED BY AtomicInductive, <1>1, PTL

\* The destination of write_bytes is never torn, nor can a power loss tear it.
THEOREM NoTornSave == AtomicSpec => []NeverTorn
<1>1. IInv => NeverTorn
  BY DEF IInv
<1> QED BY AtomicInductive, <1>1, PTL

\* When write_bytes returns Ok, the new content outlives a power loss.
THEOREM SuccessIsDurable == AtomicSpec => []OkIsDurable
<1>1. IInv => OkIsDurable
  BY DEF IInv
<1> QED BY AtomicInductive, <1>1, PTL

\* A failure of write_bytes before its rename leaves the destination as it was.
THEOREM FailureIsHarmless == AtomicSpec => []EarlyFailureKeepsFile
<1>1. IInv => EarlyFailureKeepsFile
  BY DEF IInv
<1> QED BY AtomicInductive, <1>1, PTL

-----------------------------------------------------------------------------
(* Who writes in Backups, and what. *)


\* Only an operation that has come to its replacement has a write under way.
WriterIsReplacing == wpc # "idle" => op # None /\ op.pc = "replace"

\* There is something to read whenever an operation comes to its replacement.
HasATarget ==
  op # None =>
    IF op.kind = "archive" THEN op.pc \notin {"read", "replace"}
                           ELSE op.target # None \/ op.from \in Ids

\* The data file is written under the id the manifest will carry.
HasAnId == op # None /\ op.pc = "manifest" => op.id \in Ids

\* A restore is of the queued backup, as long as that backup exists.
RestoresTheQueued ==
  op # None /\ op.kind = "restore" =>
    /\ op.from \in Ids
    /\ queued = op.from
    /\ op.target # None => data[op.from] \in {None, op.target}
    /\ op.pc = "replace" => data[op.from] \in {None, bytes}

\* A pull backs up the save it found.
PullSavesTheOld ==
  op # None /\ op.kind = "pull" =>
    /\ op.saving = op.old
    /\ op.pc \notin {"data"} => op.id \in Ids /\ data[op.id] \in {None, op.old}

\* A rollback is of that backup.
RollbackIsOfTheOld ==
  op # None /\ op.kind = "rollback" =>
    /\ op.from \in Ids
    /\ op.target = None
    /\ data[op.from] \in {None, op.old}
    /\ op.pc = "replace" => bytes = op.old

WorkInv ==
  /\ WriterIsReplacing
  /\ HasATarget
  /\ HasAnId
  /\ RestoresTheQueued
  /\ PullSavesTheOld
  /\ RollbackIsOfTheOld

BInv == TypeOK /\ IInv /\ WorkInv

-----------------------------------------------------------------------------
(* The catalog stays a sequence of records. *)

LEMMA InsertAtElements ==
  ASSUME NEW s \in Seq(Record), NEW i \in 1..Len(s) + 1, NEW e \in Record
  PROVE  /\ InsertAt(s, i, e) \in Seq(Record)
         /\ Len(InsertAt(s, i, e)) = Len(s) + 1
         /\ \A j \in 1..Len(s) + 1 :
              InsertAt(s, i, e)[j] = IF j < i THEN s[j] ELSE IF j = i THEN e ELSE s[j - 1]
<1> DEFINE a == SubSeq(s, 1, i - 1)
           b == SubSeq(s, i, Len(s))
<1>0. Len(s) \in Nat /\ i \in Nat
  OBVIOUS
<1>1. \A j \in 1..(i - 1) : s[j] \in Record
  OBVIOUS
<1>2. \A j \in i..Len(s) : s[j] \in Record
  OBVIOUS
<1>3. a \in Seq(Record) /\ Len(a) = i - 1 /\ \A j \in 1..(i - 1) : a[j] = s[j]
  BY <1>0, <1>1, SubSeqProperties
<1>4. b \in Seq(Record) /\ Len(b) = Len(s) - i + 1 /\ \A j \in 1..(Len(s) - i + 1) : b[j] = s[i + j - 1]
  BY <1>0, <1>2, SubSeqProperties
<1>5. << e >> \in Seq(Record) /\ Len(<< e >>) = 1 /\ << e >>[1] = e
  OBVIOUS
<1> DEFINE c == a \o << e >>
<1>6. c \in Seq(Record) /\ Len(c) = i /\ \A j \in 1..i : c[j] = IF j < i THEN s[j] ELSE e
  <2> HIDE DEF a
  <2>1. /\ c \in Seq(Record)
        /\ Len(c) = Len(a) + 1
        /\ \A j \in 1..Len(a) + 1 : c[j] = IF j <= Len(a) THEN a[j] ELSE << e >>[j - Len(a)]
    BY <1>3, <1>5, ConcatProperties
  <2> HIDE DEF c
  <2> QED BY <1>0, <1>3, <1>5, <2>1
<1>7. InsertAt(s, i, e) = c \o b
  BY DEF InsertAt
<1> HIDE DEF a, b, c
<1>8. /\ c \o b \in Seq(Record)
      /\ Len(c \o b) = Len(c) + Len(b)
      /\ \A j \in 1..Len(c) + Len(b) : (c \o b)[j] = IF j <= Len(c) THEN c[j] ELSE b[j - Len(c)]
  BY <1>4, <1>6, ConcatProperties
<1> DEFINE d == c \o b
<1>9. d = c \o b
  OBVIOUS
<1> HIDE DEF d
<1>10. Len(d) = Len(s) + 1
  BY <1>0, <1>4, <1>6, <1>8, <1>9
<1>11. ASSUME NEW j \in 1..Len(s) + 1
       PROVE  d[j] = IF j < i THEN s[j] ELSE IF j = i THEN e ELSE s[j - 1]
  <2>1. CASE j <= i
    BY <1>0, <1>4, <1>6, <1>8, <1>9, <2>1
  <2>2. CASE j > i
    <3>1. d[j] = b[j - i]
      BY <1>0, <1>4, <1>6, <1>8, <1>9, <2>2
    <3>2. j - i \in 1..(Len(s) - i + 1) /\ i + (j - i) - 1 = j - 1
      BY <1>0, <2>2
    <3> QED BY <1>0, <1>4, <2>2, <3>1, <3>2
  <2> QED BY <1>0, <2>1, <2>2
<1> QED BY <1>7, <1>8, <1>9, <1>10, <1>11

LEMMA RemoveAtElements ==
  ASSUME NEW s \in Seq(Record), NEW i \in 1..Len(s)
  PROVE  /\ RemoveAt(s, i) \in Seq(Record)
         /\ Len(RemoveAt(s, i)) = Len(s) - 1
         /\ \A j \in 1..Len(s) - 1 : RemoveAt(s, i)[j] = IF j < i THEN s[j] ELSE s[j + 1]
<1> DEFINE a == SubSeq(s, 1, i - 1)
           b == SubSeq(s, i + 1, Len(s))
<1>0. Len(s) \in Nat /\ i \in Nat
  OBVIOUS
<1>1. \A j \in 1..(i - 1) : s[j] \in Record
  OBVIOUS
<1>2. \A j \in (i + 1)..Len(s) : s[j] \in Record
  OBVIOUS
<1>3. a \in Seq(Record) /\ Len(a) = i - 1 /\ \A j \in 1..(i - 1) : a[j] = s[j]
  BY <1>0, <1>1, SubSeqProperties
<1>4. b \in Seq(Record) /\ Len(b) = Len(s) - i /\ \A j \in 1..(Len(s) - i) : b[j] = s[i + j]
  BY <1>0, <1>2, SubSeqProperties
<1>5. RemoveAt(s, i) = a \o b
  BY DEF RemoveAt
<1> HIDE DEF a, b
<1>6. /\ a \o b \in Seq(Record)
      /\ Len(a \o b) = Len(a) + Len(b)
      /\ \A j \in 1..Len(a) + Len(b) : (a \o b)[j] = IF j <= Len(a) THEN a[j] ELSE b[j - Len(a)]
  BY <1>3, <1>4, ConcatProperties
<1> DEFINE d == a \o b
<1>7. d = a \o b
  OBVIOUS
<1> HIDE DEF d
<1>8. Len(d) = Len(s) - 1
  <2>1. Len(d) = (i - 1) + (Len(s) - i)
    BY <1>3, <1>4, <1>6, <1>7
  <2> QED BY <1>0, <2>1
<1>9. ASSUME NEW j \in 1..Len(s) - 1
      PROVE  d[j] = IF j < i THEN s[j] ELSE s[j + 1]
  <2>1. CASE j < i
    BY <1>0, <1>3, <1>4, <1>6, <1>7, <2>1
  <2>2. CASE j >= i
    <3>1. d[j] = b[j - (i - 1)]
      BY <1>0, <1>3, <1>4, <1>6, <1>7, <2>2
    <3>2. j - (i - 1) \in 1..(Len(s) - i) /\ i + (j - (i - 1)) = j + 1
      BY <1>0, <2>2
    <3> QED BY <1>0, <1>4, <2>2, <3>1, <3>2
  <2> QED BY <1>0, <2>1, <2>2
<1> QED BY <1>5, <1>6, <1>7, <1>8, <1>9

LEMMA BeyondType ==
  ASSUME NEW cat \in Seq(Record), NEW source
  PROVE  Beyond(cat, source) \in SUBSET Ids
<1> SUFFICES ASSUME NEW i \in DOMAIN cat PROVE cat[i].id \in Ids
  BY DEF Beyond
<1>1. cat[i] \in Record
  OBVIOUS
<1> QED BY <1>1 DEF Record

-----------------------------------------------------------------------------
(* What each action does to the file being written. *)

\* Every step but the game's own save is a step of write_bytes or leaves its
\* variables alone.
LEMMA StepIsAtomic ==
  ASSUME TypeOK, HasATarget, [Next]_vars, ~GameSave
  PROVE  [AtomicNext]_write
<1> USE DEF write, AtomicNext
<1>1. CASE Dies           BY <1>1 DEF Dies
<1>2. CASE Queue          BY <1>2 DEF Queue
<1>3. CASE Archive        BY <1>3 DEF Archive
<1>4. CASE Pull           BY <1>4 DEF Pull
<1>5. CASE Restore        BY <1>5 DEF Restore
<1>6. CASE BackupData     BY <1>6 DEF BackupData
<1>7. CASE BackupManifest BY <1>7 DEF BackupManifest
<1>8. CASE RetainData     BY <1>8 DEF RetainData
<1>9. CASE RetainManifest BY <1>9 DEF RetainManifest
<1>10. CASE BackedUp      BY <1>10 DEF BackedUp
<1>11. CASE ReadTarget
  <2> DEFINE c == IF op.target # None THEN op.target ELSE data[op.from]
  <2>1. CASE c = None
    BY <1>11, <2>1 DEF ReadTarget
  <2>2. CASE c # None
    <3>1. op \in Operation
      BY <1>11 DEF ReadTarget, TypeOK
    <3>2. c \in Contents
      <4>1. CASE op.target # None
        BY <3>1, <4>1 DEF Operation
      <4>2. CASE op.target = None
        <5>1. op.from \in Ids
          BY <1>11, <4>2 DEF ReadTarget, HasATarget
        <5> QED BY <2>2, <4>2, <5>1 DEF TypeOK
      <4> QED BY <4>1, <4>2
    <3>3. Begin(c)
      BY <1>11, <2>2 DEF ReadTarget
    <3> QED BY <3>2, <3>3
  <2> QED BY <2>1, <2>2
<1>12. CASE Write         BY <1>12 DEF Write
<1>13. CASE RollBack      BY <1>13 DEF RollBack
<1>14. CASE Finish        BY <1>14 DEF Finish
<1>15. CASE GiveUp        BY <1>15 DEF GiveUp
<1>16. CASE UNCHANGED vars
  BY <1>16 DEF vars
<1> QED
  BY <1>1, <1>2, <1>3, <1>4, <1>5, <1>6, <1>7, <1>8, <1>9, <1>10, <1>11, <1>12,
     <1>13, <1>14, <1>15, <1>16 DEF Next

-----------------------------------------------------------------------------
(* Type correctness. *)

\* The save that is backed up is a complete one.
LEMMA StartType ==
  ASSUME TypeOK, NeverTorn,
         NEW kind \in {"archive", "pull", "restore"}, NEW source \in Sources,
         NEW saving \in Contents, NEW from \in Ids \cup {None},
         NEW target \in Contents \cup {None}, Start(kind, source, saving, from, target)
  PROVE  op' \in Operation
<1>1. file \in Contents
  BY DEF TypeOK, AtomicTypeOK, NeverTorn
<1> QED BY <1>1 DEF Start, Operation

LEMMA TypeStep ==
  ASSUME TypeOK, NeverTorn, HasATarget, HasAnId, [Next]_vars
  PROVE  TypeOK'
<1>1. AtomicTypeOK'
  <2>1. CASE GameSave
    BY <2>1 DEF GameSave, TypeOK, AtomicTypeOK
  <2>2. CASE ~GameSave
    BY <2>2, StepIsAtomic, AtomicTypeStep DEF TypeOK
  <2> QED BY <2>1, <2>2
<1> DEFINE RestOK == /\ data \in [Ids -> Contents \cup {None}]
                     /\ catalog \in Seq(Record)
                     /\ queued \in Ids \cup {None}
                     /\ op \in Operation \cup {None}
                     /\ made \in [Sources -> 0..Retain]
<1>2. RestOK'
  <2> USE DEF backups
  <2>0. RestOK
    BY DEF TypeOK
  <2>00. None \notin Ids \cup Contents \cup Operation
    BY BackupsAssumption
  <2>1. CASE GameSave
    BY <2>0, <2>1 DEF GameSave
  <2>2. CASE Dies
    BY <2>0, <2>2 DEF Dies
  <2>3. CASE Queue
    BY <2>0, <2>3 DEF Queue, Intact
  <2>f. file \in Contents
    BY DEF TypeOK, AtomicTypeOK, NeverTorn
  <2>4. CASE Archive
    BY <2>0, <2>4, StartType DEF Archive
  <2>5. CASE Pull
    BY <2>0, <2>5, <2>f, StartType, BackupsAssumption DEF Pull
  <2>6. CASE Restore
    <3>1. queued \in Ids /\ data[queued] \in Contents
      BY <2>0, <2>6 DEF Restore, Intact
    <3> QED BY <2>0, <2>6, <2>f, <3>1, StartType, BackupsAssumption DEF Restore
  <2>7. CASE BackupData
    BY <2>0, <2>7 DEF BackupData, Fail, Operation
  <2>8. CASE BackupManifest
    <3>1. op \in Operation
      BY <2>0, <2>8 DEF BackupManifest
    <3>2. CASE Fail /\ UNCHANGED << catalog, made >>
      BY <2>0, <2>8, <3>2 DEF BackupManifest, Fail
    <3>3. ASSUME NEW place \in Places,
                 catalog' = InsertAt(catalog, place, [id |-> op.id, source |-> op.source])
          PROVE  catalog' \in Seq(Record)
      <4>1. [id |-> op.id, source |-> op.source] \in Record
        BY <3>1, <2>8 DEF BackupManifest, HasAnId, Record, Operation
      <4>2. place \in 1..Len(catalog) + 1
        BY <2>0 DEF Places
      <4> QED BY <2>0, <3>3, <4>1, <4>2, InsertAtElements
    <3>4. ASSUME catalog' \in Seq(Record)
          PROVE  Beyond(catalog', op.source) \in SUBSET Ids
      BY <3>4, BeyondType
    <3>5. CASE ~(Fail /\ UNCHANGED << catalog, made >>)
      <4>1. catalog' \in Seq(Record)
        BY <2>8, <3>3, <3>5 DEF BackupManifest
      <4>2. op' \in Operation \cup {None}
        BY <2>8, <3>1, <3>4, <3>5, <4>1 DEF BackupManifest, Fail, Operation
      <4>3. made' = [made EXCEPT ![op.source] = IF @ = Retain THEN @ ELSE @ + 1]
        BY <2>8, <3>5 DEF BackupManifest
      <4>4. made' \in [Sources -> 0..Retain]
        <5>1. \A s \in Sources : made[s] \in 0..Retain /\ (made[s] # Retain => made[s] + 1 \in 0..Retain)
          BY <2>0, BackupsAssumption
        <5>2. \A s \in Sources : made'[s] \in 0..Retain
          BY <2>0, <4>3, <5>1
        <5> QED BY <2>0, <4>3, <5>2
      <4> QED BY <2>0, <2>8, <4>1, <4>2, <4>4 DEF BackupManifest
    <3> QED BY <3>2, <3>5
  <2>9. CASE RetainData
    BY <2>0, <2>9 DEF RetainData, Operation
  <2>10. CASE RetainManifest
    <3>1. \A i \in DOMAIN catalog : RemoveAt(catalog, i) \in Seq(Record)
      <4> SUFFICES ASSUME NEW i \in DOMAIN catalog PROVE RemoveAt(catalog, i) \in Seq(Record)
        OBVIOUS
      <4>1. i \in 1..Len(catalog)
        BY <2>0
      <4> QED BY <2>0, <4>1, RemoveAtElements
    <3> QED BY <2>0, <2>10, <3>1 DEF RetainManifest, Operation
  <2>11. CASE BackedUp
    BY <2>0, <2>11 DEF BackedUp, Operation
  <2>12. CASE ReadTarget
    BY <2>0, <2>12 DEF ReadTarget, Fail, Operation
  <2>13. CASE Write
    BY <2>0, <2>13 DEF Write
  <2>14. CASE RollBack
    <3>1. op \in Operation
      BY <2>0, <2>14 DEF RollBack, Written
    <3>2. op.id \in Intact => op.id \in Ids
      BY DEF Intact
    <3>3. "LocalBeforeRestore" \in Sources
      BY BackupsAssumption
    <3>4. CASE Fail
      BY <2>0, <2>14, <3>4 DEF RollBack, Fail
    <3>5. CASE ~Fail
      <4>1. op' = [op EXCEPT !.kind = "rollback", !.pc = "data", !.source = "LocalBeforeRestore",
                             !.saving = file, !.id = None, !.from = op.id, !.target = None]
        BY <2>14, <3>5 DEF RollBack
      <4>2. op.id \in Ids
        BY <2>14, <3>2, <3>5 DEF RollBack
      <4>3. op' \in Operation
        BY <2>f, <3>1, <3>3, <4>1, <4>2 DEF Operation
      <4> QED BY <2>0, <2>14, <4>3 DEF RollBack
    <3> QED BY <3>4, <3>5
  <2>15. CASE Finish
    BY <2>0, <2>15 DEF Finish
  <2>16. CASE GiveUp
    BY <2>0, <2>16 DEF GiveUp, Fail
  <2>17. CASE UNCHANGED vars
    BY <2>0, <2>17 DEF vars
  <2> QED
    BY <2>1, <2>2, <2>3, <2>4, <2>5, <2>6, <2>7, <2>8, <2>9, <2>10, <2>11, <2>12,
       <2>13, <2>14, <2>15, <2>16, <2>17 DEF Next
<1> QED BY <1>1, <1>2 DEF TypeOK

-----------------------------------------------------------------------------
(* The invariant. *)

LEMMA WriteKept ==
  ASSUME BInv, [Next]_vars
  PROVE  IInv'
<1>1. CASE GameSave
  <2>1. wpc = "idle"
    BY <1>1 DEF GameSave, BInv, WorkInv, WriterIsReplacing
  <2>2. PICK c \in Contents : file' = c /\ survivors' = {c}
    BY <1>1 DEF GameSave
  <2>3. UNCHANGED << temp, wpc, bytes, before >> /\ outcome' = "none"
    BY <1>1 DEF GameSave
  <2> QED
    BY <2>1, <2>2, <2>3, TornAssumption
       DEF BInv, IInv, AtomicTypeOK, SyncedBeforeRename, FileSurvives, Untouched, Preparing, Undecided,
           NeverTorn, OkIsDurable, EarlyFailureKeepsFile, OldOrNew
<1>2. CASE ~GameSave
  BY <1>2, StepIsAtomic, AtomicStepIInv DEF BInv, WorkInv
<1> QED BY <1>1, <1>2

LEMMA WorkKept ==
  ASSUME BInv, [Next]_vars, TypeOK'
  PROVE  WorkInv'
<1>t. TypeOK /\ WorkInv
  BY DEF BInv
<1>o. op \in Operation \/ op = None
  BY <1>t DEF TypeOK
<1>n. None \notin Ids \cup Contents \cup Operation
  BY BackupsAssumption
<1> USE <1>t, <1>o, <1>n
    DEF WorkInv, WriterIsReplacing, HasATarget, HasAnId, RestoresTheQueued, PullSavesTheOld,
        RollbackIsOfTheOld, backups, write
<1>1. CASE GameSave
  BY <1>1 DEF GameSave
<1>2. CASE Dies
  BY <1>2 DEF Dies, Crash, Killed, PowerLost
<1>3. CASE Queue
  BY <1>3 DEF Queue
<1>4. CASE Archive
  BY <1>4 DEF Archive, Start
<1>5. CASE Pull
  BY <1>5 DEF Pull, Start
<1>6. CASE Restore
  BY <1>6 DEF Restore, Start, Intact
<1>7. CASE BackupData
  <2>1. PICK id \in Ids \ (Intact \cup Listed \cup {queued, op.from}) :
          \/ /\ data' = [data EXCEPT ![id] = op.saving]
             /\ op' = [op EXCEPT !.pc = "manifest", !.id = id] \/ Fail
          \/ Fail /\ UNCHANGED data
    BY <1>7 DEF BackupData
  <2>2. wpc = "idle" /\ UNCHANGED << write, queued >>
    BY <1>7 DEF BackupData
  <2>3. CASE Fail
    BY <2>2, <2>3 DEF Fail
  \* the new backup is neither the queued one nor the one being restored
  <2>4. CASE ~Fail
    <3>1. op \in Operation /\ op.pc = "data"
      BY <1>7 DEF BackupData
    <3>2. data' = [data EXCEPT ![id] = op.saving] /\ op' = [op EXCEPT !.pc = "manifest", !.id = id]
      BY <2>1, <2>4
    <3>3. data'[id] = op.saving /\ \A i \in Ids \ {id} : data'[i] = data[i]
      BY <3>2 DEF TypeOK
    <3>4. op'.pc = "manifest" /\ op'.id = id /\ op'.kind = op.kind /\ op'.from = op.from
          /\ op'.target = op.target /\ op'.saving = op.saving /\ op'.old = op.old
      BY <3>1, <3>2 DEF Operation
    <3> QED BY <2>1, <2>2, <3>1, <3>3, <3>4
  <2> QED BY <2>3, <2>4
<1>8. CASE BackupManifest
  BY <1>8 DEF BackupManifest, Fail, Operation
<1>9. CASE RetainData
  BY <1>9 DEF RetainData, TypeOK, Operation
<1>10. CASE RetainManifest
  BY <1>10 DEF RetainManifest, Operation
<1>11. CASE BackedUp
  BY <1>11 DEF BackedUp, Operation
<1>12. CASE ReadTarget
  BY <1>12 DEF ReadTarget, Fail, Begin, Operation
<1>13. CASE Write
  BY <1>13 DEF Write, WriteStep, Fails, Create, Fill, Sync, Rename, SyncDirectory
<1>14. CASE RollBack
  BY <1>14 DEF RollBack, Written, Fail, Operation, Intact
<1>15. CASE Finish
  BY <1>15 DEF Finish, Written
<1>16. CASE GiveUp
  BY <1>16 DEF GiveUp, Written, Fail
<1>17. CASE UNCHANGED vars
  BY <1>17 DEF vars
<1> QED
  BY <1>1, <1>2, <1>3, <1>4, <1>5, <1>6, <1>7, <1>8, <1>9, <1>10, <1>11, <1>12,
     <1>13, <1>14, <1>15, <1>16, <1>17 DEF Next

LEMMA BackupsInit == Init => BInv
<1> SUFFICES ASSUME Init PROVE BInv
  OBVIOUS
<1>1. IInv
  BY AtomicInitIInv DEF Init
<1>2. TypeOK
  BY <1>1, BackupsAssumption DEF Init, IInv, TypeOK
<1> QED
  BY <1>1, <1>2
     DEF Init, AtomicInit, BInv, WorkInv, WriterIsReplacing, HasATarget, HasAnId, RestoresTheQueued, PullSavesTheOld,
         RollbackIsOfTheOld

LEMMA BackupsStep == BInv /\ [Next]_vars => BInv'
<1> SUFFICES ASSUME BInv, [Next]_vars PROVE BInv'
  OBVIOUS
<1>1. TypeOK'
  BY TypeStep DEF BInv, IInv, WorkInv
<1> QED BY <1>1, WriteKept, WorkKept DEF BInv

LEMMA BackupsInductive == Spec => []BInv
BY BackupsInit, BackupsStep, PTL DEF Spec

-----------------------------------------------------------------------------
(* Theorems. *)

\* Type correctness of Backups: catalog, retention and operations included.
THEOREM BackupsTypeCorrect == Spec => []TypeOK
<1>1. BInv => TypeOK
  BY DEF BInv
<1> QED BY BackupsInductive, <1>1, PTL

\* Whatever fails while the save is replaced, it is never torn, nor would a
\* power loss find it torn.
THEOREM SavesAreNeverTorn == Spec => []NeverTorn
<1>1. BInv => NeverTorn
  BY DEF BInv, IInv
<1> QED BY BackupsInductive, <1>1, PTL

\* A restore leaves the queue only when the save durably is the queued backup
\* (apply_pending_restore).
THEOREM RestoresAreDurable == Spec => DequeuedIsRestored
<1>1. BInv /\ [Next]_vars =>
        [queued # None /\ queued' = None => data[queued] \in {None, file} /\ survivors = {file}]_vars
  <2> SUFFICES ASSUME BInv, [Next]_vars, queued # None, queued' = None
               PROVE  data[queued] \in {None, file} /\ survivors = {file}
    OBVIOUS
  <2>1. Finish /\ op.kind = "restore"
    <3> USE DEF backups
    <3>1. ~UNCHANGED queued
      OBVIOUS
    <3>2. ~Queue
      BY BackupsAssumption DEF Queue, Intact
    <3> QED
      BY <3>1, <3>2
         DEF Next, vars, GameSave, Dies, Archive, Pull, Restore, BackupData, BackupManifest,
             RetainData, RetainManifest, BackedUp, ReadTarget, Write, RollBack, Finish, GiveUp
  <2>2. file = bytes /\ survivors = {bytes}
    BY <2>1 DEF Finish, BInv, IInv, OkIsDurable
  <2>3. data[queued] \in {None, bytes}
    BY <2>1 DEF Finish, Written, BInv, WorkInv, RestoresTheQueued
  <2> QED BY <2>2, <2>3
<1> QED BY BackupsInductive, <1>1, PTL DEF Spec, DequeuedIsRestored

\* A rollback that ends well has durably put back the save the pull found
\* (pull_one).
THEOREM RollbacksPutBack == Spec => RollbackRestores
<1>1. BInv /\ [Next]_vars =>
        [Finish /\ op.kind = "rollback" => file = op.old /\ survivors = {file}]_vars
  BY DEF Finish, Written, BInv, IInv, OkIsDurable, WorkInv, RollbackIsOfTheOld
<1> QED BY BackupsInductive, <1>1, PTL DEF Spec, RollbackRestores
-----------------------------------------------------------------------------
(* Retention, for any catalog.  Positions move when a manifest is inserted   *)
(* or removed; identifiers and who is ahead of whom do not, so the rank of a *)
(* backup is counted by identifiers.                                         *)

Distinct(cat) == \A i, j \in DOMAIN cat : cat[i].id = cat[j].id => i = j

OfIn(cat, s) == {cat[i].id : i \in {j \in DOMAIN cat : cat[j].source = s}}

\* j is a manifest of the same source s ahead of i.
Earlier(cat, s, j, i) ==
  /\ i \in DOMAIN cat /\ j \in DOMAIN cat
  /\ j < i
  /\ cat[i].source = s /\ cat[j].source = s

\* The backups of the source that are newer than `id`.
Ahead(cat, s, id) ==
  {x \in OfIn(cat, s) : \E i, j \in DOMAIN cat :
     Earlier(cat, s, j, i) /\ cat[i].id = id /\ cat[j].id = x}

\* What retention keeps.
Newest(cat, s) == {id \in OfIn(cat, s) : Cardinality(Ahead(cat, s, id)) < Retain}

\* When retention has something to remove, it keeps no fewer than Retain.
Full(cat, s) == OfIn(cat, s) # Newest(cat, s) => Cardinality(Newest(cat, s)) >= Retain


-----------------------------------------------------------------------------
(* Facts about any catalog without duplicates. *)

LEMMA AheadFinite ==
  ASSUME NEW cat \in Seq(Record), NEW s, NEW S \in SUBSET OfIn(cat, s)
  PROVE  IsFiniteSet(S) /\ Cardinality(S) \in Nat
<1> DEFINE D == {j \in DOMAIN cat : cat[j].source = s}
           f == [j \in D |-> cat[j].id]
<1>1. IsFiniteSet(D)
  <2>1. Len(cat) \in Nat /\ DOMAIN cat = 1..Len(cat)
    OBVIOUS
  <2>2. IsFiniteSet(1..Len(cat))
    BY <2>1, FS_Interval
  <2>3. D \in SUBSET (1..Len(cat))
    BY <2>1
  <2> HIDE DEF D
  <2> QED BY <2>2, <2>3, FS_Subset
<1>2. f \in Surjection(D, OfIn(cat, s))
  BY DEF Surjection, OfIn
<1>3. IsFiniteSet(OfIn(cat, s))
  <2> HIDE DEF D, f
  <2> QED BY <1>1, <1>2, FS_Surjection
<1>4. IsFiniteSet(S)
  BY <1>3, FS_Subset
<1> QED BY <1>4, FS_CardinalityType

\* The rank apply_retention counts is the number of backups ahead.
LEMMA RankIsAhead ==
  ASSUME NEW cat \in Seq(Record), Distinct(cat), NEW j \in DOMAIN cat
  PROVE  Cardinality({k \in 1..(j - 1) : cat[k].source = cat[j].source})
         = Cardinality(Ahead(cat, cat[j].source, cat[j].id))
<1> DEFINE s == cat[j].source
           P == {k \in 1..(j - 1) : cat[k].source = s}
           A == Ahead(cat, s, cat[j].id)
           f == [k \in P |-> cat[k].id]
<1>1. DOMAIN cat = 1..Len(cat) /\ Len(cat) \in Nat
  OBVIOUS
<1>2. IsFiniteSet(P)
  <2>1. IsFiniteSet(1..(j - 1))
    BY <1>1, FS_Interval
  <2>2. P \in SUBSET (1..(j - 1))
    OBVIOUS
  <2> HIDE DEF P
  <2> QED BY <2>1, <2>2, FS_Subset
<1>3. P \subseteq DOMAIN cat
  BY <1>1
<1>4. \A k \in P : cat[k].id \in A
  BY <1>1, <1>3 DEF Ahead, OfIn, Earlier
<1>5. \A x \in A : \E k \in P : cat[k].id = x
  <2> SUFFICES ASSUME NEW x \in A PROVE \E k \in P : cat[k].id = x
    OBVIOUS
  <2>1. PICK a, k \in DOMAIN cat : Earlier(cat, s, k, a) /\ cat[a].id = cat[j].id /\ cat[k].id = x
    BY DEF Ahead
  <2>2. a = j
    BY <2>1 DEF Distinct
  <2> QED BY <1>1, <2>1, <2>2 DEF Earlier
<1>6. \A k, m \in P : cat[k].id = cat[m].id => k = m
  BY <1>3 DEF Distinct
<1>7. f \in Bijection(P, A)
  <2> HIDE DEF P, A
  <2> QED BY <1>4, <1>5, <1>6 DEF Bijection, Injection, Surjection, IsInjective
<1>8. ExistsBijection(P, A)
  BY <1>7 DEF ExistsBijection
<1> HIDE DEF P, A
<1>9. Cardinality(A) = Cardinality(P)
  BY <1>2, <1>8, FS_Bijection
<1> QED BY <1>9 DEF P, A

LEMMA BeyondIsTheRest ==
  ASSUME NEW cat \in Seq(Record), Distinct(cat), NEW s
  PROVE  Beyond(cat, s) = OfIn(cat, s) \ Newest(cat, s)
<1>1. \A j \in DOMAIN cat : cat[j].source = s =>
        Cardinality({k \in 1..(j - 1) : cat[k].source = s}) = Cardinality(Ahead(cat, s, cat[j].id))
  BY RankIsAhead
<1>2. \A id : Cardinality(Ahead(cat, s, id)) \in Nat
  BY AheadFinite DEF Ahead
<1>3. Retain \in Nat
  BY BackupsAssumption
<1>4. ASSUME NEW id \in Beyond(cat, s)
      PROVE  id \in OfIn(cat, s) \ Newest(cat, s)
  <2>1. PICK j \in DOMAIN cat : /\ cat[j].id = id /\ cat[j].source = s
                                /\ Cardinality({k \in 1..(j - 1) : cat[k].source = s}) >= Retain
    BY <1>4 DEF Beyond
  <2> QED BY <1>1, <1>2, <1>3, <2>1 DEF OfIn, Newest
<1>5. ASSUME NEW id \in OfIn(cat, s) \ Newest(cat, s)
      PROVE  id \in Beyond(cat, s)
  <2>1. PICK j \in DOMAIN cat : cat[j].id = id /\ cat[j].source = s
    BY <1>5 DEF OfIn
  <2>2. Cardinality(Ahead(cat, s, id)) >= Retain
    BY <1>2, <1>3, <1>5 DEF Newest
  <2> QED BY <1>1, <2>1, <2>2 DEF Beyond
<1> QED BY <1>4, <1>5

\* "Ahead" is a strict total order on the backups of a source.
LEMMA AheadIsOrder ==
  ASSUME NEW cat \in Seq(Record), Distinct(cat), NEW s
  PROVE  /\ \A a : a \notin Ahead(cat, s, a)
         /\ \A a, b : a \in Ahead(cat, s, b) => Ahead(cat, s, a) \subseteq Ahead(cat, s, b)
<1>0. DOMAIN cat = 1..Len(cat) /\ Len(cat) \in Nat
  OBVIOUS
<1>1. ASSUME NEW a, a \in Ahead(cat, s, a) PROVE FALSE
  <2>1. PICK i, j \in DOMAIN cat : Earlier(cat, s, j, i) /\ cat[i].id = a /\ cat[j].id = a
    BY <1>1 DEF Ahead
  <2> QED BY <1>0, <2>1 DEF Distinct, Earlier
<1>2. ASSUME NEW a, NEW b, a \in Ahead(cat, s, b), NEW x \in Ahead(cat, s, a)
      PROVE  x \in Ahead(cat, s, b)
  <2>1. PICK i, j \in DOMAIN cat : Earlier(cat, s, j, i) /\ cat[i].id = b /\ cat[j].id = a
    BY <1>2 DEF Ahead
  <2>2. PICK k, m \in DOMAIN cat : Earlier(cat, s, m, k) /\ cat[k].id = a /\ cat[m].id = x
    BY <1>2 DEF Ahead
  <2>3. k = j
    BY <2>1, <2>2 DEF Distinct
  <2>4. Earlier(cat, s, m, i)
    BY <1>0, <2>1, <2>2, <2>3 DEF Earlier
  <2> QED BY <1>2, <2>1, <2>2, <2>4 DEF Ahead
<1> QED BY <1>1, <1>2

LEMMA SourcesDisjoint ==
  ASSUME NEW cat \in Seq(Record), Distinct(cat), NEW s, NEW t, s # t
  PROVE  OfIn(cat, s) \cap OfIn(cat, t) = {}
BY DEF OfIn, Distinct

-----------------------------------------------------------------------------
(* A manifest is inserted. *)

\* `new` is `cat` with the manifest `e` somewhere in it.
Joined(cat, e, new) ==
  /\ new \in Seq(Record) /\ Distinct(new)
  /\ \A s : OfIn(new, s) = OfIn(cat, s) \cup (IF s = e.source THEN {e.id} ELSE {})
  /\ \A s : \A a \in OfIn(cat, s) :
       Ahead(new, s, a) \in {Ahead(cat, s, a), Ahead(cat, s, a) \cup {e.id}}
  /\ \A s : s # e.source => \A a \in OfIn(cat, s) : Ahead(new, s, a) = Ahead(cat, s, a)

LEMMA Inserted ==
  ASSUME NEW cat \in Seq(Record), Distinct(cat), NEW place \in 1..Len(cat) + 1, NEW e \in Record,
         \A i \in DOMAIN cat : cat[i].id # e.id
  PROVE  LET new == InsertAt(cat, place, e)
         IN  Joined(cat, e, new) /\ (place = 1 => Ahead(new, e.source, e.id) = {})
<1> DEFINE new == InsertAt(cat, place, e)
<1>new. new = InsertAt(cat, place, e)
  OBVIOUS
<1> HIDE DEF new
<1> SUFFICES Joined(cat, e, new) /\ (place = 1 => Ahead(new, e.source, e.id) = {})
  BY DEF new
<1> DEFINE n == Len(cat)
           shift(j) == IF j < place THEN j ELSE j + 1
<1>0. /\ DOMAIN cat = 1..n /\ n \in Nat /\ place \in Nat
      /\ new \in Seq(Record) /\ Len(new) = n + 1 /\ DOMAIN new = 1..n + 1
      /\ \A j \in 1..n + 1 : new[j] = IF j < place THEN cat[j] ELSE IF j = place THEN e ELSE cat[j - 1]
  <2>1. /\ new \in Seq(Record)
        /\ Len(new) = n + 1
        /\ \A j \in 1..n + 1 : new[j] = IF j < place THEN cat[j] ELSE IF j = place THEN e ELSE cat[j - 1]
    <3>1. /\ InsertAt(cat, place, e) \in Seq(Record)
          /\ Len(InsertAt(cat, place, e)) = n + 1
          /\ \A j \in 1..n + 1 : InsertAt(cat, place, e)[j] =
                                  IF j < place THEN cat[j] ELSE IF j = place THEN e ELSE cat[j - 1]
      BY InsertAtElements
    <3> QED BY <1>new, <3>1
  <2>2. DOMAIN new = 1..n + 1
    BY <2>1
  <2>3. DOMAIN cat = 1..n /\ n \in Nat /\ place \in Nat
    OBVIOUS
  <2> QED BY <2>1, <2>2, <2>3
<1> HIDE DEF n
\* each old manifest has moved to shift(j), and the rest is the new one
<1>1. \A j \in 1..n : shift(j) \in 1..n + 1 /\ shift(j) # place /\ new[shift(j)] = cat[j]
  BY <1>0
<1>2. \A k \in 1..n + 1 : k # place => \E j \in 1..n : k = shift(j)
  <2> SUFFICES ASSUME NEW k \in 1..n + 1, k # place PROVE \E j \in 1..n : k = shift(j)
    OBVIOUS
  <2>1. CASE k < place
    <3>1. k \in 1..n /\ k = shift(k)
      BY <1>0, <2>1
    <3> QED BY <3>1
  <2>2. CASE k > place
    <3>1. k - 1 \in 1..n /\ k = shift(k - 1)
      BY <1>0, <2>2
    <3> QED BY <3>1
  <2> QED BY <1>0, <2>1, <2>2
<1>3. new[place] = e /\ place \in 1..n + 1
  BY <1>0 DEF n
<1>4. \A i, j \in 1..n : (shift(i) < shift(j) <=> i < j) /\ (shift(i) = shift(j) => i = j)
  BY <1>0
<1> HIDE DEF shift
<1>5. Distinct(new)
  <2> SUFFICES ASSUME NEW i \in 1..n + 1, NEW j \in 1..n + 1, new[i].id = new[j].id
               PROVE  i = j
    BY <1>0 DEF Distinct
  <2>1. CASE i # place /\ j # place
    <3>1. PICK p, q \in 1..n : i = shift(p) /\ j = shift(q)
      BY <1>2, <2>1
    <3>2. cat[p].id = cat[q].id
      BY <1>1, <3>1
    <3> QED BY <1>0, <3>1, <3>2 DEF Distinct
  <2>2. CASE i = place /\ j # place
    <3>1. PICK q \in 1..n : j = shift(q)
      BY <1>2, <2>2
    <3> QED BY <1>0, <1>1, <1>3, <2>2, <3>1
  <2>3. CASE i # place /\ j = place
    <3>1. PICK p \in 1..n : i = shift(p)
      BY <1>2, <2>3
    <3> QED BY <1>0, <1>1, <1>3, <2>3, <3>1
  <2> QED BY <2>1, <2>2, <2>3
<1>6. ASSUME NEW s
      PROVE  OfIn(new, s) = OfIn(cat, s) \cup (IF s = e.source THEN {e.id} ELSE {})
  <2>1. \A x : x \in OfIn(new, s) <=> \E k \in 1..n + 1 : new[k].source = s /\ new[k].id = x
    BY <1>0 DEF OfIn
  <2>2. \A x : x \in OfIn(cat, s) <=> \E k \in 1..n : cat[k].source = s /\ cat[k].id = x
    BY <1>0 DEF OfIn
  <2>3. ASSUME NEW x \in OfIn(new, s)
        PROVE  x \in OfIn(cat, s) \cup (IF s = e.source THEN {e.id} ELSE {})
    <3>1. PICK k \in 1..n + 1 : new[k].source = s /\ new[k].id = x
      BY <2>1, <2>3
    <3>2. CASE k = place
      BY <1>3, <3>1, <3>2
    <3>3. CASE k # place
      BY <1>1, <1>2, <2>2, <3>1, <3>3
    <3> QED BY <3>2, <3>3
  <2>4. ASSUME NEW x \in OfIn(cat, s) PROVE x \in OfIn(new, s)
    BY <1>1, <2>1, <2>2, <2>4
  <2>5. s = e.source => e.id \in OfIn(new, s)
    BY <1>3, <2>1
  <2> QED BY <2>3, <2>4, <2>5
<1>7. ASSUME NEW s, NEW a \in OfIn(cat, s)
      PROVE  /\ Ahead(new, s, a) \in {Ahead(cat, s, a), Ahead(cat, s, a) \cup {e.id}}
             /\ s # e.source => Ahead(new, s, a) = Ahead(cat, s, a)
  <2>0. a # e.id
    BY <1>7 DEF OfIn
  <2>1. ASSUME NEW x \in Ahead(cat, s, a) PROVE x \in Ahead(new, s, a)
    <3>1. PICK i, j \in 1..n : Earlier(cat, s, j, i) /\ cat[i].id = a /\ cat[j].id = x
      BY <1>0, <2>1 DEF Ahead
    <3>2. Earlier(new, s, shift(j), shift(i))
      BY <1>0, <1>1, <1>4, <3>1 DEF Earlier
    <3>3. x \in OfIn(new, s)
      BY <1>6, <2>1 DEF Ahead
    <3>4. shift(i) \in DOMAIN new /\ shift(j) \in DOMAIN new /\ new[shift(i)].id = a /\ new[shift(j)].id = x
      BY <1>0, <1>1, <3>1
    <3> QED BY <3>2, <3>3, <3>4 DEF Ahead
  <2>2. ASSUME NEW x \in Ahead(new, s, a), x # e.id PROVE x \in Ahead(cat, s, a)
    <3>1. PICK i, j \in 1..n + 1 : Earlier(new, s, j, i) /\ new[i].id = a /\ new[j].id = x
      BY <1>0, <2>2 DEF Ahead
    <3>2. i # place /\ j # place
      BY <1>3, <2>0, <2>2, <3>1
    <3>3. PICK p, q \in 1..n : i = shift(p) /\ j = shift(q)
      BY <1>2, <3>2
    <3>4. Earlier(cat, s, q, p) /\ cat[p].id = a /\ cat[q].id = x
      BY <1>0, <1>1, <1>4, <3>1, <3>3 DEF Earlier
    <3>5. x \in OfIn(cat, s)
      BY <1>0, <3>4 DEF OfIn, Earlier
    <3> QED BY <1>0, <3>4, <3>5 DEF Ahead
  <2>3. ASSUME s # e.source, e.id \in Ahead(new, s, a) PROVE FALSE
    <3>1. e.id \in OfIn(cat, s)
      BY <1>6, <2>3 DEF Ahead
    <3> QED BY <3>1 DEF OfIn
  <2>4. /\ Ahead(cat, s, a) \subseteq Ahead(new, s, a)
        /\ Ahead(new, s, a) \subseteq Ahead(cat, s, a) \cup {e.id}
        /\ s # e.source => e.id \notin Ahead(new, s, a)
    BY <2>1, <2>2, <2>3
  <2> QED BY <2>4
<1>8. ASSUME place = 1, NEW x \in Ahead(new, e.source, e.id) PROVE FALSE
  <2>1. PICK i, j \in 1..n + 1 : Earlier(new, e.source, j, i) /\ new[i].id = e.id
    BY <1>0, <1>8 DEF Ahead
  <2>2. i = place
    BY <1>0, <1>3, <1>5, <2>1 DEF Distinct
  <2> QED BY <1>0, <1>8, <2>1, <2>2 DEF Earlier
<1>9. \A s : \A a \in OfIn(cat, s) :
        Ahead(new, s, a) \in {Ahead(cat, s, a), Ahead(cat, s, a) \cup {e.id}}
  BY <1>7
<1>10. \A s : s # e.source => \A a \in OfIn(cat, s) : Ahead(new, s, a) = Ahead(cat, s, a)
  BY <1>7
<1> QED BY <1>0, <1>5, <1>6, <1>8, <1>9, <1>10 DEF Joined

-----------------------------------------------------------------------------
(* A manifest is removed. *)

LEMMA Removed ==
  ASSUME NEW cat \in Seq(Record), Distinct(cat), NEW place \in 1..Len(cat),
         NEW new, new = RemoveAt(cat, place)
  PROVE  /\ new \in Seq(Record) /\ Distinct(new)
         /\ \A s : OfIn(new, s) = OfIn(cat, s) \ {cat[place].id}
         /\ \A s : \A a \in OfIn(new, s) : Ahead(new, s, a) = Ahead(cat, s, a) \ {cat[place].id}
<1> DEFINE n == Len(cat)
           v == cat[place].id
           shift(j) == IF j < place THEN j ELSE j + 1
<1>0. /\ DOMAIN cat = 1..n /\ n \in Nat /\ place \in Nat
      /\ new \in Seq(Record) /\ Len(new) = n - 1 /\ DOMAIN new = 1..n - 1
      /\ \A j \in 1..n - 1 : new[j] = IF j < place THEN cat[j] ELSE cat[j + 1]
  <2>1. /\ new \in Seq(Record)
        /\ Len(new) = n - 1
        /\ \A j \in 1..n - 1 : new[j] = IF j < place THEN cat[j] ELSE cat[j + 1]
    BY RemoveAtElements
  <2>2. DOMAIN new = 1..n - 1
    BY <2>1
  <2>3. DOMAIN cat = 1..n /\ n \in Nat /\ place \in Nat
    OBVIOUS
  <2> QED BY <2>1, <2>2, <2>3
<1>p. place \in 1..n
  OBVIOUS
<1> HIDE DEF n
\* each manifest that stays comes from shift(j)
<1>1. \A j \in 1..n - 1 : shift(j) \in 1..n /\ shift(j) # place /\ new[j] = cat[shift(j)]
  BY <1>0
<1>2. \A k \in 1..n : k # place => \E j \in 1..n - 1 : k = shift(j)
  <2> SUFFICES ASSUME NEW k \in 1..n, k # place PROVE \E j \in 1..n - 1 : k = shift(j)
    OBVIOUS
  <2>1. CASE k < place
    <3>1. k \in 1..n - 1 /\ k = shift(k)
      BY <1>0, <1>p, <2>1
    <3> QED BY <3>1
  <2>2. CASE k > place
    <3>1. k - 1 \in 1..n - 1 /\ k = shift(k - 1)
      BY <1>0, <1>p, <2>2
    <3> QED BY <3>1
  <2> QED BY <1>0, <2>1, <2>2
<1>3. \A i, j \in 1..n - 1 : (shift(i) < shift(j) <=> i < j) /\ (shift(i) = shift(j) => i = j)
  BY <1>0
<1> HIDE DEF shift
<1>4. \A k \in 1..n : cat[k].id = v <=> k = place
  BY <1>0, <1>p DEF Distinct
<1>5. Distinct(new)
  <2> SUFFICES ASSUME NEW i \in 1..n - 1, NEW j \in 1..n - 1, new[i].id = new[j].id
               PROVE  i = j
    BY <1>0 DEF Distinct
  <2>1. shift(i) = shift(j)
    BY <1>0, <1>1 DEF Distinct
  <2> QED BY <1>3, <2>1
<1>6. ASSUME NEW s
      PROVE  OfIn(new, s) = OfIn(cat, s) \ {v}
  <2>1. \A x : x \in OfIn(new, s) <=> \E k \in 1..n - 1 : new[k].source = s /\ new[k].id = x
    BY <1>0 DEF OfIn
  <2>2. \A x : x \in OfIn(cat, s) <=> \E k \in 1..n : cat[k].source = s /\ cat[k].id = x
    BY <1>0 DEF OfIn
  <2>3. ASSUME NEW x \in OfIn(new, s) PROVE x \in OfIn(cat, s) \ {v}
    BY <1>1, <1>4, <2>1, <2>2, <2>3
  <2>4. ASSUME NEW x \in OfIn(cat, s) \ {v} PROVE x \in OfIn(new, s)
    <3>1. PICK k \in 1..n : cat[k].source = s /\ cat[k].id = x
      BY <2>2, <2>4
    <3>2. PICK j \in 1..n - 1 : k = shift(j)
      BY <1>2, <1>4, <2>4, <3>1
    <3> QED BY <1>1, <2>1, <3>1, <3>2
  <2> QED BY <2>3, <2>4
<1>7. ASSUME NEW s, NEW a \in OfIn(new, s)
      PROVE  Ahead(new, s, a) = Ahead(cat, s, a) \ {v}
  <2>1. ASSUME NEW x \in Ahead(new, s, a) PROVE x \in Ahead(cat, s, a) \ {v}
    <3>1. PICK i, j \in 1..n - 1 : Earlier(new, s, j, i) /\ new[i].id = a /\ new[j].id = x
      BY <1>0, <2>1 DEF Ahead
    <3>2. Earlier(cat, s, shift(j), shift(i))
      BY <1>0, <1>1, <1>3, <3>1 DEF Earlier
    <3>3. x \in OfIn(cat, s) \ {v}
      BY <1>6, <2>1 DEF Ahead
    <3>4. shift(i) \in DOMAIN cat /\ shift(j) \in DOMAIN cat /\ cat[shift(i)].id = a /\ cat[shift(j)].id = x
      BY <1>0, <1>1, <3>1
    <3> QED BY <3>2, <3>3, <3>4 DEF Ahead
  <2>2. ASSUME NEW x \in Ahead(cat, s, a), x # v PROVE x \in Ahead(new, s, a)
    <3>1. PICK i, j \in 1..n : Earlier(cat, s, j, i) /\ cat[i].id = a /\ cat[j].id = x
      BY <1>0, <2>2 DEF Ahead
    <3>2. i # place /\ j # place
      BY <1>4, <1>6, <1>7, <2>2, <3>1
    <3>3. PICK p, q \in 1..n - 1 : i = shift(p) /\ j = shift(q)
      BY <1>2, <3>2
    <3>4. Earlier(new, s, q, p) /\ new[p].id = a /\ new[q].id = x
      BY <1>0, <1>1, <1>3, <3>1, <3>3 DEF Earlier
    <3>5. x \in OfIn(new, s)
      BY <1>0, <3>4 DEF OfIn, Earlier
    <3> QED BY <1>0, <3>4, <3>5 DEF Ahead
  <2> QED BY <2>1, <2>2
<1> HIDE DEF v
<1>8. /\ \A s : OfIn(new, s) = OfIn(cat, s) \ {v}
      /\ \A s : \A a \in OfIn(new, s) : Ahead(new, s, a) = Ahead(cat, s, a) \ {v}
  BY <1>6, <1>7
<1> QED BY <1>0, <1>5, <1>8 DEF v

-----------------------------------------------------------------------------
(* What retention keeps, when manifests come and go. *)

\* Only ranks that grow: what is kept of the old catalog was kept before, and
\* the new manifest raises the number kept, up to Retain.
LEMMA InsertKeepsNewest ==
  ASSUME NEW cat \in Seq(Record), Distinct(cat), NEW place \in 1..Len(cat) + 1, NEW e \in Record,
         \A i \in DOMAIN cat : cat[i].id # e.id,
         NEW new, new = InsertAt(cat, place, e), NEW s, Full(cat, s)
  PROVE  /\ Newest(new, s) \subseteq Newest(cat, s) \cup (IF s = e.source THEN {e.id} ELSE {})
         /\ Full(new, s)
         /\ s # e.source => Newest(new, s) = Newest(cat, s)
         /\ s = e.source => \/ Cardinality(Newest(new, s)) >= Retain
                            \/ Cardinality(Newest(new, s)) >= Cardinality(Newest(cat, s)) + 1
         /\ place = 1 /\ s = e.source => e.id \in Newest(new, s)
<1> DEFINE N == Newest(cat, s)
           M == Newest(new, s)
           Above(a) == Ahead(cat, s, a)
           Over(a)  == Ahead(new, s, a)
           O == OfIn(cat, s)
           P == OfIn(new, s)
           c(S) == Cardinality(S)
<1>i. /\ new \in Seq(Record) /\ Distinct(new)
      /\ P = O \cup (IF s = e.source THEN {e.id} ELSE {})
      /\ \A a \in O : Over(a) \in {Above(a), Above(a) \cup {e.id}}
      /\ s # e.source => \A a \in O : Over(a) = Above(a)
      /\ place = 1 => Ahead(new, e.source, e.id) = {}
  <2>1. /\ new \in Seq(Record) /\ Distinct(new)
        /\ \A t : OfIn(new, t) = OfIn(cat, t) \cup (IF t = e.source THEN {e.id} ELSE {})
        /\ \A t : \A a \in OfIn(cat, t) :
             Ahead(new, t, a) \in {Ahead(cat, t, a), Ahead(cat, t, a) \cup {e.id}}
        /\ \A t : t # e.source => \A a \in OfIn(cat, t) : Ahead(new, t, a) = Ahead(cat, t, a)
        /\ place = 1 => Ahead(new, e.source, e.id) = {}
    <3>1. Joined(cat, e, new) /\ (place = 1 => Ahead(new, e.source, e.id) = {})
      BY Inserted
    <3> QED BY <3>1 DEF Joined
  <2>2. OfIn(new, s) = OfIn(cat, s) \cup (IF s = e.source THEN {e.id} ELSE {})
    BY <2>1
  <2>3. \A a \in OfIn(cat, s) : Ahead(new, s, a) \in {Ahead(cat, s, a), Ahead(cat, s, a) \cup {e.id}}
    BY <2>1
  <2>4. s # e.source => \A a \in OfIn(cat, s) : Ahead(new, s, a) = Ahead(cat, s, a)
    BY <2>1
  <2> QED BY <2>1, <2>2, <2>3, <2>4
<1>r. Retain \in Nat \ {0}
  BY BackupsAssumption
<1>d. N = {a \in O : c(Above(a)) < Retain} /\ M = {a \in P : c(Over(a)) < Retain}
  BY DEF Newest
<1>s. \A a : Above(a) \subseteq O /\ Over(a) \subseteq P
  BY DEF Ahead
<1>f. /\ \A S : S \subseteq O => IsFiniteSet(S) /\ c(S) \in Nat
      /\ \A S : S \subseteq P => IsFiniteSet(S) /\ c(S) \in Nat
  BY <1>i, AheadFinite
<1>o. e.id \notin O
  BY DEF OfIn
<1>u. Full(cat, s) /\ (Full(new, s) <=> (P # M => c(M) >= Retain)) /\ (O # N => c(N) >= Retain)
  BY DEF Full
<1>m. \A S, T : T \subseteq P /\ S \subseteq T => c(S) <= c(T)
  BY <1>f, FS_Subset
<1>order. /\ \A a : a \notin Over(a)
          /\ \A a, b : a \in Over(b) => Over(a) \subseteq Over(b)
  BY <1>i, AheadIsOrder
<1>z. c({}) = 0
  BY FS_EmptySet
<1>p. place = 1 /\ s = e.source => Over(e.id) = {}
  BY <1>i
<1> HIDE DEF N, M, Above, Over, O, P, c
<1> SUFFICES /\ M \subseteq N \cup (IF s = e.source THEN {e.id} ELSE {})
             /\ Full(new, s)
             /\ s # e.source => M = N
             /\ s = e.source => c(M) >= Retain \/ c(M) >= c(N) + 1
             /\ place = 1 /\ s = e.source => e.id \in M
  BY DEF N, M, c
<1>1. CASE s # e.source
  <2>1. P = O
    BY <1>i, <1>1
  <2>2. M = N
    BY <1>i, <1>d, <1>1, <2>1
  <2> QED BY <1>u, <1>1, <2>1, <2>2
<1>2. CASE s = e.source
  <2>p. P = O \cup {e.id} /\ O \subseteq P
    BY <1>i, <1>2
  \* ranks only grow
  <2>1. \A a \in O : Above(a) \subseteq Over(a)
    BY <1>i
  <2>2. M \subseteq N \cup {e.id}
    <3> SUFFICES ASSUME NEW a \in M, a # e.id PROVE a \in N
      OBVIOUS
    <3>1. a \in O /\ c(Over(a)) < Retain
      BY <1>d, <2>p
    <3>2. c(Above(a)) <= c(Over(a))
      BY <1>m, <1>s, <2>1, <3>1
    <3>3. c(Above(a)) \in Nat /\ c(Over(a)) \in Nat
      BY <1>f, <1>s
    <3> QED BY <1>d, <1>r, <3>1, <3>2, <3>3
  \* the new manifest is itself beyond: nothing else changes
  <2>3. CASE e.id \notin M
    <3>1. c(Over(e.id)) >= Retain
      <4>1. c(Over(e.id)) \in Nat
        BY <1>f, <1>s
      <4> QED BY <1>d, <1>r, <2>p, <2>3, <4>1
    <3>2. ASSUME NEW a \in N PROVE Over(a) = Above(a)
      <4> SUFFICES ASSUME Over(a) = Above(a) \cup {e.id} PROVE FALSE
        BY <1>i, <1>d
      <4>1. e.id \in Over(a)
        OBVIOUS
      <4>2. Over(e.id) \subseteq Above(a)
        BY <1>order, <4>1
      <4>3. Above(a) \subseteq P
        BY <1>s, <2>p
      <4>4. c(Over(e.id)) <= c(Above(a))
        BY <1>m, <4>2, <4>3
      <4>5. c(Over(e.id)) \in Nat /\ c(Above(a)) \in Nat /\ c(Above(a)) < Retain
        BY <1>d, <1>f, <1>s
      <4> QED BY <1>r, <3>1, <4>4, <4>5
    <3>3. N \subseteq M
      BY <1>d, <2>p, <3>2
    <3>4. M = N
      BY <2>2, <2>3, <3>3
    <3>5. c(N) >= Retain
      <4>1. CASE O # N
        BY <1>u, <4>1
      <4>2. CASE O = N
        <5>1. Over(e.id) \subseteq O
          BY <1>order, <1>s, <2>p
        <5>2. c(Over(e.id)) <= c(O)
          BY <1>m, <2>p, <5>1
        <5>3. c(O) \in Nat /\ c(Over(e.id)) \in Nat
          BY <1>f, <1>s
        <5> QED BY <1>r, <3>1, <4>2, <5>2, <5>3
      <4> QED BY <4>1, <4>2
    <3>6. place # 1
      <4> SUFFICES ASSUME place = 1 PROVE FALSE
        OBVIOUS
      <4>1. c(Over(e.id)) = 0
        BY <1>p, <1>z, <1>2
      <4> QED BY <1>r, <3>1, <4>1
    <3> QED BY <1>u, <1>2, <2>2, <3>4, <3>5, <3>6
  \* it is kept, and so is all that was
  <2>4. CASE e.id \in M /\ N \subseteq M
    <3>1. M = N \cup {e.id}
      BY <2>2, <2>4
    <3>2. N \subseteq O
      BY <1>d
    <3>3. IsFiniteSet(N) /\ e.id \notin N /\ c(N) \in Nat
      BY <1>f, <1>o, <3>2
    <3>4. c(M) = c(N) + 1
      BY <3>1, <3>3, FS_AddElement DEF c
    <3>5. P # M => c(M) >= Retain
      <4>1. P # M => O # N
        BY <2>p, <3>1
      <4> QED BY <1>r, <1>u, <3>3, <3>4, <4>1
    <3> QED BY <1>u, <1>2, <2>2, <2>4, <3>3, <3>4, <3>5
  \* one has fallen out: those ahead of it are Retain in number, and kept
  <2>5. CASE e.id \in M /\ ~(N \subseteq M)
    <3>1. PICK x \in N : x \notin M
      BY <2>5
    <3>2. x \in O /\ c(Above(x)) < Retain /\ ~(c(Over(x)) < Retain)
      BY <1>d, <2>p, <3>1
    <3>3. c(Over(x)) \in Nat /\ c(Above(x)) \in Nat
      BY <1>f, <1>s
    <3>4. Over(x) = Above(x) \cup {e.id}
      BY <1>i, <3>2
    <3>5. c(Over(x)) <= c(Above(x)) + 1
      <4>1. IsFiniteSet(Above(x))
        BY <1>f, <1>s
      <4>2. c(Above(x) \cup {e.id}) = IF e.id \in Above(x) THEN c(Above(x)) ELSE c(Above(x)) + 1
        BY <4>1, FS_AddElement DEF c
      <4> QED BY <3>3, <3>4, <4>2
    <3>6. c(Over(x)) = Retain
      BY <1>r, <3>2, <3>3, <3>5
    <3>7. ASSUME NEW y \in Over(x) PROVE y \in M
      <4>1. Over(y) \subseteq Over(x) \ {y}
        BY <1>order
      <4>2. IsFiniteSet(Over(x))
        BY <1>f, <1>s
      <4>3. c(Over(x) \ {y}) = c(Over(x)) - 1
        BY <4>2, FS_RemoveElement DEF c
      <4>4. c(Over(y)) <= c(Over(x) \ {y})
        <5>1. Over(x) \ {y} \subseteq P
          BY <1>s
        <5> QED BY <1>m, <4>1, <5>1
      <4>5. c(Over(y)) \in Nat /\ y \in P
        BY <1>f, <1>s
      <4> QED BY <1>d, <1>r, <3>6, <4>3, <4>4, <4>5
    <3>8. M \subseteq P
      BY <1>d
    <3>9. c(Over(x)) <= c(M)
      BY <1>m, <3>7, <3>8
    <3>10. c(M) \in Nat
      BY <1>f, <3>8
    <3>11. c(M) >= Retain
      BY <1>r, <3>6, <3>9, <3>10
    <3> QED BY <1>u, <1>2, <2>2, <2>5, <3>11
  <2> QED BY <2>3, <2>4, <2>5
<1> QED BY <1>1, <1>2

\* The removal of a manifest beyond Retain changes nothing of what is kept.
LEMMA RemoveKeepsNewest ==
  ASSUME NEW cat \in Seq(Record), Distinct(cat), NEW place \in 1..Len(cat),
         NEW new, new = RemoveAt(cat, place),
         NEW s, Full(cat, s), cat[place].id \notin Newest(cat, s)
  PROVE  Newest(new, s) = Newest(cat, s) /\ Full(new, s)
<1> DEFINE v == cat[place].id
           Above(a) == Ahead(cat, s, a)
           Over(a)  == Ahead(new, s, a)
           O == OfIn(cat, s)
           P == OfIn(new, s)
<1>i. /\ new \in Seq(Record) /\ Distinct(new)
      /\ P = O \ {v}
      /\ \A a \in P : Over(a) = Above(a) \ {v}
  BY Removed
<1>r. Retain \in Nat \ {0}
  BY BackupsAssumption
<1>d. /\ Newest(cat, s) = {a \in O : Cardinality(Above(a)) < Retain}
      /\ Newest(new, s) = {a \in P : Cardinality(Over(a)) < Retain}
  BY DEF Newest
<1>s. \A a : Above(a) \subseteq O /\ Over(a) \subseteq P
  BY DEF Ahead
<1>f. \A S : S \subseteq O => IsFiniteSet(S) /\ Cardinality(S) \in Nat
  BY AheadFinite
<1>m. \A S, T : T \subseteq O /\ S \subseteq T => Cardinality(S) <= Cardinality(T)
  BY <1>f, FS_Subset
<1>order. /\ \A a : a \notin Above(a)
          /\ \A a, b : a \in Above(b) => Above(a) \subseteq Above(b)
  BY AheadIsOrder
<1>v. v \notin Newest(cat, s)
  OBVIOUS
<1> HIDE DEF v, Above, Over, O, P
<1>1. ASSUME NEW a \in Newest(cat, s) PROVE a \in Newest(new, s)
  <2>1. a \in P /\ Over(a) = Above(a) \ {v} /\ Cardinality(Above(a)) < Retain
    BY <1>d, <1>i, <1>v, <1>1
  <2>2. Cardinality(Over(a)) <= Cardinality(Above(a))
    BY <1>m, <1>s, <2>1
  <2>3. Cardinality(Over(a)) \in Nat /\ Cardinality(Above(a)) \in Nat
    <3>1. Above(a) \subseteq O /\ Over(a) \subseteq O
      BY <1>s, <2>1
    <3> QED BY <1>f, <3>1
  <2>4. Cardinality(Over(a)) < Retain
    BY <1>r, <2>1, <2>2, <2>3
  <2> QED BY <1>d, <2>1, <2>4
<1>2. ASSUME NEW a \in Newest(new, s) PROVE a \in Newest(cat, s)
  <2>1. a \in P /\ a \in O /\ Over(a) = Above(a) \ {v} /\ Cardinality(Over(a)) < Retain
    BY <1>d, <1>i, <1>2
  <2>2. v \notin Above(a)
    <3> SUFFICES ASSUME v \in Above(a) PROVE FALSE
      OBVIOUS
    <3>1. v \in O /\ Above(v) \subseteq Over(a)
      BY <1>order, <1>s, <2>1
    <3>2. ~(Cardinality(Above(v)) < Retain)
      BY <1>d, <1>v, <3>1
    <3>3. Over(a) \subseteq O
      BY <1>i, <1>s
    <3>4. Cardinality(Above(v)) <= Cardinality(Over(a))
      BY <1>m, <3>1, <3>3
    <3>5. Cardinality(Above(v)) \in Nat /\ Cardinality(Over(a)) \in Nat
      BY <1>f, <1>s, <3>3
    <3> QED BY <1>r, <2>1, <3>2, <3>4, <3>5
  <2>3. Over(a) = Above(a)
    BY <2>1, <2>2
  <2> QED BY <1>d, <2>1, <2>3
<1>3. Newest(new, s) = Newest(cat, s)
  BY <1>1, <1>2
<1>4. P # Newest(new, s) => O # Newest(cat, s)
  BY <1>i, <1>d, <1>v, <1>3
<1> QED BY <1>3, <1>4 DEF Full, O, P

-----------------------------------------------------------------------------
(* Retention keeps enough (EnoughKept).  Between the removal of a data file  *)
(* and that of its manifest, and for good if one of the two fails, manifests *)
(* without data are listed; all of them rank behind the newest Retain of     *)
(* their source, and stay there.                                             *)

\* What ranks among the newest Retain can be restored.
NewestIntact == \A s \in Sources : Newest(catalog, s) \subseteq Intact

\* As many are kept as were made, up to Retain.
NewestCounted ==
  \A s \in Sources : Full(catalog, s) /\ Cardinality(Newest(catalog, s)) >= made[s]

\* A data file is on disk before its manifest, under an id no manifest has.
DataBeforeManifest == op # None /\ op.pc = "manifest" => op.id \in Intact \ Listed

\* Retention only ever removes backups beyond the newest Retain.
VictimsAreOld ==
  op # None /\ op.pc \in {"retain", "unlist"} =>
    /\ \A s \in Sources : op.victims \cap Newest(catalog, s) = {}
    /\ op.pc = "unlist" => op.victim \in op.victims

RetentionInv ==
  /\ Distinct(catalog)
  /\ NewestIntact
  /\ NewestCounted
  /\ DataBeforeManifest
  /\ VictimsAreOld

-----------------------------------------------------------------------------
(* What is replaced is kept (ReplacedIsKept), unless the clock steps back.   *)

\* From the backup to the rename nobody else writes the save.
SavesTheFile ==
  op # None /\ op.kind # "archive" /\ (op.pc # "replace" \/ Preparing) => op.saving = file

\* Once it is made, the backup of the save stays: retention is not after it.
SafetyCopyStays ==
  op # None /\ op.pc # "data" =>
    /\ data[op.id] = op.saving
    /\ op.pc # "manifest" => op.id \in Listed \ op.victims

SafetyInv == SavesTheFile /\ SafetyCopyStays

-----------------------------------------------------------------------------
\* The catalog and its parts in the two vocabularies.
LEMMA OfIsOfIn ==
  ASSUME TypeOK, Distinct(catalog)
  PROVE  \A s : /\ Of(s) = OfIn(catalog, s)
                /\ OfIn(catalog, s) \subseteq Listed
                /\ Newest(catalog, s) \subseteq OfIn(catalog, s)
BY DEF Of, OfIn, Listed, Newest

LEMMA ListedAreIds == TypeOK => Listed \subseteq Ids
<1> SUFFICES ASSUME TypeOK, NEW i \in DOMAIN catalog PROVE catalog[i].id \in Ids
  BY DEF Listed
<1>1. catalog[i] \in Record
  BY DEF TypeOK
<1> QED BY <1>1 DEF Record

LEMMA RetentionInit == Init => RetentionInv
<1> SUFFICES ASSUME Init PROVE RetentionInv
  OBVIOUS
<1>1. catalog = << >> /\ op = None
  BY DEF Init
<1>2. \A s : OfIn(catalog, s) = {} /\ Newest(catalog, s) = {}
  BY <1>1 DEF OfIn, Newest
<1>3. \A s \in Sources : made[s] = 0
  BY DEF Init
<1>4. Distinct(catalog) /\ DataBeforeManifest /\ VictimsAreOld
  BY <1>1 DEF Distinct, DataBeforeManifest, VictimsAreOld
<1>5. NewestIntact
  BY <1>2 DEF NewestIntact
<1>6. NewestCounted
  <2>1. Cardinality({}) = 0
    BY FS_EmptySet
  <2> QED BY <1>2, <1>3, <2>1 DEF NewestCounted, Full
<1> QED BY <1>4, <1>5, <1>6 DEF RetentionInv

\* A manifest is written.
LEMMA ManifestKeepsRetention ==
  ASSUME BInv, RetentionInv, BackupManifest, TypeOK'
  PROVE  RetentionInv'
<1>t. TypeOK /\ HasAnId
  BY DEF BInv, WorkInv
<1>c. catalog \in Seq(Record) /\ op \in Operation /\ op.pc = "manifest" /\ op.id \in Ids
  BY <1>t DEF TypeOK, HasAnId, BackupManifest
<1>n. None \notin Operation
  BY BackupsAssumption
<1> USE DEF RetentionInv
<1>1. CASE Fail /\ UNCHANGED << catalog, made >>
  BY <1>1, <1>c, <1>n
     DEF BackupManifest, Fail, NewestIntact, Intact, NewestCounted, DataBeforeManifest, VictimsAreOld
<1>2. CASE ~(Fail /\ UNCHANGED << catalog, made >>)
  <2> DEFINE e == [id |-> op.id, source |-> op.source]
  <2>1. PICK place \in Places : catalog' = InsertAt(catalog, place, e)
    BY <1>2 DEF BackupManifest
  <2>2. /\ made' = [made EXCEPT ![op.source] = IF @ = Retain THEN @ ELSE @ + 1]
        /\ UNCHANGED data
        /\ \/ op' = [op EXCEPT !.pc = "retain", !.victims = Beyond(catalog', op.source)]
           \/ Fail
    BY <1>2 DEF BackupManifest
  <2>3. place \in 1..Len(catalog) + 1
    BY <1>c DEF Places
  <2>4. e \in Record /\ e.id = op.id /\ e.source = op.source /\ op.source \in Sources
    BY <1>c DEF Record, Operation
  <2>5. \A i \in DOMAIN catalog : catalog[i].id # e.id
    BY <1>c, <1>n, <2>4 DEF DataBeforeManifest, Listed
  <2> HIDE DEF e
  <2>6. Joined(catalog, e, catalog')
    BY <1>c, <2>1, <2>3, <2>4, <2>5, Inserted
  <2>7. catalog' \in Seq(Record) /\ Distinct(catalog')
    BY <2>6 DEF Joined
  <2>8. ASSUME NEW s \in Sources
        PROVE  /\ Newest(catalog', s) \subseteq Newest(catalog, s) \cup {op.id}
               /\ Full(catalog', s)
               /\ s # op.source => Newest(catalog', s) = Newest(catalog, s)
               /\ s = op.source => \/ Cardinality(Newest(catalog', s)) >= Retain
                                   \/ Cardinality(Newest(catalog', s)) >= Cardinality(Newest(catalog, s)) + 1
    <3>1. Full(catalog, s)
      BY DEF NewestCounted
    <3> QED BY <1>c, <2>1, <2>3, <2>4, <2>5, <3>1, InsertKeepsNewest
  <2>9. Distinct(catalog)'
    BY <2>7
  <2>10. NewestIntact'
    <3>1. op.id \in Intact /\ Intact' = Intact
      BY <1>c, <1>n, <2>2 DEF DataBeforeManifest, Intact
    <3>2. \A s \in Sources : Newest(catalog, s) \subseteq Intact
      BY DEF NewestIntact
    <3>3. \A s \in Sources : Newest(catalog', s) \subseteq Intact
      BY <2>8, <3>1, <3>2
    <3> QED BY <3>1, <3>3 DEF NewestIntact
  <2>11. NewestCounted'
    <3> SUFFICES ASSUME NEW s \in Sources
                 PROVE  Full(catalog', s) /\ Cardinality(Newest(catalog', s)) >= made'[s]
      BY DEF NewestCounted
    <3>1. Cardinality(Newest(catalog, s)) \in Nat /\ Cardinality(Newest(catalog', s)) \in Nat
      BY <1>c, <2>7, AheadFinite DEF Newest
    <3>2. Retain \in Nat /\ made[s] \in 0..Retain /\ made'[s] \in 0..Retain
      BY <1>t, BackupsAssumption DEF TypeOK
    <3>3. Cardinality(Newest(catalog, s)) >= made[s]
      BY DEF NewestCounted
    <3>4. made'[s] = IF s = op.source /\ made[s] # Retain THEN made[s] + 1 ELSE made[s]
      BY <1>t, <2>2, <2>4 DEF TypeOK
    <3>5. CASE s # op.source
      BY <2>8, <3>3, <3>4, <3>5
    <3>6. CASE s = op.source
      BY <2>8, <3>1, <3>2, <3>3, <3>4, <3>6
    <3> QED BY <3>5, <3>6
  <2>12. DataBeforeManifest' /\ VictimsAreOld'
    <3>1. CASE Fail
      BY <1>n, <3>1 DEF Fail, DataBeforeManifest, VictimsAreOld
    <3>2. CASE ~Fail
      <4>1. op'.pc = "retain" /\ op'.victims = Beyond(catalog', op.source)
        BY <1>c, <2>2, <3>2 DEF Operation
      <4>2. Beyond(catalog', op.source) = OfIn(catalog', op.source) \ Newest(catalog', op.source)
        BY <2>7, BeyondIsTheRest
      <4>3. ASSUME NEW s \in Sources PROVE op'.victims \cap Newest(catalog', s) = {}
        <5>1. CASE s = op.source
          BY <4>1, <4>2, <5>1
        <5>2. CASE s # op.source
          <6>1. OfIn(catalog', s) \cap OfIn(catalog', op.source) = {}
            BY <2>7, <5>2, SourcesDisjoint
          <6>2. Newest(catalog', s) \subseteq OfIn(catalog', s)
            BY DEF Newest
          <6> QED BY <4>1, <4>2, <6>1, <6>2
        <5> QED BY <5>1, <5>2
      <4> QED BY <4>1, <4>3 DEF DataBeforeManifest, VictimsAreOld
    <3> QED BY <3>1, <3>2
  <2> QED BY <2>9, <2>10, <2>11, <2>12
<1> QED BY <1>1, <1>2

LEMMA RetentionStep == BInv /\ BInv' /\ RetentionInv /\ [Next]_vars => RetentionInv'
<1> SUFFICES ASSUME BInv, BInv', RetentionInv, [Next]_vars PROVE RetentionInv'
  OBVIOUS
<1>t. TypeOK /\ TypeOK'
  BY DEF BInv
<1>o. op \in Operation \/ op = None
  BY <1>t DEF TypeOK
<1>n. None \notin Ids \cup Contents \cup Operation
  BY BackupsAssumption
\* Most actions leave data, catalog and counts alone, and no operation is at
\* its manifest or past it.
<1>same. ASSUME UNCHANGED << data, catalog, made >>,
                op' # None /\ op'.pc \in {"manifest", "retain", "unlist"} => op' = op
         PROVE  RetentionInv'
  <2>1. Distinct(catalog)'
    BY <1>same DEF RetentionInv
  <2>2. NewestIntact' /\ NewestCounted'
    BY <1>same DEF RetentionInv, NewestIntact, Intact, NewestCounted
  <2>3. DataBeforeManifest' /\ VictimsAreOld'
    BY <1>same DEF RetentionInv, DataBeforeManifest, VictimsAreOld, Intact, Listed
  <2> QED BY <2>1, <2>2, <2>3 DEF RetentionInv
<1>1. CASE GameSave
  BY <1>1, <1>same DEF GameSave, backups
<1>2. CASE Dies
  BY <1>2, <1>same DEF Dies, backups
<1>3. CASE Queue
  BY <1>3, <1>same DEF Queue
<1>4. CASE Archive
  BY <1>4, <1>same DEF Archive, Start, backups
<1>5. CASE Pull
  BY <1>5, <1>same DEF Pull, Start, backups
<1>6. CASE Restore
  BY <1>6, <1>same DEF Restore, Start, backups
<1>7. CASE BackupData
  <2>1. PICK id \in Ids \ (Intact \cup Listed \cup {queued, op.from}) :
          \/ /\ data' = [data EXCEPT ![id] = op.saving]
             /\ op' = [op EXCEPT !.pc = "manifest", !.id = id] \/ Fail
          \/ Fail /\ UNCHANGED data
    BY <1>7 DEF BackupData
  <2>2. op \in Operation /\ op.saving \in Contents /\ UNCHANGED << catalog, made >>
    BY <1>7, <1>o DEF BackupData, Operation
  <2>3. Intact \subseteq Intact'
    BY <1>n, <1>t, <2>1, <2>2 DEF Intact, TypeOK
  <2>4. Distinct(catalog)' /\ NewestIntact' /\ NewestCounted'
    BY <2>2, <2>3 DEF RetentionInv, NewestIntact, NewestCounted
  <2>5. CASE Fail
    BY <2>4, <2>5 DEF Fail, RetentionInv, DataBeforeManifest, VictimsAreOld
  <2>6. CASE ~Fail
    <3>1. op'.pc = "manifest" /\ op'.id = id
      BY <2>1, <2>2, <2>6 DEF Operation
    <3>2. id \in Intact' \ Listed'
      BY <1>n, <1>t, <2>1, <2>2, <2>6 DEF Intact, Listed, TypeOK
    <3> QED BY <2>4, <3>1, <3>2 DEF RetentionInv, DataBeforeManifest, VictimsAreOld
  <2> QED BY <2>5, <2>6
<1>8. CASE BackupManifest
  BY <1>8, <1>t, ManifestKeepsRetention
<1>9. CASE RetainData
  <2>1. PICK id \in op.victims :
          /\ op' = [op EXCEPT !.pc = "unlist", !.victim = id]
          /\ data' \in {data, [data EXCEPT ![id] = None]}
    BY <1>9 DEF RetainData
  <2>2. op \in Operation /\ op.pc = "retain" /\ UNCHANGED << catalog, made >>
    BY <1>9, <1>o DEF RetainData
  <2>3. op'.pc = "unlist" /\ op'.victim = id /\ op'.victims = op.victims
    BY <2>1, <2>2 DEF Operation
  <2>4. Intact \ {id} \subseteq Intact'
    BY <1>t, <2>1 DEF Intact, TypeOK
  <2>5. \A s \in Sources : op.victims \cap Newest(catalog, s) = {}
    BY <1>n, <2>2 DEF RetentionInv, VictimsAreOld
  <2>6. NewestIntact'
    BY <2>1, <2>2, <2>4, <2>5 DEF RetentionInv, NewestIntact
  <2>7. Distinct(catalog)' /\ NewestCounted'
    BY <2>2 DEF RetentionInv, NewestCounted
  <2>8. DataBeforeManifest' /\ VictimsAreOld'
    BY <2>1, <2>2, <2>3, <2>5 DEF DataBeforeManifest, VictimsAreOld
  <2> QED BY <2>6, <2>7, <2>8 DEF RetentionInv
<1>10. CASE RetainManifest
  <2>1. /\ op \in Operation /\ op.pc = "unlist"
        /\ op' = [op EXCEPT !.pc = "retain", !.victims = @ \ {op.victim}, !.victim = None]
        /\ UNCHANGED << data, made >>
    BY <1>10, <1>o DEF RetainManifest
  <2>2. op'.pc = "retain" /\ op'.victims = op.victims \ {op.victim}
    BY <2>1 DEF Operation
  <2>3. (\A s \in Sources : op.victims \cap Newest(catalog, s) = {}) /\ op.victim \in op.victims
    BY <1>n, <2>1 DEF RetentionInv, VictimsAreOld
  <2>4. CASE UNCHANGED catalog
    <3>1. NewestIntact' /\ NewestCounted' /\ Distinct(catalog)'
      BY <2>1, <2>4 DEF RetentionInv, NewestIntact, NewestCounted, Intact
    <3>2. DataBeforeManifest' /\ VictimsAreOld'
      BY <2>2, <2>3, <2>4 DEF DataBeforeManifest, VictimsAreOld
    <3> QED BY <3>1, <3>2 DEF RetentionInv
  <2>5. CASE ~UNCHANGED catalog
    <3>1. PICK i \in DOMAIN catalog : catalog[i].id = op.victim /\ catalog' = RemoveAt(catalog, i)
      BY <1>10, <2>5 DEF RetainManifest
    <3>2. catalog \in Seq(Record) /\ Distinct(catalog) /\ i \in 1..Len(catalog)
      BY <1>t DEF TypeOK, RetentionInv
    <3>3. Distinct(catalog')
      BY <3>1, <3>2, Removed
    <3>4. ASSUME NEW s \in Sources
          PROVE  Newest(catalog', s) = Newest(catalog, s) /\ Full(catalog', s)
      <4>1. Full(catalog, s)
        BY DEF RetentionInv, NewestCounted
      <4>2. catalog[i].id \notin Newest(catalog, s)
        BY <2>3, <3>1
      <4> QED BY <3>1, <3>2, <4>1, <4>2, RemoveKeepsNewest
    <3>5. NewestIntact' /\ NewestCounted'
      BY <2>1, <3>4 DEF RetentionInv, NewestIntact, NewestCounted, Intact
    <3>6. DataBeforeManifest' /\ VictimsAreOld'
      BY <2>2, <2>3, <3>4 DEF DataBeforeManifest, VictimsAreOld
    <3> QED BY <3>3, <3>5, <3>6 DEF RetentionInv
  <2> QED BY <2>4, <2>5
<1>11. CASE BackedUp
  BY <1>11, <1>o, <1>same DEF BackedUp, backups, Operation
<1>12. CASE ReadTarget
  BY <1>12, <1>o, <1>same DEF ReadTarget, Fail, backups, Operation
<1>13. CASE Write
  BY <1>13, <1>same DEF Write, backups
<1>14. CASE RollBack
  <2>1. op \in Operation
    BY <1>14, <1>o DEF RollBack, Written
  <2> QED BY <1>14, <2>1, <1>same DEF RollBack, Fail, backups, Operation
<1>15. CASE Finish
  BY <1>15, <1>same DEF Finish
<1>16. CASE GiveUp
  BY <1>16, <1>same DEF GiveUp, Fail, backups
<1>17. CASE UNCHANGED vars
  BY <1>17, <1>same DEF vars, backups
<1> QED
  BY <1>1, <1>2, <1>3, <1>4, <1>5, <1>6, <1>7, <1>8, <1>9, <1>10, <1>11, <1>12,
     <1>13, <1>14, <1>15, <1>16, <1>17 DEF Next

LEMMA RetentionInductive == Spec => []RetentionInv
<1>1. BInv /\ BInv' /\ RetentionInv /\ [Next]_vars => RetentionInv'
  BY RetentionStep
<1> QED BY RetentionInit, <1>1, BackupsInductive, PTL DEF Spec

\* "At least 12 backups per slot and source are retained" (apply_retention),
\* whatever the clock does, whichever removal fails, and wherever the app is
\* killed between two of them.
THEOREM EnoughIsKept == Spec => []EnoughKept
<1>1. BInv /\ RetentionInv => EnoughKept
  <2> SUFFICES ASSUME BInv, RetentionInv, NEW s \in Sources
               PROVE  Cardinality(Of(s) \cap Intact) >= made[s]
    BY DEF EnoughKept
  <2> DEFINE N == Newest(catalog, s)
             K == Of(s) \cap Intact
  <2>1. TypeOK /\ Distinct(catalog)
    BY DEF BInv, RetentionInv
  <2>2. N \subseteq K
    BY <2>1, OfIsOfIn DEF RetentionInv, NewestIntact
  <2>3. K \subseteq OfIn(catalog, s)
    BY <2>1, OfIsOfIn
  <2>4. catalog \in Seq(Record)
    BY <2>1 DEF TypeOK
  <2> HIDE DEF N, K
  <2>5. IsFiniteSet(K) /\ Cardinality(K) \in Nat
    BY <2>3, <2>4, AheadFinite
  <2>6. Cardinality(N) <= Cardinality(K)
    BY <2>2, <2>5, FS_Subset
  <2>7. Cardinality(N) \in Nat
    BY <2>2, <2>3, <2>4, AheadFinite
  <2>8. Cardinality(N) >= made[s]
    BY DEF N, RetentionInv, NewestCounted
  <2>9. made[s] \in Nat
    <3>1. made[s] \in 0..Retain /\ Retain \in Nat
      BY <2>1, BackupsAssumption DEF TypeOK
    <3> QED BY <3>1
  <2>10. Cardinality(K) >= made[s]
    BY <2>5, <2>6, <2>7, <2>8, <2>9
  <2> QED BY <2>10 DEF K
<1> QED BY <1>1, BackupsInductive, RetentionInductive, PTL

-----------------------------------------------------------------------------
LEMMA SafetyStep ==
  ASSUME ~ClockSteps, BInv, BInv', RetentionInv, SafetyInv, [Next]_vars
  PROVE  SafetyInv'
<1>t. TypeOK /\ TypeOK' /\ WorkInv
  BY DEF BInv
<1>o. op \in Operation \/ op = None
  BY <1>t DEF TypeOK
<1>n. None \notin Ids \cup Contents \cup Operation
  BY BackupsAssumption
\* An operation that has just begun, or none.
<1>new. ASSUME op' = None \/ (op'.pc = "data" /\ op'.saving = file')
        PROVE  SafetyInv'
  BY <1>new DEF SafetyInv, SavesTheFile, SafetyCopyStays
<1>1. CASE GameSave
  BY <1>1, <1>new DEF GameSave
<1>2. CASE Dies
  BY <1>2, <1>new DEF Dies
<1>3. CASE Queue
  BY <1>3, <1>new DEF Queue
<1>4. CASE Archive
  BY <1>4 DEF Archive, Start, SafetyInv, SavesTheFile, SafetyCopyStays
<1>5. CASE Pull
  BY <1>5, <1>new DEF Pull, Start, write
<1>6. CASE Restore
  BY <1>6, <1>new DEF Restore, Start, write
<1>7. CASE BackupData
  <2>1. CASE Fail
    BY <2>1, <1>new DEF Fail
  <2>2. CASE ~Fail
    <3>1. PICK id \in Ids :
            data' = [data EXCEPT ![id] = op.saving] /\ op' = [op EXCEPT !.pc = "manifest", !.id = id]
      BY <1>7, <2>2 DEF BackupData
    <3>2. op \in Operation /\ op # None /\ op.pc = "data" /\ UNCHANGED << file, wpc >>
      BY <1>7, <1>o DEF BackupData, write
    <3>3. op'.pc = "manifest" /\ op'.id = id /\ op'.saving = op.saving /\ op'.kind = op.kind
      BY <3>1, <3>2 DEF Operation
    <3>4. data'[id] = op.saving
      BY <1>t, <3>1 DEF TypeOK
    <3> QED BY <3>2, <3>3, <3>4 DEF SafetyInv, SavesTheFile, SafetyCopyStays
  <2> QED BY <2>1, <2>2
<1>8. CASE BackupManifest
  <2>1. CASE Fail
    BY <2>1, <1>new DEF Fail
  <2>2. CASE ~Fail
    <3> DEFINE e == [id |-> op.id, source |-> op.source]
    <3>0. op \in Operation /\ op # None /\ op.pc = "manifest" /\ op.id \in Ids /\ UNCHANGED << file, wpc, data >>
      BY <1>8, <1>o, <1>t DEF BackupManifest, write, WorkInv, HasAnId
    <3>1. /\ catalog' = InsertAt(catalog, 1, e)
          /\ op' = [op EXCEPT !.pc = "retain", !.victims = Beyond(catalog', op.source)]
      BY <1>8, <2>2 DEF BackupManifest, Places
    <3>2. op'.pc = "retain" /\ op'.id = op.id /\ op'.saving = op.saving /\ op'.kind = op.kind
          /\ op'.victims = Beyond(catalog', op.source)
      BY <3>0, <3>1 DEF Operation
    <3>3. e \in Record /\ e.id = op.id /\ e.source = op.source /\ op.source \in Sources
      BY <3>0 DEF Record, Operation
    <3>4. \A i \in DOMAIN catalog : catalog[i].id # e.id
      BY <3>0, <3>3 DEF RetentionInv, DataBeforeManifest, Listed
    <3>5. catalog \in Seq(Record) /\ Distinct(catalog) /\ 1 \in 1..Len(catalog) + 1 /\ Full(catalog, op.source)
      BY <1>t, <3>3 DEF TypeOK, RetentionInv, NewestCounted
    <3> HIDE DEF e
    \* the backup of now is the newest of its source
    <3>6. op.id \in Newest(catalog', op.source)
      BY <3>1, <3>3, <3>4, <3>5, InsertKeepsNewest
    <3>7. Joined(catalog, e, catalog')
      BY <3>1, <3>3, <3>4, <3>5, Inserted
    <3>8. op.id \notin op'.victims
      BY <3>2, <3>6, <3>7, BeyondIsTheRest DEF Joined
    <3>9. op.id \in Listed'
      <4>1. op.id \in OfIn(catalog', op.source)
        BY <3>6 DEF Newest
      <4> QED BY <4>1 DEF OfIn, Listed
    <3> QED BY <3>0, <3>2, <3>8, <3>9 DEF SafetyInv, SavesTheFile, SafetyCopyStays
  <2> QED BY <2>1, <2>2
<1>9. CASE RetainData
  <2>1. PICK id \in op.victims :
          /\ op' = [op EXCEPT !.pc = "unlist", !.victim = id]
          /\ data' \in {data, [data EXCEPT ![id] = None]}
    BY <1>9 DEF RetainData
  <2>2. op \in Operation /\ op # None /\ op.pc = "retain" /\ UNCHANGED << catalog, file, wpc >>
    BY <1>9, <1>o DEF RetainData, write
  <2>3. op'.pc = "unlist" /\ op'.id = op.id /\ op'.saving = op.saving /\ op'.kind = op.kind
        /\ op'.victims = op.victims
    BY <2>1, <2>2 DEF Operation
  <2>4. op.id # id /\ data[op.id] = op.saving /\ op.id \in Listed
    BY <2>1, <2>2 DEF SafetyInv, SafetyCopyStays
  <2>5. data'[op.id] = op.saving
    <3>1. op.id \in Ids
      BY <1>t, <2>4, ListedAreIds
    <3> QED BY <1>t, <2>1, <2>4, <3>1 DEF TypeOK
  <2> QED BY <2>2, <2>3, <2>4, <2>5 DEF SafetyInv, SavesTheFile, SafetyCopyStays, Listed
<1>10. CASE RetainManifest
  <2>1. /\ op \in Operation /\ op # None /\ op.pc = "unlist" /\ UNCHANGED << data, file, wpc >>
        /\ op' = [op EXCEPT !.pc = "retain", !.victims = @ \ {op.victim}, !.victim = None]
    BY <1>10, <1>o DEF RetainManifest, write
  <2>2. op'.pc = "retain" /\ op'.id = op.id /\ op'.saving = op.saving /\ op'.kind = op.kind
        /\ op'.victims = op.victims \ {op.victim}
    BY <2>1 DEF Operation
  <2>3. op.id \notin op.victims /\ op.victim \in op.victims /\ data[op.id] = op.saving /\ op.id \in Listed
    BY <2>1 DEF SafetyInv, SafetyCopyStays, RetentionInv, VictimsAreOld
  <2>4. op.id \in Listed'
    <3>1. CASE UNCHANGED catalog
      BY <2>3, <3>1 DEF Listed
    <3>2. CASE ~UNCHANGED catalog
      <4>1. PICK i \in DOMAIN catalog : catalog[i].id = op.victim /\ catalog' = RemoveAt(catalog, i)
        BY <1>10, <3>2 DEF RetainManifest
      <4>2. PICK j \in DOMAIN catalog : catalog[j].id = op.id
        BY <2>3 DEF Listed
      <4>3. catalog \in Seq(Record) /\ Distinct(catalog) /\ i \in 1..Len(catalog) /\ j \in 1..Len(catalog)
        BY <1>t DEF TypeOK, RetentionInv
      <4>4. OfIn(catalog', catalog[j].source) = OfIn(catalog, catalog[j].source) \ {op.victim}
        BY <4>1, <4>3, Removed
      <4>5. op.id \in OfIn(catalog', catalog[j].source)
        BY <2>3, <4>2, <4>4 DEF OfIn
      <4> QED BY <4>5 DEF OfIn, Listed
    <3> QED BY <3>1, <3>2
  <2> QED BY <2>1, <2>2, <2>3, <2>4 DEF SafetyInv, SavesTheFile, SafetyCopyStays
<1>11. CASE BackedUp
  BY <1>11, <1>o DEF BackedUp, SafetyInv, SavesTheFile, SafetyCopyStays, Operation, backups, write, Listed
<1>12. CASE ReadTarget
  BY <1>12, <1>o
     DEF ReadTarget, Fail, Begin, SafetyInv, SavesTheFile, SafetyCopyStays, Operation, backups, write, Listed
<1>13. CASE Write
  <2>1. op # None /\ op.pc = "replace" /\ UNCHANGED << op, data, catalog >> /\ WriteStep
    BY <1>13 DEF Write, backups
  \* up to the rename the save is what it was
  <2>2. Preparing' => Preparing /\ file' = file
    BY <2>1 DEF WriteStep, Preparing, Fails, Create, Fill, Sync, Rename, SyncDirectory
  <2> QED BY <2>1, <2>2 DEF SafetyInv, SavesTheFile, SafetyCopyStays, Listed
<1>14. CASE RollBack
  <2>1. op \in Operation
    BY <1>14, <1>o DEF RollBack, Written
  <2>2. file' = file
    BY <1>14 DEF RollBack, write
  <2>3. op' = None \/ (op'.pc = "data" /\ op'.saving = file)
    BY <1>14, <2>1 DEF RollBack, Fail, Operation
  <2> QED BY <1>new, <2>2, <2>3
<1>15. CASE Finish
  BY <1>15, <1>new DEF Finish
<1>16. CASE GiveUp
  BY <1>16, <1>new DEF GiveUp, Fail
<1>17. CASE UNCHANGED vars
  BY <1>17 DEF vars, write, backups, SafetyInv, SavesTheFile, SafetyCopyStays, Listed, Preparing
<1> QED
  BY <1>1, <1>2, <1>3, <1>4, <1>5, <1>6, <1>7, <1>8, <1>9, <1>10, <1>11, <1>12,
     <1>13, <1>14, <1>15, <1>16, <1>17 DEF Next

\* "Downloads never overwrite a live save directly": what the rename of a
\* pull, a restore or a rollback replaces is in a listed, intact backup, even
\* after retention has run, if the clock is never set back.
THEOREM ReplacedSavesAreKept == ~ClockSteps => (Spec => ReplacedIsKept)
<1> SUFFICES ASSUME ~ClockSteps PROVE Spec => ReplacedIsKept
  OBVIOUS
<1>1. Init => SafetyInv
  BY DEF Init, SafetyInv, SavesTheFile, SafetyCopyStays
<1>2. BInv /\ BInv' /\ RetentionInv /\ SafetyInv /\ [Next]_vars => SafetyInv'
  BY SafetyStep
<1>3. BInv /\ SafetyInv /\ [Next]_vars =>
        [wpc = "rename" /\ wpc' = "sync_dir" => file \in Kept]_vars
  <2> SUFFICES ASSUME BInv, SafetyInv, wpc = "rename" PROVE file \in Kept
    OBVIOUS
  <2>1. op # None /\ op.pc = "replace" /\ op.kind # "archive"
    BY DEF BInv, WorkInv, WriterIsReplacing, HasATarget
  <2>2. op.saving = file /\ data[op.id] = op.saving /\ op.id \in Listed
    BY <2>1 DEF SafetyInv, SavesTheFile, SafetyCopyStays, Preparing
  <2>3. op.saving \in Contents /\ op.id \in Ids
    <3>1. op \in Operation /\ Listed \subseteq Ids
      BY <2>1, ListedAreIds DEF BInv, TypeOK
    <3> QED BY <2>2, <3>1 DEF Operation
  <2>4. op.id \in Intact
    BY <2>2, <2>3, BackupsAssumption DEF Intact
  <2> QED BY <2>2, <2>4 DEF Kept
<1> QED BY <1>1, <1>2, <1>3, BackupsInductive, RetentionInductive, PTL DEF Spec, ReplacedIsKept
=============================================================================
