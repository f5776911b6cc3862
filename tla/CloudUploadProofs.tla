-------------------------- MODULE CloudUploadProofs --------------------------
(***************************************************************************)
(* upload_verified keeps its contract, for any names, priorities, contents *)
(* and blocks, and with the device's clock right or wrong.                 *)
(*                                                                         *)
(* The invariant says at each program point what is known of the transfer, *)
(* of the batch and of Steam: only a transfer of every block is committed, *)
(* nothing is committed before that, and an upload that is being verified  *)
(* was.                                                                    *)
(*                                                                         *)
(* The last theorem ties it to SlotSync, where a slot has one file.        *)
(***************************************************************************)
EXTENDS CloudUpload, TLAPS

\* A transfer that is still good at the commit has put every block.
WholeAtCommit ==
  /\ pc \in {"begin_batch", "begin_file", "blocks"} => transferred
  /\ pc = "commit" /\ transferred => put = Blocks

\* Steam's answer is not yet there before the commit, and is after it.
KnownCommit ==
  /\ pc \in {"begin_batch", "begin_file", "blocks", "commit"} => ~committed /\ ~ok
  /\ ok => committed
  /\ pc = "verify" => ok

\* The batch is open from its begin to its completion.
BatchOpen ==
  /\ batch = "open" <=> pc \in {"begin_file", "blocks", "commit", "complete"}
  /\ batch = "ok" => ok

IInv == TypeOK /\ WholeAtCommit /\ KnownCommit /\ BatchOpen

LEMMA InitIInv == Init => IInv
<1> SUFFICES ASSUME Init PROVE IInv
  OBVIOUS
<1>1. steam \in [Names -> File \cup {None}]
  BY DEF Init, File
<1>2. TypeOK
  BY <1>1 DEF Init, TypeOK
<1> QED BY <1>2 DEF Init, IInv, WholeAtCommit, KnownCommit, BatchOpen

\* Only a commit and another computer change what Steam holds.
LEMMA SteamIsTyped ==
  ASSUME TypeOK, WholeAtCommit, PeerWrites \/ Commit
  PROVE  steam' \in [Names -> File \cup {None}]
<1>1. CASE PeerWrites
  <2>1. PICK n \in Names, f \in [content : Contents, time : {now}] \cup {None} :
          steam' = [steam EXCEPT ![n] = f]
    BY <1>1 DEF PeerWrites
  <2>2. f \in File \cup {None}
    BY <2>1 DEF TypeOK, File
  <2> QED BY <2>1, <2>2 DEF TypeOK
<1>2. CASE Commit
  <2>1. CASE UNCHANGED steam
    BY <2>1 DEF TypeOK
  <2>2. CASE ~UNCHANGED steam
    <3>1. put = Blocks
      BY <1>2, <2>2 DEF Commit, WholeAtCommit
    <3>2. [content |-> content, time |-> stamp] \in File
      BY DEF TypeOK, File
    <3>3. steam' = [steam EXCEPT ![name] = [content |-> content, time |-> stamp]]
      BY <1>2, <2>2, <3>1 DEF Commit
    <3> QED BY <3>2, <3>3 DEF TypeOK
  <2> QED BY <2>1, <2>2
<1> QED BY <1>1, <1>2

LEMMA StampIsTyped == ASSUME TypeOK PROVE Stamps \subseteq Nat
BY DEF TypeOK, Stamps

LEMMA StepIInv == IInv /\ [Next]_vars => IInv'
<1> SUFFICES ASSUME IInv, [Next]_vars PROVE IInv'
  OBVIOUS
<1> USE DEF IInv, TypeOK, WholeAtCommit, KnownCommit, BatchOpen, upload, Return
<1>1. CASE PeerWrites
  <2>1. steam' \in [Names -> File \cup {None}]
    BY <1>1, SteamIsTyped
  <2> QED BY <1>1, <2>1 DEF PeerWrites
<1>2. CASE Begin
  <2>1. /\ pc = "idle" /\ pc' = "begin_batch"
        /\ name' \in Names /\ content' \in Contents
        /\ stamp' = 0 /\ put' = {} /\ batch' = "none" /\ result' = "none"
        /\ now' = now + 1 /\ UNCHANGED steam
    BY <1>2 DEF Begin, Shown, Present
  <2>2. transferred' /\ ~ok' /\ ~committed' /\ ~touched'
    BY <1>2 DEF Begin
  <2>3. << transferred', ok', committed', touched' >> \in BOOLEAN \X BOOLEAN \X BOOLEAN \X BOOLEAN
    BY <1>2 DEF Begin
  <2>4. TypeOK'
    BY <2>1, <2>3
  <2>5. WholeAtCommit' /\ KnownCommit' /\ BatchOpen'
    BY <2>1, <2>2
  <2> QED BY <2>4, <2>5
<1>3. CASE BeginBatch
  BY <1>3 DEF BeginBatch
<1>4. CASE BeginFile
  <2>1. /\ pc = "begin_file" /\ pc' \in {"blocks", "complete"} /\ stamp' \in Nat
        /\ UNCHANGED << steam, name, content, put, transferred, ok, batch, result,
                        now, committed, touched >>
    BY <1>4, StampIsTyped DEF BeginFile
  <2>2. TypeOK'
    BY <2>1
  <2>3. WholeAtCommit'
    BY <2>1
  <2>4. KnownCommit'
    BY <2>1
  <2>5. BatchOpen'
    BY <2>1
  <2> QED BY <2>2, <2>3, <2>4, <2>5
<1>5. CASE PutBlock
  <2>1. TypeOK'
    BY <1>5 DEF PutBlock
  <2>2. WholeAtCommit'
    <3>1. CASE pc' = "blocks" /\ UNCHANGED transferred
      BY <1>5, <3>1 DEF PutBlock
    <3>2. CASE pc' = "commit" /\ transferred' = FALSE
      BY <3>2
    <3>3. CASE pc' = "complete"
      BY <3>3
    <3> QED BY <1>5, <3>1, <3>2, <3>3 DEF PutBlock
  <2>3. KnownCommit'
    BY <1>5 DEF PutBlock
  <2>4. BatchOpen'
    BY <1>5 DEF PutBlock
  <2> QED BY <2>1, <2>2, <2>3, <2>4
<1>6. CASE AllBlocksPut
  BY <1>6 DEF AllBlocksPut
\* what is committed is whole, so Steam shows no torn file
<1>7. CASE Commit
  <2>1. steam' \in [Names -> File \cup {None}]
    BY <1>7, SteamIsTyped
  <2>2. /\ ok' \in BOOLEAN
        /\ committed' \in BOOLEAN
        /\ ok' => committed'
    <3>1. CASE committed' = TRUE /\ ok' \in BOOLEAN
      BY <3>1
    <3>2. CASE UNCHANGED << committed, ok >>
      BY <3>2
    <3> QED BY <1>7, <3>1, <3>2 DEF Commit
  <2>3. TypeOK'
    BY <1>7, <2>1, <2>2 DEF Commit
  <2>4. /\ pc = "commit" /\ pc' = "complete"
        /\ batch' = batch
    BY <1>7 DEF Commit
  <2>5. WholeAtCommit' /\ KnownCommit' /\ BatchOpen'
    BY <2>2, <2>4
  <2> QED BY <2>3, <2>5
<1>8. CASE Complete
  BY <1>8 DEF Complete
<1>9. CASE Verify
  BY <1>9 DEF Verify
<1>10. CASE UNCHANGED vars
  BY <1>10 DEF vars
<1> QED BY <1>1, <1>2, <1>3, <1>4, <1>5, <1>6, <1>7, <1>8, <1>9, <1>10 DEF Next

LEMMA Inductive == Spec => []IInv
BY InitIInv, StepIInv, PTL DEF Spec

-----------------------------------------------------------------------------
(* The contract. *)

LEMMA InitContract == Init => Contract!Init
BY CloudAssumption DEF Init, Contract!Init

LEMMA StepContract == IInv /\ [Next]_vars => [Contract!Next]_Contract!vars
<1> SUFFICES ASSUME IInv, [Next]_vars PROVE [Contract!Next]_Contract!vars
  OBVIOUS
<1> DEFINE shownOf(s) == [n \in Names |-> IF s[n] = None THEN None ELSE s[n].content]
           jobOf(r) == [name |-> name, content |-> content, replaced |-> r]
<1> USE DEF Contract!Next, Contract!vars
\* Files are never None, and neither is a job.
<1>1. \A c \in Contents, t \in Nat : [content |-> c, time |-> t] # None
  BY CloudAssumption
<1>2. pc # "idle" => jobOf(committed) # None
  BY CloudAssumption DEF IInv, TypeOK
<1>3. CASE PeerWrites
  <2>1. PICK n \in Names, f \in [content : Contents, time : {now}] \cup {None} :
          steam' = [steam EXCEPT ![n] = f]
    BY <1>3 DEF PeerWrites
  <2> DEFINE c == IF f = None THEN None ELSE f.content
  <2>2. c \in Contents \cup {None}
    OBVIOUS
  <2>3. shownOf(steam') = [shownOf(steam) EXCEPT ![n] = c]
    BY <2>1 DEF IInv, TypeOK
  <2>4. UNCHANGED << pc, name, content, committed, result >>
    BY <1>3 DEF PeerWrites, upload
  <2> QED BY <2>2, <2>3, <2>4 DEF Contract!Peer
<1>4. CASE Begin
  BY <1>4 DEF Begin, Contract!Begin, Shown, Present, IInv, TypeOK
<1>5. CASE BeginBatch
  BY <1>2, <1>5 DEF BeginBatch, Return, Contract!Fail
<1>6. CASE BeginFile \/ PutBlock \/ AllBlocksPut
  BY <1>6 DEF BeginFile, PutBlock, AllBlocksPut, upload
<1>7. CASE Commit
  <2>1. CASE UNCHANGED << steam, committed >>
    BY <1>7, <2>1 DEF Commit
  <2>2. CASE ~UNCHANGED << steam, committed >>
    <3>1. /\ pc = "commit" /\ pc' = "complete"
          /\ steam' = [steam EXCEPT ![name] = [content |-> content, time |-> stamp]]
          /\ committed' = TRUE
          /\ UNCHANGED << name, content, result >>
      BY <1>7, <2>2 DEF Commit, IInv, WholeAtCommit
    <3>2. shownOf(steam') = [shownOf(steam) EXCEPT ![name] = content]
      BY <1>1, <3>1 DEF IInv, TypeOK
    <3>3. ~committed
      BY <3>1 DEF IInv, KnownCommit
    <3> DEFINE job == IF pc = "idle" THEN None ELSE jobOf(committed)
    <3>4. job = jobOf(committed) /\ job # None /\ ~job.replaced
      BY <1>2, <3>1, <3>3
    <3>5. job' = [name |-> name, content |-> content, replaced |-> TRUE]
      BY <3>1
    <3>6. job' = [name |-> job.name, content |-> job.content, replaced |-> TRUE]
      BY <3>4, <3>5
    <3>7. shownOf(steam') = [shownOf(steam) EXCEPT ![job.name] = job.content]
      BY <3>2, <3>4
    <3> HIDE DEF jobOf
    <3>8. Contract!Replace
      BY <3>1, <3>4, <3>6, <3>7 DEF Contract!Replace, jobOf
    <3> QED BY <3>8
  <2> QED BY <2>1, <2>2
<1>8. CASE Complete
  BY <1>2, <1>8 DEF Complete, Return, Contract!Fail
<1>9. CASE Verify
  <2>1. CASE result' = "failed"
    BY <1>2, <1>9, <2>1 DEF Verify, Return, upload, Contract!Fail
  <2>2. CASE result' # "failed"
    <3>1. /\ pc = "verify" /\ pc' = "idle" /\ result' = "ok"
          /\ name \in Present /\ steam[name].content = content
          /\ UNCHANGED << steam, name, content, committed >>
      BY <1>9, <2>2 DEF Verify, Return, upload, Shown
    <3>2. committed
      BY <3>1 DEF IInv, KnownCommit
    <3>3. shownOf(steam)[name] = content
      BY <3>1 DEF Present
    <3> QED BY <1>2, <3>1, <3>2, <3>3 DEF Contract!Succeed
  <2> QED BY <2>1, <2>2
<1>10. CASE UNCHANGED vars
  BY <1>10 DEF vars, upload
<1> QED BY <1>3, <1>4, <1>5, <1>6, <1>7, <1>8, <1>9, <1>10 DEF Next

-----------------------------------------------------------------------------
(* The uploaded file is the one the listing shows, if the clock is right.  *)
(* Until the commit it ranks with the best and has the latest time stamp;  *)
(* after it, nothing else does.                                            *)

Ranked ==
  pc # "idle" /\ ~touched => \A m \in Present : Priority[m] <= Priority[name]

Ahead ==
  /\ stamp <= now
  /\ \A m \in Present : steam[m].time <= now
  /\ pc \in {"begin_batch", "begin_file", "blocks", "commit"} /\ ~touched
       => \A m \in Present : steam[m].time < now
  /\ pc \in {"blocks", "commit"} /\ ~touched => stamp = now

Latest ==
  pc \in {"complete", "verify"} /\ committed /\ ~touched
    => /\ name \in Present
       /\ \A m \in Present \ {name} : steam[m].time < steam[name].time

SInv == Ranked /\ Ahead /\ Latest

LEMMA InitSInv == Init => SInv
BY CloudAssumption DEF Init, SInv, Ranked, Ahead, Latest, Present

LEMMA StepSInv == ClockRight /\ IInv /\ SInv /\ [Next]_vars => SInv'
<1> SUFFICES ASSUME ClockRight, IInv, SInv, [Next]_vars PROVE SInv'
  OBVIOUS
<1> USE CloudAssumption DEF SInv, Ranked, Ahead, Latest, Present
<1>1. TypeOK /\ KnownCommit /\ WholeAtCommit
  BY DEF IInv
<1>2. CASE PeerWrites
  <2>1. PICK n \in Names, f \in [content : Contents, time : {now}] \cup {None} :
          steam' = [steam EXCEPT ![n] = f]
    BY <1>2 DEF PeerWrites
  <2>2. now' = now + 1 /\ touched' /\ stamp' = stamp
    BY <1>2 DEF PeerWrites, upload
  <2>3. \A m \in Names : steam'[m] # None => steam'[m].time <= now
    BY <1>1, <2>1 DEF TypeOK, File
  <2>4. stamp <= now /\ stamp \in Nat /\ now \in Nat
    BY <1>1 DEF TypeOK
  <2>5. \A m \in Present' : steam'[m].time \in Nat
    <3>1. steam' \in [Names -> File \cup {None}]
      BY <1>1, <1>2, SteamIsTyped
    <3> QED BY <3>1 DEF File
  <2>6. \A m \in Present' : steam'[m].time <= now'
    BY <2>2, <2>3, <2>4, <2>5
  <2>7. Ahead'
    BY <2>2, <2>4, <2>6
  <2>8. Ranked' /\ Latest'
    BY <2>2
  <2> QED BY <2>7, <2>8
<1>3. CASE Begin
  <2>1. /\ pc' = "begin_batch" /\ now' = now + 1 /\ stamp' = 0 /\ UNCHANGED steam
        /\ Present = {} \/ name' \in Shown
    BY <1>3 DEF Begin
  <2>2. \A m \in Present : Priority[m] <= Priority[name']
    BY <1>1, <2>1 DEF Shown, Better, TypeOK
  <2>3. Ranked'
    BY <2>1, <2>2
  <2>4. Ahead' /\ Latest'
    BY <1>1, <2>1 DEF TypeOK, File
  <2> QED BY <2>3, <2>4
<1>4. CASE BeginBatch
  BY <1>4 DEF BeginBatch, Return
<1>5. CASE BeginFile
  <2>1. stamp' = now
    BY <1>5 DEF BeginFile, Stamps
  <2> QED BY <1>1, <1>5, <2>1 DEF BeginFile, KnownCommit, TypeOK
<1>6. CASE PutBlock
  BY <1>1, <1>6 DEF PutBlock, KnownCommit
<1>7. CASE AllBlocksPut
  BY <1>7 DEF AllBlocksPut, upload
<1>8. CASE Commit
  <2>1. CASE UNCHANGED << steam, committed >>
    BY <1>1, <1>8, <2>1 DEF Commit, KnownCommit
  <2>2. CASE ~UNCHANGED << steam, committed >>
    <3>1. /\ pc = "commit" /\ pc' = "complete"
          /\ steam' = [steam EXCEPT ![name] = [content |-> content, time |-> stamp]]
          /\ UNCHANGED << name, stamp, now, touched >>
      BY <1>1, <1>8, <2>2 DEF Commit, WholeAtCommit
    <3>2. /\ steam'[name] = [content |-> content, time |-> stamp]
          /\ \A m \in Names \ {name} : steam'[m] = steam[m]
      BY <1>1, <3>1 DEF TypeOK
    <3>3. Present' = Present \cup {name} /\ steam'[name].time = stamp
      BY <1>1, <3>2 DEF TypeOK
    <3>4. Ranked'
      BY <1>1, <3>1, <3>3 DEF TypeOK
    <3>5. Ahead'
      BY <1>1, <3>1, <3>2, <3>3 DEF TypeOK
    <3>6. Latest'
      BY <1>1, <3>1, <3>2, <3>3 DEF TypeOK
    <3> QED BY <3>4, <3>5, <3>6
  <2> QED BY <2>1, <2>2
<1>9. CASE Complete
  BY <1>9 DEF Complete, Return
<1>10. CASE Verify
  BY <1>10 DEF Verify, Return, upload
<1>11. CASE UNCHANGED vars
  BY <1>11 DEF vars, upload
<1> QED BY <1>2, <1>3, <1>4, <1>5, <1>6, <1>7, <1>8, <1>9, <1>10, <1>11 DEF Next

LEMMA SInvShows == IInv /\ SInv => CommittedIsShown
<1> SUFFICES ASSUME IInv, SInv, pc = "verify", ~touched PROVE Shown = {name}
  BY DEF CommittedIsShown
<1>1. /\ name \in Present
      /\ \A m \in Present \ {name} : steam[m].time < steam[name].time
      /\ \A m \in Present : Priority[m] <= Priority[name]
  BY DEF IInv, KnownCommit, SInv, Ranked, Latest
<1>2. \A m \in Present : Priority[m] \in Nat /\ steam[m].time \in Nat
  BY CloudAssumption DEF IInv, TypeOK, Present, File
<1>3. name \in Shown
  BY <1>1, <1>2 DEF Shown, Better
<1>4. \A m \in Present \ {name} : Better(name, m)
  BY <1>1, <1>2 DEF Better
<1> QED BY <1>1, <1>3, <1>4 DEF Shown

-----------------------------------------------------------------------------
(* Theorems. *)

\* Type correctness: in particular Steam never shows a torn file.
THEOREM CloudTypeCorrect == Spec => []TypeOK
<1>1. IInv => TypeOK
  BY DEF IInv
<1> QED BY Inductive, <1>1, PTL

\* Every batch that was begun is completed, with the truth.
THEOREM BatchesAreCompleted == Spec => []BatchIsToldTheTruth
<1>1. IInv => BatchIsToldTheTruth
  BY DEF IInv, KnownCommit, BatchOpen, BatchIsToldTheTruth
<1> QED BY Inductive, <1>1, PTL

\* The upload implements UploadContract.
THEOREM UploadImplementsContract == Spec => UploadIsAtomic
<1> QED BY Inductive, InitContract, StepContract, PTL DEF Spec, UploadIsAtomic, Contract!Spec

\* With the device's clock right, the verification finds the file it looks
\* for unless another computer wrote meanwhile.
THEOREM UploadsAreShown == ClockRight => (Spec => []CommittedIsShown)
<1> SUFFICES ASSUME ClockRight PROVE Spec => []CommittedIsShown
  OBVIOUS
<1>1. SInv /\ IInv /\ [Next]_vars => SInv'
  BY StepSInv
<1> QED BY InitSInv, <1>1, SInvShows, Inductive, PTL DEF Spec

-----------------------------------------------------------------------------
(***************************************************************************)
(* The upload as SlotSync has it.  There a slot has one file on Steam, and *)
(* PushUpload replaces it; here it is whatever the listing makes of the    *)
(* slot's files, and only one of those is uploaded.                        *)
(***************************************************************************)

\* The contents a listing may report for the slot.
Listed == {steam[n].content : n \in Shown}

\* A listing of the slot changes at one moment, from what it was to the new
\* content and nothing else; or another computer has written.
SlotIsReplaced ==
  \/ touched'
  \/ UNCHANGED Listed
  \/ ~committed /\ committed' /\ Listed' = {content}

\* With the device's clock right, replacing one of several files of a slot is
\* replacing the slot's file, once, and before the upload succeeds.
THEOREM UploadsReplaceTheSlot == ClockRight => (Spec => [][SlotIsReplaced]_vars)
<1> SUFFICES ASSUME ClockRight PROVE Spec => [][SlotIsReplaced]_vars
  OBVIOUS
<1>1. SInv /\ IInv /\ [Next]_vars => SInv'
  BY StepSInv
<1>2. IInv /\ SInv /\ [Next]_vars => [SlotIsReplaced]_vars
  <2> SUFFICES ASSUME IInv, SInv, Next, ~touched' PROVE SlotIsReplaced
    BY DEF SlotIsReplaced
  <2>1. CASE UNCHANGED steam
    BY <2>1 DEF SlotIsReplaced, Listed, Shown, Present, Better
  <2>2. CASE steam' # steam
    <3>1. Commit
      BY <2>2 DEF Next, PeerWrites, Begin, BeginBatch, BeginFile, PutBlock, AllBlocksPut,
                  Complete, Verify, vars
    <3>2. /\ pc = "commit" /\ pc' = "complete"
          /\ committed' /\ transferred
          /\ steam' = [steam EXCEPT ![name] =
                         [content |-> IF put = Blocks THEN content ELSE Torn, time |-> stamp]]
          /\ UNCHANGED << name, content, stamp, now, touched >>
      BY <2>2, <3>1 DEF Commit
    <3>3. steam'[name] = [content |-> content, time |-> stamp] /\ ~committed
      BY <3>2 DEF IInv, TypeOK, WholeAtCommit, KnownCommit
    <3>4. IInv' /\ SInv'
      BY <1>1, StepIInv
    <3>5. Shown' = {name'}
      <4>1. /\ name \in Present'
            /\ \A m \in Present' \ {name} : steam'[m].time < steam'[name].time
            /\ \A m \in Present' : Priority[m] <= Priority[name]
        BY <3>2, <3>4 DEF SInv, Ranked, Latest
      <4>2. \A m \in Present' : Priority[m] \in Nat /\ steam'[m].time \in Nat
        BY <3>4, CloudAssumption DEF IInv, TypeOK, Present, File
      <4>3. \A m \in Present' : ~Better(m, name)'
        BY <3>2, <4>1, <4>2 DEF Better
      <4>4. \A m \in Present' \ {name} : Better(name, m)'
        BY <3>2, <4>1, <4>2 DEF Better
      <4> QED BY <3>2, <4>1, <4>3, <4>4 DEF Shown
    <3>6. Listed' = {content}
      BY <3>2, <3>3, <3>5 DEF Listed
    <3> QED BY <3>2, <3>3, <3>6 DEF SlotIsReplaced
  <2> QED BY <2>1, <2>2
<1> QED BY InitSInv, <1>1, <1>2, Inductive, PTL DEF Spec
=============================================================================
