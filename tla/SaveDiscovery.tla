--------------------------- MODULE SaveDiscovery ---------------------------
(***************************************************************************)
(* Which files the engine works on (src/core/src/local.rs and its callers  *)
(* in engine.rs).                                                          *)
(*                                                                         *)
(* The sandbox may hold several files of a slot: in more than one          *)
(* directory, of more than one DLC generation, and temporarily truncated.  *)
(* Discovery picks those that are synchronized, once when the dylib is     *)
(* loaded (the snapshot the prelaunch synchronization uses) and once in    *)
(* every other operation; a queued restore looks for its destination       *)
(* itself.  Slots the user excluded are kept out at four places, by lists  *)
(* that the panel may rewrite at any moment.                               *)
(***************************************************************************)
EXTENDS Naturals

CONSTANTS
  Slots,        \* save slots, numbered
  Dirs,         \* directories that may hold saves, numbered in path order
  Repentance,   \* those below a directory named Repentance
  Disks,        \* the files there may be at first
  Others,       \* the exclusions there may be in the four lists only users write
  Changes,      \* bound: what the game and the user change
  None          \* no snapshot, no slot

ASSUME SaveDiscoveryAssumption ==
  /\ Slots \subseteq Nat /\ Dirs \subseteq Nat /\ Repentance \subseteq Dirs
  /\ Others \subseteq SUBSET Slots /\ Changes \in Nat
  /\ None \notin Nat

VARIABLES
  disk,       \* what is at a path: nothing, a whole save or a truncated one
  support,    \* .../IsaacCloudSync/exclude_slots.txt
  documents,  \* Documents/exclude_slots.txt
  other,      \* the other four lists of get_excluded_slots
  setter,     \* the panel's call of set_slot_excluded
  snapshot,   \* Engine.preflight_saves
  op,         \* the operation on the lane
  playing,    \* the game has been let in
  changes     \* bound: changes so far

lists == << support, documents, other >>
vars  == << disk, lists, setter, snapshot, op, playing, changes >>

\* slot_for_filename and is_repentance_save: a name is the slot's number and
\* persistentgamedata (0), rep+persistentgamedata (1) or rep_... (2).
Gens  == 0 .. 2
Paths == [dir : Dirs, gen : Gens, slot : Slots]

Whole == "whole"
Torn  == "truncated"
Gone  == "none"

ASSUME DisksAssumption == Disks \subseteq [Paths -> {Whole, Torn, Gone}]

Kinds == {"prelaunch", "manual", "foreground", "force", "restore"}

\* known: the exclusions run_sync has read. remote: the slots it lists.
\* found: the files it works on. barred: history, the slots that were excluded
\* when the operation began and have not been included since.
Idle == [kind |-> None, pc |-> "idle", slot |-> None, remote |-> {}, found |-> {}, barred |-> {}]
Op   == [kind : Kinds \cup {None}, pc : {"idle", "begun", "listed", "working"},
         slot : Slots \cup {None}, remote : SUBSET Slots, found : SUBSET Paths,
         barred : SUBSET Slots]

AtRest == [pc |-> "idle", new |-> {}]

TypeOK ==
  /\ disk \in [Paths -> {Whole, Torn, Gone}]
  /\ support \subseteq Slots /\ documents \subseteq Slots /\ other \in Others
  /\ setter \in [pc : {"idle", "support", "documents"}, new : SUBSET Slots]
  /\ snapshot \in (SUBSET Paths) \cup {None}
  /\ op \in Op
  /\ op.pc = "idle" => op = Idle
  /\ op.pc = "working" => op.found # {}
  /\ playing \in BOOLEAN
  /\ changes \in 0 .. Changes

-----------------------------------------------------------------------------
(* local.rs: what is on the disk *)

\* get_excluded_slots
Excluded == support \cup documents \cup other

Present == {p \in Paths : disk[p] # Gone}

\* Bug: the generation is decided from the saves that parse.
ValidGenerations(slots) == {p.slot : p \in {q \in Present : q.gen > 0 /\ disk[q] = Whole}} \cap slots

\* collect_repentance_slots: from the names alone, before anything is parsed
RepentanceSlots(slots) == {p.slot : p \in {q \in Present : q.gen > 0}} \cap slots

\* walk: the files of the allowed slots; of a slot with a Repentance file, those.
Candidates(slots) ==
  {p \in Present : p.slot \in slots /\ (p.slot \in RepentanceSlots(slots) => p.gen > 0)}

\* candidates.sort_by path: Dirs are numbered in the order of paths, and within
\* a directory the names of a generation come together.
Before(p, q) ==
  \/ p.dir < q.dir
  \/ p.dir = q.dir /\ p.gen < q.gen
  \/ p.dir = q.dir /\ p.gen = q.gen /\ p.slot < q.slot

\* ensure_unique_slots: no two neighbours of the sorted list are of one slot.
Unique(files) ==
  ~\E p, q \in files :
     /\ p.slot = q.slot /\ Before(p, q)
     /\ ~\E r \in files : Before(p, r) /\ Before(r, q)

\* discover_saves_for_slots and discover_saves: a file that does not parse after
\* all retries fails the discovery.
Discovery(slots) ==
  LET files == Candidates(slots \ Excluded)
  IN {found \in {files} : Unique(files) /\ \A p \in files : disk[p] = Whole}

\* discover_saves_immediate: such a file is left out. None when it fails.
Captured ==
  LET files == {p \in Candidates(Slots \ Excluded) : disk[p] = Whole}
  IN IF Unique(files) THEN files ELSE None

\* Bug: the directory counts before the name.
RankByDir(p, gen) ==
  (IF p.dir \in Repentance THEN 0 ELSE 2) + (IF p.gen = gen THEN 0 ELSE 1)

\* restore_path_rank, for a backup whose name is of generation gen
Rank(p, gen) ==
  (IF p.gen = gen THEN 0 ELSE 2) + (IF p.dir \in Repentance THEN 0 ELSE 1)

\* locate_save_path_for_restore: the one file of the best rank, parsed or not
Located(slot, gen) ==
  LET files == {p \in Present : p.slot = slot}
      best  == {p \in files : \A q \in files : Rank(p, gen) <= Rank(q, gen)}
  IN {p \in best : best = {p} /\ slot \notin Excluded}

-----------------------------------------------------------------------------
(* The panel: set_slot_excluded *)

Change == changes < Changes /\ changes' = changes + 1

SetExcluded(slot, exclude) ==
  /\ Change
  /\ setter.pc = "idle"
  /\ setter' = [pc |-> "support",
                new |-> IF exclude THEN Excluded \cup {slot} ELSE Excluded \ {slot}]
  /\ UNCHANGED << disk, lists, snapshot, op, playing >>

\* An error ends the call: the list in Documents stays as it is.
WriteSupport ==
  /\ setter.pc = "support"
  /\ \/ /\ support' = setter.new
        /\ setter' = [setter EXCEPT !.pc = "documents"]
        /\ op' = [op EXCEPT !.barred = @ \cap (setter.new \cup documents \cup other)]
     \/ setter' = AtRest /\ UNCHANGED << support, op >>
  /\ UNCHANGED << disk, documents, other, snapshot, playing, changes >>

\* Best effort
WriteDocuments ==
  /\ setter.pc = "documents"
  /\ \/ /\ documents' = setter.new
        /\ op' = [op EXCEPT !.barred = @ \cap (support \cup setter.new \cup other)]
     \/ UNCHANGED << documents, op >>
  /\ setter' = AtRest
  /\ UNCHANGED << disk, support, other, snapshot, playing, changes >>

-----------------------------------------------------------------------------
(* The game and the launches *)

\* The game writes a save; a forced exit may leave it truncated. Names with
\* rep+ are those of other computers.
GameWrites(p) ==
  /\ Change
  /\ playing
  /\ p.gen # 1
  /\ \E what \in {Whole, Torn} \ {disk[p]} : disk' = [disk EXCEPT ![p] = what]
  /\ UNCHANGED << lists, setter, snapshot, op, playing >>

\* Engine::new of a new process takes the snapshot.
Relaunch ==
  /\ Change
  /\ snapshot' = Captured
  /\ setter' = AtRest
  /\ op' = Idle
  /\ playing' = FALSE
  /\ UNCHANGED << disk, lists >>

\* The preflight is over.
LetIn ==
  /\ ~playing
  /\ op.kind # "restore"
  /\ playing' = TRUE
  /\ UNCHANGED << disk, lists, setter, snapshot, op, changes >>

-----------------------------------------------------------------------------
(* Operations *)

End == op' = Idle

\* run_sync for the three triggers
Begin(kind) ==
  /\ op.pc = "idle"
  /\ kind = "prelaunch" => ~playing
  /\ op' = [Idle EXCEPT !.kind = kind, !.pc = "begun", !.barred = Excluded]
  /\ UNCHANGED << disk, lists, setter, snapshot, playing, changes >>

\* Bug: the snapshot is not filtered by what is listed.
PrelaunchUnfiltered ==
  /\ op.pc = "listed" /\ op.kind = "prelaunch"
  /\ \/ snapshot # None /\ op' = [op EXCEPT !.pc = "working", !.remote = {}, !.found = snapshot]
     \/ End
  /\ snapshot' = None
  /\ UNCHANGED << disk, lists, setter, playing, changes >>

\* The enumeration arrives; the slots that are excluded now are left out.
Enumerate ==
  /\ op.pc = "begun" /\ op.kind # "force"
  /\ \/ \E remote \in SUBSET Slots :
          op' = [op EXCEPT !.pc = "listed", !.remote = remote \ Excluded]
     \/ End
  /\ UNCHANGED << disk, lists, setter, snapshot, playing, changes >>

\* The prelaunch synchronization takes the snapshot, for the slots listed.
Prelaunch ==
  /\ op.pc = "listed" /\ op.kind = "prelaunch"
  /\ IF snapshot # None /\ {p \in snapshot : p.slot \in op.remote} # {}
     THEN op' = [op EXCEPT !.pc = "working", !.remote = {},
                          !.found = {p \in snapshot : p.slot \in op.remote}]
     ELSE End
  /\ snapshot' = None
  /\ UNCHANGED << disk, lists, setter, playing, changes >>

\* Bug: an operation that finds nothing goes on, and reports success.
DiscoverNothing ==
  /\ op.pc = "listed" /\ op.kind # "prelaunch"
  /\ \/ \E found \in Discovery(IF op.kind = "manual" THEN Slots ELSE op.remote) :
          op' = [op EXCEPT !.pc = "working", !.remote = {}, !.found = found]
     \/ End
  /\ UNCHANGED << disk, lists, setter, snapshot, playing, changes >>

\* The manual one looks for every slot, the automatic ones for the slots listed. No
\* save at all is an error.
Discover ==
  /\ op.pc = "listed" /\ op.kind # "prelaunch"
  /\ \/ \E found \in Discovery(IF op.kind = "manual" THEN Slots ELSE op.remote) \ {{}} :
          op' = [op EXCEPT !.pc = "working", !.remote = {}, !.found = found]
     \/ End
  /\ UNCHANGED << disk, lists, setter, snapshot, playing, changes >>

\* force_slot: asks for the exclusions itself, then looks for that slot only.
ForceSlot(slot) ==
  /\ op.pc = "idle"
  /\ slot \notin Excluded
  /\ op' = [Idle EXCEPT !.kind = "force", !.pc = "begun", !.slot = slot, !.barred = Excluded]
  /\ UNCHANGED << disk, lists, setter, snapshot, playing, changes >>

ForceDiscover ==
  /\ op.pc = "begun" /\ op.kind = "force"
  /\ \/ \E found \in Discovery({op.slot}) \ {{}} :
          op' = [op EXCEPT !.pc = "working", !.found = found]
     \/ End
  /\ UNCHANGED << disk, lists, setter, snapshot, playing, changes >>

\* apply_pending_restore locates the destination on the preflight's thread.
Restore(slot, gen) ==
  /\ op.pc = "idle" /\ ~playing
  /\ \E p \in Located(slot, gen) :
       op' = [Idle EXCEPT !.kind = "restore", !.pc = "working", !.slot = slot,
                          !.found = {p}, !.barred = Excluded]
  /\ UNCHANGED << disk, lists, setter, snapshot, playing, changes >>

\* The destination is replaced and takes its slot's place in the snapshot.
Restored ==
  /\ op.pc = "working" /\ op.kind = "restore"
  /\ \/ /\ disk' = [p \in Paths |-> IF p \in op.found THEN Whole ELSE disk[p]]
        /\ snapshot' = (IF snapshot = None THEN {} ELSE {p \in snapshot : p.slot # op.slot})
                       \cup op.found
     \/ UNCHANGED << disk, snapshot >>
  /\ End
  /\ UNCHANGED << lists, setter, playing, changes >>

\* A save is compared, backed up, pulled, pushed; or the operation fails.
Work ==
  /\ op.pc = "working" /\ op.kind # "restore"
  /\ \/ \E p \in op.found :
          /\ op' = IF op.found = {p} THEN Idle ELSE [op EXCEPT !.found = @ \ {p}]
          /\ disk' \in {disk, [disk EXCEPT ![p] = Whole]}
     \/ End /\ UNCHANGED disk
  /\ UNCHANGED << lists, setter, snapshot, playing, changes >>

-----------------------------------------------------------------------------
Init ==
  /\ disk \in Disks
  /\ support = {} /\ documents = {} /\ other \in Others
  /\ setter = AtRest
  /\ snapshot = Captured
  /\ op = Idle
  /\ playing = FALSE
  /\ changes = 0

Next ==
  \/ \E s \in Slots, exclude \in BOOLEAN : SetExcluded(s, exclude)
  \/ WriteSupport \/ WriteDocuments
  \/ \E p \in Paths : GameWrites(p)
  \/ Relaunch \/ LetIn
  \/ \E kind \in {"prelaunch", "manual", "foreground"} : Begin(kind)
  \/ Enumerate \/ Prelaunch \/ Discover
  \/ (\E s \in Slots : ForceSlot(s)) \/ ForceDiscover
  \/ (\E s \in Slots, gen \in Gens : Restore(s, gen)) \/ Restored \/ Work

Spec == Init /\ [][Next]_vars

-----------------------------------------------------------------------------
(* Properties *)

\* A slot that is excluded when an operation begins, and is not included while
\* it runs, is not touched by it: its save "remains strictly local"
\* (IsaacCloudUI.m:425). That holds for the snapshot of a launch that was taken
\* before the exclusion, for a choice that was pending and for a queued restore.
ExcludedIsLeftAlone == \A p \in op.found : p.slot \notin op.barred

\* Files of an older DLC generation than another one of their slot
Superseded(files) == {p \in files : p.gen = 0 /\ \E q \in Present : q.slot = p.slot /\ q.gen > 0}

\* What the snapshot captures or an operation finds is never superseded, even if
\* the newer file is truncated and left out: otherwise an abandoned save would
\* be synchronized instead of the player's (the comment at local.rs:234-237).
NewestGenerationOnly ==
  [][/\ Relaunch /\ snapshot' # None => Superseded(snapshot') = {}
     /\ Discover \/ ForceDiscover => Superseded(op'.found) = {}]_vars

\* A backup of the slot's only live save is restored to that save, whatever
\* older files and directories there are, or it is not restored.
RestoreReachesLiveSave ==
  [][\A s \in Slots, gen \in Gens :
       Restore(s, gen) =>
         \A live \in Candidates({s}) :
           Candidates({s}) = {live} /\ live.gen = gen => op'.found = {live}]_vars
=============================================================================
