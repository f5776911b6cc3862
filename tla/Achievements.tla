---------------------------- MODULE Achievements ----------------------------
(***************************************************************************)
(* Achievements (src/core/src/achievements.rs, save_achievements.rs) and   *)
(* the part of a save that only Repentance+ has (isaac_format.rs and the   *)
(* places of engine.rs that carry it).                                     *)
(*                                                                         *)
(* An achievement is unlocked in a save on the phone, in a save on Steam   *)
(* Cloud, in the sidecar file that keeps what a Repentance+ save has and a *)
(* Repentance save cannot hold, and on Steam itself.  The achievement      *)
(* synchronization only ever adds to Steam what saves and sidecars have;   *)
(* pulls strip saves to Repentance and keep the rest in the sidecar; and   *)
(* uploads put it back.  Steam, other computers and the game change their  *)
(* sides at any moment, and reads from Steam may lag behind.               *)
(*                                                                         *)
(* The numbers of a Repentance+ save are one counter here.                 *)
(***************************************************************************)
EXTENDS Naturals

CONSTANTS
  Slots,        \* save slots
  Base, Plus,   \* achievements of Repentance (1..637), of Repentance+ (638..641)
  Mom, ReadUp,  \* achievements 1 and 641: who has one is given the other
  Schema,       \* the achievements Steam's schema names
  Group(_),     \* the stat of an achievement, 32 of which are stored at once
  Attempts,     \* VERIFY_ATTEMPTS
  CrcChecked,   \* Steam refuses a store whose CRC is not that of its stats
  MaxCount,     \* bound: a counter's values
  Events,       \* bound: what the game and other computers do
  None          \* no save on Steam Cloud, no slot

ASSUME AchievementsAssumption ==
  /\ Base \cap Plus = {}
  /\ Mom \in Base /\ ReadUp \in Plus
  /\ Schema \subseteq Base \cup Plus
  /\ Attempts \in Nat \ {0} /\ MaxCount \in Nat /\ Events \in Nat
  /\ CrcChecked \in BOOLEAN
  /\ None \notin Slots

VARIABLES
  steam,    \* the achievements unlocked on Steam
  older,    \* ... as a server that lags behind still has them
  cloud,    \* the saves on Steam Cloud
  phone,    \* the saves on the phone: the achievements unlocked in them
  sidecar,  \* state/repplus_extra_slot*.json
  cache,    \* CACHE: the achievements Steam was last seen to have unlocked
  op,       \* the operation on the lane
  events,   \* bound: events so far
  earned,   \* history: achievements someone unlocked by playing
  raced     \* history: another computer wrote the save of op.slot after the last look at it

world == << cloud, phone, sidecar >>
vars  == << steam, older, world, cache, op, events, earned, raced >>

Names == Base \cup Plus
Count == 0 .. MaxCount
Extra == [ach : SUBSET Plus, count : Count]
\* plus: the save is a Repentance+ save. named: its file name says so. lz4: it
\* has the framing of the iOS game, under which plus cannot be seen.
Save  == [plus : BOOLEAN, named : BOOLEAN, lz4 : BOOLEAN, base : SUBSET Base, extra : Extra]

ASSUME NoneAssumption == None \notin Save

NoExtra == [ach |-> {}, count |-> 0]
NoSave  == [plus |-> FALSE, named |-> FALSE, lz4 |-> FALSE, base |-> {}, extra |-> NoExtra]

\* local: what saves and sidecars have unlocked. before: previously_achieved.
\* names: names_to_add. seen: the stats the store is built on, and their CRC.
\* file: the save as downloaded, or None. up: the save to upload. backup: the
\* save backed up before it. forgot (history): the sidecar could not be read or
\* written, or the download was not looked at.
Idle == [pc |-> "idle", slot |-> None, local |-> {}, before |-> {}, names |-> {}, seen |-> {},
         tries |-> 0, file |-> None, up |-> NoSave, backup |-> None, forgot |-> FALSE]
Pcs  == {"idle", "read", "refresh", "store", "verify", "ok",
         "compare", "forced", "assert", "commit"}
Op   == [pc : Pcs, slot : Slots \cup {None}, local : SUBSET Names, before : SUBSET Schema,
         names : SUBSET Schema, seen : SUBSET Schema, tries : 0 .. Attempts,
         file : Save \cup {None}, up : Save, backup : Save \cup {None}, forgot : BOOLEAN]

TypeOK ==
  /\ steam \subseteq Schema /\ older \subseteq Schema
  /\ cloud \in [Slots -> Save \cup {None}]
  /\ phone \in [Slots -> SUBSET Base]
  /\ sidecar \in [Slots -> Extra]
  /\ cache \subseteq Schema
  /\ op \in Op
  /\ events \in 0 .. Events
  /\ earned \subseteq Names
  /\ raced \in BOOLEAN

\* Whoever beats Mom is given "Read Up!", by the game or by this code.
Given(names) == IF Mom \in names THEN {ReadUp} ELSE {}

Init ==
  /\ steam \in {{}, {Mom} \cap Schema}
  /\ older = steam
  /\ \E plus, named, lz4 \in BOOLEAN, count \in Count :
       LET extra == [ach |-> {}, count |-> IF plus THEN count ELSE 0]
       IN cloud \in [Slots -> {None, [plus |-> plus, named |-> named, lz4 |-> lz4,
                                      base |-> {}, extra |-> extra]}]
  /\ phone = [s \in Slots |-> {}]
  /\ sidecar = [s \in Slots |-> NoExtra]
  /\ cache = {}
  /\ op = Idle
  /\ events = 0
  /\ earned = steam
  /\ raced = FALSE

-----------------------------------------------------------------------------
(* The formats: isaac_format.rs *)

Greater(m, n) == IF m >= n THEN m ELSE n

\* RepPlusExtra::merge
Merge(x, y) == [ach |-> x.ach \cup y.ach, count |-> Greater(x.count, y.count)]

\* extract_rep_plus_extra: of a Repentance save there is nothing to extract.
Extract(save) == IF save.plus THEN save.extra ELSE NoExtra

\* Bug: the save is left as it is.
ToRepUnstripped(save) == save.base \cup save.extra.ach

\* convert_rep_plus_to_rep. The game on the phone gets such a save only.
ToRep(save) == save.base

\* Bug: the cached names are taken whether they are achieved or not.
ToRepPlusKnown(base, extra, unlocked) ==
  [plus |-> TRUE, named |-> TRUE, lz4 |-> FALSE, base |-> base,
   extra |-> [extra EXCEPT !.ach = @ \cup (Schema \cap Plus) \cup Given(base)]]

\* convert_rep_to_rep_plus_with_extra, of a Repentance save
ToRepPlus(base, extra, unlocked) ==
  [plus |-> TRUE, named |-> TRUE, lz4 |-> FALSE, base |-> base,
   extra |-> [extra EXCEPT !.ach = @ \cup (unlocked \cap Plus) \cup Given(base)]]

-----------------------------------------------------------------------------
(* The world *)

Event == events < Events /\ events' = events + 1

Play(s, a) ==
  /\ Event
  /\ a \notin phone[s]
  /\ phone' = [phone EXCEPT ![s] = @ \cup {a}]
  /\ earned' = earned \cup {a}
  /\ UNCHANGED << steam, older, cloud, sidecar, cache, op, raced >>

PeerUnlocks(a) ==
  /\ Event
  /\ a \notin steam
  /\ steam' = steam \cup {a}
  /\ older' = steam
  /\ earned' = earned \cup {a}
  /\ UNCHANGED << world, cache, op, raced >>

\* What Repentance+ makes of a save: it has more than before, of either kind, and
\* no framing.
PlayedOn(save, a) ==
  LET more == IF a \in Base THEN [save EXCEPT !.base = @ \cup {a}]
              ELSE [save EXCEPT !.extra.ach = @ \cup {a}]
      n    == IF save.extra.count < MaxCount THEN save.extra.count + 1 ELSE MaxCount
  IN [more EXCEPT !.plus = TRUE, !.lz4 = FALSE, !.extra.count = n]

\* Another computer plays on, or begins a save.
PeerPlays(s, a) ==
  /\ Event
  /\ LET now == IF cloud[s] = None THEN [NoSave EXCEPT !.named = TRUE] ELSE cloud[s]
     IN cloud' = [cloud EXCEPT ![s] = PlayedOn(now, a)]
  /\ earned' = earned \cup {a}
  /\ raced' = (raced \/ (op.pc = "commit" /\ op.slot = s))
  /\ UNCHANGED << steam, older, phone, sidecar, cache, op >>

\* The app is killed and launched again: the cache starts empty.
Relaunch ==
  /\ Event
  /\ op' = Idle
  /\ cache' = {}
  /\ raced' = FALSE
  /\ UNCHANGED << steam, older, world, earned >>

-----------------------------------------------------------------------------
(* sync_from_local_saves *)

\* collect_local_unlocks, when discovery finds the saves of these slots. The
\* sidecars of all slots count; one that cannot be read counts as empty.
LocalUnlocks(found, readable) ==
  LET inSaves == UNION {phone[s] : s \in found}
  IN inSaves \cup Given(inSaves) \cup UNION {sidecar[s].ach : s \in readable}

\* Slots that are excluded, or have no save, are not found.
Collect ==
  /\ op.pc = "idle"
  /\ \E found, readable \in SUBSET Slots :
       LET names == LocalUnlocks(found, readable)
       IN op' = [op EXCEPT !.local = names, !.pc = IF names = {} THEN "ok" ELSE "read"]
  /\ UNCHANGED << steam, older, world, cache, events, earned, raced >>

\* A server answers with what Steam has, or had before its last change.
\* names_to_add: of the names the schema knows, those Steam has not unlocked.
Read ==
  /\ op.pc = "read"
  /\ \E current \in {steam, older} :
       LET missing == (op.local \cap Schema) \ current
       IN /\ cache' = current
          /\ op' = [op EXCEPT !.before = current, !.names = missing,
                              !.pc = IF missing = {} THEN "ok" ELSE "refresh"]
  /\ UNCHANGED << steam, older, world, events, earned, raced >>

\* Bug: the groups are built on what is cached.
BuildOnCache == [names  |-> cache \cup op.names, groups |-> {Group(a) : a \in op.names \ cache}]

\* build_additive_stats: the groups that gain a bit, with every bit that the
\* answer or the cache has.
Build ==
  LET known == op.seen \cup cache
  IN [names |-> known \cup op.names, groups |-> {Group(a) : a \in op.names \ known}]

\* The stats are asked for again, with their CRC; if the names have been
\* unlocked meanwhile there is nothing to store and one look is enough.
Refresh ==
  /\ op.pc = "refresh"
  /\ \E current \in {steam, older} :
       op' = IF op.names \subseteq current \cup cache
             THEN [op EXCEPT !.seen = current, !.pc = "verify", !.tries = Attempts - 1]
             ELSE [op EXCEPT !.seen = current, !.pc = "store"]
  /\ UNCHANGED << steam, older, world, cache, events, earned, raced >>

\* Steam replaces the groups as a whole, if the CRC is that of its stats; it may
\* also drop what it has accepted, and the answer may be lost.
Store ==
  /\ op.pc = "store"
  /\ CrcChecked => op.seen = steam
  /\ \/ /\ steam' = {a \in steam : Group(a) \notin Build.groups}
                    \cup {a \in Build.names : Group(a) \in Build.groups}
        /\ older' = steam
     \/ UNCHANGED << steam, older >>
  /\ op' = [op EXCEPT !.pc = "verify"] \/ op' = Idle
  /\ UNCHANGED << world, cache, events, earned, raced >>

\* Bug: what the last look has shown is not compared with the names.
VerifyAnyway ==
  /\ op.pc = "verify"
  /\ \E verified \in {steam, older} :
       /\ cache' = verified
       /\ op' = [op EXCEPT !.pc = "ok"]
  /\ UNCHANGED << steam, older, world, events, earned, raced >>

\* Four looks at most, then the last one has to show the names, and everything
\* that was unlocked before (ensure_no_existing_unlocks_lost).
Verify ==
  /\ op.pc = "verify"
  /\ \E verified \in {steam, older} :
       IF ~(op.names \subseteq verified) /\ op.tries + 1 < Attempts
       THEN op' = [op EXCEPT !.tries = @ + 1] /\ UNCHANGED cache
       ELSE IF op.before \subseteq verified
       THEN /\ cache' = verified
            /\ op' = IF op.names \subseteq verified THEN [op EXCEPT !.pc = "ok"] ELSE Idle
       ELSE op' = Idle /\ UNCHANGED cache
  /\ UNCHANGED << steam, older, world, events, earned, raced >>

\* A call to Steam fails, times out or is refused; or there is nothing to do with
\* a save, or only a choice to be noted.
Fails ==
  /\ op.pc \notin {"idle", "ok"}
  /\ op' = Idle
  /\ raced' = FALSE
  /\ UNCHANGED << steam, older, world, cache, events, earned >>

Returned ==
  /\ op.pc = "ok"
  /\ op' = Idle
  /\ UNCHANGED << steam, older, world, cache, events, earned, raced >>

-----------------------------------------------------------------------------
(* The synchronization of a slot, as far as it carries what Repentance+ adds *)

\* load_repplus_extra: a file that cannot be read counts as empty.
Stored(s) == {sidecar[s], NoExtra}

\* merge, save_repplus_extra: a failure to write is not looked at.
Remember(s, stored, extra) ==
  sidecar' = [sidecar EXCEPT ![s] = Merge(stored, extra)] \/ UNCHANGED sidecar

\* History: what was to be remembered is not what the sidecar now has.
Forgot(s, stored, extra) ==
  \/ stored # sidecar[s]
  \/ sidecar' # [sidecar EXCEPT ![s] = Merge(stored, extra)]

\* run_sync downloads the save of a slot, takes off its framing, and remembers
\* what it has.
Compare(s) ==
  /\ op.pc = "idle"
  /\ cloud[s] # None
  /\ \E stored \in Stored(s) :
       /\ Remember(s, stored, Extract(cloud[s]))
       /\ op' = [op EXCEPT !.pc = "compare", !.slot = s, !.file = cloud[s],
                           !.forgot = Forgot(s, stored, Extract(cloud[s]))]
  /\ UNCHANGED << steam, older, cloud, phone, cache, events, earned, raced >>

\* force_slot looks at the bytes as they are: what Repentance+ has added to a save
\* in LZ4 framing it sees or not, as those bytes happen to be.
Overlooked(s) ==
  /\ cloud[s] # None => cloud[s].lz4
  /\ UNCHANGED sidecar

ForceSlot(s) ==
  /\ op.pc = "idle"
  /\ \/ /\ Overlooked(s)
        /\ op' = [op EXCEPT !.pc = "forced", !.slot = s, !.file = cloud[s],
                            !.forgot = cloud[s] # None]
     \/ /\ cloud[s] # None
        /\ \E stored \in Stored(s) :
             /\ Remember(s, stored, Extract(cloud[s]))
             /\ op' = [op EXCEPT !.pc = "forced", !.slot = s, !.file = cloud[s],
                                 !.forgot = Forgot(s, stored, Extract(cloud[s]))]
  /\ UNCHANGED << steam, older, cloud, phone, cache, events, earned, raced >>

\* pull_one
Pull ==
  /\ op.pc = "compare"
  /\ phone' = [phone EXCEPT ![op.slot] = ToRep(op.file)]
  /\ op' = Idle
  /\ raced' = FALSE
  /\ UNCHANGED << steam, older, cloud, sidecar, cache, events, earned >>

\* prepare_upload, for the file that was downloaded, or for a new one. What the
\* upload adds is remembered too.
Prepare ==
  /\ op.pc \in {"compare", "forced"}
  /\ \E named \in IF op.file = None THEN BOOLEAN ELSE {op.file.named}, stored \in Stored(op.slot) :
       LET up == IF named THEN ToRepPlus(phone[op.slot], stored, cache)
                 ELSE [NoSave EXCEPT !.base = phone[op.slot]]
       IN /\ IF named THEN Remember(op.slot, stored, Extract(up)) ELSE UNCHANGED sidecar
          /\ op' = [op EXCEPT !.pc = "assert", !.up = up,
                              !.forgot = @ \/ (named /\ Forgot(op.slot, stored, Extract(up)))]
  /\ UNCHANGED << steam, older, cloud, phone, cache, events, earned, raced >>

\* assert_remote_unchanged, or the same look of push_new
RemoteUnchanged == cloud[op.slot] = op.file

\* Bug: Steam is not looked at again.
AssertUnchecked ==
  /\ op.pc = "assert"
  /\ op' = [op EXCEPT !.pc = "commit", !.backup = op.file]
  /\ UNCHANGED << steam, older, world, cache, events, earned, raced >>

\* A last look, and the backup of the save to be replaced.
Assert ==
  /\ op.pc = "assert"
  /\ RemoteUnchanged
  /\ op' = [op EXCEPT !.pc = "commit", !.backup = op.file]
  /\ UNCHANGED << steam, older, world, cache, events, earned, raced >>

\* upload_verified, whose answer may be lost
Commit ==
  /\ op.pc = "commit"
  /\ cloud' = [cloud EXCEPT ![op.slot] = op.up]
  /\ op' = Idle
  /\ raced' = FALSE
  /\ UNCHANGED << steam, older, phone, sidecar, cache, events, earned >>

-----------------------------------------------------------------------------
Next ==
  \/ \E s \in Slots, a \in Base : Play(s, a)
  \/ \E a \in Schema : PeerUnlocks(a)
  \/ \E s \in Slots, a \in Names : PeerPlays(s, a)
  \/ Relaunch
  \/ Collect \/ Read \/ Refresh \/ Store \/ Verify \/ Fails \/ Returned
  \/ (\E s \in Slots : Compare(s) \/ ForceSlot(s)) \/ Pull \/ Prepare \/ Assert \/ Commit

Spec == Init /\ [][Next]_vars

-----------------------------------------------------------------------------
(* Properties *)

\* "local locked + Steam unlocked => NEVER clear Steam" (achievements.rs:91),
\* although whole stats are written and other computers unlock at any moment.
SteamOnlyGrows == [][steam \subseteq steam']_vars

\* A synchronization that reports success has everything on Steam that a save
\* or a sidecar had when it began and that Steam knows.
OkMeansUnlocked == op.pc = "ok" => op.local \cap Schema \subseteq steam

\* What the save of a slot has, as far as it is the other format's.
Extras(save) == IF save = None THEN NoExtra ELSE Extract(save)

Within(x, y) == x.ach \subseteq y.ach /\ x.count <= y.count

\* What a Repentance+ save on Steam Cloud has is not lost when the phone's save
\* replaces it: the new one has it, or the sidecar. Only if the sidecar could not
\* be read or written, or force_slot overlooked what is in an LZ4 file, is it in
\* neither: then the file that is replaced is in a backup. The engine cannot keep
\* what another computer writes between its last look and its commit (raced).
ExtrasAreKept ==
  [][~raced => \A s \in Slots :
       \/ Within(Extras(cloud[s]), Merge(Extras(cloud'[s]), sidecar'[s]))
       \/ op.forgot /\ op.slot = s /\ op.backup = cloud[s]]_vars

\* No achievement is invented: whatever goes round between saves, sidecars, the
\* cache and Steam was unlocked by someone who played, or is given for Mom.
UnlocksAreEarned ==
  LET saves      == {cloud[s] : s \in Slots} \ {None}
      inPhones   == UNION {phone[s] : s \in Slots}
      inSidecars == UNION {sidecar[s].ach : s \in Slots}
      inCloud    == UNION {save.base \cup save.extra.ach : save \in saves}
  IN steam \cup cache \cup inPhones \cup inSidecars \cup inCloud \subseteq earned \cup Given(earned)
=============================================================================
