----------------------------- MODULE SaveVault -----------------------------
(***************************************************************************)
(* What the synchronizer promises about a player's progress, with nothing  *)
(* said about how: for every slot there are two files, one on the iPhone   *)
(* and one on Steam.  Their owners (the game, another computer) write them *)
(* at will.  The synchronizer may replace either, but only with content    *)
(* that one of the two has had, and never before the content it replaces   *)
(* is in the vault of backups, from which nothing is taken away.  The one  *)
(* exception: a file that its owner rewrote while the synchronizer was at  *)
(* work may be replaced without a backup of that last version.             *)
(*                                                                         *)
(* SlotSync implements this module (its property SavesAreKept).            *)
(***************************************************************************)
EXTENDS Naturals

CONSTANTS Slots, Contents

VARIABLES
  phone,    \* slot -> contents of the save file on the iPhone: one, or none
  steam,    \* slot -> contents of the file on Steam: one, or none
  vault,    \* slot -> contents with a backup
  known,    \* slot -> contents either file has had
  raced,    \* the files, as <<side, slot>>, rewritten while the synchronizer works
  left      \* how often the owners will still write

vars == << phone, steam, vault, known, raced, left >>

File == {{}} \cup {{c} : c \in Contents}

Init ==
  /\ phone \in [Slots -> File]
  /\ steam \in [Slots -> File]
  /\ vault = [s \in Slots |-> {}]
  /\ known \in [Slots -> SUBSET Contents]
  /\ raced = {}
  /\ left \in Nat
  /\ \A s \in Slots : phone[s] \cup steam[s] \subseteq known[s]

\* The owners: the game saves; a peer uploads or deletes.
OwnerWrites(side, s, f) ==
  /\ left > 0 /\ left' = left - 1
  /\ IF side = "phone" THEN phone' = [phone EXCEPT ![s] = f] /\ UNCHANGED steam
                       ELSE steam' = [steam EXCEPT ![s] = f] /\ UNCHANGED phone
  /\ known' = [known EXCEPT ![s] = @ \cup f]
  /\ raced' = raced \cup {<<side, s>>}
  /\ UNCHANGED vault

\* The synchronizer: it starts a piece of work, and of the files rewritten so
\* far only those matter that another of its pieces is about to replace.
StartWork == raced' \in SUBSET raced /\ UNCHANGED << phone, steam, vault, known, left >>

\* A backup of something the files have held.
BackUp(s) ==
  /\ UNCHANGED << phone, steam, known, raced, left >>
  /\ \E C \in SUBSET known[s] : vault' = [vault EXCEPT ![s] = @ \cup C]

\* A replacement, with or without a backup in the same step.
ReplacePhone(s) ==
  /\ UNCHANGED << steam, known, raced, left >>
  /\ \E c \in known[s] : phone' = [phone EXCEPT ![s] = {c}]
  /\ vault' \in {vault, [vault EXCEPT ![s] = @ \cup phone[s]]}
  /\ phone[s] \subseteq vault'[s] \/ <<"phone", s>> \in raced

ReplaceSteam(s) ==
  /\ UNCHANGED << phone, vault, known, raced, left >>
  /\ steam[s] \subseteq vault[s] \/ <<"steam", s>> \in raced
  /\ \E c \in known[s] : steam' = [steam EXCEPT ![s] = {c}]

Owners == \E side \in {"phone", "steam"}, s \in Slots, f \in File : OwnerWrites(side, s, f)

Synchronizer == StartWork \/ \E s \in Slots : BackUp(s) \/ ReplacePhone(s) \/ ReplaceSteam(s)

Next == Owners \/ Synchronizer

Spec == Init /\ [][Next]_vars
=============================================================================
