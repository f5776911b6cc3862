----------------------------- MODULE MCBackups -----------------------------
(***************************************************************************)
(* Instances of Backups for TLC.                                           *)
(***************************************************************************)
EXTENDS Backups

IdsAndContents == Permutations(Ids) \cup Permutations(Contents)
\* The two sources of a replacement, and one of the others.
ThreeSources == {"LocalBeforePull", "LocalBeforeRestore", "SteamBeforePush"}
=============================================================================
