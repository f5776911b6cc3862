--------------------------- MODULE MCSteamSession ---------------------------
(***************************************************************************)
(* Two accounts, two attempts, and a token that an older app may have left *)
(* for either account.                                                     *)
(***************************************************************************)
EXTENDS SteamSession, TLC

LegacyTokens == Accounts \cup {None}
Symmetry     == Permutations(Accounts) \cup Permutations(Attempts)
=============================================================================
