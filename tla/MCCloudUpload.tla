--------------------------- MODULE MCCloudUpload ---------------------------
(***************************************************************************)
(* The instance of CloudUpload for TLC: a Repentance+ name and the         *)
(* Repentance name under two path prefixes.                                *)
(***************************************************************************)
EXTENDS CloudUpload

CONSTANTS repplus, rep, prefixed

ThreeNames == {repplus, rep, prefixed}
Priorities == [n \in ThreeNames |-> IF n = repplus THEN 3 ELSE 2]
=============================================================================
