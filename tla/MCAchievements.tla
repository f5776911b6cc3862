--------------------------- MODULE MCAchievements ---------------------------
(***************************************************************************)
(* Mom and one more achievement of Repentance that is in Mom's stat but    *)
(* that the schema does not name; "Read Up!" and another of Repentance+,   *)
(* one in each of two stats.                                               *)
(***************************************************************************)
EXTENDS Achievements

CONSTANTS mom, boss, readUp, plus

TheBase   == {mom, boss}
ThePlus   == {readUp, plus}
TheSchema == {mom, readUp, plus}
TheGroup(a) == IF a = plus THEN 2 ELSE 1
=============================================================================
