----------------------------- MODULE MCSlotSync -----------------------------
(***************************************************************************)
(* Instances of SlotSync for TLC.                                          *)
(***************************************************************************)
EXTENDS SlotSync, TLC

Symmetry == Permutations(Versions) \cup Permutations(Slots)

AnyFiles   == [v : Versions, lz4 : BOOLEAN] \cup {[v |-> Corrupt, lz4 |-> FALSE]}
Every      == {"sync", "force", "restore"}
One        == {{s} : s \in Slots}

\* The plans in which the actors `orderly` behave and each event happens at
\* most so often.
PlansOf(used, files, orderly, user, game, peer, launch) ==
  {[slots |-> S, files |-> F, orderly |-> orderly, user |-> user,
    game |-> game, peer |-> peer, launch |-> launch] : S \in used, F \in files}

Plain == {[v : V, lz4 : {FALSE}] : V \in {W \in SUBSET Versions : Cardinality(W) = 2}}

\* Every actor behaves; Steam may hold any kind of file, of any version.
AllOrderly == PlansOf(One, {AnyFiles}, {"game", "host", "peer"}, Every, 1, 0, 0)
\* Two slots, and nothing happens but the user's operations.
TwoSlots   == PlansOf({Slots}, Plain, {"game", "host", "peer"}, {"sync", "force"}, 0, 0, 0)
\* Another computer writes at any time; the app is killed at any time.
PeerRaces  == PlansOf(One, Plain, {"game", "host"}, Every, 1, 1, 1)
\* The game and the user do not wait for the preflight.
LaneRaces  == PlansOf(One, Plain, {"peer"}, {"sync", "restore"}, 1, 0, 0) \cup
              PlansOf(One, Plain, {"peer"}, {"sync", "force"}, 1, 0, 0)

AllPlans   == AllOrderly \cup TwoSlots \cup PeerRaces \cup LaneRaces

\* Everyone behaves, over two launches.
Relaunched == PlansOf(One, Plain, {"game", "host", "peer"}, Every, 1, 0, 2)

\* Everyone behaves, over two launches, with three versions to tell apart: BASE,
\* what a restore brings and what another computer leaves on Steam.
Restored == PlansOf(One, {[v : Versions, lz4 : {FALSE}]}, {"game", "host", "peer"},
                    {"force", "restore"}, 0, 1, 1)

\* Of one save by the game, one by the peer and one launch, at most two happen.
TwoEvents == plan.orderly = {"game", "host"} => plan.game + plan.peer + plan.launch > 0
=============================================================================
