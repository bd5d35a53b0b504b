---------------------------- MODULE MCCollectibles ----------------------------
(* Two players and one region of one or more items, one unit standing for 10 m. *)
(* The player points are within reach of the item at <<0, 0>> but in the    *)
(* next cell, at 550 m (in the band), and at 650 m (beyond both radii, but   *)
(* within the nine cells a new item is told to).  MCFarPoint has a point     *)
(* outside these cells instead of the last.                                  *)
EXTENDS Collectibles, TLC
CONSTANTS p1, p2, r1

MCPlayer == {p1, p2}
MCRegion == {r1}
MCPoint == {<<-2, 0>>, <<-55, 0>>, <<65, 0>>}
MCFarPoint == {<<-2, 0>>, <<-55, 0>>, <<-65, 0>>}
MCCircle == [r \in MCRegion |-> {<<0, 0>>}]
MCTargetCount == [r \in MCRegion |-> 1]
MCSymmetry == Permutations(MCPlayer)
==============================================================================
