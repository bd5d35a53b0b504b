---------------------------- MODULE MCReplication ----------------------------
(* Small instances of Replication; the unit is 10 m, as in MCAOI. *)
EXTENDS Replication, TLC

CONSTANTS p1, p2

\* Distances: 40 (visible), 60 (kept, but not entered) and 100 (out).
MCPoint == {<<0, 0>>, <<40, 0>>, <<100, 0>>}
MCPlayer == {p1, p2}
MCSymmetry == Permutations(MCPlayer)
==============================================================================
