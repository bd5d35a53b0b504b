------------------------ MODULE MCScorePersistence ------------------------
(* Small instances of ScorePersistence. *)
EXTENDS ScorePersistence

CONSTANTS u1, u2

MCOne == {u1}
MCTwo == {u1, u2}
==============================================================================
