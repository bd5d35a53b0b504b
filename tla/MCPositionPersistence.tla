----------------------- MODULE MCPositionPersistence -----------------------
(* Small instances of PositionPersistence. *)
EXTENDS PositionPersistence

CONSTANTS u1, u2

MCOne == {u1}
MCTwo == {u1, u2}
==============================================================================
