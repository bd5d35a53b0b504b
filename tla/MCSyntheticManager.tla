------------------------- MODULE MCSyntheticManager -------------------------
(* Two accounts, the service and the synthetic-provision command; an account *)
(* may exist complete, or from before the migration, unmarked and bare.      *)
EXTENDS SyntheticManager
CONSTANTS service, command

MCBoth == {service, command}
MCOne == {service}
MCRow == {[marked |-> FALSE, looks |-> FALSE, pos |-> "none"]}
==============================================================================
