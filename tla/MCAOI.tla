-------------------------------- MODULE MCAOI --------------------------------
(* Three players on seven points, one unit standing for 10 m: the lengths    *)
(* are those of AOIConfigFromWorld (600, 500, 600, 50 m).  The points sit at *)
(* the edges of the rules: steps of 4 (the scan is skipped), of 5 and more   *)
(* (it is not), pairs between 39 and 68 apart, around 43, 50, 56 and 60, two *)
(* points 8 apart around a third, so that a player can drift back and forth  *)
(* past its marker, and three cells, one of them negative.                   *)
EXTENDS AOI
CONSTANTS p1, p2, p3

MCPlayer == {p1, p2, p3}
MCPoint == {<<0, 0>>, <<4, 0>>, <<43, 0>>, <<47, 0>>, <<51, 0>>,
            <<63, 0>>, <<-5, -5>>}
==============================================================================
