------------------------------ MODULE MCRedump ------------------------------
(* Three dumps, each of a disc of one part, two full parts, or two parts     *)
(* and a half.                                                               *)
EXTENDS Redump

MCDiskSizes == {1, 4, 5}
=============================================================================
