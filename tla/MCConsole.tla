----------------------------- MODULE MCConsole -----------------------------
(* The console during a dump of less than one part, and of two parts and a  *)
(* half; a scratch of at most three sectors may lie anywhere.  The console  *)
(* has so few lines that messages scroll off it.                            *)
EXTENDS Console

MCDiskSizes == {2, 10}
MCScratchedSets == {a .. a + n - 1 : a \in 0 .. 4, n \in 0 .. 3}
=============================================================================
