------------------------------- MODULE MCDump -------------------------------
(* Dump on three small discs: less than one part, two parts and a half, and *)
(* four parts and a half, as the three sizes of get_disk_size_bytes are.    *)
(* A scratch makes a run of at most MaxScratch sectors unreadable, wherever *)
(* it lies.                                                                 *)
EXTENDS Dump

CONSTANTS MaxScratch

MCDiskSizes == {2, 10, 18}
MCScratchedSets == {a .. a + n - 1 : a \in 0 .. 8, n \in 0 .. MaxScratch}
MCLeftoverSets == {{}, {2, 7}}
=============================================================================
