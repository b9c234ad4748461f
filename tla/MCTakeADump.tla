---------------------------- MODULE MCTakeADump ----------------------------
(* The whole program with a GameCube disc of one sector, a scratched Wii    *)
(* disc with one layer and two sectors, and a Wii disc with two layers and  *)
(* three sectors, which takes two parts.  The probed sector is the second.  *)
EXTENDS TakeADump

NGC_MAGIC == "C2339F3D"
WII_MAGIC == "5D1C9EA3"

Disc(magic, layers, sectors, bad) ==
  [magic |-> magic, media |-> "pressed", layers |-> layers, sectors |-> sectors, bad |-> bad]

Gamecube == Disc(NGC_MAGIC, 1, 1, {})
Scratched == Disc(WII_MAGIC, 1, 2, {0})
Dual == Disc(WII_MAGIC, 2, 3, {})

ThreeDiscs == {Gamecube, Scratched, Dual}
TwoDiscs == {Scratched, Dual}
OneDisc == {Dual}
=============================================================================
