----------------------------- MODULE MCDvdDrive -----------------------------
(* DvdDrive with one disc of each kind the code treats differently, and one *)
(* whose probed sector is scratched.  The probe lies inside every disc.     *)
EXTENDS DvdDrive

Disc(magic, media, layers, sectors, bad) ==
  [magic |-> magic, media |-> media, layers |-> layers, sectors |-> sectors, bad |-> bad]

Gamecube == Disc(NGC_MAGIC, "pressed", 1, 2, {1})
Single == Disc(WII_MAGIC, "pressed", 1, 3, {})
Scratched == Disc(WII_MAGIC, "pressed", 1, 3, {1})
Dual == Disc(WII_MAGIC, "pressed", 2, 4, {3})
Burnt == Disc(WII_MAGIC, "dvdr", 1, 3, {0})
Movie == Disc("other", "pressed", 1, 1, {})

MCDiscs == {Gamecube, Single, Scratched, Dual, Burnt, Movie}
=============================================================================
