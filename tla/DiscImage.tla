----------------------------- MODULE DiscImage -----------------------------
(***************************************************************************)
(* What a dump promises, without files, buffers, retries or counters: an   *)
(* image of the disc that only grows, one sector at a time and in order.   *)
(* A readable sector enters the image as it is on the disc; an unreadable  *)
(* one enters it as zeros, and only when skipping is on (README.md of the  *)
(* repository, "What is this?").  The dump is complete only when the image *)
(* holds every sector, and it may stop early at any moment.                *)
(***************************************************************************)
EXTENDS Integers

CONSTANTS Zero           \* a sector of zeros

VARIABLES
  scratched,             \* the sectors of the disc that cannot be read
  sectors,               \* the number of sectors to dump
  skipping,              \* are unreadable sectors to be replaced by zeros?
  length,                \* the number of sectors in the image
  image,                 \* sector number -> contents
  status                 \* "dumping", "complete" or "stopped"

vars == <<scratched, sectors, skipping, length, image, status>>

Contents(k) == IF k \in scratched THEN Zero ELSE k

Init ==
  /\ scratched \in SUBSET Nat
  /\ sectors \in Nat \ {0}
  /\ skipping \in BOOLEAN
  /\ length = 0
  /\ image = [k \in 0 .. -1 |-> Zero]
  /\ status = "dumping"

Extend ==
  /\ status = "dumping"
  /\ length < sectors
  /\ length \in scratched => skipping
  /\ length' = length + 1
  /\ image' = [k \in 0 .. length |-> IF k = length THEN Contents(k) ELSE image[k]]
  /\ UNCHANGED <<scratched, sectors, skipping, status>>

Finish ==
  /\ status = "dumping"
  /\ length = sectors
  /\ status' = "complete"
  /\ UNCHANGED <<scratched, sectors, skipping, length, image>>

Stop ==
  /\ status = "dumping"
  /\ status' = "stopped"
  /\ UNCHANGED <<scratched, sectors, skipping, length, image>>

Next == Extend \/ Finish \/ Stop

Spec == Init /\ [][Next]_vars

FairSpec == Spec /\ WF_vars(Next)
=============================================================================
