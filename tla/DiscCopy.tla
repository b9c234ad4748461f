------------------------------ MODULE DiscCopy ------------------------------
(***************************************************************************)
(* What the program as a whole promises its user, without drive, memory,   *)
(* files, prompts or retries.  One disc is identified, and with it the     *)
(* size its kind has and whether unreadable sectors are to be skipped; from*)
(* then on these stay.  Sector by sector a copy of that disc grows, and    *)
(* what is in it never changes again; a zeroed sector enters it only when  *)
(* skipping is on.  Success is reported of a copy of the whole size only,  *)
(* and after a report, or an exit, nothing happens any more.               *)
(***************************************************************************)
EXTENDS Integers

CONSTANTS
  Discs,
  Sizes,                 \* disc -> the sizes its kind may be given, in sectors
  Zero,                  \* a sector of zeros
  NULL                   \* no disc yet

VARIABLES
  disc,                  \* the disc that is copied
  size,                  \* the number of its sectors to copy
  skipping,              \* are unreadable sectors to be replaced by zeros?
  length,                \* the number of sectors in the copy
  image,                 \* sector number -> contents
  status                 \* "running", "ok", "error" or "exited"

chosen == <<disc, size, skipping>>
copy == <<length, image>>
vars == <<chosen, copy, status>>

Init ==
  /\ disc = NULL /\ size = 0 /\ skipping = FALSE
  /\ length = 0 /\ image = [k \in 0 .. -1 |-> Zero]
  /\ status = "running"

Identify ==
  /\ status = "running" /\ disc = NULL
  /\ disc' \in Discs
  /\ size' \in Sizes[disc']
  /\ skipping' \in BOOLEAN
  /\ UNCHANGED <<copy, status>>

\* What sector k of the disc may be copied as.
Copies(k) == {<<disc, k>>} \cup {z \in {Zero} : skipping}

Extend ==
  /\ status = "running" /\ length < size
  /\ length' = length + 1
  /\ \E block \in Copies(length) :
       image' = [k \in 0 .. length |-> IF k = length THEN block ELSE image[k]]
  /\ UNCHANGED <<chosen, status>>

Succeed ==
  /\ status = "running" /\ disc # NULL /\ length = size
  /\ status' = "ok"
  /\ UNCHANGED <<chosen, copy>>

Fail ==
  /\ status = "running"
  /\ status' \in {"error", "exited"}
  /\ UNCHANGED <<chosen, copy>>

Next == Identify \/ Extend \/ Succeed \/ Fail

Spec == Init /\ [][Next]_vars
=============================================================================
