----------------------------- MODULE TakeADump -----------------------------
(***************************************************************************)
(* The whole program, from power-on to exit: main of Frontend calls the    *)
(* drive access of DvdDrive and then the dump of Dump, whose reads are the *)
(* drive's.  A step of a component that calls another is a step of both;   *)
(* the user may press buttons, open the tray and reset at any moment.      *)
(*                                                                         *)
(* Here a sector's contents are what the drive delivers, <<disc, k>>, and  *)
(* nothing says in advance which sectors can be read.                      *)
(***************************************************************************)
EXTENDS Integers, Sequences, FiniteSets

CONSTANTS
  Buttons,                                               \* of Frontend
  Discs, NGC_SIZE, WII_SINGLE_SIZE, WII_DUAL_SIZE,       \* of DvdDrive
  LAYER_PROBE, SECTOR_WORDS, MaxSwaps,
  SECTOR_SIZE, CHUNK_SIZE, Zero,                         \* of Dump
  Junk, NULL

VARIABLES
  \* main
  mainpc, releasing, cancelOnError, driveFs, driveType, mounted, identified,
  outcome, held, shown, used,
  \* drive access; asked, got and block are a call of DVD_LowRead64
  drivepc, read_cmd, di_fd, globalDiskId, type, asked, got, block,
  deint, busy, cmd, imm, lowmem, ram, cache, dirty, disc, ready, sense, answer, swaps,
  \* the dump
  dumppc, buffer, fp, offset, chunk_index, chunk_offset, remaining, lba,
  ret, tries, errorCount, result, files, opened, synced

F == INSTANCE Frontend WITH pc <- mainpc

D == INSTANCE DvdDrive WITH pc <- drivepc, lba <- asked, ret <- got, buffer <- block

\* main passes the size that belongs to the type of the disc.
diskSize == D!DiskSize * SECTOR_SIZE

W == INSTANCE Dump WITH
  pc <- dumppc,
  DiskSizes <- {n * SECTOR_SIZE : n \in {NGC_SIZE, WII_SINGLE_SIZE, WII_DUAL_SIZE}},
  scratched <- {}, ScratchedSets <- {{}}, FlakyFailures <- 0,
  LeftoverSets <- {{}}, Old <- Junk

ASSUME ButtonsAssumption ==
  Buttons \subseteq {"A", "B", "1", "2", "MINUS", "PLUS", "HOME"}

ASSUME SizesAssumption ==
  /\ {NGC_SIZE, WII_SINGLE_SIZE, WII_DUAL_SIZE} \subseteq Nat \ {0}
  /\ LAYER_PROBE \in Nat /\ SECTOR_WORDS \in Nat \ {0} /\ MaxSwaps \in Nat
  /\ SECTOR_SIZE \in Nat \ {0} /\ CHUNK_SIZE \in Nat \ {0}
  /\ CHUNK_SIZE = (CHUNK_SIZE \div SECTOR_SIZE) * SECTOR_SIZE

ASSUME DiscsAssumption == \A d \in Discs :
  /\ d.magic \in {D!WII_MAGIC, D!NGC_MAGIC, "other"}
  /\ d.media \in {"pressed", "dvdr"} /\ d.layers \in {1, 2}
  /\ d.sectors \in Nat /\ d.bad \subseteq Nat
  /\ d.magic = D!NGC_MAGIC => d.sectors <= NGC_SIZE
  /\ d.magic = D!WII_MAGIC => d.sectors <= WII_DUAL_SIZE

ASSUME MarksAssumption ==
  /\ NULL \notin Discs /\ NULL \notin Int /\ NULL \notin D!DiskTypes \cup {"ok", "error"}
  /\ Zero \notin Nat /\ Junk \notin Nat /\ {Zero, Junk} \cap (Discs \X Nat) = {}
  /\ Zero # Junk /\ Zero # NULL /\ Junk # NULL

main == <<mainpc, releasing, cancelOnError, driveFs, driveType, mounted,
          identified, outcome, held, shown, used>>
drive == <<drivepc, read_cmd, di_fd, globalDiskId, type, asked, got, block,
           deint, busy, cmd, imm, lowmem, ram, cache, dirty, disc, ready, sense,
           answer, swaps>>
loop == <<dumppc, buffer, fp, offset, chunk_index, chunk_offset, lba,
          ret, tries, errorCount, result, files, opened, synced>>
dump == <<loop, remaining>>
vars == <<main, drive, dump>>

Init ==
  /\ F!Init /\ D!Init
  /\ dumppc = "alloc" /\ buffer = NULL /\ fp = NULL /\ result = NULL
  /\ offset = 0 /\ chunk_index = 1 /\ chunk_offset = 0 /\ lba = 0 /\ remaining = 0
  /\ ret = -1 /\ tries = 0 /\ errorCount = 0
  /\ files = << >> /\ opened = {} /\ synced = {}

-----------------------------------------------------------------------------
(* Before the dump.                                                        *)

Prompt ==
  /\ F!waitForA \/ F!Menu \/ \E ok \in BOOLEAN : F!Mount(ok)
  /\ UNCHANGED <<drive, dump>>

\* Mutant: the size of a single-layer disc is always passed.
CallWithOneSize == remaining' = WII_SINGLE_SIZE * SECTOR_SIZE

\* remaining = diskSize;
CallDump == remaining' = diskSize

\* From the start prompt main calls the dump; from the exit prompt it exits, and
\* so does a Logger::error inside the dump.
PromptReleased ==
  /\ F!waitForButtonRelease
  /\ UNCHANGED drive
  /\ IF mainpc = "start" THEN CallDump ELSE UNCHANGED remaining
  /\ IF mainpc = "exit" /\ dumppc = "error" THEN W!Acknowledge ELSE UNCHANGED loop

InitializeDisk ==
  /\ mainpc = "init"
  /\ \/ D!InitializeDisk /\ UNCHANGED main
     \/ drivepc = "identify" /\ F!InitializeDisk(0) /\ UNCHANGED drive
     \/ drivepc = "failed" /\ F!InitializeDisk(-1) /\ UNCHANGED drive
  /\ UNCHANGED dump

IdentifyDisk ==
  /\ mainpc = "identify"
  /\ \/ D!IdentifyDisk /\ UNCHANGED main
     \/ drivepc \in {"idle", "failed"} /\ F!IdentifyDisk(drivepc = "idle") /\ UNCHANGED drive
  /\ UNCHANGED dump

-----------------------------------------------------------------------------
(* The dump.                                                               *)

DumpOnly ==
  /\ mainpc = "dump"
  /\ UNCHANGED <<main, drive>>
  /\ \/ W!Allocate \/ W!AllocateFails
     \/ W!StayInPart \/ W!OpenPart \/ W!OpenPartFails
     \/ W!WriteSector \/ W!WriteSectorFails
     \/ "HOME" \notin held /\ W!Poll(FALSE)
     \/ W!Finish

\* Mutant: the drive is asked for the sector after.
ReadAhead == D!StartRead(lba + 1)

ReadNext == D!StartRead(lba)

ReadBegins ==
  /\ mainpc = "dump" /\ dumppc = "read" /\ ret # 0 /\ tries < W!MAX_TRIES
  /\ ReadNext
  /\ UNCHANGED <<main, dump>>

\* Inside DVD_LowRead64.
LinesDropped ==
  /\ mainpc = "dump"
  /\ D!DCInvalidateRange("starting", "reading")
  /\ UNCHANGED <<main, dump>>

ReadEnds ==
  /\ mainpc = "dump"
  /\ D!EndRead
  /\ UNCHANGED main
  /\ W!Attempt(got', block')

\* Zeros take the sector's place in the drive's buffer.
GiveUp ==
  /\ mainpc = "dump"
  /\ UNCHANGED main
  /\ IF cancelOnError THEN UNCHANGED drive ELSE D!memset
  /\ W!GiveUp

HomeInDump ==
  /\ F!HomeInDump
  /\ UNCHANGED drive
  /\ W!Poll(TRUE)

Outcome == IF dumppc = "returned" /\ result = 0 THEN "ok" ELSE "error"

DumpEnds ==
  /\ dumppc \in {"returned", "error"}
  /\ F!DumpEnds(Outcome)
  /\ UNCHANGED <<drive, dump>>

Dumping ==
  DumpOnly \/ ReadBegins \/ LinesDropped \/ ReadEnds \/ GiveUp \/ HomeInDump \/ DumpEnds

-----------------------------------------------------------------------------
(* What happens to the program.                                            *)

\* exit() closes the streams of a dump under way.
Reset ==
  /\ F!Reset
  /\ UNCHANGED drive
  /\ IF dumppc \in {"alloc", "returned"} THEN UNCHANGED dump ELSE W!Reset

DriveAnswers ==
  /\ mainpc # "exited"
  /\ D!Answer
  /\ UNCHANGED <<main, dump>>

\* Before the drive is reset, nobody knows what is in the tray anyway.
TrayUsed ==
  /\ mainpc # "exited" /\ drivepc # "reset"
  /\ D!Swap
  /\ UNCHANGED <<main, dump>>

\* Between two reads nobody looks at what is below the cache: a line written back
\* then might as well be after the next command.
LinesEvicted ==
  /\ mainpc # "exited" /\ drivepc \in {"probing", "starting"}
  /\ D!Evict
  /\ UNCHANGED <<main, dump>>

ButtonMoves ==
  /\ mainpc # "exited"
  /\ F!User
  /\ UNCHANGED <<drive, dump>>

-----------------------------------------------------------------------------
Next ==
  \/ Prompt \/ PromptReleased \/ InitializeDisk \/ IdentifyDisk \/ Dumping
  \/ Reset \/ DriveAnswers \/ TrayUsed \/ LinesEvicted \/ ButtonMoves

Spec == Init /\ [][Next]_vars

\* The dump's thread runs, and the drive answers every command some way.
FairSpec == Spec /\ WF_vars(Dumping) /\ WF_vars(DriveAnswers)

-----------------------------------------------------------------------------
(* Properties.                                                             *)

Called == dumppc # "alloc"
Begun == mainpc = "dump" \/ Called     \* the dump has its parameters

TypeOK ==
  /\ F!TypeOK /\ D!TypeOK
  /\ Begun => W!TypeOver((Discs \X Nat) \cup {Zero, Junk})
  \* who has control: main, drive access, or the dump
  /\ mainpc \in {"start", "dump"} => D!Identified
  /\ Called => D!Identified /\ mainpc \in {"dump", "pause", "exit", "exited"}
  /\ drivepc \in {"starting", "reading"} /\ mainpc # "exited" => dumppc = "read" /\ asked = lba

\* Whatever happens to the tray, the drive and the program, what has been dumped
\* so far is, sector by sector, the disc that was identified, or zeros: no
\* sector of another disc, of another place, or of an earlier transfer
\* (disk.cpp:70 with disk.hpp:138-154).
ImageOfDisc == \A k \in 0 .. lba - 1 : W!Dumped(k) \in {<<globalDiskId, k>>, Zero}

\* The places of the copy that do not hold what is there on the disc, and the sectors
\* of the disc that are not in the copy, or not in it as they should be.
Wrong == {k \in 0 .. lba - 1 : W!Dumped(k) # <<globalDiskId, k>>}
Missing == {k \in 0 .. globalDiskId.sectors - 1 : k >= lba \/ k \in Wrong}

\* A dump reported as a success is as long as the type of the disc says, and as many
\* places of it are wrong as errors were counted, whatever was done with the tray while
\* it ran: no retry is counted, and no sector inside the copy is lost uncounted.  With
\* "stop on read error" on, none is.  A sector of the disc that the copy lacks without
\* an error having been counted lies beyond the size of a single layer, on a disc taken
\* for single-layer, and nowhere else (disk.cpp:69-83, 108; CompleteMeansWhole shows
\* that such sectors can be lost).
OkMeansExact == outcome = "ok" =>
  /\ lba = D!DiskSize
  /\ Cardinality(Wrong) = errorCount
  /\ cancelOnError => errorCount = 0
  /\ \A k \in Missing \ Wrong : type = "IS_WII_SINGLE_DISK" /\ k >= WII_SINGLE_SIZE

\* The program is a user of the drive access as DvdDrive describes it: main and
\* the dump call it in its order, one call at a time, and never read beyond the
\* size of the disc, whatever the retries (disk.cpp:44, 69-72).
DriveSpec == D!Spec

\* The whole program implements DiscCopy: seen from outside, it copies one disc, the
\* one main identified, in order and to the size of its kind, never alters what it
\* has copied, and reports a success of nothing less.  The parts may be reopened, torn
\* or broken off below it, and discs exchanged (main.cpp:149-174 with disk.cpp).
Copying == INSTANCE DiscCopy WITH
  Sizes <- [d \in Discs |-> IF d.magic = D!NGC_MAGIC THEN {NGC_SIZE}
                                                     ELSE {WII_SINGLE_SIZE, WII_DUAL_SIZE}],
  disc <- IF identified THEN globalDiskId ELSE NULL,
  size <- IF identified THEN D!DiskSize ELSE 0,
  skipping <- identified /\ ~cancelOnError,
  length <- lba,
  image <- [k \in 0 .. lba - 1 |-> W!Dumped(k)],
  status <- IF outcome # NULL THEN outcome ELSE IF mainpc = "exited" THEN "exited" ELSE "running"

CopySpec == Copying!Spec

\* The steps that a dump still has to take, at worst, until its report: thirteen for a
\* sector, of which each of the three reads takes three.
StepsToReport ==
  IF mainpc # "dump" THEN 0 ELSE
    LET toDo == W!SectorsLeft * (3 * W!MAX_TRIES + 4) IN
    CASE dumppc \in {"alloc", "poll"} -> toDo + 3
      [] dumppc = "loop" -> toDo + 2
      [] dumppc = "read" -> toDo + 1 - 3 * tries - (CASE drivepc = "starting" -> 1
                                                      [] drivepc = "reading" -> 2
                                                      [] OTHER -> 0)
      [] dumppc = "write" -> toDo - 3 * W!MAX_TRIES
      [] OTHER -> 1

\* Each step of the dumping program brings the report nearer, and nothing that happens
\* beside it, at the drive, the tray or the buttons, puts it off (disk.cpp:44-101 with
\* disk.hpp:138-154): what DumpIsOver leaves open, how long it takes.
ReportNearer ==
  [][mainpc = "dump" => /\ StepsToReport' \in 0 .. StepsToReport
                        /\ Dumping => StepsToReport' < StepsToReport]_vars

\* A dump that is begun gets to its report or the exit by itself, whatever the
\* drive answers and whatever the user does with the tray and the buttons: no
\* handshake between the loop and the drive is left hanging.
DumpIsOver == mainpc = "dump" ~> mainpc \in {"pause", "exited"}

\* disk.cpp:108 says "Dump complete after %d minutes!": with no errors counted,
\* all of the disc is in the parts.
CompleteMeansWhole ==
  result = 0 /\ errorCount = 0 => \A k \in 0 .. globalDiskId.sectors - 1 :
                                    W!Dumped(k) = <<globalDiskId, k>>
=============================================================================
