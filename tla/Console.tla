------------------------------ MODULE Console ------------------------------
(***************************************************************************)
(* What dump shows on the console, through Logger.  The screen is the only *)
(* record of which sectors could not be read, and dump draws over it: each *)
(* pass of the loop moves the cursor up a line, to write its progress over *)
(* that of the pass before, and whatever else a pass prints comes between  *)
(* the two.                                                                *)
(*                                                                         *)
(* Each step of Dump prints its lines in the same step.  A line stands for *)
(* what its text begins with and the numbers that matter.  `screen' is all *)
(* that was printed; of it, only the lines from `top' on can still be      *)
(* seen, because the console has ROWS lines and keeps nothing else.        *)
(***************************************************************************)
EXTENDS Dump

CONSTANTS
  DEBUG,                 \* was the program built with DEBUG=1
  ROWS                   \* the lines the console has

ASSUME DebugAssumption == DEBUG \in BOOLEAN
ASSUME RowsAssumption == ROWS \in Nat /\ ROWS >= 2

VARIABLES
  screen,                \* the lines printed, the first at 1
  row,                   \* the line the cursor is on
  top,                   \* the first line that has not scrolled off
  verboseCount

console == <<screen, row, top, verboseCount>>
cvars == <<vars, console>>

Text(words) == [kind |-> "text", words |-> words]
Progress(done, errors) == [kind |-> "progress", done |-> done, errors |-> errors]
Unread(at) == [kind |-> "unread", at |-> at]

\* What main printed before stands above line 1, as far down as it goes.
CInit ==
  /\ Init
  /\ screen = <<Text("Press Home or Reset to exit.")>> /\ row = 2
  /\ top \in 3 - ROWS .. 1
  /\ verboseCount = 0

-----------------------------------------------------------------------------
(* Logger.                                                                 *)

\* The screen with `lines' written from line `at' on, over what is there.
Over(at, lines) ==
  LET end == at + Len(lines) - 1 IN
    [r \in 1 .. (IF Len(screen) >= end THEN Len(screen) ELSE end) |->
       IF r \in at .. end THEN lines[r - at + 1]
       ELSE IF r \in DOMAIN screen THEN screen[r] ELSE Text("")]

\* libogc's console scrolls as soon as the cursor is below its last line.
Put(at, lines) ==
  /\ screen' = Over(at, lines)
  /\ row' = at + Len(lines)
  /\ top' = IF row' - ROWS >= top THEN row' - ROWS + 1 ELSE top

print(at, lines) == Put(at, lines) /\ UNCHANGED verboseCount

\* A verbose message, which only a debug build prints, before other lines.
verbose(at, words, lines) ==
  IF DEBUG THEN Put(at, <<Text(words)>> \o lines) /\ verboseCount' = verboseCount + 1
           ELSE print(at, lines)

\* Mutant: each pass has a line of its own.
StayDown == row

\* Mutant: the line above the progress is taken for it.
MoveUpTwo == IF row > top + 1 THEN row - 2 ELSE top

\* The cursor does not leave the console.
moveUp == IF row > top THEN row - 1 ELSE row

newline(at) == at + 1

Exiting == Text("Exiting with code")

-----------------------------------------------------------------------------
(* dump, with what it prints.                                              *)

CAllocate == Allocate /\ print(row, <<Text("Taking a dump..."), Progress(0, 0)>>)

CAllocateFails == AllocateFails /\ print(row, <<Text("Failed to allocate buffer.")>>)

CStayInPart == StayInPart /\ print(moveUp, << >>)

COpenPart == OpenPart /\ verbose(moveUp, "New chunk created at file", << >>)

COpenPartFails ==
  OpenPartFails /\ print(newline(moveUp), <<Text("Failed to create file")>>)

CReadSector == (\E ok \in BOOLEAN : ReadSector(ok)) /\ UNCHANGED console

ReadError == Unread(offset)

\* Logger::error adds its own message and resetAfterPause's.
CGiveUp ==
  /\ GiveUp
  /\ print(row, <<ReadError>> \o
       IF cancelOnError THEN <<Text("ERR"), Text("Press A to exit.")>> ELSE << >>)

CWriteSector == WriteSector /\ print(row, <<Progress(offset', errorCount)>>)

CWriteSectorFails == WriteSectorFails /\ print(row, <<Text("Error writing file.")>>)

CPoll(home) ==
  /\ Poll(home)
  /\ IF home THEN print(row, <<Exiting>>) ELSE UNCHANGED console

CFinish == Finish /\ print(row, <<Text("Dump complete")>>)

CAcknowledge == Acknowledge /\ print(row, <<Exiting>>)

\* The interrupt handler prints wherever the cursor is.
CReset == Reset /\ verbose(row, "Received reset callback", <<Exiting>>)

CNext ==
  \/ CAllocate \/ CAllocateFails
  \/ CStayInPart \/ COpenPart \/ COpenPartFails
  \/ CReadSector
  \/ CGiveUp
  \/ CWriteSector \/ CWriteSectorFails
  \/ \E home \in BOOLEAN : CPoll(home)
  \/ CFinish \/ CAcknowledge \/ CReset

CSpec == CInit /\ [][CNext]_cvars

-----------------------------------------------------------------------------
(* Properties.                                                             *)

Texts == {"", "Press Home or Reset to exit.", "Taking a dump...", "Failed to allocate buffer.",
          "New chunk created at file", "Failed to create file", "ERR", "Press A to exit.",
          "Error writing file.", "Exiting with code", "Dump complete", "Received reset callback"}

Lines == [kind : {"text"}, words : Texts]
         \cup [kind : {"progress"}, done : Nat, errors : Nat]
         \cup [kind : {"unread"}, at : Nat]

\* The types: the lines dump prints, and a cursor that never leaves a gap, and is
\* on the console.
CTypeOK ==
  /\ TypeOK
  /\ screen \in Seq(Lines)
  /\ row \in 1 .. Len(screen) + 1
  /\ top \in Int /\ row \in top .. top + ROWS - 1
  /\ verboseCount \in Nat

OfKind(kind) == {r \in DOMAIN screen : screen[r].kind = kind}

Shown(k) == \E r \in OfKind("unread") : r >= top /\ screen[r].at = k * SECTOR_SIZE

\* The lines from the message of sector k down to the cursor's: the messages of later
\* sectors, those of new parts, the progress, and that the dump is complete.
LinesBelow(k) ==
  Cardinality({j \in k + 1 .. lba - 1 : Dumped(j) = Zero})
  + (IF DEBUG THEN chunk_index - 1 - PartOf(k) ELSE 0)
  + (IF Complete THEN 3 ELSE 2)

\* A sector that was passed as zeros is named on the console, by its place on the
\* disc, for as long as a console of ROWS lines can do so: nothing but later
\* messages and parts pushes its name off, no pass of the loop draws over it, and no
\* line is wasted.  The names of older ones are lost, and are nowhere else: with more
\* errors than fit the user has only their number (disk.cpp:47, 60, 76, 99).
LatestNamed == Running \/ Complete =>
  \A k \in 0 .. lba - 1 :
    Dumped(k) = Zero /\ LinesBelow(k) < ROWS => Shown(k)

\* What is printed of unreadable sectors is true: each message is of a sector that no
\* attempt can read, no sector has two, and there are as many messages as errors
\* counted.  So none is left by a try that failed before one that worked, and none
\* is missing, though the first may have scrolled off (disk.cpp:69-76).
MessagesExact ==
  /\ \A r \in OfKind("unread") : \E k \in scratched : screen[r].at = k * SECTOR_SIZE
  /\ \A r, s \in OfKind("unread") : screen[r].at = screen[s].at => r = s
  /\ Cardinality(OfKind("unread")) = errorCount

\* Between two sectors the line above the cursor is the progress made so far, and
\* it is the only one: no message of a pass, of a new part or of a debug build
\* makes the next pass miss the line it is to replace.
ProgressInPlace == pc \in {"poll", "loop"} =>
  /\ OfKind("progress") = {row - 1} /\ row - 1 >= top
  /\ screen[row - 1] = Progress(offset, errorCount)

\* Nothing but a line of progress is ever drawn over, not by a failure and not by
\* the reset button striking in the middle of a pass either.
OnlyProgressReplaced ==
  [][\A r \in DOMAIN screen :
       r \in DOMAIN screen' /\ (screen'[r] # screen[r] => screen[r].kind = "progress")]_cvars
=============================================================================
