-------------------------------- MODULE Dump --------------------------------
(***************************************************************************)
(* DiskManager::dump of source/disk.cpp: copy the disc, sector by sector,  *)
(* into a series of files <game>.part1.iso, <game>.part2.iso, ...          *)
(*                                                                         *)
(* One action per step of the loop, so that the reset button (an interrupt *)
(* handler that calls exit) can strike between any two.  A sector's data   *)
(* is its number: reading sector k of the disc gives the value k.          *)
(*                                                                         *)
(* The drive, the file system and the user are external.  Which sectors    *)
(* cannot be read is fixed in advance by `scratched': a sector is in it    *)
(* iff it will fail every attempt, and a sector outside it fails at most   *)
(* FlakyFailures times in a row before it is read.                         *)
(***************************************************************************)
EXTENDS Integers, Sequences, FiniteSets

CONSTANTS
  SECTOR_SIZE,           \* bytes per sector
  CHUNK_SIZE,            \* bytes after which the next part file is started
  DiskSizes,             \* the values get_disk_size_bytes can return
  FlakyFailures,         \* failures in a row a readable sector may show
  ScratchedSets,         \* the possible sets of unreadable sectors
  LeftoverSets,          \* parts of an earlier dump that may be on the drive
  Zero, Junk, Old,       \* a zeroed sector; garbage; a block of an older dump
  NULL                   \* a null pointer

MAX_TRIES == 3

SectorsPerChunk == CHUNK_SIZE \div SECTOR_SIZE

ASSUME SizesAssumption ==
  /\ SECTOR_SIZE \in Nat \ {0}
  /\ CHUNK_SIZE \in Nat \ {0}
  /\ CHUNK_SIZE = SectorsPerChunk * SECTOR_SIZE
  /\ DiskSizes \subseteq Nat \ {0}
  /\ \A size \in DiskSizes : size = (size \div SECTOR_SIZE) * SECTOR_SIZE

ASSUME EnvironmentAssumption ==
  /\ FlakyFailures \in 0 .. MAX_TRIES - 1
  /\ \A s \in ScratchedSets : s \subseteq Nat
  /\ \A s \in LeftoverSets : s \subseteq Nat \ {0}

ASSUME MarksAssumption ==
  /\ Zero \notin Nat /\ Junk \notin Nat /\ Old \notin Nat /\ NULL \notin Int
  /\ Zero # Junk /\ Zero # Old /\ Zero # NULL /\ Junk # NULL

VARIABLES
  \* the parameters of the call
  diskSize, cancelOnError,
  \* the locals of dump, and the globals it updates
  pc, buffer, fp, offset, chunk_index, chunk_offset, remaining, lba,
  ret, tries, errorCount, result,
  \* the runtime and the drive's file system
  files,                 \* part number -> blocks of the file
  opened,                \* parts with an open stream
  synced,                \* parts whose last close reached the medium
  \* the disc
  scratched

params == <<diskSize, cancelOnError, scratched>>
counters == <<offset, chunk_offset, remaining, lba>>
attempt == <<ret, tries>>
fs == <<files, opened, synced>>
vars == <<params, counters, attempt, fs, pc, buffer, fp, chunk_index,
          errorCount, result>>

Init ==
  /\ diskSize \in DiskSizes
  /\ cancelOnError \in BOOLEAN
  /\ scratched \in ScratchedSets
  /\ pc = "alloc"
  /\ buffer = NULL /\ fp = NULL /\ result = NULL
  /\ offset = 0 /\ chunk_index = 1 /\ chunk_offset = 0 /\ lba = 0
  /\ remaining = diskSize
  /\ ret = -1 /\ tries = 0 /\ errorCount = 0
  /\ opened = {}
  /\ \E s \in LeftoverSets : files = [p \in s |-> <<Old>>] /\ synced = s

-----------------------------------------------------------------------------
(* The C library and the file system, as dump uses them.                   *)

\* A stream is closed; dump ignores fclose's result, so the data that was
\* still cached may or may not have reached the medium.
FlushedBy(streams) == {synced, synced \cup streams}

\* exit() closes every open stream in the same way.
Exit ==
  /\ pc' = "exited"
  /\ opened' = {}
  /\ synced' \in FlushedBy(opened)

\* Mutant: the way out forgets what dump holds.
NoCleanUp == UNCHANGED <<opened, synced, fp, buffer>>

\* fclose(fp); free(buffer);
CleanUp ==
  /\ opened' = opened \ {fp}
  /\ synced' \in FlushedBy(opened \cap {fp})
  /\ fp' = NULL /\ buffer' = NULL

\* Mutant: the result of the last read is returned instead.
ReturnRet(code) == result' = ret /\ pc' = "returned"

Return(code) == result' = code /\ pc' = "returned"

\* What an interrupted or short fwrite of a sector leaves in the open part.
Torn == {files, [files EXCEPT ![fp] = Append(@, Junk)]}

-----------------------------------------------------------------------------
Allocate ==
  /\ pc = "alloc"
  /\ pc' = "loop"
  /\ buffer' = Junk
  /\ UNCHANGED <<params, counters, attempt, fs, fp, chunk_index, errorCount, result>>

AllocateFails ==
  /\ pc = "alloc"
  /\ Return(1)
  /\ UNCHANGED <<params, counters, attempt, fs, buffer, fp, chunk_index, errorCount>>

\* Mutant: the last sector of the disc is left out.
MoreThanASector == remaining > SECTOR_SIZE

MoreToRead == remaining > 0

\* Mutant: a part gets one sector too many.
NeedsPartLate == fp = NULL \/ chunk_offset > CHUNK_SIZE

NeedsPart == fp = NULL \/ chunk_offset >= CHUNK_SIZE

\* Mutant: the tries of one sector count against the next.
KeepTries ==
  /\ pc' = "read"
  /\ ret' = -1
  /\ UNCHANGED tries

\* int ret = -1; int tries = 0;
StartReading ==
  /\ pc' = "read"
  /\ ret' = -1
  /\ tries' = 0

StayInPart ==
  /\ pc = "loop" /\ MoreToRead /\ ~NeedsPart
  /\ StartReading
  /\ UNCHANGED <<params, counters, fs, buffer, fp, chunk_index, errorCount, result>>

\* Mutant: the parts that would come after this one are removed.
TruncatedWithRest(part) ==
  [p \in {q \in DOMAIN files : q < part} \cup {part} |->
     IF p = part THEN <<>> ELSE files[p]]

\* Mutant: the mode is "ab".
OpenedToAppend(part) ==
  [p \in DOMAIN files \cup {part} |-> IF p \in DOMAIN files THEN files[p] ELSE <<>>]

\* The mode is "wb": a file of that name left by an earlier dump is emptied.
Truncated(part) ==
  [p \in DOMAIN files \cup {part} |-> IF p = part THEN <<>> ELSE files[p]]

OpenPart ==
  /\ pc = "loop" /\ MoreToRead /\ NeedsPart
  /\ files' = Truncated(chunk_index)
  /\ opened' = (opened \ {fp}) \cup {chunk_index}
  /\ \E s \in FlushedBy(opened \cap {fp}) : synced' = s \ {chunk_index}
  /\ fp' = chunk_index
  /\ chunk_index' = chunk_index + 1
  /\ chunk_offset' = 0
  /\ StartReading
  /\ UNCHANGED <<params, offset, remaining, lba, buffer, errorCount, result>>

OpenPartFails ==
  /\ pc = "loop" /\ MoreToRead /\ NeedsPart
  /\ CleanUp /\ Return(-2)
  /\ chunk_index' = chunk_index + 1
  /\ UNCHANGED <<params, counters, attempt, files, errorCount>>

\* Mutant: the retries are not counted.
TryForEver == UNCHANGED tries

CountTry == tries' = tries + 1

\* One call of DVD_LowRead64(buffer, read_size, lba << 11): what it returns, and
\* what is in the buffer then.
Attempt(code, data) ==
  /\ pc = "read" /\ ret # 0 /\ tries < MAX_TRIES
  /\ ret' = code
  /\ buffer' = data
  /\ pc' = IF code = 0 THEN "write" ELSE "read"
  /\ CountTry
  /\ UNCHANGED <<params, counters, fs, fp, chunk_index, errorCount, result>>

\* A failed command leaves garbage in the buffer.
ReadSector(ok) ==
  /\ lba \in scratched => ~ok
  /\ lba \notin scratched /\ tries >= FlakyFailures => ok
  /\ IF ok THEN Attempt(0, lba) ELSE Attempt(1, Junk)

\* Mutant: every failed attempt is counted as an error.
CountTries == errorCount' = errorCount + tries

CountError == errorCount' = errorCount + 1

\* Mutant: Logger::error returns.
SkipSector == pc' = "write" /\ buffer' = Zero

\* Logger::error does not return; without it the sector becomes zeros.
StopOrSkip ==
  IF cancelOnError THEN pc' = "error" /\ UNCHANGED buffer
                   ELSE pc' = "write" /\ buffer' = Zero

\* The retries are used up.
GiveUp ==
  /\ pc = "read" /\ ret # 0 /\ tries >= MAX_TRIES
  /\ CountError
  /\ StopOrSkip
  /\ UNCHANGED <<params, counters, attempt, fs, fp, chunk_index, result>>

ReadSize == IF remaining > SECTOR_SIZE THEN SECTOR_SIZE ELSE remaining

\* Mutant: what remains is counted in sectors.
AdvanceInSectors(n) ==
  /\ lba' = lba + n \div SECTOR_SIZE
  /\ offset' = offset + n
  /\ chunk_offset' = chunk_offset + n
  /\ remaining' = remaining - n \div SECTOR_SIZE

Advance(n) ==
  /\ lba' = lba + n \div SECTOR_SIZE
  /\ offset' = offset + n
  /\ chunk_offset' = chunk_offset + n
  /\ remaining' = remaining - n

WriteSector ==
  /\ pc = "write"
  /\ files' = [files EXCEPT ![fp] = Append(@, buffer)]
  /\ Advance(ReadSize)
  /\ pc' = "poll"
  /\ UNCHANGED <<params, attempt, opened, synced, buffer, fp, chunk_index, errorCount, result>>

WriteSectorFails ==
  /\ pc = "write"
  /\ files' \in Torn
  /\ CleanUp /\ Return(-2)
  /\ UNCHANGED <<params, counters, attempt, chunk_index, errorCount>>

\* The Home button is looked at once per sector; Global::reset exits.
Poll(home) ==
  /\ pc = "poll"
  /\ IF home THEN Exit ELSE pc' = "loop" /\ UNCHANGED <<opened, synced>>
  /\ UNCHANGED <<params, counters, attempt, files, buffer, fp, chunk_index, errorCount, result>>

Finish ==
  /\ pc = "loop" /\ ~MoreToRead
  /\ CleanUp /\ Return(0)
  /\ UNCHANGED <<params, counters, attempt, files, chunk_index, errorCount>>

\* The user has answered "Press A to exit." after an unrecovered error.
Acknowledge ==
  /\ pc = "error"
  /\ Exit
  /\ UNCHANGED <<params, counters, attempt, files, buffer, fp, chunk_index, errorCount, result>>

\* reset_callback: the reset button's interrupt handler calls exit.
Reset ==
  /\ pc \notin {"returned", "exited"}
  /\ Exit
  /\ files' \in IF pc = "write" THEN Torn ELSE {files}
  /\ UNCHANGED <<params, counters, attempt, buffer, fp, chunk_index, errorCount, result>>

-----------------------------------------------------------------------------
DumpStep ==
  \/ Allocate \/ AllocateFails
  \/ StayInPart \/ OpenPart \/ OpenPartFails
  \/ \E ok \in BOOLEAN : ReadSector(ok)
  \/ GiveUp
  \/ WriteSector \/ WriteSectorFails
  \/ \E home \in BOOLEAN : Poll(home)
  \/ Finish

Next == DumpStep \/ Acknowledge \/ Reset

Spec == Init /\ [][Next]_vars

\* The thread runs and every command is answered; the user owes nothing.
FairSpec == Spec /\ WF_vars(DumpStep)

-----------------------------------------------------------------------------
(* Properties.                                                             *)

Running == pc \in {"alloc", "loop", "read", "write", "poll"}
Stopped == pc \in {"returned", "error", "exited"}
Complete == result = 0
Parts == 1 .. chunk_index - 1          \* the parts this dump has started

\* The types, when a block of a file is one of `blocks'.
TypeOver(blocks) ==
  /\ diskSize \in DiskSizes /\ cancelOnError \in BOOLEAN
  /\ scratched \in ScratchedSets
  /\ Running \/ Stopped
  /\ buffer \in blocks \cup {NULL}
  /\ fp \in Nat \cup {NULL}
  /\ chunk_index \in Nat \ {0}
  /\ offset \in Nat /\ chunk_offset \in Nat /\ remaining \in Nat /\ lba \in Nat
  /\ ret \in {-1, 0, 1} /\ tries \in 0 .. MAX_TRIES /\ errorCount \in Nat
  /\ result \in {NULL, 0, 1, -2}
  /\ DOMAIN files \subseteq Nat \ {0}
  /\ files \in [DOMAIN files -> Seq(blocks)]
  /\ opened \subseteq DOMAIN files
  /\ synced \subseteq DOMAIN files

TypeOK == TypeOver(Nat \cup {Zero, Junk, Old})

\* Block i of part p is sector SectorAt(p, i) of the disc, and back.
SectorAt(p, i) == (p - 1) * SectorsPerChunk + i - 1
PartOf(k) == (k \div SectorsPerChunk) + 1
IndexOf(k) == (k % SectorsPerChunk) + 1

\* The blocks of the parts in order are the dumped image.
Dumped(k) == LET p == PartOf(k) IN
  IF p \in DOMAIN files THEN IF IndexOf(k) \in DOMAIN files[p]
                             THEN files[p][IndexOf(k)] ELSE Junk ELSE Junk

Contents(k) == IF k \in scratched THEN Zero ELSE k

\* Reading the part files one after the other gives, at every position dumped
\* so far, the sector of that position or, if it is unreadable, zeros: nothing
\* is skipped, repeated or misplaced at a chunk boundary, no block of an older
\* dump survives in a part, no failed attempt's garbage is written, and a
\* sector that a retry can read is not zeroed.  It holds after exits, failed
\* writes and resets too (loop of disk.cpp:44-101).
ImageFaithful == \A k \in 0 .. lba - 1 : Dumped(k) = Contents(k)

\* The byte offset in messages is that of the sector being read, and bytes
\* done and bytes to do add up (disk.cpp:70, 76, 94-97).
CountersAgree ==
  /\ offset = lba * SECTOR_SIZE
  /\ offset + remaining = diskSize

\* When dump returns 0 the parts hold the whole disc, each but the last is
\* exactly one chunk, none is empty, and they hold nothing else.
CompleteImage == Complete =>
  /\ lba * SECTOR_SIZE = diskSize
  /\ SectorAt(chunk_index - 1, 1) < lba /\ lba <= SectorAt(chunk_index, 1)
  /\ \A p \in Parts : Len(files[p]) =
       IF p < chunk_index - 1 THEN SectorsPerChunk ELSE lba - SectorAt(p, 1)

\* The number of errors shown after each sector and at the end is the number
\* of zero-filled sectors in the files (errorCount, disk.cpp:75, 81, 99).
ErrorsCounted == pc \in {"poll", "loop"} \/ Complete =>
  errorCount = Cardinality({k \in 0 .. lba - 1 : Dumped(k) = Zero})

\* With "stop on read error" on, no zeros are ever passed off as data; with it
\* off, an unreadable sector does not stop the dump (disk.cpp:78-82).
ErrorPolicy ==
  IF cancelOnError THEN \A k \in 0 .. lba - 1 : Dumped(k) # Zero
                   ELSE pc # "error"

\* Whatever way dump returns, it has closed its streams and freed its buffer;
\* at most one stream is open at a time, and it is the one written to
\* (disk.cpp:49-58, 87-92, 106-107).
NoLeak ==
  /\ pc = "returned" => opened = {} /\ buffer = NULL
  /\ opened \subseteq {fp}
  /\ pc = "write" => fp \in opened

\* A dump ends, by itself, whatever the drive and the file system answer: the
\* retries are bounded and every pass of the loop makes progress.
Termination == <>Stopped

\* The number of steps a dump still needs if everything goes as badly as it can:
\* for each sector the test of the loop, MAX_TRIES reads, giving up, the write
\* and the look at the Home button.
SectorsLeft == remaining \div SECTOR_SIZE

StepsLeft ==
  LET toDo == SectorsLeft * (MAX_TRIES + 4) IN
  CASE pc \in {"alloc", "poll"} -> toDo + 2
    [] pc = "loop" -> toDo + 1
    [] pc = "read" -> toDo - tries
    [] pc = "write" -> toDo - (MAX_TRIES + 1)
    [] OTHER -> 0

\* No step of a dump is wasted: each brings its end nearer, with the counter of
\* tries, the sector under way and what remains moving together (disk.cpp:44-101).
\* A dump thus ends within StepsLeft steps, the bound that Termination leaves open.
EveryStepCounts == [][Running => StepsLeft' \in 0 .. StepsLeft - 1]_vars

\* Files a step does not write to keep their contents: the closed parts of
\* this dump, and files of an earlier one until "wb" empties them.
OnlyOpenPartWritten ==
  [][\A p \in DOMAIN files :
       p \notin opened \cup {chunk_index} =>
         p \in DOMAIN files' /\ files'[p] = files[p]]_vars

\* The dump implements DiscImage: the image is what the files hold.
Image == INSTANCE DiscImage WITH
  sectors <- diskSize \div SECTOR_SIZE,
  skipping <- ~cancelOnError,
  length <- lba,
  image <- [k \in 0 .. lba - 1 |-> Dumped(k)],
  status <- IF Complete THEN "complete" ELSE IF Stopped THEN "stopped" ELSE "dumping"

ImageSpec == Image!FairSpec

\* disk.cpp:108 prints "Dump complete" when dump returns 0: by then every
\* part it wrote should be on the medium.
CompleteMeansSynced == Complete => Parts \subseteq synced
=============================================================================
