-------------------------- MODULE TakeADumpProofs --------------------------
(* Proofs about the whole program.  What is proved of the components holds   *)
(* in it, because a step of it is a step of each of them, or none.           *)
EXTENDS TakeADump, FiniteSetTheorems, TLAPS

FP == INSTANCE FrontendProofs WITH pc <- mainpc

DP == INSTANCE DriveProofs WITH
  pc <- drivepc, lba <- asked, ret <- got, buffer <- block

WP == INSTANCE DumpProofs WITH
  pc <- dumppc,
  DiskSizes <- {n * SECTOR_SIZE : n \in {NGC_SIZE, WII_SINGLE_SIZE, WII_DUAL_SIZE}},
  scratched <- {}, ScratchedSets <- {{}}, FlakyFailures <- 0,
  LeftoverSets <- {{}}, Old <- Junk

-----------------------------------------------------------------------------
(* The constants are such as the components assume.                          *)

LEMMA FrontendAssumptions == FP!ButtonsAssumption
BY ButtonsAssumption DEF FP!ButtonsAssumption, FP!MenuButtons

LEMMA DriveAssumptions ==
  DP!SizesAssumption /\ DP!DiscsAssumption /\ DP!MarksAssumption
BY SizesAssumption, DiscsAssumption, MarksAssumption
DEF DP!SizesAssumption, DP!DiscsAssumption, DP!MarksAssumption, DP!DiskTypes, D!DiskTypes,
    DP!WII_MAGIC, DP!NGC_MAGIC, D!WII_MAGIC, D!NGC_MAGIC

LEMMA WholeSizes ==
  ASSUME NEW n \in Nat
  PROVE  /\ n * SECTOR_SIZE \in Nat
         /\ (n * SECTOR_SIZE) \div SECTOR_SIZE = n
<1>1. n * SECTOR_SIZE \in Nat
  BY SizesAssumption
<1>2. PICK q \in Int : q = (n * SECTOR_SIZE) \div SECTOR_SIZE
  BY <1>1, SizesAssumption
<1>3. q * SECTOR_SIZE <= n * SECTOR_SIZE /\ n * SECTOR_SIZE < (q + 1) * SECTOR_SIZE
  BY <1>1, <1>2, SizesAssumption, Z3
<1>4. q <= n /\ n < q + 1
  BY <1>3, SizesAssumption
<1> QED
  BY <1>1, <1>2, <1>4

LEMMA DumpAssumptions ==
  WP!SizesAssumption /\ WP!EnvironmentAssumption /\ WP!MarksAssumption
<1>1. \A n \in {NGC_SIZE, WII_SINGLE_SIZE, WII_DUAL_SIZE} :
        /\ n * SECTOR_SIZE \in Nat \ {0}
        /\ n * SECTOR_SIZE = ((n * SECTOR_SIZE) \div SECTOR_SIZE) * SECTOR_SIZE
  BY SizesAssumption, WholeSizes
<1>2. WP!SizesAssumption
  BY <1>1, SizesAssumption DEF WP!SizesAssumption, WP!SectorsPerChunk
<1>3. WP!EnvironmentAssumption /\ WP!MarksAssumption
  BY MarksAssumption DEF WP!EnvironmentAssumption, WP!MarksAssumption, WP!MAX_TRIES
<1> QED
  BY <1>2, <1>3

\* The drive access of TakeADump is that of the proofs.
LEMMA SameInitialize ==
  /\ D!ResetDrive => DP!ResetDrive
  /\ D!CheckTray => DP!CheckTray
  /\ D!RawIdDone => DP!RawIdDone
  /\ D!ChooseReadCmd => DP!ChooseReadCmd
BY DEF D!ResetDrive, DP!ResetDrive, D!CheckTray, DP!CheckTray, D!RawIdDone,
    DP!RawIdDone, D!ChooseReadCmd, DP!ChooseReadCmd, D!dvd_get_error,
    DP!dvd_get_error, D!Issue, DP!Issue, D!ReadIdCommand, DP!ReadIdCommand,
    D!ClearError, DP!ClearError, D!DVD_LowRead64, DP!DVD_LowRead64, D!ReadResult,
    DP!ReadResult, D!DVD_DVDR, DP!DVD_DVDR, D!DVD_NORMAL, DP!DVD_NORMAL, D!program,
    DP!program, D!request, DP!request, D!registers, DP!registers, D!memory,
    DP!memory, D!drive, DP!drive

LEMMA SameReadId ==
  ASSUME NEW rc
  PROVE  /\ D!TryReadId(rc) => DP!TryReadId(rc)
         /\ D!read_dvd_id(rc) => DP!read_dvd_id(rc)
BY DEF D!TryReadId, DP!TryReadId, D!read_dvd_id, DP!read_dvd_id, D!WDVD_LowReadDiskId,
    DP!WDVD_LowReadDiskId, D!IdIsRead, DP!IdIsRead, D!IdNotRead, DP!IdNotRead,
    D!ClearId, DP!ClearId, D!CheckId, DP!CheckId, D!ValidId, DP!ValidId, D!KeepId,
    DP!KeepId, D!WII_MAGIC, DP!WII_MAGIC, D!NGC_MAGIC, DP!NGC_MAGIC, D!cached, DP!cached,
    D!program, DP!program, D!request, DP!request, D!registers, DP!registers, D!memory,
    DP!memory, D!drive, DP!drive

LEMMA SameReads ==
  ASSUME NEW k
  PROVE  /\ D!IdentifyByMagic => DP!IdentifyByMagic
         /\ D!ProbeLayer => DP!ProbeLayer
         /\ D!IdentifyByLayer => DP!IdentifyByLayer
         /\ D!StartRead(k) => DP!StartRead(k)
         /\ D!EndRead => DP!EndRead
BY DEF D!IdentifyByMagic, DP!IdentifyByMagic, D!ProbeLayer, DP!ProbeLayer,
    D!IdentifyByLayer, DP!IdentifyByLayer, D!LayersRead, DP!LayersRead, D!StartRead,
    DP!StartRead, D!EndRead, DP!EndRead, D!WII_MAGIC, DP!WII_MAGIC, D!NGC_MAGIC,
    DP!NGC_MAGIC, D!dvd_get_error, DP!dvd_get_error, D!Issue, DP!Issue,
    D!ReadIdCommand, DP!ReadIdCommand, D!ClearError, DP!ClearError, D!DVD_LowRead64,
    DP!DVD_LowRead64, D!ReadResult, DP!ReadResult, D!DVD_DVDR, DP!DVD_DVDR,
    D!DVD_NORMAL, DP!DVD_NORMAL, D!program, DP!program, D!request, DP!request,
    D!registers, DP!registers, D!memory, DP!memory, D!drive, DP!drive

LEMMA SameLines ==
  ASSUME NEW before, NEW after
  PROVE  /\ D!DCInvalidateRange(before, after) => DP!DCInvalidateRange(before, after)
         /\ D!memset => DP!memset
         /\ D!Evict => DP!Evict
BY DEF D!DCInvalidateRange, DP!DCInvalidateRange, D!DropLines, DP!DropLines, D!memset, DP!memset,
    D!Evict, DP!Evict, D!program, DP!program, D!request, DP!request, D!registers,
    DP!registers, D!drive, DP!drive

LEMMA SameDrive ==
  /\ D!Answer => DP!Answer
  /\ D!Swap => DP!Swap
BY DEF D!Answer, DP!Answer, D!AnswerError, DP!AnswerError, D!AnswerId, DP!AnswerId,
    D!AnswerRead, DP!AnswerRead, D!AnswerFailed, DP!AnswerFailed, D!ReadCmdOf,
    DP!ReadCmdOf, D!Swap, DP!Swap, D!DVD_DVDR, DP!DVD_DVDR, D!DVD_NORMAL,
    DP!DVD_NORMAL, D!program, DP!program, D!request, DP!request, D!registers,
    DP!registers, D!memory, DP!memory, D!drive, DP!drive

\* So is the front end.
LEMMA SamePrompts ==
  /\ F!waitForA => FP!waitForA
  /\ F!waitForButtonRelease => FP!waitForButtonRelease
BY DEF F!waitForA, FP!waitForA, F!waitForButtonRelease, FP!waitForButtonRelease, F!Prompts,
    FP!Prompts, F!Use, FP!Use, F!AwaitRelease, FP!AwaitRelease, F!After, FP!After,
    F!Successors, FP!Successors, F!menu, FP!menu, F!settings, FP!settings, F!progress,
    FP!progress

LEMMA SameMenu == F!Menu => FP!Menu
BY DEF F!Menu, FP!Menu, F!ToggleCancelOnError, FP!ToggleCancelOnError, F!ChangeFilesystem,
    FP!ChangeFilesystem, F!ChooseDrive, FP!ChooseDrive, F!ReprintMenu, FP!ReprintMenu,
    F!ExitFromMenu, FP!ExitFromMenu, F!IgnoreButtons, FP!IgnoreButtons, F!Chosen,
    FP!Chosen, F!MenuButtons, FP!MenuButtons, F!Use, FP!Use, F!menu, FP!menu,
    F!NTFS_SUPPORT, FP!NTFS_SUPPORT, F!settings, FP!settings, F!progress, FP!progress

LEMMA SameWork ==
  ASSUME NEW x
  PROVE  /\ F!Mount(x) => FP!Mount(x)
         /\ F!InitializeDisk(x) => FP!InitializeDisk(x)
         /\ F!IdentifyDisk(x) => FP!IdentifyDisk(x)
         /\ F!HomeInDump => FP!HomeInDump
         /\ F!DumpEnds(x) => FP!DumpEnds(x)
         /\ F!Reset => FP!Reset
         /\ F!User => FP!User
BY DEF F!Mount, FP!Mount, F!Mountable, FP!Mountable, F!InitializeDisk, FP!InitializeDisk,
    F!IdentifyDisk, FP!IdentifyDisk, F!HomeInDump, FP!HomeInDump, F!DumpEnds,
    FP!DumpEnds, F!Report, FP!Report, F!resetAfterPause, FP!resetAfterPause, F!Use,
    FP!Use, F!Reset, FP!Reset, F!User, FP!User, F!Press, FP!Press, F!Release,
    FP!Release, F!settings, FP!settings, F!progress, FP!progress

\* And the dump.
LEMMA SameParts ==
  /\ W!Allocate => WP!Allocate
  /\ W!AllocateFails => WP!AllocateFails
  /\ W!StayInPart => WP!StayInPart
  /\ W!OpenPart => WP!OpenPart
  /\ W!OpenPartFails => WP!OpenPartFails
BY DEF W!Allocate, WP!Allocate, W!AllocateFails, WP!AllocateFails, W!StayInPart,
    WP!StayInPart, W!OpenPart, WP!OpenPart, W!OpenPartFails, WP!OpenPartFails,
    W!StartReading, WP!StartReading, W!Truncated, WP!Truncated, W!NeedsPart,
    WP!NeedsPart, W!MoreToRead, WP!MoreToRead, W!FlushedBy, WP!FlushedBy, W!CleanUp,
    WP!CleanUp, W!Return, WP!Return, W!params, WP!params, W!counters, WP!counters,
    W!attempt, WP!attempt, W!fs, WP!fs

LEMMA SameSectors ==
  ASSUME NEW code, NEW data
  PROVE  /\ W!Attempt(code, data) => WP!Attempt(code, data)
         /\ W!GiveUp => WP!GiveUp
         /\ W!WriteSector => WP!WriteSector
         /\ W!WriteSectorFails => WP!WriteSectorFails
BY DEF W!Attempt, WP!Attempt, W!CountTry, WP!CountTry, W!MAX_TRIES, WP!MAX_TRIES, W!GiveUp,
    WP!GiveUp, W!CountError, WP!CountError, W!StopOrSkip, WP!StopOrSkip, W!WriteSector,
    WP!WriteSector, W!WriteSectorFails, WP!WriteSectorFails, W!Advance, WP!Advance,
    W!ReadSize, WP!ReadSize, W!Torn, WP!Torn, W!CleanUp, WP!CleanUp, W!Return,
    WP!Return, W!FlushedBy, WP!FlushedBy, W!params, WP!params, W!counters, WP!counters,
    W!attempt, WP!attempt, W!fs, WP!fs

LEMMA SameEnds ==
  ASSUME NEW home
  PROVE  /\ W!Poll(home) => WP!Poll(home)
         /\ W!Finish => WP!Finish
         /\ W!Acknowledge => WP!Acknowledge
         /\ W!Reset => WP!Reset
BY DEF W!Poll, WP!Poll, W!Finish, WP!Finish, W!Acknowledge, WP!Acknowledge, W!Reset,
    WP!Reset, W!Exit, WP!Exit, W!MoreToRead, WP!MoreToRead, W!Torn, WP!Torn, W!CleanUp,
    WP!CleanUp, W!Return, WP!Return, W!FlushedBy, WP!FlushedBy, W!params, WP!params,
    W!counters, WP!counters, W!attempt, WP!attempt, W!fs, WP!fs

LEMMA SameStates ==
  /\ F!TypeOK <=> FP!TypeOK
  /\ D!TypeOK <=> DP!TypeOK
  /\ D!Identified <=> DP!Identified
  /\ D!DiskSize = DP!DiskSize
  /\ \A k : W!Dumped(k) = WP!Dumped(k)
  /\ \A blocks : W!TypeOver(blocks) <=> WP!TypeOver(blocks)
BY DEF F!TypeOK, FP!TypeOK, F!Prompts, FP!Prompts,
  D!TypeOK, DP!TypeOK, D!Blocks, DP!Blocks, D!Commands, DP!Commands, D!Statuses, DP!Statuses,
  D!DiskTypes, DP!DiskTypes, D!DVD_DVDR, DP!DVD_DVDR, D!DVD_NORMAL, DP!DVD_NORMAL,
  D!Identified, DP!Identified, D!DiskSize, DP!DiskSize,
  W!Dumped, WP!Dumped, W!PartOf, WP!PartOf, W!IndexOf, WP!IndexOf, W!SectorsPerChunk,
  WP!SectorsPerChunk,
  W!TypeOver, WP!TypeOver, W!Running, WP!Running, W!Stopped, WP!Stopped, W!MAX_TRIES,
  WP!MAX_TRIES

LEMMA SameInit ==
  /\ F!Init => FP!Init
  /\ D!Init => DP!Init
BY DEF F!Init, FP!Init, D!Init, DP!Init, D!DVD_NORMAL, DP!DVD_NORMAL

-----------------------------------------------------------------------------
(* The inductive invariant: those of the components, and how they fit.       *)

SBlocks == (Discs \X Nat) \cup {Zero, Junk}

\* Main, the drive access and the dump take turns.
Control ==
  /\ mainpc \in {"start", "dump"} => DP!Identified
  /\ Called => DP!Identified /\ mainpc \in {"dump", "pause", "exit", "exited"}
  /\ dumppc \in {"loop", "read", "write", "poll"} => mainpc = "dump"
  /\ drivepc \in {"starting", "reading"} /\ mainpc # "exited" =>
       dumppc = "read" /\ asked = lba /\ ret # 0 /\ tries < WP!MAX_TRIES

Untouched ==
  /\ buffer = NULL /\ fp = NULL /\ result = NULL
  /\ offset = 0 /\ chunk_index = 1 /\ chunk_offset = 0 /\ lba = 0
  /\ ret = -1 /\ tries = 0 /\ errorCount = 0
  /\ files = << >> /\ opened = {} /\ synced = {}

Counted ==
  /\ ~Called => Untouched
  /\ Begun => WP!Shape(SBlocks)

\* What sector k may have been copied as.
Copy(k) ==
  IF cancelOnError \/ errorCount = 0 THEN {<<globalDiskId, k>>} ELSE {<<globalDiskId, k>>, Zero}

Copied(k) ==
  /\ WP!PartOf(k) \in DOMAIN files
  /\ WP!IndexOf(k) \in DOMAIN files[WP!PartOf(k)]
  /\ files[WP!PartOf(k)][WP!IndexOf(k)] \in Copy(k)

Data ==
  /\ \A k \in 0 .. lba - 1 : Copied(k)
  /\ dumppc = "write" => buffer \in Copy(lba)

Verdict == outcome = "ok" => dumppc = "returned" /\ result = 0

SInv == FP!FInv /\ DP!DInv /\ Control /\ Counted /\ Data /\ Verdict

LEMMA InitSInv == Init => SInv
<1> SUFFICES ASSUME Init PROVE SInv
  OBVIOUS
<1>1. FP!FInv
  BY FP!InitFInv, FrontendAssumptions, SameInit DEF Init
<1>2. DP!DInv
  BY DP!InitDInv, DriveAssumptions, SameInit DEF Init
<1>3. mainpc = "welcome" /\ drivepc = "reset" /\ outcome = NULL
  BY DEF Init, F!Init, D!Init
<1>4. Control /\ Counted
  BY <1>3 DEF Init, Control, Counted, Called, Begun, Untouched
<1>5. Data
  BY DEF Init, Data
<1>6. Verdict
  BY <1>3, MarksAssumption DEF Verdict
<1> QED
  BY <1>1, <1>2, <1>4, <1>5, <1>6 DEF SInv

-----------------------------------------------------------------------------
(* A step of the program is a step of its parts.                             *)

USE DEF main, drive, loop, dump

LEMMA FrontStep == [Next]_vars => [FP!Next]_(FP!vars)
<1> SUFFICES ASSUME [Next]_vars PROVE FP!Next \/ UNCHANGED FP!vars
  OBVIOUS
<1> USE DEF FP!Next, FP!Program, FP!Work
<1>1. UNCHANGED main => UNCHANGED FP!vars
  BY DEF FP!vars, FP!settings, FP!progress
<1>2. CASE Prompt
  BY <1>2, SamePrompts, SameMenu, SameWork DEF Prompt
<1>3. CASE PromptReleased
  BY <1>3, SamePrompts DEF PromptReleased
<1>4. CASE InitializeDisk
  BY <1>1, <1>4, SameWork DEF InitializeDisk
<1>5. CASE IdentifyDisk
  <2>1. CASE UNCHANGED main
    BY <1>1, <2>1
  <2>2. CASE F!IdentifyDisk(drivepc = "idle")
    <3>1. PICK known \in BOOLEAN : known = (drivepc = "idle")
      OBVIOUS
    <3>2. FP!IdentifyDisk(known)
      BY <2>2, <3>1, SameWork
    <3> QED
      BY <3>2
  <2> QED
    BY <1>5, <2>1, <2>2 DEF IdentifyDisk
<1>6. CASE DumpOnly \/ ReadBegins \/ LinesDropped \/ ReadEnds \/ GiveUp
  BY <1>1, <1>6 DEF DumpOnly, ReadBegins, LinesDropped, ReadEnds, GiveUp
<1>7. CASE HomeInDump
  BY <1>7, SameWork DEF HomeInDump
<1>8. CASE DumpEnds
  BY <1>8, SameWork DEF DumpEnds, Outcome
<1>9. CASE Reset \/ ButtonMoves
  BY <1>9, SameWork DEF Reset, ButtonMoves
<1>10. CASE DriveAnswers \/ TrayUsed \/ LinesEvicted \/ UNCHANGED vars
  BY <1>1, <1>10 DEF DriveAnswers, TrayUsed, LinesEvicted, vars
<1> QED
  BY <1>2, <1>3, <1>4, <1>5, <1>6, <1>7, <1>8, <1>9, <1>10 DEF Next, Dumping

\* The loop asks for no sector, and writes none, beyond the size it was given.
LEMMA ReadInDisc ==
  SInv /\ mainpc = "dump" /\ dumppc \in {"read", "write"} => lba \in 0 .. DP!DiskSize - 1
<1> SUFFICES ASSUME SInv, mainpc = "dump", dumppc \in {"read", "write"}
             PROVE  lba \in 0 .. DP!DiskSize - 1
  OBVIOUS
<1>1. WP!TypeOver(SBlocks) /\ WP!CountersAgree /\ remaining > 0
  BY DEF SInv, Counted, Begun, WP!Shape, WP!Phase
<1>2. lba < diskSize \div SECTOR_SIZE
  BY <1>1, WP!WholeSector, DumpAssumptions
<1>3. DP!DiskSize \in Nat
  BY DP!DiskSizeType, DriveAssumptions
<1>4. diskSize \div SECTOR_SIZE = DP!DiskSize
  BY <1>3, SameStates, WholeSizes DEF diskSize
<1> QED
  BY <1>1, <1>2, <1>3, <1>4 DEF WP!TypeOver

LEMMA DriveStep == SInv /\ [Next]_vars => [DP!Next]_(DP!vars)
<1> SUFFICES ASSUME SInv, [Next]_vars PROVE DP!Next \/ UNCHANGED DP!vars
  OBVIOUS
<1> USE DEF DP!Next, DP!InitializeDisk, DP!IdentifyDisk
<1>1. UNCHANGED drive => UNCHANGED DP!vars
  BY DEF DP!vars, DP!program, DP!request, DP!registers, DP!memory, DP!drive
<1>2. CASE InitializeDisk
  BY <1>1, <1>2, SameInitialize, SameReadId
  DEF InitializeDisk, D!InitializeDisk, D!IdResults, DP!IdResults
<1>3. CASE IdentifyDisk
  BY <1>1, <1>3, SameReads, SameLines DEF IdentifyDisk, D!IdentifyDisk
<1>4. CASE ReadBegins
  BY <1>4, SameReads, ReadInDisc DEF ReadBegins, ReadNext
<1>5. CASE LinesDropped \/ ReadEnds \/ GiveUp
  BY <1>1, <1>5, SameReads, SameLines DEF LinesDropped, ReadEnds, GiveUp
<1>6. CASE DriveAnswers \/ TrayUsed \/ LinesEvicted
  BY <1>6, SameDrive, SameLines DEF DriveAnswers, TrayUsed, LinesEvicted
<1>7. CASE UNCHANGED drive
  BY <1>1, <1>7
<1> QED
  BY <1>2, <1>3, <1>4, <1>5, <1>6, <1>7
  DEF Next, Dumping, Prompt, PromptReleased, DumpOnly, HomeInDump, DumpEnds, Reset, ButtonMoves,
      vars

-----------------------------------------------------------------------------
(* What a step does to the dump.                                             *)

LEMMA BegunControl ==
  SInv /\ Begun => DP!Identified /\ mainpc \in {"dump", "pause", "exit", "exited"}
BY DEF SInv, Control, Begun

\* Once main has left the disc's identification behind, disc and settings stay.
LEMMA KeptSettled ==
  ASSUME SInv, DP!Identified, mainpc \in {"start", "dump", "pause", "exit", "exited"},
         [Next]_vars
  PROVE  UNCHANGED <<cancelOnError, globalDiskId, type, diskSize>>
<1>1. UNCHANGED cancelOnError
  BY FrontStep
  DEF FP!vars, FP!settings, FP!progress, FP!Next, FP!Program, FP!Work, FP!waitForA,
      FP!waitForButtonRelease, FP!Menu, FP!ToggleCancelOnError, FP!ChangeFilesystem,
      FP!ChooseDrive, FP!ReprintMenu, FP!ExitFromMenu, FP!IgnoreButtons, FP!Chosen, FP!Mount,
      FP!InitializeDisk, FP!IdentifyDisk, FP!HomeInDump, FP!DumpEnds, FP!User, FP!Press,
      FP!Release, FP!Reset
<1>2. UNCHANGED <<globalDiskId, type>>
  <2>1. drivepc \in {"idle", "starting", "reading"} /\ [DP!Next]_(DP!vars)
    BY DriveStep DEF DP!Identified
  <2>2. CASE DP!InitializeDisk \/ DP!IdentifyDisk
    BY <2>1, <2>2
    DEF DP!InitializeDisk, DP!ResetDrive, DP!CheckTray, DP!RawIdDone, DP!ChooseReadCmd,
        DP!TryReadId, DP!read_dvd_id, DP!IdentifyDisk, DP!IdentifyByMagic, DP!ProbeLayer,
        DP!IdentifyByLayer, DP!DCInvalidateRange
  <2>3. CASE UNCHANGED DP!vars
    BY <2>3 DEF DP!vars, DP!program
  <2> QED
    BY <2>1, <2>2, <2>3
    DEF DP!Next, DP!StartRead, DP!DCInvalidateRange, DP!EndRead, DP!memset, DP!Answer, DP!Swap,
        DP!Evict, DP!program
<1>3. UNCHANGED diskSize
  BY <1>2 DEF diskSize, D!DiskSize
<1> QED
  BY <1>1, <1>2, <1>3

\* From the moment the dump has its parameters on, they stay the same.
LEMMA Settled ==
  ASSUME SInv, Begun, [Next]_vars
  PROVE  UNCHANGED <<cancelOnError, globalDiskId, type, diskSize>>
BY BegunControl, KeptSettled

LEMMA CopyType ==
  ASSUME SInv, Begun, NEW k \in Nat
  PROVE  Copy(k) \subseteq SBlocks
BY BegunControl DEF SInv, DP!DInv, DP!TypeOK, Copy, SBlocks

LEMMA BlockType == SInv /\ D!EndRead => got' \in {0, 1} /\ block' \in SBlocks
BY SameReads DEF SInv, DP!DInv, DP!TypeOK, DP!EndRead, DP!ReadResult, DP!Blocks, SBlocks

\* The steps of the dump that end no read.
Quiet ==
  \/ WP!Allocate \/ WP!AllocateFails
  \/ WP!StayInPart \/ WP!OpenPart \/ WP!OpenPartFails
  \/ WP!GiveUp
  \/ buffer \in SBlocks /\ WP!WriteSector
  \/ WP!WriteSectorFails
  \/ WP!Poll(TRUE) \/ WP!Poll(FALSE)
  \/ WP!Finish \/ WP!Acknowledge \/ WP!Reset
  \/ UNCHANGED WP!vars

LEMMA QuietOfDump ==
  ASSUME SInv, Begun, [Next]_vars
  PROVE  Quiet \/ (ReadEnds /\ WP!Attempt(got', block'))
<1> USE DEF Quiet
<1>1. UNCHANGED dump => UNCHANGED WP!vars
  BY Settled DEF WP!vars, WP!params, WP!counters, WP!attempt, WP!fs
<1>2. mainpc \in {"dump", "pause", "exit", "exited"}
  BY BegunControl
<1>3. CASE PromptReleased
  BY <1>1, <1>2, <1>3, SameEnds DEF PromptReleased
<1>4. CASE DumpOnly
  <2>1. dumppc = "write" => buffer \in SBlocks
    BY CopyType DEF SInv, Data, Counted, WP!Shape, WP!TypeOver
  <2>2. W!WriteSector => dumppc = "write"
    BY DEF W!WriteSector
  <2> QED
    BY <1>4, <2>1, <2>2, SameParts, SameSectors, SameEnds DEF DumpOnly
<1>5. CASE ReadEnds \/ GiveUp
  BY <1>5, SameSectors DEF ReadEnds, GiveUp
<1>6. CASE HomeInDump
  BY <1>6, SameEnds DEF HomeInDump
<1>7. CASE Reset
  BY <1>1, <1>7, SameEnds DEF Reset
<1>8. CASE UNCHANGED dump
  BY <1>1, <1>8
<1> QED
  BY <1>3, <1>4, <1>5, <1>6, <1>7, <1>8
  DEF Next, Dumping, Prompt, InitializeDisk, IdentifyDisk, ReadBegins, LinesDropped, DumpEnds,
      DriveAnswers, TrayUsed, LinesEvicted, ButtonMoves, vars

LEMMA StepOfDump ==
  ASSUME SInv, Begun, [Next]_vars
  PROVE  WP!StepOver(SBlocks)
<1>1. CASE Quiet
  BY <1>1 DEF Quiet, WP!StepOver
<1>2. CASE ReadEnds /\ WP!Attempt(got', block')
  <2>1. got' \in {0, 1} /\ block' \in SBlocks
    BY <1>2, BlockType DEF ReadEnds
  <2> QED
    BY <1>2, <2>1 DEF WP!StepOver
<1> QED
  BY <1>1, <1>2, QuietOfDump

LEMMA LoopStays == [Next]_vars /\ dumppc' = "alloc" => UNCHANGED loop
<1> SUFFICES ASSUME [Next]_vars, dumppc' = "alloc" PROVE UNCHANGED loop
  OBVIOUS
<1>1. ~W!Acknowledge /\ ~W!Reset /\ ~W!Poll(TRUE) /\ ~W!Poll(FALSE)
  BY DEF W!Acknowledge, W!Reset, W!Poll, W!Exit
<1>2. ~W!Attempt(got', block') /\ ~W!GiveUp /\ ~W!WriteSector /\ ~W!WriteSectorFails
  BY DEF W!Attempt, W!GiveUp, W!StopOrSkip, W!WriteSector, W!WriteSectorFails, W!Return
<1>3. /\ ~W!Allocate /\ ~W!AllocateFails /\ ~W!StayInPart /\ ~W!OpenPart /\ ~W!OpenPartFails
      /\ ~W!Finish
  BY DEF W!Allocate, W!AllocateFails, W!StayInPart, W!OpenPart, W!OpenPartFails, W!StartReading,
         W!Finish, W!Return
<1> QED
  BY <1>1, <1>2, <1>3
  DEF Next, Dumping, Prompt, PromptReleased, InitializeDisk, IdentifyDisk, DumpOnly, ReadBegins,
      LinesDropped, ReadEnds, GiveUp, HomeInDump, DumpEnds, Reset, DriveAnswers, TrayUsed,
      LinesEvicted, ButtonMoves, vars

\* The dump gets its parameters at the start prompt, of a disc that is known.
LEMMA DumpIsCalled ==
  ASSUME SInv, ~Begun, [Next]_vars, Begun'
  PROVE  /\ mainpc = "start" /\ remaining' = diskSize /\ UNCHANGED <<drive, loop>>
         /\ dumppc = "alloc" /\ mainpc' = "dump"
<1>1. dumppc = "alloc" /\ mainpc # "dump"
  BY DEF Begun, Called
<1>2. CASE Prompt
  <2>1. mainpc' # "dump" /\ UNCHANGED dump
    BY <1>1, <1>2
    DEF Prompt, F!waitForA, F!AwaitRelease, F!Menu, F!ToggleCancelOnError, F!ChangeFilesystem,
        F!ChooseDrive, F!ReprintMenu, F!ExitFromMenu, F!IgnoreButtons, F!Mount, F!Report,
        F!resetAfterPause
  <2> QED
    BY <1>1, <2>1 DEF Begun, Called
<1>3. CASE PromptReleased
  <2>1. UNCHANGED <<drive, loop>>
    BY <1>1, <1>3 DEF PromptReleased
  <2>2. mainpc' = "dump"
    BY <1>1, <2>1 DEF Begun, Called
  <2>3. mainpc = "start"
    <3>1. FP!TypeOK /\ releasing /\ mainpc # "exited" /\ mainpc' = FP!After(mainpc)
      BY <1>3, SamePrompts DEF PromptReleased, FP!waitForButtonRelease, SInv, FP!FInv
    <3>2. mainpc \in FP!Prompts \cup {"menu", "pause"}
      BY <3>1 DEF FP!TypeOK
    <3> QED
      BY <1>1, <2>2, <3>1, <3>2 DEF FP!After, FP!Successors, FP!Prompts
  <2> QED
    BY <1>1, <1>3, <2>1, <2>2, <2>3 DEF PromptReleased, CallDump
<1>4. CASE InitializeDisk \/ IdentifyDisk
  <2>1. mainpc' # "dump" /\ UNCHANGED dump
    BY <1>1, <1>4
    DEF InitializeDisk, IdentifyDisk, F!InitializeDisk, F!IdentifyDisk, F!Report,
        F!resetAfterPause
  <2> QED
    BY <1>1, <2>1 DEF Begun, Called
<1>5. CASE Dumping
  BY <1>1, <1>5
  DEF Dumping, DumpOnly, ReadBegins, LinesDropped, ReadEnds, GiveUp, HomeInDump, F!HomeInDump,
      DumpEnds
<1>6. CASE Reset \/ DriveAnswers \/ TrayUsed \/ LinesEvicted \/ ButtonMoves \/ UNCHANGED vars
  <2>1. mainpc' # "dump" /\ UNCHANGED dump
    BY <1>1, <1>6
    DEF Reset, F!Reset, DriveAnswers, TrayUsed, LinesEvicted, ButtonMoves, F!User, F!Press,
        F!Release, vars
  <2> QED
    BY <1>1, <2>1 DEF Begun, Called
<1> QED
  BY <1>2, <1>3, <1>4, <1>5, <1>6 DEF Next

LEMMA KnownSize ==
  DP!DInv /\ DP!Identified =>
    diskSize \in {n * SECTOR_SIZE : n \in {NGC_SIZE, WII_SINGLE_SIZE, WII_DUAL_SIZE}}
<1> SUFFICES ASSUME DP!DInv, DP!Identified
             PROVE  D!DiskSize \in {NGC_SIZE, WII_SINGLE_SIZE, WII_DUAL_SIZE}
  BY DEF diskSize
<1> QED
  BY DEF DP!DInv, DP!Known, DP!DiskTypes, D!DiskSize

LEMMA CountedStep ==
  ASSUME SInv, [Next]_vars, FP!FInv', DP!DInv'
  PROVE  Counted'
<1>1. ~Called' => Untouched'
  BY LoopStays DEF SInv, Counted, Called, Untouched
<1>2. CASE Begun
  <2>1. {Zero, Junk} \subseteq SBlocks /\ WP!Shape(SBlocks)
    BY <1>2 DEF SBlocks, SInv, Counted
  <2>2. WP!Shape(SBlocks)'
    BY <1>2, <2>1, StepOfDump, WP!ShapeKept, DumpAssumptions
  <2> QED
    BY <1>1, <2>2 DEF Counted, SBlocks
<1>3. CASE ~Begun /\ Begun'
  <2>1. /\ mainpc = "start" /\ remaining' = diskSize /\ UNCHANGED <<drive, loop>>
        /\ dumppc' = "alloc" /\ Untouched /\ DP!Identified
    BY <1>3, DumpIsCalled DEF SInv, Control, Counted, Called
  <2>2. Untouched' /\ diskSize' = diskSize
    BY <2>1 DEF Untouched, diskSize, D!DiskSize
  <2>3. diskSize' \in {n * SECTOR_SIZE : n \in {NGC_SIZE, WII_SINGLE_SIZE, WII_DUAL_SIZE}}
    BY <2>1, <2>2, KnownSize DEF SInv
  <2>4. diskSize' \in Nat /\ remaining' = diskSize'
    BY <2>1, <2>2, <2>3, WholeSizes, SizesAssumption
  <2>5. WP!TypeOver(SBlocks)'
    <3>1. cancelOnError' \in BOOLEAN
      BY DEF FP!FInv, FP!TypeOK
    <3>2. files' \in [DOMAIN files' -> Seq(SBlocks)] /\ DOMAIN files' = {}
      BY <2>2 DEF Untouched
    <3> QED
      BY <2>1, <2>2, <2>3, <2>4, <3>1, <3>2
      DEF Untouched, WP!TypeOver, WP!Running, WP!MAX_TRIES, SBlocks
  <2>6. WP!CountersAgree'
    <3>1. 0 * SECTOR_SIZE = 0 /\ \A n \in Nat : 0 + n = n
      BY SizesAssumption
    <3> QED
      BY <2>2, <2>4, <3>1 DEF Untouched, WP!CountersAgree
  <2>7. WP!Position' /\ WP!Phase' /\ WP!CompleteImage'
    BY <2>1, <2>2, MarksAssumption
    DEF Untouched, WP!Position, WP!Phase, WP!CompleteImage, WP!Complete
  <2> QED
    BY <1>1, <2>5, <2>6, <2>7 DEF Counted, WP!Shape, SBlocks
<1>4. CASE ~Begun'
  BY <1>1, <1>4 DEF Counted
<1> QED
  BY <1>2, <1>3, <1>4

-----------------------------------------------------------------------------
(* What a step does to the rest.                                             *)

\* The loop goes on only when its read is over.
LEMMA NoReadUnderWay == SInv /\ (DumpOnly \/ GiveUp) => drivepc \notin {"starting", "reading"}
<1> SUFFICES ASSUME SInv, DumpOnly \/ GiveUp, drivepc \in {"starting", "reading"} PROVE FALSE
  OBVIOUS
<1>1. mainpc = "dump"
  BY DEF DumpOnly, GiveUp
<1>2. dumppc = "read" /\ tries < 3 /\ tries \in Nat
  BY <1>1 DEF SInv, Control, Counted, Begun, WP!Shape, WP!TypeOver, WP!MAX_TRIES
<1>3. W!GiveUp
  BY <1>2
  DEF DumpOnly, GiveUp, W!Allocate, W!AllocateFails, W!StayInPart, W!OpenPart, W!OpenPartFails,
      W!WriteSector, W!WriteSectorFails, W!Poll, W!Finish
<1> QED
  BY <1>2, <1>3 DEF W!GiveUp, W!MAX_TRIES

LEMMA ControlStep ==
  ASSUME SInv, [Next]_vars
  PROVE  Control'
<1> USE DEF SInv, Control, Called, WP!MAX_TRIES
<1>1. CASE UNCHANGED <<mainpc, drivepc, dumppc, asked, lba, ret, tries>>
  BY <1>1 DEF DP!Identified
<1>2. CASE Prompt
  <2>1. /\ mainpc' \in {mainpc, "drive", "disc", "pause", "exited"}
        /\ mainpc \notin {"dump", "pause", "exited"}
    BY <1>2, SamePrompts, SameMenu, SameWork
    DEF Prompt, FP!waitForA, FP!AwaitRelease, FP!Menu, FP!ToggleCancelOnError,
        FP!ChangeFilesystem, FP!ChooseDrive, FP!ReprintMenu, FP!ExitFromMenu,
        FP!IgnoreButtons, FP!Chosen, FP!Mount, FP!Report, FP!resetAfterPause, FP!Prompts
  <2>2. Called => mainpc' \in {"exit", "exited"}
    BY <1>2, <2>1, SamePrompts, SameMenu, SameWork
    DEF Prompt, FP!waitForA, FP!AwaitRelease, FP!Menu, FP!ToggleCancelOnError,
        FP!ChangeFilesystem, FP!ChooseDrive, FP!ReprintMenu, FP!ExitFromMenu,
        FP!IgnoreButtons, FP!Chosen, FP!Mount
  <2> QED
    BY <1>2, <2>1, <2>2 DEF Prompt, DP!Identified
<1>3. CASE PromptReleased
  <2>1. /\ mainpc \in FP!Prompts \cup {"menu", "pause"} /\ mainpc' = FP!After(mainpc)
        /\ UNCHANGED drive
    BY <1>3, SamePrompts DEF PromptReleased, FP!waitForButtonRelease, FP!FInv, FP!TypeOK
  <2>2. CASE mainpc = "exit" /\ dumppc = "error"
    BY <1>3, <2>1, <2>2, SameEnds
    DEF PromptReleased, FP!After, FP!Successors, WP!Acknowledge, WP!Exit, DP!Identified
  <2>3. CASE UNCHANGED loop
    BY <2>1, <2>3 DEF FP!After, FP!Successors, FP!Prompts, DP!Identified
  <2> QED
    BY <1>3, <2>2, <2>3 DEF PromptReleased
<1>4. CASE InitializeDisk
  <2>1. ~Called /\ mainpc = "init" /\ mainpc' \in {"init", "identify", "pause"} /\ UNCHANGED dump
    BY <1>4, SameWork
    DEF InitializeDisk, FP!InitializeDisk, FP!Report, FP!resetAfterPause
  <2>2. drivepc' \notin {"starting", "reading"}
    BY <1>4, <2>1, SameInitialize, SameReadId
    DEF InitializeDisk, D!InitializeDisk, DP!ResetDrive, DP!CheckTray, DP!RawIdDone,
        DP!ChooseReadCmd, DP!TryReadId, DP!read_dvd_id, DP!KeepId
  <2> QED
    BY <2>1, <2>2
<1>5. CASE IdentifyDisk
  <2>1. ~Called /\ mainpc = "identify" /\ UNCHANGED dump
    BY <1>5 DEF IdentifyDisk
  <2>2. CASE D!IdentifyDisk /\ UNCHANGED main
    BY <2>1, <2>2, SameReads, SameLines
    DEF D!IdentifyDisk, DP!IdentifyByMagic, DP!ProbeLayer, DP!DCInvalidateRange,
        DP!IdentifyByLayer
  <2>3. CASE F!IdentifyDisk(drivepc = "idle") /\ UNCHANGED drive
    BY <2>1, <2>3 DEF F!IdentifyDisk, F!Report, F!resetAfterPause, DP!Identified
  <2> QED
    BY <1>5, <2>2, <2>3 DEF IdentifyDisk
<1>6. CASE DumpOnly \/ GiveUp
  <2>1. mainpc = "dump" /\ UNCHANGED <<main, drivepc>> /\ DP!Identified
    BY <1>6, SameLines DEF DumpOnly, GiveUp, DP!memset
  <2>2. drivepc \notin {"starting", "reading"}
    BY <1>6, NoReadUnderWay
  <2> QED
    BY <2>1, <2>2 DEF DP!Identified
<1>7. CASE ReadBegins
  BY <1>7, SameReads
  DEF ReadBegins, ReadNext, DP!StartRead, DP!DVD_LowRead64, DP!Identified, W!MAX_TRIES
<1>8. CASE LinesDropped \/ ReadEnds
  BY <1>8, SameReads, SameLines, SameSectors
  DEF LinesDropped, ReadEnds, DP!DCInvalidateRange, DP!request, DP!EndRead, DP!Identified
<1>9. CASE HomeInDump
  BY <1>9, SameWork, SameEnds
  DEF HomeInDump, FP!HomeInDump, WP!Poll, WP!Exit, DP!Identified
<1>10. CASE DumpEnds
  BY <1>10, SameWork
  DEF DumpEnds, FP!DumpEnds, FP!Report, FP!resetAfterPause, DP!Identified
<1>11. CASE Reset
  BY <1>11, SameWork, SameEnds DEF Reset, FP!Reset, WP!Reset, WP!Exit, DP!Identified
<1>12. CASE DriveAnswers \/ TrayUsed \/ LinesEvicted \/ ButtonMoves \/ UNCHANGED vars
  BY <1>1, <1>12, SameDrive, SameLines, SameWork
  DEF DriveAnswers, TrayUsed, LinesEvicted, ButtonMoves, DP!Answer, DP!Swap, DP!Evict,
      DP!request, FP!User, FP!Press,
      FP!Release, vars
<1> QED
  BY <1>2, <1>3, <1>4, <1>5, <1>6, <1>7, <1>8, <1>9, <1>10, <1>11, <1>12 DEF Next, Dumping

\* What has been copied stays so: errors that are counted only allow more.
LEMMA CopiesStay ==
  ASSUME SInv, Begun, [Next]_vars, UNCHANGED lba,
         errorCount' = errorCount \/ errorCount' # 0,
         files' = files \/ (fp \in opened /\ files' \in WP!Torn)
  PROVE  /\ \A k \in 0 .. lba' - 1 : Copied(k)'
         /\ Copy(lba) \subseteq Copy(lba)'
<1>1. \A k : Copy(k) \subseteq Copy(k)'
  BY Settled DEF Copy
<1>2. \A k \in 0 .. lba - 1 : Copied(k)
  BY DEF SInv, Data
<1>3. Copy(lba) \subseteq Copy(lba)'
  BY <1>1 DEF Copy
<1>4. CASE files' = files
  <2>1. ASSUME NEW k \in 0 .. lba - 1 PROVE Copied(k)'
    <3>1. Copied(k) /\ Copy(k) \subseteq Copy(k)'
      BY <1>1, <1>2
    <3> QED
      BY <1>4, <3>1 DEF Copied, WP!PartOf, WP!IndexOf
  <2> QED
    BY <1>3, <2>1
<1>5. CASE fp \in opened /\ files' = [files EXCEPT ![fp] = Append(@, Junk)]
  <2>1. fp \in DOMAIN files /\ files[fp] \in Seq(SBlocks)
    <3>1. opened \subseteq DOMAIN files /\ files \in [DOMAIN files -> Seq(SBlocks)]
      BY DEF SInv, Counted, WP!Shape, WP!TypeOver
    <3> QED
      BY <1>5, <3>1
  <2>2. DOMAIN files' = DOMAIN files
    BY <1>5
  <2>3. \A i \in DOMAIN files[fp] :
          i \in DOMAIN Append(files[fp], Junk) /\ Append(files[fp], Junk)[i] = files[fp][i]
    BY <2>1
  <2>4. \A p \in DOMAIN files :
          files'[p] = IF p = fp THEN Append(files[fp], Junk) ELSE files[p]
    BY <1>5
  <2>5. ASSUME NEW k \in 0 .. lba - 1 PROVE Copied(k)'
    <3>1. Copied(k) /\ Copy(k) \subseteq Copy(k)'
      BY <1>1, <1>2
    <3> QED
      BY <2>1, <2>2, <2>3, <2>4, <3>1 DEF Copied, WP!PartOf, WP!IndexOf
  <2> QED
    BY <1>3, <2>5
<1> QED
  BY <1>4, <1>5 DEF WP!Torn

\* A write puts the buffer where sector lba belongs.
LEMMA WrittenCopied ==
  ASSUME SInv, Begun, [Next]_vars, WP!WriteSector, buffer \in SBlocks
  PROVE  Data'
<1>1. /\ fp \in DOMAIN files /\ lba \in Nat /\ lba' = lba + 1
      /\ WP!PartOf(lba) = fp /\ WP!IndexOf(lba) = Len(files[fp]) + 1
      /\ Len(files[fp]) \in Nat
      /\ DOMAIN files' = DOMAIN files
      /\ \A p \in DOMAIN files : p # fp => files'[p] = files[p]
      /\ DOMAIN files'[fp] = 1 .. Len(files[fp]) + 1
      /\ files'[fp][Len(files[fp]) + 1] = buffer
      /\ \A i \in DOMAIN files[fp] : i \in DOMAIN files'[fp] /\ files'[fp][i] = files[fp][i]
  BY WP!SectorWritten, DumpAssumptions DEF SInv, Counted
<1>2. buffer \in Copy(lba) /\ dumppc' = "poll" /\ UNCHANGED errorCount
  BY DEF SInv, Data, WP!WriteSector
<1>3. ASSUME NEW k \in 0 .. lba PROVE Copied(k)'
  <2>1. Copy(k)' = Copy(k)
    BY <1>2, Settled DEF Copy
  <2>2. CASE k = lba
    <3>1. Len(files[fp]) + 1 \in 1 .. Len(files[fp]) + 1
      BY <1>1
    <3> QED
      BY <1>1, <1>2, <2>1, <2>2, <3>1 DEF Copied, WP!PartOf, WP!IndexOf
  <2>3. CASE k # lba
    <3>1. k \in 0 .. lba - 1
      BY <1>1, <2>3
    <3>2. Copied(k)
      BY <3>1 DEF SInv, Data
    <3> QED
      BY <1>1, <2>1, <3>2 DEF Copied, WP!PartOf, WP!IndexOf
  <2> QED
    BY <2>2, <2>3
<1>4. lba' - 1 = lba
  BY <1>1
<1> QED
  BY <1>2, <1>3, <1>4 DEF Data

\* A new part starts after the sectors copied so far.
LEMMA OpenedCopied ==
  ASSUME SInv, Begun, [Next]_vars, WP!OpenPart
  PROVE  Data'
<1>1. /\ UNCHANGED <<lba, errorCount>> /\ dumppc' = "read"
      /\ files' = [p \in DOMAIN files \cup {chunk_index} |->
                     IF p = chunk_index THEN <<>> ELSE files[p]]
  BY DEF WP!OpenPart, WP!Truncated, WP!StartReading
<1>2. WP!TypeOver(SBlocks) /\ WP!Position
  BY DEF SInv, Counted, WP!Shape, WP!OpenPart, WP!Running
<1>3. ASSUME NEW k \in 0 .. lba - 1 PROVE Copied(k)'
  <2>1. WP!PartOf(k) # chunk_index
    BY <1>2, WP!EarlierParts, DumpAssumptions
  <2>2. Copied(k)
    BY DEF SInv, Data
  <2>3. Copy(k)' = Copy(k)
    <3>1. UNCHANGED <<cancelOnError, globalDiskId, errorCount>>
      BY <1>1, Settled
    <3> QED
      BY <3>1 DEF Copy
  <2> QED
    BY <1>1, <2>1, <2>2, <2>3 DEF Copied, WP!PartOf, WP!IndexOf
<1> QED
  BY <1>1, <1>3 DEF Data

LEMMA DataStep ==
  ASSUME SInv, [Next]_vars, Counted'
  PROVE  Data'
<1>1. CASE ~Begun
  <2>1. CASE Called'
    <3>1. dumppc' = dumppc
      BY <1>1, <2>1, DumpIsCalled DEF Begun
    <3> QED
      BY <1>1, <2>1, <3>1 DEF Begun, Called
  <2>2. CASE ~Called'
    BY <2>2 DEF Counted, Untouched, Data, Called
  <2> QED
    BY <2>1, <2>2
<1>2. CASE Begun /\ ReadEnds /\ WP!Attempt(got', block')
  <2>1. DP!EndRead /\ drivepc = "reading" /\ mainpc = "dump"
    BY <1>2, SameReads DEF ReadEnds, DP!EndRead
  <2>2. asked = lba
    BY <2>1 DEF SInv, Control
  <2>3. got' = 0 => block' = <<globalDiskId, lba>>
    <3>1. cache = NULL
      BY <2>1 DEF SInv, DP!DInv, DP!Outcome
    <3>2. ~deint => ram = <<globalDiskId, asked>>
      BY <2>1 DEF SInv, DP!DInv, DP!Outcome, DP!InRead, DP!EndRead
    <3> QED
      BY <2>1, <2>2, <3>1, <3>2 DEF DP!EndRead, DP!ReadResult
  <2>4. /\ UNCHANGED <<files, lba, errorCount>> /\ (dumppc' = "write" => got' = 0)
        /\ buffer' = block'
    BY <1>2 DEF WP!Attempt, WP!counters, WP!fs
  <2>5. <<globalDiskId, lba>> \in Copy(lba)
    BY DEF Copy
  <2>6. \A k \in 0 .. lba' - 1 : Copied(k)'
    BY <1>2, <2>4, CopiesStay
  <2>7. Copy(lba) \subseteq Copy(lba)'
    BY <1>2, <2>4, CopiesStay
  <2> QED
    BY <2>3, <2>4, <2>5, <2>6, <2>7 DEF Data
<1>3. CASE Begun /\ Quiet
  <2>1. WP!Shape(SBlocks)
    BY <1>3 DEF SInv, Counted
  <2>2. CASE WP!GiveUp
    <3>1. /\ UNCHANGED <<files, lba>> /\ errorCount' # 0
          /\ (dumppc' = "write" => buffer' = Zero /\ ~cancelOnError)
      BY <2>1, <2>2
      DEF WP!GiveUp, WP!CountError, WP!StopOrSkip, WP!counters, WP!fs, WP!Shape, WP!TypeOver
    <3>2. \A k \in 0 .. lba' - 1 : Copied(k)'
      BY <1>3, <3>1, CopiesStay
    <3>3. UNCHANGED cancelOnError
      BY <1>3, Settled
    <3> QED
      BY <3>1, <3>2, <3>3 DEF Data, Copy
  <2>3. CASE UNCHANGED WP!vars
    <3>1. UNCHANGED <<files, lba, errorCount, dumppc, buffer>>
      BY <2>3 DEF WP!vars, WP!counters, WP!fs
    <3>2. /\ \A k \in 0 .. lba' - 1 : Copied(k)'
          /\ Copy(lba) \subseteq Copy(lba)'
      BY <1>3, <3>1, CopiesStay
    <3> QED
      BY <3>1, <3>2 DEF SInv, Data
  <2>4. CASE \/ WP!Allocate \/ WP!AllocateFails \/ WP!StayInPart \/ WP!OpenPartFails
             \/ WP!WriteSectorFails \/ WP!Poll(TRUE) \/ WP!Poll(FALSE) \/ WP!Finish
             \/ WP!Acknowledge \/ WP!Reset
    <3>1. UNCHANGED <<lba, errorCount>> /\ dumppc' # "write"
      BY <2>4
      DEF WP!Allocate, WP!AllocateFails, WP!StayInPart, WP!StartReading, WP!OpenPartFails,
          WP!WriteSectorFails, WP!Poll, WP!Finish, WP!Acknowledge, WP!Reset, WP!CleanUp,
          WP!Return, WP!Exit, WP!counters
    <3>2. files' = files \/ (fp \in opened /\ files' \in WP!Torn)
      <4>1. dumppc = "write" => fp \in opened
        BY <2>1 DEF WP!Shape, WP!Phase, WP!Position, WP!Running
      <4> QED
        BY <2>4, <4>1
        DEF WP!Allocate, WP!AllocateFails, WP!StayInPart, WP!OpenPartFails, WP!WriteSectorFails,
            WP!Poll, WP!Finish, WP!Acknowledge, WP!Reset, WP!fs
    <3>3. \A k \in 0 .. lba' - 1 : Copied(k)'
      BY <1>3, <3>1, <3>2, CopiesStay
    <3> QED
      BY <3>1, <3>3 DEF Data
  <2> QED
    BY <1>3, <2>2, <2>3, <2>4, WrittenCopied, OpenedCopied DEF Quiet
<1> QED
  BY <1>1, <1>2, <1>3, QuietOfDump

\* Once the dump has returned, its result is final.
LEMMA ResultStays ==
  ASSUME SInv, [Next]_vars, dumppc = "returned"
  PROVE  UNCHANGED <<dumppc, result>>
<1>1. Quiet \/ (ReadEnds /\ WP!Attempt(got', block'))
  BY QuietOfDump DEF Begun, Called
<1> QED
  BY <1>1
  DEF Quiet, WP!Allocate, WP!AllocateFails, WP!StayInPart, WP!OpenPart, WP!OpenPartFails,
      WP!GiveUp, WP!WriteSector, WP!WriteSectorFails, WP!Poll, WP!Finish, WP!Acknowledge,
      WP!Reset, WP!Attempt, WP!vars

\* Success is reported by the end of the dump, and by nothing else.
LEMMA OnlyDumpSucceeds ==
  ASSUME [Next]_vars, outcome' = "ok", outcome # "ok"
  PROVE  DumpEnds /\ dumppc = "returned" /\ result = 0
<1>1. CASE DumpEnds
  BY <1>1 DEF DumpEnds, F!DumpEnds, F!Report, Outcome
<1>2. CASE Prompt
  BY <1>2
  DEF Prompt, F!waitForA, F!Menu, F!ToggleCancelOnError, F!ChangeFilesystem, F!ChooseDrive,
      F!ReprintMenu, F!ExitFromMenu, F!IgnoreButtons, F!Mount, F!Report, F!progress
<1>3. CASE PromptReleased \/ HomeInDump \/ Reset \/ ButtonMoves
  BY <1>3
  DEF PromptReleased, HomeInDump, Reset, ButtonMoves, F!waitForButtonRelease, F!HomeInDump,
      F!Reset, F!User, F!Press, F!Release, F!progress
<1>4. CASE InitializeDisk \/ IdentifyDisk
  BY <1>4 DEF InitializeDisk, IdentifyDisk, F!InitializeDisk, F!IdentifyDisk, F!Report
<1>5. CASE UNCHANGED outcome
  BY <1>5
<1> QED
  BY <1>1, <1>2, <1>3, <1>4, <1>5
  DEF Next, Dumping, DumpOnly, ReadBegins, LinesDropped, ReadEnds, GiveUp, DriveAnswers, TrayUsed,
      LinesEvicted, vars

LEMMA VerdictStep ==
  ASSUME SInv, [Next]_vars
  PROVE  Verdict'
<1>1. CASE outcome = "ok"
  BY <1>1, ResultStays DEF SInv, Verdict
<1>2. CASE outcome # "ok" /\ outcome' = "ok"
  <2>1. DumpEnds /\ dumppc = "returned" /\ result = 0
    BY <1>2, OnlyDumpSucceeds
  <2> QED
    BY <2>1 DEF DumpEnds, Verdict
<1> QED
  BY <1>1, <1>2 DEF Verdict

LEMMA StepSInv == SInv /\ [Next]_vars => SInv'
<1> SUFFICES ASSUME SInv, [Next]_vars PROVE SInv'
  OBVIOUS
<1>1. FP!FInv'
  <2>1. FP!FInv /\ [FP!Next]_(FP!vars)
    BY FrontStep DEF SInv
  <2> QED
    BY <2>1, FP!StepFInv, FrontendAssumptions
<1>2. DP!DInv'
  <2>1. DP!DInv /\ [DP!Next]_(DP!vars)
    BY DriveStep DEF SInv
  <2> QED
    BY <2>1, DP!StepDInv, DriveAssumptions
<1>3. Counted'
  BY <1>1, <1>2, CountedStep
<1>4. Control' /\ Data' /\ Verdict'
  BY <1>3, ControlStep, DataStep, VerdictStep
<1> QED
  BY <1>1, <1>2, <1>3, <1>4 DEF SInv

-----------------------------------------------------------------------------
(* The theorems.                                                             *)

\* The invariants of the front end and of the drive access hold in the whole
\* program, and with them what connects the three components.
THEOREM Invariance == Spec => []SInv
BY InitSInv, StepSInv, PTL DEF Spec

\* Every variable keeps its type, and main, the drive access and the dump run
\* one at a time.
THEOREM TypeCorrect == Spec => []TypeOK
<1>1. SInv => TypeOK
  <2> SUFFICES ASSUME SInv PROVE TypeOK
    OBVIOUS
  <2>1. F!TypeOK /\ D!TypeOK
    BY SameStates DEF SInv, FP!FInv, DP!DInv
  <2>2. Begun => W!TypeOver((Discs \X Nat) \cup {Zero, Junk})
    BY SameStates DEF SInv, Counted, WP!Shape, SBlocks
  <2>3. /\ mainpc \in {"start", "dump"} => D!Identified
        /\ Called => D!Identified /\ mainpc \in {"dump", "pause", "exit", "exited"}
        /\ drivepc \in {"starting", "reading"} /\ mainpc # "exited" =>
             dumppc = "read" /\ asked = lba
    BY SameStates DEF SInv, Control
  <2> QED
    BY <2>1, <2>2, <2>3 DEF TypeOK
<1> QED
  BY <1>1, Invariance, PTL

LEMMA CopiedIsDumped == ASSUME NEW k, Copied(k) PROVE W!Dumped(k) \in Copy(k)
BY SameStates DEF Copied, WP!Dumped

\* Whatever happens to the tray, the drive and the program, every sector in the
\* parts is that sector of the identified disc, or zeros.
THEOREM DiscCopied == Spec => []ImageOfDisc
<1>1. SInv => ImageOfDisc
  <2> SUFFICES ASSUME SInv, NEW k \in 0 .. lba - 1
               PROVE  W!Dumped(k) \in {<<globalDiskId, k>>, Zero}
    BY DEF ImageOfDisc
  <2>1. Copied(k)
    BY DEF SInv, Data
  <2> QED
    BY <2>1, CopiedIsDumped DEF Copy
<1> QED
  BY <1>1, Invariance, PTL

\* A dump that returns 0 has copied as much as the disc's type is said to hold.
LEMMA WholeWhenReturned ==
  SInv /\ dumppc = "returned" /\ result = 0 => lba = D!DiskSize
<1> SUFFICES ASSUME SInv, dumppc = "returned", result = 0 PROVE lba = D!DiskSize
  OBVIOUS
<1>1. WP!TypeOver(SBlocks) /\ WP!CompleteImage
  BY DEF SInv, Counted, WP!Shape, Begun, Called
<1>2. lba \in Nat /\ lba * SECTOR_SIZE = diskSize
  BY <1>1 DEF WP!TypeOver, WP!CompleteImage, WP!Complete
<1>3. D!DiskSize \in Nat
  BY SameStates, DP!DiskSizeType, DriveAssumptions DEF SInv
<1>4. lba * SECTOR_SIZE = D!DiskSize * SECTOR_SIZE
  BY <1>2 DEF diskSize
<1>5. /\ lba = (lba * SECTOR_SIZE) \div SECTOR_SIZE
      /\ D!DiskSize = (D!DiskSize * SECTOR_SIZE) \div SECTOR_SIZE
  BY <1>2, <1>3, WholeSizes
<1> QED
  BY <1>4, <1>5

\* The program drives the drive as DvdDrive says, the dump asking for no sector
\* beyond the size it was given: all that is proved of DvdDrive holds here.
THEOREM DriveAsSpecified == Spec => DriveSpec
<1>1. Init => D!Init
  BY DEF Init
<1>2. SInv /\ [Next]_vars => [D!Next]_(D!vars)
  <2> SUFFICES ASSUME SInv, [Next]_vars PROVE D!Next \/ UNCHANGED D!vars
    OBVIOUS
  <2>1. UNCHANGED drive => UNCHANGED D!vars
    BY DEF D!vars, D!program, D!request, D!registers, D!memory, D!drive
  <2>2. CASE \/ InitializeDisk \/ IdentifyDisk \/ LinesDropped \/ ReadEnds \/ GiveUp
             \/ DriveAnswers \/ TrayUsed \/ LinesEvicted
    BY <2>1, <2>2
    DEF InitializeDisk, IdentifyDisk, LinesDropped, ReadEnds, GiveUp, DriveAnswers, TrayUsed,
        LinesEvicted, D!Next
  <2>3. CASE ReadBegins
    BY <2>3, ReadInDisc, SameStates DEF ReadBegins, ReadNext, D!Next
  <2>4. CASE UNCHANGED drive
    BY <2>1, <2>4
  <2> QED
    BY <2>2, <2>3, <2>4
    DEF Next, Dumping, Prompt, PromptReleased, DumpOnly, HomeInDump, DumpEnds, Reset,
        ButtonMoves, vars
<1> QED
  BY <1>1, <1>2, Invariance, PTL DEF Spec, DriveSpec, D!Spec

\* Main, the prompts and the user behave as Frontend says, whatever the drive and the
\* dump do: all that is proved of Frontend holds of the program.
THEOREM FrontendAsSpecified == Spec => F!Spec
<1>1. Init => F!Init
  BY DEF Init
<1>2. [Next]_vars => [F!Next]_(F!vars)
  <2> SUFFICES ASSUME [Next]_vars PROVE F!Next \/ UNCHANGED F!vars
    OBVIOUS
  <2> USE DEF F!Next, F!Program, F!Work
  <2>1. UNCHANGED main => UNCHANGED F!vars
    BY DEF F!vars, F!settings, F!progress
  <2>2. CASE Prompt \/ PromptReleased \/ HomeInDump \/ DumpEnds \/ Reset \/ ButtonMoves
    BY <2>2 DEF Prompt, PromptReleased, HomeInDump, DumpEnds, Outcome, Reset, ButtonMoves
  <2>3. CASE InitializeDisk
    BY <2>1, <2>3 DEF InitializeDisk
  <2>4. CASE IdentifyDisk
    <3>1. CASE UNCHANGED main
      BY <2>1, <3>1
    <3>2. CASE F!IdentifyDisk(drivepc = "idle")
      <4>1. PICK known \in BOOLEAN : known = (drivepc = "idle")
        OBVIOUS
      <4>2. F!IdentifyDisk(known)
        BY <3>2, <4>1
      <4> QED
        BY <4>2
    <3> QED
      BY <2>4, <3>1, <3>2 DEF IdentifyDisk
  <2>5. CASE UNCHANGED main
    BY <2>1, <2>5
  <2> QED
    BY <2>2, <2>3, <2>4, <2>5
    DEF Next, Dumping, DumpOnly, ReadBegins, LinesDropped, ReadEnds, GiveUp, DriveAnswers,
        TrayUsed, LinesEvicted, vars
<1> QED
  BY <1>1, <1>2, PTL DEF Spec, F!Spec

-----------------------------------------------------------------------------
(* The program as a copier of discs.                                         *)

\* A disc that is identified stays so, its parameters settled; the dump runs on
\* no other.
Chosen ==
  /\ identified => DP!Identified /\ mainpc \in {"start", "dump", "pause", "exit", "exited"}
  /\ DP!KindFits

LEMMA InitChosen == Init => Chosen
BY DEF Init, F!Init, D!Init, Chosen, DP!KindFits, DP!Identified

\* Main goes on from an identified disc to the dump and the exit only.
LEMMA OnlyForward ==
  ASSUME SInv, mainpc \in {"start", "dump", "pause", "exit", "exited"}, [Next]_vars
  PROVE  /\ mainpc' \in {"start", "dump", "pause", "exit", "exited"} /\ UNCHANGED identified
         /\ mainpc = "exited" => UNCHANGED <<mainpc, outcome>>
<1> USE DEF FP!settings, FP!progress
<1>1. FP!TypeOK /\ [FP!Next]_(FP!vars)
  BY FrontStep DEF SInv, FP!FInv
<1>2. CASE FP!waitForButtonRelease
  <2>1. /\ mainpc \in {"start", "pause", "exit"} /\ mainpc' = FP!After(mainpc)
        /\ UNCHANGED <<identified, outcome>>
    BY <1>1, <1>2 DEF FP!waitForButtonRelease, FP!TypeOK, FP!Prompts
  <2> QED
    BY <2>1 DEF FP!After, FP!Successors
<1>3. CASE FP!waitForA \/ FP!Menu \/ FP!Work
  BY <1>3
  DEF FP!waitForA, FP!AwaitRelease, FP!Menu, FP!ToggleCancelOnError, FP!ChangeFilesystem,
      FP!ChooseDrive, FP!ReprintMenu, FP!ExitFromMenu, FP!IgnoreButtons, FP!Chosen, FP!Work,
      FP!Mount, FP!InitializeDisk, FP!IdentifyDisk, FP!HomeInDump, FP!DumpEnds, FP!Report,
      FP!resetAfterPause
<1>4. CASE FP!User \/ FP!Reset \/ UNCHANGED FP!vars
  BY <1>4 DEF FP!User, FP!Press, FP!Release, FP!Reset, FP!vars
<1> QED
  BY <1>1, <1>2, <1>3, <1>4 DEF FP!Next, FP!Program

\* A disc is identified at one place only, and then drive access is ready.
LEMMA IdentifiedByMain ==
  ASSUME SInv, [Next]_vars, ~identified, identified'
  PROVE  /\ IdentifyDisk /\ drivepc = "idle" /\ mainpc = "identify" /\ mainpc' = "start"
         /\ UNCHANGED <<drive, dump, cancelOnError, outcome>>
<1>1. CASE IdentifyDisk
  BY <1>1 DEF IdentifyDisk, F!IdentifyDisk, F!Report, F!settings
<1>2. CASE Prompt \/ PromptReleased
  BY <1>2
  DEF Prompt, PromptReleased, F!waitForA, F!Menu, F!ToggleCancelOnError, F!ChangeFilesystem,
      F!ChooseDrive, F!ReprintMenu, F!ExitFromMenu, F!IgnoreButtons, F!Mount,
      F!waitForButtonRelease, F!progress
<1>3. CASE InitializeDisk \/ HomeInDump \/ DumpEnds \/ Reset \/ ButtonMoves
  BY <1>3
  DEF InitializeDisk, HomeInDump, DumpEnds, Reset, ButtonMoves, F!InitializeDisk, F!HomeInDump,
      F!DumpEnds, F!Reset, F!User, F!Press, F!Release, F!progress
<1>4. CASE UNCHANGED identified
  BY <1>4
<1> QED
  BY <1>1, <1>2, <1>3, <1>4
  DEF Next, Dumping, DumpOnly, ReadBegins, LinesDropped, ReadEnds, GiveUp, DriveAnswers, TrayUsed,
      LinesEvicted, vars

LEMMA StepChosen ==
  ASSUME SInv, Chosen, [Next]_vars
  PROVE  Chosen'
<1>1. DP!KindFits'
  <2>1. DP!DInv /\ DP!KindFits /\ [DP!Next]_(DP!vars)
    BY DriveStep DEF SInv, Chosen
  <2> QED
    BY <2>1, DP!KindStep, DriveAssumptions
<1>2. CASE identified
  <2>1. /\ mainpc \in {"start", "dump", "pause", "exit", "exited"}
        /\ drivepc \in {"idle", "starting", "reading"}
    BY <1>2 DEF Chosen, DP!Identified
  <2>2. mainpc' \in {"start", "dump", "pause", "exit", "exited"}
    BY <2>1, OnlyForward
  <2>3. drivepc' \in {"idle", "starting", "reading"}
    BY <2>1
    DEF Next, Dumping, Prompt, PromptReleased, InitializeDisk, IdentifyDisk, DumpOnly,
        ReadBegins, ReadNext, D!StartRead, LinesDropped, D!DCInvalidateRange, ReadEnds,
        D!EndRead, GiveUp, D!memset, HomeInDump, DumpEnds, Reset, DriveAnswers, D!Answer,
        TrayUsed, D!Swap, LinesEvicted, D!Evict, ButtonMoves, vars
  <2> QED
    BY <1>1, <2>2, <2>3 DEF Chosen, DP!Identified
<1>3. CASE ~identified /\ identified'
  BY <1>1, <1>3, IdentifiedByMain DEF Chosen, DP!Identified
<1>4. CASE ~identified'
  BY <1>1, <1>4 DEF Chosen
<1> QED
  BY <1>2, <1>3, <1>4

\* A sector is added by the write of the dump, and by nothing else.
LEMMA OnlyWriteAdds ==
  ASSUME [Next]_vars, lba' # lba
  PROVE  /\ mainpc = "dump" /\ W!WriteSector /\ UNCHANGED <<main, drive>>
<1>1. CASE DumpOnly
  BY <1>1
  DEF DumpOnly, W!Allocate, W!AllocateFails, W!StayInPart, W!OpenPart, W!OpenPartFails,
      W!WriteSectorFails, W!Poll, W!Finish, W!counters
<1>2. CASE UNCHANGED lba
  BY <1>2
<1>3. CASE PromptReleased \/ ReadEnds \/ GiveUp \/ HomeInDump \/ Reset
  BY <1>3
  DEF PromptReleased, ReadEnds, GiveUp, HomeInDump, Reset, W!Acknowledge, W!Attempt, W!GiveUp,
      W!Poll, W!Reset, W!counters
<1> QED
  BY <1>1, <1>2, <1>3
  DEF Next, Dumping, Prompt, InitializeDisk, IdentifyDisk, ReadBegins, LinesDropped, DumpEnds,
      DriveAnswers, TrayUsed, LinesEvicted, ButtonMoves, vars

\* What is in the copy stays there, whatever is written after it, wherever a
\* write breaks off, and whichever part is opened.
LEMMA CopyStays ==
  ASSUME SInv, [Next]_vars, NEW k \in 0 .. lba - 1
  PROVE  W!Dumped(k)' = W!Dumped(k)
<1> DEFINE p == WP!PartOf(k)  i == WP!IndexOf(k)
<1>1. p \in DOMAIN files /\ i \in DOMAIN files[p]
  BY DEF SInv, Data, Copied
<1>2. SUFFICES p \in DOMAIN files' /\ i \in DOMAIN files'[p] /\ files'[p][i] = files[p][i]
  BY <1>1 DEF W!Dumped, WP!PartOf, WP!IndexOf, W!PartOf, W!IndexOf, W!SectorsPerChunk,
     WP!SectorsPerChunk
<1> HIDE DEF p, i
<1>3. CASE files' = files
  BY <1>1, <1>3
<1>4. CASE Begun
  <2>1. WP!Shape(SBlocks)
    BY <1>4 DEF SInv, Counted
  <2>2. CASE buffer \in SBlocks /\ WP!WriteSector
    <3>1. /\ fp \in DOMAIN files
          /\ DOMAIN files' = DOMAIN files
          /\ \A q \in DOMAIN files : q # fp => files'[q] = files[q]
          /\ \A j \in DOMAIN files[fp] : j \in DOMAIN files'[fp] /\ files'[fp][j] = files[fp][j]
      BY <2>1, <2>2, WP!SectorWritten, DumpAssumptions
    <3> QED
      BY <1>1, <3>1
  <2>3. CASE WP!OpenPart
    <3>1. p # chunk_index
      BY <2>1, <2>3, WP!EarlierParts, DumpAssumptions
      DEF p, WP!Shape, WP!OpenPart, WP!Running
    <3> QED
      BY <1>1, <2>3, <3>1 DEF WP!OpenPart, WP!Truncated
  <2>4. CASE fp \in opened /\ files' = [files EXCEPT ![fp] = Append(@, Junk)]
    <3>1. fp \in DOMAIN files /\ files[fp] \in Seq(SBlocks)
      <4>1. opened \subseteq DOMAIN files /\ files \in [DOMAIN files -> Seq(SBlocks)]
        BY <2>1 DEF WP!Shape, WP!TypeOver
      <4> QED
        BY <2>4, <4>1
    <3>2. \A j \in DOMAIN files[fp] :
            j \in DOMAIN Append(files[fp], Junk) /\ Append(files[fp], Junk)[j] = files[fp][j]
      BY <3>1
    <3>3. \A q \in DOMAIN files :
            files'[q] = IF q = fp THEN Append(files[fp], Junk) ELSE files[q]
      BY <2>4
    <3>4. DOMAIN files' = DOMAIN files
      BY <2>4
    <3> QED
      BY <1>1, <3>2, <3>3, <3>4
  <2>5. CASE WP!WriteSectorFails \/ WP!Reset
    <3>1. dumppc = "write" => fp \in opened
      BY <2>1 DEF WP!Shape, WP!Phase, WP!Position, WP!Running
    <3>2. files' = files \/ (fp \in opened /\ files' = [files EXCEPT ![fp] = Append(@, Junk)])
      BY <2>5, <3>1 DEF WP!WriteSectorFails, WP!Reset, WP!Torn
    <3> QED
      BY <1>3, <2>4, <3>2
  <2>6. CASE \/ WP!Allocate \/ WP!AllocateFails \/ WP!StayInPart \/ WP!OpenPartFails
             \/ WP!GiveUp \/ WP!Poll(TRUE) \/ WP!Poll(FALSE) \/ WP!Finish \/ WP!Acknowledge
             \/ WP!Attempt(got', block') \/ UNCHANGED WP!vars
    BY <1>3, <2>6
    DEF WP!Allocate, WP!AllocateFails, WP!StayInPart, WP!OpenPartFails, WP!GiveUp, WP!Poll,
        WP!Finish, WP!Acknowledge, WP!Attempt, WP!vars, WP!fs
  <2> QED
    BY <1>4, <2>2, <2>3, <2>5, <2>6, QuietOfDump DEF Quiet
<1>5. CASE ~Begun
  <2>1. lba = 0
    BY <1>5 DEF SInv, Counted, Begun, Untouched
  <2> QED
    BY <2>1
<1> QED
  BY <1>4, <1>5

\* The sector that is added is that of the disc, or zeros if they are allowed.
LEMMA AddedIsCopy ==
  ASSUME SInv, Chosen, [Next]_vars, lba' # lba
  PROVE  /\ Begun /\ identified /\ outcome = NULL /\ lba \in Nat
         /\ lba' = lba + 1 /\ lba < D!DiskSize
         /\ \A k : k = lba => W!Dumped(k)' = buffer
         /\ buffer = <<globalDiskId, lba>> \/ (buffer = Zero /\ ~cancelOnError)
<1>1. mainpc = "dump" /\ dumppc = "write" /\ WP!WriteSector
  BY OnlyWriteAdds, SameSectors DEF W!WriteSector
<1>2. Begun /\ WP!Shape(SBlocks)
  BY <1>1 DEF SInv, Counted, Begun
<1>3. identified /\ outcome = NULL
  BY <1>1 DEF SInv, FP!FInv, FP!Stage
<1>4. lba \in 0 .. DP!DiskSize - 1 /\ DP!DiskSize \in Nat
  BY <1>1, ReadInDisc, DP!DiskSizeType, DriveAssumptions
<1>5. lba \in Nat /\ lba < D!DiskSize
  BY <1>4, SameStates
<1>6. buffer \in Copy(lba)
  BY <1>1 DEF SInv, Data
<1>7. buffer \in SBlocks
  BY <1>2, <1>5, <1>6, CopyType
<1>8. /\ lba' = lba + 1 /\ fp \in DOMAIN files /\ DOMAIN files' = DOMAIN files
      /\ WP!PartOf(lba) = fp /\ WP!IndexOf(lba) = Len(files[fp]) + 1
      /\ DOMAIN files'[fp] = 1 .. Len(files[fp]) + 1 /\ Len(files[fp]) \in Nat
      /\ files'[fp][Len(files[fp]) + 1] = buffer
  BY <1>1, <1>2, <1>7, WP!SectorWritten, DumpAssumptions
<1>9. ASSUME NEW k, k = lba PROVE W!Dumped(k)' = buffer
  <2>1. WP!PartOf(k) \in DOMAIN files' /\ WP!IndexOf(k) \in DOMAIN files'[WP!PartOf(k)]
    <3>1. Len(files[fp]) + 1 \in 1 .. Len(files[fp]) + 1
      BY <1>8
    <3> QED
      BY <1>8, <1>9, <3>1
  <2>2. files'[WP!PartOf(k)][WP!IndexOf(k)] = buffer
    BY <1>8, <1>9
  <2> QED
    BY <2>1, <2>2
    DEF W!Dumped, WP!PartOf, WP!IndexOf, W!PartOf, W!IndexOf, W!SectorsPerChunk,
        WP!SectorsPerChunk
<1>10. buffer = <<globalDiskId, lba>> \/ (buffer = Zero /\ ~cancelOnError)
  BY <1>6 DEF Copy
<1> QED
  BY <1>2, <1>3, <1>5, <1>8, <1>9, <1>10

USE DEF Copying!chosen, Copying!copy

LEMMA CopyInit == Init => Copying!Init
<1> SUFFICES ASSUME Init PROVE Copying!Init
  OBVIOUS
<1>1. ~identified /\ outcome = NULL /\ mainpc = "welcome" /\ lba = 0
  BY DEF Init, F!Init
<1>2. 0 - 1 = -1 /\ 0 .. -1 = {}
  OBVIOUS
<1>3. [k \in 0 .. lba - 1 |-> W!Dumped(k)] = [k \in 0 .. -1 |-> Zero]
  BY <1>1, <1>2
<1> QED
  BY <1>1, <1>3 DEF Copying!Init

\* A step that adds no sector leaves the copy as it is.
LEMMA SameCopy ==
  ASSUME SInv, [Next]_vars, lba' = lba
  PROVE  [k \in 0 .. lba - 1 |-> W!Dumped(k)]' = [k \in 0 .. lba - 1 |-> W!Dumped(k)]
<1>1. \A k \in 0 .. lba - 1 : W!Dumped(k)' = W!Dumped(k)
  BY CopyStays
<1> QED
  BY <1>1

\* When a disc is identified, it gets a size of its kind.
LEMMA SizeOfKind ==
  ASSUME DP!DInv, DP!KindFits, DP!Identified
  PROVE  /\ globalDiskId \in Discs
         /\ D!DiskSize \in [d \in Discs |-> IF d.magic = D!NGC_MAGIC THEN {NGC_SIZE}
                              ELSE {WII_SINGLE_SIZE, WII_DUAL_SIZE}][globalDiskId]
<1>1. globalDiskId \in Discs
  BY DEF DP!DInv, DP!TypeOK
<1>2. type \in {"IS_NGC_DISK", "IS_WII_SINGLE_DISK", "IS_WII_DUAL_DISK"}
  BY DEF DP!DInv, DP!Known, DP!DiskTypes
<1>3. type = "IS_NGC_DISK" <=> globalDiskId.magic = D!NGC_MAGIC
  BY DEF DP!KindFits, DP!NGC_MAGIC, D!NGC_MAGIC
<1> QED
  BY <1>1, <1>2, <1>3 DEF D!DiskSize

LEMMA CopyStep ==
  ASSUME SInv, Chosen, SInv', [Next]_vars
  PROVE  [Copying!Next]_(Copying!vars)
<1> DEFINE image == [k \in 0 .. lba - 1 |-> W!Dumped(k)]
<1>1. FP!TypeOK /\ FP!TypeOK' /\ NULL \notin Discs /\ NULL \notin {"ok", "error"}
  BY MarksAssumption DEF SInv, FP!FInv
<1>2. CASE lba' # lba
  <2>1. /\ Begun /\ identified /\ outcome = NULL /\ lba \in Nat
        /\ lba' = lba + 1 /\ lba < D!DiskSize
        /\ \A k : k = lba => W!Dumped(k)' = buffer
        /\ buffer = <<globalDiskId, lba>> \/ (buffer = Zero /\ ~cancelOnError)
    BY <1>2, AddedIsCopy
  <2>2. UNCHANGED <<main, drive>> /\ mainpc = "dump"
    BY <1>2, OnlyWriteAdds
  <2>3. image' = [k \in 0 .. lba |-> IF k = lba THEN buffer ELSE image[k]]
    <3>1. \A k \in 0 .. lba - 1 : W!Dumped(k)' = W!Dumped(k)
      BY CopyStays
    <3>2. lba' - 1 = lba /\ \A k \in 0 .. lba : k # lba => k \in 0 .. lba - 1
      BY <2>1
    <3> QED
      BY <2>1, <3>1, <3>2
  <2>4. D!DiskSize' = D!DiskSize
    BY <2>2 DEF D!DiskSize
  <2> HIDE DEF image
  <2>5. Copying!Extend
    BY <2>1, <2>2, <2>3, <2>4 DEF Copying!Extend, Copying!Copies, image
  <2> QED
    BY <2>5 DEF Copying!Next
<1>3. CASE lba' = lba /\ ~identified /\ identified'
  <2>1. /\ drivepc = "idle" /\ mainpc = "identify" /\ mainpc' = "start"
        /\ UNCHANGED <<drive, dump, cancelOnError, outcome>>
    BY <1>3, IdentifiedByMain
  <2>2. image' = image
    BY <1>3, SameCopy
  <2>3. outcome = NULL
    BY <2>1 DEF SInv, FP!FInv, FP!Stage
  <2>4. D!DiskSize' = D!DiskSize
    BY <2>1 DEF D!DiskSize
  <2>5. /\ globalDiskId \in Discs
        /\ D!DiskSize \in [d \in Discs |-> IF d.magic = D!NGC_MAGIC THEN {NGC_SIZE}
                             ELSE {WII_SINGLE_SIZE, WII_DUAL_SIZE}][globalDiskId]
    <3>1. DP!DInv /\ DP!KindFits /\ DP!Identified
      BY <2>1 DEF SInv, Chosen, DP!Identified
    <3> QED
      BY <3>1, SizeOfKind
  <2>6. cancelOnError \in BOOLEAN
    BY <1>1 DEF FP!TypeOK
  <2>7. Copying!Identify
    BY <1>3, <2>1, <2>2, <2>3, <2>4, <2>5, <2>6 DEF Copying!Identify
  <2> QED
    BY <2>7 DEF Copying!Next
<1>4. CASE lba' = lba /\ ~(~identified /\ identified')
  <2>1. image' = image
    BY <1>4, SameCopy
  <2>2. UNCHANGED Copying!chosen
    <3>1. CASE identified
      <4>1. UNCHANGED <<cancelOnError, globalDiskId, type, identified>>
        BY <3>1, KeptSettled, OnlyForward DEF Chosen
      <4> QED
        BY <4>1 DEF D!DiskSize
    <3>2. CASE ~identified
      BY <1>4, <3>2
    <3> QED
      BY <3>1, <3>2
  <2>3. UNCHANGED Copying!copy
    BY <1>4, <2>1
  <2>4. CASE outcome # NULL
    <3>1. outcome' = outcome
      BY <2>4, FrontStep, FP!AfterReport, FrontendAssumptions DEF SInv
    <3> QED
      BY <2>2, <2>3, <2>4, <3>1 DEF Copying!vars
  <2>5. CASE outcome = NULL /\ mainpc = "exited"
    <3>1. UNCHANGED <<mainpc, outcome>>
      BY <2>5, OnlyForward
    <3> QED
      BY <2>2, <2>3, <3>1 DEF Copying!vars
  <2>6. CASE outcome = NULL /\ mainpc # "exited"
    <3>1. CASE outcome' = "ok"
      <4>1. DumpEnds /\ dumppc = "returned" /\ result = 0
        BY <1>1, <2>6, <3>1, OnlyDumpSucceeds
      <4>2. lba = D!DiskSize
        BY <4>1, WholeWhenReturned
      <4>3. identified /\ globalDiskId \in Discs
        <5>1. mainpc = "dump"
          BY <4>1 DEF DumpEnds, F!DumpEnds
        <5>2. identified
          BY <5>1 DEF SInv, FP!FInv, FP!Stage
        <5> QED
          BY <5>2 DEF Chosen, SInv, DP!DInv, DP!TypeOK
      <4>4. Copying!Succeed
        BY <1>1, <2>2, <2>3, <2>6, <3>1, <4>2, <4>3 DEF Copying!Succeed
      <4> QED
        BY <4>4 DEF Copying!Next
    <3>2. CASE outcome' = "error" \/ (outcome' = NULL /\ mainpc' = "exited")
      <4>1. Copying!Fail
        BY <1>1, <2>2, <2>3, <2>6, <3>2 DEF Copying!Fail
      <4> QED
        BY <4>1 DEF Copying!Next
    <3>3. CASE outcome' = NULL /\ mainpc' # "exited"
      BY <2>2, <2>3, <2>6, <3>3 DEF Copying!vars
    <3> QED
      BY <1>1, <3>1, <3>2, <3>3 DEF FP!TypeOK
  <2> QED
    BY <2>4, <2>5, <2>6
<1> QED
  BY <1>2, <1>3, <1>4

\* The whole program copies one disc as DiscCopy says, for all discs, sizes and uses
\* of the tray: drive, parts, retries and prompts are details of it.
THEOREM CopiesOneDisc == Spec => CopySpec
<1>1. Spec => []Chosen
  <2>1. SInv /\ Chosen /\ [Next]_vars => Chosen'
    BY StepChosen
  <2> QED
    BY <2>1, InitChosen, Invariance, PTL DEF Spec
<1>2. SInv /\ Chosen /\ SInv' /\ [Next]_vars => [Copying!Next]_(Copying!vars)
  BY CopyStep
<1> QED
  BY <1>1, <1>2, CopyInit, Invariance, PTL DEF Spec, CopySpec, Copying!Spec

-----------------------------------------------------------------------------
(* The count of errors.                                                      *)

\* The place under way will be wrong.
Lost == dumppc = "error" \/ (dumppc = "write" /\ buffer # <<globalDiskId, lba>>)

\* While the dump runs, and when it has returned 0, the errors counted are the
\* places of the copy that are wrong, and the one that is about to be.
Tally ==
  /\ IsFiniteSet(Wrong)
  /\ dumppc \in {"alloc", "loop", "read", "write", "poll", "error"} \/ result = 0 =>
       errorCount = Cardinality(Wrong) + (IF Lost THEN 1 ELSE 0)

LEMMA LengthType == SInv => lba \in Nat /\ errorCount \in Nat /\ (lba # 0 => Begun)
<1> SUFFICES ASSUME SInv PROVE lba \in Nat /\ errorCount \in Nat /\ (lba # 0 => Begun)
  OBVIOUS
<1>1. CASE Begun
  BY <1>1 DEF SInv, Counted, WP!Shape, WP!TypeOver
<1>2. CASE ~Begun
  BY <1>2 DEF SInv, Counted, Begun, Untouched
<1> QED
  BY <1>1, <1>2

LEMMA InitTally == Init => Tally
<1> SUFFICES ASSUME Init PROVE Tally
  OBVIOUS
<1>1. dumppc = "alloc" /\ lba = 0 /\ errorCount = 0
  BY DEF Init
<1>2. Wrong = {}
  <2>1. 0 .. 0 - 1 = {}
    OBVIOUS
  <2> QED
    BY <1>1, <2>1 DEF Wrong
<1> QED
  BY <1>1, <1>2, FS_EmptySet DEF Tally, Lost

\* A step that adds no sector adds nothing to what is wrong.
LEMMA WrongStays ==
  ASSUME SInv, [Next]_vars, lba' = lba
  PROVE  Wrong' = Wrong
<1>1. CASE lba = 0
  <2>1. 0 .. 0 - 1 = {}
    OBVIOUS
  <2> QED
    BY <1>1, <2>1 DEF Wrong
<1>2. CASE lba # 0
  <2>1. globalDiskId' = globalDiskId
    BY <1>2, LengthType, Settled
  <2>2. \A k \in 0 .. lba - 1 : W!Dumped(k)' = W!Dumped(k)
    BY CopyStays
  <2> QED
    BY <2>1, <2>2 DEF Wrong
<1> QED
  BY <1>1, <1>2

\* A sector that is written is wrong if it is not what the disc has.
LEMMA WrongAdds ==
  ASSUME SInv, Chosen, [Next]_vars, lba' # lba
  PROVE  /\ lba \notin Wrong
         /\ Wrong' = IF buffer = <<globalDiskId, lba>> THEN Wrong ELSE Wrong \cup {lba}
<1>1. /\ lba \in Nat /\ lba' = lba + 1
      /\ \A k : k = lba => W!Dumped(k)' = buffer
  BY AddedIsCopy
<1>2. globalDiskId' = globalDiskId
  BY AddedIsCopy, Settled
<1>3. \A k \in 0 .. lba - 1 : W!Dumped(k)' = W!Dumped(k)
  BY CopyStays
<1>4. lba \notin 0 .. lba - 1 /\ 0 .. lba' - 1 = (0 .. lba - 1) \cup {lba}
  BY <1>1
<1>5. \A k : k \in Wrong' <=>
               k \in 0 .. lba' - 1 /\ W!Dumped(k)' # <<globalDiskId, k>>
  BY <1>2 DEF Wrong
<1>6. \A k : k \in Wrong <=> k \in 0 .. lba - 1 /\ W!Dumped(k) # <<globalDiskId, k>>
  BY DEF Wrong
<1>7. ASSUME NEW k
      PROVE  k \in Wrong' <=> k \in Wrong \/ (k = lba /\ buffer # <<globalDiskId, lba>>)
  <2>1. CASE k = lba
    BY <1>1, <1>4, <1>5, <1>6, <2>1
  <2>2. CASE k # lba
    BY <1>3, <1>4, <1>5, <1>6, <2>2
  <2> QED
    BY <2>1, <2>2
<1> QED
  BY <1>4, <1>6, <1>7

\* A sector that was read is the disc's, and one that was given up is not.
LEMMA LostOrNot ==
  ASSUME SInv, Begun, [Next]_vars, lba' = lba
  PROVE  /\ W!GiveUp => Lost' /\ ~Lost
         /\ ReadEnds => ~Lost' /\ ~Lost
<1>1. globalDiskId' = globalDiskId /\ globalDiskId \in Discs /\ lba \in Nat
  BY Settled, LengthType, BegunControl DEF SInv, DP!DInv, DP!TypeOK
<1>2. ASSUME W!GiveUp PROVE Lost' /\ ~Lost
  <2>1. dumppc = "read" /\ (dumppc' = "error" \/ (dumppc' = "write" /\ buffer' = Zero))
    BY <1>2 DEF W!GiveUp, W!StopOrSkip
  <2>2. Zero # <<globalDiskId, lba>>
    <3>1. <<globalDiskId, lba>> \in Discs \X Nat
      BY <1>1
    <3> QED
      BY <3>1, MarksAssumption
  <2> QED
    BY <1>1, <2>1, <2>2 DEF Lost
<1>3. ASSUME ReadEnds PROVE ~Lost' /\ ~Lost
  <2>1. DP!EndRead /\ drivepc = "reading" /\ mainpc = "dump" /\ W!Attempt(got', block')
    BY <1>3, SameReads DEF ReadEnds, DP!EndRead
  <2>2. asked = lba
    BY <2>1 DEF SInv, Control
  <2>3. got' = 0 => block' = <<globalDiskId, lba>>
    <3>1. cache = NULL
      BY <2>1 DEF SInv, DP!DInv, DP!Outcome
    <3>2. ~deint => ram = <<globalDiskId, asked>>
      BY <2>1 DEF SInv, DP!DInv, DP!Outcome, DP!InRead, DP!EndRead
    <3> QED
      BY <2>1, <2>2, <3>1, <3>2 DEF DP!EndRead, DP!ReadResult
  <2>4. /\ dumppc = "read" /\ buffer' = block'
        /\ dumppc' = IF got' = 0 THEN "write" ELSE "read"
    BY <2>1 DEF W!Attempt
  <2> QED
    BY <1>1, <2>3, <2>4 DEF Lost
<1> QED
  BY <1>2, <1>3

\* The steps that neither write nor read nor give up.
LEMMA NothingLost ==
  ASSUME SInv, [Next]_vars, lba' = lba, ~W!GiveUp, ~ReadEnds
  PROVE  /\ errorCount' = errorCount
         /\ dumppc' \in {"alloc", "loop", "read", "write", "poll", "error"} \/ result' = 0 =>
              /\ dumppc \in {"alloc", "loop", "read", "write", "poll", "error"} \/ result = 0
              /\ Lost' <=> Lost
<1>1. CASE Begun
  <2>1. globalDiskId' = globalDiskId
    BY <1>1, Settled
  <2>2. WP!Phase
    BY <1>1 DEF SInv, Counted, WP!Shape
  <2>3. CASE UNCHANGED WP!vars
    BY <2>1, <2>3 DEF WP!vars, WP!counters, Lost
  <2>4. CASE WP!Allocate \/ WP!StayInPart \/ WP!OpenPart \/ WP!Poll(FALSE) \/ WP!Finish
    BY <2>4
    DEF WP!Allocate, WP!StayInPart, WP!OpenPart, WP!StartReading, WP!Poll, WP!Finish, WP!Return,
        Lost
  <2>5. CASE \/ WP!AllocateFails \/ WP!OpenPartFails \/ WP!WriteSectorFails \/ WP!Poll(TRUE)
             \/ WP!Acknowledge \/ WP!Reset
    <3>1. /\ errorCount' = errorCount /\ dumppc' \in {"returned", "exited"}
          /\ (result' \in {1, -2}) \/ (result' = result)
      <4>1. CASE WP!AllocateFails \/ WP!OpenPartFails \/ WP!WriteSectorFails
        BY <4>1 DEF WP!AllocateFails, WP!OpenPartFails, WP!WriteSectorFails, WP!Return
      <4>2. CASE WP!Poll(TRUE)
        BY <4>2 DEF WP!Poll, WP!Exit
      <4>3. CASE WP!Acknowledge \/ WP!Reset
        BY <4>3 DEF WP!Acknowledge, WP!Reset, WP!Exit
      <4> QED
        BY <2>5, <4>1, <4>2, <4>3
    <3>2. result = 0 => dumppc = "returned"
      BY <2>2, MarksAssumption DEF WP!Phase
    <3>3. dumppc # "returned"
      BY <2>5
      DEF WP!AllocateFails, WP!OpenPartFails, WP!WriteSectorFails, WP!Poll, WP!Acknowledge,
          WP!Reset
    <3> QED
      BY <3>1, <3>2, <3>3
  <2>6. ~WP!GiveUp
    BY DEF WP!GiveUp, W!GiveUp, WP!CountError, W!CountError, WP!StopOrSkip, W!StopOrSkip,
       WP!MAX_TRIES, W!MAX_TRIES, WP!params, W!params, WP!counters, W!counters, WP!attempt,
       W!attempt, WP!fs, W!fs
  <2>7. ~WP!WriteSector
    <3>1. WP!WriteSector => lba' = lba + WP!ReadSize \div SECTOR_SIZE /\ dumppc = "write"
      BY DEF WP!WriteSector, WP!Advance
    <3>2. dumppc = "write" => WP!ReadSize \div SECTOR_SIZE = 1
      BY <1>1, WP!WholeSector, DumpAssumptions DEF SInv, Counted, WP!Shape, WP!Phase
    <3> QED
      BY <3>1, <3>2, LengthType
  <2> QED
    BY <1>1, <2>3, <2>4, <2>5, <2>6, <2>7, QuietOfDump DEF Quiet
<1>2. CASE ~Begun
  <2>1. UNCHANGED loop /\ dumppc = "alloc"
    <3>1. CASE dumppc' = "alloc"
      BY <1>2, <3>1, LoopStays DEF Begun, Called
    <3>2. CASE dumppc' # "alloc"
      BY <1>2, <3>2, DumpIsCalled DEF Begun, Called, loop
    <3> QED
      BY <3>1, <3>2
  <2> QED
    BY <2>1 DEF loop, Lost
<1> QED
  BY <1>1, <1>2

LEMMA StepTally ==
  ASSUME SInv, Chosen, Tally, [Next]_vars
  PROVE  Tally'
<1>1. IsFiniteSet(Wrong) /\ Cardinality(Wrong) \in Nat /\ errorCount \in Nat
  BY FS_CardinalityType, LengthType DEF Tally
<1>2. CASE lba' # lba
  <2>1. W!WriteSector
    BY <1>2, OnlyWriteAdds
  <2>2. dumppc = "write" /\ dumppc' = "poll" /\ errorCount' = errorCount
    BY <2>1 DEF W!WriteSector
  <2>3. errorCount = Cardinality(Wrong) + (IF buffer = <<globalDiskId, lba>> THEN 0 ELSE 1)
    BY <2>2 DEF Tally, Lost
  <2>4. /\ IsFiniteSet(Wrong \cup {lba})
        /\ Cardinality(Wrong \cup {lba}) = Cardinality(Wrong) + 1
    <3>1. lba \notin Wrong
      BY LengthType DEF Wrong
    <3>2. PICK lost, k : lost = Wrong /\ k = lba
      OBVIOUS
    <3>3. IsFiniteSet(lost) /\ k \notin lost
      BY <1>1, <3>1, <3>2
    <3>4. IsFiniteSet(lost \cup {k}) /\ Cardinality(lost \cup {k}) = Cardinality(lost) + 1
      BY <3>3, FS_AddElement
    <3> QED
      BY <3>2, <3>4
  <2>5. IsFiniteSet(Wrong') /\ Cardinality(Wrong') = errorCount
    <3>1. CASE buffer = <<globalDiskId, lba>>
      <4>1. Wrong' = Wrong
        BY <1>2, <3>1, WrongAdds
      <4>2. errorCount = Cardinality(Wrong)
        BY <1>1, <2>3, <3>1
      <4> QED
        BY <1>1, <4>1, <4>2
    <3>2. CASE buffer # <<globalDiskId, lba>>
      <4>1. Wrong' = Wrong \cup {lba}
        BY <1>2, <3>2, WrongAdds
      <4>2. errorCount = Cardinality(Wrong) + 1
        BY <1>1, <2>3, <3>2
      <4> QED
        BY <2>4, <4>1, <4>2
    <3> QED
      BY <3>1, <3>2
  <2> QED
    BY <1>1, <2>2, <2>5 DEF Tally, Lost
<1>3. CASE lba' = lba
  <2>1. Wrong' = Wrong
    BY <1>3, WrongStays
  <2>2. CASE W!GiveUp
    <3>1. dumppc = "read" /\ errorCount' = errorCount + 1
      BY <2>2 DEF W!GiveUp, W!CountError
    <3>2. Begun
      BY <3>1 DEF Begun, Called
    <3>3. Lost' /\ ~Lost
      BY <1>3, <2>2, <3>2, LostOrNot
    <3> QED
      BY <1>1, <2>1, <3>1, <3>3 DEF Tally
  <2>3. CASE ReadEnds
    <3>1. dumppc = "read" /\ errorCount' = errorCount
      BY <2>3 DEF ReadEnds, W!Attempt
    <3>2. Begun
      BY <3>1 DEF Begun, Called
    <3>3. ~Lost' /\ ~Lost
      BY <1>3, <2>3, <3>2, LostOrNot
    <3> QED
      BY <1>1, <2>1, <3>1, <3>3 DEF Tally
  <2>4. CASE ~W!GiveUp /\ ~ReadEnds
    BY <1>3, <2>1, <2>4, NothingLost DEF Tally
  <2> QED
    BY <2>2, <2>3, <2>4
<1> QED
  BY <1>2, <1>3

\* What lies beyond the copy of a disc lies beyond the size of a single layer.
LEMMA BeyondCopy ==
  ASSUME SInv, Chosen, DP!Identified, lba = D!DiskSize,
         NEW k \in Nat, k < globalDiskId.sectors, k >= lba
  PROVE  type = "IS_WII_SINGLE_DISK" /\ k >= WII_SINGLE_SIZE
<1>1. globalDiskId \in Discs
  BY DEF SInv, DP!DInv, DP!TypeOK
<1>2. type \in {"IS_NGC_DISK", "IS_WII_SINGLE_DISK", "IS_WII_DUAL_DISK"}
  BY DEF SInv, DP!DInv, DP!Known, DP!DiskTypes
<1>3. type = "IS_NGC_DISK" <=> globalDiskId.magic = D!NGC_MAGIC
  BY DEF Chosen, DP!KindFits, DP!NGC_MAGIC, D!NGC_MAGIC
<1>4. globalDiskId.magic \in {D!WII_MAGIC, D!NGC_MAGIC}
  BY DEF SInv, DP!DInv, DP!Known, DP!Kept, DP!ValidId, DP!WII_MAGIC, DP!NGC_MAGIC, D!WII_MAGIC,
         D!NGC_MAGIC
<1>5. /\ globalDiskId.sectors \in Nat /\ {NGC_SIZE, WII_SINGLE_SIZE, WII_DUAL_SIZE} \subseteq Nat
      /\ globalDiskId.magic = D!NGC_MAGIC => globalDiskId.sectors <= NGC_SIZE
      /\ globalDiskId.magic = D!WII_MAGIC => globalDiskId.sectors <= WII_DUAL_SIZE
  BY <1>1, DiscsAssumption, SizesAssumption
<1>6. CASE type = "IS_NGC_DISK"
  <2>1. lba = NGC_SIZE
    BY <1>6 DEF D!DiskSize
  <2> QED
    BY <1>3, <1>5, <1>6, <2>1
<1>7. CASE type = "IS_WII_DUAL_DISK"
  <2>1. lba = WII_DUAL_SIZE /\ globalDiskId.magic = D!WII_MAGIC
    BY <1>3, <1>4, <1>7 DEF D!DiskSize
  <2> QED
    BY <1>5, <2>1
<1>8. CASE type = "IS_WII_SINGLE_DISK"
  BY <1>8 DEF D!DiskSize
<1> QED
  BY <1>2, <1>6, <1>7, <1>8

\* A dump reported as a success is as long as the disc's type says and wrong in as many
\* places as errors were counted, none with "stop on read error" on; what else it lacks
\* of the disc lies beyond a single layer, on a disc taken for single-layer.
THEOREM SuccessIsExact == Spec => []OkMeansExact
<1>1. Spec => []Chosen
  <2>1. SInv /\ Chosen /\ [Next]_vars => Chosen'
    BY StepChosen
  <2> QED
    BY <2>1, InitChosen, Invariance, PTL DEF Spec
<1>2. Spec => []Tally
  <2>1. SInv /\ Chosen /\ Tally /\ [Next]_vars => Tally'
    BY StepTally
  <2> QED
    BY <1>1, <2>1, InitTally, Invariance, PTL DEF Spec
<1>3. SInv /\ Chosen /\ Tally => OkMeansExact
  <2> SUFFICES ASSUME SInv, Chosen, Tally, outcome = "ok"
               PROVE  /\ lba = D!DiskSize /\ Cardinality(Wrong) = errorCount
                      /\ cancelOnError => errorCount = 0
                      /\ \A k \in Missing \ Wrong :
                           type = "IS_WII_SINGLE_DISK" /\ k >= WII_SINGLE_SIZE
    BY DEF OkMeansExact
  <2>1. dumppc = "returned" /\ result = 0
    BY DEF SInv, Verdict
  <2>2. lba = D!DiskSize
    BY <2>1, WholeWhenReturned
  <2>3. Cardinality(Wrong) = errorCount
    <3>1. ~Lost
      BY <2>1 DEF Lost
    <3> QED
      BY <2>1, <3>1, FS_CardinalityType DEF Tally
  <2>4. cancelOnError => errorCount = 0
    <3>1. ASSUME cancelOnError, NEW k \in 0 .. lba - 1 PROVE W!Dumped(k) = <<globalDiskId, k>>
      <4>1. Copied(k)
        BY DEF SInv, Data
      <4> QED
        BY <3>1, <4>1, CopiedIsDumped DEF Copy
    <3>2. cancelOnError => Wrong = {}
      BY <3>1 DEF Wrong
    <3> QED
      BY <2>3, <3>2, FS_EmptySet
  <2>5. ASSUME NEW k \in Missing \ Wrong
        PROVE  type = "IS_WII_SINGLE_DISK" /\ k >= WII_SINGLE_SIZE
    <3>1. DP!Identified
      BY <2>1 DEF SInv, Control, Called
    <3>2. globalDiskId.sectors \in Nat
      <4>1. globalDiskId \in Discs
        BY <3>1 DEF SInv, DP!DInv, DP!TypeOK
      <4> QED
        BY <4>1, DiscsAssumption
    <3>3. k \in Nat /\ k < globalDiskId.sectors /\ k >= lba
      BY <2>5, <3>2 DEF Missing
    <3> QED
      BY <2>2, <3>1, <3>3, BeyondCopy
  <2> QED
    BY <2>2, <2>3, <2>4, <2>5
<1> QED
  BY <1>1, <1>2, <1>3, Invariance, PTL

-----------------------------------------------------------------------------
(* How long a dump takes.                                                    *)

LEMMA DumpingState ==
  ASSUME SInv, mainpc = "dump"
  PROVE  /\ W!SectorsLeft \in Nat /\ tries \in 0 .. 3
         /\ dumppc \in {"read", "write"} => W!SectorsLeft >= 1
         /\ drivepc \in {"starting", "reading"} => dumppc = "read" /\ tries < 3
         /\ W!WriteSector => W!SectorsLeft' = W!SectorsLeft - 1
<1>1. WP!Shape(SBlocks)
  BY DEF SInv, Counted, Begun
<1>2. /\ W!SectorsLeft = WP!SectorsLeft /\ W!SectorsLeft' = WP!SectorsLeft'
      /\ W!WriteSector => WP!WriteSector /\ dumppc = "write"
  BY SameSectors DEF W!SectorsLeft, WP!SectorsLeft, W!WriteSector
<1>3. WP!SectorsLeft \in Nat /\ tries \in 0 .. 3
  BY <1>1, WP!SectorsLeftType, DumpAssumptions DEF WP!Shape, WP!TypeOver, WP!MAX_TRIES
<1>4. dumppc \in {"read", "write"} =>
        /\ WP!SectorsLeft \in Nat \ {0}
        /\ WP!WriteSector => WP!SectorsLeft' = WP!SectorsLeft - 1
  BY <1>1, WP!OneSectorLess, DumpAssumptions DEF WP!Shape, WP!Phase
<1>5. drivepc \in {"starting", "reading"} => dumppc = "read" /\ tries < 3
  BY DEF SInv, Control, WP!MAX_TRIES
<1> QED
  BY <1>2, <1>3, <1>4, <1>5

\* What is left to be done is never less than a step.
LEMMA StepsToReportType ==
  ASSUME SInv
  PROVE  StepsToReport \in Nat /\ (mainpc = "dump" => StepsToReport >= 1)
<1>1. CASE mainpc = "dump"
  <2>1. PICK left \in Nat : /\ left = W!SectorsLeft /\ tries \in 0 .. 3
                            /\ dumppc \in {"read", "write"} => left >= 1
    BY <1>1, DumpingState
  <2> QED
    BY <1>1, <2>1 DEF StepsToReport, W!MAX_TRIES
<1>2. CASE mainpc # "dump"
  BY <1>2 DEF StepsToReport
<1> QED
  BY <1>1, <1>2

\* The places a step of the loop itself leads to.
LEMMA LoopMoves ==
  ASSUME SInv, DumpOnly \/ GiveUp
  PROVE  /\ mainpc = "dump" /\ UNCHANGED <<mainpc, drivepc>>
         /\ drivepc \notin {"starting", "reading"}
         /\ \/ dumppc \in {"alloc", "poll"} /\ dumppc' = "loop" /\ UNCHANGED remaining
            \/ dumppc = "loop" /\ dumppc' = "read" /\ tries' = 0 /\ UNCHANGED remaining
            \/ dumppc = "read" /\ dumppc' = "write" /\ tries = 3 /\ UNCHANGED remaining
            \/ dumppc = "write" /\ dumppc' = "poll" /\ W!WriteSector
            \/ /\ dumppc \in {"alloc", "loop", "read", "write"}
               /\ dumppc' \in {"returned", "error"}
<1>1. mainpc = "dump" /\ UNCHANGED <<mainpc, drivepc>>
  BY DEF DumpOnly, GiveUp, D!memset
<1>2. tries \in 0 .. 3
  BY <1>1, DumpingState
<1>3. drivepc \notin {"starting", "reading"}
  BY <1>1, NoReadUnderWay
<1>4. CASE W!Allocate \/ W!AllocateFails \/ W!StayInPart \/ W!OpenPart \/ W!OpenPartFails
  BY <1>1, <1>3, <1>4
  DEF W!Allocate, W!AllocateFails, W!StayInPart, W!OpenPart, W!OpenPartFails, W!StartReading,
      W!Return, W!counters
<1>5. CASE W!GiveUp
  <2>1. tries = 3
    BY <1>2, <1>5 DEF W!GiveUp, W!MAX_TRIES
  <2> QED
    BY <1>1, <1>3, <1>5, <2>1 DEF W!GiveUp, W!StopOrSkip, W!counters
<1>6. CASE W!WriteSector \/ W!WriteSectorFails
  BY <1>1, <1>3, <1>6 DEF W!WriteSector, W!WriteSectorFails, W!Return
<1>7. CASE W!Poll(FALSE) \/ W!Finish
  BY <1>1, <1>3, <1>7 DEF W!Poll, W!Finish, W!Return, W!counters
<1> QED
  BY <1>4, <1>5, <1>6, <1>7 DEF DumpOnly, GiveUp

LEMMA DumpingIsNearer ==
  ASSUME SInv, mainpc = "dump", [Next]_vars, Dumping
  PROVE  StepsToReport' \in Nat /\ StepsToReport' < StepsToReport
<1> USE DEF StepsToReport, W!MAX_TRIES
<1>1. PICK left \in Nat : /\ left = W!SectorsLeft /\ tries \in 0 .. 3
                          /\ dumppc \in {"read", "write"} => left >= 1
                          /\ drivepc \in {"starting", "reading"} => dumppc = "read" /\ tries < 3
                          /\ W!WriteSector => W!SectorsLeft' = left - 1
  BY DumpingState
<1>2. UNCHANGED remaining => W!SectorsLeft' = left
  BY <1>1 DEF W!SectorsLeft
<1>3. CASE DumpOnly \/ GiveUp
  <2>1. /\ UNCHANGED <<mainpc, drivepc>> /\ drivepc \notin {"starting", "reading"}
        /\ \/ dumppc \in {"alloc", "poll"} /\ dumppc' = "loop" /\ UNCHANGED remaining
           \/ dumppc = "loop" /\ dumppc' = "read" /\ tries' = 0 /\ UNCHANGED remaining
           \/ dumppc = "read" /\ dumppc' = "write" /\ tries = 3 /\ UNCHANGED remaining
           \/ dumppc = "write" /\ dumppc' = "poll" /\ W!WriteSector
           \/ /\ dumppc \in {"alloc", "loop", "read", "write"}
              /\ dumppc' \in {"returned", "error"}
    BY <1>3, LoopMoves
  <2> QED
    BY <1>1, <1>2, <2>1
<1>4. CASE ReadBegins
  <2>1. /\ dumppc = "read" /\ drivepc = "idle" /\ drivepc' = "starting" /\ tries < 3
        /\ UNCHANGED <<mainpc, dumppc, tries, remaining>>
    BY <1>4 DEF ReadBegins, ReadNext, D!StartRead
  <2> QED
    BY <1>1, <1>2, <2>1
<1>5. CASE ReadEnds
  <2>1. /\ dumppc = "read" /\ drivepc = "reading" /\ drivepc' = "idle"
        /\ dumppc' \in {"read", "write"} /\ tries' = tries + 1
        /\ UNCHANGED <<mainpc, remaining>>
    BY <1>5 DEF ReadEnds, D!EndRead, W!Attempt, W!CountTry, W!counters
  <2> QED
    BY <1>1, <1>2, <2>1
<1>6. CASE LinesDropped
  <2>1. /\ drivepc = "starting" /\ drivepc' = "reading"
        /\ UNCHANGED <<mainpc, dumppc, tries, remaining>>
    BY <1>6 DEF LinesDropped, D!DCInvalidateRange
  <2> QED
    BY <1>1, <1>2, <2>1
<1>7. CASE HomeInDump \/ DumpEnds
  <2>1. mainpc' # "dump"
    BY <1>7 DEF HomeInDump, DumpEnds, F!HomeInDump, F!DumpEnds, F!Report, F!resetAfterPause
  <2>2. StepsToReport >= 1 /\ StepsToReport \in Nat
    BY StepsToReportType
  <2> QED
    BY <2>1, <2>2
<1> QED
  BY <1>3, <1>4, <1>5, <1>6, <1>7 DEF Dumping

\* What happens beside the dump leaves it where it is, or ends it.
LEMMA NothingPutsOff ==
  ASSUME SInv, mainpc = "dump", [Next]_vars, ~Dumping
  PROVE  \/ UNCHANGED <<mainpc, drivepc, dumppc, tries, remaining>>
         \/ mainpc' = "exited"
<1>1. CASE Prompt \/ PromptReleased \/ InitializeDisk \/ IdentifyDisk
  <2>1. ~releasing
    BY DEF SInv, FP!FInv, FP!TypeOK, FP!Prompts
  <2> QED
    BY <1>1, <2>1
    DEF Prompt, PromptReleased, InitializeDisk, IdentifyDisk, F!waitForA, F!Prompts, F!Menu,
        F!ToggleCancelOnError, F!ChangeFilesystem, F!ChooseDrive, F!ReprintMenu,
        F!ExitFromMenu, F!IgnoreButtons, F!Chosen, F!Mount, F!waitForButtonRelease
<1>2. CASE Reset \/ DriveAnswers \/ TrayUsed \/ LinesEvicted \/ ButtonMoves \/ UNCHANGED vars
  BY <1>2
  DEF Reset, F!Reset, DriveAnswers, D!Answer, TrayUsed, D!Swap, LinesEvicted, D!Evict,
      ButtonMoves, F!User, F!Press, F!Release, vars
<1> QED
  BY <1>1, <1>2 DEF Next

\* The number of steps to the report falls with every step of the dump and never rises,
\* whatever happens at the drive, the tray and the buttons: a dump takes at most thirteen
\* steps for each sector, and three more.
THEOREM ReportInSight == Spec => ReportNearer
<1>1. SInv /\ [Next]_vars =>
        [mainpc = "dump" => /\ StepsToReport' \in 0 .. StepsToReport
                            /\ Dumping => StepsToReport' < StepsToReport]_vars
  <2> SUFFICES ASSUME SInv, [Next]_vars, mainpc = "dump"
               PROVE  /\ StepsToReport' \in 0 .. StepsToReport
                      /\ Dumping => StepsToReport' < StepsToReport
    OBVIOUS
  <2>1. StepsToReport \in Nat
    BY StepsToReportType
  <2>2. CASE Dumping
    <3>1. StepsToReport' \in Nat /\ StepsToReport' < StepsToReport
      BY <2>2, DumpingIsNearer
    <3>2. \A m \in Nat, n \in Nat : n < m => n \in 0 .. m
      BY SMT
    <3> QED
      BY <2>1, <3>1, <3>2, Zenon
  <2>3. CASE ~Dumping
    <3>1. StepsToReport' = StepsToReport \/ StepsToReport' = 0
      BY <2>3, NothingPutsOff DEF StepsToReport, W!SectorsLeft
    <3>2. \A m \in Nat : m \in 0 .. m /\ 0 \in 0 .. m
      BY SMT
    <3> QED
      BY <2>1, <2>3, <3>1, <3>2, Zenon
  <2> QED
    BY <2>2, <2>3
<1> QED
  BY <1>1, Invariance, PTL DEF Spec, ReportNearer
=============================================================================
