---------------------------- MODULE DriveProofs ----------------------------
(* Proofs about DvdDrive, for any discs, disc sizes and uses of the tray.   *)
EXTENDS DvdDrive, TLAPS

USE DEF program, request, registers, memory, cached, drive

-----------------------------------------------------------------------------
(* The inductive invariant.                                                *)

Kept == pc \in {"identify", "probing", "probe"} \/ Identified

\* The program is inside DVD_LowRead64.
InRead == pc \in {"probing", "probe", "starting", "reading"}

\* The disc that was kept is one that identify_disk knows.
Known ==
  /\ Kept => ValidId(globalDiskId)
  /\ ~Identified => ret = -1
  /\ pc \in {"probing", "probe"} => globalDiskId.magic = WII_MAGIC
  /\ type # "IS_UNK_DISK"
  /\ Identified => type \in DiskTypes \ {"IS_UNK_DISK"}

\* The command under way is the one this place waits for.
Command ==
  /\ busy => /\ pc \in {"status", "errcode"} => cmd.op = "error"
             /\ pc = "rawid" => cmd.op = "id"
             /\ InRead => cmd.op = "read"
             /\ pc \in {"status", "errcode", "rawid"} \/ InRead
  /\ InRead =>
       cmd = [op |-> "read", code |-> read_cmd,
              addr |-> IF read_cmd = DVD_DVDR THEN lba ELSE lba * SECTOR_WORDS]

\* The error bit shows the failure of this command, not of an earlier one, and
\* no cache line hides what was read, once the lines are dropped, or replaced it before.
Outcome ==
  /\ InRead =>
       /\ busy => ~deint
       /\ ~busy => \/ answer = "ok" /\ ~deint /\ ram = <<globalDiskId, lba>>
                   \/ answer = "failed" /\ deint
  /\ pc \in {"probe", "reading"} => cache = NULL

\* The drive reads sectors of no other disc than the one that was kept.
Ready == Kept /\ ready => disc = globalDiskId

\* While nobody has used the tray, the medium determines the error code, and
\* the error code the read command.
ErrorOf(d) == d.media = "dvdr" <=> sense = "053000"

Medium == swaps = 0 =>
  /\ pc = "status" => sense = "ok" /\ (~busy => imm.open = (disc = NULL))
  /\ pc = "rawid" => disc # NULL /\ (IF busy THEN sense = "ok" ELSE ErrorOf(disc))
  /\ pc = "errcode" => disc # NULL /\ ErrorOf(disc) /\ (~busy => imm.code = sense)
  /\ pc \in {"readid", "reread"} \/ Kept => disc # NULL /\ read_cmd = ReadCmdOf(disc)

DInv ==
  /\ TypeOK /\ Known /\ Command /\ Outcome /\ Ready /\ Medium
  /\ ReadHonest /\ OneDisc /\ SizeCovers

-----------------------------------------------------------------------------
LEMMA WordsOfSector ==
  ASSUME NEW k \in Nat PROVE k * SECTOR_WORDS \in Nat /\ (k * SECTOR_WORDS) \div SECTOR_WORDS = k
<1>1. k * SECTOR_WORDS \in Nat
  BY SizesAssumption
<1>2. PICK q \in Int : q = (k * SECTOR_WORDS) \div SECTOR_WORDS
  BY <1>1, SizesAssumption
<1>3. q * SECTOR_WORDS <= k * SECTOR_WORDS /\ k * SECTOR_WORDS < (q + 1) * SECTOR_WORDS
  BY <1>1, <1>2, SizesAssumption, Z3
<1>4. q <= k /\ k < q + 1
  BY <1>3, SizesAssumption
<1> QED
  BY <1>1, <1>2, <1>4

LEMMA CommandTypes ==
  /\ [op |-> "error"] \in Commands /\ [op |-> "id"] \in Commands
  /\ \A code \in {DVD_NORMAL, DVD_DVDR}, addr \in Nat :
       [op |-> "read", code |-> code, addr |-> addr] \in Commands
  BY DEF Commands

LEMMA DiskSizeType == DiskSize \in Nat
  BY SizesAssumption DEF DiskSize

\* Only a disc in the tray is accepted.
LEMMA IdResult ==
  ASSUME TypeOK, NEW rc, WDVD_LowReadDiskId(rc)
  PROVE  /\ di_fd' \in {-1, 0} /\ lowmem' \in Discs \cup {NULL} /\ ready' \in BOOLEAN
         /\ rc = 0 => disc # NULL /\ lowmem' = disc /\ ValidId(disc)
<1>1. CASE IdIsRead(rc)
  BY <1>1 DEF IdIsRead, CheckId, TypeOK
<1>2. CASE IdNotRead(rc)
  BY <1>2 DEF IdNotRead, ClearId, CheckId, ValidId, TypeOK
<1> QED
  BY <1>1, <1>2 DEF WDVD_LowReadDiskId

LEMMA InitDInv == Init => DInv
<1> SUFFICES ASSUME Init PROVE DInv
  OBVIOUS
<1> USE DEF Init
<1>1. TypeOK
  <2>1. swaps \in 0 .. MaxSwaps /\ lba \in Nat /\ ret \in {-1, 0, 1} /\ di_fd \in {-1, 0}
    BY SizesAssumption
  <2>2. buffer \in Blocks /\ ram \in Blocks /\ cache \in Blocks \cup {NULL}
    BY DEF Blocks
  <2> QED
    BY <2>1, <2>2 DEF TypeOK, Identified
<1>2. Known
  BY MarksAssumption DEF Known, Kept, Identified, DiskTypes
<1>3. Command /\ Outcome
  BY DEF Command, Outcome, InRead
<1>4. Ready /\ Medium
  BY DEF Ready, Medium, Kept, Identified
<1>5. ReadHonest /\ OneDisc /\ SizeCovers
  BY DEF ReadHonest, OneDisc, SizeCovers
<1> QED
  BY <1>1, <1>2, <1>3, <1>4, <1>5 DEF DInv

LEMMA ResetStep == DInv /\ ResetDrive => DInv'
<1> SUFFICES ASSUME DInv, ResetDrive PROVE DInv'
  OBVIOUS
<1> USE DEF DInv, ResetDrive, dvd_get_error, Issue
<1>1. TypeOK'
  <2>1. cmd' \in Commands /\ busy' = TRUE /\ deint' \in BOOLEAN /\ dirty' \in BOOLEAN
    BY CommandTypes, Zenon DEF TypeOK
  <2> QED
    BY <2>1 DEF TypeOK, Identified
<1>2. Known'
  BY DEF Known, Kept, Identified, DiskTypes, TypeOK
<1>3. Command'
  BY DEF Command, InRead
<1>4. Outcome'
  BY DEF Outcome, InRead
<1>5. Ready'
  BY DEF Ready, Kept, Identified
<1>6. Medium'
  BY DEF Medium, Kept, Identified, ErrorOf
<1>7. ReadHonest' /\ OneDisc' /\ SizeCovers'
  BY DEF ReadHonest, OneDisc, SizeCovers
<1> QED
  BY <1>1, <1>2, <1>3, <1>4, <1>5, <1>6, <1>7

LEMMA TrayStep == DInv /\ CheckTray => DInv'
<1> SUFFICES ASSUME DInv, CheckTray PROVE DInv'
  OBVIOUS
<1> USE DEF DInv, CheckTray, ReadIdCommand, ClearError, Issue
<1>1. TypeOK'
  <2>1. CASE pc' = "failed" /\ UNCHANGED <<deint, busy, cmd, answer>>
    BY <2>1 DEF TypeOK, Identified
  <2>2. CASE pc' = "rawid" /\ ReadIdCommand
    <3>1. cmd' \in Commands /\ busy' \in BOOLEAN /\ deint' \in BOOLEAN
      BY <2>2, CommandTypes
    <3> QED
      BY <2>2, <3>1 DEF TypeOK, Identified
  <2> QED
    BY <2>1, <2>2
<1>2. Known'
  BY DEF Known, Kept, Identified, DiskTypes, TypeOK
<1>3. Command'
  BY DEF Command, InRead
<1>4. Outcome'
  BY DEF Outcome, InRead
<1>5. Ready'
  BY DEF Ready, Kept, Identified
<1>6. Medium'
  BY DEF Medium, Kept, Identified, ErrorOf
<1>7. ReadHonest' /\ OneDisc' /\ SizeCovers'
  BY DEF ReadHonest, OneDisc, SizeCovers
<1> QED
  BY <1>1, <1>2, <1>3, <1>4, <1>5, <1>6, <1>7

LEMMA RawIdStep == DInv /\ RawIdDone => DInv'
<1> SUFFICES ASSUME DInv, RawIdDone PROVE DInv'
  OBVIOUS
<1> USE DEF DInv, RawIdDone, dvd_get_error, Issue
<1>1. TypeOK'
  BY CommandTypes DEF TypeOK, Identified
<1>2. Known'
  BY DEF Known, Kept, Identified, DiskTypes, TypeOK
<1>3. Command'
  BY DEF Command, InRead
<1>4. Outcome'
  BY DEF Outcome, InRead
<1>5. Ready'
  BY DEF Ready, Kept, Identified
<1>6. Medium'
  BY DEF Medium, Kept, Identified, ErrorOf
<1>7. ReadHonest' /\ OneDisc' /\ SizeCovers'
  BY DEF ReadHonest, OneDisc, SizeCovers
<1> QED
  BY <1>1, <1>2, <1>3, <1>4, <1>5, <1>6, <1>7

LEMMA ReadCmdStep == DInv /\ ChooseReadCmd => DInv'
<1> SUFFICES ASSUME DInv, ChooseReadCmd PROVE DInv'
  OBVIOUS
<1> USE DEF DInv, ChooseReadCmd
<1>1. TypeOK'
  BY DEF TypeOK, Identified
<1>2. Known'
  BY DEF Known, Kept, Identified, DiskTypes, TypeOK
<1>3. Command'
  BY DEF Command, InRead
<1>4. Outcome'
  BY DEF Outcome, InRead
<1>5. Ready'
  BY DEF Ready, Kept, Identified
<1>6. Medium'
  BY DEF Medium, Kept, Identified, ErrorOf, ReadCmdOf
<1>7. ReadHonest' /\ OneDisc' /\ SizeCovers'
  BY DEF ReadHonest, OneDisc, SizeCovers
<1> QED
  BY <1>1, <1>2, <1>3, <1>4, <1>5, <1>6, <1>7

LEMMA MagicStep == DInv /\ IdentifyByMagic => DInv'
<1> SUFFICES ASSUME DInv, IdentifyByMagic PROVE DInv'
  OBVIOUS
<1> USE DEF DInv, IdentifyByMagic
<1>1. TypeOK'
  BY DEF TypeOK, Identified, DiskTypes
<1>2. Known'
  BY DEF Known, Kept, Identified, DiskTypes, TypeOK, ValidId
<1>3. Command'
  BY DEF Command, InRead
<1>4. Outcome'
  BY DEF Outcome, InRead
<1>5. Ready'
  BY DEF Ready, Kept, Identified
<1>6. Medium'
  BY DEF Medium, Kept, Identified, ErrorOf
<1>7. ReadHonest' /\ OneDisc'
  BY DEF ReadHonest, OneDisc, Known, Kept, Identified
<1>8. SizeCovers'
  BY DiscsAssumption DEF SizeCovers, DiskSize, TypeOK
<1> QED
  BY <1>1, <1>2, <1>3, <1>4, <1>5, <1>6, <1>7, <1>8

LEMMA ProbeStep == DInv /\ ProbeLayer => DInv'
<1> SUFFICES ASSUME DInv, ProbeLayer PROVE DInv'
  OBVIOUS
<1> USE DEF DInv, ProbeLayer, DVD_LowRead64, ClearError, Issue
<1>1. TypeOK'
  <2>1. lba' \in Nat /\ cmd' \in Commands
    BY SizesAssumption, WordsOfSector, CommandTypes DEF TypeOK
  <2>2. dirty' \in BOOLEAN /\ ready' \in BOOLEAN
    BY Zenon DEF TypeOK
  <2>3. deint' = FALSE /\ busy' = TRUE /\ answer' = NULL /\ pc = "identify" /\ pc' = "probing"
    OBVIOUS
  <2>4. UNCHANGED <<program, ret, buffer, imm, lowmem, ram, cache, disc, sense, swaps>>
    OBVIOUS
  <2> HIDE DEF ProbeLayer
  <2> QED
    BY <2>1, <2>2, <2>3, <2>4 DEF TypeOK, Identified
<1>2. Known'
  BY DEF Known, Kept, Identified, DiskTypes, TypeOK
<1>3. Command'
  BY DEF Command, InRead
<1>4. Outcome'
  BY DEF Outcome, InRead
<1>5. Ready'
  BY DEF Ready, Kept, Identified
<1>6. Medium'
  BY DEF Medium, Kept, Identified, ErrorOf
<1>7. ReadHonest' /\ OneDisc' /\ SizeCovers'
  BY DEF ReadHonest, OneDisc, SizeCovers
<1> QED
  BY <1>1, <1>2, <1>3, <1>4, <1>5, <1>6, <1>7

LEMMA LayerStep == DInv /\ IdentifyByLayer => DInv'
<1> SUFFICES ASSUME DInv, IdentifyByLayer PROVE DInv'
  OBVIOUS
<1> USE DEF DInv, IdentifyByLayer, LayersRead, ReadResult
<1>1. TypeOK'
  BY DEF TypeOK, Identified, DiskTypes
<1>2. Known'
  BY DEF Known, Kept, Identified, DiskTypes, TypeOK
<1>3. Command'
  BY DEF Command, InRead
<1>4. Outcome'
  BY DEF Outcome, InRead
<1>5. Ready'
  BY DEF Ready, Kept, Identified
<1>6. Medium'
  BY DEF Medium, Kept, Identified, ErrorOf
<1>7. ReadHonest' /\ OneDisc'
  BY DEF ReadHonest, OneDisc, Known, Identified
<1>8. SizeCovers'
  BY DiscsAssumption DEF SizeCovers, DiskSize, TypeOK, Outcome, InRead, Known
<1> QED
  BY <1>1, <1>2, <1>3, <1>4, <1>5, <1>6, <1>7, <1>8

LEMMA EndReadStep == DInv /\ EndRead => DInv'
<1> SUFFICES ASSUME DInv, EndRead PROVE DInv'
  OBVIOUS
<1> USE DEF DInv, EndRead, ReadResult
<1>1. TypeOK'
  BY DEF TypeOK, Identified, Outcome
<1>2. Known'
  BY DEF Known, Kept, Identified, DiskTypes, TypeOK
<1>3. Command'
  BY DEF Command, InRead
<1>4. Outcome'
  BY DEF Outcome, InRead
<1>5. Ready'
  BY DEF Ready, Kept, Identified
<1>6. Medium'
  BY DEF Medium, Kept, Identified, ErrorOf
<1>7. ReadHonest' /\ OneDisc'
  BY MarksAssumption DEF ReadHonest, OneDisc, Outcome, InRead, TypeOK, Identified
<1>8. SizeCovers'
  BY DEF SizeCovers
<1> QED
  BY <1>1, <1>2, <1>3, <1>4, <1>5, <1>6, <1>7, <1>8

LEMMA SwapStep == DInv /\ Swap => DInv'
<1> SUFFICES ASSUME DInv, Swap PROVE DInv'
  OBVIOUS
<1> USE DEF DInv, Swap
<1>1. TypeOK'
  <2>1. swaps' \in 0 .. MaxSwaps
    BY SizesAssumption DEF TypeOK
  <2>2. disc' \in Discs \cup {NULL}
    OBVIOUS
  <2>3. /\ UNCHANGED <<pc, program, request, registers, memory, sense, answer>>
        /\ ready' = FALSE
    OBVIOUS
  <2> HIDE DEF Swap
  <2>4. dirty' \in BOOLEAN /\ deint' \in BOOLEAN /\ busy' \in BOOLEAN /\ ready' \in BOOLEAN
    BY <2>3, Zenon DEF TypeOK
  <2>5. /\ lba' \in Nat /\ ret' \in {-1, 0, 1} /\ di_fd' \in {-1, 0}
        /\ buffer' \in Blocks /\ ram' \in Blocks /\ cache' \in Blocks \cup {NULL}
        /\ cmd' \in Commands \cup {NULL} /\ imm' \in Statuses \cup {NULL}
    BY <2>3 DEF TypeOK
  <2> QED
    BY <2>1, <2>2, <2>3, <2>4, <2>5 DEF TypeOK, Identified
<1>2. Known'
  BY DEF Known, Kept, Identified, DiskTypes, TypeOK
<1>3. Command'
  BY DEF Command, InRead
<1>4. Outcome'
  BY DEF Outcome, InRead
<1>5. Ready'
  BY DEF Ready, Kept, Identified
<1>6. Medium'
  BY DEF Medium, TypeOK
<1>7. ReadHonest' /\ OneDisc' /\ SizeCovers'
  BY DEF ReadHonest, OneDisc, SizeCovers, DiskSize
<1> QED
  BY <1>1, <1>2, <1>3, <1>4, <1>5, <1>6, <1>7

LEMMA TryReadIdStep == DInv /\ (\E rc \in IdResults : TryReadId(rc)) => DInv'
<1> SUFFICES ASSUME DInv, NEW rc \in IdResults, TryReadId(rc) PROVE DInv'
  OBVIOUS
<1> USE DEF DInv, TryReadId
<1>1. TypeOK'
  BY IdResult DEF TypeOK, Identified
<1>2. Known'
  BY DEF Known, Kept, Identified
<1>3. Command' /\ Outcome'
  BY DEF Command, Outcome, InRead
<1>4. Ready' /\ Medium'
  BY DEF Ready, Medium, Kept, Identified
<1>5. ReadHonest' /\ OneDisc' /\ SizeCovers'
  BY DEF ReadHonest, OneDisc, SizeCovers
<1> QED
  BY <1>1, <1>2, <1>3, <1>4, <1>5

LEMMA ReadIdStep == DInv /\ (\E rc \in IdResults : read_dvd_id(rc)) => DInv'
<1> SUFFICES ASSUME DInv, NEW rc \in IdResults, read_dvd_id(rc) PROVE DInv'
  OBVIOUS
<1> USE DEF DInv, read_dvd_id, KeepId
<1>1. rc = 0 => globalDiskId' = disc' /\ globalDiskId' \in Discs /\ ValidId(globalDiskId')
  BY IdResult DEF TypeOK
<1>2. TypeOK'
  BY <1>1, IdResult DEF TypeOK, Identified
<1>3. Known'
  BY <1>1 DEF Known, Kept, Identified
<1>4. Command' /\ Outcome'
  BY DEF Command, Outcome, InRead
<1>5. Ready' /\ Medium'
  BY <1>1 DEF Ready, Medium, Kept, Identified
<1>6. ReadHonest' /\ OneDisc' /\ SizeCovers'
  BY DEF ReadHonest, OneDisc, SizeCovers
<1> QED
  BY <1>2, <1>3, <1>4, <1>5, <1>6

LEMMA StartReadStep == DInv /\ (\E k \in 0 .. DiskSize - 1 : StartRead(k)) => DInv'
<1> SUFFICES ASSUME DInv, NEW k \in Nat, StartRead(k) PROVE DInv'
  BY DiskSizeType
<1> USE DEF DInv, StartRead, DVD_LowRead64, ClearError, Issue
<1>1. TypeOK'
  <2>1. lba' \in Nat /\ cmd' \in Commands
    BY WordsOfSector, CommandTypes DEF TypeOK
  <2>2. dirty' \in BOOLEAN /\ ready' \in BOOLEAN
    BY Zenon DEF TypeOK
  <2>3. deint' = FALSE /\ busy' = TRUE /\ answer' = NULL /\ pc = "idle" /\ pc' = "starting"
    OBVIOUS
  <2>4. UNCHANGED <<program, ret, buffer, imm, lowmem, ram, cache, disc, sense, swaps>>
    OBVIOUS
  <2> HIDE DEF StartRead
  <2> QED
    BY <2>1, <2>2, <2>3, <2>4 DEF TypeOK, Identified
<1>2. Known'
  BY DEF Known, Kept, Identified
<1>3. Command' /\ Outcome'
  BY DEF Command, Outcome, InRead
<1>4. Ready' /\ Medium'
  BY DEF Ready, Medium, Kept, Identified
<1>5. ReadHonest' /\ OneDisc' /\ SizeCovers'
  BY DEF ReadHonest, OneDisc, SizeCovers
<1> QED
  BY <1>1, <1>2, <1>3, <1>4, <1>5

\* What the drive puts into memory in answer to a read.
LEMMA AnsweredRead ==
  ASSUME DInv, AnswerRead
  PROVE  InRead /\ ram' = <<globalDiskId, lba>> /\ ram' \in Blocks
<1> USE DEF DInv, AnswerRead
<1>1. InRead
  BY DEF Command
<1>2. disc = globalDiskId /\ globalDiskId \in Discs
  BY <1>1 DEF Ready, Kept, Identified, InRead, TypeOK
<1>3. cmd.code = read_cmd /\ cmd.addr = IF read_cmd = DVD_DVDR THEN lba ELSE lba * SECTOR_WORDS
  BY <1>1 DEF Command
<1>4. lba \in Nat
  BY DEF TypeOK
<1>5. ram' = <<disc, IF cmd.code = DVD_DVDR THEN cmd.addr ELSE cmd.addr \div SECTOR_WORDS>>
  OBVIOUS
<1>6. ram' = <<disc, lba>>
  BY <1>3, <1>4, <1>5, WordsOfSector
<1> QED
  BY <1>1, <1>2, <1>4, <1>6 DEF Blocks

LEMMA AnswerStep == DInv /\ Answer => DInv'
<1> SUFFICES ASSUME DInv, Answer PROVE DInv'
  OBVIOUS
<1> USE DEF DInv, Answer
<1>1. TypeOK'
  <2>1. imm' \in Statuses \cup {NULL}
    <3>1. CASE AnswerError
      <4>1. (disc = NULL) \in BOOLEAN /\ sense \in {"ok", "053000", "other"}
        BY DEF TypeOK
      <4> QED
        BY <3>1, <4>1, Zenon DEF AnswerError, Statuses
    <3>2. CASE AnswerId \/ AnswerRead \/ AnswerFailed
      BY <3>2 DEF AnswerId, AnswerRead, AnswerFailed, TypeOK
    <3> QED
      BY <3>1, <3>2
  <2>2. ram' \in Blocks
    BY AnsweredRead DEF AnswerError, AnswerId, AnswerFailed, TypeOK, Blocks
  <2>3. answer' \in {NULL, "ok", "failed"} /\ sense' \in {"ok", "053000", "other"}
    BY DEF AnswerError, AnswerId, AnswerRead, AnswerFailed, TypeOK
  <2>4. dirty' \in BOOLEAN /\ deint' \in BOOLEAN /\ busy' \in BOOLEAN /\ ready' \in BOOLEAN
    BY Zenon DEF AnswerError, AnswerId, AnswerRead, AnswerFailed, TypeOK
  <2>5. UNCHANGED <<pc, program, request, cmd, lowmem, cache, dirty, disc, swaps>>
    OBVIOUS
  <2> HIDE DEF Answer
  <2> QED
    BY <2>1, <2>2, <2>3, <2>4, <2>5 DEF TypeOK, Identified
<1>2. Known' /\ Command'
  BY DEF Known, Command, InRead, Kept, Identified
<1>3. Outcome'
  <2>1. CASE AnswerError \/ AnswerId
    BY <2>1 DEF AnswerError, AnswerId, Outcome, Command, InRead
  <2>2. CASE AnswerRead
    BY <2>2, AnsweredRead DEF AnswerRead, Outcome, InRead
  <2>3. CASE AnswerFailed
    BY <2>3 DEF AnswerFailed, Outcome, InRead
  <2> QED
    BY <2>1, <2>2, <2>3
<1>4. Ready'
  <2>1. CASE AnswerId
    BY <2>1 DEF AnswerId, Ready, Command, InRead, Kept, Identified
  <2>2. CASE AnswerError \/ AnswerRead \/ AnswerFailed
    BY <2>2 DEF AnswerError, AnswerRead, AnswerFailed, Ready, Kept, Identified
  <2> QED
    BY <2>1, <2>2
<1>5. Medium'
  <2> USE DEF Medium, Command, InRead, Kept, Identified
  <2>1. CASE AnswerError
    BY <2>1 DEF AnswerError, ErrorOf
  <2>2. CASE AnswerId
    BY <2>2 DEF AnswerId, ErrorOf
  <2>3. CASE AnswerRead
    BY <2>3 DEF AnswerRead, ErrorOf
  <2>4. CASE AnswerFailed
    BY <2>4 DEF AnswerFailed, ErrorOf
  <2> QED
    BY <2>1, <2>2, <2>3, <2>4
<1>6. ReadHonest' /\ OneDisc' /\ SizeCovers'
  BY DEF AnswerError, AnswerId, AnswerRead, AnswerFailed, ReadHonest, OneDisc, SizeCovers, Command,
         InRead
<1> QED
  BY <1>1, <1>2, <1>3, <1>4, <1>5, <1>6

\* Dropping the lines loses nothing that the drive delivered.
LEMMA InvalidateStep ==
  ASSUME DInv, NEW before, NEW after, DCInvalidateRange(before, after),
         (before = "probing" /\ after = "probe") \/ (before = "starting" /\ after = "reading")
  PROVE  DInv'
<1> USE DEF DInv, DCInvalidateRange, DropLines
<1>1. TypeOK'
  <2>1. UNCHANGED <<deint, busy, ready>> /\ dirty' = FALSE
    OBVIOUS
  <2>2. deint' \in BOOLEAN /\ busy' \in BOOLEAN /\ ready' \in BOOLEAN
    BY <2>1, Zenon DEF TypeOK
  <2>3. UNCHANGED <<program, request, cmd, imm, lowmem, ram, disc, sense, answer, swaps>>
    OBVIOUS
  <2>4. cache' = NULL
    OBVIOUS
  <2> HIDE DEF DCInvalidateRange, DropLines
  <2>5. /\ pc' \in {"probe", "reading"} /\ pc \in {"probing", "starting"}
        /\ pc' = "reading" => pc = "starting"
    BY DEF DCInvalidateRange
  <2>6. globalDiskId \in Discs
    BY <2>5 DEF TypeOK, Identified
  <2>7. /\ read_cmd' \in {DVD_NORMAL, DVD_DVDR} /\ di_fd' \in {-1, 0}
        /\ globalDiskId' \in Discs
        /\ type' \in DiskTypes \cup {NULL} /\ (pc' = "reading" => type' \in DiskTypes)
    BY <2>3, <2>5, <2>6 DEF TypeOK, Identified
  <2>8. /\ lba' \in Nat /\ ret' \in {-1, 0, 1}
        /\ buffer' \in Blocks /\ ram' \in Blocks /\ cache' \in Blocks \cup {NULL}
        /\ cmd' \in Commands \cup {NULL} /\ imm' \in Statuses \cup {NULL}
    BY <2>3, <2>4 DEF TypeOK
  <2>9. /\ lowmem' \in Discs \cup {NULL} /\ disc' \in Discs \cup {NULL}
        /\ sense' \in {"ok", "053000", "other"}
        /\ answer' \in {NULL, "ok", "failed"} /\ swaps' \in 0 .. MaxSwaps
    BY <2>3 DEF TypeOK
  <2> QED
    BY <2>1, <2>2, <2>5, <2>7, <2>8, <2>9 DEF TypeOK, Identified
<1>2. Known'
  BY DEF Known, Kept, Identified
<1>3. Command' /\ Outcome'
  BY DEF Command, Outcome, InRead
<1>4. Ready'
  BY DEF Ready, Kept, Identified
<1>5. Medium'
  BY DEF Medium, ErrorOf, Kept, Identified
<1>6. ReadHonest' /\ OneDisc' /\ SizeCovers'
  BY DEF ReadHonest, OneDisc, SizeCovers
<1> QED
  BY <1>1, <1>2, <1>3, <1>4, <1>5, <1>6

\* Between two reads the lines may change as they like.
LEMMA MemsetStep == DInv /\ memset => DInv'
<1> SUFFICES ASSUME DInv, memset PROVE DInv'
  OBVIOUS
<1> USE DEF DInv, memset
<1>1. TypeOK'
  <2>1. cache' \in Blocks \cup {NULL} /\ dirty' \in BOOLEAN
    BY DEF Blocks
  <2> QED
    BY <2>1 DEF TypeOK, Identified
<1>2. Known' /\ Command' /\ Outcome'
  BY DEF Known, Command, Outcome, InRead, Kept, Identified
<1>3. Ready' /\ Medium'
  BY DEF Ready, Medium, ErrorOf, Kept, Identified
<1>4. ReadHonest' /\ OneDisc' /\ SizeCovers'
  BY DEF ReadHonest, OneDisc, SizeCovers, DiskSize
<1> QED
  BY <1>1, <1>2, <1>3, <1>4

\* A line is never written back over what the drive delivered.
LEMMA EvictStep == DInv /\ Evict => DInv'
<1> SUFFICES ASSUME DInv, Evict PROVE DInv'
  OBVIOUS
<1> USE DEF DInv, Evict
<1>1. TypeOK'
  <2>1. ram' \in Blocks /\ cache' \in Blocks \cup {NULL} /\ dirty' \in BOOLEAN
    BY DEF TypeOK
  <2>2. UNCHANGED <<pc, program, request, registers, lowmem, drive>>
    OBVIOUS
  <2> HIDE DEF Evict
  <2> QED
    BY <2>1, <2>2 DEF TypeOK, Identified
<1>2. Known' /\ Command'
  BY DEF Known, Command, InRead, Kept, Identified
<1>3. Outcome'
  <2>1. pc \notin {"probe", "reading"}
    BY DEF Outcome
  <2>2. InRead /\ ~busy => ram' = ram
    BY <2>1 DEF InRead
  <2> QED
    BY <2>1, <2>2 DEF Outcome, InRead
<1>4. Ready' /\ Medium'
  BY DEF Ready, Medium, ErrorOf, Kept, Identified
<1>5. ReadHonest' /\ OneDisc' /\ SizeCovers'
  BY DEF ReadHonest, OneDisc, SizeCovers, DiskSize
<1> QED
  BY <1>1, <1>2, <1>3, <1>4, <1>5

LEMMA StepDInv == DInv /\ [Next]_vars => DInv'
<1> SUFFICES ASSUME DInv, [Next]_vars PROVE DInv'
  OBVIOUS
<1>1. CASE InitializeDisk
  BY <1>1, ResetStep, TrayStep, RawIdStep, ReadCmdStep, TryReadIdStep, ReadIdStep DEF InitializeDisk
<1>2. CASE IdentifyDisk
  BY <1>2, MagicStep, ProbeStep, InvalidateStep, LayerStep DEF IdentifyDisk
<1>3. CASE UNCHANGED vars
  BY <1>3 DEF vars, DInv, TypeOK, Known, Command, Outcome, InRead, Ready, Medium, ErrorOf,
     Kept, Identified, ReadHonest, OneDisc, SizeCovers, DiskSize
<1> QED
  BY <1>1, <1>2, <1>3, StartReadStep, InvalidateStep, EndReadStep, MemsetStep, AnswerStep,
     SwapStep, EvictStep
  DEF Next

\* The type of a disc, and with it its size, is that of its magic word.
KindFits == Identified => (type = "IS_NGC_DISK" <=> globalDiskId.magic = NGC_MAGIC)

LEMMA KindStep == DInv /\ KindFits /\ [Next]_vars => KindFits'
<1> SUFFICES ASSUME DInv, KindFits, [Next]_vars PROVE KindFits'
  OBVIOUS
<1>1. CASE IdentifyByMagic
  BY <1>1 DEF IdentifyByMagic, KindFits, Identified
<1>2. CASE IdentifyByLayer
  BY <1>2 DEF IdentifyByLayer, LayersRead, DInv, Known, KindFits, NGC_MAGIC, WII_MAGIC
<1>3. CASE ~IdentifyByMagic /\ ~IdentifyByLayer
  <2>1. Identified' => Identified /\ UNCHANGED <<type, globalDiskId>>
    BY <1>3
    DEF Next, InitializeDisk, IdentifyDisk, ResetDrive, CheckTray, RawIdDone, ChooseReadCmd,
        TryReadId, read_dvd_id, KeepId, ProbeLayer, StartRead, DCInvalidateRange, EndRead, memset,
        Answer, Swap, Evict, vars, Identified
  <2> QED
    BY <2>1 DEF KindFits
<1> QED
  BY <1>1, <1>2, <1>3

-----------------------------------------------------------------------------
(* The theorems.                                                           *)

\* The inductive invariant holds in every reachable state of disk.hpp's code
\* and the drive.
THEOREM Invariance == Spec => []DInv
<1> QED
  BY InitDInv, StepDInv, PTL DEF Spec

\* Every variable stays in its type; in particular the pointer to the ID is not
\* null where identify_disk and the dump follow it (disk.hpp:132-134).
THEOREM TypeCorrect == Spec => []TypeOK
<1>1. DInv => TypeOK
  BY DEF DInv
<1> QED
  BY <1>1, Invariance, PTL

\* DVD_LowRead64 reports the fate of its own command, and on success the caller
\* sees the sector asked for (disk.hpp:141-153).
THEOREM ReadsHonest == Spec => []ReadHonest
<1>1. DInv => ReadHonest
  BY DEF DInv
<1> QED
  BY <1>1, Invariance, PTL

\* Every sector read for the dump is of the disc that was identified, whatever
\* was done with the tray (disk.hpp:126-134, main.cpp:155-166).
THEOREM SameDisc == Spec => []OneDisc
<1>1. DInv => OneDisc
  BY DEF DInv
<1> QED
  BY <1>1, Invariance, PTL

\* The size of the dump covers the disc unless the layer probe failed
\* (disk.hpp:156-186).
THEOREM SizeEnough == Spec => []SizeCovers
<1>1. DInv => SizeCovers
  BY DEF DInv
<1> QED
  BY <1>1, Invariance, PTL

\* The dump never starts on a disc of unknown type or of size 0
\* (disk.hpp:161, 184, 235).
THEOREM OnlyKnown == Spec => []KnownDisc
<1>1. DInv => KnownDisc
  BY SizesAssumption DEF DInv, Known, KnownDisc, DiskSize, DiskTypes
<1> QED
  BY <1>1, Invariance, PTL

\* A disc left in the tray is read with the command for its medium
\* (disk.hpp:106-124).
THEOREM CommandFits == Spec => []ReadCmdFits
<1>1. DInv => ReadCmdFits
  BY DEF DInv, Medium, ReadCmdFits, Kept, Identified
<1> QED
  BY <1>1, Invariance, PTL

\* The ID kept is that of the disc in the tray (disk.hpp:224-236, 243-258).
THEOREM IdCurrent == Spec => AcceptedIdIsRead
<1>1. ASSUME TypeOK, [Next]_vars, globalDiskId' # globalDiskId, globalDiskId' # NULL
      PROVE  globalDiskId' = disc
  <2>1. PICK rc \in IdResults : read_dvd_id(rc)
    BY <1>1 DEF Next, InitializeDisk, IdentifyDisk, ResetDrive, CheckTray, RawIdDone,
       ChooseReadCmd, TryReadId, IdentifyByMagic, ProbeLayer, IdentifyByLayer,
       StartRead, DCInvalidateRange, EndRead, memset, Answer, Swap, Evict, vars
  <2> QED
    BY <1>1, <2>1, IdResult DEF read_dvd_id, KeepId
<1> QED
  BY <1>1, TypeCorrect, PTL DEF Spec, AcceptedIdIsRead
=============================================================================
