------------------------------ MODULE DvdDrive ------------------------------
(***************************************************************************)
(* DiskManager of source/include/disk.hpp and the drive it talks to:       *)
(* initialize_disk, identify_disk, and then DVD_LowRead64 as the dump      *)
(* calls it.  The CPU writes a command into the registers dvd[0..8], sets  *)
(* the busy bit and polls it; the drive answers on its own time, by DMA to *)
(* memory the CPU sees through a cache; and somebody may open the tray     *)
(* between any two steps.  The disc ID is read through IOS instead.        *)
(*                                                                         *)
(* A disc stands for its own ID, and its sector k for the pair <<disc, k>>.*)
(* The drive, IOS, the tray and the cache are external.  Four of their     *)
(* habits matter to this code: the error bit of dvd[0] stays set until it  *)
(* is cleared, a DVD-R rejects the command that reads a pressed disc's ID, *)
(* sectors can be read only from a disc whose ID was read since it was     *)
(* inserted, and the cache writes lines that the CPU changed back to       *)
(* memory whenever it needs their room.                                    *)
(***************************************************************************)
EXTENDS Integers

CONSTANTS
  Discs,                 \* records: magic, media, layers, sectors, bad
  NULL,                  \* no disc, no ID, a line that is not cached
  Junk,                  \* memory after a failed transfer
  NGC_SIZE, WII_SINGLE_SIZE, WII_DUAL_SIZE,  \* get_disk_size_bytes, in sectors
  LAYER_PROBE,           \* the sector at byte 0x16A00000
  SECTOR_WORDS,          \* a sector in the 4-byte words of a NORMAL address
  MaxSwaps               \* bound on the times the tray is used

WII_MAGIC == "5D1C9EA3"
NGC_MAGIC == "C2339F3D"
DVD_NORMAL == "A8"
DVD_DVDR == "D0"
DiskTypes == {"IS_NGC_DISK", "IS_WII_SINGLE_DISK", "IS_WII_DUAL_DISK", "IS_UNK_DISK"}

ASSUME SizesAssumption ==
  /\ {NGC_SIZE, WII_SINGLE_SIZE, WII_DUAL_SIZE} \subseteq Nat \ {0}
  /\ LAYER_PROBE \in Nat /\ SECTOR_WORDS \in Nat \ {0} /\ MaxSwaps \in Nat

ASSUME DiscsAssumption ==
  /\ NULL \notin Discs
  /\ \A d \in Discs : /\ d.magic \in {WII_MAGIC, NGC_MAGIC, "other"}
                      /\ d.media \in {"pressed", "dvdr"}
                      /\ d.layers \in {1, 2}
                      /\ d.sectors \in Nat /\ d.bad \subseteq Nat
                      /\ d.magic = NGC_MAGIC => d.sectors <= NGC_SIZE
                      /\ d.magic = WII_MAGIC => d.sectors <= WII_DUAL_SIZE

ASSUME MarksAssumption ==
  NULL \notin DiskTypes /\ Junk \notin Discs \X Nat

VARIABLES
  \* the program
  pc, read_cmd, di_fd, globalDiskId, type,
  lba, ret, buffer,      \* the sector asked for, and what the caller gets
  \* the registers: bit 2 of dvd[0], bit 0 of dvd[7], dvd[2..4], dvd[8]
  deint, busy, cmd, imm,
  \* memory: the ID at 0x80000000, the read buffer, its cache lines, and
  \* whether the CPU changed them since they were loaded
  lowmem, ram, cache, dirty,
  \* the drive
  disc, ready, sense, answer, swaps

program == <<read_cmd, di_fd, globalDiskId, type>>
request == <<lba, ret, buffer>>
registers == <<deint, busy, cmd, imm>>
cached == <<ram, cache, dirty>>
memory == <<lowmem, ram, cache, dirty>>
drive == <<disc, ready, sense, answer, swaps>>
vars == <<pc, program, request, registers, memory, drive>>

\* Low memory still holds the ID of whatever ran before.
Init ==
  /\ pc = "reset" /\ read_cmd = DVD_NORMAL
  /\ di_fd = -1 /\ globalDiskId = NULL /\ type = NULL
  /\ lba = 0 /\ ret = -1 /\ buffer = Junk
  /\ deint \in BOOLEAN /\ busy = FALSE /\ cmd = NULL /\ imm = NULL
  /\ lowmem \in Discs \cup {NULL} /\ ram = Junk /\ cache = Junk /\ dirty = TRUE
  /\ disc \in Discs \cup {NULL} /\ ready \in BOOLEAN /\ sense = "ok"
  /\ answer = NULL /\ swaps = 0

-----------------------------------------------------------------------------
(* Commands.                                                               *)

Issue(command) ==
  /\ cmd' = command
  /\ busy' = TRUE
  /\ answer' = NULL

dvd_get_error == Issue([op |-> "error"]) /\ UNCHANGED deint

\* Mutant: dvd[0] is not written.
KeepError == UNCHANGED deint

\* Writing dvd[0] with bit 2 set, as 0x54 and 0x2E have it, clears the bit.
ClearError == deint' = FALSE

ReadIdCommand == ClearError /\ Issue([op |-> "id"])

\* DVD_LowRead64, as far as the command: sector k, addressed as the medium requires.
DVD_LowRead64(k) ==
  /\ ClearError
  /\ Issue([op |-> "read", code |-> read_cmd,
            addr |-> IF read_cmd = DVD_DVDR THEN k ELSE k * SECTOR_WORDS])
  /\ lba' = k

\* Mutant: the lines are flushed, as for a transfer to the drive.
FlushLines == cache' = NULL /\ dirty' = FALSE /\ ram' = IF dirty THEN cache ELSE ram

DropLines == cache' = NULL /\ dirty' = FALSE /\ UNCHANGED ram

\* Its next statement drops the lines of the buffer, the transfer being under way, or
\* over; then it waits.
DCInvalidateRange(before, after) ==
  /\ pc = before /\ pc' = after
  /\ DropLines
  /\ UNCHANGED <<program, request, registers, lowmem, drive>>

\* What DVD_LowRead64 returns.
ReadResult == IF deint THEN 1 ELSE 0

-----------------------------------------------------------------------------
(* initialize_disk.                                                        *)

\* The reset makes the drive forget that it read the disc's ID.
ResetDrive ==
  /\ pc = "reset"
  /\ pc' = "status"
  /\ ready' = FALSE /\ sense' = "ok"
  /\ dvd_get_error
  /\ UNCHANGED <<program, request, imm, memory, disc, swaps>>

CheckTray ==
  /\ pc = "status" /\ ~busy
  /\ IF imm.open THEN pc' = "failed" /\ UNCHANGED <<deint, busy, cmd, answer>>
                 ELSE pc' = "rawid" /\ ReadIdCommand
  /\ UNCHANGED <<program, request, imm, memory, disc, ready, sense, swaps>>

\* Mutant: the error is not asked for again.
RawIdDoneStale ==
  /\ pc = "rawid" /\ ~busy
  /\ pc' = "errcode"
  /\ UNCHANGED <<program, request, registers, memory, drive>>

RawIdDone ==
  /\ pc = "rawid" /\ ~busy
  /\ pc' = "errcode"
  /\ dvd_get_error
  /\ UNCHANGED <<program, request, imm, memory, disc, ready, sense, swaps>>

ChooseReadCmd ==
  /\ pc = "errcode" /\ ~busy
  /\ pc' = "readid"
  /\ read_cmd' = IF imm.code = "053000" THEN DVD_DVDR ELSE DVD_NORMAL
  /\ UNCHANGED <<di_fd, globalDiskId, type, request, registers, memory, drive>>

ValidId(id) == id # NULL /\ id.magic \in {WII_MAGIC, NGC_MAGIC}

\* Mutant: any ID is good enough.
AcceptAnyId(id) == IF id # NULL THEN 0 ELSE -2

\* Mutant: GameCube discs are forgotten.
AcceptWiiId(id) == IF id # NULL /\ id.magic = WII_MAGIC THEN 0 ELSE -2

\* The result of an ioctl that did not report a negative error.
CheckId(id) == IF ValidId(id) THEN 0 ELSE -2

\* WDVD_LowReadDiskId, returning rc.  IOS_Open may fail; the ioctl may fail,
\* with a negative result or not; or it reads the ID of the disc.
IdIsRead(rc) ==
  /\ disc # NULL
  /\ di_fd' = 0
  /\ lowmem' = disc
  /\ ready' = TRUE
  /\ rc = CheckId(lowmem')

\* Mutant: low memory is not cleared before the ioctl.
LeaveId == UNCHANGED lowmem

ClearId == lowmem' = NULL

IdNotRead(rc) ==
  /\ UNCHANGED ready
  /\ \/ di_fd < 0 /\ rc = -1 /\ UNCHANGED <<di_fd, lowmem>>
     \/ di_fd' = 0 /\ ClearId /\ rc \in {1, CheckId(lowmem')}

WDVD_LowReadDiskId(rc) == IdIsRead(rc) \/ IdNotRead(rc)

IdResults == {-2, -1, 0, 1}

\* One pass of the loop that waits for an ID.
TryReadId(rc) ==
  /\ pc = "readid"
  /\ WDVD_LowReadDiskId(rc)
  /\ pc' = IF rc = 0 THEN "reread" ELSE "readid"
  /\ UNCHANGED <<read_cmd, globalDiskId, type, request, registers, cached,
                 disc, sense, answer, swaps>>

\* Mutant: the null pointer is not noticed.
KeepAnyId(rc) ==
  pc' = "identify" /\ globalDiskId' = IF rc = 0 THEN lowmem' ELSE NULL

\* Mutant: the copy is made before the ID is asked for.
KeepEarlierId(rc) ==
  IF rc = 0 THEN pc' = "identify" /\ globalDiskId' = lowmem
            ELSE pc' = "failed" /\ globalDiskId' = NULL

KeepId(rc) ==
  IF rc = 0 THEN pc' = "identify" /\ globalDiskId' = lowmem'
            ELSE pc' = "failed" /\ globalDiskId' = NULL

\* read_dvd_id asks for the ID once more, and keeps a copy.
read_dvd_id(rc) ==
  /\ pc = "reread"
  /\ WDVD_LowReadDiskId(rc)
  /\ KeepId(rc)
  /\ UNCHANGED <<read_cmd, type, request, registers, cached,
                 disc, sense, answer, swaps>>

-----------------------------------------------------------------------------
(* identify_disk, and the reads of the dump.                               *)

\* A disc that is not a Wii disc needs no probe; main rejects an unknown one.
IdentifyByMagic ==
  /\ pc = "identify" /\ globalDiskId.magic # WII_MAGIC
  /\ IF globalDiskId.magic = NGC_MAGIC
     THEN type' = "IS_NGC_DISK" /\ pc' = "idle"
     ELSE type' = "IS_UNK_DISK" /\ pc' = "failed"
  /\ UNCHANGED <<read_cmd, di_fd, globalDiskId, request, registers, memory, drive>>

ProbeLayer ==
  /\ pc = "identify" /\ globalDiskId.magic = WII_MAGIC
  /\ pc' = "probing"
  /\ DVD_LowRead64(LAYER_PROBE)
  /\ UNCHANGED <<program, ret, buffer, imm, memory, disc, ready, sense, swaps>>

\* Mutant: the result of the probe is taken the wrong way round.
OtherLayers == IF ReadResult # 0 THEN "IS_WII_DUAL_DISK" ELSE "IS_WII_SINGLE_DISK"

LayersRead == IF ReadResult = 0 THEN "IS_WII_DUAL_DISK" ELSE "IS_WII_SINGLE_DISK"

IdentifyByLayer ==
  /\ pc = "probe" /\ ~busy
  /\ pc' = "idle"
  /\ type' = LayersRead
  /\ UNCHANGED <<read_cmd, di_fd, globalDiskId, request, registers, memory, drive>>

\* get_disk_size_bytes, in sectors.
DiskSize ==
  CASE type = "IS_NGC_DISK" -> NGC_SIZE
    [] type = "IS_WII_SINGLE_DISK" -> WII_SINGLE_SIZE
    [] type = "IS_WII_DUAL_DISK" -> WII_DUAL_SIZE
    [] OTHER -> 0

StartRead(k) ==
  /\ pc = "idle"
  /\ pc' = "starting"
  /\ DVD_LowRead64(k)
  /\ UNCHANGED <<program, ret, buffer, imm, memory, disc, ready, sense, swaps>>

\* The caller looks at the buffer through the cache, and so fills it.
EndRead ==
  /\ pc = "reading" /\ ~busy
  /\ pc' = "idle"
  /\ ret' = ReadResult
  /\ buffer' = IF cache = NULL THEN ram ELSE cache
  /\ cache' = buffer'
  /\ UNCHANGED <<program, lba, registers, lowmem, ram, dirty, drive>>

\* The caller fills the buffer with zeros, in the cache.
memset ==
  /\ pc = "idle"
  /\ cache' = Junk /\ dirty' = TRUE
  /\ UNCHANGED <<pc, program, request, registers, lowmem, ram, drive>>

-----------------------------------------------------------------------------
(* The drive, the tray and the cache.                                      *)

ReadCmdOf(d) == IF d.media = "dvdr" THEN DVD_DVDR ELSE DVD_NORMAL

AnswerError ==
  /\ busy /\ cmd.op = "error"
  /\ imm' = [open |-> disc = NULL, code |-> sense]
  /\ answer' = "ok"
  /\ UNCHANGED <<deint, sense, ready, ram>>

AnswerId ==
  /\ busy /\ cmd.op = "id"
  /\ disc # NULL /\ disc.media = "pressed"
  /\ answer' = "ok" /\ ready' = TRUE
  /\ UNCHANGED <<deint, imm, sense, ram>>

AnswerRead ==
  /\ busy /\ cmd.op = "read"
  /\ disc # NULL /\ ready /\ cmd.code = ReadCmdOf(disc)
  /\ LET k == IF cmd.code = DVD_DVDR THEN cmd.addr ELSE cmd.addr \div SECTOR_WORDS IN
       k < disc.sectors /\ k \notin disc.bad /\ ram' = <<disc, k>>
  /\ answer' = "ok"
  /\ UNCHANGED <<deint, imm, sense, ready>>

\* Any ID or read command may fail, for once or for ever.
AnswerFailed ==
  /\ busy /\ cmd.op # "error"
  /\ answer' = "failed" /\ deint' = TRUE
  /\ sense' = IF cmd.op = "id" /\ disc # NULL /\ disc.media = "dvdr" THEN "053000" ELSE "other"
  /\ ram' = Junk
  /\ UNCHANGED <<imm, ready>>

Answer ==
  /\ AnswerError \/ AnswerId \/ AnswerRead \/ AnswerFailed
  /\ busy' = FALSE
  /\ UNCHANGED <<pc, program, request, cmd, lowmem, cache, dirty, disc, swaps>>

Swap ==
  /\ swaps < MaxSwaps
  /\ swaps' = swaps + 1
  /\ ready' = FALSE
  /\ disc' \in IF disc = NULL THEN Discs ELSE {NULL}
  /\ UNCHANGED <<pc, program, request, registers, memory, sense, answer>>

\* The cache needs the room of the buffer's lines.  A changed line that is written back
\* after the drive has written its sector would undo it: the drive takes milliseconds
\* for a sector, so that it is not done before the statement after the command is.
Evict ==
  /\ cache # NULL
  /\ dirty => busy \/ pc \notin {"probing", "starting"}
  /\ ram' = IF dirty THEN cache ELSE ram
  /\ cache' = NULL /\ dirty' = FALSE
  /\ UNCHANGED <<pc, program, request, registers, lowmem, drive>>

-----------------------------------------------------------------------------
InitializeDisk ==
  \/ ResetDrive \/ CheckTray \/ RawIdDone \/ ChooseReadCmd
  \/ \E rc \in IdResults : TryReadId(rc) \/ read_dvd_id(rc)

IdentifyDisk ==
  IdentifyByMagic \/ ProbeLayer \/ DCInvalidateRange("probing", "probe") \/ IdentifyByLayer

Next ==
  \/ InitializeDisk
  \/ IdentifyDisk
  \/ \E k \in 0 .. DiskSize - 1 : StartRead(k)
  \/ DCInvalidateRange("starting", "reading")
  \/ EndRead
  \/ memset
  \/ Answer
  \/ Swap
  \/ Evict

Spec == Init /\ [][Next]_vars

\* The CPU runs, every command is answered, and a disc whose ID the program
\* keeps asking for is read some time.
FairSpec ==
  /\ Spec
  /\ WF_vars(InitializeDisk \/ IdentifyDisk)
  /\ WF_vars(Answer)
  /\ SF_vars(TryReadId(0) /\ IdIsRead(0))

-----------------------------------------------------------------------------
(* Properties.                                                             *)

Blocks == (Discs \X Nat) \cup {Junk}
Commands == {[op |-> "error"], [op |-> "id"]}
            \cup [op : {"read"}, code : {DVD_NORMAL, DVD_DVDR}, addr : Nat]
Statuses == [open : BOOLEAN, code : {"ok", "053000", "other"}]

Identified == pc \in {"idle", "starting", "reading"}

TypeOK ==
  /\ pc \in {"reset", "status", "rawid", "errcode", "readid", "reread",
             "identify", "probing", "probe", "idle", "starting", "reading", "failed"}
  /\ read_cmd \in {DVD_NORMAL, DVD_DVDR} /\ di_fd \in {-1, 0}
  /\ globalDiskId \in Discs \cup {NULL}
  /\ pc \in {"identify", "probing", "probe"} \/ Identified => globalDiskId \in Discs
  /\ type \in DiskTypes \cup {NULL} /\ (Identified => type \in DiskTypes)
  /\ lba \in Nat /\ ret \in {-1, 0, 1}
  /\ buffer \in Blocks /\ ram \in Blocks /\ cache \in Blocks \cup {NULL}
  /\ dirty \in BOOLEAN /\ deint \in BOOLEAN /\ busy \in BOOLEAN
  /\ cmd \in Commands \cup {NULL}
  /\ imm \in Statuses \cup {NULL}
  /\ lowmem \in Discs \cup {NULL} /\ disc \in Discs \cup {NULL}
  /\ ready \in BOOLEAN /\ sense \in {"ok", "053000", "other"}
  /\ answer \in {NULL, "ok", "failed"} /\ swaps \in 0 .. MaxSwaps

\* DVD_LowRead64 reports what the drive did with this very command: not the
\* failure of an earlier attempt, not a command still under way.  On success
\* the caller sees the sector it asked for: not the bytes its cache held of the
\* buffer when the command was given, and no zeros of its own written back over
\* the sector, whether the drive answers before or after the lines are dropped
\* (disk.hpp:141-153 with disk.cpp:81).
ReadHonest == pc = "idle" /\ ret # -1 =>
  /\ ret = 0 <=> answer = "ok"
  /\ ret = 0 => buffer # Junk /\ buffer[2] = lba

\* However often the tray is used, every sector the dump gets is of the disc
\* that was identified: sectors of two discs never end up in one image
\* (disk.hpp:126-134, and main.cpp:155-166 asking for the ID only once).
OneDisc == pc = "idle" /\ ret = 0 => buffer[1] = globalDiskId

\* The ID the program goes by is the one just read from the disc in the tray,
\* never what low memory held before (disk.hpp:224-236, 243-258).
AcceptedIdIsRead ==
  [][globalDiskId' # globalDiskId /\ globalDiskId' # NULL => globalDiskId' = disc]_vars

\* initialize_disk only accepts discs that identify_disk knows, so that the
\* dump never starts with a size of 0 (disk.hpp:161, 184, 235).
KnownDisc == type # "IS_UNK_DISK" /\ (Identified => DiskSize > 0)

\* If the disc stayed in the tray, reads use the command its medium takes
\* (disk.hpp:106-124).
ReadCmdFits == swaps = 0 /\ (pc = "readid" \/ Identified) =>
  disc # NULL /\ read_cmd = ReadCmdOf(disc)

\* No disc is dumped short, unless the probe of its second layer failed: what
\* the drive answers is not lost between the probe and the size of the dump
\* (disk.hpp:165-186).
SizeCovers == pc = "idle" /\ ret = -1 /\ answer = "ok" => DiskSize >= globalDiskId.sectors

\* If a disc with a known ID is in the tray for good, initialisation and
\* identification come to an end: no wait for the drive is left hanging, and
\* the loop of disk.hpp:126 recognises the disc.
InitEnds == <>[](ValidId(disc)) => <>(Identified \/ pc = "failed")

\* disk.hpp:176 says "Wii disk is dual-layer" of a disc so identified.
DualMeansTwoLayers == type = "IS_WII_DUAL_DISK" => globalDiskId.layers = 2
=============================================================================
