----------------------------- MODULE RealSizes -----------------------------
(* The numbers of the program itself, which are beyond TLC: the sizes fit    *)
(* what Dump assumes of them, and every read the dump makes passes the range *)
(* check of DVD_LowRead64 and fits the drive's 32-bit registers.             *)
EXTENDS Integers, Sequences, SequenceTheorems, TLAPS

CONSTANTS FlakyFailures, ScratchedSets, LeftoverSets, Zero, Junk, Old, NULL

VARIABLES
  diskSize, cancelOnError, pc, buffer, fp, offset, chunk_index, chunk_offset,
  remaining, lba, ret, tries, errorCount, result, files, opened, synced, scratched

SECTOR_SIZE == 2048
CHUNK_SIZE == 2 * 1024 * 1024 * 1024

NGC_SIZE == 720896 * SECTOR_SIZE          \* 0x58000000
WII_SINGLE_SIZE == 2260992 * SECTOR_SIZE  \* 0x114000000
WII_DUAL_SIZE == 4282368 * SECTOR_SIZE    \* 0x20AC00000
DiskSizes == {NGC_SIZE, WII_SINGLE_SIZE, WII_DUAL_SIZE}

P == INSTANCE DumpProofs

U32_MAX == 65536 * 65536 - 1

\* The byte offset dump passes, lba << 11.
ReadOffset == lba * SECTOR_SIZE

\* What DVD_LowRead64 writes into dvd[3], for either kind of medium.
Addresses == {ReadOffset \div 2048, ReadOffset \div 4}

-----------------------------------------------------------------------------
\* The sizes are whole sectors, and a chunk is a whole number of sectors, so
\* what is proved of Dump holds of the program (disk.cpp:11-12, disk.hpp:156-163).
THEOREM SizesFit == P!SizesAssumption /\ P!SectorsPerChunk = 1048576
<1>1. P!SectorsPerChunk = 1048576
  BY SMT DEF P!SectorsPerChunk, CHUNK_SIZE, SECTOR_SIZE
<1>2. \A size \in DiskSizes : size = (size \div SECTOR_SIZE) * SECTOR_SIZE
  BY SMT DEF DiskSizes, NGC_SIZE, WII_SINGLE_SIZE, WII_DUAL_SIZE, SECTOR_SIZE
<1>3. DiskSizes \subseteq Nat \ {0}
  BY SMT DEF DiskSizes, NGC_SIZE, WII_SINGLE_SIZE, WII_DUAL_SIZE, SECTOR_SIZE
<1>4. CHUNK_SIZE = 1048576 * SECTOR_SIZE /\ CHUNK_SIZE \in Nat \ {0} /\ SECTOR_SIZE \in Nat \ {0}
  BY SMT DEF CHUNK_SIZE, SECTOR_SIZE
<1> QED
  BY SMT, <1>1, <1>2, <1>3, <1>4 DEF P!SizesAssumption

\* Every read of a dump addresses the drive with a number that fits dvd[3]: the
\* range check returns no -1, which would count as an unreadable sector, and
\* no address is cut to 32 bits, which would read a sector of another place
\* (disk.hpp:139, 144 with disk.cpp:70).
ReadsFit == pc = "read" => \A address \in Addresses : address \in 0 .. U32_MAX

THEOREM AddressesFit ==
  ASSUME P!EnvironmentAssumption, P!MarksAssumption
  PROVE  P!Spec => []ReadsFit
<1>1. P!IInv => ReadsFit
  <2> SUFFICES ASSUME P!IInv, pc = "read" PROVE \A address \in Addresses : address \in 0 .. U32_MAX
    BY SMT DEF ReadsFit
  <2>1. /\ P!CountersAgree /\ remaining > 0 /\ diskSize \in DiskSizes
        /\ lba \in Nat /\ offset \in Nat /\ remaining \in Nat
    BY SMT DEF P!IInv, P!Shape, P!Phase, P!TypeOver
  <2>2. ReadOffset = lba * 2048 /\ lba * 2048 < diskSize
    BY SMT, <2>1 DEF P!CountersAgree, ReadOffset, SECTOR_SIZE
  <2>3. diskSize <= 4282368 * 2048
    BY SMT, <2>1 DEF DiskSizes, NGC_SIZE, WII_SINGLE_SIZE, WII_DUAL_SIZE, SECTOR_SIZE
  <2>4. lba < 4282368
    BY SMT, <2>1, <2>2, <2>3 DEF DiskSizes, NGC_SIZE, WII_SINGLE_SIZE, WII_DUAL_SIZE, SECTOR_SIZE
  <2>5. ReadOffset \div 2048 = lba /\ ReadOffset \div 4 = lba * 512
    BY SMT, <2>1, <2>2
  <2>6. \A address \in Addresses : address = lba \/ address = lba * 512
    BY SMT, <2>5 DEF Addresses
  <2>7. lba \in 0 .. U32_MAX /\ lba * 512 \in 0 .. U32_MAX
    <3>1. \A m \in Nat, n \in Nat : n <= m => n \in 0 .. m
      BY SMT
    <3>2. U32_MAX \in Nat /\ lba \in Nat /\ lba * 512 \in Nat
      BY SMT, <2>1 DEF U32_MAX
    <3>3. lba <= U32_MAX
      BY SMT, <2>1, <2>4 DEF U32_MAX
    <3>4. lba * 512 <= U32_MAX
      BY SMT, <2>1, <2>4 DEF U32_MAX
    <3> QED
      BY Zenon, <3>1, <3>2, <3>3, <3>4
  <2> QED
    BY <2>6, <2>7
<1>2. P!Spec => []P!IInv
  BY SizesFit, P!Invariance
<1> QED
  BY <1>1, <1>2, PTL

\* No file the program writes is longer than the 2 GB of a chunk, which a FAT32
\* drive takes (4 GB less one byte), however the dump ends (disk.cpp:12, 48).
FilesFit == \A p \in DOMAIN files :
  Len(files[p]) * SECTOR_SIZE <= CHUNK_SIZE /\ Len(files[p]) * SECTOR_SIZE <= U32_MAX

THEOREM FilesFitDrive ==
  ASSUME P!EnvironmentAssumption, P!MarksAssumption
  PROVE  P!Spec => []FilesFit
<1>1. P!IInv /\ P!WithinChunk => FilesFit
  <2> SUFFICES ASSUME P!IInv, P!WithinChunk, NEW p \in DOMAIN files
               PROVE  /\ Len(files[p]) * SECTOR_SIZE <= CHUNK_SIZE
                      /\ Len(files[p]) * SECTOR_SIZE <= U32_MAX
    BY SMT DEF FilesFit
  <2>1. Len(files[p]) \in Nat
    BY SMT, LenProperties DEF P!IInv, P!Shape, P!TypeOver
  <2>2. Len(files[p]) <= 1048576
    BY SMT, SizesFit DEF P!WithinChunk
  <2>3. \A n \in Nat : n <= 1048576 => n * SECTOR_SIZE <= CHUNK_SIZE /\ n * SECTOR_SIZE <= U32_MAX
    BY SMT DEF SECTOR_SIZE, CHUNK_SIZE, U32_MAX
  <2> QED
    BY SMT, <2>1, <2>2, <2>3
<1>2. P!Spec => []P!IInv /\ []P!WithinChunk
  BY SizesFit, P!Invariance, P!NeverLonger, PTL
<1> QED
  BY <1>1, <1>2, PTL

\* A complete dump is of one part for a GameCube disc, three for a Wii disc of one
\* layer and five for one of two: the files to be joined (disk.cpp:48-51).
PartsOfDisc == P!Complete =>
  /\ diskSize = NGC_SIZE => chunk_index - 1 = 1
  /\ diskSize = WII_SINGLE_SIZE => chunk_index - 1 = 3
  /\ diskSize = WII_DUAL_SIZE => chunk_index - 1 = 5

THEOREM PartsToJoin ==
  ASSUME P!EnvironmentAssumption, P!MarksAssumption
  PROVE  P!Spec => []PartsOfDisc
<1>1. P!IInv => PartsOfDisc
  <2> SUFFICES ASSUME P!IInv, P!Complete PROVE PartsOfDisc
    BY SMT DEF PartsOfDisc
  <2>1. /\ lba * SECTOR_SIZE = diskSize /\ lba \in Nat /\ chunk_index \in Nat
        /\ P!SectorAt(chunk_index - 1, 1) < lba /\ lba <= P!SectorAt(chunk_index, 1)
    BY Zenon DEF P!IInv, P!Shape, P!CompleteImage, P!TypeOver
  <2>2. (chunk_index - 2) * 1048576 < lba /\ lba <= (chunk_index - 1) * 1048576
    BY SMT, <2>1, SizesFit DEF P!SectorAt
  <2>3. \A k \in Nat, c \in Nat : (c - 2) * 1048576 < k /\ k <= (c - 1) * 1048576 =>
          /\ k = 720896 => c - 1 = 1
          /\ k = 2260992 => c - 1 = 3
          /\ k = 4282368 => c - 1 = 5
    BY SMT
  <2>4. /\ diskSize = NGC_SIZE => lba = 720896
        /\ diskSize = WII_SINGLE_SIZE => lba = 2260992
        /\ diskSize = WII_DUAL_SIZE => lba = 4282368
    BY SMT, <2>1 DEF NGC_SIZE, WII_SINGLE_SIZE, WII_DUAL_SIZE, SECTOR_SIZE
  <2>5. /\ lba = 720896 => chunk_index - 1 = 1
        /\ lba = 2260992 => chunk_index - 1 = 3
        /\ lba = 4282368 => chunk_index - 1 = 5
    BY SMT, <2>1, <2>2, <2>3
  <2> QED
    BY SMT, <2>4, <2>5 DEF PartsOfDisc
<1>2. P!Spec => []P!IInv
  BY SizesFit, P!Invariance
<1> QED
  BY <1>1, <1>2, PTL
=============================================================================
