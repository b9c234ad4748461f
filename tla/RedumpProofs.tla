---------------------------- MODULE RedumpProofs ----------------------------
(* Proofs about Redump, for any number of dumps of any sizes.  What a step   *)
(* does to lengths and counters is ShapeKept of DumpProofs.                  *)
EXTENDS Redump, DumpProofs

\* The parts up to the last one started are this dump's own.
Started == Running \/ pc = "error" \/ Complete

Clean(p) == \A i \in DOMAIN files[p] : files[p][i] \in {<<run, SectorAt(p, i)>>, Zero}

\* No part is there without a dump large enough to need it.
InSize == \A p \in DOMAIN files :
  SectorAt(p, 1) * SECTOR_SIZE < diskSize \/ SectorAt(p, 1) * SECTOR_SIZE < longest

OwnParts == Started => \A p \in Parts : p \in DOMAIN files /\ Clean(p)

Fresh == pc = "write" => buffer \in {<<run, lba>>, Zero}

RIInv ==
  /\ Shape(RBlocks)
  /\ run \in 1 .. MaxRuns /\ longest \in Nat
  /\ PartsOfOneRun /\ InSize /\ OwnParts /\ Fresh

USE DEF MoreToRead, CountTry, Attempt, CountError, StopOrSkip, Advance, Truncated

-----------------------------------------------------------------------------
LEMMA RInitInv == RInit => RIInv
<1> SUFFICES ASSUME RInit PROVE RIInv
  OBVIOUS
<1>1. DOMAIN files = {} /\ synced = {} /\ opened = {}
  <2>1. PICK s \in LeftoverSets : files = [p \in s |-> <<Old>>] /\ synced = s
    BY DEF RInit, Init
  <2>2. DOMAIN files = {}
    BY DEF RInit
  <2> QED
    BY <2>1, <2>2 DEF RInit, Init
<1>2. TypeOver(RBlocks)
  BY <1>1, SizesAssumption DEF RInit, Init, TypeOver, Running, MAX_TRIES
<1>3. CountersAgree
  BY SizesAssumption DEF RInit, Init, CountersAgree
<1>4. Position /\ Phase
  BY DEF RInit, Init, Position, Phase
<1>5. CompleteImage
  BY MarksAssumption DEF RInit, Init, CompleteImage, Complete
<1>6. PartsOfOneRun /\ InSize /\ OwnParts /\ Fresh
  BY <1>1 DEF RInit, Init, PartsOfOneRun, InSize, OwnParts, Fresh, Parts
<1> QED
  BY <1>2, <1>3, <1>4, <1>5, <1>6, RunsAssumption DEF RIInv, Shape, RInit

LEMMA RStepIsOver ==
  ASSUME RIInv, RDumpStep \/ Acknowledge \/ Reset
  PROVE  StepOver(RBlocks)
<1>1. ASSUME NEW ok \in BOOLEAN, Read(ok)
      PROVE  \E code \in {0, 1}, data \in RBlocks : Attempt(code, data)
  <2> HIDE DEF Attempt
  <2>1. <<run, lba>> \in RBlocks /\ Junk \in RBlocks
    BY DEF RIInv, Shape, TypeOver, RBlocks
  <2> QED
    BY <1>1, <2>1 DEF Read
<1>2. WriteSector => buffer \in RBlocks
  BY DEF RIInv, Fresh, WriteSector, Shape, TypeOver, RBlocks
<1> QED
  BY <1>1, <1>2 DEF RDumpStep, StepOver

-----------------------------------------------------------------------------
(* What the steps do to the files.                                          *)

Filed == PartsOfOneRun /\ InSize /\ OwnParts /\ Fresh

\* Steps that write nothing.
LEMMA QuietRun ==
  ASSUME RIInv, UNCHANGED runs,
         Allocate \/ AllocateFails \/ StayInPart \/ (\E ok \in BOOLEAN : Read(ok)) \/ GiveUp
         \/ (\E home \in BOOLEAN : Poll(home)) \/ Finish \/ Acknowledge \/ OpenPartFails
         \/ (pc # "write" /\ Reset)
  PROVE  Filed'
<1>1. UNCHANGED <<files, diskSize, lba, run, longest>>
  <2> USE DEF params, counters, attempt, fs, runs
  <2>1. CASE Allocate \/ AllocateFails \/ StayInPart \/ OpenPartFails \/ Finish
    BY <2>1 DEF Allocate, AllocateFails, StayInPart, OpenPartFails, Finish
  <2>2. CASE \E ok \in BOOLEAN : Read(ok)
    BY <2>2 DEF Read
  <2>3. CASE GiveUp \/ Acknowledge \/ (\E home \in BOOLEAN : Poll(home))
    BY <2>3 DEF GiveUp, Acknowledge, Poll
  <2>4. CASE pc # "write" /\ Reset
    BY <2>4 DEF Reset
  <2> QED
    BY <2>1, <2>2, <2>3, <2>4
<1>2. PartsOfOneRun'
  BY <1>1 DEF RIInv, PartsOfOneRun, OfRun, SectorAt
<1>3. InSize'
  BY <1>1 DEF RIInv, InSize, SectorAt
<1>4. Started' => Started /\ chunk_index' = chunk_index
  BY MarksAssumption
  DEF RIInv, Shape, Phase, Started, Running, Complete, Allocate, AllocateFails, StayInPart,
      Read, GiveUp, Poll, Finish, Acknowledge, OpenPartFails, Reset, CleanUp, Return, Exit,
      params, counters, attempt, fs
<1>5. OwnParts'
  BY <1>1, <1>4 DEF RIInv, OwnParts, Clean, Parts, SectorAt
<1>6. pc' = "write" => buffer' \in {<<run, lba>>, Zero}
  BY DEF Allocate, AllocateFails, StayInPart, StartReading, Read, GiveUp, Poll, Finish,
         Acknowledge, OpenPartFails, Reset, CleanUp, Return, Exit
<1> QED
  BY <1>1, <1>2, <1>3, <1>5, <1>6 DEF Filed, Fresh

LEMMA OpenRun == RIInv /\ OpenPart /\ UNCHANGED runs => Filed'
<1> SUFFICES ASSUME RIInv, OpenPart, UNCHANGED runs PROVE Filed'
  OBVIOUS
<1>1. /\ UNCHANGED <<diskSize, lba, run, longest>> /\ pc' = "read"
      /\ chunk_index' = chunk_index + 1 /\ chunk_index \in Nat \ {0}
      /\ DOMAIN files' = DOMAIN files \cup {chunk_index}
      /\ files'[chunk_index] = <<>>
      /\ \A p \in DOMAIN files : p # chunk_index => files'[p] = files[p]
  BY DEF OpenPart, StartReading, params, runs, RIInv, Shape, TypeOver
<1>2. run \in 1 .. run /\ DOMAIN <<>> = {}
  BY DEF RIInv
<1>3. PartsOfOneRun'
  <2>1. ASSUME NEW p \in DOMAIN files' PROVE \E r \in 1 .. run : OfRun(p, r)'
    <3>1. CASE p = chunk_index
      BY <1>1, <1>2, <3>1 DEF OfRun
    <3>2. CASE p # chunk_index
      BY <1>1, <3>2 DEF RIInv, PartsOfOneRun, OfRun, SectorAt
    <3> QED
      BY <3>1, <3>2
  <2> QED
    BY <1>1, <2>1 DEF PartsOfOneRun
<1>4. InSize'
  <2>1. TypeOver(RBlocks) /\ Position /\ CountersAgree
    BY DEF RIInv, Shape, OpenPart, Running
  <2>2. lba = SectorAt(chunk_index, 1)
    BY <2>1, NextPartStarts DEF OpenPart
  <2>3. lba * SECTOR_SIZE < diskSize
    BY <2>1 DEF OpenPart, CountersAgree, TypeOver
  <2> QED
    BY <1>1, <2>2, <2>3 DEF RIInv, InSize, SectorAt
<1>5. OwnParts'
  BY <1>1, <1>2 DEF RIInv, OwnParts, Clean, Parts, SectorAt, OpenPart, Started, Running
<1> QED
  BY <1>1, <1>3, <1>4, <1>5 DEF Filed, Fresh

LEMMA WriteRun == RIInv /\ WriteSector /\ UNCHANGED runs => Filed'
<1> SUFFICES ASSUME RIInv, WriteSector, UNCHANGED runs PROVE Filed'
  OBVIOUS
<1>1. buffer \in {<<run, lba>>, Zero} /\ buffer \in RBlocks
  BY DEF RIInv, Fresh, WriteSector, Shape, TypeOver, RBlocks
<1>2. /\ fp \in DOMAIN files /\ Len(files[fp]) \in Nat
      /\ SectorAt(fp, Len(files[fp]) + 1) = lba
      /\ DOMAIN files' = DOMAIN files
      /\ \A p \in DOMAIN files : p # fp => files'[p] = files[p]
      /\ DOMAIN files'[fp] = 1 .. Len(files[fp]) + 1
      /\ files'[fp][Len(files[fp]) + 1] = buffer
      /\ \A i \in DOMAIN files[fp] : files'[fp][i] = files[fp][i]
      /\ files[fp] \in Seq(RBlocks)
  BY <1>1, SectorWritten DEF RIInv, Shape, TypeOver
<1>3. /\ UNCHANGED <<run, longest, diskSize, chunk_index>> /\ pc = "write" /\ pc' = "poll"
      /\ fp \in Parts /\ run \in 1 .. run
  BY <1>2, MarksAssumption
  DEF WriteSector, params, runs, RIInv, Shape, Running, Position, Phase, Parts, TypeOver
<1>4. DOMAIN files[fp] = 1 .. Len(files[fp])
  BY <1>2
<1>5. OwnParts /\ Started
  BY <1>3 DEF RIInv, Started, Running
<1>6. Clean(fp)'
  <2>1. SUFFICES ASSUME NEW i \in 1 .. Len(files[fp]) + 1
                 PROVE  files'[fp][i] \in {<<run, SectorAt(fp, i)>>, Zero}
    BY <1>2, <1>3 DEF Clean, SectorAt, WriteSector
  <2>2. CASE i = Len(files[fp]) + 1
    BY <1>1, <1>2, <2>2
  <2>3. CASE i # Len(files[fp]) + 1
    BY <1>2, <1>3, <1>4, <1>5, <2>3 DEF OwnParts, Clean
  <2> QED
    BY <2>2, <2>3
<1>7. PartsOfOneRun'
  <2>1. ASSUME NEW p \in DOMAIN files PROVE \E r \in 1 .. run : OfRun(p, r)'
    <3>1. CASE p = fp
      <4>1. PICK r : r = run
        OBVIOUS
      <4>2. OfRun(p, r)'
        BY <1>3, <1>6, <3>1, <4>1 DEF Clean, OfRun, SectorAt, WriteSector
      <4> QED
        BY <1>3, <4>1, <4>2
    <3>2. CASE p # fp
      BY <1>2, <3>2 DEF RIInv, PartsOfOneRun, OfRun, SectorAt
    <3> QED
      BY <3>1, <3>2
  <2> QED
    BY <1>2, <1>3, <2>1 DEF PartsOfOneRun
<1>8. InSize'
  BY <1>2, <1>3 DEF RIInv, InSize, SectorAt
<1>9. OwnParts'
  <2>1. ASSUME NEW p \in Parts PROVE p \in DOMAIN files' /\ Clean(p)'
    <3>1. CASE p = fp
      BY <1>2, <1>6, <3>1 DEF Clean, WriteSector
    <3>2. CASE p # fp
      BY <1>2, <1>3, <1>5, <2>1, <3>2 DEF OwnParts, Clean, SectorAt
    <3> QED
      BY <3>1, <3>2
  <2> QED
    BY <1>3, <2>1 DEF OwnParts, Parts
<1> QED
  BY <1>3, <1>7, <1>8, <1>9 DEF Filed, Fresh

\* A torn write ends the dump.
LEMMA TornRun ==
  RIInv /\ (WriteSectorFails \/ (pc = "write" /\ Reset)) /\ UNCHANGED runs => Filed'
<1> SUFFICES ASSUME RIInv, WriteSectorFails \/ (pc = "write" /\ Reset), UNCHANGED runs
             PROVE  Filed'
  OBVIOUS
<1>1. /\ UNCHANGED <<run, longest, diskSize>> /\ files' \in Torn /\ pc = "write"
      /\ pc' \in {"returned", "exited"} /\ ~Complete'
  BY MarksAssumption
  DEF WriteSectorFails, Reset, CleanUp, Return, Exit, params, runs, Complete, RIInv, Shape, Phase
<1>2. fp \in Parts /\ fp \in DOMAIN files /\ files[fp] \in Seq(RBlocks) /\ run \in 1 .. run
  BY <1>1, MarksAssumption DEF RIInv, Shape, Running, Position, Phase, Parts, TypeOver
<1>3. Clean(fp)
  BY <1>1, <1>2 DEF RIInv, OwnParts, Started, Running
<1>4. DOMAIN files' = DOMAIN files
  BY <1>1 DEF Torn
<1>5. PartsOfOneRun'
  <2>1. CASE files' = files
    BY <1>1, <2>1 DEF RIInv, PartsOfOneRun, OfRun, SectorAt
  <2>2. CASE files' = [files EXCEPT ![fp] = Append(@, Junk)]
    <3> DEFINE n == Len(files[fp])
    <3>1. /\ files'[fp] = Append(files[fp], Junk) /\ n \in Nat
          /\ DOMAIN files[fp] = 1 .. n /\ DOMAIN files'[fp] = 1 .. n + 1
          /\ Len(files'[fp]) = n + 1 /\ files'[fp][n + 1] = Junk
          /\ \A i \in 1 .. n : files'[fp][i] = files[fp][i]
      BY <1>2, <2>2
    <3> HIDE DEF n
    <3>2. PICK q, mine : q = fp /\ mine = run
      OBVIOUS
    <3>3. OfRun(q, mine)'
      <4>1. SUFFICES ASSUME NEW i \in 1 .. n + 1
                     PROVE  files'[fp][i] \in {<<run, SectorAt(fp, i)>>, Zero} \cup
                                              (IF i = n + 1 THEN {Junk} ELSE {})
        BY <1>1, <3>1, <3>2 DEF OfRun, SectorAt
      <4>2. CASE i = n + 1
        BY <3>1, <4>2
      <4>3. CASE i # n + 1
        BY <1>3, <3>1, <4>3 DEF Clean
      <4> QED
        BY <4>2, <4>3
    <3>4. ASSUME NEW p \in DOMAIN files PROVE \E r \in 1 .. run : OfRun(p, r)'
      <4>1. CASE p = fp
        BY <1>2, <3>2, <3>3, <4>1
      <4>2. CASE p # fp
        <5>1. files'[p] = files[p]
          BY <2>2, <4>2
        <5> QED
          BY <5>1 DEF RIInv, PartsOfOneRun, OfRun, SectorAt
      <4> QED
        BY <4>1, <4>2
    <3> QED
      BY <1>1, <1>4, <3>4 DEF PartsOfOneRun
  <2> QED
    BY <1>1, <2>1, <2>2 DEF Torn
<1>6. InSize'
  BY <1>1, <1>4 DEF RIInv, InSize, SectorAt
<1> QED
  BY <1>1, <1>5, <1>6 DEF Filed, OwnParts, Started, Running, Fresh

LEMMA StartAgainStep == RIInv /\ StartAgain => RIInv'
<1> SUFFICES ASSUME RIInv, StartAgain PROVE RIInv'
  OBVIOUS
<1>1. /\ run' = run + 1 /\ run' \in 1 .. MaxRuns /\ run \in Nat /\ longest' \in Nat
      /\ diskSize <= longest' /\ longest <= longest' /\ diskSize \in Nat /\ longest \in Nat
      /\ chunk_index' = 1 /\ pc' = "alloc" /\ result' = NULL /\ fp' = NULL /\ buffer' = NULL
      /\ opened' = {} /\ synced' = DOMAIN files' /\ lba' = 0 /\ offset' = 0
      /\ remaining' = diskSize' /\ diskSize' \in DiskSizes /\ diskSize' \in Nat \ {0}
  BY SizesAssumption, RunsAssumption DEF StartAgain, StartCounting, RIInv, Shape, TypeOver
<1>2. PICK s \in SUBSET (DOMAIN files \ synced) :
        files' = [p \in synced \cup s |-> IF p \in synced THEN files[p] ELSE <<Junk>>]
  BY DEF StartAgain, Found
<1>3. /\ DOMAIN files' \subseteq DOMAIN files
      /\ \A p \in DOMAIN files' : files'[p] = files[p] \/ files'[p] = <<Junk>>
  BY <1>2 DEF RIInv, Shape, TypeOver
<1>4. TypeOver(RBlocks)'
  <2>1. \A p \in DOMAIN files' : files'[p] \in Seq(RBlocks)
    <3>1. <<Junk>> \in Seq(RBlocks)
      BY DEF RBlocks
    <3> QED
      BY <1>3, <3>1 DEF RIInv, Shape, TypeOver
  <2>2. files' \in [DOMAIN files' -> Seq(RBlocks)]
    BY <1>2, <2>1
  <2>3. DOMAIN files' \subseteq Nat \ {0} /\ scratched' \in ScratchedSets
    BY <1>3 DEF RIInv, Shape, TypeOver, StartAgain
  <2> QED
    BY <1>1, <2>2, <2>3 DEF StartAgain, StartCounting, TypeOver, Running, MAX_TRIES
<1>5. CountersAgree'
  <2>1. 0 * SECTOR_SIZE = 0
    BY SizesAssumption
  <2>2. ASSUME NEW n \in DiskSizes PROVE 0 + n = n
    BY SizesAssumption
  <2>3. offset' = 0 /\ lba' = 0 /\ remaining' = diskSize' /\ diskSize' \in DiskSizes
    BY <1>1
  <2> QED
    BY <2>1, <2>2, <2>3 DEF CountersAgree
<1>6. Position' /\ Phase' /\ CompleteImage'
  BY <1>1, MarksAssumption DEF Position, Phase, CompleteImage, Complete
<1>7. PartsOfOneRun'
  <2>1. ASSUME NEW p \in DOMAIN files' PROVE \E r \in 1 .. run + 1 : OfRun(p, r)'
    <3>1. CASE files'[p] = files[p]
      BY <1>1, <1>3, <3>1 DEF RIInv, PartsOfOneRun, OfRun, SectorAt
    <3>2. CASE files'[p] = <<Junk>>
      <4>1. OfRun(p, 1)'
        BY <3>2 DEF OfRun
      <4> QED
        BY <1>1, <4>1
    <3> QED
      BY <1>3, <3>1, <3>2
  <2> QED
    BY <1>1, <2>1 DEF PartsOfOneRun
<1>8. InSize'
  <2>1. ASSUME NEW p \in DOMAIN files'
        PROVE  SectorAt(p, 1) * SECTOR_SIZE < longest'
    <3>1. p \in Nat \ {0} /\ p \in DOMAIN files
      BY <1>3 DEF RIInv, Shape, TypeOver
    <3>2. SectorAt(p, 1) * SECTOR_SIZE \in Int
      BY <3>1, ChunkIsWhole, SizesAssumption DEF SectorAt
    <3> QED
      BY <1>1, <3>1, <3>2 DEF RIInv, InSize
  <2> QED
    BY <2>1 DEF InSize, SectorAt
<1>9. OwnParts' /\ Fresh'
  BY <1>1 DEF OwnParts, Parts, Fresh
<1> QED
  BY <1>1, <1>4, <1>5, <1>6, <1>7, <1>8, <1>9 DEF RIInv, Shape

LEMMA RStepInv == RIInv /\ [RNext]_rvars => RIInv'
<1> SUFFICES ASSUME RIInv, [RNext]_rvars PROVE RIInv'
  OBVIOUS
<1>1. CASE (RDumpStep \/ Acknowledge \/ Reset) /\ UNCHANGED runs
  <2>1. Shape(RBlocks)'
    <3>1. {Zero, Junk} \subseteq RBlocks
      BY DEF RBlocks
    <3> QED
      BY <1>1, <3>1, RStepIsOver, ShapeKept DEF RIInv
  <2>2. Filed'
    BY <1>1, QuietRun, OpenRun, WriteRun, TornRun DEF RDumpStep
  <2> QED
    BY <1>1, <2>1, <2>2 DEF RIInv, Filed, runs
<1>2. CASE UNCHANGED rvars
  <2>1. Shape(RBlocks)'
    <3>1. {Zero, Junk} \subseteq RBlocks
      BY DEF RBlocks
    <3> QED
      BY <1>2, <3>1, ShapeKept DEF rvars, StepOver, RIInv
  <2> QED
    BY <1>2, <2>1
    DEF rvars, runs, vars, params, counters, attempt, fs, RIInv, PartsOfOneRun, OfRun, InSize,
        OwnParts, Started, Running, Complete, Clean, Parts, Fresh, SectorAt
<1> QED
  BY <1>1, <1>2, StartAgainStep DEF RNext

-----------------------------------------------------------------------------
(* The theorems.                                                            *)

THEOREM RInvariance == RSpec => []RIInv
BY RInitInv, RStepInv, PTL DEF RSpec

\* Every variable keeps its type from one dump to the next.
THEOREM RTypeCorrect == RSpec => []RTypeOK
<1>1. RIInv => RTypeOK
  BY DEF RIInv, Shape, RTypeOK
<1> QED
  BY <1>1, RInvariance, PTL

\* However dumps are repeated and broken off, no part mixes two of them.
THEOREM NeverMixed == RSpec => []PartsOfOneRun
<1>1. RIInv => PartsOfOneRun
  BY DEF RIInv
<1> QED
  BY <1>1, RInvariance, PTL

\* A part that begins earlier comes earlier.
LEMMA PartBefore ==
  ASSUME NEW p \in Nat, NEW q \in Nat, SectorAt(p, 1) < SectorAt(q, 1)
  PROVE  p < q
<1> SUFFICES ASSUME q <= p PROVE FALSE
  OBVIOUS
<1>1. PICK d \in Nat : p = q + d
  <2>1. p = q + (p - q) /\ p - q \in Nat
    OBVIOUS
  <2> QED
    BY <2>1
<1>2. (p - 1) * SectorsPerChunk = (q - 1) * SectorsPerChunk + d * SectorsPerChunk
  BY <1>1, ChunkIsWhole
<1>3. d * SectorsPerChunk >= 0 /\ d * SectorsPerChunk \in Int
      /\ (q - 1) * SectorsPerChunk \in Int
  BY <1>1, ChunkIsWhole
<1> QED
  BY <1>2, <1>3 DEF SectorAt

\* A complete dump that is at least as large as those before it leaves no
\* other part of that name.
THEOREM JoinsUp == RSpec => []Joinable
<1>1. RIInv => Joinable
  <2>1. SUFFICES ASSUME RIInv, Complete, longest <= diskSize
                 PROVE  /\ DOMAIN files = Parts
                        /\ \A k \in 0 .. (diskSize \div SECTOR_SIZE) - 1 :
                             Dumped(k) \in {<<run, k>>, Zero}
    BY DEF Joinable
  <2>2. /\ \A p \in Parts : p \in DOMAIN files /\ Clean(p)
        /\ \A p \in Parts : files[p] \in Seq(RBlocks)
        /\ DOMAIN files \subseteq Nat \ {0} /\ lba \in Nat /\ chunk_index \in Nat \ {0}
        /\ diskSize \in Nat /\ longest \in Nat
    BY <2>1, DiscIsWhole DEF RIInv, OwnParts, Started, Shape, TypeOver
  <2>3. /\ lba * SECTOR_SIZE = diskSize /\ lba <= SectorAt(chunk_index, 1)
        /\ \A p \in Parts : Len(files[p]) =
             IF p < chunk_index - 1 THEN SectorsPerChunk ELSE lba - SectorAt(p, 1)
    BY <2>1 DEF RIInv, Shape, CompleteImage
  <2>4. \A p \in Nat \ {0} : SectorAt(p, 1) \in Nat
    BY ChunkIsWhole DEF SectorAt
  <2>5. ASSUME NEW p \in Nat \ {0}, SectorAt(p, 1) < lba PROVE p \in Parts
    <3>1. SectorAt(p, 1) < SectorAt(chunk_index, 1)
      BY <2>2, <2>3, <2>4, <2>5
    <3> QED
      BY <2>2, <3>1, PartBefore DEF Parts
  <2>6. ASSUME NEW p \in DOMAIN files PROVE p \in Parts
    <3>1. p \in Nat \ {0} /\ SectorAt(p, 1) \in Nat /\ SectorAt(p, 1) * SECTOR_SIZE \in Int
      BY <2>2, <2>4, SizesAssumption
    <3>2. SectorAt(p, 1) * SECTOR_SIZE < lba * SECTOR_SIZE
      BY <2>1, <2>2, <2>3, <3>1 DEF RIInv, InSize
    <3> QED
      BY <2>2, <2>5, <3>1, <3>2, ScaleLess
  <2>7. diskSize \div SECTOR_SIZE = lba
    BY <2>2, <2>3, SizesAssumption
  <2>8. ASSUME NEW k \in 0 .. lba - 1 PROVE Dumped(k) \in {<<run, k>>, Zero}
    <3> DEFINE p == PartOf(k)
               i == IndexOf(k)
    <3>1. /\ p \in Nat \ {0} /\ i \in 1 .. SectorsPerChunk /\ SectorAt(p, i) = k
          /\ k \in Nat /\ k < lba
      BY <2>2, PlaceOf
    <3> HIDE DEF p, i
    <3>2. SectorAt(p, 1) + i - 1 = k /\ i \in Nat \ {0} /\ SectorAt(p, 1) \in Nat
      BY <2>4, <3>1, ChunkIsWhole DEF SectorAt
    <3>3. p \in Parts
      BY <2>2, <2>5, <3>1, <3>2
    <3>4. i <= Len(files[p]) /\ DOMAIN files[p] = 1 .. Len(files[p])
      BY <2>2, <2>3, <3>1, <3>2, <3>3, ChunkIsWhole
    <3> QED
      BY <2>2, <3>1, <3>2, <3>3, <3>4 DEF Dumped, Clean, p, i
  <2> QED
    BY <2>2, <2>6, <2>7, <2>8
<1> QED
  BY <1>1, RInvariance, PTL
=============================================================================
