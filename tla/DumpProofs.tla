----------------------------- MODULE DumpProofs -----------------------------
(* Proofs about Dump, for all sector and chunk sizes, discs and faults.     *)
EXTENDS Dump, FiniteSetTheorems, TLAPS

-----------------------------------------------------------------------------
(* Arithmetic of sectors and chunks.                                        *)

LEMMA ChunkIsWhole == SectorsPerChunk \in Nat \ {0}
<1>1. SectorsPerChunk \in Int
  BY SizesAssumption DEF SectorsPerChunk
<1>2. SectorsPerChunk > 0
  <2>1. SUFFICES ASSUME SectorsPerChunk <= 0 PROVE FALSE
    BY <1>1
  <2>2. SectorsPerChunk * SECTOR_SIZE <= 0
    BY <1>1, <2>1, SizesAssumption
  <2> QED
    BY <2>2, SizesAssumption
<1> QED
  BY <1>1, <1>2

\* Comparing byte counts compares sector counts.
LEMMA ScaleLess ==
  ASSUME NEW a \in Nat, NEW b \in Nat
  PROVE  a * SECTOR_SIZE < b * SECTOR_SIZE <=> a < b
<1>1. ASSUME a < b PROVE a * SECTOR_SIZE < b * SECTOR_SIZE
  <2>1. PICK d \in Nat \ {0} : b = a + d
    <3>1. b = a + (b - a) /\ b - a \in Nat \ {0}
      BY <1>1
    <3> QED
      BY <3>1
  <2>2. b * SECTOR_SIZE = a * SECTOR_SIZE + d * SECTOR_SIZE
    BY <2>1, SizesAssumption
  <2>3. d * SECTOR_SIZE > 0
    BY <2>1, SizesAssumption
  <2>4. a * SECTOR_SIZE \in Int /\ d * SECTOR_SIZE \in Int
    BY <2>1, SizesAssumption
  <2> QED
    BY <2>2, <2>3, <2>4
<1>2. ASSUME b <= a PROVE b * SECTOR_SIZE <= a * SECTOR_SIZE
  <2>1. PICK d \in Nat : a = b + d
    <3>1. a = b + (a - b) /\ a - b \in Nat
      BY <1>2
    <3> QED
      BY <3>1
  <2>2. a * SECTOR_SIZE = b * SECTOR_SIZE + d * SECTOR_SIZE
    BY <2>1, SizesAssumption
  <2>3. d * SECTOR_SIZE >= 0
    BY <2>1, SizesAssumption
  <2>4. b * SECTOR_SIZE \in Int /\ d * SECTOR_SIZE \in Int
    BY <2>1, SizesAssumption
  <2> QED
    BY <2>2, <2>3, <2>4
<1>3. a * SECTOR_SIZE \in Int /\ b * SECTOR_SIZE \in Int
  BY SizesAssumption
<1> QED
  BY <1>1, <1>2, <1>3

\* One more sector is SECTOR_SIZE more bytes.
LEMMA ScaleNext ==
  ASSUME NEW a \in Nat
  PROVE  /\ a * SECTOR_SIZE \in Nat
         /\ (a + 1) * SECTOR_SIZE = a * SECTOR_SIZE + SECTOR_SIZE
BY SizesAssumption

\* Every sector has a place: a block of a part.
LEMMA PlaceOf ==
  ASSUME NEW k \in Nat
  PROVE  /\ PartOf(k) \in Nat \ {0}
         /\ IndexOf(k) \in 1 .. SectorsPerChunk
         /\ SectorAt(PartOf(k), IndexOf(k)) = k
<1> DEFINE S == SectorsPerChunk
<1>1. S \in Nat /\ S > 0
  BY ChunkIsWhole
<1> HIDE DEF S
<1>2. k \div S \in Nat /\ k % S \in 0 .. S - 1
  BY <1>1
<1>3. k = S * (k \div S) + (k % S)
  BY <1>1
<1>4. (k \div S) * S = S * (k \div S)
  BY <1>1, <1>2
<1> QED
  BY <1>1, <1>2, <1>3, <1>4 DEF PartOf, IndexOf, SectorAt, S

\* And only one.
LEMMA PlaceUnique ==
  ASSUME NEW p \in Nat \ {0}, NEW i \in 1 .. SectorsPerChunk,
         NEW q \in Nat \ {0}, NEW j \in 1 .. SectorsPerChunk,
         SectorAt(p, i) = SectorAt(q, j)
  PROVE  p = q /\ i = j
<1> DEFINE S == SectorsPerChunk
<1>1. S \in Nat /\ S > 0
  BY ChunkIsWhole
<1>2. (p - 1) * S + i = (q - 1) * S + j
  BY <1>1 DEF SectorAt
<1> HIDE DEF S
<1>3. ASSUME NEW m \in Nat, NEW n \in Nat, m < n PROVE n * S >= m * S + S
  <2>1. PICK d \in Nat : n = m + 1 + d
    <3>1. n = m + 1 + (n - m - 1) /\ n - m - 1 \in Nat
      BY <1>3
    <3> QED
      BY <3>1
  <2>2. n * S = m * S + S + d * S
    BY <2>1, <1>1
  <2>3. d * S >= 0 /\ d * S \in Int /\ m * S \in Int
    BY <2>1, <1>1
  <2> QED
    BY <2>2, <2>3, <1>1
<1>4. i \in Int /\ j \in Int /\ i >= 1 /\ j >= 1 /\ i <= S /\ j <= S
  BY <1>1 DEF S
<1>5. (p - 1) * S \in Int /\ (q - 1) * S \in Int
  BY <1>1
<1>6. ~(p - 1 < q - 1)
  BY <1>1, <1>2, <1>3, <1>4, <1>5
<1>7. ~(q - 1 < p - 1)
  BY <1>1, <1>2, <1>3, <1>4, <1>5
<1>8. p = q
  BY <1>6, <1>7
<1> QED
  BY <1>2, <1>4, <1>5, <1>8

-----------------------------------------------------------------------------
(* The inductive invariant, in two halves.  Shape is about lengths, counters *)
(* and streams, whatever a block is; it serves the dumps of other modules,   *)
(* whose sectors have other contents, as well.                               *)

\* The counters, the open part and the length of its file say the same thing,
\* as long as the loop is running, or stuck in an error prompt.
Position ==
  IF fp = NULL
  THEN lba = 0 /\ chunk_index = 1 /\ opened = {}
  ELSE /\ fp = chunk_index - 1 /\ fp \in Nat \ {0}
       /\ fp \in DOMAIN files
       /\ opened = {fp}
       /\ Len(files[fp]) <= SectorsPerChunk
       /\ lba = SectorAt(fp, 1) + Len(files[fp])
       /\ chunk_offset = Len(files[fp]) * SECTOR_SIZE
       /\ \A p \in 1 .. chunk_index - 2 :
             p \in DOMAIN files /\ Len(files[p]) = SectorsPerChunk

\* What each place of the loop adds to that.
Phase ==
  /\ pc = "alloc" => fp = NULL /\ buffer = NULL
  /\ pc = "loop" /\ fp # NULL => Len(files[fp]) > 0
  /\ pc = "poll" => fp # NULL /\ Len(files[fp]) > 0
  /\ pc \in {"read", "write"} =>
       fp # NULL /\ Len(files[fp]) < SectorsPerChunk /\ remaining > 0
  /\ pc = "read" => ret # 0
  /\ pc = "error" => cancelOnError
  /\ pc = "returned" => opened = {} /\ buffer = NULL
  /\ pc = "exited" => opened = {}
  /\ result # NULL => pc = "returned"

Shape(blocks) ==
  /\ TypeOver(blocks)
  /\ CountersAgree
  /\ Running \/ pc = "error" => Position
  /\ Phase
  /\ CompleteImage

\* Sector k is where it belongs.
Placed(k) ==
  /\ PartOf(k) \in DOMAIN files
  /\ IndexOf(k) \in DOMAIN files[PartOf(k)]
  /\ files[PartOf(k)][IndexOf(k)] = Contents(k)

AllPlaced == \A k \in 0 .. lba - 1 : Placed(k)

\* What the buffer is good for, and how often a readable sector has failed.
Held ==
  /\ pc = "read" /\ lba \notin scratched => tries <= FlakyFailures
  /\ pc = "write" => buffer = Contents(lba)

\* With "stop on read error" on, nothing unreadable has been passed.
NonePassed == cancelOnError =>
  /\ \A k \in 0 .. lba - 1 : k \notin scratched
  /\ pc = "write" => lba \notin scratched

Blocks == Nat \cup {Zero, Junk, Old}

IInv == Shape(Blocks) /\ AllPlaced /\ Held /\ NonePassed

USE DEF MoreToRead, CountTry, Attempt, CountError, StopOrSkip, Advance, Truncated

-----------------------------------------------------------------------------
(* What the arithmetic of the loop comes to.                                *)

\* A part is full exactly when the loop starts the next one.
LEMMA FullPart ==
  ASSUME NEW B, TypeOver(B), Position, fp # NULL
  PROVE  /\ Len(files[fp]) \in Nat
         /\ NeedsPart <=> Len(files[fp]) = SectorsPerChunk
<1>1. Len(files[fp]) \in Nat /\ Len(files[fp]) <= SectorsPerChunk
  BY DEF TypeOver, Position
<1>2. chunk_offset < CHUNK_SIZE <=> Len(files[fp]) < SectorsPerChunk
  BY <1>1, ScaleLess, ChunkIsWhole, SizesAssumption DEF Position
<1> QED
  BY <1>1, <1>2, ChunkIsWhole, SizesAssumption DEF NeedsPart, TypeOver

\* A disc is a whole number of sectors.
LEMMA DiscIsWhole ==
  ASSUME diskSize \in DiskSizes
  PROVE  /\ diskSize \in Nat \ {0}
         /\ diskSize \div SECTOR_SIZE \in Nat \ {0}
         /\ diskSize = (diskSize \div SECTOR_SIZE) * SECTOR_SIZE
<1>1. diskSize \in Nat \ {0} /\ diskSize = (diskSize \div SECTOR_SIZE) * SECTOR_SIZE
  BY SizesAssumption
<1>2. diskSize \div SECTOR_SIZE \in Nat
  BY <1>1, SizesAssumption
<1>3. ASSUME diskSize \div SECTOR_SIZE = 0 PROVE FALSE
  BY <1>1, <1>3, SizesAssumption
<1> QED
  BY <1>1, <1>2, <1>3

\* As long as there is something to read, a whole sector is.
LEMMA WholeSector ==
  ASSUME NEW B, TypeOver(B), CountersAgree, remaining > 0
  PROVE  /\ ReadSize = SECTOR_SIZE
         /\ ReadSize \div SECTOR_SIZE = 1
         /\ remaining - ReadSize \in Nat
         /\ lba < diskSize \div SECTOR_SIZE
<1> DEFINE n == diskSize \div SECTOR_SIZE
<1>1. diskSize = n * SECTOR_SIZE /\ diskSize \in Nat /\ n \in Nat
  BY DiscIsWhole DEF TypeOver
<1>2. lba \in Nat /\ offset \in Nat /\ remaining \in Nat
      /\ offset = lba * SECTOR_SIZE /\ offset + remaining = diskSize
  BY DEF TypeOver, CountersAgree
<1> HIDE DEF n
<1>3. lba * SECTOR_SIZE < n * SECTOR_SIZE
  BY <1>1, <1>2
<1>4. lba < n
  BY <1>1, <1>2, <1>3, ScaleLess
<1>5. ~(n * SECTOR_SIZE < (lba + 1) * SECTOR_SIZE)
  BY <1>1, <1>2, <1>4, ScaleLess
<1>6. remaining >= SECTOR_SIZE
  BY <1>1, <1>2, <1>5, ScaleNext, SizesAssumption
<1>7. SECTOR_SIZE \div SECTOR_SIZE = 1
  BY SizesAssumption
<1>8. ReadSize = SECTOR_SIZE
  BY <1>2, <1>6, SizesAssumption DEF ReadSize
<1> QED
  BY <1>2, <1>4, <1>6, <1>7, <1>8, SizesAssumption DEF n

\* The sector under way belongs at the end of the open part.
LEMMA NextPlace ==
  ASSUME NEW B, TypeOver(B), Position, fp # NULL, Len(files[fp]) < SectorsPerChunk
  PROVE  /\ PartOf(lba) = fp /\ IndexOf(lba) = Len(files[fp]) + 1
         /\ SectorAt(fp, Len(files[fp]) + 1) = lba
<1>1. Len(files[fp]) \in Nat /\ fp \in Nat \ {0} /\ lba \in Nat
  BY DEF TypeOver, Position
<1>2. Len(files[fp]) + 1 \in 1 .. SectorsPerChunk
  BY <1>1, ChunkIsWhole
<1>3. SectorAt(fp, Len(files[fp]) + 1) = lba
  BY <1>1, ChunkIsWhole DEF Position, SectorAt
<1>4. SectorAt(PartOf(lba), IndexOf(lba)) = lba
  BY <1>1, PlaceOf
<1>5. PartOf(lba) \in Nat \ {0} /\ IndexOf(lba) \in 1 .. SectorsPerChunk
  BY <1>1, PlaceOf
<1> QED
  BY <1>1, <1>2, <1>3, <1>4, <1>5, PlaceUnique

\* No sector dumped so far belongs in a part not started yet.
LEMMA EarlierParts ==
  ASSUME NEW B, TypeOver(B), Position, NEW k \in 0 .. lba - 1
  PROVE  PartOf(k) # chunk_index
<1> SUFFICES ASSUME PartOf(k) = chunk_index PROVE FALSE
  OBVIOUS
<1> DEFINE S == SectorsPerChunk
<1>1. k \in Nat /\ S \in Nat /\ lba \in Nat /\ k < lba
  BY ChunkIsWhole DEF TypeOver
<1>2. IndexOf(k) \in 1 .. S /\ SectorAt(chunk_index, IndexOf(k)) = k
  BY <1>1, PlaceOf
<1>3. fp # NULL /\ chunk_index = fp + 1 /\ fp \in Nat \ {0}
  BY <1>1 DEF Position, TypeOver
<1>4. Len(files[fp]) \in Nat /\ Len(files[fp]) <= S
  BY <1>3 DEF TypeOver, Position
<1>5. lba = (fp - 1) * S + Len(files[fp])
  BY <1>1, <1>3, <1>4 DEF Position, SectorAt
<1> HIDE DEF S
<1>6. k = fp * S + IndexOf(k) - 1
  BY <1>1, <1>2, <1>3 DEF SectorAt, S
<1>7. fp * S = (fp - 1) * S + S /\ (fp - 1) * S \in Int
  BY <1>1, <1>3
<1> QED
  BY <1>1, <1>2, <1>4, <1>5, <1>6, <1>7

\* A part that is started begins with the sector under way.
LEMMA NextPartStarts ==
  ASSUME NEW B, TypeOver(B), Position, NeedsPart
  PROVE  lba = SectorAt(chunk_index, 1)
<1>1. CASE fp = NULL
  BY <1>1, ChunkIsWhole DEF Position, SectorAt
<1>2. CASE fp # NULL
  <2>0. Len(files[fp]) = SectorsPerChunk
    BY <1>2, FullPart
  <2>1. /\ chunk_index = fp + 1 /\ fp \in Nat \ {0}
        /\ lba = (fp - 1) * SectorsPerChunk + SectorsPerChunk
    BY <1>2, <2>0, ChunkIsWhole DEF Position, SectorAt, TypeOver
  <2>2. (chunk_index - 1) * SectorsPerChunk = (fp - 1) * SectorsPerChunk + SectorsPerChunk
    BY <2>1, ChunkIsWhole
  <2> QED
    BY <2>1, <2>2, ChunkIsWhole DEF SectorAt
<1> QED
  BY <1>1, <1>2

-----------------------------------------------------------------------------
(* Every step keeps the shape.                                              *)

\* What an interrupted write may make of the files keeps their type.
LEMMA TornType ==
  ASSUME NEW B, Junk \in B, TypeOver(B), fp \in opened, NEW g \in Torn
  PROVE  /\ DOMAIN g = DOMAIN files
         /\ g \in [DOMAIN g -> Seq(B)]
<1>1. fp \in DOMAIN files /\ files[fp] \in Seq(B)
  BY DEF TypeOver
<1>2. Append(files[fp], Junk) \in Seq(B)
  BY <1>1
<1> QED
  BY <1>1, <1>2 DEF TypeOver, Torn

LEMMA InitShape ==
  ASSUME NEW B, {Junk, Old} \subseteq B, Init
  PROVE  Shape(B)
<1>1. TypeOver(B)
  <2>1. PICK s \in LeftoverSets : files = [p \in s |-> <<Old>>] /\ synced = s
    BY DEF Init
  <2>2. s \subseteq Nat \ {0}
    BY EnvironmentAssumption
  <2>3. <<Old>> \in Seq(B)
    OBVIOUS
  <2>4. files \in [DOMAIN files -> Seq(B)] /\ DOMAIN files = s
    BY <2>1, <2>3
  <2> QED
    BY <2>1, <2>2, <2>4, SizesAssumption DEF Init, TypeOver, Running, MAX_TRIES
<1>2. CountersAgree
  BY SizesAssumption DEF Init, CountersAgree
<1>3. Position /\ Phase
  BY DEF Init, Position, Phase
<1>4. CompleteImage
  BY MarksAssumption DEF Init, CompleteImage, Complete
<1> QED
  BY <1>1, <1>2, <1>3, <1>4 DEF Shape

LEMMA AllocateShape ==
  ASSUME NEW B, Junk \in B, Shape(B), Allocate \/ AllocateFails
  PROVE  Shape(B)'
<1> USE DEF Shape, Allocate, AllocateFails, Return, params, counters, attempt, fs
<1>1. TypeOver(B)'
  BY DEF TypeOver, Running, Stopped
<1>2. CountersAgree'
  BY DEF CountersAgree
<1>3. (Running \/ pc = "error" => Position)'
  BY DEF Running, Position
<1>4. Phase'
  BY MarksAssumption DEF Running, Phase, Position
<1>5. CompleteImage'
  BY MarksAssumption DEF Phase, Running, CompleteImage, Complete
<1> QED
  BY <1>1, <1>2, <1>3, <1>4, <1>5

LEMMA StayInPartShape ==
  ASSUME NEW B, Shape(B), StayInPart
  PROVE  Shape(B)'
<1> USE DEF Shape, StayInPart, StartReading, params, counters, fs
<1>1. TypeOver(B)'
  BY DEF TypeOver, Running, MAX_TRIES
<1>2. CountersAgree'
  BY DEF CountersAgree
<1>3. (Running \/ pc = "error" => Position)'
  BY DEF Running, Position
<1>4. Phase'
  <2>1. fp # NULL
    BY DEF NeedsPart
  <2>2. Len(files[fp]) < SectorsPerChunk
    BY <2>1, FullPart, ChunkIsWhole DEF Running, Position
  <2> QED
    BY <2>1, <2>2 DEF Phase
<1>5. CompleteImage'
  BY MarksAssumption DEF Phase, CompleteImage, Complete
<1> QED
  BY <1>1, <1>2, <1>3, <1>4, <1>5

LEMMA OpenPartShape ==
  ASSUME NEW B, Shape(B), OpenPart
  PROVE  Shape(B)'
<1> USE DEF Shape, params
<1>1. /\ TypeOver(B) /\ Position /\ Phase /\ pc = "loop" /\ pc' = "read"
      /\ fp' = chunk_index /\ chunk_index' = chunk_index + 1
      /\ chunk_index \in Nat \ {0}
  BY DEF OpenPart, StartReading, Running, TypeOver
<1>2. /\ DOMAIN files' = DOMAIN files \cup {chunk_index}
      /\ files'[chunk_index] = <<>>
      /\ \A p \in DOMAIN files : p # chunk_index => files'[p] = files[p]
  BY DEF OpenPart
<1>3. opened' = {chunk_index}
  BY <1>1 DEF OpenPart, Position
<1>4. fp # NULL => chunk_index = fp + 1 /\ fp \in Nat \ {0}
                   /\ Len(files[fp]) = SectorsPerChunk
  <2>1. fp # NULL => Len(files[fp]) = SectorsPerChunk
    BY FullPart, <1>1 DEF OpenPart
  <2> QED
    BY <2>1, <1>1 DEF Position
<1>5. TypeOver(B)'
  <2>1. files' \in [DOMAIN files' -> Seq(B)]
    BY <1>2 DEF OpenPart, TypeOver
  <2>2. synced' \subseteq DOMAIN files'
    BY <1>1, <1>2 DEF OpenPart, FlushedBy, TypeOver
  <2> QED
    BY <1>1, <1>2, <1>3, <2>1, <2>2 DEF OpenPart, StartReading, TypeOver, Running, MAX_TRIES
<1>6. CountersAgree'
  BY DEF OpenPart, StartReading, CountersAgree
<1>7. Position'
  <2>1. fp' # NULL
    BY <1>1, MarksAssumption
  <2>2. Len(files'[fp']) = 0
    BY <1>1, <1>2
  <2>3. lba = SectorAt(chunk_index, 1)
    BY <1>1, NextPartStarts DEF OpenPart
  <2>4. lba' = lba /\ chunk_offset' = 0
    BY DEF OpenPart
  <2>5. ASSUME NEW p \in 1 .. chunk_index - 1
        PROVE  p \in DOMAIN files' /\ Len(files'[p]) = SectorsPerChunk
    <3>1. fp # NULL
      BY <1>1 DEF Position
    <3>2. p \in DOMAIN files /\ Len(files[p]) = SectorsPerChunk
      BY <1>1, <1>4, <3>1 DEF Position
    <3> QED
      BY <1>1, <1>2, <3>2
  <2>6. lba \in Nat
    BY DEF TypeOver
  <2> HIDE DEF Shape
  <2>7. fp' = chunk_index' - 1 /\ fp' \in Nat \ {0} /\ opened' = {fp'} /\ fp' \in DOMAIN files'
    BY <1>1, <1>2, <1>3
  <2>8. Len(files'[fp']) <= SectorsPerChunk /\ chunk_offset' = Len(files'[fp']) * SECTOR_SIZE
    BY <2>2, <2>4, ChunkIsWhole, SizesAssumption
  <2>9. lba' = SectorAt(fp', 1) + Len(files'[fp'])
    BY <1>1, <2>2, <2>3, <2>4, <2>6
  <2> QED
    BY <1>1, <2>1, <2>5, <2>7, <2>8, <2>9 DEF Position, SectorAt
<1>8. Phase'
  BY <1>1, <1>2, ChunkIsWhole, MarksAssumption DEF Phase, OpenPart, StartReading, TypeOver
<1>9. CompleteImage'
  BY <1>1, MarksAssumption DEF Phase, CompleteImage, Complete, OpenPart
<1> QED
  BY <1>5, <1>6, <1>7, <1>8, <1>9

LEMMA OpenPartFailsShape ==
  ASSUME NEW B, Shape(B), OpenPartFails
  PROVE  Shape(B)'
<1> USE DEF Shape, OpenPartFails, CleanUp, Return, params, counters, attempt
<1>1. TypeOver(B)'
  BY DEF TypeOver, Running, Stopped, FlushedBy
<1>2. CountersAgree'
  BY DEF CountersAgree
<1>3. Phase'
  BY MarksAssumption DEF Phase, Running, Position
<1>4. ~Running' /\ pc' # "error" /\ CompleteImage'
  BY MarksAssumption DEF CompleteImage, Complete, Running
<1> QED
  BY <1>1, <1>2, <1>3, <1>4

LEMMA AttemptShape ==
  ASSUME NEW B, Shape(B), NEW code \in {0, 1}, NEW data \in B, Attempt(code, data)
  PROVE  Shape(B)'
<1> USE DEF Shape, params, counters, fs
<1>1. TypeOver(B)'
  BY DEF TypeOver, Running, MAX_TRIES
<1>2. CountersAgree'
  BY DEF CountersAgree
<1>3. (Running \/ pc = "error" => Position)'
  BY DEF Running, Position
<1>4. Phase'
  BY MarksAssumption DEF Phase
<1>5. CompleteImage'
  BY MarksAssumption DEF Phase, CompleteImage, Complete
<1> QED
  BY <1>1, <1>2, <1>3, <1>4, <1>5

LEMMA GiveUpShape ==
  ASSUME NEW B, Zero \in B, Shape(B), GiveUp
  PROVE  Shape(B)'
<1> USE DEF Shape, GiveUp, params, counters, attempt, fs
<1>1. TypeOver(B)'
  BY DEF TypeOver, Running, Stopped
<1>2. CountersAgree'
  BY DEF CountersAgree
<1>3. (Running \/ pc = "error" => Position)'
  BY DEF Running, Position
<1>4. Phase'
  BY MarksAssumption DEF Phase
<1>5. CompleteImage'
  BY MarksAssumption DEF Phase, CompleteImage, Complete
<1> QED
  BY <1>1, <1>2, <1>3, <1>4, <1>5

\* A sector that is written goes to the end of the open part, and nothing else
\* of the files changes.
LEMMA SectorWritten ==
  ASSUME NEW B, Shape(B), WriteSector, buffer \in B
  PROVE  /\ fp # NULL /\ fp \in DOMAIN files /\ Len(files[fp]) \in Nat
         /\ Len(files[fp]) < SectorsPerChunk /\ lba \in Nat /\ lba' = lba + 1
         /\ PartOf(lba) = fp /\ IndexOf(lba) = Len(files[fp]) + 1
         /\ SectorAt(fp, Len(files[fp]) + 1) = lba
         /\ DOMAIN files' = DOMAIN files
         /\ \A p \in DOMAIN files : p # fp => files'[p] = files[p]
         /\ files'[fp] = Append(files[fp], buffer)
         /\ Len(files'[fp]) = Len(files[fp]) + 1
         /\ DOMAIN files'[fp] = 1 .. Len(files[fp]) + 1
         /\ files'[fp][Len(files[fp]) + 1] = buffer
         /\ \A i \in DOMAIN files[fp] : i \in DOMAIN files'[fp] /\ files'[fp][i] = files[fp][i]
         /\ files'[fp] \in Seq(B)
<1>1. /\ TypeOver(B) /\ Position /\ CountersAgree /\ fp # NULL /\ remaining > 0
      /\ Len(files[fp]) < SectorsPerChunk
  BY DEF WriteSector, Shape, Phase, Running
<1>2. lba' = lba + 1
  BY <1>1, WholeSector DEF WriteSector
<1>3. /\ fp \in DOMAIN files /\ files[fp] \in Seq(B)
      /\ Len(files[fp]) \in Nat /\ lba \in Nat
  BY <1>1 DEF TypeOver, Position
<1>4. /\ DOMAIN files' = DOMAIN files
      /\ files'[fp] = Append(files[fp], buffer)
      /\ \A p \in DOMAIN files : p # fp => files'[p] = files[p]
  BY <1>3 DEF WriteSector
<1>5. /\ Len(files'[fp]) = Len(files[fp]) + 1
      /\ DOMAIN files'[fp] = 1 .. Len(files[fp]) + 1
      /\ files'[fp][Len(files[fp]) + 1] = buffer
      /\ \A i \in DOMAIN files[fp] : i \in DOMAIN files'[fp] /\ files'[fp][i] = files[fp][i]
      /\ files'[fp] \in Seq(B)
  BY <1>3, <1>4
<1> QED
  BY <1>1, <1>2, <1>3, <1>4, <1>5, NextPlace

LEMMA WriteSectorShape ==
  ASSUME NEW B, Shape(B), WriteSector, buffer \in B
  PROVE  Shape(B)'
<1> USE DEF Shape, params, attempt
<1>1. /\ TypeOver(B) /\ Position /\ CountersAgree /\ fp # NULL /\ remaining > 0
      /\ pc = "write" /\ pc' = "poll" /\ fp \in Nat \ {0}
  BY DEF WriteSector, Phase, Running, Position
<1>2. /\ lba' = lba + 1
      /\ offset' = offset + SECTOR_SIZE
      /\ chunk_offset' = chunk_offset + SECTOR_SIZE
      /\ remaining' = remaining - SECTOR_SIZE /\ remaining' \in Nat
  BY <1>1, WholeSector DEF WriteSector
<1>3. /\ DOMAIN files' = DOMAIN files /\ fp \in DOMAIN files /\ lba \in Nat
      /\ Len(files[fp]) \in Nat /\ Len(files[fp]) < SectorsPerChunk
      /\ Len(files'[fp]) = Len(files[fp]) + 1 /\ files'[fp] \in Seq(B)
      /\ \A p \in DOMAIN files : p # fp => files'[p] = files[p]
  BY SectorWritten
<1>4. TypeOver(B)'
  <2>1. files' \in [DOMAIN files' -> Seq(B)]
    BY <1>3 DEF WriteSector, TypeOver
  <2>2. DOMAIN files' \subseteq Nat \ {0} /\ opened' \subseteq DOMAIN files'
        /\ synced' \subseteq DOMAIN files'
    BY <1>1, <1>3 DEF WriteSector, TypeOver
  <2>3. lba' \in Nat /\ offset' \in Nat /\ chunk_offset' \in Nat /\ remaining' \in Nat
    <3>1. lba \in Nat /\ offset \in Nat /\ chunk_offset \in Nat
      BY DEF TypeOver
    <3> QED
      BY <1>2, <3>1, SizesAssumption
  <2>4. UNCHANGED <<diskSize, cancelOnError, scratched, ret, tries, buffer, fp,
                    chunk_index, errorCount, result>>
    BY DEF WriteSector
  <2> QED
    BY <2>1, <2>2, <2>3, <2>4, <1>1 DEF TypeOver, Running
<1>5. CountersAgree'
  <2>1. offset \in Nat /\ remaining \in Nat /\ UNCHANGED diskSize
    BY DEF TypeOver, WriteSector
  <2> QED
    BY <1>1, <1>2, <1>3, <2>1, ScaleNext, SizesAssumption DEF CountersAgree
<1>6. Position'
  <2>1. chunk_offset' = (Len(files[fp]) + 1) * SECTOR_SIZE
    BY <1>1, <1>2, <1>3, ScaleNext DEF Position
  <2>2. SectorAt(fp, 1) \in Int
    BY <1>1, ChunkIsWhole DEF SectorAt
  <2>3. UNCHANGED <<fp, chunk_index, opened>>
    BY DEF WriteSector
  <2>4. \A p \in 1 .. chunk_index - 2 :
          p \in DOMAIN files' /\ Len(files'[p]) = SectorsPerChunk
    BY <1>1, <1>3 DEF Position
  <2> QED
    BY <1>1, <1>2, <1>3, <2>1, <2>2, <2>3, <2>4, ChunkIsWhole DEF Position
<1>7. Phase'
  BY <1>1, <1>3, MarksAssumption DEF Phase, WriteSector
<1>8. CompleteImage'
  BY <1>1, MarksAssumption DEF Phase, CompleteImage, Complete, WriteSector
<1> QED
  BY <1>4, <1>5, <1>6, <1>7, <1>8

LEMMA WriteSectorFailsShape ==
  ASSUME NEW B, Junk \in B, Shape(B), WriteSectorFails
  PROVE  Shape(B)'
<1> USE DEF Shape, WriteSectorFails, CleanUp, Return, params, counters, attempt
<1>1. fp # NULL /\ opened = {fp}
  BY DEF Phase, Running, Position
<1>2. TypeOver(B)'
  BY <1>1, TornType DEF TypeOver, Running, Stopped, FlushedBy
<1>3. CountersAgree'
  BY DEF CountersAgree
<1>4. Phase'
  BY <1>1, MarksAssumption DEF Phase
<1>5. ~Running' /\ pc' # "error" /\ CompleteImage'
  BY MarksAssumption DEF CompleteImage, Complete, Running
<1> QED
  BY <1>2, <1>3, <1>4, <1>5

LEMMA PollShape ==
  ASSUME NEW B, Shape(B), NEW home \in BOOLEAN, Poll(home)
  PROVE  Shape(B)'
<1> USE DEF Shape, Poll, Exit, params, counters, attempt
<1>1. TypeOver(B)'
  BY DEF TypeOver, Running, Stopped, FlushedBy
<1>2. CountersAgree'
  BY DEF CountersAgree
<1>3. (Running \/ pc = "error" => Position)'
  BY DEF Running, Position
<1>4. Phase'
  BY DEF Phase
<1>5. CompleteImage'
  BY MarksAssumption DEF Phase, CompleteImage, Complete
<1> QED
  BY <1>1, <1>2, <1>3, <1>4, <1>5

\* The loop ends with the last part holding the rest of the disc.
LEMMA FinishShape ==
  ASSUME NEW B, Shape(B), Finish
  PROVE  Shape(B)'
<1> USE DEF Shape, params, counters, attempt
<1>0. remaining = 0
  BY DEF Finish, TypeOver
<1>1. /\ TypeOver(B) /\ Position /\ CountersAgree /\ Phase /\ pc = "loop" /\ remaining = 0
      /\ pc' = "returned" /\ result' = 0 /\ fp' = NULL /\ buffer' = NULL
      /\ UNCHANGED <<files, lba, offset, remaining, chunk_index, diskSize>>
  BY <1>0 DEF Finish, CleanUp, Return, Running
<1>2. TypeOver(B)'
  BY DEF TypeOver, Finish, CleanUp, Return, Running, Stopped, FlushedBy
<1>3. CountersAgree'
  BY DEF Finish, CleanUp, Return, CountersAgree
<1>4. Phase'
  BY <1>1, MarksAssumption DEF Phase, Position, Finish, CleanUp, Return
<1>5. CompleteImage'
  <2>1. lba * SECTOR_SIZE = diskSize /\ diskSize \in Nat \ {0}
    BY <1>1, SizesAssumption DEF CountersAgree, TypeOver
  <2>2. fp # NULL
    BY <1>1, <2>1, SizesAssumption DEF Position
  <2>3. /\ Len(files[fp]) \in Nat /\ Len(files[fp]) > 0
        /\ fp = chunk_index - 1 /\ fp \in Nat \ {0}
        /\ SectorAt(fp, 1) \in Int /\ lba = SectorAt(fp, 1) + Len(files[fp])
    BY <1>1, <2>2, ChunkIsWhole DEF Phase, Position, TypeOver, SectorAt
  <2>4. \A p \in Parts : Len(files[p]) =
          IF p < chunk_index - 1 THEN SectorsPerChunk ELSE lba - SectorAt(p, 1)
    BY <1>1, <2>2, <2>3 DEF Position, Parts, TypeOver
  <2>5. lba > SectorAt(chunk_index - 1, 1) /\ lba <= SectorAt(chunk_index, 1)
    <3>1. SectorAt(chunk_index, 1) = SectorAt(fp, 1) + SectorsPerChunk
      BY <2>3, ChunkIsWhole DEF SectorAt
    <3> QED
      BY <1>1, <2>2, <2>3, <3>1, ChunkIsWhole DEF Position
  <2> QED
    BY <1>1, <2>1, <2>4, <2>5 DEF CompleteImage, Parts, SectorAt
<1>6. ~Running' /\ pc' # "error"
  BY <1>1 DEF Running
<1> QED
  BY <1>2, <1>3, <1>4, <1>5, <1>6

LEMMA ExitShape ==
  ASSUME NEW B, Junk \in B, Shape(B), Acknowledge \/ Reset
  PROVE  Shape(B)'
<1> USE DEF Shape, Acknowledge, Reset, Exit, params, counters, attempt
<1>1. files' = files \/ (fp \in opened /\ files' \in Torn)
  BY DEF Phase, Running, Position
<1>2. TypeOver(B)'
  BY <1>1, TornType DEF TypeOver, Running, Stopped, FlushedBy
<1>3. CountersAgree'
  BY DEF CountersAgree
<1>4. ~Running' /\ pc' # "error" /\ Phase'
  BY DEF Running, Phase
<1>5. CompleteImage'
  BY MarksAssumption DEF Phase, CompleteImage, Complete
<1> QED
  BY <1>2, <1>3, <1>4, <1>5

\* One step of the dump, whatever its reads deliver.
StepOver(blocks) ==
  \/ Allocate \/ AllocateFails
  \/ StayInPart \/ OpenPart \/ OpenPartFails
  \/ \E code \in {0, 1}, data \in blocks : Attempt(code, data)
  \/ GiveUp
  \/ buffer \in blocks /\ WriteSector
  \/ WriteSectorFails
  \/ \E home \in BOOLEAN : Poll(home)
  \/ Finish \/ Acknowledge \/ Reset
  \/ UNCHANGED vars

LEMMA ShapeKept ==
  ASSUME NEW B, {Zero, Junk} \subseteq B, Shape(B), StepOver(B)
  PROVE  Shape(B)'
<1>1. CASE \E code \in {0, 1}, data \in B : Attempt(code, data)
  <2> HIDE DEF Attempt
  <2> QED
    BY <1>1, AttemptShape
<1>2. CASE UNCHANGED vars
  BY <1>2 DEF vars, params, counters, attempt, fs, Shape, TypeOver, CountersAgree, Position,
         Phase, CompleteImage, Complete, Parts, Running, Stopped
<1> QED
  BY <1>1, <1>2, AllocateShape, StayInPartShape, OpenPartShape, OpenPartFailsShape,
     GiveUpShape, WriteSectorShape, WriteSectorFailsShape, PollShape, FinishShape, ExitShape
  DEF StepOver

-----------------------------------------------------------------------------
(* The dump of this module: its sectors are what the disc says.             *)

\* A step that leaves the files alone, or tears the sector being written,
\* leaves the image alone.
LEMMA ImageStays ==
  ASSUME TypeOK, AllPlaced, files' = files \/ (fp \in opened /\ files' \in Torn),
         UNCHANGED <<lba, scratched>>
  PROVE  AllPlaced'
<1>1. CASE files' = files
  BY <1>1 DEF AllPlaced, Placed, Contents
<1>2. CASE fp \in opened /\ files' = [files EXCEPT ![fp] = Append(@, Junk)]
  <2>1. SUFFICES ASSUME NEW k \in 0 .. lba - 1 PROVE Placed(k)'
    BY DEF AllPlaced
  <2>2. Placed(k)
    BY DEF AllPlaced
  <2>3. fp \in DOMAIN files /\ files[fp] \in Seq(Nat \cup {Zero, Junk, Old})
    BY <1>2 DEF TypeOK, TypeOver
  <2>4. DOMAIN files' = DOMAIN files
    BY <1>2
  <2>5. \A i \in DOMAIN files[fp] :
          i \in DOMAIN Append(files[fp], Junk) /\ Append(files[fp], Junk)[i] = files[fp][i]
    BY <2>3
  <2> QED
    BY <1>2, <2>2, <2>3, <2>4, <2>5 DEF Placed, Contents
<1> QED
  BY <1>1, <1>2 DEF Torn

LEMMA InitIInv == Init => IInv
<1> SUFFICES ASSUME Init PROVE IInv
  OBVIOUS
<1>1. Shape(Blocks)
  BY InitShape DEF Blocks
<1>2. AllPlaced /\ Held /\ NonePassed
  BY DEF Init, AllPlaced, Held, NonePassed
<1> QED
  BY <1>1, <1>2 DEF IInv

\* Steps at whose end nothing is read or written.
LEMMA QuietStep ==
  ASSUME IInv, Allocate \/ AllocateFails \/ OpenPartFails \/ WriteSectorFails
               \/ (\E home \in BOOLEAN : Poll(home)) \/ Finish \/ Acknowledge \/ Reset
  PROVE  AllPlaced' /\ Held' /\ NonePassed'
<1>1. /\ UNCHANGED <<lba, scratched, cancelOnError>> /\ pc' \notin {"read", "write"}
      /\ files' = files \/ (pc = "write" /\ files' \in Torn)
  BY DEF Allocate, AllocateFails, OpenPartFails, WriteSectorFails, Poll, Finish, Acknowledge,
         Reset, Exit, CleanUp, Return, params, counters, attempt, fs
<1>2. pc = "write" => fp \in opened
  BY DEF IInv, Shape, Running, Position, Phase
<1> QED
  BY <1>1, <1>2, ImageStays DEF IInv, Shape, TypeOK, Blocks, Held, NonePassed

LEMMA StayInPartStep == IInv /\ StayInPart => AllPlaced' /\ Held' /\ NonePassed'
<1> SUFFICES ASSUME IInv, StayInPart PROVE AllPlaced' /\ Held' /\ NonePassed'
  OBVIOUS
<1>1. UNCHANGED <<files, lba, scratched, cancelOnError>> /\ pc' = "read" /\ tries' = 0
  BY DEF StayInPart, StartReading, params, counters, fs
<1> QED
  BY <1>1, ImageStays, EnvironmentAssumption DEF IInv, Shape, TypeOK, Blocks, Held, NonePassed

LEMMA OpenPartStep == IInv /\ OpenPart => AllPlaced' /\ Held' /\ NonePassed'
<1> SUFFICES ASSUME IInv, OpenPart PROVE AllPlaced' /\ Held' /\ NonePassed'
  OBVIOUS
<1>1. UNCHANGED <<lba, scratched, cancelOnError>> /\ pc' = "read" /\ tries' = 0
  BY DEF OpenPart, StartReading, params
<1>2. /\ DOMAIN files' = DOMAIN files \cup {chunk_index}
      /\ \A p \in DOMAIN files : p # chunk_index => files'[p] = files[p]
  BY DEF OpenPart
<1>3. TypeOver(Blocks) /\ Position
  BY DEF IInv, Shape, Blocks, OpenPart, Running
<1>4. AllPlaced'
  <2>1. SUFFICES ASSUME NEW k \in 0 .. lba - 1 PROVE Placed(k)'
    BY <1>1 DEF AllPlaced
  <2>2. Placed(k)
    BY DEF IInv, AllPlaced
  <2>3. PartOf(k) # chunk_index
    BY <1>3, EarlierParts
  <2> QED
    BY <1>1, <1>2, <2>2, <2>3 DEF Placed, Contents
<1> QED
  BY <1>1, <1>4, EnvironmentAssumption DEF IInv, Held, NonePassed

LEMMA ReadSectorStep ==
  IInv /\ (\E ok \in BOOLEAN : ReadSector(ok)) => AllPlaced' /\ Held' /\ NonePassed'
<1> SUFFICES ASSUME IInv, NEW ok \in BOOLEAN, ReadSector(ok)
             PROVE  AllPlaced' /\ Held' /\ NonePassed'
  OBVIOUS
<1> USE DEF ReadSector, params, counters, fs
<1>1. AllPlaced' /\ NonePassed'
  BY ImageStays DEF IInv, Shape, TypeOK, Blocks, NonePassed
<1>2. ok => buffer' = Contents(lba)
  BY DEF Contents
<1>3. lba \notin scratched /\ ~ok => tries + 1 <= FlakyFailures
  BY EnvironmentAssumption DEF IInv, Shape, TypeOver, MAX_TRIES
<1> QED
  BY <1>1, <1>2, <1>3, MarksAssumption DEF Held, Contents

\* Only an unreadable sector fails three times.
LEMMA GaveUp == IInv /\ GiveUp => lba \in scratched
BY EnvironmentAssumption DEF GiveUp, IInv, Shape, Phase, Held, TypeOver, MAX_TRIES

LEMMA GiveUpStep == IInv /\ GiveUp => AllPlaced' /\ Held' /\ NonePassed'
<1> SUFFICES ASSUME IInv, GiveUp PROVE AllPlaced' /\ Held' /\ NonePassed'
  OBVIOUS
<1> USE DEF GiveUp, params, counters, attempt, fs
<1>1. AllPlaced' /\ NonePassed'
  BY ImageStays DEF IInv, Shape, TypeOK, Blocks, NonePassed
<1> QED
  BY <1>1, GaveUp, MarksAssumption DEF Held, Contents

LEMMA WriteSectorStep == IInv /\ WriteSector => AllPlaced' /\ Held' /\ NonePassed'
<1> SUFFICES ASSUME IInv, WriteSector PROVE AllPlaced' /\ Held' /\ NonePassed'
  OBVIOUS
<1>1. /\ fp \in DOMAIN files /\ lba \in Nat /\ lba' = lba + 1
      /\ PartOf(lba) = fp /\ IndexOf(lba) = Len(files[fp]) + 1 /\ Len(files[fp]) \in Nat
      /\ DOMAIN files' = DOMAIN files
      /\ \A p \in DOMAIN files : p # fp => files'[p] = files[p]
      /\ DOMAIN files'[fp] = 1 .. Len(files[fp]) + 1
      /\ files'[fp][Len(files[fp]) + 1] = buffer
      /\ \A i \in DOMAIN files[fp] : i \in DOMAIN files'[fp] /\ files'[fp][i] = files[fp][i]
  <2>1. buffer \in Blocks /\ Shape(Blocks)
    BY MarksAssumption DEF IInv, Shape, Held, Contents, WriteSector, TypeOver, Blocks
  <2> QED
    BY <2>1, SectorWritten
<1>2. pc' = "poll" /\ buffer = Contents(lba) /\ UNCHANGED <<scratched, cancelOnError>>
  BY DEF IInv, Held, WriteSector, params
<1>3. AllPlaced'
  <2>1. SUFFICES ASSUME NEW k \in 0 .. lba PROVE Placed(k)'
    BY <1>1 DEF AllPlaced
  <2>2. CASE k = lba
    BY <1>1, <1>2, <2>2 DEF Placed, Contents
  <2>3. CASE k # lba
    <3>1. Placed(k)
      BY <1>1, <2>3 DEF IInv, AllPlaced
    <3> QED
      BY <1>1, <1>2, <3>1 DEF Placed, Contents
  <2> QED
    BY <2>2, <2>3
<1>4. NonePassed'
  BY <1>1, <1>2 DEF IInv, NonePassed, WriteSector
<1> QED
  BY <1>2, <1>3, <1>4 DEF Held

LEMMA StepIsOver == IInv /\ [Next]_vars => StepOver(Blocks)
<1> SUFFICES ASSUME IInv, [Next]_vars PROVE StepOver(Blocks)
  OBVIOUS
<1>1. ASSUME NEW ok \in BOOLEAN, ReadSector(ok)
      PROVE  \E code \in {0, 1}, data \in Blocks : Attempt(code, data)
  <2> HIDE DEF Attempt
  <2>1. lba \in Blocks /\ Junk \in Blocks
    BY DEF IInv, Shape, TypeOver, Blocks
  <2> QED
    BY <1>1, <2>1 DEF ReadSector
<1>2. WriteSector => buffer \in Blocks
  BY MarksAssumption DEF IInv, Held, Contents, WriteSector, Shape, TypeOver, Blocks
<1> QED
  BY <1>1, <1>2 DEF Next, DumpStep, StepOver

LEMMA StepIInv == IInv /\ [Next]_vars => IInv'
<1> SUFFICES ASSUME IInv, [Next]_vars PROVE IInv'
  OBVIOUS
<1>1. Shape(Blocks)'
  <2>1. {Zero, Junk} \subseteq Blocks /\ Shape(Blocks)
    BY DEF IInv, Blocks
  <2> QED
    BY <2>1, StepIsOver, ShapeKept
<1>2. AllPlaced' /\ Held' /\ NonePassed'
  <2>1. CASE UNCHANGED vars
    BY <2>1 DEF vars, params, counters, attempt, fs, IInv, AllPlaced, Placed, Held, Contents,
           NonePassed
  <2> QED
    BY <2>1, QuietStep, StayInPartStep, OpenPartStep, ReadSectorStep, GiveUpStep,
       WriteSectorStep
    DEF Next, DumpStep
<1> QED
  BY <1>1, <1>2 DEF IInv

-----------------------------------------------------------------------------
(* The theorems.                                                            *)

THEOREM Invariance == Spec => []IInv
BY InitIInv, StepIInv, PTL DEF Spec

\* Every variable keeps its type, for every disc, fault and sector size.
THEOREM TypeCorrect == Spec => []TypeOK
<1>1. IInv => TypeOK
  BY DEF IInv, Shape, TypeOK, Blocks
<1> QED
  BY <1>1, Invariance, PTL

\* Whatever has been dumped is, at every moment, the disc's sectors in order.
THEOREM Faithful == Spec => []ImageFaithful
<1>1. IInv => ImageFaithful
  BY DEF IInv, Shape, AllPlaced, Placed, ImageFaithful, Dumped
<1> QED
  BY <1>1, Invariance, PTL

\* The counters of the loop never drift apart.
THEOREM CountersCorrect == Spec => []CountersAgree
<1>1. IInv => CountersAgree
  BY DEF IInv, Shape
<1> QED
  BY <1>1, Invariance, PTL

\* A dump that returns 0 has written the whole disc, in whole chunks.
THEOREM CompleteCorrect == Spec => []CompleteImage
<1>1. IInv => CompleteImage
  BY DEF IInv, Shape
<1> QED
  BY <1>1, Invariance, PTL

\* Zeros stand for unreadable sectors only when the user allowed it.
THEOREM PolicyKept == Spec => []ErrorPolicy
<1>1. IInv => ErrorPolicy
  <2>1. SUFFICES ASSUME IInv PROVE ErrorPolicy
    OBVIOUS
  <2>2. ~cancelOnError => pc # "error"
    BY <2>1 DEF IInv, Shape, Phase
  <2>3. ASSUME cancelOnError, NEW k \in 0 .. lba - 1 PROVE Dumped(k) # Zero
    <3>1. k \notin scratched /\ k \in Nat
      BY <2>1, <2>3 DEF IInv, Shape, NonePassed
    <3>2. Dumped(k) = k
      BY <2>1, <2>3, <3>1 DEF IInv, Shape, AllPlaced, Placed, Dumped, Contents
    <3> QED
      BY <3>1, <3>2, MarksAssumption
  <2> QED
    BY <2>1, <2>2, <2>3 DEF ErrorPolicy, IInv, Shape, TypeOver
<1> QED
  BY <1>1, Invariance, PTL

\* No way out of dump leaves a stream open or the buffer allocated.
THEOREM NothingLeaks == Spec => []NoLeak
<1>1. IInv => NoLeak
  BY DEF IInv, Shape, NoLeak, Phase, Position, Running, Stopped, TypeOver
<1> QED
  BY <1>1, Invariance, PTL

\* Only the part being written, or just being started, ever changes.
THEOREM OthersUntouched == Spec => OnlyOpenPartWritten
<1>1. ASSUME IInv, [Next]_vars,
             NEW p \in DOMAIN files, p \notin opened \cup {chunk_index}
      PROVE  p \in DOMAIN files' /\ files'[p] = files[p]
  <2>1. CASE OpenPart
    BY <1>1, <2>1 DEF OpenPart
  <2>2. CASE pc = "write" /\ (WriteSector \/ WriteSectorFails \/ Reset)
    <3>1. fp \in opened
      BY <1>1, <2>2 DEF IInv, Shape, Running, Position, Phase
    <3> QED
      BY <1>1, <2>2, <3>1 DEF WriteSector, WriteSectorFails, Reset, Torn
  <2>3. CASE files' = files
    BY <1>1, <2>3
  <2> QED
    BY <1>1, <2>1, <2>2, <2>3
    DEF Next, DumpStep, vars, params, counters, attempt, fs, Allocate, AllocateFails, StayInPart,
        OpenPartFails, ReadSector, GiveUp, WriteSector, WriteSectorFails, Poll, Finish,
        Acknowledge, Reset
<1>2. IInv /\ [Next]_vars =>
        [\A p \in DOMAIN files :
           p \notin opened \cup {chunk_index} =>
             p \in DOMAIN files' /\ files'[p] = files[p]]_vars
  BY <1>1
<1> QED
  BY <1>2, Invariance, PTL DEF Spec, OnlyOpenPartWritten

\* No file is longer than a chunk, at any time: not in a dump that fails or is broken
\* off either, and not by the torn block such an end may leave (disk.cpp:48, 85-92).
WithinChunk == \A p \in DOMAIN files : Len(files[p]) <= SectorsPerChunk

LEMMA OneMoreBlock ==
  ASSUME IInv, pc = "write", NEW block \in Blocks,
         files' = [files EXCEPT ![fp] = Append(@, block)], WithinChunk
  PROVE  WithinChunk'
<1>1. /\ fp \in DOMAIN files /\ Len(files[fp]) < SectorsPerChunk
      /\ files[fp] \in Seq(Blocks)
  BY DEF IInv, Shape, Phase, Position, Running, TypeOver
<1>2. Len(Append(files[fp], block)) <= SectorsPerChunk
  BY <1>1, ChunkIsWhole
<1>3. DOMAIN files' = DOMAIN files /\ files'[fp] = Append(files[fp], block)
  BY <1>1
<1>4. SectorsPerChunk' = SectorsPerChunk
  BY DEF SectorsPerChunk
<1> QED
  BY <1>2, <1>3, <1>4 DEF WithinChunk

LEMMA StepWithinChunk == IInv /\ WithinChunk /\ [Next]_vars => WithinChunk'
<1> SUFFICES ASSUME IInv, WithinChunk, [Next]_vars PROVE WithinChunk'
  OBVIOUS
<1>1. CASE files' = files
  BY <1>1 DEF WithinChunk
<1>2. CASE OpenPart
  <2>1. /\ DOMAIN files' = DOMAIN files \cup {chunk_index} /\ files'[chunk_index] = << >>
        /\ \A p \in DOMAIN files : p # chunk_index => files'[p] = files[p]
    BY <1>2 DEF OpenPart
  <2>2. Len(<< >>) <= SectorsPerChunk
    BY ChunkIsWhole
  <2> QED
    BY <2>1, <2>2 DEF WithinChunk
<1>3. CASE \E block \in Blocks :
             pc = "write" /\ files' = [files EXCEPT ![fp] = Append(@, block)]
  BY <1>3, OneMoreBlock
<1>4. WriteSector => buffer \in Blocks
  BY MarksAssumption DEF IInv, Held, Contents, WriteSector, Shape, TypeOver, Blocks
<1> QED
  BY <1>1, <1>2, <1>3, <1>4
  DEF Next, DumpStep, vars, params, counters, attempt, fs, Allocate, AllocateFails, StayInPart,
      OpenPartFails, ReadSector, GiveUp, WriteSector, WriteSectorFails, Poll, Finish,
      Acknowledge, Reset, Torn, Blocks

THEOREM NeverLonger == Spec => []WithinChunk
<1>1. Init => WithinChunk
  <2>1. Len(<<Old>>) = 1 /\ 1 <= SectorsPerChunk
    BY ChunkIsWhole
  <2> QED
    BY <2>1 DEF Init, WithinChunk
<1> QED
  BY <1>1, StepWithinChunk, Invariance, PTL DEF Spec

-----------------------------------------------------------------------------
(* The count of errors.                                                     *)

\* The unreadable sectors among the first n.
Skipped(n) == {k \in 0 .. n - 1 : k \in scratched}

LEMMA SkippedNext ==
  ASSUME NEW n \in Nat
  PROVE  /\ Cardinality(Skipped(n)) \in Nat
         /\ Cardinality(Skipped(n + 1)) =
              Cardinality(Skipped(n)) + (IF n \in scratched THEN 1 ELSE 0)
<1>1. IsFiniteSet(Skipped(n)) /\ n \notin Skipped(n)
  <2>1. IsFiniteSet(0 .. n - 1)
    BY FS_Interval
  <2> QED
    BY <2>1, FS_Subset DEF Skipped
<1>2. Skipped(n + 1) = IF n \in scratched THEN Skipped(n) \cup {n} ELSE Skipped(n)
  BY DEF Skipped
<1>3. Cardinality(Skipped(n)) \in Nat
  BY <1>1, FS_CardinalityType
<1>4. Cardinality(Skipped(n) \cup {n}) = Cardinality(Skipped(n)) + 1
  BY <1>1, FS_AddElement
<1>5. CASE n \in scratched
  BY <1>2, <1>3, <1>4, <1>5
<1>6. CASE n \notin scratched
  BY <1>2, <1>3, <1>6
<1> QED
  BY <1>5, <1>6

\* An error is counted before its sector is written.
Tally == Running \/ pc = "error" \/ Complete =>
  errorCount = Cardinality(Skipped(lba)) +
    (IF pc = "error" \/ (pc = "write" /\ lba \in scratched) THEN 1 ELSE 0)

LEMMA InitTally == Init => Tally
<1> SUFFICES ASSUME Init PROVE Tally
  OBVIOUS
<1>1. lba = 0 /\ errorCount = 0 /\ pc = "alloc"
  BY DEF Init
<1>2. Skipped(lba) = {}
  BY <1>1 DEF Skipped
<1>3. Cardinality(Skipped(lba)) = 0
  BY <1>2, FS_EmptySet
<1> QED
  BY <1>1, <1>3 DEF Tally

LEMMA StepTally == IInv /\ Tally /\ [Next]_vars => Tally'
<1> SUFFICES ASSUME IInv, Tally, [Next]_vars PROVE Tally'
  OBVIOUS
<1> USE DEF params, counters, attempt, fs
<1>1. lba \in Nat /\ errorCount \in Nat
  BY DEF IInv, Shape, TypeOver
<1>2. UNCHANGED scratched /\ \A n : Skipped(n)' = Skipped(n)
  BY DEF Next, DumpStep, vars, Allocate, AllocateFails, StayInPart, OpenPart, OpenPartFails,
         ReadSector, GiveUp, WriteSector, WriteSectorFails, Poll, Finish, Acknowledge, Reset,
         Skipped
<1>3. CASE WriteSector
  <2>1. lba' = lba + 1
    BY <1>3, WholeSector DEF IInv, Shape, Phase, WriteSector
  <2>2. Skipped(lba)' = Skipped(lba + 1)
    BY <1>2, <2>1 DEF Skipped
  <2>3. errorCount = Cardinality(Skipped(lba)) + (IF lba \in scratched THEN 1 ELSE 0)
    BY <1>3 DEF Tally, Running, WriteSector
  <2>4. Cardinality(Skipped(lba + 1)) = errorCount
    BY <1>1, <2>3, SkippedNext
  <2>5. errorCount' = errorCount /\ pc' = "poll"
    BY <1>3 DEF WriteSector
  <2> QED
    BY <1>1, <1>2, <2>1, <2>4, <2>5 DEF Tally, Skipped
<1>4. CASE GiveUp
  <2>1. lba \in scratched
    BY <1>4, GaveUp
  <2>2. errorCount = Cardinality(Skipped(lba))
    BY <1>1, <1>4, SkippedNext DEF GiveUp, Tally, Running
  <2> QED
    BY <1>1, <1>2, <1>4, <2>1, <2>2, SkippedNext DEF GiveUp, Tally, Skipped
<1>5. CASE \E ok \in BOOLEAN : ReadSector(ok)
  BY <1>1, <1>2, <1>5, SkippedNext DEF ReadSector, Tally, Running, Skipped
<1>6. CASE Allocate \/ StayInPart \/ OpenPart \/ (\E home \in BOOLEAN : Poll(home)) \/ Finish
  BY <1>1, <1>2, <1>6, SkippedNext
  DEF Allocate, StayInPart, OpenPart, StartReading, Poll, Exit, Finish, CleanUp, Return,
      Tally, Running, Complete, Skipped
<1>7. CASE AllocateFails \/ OpenPartFails \/ WriteSectorFails \/ Acknowledge \/ Reset
  <2>1. ~Running' /\ pc' # "error" /\ ~Complete'
    BY <1>7, MarksAssumption
    DEF AllocateFails, OpenPartFails, WriteSectorFails, CleanUp, Return, Acknowledge, Reset,
        Exit, Running, Complete, IInv, Shape, Phase
  <2> QED
    BY <2>1 DEF Tally
<1>8. CASE UNCHANGED vars
  BY <1>2, <1>8 DEF vars, Tally, Running, Complete, Skipped
<1> QED
  BY <1>3, <1>4, <1>5, <1>6, <1>7, <1>8 DEF Next, DumpStep

\* The number of errors shown is the number of zeroed sectors in the files.
THEOREM ErrorsCorrect == Spec => []ErrorsCounted
<1>1. Spec => []Tally
  BY InitTally, StepTally, Invariance, PTL DEF Spec
<1>2. IInv /\ Tally => ErrorsCounted
  <2>1. SUFFICES ASSUME IInv, Tally, pc \in {"poll", "loop"} \/ Complete
        PROVE  errorCount = Cardinality({k \in 0 .. lba - 1 : Dumped(k) = Zero})
    BY DEF ErrorsCounted
  <2>2. {k \in 0 .. lba - 1 : Dumped(k) = Zero} = Skipped(lba)
    BY <2>1, MarksAssumption DEF IInv, Shape, AllPlaced, Placed, Dumped, Contents, Skipped
  <2>3. Complete => pc = "returned"
    BY <2>1, MarksAssumption DEF IInv, Shape, Phase, Complete
  <2>4. Cardinality(Skipped(lba)) \in Nat
    BY <2>1, SkippedNext DEF IInv, Shape, TypeOver
  <2>5. errorCount = Cardinality(Skipped(lba))
    BY <2>1, <2>3, <2>4 DEF Tally, Running
  <2> QED
    BY <2>2, <2>5
<1> QED
  BY <1>1, <1>2, Invariance, PTL

-----------------------------------------------------------------------------
(* The dump implements DiscImage.                                           *)

LEMMA ImageInit == Init => Image!Init
<1> SUFFICES ASSUME Init PROVE Image!Init
  OBVIOUS
<1>2. diskSize \div SECTOR_SIZE \in Nat \ {0}
  BY DiscIsWhole DEF Init
<1>3. scratched \in SUBSET Nat
  BY EnvironmentAssumption DEF Init
<1>4. [k \in 0 .. lba - 1 |-> Dumped(k)] = [k \in 0 .. -1 |-> Zero]
  BY DEF Init
<1>5. ~Complete /\ ~Stopped
  BY MarksAssumption DEF Init, Complete, Stopped
<1> QED
  BY <1>2, <1>3, <1>4, <1>5 DEF Init, Image!Init

\* A step that does not count a sector leaves the image alone.
LEMMA SameImage ==
  ASSUME AllPlaced, AllPlaced', UNCHANGED <<lba, scratched>>
  PROVE  [k \in 0 .. lba - 1 |-> Dumped(k)]' = [k \in 0 .. lba - 1 |-> Dumped(k)]
<1>1. \A k \in 0 .. lba - 1 : Dumped(k)' = Dumped(k)
  BY DEF AllPlaced, Placed, Dumped, Contents
<1> QED
  BY <1>1

LEMMA ImageStep == IInv /\ IInv' /\ [Next]_vars => [Image!Next]_Image!vars
<1> SUFFICES ASSUME IInv, IInv', [Next]_vars PROVE [Image!Next]_Image!vars
  OBVIOUS
<1> USE DEF params, counters, attempt, fs
<1>1. UNCHANGED <<diskSize, cancelOnError, scratched>>
  BY DEF Next, DumpStep, vars, Allocate, AllocateFails, StayInPart, OpenPart, OpenPartFails,
         ReadSector, GiveUp, WriteSector, WriteSectorFails, Poll, Finish, Acknowledge, Reset
<1>2. CASE WriteSector
  <2>1. lba' = lba + 1 /\ lba \in Nat
    BY <1>2, WholeSector DEF IInv, Shape, Phase, WriteSector, TypeOver
  <2>2. lba < diskSize \div SECTOR_SIZE
    BY <1>2, WholeSector DEF IInv, Shape, Phase, WriteSector
  <2>3. lba \in scratched => ~cancelOnError
    BY <1>2 DEF IInv, Shape, NonePassed, WriteSector
  <2>4. [k \in 0 .. lba - 1 |-> Dumped(k)]' =
          [k \in 0 .. lba |-> IF k = lba THEN Contents(k)
                               ELSE [j \in 0 .. lba - 1 |-> Dumped(j)][k]]
    <3>1. \A k \in 0 .. lba : Dumped(k)' = Contents(k)
      BY <1>1, <2>1 DEF IInv, Shape, AllPlaced, Placed, Dumped, Contents
    <3>2. \A k \in 0 .. lba - 1 : Dumped(k) = Contents(k)
      BY DEF IInv, Shape, AllPlaced, Placed, Dumped
    <3> QED
      BY <2>1, <3>1, <3>2
  <2>5. ~Complete /\ ~Stopped /\ ~Complete' /\ ~Stopped'
    BY <1>2, MarksAssumption DEF WriteSector, IInv, Shape, Phase, Complete, Stopped
  <2> QED
    BY <1>1, <2>1, <2>2, <2>3, <2>4, <2>5 DEF Image!Next, Image!Extend, Image!Contents, Contents
<1>3. CASE ~WriteSector
  <2>1. lba' = lba
    BY <1>3 DEF Next, DumpStep, vars, Allocate, AllocateFails, StayInPart, OpenPart,
         OpenPartFails, ReadSector, GiveUp, WriteSectorFails, Poll, Finish, Acknowledge, Reset
  <2>2. [k \in 0 .. lba - 1 |-> Dumped(k)]' = [k \in 0 .. lba - 1 |-> Dumped(k)]
    BY <1>1, <2>1, SameImage DEF IInv, Shape
  <2>3. CASE Stopped
    <3>1. Stopped' /\ result' = result
      BY <2>3 DEF Next, DumpStep, vars, Allocate, AllocateFails, StayInPart, OpenPart,
         OpenPartFails, ReadSector, GiveUp, WriteSector, WriteSectorFails, Poll, Finish,
         Acknowledge, Reset, Exit, Stopped
    <3> QED
      BY <1>1, <2>1, <2>2, <2>3, <3>1 DEF Image!vars, Complete
  <2>4. CASE ~Stopped
    <3>1. ~Complete
      BY <2>4, MarksAssumption DEF IInv, Shape, Phase, Complete, Stopped
    <3>2. CASE ~Stopped'
      <4>1. ~Complete'
        BY <3>2, MarksAssumption DEF IInv, Shape, Phase, Complete, Stopped
      <4> QED
        BY <1>1, <2>1, <2>2, <2>4, <3>1, <3>2, <4>1 DEF Image!vars
    <3>3. CASE Stopped' /\ ~Complete'
      BY <1>1, <2>1, <2>2, <2>4, <3>1, <3>3 DEF Image!Next, Image!Stop
    <3>4. CASE Stopped' /\ Complete'
      <4>1. lba * SECTOR_SIZE = diskSize /\ lba \in Nat
        BY <1>1, <2>1, <3>4 DEF IInv, Shape, CompleteImage, TypeOver
      <4>2. diskSize \div SECTOR_SIZE = lba
        BY <4>1, SizesAssumption
      <4> QED
        BY <1>1, <2>1, <2>2, <2>4, <3>1, <3>4, <4>2 DEF Image!Next, Image!Finish
    <3> QED
      BY <3>2, <3>3, <3>4
  <2> QED
    BY <2>3, <2>4
<1> QED
  BY <1>2, <1>3

\* For every size of disc and chunk, the files of a dump behave as DiscImage
\* says; only its liveness is left to TLC.
THEOREM Implements == Spec => Image!Spec
BY ImageInit, ImageStep, Invariance, PTL DEF Spec, Image!Spec

-----------------------------------------------------------------------------
(* How long a dump takes.                                                   *)

LEMMA DivisionOf ==
  ASSUME NEW r \in Nat, NEW s \in Nat \ {0}
  PROVE  \E q \in Nat, m \in 0 .. s - 1 : r = s * q + m /\ r \div s = q
<1>1. s \in Nat /\ s > 0
  OBVIOUS
<1>2. r \div s \in Nat /\ r % s \in 0 .. s - 1
  BY <1>1
<1>3. r = s * (r \div s) + (r % s) /\ r \div s = r \div s
  BY <1>1
<1>4. WITNESS r \div s \in Nat, r % s \in 0 .. s - 1
<1> QED
  BY <1>3

\* One divisor less is one less in the quotient.
LEMMA OneLess ==
  ASSUME NEW r \in Nat, NEW s \in Nat \ {0}, r >= s
  PROVE  /\ r \div s \in Nat \ {0}
         /\ (r - s) \div s = r \div s - 1
<1>1. PICK q \in Nat, m \in 0 .. s - 1 : r = s * q + m /\ r \div s = q
  BY DivisionOf
<1>2. r - s \in Nat
  OBVIOUS
<1>3. PICK d \in Nat, n \in 0 .. s - 1 : r - s = s * d + n /\ (r - s) \div s = d
  BY <1>2, DivisionOf
<1>4. s * (d + 1) = s * d + s /\ s * d \in Nat /\ s * q \in Nat /\ s * (d + 1) \in Nat
  OBVIOUS
<1>5. s * q + m = s * (d + 1) + n
  BY <1>1, <1>3, <1>4
<1>6. ASSUME NEW a \in Nat, NEW c \in Nat, a < c PROVE s * c >= s * a + s /\ s * a \in Nat
  <2>1. PICK e \in Nat : c = a + 1 + e
    <3>1. c - a - 1 \in Nat /\ c = a + 1 + (c - a - 1)
      BY <1>6
    <3> QED
      BY <3>1
  <2>2. s * c = s * a + s + s * e /\ s * a \in Nat /\ s * e \in Nat
    BY <2>1
  <2> QED
    BY <2>2
<1>7. ~(q < d + 1)
  <2>1. SUFFICES ASSUME q < d + 1 PROVE FALSE
    OBVIOUS
  <2>2. s * (d + 1) >= s * q + s
    BY <1>6, <2>1
  <2> QED
    BY <1>4, <1>5, <2>2
<1>8. ~(d + 1 < q)
  <2>1. SUFFICES ASSUME d + 1 < q PROVE FALSE
    OBVIOUS
  <2>2. s * q >= s * (d + 1) + s
    BY <1>6, <2>1
  <2> QED
    BY <1>4, <1>5, <2>2
<1> QED
  BY <1>1, <1>3, <1>7, <1>8

\* A sector that is written is one sector less to do.
LEMMA OneSectorLess ==
  ASSUME NEW B, TypeOver(B), CountersAgree, remaining > 0
  PROVE  /\ SectorsLeft \in Nat \ {0}
         /\ WriteSector => SectorsLeft' = SectorsLeft - 1
<1>1. ReadSize = SECTOR_SIZE /\ remaining - SECTOR_SIZE \in Nat
  BY WholeSector
<1>2. remaining \in Nat /\ remaining >= SECTOR_SIZE
  BY <1>1, SizesAssumption DEF TypeOver
<1>3. SectorsLeft \in Nat \ {0} /\ (remaining - SECTOR_SIZE) \div SECTOR_SIZE = SectorsLeft - 1
  BY <1>2, OneLess, SizesAssumption DEF SectorsLeft
<1>4. WriteSector => remaining' = remaining - SECTOR_SIZE
  BY <1>1 DEF WriteSector
<1> QED
  BY <1>3, <1>4 DEF SectorsLeft

LEMMA SectorsLeftType == ASSUME NEW B, TypeOver(B) PROVE SectorsLeft \in Nat
<1>1. remaining \in Nat /\ SECTOR_SIZE \in Nat \ {0}
  BY SizesAssumption DEF TypeOver
<1> QED
  BY <1>1, DivisionOf DEF SectorsLeft

\* The part of the measure that is arithmetic: what each place is worth.
LEMMA StepsLeftType ==
  ASSUME NEW B, Shape(B)
  PROVE  StepsLeft \in Nat
<1>1. SectorsLeft \in Nat /\ tries \in 0 .. 3
  BY SectorsLeftType DEF Shape, TypeOver, MAX_TRIES
<1>2. pc \in {"read", "write"} => SectorsLeft >= 1
  BY <1>1, OneSectorLess DEF Shape, Phase
<1> QED
  BY <1>1, <1>2 DEF StepsLeft, MAX_TRIES

LEMMA StepsLess ==
  ASSUME NEW B, Shape(B), Shape(B)', StepOver(B), Running, ~UNCHANGED vars
  PROVE  StepsLeft' < StepsLeft
<1>1. SectorsLeft \in Nat /\ tries \in 0 .. 3 /\ tries' \in 0 .. 3
  BY SectorsLeftType DEF Shape, TypeOver, MAX_TRIES
<1>2. pc \in {"read", "write"} => SectorsLeft >= 1
  BY <1>1, OneSectorLess DEF Shape, Phase
<1>3. Stopped' => StepsLeft' = 0
  BY DEF Stopped, StepsLeft
<1>4. StepsLeft > 0
  BY <1>1, <1>2 DEF StepsLeft, Running, MAX_TRIES
<1>5. CASE Stopped'
  BY <1>3, <1>4, <1>5
<1>6. CASE WriteSector
  <2>1. SectorsLeft' = SectorsLeft - 1 /\ pc = "write" /\ pc' = "poll"
    BY <1>6, OneSectorLess DEF Shape, Phase, WriteSector
  <2> QED
    BY <1>1, <2>1 DEF StepsLeft, MAX_TRIES
<1>7. CASE ~Stopped' /\ ~WriteSector
  <2>1. SectorsLeft' = SectorsLeft
    BY <1>7
    DEF StepOver, Allocate, AllocateFails, StayInPart, OpenPart, OpenPartFails, GiveUp,
        WriteSectorFails, Poll, Finish, Acknowledge, Reset, Return, Exit, Stopped, counters,
        SectorsLeft
  <2>2. \/ pc \in {"alloc", "poll"} /\ pc' = "loop"
        \/ pc = "loop" /\ pc' = "read" /\ tries' = 0
        \/ pc = "read" /\ pc' = "read" /\ tries' = tries + 1
        \/ pc = "read" /\ pc' = "write" /\ tries' \in {tries, tries + 1} /\ tries' <= 3
    BY <1>1, <1>7
    DEF StepOver, Allocate, AllocateFails, StayInPart, OpenPart, OpenPartFails, StartReading,
        GiveUp, WriteSectorFails, Poll, Finish, Acknowledge, Reset, Return, Exit, Stopped, attempt
  <2> QED
    BY <1>1, <2>1, <2>2 DEF StepsLeft, MAX_TRIES
<1> QED
  BY <1>5, <1>6, <1>7

\* Every step of a dump, whatever the drive, the files and the user do, brings it
\* nearer to its end: it takes at most StepsLeft steps.
THEOREM StepsBounded == Spec => EveryStepCounts
<1>1. IInv => StepsLeft \in Nat
  BY StepsLeftType DEF IInv
<1>2. IInv /\ StepsLeft \in Nat /\ [Next]_vars /\ IInv' /\ (StepsLeft \in Nat)' =>
        [Running => StepsLeft' \in 0 .. StepsLeft - 1]_vars
  <2> SUFFICES ASSUME IInv, IInv', StepsLeft \in Nat, StepsLeft' \in Nat,
                      [Next]_vars, Running, ~UNCHANGED vars
               PROVE  StepsLeft' \in 0 .. StepsLeft - 1
    OBVIOUS
  <2>1. Shape(Blocks) /\ Shape(Blocks)' /\ StepOver(Blocks)
    BY StepIsOver DEF IInv, Blocks
  <2>2. StepsLeft' < StepsLeft
    BY <2>1, StepsLess
  <2>3. \A m \in Nat, n \in Nat : n < m => n \in 0 .. m - 1
    BY SMT
  <2> QED
    BY <2>2, <2>3, Zenon
<1> QED
  BY <1>1, <1>2, Invariance, PTL DEF Spec, EveryStepCounts
=============================================================================
