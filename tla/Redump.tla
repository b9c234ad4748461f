------------------------------- MODULE Redump -------------------------------
(***************************************************************************)
(* Several dumps onto one drive, one after the other: of the same disc, to *)
(* try its scratches again, or of other discs whose game code is the same  *)
(* (another revision, the second disc), so that the parts have the same    *)
(* names.  The program is started afresh for each; only the files stay.    *)
(*                                                                         *)
(* The contents of a sector name the run that read it: <<run, k>>.         *)
(***************************************************************************)
EXTENDS Dump

CONSTANTS MaxRuns        \* bound on the number of dumps

ASSUME RunsAssumption == MaxRuns \in Nat \ {0}

VARIABLES
  run,                   \* the number of this dump
  longest                \* history: the largest size of a dump before this one

runs == <<run, longest>>
rvars == <<vars, runs>>

RInit ==
  /\ Init /\ scratched = {} /\ files = << >>
  /\ run = 1 /\ longest = 0

\* Any attempt may fail.
Read(ok) == IF ok THEN Attempt(0, <<run, lba>>) ELSE Attempt(1, Junk)

RDumpStep ==
  \/ Allocate \/ AllocateFails
  \/ StayInPart \/ OpenPart \/ OpenPartFails
  \/ \E ok \in BOOLEAN : Read(ok)
  \/ GiveUp
  \/ WriteSector \/ WriteSectorFails
  \/ \E home \in BOOLEAN : Poll(home)
  \/ Finish

\* What may be found of the parts: those that were not closed with success are
\* gone, or damaged (a single block of garbage stands for that).
Found == {[p \in synced \cup s |-> IF p \in synced THEN files[p] ELSE <<Junk>>] :
            s \in SUBSET (DOMAIN files \ synced)}

\* u64 offset = 0; int chunk_index = 1; u64 chunk_offset = 0; u64 lba = 0;
StartCounting ==
  /\ offset' = 0 /\ chunk_offset' = 0 /\ lba' = 0
  /\ chunk_index' = 1

\* The program has ended, or the console has lost its power on the way.
StartAgain ==
  /\ run < MaxRuns
  /\ run' = run + 1
  /\ longest' = IF diskSize > longest THEN diskSize ELSE longest
  /\ diskSize' \in DiskSizes /\ cancelOnError' \in BOOLEAN
  /\ StartCounting
  /\ remaining' = diskSize'
  /\ pc' = "alloc" /\ buffer' = NULL /\ fp' = NULL /\ result' = NULL
  /\ ret' = -1 /\ tries' = 0 /\ errorCount' = 0
  /\ files' \in Found /\ synced' = DOMAIN files'
  /\ opened' = {}
  /\ UNCHANGED scratched

RNext ==
  \/ (RDumpStep \/ Acknowledge \/ Reset) /\ UNCHANGED runs
  \/ StartAgain

RSpec == RInit /\ [][RNext]_rvars

-----------------------------------------------------------------------------
(* Properties.                                                             *)

RBlocks == ((1 .. MaxRuns) \X Nat) \cup {Zero, Junk}

RTypeOK ==
  /\ TypeOver(RBlocks)
  /\ run \in 1 .. MaxRuns /\ longest \in Nat

\* Part p holds sectors of run r, each in its place, or zeros; only the last
\* block may be the garbage of a torn write or a damaged part.
OfRun(p, r) == \A i \in DOMAIN files[p] :
  files[p][i] \in {<<r, SectorAt(p, i)>>, Zero} \cup (IF i = Len(files[p]) THEN {Junk} ELSE {})

\* Whatever dumps were begun, broken off and begun again, no part that can be
\* read mixes sectors of two of them, or has one out of its place (fopen with
\* "wb", and a part number that starts at 1 again: disk.cpp:35, 51-52).
PartsOfOneRun == \A p \in DOMAIN files : \E r \in 1 .. run : OfRun(p, r)

\* When a dump is complete and none before it was of a larger disc, the files of
\* this name are its parts and nothing else: joined in order they are its disc.
Joinable == Complete /\ longest <= diskSize =>
  /\ DOMAIN files = Parts
  /\ \A k \in 0 .. (diskSize \div SECTOR_SIZE) - 1 : Dumped(k) \in {<<run, k>>, Zero}
=============================================================================
