# TakeADump-Wii in TLA+

TakeADump is a homebrew program for the Wii that copies a game disc, sector by
sector, to files on a FAT32 USB drive or SD card.  It is meant for scratched
discs: a sector that cannot be read is tried again, and then either stops the
dump or becomes zeros.  This directory holds a specification of the program's
own code (`source/`), the TLC runs that check it on small instances, and the
TLAPS proofs of its main properties.

    tlc -workers 2 -config MCDump.cfg MCDump        # the same for the other .cfg files
    tlapm DumpProofs.tla                            # and the other *Proofs.tla, RealSizes.tla

## 1. The system

| part | source | state | operations |
|---|---|---|---|
| dump loop | `disk.cpp` | `buffer`, `fp`, `offset`, `chunk_index`, `chunk_offset`, `remaining`, `lba`, `ret`, `tries`; global `errorCount` | `DiskManager::dump` |
| drive access | `include/disk.hpp` | `read_cmd`, `di_fd`, `globalDiskId`, the registers `dvd[]`, the ID in low memory | `initialize_disk`, `identify_disk`, `DVD_LowRead64`, `dvd_get_error`, `WDVD_LowReadDiskId`, `read_dvd_id`, `get_disk_size_bytes` |
| front end | `main.cpp`, `include/global.hpp`, `global.cpp`, `logger.cpp` | `cancelOnError`, `driveFs`, `driveType`; where `main` is | prompts, menu, mount, `Logger::error`, `resetAfterPause`, reset callback |
| logger | `logger.hpp`, `logger.cpp` | the cursor's line, `verboseCount` | `print`, `moveUp`, `newline`, `verbose`, `error` |
| graphics, constants, build | `graphics.*`, `constants.*`, `Makefile`, `assemble.sh` | none that matters | video set-up |
| vendored | `bin/`, `include/`, `lib/` | - | devkitPPC, libogc, libfat, wiiuse: external |

**How they interact.**  There is one thread.  `main` calls the others in turn:
prompt, menu, prompt, mount, prompt, `initialize_disk`, `identify_disk`, prompt,
`dump`.  `dump` calls `DVD_LowRead64` up to three times for each sector and
`fwrite` once.  Three things happen beside the thread: the drive answers a
command (the thread polls a busy bit), the user presses and releases buttons,
opens the tray, and presses the console's reset button, whose interrupt handler
calls `exit` wherever the thread is.  Failure is handled in three ways: return
codes inside `disk.*`, `Logger::error`, which never returns, and nothing at all
(`fclose`).

**What is hard.**  A dump takes half an hour and gigabytes, so boundaries
between parts, the last sector, retries in the middle and failures late in the
dump are hardly ever tested.  The drive keeps state of its own (a sticky error
bit, the ID it has read), which is stale if it is not cleared or asked for again.
The user can change the disc between any two steps.  A press of a button lasts
many polls.  `PROJECT.json` lists each hazard at its line with the properties
that cover it.

**What makes each part correct.**
The dump: the parts joined together are the disc, zeros exactly where it cannot
be read and only if that was asked for, and every end is clean.
Drive access: a result belongs to the command that was issued and the sector to
the disc that was identified; initialisation ends.
Front end: it acts on fresh presses only; the dump starts only when everything before it
has succeeded; after a report there is only the exit.
All together: what is reported as a success is the disc that was identified, whatever
was done to the tray; the parts on the drive stay usable when dumps are broken off and repeated;
and the screen, the only record of what is missing, tells which sectors those are, as many of them as it has lines for.

## 2. The modules

| module | what it is |
|---|---|
| `DiscImage` | abstract: an image of the disc that grows in order until it is complete or the dump stops |
| `DiscCopy` | abstract: what the program as a whole promises, one disc chosen, its copy growing, one report |
| `Dump` | `DiskManager::dump`, with the file system, the disc and the reset button around it |
| `DvdDrive` | drive access, with the drive, IOS and the tray around it |
| `Frontend` | `main`, the prompts and the menu, with the user around them |
| `TakeADump` | the composition: `Frontend` calls `DvdDrive` and `Dump`, and `Dump` reads through `DvdDrive` |
| `Redump` | extends `Dump`: one dump after the other onto the same files, with a loss of power between any two steps |
| `Console` | extends `Dump`: what each of its steps prints, through `Logger` |
| `RealSizes` | the program's own numbers, and what follows from the proofs of `Dump` for them |
| `MCDump`, `MCDvdDrive`, `MCFrontend`, `MCTakeADump`, `MCRedump`, `MCConsole` | values of the constants for TLC |
| `DumpProofs`, `DriveProofs`, `FrontendProofs`, `TakeADumpProofs`, `RedumpProofs`, `ConsoleProofs` | theorems and proofs |

### Dump

`pc` is the place in the function: `alloc` (before `memalign`), `loop` (the test
of `remaining`), `read` (the retry loop), `write` (before `fwrite`), `poll` (the
progress line and the Home button), and the ends `returned`, `error` (inside
`Logger::error`, which waits for the user and exits) and `exited`.  Between two
actions the reset button may strike.

| action | code (`disk.cpp`) |
|---|---|
| `Allocate`, `AllocateFails` | 26-31 |
| `StayInPart` | 44-48 with no part change, 65-67 |
| `OpenPart`, `OpenPartFails` | 48-67; the part number advances before `fopen`, so it does in the failing case too |
| `Attempt(code, data)`, `ReadSector(ok)` | one pass of 69-72: what a read returns and leaves in the buffer, and what this module's disc lets that be |
| `GiveUp` | 74-83 |
| `WriteSector`, `WriteSectorFails` | 85-97 |
| `Poll(home)` | 99-100 |
| `Finish` | 103-109 |
| `Acknowledge` | `Logger::error` up to `exit` |
| `Reset` | `reset_callback`, `main.cpp:30-33` |

Data: the contents of sector *k* are the number *k*, so that a block in a file
tells which sector it came from; `Zero` is a zeroed sector, `Junk` the garbage of a
failed transfer or a torn write, `Old` a block of an earlier dump.  A part file is
its number and its sequence of blocks.  `opened` and `synced` say which parts have
an open stream, and which were closed with success: `FlushedBy` lets any close
fail, as nobody looks.  The disc is fixed by `scratched`: a sector in it fails
every attempt; one outside it fails at most `FlakyFailures` (at most two) times
in a row.  Without that division there would be nothing to say about which sectors
ought to be zeros.

### DvdDrive

A command is issued by writing the registers (`Issue`), is under way while `busy`,
and is answered by the drive (`Answer*`) at any later time; the program's next
action waits for `~busy`.  `deint` is bit 2 of `dvd[0]`, which the drive sets on
failure and the program clears by writing it (0x54, 0x2E).  `cache` stands for
the cache lines of the caller's buffer, `dirty` says that the CPU changed them, and `ram` is what is in memory below them.
`DVD_LowRead64` is two steps for the program, the command and then `DCInvalidateRange` (at `probing` and `starting`), between which the
drive may answer and the cache may give the lines up (`Evict`), writing changed ones back over what the drive wrote.  `memset` is
the dump's own change of the buffer (`disk.cpp:81`), which leaves such lines.
`lowmem` is the ID at 0x80000000.  `pc` follows `initialize_disk` (`reset`,
`status`, `rawid`, `errcode`, `readid`, `reread`), `identify_disk` (`identify`,
`probing`, `probe`) and then the reads of the dump (`idle`, `starting`, `reading`).  `Swap` opens the
tray, or closes it on any disc.

Of the drive we assume what the code relies on and cannot check: the error bit is
sticky; a DVD-R refuses the ID command of pressed discs with error 053000; sectors
can be read only once the ID was read since the disc was inserted.  One assumption is about time: the drive takes milliseconds
for a sector, so it has not delivered one before the statement after the command is reached; without it (the second conjunct of `Evict`) a changed line
could be written back over a sector that is there already, and the code would not notice.  The test of
`disk.hpp:106` is always true (`dvd_hard_init` is 0 when `initialize_disk` runs, once), and the
test of line 139 never is (`RealSizes`), so neither has a second branch here.

### Frontend

`pc` is a prompt, `menu`, a step of the work, `pause`, `exit` or `exited`; `releasing`
says that `waitForButtonRelease` runs rather than the wait or the menu proper.
`held` is the set of buttons down.  Two history variables serve the properties:
`shown`, the settings the menu printed last, and `used`, how often each button's
present press was acted on, where being down while the program acts on another button counts as once.  So `used` never exceeds 1
(`ActsOnFreshPress`) only if each press that is acted on is newer than the one before: Home held since before A started the dump is not.  Steps of the work have one result each, any the
code distinguishes.

### TakeADump

The three modules are instances `F`, `D` and `W` over disjoint variables, and a step in which
one calls another is the conjunction of their actions: `PromptReleased` at the start prompt is
also the entry of the dump (`CallDump` sets its `remaining`), `ReadBegins` is `StartRead` of the drive for the dump's `lba`,
`ReadEnds` is `EndRead` of the drive and `Attempt` of the dump with the result and the block the
drive gave, `LinesDropped` is the statement between them, `GiveUp` is the dump's and, if the sector is to be zeros, the drive module's `memset`, as it is one buffer;
`HomeInDump` is the dump's poll and the exit of `main`.  `DvdDrive!Next` and
`Dump!Next` are not repeated: `InitializeDisk`, `IdentifyDisk` and `DumpOnly` use their actions as they are.
Beside the thread, `DriveAnswers`, `TrayUsed`, `ButtonMoves` and `Reset` may happen at any moment, and `LinesEvicted` while a command is being given:
what a cache line hides or overwrites is looked at by nobody at other times.

`Copying` is `DiscCopy` with a refinement mapping: the disc is `globalDiskId` from the step on in which `main` has
identified it, skipping is the setting `cancelOnError` turned round, the copy is the image read back from the part files, sector for sector, and the
status is what was reported.  Nothing of drive, buffer, retries, part files or prompts is left, so that `CopySpec` says of
all the steps of all the parts together that the copy is of one disc, of one size and under one setting, and that what is written stays.

Two idealisations of the components disappear here.  A sector's contents are `<<disc, k>>`, as the
drive delivers them, so a sector of another disc can be told; and no set `scratched` says in
advance what can be read: any read fails if the drive says so.

### Redump

`Dump` once more, whose sectors are `<<run, k>>`.  `StartAgain` begins another dump, after an end
or instead of one (a loss of power): the locals and globals are what a fresh start of the program makes them, and only
the files stay.  Of these, parts that were closed with success are whole, and any other is gone or damaged
(`Found`): what a FAT file system keeps of an unclosed file is external.  `longest` is a history variable.

### Console

`screen` is the sequence of all lines printed, `row` the line of the cursor, and `top` the first line that can still be seen: the console has
`ROWS` lines and scrolls when the cursor gets below the last (`Put`).  `print` writes at the cursor,
over what is there, and goes to the next line; `moveUp` is the escape sequence `ESC[1A`, which stops at the top of the console.  Each step of
`Dump` is conjoined with the lines it prints.  A line is what matters of it: progress (with the offset and the number
of errors), an unreadable sector (with its offset), or other text.  With `DEBUG`, `verbose` prints and counts.

### RealSizes

No run: TLC's integers have 32 bits.  Its three theorems about `P!Spec` are of the addresses on the bus, the lengths of the files and the
number of parts.  It instantiates `Dump` (through `DumpProofs`) with sectors of 2048 bytes,
chunks of 2 GB and the three sizes of `get_disk_size_bytes`.

## 3. The runs

| run | configuration | shows |
|---|---|---|
| `dump` | `MCDump.cfg` | all properties of `Dump`, including `ImageSpec` (it implements `DiscImage`), `EveryStepCounts` and `Termination` |
| `dump_synced` | `MCDumpSynced.cfg` | *violation*: "Dump complete" with a part that was not saved |
| `drive` | `MCDvdDrive.cfg` | all properties of `DvdDrive` |
| `drive_layers` | `MCDriveLayers.cfg` | *violation*: a single-layer disc is taken for a dual-layer one |
| `frontend` | `MCFrontend.cfg` | the front end with all seven buttons: its safety, and that the final pause is left |
| `frontend_home` | `MCFrontendHome.cfg` | *violation*: Home does not exit at the start prompt |
| `frontend_menu_b` | `MCFrontendMenuB.cfg` | *violation*: B does not change the file system |
| `takeadump` | `MCTakeADump.cfg` | safety of the whole program, with what a reported success is worth (`OkMeansExact`), that it uses the drive as `DvdDrive` says (`DriveSpec`), and that it implements `DiscCopy` (`CopySpec`) |
| `takeadump_live` | `MCTakeADumpLive.cfg` | a dump that is begun is over some time (`DumpIsOver`), and each of its steps brings that nearer (`ReportNearer`) |
| `takeadump_whole` | `MCTakeADumpWhole.cfg` | *violation*: "Dump complete", no errors, and half of the disc |
| `redump` | `MCRedump.cfg` | dumps broken off and repeated onto the same files |
| `console` | `MCConsole.cfg` | what is on the screen during a dump: which sectors are missing, and the progress |

**Bounds.**
`dump`: sectors of 2 bytes, parts of 2 sectors, discs of 1, 5 and 9 sectors.  The
real discs hold 0.69, 2.16 and 4.08 chunks (720896, 2260992 and 4282368 sectors,
1048576 to a chunk), so the small ones have as many part changes as the
real ones, and a last part that is not full; a scratch covers up to two sectors in
a row at any place, hence also on both sides of a part change; any number of
transient failures (at most two in a row), write errors, Home and reset at every step.
The proofs need none of these bounds.
`drive`: one disc of each kind (GameCube, Wii with one layer with and without a
scratch where the probe reads, Wii with two layers, DVD-R, a film), of 1 to 4 sectors,
and `MaxSwaps` = 2 uses of the tray, which is one complete change of discs.
`frontend`: nothing is bounded.

`takeadump`: sectors of 1 byte, parts of two sectors; a GameCube disc of 1 sector, a scratched Wii disc of 2, and a
dual-layer one of 3, which needs a second part; two uses of the tray, which exchange the disc once, at any moment;
the buttons A and 1.  The liveness run has the Home button too, and only the dual-layer disc, which has the most steps; the violation the two Wii discs.
`redump`: three dumps, of a disc of half a part, two full parts, or two and a half: a longer one before a shorter,
a shorter before a longer, and one broken off between them.
`console`: discs of one sector and of two and a half parts, a scratch of at most three sectors anywhere (in the first sector,
across a part change, in the last), a debug build, whose extra line per part is the hard case, and a console of five lines, so that messages
do scroll off (with `<=` for `<` in `LatestNamed` the run fails).  The proofs cover the other build and consoles of any size.

Deadlock is not checked: the program returns or exits in `Dump`, `Frontend` and the modules made of them, and in
`DvdDrive` it stops after a failed initialisation (with an idle drive).

**Fairness.**
`Dump!FairSpec`: the thread's own steps go on (`WF(DumpStep)`).  Nothing outside the thread
can block it in this module: every command is answered with success or failure,
and the answer of the user to an error (`Acknowledge`) is not assumed.
`DvdDrive!FairSpec`: the thread goes on, commands are answered, and the request for
the ID, made once a second for ever, succeeds some time while a disc is in the tray (strong
fairness, since a failed try does not disable the next one but a tray may).
No command is assumed to succeed otherwise.
`Frontend!FairSpec`: the waits poll for ever, so a condition that holds again and again
is noticed some time (strong fairness), and the work ends.  What the user does is a
hypothesis of the property (`KeepsPressing`), not fairness.
`TakeADump!FairSpec`: the thread goes on while it dumps (`WF(Dumping)`), and the drive answers each command in some way
(`WF(DriveAnswers)`).  No answer is assumed to be a success, nothing is assumed of the user, and nothing of the rest of the program.

**The findings** are the five violations: the close that is not checked, the layer probe
inside the first layer, the same probe's single try, and two texts on the screen that the code does not keep.

## 4. The proofs

Everything under this heading is proved for all values of the constants, from the
assumptions in the modules: sizes are positive, a chunk and every disc are a whole number
of sectors, a readable sector fails fewer than three times in a row, and the marks
`Zero`, `Junk`, `Old` and `NULL` are distinct from sector numbers (and, but for `Old`,
from one another).

**Dump** (`DumpProofs`).  None of the properties is inductive: `ImageFaithful` speaks
of where a sector is found, and says nothing about where the next block
goes.  `IInv` has two halves.  `Shape(blocks)` is about lengths, counters and streams, whatever a block
is, so that `RedumpProofs` and `TakeADumpProofs`, where sectors are other things, use it as well:
- `Position`: while the loop runs, the open part is the last one, `chunk_offset` is its
  length in bytes, and `lba` is the number of blocks in full parts plus that;
- `Phase`: what `pc` says of `ret`, the buffer, the length of the open part and the open streams;
- `TypeOver`, `CountersAgree` and `CompleteImage` as they are.

The other half is about contents:
- `AllPlaced`: sector *k* < `lba` is block `IndexOf(k)` of part `PartOf(k)`, which this
  dump has started, with the right contents;
- `Held`: in `write` the buffer holds the sector or, if it is unreadable, zeros; in `read`, how often it may have failed;
- `NonePassed`: with stop on read error set, no unreadable sector is in the image.

There is one lemma per action (`OpenPartStep`, `WriteSectorStep`, ...), one step per
conjunct.  Behind them are lemmas on sectors and chunks: `ScaleLess` and `ScaleNext`
compare byte counts as sector counts, `PlaceOf` and `PlaceUnique` show that
`PartOf`/`IndexOf` and `SectorAt` are inverse to each other (the division of `lba` by the
sectors of a chunk), `FullPart` that the part is changed exactly when it is full.
`ErrorsCorrect` needs a second invariant, `Tally`, about the cardinality of the set of
zeroed sectors.  `Implements` is `Spec => Image!Spec`: every step adds one sector
to the abstract image, ends it, or leaves it alone.

`StepsBounded` proves what stands behind `Termination`, which itself is a matter of fairness: `StepsLeft`, seven steps for each
sector that remains, less what was done for the sector under way, decreases with every step.  That it is a natural number, also in the
last sector, is `CountersAgree` (what remains is a whole number of sectors) together with `Phase` (`tries` at its place).

`NeverLonger` bounds the files whichever way the dump ends: `WithinChunk` is not implied by `IInv`, which knows the parts' lengths only while
the dump runs or when it is complete; a failed write or a reset may append a torn block, and does so to a part that `Position` says is not full.

**DvdDrive** (`DriveProofs`), for any set of discs whose sizes are at most those of
`get_disk_size_bytes` for their kind, and any number of uses of the tray.  `DInv` is the
invariants themselves with
- `Command`: a command under way is the one the present place waits for, and while a sector
  is read the registers hold its address in the unit its command takes;
- `Outcome`: until the drive answers, the error bit is clear; afterwards either the bit is set, or the
  sector is in memory; and once the lines were dropped there is none above it;
- `Ready`: once an ID is kept, the drive reads no other disc than that one;
- `Medium`: what the drive's error code, and then `read_cmd`, say of the disc while nobody has used the tray;
- `Known`: the ID that was kept has one of the two magic words.

`WordsOfSector` is the one arithmetic fact, that a sector's address in words, divided by the
words of a sector, is its number.  `KindStep` adds that the kind identified stays, and is one its disc can be taken for.

**Frontend** (`FrontendProofs`).  `FInv` is the type invariant, `Spent` (a press whose time is over, as it or another was acted on, is still down, and the program now waits for
all buttons to be released, or has exited, or came to the prompt for A straight from the menu, where A is tested before the button that was acted on) and `Stage` (what has been achieved by the time `main` gets to a
place).

**TakeADump** (`TakeADumpProofs`).  The components' theorems are not proved again.  A step of the program
is, projected on the variables of a component, a step of it or a stutter (`QuietOfDump`, `StepOfDump` and the lemmas `Same...`, which
carry the definitions from `TakeADump`'s instances to those of the proof modules), so their invariants hold in `SInv`.
`SInv` adds what ties them together: who has control (`drivepc` is where `main` says it is; a read under way is for `lba`), that the
dump's parameters are those of the identified disc, and that each block and the buffer hold `<<globalDiskId, k>>` for their
place, or zeros.  `DriveAsSpecified` is `Spec => D!Spec`; the one step that is not immediate is `ReadBegins`, where
`StartRead` wants a sector below the disc's size: that is `Shape`'s `remaining > 0`.
`FrontendAsSpecified` is the same for `Frontend`.

`CopiesOneDisc` is the theorem to read first, `Spec => CopySpec`.  Each step of the program either identifies the disc, adds one sector to
the copy, reports, or leaves all of `DiscCopy`'s variables alone.  It rests on `Chosen` (once `main` has identified the disc, its kind is one the disc can be taken for, and `main` only goes forward, so that disc, size and
setting stay), `CopyStays` (no step changes a sector already in the parts, not even the
truncation by `OpenPart`), `AddedIsCopy` (the one step that makes the copy longer adds the disc's sector, or zeros if those are allowed, and never one
beyond the size) and `WholeWhenReturned` (0 is returned of a whole image only).
`SuccessIsExact` says what a reported success is worth: `Cardinality(Wrong)`, the places of the copy that do not hold the disc's sector, is the number of
errors shown.  It is not that nothing else of the disc is missing, since the size may be too small (`CompleteMeansWhole` is violated): it says that a sector in `Missing`
which is no place of the copy lies beyond a single layer, and the disc was taken for single-layer (`BeyondCopy`, from `KindFits` and the sizes of discs).
`Tally` is its invariant, with `Lost` for the sector that was given up and not written yet; `LostOrNot` (a read that succeeds put the disc's
own sector in the buffer, by the drive's `Outcome`; one given up put zeros there), `WrongStays`, `WrongAdds` and `NothingLost` carry it through each step.
`ReportInSight` bounds the dump without any fairness: `StepsToReport`, thirteen steps a sector, as each of three reads is a command, the dropping of the lines and an answer,
falls with each step of the dumping thread and does not rise with anyone else's.  Its one hard case is a read's answer, which must
take a try from the loop before the next command is issued.

**Redump** (`RedumpProofs`).  `Shape` holds again, by the same lemmas, as they do not care what a block is.  Added: in each part of
this run all blocks are this run's, in each other one some earlier run's, garbage is last only, and no part
number exceeds what the largest disc so far needs; `StartAgain` re-establishes it from `Found`.

**Console** (`ConsoleProofs`).  `Drawn`, `DrawnKinds` and `DrawnKeeps` say what writing lines at a given row does to the screen.  The invariant
`Place` is where the cursor stands: below the last line, or, only from the start of a pass to its
first message, on it, and that line then is the only progress.  `Window` keeps the cursor, and the line it is to move up to, on
the console.  `Names` says of each unreadable sector passed on which line its message is (`LineOf`), and `Height` on which line the cursor is and how far the console has scrolled, both
as a number of messages and parts (`Used`).  `NamedAsLongAsRoom` subtracts the two: between the message and the cursor there are `LinesBelow(k)` lines and no more (`SkippedBetween`).
`Names` is carried on because no step draws over a line that is not progress.  `Told`, behind `MessagesTrue`, is the converse: each message is of a
sector already passed (or of the one just given up) that cannot be read at all, no two are of the same, and they number `errorCount`.  A new message is of a later sector than all before it,
which is why none is repeated.

**RealSizes.**  `SizesFit` discharges the assumptions of `Dump`; `AddressesFit` derives from the dump's invariant that no
read can fail the range check of `disk.hpp:139` or be cut to the 32 bits of `dvd[3]`.  `FilesFitDrive` applies `NeverLonger`: no file
exceeds 2 GB, which FAT32 takes.  `PartsToJoin` derives from `CompleteImage` that a complete dump is of one part (GameCube), three (one layer) or five (two).

Model-checked only: the liveness properties (`Termination`, `InitEnds`, `PauseEnds`, `DumpIsOver`) and
`ImageSpec`'s fairness part, which are out of the prover's reach.  Every other property of a
passing run is proved.

## 5. Not modelled

- The vendored part of the repository: `bin/devkitPPC`, `include/` and `lib/` are a compiler with its headers and
  the headers and binaries of libogc, libfat and wiiuse.  They are over 99% of the repository's lines and none of them is this program; what
  `source/` relies on (the drive, IOS, `fclose`, the console, the FAT file system) is stated as external definitions.
- Text: wording, percentages, the elapsed time (with mismatched formats, `disk.cpp:108`
  and `main.cpp:160`), lines too long for the console, and what `main` and the menu print besides the settings.
- File names.  A part is its number.  The real name takes in more than the game code
  (`gameCode` is not terminated), which two discs may share; and it is relative, while the drive is mounted as `target`.
- Which bytes of an unclosed file survive a loss of power: such a part is gone or damaged.
- How long a step takes: busy waits are waits, without the time they take.
- A record of the unreadable sectors: the program keeps none.  The messages older than a screenful are lost (`LatestNamed` says when), and the user is left with their number.
- A disc whose ID can never be read: the loop of `disk.hpp:126` has no end then, and `InitEnds` assumes it away.
- Video, the Bluetooth stack, libfat's inside, the toolchain.
- The unused `reset_callback_2`, `MAX_READ_SIZE`, `dumpCounter`, `gameName`, `internalName`.

## 6. State of the plan

Done: the dump and its abstract specification, drive access and the front end; their composition; repeated dumps with losses of
power; the console; the real sizes.  Each is checked and, but for liveness, proved.

Left, should the code grow: the file names, once the program makes them unique; a time limit for the busy waits, once it has
one; the retries of the layer probe, which would turn `CompleteMeansWhole` into a property about persistent scratches.
