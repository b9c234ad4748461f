--------------------------- MODULE ConsoleProofs ---------------------------
(* Proofs about Console, for every disc, drive and build: what is printed    *)
(* always starts on the last line or below it, and on the last line only if  *)
(* that is the progress.                                                     *)
EXTENDS Console, DumpProofs, SequenceTheorems

\* What is drawn: some lines, from the last line or the one below it on.
LEMMA Drawn ==
  ASSUME screen \in Seq(Lines), NEW lines \in Seq(Lines), lines # << >>,
         NEW at \in Nat \ {0}, at = Len(screen) \/ at = Len(screen) + 1, Put(at, lines)
  PROVE  /\ screen' \in Seq(Lines)
         /\ Len(screen') = at + Len(lines) - 1
         /\ row' = Len(screen') + 1
         /\ \A r \in 1 .. at - 1 : screen'[r] = screen[r]
         /\ \A i \in 1 .. Len(lines) : screen'[at + i - 1] = lines[i]
<1>1. PICK old \in Nat : old = Len(screen)
  BY LenProperties
<1>2. PICK n \in Nat : n = Len(lines)
  BY LenProperties
<1>3. DOMAIN screen = 1 .. old /\ \A r \in 1 .. old : screen[r] \in Lines
  BY <1>1, LenProperties
<1>4. n # 0 /\ \A i \in 1 .. n : lines[i] \in Lines
  BY <1>2, LenProperties, EmptySeq
<1>5. PICK end \in Nat : end = at + n - 1
  BY <1>4
<1>6. at = old \/ at = old + 1
  BY <1>1
<1>7. end >= old /\ end >= at /\ at + n = end + 1
  BY <1>4, <1>5, <1>6
<1>8. screen' = [r \in 1 .. end |->
                   IF r \in at .. end THEN lines[r - at + 1]
                   ELSE IF r \in DOMAIN screen THEN screen[r] ELSE Text("")]
  <2>1. (IF old >= end THEN old ELSE end) = end
    BY <1>7
  <2> QED
    BY <1>1, <1>2, <1>5, <2>1 DEF Put, Over
<1>9. row' = end + 1
  BY <1>2, <1>7 DEF Put
<1>10. \A r \in 1 .. at - 1 : r \in 1 .. end /\ r \notin at .. end /\ r \in 1 .. old
  BY <1>6, <1>7
<1>11. \A r \in at .. end : r - at + 1 \in 1 .. n /\ r \in 1 .. end
  BY <1>5
<1>12. \A i \in 1 .. n : at + i - 1 \in at .. end /\ (at + i - 1) - at + 1 = i
  BY <1>5
<1>13. \A r \in 1 .. end : r \in 1 .. at - 1 \/ r \in at .. end
  BY <1>7
<1>14. \A r \in 1 .. at - 1 : screen'[r] = screen[r]
  BY <1>3, <1>8, <1>10
<1>15. \A r \in at .. end : screen'[r] = lines[r - at + 1]
  BY <1>8, <1>11
<1>16. \A i \in 1 .. n : screen'[at + i - 1] = lines[i]
  BY <1>12, <1>15
<1>17. \A r \in 1 .. end : screen'[r] \in Lines
  BY <1>3, <1>4, <1>10, <1>11, <1>13, <1>14, <1>15
<1>18. screen' \in Seq(Lines)
  <2>1. screen' \in [1 .. end -> Lines]
    BY <1>8, <1>17
  <2> QED
    BY <2>1, SeqDef
<1>19. Len(screen') = end
  <2>1. Len(screen') \in Nat /\ DOMAIN screen' = 1 .. Len(screen')
    BY <1>18, LenProperties
  <2>2. PICK k \in Nat : k = Len(screen')
    BY <2>1
  <2>3. 1 .. k = 1 .. end
    BY <1>8, <2>1, <2>2
  <2>4. \A i \in Nat \ {0} : i <= k <=> i <= end
    BY <2>3
  <2>5. k = end
    BY <2>4
  <2> QED
    BY <2>2, <2>5
<1> QED
  BY <1>2, <1>5, <1>9, <1>14, <1>16, <1>18, <1>19

LEMMA NothingDrawn ==
  ASSUME screen \in Seq(Lines), NEW at \in Nat \ {0}, at = Len(screen), Put(at, << >>)
  PROVE  screen' = screen /\ row' = at
<1>1. screen \in [1 .. at -> Lines] /\ Len(<< >>) = 0
  BY LenProperties, EmptySeq
<1>2. screen' = [r \in 1 .. at |->
                   IF r \in at .. at - 1 THEN << >>[r - at + 1]
                   ELSE IF r \in DOMAIN screen THEN screen[r] ELSE Text("")]
  <2>1. /\ at + Len(<< >>) - 1 = at - 1
        /\ (IF Len(screen) >= at - 1 THEN Len(screen) ELSE at - 1) = at
    BY <1>1
  <2> QED
    BY <2>1 DEF Put, Over
<1>3. at .. at - 1 = {}
  OBVIOUS
<1>4. screen' = [r \in 1 .. at |-> screen[r]]
  BY <1>1, <1>2, <1>3
<1>5. row' = at
  BY <1>1 DEF Put
<1> QED
  BY <1>1, <1>4, <1>5

\* No line but one of progress has changed.
Kept == \A r \in DOMAIN screen :
  r \in DOMAIN screen' /\ (screen'[r] # screen[r] => screen[r].kind = "progress")

\* What the lines of a kind are then.
LEMMA DrawnKinds ==
  ASSUME screen \in Seq(Lines), NEW lines \in Seq(Lines), lines # << >>,
         NEW at \in Nat \ {0}, at = Len(screen) \/ at = Len(screen) + 1, Put(at, lines),
         NEW kind
  PROVE  \A r : r \in OfKind(kind)' <=>
           \/ r \in 1 .. at - 1 /\ screen[r].kind = kind
           \/ r \in at .. at + Len(lines) - 1 /\ lines[r - at + 1].kind = kind
<1>1. PICK n \in Nat : n = Len(lines)
  BY LenProperties
<1>2. /\ screen' \in Seq(Lines) /\ Len(screen') = at + n - 1
      /\ \A r \in 1 .. at - 1 : screen'[r] = screen[r]
      /\ \A i \in 1 .. n : screen'[at + i - 1] = lines[i]
  BY <1>1, Drawn
<1>3. n # 0
  BY <1>1, EmptySeq
<1>4. DOMAIN screen' = 1 .. at + n - 1
  BY <1>2, LenProperties
<1>5. \A r : r \in 1 .. at + n - 1 <=> r \in 1 .. at - 1 \/ r \in at .. at + n - 1
  BY <1>3
<1>6. \A r \in at .. at + n - 1 : r - at + 1 \in 1 .. n /\ at + (r - at + 1) - 1 = r
  OBVIOUS
<1>7. \A r \in at .. at + n - 1 : screen'[r] = lines[r - at + 1]
  <2>1. TAKE r \in at .. at + n - 1
  <2>2. r - at + 1 \in 1 .. n /\ at + (r - at + 1) - 1 = r
    BY <1>6
  <2>3. screen'[at + (r - at + 1) - 1] = lines[r - at + 1]
    BY <1>2, <2>2
  <2> QED
    BY <2>2, <2>3
<1>8. \A r : r \in 1 .. at - 1 => r \notin at .. at + n - 1
  OBVIOUS
<1> QED
  BY <1>1, <1>2, <1>4, <1>5, <1>7, <1>8 DEF OfKind

LEMMA DrawnKeeps ==
  ASSUME screen \in Seq(Lines), NEW lines \in Seq(Lines), lines # << >>,
         NEW at \in Nat \ {0}, Put(at, lines),
         (at = Len(screen) /\ screen[at].kind = "progress") \/ at = Len(screen) + 1
  PROVE  Kept
<1>1. PICK n \in Nat : n = Len(lines)
  BY LenProperties
<1>2. /\ screen' \in Seq(Lines) /\ Len(screen') = at + n - 1
      /\ \A r \in 1 .. at - 1 : screen'[r] = screen[r]
  BY <1>1, Drawn
<1>3. n # 0
  BY <1>1, EmptySeq
<1>4. PICK old \in Nat : old = Len(screen) /\ DOMAIN screen = 1 .. old
  BY LenProperties
<1>5. DOMAIN screen' = 1 .. at + n - 1
  BY <1>2, LenProperties
<1>6. \A r \in 1 .. old : r \in 1 .. at + n - 1
                         /\ (r \in 1 .. at - 1 \/ (r = at /\ screen[at].kind = "progress"))
  BY <1>3, <1>4
<1> QED
  BY <1>2, <1>4, <1>5, <1>6 DEF Kept

-----------------------------------------------------------------------------
(* The inductive invariant.                                                  *)

ScreenType == screen \in Seq(Lines) /\ row \in Nat \ {0} /\ verboseCount \in Nat

\* The cursor is below the last line, or on it, if that is the progress, and
\* only between two sectors is there a line of progress above it.
Fresh == row = Len(screen) + 1

Place ==
  /\ pc = "alloc" => Fresh /\ OfKind("progress") = {} /\ errorCount = 0
  /\ pc \in {"poll", "loop"} =>
       /\ Fresh /\ OfKind("progress") = {row - 1}
       /\ screen[row - 1] = Progress(offset, errorCount)
  /\ pc \in {"read", "write"} =>
       \/ Fresh /\ OfKind("progress") = {}
       \/ row = Len(screen) /\ OfKind("progress") = {row}
  /\ pc = "error" => Fresh
  /\ row <= Len(screen) + 1

\* The cursor is on the console, and between two sectors so is the line above.
Window ==
  /\ top \in Int /\ top <= row /\ row <= top + ROWS - 1
  /\ pc \in {"poll", "loop"} => top <= row - 1

\* How many lines the dump has used up by now: a line for each unreadable sector it
\* has passed and, in a debug build, one for each part.
Used == Cardinality(Skipped(lba)) + (IF DEBUG THEN chunk_index - 1 ELSE 0)

\* The cursor is right below these lines, and the console has scrolled no further
\* than they made it.
Height ==
  /\ pc = "alloc" => row = 2 /\ top <= 1
  /\ pc \in {"poll", "loop"} => row = Used + 4
  /\ pc \in {"read", "write"} =>
       row = Used + (IF pc = "write" /\ lba \in scratched THEN 4 ELSE 3)
  /\ Running => top <= 1 \/ top + ROWS <= Used + 5
  /\ Complete => top <= 1 \/ top + ROWS <= Used + 6

\* The line with the message of sector k.
LineOf(k) == Cardinality(Skipped(k + 1)) + (IF DEBUG THEN PartOf(k) ELSE 0) + 2

Named(k) ==
  LineOf(k) \in OfKind("unread") /\ screen[LineOf(k)].at = k * SECTOR_SIZE

Names ==
  /\ \A k \in 0 .. lba - 1 : k \in scratched => Named(k)
  /\ pc = "write" /\ lba \in scratched => Named(lba)

CIInv == IInv /\ ScreenType /\ Place /\ Window /\ Height /\ Names

LEMMA LineTypes ==
  ASSUME NEW m \in Nat, NEW n \in Nat, NEW words \in Texts
  PROVE  /\ Text(words) \in Lines /\ Text(words).kind = "text"
         /\ Progress(m, n) \in Lines /\ Progress(m, n).kind = "progress"
         /\ Unread(m) \in Lines /\ Unread(m).kind = "unread" /\ Unread(m).at = m
BY DEF Text, Progress, Unread, Lines

LEMMA InitCIInv == CInit => CIInv
<1> SUFFICES ASSUME CInit PROVE CIInv
  OBVIOUS
<1>1. IInv
  BY InitIInv DEF CInit
<1>2. PICK line \in Lines : line.kind = "text" /\ screen = <<line>>
  <2>1. "Press Home or Reset to exit." \in Texts
    BY DEF Texts
  <2>2. Text("Press Home or Reset to exit.") \in Lines
        /\ Text("Press Home or Reset to exit.").kind = "text"
    BY <2>1, LineTypes
  <2> QED
    BY <2>2 DEF CInit
<1>3. screen \in Seq(Lines) /\ Len(screen) = 1 /\ screen[1].kind = "text"
  BY <1>2
<1>6. row = 2 /\ verboseCount = 0
  BY DEF CInit
<1>4. OfKind("progress") = {}
  <2>1. DOMAIN screen = {1}
    BY <1>3, LenProperties
  <2> QED
    BY <1>3, <2>1 DEF OfKind
<1>5. Place
  <2>1. pc = "alloc" /\ errorCount = 0
    BY DEF CInit, Init
  <2> QED
    BY <1>3, <1>4, <1>6, <2>1 DEF Place, Fresh
<1>7. Names
  <2>1. pc = "alloc" /\ lba = 0
    BY DEF CInit, Init
  <2> QED
    BY <2>1 DEF Names
<1>8. ScreenType
  BY <1>3, <1>6 DEF ScreenType
<1>9. Window /\ Height
  <2>1. pc = "alloc" /\ lba = 0 /\ chunk_index = 1 /\ result = NULL
    BY DEF CInit, Init
  <2>2. top \in 3 - ROWS .. 1
    BY DEF CInit
  <2>3. Skipped(0) = {}
    BY DEF Skipped
  <2>4. Used = 0
    BY <2>1, <2>3, FS_EmptySet DEF Used
  <2>5. ~Complete
    BY <2>1, MarksAssumption DEF Complete
  <2> QED
    BY <1>6, <2>1, <2>2, <2>4, <2>5, RowsAssumption DEF Window, Height
<1> QED
  BY <1>1, <1>5, <1>7, <1>8, <1>9 DEF CIInv

-----------------------------------------------------------------------------
(* The steps.                                                                *)

Active == pc \in {"alloc", "loop", "read", "write", "poll", "error"}

LEMMA CursorPlace ==
  ASSUME CIInv, Active
  PROVE  /\ row \in Nat \ {0} /\ screen \in Seq(Lines)
         /\ \/ row = Len(screen) /\ screen[row].kind = "progress"
            \/ row = Len(screen) + 1
BY DEF CIInv, ScreenType, Place, Fresh, Active, OfKind

\* Lines are printed where the cursor is.
LEMMA Printed ==
  ASSUME CIInv, Active, NEW lines \in Seq(Lines), lines # << >>, Put(row, lines)
  PROVE  /\ Kept /\ screen' \in Seq(Lines) /\ row' = Len(screen') + 1
         /\ Len(screen') = row + Len(lines) - 1
         /\ row' \in Nat \ {0}
<1>1. Kept /\ screen' \in Seq(Lines) /\ row' = Len(screen') + 1
      /\ Len(screen') = row + Len(lines) - 1
  BY CursorPlace, Drawn, DrawnKeeps
<1>2. Len(screen') \in Nat
  BY <1>1, LenProperties
<1> QED
  BY <1>1, <1>2

\* A single line of text.
LEMMA OneLine ==
  ASSUME NEW line \in Lines
  PROVE  /\ <<line>> \in Seq(Lines) /\ <<line>> # << >> /\ Len(<<line>>) = 1
         /\ <<line>>[1] = line
OBVIOUS

LEMMA TextLine ==
  ASSUME CIInv, Active, NEW words \in Texts, print(row, <<Text(words)>>)
  PROVE  Kept /\ ScreenType' /\ row' = Len(screen') + 1
<1>1. PICK line \in Lines : line = Text(words)
  BY LineTypes
<1>2. <<line>> \in Seq(Lines) /\ <<line>> # << >> /\ Put(row, <<line>>)
  BY <1>1, OneLine DEF print
<1>3. Kept /\ screen' \in Seq(Lines) /\ row' = Len(screen') + 1 /\ row' \in Nat \ {0}
  BY <1>2, Printed
<1>4. verboseCount' \in Nat
  BY DEF CIInv, ScreenType, print
<1> QED
  BY <1>3, <1>4 DEF ScreenType

\* What a step does to the screen, whatever it does.
Drawing == Kept /\ ScreenType' /\ Place'

LEMMA StopStep ==
  ASSUME CIInv,
         CAllocateFails \/ CWriteSectorFails \/ CPoll(TRUE) \/ CFinish \/ CAcknowledge
  PROVE  Drawing
<1>1. Active /\ pc' \in {"returned", "exited"}
  BY DEF CAllocateFails, CWriteSectorFails, CPoll, CFinish, CAcknowledge, AllocateFails,
         WriteSectorFails, Poll, Finish, Acknowledge, Return, Exit, Active
<1>2. \E words \in Texts : print(row, <<Text(words)>>)
  BY DEF CAllocateFails, CWriteSectorFails, CPoll, CFinish, CAcknowledge, Exiting, Texts
<1>3. Kept /\ ScreenType' /\ row' = Len(screen') + 1
  BY <1>1, <1>2, TextLine
<1>4. row' <= Len(screen') + 1
  <2>1. row' \in Nat
    BY <1>3 DEF ScreenType
  <2> QED
    BY <1>3, <2>1
<1> QED
  BY <1>1, <1>3, <1>4 DEF Drawing, Place

LEMMA ResetStep ==
  ASSUME CIInv, CReset
  PROVE  Drawing
<1>1. Active /\ pc' = "exited"
  BY DEF CReset, Reset, Exit, CIInv, IInv, Shape, TypeOver, Running, Stopped, Active
<1>2. Text("Received reset callback") \in Lines /\ Exiting \in Lines
  <2>1. "Received reset callback" \in Texts /\ "Exiting with code" \in Texts
    BY DEF Texts
  <2> QED
    BY <2>1, LineTypes DEF Exiting
<1>3. verboseCount' \in Nat
  <2>1. verboseCount \in Nat
    BY DEF CIInv, ScreenType
  <2>2. verboseCount' = verboseCount \/ verboseCount' = verboseCount + 1
    BY DEF CReset, verbose, print
  <2> QED
    BY <2>1, <2>2
<1>4. PICK lines \in Seq(Lines) : lines # << >> /\ Put(row, lines)
  <2>1. PICK a \in Lines, b \in Lines : a = Text("Received reset callback") /\ b = Exiting
    BY <1>2
  <2>2. <<a>> \in Seq(Lines) /\ <<b>> \in Seq(Lines) /\ Len(<<a>>) = 1 /\ Len(<<b>>) = 1
    OBVIOUS
  <2>3. <<a>> \o <<b>> \in Seq(Lines) /\ Len(<<a>> \o <<b>>) = 2
    BY <2>2, ConcatProperties
  <2>4. <<a>> \o <<b>> # << >> /\ <<b>> # << >>
    BY <2>2, <2>3, EmptySeq
  <2>5. Put(row, <<a>> \o <<b>>) \/ Put(row, <<b>>)
    BY <2>1 DEF CReset, verbose, print
  <2> QED
    BY <2>2, <2>3, <2>4, <2>5
<1>5. Kept /\ screen' \in Seq(Lines) /\ row' = Len(screen') + 1 /\ row' \in Nat \ {0}
  BY <1>1, <1>4, Printed
<1>6. row' <= Len(screen') + 1
  BY <1>5
<1> QED
  BY <1>1, <1>3, <1>5, <1>6 DEF Drawing, ScreenType, Place

LEMMA AllocateStep ==
  ASSUME CIInv, CAllocate
  PROVE  Drawing
<1>1. /\ pc = "alloc" /\ pc' = "loop" /\ Active
      /\ UNCHANGED <<offset, errorCount>> /\ errorCount = 0
  BY DEF CAllocate, Allocate, counters, Active, CIInv, Place
<1>2. offset = 0
  <2>1. lba = 0 /\ offset = lba * SECTOR_SIZE
    BY <1>1 DEF CIInv, IInv, Shape, Phase, Position, Running, CountersAgree
  <2> QED
    BY <2>1, SizesAssumption
<1>3. /\ Text("Taking a dump...") \in Lines /\ Text("Taking a dump...").kind = "text"
      /\ Progress(0, 0) \in Lines /\ Progress(0, 0).kind = "progress"
  <2>1. "Taking a dump..." \in Texts /\ 0 \in Nat
    BY DEF Texts
  <2> QED
    BY <2>1, LineTypes
<1>4. PICK lines \in Seq(Lines) :
        /\ lines # << >> /\ Len(lines) = 2 /\ Put(row, lines)
        /\ lines[1].kind = "text" /\ lines[2] = Progress(0, 0) /\ lines[2].kind = "progress"
  <2>1. PICK a \in Lines, b \in Lines : a = Text("Taking a dump...") /\ b = Progress(0, 0)
    BY <1>3
  <2>2. /\ <<a, b>> \in Seq(Lines) /\ <<a, b>> # << >> /\ Len(<<a, b>>) = 2
        /\ <<a, b>>[1] = a /\ <<a, b>>[2] = b
    OBVIOUS
  <2>3. Put(row, <<a, b>>)
    BY <2>1 DEF CAllocate, print
  <2> QED
    BY <1>3, <2>1, <2>2, <2>3
<1>5. UNCHANGED verboseCount
  BY DEF CAllocate, print
<1>6. /\ row = Len(screen) + 1 /\ row \in Nat \ {0} /\ OfKind("progress") = {}
      /\ screen \in Seq(Lines)
  BY <1>1 DEF CIInv, Place, Fresh, ScreenType
<1>7. /\ Kept /\ screen' \in Seq(Lines) /\ row' = Len(screen') + 1 /\ row' \in Nat \ {0}
      /\ Len(screen') = row + Len(lines) - 1
  BY <1>1, <1>4, Printed
<1>8. /\ \A r : r \in OfKind("progress")' <=>
           \/ r \in 1 .. row - 1 /\ screen[r].kind = "progress"
           \/ r \in row .. row + Len(lines) - 1 /\ lines[r - row + 1].kind = "progress"
      /\ \A i \in 1 .. Len(lines) : screen'[row + i - 1] = lines[i]
  <2>1. PICK at \in Nat \ {0} : at = row
    BY <1>6
  <2>2. /\ at = Len(screen) + 1 /\ screen \in Seq(Lines) /\ lines # << >> /\ Put(at, lines)
    BY <1>4, <1>6, <2>1
  <2>3. \A r : r \in OfKind("progress")' <=>
           \/ r \in 1 .. at - 1 /\ screen[r].kind = "progress"
           \/ r \in at .. at + Len(lines) - 1 /\ lines[r - at + 1].kind = "progress"
    BY <2>2, DrawnKinds
  <2>4. \A i \in 1 .. Len(lines) : screen'[at + i - 1] = lines[i]
    BY <2>2, Drawn
  <2> QED
    BY <2>1, <2>3, <2>4
<1>9. OfKind("progress")' = {row + 1}
  <2>1. \A r \in 1 .. row - 1 : screen[r].kind # "progress"
    <3>1. DOMAIN screen = 1 .. row - 1
      BY <1>6, LenProperties
    <3> QED
      BY <1>6, <3>1 DEF OfKind
  <2>2. \A r : r \in row .. row + Len(lines) - 1 <=> r = row \/ r = row + 1
    BY <1>4, <1>6
  <2>3. row - row + 1 = 1 /\ row + 1 - row + 1 = 2
    BY <1>6
  <2>4. lines[row - row + 1].kind # "progress" /\ lines[row + 1 - row + 1].kind = "progress"
    BY <1>4, <2>3
  <2>5. \A r : r \in OfKind("progress")' <=> r = row + 1
    <3>1. TAKE r
    <3>2. r \in OfKind("progress")' <=>
            (r = row \/ r = row + 1) /\ lines[r - row + 1].kind = "progress"
      BY <1>8, <2>1, <2>2
    <3>3. CASE r = row
      BY <1>6, <2>4, <3>2, <3>3
    <3>4. CASE r = row + 1
      BY <1>6, <2>4, <3>2, <3>4
    <3> QED
      BY <3>2, <3>3, <3>4
  <2> QED
    BY <2>5
<1>10. screen'[row + 1] = Progress(0, 0)
  <2>1. row + 2 - 1 = row + 1 /\ 2 \in 1 .. Len(lines)
    BY <1>4, <1>6
  <2>2. screen'[row + 2 - 1] = lines[2]
    BY <1>8, <2>1
  <2> QED
    BY <1>4, <2>1, <2>2
<1>11. row' - 1 = row + 1 /\ row' <= Len(screen') + 1
  BY <1>4, <1>6, <1>7
<1> QED
  BY <1>1, <1>2, <1>5, <1>7, <1>9, <1>10, <1>11
  DEF Drawing, Place, Fresh, ScreenType, CIInv

\* A line of its own, above which there is no progress.
LEMMA LineDrawn ==
  ASSUME screen \in Seq(Lines), NEW line \in Lines,
         NEW at \in Nat \ {0}, at = Len(screen) \/ at = Len(screen) + 1, Put(at, <<line>>)
  PROVE  /\ screen' \in Seq(Lines) /\ Len(screen') = at /\ row' = at + 1
         /\ screen'[at] = line
         /\ (\A r \in 1 .. at - 1 : screen[r].kind # "progress") =>
              OfKind("progress")' = IF line.kind = "progress" THEN {at} ELSE {}
<1>1. PICK lines \in Seq(Lines) :
        lines = <<line>> /\ lines # << >> /\ Len(lines) = 1 /\ lines[1] = line
  BY OneLine
<1>2. Put(at, lines)
  BY <1>1
<1>3. /\ screen' \in Seq(Lines) /\ Len(screen') = at + Len(lines) - 1 /\ row' = Len(screen') + 1
      /\ \A i \in 1 .. Len(lines) : screen'[at + i - 1] = lines[i]
  BY <1>1, <1>2, Drawn
<1>4. Len(screen') = at /\ row' = at + 1
  BY <1>1, <1>3
<1>5. screen'[at] = line
  <2>1. 1 \in 1 .. Len(lines) /\ at + 1 - 1 = at
    BY <1>1
  <2>2. screen'[at + 1 - 1] = lines[1]
    BY <1>3, <2>1
  <2> QED
    BY <1>1, <2>1, <2>2
<1>6. \A r : r \in OfKind("progress")' <=>
        \/ r \in 1 .. at - 1 /\ screen[r].kind = "progress"
        \/ r = at /\ line.kind = "progress"
  <2>1. \A r : r \in OfKind("progress")' <=>
          \/ r \in 1 .. at - 1 /\ screen[r].kind = "progress"
          \/ r \in at .. at + Len(lines) - 1 /\ lines[r - at + 1].kind = "progress"
    <3>1. lines # << >> /\ screen \in Seq(Lines) /\ Put(at, lines)
      BY <1>1, <1>2
    <3>2. CASE at = Len(screen)
      BY <3>1, <3>2, DrawnKinds
    <3>3. CASE at = Len(screen) + 1
      BY <3>1, <3>3, DrawnKinds
    <3> QED
      BY <3>2, <3>3
  <2>2. \A r : r \in at .. at + Len(lines) - 1 <=> r = at
    BY <1>1
  <2>3. at - at + 1 = 1
    OBVIOUS
  <2>4. lines[at - at + 1].kind = line.kind
    BY <1>1, <2>3
  <2>5. ASSUME NEW r
        PROVE  r \in OfKind("progress")' <=>
                 \/ r \in 1 .. at - 1 /\ screen[r].kind = "progress"
                 \/ r = at /\ line.kind = "progress"
    <3>1. r \in at .. at + Len(lines) - 1 => r = at
      BY <2>2
    <3>2. at \in at .. at + Len(lines) - 1
      BY <2>2
    <3>3. CASE r = at
      BY <2>1, <2>4, <3>2, <3>3
    <3>4. CASE r # at
      BY <2>1, <3>1, <3>4
    <3> QED
      BY <3>3, <3>4
  <2> QED
    BY <2>5
<1> QED
  BY <1>3, <1>4, <1>5, <1>6

LEMMA NoneAbove ==
  ASSUME CIInv, pc \in {"read", "write"}
  PROVE  \A r \in 1 .. row - 1 : screen[r].kind # "progress"
<1>1. \/ row = Len(screen) + 1 /\ OfKind("progress") = {}
      \/ row = Len(screen) /\ OfKind("progress") = {row}
  BY DEF CIInv, Place, Fresh
<1>2. PICK old \in Nat : old = Len(screen) /\ DOMAIN screen = 1 .. old
  BY LenProperties DEF CIInv, ScreenType
<1>3. \A r \in 1 .. row - 1 : r \in 1 .. old /\ r # row
  BY <1>1, <1>2
<1> QED
  BY <1>1, <1>2, <1>3 DEF OfKind

LEMMA WriteStep ==
  ASSUME CIInv, CWriteSector
  PROVE  Drawing
<1>1. /\ pc = "write" /\ pc' = "poll" /\ Active /\ UNCHANGED errorCount
      /\ WriteSector
  BY DEF CWriteSector, WriteSector, Active
<1>2. offset' \in Nat /\ errorCount \in Nat
  <2>1. offset' = offset + ReadSize /\ offset \in Nat /\ errorCount \in Nat
    <3>1. offset' = offset + ReadSize
      BY <1>1 DEF WriteSector, Advance
    <3>2. offset \in Nat /\ errorCount \in Nat
      BY DEF CIInv, IInv, Shape, TypeOver
    <3> QED
      BY <3>1, <3>2
  <2>2. ReadSize = SECTOR_SIZE
    BY <1>1, WholeSector DEF CIInv, IInv, Shape, Phase
  <2> QED
    BY <2>1, <2>2, SizesAssumption
<1>3. PICK line \in Lines : line = Progress(offset', errorCount) /\ line.kind = "progress"
  <2>1. PICK m \in Nat, n \in Nat : m = offset' /\ n = errorCount
    BY <1>2
  <2>2. Progress(m, n) \in Lines /\ Progress(m, n).kind = "progress"
    BY DEF Progress, Lines
  <2> QED
    BY <2>1, <2>2
<1>4. Put(row, <<line>>) /\ UNCHANGED verboseCount
  BY <1>3 DEF CWriteSector, print
<1>5. PICK at \in Nat \ {0} : at = row
  BY <1>1, CursorPlace
<1>6. screen \in Seq(Lines) /\ (at = Len(screen) \/ at = Len(screen) + 1) /\ Put(at, <<line>>)
  BY <1>1, <1>4, <1>5, CursorPlace
<1>7. Kept
  BY <1>1, <1>4, OneLine, Printed
<1>8. /\ screen' \in Seq(Lines) /\ Len(screen') = at /\ row' = at + 1 /\ screen'[at] = line
      /\ OfKind("progress")' = {at}
  BY <1>1, <1>3, <1>5, <1>6, LineDrawn, NoneAbove
<1>9. row' \in Nat \ {0} /\ row' - 1 = at /\ row' <= Len(screen') + 1
  BY <1>8
<1>10. screen'[row' - 1] = Progress(offset', errorCount')
  BY <1>1, <1>3, <1>8, <1>9
<1>11. ScreenType'
  BY <1>4, <1>8, <1>9 DEF ScreenType, CIInv
<1> QED
  BY <1>1, <1>7, <1>8, <1>9, <1>10, <1>11 DEF Drawing, Place, Fresh

\* A read that fails for good puts its message in the progress's place.
LEMMA GiveUpDraws ==
  ASSUME CIInv, CGiveUp
  PROVE  /\ Drawing
         /\ row \in OfKind("unread")' /\ screen'[row].at = lba * SECTOR_SIZE
<1>1. /\ pc = "read" /\ Active /\ UNCHANGED <<lba, offset>>
      /\ pc' = IF cancelOnError THEN "error" ELSE "write"
  BY DEF CGiveUp, GiveUp, StopOrSkip, counters, Active
<1>2. offset \in Nat /\ offset = lba * SECTOR_SIZE
  BY DEF CIInv, IInv, Shape, TypeOver, CountersAgree
<1>3. ReadError \in Lines /\ ReadError.kind = "unread" /\ ReadError.at = offset
  <2>1. PICK m \in Nat : m = offset
    BY <1>2
  <2>2. Unread(m) \in Lines /\ Unread(m).kind = "unread" /\ Unread(m).at = m
    BY DEF Unread, Lines
  <2> QED
    BY <2>1, <2>2 DEF ReadError
<1>4. PICK at \in Nat \ {0} : at = row
  BY <1>1, CursorPlace
<1>5. screen \in Seq(Lines) /\ (at = Len(screen) \/ at = Len(screen) + 1)
  BY <1>1, <1>4, CursorPlace
<1>6. \A r \in 1 .. at - 1 : screen[r].kind # "progress"
  BY <1>1, <1>4, NoneAbove
<1>7. UNCHANGED verboseCount
  BY DEF CGiveUp, print
<1>8. CASE ~cancelOnError
  <2>1. Put(at, <<ReadError>>)
    <3>1. PICK line \in Lines : line = ReadError
      BY <1>3
    <3>2. <<line>> \o << >> = <<line>>
      BY OneLine, ConcatEmptySeq
    <3> QED
      BY <1>4, <1>8, <3>1, <3>2 DEF CGiveUp, print
  <2>2. PICK line \in Lines : line = ReadError
    BY <1>3
  <2>3. /\ screen' \in Seq(Lines) /\ Len(screen') = at /\ row' = at + 1 /\ screen'[at] = line
        /\ OfKind("progress")' = {}
    <3>1. line.kind # "progress" /\ Put(at, <<line>>)
      BY <1>3, <2>1, <2>2
    <3> QED
      BY <1>5, <1>6, <3>1, LineDrawn
  <2>4. Kept
    BY <1>1, <1>4, <2>1, <2>2, OneLine, Printed
  <2>5. row' \in Nat \ {0} /\ row' <= Len(screen') + 1 /\ row' = Len(screen') + 1
    BY <2>3
  <2>6. ScreenType'
    BY <1>7, <2>3, <2>5 DEF ScreenType, CIInv
  <2>7. row \in OfKind("unread")' /\ screen'[row].at = lba * SECTOR_SIZE
    <3>1. DOMAIN screen' = 1 .. at
      BY <2>3, LenProperties
    <3>2. at \in OfKind("unread")' /\ screen'[at].at = offset
      BY <1>3, <2>2, <2>3, <3>1 DEF OfKind
    <3> QED
      BY <1>1, <1>2, <1>4, <3>2
  <2> QED
    BY <1>1, <1>8, <2>3, <2>4, <2>5, <2>6, <2>7 DEF Drawing, Place, Fresh
<1>9. CASE cancelOnError
  <2>1. /\ Text("ERR") \in Lines /\ Text("Press A to exit.") \in Lines
    <3>1. "ERR" \in Texts /\ "Press A to exit." \in Texts
      BY DEF Texts
    <3> QED
      BY <3>1, LineTypes
  <2>2. PICK lines \in Seq(Lines) :
          lines # << >> /\ Len(lines) = 3 /\ lines[1] = ReadError /\ Put(row, lines)
    <3>1. PICK a \in Lines, b \in Lines, c \in Lines :
            a = ReadError /\ b = Text("ERR") /\ c = Text("Press A to exit.")
      BY <1>3, <2>1
    <3>2. /\ <<a>> \in Seq(Lines) /\ <<b, c>> \in Seq(Lines) /\ Len(<<a>>) = 1 /\ Len(<<b, c>>) = 2
          /\ <<a>>[1] = a
      OBVIOUS
    <3>3. PICK lines \in Seq(Lines) : lines = <<a>> \o <<b, c>> /\ Len(lines) = 3 /\ lines[1] = a
      <4>1. <<a>> \o <<b, c>> \in Seq(Lines)
            /\ Len(<<a>> \o <<b, c>>) = Len(<<a>>) + Len(<<b, c>>)
        BY <3>2, ConcatProperties
      <4>2. \A i \in 1 .. Len(<<a>>) + Len(<<b, c>>) :
              (<<a>> \o <<b, c>>)[i] = IF i <= Len(<<a>>) THEN <<a>>[i] ELSE <<b, c>>[i - Len(<<a>>)]
        BY <3>2, ConcatProperties
      <4>3. 1 \in 1 .. Len(<<a>>) + Len(<<b, c>>) /\ 1 <= Len(<<a>>)
        BY <3>2
      <4>4. (<<a>> \o <<b, c>>)[1] = <<a>>[1]
        BY <4>2, <4>3
      <4>5. PICK lines \in Seq(Lines) : lines = <<a>> \o <<b, c>>
        BY <4>1
      <4>6. Len(lines) = 3 /\ lines[1] = a
        BY <3>2, <4>1, <4>4, <4>5
      <4> QED
        BY <4>5, <4>6
    <3>4. lines # << >>
      BY <3>3, EmptySeq
    <3>5. Put(row, lines)
      BY <1>9, <3>1, <3>3 DEF CGiveUp, print
    <3> QED
      BY <3>1, <3>3, <3>4, <3>5
  <2>3. /\ Kept /\ screen' \in Seq(Lines) /\ row' = Len(screen') + 1 /\ row' \in Nat \ {0}
        /\ Len(screen') = row + Len(lines) - 1
    BY <1>1, <2>2, Printed
  <2>4. ScreenType' /\ row' <= Len(screen') + 1
    BY <1>7, <2>3 DEF ScreenType, CIInv
  <2>5. row \in OfKind("unread")' /\ screen'[row].at = lba * SECTOR_SIZE
    <3>1. screen'[at] = ReadError
      <4>1. 1 \in 1 .. Len(lines) /\ at + 1 - 1 = at
        BY <2>2
      <4>2. Put(at, lines)
        BY <1>4, <2>2
      <4>3. \A i \in 1 .. Len(lines) : screen'[at + i - 1] = lines[i]
        BY <1>5, <2>2, <4>2, Drawn
      <4>4. screen'[at + 1 - 1] = lines[1]
        BY <4>1, <4>3
      <4> QED
        BY <2>2, <4>1, <4>4
    <3>2. at \in DOMAIN screen'
      <4>1. DOMAIN screen' = 1 .. Len(screen') /\ Len(screen') = at + 2
        BY <1>4, <2>2, <2>3, LenProperties
      <4> QED
        BY <4>1
    <3>3. at \in OfKind("unread")' /\ screen'[at].at = offset
      BY <1>3, <3>1, <3>2 DEF OfKind
    <3> QED
      BY <1>1, <1>2, <1>4, <3>3
  <2> QED
    BY <1>1, <1>9, <2>3, <2>4, <2>5 DEF Drawing, Place, Fresh
<1> QED
  BY <1>8, <1>9

\* Where a pass of the loop begins: on the progress of the pass before.
LEMMA ProgressAbove ==
  ASSUME CIInv, pc = "loop"
  PROVE  /\ screen \in Seq(Lines) /\ moveUp \in Nat \ {0}
         /\ moveUp = Len(screen) /\ row = Len(screen) + 1
         /\ OfKind("progress") = {moveUp} /\ screen[moveUp].kind = "progress"
<1>1. /\ screen \in Seq(Lines) /\ row \in Nat \ {0}
      /\ row = Len(screen) + 1 /\ OfKind("progress") = {row - 1}
  BY DEF CIInv, ScreenType, Place, Fresh
<1>2. row - 1 \in DOMAIN screen /\ screen[row - 1].kind = "progress"
  BY <1>1 DEF OfKind
<1>3. PICK old \in Nat : old = Len(screen) /\ DOMAIN screen = 1 .. old
  BY <1>1, LenProperties
<1>4. row - 1 = old /\ old \in 1 .. old
  BY <1>1, <1>2, <1>3
<1>5. moveUp = row - 1
  BY <1>1, <1>4 DEF moveUp, CIInv, Window
<1> QED
  BY <1>1, <1>2, <1>3, <1>4, <1>5

\* Reading draws nothing, and neither does a poll that finds no button.
LEMMA QuietDraws ==
  ASSUME CIInv, UNCHANGED console,
         \/ pc = "read" /\ pc' \in {"read", "write"}
         \/ pc = "poll" /\ pc' = "loop" /\ UNCHANGED <<offset, errorCount>>
         \/ UNCHANGED <<pc, offset, errorCount>>
  PROVE  Drawing
<1>1. screen' = screen /\ row' = row /\ verboseCount' = verboseCount
  BY DEF console
<1>2. Kept
  BY <1>1 DEF Kept
<1>3. ScreenType'
  BY <1>1 DEF ScreenType, CIInv
<1>4. OfKind("progress")' = OfKind("progress")
  BY <1>1 DEF OfKind
<1>5. Place
  BY DEF CIInv
<1>6. Fresh' = Fresh
  BY <1>1 DEF Fresh
<1>7. CASE pc = "read" /\ pc' \in {"read", "write"}
  BY <1>1, <1>2, <1>3, <1>4, <1>5, <1>6, <1>7 DEF Drawing, Place
<1>8. CASE pc = "poll" /\ pc' = "loop" /\ UNCHANGED <<offset, errorCount>>
  BY <1>1, <1>2, <1>3, <1>4, <1>5, <1>6, <1>8 DEF Drawing, Place
<1>9. CASE UNCHANGED <<pc, offset, errorCount>>
  BY <1>1, <1>2, <1>3, <1>4, <1>5, <1>6, <1>9 DEF Drawing, Place
<1> QED
  BY <1>7, <1>8, <1>9

LEMMA StayStep ==
  ASSUME CIInv, pc = "loop", pc' = "read", print(moveUp, << >>)
  PROVE  Drawing
<1>1. PICK at \in Nat \ {0} : at = moveUp
  BY ProgressAbove
<1>2. at = Len(screen) /\ OfKind("progress") = {at} /\ screen \in Seq(Lines)
  BY <1>1, ProgressAbove
<1>3. screen' = screen /\ row' = at /\ UNCHANGED verboseCount
  BY <1>1, <1>2, NothingDrawn DEF print
<1>4. Kept
  BY <1>3 DEF Kept
<1>5. ScreenType'
  BY <1>2, <1>3 DEF ScreenType, CIInv
<1>6. OfKind("progress")' = {at}
  BY <1>2, <1>3 DEF OfKind
<1>7. at = Len(screen') /\ at <= Len(screen') + 1
  BY <1>2, <1>3
<1> QED
  BY <1>3, <1>4, <1>5, <1>6, <1>7 DEF Drawing, Place

\* A line of text in place of the progress.
LEMMA TextOverProgress ==
  ASSUME CIInv, pc = "loop", pc' = "read", NEW line \in Lines, line.kind = "text",
         Put(moveUp, <<line>>), verboseCount' \in Nat
  PROVE  Drawing
<1>1. PICK at \in Nat \ {0} : at = moveUp
  BY ProgressAbove
<1>2. /\ at = Len(screen) /\ OfKind("progress") = {at} /\ screen \in Seq(Lines)
      /\ screen[at].kind = "progress"
  BY <1>1, ProgressAbove
<1>3. Put(at, <<line>>)
  BY <1>1
<1>4. Kept
  BY <1>2, <1>3, OneLine, DrawnKeeps
<1>5. \A r \in 1 .. at - 1 : screen[r].kind # "progress"
  <2>1. DOMAIN screen = 1 .. at
    BY <1>2, LenProperties
  <2>2. \A r \in 1 .. at - 1 : r \in 1 .. at /\ r # at
    OBVIOUS
  <2> QED
    BY <1>2, <2>1, <2>2 DEF OfKind
<1>6. /\ screen' \in Seq(Lines) /\ Len(screen') = at /\ row' = at + 1
      /\ OfKind("progress")' = {}
  BY <1>2, <1>3, <1>5, LineDrawn
<1>7. row' \in Nat \ {0} /\ row' = Len(screen') + 1 /\ row' <= Len(screen') + 1
  BY <1>6
<1>8. ScreenType'
  BY <1>6, <1>7 DEF ScreenType
<1> QED
  BY <1>4, <1>6, <1>7, <1>8 DEF Drawing, Place, Fresh

LEMMA MessageCounted ==
  ASSUME CIInv, verboseCount' = verboseCount + 1
  PROVE  verboseCount' \in Nat
BY DEF CIInv, ScreenType

\* The message a debug build prints for a new part replaces the progress.
LEMMA OpenStep ==
  ASSUME CIInv, pc = "loop", pc' = "read", verbose(moveUp, "New chunk created at file", << >>)
  PROVE  Drawing
<1>1. CASE ~DEBUG
  BY <1>1, StayStep DEF verbose
<1>2. CASE DEBUG
  <2>1. PICK line \in Lines : line = Text("New chunk created at file") /\ line.kind = "text"
    <3>1. "New chunk created at file" \in Texts
      BY DEF Texts
    <3> QED
      BY <3>1, LineTypes
  <2>2. <<line>> \o << >> = <<line>>
    BY OneLine, ConcatEmptySeq
  <2>3. Put(moveUp, <<line>>) /\ verboseCount' = verboseCount + 1
    BY <1>2, <2>1, <2>2 DEF verbose
  <2>4. verboseCount' \in Nat
    BY <2>3, MessageCounted
  <2> QED
    BY <2>1, <2>3, <2>4, TextOverProgress
<1> QED
  BY <1>1, <1>2, DebugAssumption

LEMMA OpenFailsStep ==
  ASSUME CIInv, COpenPartFails
  PROVE  Drawing
<1>1. pc = "loop" /\ pc' = "returned" /\ Active
  BY DEF COpenPartFails, OpenPartFails, Return, Active
<1>2. newline(moveUp) = row
  BY <1>1, ProgressAbove DEF newline
<1>3. \E words \in Texts : print(row, <<Text(words)>>)
  BY <1>2 DEF COpenPartFails, Texts
<1>4. Kept /\ ScreenType' /\ row' = Len(screen') + 1
  BY <1>1, <1>3, TextLine
<1>5. row' <= Len(screen') + 1
  <2>1. row' \in Nat
    BY <1>4 DEF ScreenType
  <2> QED
    BY <1>4, <2>1
<1> QED
  BY <1>1, <1>4, <1>5 DEF Drawing, Place

-----------------------------------------------------------------------------
(* Every step.                                                               *)

LEMMA StepDraws == CIInv /\ [CNext]_cvars => Drawing
<1> SUFFICES ASSUME CIInv, [CNext]_cvars PROVE Drawing
  OBVIOUS
<1>1. ASSUME CStayInPart PROVE Drawing
  <2>1. pc = "loop" /\ pc' = "read" /\ print(moveUp, << >>)
    BY <1>1 DEF CStayInPart, StayInPart, StartReading
  <2> QED
    BY <2>1, StayStep
<1>2. ASSUME COpenPart PROVE Drawing
  <2>1. /\ pc = "loop" /\ pc' = "read"
        /\ verbose(moveUp, "New chunk created at file", << >>)
    BY <1>2 DEF COpenPart, OpenPart, StartReading
  <2> QED
    BY <2>1, OpenStep
<1>3. ASSUME CReadSector PROVE Drawing
  <2>1. UNCHANGED console /\ \E ok \in BOOLEAN : ReadSector(ok)
    BY <1>3 DEF CReadSector
  <2>2. pc = "read" /\ pc' \in {"read", "write"}
    BY <2>1 DEF ReadSector, Attempt
  <2> QED
    BY <2>1, <2>2, QuietDraws
<1>4. ASSUME CPoll(FALSE) PROVE Drawing
  <2>1. UNCHANGED console /\ Poll(FALSE)
    BY <1>4 DEF CPoll
  <2>2. pc = "poll" /\ pc' = "loop" /\ UNCHANGED <<offset, errorCount>>
    BY <2>1 DEF Poll, counters
  <2> QED
    BY <2>1, <2>2, QuietDraws
<1>5. ASSUME UNCHANGED cvars PROVE Drawing
  <2>1. UNCHANGED console /\ UNCHANGED <<pc, offset, errorCount>>
    BY <1>5 DEF cvars, vars, counters
  <2> QED
    BY <2>1, QuietDraws
<1>6. CNext => \/ CStayInPart \/ COpenPart \/ CReadSector \/ CPoll(FALSE)
               \/ CAllocate \/ CAllocateFails \/ CWriteSectorFails \/ CPoll(TRUE)
               \/ CFinish \/ CAcknowledge \/ COpenPartFails \/ CGiveUp
               \/ CWriteSector \/ CReset
  BY DEF CNext
<1> QED
  BY <1>1, <1>2, <1>3, <1>4, <1>5, <1>6, StopStep, ResetStep, AllocateStep, WriteStep,
     GiveUpDraws, OpenFailsStep

LEMMA IsDumpStep == [CNext]_cvars => [Next]_vars
BY DEF CNext, cvars, Next, DumpStep, CStayInPart, COpenPart, CReadSector, CPoll, CAllocate,
       CAllocateFails, CWriteSectorFails, CFinish, CAcknowledge, COpenPartFails, CGiveUp,
       CWriteSector, CReset

-----------------------------------------------------------------------------
(* The cursor and the scrolling of the console.                              *)

\* n lines were printed from line `at' on, and scrolled the console if they had to.
Moved(at, n) ==
  /\ row' = at + n
  /\ top' \in Int /\ top' <= row' /\ row' <= top' + ROWS - 1
  /\ n # 0 => top' <= row' - 1
  /\ top' = top \/ top' + ROWS = row' + 1

LEMMA PutMoves ==
  ASSUME top \in Int, NEW at \in Nat, at >= top, at <= top + ROWS - 1,
         NEW lines \in Seq(Lines), NEW n \in Nat, Len(lines) = n, Put(at, lines)
  PROVE  Moved(at, n)
<1>1. row' = at + n /\ top' = IF row' - ROWS >= top THEN row' - ROWS + 1 ELSE top
  BY DEF Put
<1>2. CASE row' - ROWS >= top
  BY <1>1, <1>2, RowsAssumption DEF Moved
<1>3. CASE ~(row' - ROWS >= top)
  BY <1>1, <1>3, RowsAssumption DEF Moved
<1> QED
  BY <1>2, <1>3

\* Where printing begins is on the console.
LEMMA PlacesOnConsole ==
  ASSUME CIInv
  PROVE  /\ top \in Int /\ row \in Nat /\ row >= top /\ row <= top + ROWS - 1
         /\ pc = "loop" => moveUp \in Nat /\ moveUp = row - 1 /\ moveUp >= top
                           /\ moveUp <= top + ROWS - 1 /\ newline(moveUp) = row
<1>1. top \in Int /\ row \in Nat \ {0} /\ row >= top /\ row <= top + ROWS - 1
      /\ (pc = "loop" => top <= row - 1)
  BY DEF CIInv, Window, ScreenType
<1>2. pc = "loop" => moveUp = row - 1
  BY <1>1 DEF moveUp
<1> QED
  BY <1>1, <1>2, RowsAssumption DEF newline

\* How many lines a step prints is all that matters here.
LEMMA SomeLines ==
  ASSUME NEW a \in Lines, NEW b \in Lines, NEW c \in Lines
  PROVE  /\ << >> \in Seq(Lines) /\ Len(<< >>) = 0
         /\ <<a>> \in Seq(Lines) /\ Len(<<a>>) = 1
         /\ <<a, b>> \in Seq(Lines) /\ Len(<<a, b>>) = 2
         /\ <<a>> \o << >> = <<a>>
         /\ <<a>> \o <<b>> \in Seq(Lines) /\ Len(<<a>> \o <<b>>) = 2
         /\ <<a>> \o <<b, c>> \in Seq(Lines) /\ Len(<<a>> \o <<b, c>>) = 3
<1>1. /\ << >> \in Seq(Lines) /\ Len(<< >>) = 0
      /\ <<a>> \in Seq(Lines) /\ Len(<<a>>) = 1
      /\ <<a, b>> \in Seq(Lines) /\ Len(<<a, b>>) = 2
      /\ <<b>> \in Seq(Lines) /\ Len(<<b>>) = 1
      /\ <<b, c>> \in Seq(Lines) /\ Len(<<b, c>>) = 2
  BY EmptySeq
<1>2. <<a>> \o << >> = <<a>>
  BY <1>1, ConcatEmptySeq
<1>3. <<a>> \o <<b>> \in Seq(Lines) /\ Len(<<a>> \o <<b>>) = 1 + 1
  BY <1>1, ConcatProperties
<1>4. <<a>> \o <<b, c>> \in Seq(Lines) /\ Len(<<a>> \o <<b, c>>) = 1 + 2
  BY <1>1, ConcatProperties
<1> QED
  BY <1>1, <1>2, <1>3, <1>4

LEMMA OneTextMoves ==
  ASSUME CIInv, NEW words \in Texts, print(row, <<Text(words)>>)
  PROVE  Moved(row, 1)
<1>1. PICK line \in Lines : line = Text(words)
  BY LineTypes
<1>2. PICK at \in Nat : at = row
  BY PlacesOnConsole
<1>3. PICK lines \in Seq(Lines) : lines = <<line>> /\ Len(lines) = 1
  BY SomeLines
<1>4. Put(at, lines)
  BY <1>1, <1>2, <1>3 DEF print
<1> QED
  BY <1>2, <1>3, <1>4, PlacesOnConsole, PutMoves

LEMMA AllocateMoves ==
  ASSUME CIInv, CAllocate
  PROVE  Moved(row, 2)
<1>1. PICK a \in Lines, b \in Lines : a = Text("Taking a dump...") /\ b = Progress(0, 0)
  <2>1. "Taking a dump..." \in Texts /\ 0 \in Nat
    BY DEF Texts
  <2> QED
    BY <2>1, LineTypes
<1>2. PICK at \in Nat : at = row
  BY PlacesOnConsole
<1>3. PICK lines \in Seq(Lines) : lines = <<a, b>> /\ Len(lines) = 2
  BY SomeLines
<1>4. Put(at, lines)
  BY <1>1, <1>2, <1>3 DEF CAllocate, print
<1> QED
  BY <1>2, <1>3, <1>4, PlacesOnConsole, PutMoves

LEMMA StayMoves ==
  ASSUME CIInv, pc = "loop", print(moveUp, << >>)
  PROVE  Moved(moveUp, 0)
<1>1. PICK at \in Nat : at = moveUp
  BY PlacesOnConsole
<1>2. PICK lines \in Seq(Lines) : lines = << >> /\ Len(lines) = 0
  BY EmptySeq
<1>3. Put(at, lines)
  BY <1>1, <1>2 DEF print
<1> QED
  BY <1>1, <1>2, <1>3, PlacesOnConsole, PutMoves

LEMMA OpenMoves ==
  ASSUME CIInv, pc = "loop", verbose(moveUp, "New chunk created at file", << >>)
  PROVE  Moved(moveUp, IF DEBUG THEN 1 ELSE 0)
<1>1. CASE ~DEBUG
  BY <1>1, StayMoves DEF verbose
<1>2. CASE DEBUG
  <2>1. PICK line \in Lines : line = Text("New chunk created at file")
    <3>1. "New chunk created at file" \in Texts
      BY DEF Texts
    <3> QED
      BY <3>1, LineTypes
  <2>2. PICK at \in Nat : at = moveUp
    BY PlacesOnConsole
  <2>3. PICK lines \in Seq(Lines) : lines = <<line>> \o << >> /\ Len(lines) = 1
    BY SomeLines
  <2>4. Put(at, lines)
    BY <1>2, <2>1, <2>2, <2>3 DEF verbose
  <2>5. Moved(at, 1)
    BY <2>2, <2>3, <2>4, PlacesOnConsole, PutMoves
  <2> QED
    BY <1>2, <2>2, <2>5
<1> QED
  BY <1>1, <1>2, DebugAssumption

LEMMA GiveUpMoves ==
  ASSUME CIInv, CGiveUp
  PROVE  Moved(row, IF cancelOnError THEN 3 ELSE 1)
<1>1. PICK a \in Lines, b \in Lines, c \in Lines :
        a = ReadError /\ b = Text("ERR") /\ c = Text("Press A to exit.")
  <2>1. "ERR" \in Texts /\ "Press A to exit." \in Texts /\ offset \in Nat
    BY DEF Texts, CIInv, IInv, Shape, TypeOver
  <2> QED
    BY <2>1, LineTypes DEF ReadError
<1>2. PICK at \in Nat : at = row
  BY PlacesOnConsole
<1>3. CASE cancelOnError
  <2>1. PICK lines \in Seq(Lines) : lines = <<a>> \o <<b, c>> /\ Len(lines) = 3
    BY SomeLines
  <2>2. Put(at, lines)
    BY <1>1, <1>2, <1>3, <2>1 DEF CGiveUp, print
  <2>3. Moved(at, 3)
    BY <1>2, <2>1, <2>2, PlacesOnConsole, PutMoves
  <2> QED
    BY <1>2, <1>3, <2>3
<1>4. CASE ~cancelOnError
  <2>1. PICK lines \in Seq(Lines) : lines = <<a>> \o << >> /\ Len(lines) = 1
    BY SomeLines
  <2>2. Put(at, lines)
    BY <1>1, <1>2, <1>4, <2>1 DEF CGiveUp, print
  <2>3. Moved(at, 1)
    BY <1>2, <2>1, <2>2, PlacesOnConsole, PutMoves
  <2> QED
    BY <1>2, <1>4, <2>3
<1> QED
  BY <1>3, <1>4

LEMMA WriteMoves ==
  ASSUME CIInv, CWriteSector
  PROVE  Moved(row, 1)
<1>1. PICK line \in Lines : line = Progress(offset', errorCount)
  <2>1. IInv' /\ errorCount \in Nat
    BY IsDumpStep, StepIInv DEF CIInv, IInv, Shape, TypeOver, CNext
  <2>2. PICK m \in Nat, n \in Nat : m = offset' /\ n = errorCount
    BY <2>1 DEF IInv, Shape, TypeOver
  <2>3. Progress(m, n) \in Lines
    BY DEF Progress, Lines
  <2> QED
    BY <2>2, <2>3
<1>2. PICK at \in Nat : at = row
  BY PlacesOnConsole
<1>3. PICK lines \in Seq(Lines) : lines = <<line>> /\ Len(lines) = 1
  BY SomeLines
<1>4. Put(at, lines)
  BY <1>1, <1>2, <1>3 DEF CWriteSector, print
<1> QED
  BY <1>2, <1>3, <1>4, PlacesOnConsole, PutMoves

LEMMA ResetMoves ==
  ASSUME CIInv, CReset
  PROVE  Moved(row, 1) \/ Moved(row, 2)
<1>1. PICK a \in Lines, b \in Lines : a = Text("Received reset callback") /\ b = Exiting
  <2>1. "Received reset callback" \in Texts /\ "Exiting with code" \in Texts
    BY DEF Texts
  <2> QED
    BY <2>1, LineTypes DEF Exiting
<1>2. PICK at \in Nat : at = row
  BY PlacesOnConsole
<1>3. PICK long \in Seq(Lines), short \in Seq(Lines) :
        /\ long = <<a>> \o <<b>> /\ Len(long) = 2
        /\ short = <<b>> /\ Len(short) = 1
  BY SomeLines
<1>4. Put(at, long) \/ Put(at, short)
  BY <1>1, <1>2, <1>3 DEF CReset, verbose, print
<1>5. CASE Put(at, long)
  BY <1>2, <1>3, <1>5, PlacesOnConsole, PutMoves
<1>6. CASE Put(at, short)
  BY <1>2, <1>3, <1>6, PlacesOnConsole, PutMoves
<1> QED
  BY <1>4, <1>5, <1>6

\* The steps that end a dump, or leave it ended.
LEMMA EndMoves ==
  ASSUME CIInv,
         \/ CAllocateFails \/ COpenPartFails \/ CWriteSectorFails \/ CPoll(TRUE)
         \/ CFinish \/ CAcknowledge
  PROVE  Moved(row, 1)
<1>1. COpenPartFails => newline(moveUp) = row
  BY PlacesOnConsole DEF COpenPartFails, OpenPartFails
<1>2. \E words \in Texts : print(row, <<Text(words)>>)
  BY <1>1 DEF CAllocateFails, COpenPartFails, CWriteSectorFails, CPoll, CFinish, CAcknowledge,
     Exiting, Texts
<1> QED
  BY <1>2, OneTextMoves

\* Used does not depend on what is left alone.
LEMMA UsedStays ==
  ASSUME UNCHANGED <<scratched, lba, chunk_index>>
  PROVE  Used' = Used
BY DEF Used, Skipped

LEMMA UsedType == CIInv => Used \in Nat
<1> SUFFICES ASSUME CIInv PROVE Used \in Nat
  OBVIOUS
<1>1. lba \in Nat /\ chunk_index \in Nat \ {0}
  BY DEF CIInv, IInv, Shape, TypeOver
<1>2. Cardinality(Skipped(lba)) \in Nat
  BY <1>1, SkippedNext
<1> QED
  BY <1>1, <1>2 DEF Used

\* Whatever ends the dump otherwise than well only has to keep the cursor in sight.
LEMMA StoppedHeight ==
  ASSUME ~Running', ~Complete', NEW n \in Nat, Moved(row, n)
  PROVE  Window' /\ Height'
BY DEF Running, Moved, Window, Height

\* A step that prints nothing and stays between the same two sectors.
LEMMA QuietHeight ==
  ASSUME CIInv, UNCHANGED console, UNCHANGED <<scratched, lba, chunk_index, result>>,
         \/ pc = "read" /\ pc' = "read"
         \/ pc = "read" /\ pc' = "write" /\ lba \notin scratched
         \/ pc = "poll" /\ pc' = "loop"
         \/ UNCHANGED pc
  PROVE  Window' /\ Height'
<1>1. Used' = Used
  BY UsedStays
<1>2. row' = row /\ top' = top /\ (Complete' <=> Complete)
  BY DEF console, Complete
<1>3. Window /\ Height
  BY DEF CIInv
<1>4. Window'
  BY <1>2, <1>3 DEF Window
<1>5. CASE pc = "read" /\ pc' = "read"
  BY <1>1, <1>2, <1>3, <1>4, <1>5 DEF Height, Running
<1>6. CASE pc = "read" /\ pc' = "write" /\ lba \notin scratched
  BY <1>1, <1>2, <1>3, <1>4, <1>6 DEF Height, Running
<1>7. CASE pc = "poll" /\ pc' = "loop"
  BY <1>1, <1>2, <1>3, <1>4, <1>7 DEF Height, Running
<1>8. CASE UNCHANGED pc
  BY <1>1, <1>2, <1>3, <1>4, <1>8 DEF Height, Running
<1> QED
  BY <1>5, <1>6, <1>7, <1>8

LEMMA NotYetComplete == CIInv /\ Running => result = NULL
BY DEF CIInv, IInv, Shape, Phase, Running

\* A step that leaves the dump running is right if the cursor ends where it should.
LEMMA RunningHeight ==
  ASSUME CIInv, Running, NEW at \in Nat, NEW n \in Nat, Moved(at, n),
         NEW u \in Nat, Used' = u, Used <= u, row' <= u + 4, UNCHANGED result,
         \/ pc' \in {"poll", "loop"} /\ n # 0 /\ row' = u + 4
         \/ pc' = "read" /\ row' = u + 3
         \/ pc' = "write" /\ (lba \in scratched)' /\ row' = u + 4
  PROVE  Window' /\ Height'
<1>1. PICK old \in Nat : old = Used
  BY UsedType
<1>2. PICK r \in Nat, t \in Int, before \in Int : r = row' /\ t = top' /\ before = top
  BY DEF Moved, CIInv, Window
<1>3. /\ r = at + n /\ t <= r /\ r <= t + ROWS - 1
      /\ (n # 0 => t <= r - 1) /\ (t = before \/ t + ROWS = r + 1)
  BY <1>2 DEF Moved
<1>4. before <= 1 \/ before + ROWS <= old + 5
  BY <1>1, <1>2 DEF CIInv, Height
<1>5. t <= 1 \/ t + ROWS <= u + 5
  <2>1. old <= u /\ r <= u + 4
    BY <1>1, <1>2
  <2>2. CASE t + ROWS = r + 1
    BY <2>1, <2>2
  <2>3. CASE t = before
    BY <1>4, <2>1, <2>3, RowsAssumption
  <2> QED
    BY <1>3, <2>2, <2>3
<1>6. ~Complete'
  BY NotYetComplete, MarksAssumption DEF Complete
<1>7. Window'
  BY <1>2, <1>3 DEF Window
<1>8. Height'
  <2>1. CASE pc' \in {"poll", "loop"} /\ row' = u + 4
    BY <1>2, <1>5, <1>6, <2>1 DEF Height
  <2>2. CASE pc' = "read" /\ row' = u + 3
    BY <1>2, <1>5, <1>6, <2>2 DEF Height
  <2>3. CASE pc' = "write" /\ (lba \in scratched)' /\ row' = u + 4
    BY <1>2, <1>5, <1>6, <2>3 DEF Height
  <2> QED
    BY <2>1, <2>2, <2>3
<1> QED
  BY <1>7, <1>8

LEMMA StepHeight ==
  ASSUME CIInv, [CNext]_cvars
  PROVE  Window' /\ Height'
<1>1. /\ Window /\ Height /\ Used \in Nat /\ row \in Nat /\ top \in Int
      /\ lba \in Nat /\ chunk_index \in Nat \ {0}
  BY UsedType DEF CIInv, Window, ScreenType, IInv, Shape, TypeOver
<1>2. NULL # 0
  BY MarksAssumption
<1>3. ASSUME CAllocate PROVE Window' /\ Height'
  <2>1. /\ pc = "alloc" /\ pc' = "loop" /\ UNCHANGED <<scratched, lba, chunk_index, result>>
    BY <1>3 DEF CAllocate, Allocate, counters, params
  <2>2. Used' = Used /\ Used = 0
    <3>1. lba = 0 /\ chunk_index = 1
      BY <2>1 DEF CIInv, IInv, Shape, Phase, Position, Running
    <3>2. Skipped(0) = {}
      BY DEF Skipped
    <3> QED
      BY <2>1, <3>1, <3>2, UsedStays, FS_EmptySet DEF Used
  <2>3. row = 2 /\ Moved(row, 2)
    BY <1>1, <1>3, <2>1, AllocateMoves DEF Height
  <2>4. Moved(2, 2) /\ row' = 4
    BY <2>3 DEF Moved
  <2> QED
    BY <2>1, <2>2, <2>4, RunningHeight DEF Running
<1>4. ASSUME CStayInPart PROVE Window' /\ Height'
  <2>1. /\ pc = "loop" /\ pc' = "read" /\ UNCHANGED <<scratched, lba, chunk_index, result>>
        /\ print(moveUp, << >>)
    BY <1>4 DEF CStayInPart, StayInPart, StartReading, counters, params
  <2>2. PICK u \in Nat : u = Used /\ Used' = u
    BY <1>1, <2>1, UsedStays
  <2>3. Moved(moveUp, 0) /\ moveUp = row - 1 /\ row = u + 4
    BY <1>1, <2>1, <2>2, StayMoves, PlacesOnConsole DEF Height
  <2>4. PICK at \in Nat : at = u + 3 /\ Moved(at, 0)
    BY <2>3
  <2>5. row' = u + 3 /\ u <= u /\ row' <= u + 4
    BY <2>4 DEF Moved
  <2> QED
    BY <2>1, <2>2, <2>4, <2>5, RunningHeight DEF Running
<1>5. ASSUME COpenPart PROVE Window' /\ Height'
  <2>1. /\ pc = "loop" /\ pc' = "read" /\ UNCHANGED <<scratched, lba, result>>
        /\ chunk_index' = chunk_index + 1
        /\ verbose(moveUp, "New chunk created at file", << >>)
    BY <1>5 DEF COpenPart, OpenPart, StartReading, params
  <2>2. Used' = Used + (IF DEBUG THEN 1 ELSE 0)
    <3>1. Skipped(lba)' = Skipped(lba)
      BY <2>1 DEF Skipped
    <3>2. PICK c \in Nat : c = Cardinality(Skipped(lba)) /\ c = Cardinality(Skipped(lba))'
      BY <1>1, <3>1, SkippedNext
    <3>3. ASSUME DEBUG PROVE Used' = c + chunk_index /\ Used = c + (chunk_index - 1)
      <4>1. Used' = c + (chunk_index' - 1) /\ Used = c + (chunk_index - 1)
        BY <3>2, <3>3 DEF Used
      <4>2. chunk_index' = chunk_index + 1
        BY <2>1
      <4>3. chunk_index' - 1 = chunk_index
        BY <1>1, <4>2
      <4> QED
        BY <4>1, <4>3
    <3>4. ~DEBUG => Used' = c /\ Used = c
      BY <3>2 DEF Used
    <3> QED
      BY <1>1, <3>3, <3>4, DebugAssumption
  <2>3. Moved(moveUp, IF DEBUG THEN 1 ELSE 0) /\ moveUp = row - 1 /\ row = Used + 4
    BY <1>1, <2>1, OpenMoves, PlacesOnConsole DEF Height
  <2>4. PICK u \in Nat, old \in Nat : u = Used' /\ old = Used
    BY <1>1, <2>2
  <2>5. PICK at \in Nat, n \in Nat :
          /\ n = (IF DEBUG THEN 1 ELSE 0) /\ at = old + 3 /\ Moved(at, n)
    BY <2>3, <2>4
  <2>6. u = old + n /\ row' = at + n
    BY <2>2, <2>4, <2>5 DEF Moved
  <2>7. row' = u + 3 /\ old <= u /\ row' <= u + 4
    BY <2>5, <2>6
  <2> QED
    BY <2>1, <2>4, <2>5, <2>7, RunningHeight DEF Running
<1>6. ASSUME CReadSector PROVE Window' /\ Height'
  <2>1. PICK ok \in BOOLEAN : ReadSector(ok)
    BY <1>6 DEF CReadSector
  <2>2. /\ pc = "read" /\ (pc' = "read" \/ (pc' = "write" /\ lba \notin scratched))
        /\ UNCHANGED <<scratched, lba, chunk_index, result>>
    BY <2>1 DEF ReadSector, Attempt, counters, params
  <2>3. UNCHANGED console
    BY <1>6 DEF CReadSector
  <2>4. CASE pc' = "read"
    BY <2>2, <2>3, <2>4, QuietHeight
  <2>5. CASE pc' = "write" /\ lba \notin scratched
    BY <2>2, <2>3, <2>5, QuietHeight
  <2> QED
    BY <2>2, <2>4, <2>5
<1>7. ASSUME CGiveUp PROVE Window' /\ Height'
  <2>1. /\ pc = "read" /\ UNCHANGED <<scratched, lba, chunk_index, result>>
        /\ pc' = IF cancelOnError THEN "error" ELSE "write"
    BY <1>7 DEF CGiveUp, GiveUp, StopOrSkip, counters, params
  <2>2. Used' = Used /\ result' = NULL /\ lba \in scratched
    BY <1>7, <2>1, UsedStays, NotYetComplete, GaveUp DEF Running, CGiveUp, CIInv
  <2>3. Moved(row, IF cancelOnError THEN 3 ELSE 1)
    BY <1>7, GiveUpMoves
  <2>4. CASE cancelOnError
    BY <1>2, <2>1, <2>2, <2>3, <2>4, StoppedHeight DEF Running, Complete
  <2>5. CASE ~cancelOnError
    <3>1. Moved(row, 1) /\ pc' = "write" /\ row = Used + 3
      BY <1>1, <2>1, <2>3, <2>5 DEF Height
    <3>2. PICK u \in Nat : u = Used /\ Used' = u
      BY <1>1, <2>2
    <3>3. PICK at \in Nat : at = u + 3 /\ Moved(at, 1)
      BY <3>1, <3>2
    <3>4. row' = u + 4 /\ u <= u /\ row' <= u + 4
      BY <3>3 DEF Moved
    <3>5. (lba \in scratched)'
      BY <2>1, <2>2
    <3> QED
      BY <2>1, <3>1, <3>2, <3>3, <3>4, <3>5, RunningHeight DEF Running
  <2> QED
    BY <2>4, <2>5
<1>8. ASSUME CWriteSector PROVE Window' /\ Height'
  <2>1. /\ pc = "write" /\ pc' = "poll" /\ UNCHANGED <<scratched, chunk_index, result>>
        /\ lba' = lba + ReadSize \div SECTOR_SIZE
    BY <1>8 DEF CWriteSector, WriteSector, Advance, params
  <2>2. lba' = lba + 1
    BY <2>1, WholeSector DEF CIInv, IInv, Shape, Phase
  <2>3. Used' = Used + (IF lba \in scratched THEN 1 ELSE 0)
    <3>1. Skipped(lba)' = Skipped(lba + 1)
      BY <2>1, <2>2 DEF Skipped
    <3>2. /\ Cardinality(Skipped(lba)) \in Nat
          /\ Cardinality(Skipped(lba + 1)) =
               Cardinality(Skipped(lba)) + (IF lba \in scratched THEN 1 ELSE 0)
      BY <1>1, SkippedNext
    <3> QED
      BY <1>1, <2>1, <3>1, <3>2 DEF Used
  <2>4. Moved(row, 1) /\ row = Used + (IF lba \in scratched THEN 4 ELSE 3)
    BY <1>1, <1>8, <2>1, WriteMoves DEF Height
  <2>5. PICK u \in Nat, old \in Nat, one \in Nat :
          /\ u = Used' /\ old = Used /\ u = old + one
          /\ row = old + 3 + one
    <3>1. CASE lba \in scratched
      BY <1>1, <2>3, <2>4, <3>1
    <3>2. CASE lba \notin scratched
      BY <1>1, <2>3, <2>4, <3>2
    <3> QED
      BY <3>1, <3>2
  <2>6. PICK at \in Nat : at = row /\ Moved(at, 1)
    BY <1>1, <2>4
  <2>7. row' = u + 4 /\ old <= u /\ row' <= u + 4
    BY <2>5, <2>6 DEF Moved
  <2> QED
    BY <2>1, <2>5, <2>6, <2>7, RunningHeight DEF Running
<1>9. ASSUME CPoll(FALSE) PROVE Window' /\ Height'
  <2>1. pc = "poll" /\ pc' = "loop" /\ UNCHANGED <<scratched, lba, chunk_index, result>>
    BY <1>9 DEF CPoll, Poll, counters, params
  <2> QED
    BY <1>9, <2>1, QuietHeight DEF CPoll
<1>10. ASSUME CFinish PROVE Window' /\ Height'
  <2>1. /\ pc = "loop" /\ pc' = "returned" /\ UNCHANGED <<scratched, lba, chunk_index>>
    BY <1>10 DEF CFinish, Finish, Return, counters, params
  <2>2. PICK u \in Nat : u = Used /\ Used' = u
    BY <1>1, <2>1, UsedStays
  <2>3. Moved(row, 1) /\ row = u + 4 /\ (top <= 1 \/ top + ROWS <= u + 5)
    BY <1>1, <1>10, <2>1, <2>2, EndMoves DEF Height, Running
  <2>4. PICK t \in Int, before \in Int : t = top' /\ before = top
    BY <1>1, <2>3 DEF Moved
  <2>5. /\ row' = u + 5 /\ t <= row' /\ row' <= t + ROWS - 1
        /\ t = before \/ t + ROWS = u + 6
    BY <2>3, <2>4 DEF Moved
  <2>6. t <= 1 \/ t + ROWS <= u + 6
    <3>1. CASE t + ROWS = u + 6
      BY <3>1
    <3>2. CASE t = before
      <4>1. before <= 1 \/ before + ROWS <= u + 5
        BY <2>3, <2>4
      <4> QED
        BY <3>2, <4>1, RowsAssumption
    <3> QED
      BY <2>5, <3>1, <3>2
  <2>7. Window'
    BY <2>1, <2>4, <2>5 DEF Window
  <2>8. Height'
    BY <2>1, <2>2, <2>4, <2>6 DEF Height, Running
  <2> QED
    BY <2>7, <2>8
<1>11. ASSUME CAllocateFails \/ COpenPartFails \/ CWriteSectorFails PROVE Window' /\ Height'
  <2>1. pc' = "returned" /\ (result' = 1 \/ result' = -2)
    BY <1>11 DEF CAllocateFails, COpenPartFails, CWriteSectorFails, AllocateFails, OpenPartFails,
       WriteSectorFails, Return
  <2>2. Moved(row, 1)
    BY <1>11, EndMoves
  <2> QED
    BY <2>1, <2>2, StoppedHeight DEF Running, Complete
<1>12. ASSUME CPoll(TRUE) \/ CAcknowledge \/ CReset PROVE Window' /\ Height'
  <2>1. pc' = "exited" /\ UNCHANGED result /\ pc # "returned"
    BY <1>12 DEF CPoll, CAcknowledge, CReset, Poll, Acknowledge, Reset, Exit
  <2>2. result = NULL
    BY <2>1 DEF CIInv, IInv, Shape, Phase
  <2>3. Moved(row, 1) \/ Moved(row, 2)
    BY <1>12, EndMoves, ResetMoves
  <2>4. ~Running' /\ ~Complete'
    BY <1>2, <2>1, <2>2 DEF Running, Complete
  <2> QED
    BY <2>3, <2>4, StoppedHeight
<1>13. ASSUME UNCHANGED cvars PROVE Window' /\ Height'
  BY <1>13, QuietHeight DEF cvars, vars, params, counters
<1>14. CNext => \/ CStayInPart \/ COpenPart \/ CReadSector \/ CPoll(FALSE)
                \/ CAllocate \/ CAllocateFails \/ CWriteSectorFails \/ CPoll(TRUE)
                \/ CFinish \/ CAcknowledge \/ COpenPartFails \/ CGiveUp
                \/ CWriteSector \/ CReset
  BY DEF CNext
<1> QED
  BY <1>3, <1>4, <1>5, <1>6, <1>7, <1>8, <1>9, <1>10, <1>11, <1>12, <1>13, <1>14

-----------------------------------------------------------------------------
(* The names on the screen.                                                  *)

LEMMA ScratchedStays ==
  ASSUME CIInv, [CNext]_cvars
  PROVE  UNCHANGED scratched /\ lba \in Nat
BY IsDumpStep DEF CIInv, IInv, Shape, TypeOver, Next, DumpStep, vars, params, Allocate,
   AllocateFails, StayInPart, OpenPart, OpenPartFails, ReadSector, Attempt, GiveUp, WriteSector,
   WriteSectorFails, Poll, Finish, Acknowledge, Reset

LEMMA LineStays ==
  ASSUME UNCHANGED scratched, NEW k
  PROVE  LineOf(k)' = LineOf(k)
BY DEF LineOf, Skipped

\* A name stays where it is.
LEMMA NameStays ==
  ASSUME Kept, UNCHANGED scratched, NEW k, Named(k)
  PROVE  Named(k)'
<1>1. PICK r : r = LineOf(k)
  OBVIOUS
<1>2. r \in DOMAIN screen /\ screen[r].kind = "unread" /\ screen[r].at = k * SECTOR_SIZE
  BY <1>1 DEF Named, OfKind
<1>3. r \in DOMAIN screen' /\ screen'[r] = screen[r] /\ LineOf(k)' = r
  BY <1>1, <1>2, LineStays DEF Kept
<1> QED
  BY <1>2, <1>3 DEF Named, OfKind

\* The message of a sector given up goes to its line.
LEMMA GiveUpNames ==
  ASSUME CIInv, CGiveUp
  PROVE  Named(lba)'
<1>1. /\ pc = "read" /\ UNCHANGED <<scratched, lba>> /\ lba \in Nat /\ chunk_index \in Nat \ {0}
  BY DEF CGiveUp, GiveUp, counters, params, CIInv, IInv, Shape, TypeOver
<1>2. row \in OfKind("unread")' /\ screen'[row].at = lba * SECTOR_SIZE
  BY GiveUpDraws
<1>3. lba \in scratched
  BY GaveUp DEF CGiveUp, CIInv
<1>4. PartOf(lba) = chunk_index - 1
  BY <1>1, NextPlace DEF CIInv, IInv, Shape, Phase, Position, Running
<1>5. row = Used + 3
  BY <1>1 DEF CIInv, Height
<1>6. /\ Cardinality(Skipped(lba)) \in Nat
      /\ Cardinality(Skipped(lba + 1)) = Cardinality(Skipped(lba)) + 1
  BY <1>1, <1>3, SkippedNext
<1>7. LineOf(lba) = row
  BY <1>1, <1>4, <1>5, <1>6, DebugAssumption DEF LineOf, Used
<1>8. LineOf(lba)' = row
  <2>1. PICK k : k = lba
    OBVIOUS
  <2>2. LineOf(k)' = LineOf(k)
    BY <1>1, LineStays
  <2> QED
    BY <1>1, <1>7, <2>1, <2>2 DEF LineOf
<1> QED
  BY <1>1, <1>2, <1>8 DEF Named

LEMMA StepNames ==
  ASSUME CIInv, [CNext]_cvars, Kept
  PROVE  Names'
<1>1. UNCHANGED scratched /\ lba \in Nat
  BY ScratchedStays
<1>2. \A k \in 0 .. lba - 1 : k \in scratched => Named(k)'
  BY <1>1, NameStays DEF CIInv, Names
<1>3. ASSUME WriteSector PROVE Names'
  <2>1. /\ pc = "write" /\ pc' = "poll" /\ lba' = lba + ReadSize \div SECTOR_SIZE
    BY <1>3 DEF WriteSector, Advance
  <2>2. ReadSize \div SECTOR_SIZE = 1
    BY <2>1, WholeSector DEF CIInv, IInv, Shape, Phase
  <2>3. lba' = lba + 1
    BY <2>1, <2>2
  <2>4. \A k : k = lba /\ k \in scratched => Named(k)'
    BY <1>1, <2>1, NameStays DEF CIInv, Names
  <2>5. \A k \in 0 .. lba' - 1 : k \in 0 .. lba - 1 \/ k = lba
    BY <1>1, <2>3
  <2> QED
    BY <1>1, <1>2, <2>1, <2>4, <2>5 DEF Names
<1>4. ASSUME CGiveUp PROVE Names'
  <2>1. UNCHANGED lba
    BY <1>4 DEF CGiveUp, GiveUp, counters
  <2>2. Named(lba)'
    BY <1>4, GiveUpNames
  <2> QED
    BY <1>1, <1>2, <2>1, <2>2 DEF Names
<1>5. ASSUME NEW ok \in BOOLEAN, ReadSector(ok) PROVE Names'
  <2>1. UNCHANGED lba /\ (pc' = "write" => lba \notin scratched)
    BY <1>5 DEF ReadSector, Attempt, counters
  <2> QED
    BY <1>1, <1>2, <2>1 DEF Names
<1>6. ASSUME UNCHANGED lba, pc' # "write" \/ UNCHANGED pc PROVE Names'
  <2>1. pc' = "write" /\ lba \in scratched => Named(lba)'
    BY <1>1, <1>6, NameStays DEF CIInv, Names
  <2> QED
    BY <1>1, <1>2, <1>6, <2>1 DEF Names
<1>7. \/ WriteSector \/ CGiveUp \/ \E ok \in BOOLEAN : ReadSector(ok)
      \/ UNCHANGED lba /\ (pc' # "write" \/ UNCHANGED pc)
  BY DEF CNext, cvars, vars, counters, CStayInPart, COpenPart, CReadSector, CPoll, CAllocate,
     CAllocateFails, CWriteSectorFails, CFinish, CAcknowledge, COpenPartFails, CWriteSector,
     CReset, Allocate, AllocateFails, StayInPart, StartReading, OpenPart, OpenPartFails,
     WriteSectorFails, Poll, Finish, Acknowledge, Reset, Return, Exit
<1> QED
  BY <1>3, <1>4, <1>5, <1>6, <1>7

LEMMA StepCIInv == CIInv /\ [CNext]_cvars => CIInv'
<1> SUFFICES ASSUME CIInv, [CNext]_cvars PROVE CIInv'
  OBVIOUS
<1>1. IInv'
  BY IsDumpStep, StepIInv DEF CIInv
<1>2. Kept /\ ScreenType' /\ Place'
  BY StepDraws DEF Drawing
<1>3. Names'
  BY <1>2, StepNames
<1>4. Window' /\ Height'
  BY StepHeight
<1> QED
  BY <1>1, <1>2, <1>3, <1>4 DEF CIInv

\* What the properties rest on always holds.
THEOREM CInvariance == CSpec => []CIInv
BY InitCIInv, StepCIInv, PTL DEF CSpec

\* The types: nothing but the known lines is ever on the screen, and the cursor
\* is on a line of it or just below.
THEOREM CTypeCorrect == CSpec => []CTypeOK
<1>1. CIInv => CTypeOK
  <2> SUFFICES ASSUME CIInv PROVE CTypeOK
    OBVIOUS
  <2>1. TypeOK
    BY DEF CIInv, IInv, Shape, TypeOK, Blocks
  <2>2. row \in 1 .. Len(screen) + 1
    <3>1. row \in Nat \ {0} /\ row <= Len(screen) + 1 /\ Len(screen) \in Nat
      BY LenProperties DEF CIInv, ScreenType, Place
    <3> QED
      BY <3>1
  <2>3. row \in top .. top + ROWS - 1
    BY RowsAssumption DEF CIInv, Window, ScreenType
  <2> QED
    BY <2>1, <2>2, <2>3 DEF CTypeOK, CIInv, ScreenType, Window
<1> QED
  BY <1>1, CInvariance, PTL

\* The unreadable sectors between two.
LEMMA SkippedBetween ==
  ASSUME NEW m \in Nat, NEW n \in Nat, m <= n
  PROVE  /\ {j \in m .. n - 1 : j \in scratched} = Skipped(n) \ Skipped(m)
         /\ Cardinality(Skipped(n) \ Skipped(m)) =
              Cardinality(Skipped(n)) - Cardinality(Skipped(m))
         /\ Cardinality(Skipped(n)) \in Nat /\ Cardinality(Skipped(m)) \in Nat
<1>1. \A i \in Nat : IsFiniteSet(Skipped(i)) /\ Cardinality(Skipped(i)) \in Nat
  <2>1. ASSUME NEW i \in Nat PROVE IsFiniteSet(Skipped(i))
    <3>1. IsFiniteSet(0 .. i - 1)
      BY FS_Interval
    <3> QED
      BY <3>1, FS_Subset DEF Skipped
  <2> QED
    BY <2>1, FS_CardinalityType
<1>2. {j \in m .. n - 1 : j \in scratched} = Skipped(n) \ Skipped(m)
  BY DEF Skipped
<1>3. Skipped(n) \cap Skipped(m) = Skipped(m)
  BY DEF Skipped
<1>4. Cardinality(Skipped(n) \ Skipped(m)) =
        Cardinality(Skipped(n)) - Cardinality(Skipped(n) \cap Skipped(m))
  BY <1>1, FS_Difference
<1> QED
  BY <1>1, <1>2, <1>3, <1>4

\* The name of a sector passed as zeros stays in sight until the messages of as many
\* later sectors and parts as the console has room for have been printed.
THEOREM NamedAsLongAsRoom == CSpec => []LatestNamed
<1>1. CIInv => LatestNamed
  <2> SUFFICES ASSUME CIInv, Running \/ Complete, NEW k \in 0 .. lba - 1, Dumped(k) = Zero,
                      LinesBelow(k) < ROWS
               PROVE  Shown(k)
    BY DEF LatestNamed
  <2>1. /\ lba \in Nat /\ k \in Nat /\ k + 1 <= lba /\ chunk_index \in Nat \ {0}
        /\ top \in Int
    BY DEF CIInv, IInv, Shape, TypeOver, Window
  <2>2. \A j \in 0 .. lba - 1 : Dumped(j) = Zero <=> j \in scratched
    <3>1. TAKE j \in 0 .. lba - 1
    <3>2. Placed(j) /\ j \in Nat
      BY <2>1 DEF CIInv, IInv, AllPlaced
    <3>3. Dumped(j) = Contents(j)
      BY <3>2 DEF Placed, Dumped
    <3> QED
      BY <3>2, <3>3, MarksAssumption DEF Contents
  <2>3. Named(k)
    BY <2>2 DEF CIInv, Names
  <2>4. {j \in k + 1 .. lba - 1 : Dumped(j) = Zero} = {j \in k + 1 .. lba - 1 : j \in scratched}
    BY <2>1, <2>2
  <2>5. PICK a \in Nat, b \in Nat :
          /\ a = Cardinality(Skipped(lba)) /\ b = Cardinality(Skipped(k + 1))
          /\ Cardinality({j \in k + 1 .. lba - 1 : Dumped(j) = Zero}) = a - b
    <3>1. k + 1 \in Nat /\ k + 1 <= lba
      BY <2>1
    <3>2. PICK m \in Nat : m = k + 1 /\ m <= lba
      BY <3>1
    <3>3. /\ {j \in m .. lba - 1 : j \in scratched} = Skipped(lba) \ Skipped(m)
          /\ Cardinality(Skipped(lba) \ Skipped(m)) =
               Cardinality(Skipped(lba)) - Cardinality(Skipped(m))
          /\ Cardinality(Skipped(lba)) \in Nat /\ Cardinality(Skipped(m)) \in Nat
      BY <2>1, <3>2, SkippedBetween
    <3> QED
      BY <2>4, <3>2, <3>3
  <2>6. PartOf(k) \in Nat
    BY <2>1, PlaceOf
  <2>7. LineOf(k) >= top
    <3>1. CASE top <= 1
      BY <2>1, <2>5, <2>6, <3>1 DEF LineOf
    <3>2. CASE ~(top <= 1) /\ Complete
      <4>1. top + ROWS <= Used + 6
        BY <3>2 DEF CIInv, Height
      <4> QED
        BY <2>1, <2>5, <2>6, <3>2, <4>1, RowsAssumption, DebugAssumption
        DEF LinesBelow, LineOf, Used
    <3>3. CASE ~(top <= 1) /\ ~Complete
      <4>1. top + ROWS <= Used + 5
        BY <3>3 DEF CIInv, Height
      <4> QED
        BY <2>1, <2>5, <2>6, <3>3, <4>1, RowsAssumption, DebugAssumption
        DEF LinesBelow, LineOf, Used
    <3> QED
      BY <3>1, <3>2, <3>3
  <2> QED
    BY <2>3, <2>7 DEF Named, Shown
<1> QED
  BY <1>1, CInvariance, PTL

\* Each pass of the loop finds the progress where it looks for it.
THEOREM ProgressKept == CSpec => []ProgressInPlace
<1>1. CIInv => ProgressInPlace
  <2> SUFFICES ASSUME CIInv, pc \in {"poll", "loop"}
               PROVE  /\ OfKind("progress") = {row - 1} /\ row - 1 >= top
                      /\ screen[row - 1] = Progress(offset, errorCount)
    BY DEF ProgressInPlace
  <2>1. row - 1 >= top
    BY DEF CIInv, Window, ScreenType
  <2> QED
    BY <2>1 DEF CIInv, Place
<1> QED
  BY <1>1, CInvariance, PTL

\* No message is ever drawn over.
THEOREM NothingHidden == CSpec => OnlyProgressReplaced
<1>1. CIInv /\ [CNext]_cvars =>
        [\A r \in DOMAIN screen :
           r \in DOMAIN screen' /\ (screen'[r] # screen[r] => screen[r].kind = "progress")]_cvars
  BY StepDraws DEF Drawing, Kept
<1> QED
  BY <1>1, CInvariance, PTL DEF CSpec, OnlyProgressReplaced

-----------------------------------------------------------------------------
(* The messages of unreadable sectors are exact.                             *)

\* A message is of an unreadable sector passed before, or of the one just given up.
Given(r) == \E k \in scratched :
  /\ screen[r].at = k * SECTOR_SIZE
  /\ k < lba \/ (k = lba /\ pc \in {"write", "error", "returned", "exited"})

Told ==
  /\ \A r \in OfKind("unread") : Given(r)
  /\ \A r, s \in OfKind("unread") : screen[r].at = screen[s].at => r = s
  /\ IsFiniteSet(OfKind("unread")) /\ Cardinality(OfKind("unread")) = errorCount

\* A message on the screen was there before, or is one of the lines drawn.
LEMMA MessageDrawn ==
  ASSUME NEW n \in Nat, NEW lines, Len(lines) = n, NEW at \in Nat, Put(at, lines),
         NEW r, r \in OfKind("unread")'
  PROVE  \/ r \in OfKind("unread")
         \/ r \in at .. at + n - 1 /\ lines[r - at + 1].kind = "unread"
<1>1. r \in DOMAIN screen' /\ screen'[r].kind = "unread"
  BY DEF OfKind
<1>2. screen'[r] = IF r \in at .. at + n - 1 THEN lines[r - at + 1]
                   ELSE IF r \in DOMAIN screen THEN screen[r] ELSE Text("")
  BY <1>1 DEF Put, Over
<1>3. Text("").kind # "unread"
  BY DEF Text
<1> QED
  BY <1>1, <1>2, <1>3 DEF OfKind

\* No message is new.
Silent == \A r : r \in OfKind("unread")' => r \in OfKind("unread")

LEMMA PlainDrawn ==
  ASSUME NEW n \in Nat, NEW lines, Len(lines) = n, NEW at \in Nat, Put(at, lines),
         \A i \in 1 .. n : lines[i].kind # "unread"
  PROVE  Silent
<1> SUFFICES ASSUME NEW r, r \in OfKind("unread")' PROVE r \in OfKind("unread")
  BY DEF Silent
<1>1. \/ r \in OfKind("unread")
      \/ r \in at .. at + n - 1 /\ lines[r - at + 1].kind = "unread"
  BY MessageDrawn
<1>2. r \in at .. at + n - 1 => r - at + 1 \in 1 .. n
  OBVIOUS
<1> QED
  BY <1>1, <1>2

LEMMA PlainKinds ==
  ASSUME NEW words, NEW done, NEW errors
  PROVE  Text(words).kind # "unread" /\ Progress(done, errors).kind # "unread"
BY DEF Text, Progress

LEMMA OnePlain ==
  ASSUME NEW line, line.kind # "unread", NEW at \in Nat, Put(at, <<line>>)
  PROVE  Silent
<1>1. PICK lines : lines = <<line>>
  OBVIOUS
<1>2. Len(lines) = 1 /\ lines[1] = line
  BY <1>1
<1>3. \A i \in 1 .. 1 : i = 1
  OBVIOUS
<1>4. \A i \in 1 .. 1 : lines[i].kind # "unread"
  BY <1>2, <1>3
<1> QED
  BY <1>1, <1>2, <1>4, PlainDrawn

LEMMA TwoPlain ==
  ASSUME NEW first, NEW second, first.kind # "unread", second.kind # "unread",
         NEW at \in Nat, Put(at, <<first, second>>)
  PROVE  Silent
<1>1. PICK lines : lines = <<first, second>>
  OBVIOUS
<1>2. Len(lines) = 2 /\ lines[1] = first /\ lines[2] = second
  BY <1>1
<1>3. \A i \in 1 .. 2 : i = 1 \/ i = 2
  OBVIOUS
<1>4. \A i \in 1 .. 2 : lines[i].kind # "unread"
  BY <1>2, <1>3
<1> QED
  BY <1>1, <1>2, <1>4, PlainDrawn

LEMMA NoLine == << >> \in Seq(Lines) /\ Len(<< >>) = 0
OBVIOUS

LEMMA NothingPut ==
  ASSUME NEW at \in Nat, Put(at, << >>)
  PROVE  Silent
<1>1. PICK lines : lines = << >>
  OBVIOUS
<1>2. Len(lines) = 0
  BY <1>1
<1>3. \A i \in 1 .. 0 : lines[i].kind # "unread"
  OBVIOUS
<1> QED
  BY <1>1, <1>2, <1>3, PlainDrawn

\* A line and then others.
LEMMA AfterOne ==
  ASSUME NEW S, NEW first \in S, NEW rest \in Seq(S), NEW n \in Nat, Len(rest) = n
  PROVE  /\ Len(<<first>> \o rest) = n + 1 /\ (<<first>> \o rest)[1] = first
         /\ \A i \in 1 .. n + 1 : i # 1 => i - 1 \in 1 .. n /\ (<<first>> \o rest)[i] = rest[i - 1]
<1>1. PICK one \in Seq(S) : one = <<first>> /\ Len(one) = 1 /\ one[1] = first
  <2>1. <<first>> \in Seq(S) /\ Len(<<first>>) = 1 /\ <<first>>[1] = first
    OBVIOUS
  <2> QED
    BY <2>1
<1>2. /\ Len(one \o rest) = Len(one) + Len(rest)
      /\ \A i \in 1 .. Len(one) + Len(rest) :
           (one \o rest)[i] = IF i <= Len(one) THEN one[i] ELSE rest[i - Len(one)]
  BY ConcatProperties
<1>3. Len(one) + Len(rest) = n + 1
  BY <1>1
<1>4. \A i \in 1 .. n + 1 : i <= 1 <=> i = 1
  OBVIOUS
<1>5. 1 \in 1 .. n + 1 /\ \A i \in 1 .. n + 1 : i # 1 => i - 1 \in 1 .. n
  OBVIOUS
<1>6. \A i \in 1 .. n + 1 : (one \o rest)[i] = IF i = 1 THEN one[1] ELSE rest[i - 1]
  BY <1>1, <1>2, <1>3, <1>4
<1> QED
  BY <1>1, <1>2, <1>3, <1>5, <1>6

\* A verbose message, before lines that are not about a sector.
LEMMA VerbosePlain ==
  ASSUME NEW at \in Nat, NEW words \in Texts, NEW rest \in Seq(Lines), NEW n \in Nat, Len(rest) = n,
         \A i \in 1 .. n : rest[i].kind # "unread", verbose(at, words, rest)
  PROVE  Silent
<1>1. PICK message \in Lines : message = Text(words) /\ message.kind # "unread"
  BY PlainKinds, LineTypes
<1>2. CASE Put(at, <<message>> \o rest)
  <2>1. PICK lines : lines = <<message>> \o rest
    OBVIOUS
  <2>2. /\ Len(lines) = n + 1 /\ lines[1] = message
        /\ \A i \in 1 .. n + 1 : i # 1 => i - 1 \in 1 .. n /\ lines[i] = rest[i - 1]
    BY <2>1, AfterOne
  <2>3. \A i \in 1 .. n + 1 : lines[i].kind # "unread"
    BY <1>1, <2>2
  <2>4. PICK m \in Nat : m = n + 1
    OBVIOUS
  <2> QED
    BY <1>2, <2>1, <2>2, <2>3, <2>4, PlainDrawn
<1>3. CASE Put(at, rest)
  BY <1>3, PlainDrawn
<1> QED
  BY <1>1, <1>2, <1>3 DEF verbose, print

\* Only a sector that is given up makes a message.
LEMMA OthersSilent ==
  ASSUME CIInv, [CNext]_cvars, ~CGiveUp
  PROVE  Silent
<1>1. row \in Nat /\ moveUp \in Nat /\ newline(moveUp) \in Nat
  BY DEF CIInv, ScreenType, moveUp, newline
<1>2. PICK at \in Nat, up \in Nat, under \in Nat :
        at = row /\ up = moveUp /\ under = newline(moveUp)
  BY <1>1
<1>3. ASSUME screen' = screen PROVE Silent
  BY <1>3 DEF Silent, OfKind
<1>4. ASSUME NEW words, Put(at, <<Text(words)>>) \/ Put(under, <<Text(words)>>) PROVE Silent
  BY <1>4, PlainKinds, OnePlain
<1>5. CASE CAllocate
  <2>1. PICK first, second : /\ first = Text("Taking a dump...") /\ second = Progress(0, 0)
                             /\ first.kind # "unread" /\ second.kind # "unread"
    BY PlainKinds
  <2>2. Put(at, <<first, second>>)
    BY <1>2, <1>5, <2>1 DEF CAllocate, print
  <2> QED
    BY <2>1, <2>2, TwoPlain
<1>6. CASE CStayInPart
  BY <1>2, <1>6, NothingPut DEF CStayInPart, print
<1>7. CASE COpenPart
  <2>1. PICK rest \in Seq(Lines) : rest = << >> /\ Len(rest) = 0
    BY NoLine
  <2>2. \A i \in 1 .. 0 : rest[i].kind # "unread"
    OBVIOUS
  <2>3. verbose(up, "New chunk created at file", rest)
    BY <1>2, <1>7, <2>1 DEF COpenPart
  <2>4. "New chunk created at file" \in Texts
    BY DEF Texts
  <2> QED
    BY <2>1, <2>2, <2>3, <2>4, VerbosePlain
<1>8. CASE CWriteSector
  <2>1. PICK line : line = Progress(offset', errorCount) /\ line.kind # "unread"
    BY PlainKinds
  <2>2. Put(at, <<line>>)
    BY <1>2, <1>8, <2>1 DEF CWriteSector, print
  <2> QED
    BY <2>1, <2>2, OnePlain
<1>9. CASE CReset
  <2>1. "Received reset callback" \in Texts /\ "Exiting with code" \in Texts
    BY DEF Texts
  <2>2. PICK line \in Lines : line = Exiting /\ line.kind # "unread"
    BY <2>1, PlainKinds, LineTypes DEF Exiting
  <2>3. PICK rest \in Seq(Lines) : rest = <<line>> /\ Len(rest) = 1 /\ rest[1] = line
    BY OneLine
  <2>4. \A i \in 1 .. 1 : i = 1
    OBVIOUS
  <2>5. \A i \in 1 .. 1 : rest[i].kind # "unread"
    BY <2>2, <2>3, <2>4
  <2>6. verbose(at, "Received reset callback", rest)
    BY <1>2, <1>9, <2>2, <2>3 DEF CReset
  <2> QED
    BY <2>1, <2>3, <2>5, <2>6, VerbosePlain
<1>10. CASE CAllocateFails \/ COpenPartFails \/ CWriteSectorFails \/ CPoll(TRUE) \/ CFinish
            \/ CAcknowledge
  <2>1. \E words : Put(at, <<Text(words)>>) \/ Put(under, <<Text(words)>>)
    BY <1>2, <1>10 DEF CAllocateFails, COpenPartFails, CWriteSectorFails, CPoll, CFinish,
       CAcknowledge, Exiting, print
  <2> QED
    BY <1>4, <2>1
<1>11. CASE CReadSector \/ CPoll(FALSE) \/ UNCHANGED cvars
  BY <1>3, <1>11 DEF CReadSector, CPoll, cvars, console
<1> QED
  BY <1>5, <1>6, <1>7, <1>8, <1>9, <1>10, <1>11 DEF CNext

\* What is said stays as it was said.
LEMMA MessageStays ==
  ASSUME Kept, NEW r \in OfKind("unread")
  PROVE  r \in OfKind("unread")' /\ screen'[r] = screen[r]
<1>1. r \in DOMAIN screen /\ screen[r].kind = "unread"
  BY DEF OfKind
<1>2. r \in DOMAIN screen' /\ screen'[r] = screen[r]
  BY <1>1 DEF Kept
<1> QED
  BY <1>1, <1>2 DEF OfKind

\* A message on the screen stays one of a sector that was passed or given up.
LEMMA GivenStays ==
  ASSUME CIInv, [CNext]_cvars, Kept, NEW r \in OfKind("unread"), Given(r)
  PROVE  Given(r)'
<1>1. PICK k \in scratched :
        /\ screen[r].at = k * SECTOR_SIZE
        /\ k < lba \/ (k = lba /\ pc \in {"write", "error", "returned", "exited"})
  BY DEF Given
<1>2. scratched' = scratched /\ screen'[r].at = k * SECTOR_SIZE
  <2>1. scratched' = scratched
    BY IsDumpStep DEF CIInv, IInv, Shape, TypeOver, Next, DumpStep, vars, params, Allocate,
       AllocateFails, StayInPart, OpenPart, OpenPartFails, ReadSector, Attempt, GiveUp, WriteSector,
       WriteSectorFails, Poll, Finish, Acknowledge, Reset
  <2> QED
    BY <1>1, <2>1, MessageStays
<1>3. CASE WriteSector
  <2>1. lba' = lba + 1 /\ pc = "write"
    <3>1. pc = "write" /\ lba' = lba + ReadSize \div SECTOR_SIZE
      BY <1>3 DEF WriteSector, Advance
    <3> QED
      BY <3>1, WholeSector DEF CIInv, IInv, Shape, Phase
  <2>2. k \in Nat /\ lba \in Nat
    BY EnvironmentAssumption DEF CIInv, IInv, Shape, TypeOver
  <2>3. k < lba'
    BY <1>1, <2>1, <2>2
  <2> QED
    BY <1>2, <2>3 DEF Given
<1>4. CASE ~WriteSector
  <2>1. UNCHANGED lba
    BY <1>4, IsDumpStep DEF Next, DumpStep, vars, counters, Allocate,
       AllocateFails, StayInPart, OpenPart, OpenPartFails, ReadSector, Attempt, GiveUp,
       WriteSectorFails, Poll, Finish, Acknowledge, Reset
  <2>2. pc \in {"write", "error", "returned", "exited"} =>
          pc' \in {"write", "error", "returned", "exited"}
    BY <1>4, IsDumpStep DEF Next, DumpStep, vars, Allocate, AllocateFails, StayInPart, OpenPart,
       OpenPartFails, StartReading, ReadSector, Attempt, GiveUp, StopOrSkip, WriteSectorFails,
       Poll, Finish, Acknowledge, Reset, Return, Exit, Running
  <2> QED
    BY <1>1, <1>2, <2>1, <2>2 DEF Given
<1> QED
  BY <1>3, <1>4

LEMMA OthersTold ==
  ASSUME CIInv, Told, [CNext]_cvars, Kept, ~CGiveUp
  PROVE  Told'
<1>1. OfKind("unread")' = OfKind("unread")
  BY OthersSilent, MessageStays DEF Silent
<1>2. \A r \in OfKind("unread") : screen'[r] = screen[r]
  BY MessageStays
<1>3. errorCount' = errorCount
  BY IsDumpStep DEF CNext, Next, DumpStep, vars, cvars, CStayInPart, COpenPart, CReadSector, CPoll, CAllocate,
     CAllocateFails, CWriteSectorFails, CFinish, CAcknowledge, COpenPartFails,
     CWriteSector, CReset, Allocate, AllocateFails, StayInPart, OpenPart, OpenPartFails, ReadSector,
     Attempt, WriteSector, WriteSectorFails, Poll, Finish, Acknowledge, Reset
<1>4. \A r \in OfKind("unread") : Given(r)'
  BY GivenStays DEF Told
<1>5. IsFiniteSet(OfKind("unread"))' /\ Cardinality(OfKind("unread"))' = errorCount'
  BY <1>1, <1>3 DEF Told
<1> QED
  BY <1>1, <1>2, <1>4, <1>5 DEF Told

\* The one message that is new is of a sector none is about yet.
LEMMA GiveUpTold ==
  ASSUME CIInv, Told, CGiveUp
  PROVE  Told'
<1>1. /\ pc = "read" /\ pc' \in {"write", "error"} /\ UNCHANGED lba /\ errorCount' = errorCount + 1
      /\ scratched' = scratched /\ lba \in scratched /\ lba \in Nat
  <2>1. lba \in scratched
    BY GaveUp DEF CGiveUp, CIInv
  <2>2. pc' \in {"write", "error"}
    BY DEF CGiveUp, GiveUp, StopOrSkip
  <2> QED
    BY <2>1, <2>2 DEF CGiveUp, GiveUp, CountError, counters, params, CIInv, IInv, Shape, TypeOver
<1>2. Kept /\ row \in OfKind("unread")' /\ screen'[row].at = lba * SECTOR_SIZE
  BY GiveUpDraws DEF Drawing
<1>3. \A r : r \in OfKind("unread")' => r \in OfKind("unread") \/ r = row
  <2>1. PICK at \in Nat : at = row
    BY DEF CIInv, ScreenType
  <2>2. PICK n \in Nat : \E rest \in Seq(Lines) :
          /\ Len(rest) = n /\ Put(at, <<ReadError>> \o rest)
          /\ \A i \in 1 .. n : rest[i].kind # "unread"
    <3>1. CASE cancelOnError
      <4>1. "ERR" \in Texts /\ "Press A to exit." \in Texts
        BY DEF Texts
      <4>2. PICK err \in Lines, press \in Lines :
              /\ err = Text("ERR") /\ press = Text("Press A to exit.")
              /\ err.kind # "unread" /\ press.kind # "unread"
        BY <4>1, PlainKinds, LineTypes
      <4>3. PICK rest \in Seq(Lines) :
              rest = <<err, press>> /\ Len(rest) = 2 /\ rest[1] = err /\ rest[2] = press
        <5>1. /\ <<err, press>> \in Seq(Lines) /\ Len(<<err, press>>) = 2
              /\ <<err, press>>[1] = err /\ <<err, press>>[2] = press
          OBVIOUS
        <5> QED
          BY <5>1
      <4>4. \A i \in 1 .. 2 : i = 1 \/ i = 2
        OBVIOUS
      <4>5. \A i \in 1 .. 2 : rest[i].kind # "unread"
        BY <4>2, <4>3, <4>4
      <4>6. Put(at, <<ReadError>> \o rest)
        BY <2>1, <3>1, <4>2, <4>3 DEF CGiveUp, print
      <4> QED
        BY <4>3, <4>5, <4>6
    <3>2. CASE ~cancelOnError
      <4>1. PICK rest \in Seq(Lines) : rest = << >> /\ Len(rest) = 0
        BY NoLine
      <4>2. \A i \in 1 .. 0 : rest[i].kind # "unread"
        OBVIOUS
      <4>3. Put(at, <<ReadError>> \o rest)
        BY <2>1, <3>2, <4>1 DEF CGiveUp, print
      <4> QED
        BY <4>1, <4>2, <4>3
    <3> QED
      BY <3>1, <3>2
  <2>3. PICK rest \in Seq(Lines) :
          /\ Len(rest) = n /\ Put(at, <<ReadError>> \o rest)
          /\ \A i \in 1 .. n : rest[i].kind # "unread"
    BY <2>2
  <2>4. PICK lines : lines = <<ReadError>> \o rest
    OBVIOUS
  <2>5. /\ Len(lines) = n + 1
        /\ \A i \in 1 .. n + 1 : i # 1 => lines[i].kind # "unread"
    <3>1. PICK message \in Lines : message = ReadError
      <4>1. PICK m \in Nat : m = offset
        BY DEF CIInv, IInv, Shape, TypeOver
      <4> QED
        BY <4>1 DEF ReadError, Unread, Lines
    <3>2. /\ Len(lines) = n + 1
          /\ \A i \in 1 .. n + 1 : i # 1 => i - 1 \in 1 .. n /\ lines[i] = rest[i - 1]
      BY <2>3, <2>4, <3>1, AfterOne
    <3> QED
      BY <2>3, <3>2
  <2>6. ASSUME NEW r, r \in OfKind("unread")'
        PROVE  r \in OfKind("unread") \/ r = at
    <3>1. PICK m \in Nat : m = n + 1
      OBVIOUS
    <3>2. \/ r \in OfKind("unread")
          \/ r \in at .. at + m - 1 /\ lines[r - at + 1].kind = "unread"
      <4>1. Put(at, lines) /\ Len(lines) = m
        BY <2>3, <2>4, <2>5, <3>1
      <4> QED
        BY <2>6, <4>1, MessageDrawn
    <3>3. r \in at .. at + m - 1 => r = at \/ (r - at + 1 \in 1 .. n + 1 /\ r - at + 1 # 1)
      BY <3>1
    <3> QED
      BY <2>5, <3>2, <3>3
  <2> QED
    BY <2>1, <2>6
<1>4. \A r \in OfKind("unread") : /\ screen'[r] = screen[r]
                                  /\ \E k \in scratched : screen[r].at = k * SECTOR_SIZE /\ k < lba
  BY <1>1, <1>2, MessageStays DEF Told, Given
<1>5. \A r \in OfKind("unread") : screen'[r].at # lba * SECTOR_SIZE
  <2>1. \A k \in Nat : k < lba => k * SECTOR_SIZE < lba * SECTOR_SIZE
    BY <1>1, ScaleLess
  <2>2. \A k \in scratched : k \in Nat
    BY EnvironmentAssumption DEF CIInv, IInv, Shape, TypeOver
  <2>3. \A k \in Nat : k * SECTOR_SIZE \in Nat
    BY SizesAssumption
  <2>4. \A k \in Nat : k < lba => k * SECTOR_SIZE # lba * SECTOR_SIZE
    <3>1. PICK here \in Nat : here = lba * SECTOR_SIZE
      BY <1>1, <2>3
    <3>2. \A a \in Nat : a < here => a # here
      OBVIOUS
    <3> QED
      BY <2>1, <2>3, <3>1, <3>2
  <2> QED
    BY <1>4, <2>2, <2>4
<1>6. row \notin OfKind("unread")
  BY <1>2, <1>5
<1>7. OfKind("unread")' = OfKind("unread") \cup {row}
  BY <1>2, <1>3, MessageStays
<1>8. \A r \in OfKind("unread")' : Given(r)'
  <2>1. ASSUME NEW r \in OfKind("unread") PROVE Given(r)'
    BY <1>1, <1>4 DEF Given
  <2>2. Given(row)' \/ \E k \in scratched' : screen'[row].at = k * SECTOR_SIZE /\ k = lba'
    BY <1>1, <1>2
  <2>3. ASSUME NEW r, r = row PROVE Given(r)'
    BY <1>1, <1>2, <2>3 DEF Given
  <2> QED
    BY <1>7, <2>1, <2>3
<1>9. \A r, s \in OfKind("unread")' : screen'[r].at = screen'[s].at => r = s
  BY <1>2, <1>4, <1>5, <1>7 DEF Told
<1>10. (IsFiniteSet(OfKind("unread")) /\ Cardinality(OfKind("unread")) = errorCount)'
  <2>1. PICK old : old = OfKind("unread")
    OBVIOUS
  <2>2. IsFiniteSet(old) /\ Cardinality(old) = errorCount /\ row \notin old
    BY <1>6, <2>1 DEF Told
  <2>3. IsFiniteSet(old \cup {row}) /\ Cardinality(old \cup {row}) = errorCount + 1
    BY <2>2, FS_AddElement
  <2> QED
    BY <1>1, <1>7, <2>1, <2>3
<1> QED
  BY <1>8, <1>9, <1>10 DEF Told

LEMMA InitTold == CInit => Told
<1> SUFFICES ASSUME CInit PROVE Told
  OBVIOUS
<1>1. OfKind("unread") = {}
  <2>1. PICK line : line = Text("Press Home or Reset to exit.") /\ line.kind # "unread"
    BY PlainKinds
  <2>2. DOMAIN <<line>> = {1} /\ <<line>>[1] = line
    OBVIOUS
  <2>3. screen = <<line>>
    BY <2>1 DEF CInit
  <2> QED
    BY <2>1, <2>2, <2>3 DEF OfKind
<1>2. errorCount = 0
  BY DEF CInit, Init
<1> QED
  BY <1>1, <1>2, FS_EmptySet DEF Told

\* The screen names the unreadable sectors and no others, each once, and as many as
\* the count that is shown.
THEOREM MessagesTrue == CSpec => []MessagesExact
<1>1. CIInv /\ Told /\ [CNext]_cvars => Told'
  BY OthersTold, GiveUpTold, StepDraws DEF Drawing
<1>2. CSpec => []Told
  BY <1>1, InitTold, CInvariance, PTL DEF CSpec
<1>3. Told => MessagesExact
  BY DEF Told, Given, MessagesExact
<1> QED
  BY <1>2, <1>3, PTL
=============================================================================
