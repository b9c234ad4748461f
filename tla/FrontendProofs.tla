--------------------------- MODULE FrontendProofs ---------------------------
(* Proofs about Frontend, for any set of buttons the user may touch.        *)
EXTENDS Frontend, TLAPS

USE DEF settings, progress, Prompts, menu, Use, resetAfterPause, Report, AwaitRelease, Mountable

\* While a press that had its chance is down, the program waits for its release, has
\* exited, or came to the next prompt straight from the menu, where A, the button of
\* the prompt, was tested before the one that was acted on.
Spent == \A b \in Buttons : used[b] # 0 =>
  /\ used[b] = 1 /\ b \in held
  /\ releasing \/ pc = "exited" \/ (pc = "drive" /\ b # "A")

\* What has been achieved by the time main gets to a place.
Stage ==
  /\ pc \in {"menu", "drive", "mount", "disc", "init", "identify", "start", "dump"} =>
       shown = <<cancelOnError, driveFs>> /\ outcome = NULL
  /\ pc = "welcome" => outcome = NULL
  /\ pc \in {"drive", "mount", "disc", "init", "identify", "start", "dump"} =>
       driveType \in {"USB", "SD"}
  /\ pc \in {"disc", "init", "identify", "start", "dump"} => mounted
  /\ pc \in {"start", "dump"} => identified

FInv == TypeOK /\ Spent /\ Stage

LEMMA InitFInv == Init => FInv
<1> SUFFICES ASSUME Init PROVE FInv
  OBVIOUS
<1>1. used \in [Buttons -> Nat] /\ \A b \in Buttons : used[b] = 0
  BY DEF Init
<1>2. TypeOK
  BY <1>1 DEF Init, TypeOK
<1>3. Spent
  BY <1>1 DEF Spent
<1>4. Stage
  BY DEF Init, Stage
<1> QED
  BY <1>2, <1>3, <1>4 DEF FInv

\* After leads from prompts to places of main, and from no other place away.
LEMMA AfterType ==
  ASSUME NEW place \in Prompts \cup {"menu", "pause"}
  PROVE  After(place) =
           IF place = "welcome" THEN "menu" ELSE
           IF place = "drive" THEN "mount" ELSE
           IF place = "disc" THEN "init" ELSE
           IF place = "start" THEN "dump" ELSE
           IF place = "pause" THEN "exit" ELSE
           IF place = "exit" THEN "exited" ELSE place
BY DEF After, Successors

LEMMA UserFInv == FInv /\ User => FInv'
<1> SUFFICES ASSUME FInv, NEW b \in Buttons, Press(b) \/ Release(b) PROVE FInv'
  BY DEF User
<1> USE DEF FInv
<1>1. CASE Press(b)
  <2>1. TypeOK'
    BY <1>1 DEF Press, TypeOK
  <2>2. Spent'
    BY <1>1 DEF Press, Spent
  <2>3. Stage'
    BY <1>1 DEF Press, Stage
  <2> QED
    BY <2>1, <2>2, <2>3
<1>2. CASE Release(b)
  <2>1. TypeOK'
    BY <1>2 DEF Release, TypeOK
  <2>2. Spent'
    BY <1>2 DEF Release, Spent, TypeOK
  <2>3. Stage'
    BY <1>2 DEF Release, Stage
  <2> QED
    BY <2>1, <2>2, <2>3
<1> QED
  BY <1>1, <1>2

LEMMA PromptFInv == FInv /\ (waitForA \/ waitForButtonRelease) => FInv'
<1> USE DEF FInv
<1>1. ASSUME FInv, waitForA PROVE FInv'
  <2>1. TypeOK'
    BY <1>1 DEF waitForA, TypeOK
  <2>2. Spent'
    <3>1. "A" \in Buttons /\ used["A"] = 0
      BY <1>1 DEF waitForA, Spent, TypeOK
    <3> QED
      BY <1>1, <3>1 DEF waitForA, Spent, TypeOK
  <2>3. Stage'
    BY <1>1 DEF waitForA, Stage
  <2> QED
    BY <2>1, <2>2, <2>3
<1>2. ASSUME FInv, waitForButtonRelease PROVE FInv'
  <2>1. pc \in Prompts \cup {"menu", "pause"}
    BY <1>2 DEF waitForButtonRelease, TypeOK
  <2>2. TypeOK'
    <3>1. /\ pc' \in Prompts \cup {"menu", "mount", "init", "dump", "exited"}
          /\ releasing' = FALSE
      BY <1>2, <2>1, AfterType DEF waitForButtonRelease
    <3>2. shown' \in {NULL} \cup (BOOLEAN \X {"FAT32", "NTFS"})
      BY <1>2 DEF waitForButtonRelease, TypeOK
    <3>3. UNCHANGED <<settings, progress, held, used>>
      BY <1>2 DEF waitForButtonRelease
    <3> QED
      BY <1>2, <3>1, <3>2, <3>3 DEF TypeOK
  <2>3. Spent'
    BY <1>2 DEF waitForButtonRelease, Spent
  <2>4. Stage'
    BY <1>2, <2>1, AfterType DEF waitForButtonRelease, Stage, TypeOK
  <2> QED
    BY <2>2, <2>3, <2>4
<1> QED
  BY <1>1, <1>2

LEMMA MenuFInv == FInv /\ Menu => FInv'
<1> SUFFICES ASSUME FInv, Menu PROVE FInv'
  OBVIOUS
<1> USE DEF FInv
<1>1. \A b : Chosen(b) => b \in Buttons
  BY DEF Chosen, TypeOK
<1>2. pc = "menu" /\ ~releasing
  BY DEF Menu, ToggleCancelOnError, ChangeFilesystem, ChooseDrive, ReprintMenu, ExitFromMenu,
         IgnoreButtons, Chosen
<1>3. \A b \in Buttons : used[b] = 0
  BY <1>2 DEF Spent
<1>4. CASE ToggleCancelOnError \/ ChangeFilesystem \/ ReprintMenu
  <2>1. PICK b \in {"A", "B", "MINUS"} : Chosen(b) /\ Use(b)
    BY <1>4 DEF ToggleCancelOnError, ChangeFilesystem, ReprintMenu
  <2>2. /\ pc' = "menu" /\ releasing' /\ UNCHANGED <<progress, held>>
        /\ releasing' = TRUE
        /\ shown' = <<cancelOnError', driveFs'>>
        /\ cancelOnError' \in BOOLEAN /\ driveFs' \in {"FAT32", "NTFS"}
    BY <1>2, <1>4 DEF ToggleCancelOnError, ChangeFilesystem, ReprintMenu, TypeOK
  <2>3. TypeOK'
    BY <1>1, <2>1, <2>2 DEF TypeOK
  <2>4. Spent'
    BY <1>1, <1>3, <2>1, <2>2 DEF Spent, TypeOK, Chosen
  <2>5. Stage'
    BY <1>2, <2>2 DEF Stage
  <2> QED
    BY <2>3, <2>4, <2>5
<1>5. CASE \E b \in {"1", "2"} : ChooseDrive(b)
  <2>1. PICK b \in {"1", "2"} : ChooseDrive(b)
    BY <1>5
  <2>2. TypeOK'
    BY <1>1, <1>2, <2>1 DEF ChooseDrive, TypeOK
  <2>3. Spent'
    <3>1. "A" \notin held
      BY <2>1 DEF ChooseDrive, Chosen, MenuButtons
    <3>2. \A x \in Buttons : used'[x] = IF x \in held THEN 1 ELSE 0
      BY <1>1, <1>3, <2>1 DEF ChooseDrive, Chosen
    <3>3. pc' = "drive" /\ held' = held
      BY <2>1 DEF ChooseDrive
    <3> QED
      BY <3>1, <3>2, <3>3 DEF Spent
  <2>4. Stage'
    BY <1>2, <2>1 DEF ChooseDrive, Stage
  <2> QED
    BY <2>2, <2>3, <2>4
<1>6. CASE ExitFromMenu
  <2>1. TypeOK'
    BY <1>1, <1>2, <1>6 DEF ExitFromMenu, TypeOK
  <2>2. Spent'
    BY <1>1, <1>3, <1>6 DEF ExitFromMenu, Spent, TypeOK, Chosen
  <2>3. Stage'
    BY <1>6 DEF ExitFromMenu, Stage
  <2> QED
    BY <2>1, <2>2, <2>3
<1>7. CASE IgnoreButtons
  <2>1. TypeOK' /\ Stage'
    BY <1>2, <1>7 DEF IgnoreButtons, TypeOK, Stage
  <2>2. Spent'
    BY <1>3, <1>7 DEF IgnoreButtons, Spent
  <2> QED
    BY <2>1, <2>2
<1> QED
  BY <1>4, <1>5, <1>6, <1>7 DEF Menu

LEMMA WorkFInv == FInv /\ (Work \/ Reset) => FInv'
<1> SUFFICES ASSUME FInv, Work \/ Reset PROVE FInv'
  OBVIOUS
<1> USE DEF FInv
<1>1. CASE HomeInDump
  <2>1. ~releasing /\ pc = "dump" /\ "HOME" \in Buttons
    BY <1>1 DEF HomeInDump, TypeOK
  <2>2. \A b \in Buttons : used[b] = 0
    BY <2>1 DEF Spent
  <2>3. TypeOK'
    BY <1>1, <2>1 DEF HomeInDump, TypeOK
  <2>4. Spent'
    BY <1>1, <2>1, <2>2 DEF HomeInDump, Spent, TypeOK
  <2>5. Stage'
    BY <1>1 DEF HomeInDump, Stage
  <2> QED
    BY <2>3, <2>4, <2>5
<1>2. CASE Reset
  BY <1>2 DEF Reset, TypeOK, Spent, Stage
<1>3. CASE ~HomeInDump /\ ~Reset
  <2>1. ~releasing /\ UNCHANGED <<used, held, settings, shown, driveType>>
    BY <1>3 DEF Work, Mount, InitializeDisk, IdentifyDisk, DumpEnds, TypeOK
  <2>2. \A b \in Buttons : used[b] = 0
    BY <1>3 DEF Work, Mount, InitializeDisk, IdentifyDisk, DumpEnds, TypeOK, Spent
  <2>3. TypeOK'
    <3>1. /\ pc' \in {"disc", "identify", "start", "pause"}
          /\ releasing' \in BOOLEAN /\ (releasing' => pc' = "pause")
          /\ mounted' \in BOOLEAN /\ identified' \in BOOLEAN
          /\ outcome' \in {NULL, "ok", "error"}
      <4>1. CASE \E ok \in BOOLEAN : Mount(ok)
        BY <2>1, <4>1 DEF Mount, TypeOK
      <4>2. CASE \E ok \in BOOLEAN : IdentifyDisk(ok)
        BY <2>1, <4>2 DEF IdentifyDisk, TypeOK
      <4>3. CASE \E initRet \in {0, -1, -1001} : InitializeDisk(initRet)
        BY <2>1, <4>3 DEF InitializeDisk, TypeOK
      <4>4. CASE \E result \in {"ok", "error"} : DumpEnds(result)
        BY <2>1, <4>4 DEF DumpEnds, TypeOK
      <4> QED
        BY <1>3, <4>1, <4>2, <4>3, <4>4 DEF Work
    <3> QED
      BY <2>1, <3>1 DEF TypeOK
  <2>4. Spent'
    BY <2>1, <2>2 DEF Spent
  <2>5. Stage'
    BY <1>3, <2>1 DEF Work, Mount, InitializeDisk, IdentifyDisk, DumpEnds, Stage
  <2> QED
    BY <2>3, <2>4, <2>5
<1> QED
  BY <1>1, <1>2, <1>3

LEMMA StepFInv == FInv /\ [Next]_vars => FInv'
<1>1. FInv /\ UNCHANGED vars => FInv'
  BY DEF vars, FInv, TypeOK, Spent, Stage
<1> QED
  BY <1>1, UserFInv, PromptFInv, MenuFInv, WorkFInv DEF Next, Program

THEOREM Invariance == Spec => []FInv
BY StepFInv, InitFInv, PTL DEF Spec

\* Every variable keeps its type.
THEOREM TypeCorrect == Spec => []TypeOK
<1>1. FInv => TypeOK
  BY DEF FInv
<1> QED
  BY <1>1, Invariance, PTL

\* No press of a button is acted on that was down when the program last acted on one.
THEOREM FreshPress == Spec => []ActsOnFreshPress
<1>1. FInv => ActsOnFreshPress
  <2>1. SUFFICES ASSUME FInv, NEW b \in Buttons PROVE used[b] <= 1
    BY DEF ActsOnFreshPress
  <2>2. used[b] = 0 \/ used[b] = 1
    BY <2>1 DEF FInv, Spent
  <2> QED
    BY <2>2
<1> QED
  BY <1>1, Invariance, PTL

\* Whatever the user and the hardware do, a dump starts only after every step
\* before it has succeeded, with the settings last shown.
THEOREM DumpPrepared == Spec => []DumpPreconditions
<1>1. FInv => DumpPreconditions
  BY DEF FInv, Stage, DumpPreconditions
<1> QED
  BY <1>1, Invariance, PTL

LEMMA AfterReport ==
  ASSUME FInv, [Next]_vars, outcome # NULL
  PROVE  outcome' = outcome /\ pc' \in {"pause", "exit", "exited"}
<1>1. pc \in {"pause", "exit", "exited"}
  BY DEF FInv, TypeOK, Stage
<1>2. CASE waitForButtonRelease
  BY <1>1, <1>2, AfterType DEF waitForButtonRelease
<1>3. CASE ~waitForButtonRelease
  BY <1>1, <1>3
  DEF Next, Program, User, Press, Release, waitForA, Menu, ToggleCancelOnError,
      ChangeFilesystem, ChooseDrive, ReprintMenu, ExitFromMenu, IgnoreButtons, Chosen, Work,
      Mount, InitializeDisk, IdentifyDisk, HomeInDump, DumpEnds, Reset, vars
<1> QED
  BY <1>2, <1>3

\* Nothing follows a report but the exit.
THEOREM Final == Spec => ReportIsFinal
<1>1. FInv /\ [Next]_vars =>
        [outcome # NULL => outcome' = outcome /\ pc' \in {"pause", "exit", "exited"}]_vars
  BY AfterReport
<1> QED
  BY <1>1, Invariance, PTL DEF Spec, ReportIsFinal
=============================================================================
