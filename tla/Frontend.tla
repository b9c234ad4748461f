------------------------------ MODULE Frontend ------------------------------
(***************************************************************************)
(* main of source/main.cpp with Global and Logger::error: the prompts, the *)
(* menu, and the order in which the drive is mounted, the disc initialised *)
(* and identified, and the dump taken.                                     *)
(*                                                                         *)
(* The program polls the buttons of the Wii remote; the user presses and   *)
(* releases them at any time, so a press may last many polls or fall       *)
(* between two of them.  Each wait is a pair of loops, waitForA and        *)
(* waitForButtonRelease; `releasing' tells which one is running.  What     *)
(* mounting, initialising, identifying and dumping do is external here:    *)
(* they succeed or fail (Dump and DvdDrive say how).                       *)
(***************************************************************************)
EXTENDS Integers, Sequences

CONSTANTS
  Buttons,               \* the buttons of the remote that the user touches
  NULL

NTFS_SUPPORT == FALSE

\* The order in which the menu tests the buttons.
MenuButtons == <<"A", "B", "1", "2", "MINUS", "PLUS">>

ASSUME ButtonsAssumption ==
  Buttons \subseteq {MenuButtons[i] : i \in DOMAIN MenuButtons} \cup {"HOME"}

VARIABLES
  pc, releasing,
  cancelOnError, driveFs, driveType,
  mounted, identified,   \* has fatMountSimple succeeded, is the disc known
  outcome,               \* what the program last reported: NULL, "ok", "error"
  held,                  \* the buttons down
  shown,                 \* history: the settings the menu last printed
  used                   \* history: 0 for a button up or pressed since the program last
                         \* acted on a button, 1 for one down since before, more once
                         \* that press is acted on again

settings == <<cancelOnError, driveFs>>
progress == <<driveType, mounted, identified, outcome>>
vars == <<pc, releasing, settings, progress, held, shown, used>>

Init ==
  /\ pc = "welcome" /\ releasing = FALSE
  /\ cancelOnError = TRUE /\ driveFs = "FAT32" /\ driveType = NULL
  /\ mounted = FALSE /\ identified = FALSE /\ outcome = NULL
  /\ held \in SUBSET Buttons
  /\ shown = NULL
  /\ used = [b \in Buttons |-> 0]

\* The program acts on b; the presses of the other buttons down had their chance.
Use(b) == used' = [x \in Buttons |-> IF x = b THEN used[x] + 1
                                    ELSE IF x \in held /\ used[x] = 0 THEN 1 ELSE used[x]]

\* Mutant: the menu prints the kind of drive for the filesystem.
MixedMenu(cancel, fs) == shown' = <<cancel, driveType>>

\* menu() prints the settings it finds.
menu(cancel, fs) == shown' = <<cancel, fs>>

-----------------------------------------------------------------------------
(* The user.                                                               *)

Press(b) ==
  /\ b \notin held
  /\ held' = held \cup {b}
  /\ UNCHANGED <<pc, releasing, settings, progress, shown, used>>

Release(b) ==
  /\ b \in held
  /\ held' = held \ {b}
  /\ used' = [used EXCEPT ![b] = 0]
  /\ UNCHANGED <<pc, releasing, settings, progress, shown>>

-----------------------------------------------------------------------------
(* The prompts.                                                            *)

Prompts == {"welcome", "drive", "disc", "start", "exit"}

\* Where the program goes when the buttons are released.
Successors ==
  [welcome |-> "menu", menu |-> "menu", drive |-> "mount", disc |-> "init",
   start |-> "dump", pause |-> "exit", exit |-> "exited"]

\* Mutant: after a report the menu comes again.
BackToMenu(place) == [Successors EXCEPT !.pause = "menu"][place]

\* Mutant: the program asks for ever.
AskAgain(place) == [Successors EXCEPT !.exit = "exit"][place]

After(place) == Successors[place]

\* Mutant: the release of the button is not waited for (here, at any prompt).
GoOn == pc' = After(pc) /\ UNCHANGED releasing

\* Mutant: the release is not waited for before the dump.
GoOnAtStart == IF pc = "start" THEN GoOn ELSE releasing' = TRUE /\ UNCHANGED pc

AwaitRelease == releasing' = TRUE /\ UNCHANGED pc

waitForA ==
  /\ pc \in Prompts /\ ~releasing
  /\ "A" \in held
  /\ Use("A")
  /\ AwaitRelease
  /\ UNCHANGED <<settings, progress, held, shown>>

waitForButtonRelease ==
  /\ releasing /\ pc # "exited"
  /\ held = {}
  /\ releasing' = FALSE
  /\ pc' = After(pc)
  /\ IF pc = "welcome" THEN menu(cancelOnError, driveFs) ELSE UNCHANGED shown
  /\ UNCHANGED <<settings, progress, held, used>>

\* resetAfterPause: both Logger::error and a finished dump end here.
resetAfterPause ==
  /\ pc' = "pause"
  /\ releasing' = TRUE

Report(result) ==
  /\ outcome' = result
  /\ resetAfterPause

-----------------------------------------------------------------------------
(* The menu.                                                               *)

\* b is the button the menu goes by: it is down, and none tested before it is.
Chosen(b) ==
  /\ pc = "menu" /\ ~releasing
  /\ \E i \in DOMAIN MenuButtons :
       /\ MenuButtons[i] = b /\ b \in held
       /\ \A j \in 1 .. i - 1 : MenuButtons[j] \notin held

ToggleCancelOnError ==
  /\ Chosen("A") /\ Use("A")
  /\ cancelOnError' = ~cancelOnError
  /\ menu(~cancelOnError, driveFs)
  /\ releasing' = TRUE
  /\ UNCHANGED <<pc, driveFs, progress, held>>

ChangeFilesystem ==
  /\ Chosen("B") /\ Use("B")
  /\ driveFs' = IF NTFS_SUPPORT /\ driveFs = "FAT32" THEN "NTFS" ELSE "FAT32"
  /\ menu(cancelOnError, driveFs')
  /\ releasing' = TRUE
  /\ UNCHANGED <<pc, cancelOnError, progress, held>>

\* The loop is left at once, without waiting for the button's release.
ChooseDrive(b) ==
  /\ Chosen(b) /\ Use(b)
  /\ driveType' = IF b = "1" THEN "USB" ELSE "SD"
  /\ pc' = "drive"
  /\ UNCHANGED <<releasing, settings, mounted, identified, outcome, held, shown>>

ReprintMenu ==
  /\ Chosen("MINUS") /\ Use("MINUS")
  /\ menu(cancelOnError, driveFs)
  /\ releasing' = TRUE
  /\ UNCHANGED <<pc, settings, progress, held>>

ExitFromMenu ==
  /\ Chosen("PLUS") /\ Use("PLUS")
  /\ pc' = "exited"
  /\ UNCHANGED <<releasing, settings, progress, held, shown>>

IgnoreButtons ==
  /\ pc = "menu" /\ ~releasing
  /\ held # {} /\ \A i \in DOMAIN MenuButtons : MenuButtons[i] \notin held
  /\ releasing' = TRUE
  /\ UNCHANGED <<pc, settings, progress, held, shown, used>>

Menu ==
  \/ ToggleCancelOnError \/ ChangeFilesystem
  \/ \E b \in {"1", "2"} : ChooseDrive(b)
  \/ ReprintMenu \/ ExitFromMenu \/ IgnoreButtons

-----------------------------------------------------------------------------
(* The work.                                                               *)

\* Mutant: the result of fatMountSimple is not looked at.
AnyMount(ok) == TRUE

Mountable(ok) == driveFs = "FAT32" /\ driveType # NULL /\ ok

Mount(ok) ==
  /\ pc = "mount"
  /\ IF Mountable(ok) THEN mounted' = ok /\ pc' = "disc" /\ UNCHANGED <<releasing, outcome>>
                      ELSE Report("error") /\ UNCHANGED mounted
  /\ UNCHANGED <<settings, driveType, identified, held, shown, used>>

InitializeDisk(initRet) ==
  /\ pc = "init"
  /\ IF initRet = 0 THEN pc' = "identify" /\ UNCHANGED <<releasing, outcome>>
                    ELSE Report("error")
  /\ UNCHANGED <<settings, driveType, mounted, identified, held, shown, used>>

IdentifyDisk(known) ==
  /\ pc = "identify"
  /\ IF known THEN identified' = TRUE /\ pc' = "start" /\ UNCHANGED <<releasing, outcome>>
              ELSE Report("error") /\ UNCHANGED identified
  /\ UNCHANGED <<settings, driveType, mounted, held, shown, used>>

\* After every sector the dump looks at the Home button.
HomeInDump ==
  /\ pc = "dump"
  /\ "HOME" \in held /\ Use("HOME")
  /\ pc' = "exited"
  /\ UNCHANGED <<releasing, settings, progress, held, shown>>

\* The dump returns, or stops at an unrecovered read error.
DumpEnds(result) ==
  /\ pc = "dump"
  /\ Report(result)
  /\ UNCHANGED <<settings, driveType, mounted, identified, held, shown, used>>

Work ==
  \/ \E ok \in BOOLEAN : Mount(ok) \/ IdentifyDisk(ok)
  \/ \E initRet \in {0, -1, -1001} : InitializeDisk(initRet)
  \/ HomeInDump
  \/ \E result \in {"ok", "error"} : DumpEnds(result)

\* reset_callback, at any time.
Reset ==
  /\ pc # "exited"
  /\ pc' = "exited"
  /\ UNCHANGED <<releasing, settings, progress, held, shown, used>>

-----------------------------------------------------------------------------
Program == waitForA \/ waitForButtonRelease \/ Menu \/ Work

User == \E b \in Buttons : Press(b) \/ Release(b)

Next == Program \/ User \/ Reset

Spec == Init /\ [][Next]_vars

\* The program keeps polling, so that a button pressed or let go of again and
\* again is noticed some time, and the work it starts ends (initialize_disk, if
\* a readable disc is in the tray).  The user owes nothing.
FairSpec ==
  /\ Spec
  /\ SF_vars(waitForA) /\ SF_vars(waitForButtonRelease)
  /\ WF_vars(Work)

-----------------------------------------------------------------------------
(* Properties.                                                             *)

TypeOK ==
  /\ pc \in Prompts \cup {"menu", "mount", "init", "identify", "dump", "pause", "exited"}
  /\ releasing \in BOOLEAN /\ (releasing => pc \in Prompts \cup {"menu", "pause", "exited"})
  /\ cancelOnError \in BOOLEAN /\ driveFs \in {"FAT32", "NTFS"}
  /\ driveType \in {NULL, "USB", "SD"}
  /\ mounted \in BOOLEAN /\ identified \in BOOLEAN
  /\ outcome \in {NULL, "ok", "error"}
  /\ held \subseteq Buttons
  /\ shown \in {NULL} \cup (BOOLEAN \X {"FAT32", "NTFS"})
  /\ used \in [Buttons -> Nat]

\* The program never acts on a press that was already down when it last acted on one:
\* however long a button is held, it toggles the setting once and does not answer the
\* next prompt too, a button held beside the one that was acted on does nothing
\* either, and so a Home held since before A started the dump does not end it
\* (waitForButtonRelease after every wait, main.cpp:52-165).
ActsOnFreshPress == \A b \in Buttons : used[b] <= 1

\* A dump starts only on a mounted drive and an identified disc, with no error
\* reported before, and with the settings the user last saw in the menu
\* (main.cpp:57-166; Logger::error does not return).
DumpPreconditions == pc = "dump" =>
  /\ mounted /\ driveType \in {"USB", "SD"}
  /\ identified
  /\ outcome = NULL
  /\ shown = <<cancelOnError, driveFs>>

\* After an error, or a finished dump, nothing is done but to wait and exit.
ReportIsFinal ==
  [][outcome # NULL => outcome' = outcome /\ pc' \in {"pause", "exit", "exited"}]_vars

\* After a report, a user who keeps pressing A and letting go of the buttons
\* gets out of the program (global.hpp:54-60).
KeepsPressing == []<>(held = {}) /\ []<>("A" \in held)
PauseEnds == KeepsPressing => (pc = "pause" ~> pc = "exited")

\* main.cpp:163: "Press Home or Reset to exit."
HomeExits == []((pc = "start" /\ []("HOME" \in held)) => <>(pc = "exited"))

\* main.cpp:25: "B  Change filesystem"
BChangesFilesystem ==
  [][pc = "menu" /\ Chosen("B") /\ releasing' => driveFs' # driveFs]_vars
=============================================================================
