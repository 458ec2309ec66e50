------------------------------ MODULE Installer ------------------------------
(***************************************************************************)
(* Installation, boot modes and power losses: the boot sector's choice of  *)
(* a disk (boot/boot.asm), the marker in sector 700 that says what a disk  *)
(* boots into (core/kernel.c), and the installer, which writes a disk step *)
(* by step (core/installer.c) and leaves it as it is when power goes.      *)
(*                                                                         *)
(* Drive 0 is the live disk.  Files are numbered in the initrd's order.    *)
(* How the programs of a sweep run is Task's subject; what a user does to  *)
(* the files in a shell is left out.  Allocations in the kernel succeed,   *)
(* and there is room: an initrd has 512 sectors at most, a new disk 2432   *)
(* clusters of 8 sectors.                                                  *)
(***************************************************************************)
EXTENDS Integers

CONSTANTS
  Fitted,       \* the sets of drives, of 0..3, the machine may have
  LiveMarkers,  \* markers the live disk may carry: "LIVE", "AUTO"
  Files,        \* files of the initrd; the first one is the shell
  Runner,       \* one of them: runtests
  MaxLosses     \* bound of the model: power losses

File  == 1..Files
Shell == 1
Drive == 0..3
Live  == 0

ASSUME InstallerOK ==
  /\ Fitted \subseteq {drives \in SUBSET Drive : Live \in drives}
  /\ LiveMarkers \subseteq {"LIVE", "AUTO"}
  /\ Files \in Nat \ {0} /\ Runner \in File
  /\ MaxLosses \in Nat

VARIABLES
  drives,       \* drives that exist
  disk,         \* what is written on each
  pc,           \* what the machine does
  up,           \* the boot drive, as the kernel numbers it
  dest, testing, next,  \* locals of do_install
  ran,          \* files this sweep has run
  losses,       \* power losses so far
  cut,          \* drives whose last installation was cut short
  owed          \* drives that were marked TEST and not swept since

machine == <<pc, up, dest, testing, next, ran>>
history == <<losses, cut, owed>>
vars == <<drives, disk, machine, history>>

Disk == [ boot   : {"nothing", "signature", "code"},    \* sector 0
          body   : {"nothing", "kernel", "whole"},      \* sectors 1 to 699
          marker : {"LIVE", "AUTO", "TEST", "none"},    \* sector 700
          files  : SUBSET File ]                        \* those in /bin

Blank == [boot |-> "nothing", body |-> "nothing", marker |-> "none", files |-> {}]
LiveDisk(m) == [boot |-> "code", body |-> "whole", marker |-> m, files |-> {}]

Init ==
  /\ drives \in Fitted
  /\ \E m \in LiveMarkers :
       disk = [d \in Drive |-> IF d = Live THEN LiveDisk(m) ELSE Blank]
  /\ pc = "off" /\ up = Live
  /\ dest = Live /\ testing = FALSE /\ next = 1 /\ ran = {}
  /\ losses = 0 /\ cut = {} /\ owed = {}

-----------------------------------------------------------------------------
(***************************************************************************)
(* Power on: the boot sector of the live disk, and the kernel's modes.     *)
(***************************************************************************)
Least(n, S) == n \in S /\ \A k \in S : n <= k

\* The BIOS numbers the drives that exist: its second one, 0x81, carries the
\* signature of a boot sector.
Hdd(d) == Least(d, drives \ {Live}) /\ disk[d].boot # "nothing"
HddFound == \E d \in drives : Hdd(d)

Phase(marker) == CASE marker = "LIVE" -> "menu"
                   [] marker = "AUTO" -> "target"
                   [] marker = "TEST" -> "runner"
                   [] marker = "none" -> "shell"

\* The system on d is started and told drive n; the kernel takes n for an index.
Start(d, n) ==
  /\ up' = n
  /\ pc' = IF disk[d].boot # "code" \/ disk[d].body = "nothing" THEN "hung"
           ELSE IF n \in drives THEN Phase(disk[n].marker) ELSE "shell"
  /\ ran' = {}
  /\ UNCHANGED <<drives, disk, dest, testing, next, history>>

StartHdd ==             \* a key at the prompt, or the shortcut of AUTO
  pc = "off" /\ \E d \in drives : Hdd(d) /\ Start(d, 1)

\* Mutant: nobody is asked.
StartUnasked ==
  /\ pc = "off"
  /\ ~HddFound
  /\ Start(Live, Live)

StartLive ==            \* no other disk, or the key I at the prompt
  /\ pc = "off"
  /\ ~HddFound \/ disk[Live].marker # "AUTO"
  /\ Start(Live, Live)

SwitchOff ==            \* by the user, where nothing is being written
  /\ pc \in {"menu", "confirm", "shell", "halt", "hung"}
  /\ pc' = "off"
  /\ UNCHANGED <<drives, disk, up, dest, testing, next, ran, history>>

Writing == {"format", "tables", "sector0", "kernel", "initrd", "marker", "files"}

PowerLoss ==
  /\ pc \in Writing \cup {"runner", "sweep", "clear"}
  /\ losses < MaxLosses
  /\ losses' = losses + 1
  /\ cut' = IF pc \in Writing THEN cut \cup {dest} ELSE cut
  /\ pc' = "off"
  /\ UNCHANGED <<drives, disk, up, dest, testing, next, ran, owed>>

-----------------------------------------------------------------------------
(***************************************************************************)
(* Who asks for an installation: the menu, or the marker AUTO.             *)
(***************************************************************************)
To(phase) ==
  /\ pc' = phase
  /\ UNCHANGED <<drives, disk, up, dest, testing, next, ran, history>>

LiveMode == pc = "menu" /\ To("shell")

Choose(d) ==
  /\ pc = "menu"
  /\ d # up /\ d \in drives
  /\ pc' = "confirm"
  /\ dest' = d
  /\ UNCHANGED <<drives, disk, up, testing, next, ran, history>>

Begin(d, test) ==       \* do_install is called
  /\ pc' = "format"
  /\ dest' = d
  /\ testing' = test
  /\ next' = 1
  /\ UNCHANGED <<drives, disk, up, ran, history>>

Confirm == pc = "confirm" /\ Begin(dest, FALSE)

Cancel == pc = "confirm" /\ To("menu")

installer_auto ==
  /\ pc = "target"
  /\ \/ drives = {up} /\ To("halt")
     \/ \E d \in drives : Least(d, drives \ {up}) /\ Begin(d, TRUE)

-----------------------------------------------------------------------------
(***************************************************************************)
(* do_install: one write, or one run of writes to one part, is a step.     *)
(***************************************************************************)
\* The next part of dest is written and the installer goes on to phase.
Writes(written, phase) ==
  /\ disk' = [disk EXCEPT ![dest] = written]
  /\ pc' = phase
  /\ UNCHANGED <<drives, up, dest, testing, ran, losses>>

Format ==               \* a boot sector without code
  /\ pc = "format"
  /\ Writes([disk[dest] EXCEPT !.boot = "signature"], "tables")
  /\ UNCHANGED <<next, cut, owed>>

Tables ==
  /\ pc = "tables"
  /\ Writes([disk[dest] EXCEPT !.files = {}], "sector0")
  /\ UNCHANGED <<next, cut, owed>>

CopySector0 ==          \* the source's code with the new disk's BPB
  /\ pc = "sector0"
  /\ Writes([disk[dest] EXCEPT !.boot = disk[up].boot], "kernel")
  /\ UNCHANGED <<next, cut, owed>>

CopyKernel ==
  /\ pc = "kernel"
  /\ Writes([disk[dest] EXCEPT !.body = IF @ = "whole" THEN @ ELSE "kernel"], "initrd")
  /\ UNCHANGED <<next, cut, owed>>

CopyInitrd ==
  /\ pc = "initrd"
  /\ Writes([disk[dest] EXCEPT !.body = disk[up].body], "marker")
  /\ UNCHANGED <<next, cut, owed>>

\* Mutant: the automatic installation writes no marker either.
MarkNothing ==
  /\ pc = "marker"
  /\ Writes([disk[dest] EXCEPT !.marker = "none"], "files")
  /\ owed' = IF testing THEN owed \cup {dest} ELSE owed \ {dest}
  /\ UNCHANGED <<next, cut>>

WriteMarker ==
  /\ pc = "marker"
  /\ Writes([disk[dest] EXCEPT !.marker = IF testing THEN "TEST" ELSE "none"], "files")
  /\ owed' = IF testing THEN owed \cup {dest} ELSE owed \ {dest}
  /\ UNCHANGED <<next, cut>>

InstallFile ==          \* clusters first, then the entry that makes it a file
  /\ pc = "files"
  /\ next <= Files
  /\ Writes([disk[dest] EXCEPT !.files = @ \cup {next}], "files")
  /\ next' = next + 1
  /\ UNCHANGED <<cut, owed>>

\* Mutant: the last file is left out.
InstalledEarly ==
  /\ pc = "files"
  /\ next >= Files
  /\ pc' = "off"
  /\ cut' = cut \ {dest}
  /\ UNCHANGED <<drives, disk, up, dest, testing, next, ran, losses, owed>>

Installed ==            \* a reboot, after a key unless nobody is there
  /\ pc = "files"
  /\ next > Files
  /\ pc' = "off"
  /\ cut' = cut \ {dest}
  /\ UNCHANGED <<drives, disk, up, dest, testing, next, ran, losses, owed>>

-----------------------------------------------------------------------------
(***************************************************************************)
(* A boot in TEST mode.                                                    *)
(***************************************************************************)
LoadRunner ==           \* when it is missing there is no sweep
  /\ pc = "runner"
  /\ pc' = IF Runner \in disk[up].files THEN "sweep" ELSE "clear"
  /\ owed' = IF Runner \in disk[up].files THEN owed ELSE owed \ {up}
  /\ UNCHANGED <<drives, disk, up, dest, testing, next, ran, losses, cut>>

RunNext ==              \* in the order of /bin
  /\ pc = "sweep"
  /\ \E f \in File : Least(f, disk[up].files \ ran) /\ ran' = ran \cup {f}
  /\ UNCHANGED <<drives, disk, pc, up, dest, testing, next, history>>

SweepEnds ==
  /\ pc = "sweep"
  /\ disk[up].files \subseteq ran
  /\ pc' = "clear"
  /\ owed' = owed \ {up}
  /\ UNCHANGED <<drives, disk, up, dest, testing, next, ran, losses, cut>>

\* Mutant: the marker is cleared as soon as the kernel has read it.
ClearEarly ==
  /\ pc \in {"clear", "runner", "sweep"}
  /\ disk[up].marker = "TEST"
  /\ disk' = [disk EXCEPT ![up].marker = "none"]
  /\ pc' = IF pc = "clear" THEN "shell" ELSE pc
  /\ UNCHANGED <<drives, up, dest, testing, next, ran, history>>

ClearMarker ==          \* then the shell, or nothing
  /\ pc = "clear"
  /\ disk' = [disk EXCEPT ![up].marker = "none"]
  /\ pc' = IF Shell \in disk[up].files THEN "shell" ELSE "halt"
  /\ UNCHANGED <<drives, up, dest, testing, next, ran, history>>

Kernel ==
  \/ installer_auto
  \/ Format \/ Tables \/ CopySector0 \/ CopyKernel \/ CopyInitrd
  \/ WriteMarker \/ InstallFile \/ Installed
  \/ LoadRunner \/ RunNext \/ SweepEnds \/ ClearMarker

User ==
  \/ StartHdd \/ StartLive \/ SwitchOff
  \/ LiveMode \/ Confirm \/ Cancel \/ \E d \in Drive : Choose(d)

Next == Kernel \/ User \/ PowerLoss

Spec == Init /\ [][Next]_vars

\* The kernel goes on; the user switches the machine on and off again, and in
\* the end installs, however often they did something else before.
FairSpec ==
  /\ Spec
  /\ WF_vars(Kernel)
  /\ WF_vars(StartHdd \/ StartLive) /\ WF_vars(SwitchOff)
  /\ SF_vars(StartLive) /\ SF_vars(StartHdd)
  /\ SF_vars(\E d \in Drive : Choose(d)) /\ SF_vars(Confirm)

-----------------------------------------------------------------------------
(***************************************************************************)
(* Properties.                                                             *)
(***************************************************************************)
TypeOK ==
  /\ drives \in Fitted
  /\ disk \in [Drive -> Disk]
  /\ pc \in Writing \cup {"off", "hung", "menu", "confirm", "target", "halt", "shell",
                          "runner", "sweep", "clear"}
  /\ up \in {0, 1} /\ dest \in Drive /\ testing \in BOOLEAN
  /\ next \in 1..(Files + 1) /\ ran \in SUBSET File
  /\ losses \in 0..MaxLosses /\ cut \in SUBSET Drive /\ owed \in SUBSET Drive

\* A sweep that was promised is not lost: the marker stays on the disk until
\* every program on it was run, or there is no runner to run them, whatever
\* power losses come between. (installer.c:107-119, kernel.c:108-145)
NoSweepLost == \A d \in owed : disk[d].marker = "TEST"

InstallingTo(d) == pc \in Writing /\ dest = d

\* A disk the machine can start from, other than the live one, has every file
\* of the initrd in /bin, unless its last installation was cut short: what an
\* earlier one left on it does not matter. (installer.c:18-51, 77-190)
CompleteUnlessCut ==
  \A d \in drives \ {Live} :
    disk[d].boot = "code" /\ d \notin cut /\ ~InstallingTo(d)
      => disk[d].body = "whole" /\ disk[d].files = File

Whole(d) == disk[d].boot = "code" /\ disk[d].body = "whole" /\ disk[d].files = File

\* Power losses that come to an end do not stop the user of a live disk from
\* installing: whatever half-written disk they leave, one installation is
\* completed in the end. (boot.asm:56-99, installer.c:231-302)
InstalledInTheEnd ==
  drives # {Live} /\ disk[Live].marker = "LIVE"
    => <>(\E d \in drives \ {Live} : Whole(d) /\ d \notin cut)

\* An automatic installation that is not cut short leads to a disk that has
\* run everything on it and carries no marker any more.  Drive 1 has to be
\* there: the BIOS's 0x81 is the second drive there is, the kernel's drive 1.
\* (boot.asm:74-83, installer.c:201-229, kernel.c:97-145)
TestedInTheEnd ==
  1 \in drives /\ disk[Live].marker = "AUTO"
    => <>(losses > 0 \/ \E d \in drives \ {Live} :
            Whole(d) /\ ran = File /\ disk[d].marker = "none")
=============================================================================
