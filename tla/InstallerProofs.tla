--------------------------- MODULE InstallerProofs ---------------------------
(***************************************************************************)
(* Proofs about Installer: types, sweeps that are not lost, and disks that *)
(* are complete unless their installation was cut short, for any drives,   *)
(* any number of files and of power losses.                                *)
(***************************************************************************)
EXTENDS Installer, TLAPS

USE InstallerOK

\* The live disk can be started and installed from; no other disk carries its
\* markers.
LiveIsLive ==
  /\ disk[Live].boot = "code" /\ disk[Live].body = "whole"
  /\ disk[Live].marker \in {"LIVE", "AUTO"}
  /\ \A d \in Drive \ {Live} : disk[d].marker \in {"TEST", "none"}

\* An installation goes from the live disk to another one, and a TEST boot is
\* one of another disk.
WhoIsWhere ==
  /\ pc \in Writing \cup {"menu", "confirm", "target"} => up = Live
  /\ pc \in Writing \cup {"confirm"} => dest # Live
  /\ pc \in {"runner", "sweep", "clear"} => up # Live
  /\ pc = "clear" => up \notin owed

\* What do_install has written so far.
Progress ==
  /\ pc \in {"sector0", "kernel", "initrd", "marker"} =>
       disk[dest].files = {} /\ next = 1
  /\ pc \in {"format", "tables"} => next = 1
  /\ pc \in {"marker", "files"} => disk[dest].body = "whole"
  /\ pc = "files" => disk[dest].files = 1..(next - 1)

IInv == TypeOK /\ LiveIsLive /\ WhoIsWhere /\ Progress /\ NoSweepLost /\ CompleteUnlessCut

LEMMA InitIInv == Init => IInv
<1> SUFFICES ASSUME Init PROVE IInv
  OBVIOUS
<1>1. /\ Live \in Drive /\ Live = 0 /\ pc = "off" /\ owed = {}
      /\ \A d \in Drive : disk[d] \in Disk
      /\ disk \in [Drive -> Disk]
  BY DEF Init, Disk, Blank, LiveDisk, Drive, Live
<1>2. TypeOK
  <2>1. 0 \in Drive /\ 1 \in 1..(Files + 1) /\ 0 \in 0..MaxLosses
    BY DEF Drive
  <2> QED BY <1>1, <2>1 DEF Init, TypeOK, Live
<1>3. LiveIsLive
  BY <1>1 DEF Init, LiveIsLive, Blank, LiveDisk
<1>4. WhoIsWhere /\ Progress /\ NoSweepLost
  BY <1>1 DEF WhoIsWhere, Progress, NoSweepLost, Writing
<1>5. CompleteUnlessCut
  <2> SUFFICES ASSUME NEW d \in drives \ {Live} PROVE disk[d].boot = "nothing"
    BY DEF CompleteUnlessCut
  <2>1. d \in Drive \ {Live}
    BY DEF Init
  <2> QED BY <2>1, <1>1 DEF Init, Blank
<1> QED BY <1>2, <1>3, <1>4, <1>5 DEF IInv

-----------------------------------------------------------------------------
(***************************************************************************)
(* Steps that write no disk.                                               *)
(***************************************************************************)
LEMMA NothingWritten ==
  ASSUME IInv, TypeOK', UNCHANGED <<drives, disk>>, WhoIsWhere', Progress',
         owed' \subseteq owed, cut \subseteq cut',
         \A d \in Drive : InstallingTo(d) => d \in cut' \/ InstallingTo(d)'
  PROVE  IInv'
<1>1. LiveIsLive'
  BY DEF IInv, LiveIsLive
<1>2. NoSweepLost'
  BY DEF IInv, NoSweepLost
<1>3. CompleteUnlessCut'
  <2> SUFFICES ASSUME NEW d \in drives \ {Live},
                      disk[d].boot = "code", d \notin cut', ~InstallingTo(d)'
               PROVE  disk[d].body = "whole" /\ disk[d].files = File
    BY DEF CompleteUnlessCut
  <2>1. d \in Drive
    BY DEF IInv, TypeOK
  <2> QED BY <2>1 DEF IInv, CompleteUnlessCut
<1> QED BY <1>1, <1>2, <1>3 DEF IInv

LEMMA Started ==
  ASSUME IInv, pc = "off", NEW d \in drives, NEW n \in {0, 1}, Start(d, n)
  PROVE  IInv'
<1>1. n \in Drive /\ disk[n] \in Disk /\ drives \subseteq Drive
  BY DEF IInv, TypeOK, Drive
<1>2. pc' \in {"hung", "menu", "target", "runner", "shell"}
  BY <1>1 DEF Start, Phase, Disk
<1>3. TypeOK'
  BY <1>2 DEF IInv, TypeOK, Start, history
<1>4. WhoIsWhere'
  <2>1. pc' \in {"menu", "target"} => n = Live
    BY <1>1 DEF Start, Phase, IInv, LiveIsLive
  <2>2. pc' = "runner" => n # Live
    BY <1>1 DEF Start, Phase, IInv, LiveIsLive
  <2> QED BY <1>2, <2>1, <2>2 DEF WhoIsWhere, Writing, Start
<1>5. Progress'
  BY <1>2 DEF Progress
<1>6. ~InstallingTo(0) /\ \A k \in Drive : ~InstallingTo(k)
  BY DEF InstallingTo, Writing
<1> QED BY <1>3, <1>4, <1>5, <1>6, NothingWritten DEF Start, history

\* Steps of the user, of the boot modes, and the loss of power.
LEMMA QuietStep ==
  ASSUME IInv,
         \/ SwitchOff \/ PowerLoss \/ LiveMode \/ Confirm \/ Cancel \/ installer_auto
         \/ \E d \in Drive : Choose(d)
         \/ LoadRunner \/ RunNext \/ SweepEnds
  PROVE  IInv'
<1>0. /\ Live \in Drive /\ drives \subseteq Drive /\ 1 \in 1..(Files + 1)
      /\ File = 1..Files
    BY DEF IInv, TypeOK, Drive, Live, File
<1> USE DEF history
<1>1. CASE SwitchOff
  <2>1. TypeOK' /\ WhoIsWhere' /\ Progress'
    BY <1>1 DEF SwitchOff, IInv, TypeOK, WhoIsWhere, Progress, Writing
  <2> QED BY <1>1, <2>1, NothingWritten DEF SwitchOff, InstallingTo, Writing
<1>2. CASE PowerLoss
  <2>1. TypeOK'
    BY <1>2 DEF PowerLoss, IInv, TypeOK
  <2>2. WhoIsWhere' /\ Progress'
    BY <1>2 DEF PowerLoss, WhoIsWhere, Progress, Writing
  <2> QED BY <1>2, <2>1, <2>2, NothingWritten DEF PowerLoss, InstallingTo
<1>3. CASE LiveMode
  <2>1. TypeOK' /\ WhoIsWhere' /\ Progress'
    BY <1>3 DEF LiveMode, To, IInv, TypeOK, WhoIsWhere, Progress, Writing
  <2> QED BY <1>3, <2>1, NothingWritten DEF LiveMode, To, InstallingTo, Writing
<1>4. CASE Cancel
  <2>1. TypeOK' /\ WhoIsWhere' /\ Progress'
    BY <1>4 DEF Cancel, To, IInv, TypeOK, WhoIsWhere, Progress, Writing
  <2> QED BY <1>4, <2>1, NothingWritten DEF Cancel, To, InstallingTo, Writing
<1>5. ASSUME NEW d \in Drive, Choose(d) PROVE IInv'
  <2>1. TypeOK' /\ WhoIsWhere' /\ Progress'
    BY <1>5 DEF Choose, IInv, TypeOK, WhoIsWhere, Progress, Writing
  <2> QED BY <1>5, <2>1, NothingWritten DEF Choose, InstallingTo, Writing
<1>6. CASE Confirm
  <2>1. TypeOK' /\ WhoIsWhere' /\ Progress'
    BY <1>0, <1>6 DEF Confirm, Begin, IInv, TypeOK, WhoIsWhere, Progress, Writing
  <2> QED BY <1>6, <2>1, NothingWritten DEF Confirm, Begin, InstallingTo, Writing
<1>7. CASE installer_auto
  <2>1. CASE To("halt")
    <3>1. TypeOK' /\ WhoIsWhere' /\ Progress'
      BY <1>7, <2>1 DEF installer_auto, To, IInv, TypeOK, WhoIsWhere, Progress, Writing
    <3> QED BY <1>7, <2>1, <3>1, NothingWritten DEF installer_auto, To, InstallingTo, Writing
  <2>2. ASSUME NEW d \in drives, Least(d, drives \ {up}), Begin(d, TRUE) PROVE IInv'
    <3>1. d \in Drive /\ d # up
      BY <1>0, <2>2 DEF Least
    <3>2. TypeOK' /\ WhoIsWhere' /\ Progress'
      BY <1>0, <1>7, <2>2, <3>1
         DEF installer_auto, Begin, IInv, TypeOK, WhoIsWhere, Progress, Writing
    <3> QED BY <1>7, <2>2, <3>2, NothingWritten
            DEF installer_auto, Begin, InstallingTo, Writing
  <2> QED BY <1>7, <2>1, <2>2 DEF installer_auto
<1>8. CASE LoadRunner
  <2>1. TypeOK' /\ WhoIsWhere' /\ Progress'
    BY <1>8 DEF LoadRunner, IInv, TypeOK, WhoIsWhere, Progress, NoSweepLost, Writing
  <2> QED BY <1>8, <2>1, NothingWritten DEF LoadRunner, InstallingTo, Writing
<1>9. CASE RunNext
  <2>1. TypeOK' /\ WhoIsWhere' /\ Progress'
    BY <1>0, <1>9 DEF RunNext, IInv, TypeOK, WhoIsWhere, Progress, Writing
  <2> QED BY <1>9, <2>1, NothingWritten DEF RunNext, InstallingTo, Writing
<1>10. CASE SweepEnds
  <2>1. TypeOK' /\ WhoIsWhere' /\ Progress'
    BY <1>10 DEF SweepEnds, IInv, TypeOK, WhoIsWhere, Progress, Writing
  <2> QED BY <1>10, <2>1, NothingWritten DEF SweepEnds, InstallingTo, Writing
<1> QED BY <1>1, <1>2, <1>3, <1>4, <1>5, <1>6, <1>7, <1>8, <1>9, <1>10

-----------------------------------------------------------------------------
(***************************************************************************)
(* Steps that write a disk.                                                *)
(***************************************************************************)
\* A part of dest is written in a phase of the installation and another phase
\* of it follows.
LEMMA PartWritten ==
  ASSUME IInv, pc \in Writing,
         NEW written \in Disk, NEW phase \in Writing, Writes(written, phase),
         next' \in 1..(Files + 1), cut' = cut, owed' \in SUBSET Drive,
         written.marker \in {"TEST", "none"},
         owed' \subseteq owed \cup {dest}, dest \in owed' => written.marker = "TEST",
         Progress'
  PROVE  IInv'
<1>1. /\ dest \in Drive /\ dest # Live /\ disk \in [Drive -> Disk] /\ drives \subseteq Drive
      /\ \A d \in Drive : disk'[d] = IF d = dest THEN written ELSE disk[d]
      /\ disk' \in [Drive -> Disk]
  BY DEF IInv, TypeOK, WhoIsWhere, Writes, Drive
<1>2. TypeOK'
  BY <1>1 DEF IInv, TypeOK, Writes
<1>3. LiveIsLive'
  BY <1>1 DEF IInv, LiveIsLive, Live, Drive
<1>4. WhoIsWhere'
  BY DEF IInv, WhoIsWhere, Writes, Writing
<1>5. NoSweepLost'
  BY <1>1, <1>2 DEF IInv, NoSweepLost, TypeOK
<1>6. CompleteUnlessCut'
  <2> SUFFICES ASSUME NEW d \in drives' \ {Live},
                      disk'[d].boot = "code", d \notin cut', ~InstallingTo(d)'
               PROVE  disk'[d].body = "whole" /\ disk'[d].files = File
    BY DEF CompleteUnlessCut
  <2>1. d \in Drive /\ d \in drives /\ d # dest
    BY <1>1 DEF Writes, InstallingTo
  <2>2. disk'[d] = disk[d] /\ ~InstallingTo(d)
    BY <1>1, <2>1 DEF InstallingTo
  <2> QED BY <2>1, <2>2 DEF IInv, CompleteUnlessCut
<1> QED BY <1>2, <1>3, <1>4, <1>5, <1>6 DEF IInv

\* The record of the disk being installed, and what is known of its marker.
LEMMA DestRecord ==
  ASSUME IInv, pc \in Writing
  PROVE  /\ dest \in Drive /\ disk \in [Drive -> Disk] /\ disk[dest] \in Disk
         /\ disk[dest].marker \in {"TEST", "none"}
         /\ dest \in owed => disk[dest].marker = "TEST"
         /\ disk[up].boot = "code" /\ disk[up].body = "whole"
         /\ next \in 1..(Files + 1) /\ owed \in SUBSET Drive
BY DEF IInv, TypeOK, WhoIsWhere, LiveIsLive, NoSweepLost, Drive, Live

LEMMA InstallStep ==
  ASSUME IInv,
         Format \/ Tables \/ CopySector0 \/ CopyKernel \/ CopyInitrd \/ WriteMarker
         \/ InstallFile
  PROVE  IInv'
<1> USE DEF Writing
<1>0. pc \in Writing
  BY DEF Format, Tables, CopySector0, CopyKernel, CopyInitrd, WriteMarker, InstallFile
<1>1. CASE Format
  <2> DEFINE w == [disk[dest] EXCEPT !.boot = "signature"]
  <2>1. w \in Disk /\ w.marker = disk[dest].marker
    BY <1>0, DestRecord DEF Disk
  <2>2. Writes(w, "tables") /\ next' = next /\ cut' = cut /\ owed' = owed
    BY <1>1 DEF Format
  <2>3. Progress'
    BY <1>1, <2>2 DEF Format, Writes, IInv, Progress
  <2> HIDE DEF w
  <2> QED BY <1>0, <2>1, <2>2, <2>3, DestRecord, PartWritten
<1>2. CASE Tables
  <2> DEFINE w == [disk[dest] EXCEPT !.files = {}]
  <2>1. w \in Disk /\ w.marker = disk[dest].marker /\ w.files = {}
    BY <1>0, DestRecord DEF Disk
  <2>2. Writes(w, "sector0") /\ next' = next /\ cut' = cut /\ owed' = owed
    BY <1>2 DEF Tables
  <2> HIDE DEF w
  <2>3. Progress'
    BY <1>0, <1>2, <2>1, <2>2, DestRecord DEF Tables, Writes, IInv, Progress
  <2> QED BY <1>0, <2>1, <2>2, <2>3, DestRecord, PartWritten
<1>3. CASE CopySector0
  <2> DEFINE w == [disk[dest] EXCEPT !.boot = disk[up].boot]
  <2>1. w \in Disk /\ w.marker = disk[dest].marker /\ w.files = disk[dest].files
    BY <1>0, DestRecord DEF Disk
  <2>2. Writes(w, "kernel") /\ next' = next /\ cut' = cut /\ owed' = owed
    BY <1>3 DEF CopySector0
  <2> HIDE DEF w
  <2>3. Progress'
    BY <1>0, <1>3, <2>1, <2>2, DestRecord DEF CopySector0, Writes, IInv, Progress
  <2> QED BY <1>0, <2>1, <2>2, <2>3, DestRecord, PartWritten
<1>4. CASE CopyKernel
  <2> DEFINE w == [disk[dest] EXCEPT !.body = IF @ = "whole" THEN @ ELSE "kernel"]
  <2>1. w \in Disk /\ w.marker = disk[dest].marker /\ w.files = disk[dest].files
    BY <1>0, DestRecord DEF Disk
  <2>2. Writes(w, "initrd") /\ next' = next /\ cut' = cut /\ owed' = owed
    BY <1>4 DEF CopyKernel
  <2> HIDE DEF w
  <2>3. Progress'
    BY <1>0, <1>4, <2>1, <2>2, DestRecord DEF CopyKernel, Writes, IInv, Progress
  <2> QED BY <1>0, <2>1, <2>2, <2>3, DestRecord, PartWritten
<1>5. CASE CopyInitrd
  <2> DEFINE w == [disk[dest] EXCEPT !.body = disk[up].body]
  <2>1. /\ w \in Disk /\ w.marker = disk[dest].marker /\ w.files = disk[dest].files
        /\ w.body = "whole"
    BY <1>0, DestRecord DEF Disk
  <2>2. Writes(w, "marker") /\ next' = next /\ cut' = cut /\ owed' = owed
    BY <1>5 DEF CopyInitrd
  <2> HIDE DEF w
  <2>3. Progress'
    BY <1>0, <1>5, <2>1, <2>2, DestRecord DEF CopyInitrd, Writes, IInv, Progress
  <2> QED BY <1>0, <2>1, <2>2, <2>3, DestRecord, PartWritten
<1>6. CASE WriteMarker
  <2> DEFINE w == [disk[dest] EXCEPT !.marker = IF testing THEN "TEST" ELSE "none"]
  <2>1. /\ w \in Disk /\ w.marker = (IF testing THEN "TEST" ELSE "none")
        /\ w.files = disk[dest].files /\ w.body = disk[dest].body
    BY <1>0, DestRecord DEF Disk
  <2>2. /\ Writes(w, "files") /\ next' = next /\ cut' = cut
        /\ owed' = IF testing THEN owed \cup {dest} ELSE owed \ {dest}
    BY <1>6 DEF WriteMarker
  <2> HIDE DEF w
  <2>3. Progress'
    <3>1. disk[dest].files = {} /\ next = 1 /\ disk[dest].body = "whole"
      BY <1>6 DEF WriteMarker, IInv, Progress
    <3>2. disk'[dest'] = w /\ pc' = "files" /\ next' = 1 /\ 1..(1 - 1) = {}
      BY <1>0, <2>2, <3>1, DestRecord DEF Writes
    <3> QED BY <2>1, <3>1, <3>2 DEF Progress
  <2> QED BY <1>0, <2>1, <2>2, <2>3, DestRecord, PartWritten
<1>7. CASE InstallFile
  <2> DEFINE w == [disk[dest] EXCEPT !.files = @ \cup {next}]
  <2>1. next \in File /\ next + 1 \in 1..(Files + 1)
    BY <1>0, <1>7, DestRecord DEF InstallFile, File
  <2>2. /\ w \in Disk /\ w.marker = disk[dest].marker
        /\ w.files = disk[dest].files \cup {next} /\ w.body = disk[dest].body
    BY <1>0, <2>1, DestRecord DEF Disk
  <2>3. Writes(w, "files") /\ next' = next + 1 /\ cut' = cut /\ owed' = owed
    BY <1>7 DEF InstallFile
  <2> HIDE DEF w
  <2>4. Progress'
    <3>1. disk[dest].files = 1..(next - 1) /\ disk[dest].body = "whole"
      BY <1>7 DEF InstallFile, IInv, Progress
    <3>2. disk'[dest'] = w /\ pc' = "files"
      BY <1>0, <2>3, DestRecord DEF Writes
    <3>3. (1..(next - 1)) \cup {next} = 1..(next' - 1)
      BY <1>0, <2>3, DestRecord
    <3> QED BY <2>2, <3>1, <3>2, <3>3 DEF Progress
  <2> QED BY <1>0, <2>1, <2>2, <2>3, <2>4, DestRecord, PartWritten
<1> QED BY <1>1, <1>2, <1>3, <1>4, <1>5, <1>6, <1>7

\* The end of an installation: the disk is complete.
LEMMA InstalledStep ==
  ASSUME IInv, Installed
  PROVE  IInv'
<1>1. /\ dest \in Drive /\ disk[dest].body = "whole" /\ disk[dest].files = File
      /\ drives \subseteq Drive
  <2>1. next = Files + 1 /\ disk[dest].files = 1..(next - 1)
    BY DEF Installed, IInv, TypeOK, Progress
  <2> QED BY <2>1 DEF Installed, IInv, TypeOK, Progress, File
<1>2. TypeOK' /\ LiveIsLive' /\ WhoIsWhere' /\ Progress' /\ NoSweepLost'
  BY DEF Installed, IInv, TypeOK, LiveIsLive, WhoIsWhere, Progress, NoSweepLost, Writing
<1>3. CompleteUnlessCut'
  <2> SUFFICES ASSUME NEW d \in drives \ {Live},
                      disk[d].boot = "code", d \notin cut \ {dest}, d # dest
               PROVE  disk[d].body = "whole" /\ disk[d].files = File
    BY <1>1 DEF Installed, CompleteUnlessCut
  <2> QED BY DEF IInv, CompleteUnlessCut, InstallingTo
<1> QED BY <1>2, <1>3 DEF IInv

LEMMA ClearStep ==
  ASSUME IInv, ClearMarker
  PROVE  IInv'
<1>1. /\ up \in Drive /\ up # Live /\ up \notin owed /\ disk \in [Drive -> Disk]
      /\ \A d \in Drive : disk[d] \in Disk
  BY DEF ClearMarker, IInv, TypeOK, WhoIsWhere, Drive
<1>2. /\ \A d \in Drive \ {up} : disk'[d] = disk[d]
      /\ disk'[up].marker = "none" /\ disk'[up] \in Disk
      /\ disk'[up].boot = disk[up].boot /\ disk'[up].body = disk[up].body
      /\ disk'[up].files = disk[up].files
      /\ disk' \in [Drive -> Disk]
  BY <1>1 DEF ClearMarker, Disk
<1>3. pc = "clear" /\ pc' \in {"shell", "halt"}
      /\ UNCHANGED <<drives, up, dest, testing, next, ran, losses, cut, owed>>
  BY DEF ClearMarker, history
<1>4. TypeOK' /\ WhoIsWhere' /\ Progress'
  BY <1>2, <1>3 DEF IInv, TypeOK, WhoIsWhere, Progress, Writing
<1>5. LiveIsLive'
  BY <1>1, <1>2 DEF IInv, LiveIsLive, Live, Drive
<1>6. NoSweepLost'
  BY <1>1, <1>2, <1>3 DEF IInv, NoSweepLost, TypeOK
<1>7. CompleteUnlessCut'
  BY <1>1, <1>2, <1>3 DEF IInv, CompleteUnlessCut, InstallingTo, TypeOK, Writing
<1> QED BY <1>4, <1>5, <1>6, <1>7 DEF IInv

-----------------------------------------------------------------------------
LEMMA StepIInv == IInv /\ [Next]_vars => IInv'
<1> SUFFICES ASSUME IInv, [Next]_vars PROVE IInv'
  OBVIOUS
<1>1. CASE UNCHANGED vars
  <2> USE <1>1 DEF vars, machine, history
  <2>1. TypeOK' /\ LiveIsLive' /\ WhoIsWhere'
    BY DEF IInv, TypeOK, LiveIsLive, WhoIsWhere
  <2>2. Progress' /\ NoSweepLost' /\ CompleteUnlessCut'
    BY DEF IInv, Progress, NoSweepLost, CompleteUnlessCut, InstallingTo
  <2> QED BY <2>1, <2>2 DEF IInv
<1>2. CASE StartHdd
  BY <1>2, Started DEF StartHdd
<1>3. CASE StartLive
  <2>1. Live \in drives /\ Live \in {0, 1}
    BY DEF IInv, TypeOK, Live
  <2> QED BY <1>3, <2>1, Started DEF StartLive
<1> QED
  BY <1>1, <1>2, <1>3, QuietStep, InstallStep, InstalledStep, ClearStep
     DEF Next, Kernel, User

\* Every variable of Installer keeps its type, for every set of drives the
\* machine may have, every number of files and of power losses.
THEOREM InstallerTypeCorrect == Spec => []TypeOK
<1>1. IInv => TypeOK
  BY DEF IInv
<1> QED BY <1>1, InitIInv, StepIInv, PTL DEF Spec

\* A promised sweep is never lost: the TEST marker stays until every program
\* was run, whatever is interrupted (installer.c:107-119, kernel.c:108-145).
THEOREM NoSweepIsLost == Spec => []NoSweepLost
<1>1. IInv => NoSweepLost
  BY DEF IInv
<1> QED BY <1>1, InitIInv, StepIInv, PTL DEF Spec

\* A disk that can be started is complete unless its last installation was cut
\* short (installer.c:77-199).
THEOREM CompleteUnlessCutShort == Spec => []CompleteUnlessCut
<1>1. IInv => CompleteUnlessCut
  BY DEF IInv
<1> QED BY <1>1, InitIInv, StepIInv, PTL DEF Spec
=============================================================================
