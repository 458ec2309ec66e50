------------------------------ MODULE FdTable ------------------------------
(***************************************************************************)
(* The file descriptors of one process: proc_open, proc_read_fd and the    *)
(* Linux calls close, dup2, lseek, _llseek and getdents64 of cpu/syscall.c *)
(* over files that do not change while they are open.                      *)
(*                                                                         *)
(* The bytes in the clusters of a file are numbered from 0 in the order of *)
(* its chain, so byte i of the file is byte i of its clusters, and the     *)
(* result of a read is the number of the first byte delivered and how many *)
(* follow it.                                                              *)
(***************************************************************************)
EXTENDS Integers

CONSTANTS
  MaxFds,             \* MAX_FDS: 16
  SectorSize,         \* 512
  SectorsPerCluster,  \* bpb->sectors_per_cluster; 8 on the disks made here
  Word,               \* 2^32: offsets, sizes and counts are u32
  Files,              \* what a path can name, directories included
  Size,               \* file_size of each entry; 0 for a directory
  Clusters,           \* length of each file's chain
  Entries,            \* directory entries its clusters read as
  Counts,             \* counts passed to read and getdents64
  Shifts,             \* offsets passed to lseek, as u32
  Copies              \* bound of the model: the newfd passed to dup2

cluster_size == SectorSize * SectorsPerCluster

ASSUME FdsOK ==
  /\ MaxFds \in Nat /\ MaxFds > 3
  /\ SectorSize \in Nat \ {0}
  /\ SectorsPerCluster \in Nat \ {0}
  /\ cluster_size \in Nat \ {0}
  /\ Word \in Nat \ {0}
  /\ Size \in [Files -> 0..(Word - 1)]
  /\ Clusters \in [Files -> Nat]
  /\ Entries \in [Files -> 0..(Word - 1)]
  /\ \A f \in Files : Size[f] <= cluster_size * Clusters[f]
  /\ Counts \subseteq 0..(Word - 1)
  /\ Shifts \subseteq 0..(Word - 1)
  /\ Copies \subseteq Int

VARIABLES
  fds,          \* proc->fds
  got           \* what the last call delivered, when it was a read of a file

vars == <<fds, got>>

Fd      == 0..(MaxFds - 1)
NoFile  == [kind |-> "free"]
Std     == {"stdin", "stdout", "stderr"}
Nothing == [fd |-> -1, asked |-> 0, from |-> 0, n |-> 0]

OpenFile == [kind : {"file"}, file : Files, offset : 0..(Word - 1)]
Slot     == {NoFile} \cup [kind : Std] \cup OpenFile

TypeOK ==
  /\ fds \in [Fd -> Slot]
  /\ got \in [fd : Fd \cup {-1}, asked : Nat, from : Nat, n : Nat]

Init ==         \* the end of task_create
  /\ fds = [fd \in Fd |-> CASE fd = 0 -> [kind |-> "stdin"]
                            [] fd = 1 -> [kind |-> "stdout"]
                            [] fd = 2 -> [kind |-> "stderr"]
                            [] OTHER  -> NoFile]
  /\ got = Nothing

ReadsNothing == got' = Nothing
Refuses      == ReadsNothing /\ UNCHANGED fds  \* a negative answer

IsFile(fd) == fd \in Fd /\ fds[fd].kind = "file"

-----------------------------------------------------------------------------
(***************************************************************************)
(* open.                                                                   *)
(***************************************************************************)
Available(fd) == fd \in Fd /\ fd >= 3 /\ fds[fd].kind = "free"

proc_open(file) ==
  \E fd \in Fd :
    /\ Available(fd)
    /\ \A lower \in 0..(fd - 1) : ~Available(lower)
    /\ fds' = [fds EXCEPT ![fd] = [kind |-> "file", file |-> file, offset |-> 0]]
    /\ ReadsNothing

OpenFails ==    \* no such file, or every slot is taken
  Refuses

-----------------------------------------------------------------------------
(***************************************************************************)
(* read.                                                                   *)
(***************************************************************************)

\* The walk of the chain goes to the cluster that holds the offset.  Inside it
\* the bytes to skip are skipped in the first sector only: when there are more
\* of them than one sector holds, that whole sector is skipped and no other.
Skipped(skip) == IF skip < SectorSize THEN skip ELSE SectorSize

\* Mutant: the chain is left one cluster early.
StartEarly(offset) ==
  LET skip == offset % cluster_size
  IN  IF skip = 0 /\ offset > 0 THEN offset - cluster_size + Skipped(cluster_size)
                                ELSE offset - skip + Skipped(skip)

ReadStart(offset) ==
  LET skip == offset % cluster_size IN offset - skip + Skipped(skip)

Remaining(e) == (Size[e.file] - e.offset) % Word

\* Mutant: the count is not cut at the end of the file.
DeliversAll(e, count) ==
  LET there == cluster_size * Clusters[e.file] - ReadStart(e.offset)
  IN  IF there <= 0 THEN 0 ELSE IF there < count THEN there ELSE count

\* Mutant: a count that reaches the end is cut one byte short of it.
DeliversLess(e, count) ==
  LET want  == IF count < Remaining(e) \/ Remaining(e) = 0 THEN count
               ELSE Remaining(e) - 1
      there == cluster_size * Clusters[e.file] - ReadStart(e.offset)
  IN  IF there <= 0 THEN 0 ELSE IF there < want THEN there ELSE want

Delivers(e, count) ==
  LET want  == IF count <= Remaining(e) THEN count ELSE Remaining(e)
      there == cluster_size * Clusters[e.file] - ReadStart(e.offset)
  IN  IF there <= 0 THEN 0 ELSE IF there < want THEN there ELSE want

\* Mutant: the offset moves by what was asked for.
ReadMovesByCount(fd, count) ==
  /\ IsFile(fd)
  /\ LET n == Delivers(fds[fd], count)
     IN  /\ fds' = [fds EXCEPT ![fd].offset = (@ + count) % Word]
         /\ got' = [fd |-> fd, asked |-> count,
                     from |-> ReadStart(fds[fd].offset), n |-> n]

ReadFile(fd, count) ==
  /\ IsFile(fd)
  /\ LET n == Delivers(fds[fd], count)
     IN  /\ fds' = [fds EXCEPT ![fd].offset = (@ + n) % Word]
         /\ got' = [fd |-> fd, asked |-> count,
                     from |-> ReadStart(fds[fd].offset), n |-> n]

ReadKey(fd) ==  \* one character or none, whatever the count
  /\ fd \in Fd
  /\ fds[fd].kind = "stdin"
  /\ ReadsNothing
  /\ UNCHANGED fds

ReadFails(fd) ==
  /\ fd \in Fd => fds[fd].kind \in {"free", "stdout", "stderr"}
  /\ Refuses

-----------------------------------------------------------------------------
(***************************************************************************)
(* close and dup2.                                                         *)
(***************************************************************************)
Close(fd) ==    \* the answer is 0 whatever fd is
  /\ fds' = [d \in Fd |-> IF d = fd /\ d >= 3 THEN NoFile ELSE fds[d]]
  /\ ReadsNothing

Dup2(oldfd, newfd) ==
  IF oldfd \in Fd /\ newfd \in Fd
  THEN fds' = [fds EXCEPT ![newfd] = fds[oldfd]] /\ ReadsNothing
  ELSE Refuses

-----------------------------------------------------------------------------
(***************************************************************************)
(* lseek and _llseek.  Sums are u32; a sum whose top bit is set counts as  *)
(* negative.                                                               *)
(***************************************************************************)
Clamp(sum, size) ==
  IF sum >= Word \div 2 THEN 0 ELSE IF sum > size THEN size ELSE sum

Target(e, shift, whence) ==
  CASE whence = 0 -> shift
    [] whence = 1 -> (e.offset + shift) % Word
    [] whence = 2 -> (Size[e.file] + shift) % Word
    [] OTHER      -> e.offset

Seek(fd, shift, whence) ==
  LET to == Clamp(Target(fds[fd], shift, whence), Size[fds[fd].file])
  IN  /\ fds' = [fds EXCEPT ![fd].offset = to]
      /\ ReadsNothing

SeekFails(fd) == ~IsFile(fd) /\ Refuses

-----------------------------------------------------------------------------
(***************************************************************************)
(* getdents64 uses the offset as the index of the next entry.  A count     *)
(* stands for the number of records that fit into the buffer.              *)
(***************************************************************************)
getdents64(fd, count) ==
  /\ IsFile(fd)
  /\ LET left == Entries[fds[fd].file] - fds[fd].offset
         n    == IF left <= 0 THEN 0 ELSE IF left < count THEN left ELSE count
     IN  /\ fds' = [fds EXCEPT ![fd].offset = @ + n]
         /\ ReadsNothing

ListFails(fd) ==    \* not a file, or kmalloc failed
  Refuses

-----------------------------------------------------------------------------
Next ==
  \/ \E file \in Files : proc_open(file)
  \/ OpenFails
  \/ \E fd \in -1..MaxFds :
       \/ \E count \in Counts : ReadFile(fd, count) \/ getdents64(fd, count)
       \/ ReadKey(fd)
       \/ ReadFails(fd)
       \/ Close(fd)
       \/ \E newfd \in Copies : Dup2(fd, newfd)
       \/ \E shift \in Shifts, whence \in 0..3 : IsFile(fd) /\ Seek(fd, shift, whence)
       \/ SeekFails(fd)
       \/ ListFails(fd)

Spec == Init /\ [][Next]_vars

-----------------------------------------------------------------------------
(***************************************************************************)
(* Properties.  They are about files whose clusters do not read as more    *)
(* directory entries than the file has bytes: for a directory, whose size  *)
(* is 0, the offset counts entries.                                        *)
(***************************************************************************)
Plain(f) == Entries[f] <= Size[f]

Reads(fd) == got'.fd = fd /\ IsFile(fd) /\ Plain(fds[fd].file)

\* An offset never lies behind the end of the file, whatever sums lseek was
\* given and whatever descriptor it was copied from.  (syscall.c:120, 512-518)
OffsetsInside ==
  \A fd \in Fd : IsFile(fd) /\ Plain(fds[fd].file) =>
    fds[fd].offset <= Size[fds[fd].file]

\* A read that begins in the first sector of a cluster delivers exactly the
\* bytes of the file from its offset, as many as were asked for and are left,
\* over any number of clusters.  (syscall.c:131-154)
NearReadsExact ==
  [][\A fd \in Fd :
       Reads(fd) /\ fds[fd].offset % cluster_size < SectorSize =>
         LET left == Size[fds[fd].file] - fds[fd].offset
         IN  /\ got'.from = fds[fd].offset
             /\ got'.n = IF got'.asked < left THEN got'.asked ELSE left]_vars

\* Wherever a read begins, it delivers no byte behind the end of the file.
\* (syscall.c:120-122)
NoByteBehindTheEnd ==
  [][\A fd \in Fd : Reads(fd) => got'.from + got'.n <= Size[fds[fd].file]]_vars

\* A program that asks for bytes and gets none has come to the end.
\* (syscall.c:121-122, 142)
EndIsTheEnd ==
  [][\A fd \in Fd : Reads(fd) /\ got'.asked > 0 /\ got'.n = 0 =>
       fds[fd].offset = Size[fds[fd].file]]_vars

\* The offset of a descriptor is the "byte offset" its reads begin at.
\* (include/cpu/task.h:22)
ReadsTheFile ==
  [][\A fd \in Fd : Reads(fd) /\ got'.n > 0 => got'.from = fds[fd].offset]_vars
=============================================================================
