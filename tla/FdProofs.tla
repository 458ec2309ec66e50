------------------------------ MODULE FdProofs ------------------------------
(***************************************************************************)
(* Theorems about FdTable, for every geometry of the disk and every set of *)
(* files.                                                                  *)
(***************************************************************************)
EXTENDS FdTable, TLAPS

\* Remainders, for the provers.
LEMMA Remainders ==
  ASSUME NEW a \in Nat, NEW b \in Nat \ {0}
  PROVE  /\ a % b \in Nat
         /\ a % b < b
         /\ a % b <= a
         /\ a < b => a % b = a
  OBVIOUS

LEMMA Wraps ==
  ASSUME NEW a \in Int
  PROVE  a % Word \in 0..(Word - 1)
  BY FdsOK DEF FdsOK

\* A read begins at the offset or before it; at it, when it lies in the first
\* sector of a cluster or when a cluster is one sector.
LEMMA StartFacts ==
  ASSUME NEW offset \in Nat
  PROVE  /\ ReadStart(offset) \in Nat
         /\ ReadStart(offset) <= offset
         /\ offset % cluster_size < SectorSize => ReadStart(offset) = offset
         /\ SectorsPerCluster = 1 => ReadStart(offset) = offset
<1> DEFINE skip == offset % cluster_size
<1>1. /\ cluster_size \in Nat \ {0} /\ SectorSize \in Nat \ {0}
      /\ SectorsPerCluster = 1 => cluster_size = SectorSize
  BY FdsOK DEF FdsOK, cluster_size
<1>2. skip \in Nat /\ skip < cluster_size /\ skip <= offset
  BY <1>1, Remainders
<1>3. ReadStart(offset) = offset - skip + Skipped(skip)
  BY DEF ReadStart
<1>4. /\ Skipped(skip) \in Nat
      /\ Skipped(skip) <= skip
      /\ skip < SectorSize => Skipped(skip) = skip
  BY <1>1, <1>2 DEF Skipped
<1> HIDE DEF skip
<1>5. /\ ReadStart(offset) \in Nat
      /\ ReadStart(offset) <= offset
      /\ skip < SectorSize => ReadStart(offset) = offset
  BY <1>2, <1>3, <1>4
<1> QED
  BY <1>1, <1>2, <1>5 DEF skip

LEMMA FileFacts ==
  ASSUME NEW f \in Files
  PROVE  /\ Size[f] \in 0..(Word - 1)
         /\ Entries[f] \in 0..(Word - 1)
         /\ Clusters[f] \in Nat
         /\ cluster_size * Clusters[f] \in Nat
         /\ Size[f] <= cluster_size * Clusters[f]
<1>1. cluster_size \in Nat /\ Clusters[f] \in Nat
  BY FdsOK DEF FdsOK
<1>2. cluster_size * Clusters[f] \in Nat
  <2> HIDE DEF cluster_size
  <2> QED BY <1>1
<1> QED
  BY <1>1, <1>2, FdsOK DEF FdsOK

\* What a read delivers from an entry whose offset may lie anywhere, and from
\* one whose offset lies inside its file.
LEMMA DeliversFacts ==
  ASSUME NEW e \in OpenFile, NEW count \in Counts
  PROVE  LET n == Delivers(e, count) left == Size[e.file] - e.offset
         IN  /\ n \in 0..(Word - 1)
             /\ n <= count
             /\ left >= 0 =>
                  /\ n <= left
                  /\ count < left => n = count
                  /\ count >= left => n = left
<1>1. /\ e.file \in Files /\ e.offset \in 0..(Word - 1) /\ Word \in Nat \ {0}
      /\ count \in 0..(Word - 1)
  BY FdsOK DEF OpenFile, FdsOK
<1> DEFINE f == e.file o == e.offset there == cluster_size * Clusters[f] - ReadStart(o)
<1>2. /\ Size[f] \in 0..(Word - 1)
      /\ cluster_size * Clusters[f] \in Nat
      /\ Size[f] <= cluster_size * Clusters[f]
  BY <1>1, FileFacts
<1>3. ReadStart(o) \in Nat /\ ReadStart(o) <= o
  BY <1>1, StartFacts
<1> DEFINE all == cluster_size * Clusters[f]
<1>4. there = all - ReadStart(o) /\ all \in Nat /\ Size[f] <= all
  BY <1>2
<1>5. /\ Remaining(e) \in 0..(Word - 1)
      /\ Size[f] - o >= 0 => Remaining(e) = Size[f] - o
  <2> DEFINE d == Size[f] - o
  <2>1. d \in Int /\ d < Word /\ Remaining(e) = d % Word
    BY <1>1, <1>2 DEF Remaining
  <2> HIDE DEF d
  <2>2. d % Word \in 0..(Word - 1)
    BY <2>1, Wraps
  <2>3. d >= 0 => d % Word = d
    BY <1>1, <2>1, Remainders
  <2> QED
    BY <2>1, <2>2, <2>3 DEF d
<1>6. Delivers(e, count) =
        LET want == IF count <= Remaining(e) THEN count ELSE Remaining(e)
        IN  IF there <= 0 THEN 0 ELSE IF there < want THEN there ELSE want
  BY DEF Delivers
<1> DEFINE want == IF count <= Remaining(e) THEN count ELSE Remaining(e)
           n    == IF there <= 0 THEN 0 ELSE IF there < want THEN there ELSE want
<1>7. Delivers(e, count) = n
  BY <1>6
<1> HIDE DEF all
<1>8. there \in Int /\ (Size[f] - o >= 0 => Size[f] - o <= there)
  BY <1>1, <1>2, <1>3, <1>4
<1> HIDE DEF there
<1>9. want \in Nat /\ want <= count /\ want <= Remaining(e)
  BY <1>1, <1>5
<1>10. /\ n \in 0..(Word - 1)
       /\ n <= count
  BY <1>1, <1>5, <1>8, <1>9
<1>11. Size[f] - o >= 0 =>
         /\ n <= Size[f] - o
         /\ count < Size[f] - o => n = count
         /\ count >= Size[f] - o => n = Size[f] - o
  BY <1>1, <1>2, <1>5, <1>8
<1> QED
  BY <1>7, <1>10, <1>11

-----------------------------------------------------------------------------
(***************************************************************************)
(* The inductive invariant: types, and offsets inside their files.         *)
(***************************************************************************)
FdInv == TypeOK /\ OffsetsInside

InsideSlot(e) ==
  /\ e \in Slot
  /\ e.kind = "file" /\ Plain(e.file) => e.offset <= Size[e.file]

\* One slot changes, to something that is right.
LEMMA SlotChanges ==
  ASSUME FdInv, NEW fd \in Fd, NEW e, InsideSlot(e),
         fds' = [fds EXCEPT ![fd] = e],
         got' \in [fd : Fd \cup {-1}, asked : Nat, from : Nat, n : Nat]
  PROVE  FdInv'
<1>1. /\ fds' \in [Fd -> Slot]
      /\ \A d \in Fd : fds'[d] = IF d = fd THEN e ELSE fds[d]
  BY DEF FdInv, TypeOK, InsideSlot
<1> QED
  BY <1>1 DEF FdInv, TypeOK, OffsetsInside, IsFile, InsideSlot

LEMMA FileSlot ==
  ASSUME NEW e \in Slot, e.kind = "file"
  PROVE  e \in OpenFile
  BY DEF Slot, NoFile, Std, OpenFile

LEMMA Moved ==
  ASSUME FdInv, NEW fd \in Fd, IsFile(fd), NEW o \in 0..(Word - 1),
         Plain(fds[fd].file) => o <= Size[fds[fd].file],
         fds' = [fds EXCEPT ![fd].offset = o],
         got' \in [fd : Fd \cup {-1}, asked : Nat, from : Nat, n : Nat]
  PROVE  FdInv'
<1> DEFINE e == [fds[fd] EXCEPT !.offset = o]
<1>1. fds[fd] \in OpenFile
  BY FileSlot DEF FdInv, TypeOK, IsFile
<1>2. /\ e \in OpenFile
      /\ e.file = fds[fd].file /\ e.offset = o /\ e.kind = "file"
  BY <1>1 DEF OpenFile
<1>3. InsideSlot(e)
  BY <1>2 DEF InsideSlot, Slot
<1>4. fds' = [fds EXCEPT ![fd] = e]
  OBVIOUS
<1> QED
  BY <1>3, <1>4, SlotChanges

LEMMA NothingRead == Nothing \in [fd : Fd \cup {-1}, asked : Nat, from : Nat, n : Nat]
  BY DEF Nothing

\* The offset after a read.
LEMMA ReadKeeps ==
  ASSUME FdInv, NEW fd, NEW count \in Counts, ReadFile(fd, count)
  PROVE  FdInv'
<1> DEFINE e == fds[fd] n == Delivers(e, count) o == (e.offset + n) % Word
<1>1. fd \in Fd /\ e \in OpenFile
  BY FileSlot DEF ReadFile, FdInv, TypeOK, IsFile
<1>2. /\ e.offset \in 0..(Word - 1) /\ e.file \in Files
      /\ Size[e.file] \in 0..(Word - 1) /\ Word \in Nat \ {0} /\ count \in Nat
  BY <1>1, FileFacts, FdsOK DEF OpenFile, FdsOK
<1>3. /\ n \in 0..(Word - 1)
      /\ Size[e.file] - e.offset >= 0 => n <= Size[e.file] - e.offset
  BY <1>1, DeliversFacts
<1>4. ReadStart(e.offset) \in Nat
  BY <1>2, StartFacts
<1>5. fds' = [fds EXCEPT ![fd].offset = o]
  BY DEF ReadFile
<1>6. got' \in [fd : Fd \cup {-1}, asked : Nat, from : Nat, n : Nat]
  BY <1>1, <1>2, <1>3, <1>4 DEF ReadFile
<1>7. Plain(e.file) => e.offset <= Size[e.file]
  BY <1>1 DEF FdInv, OffsetsInside, ReadFile
<1> HIDE DEF n
<1>8. o \in 0..(Word - 1)
  <2> DEFINE m == e.offset + n
  <2>1. m \in Int
    BY <1>2, <1>3
  <2> HIDE DEF m
  <2>2. m % Word \in 0..(Word - 1)
    BY <2>1, Wraps
  <2> QED
    BY <2>2 DEF m
<1>9. Plain(e.file) => o <= Size[e.file]
  <2> SUFFICES ASSUME Plain(e.file) PROVE o <= Size[e.file]
    OBVIOUS
  <2> DEFINE m == e.offset + n
  <2>1. m \in Nat /\ m < Word /\ m <= Size[e.file] /\ o = m % Word
    BY <1>2, <1>3, <1>7
  <2> HIDE DEF m
  <2>2. m % Word = m
    BY <1>2, <2>1, Remainders
  <2> QED
    BY <2>1, <2>2
<1> QED
  BY <1>1, <1>5, <1>6, <1>8, <1>9, Moved DEF ReadFile

\* The offset after a seek.
LEMMA SeekKeeps ==
  ASSUME FdInv, NEW fd, NEW shift \in Shifts, NEW whence \in 0..3,
         IsFile(fd), Seek(fd, shift, whence)
  PROVE  FdInv'
<1> DEFINE e == fds[fd] o == Clamp(Target(e, shift, whence), Size[e.file])
<1>1. fd \in Fd /\ e \in OpenFile
  BY FileSlot DEF FdInv, TypeOK, IsFile
<1>2. /\ e.offset \in 0..(Word - 1) /\ Size[e.file] \in 0..(Word - 1)
      /\ shift \in 0..(Word - 1) /\ Word \in Nat \ {0}
  BY <1>1, FileFacts, FdsOK DEF OpenFile, FdsOK
<1>3. Target(e, shift, whence) \in 0..(Word - 1)
  BY <1>2, Wraps DEF Target
<1>4. o \in 0..(Word - 1) /\ o <= Size[e.file]
  BY <1>2, <1>3 DEF Clamp
<1>5. fds' = [fds EXCEPT ![fd].offset = o] /\ got' = Nothing
  BY DEF Seek, ReadsNothing
<1> QED
  BY <1>1, <1>4, <1>5, Moved, NothingRead

\* The offset after a listing.
LEMMA ListKeeps ==
  ASSUME FdInv, NEW fd, NEW count \in Counts, getdents64(fd, count)
  PROVE  FdInv'
<1> DEFINE e    == fds[fd]
           left == Entries[e.file] - e.offset
           n    == IF left <= 0 THEN 0 ELSE IF left < count THEN left ELSE count
           o    == e.offset + n
<1>1. fd \in Fd /\ e \in OpenFile
  BY FileSlot DEF getdents64, FdInv, TypeOK, IsFile
<1>2. /\ e.offset \in 0..(Word - 1) /\ Entries[e.file] \in 0..(Word - 1)
      /\ Size[e.file] \in 0..(Word - 1)
      /\ Word \in Nat \ {0} /\ count \in Nat
  BY <1>1, FileFacts, FdsOK DEF OpenFile, FdsOK
<1>3. fds' = [fds EXCEPT ![fd].offset = o] /\ got' = Nothing
  BY DEF getdents64, ReadsNothing
<1>4. Plain(e.file) => e.offset <= Size[e.file] /\ Entries[e.file] <= Size[e.file]
  BY <1>1 DEF FdInv, OffsetsInside, getdents64, Plain
<1>5. o \in 0..(Word - 1) /\ (Plain(e.file) => o <= Size[e.file])
  BY <1>2, <1>4
<1> QED
  BY <1>1, <1>3, <1>5, Moved, NothingRead DEF getdents64

LEMMA FdNext == FdInv /\ [Next]_vars => FdInv'
<1> SUFFICES ASSUME FdInv, [Next]_vars PROVE FdInv'
  OBVIOUS
<1>1. \A fd \in Fd : InsideSlot(fds[fd])
  BY DEF FdInv, TypeOK, OffsetsInside, InsideSlot, IsFile
<1>2. InsideSlot(NoFile)
  BY DEF InsideSlot, Slot, NoFile
<1>3. ASSUME Refuses PROVE FdInv'
  BY <1>3, NothingRead DEF Refuses, ReadsNothing, FdInv, TypeOK, OffsetsInside, IsFile
<1>4. ASSUME NEW file \in Files, proc_open(file) PROVE FdInv'
  <2>1. PICK fd \in Fd :
          /\ fds' = [fds EXCEPT ![fd] = [kind |-> "file", file |-> file, offset |-> 0]]
          /\ got' = Nothing
    BY <1>4 DEF proc_open, ReadsNothing
  <2>2. InsideSlot([kind |-> "file", file |-> file, offset |-> 0])
    BY FileFacts, FdsOK DEF InsideSlot, Slot, OpenFile, FdsOK
  <2> QED
    BY <2>1, <2>2, SlotChanges, NothingRead
<1>5. ASSUME NEW fd, Close(fd) PROVE FdInv'
  <2>1. CASE fd \in Fd /\ fd >= 3
    <3>1. fds' = [fds EXCEPT ![fd] = NoFile] /\ got' = Nothing
      BY <1>5, <2>1 DEF Close, ReadsNothing, FdInv, TypeOK
    <3> QED
      BY <1>2, <2>1, <3>1, SlotChanges, NothingRead
  <2>2. CASE ~(fd \in Fd /\ fd >= 3)
    <3>1. fds' = fds
      BY <1>5, <2>2 DEF Close, FdInv, TypeOK
    <3> QED
      BY <1>3, <1>5, <3>1 DEF Close, Refuses
  <2> QED
    BY <2>1, <2>2
<1>6. ASSUME NEW oldfd, NEW newfd, Dup2(oldfd, newfd) PROVE FdInv'
  <2>1. CASE oldfd \in Fd /\ newfd \in Fd
    BY <1>1, <1>6, <2>1, SlotChanges, NothingRead DEF Dup2, ReadsNothing
  <2>2. CASE ~(oldfd \in Fd /\ newfd \in Fd)
    BY <1>3, <1>6, <2>2 DEF Dup2
  <2> QED
    BY <2>1, <2>2
<1>7. ASSUME NEW fd, ReadKey(fd) PROVE FdInv'
  BY <1>3, <1>7 DEF ReadKey, Refuses
<1>8. CASE UNCHANGED vars
  BY <1>8 DEF vars, FdInv, TypeOK, OffsetsInside, IsFile
<1>9. CASE Next
  BY <1>3, <1>4, <1>5, <1>6, <1>7, <1>9, ReadKeeps, SeekKeeps, ListKeeps
  DEF Next, OpenFails, ReadFails, SeekFails, ListFails
<1> QED
  BY <1>8, <1>9

LEMMA FdInvariant == Spec => []FdInv
<1>1. Init => FdInv
  <2> SUFFICES ASSUME Init PROVE FdInv
    OBVIOUS
  <2>1. fds \in [Fd -> Slot] /\ \A fd \in Fd : fds[fd].kind # "file"
    BY DEF Init, Slot, NoFile, Std
  <2> QED
    BY <2>1, NothingRead DEF Init, FdInv, TypeOK, OffsetsInside, IsFile
<1> QED
  BY <1>1, FdNext, PTL DEF Spec

\* Every variable keeps its type: no descriptor's offset leaves 32 bits, no
\* call delivers less than nothing.
THEOREM FdTypeCorrect == Spec => []TypeOK
<1>1. FdInv => TypeOK
  BY DEF FdInv
<1> QED
  BY <1>1, FdInvariant, PTL

\* No sequence of calls brings an offset behind the end of a plain file.
THEOREM OffsetsStayInside == Spec => []OffsetsInside
<1>1. FdInv => OffsetsInside
  BY DEF FdInv
<1> QED
  BY <1>1, FdInvariant, PTL

-----------------------------------------------------------------------------
(***************************************************************************)
(* What a read delivers.                                                   *)
(***************************************************************************)

\* Only a read reports a descriptor it has read from.
LEMMA OnlyReadsRead ==
  ASSUME Next, NEW fd \in Fd, got'.fd = fd
  PROVE  \E count \in Counts : ReadFile(fd, count)
<1>1. ~ReadsNothing
  <2>1. Nothing.fd = -1 /\ fd # -1
    BY DEF Nothing, Fd
  <2> QED
    BY <2>1 DEF ReadsNothing
<1>2. \E d \in -1..MaxFds, count \in Counts : ReadFile(d, count)
  BY <1>1 DEF Next, proc_open, OpenFails, Refuses, getdents64, ReadKey, ReadFails, Close,
              Dup2, Seek, SeekFails, ListFails
<1>3. PICK d \in -1..MaxFds, count \in Counts : ReadFile(d, count)
  BY <1>2
<1>4. got'.fd = d
  BY <1>3 DEF ReadFile
<1> QED
  BY <1>3, <1>4

LEMMA ReadsExact ==
  ASSUME FdInv, NEW fd \in Fd, NEW count \in Counts, ReadFile(fd, count),
         Plain(fds[fd].file)
  PROVE  LET e == fds[fd] left == Size[e.file] - e.offset
         IN  /\ e.offset \in Nat /\ left \in Nat
             /\ got'.asked = count
             /\ got'.from = ReadStart(e.offset)
             /\ got'.from <= e.offset
             /\ got'.n \in Nat /\ got'.n <= left
             /\ got'.n = IF count < left THEN count ELSE left
<1> DEFINE e == fds[fd]
<1>1. e \in OpenFile
  BY FileSlot DEF ReadFile, FdInv, TypeOK, IsFile
<1>2. e.offset \in 0..(Word - 1) /\ Size[e.file] \in 0..(Word - 1) /\ count \in Nat
  BY <1>1, FileFacts, FdsOK DEF OpenFile, FdsOK
<1>3. e.offset <= Size[e.file]
  BY DEF FdInv, OffsetsInside, ReadFile
<1>4. /\ got'.asked = count
      /\ got'.from = ReadStart(e.offset)
      /\ got'.n = Delivers(e, count)
  BY DEF ReadFile
<1>5. ReadStart(e.offset) <= e.offset
  BY <1>2, StartFacts
<1>6. LET left == Size[e.file] - e.offset
      IN  /\ Delivers(e, count) \in 0..(Word - 1)
          /\ Delivers(e, count) <= left
          /\ count < left => Delivers(e, count) = count
          /\ count >= left => Delivers(e, count) = left
  BY <1>1, <1>2, <1>3, DeliversFacts
<1> QED
  BY <1>2, <1>3, <1>4, <1>5, <1>6

\* A read delivers no byte behind the end of a plain file.
THEOREM ReadsEndInFile == Spec => NoByteBehindTheEnd
<1>1. ASSUME FdInv, Next, NEW fd \in Fd, Reads(fd)
      PROVE  got'.from + got'.n <= Size[fds[fd].file]
  <2>1. PICK count \in Counts : ReadFile(fd, count)
    BY <1>1, OnlyReadsRead DEF Reads
  <2>2. ReadStart(fds[fd].offset) \in Nat
    BY <1>1, <2>1, ReadsExact, StartFacts DEF Reads
  <2>3. fds[fd].file \in Files
    BY <1>1, FileSlot DEF Reads, IsFile, FdInv, TypeOK, OpenFile
  <2>4. Size[fds[fd].file] \in Nat
    BY <2>3, FileFacts, FdsOK DEF FdsOK
  <2> QED
    BY <1>1, <2>1, <2>2, <2>4, ReadsExact DEF Reads
<1>2. FdInv /\ [Next]_vars =>
        [\A fd \in Fd : Reads(fd) => got'.from + got'.n <= Size[fds[fd].file]]_vars
  BY <1>1
<1> QED
  BY <1>2, FdInvariant, PTL DEF Spec, NoByteBehindTheEnd

\* A read that begins in the first sector of a cluster delivers exactly the
\* bytes of the file from its offset, over any number of clusters.
THEOREM NearReadsRight == Spec => NearReadsExact
<1> DEFINE A(fd) ==
      Reads(fd) /\ fds[fd].offset % cluster_size < SectorSize =>
        LET left == Size[fds[fd].file] - fds[fd].offset
        IN  /\ got'.from = fds[fd].offset
            /\ got'.n = IF got'.asked < left THEN got'.asked ELSE left
<1>1. ASSUME FdInv, Next, NEW fd \in Fd PROVE A(fd)
  <2> SUFFICES ASSUME Reads(fd), fds[fd].offset % cluster_size < SectorSize
               PROVE  LET left == Size[fds[fd].file] - fds[fd].offset
                      IN  /\ got'.from = fds[fd].offset
                          /\ got'.n = IF got'.asked < left THEN got'.asked ELSE left
    OBVIOUS
  <2>1. PICK count \in Counts : ReadFile(fd, count)
    BY <1>1, OnlyReadsRead DEF Reads
  <2>2. fds[fd].offset \in Nat
    BY <1>1, <2>1, ReadsExact DEF Reads
  <2>3. ReadStart(fds[fd].offset) = fds[fd].offset
    BY <2>2, StartFacts
  <2> QED
    BY <1>1, <2>1, <2>3, ReadsExact DEF Reads
<1> HIDE DEF A
<1>2. FdInv /\ [Next]_vars => [\A fd \in Fd : A(fd)]_vars
  BY <1>1
<1>3. Spec => [][\A fd \in Fd : A(fd)]_vars
  BY <1>2, FdInvariant, PTL DEF Spec
<1> QED
  BY <1>3 DEF A, NearReadsExact

\* A program that asks for bytes of a plain file and gets none is at its end.
THEOREM NoEarlyEnd == Spec => EndIsTheEnd
<1> DEFINE A(fd) == Reads(fd) /\ got'.asked > 0 /\ got'.n = 0 =>
                      fds[fd].offset = Size[fds[fd].file]
<1>1. ASSUME FdInv, Next, NEW fd \in Fd PROVE A(fd)
  <2> SUFFICES ASSUME Reads(fd), got'.asked > 0, got'.n = 0
               PROVE  fds[fd].offset = Size[fds[fd].file]
    OBVIOUS
  <2>1. PICK count \in Counts : ReadFile(fd, count)
    BY <1>1, OnlyReadsRead DEF Reads
  <2>2. fds[fd].file \in Files
    BY <1>1, FileSlot DEF Reads, IsFile, FdInv, TypeOK, OpenFile
  <2>3. Size[fds[fd].file] \in Int
    BY <2>2, FileFacts, FdsOK DEF FdsOK
  <2> QED
    BY <1>1, <2>1, <2>3, ReadsExact DEF Reads
<1> HIDE DEF A
<1>2. FdInv /\ [Next]_vars => [\A fd \in Fd : A(fd)]_vars
  BY <1>1
<1>3. Spec => [][\A fd \in Fd : A(fd)]_vars
  BY <1>2, FdInvariant, PTL DEF Spec
<1> QED
  BY <1>3 DEF A, EndIsTheEnd

\* On a disk whose clusters are one sector every read begins at the offset.
THEOREM SmallClustersRight == SectorsPerCluster = 1 => (Spec => ReadsTheFile)
<1> SUFFICES ASSUME SectorsPerCluster = 1 PROVE Spec => ReadsTheFile
  OBVIOUS
<1> DEFINE A(fd) == Reads(fd) /\ got'.n > 0 => got'.from = fds[fd].offset
<1>1. ASSUME FdInv, Next, NEW fd \in Fd PROVE A(fd)
  <2> SUFFICES ASSUME Reads(fd) PROVE got'.from = fds[fd].offset
    OBVIOUS
  <2>1. PICK count \in Counts : ReadFile(fd, count)
    BY <1>1, OnlyReadsRead DEF Reads
  <2>2. fds[fd].offset \in Nat /\ got'.from = ReadStart(fds[fd].offset)
    BY <1>1, <2>1, ReadsExact DEF Reads
  <2> QED
    BY <2>2, StartFacts
<1> HIDE DEF A
<1>2. FdInv /\ [Next]_vars => [\A fd \in Fd : A(fd)]_vars
  BY <1>1
<1>3. Spec => [][\A fd \in Fd : A(fd)]_vars
  BY <1>2, FdInvariant, PTL DEF Spec
<1> QED
  BY <1>3 DEF A, ReadsTheFile
=============================================================================
