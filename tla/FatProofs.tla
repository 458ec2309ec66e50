------------------------------ MODULE FatProofs ------------------------------
(***************************************************************************)
(* Proofs about the file system on disk: the types; that every cluster of  *)
(* the tree of directories has one owner; that the current directory is in *)
(* use; that every file holds its own blocks in order; that an entry stays *)
(* until it is removed by its name.                                        *)
(***************************************************************************)
EXTENDS FatChains, WellFoundedInduction, TLAPS

-----------------------------------------------------------------------------
(***************************************************************************)
(* Types.                                                                  *)
(***************************************************************************)

\* A running operation has what its next step needs.
Fits ==
  /\ pc # "idle" => job.path \in Path /\ job.rest # <<>>
  /\ pc \in {"data", "link", "extend"} => job.clus \in Cluster /\ job.left > 0
  /\ pc = "data" /\ Copies => job.from \in Cluster
  /\ job.left <= job.size
  /\ pc = "alloc" => job.op = "install"
  /\ pc \in {"rm", "free", "unlink"} => job.op \in {"mv", "rm", "install"}
  /\ job.op = "install" /\ pc \in {"alloc", "rm", "free", "unlink"} => job.left > 0
  /\ pc = "extend" => fat[job.clus] \in Cluster
  /\ pc \in {"parent", "parentdots"} => job.made \in Cluster /\ Len(job.rest) > 1
  /\ pc = "dots" => job.op = "mkdir"
  /\ pc \in {"data", "link", "extend"} => job.op # "mkdir"
  /\ job.op = "mkdir" => job.clus \in Cluster
  /\ pc \in {"free", "unlink"} =>
       job.slot \in Slots /\ block[cwd].dir /\ At(cwd, job.slot) # NoEntry
  /\ pc = "free" => job.clus \in Cluster
  /\ pc \in {"data", "link", "extend", "entry", "parent", "parentdots"} /\ job.size > 0
       => job.first \in Cluster

\* An entry of some size has a cluster.
SizedEntries ==
  \A c \in Cluster, s \in Slots :
    block[c].dir /\ At(c, s) # NoEntry /\ At(c, s).size > 0 => At(c, s).first \in Cluster

TypeInv == TypeOK /\ Fits /\ SizedEntries

LEMMA Numbers ==
  /\ Root \in Cluster /\ Cluster \subseteq FatValue /\ Cluster \subseteq Nat \ {0}
  /\ 0 \in FatValue /\ EOC \in FatValue /\ EOC \notin Cluster /\ 0 \notin Cluster
  /\ EOC # 0
BY FatOK DEF Root, Cluster, FatValue, EOC

LEMMA CallType ==
  ASSUME NEW k \in Calls
  PROVE  /\ k.op \in Ops /\ k.path \in Path /\ k.dest \in Path
         /\ k.what \in Contents /\ k.size \in Nat \ {0}
         /\ k.op \notin {"cp", "mv"} => k.dest = k.path
BY FatOK

LEMMA PathType ==
  ASSUME NEW p \in Path
  PROVE  /\ p.parts \in Seq(Names) /\ p.parts # <<>> /\ p.rooted \in BOOLEAN
         /\ Len(p.parts) \in Nat \ {0} /\ p.parts[Len(p.parts)] \in Names
<1>1. p.parts \in Seq(Names) /\ p.parts # <<>> /\ p.rooted \in BOOLEAN
  BY DEF Path
<1> QED
  BY <1>1

\* What lies in a slot with a name is an entry.
LEMMA NamedIsEntry ==
  ASSUME TypeOK, NEW c \in Cluster, NEW s \in Slots, block[c].dir, At(c, s) # NoEntry
  PROVE  At(c, s) \in Entry
<1>1. block[c].at \in Dir
  BY DEF TypeOK, Block
<1> QED
  BY <1>1 DEF At, Dir

LEMMA MatchIsEntry ==
  ASSUME TypeOK, NEW c \in Cluster, NEW s \in Slots, NEW n \in Names, Matches(c, n, s)
  PROVE  block[c].dir /\ At(c, s) \in Entry /\ At(c, s) # NoEntry
<1>1. block[c].dir /\ At(c, s).name = n
  BY DEF Matches
<1>2. At(c, s) # NoEntry
  BY <1>1, FatOK DEF NoEntry
<1> QED
  BY <1>1, <1>2, NamedIsEntry

LEMMA FoundIsEntry ==
  ASSUME TypeOK, NEW p \in Path, NEW c \in Cluster, NEW s \in Slots, Finds(p, c, s)
  PROVE  block[c].dir /\ At(c, s) \in Entry /\ At(c, s) # NoEntry
<1>1. Matches(c, p.parts[Len(p.parts)], s)
  BY DEF Finds
<1> QED
  BY <1>1, PathType, MatchIsEntry

LEMMA DirMatchIsEntry ==
  ASSUME TypeOK, NEW c \in Cluster, NEW s \in Slots, NEW n \in Names, MatchesDir(c, n, s)
  PROVE  /\ block[c].dir /\ At(c, s) \in Entry /\ At(c, s) # NoEntry /\ At(c, s).dir
         /\ Subdir(At(c, s)) \in Cluster
<1>1. block[c].dir /\ At(c, s).name = n /\ At(c, s).dir
  BY DEF MatchesDir, IsSubdir
<1>2. At(c, s) # NoEntry
  BY <1>1, FatOK DEF NoEntry
<1>3. At(c, s) \in Entry
  BY <1>1, <1>2, NamedIsEntry
<1> QED
  BY <1>1, <1>2, <1>3, Numbers DEF Subdir, Entry

LEMMA StartIsCluster ==
  ASSUME TypeOK, NEW p PROVE Start(p) \in Cluster
BY Numbers DEF Start, TypeOK

\* The operation's variables, written out.
LEMMA JobIs ==
  ASSUME NEW k, NEW j, j = Job(k)
  PROVE  j = [op |-> k.op, path |-> k.path, what |-> "none",
              size |-> 0, first |-> 0, clus |-> 0, from |-> 0, left |-> 0,
              dir |-> Start(k.dest), rest |-> k.dest.parts, made |-> 0, slot |-> 0]
BY DEF Job, Idle

LEMMA JobType1 ==
  ASSUME TypeOK, NEW k \in Calls
  PROVE  Job(k) \in JobType /\ Job(k).path \in Path /\ Job(k).rest # <<>>
<1> DEFINE j == Job(k)
<1>1. j = [op |-> k.op, path |-> k.path, what |-> "none",
                   size |-> 0, first |-> 0, clus |-> 0, from |-> 0, left |-> 0,
                   dir |-> Start(k.dest), rest |-> k.dest.parts, made |-> 0, slot |-> 0]
  BY JobIs
<1>2. k.op \in Ops /\ k.path \in Path /\ k.dest.parts \in Seq(Names) /\ k.dest.parts # <<>>
  BY CallType, PathType
<1>3. Start(k.dest) \in Cluster
  BY StartIsCluster
<1> HIDE DEF j
<1>4. j \in JobType /\ j.path \in Path /\ j.rest # <<>>
  BY <1>1, <1>2, <1>3, Numbers DEF JobType
<1> QED
  BY <1>4 DEF j

\* The ways in which a step changes the disk.
LEMMA FatSet ==
  ASSUME TypeOK, NEW c \in Cluster, NEW v \in FatValue, SetFat(c, v)
  PROVE  /\ fat' \in [Cluster -> FatValue]
         /\ fat'[c] = v
         /\ \A d \in Cluster \ {c} : fat'[d] = fat[d]
BY DEF TypeOK, SetFat

LEMMA BlockSet ==
  ASSUME TypeOK, NEW c \in Cluster, NEW b \in Block, block' = [block EXCEPT ![c] = b]
  PROVE  /\ block' \in [Cluster -> Block]
         /\ block'[c] = b
         /\ \A d \in Cluster \ {c} : block'[d] = block[d]
BY DEF TypeOK

LEMMA EntryFits ==
  ASSUME NEW up \in Cluster, NEW slots \in [Slots -> Entry \cup {NoEntry}],
         NEW s \in Slots, NEW e \in Entry \cup {NoEntry}, NEW b,
         b = [dir |-> TRUE, at |-> [up |-> up, slot |-> [slots EXCEPT ![s] = e]]]
  PROVE  /\ b \in Block
         /\ b.dir
         /\ b.at.up = up
         /\ b.at.slot[s] = e
         /\ \A t \in Slots \ {s} : b.at.slot[t] = slots[t]
BY DEF Block, Dir

LEMMA SlotSet ==
  ASSUME TypeOK, NEW c \in Cluster, block[c].dir, NEW s \in Slots,
         NEW e \in Entry \cup {NoEntry}, SetSlot(c, s, e)
  PROVE  /\ block' \in [Cluster -> Block]
         /\ \A d \in Cluster \ {c} : block'[d] = block[d]
         /\ block'[c].dir /\ block'[c].at.up = block[c].at.up
         /\ block'[c].at.slot[s] = e
         /\ \A t \in Slots \ {s} : block'[c].at.slot[t] = block[c].at.slot[t]
<1>1. PICK up \in Cluster, slots \in [Slots -> Entry \cup {NoEntry}] :
        block[c].at.up = up /\ block[c].at.slot = slots
  BY DEF TypeOK, Block, Dir
<1>2. PICK b : b = [dir |-> TRUE, at |-> [up |-> up, slot |-> [slots EXCEPT ![s] = e]]]
  OBVIOUS
<1>3. /\ b \in Block /\ b.dir /\ b.at.up = up /\ b.at.slot[s] = e
      /\ \A t \in Slots \ {s} : b.at.slot[t] = slots[t]
  BY <1>2, EntryFits
<1>4. block' = [block EXCEPT ![c] = b]
  BY <1>1, <1>2 DEF SetSlot
<1>5. /\ block' \in [Cluster -> Block] /\ block'[c] = b
      /\ \A d \in Cluster \ {c} : block'[d] = block[d]
  BY <1>3, <1>4, BlockSet
<1> QED
  BY <1>1, <1>3, <1>5

LEMMA NewDirIsBlock ==
  ASSUME NEW up \in Cluster
  PROVE  /\ NewDir(up) \in Block /\ NewDir(up).dir /\ NewDir(up).at.up = up
         /\ \A s \in Slots : NewDir(up).at.slot[s] = NoEntry
BY DEF NewDir, Block, Dir

\* Entries of some size keep a cluster when a directory or file is written.
LEMMA SizedAfterSlot ==
  ASSUME TypeOK, SizedEntries, NEW c \in Cluster, block[c].dir, NEW s \in Slots,
         NEW e \in Entry \cup {NoEntry}, SetSlot(c, s, e),
         e # NoEntry /\ e.size > 0 => e.first \in Cluster
  PROVE  SizedEntries'
<1> SUFFICES ASSUME NEW d \in Cluster, NEW t \in Slots, block'[d].dir,
                    At(d, t)' # NoEntry, At(d, t)'.size > 0
             PROVE  At(d, t)'.first \in Cluster
  BY DEF SizedEntries
<1>1. CASE d = c /\ t = s
  BY <1>1, SlotSet DEF At
<1>2. CASE ~(d = c /\ t = s)
  <2>1. At(d, t)' = At(d, t) /\ block[d].dir
    BY <1>2, SlotSet DEF At
  <2> QED
    BY <2>1 DEF SizedEntries
<1> QED
  BY <1>1, <1>2

LEMMA SizedAfterBlock ==
  ASSUME TypeOK, SizedEntries, NEW c \in Cluster, NEW b \in Block,
         block' = [block EXCEPT ![c] = b],
         ~b.dir \/ b \in {block[d] : d \in Cluster} \/ \A s \in Slots : b.at.slot[s] = NoEntry
  PROVE  SizedEntries'
<1> SUFFICES ASSUME NEW d \in Cluster, NEW t \in Slots, block'[d].dir,
                    block'[d].at.slot[t] # NoEntry, block'[d].at.slot[t].size > 0
             PROVE  block'[d].at.slot[t].first \in Cluster
  BY DEF SizedEntries, At
<1>1. \A x \in Cluster : block[x].dir /\ block[x].at.slot[t] # NoEntry
                          /\ block[x].at.slot[t].size > 0
                          => block[x].at.slot[t].first \in Cluster
  BY DEF SizedEntries, At
<1>2. block'[c] = b /\ \A x \in Cluster \ {c} : block'[x] = block[x]
  BY BlockSet
<1>3. CASE d # c
  BY <1>1, <1>2, <1>3
<1>4. CASE d = c
  BY <1>1, <1>2, <1>4
<1> QED
  BY <1>3, <1>4

LEMMA SizedSame ==
  ASSUME SizedEntries, UNCHANGED block PROVE SizedEntries'
BY DEF SizedEntries, At

LEMMA IdleType == Idle \in JobType
BY Numbers DEF Idle, JobType

-----------------------------------------------------------------------------
\* What an operation has when it has begun.
LEMMA NewJob ==
  ASSUME TypeOK, NEW k \in Calls, NEW j, j = Job(k)
  PROVE  /\ j \in JobType /\ j.path = k.path /\ j.path \in Path /\ j.rest # <<>>
         /\ j.op = k.op /\ j.rest = k.dest.parts /\ j.dir = Start(k.dest)
         /\ j.first = 0 /\ j.size = 0 /\ j.left = 0
BY JobType1, JobIs

LEMMA TypeEcho ==
  ASSUME TypeInv, NEW k \in Calls, fat32_echo(k)
  PROVE  TypeInv'
<1> USE DEF TypeInv
<1>1. PICK c \in Cluster :
        /\ SetFat(c, EOC)
        /\ Goes("data", [Job(k) EXCEPT !.what = k.what, !.size = 1, !.left = 1,
                                       !.first = c, !.clus = c])
  BY DEF fat32_echo
<1>2. PICK j : j = Job(k)
  OBVIOUS
<1>3. j \in JobType /\ j.path \in Path /\ j.rest # <<>> /\ j.op = "echo"
  BY <1>2, NewJob DEF fat32_echo, MayBegin
<1>4. job' = [j EXCEPT !.what = k.what, !.size = 1, !.left = 1, !.first = c, !.clus = c]
  BY <1>1, <1>2 DEF Goes
<1>5. k.what \in Contents \cup {"none"}
  BY CallType
<1>6. /\ job' \in JobType /\ job'.path = j.path /\ job'.rest = j.rest /\ job'.op = "echo"
      /\ job'.first = c /\ job'.clus = c /\ job'.left = 1 /\ job'.size = 1
  BY <1>3, <1>4, <1>5, Numbers DEF JobType
<1>7. fat' \in [Cluster -> FatValue] /\ pc' = "data" /\ UNCHANGED <<block, cwd, torn, misled>>
  BY <1>1, FatSet, Numbers DEF Goes, fat32_echo
<1>8. TypeOK'
  BY <1>6, <1>7 DEF TypeOK, Pcs
<1>9. Fits'
  BY <1>3, <1>6, <1>7 DEF Fits, Copies
<1> QED
  BY <1>7, <1>8, <1>9, SizedSame

LEMMA TypeTouch ==
  ASSUME TypeInv, NEW k \in Calls, fat32_touch(k)
  PROVE  TypeInv'
<1> USE DEF TypeInv
<1>1. pc' = "entry" /\ job' = Job(k) /\ k.op = "touch" /\ UNCHANGED <<fat, block, cwd, torn, misled>>
  BY DEF fat32_touch, Goes, MayBegin
<1>2. /\ job' \in JobType /\ job'.path \in Path /\ job'.rest # <<>> /\ job'.op = "touch"
      /\ job'.size = 0 /\ job'.left = 0
  BY <1>1, NewJob
<1>3. TypeOK'
  BY <1>1, <1>2 DEF TypeOK, Pcs
<1>4. Fits'
  BY <1>1, <1>2 DEF Fits, Copies
<1> QED
  BY <1>1, <1>3, <1>4, SizedSame

LEMMA TypeMkdir ==
  ASSUME TypeInv, NEW k \in Calls, fat32_mkdir(k)
  PROVE  TypeInv'
<1> USE DEF TypeInv
<1>1. PICK c \in Cluster :
        SetFat(c, EOC) /\ Goes("entry", [Job(k) EXCEPT !.first = c, !.clus = c])
  BY DEF fat32_mkdir
<1>2. PICK j : j = Job(k)
  OBVIOUS
<1>3. j \in JobType /\ j.path \in Path /\ j.rest # <<>> /\ j.size = 0 /\ j.left = 0
  BY <1>2, NewJob
<1>4. job' = [j EXCEPT !.first = c, !.clus = c]
  BY <1>1, <1>2 DEF Goes
<1>5. /\ job' \in JobType /\ job'.path = j.path /\ job'.rest = j.rest
      /\ job'.size = 0 /\ job'.left = 0 /\ job'.first = c /\ job'.clus = c
  BY <1>3, <1>4, Numbers DEF JobType
<1>6. fat' \in [Cluster -> FatValue] /\ pc' = "entry" /\ UNCHANGED <<block, cwd, torn, misled>>
  BY <1>1, FatSet, Numbers DEF Goes, fat32_mkdir
<1>7. TypeOK'
  BY <1>5, <1>6 DEF TypeOK, Pcs
<1>8. Fits'
  BY <1>3, <1>5, <1>6 DEF Fits, Copies
<1> QED
  BY <1>6, <1>7, <1>8, SizedSame

LEMMA TypeCopy ==
  ASSUME TypeInv, NEW k \in Calls, fat32_copy(k)
  PROVE  TypeInv'
<1> USE DEF TypeInv
<1>1. PICK c \in Cluster, at \in Cluster, s \in Slots :
        /\ Finds(k.path, at, s)
        /\ SetFat(c, EOC)
        /\ Goes(IF At(at, s).size > 0 THEN "data" ELSE "entry",
                [Job(k) EXCEPT !.what = At(at, s).what, !.size = At(at, s).size,
                               !.left = At(at, s).size, !.from = At(at, s).first,
                               !.first = c, !.clus = c])
  BY DEF fat32_copy
<1>2. PICK e : e = At(at, s)
  OBVIOUS
<1>3. block[at].dir /\ e \in Entry /\ e # NoEntry
  BY <1>1, <1>2, CallType, FoundIsEntry
<1>4. /\ e.what \in Contents \cup {"none"} /\ e.size \in Nat
      /\ e.first \in {0} \cup Cluster /\ (e.size > 0 => e.first \in Cluster)
  BY <1>2, <1>3 DEF Entry, SizedEntries
<1>5. PICK j : j = Job(k)
  OBVIOUS
<1>6. j \in JobType /\ j.path \in Path /\ j.rest # <<>> /\ j.op \in {"cp", "mv"}
  BY <1>5, NewJob DEF fat32_copy, MayBegin
<1>7. job' = [j EXCEPT !.what = e.what, !.size = e.size, !.left = e.size,
                       !.from = e.first, !.first = c, !.clus = c]
  BY <1>1, <1>2, <1>5 DEF Goes
<1>8. /\ job' \in JobType /\ job'.path = j.path /\ job'.rest = j.rest /\ job'.op = j.op
      /\ job'.first = c /\ job'.clus = c /\ job'.left = e.size /\ job'.size = e.size
      /\ job'.from = e.first
  BY <1>4, <1>6, <1>7, Numbers DEF JobType
<1>9. /\ fat' \in [Cluster -> FatValue] /\ UNCHANGED <<block, cwd, torn, misled>>
      /\ pc' \in {"data", "entry"} /\ (pc' = "data" => e.size > 0)
  BY <1>1, <1>2, FatSet, Numbers DEF Goes, fat32_copy
<1>10. TypeOK'
  BY <1>8, <1>9 DEF TypeOK, Pcs
<1>11. Fits'
  BY <1>4, <1>6, <1>8, <1>9 DEF Fits, Copies
<1> QED
  BY <1>9, <1>10, <1>11, SizedSame

LEMMA TypeRemovals ==
  ASSUME TypeInv, NEW k \in Calls, MoveWithoutCopy(k) \/ fat32_rm(k)
  PROVE  TypeInv'
<1> USE DEF TypeInv
<1>1. /\ pc' = "rm" /\ job' = Job(k) /\ k.op \in {"mv", "rm"}
      /\ UNCHANGED <<fat, block, cwd, torn, misled>>
  BY DEF MoveWithoutCopy, fat32_rm, Goes, MayBegin
<1>2. /\ job' \in JobType /\ job'.path \in Path /\ job'.rest # <<>> /\ job'.op \in {"mv", "rm"}
      /\ job'.left = 0 /\ job'.size = 0
  BY <1>1, NewJob
<1>3. TypeOK'
  BY <1>1, <1>2 DEF TypeOK, Pcs
<1>4. Fits'
  BY <1>1, <1>2 DEF Fits, Copies
<1> QED
  BY <1>1, <1>3, <1>4, SizedSame

LEMMA TypeInstall ==
  ASSUME TypeInv, NEW k \in Calls, install_file(k)
  PROVE  TypeInv'
<1> USE DEF TypeInv
<1>1. /\ job' = [Job(k) EXCEPT !.what = k.what, !.size = k.size, !.left = k.size]
      /\ pc' \in {"rm", "alloc"} /\ k.op = "install" /\ UNCHANGED <<fat, block, cwd, torn, misled>>
  BY DEF install_file, Goes, MayBegin
<1>2. PICK j : j = Job(k)
  OBVIOUS
<1>3. j \in JobType /\ j.path \in Path /\ j.rest # <<>> /\ j.op = "install"
  BY <1>1, <1>2, NewJob
<1>4. k.what \in Contents \cup {"none"} /\ k.size \in Nat \ {0}
  BY CallType
<1>5. /\ job' \in JobType /\ job'.path = j.path /\ job'.rest = j.rest /\ job'.op = "install"
      /\ job'.left = k.size /\ job'.size = k.size
  BY <1>1, <1>2, <1>3, <1>4, Numbers DEF JobType
<1>6. TypeOK'
  BY <1>1, <1>5 DEF TypeOK, Pcs
<1>7. Fits'
  BY <1>1, <1>3, <1>4, <1>5 DEF Fits, Copies
<1> QED
  BY <1>1, <1>6, <1>7, SizedSame

LEMMA TypeFirstCluster ==
  ASSUME TypeInv, FirstCluster
  PROVE  TypeInv'
<1> USE DEF TypeInv
<1>0. job \in JobType /\ job.path \in Path /\ job.rest # <<>>
  BY DEF TypeOK, Fits, FirstCluster
<1>1. CASE Finishes /\ UNCHANGED fat
  <2>1. TypeOK'
    BY <1>1, IdleType DEF TypeOK, Finishes, Goes, Pcs, FirstCluster
  <2>2. Fits'
    BY <1>1 DEF Fits, Copies, Finishes, Goes, Idle
  <2> QED
    BY <2>1, <2>2, SizedSame DEF FirstCluster
<1>2. CASE ~(Finishes /\ UNCHANGED fat)
  <2>1. PICK c \in Cluster :
          SetFat(c, EOC) /\ Goes("data", [job EXCEPT !.first = c, !.clus = c])
    BY <1>2 DEF FirstCluster
  <2>2. job' = [job EXCEPT !.first = c, !.clus = c] /\ pc' = "data"
    BY <2>1 DEF Goes
  <2>3. /\ job' \in JobType /\ job'.path = job.path /\ job'.rest = job.rest
        /\ job'.op = job.op /\ job'.first = c /\ job'.clus = c /\ job'.left = job.left
    BY <1>0, <2>2, Numbers DEF JobType
  <2>4. job.op = "install" /\ job.left > 0
    BY DEF FirstCluster, Fits
  <2>5. fat' \in [Cluster -> FatValue] /\ UNCHANGED <<block, cwd, torn, misled>>
    BY <2>1, FatSet, Numbers DEF FirstCluster
  <2>6. TypeOK'
    BY <2>2, <2>3, <2>5 DEF TypeOK, Pcs
  <2>7. Fits'
    BY <1>0, <2>2, <2>3, <2>4, <2>5 DEF Fits, Copies
  <2> QED
    BY <2>5, <2>6, <2>7, SizedSame
<1> QED
  BY <1>1, <1>2

LEMMA TypeWriteData ==
  ASSUME TypeInv, WriteData
  PROVE  TypeInv'
<1> USE DEF TypeInv
<1>1. /\ job \in JobType /\ job.path \in Path /\ job.rest # <<>> /\ job.clus \in Cluster
      /\ job.left \in Nat \ {0} /\ job.left <= job.size /\ job.size \in Nat
      /\ Copies => job.from \in Cluster
      /\ job.what \in Contents \cup {"none"}
  BY DEF TypeOK, Fits, WriteData, JobType
<1>2. PICK b : b = IF Copies THEN block[job.from]
                   ELSE [dir |-> FALSE, data |-> <<job.what, job.size - job.left + 1>>]
  OBVIOUS
<1>3. block' = [block EXCEPT ![job.clus] = b]
  BY <1>2 DEF WriteData
<1>4. b \in Block /\ (~b.dir \/ b \in {block[d] : d \in Cluster})
  <2>1. CASE Copies
    BY <1>1, <1>2, <2>1 DEF TypeOK
  <2>2. CASE ~Copies
    <3>1. job.size - job.left + 1 \in Nat
      BY <1>1
    <3> QED
      BY <1>1, <1>2, <2>2, <3>1 DEF Block, Data
  <2> QED
    BY <2>1, <2>2
<1>5. block' \in [Cluster -> Block] /\ SizedEntries'
  BY <1>1, <1>3, <1>4, BlockSet, SizedAfterBlock
<1>6. PICK d : d = IF Copies /\ job.left > 1 THEN fat[job.from] ELSE 0
  OBVIOUS
<1>7. d \in FatValue
  BY <1>1, <1>6, Numbers DEF TypeOK
<1>8. /\ job' = [job EXCEPT !.left = job.left - 1, !.from = d]
      /\ pc' = IF job.left > 1 THEN "link" ELSE "entry"
      /\ UNCHANGED <<fat, cwd, torn, misled>>
  BY <1>6 DEF WriteData, Goes
<1>9. /\ job' \in JobType /\ job'.path = job.path /\ job'.rest = job.rest /\ job'.op = job.op
      /\ job'.clus = job.clus /\ job'.left = job.left - 1 /\ job'.size = job.size
      /\ job'.first = job.first
  <2>1. PICK n \in Nat : n = job.left - 1
    BY <1>1
  <2>2. job' = [job EXCEPT !.left = n, !.from = d]
    BY <1>8, <2>1
  <2> QED
    BY <1>1, <1>7, <2>1, <2>2 DEF JobType
<1>10. TypeOK'
  BY <1>5, <1>8, <1>9 DEF TypeOK, Pcs
<1>11. Fits'
  BY <1>1, <1>8, <1>9 DEF Fits, Copies, WriteData
<1> QED
  BY <1>5, <1>10, <1>11

LEMMA TypeLinkNext ==
  ASSUME TypeInv, LinkNext
  PROVE  TypeInv'
<1> USE DEF TypeInv
<1>1. PICK c \in Cluster : SetFat(job.clus, c)
  BY DEF LinkNext
<1>2. pc' = "extend" /\ job' = job /\ UNCHANGED <<block, cwd, torn, misled>> /\ pc = "link"
  BY DEF LinkNext, Goes
<1>3. job.clus \in Cluster
  BY <1>2 DEF Fits
<1>4. fat' \in [Cluster -> FatValue] /\ fat'[job.clus] = c
  BY <1>1, <1>3, FatSet, Numbers
<1>5. TypeOK'
  BY <1>2, <1>4 DEF TypeOK, Pcs
<1>6. Fits'
  BY <1>2, <1>4 DEF Fits, Copies
<1> QED
  BY <1>2, <1>5, <1>6, SizedSame

LEMMA TypeIdle ==
  ASSUME TypeInv, Finishes \/ (pc' = "idle" /\ job' = Idle), UNCHANGED <<fat, block>>,
         cwd' \in Cluster, torn' \in BOOLEAN, misled' \in BOOLEAN
  PROVE  TypeInv'
<1> USE DEF TypeInv
<1>1. pc' = "idle" /\ job' = Idle
  BY DEF Finishes, Goes
<1>2. TypeOK'
  BY <1>1, IdleType DEF TypeOK, Pcs
<1>3. Fits'
  BY <1>1 DEF Fits, Copies, Idle
<1> QED
  BY <1>2, <1>3, SizedSame

LEMMA TypeDiskFullAtLink ==
  ASSUME TypeInv, DiskFullAtLink
  PROVE  TypeInv'
<1> USE DEF TypeInv
<1>1. CASE Copies
  <2>1. /\ pc = "link" /\ pc' = "entry" /\ job' = [job EXCEPT !.what = "none"]
        /\ UNCHANGED <<fat, block, cwd, torn, misled>>
    BY <1>1 DEF DiskFullAtLink, Goes
  <2>2. job \in JobType /\ job.path \in Path /\ job.rest # <<>>
    BY <2>1 DEF TypeOK, Fits
  <2>3. /\ job' \in JobType /\ job'.path = job.path /\ job'.rest = job.rest
        /\ job'.op = job.op /\ job'.clus = job.clus /\ job'.left = job.left
        /\ job'.size = job.size /\ job'.first = job.first
    BY <2>1, <2>2 DEF JobType
  <2>4. TypeOK'
    BY <2>1, <2>3 DEF TypeOK, Pcs
  <2>5. Fits'
    BY <2>1, <2>3 DEF Fits, Copies
  <2> QED
    BY <2>1, <2>4, <2>5, SizedSame
<1>2. CASE ~Copies
  BY <1>2, TypeIdle DEF DiskFullAtLink, TypeOK
<1> QED
  BY <1>1, <1>2

LEMMA TypeEndNext ==
  ASSUME TypeInv, EndNext
  PROVE  TypeInv'
<1> USE DEF TypeInv
<1>1. /\ pc = "extend" /\ job \in JobType /\ job.path \in Path /\ job.rest # <<>>
      /\ fat[job.clus] \in Cluster /\ job.left > 0
  BY DEF EndNext, TypeOK, Fits
<1>2. PICK d \in Cluster : d = fat[job.clus]
  BY <1>1
<1>3. /\ SetFat(d, EOC) /\ job' = [job EXCEPT !.clus = d]
      /\ pc' = (IF Copies /\ job.from \notin Cluster THEN "entry" ELSE "data")
      /\ UNCHANGED <<block, cwd, torn, misled>>
  BY <1>2 DEF EndNext, Goes
<1>4. /\ job' \in JobType /\ job'.path = job.path /\ job'.rest = job.rest
      /\ job'.op = job.op /\ job'.clus = d /\ job'.left = job.left /\ job'.from = job.from
      /\ job'.size = job.size /\ job'.first = job.first
  BY <1>1, <1>3, Numbers DEF JobType
<1>5. fat' \in [Cluster -> FatValue]
  BY <1>3, FatSet, Numbers
<1>6. TypeOK'
  BY <1>3, <1>4, <1>5 DEF TypeOK, Pcs
<1>7. Fits'
  BY <1>1, <1>3, <1>4 DEF Fits, Copies
<1> QED
  BY <1>3, <1>6, <1>7, SizedSame

LEMMA TailOfMore ==
  ASSUME NEW r \in Seq(Names), Len(r) > 1
  PROVE  Tail(r) \in Seq(Names) /\ Tail(r) # <<>>
<1>1. PICK t : t = Tail(r)
  OBVIOUS
<1>2. t \in Seq(Names) /\ Len(t) = Len(r) - 1 /\ Len(r) \in Nat
  BY <1>1
<1>3. Len(t) # 0
  BY <1>2
<1>4. t # <<>>
  BY <1>3
<1> QED
  BY <1>1, <1>2, <1>4

LEMMA RestIsNames ==
  ASSUME TypeOK, job.rest # <<>>
  PROVE  /\ Head(job.rest) \in Names /\ Tail(job.rest) \in Seq(Names)
         /\ job.rest \in Seq(Names) /\ (Len(job.rest) > 1 => Tail(job.rest) # <<>>)
<1>1. job.rest \in Seq(Names)
  BY DEF TypeOK, JobType
<1>2. Head(job.rest) \in Names /\ Tail(job.rest) \in Seq(Names)
  BY <1>1
<1> QED
  BY <1>1, <1>2, TailOfMore

LEMMA TypeEnterDirectory ==
  ASSUME TypeInv, EnterDirectory
  PROVE  TypeInv'
<1> USE DEF TypeInv
<1>1. PICK s \in Slots :
        /\ MatchesDir(job.dir, Head(job.rest), s)
        /\ Goes("entry", [job EXCEPT !.dir = Subdir(At(job.dir, s)), !.rest = Tail(job.rest)])
  BY DEF EnterDirectory
<1>2. /\ pc = "entry" /\ Len(job.rest) > 1 /\ job \in JobType /\ job.path \in Path
      /\ job.rest # <<>> /\ job.dir \in Cluster
  BY DEF EnterDirectory, TypeOK, Fits, JobType
<1>3. Subdir(At(job.dir, s)) \in Cluster
  BY <1>1, <1>2, RestIsNames, DirMatchIsEntry
<1>4. PICK c \in Cluster, r \in Seq(Names) : c = Subdir(At(job.dir, s)) /\ r = Tail(job.rest)
  BY <1>2, <1>3, RestIsNames
<1>5. /\ job' = [job EXCEPT !.dir = c, !.rest = r] /\ pc' = "entry"
      /\ UNCHANGED <<fat, block, cwd, torn, misled>>
  BY <1>1, <1>4 DEF Goes, EnterDirectory
<1>6. /\ job' \in JobType /\ job'.path = job.path /\ job'.rest = r
      /\ job'.op = job.op /\ job'.clus = job.clus /\ job'.left = job.left
      /\ job'.size = job.size /\ job'.first = job.first
  BY <1>2, <1>5 DEF JobType
<1>7. TypeOK'
  BY <1>5, <1>6 DEF TypeOK, Pcs
<1>8. Fits'
  BY <1>2, <1>4, <1>5, <1>6, RestIsNames DEF Fits, Copies
<1> QED
  BY <1>5, <1>7, <1>8, SizedSame

\* Where an entry has been written or given up.
LEMMA TypeAfterEntry ==
  ASSUME TypeInv, pc = "entry", AfterEntry, UNCHANGED <<fat, cwd, torn, misled>>,
         block' \in [Cluster -> Block], SizedEntries'
  PROVE  TypeInv'
<1> USE DEF TypeInv
<1>1. CASE job' = job /\ pc' \in {"dots", "rm"} /\ (pc' = "dots" => job.op = "mkdir")
                       /\ (pc' = "rm" => job.op = "mv")
  <2>1. TypeOK'
    BY <1>1 DEF TypeOK, Pcs
  <2>2. Fits'
    BY <1>1 DEF Fits, Copies
  <2> QED
    BY <2>1, <2>2
<1>2. CASE pc' = "idle" /\ job' = Idle
  <2>1. TypeOK'
    BY <1>2, IdleType DEF TypeOK, Pcs
  <2>2. Fits'
    BY <1>2 DEF Fits, Copies, Idle
  <2> QED
    BY <2>1, <2>2
<1> QED
  BY <1>1, <1>2 DEF AfterEntry, Goes, Finishes

LEMMA TypeMakeParent ==
  ASSUME TypeInv, MakeParent
  PROVE  TypeInv'
<1> USE DEF TypeInv
<1>0. /\ pc = "entry" /\ UNCHANGED <<block, cwd, torn, misled>> /\ job \in JobType /\ Len(job.rest) > 1
      /\ job.path \in Path /\ job.rest # <<>>
  BY DEF MakeParent, MissingParent, TypeOK, Fits
<1>1. CASE AfterEntry /\ UNCHANGED fat
  BY <1>0, <1>1, TypeAfterEntry, SizedSame DEF TypeOK
<1>2. CASE \E c \in Cluster : SetFat(c, EOC) /\ Goes("parent", [job EXCEPT !.made = c])
  <2>1. PICK c \in Cluster : SetFat(c, EOC) /\ Goes("parent", [job EXCEPT !.made = c])
    BY <1>2
  <2>2. job' = [job EXCEPT !.made = c] /\ pc' = "parent" /\ fat' \in [Cluster -> FatValue]
    BY <2>1, FatSet, Numbers DEF Goes
  <2>3. /\ job' \in JobType /\ job'.path = job.path /\ job'.rest = job.rest
        /\ job'.op = job.op /\ job'.clus = job.clus /\ job'.left = job.left
        /\ job'.size = job.size /\ job'.first = job.first /\ job'.made = c
    BY <1>0, <2>2 DEF JobType
  <2>4. TypeOK'
    BY <1>0, <2>2, <2>3 DEF TypeOK, Pcs
  <2>5. Fits'
    BY <1>0, <2>2, <2>3 DEF Fits, Copies
  <2> QED
    BY <1>0, <2>4, <2>5, SizedSame
<1> QED
  BY <1>1, <1>2 DEF MakeParent

LEMMA TypeParentEntry ==
  ASSUME TypeInv, ParentEntry
  PROVE  TypeInv'
<1> USE DEF TypeInv
<1>1. /\ pc = "parent" /\ pc' = "parentdots" /\ job' = job /\ UNCHANGED <<fat, cwd, torn, misled>>
      /\ job \in JobType /\ job.dir \in Cluster /\ job.made \in Cluster /\ job.rest # <<>>
  BY DEF ParentEntry, Goes, TypeOK, Fits, JobType
<1>2. block' \in [Cluster -> Block] /\ SizedEntries'
  <2>1. CASE UNCHANGED block
    BY <2>1, SizedSame DEF TypeOK
  <2>2. ASSUME NEW s \in Slots, FreeSlot(job.dir, s),
               SetSlot(job.dir, s, [name |-> Head(job.rest), dir |-> TRUE,
                                    first |-> job.made, size |-> 0, what |-> "none"])
        PROVE  block' \in [Cluster -> Block] /\ SizedEntries'
    <3>1. PICK e : e = [name |-> Head(job.rest), dir |-> TRUE,
                        first |-> job.made, size |-> 0, what |-> "none"]
      OBVIOUS
    <3>2. e \in Entry /\ e.size = 0
      BY <1>1, <3>1, RestIsNames DEF Entry
    <3>3. block[job.dir].dir /\ SetSlot(job.dir, s, e)
      BY <2>2, <3>1 DEF FreeSlot
    <3> QED
      BY <1>1, <3>2, <3>3, SlotSet, SizedAfterSlot
  <2> QED
    BY <2>1, <2>2 DEF ParentEntry
<1>3. TypeOK'
  BY <1>1, <1>2 DEF TypeOK, Pcs
<1>4. Fits'
  BY <1>1 DEF Fits, Copies
<1> QED
  BY <1>2, <1>3, <1>4

LEMMA TypeParentDots ==
  ASSUME TypeInv, ParentDots
  PROVE  TypeInv'
<1> USE DEF TypeInv
<1>1. /\ pc = "parentdots" /\ pc' = "entry" /\ UNCHANGED <<fat, cwd, torn, misled>>
      /\ job \in JobType /\ job.dir \in Cluster /\ job.made \in Cluster /\ job.rest # <<>>
      /\ job.path \in Path /\ Len(job.rest) > 1
      /\ job' = [job EXCEPT !.dir = job.made, !.made = 0, !.rest = Tail(job.rest)]
      /\ block' = [block EXCEPT ![job.made] = NewDir(job.dir)]
  BY DEF ParentDots, Goes, TypeOK, Fits, JobType
<1>2. PICK b \in Block : b = NewDir(job.dir)
  BY <1>1, NewDirIsBlock
<1>3. \A s \in Slots : b.at.slot[s] = NoEntry
  BY <1>1, <1>2, NewDirIsBlock
<1>4. block' \in [Cluster -> Block] /\ SizedEntries'
  BY <1>1, <1>2, <1>3, BlockSet, SizedAfterBlock
<1>5. PICK c \in Cluster, r \in Seq(Names) : c = job.made /\ r = Tail(job.rest)
  BY <1>1, RestIsNames
<1>6. job' = [job EXCEPT !.dir = c, !.made = 0, !.rest = r]
  BY <1>1, <1>5
<1>7. /\ job' \in JobType /\ job'.path = job.path /\ job'.rest = r
      /\ job'.op = job.op /\ job'.clus = job.clus /\ job'.left = job.left
      /\ job'.size = job.size /\ job'.first = job.first
  BY <1>1, <1>6 DEF JobType
<1>8. TypeOK'
  BY <1>1, <1>4, <1>7 DEF TypeOK, Pcs
<1>9. Fits'
  BY <1>1, <1>5, <1>7, RestIsNames DEF Fits, Copies, ParentDots
<1> QED
  BY <1>4, <1>8, <1>9

LEMMA TypeWriteEntry ==
  ASSUME TypeInv, WriteEntry
  PROVE  TypeInv'
<1> USE DEF TypeInv
<1>1. /\ pc = "entry" /\ UNCHANGED <<fat, cwd, torn, misled>> /\ AfterEntry
      /\ job \in JobType /\ job.dir \in Cluster /\ job.rest # <<>>
      /\ job.size > 0 => job.first \in Cluster
  BY DEF WriteEntry, TypeOK, Fits, JobType
<1>2. block' \in [Cluster -> Block] /\ SizedEntries'
  <2>1. CASE UNCHANGED block
    BY <2>1, SizedSame DEF TypeOK
  <2>2. ASSUME NEW s \in Slots, FreeSlot(job.dir, s),
               SetSlot(job.dir, s,
                       [name |-> Head(job.rest), dir |-> job.op = "mkdir",
                        first |-> job.first, size |-> job.size, what |-> job.what])
        PROVE  block' \in [Cluster -> Block] /\ SizedEntries'
    <3>1. PICK d \in BOOLEAN : d = (job.op = "mkdir")
      OBVIOUS
    <3>2. PICK e : e = [name |-> Head(job.rest), dir |-> d,
                        first |-> job.first, size |-> job.size, what |-> job.what]
      OBVIOUS
    <3>3. e \in Entry /\ (e.size > 0 => e.first \in Cluster)
      BY <1>1, <3>2, RestIsNames DEF Entry, JobType
    <3>4. block[job.dir].dir /\ SetSlot(job.dir, s, e)
      BY <2>2, <3>1, <3>2 DEF FreeSlot
    <3> QED
      BY <1>1, <3>3, <3>4, SlotSet, SizedAfterSlot
  <2> QED
    BY <2>1, <2>2 DEF WriteEntry
<1> QED
  BY <1>1, <1>2, TypeAfterEntry

LEMMA TypeWriteDots ==
  ASSUME TypeInv, WriteDots
  PROVE  TypeInv'
<1> USE DEF TypeInv
<1>1. /\ Finishes /\ UNCHANGED <<fat, cwd, torn>> /\ job.clus \in Cluster /\ cwd \in Cluster
      /\ block' = [block EXCEPT ![job.clus] = NewDir(cwd)] /\ misled' \in BOOLEAN
  BY DEF WriteDots, TypeOK, Fits
<1>2. PICK b \in Block : b = NewDir(cwd) /\ \A s \in Slots : b.at.slot[s] = NoEntry
  BY <1>1, NewDirIsBlock
<1>3. block' \in [Cluster -> Block] /\ SizedEntries'
  BY <1>1, <1>2, BlockSet, SizedAfterBlock
<1>4. TypeOK'
  BY <1>1, <1>3, IdleType DEF TypeOK, Pcs, Finishes, Goes
<1>5. Fits'
  BY <1>1 DEF Fits, Copies, Idle, Finishes, Goes
<1> QED
  BY <1>3, <1>4, <1>5

LEMMA TypeRemovalStarts ==
  ASSUME TypeInv, RemovalStarts
  PROVE  TypeInv'
<1> USE DEF TypeInv
<1>1. /\ pc = "rm" /\ UNCHANGED <<fat, block, cwd, torn, misled>> /\ job \in JobType /\ cwd \in Cluster
      /\ job.path \in Path /\ job.rest # <<>> /\ job.op \in {"mv", "rm", "install"}
      /\ job.op = "install" => job.left > 0
  BY DEF RemovalStarts, TypeOK, Fits
<1>2. PICK s \in Slots :
        /\ Plain(job.path)
        /\ Matches(cwd, job.path.parts[1], s)
        /\ Goes(IF At(cwd, s).first = 0 THEN "unlink" ELSE "free",
                [job EXCEPT !.slot = s, !.clus = At(cwd, s).first])
  BY DEF RemovalStarts
<1>3. job.path.parts[1] \in Names
  BY <1>1, <1>2, PathType DEF Plain
<1>4. block[cwd].dir /\ At(cwd, s) \in Entry /\ At(cwd, s) # NoEntry
  BY <1>1, <1>2, <1>3, MatchIsEntry
<1>5. PICK c \in {0} \cup Cluster : c = At(cwd, s).first
  BY <1>4 DEF Entry
<1>6. job' = [job EXCEPT !.slot = s, !.clus = c] /\ pc' = IF c = 0 THEN "unlink" ELSE "free"
  BY <1>2, <1>5 DEF Goes
<1>7. /\ job' \in JobType /\ job'.path = job.path /\ job'.rest = job.rest
      /\ job'.op = job.op /\ job'.clus = c /\ job'.left = job.left
      /\ job'.size = job.size /\ job'.first = job.first /\ job'.slot = s
  BY <1>1, <1>5, <1>6, Numbers DEF JobType
<1>8. TypeOK'
  BY <1>1, <1>6, <1>7 DEF TypeOK, Pcs
<1>9. Fits'
  <2>1. At(cwd, s)' # NoEntry /\ block'[cwd'].dir
    BY <1>1, <1>4 DEF At
  <2> QED
    BY <1>1, <1>6, <1>7, <2>1 DEF Fits, Copies, At
<1> QED
  BY <1>1, <1>8, <1>9, SizedSame

\* Where a removal is over or there is nothing to remove.
LEMMA TypeAfterRemoval ==
  ASSUME TypeInv, pc \in {"rm", "unlink"}, AfterRemoval, UNCHANGED <<fat, cwd, torn, misled>>,
         block' \in [Cluster -> Block], SizedEntries'
  PROVE  TypeInv'
<1> USE DEF TypeInv
<1>0. /\ job \in JobType /\ job.path \in Path /\ job.rest # <<>>
      /\ job.op = "install" => job.left > 0
  BY DEF TypeOK, Fits
<1>1. CASE job.op = "install"
  <2>1. job' = [job EXCEPT !.slot = 0, !.clus = 0] /\ pc' = "alloc"
    BY <1>1 DEF AfterRemoval, Goes
  <2>2. /\ job' \in JobType /\ job'.path = job.path /\ job'.rest = job.rest
        /\ job'.op = job.op /\ job'.left = job.left
        /\ job'.size = job.size /\ job'.first = job.first
    BY <1>0, <2>1, Numbers DEF JobType
  <2>3. TypeOK'
    BY <2>1, <2>2 DEF TypeOK, Pcs
  <2>4. Fits'
    BY <1>0, <1>1, <2>1, <2>2 DEF Fits, Copies
  <2> QED
    BY <2>3, <2>4
<1>2. CASE job.op # "install"
  <2>1. job' = Idle /\ pc' = "idle"
    BY <1>2 DEF AfterRemoval, Finishes, Goes
  <2>2. TypeOK'
    BY <2>1, IdleType DEF TypeOK, Pcs
  <2>3. Fits'
    BY <2>1 DEF Fits, Copies, Idle
  <2> QED
    BY <2>2, <2>3
<1> QED
  BY <1>1, <1>2

LEMMA TypeNothingToRemove ==
  ASSUME TypeInv, NothingToRemove
  PROVE  TypeInv'
BY TypeAfterRemoval, SizedSame DEF NothingToRemove, TypeInv, TypeOK

LEMMA TypeFreeCluster ==
  ASSUME TypeInv, FreeCluster
  PROVE  TypeInv'
<1> USE DEF TypeInv
<1>1. /\ pc = "free" /\ UNCHANGED <<block, cwd, torn, misled>> /\ job \in JobType
      /\ job.path \in Path /\ job.rest # <<>> /\ job.clus \in Cluster
      /\ job.op \in {"mv", "rm", "install"} /\ (job.op = "install" => job.left > 0)
  BY DEF FreeCluster, TypeOK, Fits
<1>2. PICK d \in FatValue : d = fat[job.clus]
  BY <1>1 DEF TypeOK
<1>3. /\ fat' \in [Cluster -> FatValue] /\ job' = [job EXCEPT !.clus = d]
      /\ pc' = IF d \in Cluster THEN "free" ELSE "unlink"
  BY <1>1, <1>2, FatSet, Numbers DEF FreeCluster, Goes
<1>4. /\ job' \in JobType /\ job'.path = job.path /\ job'.rest = job.rest
      /\ job'.op = job.op /\ job'.clus = d /\ job'.left = job.left
      /\ job'.size = job.size /\ job'.first = job.first /\ job'.slot = job.slot
  BY <1>1, <1>3, Numbers DEF JobType
<1>5. TypeOK'
  BY <1>1, <1>3, <1>4 DEF TypeOK, Pcs
<1>6. Fits'
  BY <1>1, <1>3, <1>4 DEF Fits, Copies, At
<1> QED
  BY <1>1, <1>5, <1>6, SizedSame

LEMMA TypeUnlink ==
  ASSUME TypeInv, Unlink
  PROVE  TypeInv'
<1> USE DEF TypeInv
<1>1. /\ pc = "unlink" /\ cwd \in Cluster /\ block[cwd].dir /\ job.slot \in Slots
      /\ SetSlot(cwd, job.slot, NoEntry) /\ AfterRemoval /\ UNCHANGED <<fat, cwd, torn, misled>>
  BY DEF Unlink, TypeOK, Fits
<1>2. block' \in [Cluster -> Block] /\ SizedEntries'
  BY <1>1, SlotSet, SizedAfterSlot
<1> QED
  BY <1>1, <1>2, TypeAfterRemoval

LEMMA TypeCd ==
  ASSUME TypeInv, (\E n \in Names : fat32_cd(n)) \/ CdUp \/ CdRoot
  PROVE  TypeInv'
<1> USE DEF TypeInv
<1>1. pc = "idle" /\ UNCHANGED <<fat, block, pc, job, torn, misled>>
  BY DEF fat32_cd, CdUp, CdRoot
<1>2. cwd' \in Cluster
  <2>1. ASSUME NEW n \in Names, fat32_cd(n) PROVE cwd' \in Cluster
    BY <2>1, DirMatchIsEntry DEF fat32_cd, TypeOK
  <2>2. CASE CdUp
    <3>1. block[cwd].at \in Dir
      BY <2>2 DEF CdUp, TypeOK, Block
    <3> QED
      BY <2>2, <3>1 DEF CdUp, Dir
  <2> QED
    BY <2>1, <2>2, Numbers DEF CdRoot
<1>3. TypeOK'
  BY <1>1, <1>2 DEF TypeOK
<1>4. Fits'
  BY <1>1 DEF Fits, Copies
<1> QED
  BY <1>1, <1>3, <1>4, SizedSame

LEMMA TypeStep ==
  ASSUME TypeInv, [Next]_vars
  PROVE  TypeInv'
<1>1. ASSUME NEW k \in Calls, Begins(k) PROVE TypeInv'
  BY <1>1, TypeEcho, TypeTouch, TypeMkdir, TypeCopy, TypeRemovals, TypeInstall DEF Begins
<1>2. CASE FileStep
  BY <1>2, TypeFirstCluster, TypeWriteData, TypeLinkNext, TypeDiskFullAtLink, TypeEndNext
  DEF FileStep
<1>3. CASE EntryStep
  BY <1>3, TypeEnterDirectory, TypeMakeParent, TypeParentEntry, TypeParentDots,
     TypeWriteEntry, TypeWriteDots
  DEF EntryStep
<1>4. CASE RemoveStep
  BY <1>4, TypeRemovalStarts, TypeNothingToRemove, TypeFreeCluster, TypeUnlink DEF RemoveStep
<1>5. CASE (\E n \in Names : fat32_cd(n)) \/ CdUp \/ CdRoot
  BY <1>5, TypeCd
<1>6. CASE PowerLoss
  BY <1>6, TypeIdle, Numbers DEF PowerLoss, TypeInv, TypeOK, HalfDone
<1>7. CASE UNCHANGED vars
  BY <1>7 DEF TypeInv, TypeOK, Fits, Copies, SizedEntries, At, vars
<1> QED
  BY <1>1, <1>2, <1>3, <1>4, <1>5, <1>6, <1>7 DEF Next

LEMMA TypeInit ==
  ASSUME Init PROVE TypeInv
<1>1. TypeOK
  <2>1. block \in [Cluster -> Block]
    BY NewDirIsBlock, Numbers DEF Init, Block, Data
  <2> QED
    BY <2>1, Numbers, IdleType DEF Init, TypeOK, Pcs
<1>2. Fits
  BY DEF Init, Fits, Copies, Idle
<1>3. SizedEntries
  BY NewDirIsBlock, Numbers DEF Init, SizedEntries, At
<1> QED
  BY <1>1, <1>2, <1>3 DEF TypeInv

\* What an operation on the disk keeps in its variables is always of the kind the
\* next write takes: a cluster of the disk, a slot that is there, an entry of
\* some size never without a cluster. (fat32_file.c, fat32_path.c)
THEOREM FatTypeCorrect == Spec => []TypeOK
<1>1. Init => TypeInv
  BY TypeInit
<1>2. TypeInv /\ [Next]_vars => TypeInv'
  BY TypeStep
<1>3. TypeInv => TypeOK
  BY DEF TypeInv
<1> QED
  BY <1>1, <1>2, <1>3, PTL DEF Spec

-----------------------------------------------------------------------------
(***************************************************************************)
(* Ownership.  own says of every cluster whose it is: of the entry in slot *)
(* s of directory d, <<d, s>>; the running operation's own file, Mine, or  *)
(* new directory, Made; the root's; or of nobody who will look at it.  D   *)
(* holds the directories in use, depth how far below the root they are.    *)
(***************************************************************************)
Nobody  == <<0, 0>>
Mine    == <<0, 1>>
Made    == <<0, 2>>
TheRoot == <<0, 3>>
Owner   == {Nobody, Mine, Made, TheRoot} \cup (Cluster \X Slots)

Removed == <<cwd, job.slot>>

\* The removal has freed some of its clusters, the first one first.
BeingFreed ==
  pc \in {"free", "unlink"} /\ LET f == At(cwd, job.slot).first IN f # 0 /\ fat[f] = 0

Owned(own, D, depth) ==
  /\ own \in [Cluster -> Owner] /\ D \subseteq Cluster /\ depth \in [Cluster -> Nat]
  /\ own[Root] = TheRoot /\ Root \in D /\ cwd \in D /\ New \cap {Root, cwd} = {}

\* The table links clusters of one owner.
Links(own) ==
  \A c \in Cluster : own[c] # Nobody /\ fat[c] \in Cluster => own[fat[c]] = own[c]

\* What is somebody's is taken, but for a cluster just linked and the removed file's.
Taken(own) ==
  \A c \in Cluster : own[c] # Nobody =>
    \/ fat[c] # 0
    \/ pc = "extend" /\ c = fat[job.clus]
    \/ BeingFreed /\ own[c] = Removed

\* Entries of the directories own the cluster they give; directories are below.
Tree(own, D) ==
  \A d \in D \ New :
    /\ block[d].dir
    /\ \A s \in Slots : At(d, s) # NoEntry =>
         /\ At(d, s).first # 0 => own[At(d, s).first] = <<d, s>>
         /\ At(d, s).dir => At(d, s).first \in D

\* Entry <<d, s>> is that of directory c, and ".." of c is d.
Holds(own, c, d, s) ==
  /\ own[c] = <<d, s>>
  /\ At(d, s) # NoEntry /\ At(d, s).dir /\ At(d, s).first = c
  /\ c \notin New => block[c].at.up = d

Reached(own, D, depth) ==
  \A c \in D \ {Root} : \E d \in D \ New, s \in Slots :
    Holds(own, c, d, s) /\ depth[d] < depth[c]

\* What the running operation has taken is its own.
Running(own, D) ==
  /\ pc \in {"data", "link", "extend", "entry", "parent", "parentdots"} /\ job.first # 0 =>
       own[job.first] = Mine
  /\ pc \in {"data", "link", "extend"} => own[job.clus] = Mine
  /\ pc = "parent" => own[job.made] = Made
  /\ pc = "parentdots" => IF job.made \in D THEN own[job.made][1] = job.dir
                                            ELSE own[job.made] = Made
  /\ pc = "dots" => IF job.clus \in D THEN own[job.clus][1] = job.dir ELSE own[job.clus] = Mine
  /\ pc \in {"entry", "parent", "parentdots"} /\ job.op = "mkdir" => job.first = job.clus
  /\ pc = "free" => own[job.clus] = Removed /\ (job.clus = At(cwd, job.slot).first \/ BeingFreed)

OwnInv(own, D, depth) ==
  /\ Owned(own, D, depth)
  /\ Links(own)
  /\ Taken(own)
  /\ Tree(own, D)
  /\ Reached(own, D, depth)
  /\ Running(own, D)

IInv ==
  /\ TypeInv
  /\ ~torn /\ ~misled => \E own, D, depth : OwnInv(own, D, depth)

LEMMA Owners ==
  /\ Nobody # Mine /\ Nobody # Made /\ Nobody # TheRoot /\ Mine # Made /\ Mine # TheRoot
  /\ Made # TheRoot
  /\ \A d \in Cluster : \A s : <<d, s>> \notin {Nobody, Mine, Made, TheRoot}
BY Numbers DEF Nobody, Mine, Made, TheRoot

\* A directory in use belongs to its entry.
LEMMA DirOwner ==
  ASSUME NEW own, NEW D, NEW depth, OwnInv(own, D, depth), NEW c \in D
  PROVE  own[c] = TheRoot \/ own[c] \in Cluster \X Slots
BY DEF OwnInv, Owned, Reached, Holds

LEMMA MineIsNoDirectory ==
  ASSUME NEW own, NEW D, NEW depth, OwnInv(own, D, depth), NEW c,
         own[c] \in {Nobody, Mine, Made}
  PROVE  c \notin D
BY DirOwner, Owners

-----------------------------------------------------------------------------
(***************************************************************************)
(* The set Dirs.                                                           *)
(***************************************************************************)
LEMMA NatIsWellFounded == IsWellFoundedOn({ss \in Nat \X Nat : ss[1] < ss[2]}, Nat)
BY NatLessThanWellFounded DEF OpToRel

LEMMA Lowest ==
  ASSUME NEW T, T \subseteq Cluster, T # {}, NEW depth \in [Cluster -> Nat]
  PROVE  \E c \in T : \A d \in T : ~(depth[d] < depth[c])
<1> DEFINE R == {ss \in Nat \X Nat : ss[1] < ss[2]}
           Z == {depth[c] : c \in T}
<1>1. IsWellFoundedOn(R, Nat)
  BY NatIsWellFounded
<1>2. Z \subseteq Nat /\ Z # {}
  OBVIOUS
<1> HIDE DEF R
<1>3. PICK x \in Z : \A y \in Z : ~(<<y, x>> \in R)
  <2> HIDE DEF Z
  <2> QED
    BY <1>1, <1>2, WFMin, Zenon
<1>4. \A y \in Z : ~(y < x)
  BY <1>2, <1>3 DEF R
<1> QED
  BY <1>3, <1>4

\* A set that holds the root and, with a directory, those in it.
Complete(S) ==
  /\ Root \in S
  /\ \A d \in S \ New, s \in Slots :
       block[d].dir /\ At(d, s) # NoEntry /\ At(d, s).dir => Subdir(At(d, s)) \in S

LEMMA DirsIsLeast ==
  /\ Dirs \subseteq Cluster
  /\ \A S \in SUBSET Cluster : Complete(S) => Dirs \subseteq S
  /\ \A c \in Cluster : (\A S \in SUBSET Cluster : Complete(S) => c \in S) => c \in Dirs
BY DEF Dirs, Complete

LEMMA TreeIsComplete ==
  ASSUME NEW own, NEW D, NEW depth, Owned(own, D, depth), Tree(own, D)
  PROVE  D \in SUBSET Cluster /\ Complete(D) /\ Dirs \subseteq D
<1>1. D \in SUBSET Cluster /\ Root \in D
  BY DEF Owned
<1>2. ASSUME NEW d \in D \ New, NEW s \in Slots, At(d, s) # NoEntry, At(d, s).dir
      PROVE  Subdir(At(d, s)) \in D
  <2>1. At(d, s).first \in D
    BY <1>2 DEF Tree
  <2> QED
    BY <1>1, <2>1, Numbers DEF Subdir
<1>3. Complete(D)
  BY <1>1, <1>2 DEF Complete
<1> QED
  BY <1>1, <1>3, DirsIsLeast

\* Every directory in use is in the tree.
LEMMA InTheTree ==
  ASSUME NEW own, NEW D, NEW depth, Owned(own, D, depth), Tree(own, D), Reached(own, D, depth)
  PROVE  D \subseteq Dirs
<1> SUFFICES ASSUME NEW S \in SUBSET Cluster, Complete(S) PROVE D \subseteq S
  BY DirsIsLeast DEF Owned
<1> SUFFICES ASSUME D \ S # {} PROVE FALSE
  OBVIOUS
<1>1. PICK c \in D \ S : \A d \in D \ S : ~(depth[d] < depth[c])
  BY Lowest DEF Owned
<1>2. c # Root
  BY <1>1 DEF Complete
<1>3. PICK d \in D \ New, s \in Slots : Holds(own, c, d, s) /\ depth[d] < depth[c]
  BY <1>1, <1>2 DEF Reached
<1>4. d \in S
  BY <1>1, <1>3
<1>5. block[d].dir /\ At(d, s) # NoEntry /\ At(d, s).dir /\ At(d, s).first = c
  BY <1>3 DEF Holds, Tree
<1>6. Subdir(At(d, s)) = c
  BY <1>1, <1>5, Numbers DEF Subdir, Owned
<1> QED
  BY <1>1, <1>3, <1>4, <1>5, <1>6 DEF Complete

LEMMA OwnersKept ==
  ASSUME TypeInv, NEW own, NEW D, NEW depth, OwnInv(own, D, depth)
  PROVE  NoSharedClusters
<1> USE DEF OwnInv, TypeInv
<1>0. pc = "extend" => own[job.clus] = Mine /\ Nobody # Mine
  BY Owners DEF Running
<1>1. ASSUME NEW p \in Entries
      PROVE  /\ p[1] \in D \ New /\ p[2] \in Slots /\ p = <<p[1], p[2]>> /\ p[1] \in Cluster
             /\ \A c \in ChainOf(p) : c \in Cluster /\ own[c] = p
  <2>1. /\ p[1] \in D \ New /\ p[2] \in Slots /\ p = <<p[1], p[2]>> /\ p[1] \in Cluster
        /\ At(p[1], p[2]) # NoEntry /\ block[p[1]].dir
    BY TreeIsComplete DEF Entries, Owned
  <2>2. PICK f : f = At(p[1], p[2]).first
    OBVIOUS
  <2>3. CASE f = 0
    BY <2>1, <2>2, <2>3 DEF ChainOf
  <2>4. CASE f # 0
    <3>1. At(p[1], p[2]) \in Entry
      BY <2>1, NamedIsEntry
    <3>2. f \in Cluster /\ own[f] = p
      BY <2>1, <2>2, <2>4, <3>1 DEF Tree, Entry
    <3>3. ChainOf(p) = Chain(f)
      BY <2>2, <2>4 DEF ChainOf
    <3> DEFINE S == {c \in Cluster : own[c] = p}
    <3>4. p # Nobody
      BY <2>1, Owners
    <3>5. f \in S /\ \A d \in S : fat[d] \in Cluster => fat[d] \in S
      BY <3>2, <3>4 DEF Links
    <3>6. \A c \in Chain(f) : c \in S
      BY <3>5 DEF Chain
    <3> QED
      BY <2>1, <3>3, <3>6
  <2> QED
    BY <2>1, <2>3, <2>4
<1>2. ASSUME NEW p \in Entries PROVE Root \notin ChainOf(p)
  BY <1>1, Owners DEF Owned
<1>3. ASSUME NEW p \in Entries, ~BeingRemoved(p), NEW c \in ChainOf(p) PROVE fat[c] # 0
  <2>1. c \in Cluster /\ own[c] = p /\ p \notin {Nobody, Mine}
    BY <1>1, <1>3, Owners
  <2>2. ~(BeingFreed /\ own[c] = Removed)
    BY <1>3, <2>1 DEF BeingFreed, BeingRemoved, Removed
  <2>3. ~(pc = "extend" /\ c = fat[job.clus])
    BY <1>0, <2>1 DEF Links, Fits
  <2> QED
    BY <2>1, <2>2, <2>3 DEF Taken
<1>4. ASSUME NEW p \in Entries, NEW q \in Entries, p # q
      PROVE  ChainOf(p) \cap ChainOf(q) = {}
  BY <1>1, <1>4
<1> QED
  BY <1>2, <1>3, <1>4 DEF NoSharedClusters

LEMMA CwdKept ==
  ASSUME TypeInv, NEW own, NEW D, NEW depth, OwnInv(own, D, depth)
  PROVE  CwdIsDirectory
<1> USE DEF OwnInv, TypeInv
<1>1. cwd \in Dirs
  BY InTheTree DEF Owned
<1>2. block[cwd].dir
  BY DEF Owned, Tree
<1>3. own[cwd] \notin {Nobody, Mine} /\ own[cwd] # Removed
  <2>1. CASE cwd = Root
    BY <2>1, Owners, Numbers DEF Owned, Removed
  <2>2. CASE cwd # Root
    <3>1. PICK d \in D \ New, s \in Slots : own[cwd] = <<d, s>> /\ depth[d] < depth[cwd]
      BY <2>2 DEF Owned, Reached, Holds
    <3>2. d # cwd /\ d \in Cluster
      BY <3>1 DEF Owned
    <3> QED
      BY <3>1, <3>2, Owners DEF Removed
  <2> QED
    BY <2>1, <2>2
<1>4. ~(pc = "extend" /\ cwd = fat[job.clus])
  BY <1>3, Owners DEF Links, Running, Fits
<1>5. fat[cwd] # 0
  BY <1>3, <1>4 DEF Taken, Owned
<1> QED
  BY <1>1, <1>2, <1>5 DEF CwdIsDirectory

-----------------------------------------------------------------------------
(***************************************************************************)
(* Steps that leave the disk alone.                                        *)
(***************************************************************************)
\* What the directories own does not depend on the rest.
LEMMA TreeStays ==
  ASSUME TypeInv, NEW own, NEW D, NEW depth, OwnInv(own, D, depth),
         NEW own2 \in [Cluster -> Owner],
         \A c \in Cluster : own[c] \notin {Nobody, Mine, Made} => own2[c] = own[c],
         \A d \in D : block'[d] = block[d],
         cwd' \in D, New \cap D = {}, New' \cap D = {}
  PROVE  Owned(own2, D, depth)' /\ Tree(own2, D)' /\ Reached(own2, D, depth)'
<1> USE DEF OwnInv
<1>1. D \ New = D /\ D \ New' = D /\ D \subseteq Cluster
  BY DEF Owned
<1>2. Owned(own2, D, depth)'
  <2>1. New' \cap {Root, cwd'} = {} /\ own2[Root] = TheRoot
    BY Owners, Numbers DEF Owned
  <2> QED
    BY <2>1 DEF Owned
<1>3. Tree(own2, D)'
  <2> SUFFICES ASSUME NEW d \in D
               PROVE  /\ block'[d].dir
                      /\ \A s \in Slots : At(d, s)' # NoEntry =>
                           /\ At(d, s)'.first # 0 => own2[At(d, s)'.first] = <<d, s>>
                           /\ At(d, s)'.dir => At(d, s)'.first \in D
    BY <1>1 DEF Tree
  <2>1. block[d].dir /\ block'[d] = block[d]
    BY <1>1 DEF Tree
  <2>2. ASSUME NEW s \in Slots, At(d, s)' # NoEntry
        PROVE  /\ At(d, s)'.first # 0 => own2[At(d, s)'.first] = <<d, s>>
               /\ At(d, s)'.dir => At(d, s)'.first \in D
    <3>1. At(d, s)' = At(d, s) /\ At(d, s) \in Entry
      BY <1>1, <2>1, <2>2, NamedIsEntry DEF At, TypeInv
    <3>2. /\ At(d, s).first # 0 => At(d, s).first \in Cluster /\ own[At(d, s).first] = <<d, s>>
          /\ At(d, s).dir => At(d, s).first \in D
      BY <1>1, <2>2, <3>1 DEF Tree, Entry
    <3> QED
      BY <1>1, <3>1, <3>2, Owners
  <2> QED
    BY <2>1, <2>2
<1>4. Reached(own2, D, depth)'
  <2> SUFFICES ASSUME NEW c \in D \ {Root}
               PROVE  \E d \in D \ New', s \in Slots : Holds(own2, c, d, s)' /\ depth[d] < depth[c]
    BY DEF Reached
  <2>1. PICK d \in D \ New, s \in Slots : Holds(own, c, d, s) /\ depth[d] < depth[c]
    BY DEF Reached
  <2>2. own2[c] = own[c]
    BY <1>1, <2>1, Owners DEF Holds
  <2>3. Holds(own2, c, d, s)'
    BY <1>1, <2>1, <2>2 DEF Holds, At
  <2> QED
    BY <1>1, <2>1, <2>3
<1> QED
  BY <1>2, <1>3, <1>4

LEMMA OwnElsewhere ==
  ASSUME TypeInv, NEW own, NEW D, NEW depth, OwnInv(own, D, depth),
         UNCHANGED fat, \A d \in D : block'[d] = block[d],
         cwd' \in D, New \cap D = {}, New' \cap D = {},
         pc # "extend", ~BeingFreed, Running(own, D)'
  PROVE  OwnInv(own, D, depth)'
<1>1. Owned(own, D, depth)' /\ Tree(own, D)' /\ Reached(own, D, depth)'
  BY TreeStays DEF OwnInv, Owned
<1>2. Links(own)' /\ Taken(own)'
  BY DEF OwnInv, Links, Taken
<1> QED
  BY <1>1, <1>2 DEF OwnInv

LEMMA OwnQuiet ==
  ASSUME TypeInv, NEW own, NEW D, NEW depth, OwnInv(own, D, depth),
         UNCHANGED <<fat, block>>, cwd' \in D, New \cap D = {}, New' \cap D = {},
         pc # "extend", ~BeingFreed, Running(own, D)'
  PROVE  OwnInv(own, D, depth)'
BY OwnElsewhere

\* No directory is without its "." and "..".
LEMMA NoNew ==
  ASSUME pc \notin {"dots", "parentdots"}
  PROVE  New = {}
BY DEF New

LEMMA OwnBegin ==       \* what begins without a cluster
  ASSUME TypeInv, NEW own, NEW D, NEW depth, OwnInv(own, D, depth), NEW k \in Calls,
         fat32_touch(k) \/ MoveWithoutCopy(k) \/ fat32_rm(k) \/ install_file(k)
  PROVE  OwnInv(own, D, depth)'
<1>1. /\ pc = "idle" /\ pc' \in {"entry", "rm", "alloc"} /\ UNCHANGED <<fat, block, cwd, torn, misled>>
      /\ pc' = "entry" => job' = Job(k) /\ k.op = "touch"
  BY DEF fat32_touch, MoveWithoutCopy, fat32_rm, install_file, Goes, MayBegin
<1>2. New = {} /\ New' = {}
  BY <1>1, NoNew DEF New
<1>3. cwd' \in D /\ ~BeingFreed /\ pc # "extend"
  BY <1>1 DEF OwnInv, Owned, BeingFreed
<1>4. pc' = "entry" => job'.first = 0 /\ job'.op = "touch"
  BY <1>1, NewJob DEF TypeInv
<1>5. Running(own, D)'
  BY <1>1, <1>4 DEF Running
<1> QED
  BY <1>1, <1>2, <1>3, <1>5, OwnQuiet

LEMMA OwnIdle ==        \* an operation ends
  ASSUME TypeInv, NEW own, NEW D, NEW depth, OwnInv(own, D, depth),
         Finishes, UNCHANGED <<fat, block, cwd>>, New \cap D = {}, pc # "extend", ~BeingFreed
  PROVE  OwnInv(own, D, depth)'
<1>1. pc' = "idle"
  BY DEF Finishes, Goes
<1>2. New' = {} /\ cwd' \in D /\ Running(own, D)'
  BY <1>1 DEF New, OwnInv, Owned, Running
<1> QED
  BY <1>2, OwnQuiet

LEMMA OwnDiskFullAtLink ==
  ASSUME TypeInv, NEW own, NEW D, NEW depth, OwnInv(own, D, depth), DiskFullAtLink
  PROVE  OwnInv(own, D, depth)'
<1>1. /\ pc = "link" /\ UNCHANGED <<fat, block, cwd>>
  BY DEF DiskFullAtLink
<1>2. New = {} /\ ~BeingFreed /\ cwd \in D
  BY <1>1, NoNew DEF BeingFreed, OwnInv, Owned
<1>3. CASE Finishes
  BY <1>1, <1>2, <1>3, OwnIdle
<1>4. CASE Copies /\ pc' = "entry" /\ job' = [job EXCEPT !.what = "none"]
  <2>1. job \in JobType /\ job.op \in {"cp", "mv"}
    BY <1>4 DEF TypeInv, TypeOK, Copies
  <2>2. job'.first = job.first /\ job'.op \in {"cp", "mv"}
    BY <1>4, <2>1 DEF JobType
  <2>3. Running(own, D)' /\ New' = {}
    BY <1>1, <1>4, <2>2 DEF OwnInv, Running, New
  <2> QED
    BY <1>1, <1>2, <2>3, OwnQuiet
<1> QED
  BY <1>3, <1>4 DEF DiskFullAtLink, Goes

LEMMA OwnEnterDirectory ==
  ASSUME TypeInv, NEW own, NEW D, NEW depth, OwnInv(own, D, depth), EnterDirectory
  PROVE  OwnInv(own, D, depth)'
<1>1. /\ pc = "entry" /\ pc' = "entry" /\ Len(job.rest) > 1 /\ UNCHANGED <<fat, block, cwd>>
  BY DEF EnterDirectory, Goes
<1>2. New = {} /\ New' = {} /\ ~BeingFreed /\ cwd' \in D
  BY <1>1, NoNew DEF BeingFreed, OwnInv, Owned, New
<1>3. job'.first = job.first /\ job'.op = job.op /\ job'.clus = job.clus
  <2>1. PICK c, r : job' = [job EXCEPT !.dir = c, !.rest = r]
    BY DEF EnterDirectory, Goes
  <2> QED
    BY <2>1 DEF TypeInv, TypeOK, JobType
<1>4. Running(own, D)'
  BY <1>1, <1>3 DEF OwnInv, Running
<1> QED
  BY <1>1, <1>2, <1>4, OwnQuiet

\* An entry is not written.
LEMMA OwnNoEntry ==
  ASSUME TypeInv, NEW own, NEW D, NEW depth, OwnInv(own, D, depth),
         pc = "entry", AfterEntry, UNCHANGED <<fat, block, cwd>>
  PROVE  OwnInv(own, D, depth)'
<1>1. New = {} /\ ~BeingFreed /\ cwd' \in D
  BY NoNew DEF BeingFreed, OwnInv, Owned
<1>2. CASE Finishes
  BY <1>1, <1>2, OwnIdle
<1>3. CASE pc' = "rm"
  BY <1>1, <1>3, OwnQuiet DEF Running, New
<1>4. CASE pc' = "dots" /\ job' = job /\ job.op = "mkdir"
  <2>1. own[job.clus] = Mine
    BY <1>4, Numbers DEF OwnInv, Running, TypeInv, Fits
  <2>2. job.clus \notin D
    BY <2>1, MineIsNoDirectory
  <2>3. New' \cap D = {} /\ Running(own, D)'
    BY <1>4, <2>1, <2>2 DEF New, Running
  <2> QED
    BY <1>1, <2>3, OwnQuiet
<1> QED
  BY <1>2, <1>3, <1>4 DEF AfterEntry, Goes

LEMMA OwnRemovalStarts ==
  ASSUME TypeInv, NEW own, NEW D, NEW depth, OwnInv(own, D, depth), RemovalStarts
  PROVE  OwnInv(own, D, depth)'
<1>1. PICK s \in Slots :
        /\ pc = "rm" /\ UNCHANGED <<fat, block, cwd>>
        /\ job' = [job EXCEPT !.slot = s, !.clus = At(cwd, s).first]
        /\ Matches(cwd, job.path.parts[1], s) /\ Plain(job.path)
        /\ pc' = IF At(cwd, s).first = 0 THEN "unlink" ELSE "free"
  BY DEF RemovalStarts, Goes
<1>2. New = {} /\ New' = {} /\ ~BeingFreed /\ cwd' \in D /\ cwd \in Cluster
  BY <1>1, NoNew DEF BeingFreed, OwnInv, Owned, New
<1>3. job'.slot = s /\ job'.clus = At(cwd, s).first
  BY <1>1 DEF TypeInv, TypeOK, JobType
<1>4. At(cwd, s) # NoEntry
  BY <1>1, <1>2, MatchIsEntry, PathType DEF TypeInv, Fits, Plain
<1>5. At(cwd, s).first # 0 => own[At(cwd, s).first] = <<cwd, s>>
  BY <1>1, <1>2, <1>4 DEF OwnInv, Tree
<1>6. Running(own, D)'
  BY <1>1, <1>3, <1>5 DEF Running, Removed, At
<1> QED
  BY <1>1, <1>2, <1>6, OwnQuiet

LEMMA OwnNothingToRemove ==
  ASSUME TypeInv, NEW own, NEW D, NEW depth, OwnInv(own, D, depth), NothingToRemove
  PROVE  OwnInv(own, D, depth)'
<1>1. /\ pc = "rm" /\ pc' \in {"alloc", "idle"} /\ UNCHANGED <<fat, block, cwd>>
  BY DEF NothingToRemove, AfterRemoval, Finishes, Goes
<1>2. New = {} /\ New' = {} /\ ~BeingFreed /\ cwd' \in D /\ Running(own, D)'
  BY <1>1, NoNew DEF BeingFreed, OwnInv, Owned, New, Running
<1> QED
  BY <1>1, <1>2, OwnQuiet

LEMMA OwnCd ==
  ASSUME TypeInv, NEW own, NEW D, NEW depth, OwnInv(own, D, depth),
         (\E n \in Names : fat32_cd(n)) \/ CdUp \/ CdRoot
  PROVE  OwnInv(own, D, depth)'
<1>1. pc = "idle" /\ UNCHANGED <<fat, block, pc, job>>
  BY DEF fat32_cd, CdUp, CdRoot
<1>2. New = {} /\ New' = {} /\ ~BeingFreed /\ cwd \in D /\ D \subseteq Cluster
  BY <1>1, NoNew DEF BeingFreed, OwnInv, Owned, New
<1>3. cwd' \in D
  <2>1. ASSUME NEW n \in Names, fat32_cd(n) PROVE cwd' \in D
    <3>1. PICK s \in Slots : MatchesDir(cwd, n, s) /\ cwd' = Subdir(At(cwd, s))
      BY <2>1 DEF fat32_cd
    <3>2. At(cwd, s).dir /\ At(cwd, s) # NoEntry
      BY <1>2, <3>1, DirMatchIsEntry DEF TypeInv
    <3>3. At(cwd, s).first \in D
      BY <1>2, <3>2 DEF OwnInv, Tree
    <3> QED
      BY <1>2, <3>1, <3>3, Numbers DEF Subdir
  <2>2. CASE CdUp
    <3>1. cwd \in D \ {Root} /\ cwd \notin New /\ cwd' = block[cwd].at.up
      BY <1>2, <2>2 DEF CdUp
    <3> QED
      BY <3>1 DEF OwnInv, Reached, Holds
  <2>3. CASE CdRoot
    BY <2>3 DEF CdRoot, OwnInv, Owned
  <2> QED
    BY <2>1, <2>2, <2>3
<1>4. Running(own, D)'
  BY <1>1 DEF Running
<1> QED
  BY <1>1, <1>2, <1>3, <1>4, OwnQuiet

-----------------------------------------------------------------------------
(***************************************************************************)
(* Steps that take clusters, write files, and free them.                   *)
(***************************************************************************)
LEMMA FreeIsNobodys ==
  ASSUME NEW own, NEW D, NEW depth, OwnInv(own, D, depth), NEW c \in Cluster, fat[c] = 0,
         pc # "extend", ~BeingFreed
  PROVE  own[c] = Nobody
BY DEF OwnInv, Taken

\* A free cluster is taken.
LEMMA OwnTake ==
  ASSUME TypeInv, NEW own, NEW D, NEW depth, OwnInv(own, D, depth),
         NEW c \in Cluster, fat[c] = 0, SetFat(c, EOC), UNCHANGED <<block, cwd>>,
         pc \in {"idle", "alloc", "entry"}, New' \cap D = {},
         NEW m \in {Mine, Made}, NEW own2, own2 = [own EXCEPT ![c] = m],
         Running(own2, D)'
  PROVE  OwnInv(own2, D, depth)'
<1> USE DEF OwnInv
<1>1. own[c] = Nobody /\ own \in [Cluster -> Owner]
  BY FreeIsNobodys DEF BeingFreed, Owned
<1>2. own2 \in [Cluster -> Owner] /\ own2[c] = m /\ \A d \in Cluster \ {c} : own2[d] = own[d]
  BY <1>1 DEF Owner
<1>3. \A d \in Cluster : own[d] \notin {Nobody, Mine, Made} => own2[d] = own[d]
  BY <1>1, <1>2
<1>4. Owned(own2, D, depth)' /\ Tree(own2, D)' /\ Reached(own2, D, depth)'
  <2>1. New \cap D = {} /\ cwd' \in D /\ \A d \in D : block'[d] = block[d]
    BY NoNew DEF Owned
  <2> QED
    BY <1>2, <1>3, <2>1, TreeStays
<1>5. fat'[c] = EOC /\ \A d \in Cluster \ {c} : fat'[d] = fat[d]
  BY FatSet, Numbers DEF TypeInv
<1>6. Links(own2)'
  <2> SUFFICES ASSUME NEW d \in Cluster, own2[d] # Nobody, fat'[d] \in Cluster
               PROVE  own2[fat'[d]] = own2[d]
    BY DEF Links
  <2>1. d # c /\ fat'[d] = fat[d] /\ own2[d] = own[d]
    BY <1>2, <1>5, Numbers
  <2>2. own[fat[d]] = own[d] /\ fat[d] # c
    BY <1>1, <2>1 DEF Links
  <2> QED
    BY <1>2, <2>1, <2>2
<1>7. Taken(own2)'
  <2>1. \A d \in Cluster : own[d] # Nobody => fat[d] # 0
    BY DEF Taken, BeingFreed
  <2>2. \A d \in Cluster : own2[d] # Nobody => fat'[d] # 0
    BY <1>2, <1>5, <2>1, Numbers
  <2> QED
    BY <2>2 DEF Taken
<1> QED
  BY <1>4, <1>6, <1>7

LEMMA OwnTakeFirst ==   \* echo, mkdir, cp and mv
  ASSUME TypeInv, NEW own, NEW D, NEW depth, OwnInv(own, D, depth),
         NEW k \in Calls, fat32_echo(k) \/ fat32_mkdir(k) \/ fat32_copy(k)
  PROVE  \E own2 : OwnInv(own2, D, depth)'
<1>1. PICK j : j = Job(k)
  OBVIOUS
<1>2. j \in JobType /\ j.op = k.op /\ j.rest = k.dest.parts /\ j.dir = Start(k.dest)
  BY <1>1, NewJob DEF TypeInv
<1>3. \E c, w, n, d :
        /\ c \in Cluster /\ fat[c] = 0 /\ SetFat(c, EOC)
        /\ \/ job' = [j EXCEPT !.what = w, !.size = n, !.left = n, !.first = c, !.clus = c]
           \/ job' = [j EXCEPT !.first = c, !.clus = c]
           \/ job' = [j EXCEPT !.what = w, !.size = n, !.left = n, !.from = d,
                               !.first = c, !.clus = c]
  <2>1. CASE fat32_echo(k)
    BY <1>1, <2>1 DEF fat32_echo, FirstFree, Goes
  <2>2. CASE fat32_mkdir(k)
    BY <1>1, <2>2 DEF fat32_mkdir, FirstFree, Goes
  <2>3. CASE fat32_copy(k)
    <3>1. PICK c \in Cluster, at \in Cluster, s \in Slots :
            /\ fat[c] = 0 /\ SetFat(c, EOC)
            /\ job' = [j EXCEPT !.what = At(at, s).what, !.size = At(at, s).size,
                                !.left = At(at, s).size, !.from = At(at, s).first,
                                !.first = c, !.clus = c]
      BY <1>1, <2>3 DEF fat32_copy, FirstFree, Goes
    <3> QED
      BY <3>1
  <2> QED
    BY <2>1, <2>2, <2>3
<1>4. PICK c \in Cluster :
        /\ fat[c] = 0 /\ SetFat(c, EOC)
        /\ job'.first = c /\ job'.clus = c /\ job'.op = k.op
        /\ job'.rest = k.dest.parts /\ job'.dir = Start(k.dest)
  <2>1. PICK c, w, n, d :
          /\ c \in Cluster /\ fat[c] = 0 /\ SetFat(c, EOC)
          /\ \/ job' = [j EXCEPT !.what = w, !.size = n, !.left = n, !.first = c, !.clus = c]
             \/ job' = [j EXCEPT !.first = c, !.clus = c]
             \/ job' = [j EXCEPT !.what = w, !.size = n, !.left = n, !.from = d,
                                 !.first = c, !.clus = c]
    BY <1>3
  <2> QED
    BY <1>2, <2>1 DEF JobType
<1>5. pc = "idle" /\ pc' \in {"data", "entry"} /\ UNCHANGED <<block, cwd>>
  BY DEF fat32_echo, fat32_mkdir, fat32_copy, MayBegin, Goes
<1>7. PICK own2 : own2 = [own EXCEPT ![c] = Mine]
  OBVIOUS
<1>8. own2[c] = Mine
  BY <1>7 DEF OwnInv, Owned
<1>9. Running(own2, D)'
  BY <1>4, <1>5, <1>8, Numbers DEF Running
<1>10. New' \cap D = {}
  BY <1>5 DEF New
<1> QED
  BY <1>4, <1>5, <1>7, <1>9, <1>10, OwnTake

LEMMA OwnFirstCluster ==
  ASSUME TypeInv, NEW own, NEW D, NEW depth, OwnInv(own, D, depth), FirstCluster
  PROVE  \E own2 : OwnInv(own2, D, depth)'
<1>0. pc = "alloc" /\ UNCHANGED <<block, cwd>>
  BY DEF FirstCluster
<1>1. CASE Finishes /\ UNCHANGED fat
  <2>1. New \cap D = {} /\ ~BeingFreed
    BY <1>0, NoNew DEF BeingFreed
  <2>2. OwnInv(own, D, depth)'
    BY <1>0, <1>1, <2>1, OwnIdle
  <2> QED
    BY <2>2
<1>2. CASE \E c \in Cluster :
             FirstFree(c) /\ SetFat(c, EOC) /\ Goes("data", [job EXCEPT !.first = c, !.clus = c])
  <2>1. PICK c \in Cluster :
          /\ fat[c] = 0 /\ SetFat(c, EOC) /\ pc' = "data"
          /\ job' = [job EXCEPT !.first = c, !.clus = c]
    BY <1>2 DEF FirstFree, Goes
  <2>2. job'.first = c /\ job'.clus = c
    BY <2>1 DEF TypeInv, TypeOK, JobType
  <2>3. PICK own2 : own2 = [own EXCEPT ![c] = Mine]
    OBVIOUS
  <2>4. own2[c] = Mine
    BY <2>3 DEF OwnInv, Owned
  <2>5. Running(own2, D)' /\ New' \cap D = {}
    BY <2>1, <2>2, <2>4, Numbers DEF Running, New
  <2> QED
    BY <1>0, <2>1, <2>3, <2>5, OwnTake
<1> QED
  BY <1>1, <1>2 DEF FirstCluster

LEMMA OwnMakeParent ==
  ASSUME TypeInv, NEW own, NEW D, NEW depth, OwnInv(own, D, depth), MakeParent
  PROVE  \E own2 : OwnInv(own2, D, depth)'
<1>0. pc = "entry" /\ UNCHANGED <<block, cwd>> /\ Len(job.rest) > 1
  BY DEF MakeParent, MissingParent
<1>1. CASE AfterEntry /\ UNCHANGED fat
  BY <1>0, <1>1, OwnNoEntry
<1>2. CASE \E c \in Cluster : FirstFree(c) /\ SetFat(c, EOC) /\ Goes("parent", [job EXCEPT !.made = c])
  <2>1. PICK c \in Cluster :
          fat[c] = 0 /\ SetFat(c, EOC) /\ pc' = "parent" /\ job' = [job EXCEPT !.made = c]
    BY <1>2 DEF FirstFree, Goes
  <2>2. job'.made = c /\ job'.first = job.first /\ job'.op = job.op /\ job'.clus = job.clus
    BY <2>1 DEF TypeInv, TypeOK, JobType
  <2>3. PICK own2 : own2 = [own EXCEPT ![c] = Made]
    OBVIOUS
  <2>4. own2[c] = Made /\ \A d \in Cluster \ {c} : own2[d] = own[d]
    BY <2>3 DEF OwnInv, Owned
  <2>5. job.op = "mkdir" => job.first = job.clus
    BY <1>0 DEF OwnInv, Running
  <2>6. job.first # 0 => own2[job.first] = Mine
    <3>1. job.first # 0 => job.first \in Cluster /\ own[job.first] = Mine
      BY <1>0 DEF OwnInv, Running, TypeInv, TypeOK, JobType
    <3>2. own[c] = Nobody
      BY <1>0, <2>1, FreeIsNobodys DEF BeingFreed
    <3> QED
      BY <2>4, <3>1, <3>2, Owners
  <2>7. Running(own2, D)' /\ New' \cap D = {}
    BY <2>1, <2>2, <2>4, <2>5, <2>6 DEF Running, New
  <2> QED
    BY <1>0, <2>1, <2>3, <2>7, OwnTake
<1> QED
  BY <1>1, <1>2 DEF MakeParent

LEMMA OwnWriteData ==
  ASSUME TypeInv, NEW own, NEW D, NEW depth, OwnInv(own, D, depth), WriteData
  PROVE  OwnInv(own, D, depth)'
<1>1. /\ pc = "data" /\ pc' \in {"link", "entry"} /\ UNCHANGED <<fat, cwd>>
      /\ job' = [job EXCEPT !.left = job.left - 1,
                            !.from = IF Copies /\ job.left > 1 THEN fat[job.from] ELSE 0]
  BY DEF WriteData, Goes
<1>2. job'.first = job.first /\ job'.clus = job.clus /\ job'.op = job.op
  BY <1>1 DEF TypeInv, TypeOK, JobType
<1>3. job.clus \in Cluster /\ own[job.clus] = Mine /\ job.clus \notin D
  BY <1>1, MineIsNoDirectory DEF OwnInv, Running, TypeInv, Fits
<1>4. \A d \in D : block'[d] = block[d]
  BY <1>3 DEF WriteData, OwnInv, Owned, TypeInv, TypeOK
<1>5. New = {} /\ New' = {} /\ cwd' \in D
  BY <1>1, NoNew DEF New, OwnInv, Owned
<1>6. Owned(own, D, depth)' /\ Tree(own, D)' /\ Reached(own, D, depth)'
  BY <1>4, <1>5, TreeStays DEF OwnInv, Owned
<1>7. Links(own)' /\ Taken(own)'
  BY <1>1 DEF OwnInv, Links, Taken, BeingFreed
<1>8. job.op # "mkdir"
  BY <1>1 DEF TypeInv, Fits
<1>9. Running(own, D)'
  BY <1>1, <1>2, <1>8 DEF OwnInv, Running
<1> QED
  BY <1>6, <1>7, <1>9 DEF OwnInv

LEMMA OwnLinkNext ==
  ASSUME TypeInv, NEW own, NEW D, NEW depth, OwnInv(own, D, depth), LinkNext
  PROVE  \E own2 : OwnInv(own2, D, depth)'
<1>1. PICK c \in Cluster : fat[c] = 0 /\ SetFat(job.clus, c)
  BY DEF LinkNext, FirstFree
<1>2. pc = "link" /\ pc' = "extend" /\ job' = job /\ UNCHANGED <<block, cwd>>
  BY DEF LinkNext, Goes
<1>3. job.clus \in Cluster /\ own[job.clus] = Mine /\ own \in [Cluster -> Owner]
  BY <1>2 DEF OwnInv, Owned, Running, TypeInv, Fits
<1>4. own[c] = Nobody /\ c # job.clus
  BY <1>1, <1>2, <1>3, FreeIsNobodys, Owners DEF BeingFreed
<1>5. fat'[job.clus] = c /\ \A d \in Cluster \ {job.clus} : fat'[d] = fat[d]
  BY <1>1, <1>3, FatSet, Numbers DEF TypeInv
<1>6. PICK own2 : own2 = [own EXCEPT ![c] = Mine]
  OBVIOUS
<1>7. own2 \in [Cluster -> Owner] /\ own2[c] = Mine /\ \A d \in Cluster \ {c} : own2[d] = own[d]
  BY <1>3, <1>6 DEF Owner
<1>8. Owned(own2, D, depth)' /\ Tree(own2, D)' /\ Reached(own2, D, depth)'
  <2>1. New = {} /\ New' = {} /\ cwd' \in D /\ \A d \in D : block'[d] = block[d]
    BY <1>2, NoNew DEF New, OwnInv, Owned
  <2>2. \A d \in Cluster : own[d] \notin {Nobody, Mine, Made} => own2[d] = own[d]
    BY <1>4, <1>7
  <2> QED
    BY <1>7, <2>1, <2>2, TreeStays
<1>9. Links(own2)'
  <2> SUFFICES ASSUME NEW d \in Cluster, own2[d] # Nobody, fat'[d] \in Cluster
               PROVE  own2[fat'[d]] = own2[d]
    BY DEF Links
  <2>1. CASE d = job.clus
    BY <1>3, <1>4, <1>5, <1>7, <2>1
  <2>2. CASE d = c
    BY <1>1, <1>4, <1>5, <2>2, Numbers
  <2>3. CASE d \notin {c, job.clus}
    <3>1. fat'[d] = fat[d] /\ own2[d] = own[d]
      BY <1>5, <1>7, <2>3
    <3>2. own[fat[d]] = own[d] /\ fat[d] # c
      BY <1>4, <3>1 DEF OwnInv, Links
    <3> QED
      BY <1>7, <3>1, <3>2
  <2> QED
    BY <2>1, <2>2, <2>3
<1>10. Taken(own2)'
  <2>1. \A d \in Cluster : own[d] # Nobody => fat[d] # 0
    BY <1>2 DEF OwnInv, Taken, BeingFreed
  <2>2. \A d \in Cluster : own2[d] # Nobody => fat'[d] # 0 \/ d = c
    BY <1>5, <1>7, <2>1, Numbers
  <2> QED
    BY <1>2, <1>5, <2>2 DEF Taken
<1>11. Running(own2, D)'
  <2>1. job.first # 0 => job.first \in Cluster /\ own[job.first] = Mine
    BY <1>2 DEF OwnInv, Running, TypeInv, TypeOK, JobType
  <2>2. job.first # 0 => own2[job.first] = Mine
    BY <1>7, <2>1
  <2> QED
    BY <1>2, <1>3, <1>4, <1>7, <2>2 DEF Running
<1> QED
  BY <1>8, <1>9, <1>10, <1>11 DEF OwnInv

LEMMA OwnEndNext ==
  ASSUME TypeInv, NEW own, NEW D, NEW depth, OwnInv(own, D, depth), EndNext
  PROVE  OwnInv(own, D, depth)'
<1>1. PICK d \in Cluster : d = fat[job.clus]
  BY DEF EndNext, TypeInv, Fits
<1>2. /\ pc = "extend" /\ pc' \in {"data", "entry"} /\ UNCHANGED <<block, cwd>>
      /\ SetFat(d, EOC) /\ job' = [job EXCEPT !.clus = d]
      /\ pc' = "entry" => Copies
  BY <1>1 DEF EndNext, Goes
<1>3. job'.clus = d /\ job'.first = job.first /\ job'.op = job.op
  BY <1>2 DEF TypeInv, TypeOK, JobType
<1>4. own[d] = Mine
  BY <1>1, <1>2, Owners DEF OwnInv, Links, Running, TypeInv, Fits
<1>5. fat'[d] = EOC /\ \A c \in Cluster \ {d} : fat'[c] = fat[c]
  BY <1>2, FatSet, Numbers DEF TypeInv
<1>6. Owned(own, D, depth)' /\ Tree(own, D)' /\ Reached(own, D, depth)'
  <2>1. New = {} /\ New' = {} /\ cwd' \in D /\ \A c \in D : block'[c] = block[c]
    BY <1>2, NoNew DEF New, OwnInv, Owned
  <2> QED
    BY <2>1, TreeStays DEF OwnInv, Owned
<1>7. Links(own)'
  BY <1>5, Numbers DEF OwnInv, Links
<1>8. Taken(own)'
  <2>1. \A c \in Cluster : own[c] # Nobody => fat[c] # 0 \/ c = d
    BY <1>1, <1>2 DEF OwnInv, Taken, BeingFreed
  <2>2. \A c \in Cluster : own[c] # Nobody => fat'[c] # 0
    BY <1>5, <2>1, Numbers
  <2> QED
    BY <2>2 DEF Taken
<1>9. Running(own, D)'
  BY <1>2, <1>3, <1>4 DEF OwnInv, Running, Copies
<1> QED
  BY <1>6, <1>7, <1>8, <1>9 DEF OwnInv

\* The removed file stays half freed to the end.
LEMMA FreeingGoesOn ==
  ASSUME TypeInv, NEW own, NEW D, NEW depth, OwnInv(own, D, depth), FreeCluster
  PROVE  /\ pc = "free" /\ pc' \in {"free", "unlink"} /\ UNCHANGED <<block, cwd>>
         /\ job.clus \in Cluster /\ own[job.clus] = Removed
         /\ job'.clus = fat[job.clus] /\ (pc' = "free" => job'.clus \in Cluster)
         /\ fat'[job.clus] = 0 /\ \A c \in Cluster \ {job.clus} : fat'[c] = fat[c]
         /\ At(cwd, job.slot)' = At(cwd, job.slot)
         /\ BeingFreed' /\ Removed' = Removed
<1> DEFINE f == At(cwd, job.slot).first
<1>1. PICK d \in FatValue : d = fat[job.clus]
  BY DEF FreeCluster, TypeInv, TypeOK, Fits
<1>2. /\ pc = "free" /\ pc' = (IF d \in Cluster THEN "free" ELSE "unlink")
      /\ UNCHANGED <<block, cwd>> /\ SetFat(job.clus, 0) /\ job' = [job EXCEPT !.clus = d]
  BY <1>1 DEF FreeCluster, Goes
<1>3. job'.clus = d /\ job'.slot = job.slot
  BY <1>2 DEF TypeInv, TypeOK, JobType
<1>4. job.clus \in Cluster /\ own[job.clus] = Removed /\ (job.clus = f \/ BeingFreed)
  BY <1>2 DEF OwnInv, Running, TypeInv, Fits
<1>5. fat'[job.clus] = 0 /\ \A c \in Cluster \ {job.clus} : fat'[c] = fat[c]
  BY <1>2, <1>4, FatSet, Numbers DEF TypeInv
<1>6. At(cwd, job.slot)' = At(cwd, job.slot) /\ Removed' = Removed
  BY <1>2, <1>3 DEF At, Removed
<1>7. f \in Cluster
  <2>1. At(cwd, job.slot) \in Entry
    BY <1>2, NamedIsEntry DEF TypeInv, TypeOK, Fits
  <2>2. f # 0
    BY <1>4, Numbers DEF BeingFreed
  <2> QED
    BY <2>1, <2>2 DEF Entry
<1>8. BeingFreed'
  <2>1. fat'[f] = 0
    BY <1>4, <1>5, <1>7 DEF BeingFreed
  <2> QED
    BY <1>2, <1>6, <1>7, <2>1, Numbers DEF BeingFreed
<1> QED
  BY <1>1, <1>2, <1>3, <1>4, <1>5, <1>6, <1>8

LEMMA OwnFreeCluster ==
  ASSUME TypeInv, NEW own, NEW D, NEW depth, OwnInv(own, D, depth), FreeCluster
  PROVE  OwnInv(own, D, depth)'
<1>1. /\ pc = "free" /\ pc' \in {"free", "unlink"} /\ UNCHANGED <<block, cwd>>
      /\ job.clus \in Cluster /\ own[job.clus] = Removed
      /\ job'.clus = fat[job.clus] /\ (pc' = "free" => job'.clus \in Cluster)
      /\ fat'[job.clus] = 0 /\ \A c \in Cluster \ {job.clus} : fat'[c] = fat[c]
      /\ BeingFreed' /\ Removed' = Removed
  BY FreeingGoesOn
<1>2. Removed # Nobody
  BY Owners DEF TypeInv, TypeOK, Removed
<1>3. Owned(own, D, depth)' /\ Tree(own, D)' /\ Reached(own, D, depth)'
  <2>1. New = {} /\ New' = {} /\ cwd' \in D /\ \A c \in D : block'[c] = block[c]
    BY <1>1, NoNew DEF New, OwnInv, Owned
  <2> QED
    BY <2>1, TreeStays DEF OwnInv, Owned
<1>4. Links(own)'
  BY <1>1, Numbers DEF OwnInv, Links
<1>5. Taken(own)'
  <2>1. \A c \in Cluster : own[c] # Nobody => fat[c] # 0 \/ own[c] = Removed
    BY <1>1 DEF OwnInv, Taken
  <2>2. \A c \in Cluster : own[c] # Nobody => fat'[c] # 0 \/ own[c] = Removed'
    BY <1>1, <2>1
  <2> QED
    BY <1>1, <2>2 DEF Taken
<1>6. Running(own, D)'
  <2>1. fat[job.clus] \in Cluster => own[fat[job.clus]] = Removed
    BY <1>1, <1>2 DEF OwnInv, Links
  <2> QED
    BY <1>1, <2>1 DEF Running
<1> QED
  BY <1>3, <1>4, <1>5, <1>6 DEF OwnInv

\* What the operation had taken is lost with the power, but nobody else's.
LEMMA OwnPowerLoss ==
  ASSUME TypeInv, NEW own, NEW D, NEW depth, OwnInv(own, D, depth), PowerLoss, ~torn'
  PROVE  \E own2 : OwnInv(own2, D, depth)'
<1>1. pc' = "idle" /\ cwd' = Root /\ UNCHANGED <<fat, block>> /\ ~HalfDone
  BY DEF PowerLoss
<1>2. New = {} /\ New' = {} /\ ~BeingFreed /\ ~BeingFreed' /\ cwd' \in D
  BY <1>1 DEF HalfDone, New, BeingFreed, OwnInv, Owned
<1>3. PICK own2 : own2 = [c \in Cluster |-> IF own[c] \in {Mine, Made} THEN Nobody ELSE own[c]]
  OBVIOUS
<1>4. /\ own2 \in [Cluster -> Owner]
      /\ \A c \in Cluster : own2[c] # Nobody => own2[c] = own[c] /\ own[c] \notin {Nobody, Mine, Made}
      /\ \A c \in Cluster : own[c] \notin {Nobody, Mine, Made} => own2[c] = own[c]
  BY <1>3 DEF OwnInv, Owned, Owner
<1>5. Owned(own2, D, depth)' /\ Tree(own2, D)' /\ Reached(own2, D, depth)'
  BY <1>1, <1>2, <1>4, TreeStays
<1>6. Links(own2)'
  BY <1>1, <1>4 DEF OwnInv, Links
<1>7. Taken(own2)'
  <2>1. ASSUME NEW c \in Cluster, own2[c] # Nobody PROVE fat[c] # 0
    <3>1. own[c] \notin {Nobody, Mine, Made}
      BY <1>4, <2>1
    <3>2. pc = "extend" => own[fat[job.clus]] = Mine
      BY Owners DEF OwnInv, Links, Running, TypeInv, Fits
    <3> QED
      BY <1>2, <3>1, <3>2 DEF OwnInv, Taken
  <2> QED
    BY <1>1, <2>1 DEF Taken
<1>8. Running(own2, D)'
  BY <1>1 DEF Running
<1> QED
  BY <1>5, <1>6, <1>7, <1>8 DEF OwnInv

-----------------------------------------------------------------------------
(***************************************************************************)
(* Steps that write directories.                                           *)
(***************************************************************************)

\* The clusters of owner m become those of entry e, written in the tree.
Attaches(own, D, d, s, e, m, own2, D2) ==
  /\ pc \in {"entry", "parent"} /\ UNCHANGED <<fat, cwd>>
  /\ d \in D /\ s \in Slots /\ e \in Entry /\ m \in {Mine, Made}
  /\ FreeSlot(d, s) /\ SetSlot(d, s, e)
  /\ e.first # 0 => own[e.first] = m
  /\ own2 \in [Cluster -> Owner]
  /\ \A c \in Cluster : own2[c] = IF own[c] = m THEN <<d, s>> ELSE own[c]
  /\ e.dir => e.first # 0 /\ D2 = D \cup {e.first} /\ New' = {e.first}
  /\ ~e.dir => D2 = D /\ New' = {}

LEMMA OwnAttach ==
  ASSUME TypeInv, NEW own, NEW D, NEW depth, OwnInv(own, D, depth),
         NEW d, NEW s, NEW e, NEW m, NEW own2, NEW D2,
         Attaches(own, D, d, s, e, m, own2, D2), Running(own2, D2)'
  PROVE  \E depth2 : OwnInv(own2, D2, depth2)'
<1> USE DEF OwnInv, Attaches
<1>1. D \subseteq Cluster /\ New = {} /\ d \in Cluster
  BY NoNew DEF Owned
<1>2. e.dir => e.first \in Cluster \ D
  BY MineIsNoDirectory DEF Entry
<1>3. /\ \A c \in Cluster : own[c] = m => own2[c] = <<d, s>>
      /\ \A c \in Cluster : own[c] # m => own2[c] = own[c]
      /\ \A c \in Cluster : own2[c] # Nobody <=> own[c] # Nobody
  BY <1>1, Owners DEF Owned, Owner
<1>4. PICK depth2 \in [Cluster -> Nat] :
        /\ \A c \in D : depth2[c] = depth[c]
        /\ e.dir => depth[d] < depth2[e.first]
  <2>1. CASE ~e.dir
    BY <2>1 DEF Owned
  <2>2. CASE e.dir
    <3>1. depth[d] \in Nat /\ depth[d] + 1 \in Nat /\ depth[d] < depth[d] + 1
      BY <1>1 DEF Owned
    <3>2. PICK depth2 : depth2 = [depth EXCEPT ![e.first] = depth[d] + 1]
      OBVIOUS
    <3>3. /\ depth2 \in [Cluster -> Nat] /\ depth2[e.first] = depth[d] + 1
          /\ \A c \in Cluster \ {e.first} : depth2[c] = depth[c]
      BY <1>2, <2>2, <3>1, <3>2 DEF Owned
    <3> QED
      BY <1>1, <1>2, <2>2, <3>1, <3>3
  <2> QED
    BY <2>1, <2>2
<1>5. /\ \A c \in Cluster \ {d} : block'[c] = block[c]
      /\ block[d].dir /\ block'[d].dir /\ block'[d].at.up = block[d].at.up
      /\ At(d, s)' = e /\ At(d, s) = NoEntry
      /\ \A t \in Slots \ {s} : At(d, t)' = At(d, t)
  BY <1>1, SlotSet DEF TypeInv, FreeSlot, At
<1>6. \A c \in Cluster, t \in Slots : At(c, t) # NoEntry => At(c, t)' = At(c, t)
  BY <1>5 DEF At
<1>7. D2 \ New' = D /\ D2 \subseteq Cluster
  BY <1>1, <1>2
<1>8. Owned(own2, D2, depth2)'
  <2>1. New' \cap {Root, cwd'} = {}
    BY <1>2 DEF Owned
  <2>2. own2[Root] = TheRoot
    BY <1>3, Owners, Numbers DEF Owned
  <2> QED
    BY <1>3, <1>4, <1>7, <2>1, <2>2 DEF Owned
<1>9. Links(own2)'
  BY <1>3, Owners DEF Links
<1>10. Taken(own2)'
  BY <1>3 DEF Taken, BeingFreed
<1>11. Tree(own2, D2)'
  <2> SUFFICES ASSUME NEW c \in D
               PROVE  /\ block'[c].dir
                      /\ \A t \in Slots : At(c, t)' # NoEntry =>
                           /\ At(c, t)'.first # 0 => own2[At(c, t)'.first] = <<c, t>>
                           /\ At(c, t)'.dir => At(c, t)'.first \in D2
    BY <1>7 DEF Tree
  <2>1. block'[c].dir
    BY <1>1, <1>5 DEF Tree
  <2>2. ASSUME NEW t \in Slots, At(c, t)' # NoEntry
        PROVE  /\ At(c, t)'.first # 0 => own2[At(c, t)'.first] = <<c, t>>
               /\ At(c, t)'.dir => At(c, t)'.first \in D2
    <3>1. CASE c = d /\ t = s
      BY <1>3, <1>5, <3>1 DEF Entry
    <3>2. CASE ~(c = d /\ t = s)
      <4>1. At(c, t)' = At(c, t)
        BY <1>1, <1>5, <3>2 DEF At
      <4>2. block[c].dir /\ At(c, t) \in Entry /\ At(c, t) # NoEntry /\ c \in D \ New
        BY <1>1, <2>2, <4>1, NamedIsEntry DEF TypeInv, Tree
      <4>3. /\ At(c, t).first # 0 => At(c, t).first \in Cluster /\ own[At(c, t).first] = <<c, t>>
            /\ At(c, t).dir => At(c, t).first \in D
        <5>1. At(c, t).first \in {0} \cup Cluster
          BY <4>2 DEF Entry
        <5> QED
          BY <4>2, <5>1 DEF Tree
      <4> QED
        BY <1>1, <1>3, <4>1, <4>3, Owners
    <3> QED
      BY <3>1, <3>2
  <2> QED
    BY <2>1, <2>2
<1>12. Reached(own2, D2, depth2)'
  <2> SUFFICES ASSUME NEW c \in D2 \ {Root}
               PROVE  \E b \in D, t \in Slots : Holds(own2, c, b, t)' /\ depth2[b] < depth2[c]
    BY <1>7 DEF Reached
  <2>1. CASE c \in D
    <3>1. PICK b \in D, t \in Slots : Holds(own, c, b, t) /\ depth[b] < depth[c]
      BY <2>1 DEF Reached
    <3>2. own2[c] = own[c]
      BY <1>1, <1>3, <2>1, <3>1, Owners DEF Holds
    <3>3. block'[c].at.up = block[c].at.up
      BY <1>1, <1>5, <2>1
    <3>4. Holds(own2, c, b, t)'
      BY <1>1, <1>6, <3>1, <3>2, <3>3 DEF Holds
    <3> QED
      BY <1>4, <2>1, <3>1, <3>4
  <2>2. CASE c \notin D
    <3>1. e.dir /\ c = e.first /\ c \in Cluster
      BY <1>7, <2>2
    <3>2. own2[c] = <<d, s>>
      BY <1>3, <3>1
    <3>3. e # NoEntry
      BY FatOK DEF Entry, NoEntry
    <3>4. Holds(own2, c, d, s)'
      BY <1>5, <3>1, <3>2, <3>3 DEF Holds
    <3> QED
      BY <1>4, <3>1, <3>4
  <2> QED
    BY <2>1, <2>2
<1> QED
  BY <1>8, <1>9, <1>10, <1>11, <1>12

\* A new directory gets its "." and "..".
LEMMA OwnDots ==
  ASSUME TypeInv, NEW own, NEW D, NEW depth, OwnInv(own, D, depth),
         UNCHANGED <<fat, cwd>>, NEW x \in Cluster, New = {x}, New' = {},
         NEW up \in Cluster, block' = [block EXCEPT ![x] = NewDir(up)],
         x \in D => own[x][1] = up, pc # "extend", ~BeingFreed, Running(own, D)'
  PROVE  OwnInv(own, D, depth)'
<1> USE DEF OwnInv
<1>1. PICK b \in Block : /\ b = NewDir(up) /\ b.dir /\ b.at.up = up
                         /\ \A s \in Slots : b.at.slot[s] = NoEntry
  BY NewDirIsBlock
<1>2. /\ block'[x] = b /\ \A d \in Cluster \ {x} : block'[d] = block[d]
  BY <1>1, BlockSet DEF TypeInv
<1>3. /\ \A d \in Cluster \ {x}, s \in Slots : At(d, s)' = At(d, s)
      /\ \A s \in Slots : At(x, s)' = NoEntry
      /\ D \subseteq Cluster /\ D \ New' = D /\ D \ New = D \ {x}
  BY <1>1, <1>2 DEF At, Owned
<1>4. Owned(own, D, depth)'
  BY DEF Owned
<1>5. Links(own)' /\ Taken(own)'
  BY DEF Links, Taken
<1>6. Tree(own, D)'
  <2> SUFFICES ASSUME NEW d \in D
               PROVE  /\ block'[d].dir
                      /\ \A s \in Slots : At(d, s)' # NoEntry =>
                           /\ At(d, s)'.first # 0 => own[At(d, s)'.first] = <<d, s>>
                           /\ At(d, s)'.dir => At(d, s)'.first \in D
    BY <1>3 DEF Tree
  <2>1. CASE d = x
    BY <1>1, <1>2, <1>3, <2>1
  <2>2. CASE d # x
    BY <1>2, <1>3, <2>2 DEF Tree
  <2> QED
    BY <2>1, <2>2
<1>7. Reached(own, D, depth)'
  <2> SUFFICES ASSUME NEW c \in D \ {Root}
               PROVE  \E d \in D, s \in Slots : Holds(own, c, d, s)' /\ depth[d] < depth[c]
    BY <1>3 DEF Reached
  <2>1. PICK d \in D \ {x}, s \in Slots : Holds(own, c, d, s) /\ depth[d] < depth[c]
    BY <1>3 DEF Reached
  <2>2. At(d, s)' = At(d, s)
    BY <1>3, <2>1
  <2>3. block'[c].at.up = d
    <3>1. CASE c = x
      BY <1>1, <1>2, <2>1, <3>1 DEF Holds
    <3>2. CASE c # x
      BY <1>2, <1>3, <2>1, <3>2 DEF Holds
    <3> QED
      BY <3>1, <3>2
  <2>4. Holds(own, c, d, s)'
    BY <2>1, <2>2, <2>3 DEF Holds
  <2> QED
    BY <2>1, <2>4
<1> QED
  BY <1>4, <1>5, <1>6, <1>7

LEMMA OwnParentEntry ==
  ASSUME TypeInv, NEW own, NEW D, NEW depth, OwnInv(own, D, depth), ParentEntry
  PROVE  \E own2, D2, depth2 : OwnInv(own2, D2, depth2)'
<1>1. /\ pc = "parent" /\ pc' = "parentdots" /\ job' = job /\ UNCHANGED <<fat, cwd>>
      /\ job \in JobType /\ job.dir \in Cluster /\ job.made \in Cluster /\ job.rest # <<>>
  BY DEF ParentEntry, Goes, TypeInv, TypeOK, Fits, JobType
<1>2. /\ own[job.made] = Made /\ job.made \notin D
      /\ job.op = "mkdir" => job.first = job.clus
      /\ job.first # 0 => job.first \in Cluster /\ own[job.first] = Mine
  BY <1>1, MineIsNoDirectory DEF OwnInv, Running, JobType
<1>3. New = {} /\ New' = {job.made} /\ cwd' \in D /\ ~BeingFreed
  BY <1>1, NoNew DEF New, OwnInv, Owned, BeingFreed
<1>4. CASE \A d \in D : block'[d] = block[d]
  <2>1. Running(own, D)'
    BY <1>1, <1>2 DEF Running
  <2>2. OwnInv(own, D, depth)'
    BY <1>1, <1>2, <1>3, <1>4, <2>1, OwnElsewhere
  <2> QED
    BY <2>2
<1>5. CASE ~(\A d \in D : block'[d] = block[d])
  <2>1. PICK s, e :
          /\ s \in Slots
          /\ e = [name |-> Head(job.rest), dir |-> TRUE,
                  first |-> job.made, size |-> 0, what |-> "none"]
          /\ FreeSlot(job.dir, s) /\ SetSlot(job.dir, s, e)
    BY <1>5 DEF ParentEntry
  <2>2. e \in Entry /\ e.dir /\ e.first = job.made /\ e.first # 0
    BY <1>1, <2>1, RestIsNames, Numbers DEF Entry, TypeInv
  <2>3. job.dir \in D
    BY <1>5, <2>1 DEF SetSlot, OwnInv, Owned, TypeInv, TypeOK
  <2>4. PICK own2 : own2 = [c \in Cluster |-> IF own[c] = Made THEN <<job.dir, s>> ELSE own[c]]
    OBVIOUS
  <2>5. /\ own2 \in [Cluster -> Owner]
        /\ \A c \in Cluster : own2[c] = IF own[c] = Made THEN <<job.dir, s>> ELSE own[c]
    BY <1>1, <2>1, <2>4 DEF Owner, OwnInv, Owned
  <2>6. own2[job.made] = <<job.dir, s>> /\ (job.first # 0 => own2[job.first] = Mine)
    BY <1>1, <1>2, <2>5, Owners
  <2>7. PICK D2 : D2 = D \cup {e.first}
    OBVIOUS
  <2>8. Running(own2, D2)'
    BY <1>1, <1>2, <2>2, <2>6, <2>7 DEF Running
  <2>9. New' = {e.first}
    BY <1>3, <2>2
  <2>10. Attaches(own, D, job.dir, s, e, Made, own2, D2)
    BY <1>1, <1>2, <2>1, <2>2, <2>3, <2>5, <2>7, <2>9 DEF Attaches
  <2> QED
    BY <2>8, <2>10, OwnAttach
<1> QED
  BY <1>4, <1>5

LEMMA OwnParentDots ==
  ASSUME TypeInv, NEW own, NEW D, NEW depth, OwnInv(own, D, depth), ParentDots
  PROVE  OwnInv(own, D, depth)'
<1>1. /\ pc = "parentdots" /\ pc' = "entry" /\ UNCHANGED <<fat, cwd>>
      /\ job \in JobType /\ job.dir \in Cluster /\ job.made \in Cluster
      /\ block' = [block EXCEPT ![job.made] = NewDir(job.dir)]
  BY DEF ParentDots, Goes, TypeInv, TypeOK, Fits, JobType
<1>2. job'.first = job.first /\ job'.op = job.op /\ job'.clus = job.clus
  <2>1. PICK c, r : job' = [job EXCEPT !.dir = c, !.made = 0, !.rest = r]
    BY DEF ParentDots, Goes
  <2> QED
    BY <1>1, <2>1 DEF JobType
<1>3. (job.op = "mkdir" => job.first = job.clus) /\ (job.first # 0 => own[job.first] = Mine)
  BY <1>1 DEF OwnInv, Running
<1>4. Running(own, D)'
  BY <1>1, <1>2, <1>3 DEF Running
<1>5. New = {job.made} /\ New' = {} /\ ~BeingFreed /\ (job.made \in D => own[job.made][1] = job.dir)
  BY <1>1 DEF New, BeingFreed, OwnInv, Running
<1> QED
  BY <1>1, <1>4, <1>5, OwnDots

LEMMA OwnWriteDots ==   \* ".." is right where the new directory is in the current one
  ASSUME TypeInv, NEW own, NEW D, NEW depth, OwnInv(own, D, depth), WriteDots, ~misled'
  PROVE  OwnInv(own, D, depth)'
<1>1. /\ pc = "dots" /\ pc' = "idle" /\ UNCHANGED <<fat, cwd>>
      /\ job.clus \in Cluster /\ cwd \in Cluster /\ job.dir = cwd
      /\ block' = [block EXCEPT ![job.clus] = NewDir(cwd)]
  BY DEF WriteDots, Finishes, Goes, TypeInv, TypeOK, Fits
<1>2. Running(own, D)'
  BY <1>1 DEF Running
<1>3. New = {job.clus} /\ New' = {} /\ ~BeingFreed /\ (job.clus \in D => own[job.clus][1] = cwd)
  BY <1>1 DEF New, BeingFreed, OwnInv, Running
<1> QED
  BY <1>1, <1>2, <1>3, OwnDots

LEMMA OwnWriteEntry ==
  ASSUME TypeInv, NEW own, NEW D, NEW depth, OwnInv(own, D, depth), WriteEntry
  PROVE  \E own2, D2, depth2 : OwnInv(own2, D2, depth2)'
<1>1. /\ pc = "entry" /\ AfterEntry /\ UNCHANGED <<fat, cwd>>
      /\ job \in JobType /\ job.dir \in Cluster /\ job.rest # <<>>
      /\ job.size > 0 => job.first \in Cluster
  BY DEF WriteEntry, TypeInv, TypeOK, Fits, JobType
<1>2. /\ job.first # 0 => job.first \in Cluster /\ own[job.first] = Mine
      /\ job.op = "mkdir" => job.first = job.clus /\ job.clus \in Cluster
  BY <1>1 DEF OwnInv, Running, JobType, TypeInv, Fits
<1>3. New = {} /\ cwd' \in D /\ ~BeingFreed /\ cwd \in D /\ own \in [Cluster -> Owner]
  BY <1>1, NoNew DEF OwnInv, Owned, BeingFreed
<1>4. CASE UNCHANGED block
  <2>1. OwnInv(own, D, depth)'
    BY <1>1, <1>4, OwnNoEntry
  <2> QED
    BY <2>1
<1>5. ASSUME NEW s \in Slots, FreeSlot(job.dir, s),
             SetSlot(job.dir, s,
                     [name |-> Head(job.rest), dir |-> job.op = "mkdir",
                      first |-> job.first, size |-> job.size, what |-> job.what])
      PROVE  \E own2, D2, depth2 : OwnInv(own2, D2, depth2)'
  <2>1. PICK x \in BOOLEAN : x = (job.op = "mkdir")
    OBVIOUS
  <2>2. PICK e : e = [name |-> Head(job.rest), dir |-> x,
                      first |-> job.first, size |-> job.size, what |-> job.what]
    OBVIOUS
  <2>3. e \in Entry /\ e.first = job.first /\ e.dir = x
    BY <1>1, <2>2, RestIsNames DEF Entry, JobType, TypeInv
  <2>4. FreeSlot(job.dir, s) /\ SetSlot(job.dir, s, e)
    BY <1>5, <2>1, <2>2
  <2>5. /\ pc' \in {"dots", "rm", "idle"} /\ (job.op = "mkdir" <=> pc' = "dots")
        /\ pc' = "dots" => job' = job
    BY DEF AfterEntry, Goes, Finishes, WriteEntry
  <2>6. /\ e.dir => job.op = "mkdir" /\ New' = {e.first} /\ e.first # 0
        /\ ~e.dir => job.op # "mkdir" /\ New' = {}
    BY <1>2, <2>1, <2>3, <2>5, Numbers DEF New
  <2>7. CASE job.dir \notin D
    <3>1. \A d \in D : block'[d] = block[d]
      BY <2>4, <2>7 DEF SetSlot, OwnInv, Owned, TypeInv, TypeOK
    <3>2. job.op = "mkdir" => own[job.clus] = Mine /\ job.clus \notin D
      BY <1>2, Numbers, MineIsNoDirectory
    <3>3. New' \cap D = {}
      BY <1>2, <2>3, <2>5, <2>6, <3>2
    <3>5. Running(own, D)'
      BY <2>5, <3>2 DEF Running
    <3>4. OwnInv(own, D, depth)'
      BY <1>1, <1>3, <3>1, <3>3, <3>5, OwnElsewhere
    <3> QED
      BY <3>4
  <2>8. CASE job.dir \in D
    <3>1. PICK own2 : own2 = [c \in Cluster |-> IF own[c] = Mine THEN <<job.dir, s>> ELSE own[c]]
      OBVIOUS
    <3>2. /\ own2 \in [Cluster -> Owner]
          /\ \A c \in Cluster : own2[c] = IF own[c] = Mine THEN <<job.dir, s>> ELSE own[c]
      BY <1>1, <1>3, <3>1 DEF Owner
    <3>3. PICK D2 : (e.dir => D2 = D \cup {e.first}) /\ (~e.dir => D2 = D)
      BY <2>3
    <3>4. job.op = "mkdir" => own2[job.clus] = <<job.dir, s>>
      BY <1>2, <3>2, Numbers
    <3>5. Running(own2, D2)'
      <4>1. pc' = "dots" => own2[job'.clus][1] = job'.dir
        BY <1>1, <2>5, <3>4
      <4>2. pc' = "dots" => job'.clus \in D2
        BY <1>2, <2>3, <2>5, <2>6, <3>3
      <4> QED
        BY <2>5, <4>1, <4>2 DEF Running
    <3>6. e \in Entry /\ (e.first # 0 => own[e.first] = Mine) /\ (e.dir => e.first # 0)
      BY <1>2, <2>3, <2>6
    <3>7. s \in Slots
      BY <1>5
    <3>8. Attaches(own, D, job.dir, s, e, Mine, own2, D2)
      BY <1>1, <2>4, <2>6, <2>8, <3>2, <3>3, <3>6, <3>7 DEF Attaches
    <3> QED
      BY <3>5, <3>8, OwnAttach
  <2> QED
    BY <2>7, <2>8
<1> QED
  BY <1>4, <1>5 DEF WriteEntry

\* An entry goes, and with it what was below it.
LEMMA OwnUnlink ==
  ASSUME TypeInv, NEW own, NEW D, NEW depth, OwnInv(own, D, depth), Unlink
  PROVE  \E own2, D2 : OwnInv(own2, D2, depth)'
<1> USE DEF OwnInv
<1>1. /\ pc = "unlink" /\ pc' \in {"alloc", "idle"} /\ UNCHANGED <<fat, cwd>>
      /\ cwd \in Cluster /\ cwd \in D /\ D \subseteq Cluster
      /\ block[cwd].dir /\ job.slot \in Slots
      /\ SetSlot(cwd, job.slot, NoEntry)
  BY DEF Unlink, AfterRemoval, Finishes, Goes, TypeInv, TypeOK, Fits, Owned
<1>2. New = {} /\ New' = {} /\ D \ New = D
  BY <1>1, NoNew DEF New
<1>3. PICK p : p = <<cwd, job.slot>>
  OBVIOUS
<1>4. /\ \A d \in Cluster \ {cwd} : block'[d] = block[d]
      /\ \A d \in Cluster : block'[d].dir = block[d].dir
      /\ \A d \in D : block'[d].at.up = block[d].at.up
      /\ \A d \in Cluster, s \in Slots :
           At(d, s)' = IF <<d, s>> = p THEN NoEntry ELSE At(d, s)
  <2>1. /\ \A d \in Cluster \ {cwd} : block'[d] = block[d]
        /\ block'[cwd].dir = block[cwd].dir /\ block'[cwd].at.up = block[cwd].at.up
        /\ block'[cwd].at.slot[job.slot] = NoEntry
        /\ \A t \in Slots \ {job.slot} : block'[cwd].at.slot[t] = block[cwd].at.slot[t]
    <3>1. block'[cwd].dir /\ block[cwd].dir
      BY <1>1, SlotSet DEF TypeInv
    <3>2. block[cwd].dir \in BOOLEAN /\ block'[cwd].dir \in BOOLEAN
      BY <1>1, SlotSet DEF TypeInv, TypeOK, Block
    <3> QED
      BY <1>1, <3>1, <3>2, SlotSet DEF TypeInv
  <2>2. ASSUME NEW d \in Cluster, NEW s \in Slots
        PROVE  At(d, s)' = IF <<d, s>> = p THEN NoEntry ELSE At(d, s)
    <3>1. CASE d = cwd /\ s = job.slot
      BY <1>3, <2>1, <3>1 DEF At
    <3>2. CASE ~(d = cwd /\ s = job.slot)
      BY <1>3, <2>1, <3>2 DEF At
    <3> QED
      BY <3>1, <3>2
  <2> QED
    BY <1>1, <2>1, <2>2
<1>5. PICK own2 : own2 = [c \in Cluster |-> IF own[c] = p THEN Nobody ELSE own[c]]
  OBVIOUS
<1>6. /\ own2 \in [Cluster -> Owner]
      /\ \A c \in Cluster : own[c] # p => own2[c] = own[c]
      /\ \A c \in Cluster : own2[c] # Nobody => own[c] # p /\ own2[c] = own[c]
  BY <1>5 DEF Owned, Owner
<1>7. p \notin {Nobody, Mine, Made, TheRoot}
  BY <1>1, <1>3, Owners
<1>8. PICK D2 : D2 = Dirs'
  OBVIOUS
<1> DEFINE Next2(S) == \A d \in S, s \in Slots :
                         block'[d].dir /\ At(d, s)' # NoEntry /\ At(d, s)'.dir => Subdir(At(d, s)') \in S
<1>9. D2 = {c \in Cluster : \A S \in SUBSET Cluster : Root \in S /\ Next2(S) => c \in S}
  BY <1>2, <1>8 DEF Dirs, At
<1>10. \A S \in SUBSET Cluster : Root \in S /\ Next2(S) => D2 \subseteq S
  BY <1>9
<1>11. Root \in D2 /\ D2 \subseteq Cluster
  BY <1>9, Numbers
<1>12. Next2(D2)
  <2> SUFFICES ASSUME NEW d \in D2, NEW s \in Slots, block'[d].dir,
                      At(d, s)' # NoEntry, At(d, s)'.dir
               PROVE  Subdir(At(d, s)') \in D2
    OBVIOUS
  <2>1. At(d, s)' = At(d, s) /\ At(d, s) \in Entry
    BY <1>4, <1>11, NamedIsEntry DEF TypeInv
  <2>2. Subdir(At(d, s)') \in Cluster
    BY <2>1, Numbers DEF Subdir, Entry
  <2>3. ASSUME NEW S \in SUBSET Cluster, Root \in S, Next2(S) PROVE Subdir(At(d, s)') \in S
    <3>1. d \in S
      BY <1>10, <2>3
    <3> QED
      BY <2>3, <3>1
  <2> QED
    BY <1>9, <2>2, <2>3
\* An entry of the tree that is still there.
<1>13. ASSUME NEW d \in D, NEW s \in Slots, At(d, s)' # NoEntry
       PROVE  /\ <<d, s>> # p /\ At(d, s)' = At(d, s) /\ At(d, s) \in Entry
              /\ At(d, s).first # 0 => /\ At(d, s).first \in Cluster
                                       /\ own[At(d, s).first] = <<d, s>>
              /\ At(d, s).dir => Subdir(At(d, s)) = At(d, s).first /\ At(d, s).first \in D
  <2>1. <<d, s>> # p /\ At(d, s)' = At(d, s) /\ d \in Cluster
    BY <1>1, <1>4, <1>13
  <2>2. block[d].dir /\ At(d, s) # NoEntry
    BY <1>2, <1>13, <2>1 DEF Tree
  <2>3. At(d, s) \in Entry
    BY <2>1, <2>2, NamedIsEntry DEF TypeInv
  <2>4. At(d, s).first \in {0} \cup Cluster
    BY <2>3 DEF Entry
  <2> QED
    BY <1>1, <1>2, <2>1, <2>2, <2>3, <2>4, Numbers DEF Tree, Subdir
<1>14. D2 \subseteq D
  <2>1. Next2(D)
    BY <1>13
  <2> HIDE DEF Next2
  <2> QED
    BY <1>1, <1>10, <2>1 DEF Owned
<1>15. ASSUME NEW c \in D2 \ {Root}
       PROVE  \E d \in D2, s \in Slots :
                <<d, s>> # p /\ Holds(own, c, d, s) /\ depth[d] < depth[c]
  <2>1. PICK d \in D, s \in Slots : Holds(own, c, d, s) /\ depth[d] < depth[c]
    BY <1>2, <1>14 DEF Reached
  <2> SUFFICES ASSUME d \notin D2 \/ <<d, s>> = p PROVE FALSE
    BY <2>1
  <2> DEFINE S == D2 \ {c}
  <2>2. ASSUME NEW b \in S, NEW t \in Slots, At(b, t)' # NoEntry, At(b, t)'.dir
        PROVE  Subdir(At(b, t)') # c
    <3> SUFFICES ASSUME Subdir(At(b, t)') = c PROVE FALSE
      OBVIOUS
    <3>1. /\ <<b, t>> # p /\ At(b, t)' = At(b, t)
          /\ At(b, t).first = c /\ (At(b, t).first # 0 => own[At(b, t).first] = <<b, t>>)
      BY <1>13, <1>14, <2>2
    <3>2. own[c] = <<b, t>>
      BY <1>1, <1>14, <3>1, Numbers
    <3> QED
      BY <2>1, <3>1, <3>2 DEF Holds
  <2>3. Root \in S /\ S \in SUBSET Cluster
    BY <1>11
  <2>4. Next2(S)
    BY <1>12, <2>2
  <2> HIDE DEF Next2
  <2>5. D2 \subseteq S
    BY <1>10, <2>3, <2>4
  <2> QED
    BY <2>5
<1>16. cwd \in D2
  <2> SUFFICES ASSUME cwd \notin D2 PROVE FALSE
    OBVIOUS
  <2> DEFINE T == {c \in D \ D2 : ~(depth[cwd] < depth[c])}
  <2>1. T \subseteq Cluster /\ T # {} /\ depth \in [Cluster -> Nat]
    <3>1. depth \in [Cluster -> Nat] /\ depth[cwd] \in Nat
      BY <1>1 DEF Owned
    <3>2. cwd \in T
      BY <1>1, <3>1
    <3> QED
      BY <1>1, <3>1, <3>2
  <2>2. PICK c \in T : \A d \in T : ~(depth[d] < depth[c])
    <3> HIDE DEF T
    <3> QED
      BY <2>1, Lowest
  <2>3. c \in D \ {Root} /\ c \notin D2
    BY <1>11
  <2>4. PICK d \in D, s \in Slots : Holds(own, c, d, s) /\ depth[d] < depth[c]
    BY <1>2, <2>3 DEF Reached
  <2>5. depth[d] < depth[cwd] /\ ~(depth[cwd] < depth[d])
    <3>1. depth[d] \in Nat /\ depth[c] \in Nat /\ depth[cwd] \in Nat
      BY <1>1, <2>1, <2>3
    <3> QED
      BY <2>4, <3>1
  <2>6. d # cwd /\ d \in D2
    <3>1. d # cwd
      <4>1. depth[cwd] \in Nat
        BY <1>1, <2>1
      <4> QED
        BY <2>5, <4>1
    <3>2. d \notin T
      BY <2>2, <2>4
    <3> QED
      BY <2>5, <3>1, <3>2
  <2>7. /\ At(d, s)' = At(d, s) /\ At(d, s) # NoEntry /\ At(d, s).dir /\ At(d, s).first = c
        /\ block'[d].dir
    BY <1>1, <1>2, <1>3, <1>4, <2>4, <2>6 DEF Holds, Tree
  <2>8. Subdir(At(d, s)') = c
    BY <1>1, <2>3, <2>7, Numbers DEF Subdir
  <2> QED
    BY <1>12, <2>3, <2>6, <2>7, <2>8
<1>17. Owned(own2, D2, depth)'
  <2>1. own2[Root] = TheRoot
    BY <1>6, <1>7, Numbers DEF Owned
  <2> QED
    BY <1>1, <1>2, <1>6, <1>11, <1>16, <2>1 DEF Owned
<1>18. Links(own2)'
  <2> SUFFICES ASSUME NEW c \in Cluster, own2[c] # Nobody, fat[c] \in Cluster
               PROVE  own2[fat[c]] = own2[c]
    BY <1>1 DEF Links
  <2>1. own[c] # p /\ own2[c] = own[c] /\ own[fat[c]] = own[c]
    BY <1>6 DEF Links
  <2> QED
    BY <1>6, <2>1
<1>19. Taken(own2)'
  <2>1. \A c \in Cluster : own2[c] # Nobody => fat[c] # 0
    BY <1>1, <1>3, <1>6 DEF Taken, Removed
  <2> QED
    BY <1>1, <2>1 DEF Taken
<1>20. Tree(own2, D2)'
  <2> SUFFICES ASSUME NEW d \in D2
               PROVE  /\ block'[d].dir
                      /\ \A s \in Slots : At(d, s)' # NoEntry =>
                           /\ At(d, s)'.first # 0 => own2[At(d, s)'.first] = <<d, s>>
                           /\ At(d, s)'.dir => At(d, s)'.first \in D2
    BY <1>2 DEF Tree
  <2>1. block'[d].dir
    BY <1>2, <1>4, <1>11, <1>14 DEF Tree
  <2>2. ASSUME NEW s \in Slots, At(d, s)' # NoEntry
        PROVE  /\ At(d, s)'.first # 0 => own2[At(d, s)'.first] = <<d, s>>
               /\ At(d, s)'.dir => At(d, s)'.first \in D2
    <3>1. /\ <<d, s>> # p /\ At(d, s)' = At(d, s)
          /\ At(d, s).first # 0 => At(d, s).first \in Cluster /\ own[At(d, s).first] = <<d, s>>
          /\ At(d, s).dir => Subdir(At(d, s)) = At(d, s).first
      BY <1>13, <1>14, <2>2
    <3>2. At(d, s)'.dir => Subdir(At(d, s)') \in D2
      BY <1>12, <2>1, <2>2
    <3> QED
      BY <1>6, <3>1, <3>2
  <2> QED
    BY <2>1, <2>2
<1>21. Reached(own2, D2, depth)'
  <2> SUFFICES ASSUME NEW c \in D2 \ {Root}
               PROVE  \E d \in D2, s \in Slots : Holds(own2, c, d, s)' /\ depth[d] < depth[c]
    BY <1>2 DEF Reached
  <2>1. PICK d \in D2, s \in Slots :
          <<d, s>> # p /\ Holds(own, c, d, s) /\ depth[d] < depth[c]
    BY <1>15
  <2>2. own2[c] = own[c] /\ At(d, s)' = At(d, s) /\ block'[c].at.up = block[c].at.up
    BY <1>4, <1>6, <1>11, <1>14, <2>1 DEF Holds
  <2>3. Holds(own2, c, d, s)'
    BY <1>2, <2>1, <2>2 DEF Holds
  <2> QED
    BY <2>1, <2>3
<1>22. Running(own2, D2)'
  BY <1>1 DEF Running
<1> QED
  BY <1>17, <1>18, <1>19, <1>20, <1>21, <1>22

-----------------------------------------------------------------------------
LEMMA OwnSame ==
  ASSUME TypeInv, NEW own, NEW D, NEW depth, OwnInv(own, D, depth), UNCHANGED vars
  PROVE  OwnInv(own, D, depth)'
<1> USE DEF vars, OwnInv
<1>1. Owned(own, D, depth)' /\ Links(own)' /\ New' = New
  BY DEF Owned, Links, New
<1>2. Taken(own)'
  BY DEF Taken, BeingFreed, Removed, At
<1>3. Tree(own, D)'
  BY <1>1 DEF Tree, At
<1>4. Reached(own, D, depth)'
  BY <1>1 DEF Reached, Holds, At
<1>5. Running(own, D)'
  BY DEF Running, BeingFreed, Removed, At
<1> QED
  BY <1>1, <1>2, <1>3, <1>4, <1>5

LEMMA OwnStep ==
  ASSUME TypeInv, NEW own, NEW D, NEW depth, OwnInv(own, D, depth),
         [Next]_vars, ~torn', ~misled'
  PROVE  \E own2, D2, depth2 : OwnInv(own2, D2, depth2)'
<1>1. ASSUME NEW k \in Calls, Begins(k) PROVE \E own2, D2, depth2 : OwnInv(own2, D2, depth2)'
  <2>1. CASE fat32_echo(k) \/ fat32_mkdir(k) \/ fat32_copy(k)
    BY <2>1, OwnTakeFirst
  <2>2. CASE fat32_touch(k) \/ MoveWithoutCopy(k) \/ fat32_rm(k) \/ install_file(k)
    BY <2>2, OwnBegin
  <2> QED
    BY <1>1, <2>1, <2>2 DEF Begins
<1>2. CASE FirstCluster
  BY <1>2, OwnFirstCluster
<1>3. CASE WriteData
  BY <1>3, OwnWriteData
<1>4. CASE LinkNext
  BY <1>4, OwnLinkNext
<1>5. CASE DiskFullAtLink
  BY <1>5, OwnDiskFullAtLink
<1>6. CASE EndNext
  BY <1>6, OwnEndNext
<1>7. CASE EnterDirectory
  BY <1>7, OwnEnterDirectory
<1>8. CASE MakeParent
  BY <1>8, OwnMakeParent
<1>9. CASE ParentEntry
  BY <1>9, OwnParentEntry
<1>10. CASE ParentDots
  BY <1>10, OwnParentDots
<1>11. CASE WriteEntry
  BY <1>11, OwnWriteEntry
<1>12. CASE WriteDots
  BY <1>12, OwnWriteDots
<1>13. CASE RemovalStarts
  BY <1>13, OwnRemovalStarts
<1>14. CASE NothingToRemove
  BY <1>14, OwnNothingToRemove
<1>15. CASE FreeCluster
  BY <1>15, OwnFreeCluster
<1>16. CASE Unlink
  BY <1>16, OwnUnlink
<1>17. CASE (\E n \in Names : fat32_cd(n)) \/ CdUp \/ CdRoot
  BY <1>17, OwnCd
<1>18. CASE PowerLoss
  BY <1>18, OwnPowerLoss
<1>19. CASE UNCHANGED vars
  BY <1>19, OwnSame
<1> QED
  BY <1>1, <1>2, <1>3, <1>4, <1>5, <1>6, <1>7, <1>8, <1>9, <1>10, <1>11, <1>12, <1>13, <1>14,
     <1>15, <1>16, <1>17, <1>18, <1>19
  DEF Next, FileStep, EntryStep, RemoveStep

LEMMA OwnInit ==
  ASSUME Init
  PROVE  \E own, D, depth : OwnInv(own, D, depth)
<1>1. PICK own : own = [c \in Cluster |-> IF c = Root THEN TheRoot ELSE Nobody]
  OBVIOUS
<1>2. PICK depth : depth = [c \in Cluster |-> 0]
  OBVIOUS
<1>3. pc = "idle" /\ New = {} /\ cwd = Root
  BY NoNew DEF Init
<1>4. /\ block[Root].dir /\ \A s \in Slots : At(Root, s) = NoEntry
      /\ fat[Root] = EOC /\ \A c \in Cluster : fat[c] \notin Cluster
  BY NewDirIsBlock, Numbers DEF Init, At
<1>5. Owned(own, {Root}, depth) /\ Links(own) /\ Taken(own)
  BY <1>1, <1>2, <1>3, <1>4, Numbers, Owners DEF Owned, Owner, Links, Taken
<1>6. Tree(own, {Root}) /\ Reached(own, {Root}, depth) /\ Running(own, {Root})
  BY <1>3, <1>4 DEF Tree, Reached, Running
<1> QED
  BY <1>5, <1>6 DEF OwnInv

LEMMA TornStays ==
  ASSUME TypeInv, [Next]_vars, torn \/ misled
  PROVE  torn' \/ misled'
<1>1. CASE \E k \in Calls : Begins(k)
  <2>1. UNCHANGED <<torn, misled>>
    BY <1>1 DEF Begins, fat32_echo, fat32_touch, fat32_mkdir, fat32_copy, MoveWithoutCopy,
       fat32_rm, install_file
  <2> QED
    BY <2>1
<1>2. CASE FileStep
  BY <1>2 DEF FileStep, FirstCluster, WriteData, LinkNext, DiskFullAtLink, EndNext
<1>3. CASE EntryStep
  BY <1>3 DEF EntryStep, EnterDirectory, MakeParent, ParentEntry, ParentDots, WriteEntry, WriteDots
<1>4. CASE RemoveStep
  BY <1>4 DEF RemoveStep, RemovalStarts, NothingToRemove, FreeCluster, Unlink
<1>5. CASE (\E n \in Names : fat32_cd(n)) \/ CdUp \/ CdRoot \/ UNCHANGED vars
  BY <1>5 DEF fat32_cd, CdUp, CdRoot, vars
<1>6. CASE PowerLoss
  BY <1>6, Zenon DEF PowerLoss
<1> QED
  BY <1>1, <1>2, <1>3, <1>4, <1>5, <1>6 DEF Next

LEMMA Inductive ==
  /\ Init => IInv
  /\ IInv /\ [Next]_vars => IInv'
  /\ IInv => NoSharedClusters /\ CwdIsDirectory
<1>1. Init => IInv
  BY TypeInit, OwnInit DEF IInv
<1>2. ASSUME IInv, [Next]_vars PROVE IInv'
  <2>1. TypeInv'
    BY <1>2, TypeStep DEF IInv
  <2>2. ASSUME ~torn', ~misled' PROVE \E own, D, depth : OwnInv(own, D, depth)'
    <3>1. ~torn /\ ~misled
      BY <1>2, <2>2, TornStays DEF IInv
    <3>2. PICK own, D, depth : OwnInv(own, D, depth)
      BY <1>2, <2>2, <3>1 DEF IInv
    <3> QED
      BY <1>2, <2>2, <3>2, OwnStep DEF IInv
  <2> QED
    BY <2>1, <2>2 DEF IInv
<1>3. ASSUME IInv PROVE NoSharedClusters /\ CwdIsDirectory
  <2>1. CASE ~torn /\ ~misled
    <3>1. PICK own, D, depth : OwnInv(own, D, depth)
      BY <1>3, <2>1 DEF IInv
    <3> QED
      BY <1>3, <3>1, OwnersKept, CwdKept DEF IInv
  <2>2. CASE ~(~torn /\ ~misled)
    BY <2>2 DEF NoSharedClusters, CwdIsDirectory
  <2> QED
    BY <2>1, <2>2
<1> QED
  BY <1>1, <1>2, <1>3

\* On a disk of any size, with directories of any size and any calls, every
\* cluster belongs to one entry at most and none of a linked one is free for
\* others, while operations run and when the power fails between two of their
\* writes; until it fails in one of two windows, where rm has freed clusters and
\* not yet erased the entry, or a new directory waits for its "." and "..", or
\* until a mkdir by path makes a directory outside the current one.
\* (fat32_file.c:96-124, 168-191, 200-252, fat32_dir.c:104-139)
THEOREM ClustersHaveOneOwner == Spec => []NoSharedClusters
BY Inductive, PTL DEF Spec

\* And with the same two exceptions the current directory is one of the tree, not
\* a directory that is gone: what rm removes is below it, and ".." leads to the
\* directory it is in, also where mkdir was given a path into the directory that
\* was current then. (fat32_dir.c:63-139, fat32_file.c:160-191)
THEOREM CwdStaysInTheTree == Spec => []CwdIsDirectory
BY Inductive, PTL DEF Spec

-----------------------------------------------------------------------------
(***************************************************************************)
(* The contents of files.  A second layer on the ownership of clusters: it *)
(* tells what a step leaves alone, this what lies there.                   *)
(***************************************************************************)
Blk(w, i) == [dir |-> FALSE, data |-> <<w, i>>]

\* The chain of f holds blocks 1..n of w in their order and ends at end; what
\* lies in hole is not written yet.
Row(f, w, n, end, hole) ==
  \E num \in [Cluster -> Nat] :
    /\ num[f] = 1
    /\ \A c \in Chain(f) :
         /\ c = hole \/ block[c] = Blk(w, num[c])
         /\ IF c = end THEN fat[c] \notin Cluster /\ num[c] = n
                       ELSE fat[c] \in Cluster /\ num[fat[c]] = num[c] + 1

IsFile(e) == ~e.dir /\ e.size > 0 /\ e.what # "none"

FileOk(p) == LET e == At(p[1], p[2]) IN
  IsFile(e) /\ ~(BeingFreed /\ p = Removed) => \E end : Row(e.first, e.what, e.size, end, 0)

Intact == \A p \in Entries : FileOk(p)

\* A file of content w and size n holds block i of it in cluster c.
HasBlock(p, w, n, c, i) == LET e == At(p[1], p[2]) IN
  /\ IsFile(e) /\ e.what = w /\ e.size = n
  /\ c \in ChainOf(p) /\ block[c] = Blk(w, i)

\* What is copied next is the next block of a file.
Source ==
  pc \in {"data", "link", "extend"} /\ Copies /\ job.what # "none" =>
    \E p \in Entries : HasBlock(p, job.what, job.size, job.from, job.size - job.left + 1)

\* What is written so far.
Growing ==
  job.what # "none" /\ job.size > 0 =>
    /\ pc = "data" => Row(job.first, job.what, job.size - job.left + 1, job.clus, job.clus)
    /\ pc = "link" => Row(job.first, job.what, job.size - job.left, job.clus, 0)
    /\ pc = "extend" => Row(job.first, job.what, job.size - job.left + 1,
                            fat[job.clus], fat[job.clus])
    /\ pc \in {"entry", "parent", "parentdots"} =>
         \E end : Row(job.first, job.what, job.size, end, 0)
    /\ pc \in {"alloc", "rm", "free", "unlink"} /\ job.op = "install" => job.left = job.size

Files == Intact /\ Source /\ Growing

-----------------------------------------------------------------------------
(***************************************************************************)
(* Chains and the set of entries.                                          *)
(***************************************************************************)
LEMMA ChainIs ==
  ASSUME NEW f \in Cluster
  PROVE  /\ Chain(f) \subseteq Cluster /\ f \in Chain(f)
         /\ \A c \in Chain(f) : fat[c] \in Cluster => fat[c] \in Chain(f)
         /\ \A S \in SUBSET Cluster :
              f \in S /\ (\A d \in S : fat[d] \in Cluster => fat[d] \in S) => Chain(f) \subseteq S
BY DEF Chain

LEMMA ChainIsNext ==
  ASSUME NEW f \in Cluster
  PROVE  /\ Chain(f)' \subseteq Cluster /\ f \in Chain(f)'
         /\ \A c \in Chain(f)' : fat'[c] \in Cluster => fat'[c] \in Chain(f)'
         /\ \A S \in SUBSET Cluster :
              f \in S /\ (\A d \in S : fat'[d] \in Cluster => fat'[d] \in S) => Chain(f)' \subseteq S
BY DEF Chain

LEMMA ChainKept ==
  ASSUME NEW f \in Cluster, \A c \in Chain(f) : fat'[c] = fat[c]
  PROVE  Chain(f)' = Chain(f)
<1>1. Chain(f)' \subseteq Chain(f)
  BY ChainIs, ChainIsNext
<1>2. Chain(f) \subseteq Chain(f)'
  <2>1. \A d \in Chain(f)' : fat[d] \in Cluster => fat[d] \in Chain(f)'
    BY <1>1, ChainIsNext
  <2> QED
    BY <2>1, ChainIs, ChainIsNext
<1> QED
  BY <1>1, <1>2

LEMMA ChainOwned ==
  ASSUME NEW own, Links(own), NEW f \in Cluster, own[f] # Nobody
  PROVE  \A c \in Chain(f) : c \in Cluster /\ own[c] = own[f]
<1> DEFINE S == {c \in Cluster : own[c] = own[f]}
<1>1. f \in S /\ \A d \in S : fat[d] \in Cluster => fat[d] \in S
  BY DEF Links
<1>2. Chain(f) \subseteq S
  BY <1>1, ChainIs
<1> QED
  BY <1>2

LEMMA RowKept ==
  ASSUME NEW f \in Cluster, NEW w, NEW n, NEW end, NEW hole, Row(f, w, n, end, hole),
         \A c \in Chain(f) : fat'[c] = fat[c] /\ (block'[c] = block[c] \/ c = hole)
  PROVE  Row(f, w, n, end, hole)'
<1>1. Chain(f)' = Chain(f)
  BY ChainKept
<1> QED
  BY <1>1 DEF Row

LEMMA RowIsNoDirectory ==
  ASSUME NEW f \in Cluster, NEW w, NEW n, NEW end, NEW hole, Row(f, w, n, end, hole),
         NEW c \in Chain(f), c # hole
  PROVE  ~block[c].dir
<1>1. PICK i \in {num[c] : num \in [Cluster -> Nat]} : block[c] = Blk(w, i)
  BY DEF Row
<1> QED
  BY <1>1 DEF Blk

LEMMA DirsIsComplete ==
  ASSUME TypeOK
  PROVE  Complete(Dirs)
<1>1. Root \in Dirs
  BY DirsIsLeast, Numbers DEF Complete
<1>2. ASSUME NEW d \in Dirs \ New, NEW s \in Slots, block[d].dir, At(d, s) # NoEntry, At(d, s).dir
      PROVE  Subdir(At(d, s)) \in Dirs
  <2>1. Subdir(At(d, s)) \in Cluster
    BY <1>2, DirsIsLeast, NamedIsEntry, Numbers DEF Subdir, Entry
  <2>2. ASSUME NEW S \in SUBSET Cluster, Complete(S) PROVE Subdir(At(d, s)) \in S
    BY <1>2, <2>2, DirsIsLeast DEF Complete
  <2> QED
    BY <2>1, <2>2, DirsIsLeast
<1> QED
  BY <1>1, <1>2 DEF Complete

\* An entry of the tree was there before, but for entry new.
ComesFrom(new) ==
  \A d \in Dirs \ New', s \in Slots : block'[d].dir /\ At(d, s)' # NoEntry =>
    \/ <<d, s>> = new /\ (At(d, s)'.dir => Subdir(At(d, s)') \in New')
    \/ d \notin New /\ block[d].dir /\ At(d, s)' = At(d, s)

LEMMA EntriesKept ==
  ASSUME TypeInv, TypeInv', NEW new, ComesFrom(new)
  PROVE  \A p \in Entries' : p = new \/ (p \in Entries /\ At(p[1], p[2])' = At(p[1], p[2]))
<1> USE DEF TypeInv
<1>1. New' \subseteq Cluster /\ Dirs \subseteq Cluster
  BY DirsIsLeast DEF New, Fits
<1> DEFINE S == Dirs \cup New'
<1>2. Root \in S
  BY DirsIsComplete DEF Complete
<1>3. ASSUME NEW d \in S \ New', NEW s \in Slots, block'[d].dir, At(d, s)' # NoEntry, At(d, s)'.dir
      PROVE  Subdir(At(d, s)') \in S
  BY <1>3, DirsIsComplete DEF ComesFrom, Complete
<1>4. Dirs' \subseteq S
  BY <1>1, <1>2, <1>3 DEF Dirs, At
<1>5. ASSUME NEW p \in Entries', p # new
      PROVE  p \in Entries /\ At(p[1], p[2])' = At(p[1], p[2])
  <2>1. /\ p[1] \in Dirs \ New' /\ p[2] \in Slots /\ p = <<p[1], p[2]>>
        /\ block'[p[1]].dir /\ At(p[1], p[2])' # NoEntry
    BY <1>4 DEF Entries, At
  <2>2. p[1] \notin New /\ block[p[1]].dir /\ At(p[1], p[2])' = At(p[1], p[2])
    BY <1>5, <2>1 DEF ComesFrom
  <2> QED
    BY <2>1, <2>2 DEF Entries
<1> QED
  BY <1>5

\* Where no directory changes, neither do the entries.
LEMMA EntriesStay ==
  ASSUME TypeInv, TypeInv', New = {}, New' = {}, \A d \in Dirs : block'[d] = block[d]
  PROVE  /\ Entries' = Entries
         /\ \A p \in Entries : At(p[1], p[2])' = At(p[1], p[2])
<1> USE DEF TypeInv
<1>1. Dirs' \subseteq Dirs
  <2>1. \A d \in Dirs, s \in Slots : block'[d].dir /\ At(d, s)' # NoEntry /\ At(d, s)'.dir
          => Subdir(At(d, s)') \in Dirs
    BY DirsIsComplete DEF Complete, At
  <2> QED
    BY <2>1, DirsIsLeast, DirsIsComplete DEF Dirs, Complete, At
<1>2. Complete(Dirs')
  <2>1. Root \in Dirs' /\ \A d \in Dirs', s \in Slots :
          block'[d].dir /\ At(d, s)' # NoEntry /\ At(d, s)'.dir => Subdir(At(d, s)') \in Dirs'
    <3>1. Complete(Dirs)'
      BY DirsIsComplete, PTL
    <3> QED
      BY <3>1 DEF Complete
  <2> QED
    BY <1>1, <2>1 DEF Complete, At
<1>3. Dirs' = Dirs
  BY <1>1, <1>2, DirsIsLeast
<1> QED
  BY <1>3 DEF Entries, At

LEMMA EntryOwned ==
  ASSUME TypeInv, NEW own, NEW D, NEW depth, OwnInv(own, D, depth), NEW p \in Entries
  PROVE  /\ p[1] \in D \ New /\ p[1] \in Cluster /\ p[2] \in Slots /\ p = <<p[1], p[2]>>
         /\ block[p[1]].dir /\ At(p[1], p[2]) # NoEntry /\ At(p[1], p[2]) \in Entry
         /\ At(p[1], p[2]).first # 0 =>
              At(p[1], p[2]).first \in Cluster /\ own[At(p[1], p[2]).first] = p
         /\ p \notin {Nobody, Mine, Made, TheRoot}
         /\ \A c \in ChainOf(p) : c \in Cluster /\ own[c] = p
<1> USE DEF OwnInv, TypeInv
<1>1. /\ p[1] \in D \ New /\ p[2] \in Slots /\ p = <<p[1], p[2]>> /\ p[1] \in Cluster
      /\ At(p[1], p[2]) # NoEntry /\ block[p[1]].dir
  BY TreeIsComplete DEF Entries, Owned
<1>2. At(p[1], p[2]) \in Entry
  BY <1>1, NamedIsEntry
<1>3. At(p[1], p[2]).first # 0 =>
        At(p[1], p[2]).first \in Cluster /\ own[At(p[1], p[2]).first] = p
  BY <1>1, <1>2 DEF Tree, Entry
<1>4. p \notin {Nobody, Mine, Made, TheRoot}
  BY <1>1, Owners
<1>5. \A c \in ChainOf(p) : c \in Cluster /\ own[c] = p
  <2>1. PICK f : f = At(p[1], p[2]).first
    OBVIOUS
  <2>2. CASE f = 0
    BY <2>1, <2>2 DEF ChainOf
  <2>3. CASE f # 0
    BY <1>3, <1>4, <2>1, <2>3, ChainOwned DEF ChainOf
  <2> QED
    BY <2>2, <2>3
<1> QED
  BY <1>1, <1>2, <1>3, <1>4, <1>5

\* A directory belongs to no file.
LEMMA DirIsNoFile ==
  ASSUME NEW own, NEW D, NEW depth, OwnInv(own, D, depth), NEW c \in D, NEW p,
         p # TheRoot, ~At(p[1], p[2]).dir
  PROVE  own[c] # p
BY DEF OwnInv, Owned, Reached, Holds

\* A step changes no cluster of a file, but those it frees.
Spares(own, D) ==
  \A c \in Cluster :
    /\ fat'[c] # fat[c] => \/ own[c] \in {Nobody, Mine, Made}
                           \/ own[c] = Removed /\ BeingFreed' /\ Removed' = Removed
    /\ block'[c] # block[c] => own[c] \in {Nobody, Mine, Made} \/ c \in D \/ block[c].dir

LEMMA IntactKept ==
  ASSUME TypeInv, TypeInv', NEW own, NEW D, NEW depth, OwnInv(own, D, depth), Intact,
         Spares(own, D), NEW new, ComesFrom(new), new \in Entries' => FileOk(new)',
         BeingFreed => Removed \notin Entries' \/ (BeingFreed' /\ Removed' = Removed)
  PROVE  Intact'
<1> USE DEF TypeInv
<1> SUFFICES ASSUME NEW p \in Entries', p # new
             PROVE  FileOk(p)'
  BY DEF Intact
<1>1. p \in Entries /\ At(p[1], p[2])' = At(p[1], p[2])
  BY EntriesKept
<1>2. PICK e : e = At(p[1], p[2]) /\ e = At(p[1], p[2])'
  BY <1>1
<1> SUFFICES ASSUME IsFile(e), ~(BeingFreed' /\ p = Removed')
             PROVE  \E end : Row(e.first, e.what, e.size, end, 0)'
  BY <1>2 DEF FileOk
<1>3. ~(BeingFreed /\ p = Removed)
  OBVIOUS
<1>4. PICK end : Row(e.first, e.what, e.size, end, 0)
  BY <1>1, <1>2, <1>3 DEF Intact, FileOk
<1>5. /\ e.first \in Cluster /\ own[e.first] = p /\ ~e.dir
      /\ p \notin {Nobody, Mine, Made, TheRoot}
  BY <1>1, <1>2, EntryOwned, Numbers DEF IsFile, SizedEntries
<1>6. ASSUME NEW c \in Chain(e.first)
      PROVE  fat'[c] = fat[c] /\ block'[c] = block[c]
  <2>1. c \in Cluster /\ own[c] = p
    BY <1>5, ChainOwned DEF OwnInv
  <2>2. c \notin D
    BY <1>2, <1>5, <2>1, DirIsNoFile
  <2>3. ~block[c].dir
    BY <1>4, <1>5, <2>1, Numbers, RowIsNoDirectory
  <2> QED
    BY <1>5, <2>1, <2>2, <2>3 DEF Spares
<1> QED
  BY <1>4, <1>5, <1>6, RowKept

LEMMA NobodyIsNoEntry == Nobody \notin Entries'
BY Numbers DEF Nobody, Entries, Dirs

\* The directories stay as they are.
LEMMA IntactQuiet ==
  ASSUME TypeInv, TypeInv', NEW own, NEW D, NEW depth, OwnInv(own, D, depth), Intact,
         New = {}, \A d \in D : block'[d] = block[d], Spares(own, D),
         ~BeingFreed \/ (BeingFreed' /\ Removed' = Removed)
  PROVE  Intact'
<1>1. Dirs \subseteq D
  BY TreeIsComplete DEF OwnInv
<1>2. ComesFrom(Nobody)
  BY <1>1 DEF ComesFrom, At
<1> QED
  BY <1>2, NobodyIsNoEntry, IntactKept

LEMMA IntactSame ==
  ASSUME TypeInv, TypeInv', NEW own, NEW D, NEW depth, OwnInv(own, D, depth), Intact,
         New = {}, UNCHANGED <<fat, block>>, ~BeingFreed
  PROVE  Intact'
BY IntactQuiet DEF Spares

\* A free cluster is taken.
LEMMA IntactTake ==
  ASSUME TypeInv, TypeInv', NEW own, NEW D, NEW depth, OwnInv(own, D, depth), Intact,
         pc \in {"idle", "alloc", "entry"}, UNCHANGED block,
         NEW c \in Cluster, fat[c] = 0, SetFat(c, EOC)
  PROVE  Intact'
<1>1. New = {} /\ ~BeingFreed
  BY NoNew DEF BeingFreed
<1>2. own[c] = Nobody
  BY <1>1, FreeIsNobodys
<1>3. \A d \in Cluster \ {c} : fat'[d] = fat[d]
  BY FatSet, Numbers DEF TypeInv
<1>4. Spares(own, D)
  BY <1>2, <1>3 DEF Spares
<1> QED
  BY <1>1, <1>4, IntactQuiet

\* And begins the chain of a file, whose first block is still to be written.
LEMMA RowBegins ==
  ASSUME TypeInv, NEW c \in Cluster, SetFat(c, EOC), NEW w
  PROVE  Row(c, w, 1, c, c)'
<1>1. fat'[c] = EOC
  BY FatSet, Numbers DEF TypeInv
<1>2. Chain(c)' \subseteq {c}
  BY <1>1, ChainIsNext, Numbers
<1>3. PICK num \in [Cluster -> Nat] : num = [d \in Cluster |-> 1]
  OBVIOUS
<1> QED
  BY <1>1, <1>2, <1>3, Numbers DEF Row

LEMMA FilesBegin ==       \* what begins without a cluster
  ASSUME TypeInv, TypeInv', NEW own, NEW D, NEW depth, OwnInv(own, D, depth), Files,
         NEW k \in Calls,
         fat32_touch(k) \/ MoveWithoutCopy(k) \/ fat32_rm(k) \/ install_file(k)
  PROVE  Files'
<1>1. /\ pc = "idle" /\ pc' \in {"entry", "rm", "alloc"} /\ UNCHANGED <<fat, block, cwd, torn, misled>>
      /\ pc' = "entry" => job' = Job(k)
  BY DEF fat32_touch, MoveWithoutCopy, fat32_rm, install_file, Goes, MayBegin
<1>2. New = {} /\ New' = {} /\ ~BeingFreed
  BY <1>1, NoNew DEF New, BeingFreed
<1>3. Intact'
  BY <1>1, <1>2, IntactSame DEF Files
<1>4. pc' = "entry" => job'.size = 0
  BY <1>1, NewJob DEF TypeInv
<1>5. pc' \in {"rm", "alloc"} /\ job'.op = "install" => job'.left = job'.size
  <2>1. CASE MoveWithoutCopy(k) \/ fat32_rm(k)
    <3>1. job' = Job(k)
      BY <2>1 DEF MoveWithoutCopy, fat32_rm, Goes
    <3> QED
      BY <3>1, NewJob DEF TypeInv
  <2>2. CASE install_file(k)
    <3>1. PICK j : j = Job(k)
      OBVIOUS
    <3>2. job' = [j EXCEPT !.what = k.what, !.size = k.size, !.left = k.size]
      BY <2>2, <3>1 DEF install_file, Goes
    <3> QED
      BY <3>1, <3>2, NewJob DEF TypeInv, JobType
  <2>3. CASE fat32_touch(k)
    BY <2>3 DEF fat32_touch, Goes
  <2> QED
    BY <2>1, <2>2, <2>3
<1>6. Source' /\ Growing'
  BY <1>1, <1>4, <1>5 DEF Source, Growing
<1> QED
  BY <1>3, <1>6 DEF Files

LEMMA FilesEcho ==
  ASSUME TypeInv, TypeInv', NEW own, NEW D, NEW depth, OwnInv(own, D, depth), Files,
         NEW k \in Calls, fat32_echo(k)
  PROVE  Files'
<1>1. PICK c \in Cluster :
        /\ fat[c] = 0 /\ SetFat(c, EOC)
        /\ Goes("data", [Job(k) EXCEPT !.what = k.what, !.size = 1, !.left = 1,
                                       !.first = c, !.clus = c])
  BY DEF fat32_echo, FirstFree
<1>2. PICK j : j = Job(k)
  OBVIOUS
<1>3. job' = [j EXCEPT !.what = k.what, !.size = 1, !.left = 1, !.first = c, !.clus = c]
  BY <1>1, <1>2 DEF Goes
<1>4. pc = "idle" /\ pc' = "data" /\ UNCHANGED block /\ k.op = "echo"
  BY <1>1 DEF fat32_echo, MayBegin, Goes
<1>5. /\ job'.op = "echo" /\ job'.what = k.what /\ job'.size = 1 /\ job'.left = 1
      /\ job'.first = c /\ job'.clus = c
  BY <1>2, <1>3, <1>4, NewJob DEF TypeInv, JobType
<1>6. Intact'
  BY <1>1, <1>4, IntactTake DEF Files, New
<1>7. Row(c, k.what, 1, c, c)'
  BY <1>1, RowBegins
<1>8. Source' /\ Growing'
  BY <1>4, <1>5, <1>7 DEF Source, Growing, Copies
<1> QED
  BY <1>6, <1>8 DEF Files

LEMMA FilesMkdir ==
  ASSUME TypeInv, TypeInv', NEW own, NEW D, NEW depth, OwnInv(own, D, depth), Files,
         NEW k \in Calls, fat32_mkdir(k)
  PROVE  Files'
<1>1. PICK c \in Cluster :
        /\ fat[c] = 0 /\ SetFat(c, EOC)
        /\ Goes("entry", [Job(k) EXCEPT !.first = c, !.clus = c])
  BY DEF fat32_mkdir, FirstFree
<1>2. PICK j : j = Job(k)
  OBVIOUS
<1>3. job' = [j EXCEPT !.first = c, !.clus = c] /\ pc' = "entry"
  BY <1>1, <1>2 DEF Goes
<1>4. pc = "idle" /\ UNCHANGED block
  BY <1>1 DEF fat32_mkdir, MayBegin
<1>5. job'.size = 0
  BY <1>2, <1>3, NewJob DEF TypeInv, JobType
<1>6. Intact'
  BY <1>1, <1>3, <1>4, IntactTake DEF Files, New
<1>7. Source' /\ Growing'
  BY <1>3, <1>5 DEF Source, Growing
<1> QED
  BY <1>6, <1>7 DEF Files

-----------------------------------------------------------------------------
(***************************************************************************)
(* Reading: where a path leads, and the blocks of a file.                  *)
(***************************************************************************)
LEMMA LowestNumber ==
  ASSUME NEW Z, Z \subseteq Nat, Z # {}
  PROVE  \E x \in Z : \A y \in Z : ~(y < x)
<1> DEFINE R == {ss \in Nat \X Nat : ss[1] < ss[2]}
<1>1. IsWellFoundedOn(R, Nat)
  BY NatIsWellFounded
<1> HIDE DEF R
<1>2. PICK x \in Z : \A y \in Z : ~(<<y, x>> \in R)
  BY <1>1, WFMin, Zenon
<1> QED
  BY <1>2 DEF R

\* What a path leads to is in the tree.
LEMMA FoundInTree ==
  ASSUME TypeInv, NEW own, NEW D, NEW depth, OwnInv(own, D, depth), New = {},
         NEW p \in Path, NEW c \in Cluster, NEW s \in Slots, Finds(p, c, s)
  PROVE  <<c, s>> \in Entries
<1> USE DEF TypeInv
<1>1. PICK n \in Nat \ {0} : n = Len(p.parts)
  BY PathType
<1>2. PICK trail \in [1..n -> Cluster] :
        /\ trail[1] = Start(p)
        /\ \A i \in 1..(n - 1) :
             \E t \in Slots : /\ Matches(trail[i], p.parts[i], t)
                              /\ At(trail[i], t).dir
                              /\ trail[i + 1] = Subdir(At(trail[i], t))
        /\ c = trail[n]
  BY <1>1 DEF Finds
<1>3. \A i \in 1..n : p.parts[i] \in Names
  BY <1>1, PathType
<1>4. Start(p) \in Dirs
  <2>1. Root \in Dirs /\ cwd \in Dirs
    BY DirsIsComplete, InTheTree DEF Complete, OwnInv, Owned
  <2> QED
    BY <2>1 DEF Start
<1> DEFINE Z == {i \in 1..n : trail[i] \notin Dirs}
<1>5. Z = {}
  <2> SUFFICES ASSUME Z # {} PROVE FALSE
    OBVIOUS
  <2>1. PICK x \in Z : \A y \in Z : ~(y < x)
    <3>1. Z \subseteq Nat
      OBVIOUS
    <3> HIDE DEF Z
    <3> QED
      BY <3>1, LowestNumber
  <2>2. x - 1 \in 1..(n - 1) /\ x - 1 \notin Z
    BY <1>2, <1>4, <2>1
  <2>3. trail[x - 1] \in Dirs /\ (x - 1) + 1 = x
    BY <2>2
  <2>4. PICK t \in Slots : /\ Matches(trail[x - 1], p.parts[x - 1], t)
                           /\ At(trail[x - 1], t).dir
                           /\ trail[x] = Subdir(At(trail[x - 1], t))
    BY <1>2, <2>2, <2>3
  <2>5. block[trail[x - 1]].dir /\ At(trail[x - 1], t) # NoEntry
    BY <1>2, <1>3, <2>2, <2>4, MatchIsEntry
  <2>6. trail[x] \in Dirs
    BY <2>3, <2>4, <2>5, DirsIsComplete DEF Complete
  <2> QED
    BY <2>1, <2>6
<1>6. c \in Dirs
  BY <1>1, <1>2, <1>5
<1> QED
  BY <1>6, FoundIsEntry DEF Entries

LEMMA RowFirst ==
  ASSUME NEW f \in Cluster, NEW w, NEW n, NEW end, Row(f, w, n, end, 0)
  PROVE  block[f] = Blk(w, 1)
BY ChainIs, Numbers DEF Row

\* The row of a file, but for one that is being freed.
LEMMA FileHasRow ==
  ASSUME TypeInv, Intact, ~BeingFreed, NEW p \in Entries, NEW e, e = At(p[1], p[2]), IsFile(e)
  PROVE  \E end : Row(e.first, e.what, e.size, end, 0)
BY DEF Intact, FileOk

LEMMA BlocksDiffer ==
  ASSUME NEW w, NEW i, NEW j, Blk(w, i) = Blk(w, j)
  PROVE  i = j
<1>1. Blk(w, i).data[2] = i /\ Blk(w, j).data[2] = j
  BY DEF Blk
<1> QED
  BY <1>1

\* The block after block i of a file is its block i + 1.
LEMMA NextBlock ==
  ASSUME TypeInv, Intact, ~BeingFreed, NEW own, NEW D, NEW depth, OwnInv(own, D, depth),
         NEW p \in Entries, NEW w, NEW n, NEW c, NEW i \in Nat,
         HasBlock(p, w, n, c, i), i < n
  PROVE  fat[c] \in Cluster /\ HasBlock(p, w, n, fat[c], i + 1)
<1>1. PICK e : e = At(p[1], p[2])
  OBVIOUS
<1>2. IsFile(e) /\ e.what = w /\ e.size = n /\ block[c] = Blk(w, i) /\ c \in ChainOf(p)
  BY <1>1 DEF HasBlock
<1>3. e.first \in Cluster /\ e.first # 0 /\ e.size \in Nat
  BY <1>1, <1>2, EntryOwned, Numbers DEF IsFile, SizedEntries, TypeInv, Entry
<1>4. ChainOf(p) = Chain(e.first)
  BY <1>1, <1>3 DEF ChainOf
<1>5. PICK end : Row(e.first, w, n, end, 0)
  BY <1>1, <1>2, FileHasRow
<1>6. PICK num \in [Cluster -> Nat] :
        \A d \in Chain(e.first) :
          /\ d = 0 \/ block[d] = Blk(w, num[d])
          /\ IF d = end THEN fat[d] \notin Cluster /\ num[d] = n
                        ELSE fat[d] \in Cluster /\ num[fat[d]] = num[d] + 1
  BY <1>5 DEF Row
<1>7. c \in Cluster /\ c \in Chain(e.first)
  BY <1>2, <1>3, <1>4, ChainIs
<1>8. num[c] = i
  BY <1>2, <1>6, <1>7, Numbers, BlocksDiffer
<1>9. fat[c] \in Cluster /\ num[fat[c]] = i + 1
  BY <1>2, <1>3, <1>6, <1>7, <1>8
<1>10. fat[c] \in Chain(e.first)
  BY <1>3, <1>7, <1>9, ChainIs
<1>11. block[fat[c]] = Blk(w, i + 1)
  BY <1>6, <1>9, <1>10, Numbers
<1> QED
  BY <1>1, <1>2, <1>4, <1>9, <1>10, <1>11 DEF HasBlock

LEMMA HasBlockKept ==
  ASSUME TypeInv, TypeInv', NEW own, NEW D, NEW depth, OwnInv(own, D, depth),
         New = {}, New' = {}, \A d \in D : block'[d] = block[d],
         Spares(own, D), ~BeingFreed',
         NEW p \in Entries, NEW w, NEW n, NEW c, NEW i, HasBlock(p, w, n, c, i)
  PROVE  p \in Entries' /\ HasBlock(p, w, n, c, i)'
<1>1. Dirs \subseteq D
  BY TreeIsComplete DEF OwnInv
<1>2. p \in Entries' /\ At(p[1], p[2])' = At(p[1], p[2])
  BY <1>1, EntriesStay
<1>3. PICK e : e = At(p[1], p[2])
  OBVIOUS
<1>4. IsFile(e) /\ e.what = w /\ e.size = n /\ block[c] = Blk(w, i) /\ c \in ChainOf(p)
  BY <1>3 DEF HasBlock
<1>5. /\ e.first \in Cluster /\ own[e.first] = p /\ e.first # 0 /\ ~e.dir
      /\ p \notin {Nobody, Mine, Made, TheRoot}
  BY <1>3, <1>4, EntryOwned, Numbers DEF IsFile, SizedEntries, TypeInv
<1>6. ChainOf(p) = Chain(e.first)
  BY <1>3, <1>5 DEF ChainOf
<1>7. \A d \in Chain(e.first) : d \in Cluster /\ own[d] = p
  BY <1>5, ChainOwned DEF OwnInv
<1>8. \A d \in Chain(e.first) : fat'[d] = fat[d]
  BY <1>5, <1>7 DEF Spares
<1>9. Chain(e.first)' = Chain(e.first)
  BY <1>5, <1>8, ChainKept
<1>10. ChainOf(p)' = Chain(e.first)
  <2>1. ChainOf(p)' = Chain(e.first)'
    BY <1>2, <1>3, <1>5 DEF ChainOf
  <2> QED
    BY <1>9, <2>1
<1>11. block'[c] = block[c]
  <2>1. c \in Cluster /\ own[c] = p
    BY <1>4, <1>6, <1>7
  <2>2. c \notin D
    BY <1>3, <1>5, <2>1, DirIsNoFile
  <2>3. ~block[c].dir
    BY <1>4 DEF Blk
  <2> QED
    BY <1>5, <2>1, <2>2, <2>3 DEF Spares
<1> QED
  BY <1>2, <1>3, <1>4, <1>6, <1>10, <1>11 DEF HasBlock

-----------------------------------------------------------------------------
(***************************************************************************)
(* Writing files.                                                          *)
(***************************************************************************)
\* The block in the hole is written.
LEMMA RowFilled ==
  ASSUME NEW f \in Cluster, NEW w, NEW n, NEW c \in Cluster, Row(f, w, n, c, c),
         UNCHANGED fat, block'[c] = Blk(w, n), \A d \in Cluster \ {c} : block'[d] = block[d]
  PROVE  Row(f, w, n, c, 0)'
<1>1. Chain(f)' = Chain(f) /\ Chain(f) \subseteq Cluster
  BY ChainKept, ChainIs
<1>2. PICK num \in [Cluster -> Nat] :
        /\ num[f] = 1
        /\ \A d \in Chain(f) :
             /\ d = c \/ block[d] = Blk(w, num[d])
             /\ IF d = c THEN fat[d] \notin Cluster /\ num[d] = n
                         ELSE fat[d] \in Cluster /\ num[fat[d]] = num[d] + 1
  BY DEF Row
<1>3. \A d \in Chain(f) : block'[d] = Blk(w, num[d])
  BY <1>1, <1>2
<1> QED
  BY <1>1, <1>2, <1>3 DEF Row

\* A free cluster is linked behind the last one.
LEMMA RowGrows ==
  ASSUME NEW f \in Cluster, NEW w, NEW n \in Nat, NEW last \in Cluster, Row(f, w, n, last, 0),
         NEW c \in Cluster, c # last, fat[c] = 0,
         fat'[last] = c, \A d \in Cluster \ {last} : fat'[d] = fat[d], UNCHANGED block
  PROVE  Row(f, w, n + 1, c, c)'
<1>1. PICK num \in [Cluster -> Nat] :
        /\ num[f] = 1
        /\ \A d \in Chain(f) :
             /\ d = 0 \/ block[d] = Blk(w, num[d])
             /\ IF d = last THEN fat[d] \notin Cluster /\ num[d] = n
                            ELSE fat[d] \in Cluster /\ num[fat[d]] = num[d] + 1
  BY DEF Row
<1>2. c \notin Chain(f) /\ f \in Chain(f) /\ Chain(f) \subseteq Cluster
  BY <1>1, ChainIs, Numbers
<1>3. Chain(f)' \subseteq Chain(f) \cup {c}
  <2>1. PICK S \in SUBSET Cluster : S = Chain(f) \cup {c}
    BY <1>2
  <2>2. ASSUME NEW d \in S, fat'[d] \in Cluster PROVE fat'[d] \in S
    <3>1. CASE d = last
      BY <2>1, <3>1
    <3>2. CASE d # last
      <4>1. fat'[d] = fat[d] /\ d # c
        BY <2>2, <3>2, Numbers
      <4> QED
        BY <2>1, <2>2, <4>1, ChainIs
    <3> QED
      BY <3>1, <3>2
  <2> QED
    BY <1>2, <2>1, <2>2, ChainIsNext
<1>4. PICK num2 : num2 = [num EXCEPT ![c] = n + 1]
  OBVIOUS
<1>5. /\ num2 \in [Cluster -> Nat] /\ num2[c] = n + 1
      /\ \A d \in Cluster \ {c} : num2[d] = num[d]
  BY <1>4
<1>6. ASSUME NEW d \in Chain(f)'
      PROVE  /\ d = c \/ block'[d] = Blk(w, num2[d])
             /\ IF d = c THEN fat'[d] \notin Cluster /\ num2[d] = n + 1
                         ELSE fat'[d] \in Cluster /\ num2[fat'[d]] = num2[d] + 1
  <2>1. CASE d = c
    BY <1>5, <2>1, Numbers
  <2>2. CASE d # c
    <3>1. d \in Chain(f) /\ d \in Cluster /\ num2[d] = num[d] /\ d # 0
      BY <1>2, <1>3, <1>5, <2>2, Numbers
    <3>2. CASE d = last
      BY <1>1, <1>5, <2>2, <3>1, <3>2
    <3>3. CASE d # last
      <4>1. fat'[d] = fat[d] /\ fat[d] \in Cluster /\ num[fat[d]] = num[d] + 1
        BY <1>1, <3>1, <3>3
      <4>2. fat[d] # c
        BY <1>2, <3>1, <4>1, ChainIs
      <4> QED
        BY <1>1, <1>5, <2>2, <3>1, <4>1, <4>2
    <3> QED
      BY <3>2, <3>3
  <2> QED
    BY <2>1, <2>2
<1> QED
  BY <1>1, <1>2, <1>5, <1>6 DEF Row

\* And marked as the end.
LEMMA RowEnded ==
  ASSUME TypeInv, NEW f \in Cluster, NEW w, NEW n, NEW c \in Cluster, Row(f, w, n, c, c),
         SetFat(c, EOC), UNCHANGED block
  PROVE  Row(f, w, n, c, c)'
<1>1. fat'[c] = EOC /\ \A d \in Cluster \ {c} : fat'[d] = fat[d]
  BY FatSet, Numbers DEF TypeInv
<1>2. Chain(f)' \subseteq Chain(f)
  <2>1. Chain(f) \subseteq Cluster /\ f \in Chain(f)
    BY ChainIs
  <2>2. \A d \in Chain(f) : fat'[d] \in Cluster => fat'[d] \in Chain(f)
    BY <1>1, <2>1, ChainIs, Numbers
  <2> QED
    BY <2>1, <2>2, ChainIsNext
<1>3. Chain(f) \subseteq Cluster
  BY ChainIs
<1>4. PICK num \in [Cluster -> Nat] :
        /\ num[f] = 1
        /\ \A d \in Chain(f) :
             /\ d = c \/ block[d] = Blk(w, num[d])
             /\ IF d = c THEN fat[d] \notin Cluster /\ num[d] = n
                         ELSE fat[d] \in Cluster /\ num[fat[d]] = num[d] + 1
  BY DEF Row
<1>5. \A d \in Chain(f)' :
        /\ d = c \/ block'[d] = Blk(w, num[d])
        /\ IF d = c THEN fat'[d] \notin Cluster /\ num[d] = n
                    ELSE fat'[d] \in Cluster /\ num[fat'[d]] = num[d] + 1
  BY <1>1, <1>2, <1>3, <1>4, Numbers
<1> QED
  BY <1>4, <1>5 DEF Row

LEMMA FilesCopy ==
  ASSUME TypeInv, TypeInv', NEW own, NEW D, NEW depth, OwnInv(own, D, depth), Files,
         NEW k \in Calls, fat32_copy(k)
  PROVE  Files'
<1>1. PICK c \in Cluster, at \in Cluster, s \in Slots :
        /\ Finds(k.path, at, s) /\ ~At(at, s).dir
        /\ fat[c] = 0 /\ SetFat(c, EOC)
        /\ Goes(IF At(at, s).size > 0 THEN "data" ELSE "entry",
                [Job(k) EXCEPT !.what = At(at, s).what, !.size = At(at, s).size,
                               !.left = At(at, s).size, !.from = At(at, s).first,
                               !.first = c, !.clus = c])
  BY DEF fat32_copy, FirstFree
<1>2. PICK e : e = At(at, s)
  OBVIOUS
<1>3. PICK j : j = Job(k)
  OBVIOUS
<1>4. job' = [j EXCEPT !.what = e.what, !.size = e.size, !.left = e.size,
                       !.from = e.first, !.first = c, !.clus = c]
  BY <1>1, <1>2, <1>3 DEF Goes
<1>5. /\ pc = "idle" /\ pc' \in {"data", "entry"} /\ (pc' = "data" <=> e.size > 0)
      /\ UNCHANGED <<block, cwd>>
  BY <1>1, <1>2 DEF fat32_copy, MayBegin, Goes
<1>6. /\ job'.what = e.what /\ job'.size = e.size /\ job'.left = e.size
      /\ job'.first = c /\ job'.clus = c /\ job'.from = e.first
  BY <1>3, <1>4, NewJob DEF TypeInv, JobType
<1>7. New = {} /\ New' = {} /\ ~BeingFreed
  BY <1>5, NoNew DEF New, BeingFreed
<1>8. Intact'
  BY <1>1, <1>5, <1>7, IntactTake DEF Files
<1>9. e \in Entry /\ e.size \in Nat /\ e.what # "none" /\ e.size > 0 =>
        IsFile(e) /\ <<at, s>> \in Entries /\ e.first \in Cluster
  BY <1>1, <1>2, <1>7, CallType, FoundInTree, FoundIsEntry DEF IsFile, TypeInv, SizedEntries
<1>10. e \in Entry /\ e.size \in Nat
  BY <1>1, <1>2, CallType, FoundIsEntry DEF TypeInv, Entry
<1>11. ASSUME e.what # "none", e.size > 0
       PROVE  \E p \in Entries' : HasBlock(p, e.what, e.size, e.first, 1)'
  <2>1. PICK p \in Entries : p = <<at, s>> /\ e = At(p[1], p[2])
    BY <1>2, <1>9, <1>10, <1>11
  <2>2. p \in Entries' /\ At(p[1], p[2])' = At(p[1], p[2])
    BY <1>5, <1>7, EntriesStay
  <2>3. PICK end : Row(e.first, e.what, e.size, end, 0)
    BY <1>7, <1>9, <1>10, <1>11, <2>1, FileHasRow DEF Files
  <2>4. block'[e.first] = Blk(e.what, 1)
    BY <1>5, <1>9, <1>10, <1>11, <2>3, RowFirst
  <2>5. e.first \in Chain(e.first)'
    BY <1>9, <1>10, <1>11, ChainIsNext
  <2>6. e.first \in ChainOf(p)'
    BY <1>9, <1>10, <1>11, <2>1, <2>2, <2>5, Numbers DEF ChainOf
  <2>7. HasBlock(p, e.what, e.size, e.first, 1)'
    BY <1>9, <1>10, <1>11, <2>1, <2>2, <2>4, <2>6 DEF HasBlock
  <2> QED
    BY <2>2, <2>7
<1>12. Source'
  <2> SUFFICES ASSUME pc' = "data", e.what # "none"
               PROVE  \E p \in Entries' : HasBlock(p, e.what, e.size, e.first, e.size - e.size + 1)'
    BY <1>5, <1>6 DEF Source
  <2>1. e.size - e.size + 1 = 1
    BY <1>10
  <2> QED
    BY <1>5, <1>11, <2>1
<1>13. Row(c, e.what, 1, c, c)'
  BY <1>1, RowBegins
<1>14. Growing'
  <2>1. e.size - e.size + 1 = 1
    BY <1>10
  <2> QED
    BY <1>5, <1>6, <1>10, <1>13, <2>1 DEF Growing
<1> QED
  BY <1>8, <1>12, <1>14 DEF Files

LEMMA FilesFirstCluster ==
  ASSUME TypeInv, TypeInv', NEW own, NEW D, NEW depth, OwnInv(own, D, depth), Files, FirstCluster
  PROVE  Files'
<1>0. /\ pc = "alloc" /\ UNCHANGED <<block, cwd>> /\ job \in JobType
      /\ job.op = "install" /\ New = {} /\ ~BeingFreed
  BY NoNew DEF FirstCluster, TypeInv, TypeOK, Fits, BeingFreed
<1>1. CASE Finishes /\ UNCHANGED fat
  <2>1. pc' = "idle" /\ New' = {}
    BY <1>1 DEF Finishes, Goes, New
  <2>2. Intact'
    BY <1>0, <1>1, <2>1, IntactSame DEF Files
  <2>3. Source' /\ Growing'
    BY <2>1 DEF Source, Growing
  <2> QED
    BY <2>2, <2>3 DEF Files
<1>2. CASE ~(Finishes /\ UNCHANGED fat)
  <2>1. PICK c \in Cluster :
          fat[c] = 0 /\ SetFat(c, EOC) /\ Goes("data", [job EXCEPT !.first = c, !.clus = c])
    BY <1>2 DEF FirstCluster, FirstFree
  <2>2. /\ pc' = "data" /\ job'.first = c /\ job'.clus = c /\ job'.left = job.left
        /\ job'.what = job.what /\ job'.size = job.size /\ job'.op = "install"
    BY <1>0, <2>1 DEF Goes, JobType
  <2>3. Intact'
    BY <1>0, <2>1, <2>2, IntactTake DEF Files, New
  <2>4. PICK w, n : w = job.what /\ n = job.size /\ n \in Nat
    BY <1>0 DEF JobType
  <2>5. w # "none" /\ n > 0 => job.left = n
    BY <1>0, <2>4 DEF Files, Growing
  <2>6. Row(c, w, 1, c, c)' /\ n - n + 1 = 1
    BY <2>1, <2>4, RowBegins
  <2>7. Source' /\ Growing'
    BY <2>2, <2>4, <2>5, <2>6 DEF Source, Growing, Copies
  <2> QED
    BY <2>3, <2>7 DEF Files
<1> QED
  BY <1>1, <1>2

\* What a step of writing does outside the operation's own clusters: nothing.
LEMMA SparesMine ==
  ASSUME NEW own, NEW D, NEW c \in Cluster, own[c] \in {Nobody, Mine, Made},
         \A d \in Cluster \ {c} : fat'[d] = fat[d] /\ block'[d] = block[d]
  PROVE  Spares(own, D)
BY DEF Spares

LEMMA FilesWriteData ==
  ASSUME TypeInv, TypeInv', NEW own, NEW D, NEW depth, OwnInv(own, D, depth), Files, WriteData
  PROVE  Files'
<1>1. /\ pc = "data" /\ job \in JobType /\ UNCHANGED <<fat, cwd>>
      /\ pc' = (IF job.left > 1 THEN "link" ELSE "entry")
      /\ job' = [job EXCEPT !.left = job.left - 1,
                            !.from = IF Copies /\ job.left > 1 THEN fat[job.from] ELSE 0]
  BY DEF WriteData, Goes, TypeInv, TypeOK
<1>2. /\ job'.left = job.left - 1
      /\ job'.from = (IF Copies /\ job.left > 1 THEN fat[job.from] ELSE 0)
      /\ job'.first = job.first /\ job'.clus = job.clus /\ job'.op = job.op
      /\ job'.what = job.what /\ job'.size = job.size
  BY <1>1 DEF JobType
<1>3. PICK f, c, w, n, l, x :
        /\ f = job.first /\ c = job.clus /\ w = job.what /\ n = job.size /\ l = job.left
        /\ x = job.from
  OBVIOUS
<1>4. c \in Cluster /\ own[c] = Mine /\ c \notin D /\ n \in Nat /\ l \in Nat /\ l > 0 /\ l <= n
  BY <1>1, <1>3, MineIsNoDirectory DEF OwnInv, Running, TypeInv, Fits, JobType
<1>5. f \in Cluster
  BY <1>1, <1>3, <1>4 DEF TypeInv, Fits
<1>6. New = {} /\ New' = {} /\ ~BeingFreed /\ ~BeingFreed'
  BY <1>1, NoNew DEF New, BeingFreed
<1>7. PICK b : /\ b = IF Copies THEN block[x] ELSE Blk(w, n - l + 1)
               /\ block' = [block EXCEPT ![c] = b]
  BY <1>3 DEF WriteData, Blk
<1>8. block'[c] = b /\ \A d \in Cluster \ {c} : block'[d] = block[d]
  BY <1>4, <1>7 DEF TypeInv, TypeOK
<1>9. \A d \in D : block'[d] = block[d]
  BY <1>4, <1>8 DEF OwnInv, Owned
<1>10. Spares(own, D)
  BY <1>1, <1>4, <1>8, SparesMine
<1>11. Intact'
  BY <1>6, <1>9, <1>10, IntactQuiet DEF Files
<1>12. ASSUME Copies, w # "none"
       PROVE  \E p \in Entries : HasBlock(p, w, n, x, n - l + 1)
  BY <1>1, <1>3, <1>12 DEF Files, Source
<1>13. w # "none" => b = Blk(w, n - l + 1)
  BY <1>7, <1>12 DEF HasBlock
<1>14. Growing'
  <2> SUFFICES ASSUME w # "none" PROVE Growing'
    BY <1>2, <1>3 DEF Growing
  <2>1. Row(f, w, n - l + 1, c, c)
    BY <1>1, <1>3, <1>4 DEF Files, Growing
  <2>2. Row(f, w, n - l + 1, c, 0)'
    BY <1>1, <1>4, <1>5, <1>8, <1>13, <2>1, RowFilled
  <2>3. n - (l - 1) = n - l + 1
    BY <1>4
  <2>4. CASE l > 1
    BY <1>1, <1>2, <1>3, <2>2, <2>3, <2>4 DEF Growing
  <2>5. CASE ~(l > 1)
    <3>1. n - l + 1 = n
      BY <1>4, <2>5
    <3> QED
      BY <1>1, <1>2, <1>3, <2>2, <2>5, <3>1 DEF Growing
  <2> QED
    BY <2>4, <2>5
<1>15. Source'
  <2> SUFFICES ASSUME Copies, w # "none", l > 1
               PROVE  \E p \in Entries' : HasBlock(p, w, n, fat[x], n - (l - 1) + 1)'
    BY <1>1, <1>2, <1>3 DEF Source, Copies
  <2>1. PICK p \in Entries : HasBlock(p, w, n, x, n - l + 1)
    BY <1>12
  <2>2. PICK i \in Nat : i = n - l + 1 /\ i < n
    BY <1>4
  <2>3. PICK y : y = fat[x]
    OBVIOUS
  <2>4. HasBlock(p, w, n, y, i + 1)
    BY <1>6, <2>1, <2>2, <2>3, NextBlock DEF Files
  <2>5. p \in Entries' /\ HasBlock(p, w, n, y, i + 1)'
    BY <1>6, <1>9, <1>10, <2>4, HasBlockKept
  <2>6. i + 1 = n - (l - 1) + 1
    BY <1>4, <2>2
  <2> QED
    BY <1>1, <2>3, <2>5, <2>6
<1> QED
  BY <1>11, <1>14, <1>15 DEF Files

LEMMA FilesLinkNext ==
  ASSUME TypeInv, TypeInv', NEW own, NEW D, NEW depth, OwnInv(own, D, depth), Files, LinkNext
  PROVE  Files'
<1>1. /\ pc = "link" /\ pc' = "extend" /\ job' = job /\ UNCHANGED <<block, cwd>>
      /\ job \in JobType
  BY DEF LinkNext, Goes, TypeInv, TypeOK
<1>2. PICK f, last, w, n, l, x :
        /\ f = job.first /\ last = job.clus /\ w = job.what /\ n = job.size /\ l = job.left
        /\ x = job.from
  OBVIOUS
<1>3. PICK c \in Cluster : fat[c] = 0 /\ SetFat(last, c)
  BY <1>2 DEF LinkNext, FirstFree
<1>4. /\ last \in Cluster /\ own[last] = Mine /\ n \in Nat /\ l \in Nat /\ l > 0 /\ l <= n
      /\ f \in Cluster
  BY <1>1, <1>2 DEF OwnInv, Running, TypeInv, Fits, JobType
<1>5. New = {} /\ New' = {} /\ ~BeingFreed /\ ~BeingFreed'
  BY <1>1, NoNew DEF New, BeingFreed
<1>6. c # last
  BY <1>1, <1>3, <1>4, <1>5, FreeIsNobodys, Owners
<1>7. fat'[last] = c /\ \A d \in Cluster \ {last} : fat'[d] = fat[d]
  BY <1>3, <1>4, FatSet, Numbers DEF TypeInv
<1>8. Spares(own, D)
  BY <1>1, <1>4, <1>7, SparesMine
<1>9. \A d \in D : block'[d] = block[d]
  BY <1>1
<1>10. Intact'
  BY <1>5, <1>8, <1>9, IntactQuiet DEF Files
<1>11. Growing'
  <2> SUFFICES ASSUME w # "none" PROVE Row(f, w, n - l + 1, c, c)'
    BY <1>1, <1>2, <1>7 DEF Growing
  <2>1. Row(f, w, n - l, last, 0) /\ n - l \in Nat
    BY <1>1, <1>2, <1>4 DEF Files, Growing
  <2> QED
    BY <1>1, <1>3, <1>4, <1>6, <1>7, <2>1, RowGrows
<1>12. Source'
  <2> SUFFICES ASSUME Copies, w # "none"
               PROVE  \E p \in Entries' : HasBlock(p, w, n, x, n - l + 1)'
    BY <1>1, <1>2 DEF Source, Copies
  <2>1. PICK p \in Entries : HasBlock(p, w, n, x, n - l + 1)
    BY <1>1, <1>2 DEF Files, Source
  <2>2. p \in Entries' /\ HasBlock(p, w, n, x, n - l + 1)'
    BY <1>5, <1>8, <1>9, <2>1, HasBlockKept
  <2> QED
    BY <2>2
<1> QED
  BY <1>10, <1>11, <1>12 DEF Files

LEMMA FilesEndNext ==
  ASSUME TypeInv, TypeInv', NEW own, NEW D, NEW depth, OwnInv(own, D, depth), Files, EndNext
  PROVE  Files'
<1>1. PICK c \in Cluster : c = fat[job.clus]
  BY DEF EndNext, TypeInv, Fits
<1>2. /\ pc = "extend" /\ UNCHANGED <<block, cwd>> /\ SetFat(c, EOC) /\ job \in JobType
      /\ pc' = (IF Copies /\ job.from \notin Cluster THEN "entry" ELSE "data")
      /\ job' = [job EXCEPT !.clus = c]
  BY <1>1 DEF EndNext, Goes, TypeInv, TypeOK
<1>3. /\ job'.clus = c /\ job'.left = job.left /\ job'.from = job.from
      /\ job'.first = job.first /\ job'.op = job.op
      /\ job'.what = job.what /\ job'.size = job.size
  BY <1>2 DEF JobType
<1>4. PICK f, w, n, l, x :
        /\ f = job.first /\ w = job.what /\ n = job.size /\ l = job.left /\ x = job.from
  OBVIOUS
<1>5. n \in Nat /\ l \in Nat /\ l > 0 /\ l <= n /\ f \in Cluster /\ own[c] = Mine
  BY <1>1, <1>2, <1>4, Owners DEF OwnInv, Links, Running, TypeInv, Fits, JobType
<1>6. New = {} /\ New' = {} /\ ~BeingFreed /\ ~BeingFreed'
  BY <1>2, NoNew DEF New, BeingFreed
<1>7. \A d \in Cluster \ {c} : fat'[d] = fat[d]
  BY <1>2, FatSet, Numbers DEF TypeInv
<1>8. Spares(own, D)
  BY <1>2, <1>5, <1>7, SparesMine
<1>9. \A d \in D : block'[d] = block[d]
  BY <1>2
<1>10. Intact'
  BY <1>6, <1>8, <1>9, IntactQuiet DEF Files
<1>11. ASSUME Copies, w # "none"
       PROVE  /\ x \in Cluster
              /\ \E p \in Entries' : HasBlock(p, w, n, x, n - l + 1)'
  <2>1. PICK p \in Entries : HasBlock(p, w, n, x, n - l + 1)
    BY <1>2, <1>4, <1>11 DEF Files, Source
  <2>2. p \in Entries' /\ HasBlock(p, w, n, x, n - l + 1)'
    BY <1>6, <1>8, <1>9, <2>1, HasBlockKept
  <2>3. x \in Cluster
    BY <2>1, EntryOwned DEF HasBlock
  <2> QED
    BY <2>2, <2>3
<1>12. Source'
  BY <1>2, <1>3, <1>4, <1>11 DEF Source, Copies
<1>13. Growing'
  <2> SUFFICES ASSUME w # "none" PROVE pc' = "data" /\ Row(f, w, n - l + 1, c, c)'
    BY <1>3, <1>4 DEF Growing
  <2>1. Row(f, w, n - l + 1, c, c)
    BY <1>1, <1>2, <1>4, <1>5 DEF Files, Growing
  <2>2. Row(f, w, n - l + 1, c, c)'
    BY <1>2, <1>5, <2>1, RowEnded
  <2> QED
    BY <1>2, <1>4, <1>11, <2>2
<1> QED
  BY <1>10, <1>12, <1>13 DEF Files

LEMMA FilesDiskFullAtLink ==
  ASSUME TypeInv, TypeInv', NEW own, NEW D, NEW depth, OwnInv(own, D, depth), Files,
         DiskFullAtLink
  PROVE  Files'
<1>1. /\ pc = "link" /\ pc' \in {"entry", "idle"} /\ UNCHANGED <<fat, block, cwd>>
      /\ pc' = "entry" => job'.what = "none"
  BY DEF DiskFullAtLink, Goes, Finishes, TypeInv, TypeOK, JobType
<1>2. New = {} /\ New' = {} /\ ~BeingFreed
  BY <1>1, NoNew DEF New, BeingFreed
<1>3. Intact'
  BY <1>1, <1>2, IntactSame DEF Files
<1>4. Source' /\ Growing'
  BY <1>1 DEF Source, Growing
<1> QED
  BY <1>3, <1>4 DEF Files

-----------------------------------------------------------------------------
(***************************************************************************)
(* Writing directories.                                                    *)
(***************************************************************************)
\* The file that is written, and waits for its entry, stays as it is.
LEMMA RowWaits ==
  ASSUME TypeInv, NEW own, NEW D, NEW depth, OwnInv(own, D, depth), Growing,
         pc \in {"entry", "parent", "parentdots"},
         \A c \in Cluster : own[c] = Mine =>
           fat'[c] = fat[c] /\ (block'[c] = block[c] \/ block[c].dir),
         NEW f, NEW w, NEW n, f = job.first, w = job.what, n = job.size, w # "none", n > 0
  PROVE  \E end : Row(f, w, n, end, 0)'
<1>1. f \in Cluster /\ own[f] = Mine
  BY Numbers DEF TypeInv, Fits, OwnInv, Running
<1>2. PICK end : Row(f, w, n, end, 0)
  BY DEF Growing
<1>3. \A c \in Chain(f) : c \in Cluster /\ own[c] = Mine /\ ~block[c].dir
  BY <1>1, <1>2, ChainOwned, Owners, Numbers, RowIsNoDirectory DEF OwnInv
<1> QED
  BY <1>1, <1>2, <1>3, RowKept

LEMMA FilesEnterDirectory ==
  ASSUME TypeInv, TypeInv', NEW own, NEW D, NEW depth, OwnInv(own, D, depth), Files,
         EnterDirectory
  PROVE  Files'
<1>1. pc = "entry" /\ pc' = "entry" /\ UNCHANGED <<fat, block, cwd>> /\ job \in JobType
  BY DEF EnterDirectory, Goes, TypeInv, TypeOK
<1>2. PICK d, r : job' = [job EXCEPT !.dir = d, !.rest = r]
  BY DEF EnterDirectory, Goes
<1>3. job'.first = job.first /\ job'.what = job.what /\ job'.size = job.size
  BY <1>1, <1>2 DEF JobType
<1>4. New = {} /\ New' = {} /\ ~BeingFreed
  BY <1>1, NoNew DEF New, BeingFreed
<1>5. Intact'
  BY <1>1, <1>4, IntactSame DEF Files
<1>6. PICK f, w, n : f = job.first /\ w = job.what /\ n = job.size
  OBVIOUS
<1>7. w # "none" /\ n > 0 => \E end : Row(f, w, n, end, 0)'
  BY <1>1, <1>6, RowWaits DEF Files
<1>8. Source' /\ Growing'
  BY <1>1, <1>3, <1>6, <1>7 DEF Source, Growing
<1> QED
  BY <1>5, <1>8 DEF Files

LEMMA FilesMakeParent ==
  ASSUME TypeInv, TypeInv', NEW own, NEW D, NEW depth, OwnInv(own, D, depth), Files, MakeParent
  PROVE  Files'
<1>1. /\ pc = "entry" /\ UNCHANGED <<block, cwd>> /\ job \in JobType
      /\ New = {} /\ ~BeingFreed
  BY NoNew DEF MakeParent, MissingParent, TypeInv, TypeOK, BeingFreed
<1>2. CASE AfterEntry /\ UNCHANGED fat
  <2>1. pc' \in {"dots", "rm", "idle"} /\ (pc' = "rm" => job' = job /\ job.op = "mv")
    BY <1>1, <1>2 DEF AfterEntry, Goes, Finishes
  <2>2. Intact'
    BY <1>1, <1>2, IntactSame DEF Files
  <2>3. Source' /\ Growing'
    BY <2>1 DEF Source, Growing
  <2> QED
    BY <2>2, <2>3 DEF Files
<1>3. CASE ~(AfterEntry /\ UNCHANGED fat)
  <2>1. PICK c \in Cluster :
          fat[c] = 0 /\ SetFat(c, EOC) /\ Goes("parent", [job EXCEPT !.made = c])
    BY <1>3 DEF MakeParent, FirstFree
  <2>2. pc' = "parent" /\ job'.first = job.first /\ job'.what = job.what /\ job'.size = job.size
    BY <1>1, <2>1 DEF Goes, JobType
  <2>3. Intact'
    BY <1>1, <2>1, <2>2, IntactTake DEF Files, New
  <2>4. own[c] = Nobody /\ \A d \in Cluster \ {c} : fat'[d] = fat[d]
    BY <1>1, <2>1, FreeIsNobodys, FatSet, Numbers DEF TypeInv
  <2>5. PICK f, w, n : f = job.first /\ w = job.what /\ n = job.size
    OBVIOUS
  <2>6. w # "none" /\ n > 0 => \E end : Row(f, w, n, end, 0)'
    BY <1>1, <2>4, <2>5, Owners, RowWaits DEF Files
  <2>7. Source' /\ Growing'
    BY <2>2, <2>5, <2>6 DEF Source, Growing
  <2> QED
    BY <2>3, <2>7 DEF Files
<1> QED
  BY <1>2, <1>3

\* An entry is written.
LEMMA IntactSlot ==
  ASSUME TypeInv, TypeInv', NEW own, NEW D, NEW depth, OwnInv(own, D, depth), Intact,
         New = {}, ~BeingFreed, UNCHANGED fat,
         NEW d \in Cluster, block[d].dir, NEW s \in Slots, NEW e \in Entry, SetSlot(d, s, e),
         e.dir => Subdir(e) \in New',
         IsFile(e) => \E end : Row(e.first, e.what, e.size, end, 0)'
  PROVE  Intact'
<1>1. /\ \A x \in Cluster \ {d} : block'[x] = block[x]
      /\ block'[d].dir
      /\ At(d, s)' = e
      /\ \A t \in Slots \ {s} : At(d, t)' = At(d, t)
  BY SlotSet DEF TypeInv, At
<1>2. PICK new : new = <<d, s>>
  OBVIOUS
<1>3. ComesFrom(new)
  <2> SUFFICES ASSUME NEW x \in Dirs \ New', NEW t \in Slots, block'[x].dir, At(x, t)' # NoEntry
               PROVE  \/ <<x, t>> = new /\ (At(x, t)'.dir => Subdir(At(x, t)') \in New')
                      \/ x \notin New /\ block[x].dir /\ At(x, t)' = At(x, t)
    BY DEF ComesFrom
  <2>1. CASE x = d /\ t = s
    BY <1>1, <1>2, <2>1
  <2>2. CASE ~(x = d /\ t = s)
    BY <1>1, <2>2, DirsIsLeast DEF At
  <2> QED
    BY <2>1, <2>2
<1>4. FileOk(new)'
  <2>1. At(new[1], new[2])' = e
    BY <1>1, <1>2
  <2> QED
    BY <2>1 DEF FileOk
<1>5. Spares(own, D)
  BY <1>1 DEF Spares
<1> QED
  BY <1>3, <1>4, <1>5, IntactKept

LEMMA FilesParentEntry ==
  ASSUME TypeInv, TypeInv', NEW own, NEW D, NEW depth, OwnInv(own, D, depth), Files, ParentEntry
  PROVE  Files'
<1>1. /\ pc = "parent" /\ pc' = "parentdots" /\ job' = job /\ UNCHANGED <<fat, cwd>>
      /\ job \in JobType /\ job.dir \in Cluster /\ job.made \in Cluster /\ job.rest # <<>>
  BY DEF ParentEntry, Goes, TypeInv, TypeOK, Fits, JobType
<1>2. New = {} /\ New' = {job.made} /\ ~BeingFreed
  BY <1>1, NoNew DEF New, BeingFreed
<1>4. ASSUME NEW s \in Slots, FreeSlot(job.dir, s),
             SetSlot(job.dir, s, [name |-> Head(job.rest), dir |-> TRUE,
                                  first |-> job.made, size |-> 0, what |-> "none"])
      PROVE  Intact' /\ \A c \in Cluster : block'[c] = block[c] \/ block[c].dir
  <2>1. PICK e : e = [name |-> Head(job.rest), dir |-> TRUE,
                      first |-> job.made, size |-> 0, what |-> "none"]
    OBVIOUS
  <2>2. e \in Entry /\ e.dir /\ e.first = job.made /\ e.first # 0
    BY <1>1, <2>1, RestIsNames, Numbers DEF Entry, TypeInv
  <2>3. block[job.dir].dir /\ SetSlot(job.dir, s, e)
    BY <1>4, <2>1 DEF FreeSlot
  <2>4. \A c \in Cluster \ {job.dir} : block'[c] = block[c]
    BY <1>1, <2>2, <2>3, SlotSet DEF TypeInv
  <2>5. Intact'
    BY <1>1, <1>2, <2>2, <2>3, IntactSlot DEF Files, Subdir, IsFile
  <2> QED
    BY <2>3, <2>4, <2>5
<1>5. Intact' /\ \A c \in Cluster : block'[c] = block[c] \/ block[c].dir
  <2>1. CASE UNCHANGED block
    BY <1>1, <1>2, <2>1, IntactSame DEF Files
  <2> QED
    BY <1>4, <2>1 DEF ParentEntry
<1>6. PICK f, w, n : f = job.first /\ w = job.what /\ n = job.size
  OBVIOUS
<1>7. w # "none" /\ n > 0 => \E end : Row(f, w, n, end, 0)'
  BY <1>1, <1>5, <1>6, RowWaits DEF Files
<1>8. Source' /\ Growing'
  BY <1>1, <1>6, <1>7 DEF Source, Growing
<1> QED
  BY <1>5, <1>8 DEF Files

\* A directory gets its "." and "..".
LEMMA IntactDots ==
  ASSUME TypeInv, TypeInv', NEW own, NEW D, NEW depth, OwnInv(own, D, depth), Intact,
         ~BeingFreed, UNCHANGED fat, NEW x \in Cluster, New = {x}, NEW up \in Cluster,
         block' = [block EXCEPT ![x] = NewDir(up)], x \in D \/ own[x] \in {Mine, Made}
  PROVE  Intact'
<1>1. PICK b \in Block : b = NewDir(up) /\ \A s \in Slots : b.at.slot[s] = NoEntry
  BY NewDirIsBlock
<1>2. block'[x] = b /\ \A d \in Cluster \ {x} : block'[d] = block[d]
  BY <1>1, BlockSet DEF TypeInv
<1>3. ComesFrom(Nobody)
  BY <1>1, <1>2, DirsIsLeast DEF ComesFrom, At
<1>4. Spares(own, D)
  BY <1>2 DEF Spares
<1> QED
  BY <1>3, <1>4, NobodyIsNoEntry, IntactKept

LEMMA FilesParentDots ==
  ASSUME TypeInv, TypeInv', NEW own, NEW D, NEW depth, OwnInv(own, D, depth), Files, ParentDots
  PROVE  Files'
<1>1. /\ pc = "parentdots" /\ pc' = "entry" /\ UNCHANGED <<fat, cwd>>
      /\ job \in JobType /\ job.dir \in Cluster /\ job.made \in Cluster
      /\ block' = [block EXCEPT ![job.made] = NewDir(job.dir)]
  BY DEF ParentDots, Goes, TypeInv, TypeOK, Fits, JobType
<1>2. job'.first = job.first /\ job'.what = job.what /\ job'.size = job.size
  <2>1. PICK c, r : job' = [job EXCEPT !.dir = c, !.made = 0, !.rest = r]
    BY DEF ParentDots, Goes
  <2> QED
    BY <1>1, <2>1 DEF JobType
<1>3. New = {job.made} /\ ~BeingFreed
  BY <1>1 DEF New, BeingFreed
<1>4. job.made \in D \/ own[job.made] = Made
  BY <1>1 DEF OwnInv, Running
<1>5. Intact'
  BY <1>1, <1>3, <1>4, IntactDots DEF Files
<1>6. \A c \in Cluster : own[c] = Mine => block'[c] = block[c]
  <2>1. own[job.made] # Mine
    BY <1>4, MineIsNoDirectory, Owners
  <2> QED
    BY <1>1, <2>1 DEF TypeInv, TypeOK
<1>7. PICK f, w, n : f = job.first /\ w = job.what /\ n = job.size
  OBVIOUS
<1>8. w # "none" /\ n > 0 => \E end : Row(f, w, n, end, 0)'
  BY <1>1, <1>6, <1>7, RowWaits DEF Files
<1>9. Source' /\ Growing'
  BY <1>1, <1>2, <1>7, <1>8 DEF Source, Growing
<1> QED
  BY <1>5, <1>9 DEF Files

LEMMA FilesWriteDots ==
  ASSUME TypeInv, TypeInv', NEW own, NEW D, NEW depth, OwnInv(own, D, depth), Files, WriteDots
  PROVE  Files'
<1>1. /\ pc = "dots" /\ pc' = "idle" /\ UNCHANGED <<fat, cwd>>
      /\ job.clus \in Cluster /\ cwd \in Cluster
      /\ block' = [block EXCEPT ![job.clus] = NewDir(cwd)]
  BY DEF WriteDots, Finishes, Goes, TypeInv, TypeOK, Fits
<1>2. New = {job.clus} /\ ~BeingFreed /\ (job.clus \in D \/ own[job.clus] = Mine)
  BY <1>1 DEF New, BeingFreed, OwnInv, Running
<1>3. Intact'
  BY <1>1, <1>2, IntactDots DEF Files
<1>4. Source' /\ Growing'
  BY <1>1 DEF Source, Growing
<1> QED
  BY <1>3, <1>4 DEF Files

LEMMA FilesWriteEntry ==
  ASSUME TypeInv, TypeInv', NEW own, NEW D, NEW depth, OwnInv(own, D, depth), Files, WriteEntry
  PROVE  Files'
<1>1. /\ pc = "entry" /\ AfterEntry /\ UNCHANGED <<fat, cwd>>
      /\ job \in JobType /\ job.dir \in Cluster /\ job.rest # <<>>
  BY DEF WriteEntry, TypeInv, TypeOK, JobType
<1>2. job.op = "mkdir" => job.first = job.clus /\ job.clus \in Cluster
  BY <1>1 DEF OwnInv, Running, TypeInv, Fits
<1>3. New = {} /\ ~BeingFreed
  BY <1>1, NoNew DEF BeingFreed
<1>4. /\ pc' \in {"dots", "rm", "idle"} /\ (job.op = "mkdir" <=> pc' = "dots")
      /\ pc' # "idle" => job' = job
      /\ pc' = "rm" => job.op = "mv"
  BY <1>1 DEF AfterEntry, Goes, Finishes
<1>5. ASSUME NEW s \in Slots, FreeSlot(job.dir, s),
             SetSlot(job.dir, s,
                     [name |-> Head(job.rest), dir |-> job.op = "mkdir",
                      first |-> job.first, size |-> job.size, what |-> job.what])
      PROVE  Intact'
  <2>1. PICK x \in BOOLEAN : x = (job.op = "mkdir")
    OBVIOUS
  <2>2. PICK e : e = [name |-> Head(job.rest), dir |-> x,
                      first |-> job.first, size |-> job.size, what |-> job.what]
    OBVIOUS
  <2>3. /\ e \in Entry /\ e.first = job.first /\ e.dir = x
        /\ e.what = job.what /\ e.size = job.size
    BY <1>1, <2>2, RestIsNames DEF Entry, JobType, TypeInv
  <2>4. block[job.dir].dir /\ SetSlot(job.dir, s, e)
    BY <1>5, <2>1, <2>2 DEF FreeSlot
  <2>5. e.dir => Subdir(e) \in New'
    BY <1>2, <1>4, <2>1, <2>3, Numbers DEF New, Subdir
  <2>6. \A c \in Cluster : block'[c] = block[c] \/ block[c].dir
    BY <1>1, <2>3, <2>4, SlotSet DEF TypeInv
  <2>7. IsFile(e) => \E end : Row(e.first, e.what, e.size, end, 0)'
    BY <1>1, <2>3, <2>6, RowWaits DEF Files, IsFile
  <2> QED
    BY <1>1, <1>3, <2>3, <2>4, <2>5, <2>7, IntactSlot DEF Files
<1>6. ASSUME UNCHANGED block PROVE Intact'
  <2>1. UNCHANGED <<fat, block>>
    BY <1>1, <1>6
  <2> QED
    BY <1>3, <2>1, IntactSame DEF Files
<1>7. Intact'
  <2>1. CASE UNCHANGED block
    BY <1>6, <2>1
  <2>2. CASE ~UNCHANGED block
    BY <1>5, <2>2 DEF WriteEntry
  <2> QED
    BY <2>1, <2>2
<1>8. Source' /\ Growing'
  BY <1>4 DEF Source, Growing
<1> QED
  BY <1>7, <1>8 DEF Files

-----------------------------------------------------------------------------
(***************************************************************************)
(* Removing.                                                               *)
(***************************************************************************)
\* An installation keeps its size while the old file goes.
LEMMA GrowingAfterRemoval ==
  ASSUME TypeInv, Growing, pc \in {"rm", "free", "unlink"}, AfterRemoval
  PROVE  pc' \in {"alloc", "idle"} /\ Source' /\ Growing'
<1>1. CASE Finishes
  BY <1>1 DEF Finishes, Goes, Source, Growing
<1>2. CASE ~Finishes
  <2>1. pc' = "alloc" /\ job.op = "install" /\ job' = [job EXCEPT !.slot = 0, !.clus = 0]
    BY <1>2 DEF AfterRemoval, Goes
  <2>2. job'.op = job.op /\ job'.what = job.what /\ job'.size = job.size /\ job'.left = job.left
    BY <2>1 DEF TypeInv, TypeOK, JobType
  <2> QED
    BY <2>1, <2>2 DEF Source, Growing
<1> QED
  BY <1>1, <1>2

LEMMA FilesRemovalStarts ==
  ASSUME TypeInv, TypeInv', NEW own, NEW D, NEW depth, OwnInv(own, D, depth), Files,
         RemovalStarts
  PROVE  Files'
<1>1. PICK s, c :
        /\ pc = "rm" /\ pc' \in {"unlink", "free"} /\ UNCHANGED <<fat, block, cwd>>
        /\ job' = [job EXCEPT !.slot = s, !.clus = c]
  BY DEF RemovalStarts, Goes
<1>2. job'.op = job.op /\ job'.what = job.what /\ job'.size = job.size /\ job'.left = job.left
  BY <1>1 DEF TypeInv, TypeOK, JobType
<1>3. New = {} /\ ~BeingFreed
  BY <1>1, NoNew DEF BeingFreed
<1>4. Intact'
  BY <1>1, <1>3, IntactSame DEF Files
<1>5. Source' /\ Growing'
  BY <1>1, <1>2 DEF Files, Source, Growing
<1> QED
  BY <1>4, <1>5 DEF Files

LEMMA FilesNothingToRemove ==
  ASSUME TypeInv, TypeInv', NEW own, NEW D, NEW depth, OwnInv(own, D, depth), Files,
         NothingToRemove
  PROVE  Files'
<1>1. pc = "rm" /\ AfterRemoval /\ UNCHANGED <<fat, block>>
  BY DEF NothingToRemove
<1>2. New = {} /\ ~BeingFreed
  BY <1>1, NoNew DEF BeingFreed
<1>3. Intact'
  BY <1>1, <1>2, IntactSame DEF Files
<1>4. Source' /\ Growing'
  BY <1>1, GrowingAfterRemoval DEF Files
<1> QED
  BY <1>3, <1>4 DEF Files

LEMMA FilesFreeCluster ==
  ASSUME TypeInv, TypeInv', NEW own, NEW D, NEW depth, OwnInv(own, D, depth), Files, FreeCluster
  PROVE  Files'
<1>1. /\ pc = "free" /\ pc' \in {"free", "unlink"} /\ UNCHANGED <<block, cwd>>
      /\ job.clus \in Cluster /\ own[job.clus] = Removed
      /\ \A c \in Cluster \ {job.clus} : fat'[c] = fat[c]
      /\ BeingFreed' /\ Removed' = Removed
  BY FreeingGoesOn
<1>2. PICK d : job' = [job EXCEPT !.clus = d]
  BY DEF FreeCluster, Goes
<1>3. job'.op = job.op /\ job'.what = job.what /\ job'.size = job.size /\ job'.left = job.left
  BY <1>2 DEF TypeInv, TypeOK, JobType
<1>4. Spares(own, D)
  BY <1>1 DEF Spares
<1>5. New = {} /\ \A x \in D : block'[x] = block[x]
  BY <1>1, NoNew
<1>6. Intact'
  BY <1>1, <1>4, <1>5, IntactQuiet DEF Files
<1>7. Source' /\ Growing'
  BY <1>1, <1>3 DEF Files, Source, Growing
<1> QED
  BY <1>6, <1>7 DEF Files

LEMMA FilesUnlink ==
  ASSUME TypeInv, TypeInv', NEW own, NEW D, NEW depth, OwnInv(own, D, depth), Files, Unlink
  PROVE  Files'
<1>1. /\ pc = "unlink" /\ AfterRemoval /\ UNCHANGED fat /\ cwd \in Cluster
      /\ block[cwd].dir /\ job.slot \in Slots /\ SetSlot(cwd, job.slot, NoEntry)
  BY DEF Unlink, TypeInv, TypeOK, Fits
<1>2. New = {}
  BY <1>1, NoNew
<1>3. /\ \A d \in Cluster \ {cwd} : block'[d] = block[d]
      /\ At(cwd, job.slot)' = block'[cwd'].at.slot[job'.slot]
      /\ block'[cwd].at.slot[job.slot] = NoEntry
      /\ \A t \in Slots \ {job.slot} : block'[cwd].at.slot[t] = block[cwd].at.slot[t]
  BY <1>1, SlotSet DEF TypeInv, At
<1>4. ComesFrom(Nobody)
  <2> SUFFICES ASSUME NEW d \in Dirs \ New', NEW s \in Slots, block'[d].dir, At(d, s)' # NoEntry
               PROVE  block[d].dir /\ At(d, s)' = At(d, s)
    BY <1>2 DEF ComesFrom
  <2>1. CASE d = cwd
    BY <1>1, <1>3, <2>1 DEF At
  <2>2. CASE d # cwd
    BY <1>3, <2>2, DirsIsLeast DEF At
  <2> QED
    BY <2>1, <2>2
<1>5. Spares(own, D)
  BY <1>1, <1>3 DEF Spares
<1>6. Removed \notin Entries'
  BY <1>3 DEF Removed, Entries, At
<1>7. Intact'
  BY <1>4, <1>5, <1>6, NobodyIsNoEntry, IntactKept DEF Files
<1>8. Source' /\ Growing'
  BY <1>1, GrowingAfterRemoval DEF Files
<1> QED
  BY <1>7, <1>8 DEF Files

-----------------------------------------------------------------------------
LEMMA FilesElsewhere ==   \* cd, the loss of power
  ASSUME TypeInv, TypeInv', NEW own, NEW D, NEW depth, OwnInv(own, D, depth), Files, ~torn',
         (\E n \in Names : fat32_cd(n)) \/ CdUp \/ CdRoot \/ PowerLoss
  PROVE  Files'
<1>1. pc' = "idle" /\ UNCHANGED <<fat, block>> /\ (pc = "idle" \/ ~HalfDone)
  BY DEF fat32_cd, CdUp, CdRoot, PowerLoss
<1>2. New = {} /\ ~BeingFreed
  BY <1>1 DEF New, BeingFreed, HalfDone
<1>3. Intact'
  BY <1>1, <1>2, IntactSame DEF Files
<1>4. Source' /\ Growing'
  BY <1>1 DEF Source, Growing
<1> QED
  BY <1>3, <1>4 DEF Files

LEMMA FilesSame ==
  ASSUME Files, UNCHANGED vars
  PROVE  Files'
<1> USE DEF vars
<1>1. /\ Entries' = Entries
      /\ \A p : At(p[1], p[2])' = At(p[1], p[2])
      /\ \A p : (BeingFreed /\ p = Removed)' <=> (BeingFreed /\ p = Removed)
  BY DEF Entries, Dirs, New, At, BeingFreed, Removed
<1>2. \A f : Chain(f)' = Chain(f)
  BY DEF Chain
<1>3. \A f, w, n, end, hole : Row(f, w, n, end, hole) => Row(f, w, n, end, hole)'
  BY <1>2 DEF Row
<1>4. Intact'
  BY <1>1, <1>3 DEF Files, Intact, FileOk
<1>5. \A p, w, n, c, i : HasBlock(p, w, n, c, i) => HasBlock(p, w, n, c, i)'
  <2>1. \A p : ChainOf(p)' = ChainOf(p)
    BY <1>2 DEF ChainOf, At
  <2> QED
    BY <1>1, <2>1 DEF HasBlock
<1>6. Source'
  BY <1>1, <1>5 DEF Files, Source, Copies
<1>7. Growing'
  BY <1>3 DEF Files, Growing
<1> QED
  BY <1>4, <1>6, <1>7 DEF Files

LEMMA FilesStep ==
  ASSUME TypeInv, TypeInv', NEW own, NEW D, NEW depth, OwnInv(own, D, depth), Files,
         [Next]_vars, ~torn'
  PROVE  Files'
<1>1. ASSUME NEW k \in Calls, Begins(k) PROVE Files'
  BY <1>1, FilesEcho, FilesMkdir, FilesCopy, FilesBegin DEF Begins
<1>2. CASE FirstCluster
  BY <1>2, FilesFirstCluster
<1>3. CASE WriteData
  BY <1>3, FilesWriteData
<1>4. CASE LinkNext
  BY <1>4, FilesLinkNext
<1>5. CASE DiskFullAtLink
  BY <1>5, FilesDiskFullAtLink
<1>6. CASE EndNext
  BY <1>6, FilesEndNext
<1>7. CASE EnterDirectory
  BY <1>7, FilesEnterDirectory
<1>8. CASE MakeParent
  BY <1>8, FilesMakeParent
<1>9. CASE ParentEntry
  BY <1>9, FilesParentEntry
<1>10. CASE ParentDots
  BY <1>10, FilesParentDots
<1>11. CASE WriteEntry
  BY <1>11, FilesWriteEntry
<1>12. CASE WriteDots
  BY <1>12, FilesWriteDots
<1>13. CASE RemovalStarts
  BY <1>13, FilesRemovalStarts
<1>14. CASE NothingToRemove
  BY <1>14, FilesNothingToRemove
<1>15. CASE FreeCluster
  BY <1>15, FilesFreeCluster
<1>16. CASE Unlink
  BY <1>16, FilesUnlink
<1>17. CASE (\E n \in Names : fat32_cd(n)) \/ CdUp \/ CdRoot \/ PowerLoss
  BY <1>17, FilesElsewhere
<1>18. CASE UNCHANGED vars
  BY <1>18, FilesSame
<1> QED
  BY <1>1, <1>2, <1>3, <1>4, <1>5, <1>6, <1>7, <1>8, <1>9, <1>10, <1>11, <1>12, <1>13, <1>14,
     <1>15, <1>16, <1>17, <1>18
  DEF Next, FileStep, EntryStep, RemoveStep

LEMMA FilesInit ==
  ASSUME Init
  PROVE  Files
<1>1. pc = "idle" /\ New = {}
  BY NoNew DEF Init
<1>2. \A s \in Slots : At(Root, s) = NoEntry
  BY NewDirIsBlock, Numbers DEF Init, At
<1>3. Complete({Root})
  BY <1>2 DEF Complete
<1>4. Dirs \subseteq {Root}
  BY <1>3, DirsIsLeast, Numbers
<1>5. Intact
  BY <1>2, <1>4 DEF Intact, Entries
<1> QED
  BY <1>1, <1>5 DEF Files, Source, Growing

\* What the invariant says of a file.
LEMMA FilesAre ==
  ASSUME TypeInv, ~torn, ~misled, NEW own, NEW D, NEW depth, OwnInv(own, D, depth), Files
  PROVE  FilesIntact
<1> SUFFICES ASSUME NEW p \in Entries, NEW e, e = At(p[1], p[2]), IsFile(e), ~BeingRemoved(p)
             PROVE  /\ block[e.first] = Blk(e.what, 1)
                    /\ \A c \in ChainOf(p) :
                         \/ fat[c] = EOC /\ block[c] = Blk(e.what, e.size)
                         \/ fat[c] \in Cluster /\ block[fat[c]] = Blk(e.what, block[c].data[2] + 1)
  BY DEF FilesIntact, IsFile, Blk
<1>1. ~(BeingFreed /\ p = Removed)
  BY DEF BeingFreed, BeingRemoved, Removed
<1>2. PICK end : Row(e.first, e.what, e.size, end, 0)
  BY <1>1 DEF Files, Intact, FileOk
<1>3. e.first \in Cluster /\ e.first # 0
  BY EntryOwned, Numbers DEF IsFile, SizedEntries, TypeInv
<1>4. ChainOf(p) = Chain(e.first)
  BY <1>3 DEF ChainOf
<1>5. block[e.first] = Blk(e.what, 1)
  BY <1>2, <1>3, RowFirst
<1>6. PICK num \in [Cluster -> Nat] :
        \A c \in Chain(e.first) :
          /\ c = 0 \/ block[c] = Blk(e.what, num[c])
          /\ IF c = end THEN fat[c] \notin Cluster /\ num[c] = e.size
                        ELSE fat[c] \in Cluster /\ num[fat[c]] = num[c] + 1
  BY <1>2 DEF Row
<1>7. ASSUME NEW c \in Chain(e.first)
      PROVE  \/ fat[c] = EOC /\ block[c] = Blk(e.what, e.size)
             \/ fat[c] \in Cluster /\ block[fat[c]] = Blk(e.what, block[c].data[2] + 1)
  <2>1. c \in Cluster /\ block[c] = Blk(e.what, num[c]) /\ fat[c] \in FatValue
    BY <1>3, <1>6, ChainIs, Numbers DEF TypeInv, TypeOK
  <2>2. block[c].data[2] = num[c]
    BY <2>1 DEF Blk
  <2>3. CASE c = end
    <3>1. fat[c] # 0
      BY <1>4, OwnersKept DEF NoSharedClusters
    <3> QED
      BY <1>6, <2>1, <2>3, <3>1 DEF FatValue
  <2>4. CASE c # end
    <3>1. fat[c] \in Cluster /\ num[fat[c]] = num[c] + 1
      BY <1>6, <2>4
    <3>2. fat[c] \in Chain(e.first)
      BY <1>3, <3>1, ChainIs
    <3> QED
      BY <1>6, <2>2, <3>1, <3>2, Numbers
  <2> QED
    BY <2>3, <2>4
<1> QED
  BY <1>4, <1>5, <1>7

FilesInv == IInv /\ (~torn /\ ~misled => Files)

LEMMA FilesInductive ==
  /\ Init => FilesInv
  /\ FilesInv /\ [Next]_vars => FilesInv'
  /\ FilesInv => FilesIntact
<1>1. Init => FilesInv
  BY Inductive, FilesInit DEF FilesInv
<1>2. ASSUME FilesInv, [Next]_vars PROVE FilesInv'
  <2>1. IInv' /\ TypeInv /\ TypeInv'
    BY <1>2, Inductive, TypeStep DEF FilesInv, IInv
  <2>2. ASSUME ~torn', ~misled' PROVE Files'
    <3>1. ~torn /\ ~misled
      BY <1>2, <2>1, <2>2, TornStays
    <3>2. PICK own, D, depth : OwnInv(own, D, depth)
      BY <1>2, <2>2, <3>1 DEF FilesInv, IInv
    <3> QED
      BY <1>2, <2>1, <2>2, <3>1, <3>2, FilesStep DEF FilesInv
  <2> QED
    BY <2>1, <2>2 DEF FilesInv
<1>3. ASSUME FilesInv PROVE FilesIntact
  <2>1. CASE ~torn /\ ~misled
    <3>1. PICK own, D, depth : OwnInv(own, D, depth)
      BY <1>3, <2>1 DEF FilesInv, IInv
    <3> QED
      BY <1>3, <2>1, <3>1, FilesAre DEF FilesInv, IInv
  <2>2. CASE ~(~torn /\ ~misled)
    BY <2>2 DEF FilesIntact
  <2> QED
    BY <2>1, <2>2
<1> QED
  BY <1>1, <1>2, <1>3

\* A file in the tree holds its own blocks, in their order and to its end,
\* whatever is created, copied, moved, replaced or removed besides it, and when
\* the power fails between two writes, for its entry is written after its blocks;
\* with the same exceptions: the two windows of rm and of a new directory, and a
\* mkdir by path outside the current directory. A copy that a full disk cut short
\* is not such a file. (fat32_file.c:229-247, installer.c:34-48)
THEOREM FilesStayIntact == Spec => []FilesIntact
BY FilesInductive, PTL DEF Spec

-----------------------------------------------------------------------------
(***************************************************************************)
(* Directory entries: what a step may do to one.                           *)
(***************************************************************************)

\* The entry being removed has the name it was asked for.
RemovesNamed ==
  pc \in {"free", "unlink"} =>
    job.op \in {"rm", "mv", "install"} /\ At(cwd, job.slot).name = job.path.parts[1]

\* The entry p outlives the step, or the step is the end of its own removal.
EntryLasts(p) ==
  \/ block'[p[1]].dir /\ At(p[1], p[2])' = At(p[1], p[2])
  \/ /\ pc = "unlink" /\ p = Removed
     /\ job.op \in {"rm", "mv", "install"}
     /\ At(p[1], p[2]).name = job.path.parts[1]

LEMMA RemovesNamedNext ==
  TypeInv /\ RemovesNamed /\ [Next]_vars => RemovesNamed'
<1> SUFFICES ASSUME TypeInv, RemovesNamed, [Next]_vars PROVE RemovesNamed'
  OBVIOUS
<1>0. job \in JobType
  BY DEF TypeInv, TypeOK
<1>1. CASE \E k \in Calls : Begins(k)
  BY <1>1
  DEF Begins, fat32_echo, fat32_touch, fat32_mkdir, fat32_copy, MoveWithoutCopy, fat32_rm,
      install_file, Goes, RemovesNamed
<1>2. CASE FileStep
  BY <1>2 DEF FileStep, FirstCluster, WriteData, LinkNext, DiskFullAtLink, EndNext,
     Goes, Finishes, RemovesNamed
<1>3. CASE EntryStep
  BY <1>3 DEF EntryStep, EnterDirectory, MakeParent, ParentEntry, ParentDots, WriteEntry,
     WriteDots, AfterEntry, Goes, Finishes, RemovesNamed
<1>4. CASE RemovalStarts
  <2>1. PICK s \in Slots :
          /\ Matches(cwd, job.path.parts[1], s)
          /\ job' = [job EXCEPT !.slot = s, !.clus = At(cwd, s).first]
          /\ block' = block /\ cwd' = cwd /\ pc = "rm"
    BY <1>4 DEF RemovalStarts, Goes
  <2>2. job'.slot = s /\ job'.path = job.path /\ job'.op = job.op
    BY <1>0, <2>1 DEF JobType
  <2> QED
    BY <2>1, <2>2 DEF Matches, At, RemovesNamed, TypeInv, Fits
<1>5. CASE FreeCluster
  <2>1. job'.slot = job.slot /\ job'.path = job.path /\ job'.op = job.op
    BY <1>0, <1>5 DEF FreeCluster, Goes, JobType
  <2> QED
    BY <1>5, <2>1 DEF FreeCluster, At, RemovesNamed
<1>6. CASE NothingToRemove \/ Unlink
  BY <1>6 DEF NothingToRemove, Unlink, AfterRemoval, Goes, Finishes, RemovesNamed
<1>7. CASE (\E n \in Names : fat32_cd(n)) \/ CdUp \/ CdRoot \/ PowerLoss
  BY <1>7 DEF fat32_cd, CdUp, CdRoot, PowerLoss, RemovesNamed
<1>8. CASE UNCHANGED vars
  BY <1>8 DEF vars, RemovesNamed, At
<1> QED
  BY <1>1, <1>2, <1>3, <1>4, <1>5, <1>6, <1>7, <1>8 DEF Next, RemoveStep

\* A block that changes as a whole is no directory of the tree.
LEMMA LastsOutside ==
  ASSUME TypeInv, NEW own, NEW D, NEW depth, OwnInv(own, D, depth), NEW p \in Entries,
         NEW c \in Cluster, c \notin D \/ c \in New,
         \A d \in Cluster \ {c} : block'[d] = block[d]
  PROVE  EntryLasts(p)
<1>1. p[1] \in D \ New /\ p[1] \in Cluster /\ block[p[1]].dir
  BY EntryOwned
<1>2. p[1] # c
  BY <1>1
<1> QED
  BY <1>1, <1>2 DEF EntryLasts, At

\* A slot that is written in a directory was free.
LEMMA LastsBeside ==
  ASSUME TypeInv, NEW own, NEW D, NEW depth, OwnInv(own, D, depth), NEW p \in Entries,
         NEW d \in Cluster, NEW s \in Slots, NEW e, block[d].dir, SetSlot(d, s, e),
         p # <<d, s>>
  PROVE  EntryLasts(p)
<1>1. /\ p[1] \in Cluster /\ p[2] \in Slots /\ p = <<p[1], p[2]>> /\ block[p[1]].dir
  BY EntryOwned
<1>2. CASE p[1] # d
  BY <1>1, <1>2 DEF SetSlot, EntryLasts, At, TypeInv, TypeOK
<1>3. CASE p[1] = d
  <2>1. p[2] # s
    BY <1>1, <1>3
  <2>2. block[d].at.slot \in [Slots -> Entry \cup {NoEntry}]
    BY DEF TypeInv, TypeOK, Block, Dir
  <2>3. block'[d] = [dir |-> TRUE, at |-> [up   |-> block[d].at.up,
                                           slot |-> [block[d].at.slot EXCEPT ![s] = e]]]
    BY DEF SetSlot, TypeInv, TypeOK
  <2>4. block'[d].dir /\ block'[d].at.slot[p[2]] = block[d].at.slot[p[2]]
    BY <1>1, <2>1, <2>2, <2>3
  <2> QED
    BY <1>3, <2>4 DEF EntryLasts, At
<1> QED
  BY <1>2, <1>3

LEMMA EntryStepLasts ==
  ASSUME TypeInv, RemovesNamed, NEW own, NEW D, NEW depth, OwnInv(own, D, depth),
         NEW p \in Entries, [Next]_vars
  PROVE  EntryLasts(p)
<1>0. /\ block \in [Cluster -> Block] /\ At(p[1], p[2]) # NoEntry
      /\ p = <<p[1], p[2]>> /\ block[p[1]].dir
  BY EntryOwned DEF TypeInv, TypeOK
<1>1. ASSUME UNCHANGED block PROVE EntryLasts(p)
  BY <1>0, <1>1 DEF EntryLasts, At
<1>2. ASSUME NEW d \in Cluster, NEW s \in Slots, NEW e, FreeSlot(d, s), SetSlot(d, s, e)
      PROVE  EntryLasts(p)
  <2>1. p # <<d, s>>
    BY <1>0, <1>2 DEF FreeSlot
  <2> QED
    BY <1>2, <2>1, LastsBeside DEF FreeSlot
<1>3. CASE \E k \in Calls : Begins(k)
  BY <1>1, <1>3 DEF Begins, fat32_echo, fat32_touch, fat32_mkdir, fat32_copy,
     MoveWithoutCopy, fat32_rm, install_file
<1>4. CASE FirstCluster \/ LinkNext \/ DiskFullAtLink \/ EndNext
  BY <1>1, <1>4 DEF FirstCluster, LinkNext, DiskFullAtLink, EndNext
<1>5. CASE WriteData
  <2>1. job.clus \in Cluster /\ own[job.clus] = Mine
    BY <1>5 DEF WriteData, OwnInv, Running, TypeInv, Fits
  <2>2. job.clus \notin D
    BY <2>1, MineIsNoDirectory
  <2>3. \A d \in Cluster \ {job.clus} : block'[d] = block[d]
    BY <1>0, <1>5 DEF WriteData
  <2> QED
    BY <2>1, <2>2, <2>3, LastsOutside
<1>6. CASE EnterDirectory \/ MakeParent
  BY <1>1, <1>6 DEF EnterDirectory, MakeParent
<1>7. CASE ParentEntry \/ WriteEntry
  <2>1. job.dir \in Cluster
    BY DEF TypeInv, TypeOK, JobType
  <2> QED
    BY <1>1, <1>2, <1>7, <2>1 DEF ParentEntry, WriteEntry
<1>8. CASE ParentDots \/ WriteDots
  <2>1. PICK c, b : /\ c \in New /\ block' = [block EXCEPT ![c] = b]
                    /\ c \in {job.made, job.clus} /\ c \in Cluster
    BY <1>8 DEF ParentDots, WriteDots, New, TypeInv, Fits
  <2>2. \A d \in Cluster \ {c} : block'[d] = block[d]
    BY <1>0, <2>1
  <2> QED
    BY <2>1, <2>2, LastsOutside
<1>9. CASE RemovalStarts \/ NothingToRemove \/ FreeCluster
  BY <1>1, <1>9 DEF RemovalStarts, NothingToRemove, FreeCluster
<1>10. CASE Unlink
  <2>1. /\ pc = "unlink" /\ cwd \in Cluster /\ block[cwd].dir /\ job.slot \in Slots
        /\ SetSlot(cwd, job.slot, NoEntry)
    BY <1>10 DEF Unlink, TypeInv, TypeOK, Fits
  <2>2. CASE p = <<cwd, job.slot>>
    BY <2>1, <2>2 DEF RemovesNamed, EntryLasts, Removed
  <2>3. CASE p # <<cwd, job.slot>>
    BY <2>1, <2>3, LastsBeside
  <2> QED
    BY <2>2, <2>3
<1>11. CASE (\E n \in Names : fat32_cd(n)) \/ CdUp \/ CdRoot \/ PowerLoss \/ UNCHANGED vars
  BY <1>1, <1>11 DEF fat32_cd, CdUp, CdRoot, PowerLoss, vars
<1> QED
  BY <1>3, <1>4, <1>5, <1>6, <1>7, <1>8, <1>9, <1>10, <1>11
  DEF Next, FileStep, EntryStep, RemoveStep

\* As long as neither exception has come to pass, no step, the loss of power
\* included, changes an entry of the tree but the last one of a removal, which
\* erases the entry of the name it was given and nothing else: what is copied,
\* made or installed beside it stays. (fat32_path.c:166-240, fat32_file.c:96-124)
THEOREM EntriesLast ==
  Spec => [][~torn /\ ~misled => \A p \in Entries : EntryLasts(p)]_vars
<1> DEFINE Lasts == ~torn /\ ~misled => \A p \in Entries : EntryLasts(p)
<1>1. Init => RemovesNamed
  BY DEF Init, RemovesNamed
<1>2. TypeInv /\ RemovesNamed /\ [Next]_vars => RemovesNamed'
  BY RemovesNamedNext
<1>3. IInv => TypeInv
  BY DEF IInv
<1>4. IInv /\ RemovesNamed /\ [Next]_vars => [Lasts]_vars
  <2> SUFFICES ASSUME IInv, RemovesNamed, [Next]_vars, ~torn, ~misled,
                      NEW p \in Entries
               PROVE  EntryLasts(p)
    OBVIOUS
  <2>1. PICK own, D, depth : OwnInv(own, D, depth)
    BY DEF IInv
  <2> QED
    BY <1>3, <2>1, EntryStepLasts
<1> HIDE DEF Lasts
<1>5. Spec => [][Lasts]_vars
  BY <1>1, <1>2, <1>3, <1>4, Inductive, PTL DEF Spec
<1> QED
  BY <1>5 DEF Lasts
=============================================================================
