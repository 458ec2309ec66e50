------------------------------ MODULE FatChains ------------------------------
(***************************************************************************)
(* The file system on disk: the allocation table, the directories and what *)
(* each operation of storage/fat32*.c writes, one write per step, so that  *)
(* the power may fail between any two of them.                             *)
(*                                                                         *)
(* Operations do not interleave: every one runs inside one system call or  *)
(* in kmain, with nobody else at work.  A name is a model value and        *)
(* matches itself only; how names lie in directory slots is LongNames.     *)
(* The second copy of the table is written right after the first and never *)
(* read, so the table is one.  kmalloc of a buffer is taken to succeed,    *)
(* and nobody calls rm with "." or "..", which it would free.              *)
(***************************************************************************)
EXTENDS Integers, Sequences

CONSTANTS
  LastCluster,  \* clusters are numbered 2..LastCluster
  DirSlots,     \* entries of a directory, besides "." and "..": 126 or 128
  Names,        \* names of files and directories
  Contents,     \* what files may hold; block i of content w is <<w, i>>
  Calls         \* the calls made: operation, path, destination, content, size

Path == [rooted : BOOLEAN, parts : Seq(Names) \ {<<>>}]
Ops  == {"echo", "touch", "cp", "mv", "rm", "mkdir", "install"}

ASSUME FatOK ==
  /\ LastCluster \in Nat /\ LastCluster >= 2
  /\ DirSlots \in Nat
  /\ "free" \notin Names
  /\ "none" \notin Contents
  /\ Calls \subseteq [op : Ops, path : Path, dest : Path, what : Contents, size : Nat \ {0}]
  /\ \A k \in Calls : k.op \notin {"cp", "mv"} => k.dest = k.path

VARIABLES
  fat,          \* the allocation table: 0 free, 1 end of chain, or the next
  block,        \* what lies in each cluster: a directory or a file's block
  cwd,          \* current_dir_cluster
  pc,           \* where the running operation stands
  job,          \* its local variables
  torn,         \* the power failed where it leaves an entry half made or removed
  misled        \* a directory was made whose ".." is not the one it is in

vars == <<fat, block, cwd, pc, job, torn, misled>>

Root     == 2
EOC      == 1
Cluster  == 2..LastCluster
FatValue == {0, EOC} \cup Cluster
Slots    == 1..DirSlots
NoEntry  == [name |-> "free"]
Entry    == [name : Names, dir : BOOLEAN, first : {0} \cup Cluster,
             size : Nat, what : Contents \cup {"none"}]
Dir      == [up : Cluster, slot : [Slots -> Entry \cup {NoEntry}]]
Data     == (Contents \cup {"none"}) \X Nat
Block    == [dir : {TRUE}, at : Dir] \cup [dir : {FALSE}, data : Data]

Pcs == {"idle", "alloc", "data", "link", "extend", "entry", "parent",
        "parentdots", "dots", "rm", "free", "unlink"}

JobType == [op : Ops \cup {"none"}, path : Path \cup {<<>>},
            what : Contents \cup {"none"}, size : Nat, first : {0} \cup Cluster,
            clus : FatValue, from : FatValue, left : Nat, dir : Cluster,
            rest : Seq(Names), made : {0} \cup Cluster, slot : {0} \cup Slots]

Idle == [op |-> "none", path |-> <<>>, what |-> "none",
         size |-> 0, first |-> 0, clus |-> 0, from |-> 0, left |-> 0,
         dir |-> Root, rest |-> <<>>, made |-> 0, slot |-> 0]

\* A new directory: its "." is its own cluster, its ".." the cluster up.
NewDir(up) == [dir |-> TRUE, at |-> [up |-> up, slot |-> [s \in Slots |-> NoEntry]]]

Init ==         \* fat32_format, then fat32_init
  /\ fat = [c \in Cluster |-> IF c = Root THEN EOC ELSE 0]
  /\ block = [c \in Cluster |-> IF c = Root THEN NewDir(Root)
                                ELSE [dir |-> FALSE, data |-> <<"none", 0>>]]
  /\ cwd = Root
  /\ pc = "idle"
  /\ job = Idle
  /\ torn = FALSE
  /\ misled = FALSE

-----------------------------------------------------------------------------
(***************************************************************************)
(* Looking things up.  A search sees the first match of a name.            *)
(***************************************************************************)
At(c, s) == block[c].at.slot[s]

Matches(c, n, s) ==     \* _fat32_find_entry, fat32_rm: of any kind
  /\ block[c].dir
  /\ At(c, s).name = n
  /\ \A t \in 1..(s - 1) : At(c, t).name # n

IsSubdir(c, n, s) == At(c, s).name = n /\ At(c, s).dir

MatchesDir(c, n, s) ==  \* fat32_cd, _fat32_create_entry: passes over files
  /\ block[c].dir
  /\ IsSubdir(c, n, s)
  /\ \A t \in 1..(s - 1) : ~IsSubdir(c, n, t)

\* An entry without a cluster stands for the root.
Subdir(e) == IF e.first = 0 THEN Root ELSE e.first

Start(p) == IF p.rooted THEN Root ELSE cwd

\* _fat32_find_entry: path p leads to slot s of the directory at c.
Finds(p, c, s) ==
  \E trail \in [1..Len(p.parts) -> Cluster] :
    /\ trail[1] = Start(p)
    /\ \A i \in 1..(Len(p.parts) - 1) :
         \E t \in Slots : /\ Matches(trail[i], p.parts[i], t)
                          /\ At(trail[i], t).dir
                          /\ trail[i + 1] = Subdir(At(trail[i], t))
    /\ c = trail[Len(p.parts)]
    /\ Matches(c, p.parts[Len(p.parts)], s)

Exists(p) == \E c \in Cluster, s \in Slots : Finds(p, c, s)

\* fat32_rm and fat32_cd compare the whole path with each name.
Plain(p) == ~p.rooted /\ Len(p.parts) = 1

\* _fat32_find_free_cluster
FirstFree(c) == fat[c] = 0 /\ \A d \in 2..(c - 1) : fat[d] # 0
DiskFull == \A c \in Cluster : fat[c] # 0

FreeSlot(c, s) ==
  /\ block[c].dir
  /\ At(c, s) = NoEntry
  /\ \A t \in 1..(s - 1) : At(c, t) # NoEntry
DirFull(c) == \A s \in Slots : ~FreeSlot(c, s)

SetFat(c, v) == fat' = [fat EXCEPT ![c] = v]        \* _fat32_set_fat_entry

SetSlot(c, s, e) ==
  block' = [block EXCEPT ![c] =
              [dir |-> TRUE, at |-> [up   |-> block[c].at.up,
                                     slot |-> [block[c].at.slot EXCEPT ![s] = e]]]]

Goes(where, j) == pc' = where /\ job' = j
Finishes == Goes("idle", Idle)

\* The operation's variables when it begins; its new entry goes to dest.
Job(k) == [Idle EXCEPT !.op = k.op, !.path = k.path,
                       !.dir = Start(k.dest), !.rest = k.dest.parts]

MayBegin(k, ops) == pc = "idle" /\ ~torn /\ k.op \in ops

-----------------------------------------------------------------------------
(***************************************************************************)
(* The operations begin.  Where they refuse to, nothing changes.           *)
(***************************************************************************)
fat32_echo(k) ==
  /\ MayBegin(k, {"echo"})
  /\ ~Exists(k.path)
  /\ \E c \in Cluster :
       /\ FirstFree(c)
       /\ SetFat(c, EOC)
       /\ Goes("data", [Job(k) EXCEPT !.what = k.what, !.size = 1, !.left = 1,
                                      !.first = c, !.clus = c])
  /\ UNCHANGED <<block, cwd, torn, misled>>

fat32_touch(k) ==
  /\ MayBegin(k, {"touch"})
  /\ ~Exists(k.path)
  /\ Goes("entry", Job(k))
  /\ UNCHANGED <<fat, block, cwd, torn, misled>>

fat32_mkdir(k) ==
  /\ MayBegin(k, {"mkdir"})
  /\ ~Exists(k.path)
  /\ \E c \in Cluster :
       /\ FirstFree(c)
       /\ SetFat(c, EOC)
       /\ Goes("entry", [Job(k) EXCEPT !.first = c, !.clus = c])
  /\ UNCHANGED <<block, cwd, torn, misled>>

\* fat32_copy, alone or in fat32_move.  The destination may exist already: it
\* is not looked for.
fat32_copy(k) ==
  /\ MayBegin(k, {"cp", "mv"})
  /\ \E c, at \in Cluster, s \in Slots :
       /\ Finds(k.path, at, s)
       /\ ~At(at, s).dir
       /\ FirstFree(c)
       /\ SetFat(c, EOC)
       /\ LET e == At(at, s) IN
            Goes(IF e.size > 0 THEN "data" ELSE "entry",
                 [Job(k) EXCEPT !.what = e.what, !.size = e.size, !.left = e.size,
                                !.from = e.first, !.first = c, !.clus = c])
  /\ UNCHANGED <<block, cwd, torn, misled>>

CopyRefused(p) ==       \* no source, a directory, or no cluster
  \/ \A c \in Cluster, s \in Slots : Finds(p, c, s) => At(c, s).dir
  \/ DiskFull

\* fat32_move removes the source whatever became of the copy.
MoveWithoutCopy(k) ==
  /\ MayBegin(k, {"mv"})
  /\ CopyRefused(k.path)
  /\ Goes("rm", Job(k))
  /\ UNCHANGED <<fat, block, cwd, torn, misled>>

fat32_rm(k) ==
  /\ MayBegin(k, {"rm"})
  /\ Goes("rm", Job(k))
  /\ UNCHANGED <<fat, block, cwd, torn, misled>>

install_file(k) ==
  /\ MayBegin(k, {"install"})
  /\ Goes(IF Exists(k.path) THEN "rm" ELSE "alloc",
          [Job(k) EXCEPT !.what = k.what, !.size = k.size, !.left = k.size])
  /\ UNCHANGED <<fat, block, cwd, torn, misled>>

-----------------------------------------------------------------------------
(***************************************************************************)
(* Writing a file: cluster by cluster, each marked as the end of the chain *)
(* after its predecessor points to it; the directory entry comes last.     *)
(***************************************************************************)
Copies == job.op \in {"cp", "mv"}

FirstCluster ==
  /\ pc = "alloc"
  /\ \/ \E c \in Cluster :
          /\ FirstFree(c)
          /\ SetFat(c, EOC)
          /\ Goes("data", [job EXCEPT !.first = c, !.clus = c])
     \/ DiskFull /\ Finishes /\ UNCHANGED fat
  /\ UNCHANGED <<block, cwd, torn, misled>>

\* Mutant: asks for another cluster after the last block too.
WritesPastLast ==
  /\ pc = "data"
  /\ block' = [block EXCEPT ![job.clus] =
                 IF Copies THEN block[job.from]
                 ELSE [dir |-> FALSE, data |-> <<job.what, job.size - job.left + 1>>]]
  /\ Goes(IF job.left >= 0 THEN "link" ELSE "entry",
          [job EXCEPT !.left = job.left - 1,
                      !.from = IF Copies /\ job.left > 1 THEN fat[job.from] ELSE 0])
  /\ UNCHANGED <<fat, cwd, torn, misled>>

\* Mutant: writes the block it has left, not the next one.
WritesBackwards ==
  /\ pc = "data"
  /\ block' = [block EXCEPT ![job.clus] =
                 IF Copies THEN block[job.from]
                 ELSE [dir |-> FALSE, data |-> <<job.what, job.left>>]]
  /\ Goes(IF job.left > 1 THEN "link" ELSE "entry",
          [job EXCEPT !.left = job.left - 1,
                      !.from = IF Copies /\ job.left > 1 THEN fat[job.from] ELSE 0])
  /\ UNCHANGED <<fat, cwd, torn, misled>>

WriteData ==
  /\ pc = "data"
  /\ block' = [block EXCEPT ![job.clus] =
                 IF Copies THEN block[job.from]
                 ELSE [dir |-> FALSE, data |-> <<job.what, job.size - job.left + 1>>]]
  /\ Goes(IF job.left > 1 THEN "link" ELSE "entry",
          [job EXCEPT !.left = job.left - 1,
                      !.from = IF Copies /\ job.left > 1 THEN fat[job.from] ELSE 0])
  /\ UNCHANGED <<fat, cwd, torn, misled>>

LinkNext ==
  /\ pc = "link"
  /\ \E c \in Cluster : FirstFree(c) /\ SetFat(job.clus, c)
  /\ Goes("extend", job)
  /\ UNCHANGED <<block, cwd, torn, misled>>

\* A copy goes on with its entry, of a file that is not what it says, an
\* installation gives up.
DiskFullAtLink ==
  /\ pc = "link"
  /\ DiskFull
  /\ IF Copies THEN Goes("entry", [job EXCEPT !.what = "none"]) ELSE Finishes
  /\ UNCHANGED <<fat, block, cwd, torn, misled>>

\* Mutant: the new cluster is linked and never marked as taken.
EndForgotten ==
  /\ pc = "extend"
  /\ Goes(IF Copies /\ job.from \notin Cluster THEN "entry" ELSE "data",
          [job EXCEPT !.clus = fat[job.clus]])
  /\ UNCHANGED <<fat, block, cwd, torn, misled>>

EndNext ==
  /\ pc = "extend"
  /\ SetFat(fat[job.clus], EOC)
  /\ Goes(IF Copies /\ job.from \notin Cluster THEN "entry" ELSE "data",
          [job EXCEPT !.clus = fat[job.clus]])
  /\ UNCHANGED <<block, cwd, torn, misled>>

-----------------------------------------------------------------------------
(***************************************************************************)
(* _fat32_create_entry: walk down, making the directories that are missing,*)
(* and write the entry if there is a slot for it.                          *)
(***************************************************************************)
AfterEntry == CASE job.op = "mkdir" -> Goes("dots", job)
                [] job.op = "mv"    -> Goes("rm", job)
                [] OTHER            -> Finishes

EnterDirectory ==
  /\ pc = "entry"
  /\ Len(job.rest) > 1
  /\ \E s \in Slots :
       /\ MatchesDir(job.dir, Head(job.rest), s)
       /\ Goes("entry", [job EXCEPT !.dir = Subdir(At(job.dir, s)),
                                    !.rest = Tail(job.rest)])
  /\ UNCHANGED <<fat, block, cwd, torn, misled>>

MissingParent ==
  /\ pc = "entry"
  /\ Len(job.rest) > 1
  /\ \A s \in Slots : ~MatchesDir(job.dir, Head(job.rest), s)

MakeParent ==
  /\ MissingParent
  /\ \/ \E c \in Cluster :
          /\ FirstFree(c)
          /\ SetFat(c, EOC)
          /\ Goes("parent", [job EXCEPT !.made = c])
     \/ DiskFull /\ AfterEntry /\ UNCHANGED fat
  /\ UNCHANGED <<block, cwd, torn, misled>>

ParentEntry ==          \* goes on even if the entry did not fit
  /\ pc = "parent"
  /\ \/ \E s \in Slots :
          /\ FreeSlot(job.dir, s)
          /\ SetSlot(job.dir, s, [name |-> Head(job.rest), dir |-> TRUE,
                                  first |-> job.made, size |-> 0, what |-> "none"])
     \/ DirFull(job.dir) /\ UNCHANGED block
  /\ Goes("parentdots", job)
  /\ UNCHANGED <<fat, cwd, torn, misled>>

ParentDots ==
  /\ pc = "parentdots"
  /\ block' = [block EXCEPT ![job.made] = NewDir(job.dir)]
  /\ Goes("entry", [job EXCEPT !.dir = job.made, !.made = 0,
                               !.rest = Tail(job.rest)])
  /\ UNCHANGED <<fat, cwd, torn, misled>>

WriteEntry ==
  /\ pc = "entry"
  /\ Len(job.rest) = 1
  /\ \/ \E s \in Slots :
          /\ FreeSlot(job.dir, s)
          /\ SetSlot(job.dir, s,
                     [name |-> Head(job.rest), dir |-> job.op = "mkdir",
                      first |-> job.first, size |-> job.size, what |-> job.what])
     \/ DirFull(job.dir) /\ UNCHANGED block
  /\ AfterEntry
  /\ UNCHANGED <<fat, cwd, torn, misled>>

\* fat32_mkdir: ".." is the current directory, wherever the new one was made.
WriteDots ==
  /\ pc = "dots"
  /\ block' = [block EXCEPT ![job.clus] = NewDir(cwd)]
  /\ misled' = (misled \/ job.dir # cwd)
  /\ Finishes
  /\ UNCHANGED <<fat, cwd, torn>>

-----------------------------------------------------------------------------
(***************************************************************************)
(* fat32_rm: the chain is freed from its head on, then the entry.          *)
(***************************************************************************)
AfterRemoval ==
  IF job.op = "install" THEN Goes("alloc", [job EXCEPT !.slot = 0, !.clus = 0])
                        ELSE Finishes

RemovalStarts ==
  /\ pc = "rm"
  /\ \E s \in Slots :
       /\ Plain(job.path)
       /\ Matches(cwd, job.path.parts[1], s)
       /\ Goes(IF At(cwd, s).first = 0 THEN "unlink" ELSE "free",
               [job EXCEPT !.slot = s, !.clus = At(cwd, s).first])
  /\ UNCHANGED <<fat, block, cwd, torn, misled>>

NothingToRemove ==
  /\ pc = "rm"
  /\ \/ ~Plain(job.path)
     \/ \A s \in Slots : ~Matches(cwd, job.path.parts[1], s)
  /\ AfterRemoval
  /\ UNCHANGED <<fat, block, cwd, torn, misled>>

FreeCluster ==
  /\ pc = "free"
  /\ SetFat(job.clus, 0)
  /\ Goes(IF fat[job.clus] \in Cluster THEN "free" ELSE "unlink",
          [job EXCEPT !.clus = fat[job.clus]])
  /\ UNCHANGED <<block, cwd, torn, misled>>

Unlink ==
  /\ pc = "unlink"
  /\ SetSlot(cwd, job.slot, NoEntry)
  /\ AfterRemoval
  /\ UNCHANGED <<fat, cwd, torn, misled>>

-----------------------------------------------------------------------------
\* Mutant: goes into whatever has the name.
CdAnywhere(n) ==
  /\ pc = "idle" /\ ~torn
  /\ \E s \in Slots : Matches(cwd, n, s) /\ cwd' = Subdir(At(cwd, s))
  /\ UNCHANGED <<fat, block, pc, job, torn, misled>>

fat32_cd(n) ==
  /\ pc = "idle" /\ ~torn
  /\ \E s \in Slots : MatchesDir(cwd, n, s) /\ cwd' = Subdir(At(cwd, s))
  /\ UNCHANGED <<fat, block, pc, job, torn, misled>>

CdUp ==
  /\ pc = "idle" /\ ~torn
  /\ cwd # Root /\ block[cwd].dir     \* the root has no ".."
  /\ cwd' = block[cwd].at.up
  /\ UNCHANGED <<fat, block, pc, job, torn, misled>>

CdRoot ==
  /\ pc = "idle"
  /\ cwd' = Root
  /\ UNCHANGED <<fat, block, pc, job, torn, misled>>

\* An entry whose first cluster is free already, or a directory without its
\* "." and "..": what a power failure there leaves is not followed further.
HalfDone ==
  \/ /\ pc \in {"free", "unlink"}
     /\ LET e == At(cwd, job.slot) IN e.first # 0 /\ fat[e.first] = 0
  \/ pc \in {"dots", "parentdots"}

PowerLoss ==            \* and the next boot: fat32_init
  /\ pc' = "idle"
  /\ job' = Idle
  /\ cwd' = Root
  /\ torn' = (torn \/ HalfDone)
  /\ UNCHANGED <<fat, block, misled>>

Begins(k) ==
  \/ fat32_echo(k) \/ fat32_touch(k) \/ fat32_mkdir(k) \/ fat32_copy(k)
  \/ MoveWithoutCopy(k) \/ fat32_rm(k) \/ install_file(k)

FileStep == FirstCluster \/ WriteData \/ LinkNext \/ DiskFullAtLink \/ EndNext

EntryStep ==
  \/ EnterDirectory \/ MakeParent \/ ParentEntry \/ ParentDots
  \/ WriteEntry \/ WriteDots

RemoveStep == RemovalStarts \/ NothingToRemove \/ FreeCluster \/ Unlink

Next ==
  \/ \E k \in Calls : Begins(k)
  \/ FileStep \/ EntryStep \/ RemoveStep
  \/ \E n \in Names : fat32_cd(n)
  \/ CdUp \/ CdRoot
  \/ PowerLoss

Spec == Init /\ [][Next]_vars

-----------------------------------------------------------------------------
(***************************************************************************)
(* Properties.                                                             *)
(***************************************************************************)
TypeOK ==
  /\ fat \in [Cluster -> FatValue]
  /\ block \in [Cluster -> Block]
  /\ cwd \in Cluster
  /\ pc \in Pcs
  /\ torn \in BOOLEAN
  /\ misled \in BOOLEAN
  /\ job \in JobType

\* A new directory that has an entry, and no "." and ".." yet.
New == IF pc = "dots" THEN {job.clus} ELSE IF pc = "parentdots" THEN {job.made} ELSE {}

\* The clusters of the tree of directories: in every set that holds the root
\* and, with a directory, those in it.
Dirs ==
  {c \in Cluster : \A S \in SUBSET Cluster :
     /\ Root \in S
     /\ \A d \in S \ New, s \in Slots :
          block[d].dir /\ At(d, s) # NoEntry /\ At(d, s).dir => Subdir(At(d, s)) \in S
     => c \in S}

\* The entries of the tree, by cluster and slot.
Entries == {p \in (Dirs \ New) \X Slots : block[p[1]].dir /\ At(p[1], p[2]) # NoEntry}

BeingRemoved(p) == pc \in {"free", "unlink"} /\ p = <<cwd, job.slot>>

\* The clusters the table links from f on: in every set that holds f and,
\* with a cluster, the next one.
Chain(f) ==
  {c \in Cluster : \A S \in SUBSET Cluster :
     f \in S /\ (\A d \in S : fat[d] \in Cluster => fat[d] \in S) => c \in S}

ChainOf(p) == LET f == At(p[1], p[2]).first IN IF f = 0 THEN {} ELSE Chain(f)

\* Every cluster belongs to one entry at most, and none of a linked one is
\* free for others; at any moment, so also when the power fails then and the
\* machine goes on with that disk, unless it failed in the window of HalfDone.
\* Not after a mkdir whose ".." misleads: cd .. may then go to a cluster that is
\* no directory any more, and the code reads whatever lies there.
\* (fat32_file.c:96-124, 200-252)
NoSharedClusters ==
  ~torn /\ ~misled =>
    \A p \in Entries :
      /\ Root \notin ChainOf(p)
      /\ BeingRemoved(p) \/ \A c \in ChainOf(p) : fat[c] # 0
      /\ \A q \in Entries : p # q => ChainOf(p) \cap ChainOf(q) = {}

\* With the same exceptions a file's chain holds its own blocks in their order,
\* the last one at its end; but the copy a full disk cut short, and copies of
\* that, do not.
\* (fat32_file.c:229-247, installer.c:34-48)
FilesIntact ==
  ~torn /\ ~misled =>
    \A p \in Entries :
      LET e == At(p[1], p[2])
          Holds(c, i) == block[c] = [dir |-> FALSE, data |-> <<e.what, i>>]
      IN ~e.dir /\ e.size > 0 /\ e.what # "none" /\ ~BeingRemoved(p) =>
           /\ Holds(e.first, 1)
           /\ \A c \in ChainOf(p) :
                \/ fat[c] = EOC /\ Holds(c, e.size)
                \/ fat[c] \in Cluster /\ Holds(fat[c], block[c].data[2] + 1)

\* With the same exceptions the current directory is in the tree, and not free
\* for others, though mkdir is also given paths. (fat32_dir.c:63-139)
CwdIsDirectory ==
  ~torn /\ ~misled => cwd \in Dirs /\ block[cwd].dir /\ fat[cwd] # 0

\* The file an entry describes, in another place.
Kept(what, size, p) ==
  \E q \in Entries \ {p} :
    LET e == At(q[1], q[2]) IN
    /\ e.what = what
    /\ e.size = size
    /\ \A i \in 1..size : \E c \in ChainOf(q) :
         block[c] = [dir |-> FALSE, data |-> <<what, i>>]

\* A move removes its source only when the file is somewhere else.
\* (fat32_file.c:254-260, "Move file")
MoveKeepsTheFile ==
  [][job.op = "mv" /\ pc = "unlink" /\ pc' = "idle" /\ block' # block =>
       Kept(At(cwd, job.slot).what, At(cwd, job.slot).size, <<cwd, job.slot>>)]_vars
=============================================================================
