------------------------------ MODULE ElfMemory ------------------------------
(***************************************************************************)
(* The memory of the ELF programs that run one after another: the bitmap   *)
(* of page frames (core/pmm.c), page directories (cpu/paging.c), the pages *)
(* elf_load_file fills (storage/elf.c), and brk and mmap, which only move  *)
(* the end of the program (cpu/syscall.c).                                 *)
(*                                                                         *)
(* One program runs at a time (Task!OneAtATime), and the load of one page  *)
(* is a step.  What a program keeps in its memory is left out; a page that *)
(* is Same is the physical page of its own number, for every program.      *)
(***************************************************************************)
EXTENDS Integers, FiniteSets

CONSTANTS
  Frames,       \* frames of the bitmap: 8192, pmm.c:3
  PageSize,     \* 4096
  TablePages,   \* pages under one directory entry: 1024
  Tables,       \* entries of a directory: 1024
  SameTables,   \* those every directory starts with: 64, paging.c:85
  FrameBase,    \* the physical page before the first frame: pmm.c:15
  First, Last,  \* the pages of a program, linked at 0x08000000
  Programs,     \* bound of the model: programs loaded, one after another
  Sizes,        \* what programs ask brk and mmap for, in bytes or pages
  MaxGrants     \* bound of the model: ranges a program holds at a time

Word     == Tables * TablePages * PageSize      \* 2^32
Frame    == 1..Frames
Table    == 0..(Tables - 1)
Page     == 0..(Tables * TablePages - 1)
Image    == First..Last
Program  == 1..Programs
None     == 0       \* of a directory entry or a page: not present
Same     == -1      \* a big page, or a page of it: the physical one of its number

ASSUME MemoryOK ==
  /\ Frames \in Nat /\ Programs \in Nat
  /\ PageSize \in Nat \ {0} /\ TablePages \in Nat \ {0} /\ Tables \in Nat \ {0}
  /\ SameTables \in 0..(Tables - 1) /\ FrameBase \in Nat
  /\ FrameBase + Frames < First       \* 48 MiB and 128 MiB
  /\ First \in Page /\ Last \in Page /\ First <= Last /\ Last < (Tables - 1) * TablePages
  /\ Sizes \subseteq 1..(Word - 1) /\ MaxGrants \in Nat

VARIABLES
  used,         \* the frames the bitmap marks
  table,        \* of each program's directory: big page, page table or nothing
  page,         \* of each program's pages: a frame, the same page or nothing
  loaded,       \* programs loaded so far; the last of them is the running one
  pc,           \* "idle", "load", "run", or "halted" by a fault in the kernel
  at,           \* the page the load has come to
  brk_end,      \* process_t.brk_end of the running program
  known,        \* the break it was told last and remembers, as musl's malloc does
  grants,       \* the ranges it was given and takes for its own
  stale         \* history: it has moved its break from one no longer the kernel's

vars == <<used, table, page, loaded, pc, at, brk_end, known, grants, stale>>
progVars == <<brk_end, known, grants, stale>>

Range == [from : Nat, to : Nat, by : {"brk", "mmap"}]

Init ==
  /\ used = {}
  /\ table = [p \in Program |-> [t \in Table |-> None]]
  /\ page = [p \in Program |-> [v \in Page |-> None]]
  /\ loaded = 0
  /\ pc = "idle"
  /\ at = First
  /\ brk_end = 0 /\ known = 0
  /\ grants = {}
  /\ stale = FALSE

-----------------------------------------------------------------------------
(***************************************************************************)
(* Frames and page tables.                                                 *)
(***************************************************************************)
TableOf(v) == v \div TablePages

\* Mutant: the bit of the last frame looked at is not tested.
AllocUntested(f, taken) == f \in Frame /\ \A g \in 1..(f - 1) : g \in taken

\* pmm_alloc returns f when the frames in taken are marked.
pmm_alloc(f, taken) == /\ f \in Frame \ taken
                       /\ \A g \in 1..(f - 1) : g \in taken
NoFrame(taken) == Frame \subseteq taken

\* Mutant: a page under a big one stays what it was.
MapsUnlessSame(p, f) == page' = [page EXCEPT ![p][at] = IF @ = Same THEN Same ELSE f]

\* The page at is mapped to f; nothing else in the directory changes.
Maps(p, f) == page' = [page EXCEPT ![p][at] = f]

LoadPage ==             \* one turn of the last loop of elf_load_file
  /\ pc = "load"
  /\ at <= Last
  /\ LET p == loaded IN
     \/ \* No frame: the page is passed over.
        /\ NoFrame(used)
        /\ UNCHANGED <<used, table, page>>
     \/ \* A page table is there already.
        \E f \in Frame :
          /\ pmm_alloc(f, used)
          /\ table[p][TableOf(at)] \in Frame
          /\ used' = used \cup {f}
          /\ Maps(p, f)
          /\ UNCHANGED table
     \/ \* A page table takes the place of nothing or of a big page, page by page.
        \E f, g \in Frame :
          /\ pmm_alloc(f, used)
          /\ pmm_alloc(g, used \cup {f})
          /\ table[p][TableOf(at)] \notin Frame
          /\ used' = used \cup {f, g}
          /\ table' = [table EXCEPT ![p][TableOf(at)] = g]
          /\ Maps(p, f)
     \/ \* No frame for the page table: the frame is lost.
        \E f \in Frame :
          /\ pmm_alloc(f, used)
          /\ NoFrame(used \cup {f})
          /\ table[p][TableOf(at)] \notin Frame
          /\ used' = used \cup {f}
          /\ UNCHANGED <<table, page>>
  /\ at' = at + 1
  /\ UNCHANGED <<loaded, pc, progVars>>

-----------------------------------------------------------------------------
(***************************************************************************)
(* Programs come and go.                                                   *)
(***************************************************************************)
Load ==                 \* SYS_EXEC_ELF, execve: paging_new_dir
  /\ pc \in {"idle", "run"}
  /\ loaded < Programs
  /\ loaded' = loaded + 1
  /\ table' = [table EXCEPT ![loaded + 1] =
                 [t \in Table |-> IF t < SameTables THEN Same ELSE None]]
  /\ page' = [page EXCEPT ![loaded + 1] =
                [v \in Page |-> IF TableOf(v) < SameTables THEN Same ELSE None]]
  /\ pc' = "load"
  /\ at' = First
  /\ UNCHANGED <<used, progVars>>

Enter ==
  /\ pc = "load"
  /\ at > Last
  /\ pc' = "run"
  /\ brk_end' = (Last + 1) * PageSize
  /\ known' = brk_end'
  /\ grants' = {}
  /\ stale' = FALSE
  /\ UNCHANGED <<used, table, page, loaded, at>>

Exit ==                 \* nothing is given back: paging_free_dir is empty
  /\ pc = "run"
  /\ pc' = "idle"
  /\ grants' = {}
  /\ UNCHANGED <<used, table, page, loaded, at, brk_end, known, stale>>

-----------------------------------------------------------------------------
(***************************************************************************)
(* brk and mmap.  The kernel writes zeroes over the new range, by the      *)
(* program's directory; a page that is not there faults in the kernel.     *)
(***************************************************************************)
Mapped(from, to) ==
  \A v \in Page : (v + 1) * PageSize > from /\ v * PageSize < to
                    => page[loaded][v] # None

Grant(from, to, by) == [from |-> from, to |-> to, by |-> by]

\* The address the program asks its break to be moved to: n bytes above the
\* one it knows of, which mmap may have passed meanwhile.
Asked(n) == known + n

MovesStale == stale' = (stale \/ known # brk_end)

AskBreak ==             \* brk(0)
  /\ pc = "run"
  /\ known' = brk_end
  /\ UNCHANGED <<used, table, page, loaded, pc, at, brk_end, grants, stale>>

MayHoldMore == Cardinality(grants) < MaxGrants

Grow(n) ==              \* below the kernel's break this is "shrink: just update"
  /\ pc = "run" /\ MayHoldMore
  /\ Asked(n) < Word
  /\ Asked(n) > brk_end => Mapped(brk_end, Asked(n))
  /\ brk_end' = Asked(n)
  /\ known' = Asked(n)
  /\ grants' = grants \cup {Grant(known, Asked(n), "brk")}
  /\ MovesStale
  /\ UNCHANGED <<used, table, page, loaded, pc, at>>

GiveBack(g) ==          \* what it got from brk and lies at the break it knows
  /\ pc = "run"
  /\ g \in grants
  /\ g.by = "brk" /\ g.to = known
  /\ brk_end' = g.from
  /\ known' = g.from
  /\ grants' = grants \ {g}
  /\ MovesStale
  /\ UNCHANGED <<used, table, page, loaded, pc, at>>

\* (n + 0xFFF) & ~0xFFF
RoundUp(n) == (((n + PageSize - 1) % Word) \div PageSize) * PageSize

\* mmap counts bytes and mmap2 pages.
Length(n, pages) == RoundUp(IF pages THEN (n * PageSize) % Word ELSE n)

\* Mutant: the break is rounded down.
StartBelow(from) == (from \div PageSize) * PageSize

Start(from) == RoundUp(from)

mmap(n, pages) ==
  /\ pc = "run" /\ MayHoldMore
  /\ LET from == Start(brk_end)
         to   == from + Length(n, pages)
     IN /\ Mapped(from, to)
        /\ brk_end' = to
        /\ grants' = grants \cup {Grant(from, from + (IF pages THEN n * PageSize ELSE n), "mmap")}
  /\ UNCHANGED <<used, table, page, loaded, pc, at, known, stale>>

Halt(n) ==              \* isr_handler: a fault in the kernel is fatal
  /\ pc = "run"
  /\ \/ Asked(n) < Word /\ Asked(n) > brk_end /\ ~Mapped(brk_end, Asked(n))
     \/ \E pages \in BOOLEAN :
          LET from == Start(brk_end) IN ~Mapped(from, from + Length(n, pages))
  /\ pc' = "halted"
  /\ UNCHANGED <<used, table, page, loaded, at, progVars>>

Next ==
  \/ LoadPage \/ Load \/ Enter \/ Exit
  \/ AskBreak
  \/ \E n \in Sizes : Grow(n) \/ mmap(n, FALSE) \/ mmap(n, TRUE) \/ Halt(n)
  \/ \E g \in grants : GiveBack(g)

Spec == Init /\ [][Next]_vars

-----------------------------------------------------------------------------
(***************************************************************************)
(* Properties.                                                             *)
(***************************************************************************)
TypeOK ==
  /\ used \in SUBSET Frame
  /\ table \in [Program -> [Table -> Frame \cup {Same, None}]]
  /\ page \in [Program -> [Page -> Frame \cup {Same, None}]]
  /\ loaded \in 0..Programs
  /\ pc \in {"idle", "load", "run", "halted"}
  /\ at \in First..(Last + 1)
  /\ brk_end \in 0..Word /\ known \in 0..Word
  /\ grants \in SUBSET Range
  /\ stale \in BOOLEAN

\* A frame is one page of one program or one page table, and marked.
FramesExclusive ==
  \A p, q \in Program :
    /\ \A v, w \in Page :
         page[p][v] \in Frame /\ page[p][v] = page[q][w] => p = q /\ v = w
    /\ \A t, u \in Table :
         table[p][t] \in Frame /\ table[p][t] = table[q][u] => p = q /\ t = u
    /\ \A v \in Page, t \in Table : page[p][v] \in Frame => page[p][v] # table[q][t]
    /\ \A v \in Page : page[p][v] \in Frame => page[p][v] \in used
    /\ \A t \in Table : table[p][t] \in Frame => table[p][t] \in used

Covers(g, v) == (v + 1) * PageSize > g.from /\ v * PageSize < g.to
Held == Image \cup {v \in Page : page[loaded][v] # None /\ \E g \in grants : Covers(g, v)}
Physical(p, v) == IF page[p][v] \in Frame THEN FrameBase + page[p][v] ELSE v

\* The memory of the running program is its own: no two of its pages are one
\* physical page, and none is a page table or was given to an earlier program.
\* (pmm.c:10-19, paging.c:19-63, elf.c:123-136)
MemoryIsOwn ==
  pc = "run" =>
    /\ \A v, w \in Held : Physical(loaded, v) = Physical(loaded, w) => v = w
    /\ \A v \in Held, p \in Program, t \in Table :
         table[p][t] \in Frame => Physical(loaded, v) # FrameBase + table[p][t]
    /\ \A v \in Held, p \in Program \ {loaded}, w \in Page :
         page[p][w] \in Frame => Physical(loaded, v) # FrameBase + page[p][w]

\* As long as there are frames, every page of a running program's image is a
\* frame and not the page that all programs share. (elf.c:124-136)
ImageIsPrivate ==
  pc = "run" /\ ~NoFrame(used) => \A v \in Image : page[loaded][v] \in Frame

\* A grant whose length fits in 32 bits, rounded up too: mmap2 of 2^20 pages
\* is a success of no bytes. (syscall.c:626-628)
Whole(g) == g.to - g.from <= Word - PageSize

Disjoint(g, h) == g.to <= h.from \/ h.to <= g.from

\* What brk and mmap gave a program lies above its image and is mapped, and
\* what they gave it twice they gave only after it had moved its break from
\* one that mmap had passed. (syscall.c:592-639)
GrantsAreSound ==
  pc = "run" =>
    /\ \A g \in grants : g.from >= (Last + 1) * PageSize
    /\ \A g \in grants : Whole(g) => Mapped(g.from, g.to)
    /\ ~stale => \A g, h \in grants :
                   Whole(g) /\ Whole(h) /\ g # h => Disjoint(g, h)

\* What musl's malloc takes for granted, which remembers its break between its
\* calls of brk and calls mmap in between: no memory is given to it twice.
\* (syscall.c:601-612, src/src/tools/run_tests.py:66-71)
NothingGivenTwice ==
  pc = "run" =>
    \A g, h \in grants : Whole(g) /\ Whole(h) /\ g # h => Disjoint(g, h)
=============================================================================
