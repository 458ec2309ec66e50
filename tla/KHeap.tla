------------------------------- MODULE KHeap -------------------------------
(***************************************************************************)
(* The kernel heap of core/malloc.c: a list of blocks, each with a header  *)
(* in front of it, first fit, split on allocation, coalesced on release.   *)
(*                                                                         *)
(* The list that starts at free_list is the sequence blocks, in the order  *)
(* of the next pointers; at is the address of a block's header and is      *)
(* computed from sizes as the code does, so that the list and the memory   *)
(* it lies in can disagree.  kmalloc is one step.  The loop of kfree is    *)
(* one step per turn, behind the cursor curr.                              *)
(***************************************************************************)
EXTENDS Integers, Sequences

CONSTANTS
  HeapStart,    \* the arguments of malloc_init: 0x400000
  HeapSize,     \* and 4 MiB
  Word,         \* 2^32: sizes are u32
  Requests      \* sizes passed to kmalloc

Header == 12    \* sizeof(struct block_header)

ASSUME HeapOK ==
  /\ HeapStart \in Nat /\ HeapStart % 4 = 0 /\ HeapStart > 0
  /\ HeapSize \in Nat /\ HeapSize % 4 = 0 /\ HeapSize > Header
  /\ Word \in Nat
  /\ HeapStart + HeapSize < Word
  /\ Requests \subseteq 0..(Word - 1)

VARIABLES
  blocks,       \* the list
  live,         \* the size asked for, at each pointer its owner still holds
  curr,         \* the block kfree's loop looks at; 0 outside of kfree
  ret           \* what the last kmalloc returned; 0 for NULL

vars == <<blocks, live, curr, ret>>

HeapEnd == HeapStart + HeapSize

Block == [at : Nat, size : Nat, free : BOOLEAN]

TypeOK ==
  /\ blocks \in Seq(Block)
  /\ DOMAIN live \subseteq HeapStart..HeapEnd
  /\ \A p \in DOMAIN live : live[p] \in Requests
  /\ curr \in 0..Len(blocks)
  /\ ret \in 0..HeapEnd

Init ==         \* malloc_init
  /\ blocks = <<[at |-> HeapStart, size |-> HeapSize - Header, free |-> TRUE]>>
  /\ live = << >>
  /\ curr = 0
  /\ ret = 0

-----------------------------------------------------------------------------
(***************************************************************************)
(* kmalloc.                                                                *)
(***************************************************************************)

\* (size + 3) & ~3, in u32 arithmetic.
Aligned(n) == LET m == IF n + 3 < Word THEN n + 3 ELSE n + 3 - Word
              IN  m - (m % 4)

Fits(k, n) == blocks[k].free /\ blocks[k].size >= n

\* Mutant: the remainder's header is not taken off its size.
SplitForgets(bs, k, n) ==
  [j \in 1..(Len(bs) + 1) |->
     CASE j < k     -> bs[j]
       [] j = k     -> [at |-> bs[k].at, size |-> n, free |-> FALSE]
       [] j = k + 1 -> [at   |-> bs[k].at + Header + n,
                        size |-> bs[k].size - n,
                        free |-> TRUE]
       [] OTHER     -> bs[j - 1]]

\* Block k shrinks to n bytes; the rest becomes a free block behind it.
Split(bs, k, n) ==
  [j \in 1..(Len(bs) + 1) |->
     CASE j < k     -> bs[j]
       [] j = k     -> [at |-> bs[k].at, size |-> n, free |-> FALSE]
       [] j = k + 1 -> [at   |-> bs[k].at + Header + n,
                        size |-> bs[k].size - n - Header,
                        free |-> TRUE]
       [] OTHER     -> bs[j - 1]]

\* Mutant: a block is never split.
TakeWhole(bs, k, n) == [bs EXCEPT ![k].free = FALSE]

\* Mutant: the block handed out is not marked as taken.
TakeUnmarked(bs, k, n) ==
  IF bs[k].size > n + Header + 4 THEN Split(bs, k, n) ELSE bs

Take(bs, k, n) ==
  IF bs[k].size > n + Header + 4 THEN Split(bs, k, n)
                                 ELSE [bs EXCEPT ![k].free = FALSE]

kmalloc(n) ==
  /\ curr = 0
  /\ \E k \in 1..Len(blocks) :
       /\ Fits(k, Aligned(n))
       /\ \A j \in 1..(k - 1) : ~Fits(j, Aligned(n))
       /\ blocks' = Take(blocks, k, Aligned(n))
       /\ ret' = blocks[k].at + Header
       /\ live' = [p \in DOMAIN live \cup {ret'} |-> IF p = ret' THEN n ELSE live[p]]
  /\ UNCHANGED curr

kmalloc_fails(n) ==     \* "OUT OF MEMORY!"
  /\ curr = 0
  /\ \A k \in 1..Len(blocks) : ~Fits(k, Aligned(n))
  /\ ret' = 0
  /\ UNCHANGED <<blocks, live, curr>>

-----------------------------------------------------------------------------
(***************************************************************************)
(* kfree.                                                                  *)
(***************************************************************************)
\* Mutant: no coalescing pass at all.
FreeOnly(p) ==
  /\ curr = 0
  /\ p \in DOMAIN live
  /\ \E k \in 1..Len(blocks) :
       /\ blocks[k].at = p - Header
       /\ blocks' = [blocks EXCEPT ![k].free = TRUE]
  /\ live' = [q \in DOMAIN live \ {p} |-> live[q]]
  /\ UNCHANGED <<curr, ret>>

\* The header in front of a pointer its owner gives back is marked free, and
\* the loop starts at free_list.
kfree(p) ==
  /\ curr = 0
  /\ p \in DOMAIN live
  /\ \E k \in 1..Len(blocks) :
       /\ blocks[k].at = p - Header
       /\ blocks' = [blocks EXCEPT ![k].free = TRUE]
  /\ live' = [q \in DOMAIN live \ {p} |-> live[q]]
  /\ curr' = 1
  /\ UNCHANGED ret

MergesAt(i) == /\ blocks[i].free
               /\ i < Len(blocks)
               /\ blocks[i + 1].free

\* Block k swallows the block behind it.
Join(bs, k) ==
  [j \in 1..(Len(bs) - 1) |->
     CASE j < k -> bs[j]
       [] j = k -> [bs[k] EXCEPT !.size = @ + bs[k + 1].size + Header]
       [] OTHER -> bs[j + 1]]

\* Mutant: the loop moves on after it has merged two blocks.
MergeAndMove ==
  /\ curr # 0
  /\ MergesAt(curr)
  /\ blocks' = Join(blocks, curr)
  /\ curr' = IF curr + 1 < Len(blocks) THEN curr + 1 ELSE 0
  /\ UNCHANGED <<live, ret>>

Merge ==
  /\ curr # 0
  /\ MergesAt(curr)
  /\ blocks' = Join(blocks, curr)
  /\ UNCHANGED <<live, curr, ret>>

\* Mutant: the loop moves only past free blocks.
AdvanceFree ==
  /\ curr # 0
  /\ ~MergesAt(curr)
  /\ blocks[curr].free
  /\ curr' = IF curr < Len(blocks) THEN curr + 1 ELSE 0
  /\ UNCHANGED <<blocks, live, ret>>

Advance ==
  /\ curr # 0
  /\ ~MergesAt(curr)
  /\ curr' = IF curr < Len(blocks) THEN curr + 1 ELSE 0
  /\ UNCHANGED <<blocks, live, ret>>

Loop == Merge \/ Advance

Next ==
  \/ \E n \in Requests : kmalloc(n) \/ kmalloc_fails(n)
  \/ \E p \in DOMAIN live : kfree(p)
  \/ Loop

Spec == Init /\ [][Next]_vars

\* The loop of kfree runs to its end: its caller waits for it.
FairSpec == Spec /\ WF_vars(Loop)

-----------------------------------------------------------------------------
(***************************************************************************)
(* get_malloc_info: what SYS_MEM_INFO reports.                             *)
(***************************************************************************)
\* The loop over the list adds v[i] for the i-th of n blocks.
SumTo(n, v) ==
  LET sum[i \in 0..n] == IF i = 0 THEN 0 ELSE sum[i - 1] + v[i]
  IN  sum[n]

total_blocks(bs) == Len(bs)
free_blocks(bs)  == SumTo(Len(bs), [i \in 1..Len(bs) |-> IF bs[i].free THEN 1 ELSE 0])

total_size(bs) == SumTo(Len(bs), [i \in 1..Len(bs) |-> bs[i].size + Header])

\* Memory in use counts with its headers and free memory without.
used_size(bs) ==
  SumTo(Len(bs), [i \in 1..Len(bs) |-> IF bs[i].free THEN 0 ELSE bs[i].size + Header])
free_size(bs) ==
  SumTo(Len(bs), [i \in 1..Len(bs) |-> IF bs[i].free THEN bs[i].size ELSE 0])

-----------------------------------------------------------------------------
(***************************************************************************)
(* Properties.                                                             *)
(***************************************************************************)

\* The blocks tile the heap in list order: every next pointer is the address
\* right behind its block, none overlaps another. (malloc.c:31-37, 60-61)
Tiles ==
  /\ Len(blocks) >= 1
  /\ blocks[1].at = HeapStart
  /\ \A i \in 1..(Len(blocks) - 1) :
       blocks[i + 1].at = blocks[i].at + Header + blocks[i].size
  /\ \A i, j \in 1..Len(blocks) :
       i < j => blocks[i].at + Header + blocks[i].size <= blocks[j].at
  /\ blocks[Len(blocks)].at + Header + blocks[Len(blocks)].size = HeapEnd

\* What is held is exactly what is marked as taken, each block large enough
\* for what was asked. (malloc.c:28-41)
HeldIsTaken ==
  /\ \A p \in DOMAIN live : \E i \in 1..Len(blocks) :
       /\ blocks[i].at + Header = p
       /\ ~blocks[i].free
       /\ live[p] <= blocks[i].size
  /\ \A i \in 1..Len(blocks) : ~blocks[i].free => blocks[i].at + Header \in DOMAIN live

\* Outside of kfree no two free blocks are neighbours. (malloc.c:57-65)
Coalesced ==
  curr = 0 => \A i \in 1..(Len(blocks) - 1) : ~(blocks[i].free /\ blocks[i + 1].free)

\* Whatever was allocated and released in whatever order, a heap nobody holds
\* a block of is the one large block it was at the start.
EmptyHeapIsWhole ==
  DOMAIN live = {} /\ curr = 0 =>
    blocks = <<[at |-> HeapStart, size |-> HeapSize - Header, free |-> TRUE]>>

\* Two payloads never share a byte, nor reach past the heap.
PayloadsDisjoint ==
  \A p \in DOMAIN live :
    /\ p + live[p] <= HeapEnd
    /\ \A q \in DOMAIN live : p < q => p + live[p] <= q - Header

\* What the owners of the taken blocks asked for, rounded up, with the headers.
AskedFor(bs, held) ==
  SumTo(Len(bs), [i \in 1..Len(bs) |->
                    IF bs[i].free THEN 0 ELSE Aligned(held[bs[i].at + Header]) + Header])

\* What SYS_MEM_INFO reports accounts for the heap and for its owners: used
\* memory, free memory and the headers of the free blocks are all of it, and
\* after whatever calls what is reported as used is what the owners asked for
\* and at most Header + 4 bytes more for each of them. (malloc.c:31, 68-88)
InfoAddsUp ==
  LET owners == total_blocks(blocks) - free_blocks(blocks)
      asked  == AskedFor(blocks, live)
  IN  /\ total_size(blocks) = HeapSize
      /\ used_size(blocks) + free_size(blocks) + Header * free_blocks(blocks) = HeapSize
      /\ asked <= used_size(blocks)
      /\ used_size(blocks) <= asked + (Header + 4) * owners

\* The loop of kfree ends. (malloc.c:58-65)
FreeEnds == curr # 0 ~> curr = 0

\* The heap as its callers see it.
Abstract == INSTANCE Allocator WITH
              Lowest <- HeapStart, Limit <- HeapEnd, Sizes <- Requests, held <- live

AllocatorSpec == Abstract!Spec
=============================================================================
