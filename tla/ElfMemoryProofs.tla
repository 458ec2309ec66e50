-------------------------- MODULE ElfMemoryProofs --------------------------
(***************************************************************************)
(* Proofs about ElfMemory: a program's memory is its own, its image is not *)
(* shared, and what brk and mmap grant is sound, for any number of frames, *)
(* programs and pages.                                                     *)
(***************************************************************************)
EXTENDS ElfMemory, TLAPS

USE MemoryOK DEF progVars

\* The first page of the last table, which is never mapped, and the first
\* byte behind a program's image.
Top == (Tables - 1) * TablePages
Low == (Last + 1) * PageSize

-----------------------------------------------------------------------------
(***************************************************************************)
(* Arithmetic of pages.                                                    *)
(***************************************************************************)
LEMMA TimesKeepsOrder ==
  ASSUME NEW a \in Nat, NEW b \in Nat, NEW c \in Nat \ {0}
  PROVE  /\ a <= b => a * c <= b * c
         /\ a * c < b * c => a < b
         /\ a * c \in Nat
<1>1. ASSUME NEW x \in Nat, NEW y \in Nat, x <= y PROVE x * c <= y * c
  <2>1. y - x \in Nat /\ (y - x) * c \in Nat /\ y = x + (y - x)
    BY <1>1
  <2>2. y * c = x * c + (y - x) * c
    BY <2>1
  <2>3. x * c \in Nat /\ y * c \in Nat
    OBVIOUS
  <2> QED BY <2>1, <2>2, <2>3
<1>2. a <= b => a * c <= b * c
  BY <1>1
<1>3. ASSUME a * c < b * c PROVE a < b
  <2>1. b <= a => b * c <= a * c
    BY <1>1
  <2> QED BY <1>3, <2>1
<1> QED BY <1>2, <1>3

LEMMA TopFacts ==
  /\ Top \in Page /\ Top \notin Image /\ Last + 1 <= Top /\ Top \in Nat
  /\ TableOf(Top) = Tables - 1 /\ TableOf(Top) \in Table
  /\ Word = (Top + TablePages) * PageSize /\ Top * PageSize + PageSize <= Word
  /\ Low \in Nat /\ Top * PageSize \in Nat /\ Low <= Top * PageSize
  /\ First \in Nat /\ Last \in Nat /\ Word \in Nat
<1>1. Top \in Nat /\ First \in Nat /\ Last \in Nat
  <2>1. Tables - 1 \in Nat /\ First \in Nat /\ Last \in Nat
    BY DEF Page
  <2> QED BY <2>1, TimesKeepsOrder DEF Top
<1>2. Tables * TablePages = Top + TablePages
  BY DEF Top
<1>3. Top \in Page /\ Top \notin Image /\ Last + 1 <= Top
  BY <1>1, <1>2 DEF Page, Image, Top
<1>4. TableOf(Top) = Tables - 1 /\ TableOf(Top) \in Table
  <2>1. ((Tables - 1) * TablePages) \div TablePages = Tables - 1
    <3>1. ASSUME NEW a \in Nat, NEW b \in Nat \ {0} PROVE (a * b) \div b = a
      BY <3>1
    <3> QED BY <3>1
  <2> QED BY <2>1 DEF TableOf, Top, Table
<1>5. /\ Word = (Top + TablePages) * PageSize
      /\ Word = Top * PageSize + TablePages * PageSize
      /\ TablePages * PageSize >= PageSize
  <2>1. Word = (Top + TablePages) * PageSize
    BY <1>2 DEF Word
  <2>2. (Top + TablePages) * PageSize = Top * PageSize + TablePages * PageSize
    BY <1>1
  <2>3. 1 * PageSize <= TablePages * PageSize
    BY TimesKeepsOrder
  <2> QED BY <2>1, <2>2, <2>3
<1>6. Low \in Nat /\ Top * PageSize \in Nat /\ Low <= Top * PageSize
  BY <1>1, <1>3, TimesKeepsOrder DEF Low
<1>7. TablePages * PageSize \in Nat
  BY TimesKeepsOrder
<1> QED BY <1>1, <1>3, <1>4, <1>5, <1>6, <1>7

\* Rounding up stays between two multiples of the page size.
LEMMA RoundUpBounds ==
  ASSUME NEW n \in Nat, n + PageSize - 1 < Word
  PROVE  /\ RoundUp(n) \in Nat /\ n <= RoundUp(n)
         /\ \A k \in Nat : n <= k * PageSize => RoundUp(n) <= k * PageSize
<1> DEFINE m == n + PageSize - 1
           q == m \div PageSize
<1>1. m \in Nat /\ m % Word = m
  BY TopFacts
<1>2. q \in Nat /\ m = q * PageSize + (m % PageSize) /\ m % PageSize \in 0..(PageSize - 1)
  BY <1>1
<1>3. RoundUp(n) = q * PageSize
  BY <1>1 DEF RoundUp
<1>4. q * PageSize \in Nat
  BY <1>2, TimesKeepsOrder
<1> HIDE DEF q
<1>5. n <= q * PageSize
  BY <1>1, <1>2, <1>4
<1>6. ASSUME NEW k \in Nat, n <= k * PageSize PROVE q * PageSize <= k * PageSize
  <2>1. k * PageSize \in Nat /\ (k + 1) * PageSize = k * PageSize + PageSize
    BY TimesKeepsOrder
  <2>2. q * PageSize < (k + 1) * PageSize
    BY <1>1, <1>2, <1>4, <1>6, <2>1
  <2>3. q < k + 1
    BY <1>2, <2>2, TimesKeepsOrder
  <2> QED BY <1>2, <2>3, TimesKeepsOrder
<1> QED BY <1>3, <1>4, <1>5, <1>6

LEMMA TableOfPage ==
  ASSUME NEW v \in Page
  PROVE  TableOf(v) \in Table
<1> DEFINE q == v \div TablePages
<1>1. v \in Nat /\ v < Tables * TablePages
  BY TimesKeepsOrder DEF Page
<1>2. q \in Nat /\ q * TablePages <= v
  <2>1. q \in Nat /\ v = q * TablePages + (v % TablePages) /\ v % TablePages \in Nat
    BY <1>1
  <2> QED BY <1>1, <2>1, TimesKeepsOrder
<1> HIDE DEF q
<1>3. q * TablePages < Tables * TablePages
  <2>1. q * TablePages \in Nat /\ Tables * TablePages \in Nat
    BY <1>2, TimesKeepsOrder
  <2> QED BY <1>1, <1>2, <2>1
<1>4. q < Tables
  BY <1>2, <1>3, TimesKeepsOrder
<1> QED BY <1>2, <1>4 DEF TableOf, Table, q

-----------------------------------------------------------------------------
(***************************************************************************)
(* The invariant.                                                          *)
(***************************************************************************)
\* The last table of every directory stays empty: brk and mmap end below it.
TopIsNone == \A p \in Program : page[p][Top] = None

Bounds ==
  /\ pc \in {"load", "run"} => loaded \in Program
  /\ pc = "run" => /\ brk_end \in Low..(Top * PageSize)
                   /\ known \in Low..(Top * PageSize)
                   /\ at = Last + 1
  /\ \A g \in grants : g.from \in Low..(Top * PageSize)

\* The pages of the image that were loaded are frames.
ImageSoFar ==
  pc \in {"load", "run"} /\ ~NoFrame(used) =>
    \A v \in First..(at - 1) : page[loaded][v] \in Frame

IInv == TypeOK /\ FramesExclusive /\ TopIsNone /\ Bounds /\ ImageSoFar

LEMMA InitIInv == Init => IInv
<1> SUFFICES ASSUME Init PROVE IInv
  OBVIOUS
<1> USE TopFacts DEF Init
<1>1. TypeOK
  <2>1. stale \in BOOLEAN
    OBVIOUS
  <2> QED BY <2>1 DEF TypeOK
<1>2. None \notin Frame
  BY DEF None, Frame
<1>3. FramesExclusive
  BY <1>2 DEF FramesExclusive
<1>4. TopIsNone /\ Bounds /\ ImageSoFar
  BY DEF TopIsNone, Bounds, ImageSoFar
<1> QED BY <1>1, <1>3, <1>4 DEF IInv

-----------------------------------------------------------------------------
(***************************************************************************)
(* Loading.                                                                *)
(***************************************************************************)
\* What the load of a page may do to the running program's directory.
PageLoad(x, y) ==
  /\ page' = [page EXCEPT ![loaded][at] = x]
  /\ table' = [table EXCEPT ![loaded][TableOf(at)] = y]
  /\ used' \in SUBSET Frame /\ used \subseteq used'
  /\ x = page[loaded][at] \/ (x \notin used /\ x \in used')
  /\ y = table[loaded][TableOf(at)] \/ (y \notin used /\ y \in used')
  /\ x # y \/ (x = page[loaded][at] /\ y = table[loaded][TableOf(at)])
  /\ NoFrame(used') \/ x \in Frame

LEMMA StillExclusive ==
  ASSUME FramesExclusive, loaded \in Program, NEW x, NEW y, PageLoad(x, y),
         \A p \in Program, v \in Page :
           page'[p][v] = IF p = loaded /\ v = at THEN x ELSE page[p][v],
         \A p \in Program, t \in Table :
           table'[p][t] = IF p = loaded /\ t = TableOf(at) THEN y ELSE table[p][t]
  PROVE  FramesExclusive'
<1>0. /\ used \subseteq used'
      /\ x = page[loaded][at] \/ (x \notin used /\ x \in used')
      /\ y = table[loaded][TableOf(at)] \/ (y \notin used /\ y \in used')
      /\ x # y \/ (x = page[loaded][at] /\ y = table[loaded][TableOf(at)])
  BY DEF PageLoad
<1> SUFFICES ASSUME NEW p \in Program, NEW q \in Program
             PROVE  /\ \A v, w \in Page :
                         page'[p][v] \in Frame /\ page'[p][v] = page'[q][w]
                           => p = q /\ v = w
                    /\ \A t, u \in Table :
                         table'[p][t] \in Frame /\ table'[p][t] = table'[q][u]
                           => p = q /\ t = u
                    /\ \A v \in Page, t \in Table :
                         page'[p][v] \in Frame => page'[p][v] # table'[q][t]
                    /\ \A v \in Page : page'[p][v] \in Frame => page'[p][v] \in used'
                    /\ \A t \in Table : table'[p][t] \in Frame => table'[p][t] \in used'
  BY DEF FramesExclusive
<1>1. \A r \in Program, v \in Page : page[r][v] \in Frame => page[r][v] \in used
  BY DEF FramesExclusive
<1>2. \A r \in Program, t \in Table : table[r][t] \in Frame => table[r][t] \in used
  BY DEF FramesExclusive
<1>3. ASSUME NEW v \in Page, NEW w \in Page,
             page'[p][v] \in Frame, page'[p][v] = page'[q][w]
      PROVE  p = q /\ v = w
  BY <1>0, <1>1, <1>3 DEF FramesExclusive
<1>4. ASSUME NEW t \in Table, NEW u \in Table,
             table'[p][t] \in Frame, table'[p][t] = table'[q][u]
      PROVE  p = q /\ t = u
  BY <1>0, <1>2, <1>4 DEF FramesExclusive
<1>5. ASSUME NEW v \in Page, NEW t \in Table, page'[p][v] \in Frame
      PROVE  page'[p][v] # table'[q][t]
  BY <1>0, <1>1, <1>2, <1>5 DEF FramesExclusive
<1>6. \A v \in Page : page'[p][v] \in Frame => page'[p][v] \in used'
  BY <1>0, <1>1
<1>7. \A t \in Table : table'[p][t] \in Frame => table'[p][t] \in used'
  BY <1>0, <1>2
<1> QED BY <1>3, <1>4, <1>5, <1>6, <1>7

LEMMA LoadPageStep ==
  ASSUME IInv, LoadPage
  PROVE  IInv'
<1>0. /\ pc = "load" /\ pc' = "load" /\ loaded \in Program /\ loaded' = loaded
      /\ at \in First..Last /\ at' = at + 1 /\ at \in Page /\ at # Top /\ TableOf(at) \in Table
      /\ UNCHANGED progVars
      /\ table \in [Program -> [Table -> Frame \cup {Same, None}]]
      /\ page \in [Program -> [Page -> Frame \cup {Same, None}]]
  <2>1. pc = "load" /\ at \in First..Last
    BY TopFacts DEF LoadPage, IInv, TypeOK
  <2>2. at \in Page /\ at # Top
    BY <2>1, TopFacts DEF Page, Image
  <2> QED BY <2>1, <2>2, TableOfPage DEF LoadPage, IInv, Bounds, TypeOK
<1>1. \E x, y \in Frame \cup {Same, None} : PageLoad(x, y)
  <2>0. used \in SUBSET Frame
    BY DEF IInv, TypeOK
  <2>1. /\ page = [page EXCEPT ![loaded][at] = page[loaded][at]]
        /\ table = [table EXCEPT ![loaded][TableOf(at)] = table[loaded][TableOf(at)]]
        /\ page[loaded][at] \in Frame \cup {Same, None}
        /\ table[loaded][TableOf(at)] \in Frame \cup {Same, None}
    BY <1>0
  <2>2. CASE NoFrame(used) /\ UNCHANGED <<used, table, page>>
    <3>1. PageLoad(page[loaded][at], table[loaded][TableOf(at)])
      BY <2>0, <2>1, <2>2 DEF PageLoad
    <3> QED BY <2>1, <3>1
  <2>3. ASSUME NEW f \in Frame, pmm_alloc(f, used), table[loaded][TableOf(at)] \in Frame,
               used' = used \cup {f}, Maps(loaded, f), UNCHANGED table
        PROVE  \E x, y \in Frame \cup {Same, None} : PageLoad(x, y)
    <3>1. table[loaded][TableOf(at)] \in used
      BY <1>0, <2>3 DEF IInv, FramesExclusive
    <3>2. PageLoad(f, table[loaded][TableOf(at)])
      BY <2>0, <2>1, <2>3, <3>1 DEF PageLoad, pmm_alloc, Maps
    <3> QED BY <2>1, <3>2
  <2>4. ASSUME NEW f \in Frame, NEW g \in Frame,
               pmm_alloc(f, used), pmm_alloc(g, used \cup {f}), used' = used \cup {f, g},
               table' = [table EXCEPT ![loaded][TableOf(at)] = g], Maps(loaded, f)
        PROVE  \E x, y \in Frame \cup {Same, None} : PageLoad(x, y)
    <3>1. f # g /\ f \notin used /\ g \notin used
      BY <2>4 DEF pmm_alloc
    <3>2. PageLoad(f, g)
      BY <2>0, <2>4, <3>1 DEF PageLoad, Maps
    <3> QED BY <3>2
  <2>5. ASSUME NEW f \in Frame, pmm_alloc(f, used), NoFrame(used \cup {f}),
               used' = used \cup {f}, UNCHANGED <<table, page>>
        PROVE  \E x, y \in Frame \cup {Same, None} : PageLoad(x, y)
    <3>1. PageLoad(page[loaded][at], table[loaded][TableOf(at)])
      BY <2>0, <2>1, <2>5 DEF PageLoad
    <3> QED BY <2>1, <3>1
  <2> QED BY <2>2, <2>3, <2>4, <2>5 DEF LoadPage
<1>1a. PICK x, y \in Frame \cup {Same, None} : PageLoad(x, y)
  BY <1>1
<1>2. /\ \A p \in Program, v \in Page :
           page'[p][v] = IF p = loaded /\ v = at THEN x ELSE page[p][v]
      /\ \A p \in Program, t \in Table :
           table'[p][t] = IF p = loaded /\ t = TableOf(at) THEN y ELSE table[p][t]
      /\ page' \in [Program -> [Page -> Frame \cup {Same, None}]]
      /\ table' \in [Program -> [Table -> Frame \cup {Same, None}]]
  BY <1>0, <1>1a DEF PageLoad
<1>3. TypeOK'
  BY <1>0, <1>1a, <1>2, TopFacts DEF IInv, TypeOK, PageLoad
<1>4. FramesExclusive'
  BY <1>0, <1>1a, <1>2, StillExclusive DEF IInv
<1>5. TopIsNone'
  BY <1>0, <1>2, TopFacts DEF IInv, TopIsNone
<1>6. Bounds'
  BY <1>0 DEF IInv, Bounds
<1>7. ImageSoFar'
  <2> SUFFICES ASSUME ~NoFrame(used'), NEW v \in First..at
               PROVE  page'[loaded][v] \in Frame
    BY <1>0, TopFacts DEF ImageSoFar
  <2>1. ~NoFrame(used)
    BY <1>1a DEF NoFrame, PageLoad
  <2>2. v \in Page
    BY <1>0, TopFacts DEF Page
  <2>3. v # at => page[loaded][v] \in Frame
    BY <1>0, <2>1, TopFacts DEF IInv, ImageSoFar
  <2> QED BY <1>0, <1>1a, <1>2, <2>2, <2>3 DEF PageLoad
<1> QED BY <1>3, <1>4, <1>5, <1>6, <1>7 DEF IInv

LEMMA LoadStep ==
  ASSUME IInv, Load
  PROVE  IInv'
<1> DEFINE p0 == loaded + 1
<1>1. /\ p0 \in Program /\ loaded' = p0 /\ pc' = "load" /\ at' = First
      /\ UNCHANGED <<used, progVars>>
      /\ table \in [Program -> [Table -> Frame \cup {Same, None}]]
      /\ page \in [Program -> [Page -> Frame \cup {Same, None}]]
  BY DEF IInv, TypeOK, Load, Program
<1>2. /\ \A p \in Program \ {p0} : page'[p] = page[p] /\ table'[p] = table[p]
      /\ \A v \in Page :
           page'[p0][v] = IF TableOf(v) < SameTables THEN Same ELSE None
      /\ \A t \in Table : table'[p0][t] = IF t < SameTables THEN Same ELSE None
      /\ page' \in [Program -> [Page -> Frame \cup {Same, None}]]
      /\ table' \in [Program -> [Table -> Frame \cup {Same, None}]]
  BY <1>1 DEF Load
<1>3. Same \notin Frame /\ None \notin Frame
  BY DEF Same, None, Frame
<1> HIDE DEF p0
<1>4. /\ \A v \in Page : page'[p0][v] \notin Frame
      /\ \A t \in Table : table'[p0][t] \notin Frame
  BY <1>2, <1>3
<1>5. TypeOK'
  BY <1>1, <1>2, TopFacts DEF IInv, TypeOK, Program
<1>6. FramesExclusive'
  <2>1. ASSUME NEW p \in Program, NEW v \in Page, page'[p][v] \in Frame
        PROVE  p # p0 /\ page'[p][v] = page[p][v]
    BY <1>2, <1>4, <2>1
  <2>2. ASSUME NEW p \in Program, NEW t \in Table, table'[p][t] \in Frame
        PROVE  p # p0 /\ table'[p][t] = table[p][t]
    BY <1>2, <1>4, <2>2
  <2>3. ASSUME NEW p \in Program, NEW q \in Program
        PROVE  /\ \A v, w \in Page :
                    page'[p][v] \in Frame /\ page'[p][v] = page'[q][w] => p = q /\ v = w
               /\ \A t, u \in Table :
                    table'[p][t] \in Frame /\ table'[p][t] = table'[q][u] => p = q /\ t = u
    BY <2>1, <2>2 DEF IInv, FramesExclusive
  <2>4. ASSUME NEW p \in Program, NEW q \in Program
        PROVE  /\ \A v \in Page, t \in Table :
                    page'[p][v] \in Frame => page'[p][v] # table'[q][t]
               /\ \A v \in Page : page'[p][v] \in Frame => page'[p][v] \in used'
               /\ \A t \in Table : table'[p][t] \in Frame => table'[p][t] \in used'
    BY <1>1, <2>1, <2>2 DEF IInv, FramesExclusive
  <2> QED BY <2>3, <2>4 DEF FramesExclusive
<1>7. TopIsNone'
  <2>1. ~(TableOf(Top) < SameTables)
    BY TopFacts
  <2> QED BY <1>2, <2>1, TopFacts DEF IInv, TopIsNone
<1>8. Bounds' /\ ImageSoFar'
  BY <1>1, TopFacts DEF IInv, Bounds, ImageSoFar
<1> QED BY <1>5, <1>6, <1>7, <1>8 DEF IInv

-----------------------------------------------------------------------------
(***************************************************************************)
(* Running: directories and frames stay as they are.                       *)
(***************************************************************************)
LEMMA Unmoved ==
  ASSUME IInv, UNCHANGED <<used, table, page>>
  PROVE  FramesExclusive' /\ TopIsNone'
BY DEF IInv, FramesExclusive, TopIsNone

\* What is mapped ends below the last table.
LEMMA MappedEnd ==
  ASSUME IInv, pc = "run", NEW from \in Nat, NEW to \in Nat,
         from <= Top * PageSize, Mapped(from, to)
  PROVE  to <= Top * PageSize
<1> SUFFICES ASSUME to > Top * PageSize PROVE FALSE
  BY TopFacts
<1>1. (Top + 1) * PageSize = Top * PageSize + PageSize
  BY TopFacts
<1>2. (Top + 1) * PageSize > from
  BY <1>1, TopFacts
<1>3. page[loaded][Top] # None
  BY <1>2, TopFacts DEF Mapped
<1> QED BY <1>3 DEF IInv, Bounds, TopIsNone

LEMMA StartFacts ==
  ASSUME IInv, pc = "run"
  PROVE  /\ Start(brk_end) \in Low..(Top * PageSize)
         /\ brk_end <= Start(brk_end)
<1>1. brk_end \in Low..(Top * PageSize) /\ brk_end \in Nat
  BY TopFacts DEF IInv, Bounds
<1>2. brk_end + PageSize - 1 < Word
  BY <1>1, TopFacts
<1>3. RoundUp(brk_end) \in Nat /\ brk_end <= RoundUp(brk_end)
  BY <1>1, <1>2, RoundUpBounds
<1>4. RoundUp(brk_end) <= Top * PageSize
  BY <1>1, <1>2, RoundUpBounds, TopFacts
<1> QED BY <1>1, <1>3, <1>4, TopFacts DEF Start

LEMMA LengthType ==
  ASSUME NEW n \in Nat, NEW pages \in BOOLEAN
  PROVE  Length(n, pages) \in Nat /\ n * PageSize \in Nat
<1>1. ASSUME NEW m \in Nat PROVE RoundUp(m) \in Nat
  <2>1. (m + PageSize - 1) % Word \in Nat
    BY TopFacts
  <2>2. ((m + PageSize - 1) % Word) \div PageSize \in Nat
    BY <2>1
  <2> QED BY <2>2, TimesKeepsOrder DEF RoundUp
<1>2. n * PageSize \in Nat /\ (n * PageSize) % Word \in Nat
  <2>1. n * PageSize \in Nat
    BY TimesKeepsOrder
  <2> QED BY <2>1, TopFacts
<1> QED BY <1>1, <1>2 DEF Length

LEMMA RunStep ==
  ASSUME IInv,
         \/ Enter \/ Exit \/ AskBreak
         \/ \E n \in Sizes : Grow(n) \/ mmap(n, FALSE) \/ mmap(n, TRUE) \/ Halt(n)
         \/ \E g \in grants : GiveBack(g)
  PROVE  IInv'
<1>1. UNCHANGED <<used, table, page, loaded, at>>
  BY DEF Enter, Exit, AskBreak, Grow, mmap, Halt, GiveBack
<1>2. FramesExclusive' /\ TopIsNone'
  BY <1>1, Unmoved
<1>3. CASE Enter
  <2>1. at = Last + 1 /\ loaded \in Program
    BY <1>3, TopFacts DEF Enter, IInv, TypeOK, Bounds
  <2>2. TypeOK'
    <3>1. stale' \in BOOLEAN
      BY <1>3 DEF Enter
    <3>2. brk_end' \in 0..Word /\ known' \in 0..Word
      BY <1>3, TopFacts DEF Enter, Low
    <3>3. grants' \in SUBSET Range /\ pc' \in {"idle", "load", "run", "halted"}
      BY <1>3 DEF Enter
    <3> QED BY <1>1, <3>1, <3>2, <3>3 DEF IInv, TypeOK
  <2>3. Bounds'
    BY <1>1, <1>3, <2>1, TopFacts DEF Enter, IInv, Bounds, Low
  <2>4. ImageSoFar'
    BY <1>1, <1>3 DEF Enter, IInv, ImageSoFar, NoFrame
  <2> QED BY <1>2, <2>2, <2>3, <2>4 DEF IInv
<1>4. CASE Exit
  <2>1. TypeOK' /\ Bounds' /\ ImageSoFar'
    BY <1>1, <1>4 DEF Exit, IInv, TypeOK, Bounds, ImageSoFar
  <2> QED BY <1>2, <2>1 DEF IInv
<1>5. CASE AskBreak
  <2>1. TypeOK' /\ Bounds' /\ ImageSoFar'
    BY <1>1, <1>5 DEF AskBreak, IInv, TypeOK, Bounds, ImageSoFar, NoFrame
  <2> QED BY <1>2, <2>1 DEF IInv
<1>6. ASSUME NEW n \in Sizes, Grow(n) PROVE IInv'
  <2>1. /\ known \in Low..(Top * PageSize) /\ brk_end \in Low..(Top * PageSize)
        /\ n \in Nat /\ known + n \in Nat /\ brk_end \in Nat
    BY <1>6, TopFacts DEF Grow, IInv, Bounds
  <2>2. known + n \in Low..(Top * PageSize)
    BY <1>6, <2>1, MappedEnd, TopFacts DEF Grow, Asked
  <2>3. Grant(known, known + n, "brk") \in Range
    BY <2>1, TopFacts DEF Grant, Range
  <2>4. TypeOK'
    <3>1. grants' \in SUBSET Range
      BY <1>6, <2>3 DEF Grow, Asked, IInv, TypeOK
    <3>2. known + n \in 0..Word
      BY <2>2, TopFacts
    <3>3. brk_end' \in 0..Word /\ known' \in 0..Word /\ pc' = pc /\ stale' \in BOOLEAN
      BY <1>6, <3>2 DEF Grow, Asked, MovesStale
    <3> QED BY <1>1, <3>1, <3>3 DEF IInv, TypeOK
  <2>5. Bounds'
    BY <1>1, <1>6, <2>1, <2>2 DEF Grow, Asked, IInv, Bounds, Grant
  <2>6. ImageSoFar'
    BY <1>1, <1>6 DEF Grow, IInv, ImageSoFar, NoFrame
  <2> QED BY <1>2, <2>4, <2>5, <2>6 DEF IInv
<1>7. ASSUME NEW n \in Sizes, NEW pages \in BOOLEAN, mmap(n, pages) PROVE IInv'
  <2> DEFINE from == Start(brk_end)
             to == from + Length(n, pages)
  <2>1. /\ from \in Low..(Top * PageSize) /\ from \in Nat /\ to \in Nat
        /\ n \in Nat /\ n * PageSize \in Nat /\ Length(n, pages) \in Nat
    BY <1>7, StartFacts, LengthType, TopFacts DEF mmap
  <2>2. to \in Low..(Top * PageSize)
    BY <1>7, <2>1, MappedEnd, TopFacts DEF mmap
  <2>3. PICK g : g = Grant(from, from + (IF pages THEN n * PageSize ELSE n), "mmap")
    OBVIOUS
  <2>4. g \in Range /\ g.from = from
    BY <2>1, <2>3 DEF Grant, Range
  <2>5. pc = "run" /\ pc' = "run" /\ brk_end' = to /\ grants' = grants \cup {g}
        /\ UNCHANGED <<known, stale>>
    BY <1>7, <2>3 DEF mmap
  <2> HIDE DEF from, to
  <2>6. TypeOK'
    <3>1. grants' \in SUBSET Range
      BY <2>4, <2>5 DEF IInv, TypeOK
    <3>2. to \in 0..Word
      BY <2>2, TopFacts
    <3> QED BY <1>1, <2>5, <3>1, <3>2 DEF IInv, TypeOK
  <2>7. Bounds'
    BY <1>1, <2>1, <2>2, <2>4, <2>5 DEF IInv, Bounds
  <2>8. ImageSoFar'
    BY <1>1, <2>5 DEF IInv, ImageSoFar, NoFrame
  <2> QED BY <1>2, <2>6, <2>7, <2>8 DEF IInv
<1>8. ASSUME NEW n \in Sizes, Halt(n) PROVE IInv'
  <2>1. TypeOK' /\ Bounds' /\ ImageSoFar'
    BY <1>1, <1>8 DEF Halt, IInv, TypeOK, Bounds, ImageSoFar
  <2> QED BY <1>2, <2>1 DEF IInv
<1>9. ASSUME NEW g \in grants, GiveBack(g) PROVE IInv'
  <2>1. g.from \in Low..(Top * PageSize)
    BY DEF IInv, Bounds
  <2>2. TypeOK'
    <3>1. stale' \in BOOLEAN
      BY <1>9 DEF GiveBack, MovesStale
    <3>2. brk_end' \in 0..Word /\ known' \in 0..Word
      BY <1>9, <2>1, TopFacts DEF GiveBack
    <3>3. grants' \in SUBSET Range /\ pc' \in {"idle", "load", "run", "halted"}
      BY <1>9 DEF GiveBack, IInv, TypeOK
    <3> QED BY <1>1, <3>1, <3>2, <3>3 DEF IInv, TypeOK
  <2>3. Bounds' /\ ImageSoFar'
    BY <1>1, <1>9, <2>1 DEF GiveBack, IInv, Bounds, ImageSoFar, NoFrame
  <2> QED BY <1>2, <2>2, <2>3 DEF IInv
<1> QED BY <1>3, <1>4, <1>5, <1>6, <1>7, <1>8, <1>9

LEMMA StepIInv == IInv /\ [Next]_vars => IInv'
<1> SUFFICES ASSUME IInv, [Next]_vars PROVE IInv'
  OBVIOUS
<1>1. CASE UNCHANGED vars
  <2>1. TypeOK' /\ Bounds' /\ ImageSoFar'
    BY <1>1 DEF vars, IInv, TypeOK, Bounds, ImageSoFar, NoFrame
  <2>2. FramesExclusive' /\ TopIsNone'
    BY <1>1, Unmoved DEF vars
  <2> QED BY <2>1, <2>2 DEF IInv
<1> QED BY <1>1, LoadPageStep, LoadStep, RunStep DEF Next

-----------------------------------------------------------------------------
(***************************************************************************)
(* Theorems.                                                               *)
(***************************************************************************)
LEMMA Invariant == Spec => []IInv
BY InitIInv, StepIInv, PTL DEF Spec

\* Every variable of ElfMemory keeps its type: the bitmap, the directories and
\* the break, which never passes 2^32 (pmm.c:3-19, paging.c:65-106).
THEOREM MemoryTypeCorrect == Spec => []TypeOK
<1>1. IInv => TypeOK
  BY DEF IInv
<1> QED BY <1>1, Invariant, PTL

\* No two pages of a running program are one physical page, and none is a page
\* table or was given to an earlier program (pmm.c:10-19, paging.c:19-63).
THEOREM ProgramMemoryIsOwn == Spec => []MemoryIsOwn
<1>1. IInv => MemoryIsOwn
  <2> SUFFICES ASSUME IInv, pc = "run" PROVE MemoryIsOwn
    BY DEF MemoryIsOwn
  <2>1. loaded \in Program
    BY DEF IInv, Bounds
  <2>2. ASSUME NEW v \in Held PROVE v \in Page /\ v >= First
    <3>1. CASE v \in Image
      BY <3>1, TopFacts DEF Image, Page
    <3>2. ASSUME v \in Page, NEW g \in grants, Covers(g, v) PROVE v >= First
      <4>1. g.from >= Low /\ g.from \in Nat /\ g.to \in Nat
        BY TopFacts DEF IInv, Bounds, TypeOK, Range
      <4>2. v \in Nat /\ v + 1 \in Nat /\ Last + 1 \in Nat
        BY <3>2, TopFacts DEF Page
      <4>3. (Last + 1) * PageSize < (v + 1) * PageSize
        <5>1. (v + 1) * PageSize \in Nat
          BY <4>2, TimesKeepsOrder
        <5> QED BY <3>2, <4>1, <5>1, TopFacts DEF Covers, Low
      <4>4. Last + 1 < v + 1
        BY <4>2, <4>3, TimesKeepsOrder
      <4> QED BY <4>2, <4>4, TopFacts
    <3> QED BY <3>1, <3>2 DEF Held
  <2>3. \A f \in Frame : FrameBase + f < First
    BY TopFacts DEF Frame
  <2>4. \A v \in Held, w \in Held : Physical(loaded, v) = Physical(loaded, w) => v = w
    <3> SUFFICES ASSUME NEW v \in Held, NEW w \in Held,
                        Physical(loaded, v) = Physical(loaded, w)
                 PROVE  v = w
      OBVIOUS
    <3>1. v \in Page /\ w \in Page /\ v >= First /\ w >= First /\ v \in Nat /\ w \in Nat
      BY <2>2 DEF Page
    <3>2. CASE page[loaded][v] \in Frame /\ page[loaded][w] \in Frame
      <4>1. page[loaded][v] = page[loaded][w]
        BY <3>2 DEF Physical, Frame
      <4> QED BY <2>1, <3>1, <3>2, <4>1 DEF IInv, FramesExclusive
    <3>3. CASE page[loaded][v] \notin Frame /\ page[loaded][w] \notin Frame
      BY <3>3 DEF Physical
    <3>4. CASE page[loaded][v] \in Frame /\ page[loaded][w] \notin Frame
      BY <2>3, <3>1, <3>4, TopFacts DEF Physical, Frame
    <3>5. CASE page[loaded][v] \notin Frame /\ page[loaded][w] \in Frame
      BY <2>3, <3>1, <3>5, TopFacts DEF Physical, Frame
    <3> QED BY <3>2, <3>3, <3>4, <3>5
  <2>5. ASSUME NEW v \in Held, NEW f \in Frame, Physical(loaded, v) = FrameBase + f
        PROVE  page[loaded][v] = f
    <3>1. v >= First /\ v \in Nat
      BY <2>2 DEF Page
    <3> QED BY <2>3, <2>5, <3>1, TopFacts DEF Physical, Frame
  <2>6. ASSUME NEW v \in Held, NEW p \in Program, NEW t \in Table, table[p][t] \in Frame
        PROVE  Physical(loaded, v) # FrameBase + table[p][t]
    BY <2>1, <2>2, <2>5, <2>6 DEF IInv, FramesExclusive
  <2>7. ASSUME NEW v \in Held, NEW p \in Program \ {loaded}, NEW w \in Page,
               page[p][w] \in Frame
        PROVE  Physical(loaded, v) # FrameBase + page[p][w]
    BY <2>1, <2>2, <2>5, <2>7 DEF IInv, FramesExclusive
  <2> QED BY <2>4, <2>6, <2>7 DEF MemoryIsOwn
<1> QED BY <1>1, Invariant, PTL

\* While there are frames, the image of a running program lies in frames of
\* its own and not in the pages all programs share (elf.c:124-136).
THEOREM ImageInFrames == Spec => []ImageIsPrivate
<1>1. IInv => ImageIsPrivate
  <2>1. IInv /\ pc = "run" => First..(at - 1) = Image
    BY TopFacts DEF IInv, Bounds, Image
  <2> QED BY <2>1 DEF IInv, ImageSoFar, ImageIsPrivate
<1> QED BY <1>1, Invariant, PTL

-----------------------------------------------------------------------------
(***************************************************************************)
(* What brk and mmap grant, also to a program that remembers its break.    *)
(***************************************************************************)

\* Everything from the image to the break is mapped, and the break a program
\* remembers is never above the kernel's.
BreakInv ==
  pc = "run" => known <= brk_end /\ Mapped(Low, brk_end)

GrantsInv ==
  pc = "run" =>
    /\ \A g \in grants : /\ Low <= g.from /\ g.from < g.to
                         /\ Whole(g) => Mapped(g.from, g.to)
                         /\ g.by = "brk" => Whole(g)
    /\ ~stale => /\ \A g \in grants : Whole(g) => g.to <= brk_end
                 /\ \A g, h \in grants : Whole(g) /\ Whole(h) /\ g # h => Disjoint(g, h)

LEMMA MappedLess ==
  ASSUME NEW from \in Nat, NEW to \in Nat, NEW low \in Nat, NEW end \in Nat,
         from <= low, end <= to, Mapped(from, to)
  PROVE  Mapped(low, end)
<1> SUFFICES ASSUME NEW v \in Page, (v + 1) * PageSize > low, v * PageSize < end
             PROVE  page[loaded][v] # None
  BY DEF Mapped
<1>1. v * PageSize \in Nat /\ (v + 1) * PageSize \in Nat
  BY TimesKeepsOrder DEF Page
<1> QED BY <1>1 DEF Mapped

\* Two mapped ranges make one when no page begins between them.
LEMMA MappedTogether ==
  ASSUME NEW a \in Nat, NEW b \in Nat, NEW c \in Nat, NEW d \in Nat,
         a <= b, b <= c, Mapped(a, b), Mapped(c, d),
         \A v \in Page : v * PageSize < c => v * PageSize < b
  PROVE  Mapped(a, d)
<1> SUFFICES ASSUME NEW v \in Page, (v + 1) * PageSize > a, v * PageSize < d
             PROVE  page[loaded][v] # None
  BY DEF Mapped
<1>1. v * PageSize \in Nat /\ (v + 1) * PageSize \in Nat
  BY TimesKeepsOrder DEF Page
<1>2. CASE v * PageSize < c
  BY <1>2 DEF Mapped
<1>3. CASE v * PageSize >= c
  <2>1. v * PageSize < (v + 1) * PageSize
    <3>1. v \in Nat
      BY DEF Page
    <3>2. (v + 1) * PageSize = v * PageSize + PageSize
      BY <3>1
    <3> QED BY <1>1, <3>2
  <2>2. (v + 1) * PageSize > c
    BY <1>1, <1>3, <2>1
  <2> QED BY <2>2 DEF Mapped
<1> QED BY <1>1, <1>2, <1>3

\* No page begins between the break and where mmap starts.
LEMMA NoPageBegins ==
  ASSUME IInv, pc = "run", NEW v \in Page, v * PageSize < Start(brk_end)
  PROVE  v * PageSize < brk_end
<1>1. brk_end \in Nat /\ brk_end + PageSize - 1 < Word
  BY TopFacts DEF IInv, Bounds
<1>2. v \in Nat /\ v * PageSize \in Nat
  BY TimesKeepsOrder DEF Page
<1>3. brk_end <= v * PageSize => Start(brk_end) <= v * PageSize
  BY <1>1, <1>2, RoundUpBounds DEF Start
<1>4. Start(brk_end) \in Nat
  BY StartFacts, TopFacts
<1> QED BY <1>1, <1>2, <1>3, <1>4

LEMMA NothingMappedAtLow == Mapped(Low, Low)
<1> SUFFICES ASSUME NEW v \in Page, (v + 1) * PageSize > Low, v * PageSize < Low
             PROVE  FALSE
  BY DEF Mapped
<1>1. v \in Nat /\ v + 1 \in Nat /\ Last + 1 \in Nat
  BY TopFacts DEF Page
<1>2. v < Last + 1
  BY <1>1, TimesKeepsOrder DEF Low
<1>3. Last + 1 < v + 1
  BY <1>1, TimesKeepsOrder DEF Low
<1> QED BY <1>1, <1>2, <1>3

\* How far mmap moves the break is enough, if the length fits in 32 bits.
LEMMA LengthCovers ==
  ASSUME NEW n \in Sizes, NEW pages \in BOOLEAN,
         (IF pages THEN n * PageSize ELSE n) <= Word - PageSize
  PROVE  (IF pages THEN n * PageSize ELSE n) <= Length(n, pages)
<1> DEFINE len == IF pages THEN n * PageSize ELSE n
<1>1. n \in Nat /\ n * PageSize \in Nat
  BY LengthType
<1>2. len \in Nat /\ len + PageSize - 1 < Word
  BY <1>1, TopFacts
<1>3. pages => len % Word = len
  BY <1>2, TopFacts
<1>4. Length(n, pages) = RoundUp(len)
  BY <1>3 DEF Length
<1> HIDE DEF len
<1> QED BY <1>2, <1>4, RoundUpBounds DEF len

LEMMA BreakStep ==
  ASSUME IInv, BreakInv, GrantsInv, [Next]_vars
  PROVE  BreakInv'
<1>0. Low \in Nat /\ \A h \in grants : h \in Range
  BY TopFacts DEF IInv, TypeOK
<1>1. CASE LoadPage \/ Load \/ Exit \/ \E n \in Sizes : Halt(n)
  BY <1>1 DEF LoadPage, Load, Exit, Halt, BreakInv
<1>2. CASE Enter
  <2>1. brk_end' = Low /\ known' = Low
    BY <1>2 DEF Enter, Low
  <2>2. Mapped(Low, Low)'
    BY <1>2, NothingMappedAtLow DEF Enter, Mapped
  <2> QED BY <1>0, <2>1, <2>2 DEF BreakInv
<1>3. CASE AskBreak \/ UNCHANGED vars
  BY <1>0, <1>3 DEF AskBreak, vars, BreakInv, Mapped, IInv, Bounds
<1>4. ASSUME NEW n \in Sizes, Grow(n) PROVE BreakInv'
  <2>1. /\ pc = "run" /\ brk_end \in Nat /\ known \in Nat /\ n \in Nat
        /\ known + n \in Nat /\ Low <= brk_end /\ UNCHANGED <<page, loaded>>
    BY <1>0, <1>4, TopFacts DEF Grow, IInv, Bounds
  <2>2. /\ brk_end' = known + n /\ known' = known + n
        /\ known + n > brk_end => Mapped(brk_end, known + n)
    BY <1>4 DEF Grow, Asked
  <2>3. Mapped(Low, brk_end)
    BY <2>1 DEF BreakInv
  <2>4. Mapped(Low, known + n)
    <3>1. CASE known + n <= brk_end
      BY <1>0, <2>1, <2>3, <3>1, MappedLess
    <3>2. CASE known + n > brk_end
      BY <1>0, <2>1, <2>2, <2>3, <3>2, MappedTogether
    <3> QED BY <2>1, <3>1, <3>2
  <2>5. PICK end \in Nat : end = known + n
    BY <2>1
  <2>6. Mapped(Low, end)'
    BY <2>1, <2>4, <2>5 DEF Mapped
  <2>7. brk_end' = end /\ known' = end
    BY <2>2, <2>5
  <2> QED BY <2>6, <2>7 DEF BreakInv, Mapped
<1>5. ASSUME NEW n \in Sizes, NEW pages \in BOOLEAN, mmap(n, pages) PROVE BreakInv'
  <2> DEFINE from == Start(brk_end)
             to == from + Length(n, pages)
  <2>1. /\ pc = "run" /\ UNCHANGED <<page, loaded, known>>
        /\ Mapped(from, to) /\ brk_end' = to
    BY <1>5 DEF mmap
  <2>2. /\ brk_end \in Nat /\ known \in Nat /\ known <= brk_end /\ Mapped(Low, brk_end)
        /\ Low <= brk_end
    BY <1>0, <2>1, TopFacts DEF IInv, Bounds, BreakInv
  <2>3. from \in Nat /\ brk_end <= from /\ to \in Nat /\ from <= to
    <3>1. from \in Nat /\ brk_end <= from
      BY <2>1, StartFacts, TopFacts
    <3>2. Length(n, pages) \in Nat
      BY LengthType
    <3> QED BY <3>1, <3>2
  <2>4. \A v \in Page : v * PageSize < from => v * PageSize < brk_end
    BY <2>1, NoPageBegins
  <2> HIDE DEF from, to
  <2>5. Mapped(Low, to)
    BY <1>0, <2>1, <2>2, <2>3, <2>4, MappedTogether
  <2>6. known' <= brk_end'
    BY <2>1, <2>2, <2>3
  <2> QED BY <2>1, <2>5, <2>6 DEF BreakInv, Mapped
<1>6. ASSUME NEW g \in grants, GiveBack(g) PROVE BreakInv'
  <2>1. /\ pc = "run" /\ brk_end' = g.from /\ known' = g.from /\ g.to = known
        /\ UNCHANGED <<page, loaded>>
    BY <1>6 DEF GiveBack
  <2>2. /\ brk_end \in Nat /\ known \in Nat /\ known <= brk_end /\ Mapped(Low, brk_end)
        /\ g.from \in Nat /\ g.from < g.to
    BY <1>0, <2>1, TopFacts DEF IInv, Bounds, BreakInv, GrantsInv, Range
  <2>3. Mapped(Low, g.from)
    BY <1>0, <2>1, <2>2, MappedLess
  <2> QED BY <2>1, <2>2, <2>3 DEF BreakInv, Mapped
<1> QED BY <1>1, <1>2, <1>3, <1>4, <1>5, <1>6 DEF Next

\* A grant is added that is mapped if it is whole, and begins at the break or
\* above it unless the program is stale.
LEMMA OneMoreGrant ==
  ASSUME IInv, GrantsInv, pc = "run", UNCHANGED <<page, loaded>>,
         NEW g, g \in Range, Low <= g.from, g.from < g.to, grants' = grants \cup {g},
         Whole(g) => Mapped(g.from, g.to), g.by = "brk" => Whole(g),
         ~stale' => /\ ~stale /\ brk_end <= g.from
                    /\ brk_end' \in Nat /\ brk_end <= brk_end'
                    /\ Whole(g) => g.to <= brk_end'
  PROVE  GrantsInv'
<1>1. \A h \in grants : h \in Range
  BY DEF IInv, TypeOK
<1>2. brk_end \in Nat /\ Low \in Nat
  BY TopFacts DEF IInv, Bounds
<1>3. \A h \in grants' : /\ Low <= h.from /\ h.from < h.to
                         /\ Whole(h) => Mapped(h.from, h.to)'
                         /\ h.by = "brk" => Whole(h)
  BY DEF GrantsInv, Mapped
<1>4. ASSUME ~stale', NEW h \in grants', Whole(h) PROVE h.to <= brk_end'
  BY <1>1, <1>2, <1>4 DEF GrantsInv, Range
<1>5. ASSUME ~stale', NEW h \in grants', NEW k \in grants', Whole(h), Whole(k), h # k
      PROVE  Disjoint(h, k)
  BY <1>1, <1>2, <1>5 DEF GrantsInv, Disjoint, Range
<1> QED BY <1>3, <1>4, <1>5 DEF GrantsInv, Whole, Disjoint

LEMMA GrantsStep ==
  ASSUME IInv, BreakInv, GrantsInv, [Next]_vars
  PROVE  GrantsInv'
<1>0. Low \in Nat /\ PageSize <= Low /\ \A h \in grants : h \in Range
  <2>1. 1 * PageSize <= (Last + 1) * PageSize
    BY TopFacts, TimesKeepsOrder
  <2> QED BY <2>1, TopFacts DEF IInv, TypeOK, Low
<1>1. CASE LoadPage \/ Load \/ Exit \/ \E n \in Sizes : Halt(n)
  BY <1>1 DEF LoadPage, Load, Exit, Halt, GrantsInv
<1>2. CASE Enter
  BY <1>2 DEF Enter, GrantsInv
<1>3. CASE AskBreak \/ UNCHANGED vars
  BY <1>3 DEF AskBreak, vars, GrantsInv, Mapped, Whole, Disjoint
<1>4. ASSUME NEW n \in Sizes, Grow(n) PROVE GrantsInv'
  <2> DEFINE g == Grant(known, known + n, "brk")
  <2>1. /\ pc = "run" /\ brk_end \in Nat /\ known \in Nat /\ n \in Nat \ {0}
        /\ known + n \in Nat /\ Low <= brk_end /\ Low <= known /\ known <= brk_end
        /\ UNCHANGED <<page, loaded>>
    BY <1>0, <1>4, TopFacts DEF Grow, IInv, Bounds, BreakInv
  <2>2. /\ brk_end' = known + n /\ known + n < Word /\ grants' = grants \cup {g}
        /\ stale' = (stale \/ known # brk_end)
        /\ known + n > brk_end => Mapped(brk_end, known + n)
    BY <1>4 DEF Grow, Asked, MovesStale
  <2>3. g \in Range /\ g.from = known /\ g.to = known + n /\ g.by = "brk"
    BY <2>1 DEF Grant, Range
  <2> HIDE DEF g
  <2>4. Whole(g)
    BY <1>0, <2>1, <2>2, <2>3, TopFacts DEF Whole
  <2>5. Mapped(known, known + n)
    <3>1. PICK end \in Nat : end = known + n
      BY <2>1
    <3>2. Mapped(Low, end)'
      <4>1. BreakInv' /\ pc' = "run" /\ brk_end' = end
        BY <1>4, <2>2, <3>1, BreakStep DEF Grow
      <4> QED BY <4>1 DEF BreakInv, Mapped
    <3>3. Mapped(Low, end)
      BY <2>1, <3>2 DEF Mapped
    <3>4. Low <= known /\ end <= end
      BY <2>1, <3>1
    <3> QED BY <1>0, <2>1, <3>1, <3>3, <3>4, MappedLess
  <2>6. Low <= g.from /\ g.from < g.to
    BY <2>1, <2>3
  <2>7. ~stale' => ~stale /\ known = brk_end
    BY <2>2
  <2>8. known = brk_end => /\ brk_end <= g.from /\ brk_end' \in Nat
                           /\ brk_end <= brk_end' /\ g.to <= brk_end'
    BY <2>1, <2>2, <2>3
  <2>9. Whole(g) => Mapped(g.from, g.to)
    BY <2>3, <2>5
  <2> QED BY <2>1, <2>2, <2>3, <2>4, <2>6, <2>7, <2>8, <2>9, OneMoreGrant
<1>5. ASSUME NEW n \in Sizes, NEW pages \in BOOLEAN, mmap(n, pages) PROVE GrantsInv'
  <2> DEFINE from == Start(brk_end)
             len == IF pages THEN n * PageSize ELSE n
             to == from + Length(n, pages)
             g == Grant(from, from + len, "mmap")
  <2>1. /\ pc = "run" /\ UNCHANGED <<page, loaded, stale>>
        /\ Mapped(from, to) /\ brk_end' = to /\ grants' = grants \cup {g}
    BY <1>5 DEF mmap
  <2>2. from \in Nat /\ Low <= from /\ brk_end <= from /\ brk_end \in Nat
    BY <2>1, StartFacts, TopFacts DEF IInv, Bounds
  <2>3. len \in Nat \ {0} /\ Length(n, pages) \in Nat
    <3>1. n \in Nat \ {0} /\ n * PageSize \in Nat /\ n * PageSize # 0
      <4>1. n \in Nat \ {0} /\ n * PageSize \in Nat
        BY LengthType
      <4>2. 1 * PageSize <= n * PageSize
        BY <4>1, TimesKeepsOrder
      <4> QED BY <4>1, <4>2
    <3> QED BY <3>1, LengthType
  <2>4. len <= Word - PageSize => len <= Length(n, pages)
    BY LengthCovers
  <2>5. g \in Range /\ g.from = from /\ g.to = from + len /\ g.by = "mmap"
    BY <2>2, <2>3 DEF Grant, Range
  <2> HIDE DEF from, len, g
  <2>6. to \in Nat /\ from <= to /\ from < from + len /\ from + len \in Nat
    BY <2>2, <2>3
  <2>7. Whole(g) => from + len <= to
    BY <2>2, <2>3, <2>4, <2>5 DEF Whole
  <2> HIDE DEF to
  <2>8. Whole(g) => Mapped(from, from + len)
    BY <2>1, <2>2, <2>6, <2>7, MappedLess
  <2>9. Low <= g.from /\ g.from < g.to
    BY <2>2, <2>5, <2>6
  <2>10. /\ brk_end <= g.from /\ brk_end' \in Nat /\ brk_end <= brk_end'
         /\ Whole(g) => g.to <= brk_end'
    BY <2>1, <2>2, <2>5, <2>6, <2>7
  <2>11. ~stale' => ~stale
    BY <2>1
  <2>12. (Whole(g) => Mapped(g.from, g.to)) /\ (g.by = "brk" => Whole(g))
    BY <2>5, <2>8
  <2> QED BY <2>1, <2>5, <2>9, <2>10, <2>11, <2>12, OneMoreGrant
<1>6. ASSUME NEW g \in grants, GiveBack(g) PROVE GrantsInv'
  <2>1. /\ pc = "run" /\ brk_end' = g.from /\ grants' = grants \ {g}
        /\ g.by = "brk" /\ g.to = known /\ stale' = (stale \/ known # brk_end)
        /\ UNCHANGED <<page, loaded>>
    BY <1>6 DEF GiveBack, MovesStale
  <2>2. \A h \in grants' : /\ Low <= h.from /\ h.from < h.to
                           /\ Whole(h) => Mapped(h.from, h.to)'
                           /\ h.by = "brk" => Whole(h)
    BY <2>1 DEF GrantsInv, Mapped
  <2>3. ASSUME ~stale', NEW h \in grants', Whole(h) PROVE h.to <= g.from
    <3>1. h \in grants /\ h # g /\ h \in Range /\ g \in Range /\ Whole(g)
      BY <1>0, <2>1 DEF GrantsInv
    <3>2. Disjoint(h, g) /\ h.from < h.to /\ h.to <= brk_end /\ g.to = brk_end
      BY <2>1, <2>3, <3>1 DEF GrantsInv
    <3>3. brk_end \in Nat
      BY <1>0, <2>1, TopFacts DEF IInv, Bounds
    <3> QED BY <3>1, <3>2, <3>3 DEF Disjoint, Range
  <2>4. ~stale' => \A h, k \in grants' : Whole(h) /\ Whole(k) /\ h # k => Disjoint(h, k)
    BY <2>1 DEF GrantsInv
  <2> QED BY <2>1, <2>2, <2>3, <2>4 DEF GrantsInv, Whole, Disjoint
<1> QED BY <1>1, <1>2, <1>3, <1>4, <1>5, <1>6 DEF Next

\* Whatever a program asks brk and mmap for and whatever break it remembers,
\* what it is given lies above its image; it is mapped, where its length rounded
\* up fits in 32 bits, and given to it once, until it moves its break from one
\* that mmap has passed (syscall.c:592-639).
THEOREM GrantsSound == Spec => []GrantsAreSound
<1>1. Init => BreakInv /\ GrantsInv
  BY DEF Init, BreakInv, GrantsInv
<1>2. IInv /\ BreakInv /\ GrantsInv /\ [Next]_vars => BreakInv' /\ GrantsInv'
  BY BreakStep, GrantsStep
<1>3. GrantsInv => GrantsAreSound
  BY DEF GrantsInv, GrantsAreSound, Low
<1> QED BY <1>1, <1>2, <1>3, Invariant, PTL DEF Spec
=============================================================================
