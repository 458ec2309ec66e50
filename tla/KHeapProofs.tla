---------------------------- MODULE KHeapProofs ----------------------------
(***************************************************************************)
(* Theorems about the kernel heap, for every size of it.                   *)
(***************************************************************************)
EXTENDS KHeap, WellFoundedInduction, TLAPS

\* The property Tiles, of any list.
Tiling(bs) ==
  /\ Len(bs) >= 1
  /\ bs[1].at = HeapStart
  /\ \A i \in 1..(Len(bs) - 1) : bs[i + 1].at = bs[i].at + Header + bs[i].size
  /\ \A i, j \in 1..Len(bs) : i < j => bs[i].at + Header + bs[i].size <= bs[j].at
  /\ bs[Len(bs)].at + Header + bs[Len(bs)].size = HeapEnd

LEMMA HeapConstants ==
  HeapStart \in Nat /\ HeapSize \in Nat /\ HeapEnd \in Nat /\ HeapSize > Header
  BY HeapOK DEF HeapOK, HeapEnd

\* A block of a tiling lies in the heap.
LEMMA InHeap ==
  ASSUME NEW bs \in Seq(Block), Tiling(bs), NEW i \in 1..Len(bs)
  PROVE  /\ bs[i] \in Block
         /\ bs[i].at >= HeapStart
         /\ bs[i].at + Header + bs[i].size <= HeapEnd
<1>1. bs[i] \in Block /\ bs[1] \in Block /\ bs[Len(bs)] \in Block
  BY DEF Tiling
<1>2. bs[i].at >= HeapStart
  <2>1. CASE i = 1
    BY <2>1, HeapConstants DEF Tiling
  <2>2. CASE i # 1
    <3>1. bs[1].at + Header + bs[1].size <= bs[i].at
      BY <2>2 DEF Tiling
    <3> QED
      BY <1>1, <3>1, HeapConstants DEF Tiling, Block, Header
  <2> QED
    BY <2>1, <2>2
<1>3. bs[i].at + Header + bs[i].size <= HeapEnd
  <2>1. CASE i = Len(bs)
    BY <1>1, <2>1, HeapConstants DEF Tiling, Block, Header
  <2>2. CASE i # Len(bs)
    <3>1. bs[i].at + Header + bs[i].size <= bs[Len(bs)].at
      BY <2>2 DEF Tiling
    <3> QED
      BY <1>1, <3>1, HeapConstants DEF Tiling, Block, Header
  <2> QED
    BY <2>1, <2>2
<1> QED
  BY <1>1, <1>2, <1>3

\* Marking a block leaves the tiling alone.
Mark(bs, k, f) == [bs EXCEPT ![k].free = f]

LEMMA MarkTiles ==
  ASSUME NEW bs \in Seq(Block), Tiling(bs), NEW k \in 1..Len(bs), NEW f \in BOOLEAN
  PROVE  /\ Mark(bs, k, f) \in Seq(Block)
         /\ Len(Mark(bs, k, f)) = Len(bs)
         /\ \A i \in 1..Len(bs) :
              /\ Mark(bs, k, f)[i].at = bs[i].at
              /\ Mark(bs, k, f)[i].size = bs[i].size
              /\ i # k => Mark(bs, k, f)[i] = bs[i]
         /\ Mark(bs, k, f)[k].free = f
         /\ Tiling(Mark(bs, k, f))
<1> DEFINE new == Mark(bs, k, f)
<1>z. new = [bs EXCEPT ![k].free = f]
  BY DEF Mark
<1> HIDE DEF new
<1>1. \A i \in 1..Len(bs) : bs[i] \in Block
  OBVIOUS
<1>2. \A i \in 1..Len(bs) : /\ new[i].at = bs[i].at
                            /\ new[i].size = bs[i].size
                            /\ i # k => new[i] = bs[i]
  BY <1>1, <1>z DEF Block
<1>3. new[k].free = f
  BY <1>1, <1>z DEF Block
<1>4. [bs[k] EXCEPT !.free = f] \in Block
  BY <1>1 DEF Block
<1>5. new \in Seq(Block) /\ Len(new) = Len(bs)
  BY <1>4, <1>z
<1>6. Tiling(new)
  BY <1>5, <1>2 DEF Tiling
<1> QED
  BY <1>2, <1>3, <1>5, <1>6 DEF new

\* Splitting a block keeps the list tiling the heap.
LEMMA SplitTiles ==
  ASSUME NEW bs \in Seq(Block), Tiling(bs), NEW k \in 1..Len(bs), NEW n \in Nat,
         bs[k].size > n + Header + 4, NEW new, new = Split(bs, k, n)
  PROVE  /\ new \in Seq(Block)
         /\ Len(new) = Len(bs) + 1
         /\ \A i \in 1..(k - 1) : new[i] = bs[i]
         /\ new[k] = [at |-> bs[k].at, size |-> n, free |-> FALSE]
         /\ new[k + 1] = [at |-> bs[k].at + Header + n,
                          size |-> bs[k].size - n - Header, free |-> TRUE]
         /\ \A i \in (k + 1)..Len(bs) : new[i + 1] = bs[i]
         /\ Tiling(new)
<1>0. \A i \in 1..Len(bs) : bs[i] \in Block /\ bs[i].at \in Nat /\ bs[i].size \in Nat
  <2>1. \A i \in 1..Len(bs) : bs[i] \in Block
    OBVIOUS
  <2> QED
    BY <2>1 DEF Block
<1>a. Len(bs) \in Nat /\ k \in Nat /\ 1 <= k /\ k <= Len(bs)
  OBVIOUS
<1>1. /\ Len(new) = Len(bs) + 1
      /\ \A i \in 1..(k - 1) : new[i] = bs[i]
      /\ new[k] = [at |-> bs[k].at, size |-> n, free |-> FALSE]
      /\ new[k + 1] = [at |-> bs[k].at + Header + n,
                       size |-> bs[k].size - n - Header, free |-> TRUE]
      /\ \A i \in (k + 1)..Len(bs) : new[i + 1] = bs[i]
  BY SMTT(60) DEF Split
<1>b. bs[k].at \in Nat /\ bs[k].size \in Nat /\ bs[k].size - n - Header \in Nat
  BY <1>0, SMTT(60) DEF Header
<1>2. new[k] \in Block /\ new[k + 1] \in Block
  <2>1. bs[k].at + Header + n \in Nat
    BY <1>b, SMTT(60) DEF Header
  <2>2. [at |-> bs[k].at, size |-> n, free |-> FALSE] \in Block
    BY <1>b DEF Block
  <2>3. [at |-> bs[k].at + Header + n,
         size |-> bs[k].size - n - Header, free |-> TRUE] \in Block
    BY <1>b, <2>1 DEF Block
  <2> QED
    BY <1>1, <2>2, <2>3
<1>3. \A i \in 1..(Len(bs) + 1) : new[i] \in Block
  <2> TAKE i \in 1..(Len(bs) + 1)
  <2>1. CASE i < k
    <3>1. i \in 1..(k - 1) /\ i \in 1..Len(bs)
      BY <1>a, <2>1
    <3> QED
      BY <1>0, <1>1, <3>1
  <2>2. CASE i = k \/ i = k + 1
    BY <1>2, <2>2
  <2>3. CASE i > k + 1
    <3>1. i - 1 \in (k + 1)..Len(bs) /\ (i - 1) + 1 = i /\ i - 1 \in 1..Len(bs)
      BY <1>a, <2>3
    <3>2. new[i] = bs[i - 1]
      BY <1>1, <3>1
    <3> QED
      BY <1>0, <3>1, <3>2
  <2> QED
    BY <2>1, <2>2, <2>3
<1>4. new \in Seq(Block)
  <2>1. new = [j \in 1..(Len(bs) + 1) |-> new[j]] /\ Len(bs) + 1 \in Nat
    BY <1>a DEF Split
  <2> QED
    BY <1>3, <2>1
<1>5. Tiling(new)
  \* Where a block of the new list comes from.
  <2>1. \A i \in 1..Len(new) :
          \/ i < k /\ new[i] = bs[i]
          \/ i = k
          \/ i = k + 1
          \/ i > k + 1 /\ i - 1 \in (k + 1)..Len(bs) /\ new[i] = bs[i - 1]
    <3> TAKE i \in 1..Len(new)
    <3>1. CASE i > k + 1
      <4>1. i - 1 \in (k + 1)..Len(bs) /\ (i - 1) + 1 = i
        BY <1>1, <3>1
      <4> QED
        BY <1>1, <3>1, <4>1
    <3>2. CASE i < k
      BY <1>1, <3>2
    <3> QED
      BY <1>1, <3>1, <3>2
  <2>2. new[k].at = bs[k].at /\ new[k].size = n
    BY <1>1
  <2>3. /\ new[k + 1].at = bs[k].at + Header + n
        /\ new[k + 1].size = bs[k].size - n - Header
    BY <1>1
  <2>4. new[1].at = HeapStart
    BY <1>1, <2>2 DEF Tiling
  <2>5. \A i \in 1..(Len(new) - 1) :
          new[i + 1].at = new[i].at + Header + new[i].size
    <3> TAKE i \in 1..(Len(new) - 1)
    <3>1. CASE i < k
      <4>1. new[i] = bs[i] /\ new[i + 1].at = bs[i + 1].at
        BY <1>1, <2>2, <3>1, SMTT(60)
      <4> QED
        BY <3>1, <4>1 DEF Tiling
    <3>2. CASE i = k
      BY <2>2, <2>3, <3>2
    <3>3. CASE i = k + 1
      <4>1. new[i + 1] = bs[k + 1] /\ k + 1 \in 1..Len(bs)
        BY <1>1, <3>3
      <4>2. bs[k + 1].at = bs[k].at + Header + bs[k].size
        BY <4>1 DEF Tiling
      <4>3. new[i + 1].at = bs[k].at + Header + bs[k].size
        BY <4>1, <4>2
      <4>4. new[i].at = bs[k].at + Header + n /\ new[i].size = bs[k].size - n - Header
        BY <2>3, <3>3
      <4> QED
        BY <1>b, <4>3, <4>4, SMTT(60) DEF Header
    <3>4. CASE i > k + 1
      <4>1. new[i] = bs[i - 1] /\ new[i + 1] = bs[i] /\ i - 1 \in 1..(Len(bs) - 1)
        BY <1>1, <2>1, <3>4
      <4>2. bs[(i - 1) + 1].at = bs[i - 1].at + Header + bs[i - 1].size
        BY <4>1 DEF Tiling
      <4> QED
        BY <4>1, <4>2
    <3> QED
      BY <3>1, <3>2, <3>3, <3>4
  <2>6. \A i, j \in 1..Len(new) :
          i < j => new[i].at + Header + new[i].size <= new[j].at
    <3> SUFFICES ASSUME NEW i \in 1..Len(new), NEW j \in 1..Len(new), i < j
                 PROVE  new[i].at + Header + new[i].size <= new[j].at
      OBVIOUS
    <3>0. /\ bs[k].at + Header + n \in Nat
          /\ \A x \in 1..Len(bs) : bs[x].at + Header + bs[x].size \in Nat
      BY <1>0, <1>b, SMTT(60) DEF Header
    \* Both ends of a new block lie in the old block it comes from.
    <3>1. \A x \in 1..Len(new) : \E a \in 1..Len(bs) :
            /\ a = IF x <= k THEN x ELSE x - 1
            /\ bs[a].at <= new[x].at
            /\ new[x].at + Header + new[x].size <= bs[a].at + Header + bs[a].size
            /\ new[x].at \in Nat /\ new[x].size \in Nat
      <4> TAKE x \in 1..Len(new)
      <4>1. CASE x < k
        <5>1. x \in 1..Len(bs) /\ new[x] = bs[x] /\ x <= k
          BY <1>a, <2>1, <4>1
        <5> QED
          BY <1>0, <3>0, <5>1, SMTT(60)
      <4>2. CASE x = k
        <5>1. new[x].at + Header + new[x].size <= bs[k].at + Header + bs[k].size
          BY <1>b, <2>2, <4>2, SMTT(60) DEF Header
        <5> QED
          BY <1>a, <1>b, <2>2, <4>2, <5>1
      <4>3. CASE x = k + 1
        <5>1. /\ bs[k].at <= new[x].at
              /\ new[x].at \in Nat /\ new[x].size \in Nat
              /\ new[x].at + Header + new[x].size <= bs[k].at + Header + bs[k].size
          <6>1. /\ new[x].at = bs[k].at + Header + n
                /\ new[x].size = bs[k].size - n - Header
            BY <2>3, <4>3
          <6>2. bs[k].at + Header + n \in Nat /\ bs[k].at <= bs[k].at + Header + n
            BY <1>b, SMTT(60) DEF Header
          <6>3. (bs[k].at + Header + n) + Header + (bs[k].size - n - Header)
                  = bs[k].at + Header + bs[k].size
            BY <1>b, SMTT(60) DEF Header
          <6>4. bs[k].at + Header + bs[k].size \in Nat
            BY <1>b, SMTT(60) DEF Header
          <6> QED
            BY <1>b, <6>1, <6>2, <6>3, <6>4
        <5>2. k = (IF x <= k THEN x ELSE x - 1)
          BY <1>a, <4>3
        <5> QED
          BY <5>1, <5>2
      <4>4. CASE x > k + 1
        <5>1. /\ x - 1 \in 1..Len(bs) /\ new[x] = bs[x - 1]
              /\ x - 1 = (IF x <= k THEN x ELSE x - 1)
          BY <1>a, <2>1, <4>4
        <5> QED
          BY <1>0, <3>0, <5>1, SMTT(60)
      <4> QED
        BY <1>a, <4>1, <4>2, <4>3, <4>4
    <3>2. PICK a \in 1..Len(bs) :
            /\ a = IF i <= k THEN i ELSE i - 1
            /\ new[i].at + Header + new[i].size <= bs[a].at + Header + bs[a].size
            /\ new[i].at \in Nat /\ new[i].size \in Nat
      BY <3>1
    <3>3. PICK b \in 1..Len(bs) :
            /\ b = IF j <= k THEN j ELSE j - 1
            /\ bs[b].at <= new[j].at /\ new[j].at \in Nat
      BY <3>1
    <3>4. CASE a < b
      <4>1. bs[a].at + Header + bs[a].size <= bs[b].at
        BY <3>4 DEF Tiling
      <4>2. new[i].at + Header + new[i].size \in Nat
        BY <3>2, SMTT(60) DEF Header
      <4>3. bs[a].at + Header + bs[a].size \in Nat /\ bs[b].at \in Nat
        BY <1>0, <3>0
      <4> QED
        BY <3>2, <3>3, <4>1, <4>2, <4>3, SMTT(60)
    <3>5. CASE a >= b
      <4>1. i = k /\ j = k + 1
        BY <1>a, <3>2, <3>3, <3>5
      <4> QED
        BY <1>b, <2>2, <2>3, <4>1, SMTT(60) DEF Header
    <3> QED
      BY <3>4, <3>5
  <2>7. new[Len(new)].at + Header + new[Len(new)].size = HeapEnd
    <3>1. CASE k = Len(bs)
      <4>1. bs[k].at + Header + bs[k].size = HeapEnd
        BY <3>1 DEF Tiling
      <4> QED
        BY <1>b, <1>1, <2>3, <3>1, <4>1, SMTT(60) DEF Header
    <3>2. CASE k # Len(bs)
      BY <1>1, <3>2 DEF Tiling
    <3> QED
      BY <3>1, <3>2
  <2> QED
    BY <1>1, <2>4, <2>5, <2>6, <2>7 DEF Tiling
<1> QED
  BY <1>1, <1>4, <1>5

\* Merging two neighbours keeps the list tiling the heap.
LEMMA JoinTiles ==
  ASSUME NEW bs \in Seq(Block), Tiling(bs), NEW k \in 1..(Len(bs) - 1)
  PROVE  /\ Join(bs, k) \in Seq(Block)
         /\ Len(Join(bs, k)) = Len(bs) - 1
         /\ \A i \in 1..(k - 1) : Join(bs, k)[i] = bs[i]
         /\ Join(bs, k)[k] = [at   |-> bs[k].at,
                              size |-> bs[k].size + bs[k + 1].size + Header,
                              free |-> bs[k].free]
         /\ \A i \in (k + 1)..(Len(bs) - 1) : Join(bs, k)[i] = bs[i + 1]
         /\ Tiling(Join(bs, k))
<1> DEFINE new == Join(bs, k)
<1>z. new = Join(bs, k)
  OBVIOUS
<1> HIDE DEF new
<1>0. \A i \in 1..Len(bs) : bs[i] \in Block /\ bs[i].at \in Nat /\ bs[i].size \in Nat
  <2>1. \A i \in 1..Len(bs) : bs[i] \in Block
    OBVIOUS
  <2> QED
    BY <2>1 DEF Block
<1>a. Len(bs) \in Nat /\ k \in Nat /\ 1 <= k /\ k + 1 <= Len(bs)
  OBVIOUS
<1>b. /\ bs[k] \in Block /\ bs[k].at \in Nat /\ bs[k].size \in Nat
      /\ bs[k + 1] \in Block /\ bs[k + 1].at \in Nat /\ bs[k + 1].size \in Nat
  BY <1>0, <1>a
<1>c. bs[k + 1].at = bs[k].at + Header + bs[k].size
  BY <1>a DEF Tiling
<1>d. [bs[k] EXCEPT !.size = @ + bs[k + 1].size + Header]
        = [at |-> bs[k].at, size |-> bs[k].size + bs[k + 1].size + Header,
           free |-> bs[k].free]
  <2>1. bs[k] = [at |-> bs[k].at, size |-> bs[k].size, free |-> bs[k].free]
    BY <1>b DEF Block
  <2> QED
    BY <2>1
<1>1. /\ Len(new) = Len(bs) - 1
      /\ \A i \in 1..(k - 1) : new[i] = bs[i]
      /\ new[k] = [at |-> bs[k].at, size |-> bs[k].size + bs[k + 1].size + Header,
                   free |-> bs[k].free]
      /\ \A i \in (k + 1)..(Len(bs) - 1) : new[i] = bs[i + 1]
  <2> DEFINE joined == [at |-> bs[k].at, size |-> bs[k].size + bs[k + 1].size + Header,
                        free |-> bs[k].free]
  <2>1. new = [j \in 1..(Len(bs) - 1) |->
                 CASE j < k -> bs[j] [] j = k -> joined [] OTHER -> bs[j + 1]]
    BY <1>d, <1>z DEF Join
  <2> HIDE DEF joined
  <2>2. /\ Len(new) = Len(bs) - 1
        /\ \A i \in 1..(k - 1) : new[i] = bs[i]
        /\ new[k] = joined
        /\ \A i \in (k + 1)..(Len(bs) - 1) : new[i] = bs[i + 1]
    BY <1>a, <2>1
  <2> QED
    BY <2>2 DEF joined
<1>e. bs[k].size + bs[k + 1].size + Header \in Nat
  BY <1>b, SMTT(60) DEF Header
<1>2. new[k] \in Block
  <2>1. [at |-> bs[k].at, size |-> bs[k].size + bs[k + 1].size + Header,
         free |-> bs[k].free] \in Block
    BY <1>b, <1>e DEF Block
  <2> QED
    BY <1>1, <2>1
\* Where a block of the new list comes from.
<1>3. \A i \in 1..Len(new) :
        \/ i < k /\ i \in 1..Len(bs) /\ new[i] = bs[i]
        \/ i = k
        \/ i > k /\ i + 1 \in 1..Len(bs) /\ new[i] = bs[i + 1]
  BY <1>a, <1>1
<1>4. new \in Seq(Block)
  <2>1. new = [j \in 1..(Len(bs) - 1) |-> new[j]] /\ Len(bs) - 1 \in Nat
    BY <1>a, <1>z DEF Join
  <2>2. \A i \in 1..(Len(bs) - 1) : new[i] \in Block
    BY <1>0, <1>1, <1>2, <1>3
  <2> QED
    BY <2>1, <2>2
<1>5. Tiling(new)
  <2>1. new[k].at = bs[k].at /\ new[k].size = bs[k].size + bs[k + 1].size + Header
    BY <1>1
  <2>2. new[k].at + Header + new[k].size = bs[k + 1].at + Header + bs[k + 1].size
    BY <1>b, <1>c, <2>1, SMTT(60) DEF Header
  <2>3. new[1].at = HeapStart
    BY <1>a, <1>1, <2>1 DEF Tiling
  <2>4. \A i \in 1..(Len(new) - 1) :
          new[i + 1].at = new[i].at + Header + new[i].size
    <3> TAKE i \in 1..(Len(new) - 1)
    <3>1. CASE i < k
      <4>1. /\ new[i] = bs[i] /\ new[i + 1].at = bs[i + 1].at
            /\ i \in 1..(Len(bs) - 1)
        BY <1>a, <1>1, <2>1, <3>1
      <4> QED
        BY <4>1 DEF Tiling
    <3>2. CASE i = k
      <4>1. new[i + 1] = bs[k + 2] /\ k + 1 \in 1..(Len(bs) - 1) /\ (k + 1) + 1 = k + 2
        BY <1>a, <1>1, <3>2
      <4>2. bs[(k + 1) + 1].at = bs[k + 1].at + Header + bs[k + 1].size
        BY <4>1 DEF Tiling
      <4> QED
        BY <2>2, <3>2, <4>1, <4>2
    <3>3. CASE i > k
      <4>1. /\ new[i] = bs[i + 1] /\ new[i + 1] = bs[(i + 1) + 1]
            /\ i + 1 \in 1..(Len(bs) - 1)
        BY <1>a, <1>1, <3>3
      <4> QED
        BY <4>1 DEF Tiling
    <3> QED
      BY <1>a, <3>1, <3>2, <3>3
  <2>5. \A i, j \in 1..Len(new) :
          i < j => new[i].at + Header + new[i].size <= new[j].at
    <3> SUFFICES ASSUME NEW i \in 1..Len(new), NEW j \in 1..Len(new), i < j
                 PROVE  new[i].at + Header + new[i].size <= new[j].at
      OBVIOUS
    <3>1. PICK a \in 1..Len(bs) :
            /\ a = IF i < k THEN i ELSE i + 1
            /\ new[i].at + Header + new[i].size = bs[a].at + Header + bs[a].size
      BY <1>a, <1>3, <2>2
    <3>2. PICK b \in 1..Len(bs) :
            /\ b = IF j <= k THEN j ELSE j + 1
            /\ new[j].at = bs[b].at
      BY <1>a, <1>3, <2>1
    <3>3. a < b
      BY <1>a, <3>1, <3>2
    <3>4. bs[a].at + Header + bs[a].size <= bs[b].at
      BY <3>3 DEF Tiling
    <3> QED
      BY <3>1, <3>2, <3>4
  <2>6. new[Len(new)].at + Header + new[Len(new)].size = HeapEnd
    <3>1. CASE k = Len(bs) - 1
      <4>1. k + 1 = Len(bs) /\ Len(new) = k
        BY <1>a, <1>1, <3>1
      <4> QED
        BY <2>2, <4>1 DEF Tiling
    <3>2. CASE k # Len(bs) - 1
      <4>1. new[Len(new)] = bs[Len(bs)]
        BY <1>a, <1>1, <3>2
      <4> QED
        BY <4>1 DEF Tiling
    <3> QED
      BY <3>1, <3>2
  <2> QED
    BY <1>a, <1>1, <2>3, <2>4, <2>5, <2>6 DEF Tiling
<1> QED
  BY <1>1, <1>4, <1>5 DEF new

-----------------------------------------------------------------------------
(***************************************************************************)
(* The invariant.                                                          *)
(***************************************************************************)

\* No request is so large that its size wraps when it is rounded up.
NoWrap == \A n \in Requests : n + 3 < Word

\* HeldIsTaken of any list and owners; sizes count only without wrapping.
Owned(bs, l) ==
  /\ \A p \in DOMAIN l : \E i \in 1..Len(bs) :
       /\ bs[i].at + Header = p
       /\ ~bs[i].free
       /\ NoWrap => l[p] <= bs[i].size
  /\ \A i \in 1..Len(bs) : ~bs[i].free => bs[i].at + Header \in DOMAIN l

\* kfree's loop leaves no free neighbours behind it.
Passed ==
  \A i \in 1..(Len(blocks) - 1) :
    curr = 0 \/ i < curr => ~(blocks[i].free /\ blocks[i + 1].free)

HeapInv == TypeOK /\ Tiling(blocks) /\ Owned(blocks, live) /\ Passed

\* A block is known by its address.
LEMMA AtUnique ==
  ASSUME NEW bs \in Seq(Block), Tiling(bs),
         NEW i \in 1..Len(bs), NEW j \in 1..Len(bs), bs[i].at = bs[j].at
  PROVE  i = j
<1>1. bs[i] \in Block /\ bs[j] \in Block
  OBVIOUS
<1>2. /\ bs[i].at \in Nat /\ bs[i].size \in Nat
      /\ bs[j].at \in Nat /\ bs[j].size \in Nat
  BY <1>1 DEF Block
<1>3. CASE i < j
  <2>1. bs[i].at + Header + bs[i].size <= bs[j].at
    BY <1>3 DEF Tiling
  <2> QED
    BY <1>2, <2>1 DEF Header
<1>4. CASE j < i
  <2>1. bs[j].at + Header + bs[j].size <= bs[i].at
    BY <1>4 DEF Tiling
  <2> QED
    BY <1>2, <2>1 DEF Header
<1> QED
  BY <1>3, <1>4

LEMMA AlignedBounds ==
  ASSUME NEW n \in Requests
  PROVE  Aligned(n) \in Nat /\ (NoWrap => n <= Aligned(n))
<1>1. n \in Nat /\ n < Word /\ Word \in Nat
  BY HeapOK DEF HeapOK
<1> DEFINE m == IF n + 3 < Word THEN n + 3 ELSE n + 3 - Word
<1>2. m \in Nat /\ (NoWrap => m = n + 3)
  BY <1>1 DEF NoWrap
<1>3. Aligned(n) = m - (m % 4)
  BY DEF Aligned
<1> HIDE DEF m
<1>4. m % 4 \in 0..3 /\ m % 4 <= m
  BY <1>2
<1> QED
  BY <1>1, <1>2, <1>3, <1>4

\* What taking a free block does to the list.
LEMMA TakeBlocks ==
  ASSUME NEW bs \in Seq(Block), Tiling(bs), NEW k \in 1..Len(bs), NEW n \in Nat,
         bs[k].size >= n, NEW new, new = Take(bs, k, n)
  PROVE  /\ new \in Seq(Block)
         /\ Tiling(new)
         /\ k \in 1..Len(new)
         /\ new[k].at = bs[k].at /\ ~new[k].free /\ new[k].size >= n
         /\ \A i \in 1..Len(bs) : i # k => \E j \in 1..Len(new) : new[j] = bs[i]
         /\ \A j \in 1..Len(new) : j # k /\ ~new[j].free =>
              \E i \in 1..Len(bs) : new[j] = bs[i]
         /\ bs[k].free /\ (\A i \in 1..(Len(bs) - 1) : ~(bs[i].free /\ bs[i + 1].free))
              => \A i \in 1..(Len(new) - 1) : ~(new[i].free /\ new[i + 1].free)
<1>1. CASE bs[k].size > n + Header + 4
  <2>1. new = Split(bs, k, n)
    BY <1>1 DEF Take
  <2>2. /\ new \in Seq(Block)
        /\ Len(new) = Len(bs) + 1
        /\ \A i \in 1..(k - 1) : new[i] = bs[i]
        /\ new[k] = [at |-> bs[k].at, size |-> n, free |-> FALSE]
        /\ new[k + 1] = [at |-> bs[k].at + Header + n,
                         size |-> bs[k].size - n - Header, free |-> TRUE]
        /\ \A i \in (k + 1)..Len(bs) : new[i + 1] = bs[i]
        /\ Tiling(new)
    BY <1>1, <2>1, SplitTiles
  <2>3. /\ Len(bs) \in Nat /\ k \in Nat /\ k <= Len(bs) /\ k \in 1..Len(new)
        /\ new[k].at = bs[k].at /\ ~new[k].free /\ new[k].size >= n
    BY <2>2
  <2>4. \A i \in 1..Len(bs) : i # k => \E j \in 1..Len(new) : new[j] = bs[i]
    <3> SUFFICES ASSUME NEW i \in 1..Len(bs), i # k
                 PROVE  \E j \in 1..Len(new) : new[j] = bs[i]
      OBVIOUS
    <3>1. CASE i < k
      <4>1. i \in 1..(k - 1) /\ i \in 1..Len(new)
        BY <2>2, <2>3, <3>1
      <4>2. new[i] = bs[i]
        BY <2>2, <4>1
      <4> QED
        BY <4>1, <4>2
    <3>2. CASE i > k
      <4>1. i + 1 \in 1..Len(new) /\ new[i + 1] = bs[i]
        BY <2>2, <2>3, <3>2
      <4> QED
        BY <4>1
    <3> QED
      BY <2>3, <3>1, <3>2
  <2>5. \A j \in 1..Len(new) :
          \/ j < k /\ j \in 1..Len(bs) /\ new[j] = bs[j]
          \/ j = k
          \/ j = k + 1
          \/ j > k + 1 /\ j - 1 \in 1..Len(bs) /\ new[j] = bs[j - 1]
    <3> TAKE j \in 1..Len(new)
    <3>1. CASE j > k + 1
      <4>1. j - 1 \in (k + 1)..Len(bs) /\ (j - 1) + 1 = j
        BY <2>2, <2>3, <3>1
      <4> QED
        BY <2>2, <2>3, <3>1, <4>1
    <3> QED
      BY <2>2, <2>3, <3>1
  <2>8. new[k + 1].free
    BY <2>2
  <2>6. \A j \in 1..Len(new) : j # k /\ ~new[j].free =>
          \E i \in 1..Len(bs) : new[j] = bs[i]
    <3> SUFFICES ASSUME NEW j \in 1..Len(new), j # k, ~new[j].free
                 PROVE  \E i \in 1..Len(bs) : new[j] = bs[i]
      OBVIOUS
    <3>1. j # k + 1
      BY <2>8
    <3> QED
      BY <2>5, <3>1
  <2>7. ASSUME bs[k].free,
               \A i \in 1..(Len(bs) - 1) : ~(bs[i].free /\ bs[i + 1].free)
        PROVE  \A i \in 1..(Len(new) - 1) : ~(new[i].free /\ new[i + 1].free)
    <3> TAKE i \in 1..(Len(new) - 1)
    <3>1. CASE i < k - 1
      <4>1. new[i] = bs[i] /\ new[i + 1] = bs[i + 1] /\ i \in 1..(Len(bs) - 1)
        BY <2>2, <2>3, <3>1
      <4> QED
        BY <2>7, <4>1
    <3>2. CASE i = k - 1 \/ i = k
      <4>1. i = k \/ i + 1 = k
        BY <2>3, <3>2
      <4> QED
        BY <2>3, <4>1
    <3>3. CASE i = k + 1
      <4>1. new[i + 1] = bs[k + 1] /\ k \in 1..(Len(bs) - 1)
        BY <2>2, <2>3, <3>3
      <4> QED
        BY <2>7, <4>1
    <3>4. CASE i > k + 1
      <4>1. /\ new[i] = bs[i - 1] /\ new[i + 1] = bs[i]
            /\ i - 1 \in 1..(Len(bs) - 1) /\ (i - 1) + 1 = i
        BY <2>2, <2>3, <2>5, <3>4
      <4> QED
        BY <2>7, <4>1
    <3> QED
      BY <2>3, <3>1, <3>2, <3>3, <3>4
  <2> QED
    BY <2>2, <2>3, <2>4, <2>6, <2>7
<1>2. CASE ~(bs[k].size > n + Header + 4)
  <2>1. new = Mark(bs, k, FALSE)
    BY <1>2 DEF Take, Mark
  <2>2. /\ new \in Seq(Block)
        /\ Len(new) = Len(bs)
        /\ \A i \in 1..Len(bs) : new[i].at = bs[i].at /\ new[i].size = bs[i].size
        /\ new[k].free = FALSE
        /\ Tiling(new)
    <3>1. Mark(bs, k, FALSE) \in Seq(Block) /\ Len(Mark(bs, k, FALSE)) = Len(bs)
      BY MarkTiles
    <3>2. \A i \in 1..Len(bs) : /\ Mark(bs, k, FALSE)[i].at = bs[i].at
                                /\ Mark(bs, k, FALSE)[i].size = bs[i].size
      <4>1. \A i \in 1..Len(bs) : bs[i] \in Block
        OBVIOUS
      <4> QED
        BY <4>1 DEF Mark, Block
    <3>3. Mark(bs, k, FALSE)[k].free = FALSE
      BY MarkTiles
    <3>4. Tiling(Mark(bs, k, FALSE))
      BY MarkTiles
    <3> QED
      BY <2>1, <3>1, <3>2, <3>3, <3>4
  <2>3. \A i \in 1..Len(bs) : i # k => new[i] = bs[i]
    BY <2>1 DEF Mark
  <2>4. ASSUME \A i \in 1..(Len(bs) - 1) : ~(bs[i].free /\ bs[i + 1].free)
        PROVE  \A i \in 1..(Len(new) - 1) : ~(new[i].free /\ new[i + 1].free)
    <3> TAKE i \in 1..(Len(new) - 1)
    <3>1. i \in 1..Len(bs) /\ i + 1 \in 1..Len(bs) /\ i \in 1..(Len(bs) - 1)
      BY <2>2
    <3> QED
      BY <2>2, <2>3, <2>4, <3>1
  <2>5. k \in 1..Len(new) /\ new[k].at = bs[k].at /\ ~new[k].free /\ new[k].size >= n
    BY <2>2
  <2>6. \A i \in 1..Len(bs) : i # k => \E j \in 1..Len(new) : new[j] = bs[i]
    BY <2>2, <2>3
  <2>7. \A j \in 1..Len(new) : j # k /\ ~new[j].free =>
          \E i \in 1..Len(bs) : new[j] = bs[i]
    BY <2>2, <2>3
  <2> QED
    BY <2>2, <2>4, <2>5, <2>6, <2>7
<1> QED
  BY <1>1, <1>2

LEMMA InitHeapInv == Init => HeapInv
<1> SUFFICES ASSUME Init PROVE HeapInv
  OBVIOUS
<1> DEFINE first == [at |-> HeapStart, size |-> HeapSize - Header, free |-> TRUE]
<1>1. first \in Block
  BY HeapConstants DEF Header, Block
<1> HIDE DEF first
<1>2. blocks = <<first>> /\ live = << >> /\ curr = 0 /\ ret = 0
  BY DEF Init, first
<1>3. blocks \in Seq(Block) /\ Len(blocks) = 1 /\ blocks[1] = first
  BY <1>1, <1>2
<1>4. DOMAIN live = {}
  BY <1>2
<1>5. TypeOK
  BY <1>2, <1>3, <1>4, HeapConstants DEF TypeOK
<1>6. first.at = HeapStart /\ first.size = HeapSize - Header /\ first.free
  BY DEF first
<1>7. Tiling(blocks)
  <2>1. HeapStart + Header + (HeapSize - Header) = HeapEnd
    BY HeapConstants DEF HeapEnd, Header
  <2> QED
    BY <1>3, <1>6, <2>1 DEF Tiling
<1>8. Owned(blocks, live)
  BY <1>3, <1>4, <1>6 DEF Owned
<1>9. Passed
  BY <1>3 DEF Passed
<1> QED
  BY <1>5, <1>7, <1>8, <1>9 DEF HeapInv

LEMMA KmallocKeeps ==
  ASSUME HeapInv, NEW n \in Requests, kmalloc(n)
  PROVE  HeapInv'
<1>1. /\ blocks \in Seq(Block) /\ curr = 0 /\ curr' = 0 /\ Tiling(blocks)
      /\ DOMAIN live \subseteq HeapStart..HeapEnd
      /\ \A p \in DOMAIN live : live[p] \in Requests
  BY DEF HeapInv, TypeOK, kmalloc
<1>2. PICK k \in 1..Len(blocks) :
        /\ blocks[k].free /\ blocks[k].size >= Aligned(n)
        /\ blocks' = Take(blocks, k, Aligned(n))
        /\ ret' = blocks[k].at + Header
        /\ live' = [p \in DOMAIN live \cup {ret'} |-> IF p = ret' THEN n ELSE live[p]]
  BY DEF kmalloc, Fits
<1>3. Aligned(n) \in Nat /\ (NoWrap => n <= Aligned(n))
  BY AlignedBounds
<1>4. /\ blocks' \in Seq(Block)
      /\ Tiling(blocks')
      /\ k \in 1..Len(blocks')
      /\ blocks'[k].at = blocks[k].at /\ ~blocks'[k].free
      /\ blocks'[k].size >= Aligned(n)
      /\ \A i \in 1..Len(blocks) : i # k =>
           \E j \in 1..Len(blocks') : blocks'[j] = blocks[i]
      /\ \A j \in 1..Len(blocks') : j # k /\ ~blocks'[j].free =>
           \E i \in 1..Len(blocks) : blocks'[j] = blocks[i]
      /\ (\A i \in 1..(Len(blocks) - 1) : ~(blocks[i].free /\ blocks[i + 1].free))
           => \A i \in 1..(Len(blocks') - 1) : ~(blocks'[i].free /\ blocks'[i + 1].free)
  BY <1>1, <1>2, <1>3, TakeBlocks, SMTT(60)
<1>5. TypeOK'
  <2>1. ret' \in HeapStart..HeapEnd
    <3>1. /\ blocks[k] \in Block
          /\ blocks[k].at >= HeapStart
          /\ blocks[k].at + Header + blocks[k].size <= HeapEnd
      BY <1>1, InHeap
    <3>2. blocks[k].at \in Nat /\ blocks[k].size \in Nat
      BY <3>1 DEF Block
    <3> QED
      BY <1>2, <3>1, <3>2, HeapConstants, SMTT(60) DEF Header
  <2>2. DOMAIN live' = DOMAIN live \cup {ret'}
    BY <1>2
  <2>3. \A p \in DOMAIN live' : live'[p] \in Requests
    BY <1>1, <1>2
  <2>4. ret' \in 0..HeapEnd
    BY <2>1, HeapConstants
  <2>5. curr' \in 0..Len(blocks')
    BY <1>1, <1>4
  <2> QED
    BY <1>1, <1>4, <2>1, <2>2, <2>3, <2>4, <2>5 DEF TypeOK
<1>6. Owned(blocks', live')
  <2>1. DOMAIN live' = DOMAIN live \cup {ret'} /\ live'[ret'] = n
    BY <1>2
  <2>2. \A p \in DOMAIN live' : \E i \in 1..Len(blocks') :
          /\ blocks'[i].at + Header = p
          /\ ~blocks'[i].free
          /\ NoWrap => live'[p] <= blocks'[i].size
    <3> TAKE p \in DOMAIN live'
    <3>1. CASE p = ret'
      <4>1. NoWrap => n <= blocks'[k].size
        <5>1. blocks'[k] \in Block
          BY <1>4
        <5>2. blocks'[k].size \in Nat /\ n \in Nat
          BY <5>1, HeapOK DEF Block, HeapOK
        <5> QED
          BY <1>3, <1>4, <5>2
      <4> QED
        BY <1>2, <1>4, <2>1, <3>1, <4>1
    <3>2. CASE p # ret'
      <4>1. p \in DOMAIN live /\ live'[p] = live[p]
        BY <1>2, <3>2
      <4>2. PICK i \in 1..Len(blocks) :
              /\ blocks[i].at + Header = p
              /\ ~blocks[i].free
              /\ NoWrap => live[p] <= blocks[i].size
        BY <4>1 DEF HeapInv, Owned
      <4>3. i # k
        BY <1>2, <4>2
      <4> QED
        BY <1>4, <4>1, <4>2, <4>3
    <3> QED
      BY <3>1, <3>2
  <2>3. \A i \in 1..Len(blocks') :
          ~blocks'[i].free => blocks'[i].at + Header \in DOMAIN live'
    <3> SUFFICES ASSUME NEW i \in 1..Len(blocks'), ~blocks'[i].free
                 PROVE  blocks'[i].at + Header \in DOMAIN live'
      OBVIOUS
    <3>1. CASE i = k
      BY <1>2, <1>4, <2>1, <3>1
    <3>2. CASE i # k
      <4>1. PICK j \in 1..Len(blocks) : blocks'[i] = blocks[j]
        BY <1>4, <3>2
      <4> QED
        BY <2>1, <4>1 DEF HeapInv, Owned
    <3> QED
      BY <3>1, <3>2
  <2> QED
    BY <2>2, <2>3 DEF Owned
<1>7. Passed'
  BY <1>1, <1>4 DEF HeapInv, Passed
<1> QED
  BY <1>4, <1>5, <1>6, <1>7 DEF HeapInv

LEMMA KfreeKeeps ==
  ASSUME HeapInv, NEW p \in DOMAIN live, kfree(p)
  PROVE  HeapInv'
<1>1. /\ blocks \in Seq(Block) /\ Tiling(blocks)
      /\ DOMAIN live \subseteq HeapStart..HeapEnd
      /\ \A q \in DOMAIN live : live[q] \in Requests
      /\ ret \in 0..HeapEnd /\ ret' = ret /\ curr' = 1
      /\ live' = [q \in DOMAIN live \ {p} |-> live[q]]
  BY DEF HeapInv, TypeOK, kfree
<1>2. PICK k \in 1..Len(blocks) : /\ blocks[k].at = p - Header
                                   /\ blocks' = [blocks EXCEPT ![k].free = TRUE]
  BY DEF kfree
<1>3. /\ blocks' \in Seq(Block)
      /\ Len(blocks') = Len(blocks)
      /\ \A i \in 1..Len(blocks) :
           /\ blocks'[i].at = blocks[i].at
           /\ blocks'[i].size = blocks[i].size
           /\ i # k => blocks'[i] = blocks[i]
      /\ blocks'[k].free = TRUE
      /\ Tiling(blocks')
  <2>1. blocks' = Mark(blocks, k, TRUE)
    BY <1>2 DEF Mark
  <2>2. Mark(blocks, k, TRUE) \in Seq(Block) /\ Len(Mark(blocks, k, TRUE)) = Len(blocks)
    BY <1>1, MarkTiles
  <2>3. \A i \in 1..Len(blocks) :
          /\ Mark(blocks, k, TRUE)[i].at = blocks[i].at
          /\ Mark(blocks, k, TRUE)[i].size = blocks[i].size
          /\ i # k => Mark(blocks, k, TRUE)[i] = blocks[i]
    BY <1>1, MarkTiles
  <2>4. Mark(blocks, k, TRUE)[k].free = TRUE
    BY <1>1, MarkTiles
  <2>5. Tiling(Mark(blocks, k, TRUE))
    BY <1>1, MarkTiles
  <2> QED
    BY <2>1, <2>2, <2>3, <2>4, <2>5
<1>4. /\ DOMAIN live' = DOMAIN live \ {p}
      /\ \A q \in DOMAIN live' : live'[q] = live[q]
  BY <1>1
<1>5. TypeOK'
  <2>1. curr' \in 0..Len(blocks')
    BY <1>1, <1>3 DEF Tiling
  <2> QED
    BY <1>1, <1>3, <1>4, <2>1 DEF TypeOK
<1>6. \A i \in 1..Len(blocks) : blocks[i].at + Header = p <=> i = k
  <2>1. p \in Int
    BY <1>1, HeapConstants
  <2>2. \A i \in 1..Len(blocks) : blocks[i].at \in Nat
    <3>1. \A i \in 1..Len(blocks) : blocks[i] \in Block
      BY <1>1
    <3> QED
      BY <3>1 DEF Block
  <2>3. \A i \in 1..Len(blocks) : blocks[i].at + Header = p <=> blocks[i].at = blocks[k].at
    BY <1>2, <2>1, <2>2 DEF Header
  <2> QED
    BY <1>1, <2>3, AtUnique
<1>7. Owned(blocks', live')
  <2>1. \A q \in DOMAIN live' : \E i \in 1..Len(blocks') :
          /\ blocks'[i].at + Header = q
          /\ ~blocks'[i].free
          /\ NoWrap => live'[q] <= blocks'[i].size
    <3> TAKE q \in DOMAIN live'
    <3>1. PICK i \in 1..Len(blocks) :
            /\ blocks[i].at + Header = q
            /\ ~blocks[i].free
            /\ NoWrap => live[q] <= blocks[i].size
      BY <1>4 DEF HeapInv, Owned
    <3>2. i # k
      BY <1>4, <1>6, <3>1
    <3> QED
      BY <1>3, <1>4, <3>1, <3>2
  <2>2. \A i \in 1..Len(blocks') :
          ~blocks'[i].free => blocks'[i].at + Header \in DOMAIN live'
    BY <1>3, <1>4, <1>6 DEF HeapInv, Owned
  <2> QED
    BY <2>1, <2>2 DEF Owned
<1>8. Passed'
  BY <1>1 DEF Passed
<1> QED
  BY <1>3, <1>5, <1>7, <1>8 DEF HeapInv

LEMMA MergeKeeps ==
  ASSUME HeapInv, Merge
  PROVE  HeapInv'
<1>1. /\ blocks \in Seq(Block) /\ Tiling(blocks)
      /\ curr \in 1..(Len(blocks) - 1) /\ curr' = curr
      /\ blocks[curr].free /\ blocks[curr + 1].free
      /\ blocks' = Join(blocks, curr)
      /\ live' = live /\ ret' = ret
  BY DEF HeapInv, TypeOK, Merge, MergesAt
<1>2. /\ blocks' \in Seq(Block)
      /\ Len(blocks') = Len(blocks) - 1
      /\ \A i \in 1..(curr - 1) : blocks'[i] = blocks[i]
      /\ blocks'[curr] = [at |-> blocks[curr].at,
                          size |-> blocks[curr].size + blocks[curr + 1].size + Header,
                          free |-> blocks[curr].free]
      /\ \A i \in (curr + 1)..(Len(blocks) - 1) : blocks'[i] = blocks[i + 1]
      /\ Tiling(blocks')
  <2>1. Join(blocks, curr) \in Seq(Block)
    BY <1>1, JoinTiles
  <2>2. Len(Join(blocks, curr)) = Len(blocks) - 1
    BY <1>1, JoinTiles
  <2>3. \A i \in 1..(curr - 1) : Join(blocks, curr)[i] = blocks[i]
    BY <1>1, JoinTiles
  <2>4. Join(blocks, curr)[curr] = [at |-> blocks[curr].at,
                          size |-> blocks[curr].size + blocks[curr + 1].size + Header,
                          free |-> blocks[curr].free]
    BY <1>1, JoinTiles
  <2>5. \A i \in (curr + 1)..(Len(blocks) - 1) : Join(blocks, curr)[i] = blocks[i + 1]
    BY <1>1, JoinTiles
  <2>6. Tiling(Join(blocks, curr))
    BY <1>1, JoinTiles
  <2> QED
    BY <1>1, <2>1, <2>2, <2>3, <2>4, <2>5, <2>6
<1>3. blocks'[curr].free = blocks[curr].free /\ Len(blocks) \in Nat /\ curr \in Nat
  BY <1>1, <1>2
<1>4. TypeOK'
  BY <1>1, <1>2, <1>3 DEF HeapInv, TypeOK
<1>5. Owned(blocks', live')
  <2>1. \A i \in 1..Len(blocks) : ~blocks[i].free =>
          \E j \in 1..Len(blocks') : blocks'[j] = blocks[i]
    <3> SUFFICES ASSUME NEW i \in 1..Len(blocks), ~blocks[i].free
                 PROVE  \E j \in 1..Len(blocks') : blocks'[j] = blocks[i]
      OBVIOUS
    <3>1. CASE i < curr
      <4>1. i \in 1..(curr - 1) /\ i \in 1..Len(blocks')
        BY <1>1, <1>2, <1>3, <3>1
      <4> QED
        BY <1>2, <4>1
    <3>2. CASE i > curr + 1
      <4>1. /\ i - 1 \in (curr + 1)..(Len(blocks) - 1)
            /\ i - 1 \in 1..Len(blocks') /\ (i - 1) + 1 = i
        BY <1>1, <1>2, <1>3, <3>2
      <4>2. blocks'[i - 1] = blocks[i]
        BY <1>2, <4>1
      <4> QED
        BY <4>1, <4>2
    <3> QED
      BY <1>1, <1>3, <3>1, <3>2
  <2>2. \A j \in 1..Len(blocks') : ~blocks'[j].free =>
          \E i \in 1..Len(blocks) : blocks'[j] = blocks[i]
    <3> SUFFICES ASSUME NEW j \in 1..Len(blocks'), ~blocks'[j].free
                 PROVE  \E i \in 1..Len(blocks) : blocks'[j] = blocks[i]
      OBVIOUS
    <3>1. CASE j < curr
      <4>1. j \in 1..(curr - 1) /\ j \in 1..Len(blocks)
        BY <1>1, <1>2, <1>3, <3>1
      <4> QED
        BY <1>2, <4>1
    <3>2. CASE j > curr
      <4>1. j \in (curr + 1)..(Len(blocks) - 1) /\ j + 1 \in 1..Len(blocks)
        BY <1>1, <1>2, <1>3, <3>2
      <4> QED
        BY <1>2, <4>1
    <3>3. j # curr
      BY <1>1, <1>3
    <3>4. j \in Nat /\ curr \in Nat
      BY <1>2, <1>3
    <3> QED
      BY <3>1, <3>2, <3>3, <3>4
  <2>3. \A q \in DOMAIN live' : \E i \in 1..Len(blocks') :
          /\ blocks'[i].at + Header = q
          /\ ~blocks'[i].free
          /\ NoWrap => live'[q] <= blocks'[i].size
    <3> TAKE q \in DOMAIN live'
    <3>1. PICK i \in 1..Len(blocks) :
            /\ blocks[i].at + Header = q
            /\ ~blocks[i].free
            /\ NoWrap => live[q] <= blocks[i].size
      BY <1>1 DEF HeapInv, Owned
    <3> QED
      BY <1>1, <2>1, <3>1
  <2>4. \A i \in 1..Len(blocks') :
          ~blocks'[i].free => blocks'[i].at + Header \in DOMAIN live'
    BY <1>1, <2>2 DEF HeapInv, Owned
  <2> QED
    BY <2>3, <2>4 DEF Owned
<1>6. Passed'
  <2> SUFFICES ASSUME NEW i \in 1..(Len(blocks') - 1), i < curr
               PROVE  ~(blocks'[i].free /\ blocks'[i + 1].free)
    BY <1>1, <1>3 DEF Passed
  <2>1. i \in 1..(curr - 1) /\ i \in 1..(Len(blocks) - 1)
    BY <1>2, <1>3
  <2>2. blocks'[i] = blocks[i] /\ blocks'[i + 1].free = blocks[i + 1].free
    <3>1. CASE i + 1 = curr
      BY <1>2, <1>3, <2>1, <3>1
    <3>2. CASE i + 1 # curr
      <4>1. i + 1 \in 1..(curr - 1)
        BY <1>3, <2>1, <3>2
      <4> QED
        BY <1>2, <2>1, <4>1
    <3> QED
      BY <3>1, <3>2
  <2> QED
    BY <1>3, <2>1, <2>2 DEF HeapInv, Passed
<1> QED
  BY <1>2, <1>4, <1>5, <1>6 DEF HeapInv

LEMMA AdvanceKeeps ==
  ASSUME HeapInv, Advance
  PROVE  HeapInv'
<1>1. /\ curr \in 1..Len(blocks) /\ ~MergesAt(curr)
      /\ curr' = IF curr < Len(blocks) THEN curr + 1 ELSE 0
      /\ blocks' = blocks /\ live' = live /\ ret' = ret
  BY DEF HeapInv, TypeOK, Advance
<1>2. blocks \in Seq(Block)
  BY DEF HeapInv, TypeOK
<1>3. TypeOK'
  BY <1>1, <1>2 DEF HeapInv, TypeOK
<1>4. Passed'
  BY <1>1, <1>2 DEF HeapInv, Passed, MergesAt
<1> QED
  BY <1>1, <1>3, <1>4 DEF HeapInv, Tiling, Owned

\* The invariant of the heap, whatever its size and the requests.
THEOREM HeapInvariant == Spec => []HeapInv
<1>1. HeapInv /\ [Next]_vars => HeapInv'
  <2> SUFFICES ASSUME HeapInv, [Next]_vars PROVE HeapInv'
    OBVIOUS
  <2>1. ASSUME NEW n \in Requests, kmalloc(n) PROVE HeapInv'
    BY <2>1, KmallocKeeps
  <2>2. ASSUME NEW n \in Requests, kmalloc_fails(n) PROVE HeapInv'
    <3>1. blocks' = blocks /\ live' = live /\ curr' = curr /\ ret' = 0
      BY <2>2 DEF kmalloc_fails
    <3>2. TypeOK'
      BY <3>1, HeapConstants DEF HeapInv, TypeOK
    <3> QED
      BY <3>1, <3>2 DEF HeapInv, Tiling, Owned, Passed
  <2>3. ASSUME NEW p \in DOMAIN live, kfree(p) PROVE HeapInv'
    BY <2>3, KfreeKeeps
  <2>4. CASE Merge
    BY <2>4, MergeKeeps
  <2>5. CASE Advance
    BY <2>5, AdvanceKeeps
  <2>6. CASE UNCHANGED vars
    BY <2>6 DEF vars, HeapInv, TypeOK, Tiling, Owned, Passed
  <2> QED
    BY <2>1, <2>2, <2>3, <2>4, <2>5, <2>6 DEF Next, Loop
<1> QED
  BY <1>1, InitHeapInv, PTL DEF Spec

-----------------------------------------------------------------------------
(***************************************************************************)
(* Theorems.                                                               *)
(***************************************************************************)

\* Every variable of the heap keeps its type. (malloc.c:14-65)
THEOREM HeapTypeCorrect == Spec => []TypeOK
<1>1. HeapInv => TypeOK
  BY DEF HeapInv
<1> QED
  BY <1>1, HeapInvariant, PTL

\* The blocks always tile the heap, whatever sizes are asked for.
\* (malloc.c:31-37, 60-61)
THEOREM BlocksTile == Spec => []Tiles
<1>1. HeapInv => Tiles
  BY DEF HeapInv, Tiling, Tiles
<1> QED
  BY <1>1, HeapInvariant, PTL

\* Between calls no two free blocks are neighbours. (malloc.c:57-65)
THEOREM AlwaysCoalesced == Spec => []Coalesced
<1>1. HeapInv => Coalesced
  BY DEF HeapInv, Passed, Coalesced
<1> QED
  BY <1>1, HeapInvariant, PTL

\* A heap nobody holds a block of is one block again. (malloc.c:50-65)
THEOREM NothingLost == Spec => []EmptyHeapIsWhole
<1>1. HeapInv => EmptyHeapIsWhole
  <2> SUFFICES ASSUME HeapInv, DOMAIN live = {}, curr = 0
               PROVE  blocks = <<[at |-> HeapStart, size |-> HeapSize - Header,
                                  free |-> TRUE]>>
    BY DEF EmptyHeapIsWhole
  <2>1. blocks \in Seq(Block) /\ Tiling(blocks)
    BY DEF HeapInv, TypeOK
  <2>2. \A i \in 1..Len(blocks) : blocks[i].free
    BY DEF HeapInv, Owned
  <2>3. Len(blocks) = 1
    <3> SUFFICES ASSUME Len(blocks) # 1 PROVE FALSE
      OBVIOUS
    <3>1. Len(blocks) \in Nat /\ Len(blocks) >= 1
      BY <2>1 DEF Tiling
    <3>2. Len(blocks) >= 2
      BY <3>1
    <3>3. 1 \in 1..(Len(blocks) - 1)
      BY <3>1, <3>2
    <3>4. ~(blocks[1].free /\ blocks[1 + 1].free)
      BY <3>3 DEF HeapInv, Passed
    <3>5. blocks[1].free /\ blocks[2].free
      BY <2>2, <3>1, <3>2
    <3> QED
      BY <3>4, <3>5
  <2>4. blocks[1] \in Block
    BY <2>1, <2>3
  <2>5. /\ blocks[1].at = HeapStart
        /\ blocks[1].at + Header + blocks[1].size = HeapEnd
    BY <2>1, <2>3 DEF Tiling
  <2>6. blocks[1].size = HeapSize - Header
    <3>1. blocks[1].size \in Nat
      BY <2>4 DEF Block
    <3> QED
      BY <2>5, <3>1, HeapConstants DEF HeapEnd, Header
  <2>7. blocks[1].free = TRUE
    <3>1. blocks[1].free \in BOOLEAN
      BY <2>4 DEF Block
    <3>2. blocks[1].free
      BY <2>2, <2>3
    <3> QED
      BY <3>1, <3>2
  <2>8. blocks[1] = [at |-> HeapStart, size |-> HeapSize - Header, free |-> TRUE]
    BY <2>4, <2>5, <2>6, <2>7 DEF Block
  <2> QED
    BY <2>1, <2>3, <2>8
<1> QED
  BY <1>1, HeapInvariant, PTL

\* What is held is what is marked as taken, and large enough, if no size asked
\* for wraps around. (malloc.c:24-41)
THEOREM OwnersHoldBlocks == NoWrap => (Spec => []HeldIsTaken)
<1> SUFFICES ASSUME NoWrap PROVE Spec => []HeldIsTaken
  OBVIOUS
<1>1. HeapInv => HeldIsTaken
  BY DEF HeapInv, Owned, HeldIsTaken
<1> QED
  BY <1>1, HeapInvariant, PTL

\* The payloads of two owners stay apart, by a header at least.
LEMMA PayloadsApart ==
  ASSUME NoWrap, NEW bs \in Seq(Block), Tiling(bs), NEW l, Owned(bs, l),
         \A q \in DOMAIN l : q \in Nat /\ l[q] \in Nat,
         NEW p \in DOMAIN l
  PROVE  /\ p + l[p] <= HeapEnd
         /\ \A q \in DOMAIN l : p < q => p + l[p] <= q - Header
<1>1. PICK i \in 1..Len(bs) : bs[i].at + Header = p /\ l[p] <= bs[i].size
  BY DEF Owned
<1>2. \A j \in 1..Len(bs) : bs[j].at \in Nat /\ bs[j].size \in Nat
  <2>1. \A j \in 1..Len(bs) : bs[j] \in Block
    OBVIOUS
  <2> QED
    BY <2>1 DEF Block
<1>3. p \in Nat /\ l[p] \in Nat /\ bs[i].at \in Nat /\ bs[i].size \in Nat
  BY <1>2
<1>4. p + l[p] <= bs[i].at + Header + bs[i].size
  BY <1>1, <1>3, SMTT(60) DEF Header
<1>5. bs[i].at + Header + bs[i].size <= HeapEnd
  BY InHeap
<1>6. p + l[p] <= HeapEnd
  <2>1. p + l[p] \in Nat /\ bs[i].at + Header + bs[i].size \in Nat
    BY <1>3, SMTT(60) DEF Header
  <2> QED
    BY <1>4, <1>5, <2>1, HeapConstants
<1>7. ASSUME NEW q \in DOMAIN l, p < q
      PROVE  p + l[p] <= q - Header
  <2>1. PICK j \in 1..Len(bs) : bs[j].at + Header = q
    BY DEF Owned
  <2>2. bs[j].at \in Nat /\ bs[j].size \in Nat
    BY <1>2
  <2>3. bs[i].at < bs[j].at
    BY <1>1, <1>3, <1>7, <2>1, <2>2, SMTT(60) DEF Header
  <2>4. i < j
    <3>1. CASE j < i
      <4>1. bs[j].at + Header + bs[j].size <= bs[i].at
        BY <3>1 DEF Tiling
      <4> QED
        BY <1>3, <2>2, <2>3, <4>1, SMTT(60) DEF Header
    <3>2. CASE j = i
      BY <1>3, <2>3, <3>2
    <3> QED
      BY <3>1, <3>2
  <2>5. bs[i].at + Header + bs[i].size <= bs[j].at
    BY <2>4 DEF Tiling
  <2>6. q - Header = bs[j].at
    BY <2>1, <2>2, SMTT(60) DEF Header
  <2> QED
    BY <1>3, <1>4, <2>2, <2>5, <2>6, SMTT(60) DEF Header
<1> QED
  BY <1>6, <1>7

LEMMA OwnersTyped ==
  ASSUME HeapInv
  PROVE  /\ blocks \in Seq(Block) /\ Tiling(blocks) /\ Owned(blocks, live)
         /\ \A q \in DOMAIN live : q \in Nat /\ live[q] \in Nat
<1>1. DOMAIN live \subseteq Nat
  BY HeapConstants DEF HeapInv, TypeOK
<1>2. Requests \subseteq Nat
  BY HeapOK DEF HeapOK
<1> QED
  BY <1>1, <1>2 DEF HeapInv, TypeOK

\* No two owners' memory overlaps, nor does it reach past the heap, if no size
\* asked for wraps around. (malloc.c:21-48)
THEOREM MemoryIsExclusive == NoWrap => (Spec => []PayloadsDisjoint)
<1> SUFFICES ASSUME NoWrap PROVE Spec => []PayloadsDisjoint
  OBVIOUS
<1>1. HeapInv => PayloadsDisjoint
  BY OwnersTyped, PayloadsApart DEF PayloadsDisjoint
<1> QED
  BY <1>1, HeapInvariant, PTL

\* kmalloc and kfree are an allocator, if no size asked for wraps around: every
\* other step of the list is invisible to its callers. (malloc.c:21-65)
THEOREM ImplementsAllocator == NoWrap => (Spec => AllocatorSpec)
<1> SUFFICES ASSUME NoWrap PROVE Spec => AllocatorSpec
  OBVIOUS
<1>1. Init => Abstract!Init
  BY DEF Init, Abstract!Init
<1>2. HeapInv /\ HeapInv' /\ [Next]_vars => [Abstract!Next]_live
  <2> SUFFICES ASSUME HeapInv, HeapInv', [Next]_vars
               PROVE  Abstract!Next \/ UNCHANGED live
    OBVIOUS
  <2>1. ASSUME NEW n \in Requests, kmalloc(n) PROVE Abstract!Malloc
    <3>1. PICK k \in 1..Len(blocks) :
            /\ blocks[k].free
            /\ ret' = blocks[k].at + Header
            /\ live' = [p \in DOMAIN live \cup {ret'} |-> IF p = ret' THEN n ELSE live[p]]
      BY <2>1 DEF kmalloc, Fits
    <3>2. ret' \notin DOMAIN live
      <4> SUFFICES ASSUME ret' \in DOMAIN live PROVE FALSE
        OBVIOUS
      <4>1. PICK i \in 1..Len(blocks) : blocks[i].at + Header = ret' /\ ~blocks[i].free
        BY DEF HeapInv, Owned
      <4>2. blocks \in Seq(Block) /\ Tiling(blocks)
        BY DEF HeapInv, TypeOK
      <4>3. blocks[i] \in Block /\ blocks[k] \in Block
        BY <4>2
      <4>4. blocks[i].at = blocks[k].at
        BY <3>1, <4>1, <4>3 DEF Block, Header
      <4>5. i = k
        BY <4>2, <4>4, AtUnique
      <4> QED
        BY <3>1, <4>1, <4>5
    <3>3. DOMAIN live' = DOMAIN live \cup {ret'} /\ live'[ret'] = n
      BY <3>1
    <3>4. \A q \in DOMAIN live : q \in DOMAIN live' /\ live'[q] = live[q]
      BY <3>1, <3>2
    <3>5. /\ blocks' \in Seq(Block) /\ Tiling(blocks') /\ Owned(blocks', live')
          /\ \A q \in DOMAIN live' : q \in Nat /\ live'[q] \in Nat
      <4>1. DOMAIN live' \subseteq Nat
        BY HeapConstants DEF HeapInv, TypeOK
      <4>2. Requests \subseteq Nat
        BY HeapOK DEF HeapOK
      <4> QED
        BY <4>1, <4>2 DEF HeapInv, TypeOK
    <3>6. \A p \in DOMAIN live' :
            /\ p + live'[p] <= HeapEnd
            /\ \A q \in DOMAIN live' : p < q => p + live'[p] <= q - Header
      BY <3>5, PayloadsApart
    <3>7. ret' \in HeapStart..HeapEnd /\ ret' + n <= HeapEnd
      BY <3>3, <3>6 DEF HeapInv, TypeOK
    <3>8. ASSUME NEW q \in DOMAIN live PROVE Abstract!Disjoint(ret', n, q, live[q])
      <4>1. q \in DOMAIN live' /\ ret' \in DOMAIN live' /\ q # ret'
        BY <3>2, <3>3, <3>4
      <4>2. q \in Nat /\ ret' \in Nat /\ n \in Nat /\ live[q] \in Nat
        BY <3>3, <3>4, <3>5, <4>1
      <4>3. CASE ret' < q
        <5>1. ret' + n <= q - Header
          BY <3>3, <3>6, <4>1, <4>3
        <5> QED
          BY <4>2, <5>1 DEF Abstract!Disjoint, Header
      <4>4. CASE q < ret'
        <5>1. q + live[q] <= ret' - Header
          BY <3>4, <3>6, <4>1, <4>4
        <5> QED
          BY <4>2, <5>1 DEF Abstract!Disjoint, Header
      <4> QED
        BY <4>1, <4>2, <4>3, <4>4
    <3> QED
      BY <3>1, <3>2, <3>7, <3>8 DEF Abstract!Malloc
  <2>2. ASSUME NEW p \in DOMAIN live, kfree(p) PROVE Abstract!Free
    BY <2>2 DEF kfree, Abstract!Free
  <2> QED
    BY <2>1, <2>2 DEF Next, Loop, Merge, Advance, kmalloc_fails, vars, Abstract!Next
<1> QED
  BY <1>1, <1>2, HeapInvariant, PTL DEF Spec, AllocatorSpec, Abstract!Spec

-----------------------------------------------------------------------------
(***************************************************************************)
(* What SYS_MEM_INFO reports.  The two sums run over the list; that they   *)
(* exist, and what they are, is shown on the lowest index that would be an *)
(* exception.                                                              *)
(***************************************************************************)
LEMMA LowestNumber ==
  ASSUME NEW Z, Z \subseteq Nat, Z # {}
  PROVE  \E n \in Z : \A k \in Z : ~(k < n)
<1> DEFINE R == {ss \in Nat \X Nat : ss[1] < ss[2]}
<1>1. IsWellFoundedOn(R, Nat)
  BY NatLessThanWellFounded DEF OpToRel
<1>2. \A u, v \in Nat : u < v => <<u, v>> \in R
  OBVIOUS
<1> HIDE DEF R
<1>3. PICK n \in Z : \A k \in Z : ~(<<k, n>> \in R)
  BY <1>1, WFMin
<1> QED BY <1>2, <1>3

\* A set of numbers that holds 0, and with each number below n the next, holds
\* all of them up to n.
LEMMA UpTo ==
  ASSUME NEW n \in Nat, NEW S, 0 \in S, \A i \in 1..n : i - 1 \in S => i \in S
  PROVE  \A i \in 0..n : i \in S
<1> DEFINE Z == {i \in 0..n : i \notin S}
<1> SUFFICES ASSUME Z # {} PROVE FALSE
  OBVIOUS
<1>1. PICK i \in Z : \A k \in Z : ~(k < i)
  <2> Z \subseteq Nat
    OBVIOUS
  <2> HIDE DEF Z
  <2> QED BY LowestNumber
<1>2. i \in 1..n /\ i - 1 \in 0..n /\ i - 1 < i
  BY <1>1
<1> QED BY <1>1, <1>2

\* The partial sums of v exist.
LEMMA SumsExist ==
  ASSUME NEW n \in Nat, NEW v \in [1..n -> Int]
  PROVE  \E g \in [0..n -> Int] : g[0] = 0 /\ \A i \in 1..n : g[i] = g[i - 1] + v[i]
<1> DEFINE S == {m \in 0..n : \E g \in [0..m -> Int] :
                               g[0] = 0 /\ \A i \in 1..m : g[i] = g[i - 1] + v[i]}
<1>1. 0 \in S
  <2> DEFINE g == [i \in 0..0 |-> 0]
  <2>1. g \in [0..0 -> Int] /\ g[0] = 0 /\ \A i \in 1..0 : g[i] = g[i - 1] + v[i]
    OBVIOUS
  <2> HIDE DEF g
  <2>2. \E k \in [0..0 -> Int] : k[0] = 0 /\ \A i \in 1..0 : k[i] = k[i - 1] + v[i]
    BY <2>1, Zenon
  <2>3. 0 \in 0..n
    OBVIOUS
  <2> QED BY <2>2, <2>3, Zenon
<1>2. ASSUME NEW m \in 1..n, m - 1 \in S PROVE m \in S
  <2>1. PICK h \in [0..(m - 1) -> Int] : h[0] = 0 /\ \A i \in 1..(m - 1) : h[i] = h[i - 1] + v[i]
    BY <1>2
  <2> DEFINE g == [i \in 0..m |-> IF i = m THEN h[m - 1] + v[m] ELSE h[i]]
  <2>2. m \in Nat /\ m > 0 /\ h[m - 1] \in Int /\ v[m] \in Int
    OBVIOUS
  <2>3. g \in [0..m -> Int]
    BY <2>2
  <2>4. g[0] = 0 /\ g[m] = g[m - 1] + v[m]
    BY <2>1, <2>2
  <2>5. \A i \in 1..m : g[i] = g[i - 1] + v[i]
    <3> TAKE i \in 1..m
    <3>1. CASE i = m
      BY <3>1, <2>4
    <3>2. CASE i # m
      <4>1. i \in 1..(m - 1) /\ i - 1 # m /\ i \in 0..m /\ i - 1 \in 0..m
        BY <3>2, <2>2
      <4>2. g[i] = h[i] /\ g[i - 1] = h[i - 1]
        BY <4>1, <3>2
      <4> QED BY <4>1, <4>2, <2>1
    <3> QED BY <3>1, <3>2
  <2> HIDE DEF g
  <2>6. \E k \in [0..m -> Int] : k[0] = 0 /\ \A i \in 1..m : k[i] = k[i - 1] + v[i]
    BY <2>3, <2>4, <2>5
  <2>7. m \in 0..n
    OBVIOUS
  <2> QED BY <2>6, <2>7, Zenon
<1>3. n \in S
  <2> HIDE DEF S
  <2>1. \A i \in 0..n : i \in S
    BY <1>1, <1>2, UpTo
  <2> QED BY <2>1
<1> QED BY <1>3

\* SumTo adds the numbers one by one.
LEMMA SumIs ==
  ASSUME NEW n \in Nat, NEW v \in [1..n -> Int]
  PROVE  \E g \in [0..n -> Int] :
           /\ g[0] = 0 /\ \A i \in 1..n : g[i] = g[i - 1] + v[i]
           /\ SumTo(n, v) = g[n]
<1> DEFINE sum[i \in 0..n] == IF i = 0 THEN 0 ELSE sum[i - 1] + v[i]
<1>1. PICK g \in [0..n -> Int] : g[0] = 0 /\ \A i \in 1..n : g[i] = g[i - 1] + v[i]
  BY SumsExist
<1>2. g = [i \in 0..n |-> IF i = 0 THEN 0 ELSE g[i - 1] + v[i]]
  <2>1. \A i \in 0..n : g[i] = IF i = 0 THEN 0 ELSE g[i - 1] + v[i]
    BY <1>1
  <2>2. g = [i \in 0..n |-> g[i]]
    OBVIOUS
  <2>3. [i \in 0..n |-> g[i]] = [i \in 0..n |-> IF i = 0 THEN 0 ELSE g[i - 1] + v[i]]
    BY <2>1
  <2> QED BY <2>2, <2>3
<1>3. sum = [i \in 0..n |-> IF i = 0 THEN 0 ELSE sum[i - 1] + v[i]]
  BY <1>2, Zenon
<1>4. SumTo(n, v) = sum[n]
  BY Zenon DEF SumTo
<1> HIDE DEF sum
<1>5. sum[0] = 0 /\ \A i \in 1..n : sum[i] = sum[i - 1] + v[i]
  <2>1. \A i \in 1..n : i \in 0..n /\ i # 0
    OBVIOUS
  <2> QED BY <1>3, <2>1
<1>6. sum \in [0..n -> Int]
  <2> DEFINE S == {i \in 0..n : sum[i] \in Int}
  <2>1. 0 \in S
    BY <1>5
  <2>2. \A i \in 1..n : i - 1 \in S => i \in S
    <3> SUFFICES ASSUME NEW i \in 1..n, i - 1 \in S PROVE i \in S
      OBVIOUS
    <3>1. i \in 0..n /\ sum[i - 1] \in Int /\ v[i] \in Int /\ sum[i] = sum[i - 1] + v[i]
      BY <1>5
    <3> QED BY <3>1
  <2> HIDE DEF S
  <2>3. \A i \in 0..n : i \in S
    BY <2>1, <2>2, UpTo
  <2>4. \A i \in 0..n : sum[i] \in Int
    BY <2>3 DEF S
  <2> QED BY <1>3, <2>4
<1> QED BY <1>4, <1>5, <1>6

LEMMA NextParts ==
  ASSUME NEW x \in Int, NEW y \in Int, NEW z \in Int,
         NEW u \in Int, NEW f \in Int, NEW b \in Int
  PROVE  (x + y + 12 * z) + (u + f + 12 * b) = (x + u) + (y + f) + 12 * (z + b)
OBVIOUS

LEMMA NextBounds ==
  ASSUME NEW i \in Nat, NEW x \in Int, NEW y \in Int, NEW z \in Int,
         NEW o \in Int, NEW u \in Int, NEW b \in Int,
         x <= y, y <= x + 16 * (i - 1) - 16 * z, o <= u, u <= o + 16 * (1 - b)
  PROVE  x + o <= y + u /\ y + u <= (x + o) + 16 * i - 16 * (z + b)
OBVIOUS

\* A sum by parts: each number is a used one, a free one and the header of a
\* free block.
LEMMA SumByParts ==
  ASSUME NEW n \in Nat, NEW c \in [1..n -> Int], NEW u \in [1..n -> Int],
         NEW f \in [1..n -> Int], NEW b \in [1..n -> Int],
         \A i \in 1..n : c[i] = u[i] + f[i] + Header * b[i]
  PROVE  SumTo(n, c) = SumTo(n, u) + SumTo(n, f) + Header * SumTo(n, b)
<1>1. PICK gc \in [0..n -> Int] : /\ gc[0] = 0 /\ \A i \in 1..n : gc[i] = gc[i - 1] + c[i]
                                  /\ SumTo(n, c) = gc[n]
  BY SumIs
<1>2. PICK gu \in [0..n -> Int] : /\ gu[0] = 0 /\ \A i \in 1..n : gu[i] = gu[i - 1] + u[i]
                                  /\ SumTo(n, u) = gu[n]
  BY SumIs
<1>3. PICK gf \in [0..n -> Int] : /\ gf[0] = 0 /\ \A i \in 1..n : gf[i] = gf[i - 1] + f[i]
                                  /\ SumTo(n, f) = gf[n]
  BY SumIs
<1>4. PICK gb \in [0..n -> Int] : /\ gb[0] = 0 /\ \A i \in 1..n : gb[i] = gb[i - 1] + b[i]
                                  /\ SumTo(n, b) = gb[n]
  BY SumIs
<1> DEFINE S == {i \in 0..n : gc[i] = gu[i] + gf[i] + 12 * gb[i]}
<1>5. 0 \in S
  BY <1>1, <1>2, <1>3, <1>4
<1>6. \A i \in 1..n : i - 1 \in S => i \in S
  <2> SUFFICES ASSUME NEW i \in 1..n, i - 1 \in S PROVE i \in S
    OBVIOUS
  <2>1. i \in 0..n /\ i - 1 \in 0..n /\ gc[i - 1] = gu[i - 1] + gf[i - 1] + 12 * gb[i - 1]
    OBVIOUS
  <2>2. /\ gc[i] = gc[i - 1] + c[i] /\ gu[i] = gu[i - 1] + u[i]
        /\ gf[i] = gf[i - 1] + f[i] /\ gb[i] = gb[i - 1] + b[i]
    BY <1>1, <1>2, <1>3, <1>4
  <2>3. c[i] = u[i] + f[i] + 12 * b[i]
    BY DEF Header
  <2>4. /\ gu[i - 1] \in Int /\ gf[i - 1] \in Int /\ gb[i - 1] \in Int
        /\ u[i] \in Int /\ f[i] \in Int /\ b[i] \in Int
    BY <2>1
  <2> HIDE DEF S
  <2>5. gc[i] = gu[i] + gf[i] + 12 * gb[i]
    <3>1. (gu[i - 1] + gf[i - 1] + 12 * gb[i - 1]) + (u[i] + f[i] + 12 * b[i]) =
            (gu[i - 1] + u[i]) + (gf[i - 1] + f[i]) + 12 * (gb[i - 1] + b[i])
      <4> DEFINE x == gu[i - 1]
                 y == gf[i - 1]
                 z == gb[i - 1]
                 uu == u[i]
                 ff == f[i]
                 bb == b[i]
      <4>1. x \in Int /\ y \in Int /\ z \in Int /\ uu \in Int /\ ff \in Int /\ bb \in Int
        BY <2>4
      <4> HIDE DEF x, y, z, uu, ff, bb
      <4>2. (x + y + 12 * z) + (uu + ff + 12 * bb) = (x + uu) + (y + ff) + 12 * (z + bb)
        BY <4>1, NextParts
      <4> QED BY <4>2 DEF x, y, z, uu, ff, bb
    <3>2. gc[i] = (gu[i - 1] + gf[i - 1] + 12 * gb[i - 1]) + (u[i] + f[i] + 12 * b[i])
      BY <2>1, <2>2, <2>3, Zenon
    <3> QED BY <2>2, <3>1, <3>2, Zenon
  <2> QED BY <2>1, <2>5 DEF S
<1>7. n \in S
  <2> HIDE DEF S
  <2>1. \A i \in 0..n : i \in S
    BY <1>5, <1>6, UpTo
  <2> QED BY <2>1
<1> QED BY <1>1, <1>2, <1>3, <1>4, <1>7 DEF Header

\* A sum between bounds: each number is one that was asked for, and at most
\* Header + 4 more unless it is a free block's.
LEMMA SumBetween ==
  ASSUME NEW n \in Nat, NEW o \in [1..n -> Int], NEW u \in [1..n -> Int],
         NEW b \in [1..n -> Int],
         \A i \in 1..n : o[i] <= u[i] /\ u[i] <= o[i] + (Header + 4) * (1 - b[i])
  PROVE  /\ SumTo(n, o) <= SumTo(n, u)
         /\ SumTo(n, u) <= SumTo(n, o) + (Header + 4) * (n - SumTo(n, b))
<1>1. PICK go \in [0..n -> Int] : /\ go[0] = 0 /\ \A i \in 1..n : go[i] = go[i - 1] + o[i]
                                  /\ SumTo(n, o) = go[n]
  BY SumIs
<1>2. PICK gu \in [0..n -> Int] : /\ gu[0] = 0 /\ \A i \in 1..n : gu[i] = gu[i - 1] + u[i]
                                  /\ SumTo(n, u) = gu[n]
  BY SumIs
<1>3. PICK gb \in [0..n -> Int] : /\ gb[0] = 0 /\ \A i \in 1..n : gb[i] = gb[i - 1] + b[i]
                                  /\ SumTo(n, b) = gb[n]
  BY SumIs
<1> DEFINE S == {i \in 0..n : go[i] <= gu[i] /\ gu[i] <= go[i] + 16 * i - 16 * gb[i]}
<1>4. 0 \in S
  BY <1>1, <1>2, <1>3
<1>5. \A i \in 1..n : i - 1 \in S => i \in S
  <2> SUFFICES ASSUME NEW i \in 1..n, i - 1 \in S PROVE i \in S
    OBVIOUS
  <2>1. /\ i \in 0..n /\ i - 1 \in 0..n /\ go[i - 1] <= gu[i - 1]
        /\ gu[i - 1] <= go[i - 1] + 16 * (i - 1) - 16 * gb[i - 1]
    OBVIOUS
  <2>2. /\ go[i] = go[i - 1] + o[i] /\ gu[i] = gu[i - 1] + u[i] /\ gb[i] = gb[i - 1] + b[i]
    BY <1>1, <1>2, <1>3
  <2>3. o[i] <= u[i] /\ u[i] <= o[i] + 16 * (1 - b[i])
    BY DEF Header
  <2>4. /\ go[i - 1] \in Int /\ gu[i - 1] \in Int /\ gb[i - 1] \in Int
        /\ o[i] \in Int /\ u[i] \in Int /\ b[i] \in Int
    BY <2>1
  <2> HIDE DEF S
  <2>5. go[i] <= gu[i] /\ gu[i] <= go[i] + 16 * i - 16 * gb[i]
    <3>1. /\ go[i - 1] + o[i] <= gu[i - 1] + u[i]
          /\ gu[i - 1] + u[i] <= (go[i - 1] + o[i]) + 16 * i - 16 * (gb[i - 1] + b[i])
      <4>1. i \in Nat
        OBVIOUS
      <4> QED BY <2>1, <2>3, <2>4, <4>1, NextBounds
    <3> QED BY <2>2, <3>1, Zenon
  <2> QED BY <2>1, <2>5 DEF S
<1>6. n \in S
  <2> HIDE DEF S
  <2>1. \A i \in 0..n : i \in S
    BY <1>4, <1>5, UpTo
  <2> QED BY <2>1
<1>7. SumTo(n, b) \in Int
  BY <1>3
<1> QED BY <1>1, <1>2, <1>3, <1>6, <1>7 DEF Header

-----------------------------------------------------------------------------
(***************************************************************************)
(* What the report counts.                                                 *)
(***************************************************************************)
Costs(bs) == [i \in 1..Len(bs) |-> bs[i].size + Header]
Taken(bs) == [i \in 1..Len(bs) |-> IF bs[i].free THEN 0 ELSE bs[i].size + Header]
Spare(bs) == [i \in 1..Len(bs) |-> IF bs[i].free THEN bs[i].size ELSE 0]
Ones(bs)  == [i \in 1..Len(bs) |-> IF bs[i].free THEN 1 ELSE 0]
Owed(bs, l) ==
  [i \in 1..Len(bs) |-> IF bs[i].free THEN 0 ELSE Aligned(l[bs[i].at + Header]) + Header]

LEMMA NextEnd ==
  ASSUME NEW x \in Int, NEW a \in Int, NEW b \in Int, NEW c \in Int, NEW d \in Int, NEW e \in Int,
         x = a + b + c - d
  PROVE  x + (e + b) = (a + b + c) + b + e - d
OBVIOUS

\* The total is the heap: up to each block it is the distance to its end.
LEMMA TotalIsHeap ==
  ASSUME NEW bs \in Seq(Block), Tiling(bs)
  PROVE  total_size(bs) = HeapSize
<1> DEFINE n == Len(bs)
<1>1. PICK g \in [0..n -> Int] :
        /\ g[0] = 0 /\ \A i \in 1..n : g[i] = g[i - 1] + Costs(bs)[i]
        /\ total_size(bs) = g[n]
  <2>1. \A i \in 1..n : bs[i] \in Block
    OBVIOUS
  <2>2. Costs(bs) \in [1..n -> Int] /\ n \in Nat
    BY <2>1 DEF Costs, Block, Header
  <2>3. total_size(bs) = SumTo(n, Costs(bs))
    BY DEF total_size, Costs
  <2> QED BY <2>2, <2>3, SumIs
<1>2. \A i \in 1..n : /\ bs[i].at \in Nat /\ bs[i].size \in Nat
                      /\ Costs(bs)[i] = bs[i].size + Header
  <2>1. \A i \in 1..n : bs[i] \in Block
    OBVIOUS
  <2> QED BY <2>1 DEF Block, Costs
<1>3. n \in Nat /\ n >= 1
  BY DEF Tiling
<1> DEFINE S == {i \in 0..n : i = 0 \/ g[i] = bs[i].at + Header + bs[i].size - HeapStart}
<1>4. \A i \in 1..n : i - 1 \in S => i \in S
  <2> SUFFICES ASSUME NEW i \in 1..n, i - 1 \in S PROVE i \in S
    OBVIOUS
  <2>1. i \in 0..n /\ g[i] = g[i - 1] + (bs[i].size + Header) /\ g[i - 1] \in Int
    BY <1>1, <1>2, <1>3
  <2>2. CASE i = 1
    <3>1. bs[1].at = HeapStart /\ bs[1].size \in Nat /\ HeapStart \in Nat
      BY <1>2, <1>3, HeapConstants DEF Tiling
    <3>2. g[0] = 0 /\ g[1] = g[0] + (bs[1].size + Header)
      BY <1>1, <2>1, <2>2
    <3>3. g[1] = HeapStart + Header + bs[1].size - HeapStart
      <4> DEFINE e == bs[1].size
      <4>1. e \in Nat /\ g[1] = e + Header
        BY <3>1, <3>2 DEF Header
      <4> HIDE DEF e
      <4>2. e + Header = HeapStart + Header + e - HeapStart
        BY <3>1, <4>1 DEF Header
      <4> QED BY <4>1, <4>2 DEF e
    <3> QED BY <3>1, <3>3, <2>1, <2>2
  <2>3. CASE i # 1
    <3>1. i - 1 \in 1..(n - 1) /\ i - 1 \in 1..n /\ i - 1 + 1 = i
      BY <2>3, <1>3
    <3>2. bs[i - 1 + 1].at = bs[i - 1].at + Header + bs[i - 1].size
      BY <3>1 DEF Tiling
    <3>3. g[i - 1] = bs[i - 1].at + Header + bs[i - 1].size - HeapStart
      BY <2>3, <3>1
    <3>4. g[i] = bs[i].at + Header + bs[i].size - HeapStart
      <4>1. bs[i].at = bs[i - 1].at + Header + bs[i - 1].size
        BY <3>1, <3>2
      <4>2. g[i] = g[i - 1] + (bs[i].size + Header)
        BY <2>1
      <4>3. bs[i].size \in Nat /\ bs[i - 1].size \in Nat /\ bs[i - 1].at \in Nat
        BY <3>1, <1>2
      <4>4. HeapStart \in Int /\ Header \in Int
        BY HeapConstants DEF Header
      <4> HIDE DEF S
      <4>5. /\ g[i - 1] \in Int /\ bs[i].size \in Int /\ bs[i - 1].size \in Int /\ bs[i - 1].at \in Int
            /\ Header \in Int /\ HeapStart \in Int
        BY <4>3, <4>4, <2>1
      <4>6. g[i - 1] + (bs[i].size + Header) =
              (bs[i - 1].at + Header + bs[i - 1].size) + Header + bs[i].size - HeapStart
        <5> DEFINE x == g[i - 1]
                   a == bs[i - 1].at
                   c == bs[i - 1].size
                   e == bs[i].size
        <5>1. x \in Int /\ a \in Int /\ c \in Int /\ e \in Int /\ Header \in Int /\ HeapStart \in Int
          BY <4>5
        <5>2. x = a + Header + c - HeapStart
          BY <3>3
        <5> HIDE DEF x, a, c, e
        <5>3. x + (e + Header) = (a + Header + c) + Header + e - HeapStart
          BY <5>1, <5>2, NextEnd
        <5> QED BY <5>3 DEF x, a, c, e
      <4>7. g[i] = (bs[i - 1].at + Header + bs[i - 1].size) + Header + bs[i].size - HeapStart
        BY <4>2, <4>6, Zenon
      <4> QED BY <4>1, <4>7
    <3> QED BY <3>4, <2>1
  <2> QED BY <2>2, <2>3
<1>5. n \in S
  <2>1. 0 \in S
    BY <1>3
  <2> HIDE DEF S
  <2>2. \A i \in 0..n : i \in S
    BY <2>1, <1>3, <1>4, UpTo
  <2> QED BY <2>2, <1>3
<1>6. g[n] = bs[n].at + Header + bs[n].size - HeapStart
  BY <1>3, <1>5
<1>7. bs[n].at + Header + bs[n].size = HeapEnd
  BY DEF Tiling
<1>8. HeapEnd - HeapStart = HeapSize
  BY HeapConstants DEF HeapEnd
<1>9. g[n] = HeapEnd - HeapStart
  BY <1>6, <1>7
<1> QED BY <1>1, <1>8, <1>9

LEMMA PartsAddUp ==
  ASSUME NEW bs \in Seq(Block)
  PROVE  total_size(bs) = used_size(bs) + free_size(bs) + Header * free_blocks(bs)
<1> DEFINE n == Len(bs)
<1>1. n \in Nat /\ \A i \in 1..n : bs[i].size \in Nat /\ bs[i].free \in BOOLEAN
  <2>1. \A i \in 1..n : bs[i] \in Block
    OBVIOUS
  <2> QED BY <2>1 DEF Block
<1>2. /\ Costs(bs) \in [1..n -> Int] /\ Taken(bs) \in [1..n -> Int]
      /\ Spare(bs) \in [1..n -> Int] /\ Ones(bs) \in [1..n -> Int]
  BY <1>1 DEF Costs, Taken, Spare, Ones, Header
<1>3. \A i \in 1..n : Costs(bs)[i] = Taken(bs)[i] + Spare(bs)[i] + Header * Ones(bs)[i]
  BY <1>1 DEF Costs, Taken, Spare, Ones, Header
<1>4. SumTo(n, Costs(bs)) =
        SumTo(n, Taken(bs)) + SumTo(n, Spare(bs)) + Header * SumTo(n, Ones(bs))
  <2> HIDE DEF n
  <2> QED BY <1>1, <1>2, <1>3, SumByParts
<1> QED BY <1>4, Zenon DEF total_size, used_size, free_size, free_blocks, Costs, Taken, Spare, Ones

\* A taken block is what its owner asked for, rounded up, and little more.
Snug(bs, l) ==
  \A i \in 1..Len(bs) : ~bs[i].free =>
    /\ Aligned(l[bs[i].at + Header]) <= bs[i].size
    /\ bs[i].size <= Aligned(l[bs[i].at + Header]) + Header + 4

LEMMA InitSnug == Init => Snug(blocks, live)
<1> SUFFICES ASSUME Init PROVE Snug(blocks, live)
  OBVIOUS
<1>1. Len(blocks) = 1 /\ blocks[1].free
  BY DEF Init
<1> QED BY <1>1 DEF Snug

LEMMA KmallocSnug ==
  ASSUME HeapInv, Snug(blocks, live), NEW n \in Requests, kmalloc(n)
  PROVE  Snug(blocks', live')
<1>1. blocks \in Seq(Block) /\ Tiling(blocks)
  BY DEF HeapInv, TypeOK
<1>2. PICK k \in 1..Len(blocks) :
        /\ blocks[k].free /\ blocks[k].size >= Aligned(n)
        /\ blocks' = Take(blocks, k, Aligned(n))
        /\ ret' = blocks[k].at + Header
        /\ live' = [p \in DOMAIN live \cup {ret'} |-> IF p = ret' THEN n ELSE live[p]]
  BY DEF kmalloc, Fits
<1>3. Aligned(n) \in Nat
  BY AlignedBounds
<1>4. PICK a \in Nat : a = Aligned(n)
  BY <1>3
<1>5. PICK new : new = blocks'
  OBVIOUS
<1>6. /\ new \in Seq(Block) /\ Tiling(new) /\ k \in 1..Len(new)
      /\ new[k].at = blocks[k].at /\ new[k].size >= a
      /\ \A j \in 1..Len(new) : j # k /\ ~new[j].free => \E i \in 1..Len(blocks) : new[j] = blocks[i]
  BY <1>1, <1>2, <1>4, <1>5, TakeBlocks, SMTT(60)
<1>7. new[k].size <= a + Header + 4
  <2>1. CASE blocks[k].size > a + Header + 4
    <3>1. new = Split(blocks, k, a)
      BY <1>2, <1>4, <1>5, <2>1 DEF Take
    <3>2. new[k] = [at |-> blocks[k].at, size |-> a, free |-> FALSE]
      <4>1. k \in 1..(Len(blocks) + 1)
        BY <1>1
      <4> QED BY <3>1, <4>1 DEF Split
    <3> QED BY <3>2, <1>4 DEF Header
  <2>2. CASE ~(blocks[k].size > a + Header + 4)
    <3>1. new = Mark(blocks, k, FALSE)
      BY <1>2, <1>4, <1>5, <2>2 DEF Take, Mark
    <3>2. blocks[k] \in Block
      BY <1>1
    <3>3. \A i \in 1..Len(blocks) : Mark(blocks, k, FALSE)[i].size = blocks[i].size
      <4>1. \A i \in 1..Len(blocks) : blocks[i] \in Block
        BY <1>1
      <4> QED BY <4>1 DEF Mark, Block
    <3>4. new[k].size = blocks[k].size /\ blocks[k].size \in Nat
      BY <3>1, <3>2, <3>3 DEF Block
    <3> QED BY <2>2, <3>4, <1>4 DEF Header
  <2> QED BY <2>1, <2>2
<1>8. live'[new[k].at + Header] = n
  BY <1>2, <1>6
<1>9. ASSUME NEW j \in 1..Len(new), ~new[j].free, j # k
      PROVE  /\ Aligned(live'[new[j].at + Header]) <= new[j].size
             /\ new[j].size <= Aligned(live'[new[j].at + Header]) + Header + 4
  <2>1. PICK i \in 1..Len(blocks) : new[j] = blocks[i]
    BY <1>6, <1>9
  <2>2. new[j].at # new[k].at
    BY <1>6, <1>9, AtUnique
  <2>3. new[j].at + Header # ret'
    <3>1. new[j] \in Block /\ new[k] \in Block
      BY <1>6
    <3>2. new[j].at \in Nat /\ new[k].at \in Nat
      BY <3>1 DEF Block
    <3>3. ret' = new[k].at + Header
      BY <1>2, <1>6
    <3> QED BY <2>2, <3>2, <3>3 DEF Header
  <2>4. new[j].at + Header \in DOMAIN live
    BY <1>9, <2>1 DEF HeapInv, Owned
  <2>5. live'[new[j].at + Header] = live[blocks[i].at + Header]
    BY <1>2, <2>1, <2>3, <2>4
  <2> QED BY <1>9, <2>1, <2>5 DEF Snug
<1>10. \A j \in 1..Len(new) : ~new[j].free =>
         /\ Aligned(live'[new[j].at + Header]) <= new[j].size
         /\ new[j].size <= Aligned(live'[new[j].at + Header]) + Header + 4
  BY <1>4, <1>6, <1>7, <1>8, <1>9
<1> QED BY <1>5, <1>10 DEF Snug

LEMMA KfreeSnug ==
  ASSUME HeapInv, Snug(blocks, live), NEW p \in DOMAIN live, kfree(p)
  PROVE  Snug(blocks', live')
<1>1. /\ blocks \in Seq(Block) /\ Tiling(blocks) /\ p \in Int
      /\ live' = [q \in DOMAIN live \ {p} |-> live[q]]
  BY HeapConstants DEF HeapInv, TypeOK, kfree
<1>2. PICK k \in 1..Len(blocks) : /\ blocks[k].at = p - Header
                                   /\ blocks' = [blocks EXCEPT ![k].free = TRUE]
  BY DEF kfree
<1>3. /\ Len(blocks') = Len(blocks) /\ blocks'[k].free
      /\ \A i \in 1..Len(blocks) : i # k => blocks'[i] = blocks[i]
  <2>1. blocks[k] \in Block
    BY <1>1
  <2> QED BY <1>1, <1>2, <2>1 DEF Block
<1>4. ASSUME NEW i \in 1..Len(blocks), i # k, ~blocks[i].free
      PROVE  live'[blocks[i].at + Header] = live[blocks[i].at + Header]
  <2>1. blocks[i].at # blocks[k].at
    BY <1>1, <1>4, AtUnique
  <2>2. blocks[i].at + Header # p
    <3>1. blocks[i] \in Block
      BY <1>1
    <3> QED BY <1>1, <1>2, <2>1, <3>1 DEF Block, Header
  <2>3. blocks[i].at + Header \in DOMAIN live
    BY <1>4 DEF HeapInv, Owned
  <2> QED BY <1>1, <2>2, <2>3
<1> QED BY <1>3, <1>4 DEF Snug

LEMMA MergeSnug ==
  ASSUME HeapInv, Snug(blocks, live), Merge
  PROVE  Snug(blocks', live')
<1>1. /\ blocks \in Seq(Block) /\ Tiling(blocks) /\ curr \in 1..(Len(blocks) - 1)
      /\ blocks[curr].free /\ blocks[curr + 1].free
      /\ blocks' = Join(blocks, curr) /\ live' = live
  BY DEF HeapInv, TypeOK, Merge, MergesAt
<1>2. /\ Len(blocks') = Len(blocks) - 1
      /\ \A i \in 1..(curr - 1) : blocks'[i] = blocks[i]
      /\ blocks'[curr].free = blocks[curr].free
      /\ \A i \in (curr + 1)..(Len(blocks) - 1) : blocks'[i] = blocks[i + 1]
  <2>1. Len(Join(blocks, curr)) = Len(blocks) - 1
    BY <1>1, JoinTiles
  <2>2. \A i \in 1..(curr - 1) : Join(blocks, curr)[i] = blocks[i]
    BY <1>1, JoinTiles
  <2>3. Join(blocks, curr)[curr] = [at |-> blocks[curr].at,
                          size |-> blocks[curr].size + blocks[curr + 1].size + Header,
                          free |-> blocks[curr].free]
    BY <1>1, JoinTiles
  <2>4. \A i \in (curr + 1)..(Len(blocks) - 1) : Join(blocks, curr)[i] = blocks[i + 1]
    BY <1>1, JoinTiles
  <2> QED BY <1>1, <2>1, <2>2, <2>3, <2>4
<1>3. Len(blocks) \in Nat /\ curr \in Nat
  BY <1>1
<1>4. \A j \in 1..Len(blocks') : ~blocks'[j].free => \E i \in 1..Len(blocks) : blocks'[j] = blocks[i]
  <2> SUFFICES ASSUME NEW j \in 1..Len(blocks'), ~blocks'[j].free
               PROVE  \E i \in 1..Len(blocks) : blocks'[j] = blocks[i]
    OBVIOUS
  <2>1. CASE j < curr
    <3>1. j \in 1..(curr - 1) /\ j \in 1..Len(blocks)
      BY <1>1, <1>2, <1>3, <2>1
    <3> QED BY <1>2, <3>1
  <2>2. CASE j > curr
    <3>1. j \in (curr + 1)..(Len(blocks) - 1) /\ j + 1 \in 1..Len(blocks)
      BY <1>2, <1>3, <2>2
    <3> QED BY <1>2, <3>1
  <2>3. j # curr
    BY <1>1, <1>2
  <2>4. j \in Nat
    BY <1>2, <1>3
  <2> QED BY <1>3, <2>1, <2>2, <2>3, <2>4
<1> QED BY <1>1, <1>4 DEF Snug

LEMMA AlwaysSnug == Spec => [](HeapInv /\ Snug(blocks, live))
<1>1. HeapInv /\ Snug(blocks, live) /\ [Next]_vars => Snug(blocks, live)'
  <2> SUFFICES ASSUME HeapInv, Snug(blocks, live), [Next]_vars
               PROVE  Snug(blocks', live')
    OBVIOUS
  <2>1. ASSUME NEW n \in Requests, kmalloc(n) PROVE Snug(blocks', live')
    BY <2>1, KmallocSnug
  <2>2. ASSUME NEW p \in DOMAIN live, kfree(p) PROVE Snug(blocks', live')
    BY <2>2, KfreeSnug
  <2>3. CASE Merge
    BY <2>3, MergeSnug
  <2>4. CASE Advance \/ UNCHANGED vars \/ \E n \in Requests : kmalloc_fails(n)
    BY <2>4 DEF Advance, vars, kmalloc_fails
  <2> QED BY <2>1, <2>2, <2>3, <2>4 DEF Next, Loop
<1> QED BY <1>1, HeapInvariant, InitSnug, PTL DEF Spec

LEMMA UsedIsAskedFor ==
  ASSUME HeapInv, Snug(blocks, live)
  PROVE  /\ AskedFor(blocks, live) <= used_size(blocks)
         /\ used_size(blocks) <= AskedFor(blocks, live)
                                 + (Header + 4) * (Len(blocks) - free_blocks(blocks))
<1> DEFINE n == Len(blocks)
           o == Owed(blocks, live)
           u == Taken(blocks)
           b == Ones(blocks)
<1>1. /\ n \in Nat
      /\ \A i \in 1..n : blocks[i].size \in Nat /\ blocks[i].free \in BOOLEAN
  <2>1. blocks \in Seq(Block)
    BY DEF HeapInv, TypeOK
  <2>2. \A i \in 1..n : blocks[i] \in Block
    BY <2>1
  <2> QED BY <2>1, <2>2 DEF Block
<1>2. \A i \in 1..n : ~blocks[i].free => Aligned(live[blocks[i].at + Header]) \in Nat
  <2> SUFFICES ASSUME NEW i \in 1..n, ~blocks[i].free
               PROVE  Aligned(live[blocks[i].at + Header]) \in Nat
    OBVIOUS
  <2>1. live[blocks[i].at + Header] \in Requests
    BY DEF HeapInv, Owned, TypeOK
  <2> QED BY <2>1, AlignedBounds
<1>3. o \in [1..n -> Int] /\ u \in [1..n -> Int] /\ b \in [1..n -> Int]
  BY <1>1, <1>2 DEF Owed, Taken, Ones, Header
<1>4. \A i \in 1..n : o[i] <= u[i] /\ u[i] <= o[i] + (Header + 4) * (1 - b[i])
  <2> TAKE i \in 1..n
  <2>1. CASE blocks[i].free
    BY <2>1 DEF Owed, Taken, Ones, Header
  <2>2. CASE ~blocks[i].free
    BY <1>1, <1>2, <2>2 DEF Owed, Taken, Ones, Snug, Header
  <2> QED BY <2>1, <2>2
<1>5. /\ SumTo(n, o) <= SumTo(n, u)
      /\ SumTo(n, u) <= SumTo(n, o) + (Header + 4) * (n - SumTo(n, b))
  <2> HIDE DEF n, o, u, b
  <2> QED BY <1>1, <1>3, <1>4, SumBetween
<1>6. SumTo(n, o) = AskedFor(blocks, live) /\ SumTo(n, u) = used_size(blocks)
      /\ SumTo(n, b) = free_blocks(blocks)
  BY Zenon DEF AskedFor, used_size, free_blocks, Owed, Taken, Ones
<1> QED BY <1>5, <1>6, Zenon

\* What SYS_MEM_INFO reports accounts for the heap, and for what its owners
\* asked for. (malloc.c:31, 68-88)
THEOREM ReportsAddUp == Spec => []InfoAddsUp
<1>1. HeapInv /\ Snug(blocks, live) => InfoAddsUp
  <2> SUFFICES ASSUME HeapInv, Snug(blocks, live) PROVE InfoAddsUp
    OBVIOUS
  <2>1. blocks \in Seq(Block) /\ Tiling(blocks)
    BY DEF HeapInv, TypeOK
  <2>2. total_size(blocks) = HeapSize
    BY <2>1, TotalIsHeap
  <2>3. used_size(blocks) + free_size(blocks) + Header * free_blocks(blocks) = HeapSize
    BY <2>1, <2>2, PartsAddUp
  <2> QED BY <2>2, <2>3, UsedIsAskedFor DEF InfoAddsUp, total_blocks
<1> QED BY <1>1, AlwaysSnug, PTL

-----------------------------------------------------------------------------
(***************************************************************************)
(* The loop of kfree.  That it ends under fairness (FreeEnds) is for TLC;  *)
(* what it needs is proved here: every step of it uses something up.       *)
(***************************************************************************)

\* An upper bound of the steps that are left.
LoopLeft == IF curr = 0 THEN 0 ELSE 2 * Len(blocks) - curr

\* While kfree runs its loop nothing else touches the heap, and each step brings
\* its end closer, whether it merges two blocks or moves on. (malloc.c:58-65)
THEOREM FreeCountsDown ==
  Spec => [][curr # 0 => /\ Loop
                         /\ LoopLeft \in Nat /\ LoopLeft' \in Nat
                         /\ LoopLeft' < LoopLeft]_vars
<1> DEFINE Down == curr # 0 => /\ Loop
                               /\ LoopLeft \in Nat /\ LoopLeft' \in Nat
                               /\ LoopLeft' < LoopLeft
<1>1. ASSUME HeapInv, Next, curr # 0 PROVE Down
  <2>1. Loop
    BY <1>1 DEF Next, kmalloc, kmalloc_fails, kfree
  <2>2. /\ blocks \in Seq(Block) /\ curr \in 1..Len(blocks) /\ Len(blocks) \in Nat
        /\ LoopLeft = 2 * Len(blocks) - curr
    BY <1>1 DEF HeapInv, TypeOK, LoopLeft
  <2>3. CASE Merge
    <3>1. /\ curr \in 1..(Len(blocks) - 1) /\ curr' = curr
          /\ Tiling(blocks) /\ blocks' = Join(blocks, curr)
      BY <1>1, <2>2, <2>3 DEF HeapInv, Merge, MergesAt
    <3>2. Len(blocks') = Len(blocks) - 1
      BY <2>2, <3>1, JoinTiles
    <3> QED
      BY <2>1, <2>2, <3>1, <3>2 DEF LoopLeft
  <2>4. CASE Advance
    <3>1. blocks' = blocks /\ curr' = IF curr < Len(blocks) THEN curr + 1 ELSE 0
      BY <2>4 DEF Advance
    <3> QED
      BY <2>1, <2>2, <3>1 DEF LoopLeft
  <2> QED
    BY <2>1, <2>3, <2>4 DEF Loop
<1>2. HeapInv /\ [Next]_vars => [Down]_vars
  BY <1>1
<1> HIDE DEF Down
<1>3. Spec => [][Down]_vars
  BY <1>2, HeapInvariant, PTL DEF Spec
<1> QED
  BY <1>3 DEF Down
=============================================================================
