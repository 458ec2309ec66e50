-------------------------- MODULE LongNamesProofs --------------------------
(***************************************************************************)
(* Proofs about LongNames: every entry keeps its name and answers to it    *)
(* alone, for any names and any length of the directory.                   *)
(***************************************************************************)
EXTENDS LongNames, TLAPS

USE NamesOK

\* The run of every entry lies above it.
Runs ==
  \A s \in Slots : IsEntry(slot[s]) =>
    \A t \in 1..Chunks[slot[s].name] :
      s - t \in Slots /\ slot[s - t] = Long(slot[s].name, Chunks[slot[s].name] - t + 1)

Aliases == \A s \in Slots : IsEntry(slot[s]) => slot[s].alias = Alias[slot[s].name]

\* What looks like the last part of a run is one: whatever deleting leaves of
\* a run, the part next to its entry is gone.
Attached ==
  \A s \in Slots : slot[s].kind = "long" /\ slot[s].seq = 1 =>
    s + 1 \in Slots /\ IsEntry(slot[s + 1]) /\ Chunks[slot[s + 1].name] > 0

\* The slots that were never written are the last ones.
NeverLast ==
  \A s \in Slots, t \in Slots : s < t /\ slot[s].kind = "never" => slot[t].kind = "never"

IInv == TypeOK /\ Runs /\ Aliases /\ Attached /\ NeverLast

-----------------------------------------------------------------------------
(***************************************************************************)
(* What kind of slot a slot is.                                            *)
(***************************************************************************)
LEMMA Kinds ==
  ASSUME TypeOK, NEW s \in Slots
  PROVE  /\ slot[s].kind = "long" => slot[s] \in Longs
         /\ slot[s].kind = "short" => slot[s] \in Shorts /\ slot[s].free = FALSE
         /\ slot[s].kind = "never" => slot[s] = Never
         /\ slot[s].kind \notin {"long", "short", "never"} => slot[s] = Gone
<1>1. slot[s] \in {Never, Gone} \cup Longs \cup Shorts
  BY DEF TypeOK
<1>2. Never.kind = "never" /\ Gone.kind = "gone"
  BY DEF Never, Gone
<1>3. \A e \in Longs : e.kind = "long"
  BY DEF Longs
<1>4. \A e \in Shorts : e.kind = "short" /\ e.free = FALSE
  BY DEF Shorts
<1> QED BY <1>1, <1>2, <1>3, <1>4

LEMMA LongFields ==
  ASSUME NEW n \in Names, NEW p \in 1..Chunks[n]
  PROVE  /\ Long(n, p) \in Longs
         /\ Long(n, p).kind = "long" /\ Long(n, p).free = FALSE
         /\ Long(n, p).seq = Chunks[n] - p + 1 /\ (Long(n, p).last <=> p = 1)
         /\ Long(n, p).sum = Sum[Alias[n]] /\ Long(n, p).chunk = <<n, p>>
<1>1. Chunks[n] \in Nat /\ p \in Nat /\ Chunks[n] - p + 1 \in Nat \ {0}
  OBVIOUS
<1> QED BY <1>1 DEF Long, Longs

LEMMA ShortFields ==
  ASSUME NEW n \in Names
  PROVE  /\ Short(n) \in Shorts /\ Short(n).kind = "short" /\ Short(n).name = n
         /\ Short(n).alias = Alias[n] /\ IsEntry(Short(n))
BY DEF Short, Shorts, IsEntry

LEMMA EntryFields ==
  ASSUME TypeOK, NEW s \in Slots, IsEntry(slot[s])
  PROVE  slot[s].name \in Names /\ Chunks[slot[s].name] \in Nat /\ slot[s].free = FALSE
<1>1. slot[s] \in Shorts /\ slot[s].free = FALSE
  BY Kinds DEF IsEntry
<1>2. slot[s].name \in Names
  BY <1>1 DEF Shorts
<1> QED BY <1>1, <1>2

\* A slot of the run of e is a long one that is in use.
LEMMA RunSlot ==
  ASSUME TypeOK, Runs, NEW s \in Slots, IsEntry(slot[s]),
         NEW t \in 1..Chunks[slot[s].name]
  PROVE  /\ s - t \in Slots /\ slot[s - t].kind = "long" /\ slot[s - t].free = FALSE
         /\ slot[s - t].seq = t /\ (slot[s - t].last <=> t = Chunks[slot[s].name])
         /\ slot[s - t].sum = Sum[Alias[slot[s].name]]
         /\ slot[s - t].chunk = <<slot[s].name, Chunks[slot[s].name] - t + 1>>
<1> DEFINE n == slot[s].name
           p == Chunks[n] - t + 1
<1>0. n \in Names /\ Chunks[n] \in Nat /\ t \in 1..Chunks[n]
  BY EntryFields
<1>1. p \in 1..Chunks[n] /\ t \in Nat
  BY <1>0
<1>2. s - t \in Slots /\ slot[s - t] = Long(n, p)
  BY DEF Runs
<1>3. Chunks[n] - p + 1 = t /\ (p = 1 <=> t = Chunks[n])
  BY <1>0, <1>1
<1> HIDE DEF n, p
<1>4. /\ slot[s - t].kind = "long" /\ slot[s - t].free = FALSE
      /\ slot[s - t].seq = t /\ (slot[s - t].last <=> p = 1)
      /\ slot[s - t].sum = Sum[Alias[n]] /\ slot[s - t].chunk = <<n, p>>
  <2>1. /\ Long(n, p).kind = "long" /\ Long(n, p).free = FALSE
        /\ Long(n, p).seq = Chunks[n] - p + 1 /\ (Long(n, p).last <=> p = 1)
        /\ Long(n, p).sum = Sum[Alias[n]] /\ Long(n, p).chunk = <<n, p>>
    BY <1>0, <1>1, LongFields
  <2> QED BY <1>2, <1>3, <2>1
<1> QED BY <1>2, <1>3, <1>4 DEF n, p

-----------------------------------------------------------------------------
(***************************************************************************)
(* The invariant is inductive.                                             *)
(***************************************************************************)
LEMMA InitIInv == Init => IInv
<1> SUFFICES ASSUME Init PROVE IInv
  OBVIOUS
<1>1. \A s \in Slots : slot[s] = Never
  BY DEF Init
<1>2. Never.kind = "never"
  BY DEF Never
<1>3. TypeOK
  BY DEF Init, TypeOK
<1>4. \A s \in Slots : ~IsEntry(slot[s]) /\ slot[s].kind = "never"
  BY <1>1, <1>2 DEF IsEntry
<1> QED BY <1>3, <1>4 DEF IInv, Runs, Aliases, Attached, NeverLast

\* Slots in use are not written by dir_add_entry; the ones it writes hold the
\* new entry and its run.
LEMMA AddStep ==
  ASSUME IInv, NEW n \in Names, dir_add_entry(n)
  PROVE  IInv'
<1>1. PICK i \in Slots :
        /\ FitsFirst(i, n)
        /\ slot' = [s \in Slots |->
                      IF s = i + Chunks[n] THEN Short(n)
                      ELSE IF s \in i..(i + Chunks[n] - 1) THEN Long(n, s - i + 1)
                      ELSE slot[s]]
  BY DEF dir_add_entry
<1>2a. PICK c, e : c = Chunks[n] /\ e = i + c
  OBVIOUS
<1>2. c = Chunks[n] /\ e = i + c /\ c \in Nat /\ i \in Nat /\ e \in Nat /\ DirSlots \in Nat
  BY <1>2a DEF Slots
<1>3. \A t \in 0..c : i + t \in Slots /\ slot[i + t].free = TRUE
  <2>1. \A t \in 0..c : i + t \in Slots /\ slot[i + t].free
    BY <1>1, <1>2 DEF FitsFirst, Fits
  <2>2. ASSUME NEW s \in Slots, slot[s].free PROVE slot[s].free = TRUE
    <3>1. slot[s].kind = "long" => slot[s].free \in BOOLEAN
      BY Kinds DEF IInv, Longs
    <3>2. slot[s] \in {Never, Gone} => slot[s].free = TRUE
      BY DEF Never, Gone
    <3> QED BY <2>2, <3>1, <3>2, Kinds DEF IInv
  <2> QED BY <2>1, <2>2
<1>4. e \in Slots /\ \A s \in i..e : s \in Slots /\ slot[s].free = TRUE
  <2>1. \A s \in i..e : s - i \in 0..c /\ i + (s - i) = s
    BY <1>2
  <2> QED BY <1>2, <1>3, <2>1
<1>5. /\ \A s \in Slots \ (i..e) : slot'[s] = slot[s]
      /\ slot'[e] = Short(n)
      /\ \A s \in i..(e - 1) : s \in Slots /\ slot'[s] = Long(n, s - i + 1)
                               /\ s - i + 1 \in 1..c
  <2>1. \A s \in Slots \ (i..e) : s # e /\ s \notin i..(e - 1)
    BY <1>2, <1>4
  <2>2. \A s \in i..(e - 1) : s \in Slots /\ s # e /\ s - i + 1 \in 1..c
    BY <1>2, <1>4
  <2>3. \A s \in Slots : slot'[s] =
          IF s = e THEN Short(n) ELSE IF s \in i..(e - 1) THEN Long(n, s - i + 1) ELSE slot[s]
    <3>1. \A s \in Slots : slot'[s] =
            IF s = i + Chunks[n] THEN Short(n)
            ELSE IF s \in i..(i + Chunks[n] - 1) THEN Long(n, s - i + 1) ELSE slot[s]
      BY <1>1, Zenon
    <3> QED BY <1>2, <3>1
  <2>4. \A s \in Slots \ (i..e) : slot'[s] = slot[s]
    BY <2>1, <2>3
  <2>5. slot'[e] = Short(n)
    BY <1>4, <2>3
  <2>6. \A s \in i..(e - 1) : slot'[s] = Long(n, s - i + 1)
    BY <2>2, <2>3
  <2> QED BY <2>2, <2>4, <2>5, <2>6
<1>5a. ASSUME NEW s \in i..(e - 1)
      PROVE  /\ slot'[s] \in Longs /\ slot'[s].kind = "long"
             /\ slot'[s].seq = c - (s - i + 1) + 1
  <2> DEFINE p == s - i + 1
  <2>1. p \in 1..Chunks[n] /\ slot'[s] = Long(n, p)
    BY <1>5, <1>2
  <2> HIDE DEF p
  <2>2. Long(n, p) \in Longs /\ Long(n, p).kind = "long" /\ Long(n, p).seq = Chunks[n] - p + 1
    BY <2>1, LongFields
  <2> QED BY <2>1, <2>2, <1>2 DEF p
<1>6. TypeOK'
  <2>1. ASSUME NEW s \in Slots PROVE slot'[s] \in {Never, Gone} \cup Longs \cup Shorts
    <3>1. CASE s \notin i..e
      BY <1>5, <3>1 DEF IInv, TypeOK
    <3>2. CASE s = e
      BY <1>5, <3>2, ShortFields
    <3>3. CASE s \in i..(e - 1)
      BY <1>5a, <3>3
    <3> QED BY <1>2, <3>1, <3>2, <3>3 DEF Slots
  <2>2. slot' = [s \in Slots |-> slot'[s]]
    BY <1>1
  <2> QED BY <2>1, <2>2 DEF TypeOK
\* An entry is the new one or was one, and did not move.
<1>7. ASSUME NEW s \in Slots, IsEntry(slot'[s])
      PROVE  s = e \/ (s \notin i..e /\ slot'[s] = slot[s] /\ IsEntry(slot[s]))
  <2>1. CASE s \in i..(e - 1)
    BY <1>5a, <1>7, <2>1 DEF IsEntry
  <2> QED BY <1>2, <1>5, <1>7, <2>1 DEF Slots
<1>8. ASSUME NEW s \in Slots, IsEntry(slot[s]) PROVE s \notin i..e /\ slot'[s] = slot[s]
  BY <1>4, <1>5, <1>8, EntryFields DEF IInv
<1>9. Aliases'
  BY <1>5, <1>7, ShortFields DEF IInv, Aliases
<1>10. Runs'
  <2> SUFFICES ASSUME NEW s \in Slots, IsEntry(slot'[s]),
                      NEW t \in 1..Chunks[slot'[s].name]
               PROVE  /\ s - t \in Slots
                      /\ slot'[s - t] = Long(slot'[s].name, Chunks[slot'[s].name] - t + 1)
    BY DEF Runs
  <2>1. CASE s = e
    <3>1. slot'[s].name = n /\ t \in 1..c
      BY <1>5, <2>1, ShortFields, <1>2
    <3>2. s - t \in i..(e - 1) /\ (s - t) - i + 1 = c - t + 1
      BY <1>2, <2>1, <3>1
    <3> QED BY <1>5, <3>1, <3>2, <1>2
  <2>2. CASE s \notin i..e /\ slot'[s] = slot[s] /\ IsEntry(slot[s])
    <3>0. t \in 1..Chunks[slot[s].name]
      BY <2>2
    <3>1. s - t \in Slots /\ slot[s - t].free = FALSE
      <4>1. TypeOK /\ Runs
        BY DEF IInv
      <4>2. /\ s - t \in Slots
            /\ slot[s - t] = Long(slot[s].name, Chunks[slot[s].name] - t + 1)
        BY <2>2, <3>0, <4>1 DEF Runs
      <4> QED BY <4>2 DEF Long
    <3>2. slot'[s - t] = slot[s - t]
      BY <1>4, <1>5, <3>1
    <3> QED BY <2>2, <3>2 DEF IInv, Runs
  <2> QED BY <1>7, <2>1, <2>2
<1>11. Attached'
  <2> SUFFICES ASSUME NEW s \in Slots, slot'[s].kind = "long", slot'[s].seq = 1
               PROVE  /\ s + 1 \in Slots /\ IsEntry(slot'[s + 1])
                      /\ Chunks[slot'[s + 1].name] > 0
    BY DEF Attached
  <2>1. s # e
    BY <1>5, ShortFields
  <2>2. CASE s \in i..(e - 1)
    <3>1. c - (s - i + 1) + 1 = 1 /\ c > 0
      BY <1>2, <1>5, <1>5a, <2>2
    <3>2. s + 1 = e
      BY <1>2, <2>2, <3>1
    <3> QED BY <1>4, <1>5, <3>1, <3>2, ShortFields, <1>2
  <2>3. CASE s \notin i..e
    BY <1>5, <1>8, <2>3 DEF IInv, Attached
  <2> QED BY <1>2, <2>1, <2>2, <2>3 DEF Slots
<1>12. NeverLast'
  <2>1. \A s \in i..e : slot'[s].kind # "never"
    <3>1. \A s \in i..(e - 1) : slot'[s].kind # "never"
      BY <1>5a
    <3> QED BY <1>2, <1>5, <3>1, ShortFields
  \* A slot before i that was never written would have done as well.
  <2>2. ASSUME NEW s \in Slots, s < i PROVE slot[s].kind # "never"
    <3> SUFFICES ASSUME slot[s].kind = "never" PROVE FALSE
      OBVIOUS
    <3>1. ASSUME NEW t \in 0..c PROVE s + t \in Slots /\ slot[s + t].free
      <4>1. s + t \in Slots /\ (t = 0 \/ s < s + t)
        BY <1>2, <1>4, <2>2, <3>1 DEF Slots
      <4>2. slot[s + t].kind = "never"
        BY <4>1 DEF IInv, NeverLast, Slots
      <4>3. slot[s + t] = Never /\ Never.free = TRUE
        BY <4>1, <4>2, Kinds DEF IInv, Never
      <4> QED BY <4>1, <4>3
    <3>2. Fits(s, n)
      BY <3>1, <1>2 DEF Fits
    <3> QED BY <1>1, <1>2, <2>2, <3>2 DEF FitsFirst, Slots
  <2> SUFFICES ASSUME NEW s \in Slots, NEW t \in Slots, s < t, slot'[s].kind = "never"
               PROVE  slot'[t].kind = "never"
    BY DEF NeverLast
  <2>3. s \notin i..e /\ slot'[s] = slot[s]
    BY <1>5, <2>1
  <2>4. s > e /\ t \notin i..e
    BY <1>2, <2>2, <2>3 DEF Slots
  <2> QED BY <1>5, <2>3, <2>4 DEF IInv, NeverLast
<1> QED BY <1>6, <1>9, <1>10, <1>11, <1>12 DEF IInv

\* Deleting an entry changes its slot and at most the one above it, which is
\* part of its run or of no run.
LEMMA RemoveStep ==
  ASSUME IInv, NEW n \in Names, fat32_rm(n)
  PROVE  IInv'
<1>1. PICK d \in Slots :
        /\ FirstMatch(d, n)
        /\ slot' = [t \in Slots |-> IF t \in Swept(d) THEN Deleted(slot[t]) ELSE slot[t]]
  BY DEF fat32_rm
<1>2. IsEntry(slot[d]) /\ slot[d].kind = "short" /\ d \in Nat
  BY <1>1 DEF FirstMatch, Seen, IsEntry, Slots
<1>3. slot'[d] = Gone /\ Gone.kind = "gone"
  <2>1. d \in Swept(d) /\ Deleted(slot[d]) = Gone
    BY <1>2 DEF Swept, Deleted
  <2> QED BY <1>1, <2>1 DEF Gone
<1>4. ASSUME NEW t \in Slots, t # d, slot'[t] # slot[t]
      PROVE  /\ t = d - 1 /\ slot[t].kind = "long"
             /\ slot'[t] \in Longs /\ slot'[t].kind = "long" /\ slot'[t].seq = 5
  <2>1. t \in Swept(d) /\ slot'[t] = Deleted(slot[t])
    BY <1>1, <1>4
  <2>2. t = d - 1 /\ slot[t].kind = "long"
    BY <1>4, <2>1 DEF Swept
  <2>3. slot[t] \in Longs
    BY <2>2, Kinds DEF IInv
  <2>4. Deleted(slot[t]) \in Longs /\ Deleted(slot[t]).kind = "long" /\ Deleted(slot[t]).seq = 5
    <3>1. slot[t].sum \in {Sum[Alias[k]] : k \in Names} /\ slot[t].chunk \in Names \X Nat
      BY <2>3 DEF Longs
    <3> QED BY <2>2, <3>1 DEF Deleted, Longs
  <2> QED BY <2>1, <2>2, <2>4
<1>5. TypeOK'
  <2>1. ASSUME NEW t \in Slots PROVE slot'[t] \in {Never, Gone} \cup Longs \cup Shorts
    BY <1>3, <1>4 DEF IInv, TypeOK
  <2>2. slot' = [t \in Slots |-> slot'[t]]
    BY <1>1
  <2> QED BY <2>1, <2>2 DEF TypeOK
<1>6. ASSUME NEW t \in Slots, IsEntry(slot'[t])
      PROVE  t # d /\ slot'[t] = slot[t] /\ IsEntry(slot[t])
  BY <1>3, <1>4, <1>6 DEF IsEntry
<1>7. ASSUME NEW t \in Slots, IsEntry(slot[t]), t # d PROVE slot'[t] = slot[t]
  BY <1>4, <1>7 DEF IsEntry
<1>8. Aliases'
  BY <1>6 DEF IInv, Aliases
<1>9. Runs'
  <2> SUFFICES ASSUME NEW t \in Slots, IsEntry(slot'[t]),
                      NEW u \in 1..Chunks[slot'[t].name]
               PROVE  /\ t - u \in Slots
                      /\ slot'[t - u] = Long(slot'[t].name, Chunks[slot'[t].name] - u + 1)
    BY DEF Runs
  <2>1. t # d /\ slot'[t] = slot[t] /\ IsEntry(slot[t])
    BY <1>6
  <2>2. PICK m : m = slot[t].name
    OBVIOUS
  <2>3. m \in Names /\ Chunks[m] \in Nat /\ u \in 1..Chunks[m]
    BY <2>1, <2>2, EntryFields DEF IInv
  <2>4. \A v \in 1..Chunks[m] : t - v \in Slots /\ slot[t - v] = Long(m, Chunks[m] - v + 1)
    BY <2>1, <2>2 DEF IInv, Runs
  <2>5. ASSUME NEW v \in 1..Chunks[m] PROVE slot[t - v].kind = "long"
    <3>1. slot[t - v] = Long(m, Chunks[m] - v + 1)
      BY <2>4
    <3> QED BY <3>1 DEF Long
  <2>6. t - u # d /\ t - u # d - 1
    <3>1. \A v \in 1..Chunks[m] : t - v # d
      BY <1>2, <2>5
    <3>2. ASSUME t - u = d - 1 PROVE FALSE
      <4>1. u # 1
        BY <1>2, <2>1, <2>3, <3>2 DEF Slots
      <4>2. u - 1 \in 1..Chunks[m] /\ t - (u - 1) = d
        BY <1>2, <2>3, <3>2, <4>1 DEF Slots
      <4> QED BY <3>1, <4>2
    <3> QED BY <2>3, <3>1, <3>2
  <2>7. slot'[t - u] = slot[t - u]
    BY <1>4, <2>3, <2>4, <2>6
  <2> QED BY <2>1, <2>2, <2>3, <2>4, <2>7
<1>10. Attached'
  <2> SUFFICES ASSUME NEW t \in Slots, slot'[t].kind = "long", slot'[t].seq = 1
               PROVE  /\ t + 1 \in Slots /\ IsEntry(slot'[t + 1])
                      /\ Chunks[slot'[t + 1].name] > 0
    BY DEF Attached
  <2>1. t # d /\ slot'[t] = slot[t]
    BY <1>3, <1>4
  <2>2. t + 1 \in Slots /\ IsEntry(slot[t + 1]) /\ Chunks[slot[t + 1].name] > 0
    BY <2>1 DEF IInv, Attached
  <2>3. t + 1 # d
    <3> SUFFICES ASSUME t + 1 = d PROVE FALSE
      OBVIOUS
    <3>1. PICK m : m = slot[d].name
      OBVIOUS
    <3>2. m \in Names /\ Chunks[m] \in Nat /\ 1 \in 1..Chunks[m] /\ t = d - 1
      <4>1. m \in Names /\ Chunks[m] \in Nat
        BY <1>2, <3>1, EntryFields DEF IInv
      <4>2. Chunks[m] > 0 /\ t = d - 1
        BY <1>2, <2>2, <3>1 DEF Slots
      <4> QED BY <4>1, <4>2
    <3>3. slot[t] = Long(m, Chunks[m] - 1 + 1)
      BY <1>2, <3>1, <3>2 DEF IInv, Runs
    <3>4. slot[t].kind = "long" /\ slot[t].sum = Sum[slot[d].alias]
      BY <1>2, <3>1, <3>3 DEF Long, IInv, Aliases
    <3>5. t \in Swept(d)
      BY <3>2, <3>4 DEF Swept
    <3>6. slot'[t].seq = 5
      BY <1>1, <3>4, <3>5 DEF Deleted
    <3> QED BY <3>6
  <2>4. slot'[t + 1] = slot[t + 1]
    BY <1>7, <2>2, <2>3
  <2> QED BY <2>2, <2>4
<1>11. NeverLast'
  <2>1. ASSUME NEW t \in Slots PROVE slot'[t].kind = "never" <=> slot[t].kind = "never"
    <3>1. CASE t = d
      BY <1>2, <1>3, <3>1
    <3>2. CASE t # d /\ slot'[t] # slot[t]
      BY <1>4, <3>2
    <3> QED BY <3>1, <3>2
  <2> QED BY <2>1 DEF IInv, NeverLast
<1> QED BY <1>5, <1>8, <1>9, <1>10, <1>11 DEF IInv

LEMMA StepIInv == IInv /\ [Next]_slot => IInv'
<1> SUFFICES ASSUME IInv, [Next]_slot PROVE IInv'
  OBVIOUS
<1>1. CASE UNCHANGED slot
  BY <1>1 DEF IInv, TypeOK, Runs, Aliases, Attached, NeverLast
<1>2. ASSUME NEW n \in Names, dir_add_entry(n) PROVE IInv'
  BY <1>2, AddStep
<1>3. ASSUME NEW n \in Names, fat32_rm(n) PROVE IInv'
  BY <1>3, RemoveStep
<1> QED BY <1>1, <1>2, <1>3 DEF Next, Create, CopyTo

-----------------------------------------------------------------------------
(***************************************************************************)
(* Reading a name finds the run of its entry and nothing else.             *)
(***************************************************************************)
LEMMA RunFound ==
  ASSUME IInv, NEW s \in Slots, IsEntry(slot[s])
  PROVE  LET m == slot[s].name IN
         /\ m \in Names /\ Chunks[m] \in 0..(s - 1) /\ HasRun(s, Chunks[m])
         /\ \A len \in 0..(s - 1) : HasRun(s, len) => len = Chunks[m]
         /\ \A p \in 1..Chunks[m] : slot[s - (Chunks[m] - p + 1)].chunk = <<m, p>>
<1>1. PICK m, c : m = slot[s].name /\ c = Chunks[m]
  OBVIOUS
<1>2. m \in Names /\ c \in Nat /\ s \in Nat /\ slot[s].alias = Alias[m] /\ Chunks[m] = c
  <2>1. m \in Names /\ Chunks[m] \in Nat
    BY <1>1, EntryFields DEF IInv
  <2> QED BY <1>1, <2>1 DEF IInv, Slots, Aliases
<1>3. ASSUME NEW t \in 1..c
      PROVE  s - t \in Slots /\ slot[s - t] = Long(m, c - t + 1)
  BY <1>1, <1>2 DEF IInv, Runs
<1>4. ASSUME NEW t \in 1..c
      PROVE  /\ Continues(s, t) /\ (slot[s - t].last <=> t = c)
             /\ slot[s - t].chunk = <<m, c - t + 1>>
  <2>1. /\ slot[s - t].kind = "long" /\ slot[s - t].seq = c - (c - t + 1) + 1
        /\ (slot[s - t].last <=> c - t + 1 = 1) /\ slot[s - t].sum = Sum[Alias[m]]
        /\ slot[s - t].chunk = <<m, c - t + 1>>
    <3>1. PICK q : q = c - t + 1
      OBVIOUS
    <3>2. slot[s - t] = Long(m, q)
      BY <1>3, <3>1
    <3>3. /\ Long(m, q).kind = "long" /\ Long(m, q).seq = c - q + 1
          /\ (Long(m, q).last <=> q = 1) /\ Long(m, q).sum = Sum[Alias[m]]
          /\ Long(m, q).chunk = <<m, q>>
      <4>1. q \in 1..Chunks[m]
        BY <1>2, <3>1
      <4> QED BY <1>2, <4>1, LongFields
    <3> QED BY <3>1, <3>2, <3>3
  <2>2. c - (c - t + 1) + 1 = t /\ (c - t + 1 = 1 <=> t = c)
    BY <1>2
  <2> QED BY <1>2, <1>3, <2>1, <2>2 DEF Continues
<1>5. c \in 0..(s - 1)
  <2>1. CASE c = 0
    BY <1>2, <2>1 DEF Slots
  <2>2. CASE c > 0
    <3>1. s - c \in Slots
      BY <1>2, <1>3, <2>2
    <3> QED BY <1>2, <3>1 DEF Slots
  <2> QED BY <1>2, <2>1, <2>2
<1>6. c = 0 => ~Continues(s, 1)
  <2> SUFFICES ASSUME c = 0, Continues(s, 1) PROVE FALSE
    OBVIOUS
  <2>1. s - 1 \in Slots /\ slot[s - 1].kind = "long" /\ slot[s - 1].seq = 1
    BY DEF Continues
  <2>2. Chunks[slot[(s - 1) + 1].name] > 0
    BY <2>1 DEF IInv, Attached
  <2>3. (s - 1) + 1 = s
    BY <1>2
  <2> QED BY <1>1, <2>2, <2>3
<1>7. HasRun(s, c)
  <2>1. \A t \in 1..c : Continues(s, t)
    BY <1>4
  <2>2. \A t \in 1..(c - 1) : ~slot[s - t].last
    BY <1>2, <1>4
  <2>3. ~Continues(s, c + 1) \/ (c > 0 /\ slot[s - c].last)
    <3>1. CASE c = 0
      BY <1>6, <3>1
    <3>2. CASE c > 0
      BY <1>2, <1>4, <3>2
    <3> QED BY <1>2, <3>1, <3>2
  <2> QED BY <2>1, <2>2, <2>3 DEF HasRun
<1>8. ASSUME NEW len \in 0..(s - 1), HasRun(s, len) PROVE len = c
  <2>1. CASE len < c
    <3>1. Continues(s, len + 1) /\ (len > 0 => ~slot[s - len].last)
      <4>1. len + 1 \in 1..c /\ (len > 0 => len \in 1..c /\ len # c)
        BY <1>2, <2>1
      <4> QED BY <1>4, <4>1
    <3> QED BY <1>8, <3>1 DEF HasRun
  <2>2. CASE len > c
    <3>1. c + 1 \in 1..len /\ (c > 0 => c \in 1..(len - 1))
      BY <1>2, <2>2
    <3>2. Continues(s, c + 1) /\ (c > 0 => ~slot[s - c].last)
      BY <1>8, <3>1 DEF HasRun
    <3>3. c = 0
      BY <1>2, <1>4, <3>2
    <3> QED BY <1>6, <3>2, <3>3
  <2> QED BY <1>2, <2>1, <2>2
<1>9. ASSUME NEW p \in 1..c PROVE slot[s - (c - p + 1)].chunk = <<m, p>>
  <2>1. c - p + 1 \in 1..c /\ c - (c - p + 1) + 1 = p
    BY <1>2
  <2> QED BY <1>4, <2>1
<1> QED BY <1>1, <1>2, <1>5, <1>7, <1>8, <1>9

LEMMA Invariant == Spec => []IInv
BY InitIInv, StepIInv, PTL DEF Spec

\* The slots of a directory keep their types, and what is deleted of a run
\* looks like no part of one (fat32_path.c:256-281, fat32_file.c:180-186).
THEOREM NamesTypeCorrect == Spec => []TypeOK
<1>1. IInv => TypeOK
  BY DEF IInv
<1> QED BY <1>1, Invariant, PTL

\* Every entry is listed under the name it was created with
\* (fat32_path.c:84-128, 217-285).
THEOREM NamesKept == Spec => []NamesAreKept
<1>1. IInv => NamesAreKept
  <2> SUFFICES ASSUME IInv, NEW s \in Slots, IsEntry(slot[s])
               PROVE  Lists(s, slot[s].name)
    BY DEF NamesAreKept
  <2>1. PICK m, c : m = slot[s].name /\ c = Chunks[m]
    OBVIOUS
  <2>2. /\ m \in Names /\ c \in 0..(s - 1) /\ HasRun(s, c)
        /\ \A p \in 1..c : slot[s - (c - p + 1)].chunk = <<m, p>>
    BY <2>1, RunFound
  <2>3. CASE c > 0
    <3>1. RunAt(s, c) = RunOf(m)
      BY <2>1, <2>2 DEF RunAt, RunOf
    <3> QED BY <2>1, <2>2, <2>3, <3>1 DEF Lists
  <2>4. CASE c = 0
    <3>1. slot[s].alias = Alias[m]
      BY <2>1 DEF IInv, Aliases
    <3> QED BY <2>1, <2>2, <2>4, <3>1 DEF Lists
  <2> QED BY <2>2, <2>3, <2>4
<1> QED BY <1>1, Invariant, PTL

\* Every entry answers to its name in any case and to no other name, but for
\* those with its alias if it has no run (fat32_path.c:130-166, 198-205).
THEOREM AnswersRight == Spec => []AnswersToItsName
<1>1. IInv => AnswersToItsName
  <2> SUFFICES ASSUME IInv, NEW s \in Slots, IsEntry(slot[s]), NEW n \in Names
               PROVE  Seen(s) /\ Matches(s, n) <=>
                        \/ Fold[slot[s].name] = Fold[n]
                        \/ Chunks[slot[s].name] = 0 /\ Alias[slot[s].name] = Alias[n]
    BY DEF AnswersToItsName
  <2>1. PICK m, c : m = slot[s].name /\ c = Chunks[m]
    OBVIOUS
  <2>2. /\ m \in Names /\ c \in 0..(s - 1) /\ c \in Nat /\ HasRun(s, c)
        /\ \A len \in 0..(s - 1) : HasRun(s, len) => len = c
        /\ \A p \in 1..c : slot[s - (c - p + 1)].chunk = <<m, p>>
        /\ slot[s].alias = Alias[m]
    BY <2>1, RunFound DEF IInv, Aliases
  <2>3. Seen(s)
    <3>1. ASSUME NEW t \in 1..(s - 1), slot[t].kind = "never" PROVE FALSE
      <4>1. t \in Slots /\ t < s
        BY DEF Slots
      <4>2. slot[s].kind = "never"
        BY <3>1, <4>1 DEF IInv, NeverLast
      <4> QED BY <4>2 DEF IsEntry
    <3> QED BY <3>1 DEF Seen
  <2>4. CASE c > 0
    <3>1. \A p \in 1..c : RunAt(s, c)[p] = <<m, p>>
      BY <2>2 DEF RunAt
    <3>2. (\A p \in 1..c : /\ RunAt(s, c)[p][2] = p /\ Fold[RunAt(s, c)[p][1]] = Fold[n]
                           /\ c = Chunks[RunAt(s, c)[p][1]])
            <=> Fold[m] = Fold[n]
      <4>1. 1 \in 1..c
        BY <2>2, <2>4
      <4> QED BY <2>1, <3>1, <4>1
    <3>3. Matches(s, n) <=> Fold[m] = Fold[n]
      BY <2>2, <2>4, <3>2 DEF Matches
    <3> QED BY <2>1, <2>2, <2>3, <2>4, <3>3
  <2>5. CASE c = 0
    <3>1. Matches(s, n) <=> Alias[m] = Alias[n]
      BY <2>2, <2>5 DEF Matches
    <3>2. Fold[m] = Fold[n] => Alias[m] = Alias[n]
      BY <2>2
    <3> QED BY <2>1, <2>3, <2>5, <3>1, <3>2
  <2> QED BY <2>2, <2>4, <2>5
<1> QED BY <1>1, Invariant, PTL
=============================================================================
