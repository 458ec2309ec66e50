------------------------------ MODULE LongNames ------------------------------
(***************************************************************************)
(* How names lie in the slots of one directory: storage/fat32_path.c.      *)
(* A name that its 8.3 alias does not spell exactly gets a run of long-    *)
(* name slots above its entry.  The top slot of the run has the highest    *)
(* sequence number, the mark "last" and the first 13 characters.           *)
(*                                                                         *)
(* A name is a model value.  What the code computes from its characters,   *)
(* and the slots of one directory keep apart, are the constants: the       *)
(* alias, the checksum of an alias, the name with its case folded and the  *)
(* number of slots of the run.  A directory is read and written as one.    *)
(***************************************************************************)
EXTENDS Integers

CONSTANTS
  DirSlots,     \* entries of a directory cluster, 128 on the disks made here
  Names,        \* the names in use
  Alias,        \* _fat32_name_to_83 of each name
  Chunks,       \* length of its run: 0 if alias_readable gives the name back
  Fold,         \* the name in lower case
  Sum           \* lfn_checksum of each alias

ASSUME NamesOK ==
  /\ DirSlots \in Nat
  /\ Chunks \in [Names -> Nat]
  /\ \A m, n \in Names :
       /\ Fold[m] = Fold[n] => Alias[m] = Alias[n]
       /\ Fold[m] = Fold[n] /\ Chunks[m] > 0 /\ Chunks[n] > 0 => Chunks[m] = Chunks[n]
       /\ Alias[m] = Alias[n] /\ Chunks[m] = 0 /\ Chunks[n] = 0 => m = n

VARIABLE slot   \* the slots of the directory

Slots == 1..DirSlots

\* A slot that was never written has a first byte of 0.  Deleting one writes
\* 0xE5 there, where a long-name slot has 0x40 for "last" and 5 bits for seq.
Never        == [kind |-> "never", free |-> TRUE]
Long(n, p)   == [kind |-> "long", free |-> FALSE, seq |-> Chunks[n] - p + 1,
                 last |-> p = 1, sum |-> Sum[Alias[n]], chunk |-> <<n, p>>]
\* The name it was created with is not on the disk, and nobody reads what is
\* left of a deleted entry.
Short(n)     == [kind |-> "short", free |-> FALSE, alias |-> Alias[n], name |-> n]
Gone         == [kind |-> "gone", free |-> TRUE]

Deleted(e) == IF e.kind = "long"
              THEN [kind |-> "long", free |-> TRUE, seq |-> 5, last |-> TRUE,
                    sum |-> e.sum, chunk |-> e.chunk]
              ELSE Gone

IsEntry(e) == e.kind = "short"

Init == slot = [s \in Slots |-> Never]

-----------------------------------------------------------------------------
(***************************************************************************)
(* Reading a name.                                                         *)
(***************************************************************************)

\* Slot s - t continues the run of the entry at s.
Continues(s, t) ==
  /\ s - t \in Slots
  /\ slot[s - t].kind = "long"
  /\ slot[s - t].seq = t
  /\ slot[s - t].sum = Sum[slot[s].alias]

\* The run above the entry at s has length n: it ends at a slot that does not
\* continue it, or at its last one.
HasRun(s, n) ==
  /\ \A t \in 1..n : Continues(s, t)
  /\ \A t \in 1..(n - 1) : ~slot[s - t].last
  /\ ~Continues(s, n + 1) \/ (n > 0 /\ slot[s - n].last)

\* The chunks of a run from its top, or of name n.
RunAt(s, n) == [p \in 1..n |-> slot[s - (n - p + 1)].chunk]
RunOf(n)    == [p \in 1..Chunks[n] |-> <<n, p>>]

\* _fat32_entry_full_name: an entry without a run has its alias for a name.
Lists(s, n) ==
  \E len \in 0..(s - 1) :
    /\ HasRun(s, len)
    /\ IF len > 0 THEN len = Chunks[n] /\ RunAt(s, len) = RunOf(n)
                  ELSE Chunks[n] = 0 /\ slot[s].alias = Alias[n]

\* _fat32_entry_matches
Matches(s, n) ==
  \E len \in 0..(s - 1) :
    /\ HasRun(s, len)
    /\ IF len > 0
       THEN LET run == RunAt(s, len) IN
            \A p \in 1..len : run[p][2] = p /\ Fold[run[p][1]] = Fold[n]
                                            /\ len = Chunks[run[p][1]]
       ELSE slot[s].alias = Alias[n]

\* Every search ends at the first slot that was never used.
Seen(s) == IsEntry(slot[s]) /\ \A t \in 1..(s - 1) : slot[t].kind # "never"

FirstMatch(s, n) ==     \* _fat32_find_entry, in one directory
  /\ Seen(s) /\ Matches(s, n)
  /\ \A t \in 1..(s - 1) : ~(Seen(t) /\ Matches(t, n))

-----------------------------------------------------------------------------
(***************************************************************************)
(* Adding and removing an entry.                                           *)
(***************************************************************************)

\* Mutant: does not look at the last slot, the entry's own.
FitsRunOnly(i, n) ==
  \A t \in 0..Chunks[n] : i + t \in Slots /\ (t < Chunks[n] => slot[i + t].free)

Fits(i, n) == \A t \in 0..Chunks[n] : i + t \in Slots /\ slot[i + t].free

FitsFirst(i, n) == Fits(i, n) /\ \A j \in 1..(i - 1) : ~Fits(j, n)

dir_add_entry(n) ==
  \E i \in Slots :
    /\ FitsFirst(i, n)
    /\ slot' = [s \in Slots |->
                  IF s = i + Chunks[n] THEN Short(n)
                  ELSE IF s \in i..(i + Chunks[n] - 1) THEN Long(n, s - i + 1)
                  ELSE slot[s]]

Create(n) ==            \* fat32_touch, fat32_echo, fat32_mkdir
  /\ \A s \in Slots : ~FirstMatch(s, n)
  /\ dir_add_entry(n)

CopyTo(n) == dir_add_entry(n)   \* fat32_copy does not look for its destination

\* Mutant: deletes the entry alone.
SweptAlone(s) == {s}

\* The part of the run that is deleted with the entry at s: up to the first
\* slot that is of another run, or to one that has the bit of "last" after it
\* was marked as deleted, which 0xE5 has.
Swept(s) ==
  {s} \cup {t \in {s - 1} \cap Slots :
              slot[t].kind = "long" /\ slot[t].sum = Sum[slot[s].alias]}

fat32_rm(n) ==
  \E s \in Slots :
    /\ FirstMatch(s, n)
    /\ slot' = [t \in Slots |-> IF t \in Swept(s) THEN Deleted(slot[t]) ELSE slot[t]]

Next == \E n \in Names : Create(n) \/ CopyTo(n) \/ fat32_rm(n)

Spec == Init /\ [][Next]_slot

-----------------------------------------------------------------------------
(***************************************************************************)
(* Properties.                                                             *)
(***************************************************************************)
Longs  == [kind : {"long"}, free : BOOLEAN, seq : Nat \ {0}, last : BOOLEAN,
           sum : {Sum[Alias[n]] : n \in Names}, chunk : Names \X Nat]
Shorts == [kind : {"short"}, free : {FALSE}, alias : {Alias[n] : n \in Names},
           name : Names]

TypeOK == slot \in [Slots -> {Never, Gone} \cup Longs \cup Shorts]

\* A listing shows every entry under the name it was created with, whatever
\* was created and deleted around it. (fat32_path.c:84-128, 217-285)
NamesAreKept == \A s \in Slots : IsEntry(slot[s]) => Lists(s, slot[s].name)

\* An entry is found under its name in any case, and under no other but, if it
\* has no run, those with its alias. (fat32_path.c:130-166, 198-205)
AnswersToItsName ==
  \A s \in Slots : IsEntry(slot[s]) =>
    \A n \in Names :
      Seen(s) /\ Matches(s, n) <=>
        LET m == slot[s].name IN
        Fold[m] = Fold[n] \/ (Chunks[m] = 0 /\ Alias[m] = Alias[n])

\* Deleting an entry deletes the run above it. (fat32_file.c:174-186)
NoOrphanSlots ==
  \A s \in Slots : slot[s].kind = "long" /\ ~slot[s].free =>
    \E e \in (s + 1)..DirSlots :
      IsEntry(slot[e]) /\ e - s <= Chunks[slot[e].name]
=============================================================================
