----------------------------- MODULE TaskProofs -----------------------------
(***************************************************************************)
(* Theorems about Task for every number of pids, every scan limit, every   *)
(* keyboard ring and every choice of programs.                             *)
(***************************************************************************)
EXTENDS Task, SequenceTheorems, WellFoundedInduction, TLAPS

-----------------------------------------------------------------------------
(***************************************************************************)
(* The list.                                                               *)
(***************************************************************************)

\* What linking a node behind the head does to the sequence. (task.c:125)
LEMMA InsertFacts ==
  ASSUME NEW rg \in Seq(Pid), Len(rg) >= 1, NEW p \in Pid
  PROVE  /\ InsertAfterHead(rg, p) \in Seq(Pid)
         /\ Len(InsertAfterHead(rg, p)) = Len(rg) + 1
         /\ InsertAfterHead(rg, p)[1] = rg[1]
         /\ InsertAfterHead(rg, p)[2] = p
         /\ \A i \in 2..Len(rg) : InsertAfterHead(rg, p)[i + 1] = rg[i]
<1> DEFINE two == <<rg[1], p>>
<1>1. rg[1] \in Pid
  OBVIOUS
<1>2. two \in Seq(Pid) /\ Len(two) = 2 /\ two[1] = rg[1] /\ two[2] = p
  BY <1>1
<1>3. /\ Tail(rg) \in Seq(Pid)
      /\ Len(Tail(rg)) = Len(rg) - 1
      /\ \A i \in 1..(Len(rg) - 1) : Tail(rg)[i] = rg[i + 1]
  OBVIOUS
<1> DEFINE rest == Tail(rg)
<1> HIDE DEF two, rest
<1>4. /\ two \o rest \in Seq(Pid)
      /\ Len(two \o rest) = Len(two) + Len(rest)
      /\ \A i \in 1..(Len(two) + Len(rest)) :
           (two \o rest)[i] = IF i <= Len(two) THEN two[i] ELSE rest[i - Len(two)]
  <2>1. two \in Seq(Pid) /\ rest \in Seq(Pid)
    BY <1>2, <1>3 DEF rest
  <2> QED
    BY <2>1, ConcatProperties, Zenon
<1>5. /\ \A i \in 1..2 : (two \o rest)[i] = two[i]
      /\ \A i \in 2..Len(rg) : (two \o rest)[i + 1] = rg[i]
  BY <1>2, <1>3, <1>4 DEF rest
<1>6. InsertAfterHead(rg, p) = two \o rest
  BY DEF InsertAfterHead, two, rest
<1> QED
  BY <1>2, <1>3, <1>4, <1>5, <1>6 DEF rest

\* Linking a node and unlinking it again leaves the list as it was, whatever
\* else is linked. (task.c:349-359 after task.c:125)
LEMMA UnlinkFacts ==
  ASSUME NEW rg \in Seq(Pid), Len(rg) >= 1, NEW p \in Pid, NEW rg2,
         \A i \in 1..Len(rg) : rg[i] # p,
         Unlink(InsertAfterHead(rg, p), p, rg2)
  PROVE  rg2 = rg
<1> DEFINE new == InsertAfterHead(rg, p)
<1>1. /\ new \in Seq(Pid)
      /\ Len(new) = Len(rg) + 1
      /\ new[1] = rg[1]
      /\ new[2] = p
      /\ \A i \in 2..Len(rg) : new[i + 1] = rg[i]
  BY InsertFacts
<1> HIDE DEF new
<1>2. PICK i \in 2..Len(new) :
        /\ new[i] = p
        /\ rg2 = [j \in 1..(Len(new) - 1) |-> IF j < i THEN new[j] ELSE new[j + 1]]
  BY DEF Unlink, new
<1>3. i = 2
  <2> SUFFICES ASSUME i # 2 PROVE FALSE
    OBVIOUS
  <2>1. i - 1 \in 2..Len(rg) /\ new[(i - 1) + 1] = rg[i - 1]
    BY <1>1
  <2> QED
    BY <2>1, <1>2
<1>4. rg2 = [j \in 1..Len(rg) |-> IF j < 2 THEN new[j] ELSE new[j + 1]]
  BY <1>1, <1>2, <1>3
<1>5. \A j \in 1..Len(rg) : rg2[j] = rg[j]
  BY <1>1, <1>4
<1>6. rg = [j \in 1..Len(rg) |-> rg[j]]
  OBVIOUS
<1> QED
  BY <1>4, <1>5, <1>6

-----------------------------------------------------------------------------
(***************************************************************************)
(* task_switch.                                                            *)
(***************************************************************************)

\* The process chosen is linked; it can run, as long as the ring is no longer
\* than the scan; and it is pid 1 only if no other linked process can run.
LEMMA ChosenFacts ==
  ASSUME NEW rg \in Seq(Pid), Len(rg) >= 1, rg[1] = 1,
         \A i, j \in 1..Len(rg) : rg[i] = rg[j] => i = j,
         NEW st \in [Pid -> States], NEW q \in Pid, Chosen(st, rg, q)
  PROVE  /\ \E i \in 1..Len(rg) : rg[i] = q
         /\ CanRun(st, 1) /\ Len(rg) <= MaxScan + 1 => CanRun(st, q)
         /\ q = 1 => \A k \in 2..Len(rg) : ~CanRun(st, rg[k])
<1>1. PICK i \in 1..Len(rg), p \in Pid :
        rg[i] = current /\ ScanEnds(st, rg, i, p) /\ SkipsIdle(st, rg, p, q)
  BY DEF Chosen
<1>2. \A k \in 1..Len(rg) : \E j \in 1..Len(rg) : Hop(rg, i, k) = rg[j]
  <2> TAKE k \in 1..Len(rg)
  <2> DEFINE j == IF i + k <= Len(rg) THEN i + k ELSE i + k - Len(rg)
  <2>1. j \in 1..Len(rg)
    OBVIOUS
  <2> QED
    BY <2>1 DEF Hop
<1>3. \E j \in 1..Len(rg) : p = rg[j]
  <2>1. MaxScan < Len(rg) => MaxScan + 1 \in 1..Len(rg)
    BY ConstantsOK DEF ConstantsOK
  <2> QED
    <3>1. CASE \E k \in 1..Len(rg) : p = Hop(rg, i, k)
      BY <1>2, <3>1
    <3>2. CASE p = IF MaxScan < Len(rg) THEN Hop(rg, i, MaxScan + 1)
                                        ELSE Hop(rg, i, 1)
      <4>1. \E k \in 1..Len(rg) : p = Hop(rg, i, k)
        BY <2>1, <3>2
      <4> QED
        BY <1>2, <4>1
    <3> QED
      BY <1>1, <3>1, <3>2 DEF ScanEnds
<1>4. CanRun(st, 1) /\ Len(rg) <= MaxScan + 1 => CanRun(st, p)
  <2> SUFFICES ASSUME CanRun(st, 1), Len(rg) <= MaxScan + 1, ~CanRun(st, p)
               PROVE  FALSE
    OBVIOUS
  <2>1. \A k \in 1..Len(rg) : ~CanRun(st, Hop(rg, i, k))
    BY <1>1, ConstantsOK DEF ScanEnds, ConstantsOK
  <2> DEFINE k == IF i = Len(rg) THEN 1 ELSE Len(rg) - i + 1
  <2>2. k \in 1..Len(rg)
    OBVIOUS
  <2>3. Hop(rg, i, k) = rg[1]
    BY DEF Hop
  <2> QED
    BY <2>1, <2>2, <2>3
<1>5. CASE p # 1
  BY <1>1, <1>3, <1>4, <1>5 DEF SkipsIdle
<1>6. CASE p = 1
  BY <1>1, <1>3, <1>4, <1>6 DEF SkipsIdle
<1> QED
  BY <1>5, <1>6

-----------------------------------------------------------------------------
(***************************************************************************)
(* The inductive invariant of the table: the list is a list, it holds      *)
(* exactly the processes ever created and not unlinked, current is one of  *)
(* them, and pid 1 never leaves the RUNNING state.                         *)
(***************************************************************************)
Linked(rg, p) == \E i \in 1..Len(rg) : rg[i] = p

RingOK(rg, n) ==
  /\ rg \in Seq(Pid)
  /\ Len(rg) >= 1
  /\ Len(rg) < n
  /\ rg[1] = 1
  /\ \A i \in 1..Len(rg) : rg[i] < n
  /\ \A i, j \in 1..Len(rg) : rg[i] = rg[j] => i = j

Holds(rg, st) == \A p \in Pid : st[p] # "UNUSED" <=> Linked(rg, p)

TableInv ==
  /\ TypeOK
  /\ RingOK(ring, next_pid)
  /\ Holds(ring, state)
  /\ Linked(ring, current)
  /\ state[1] = "RUNNING"
  /\ prog[1] = "kernel"

LEMMA TableInit == Init => TableInv
<1> SUFFICES ASSUME Init PROVE TableInv
  OBVIOUS
<1>1. 1 \in Pid
  BY ConstantsOK DEF ConstantsOK, Pid
<1>2. ring \in Seq(Pid) /\ Len(ring) = 1 /\ ring[1] = 1
  BY <1>1 DEF Init
<1>3. TypeOK
  BY <1>1, <1>2, ConstantsOK
  DEF Init, TypeOK, ConstantsOK, Pid, States, Programs, Native, Results, Slots,
      KernelPcs
<1>4. RingOK(ring, next_pid)
  BY <1>2 DEF Init, RingOK
<1>5. Holds(ring, state) /\ Linked(ring, current)
  BY <1>1, <1>2 DEF Init, Holds, Linked
<1> QED
  BY <1>1, <1>3, <1>4, <1>5 DEF Init, TableInv

\* A pid taken and not linked leaves the list well formed.
LEMMA RingWidens ==
  ASSUME NEW rg, NEW n \in Int, NEW m \in Int, n <= m, RingOK(rg, n)
  PROVE  RingOK(rg, m)
<1>1. \A i \in 1..Len(rg) : rg[i] < m
  <2> TAKE i \in 1..Len(rg)
  <2>1. rg[i] \in Pid
    BY DEF RingOK
  <2>2. rg[i] \in Int /\ rg[i] < n
    BY <2>1 DEF RingOK, Pid
  <2> QED
    BY <2>2
<1>2. Len(rg) < m
  BY DEF RingOK
<1> QED
  BY <1>1, <1>2 DEF RingOK

\* Linking the next pid keeps the list a list and adds just that node.
LEMMA InsertKeeps ==
  ASSUME NEW rg, NEW n \in Pid, RingOK(rg, n)
  PROVE  /\ RingOK(InsertAfterHead(rg, n), n + 1)
         /\ \A p \in Pid : Linked(InsertAfterHead(rg, n), p)
                             <=> (p = n \/ Linked(rg, p))
         /\ ~Linked(rg, n)
<1> DEFINE new == InsertAfterHead(rg, n)
<1>1. /\ new \in Seq(Pid)
      /\ Len(new) = Len(rg) + 1
      /\ new[1] = rg[1]
      /\ new[2] = n
      /\ \A i \in 2..Len(rg) : new[i + 1] = rg[i]
  BY InsertFacts DEF RingOK
<1> HIDE DEF new
<1>2. \A i \in 3..Len(new) : i - 1 \in 2..Len(rg) /\ new[i] = rg[i - 1]
  <2> TAKE i \in 3..Len(new)
  <2>1. i - 1 \in 2..Len(rg) /\ (i - 1) + 1 = i
    BY <1>1 DEF RingOK
  <2> QED
    BY <1>1, <2>1
<1>3. \A i \in 1..Len(new) : \/ i = 1 /\ new[i] = 1
                             \/ i = 2 /\ new[i] = n
                             \/ /\ i - 1 \in 2..Len(rg)
                                /\ new[i] = rg[i - 1]
                                /\ new[i] < n /\ new[i] # 1
  BY <1>1, <1>2 DEF RingOK
<1>4. \A i, j \in 1..Len(new) : new[i] = new[j] => i = j
  <2> SUFFICES ASSUME NEW i \in 1..Len(new), NEW j \in 1..Len(new), new[i] = new[j]
               PROVE  i = j
    OBVIOUS
  <2>1. n # 1 /\ n \in Int
    BY DEF RingOK, Pid
  <2>2. CASE i \in {1, 2} \/ j \in {1, 2}
    BY <1>3, <2>1, <2>2
  <2>3. CASE i \notin {1, 2} /\ j \notin {1, 2}
    <3>1. i - 1 \in 1..Len(rg) /\ j - 1 \in 1..Len(rg) /\ rg[i - 1] = rg[j - 1]
      BY <1>3, <2>3
    <3>2. i - 1 = j - 1
      BY <3>1 DEF RingOK
    <3> QED
      BY <3>2
  <2> QED
    BY <2>2, <2>3
<1>5. RingOK(new, n + 1)
  <2>1. n \in Nat /\ n > 1
    BY DEF RingOK, Pid
  <2>2. \A i \in 1..Len(new) : new[i] \in Pid
    BY <1>1
  <2>3. \A i \in 1..Len(new) : new[i] < n + 1
    <3> TAKE i \in 1..Len(new)
    <3> QED
      BY <1>3, <2>1, <2>2 DEF Pid
  <2>4. Len(new) < n + 1 /\ Len(new) >= 1 /\ new[1] = 1
    BY <1>1, <2>1 DEF RingOK
  <2> QED
    BY <1>1, <1>4, <2>3, <2>4 DEF RingOK
<1>6. ~Linked(rg, n)
  BY DEF RingOK, Linked, Pid
<1>7. ASSUME NEW p \in Pid
      PROVE  Linked(new, p) <=> (p = n \/ Linked(rg, p))
  <2>1. ASSUME Linked(rg, p) PROVE Linked(new, p)
    <3>1. PICK i \in 1..Len(rg) : rg[i] = p
      BY <2>1 DEF Linked
    <3>2. CASE i = 1
      BY <1>1, <3>1, <3>2 DEF Linked, RingOK
    <3>3. CASE i # 1
      <4>1. i + 1 \in 1..Len(new) /\ new[i + 1] = p
        BY <1>1, <3>1, <3>3
      <4> QED
        BY <4>1 DEF Linked
    <3> QED
      BY <3>2, <3>3
  <2>2. ASSUME Linked(new, p), p # n PROVE Linked(rg, p)
    BY <1>3, <2>2 DEF Linked, RingOK
  <2>3. Linked(new, n)
    BY <1>1 DEF Linked, RingOK
  <2> QED
    BY <2>1, <2>2, <2>3
<1> QED
  BY <1>5, <1>6, <1>7 DEF new

\* What a context switch does to a well-formed table.
LEMMA SwitchKeeps ==
  ASSUME NEW rg, NEW n, RingOK(rg, n), NEW st \in [Pid -> States],
         Holds(rg, st), st[1] = "RUNNING", task_switch(st, rg)
  PROVE  /\ current' \in Pid
         /\ state' = [st EXCEPT ![current'] = "RUNNING"]
         /\ state' \in [Pid -> States]
         /\ Holds(rg, state')
         /\ Linked(rg, current')
         /\ state'[1] = "RUNNING"
         /\ Len(rg) <= MaxScan + 1 => CanRun(st, current')
         /\ current' = 1 => \A p \in Pid \ {1} : ~CanRun(st, p)
<1>1. PICK q \in Pid :
        Chosen(st, rg, q) /\ current' = q /\ state' = [st EXCEPT ![q] = "RUNNING"]
  BY DEF task_switch
<1>2. 1 \in Pid
  BY ConstantsOK DEF ConstantsOK, Pid
<1>3. /\ \E i \in 1..Len(rg) : rg[i] = q
      /\ CanRun(st, 1) /\ Len(rg) <= MaxScan + 1 => CanRun(st, q)
      /\ q = 1 => \A k \in 2..Len(rg) : ~CanRun(st, rg[k])
  BY <1>1, ChosenFacts DEF RingOK
<1>4. state' \in [Pid -> States] /\ state'[1] = "RUNNING"
  BY <1>1, <1>2 DEF States
<1>5. Linked(rg, q) /\ Holds(rg, state')
  BY <1>1, <1>3, <1>4 DEF Linked, Holds
<1>6. q = 1 => \A p \in Pid \ {1} : ~CanRun(st, p)
  BY <1>3 DEF Holds, Linked, RingOK, CanRun
<1> QED
  BY <1>1, <1>2, <1>3, <1>4, <1>5, <1>6 DEF CanRun

-----------------------------------------------------------------------------
(***************************************************************************)
(* Every step keeps TableInv.                                              *)
(***************************************************************************)

\* A step of the process on the CPU that switches, on an unchanged list.
LEMMA SwitchStep ==
  ASSUME TableInv, NEW st \in [Pid -> States], Holds(ring, st),
         st[1] = "RUNNING", task_switch(st, ring), UNCHANGED procVars,
         TypeOK'
  PROVE  TableInv'
<1>1. /\ Holds(ring, state')
      /\ Linked(ring, current')
      /\ state'[1] = "RUNNING"
  BY SwitchKeeps DEF TableInv
<1> QED
  BY <1>1 DEF TableInv, procVars

\* A step that creates a process and then switches away from its parent.
LEMMA CreateStep ==
  ASSUME TableInv, NEW par \in 0..MaxPid, NEW program \in Programs,
         task_create(par, program), NEW st \in [Pid -> States],
         \A p \in Pid \ {next_pid} : st[p] # "UNUSED" <=> state[p] # "UNUSED",
         st[next_pid] # "UNUSED", st[1] = "RUNNING"
  PROVE  /\ RingOK(ring', next_pid')
         /\ Holds(ring', st)
         /\ prog'[1] = "kernel"
         /\ next_pid \in Pid \ {1}
         /\ ring' \in Seq(Pid)
         /\ next_pid' \in 1..(MaxPid + 1)
         /\ parent_id' \in [Pid -> 0..MaxPid]
         /\ prog' \in [Pid -> Programs]
         /\ freed' \subseteq Pid
<1>1. next_pid \in Pid /\ next_pid # 1
  BY DEF TableInv, TypeOK, RingOK, task_create, Pid
<1>2. /\ RingOK(ring', next_pid + 1)
      /\ \A p \in Pid : Linked(ring', p) <=> (p = next_pid \/ Linked(ring, p))
  BY <1>1, InsertKeeps DEF TableInv, task_create
<1>3. Holds(ring', st)
  BY <1>1, <1>2 DEF TableInv, Holds
<1>4. /\ RingOK(ring', next_pid')
      /\ ring' \in Seq(Pid)
  BY <1>2 DEF task_create, RingOK
<1>5. next_pid' \in 1..(MaxPid + 1)
  BY <1>1, ConstantsOK DEF task_create, Pid, ConstantsOK
<1>6. /\ parent_id' \in [Pid -> 0..MaxPid]
      /\ prog' \in [Pid -> Programs]
      /\ prog'[1] = "kernel"
      /\ freed' \subseteq Pid
  BY <1>1 DEF task_create, TableInv, TypeOK
<1> QED
  BY <1>1, <1>3, <1>4, <1>5, <1>6

\* Failed creations: the list is as it was, or gained an abandoned node.
LEMMA FailStep ==
  ASSUME TableInv,
         \/ task_create_fails /\ Stays
         \/ elf_load_abandons /\ UNCHANGED current
  PROVE  /\ RingOK(ring', next_pid')
         /\ Holds(ring', state')
         /\ Linked(ring', current')
         /\ state'[1] = "RUNNING"
         /\ prog'[1] = "kernel"
         /\ next_pid' \in 1..(MaxPid + 1)
         /\ state' \in [Pid -> States]
         /\ parent_id' \in [Pid -> 0..MaxPid]
         /\ prog' \in [Pid -> Programs]
         /\ freed' \subseteq Pid
         /\ current' \in Pid
<1>1. CASE task_create_fails /\ Stays
  <2>1. next_pid' \in 1..(MaxPid + 1) /\ next_pid' >= next_pid
    BY <1>1, ConstantsOK DEF task_create_fails, TableInv, TypeOK, ConstantsOK
  <2>2. RingOK(ring, next_pid')
    BY <2>1, RingWidens DEF TableInv, TypeOK
  <2> QED
    BY <1>1, <2>1, <2>2 DEF task_create_fails, TableInv, TypeOK, Stays
<1>2. CASE elf_load_abandons /\ UNCHANGED current
  <2>1. next_pid \in Pid /\ next_pid # 1
    BY <1>2 DEF TableInv, TypeOK, RingOK, elf_load_abandons, Pid
  <2>2. /\ RingOK(ring', next_pid + 1)
        /\ \A p \in Pid : Linked(ring', p) <=> (p = next_pid \/ Linked(ring, p))
    BY <1>2, <2>1, InsertKeeps DEF TableInv, elf_load_abandons
  <2>3. state' \in [Pid -> States] /\ state'[1] = "RUNNING"
    BY <1>2, <2>1 DEF elf_load_abandons, TableInv, TypeOK, States
  <2>4. Holds(ring', state')
    BY <1>2, <2>1, <2>2, <2>3 DEF elf_load_abandons, TableInv, TypeOK, Holds
  <2>5. next_pid' \in 1..(MaxPid + 1)
    BY <1>2, <2>1, ConstantsOK DEF elf_load_abandons, Pid, ConstantsOK
  <2>6. Linked(ring', current') /\ current' \in Pid
    BY <1>2, <2>2 DEF TableInv, TypeOK
  <2>7. prog' \in [Pid -> Programs] /\ prog'[1] = "kernel"
    BY <1>2, <2>1 DEF elf_load_abandons, TableInv, TypeOK, Programs
  <2>8. freed' \subseteq Pid /\ parent_id' \in [Pid -> 0..MaxPid]
    BY <1>2, <2>1 DEF elf_load_abandons, TableInv, TypeOK
  <2> QED
    BY <1>2, <2>2, <2>3, <2>4, <2>5, <2>6, <2>7, <2>8 DEF elf_load_abandons
<1> QED
  BY <1>1, <1>2

\* However a process ends, it ends the same way.
LEMMA EndsDie == SysExit \/ LinuxExit \/ isr_handler => Dies
  BY DEF SysExit, LinuxExit, isr_handler

LEMMA TableNext == TableInv /\ [Next]_vars => TableInv'
<1> SUFFICES ASSUME TableInv, [Next]_vars PROVE TableInv'
  OBVIOUS
<1> USE DEF kbVars, Returns
<1>0. /\ 1 \in Pid
      /\ current \in Pid
      /\ 0 \in 0..MaxPid /\ 1 \in 0..MaxPid
      /\ \A p \in Pid : p \in 0..MaxPid
  BY ConstantsOK DEF ConstantsOK, Pid, TableInv, TypeOK
<1>k. prog[current] # "kernel" => current # 1
  BY DEF TableInv
<1>f. \A q \in Pid : [state EXCEPT ![q] = "READY"] \in [Pid -> States]
  BY DEF TableInv, TypeOK, States
<1>1. ASSUME NEW program \in {"shell", "runtests"}, NEW pc \in KernelPcs,
             Starts(program, pc), current = 1
      PROVE  TableInv'
  <2>1. program \in Programs /\ Slot(program) \in Slots
    BY DEF Programs, Native, Slot, Slots
  <2>2. CASE task_create_fails /\ Loaded(program, 0) /\ UNCHANGED state
    <3>1. Stays
      BY <1>1, <2>2 DEF Starts, Stays
    <3>2. image' \in [Slots -> 0..MaxPid]
      BY <1>0, <2>1, <2>2 DEF Loaded, TableInv, TypeOK
    <3> QED
      BY <1>1, <2>2, <3>1, <3>2, FailStep DEF Starts, TableInv, TypeOK, RingOK
  <2>3. CASE /\ task_create(0, program)
             /\ state' = [state EXCEPT ![next_pid] = "READY"]
             /\ Loaded(program, next_pid)
    <3>1. next_pid \in Pid /\ next_pid # 1
      BY <2>3 DEF TableInv, TypeOK, RingOK, task_create, Pid
    <3>2. /\ state' \in [Pid -> States]
          /\ state'[next_pid] # "UNUSED"
          /\ state'[1] = "RUNNING"
          /\ \A p \in Pid \ {next_pid} : state'[p] # "UNUSED" <=> state[p] # "UNUSED"
      BY <2>3, <3>1, <1>f DEF TableInv, TypeOK
    <3>3. image' \in [Slots -> 0..MaxPid]
      BY <1>0, <2>1, <2>3, <3>1 DEF Loaded, TableInv, TypeOK
    <3>4. /\ RingOK(ring', next_pid')
          /\ Holds(ring', state')
          /\ prog'[1] = "kernel"
          /\ ring' \in Seq(Pid)
          /\ next_pid' \in 1..(MaxPid + 1)
          /\ parent_id' \in [Pid -> 0..MaxPid]
          /\ prog' \in [Pid -> Programs]
          /\ freed' \subseteq Pid
      BY <1>0, <2>1, <2>3, <3>2, CreateStep
    <3>5. current' = current /\ Linked(ring', current')
      <4>1. current' = 1
        BY <1>1 DEF Starts
      <4>2. Linked(ring', 1)
        BY <1>0, <3>2, <3>4 DEF Holds
      <4> QED
        BY <1>1, <4>1, <4>2
    <3> QED
      BY <1>1, <3>2, <3>3, <3>4, <3>5 DEF Starts, TableInv, TypeOK
  <2> QED
    BY <1>1, <2>2, <2>3 DEF Starts
<1>2. CASE KernelStep
  <2>1. CASE KernelStartsShell
    BY <1>1, <2>1 DEF KernelStartsShell, KernelPcs
  <2>2. CASE KernelStartsRunner
    BY <1>1, <2>2 DEF KernelStartsRunner, KernelPcs
  <2>3. CASE KernelMissesRunner \/ KernelClearsMarker
    BY <2>3
    DEF KernelMissesRunner, KernelClearsMarker, procVars, TableInv, TypeOK, KernelPcs
  <2>4. CASE KernelYields
    <3>1. /\ current' \in Pid /\ state' \in [Pid -> States]
      BY <2>4, SwitchKeeps DEF KernelYields, TableInv, TypeOK
    <3>2. TypeOK'
      BY <2>4, <3>1 DEF KernelYields, TableInv, TypeOK, procVars, KernelPcs
    <3> QED
      BY <2>4, <3>2, SwitchStep DEF KernelYields, TableInv, TypeOK
  <2> QED
    BY <1>2, <2>1, <2>2, <2>3, <2>4 DEF KernelStep
<1>3. CASE timer_callback
  <2>1. current' \in Pid /\ state' \in [Pid -> States]
    BY <1>3, SwitchKeeps DEF timer_callback, TableInv, TypeOK
  <2>2. TypeOK'
    BY <1>3, <2>1 DEF timer_callback, TableInv, TypeOK, procVars
  <2> QED
    BY <1>3, <2>2, SwitchStep DEF timer_callback, TableInv, TypeOK
<1>4. CASE keyboard_handler
  <2>1. /\ state' \in [Pid -> States]
        /\ state'[1] = "RUNNING"
        /\ \A p \in Pid : state'[p] # "UNUSED" <=> state[p] # "UNUSED"
    BY <1>0, <1>4 DEF keyboard_handler, TableInv, TypeOK, States
  <2>2. kbd' \in 0..KbSize
    BY <1>4, ConstantsOK DEF keyboard_handler, TableInv, TypeOK, ConstantsOK
  <2> QED
    BY <1>4, <2>1, <2>2 DEF keyboard_handler, TableInv, TypeOK, procVars, Holds
<1>5. CASE SysExit \/ LinuxExit \/ isr_handler
  <2> DEFINE st == WakeParent([state EXCEPT ![current] = "TERMINATED"], current)
  <2>1. /\ st \in [Pid -> States]
        /\ Holds(ring, st)
        /\ st[1] = "RUNNING"
    BY <1>0, <1>5, EndsDie DEF Dies, WakeParent, TableInv, TypeOK, States, Holds
  <2>2. task_switch(st, ring)
    BY <1>5, EndsDie DEF Dies
  <2> HIDE DEF st
  <2>3. current' \in Pid /\ state' \in [Pid -> States]
    BY <2>1, <2>2, SwitchKeeps DEF TableInv
  <2>4. TypeOK'
    BY <1>5, <2>3, EndsDie DEF Dies, TableInv, TypeOK, procVars, Results
  <2> QED
    BY <1>5, <2>1, <2>2, <2>4, SwitchStep, EndsDie DEF Dies
<1>6. ASSUME NEW s \in {"SLEEPING", "WAITING"}, NEW r \in Results, Returns(r),
             task_switch([state EXCEPT ![current] = s], ring),
             current # 1, UNCHANGED <<procVars, kbVars, image, kpc>>
      PROVE  TableInv'
  <2> DEFINE st == [state EXCEPT ![current] = s]
  <2>1. /\ st \in [Pid -> States]
        /\ Holds(ring, st)
        /\ st[1] = "RUNNING"
    BY <1>0, <1>6 DEF TableInv, TypeOK, States, Holds
  <2>2. task_switch(st, ring)
    BY <1>6
  <2> HIDE DEF st
  <2>3. current' \in Pid /\ state' \in [Pid -> States]
    BY <2>1, <2>2, SwitchKeeps DEF TableInv
  <2>4. TypeOK'
    BY <1>6, <2>3 DEF TableInv, TypeOK, procVars
  <2> QED
    BY <1>6, <2>1, <2>2, <2>4, SwitchStep
<1>7. ASSUME NEW program \in Programs, task_create(current, program),
             task_switch([state EXCEPT ![next_pid] = "READY",
                                       ![current] = "WAITING"], ring'),
             current # 1, kbd' \in 0..KbSize, kb_enabled' \in {0, 1},
             image' \in [Slots -> 0..MaxPid], eax' \in [Pid -> Results],
             kpc' = kpc
      PROVE  TableInv'
  <2> DEFINE st == [state EXCEPT ![next_pid] = "READY", ![current] = "WAITING"]
  <2>1. next_pid \in Pid /\ next_pid # 1
    BY <1>7 DEF TableInv, TypeOK, RingOK, task_create, Pid
  <2>2. /\ st \in [Pid -> States]
        /\ \A p \in Pid \ {next_pid} : st[p] # "UNUSED" <=> state[p] # "UNUSED"
        /\ st[next_pid] # "UNUSED"
        /\ st[1] = "RUNNING"
    BY <1>0, <1>7, <2>1 DEF TableInv, TypeOK, States, Holds
  <2>3. task_switch(st, ring')
    BY <1>7
  <2> HIDE DEF st
  <2>4. /\ RingOK(ring', next_pid')
        /\ Holds(ring', st)
        /\ prog'[1] = "kernel"
        /\ ring' \in Seq(Pid)
        /\ next_pid' \in 1..(MaxPid + 1)
        /\ parent_id' \in [Pid -> 0..MaxPid]
        /\ prog' \in [Pid -> Programs]
        /\ freed' \subseteq Pid
    BY <1>0, <1>7, <2>2, CreateStep
  <2>5. /\ current' \in Pid
        /\ state' \in [Pid -> States]
        /\ Holds(ring', state')
        /\ Linked(ring', current')
        /\ state'[1] = "RUNNING"
    BY <2>2, <2>3, <2>4, SwitchKeeps
  <2> QED
    BY <1>7, <2>4, <2>5 DEF TableInv, TypeOK
<1>8. CASE NativeStep
  <2>1. prog[current] \in Native => current # 1
    BY <1>k DEF Native
  <2>2. CASE ExecNotFound \/ FlushKb \/ \E on \in {0, 1} : KbEnable(on)
    BY <2>2, ConstantsOK
    DEF ExecNotFound, FlushKb, KbEnable, Stays, procVars, TableInv, TypeOK,
        Results, ConstantsOK
  <2>3. ASSUME NEW program \in Native, ExecNoMemory(program)
        PROVE  TableInv'
    <3>1. image' \in [Slots -> 0..MaxPid]
      BY <1>0, <2>3 DEF ExecNoMemory, Loaded, TableInv, TypeOK
    <3>2. eax' \in [Pid -> Results]
      BY <1>0, <2>3 DEF ExecNoMemory, TableInv, TypeOK, Results
    <3>3. kbd' \in 0..KbSize /\ kb_enabled' \in {0, 1}
      BY <2>3, ConstantsOK DEF ExecNoMemory, ConstantsOK
    <3>4. kpc' \in KernelPcs
      BY <2>3 DEF ExecNoMemory, TableInv, TypeOK
    <3> QED
      BY <2>3, <3>1, <3>2, <3>3, <3>4, FailStep DEF ExecNoMemory, TableInv, TypeOK, RingOK
  <2>4. ASSUME NEW program \in Native, Exec(program)
        PROVE  TableInv'
    <3>1. current # 1
      BY <1>k, <2>4 DEF Exec, Runs
    <3>2. next_pid \in 0..MaxPid
      BY <2>4 DEF Exec, task_create, TableInv, TypeOK
    <3>3. image' \in [Slots -> 0..MaxPid]
      BY <2>4, <3>2 DEF Exec, Loaded, TableInv, TypeOK
    <3>4. eax' \in [Pid -> Results]
      BY <1>0, <2>4 DEF Exec, TableInv, TypeOK, Results
    <3>5. kbd' \in 0..KbSize /\ kb_enabled' \in {0, 1}
      BY <2>4, ConstantsOK DEF Exec, ConstantsOK
    <3> QED
      BY <1>7, <2>4, <3>1, <3>3, <3>4, <3>5 DEF Exec, Programs
  <2>5. CASE ExecElf
    <3>1. eax' \in [Pid -> Results]
      BY <1>0, <2>5 DEF ExecElf, TableInv, TypeOK, Results
    <3>2. current # 1 /\ "elf" \in Programs
      BY <2>1, <2>5 DEF ExecElf, Native, Programs
    <3> QED
      BY <1>7, <2>5, <3>1, <3>2 DEF ExecElf, TableInv, TypeOK
  <2>6. CASE ExecElfFails
    <3>1. eax' \in [Pid -> Results]
      BY <1>0, <2>6 DEF ExecElfFails, TableInv, TypeOK, Results
    <3> QED
      BY <2>6, <3>1, FailStep DEF ExecElfFails, TableInv, TypeOK, RingOK
  <2>7. CASE ReadSleeps
    BY <1>6, <2>1, <2>7 DEF ReadSleeps, Native, Results
  <2>8. CASE Yields
    <3>1. current' \in Pid /\ state' \in [Pid -> States]
      BY <2>8, SwitchKeeps DEF Yields, TableInv, TypeOK
    <3>2. TypeOK'
      BY <2>8, <3>1 DEF Yields, TableInv, TypeOK, procVars, Results
    <3> QED
      BY <2>8, <3>2, SwitchStep DEF Yields, TableInv, TypeOK
  <2> QED
    BY <1>8, <2>2, <2>3, <2>4, <2>5, <2>6, <2>7, <2>8 DEF NativeStep
<1>9. CASE ReadTakesKey \/ ReadFindsNothing
  <2>1. kbd' \in 0..KbSize
    BY <1>9, ConstantsOK
    DEF ReadTakesKey, ReadFindsNothing, TableInv, TypeOK, ConstantsOK
  <2>2. eax' \in [Pid -> Results]
    BY <1>9 DEF ReadTakesKey, ReadFindsNothing, TableInv, TypeOK, Results
  <2> QED
    BY <1>9, <2>1, <2>2 DEF ReadTakesKey, ReadFindsNothing, TableInv, TypeOK, procVars
<1>10. CASE LinuxStep
  <2>1. prog[current] = "elf" => current # 1
    BY <1>k
  <2>2. CASE WaitPidReturns
    BY <2>2 DEF WaitPidReturns, TableInv, TypeOK, procVars, Results
  <2>3. CASE WaitPidBlocks
    BY <1>6, <2>1, <2>3 DEF WaitPidBlocks, Results
  <2>4. CASE Execve
    <3>1. next_pid \in Pid /\ RingOK(ring, next_pid)
      BY <2>4 DEF Execve, TableInv, TypeOK, Pid
    <3>2. \A i \in 1..Len(ring) : ring[i] # next_pid
      BY <3>1, InsertKeeps DEF Linked
    <3>3. ring' = ring
      BY <2>4, <3>1, <3>2, UnlinkFacts DEF Execve, RingOK
    <3>4. RingOK(ring, next_pid + 1)
      BY <3>1, RingWidens DEF Pid
    <3>5. next_pid' \in 1..(MaxPid + 1) /\ freed' \subseteq Pid
      BY <2>4, <3>1, ConstantsOK DEF Execve, Pid, ConstantsOK, TableInv, TypeOK
    <3>6. RingOK(ring', next_pid')
      BY <2>4, <3>3, <3>4 DEF Execve
    <3> QED
      BY <2>4, <3>3, <3>5, <3>6 DEF Execve, TableInv, TypeOK, Results
  <2>5. CASE ExecveFails
    <3>1. eax' \in [Pid -> Results]
      BY <1>0, <2>5 DEF ExecveFails, TableInv, TypeOK, Results
    <3>2. CASE UNCHANGED procVars /\ Stays
      BY <2>5, <3>1, <3>2 DEF ExecveFails, TableInv, TypeOK, procVars, Stays
    <3>3. CASE \/ task_create_fails /\ Stays
               \/ elf_load_abandons /\ UNCHANGED current
      BY <2>5, <3>1, <3>3, FailStep DEF ExecveFails, TableInv, TypeOK, RingOK
    <3> QED
      BY <2>5, <3>2, <3>3 DEF ExecveFails
  <2> QED
    BY <1>10, <2>2, <2>3, <2>4, <2>5 DEF LinuxStep
<1>11. CASE UNCHANGED vars
  BY <1>11 DEF vars, TableInv, TypeOK
<1> QED
  BY <1>2, <1>3, <1>4, <1>5, <1>8, <1>9, <1>10, <1>11 DEF Next

LEMMA TableInvariant == Spec => []TableInv
<1>1. Init => TableInv
  BY TableInit
<1>2. TableInv /\ [Next]_vars => TableInv'
  BY TableNext
<1> QED
  BY <1>1, <1>2, PTL DEF Spec

\* Every variable keeps its type for ever.
THEOREM TypeCorrect == Spec => []TypeOK
<1>1. TableInv => TypeOK
  BY DEF TableInv
<1> QED
  BY <1>1, TableInvariant, PTL

\* Linking and unlinking never lose a live process nor link one twice.
THEOREM RingCorrect == Spec => []RingHoldsTheLiving
<1>1. TableInv => RingHoldsTheLiving
  BY DEF TableInv, RingOK, Holds, Linked, RingHoldsTheLiving, Live
<1> QED
  BY <1>1, TableInvariant, PTL

-----------------------------------------------------------------------------
(***************************************************************************)
(* Safety, on top of the table invariant.  Every step is first sorted into *)
(* one of six kinds by what it does to the processes; each theorem then    *)
(* argues by kind.                                                         *)
(***************************************************************************)
\* The scan of task_switch reaches every process: at most MaxPid are linked.
ScanReaches == MaxPid <= MaxScan + 1

-----------------------------------------------------------------------------
(***************************************************************************)
(* The kinds of step.                                                      *)
(***************************************************************************)
Quiet == UNCHANGED <<current, state, parent_id, prog>>

\* kmain starts the shell or the test runner.
Starting(program) ==
  /\ program \in Native
  /\ task_create(0, program)
  /\ state' = [state EXCEPT ![next_pid] = "READY"]
  /\ current = 1 /\ current' = 1

\* An abandoned ELF process; nobody is switched to.
Abandoning == elf_load_abandons /\ UNCHANGED current

\* The process on the CPU, in the given state from now on, is switched away.
Leaving(s) ==
  /\ \/ s = "RUNNING"
     \/ s = "SLEEPING" /\ prog[current] = "shell" /\ kbd = 0
     \/ s = "WAITING" /\ prog[current] = "elf" /\ "waitpid" \in LinuxCalls
  /\ task_switch([state EXCEPT ![current] = s], ring)
  /\ UNCHANGED <<ring, parent_id, prog>>

\* A native program spawns a child and waits for it.
Spawning(program) ==
  /\ program \in Programs \ {"kernel", "none"}
  /\ prog[current] \in Native
  /\ task_create(current, program)
  /\ task_switch([state EXCEPT ![next_pid] = "READY", ![current] = "WAITING"],
                 ring')

Kind ==
  \/ Quiet
  \/ \E program \in Native : Starting(program)
  \/ Abandoning
  \/ keyboard_handler
  \/ \E s \in States : Leaving(s)
  \/ Dies
  \/ \E program \in Programs : Spawning(program)

\* The process on the CPU is RUNNING.
CurrentRuns == state[current] = "RUNNING"

LEMMA StepKinds == TableInv /\ CurrentRuns /\ [Next]_vars => Kind
<1> SUFFICES ASSUME TableInv, CurrentRuns, [Next]_vars PROVE Kind
  OBVIOUS
<1>0. [state EXCEPT ![current] = "RUNNING"] = state
  BY DEF CurrentRuns, TableInv, TypeOK
<1>r. ASSUME task_switch(state, ring), UNCHANGED procVars
      PROVE  Kind
  <2>1. Leaving("RUNNING")
    BY <1>0, <1>r DEF Leaving, procVars
  <2>2. "RUNNING" \in States
    BY DEF States
  <2> QED
    BY <2>1, <2>2 DEF Kind
<1>f. ASSUME task_create_fails, Stays PROVE Quiet
  BY <1>f DEF task_create_fails, Stays, Quiet
<1>1. CASE KernelStep
  <2>1. ASSUME NEW program \in Native, NEW pc, Starts(program, pc), current = 1
        PROVE  Kind
    <3>1. CASE task_create_fails /\ UNCHANGED state
      BY <1>f, <2>1, <3>1 DEF Starts, Stays, Kind
    <3>2. CASE /\ task_create(0, program)
               /\ state' = [state EXCEPT ![next_pid] = "READY"]
      <4>1. Starting(program)
        BY <2>1, <3>2 DEF Starts, Starting
      <4> QED
        BY <4>1 DEF Kind
    <3> QED
      BY <2>1, <3>1, <3>2 DEF Starts
  <2>2. CASE KernelStartsShell \/ KernelStartsRunner
    BY <2>1, <2>2 DEF KernelStartsShell, KernelStartsRunner, Native
  <2>3. CASE KernelMissesRunner \/ KernelClearsMarker
    BY <2>3 DEF KernelMissesRunner, KernelClearsMarker, procVars, Quiet, Kind
  <2>4. CASE KernelYields
    BY <1>r, <2>4 DEF KernelYields
  <2> QED
    BY <1>1, <2>2, <2>3, <2>4 DEF KernelStep
<1>2. CASE timer_callback
  BY <1>2, <1>r DEF timer_callback
<1>3. CASE NativeStep
  <2>1. CASE \/ ExecNotFound \/ FlushKb \/ \E on \in {0, 1} : KbEnable(on)
    BY <2>1 DEF ExecNotFound, FlushKb, KbEnable, Stays, procVars, Quiet, Kind
  <2>2. CASE \E program \in Native : ExecNoMemory(program)
    BY <1>f, <2>2 DEF ExecNoMemory, Kind
  <2>3. ASSUME NEW program \in Native, Exec(program) PROVE Kind
    <3>1. Spawning(program)
      BY <2>3 DEF Exec, Spawning, Runs, Native, Programs
    <3> QED
      BY <3>1 DEF Kind, Programs
  <2>4. CASE ExecElf
    <3>1. Spawning("elf") /\ "elf" \in Programs
      BY <2>4 DEF ExecElf, Spawning, Native, Programs
    <3> QED
      BY <3>1 DEF Kind
  <2>5. CASE ExecElfFails
    BY <1>f, <2>5 DEF ExecElfFails, Kind, Abandoning
  <2>6. CASE ReadSleeps
    <3>1. Leaving("SLEEPING") /\ "SLEEPING" \in States
      BY <2>6 DEF ReadSleeps, Leaving, procVars, States
    <3> QED
      BY <3>1 DEF Kind
  <2>7. CASE Yields
    BY <1>r, <2>7 DEF Yields
  <2> QED
    BY <1>3, <2>1, <2>2, <2>3, <2>4, <2>5, <2>6, <2>7 DEF NativeStep
<1>4. CASE ReadTakesKey \/ ReadFindsNothing
  BY <1>4 DEF ReadTakesKey, ReadFindsNothing, procVars, Quiet, Kind
<1>5. CASE LinuxStep
  <2>1. CASE WaitPidReturns \/ Execve
    BY <2>1 DEF WaitPidReturns, Execve, procVars, Quiet, Kind
  <2>2. CASE WaitPidBlocks
    <3>1. Leaving("WAITING") /\ "WAITING" \in States
      BY <2>2 DEF WaitPidBlocks, Leaving, procVars, States
    <3> QED
      BY <3>1 DEF Kind
  <2>3. CASE ExecveFails
    BY <1>f, <2>3 DEF ExecveFails, Kind, Abandoning, Quiet, Stays, procVars
  <2> QED
    BY <1>5, <2>1, <2>2, <2>3 DEF LinuxStep
<1>6. CASE keyboard_handler \/ SysExit \/ LinuxExit \/ isr_handler
  BY <1>6, EndsDie DEF Kind
<1>7. CASE UNCHANGED vars
  BY <1>7 DEF vars, Quiet, Kind
<1> QED
  BY <1>1, <1>2, <1>3, <1>4, <1>5, <1>6, <1>7 DEF Next

-----------------------------------------------------------------------------
(***************************************************************************)
(* What the switching kinds do, with st the states as the scan sees them.  *)
(***************************************************************************)
Switched(st) ==
  /\ current' \in Pid
  /\ st \in [Pid -> States]
  /\ state' = [st EXCEPT ![current'] = "RUNNING"]
  /\ ScanReaches => CanRun(st, current')
  /\ current' = 1 => \A p \in Pid \ {1} : ~CanRun(st, p)

LEMMA SwitchedBy ==
  ASSUME NEW rg, NEW n \in 1..(MaxPid + 1), RingOK(rg, n),
         NEW st \in [Pid -> States], Holds(rg, st), st[1] = "RUNNING",
         task_switch(st, rg)
  PROVE  Switched(st)
<1>1. ScanReaches => Len(rg) <= MaxScan + 1
  BY ConstantsOK DEF RingOK, ScanReaches, ConstantsOK
<1> QED
  BY <1>1, SwitchKeeps DEF Switched

AfterLeaving(s) == [state EXCEPT ![current] = s]
AfterDying == WakeParent([state EXCEPT ![current] = "TERMINATED"], current)
AfterSpawning == [state EXCEPT ![next_pid] = "READY", ![current] = "WAITING"]

LEMMA LeavingSwitches ==
  ASSUME TableInv, CurrentRuns, NEW s \in States, Leaving(s)
  PROVE  Switched(AfterLeaving(s))
<1> DEFINE st == AfterLeaving(s)
<1>1. s # "RUNNING" => current # 1
  BY DEF Leaving, TableInv
<1>2. s # "UNUSED"
  BY DEF Leaving
<1>3. st \in [Pid -> States] /\ st[1] = "RUNNING"
  BY <1>1 DEF AfterLeaving, TableInv, TypeOK, CurrentRuns
<1>4. Holds(ring, st)
  BY <1>2 DEF AfterLeaving, TableInv, TypeOK, CurrentRuns, Holds
<1>5. task_switch(st, ring)
  BY DEF Leaving, AfterLeaving
<1>6. next_pid \in 1..(MaxPid + 1) /\ RingOK(ring, next_pid)
  BY DEF TableInv, TypeOK
<1> QED
  BY <1>3, <1>4, <1>5, <1>6, SwitchedBy

LEMMA DyingSwitches ==
  ASSUME TableInv, CurrentRuns, Dies
  PROVE  Switched(AfterDying) /\ current # 1 /\ UNCHANGED <<ring, parent_id, prog>>
<1> DEFINE st == AfterDying
<1>1. /\ st \in [Pid -> States]
      /\ Holds(ring, st)
      /\ st[1] = "RUNNING"
  <2>1. 1 \in Pid
    BY ConstantsOK DEF ConstantsOK, Pid
  <2> QED
    BY <2>1 DEF AfterDying, Dies, WakeParent, TableInv, TypeOK, States, Holds, CurrentRuns
<1>2. task_switch(st, ring)
  BY DEF Dies, AfterDying
<1>3. next_pid \in 1..(MaxPid + 1) /\ RingOK(ring, next_pid)
  BY DEF TableInv, TypeOK
<1>4. Switched(st)
  BY <1>1, <1>2, <1>3, SwitchedBy
<1> QED
  BY <1>4 DEF Dies, procVars

LEMMA SpawningSwitches ==
  ASSUME TableInv, CurrentRuns, NEW program \in Programs, Spawning(program)
  PROVE  /\ Switched(AfterSpawning)
         /\ current # 1
         /\ next_pid \in Pid \ {1, current}
         /\ state[next_pid] = "UNUSED"
<1> DEFINE st == AfterSpawning
<1>1. 1 \in Pid /\ 0 \in 0..MaxPid /\ current \in Pid /\ current \in 0..MaxPid
  BY ConstantsOK DEF ConstantsOK, Pid, TableInv, TypeOK
<1>2. current # 1
  BY DEF Spawning, TableInv, Native
<1>3. next_pid \in Pid
  BY DEF Spawning, task_create, TableInv, TypeOK, Pid
<1>4. ~Linked(ring, next_pid)
  BY <1>3, InsertKeeps DEF TableInv
<1>5. state[next_pid] = "UNUSED" /\ next_pid # current /\ next_pid # 1
  BY <1>1, <1>3, <1>4 DEF TableInv, Holds, RingOK, Linked
<1>6. /\ st \in [Pid -> States]
      /\ \A p \in Pid \ {next_pid} : st[p] # "UNUSED" <=> state[p] # "UNUSED"
      /\ st[next_pid] # "UNUSED"
      /\ st[1] = "RUNNING"
  BY <1>1, <1>2, <1>3, <1>5 DEF AfterSpawning, TableInv, TypeOK, States, CurrentRuns
<1>7. task_create(current, program) /\ task_switch(st, ring')
  BY DEF Spawning, AfterSpawning
<1> HIDE DEF st
<1>8. RingOK(ring', next_pid') /\ Holds(ring', st) /\ next_pid' \in 1..(MaxPid + 1)
  BY <1>1, <1>6, <1>7, CreateStep
<1>9. Switched(st)
  BY <1>6, <1>7, <1>8, SwitchedBy
<1> QED
  BY <1>2, <1>3, <1>5, <1>9 DEF st

\* A pid that was never handed out is still unused.
LEMMA NextPidUnused ==
  ASSUME TableInv, next_pid \in Pid
  PROVE  state[next_pid] = "UNUSED" /\ next_pid # current /\ next_pid # 1
<1>1. 1 \in Pid /\ ~Linked(ring, next_pid)
  BY InsertKeeps, ConstantsOK DEF TableInv, ConstantsOK, Pid
<1> QED
  BY <1>1 DEF TableInv, Holds, RingOK, Linked

LEMMA CurrentNext == TableInv /\ CurrentRuns /\ [Next]_vars => CurrentRuns'
<1> SUFFICES ASSUME TableInv, CurrentRuns, [Next]_vars PROVE CurrentRuns'
  OBVIOUS
<1>1. ASSUME NEW st, Switched(st) PROVE CurrentRuns'
  BY <1>1 DEF Switched, CurrentRuns
<1>2. CASE Quiet
  BY <1>2 DEF Quiet, CurrentRuns
<1>3. ASSUME NEW program \in Native, Starting(program) PROVE CurrentRuns'
  <2>1. next_pid \in Pid
    BY <1>3 DEF Starting, task_create, TableInv, TypeOK, Pid
  <2> QED
    BY <1>3, <2>1, NextPidUnused DEF Starting, CurrentRuns, TableInv, TypeOK
<1>4. CASE Abandoning
  <2>1. next_pid \in Pid
    BY <1>4 DEF Abandoning, elf_load_abandons, TableInv, TypeOK, Pid
  <2> QED
    BY <1>4, <2>1, NextPidUnused
    DEF Abandoning, elf_load_abandons, CurrentRuns, TableInv, TypeOK
<1>5. CASE keyboard_handler
  BY <1>5 DEF keyboard_handler, CurrentRuns, TableInv, TypeOK
<1>6. CASE \E s \in States : Leaving(s)
  BY <1>1, <1>6, LeavingSwitches
<1>7. CASE Dies
  BY <1>1, <1>7, DyingSwitches
<1>8. CASE \E program \in Programs : Spawning(program)
  BY <1>1, <1>8, SpawningSwitches
<1> QED
  BY <1>2, <1>3, <1>4, <1>5, <1>6, <1>7, <1>8, StepKinds DEF Kind

LEMMA RunningInvariant == Spec => [](TableInv /\ CurrentRuns)
<1>1. Init => CurrentRuns
  BY ConstantsOK DEF Init, CurrentRuns, ConstantsOK, Pid
<1> QED
  BY <1>1, CurrentNext, TableInvariant, PTL DEF Spec

-----------------------------------------------------------------------------
(***************************************************************************)
(* The theorems.                                                           *)
(***************************************************************************)

\* Only the keyboard interrupt puts characters into an empty ring.
LEMMA OnlyKeysFill ==
  TableInv /\ [Next]_vars => keyboard_handler \/ (kbd = 0 => kbd' = 0)
<1> SUFFICES ASSUME TableInv, [Next]_vars, ~keyboard_handler, kbd = 0 PROVE kbd' = 0
  OBVIOUS
<1> USE DEF kbVars
<1>1. CASE KernelStep
  BY <1>1 DEF KernelStep, KernelStartsShell, KernelStartsRunner, KernelMissesRunner,
              KernelYields, KernelClearsMarker, Starts
<1>2. CASE timer_callback \/ SysExit \/ LinuxExit \/ isr_handler
  BY <1>2, EndsDie DEF timer_callback, Dies
<1>3. CASE NativeStep
  BY <1>3 DEF NativeStep, ExecNotFound, ExecElf, ExecElfFails, Exec, ExecNoMemory,
              ReadSleeps, FlushKb, Yields, KbEnable
<1>4. CASE ReadTakesKey \/ ReadFindsNothing
  BY <1>4 DEF ReadTakesKey, ReadFindsNothing
<1>5. CASE LinuxStep
  BY <1>5 DEF LinuxStep, WaitPidReturns, WaitPidBlocks, Execve, ExecveFails
<1>6. CASE UNCHANGED vars
  BY <1>6 DEF vars
<1> QED
  BY <1>1, <1>2, <1>3, <1>4, <1>5, <1>6 DEF Next

\* Nobody sleeps on the keyboard while a character is there to be read.
THEOREM NoLostWakeUp == Spec => []NoSleeperMissesAKey
<1>1. Init => NoSleeperMissesAKey
  BY DEF Init, NoSleeperMissesAKey
<1>2. TableInv /\ CurrentRuns /\ NoSleeperMissesAKey /\ [Next]_vars
        => NoSleeperMissesAKey'
  <2> SUFFICES ASSUME TableInv, CurrentRuns, NoSleeperMissesAKey, [Next]_vars,
                      NEW p \in Pid, state'[p] = "SLEEPING"
               PROVE  kbd' = 0
    BY DEF NoSleeperMissesAKey
  <2>1. ASSUME NEW st, Switched(st), st[p] = "SLEEPING" => kbd = 0,
               ~keyboard_handler
        PROVE  kbd' = 0
    BY <2>1, OnlyKeysFill DEF Switched
  <2>2. CASE keyboard_handler
    BY <2>2 DEF keyboard_handler
  <2>3. CASE Quiet /\ ~keyboard_handler
    BY <2>3, OnlyKeysFill DEF Quiet, NoSleeperMissesAKey
  <2>4. ASSUME ~keyboard_handler,
               \/ \E program \in Native : Starting(program)
               \/ Abandoning
        PROVE  kbd' = 0
    <3>1. state[p] = "SLEEPING"
      BY <2>4 DEF Starting, Abandoning, elf_load_abandons, TableInv, TypeOK
    <3> QED
      BY <2>4, <3>1, OnlyKeysFill DEF NoSleeperMissesAKey
  <2>5. ASSUME NEW s \in States, Leaving(s), ~keyboard_handler PROVE kbd' = 0
    <3>1. AfterLeaving(s)[p] = "SLEEPING" => kbd = 0
      BY <2>5 DEF AfterLeaving, Leaving, NoSleeperMissesAKey, TableInv, TypeOK
    <3> QED
      BY <2>1, <2>5, <3>1, LeavingSwitches
  <2>6. CASE Dies /\ ~keyboard_handler
    <3>1. AfterDying[p] = "SLEEPING" => kbd = 0
      BY DEF AfterDying, WakeParent, NoSleeperMissesAKey, TableInv, TypeOK
    <3> QED
      BY <2>1, <2>6, <3>1, DyingSwitches
  <2>7. ASSUME NEW program \in Programs, Spawning(program), ~keyboard_handler
        PROVE  kbd' = 0
    <3>1. AfterSpawning[p] = "SLEEPING" => kbd = 0
      BY DEF AfterSpawning, NoSleeperMissesAKey, TableInv, TypeOK
    <3> QED
      BY <2>1, <2>7, <3>1, SpawningSwitches
  <2> QED
    BY <2>2, <2>3, <2>4, <2>5, <2>6, <2>7, StepKinds DEF Kind
<1> QED
  BY <1>1, <1>2, RunningInvariant, PTL DEF Spec

\* The CPU goes back to pid 1 only when no other process can use it.
THEOREM IdleIsLast == Spec => IdleComesLast
<1> DEFINE A == current # 1 /\ current' = 1 =>
                  \A p \in Pid \ {1} : ~CanRun(state', p)
<1>1. TableInv /\ CurrentRuns /\ [Next]_vars => A
  <2> SUFFICES ASSUME TableInv, CurrentRuns, [Next]_vars, current # 1, current' = 1
               PROVE  \A p \in Pid \ {1} : ~CanRun(state', p)
    OBVIOUS
  <2>1. ASSUME NEW st, Switched(st)
        PROVE  \A p \in Pid \ {1} : ~CanRun(state', p)
    BY <2>1 DEF Switched, CanRun
  <2>2. ~Quiet /\ ~(\E program \in Native : Starting(program)) /\ ~Abandoning
    BY DEF Quiet, Starting, Abandoning
  <2>3. ~keyboard_handler
    BY DEF keyboard_handler
  <2> QED
    BY <2>1, <2>2, <2>3, LeavingSwitches, DyingSwitches, SpawningSwitches, StepKinds
    DEF Kind
<1>2. TableInv /\ CurrentRuns /\ [Next]_vars => [A]_vars
  BY <1>1
<1> HIDE DEF A
<1>3. Spec => [][A]_vars
  BY <1>2, RunningInvariant, PTL DEF Spec
<1> QED
  BY <1>3 DEF A, IdleComesLast

Earned(p) ==
  /\ state[p] = "TERMINATED" => state'[p] = "TERMINATED"
  /\ state[p] = "SLEEPING" => state'[p] \in {"SLEEPING", "READY"}
  /\ state[p] = "WAITING" /\ state'[p] # "WAITING" =>
       \E c \in Pid : /\ parent_id[c] = p
                      /\ Live(state, c)
                      /\ state'[c] = "TERMINATED"

LEMMA EarnedNext ==
  TableInv /\ CurrentRuns /\ ScanReaches /\ [Next]_vars => \A p \in Pid : Earned(p)
<1> SUFFICES ASSUME TableInv, CurrentRuns, ScanReaches, [Next]_vars, NEW p \in Pid
             PROVE  Earned(p)
  OBVIOUS
<1>1. ASSUME state'[p] = state[p] PROVE Earned(p)
  BY <1>1 DEF Earned
<1>2. ASSUME state[p] \in {"UNUSED", "READY", "RUNNING"} PROVE Earned(p)
  BY <1>2 DEF Earned
<1>3. \A st : Switched(st) => state'[p] = st[p] \/ CanRun(st, p)
  BY DEF Switched
<1>4. CASE Quiet
  BY <1>1, <1>4 DEF Quiet
<1>5. CASE (\E program \in Native : Starting(program)) \/ Abandoning
  <2>1. next_pid \in Pid
    BY <1>5 DEF Starting, Abandoning, elf_load_abandons, task_create, TableInv,
                TypeOK, Pid
  <2>2. p # next_pid => state'[p] = state[p]
    BY <1>5, <2>1 DEF Starting, Abandoning, elf_load_abandons, TableInv, TypeOK
  <2> QED
    BY <1>1, <1>2, <2>1, <2>2, NextPidUnused
<1>6. CASE keyboard_handler
  BY <1>6 DEF keyboard_handler, Earned
<1>7. ASSUME NEW s \in States, Leaving(s) PROVE Earned(p)
  <2>1. p # current => AfterLeaving(s)[p] = state[p]
    BY DEF AfterLeaving, TableInv, TypeOK
  <2>2. p = current => state[p] = "RUNNING"
    BY DEF CurrentRuns
  <2> QED
    BY <1>1, <1>2, <1>3, <1>7, <2>1, <2>2, LeavingSwitches DEF CanRun
<1>8. CASE Dies
  <2>1. Switched(AfterDying) /\ current \in Pid
    BY <1>8, DyingSwitches DEF TableInv, TypeOK
  <2>2. CASE p = current
    BY <1>2, <2>2 DEF CurrentRuns
  <2>3. CASE p # current /\ p = parent_id[current] /\ state[p] = "WAITING"
    <3>1. AfterDying[current] = "TERMINATED"
      BY <2>1 DEF AfterDying, WakeParent, TableInv, TypeOK
    <3>2. state'[current] = "TERMINATED"
      BY <2>1, <3>1 DEF Switched, CanRun
    <3>3. Live(state, current)
      BY DEF CurrentRuns, Live
    <3> QED
      BY <2>1, <2>3, <3>2, <3>3 DEF Earned
  <2>4. CASE p # current /\ ~(p = parent_id[current] /\ state[p] = "WAITING")
    <3>1. AfterDying[p] = state[p]
      BY <2>1, <2>4 DEF AfterDying, WakeParent, TableInv, TypeOK
    <3> QED
      BY <1>1, <1>2, <1>3, <2>1, <3>1 DEF CanRun
  <2> QED
    BY <2>2, <2>3, <2>4
<1>9. ASSUME NEW program \in Programs, Spawning(program) PROVE Earned(p)
  <2>1. p \notin {current, next_pid} => AfterSpawning[p] = state[p]
    BY <1>9 DEF AfterSpawning, TableInv, TypeOK
  <2>2. p \in {current, next_pid} => state[p] \in {"RUNNING", "UNUSED"}
    BY <1>9, SpawningSwitches DEF CurrentRuns
  <2> QED
    BY <1>1, <1>2, <1>3, <1>9, <2>1, <2>2, SpawningSwitches DEF CanRun
<1> QED
  BY <1>4, <1>5, <1>6, <1>7, <1>8, <1>9, StepKinds DEF Kind

\* With no more processes than the scan can skip, the dead stay dead, a
\* sleeper is only made READY, and who waits is released by a child's death.
THEOREM WakesEarned == ScanReaches => (Spec => WakesAreEarned)
<1> SUFFICES ASSUME ScanReaches PROVE Spec => WakesAreEarned
  OBVIOUS
<1> DEFINE A == \A p \in Pid : Earned(p)
<1>1. TableInv /\ CurrentRuns /\ [Next]_vars => [A]_vars
  BY EarnedNext
<1> HIDE DEF A
<1>2. Spec => [][A]_vars
  BY <1>1, RunningInvariant, PTL DEF Spec
<1> QED
  BY <1>2 DEF A, Earned, WakesAreEarned

-----------------------------------------------------------------------------
(***************************************************************************)
(* The table implements CpuSharing.                                        *)
(***************************************************************************)

\* What a step may do to the state of one process.
MayTurn(p, s, t) ==
  \/ s = t
  \/ s \in {"READY", "RUNNING"} /\ t \in {"READY", "RUNNING"}
  \/ p = current /\ s = "RUNNING" /\ t \in {"SLEEPING", "WAITING", "TERMINATED"}
  \/ s \in {"SLEEPING", "WAITING"} /\ t \in {"READY", "RUNNING"}
  \/ p = next_pid /\ s = "UNUSED" /\ t \in {"READY", "RUNNING"}

SharedStep ==
  /\ current' \in Pid
  /\ \A p \in Pid : state'[p] \in States /\ MayTurn(p, state[p], state'[p])
  /\ CanRun(state', current')
  /\ current' = 1 => current = 1 \/ \A p \in Pid \ {1} : ~CanRun(state', p)

LEMMA SharedNext ==
  TableInv /\ CurrentRuns /\ ScanReaches /\ [Next]_vars => SharedStep
<1> SUFFICES ASSUME TableInv, CurrentRuns, ScanReaches, [Next]_vars PROVE SharedStep
  OBVIOUS
<1>1. current \in Pid /\ state \in [Pid -> States] /\ state[current] = "RUNNING"
  BY DEF TableInv, TypeOK, CurrentRuns
<1>2. ASSUME NEW st, Switched(st),
             \A p \in Pid : MayTurn(p, state[p], st[p])
      PROVE  SharedStep
  <2>1. /\ current' \in Pid
        /\ state' \in [Pid -> States]
        /\ state'[current'] = "RUNNING"
        /\ CanRun(st, current')
    BY <1>2 DEF Switched, States
  <2>2. \A p \in Pid : MayTurn(p, state[p], state'[p])
    <3> TAKE p \in Pid
    <3>1. CASE p # current'
      BY <1>2, <3>1 DEF Switched
    <3>2. CASE p = current'
      BY <1>2, <2>1, <3>2 DEF MayTurn, CanRun
    <3> QED
      BY <3>1, <3>2
  <2>3. current' = 1 => \A p \in Pid \ {1} : ~CanRun(state', p)
    BY <1>2 DEF Switched, CanRun
  <2> QED
    BY <2>1, <2>2, <2>3 DEF SharedStep, CanRun
<1>3. CASE Quiet
  BY <1>1, <1>3 DEF Quiet, SharedStep, MayTurn, CanRun
<1>4. CASE (\E program \in Native : Starting(program)) \/ Abandoning
  <2>1. next_pid \in Pid /\ current' = current
    BY <1>4 DEF Starting, Abandoning, elf_load_abandons, task_create, TableInv,
                TypeOK, Pid
  <2>2. state' = [state EXCEPT ![next_pid] = "READY"]
    BY <1>4 DEF Starting, Abandoning, elf_load_abandons
  <2>3. state[next_pid] = "UNUSED" /\ next_pid # current
    BY <2>1, NextPidUnused
  <2> QED
    BY <1>1, <2>1, <2>2, <2>3 DEF SharedStep, MayTurn, CanRun, States
<1>5. CASE keyboard_handler
  BY <1>1, <1>5 DEF keyboard_handler, SharedStep, MayTurn, CanRun, States
<1>6. ASSUME NEW s \in States, Leaving(s) PROVE SharedStep
  <2>1. \A p \in Pid : MayTurn(p, state[p], AfterLeaving(s)[p])
    BY <1>1, <1>6 DEF AfterLeaving, Leaving, MayTurn
  <2> QED
    BY <1>2, <1>6, <2>1, LeavingSwitches
<1>7. CASE Dies
  <2>1. \A p \in Pid : MayTurn(p, state[p], AfterDying[p])
    BY <1>1 DEF AfterDying, WakeParent, MayTurn
  <2> QED
    BY <1>2, <1>7, <2>1, DyingSwitches
<1>8. ASSUME NEW program \in Programs, Spawning(program) PROVE SharedStep
  <2>1. Switched(AfterSpawning) /\ state[next_pid] = "UNUSED" /\ next_pid # current
    BY <1>8, SpawningSwitches
  <2>2. \A p \in Pid : MayTurn(p, state[p], AfterSpawning[p])
    BY <1>1, <2>1 DEF AfterSpawning, MayTurn
  <2> QED
    BY <1>2, <2>1, <2>2
<1> QED
  BY <1>3, <1>4, <1>5, <1>6, <1>7, <1>8, StepKinds DEF Kind

LEMMA SharedStepHandles ==
  TableInv /\ CurrentRuns /\ SharedStep => Abstract!Handler
<1> SUFFICES ASSUME TableInv, CurrentRuns, SharedStep PROVE Abstract!Handler
  OBVIOUS
<1>1. \A p \in Pid : /\ state[p] \in States /\ state'[p] \in States
                     /\ MayTurn(p, state[p], state'[p])
  BY DEF SharedStep, TableInv, TypeOK
<1>2. /\ Dead \subseteq Dead'
      /\ Dead' \ Dead \subseteq {current}
      /\ Blocked' \ Blocked \subseteq {current}
      /\ Blocked \ Blocked' \subseteq Able'
      /\ Able \ Able' \subseteq {current}
  BY <1>1 DEF Dead, Blocked, Able, MayTurn, CanRun, States
<1> DEFINE B == Able \cup Blocked \cup Dead
<1>3. B' \ B \subseteq {next_pid} /\ B \subseteq B' /\ B' \ B \subseteq Able'
  BY <1>1 DEF Dead, Blocked, Able, MayTurn, CanRun, States
<1>4. /\ Able' \cap (Blocked' \cup Dead') = {}
      /\ Blocked' \cap Dead' = {}
  BY DEF Dead, Blocked, Able, CanRun
<1>5. current' \in Able' /\ (current' = 1 => current = 1 \/ Able' = {1})
  BY DEF SharedStep, Able
<1> QED
  BY <1>2, <1>3, <1>4, <1>5 DEF Abstract!Handler, Abstract!Born

\* The task layer shares the CPU as CpuSharing says, as long as the scan can
\* reach every process.
THEOREM ImplementsCpuSharing == ScanReaches => (Spec => CpuSharingSpec)
<1> SUFFICES ASSUME ScanReaches PROVE Spec => CpuSharingSpec
  OBVIOUS
<1>1. Init => Abstract!Init
  <2> SUFFICES ASSUME Init PROVE Abstract!Init
    OBVIOUS
  <2>1. 1 \in Pid
    BY ConstantsOK DEF ConstantsOK, Pid
  <2>2. \A p \in Pid : state[p] = IF p = 1 THEN "RUNNING" ELSE "UNUSED"
    BY DEF Init
  <2>3. Able = {1} /\ Blocked = {} /\ Dead = {}
    BY <2>1, <2>2 DEF Able, Blocked, Dead, CanRun
  <2>4. current = 1
    BY DEF Init
  <2> QED
    BY <2>3, <2>4 DEF Abstract!Init
<1>2. TableInv /\ CurrentRuns /\ [Next]_vars => [Abstract!Next]_(Abstract!vars)
  BY SharedNext, SharedStepHandles DEF Abstract!Next
<1> QED
  BY <1>1, <1>2, RunningInvariant, PTL DEF Spec, CpuSharingSpec, Abstract!Spec

-----------------------------------------------------------------------------
(***************************************************************************)
(* Parents and children.                                                   *)
(***************************************************************************)

\* A pid that is not in use has no parent, and no live child.
Families ==
  \A p \in Pid : state[p] = "UNUSED" =>
    /\ parent_id[p] = 0
    /\ \A c \in Pid : Live(state, c) => parent_id[c] # p

ParkInv == ParkedWhileChildLives /\ Families

\* Steps that leave parents, programs, the living and the waiting alone.
LEMMA FamiliesStay ==
  ASSUME ParkInv, UNCHANGED <<parent_id, prog>>,
         \A p \in Pid : state'[p] = "UNUSED" => state[p] = "UNUSED",
         \A p \in Pid : Live(state', p) <=> Live(state, p),
         \A p \in Pid : prog[p] \in Native /\ Live(state, p) =>
           (state'[p] = "WAITING" <=> state[p] = "WAITING")
  PROVE  ParkInv'
<1>1. Families'
  BY DEF ParkInv, Families
<1>2. ParkedWhileChildLives'
  BY DEF ParkInv, ParkedWhileChildLives
<1> QED
  BY <1>1, <1>2 DEF ParkInv

ChildOf(c, p) == Live(state, c) /\ parent_id[c] = p

Parked(p) ==
  /\ state[p] = "WAITING" => \E c \in Pid : ChildOf(c, p)
  /\ \A c \in Pid : ChildOf(c, p) => state[p] = "WAITING"
  /\ \A c, d \in Pid : ChildOf(c, p) /\ ChildOf(d, p) => c = d

\* A process without a parent comes to life.
LEMMA FamilyStarts ==
  ASSUME ParkInv, TableInv, next_pid \in Pid, state[next_pid] = "UNUSED",
         state' = [state EXCEPT ![next_pid] = "READY"],
         parent_id' = [parent_id EXCEPT ![next_pid] = 0],
         \A p \in Pid \ {next_pid} : prog'[p] = prog[p]
  PROVE  ParkInv'
<1>1. /\ \A p \in Pid \ {next_pid} : state'[p] = state[p] /\ parent_id'[p] = parent_id[p]
      /\ state'[next_pid] = "READY" /\ parent_id'[next_pid] = 0
  BY DEF TableInv, TypeOK
<1>2. 0 \notin Pid
  BY DEF Pid
<1>3. Families'
  BY <1>1, <1>2 DEF ParkInv, Families, Live
<1>4. ParkedWhileChildLives'
  <2> USE DEF ChildOf, Parked
  <2> SUFFICES ASSUME NEW p \in Pid, prog'[p] \in Native, Live(state', p)
               PROVE  Parked(p)'
    BY DEF ParkedWhileChildLives
  <2>1. \A c \in Pid : Live(state', c) /\ parent_id'[c] = p =>
                         c # next_pid /\ Live(state, c) /\ parent_id[c] = p
    BY <1>1, <1>2 DEF Live
  <2>2. CASE p = next_pid
    <3>1. \A c \in Pid : ~(Live(state', c) /\ parent_id'[c] = p)
      BY <2>1, <2>2 DEF ParkInv, Families
    <3>2. state'[p] = "READY"
      BY <1>1, <2>2
    <3> QED
      BY <3>1, <3>2
  <2>3. CASE p # next_pid
    <3>1. prog[p] \in Native /\ Live(state, p)
      BY <1>1, <2>3 DEF Live
    <3>2. \A c \in Pid : Live(state, c) /\ parent_id[c] = p =>
                           Live(state', c) /\ parent_id'[c] = p
      BY <1>1 DEF Live
    <3>3. \A c \in Pid : ChildOf(c, p)' <=> ChildOf(c, p)
      BY <2>1, <3>2
    <3>4. state'[p] = state[p]
      BY <1>1, <2>3
    <3>5. Parked(p)
      BY <3>1 DEF ParkInv, ParkedWhileChildLives
    <3> QED
      BY <3>3, <3>4, <3>5
  <2> QED
    BY <2>2, <2>3
<1> QED
  BY <1>3, <1>4 DEF ParkInv

\* A child dies: its parent waited for it, and for no other.
LEMMA FamilyLoses ==
  ASSUME ParkInv, TableInv, CurrentRuns, ScanReaches, Dies
  PROVE  ParkInv'
<1>1. /\ Switched(AfterDying) /\ current \in Pid
      /\ UNCHANGED <<parent_id, prog>>
      /\ state \in [Pid -> States] /\ state[current] = "RUNNING"
  BY DyingSwitches DEF TableInv, TypeOK, CurrentRuns
<1>2. \A p \in Pid :
        AfterDying[p] = IF p = current THEN "TERMINATED"
                        ELSE IF p = parent_id[current] /\ state[p] = "WAITING"
                        THEN "READY" ELSE state[p]
  BY <1>1 DEF AfterDying, WakeParent
<1>3. \A p \in Pid : \/ state'[p] = AfterDying[p]
                     \/ /\ AfterDying[p] \in {"READY", "RUNNING"}
                        /\ state'[p] = "RUNNING"
  BY <1>1 DEF Switched, CanRun
<1>4. /\ ~Live(state', current) /\ Live(state, current)
      /\ \A p \in Pid \ {current} : Live(state', p) <=> Live(state, p)
      /\ \A p \in Pid : state'[p] = "UNUSED" => state[p] = "UNUSED"
  BY <1>1, <1>2, <1>3 DEF Live, States
<1>5. Families'
  BY <1>1, <1>4 DEF ParkInv, Families
<1>6. ParkedWhileChildLives'
  <2> USE DEF ChildOf, Parked
  <2> SUFFICES ASSUME NEW p \in Pid, prog'[p] \in Native, Live(state', p)
               PROVE  Parked(p)'
    BY DEF ParkedWhileChildLives
  <2>1. p # current /\ prog[p] \in Native /\ Live(state, p)
    BY <1>1, <1>4
  <2>2. Parked(p)
    BY <2>1 DEF ParkInv, ParkedWhileChildLives
  <2>3. CASE p = parent_id[current]
    <3>1. state'[p] # "WAITING"
      BY <1>1, <1>2, <1>3, <1>4, <2>1, <2>2, <2>3
    <3>2. \A c \in Pid : ~(Live(state', c) /\ parent_id'[c] = p)
      BY <1>1, <1>4, <2>2, <2>3
    <3> QED
      BY <3>1, <3>2
  <2>4. CASE p # parent_id[current]
    <3>1. state'[p] = "WAITING" <=> state[p] = "WAITING"
      BY <1>2, <1>3, <2>1, <2>4
    <3>2. \A c \in Pid : (Live(state', c) /\ parent_id'[c] = p)
                           <=> (Live(state, c) /\ parent_id[c] = p)
      BY <1>1, <1>4, <2>4
    <3> QED
      BY <2>2, <3>1, <3>2
  <2> QED
    BY <2>3, <2>4
<1> QED
  BY <1>5, <1>6 DEF ParkInv

\* A native process spawns its only child, and waits.
LEMMA FamilyGains ==
  ASSUME ParkInv, TableInv, CurrentRuns, ScanReaches,
         NEW program \in Programs, Spawning(program)
  PROVE  ParkInv'
<1> DEFINE new == next_pid
<1>1. /\ Switched(AfterSpawning) /\ current \in Pid /\ current # 1
      /\ new \in Pid /\ new # current /\ state[new] = "UNUSED"
      /\ state \in [Pid -> States] /\ state[current] = "RUNNING"
      /\ prog[current] \in Native
  BY SpawningSwitches DEF TableInv, TypeOK, CurrentRuns, Spawning
<1>2. /\ \A p \in Pid \ {new} : parent_id'[p] = parent_id[p] /\ prog'[p] = prog[p]
      /\ parent_id'[new] = current
  BY <1>1 DEF Spawning, task_create, TableInv, TypeOK
<1>3. \A p \in Pid :
        AfterSpawning[p] = IF p = current THEN "WAITING"
                           ELSE IF p = new THEN "READY" ELSE state[p]
  BY <1>1 DEF AfterSpawning
<1>4. \A p \in Pid : \/ state'[p] = AfterSpawning[p]
                     \/ /\ AfterSpawning[p] \in {"READY", "RUNNING"}
                        /\ state'[p] = "RUNNING"
  BY <1>1 DEF Switched, CanRun
<1>5. /\ state'[current] = "WAITING" /\ state'[new] \in {"READY", "RUNNING"}
      /\ Live(state', new) /\ ~Live(state, new) /\ Live(state, current)
      /\ \A p \in Pid \ {new} : Live(state', p) <=> Live(state, p)
      /\ \A p \in Pid : state'[p] = "UNUSED" => p # new /\ state[p] = "UNUSED"
  BY <1>1, <1>3, <1>4 DEF Live
<1>6. Families'
  BY <1>1, <1>2, <1>5 DEF ParkInv, Families
<1>7. \A c \in Pid : ~(Live(state, c) /\ parent_id[c] = current)
  BY <1>1, <1>5 DEF ParkInv, ParkedWhileChildLives
<1>8. ParkedWhileChildLives'
  <2> USE DEF ChildOf, Parked
  <2> SUFFICES ASSUME NEW p \in Pid, prog'[p] \in Native, Live(state', p)
               PROVE  Parked(p)'
    BY DEF ParkedWhileChildLives
  <2>1. \A c \in Pid \ {new} : (Live(state', c) /\ parent_id'[c] = p)
                                 <=> (Live(state, c) /\ parent_id[c] = p)
    BY <1>2, <1>5
  <2>2. CASE p = new
    <3>1. \A c \in Pid : ~(Live(state', c) /\ parent_id'[c] = p)
      BY <1>1, <1>2, <2>1, <2>2 DEF ParkInv, Families
    <3> QED
      BY <1>5, <2>2, <3>1
  <2>3. CASE p = current
    <3>1. \A c \in Pid : (Live(state', c) /\ parent_id'[c] = p) <=> c = new
      BY <1>1, <1>2, <1>5, <1>7, <2>1, <2>3
    <3> QED
      BY <1>1, <1>5, <2>3, <3>1
  <2>4. CASE p \notin {new, current}
    <3>1. prog[p] \in Native /\ Live(state, p)
      BY <1>2, <1>5, <2>4
    <3>2. state'[p] = "WAITING" <=> state[p] = "WAITING"
      BY <1>3, <1>4, <2>4
    <3>3. \A c \in Pid : (Live(state', c) /\ parent_id'[c] = p)
                           <=> (Live(state, c) /\ parent_id[c] = p)
      BY <1>2, <1>5, <2>1, <2>4
    <3> QED
      BY <3>1, <3>2, <3>3 DEF ParkInv, ParkedWhileChildLives
  <2> QED
    BY <2>2, <2>3, <2>4
<1> QED
  BY <1>6, <1>8 DEF ParkInv

LEMMA ParkNext ==
  TableInv /\ CurrentRuns /\ ScanReaches /\ ParkInv /\ [Next]_vars => ParkInv'
<1> SUFFICES ASSUME TableInv, CurrentRuns, ScanReaches, ParkInv, [Next]_vars
             PROVE  ParkInv'
  OBVIOUS
<1>1. state \in [Pid -> States] /\ current \in Pid /\ state[current] = "RUNNING"
  BY DEF TableInv, TypeOK, CurrentRuns
<1>2. CASE Quiet
  BY <1>2, FamiliesStay DEF Quiet
<1>3. ASSUME NEW program \in Native, Starting(program) PROVE ParkInv'
  <2>1. next_pid \in Pid
    BY <1>3 DEF Starting, task_create, TableInv, TypeOK, Pid
  <2> QED
    BY <1>3, <2>1, NextPidUnused, FamilyStarts
    DEF Starting, task_create, TableInv, TypeOK
<1>4. CASE Abandoning
  <2>1. next_pid \in Pid
    BY <1>4 DEF Abandoning, elf_load_abandons, TableInv, TypeOK, Pid
  <2>2. parent_id' = [parent_id EXCEPT ![next_pid] = 0]
    BY <1>4, <2>1, NextPidUnused
    DEF Abandoning, elf_load_abandons, TableInv, TypeOK, ParkInv, Families
  <2> QED
    BY <1>4, <2>1, <2>2, NextPidUnused, FamilyStarts
    DEF Abandoning, elf_load_abandons, TableInv, TypeOK
<1>5. CASE keyboard_handler
  BY <1>1, <1>5, FamiliesStay DEF keyboard_handler, procVars, Live
<1>6. ASSUME NEW s \in States, Leaving(s) PROVE ParkInv'
  <2>1. Switched(AfterLeaving(s)) /\ UNCHANGED <<parent_id, prog>>
    BY <1>6, LeavingSwitches DEF Leaving
  <2>2. \A p \in Pid : \/ state'[p] = AfterLeaving(s)[p]
                       \/ /\ AfterLeaving(s)[p] \in {"READY", "RUNNING"}
                          /\ state'[p] = "RUNNING"
    BY <2>1 DEF Switched, CanRun
  <2>3. \A p \in Pid : AfterLeaving(s)[p] = IF p = current THEN s ELSE state[p]
    BY <1>1 DEF AfterLeaving
  <2>4. /\ s \in {"RUNNING", "SLEEPING", "WAITING"}
        /\ s = "WAITING" => prog[current] \notin Native
    BY <1>6 DEF Leaving, Native
  <2> QED
    BY <1>1, <2>1, <2>2, <2>3, <2>4, FamiliesStay DEF Live
<1>7. CASE Dies
  BY <1>7, FamilyLoses
<1>8. ASSUME NEW program \in Programs, Spawning(program) PROVE ParkInv'
  BY <1>8, FamilyGains
<1> QED
  BY <1>2, <1>3, <1>4, <1>5, <1>6, <1>7, <1>8, StepKinds DEF Kind

\* A native process is parked exactly while its only child lives, so whoever
\* waits will be woken by someone.
THEOREM ParkedCorrect == ScanReaches => (Spec => []ParkedWhileChildLives)
<1> SUFFICES ASSUME ScanReaches PROVE Spec => []ParkedWhileChildLives
  OBVIOUS
<1>1. Init => ParkInv
  <2> SUFFICES ASSUME Init PROVE ParkInv
    OBVIOUS
  <2>1. \A p \in Pid : p # 0 /\ parent_id[p] = 0
    BY DEF Init, Pid
  <2>2. \A p \in Pid : prog[p] \in Native => state[p] = "UNUSED"
    BY DEF Init, Native
  <2> QED
    BY <2>1, <2>2 DEF ParkInv, ParkedWhileChildLives, Families, Live
<1>2. TableInv /\ CurrentRuns /\ ParkInv /\ [Next]_vars => ParkInv'
  BY ParkNext
<1>3. ParkInv => ParkedWhileChildLives
  BY DEF ParkInv
<1> QED
  BY <1>1, <1>2, <1>3, RunningInvariant, PTL DEF Spec

-----------------------------------------------------------------------------
(***************************************************************************)
(* Memory of the nodes.                                                    *)
(***************************************************************************)
FreedInv == /\ NoFreedNodeLinked
            /\ \A p \in freed : p < next_pid

\* What a step that abandons nobody does to the list and to the freed ids.
LEMMA ListSteps ==
  TableInv /\ ~Abandoning /\ [Next]_vars =>
    \/ ring' = ring /\ freed' = freed /\ next_pid' \in {next_pid, next_pid + 1}
    \/ \E parent, program : task_create(parent, program)
    \/ /\ ring' = ring /\ freed' = freed \cup {next_pid}
       /\ next_pid \in Pid /\ next_pid' = next_pid + 1
<1> SUFFICES ASSUME TableInv, ~Abandoning, [Next]_vars
             PROVE  \/ /\ ring' = ring /\ freed' = freed
                       /\ next_pid' \in {next_pid, next_pid + 1}
                    \/ \E parent, program : task_create(parent, program)
                    \/ /\ ring' = ring /\ freed' = freed \cup {next_pid}
                       /\ next_pid \in Pid /\ next_pid' = next_pid + 1
  OBVIOUS
<1> USE DEF procVars, task_create_fails
<1>1. CASE KernelStep
  BY <1>1 DEF KernelStep, KernelStartsShell, KernelStartsRunner, KernelMissesRunner,
              KernelYields, KernelClearsMarker, Starts
<1>2. CASE timer_callback \/ keyboard_handler \/ SysExit \/ LinuxExit \/ isr_handler
  BY <1>2, EndsDie DEF timer_callback, keyboard_handler, Dies
<1>3. CASE NativeStep
  BY <1>3 DEF NativeStep, ExecNotFound, ExecElf, ExecElfFails, Abandoning, Exec,
              ExecNoMemory, ReadSleeps, FlushKb, Yields, KbEnable
<1>4. CASE ReadTakesKey \/ ReadFindsNothing
  BY <1>4 DEF ReadTakesKey, ReadFindsNothing
<1>5. CASE LinuxStep
  <2>1. CASE Execve
    <3>1. next_pid \in Pid /\ RingOK(ring, next_pid)
      BY <2>1 DEF Execve, TableInv, TypeOK, Pid
    <3>2. \A i \in 1..Len(ring) : ring[i] # next_pid
      BY <3>1, InsertKeeps DEF Linked
    <3>3. ring' = ring
      BY <2>1, <3>1, <3>2, UnlinkFacts DEF Execve, RingOK
    <3> QED
      BY <2>1, <3>1, <3>3 DEF Execve
  <2>2. CASE WaitPidReturns \/ WaitPidBlocks \/ ExecveFails
    BY <2>2 DEF WaitPidReturns, WaitPidBlocks, ExecveFails, Abandoning
  <2> QED
    BY <1>5, <2>1, <2>2 DEF LinuxStep
<1>6. CASE UNCHANGED vars
  BY <1>6 DEF vars
<1> QED
  BY <1>1, <1>2, <1>3, <1>4, <1>5, <1>6 DEF Next

\* Whoever is linked was not freed, and stays so.
LEMMA FreedNext == TableInv /\ FreedInv /\ ~Abandoning /\ [Next]_vars => FreedInv'
<1> SUFFICES ASSUME TableInv, FreedInv, ~Abandoning, [Next]_vars
             PROVE  FreedInv'
  OBVIOUS
<1>1. /\ next_pid \in Int /\ freed \subseteq Int
      /\ \A p \in freed : p < next_pid + 1
  BY DEF TableInv, TypeOK, Pid, FreedInv
<1>2. CASE /\ ring' = ring /\ freed' = freed
           /\ next_pid' \in {next_pid, next_pid + 1}
  BY <1>1, <1>2 DEF FreedInv, NoFreedNodeLinked
<1>3. ASSUME NEW parent, NEW program, task_create(parent, program)
      PROVE  FreedInv'
  <2>1. next_pid \in Pid /\ next_pid \notin freed
    BY <1>1, <1>3 DEF task_create, TableInv, TypeOK, Pid, FreedInv
  <2>2. \A p \in Pid : Linked(ring', p) => p = next_pid \/ Linked(ring, p)
    BY <1>3, <2>1, InsertKeeps DEF TableInv, task_create
  <2>3. \A i \in 1..Len(ring') : ring'[i] \in Pid
    <3>1. ring' \in Seq(Pid)
      BY <1>3, <2>1, InsertKeeps DEF TableInv, task_create, RingOK
    <3> QED
      BY <3>1
  <2>4. NoFreedNodeLinked'
    BY <1>3, <2>1, <2>2, <2>3 DEF task_create, FreedInv, NoFreedNodeLinked, Linked
  <2> QED
    BY <1>1, <1>3, <2>4 DEF task_create, FreedInv
<1>4. CASE /\ ring' = ring /\ freed' = freed \cup {next_pid}
           /\ next_pid \in Pid /\ next_pid' = next_pid + 1
  <2>1. \A i \in 1..Len(ring) : ring[i] # next_pid
    <3>1. ~Linked(ring, next_pid)
      BY <1>4, InsertKeeps DEF TableInv
    <3> QED
      BY <3>1 DEF Linked
  <2> QED
    BY <1>1, <1>4, <2>1 DEF FreedInv, NoFreedNodeLinked
<1> QED
  BY <1>2, <1>3, <1>4, ListSteps

\* As long as no page directory allocation of an ELF load fails, no node of
\* the list is ever freed memory.
THEOREM NoFreedNode == ~DirFails => (Spec => []NoFreedNodeLinked)
<1> SUFFICES ASSUME ~DirFails PROVE Spec => []NoFreedNodeLinked
  OBVIOUS
<1>1. Init => FreedInv
  BY DEF Init, FreedInv, NoFreedNodeLinked
<1>2. TableInv /\ FreedInv /\ [Next]_vars => FreedInv'
  BY FreedNext DEF Abandoning, elf_load_abandons
<1>3. FreedInv => NoFreedNodeLinked
  BY DEF FreedInv
<1> QED
  BY <1>1, <1>2, <1>3, TableInvariant, PTL DEF Spec

\* Only the failed load of an ELF binary puts freed memory into the list:
\* execve takes the node it frees out of it first (task.c:345-359), and no id
\* is linked after it was freed.
THEOREM LinksStaySound == Spec => OnlyFailedLoadsLinkFreed
<1> DEFINE FreedAreOld == \A p \in freed : p < next_pid
           A == NoFreedNodeLinked /\ ~NoFreedNodeLinked' => elf_load_abandons
<1>1. Init => FreedAreOld
  BY DEF Init
<1>2. TableInv /\ FreedAreOld /\ [Next]_vars => FreedAreOld' /\ A
  <2> SUFFICES ASSUME TableInv, FreedAreOld, [Next]_vars PROVE FreedAreOld' /\ A
    OBVIOUS
  <2>1. next_pid \in Int /\ freed \subseteq Int
    BY DEF TableInv, TypeOK, Pid
  <2>2. CASE Abandoning
    BY <2>1, <2>2 DEF Abandoning, elf_load_abandons
  <2>3. CASE ~Abandoning
    <3>1. FreedAreOld'
      <4>1. \/ freed' = freed /\ next_pid' \in {next_pid, next_pid + 1}
            \/ freed' = freed \cup {next_pid} /\ next_pid' = next_pid + 1
        BY <2>3, ListSteps DEF task_create
      <4>2. ASSUME NEW p \in freed PROVE p < next_pid /\ p < next_pid + 1
        BY <2>1
      <4>3. CASE freed' = freed /\ next_pid' \in {next_pid, next_pid + 1}
        BY <4>2, <4>3
      <4>4. CASE freed' = freed \cup {next_pid} /\ next_pid' = next_pid + 1
        BY <2>1, <4>2, <4>4
      <4> QED
        BY <4>1, <4>3, <4>4
    <3>2. NoFreedNodeLinked => NoFreedNodeLinked'
      BY <2>3, FreedNext DEF FreedInv
    <3> QED
      BY <3>1, <3>2
  <2> QED
    BY <2>2, <2>3
<1> HIDE DEF FreedAreOld, A
<1>3. Spec => [][A]_vars
  BY <1>1, <1>2, TableInvariant, PTL DEF Spec
<1> QED
  BY <1>3 DEF A, OnlyFailedLoadsLinkFreed

-----------------------------------------------------------------------------
(***************************************************************************)
(* Taking turns: who could use the CPU, or may be woken by a key.          *)
(***************************************************************************)
Contends(st, p) == p # 1 /\ st[p] \in {"READY", "RUNNING", "SLEEPING"}

AtWork == kpc \in {"load", "sweep", "clear"}

TurnInv ==
  /\ \A p, q \in Pid : Contends(state, p) /\ Contends(state, q) => p = q
  /\ current = 1 /\ AtWork => \A p \in Pid : ~Contends(state, p)
  /\ kpc # "idle" =>
       \A p \in Pid : prog[p] # "shell" /\ state[p] # "SLEEPING"

\* Only kmain's own steps move kmain on; only they start a process while pid 1
\* is on the CPU; and a shell comes from kmain's last step or from a shell.
LEMMA KmainAlone ==
  TableInv /\ [Next]_vars /\ ~KernelStep =>
    /\ kpc' = kpc
    /\ current = 1 => next_pid' = next_pid
    /\ \A program \in Programs :
         Spawning(program) =>
           \/ \A p \in Pid : prog'[p] = "shell" => prog[p] = "shell"
           \/ prog[current] = "shell"
<1> SUFFICES ASSUME TableInv, [Next]_vars, ~KernelStep
             PROVE  /\ kpc' = kpc
                    /\ current = 1 => next_pid' = next_pid
                    /\ \/ \A p \in Pid : prog'[p] = "shell" => prog[p] = "shell"
                       \/ prog[current] = "shell"
  OBVIOUS
<1>1. prog[1] = "kernel" /\ prog \in [Pid -> Programs]
  BY DEF TableInv, TypeOK
<1>2. CASE timer_callback \/ keyboard_handler \/ SysExit \/ LinuxExit \/ isr_handler
  BY <1>2, EndsDie DEF timer_callback, keyboard_handler, Dies, procVars
<1>3. CASE NativeStep
  <2>1. CASE ExecElf
    BY <1>1, <2>1 DEF ExecElf, task_create
  <2>2. CASE ExecElfFails
    BY <1>1, <2>2 DEF ExecElfFails, task_create_fails, elf_load_abandons
  <2>3. CASE \E program \in Native : Exec(program)
    <3>1. PICK program \in Native : Exec(program)
      BY <2>3
    <3>2. prog[current] = "shell" \/ program = "cmd"
      BY <3>1 DEF Exec, Runs
    <3> QED
      BY <1>1, <3>1, <3>2 DEF Exec, Runs, task_create
  <2>4. CASE \E program \in Native : ExecNoMemory(program)
    BY <1>1, <2>4 DEF ExecNoMemory, Runs, task_create_fails
  <2>5. CASE ExecNotFound \/ ReadSleeps \/ FlushKb \/ Yields
             \/ \E on \in {0, 1} : KbEnable(on)
    BY <2>5 DEF ExecNotFound, ReadSleeps, FlushKb, Yields, KbEnable, procVars
  <2> QED
    BY <1>3, <2>1, <2>2, <2>3, <2>4, <2>5 DEF NativeStep
<1>4. CASE ReadTakesKey \/ ReadFindsNothing
  BY <1>4 DEF ReadTakesKey, ReadFindsNothing, procVars
<1>5. CASE LinuxStep
  BY <1>1, <1>5 DEF LinuxStep, WaitPidReturns, WaitPidBlocks, Execve, ExecveFails,
                    task_create_fails, elf_load_abandons, procVars
<1>6. CASE UNCHANGED vars
  BY <1>6 DEF vars
<1> QED
  BY <1>2, <1>3, <1>4, <1>5, <1>6 DEF Next

\* After a switch nobody contends who did not before it; and pid 1 got the CPU
\* only if whoever contends sleeps.
LEMMA SwitchTurns ==
  ASSUME ScanReaches, NEW st, Switched(st)
  PROVE  /\ \A p \in Pid : Contends(state', p) => Contends(st, p)
         /\ \A p \in Pid : state'[p] = "SLEEPING" => st[p] = "SLEEPING"
         /\ current' = 1 => \A p \in Pid : Contends(state', p) => st[p] = "SLEEPING"
  BY DEF Switched, Contends, CanRun

\* A native program or an ELF binary starts a child: the child takes the turn.
LEMMA SpawnTurns ==
  ASSUME ScanReaches, TableInv, CurrentRuns, TurnInv,
         NEW program \in Programs, Spawning(program)
  PROVE  /\ \A p, q \in Pid : Contends(state', p) /\ Contends(state', q) => p = q
         /\ current' # 1
         /\ \A p \in Pid : state'[p] = "SLEEPING" => state[p] = "SLEEPING"
<1>1. /\ Switched(AfterSpawning)
      /\ current \in Pid /\ current # 1
      /\ next_pid \in Pid /\ next_pid # 1 /\ next_pid # current
      /\ state \in [Pid -> States] /\ state[current] = "RUNNING"
  BY SpawningSwitches DEF TableInv, TypeOK, CurrentRuns
<1>2. \A p \in Pid : AfterSpawning[p] = IF p = current THEN "WAITING"
                                        ELSE IF p = next_pid THEN "READY" ELSE state[p]
  BY <1>1 DEF AfterSpawning
<1>3. \A p \in Pid : Contends(AfterSpawning, p) => p = next_pid
  BY <1>1, <1>2 DEF Contends, TurnInv
<1>4. current' # 1
  BY <1>1, <1>2 DEF Switched, CanRun
<1>5. \A p \in Pid : AfterSpawning[p] = "SLEEPING" => state[p] = "SLEEPING"
  BY <1>2
<1> QED
  BY <1>1, <1>3, <1>4, <1>5, SwitchTurns

\* The process on the CPU dies: at most its parent takes the turn.
LEMMA DeathTurns ==
  ASSUME ScanReaches, TableInv, CurrentRuns, TurnInv, Dies
  PROVE  /\ \A p, q \in Pid : Contends(state', p) /\ Contends(state', q) => p = q
         /\ \A p \in Pid : state'[p] = "SLEEPING" => state[p] = "SLEEPING"
         /\ current' = 1 => \A p \in Pid : Contends(state', p) => state[p] = "SLEEPING"
<1>1. /\ Switched(AfterDying)
      /\ current \in Pid /\ current # 1
      /\ state \in [Pid -> States] /\ state[current] = "RUNNING"
  BY DyingSwitches DEF TableInv, TypeOK, CurrentRuns
<1>2. \A p \in Pid :
        AfterDying[p] = IF p = current THEN "TERMINATED"
                        ELSE IF p = parent_id[current] /\ state[p] = "WAITING"
                        THEN "READY" ELSE state[p]
  BY <1>1 DEF AfterDying, WakeParent
<1>3. \A p \in Pid : Contends(AfterDying, p) => p = parent_id[current]
  BY <1>1, <1>2 DEF Contends, TurnInv
<1>4. \A p \in Pid : AfterDying[p] = "SLEEPING" => state[p] = "SLEEPING"
  BY <1>2
<1> QED
  BY <1>1, <1>3, <1>4, SwitchTurns

\* The process on the CPU is switched away: nobody else joins.
LEMMA LeaveTurns ==
  ASSUME ScanReaches, TableInv, CurrentRuns, TurnInv,
         NEW s \in States, Leaving(s)
  PROVE  /\ \A p, q \in Pid : Contends(state', p) /\ Contends(state', q) => p = q
         /\ kpc # "idle" => \A p \in Pid : state'[p] # "SLEEPING"
         /\ current' = 1 /\ kpc # "idle" => \A p \in Pid : ~Contends(state', p)
<1>1. /\ Switched(AfterLeaving(s))
      /\ current \in Pid /\ state \in [Pid -> States] /\ state[current] = "RUNNING"
      /\ s = "SLEEPING" => prog[current] = "shell"
  BY LeavingSwitches DEF TableInv, TypeOK, CurrentRuns, Leaving
<1>2. \A p \in Pid : AfterLeaving(s)[p] = IF p = current THEN s ELSE state[p]
  BY <1>1 DEF AfterLeaving
<1>3. \A p \in Pid : Contends(AfterLeaving(s), p) => Contends(state, p)
  BY <1>1, <1>2 DEF Contends
<1>4. kpc # "idle" => \A p \in Pid : AfterLeaving(s)[p] # "SLEEPING"
  BY <1>1, <1>2 DEF TurnInv
<1> QED
  BY <1>1, <1>3, <1>4, SwitchTurns DEF TurnInv

\* kmain's own steps.
LEMMA KernelTurns ==
  ASSUME ScanReaches, TableInv, CurrentRuns, TurnInv, KernelStep
  PROVE  TurnInv'
<1>1. CASE KernelMissesRunner \/ KernelClearsMarker
  BY <1>1 DEF KernelMissesRunner, KernelClearsMarker, procVars, TurnInv, AtWork
<1>2. CASE KernelYields
  <2>1. Leaving("RUNNING")
    <3>1. [state EXCEPT ![current] = "RUNNING"] = state
      BY DEF CurrentRuns, TableInv, TypeOK
    <3> QED
      BY <1>2, <3>1 DEF KernelYields, Leaving, procVars
  <2>2. kpc = "yield" /\ UNCHANGED prog
    BY <1>2 DEF KernelYields, procVars
  <2>3. "RUNNING" \in States
    BY DEF States
  <2> QED
    BY <2>1, <2>2, <2>3, LeaveTurns DEF TurnInv
<1>3. ASSUME NEW program \in {"shell", "runtests"}, NEW pc \in {"idle", "yield"},
             current = 1, kpc \in {"load", "sweep"}, Starts(program, pc),
             program = "shell" => pc = "idle"
      PROVE  TurnInv'
  <2>1. CASE task_create_fails /\ UNCHANGED state
    BY <1>3, <2>1 DEF task_create_fails, Starts, TurnInv, AtWork
  <2>2. CASE task_create(0, program) /\ state' = [state EXCEPT ![next_pid] = "READY"]
    <3>1. next_pid \in Pid /\ state \in [Pid -> States] /\ prog \in [Pid -> Programs]
      BY <2>2 DEF task_create, TableInv, TypeOK, Pid
    <3>2. \A p \in Pid : ~Contends(state, p)
      BY <1>3 DEF TurnInv, AtWork
    <3>3. \A p \in Pid : Contends(state', p) => p = next_pid
      BY <2>2, <3>1, <3>2 DEF Contends
    <3>4. \A p \in Pid : state'[p] = "SLEEPING" => state[p] = "SLEEPING"
      BY <2>2, <3>1
    <3>5. pc # "idle" => \A p \in Pid : prog'[p] # "shell"
      BY <1>3, <2>2, <3>1 DEF task_create, TurnInv
    <3>6. kpc' = pc /\ pc \in {"idle", "yield"} /\ kpc # "idle"
      BY <1>3 DEF Starts
    <3> QED
      BY <3>3, <3>4, <3>5, <3>6 DEF TurnInv, AtWork
  <2> QED
    BY <1>3, <2>1, <2>2 DEF Starts
<1> QED
  BY <1>1, <1>2, <1>3 DEF KernelStep, KernelStartsShell, KernelStartsRunner

LEMMA TurnNext ==
  TableInv /\ CurrentRuns /\ ScanReaches /\ ~Abandoning /\ TurnInv /\ [Next]_vars
    => TurnInv'
<1> SUFFICES ASSUME TableInv, CurrentRuns, ScanReaches, ~Abandoning, TurnInv,
                    [Next]_vars, ~KernelStep
             PROVE  TurnInv'
  BY KernelTurns
<1>1. /\ kpc' = kpc
      /\ current = 1 => next_pid' = next_pid
      /\ \A program \in Programs :
           Spawning(program) =>
             \/ \A p \in Pid : prog'[p] = "shell" => prog[p] = "shell"
             \/ prog[current] = "shell"
  BY KmainAlone
<1>2. CASE Quiet
  BY <1>1, <1>2 DEF Quiet, TurnInv, AtWork
<1>3. CASE keyboard_handler
  <2>1. \A p \in Pid : state'[p] = IF state[p] = "SLEEPING" THEN "READY" ELSE state[p]
    BY <1>3 DEF keyboard_handler
  <2>2. \A p \in Pid : Contends(state', p) <=> Contends(state, p)
    BY <2>1 DEF Contends
  <2> QED
    BY <1>1, <1>3, <2>1, <2>2 DEF keyboard_handler, procVars, TurnInv, AtWork
<1>4. ASSUME NEW s \in States, Leaving(s) PROVE TurnInv'
  <2>1. UNCHANGED prog
    BY <1>4 DEF Leaving
  <2> QED
    BY <1>1, <1>4, <2>1, LeaveTurns DEF TurnInv, AtWork
<1>5. CASE Dies
  <2>1. UNCHANGED prog
    BY <1>5 DEF Dies, procVars
  <2>2. AtWork => kpc # "idle"
    BY DEF AtWork
  <2> QED
    BY <1>1, <1>5, <2>1, <2>2, DeathTurns DEF TurnInv, AtWork
<1>6. ASSUME NEW program \in Programs, Spawning(program) PROVE TurnInv'
  <2>1. current \in Pid
    BY DEF TableInv, TypeOK
  <2>2. kpc # "idle" => \A p \in Pid : prog'[p] # "shell"
    BY <1>1, <1>6, <2>1 DEF TurnInv
  <2> QED
    BY <1>1, <1>6, <2>2, SpawnTurns DEF TurnInv
<1>7. ~\E program \in Native : Starting(program)
  <2>1. next_pid # next_pid + 1
    BY DEF TableInv, TypeOK
  <2> QED
    BY <1>1, <2>1 DEF Starting, task_create
<1> QED
  BY <1>2, <1>3, <1>4, <1>5, <1>6, <1>7, StepKinds DEF Kind

\* Once freed memory is linked the process on the CPU keeps it: every walk of
\* the list is undefined from then on.
LEMMA StuckStays ==
  TableInv /\ CurrentRuns /\ ~NoFreedNodeLinked /\ [Next]_vars
    => ~NoFreedNodeLinked' /\ current' = current
<1> SUFFICES ASSUME TableInv, CurrentRuns, ~NoFreedNodeLinked, [Next]_vars
             PROVE  ~NoFreedNodeLinked' /\ current' = current
  OBVIOUS
<1>1. PICK p : p \in freed /\ Linked(ring, p)
  BY DEF NoFreedNodeLinked, Linked
<1>2. p \in Pid /\ RingOK(ring, next_pid)
  BY <1>1 DEF TableInv, TypeOK
<1>3. p \in freed' /\ Linked(ring', p)
  <2>1. CASE Abandoning
    <3>1. next_pid \in Pid
      BY <2>1 DEF Abandoning, elf_load_abandons, TableInv, TypeOK, Pid
    <3> QED
      BY <1>1, <1>2, <2>1, <3>1, InsertKeeps DEF Abandoning, elf_load_abandons
  <2>2. ASSUME NEW parent, NEW program, task_create(parent, program)
        PROVE  p \in freed' /\ Linked(ring', p)
    <3>1. next_pid \in Pid
      BY <2>2 DEF task_create, TableInv, TypeOK, Pid
    <3> QED
      BY <1>1, <1>2, <2>2, <3>1, InsertKeeps DEF task_create
  <2>3. CASE ~Abandoning
    BY <1>1, <2>2, <2>3, ListSteps
  <2> QED
    BY <2>1, <2>3
<1>4. ~NoFreedNodeLinked'
  BY <1>3 DEF NoFreedNodeLinked, Linked
<1>5. ~WalkDefined(ring) /\ ~WalkDefined(ring')
  BY <1>1, <1>3 DEF WalkDefined, Linked
<1>6. current' = current
  BY <1>5, StepKinds
  DEF Kind, Quiet, Starting, Abandoning, keyboard_handler, Leaving, Dies, Spawning,
      task_switch
<1> QED
  BY <1>4, <1>6

\* Only a process other than kmain abandons one.
LEMMA AbandonedByOthers ==
  TableInv /\ FreedInv /\ Abandoning /\ [Next]_vars => current # 1 /\ ~NoFreedNodeLinked'
<1> SUFFICES ASSUME TableInv, FreedInv, Abandoning, [Next]_vars
             PROVE  current # 1 /\ ~NoFreedNodeLinked'
  OBVIOUS
<1>1. /\ next_pid \in Pid /\ next_pid' = next_pid + 1 /\ next_pid \in freed'
      /\ next_pid \notin freed /\ ring' = InsertAfterHead(ring, next_pid)
  BY DEF Abandoning, elf_load_abandons, TableInv, TypeOK, Pid, FreedInv
<1>2. ~KernelStep
  BY <1>1 DEF KernelStep, KernelStartsShell, KernelStartsRunner, KernelMissesRunner,
              KernelYields, KernelClearsMarker, Starts, task_create, task_create_fails,
              procVars
<1>3. current # 1
  BY <1>1, <1>2, KmainAlone DEF Pid
<1>4. Linked(ring', next_pid)
  BY <1>1, InsertKeeps DEF TableInv
<1> QED
  BY <1>1, <1>3, <1>4 DEF NoFreedNodeLinked, Linked

\* Either the list is sound and everybody takes turns, or freed memory is
\* linked and kmain never has the CPU again.
WalkInv == \/ FreedInv /\ TurnInv
           \/ ~NoFreedNodeLinked /\ current # 1

LEMMA WalkInvariant == ScanReaches => (Spec => []WalkInv)
<1> SUFFICES ASSUME ScanReaches PROVE Spec => []WalkInv
  OBVIOUS
<1>1. Init => WalkInv
  BY DEF Init, WalkInv, FreedInv, NoFreedNodeLinked, TurnInv, Contends, AtWork
<1>2. TableInv /\ CurrentRuns /\ WalkInv /\ [Next]_vars => WalkInv'
  <2> SUFFICES ASSUME TableInv, CurrentRuns, WalkInv, [Next]_vars PROVE WalkInv'
    OBVIOUS
  <2>1. CASE ~NoFreedNodeLinked /\ current # 1
    BY <2>1, StuckStays DEF WalkInv
  <2>2. CASE FreedInv /\ TurnInv /\ ~Abandoning
    BY <2>2, FreedNext, TurnNext DEF WalkInv
  <2>3. CASE FreedInv /\ TurnInv /\ Abandoning
    BY <2>3, AbandonedByOthers DEF WalkInv, Abandoning
  <2> QED
    BY <2>1, <2>2, <2>3 DEF WalkInv
<1> QED
  BY <1>1, <1>2, RunningInvariant, PTL DEF Spec

\* Besides the kernel's there is never more than one process that could use
\* the CPU, whatever interrupts, faults and failures happen, except the one
\* that a failed load leaves linked and freed.
THEOREM TakingTurns == ScanReaches => (Spec => []OneAtATime)
<1>1. WalkInv => OneAtATime
  BY DEF WalkInv, TurnInv, OneAtATime, Contends
<1> QED
  BY <1>1, WalkInvariant, PTL

\* While kmain does work of its own nothing can take the CPU from it.
THEOREM KmainAtPeace == ScanReaches => (Spec => []KmainUndisturbed)
<1>1. TableInv /\ WalkInv => KmainUndisturbed
  BY DEF WalkInv, TurnInv, KmainUndisturbed, Contends, AtWork, TableInv, TypeOK, States
<1> QED
  BY <1>1, WalkInvariant, RunningInvariant, PTL

-----------------------------------------------------------------------------
(***************************************************************************)
(* One tick is enough.                                                     *)
(***************************************************************************)

\* The tick gives the CPU to whoever can use it, at once: what NoStarvation
\* needs besides the fairness of the timer, which is for TLC. (task.c:154-179)
THEOREM TickServes ==
  ScanReaches =>
    (Spec => [][timer_callback =>
                  \A p \in Pid \ {1} : CanRun(state, p) => current' = p]_vars)
<1> SUFFICES ASSUME ScanReaches
             PROVE  Spec => [][timer_callback =>
                       \A p \in Pid \ {1} : CanRun(state, p) => current' = p]_vars
  OBVIOUS
<1> DEFINE Serves == timer_callback =>
                       \A p \in Pid \ {1} : CanRun(state, p) => current' = p
<1>1. ASSUME TableInv, CurrentRuns, WalkInv PROVE Serves
  <2> SUFFICES ASSUME timer_callback, NEW p \in Pid \ {1}, CanRun(state, p)
               PROVE  current' = p
    OBVIOUS
  <2>1. task_switch(state, ring)
    BY DEF timer_callback
  <2>2. NoFreedNodeLinked
    BY <2>1 DEF task_switch, WalkDefined, NoFreedNodeLinked
  <2>3. \A q \in Pid : Contends(state, q) => q = p
    BY <1>1, <2>2 DEF WalkInv, TurnInv, Contends, CanRun
  <2>4. Switched(state)
    <3>1. /\ state \in [Pid -> States] /\ Holds(ring, state) /\ state[1] = "RUNNING"
          /\ next_pid \in 1..(MaxPid + 1) /\ RingOK(ring, next_pid)
      BY <1>1 DEF TableInv, TypeOK
    <3> QED
      BY <2>1, <3>1, SwitchedBy
  <2>5. current' \in Pid /\ current' # 1 /\ CanRun(state, current')
    BY <2>4 DEF Switched
  <2> QED
    BY <2>3, <2>5 DEF Contends, CanRun
<1> HIDE DEF Serves
<1>2. TableInv /\ CurrentRuns /\ WalkInv => [Serves]_vars
  BY <1>1
<1>3. Spec => [][Serves]_vars
  BY <1>2, RunningInvariant, WalkInvariant, PTL
<1> QED
  BY <1>3 DEF Serves

-----------------------------------------------------------------------------
(***************************************************************************)
(* Births: which steps begin a program and where it is loaded.             *)
(***************************************************************************)
\* Only a birth brings to life, and who waits is not killed.
LEMMA LifeSteps ==
  ASSUME TableInv, CurrentRuns, ScanReaches, [Next]_vars, NEW p \in Pid
  PROVE  /\ p # next_pid /\ Live(state', p) => Live(state, p)
         /\ state[p] = "WAITING" => Live(state', p)
<1>1. ASSUME NEW st, Switched(st)
      PROVE  \/ state'[p] = st[p]
             \/ CanRun(st, p) /\ state'[p] = "RUNNING"
  <2>1. /\ st \in [Pid -> States] /\ current' \in Pid /\ CanRun(st, current')
        /\ state' = [st EXCEPT ![current'] = "RUNNING"]
    BY <1>1 DEF Switched
  <2> QED
    BY <2>1
<1>2. /\ state \in [Pid -> States] /\ current \in Pid /\ state[current] = "RUNNING"
      /\ next_pid \in Pid => state[next_pid] = "UNUSED"
  BY NextPidUnused DEF TableInv, TypeOK, CurrentRuns
<1>3. CASE Quiet
  BY <1>3 DEF Quiet, Live
<1>4. CASE (\E program \in Native : Starting(program)) \/ Abandoning
  <2>1. next_pid \in Pid
    BY <1>4 DEF Starting, Abandoning, elf_load_abandons, task_create, TableInv,
                TypeOK, Pid
  <2>2. state' = [state EXCEPT ![next_pid] = "READY"]
    BY <1>4 DEF Starting, Abandoning, elf_load_abandons
  <2> QED
    BY <1>2, <2>1, <2>2 DEF Live
<1>5. CASE keyboard_handler
  BY <1>5 DEF keyboard_handler, Live
<1>6. ASSUME NEW s \in States, Leaving(s)
      PROVE  (Live(state', p) => Live(state, p)) /\ (state[p] = "WAITING" => Live(state', p))
  <2>1. AfterLeaving(s)[p] = IF p = current THEN s ELSE state[p]
    BY <1>2 DEF AfterLeaving
  <2> QED
    BY <1>1, <1>2, <1>6, <2>1, LeavingSwitches DEF CanRun, Live
<1>7. CASE Dies
  <2>1. AfterDying[p] = IF p = current THEN "TERMINATED"
                        ELSE IF p = parent_id[current] /\ state[p] = "WAITING"
                        THEN "READY" ELSE state[p]
    BY <1>2 DEF AfterDying, WakeParent
  <2> QED
    BY <1>1, <1>2, <1>7, <2>1, DyingSwitches DEF CanRun, Live
<1>8. ASSUME NEW program \in Programs, Spawning(program)
      PROVE  /\ p # next_pid /\ Live(state', p) => Live(state, p)
             /\ state[p] = "WAITING" => Live(state', p)
  <2>1. next_pid \in Pid /\ Switched(AfterSpawning)
    BY <1>8, SpawningSwitches
  <2>2. AfterSpawning[p] = IF p = current THEN "WAITING"
                           ELSE IF p = next_pid THEN "READY" ELSE state[p]
    BY <1>2, <2>1 DEF AfterSpawning
  <2> QED
    BY <1>1, <1>2, <2>1, <2>2 DEF CanRun, Live
<1> QED
  BY <1>3, <1>4, <1>5, <1>6, <1>7, <1>8, StepKinds DEF Kind

\* A step that leaves the images alone starts no native program.
BirthOfElf ==
  /\ next_pid \in Pid
  /\ next_pid' = next_pid + 1
  /\ prog' = [prog EXCEPT ![next_pid] = "elf"]
  /\ \/ UNCHANGED parent_id
     \/ /\ prog[current] \in {"shell", "runtests"}
        /\ parent_id' = [parent_id EXCEPT ![next_pid] = current]

LeavesImages ==
  /\ UNCHANGED image
  /\ \/ UNCHANGED kpc
     \/ kpc \in {"sweep", "yield", "clear"} /\ kpc' \in {"clear", "load"}
  /\ \/ UNCHANGED <<parent_id, prog>> /\ next_pid' \in {next_pid, next_pid + 1}
     \/ BirthOfElf

LEMMA ImageSteps ==
  ASSUME TableInv, [Next]_vars
  PROVE  \/ LeavesImages
         \/ KernelStartsShell \/ KernelStartsRunner
         \/ \E program \in Native : Exec(program) \/ ExecNoMemory(program)
<1> USE DEF LeavesImages, procVars
<1>0. /\ parent_id \in [Pid -> 0..MaxPid] /\ prog \in [Pid -> Programs]
      /\ next_pid \in 1..(MaxPid + 1)
  BY DEF TableInv, TypeOK
<1>1. prog[current] \in {"shell", "runtests"} /\ task_create(current, "elf") => BirthOfElf
  BY <1>0 DEF task_create, BirthOfElf, Pid
<1>2. elf_load_abandons => BirthOfElf
  BY <1>0 DEF elf_load_abandons, BirthOfElf, Pid
<1>3. task_create_fails =>
        UNCHANGED <<parent_id, prog>> /\ next_pid' \in {next_pid, next_pid + 1}
  BY DEF task_create_fails
<1>4. CASE KernelStep
  BY <1>4 DEF KernelStep, KernelMissesRunner, KernelYields, KernelClearsMarker
<1>5. CASE timer_callback \/ keyboard_handler \/ SysExit \/ LinuxExit \/ isr_handler
  BY <1>5, EndsDie DEF timer_callback, keyboard_handler, Dies
<1>6. CASE ReadTakesKey \/ ReadFindsNothing
  BY <1>6 DEF ReadTakesKey, ReadFindsNothing
<1>7. CASE NativeStep
  BY <1>1, <1>2, <1>3, <1>7 DEF NativeStep, ExecNotFound, ExecElf, ExecElfFails,
     ReadSleeps, FlushKb, Yields, KbEnable
<1>8. CASE LinuxStep
  BY <1>2, <1>3, <1>8 DEF LinuxStep, WaitPidReturns, WaitPidBlocks, Execve, ExecveFails
<1>9. CASE UNCHANGED vars
  BY <1>9 DEF vars
<1> QED
  BY <1>4, <1>5, <1>6, <1>7, <1>8, <1>9 DEF Next

-----------------------------------------------------------------------------
(***************************************************************************)
(* The sweep of a TEST boot.                                               *)
(***************************************************************************)

\* Whoever runs a program is in use.
UsedInv == \A p \in Pid : prog[p] # "none" => state[p] # "UNUSED"

LEMMA UsedStays ==
  ASSUME UsedInv, UNCHANGED prog,
         \A p \in Pid : state'[p] = "UNUSED" => state[p] = "UNUSED"
  PROVE  UsedInv'
  BY DEF UsedInv

LEMMA UsedNext ==
  TableInv /\ CurrentRuns /\ ScanReaches /\ UsedInv /\ [Next]_vars => UsedInv'
<1> SUFFICES ASSUME TableInv, CurrentRuns, ScanReaches, UsedInv, [Next]_vars
             PROVE  UsedInv'
  OBVIOUS
<1>1. /\ state \in [Pid -> States] /\ current \in Pid /\ state[current] = "RUNNING"
      /\ prog \in [Pid -> Programs]
  BY DEF TableInv, TypeOK, CurrentRuns
<1>2. \A st : Switched(st) =>
        \A p \in Pid : state'[p] = st[p] \/ (CanRun(st, p) /\ state'[p] = "RUNNING")
  BY DEF Switched
<1>3. CASE Quiet
  BY <1>3, UsedStays DEF Quiet
<1>4. CASE keyboard_handler
  BY <1>4, UsedStays DEF keyboard_handler, procVars
<1>5. CASE (\E program \in Native : Starting(program)) \/ Abandoning
  <2>1. /\ next_pid \in Pid /\ state' = [state EXCEPT ![next_pid] = "READY"]
        /\ \E program \in Programs : prog' = [prog EXCEPT ![next_pid] = program]
    <3>1. CASE Abandoning
      <4>1. /\ next_pid \in Pid /\ state' = [state EXCEPT ![next_pid] = "READY"]
            /\ prog' = [prog EXCEPT ![next_pid] = "elf"]
        BY <3>1 DEF Abandoning, elf_load_abandons, TableInv, TypeOK, Pid
      <4> QED
        BY <4>1 DEF Programs
    <3>2. ASSUME NEW program \in Native, Starting(program)
          PROVE  /\ next_pid \in Pid /\ state' = [state EXCEPT ![next_pid] = "READY"]
                 /\ program \in Programs /\ prog' = [prog EXCEPT ![next_pid] = program]
      BY <3>2 DEF Starting, task_create, TableInv, TypeOK, Pid, Programs
    <3> QED
      BY <1>5, <3>1, <3>2
  <2> QED
    BY <1>1, <2>1 DEF UsedInv
<1>6. ASSUME NEW s \in States, Leaving(s) PROVE UsedInv'
  <2>1. /\ Switched(AfterLeaving(s)) /\ UNCHANGED prog /\ s # "UNUSED"
    BY <1>6, LeavingSwitches DEF Leaving
  <2>2. \A p \in Pid : AfterLeaving(s)[p] = IF p = current THEN s ELSE state[p]
    BY <1>1 DEF AfterLeaving
  <2> QED
    BY <1>2, <2>1, <2>2, UsedStays
<1>7. CASE Dies
  <2>1. Switched(AfterDying) /\ UNCHANGED prog
    BY <1>7, DyingSwitches
  <2>2. \A p \in Pid :
          AfterDying[p] = IF p = current THEN "TERMINATED"
                          ELSE IF p = parent_id[current] /\ state[p] = "WAITING"
                          THEN "READY" ELSE state[p]
    BY <1>1 DEF AfterDying, WakeParent
  <2> QED
    BY <1>2, <2>1, <2>2, UsedStays
<1>8. ASSUME NEW program \in Programs, Spawning(program) PROVE UsedInv'
  <2>1. /\ Switched(AfterSpawning) /\ next_pid \in Pid /\ next_pid # current
        /\ prog' = [prog EXCEPT ![next_pid] = program]
    BY <1>8, SpawningSwitches DEF Spawning, task_create
  <2>2. \A p \in Pid : AfterSpawning[p] = IF p = current THEN "WAITING"
                                          ELSE IF p = next_pid THEN "READY" ELSE state[p]
    BY <1>1, <2>1 DEF AfterSpawning
  <2> QED
    BY <1>1, <1>2, <2>1, <2>2 DEF UsedInv
<1> QED
  BY <1>3, <1>4, <1>5, <1>6, <1>7, <1>8, StepKinds DEF Kind

\* Only shells and runners have children, and before kmain is idle there is no
\* shell and no runner but its own.
SweepInv ==
  \A p \in Pid :
    /\ parent_id[p] # 0 => /\ prog[p] \in Native \cup {"elf"}
                           /\ prog[parent_id[p]] \in {"shell", "runtests"}
    /\ kpc # "idle" => /\ prog[p] # "shell"
                       /\ prog[p] = "runtests" => parent_id[p] = 0

\* A process begins to run a program; all others stay what they were.
LEMMA SweepGains ==
  ASSUME TableInv, UsedInv, SweepInv, next_pid \in Pid,
         NEW program \in Native \cup {"elf"}, NEW par \in 0..MaxPid,
         prog' = [prog EXCEPT ![next_pid] = program],
         parent_id' = [parent_id EXCEPT ![next_pid] = par],
         par # 0 => par # next_pid /\ prog[par] \in {"shell", "runtests"},
         kpc' # "idle" => /\ kpc # "idle" /\ program # "shell"
                          /\ program = "runtests" => par = 0
  PROVE  SweepInv'
<1>1. prog[next_pid] = "none" /\ parent_id[next_pid] = 0
  BY NextPidUnused DEF UsedInv, SweepInv, TableInv, Native
<1>2. prog \in [Pid -> Programs] /\ parent_id \in [Pid -> 0..MaxPid]
  BY DEF TableInv, TypeOK
<1>3. \A p \in Pid \ {next_pid} :
        /\ prog'[p] = prog[p] /\ parent_id'[p] = parent_id[p]
        /\ parent_id[p] # 0 => /\ parent_id[p] \in Pid \ {next_pid}
                               /\ prog'[parent_id[p]] = prog[parent_id[p]]
  <2> SUFFICES ASSUME NEW p \in Pid \ {next_pid}, parent_id[p] # 0
               PROVE  /\ parent_id[p] \in Pid \ {next_pid}
                      /\ prog'[parent_id[p]] = prog[parent_id[p]]
    BY <1>2
  <2>1. parent_id[p] \in Pid
    BY <1>2, ConstantsOK DEF Pid, ConstantsOK
  <2>2. parent_id[p] # next_pid
    BY <1>1 DEF SweepInv
  <2> QED
    BY <1>2, <2>1, <2>2
<1>4. /\ prog'[next_pid] = program /\ parent_id'[next_pid] = par
      /\ par # 0 => par \in Pid /\ prog'[par] = prog[par]
  BY <1>2, ConstantsOK DEF Pid, ConstantsOK
<1> QED
  BY <1>3, <1>4 DEF SweepInv

LEMMA SweepNext ==
  TableInv /\ CurrentRuns /\ UsedInv /\ SweepInv /\ [Next]_vars => SweepInv'
<1> SUFFICES ASSUME TableInv, CurrentRuns, UsedInv, SweepInv, [Next]_vars
             PROVE  SweepInv'
  OBVIOUS
<1>1. /\ current \in Pid /\ current \in 0..MaxPid /\ current # 0 /\ 0 \in 0..MaxPid
      /\ parent_id \in [Pid -> 0..MaxPid]
  BY ConstantsOK DEF TableInv, TypeOK, Pid, ConstantsOK
<1>2. \A parent, program :
        task_create(parent, program) =>
          /\ next_pid \in Pid /\ next_pid # current
          /\ prog' = [prog EXCEPT ![next_pid] = program]
          /\ parent_id' = [parent_id EXCEPT ![next_pid] = parent]
  <2>1. next_pid <= MaxPid => next_pid \in Pid
    BY DEF TableInv, TypeOK, Pid
  <2> QED
    BY <2>1, NextPidUnused DEF task_create
<1>3. ASSUME LeavesImages PROVE SweepInv'
  <2>1. kpc' # "idle" => kpc # "idle"
    BY <1>3 DEF LeavesImages
  <2>2. CASE UNCHANGED <<parent_id, prog>>
    BY <2>1, <2>2 DEF SweepInv
  <2>3. CASE BirthOfElf
    <3>1. PICK par \in 0..MaxPid :
            /\ parent_id' = [parent_id EXCEPT ![next_pid] = par]
            /\ par # 0 => par # next_pid /\ prog[par] \in {"shell", "runtests"}
      <4>1. CASE UNCHANGED parent_id
        <5>1. prog[next_pid] = "none"
          BY <2>3, NextPidUnused DEF BirthOfElf, UsedInv
        <5>2. parent_id[next_pid] = 0
          BY <2>3, <5>1 DEF BirthOfElf, SweepInv, Native
        <5>3. parent_id' = [parent_id EXCEPT ![next_pid] = 0]
          BY <1>1, <4>1, <5>2
        <5> QED
          BY <1>1, <5>3
      <4>2. CASE ~UNCHANGED parent_id
        BY <1>1, <2>3, <4>2, NextPidUnused DEF BirthOfElf
      <4> QED
        BY <4>1, <4>2
    <3> QED
      BY <2>1, <2>3, <3>1, SweepGains DEF BirthOfElf
  <2> QED
    BY <1>3, <2>2, <2>3 DEF LeavesImages
<1>4. ASSUME NEW program \in {"shell", "runtests"}, NEW pc \in {"idle", "yield"},
             Starts(program, pc), kpc # "idle", program = "shell" => pc = "idle"
      PROVE  SweepInv'
  <2>1. CASE task_create(0, program)
    BY <1>1, <1>2, <1>4, <2>1, SweepGains DEF Starts, Native
  <2>2. CASE task_create_fails
    BY <1>4, <2>2 DEF task_create_fails, SweepInv
  <2> QED
    BY <1>4, <2>1, <2>2 DEF Starts
<1>5. ASSUME NEW program \in Native, Exec(program) PROVE SweepInv'
  <2>1. /\ prog[current] \in {"shell", "runtests"}
        /\ prog[current] = "runtests" => program = "cmd"
        /\ kpc' = kpc
    BY <1>5 DEF Exec, Runs
  <2>2. kpc # "idle" => program = "cmd"
    BY <1>1, <2>1 DEF SweepInv
  <2> QED
    BY <1>1, <1>2, <1>5, <2>1, <2>2, SweepGains DEF Exec
<1>6. ASSUME NEW program \in Native, ExecNoMemory(program) PROVE SweepInv'
  BY <1>6 DEF ExecNoMemory, task_create_fails, SweepInv
<1> QED
  BY <1>3, <1>4, <1>5, <1>6, ImageSteps DEF KernelStartsShell, KernelStartsRunner

LEMMA SweepInvariant == ScanReaches => (Spec => [](UsedInv /\ SweepInv))
<1> SUFFICES ASSUME ScanReaches PROVE Spec => [](UsedInv /\ SweepInv)
  OBVIOUS
<1>1. Init => UsedInv /\ SweepInv
  BY DEF Init, UsedInv, SweepInv, Native, Pid
<1>2. TableInv /\ CurrentRuns /\ UsedInv /\ SweepInv /\ [Next]_vars
        => UsedInv' /\ SweepInv'
  BY UsedNext, SweepNext
<1> QED
  BY <1>1, <1>2, RunningInvariant, PTL DEF Spec

\* No native program lives while kmain works: one would wait for a child that
\* waits too, and that can only be an ELF binary below kmain's own runner.
LEMMA NobodyNative ==
  ASSUME TableInv, UsedInv, SweepInv, ParkedWhileChildLives, KmainUndisturbed,
         ~SweepHangs, current = 1, kpc \in {"clear", "load"}
  PROVE  \A p \in Pid : prog[p] \in Native => state[p] = "TERMINATED"
<1>1. ASSUME NEW p \in Pid, prog[p] \in Native \cup {"elf"}
      PROVE  p # 1 /\ state[p] \in {"WAITING", "TERMINATED"}
  BY <1>1 DEF UsedInv, KmainUndisturbed, TableInv, Native
<1>2. ASSUME NEW p \in Pid, prog[p] \in Native, state[p] = "WAITING"
      PROVE  \E c \in Pid : parent_id[c] = p /\ state[c] = "WAITING"
  <2>1. PICK c \in Pid : Live(state, c) /\ parent_id[c] = p
    BY <1>2 DEF ParkedWhileChildLives, Live
  <2>2. prog[c] \in Native \cup {"elf"}
    BY <2>1 DEF SweepInv, Pid
  <2> QED
    BY <1>1, <2>1, <2>2 DEF Live
<1>3. \A p, c \in Pid : parent_id[c] = p => prog[p] = "runtests" /\ parent_id[p] = 0
  BY DEF SweepInv, Pid
<1>4. ASSUME NEW p \in Pid, prog[p] \in Native, state[p] = "WAITING" PROVE FALSE
  <2>1. PICK c \in Pid : parent_id[c] = p /\ state[c] = "WAITING"
    BY <1>2, <1>4
  <2>2. prog[p] = "runtests" /\ parent_id[p] = 0
    BY <1>3, <2>1
  <2>3. prog[c] \in Native
    BY <1>4, <2>1, <2>2 DEF SweepHangs, SweepInv, Pid
  <2>4. PICK d \in Pid : parent_id[d] = c
    BY <1>2, <2>1, <2>3
  <2> QED
    BY <1>3, <2>1, <2>4 DEF Pid
<1> QED
  BY <1>1, <1>4

\* When kmain goes on after its yield in a TEST boot the sweep is done, unless
\* it hangs: then an ELF binary waits for a child it does not have.
THEOREM SweepIsDone == ScanReaches => (Spec => []SweepIsOver)
<1> SUFFICES ASSUME ScanReaches PROVE Spec => []SweepIsOver
  OBVIOUS
<1>1. TableInv /\ UsedInv /\ SweepInv /\ ParkedWhileChildLives /\ KmainUndisturbed
        => SweepIsOver
  BY NobodyNative DEF SweepIsOver, Native
<1> QED
  BY <1>1, SweepInvariant, RunningInvariant, ParkedCorrect, KmainAtPeace, PTL

\* A sweep that hangs does so for ever: the ELF binary has no child whose death
\* could wake it, and the runner no other.
LEMMA HangsStays ==
  ASSUME TableInv, CurrentRuns, ScanReaches, UsedInv, SweepInv, ParkedWhileChildLives,
         SweepHangs, [Next]_vars
  PROVE  SweepHangs'
<1>1. PICK p, c \in Pid :
        /\ prog[p] = "runtests" /\ parent_id[p] = 0 /\ state[p] = "WAITING"
        /\ prog[c] = "elf" /\ parent_id[c] = p /\ state[c] = "WAITING"
  BY DEF SweepHangs
<1>2. state'[c] = "WAITING"
  <2>1. \A d \in Pid : parent_id[d] # c
    BY <1>1 DEF SweepInv, Pid
  <2> QED
    BY <1>1, <2>1, EarnedNext DEF Earned
<1>3. state'[p] = "WAITING"
  <2>1. \A d \in Pid : Live(state, d) /\ parent_id[d] = p => d = c
    BY <1>1 DEF ParkedWhileChildLives, Live, Native
  <2> QED
    BY <1>1, <1>2, <2>1, EarnedNext DEF Earned
<1>4. ASSUME NEW q \in Pid, state[q] = "WAITING"
      PROVE  prog'[q] = prog[q] /\ parent_id'[q] = parent_id[q]
  <2>1. q # next_pid
    BY <1>4, NextPidUnused
  <2>2. prog \in [Pid -> Programs] /\ parent_id \in [Pid -> 0..MaxPid]
    BY DEF TableInv, TypeOK
  <2> QED
    BY <1>4, <2>1, <2>2, ImageSteps
    DEF LeavesImages, BirthOfElf, KernelStartsShell, KernelStartsRunner, Starts, Exec,
        ExecNoMemory, task_create, task_create_fails
<1> QED
  BY <1>1, <1>2, <1>3, <1>4 DEF SweepHangs

-----------------------------------------------------------------------------
(***************************************************************************)
(* Load addresses: whose native images may be overwritten.                 *)
(***************************************************************************)
Lodges(p) == prog[p] \in Native /\ Live(state, p)

Vacant == \A p \in Pid : ~Lodges(p)

\* What kmain itself starts: the shell, or the runner of a TEST boot.
Top(p) == prog[p] = "shell" \/ (prog[p] = "runtests" /\ parent_id[p] = 0)

\* Live native programs are a chain: one that kmain started, below a shell a
\* runner or a command, below a runner a command.
Homes ==
  /\ kpc = "sweep" => Vacant
  /\ Mode = "NORMAL" => kpc \in {"load", "idle"} /\ (kpc = "load" => Vacant)
  /\ \A p \in Pid : p >= next_pid => prog[p] \notin Native
  /\ \A p, q \in Pid : Lodges(p) /\ Lodges(q) /\ Top(p) /\ Top(q) => p = q
  /\ \A p \in Pid : Lodges(p) /\ ~Top(p) =>
       /\ parent_id[p] \in Pid
       /\ Lodges(parent_id[p])
       /\ prog[parent_id[p]] # "cmd"
       /\ prog[p] = "runtests" => prog[parent_id[p]] = "shell"

Placed == \A p \in Pid : Lodges(p) => image[Slot(prog[p])] = p

HomeInv == Homes /\ Placed

\* Where nobody runs a program of that name, its load address is free.
LEMMA NobodyLodges ==
  ASSUME TableInv, CurrentRuns, ParkedWhileChildLives, Homes,
         "shell" \notin ShellRuns, ShellRuns \subseteq Native,
         NEW program \in Native, program \in Runs(prog[current])
  PROVE  /\ Lodges(current)
         /\ \A p \in Pid : Lodges(p) => Slot(prog[p]) # Slot(program)
<1>1. current \in Pid /\ state[current] = "RUNNING"
  BY DEF TableInv, TypeOK, CurrentRuns
<1>2. /\ prog[current] \in {"shell", "runtests"}
      /\ program \in {"cmd", "runtests"}
      /\ prog[current] = "runtests" => program = "cmd"
  BY DEF Runs, Native
<1>3. Lodges(current)
  BY <1>1, <1>2 DEF Lodges, Live, Native
<1>4. \A c \in Pid : ~(Lodges(c) /\ parent_id[c] = current)
  BY <1>1, <1>3 DEF ParkedWhileChildLives, Lodges
<1>5. \A p, c, d \in Pid :
        Lodges(p) /\ Lodges(c) /\ Lodges(d) /\ parent_id[c] = p /\ parent_id[d] = p
          => c = d
  BY DEF ParkedWhileChildLives, Lodges
<1>6. ASSUME NEW p \in Pid, Lodges(p) PROVE prog[p] # program
  <2> SUFFICES ASSUME prog[p] = program PROVE FALSE
    OBVIOUS
  <2> DEFINE q == parent_id[p]
             r == parent_id[current]
  <2>1. \A t \in Pid : Lodges(t) /\ Top(t) /\ Top(current) => t = current
    BY <1>1, <1>3 DEF Homes
  <2>2. \A t \in Pid : Lodges(t) /\ prog[t] = "runtests" /\ ~Top(t) =>
          /\ parent_id[t] \in Pid /\ Lodges(parent_id[t])
          /\ prog[parent_id[t]] = "shell" /\ Top(parent_id[t])
    BY DEF Homes, Top
  <2>3. ~Top(p)
    <3> SUFFICES ASSUME Top(p) PROVE FALSE
      OBVIOUS
    <3>1. prog[p] = "runtests" /\ prog[current] = "shell"
      BY <1>2 DEF Top
    <3> QED
      BY <1>6, <2>1, <3>1 DEF Top
  <2>4. /\ q \in Pid /\ Lodges(q) /\ prog[q] \in {"shell", "runtests"}
        /\ q # current
    BY <1>4, <1>6, <2>3 DEF Homes, Lodges, Native
  <2>5. ~Top(current)
    <3> SUFFICES ASSUME Top(current) PROVE FALSE
      OBVIOUS
    <3>1. ~Top(q) /\ prog[q] = "runtests"
      BY <2>1, <2>4 DEF Top
    <3>2. parent_id[q] = current
      BY <2>1, <2>2, <2>4, <3>1
    <3> QED
      BY <1>4, <2>4, <3>2
  <2>6. prog[current] = "runtests" /\ program = "cmd"
    BY <1>2, <2>5 DEF Top
  <2>7. r \in Pid /\ Lodges(r) /\ prog[r] = "shell" /\ Top(r)
    BY <1>1, <1>3, <2>2, <2>5, <2>6
  <2>8. CASE Top(q)
    <3>1. q = r
      BY <2>4, <2>7, <2>8 DEF Homes
    <3>2. p = current
      BY <1>1, <1>3, <1>5, <1>6, <2>4, <3>1
    <3> QED
      BY <2>6, <3>2
  <2>9. CASE ~Top(q)
    <3>1. prog[q] = "runtests"
      BY <2>4, <2>9 DEF Top
    <3>2. parent_id[q] = r
      BY <2>2, <2>4, <2>7, <2>9, <3>1 DEF Homes
    <3>3. q = current
      BY <1>1, <1>3, <1>5, <2>4, <2>7, <3>2
    <3> QED
      BY <2>4, <3>3
  <2> QED
    BY <2>8, <2>9
<1>7. \A a, b \in Native : Slot(a) = Slot(b) => a = b
  BY DEF Slot, Native
<1> QED
  BY <1>3, <1>6, <1>7 DEF Lodges

\* Steps that leave the images alone.
LEMMA HomesStay ==
  ASSUME TableInv, CurrentRuns, ScanReaches, ParkedWhileChildLives, HomeInv, [Next]_vars,
         LeavesImages
  PROVE  HomeInv'
<1>1. /\ next_pid \in Int /\ next_pid' \in {next_pid, next_pid + 1} /\ Pid \subseteq Int
      /\ prog \in [Pid -> Programs]
  BY DEF LeavesImages, BirthOfElf, TableInv, TypeOK, Pid
<1>2. \A p \in Pid :
        /\ prog'[p] \in Native => prog'[p] = prog[p]
        /\ p # next_pid => prog'[p] = prog[p] /\ parent_id'[p] = parent_id[p]
  <2>1. parent_id \in [Pid -> 0..MaxPid]
    BY DEF TableInv, TypeOK
  <2> QED
    BY <1>1, <2>1 DEF LeavesImages, BirthOfElf, Native
<1>3. \A p \in Pid : p >= next_pid => prog[p] \notin Native
  BY DEF HomeInv, Homes
<1>4. \A p \in Pid : Lodges(p)' =>
        /\ Lodges(p) /\ p # next_pid
        /\ prog'[p] = prog[p] /\ parent_id'[p] = parent_id[p]
  <2> SUFFICES ASSUME NEW p \in Pid, Lodges(p)' PROVE Lodges(p) /\ p # next_pid
    BY <1>2
  <2>1. prog[p] \in Native /\ Live(state', p)
    BY <1>2 DEF Lodges
  <2>2. p # next_pid
    BY <1>1, <1>3, <2>1
  <2> QED
    BY <2>1, <2>2, LifeSteps DEF Lodges
<1>5. \A p \in Pid : p >= next_pid' => prog'[p] \notin Native
  <2> SUFFICES ASSUME NEW p \in Pid, p >= next_pid', prog'[p] \in Native PROVE FALSE
    OBVIOUS
  <2>1. p >= next_pid
    BY <1>1
  <2> QED
    BY <1>2, <1>3, <2>1
<1>6. ASSUME NEW p \in Pid, Lodges(p)', ~Top(p)'
      PROVE  /\ parent_id'[p] \in Pid
             /\ Lodges(parent_id[p])'
             /\ prog'[parent_id'[p]] # "cmd"
             /\ prog'[p] = "runtests" => prog'[parent_id'[p]] = "shell"
  <2> DEFINE q == parent_id[p]
  <2>1. /\ Lodges(p) /\ prog'[p] = prog[p] /\ parent_id'[p] = q
    BY <1>4, <1>6
  <2>2. /\ q \in Pid /\ Lodges(q) /\ prog[q] # "cmd"
        /\ prog[p] = "runtests" => prog[q] = "shell"
    BY <1>6, <2>1 DEF HomeInv, Homes, Top
  <2>3. state[q] = "WAITING"
    BY <2>1, <2>2 DEF ParkedWhileChildLives, Lodges
  <2>4. Live(state', q)
    BY <2>2, <2>3, LifeSteps
  <2>5. q # next_pid
    BY <1>1, <1>3, <2>2 DEF Lodges
  <2>6. prog'[q] = prog[q]
    BY <1>2, <2>2, <2>5
  <2> QED
    BY <2>1, <2>2, <2>4, <2>6 DEF Lodges
<1>7. /\ image' = image
      /\ kpc' = kpc \/ (kpc \in {"sweep", "yield", "clear"} /\ kpc' \in {"clear", "load"})
  BY DEF LeavesImages
<1>8. Homes'
  <2>1. Vacant => Vacant'
    BY <1>4 DEF Vacant
  <2>2. kpc' = "sweep" => Vacant'
    BY <1>7, <2>1 DEF HomeInv, Homes
  <2>3. Mode = "NORMAL" => kpc' \in {"load", "idle"} /\ (kpc' = "load" => Vacant')
    BY <1>7, <2>1 DEF HomeInv, Homes
  <2>4. \A p \in Pid : Lodges(p)' /\ Top(p)' => Lodges(p) /\ Top(p)
    BY <1>4 DEF Top
  <2>5. \A p, q \in Pid : Lodges(p)' /\ Lodges(q)' /\ Top(p)' /\ Top(q)' => p = q
    BY <2>4 DEF HomeInv, Homes
  <2> QED
    BY <1>5, <1>6, <2>2, <2>3, <2>5 DEF Homes
<1>9. Placed'
  BY <1>4, <1>7 DEF HomeInv, Placed, Lodges
<1> QED
  BY <1>8, <1>9 DEF HomeInv

\* kmain loads a program while no native program lives.
LEMMA KmainMovesIn ==
  ASSUME TableInv, HomeInv, Vacant, NEW program \in {"shell", "runtests"},
         NEW pc \in {"idle", "yield"}, Starts(program, pc),
         Mode = "NORMAL" => pc = "idle"
  PROVE  HomeInv'
<1>1. /\ \A p \in Pid : ~Lodges(p)
      /\ \A p \in Pid : p >= next_pid => prog[p] \notin Native
      /\ kpc' = pc
  BY DEF Vacant, HomeInv, Homes, Starts
<1>2. /\ prog \in [Pid -> Programs] /\ state \in [Pid -> States]
      /\ parent_id \in [Pid -> 0..MaxPid] /\ image \in [Slots -> 0..MaxPid]
      /\ next_pid \in Int /\ Pid \subseteq Int /\ next_pid >= 1
  BY DEF TableInv, TypeOK, Pid
<1>3. CASE task_create_fails /\ UNCHANGED state
  <2>1. prog' = prog /\ next_pid' \in {next_pid, next_pid + 1}
    BY <1>3 DEF task_create_fails
  <2>2. \A p \in Pid : ~Lodges(p)'
    BY <1>1, <1>3, <2>1 DEF Lodges
  <2>3. \A p \in Pid : p >= next_pid' => prog'[p] \notin Native
    BY <1>1, <1>2, <2>1
  <2> QED
    BY <1>1, <2>2, <2>3 DEF HomeInv, Homes, Placed, Lodges
<1>4. CASE task_create(0, program) /\ Loaded(program, next_pid)
             /\ state' = [state EXCEPT ![next_pid] = "READY"]
  <2>1. /\ next_pid \in Pid /\ next_pid' = next_pid + 1
        /\ \A p \in Pid : prog'[p] = IF p = next_pid THEN program ELSE prog[p]
        /\ \A p \in Pid : p # next_pid => state'[p] = state[p]
        /\ parent_id'[next_pid] = 0
    BY <1>2, <1>4 DEF task_create, Pid
  <2>2. \A p \in Pid : Lodges(p)' => p = next_pid /\ prog'[p] = program /\ Top(p)'
    BY <1>1, <2>1 DEF Lodges, Live, Top
  <2>3. \A p \in Pid : p >= next_pid' => prog'[p] \notin Native
    BY <1>1, <1>2, <2>1
  <2>4. image'[Slot(program)] = next_pid
    BY <1>2, <1>4 DEF Loaded, Slot, Slots
  <2>5. Homes'
    BY <1>1, <2>2, <2>3 DEF Homes
  <2>6. Placed'
    BY <2>2, <2>4 DEF Placed, Lodges
  <2> QED
    BY <2>5, <2>6 DEF HomeInv
<1> QED
  BY <1>3, <1>4 DEF Starts

\* A command or a runner is loaded where nobody lodges, below its parent.
LEMMA ChildMovesIn ==
  ASSUME TableInv, CurrentRuns, ScanReaches, ParkedWhileChildLives, HomeInv, [Next]_vars,
         "shell" \notin ShellRuns,
         NEW program \in Native, Exec(program)
  PROVE  HomeInv'
<1>1. /\ Lodges(current) /\ current \in Pid
      /\ \A p \in Pid : Lodges(p) => Slot(prog[p]) # Slot(program)
      /\ program # "shell" /\ prog[current] # "cmd"
      /\ program = "runtests" => prog[current] = "shell"
  <2>1. program \in Runs(prog[current]) /\ current \in Pid
    BY DEF Exec, TableInv, TypeOK
  <2>2. ShellRuns \subseteq Native
    BY ConstantsOK DEF ConstantsOK, Native
  <2> QED
    BY <2>1, <2>2, NobodyLodges DEF HomeInv, Runs
<1>2. Spawning(program) /\ program \in Programs
  BY DEF Exec, Spawning, Runs, Native, Programs
<1>3. /\ next_pid \in Pid \ {current} /\ next_pid' = next_pid + 1
      /\ Pid \subseteq Int /\ next_pid \in Int
      /\ prog \in [Pid -> Programs] /\ parent_id \in [Pid -> 0..MaxPid]
      /\ image \in [Slots -> 0..MaxPid]
  BY <1>2, SpawningSwitches DEF Spawning, task_create, TableInv, TypeOK, Pid
<1>4. \A p \in Pid :
        /\ prog'[p] = IF p = next_pid THEN program ELSE prog[p]
        /\ parent_id'[p] = IF p = next_pid THEN current ELSE parent_id[p]
  BY <1>3 DEF Exec, task_create
<1>5. \A p \in Pid : p >= next_pid => prog[p] \notin Native
  BY DEF HomeInv, Homes
<1>6. \A p \in Pid : Lodges(p)' => p = next_pid \/ Lodges(p)
  BY <1>4, LifeSteps DEF Lodges
<1>7. prog'[current] \in Native /\ Live(state', current)
  <2>1. Switched(AfterSpawning) /\ AfterSpawning[current] = "WAITING"
    BY <1>1, <1>2, SpawningSwitches DEF AfterSpawning, TableInv, TypeOK
  <2>2. state'[current] \in {"WAITING", "RUNNING"}
    BY <1>1, <2>1 DEF Switched
  <2> QED
    BY <1>1, <1>3, <1>4, <2>2 DEF Lodges, Live
<1>8. ASSUME NEW p \in Pid, Lodges(p)', ~Top(p)'
      PROVE  /\ parent_id'[p] \in Pid
             /\ Lodges(parent_id[p])'
             /\ prog'[parent_id'[p]] # "cmd"
             /\ prog'[p] = "runtests" => prog'[parent_id'[p]] = "shell"
  <2>1. CASE p = next_pid
    BY <1>1, <1>3, <1>4, <1>7, <2>1 DEF Lodges
  <2>2. CASE p # next_pid
    <3> DEFINE q == parent_id[p]
    <3>1. Lodges(p) /\ prog'[p] = prog[p] /\ parent_id'[p] = q
      BY <1>4, <1>6, <1>8, <2>2
    <3>2. /\ q \in Pid /\ Lodges(q) /\ prog[q] # "cmd"
          /\ prog[p] = "runtests" => prog[q] = "shell"
      BY <1>8, <3>1 DEF HomeInv, Homes, Top
    <3>3. Live(state', q)
      BY <3>1, <3>2, LifeSteps DEF ParkedWhileChildLives, Lodges
    <3>4. prog'[q] = prog[q]
      BY <1>3, <1>4, <1>5, <3>2 DEF Lodges
    <3> QED
      BY <3>1, <3>2, <3>3, <3>4 DEF Lodges
  <2> QED
    BY <2>1, <2>2
<1>9. Homes'
  <2>1. kpc' = kpc /\ kpc' # "sweep" /\ (Mode = "NORMAL" => kpc' = "idle")
    BY <1>1 DEF Exec, HomeInv, Homes, Vacant
  <2>2. \A p \in Pid : p >= next_pid' => prog'[p] \notin Native
    <3> SUFFICES ASSUME NEW p \in Pid, p >= next_pid + 1 PROVE prog'[p] \notin Native
      BY <1>3
    <3>1. p >= next_pid /\ p # next_pid
      BY <1>3
    <3> QED
      BY <1>4, <1>5, <3>1
  <2>3. \A p \in Pid : Lodges(p)' /\ Top(p)' => Lodges(p) /\ Top(p)
    BY <1>1, <1>3, <1>4, <1>6 DEF Top, Pid
  <2>4. \A p, q \in Pid : Lodges(p)' /\ Lodges(q)' /\ Top(p)' /\ Top(q)' => p = q
    BY <2>3 DEF HomeInv, Homes
  <2>5. \A p \in Pid : Lodges(p)' /\ ~Top(p)' =>
          /\ parent_id'[p] \in Pid
          /\ Lodges(parent_id[p])'
          /\ prog'[parent_id'[p]] # "cmd"
          /\ prog'[p] = "runtests" => prog'[parent_id'[p]] = "shell"
    BY <1>8
  <2> QED
    BY <2>1, <2>2, <2>4, <2>5 DEF Homes
<1>10. Placed'
  <2>1. \A n \in Slots : image'[n] = IF n = Slot(program) THEN next_pid ELSE image[n]
    BY <1>3 DEF Exec, Loaded, Slot
  <2>2. \A a \in Native : Slot(a) \in Slots
    BY DEF Slot, Slots, Native
  <2> SUFFICES ASSUME NEW p \in Pid, Lodges(p)' PROVE image'[Slot(prog'[p])] = p
    BY DEF Placed, Lodges
  <2>3. CASE p = next_pid
    BY <1>4, <2>1, <2>2, <2>3
  <2>4. CASE p # next_pid
    <3>1. Lodges(p) /\ prog'[p] = prog[p]
      BY <1>4, <1>6, <2>4
    <3> QED
      BY <1>1, <2>1, <2>2, <3>1 DEF HomeInv, Placed, Lodges
  <2> QED
    BY <2>3, <2>4
<1> QED
  BY <1>9, <1>10 DEF HomeInv

\* A program that could not be started was loaded where nobody lodges.
LEMMA NobodyMovesIn ==
  ASSUME TableInv, CurrentRuns, ParkedWhileChildLives, HomeInv, "shell" \notin ShellRuns,
         NEW program \in Native, ExecNoMemory(program)
  PROVE  HomeInv'
<1>1. \A p \in Pid : Lodges(p) => Slot(prog[p]) # Slot(program)
  <2>1. program \in Runs(prog[current])
    BY DEF ExecNoMemory
  <2>2. ShellRuns \subseteq Native
    BY ConstantsOK DEF ConstantsOK, Native
  <2> QED
    BY <2>1, <2>2, NobodyLodges DEF HomeInv
<1>2. /\ UNCHANGED <<state, parent_id, prog, kpc>>
      /\ next_pid' \in {next_pid, next_pid + 1}
      /\ image' = [image EXCEPT ![Slot(program)] = 0]
  BY DEF ExecNoMemory, task_create_fails, Stays, Loaded
<1>3. next_pid \in Int /\ Pid \subseteq Int /\ image \in [Slots -> 0..MaxPid]
  BY DEF TableInv, TypeOK, Pid
<1>4. \A p \in Pid : Lodges(p)' <=> Lodges(p)
  BY <1>2 DEF Lodges
<1>5. \A p \in Pid : p >= next_pid' => prog'[p] \notin Native
  <2>1. \A p \in Pid : p >= next_pid' => p >= next_pid
    BY <1>2, <1>3
  <2> QED
    BY <1>2, <2>1 DEF HomeInv, Homes
<1>6. Homes'
  <2>1. Vacant => Vacant'
    BY <1>4 DEF Vacant
  <2>2. \A p \in Pid : Top(p)' <=> Top(p)
    BY <1>2 DEF Top
  <2> QED
    BY <1>2, <1>4, <1>5, <2>1, <2>2 DEF HomeInv, Homes
<1>7. Placed'
  <2>1. \A n \in Slots : n # Slot(program) => image'[n] = image[n]
    BY <1>2, <1>3
  <2>2. \A a \in Native : Slot(a) \in Slots
    BY DEF Slot, Slots, Native
  <2> QED
    BY <1>1, <1>2, <2>1, <2>2 DEF HomeInv, Placed, Lodges
<1> QED
  BY <1>6, <1>7 DEF HomeInv

\* In every boot, as long as nobody starts a second shell from the shell, no
\* program is ever loaded over a live one; in a TEST boot this needs the sweep
\* to be over when kmain loads the shell, so that it may not hang.
THEOREM ImagesAreSafe ==
  ScanReaches /\ "shell" \notin ShellRuns => (Spec => []ImagesIntact)
<1> SUFFICES ASSUME ScanReaches, "shell" \notin ShellRuns
             PROVE  Spec => []ImagesIntact
  OBVIOUS
<1> DEFINE IInv == SweepHangs \/ HomeInv
<1>1. Init => IInv
  <2> SUFFICES ASSUME Init PROVE HomeInv
    OBVIOUS
  <2>1. \A p \in Pid : prog[p] \notin Native
    BY DEF Init, Native
  <2>2. Mode = "NORMAL" => kpc = "load"
    BY DEF Init
  <2> QED
    BY <2>1, <2>2 DEF HomeInv, Homes, Vacant, Placed, Lodges
<1>2. TableInv /\ CurrentRuns /\ ParkedWhileChildLives /\ KmainUndisturbed /\ UsedInv
        /\ SweepInv /\ IInv /\ [Next]_vars => IInv'
  <2> SUFFICES ASSUME TableInv, CurrentRuns, ParkedWhileChildLives, KmainUndisturbed,
                      UsedInv, SweepInv, ~SweepHangs, HomeInv, [Next]_vars
               PROVE  HomeInv'
    BY HangsStays
  <2>1. CASE KernelStartsShell
    <3>1. Vacant
      BY <2>1, NobodyNative DEF KernelStartsShell, Vacant, Lodges, Live
    <3> QED
      BY <2>1, <3>1, KmainMovesIn DEF KernelStartsShell
  <2>2. CASE KernelStartsRunner
    <3>1. Vacant /\ Mode # "NORMAL"
      BY <2>2 DEF KernelStartsRunner, HomeInv, Homes
    <3> QED
      BY <2>2, <3>1, KmainMovesIn DEF KernelStartsRunner
  <2> QED
    BY <2>1, <2>2, ImageSteps, HomesStay, ChildMovesIn, NobodyMovesIn
<1>3. IInv => ImagesIntact
  BY DEF HomeInv, Placed, Lodges, ImagesIntact
<1> HIDE DEF IInv
<1> QED
  BY <1>1, <1>2, <1>3, SweepInvariant, RunningInvariant, ParkedCorrect, KmainAtPeace, PTL
  DEF Spec
=============================================================================
