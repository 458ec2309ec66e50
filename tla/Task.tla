-------------------------------- MODULE Task --------------------------------
(***************************************************************************)
(* The process table, the context switch and everything that moves a       *)
(* process between its states: cpu/task.c, the process system calls of     *)
(* cpu/syscall.c, the exception handler of cpu/idt.c, the timer, the       *)
(* wake-up side of io/keyboard.c and the boot thread of core/kernel.c.     *)
(*                                                                         *)
(* Every gate is an interrupt gate and every stub starts with cli          *)
(* (boot/interrupts.asm:3-25,74-78), so one handler, the whole loop of     *)
(* task_switch included, is one atomic step.  Interrupts come between any  *)
(* two steps; pid 1, whose kernel code runs with interrupts on, is cut     *)
(* into the steps of kmain.                                                *)
(*                                                                         *)
(* The circular list of process_t is the sequence ring: the nodes in the   *)
(* order of their next pointers, from process_list.                        *)
(***************************************************************************)
EXTENDS Integers, Sequences

CONSTANTS
  MaxPid,       \* bound of the model: pids handed out, task.c:11 has none
  MaxScan,      \* nodes task_switch skips before it gives up: 100, task.c:160
  KbSize,       \* characters the keyboard ring can hold: 255, keyboard.c:45
  Mode,         \* the boot-mode marker on disk: "NORMAL" or "TEST"
  ShellRuns,    \* native programs typed at the shell's prompt
  LinuxCalls,   \* system calls made by the ELF binaries under /bin
  HeapFails,    \* may kmalloc return NULL inside task_create?
  DirFails      \* may the second paging_new_dir of elf_load_file fail?

ASSUME ConstantsOK ==
  /\ MaxPid \in Nat \ {0}
  /\ MaxScan \in Nat
  /\ KbSize \in Nat
  /\ Mode \in {"NORMAL", "TEST"}
  /\ ShellRuns \subseteq {"shell", "runtests", "cmd"}
  /\ LinuxCalls \subseteq {"waitpid", "execve", "read"}
  /\ HeapFails \in BOOLEAN
  /\ DirFails \in BOOLEAN

VARIABLES
  ring,         \* process_list and its next pointers
  current,      \* current_process
  next_pid,     \* the next id task_create hands out
  state,        \* process_t.state; "UNUSED" before task_create
  parent_id,    \* process_t.parent_id; 0 for none
  prog,         \* the program a process runs; "elf" when is_elf = 1
  freed,        \* ids whose process_t has been given back to the heap
  eax,          \* what the last call of a process leaves in its eax
  kbd,          \* number of characters in the keyboard ring
  kb_enabled,   \* keyboard.c's kb_enabled
  image,        \* whose native image each load address holds; 0 for nobody's
  kpc           \* where kmain stands

vars == <<ring, current, next_pid, state, parent_id, prog, freed, eax, kbd,
          kb_enabled, image, kpc>>

procVars == <<ring, next_pid, parent_id, prog, freed>>
kbVars   == <<kbd, kb_enabled>>

Pid      == 1..MaxPid
States   == {"UNUSED", "READY", "RUNNING", "SLEEPING", "WAITING", "TERMINATED"}
Native   == {"shell", "runtests", "cmd"}
Programs == Native \cup {"kernel", "elf", "none"}
Results  == {"none", "ok", "error", "key", "zero", "number"}
KernelPcs == {"load", "yield", "sweep", "clear", "idle"}

Slots == {8, 9, 10}     \* the load addresses, in MiB

\* Mutant: the scan passes over TASK_SLEEPING only.
CanRunWaiting(st, p) == st[p] \in {"READY", "RUNNING", "WAITING"}

\* Mutant: the scan takes only what has run before.
CanRunAgain(st, p) == st[p] = "RUNNING"

CanRun(st, p) == st[p] \in {"READY", "RUNNING"}
Live(st, p)   == st[p] \notin {"UNUSED", "TERMINATED"}

TypeOK ==
  /\ ring \in Seq(Pid)
  /\ current \in Pid
  /\ next_pid \in 1..(MaxPid + 1)
  /\ state \in [Pid -> States]
  /\ parent_id \in [Pid -> 0..MaxPid]
  /\ prog \in [Pid -> Programs]
  /\ freed \subseteq Pid
  /\ eax \in [Pid -> Results]
  /\ kbd \in 0..KbSize
  /\ kb_enabled \in {0, 1}
  /\ image \in [Slots -> 0..MaxPid]
  /\ kpc \in KernelPcs

(***************************************************************************)
(* task_init: pid 1 is the running boot thread, alone in its ring.         *)
(***************************************************************************)
Init ==
  /\ ring = <<1>>
  /\ current = 1
  /\ next_pid = 2
  /\ state = [p \in Pid |-> IF p = 1 THEN "RUNNING" ELSE "UNUSED"]
  /\ parent_id = [p \in Pid |-> 0]
  /\ prog = [p \in Pid |-> IF p = 1 THEN "kernel" ELSE "none"]
  /\ freed = {}
  /\ eax = [p \in Pid |-> "none"]
  /\ kbd = 0
  /\ kb_enabled = 1
  /\ image = [n \in Slots |-> 0]
  /\ kpc = IF Mode = "TEST" THEN "sweep" ELSE "load"

-----------------------------------------------------------------------------
(***************************************************************************)
(* task_switch.  The scan starts at the node after current and walks on    *)
(* while the node cannot run; it gives up after MaxScan nodes, whatever    *)
(* the last one is, or when it is back where it started.  A scan that ends *)
(* at pid 1 then looks once around the ring for anyone else who can run.   *)
(***************************************************************************)
Hop(rg, i, k) ==    \* the node k links after the one at position i
  rg[IF i + k <= Len(rg) THEN i + k ELSE i + k - Len(rg)]

ScanEnds(st, rg, i, p) ==
  \/ \E k \in 1..Len(rg) :
       /\ k <= MaxScan + 1
       /\ CanRun(st, Hop(rg, i, k))
       /\ \A j \in 1..(k - 1) : ~CanRun(st, Hop(rg, i, j))
       /\ p = Hop(rg, i, k)
  \/ /\ \A k \in 1..Len(rg) : k <= MaxScan + 1 => ~CanRun(st, Hop(rg, i, k))
     /\ p = IF MaxScan < Len(rg) THEN Hop(rg, i, MaxScan + 1) ELSE Hop(rg, i, 1)

\* Mutant: pid 1 is like any other process.
SkipsNobody(st, rg, p, q) == q = p

SkipsIdle(st, rg, p, q) ==
  \/ /\ p # 1
     /\ q = p
  \/ /\ p = 1
     /\ \A k \in 2..Len(rg) : ~CanRun(st, rg[k])
     /\ q = 1
  \/ /\ p = 1
     /\ \E k \in 2..Len(rg) :
          /\ CanRun(st, rg[k])
          /\ \A j \in 2..(k - 1) : ~CanRun(st, rg[j])
          /\ q = rg[k]

Chosen(st, rg, q) ==
  \E i \in 1..Len(rg), p \in Pid :
    /\ rg[i] = current
    /\ ScanEnds(st, rg, i, p)
    /\ SkipsIdle(st, rg, p, q)

\* A walk over a node the heap may have handed out again is undefined: the
\* model takes no such step.
WalkDefined(rg) == \A i \in 1..Len(rg) : rg[i] \notin freed

task_switch(st, rg) ==
  /\ WalkDefined(rg)
  /\ \E q \in Pid :
       /\ Chosen(st, rg, q)
       /\ current' = q
       /\ state' = [st EXCEPT ![q] = "RUNNING"]

(***************************************************************************)
(* task_create.  The new node goes right behind the head of the list.  Of  *)
(* its three allocations the later two fail after next_pid was taken.      *)
(***************************************************************************)
InsertAfterHead(rg, p) == <<rg[1], p>> \o Tail(rg)

task_create(parent, program) ==
  /\ next_pid <= MaxPid
  /\ next_pid' = next_pid + 1
  /\ ring' = InsertAfterHead(ring, next_pid)
  /\ parent_id' = [parent_id EXCEPT ![next_pid] = parent]
  /\ prog' = [prog EXCEPT ![next_pid] = program]
  /\ UNCHANGED freed

task_create_fails ==
  /\ HeapFails
  /\ \/ UNCHANGED next_pid
     \/ /\ next_pid <= MaxPid
        /\ next_pid' = next_pid + 1
  /\ UNCHANGED <<ring, parent_id, prog, freed>>

(***************************************************************************)
(* elf_load_file after its process exists: no page directory, so the       *)
(* stacks and the process_t go back to the heap, but the node stays linked.*)
(***************************************************************************)
elf_load_abandons ==
  /\ DirFails
  /\ next_pid <= MaxPid
  /\ next_pid' = next_pid + 1
  /\ ring' = InsertAfterHead(ring, next_pid)
  /\ freed' = freed \cup {next_pid}
  /\ state' = [state EXCEPT ![next_pid] = "READY"]
  /\ prog' = [prog EXCEPT ![next_pid] = "elf"]
  /\ UNCHANGED parent_id

\* Mutant: an exit path that does not wake the parent.
WakeNobody(st, p) == st

\* The exit paths' walk of the list: the parent becomes READY if it waits.
WakeParent(st, p) ==
  [q \in Pid |-> IF q = parent_id[p] /\ st[q] = "WAITING" THEN "READY" ELSE st[q]]

\* Mutant: the test runner is loaded where the shell lives.
SlotOfOldRunner(program) == IF program = "cmd" THEN 10 ELSE 8

\* noan_load picks the load address by the name of the program.
Slot(program) == CASE program = "shell"    -> 8
                   [] program = "runtests" -> 9
                   [] OTHER                -> 10

Loaded(program, owner) == image' = [image EXCEPT ![Slot(program)] = owner]

-----------------------------------------------------------------------------
(***************************************************************************)
(* kmain.                                                                  *)
(***************************************************************************)
Starts(program, pc) ==  \* noan_load, then task_create(entry, 1, 0)
  /\ \/ /\ task_create(0, program)
        /\ state' = [state EXCEPT ![next_pid] = "READY"]
        /\ Loaded(program, next_pid)
     \/ /\ task_create_fails
        /\ Loaded(program, 0)
        /\ UNCHANGED state
  /\ kpc' = pc
  /\ UNCHANGED <<current, eax, kbVars>>

KernelStartsShell ==
  /\ current = 1
  /\ kpc = "load"
  /\ Starts("shell", "idle")

KernelStartsRunner ==
  /\ current = 1
  /\ kpc = "sweep"
  /\ Starts("runtests", "yield")

KernelMissesRunner ==
  /\ current = 1
  /\ kpc = "sweep"
  /\ kpc' = "clear"
  /\ UNCHANGED <<procVars, current, state, eax, kbVars, image>>

\* Mutant: kmain goes on without yielding.
KernelGoesOn ==
  /\ current = 1
  /\ kpc = "yield"
  /\ kpc' = "clear"
  /\ UNCHANGED <<procVars, current, state, eax, kbVars, image>>

KernelYields ==         \* task_yield() is int 0x20, the timer's own vector
  /\ current = 1
  /\ kpc = "yield"
  /\ kpc' = "clear"
  /\ task_switch(state, ring)
  /\ UNCHANGED <<procVars, eax, kbVars, image>>

KernelClearsMarker ==
  /\ current = 1
  /\ kpc = "clear"
  /\ kpc' = "load"
  /\ UNCHANGED <<procVars, current, state, eax, kbVars, image>>

-----------------------------------------------------------------------------
(***************************************************************************)
(* Interrupts and faults.                                                  *)
(***************************************************************************)
timer_callback ==
  /\ task_switch(state, ring)
  /\ UNCHANGED <<procVars, eax, kbVars, image, kpc>>

\* Mutant: the interrupt fills the ring and wakes nobody.
KeyWakesNobody ==
  /\ \E n \in {0, 1, 3} : kbd' = IF kbd + n <= KbSize THEN kbd + n ELSE KbSize
  /\ UNCHANGED <<procVars, current, state, eax, kb_enabled, image, kpc>>

\* Every scancode wakes all sleepers; it pushes no character (a modifier, a
\* release), one, or the three of an arrow key, while enabled and not full.
keyboard_handler ==
  /\ WalkDefined(ring)
  /\ state' = [p \in Pid |-> IF state[p] = "SLEEPING" THEN "READY" ELSE state[p]]
  /\ \E n \in {0, 1, 3} :
       kbd' = IF kb_enabled = 0 THEN kbd
              ELSE IF kbd + n <= KbSize THEN kbd + n ELSE KbSize
  /\ UNCHANGED <<procVars, current, eax, kb_enabled, image, kpc>>

\* Mutant: linux_syscall handled the exit, so the handler returns its esp.
DiesAndReturns ==
  /\ current # 1
  /\ state' = WakeParent([state EXCEPT ![current] = "TERMINATED"], current)
  /\ UNCHANGED <<procVars, current, eax, kbVars, image, kpc>>

\* The exit paths: the process on the CPU ends, its parent wakes.
Dies ==
  /\ current # 1
  /\ task_switch(WakeParent([state EXCEPT ![current] = "TERMINATED"], current),
                 ring)
  /\ eax' = [eax EXCEPT ![current] = "none"]  \* its frame is never used again
  /\ UNCHANGED <<procVars, kbVars, image, kpc>>

SysExit   == prog[current] \in Native /\ Dies
LinuxExit == prog[current] = "elf" /\ Dies  \* exit and exit_group

isr_handler == Dies     \* a fault taken in user mode

-----------------------------------------------------------------------------
(***************************************************************************)
(* Native system calls.                                                    *)
(***************************************************************************)
Returns(r) == eax' = [eax EXCEPT ![current] = r]

Stays == UNCHANGED <<current, state>>

Runs(program) == CASE program = "shell"    -> ShellRuns
                   [] program = "runtests" -> {"cmd"}
                   [] OTHER                -> {}

ExecNotFound ==         \* noan_load returns 0
  /\ prog[current] \in {"shell", "runtests"}
  /\ Returns("error")
  /\ Stays
  /\ UNCHANGED <<procVars, kbVars, image, kpc>>

ExecNoMemory(program) ==  \* noan_execute returns early, ret = 0 all the same
  /\ program \in Runs(prog[current])
  /\ task_create_fails
  /\ Loaded(program, 0)
  /\ kb_enabled' = 1
  /\ kbd' = 0
  /\ Returns("ok")
  /\ Stays
  /\ UNCHANGED kpc

\* Mutant: the parent is made to wait only after its child has been seen.
ExecUnparked(program) ==
  /\ program \in Runs(prog[current])
  /\ task_create(current, program)
  /\ Loaded(program, next_pid)
  /\ kb_enabled' = 1
  /\ kbd' = 0
  /\ Returns("ok")
  /\ task_switch([state EXCEPT ![next_pid] = "READY"], ring')
  /\ UNCHANGED kpc

Exec(program) ==
  /\ program \in Runs(prog[current])
  /\ task_create(current, program)
  /\ Loaded(program, next_pid)
  /\ kb_enabled' = 1
  /\ kbd' = 0
  /\ Returns("ok")
  /\ task_switch([state EXCEPT ![next_pid] = "READY", ![current] = "WAITING"],
                 ring')
  /\ UNCHANGED kpc

ExecElf ==              \* elf_load_file, then the caller is parked
  /\ prog[current] \in {"shell", "runtests"}
  /\ task_create(current, "elf")
  /\ Returns("ok")
  /\ task_switch([state EXCEPT ![next_pid] = "READY", ![current] = "WAITING"],
                 ring')
  /\ UNCHANGED <<kbVars, image, kpc>>

ExecElfFails ==
  /\ prog[current] \in {"shell", "runtests"}
  /\ \/ task_create_fails /\ Stays
     \/ elf_load_abandons /\ UNCHANGED current
  /\ Returns("error")
  /\ UNCHANGED <<kbVars, image, kpc>>

\* The number of the call is still in eax when the sleeper is woken.
ReadSleeps ==
  /\ prog[current] = "shell"
  /\ kbd = 0
  /\ Returns("number")
  /\ task_switch([state EXCEPT ![current] = "SLEEPING"], ring)
  /\ UNCHANGED <<procVars, kbVars, image, kpc>>

MayPoll == \/ prog[current] \in {"shell", "cmd"}               \* SYS_READ_NB
           \/ prog[current] = "elf" /\ "read" \in LinuxCalls  \* read(0, ...)

\* Mutant: keyboard_getchar without its check for an empty ring.
ReadTakesAny ==
  /\ MayPoll
  /\ kbd' = kbd - 1
  /\ Returns("key")
  /\ UNCHANGED <<procVars, current, state, kb_enabled, image, kpc>>

ReadTakesKey ==         \* SYS_READ, SYS_READ_NB, Linux read on FD_STDIN
  /\ MayPoll
  /\ kbd > 0
  /\ kbd' = kbd - 1
  /\ Returns("key")
  /\ UNCHANGED <<procVars, current, state, kb_enabled, image, kpc>>

ReadFindsNothing ==     \* the non-blocking ones
  /\ MayPoll
  /\ kbd = 0
  /\ Returns("zero")
  /\ UNCHANGED <<procVars, current, state, kbVars, image, kpc>>

FlushKb ==
  /\ prog[current] = "shell"
  /\ kbd' = 0
  /\ UNCHANGED <<procVars, current, state, eax, kb_enabled, image, kpc>>

KbEnable(on) ==
  /\ prog[current] \in Native
  /\ kb_enabled' = on
  /\ UNCHANGED <<procVars, current, state, eax, kbd, image, kpc>>

Yields ==               \* SYS_YIELD
  /\ prog[current] \in Native
  /\ Returns("number")
  /\ task_switch(state, ring)
  /\ UNCHANGED <<procVars, kbVars, image, kpc>>

-----------------------------------------------------------------------------
(***************************************************************************)
(* Linux system calls of an ELF process.                                   *)
(***************************************************************************)
HasDeadChild(p) == \E c \in Pid : /\ \E i \in 1..Len(ring) : ring[i] = c
                                  /\ parent_id[c] = p
                                  /\ state[c] = "TERMINATED"

WaitPidReturns ==       \* a dead child is there, or WNOHANG
  /\ prog[current] = "elf"
  /\ "waitpid" \in LinuxCalls
  /\ Returns(IF HasDeadChild(current) THEN "ok" ELSE "zero")
  /\ UNCHANGED <<procVars, current, state, kbVars, image, kpc>>

\* "goto wait_retry" needs the state READY, which task_switch never leaves.
WaitPidBlocks ==
  /\ prog[current] = "elf"
  /\ "waitpid" \in LinuxCalls
  /\ ~HasDeadChild(current)
  /\ Returns("number")
  /\ task_switch([state EXCEPT ![current] = "WAITING"], ring)
  /\ UNCHANGED <<procVars, kbVars, image, kpc>>

\* Mutant: the temporary process is freed while it is still linked.
UnlinkNothing(rg, p, rg2) == rg2 = rg

\* Mutant: the predecessor is linked to the head, not to what follows.
UnlinkRest(rg, p, rg2) ==
  \E i \in 2..Len(rg) : rg[i] = p /\ rg2 = SubSeq(rg, 1, i - 1)

\* task_exec: elf_load_file links a temporary process; its program moves to
\* the caller, and the node is unlinked and freed again.
Unlink(rg, p, rg2) ==
  \E i \in 2..Len(rg) :
    /\ rg[i] = p
    /\ rg2 = [j \in 1..(Len(rg) - 1) |-> IF j < i THEN rg[j] ELSE rg[j + 1]]

Execve ==
  /\ prog[current] = "elf"
  /\ "execve" \in LinuxCalls
  /\ next_pid <= MaxPid
  /\ next_pid' = next_pid + 1
  /\ Unlink(InsertAfterHead(ring, next_pid), next_pid, ring')
  /\ freed' = freed \cup {next_pid}
  /\ Returns("none")
  /\ UNCHANGED <<parent_id, prog, current, state, kbVars, image, kpc>>

ExecveFails ==
  /\ prog[current] = "elf"
  /\ "execve" \in LinuxCalls
  /\ \/ UNCHANGED procVars /\ Stays           \* no such file
     \/ task_create_fails /\ Stays
     \/ elf_load_abandons /\ UNCHANGED current
  /\ Returns("error")
  /\ UNCHANGED <<kbVars, image, kpc>>

-----------------------------------------------------------------------------
KernelStep ==
  \/ KernelStartsShell \/ KernelStartsRunner \/ KernelMissesRunner
  \/ KernelYields \/ KernelClearsMarker

NativeStep ==
  \/ ExecNotFound \/ ExecElf \/ ExecElfFails
  \/ \E program \in Native : Exec(program) \/ ExecNoMemory(program)
  \/ ReadSleeps \/ FlushKb \/ Yields
  \/ \E on \in {0, 1} : KbEnable(on)

LinuxStep == WaitPidReturns \/ WaitPidBlocks \/ Execve \/ ExecveFails

Next ==
  \/ KernelStep
  \/ timer_callback
  \/ keyboard_handler
  \/ SysExit \/ LinuxExit \/ isr_handler
  \/ NativeStep
  \/ ReadTakesKey
  \/ ReadFindsNothing
  \/ LinuxStep

Spec == Init /\ [][Next]_vars

\* The PIT fires at 100 Hz for ever and every handler returns with interrupts
\* on, so a tick that would change the running process is taken in the end.
FairSpec == Spec /\ WF_vars(timer_callback)

-----------------------------------------------------------------------------
(***************************************************************************)
(* Safety.                                                                 *)
(***************************************************************************)

\* Linking and unlinking never lose a live process nor link one twice, and
\* the walks of the list always start at pid 1.  (task.c:125, 349-359)
RingHoldsTheLiving ==
  /\ ring[1] = 1
  /\ \A i, j \in 1..Len(ring) : ring[i] = ring[j] => i = j
  /\ \A p \in Pid : Live(state, p) => \E i \in 1..Len(ring) : ring[i] = p

\* No node of the list is memory the heap may hand out again.
NoFreedNodeLinked == \A i \in 1..Len(ring) : ring[i] \notin freed

\* A native process is parked exactly while a child of its own lives, and it
\* has at most one: whoever waits will be woken by someone.  (syscall.c:904,
\* noan.c:231)
ParkedWhileChildLives ==
  \A p \in Pid :
    prog[p] \in Native /\ Live(state, p) =>
      /\ state[p] = "WAITING" <=>
           \E c \in Pid : Live(state, c) /\ parent_id[c] = p
      /\ \A c, d \in Pid :
           Live(state, c) /\ Live(state, d) /\ parent_id[c] = p /\ parent_id[d] = p
             => c = d

\* No lost wake-up: nobody sleeps on the keyboard while a character is there
\* to be read.  (keyboard.c:69-79, syscall.c:1044-1049)
NoSleeperMissesAKey ==
  \A p \in Pid : state[p] = "SLEEPING" => kbd = 0

\* The runner that kmain started is parked over an ELF binary that waits in
\* waitpid for a child it does not have, and so for ever.
SweepHangs ==
  \E p, c \in Pid :
    /\ prog[p] = "runtests" /\ parent_id[p] = 0 /\ state[p] = "WAITING"
    /\ prog[c] = "elf" /\ parent_id[c] = p /\ state[c] = "WAITING"

\* A native program's image is never loaded over while the process that runs
\* it lives, unless the sweep hangs.  (noan.c:114-120)
ImagesIntact ==
  ~SweepHangs =>
    \A p \in Pid : prog[p] \in Native /\ Live(state, p) => image[Slot(prog[p])] = p

\* "The sweep is done": when kmain goes on after its yield in TEST mode, the
\* test runner has terminated, unless the sweep hangs.  (kernel.c:127-136)
SweepIsOver ==
  Mode = "TEST" /\ current = 1 /\ kpc \in {"clear", "load"} /\ ~SweepHangs =>
    \A p \in Pid : prog[p] = "runtests" => state[p] = "TERMINATED"

\* kmain's kernel code runs with interrupts on and takes no lock: no tick and
\* no key can put another process on the CPU before it is idle or yields.
KmainUndisturbed ==
  current = 1 /\ kpc \in {"load", "sweep", "clear"} =>
    \A p \in Pid \ {1} : state[p] \in {"UNUSED", "WAITING", "TERMINATED"}

\* Besides the kernel's there is never more than one process that could use
\* the CPU or may be woken by a key: that is why two native programs can have
\* one load address and nobody needs a lock.  Only the process a failed load
\* leaves linked and freed is one more.  (noan.c:216-231, syscall.c:970)
OneAtATime ==
  NoFreedNodeLinked =>
    \A p, q \in Pid \ {1} :
      /\ state[p] \in {"READY", "RUNNING", "SLEEPING"}
      /\ state[q] \in {"READY", "RUNNING", "SLEEPING"}
      => p = q

(***************************************************************************)
(* Action properties.                                                      *)
(***************************************************************************)

\* Freed memory comes into the list by the failed load of an ELF binary and by
\* nothing else: not by execve, which frees a node too, nor by a node that is
\* linked after its id was freed.  (task.c:345-359, elf.c:110-121)
OnlyFailedLoadsLinkFreed ==
  [][NoFreedNodeLinked /\ ~NoFreedNodeLinked' => elf_load_abandons]_vars

\* The dead stay dead, a sleeper is only ever made READY, and who waits is
\* released by the death of a child and nothing else.  (task.c:157-167)
WakesAreEarned ==
  [][\A p \in Pid :
       /\ state[p] = "TERMINATED" => state'[p] = "TERMINATED"
       /\ state[p] = "SLEEPING" => state'[p] \in {"SLEEPING", "READY"}
       /\ state[p] = "WAITING" /\ state'[p] # "WAITING" =>
            \E c \in Pid : /\ parent_id[c] = p
                           /\ Live(state, c)
                           /\ state'[c] = "TERMINATED"]_vars

\* The CPU goes back to the idle process only when nobody else can use it.
\* (task.c:169-179)
IdleComesLast ==
  [][current # 1 /\ current' = 1 =>
       \A p \in Pid \ {1} : ~CanRun(state', p)]_vars

(***************************************************************************)
(* Liveness and refinement.                                                *)
(***************************************************************************)

\* Round robin starves nobody: who can run gets the CPU, as long as the list
\* holds no freed memory. (task.c:154-167)
NoStarvation ==
  \A p \in Pid \ {1} :
    NoFreedNodeLinked /\ state[p] \in {"READY", "RUNNING"}
      ~> current = p \/ ~NoFreedNodeLinked

\* The abstract view of the table (see CpuSharing).
Able    == {p \in Pid : CanRun(state, p)}
Blocked == {p \in Pid : state[p] \in {"SLEEPING", "WAITING"}}
Dead    == {p \in Pid : state[p] = "TERMINATED"}

Abstract == INSTANCE CpuSharing WITH
              Process <- Pid, Idle <- 1,
              able <- Able, blocked <- Blocked, dead <- Dead, cpu <- current

CpuSharingSpec == Abstract!Spec
=============================================================================
