# NoanOS: a verification project

NoanOS is a small 32-bit x86 operating system: a kernel in C and assembly, a
FAT32 file system on an ATA disk, a shell and commands as native binaries, and
static ELF binaries linked with musl, served by a Linux system call layer.
This directory models the kernel in TLA+, checks the models with TLC and proves
what matters most with TLAPS. Paths below are relative to `src/src/kernel/`
unless they start with `src/`; the line numbers of every definition are in
`PROJECT.json` under `map`.

## 1. Inventory

| component | state it keeps | operations | meets others by | modelled in |
|---|---|---|---|---|
| task layer: `cpu/task.c`, process calls of `cpu/syscall.c`, `cpu/idt.c`, `system/timer.c` | circular list of `process_t`, `current_process`, `next_pid`, each process's state, parent, program | `task_create`, `task_switch`, `task_exec`, exit, exec, waitpid, yield, faults | interrupts; the heap (a `process_t` and two stacks per process); the loaders | `Task` |
| boot thread: `core/kernel.c` | where `kmain` stands | choose the boot mode; start the shell; run the test sweep; clear the TEST marker; install | process 1; the only kernel code that can be preempted | `Task`, `Installer` |
| keyboard: `io/keyboard.c` | ring of characters, enable flag, shift state | interrupt handler, `keyboard_getchar`, flush, enable | wakes sleepers; read by `SYS_READ`, `SYS_READ_NB`, Linux `read` | `Task` (how many), `Console` (which) |
| kernel heap: `core/malloc.c` | list of blocks with headers | `malloc_init`, `kmalloc`, `kfree`, `get_malloc_info` | everybody | `KHeap` |
| program loaders: `storage/noan.c`, `storage/elf.c` | what is loaded at 8, 9 and 10 MiB; an ELF's page directory | `noan_load`, `noan_execute`, `elf_load_file` | task layer, file system, paging | `Task`, `ElfMemory` |
| descriptors and Linux ABI: `cpu/syscall.c` | 16 descriptors per process, the break | open, read, close, dup2, lseek, llseek, getdents64, brk, mmap, mmap2, ... | file system, task layer, paging | `FdTable`, `ElfMemory` |
| FAT32: `storage/fat32*.c` | the two tables, directories, the current directory | echo, touch, cp, mv, rm, mkdir, cd; cat, ls | disk driver, installer | `FatChains`, `LongNames` |
| paging, pages: `cpu/paging.c`, `core/pmm.c` | page directories, a bitmap of pages | new directory, map, allocate | loaders, brk, mmap2 | `ElfMemory` |
| user pointers: `core/usermem.c` | none | `is_user_addr_valid` | every call that takes a pointer | - |
| installer, boot markers: `core/installer.c`, `src/src/boot/boot.asm` | the disks | menu, automatic installation, `do_install`, marker files, choice of a disk | `kmain`, FAT32, BIOS | `Installer` |
| terminal: `io/terminal.c`, `io/kprint.c`, `io/framebuffer.c` | screen, cursor, colours, escape parser with its numbers | `terminal_putchar` | SYS_PRINT, `write` | `Console` |
| shell: `src/src/userspace/shell` | line, history | edit, recall, run | SYS_READ, SYS_EXEC, SYS_EXEC_ELF | `Console`, `Task` |
| test runner: `src/src/user/runtests.c` | counters | runs every program under `/bin` | SYS_EXEC, SYS_EXEC_ELF | `Task`, `Installer` |
| disk driver, start-up code, serial, clock, power, panic, initrd, memory map | little or none | port input and output | - | - |

**How they run.** There is one CPU. Every gate is an interrupt gate and every
stub starts with `cli` (`src/src/boot/interrupts.asm:3-27,74-79`), so a handler
runs to its end, its context switch included, before anything else does. The
interrupts are the 100 Hz timer, the keyboard, the system call gate `int 0x80`,
`task_yield`'s `int 0x20` and the CPU's exceptions. The one piece of kernel
code that runs with interrupts enabled is `kmain` once it has executed `sti`.
Concurrency is therefore the interleaving of whole handlers, and between
handlers the steps of `kmain`. What can come between two steps of one handler
is a power loss: it matters where the handler writes to a disk more than once.

**What is hard.** Who may run when (a scan with an escape hatch, an idle
process that is skipped); sleeping and waking around the keyboard; parents
parked while a child lives, with several ways for a child to die and several
ways for the start of a child to fail; a list that a failed load and `execve`
have to unlink from by hand; images at fixed addresses; one heap for everybody;
page frames that are never given back. On disk: several sectors to write for one
operation and no journal; long names in slots that are deleted one by one; an
installation of hundreds of writes that decides what the next boot does. On the
screen: a line that wraps and scrolls under an editor that only knows how to rub
out. The whole list, line by line, is `hazards` in `PROJECT.json`.

**What makes each part correct.**

- *Task layer*: every live process is linked exactly once; the CPU goes only to
  processes that can use it, and to the idle one last; nobody who can run is
  starved; the dead stay dead; whoever waits will be woken by someone.
- *Keyboard*: nobody sleeps while a character is there to be read.
- *Boot thread*: it is not preempted in the middle of its own work, and the
  marker is cleared only when the sweep is over.
- *Heap*: blocks tile the heap; memory handed out is nobody else's until given
  back; after everything is given back the heap is one block again.
- *Loaders*: a program is not loaded over a live one; a failed load leaves
  nothing behind; the pages of an image are the program's own.
- *Descriptors*: reading gives the bytes of the file at the offset; an offset
  never lies behind the end of the file.
- *Break and mmap*: what a program is given is mapped and given to it once.
- *FAT32*: every chain belongs to one entry, no cluster in use is free for
  others, an operation that fails or is cut short harms no other file; the
  current directory is one of the tree; every entry answers to its own name.
- *Installer*: a disk that boots is complete unless its installation was cut
  short; a promised test sweep is made; whoever installs gets a disk in the end.
- *Console*: the screen shows the line that will be executed, whatever the last command
  did to the terminal.

## 2. Plan

| step | modules | content | proofs |
|---|---|---|---|
| 1, done | `CpuSharing`, `Task` | what the task layer promises; the task layer with keyboard and boot thread | types, list, wake-ups, parking, taking turns, images, the sweep, refinement |
| 2, done | `Allocator`, `KHeap` | what a heap promises; `malloc.c` | types, tiling, coalescing, exclusiveness, the report, refinement |
| 3, done | `FdTable` | the descriptors of a process over the clusters of a file | types, offsets, which reads are right |
| 4, done | `FatChains` | tables, chains and entries; each operation cut into its disk writes, with a power loss between any two | types, one owner per cluster, the files' own blocks, the current directory, entries that stay, each outside the cases section 5 names |
| 5, done | `LongNames` | long-name slots of a directory, created and deleted | names kept, who answers to a name |
| 6, done | `ElfMemory` | frames, directories, ELF images, brk and mmap | a page is one page of one program; grants |
| 7, done | `Installer` | drives, markers, the order of writes, power losses, restarts | no sweep lost, completeness |
| 8, done | `Console` | keyboard ring, line editor and history, terminal | types, the line is on the screen |
| left | composition of `FdTable` with `FatChains` | an open file whose process unlinks it | - |
| left | `FatChains` with the content a short copy keeps | which blocks a file has that a full disk cut short | the blocks of a file |

The keyboard, the line editor and the terminal are one module, so that the effect of a
key can be followed to the screen; `is_user_addr_valid` has none (section 7).

A module on which theorems are proved declares no recursive operator; its
invariants are conjunctions of named parts.

## 3. The modules

### `CpuSharing`: what the task layer promises

One CPU, and sets of processes that are able to run, blocked or dead. One
action, `Handler`: a trip through the kernel on behalf of the process on the
CPU. It may give birth to one process; it may itself block or die; it may wake
blocked ones; then the CPU is given to a process that is able to run, and to
the idle one only if there is no other or it had the CPU already.

### `Task`: the task layer

| variable | in the code |
|---|---|
| `ring` | `process_list` and the `next` pointers, read from its head |
| `current`, `next_pid` | `current_process`, `next_pid` |
| `state`, `parent_id`, `prog` | the fields of `process_t` (`prog = "elf"` is `is_elf`) |
| `freed` | processes whose `process_t` was given to `kfree` |
| `eax` | the result a process finds after its last call |
| `kbd`, `kb_enabled` | how many characters the ring holds, and whether it takes any |
| `image` | whose native program lies at 8, 9 and 10 MiB |
| `kpc` | where `kmain` stands: `load`, `sweep`, `yield`, `clear`, `idle` |

`task_switch` is one step with its whole loop. `Hop` is the pointer chase,
`ScanEnds` the loop with its limit, `SkipsIdle` the second look around the ring
when the scan ended at process 1. Each handler is one action: `timer_callback`,
`keyboard_handler`, the three deaths `SysExit`, `LinuxExit` and `isr_handler`,
`Exec` and `ExecElf` with their failures, the reads, `Yields`, `WaitPidBlocks`,
`Execve`. `kmain` is cut into `KernelStartsShell`, `KernelStartsRunner`,
`KernelMissesRunner`, `KernelYields` and `KernelClearsMarker`.

Abstractions. Registers, stacks and page directories are left out: a switch is
a change of `current`. A user program is a process that makes the system calls
its kind makes, in any order. Three details that matter are kept: the shell
calls SYS_READ, which sleeps and returns without reading again; the idle
process is process 1; `waitpid` blocks without looking for children. A
process whose list node was freed makes the list's walks undefined
(`WalkDefined`); the model stops walking it there, because what the memory holds
then is up to the heap.

### `Allocator`, `KHeap`: the kernel heap

`Allocator` hands out ranges that overlap no other range held. `KHeap` is the
list of blocks (`blocks`, each with the address of its header), the pointers
their owners hold (`live`), the cursor of `kfree`'s loop (`curr`) and the last
result (`ret`). `kmalloc` is one step, with first fit, the alignment in 32-bit
arithmetic (`Aligned`) and the split; `kfree` is one step per turn of its loop,
so that the state in the middle of coalescing is visible to the invariants.
The address of the next block is computed from sizes as in the code, so the list
and the memory it lies in could disagree; `Tiles` says that they do not.

### `FdTable`: the descriptors of a process

`fds` is `proc->fds`; `got` is what the last read of a file delivered. The bytes
in a file's clusters are numbered along its chain, so that a read is the
number of its first byte and how many follow, and the contents need not be
modelled: a read is right when it begins at the descriptor's offset and is as
long as asked for, or as what is left. `ReadStart` is the walk to a cluster and
the skipping inside it, `Remaining` and `Clamp` are the code's 32-bit
arithmetic. `getdents64` moves the same offset by entries.

Files do not change while they are open: the Linux calls cannot write to one, and
the process that could is parked while this one lives. The model keeps what one would not expect:
`close` answers 0 for any number and leaves 0 to 2 alone; `dup2` from a free
descriptor succeeds and frees the new one; a read of the keyboard takes a character
even when none is asked for. `write` looks at the number alone and not at the
table, so it is no action here.

### `FatChains`: the file system on disk

| variable | in the code |
|---|---|
| `fat` | the allocation table: 0 free, `EOC` the end of a chain, or the next cluster |
| `block` | what lies in a cluster: a directory (its `..` and its slots) or block i of a content |
| `cwd` | `current_dir_cluster` |
| `pc`, `job` | where the running operation stands, and its local variables |
| `torn` | history: the power failed inside `rm` between the first cluster it freed and its entry, or before a new directory had its dot entries |
| `misled` | history: a `mkdir` by path made a directory outside the current one, which its `..` names all the same |

Every action is one disk write with the computation before it: an operation
starts (`fat32_echo`, `fat32_touch`, `fat32_copy`, `fat32_mkdir`, `install_file`,
`fat32_rm`) by taking its first cluster, then come `WriteData`, `LinkNext`, `EndNext` per block, the walk
through the path with the directories made on the way (`EnterDirectory`,
`MakeParent`, `ParentEntry`, `ParentDots`), `WriteEntry`, and for a new directory
`WriteDots`; `fat32_rm` frees one cluster per step and then unlinks.
`fat32_move` is a copy and then a removal. `PowerLoss` may come between any two
and leaves the disk; only the current directory is the root again. The full disk
and the full directory are actions of their own (`DiskFull`, `DiskFullAtLink`,
`DirFull`), as in the code's early returns.

After a loss that tears, the model takes no further step of an operation: what a search
finds in a directory without its dot entries is whatever lay in the cluster before.

Abstractions. A name is a model value that matches itself only (what names are made of
is `LongNames`). The second copy of the table is written right after the first and never
read. A file's size is a number of clusters. A copy that a full disk cut short
carries the content `"none"`, because its last cluster was linked and never written.
`rm` of `"."` and `".."` is left out: the code accepts both and frees a
directory in use.

### `LongNames`: how names lie in a directory

One variable, `slot`: the entries of one directory, each of them an 8.3 entry, a
part of a long name, deleted, or never written. `dir_add_entry` looks for as many
free slots in a row as the name needs, `fat32_rm` deletes upward as far as its loop
goes, which is one slot: the byte 0xE5 that marks the slot as deleted has
the bit the loop takes for the last part. `Lists` is the listing's reassembly of a name from the
slots above an entry, `Matches` the comparison of a search. The alias, the
checksum, the folded name and the number of slots are constants, with what the
code guarantees of them as assumptions.

### `ElfMemory`: frames, directories, break

`used` is the bitmap of `core/pmm.c`, `table` and `page` are the directory entries and
page entries of each program, `Same` a big page that all programs share. Loading is one
step per page (`LoadPage`: a frame, then the page table it may need, then the
entry, with each of the two allocations failing as in the code). `brk`, `mmap` and
`mmap2` move the program's break; `known` is the break the program was told last and
remembers, as musl's `malloc` does, and which it may ask for again at any time (`AskBreak`).
`grants` are the ranges it takes for its own, `stale` says that it has moved its break from
one that `mmap` had passed meanwhile. Lengths are multiplied and rounded up in 32 bits.
Frames are never given back, so programs are loaded one after another until there are none.
A frame that `paging_map_page` cannot map is lost and the page stays the shared one.

### `Installer`: disks, boots and power losses

| variable | in the code |
|---|---|
| `drives`, `disk` | which drives exist; of each the boot sector, the sectors of kernel and ramdisk, the marker in sector 700, the files in `/bin` |
| `pc`, `up`, `dest`, `testing`, `next` | what the machine does, `boot_drive`, and the locals of `do_install` |
| `ran` | the programs the running sweep has run |
| `losses`, `cut`, `owed` | for the properties: power losses, drives whose installation was cut short, drives whose sweep is owed |

`StartHdd` and `StartLive` are the boot sector's choice of a disk and `kmain`'s of a
mode; `do_install` is `Format`, `Tables`, `CopySector0`, `CopyKernel`,
`CopyInitrd`, `WriteMarker`, `InstallFile` and `Installed`, each a point where
the disk differs in a way a later boot sees. The user is a set of actions.

### `Console`: from the key to the screen

`ring` is the keyboard's buffer character by character, so that an arrow key is
three of them, each of which a full ring may drop. The shell reads one at a time
(`pc`, `cmd`, `history`, `index`) and prints; `terminal_putchar` is a
function on the record `term` (cells, cursor, parser) with wrapping, scrolling,
rubbing out over the start of a row and the commands of the parser. The parser
(`ansi`) collects up to four numbers (`Numbered`), and `Place` is the row or column that
`H` and `f` make of one: the number less one, in the width of a byte, whether that lies
on the screen or not, for the code does not look. What is drawn beyond the
last row is seen where it happens to fall on the screen (`Put`). A command prints
one of the strings of `Outputs` before the prompt comes back; a line of blanks and
semicolons starts none (`RunsNothing`). `Woken` is SYS_READ's answer to a shell it
has put to sleep in the middle of an arrow key: its own number, 2, which the shell takes for
the rest of the key. `placed` is history: the last prompt began on a row of the screen.

### How they compose

`Task!OneAtATime` is what the other modules take as given: one user of the file system,
the console and the program memory at a time. `ElfMemory` and `FdTable` are what
happens inside a process of `Task`; `FatChains!install_file` is the step
`InstallFile` of `Installer`; `Installer!RunNext` stands for a run of `Task` in TEST mode.

## 4. The runs

| run | module, cfg | shows |
|---|---|---|
| `task` | `MCTask`, `MCTask.cfg` | a TEST boot, which goes on as a normal one when its runner is missing, under every interleaving and with every allocation that may fail: the task layer's invariants, `OnlyFailedLoadsLinkFreed`, `SweepIsOver`, `NoStarvation` and `CpuSharingSpec` |
| `heap` | `MCKHeap`, `MCKHeap.cfg` | all of the heap's invariants, `FreeEnds`, `AllocatorSpec` |
| `fds` | `MCFdTable`, `MCFdTable.cfg` | `OffsetsInside`, and of reads `NearReadsExact`, `NoByteBehindTheEnd`, `EndIsTheEnd` |
| `fat` | `MCFatChains`, `MCFatChains.cfg` | `NoSharedClusters`, `FilesIntact`, `CwdIsDirectory` on a disk that becomes full and loses power, with a `mkdir` by path |
| `names` | `MCLongNames`, `MCLongNames.cfg` | `NamesAreKept`, `AnswersToItsName` |
| `memory` | `MCElfMemory`, `MCElfMemory.cfg` | `MemoryIsOwn`, `ImageIsPrivate`, `GrantsAreSound`, with programs that remember their break and with a length that wraps |
| `installer` | `MCInstaller`, `MCInstaller.cfg` | `NoSweepLost`, `CompleteUnlessCut`, `InstalledInTheEnd`, `TestedInTheEnd` |
| `console` | `MCConsole`, `MCConsole.cfg` | `LineOnScreen`, after commands that end inside a sequence or leave the cursor beyond the screen |
| `task_scan_limit` | `MCTask`, `MCTaskScanLimit.cfg` | violated: `WakesAreEarned` |
| `fds_read` | `MCFdTable`, `MCFdTableRead.cfg` | violated: `ReadsTheFile` |
| `fat_move` | `MCFatChains`, `MCFatMove.cfg` | violated: `MoveKeepsTheFile` |
| `memory_brk` | `MCElfMemory`, `MCElfMemoryBrk.cfg` | violated: `NothingGivenTwice` |

**Properties of the task layer.** `RingHoldsTheLiving`: no linking or unlinking
loses a live process. `OnlyFailedLoadsLinkFreed`: no node of the list is memory the heap may
hand out again, but the one a failed ELF load leaves there, which is a fault of the code and a
hazard of its own. `ParkedWhileChildLives`: a native process is parked exactly while
its one child lives, whatever way the child ends or fails to start.
`NoSleeperMissesAKey`: no lost wake-up. `ImagesIntact`: no program is loaded over
a live one. `WakesAreEarned`: the dead stay dead and a waiting process is released by
the death of its child only. `IdleComesLast`: the CPU returns to process 1 only if no other
can use it. `OneAtATime`: apart from process 1 at most one process can run or
sleeps, so the images, the keyboard and the file system have one user at a
time although nothing locks them. `NoStarvation`: who can run gets the CPU. `SweepIsOver` and
`KmainUndisturbed`: what `kmain` relies on in TEST mode. `SweepIsOver` and
`ImagesIntact` name the one case they are not about: `SweepHangs`, the runner parked over
an ELF binary that waits for a child it does not have.

What these properties say after a page directory could not be had is little: the load
has left its freed node in the list, no walk of the list is defined from then on, the model
takes no step that needs one, and `OneAtATime` and `NoStarvation` leave such states out. That
the failed load harms nobody is not claimed.

**The heap's report.** `get_malloc_info` is modelled with all of its numbers. Memory in use
counts with its headers and free memory without, so `InfoAddsUp` adds the headers of the
free blocks to find the heap; and it compares what is reported as used with what the owners
asked for, rounded up and with the headers: it is never less, and at most 16 bytes more for each
block, a rest too small to be split off.

**Properties of the disk.** `NoSharedClusters`: when the power fails between two writes, the
machine goes on with a disk on which no cluster has two owners and none of a
linked chain is free for others. Two windows are excepted, in which the code does leave
such a disk (`torn`): inside `rm`, which frees the clusters before it erases the entry, and
before a new directory has its `.` and `..`. So are disks on which a `mkdir` by path has made a
directory outside the current one (`misled`): from there `cd ..` may lead to a cluster that is no
directory any more. Without the first exception TLC finds `NoSharedClusters` and
`FilesIntact` violated, without the second `CwdIsDirectory`; all three have both, because the model
does not follow what is read from a cluster that holds no directory. `FilesIntact`: the chain of every file holds its own
blocks in order, so nobody wrote into it and no link was lost; the copy a full
disk cut short is excepted. `CwdIsDirectory`: the current directory is one of
the tree, although directories are removed and `..` is followed blindly.
`NamesAreKept`, `AnswersToItsName`: whatever parts of deleted names lie around it, an
entry is listed under its own name and found under it and no other.

**Properties of memory.** `MemoryIsOwn`: the pages a program uses are pairwise
different physical pages, and none is a page table or belongs to an earlier
program. `ImageIsPrivate`: while there are frames an image lies in them and not in
the pages all share. `GrantsAreSound`: what brk and mmap give lies above the image and is
mapped, and is not given twice before the program moves a break that mmap has passed; a range
whose length does not fit in 32 bits, which mmap2 grants with no bytes in it, is not meant
(`Whole`). `NothingGivenTwice` is what musl's `malloc` takes for granted, without that
exception.

**Properties of the installer.** `NoSweepLost`: the marker of a promised sweep stays
until every program has been run. `CompleteUnlessCut`: a drive the machine boots
from has everything. `InstalledInTheEnd`, `TestedInTheEnd`: after finitely many
power losses an installation by hand succeeds, and an automatic one that is not cut
short leads to a tested disk.

**Property of the console.** `LineOnScreen`: the characters before the cursor are
those of the line the shell will execute, whatever was typed, rubbed out, recalled or
dropped by the ring, and whatever the last command left on the screen, in the parser or as the
column of the cursor. The row is the exception: where a command leaves the cursor on a row
beyond the screen, the prompt and the line are not to be seen until the next Enter (`placed`).

**The disagreements the runs show.**

- `task_scan_limit`: `task_switch` gives up after 100 nodes and runs the node it stopped
  at. Terminated processes stay in the list for ever, so after about a hundred
  commands a dead or a waiting process gets the CPU.
- `fds_read`: `proc_read_fd` skips to the offset in the first sector of a cluster only.
  With more than 512 bytes to skip it delivers from byte 512 of the cluster on. The
  disks made here have eight sectors per cluster (`src/src/tools/make-hdd.py:22`), so
  a program that reads 1024 bytes at a time gets the wrong bytes three times of four.
- `fat_move`: `fat32_move` removes its source whatever became of the copy, so a full disk,
  or a directory as the source, loses the only copy.
- `memory_brk`: `mmap` takes its range from the break and moves it; a `brk` from the break a
  program remembers, as musl's does, is then a success that hands the mapped memory out
  again. `src/src/tools/run_tests.py:66-71` excuses two musl programs with "this kernel's mmap
  semantics"; the run shows one way in which these semantics break what musl relies on, not
  that it is the cause of their trap.

**What the models show without a run of its own.** Some behaviours are kept out of the
passing runs by a constant or a precondition, which the list names; most of them appear
when it is changed.

- When the second page directory cannot be had, `elf_load_file` frees a process it has
  already linked: `NoFreedNodeLinked`, as an invariant of the run `task`, is violated.
- `"shell"` in `ShellRuns`: a shell started from the shell is loaded over its parent
  (`ImagesIntact`).
- An ELF binary without children that calls `waitpid` waits for ever; the runner waits
  for it, the idle process comes back to `kmain`, and `kmain` clears the marker in the
  middle of the sweep and loads the shell over the runner (`SweepIsOver` and `ImagesIntact`
  without `SweepHangs`).
- A directory that `mkdir` makes by path outside the current one has the current one as its
  `..`; when that one is removed `cd ..` leads to a free cluster (`CwdIsDirectory` without
  `misled`).
- Power that fails inside `rm` between the clusters and the entry leaves an entry whose
  clusters the next file takes (`NoSharedClusters` without `torn`).
- `ESC[99;1H` puts the cursor on a row beyond the screen: of the two functions that place it
  `terminal_set_cursor` holds it to the screen and the parser's `H` and `f`
  (`io/terminal.c:157-161`) do not. The prompt and the line are off the screen until the next Enter
  (`LineOnScreen` without `placed`).
- The property `NoOrphanSlots` of `LongNames` fails at once: `rm` deletes one slot of
  a long name only. `NamesAreKept` shows that what stays does no harm but to take room.
- `TestedInTheEnd` without `losses > 0`: a power loss between the boot signature
  `fat32_format` writes and the boot code leaves a disk an AUTO live disk starts for
  ever (`src/src/boot/boot.asm:74-83`). Without `1 \in drives`: with
  drives 0 and 2 the BIOS's 0x81 is the kernel's drive 2, and the kernel looks for
  the marker on drive 1.
- A keyboard ring with one or two free places takes a part of an arrow key
  (`io/keyboard.c:51-58,109-125`); the shell reads the rest of the next key as text.
  `LineOnScreen` holds all the same.
- SYS_EXEC returns 0 when no process could be created, and flushes the characters that
  `io/keyboard.c:189-191` calls legitimate type-ahead; `Exec` in `Task` has both.
- The copy that a full disk cut short has the whole size over a shorter chain, whose
  last cluster was never written.

**Bounds.** *Tasks*: four or five processes: 1 idles, 2 is the shell or the runner, and
the rest are children, so that there are grandchildren, two generations of dead
processes and a live one behind them. `MaxScan` is the code's 100; the passing
runs keep it at least as large as the list can become, and
`task_scan_limit` sets it to 2. `KbSize` of 1 or 2 makes the ring both empty and
full, also in the middle of an arrow key's three characters. *Heap*: room for
six headers and requests of 0, one that leaves a rest, one that leaves
none, and one that nearly fills it; `Word` is set just above its end, so that an
address still fits and no request wraps. *Descriptors*: a cluster of two sectors of two bytes is the
smallest with a sector behind the first; the file of seven bytes ends inside the
second cluster, the counts stop inside a sector, cross a cluster and pass the end, and
the shifts are none, one inside the file and one that is negative as a 32-bit number.
Two descriptors besides the standard three show that one is not disturbed by the other.
*Disk*: four clusters, the root's included, so that a file of two clusters, its copy and
a directory do not fit together; two slots per directory, so that one is full; a file
and a directory may have the same name. `touch` of a path makes
the directories that are missing, and `mkdir` of the same path makes one inside the current
directory or outside, depending on where it is called. The theorems hold for any disk. *Names*: seven slots for names of one, two, three
and four slots, two that differ in case and three with one alias, with equal checksums.
*Memory*: eight frames, of which the first program takes five; four pages above the
images let a break grow, be shrunk and reach the end of what is mapped; four ranges at a
time (`MaxGrants`), and 18 pages, of two bytes each, are a length that wraps. An image's own
tables always take the place of big pages here; a page table in the place of nothing is left to
the theorems. *Installer*: drives with and
without a gap in their numbers, three files of which one is the runner, two power
losses: one for the installation and one for what was left. *Console*: three rows of two
cells, of which the prompt fills one, so that a line of two characters wraps and scrolls; a ring
with room for three characters (one arrow key), a history of one line. Commands print nothing,
an escape left open, a row beyond the screen, or a column at the end of a byte followed
by a sequence that is left with a number in it: one output for each way to leave the
terminal, not every output there is. The theorem has no such bound.

**Fairness.** `Task!FairSpec` asks for weak fairness of `timer_callback` alone: the PIT
interrupts at 100 Hz for ever, and every handler returns with interrupts enabled. No
program is assumed to make progress. `KHeap!FairSpec` asks for weak fairness of
`Loop`: the caller of `kfree` runs the loop itself, with nothing it waits for.
`Installer!FairSpec` asks for weak fairness of the kernel, which runs `do_install` and the sweep
without waiting for anybody, and for a user: who switches the machine on and off
again and again (weak), and who does not for ever choose the other disk, or leave the
menu, when the same choice comes back (strong fairness of `StartLive`, `StartHdd`, `Choose`
and `Confirm`). `PowerLoss` is never fair and bounded by `MaxLosses`. The user's fairness
is an assumption about the person at the machine: without it nothing is ever
installed.

**Deadlock** is checked in every run but `memory` and `memory_brk`, where a page fault inside the kernel
halts the machine: a real stop of the code.

## 5. The proofs

All theorems hold for every value of the constants that the modules'
assumptions allow (`ConstantsOK`, `HeapOK`, `FatOK`, ...), and some need one more, which their
statement names:

- `ScanReaches == MaxPid <= MaxScan + 1`: the scan can skip every process. Without it
  `WakesAreEarned` is false, as `task_scan_limit` shows.
- `~DirFails`, for `NoFreedNode` only: no page directory allocation
  fails in the middle of an ELF load. Without it the property is false.
- `"shell" \notin ShellRuns`, for `ImagesAreSafe`: nobody starts a shell from the shell.
  Without it the property is false.
- `SectorsPerCluster = 1`: the only geometry in which every read is right.
- `NoWrap`, of `KHeapProofs`: no request wraps when it is aligned.
- `ConsoleOK`: the prompt and a longest line fit the screen above its last line; the prompt is
  the path, which begins with `/`, and `" > "`, without control characters. `Outputs` is any
  set of sequences of the constant `Chars`.

Some properties carry an exception in themselves, as history or state, and the theorem is no
stronger than the property:

- `~torn` and `~misled`, in the three of `FatChains` and in `EntriesLast`: the power has not
  failed inside `rm` between the clusters and the entry, nor before a new directory had its dot
  entries, and no `mkdir` by path has made a directory outside the current one. In these windows
  the code does what the properties rule out.
- `~stale` and `Whole`, in `GrantsAreSound`: the program has not moved its break from one that
  `mmap` had passed; the length fits in 32 bits. `memory_brk` is the run without the first.
- `placed`, in `LineOnScreen`: the last command did not leave the cursor on a row beyond the
  screen.
- `~SweepHangs`, in `SweepIsOver` and `ImagesIntact`, and `NoFreedNodeLinked`, in `OneAtATime`.

| module | theorem | states |
|---|---|---|
| `TaskProofs` | `TypeCorrect`, `RingCorrect` | `TypeOK`, `RingHoldsTheLiving` |
| `TaskProofs` | `NoLostWakeUp`, `IdleIsLast` | `NoSleeperMissesAKey`, `IdleComesLast`, for every scan limit |
| `TaskProofs` | `WakesEarned`, `ParkedCorrect`, `ImplementsCpuSharing` | `WakesAreEarned`, `ParkedWhileChildLives`, `CpuSharingSpec`, with `ScanReaches` |
| `TaskProofs` | `NoFreedNode` | `NoFreedNodeLinked`, with `~DirFails` |
| `TaskProofs` | `LinksStaySound` | `OnlyFailedLoadsLinkFreed`, for every scan limit |
| `TaskProofs` | `TakingTurns` | `OneAtATime`, with `ScanReaches` |
| `TaskProofs` | `KmainAtPeace` | `KmainUndisturbed`, with `ScanReaches` |
| `TaskProofs` | `TickServes` | after a tick whoever can run has the CPU, with `ScanReaches` |
| `TaskProofs` | `SweepIsDone` | `SweepIsOver`, with `ScanReaches` |
| `TaskProofs` | `ImagesAreSafe` | `ImagesIntact`, with `ScanReaches` and no shell typed at the shell |
| `KHeapProofs` | `HeapTypeCorrect`, `BlocksTile`, `AlwaysCoalesced`, `NothingLost` | `TypeOK`, `Tiles`, `Coalesced`, `EmptyHeapIsWhole` |
| `KHeapProofs` | `ReportsAddUp` | `InfoAddsUp`, for every request, one that wraps included |
| `KHeapProofs` | `FreeCountsDown` | each step of `kfree`'s loop lowers `LoopLeft`, and nothing comes between |
| `KHeapProofs` | `OwnersHoldBlocks`, `MemoryIsExclusive`, `ImplementsAllocator` | `HeldIsTaken`, `PayloadsDisjoint`, `AllocatorSpec`, with `NoWrap` |
| `FdProofs` | `FdTypeCorrect`, `OffsetsStayInside`, `ReadsEndInFile`, `NearReadsRight`, `NoEarlyEnd` | `TypeOK`, `OffsetsInside`, `NoByteBehindTheEnd`, `NearReadsExact`, `EndIsTheEnd`, for every geometry |
| `FdProofs` | `SmallClustersRight` | `ReadsTheFile`, with `SectorsPerCluster = 1` |
| `FatProofs` | `FatTypeCorrect`, `ClustersHaveOneOwner`, `FilesStayIntact`, `CwdStaysInTheTree` | `TypeOK`, `NoSharedClusters`, `FilesIntact`, `CwdIsDirectory`, for every disk, directory size and set of calls, `mkdir` by path included |
| `FatProofs` | `EntriesLast` | with `~torn` and `~misled`: an entry of the tree changes only when a removal of its name ends |
| `LongNamesProofs` | `NamesTypeCorrect`, `NamesKept`, `AnswersRight` | `TypeOK`, `NamesAreKept`, `AnswersToItsName` |
| `ElfMemoryProofs` | `MemoryTypeCorrect`, `ProgramMemoryIsOwn`, `ImageInFrames` | `TypeOK`, `MemoryIsOwn`, `ImageIsPrivate` |
| `ElfMemoryProofs` | `GrantsSound` | `GrantsAreSound`, for every size and whether the break is asked for or remembered |
| `InstallerProofs` | `InstallerTypeCorrect`, `NoSweepIsLost`, `CompleteUnlessCutShort` | `TypeOK`, `NoSweepLost`, `CompleteUnlessCut` |
| `ConsoleProofs` | `ConsoleTypes`, `LineStaysOnScreen` | `TypeOK`, `LineOnScreen`, for every screen of less than 256 rows and columns, ring, length of line, history and set of outputs |

**The argument for the task layer.** `TableInv` is the inductive invariant behind
everything: the types, the shape of the list, that exactly the processes ever
created and not unlinked are in it, and that process 1 is the kernel and never blocks.
The shape is needed because a walk of the list is an index computation modulo its
length (`ChosenFacts`: what the scan chooses is in the list). `CurrentRuns` adds that
the process on the CPU is the running one. `StepKinds` then reduces every action to
one of a few kinds (a switch, a death, a birth, a wake-up by the keyboard), and
the safety theorems are proved by kind. `ParkInv` adds to the parking
property how families look: a living child has a parent that
has not ended. `FreedInv` adds that no process is freed before it was created.
`TurnInv` is why two processes never contend: a switch adds nobody,
a birth happens only when its parent stops or when process 1 has the CPU and nobody else can
run, and before `kmain` is idle there is no shell, hence nobody who sleeps, hence nobody a key
could wake behind its back. A failed page directory breaks this, because the node it leaves
linked is freed memory; but whoever is on the CPU then is not process 1, no
later walk of the list is defined, and process 1 never has the CPU again. `WalkInv` is this
alternative, so `KmainUndisturbed` needs no assumption about allocations, and neither
does `TickServes`: the walk a tick makes reaches the one process that can run.

`SweepInv` adds that only shells and runners have children, and that before `kmain` is idle there
is no shell, and no runner but its own. When `kmain` goes on after its yield nobody can run, so a
native program that lives is parked for a child that waits too, and that can only be an ELF
binary below the runner (`NobodyNative`): `SweepIsOver`, or the sweep hangs. `Homes` says that the live native
programs form a chain: one that `kmain` started, below a shell a runner or a command, below a
runner a command; and that nobody lives there when `kmain` starts the next one, in
a TEST boot by `SweepIsOver`. With the parking property it gives that whoever starts a
program finds its load address free (`NobodyLodges`).

**The argument for the heap.** `HeapInv` says that the blocks tile the heap, that
the blocks in use are exactly the held ones, and, while the loop of `kfree` stands
at `curr`, that no two free neighbours lie behind it (`Passed`), except around the
one block just released. `SplitTiles` and `JoinTiles` are the two lemmas about the list. The report walks
the list and sums; its partial sums over the tiling are the blocks' addresses, and no step of that
induction needs more than the block before (`ReportsAddUp`). A turn of `kfree`'s loop
merges, which shortens the list, or moves on: `LoopLeft`, twice the length
less the position, falls with either, which is all that `FreeEnds` needs besides fairness.

**The argument for the descriptors.** The types and `OffsetsInside` together are
inductive: a read adds at most `Remaining`, which is what the 32-bit subtraction gives
only because the offset is not behind the end, and `lseek` cuts its sum. The action
properties then follow from one step: the byte a read starts at lies in the cluster of
the offset and not behind it (`ReadStart`), and the chain is long enough for the size.

**The argument for the disk.** `NoSharedClusters` speaks of chains, which are the least
sets the table's links close, and is not inductive: a cluster could be linked by
two chains that no entry reaches yet. `OwnInv` instead gives every cluster an owner:
the entry it belongs to (a directory's cluster and a slot), the running operation, the
root, or nobody. Links stay within one owner (`Links`), what is owned is taken in
the table (`Taken`), an entry owns the first cluster it names (`Tree`), and what the
running operation holds is its own (`Running`); chains are then inside one owner's
clusters, because those are closed under the links. A free cluster has no owner, so
taking one disturbs nobody (`OwnTake`); writing an entry hands the
operation's clusters over (`OwnAttach`); freeing is allowed to the entry being
removed, and `Unlink` makes its clusters nobody's (`OwnUnlink`). The directories in use form a set
`D` with a `depth`: each but the root is the directory of an entry in one less
deep, and its `..` is that one (`Reached`), so `D` lies in the tree `Dirs`. When a directory is
unlinked, `D` becomes the new `Dirs`; the current directory stays in it, because all
directories on the way up from it are less deep, and the removed one lies
directly below it. The depth argument uses the library's well-foundedness of the
natural numbers (`Lowest`). After a power loss in the middle of an operation, what was the
operation's is nobody's: lost, but harmless; only inside `rm`, after its first freed
cluster, and before a new directory has its dot entries is it not, and `torn` says so. `mkdir`
keeps `Reached` where the new directory lies in the current one; where it does not, `misled` is
set by the same step.

`FilesInv` adds the contents. `Row` numbers the clusters of a chain so that the first has 1, each
link adds one, the cluster with number i holds block i, and the last has the
number that is the file's size. `Intact` asks it of every entry, `Growing` of the chain
the running operation is building, with the one cluster not yet written as its `hole`,
and `Source` of the file a copy reads. A write goes to the operation's own
cluster, which by `OwnInv` is in no other chain, so every other row stays; a new entry takes over
the row of the operation. The two layers are proved apart: the second uses of the
first only who owns which cluster. `EntriesLast` follows from the owners alone: no step but the end of a
removal writes over a slot in use.

**The argument for names.** `IInv` says that the parts of every entry's name lie right
above it in order (`Runs`), that what looks like a first part has its entry right
below it (`Attached`), and that slots never written come last
(`NeverLast`), so a search does not stop early. `Attached` is what keeps the parts that `rm` leaves
behind from being read as part of another name: the one next to its entry is always deleted.

**The argument for memory.** `IInv` is the types, that no frame is two things
(`FramesExclusive`), that the last table stays empty (`TopIsNone`), the range of the
break (`Bounds`), and which pages are loaded (`ImageSoFar`). Frames are
never freed, so the bitmap only grows and a new frame is new for everybody. `GrantsInv`
adds for `GrantsSound` that everything granted ends at the break, while the program has
moved no stale one, and `BreakInv` that all from the image to the break is mapped and the break
a program remembers never lies above the kernel's.

**The argument for the installer.** `IInv` is the types, that the live disk stays what it
is (`LiveIsLive`), which drives the machine's states are about (`WhoIsWhere`), what
`do_install` has written when it stands at each step (`Progress`), and the two properties.

**The argument for the console.** The terminal is a function of characters, so what a string
prints is a recursive function of its length. What it does to a screen is proved
by looking at the first prefix that would break it (`LowestNumber`), because the provers
have no induction over an operator. `IInv` is the types and the line on the screen: from a
cursor on the screen a wrap and a scroll keep it there, and `Shown(line, n)` is the set of screens on which the parser is at rest and
the n cells before the cursor, counted over the ends of the rows, hold the first n characters
of the line. A letter extends this, a rubbed-out one shortens it also at the start
of a row, a scroll raises all of it, because the line is shorter than the screen, and after a
prompt the parser is at rest whatever a command left in it, because the first character of
the prompt, `/`, ends any sequence; from any column that character or the next wraps onto the
screen, if the row is one of the screen's. An arrow key that the ring cut reaches the editor as letters, which
it prints as it stores them.

**Only model-checked**: the liveness properties `NoStarvation`, `FreeEnds`, `InstalledInTheEnd` and
`TestedInTheEnd`, because this prover has no rules for fairness. Of the first two the
part without fairness is proved (`TickServes`, `FreeCountsDown`). Every other property of a
passing run is stated by a theorem. The violated properties are no theorems.

## 6. Hazards without a property

A few hazards in `PROJECT.json` have no property, with the reason in their `note`:
the documents do not say what should happen (a read of a directory, a request that wraps,
a full ring that cuts a sequence, type-ahead), or the module leaves the data out that would show it
(the length of an echo's content, the count of clusters at the very end of a disk).

## 7. Not modelled

- `core/usermem.c` is two comparisons without state: whether the first byte of a range
  lies between 1 MiB and 3 GiB and the range does not wrap. The pages behind it are not
  looked at, so nothing in the memory models could rely on it.
- Port input and output: disk driver, serial port, clock, power. A sector is written when the
  call returns.
- The drawing of glyphs, colours, the serial mirror.
- Of `find_free_cluster` the bound of its search: it can be one cluster past the data
  area (`storage/fat32_fat.c:45`), which only a disk filled to its last cluster meets.
- The assembly start-up code, descriptor tables and stubs; the models take from the
  stubs that they clear the interrupt flag first.
- The memory map, printed and used by nobody; the ramdisk, read once at boot.
- The built-in commands of the shell: each is one call of the file system, or prints.
- `task_fork`, `task_kill_current` and `paging_clone_dir_cow` have no caller.
- Host-side tools, `src/src/userspace/shell/installer.c`, which the Makefile does not
  build, and the vendored musl headers and library. The headers are most of the
  repository: about 19,700 of its 27,500 lines of implementation, against some 5,700 of the
  kernel, its shell and its runner in the files these models map, of which they map about 2,700.
