----------------------------- MODULE CpuSharing -----------------------------
(***************************************************************************)
(* What the kernel's task layer promises, with no ring, no pointers and no *)
(* interrupts: one CPU is shared by processes that are born able to run,   *)
(* block or die only by their own act, are woken while blocked, and never  *)
(* come back from the dead.  The CPU is only ever handed to a process that *)
(* can run, and to the idle process only when nothing else can.            *)
(*                                                                         *)
(* Task.tla implements this specification (Task!CpuSharingSpec).           *)
(***************************************************************************)
EXTENDS Naturals

CONSTANTS Process,  \* every process that may ever exist
          Idle      \* the kernel's own process, pid 1

VARIABLES able,     \* processes that can use the CPU now
          blocked,  \* processes waiting for an event
          dead,     \* processes that have terminated
          cpu       \* the process on the CPU

vars == <<able, blocked, dead, cpu>>

TypeOK == /\ able \subseteq Process
          /\ blocked \subseteq Process
          /\ dead \subseteq Process
          /\ cpu \in Process

Born == able \cup blocked \cup dead

Init == /\ able = {Idle}
        /\ blocked = {}
        /\ dead = {}
        /\ cpu = Idle

(***************************************************************************)
(* One trip through the kernel on behalf of the process on the CPU: the    *)
(* process may spawn at most one new process, may itself block or die, and *)
(* may wake blocked ones; then the CPU is given to someone.                *)
(***************************************************************************)
Handler ==
  /\ dead \subseteq dead'
  /\ dead' \ dead \subseteq {cpu}
  /\ blocked' \ blocked \subseteq {cpu}
  /\ blocked \ blocked' \subseteq able'
  /\ able \ able' \subseteq {cpu}
  /\ \A p, q \in Born' \ Born : p = q
  /\ Born \subseteq Born'
  /\ able' \cap (blocked' \cup dead') = {}
  /\ blocked' \cap dead' = {}
  /\ Born' \ Born \subseteq able'
  /\ cpu' \in able'
  /\ cpu' = Idle => (cpu = Idle \/ able' = {Idle})

Next == Handler

Spec == Init /\ [][Next]_vars
=============================================================================
