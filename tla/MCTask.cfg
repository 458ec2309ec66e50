SPECIFICATION FairSpec
CONSTANTS
  MaxPid = 5
  MaxScan = 5
  KbSize = 1
  Mode = "TEST"
  ShellRuns = {"cmd", "runtests"}
  LinuxCalls = {"waitpid", "execve", "read"}
  HeapFails = TRUE
  DirFails = TRUE
INVARIANTS
  TypeOK
  RingHoldsTheLiving
  ParkedWhileChildLives
  NoSleeperMissesAKey
  ImagesIntact
  SweepIsOver
  KmainUndisturbed
  OneAtATime
PROPERTIES
  OnlyFailedLoadsLinkFreed
  WakesAreEarned
  IdleComesLast
  CpuSharingSpec
  NoStarvation
