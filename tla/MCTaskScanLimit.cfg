SPECIFICATION Spec
CONSTANTS
  MaxPid = 5
  MaxScan = 2
  KbSize = 1
  Mode = "NORMAL"
  ShellRuns = {"cmd", "runtests"}
  LinuxCalls = {"waitpid", "execve", "read"}
  HeapFails = TRUE
  DirFails = FALSE
PROPERTIES
  WakesAreEarned
