SPECIFICATION Spec
CONSTANTS
  Frames = 8
  PageSize = 2
  TablePages = 2
  Tables = 9
  SameTables = 8
  FrameBase = 0
  First = 9
  Last = 11
  Programs = 2
  Sizes = {1, 2, 3, 18}
  MaxGrants = 4
INVARIANTS
  NothingGivenTwice
\* A fault inside the kernel stops the machine.
CHECK_DEADLOCK FALSE
