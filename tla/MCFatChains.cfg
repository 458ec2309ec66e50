SPECIFICATION Spec
CONSTANTS
  LastCluster = 5
  DirSlots = 2
  Names = {"a", "d"}
  Contents = {"echo", "install"}
  Calls <- MCCalls
INVARIANTS
  TypeOK
  NoSharedClusters
  FilesIntact
  CwdIsDirectory
