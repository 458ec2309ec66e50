SPECIFICATION Spec
CONSTANTS
  MaxFds = 5
  SectorSize = 2
  SectorsPerCluster = 2
  Word = 64
  Files <- MCFiles
  Size <- MCSize
  Clusters <- MCClusters
  Entries <- MCEntries
  Counts = {0, 1, 3, 16}
  Shifts = {0, 3, 62}
  Copies = {0, 4, 5}
PROPERTIES
  ReadsTheFile
