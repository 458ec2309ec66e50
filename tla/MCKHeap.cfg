SPECIFICATION FairSpec
CONSTANTS
  HeapStart = 8
  HeapSize = 72
  Word = 96
  Requests = {0, 6, 12, 60}
INVARIANTS
  Tiles
  HeldIsTaken
  Coalesced
  EmptyHeapIsWhole
  PayloadsDisjoint
  InfoAddsUp
PROPERTIES
  FreeEnds
  AllocatorSpec
