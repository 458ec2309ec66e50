SPECIFICATION Spec
CONSTANTS
  DirSlots = 7
  Names <- MCNames
  Alias <- MCAlias
  Chunks <- MCChunks
  Fold <- MCFold
  Sum <- MCSum
INVARIANTS
  NamesAreKept
  AnswersToItsName
