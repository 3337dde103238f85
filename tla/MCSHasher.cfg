SPECIFICATION Spec
CONSTANTS
  nil = nil
  NoId = nil
  Null = Null
  Garbage = Garbage
  Words <- MCWords
  Hash <- MCHash
  Fold <- MCFold
  PoolSizes = {1, 2}
  DefaultSize = 3
CHECK_DEADLOCK FALSE
INVARIANT TypeOK
PROPERTY ImplementsInterner
