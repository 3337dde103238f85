CONSTANTS
  Items = {x, y}
  NoItem = NoItem
  Capacity = 3
  head = head
  tail = tail
  Null = Null

SPECIFICATION Spec

INVARIANT TypeOK
INVARIANT PoolAccounted
INVARIANT LinksMirrored
PROPERTY ImplementsSequence
