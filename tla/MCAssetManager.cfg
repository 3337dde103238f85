CONSTANTS
  a1 = a1
  a2 = a2
  a3 = a3
  a4 = a4
  a5 = a5
  n1 = n1
  n2 = n2
  n3 = n3
  bad = bad
  s1 = s1
  Assets = {a1, a2, a3, a4, a5}
  Names = {n1, n2, n3}
  BadNames = {bad}
  NameOf <- MCNameOf
  Kinds <- MCKinds
  PoolCapacities = {1, 3}
  MaxIndex = 5
  Capacities = {2, 4}
  Limits = {2}
  Seeds = {s1}
  Hash <- MCHash
  Empty = Empty
  NoItem = NoItem
  NoAsset = NoAsset
  Garbage = Garbage

SPECIFICATION Spec

INVARIANT TypeOK
INVARIANT FirstOfItsName
INVARIANT NoSilentLoss
INVARIANT ListOwnsAssets
PROPERTY StableIndices

CHECK_DEADLOCK FALSE
