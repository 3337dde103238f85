CONSTANTS
  k1 = k1
  k2 = k2
  k3 = k3
  s1 = s1
  s2 = s2
  Keys = {k1, k2, k3}
  BadKeys = {tooLong}
  Items = {x1, x2}
  Capacities = {2, 3}
  Limits = {2, 3}
  Seeds = {s1, s2}
  Hash <- MCHash
  Empty = Empty
  NoItem = NoItem

SPECIFICATION DisciplinedSpec

PROPERTY ImplementsMap
