CONSTANTS
  d1 = d1
  d2 = d2
  m1 = m1
  m2 = m2
  Meshes <- MCMeshes
  Materials <- MCMaterials
  EmptyMaterial = m1
  Nothing = Nothing
  VSOrders <- MCVSOrders
  PSOrders <- MCPSOrders
  MaxFrames = 2
  MaxEdits = 1

SPECIFICATION Spec

INVARIANT TypeOK
INVARIANT DrawReadsItsOwn
INVARIANT SkinsArePosed
INVARIANT ReleaseLeavesNothing

CHECK_DEADLOCK FALSE
