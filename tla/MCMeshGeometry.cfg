SPECIFICATION MeshSpec
CONSTANTS
  Meshes <- MCMeshes
  ControlPoints <- MCControlPoints
  SubGeomMax = 4
  BoneSlots = 4
  WeightThreshold = 3
CHECK_DEADLOCK FALSE
INVARIANT MeshTypeOK
INVARIANT IndicesFaithful
INVARIANT WeightsKept
