CONSTANTS
  m1 = m1
  m2 = m2
  Materials <- MCMaterials
  Scenes <- MCScenes
  Room = 2

SPECIFICATION Spec

INVARIANT TypeOK
INVARIANT BonesMirrorSkeleton
INVARIANT StopsExplained
INVARIANT HierarchyMirrorsScene
INVARIANT ShadersFollowSkins
INVARIANT NamesFindBones

CHECK_DEADLOCK FALSE
