CONSTANT MaxFrames = 1

SPECIFICATION Spec

INVARIANT InstanceExists

CHECK_DEADLOCK FALSE
