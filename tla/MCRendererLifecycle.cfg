CONSTANT MaxFrames = 2

SPECIFICATION Spec

INVARIANT TypeOK
INVARIANT FramesEquipped
INVARIANT CleanExit
INVARIANT TwiceOnlyAfterFailedUpload

CHECK_DEADLOCK FALSE
