CONSTANTS
  w = w
  alt = alt
  x = x
  KeyW = KeyW
  Unknown = Unknown
  Keys = {w, alt, x}
  Codes = {KeyW, Unknown}
  Code <- MCCode
  Keyboard = {w, alt}
  Alt = alt
  MaxQueue = 3

SPECIFICATION Spec

INVARIANT TypeOK
INVARIANT NoHangingKey
PROPERTY EdgesBetweenFrames
PROPERTY ReleaseArrives

CHECK_DEADLOCK FALSE
