SPECIFICATION Spec
CONSTANTS
  Shapes <- MCAndWide
  Awaited <- MCAndWide
  Frames = 3
PROPERTY
  AllProcessed
CHECK_DEADLOCK FALSE
