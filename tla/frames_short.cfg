SPECIFICATION Spec
CONSTANTS
  Shapes <- MCAny
  Awaited = {}
  Frames = 3
PROPERTY
  Refinement
CHECK_DEADLOCK FALSE
