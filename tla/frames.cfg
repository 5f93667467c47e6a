SPECIFICATION Spec
CONSTANTS
  Shapes <- MCAny
  Awaited <- MCShort
  Frames = 3
INVARIANTS
  TypeOK
  InStep
PROPERTIES
  Refinement
  AllProcessed
CHECK_DEADLOCK FALSE
