SPECIFICATION WriterSpec
CONSTANTS
  Packets <- MCPackets
  Length <- MCLength
  SendBuffer = 3
INVARIANT
  Framed
CHECK_DEADLOCK FALSE
