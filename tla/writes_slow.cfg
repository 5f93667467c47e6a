SPECIFICATION WriterSpec
CONSTANTS
  Packets <- MCPackets
  Length <- MCLength
  SendBuffer = 3
INVARIANTS
  WritesInOrder
PROPERTIES
  AllWritten
CHECK_DEADLOCK FALSE
