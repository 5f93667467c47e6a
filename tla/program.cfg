SPECIFICATION MainSpec
CONSTANTS
  Workers = {w1, w2}
  Clients = {c1, c2}
  PeersReset = TRUE
  Signals = {SIGINT, SIGTERM}
  MaxSignals = 2
INVARIANTS
  OneAccept
  ReadsAreSerial
PROPERTIES
  StopsUnlessOnItself
  AcceptedUnlessDropped
CHECK_DEADLOCK FALSE
