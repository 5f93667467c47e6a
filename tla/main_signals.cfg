SPECIFICATION MainSpec
CONSTANTS
  Workers = {w1, w2}
  Clients = {c1, c2}
  PeersReset = FALSE
  Signals = {SIGINT, SIGTERM}
  MaxSignals = 2
PROPERTY
  SignalStops
CHECK_DEADLOCK FALSE
