SPECIFICATION Spec
CONSTANTS
  Workers = {w1, w2}
  Clients = {c1, c2, c3}
  PeersReset = TRUE
PROPERTY
  EveryoneAccepted
CHECK_DEADLOCK FALSE
