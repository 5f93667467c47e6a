SPECIFICATION WorldSpec
CONSTANTS
  Width <- MCWidth
  Height <- MCHeight
  Sections <- MCSections
  MinY <- MCMinY
  States <- MCStates
  Threads = {"generator", "t1", "t2"}
  WordBits <- MCWordBits
  MinBits <- MCMinBits
  MaxBits <- MCMaxBits
  IndexMod <- MCIndexMod
  Layers <- MCLayers
  Edits <- MCEdits
  Types <- MCTypes
  IdMod <- MCIdMod
  MaxEntities <- MCMaxEntities
  MaxCalls <- MCMaxCalls
INVARIANTS
  CountIsRight
  StreamedWasThere
  WordsAsAnnounced
  SpawnIsStandable
  FoundByItsId
PROPERTIES
  ImplementsStore
  ChunkIsSent
CHECK_DEADLOCK FALSE
