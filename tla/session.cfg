SPECIFICATION JoinSpec
CONSTANTS
  OfflineMode = TRUE
  Closable = TRUE
  Registries <- MCRegistries
  MaxOutbox <- MCMaxOutbox
  MaxPings <- MCMaxPings
  MaxInfos <- MCMaxInfos
  MaxUnread <- MCMaxUnread
INVARIANTS
  JoinTypeOK
  TimersInStep
  OutboxInOrder
  ReadAsMeant
  SpawnedInTheWorld
  ReferencesResolve
  NobodyWaits
  NamedPastLogin
PROPERTIES
  TickerKeepsTicking
  OnlyTickerHolds
  JoinCompletes
  InLockstep
CHECK_DEADLOCK FALSE
