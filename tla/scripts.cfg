SPECIFICATION RepairSpec
CONSTANTS
  plan = plan
  w1 = w1
  w2 = w2
  single = single
  Plan = plan
  Workers <- MCWorkers
  Single = single
  Permits <- MCPermits
  Attempts <- MCAttempts
  MaxAttempts <- MCMaxAttempts
  SafetyTime <- MCSafetyTime
  HoldTime <- MCHoldTime
  BotTime <- MCBotTime
  LoadingTime <- MCLoadingTime
  PipeRoom <- MCPipeRoom
  MaxInvocations <- MCMaxInvocations
INVARIANTS
  NobodySkipped
  PermitsAccounted
  ItsOwnServer
  OnlyALateSpawnTimesOut

  
  
CHECK_DEADLOCK FALSE
