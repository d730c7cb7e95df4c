SPECIFICATION FairSpec
CONSTANTS
  c1 = c1
  Conns <- MCConns
  MaxWaves = 2
  MaxCommands = 1
INVARIANTS
  TypeOK
  ClientsHaveThreads
PROPERTIES
  HubSpec
  NeverBackwards
  PostedArrives
  StopReturns
  StoppedClientsEnd
  CommandsRun
CHECK_DEADLOCK FALSE
