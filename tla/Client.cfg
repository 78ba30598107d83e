SPECIFICATION FairSpec
CHECK_DEADLOCK FALSE
CONSTANTS
  MaxHosts = 2
  MaxWorkers = 2
  Scripts <- AllScripts
  MaxFaults = 1
  MaxTimeouts = 1
  PipeCapacity = 2
INVARIANTS
  TypeOK
  AnswersFound
  NoHostLeftBehind
  SoleSynthWorker
PROPERTIES
  CallsReturn
  OperationsEnd
