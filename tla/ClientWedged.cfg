SPECIFICATION FairSpec
CHECK_DEADLOCK FALSE
CONSTANTS
  MaxHosts = 2
  MaxWorkers = 2
  Scripts <- AllScripts
  MaxFaults = 1
  MaxTimeouts = 0
  PipeCapacity = 4
PROPERTIES
  LastResortReached
