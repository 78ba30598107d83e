SPECIFICATION EngineSpec
CONSTANTS
  Languages = {"enu", "deu"}
  Providers = {"community"}
  MaxSnapshots = 2
  MaxFailures = 0
INVARIANTS
  SnapshotInUse
