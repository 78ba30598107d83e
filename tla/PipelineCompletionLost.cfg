SPECIFICATION PipelineSpec
CONSTANTS
  WorkCapacity = 2
  EventCapacity = 4
  OutboundCapacity = 1
  PipeCapacity = 2
  MaxRequests = 12
  MaxGenerations = 4
  ClientKinds = {}
  Indexes = {}
  EciResults = {TRUE}
  Programs <- PlainUtterances
  MaxCancels = 0
  MaxTimeouts = 0
INVARIANTS
  EveryGenerationCompletes
