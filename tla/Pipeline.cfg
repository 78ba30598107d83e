SPECIFICATION PipelineSpec
CONSTANTS
  WorkCapacity = 1
  EventCapacity = 1
  OutboundCapacity = 1
  PipeCapacity = 2
  MaxRequests = 12
  MaxGenerations = 4
  ClientKinds = {}
  Indexes = {}
  EciResults = {TRUE}
  Programs <- PlainUtterances
  MaxCancels = 1
  MaxTimeouts = 1
INVARIANTS
  PipelineTypeOK
  OneCompletion
  SoleGenerationCompletes
  OwnTextWithoutCancel
  StaleChunksBounded
PROPERTIES
  NoGenerationAfterStop
