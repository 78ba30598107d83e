SPECIFICATION LivenessSpec
CONSTANTS
  WorkCapacity = 1
  EventCapacity = 1
  OutboundCapacity = 1
  PipeCapacity = 2
  MaxRequests = 12
  MaxGenerations = 4
  ClientKinds = {}
  Indexes = {}
  EciResults = {TRUE}
  Scripts <- ShortScripts
  FreeRequests = 0
  FreeGenerations = 0
  Programs <- PlainUtterances
  MaxCancels = 1
  MaxTimeouts = 0
PROPERTIES
  EveryRequestAnswered
  HostExits
  SynthesisAnswered
