SPECIFICATION MCSpec
CONSTANTS
  WorkCapacity = 2
  EventCapacity = 2
  OutboundCapacity = 1
  PipeCapacity = 2
  MaxRequests = 8
  MaxGenerations = 2
  ClientKinds = {"Initialize", "AddText", "InsertIndex", "Synthesize", "SetVoiceParam", "Stop", "Delete", "Hello"}
  Indexes = {1}
  EciResults = {TRUE, FALSE}
  Scripts <- AllScripts
  FreeRequests = 3
  FreeGenerations = 1
INVARIANTS
  TypeOK
  ReaderUsesLiveWorker
  OrderRetained
  LastIndexBeforeDone
  CancellationIsPrompt
  CompletionReported
PROPERTIES
  AnsweredOnce
  ImplementsStream
