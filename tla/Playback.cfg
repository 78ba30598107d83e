SPECIFICATION FairSpec
CONSTANTS
  Streams <- MixedStreams
  PlayerCapacity = 2
  MaxCancels = 1
  MaxRestarts = 1
INVARIANTS
  TypeOK
  PlaybackInOrder
  UtterancesInOrder
PROPERTIES
  UtteranceFinishes
