SPECIFICATION Spec
CONSTANTS
  Streams <- ShortStreams
  PlayerCapacity = 2
  MaxCancels = 1
  MaxRestarts = 0
INVARIANTS
  NoStaleNotification
