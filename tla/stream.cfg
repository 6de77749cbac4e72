SPECIFICATION Spec
CONSTANTS
  Streams <- PairStreams
  Limit = 7
  MaxRetries = 1
INVARIANTS TypeOK NoFalseAlarms EveryFailureSeen
CHECK_DEADLOCK FALSE
