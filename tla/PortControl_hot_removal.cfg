SPECIFICATION Spec
CONSTANTS
  NbEthPorts = 2
  DeviceOf <- OneDevice
  Commands <- Few
  Failures = {"configure", "queues", "start", "remove"}
  ProbeModes = {"event"}
  MaxRemovals = 1
  Interleaved = TRUE
  Signals = FALSE
INVARIANTS TypeOK StatusTruthful 
 
CHECK_DEADLOCK FALSE
