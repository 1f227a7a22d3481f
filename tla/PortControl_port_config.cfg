SPECIFICATION Spec
CONSTANTS
  NbEthPorts = 2
  DeviceOf <- OneDevice
  Commands <- WholeCommands
  Failures = {"configure", "queues", "start", "reset"}
  ProbeModes = {"event"}
  MaxRemovals = 1
  Interleaved = FALSE
  Signals = TRUE
INVARIANTS RecordsMarked ListsAttached PolledRunning ExitClosesAll
 
CHECK_DEADLOCK FALSE
