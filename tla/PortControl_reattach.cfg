SPECIFICATION Spec
CONSTANTS
  NbEthPorts = 2
  DeviceOf <- OneDevice
  Commands = {}
  Failures = {}
  ProbeModes = {"iterator"}
  MaxRemovals = 0
  Interleaved = FALSE
  Signals = FALSE
INVARIANT PortsListDistinct
CHECK_DEADLOCK FALSE
