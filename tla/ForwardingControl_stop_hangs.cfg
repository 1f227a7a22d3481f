\* ForwardingControl_stop_hangs: the reconfiguration of a running test, which the code lets through.
SPECIFICATION Spec
CONSTANTS
  NbEthPorts = 1
  InitialPorts = 1
  MaxQueues <- MCMaxQueues
  NbLcores = 2
  Engines = {"io"}
  Topology = "paired"
  QueueCounts = {2}
  NbCoreValues = {1, 2}
  CfgWhileRunning = TRUE
  BeginMayFail = FALSE
CHECK_DEADLOCK FALSE
PROPERTIES
  StopReturns
