\* ForwardingControl_service: rte_exit and undefined behaviour end a behaviour.
SPECIFICATION Spec
CONSTANTS
  NbEthPorts = 1
  InitialPorts = 1
  MaxQueues <- MCMaxQueues
  NbLcores = 2
  Engines = {"io", "noisy"}
  Topology = "paired"
  QueueCounts = {0, 2}
  NbCoreValues = {1, 2}
  CfgWhileRunning = FALSE
  BeginMayFail = TRUE
CHECK_DEADLOCK FALSE
PROPERTIES
  ImplementsService
  StopReturns
