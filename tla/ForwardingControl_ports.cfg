\* ForwardingControl_ports: rte_exit and undefined behaviour end a behaviour.
SPECIFICATION Spec
CONSTANTS
  NbEthPorts = 2
  InitialPorts = 1
  MaxQueues <- MCMaxQueues
  NbLcores = 2
  Engines = {"io"}
  Topology = "paired"
  QueueCounts = {1}
  NbCoreValues = {1, 2}
  CfgWhileRunning = FALSE
  BeginMayFail = TRUE
CHECK_DEADLOCK FALSE
INVARIANTS
  TypeOK
  PolledPortsStarted
  StopReachesAll
  NoUseAfterFree
  PortListsConsistent
