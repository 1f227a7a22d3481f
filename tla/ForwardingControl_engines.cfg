\* ForwardingControl_engines: rte_exit and undefined behaviour end a behaviour.
SPECIFICATION Spec
CONSTANTS
  NbEthPorts = 1
  InitialPorts = 1
  MaxQueues <- MCMaxQueuesThree
  NbLcores = 2
  Engines = {"io", "noisy", "icmpecho"}
  Topology = "paired"
  QueueCounts = {1, 3}
  NbCoreValues = {1, 2}
  CfgWhileRunning = FALSE
  BeginMayFail = FALSE
CHECK_DEADLOCK FALSE
INVARIANTS
  ContextsMatch
  QueuesOwnedOnce
  
