\* FwdSetup_setup: the loop returns, so the last state has no successor.
SPECIFICATION Spec
CONSTANTS
  MaxPorts = 4
  MaxLcores = 4
  MaxQueues = 4
  MaxProcs = 3
CHECK_DEADLOCK FALSE
INVARIANTS
  TypeOK
  StreamsPartitioned
  
  ProcessesDisjoint
  LoopsMatchClosedForm
