SPECIFICATION Spec
CONSTANTS
  NbMbufs = 5
  NbPktPerBurst = 3
  MaxPktBurst = 4
  GsoMaxPktBurst = 4
  TxRetryNum = 2
  TxPktNbSegs = 2
  NbFlows = 2
  NbClones = 1
  IpVarRange = 4
  RingCapacity = 3
  GroFlushCycles = 2
  SharedPorts = {1, 2, 3}
  StreamPorts = {1, 2}
INVARIANTS
  TypeOK
  MbufsAccounted
  OrderKept
  CountersBalance
  FlowsBackedOut
PROPERTY
  CallReturns
