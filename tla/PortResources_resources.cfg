SPECIFICATION Spec
CONSTANTS
  MaxId = 2
  NbObjects = 3
  Attributes <- RuleAttributes
  Offloads = {"vxlan", "gre"}
  MaxTunnelId = 3
  MaxHeld = 2
  McastPoolInc = 2
  MacAddrs = {1, 2, 3, 4, 5}
  NbFlexItems = 3
  FlexMaxSamples = 2
  FlexPatterns = {0, 1}
  PatternLength = 3
  MaxAttached = 2
INVARIANTS
  TypeOK
  ContextsAlive
  TablesMatchDevice
  TunnelReleased
  ListsOrdered
