SPECIFICATION Spec
CONSTANTS
  CTX_STACK_SIZE = 16
  Untyped = {"ITEM_CONNTRACK"}
INVARIANTS
  TypeOK
  ObjectsFit
  EntriesSound
  LinesComplete
  DispatchReady
