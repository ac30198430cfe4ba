SPECIFICATION FairSpec
CONSTANTS
  Kinds = {"framed", "upgraded", "raw_upgraded", "websocket", "passthrough"}
  Echoes = {TRUE, FALSE}
  Cap = 1
  MaxFrames = 2
INVARIANTS
  TypeOK
  ShownInOrder
  DeliveredAsKept
  ClosedOnce
  CutExplained
PROPERTIES
  SendsEnd
  EndsSpread
CHECK_DEADLOCK FALSE
