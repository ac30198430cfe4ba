SPECIFICATION FairSpec
CONSTANTS
  Kinds = {"framed", "upgraded"}
  Echoes = {TRUE}
  Cap = 1
  MaxFrames = 4
PROPERTIES
  EchoedSendsEnd
CHECK_DEADLOCK FALSE
