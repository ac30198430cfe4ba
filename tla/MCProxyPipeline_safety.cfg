SPECIFICATION Spec
CONSTANTS
  Conn = {c1, c2}
  NHandlers = 2
  MaxReq = 2
  TlsPort = 443
  Ports <- OnlyTls
SYMMETRY Symmetry
INVARIANTS
  TypeOK
  ChainDiscipline
  TunnelDecision
  NoSilentLoss
  UniqueIds
  ExchangesBalanced
PROPERTIES
  InsertionOrder
