SPECIFICATION Spec
CONSTANTS
  Conn = {c1}
  NHandlers = 1
  MaxReq = 1
  TlsPort = 443
  Ports <- TlsAndOther
INVARIANTS
  DialsNamedPort
