SPECIFICATION FairSpec
CONSTANTS
  Conn = {c1}
  NHandlers = 3
  MaxReq = 3
  TlsPort = 443
  Ports <- TlsAndOther
PROPERTIES
  ImplementsContract
  Responsive
  Answered
