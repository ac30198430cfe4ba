SPECIFICATION Spec
CONSTANTS
  Conn = {c1}
  NHandlers = 2
  MaxReq = 1
  TlsPort = 443
  Ports <- OnlyTls
PROPERTIES
  ResponsesInReverse
