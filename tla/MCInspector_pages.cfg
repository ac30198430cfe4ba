SPECIFICATION FairSpec
CONSTANTS
  Requests = {1, 2}
  Kinds = {"normal", "mock", "websocket", "websocket_clear", "dashboard", "dashboard_uri"}
  Pages = {p1}
  Keep = 2
  Capacity = 1
  MaxFrames = 2
  MaxClears = 1
INVARIANTS
  HistoryIsLog
  RecordsMatch
  LeakExplained
  StreamContiguous
PROPERTIES
  PollersCatchUp
  StreamsCatchUp
CHECK_DEADLOCK FALSE
