SPECIFICATION MCSpec
CONSTANTS
  Steps = 2
  Width = 2
  Concurrency = 2
  Run = Run
  Count = 7
  Limit = 3
  r1 = r1
  r2 = r2
  r3 = r3
  Requests = {r1, r2, r3}
  Transports = {"streamable-http", "sse", "stdio"}
  None = None
INVARIANTS
  UndoneAsOwed
  KeptWhileAwaited
PROPERTIES
  UndoneInReverse
  ToolRunEnds
  ImplementsPool
  BatchReturns
  ImplementsExchange
  RequestsEnd
CHECK_DEADLOCK FALSE
