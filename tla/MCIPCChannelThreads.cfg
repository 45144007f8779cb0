SPECIFICATION Spec
CONSTANTS
  pid = pid
  another = another
  main = main
  other = other
  Callers = {main, other}
  Requests <- SetRequests
  Floats <- WildFloats
  MaxPayload = 4096
  MaxCalls = 2
  MaxConns = 2
PROPERTY CallReturns
CHECK_DEADLOCK FALSE
