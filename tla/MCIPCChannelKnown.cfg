\* The code breaks both: take one away to see the other.
SPECIFICATION Spec
CONSTANTS
  pid = pid
  another = another
  main = main
  other = other
  Callers = {main}
  Requests <- SetRequests
  Floats <- WildFloats
  MaxPayload = 4096
  MaxCalls = 3
  MaxConns = 2
INVARIANTS ServerOutlivesClients OneConnection
CHECK_DEADLOCK FALSE
