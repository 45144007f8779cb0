SPECIFICATION Spec
CONSTANTS
  pid = pid
  another = another
  main = main
  other = other
  Callers = {main}
  Requests <- SetRequests
  Floats <- WildFloats
  MaxPayload = 4096
  MaxCalls = 3
  MaxConns = 2
INVARIANT AnswerAlwaysOwn
CHECK_DEADLOCK FALSE
