SPECIFICATION Spec
CONSTANTS
  pid = pid
  another = another
  main = main
  other = other
  Callers = {main}
  Requests <- AllRequests
  Floats <- WildFloats
  MaxPayload = 4096
  MaxCalls = 3
  MaxConns = 2
INVARIANTS TypeOK AnswerIsOwn InStep
PROPERTY ImplementsCalls
CHECK_DEADLOCK FALSE
