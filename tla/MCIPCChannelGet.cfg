SPECIFICATION Spec
CONSTANTS
  pid = pid
  another = another
  main = main
  other = other
  Callers = {main}
  Requests <- VolumeRequests
  Floats <- WildFloats
  MaxPayload = 4096
  MaxCalls = 3
  MaxConns = 2
INVARIANT ServedCallSucceeds
CHECK_DEADLOCK FALSE
